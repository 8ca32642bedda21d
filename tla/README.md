# TLA+ model of the DAppNode VPN server

This directory specifies and verifies the core of DNP_VPN: the OpenVPN server
package of a DAppNode, with its device calls, its PKI, the links that share
credentials and the supervisor of the `openvpn` process. Paths below are
relative to the root of the repository.

## 1. Inventory

One container runs one node process (`src/src/index.ts`) and, as its child,
`openvpn`. The node process runs shell commands: the scripts of `bin/` and
`easyrsa`, which change the PKI on a volume. docker restarts the container.

| Component | State | Operations | Interacts with |
|---|---|---|---|
| Credentials service (`credentials/credentialsFile.ts`) | `tokens` map in memory, `tokens-db.json`, a daily timer | load, persist, prune, `getConnectUrl`, `generateCredFileFromToken`, `onDeviceConnected`, `deleteTokenForId` | device calls, webserver, the client-connect hook of openvpn, signals |
| Device calls (`calls/`) | a handler between its awaits | `addDevice`, `removeDevice`, `resetDevice`, `listDevices`, `getDeviceCredentials`, `getMasterAdminCred`, `getCredFile`, `getStatus` | PKI, credentials service; called by the RPC API and by start-up |
| PKI (`openvpn/`, `bin/ovpn_*client*`, easyrsa) | key, request and certificate of each device, index, CRL and its copy | build, revoke, generate and copy the CRL, unlink, list, print the client file | read by openvpn |
| Supervisor (`utils/supervisor.ts`) | `child`, `crashQueued`, timers, signals | `restart`, start after an exit, kill | `ovpn_run`, start-up |
| Credentials webserver (`credentials/webserver.ts`) | none of its own | serve the page, serve the encrypted file of a token | credentials service, client file |
| Start-up (`index.ts`, `openvpnConfig.ts`, `ovpn_genconfig`, `ovpn_initpki`) | `config.vpnStatus`, `config.hostname`, `ovpn_env.sh`, `openvpn.conf`, a new PKI | fetch the hostname, write the configuration, make the PKI, create the main admin, start openvpn | all |
| Hostname polling (`fetchHostname.ts`), `getAdminCredentials`, `vpncli get` | `config.vpnStatus`, retries of three kinds | poll the DAPPMANAGER; poll the server, then ask for a link | DAPPMANAGER, docker, RPC API |
| Internal IP (`fetchInternalIp.ts`) | `config.internalIp` | fetch or use the cache | client file |
| Credentials page (`ui_openvpn`), client-connect hook | what the page shows; a process for each connection | open a link, wait, decrypt; tell the API of a connection | webserver, RPC API |
| RPC API, rest of the CLI, formatting, logs | none | | |

What is hard:

- the HTTP API runs handlers concurrently, every command is an `await`, and no
  handler holds a lock: a listing, a client file or a check is stale when used;
- a removal is six steps on disk (revoke, generate the CRL, copy it, three
  files) and can be cut off between any two;
- a command is killed after three minutes while a process below it may go on;
- the tokens live in memory and are written only when the process is told to
  stop;
- exit events, timers and restarts of the supervisor share two variables;
- a start writes files line by line, takes its name from the file of the last
  one, and can be cut off anywhere while the API already answers, about any name,
  that of the server too;
- the webserver checks a token two awaits before it answers with the file;
- a connection is told by a process of its own, at any later time;
- retries are nested in retries, in a process that docker restarts, and polled by
  a command that has retries of its own; the call behind it is not retried;
- fetches of the internal IP overlap, and share one cached value.

What makes each part correct, in one line each: a device that was removed or reset
can never connect again, and one that can is on the listing (PKI); a device has
one link, which works until it is used and never after (credentials); the main
admin is never lost, the limit holds, and what is left after a call is usable by
the next one (device calls); one openvpn runs, always runs again, and stops with
the container (supervisor); the configuration names a certificate that exists and
a PKI is never erased (start-up); a link that was closed delivers nothing more,
and no page waits for an answer that will not come (webserver and page); the
server gets READY, every command ends, and one that was told READY gets to a
server that can make a link as long as the container runs (hostname and command);
the cached IP does not go back (internal IP).

## 2. Modules

| Module | Models | Uses |
|---|---|---|
| `TokenMap` | the tokens map as a function, and the operations on it | |
| `CredTokens` | the credentials service: process, file, timer, faults | `TokenMap` |
| `CredLinks` | abstract: what the service promises of the links it hands out | |
| `Pki` | the files, the index, the CRL and its copy, and the commands on them | |
| `Access` | abstract: what the device calls promise of certificates | |
| `Devices` | the concurrent device calls on the PKI, with faults and restarts | `Pki`, an instance of `Access` |
| `Supervisor` | the supervisor of openvpn | |
| `Startup` | the steps of a start, with kills, a changed hostname, the API | |
| `Delivery` | page, credentials webserver and client-connect hook on top of the credentials service | `TokenMap`, instances of `CredTokens` and `CredLinks` |
| `AdminLink` | hostname, status, internal IP, and the commands that get a link | |
| `MC*` | the instances for TLC | |
| `TokenMapProofs` | lemmas on the operations of a tokens map | `TokenMap` |
| `CredTokensProofs`, `DevicesProofs`, `SupervisorProofs`, `StartupProofs`, `DeliveryProofs`, `AdminLinkProofs` | theorems and proofs | the module of that name |
| `DevicesCleanProofs` | theorems about `Devices` when no command fails | `DevicesProofs` |

### TokenMap and CredTokens

`tokens` is a function on `Token` with `NoData` where the map has no entry; an
entry is the record `TokenData` of the code without its key, which is drawn
with the token and never changes. `tokensDb` is the file: a map, or `NoDb` when
it is missing or cannot be parsed. `getRandomToken` draws a token that was never
drawn before (`drawn`). Each function of the file is an action or an operator of
the same name. `GetConnectUrl` gives a step only when a new token is drawn:
returning the token the device has changes nothing. `Exit` is every way out
that runs the listener of `exit`; `Crash` is the way that does not.

`Origins(t)` is what map and file together know of the device and the time of
issue of a token: after a crash the next process takes the file for the map, so a
token is what either says of it.

Faults: `"crash"` allows `Crash`; `"write"` lets `PersistTokens` leave the old
file or an unreadable one. Time is in units of the ages; in the code they are 5,
30 and 1 days.

### Pki and Devices

A key pair is a number. A request and a certificate carry the number of their
pair, so "the certificate matches the key" is an equality and a certificate is
identified for good. `revoked` is the index, `crl` is `pki/crl.pem`, `live` is
the copy openvpn reads.

`job[p]` is the request in slot `p`: its call, its device, and the command it
runs next. A handler is a sequence of actions, one for each command between two
awaits; the code after a command is part of its action (`RemoveFiles` is the
three `unlinkSync` and `deleteTokenForId`, with the throw at the first missing
file). `resetDevice` continues from the removal to the build,
`getMasterAdminCred` from its listing to `addDevice` and to
`getDeviceCredentials`, also when the first part threw (`Caught`).

Faults: `"timeout"` is the limit of `shell` (3 minutes). The handler fails at
any command; the easyrsa below it either is gone (`Timeout`) or goes on on its
own (`TimeoutOrphan`: the command moves to a slot of its own as an `"orphan"`).
`"stop"` and `"kill"` end the container with and without the listeners, also
between two `unlinkSync` (`KillUnlinking`); `Boot` starts it again.

`Access` is the abstract specification: a device is issued a certificate that was
never issued before, and only when it has none; openvpn refuses more certificates
and never fewer; a device loses its certificate only when openvpn refuses it. The
refinement mapping takes the certificate file of each device (`crt`), the
certificates that were ever signed (`signed`) and the copy of the CRL that openvpn
reads (`live`). A removal is thus two steps of `Access`, a refusal and a loss, and
everything else that a call does, or leaves undone, is a stutter. `BuildLeft`,
`RevokedLeft` and `RemovalLeft` say which files a call that was cut off can leave.
A device that is only `RevokedLeft` may still connect: openvpn refuses it once a CRL
with its certificate is generated and copied. `RemovalLeft`, the one that lost a
file, is refused by then.

Assumptions: an easyrsa command is atomic (its own crash is not modelled), and so
is the `cp` of the CRL: both read what there is when they take place, so that a
copy that was read earlier is never written late;
`build-client-full` refuses to overwrite, so a name that has any file fails;
`easyrsa revoke` leaves the three files in place, as `removeClient` relies on;
`openssl ca -revoke` fails on a certificate that is revoked. A client file is
read in two steps, the key with the test that it exists, then the certificate.
The listing of `ovpn_listclients` is one step. Names that the handlers refuse
at once (empty, guest) are not in `Device`, and every name is a file name that
the shell passes on unchanged.

### Supervisor

`startIn[n]` and `restartIn[n]` count the timers due in `n` units of 50 ms, so
that the second between an exit and a start and the 50 ms of a restart race as
they do in the code. `RestartWait = 20` and `RestartDelay = 1` are its real
delays. A child that ends is in `exited` until its event is delivered.
`AnyTime = FALSE` keeps `restart()` from being called while a start is due. Its one
caller is `index.ts`, which calls it once, at the end of a start of the container,
when nothing is due yet; a caller that is added one day could do otherwise.
A `spawn` may fail at any time; `failed` remembers that one did.

### Startup

`at` is where `startVpnClient` is; every command that changes a file is a step,
and the container may end between any two (`Kill`, which also stands for a
command that fails or lasts 3 minutes, since `index.ts` then calls
`process.exit`). The one variable of the configuration that is kept is
`OVPN_CN`, which is in four places: `name` (`config.hostname`), `cn` (in
`ovpn_genconfig`), `env` (`ovpn_env.sh`) and `conf` (the certificate that
`openvpn.conf` names). `ovpn_env.sh` is truncated (`GenTruncate`) and then
written (`GenSave`): it has the line of `OVPN_CN` or not. The PKI is the set of the
names with a key, with a request and with a certificate (`keys`, `reqs`, `issued`),
those whose certificate is one for a server or is revoked (`servers`, `revoked`),
and whether CA and CRL exist.

`calls` are the calls of the API that answer meanwhile, `addDevice`, `removeDevice`
and `resetDevice`, each a sequence of commands that may fail, and a removal one of
unlinks that may be cut off (`KillUnlinking`). They take any name, that of the
server too: `removeDevice` removes what the listing shows, which hides the server
only as long as `ovpn_env.sh` has its name, and `resetDevice` does not look at the
listing. `touched` remembers that one of the two was asked to take the server for a
device: a removal of a hostname while `ovpn_env.sh` is empty, a reset of a hostname
at any time. `torn` remembers that a start was cut off in one of the `Windows`, in
which it leaves what no later start repairs. Timeouts need no step of their own
here: the easyrsa of an orphan does what its call would do if it failed one command
later. `ServerFails` is the start that fails because a device took the server's name
first.

### Delivery

`req[r]` is a request of the webserver (`"cred"`) or the call
`getDeviceCredentials` (`"link"`), which goes through two awaits: the internal IP
and `ovpn_getclient`. `reply[r]` is what is on its way back: the answer 200 with the
file, the answer 500, or the connection that was destroyed. `FailsAndFallsThrough` is
the catch of the webserver, which answers 500 and falls through to the default case,
which destroys the connection: the answer has left by then, or it has not. `page[r]`
is what the page that made the request shows, which changes when it is opened and
when it gets its reply (`Receive`); the end of the process destroys the connections
of its requests. A page with the parameter `dev` (`OpenDev`) makes no request and may
load for ever: `dev` keeps those apart. That a request leaves the page and that it
arrives is one step. The
service below is `CredTokens` without faults, on the same variables, whose actions
are composed with those of the requests. A device exists or not (`devices`).
`hooks` are the connections the API was not told of yet: `Connect` starts the
process of the hook, `Hook` is its arrival, and the end of the container takes
those that are left. `closed` remembers every token that was closed: used,
expired, deleted or pruned; `late` marks a request that came after that. A secret
box is the key it was made with, and opens with that key only. The process stops
in an orderly way here; what a kill undoes is the subject of `tokens_crash`.

`CredLinks` is the abstract specification: a link has an owner and an age, is
issued only when its device has no live one, and closes when its device connects
or is deleted, or by age. The refinement mapping (`OpenLinks` of `CredTokens`) takes
as open the tokens that are in the map, unused, with their owner and their birth;
while no process runs, those of the file. `CredLinks` lets a device be deleted or
connect at any time, so it does not say why the links of a device close, but that
they close together, that no other device's do, and that they stay closed.

### AdminLink

`boot` is where `startVpnClient` is and `status` is `config.vpnStatus`, which starts
anew with each process. `saw` are the commands that were told READY, which they
remember when the container ends; `died` are those of them in whose time it ended.
`gotTry` and `try` count the retries
of `got` and of async-retry, the first inside the second: when both are used up the
process exits (`GiveUp`) and docker starts it again (`Boot`). `polls[c]` counts
those of a command `getAdminCredentials`, which then makes one call without a
retry; `vpncli get` makes the call at once. `call[x]` is that call at the server,
between its awaits: the request to the DAPPMANAGER, the arrival of the answer,
`ovpn_getclient`. The start makes the same call (`Start`) and is READY when it
returned, with or without an error. An IP is its age: the DAPPMANAGER has 1, then
2, and so on. The DAPPMANAGER (`dm`) is down, up, up without a domain (`"empty"`),
or accepts connections and does not answer (`"hung"`), and changes at any time. A
process that ends takes its calls with it; an interrupted command does not end its
call. Delays are not modelled: any retry may come at any time.

Assumptions: the environment variables that spare a fetch are not set; a
connection to a DAPPMANAGER that hung ends, with an error or an answer, once it
does not hang any more; `got` inside `getInternalIpCached` retries by itself, and
`AskIp` is its last request.

## 3. Runs

| Run | Checks | Result |
|---|---|---|
| `tokens_faults` | `TypeOK`, `OneActiveToken`, `RetentionBounded`, `OriginIsFinal` with crashes and failed writes | holds |
| `tokens_crash` | `UsedIsFinal` with crashes | violated |
| `devices_faults` | `TypeOK`, `AcceptedIsListed`, `LimitOvershoot`, `LeftoversAreKnown` and `KeepsAccess` (refinement of `Access`) with all faults | holds |
| `devices_clean` | `HealthyAtRest`, `RevokedIsRefused`, `RefusedForGood`, `AdminStays`, no command fails | holds |
| `devices_links` | `NoDanglingLink` | violated |
| `devices_partial` | `ListedIsRemovable` with kills | violated |
| `devices_file` | `FileIsComplete` | violated |
| `supervisor` | `TypeOK`, `OneChild`, `StopReachesChildren`, `NeverIdle`, `AlwaysRunsAgain`, spawn may fail | holds |
| `startup_kills` | `TypeOK`, `ReadyCanServe`, `ServerIsNoDevice`, `PkiForGood`, starts cut off anywhere, calls about any name | holds |
| `startup_pki` | `ReadyPkiComplete` | violated |
| `delivery_links` | `TypeOK`, `NoFileOnceClosed`, `NoPageIsLeft`, and `KeepsLinkPromises`: refinement of `CredLinks` | holds |
| `admin_link` | `TypeOK`, `ReadyMeansUrl`, `IpNeverGoesBack`, `NobodyIsForgotten`, `ServerGetsReady`, `CommandEnds` | holds |

What the violated ones show, each a disagreement of the code with what it says:

- **`tokens_crash`**: the mark of a used token is in memory only. After a kill
  the token opens the credentials again, until it expires.
- **`devices_links`**: a link that is asked for while its device is removed gets a
  new token after the tokens of the device were deleted. The webserver then
  answers with an error, but the token is kept, and becomes the link of the next
  device of that name.
- **`devices_partial`**: after a removal that was cut off behind the revocation,
  the device is listed and every removal or reset of it fails. If the kill came
  before the CRL was generated and copied, the device also connects until another
  removal does that: `ovpn_run` copies a CRL, and does not generate one.
- **`devices_file`**: a file of an existing client that is made while the client is
  removed or reset has an empty certificate, or one of another key, and is delivered
  as a success. (A file made while its device is built for the first time has no
  certificate either; the property does not count it, since the client does not
  exist yet.)
- **`startup_pki`**: a PKI counts as initialised when `pki/reqs` is not empty,
  which it is before the server's certificate is signed and the CRL is made.
  After a kill in that window every later start skips `ovpn_initpki`, and reaches
  READY without a certificate to serve with, or without a CRL, in which case
  `ovpn_run` starts openvpn without `--crl-verify`. The run counts only PKIs whose
  server no call was asked to take (`~touched`).

Known limits of the code that have no run of their own:

- two concurrent `addDevice` pass the check of the limit on the same listing and
  exceed it. `LimitOvershoot` says how far: by less than the number of
  concurrent requests, and no further whatever happens;
- `OneChild` fails for `AnyTime = TRUE`: a restart asked for in the second after
  an exit starts a child, and the timer of the exit starts another. No caller
  does that today;
- a kill while `ovpn_env.sh` is empty makes the next start take the hostname of
  the day as `OVPN_CN`; if it changed, `openvpn.conf` names a certificate that
  does not exist (`"genSave"` in `Windows`);
- the API can take the server's certificate: while `ovpn_env.sh` is empty the listing
  shows it as a device, and `removeDevice` removes it; `resetDevice`, which does not
  look at the listing, replaces it at any time with one for a client. openvpn cannot
  serve after its next start then. `ServerIsNoDevice` says that the first can happen
  in one step of a start only; `ReadyCanServe`, `PkiForGood` and `ReadyPkiComplete`
  except both (`touched`);
- a device whose removal is killed between `easyrsa revoke` and the copy of the CRL
  still connects until another removal generates and copies a CRL;
- a command `getAdminCredentials` that was told READY makes its one call without a
  retry, and when the container ends in between the call meets no server, or one
  that has no hostname yet. `ReadyMeansUrl` says that it takes the end of the
  container;
- a page opened with the parameter `dev=loading` loads for ever, as it is meant to;
- a file request that began before its link was closed is served afterwards, and
  with the file of a new device when the name was built again meanwhile;
- a hook that arrives after a new link of its device was made closes the new link;
  nothing tells it from the connection that closed the old one;
- the webserver answers 500 for an expired link and then falls through to the
  default case (`webserver.ts:46`), which closes the connection; the page has a
  message for 404, which is never sent, and shows the error of its request instead;
- the retries of `got` are nested in those of async-retry, so that a start gives up
  after about three hours, and not after the "15 min" of the comment;
- `fetchInternalIp.ts` calls `got` without a timeout, so a call waits as long as the
  DAPPMANAGER does. `CommandEnds` excepts one that hangs for ever;
- `fetchInternalIp.ts:10` reads the variable `INTERNAL_IP` of the environment, where
  `fetchHostname.ts` reads its own with the prefix `_DAPPNODE_GLOBAL_`
  (`GLOBAL_ENVS_KEYS`, `GLOBAL_ENVS`), so the IP is fetched even when it was given;
- while fetches of the internal IP overlap, the older of their addresses may be the
  one that is kept. `IpNeverGoesBack` says that it is never older than the one that
  was there before they began.

### Bounds

- `tokens_*`: two devices and three tokens, an age of validity of 1, of pruning
  of 2, a timer of 1 and a clock up to 5 (4, 3): enough for a token to be
  used, expire, be pruned, and be brought back by an old file, and for a second
  and a third token of the same device next to one of the other.
- `devices_faults`: the admin and two devices, two slots, five requests, a limit
  of 1; any number of timeouts, stops and kills. Two slots are enough for every
  pair of calls to race, an orphan taking one of them; five requests let a
  device be built, removed, built again and removed while another call goes on.
- `devices_clean`: three slots and a limit of 2, no faults: three calls on one
  device at the same time.
- `supervisor`: three processes at a time and two timers of a kind for the same
  instant. Neither is reached when `OneChild` holds, and the delays are the real
  ones.
- `startup_*`: two hostnames, the main admin, and two calls of the API at a time on
  any of the three names. There is no bound on the number of starts, kills, calls
  and changes of the hostname. One of the hostnames can be the server's and the
  other the name of a device, so the two calls can meet on a device and on the
  server, next to a start.
- `delivery_links`: two devices, two tokens, two requests at a time, an age of
  validity of 0, of pruning of 1, a timer of 1 and a clock up to 2: a token can be
  drawn, closed in each of the ways, pruned, and asked for again, next to a second
  one of the same device or of the other. 2.9 million states, about three minutes.
- `admin_link`: one command, which can be run any number of times, next to the
  start, one retry of each kind, two IPs, one kill. The start and the command are
  two callers whose fetches overlap; a call of an interrupted command goes on next
  to them; one retry is enough to tell a counter that is reset from one that is
  not. The same run with two commands has 1.68 million states, takes about five
  minutes, and found no error either.

The symmetry of devices other than the admin, of slots, hostnames, calls and tokens
is used in runs that check no liveness property. The refinements and action
properties those runs check are safety properties, and neither they nor the modules
tell one such device, slot, hostname, call or token from another.

### Fairness

`FairSpec` of `Supervisor`: the event loop runs each callback that
is ready (`RestartTimer`, `StartTimer`, `OnExit`) and time passes (`Tick`): weak
fairness. A child need not exit, nobody need call `restart()` or stop the
process. `AlwaysRunsAgain` excepts a failed `spawn`: it has an `error` event and
no `exit` event, so nothing starts the child again.

`FairSpec` of `AdminLink`: docker starts the process again, as its restart policy
says; the delays of the retries pass and the event loops of the server and of each
command go on (weak fairness of `ServerStep`, of each call and of each command).
Nothing is assumed of the DAPPMANAGER, whose good behaviour is the hypothesis of
the two properties, nor of who runs, interrupts or repeats the commands. Kills are
bounded (`MaxFaults`); a process that is killed for ever is never READY.

## 4. Proofs

TLAPS checks, for every value of the constants that satisfies the assumptions
`AgeAssumption`, `NoDataAssumption`, `PruneAssumption`, `NoDbAssumption`,
`DevicesAssumption`, `SupervisorAssumption`, `StartupAssumption`,
`DeliveryAssumption` and `AdminLinkAssumption` (which TLC evaluates in the runs):

### The credentials service

`TokenMapProofs` has the lemmas on the map: the operations keep its type, and
marking, deleting, pruning and the passing of time make no token active.
`CredTokensProofs` proves, with any crashes and failed writes:

- `TypeCorrect`;
- `OneTokenPerDevice`. `OneActiveToken` alone is not inductive: the map that a
  process loads was written earlier, so the invariant says of the file too that it
  has one active token per device at the present time; tokens only cease to be
  active as time passes;
- `RetentionIsBounded`: the invariant adds that the timer is never overdue and what
  the last pruning left;
- `OriginsAreFinal`: no step gives a drawn token an origin that neither map nor
  file had (`OriginStep`). Only `GetConnectUrl` adds one, for a token not yet drawn;
- `MapAndFileAgree`: map and file never disagree on the device or the time of issue
  of a token (`OneOrigin`). It needs `KnownIsDrawn`, that every token of an old file
  was drawn, so that no file can hold a token that is yet to be drawn.

Without faults it proves `UsedUnlessKilled`, the property that `tokens_crash` finds
violated: the file of a process that ended is the map it had.

### The device calls

`DevicesProofs` is about any number of devices and of concurrent requests and any
set of faults.

- `OnlyListedDevicesConnect`, `RefusalIsForGood`, `TypeCorrect`: the inductive
  invariant `Safe` says what a removal still knows at each of its awaits although
  the others moved: that its certificate is revoked, then in the CRL, then in the
  copy (`RemovalInv`), that it is the only removal past the revocation of that
  device (`OneRemoval`), because a second one fails on a revoked certificate, that
  a build which was not signed has a request and no certificate (`SigningInv`) and
  is alone (`OneSigning`), because easyrsa refuses files that exist, and that the
  copies of the CRL lag behind the index (`CrlOrder`).
- `OvershootIsBounded` counts the listed devices and the builds under way
  (`LimitInv`).
- `LeftoversAreKnownAlways`: whatever is cut off, the files of a device are
  complete, gone, those of a build that was not signed, those of a revoked device,
  or those of a removal whose certificate openvpn refuses. The invariant
  `Traceable` says how the three files of one device can differ (`FilesMatch`) and
  that no two devices have the same request (`OwnRequest`), without which a
  signature made for one device would certify the key of another. `PkiStep` lists
  the only three things a step does to the files, so the proof has three cases and
  not one for each command and fault.
- `ImplementsAccess`: the initial state is one of `Access` and each step is one of
  its steps or a stutter. A signature is an `Issue` because the request was never
  signed, a copy of the CRL a `Refuse` because the copies lag behind, and the
  removal of a certificate file a `Drop` because the removal knows by then that
  openvpn refuses it.
- `PromisedCertHasOneOwner` proves of `Access` alone that a certificate which
  opens the VPN is that of exactly one device, and `OwnerHasThePromise` that the
  calls inherit it. It does not mention the CRL, the index or the order of
  commands.

`DevicesCleanProofs` has the hypothesis `Faults = {}`, without which
`DevicesAreHealthy` and `AdminIsKept` do not hold (`devices_partial` shows what a
kill leaves). `Clean` adds to `Safe` that the files of a device belong together,
that a request without certificate has a build that goes on and a revoked
certificate a removal that goes on (`FilesInv`), that no two devices have the same
pair (`OwnPair`), because the index knows certificates and not names, and that a
pair is not certified before it is signed (`Unsigned`). At rest no build and no
removal goes on, which leaves complete devices and absent ones.
`RevokedAreRefused` adds that as long as the CRL lacks a revoked certificate a
removal is about to generate it, and as long as its copy lacks one a removal is
about to copy it (`CrlDue`).

The same module names the causes of the violations that the runs find:
`ListedCanBeRemoved` needs only that no command fails, with any interleaving, so
`devices_partial` is about kills and timeouts alone. `FilesAreComplete` and
`NoLinkDangles` need in addition that requests come one after the other
(`OneByOne`), by the invariant `AloneInv`: the device of a client file under way
stays as it was read.

### The supervisor

`SupervisorProofs`: `TypeCorrect`; `NeverTwoChildren` and `StopIsPassedOn` under
`Usage`: nobody asks for a restart while a start is due, and the delay of a restart
is shorter than that of a start. Both are how the program uses the class
(`index.ts` calls `restart` once; 50 ms and 1 s); without the first `OneChild`
fails. The invariant relates the timers that are due to `child` and `crashQueued`:
a start is due only when no child is known or running.

`SomethingIsDue` needs no such hypothesis: for any delays and for restarts at any
time, once openvpn was asked for it runs, or its exit event is under way, or a timer
is due that starts it. Its invariant `ChildIsWatched` says that the child the
supervisor knows runs, or its exit is under way, or a start is due. `NeverIdle` is
what `AlwaysRunsAgain` rests on: that no interleaving of the callbacks loses the
last of them; fairness then makes it happen.

### The start-up

`StartupProofs`, for any set of hostnames and devices and any number of concurrent
calls: `TypeCorrect`, `ServerIsHidden`, `PkiIsForGood`, `EveryStartCanServe`,
`IncompleteOnlyWhenTorn`. The invariant `Durable` says that the one server there
may be has the name that is in `ovpn_env.sh`, or about to be written there
(`ServersNamed`), so that the listing hides it (`ServerIsNoDevice`); that no call
works on it unless `touched` (`CallsSpareServer`); and that a start which runs
`ovpn_initpki` finds no server's certificate that is not revoked, although the API
adds devices next to it (`NoServerToErase`, for `PkiForGood`). `Served` adds how
far the PKI is at each step of a start and that `openvpn.conf` has the same name
(`Progress`, for `ReadyCanServe`). `IncompleteOnlyWhenTorn` says of the property
that `startup_pki` finds violated that nothing but a start cut off in one of the
`Windows` breaks it: no kill at another step, also not between two unlinks of a
call, and no call but one that takes the server for a device.

### The delivery of files

`DeliveryProofs`: `TypeCorrect`, `ClosedForGood`, `PagesAreTold`,
`ImplementsCredLinks`. The invariant says that a closed token is active neither in
the map of the process nor in the file that the next process loads (`ClosedInv`);
every step of the service reopens no token that was drawn (`ServiceSteps`), and no
request begins with a closed one. `PagesAreTold` rests on every step that ends a
request of a page leaving a reply, on only `Receive` taking one, and on a slot
having a request or a reply and never both (`AnswerEndsRequest`).
`ImplementsCredLinks` shows that the initial state is one of `CredLinks` and that
each action is a step of it or a stutter, by the invariant that a device has one
active token (`CredTokensProofs`).

`PromisedLinkIsUnique` and `PromisedLinkDiesOnce` are about `CredLinks` alone: its
promises are enough for a device to have one live link (`OneLiveLink`), and for a
link that was closed or expired never to work again (`DeadForGood`).
`UsersHaveThePromises` hands both to the users of the service.

### Hostname and commands

`AdminLinkProofs`, for any number of commands, retries, IPs and kills:
`TypeCorrect`, `ReadyCommandsGetUrl`, `CachedIpIsKept`, `WaitersAreAnswered`.
`ReadyMeansUrl` needs that READY in a process implies its hostname, which a
process keeps: a command that was told READY meets no hostname only when the
container ended since (`died`); `IpNeverGoesBack` needs that every answer under
way is an IP not older than `floor`, or none. `NobodyIsForgotten` is inductive:
every step that forgets a call also tells who waits for it. It is to `CommandEnds`
and `ServerGetsReady` what `NeverIdle` is to `AlwaysRunsAgain`.

### Only model-checked

Liveness under fairness (`AlwaysRunsAgain`, `ServerGetsReady`, `CommandEnds`), which
the prover does not reach. Every invariant, action property and refinement that a
passing run checks is also a theorem, and each violated property is one under a
hypothesis that excludes its cause.

## 5. Not modelled

- What keeps no state: formatting of links, the cipher of the client file, QR
  codes, logs, the typing and parsing of RPC calls, the commands of `vpncli` that
  make one call, the texts of the page of `ui_openvpn`.
- `utils/ip.ts`, which nothing calls, and the netmask arithmetic of
  `ovpn_genconfig`, which is applied to two constants.
- The scripts in `bin/` for operators, which the server never runs.
- `iptables`, the tun device and IPv6 in `ovpn_run`: configuration of the host.
- `SIGUSR1`, `SIGUSR2` and `uncaughtException` write the tokens too: in
  `CredTokens` and `Delivery` (`PersistAndGoOn`), not in `Devices`, where
  `linkedDb` changes at a stop only.
- Kills in `Delivery`; calls in `Startup` that change no file, and the limit of
  devices.
- The choice of the subnet by the IP of the container, and the vars file.
- The inside of easyrsa and of openvpn. That two easyrsa processes may lose an
  update of the index is a hazard that no property covers: nothing in the
  repository says in which steps easyrsa writes it.
- Time in `AdminLink`: that every retry comes is modelled, when it comes is not.

## 6. Plan

Done, in this order: the tokens, the device calls on the PKI, the supervisor, the
start-up, the delivery of files with the page and the hook, the hostname and the
commands; the proofs of every safety property that a run finds to hold; the abstract
specifications `CredLinks` and `Access`, the proofs that they are implemented and
what follows from them; the hypotheses under which the violated properties hold.

What could be added:

1. an index that is read and written in two steps, from the source of the easyrsa
   version that is installed, to see which properties rest on its atomicity;
2. the subnet a start chooses by the IP of its container: `ovpn_env.sh` keeps the
   one of the first start;
3. kills in `Delivery`, with `CredLinks` weakened to what survives one.
