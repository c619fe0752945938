# Net Conductor: TLA+ specifications

TLA+ models of the parts of Net Conductor in which several goroutines,
processes, event handlers or machines change shared state, the TLC configurations that check
them on small instances, and TLAPS proofs of their safety properties for every
value of the constants. Line numbers refer to the files of the repository
(`src/`); `PROJECT.json` maps every definition to its lines.

## The system

A *hub* (`netconductor -mode server`) runs on a public Linux host with a
WireGuard interface. Windows *agents* join the private network with one-time
codes, share their proxy ports as exits and accept remote sessions. The web
*console* of the administrator is served by the hub; a *tray program* in the
user's desktop session complements the agent service.

### Inventory

| Component | State | Operations | Hard behaviour | What makes it correct |
|---|---|---|---|---|
| Port mappings, `server/forward.go` | `state.Mappings`, `forwards`, listening sockets | putMapping, deleteMapping, restoreMappings, stop | API and restore start together; failing saves; crashes; foreign sockets | sockets unique, no leaked listener, answers durable |
| State file, `core/model.go` | `state.json` | Save, Load | failing and torn saves | the old or the new file, never a mixture |
| Enrolment, `server/server.go`, `agent/agent.go` | codes, devices, agent config | createCode, join (both ends) | lost answers, retries, crash between `wg set` and save | single-use codes, distinct devices, acknowledged joins survive |
| Peer reconciliation, `server/server.go` | peer table of the kernel | reconcilePeers | acts on a stale table while joins run | routes never move, devices get theirs back |
| Exit policies, `server/server.go`, `core/proxy.go`, `core/localproxy.go` | policies, ports, Active | putPolicy, updateDevice, dialPolicy, setActive | dials outlive the policy they copied; deadlines within deadlines | fail closed, only silent exits take the turn of others |
| Proxy data path, `core/proxy.go` | connections | Bridge, SOCKS5, CONNECT | half-close timer | both directions drain |
| Remote signalling, `server/remote.go`, `agent/remote.go` | registry of agents and browsers, sessions of a device | remoteAgent, remoteBrowser, remoteConnect | connections break unnoticed and are replaced | no session without browser, no device lost from the list |
| Remote transport, `remote/session.go`, `remote-ui.js` | Link, Session, queue, parts | call, receive, useRelay, Relay, accept, run, send | two unordered paths, chunks, timers | a call is handled once, answers are whole, everything settles |
| Remote operations, `remote/session.go`, `remote-ui.js` | files of the device; `current`, `busy`, `loading` of the dialog | list, read, create, write, rename, delete, mkdir; download, upload | handlers overlap; calls given up are carried out later | transfers are whole, nothing is overwritten, the dialog comes back |
| Desktop bridge, `agent/remote.go`, `remote-desktop.cjs`, `input_windows.go` | queue, pending, helper process, keys held | desktopRequest, desktopNext, desktopReply, input, release | timeouts race late work; helpers replaced; screen locked; the tray quits | replies match, expired work is not done, nothing hangs, keys come up |
| Health, heartbeat, `server/server.go` | Device health | probe, heartbeat | result written after the lock was released | results go to the device that was probed |
| Login, `server/server.go` | cookie sessions, attempts | login, logout | sessions end while remote sessions run | the end of a login ends its sessions |
| Agent recovery and shares, `agent/recovery*.go`, `agent/agent.go` | tunnel state, shared ports | ensureTunnel, installTunnel, repair, share | back-off, partial installation | the tunnel comes back |
| Web terminal, `server/ssh.go` | one SSH session per socket | – | I/O | – |
| Console, `web/static/app.js` | `state`, `authenticated`, `refreshing`, the shared dialog, `socket`, `term`, the cookie | refresh, login, logout, forms, diagnose, repair, terminal | requests overlap, answers come late or not at all | never back to an older state, what was saved is shown, ended sessions leave the screen, terminals can be closed |
| Desktop shell, `desktop/main.cjs`, `preload.cjs`, `system-proxy.ps1` | window, page, reload timer, `quitting`; registry values and the backup file | show, hide, reload, quit; enable, restore | the service comes and goes; scripts are killed after 15 s and can overlap | the page recovers, a quit ends, settings can be restored |
| Entry points, installers | – | – | set-up | – |

Interactions: the console calls the hub's API; agents call `join`, `heartbeat`
and keep a WebSocket to `remoteAgent`; browsers open one to `remoteBrowser`,
and the hub forwards between the two; `dialPolicy` dials the proxy ports of
agents through WireGuard; the page of the desktop shell is the same `app.js`,
served by the agent, and asks the shell to run the proxy script; all handlers of the hub share `state` under `mu`,
and the mapping handlers in addition `forwardMu`. Every handler that changes
the state saves all of it, so anything left in memory by a failed operation is
written later by another.

## Modules

| Module | Models | Composed with |
|---|---|---|
| `MappingStore` | what the mapping API promises: a durable table changed one entry at a time and answers that agree with it | abstract specification |
| `Forwarding` | `forward.go`, the part of `Run` and `New` that restores, foreign programs, crashes | implements `MappingStore` with `store <- disk` |
| `DeviceRegistry` | what enrolment promises: a durable registry to which a code admits one device, and agents that store only what is in it | abstract specification |
| `Enrollment` | both ends of `join`, `createCode`, `reconcilePeers`, the kernel's peer table, crashes and reboots | hub and agents in one module; implements `DeviceRegistry` with `registry <- disk` |
| `ExitPolicy` | `putPolicy`, `updateDevice`, `dialPolicy`, `setActive`, the deadlines of the entries | – |
| `RemoteHub` | `remoteAgent`, `remoteBrowser`, `remoteConnect`, the login | carries what `RemoteTransport` relays |
| `RemoteTransport` | `Link` of the console and `Session` of the device | its relay is `RemoteHub`, its desktop calls go to `DesktopBridge` |
| `DesktopBridge` | `desktopRequest/Next/Reply`, the loop of the tray, helper processes | – |
| `RemoteFiles` | the file dialog of `remote-ui.js` and `fileRequest` of `session.go` | its calls are those of `RemoteTransport`, reduced to a queue |
| `Console` | `app.js`, with `login`, `logout` and `guard` of the hub | both ends in one module, for the administrator's page and the desktop's |
| `DesktopShell` | `main.cjs`, `preload.cjs`, `system-proxy.ps1` | answers the requests that `Console` makes to the shell |
| `ForwardingProofs`, `EnrollmentProofs`, `ExitPolicyProofs`, `RemoteHubProofs`, `RemoteTransportProofs`, `DesktopBridgeProofs`, `RemoteFilesProofs`, `ConsoleProofs` | the inductive invariants, lemmas and theorems of a component (section Proofs) | each extends the module of its component; `ConsoleProofs` extends `Console` and `DesktopShell`, whose definitions are prefixed with `Shell` for it |
| `MC*` | constants for TLC | where they are not given in the cfg |

### Correspondence

* **Forwarding.** One action for each section that the code runs under `mu`
  or between two blocking calls. `forwardMu` is a variable that names its
  holder. `PutValidate`, `PutListen`, `PutCommit`, `PutUndo`, `PutReply` are
  the sections of `putMapping` in order; `DeleteMissing`, `DeleteCommit`,
  `DeleteStop` those of `deleteMapping`; `Restore...` the loop of
  `restoreMappings`. `Persist` is any other handler that saves the state.
  `Mapping.Error` is the set `errors`. The identifier is drawn on arrival
  instead of after validation; nobody can see it earlier.
* **Enrollment.** The hub holds `mu` during the whole of `join`, so there is at
  most one `joining`, in steps because it calls `wg` and saves.
  `reconcilePeers` copies the devices, shows the table and then sets peers one
  by one without `mu`. Allowed-ips are sequences because `join` looks at the
  first one of a peer only; `WgSet` takes an address from where it was
  (`Without`). A `wg set` that is killed after its 8 s may have taken effect
  although `join` answers with an error. A device record keeps the code it came
  with as history.
* **ExitPolicy.** A dial carries copies of the policy and the ports, and the
  seconds it has left. Silent exits cost the 6 s of an attempt or what is left;
  `deadline` and `silent` (how many exits took time) are history.
* **RemoteHub.** A handler of the hub is a `pc`; `agent[b]` is what
  `remoteBrowser` read before its upgrade. A broken connection swallows
  messages until the hub notices.
* **RemoteTransport.** Two paths, each a FIFO in each direction.
  `DirectArrives` and `DirectAccepted` are the two halves of `OnMessage`, which
  releases `mu` between them; `Relay` is one action because nothing that
  happens between its two statements is visible. After a cancelled context the
  `select` of `run` may still take a call. An answer of more than 40000 bytes
  is two chunks. `LinkEnds` covers the end of the WebSocket, an error of the
  hub and the closed dialog; WebRTC itself is external.
* **DesktopBridge.** Helpers are numbered; `helper` is the current one and the
  handlers of the others compare themselves with it, as in the code. An input
  and the line that answers it are the same value, so that a line which settles
  the wrong input is visible. `held` are the helpers that hold some key or
  button down; a helper whose stdin has ended works off what is left and
  releases them (`defer release()`). What a killed helper leaves down is out of
  its reach, and of the model's.
* **RemoteFiles.** A handler of the dialog is a task that awaits one call;
  `End` is the `finally` of `load`, `download` and `upload`. `Init` is the dialog
  that awaits its first `load()`; should that fail, `current` stays empty, `join`
  gives paths under `/` (`Root`) and `load(current)` lists the home directory.
  A call whose timer has fired stays in the queue and is carried out. The device
  takes calls in the order they were sent. This leaves out the moment at which a
  session falls back to the hub: `OneCallOvertaken` of `RemoteTransport` says
  that one direct call may then be overtaken by later ones (`session.go:88-94`),
  so a delete or rename sent before an upload could take effect on the uploaded
  file. `UploadedIsComplete` and `UploadsDoNotOverwrite` rest on the order.
  `rename` is one step although the code looks for the target first, since
  SFTP's rename itself refuses a target that exists. Files are sequences of units, of which a call
  carries `Chunk`; what a unit is does not matter (`Units`). `Eof` is what
  `ReadAt` says when it fills its buffer exactly.
  `mine` (the paths an upload has created) and `done` (the transfer that just
  completed) are history. Others do not touch what an upload has created: a
  `write` does not look whether the file is still the one that was created
  (`session.go:389`).
* **Console.** A request keeps the cookie it was sent with, and its answer until
  the page gets it. What the page shows is the version of the state it was
  rendered from. `Refresh` is `refresh()` up to its `await`, in the step of
  whoever calls it. `form` tells the submissions of an earlier form from those
  of the one on display; `dlg.close()` closes what is there. `agent` chooses
  between the page in a browser and the page in the desktop shell, which has no
  login.
* **DesktopShell.** Each step of a script is one write to the registry or to the
  backup; `ScriptEnds` may come anywhere, as the 15 s do. A setting is its
  owner, the user or `Ours`. `Quit` is `app.quit()` with `before-quit`; without
  a window Electron ends the application at once, otherwise it asks the window
  to close, and `Closed` is that close event, with the handler that hides the
  window. Electron ends the application in the same turn in which its last
  window goes, so a click on the tray or a second instance (`Show`, which the
  code does not guard with `quitting`) can bring the window to the front
  meanwhile but cannot open another. `changed` and `overlapped` are history: they say which promises no longer apply.

Left out in all modules: wording of errors and events, audit entries, JSON
framing, authentication of requests (every request modelled is an authorised
one), and the payload of messages.

## Runs

All runs check deadlock except those of `RemoteTransport`, `DesktopBridge`,
`RemoteFiles`, `Console` and `DesktopShell`: a closed session, a tray or shell
that has stopped and a page nobody uses really do nothing more.

| Run | Instance | Shows |
|---|---|---|
| `Forwarding` | 2 requests, 2 ids, a TCP, a disabled HTTP and a UDP draft on one port number, foreign programs, 1 crash | `TypeOK`, `SocketsUnique`, `NoLeakedListener`, `ListedMappingsListen`, `AnswersDurable`, the refinement `ImplementsStore`, and `RequestsEnd` |
| `Enrollment` | 2 agents (one adopts), 2 codes as the documentation hands them out or for a taken address, a peer with two addresses, 2 attempts, 2 faults | `DevicesDistinct`, `CodeSingleUse`, `EnrolledIsRegistered`, `NoStrayPeers`, `TunnelsKept`, `RouteNeverMoves`, `DevicesRouted` |
| `EnrollmentAdopt` | an adopter with a code for an unused address | violation: the tunnel loses its address |
| `ExitPolicy` | 2 dials, policies with one and three exits, hub and agent entries, port changes, 1 crash | `DirectOnlyWhenGranted`, `PolicyDurable`, `ActiveWasCarried`, `StarvedOnlyBySilence` |
| `ExitPolicyDeadline` | a policy with four exits and a direct fallback, hub and agent entries | violation: the fallback has no time (`EveryExitHasItsTurn`) |
| `RemoteHub` | 1 device with 2 connections, 2 browsers, 1 session per device | `SessionsHaveBrowsers`, `OfferedSessionsFollowAgent`, `LoginEndClosesSessions` |
| `RemoteTransport` | 3 calls, the first two with long answers, a queue of 2 | `ExecutedOnce`, `OneCallOvertaken`, `CallsSettle` |
| `DesktopBridge` | 2 requests, each a picture or an input, the tray's own releases, 2 helpers, a queue of 1 | `DoneMeansPerformed`, `ExpiredNotPerformed`, `TrayGoesOn`, `KeysComeUp` |
| `RemoteFiles` | 2 directories, 2 names, 2 handlers at a time, the first load and 3 clicks, 1 change by others | `DownloadedIsComplete`, `UploadedIsComplete`, `UploadsDoNotOverwrite`, `TransfersEnd` |
| `RemoteFilesDownload` | the same | violation: a download reads from two directories |
| `Console` | 2 requests at a time, 2 actions of the user, 1 change, 1 lost request, 1 restart of the hub | `NoShellLeftOpen`, `ShownNeverGoesBack`, `SavedIsShown`, `StaleScreenEnds` |
| `DesktopShell` | 2 scripts at a time, 3 in all, 1 change by the user, 1 start or stop of the service | `OursHaveBackup`, `RestoreGivesOriginal`, `PageRecovers`, `QuitEnds` |

`TypeOK` of the modules without a run for it documents the types of their
variables; it is proved (section Proofs) for all of them.

Each property has a mutant in `PROJECT.json`: a plausible change of one mapped
definition under which TLC finds the property violated. The mutated operators
stand before the definitions they replace and are used by nothing else.

### Bounds

* *Forwarding*: two requests are needed for any race on `forwardMu`, and two
  ids for any clash of mappings; one crash suffices because a restart begins
  with nothing but the file, so a second crash starts from a state the first
  one reaches. The proofs remove these bounds.
* *Enrollment*: two faults allow a failing undo after a failing save, and a
  crash followed by a reboot. Two attempts give one lost answer and one retry.
* *ExitPolicy*: two dials race each other and the administrator. Three exits
  use up the 10 s of an agent before the last of them has its turn, so that
  `StarvedOnlyBySilence` is put to the test; that the hub's 20 s are used up takes
  the four exits of `ExitPolicyDeadline`. `putPolicy` admits 20 exits, and the
  theorem covers them all. Plain requests have no deadline of their own; they
  are left out of the runs and are part of the theorems.
* *RemoteHub*: `k1` and `k2` are two connections of one device, so that the
  older one can end after the newer one began; devices do not share anything
  but the table of browsers. Limits of the tables are 1 or 2 so that they are
  reached.
* *RemoteTransport*: three calls allow a direct and two relayed ones, or two
  direct and a relayed one, around a switch: enough to overtake more than one
  if that were possible. The queue is small so that it overflows; `MaxParts` is
  4 as in the code.
* *DesktopBridge*: two requests and the releases let an input meet a pending
  one, and a line of a replaced helper arrive while the next one is current. A
  helper is started for a request only, so two are all that this instance
  starts; the bound never binds.
* *RemoteFiles*: two handlers are needed to overlap, and a third click to start
  a transfer between their ends. A part has two units; the files have two,
  three and four, so that one fills its parts exactly and one exceeds the limit
  of a transfer after it was listed. The second directory is also `/`, so that a
  dialog whose first load failed finds a file there. Others change files of the
  first one only.
* *Console*: a refresh and one other request overlap; two requests of
  the user give a save or a logout with another save or a login before its
  answer. Opening forms and terminals is not bounded.
* *DesktopShell*: three scripts give an enable that is killed, an enable or a
  restore after it, and a restore; two at a time overlap, which the histories
  exclude from the promises.

### Fairness

* A goroutine that can run is run (weak fairness). Steps that wait for a
  `sync.Mutex` get strong fairness: after 1 ms of waiting Go's mutex hands
  itself to the waiter.
* `Restart` is weakly fair: `deploy/net-conductor.service` says
  `Restart=on-failure`.
* Timers fire: the agent's HTTP timeout, the timeouts of dials, the 20 s ping
  of the console, and in `RemoteTransport`, `DesktopBridge` and `RemoteFiles`
  only the timers and the loop of the tray. In `RemoteFiles` the timer is that of
  one call and starts again with the next (`remote-ui.js:171`): fairness says that
  the call a handler awaits is answered or given up, never that a handler is
  stopped between answered calls. That a transfer ends is due to `Eof`, `Limit`
  and the loops. Nothing is assumed of the network,
  of the direct path, of the device or of a helper, except that a helper whose
  stdin has ended exits.
* `Console`: the interval fires every 3 s, and a request is answered or fails
  (the browser gives up on it); which of the two, and in which order, is open.
* `DesktopShell`: a load ends, the reload timer fires, and a window that Electron
  has asked to close gets its close event. Nothing is assumed of the scripts, the
  service or the user.
* `reconcilePeers` is called every minute (`Run`).

## Findings

* `EnrollmentAdopt`: the check of address and key the README describes (line
  63) is not made for an address that no peer has.
* `ExitPolicyDeadline`: each exit may take 6 s (`server.go:503`) of a deadline
  that is fixed for the connection. With four silent exits of the 20 that
  `putPolicy` admits (`server.go:430`) the 20 s of a CONNECT at the hub
  (`proxy.go:120`) are over, and with two the 10 s of an agent (`proxy.go:47`):
  exits after them and the promised fallback (README line 11) are never tried.
* `RemoteFilesDownload`: renaming, deleting and creating a directory do not
  block other clicks, so two loads overlap and the first to end clears
  `loading`. A download started then computes the path of each part from
  `current` (`remote-ui.js:342`), which the second listing replaces: parts of
  two files are saved as one.

Known, and kept out of the instances of the passing runs:

* `restoreMappings` may run after the API has started a mapping; it then fails
  on the socket of its own process and labels a working mapping as failed
  (`forward.go:138`, `app.js:160`). `ListedMappingsListen` says nothing of
  mappings with an error.
* `join` looks only at the first allowed-ip of a peer (`server.go:303`):
  `RouteNeverMoves` fails with a code for the second address of a peer.
* Two proxy scripts at once can end with our settings and no backup, and what
  the user changes while the proxy is enabled is lost by a restore.
* In the console a 401 to a request sent before a new login shows the login form
  once more, and a first refresh that fails leaves the page blank until the
  user reloads it; nothing in the repository promises otherwise.

## Proofs

TLC checks the instances above; the theorems hold for every value of the
constants, that is for any number of requests, devices, codes, connections,
calls, helpers, scripts, faults and crashes. They assume only the named
`ASSUME`s of the modules, which TLC evaluates in every run: bounds are natural
numbers, special values (`None`, `NoIP`, `Ours`, ...) differ from ordinary ones,
the slots of requests are finitely many, no two peers of `wg0.conf` share an
address, no code has that of the hub, and a file is not a number, a folder or
nothing at all. Two theorems have a hypothesis in addition; it is part of
their statement and discussed below. Every inductive invariant was checked by
TLC on the instance of its component before it was proved.

| Module | Theorem | States |
|---|---|---|
| `ForwardingProofs` | `TypeCorrect` | `Spec => []TypeOK` |
| | `SocketsStayUnique` | `Spec => []SocketsUnique` |
| | `NoListenerLeaks` | `Spec => []NoLeakedListener` |
| | `ListedMappingsServed` | `Spec => []ListedMappingsListen` |
| | `AnswersStayDurable` | `Spec => []AnswersDurable` |
| | `StoreImplemented` | `Spec => ImplementsStore` |
| `EnrollmentProofs` | `TypeCorrect` | `Spec => []TypeOK` |
| | `KeysAndAddressesUnique` | `Spec => []DevicesDistinct` |
| | `OneDevicePerCode` | `Spec => []CodeSingleUse` |
| | `JoinIsDurable` | `Spec => []EnrolledIsRegistered` |
| | `PeersAccountedFor` | `Spec => []NoStrayPeers` |
| | `RegistryImplemented` | `Spec => ImplementsRegistry` |
| | `TunnelsStay` | `DocumentedCodes => (Spec => []TunnelsKept)` |
| | `RoutesStay` | `DocumentedCodes => (Spec => RouteNeverMoves)` |
| `ExitPolicyProofs` | `TypeCorrect` | `Spec => []TypeOK` |
| | `FailClosed` | `Spec => []DirectOnlyWhenGranted` |
| | `AcknowledgedPolicyDurable` | `Spec => []PolicyDurable` |
| | `NamedExitCarried` | `Spec => []ActiveWasCarried` |
| | `TurnUnlessSilence` | `Spec => []StarvedOnlyBySilence` |
| `RemoteHubProofs` | `TypeCorrect` | `Spec => []TypeOK` |
| | `SessionsEndWithBrowsers` | `Spec => []SessionsHaveBrowsers` |
| | `SessionsFollowTheDevice` | `Spec => []OfferedSessionsFollowAgent` |
| `RemoteTransportProofs` | `TypeCorrect` | `Spec => []TypeOK` |
| | `HandledOnce` | `Spec => []ExecutedOnce` |
| | `AllButOneInOrder` | `Spec => []OneCallOvertaken` |
| | `ResolvedAfterHandled` | `Spec => ResolvedWasHandled` |
| `DesktopBridgeProofs` | `DoneIsPerformed` | `Spec => []DoneMeansPerformed` |
| | `ExpiredIsDropped` | `Spec => []ExpiredNotPerformed` |
| `RemoteFilesProofs` | `TypeCorrect` | `Spec => []TypeOK` |
| | `UploadComplete` | `Spec => []UploadedIsComplete` |
| | `DownloadComplete` | `Spec => []DownloadedIsComplete` |
| | `NoOverwrite` | `Spec => UploadsDoNotOverwrite` |
| `ConsoleProofs` | `ShellsAreClosed` | `Spec => []NoShellLeftOpen` |
| | `PageGoesForward` | `Spec => ShownNeverGoesBack` |
| | `BackupForOurs` | `ShellSpec => []OursHaveBackup` |
| | `RestoreIsExact` | `ShellSpec => []RestoreGivesOriginal` |

In each module the theorems rest on `Invariance`, `Spec => []IndInv` (in
`RemoteTransportProofs` on `OrderInvariance`, in `EnrollmentProofs` also on
`RouteInvariance`, in `ConsoleProofs` on `DesktopInvariance` for the shell). A conjunct of the invariant, or where actions are few and
large a group of actions, has a lemma of its own, with one step for each action.
Except for `PolicyDurable`, `NoShellLeftOpen` and `TypeOK` of `RemoteTransport`,
none of the properties is inductive with the types alone.

**Forwarding.** `IndInv` (in `Forwarding`) adds

* `LockInv`: who holds `forwardMu` is inside a section; without it two requests
  could be between validation and commit;
* `MemoryInv`: memory and file agree on the mappings whenever nothing is being
  saved, so that `Persist` changes nothing and a restart loses nothing;
* `RequestInv`: what a request knows at each point, for instance that the
  mapping it is adding is not in the table yet and that no other request has
  its identifier;
* `ClaimInv`: the socket of a mapping being added is its own, from validation
  to commit: this is what makes the stale check of `validateMapping` sound;
* `ListenerInv`: every socket of the process belongs to a settled mapping, one
  being started or one being stopped, from which `NoLeakedListener` follows
  when nobody holds the lock;
* `ServingInv`: every enabled mapping without an error is listening or still
  to be restored.

`StoreStep` shows that every step is a step of `MappingStore` or leaves `disk`
and `reply` alone; it needs `RequestInv` and `ClaimInv` for the socket condition
of `Create`.

**Enrollment.** `IndInv` says that the registry in memory is the one on disk
while the hub is up (`MirrorInv`: a failing save takes the device out again);
that the join under way found its key, address and code unused and that nobody
can have used them since, as it holds `mu` (`DistinctInv`, `CodeInv`); that what
an agent was told or stored is on disk (`ReplyInv`); and that a peer which is
neither old nor registered is that of the join under way or of one that a fault
interrupted (`StrayInv`). A lemma shows that the address `AddressFor` chooses is
free: it takes the least number of a set, which needs that the natural numbers
are well-founded.

`RegistryStep` shows that every step is a step of `DeviceRegistry` or leaves
codes, file and agents alone: `Issue` is `CreateCode`, `Register` is `JoinSave`,
`Enrol` is the answer that an agent stores. It needs `AdmitInv` in addition: the
address of the join under way is that of its code, an answer is about the agent
it goes to, and an agent that waits holds nothing yet. (TLC has checked the
refinement with one fault; it is not part of a run.)

`RouteNeverMoves` and `TunnelsKept` are not true of all codes, as the run
`EnrollmentAdopt` and the finding about the second address of a peer show. They are proved
under `DocumentedCodes`: the code for a tunnel to be adopted has the first
address of that tunnel, and no code has another address than the first of a
peer. The instance of the run `Enrollment` satisfies it, and still hands out
codes for an address that another peer has. `RouteInv` then says that the peers
of `wg0.conf` have what `wg0.conf` says, also in the copy of the table that
`reconcilePeers` acts on (`TunnelInv`); that no two peers share an address, and
that of a device or a join is its own or nobody's (`OwnedInv`), which is why a
`wg set` from a stale copy takes nothing away; and that the key of a tunnel
travels with the address of the tunnel through code, request, join and registry
(`AdoptInv`).

**ExitPolicy.** `DialInv` carries the grant along a dial: a dial that may go
direct copied a policy that allowed it when it was the acknowledged one
(`PolicyDurable`). `CarriedInv` extends `ActiveWasCarried` to the file and to
results that `setActive` has yet to record. `EveryExitHasItsTurn` is not true
(`ExitPolicyDeadline`); what is true for any number of exits and every entry is
`StarvedOnlyBySilence`: an exit or the fallback goes without its turn only after
silent exits have used up the whole deadline. The invariant `TurnInv` is that what
is left of the deadline and 6 s for each silent exit make up the deadline, and
that nothing is left for a dial that starved.

**RemoteHub.** `KeptInv` is the core: what a device holds, as a session or as
an offer it has not read, has a handler that will still send its `close`, or
the `close` comes later in the same queue. It needs that a working connection
is the registered one and open at both ends (`LinkInv`), that the agent forgets
sessions with their connection (`EndInv`), and what a handler read before its
upgrade (`HandlerInv`, `RegistryInv`). `FollowInv` is
`OfferedSessionsFollowAgent` without the condition on the connection, and
inductive. `FewInv` bounds the sessions by `MaxSessions`.

**RemoteTransport.** Calls are numbered as they are made, and `Placed` puts all
places a call can be in into one order: accepted directly, held in `OnMessage`,
under way directly, accepted from the hub, under way to the hub. Each of them is
below the next, so no call is in two places (`ExecutedOnce`), and each path is
ascending. `InOrder` says the same of what was accepted, but for the call that was held when
the relay took over; there is one `held` at most, so `late` has at most one
member. `TypeCorrect` includes the limit of the queue and of the incomplete
answers, which needs the cardinality of the set of parts. `ResolvedWasHandled`
(in the module of the proofs) needs that all that is sent, or under way on
either path, is about a handled call (`AnswerInv`).

**DesktopBridge.** `LineInv`: a helper has at most one input or line under way,
and if it is the current one it is the pending one; this is why a line without
an id settles the right input. `ReplyInv` follows the result from the line to
the waiting request, `TakenInv` says that an expired request has left no trace
at the tray.

**RemoteFiles.** `HandlerInv` says of each handler what it will find: the call it
awaits is in the queue as the handler made it (`Asks`), or its answer says what
the device did (`Told`), and what has been transferred so far is the beginning
of the file, counted in units (`Upto`, `Sent`, `OwnInv`). For an upload this is
true only because nothing in the queue can touch the file: `create` was the last
call of the queue but for listings, because every click looks at `busy`, and
calls that other handlers had sent earlier are carried out before it. Since a
`write` is sent only after the answer to `create` or to the `write` before it,
even one that was given up has nothing but listings before it (`CallInv`) and
its file is one that an upload created; this is `UploadsDoNotOverwrite`. `BusyInv`
says that there is one transfer exactly while `busy` is set. A number that is
used again for a call is fresh (`FreshId`): a lemma about cardinalities. That
parts put together in order are the file is a lemma about `Written`, `ReadData`
and concatenation, by cases on the position of a unit, without induction.

**Console.** At most one refresh is under way (a conjunct of `TypeOK`), and its
answer is not older than what is on display (`AnswerInv`); both are needed
for `ShownNeverGoesBack`, since the answer of a second one could be the older.
`NoShellLeftOpen` is inductive as it stands. That a form or a terminal always
finds a number (`Unused`) is a lemma about cardinalities.

**DesktopShell** (second part of `ConsoleProofs`). `SoloInv` says for each point
of a script what it has read, what it has written (`Written`) and what the
backup holds; `OriginalInv` that the backup, or without one the registry, has
the values of the user. Both hold as long as no two scripts overlapped,
`OriginalInv` also as long as the user changed nothing: the conditions of the
properties.

Only model-checked:

* all properties with `~>` and fairness (`RequestsEnd`, `DevicesRouted`,
  `LoginEndClosesSessions`, `CallsSettle`, `TrayGoesOn`, `KeysComeUp`,
  `TransfersEnd`, `SavedIsShown`, `StaleScreenEnds`, `PageRecovers`,
  `QuitEnds`): liveness and `ENABLED` are out of the prover's reach;
* the properties of the three runs that expect a violation.

`EnrollmentProofs` uses that a set of numbers has a least element
(`WellFoundedInduction`); nothing that a recursive definition computes is proved
anywhere, nor needed.

## Not modelled

* Data paths (bytes of TCP, UDP and proxy connections, terminals): I/O; their
  pools and timers are planned. An SFTP call is one step; one that fails
  half-way is not modelled.
* Keys left down by a killed helper; restarts of the agent.
* Sessions with the hub itself (device `cloud`) in `RemoteHub`.
* What the pages of the console look like, its tabs and its labels; the count of
  login attempts.
* A backup file that is cut off while it is written (`system-proxy.ps1:17`).
* Installers and set-up code; `addon-fit.js` and `xterm.js` are libraries.

## Plan

The safety properties of all runs are proved. What could follow: `AgentRecovery`
(ensureTunnel with back-off, installTunnel, repair, shares), `HealthProbe`
(write-back by position), the connection pools behind a mapping, `Bridge` with
its half-close timer, `cloud` sessions.
