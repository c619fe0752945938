---------------------------- MODULE DesktopShell ----------------------------
(***************************************************************************)
(* The desktop shell: desktop/main.cjs with preload.cjs, and the script    *)
(* desktop/system-proxy.ps1 that it runs to change the proxy settings of   *)
(* the user.                                                               *)
(*                                                                         *)
(* The window shows the page of the local service, which may be down when  *)
(* the page is loaded.  Scripts run as processes of their own: they are    *)
(* killed after 15 s, outlive the shell, and can overlap, since nothing    *)
(* waits for one before it starts the next.  A proxy setting is its        *)
(* owner: a value some user chose, or Ours.                                *)
(***************************************************************************)
EXTENDS Naturals, FiniteSets

CONSTANTS
    Scripts,        \* processes of the script at a time
    Choices,        \* settings the user can make in Windows
    First,          \* the one of them that is there at the start
    MaxService,     \* bound: times the service starts or stops
    MaxChanges,     \* bound: changes the user makes in Windows
    MaxScripts,     \* bound: scripts that are run
    Ours, Absent

Names == {"ProxyEnable", "ProxyServer", "ProxyOverride"}

Settings  == [Names -> Choices \cup {Ours}]
Processes == [pc : Names \cup {"enable", "save", "restore", "remove", "notify"},
              read : Settings \cup {Absent}]

ASSUME DesktopShellConstants ==
    /\ First \in Choices /\ Ours \notin Choices
    /\ Absent \notin Settings \cup Processes
    /\ {MaxService, MaxChanges, MaxScripts} \subseteq Nat

VARIABLES
    running,        \* "off", "starting" or "ready"
    window,         \* "none", "shown" or "hidden"
    page,           \* "none", "loading", "failed" or "loaded"
    timer,          \* reloadTimer is set
    quitting,
    remote,         \* the loop of remote-desktop.cjs runs
    service,        \* the local service answers
    script,         \* [Scripts -> a process, or Absent]
    reg,            \* the three values of the registry
    backup,         \* the file, or Absent
    \* History and bounds.
    users,          \* what the user had before the proxy was enabled
    restored,       \* the last step completed a restore
    overlapped,     \* two scripts ran at once
    changed,        \* the user changed values while a backup was there
    flips, changes, runs

ui        == <<running, window, page, timer, quitting, remote>>
proxy     == <<script, reg, backup, users, restored, overlapped, changed, changes, runs>>
shellVars == <<ui, proxy, service, flips>>

ShellInit ==
    /\ running = "starting"
    /\ window = "none" /\ page = "none"
    /\ timer = FALSE /\ quitting = FALSE /\ remote = FALSE
    /\ service \in BOOLEAN
    /\ script = [s \in Scripts |-> Absent]
    /\ reg = [n \in Names |-> First] /\ users = reg
    /\ backup = Absent
    /\ restored = FALSE /\ overlapped = FALSE /\ changed = FALSE
    /\ flips = 0 /\ changes = 0 /\ runs = 0

(***************************************************************************)
(* The window.                                                             *)
(***************************************************************************)
\* show(): an existing window comes to the front as it is.
ShowWindow ==
    /\ window' = "shown"
    /\ page' = IF window = "none" THEN "loading" ELSE page

\* whenReady, with and without --startup.  Without a configuration it quits;
\* there is no window then, and Electron ends the application at once.
Ready ==
    /\ running = "starting"
    /\ \/ /\ running' = "ready" /\ remote' = TRUE
          /\ ShowWindow \/ UNCHANGED <<window, page>>
          /\ UNCHANGED quitting
       \/ /\ running' = "off" /\ quitting' = TRUE
          /\ UNCHANGED <<remote, window, page>>
    /\ UNCHANGED <<timer, proxy, service, flips>>

\* The tray icon, its menu, or a second instance; also after before-quit.
Show ==
    /\ running = "ready"
    /\ ShowWindow
    /\ UNCHANGED <<running, timer, quitting, remote, proxy, service, flips>>

\* did-finish-load
Loaded ==
    /\ page = "loading" /\ service
    /\ page' = "loaded"
    /\ timer' = FALSE
    /\ UNCHANGED <<running, window, quitting, remote, proxy, service, flips>>

\* did-fail-load
LoadFails ==
    /\ page = "loading" /\ ~ service
    /\ page' = "failed"
    /\ timer' = (timer \/ ~ quitting)
    /\ UNCHANGED <<running, window, quitting, remote, proxy, service, flips>>

\* A load that is under way ends with code -3, which is ignored.
ReloadTimer ==
    /\ timer
    /\ timer' = FALSE
    /\ page' = IF window = "none" THEN page ELSE "loading"
    /\ UNCHANGED <<running, window, quitting, remote, proxy, service, flips>>

\* The user reloads the page.
Reload ==
    /\ window = "shown" /\ page \in {"failed", "loaded"}
    /\ page' = "loading"
    /\ UNCHANGED <<running, window, timer, quitting, remote, proxy, service, flips>>

HideEndsTimer ==
    /\ window' = "hidden"
    /\ timer' = FALSE

\* preventDefault and hide().
Hide ==
    /\ window' = "hidden"
    /\ UNCHANGED timer

CloseWindow ==
    /\ window = "shown" /\ ~ quitting
    /\ Hide
    /\ UNCHANGED <<running, page, quitting, remote, proxy, service, flips>>

NotQuitting == UNCHANGED quitting

\* quitting is set by the item of the tray and by before-quit, for every quit.
BeforeQuit == quitting' = TRUE

\* app.quit(), from the tray or from the menu of the window.  Electron emits
\* before-quit, then ends the application if it has no window, and otherwise
\* asks the window to close.  (When a session of Windows ends, the process is
\* ended without before-quit.)
Quit ==
    /\ running = "ready"
    /\ BeforeQuit
    /\ remote' = FALSE
    /\ running' = IF window = "none" THEN "off" ELSE running
    /\ UNCHANGED <<window, page, timer, proxy, service, flips>>

\* The window that was asked to close.  Its handler may hide it instead, which
\* ends the attempt to quit; if it closes, Electron ends the application with
\* its last window, in the same turn: no click can open another one between.
Closed ==
    /\ ~ remote /\ running = "ready" /\ window # "none"
    /\ IF quitting
       THEN running' = "off" /\ window' = "none" /\ page' = "none" /\ timer' = FALSE
       ELSE window' = "hidden" /\ UNCHANGED <<running, page, timer>>
    /\ UNCHANGED <<quitting, remote, proxy, service, flips>>

ServiceFlips ==
    /\ flips < MaxService
    /\ flips' = flips + 1
    /\ service' = ~ service
    /\ UNCHANGED <<ui, proxy>>

(***************************************************************************)
(* The script.  Each step of a process is one change of the registry or of *)
(* the file.                                                               *)
(***************************************************************************)
Running == {s \in Scripts : script[s] # Absent}

\* "system-proxy" of ipcMain: only the page of the shell may ask.
RunScript(s, action) ==
    /\ running = "ready" /\ page = "loaded" /\ window = "shown"
    /\ runs < MaxScripts
    /\ runs' = runs + 1
    /\ script[s] = Absent /\ \A r \in Scripts : r < s => script[r] # Absent
    /\ script' = [script EXCEPT ![s] = [pc |-> action, read |-> Absent]]
    /\ overlapped' = (overlapped \/ Running # {})
    /\ restored' = FALSE
    /\ UNCHANGED <<ui, service, flips, reg, backup, users, changed, changes>>

\* Process s goes on at pc.
Goto(s, pc) == script' = [script EXCEPT ![s].pc = pc]
At(s, pc) == script[s] # Absent /\ script[s].pc = pc

\* A backup that is there is kept.
ReadSettings(s) ==
    /\ At(s, "enable")
    /\ script' = [script EXCEPT ![s] =
                    IF backup # Absent THEN [pc |-> "ProxyEnable", read |-> Absent]
                    ELSE [pc |-> "save", read |-> reg]]
    /\ UNCHANGED <<reg, backup>>

SaveBackup(s) ==
    /\ At(s, "save")
    /\ backup' = script[s].read
    /\ script' = [script EXCEPT ![s] = [pc |-> "ProxyEnable", read |-> Absent]]
    /\ UNCHANGED reg

After(n) == CASE n = "ProxyEnable" -> "ProxyServer" [] n = "ProxyServer" -> "ProxyOverride"
              [] OTHER -> "notify"

SetValueTurnsOff(s) ==
    /\ \E n \in Names :
          /\ At(s, n)
          /\ reg' = [reg EXCEPT ![n] = IF script[s].read = Absent THEN Ours
                                      ELSE IF n = "ProxyEnable" THEN First ELSE script[s].read[n]]
          /\ Goto(s, IF n = "ProxyOverride" /\ script[s].read # Absent THEN "remove" ELSE After(n))
    /\ UNCHANGED backup

\* enable writes our values, restore the ones it has read.
SetValue(s) ==
    /\ \E n \in Names :
          /\ At(s, n)
          /\ reg' = [reg EXCEPT ![n] = IF script[s].read = Absent THEN Ours ELSE script[s].read[n]]
          /\ Goto(s, IF n = "ProxyOverride" /\ script[s].read # Absent THEN "remove" ELSE After(n))
    /\ UNCHANGED backup

ReadAndRemove(s) ==
    /\ At(s, "restore") /\ backup # Absent
    /\ script' = [script EXCEPT ![s] = [pc |-> "ProxyEnable", read |-> backup]]
    /\ backup' = Absent
    /\ UNCHANGED reg

\* Without a backup the script throws.
ReadBackup(s) ==
    /\ At(s, "restore") /\ backup # Absent
    /\ script' = [script EXCEPT ![s] = [pc |-> "ProxyEnable", read |-> backup]]
    /\ UNCHANGED <<reg, backup>>

RemoveBackup(s) ==
    /\ At(s, "remove")
    /\ backup' = Absent
    /\ Goto(s, "notify")
    /\ UNCHANGED reg

ScriptStep(s) ==
    /\ ReadSettings(s) \/ SaveBackup(s) \/ SetValue(s) \/ ReadBackup(s) \/ RemoveBackup(s)
    /\ restored' = At(s, "remove")
    /\ UNCHANGED <<ui, service, flips, users, overlapped, changed, changes, runs>>

\* It has notified applications, throws, or is killed after 15 s.
ScriptEnds(s) ==
    /\ script[s] # Absent
    /\ script' = [script EXCEPT ![s] = Absent]
    /\ restored' = FALSE
    /\ UNCHANGED <<ui, service, flips, reg, backup, users, overlapped, changed, changes, runs>>

\* The user turns the proxy on or off, or enters other settings.
UserChanges(N, u) ==
    /\ changes < MaxChanges
    /\ changes' = changes + 1
    /\ reg' = [n \in Names |-> IF n \in N THEN u ELSE reg[n]]
    /\ changed' = (changed \/ backup # Absent \/ Running # {})
    /\ users' = IF changed' THEN users ELSE reg'
    /\ restored' = FALSE
    /\ UNCHANGED <<ui, service, flips, script, backup, overlapped, runs>>

-----------------------------------------------------------------------------
ShellNext ==
    \/ Ready \/ Show \/ Loaded \/ LoadFails \/ ReloadTimer \/ Reload
    \/ CloseWindow \/ Quit \/ Closed
    \/ ServiceFlips
    \/ \E s \in Scripts :
        \/ \E action \in {"enable", "restore"} : RunScript(s, action)
        \/ ScriptStep(s)
        \/ ScriptEnds(s)
    \/ \E N \in {Names, {"ProxyEnable"}}, u \in Choices : UserChanges(N, u)

ShellSpec == ShellInit /\ [][ShellNext]_shellVars

\* A load ends, timers fire, and a window that was asked to close does so.
FairShellSpec ==
    /\ ShellSpec
    /\ WF_shellVars(Ready)
    /\ WF_shellVars(Loaded \/ LoadFails)
    /\ WF_shellVars(ReloadTimer)
    /\ WF_shellVars(Closed)

-----------------------------------------------------------------------------
(* The types.                                                              *)
ShellTypeOK ==
    /\ running \in {"off", "starting", "ready"}
    /\ window \in {"none", "shown", "hidden"}
    /\ page \in {"none", "loading", "failed", "loaded"}
    /\ {timer, quitting, remote, service, restored, overlapped, changed} \subseteq BOOLEAN
    /\ script \in [Scripts -> Processes \cup {Absent}]
    /\ reg \in Settings /\ users \in Settings
    /\ backup \in Settings \cup {Absent}

(* A page that could not be loaded is loaded once the service is up, also  *)
(* when the window was hidden meanwhile (main.cjs, did-fail-load).         *)
PageRecovers == page = "failed" ~> (page = "loaded" \/ ~ service \/ quitting)

(* An application that is asked to quit ends: the handler that hides the   *)
(* window does not stand in the way, even if the window is hidden at that  *)
(* moment or shown again before it closes (main.cjs, before-quit, close).  *)
QuitEnds == (running = "ready" /\ ~ remote) ~> (running = "off")

(* While any of our values is in the registry, the backup is there and has *)
(* none of them, wherever the scripts were killed: unless two scripts ran  *)
(* at once (system-proxy.ps1).                                             *)
OursHaveBackup ==
    ~ overlapped /\ (\E n \in Names : reg[n] = Ours) =>
        backup # Absent /\ \A n \in Names : backup[n] # Ours

(* "恢复时还原原值" (app.js 476): a restore that is completed leaves all    *)
(* three values as the user had them before, whatever enables and restores *)
(* were killed on the way: unless the user has changed the values since    *)
(* the backup was made, or two scripts ran at once.                        *)
RestoreGivesOriginal == restored /\ ~ overlapped /\ ~ changed => reg = users
=============================================================================
