---------------------------- MODULE DesktopShell ----------------------------
(***************************************************************************)
(* The desktop application (electron/main.js): it spawns the Go server,    *)
(* probes its port until it answers, opens a window and a tray icon, and   *)
(* takes the server down when it quits.  Events of the child process, of   *)
(* the probes, of timers, of the user and of the operating system come in  *)
(* any order.  In development nobody is spawned and the port of the front  *)
(* end's own server is probed.                                             *)
(***************************************************************************)
EXTENDS Naturals

CONSTANT MaxRetries     \* maxRetries of checkServerAvailability

ASSUME DesktopAssumption == MaxRetries \in Nat \ {0}

VARIABLES
    dev,        \* NODE_ENV is development
    foreign,    \* a server that is not our child answers on the port
    phase,      \* where the function passed to whenReady stands
    child,      \* the server process
    ref,        \* serverProcess is set
    signal,     \* strongest signal sent to the child
    attempt,    \* currentAttempt
    requests,   \* probes that wait for an answer
    timers,     \* probes that wait for retryDelay
    probe,      \* the promise of checkServerAvailability
    main,       \* the window mainWindow refers to
    stray,      \* a window mainWindow refers to no more
    dialogs,    \* dialogs that wait for an answer
    isQuitting, \* app.isQuitting
    asked,      \* app.quit was called
    armed       \* before-quit left its timer and its listener behind

shellVars == <<dev, foreign, phase, child, ref, signal, attempt, requests, timers,
               probe, main, stray, dialogs, isQuitting, asked, armed>>

mode == <<dev, foreign>>
probing == <<attempt, requests, timers, probe>>
windows == <<main, stray>>
quitting == <<signal, isQuitting, asked, armed>>

Alive == {"booting", "listening"}

ShellTypeOK ==
    /\ dev \in BOOLEAN /\ foreign \in BOOLEAN
    /\ phase \in {"launch", "starting", "up", "failed", "exited"}
    /\ child \in Alive \cup {"none", "unspawned", "dead"}
    /\ ref \in BOOLEAN
    /\ child \in Alive => ref
    /\ signal \in {"none", "SIGTERM", "SIGKILL"}
    /\ attempt \in Nat /\ requests \in Nat /\ timers \in Nat
    /\ probe \in {"pending", "resolved", "rejected"}
    /\ main \in {"none", "shown", "hidden"}
    /\ stray \in BOOLEAN
    /\ dialogs \subseteq {"start", "crash"}
    /\ isQuitting \in BOOLEAN /\ asked \in BOOLEAN /\ armed \in BOOLEAN

ShellInit ==
    /\ dev \in BOOLEAN
    /\ foreign \in BOOLEAN
    /\ phase = "launch"
    /\ child = "none"
    /\ ref = FALSE
    /\ signal = "none"
    /\ attempt = 0
    /\ requests = 0
    /\ timers = 0
    /\ probe = "pending"
    /\ main = "none"
    /\ stray = FALSE
    /\ dialogs = {}
    /\ isQuitting = FALSE
    /\ asked = FALSE
    /\ armed = FALSE

Running == phase \notin {"launch", "exited"}

-----------------------------------------------------------------------------
(* Windows. *)

createWindow ==
    /\ main' = "shown"
    /\ stray' = (stray \/ main # "none")

(* A window is asked to close.  Either window's handler hides mainWindow   *)
(* and keeps its own window; while the application quits either window's   *)
(* end forgets mainWindow, and the other window remains.                   *)
CloseWindow ==
    \/ ~isQuitting /\ main' = "hidden" /\ stray' = stray
    \/ isQuitting /\ main' = "none" /\ stray' = (stray /\ main # "none")

(* The user closes a window.                                               *)
WindowClosed ==
    /\ Running
    /\ main = "shown" \/ stray
    /\ CloseWindow
    /\ UNCHANGED <<mode, phase, child, ref, probing, dialogs, quitting>>

(* app.on('activate'), on macOS: a click on the dock icon.                 *)
Activate ==
    /\ Running
    /\ main = "none" /\ ~stray
    /\ createWindow
    /\ UNCHANGED <<mode, phase, child, ref, probing, dialogs, quitting>>

(* "Show" in the menu of the tray icon, and a click on the icon.           *)
TrayShow ==
    /\ phase = "up"
    /\ \/ main = "none" /\ createWindow
       \/ main # "none" /\ main' \in {"shown", "hidden"} \ {main} /\ stray' = stray
    /\ UNCHANGED <<mode, phase, child, ref, probing, dialogs, quitting>>

-----------------------------------------------------------------------------
(* Startup. *)

(* startServer up to its first probe.                                      *)
startServer ==
    /\ phase = "launch"
    /\ phase' = "starting"
    /\ \/ dev /\ UNCHANGED <<child, ref>>
       \/ ~dev /\ child' \in {"booting", "unspawned"} /\ ref' = TRUE
    /\ attempt' = 1
    /\ requests' = 1
    /\ UNCHANGED <<mode, timers, probe, windows, dialogs, quitting>>

(* A promise settles once.                                                 *)
Settle(result) == probe' = IF probe = "pending" THEN result ELSE probe

Answers == foreign \/ child = "listening"

ProbeAnswered ==
    /\ Running
    /\ requests > 0
    /\ Answers
    /\ requests' = requests - 1
    /\ Settle("resolved")
    /\ UNCHANGED <<mode, phase, child, ref, attempt, timers, windows, dialogs, quitting>>

(* Mutant: the attempts are not counted against the limit.                 *)
ProbeEndedBug(n) ==
    /\ requests' = requests - 1
    /\ \/ attempt > 2 * MaxRetries /\ Settle("rejected") /\ timers' = timers
       \/ attempt <= 2 * MaxRetries /\ timers' = timers + n /\ probe' = probe

(* Mutant: the last attempt fails and nobody rejects the promise.          *)
ProbeEndedSilentBug(n) ==
    /\ requests' = requests - 1
    /\ timers' = IF attempt < MaxRetries THEN timers + n ELSE timers
    /\ probe' = probe

(* n handlers learn that a probe failed; each retries or gives up.         *)
ProbeEnded(n) ==
    /\ requests' = requests - 1
    /\ \/ attempt >= MaxRetries /\ Settle("rejected") /\ timers' = timers
       \/ attempt < MaxRetries /\ timers' = timers + n /\ probe' = probe

ProbeRefused ==
    /\ Running
    /\ requests > 0
    /\ ~Answers
    /\ ProbeEnded(1)
    /\ UNCHANGED <<mode, phase, child, ref, attempt, windows, dialogs, quitting>>

(* No answer in ten seconds.  The timeout handler destroys the request,    *)
(* which makes the error handler run as well: two retries for one probe.   *)
ProbeTimedOut ==
    /\ Running
    /\ requests > 0
    /\ ProbeEnded(2)
    /\ UNCHANGED <<mode, phase, child, ref, attempt, windows, dialogs, quitting>>

tryConnect ==
    /\ Running
    /\ timers > 0
    /\ timers' = timers - 1
    /\ requests' = requests + 1
    /\ attempt' = attempt + 1
    /\ UNCHANGED <<mode, phase, child, ref, probe, windows, dialogs, quitting>>

(* whenReady goes on after startServer.                                    *)
Started ==
    /\ phase = "starting"
    /\ \/ /\ probe = "resolved"
          /\ phase' = "up"
          /\ createWindow
          /\ UNCHANGED dialogs
       \/ /\ probe = "rejected"
          /\ phase' = "failed"
          /\ dialogs' = dialogs \cup {"start"}
          /\ UNCHANGED windows
    /\ UNCHANGED <<mode, child, ref, probing, quitting>>

-----------------------------------------------------------------------------
(* The child process. *)

ServerListens ==
    /\ child = "booting"
    /\ ~foreign
    /\ child' = "listening"
    /\ UNCHANGED <<mode, phase, ref, probing, windows, dialogs, quitting>>

(* The close listener of startServer: a bad exit code brings up a dialog,  *)
(* 0 or a death by signal closes the window.  Then, if it is there, the    *)
(* one of before-quit, which ends the application.                         *)
ServerClosed(bad) ==
    /\ child' = "dead"
    /\ \/ /\ bad
          /\ dialogs' = dialogs \cup {"crash"}
          /\ UNCHANGED windows
       \/ /\ ~bad
          /\ IF main # "none" THEN CloseWindow ELSE UNCHANGED windows
          /\ UNCHANGED dialogs
    /\ \/ armed /\ ref' = FALSE /\ phase' = "exited"
       \/ ~armed /\ UNCHANGED <<ref, phase>>

ServerExits(bad) ==
    /\ Running
    /\ child \in Alive
    /\ ServerClosed(bad)
    /\ UNCHANGED <<mode, probing, quitting>>

(* The binary could not be started: the error and the close event.         *)
SpawnFails ==
    /\ Running
    /\ child = "unspawned"
    /\ ServerClosed(TRUE)
    /\ Settle("rejected")
    /\ UNCHANGED <<mode, attempt, requests, timers, quitting>>

(* The operating system ends what was sent SIGKILL, also after the         *)
(* application has gone.                                                   *)
ServerKilled ==
    /\ phase = "exited"
    /\ child \in Alive
    /\ signal = "SIGKILL"
    /\ child' = "dead"
    /\ UNCHANGED <<mode, phase, ref, probing, windows, dialogs, quitting>>

-----------------------------------------------------------------------------
(* Quitting. *)

(* app.quit with before-quit.  While serverProcess is set it is sent       *)
(* SIGTERM and the quit is put off until it closes or five seconds have    *)
(* passed.  Otherwise Electron closes the windows, and one that refuses    *)
(* to close cancels the quit.                                              *)
Quit(explicit) ==
    /\ isQuitting' = (isQuitting \/ explicit)
    /\ asked' = TRUE
    /\ \/ /\ ref
          /\ signal' = IF signal = "none" THEN "SIGTERM" ELSE signal
          /\ armed' = TRUE
          /\ UNCHANGED <<phase, windows>>
       \/ /\ ~ref
          /\ \/ /\ isQuitting' \/ (main = "none" /\ ~stray)
                /\ phase' = "exited" /\ main' = "none" /\ stray' = FALSE
             \/ /\ ~isQuitting' /\ (main # "none" \/ stray)
                /\ main' = "hidden"
                /\ UNCHANGED <<phase, stray>>
          /\ UNCHANGED <<signal, armed>>

TrayQuit ==
    /\ phase = "up"
    /\ Quit(TRUE)
    /\ UNCHANGED <<mode, child, ref, probing, dialogs>>

(* The application menu or the dock.  That a Windows session ends, for     *)
(* which Electron emits no before-quit, is not modelled.                   *)
SystemQuit ==
    /\ Running
    /\ Quit(FALSE)
    /\ UNCHANGED <<mode, child, ref, probing, dialogs>>

(* Either answer ends in app.quit, with the log shown first or not.        *)
AnswerDialog(d) ==
    /\ Running
    /\ d \in dialogs
    /\ dialogs' = dialogs \ {d}
    /\ Quit(d = "crash")
    /\ UNCHANGED <<mode, child, ref, probing>>

(* Mutant: the application goes and trusts in SIGTERM.                     *)
ForceExitBug ==
    /\ Running
    /\ armed
    /\ phase' = "exited"
    /\ UNCHANGED <<mode, child, ref, probing, windows, dialogs, quitting>>

(* Mutant: five seconds later the server is killed and its end awaited.    *)
ForceExitWaitBug ==
    /\ Running
    /\ armed
    /\ signal # "SIGKILL"
    /\ signal' = "SIGKILL"
    /\ UNCHANGED <<mode, phase, child, ref, probing, windows, dialogs, isQuitting, asked, armed>>

(* The five seconds are over.                                              *)
ForceExit ==
    /\ Running
    /\ armed
    /\ signal' = IF ref THEN "SIGKILL" ELSE signal
    /\ phase' = "exited"
    /\ UNCHANGED <<mode, child, ref, probing, windows, dialogs, isQuitting, asked, armed>>

-----------------------------------------------------------------------------

Probe == ProbeAnswered \/ ProbeRefused \/ ProbeTimedOut

ShellNext ==
    \/ startServer \/ Started \/ Probe \/ tryConnect
    \/ ServerListens \/ SpawnFails \/ ServerKilled
    \/ \E bad \in BOOLEAN : ServerExits(bad)
    \/ WindowClosed \/ Activate \/ TrayShow
    \/ TrayQuit \/ SystemQuit \/ ForceExit
    \/ \E d \in {"start", "crash"} : AnswerDialog(d)

(* The event loop runs, a probe ends after ten seconds at the latest, a    *)
(* killed process dies, and the user answers a dialog some time.           *)
Fairness ==
    /\ WF_shellVars(startServer)
    /\ WF_shellVars(Started)
    /\ WF_shellVars(Probe)
    /\ WF_shellVars(tryConnect)
    /\ WF_shellVars(SpawnFails)
    /\ WF_shellVars(ServerKilled)
    /\ WF_shellVars(ForceExit)
    /\ \A d \in {"start", "crash"} : WF_shellVars(AnswerDialog(d))

ShellSpec == ShellInit /\ [][ShellNext]_shellVars /\ Fairness

-----------------------------------------------------------------------------
(* Properties. *)

(* The server never outlives an application that exits by itself, from the *)
(* tray, a menu, a dialog, its last window or the forced exit: its child   *)
(* is gone or has been sent SIGKILL.  A crash or kill of the application,  *)
(* which orphans the server, is not modelled.                              *)
ServerDiesWithApp == phase = "exited" /\ child \in Alive => signal = "SIGKILL"

(* The promise of checkServerAvailability is rejected only after           *)
(* maxRetries probes or because the binary could not be started, and the   *)
(* probes that time out, which are retried twice, never double their       *)
(* number beyond twice maxRetries.                                         *)
ProbesBounded ==
    /\ attempt + timers < 2 * MaxRetries
    /\ probe = "rejected" => attempt >= MaxRetries \/ child = "dead"

(* Before the limit is reached every probe but the first has one that      *)
(* ended, and none has ended in more than two retries.                     *)
ProbeBudget ==
    /\ phase = "launch" => attempt = 0 /\ requests = 0 /\ timers = 0 /\ probe = "pending"
    /\ attempt < MaxRetries => timers + 2 * requests <= attempt + 1

(* The probes of checkServerAvailability stay within their bound.          *)
ShellInv == ShellTypeOK /\ ProbeBudget /\ ProbesBounded

(* Whoever starts the application sees it come up, sees a dialog, or sees  *)
(* it end; it never hangs in the probes.                                   *)
StartSettles == phase = "starting" ~> phase \in {"up", "failed", "exited"}

(* Quitting, and the dialog that a crashed server opens, end the           *)
(* application, also when the server has died before, hangs, or dies while *)
(* it is being shut down.  (In development only the                        *)
(* tray and the dialog of a crash quit for certain: app.quit alone is      *)
(* cancelled by the window that hides itself.)                             *)
QuitExits ==
    (asked /\ (~dev \/ isQuitting)) \/ "crash" \in dialogs ~> phase = "exited"

=============================================================================
