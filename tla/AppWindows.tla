------------------------------ MODULE AppWindows ------------------------------
(***************************************************************************)
(* The windows of the application and its tray icon: one instance per      *)
(* session (single_instance.rs), start in the background, hiding to the    *)
(* tray and quitting (main.rs, window_lifecycle_backend.rs,                *)
(* tray_backend.rs), and the two secondary windows (panel_windows.rs).     *)
(*                                                                         *)
(*   app:   the first instance; its UI thread handles one event at a time, *)
(*          closures sent by other threads in their order (closures)       *)
(*   tray:  the thread of the tray service; READY is what it last heard of *)
(*          the desktop's tray host, whose reports take their time         *)
(*                                                                         *)
(* The preferences are read anew at each use: any content is possible.     *)
(***************************************************************************)
EXTENDS Integers, Sequences

CONSTANTS MaxEvents,  \* what the person and other launches do
          MaxHosts    \* times the tray host of the desktop comes or goes

Panels == {"fans", "extra"}

VARIABLES app,      \* "none", "starting", "up"
          main,     \* the main window: "hidden", "shown", "minimized"
          panels,   \* [open, shown, made, mirror], see PanelStates
          tray,     \* [service, ready]: the icon is registered; READY
          grace,    \* the check three seconds after a start in the background
          closures, \* sent to the UI thread
          host,     \* the desktop has a tray host
          reports,  \* the host's comings and goings not yet heard of
          count,    \* [events, hosts] so far
          blind     \* history: the host went, or its going was heard of, too
                    \* late for the decision to hide the main window

windowVars == <<app, main, panels, tray, grace, closures, host, reports, count, blind>>

(* open: the flags fans-open and extra-open; made: windows created so far; *)
(* mirror: the timer that copies the main window's state to them runs.     *)
PanelStates == [open : SUBSET Panels, shown : SUBSET Panels, made : SUBSET Panels,
                mirror : BOOLEAN]
NoPanels == [open |-> {}, shown |-> {}, made |-> {}, mirror |-> FALSE]
Closures == {"toggle", "show", "quit", "exit"} \cup Panels

WindowsTypeOK ==
  /\ app \in {"none", "starting", "up"}
  /\ main \in {"hidden", "shown", "minimized"}
  /\ panels \in PanelStates
  /\ tray \in [service : BOOLEAN, ready : BOOLEAN]
  /\ {grace, host, blind} \subseteq BOOLEAN
  /\ closures \in Seq(Closures)
  /\ reports \in Seq({"online", "offline"})
  /\ count \in [events : Nat, hosts : Nat]

WindowsInit ==
  /\ app = "none" /\ main = "hidden" /\ panels = NoPanels
  /\ tray = [service |-> FALSE, ready |-> FALSE]
  /\ grace = FALSE /\ closures = <<>> /\ reports = <<>> /\ blind = FALSE
  /\ host \in BOOLEAN
  /\ count = [events |-> 0, hosts |-> 0]

Event == count.events < MaxEvents /\ count' = [count EXCEPT !.events = @ + 1]

(* Hiding is decided on READY; a report under way may belie it.            *)
HidesBlindly == ~host /\ reports # <<>>

-----------------------------------------------------------------------------
(* Start and single instance.                                              *)

(* A launch owns the bus name and wires the tray: READY is set before the  *)
(* service is spawned, which reports a missing host; spawning may fail.    *)
Launch ==
  /\ app = "none" /\ Event
  /\ app' = "starting"
  /\ \E spawned \in BOOLEAN :
       /\ tray' = [service |-> spawned, ready |-> spawned]
       /\ reports' = IF spawned /\ ~host THEN <<"offline">> ELSE <<>>
  /\ UNCHANGED <<main, panels, grace, closures, host, blind>>

(* Mutant: READY is set once the service has been spawned.                 *)
BuiltSettingReady ==
  /\ app = "starting"
  /\ app' = "up"
  /\ tray' = [tray EXCEPT !.ready = tray.service]
  /\ \E background \in BOOLEAN :
       /\ main' = IF background THEN "hidden" ELSE "shown"
       /\ grace' = background
  /\ UNCHANGED <<panels, closures, host, reports, count, blind>>

(* The window is built, later launches may ask for it, and it is shown,    *)
(* unless the program is to start in the background. What they asked       *)
(* before was dropped.                                                     *)
Built ==
  /\ app = "starting"
  /\ app' = "up"
  /\ \E background \in BOOLEAN :
       /\ main' = IF background THEN "hidden" ELSE "shown"
       /\ grace' = background
  /\ UNCHANGED <<panels, tray, closures, host, reports, count, blind>>

GraceEnds ==
  /\ app = "up" /\ grace
  /\ grace' = FALSE
  /\ IF main = "hidden" /\ ~tray.ready
     THEN main' = "shown" /\ UNCHANGED blind
     ELSE main' = main /\ blind' = (main = "hidden" /\ HidesBlindly)
  /\ UNCHANGED <<app, panels, tray, closures, host, reports, count>>

(* A click on the icon or in its menu, a global shortcut, a second launch, *)
(* a signal: each sends a closure to the UI thread.                        *)
Send(closure) ==
  /\ app = "up" /\ Event
  /\ closures' = Append(closures, closure)
  /\ UNCHANGED <<app, main, panels, tray, grace, host, reports, blind>>

TrayClick == host /\ tray.service /\ \E c \in Closures \ {"exit"} : Send(c)
Shortcut == Send("toggle")
SecondLaunch == Send("show")
Signal == Send("quit")

-----------------------------------------------------------------------------
(* The main window.                                                        *)

(* The mirror runs while a secondary window is open.                       *)
UpdateMirror(p) == [p EXCEPT !.mirror = p.open # {}]

(* Every open secondary window is closed, and the mirror looked at then.   *)
CloseAll(p) ==
  IF p.open = {} THEN p
  ELSE UpdateMirror([p EXCEPT !.open = {}, !.shown = @ \ p.open])

(* Hiding needs a tray to come back from and takes the others along.       *)
HideMain ==
  /\ main' = "hidden"
  /\ panels' = CloseAll(panels)
  /\ blind' = HidesBlindly

(* Shown, or brought to the front.                                         *)
ShowMain == main' = "shown" /\ blind' = FALSE /\ UNCHANGED panels

ToggleMain == IF main = "shown" /\ tray.ready THEN HideMain ELSE ShowMain

Minimize ==
  /\ app = "up" /\ main = "shown" /\ Event
  /\ main' = "minimized"
  /\ UNCHANGED <<app, panels, tray, grace, closures, host, reports, blind>>

(* The close button: to the tray if it is ready and the preference says so *)
(* (the question of "ask" is not asked); otherwise, and when they cannot   *)
(* be read, the loop is told to end and the window disappears meanwhile.   *)
CloseMain ==
  /\ app = "up" /\ main # "hidden" /\ Event
  /\ \E action \in {"hide", "ask", "quit", "unreadable"} :
       IF action \in {"hide", "ask"} /\ tray.ready
       THEN HideMain /\ UNCHANGED closures
       ELSE /\ main' = "hidden"
            /\ closures' = Append(closures, "exit")
            /\ UNCHANGED <<panels, blind>>
  /\ UNCHANGED <<app, tray, grace, host, reports>>

-----------------------------------------------------------------------------
(* The secondary windows.                                                  *)

(* A window is created the first time; that, and showing it, may fail.     *)
OpenPanel(p, n, outcome) ==
  CASE outcome = "uncreated" -> p
    [] outcome = "unshown" -> UpdateMirror([p EXCEPT !.made = @ \cup {n}])
    [] outcome = "shown" ->
         UpdateMirror([p EXCEPT !.open = @ \cup {n}, !.shown = @ \cup {n},
                                !.made = @ \cup {n}])

Outcomes(n) == {"unshown", "shown"} \cup (IF n \in panels.made THEN {} ELSE {"uncreated"})

(* Mutant: closing one window stops the mirror.                            *)
ClosePanelOnly(p, n) ==
  [p EXCEPT !.open = @ \ {n}, !.shown = @ \ {n}, !.mirror = FALSE]

(* Its button in the main window closes it again.                          *)
ClosePanel(p, n) == UpdateMirror([p EXCEPT !.open = @ \ {n}, !.shown = @ \ {n}])

PanelButton(n) ==
  /\ app = "up" /\ main = "shown" /\ Event
  /\ IF n \in panels.open
     THEN panels' = ClosePanel(panels, n)
     ELSE \E outcome \in Outcomes(n) : panels' = OpenPanel(panels, n, outcome)
  /\ UNCHANGED <<app, main, tray, grace, closures, host, reports, blind>>

(* Its own close button leaves the mirror running.                         *)
PanelCloses(n) ==
  /\ app = "up" /\ n \in panels.shown /\ Event
  /\ panels' = [panels EXCEPT !.open = @ \ {n}, !.shown = @ \ {n}]
  /\ UNCHANGED <<app, main, tray, grace, closures, host, reports, blind>>

(* From the tray menu: one that is open comes to the front.                *)
ShowPanel(n) ==
  /\ IF n \in panels.open
     THEN UNCHANGED panels
     ELSE \E outcome \in Outcomes(n) : panels' = OpenPanel(panels, n, outcome)
  /\ UNCHANGED <<main, blind>>

-----------------------------------------------------------------------------
(* The UI thread.                                                          *)

QuitButton ==
  /\ app = "up" /\ main = "shown" /\ Event
  /\ closures' = Append(closures, "exit")
  /\ UNCHANGED <<app, main, panels, tray, grace, host, reports, blind>>

(* One closure; quitting goes through the same closures.                      *)
Handle ==
  /\ app = "up" /\ closures # <<>> /\ Head(closures) # "exit"
  /\ closures' = IF Head(closures) = "quit" THEN Append(Tail(closures), "exit")
                                           ELSE Tail(closures)
  /\ CASE Head(closures) = "toggle" -> ToggleMain
       [] Head(closures) = "show" -> ShowMain
       [] Head(closures) = "quit" -> UNCHANGED <<main, panels, blind>>
       [] OTHER -> ShowPanel(Head(closures))
  /\ UNCHANGED <<app, tray, grace, host, reports, count>>

(* The loop ends and the process with it.                                  *)
Exit ==
  /\ app = "up" /\ closures # <<>> /\ Head(closures) = "exit"
  /\ app' = "none" /\ main' = "hidden" /\ panels' = NoPanels
  /\ tray' = [service |-> FALSE, ready |-> FALSE]
  /\ grace' = FALSE /\ closures' = <<>> /\ reports' = <<>> /\ blind' = FALSE
  /\ UNCHANGED <<host, count>>

-----------------------------------------------------------------------------
(* The desktop's tray host, and the thread that hears of it.               *)

HostChanges ==
  /\ count.hosts < MaxHosts /\ count' = [count EXCEPT !.hosts = @ + 1]
  /\ host' = ~host
  /\ reports' = IF tray.service
                THEN Append(reports, IF host THEN "offline" ELSE "online")
                ELSE reports
  /\ blind' = (host /\ app = "up" /\ main = "hidden" /\ ~grace)
  /\ UNCHANGED <<app, main, panels, tray, grace, closures>>

HearOfHost ==
  /\ reports # <<>>
  /\ reports' = Tail(reports)
  /\ tray' = [tray EXCEPT !.ready = (Head(reports) = "online")]
  /\ UNCHANGED <<app, main, panels, grace, closures, host, count, blind>>

-----------------------------------------------------------------------------
Person == \/ Minimize \/ CloseMain \/ QuitButton \/ TrayClick \/ Shortcut
          \/ \E n \in Panels : PanelButton(n) \/ PanelCloses(n)

WindowsNext == \/ Launch \/ Built \/ GraceEnds \/ SecondLaunch \/ Signal
        \/ Person \/ Handle \/ Exit
        \/ HostChanges \/ HearOfHost

WindowsSpec == WindowsInit /\ [][WindowsNext]_windowVars

-----------------------------------------------------------------------------
Leaving == \E i \in DOMAIN closures : closures[i] = "exit"

(* A main window that is hidden while the program goes on has an icon to   *)
(* come back from, unless the tray host went after it was hidden, or the   *)
(* report of its going was still under way. It is the stale READY of       *)
(* tray_backend.rs, and the order in which wire_app sets it, that could    *)
(* leave a running program without any window.                             *)
HiddenHasIcon ==
  app = "up" /\ main = "hidden" /\ ~grace /\ ~Leaving =>
    (host /\ tray.service) \/ blind

(* A secondary window that is seen is one the program takes for open, and  *)
(* its contents are kept up to date: whichever of the two was closed, by   *)
(* whichever of the ways, the mirror of the other goes on.                 *)
PanelsAreMirrored ==
  panels.shown = panels.open /\ (panels.shown # {} => panels.mirror)

=============================================================================
