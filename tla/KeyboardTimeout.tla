--------------------------- MODULE KeyboardTimeout ---------------------------
(***************************************************************************)
(* Keyboard auto-off (keyboard_timeout_runtime.rs): when the person has    *)
(* been idle for the time set for the power source, the backlight is       *)
(* switched off, and its level is put back on the next input.              *)
(*                                                                         *)
(*   compositor: an idle watch for one timeout (idle_notify.rs) (watch)    *)
(*   main.rs: settings and power source, latest value each (settings, ac)  *)
(*   runner: one event or change at a time; every read and write of the    *)
(*           light, and opening a watch, is an await              (runner) *)
(*   light: sysfs reads, logind writes; a write may time out and still be  *)
(*           executed (keyboard_dim.rs)                       (light, late)*)
(*                                                                         *)
(* The person uses the Fn keys at any time. What the status line says is   *)
(* left out.                                                               *)
(***************************************************************************)
EXTENDS Integers, Sequences

CONSTANTS MaxLevel,     \* the brightest level
          Timeouts,     \* seconds that may be set
          MaxPresses,   \* of the Fn keys
          MaxSwitches,  \* changes of the settings and of the power source
          MaxIdles,     \* idle spells of the person
          MaxFaults     \* failing accesses, lost watches and kills, together

ASSUME LevelAssumption == MaxLevel \in Nat
ASSUME TimeoutsAssumption == Timeouts \subseteq Nat \ {0}
ASSUME BoundsAssumption == {MaxPresses, MaxSwitches, MaxIdles, MaxFaults} \subseteq Nat

None == -1
Levels == 0 .. MaxLevel
Sources == {"ac", "battery"}

VARIABLES light,     \* the level of the backlight
          late,      \* writes without an answer, perhaps still executed
          settings,  \* seconds for each source; None or 0: never
          ac,        \* the source last reported, or "unknown"
          person,    \* "active" or "idle"
          watch,     \* [state, told, events]
          runner,    \* [pc, after, held, dimmed, timeout, target]
          quit,      \* the application is closing
          used,      \* presses, switches, idles and faults so far
          hist       \* history: [chosen, clean]

device == <<light, late>>
inputs == <<settings, ac>>
vars == <<light, late, settings, ac, person, watch, runner, quit, used, hist>>

NoWatch == [state |-> "none", told |-> FALSE, events |-> <<>>]
Pcs == {"top", "select", "opening", "dimRead", "dimWrite", "dimCheck",
        "restoreRead", "restoreWrite", "stopped", "gone"}

TypeOK ==
  /\ light \in Levels
  /\ late \subseteq Levels
  /\ settings \in [Sources -> Timeouts \cup {None, 0}]
  /\ ac \in Sources \cup {"unknown"}
  /\ person \in {"active", "idle"}
  /\ watch \in [state : {"none", "open", "lost"}, told : BOOLEAN,
                events : Seq({"Idle", "Resumed"})]
  /\ runner \in [pc : Pcs, after : {"top", "opening", "stopped"},
                 held : Levels, dimmed : (Levels \ {0}) \cup {None},
                 timeout : Timeouts \cup {None}, target : Timeouts \cup {None}]
  /\ quit \in BOOLEAN
  /\ used \in [presses : 0 .. MaxPresses, switches : 0 .. MaxSwitches,
               idles : 0 .. MaxIdles, faults : 0 .. MaxFaults]
  /\ hist \in [chosen : Levels, clean : BOOLEAN]

(* The task has started; the settings file may hold zeros.                 *)
Init ==
  /\ light \in Levels
  /\ late = {}
  /\ settings \in [Sources -> Timeouts \cup {None, 0}]
  /\ ac = "unknown"
  /\ person = "active"
  /\ watch = NoWatch
  /\ runner = [pc |-> "top", after |-> "top", held |-> 0, dimmed |-> None,
               timeout |-> None, target |-> None]
  /\ quit = FALSE
  /\ used = [presses |-> 0, switches |-> 0, idles |-> 0, faults |-> 0]
  /\ hist = [chosen |-> light, clean |-> TRUE]

Spend(what, bound) ==
  /\ used[what] < bound
  /\ used' = [used EXCEPT ![what] = @ + 1]

(* A fault: whether the light is the person's is not known from here on.   *)
Fault == Spend("faults", MaxFaults) /\ hist' = [hist EXCEPT !.clean = FALSE]

-----------------------------------------------------------------------------
(* The person and the compositor                                           *)

(* The runner has switched the light off, or is about to put it back.      *)
SwitchedOff == runner.dimmed # None \/ runner.pc \in {"dimCheck", "restoreRead"}

(* A level is chosen. The runner cannot see one chosen between its read    *)
(* and its write, nor an "off" chosen when it has switched off itself.     *)
Press ==
  /\ Spend("presses", MaxPresses)
  /\ \E v \in Levels \ {light} :
       /\ light' = v
       /\ hist' = [chosen |-> v,
                   clean |-> /\ hist.clean
                             /\ runner.pc \notin {"dimWrite", "restoreWrite"}
                             /\ v # 0 \/ ~SwitchedOff]
  /\ UNCHANGED <<late, inputs, person, watch, runner, quit>>

GoesIdle ==
  /\ person = "active"
  /\ Spend("idles", MaxIdles)
  /\ person' = "idle"
  /\ UNCHANGED <<device, inputs, watch, runner, quit, hist>>

(* The spell has lasted for the timeout of the open watch.                 *)
Notify ==
  /\ person = "idle"
  /\ watch.state = "open"
  /\ ~watch.told
  /\ watch' = [watch EXCEPT !.told = TRUE, !.events = Append(@, "Idle")]
  /\ UNCHANGED <<device, inputs, person, runner, quit, used, hist>>

(* Input; a watch that was told of the spell is told of its end.           *)
Input ==
  /\ person = "idle"
  /\ person' = "active"
  /\ watch' = IF watch.state = "open" /\ watch.told
                THEN [watch EXCEPT !.told = FALSE, !.events = Append(@, "Resumed")]
                ELSE watch
  /\ UNCHANGED <<device, inputs, runner, quit, used, hist>>

(* The compositor's connection breaks; events already sent can be read.    *)
WatchBreaks ==
  /\ watch.state = "open"
  /\ Fault
  /\ watch' = [watch EXCEPT !.state = "lost", !.told = FALSE]
  /\ UNCHANGED <<device, inputs, person, runner, quit>>

(* The settings were edited and saved.                                     *)
SettingsSaved ==
  /\ Spend("switches", MaxSwitches)
  /\ \E s \in Sources : \E secs \in Timeouts \cup {None} :
       settings' = [settings EXCEPT ![s] = secs]
  /\ UNCHANGED <<device, ac, person, watch, runner, quit, hist>>

(* A telemetry refresh reports another source, or none.                    *)
SourceReported ==
  /\ Spend("switches", MaxSwitches)
  /\ ac' \in (Sources \cup {"unknown"}) \ {ac}
  /\ UNCHANGED <<device, settings, person, watch, runner, quit, hist>>

Quit ==
  /\ ~quit
  /\ quit' = TRUE
  /\ UNCHANGED <<device, inputs, person, watch, runner, used, hist>>

-----------------------------------------------------------------------------
(* The runner                                                              *)

(* wanted: never without a known source, and zero seconds is never.        *)
Wanted == IF ac = "unknown" \/ settings[ac] = 0 THEN None ELSE settings[ac]

(* restore(): the saved level is taken first; without one nothing is done. *)
Restoring(r, after) ==
  IF r.dimmed = None THEN [r EXCEPT !.pc = after]
  ELSE [r EXCEPT !.pc = "restoreRead", !.after = after, !.held = r.dimmed, !.dimmed = None]

Goes(pc) == runner' = [runner EXCEPT !.pc = pc]
Ends == Goes(runner.after)

(* Mutant: a new timeout drops the watch and the backlight stays off.      *)
LookKeepingDark ==
  /\ runner.pc = "top"
  /\ IF Wanted = runner.timeout
       THEN Goes("select") /\ UNCHANGED watch
       ELSE /\ watch' = NoWatch
            /\ runner' = [runner EXCEPT !.pc = "opening", !.target = Wanted]
  /\ UNCHANGED <<device, inputs, person, quit, used, hist>>

(* The top of the loop: another timeout drops the watch, restores, and     *)
(* opens a new watch (retarget).                                           *)
Look ==
  /\ runner.pc = "top"
  /\ IF Wanted = runner.timeout
       THEN Goes("select") /\ UNCHANGED watch
       ELSE /\ watch' = NoWatch
            /\ runner' = Restoring([runner EXCEPT !.target = Wanted], "opening")
  /\ UNCHANGED <<device, inputs, person, quit, used, hist>>

(* A watch that cannot be opened is not tried again for this timeout.      *)
Open ==
  /\ runner.pc = "opening"
  /\ runner' = [runner EXCEPT !.pc = "top", !.timeout = runner.target]
  /\ IF runner.target = None
       THEN UNCHANGED <<watch, used, hist>>
       ELSE \/ watch' = [NoWatch EXCEPT !.state = "open"] /\ UNCHANGED <<used, hist>>
            \/ Fault /\ UNCHANGED watch
  /\ UNCHANGED <<device, inputs, person, quit>>

(* Mutant: a source without a timeout is not noticed.                      *)
ChangedToTimeout ==
  /\ runner.pc = "select"
  /\ Wanted \notin {None, runner.timeout}
  /\ Goes("top")
  /\ UNCHANGED <<device, inputs, person, watch, quit, used, hist>>

(* select!: the settings or the source changed.                            *)
Changed ==
  /\ runner.pc = "select"
  /\ Wanted # runner.timeout
  /\ Goes("top")
  /\ UNCHANGED <<device, inputs, person, watch, quit, used, hist>>

(* select!: an event of the watch. A second "Idle" finds it dimmed.        *)
TakeEvent ==
  /\ runner.pc = "select"
  /\ watch.events # <<>>
  /\ watch' = [watch EXCEPT !.events = Tail(@)]
  /\ runner' = IF Head(watch.events) = "Resumed" THEN Restoring(runner, "top")
               ELSE [runner EXCEPT !.pc = IF runner.dimmed = None THEN "dimRead" ELSE "top"]
  /\ UNCHANGED <<device, inputs, person, quit, used, hist>>

(* The stream of events has ended: the watch is dropped, nothing else.     *)
TakeEnd ==
  /\ runner.pc = "select"
  /\ watch.state = "lost"
  /\ watch.events = <<>>
  /\ watch' = NoWatch
  /\ Goes("top")
  /\ UNCHANGED <<device, inputs, person, quit, used, hist>>

(* Mutant: the task ends as it is.                                         *)
TakeQuitAtOnce ==
  /\ runner.pc = "select"
  /\ quit
  /\ Goes("stopped")
  /\ UNCHANGED <<device, inputs, person, watch, quit, used, hist>>

(* select!: the application closes; the last thing done is a restore.      *)
TakeQuit ==
  /\ runner.pc = "select"
  /\ quit
  /\ runner' = Restoring(runner, "stopped")
  /\ UNCHANGED <<device, inputs, person, watch, quit, used, hist>>

-----------------------------------------------------------------------------
(* dim and restore                                                         *)

(* The light takes a level, after every write sent earlier.                *)
Written(v) == light' = v /\ late' = {}

(* A write fails: not executed, or executed all the same, now or later.    *)
WriteFails(v) ==
  /\ Fault
  /\ \/ UNCHANGED device
     \/ Written(v)
     \/ late' = late \cup {v} /\ UNCHANGED light

(* A backlight that is off already is left alone.                          *)
DimRead ==
  /\ runner.pc = "dimRead"
  /\ \/ /\ runner' = [runner EXCEPT !.pc = IF light = 0 THEN "top" ELSE "dimWrite",
                                    !.held = light]
        /\ UNCHANGED <<used, hist>>
     \/ Fault /\ Goes("top")
  /\ UNCHANGED <<device, inputs, person, watch, quit>>

DimWrite ==
  /\ runner.pc = "dimWrite"
  /\ \/ Written(0) /\ Goes("dimCheck") /\ UNCHANGED <<used, hist>>
     \/ WriteFails(0) /\ Goes("top")
  /\ UNCHANGED <<inputs, person, watch, quit>>

(* Only a confirmed "off" is remembered as one to undo.                    *)
DimCheck ==
  /\ runner.pc = "dimCheck"
  /\ \/ /\ runner' = [runner EXCEPT !.pc = "top",
                                    !.dimmed = IF light = 0 THEN runner.held ELSE None]
        /\ UNCHANGED <<used, hist>>
     \/ Fault /\ Goes("top")
  /\ UNCHANGED <<device, inputs, person, watch, quit>>

(* Mutant: the saved level is written whatever the level is now.           *)
RestoreReadAnyLevel ==
  /\ runner.pc = "restoreRead"
  /\ \/ Goes("restoreWrite") /\ UNCHANGED <<used, hist>>
     \/ Fault /\ Ends
  /\ UNCHANGED <<device, inputs, person, watch, quit>>

(* A level chosen since is left alone.                                     *)
RestoreRead ==
  /\ runner.pc = "restoreRead"
  /\ \/ /\ IF light = 0 THEN Goes("restoreWrite") ELSE Ends
        /\ UNCHANGED <<used, hist>>
     \/ Fault /\ Ends
  /\ UNCHANGED <<device, inputs, person, watch, quit>>

(* The read that follows only tells the user.                              *)
RestoreWrite ==
  /\ runner.pc = "restoreWrite"
  /\ \/ Written(runner.held) /\ UNCHANGED <<used, hist>>
     \/ WriteFails(runner.held)
  /\ Ends
  /\ UNCHANGED <<inputs, person, watch, quit>>

(* logind executes a write whose caller has given up, or never does.       *)
LateWrite ==
  \E v \in late :
    /\ late' = late \ {v}
    /\ light' \in {light, v}
    /\ UNCHANGED <<inputs, person, watch, runner, quit, used, hist>>

(* The process is killed, or has waited three seconds for the task.        *)
Kill ==
  /\ runner.pc \notin {"stopped", "gone"}
  /\ Fault
  /\ Goes("gone")
  /\ UNCHANGED <<device, inputs, person, watch, quit>>

-----------------------------------------------------------------------------
Access == DimRead \/ DimWrite \/ DimCheck \/ RestoreRead \/ RestoreWrite
Select == Changed \/ TakeEvent \/ TakeEnd
Run == Look \/ Open \/ Access

Next ==
  \/ Press \/ GoesIdle \/ Notify \/ Input \/ WatchBreaks
  \/ SettingsSaved \/ SourceReported \/ Quit
  \/ Run \/ Select \/ TakeQuit \/ LateWrite \/ Kill

Spec == Init /\ [][Next]_vars

(* The task runs while one of its awaits is ready, select! starves none    *)
(* of its branches, and an access ends (three seconds at most).            *)
FairSpec ==
  /\ Spec
  /\ WF_vars(Run) /\ SF_vars(Changed) /\ SF_vars(TakeEvent) /\ SF_vars(TakeEnd)
  /\ SF_vars(TakeQuit)

-----------------------------------------------------------------------------
(* Properties                                                              *)

AtRest == runner.pc \in {"top", "select", "stopped"}

(* "a level changed by the user meanwhile (Fn keys) wins": between two     *)
(* events, and when it has stopped, the runner leaves the light at what    *)
(* the person chose last, or has switched it off and knows what to put     *)
(* back, whatever idle spells, settings and sources came in between.       *)
LightKept ==
  AtRest /\ hist.clean =>
    IF runner.dimmed = None THEN light = hist.chosen
    ELSE \/ light = hist.chosen
         \/ light = 0 /\ runner.dimmed = hist.chosen

(* No watch though one is wanted: it could not be opened, or broke.        *)
Unwatched == AtRest /\ runner.timeout # None /\ watch.state # "open"

(* A light that is off for idleness comes on again when the person is      *)
(* back, also when the settings or the source changed in between, unless   *)
(* the desktop no longer tells.                                            *)
UndimmedOnInput ==
  runner.dimmed # None /\ person = "active"
    ~> \/ runner.dimmed = None \/ person = "idle"
       \/ Unwatched \/ runner.pc = "gone"

(* The timeout in force ends up being the one for the source last seen.    *)
TimeoutFollows ==
  <>[](runner.pc \in {"stopped", "gone"} \/ quit \/ runner.timeout = Wanted)

(* Closing the application always ends the task, which undoes its dimming. *)
StopsUndimmed ==
  quit ~> runner.pc = "gone" \/ (runner.pc = "stopped" /\ runner.dimmed = None)

(* "the previous level is restored on the next input": with the person     *)
(* back and every event handled, the light is off only if the person       *)
(* chose that.                                                             *)
RestoredOnInput ==
  /\ runner.pc = "select" /\ person = "active"
  /\ watch.state = "open" /\ watch.events = <<>>
  => light # 0 \/ hist.chosen = 0
=============================================================================
