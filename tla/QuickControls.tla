----------------------------- MODULE QuickControls -----------------------------
(***************************************************************************)
(* The keyboard brightness of the main window (quick_controls_backend.rs), *)
(* its write through Hardware1 (hardware_controls_backend.rs) and the LED  *)
(* backend of hardwared (keyboard_backlight.rs).                           *)
(*                                                                         *)
(* Clicks and ticks are handled on the window's thread; reads and writes   *)
(* are tasks of their own, whose results come back through the queue of    *)
(* the window's event loop.                                                *)
(***************************************************************************)
EXTENDS Integers, Sequences, FiniteSets

CONSTANTS MaxLevel,     \* max_brightness of the LED
          MaxClicks, MaxOthers, MaxTroubles

Levels == 0 .. MaxLevel
Unknown == -1

VARIABLES led,        \* set: the level last written; seen: what brightness reads
          ready, shown,  \* keyboard_control_ready, keyboard_brightness
          refreshing, \* the flag of QuickControlsContext
          looks,      \* refresh tasks
          writes,     \* write tasks, of the window or given up by it
          events,     \* closures queued for the event loop
          spent,      \* clicks, foreign changes and troubles so far
          past        \* history, see Pasts

quickVars == <<led, ready, shown, refreshing, looks, writes, events, spent, past>>

(* A look has read the LED or not; a write is asked for, on its way to     *)
(* hardwared, in the LED, or was given up before it got there.             *)
Looks == [stage : {"read", "ready"}, level : Levels \cup {Unknown}, usable : BOOLEAN]
WriteStages == {"asked", "sent", "written", "late"}
Writings == [level : Levels, stage : WriteStages, number : 1 .. MaxClicks]
Events == [kind : {"looked", "wrote"}, level : Levels \cup {Unknown}, usable : BOOLEAN]

(* behind: the result of a refresh that had read the LED before the last   *)
(* write or the last refresh was still to come.                            *)
(* foreign: since the last refresh began, something other than a confirmed *)
(* write moved the LED or the flag, or a read failed.                      *)
Pasts == [behind : BOOLEAN, foreign : BOOLEAN]

QuickTypeOK ==
  /\ led \in [set : Levels, seen : Levels]
  /\ ready \in BOOLEAN /\ shown \in Levels \cup {Unknown}
  /\ refreshing \in BOOLEAN
  /\ looks \subseteq Looks
  /\ writes \subseteq Writings
  /\ events \in Seq(Events)
  /\ spent \in [clicks : 0 .. MaxClicks, others : 0 .. MaxOthers, troubles : 0 .. MaxTroubles]
  /\ past \in Pasts

Foreign == spent.others < MaxOthers /\ spent' = [spent EXCEPT !.others = @ + 1]
Trouble == spent.troubles < MaxTroubles /\ spent' = [spent EXCEPT !.troubles = @ + 1]
Queued(kind, level, usable) ==
  events' = Append(events, [kind |-> kind, level |-> level, usable |-> usable])

NewLook == [stage |-> "read", level |-> Unknown, usable |-> FALSE]

(* wire_window, and the force_refresh that main starts.                    *)
Init ==
  /\ led \in {[set |-> l, seen |-> l] : l \in Levels}
  /\ ready = FALSE /\ shown = Unknown
  /\ refreshing = TRUE /\ looks = {NewLook}
  /\ writes = {} /\ events = <<>>
  /\ spent = [clicks |-> 0, others |-> 0, troubles |-> 0]
  /\ past = [behind |-> FALSE, foreign |-> FALSE]

-----------------------------------------------------------------------------
(* The window.                                                             *)

Start ==
  /\ refreshing' = TRUE
  /\ looks' = looks \cup {NewLook}
  /\ past' = [behind |-> looks # {}, foreign |-> FALSE]

(* A refresh that finds another one under way does nothing.                *)
Dropped ==
  /\ past' = [past EXCEPT !.behind = @ \/ \E k \in looks : k.level # Unknown]
  /\ UNCHANGED <<refreshing, looks>>

(* refresh_if_due, on telemetry, ten seconds after the last one: its reads *)
(* have ended by then, and its closure has run.                            *)
Tick ==
  /\ ~refreshing
  /\ looks = {} /\ events = <<>>
  /\ Start
  /\ UNCHANGED <<led, ready, shown, writes, events, spent>>

(* on_keyboard_brightness_requested.                                       *)
Click(l) ==
  /\ ready
  /\ spent.clicks < MaxClicks
  /\ spent' = [spent EXCEPT !.clicks = @ + 1]
  /\ ready' = FALSE
  /\ writes' = writes \cup {[level |-> l, stage |-> "asked", number |-> spent.clicks + 1]}
  /\ UNCHANGED <<led, shown, refreshing, looks, events, past>>

(* The closure of a refresh.                                               *)
ShowLooked ==
  /\ events # <<>> /\ Head(events).kind = "looked"
  /\ ready' = Head(events).usable
  /\ shown' = Head(events).level
  /\ events' = Tail(events)
  /\ UNCHANGED <<led, refreshing, looks, writes, spent, past>>

(* The closure of a write: the confirmed level, then a forced refresh, that *)
(* is dropped when one is under way.                                       *)
ShowWrote ==
  /\ events # <<>> /\ Head(events).kind = "wrote"
  /\ shown' = IF Head(events).level # Unknown THEN Head(events).level ELSE shown
  /\ events' = Tail(events)
  /\ IF refreshing
     THEN Dropped
     ELSE Start
  /\ UNCHANGED <<led, ready, writes, spent>>

(* refresh of the extra controls takes this control away, too.             *)
ExtraRefresh ==
  /\ Foreign
  /\ ready' = FALSE
  /\ past' = [past EXCEPT !.foreign = TRUE]
  /\ UNCHANGED <<led, shown, refreshing, looks, writes, events>>

-----------------------------------------------------------------------------
(* The refresh task: it joins four reads, and lets the next refresh start  *)
(* before its own result is queued.                                        *)
LookReads(k) ==
  /\ k.stage = "read" /\ k.level = Unknown
  /\ looks' = (looks \ {k}) \cup {[k EXCEPT !.level = led.seen, !.usable = TRUE]}
  /\ UNCHANGED <<led, ready, shown, refreshing, writes, events, spent, past>>

(* The brightness, or only the write status, cannot be read.               *)
LookFails(k) ==
  /\ k.stage = "read" /\ k.level = Unknown
  /\ Trouble
  /\ refreshing' = FALSE
  /\ \E level \in {Unknown, led.seen} :
       looks' = (looks \ {k}) \cup {[stage |-> "ready", level |-> level, usable |-> FALSE]}
  /\ past' = [past EXCEPT !.foreign = TRUE]
  /\ UNCHANGED <<led, ready, shown, writes, events>>

(* Mutant: the flag is not taken back.                                     *)
LookDoneBusy(k) ==
  /\ k.stage = "read" /\ k.level # Unknown
  /\ looks' = (looks \ {k}) \cup {[k EXCEPT !.stage = "ready"]}
  /\ UNCHANGED <<led, ready, shown, refreshing, writes, events, spent, past>>

LookDone(k) ==
  /\ k.stage = "read" /\ k.level # Unknown
  /\ looks' = (looks \ {k}) \cup {[k EXCEPT !.stage = "ready"]}
  /\ refreshing' = FALSE
  /\ UNCHANGED <<led, ready, shown, writes, events, spent, past>>

LookQueues(k) ==
  /\ k.stage = "ready"
  /\ looks' = looks \ {k}
  /\ Queued("looked", k.level, k.usable)
  /\ UNCHANGED <<led, ready, shown, refreshing, writes, spent, past>>

-----------------------------------------------------------------------------
(* The write task and hardwared.                                           *)
Move(w, stage) == writes' = (writes \ {w}) \cup {[w EXCEPT !.stage = stage]}

(* set_keyboard_backlight: the mutation status first, then the call.       *)
Send(w) ==
  /\ w.stage = "asked"
  /\ Move(w, "sent")
  /\ UNCHANGED <<led, ready, shown, refreshing, looks, events, spent, past>>

(* Not supported, denied, or a call that fails before the LED is written.  *)
WriteFails(w) ==
  /\ w.stage \in {"asked", "sent"}
  /\ Trouble
  /\ writes' = writes \ {w}
  /\ Queued("wrote", Unknown, FALSE)
  /\ UNCHANGED <<led, ready, shown, refreshing, looks, past>>

(* write_brightness; the driver settles afterwards.                        *)
Write(w) ==
  /\ w.stage \in {"sent", "late"}
  /\ led' = [led EXCEPT !.set = w.level]
  /\ IF w.stage = "sent" THEN Move(w, "written") ELSE writes' = writes \ {w}
  /\ past' = [past EXCEPT !.foreign = @ \/ w.stage = "late"]
  /\ UNCHANGED <<ready, shown, refreshing, looks, events, spent>>

Settle ==
  /\ led.seen # led.set
  /\ led' = [led EXCEPT !.seen = led.set]
  /\ past' = [past EXCEPT !.foreign = @ \/ \A w \in writes : w.stage = "written" => w.level # led.set]
  /\ UNCHANGED <<ready, shown, refreshing, looks, writes, events, spent>>

(* read_brightness_until_match, and the comparison of the client.          *)
Confirm(w) ==
  /\ w.stage = "written" /\ led.seen = w.level
  /\ writes' = writes \ {w}
  /\ Queued("wrote", w.level, TRUE)
  /\ UNCHANGED <<led, ready, shown, refreshing, looks, spent, past>>

(* It does not settle in time on this level: another one was written.      *)
Mismatch(w) ==
  /\ w.stage = "written" /\ led.seen # w.level
  /\ \/ led.set # w.level /\ UNCHANGED spent
     \/ led.set = w.level /\ Trouble
  /\ writes' = writes \ {w}
  /\ Queued("wrote", Unknown, FALSE)
  /\ UNCHANGED <<led, ready, shown, refreshing, looks, past>>

(* CALL_TIMEOUT: hardwared may still write.                                *)
GiveUp(w) ==
  /\ w.stage \in {"sent", "written"}
  /\ Trouble
  /\ IF w.stage = "sent" THEN Move(w, "late") ELSE writes' = writes \ {w}
  /\ Queued("wrote", Unknown, FALSE)
  /\ UNCHANGED <<led, ready, shown, refreshing, looks, past>>

(* The Fn keys, or the idle timeout.                                       *)
OtherLevel(l) ==
  /\ Foreign
  /\ led' = [set |-> l, seen |-> l]
  /\ past' = [past EXCEPT !.foreign = TRUE]
  /\ UNCHANGED <<ready, shown, refreshing, looks, writes, events>>

-----------------------------------------------------------------------------
LookStep(k) == LookReads(k) \/ LookDone(k) \/ LookQueues(k)
WriteStep(w) == Send(w) \/ Confirm(w) \/ (led.set # w.level /\ Mismatch(w))
Show == ShowLooked \/ ShowWrote

Next ==
  \/ Tick \/ Show \/ Settle \/ ExtraRefresh
  \/ \E l \in Levels : Click(l) \/ OtherLevel(l)
  \/ \E k \in looks : LookStep(k) \/ LookFails(k)
  \/ \E w \in writes :
       WriteStep(w) \/ WriteFails(w) \/ Write(w) \/ Mismatch(w) \/ GiveUp(w)

(* What a write task and hardwared do sooner or later.                     *)
Moves(w) == WriteStep(w) \/ (w.stage = "sent" /\ Write(w))
LookGoesOn == \E k \in looks : LookStep(k)
WriteGoesOn == \E w \in writes : Moves(w)

(* Tasks run, the event loop turns, telemetry goes on, the driver settles  *)
(* and a call reaches hardwared; what was given up may never land.         *)
QuickFairness ==
  /\ WF_quickVars(Tick) /\ WF_quickVars(Show) /\ WF_quickVars(Settle)
  /\ WF_quickVars(LookGoesOn) /\ WF_quickVars(WriteGoesOn)

QuickSpec == Init /\ [][Next]_quickVars /\ QuickFairness

-----------------------------------------------------------------------------
(* With nothing under way the window shows the level of the LED and can be *)
(* used, unless the last word was of a refresh that had read before a      *)
(* write, or something else moved since. A failed or given up write is     *)
(* looked into like a confirmed one.                                       *)
QuickQuiet == looks = {} /\ writes = {} /\ events = <<>>
QuickShowsLed ==
  QuickQuiet /\ ~past.behind /\ ~past.foreign => ready /\ shown = led.seen

(* The flag is held by the one refresh that still reads, so no refresh is  *)
(* dropped for one that has ended, and no two read at a time.              *)
OneRefreshReads ==
  /\ refreshing <=> \E k \in looks : k.stage = "read"
  /\ \A j, k \in looks : j.stage = "read" /\ k.stage = "read" => j = k

(* Whatever was dropped, given up or done by others, the window comes to   *)
(* show the level of the LED, and to offer to change it.                   *)
QuickRecovers == <>[](ready /\ shown = led.seen /\ led.seen = led.set)
=============================================================================
