------------------------------- MODULE FanEditor -------------------------------
(***************************************************************************)
(* The fan-curve editor: its state in the window (UiState, main.rs), the   *)
(* commands it sends to the worker, the Hardware1 handlers behind them     *)
(* (orbis-hardwared/src/fans.rs) and the curves asusd keeps for each       *)
(* profile and fan.                                                        *)
(*                                                                         *)
(* The worker performs one command at a time and answers with one event;   *)
(* the window handles the events in their order, between the user's        *)
(* gestures. CommandError::Unconfirmed is never produced on this path      *)
(* (AppService maps every error to Command), so fan_curve_unconfirmed      *)
(* stays FALSE and is left out; fan_curve_writable stays TRUE.             *)
(***************************************************************************)
EXTENDS Integers, Sequences, FiniteSets

CONSTANTS FanProfiles, Fans,
          Curves,      \* [temps, pwms], a few points each instead of eight
          Factory,     \* the curve asusd resets every fan to
          First,       \* the slot shown first: Balanced, CPU
          MaxGestures, \* selections, edits and clicks
          MaxForeign,  \* changes by other clients of asusd
          MaxFailures

Slots == FanProfiles \X Fans

VARIABLES stored,   \* asusd: for each slot, the curve and whether it is enabled
          editor,   \* the fan part of UiState
          commands, \* WorkerCommands not yet taken
          job,      \* the command being performed
          replies,  \* WorkerEvents the window has not handled
          tally,    \* gestures, foreign changes and failures so far
          trail     \* history, see Trails

fanVars == <<stored, editor, commands, job, replies, tally, trail>>

Editors ==
  [at : Slots, curve : Curves, state : {"loading", "ready", "unavailable"},
   dirty : BOOLEAN, error : BOOLEAN, pending : BOOLEAN]
Commands ==
  [do : {"refresh", "set", "reset"}, at : Slots, curve : Curves]
Stages == {"idle", "taken", "stored", "written"}
Jobs == [stage : Stages, cmd : Commands, enabled : BOOLEAN]
Replies == [cmd : Commands, ok : BOOLEAN, curve : Curves]

(* of: the slot the shown curve was read from.                             *)
(* crossed: a curve was applied while the answer to a refresh was to come. *)
(* foreign: another client changed a curve since the last read.            *)
Trails == [of : Slots, crossed : BOOLEAN, foreign : BOOLEAN]

FanTypeOK ==
  /\ stored \in [Slots -> [curve : Curves, enabled : BOOLEAN]]
  /\ editor \in Editors
  /\ commands \in Seq(Commands)
  /\ job \in Jobs
  /\ replies \in Seq(Replies)
  /\ tally \in [gestures : 0 .. MaxGestures, foreign : 0 .. MaxForeign,
                failures : 0 .. MaxFailures]
  /\ trail \in Trails

-----------------------------------------------------------------------------
(* Curves                                                                  *)

Rising(s) == \A i \in 1 .. Len(s) - 1 : s[i] <= s[i + 1]

(* validate_fan_curve, and FanCurve::validate in the window: nothing falls, *)
(* and the fan runs at 80 degrees.                                         *)
Validates(curve) ==
  /\ Rising(curve.temps) /\ Rising(curve.pwms)
  /\ ~(curve.temps[Len(curve.temps)] >= 80 /\ curve.pwms[Len(curve.pwms)] = 0)

(* What the reset checks: asusd answers (name, pwms, temps, enabled), the  *)
(* loop names the second field temps and the third pwms.                   *)
ResetValidates(curve) == Validates([temps |-> curve.pwms, pwms |-> curve.temps])

-----------------------------------------------------------------------------
(* The window                                                              *)

Refresh(slot) == [do |-> "refresh", at |-> slot, curve |-> Factory]

Gesture ==
  /\ tally.gestures < MaxGestures
  /\ tally' = [tally EXCEPT !.gestures = @ + 1]

Outstanding(do) ==
  \/ \E i \in DOMAIN commands : commands[i].do = do
  \/ job.stage # "idle" /\ job.cmd.do = do
  \/ \E i \in DOMAIN replies : replies[i].cmd.do = do

(* The first command of main; every slot holds a custom or factory curve.  *)
Init ==
  /\ \E curve \in Curves :
       /\ Validates(curve)
       /\ stored = [s \in Slots |-> [curve |-> curve, enabled |-> TRUE]]
  /\ editor = [at |-> First, curve |-> Factory, state |-> "loading",
               dirty |-> FALSE, error |-> FALSE, pending |-> FALSE]
  /\ commands = <<Refresh(First)>>
  /\ job = [stage |-> "idle", cmd |-> Refresh(First), enabled |-> FALSE]
  /\ replies = <<>>
  /\ tally = [gestures |-> 0, foreign |-> 0, failures |-> 0]
  /\ trail = [of |-> First, crossed |-> FALSE, foreign |-> FALSE]

(* on_fan_changed, on_fan_profile_changed: refused while the draft is      *)
(* dirty. The curve of the other slot comes with the answer.               *)
Select(slot) ==
  /\ ~editor.dirty
  /\ slot # editor.at /\ (slot[1] = editor.at[1] \/ slot[2] = editor.at[2])
  /\ Gesture
  /\ editor' = [editor EXCEPT !.at = slot]
  /\ commands' = Append(commands, Refresh(slot))
  /\ trail' = [trail EXCEPT !.crossed = FALSE]
  /\ UNCHANGED <<stored, job, replies>>

Unlocked == editor.state = "ready" /\ ~editor.error /\ ~editor.pending

(* on_fan_temp_point_changed, on_fan_pwm_point_changed, where the panel    *)
(* lets the points be dragged.                                             *)
Edit(curve) ==
  /\ Unlocked
  /\ curve # editor.curve
  /\ Gesture
  /\ editor' = [editor EXCEPT !.curve = curve, !.dirty = TRUE]
  /\ UNCHANGED <<stored, commands, job, replies, trail>>

(* on_fan_apply_clicked(false), behind fan_curve_can_mutate.               *)
Apply ==
  /\ Unlocked /\ editor.dirty /\ Validates(editor.curve)
  /\ Gesture
  /\ commands' = Append(commands, [do |-> "set", at |-> editor.at, curve |-> editor.curve])
  /\ editor' = [editor EXCEPT !.pending = TRUE]
  /\ trail' = [trail EXCEPT !.crossed = @ \/ Outstanding("refresh")]
  /\ UNCHANGED <<stored, job, replies>>

(* on_fan_apply_clicked(true): the profile is taken now.                   *)
Reset ==
  /\ Unlocked
  /\ Gesture
  /\ commands' = Append(commands, [do |-> "reset", at |-> editor.at, curve |-> Factory])
  /\ editor' = [editor EXCEPT !.pending = TRUE]
  /\ UNCHANGED <<stored, job, replies, trail>>

(* Mutant: the selection stays where the user left it.                     *)
LoadInPlace(reply) ==
  /\ editor' = [editor EXCEPT !.curve = reply.curve,
                              !.state = "ready", !.dirty = FALSE, !.error = FALSE,
                              !.pending = FALSE]
  /\ trail' = [trail EXCEPT !.of = reply.cmd.at]

(* load_fan_curve: the selection becomes the one of the answer.            *)
Load(reply) ==
  /\ editor' = [editor EXCEPT !.at = reply.cmd.at, !.curve = reply.curve,
                              !.state = "ready", !.dirty = FALSE, !.error = FALSE,
                              !.pending = FALSE]
  /\ trail' = [trail EXCEPT !.of = reply.cmd.at]

(* WorkerEvent::FanCurveRefresh.                                           *)
ShowRefreshed(reply) ==
  /\ reply.cmd.do = "refresh"
  /\ \/ reply.ok /\ Load(reply)
     \/ /\ ~reply.ok
        /\ editor' = [editor EXCEPT !.state = "unavailable", !.error = TRUE,
                                    !.pending = FALSE]
        /\ UNCHANGED trail
  /\ UNCHANGED commands

(* WorkerEvent::FanCurve: Applied, or an error.                            *)
ShowSet(reply) ==
  /\ reply.cmd.do = "set"
  /\ editor' = [editor EXCEPT !.pending = FALSE, !.error = ~reply.ok,
                              !.dirty = @ /\ ~reply.ok]
  /\ UNCHANGED <<commands, trail>>

(* WorkerEvent::FanCurveDefaults: Accepted, or an error; the selected fan  *)
(* of the profile that was reset is read again (handle_worker_event).      *)
ShowReset(reply) ==
  /\ reply.cmd.do = "reset"
  /\ editor' = [editor EXCEPT !.pending = reply.ok, !.error = @ \/ ~reply.ok]
  /\ commands' = Append(commands, Refresh(<<reply.cmd.at[1], editor.at[2]>>))
  /\ UNCHANGED trail

Show ==
  /\ replies # <<>>
  /\ LET reply == Head(replies)
     IN ShowRefreshed(reply) \/ ShowSet(reply) \/ ShowReset(reply)
  /\ replies' = Tail(replies)
  /\ UNCHANGED <<stored, job, tally>>

-----------------------------------------------------------------------------
(* The worker, and the handlers of Hardware1                               *)

Answered(ok, curve) ==
  /\ replies' = Append(replies, [cmd |-> job.cmd, ok |-> ok, curve |-> curve])
  /\ job' = [job EXCEPT !.stage = "idle", !.enabled = FALSE]

Take ==
  /\ job.stage = "idle"
  /\ commands # <<>>
  /\ job' = [job EXCEPT !.stage = "taken", !.cmd = Head(commands)]
  /\ commands' = Tail(commands)
  /\ UNCHANGED <<stored, editor, replies, tally, trail>>

(* bounded_fan_curve: sessiond reads the curves of the profile from asusd. *)
Read ==
  /\ job.cmd.do = "refresh" /\ job.stage = "taken"
  /\ Answered(TRUE, stored[job.cmd.at].curve)
  /\ trail' = [trail EXCEPT !.foreign = FALSE]
  /\ UNCHANGED <<stored, editor, commands, tally>>

(* set_fan_curve, once authorized: the stored enabled comes first.         *)
ReadEnabled ==
  /\ job.cmd.do = "set" /\ job.stage = "taken"
  /\ job' = [job EXCEPT !.stage = "stored", !.enabled = stored[job.cmd.at].enabled]
  /\ UNCHANGED <<stored, editor, commands, replies, tally, trail>>

(* One setter, for one fan, with the enabled read before.                  *)
WriteCurve ==
  /\ job.cmd.do = "set" /\ job.stage = "stored"
  /\ stored' = [stored EXCEPT ![job.cmd.at] =
                  [curve |-> job.cmd.curve, enabled |-> job.enabled]]
  /\ job' = [job EXCEPT !.stage = "written"]
  /\ UNCHANGED <<editor, commands, replies, tally, trail>>

(* The read-back must show the curve and the same enabled.                 *)
ConfirmCurve ==
  /\ job.cmd.do = "set" /\ job.stage = "written"
  /\ Answered(stored[job.cmd.at] = [curve |-> job.cmd.curve, enabled |-> job.enabled],
              job.cmd.curve)
  /\ UNCHANGED <<stored, editor, commands, tally, trail>>

(* reset_curves_to_defaults: asusd resets every fan of the profile, and    *)
(* what it reads back afterwards is validated.                             *)
WriteFactory ==
  /\ job.cmd.do = "reset" /\ job.stage = "taken"
  /\ stored' = [s \in Slots |-> IF s[1] = job.cmd.at[1]
                                THEN [stored[s] EXCEPT !.curve = Factory]
                                ELSE stored[s]]
  /\ job' = [job EXCEPT !.stage = "written"]
  /\ UNCHANGED <<editor, commands, replies, tally, trail>>

ConfirmFactory ==
  /\ job.cmd.do = "reset" /\ job.stage = "written"
  /\ Answered(\A fan \in Fans : ResetValidates(stored[<<job.cmd.at[1], fan>>].curve), Factory)
  /\ UNCHANGED <<stored, editor, commands, tally, trail>>

(* The person refuses, asusd or hardwared fails, the bus gives up: before  *)
(* or after the curve was written, the answer is an error.                 *)
Fail ==
  /\ job.stage # "idle"
  /\ tally.failures < MaxFailures
  /\ tally' = [tally EXCEPT !.failures = @ + 1]
  /\ Answered(FALSE, Factory)
  /\ UNCHANGED <<stored, editor, commands, trail>>

(* asusctl changes or switches a curve.                                    *)
Foreign(slot, curve, enabled) ==
  /\ [curve |-> curve, enabled |-> enabled] # stored[slot]
  /\ tally.foreign < MaxForeign
  /\ tally' = [tally EXCEPT !.foreign = @ + 1]
  /\ stored' = [stored EXCEPT ![slot] = [curve |-> curve, enabled |-> enabled]]
  /\ trail' = [trail EXCEPT !.foreign = TRUE]
  /\ UNCHANGED <<editor, commands, job, replies>>

Gestures ==
  \/ \E slot \in Slots : Select(slot)
  \/ \E curve \in Curves : Edit(curve)
  \/ Apply \/ Reset

Next ==
  \/ Gestures
  \/ Show
  \/ Take \/ Read \/ ReadEnabled \/ WriteCurve \/ ConfirmCurve
  \/ WriteFactory \/ ConfirmFactory \/ Fail
  \/ \E slot \in Slots, curve \in Curves, enabled \in BOOLEAN : Foreign(slot, curve, enabled)

Spec == Init /\ [][Next]_fanVars

-----------------------------------------------------------------------------
(* Properties                                                              *)

(* "the selected fan's own curve is edited" (docs/acceptance.md, AC-021):  *)
(* with no refresh to come and none failed, the points in the editor were  *)
(* read from the fan and profile an Apply would write to, whatever         *)
(* selections and resets crossed each other.                               *)
DraftOfSelection ==
  editor.state = "ready" /\ ~Outstanding("refresh") => trail.of = editor.at

(* "the curve actually read is displayed" (AC-020): at rest, a clean       *)
(* editor without an error shows what asusd stores for its selection,      *)
(* unless another client changed it, or the curve was applied while an     *)
(* older refresh was still to be answered.                                 *)
ShownIsStored ==
  /\ commands = <<>> /\ job.stage = "idle" /\ replies = <<>>
  /\ editor.state = "ready" /\ ~editor.dirty /\ ~editor.error
  /\ ~trail.crossed /\ ~trail.foreign
  => editor.curve = stored[editor.at].curve

(* The editor is locked as pending only while an answer that unlocks it,   *)
(* or the read that follows a reset, is still to come.                     *)
PendingIsOwed ==
  editor.pending => \E do \in {"refresh", "set", "reset"} : Outstanding(do)
===============================================================================
