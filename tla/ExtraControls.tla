----------------------------- MODULE ExtraControls -----------------------------
(***************************************************************************)
(* The section of hardware extras (extra_backend.rs) with the client it    *)
(* writes through (hardware_controls_backend.rs).                          *)
(*                                                                         *)
(*   window: what the UI thread shows and allows (win), and the closures   *)
(*           that are in its event loop (queue)                            *)
(*   tasks:  a refresh (reads) or a mutation (tasks) keeps others from     *)
(*           starting by its flag, refreshing or mutating; it clears the   *)
(*           flag before it sends its closure (unsent), so that the next   *)
(*           one may overtake it                                           *)
(*   edits:  staged values are applied together, in Order; a timeout       *)
(*           leaves their outcome open (dirty, unresolved, draft)          *)
(*                                                                         *)
(* Every call is bounded by a timeout, so a write can land after its task  *)
(* gave it up (late). Other programs write the same hardware (Foreign).    *)
(***************************************************************************)
EXTENDS Integers, FiniteSets, SequencesExt

CONSTANTS Order,       \* the staged controls, in the order Apply writes them
          Direct,      \* the controls written at once: "panel", "aura"
          Values,      \* what a control may be set to
          MaxEdits,    \* changes of staged controls
          MaxClicks,   \* tasks the user asks for
          MaxTroubles  \* failing reads and writes, timeouts, foreign changes

Staged == {Order[i] : i \in DOMAIN Order}
Controls == Staged \cup Direct
Missing == "missing"   \* a value that could not be read
Unread == "unread"     \* a read that has no answer yet

ASSUME ControlsAssumption == /\ Order \in Seq({"boot", "igpu", "aspm"})
                             /\ Direct \subseteq {"panel", "aura"}
ASSUME BoundsAssumption == {MaxEdits, MaxClicks, MaxTroubles} \subseteq Nat

VARIABLES hw,          \* the value of each control
          late,        \* writes given up that may still land
          memo,        \* the effect sent around asusd, at most one
          win,         \* [shown, ready, clam, applying, apply]
          queue,       \* closures waiting for the event loop
          unsent,      \* closures of tasks that have cleared their flag
          refreshing, reads, mutating, tasks,
          dirty, unresolved, draft,
          used,        \* edits, clicks and troubles so far
          hist         \* history, see Histories

flags == <<refreshing, mutating, dirty, unresolved, draft>>
vars == <<hw, late, memo, win, queue, unsent, refreshing, reads, mutating, tasks,
          dirty, unresolved, draft, used, hist>>

(* ready: the controls that may be used; clam: the lid switch may be;      *)
(* apply: the Apply button is enabled.                                     *)
Windows == [shown : [Controls -> Values \cup {Missing}], ready : SUBSET Controls,
            clam : BOOLEAN, applying : BOOLEAN, apply : BOOLEAN]
Drafts == [val : [Controls -> Values \cup {Missing}], ready : SUBSET Staged]
Kinds == {"apply", "clamshell"} \cup Direct
Results == {"ok", "failed", "timeout"}
Tasks == [kind : Kinds, val : [Controls -> Values \cup {Missing}], ready : SUBSET Staged,
          todo : Seq(Controls), done : SUBSET Staged]
Reads == [obs : [Controls -> Values \cup {Missing, Unread}], reconcile : BOOLEAN]
Memos == [sent : Values, base : SUBSET Values]

(* owed: a refresh must still show where a mutation left the controls.     *)
(* moved: controls whose changes the refreshes so far may have missed.     *)
Histories == [owed : {"none", "refresh", "clamshell"}, moved : SUBSET Controls]

TypeOK ==
  /\ hw \in [Controls -> Values]
  /\ late \subseteq Controls \X Values
  /\ memo \subseteq Memos
  /\ win \in Windows
  /\ tasks \subseteq Tasks
  /\ reads \subseteq Reads
  /\ {refreshing, mutating, dirty, unresolved} \subseteq BOOLEAN
  /\ draft \subseteq Drafts
  /\ Len(queue) + Len(unsent) <= MaxClicks + 1
  /\ used \in [edits : 0 .. MaxEdits, clicks : 0 .. MaxClicks, troubles : 0 .. MaxTroubles]
  /\ hist \in Histories

NewRead(reconcile) == [obs |-> [c \in Controls |-> Unread], reconcile |-> reconcile]

(* The window is wired and its first refresh started. Which value a        *)
(* control starts with does not matter: the values are interchangeable.    *)
First == CHOOSE v \in Values : TRUE

Init ==
  /\ hw = [c \in Controls |-> First]
  /\ late = {}
  /\ memo = {}
  /\ win = [shown |-> [c \in Controls |-> Missing], ready |-> {}, clam |-> FALSE,
            applying |-> FALSE, apply |-> FALSE]
  /\ queue = <<>>
  /\ unsent = <<>>
  /\ refreshing = TRUE
  /\ reads = {NewRead(TRUE)}
  /\ mutating = FALSE
  /\ tasks = {}
  /\ dirty = FALSE
  /\ unresolved = FALSE
  /\ draft = {}
  /\ used = [edits |-> 0, clicks |-> 0, troubles |-> 0]
  /\ hist = [owed |-> "none", moved |-> {}]

Edit == used.edits < MaxEdits /\ used' = [used EXCEPT !.edits = @ + 1]
Click == used.clicks < MaxClicks /\ used' = [used EXCEPT !.clicks = @ + 1]
Trouble == used.troubles < MaxTroubles /\ used' = [used EXCEPT !.troubles = @ + 1]

-----------------------------------------------------------------------------
(* Starting tasks from the UI thread.                                      *)

(* refresh_with_status on window w: nothing while a mutation or another    *)
(* refresh runs. The staged controls stay enabled, with their old values.  *)
Refresh(w, reconcile) ==
  IF mutating \/ refreshing
  THEN win' = w /\ UNCHANGED <<refreshing, reads>>
  ELSE /\ win' = [w EXCEPT !.ready = @ \ {"panel"}, !.clam = FALSE]
       /\ refreshing' = TRUE
       /\ reads' = reads \cup {NewRead(reconcile)}

(* Controls that an earlier refresh, yet to be sent, has read as they are  *)
(* no longer.                                                              *)
Outdated ==
  {c \in Controls : \E i \in DOMAIN unsent :
                     unsent[i].op = "refresh" /\ unsent[i].obs[c] \notin {hw[c], Missing}}

(* A refresh that does start reads everything as it is from here on, but   *)
(* it may be shown before an earlier one; after one that is dropped the    *)
(* window may miss what the mutation did.                                  *)
Moved(missed) == IF mutating \/ refreshing THEN hist.moved \cup missed ELSE Outdated

(* begin_mutation on window w: one at a time, every control disabled.      *)
Begin(w, t) ==
  /\ ~mutating
  /\ mutating' = TRUE
  /\ tasks' = tasks \cup {t}
  /\ win' = [w EXCEPT !.applying = TRUE, !.ready = {}]
  /\ hist' = [hist EXCEPT !.owed = IF t.kind = "clamshell" THEN "clamshell" ELSE "refresh"]

(* A toggle of the section: shown at once, written by Apply.               *)
Stage(c, v) ==
  /\ Edit
  /\ c \in win.ready \cap Staged
  /\ ~win.applying
  /\ v # win.shown[c]
  /\ win' = [win EXCEPT !.shown[c] = v, !.apply = TRUE]
  /\ dirty' = TRUE
  /\ UNCHANGED <<hw, late, memo, queue, unsent, refreshing, reads, mutating, tasks, unresolved,
                 draft, hist>>

(* apply_advanced: every enabled staged control is written with the value  *)
(* it shows, edited or not.                                                *)
Apply ==
  /\ Click
  /\ win.apply /\ ~win.applying
  /\ dirty
  /\ LET ready == win.ready \cap Staged
     IN Begin([win EXCEPT !.apply = FALSE],
              [kind |-> "apply", val |-> win.shown, ready |-> ready,
               todo |-> SelectSeq(Order, LAMBDA c : c \in ready), done |-> {}])
  /\ UNCHANGED <<hw, late, memo, queue, unsent, refreshing, reads, dirty, unresolved, draft>>

(* request_panel_overdrive, request_aura_effect and request_aura_power:    *)
(* only the panel switch is disabled while applying.                       *)
RequestDirect(c, v) ==
  /\ Click
  /\ c \in win.ready \cap Direct
  /\ c = "panel" => ~win.applying
  /\ v # win.shown[c]
  /\ Begin(win, [kind |-> c, val |-> [win.shown EXCEPT ![c] = v], ready |-> {},
                 todo |-> <<c>>, done |-> {}])
  /\ UNCHANGED <<hw, late, memo, queue, unsent, refreshing, reads, dirty, unresolved, draft>>

RequestClamshell ==
  /\ Click
  /\ win.clam /\ ~win.applying
  /\ Begin(win, [kind |-> "clamshell", val |-> win.shown, ready |-> {}, todo |-> <<>>,
                 done |-> {}])
  /\ UNCHANGED <<hw, late, memo, queue, unsent, refreshing, reads, dirty, unresolved, draft>>

Reload ==
  /\ Click
  /\ ~win.applying
  /\ Refresh(win, TRUE)
  /\ hist' = [hist EXCEPT !.moved = Moved({})]
  /\ UNCHANGED <<hw, late, memo, queue, unsent, mutating, tasks, dirty, unresolved, draft>>

-----------------------------------------------------------------------------
(* The refresh task.                                                       *)

(* What a read of a control may bring to the window.                       *)
Observed(c) == {hw[c], Missing}

ReadControl(r, c) ==
  /\ r.obs[c] = Unread
  /\ \E o \in Observed(c) :
       /\ reads' = (reads \ {r}) \cup {[r EXCEPT !.obs[c] = o]}
       /\ IF o = Missing THEN Trouble ELSE UNCHANGED used
  /\ UNCHANGED <<hw, late, memo, win, queue, unsent, flags, tasks, hist>>

(* KernelEffectSlot::overlay on the effect asusd reported: its first call  *)
(* takes that effect for the one that goes with the memo.                  *)
Overlay(m, now) ==
  CASE m.base = {} -> {[m EXCEPT !.base = {now}]}
    [] m.base = {now} -> {m}
    [] OTHER -> {}

(* All reads are in: the overlay, and refreshing is cleared; the closure   *)
(* is still to be sent. statuses: whether hardwared said what may be       *)
(* written; clam: whether the lid switch was read as on or off.            *)
EndRefresh(r) ==
  /\ \A c \in Controls : r.obs[c] # Unread
  /\ memo' = IF "aura" \notin Direct \/ r.obs["aura"] = Missing THEN memo
             ELSE UNION {Overlay(m, r.obs["aura"]) : m \in memo}
  /\ reads' = reads \ {r}
  /\ refreshing' = FALSE
  /\ \E statuses, clam \in BOOLEAN :
       /\ IF statuses /\ clam THEN UNCHANGED used ELSE Trouble
       /\ unsent' = Append(unsent, [op |-> "refresh", reconcile |-> r.reconcile,
                                    obs |-> [c \in Controls |->
                                               IF c = "aura" /\ memo' # {} /\ r.obs[c] # Missing
                                               THEN (CHOOSE m \in memo' : TRUE).sent
                                               ELSE r.obs[c]],
                                    statuses |-> statuses, clam |-> clam])
  /\ UNCHANGED <<hw, late, win, queue, mutating, tasks, dirty, unresolved, draft, hist>>

(* upgrade_in_event_loop, of a refresh or of a mutation: in any order.     *)
SendClosure(i) ==
  /\ queue' = Append(queue, unsent[i])
  /\ unsent' = RemoveAt(unsent, i)
  /\ UNCHANGED <<hw, late, memo, win, flags, reads, tasks, used, hist>>

-----------------------------------------------------------------------------
(* The mutation task.                                                      *)

Wrote(t) ==
  LET c == Head(t.todo)
  IN [t EXCEPT !.todo = Tail(@),
               !.done = IF t.kind = "apply" THEN @ \cup {c} ELSE @]

(* The next control is written and read back.                              *)
WriteOk(t) ==
  /\ t.todo # <<>>
  /\ tasks' = (tasks \ {t}) \cup {Wrote(t)}
  /\ LET c == Head(t.todo)
     IN /\ hw' = [hw EXCEPT ![c] = t.val[c]]
        /\ memo' = IF c = "aura" THEN {} ELSE memo
  /\ UNCHANGED <<late, win, queue, unsent, flags, reads, used, hist>>

(* An effect that asusd does not know goes to the kernel: what asusd has   *)
(* stays as it is, and the effect sent is remembered.                      *)
SendAround(t) ==
  /\ t.todo # <<>> /\ Head(t.todo) = "aura"
  /\ tasks' = (tasks \ {t}) \cup {Wrote(t)}
  /\ memo' = {[sent |-> t.val["aura"], base |-> {}]}
  /\ UNCHANGED <<hw, late, win, queue, unsent, flags, reads, used, hist>>

(* mutating is cleared; the closure with the result is still to be sent.   *)
End(t, result) ==
  /\ mutating' = FALSE
  /\ tasks' = tasks \ {t}
  /\ unsent' = Append(unsent, [op |-> t.kind, result |-> result, val |-> t.val,
                               ready |-> t.ready, done |-> t.done])
  /\ UNCHANGED <<memo, win, queue, refreshing, reads, dirty, unresolved, draft, hist>>

(* A status, a write or a read-back fails, before or after the write.      *)
WriteFails(t) ==
  /\ t.todo # <<>>
  /\ Trouble
  /\ LET c == Head(t.todo)
     IN hw' \in {hw, [hw EXCEPT ![c] = t.val[c]]}
  /\ End(t, "failed")
  /\ UNCHANGED late

(* A call is given up: the write was not sent, took place, or is late.     *)
WriteTimesOut(t) ==
  /\ t.todo # <<>>
  /\ Trouble
  /\ LET c == Head(t.todo)
     IN \/ hw' \in {hw, [hw EXCEPT ![c] = t.val[c]]} /\ UNCHANGED late
        \/ UNCHANGED hw /\ late' = late \cup {<<c, t.val[c]>>}
  /\ End(t, "timeout")

(* Everything is written; the lid switch has answered.                     *)
Finish(t) ==
  /\ t.todo = <<>>
  /\ End(t, "ok")
  /\ UNCHANGED <<hw, late, used>>

-----------------------------------------------------------------------------
(* The event loop runs the next closure.                                   *)

(* advanced_refresh_reconciliation of a closure q: whether the outcome is  *)
(* still open, and whether edits are pending.                              *)
Reconcile(q) ==
  IF ~unresolved THEN [unresolved |-> FALSE, dirty |-> FALSE]
  ELSE IF draft = {} THEN [unresolved |-> TRUE, dirty |-> dirty]
  ELSE LET d == CHOOSE x \in draft : TRUE
           complete == \A c \in d.ready : q.obs[c] # Missing
           reached == \A c \in d.ready : q.obs[c] = d.val[c]
       IN [unresolved |-> ~complete, dirty |-> dirty /\ ~(complete /\ reached)]

(* The status of ASPM comes with its value, the others with statuses.      *)
ReadyOf(q, open) ==
  {c \in Controls \ {"aura"} : /\ q.obs[c] # Missing
                               /\ q.statuses \/ c = "aspm"
                               /\ c \in Staged => ~open}
    \cup (win.ready \cap {"aura"})

(* Mutant: the draft outlives the refresh that settles its outcome.        *)
ShowRefreshKeepingDraft ==
  LET q == Head(queue)
      now == IF q.reconcile THEN Reconcile(q) ELSE [unresolved |-> unresolved, dirty |-> dirty]
  IN /\ queue # <<>> /\ q.op = "refresh"
     /\ queue' = Tail(queue)
     /\ unresolved' = now.unresolved
     /\ dirty' = now.dirty
     /\ win' = [shown |-> q.obs, ready |-> ReadyOf(q, now.unresolved), clam |-> q.clam,
                applying |-> FALSE, apply |-> FALSE]
     /\ hist' = [hist EXCEPT !.owed = "none"]
     /\ UNCHANGED <<hw, late, memo, unsent, refreshing, reads, mutating, tasks, draft, used>>

ShowRefresh ==
  LET q == Head(queue)
      now == IF q.reconcile THEN Reconcile(q) ELSE [unresolved |-> unresolved, dirty |-> dirty]
      ready == ReadyOf(q, now.unresolved)
  IN /\ queue # <<>> /\ q.op = "refresh"
     /\ queue' = Tail(queue)
     /\ unresolved' = now.unresolved
     /\ dirty' = now.dirty
     /\ draft' = IF now.unresolved THEN draft ELSE {}
     /\ win' = [shown |-> q.obs, ready |-> ready, clam |-> q.clam, applying |-> FALSE,
                apply |-> now.dirty /\ ready \cap Staged # {}]
     /\ hist' = [hist EXCEPT !.owed = "none"]
     /\ UNCHANGED <<hw, late, memo, unsent, refreshing, reads, mutating, tasks, used>>

(* Mutant: an Apply without a timeout is not followed by a refresh.        *)
ShowAppliedOnly ==
  LET q == Head(queue)
  IN /\ queue # <<>> /\ q.op = "apply"
     /\ queue' = Tail(queue)
     /\ dirty' = FALSE
     /\ win' = [win EXCEPT !.applying = FALSE]
     /\ UNCHANGED <<hw, late, memo, unsent, refreshing, reads, mutating, tasks, unresolved, draft,
                    used, hist>>

ShowApplied ==
  LET q == Head(queue)
  IN /\ queue # <<>> /\ q.op = "apply"
     /\ queue' = Tail(queue)
     /\ unresolved' = (q.result = "timeout")
     /\ IF q.result = "timeout"
        THEN draft' = {[val |-> q.val, ready |-> q.ready]} /\ UNCHANGED dirty
        ELSE draft' = {} /\ dirty' = (q.result = "failed" /\ q.done # {})
     /\ Refresh([win EXCEPT !.applying = FALSE], q.result # "timeout")
     /\ hist' = [hist EXCEPT !.moved = Moved(Controls)]
     /\ UNCHANGED <<hw, late, memo, unsent, mutating, tasks, used>>

ShowDirect ==
  LET q == Head(queue)
  IN /\ queue # <<>> /\ q.op \in Direct
     /\ queue' = Tail(queue)
     /\ Refresh([win EXCEPT !.applying = FALSE,
                            !.shown[q.op] = IF q.result = "ok" THEN q.val[q.op] ELSE @], TRUE)
     /\ hist' = [hist EXCEPT !.moved = Moved(Controls)]
     /\ UNCHANGED <<hw, late, memo, unsent, mutating, tasks, dirty, unresolved, draft, used>>

(* request_clamshell shows the new state and does not refresh.             *)
ShowClamshell ==
  /\ queue # <<>> /\ Head(queue).op = "clamshell"
  /\ queue' = Tail(queue)
  /\ \E clam \in BOOLEAN :
       /\ IF clam THEN UNCHANGED used ELSE Trouble
       /\ win' = [win EXCEPT !.applying = FALSE, !.clam = clam]
  /\ UNCHANGED <<hw, late, memo, unsent, refreshing, reads, mutating, tasks, dirty, unresolved,
                 draft, hist>>

(* quick_controls_backend publishes every ten seconds that the keyboard    *)
(* effects may be written.                                                 *)
QuickRefresh ==
  /\ "aura" \in Direct \ win.ready
  /\ win' = [win EXCEPT !.ready = @ \cup {"aura"}]
  /\ UNCHANGED <<hw, late, memo, queue, unsent, flags, reads, tasks, used, hist>>

-----------------------------------------------------------------------------
(* Around the section.                                                     *)

Land(w) ==
  /\ late' = late \ {w}
  /\ hw' = [hw EXCEPT ![w[1]] = w[2]]
  /\ hist' = [hist EXCEPT !.moved = @ \cup {w[1]}]
  /\ UNCHANGED <<memo, win, queue, unsent, flags, reads, tasks, used>>

Foreign(c, v) ==
  /\ Trouble
  /\ hw[c] # v
  /\ hw' = [hw EXCEPT ![c] = v]
  /\ hist' = [hist EXCEPT !.moved = @ \cup {c}]
  /\ UNCHANGED <<late, memo, win, queue, unsent, flags, reads, tasks>>

-----------------------------------------------------------------------------
User ==
  \/ \E v \in Values : \/ \E c \in Staged : Stage(c, v)
                       \/ \E c \in Direct : RequestDirect(c, v)
  \/ Apply
  \/ RequestClamshell
  \/ Reload

Refreshes == \E r \in reads : EndRefresh(r) \/ \E c \in Controls : ReadControl(r, c)

Mutations == \E t \in tasks : \/ WriteOk(t)
                              \/ SendAround(t)
                              \/ WriteFails(t)
                              \/ WriteTimesOut(t)
                              \/ Finish(t)

Sends == \E i \in DOMAIN unsent : SendClosure(i)

EventLoop == ShowRefresh \/ ShowApplied \/ ShowDirect \/ ShowClamshell

Environment ==
  \/ \E w \in late : Land(w)
  \/ \E c \in Controls, v \in Values : Foreign(c, v)

Next == User \/ Refreshes \/ Mutations \/ Sends \/ EventLoop \/ QuickRefresh \/ Environment

Spec == Init /\ [][Next]_vars

-----------------------------------------------------------------------------
(* An open outcome always has the draft it is compared with, and a draft   *)
(* is kept only for an open outcome: without one, no refresh could ever    *)
(* enable the staged controls again (advanced_refresh_reconciliation).     *)
DraftIffUnresolved == unresolved <=> draft # {}

Quiet == reads = {} /\ tasks = {} /\ unsent = <<>> /\ queue = <<>>

(* With nothing in progress the section is not locked, and every Apply and *)
(* direct change was followed by a refresh that shows what may be used,    *)
(* although one asked for while another task runs is dropped (the lid      *)
(* switch is the exception: it leaves every control disabled). Without a   *)
(* pending edit a control shows its value or none. Three things may spoil  *)
(* that, and nothing else: something changed the hardware after it was     *)
(* read; the refresh that a finished mutation asked for was dropped, one   *)
(* that began before it being still under way; or the last refresh was     *)
(* overtaken by an earlier one, which had read the control otherwise.      *)
QuietIsSettled ==
  Quiet =>
    /\ hist.owed # "refresh" /\ ~win.applying
    /\ ~dirty =>
         \A c \in Controls \ hist.moved :
           win.shown[c] \in {hw[c], Missing} \cup (IF c = "aura" THEN {m.sent : m \in memo} ELSE {})
=============================================================================
