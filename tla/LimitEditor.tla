------------------------------ MODULE LimitEditor ------------------------------
(***************************************************************************)
(* The power-limit drafts of the window (UiState, main.rs), the batches    *)
(* that Apply sends to the worker, the write and read-back of each field   *)
(* (write_power_limit, worker_runtime.rs) and the limits in the firmware.  *)
(*                                                                         *)
(* The worker performs one order at a time. A write it gives up on after   *)
(* its deadline is not taken back: hardwared may still perform it. The     *)
(* identity of a snapshot is a hash of the limits it shows, so it changes  *)
(* with every value; here the snapshot stands for its identity.            *)
(***************************************************************************)
EXTENDS Integers, Sequences

CONSTANTS Limits,      \* the fields, in the order of a batch
          Watts,       \* values every field accepts
          MaxEdits,    \* drafts and clicks on Apply
          MaxSwitches, \* profile switches, which reset the limits in firmware
          MaxMishaps   \* failed calls and timeouts

Keys == {Limits[i] : i \in DOMAIN Limits}
None == "none"
Shots == [Keys -> Watts]
Drafts == [Keys -> Watts \cup {None}]

VARIABLES firmware, \* the limits in force
          panel,    \* the power-limit part of UiState
          orders,   \* WorkerCommands not yet taken
          batch,    \* the order being performed
          events,   \* WorkerEvents the window has not handled
          strays,     \* writes that were given up and may still be performed
          uses,     \* edits, switches and mishaps so far
          unread    \* history: the limits changed and nothing read them back

limitVars == <<firmware, panel, orders, batch, events, strays, uses, unread>>

Panels == [obs : Shots, drafts : Drafts, pending : SUBSET Keys,
           awaiting : SUBSET Keys, stale : BOOLEAN, error : BOOLEAN]
Orders == [do : {"refresh", "apply", "replay"}, vals : Drafts, seen : Shots]
Stages == {"idle", "next", "write", "back"}
Results == {"applied", "timeout", "error"}
Batches == [do : {"refresh", "apply", "replay"}, at : Stages, left : SUBSET Keys,
            vals : Drafts, seen : Shots, checked : BOOLEAN, stopped : BOOLEAN,
            result : Results]
Events == [show : {"snapshot"}, ok : BOOLEAN, obs : Shots]
          \cup [show : {"result"}, key : Keys, result : Results]

LimitTypeOK ==
  /\ firmware \in Shots
  /\ panel \in Panels
  /\ orders \in Seq(Orders)
  /\ batch \in Batches
  /\ events \in Seq(Events)
  /\ strays \subseteq Keys \X Watts
  /\ uses \in [edits : 0 .. MaxEdits, switches : 0 .. MaxSwitches,
               mishaps : 0 .. MaxMishaps]
  /\ unread \in BOOLEAN

NoDrafts == [k \in Keys |-> None]
Drafted(drafts) == {k \in Keys : drafts[k] # None}

(* The field of the batch whose turn it is.                                *)
Place(k) == CHOOSE i \in DOMAIN Limits : Limits[i] = k
Due == CHOOSE k \in batch.left : \A other \in batch.left : Place(k) <= Place(other)

Edited == uses.edits < MaxEdits /\ uses' = [uses EXCEPT !.edits = @ + 1]
Mishap == uses.mishaps < MaxMishaps /\ uses' = [uses EXCEPT !.mishaps = @ + 1]

(* UiState::production_initial, and the RefreshPowerLimits of main, the    *)
(* only one it ever sends.                                                 *)
Init ==
  /\ \E w \in Watts : firmware = [k \in Keys |-> w]
  /\ panel = [obs |-> firmware, drafts |-> NoDrafts, pending |-> {}, awaiting |-> {},
              stale |-> TRUE, error |-> FALSE]
  /\ orders = <<[do |-> "refresh", vals |-> NoDrafts, seen |-> firmware]>>
  /\ batch = [do |-> "refresh", at |-> "idle", left |-> {}, vals |-> NoDrafts,
              seen |-> firmware, checked |-> FALSE, stopped |-> FALSE, result |-> "applied"]
  /\ events = <<>>
  /\ strays = {}
  /\ uses = [edits |-> 0, switches |-> 0, mishaps |-> 0]
  /\ unread = FALSE

-----------------------------------------------------------------------------
(* The window                                                              *)

(* on_power_limit_changed, update_power_limit_draft: the observed value is *)
(* no draft.                                                               *)
Draft(k, w) ==
  /\ ~panel.stale /\ k \notin panel.pending
  /\ Edited
  /\ panel' = [panel EXCEPT !.drafts[k] = IF w = panel.obs[k] THEN None ELSE w,
                            !.error = FALSE]
  /\ UNCHANGED <<firmware, orders, batch, events, strays, unread>>

(* on_power_limit_apply_clicked, on a button that is shown enabled.        *)
Apply ==
  /\ ~panel.stale /\ Drafted(panel.drafts) # {} /\ panel.pending = {}
  /\ Edited
  /\ orders' = Append(orders, [do |-> "apply", vals |-> panel.drafts, seen |-> panel.obs])
  /\ panel' = [panel EXCEPT !.pending = @ \cup Drafted(panel.drafts)]
  /\ UNCHANGED <<firmware, batch, events, strays, unread>>

(* WorkerEvent::PowerLimitsRefresh: a draft the snapshot confirms is done; *)
(* a write of unknown outcome it does not confirm is taken as not landed.  *)
ShowSnapshot(e) ==
  /\ e.show = "snapshot"
  /\ LET confirmed == {k \in Drafted(panel.drafts) : panel.drafts[k] = e.obs[k]}
         pending == panel.pending \ confirmed
         resolved == pending \cap panel.awaiting
     IN panel' =
          IF ~e.ok THEN [panel EXCEPT !.stale = TRUE]
          ELSE [obs |-> e.obs, stale |-> FALSE,
                drafts |-> [k \in Keys |-> IF k \in confirmed THEN None ELSE panel.drafts[k]],
                pending |-> pending \ resolved,
                awaiting |-> (panel.awaiting \ confirmed) \ resolved,
                error |-> panel.error \/ resolved # {}]

(* WorkerEvent::PowerLimit: only a timeout leaves the field pending.       *)
ShowResult(e) ==
  /\ e.show = "result"
  /\ panel' =
       CASE e.result = "applied" ->
              [panel EXCEPT !.pending = @ \ {e.key}, !.awaiting = @ \ {e.key}, !.error = FALSE]
         [] e.result = "timeout" -> [panel EXCEPT !.awaiting = @ \cup {e.key}]
         [] e.result = "error" -> [panel EXCEPT !.pending = @ \ {e.key}, !.error = TRUE]

Show ==
  /\ events # <<>>
  /\ ShowSnapshot(Head(events)) \/ ShowResult(Head(events))
  /\ events' = Tail(events)
  /\ UNCHANGED <<firmware, orders, batch, strays, uses, unread>>

-----------------------------------------------------------------------------
(* The worker                                                              *)

Snapshot(ok) == [show |-> "snapshot", ok |-> ok, obs |-> firmware]
Result(k, result) == [show |-> "result", key |-> k, result |-> result]

Take ==
  /\ batch.at = "idle" /\ orders # <<>>
  /\ LET o == Head(orders)
     IN batch' = [batch EXCEPT !.do = o.do, !.at = "next", !.vals = o.vals, !.seen = o.seen,
                    !.left = Drafted(o.vals),
                    !.checked = o.do # "apply", !.stopped = FALSE, !.result = "applied"]
  /\ orders' = Tail(orders)
  /\ UNCHANGED <<firmware, panel, events, strays, uses, unread>>

(* RefreshPowerLimits.                                                     *)
Refresh(ok) ==
  /\ batch.do = "refresh" /\ batch.at = "next"
  /\ IF ok THEN UNCHANGED uses ELSE Mishap
  /\ events' = Append(events, Snapshot(ok))
  /\ batch' = [batch EXCEPT !.at = "idle"]
  /\ unread' = (unread /\ ~ok)
  /\ UNCHANGED <<firmware, panel, orders, strays>>

(* Mutant: the fields after a failed one are left without an answer.       *)
AnsweredBreaking(result) ==
  batch' = [batch EXCEPT !.left = IF result # "applied" THEN {} ELSE @ \ {Due},
                         !.stopped = @ \/ result # "applied", !.at = "next"]

(* A field is answered. After a failure a replay ends there; a batch of    *)
(* the user goes on to answer what is left of it.                          *)
Answered(result) ==
  batch' = [batch EXCEPT !.left = IF batch.do = "replay" /\ result # "applied"
                                  THEN {} ELSE @ \ {Due},
                         !.stopped = @ \/ result # "applied", !.at = "next"]

(* Not applied: an earlier limit of this apply failed.                     *)
Skip ==
  /\ batch.at = "next" /\ batch.stopped /\ batch.left # {}
  /\ events' = Append(events, Result(Due, "error"))
  /\ Answered("error")
  /\ UNCHANGED <<firmware, panel, orders, strays, uses, unread>>

(* The snapshot before a write; the first of an Apply must see what the    *)
(* user saw. A snapshot that cannot be read fails the field.               *)
Look ==
  /\ batch.at = "next" /\ ~batch.stopped /\ batch.left # {}
  /\ batch.checked \/ batch.seen = firmware
  /\ batch' = [batch EXCEPT !.at = "write", !.checked = TRUE]
  /\ UNCHANGED <<firmware, panel, orders, events, strays, uses, unread>>

Conflict ==
  /\ batch.at = "next" /\ ~batch.stopped /\ batch.left # {}
  /\ ~batch.checked /\ batch.seen # firmware
  /\ events' = Append(events, Result(Due, "error"))
  /\ Answered("error")
  /\ UNCHANGED <<firmware, panel, orders, strays, uses, unread>>

(* set_power_limit_from_snapshot: Hardware1 wrote and read the value back. *)
Written ==
  /\ firmware' = [firmware EXCEPT ![Due] = batch.vals[Due]]
  /\ unread' = TRUE

Write ==
  /\ batch.at = "write"
  /\ Written
  /\ batch' = [batch EXCEPT !.at = "back", !.result = "applied"]
  /\ UNCHANGED <<panel, orders, events, strays, uses>>

(* The deadline passes before the write, or after it and before its reply. *)
TimeOut ==
  /\ batch.at = "write"
  /\ Mishap
  /\ \/ Written /\ UNCHANGED strays
     \/ /\ strays' = strays \cup {<<Due, batch.vals[Due]>>}
        /\ UNCHANGED <<firmware, unread>>
  /\ batch' = [batch EXCEPT !.at = "back", !.result = "timeout"]
  /\ UNCHANGED <<panel, orders, events>>

(* Any other error, the firmware refused or took another value: nothing    *)
(* reads the limits again.                                                 *)
Refused ==
  /\ batch.at = "write"
  /\ Mishap
  /\ \/ UNCHANGED <<firmware, unread>>
     \/ \E w \in Watts : /\ firmware' = [firmware EXCEPT ![Due] = w]
                         /\ unread' = TRUE
  /\ events' = Append(events, Result(Due, "error"))
  /\ Answered("error")
  /\ UNCHANGED <<panel, orders, strays>>

(* The refresh after a write of which the outcome is success or unknown;   *)
(* it is emitted before the result of the write.                           *)
ReadBack(ok) ==
  /\ batch.at = "back"
  /\ IF ok THEN UNCHANGED uses ELSE Mishap
  /\ events' = events \o <<Snapshot(ok), Result(Due, batch.result)>>
  /\ unread' = (unread /\ ~ok)
  /\ Answered(batch.result)
  /\ UNCHANGED <<firmware, panel, orders, strays>>

Rest ==
  /\ batch.at = "next" /\ batch.left = {} /\ batch.do # "refresh"
  /\ batch' = [batch EXCEPT !.at = "idle"]
  /\ UNCHANGED <<firmware, panel, orders, events, strays, uses, unread>>

-----------------------------------------------------------------------------
(* The world                                                               *)

(* A write that was given up is performed after all.                       *)
Lands ==
  \E w \in strays :
    /\ strays' = strays \ {w}
    /\ firmware' = [firmware EXCEPT ![w[1]] = w[2]]
    /\ unread' = TRUE
    /\ UNCHANGED <<panel, orders, batch, events, uses>>

(* Another profile: the firmware resets every limit, and the worker, when  *)
(* its tick sees it, replays what was saved for it (see ProfileLimits).    *)
Switch(limits, saved) ==
  /\ uses.switches < MaxSwitches
  /\ uses' = [uses EXCEPT !.switches = @ + 1]
  /\ firmware' = limits
  /\ unread' = TRUE
  /\ orders' = IF saved = NoDrafts THEN orders
               ELSE Append(orders, [do |-> "replay", vals |-> saved, seen |-> limits])
  /\ UNCHANGED <<panel, batch, events, strays>>

Next ==
  \/ \E k \in Keys, w \in Watts : Draft(k, w)
  \/ Apply \/ Show
  \/ Take \/ Rest \/ Skip \/ Look \/ Conflict \/ Write \/ TimeOut \/ Refused
  \/ \E ok \in BOOLEAN : Refresh(ok) \/ ReadBack(ok)
  \/ Lands
  \/ \E w \in Watts, saved \in Drafts : Switch([k \in Keys |-> w], saved)

Spec == Init /\ [][Next]_limitVars

-----------------------------------------------------------------------------
(* Properties                                                              *)

(* "observed values come from read-back": at rest, limits that are not     *)
(* marked stale are the ones in force, unless they changed after the last  *)
(* read: a switch without a replay, a late write, a write that failed.     *)
ShownIsInForce ==
  /\ orders = <<>> /\ batch.at = "idle" /\ events = <<>>
  /\ ~panel.stale /\ ~unread
  => panel.obs = firmware

Answering(k) ==
  \/ \E i \in DOMAIN orders : orders[i].do = "apply" /\ orders[i].vals[k] # None
  \/ /\ batch.do = "apply" /\ batch.at # "idle"
     /\ k \in batch.left
  \/ \E i \in DOMAIN events : events[i].show = "result" /\ events[i].key = k

(* A field is locked as pending only while its answer is to come, or after *)
(* a timeout whose outcome is unknown; a field that a failed batch never   *)
(* reached is unlocked like the others.                                    *)
LockIsOwed == \A k \in panel.pending : Answering(k) \/ k \in panel.awaiting
===============================================================================
