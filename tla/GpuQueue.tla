------------------------------ MODULE GpuQueue ------------------------------
(***************************************************************************)
(* The product GPU mode of hardwared (orbis-hardwared/src/asus_gpu_mode.rs,*)
(* orbis-providers/src/asus_gpu_mode.rs, handle_set_product_gpu_mode and   *)
(* handle_product_gpu_status): a mode is a pair of firmware attributes,    *)
(* dgpu_disable and gpu_mux_mode, each written and read by a D-Bus call of *)
(* its own. asusd defers a written value to the next boot.                 *)
(*                                                                         *)
(* Calls of several clients run concurrently in hardwared: between two     *)
(* attribute accesses of one call come those of another. A snapshot reads  *)
(* both deferred values at once, so in any order; the current ones change  *)
(* only at boot. A write that fails may have been executed.                *)
(***************************************************************************)
EXTENDS Integers

CONSTANTS Callers,     \* D-Bus clients: the UI worker, a second session
          MaxCalls,    \* calls in all
          MaxFaults,   \* failing attribute accesses
          MaxBoots

Modes == {"Hybrid", "Integrated", "Ultimate"}
Attributes == {"dgpu", "mux"}
None == -1
Bits == {0, 1}
Pairs == [Attributes -> Bits]
Empty == [a \in Attributes |-> None]

(* target_values and decode_asus_gpu_mode                                  *)
Pair(d, m) == [a \in Attributes |-> IF a = "dgpu" THEN d ELSE m]
Target == [mode \in Modes |-> CASE mode = "Hybrid"     -> Pair(0, 1)
                                [] mode = "Integrated" -> Pair(1, 1)
                                [] mode = "Ultimate"   -> Pair(0, 0)]
Decode(pair) ==
  IF \E mode \in Modes : Target[mode] = pair
    THEN CHOOSE mode \in Modes : Target[mode] = pair
    ELSE "Conflicted"

(* AsusGpuModeSnapshot::from_values: asusd queues only the attribute that  *)
(* changes, the other keeps its current value in the deferred pair.        *)
Deferred(cur, raw) ==
  IF raw = Empty THEN Empty
  ELSE [a \in Attributes |-> IF raw[a] = None THEN cur[a] ELSE raw[a]]

RebootRequired(cur, pair) == pair # Empty /\ pair # cur

Outcomes == {"AlreadyActive", "RebootRequired", "Unknown", "Inconsistent"}

(* classify_product_gpu_readback                                           *)
Classify(mode, cur, pair) ==
  CASE Decode(cur) = "Conflicted"                             -> "Inconsistent"
    [] ~RebootRequired(cur, pair) /\ Decode(cur) = mode       -> "AlreadyActive"
    [] pair = Target[mode]                                    -> "RebootRequired"
    [] OTHER                                                  -> "Inconsistent"

(* read_status, whose partial-queue test comes after the filling.          *)
Status(cur, pair) ==
  CASE Decode(cur) = "Conflicted"                             -> "Unknown"
    [] (pair["dgpu"] = None) # (pair["mux"] = None)           -> "Unknown"
    [] RebootRequired(cur, pair)                              -> "RebootRequired"
    [] OTHER                                                  -> "AlreadyActive"

-----------------------------------------------------------------------------
VARIABLES current,  \* the pair in force since boot
          queued,   \* what asusd defers, -1 where nothing
          call,     \* [Callers -> [pc, mode, left, got]]
          answer,   \* [Callers -> the latest answer]
          warned,   \* history: callers told of trouble and not confirmed since
          used,     \* calls, faults and boots so far
          asked,    \* history: modes requested since boot
          half,     \* history: the latest write was the first of a failed pair
          crossed   \* history: callers during whose call another one wrote

vars == <<current, queued, call, answer, warned, used, asked, half, crossed>>

Pcs == {"idle", "auth", "before", "dgpu", "mux", "after", "status"}
Troubles == {"Inconsistent", "Unknown", "error", "partial"}
Answers == Outcomes \cup Troubles \cup {"none", "refused"}
Idle == [pc |-> "idle", mode |-> "Hybrid", left |-> {}, got |-> Empty]

TypeOK ==
  /\ current \in Pairs
  /\ queued \in [Attributes -> Bits \cup {None}]
  /\ call \in [Callers -> [pc : Pcs, mode : Modes, left : SUBSET Attributes,
                           got : [Attributes -> Bits \cup {None}]]]
  /\ answer \in [Callers -> Answers]
  /\ warned \subseteq Callers
  /\ used \in [calls : 0 .. MaxCalls, faults : 0 .. MaxFaults, boots : 0 .. MaxBoots]
  /\ asked \subseteq Modes
  /\ half \in BOOLEAN
  /\ crossed \subseteq Callers

(* The mode the next boot brings.                                          *)
NextBoot(raw) == Decode(IF raw = Empty THEN current ELSE Deferred(current, raw))

Init ==
  /\ current \in {Target[mode] : mode \in Modes}
  /\ queued = Empty
  /\ call = [c \in Callers |-> Idle]
  /\ answer = [c \in Callers |-> "none"]
  /\ warned = {}
  /\ used = [calls |-> 0, faults |-> 0, boots |-> 0]
  /\ asked = {}
  /\ half = FALSE
  /\ crossed = {}

-----------------------------------------------------------------------------
Answer(c, a) ==
  /\ answer' = [answer EXCEPT ![c] = a]
  /\ warned' = IF a \in Troubles THEN warned \cup {c}
               ELSE IF call[c].pc \in {"before", "after"} THEN warned \ {c} ELSE warned
  /\ call' = [call EXCEPT ![c] = Idle]

Reading(c, pc) ==
  call' = [call EXCEPT ![c] = [@ EXCEPT !.pc = pc, !.left = Attributes, !.got = Empty]]

Fault ==
  /\ used.faults < MaxFaults
  /\ used' = [used EXCEPT !.faults = @ + 1]

Arrive(c, pc, mode) ==
  /\ call[c].pc = "idle"
  /\ used.calls < MaxCalls
  /\ used' = [used EXCEPT !.calls = @ + 1]
  /\ call' = [call EXCEPT ![c] = [Idle EXCEPT !.pc = pc, !.mode = mode, !.left = Attributes]]
  /\ answer' = [answer EXCEPT ![c] = "none"]
  /\ crossed' = crossed \ {c}
  /\ UNCHANGED <<current, queued, warned, half>>

(* SetProductGpuMode; a raw mode other than the three is refused at once.  *)
SetModeArrives(c) ==
  \E mode \in Modes : Arrive(c, "auth", mode) /\ UNCHANGED asked

(* ProductGpuStatus needs no authorization.                                *)
StatusArrives(c) == Arrive(c, "status", "Hybrid") /\ UNCHANGED asked

Authorize(c) ==
  /\ call[c].pc = "auth"
  /\ \/ Answer(c, "refused") /\ UNCHANGED asked
     \/ /\ Reading(c, "before")
        /\ asked' = asked \cup {call[c].mode}
        /\ UNCHANGED <<answer, warned>>
  /\ UNCHANGED <<current, queued, used, half, crossed>>

(* One deferred value of a snapshot arrives.                               *)
Read(c, a) ==
  /\ call[c].pc \in {"before", "after", "status"}
  /\ a \in call[c].left
  /\ call' = [call EXCEPT ![c].left = @ \ {a}, ![c].got[a] = queued[a]]
  /\ UNCHANGED <<current, queued, answer, warned, used, asked, half, crossed>>

(* An access fails: the snapshot, and the call, ends with an error.        *)
ReadFails(c) ==
  /\ call[c].pc \in {"before", "after", "status"}
  /\ call[c].left # {}
  /\ Fault
  /\ Answer(c, "error")
  /\ UNCHANGED <<current, queued, asked, half, crossed>>

(* Mutant: a requested mode that is current is "already active" whatever   *)
(* is queued.                                                              *)
DecideIgnoringQueue(c) ==
  /\ call[c].pc = "before"
  /\ call[c].left = {}
  /\ IF Decode(current) = call[c].mode
       THEN Answer(c, "AlreadyActive")
       ELSE /\ call' = [call EXCEPT ![c].pc = "dgpu"]
            /\ UNCHANGED <<answer, warned>>
  /\ UNCHANGED <<current, queued, used, asked, half, crossed>>

(* set_mode after its first snapshot.                                      *)
Decide(c) ==
  /\ call[c].pc = "before"
  /\ call[c].left = {}
  /\ IF /\ Decode(current) = call[c].mode
        /\ ~RebootRequired(current, Deferred(current, call[c].got))
       THEN Answer(c, "AlreadyActive")
       ELSE /\ call' = [call EXCEPT ![c].pc = "dgpu"]
            /\ UNCHANGED <<answer, warned>>
  /\ UNCHANGED <<current, queued, used, asked, half, crossed>>

(* asusd takes a value: one that equals the current one may be queued as   *)
(* it is, or leave nothing queued.                                         *)
Queues(c, a, v) ==
  /\ \E q \in {v} \cup {w \in {None} : v = current[a]} :
       queued' = [queued EXCEPT ![a] = q]
  /\ crossed' = crossed \cup (Callers \ {c})

WriteDgpu(c) ==
  /\ call[c].pc = "dgpu"
  /\ \/ /\ Queues(c, "dgpu", Target[call[c].mode]["dgpu"])
        /\ call' = [call EXCEPT ![c].pc = "mux"]
        /\ UNCHANGED <<answer, warned, used>>
     \/ /\ Fault
        /\ Answer(c, "error")
        /\ \/ Queues(c, "dgpu", Target[call[c].mode]["dgpu"])
           \/ UNCHANGED <<queued, crossed>>
  /\ half' = FALSE
  /\ UNCHANGED <<current, asked>>

(* The second write; when it fails the queue is partial, and said to be.   *)
WriteMux(c) ==
  /\ call[c].pc = "mux"
  /\ \/ /\ Queues(c, "mux", Target[call[c].mode]["mux"])
        /\ Reading(c, "after")
        /\ half' = FALSE
        /\ UNCHANGED <<answer, warned, used>>
     \/ /\ Fault
        /\ Answer(c, "partial")
        /\ \/ Queues(c, "mux", Target[call[c].mode]["mux"]) /\ half' = FALSE
           \/ UNCHANGED <<queued, crossed>> /\ half' = TRUE
  /\ UNCHANGED <<current, asked>>

(* The second snapshot is classified.                                      *)
Confirm(c) ==
  /\ call[c].pc = "after"
  /\ call[c].left = {}
  /\ Answer(c, Classify(call[c].mode, current, Deferred(current, call[c].got)))
  /\ UNCHANGED <<current, queued, used, asked, half, crossed>>

ReportStatus(c) ==
  /\ call[c].pc = "status"
  /\ call[c].left = {}
  /\ Answer(c, Status(current, Deferred(current, call[c].got)))
  /\ UNCHANGED <<current, queued, used, asked, half, crossed>>

(* The machine boots: the deferred pair becomes current, all calls end.    *)
Boot ==
  /\ used.boots < MaxBoots
  /\ used' = [used EXCEPT !.boots = @ + 1]
  /\ current' = IF queued = Empty THEN current ELSE Deferred(current, queued)
  /\ queued' = Empty
  /\ call' = [c \in Callers |-> Idle]
  /\ answer' = [c \in Callers |-> "none"]
  /\ warned' = {}
  /\ asked' = {}
  /\ half' = FALSE
  /\ crossed' = {}

-----------------------------------------------------------------------------
Step(c) ==
  \/ Authorize(c) \/ Decide(c) \/ WriteDgpu(c) \/ WriteMux(c)
  \/ Confirm(c) \/ ReportStatus(c) \/ ReadFails(c)
  \/ \E a \in Attributes : Read(c, a)

Next ==
  \/ \E c \in Callers : SetModeArrives(c) \/ StatusArrives(c) \/ Step(c)
  \/ Boot

Spec == Init /\ [][Next]_vars

-----------------------------------------------------------------------------
(* Properties                                                              *)

Quiet == \A c \in Callers : call[c].pc = "idle"

(* A caller told that its mode is active or queued, with no write of       *)
(* another caller during its call: the next boot does bring that mode,     *)
(* whatever earlier calls left queued, in part or in full.                 *)
ConfirmedIsNext ==
  [][\A c \in Callers \ crossed :
       /\ call[c].pc \in {"before", "after"} /\ call[c].left = {} /\ call'[c].pc = "idle"
       /\ answer'[c] \in {"AlreadyActive", "RebootRequired"}
       => NextBoot(queued) = call[c].mode]_vars

(* When all calls have ended and the next boot brings neither the current  *)
(* mode nor one that was asked for, a caller was told of trouble and has   *)
(* not been confirmed since: a mix of two requests, or half of one, is     *)
(* never silent.                                                           *)
MixIsReported ==
  Quiet /\ NextBoot(queued) \notin asked \cup {Decode(current)} => warned # {}

(* read_status: "A partially queued pair (only one of the two attributes   *)
(* carries a deferred value) is reported as Unknown": here after a second  *)
(* write that failed and left the impossible pair for the next boot.       *)
HalfWrittenIsUnknown ==
  [][\A c \in Callers :
       /\ call[c].pc = "status" /\ call[c].left = {} /\ call'[c].pc = "idle"
       /\ half /\ NextBoot(queued) = "Conflicted"
       /\ (call[c].got["dgpu"] = None) # (call[c].got["mux"] = None)
       => answer'[c] = "Unknown"]_vars
=============================================================================
