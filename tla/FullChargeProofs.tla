--------------------------- MODULE FullChargeProofs ---------------------------
(***************************************************************************)
(* The one-time full charge, for every set of percentages and any number   *)
(* of commands, plugs, faults and kills. Each property leans on what the   *)
(* worker is about to do:                                                  *)
(*                                                                         *)
(*   RestoreOwed: that the restore point is saved before the limit is      *)
(*     raised (RaiseIsSaved);                                              *)
(*   RestoredOncePerFault: that an attempt needs a restore point, and that *)
(*     one that has been taken is gone unless its removal failed (Budget). *)
(***************************************************************************)
EXTENDS FullCharge, TLAPS

(* begin_full_charge saves first.                                          *)
RaiseIsSaved == worker.pc = "raising" => disk # NoRestore

(* The attempts made, the one under way and the one the restore point      *)
(* still allows are one in all, and one more for each fault.               *)
UnderWay == IF worker.pc = "restoring" THEN 1 ELSE 0
Allowed == IF memory # NoRestore \/ disk # NoRestore THEN 1 ELSE 0
Budget == hist.attempts + UnderWay + Allowed <= 1 + used.faults

(* A write has a value to write.                                           *)
Aimed == Writing => worker.want # 0

Core == /\ Aimed
        /\ RestorePointNeverFull
        /\ MemoryMatchesDisk
        /\ RaiseIsSaved /\ RestoreOwed
        /\ Budget

Inv == TypeOK /\ Core

USE DEF NoRestore, Full

-----------------------------------------------------------------------------
(* The sets and the helpers.                                               *)

LEMMA LimitsType == Limits \subseteq 20 .. 100 /\ Wanted \subseteq Limits /\ Full \in Limits
BY WantedAssumption DEF Limits

LEMMA IdleType == Idle = [pc |-> "idle", want |-> 0]
BY DEF Idle

(* A save replaces both copies or fails and leaves both.                   *)
LEMMA StoreSaves ==
  ASSUME TypeOK, NEW restore \in Limits \cup {NoRestore}, NEW ok \in BOOLEAN,
         Store(restore, ok)
  PROVE  /\ ok => memory' = restore /\ disk' = restore /\ used' = used
         /\ ~ok => memory' = memory /\ disk' = disk /\ used'.faults = used.faults + 1
         /\ {memory', disk'} \subseteq Limits \cup {NoRestore}
         /\ used' \in [commands : 0 .. MaxCommands, plugs : 0 .. MaxPlugs,
                       faults : 0 .. MaxFaults, crashes : 0 .. MaxCrashes]
BY BoundsAssumption DEF Store, rules, TypeOK

(* A snapshot changes nothing, or ends a full charge that is due.          *)
LEMMA ObserveEnds ==
  ASSUME TypeOK, NEW facts, Observe(facts)
  PROVE  \/ UNCHANGED <<worker, memory, disk, used>>
         \/ /\ memory # NoRestore
            /\ worker' = [pc |-> "restoring", want |-> memory]
            /\ \E ok \in BOOLEAN : Store(NoRestore, ok)
BY DEF Observe, EndDue, rules

-----------------------------------------------------------------------------
(* Types.                                                                  *)

Workers == [pc : {"idle", "down", "setting", "raising", "restoring"}, want : Limits \cup {0}]
Uses == [commands : 0 .. MaxCommands, plugs : 0 .. MaxPlugs,
         faults : 0 .. MaxFaults, crashes : 0 .. MaxCrashes]
Histories == [owed : BOOLEAN, forfeited : BOOLEAN, attempts : 0 .. 3]
Polls == [pc : {"none", "asked", "ready"}, known : BOOLEAN, ac : BOOLEAN, full : BOOLEAN]
Points == Limits \cup {NoRestore}

(* The parts of the state the worker's bookkeeping is about.               *)
Books ==
  /\ worker \in Workers
  /\ memory \in Points /\ disk \in Points
  /\ used \in Uses
  /\ hist \in Histories

(* The rest of it.                                                         *)
World ==
  /\ limit \in Limits /\ flying \in Seq(Limits)
  /\ supply \in [ac : BOOLEAN, full : BOOLEAN]
  /\ poll \in Polls
  /\ queue \in Seq(Commands) /\ deferred \in BOOLEAN

LEMMA TypeSplit == TypeOK <=> Books /\ World
BY DEF TypeOK, Books, World, Workers, Uses, Histories, Polls, Points

LEMMA TypesInit == Init => TypeOK
<1> SUFFICES ASSUME Init PROVE Books /\ World
  BY TypeSplit
<1>1. Books
  BY BoundsAssumption DEF Init, Books, Workers, Uses, Histories, Points, Idle
<1>2. World
  <2>1. NoPoll \in Polls
    BY DEF NoPoll, Polls
  <2>2. supply \in [ac : BOOLEAN, full : BOOLEAN]
    BY DEF Init
  <2>3. limit \in Limits /\ flying \in Seq(Limits) /\ queue \in Seq(Commands)
    BY LimitsType DEF Init
  <2> QED BY <2>1, <2>2, <2>3 DEF Init, World
<1> QED BY <1>1, <1>2

LEMMA DispatchedType == ASSUME TypeOK PROVE Dispatched \in Histories
<1>0. hist \in Histories
  BY DEF TypeOK, Histories
<1>1. [hist EXCEPT !.owed = TRUE] \in Histories
  BY <1>0 DEF Histories
<1>2. [hist EXCEPT !.owed = FALSE, !.attempts = IF @ < 3 THEN @ + 1 ELSE @] \in Histories
  <2>1. (IF hist.attempts < 3 THEN hist.attempts + 1 ELSE hist.attempts) \in 0 .. 3
    BY <1>0 DEF Histories
  <2> QED BY <1>0, <2>1 DEF Histories
<1> QED BY <1>0, <1>1, <1>2 DEF Dispatched

(* The worker's branches, and the writes it ends.                          *)
LEMMA BooksNext == TypeOK /\ Next => Books'
<1> SUFFICES ASSUME TypeOK, Next PROVE Books'
  OBVIOUS
<1>0. Books /\ World
  BY TypeSplit
<1>1. CASE SupplyChanges \/ Send
  <2>1. used' \in Uses
    BY <1>0, <1>1, BoundsAssumption DEF SupplyChanges, Send, Books, Uses
  <2> QED BY <1>0, <1>1, <2>1 DEF SupplyChanges, Send, Books, rules
<1>2. CASE Tick \/ Sample \/ SampleFails \/ LateWrite
  BY <1>0, <1>2 DEF Tick, Sample, SampleFails, LateWrite, Books, rules
<1>3. CASE TakeSet
  <2>1. PICK k \in 1 .. Len(queue) :
          /\ \A i \in 1 .. k : queue[i].op = "set"
          /\ worker' = [Idle EXCEPT !.pc = "setting", !.want = queue[k].p]
    BY <1>3 DEF TakeSet
  <2>2. queue[k] \in Commands /\ k \in 1 .. k
    BY <1>0, <2>1 DEF World
  <2>3. queue[k].p \in Wanted
    BY <2>1, <2>2 DEF Commands
  <2>4. worker' \in Workers
    BY <2>1, <2>3, IdleType DEF Workers, Limits
  <2> QED BY <1>0, <1>3, <2>4 DEF TakeSet, Books, rules
<1>4. CASE TakeStart
  <2>1. CASE UNCHANGED <<worker, rules, used, hist>>
    BY <1>0, <2>1 DEF Books, rules
  <2>2. CASE \E ok \in BOOLEAN :
               /\ Store(limit, ok)
               /\ IF ok THEN /\ worker' = [Idle EXCEPT !.pc = "raising", !.want = Full]
                             /\ hist' = [owed |-> FALSE, forfeited |-> FALSE, attempts |-> 0]
                        ELSE UNCHANGED <<worker, hist>>
    <3>1. PICK ok \in BOOLEAN :
            /\ Store(limit, ok)
            /\ IF ok THEN /\ worker' = [Idle EXCEPT !.pc = "raising", !.want = Full]
                          /\ hist' = [owed |-> FALSE, forfeited |-> FALSE, attempts |-> 0]
                     ELSE UNCHANGED <<worker, hist>>
      BY <2>2
    <3>2. limit \in Points
      BY <1>0 DEF World, Points
    <3>3. memory' \in Points /\ disk' \in Points /\ used' \in Uses
      BY <3>1, <3>2, StoreSaves DEF Points, Uses
    <3>4. worker' \in Workers
      BY <1>0, <3>1, IdleType, LimitsType DEF Books, Workers
    <3>5. hist' \in Histories
      <4>1. [owed |-> FALSE, forfeited |-> FALSE, attempts |-> 0] \in Histories
        BY DEF Histories
      <4> QED BY <1>0, <3>1, <4>1 DEF Books
    <3> QED BY <3>3, <3>4, <3>5 DEF Books
  <2> QED BY <1>4, <2>1, <2>2 DEF TakeStart
<1>5. CASE TakeStop
  <2>1. CASE memory = NoRestore
    BY <1>0, <1>5, <2>1 DEF TakeStop, Books, rules
  <2>2. CASE memory # NoRestore
    <3>1. PICK ok \in BOOLEAN :
            /\ Store(NoRestore, ok)
            /\ worker' = IF ok THEN [Idle EXCEPT !.pc = "restoring", !.want = memory] ELSE worker
      BY <1>5, <2>2 DEF TakeStop
    <3>2. memory' \in Points /\ disk' \in Points /\ used' \in Uses
      BY <3>1, StoreSaves DEF Points, Uses
    <3>3. worker' \in Workers
      BY <1>0, <3>1, IdleType DEF Books, Workers, Points
    <3> QED BY <1>0, <1>5, <3>2, <3>3 DEF TakeStop, Books
  <2> QED BY <2>1, <2>2
<1>6. CASE TakeRules
  <2>1. PICK ok \in BOOLEAN : Store(memory, ok)
    BY <1>6 DEF TakeRules
  <2>2. memory' \in Points /\ disk' \in Points /\ used' \in Uses
    BY <1>0, <2>1, StoreSaves DEF Books, Points, Uses
  <2> QED BY <1>0, <1>6, <2>2 DEF TakeRules, Books
<1>7. ASSUME hist' = hist, NEW facts, Observe(facts) \/ UNCHANGED <<worker, rules, used>>
      PROVE  Books'
  <2>1. CASE UNCHANGED <<worker, memory, disk, used>>
    BY <1>0, <1>7, <2>1 DEF Books
  <2>2. CASE /\ worker' = [pc |-> "restoring", want |-> memory]
             /\ \E ok \in BOOLEAN : Store(NoRestore, ok)
    <3>1. PICK ok \in BOOLEAN : Store(NoRestore, ok)
      BY <2>2
    <3>2. memory' \in Points /\ disk' \in Points /\ used' \in Uses
      BY <3>1, StoreSaves DEF Points, Uses
    <3>3. worker' \in Workers
      BY <1>0, <2>2 DEF Books, Workers, Points
    <3> QED BY <1>0, <1>7, <3>2, <3>3 DEF Books
  <2> QED BY <1>7, <2>1, <2>2, ObserveEnds DEF rules
<1>8. CASE TakeRefresh \/ TakeSnapshot
  BY <1>7, <1>8 DEF TakeRefresh, TakeSnapshot
<1>9. CASE WriteEnds
  <2>1. hist' \in {hist, Dispatched} /\ worker' = Idle /\ UNCHANGED <<memory, disk, used>>
    BY <1>9 DEF WriteEnds, WriteLands, WriteRefused, WriteUnknown, rules
  <2> QED BY <1>0, <2>1, DispatchedType, IdleType DEF Books, Workers
<1>10. CASE Crash
  <2>1. used' \in Uses
    BY <1>0, <1>10, BoundsAssumption DEF Crash, Books, Uses
  <2>2. hist' \in Histories
    BY <1>0, <1>10, DispatchedType DEF Crash, Books, Histories
  <2>3. worker' \in Workers /\ memory' \in Points /\ disk' \in Points
    BY <1>0, <1>10, IdleType DEF Crash, Books, Workers, Points
  <2> QED BY <2>1, <2>2, <2>3 DEF Books
<1>11. CASE Restart
  <2>1. used' \in Uses
    BY <1>0, <1>11, BoundsAssumption DEF Restart, Books, Uses
  <2>3. hist' \in Histories
    <3>1. [hist EXCEPT !.forfeited = @ \/ disk # NoRestore] \in Histories
      BY <1>0 DEF Books, Histories
    <3> QED BY <1>0, <1>11, <3>1 DEF Restart, Books
  <2>2. worker' \in Workers /\ memory' \in Points /\ disk' \in Points
    BY <1>0, <1>11, IdleType DEF Restart, Books, Workers, Points
  <2> QED BY <2>1, <2>2, <2>3 DEF Books
<1> QED
  BY <1>1, <1>2, <1>3, <1>4, <1>5, <1>6, <1>8, <1>9, <1>10, <1>11 DEF Next, TakeCommand

(* The hardware, the telemetry and the queues.                             *)
LEMMA WorldNext == TypeOK /\ Aimed /\ Next => World'
<1> SUFFICES ASSUME TypeOK, Aimed, Next PROVE World'
  OBVIOUS
<1>0. Books /\ World
  BY TypeSplit
<1> USE DEF World, hardware, telemetry, inputs
<1>1. CASE SupplyChanges
  BY <1>0, <1>1 DEF SupplyChanges
<1>2. CASE Tick \/ Sample \/ SampleFails \/ TakeSnapshot
  <2>1. poll' \in Polls
    <3>1. poll' \in {NoPoll, [NoPoll EXCEPT !.pc = "asked"], [NoPoll EXCEPT !.pc = "ready"],
                    [pc |-> "ready", known |-> TRUE, ac |-> supply.ac, full |-> supply.full]}
      BY <1>2 DEF Tick, Sample, SampleFails, TakeSnapshot
    <3>2. NoPoll \in Polls
      BY DEF NoPoll, Polls
    <3>3. /\ [NoPoll EXCEPT !.pc = "asked"] \in Polls
          /\ [NoPoll EXCEPT !.pc = "ready"] \in Polls
      BY <3>2 DEF Polls
    <3>4. [pc |-> "ready", known |-> TRUE, ac |-> supply.ac, full |-> supply.full] \in Polls
      BY <1>0 DEF Polls
    <3> QED BY <3>1, <3>2, <3>3, <3>4
  <2> QED BY <1>0, <1>2, <2>1 DEF Tick, Sample, SampleFails, TakeSnapshot
<1>3. CASE TakeSet
  <2>1. PICK k \in 1 .. Len(queue) : /\ queue' = SubSeq(queue, k + 1, Len(queue))
                                     /\ deferred' = (k < Len(queue))
    BY <1>3 DEF TakeSet
  <2>2. queue' \in Seq(Commands)
    BY <1>0, <2>1
  <2> QED BY <1>0, <1>3, <2>1, <2>2 DEF TakeSet
<1>4. CASE TakeStart \/ TakeStop \/ TakeRules \/ TakeRefresh
  <2>1. queue # <<>> /\ queue' = Tail(queue) /\ deferred' = FALSE
    BY <1>4 DEF TakeStart, TakeStop, TakeRules, TakeRefresh, Takes
  <2>2. queue' \in Seq(Commands)
    BY <1>0, <2>1
  <2> QED BY <1>0, <1>4, <2>1, <2>2 DEF TakeStart, TakeStop, TakeRules, TakeRefresh
<1>5. CASE WriteEnds
  <2>1. worker.want \in Limits
    BY <1>0, <1>5 DEF WriteEnds, WriteLands, WriteRefused, WriteUnknown, Aimed, Books, Workers
  <2>2. limit' \in Limits /\ flying' \in Seq(Limits)
    <3>1. CASE WriteLands
      BY <2>1, <3>1 DEF WriteLands
    <3>2. CASE WriteRefused
      BY <1>0, <3>2 DEF WriteRefused
    <3>3. CASE WriteUnknown
      BY <1>0, <2>1, <3>3 DEF WriteUnknown
    <3> QED BY <1>5, <3>1, <3>2, <3>3 DEF WriteEnds
  <2> QED BY <1>0, <1>5, <2>2 DEF WriteEnds, WriteLands, WriteRefused, WriteUnknown
<1>6. CASE LateWrite
  <2>1. Head(flying) \in Limits /\ Tail(flying) \in Seq(Limits)
    BY <1>0, <1>6 DEF LateWrite
  <2> QED BY <1>0, <1>6, <2>1 DEF LateWrite
<1>7. CASE Send
  BY <1>0, <1>7 DEF Send
<1>8. CASE Crash
  <2>1. Writing => worker.want \in Limits
    BY <1>0 DEF Aimed, Books, Workers
  <2>2. flying' \in Seq(Limits)
    BY <1>0, <1>8, <2>1 DEF Crash
  <2>3. poll' \in Polls
    BY <1>8 DEF Crash, Polls, NoPoll
  <2>4. queue' \in Seq(Commands) /\ deferred' \in BOOLEAN
    <3>1. queue' = <<>>
      BY <1>8 DEF Crash
    <3>2. deferred' \in BOOLEAN
      BY <1>8 DEF Crash
    <3> QED BY <3>1, <3>2
  <2>5. UNCHANGED <<limit, supply>>
    BY <1>8 DEF Crash
  <2> QED BY <1>0, <2>2, <2>3, <2>4, <2>5
<1>9. CASE Restart
  BY <1>0, <1>9 DEF Restart
<1> QED BY <1>1, <1>2, <1>3, <1>4, <1>5, <1>6, <1>7, <1>8, <1>9 DEF Next, TakeCommand

-----------------------------------------------------------------------------
(* What the properties rest on.                                            *)

LEMMA CoreInit == Init => Core
BY BoundsAssumption, LimitsType
   DEF Init, Core, Aimed, Writing, Idle, RestorePointNeverFull, MemoryMatchesDisk, RaiseIsSaved,
       RestoreOwed, Budget, UnderWay, Allowed

(* The numbers the budget adds up.                                         *)
LEMMA Numbers ==
  ASSUME TypeOK
  PROVE  /\ hist.attempts \in 0 .. 3 /\ used.faults \in Nat
         /\ {memory, disk, limit} \subseteq 0 .. 100 /\ limit # 0
<1>1. hist.attempts \in 0 .. 3 /\ used.faults \in Nat
  BY BoundsAssumption DEF TypeOK
<1>2. limit \in Limits /\ memory \in Limits \cup {NoRestore} /\ disk \in Limits \cup {NoRestore}
  BY DEF TypeOK
<1>3. limit \in 20 .. 100 /\ {memory, disk} \subseteq 0 .. 100
  BY <1>2, LimitsType
<1> QED BY <1>1, <1>3

(* An attempt is spent when it is dispatched.                              *)
LEMMA DispatchedSpends ==
  ASSUME TypeOK
  PROVE  Dispatched.attempts \in Nat /\ Dispatched.attempts <= hist.attempts + UnderWay
<1>0. hist \in [owed : BOOLEAN, forfeited : BOOLEAN, attempts : 0 .. 3]
  BY DEF TypeOK
<1>1. CASE worker.pc = "raising"
  <2>1. Dispatched = [hist EXCEPT !.owed = TRUE]
    BY <1>1 DEF Dispatched
  <2> QED BY <1>0, <1>1, <2>1 DEF UnderWay
<1>2. CASE worker.pc = "restoring"
  <2> DEFINE n == IF hist.attempts < 3 THEN hist.attempts + 1 ELSE hist.attempts
  <2>1. Dispatched = [hist EXCEPT !.owed = FALSE, !.attempts = n]
    BY <1>2 DEF Dispatched
  <2>2. Dispatched.attempts = n
    BY <1>0, <2>1
  <2> QED BY <1>0, <1>2, <2>2 DEF UnderWay
<1>3. CASE worker.pc \notin {"raising", "restoring"}
  BY <1>0, <1>3 DEF Dispatched, UnderWay
<1> QED BY <1>1, <1>2, <1>3

(* Steps that leave the books alone.                                       *)
LEMMA CoreStays ==
  ASSUME TypeOK, Core, UNCHANGED <<worker, memory, disk, hist>>, used'.faults = used.faults
  PROVE  Core'
BY DEF Core, Aimed, Writing, RestorePointNeverFull, MemoryMatchesDisk, RaiseIsSaved,
       RestoreOwed, Budget, UnderWay, Allowed

(* A save that fails, with the worker as it was.                           *)
LEMMA CoreUnsaved ==
  ASSUME TypeOK, Core, UNCHANGED <<worker, memory, disk, hist>>,
         used'.faults = used.faults + 1
  PROVE  Core'
<1>1. hist.attempts \in 0 .. 3 /\ used.faults \in Nat
  BY Numbers
<1> QED BY <1>1 DEF Core, Aimed, Writing, RestorePointNeverFull, MemoryMatchesDisk,
                    RaiseIsSaved, RestoreOwed, Budget, UnderWay, Allowed

(* The end of a full charge: the restore point is gone, or its removal     *)
(* failed; the write comes next.                                           *)
LEMMA CoreEnds ==
  ASSUME TypeOK, Core, worker.pc = "idle", memory # NoRestore, hist' = hist,
         worker' = [pc |-> "restoring", want |-> memory],
         NEW ok \in BOOLEAN, Store(NoRestore, ok)
  PROVE  Core'
<1>1. CASE ok
  <2>1. memory' = NoRestore /\ disk' = NoRestore /\ used' = used
    BY <1>1, StoreSaves
  <2>2. Budget'
    BY <2>1, Numbers DEF Core, Budget, UnderWay, Allowed
  <2> QED BY <2>1, <2>2 DEF Core, Aimed, RestorePointNeverFull, MemoryMatchesDisk,
                            RaiseIsSaved, RestoreOwed
<1>2. CASE ~ok
  <2>1. memory' = memory /\ disk' = disk /\ used'.faults = used.faults + 1
    BY <1>2, StoreSaves
  <2>2. Budget'
    BY <2>1, Numbers DEF Core, Budget, UnderWay, Allowed
  <2> QED BY <2>1, <2>2 DEF Core, Aimed, RestorePointNeverFull, MemoryMatchesDisk,
                            RaiseIsSaved, RestoreOwed
<1> QED BY <1>1, <1>2

LEMMA CoreNext == TypeOK /\ Core /\ [Next]_vars => Core'
<1> SUFFICES ASSUME TypeOK, Core, [Next]_vars PROVE Core'
  OBVIOUS
<1>1. CASE SupplyChanges \/ Send
  <2>1. used'.faults = used.faults
    BY <1>1 DEF SupplyChanges, Send, TypeOK
  <2> QED BY <1>1, <2>1, CoreStays DEF SupplyChanges, Send, rules
<1>2. CASE Tick \/ Sample \/ SampleFails \/ LateWrite \/ UNCHANGED vars
  BY <1>2, CoreStays DEF Tick, Sample, SampleFails, LateWrite, rules, vars
<1>3. CASE TakeSet
  <2>1. PICK k \in 1 .. Len(queue) :
          /\ \A i \in 1 .. k : queue[i].op = "set"
          /\ worker' = [Idle EXCEPT !.pc = "setting", !.want = queue[k].p]
    BY <1>3 DEF TakeSet
  <2>2. queue[k] \in Commands /\ k \in 1 .. k
    BY <2>1 DEF TypeOK
  <2>3. queue[k].p # 0
    <3>1. queue[k].p \in Wanted
      BY <2>1, <2>2 DEF Commands
    <3> QED BY <3>1, LimitsType
  <2>4. worker.pc = "idle" /\ worker'.pc = "setting" /\ worker'.want # 0
    BY <1>3, <2>1, <2>3, IdleType DEF TakeSet
  <2> QED BY <1>3, <2>4 DEF TakeSet, rules, Core, Aimed, RestorePointNeverFull,
        MemoryMatchesDisk, RaiseIsSaved, RestoreOwed, Budget, UnderWay, Allowed
<1>4. CASE TakeStart
  <2>1. CASE UNCHANGED <<worker, rules, used, hist>>
    BY <2>1, CoreStays DEF rules
  <2>2. CASE limit # Full /\ ~UNCHANGED <<worker, rules, used, hist>>
    <3>1. PICK ok \in BOOLEAN :
            /\ Store(limit, ok)
            /\ IF ok THEN /\ worker' = [Idle EXCEPT !.pc = "raising", !.want = Full]
                          /\ hist' = [owed |-> FALSE, forfeited |-> FALSE, attempts |-> 0]
                     ELSE UNCHANGED <<worker, hist>>
      BY <1>4, <2>2 DEF TakeStart
    <3>2. limit \in Limits \cup {NoRestore} /\ limit # 0
      BY Numbers DEF TypeOK
    <3>3. CASE ok
      <4>1. /\ memory' = limit /\ disk' = limit /\ used' = used
            /\ worker'.pc = "raising" /\ worker'.want = Full
            /\ hist' = [owed |-> FALSE, forfeited |-> FALSE, attempts |-> 0]
        BY <3>1, <3>2, <3>3, StoreSaves, IdleType
      <4>2. Budget'
        BY <4>1, Numbers DEF Budget, UnderWay, Allowed
      <4> QED BY <2>2, <3>2, <4>1, <4>2 DEF Core, Aimed, RestorePointNeverFull,
            MemoryMatchesDisk, RaiseIsSaved, RestoreOwed
    <3>4. CASE ~ok
      BY <3>1, <3>2, <3>4, StoreSaves, CoreUnsaved
    <3> QED BY <3>3, <3>4
  <2> QED BY <1>4, <2>1, <2>2 DEF TakeStart
<1>5. CASE TakeStop
  <2>1. CASE memory = NoRestore
    BY <1>5, <2>1, CoreStays DEF TakeStop, rules
  <2>2. CASE memory # NoRestore
    <3>1. PICK ok \in BOOLEAN :
            /\ Store(NoRestore, ok)
            /\ worker' = IF ok THEN [Idle EXCEPT !.pc = "restoring", !.want = memory] ELSE worker
      BY <1>5, <2>2 DEF TakeStop
    <3>2. worker.pc = "idle" /\ hist' = hist
      BY <1>5 DEF TakeStop, Takes
    <3>3. CASE ok
      BY <2>2, <3>1, <3>2, <3>3, CoreEnds, IdleType
    <3>4. CASE ~ok
      BY <3>1, <3>2, <3>4, StoreSaves, CoreUnsaved
    <3> QED BY <3>3, <3>4
  <2> QED BY <2>1, <2>2
<1>6. CASE TakeRules
  <2>1. PICK ok \in BOOLEAN : Store(memory, ok)
    BY <1>6 DEF TakeRules
  <2>2. worker.pc = "idle" /\ UNCHANGED <<worker, hist>> /\ memory \in Limits \cup {NoRestore}
    BY <1>6 DEF TakeRules, Takes, TypeOK
  <2>3. CASE ok
    <3>1. memory' = memory /\ disk' = memory /\ used' = used
      BY <2>1, <2>2, <2>3, StoreSaves
    <3>2. Budget'
      BY <2>2, <3>1, Numbers DEF Core, Budget, UnderWay, Allowed
    <3> QED BY <2>2, <3>1, <3>2 DEF Core, Aimed, Writing, RestorePointNeverFull,
          MemoryMatchesDisk, RaiseIsSaved, RestoreOwed
  <2>4. CASE ~ok
    BY <2>1, <2>2, <2>4, StoreSaves, CoreUnsaved
  <2> QED BY <2>3, <2>4
<1>7. ASSUME worker.pc = "idle", hist' = hist,
             NEW facts, Observe(facts) \/ UNCHANGED <<worker, rules, used>>
      PROVE  Core'
  <2>1. CASE UNCHANGED <<worker, memory, disk, used>>
    BY <1>7, <2>1, CoreStays
  <2>2. CASE /\ memory # NoRestore
             /\ worker' = [pc |-> "restoring", want |-> memory]
             /\ \E ok \in BOOLEAN : Store(NoRestore, ok)
    BY <1>7, <2>2, CoreEnds
  <2> QED BY <1>7, <2>1, <2>2, ObserveEnds DEF rules
<1>8. CASE TakeRefresh \/ TakeSnapshot
  BY <1>7, <1>8 DEF TakeRefresh, TakeSnapshot, Takes
<1>9. CASE WriteEnds
  <2>1. /\ Writing /\ worker'.pc = "idle" /\ UNCHANGED <<memory, disk, used>>
        /\ hist' = Dispatched \/ (worker.pc # "restoring" /\ hist' = hist)
    BY <1>9, IdleType DEF WriteEnds, WriteLands, WriteRefused, WriteUnknown, rules
  <2>2. hist'.forfeited = hist.forfeited
    BY <2>1 DEF Dispatched, TypeOK
  <2>3. RestoreOwed'
    BY <2>1, <2>2 DEF Dispatched, TypeOK, Core, RestoreOwed, RaiseIsSaved
  <2>4. hist'.attempts \in Nat /\ hist'.attempts <= hist.attempts + UnderWay
    BY <2>1, Numbers, DispatchedSpends DEF UnderWay
  <2>5. Budget'
    BY <2>1, <2>4, Numbers DEF Core, Budget, UnderWay, Allowed
  <2> QED BY <2>1, <2>2, <2>3, <2>5 DEF Core, Aimed, Writing, RestorePointNeverFull,
        MemoryMatchesDisk, RaiseIsSaved
<1>10. CASE Crash
  <2>1. /\ worker'.pc = "down" /\ memory' = NoRestore /\ disk' = disk
        /\ used'.faults = used.faults
    BY <1>10, IdleType DEF Crash, TypeOK
  <2>2. CASE Writing /\ hist' = Dispatched
    <3>1. RestoreOwed'
      BY <2>1, <2>2 DEF Writing, Dispatched, TypeOK, Core, RestoreOwed, RaiseIsSaved
    <3>2. hist'.attempts \in Nat /\ hist'.attempts <= hist.attempts + UnderWay
      BY <2>2, DispatchedSpends
    <3>3. Budget'
      BY <2>1, <3>2, Numbers DEF Core, Budget, UnderWay, Allowed
    <3> QED BY <2>1, <3>1, <3>3 DEF Core, Aimed, Writing, RestorePointNeverFull,
          MemoryMatchesDisk, RaiseIsSaved
  <2>3. CASE hist' = [hist EXCEPT !.forfeited = @ \/ (worker.pc = "restoring" /\ disk = NoRestore)]
    <3>1. hist'.owed = hist.owed /\ hist'.attempts = hist.attempts
      BY <2>3 DEF TypeOK
    <3>2. hist'.forfeited <=> hist.forfeited \/ (worker.pc = "restoring" /\ disk = NoRestore)
      BY <2>3 DEF TypeOK
    <3>3. Budget'
      BY <2>1, <3>1, Numbers DEF Core, Budget, UnderWay, Allowed
    <3> QED BY <2>1, <3>1, <3>2, <3>3 DEF Core, Aimed, Writing, RestorePointNeverFull,
          MemoryMatchesDisk, RaiseIsSaved, RestoreOwed
  <2> QED BY <1>10, <2>2, <2>3 DEF Crash
<1>11. CASE Restart
  <2>1. worker.pc = "down" /\ worker'.pc = "idle" /\ disk' = disk
    BY <1>11, IdleType DEF Restart
  <2>2. CASE memory' = disk /\ UNCHANGED <<used, hist>>
    <3>1. Budget'
      BY <2>1, <2>2, Numbers DEF Core, Budget, UnderWay, Allowed
    <3> QED BY <2>1, <2>2, <3>1 DEF Core, Aimed, Writing, RestorePointNeverFull,
          MemoryMatchesDisk, RaiseIsSaved, RestoreOwed
  <2>3. CASE /\ used' = [used EXCEPT !.faults = @ + 1] /\ memory' = NoRestore
             /\ hist' = [hist EXCEPT !.forfeited = @ \/ disk # NoRestore]
    <3>1. /\ used'.faults = used.faults + 1
          /\ hist'.owed = hist.owed /\ hist'.attempts = hist.attempts
      BY <2>3 DEF TypeOK
    <3>2. hist'.forfeited <=> hist.forfeited \/ disk # NoRestore
      BY <2>3 DEF TypeOK
    <3>3. Budget'
      BY <2>1, <2>3, <3>1, Numbers DEF Core, Budget, UnderWay, Allowed
    <3> QED BY <2>1, <2>3, <3>1, <3>2, <3>3 DEF Core, Aimed, Writing, RestorePointNeverFull,
          MemoryMatchesDisk, RaiseIsSaved, RestoreOwed
  <2> QED BY <1>11, <2>2, <2>3 DEF Restart
<1> QED BY <1>1, <1>2, <1>3, <1>4, <1>5, <1>6, <1>8, <1>9, <1>10, <1>11 DEF Next, TakeCommand

-----------------------------------------------------------------------------
(* The theorems.                                                           *)

LEMMA AlwaysInv == Spec => []Inv
<1>1. Init => Inv
  BY TypesInit, CoreInit DEF Inv
<1>2. Inv /\ [Next]_vars => Inv'
  <2> SUFFICES ASSUME Inv, [Next]_vars PROVE Inv'
    OBVIOUS
  <2>1. Core'
    BY CoreNext DEF Inv
  <2>2. CASE Next
    <3>1. Books' /\ World'
      BY <2>2, BooksNext, WorldNext DEF Inv, Core
    <3> QED BY <2>1, <3>1 DEF Inv, TypeOK, Books, World, Workers, Uses, Histories, Polls, Points
  <2>3. CASE UNCHANGED vars
    <3>1. TypeOK'
      BY <2>3 DEF Inv, TypeOK, vars
    <3> QED BY <2>1, <3>1 DEF Inv
  <2> QED BY <2>2, <2>3
<1> QED BY <1>1, <1>2, PTL DEF Spec

(* Every reachable state has its type, for any bounds and percentages.     *)
THEOREM TypeCorrect == Spec => []TypeOK
<1>1. Inv => TypeOK
  BY DEF Inv
<1> QED BY <1>1, AlwaysInv, PTL

(* Whatever dies or fails to save, a raised limit whose restore was never  *)
(* dispatched has its restore point on disk or the worker about to write   *)
(* it, unless it was forfeited (begin_full_charge, full_charge_due).       *)
THEOREM OwedCorrect == Spec => []RestoreOwed
<1>1. Inv => RestoreOwed
  BY DEF Inv, Core
<1> QED BY <1>1, AlwaysInv, PTL

(* A running tracker and its file agree on the restore point.              *)
THEOREM CopiesAgree == Spec => []MemoryMatchesDisk
<1>1. Inv => MemoryMatchesDisk
  BY DEF Inv, Core
<1> QED BY <1>1, AlwaysInv, PTL

(* The raised limit itself is never remembered as the limit to restore.    *)
THEOREM NeverFull == Spec => []RestorePointNeverFull
<1>1. Inv => RestorePointNeverFull
  BY DEF Inv, Core
<1> QED BY <1>1, AlwaysInv, PTL

(* The restore of a full charge is dispatched once, and once more at most  *)
(* for each save that failed.                                              *)
THEOREM OncePerFault == Spec => []RestoredOncePerFault
<1>1. Inv => RestoredOncePerFault
  <2> SUFFICES ASSUME Inv PROVE RestoredOncePerFault
    OBVIOUS
  <2>1. TypeOK /\ Budget
    BY DEF Inv, Core
  <2> QED BY <2>1, Numbers DEF Budget, UnderWay, Allowed, RestoredOncePerFault
<1> QED BY <1>1, AlwaysInv, PTL

-----------------------------------------------------------------------------
(* A run that ends before the end of the queue leaves the next command.    *)
LEMMA RunLeavesNext ==
  ASSUME TypeOK, TakeSet
  PROVE  DeferredIsQueued'
<1>1. queue \in Seq(Commands)
  BY DEF TypeOK
<1>2. PICK k \in 1 .. Len(queue) : /\ queue' = SubSeq(queue, k + 1, Len(queue))
                                   /\ deferred' = (k < Len(queue))
  BY DEF TakeSet
<1>3. ASSUME k < Len(queue) PROVE queue' # <<>>
  <2>1. Len(SubSeq(queue, k + 1, Len(queue))) = Len(queue) - k
    BY <1>1, <1>3
  <2>. QED
    BY <1>2, <1>3, <2>1
<1>4. deferred' => k < Len(queue)
  BY <1>2, Zenon
<1>. QED
  BY <1>3, <1>4 DEF DeferredIsQueued

(* Whatever is put aside is the head of the queue until it is taken: the   *)
(* worker that looks at no snapshot and at no timer has a command to take. *)
THEOREM PutAsideIsNext == Spec => []DeferredIsQueued
<1>1. Init => DeferredIsQueued
  BY DEF Init, DeferredIsQueued
<1>2. ASSUME Inv, DeferredIsQueued, [Next]_vars PROVE DeferredIsQueued'
  <2>1. CASE UNCHANGED inputs
    BY <1>2, <2>1 DEF inputs, DeferredIsQueued
  <2>2. CASE TakeSet
    BY <1>2, <2>2, RunLeavesNext DEF Inv
  <2>3. CASE TakeStart \/ TakeStop \/ TakeRules \/ TakeRefresh
    BY <2>3 DEF TakeStart, TakeStop, TakeRules, TakeRefresh, Takes, DeferredIsQueued
  <2>4. CASE Send
    <3>1. PICK c \in Commands : queue' = Append(queue, c)
      BY <2>4 DEF Send
    <3>2. queue \in Seq(Commands) /\ Len(queue') = Len(queue) + 1
      BY <1>2, <3>1 DEF Inv, TypeOK
    <3>. QED
      BY <3>1, <3>2 DEF DeferredIsQueued
  <2>5. CASE Crash
    BY <2>5 DEF Crash, DeferredIsQueued
  <2>6. UNCHANGED vars \/ SupplyChanges \/ Tick \/ Sample \/ SampleFails \/ TakeSnapshot
          \/ WriteEnds \/ LateWrite \/ Restart => UNCHANGED inputs
    BY DEF vars, inputs, SupplyChanges, Tick, Sample, SampleFails, TakeSnapshot, WriteEnds,
       WriteLands, WriteRefused, WriteUnknown, LateWrite, Restart
  <2>. QED
    BY <1>2, <2>1, <2>2, <2>3, <2>4, <2>5, <2>6 DEF Next, TakeCommand
<1>. QED
  BY <1>1, <1>2, AlwaysInv, PTL DEF Spec
===============================================================================
