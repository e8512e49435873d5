----------------------------- MODULE FullCharge -----------------------------
(***************************************************************************)
(* The one-time full charge: the UI worker raises the charge limit to 100  *)
(* and puts the old limit back when the battery is full, the charger is    *)
(* gone or the user cancels (worker_runtime.rs, power_rules_runtime.rs,    *)
(* orbis-config/power_rules.rs).                                           *)
(*                                                                         *)
(* The restore point lives in the tracker (memory) and in the power rules  *)
(* file (disk); the worker takes one command or one telemetry snapshot at  *)
(* a time and is away in an await while it writes. A snapshot is sampled   *)
(* by a task of its own, so it may be old when the worker looks at it. The *)
(* worker may be killed between any two steps.                             *)
(*                                                                         *)
(* A charge-limit write is what OneShotWrite promises of it: it lands, or  *)
(* is refused, or its outcome is unknown and it lands later or never. The  *)
(* same snapshot also feeds the power-source rules, whose state is apart.  *)
(***************************************************************************)
EXTENDS Integers, Sequences

CONSTANTS Wanted,       \* percentages the user may choose
          MaxCommands,  \* user commands
          MaxPlugs,     \* changes of charger or battery
          MaxFaults,    \* failing saves and unreadable files, together
          MaxCrashes    \* deaths of the UI process

ASSUME WantedAssumption == Wanted \subseteq 20 .. 100
ASSUME BoundsAssumption == {MaxCommands, MaxPlugs, MaxFaults, MaxCrashes} \subseteq Nat

NoRestore == 0   \* full_charge_restore: None
Full == 100

VARIABLES limit,     \* the charge limit in force
          flying,    \* writes sent with an unknown outcome, oldest first
          supply,    \* charger and battery: [ac, full]
          poll,      \* the telemetry task: [pc, known, ac, full]
          queue,     \* WorkerCommands not yet taken
          deferred,  \* the head of queue was received and put aside
          worker,    \* [pc, want]
          memory,    \* tracker.rules.full_charge_restore
          disk,      \* the same field of the file
          used,      \* commands, plugs, faults and crashes so far
          hist       \* history: what became of the latest full charge

hardware == <<limit, flying>>
telemetry == <<supply, poll>>
inputs == <<queue, deferred>>
rules == <<memory, disk>>
vars == <<limit, flying, supply, poll, queue, deferred, worker, memory, disk, used, hist>>

Limits == Wanted \cup {Full}
Commands == [op : {"set"}, p : Wanted]
              \cup [op : {"start", "stop", "rules", "refresh"}, p : {0}]
NoPoll == [pc |-> "none", known |-> FALSE, ac |-> FALSE, full |-> FALSE]
Idle == [pc |-> "idle", want |-> 0]

TypeOK ==
  /\ limit \in Limits
  /\ flying \in Seq(Limits)
  /\ supply \in [ac : BOOLEAN, full : BOOLEAN]
  /\ poll \in [pc : {"none", "asked", "ready"}, known : BOOLEAN, ac : BOOLEAN, full : BOOLEAN]
  /\ queue \in Seq(Commands)
  /\ deferred \in BOOLEAN
  /\ worker \in [pc : {"idle", "down", "setting", "raising", "restoring"},
                 want : Limits \cup {0}]
  /\ {memory, disk} \subseteq Limits \cup {NoRestore}
  /\ used \in [commands : 0 .. MaxCommands, plugs : 0 .. MaxPlugs,
               faults : 0 .. MaxFaults, crashes : 0 .. MaxCrashes]
  /\ hist \in [owed : BOOLEAN, forfeited : BOOLEAN, attempts : 0 .. 3]

Init ==
  /\ limit \in Wanted
  /\ flying = <<>>
  /\ supply \in [ac : BOOLEAN, full : {FALSE}]
  /\ poll = NoPoll
  /\ queue = <<>>
  /\ deferred = FALSE
  /\ worker = Idle
  /\ memory = NoRestore
  /\ disk = NoRestore
  /\ used = [commands |-> 0, plugs |-> 0, faults |-> 0, crashes |-> 0]
  /\ hist = [owed |-> FALSE, forfeited |-> FALSE, attempts |-> 0]

-----------------------------------------------------------------------------
(* Charger, battery and telemetry                                          *)

(* "battery full" or "charger gone".                                       *)
Due(s) == s.full \/ ~s.ac

SupplyChanges ==
  /\ used.plugs < MaxPlugs
  /\ used' = [used EXCEPT !.plugs = @ + 1]
  /\ \/ supply' = [supply EXCEPT !.ac = ~@]
     \/ supply' = [supply EXCEPT !.full = ~@]
  /\ UNCHANGED <<hardware, poll, inputs, worker, rules, hist>>

(* The poll timer fires while the worker waits: a task is spawned.         *)
Tick ==
  /\ worker.pc = "idle"
  /\ ~deferred
  /\ poll.pc = "none"
  /\ poll' = [NoPoll EXCEPT !.pc = "asked"]
  /\ UNCHANGED <<hardware, supply, inputs, worker, rules, used, hist>>

(* The task samples the power supply and sends what it saw.                *)
Sample ==
  /\ poll.pc = "asked"
  /\ poll' = [pc |-> "ready", known |-> TRUE, ac |-> supply.ac, full |-> supply.full]
  /\ UNCHANGED <<hardware, supply, inputs, worker, rules, used, hist>>

(* A failed snapshot carries no facts.                                     *)
SampleFails ==
  /\ poll.pc = "asked"
  /\ poll' = [NoPoll EXCEPT !.pc = "ready"]
  /\ UNCHANGED <<hardware, supply, inputs, worker, rules, used, hist>>

-----------------------------------------------------------------------------
(* PowerRulesTracker                                                       *)

(* Mutant: memory takes the new value also when the file could not be      *)
(* written.                                                                *)
StoreInMemoryFirst(restore, ok) ==
  /\ memory' = restore
  /\ \/ ok /\ disk' = restore /\ UNCHANGED used
     \/ /\ ~ok
        /\ used.faults < MaxFaults
        /\ used' = [used EXCEPT !.faults = @ + 1]
        /\ UNCHANGED disk

(* store: the file is replaced atomically, or nothing changes.             *)
Store(restore, ok) ==
  \/ ok /\ memory' = restore /\ disk' = restore /\ UNCHANGED used
  \/ /\ ~ok
     /\ used.faults < MaxFaults
     /\ used' = [used EXCEPT !.faults = @ + 1]
     /\ UNCHANGED rules

(* Mutant: the pending restore point stays until the restore has landed.   *)
DueKeepingRestorePoint(ok) ==
  /\ ok
  /\ worker' = [pc |-> "restoring", want |-> memory]
  /\ UNCHANGED <<rules, used>>

(* full_charge_due when it is due: the restore point is cleared, and the   *)
(* limit is put back also when clearing it failed.                         *)
EndDue(ok) ==
  /\ Store(NoRestore, ok)
  /\ worker' = [pc |-> "restoring", want |-> memory]

(* Mutant: an unplugged charger does not end a full charge.                *)
ObserveOnlyFull(facts) ==
  IF memory # NoRestore /\ facts.full
    THEN \E ok \in BOOLEAN : EndDue(ok)
    ELSE UNCHANGED <<worker, rules, used>>

(* observe_power_source, the full-charge part.                             *)
Observe(facts) ==
  IF memory # NoRestore /\ facts.known /\ Due(facts)
    THEN \E ok \in BOOLEAN : EndDue(ok)
    ELSE UNCHANGED <<worker, rules, used>>

-----------------------------------------------------------------------------
(* The worker loop                                                         *)

(* The command at the head of the queue is taken; a deferred one first.    *)
Takes(op) ==
  /\ worker.pc = "idle"
  /\ queue # <<>>
  /\ Head(queue).op = op
  /\ queue' = Tail(queue)
  /\ deferred' = FALSE

(* Mutant: the command that ended the run of SetChargeLimit is dropped.    *)
TakeSetDroppingNext ==
  /\ worker.pc = "idle"
  /\ \E k \in 1 .. Len(queue) :
       /\ \A i \in 1 .. k : queue[i].op = "set"
       /\ k < Len(queue) => queue[k + 1].op # "set"
       /\ queue' = SubSeq(queue, k + 2, Len(queue))
       /\ worker' = [Idle EXCEPT !.pc = "setting", !.want = queue[k].p]
  /\ deferred' = FALSE
  /\ UNCHANGED <<hardware, telemetry, rules, used, hist>>

(* SetChargeLimit: a run of them is one write of the last; the command     *)
(* that ended the run is put aside and comes next.                         *)
TakeSet ==
  /\ worker.pc = "idle"
  /\ \E k \in 1 .. Len(queue) :
       /\ \A i \in 1 .. k : queue[i].op = "set"
       /\ k < Len(queue) => queue[k + 1].op # "set"
       /\ queue' = SubSeq(queue, k + 1, Len(queue))
       /\ deferred' = (k < Len(queue))
       /\ worker' = [Idle EXCEPT !.pc = "setting", !.want = queue[k].p]
  /\ UNCHANGED <<hardware, telemetry, rules, used, hist>>

(* Mutant: a limit of 100 is remembered like any other.                    *)
TakeStartAtAnyLimit ==
  /\ Takes("start")
  /\ \E ok \in BOOLEAN :
       /\ Store(limit, ok)
       /\ IF ok THEN /\ worker' = [Idle EXCEPT !.pc = "raising", !.want = Full]
                     /\ hist' = [owed |-> FALSE, forfeited |-> FALSE, attempts |-> 0]
                ELSE UNCHANGED <<worker, hist>>
  /\ UNCHANGED <<hardware, telemetry>>

(* StartFullCharge: the limit is read; unknown or already 100, nothing is  *)
(* raised. The restore point is saved before the write, or nothing is      *)
(* written.                                                                *)
TakeStart ==
  /\ Takes("start")
  /\ \/ UNCHANGED <<worker, rules, used, hist>>   \* the read failed
     \/ /\ limit = Full
        /\ UNCHANGED <<worker, rules, used, hist>>
     \/ /\ limit # Full
        /\ \E ok \in BOOLEAN :
             /\ Store(limit, ok)
             /\ IF ok THEN /\ worker' = [Idle EXCEPT !.pc = "raising", !.want = Full]
                           /\ hist' = [owed |-> FALSE, forfeited |-> FALSE, attempts |-> 0]
                      ELSE UNCHANGED <<worker, hist>>
  /\ UNCHANGED <<hardware, telemetry>>

(* StopFullCharge: without a cleared file the limit is not put back.       *)
TakeStop ==
  /\ Takes("stop")
  /\ IF memory = NoRestore
       THEN UNCHANGED <<worker, rules, used>>
       ELSE \E ok \in BOOLEAN :
              /\ Store(NoRestore, ok)
              /\ IF ok THEN worker' = [Idle EXCEPT !.pc = "restoring", !.want = memory]
                       ELSE UNCHANGED worker
  /\ UNCHANGED <<hardware, telemetry, hist>>

(* Mutant: the editor's record, which knows no restore point, is stored as *)
(* it comes.                                                               *)
TakeRulesVerbatim ==
  /\ Takes("rules")
  /\ \E ok \in BOOLEAN : Store(NoRestore, ok)
  /\ UNCHANGED <<hardware, telemetry, worker, hist>>

(* SetPowerRules: set_rules keeps the worker's restore point.              *)
TakeRules ==
  /\ Takes("rules")
  /\ \E ok \in BOOLEAN : Store(memory, ok)
  /\ UNCHANGED <<hardware, telemetry, worker, hist>>

(* RefreshTelemetry: the worker takes a snapshot itself.                   *)
TakeRefresh ==
  /\ Takes("refresh")
  /\ \/ Observe([known |-> TRUE, ac |-> supply.ac, full |-> supply.full])
     \/ UNCHANGED <<worker, rules, used>>
  /\ UNCHANGED <<hardware, telemetry, hist>>

(* A polled snapshot has arrived.                                          *)
TakeSnapshot ==
  /\ worker.pc = "idle"
  /\ ~deferred
  /\ poll.pc = "ready"
  /\ poll' = NoPoll
  /\ Observe(poll)
  /\ UNCHANGED <<hardware, supply, inputs, hist>>

-----------------------------------------------------------------------------
(* Charge-limit writes                                                     *)

Writing == worker.pc \in {"setting", "raising", "restoring"}

(* What the history remembers of a write that was dispatched.              *)
Dispatched ==
  CASE worker.pc = "raising"   -> [hist EXCEPT !.owed = TRUE]
    [] worker.pc = "restoring" ->
         [hist EXCEPT !.owed = FALSE, !.attempts = IF @ < 3 THEN @ + 1 ELSE @]
    [] OTHER                   -> hist

(* It lands, after all earlier ones.                                       *)
WriteLands ==
  /\ Writing
  /\ limit' = worker.want
  /\ flying' = <<>>
  /\ hist' = Dispatched
  /\ worker' = Idle
  /\ UNCHANGED <<telemetry, inputs, rules, used>>

(* Refused or failed; a refused restore is reported and never tried again. *)
WriteRefused ==
  /\ Writing
  /\ hist' = IF worker.pc = "restoring" THEN Dispatched ELSE hist
  /\ worker' = Idle
  /\ UNCHANGED <<hardware, telemetry, inputs, rules, used>>

(* The outcome is unknown.                                                 *)
WriteUnknown ==
  /\ Writing
  /\ flying' = Append(flying, worker.want)
  /\ hist' = Dispatched
  /\ worker' = Idle
  /\ UNCHANGED <<limit, telemetry, inputs, rules, used>>

(* asusd executes, or loses, the oldest of them.                           *)
LateWrite ==
  /\ flying # <<>>
  /\ flying' = Tail(flying)
  /\ limit' \in {limit, Head(flying)}
  /\ UNCHANGED <<telemetry, inputs, worker, rules, used, hist>>

-----------------------------------------------------------------------------
(* The user and the process                                                *)

Send ==
  /\ worker.pc # "down"
  /\ used.commands < MaxCommands
  /\ used' = [used EXCEPT !.commands = @ + 1]
  /\ \E c \in Commands : queue' = Append(queue, c)
  /\ UNCHANGED <<hardware, telemetry, deferred, worker, rules, hist>>

(* The UI process dies: with the queue, the telemetry task and the memory. *)
(* A write it was in may have been dispatched.                             *)
Crash ==
  /\ worker.pc # "down"
  /\ used.crashes < MaxCrashes
  /\ used' = [used EXCEPT !.crashes = @ + 1]
  /\ worker' = [Idle EXCEPT !.pc = "down"]
  /\ queue' = <<>>
  /\ deferred' = FALSE
  /\ poll' = NoPoll
  /\ memory' = NoRestore
  /\ \/ /\ Writing
        /\ flying' = Append(flying, worker.want)
        /\ hist' = Dispatched
     \/ /\ UNCHANGED flying
        /\ hist' = [hist EXCEPT !.forfeited = @ \/ (worker.pc = "restoring" /\ disk = NoRestore)]
  /\ UNCHANGED <<limit, supply, disk>>

(* PowerRulesTracker::load: an unreadable file means default rules, with   *)
(* no restore point.                                                       *)
Restart ==
  /\ worker.pc = "down"
  /\ worker' = Idle
  /\ \/ /\ memory' = disk
        /\ UNCHANGED <<used, hist>>
     \/ /\ used.faults < MaxFaults
        /\ used' = [used EXCEPT !.faults = @ + 1]
        /\ memory' = NoRestore
        /\ hist' = [hist EXCEPT !.forfeited = @ \/ disk # NoRestore]
  /\ UNCHANGED <<hardware, telemetry, inputs, disk>>

-----------------------------------------------------------------------------
TakeCommand == TakeSet \/ TakeStart \/ TakeStop \/ TakeRules \/ TakeRefresh
WriteEnds == WriteLands \/ WriteRefused \/ WriteUnknown

Next ==
  \/ SupplyChanges \/ Tick \/ Sample \/ SampleFails
  \/ TakeCommand \/ TakeSnapshot \/ WriteEnds \/ LateWrite
  \/ Send \/ Crash \/ Restart

Spec == Init /\ [][Next]_vars

(* The worker never rests while one of its branches is ready, select! does *)
(* not starve one, the application comes back, and telemetry is readable   *)
(* again and again.                                                        *)
FairSpec ==
  /\ Spec
  /\ WF_vars(TakeCommand) /\ WF_vars(TakeSnapshot) /\ WF_vars(Tick)
  /\ WF_vars(WriteEnds)
  /\ WF_vars(Restart)
  /\ SF_vars(Sample)

-----------------------------------------------------------------------------
(* Properties                                                              *)

(* begin_full_charge: "so a crash or restart still restores it later".     *)
(* Whatever dies, a raised limit whose restore was never dispatched has    *)
(* its restore point on disk, or the worker is about to write it.          *)
CrashStillRestores ==
  hist.owed => disk # NoRestore \/ worker.pc = "restoring"

(* The same, except in the two ways to forfeit it: the process dies after  *)
(* clearing the file and before the write, or cannot read the file again.  *)
RestoreOwed ==
  hist.owed => disk # NoRestore \/ worker.pc = "restoring" \/ hist.forfeited

(* A running tracker and its file agree on the restore point, also after   *)
(* failed saves, cancels and restarts.                                     *)
MemoryMatchesDisk ==
  worker.pc # "down" /\ ~hist.forfeited => memory = disk

(* No sequence of commands remembers the raised limit itself as the limit  *)
(* to restore (a second start during a full charge).                       *)
RestorePointNeverFull == Full \notin {memory, disk}

(* full_charge_due: "the restore is attempted once ... never retried": it  *)
(* is dispatched again only for a failed save (or a file that could not be *)
(* read), across kills, cancels, old snapshots and restarts.               *)
RestoredOncePerFault == hist.attempts <= 1 + used.faults

(* A command put aside is still there: while it is, no snapshot and no     *)
(* timer is looked at.                                                     *)
DeferredIsQueued == deferred => queue # <<>>

(* A pending full charge that should end does end, or stops being due.     *)
RestoredWhenDue ==
  memory # NoRestore /\ Due(supply)
    ~> memory = NoRestore \/ worker.pc = "restoring" \/ ~Due(supply)

(* A cancel the user sent is honoured, whatever it was queued behind,      *)
(* unless a save fails.                                                    *)
StopHonoured ==
  (\E i \in 1 .. Len(queue) : queue[i].op = "stop")
    ~> memory = NoRestore \/ used.faults > 0
=============================================================================
