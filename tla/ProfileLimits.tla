----------------------------- MODULE ProfileLimits -----------------------------
(***************************************************************************)
(* Power limits and tuning remembered for each performance profile: the    *)
(* tracker (profile_limits_runtime.rs), its file (profile_limits.rs), the  *)
(* worker that replays and records (worker_runtime.rs), and the write path *)
(* through Hardware1 down to the kernel (power_limits.rs).                 *)
(*                                                                         *)
(* A profile switch resets the power limits in firmware. The worker learns *)
(* of one made elsewhere at its next look, and then writes what the new    *)
(* profile remembers, one item after the other, stopping at a failure.     *)
(* A write given up after its deadline may still be performed (late).      *)
(***************************************************************************)
EXTENDS Integers, Sequences, FiniteSets

CONSTANTS Profiles,
          Limits, Cpu, Nvidia,  \* what is remembered, each in replay order
          Interactive,          \* items whose setting asks for a password
          Values,               \* what an item may be set to
          InitialFiles,         \* what the file may hold at first
          MaxCommands, MaxSwitches, MaxTroubles

Order == Limits \o Cpu \o Nvidia
Items == {Order[k] : k \in DOMAIN Order}
Firmware == {Limits[k] : k \in DOMAIN Limits}
Gpu == {Nvidia[k] : k \in DOMAIN Nvidia}

Default == "default"        \* what the firmware itself chooses
None == "none"


ProfileLimitSet == [auto : BOOLEAN, val : [Items -> Values \cup {None}]]
Rules == [Profiles -> ProfileLimitSet]
Nothing == [p \in Profiles |-> [auto |-> FALSE, val |-> [i \in Items |-> None]]]

(* A file holds one set of rules, or does not parse.                       *)
Unreadable == {}

ASSUME ItemsAssumption == /\ {Limits, Cpu, Nvidia} \subseteq Seq(STRING)
                          /\ Interactive \subseteq Items \ Firmware
ASSUME NamesAssumption == /\ {Default, None} \cap Values = {}
                          /\ None \notin Profiles
ASSUME FilesAssumption ==
  /\ InitialFiles \subseteq SUBSET Rules
  /\ \A f \in InitialFiles : IsFiniteSet(f) /\ Cardinality(f) <= 1
ASSUME BoundsAssumption == {MaxCommands, MaxSwitches, MaxTroubles} \subseteq Nat

VARIABLES profile,  \* the profile in force
          hw,       \* the value of each item in force
          file,
          rules, error, current,  \* the tracker
          job,      \* what the worker is writing, at most one
          call,     \* the write it is waiting for, at most one
          late,     \* writes given up and not performed yet
          used,     \* commands, switches and troubles so far
          hist      \* history, see Histories

tracker == <<rules, error, current>>
vars == <<profile, hw, file, rules, error, current, job, call, late, used, hist>>

(* clean: no item changed behind the back of a replay.                     *)
Writes == [item : Items, val : Values]
Jobs == [kind : {"replay", "batch", "single"}, todo : SUBSET Writes, clean : BOOLEAN]
Calls == [item : Items, val : Values, state : {"sent", "done", "failed"}]

(* sure: the last replay wrote everything, and only the user's own settings *)
(* of the tracked profile came after it.                                   *)
(* moved: the profile was changed since the worker last learned of it, by  *)
(* another program or by a call the worker was told had failed.            *)
Histories == [sure : BOOLEAN, moved : BOOLEAN]

TypeOK ==
  /\ profile \in Profiles
  /\ hw \in [Items -> Values \cup {Default}]
  /\ file \subseteq Rules /\ Cardinality(file) <= 1
  /\ rules \in Rules /\ error \in BOOLEAN /\ current \in Profiles \cup {None}
  /\ job \subseteq Jobs /\ Cardinality(job) <= 1
  /\ call \subseteq Calls /\ Cardinality(call) <= 1
  /\ call # {} => job # {}
  /\ late \subseteq Writes
  /\ used \in [commands : 0 .. MaxCommands, switches : 0 .. MaxSwitches,
               troubles : 0 .. MaxTroubles]
  /\ hist \in Histories

Command == used.commands < MaxCommands /\ used' = [used EXCEPT !.commands = @ + 1]
Trouble == used.troubles < MaxTroubles /\ used' = [used EXCEPT !.troubles = @ + 1]
Unsure == [hist EXCEPT !.sure = FALSE]
Disturbed == {[j EXCEPT !.clean = FALSE] : j \in job}

Held(f) == IF f = Unreadable THEN Nothing ELSE CHOOSE r \in f : TRUE

(* load: a file that does not parse counts as nothing remembered, and an   *)
(* error that is kept.                                                     *)
Load(f) ==
  /\ rules' = Held(f)
  /\ error' = (f = Unreadable)
  /\ current' = None

Entries(set) == {w \in Writes : set.val[w.item] = w.val}

Init ==
  /\ profile \in Profiles
  /\ hw = [i \in Items |-> Default]
  /\ file \in InitialFiles
  /\ rules = Held(file)
  /\ error = (file = Unreadable)
  /\ current = None
  /\ job = {} /\ call = {} /\ late = {}
  /\ used = [commands |-> 0, switches |-> 0, troubles |-> 0]
  /\ hist = [sure |-> FALSE, moved |-> FALSE]

-----------------------------------------------------------------------------
(* The tracker.                                                            *)

(* observe(p): the entries to write again, none at the first observation.  *)
ReplayOf(p) ==
  IF current \in {None, p} \/ error \/ ~rules[p].auto THEN {} ELSE Entries(rules[p])

(* Mutant: with an unreadable file the profile is not tracked.             *)
ObserveUnlessError(p) ==
  /\ current' = IF error THEN current ELSE p
  /\ job' = IF ReplayOf(p) = {} THEN {}
            ELSE {[kind |-> "replay", todo |-> ReplayOf(p), clean |-> TRUE]}

Observe(p) ==
  /\ current' = p
  /\ job' = IF ReplayOf(p) = {} THEN {}
            ELSE {[kind |-> "replay", todo |-> ReplayOf(p), clean |-> TRUE]}

(* save: the file first, memory only when that succeeded.                  *)
Save(next) ==
  \/ file' = {next} /\ rules' = next /\ UNCHANGED used
  \/ Trouble /\ UNCHANGED <<file, rules>>

(* record_applied, record_epp, ...: only with auto-apply on for the tracked *)
(* profile, only a value that is new.                                      *)
Records(w) ==
  current # None /\ ~error /\ rules[current].auto /\ rules[current].val[w.item] # w.val

-----------------------------------------------------------------------------
(* The worker.                                                             *)

Idle == job = {}

(* Every second tick it looks which profile is in force.                   *)
Poll ==
  /\ Idle
  /\ Observe(profile)
  /\ hist' = [sure |-> hist.sure /\ current = profile, moved |-> FALSE]
  /\ UNCHANGED <<profile, hw, file, rules, error, call, late, used>>

Switched(p) ==
  /\ profile' = p
  /\ hw' = [i \in Items |-> IF i \in Firmware /\ p # profile THEN Default ELSE hw[i]]

(* Mutant: a confirmed switch is left to the next tick to notice.          *)
SetPerformanceUnobserved(p) ==
  /\ Idle
  /\ Command
  /\ Switched(p)
  /\ hist' = [sure |-> hist.sure /\ p = profile /\ p = current, moved |-> FALSE]
  /\ UNCHANGED <<file, tracker, job, call, late>>

(* SetPerformance, by the user or a power rule: observed when confirmed.   *)
SetPerformance(p) ==
  /\ Idle
  /\ Switched(p)
  /\ \/ /\ Command
        /\ Observe(p)
        /\ hist' = [sure |-> hist.sure /\ p = profile /\ p = current, moved |-> FALSE]
     \/ /\ Trouble
        /\ hist' = [sure |-> hist.sure /\ p = profile, moved |-> hist.moved \/ p # profile]
        /\ UNCHANGED <<current, job>>
  /\ UNCHANGED <<file, rules, error, call, late>>

(* SetPowerLimits: some of the limits in the order the window lists them.  *)
(* One whose snapshot is no longer what it was changes nothing.            *)
SetPowerLimits(val) ==
  /\ Idle
  /\ Command
  /\ LET chosen == {w \in Writes : w.item \in Firmware /\ val[w.item] = w.val}
     IN /\ chosen # {}
        /\ job' = {[kind |-> "batch", todo |-> chosen, clean |-> TRUE]}
  /\ UNCHANGED <<profile, hw, file, tracker, call, late, hist>>

(* SetCpuEpp, SetCpuBoost, SetCpuCurveOptimizer, SetNvidiaTuning.          *)
SetTuning(w) ==
  /\ Idle
  /\ Command
  /\ w.item \notin Firmware
  /\ job' = {[kind |-> "single", todo |-> {w}, clean |-> TRUE]}
  /\ UNCHANGED <<profile, hw, file, tracker, call, late, hist>>

(* SetProfileLimitsAutoApply: nothing is written when it is switched on.   *)
SetAutoApply(enabled) ==
  /\ Idle
  /\ current # None /\ ~error
  /\ \/ /\ Command
        /\ rules' = [rules EXCEPT ![current].auto = enabled]
        /\ file' = {rules'}
     \/ Trouble /\ UNCHANGED <<file, rules>>
  /\ hist' = Unsure
  /\ UNCHANGED <<profile, hw, error, current, job, call, late>>

The == CHOOSE j \in job : TRUE
Waits == CHOOSE c \in call : TRUE

(* The item whose turn it is, and the job without it.                      *)
Place(i) == CHOOSE k \in DOMAIN Order : Order[k] = i
Due == CHOOSE w \in The.todo : \A other \in The.todo : Place(w.item) <= Place(other.item)
Left ==
  IF The.todo = {Due} THEN {} ELSE {[j EXCEPT !.todo = @ \ {Due}] : j \in job}

(* write_power_limit and the set calls: the snapshot or the status is read *)
(* before the write is sent.                                               *)
Send ==
  /\ ~Idle /\ call = {}
  /\ call' = {[item |-> Due.item, val |-> Due.val, state |-> "sent"]}
  /\ UNCHANGED <<profile, hw, file, tracker, job, late, used, hist>>

(* That read fails, or the value is out of the range it shows.             *)
Refused ==
  /\ ~Idle /\ call = {}
  /\ Trouble
  /\ job' = {}
  /\ hist' = Unsure
  /\ UNCHANGED <<profile, hw, file, tracker, call, late>>

(* replay_nvidia: a GPU that is not there is skipped quietly.              *)
SkipNvidia ==
  /\ ~Idle /\ call = {}
  /\ The.kind = "replay" /\ Due.item \in Gpu
  /\ Trouble
  /\ job' = {}
  /\ hist' = Unsure
  /\ UNCHANGED <<profile, hw, file, tracker, call, late>>

(* Mutant: a setting is recorded in memory only.                           *)
AckMemoryOnly ==
  /\ call # {} /\ Waits.state = "done"
  /\ call' = {}
  /\ job' = Left
  /\ IF The.kind # "replay" /\ Records(Waits)
     THEN rules' = [rules EXCEPT ![current].val[Waits.item] = Waits.val] /\ UNCHANGED file
     ELSE UNCHANGED <<file, rules>>
  /\ UNCHANGED <<profile, hw, error, current, late, used, hist>>

(* The answer confirms the value. What the user set is recorded.           *)
Ack ==
  /\ call # {} /\ Waits.state = "done"
  /\ call' = {}
  /\ job' = Left
  /\ LET mine == The.kind # "replay"
         next == [rules EXCEPT ![current].val[Waits.item] = Waits.val]
     IN /\ IF mine /\ Records(Waits) THEN Save(next) ELSE UNCHANGED <<file, rules, used>>
        /\ hist' = [hist EXCEPT !.sure = IF mine THEN @ /\ used' = used
                                        ELSE Left = {} /\ The.clean]
  /\ UNCHANGED <<profile, hw, error, current, late>>

(* Mutant: the next write of the job follows a failed one.                 *)
NackGoingOn ==
  /\ call # {} /\ Waits.state = "failed"
  /\ call' = {}
  /\ job' = Left
  /\ hist' = Unsure
  /\ UNCHANGED <<profile, hw, file, tracker, late, used>>

(* An error: the rest of the job is not written.                           *)
Nack ==
  /\ call # {} /\ Waits.state = "failed"
  /\ call' = {} /\ job' = {}
  /\ hist' = Unsure
  /\ UNCHANGED <<profile, hw, file, tracker, late, used>>

(* A password prompt has no deadline; a replay never prompts.              *)
Prompts == call # {} /\ The.kind = "single" /\ Waits.item \in Interactive

GiveUp ==
  /\ call # {} /\ ~Prompts
  /\ Trouble
  /\ call' = {} /\ job' = {}
  /\ late' = late \cup {[item |-> c.item, val |-> c.val] : c \in {x \in call : x.state = "sent"}}
  /\ hist' = Unsure
  /\ UNCHANGED <<profile, hw, file, tracker>>

(* The process is killed and started again.                                *)
Kill ==
  /\ Trouble
  /\ call' = {} /\ job' = {}
  /\ late' = late \cup {[item |-> c.item, val |-> c.val] : c \in {x \in call : x.state = "sent"}}
  /\ Load(file)
  /\ hist' = Unsure
  /\ UNCHANGED <<profile, hw, file>>

-----------------------------------------------------------------------------
(* hardwared, the kernel and the firmware.                                 *)

(* handle_set_power_limit: authorize, validate, write, read back.          *)
Perform ==
  /\ call # {} /\ Waits.state = "sent"
  /\ hw' = [hw EXCEPT ![Waits.item] = Waits.val]
  /\ call' = {[c EXCEPT !.state = "done"] : c \in call}
  /\ UNCHANGED <<profile, file, tracker, job, late, used, hist>>

(* Denied, not writable, or another value read back.                       *)
PerformFails ==
  /\ call # {} /\ Waits.state = "sent"
  /\ Trouble
  /\ \/ hw' = [hw EXCEPT ![Waits.item] = Waits.val]
     \/ UNCHANGED hw
  /\ call' = {[c EXCEPT !.state = "failed"] : c \in call}
  /\ UNCHANGED <<profile, file, tracker, job, late, hist>>

Land(w) ==
  /\ late' = late \ {w}
  /\ hw' = [hw EXCEPT ![w.item] = w.val]
  /\ job' = Disturbed
  /\ hist' = Unsure
  /\ UNCHANGED <<profile, file, tracker, call, used>>

Lose(w) ==
  /\ late' = late \ {w}
  /\ UNCHANGED <<profile, hw, file, tracker, job, call, used, hist>>

(* Fn+F5, power-profiles-daemon or a desktop applet switches the profile.  *)
Switch(p) ==
  /\ p # profile
  /\ used.switches < MaxSwitches
  /\ used' = [used EXCEPT !.switches = @ + 1]
  /\ Switched(p)
  /\ job' = Disturbed
  /\ hist' = [sure |-> FALSE, moved |-> TRUE]
  /\ UNCHANGED <<file, tracker, call, late>>

-----------------------------------------------------------------------------
Commands ==
  \/ \E p \in Profiles : SetPerformance(p)
  \/ \E val \in [Firmware -> Values \cup {None}] : SetPowerLimits(val)
  \/ \E w \in Writes : SetTuning(w)
  \/ \E enabled \in BOOLEAN : SetAutoApply(enabled)

Worker == Poll \/ Send \/ Ack \/ Nack

Next ==
  \/ Commands
  \/ Worker
  \/ Refused \/ SkipNvidia \/ GiveUp \/ Kill
  \/ Perform \/ PerformFails
  \/ \E w \in late : Land(w) \/ Lose(w)
  \/ \E p \in Profiles : Switch(p)

(* The worker's loop runs, and a call it waits for is performed in the end *)
(* unless it waits for a person.                                           *)
Fairness == WF_vars(Worker) /\ WF_vars(Perform /\ ~Prompts)

Spec == Init /\ [][Next]_vars
FairSpec == Spec /\ Fairness

-----------------------------------------------------------------------------
(* The tracker's memory is what its file holds, whatever saves failed and  *)
(* whenever the process was killed; with an unreadable file it remembers   *)
(* nothing and never overwrites it (ProfileLimitRules::save, from_load).   *)
LimitsMatchFile ==
  IF error THEN file = Unreadable /\ rules = Nothing ELSE file = {rules}

(* What the user sets is recorded for the profile in force unless that was *)
(* changed elsewhere since the worker last looked: the tracked profile is  *)
(* then the one in force (observe_profile_limits after SetPerformance).    *)
TrackedIsInForce == current # None /\ ~hist.moved => current = profile

(* After a replay that wrote everything, and settings of the user since    *)
(* that all went well, what is remembered for the profile is in force: a   *)
(* replay never mixes two profiles, leaves out an item or records a value  *)
(* the hardware does not have.                                             *)
RememberedInForce ==
  Idle /\ hist.sure /\ rules[current].auto =>
    \A i \in Items : rules[current].val[i] \in {None, hw[i]}

(* Every switch made elsewhere is noticed, and what it leads to comes to an *)
(* end, unless the worker waits for a person at a password prompt.         *)
SwitchFollowed == []<>(Prompts \/ (Idle /\ current = profile))
=============================================================================
