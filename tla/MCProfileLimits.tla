-------------------------- MODULE MCProfileLimits --------------------------
(* TLC instances of ProfileLimits: two limits, one CPU item and one GPU    *)
(* item, of which the CPU and GPU ones ask for a password. The same run    *)
(* checks GpuQueue and AttributeWrites, hardwared's other writers: the     *)
(* components share no state, so each part is explored while the others    *)
(* stay in an initial state.                                               *)
EXTENDS ProfileLimits

TwoLimits == <<"spl", "fppt">>
OneCpu == <<"curve">>
OneGpu == <<"core">>

(* Nothing remembered, one profile remembered and switched on, a bad file. *)
Remembered ==
  [Nothing EXCEPT !["turbo"] = [auto |-> TRUE,
     val |-> [i \in Items |-> IF i = "curve" THEN None ELSE "high"]]]
Files == {{Nothing}, {Remembered}, Unreadable}

-----------------------------------------------------------------------------
CONSTANTS Callers, MaxCalls, MaxFaults, MaxBoots, Cpus
VARIABLES part, inForce, queued, calls, answer, warned, spent, asked, half, crossed,
          setting, value, online, owner, refused, tasks, tally, book

Queue == INSTANCE GpuQueue WITH current <- inForce, call <- calls, used <- spent
queueState == <<inForce, queued, calls, answer, warned, spent, asked, half, crossed>>

Attributes == INSTANCE AttributeWrites WITH call <- tasks
attributeState == <<setting, value, online, owner, refused, tasks, tally, book>>

(* A machine has a CPU, and CPUs have numbers.                             *)
ASSUME CpusAssumption == Cpus \subseteq Nat /\ Cpus # {}

(* A setting starts with any value: these are interchangeable.             *)
PartInit ==
  /\ part \in {"limits", "gpu", "settings"}
  /\ Init /\ Queue!Init /\ Attributes!Init
  /\ part # "limits" => profile = "turbo" /\ file = {Nothing}
  /\ part # "gpu" => inForce = Queue!Target["Hybrid"]
  /\ part # "settings" => setting = "epp"
  /\ value = [f \in Cpus |-> "low"]

PartNext ==
  \/ part = "limits" /\ Next /\ UNCHANGED <<part, queueState, attributeState>>
  \/ part = "gpu" /\ Queue!Next /\ UNCHANGED <<part, vars, attributeState>>
  \/ part = "settings" /\ Attributes!Next /\ UNCHANGED <<part, vars, queueState>>

PartFairness ==
  /\ WF_vars(part = "limits" /\ Worker)
  /\ WF_vars(part = "limits" /\ ~Prompts /\ Perform)

PartSpec == PartInit /\ [][PartNext]_<<part, vars, queueState, attributeState>> /\ PartFairness

-----------------------------------------------------------------------------
(* Every switch made elsewhere is noticed, and what it leads to ends.      *)
LimitsFollowed == part = "limits" => SwitchFollowed

(* A caller told that its GPU mode is active or queued: the next boot does *)
(* bring it, whatever earlier calls left queued.                           *)
ConfirmedIsNext == Queue!ConfirmedIsNext

(* A caller of hardwared knows what its call led to: a queued mix of two   *)
(* GPU requests, or half of one, is never silent; nor are two writes that  *)
(* cross on a setting's attributes; and what the firmware has refused is   *)
(* not offered again.                                                      *)
CallersKnow ==
  Queue!MixIsReported /\ Attributes!CrossingIsTold /\ Attributes!RefusalRemembered
=============================================================================
