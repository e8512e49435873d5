------------------------------ MODULE Capabilities ------------------------------
(***************************************************************************)
(* The capability registry: how the worker finds out which of its writers  *)
(* work (refresh_capability_registry, composition.rs, probes.rs, the       *)
(* mutation status methods of hardwared) and how the main window opens and *)
(* closes the controls by it (update_capabilities_at, controller.rs).      *)
(*                                                                         *)
(* A refresh asks one question after the other while daemons come and go.  *)
(* Its answers make one snapshot, which replaces the registry and is sent  *)
(* to the window with the next generation number. Of an answer only        *)
(* Supported or not is kept: all other statuses close the control alike.   *)
(***************************************************************************)
EXTENDS Integers, Sequences

CONSTANTS MaxEvents,   \* a refresh begins while fewer are still to be handled
          MaxMishaps   \* daemons that stop or start, and questions not answered in
                       \* time or answered with nonsense, together

Features == {"performance", "charge", "fan", "limits"}

VARIABLES world,      \* which daemons run, and what hardwared saw when it started
          delegated,  \* power-profiles-daemon was there when the application started
          refresh,    \* the number of the question to ask next, 0: none; what was proven so far
          ahead,      \* generation of the registry, counted from the one the window knows
          events,     \* WorkerEvents not yet handled
          window,     \* the controls that are open, and the reset of the fan curves
          mishaps,    \* so far
          steady      \* history: no change and no trouble since the last refresh began

capabilityVars ==
  <<world, delegated, refresh, ahead, events, window, mishaps, steady>>

(* The questions of one refresh in the order they are asked: the four      *)
(* mutation statuses, then a read of each part. The reads of the GPU can   *)
(* do no more than end the refresh, as any read can, and are not counted;  *)
(* those of the limits come last, cannot even do that, and do not bear on  *)
(* their control.                                                          *)
Questions ==
  <<"set fan", "set charge", "set performance", "set limits",
    "get performance", "get charge", "get cpu curve", "get gpu curve">>

Question == {Questions[i] : i \in DOMAIN Questions}

Events == [kind : {"registry"}, ahead : Nat, open : SUBSET Features]
          \cup [kind : {"registry failed", "charge failed"}]

CapabilitiesTypeOK ==
  /\ world \in [hardwared : BOOLEAN, conflict : BOOLEAN, battery : BOOLEAN, ppd : BOOLEAN,
                asusd : BOOLEAN, armoury : BOOLEAN, sessiond : BOOLEAN]
  /\ delegated \in BOOLEAN
  /\ refresh \in [next : 0 .. Len(Questions) + 1, proven : SUBSET Question]
  /\ ahead \in Nat
  /\ events \in Seq(Events)
  /\ window \in [open : SUBSET Features, reset : BOOLEAN]
  /\ mishaps \in 0 .. MaxMishaps
  /\ steady \in BOOLEAN

Idle == [next |-> 0, proven |-> {}]

(* production_initial has every control closed and knows generation 0; the *)
(* registry of build_production_runtime has generation 1. hardwared was    *)
(* started before or after power-profiles-daemon and asusd.                *)
Init ==
  /\ \E conflict, battery, ppd \in BOOLEAN :
       /\ world = [hardwared |-> TRUE, conflict |-> conflict, battery |-> battery, ppd |-> ppd,
                   asusd |-> TRUE, armoury |-> TRUE, sessiond |-> TRUE]
       /\ delegated = ppd
  /\ refresh = Idle
  /\ ahead = 1
  /\ events = <<>>
  /\ window = [open |-> {}, reset |-> FALSE]
  /\ mishaps = 0
  /\ steady = FALSE

-----------------------------------------------------------------------------
(* The daemons                                                             *)

Mishap ==
  /\ mishaps < MaxMishaps
  /\ mishaps' = mishaps + 1
  /\ steady' = FALSE

(* Daemons come and go. Two things hardwared asks only when it starts:     *)
(* whether power-profiles-daemon owns the profile                          *)
(* (platform_profile_owner_state), where a question that fails is taken    *)
(* for a conflict as well, and whether asusd is there and the threshold    *)
(* can be read (build_battery_backend), where one that fails, as one       *)
(* answered no, leaves it without a battery backend while it runs.         *)
Change ==
  /\ Mishap
  /\ \/ \E part \in {"ppd", "asusd", "armoury", "sessiond"} :
          world' = [world EXCEPT ![part] = ~@]
     \/ /\ world.hardwared
        /\ world' = [world EXCEPT !.hardwared = FALSE, !.conflict = FALSE, !.battery = FALSE]
     \/ /\ ~world.hardwared
        /\ \E conflict \in {world.ppd, TRUE}, battery \in {world.asusd, FALSE} :
             world' = [world EXCEPT !.hardwared = TRUE, !.conflict = conflict,
                                    !.battery = battery]
  /\ UNCHANGED <<delegated, refresh, ahead, events, window>>

(* PerformanceMutationStatus of hardwared, where a conflict found at its   *)
(* start stays one, and the setter, which refuses by the same flag.        *)
Hardware1Performance == world.hardwared /\ ~world.conflict

(* requery_mutation_statuses: the daemon it delegates to, when alive.      *)
PerformanceEvidence == (delegated /\ world.ppd) \/ Hardware1Performance

(* BatteryMutationStatus, where only a backend found at its start is asked *)
(* for again, and the setter: without one, asusd may come back as it will, *)
(* DisabledBatteryMutationBackend refuses.                                 *)
Hardware1Battery == world.hardwared /\ world.battery /\ world.asusd

(* hardwared asks asusd again for the fans, and the kernel for the limits; *)
(* sessiond takes the curves from asusd.                                   *)
Proves(question) ==
  CASE question = "set performance" -> PerformanceEvidence
    [] question = "set charge" -> Hardware1Battery
    [] question = "set fan" -> world.hardwared /\ world.asusd
    [] question = "set limits" -> world.hardwared /\ world.armoury
    [] question \in {"get performance", "get charge"} -> world.sessiond
    [] question \in {"get cpu curve", "get gpu curve"} -> world.sessiond /\ world.asusd

-----------------------------------------------------------------------------
(* A refresh                                                               *)

(* Mutant: the evidence of the last refresh stays.                         *)
BeginKeepingEvidence ==
  /\ refresh' = [refresh EXCEPT !.next = 1]
  /\ steady' = TRUE

Begin ==
  /\ refresh' = [next |-> 1, proven |-> {}]
  /\ steady' = TRUE

(* At the start, after a resume (watch_resume_lifecycle) and every         *)
(* thirtieth tick.                                                         *)
BeginRefresh ==
  /\ refresh.next = 0 /\ Len(events) < MaxEvents
  /\ Begin
  /\ UNCHANGED <<world, delegated, ahead, events, window, mishaps>>

Asking == refresh.next \in DOMAIN Questions

(* One question. No answer in time is Unknown, or TemporarilyUnavailable   *)
(* from a probe: not proven.                                               *)
Ask ==
  /\ Asking
  /\ LET question == Questions[refresh.next]
     IN \/ /\ refresh' = [next |-> refresh.next + 1,
                          proven |-> refresh.proven
                                     \cup (IF Proves(question) THEN {question} ELSE {})]
           /\ UNCHANGED <<mishaps, steady>>
        \/ /\ refresh' = [refresh EXCEPT !.next = @ + 1]
           /\ Mishap
  /\ UNCHANGED <<world, delegated, ahead, events, window>>

Probing == Asking /\ refresh.next > 4

(* An answer to a read that makes no sense ends the refresh: the registry  *)
(* and the open controls stay, only the reset of the fans is closed.       *)
Abort ==
  /\ Probing
  /\ Mishap
  /\ refresh' = [refresh EXCEPT !.next = 0]
  /\ events' = Append(events, [kind |-> "registry failed"])
  /\ UNCHANGED <<world, delegated, ahead, window>>

(* What a control needs proven: its writer, and for all but the limits its *)
(* read, which for the fans is that of both curves                         *)
(* (write_from_read_failure, aggregate_fan_curve_capability).              *)
Needs(feature) ==
  CASE feature = "performance" -> {"set performance", "get performance"}
    [] feature = "charge" -> {"set charge", "get charge"}
    [] feature = "fan" -> {"set fan", "get cpu curve", "get gpu curve"}
    [] feature = "limits" -> {"set limits"}

Opened(proven) == {feature \in Features : Needs(feature) \subseteq proven}

(* Mutant: the new snapshot keeps the generation of the old one.           *)
PublishSameGeneration ==
  /\ ahead' = ahead
  /\ events' = Append(events, [kind |-> "registry", ahead |-> ahead,
                               open |-> Opened(refresh.proven)])

(* replace_capabilities and RegistryChange.                                *)
Publish ==
  /\ ahead' = ahead + 1
  /\ events' = Append(events, [kind |-> "registry", ahead |-> ahead + 1,
                               open |-> Opened(refresh.proven)])

Complete ==
  /\ refresh.next > Len(Questions)
  /\ Publish
  /\ refresh' = [refresh EXCEPT !.next = 0]
  /\ UNCHANGED <<world, delegated, window, mishaps, steady>>

(* RefreshChargeLimit, at the start and after a limit that could not be    *)
(* set, also says whether it can be set: not when the read fails, or comes *)
(* without the limit in effect. A good read opens nothing.                 *)
ReadChargeFails ==
  /\ refresh.next = 0 /\ events = <<>>
  /\ events' = <<[kind |-> "charge failed"]>>
  /\ IF world.sessiond THEN Mishap ELSE UNCHANGED <<mishaps, steady>>
  /\ UNCHANGED <<world, delegated, refresh, ahead, window>>

-----------------------------------------------------------------------------
(* The window                                                              *)

Since(event, seen) ==
  IF event.kind = "registry" THEN [event EXCEPT !.ahead = @ - seen] ELSE event

(* update_capabilities_at: only a newer generation counts, and the window  *)
(* then knows that one. The reset is taken from the snapshot as it comes.  *)
ShowRegistry(event) ==
  /\ event.kind = "registry"
  /\ IF event.ahead > 0
     THEN /\ window' = [open |-> event.open, reset |-> "fan" \in event.open]
          /\ ahead' = ahead - event.ahead
          /\ events' = [i \in 1 .. Len(events) - 1 |-> Since(events[i + 1], event.ahead)]
     ELSE /\ window' = [window EXCEPT !.reset = "fan" \in event.open]
          /\ events' = Tail(events)
          /\ UNCHANGED ahead

ShowOther(event) ==
  /\ event.kind # "registry"
  /\ window' = CASE event.kind = "registry failed" -> [window EXCEPT !.reset = FALSE]
                 [] event.kind = "charge failed" -> [window EXCEPT !.open = @ \ {"charge"}]
  /\ events' = Tail(events)
  /\ UNCHANGED ahead

Show ==
  /\ events # <<>>
  /\ ShowRegistry(Head(events)) \/ ShowOther(Head(events))
  /\ UNCHANGED <<world, delegated, refresh, mishaps, steady>>

-----------------------------------------------------------------------------
Worker == BeginRefresh \/ Ask \/ Complete

Next == Change \/ Worker \/ Abort \/ ReadChargeFails \/ Show

(* Every question has a deadline and the timer keeps running, so the       *)
(* worker goes on; the window handles its events. Only the read of the     *)
(* limits at the end (augment_power_limit_capabilities) has no deadline:   *)
(* that sessiond answers it, or is gone, is assumed.                       *)
Fairness == WF_capabilityVars(Worker) /\ WF_capabilityVars(Show)

Spec == Init /\ [][Next]_capabilityVars /\ Fairness

-----------------------------------------------------------------------------
(* Properties                                                              *)

(* The write of a feature works now. The profile is written through        *)
(* power-profiles-daemon whenever the application started with it          *)
(* (DelegatedPerformanceProvider), whoever answered for its status.        *)
Works(feature) ==
  CASE feature = "performance" -> IF delegated THEN world.ppd ELSE Hardware1Performance
    [] feature = "charge" -> Hardware1Battery
    [] feature = "fan" -> world.hardwared /\ world.asusd
    [] feature = "limits" -> world.hardwared /\ world.armoury

Readable(feature) ==
  CASE feature \in {"performance", "charge"} -> world.sessiond
    [] feature = "fan" -> world.sessiond /\ world.asusd
    [] feature = "limits" -> TRUE

(* The daemon the profile is delegated to has gone: its control goes by    *)
(* hardwared then, while its writes still go to that daemon.               *)
Orphaned == delegated /\ ~world.ppd

Followed ==
  \A feature \in Features :
    \/ feature = "performance" /\ Orphaned
    \/ feature \in window.open <=> Works(feature) /\ Readable(feature)

(* With no refresh under way, nothing to show and nothing changed or gone  *)
(* wrong since the last refresh began, a control is open just when its     *)
(* writer works and its value can be read, however the answers of that     *)
(* refresh and of the ones before were cut short or came late; and the     *)
(* fans are never offered a reset while their control is closed.           *)
GatesAreTrue ==
  /\ refresh.next = 0 /\ events = <<>> /\ steady => Followed
  /\ window.reset => "fan" \in window.open

(* After the last change and the last trouble the controls come to say     *)
(* what works, and go on saying it.                                        *)
GatesFollow == <>[](Followed /\ (window.reset <=> "fan" \in window.open))
=============================================================================
