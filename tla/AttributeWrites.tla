---------------------------- MODULE AttributeWrites ----------------------------
(***************************************************************************)
(* The settings hardwared changes through attributes of the kernel, or     *)
(* asusd and drivers in front of them: each is written, then read back,    *)
(* and the caller told. The energy preference has a file for every CPU,    *)
(* the Curve Optimizer nothing that could be read back. Two settings share *)
(* no state: a behaviour is about one of them                (setting).    *)
(*                                                                         *)
(*   kernel: the value of each file, the CPUs online      (value, online)  *)
(*   hardwared: a task for each call on a pool of threads, nothing locked; *)
(*       who owned the platform profile when it started, and whether the   *)
(*       SMU has refused since                      (call, owner, refused) *)
(***************************************************************************)
EXTENDS Integers, FiniteSets

CONSTANTS Callers,     \* the calls there may be at a time
          Cpus,        \* numbers; the first is the file of the other settings
          Values,
          MaxCalls,
          MaxTroubles  \* failures, restarts and changes made elsewhere, together

Settings == {"profile", "epp", "boost", "aspm", "boot_sound", "apu_memory", "panel",
             "limit", "nvidia", "curve"}
Owners == {"free", "taken", "unknown"}

VARIABLES setting,
          value,     \* of each file
          online,    \* the CPUs that have cpufreq files
          owner,     \* of the platform profile, as found at the start
          refused,   \* SMU_REFUSED
          call,      \* [pc, want] for each caller, files and left while writing
          tally,     \* calls and troubles so far
          book       \* history, see Books

hardware == <<setting, value, online>>
attributeVars == <<hardware, owner, refused, call, tally, book>>

Least(S) == CHOOSE i \in S : \A j \in S : i <= j
Files == IF setting = "epp" THEN online ELSE {Least(Cpus)}
Agreed == {v \in Values : \A f \in Files : value[f] = v}

(* probing, late: a status asked for after a caller knew of the refusal.   *)
Free == [pc |-> "free"]
Calls ==
  {Free} \cup [pc : {"authorizing", "validating", "running"}, want : Values]
         \cup [pc : {"writing", "checking"}, want : Values,
               files : SUBSET Cpus, left : SUBSET Cpus]
         \cup [pc : {"noting", "telling"}, want : Values, end : {"refused", "done", "failed"}]
         \cup [pc : {"probing"}, late : BOOLEAN]
Underway == {c \in Callers : call[c].pc \notin {"free", "probing"}}

(* fair: the values the setting may have when no call is under way, had    *)
(* every call been carried out at once or not at all. blurred: a caller    *)
(* was told that this is uncertain, or something else changed the setting. *)
(* learned: a caller knows that the firmware has no Curve Optimizer.       *)
Books == [fair : SUBSET Values, blurred : BOOLEAN, learned : BOOLEAN]

AttributesTypeOK ==
  /\ setting \in Settings /\ value \in [Cpus -> Values] /\ online \in SUBSET Cpus
  /\ owner \in Owners /\ refused \in BOOLEAN
  /\ call \in [Callers -> Calls]
  /\ tally \in [calls : 0 .. MaxCalls, troubles : 0 .. MaxTroubles]
  /\ book \in Books

Init ==
  /\ setting \in Settings
  /\ \E v \in Values : value = [f \in Cpus |-> v]
  /\ online = Cpus
  /\ owner \in IF setting = "profile" THEN Owners ELSE {"free"}
  /\ refused = FALSE
  /\ call = [c \in Callers |-> Free]
  /\ tally = [calls |-> 0, troubles |-> 0]
  /\ book = [fair |-> Agreed, blurred |-> FALSE, learned |-> FALSE]

-----------------------------------------------------------------------------
Trouble ==
  /\ tally.troubles < MaxTroubles
  /\ tally' = [tally EXCEPT !.troubles = @ + 1]
Goes(c, to) == call' = [call EXCEPT ![c] = to]
Set(f, v) == value' = [value EXCEPT ![f] = v]
Blurred == book' = [book EXCEPT !.blurred = TRUE]

(* A call ends with an error: nothing has been written, or the caller      *)
(* knows that the setting may be anything.                                 *)
Refuses(c) == Goes(c, Free) /\ UNCHANGED book
Fails(c) == Goes(c, Free) /\ Blurred

(* A call of Hardware1.                                                    *)
Begins(c, v, s) ==
  /\ setting = s
  /\ call[c] = Free
  /\ tally.calls < MaxCalls
  /\ tally' = [tally EXCEPT !.calls = @ + 1]
  /\ Goes(c, [pc |-> "authorizing", want |-> v])
  /\ book' = IF Underway # {} THEN book ELSE [book EXCEPT !.fair = Agreed, !.blurred = FALSE]
  /\ UNCHANGED <<hardware, owner, refused>>

SetPerformanceProfile(c, v) == Begins(c, v, "profile")
SetCpuEpp(c, v) == Begins(c, v, "epp")
SetCpuBoost(c, v) == Begins(c, v, "boost")
SetAspmDisabled(c, v) == Begins(c, v, "aspm")
SetBootSound(c, v) == Begins(c, v, "boot_sound")
SetApuMemory(c, v) == Begins(c, v, "apu_memory")
SetPanelOverdrive(c, v) == Begins(c, v, "panel")
SetPowerLimit(c, v) == Begins(c, v, "limit")
SetNvidiaTuning(c, v) == Begins(c, v, "nvidia")
SetCurveOptimizer(c, v) == Begins(c, v, "curve")

Call(c, v) ==
  \/ SetPerformanceProfile(c, v) \/ SetCpuEpp(c, v) \/ SetCpuBoost(c, v)
  \/ SetAspmDisabled(c, v) \/ SetBootSound(c, v) \/ SetApuMemory(c, v)
  \/ SetPanelOverdrive(c, v) \/ SetPowerLimit(c, v) \/ SetNvidiaTuning(c, v)
  \/ SetCurveOptimizer(c, v)

(* Granted, or denied.                                                     *)
Authorize(c) ==
  /\ call[c].pc = "authorizing"
  /\ \/ Goes(c, [call[c] EXCEPT !.pc = IF setting = "curve" THEN "running" ELSE "validating"])
     \/ Goes(c, Free)
  /\ UNCHANGED <<hardware, owner, refused, tally, book>>

-----------------------------------------------------------------------------
(* What is read before the first write. Nothing is written when it cannot  *)
(* be read or forbids the value.                                           *)

Validates(c, s) ==
  /\ setting = s /\ call[c].pc = "validating"
  /\ \/ /\ Files # {} /\ (s = "profile" => owner = "free")
        /\ Goes(c, [pc |-> "writing", want |-> call[c].want, files |-> Files, left |-> Files])
     \/ Goes(c, Free)
  /\ UNCHANGED <<hardware, owner, refused, tally, book>>

(* The CPUs that have a file now.                                          *)
EppPaths(c) == Validates(c, "epp")

(* Nobody else owned the profile when hardwared started, and the kernel    *)
(* lists the one asked for.                                                *)
ProfileChoices(c) == Validates(c, "profile")

(* The limit has bounds, which its ABI publishes or a table gives.         *)
LimitBounds(c) == Validates(c, "limit")

NvidiaBounds(c) == Validates(c, "nvidia")
ApuMemoryRange(c) == Validates(c, "apu_memory")

(* The switches have nothing to be validated.                              *)
Unvalidated(c) == \E s \in {"boost", "aspm", "boot_sound", "panel"} : Validates(c, s)

Validate(c) ==
  \/ EppPaths(c) \/ ProfileChoices(c) \/ LimitBounds(c) \/ NvidiaBounds(c)
  \/ ApuMemoryRange(c) \/ Unvalidated(c)

-----------------------------------------------------------------------------
(* Mutant: only the file written last is read back.                        *)
WroteLast(c) ==
  LET left == call[c].left \ {Least(call[c].left)}
  IN IF left = {} THEN [call[c] EXCEPT !.pc = "checking"] ELSE [call[c] EXCEPT !.left = left]

(* One file has been written; after the last one all are read back.        *)
Wrote(c) ==
  LET left == call[c].left \ {Least(call[c].left)}
  IN IF left = {} THEN [call[c] EXCEPT !.pc = "checking", !.left = call[c].files]
     ELSE [call[c] EXCEPT !.left = left]

(* One file is written. The kernel may take a value and not keep it; a     *)
(* write that fails ends the call, with the files before it written.       *)
(* asusd, which sets the panel, or NVIDIA's driver may have done so all    *)
(* the same.                                                               *)
Write(c) ==
  /\ call[c].pc = "writing"
  /\ LET f == Least(call[c].left)
         begun == call[c].left # call[c].files
     IN \/ /\ f \in Files
           /\ Set(f, call[c].want) /\ UNCHANGED tally
           /\ Goes(c, Wrote(c)) /\ UNCHANGED book
        \/ /\ f \in Files
           /\ Trouble /\ UNCHANGED value
           /\ Goes(c, Wrote(c)) /\ UNCHANGED book
        \/ /\ IF f \in Files THEN Trouble ELSE UNCHANGED tally
           /\ UNCHANGED value
           /\ IF begun THEN Fails(c) ELSE Refuses(c)
        \/ /\ setting \in {"panel", "nvidia"}
           /\ Trouble /\ Set(f, call[c].want)
           /\ Fails(c)
  /\ UNCHANGED <<setting, online, owner, refused>>

(* One file is read back; all as asked for, the caller is told so.         *)
Check(c) ==
  /\ call[c].pc = "checking"
  /\ LET f == Least(call[c].left)
         left == call[c].left \ {f}
         kept == f \in Files /\ value[f] = call[c].want
     IN \/ /\ kept /\ left # {}
           /\ Goes(c, [call[c] EXCEPT !.left = left]) /\ UNCHANGED <<tally, book>>
        \/ /\ kept /\ left = {}
           /\ Goes(c, Free) /\ UNCHANGED tally
           /\ book' = [book EXCEPT !.fair = @ \cup {call[c].want}]
        \/ /\ IF kept THEN Trouble ELSE UNCHANGED tally
           /\ Fails(c)
  /\ UNCHANGED <<hardware, owner, refused>>

-----------------------------------------------------------------------------
(* The Curve Optimizer: a tool talks to the SMU, which acknowledges or     *)
(* refuses; without the tool the result is the same as a refusal. One that *)
(* fails or takes too long may have set the offset.                        *)
Run(c) ==
  /\ call[c].pc = "running"
  /\ \E end \in {"done", "refused", "failed"} :
       /\ Goes(c, [pc |-> "noting", want |-> call[c].want, end |-> end])
       /\ IF end = "done" THEN UNCHANGED tally ELSE Trouble
       /\ \/ end # "refused" /\ Set(Least(Cpus), call[c].want)
          \/ end # "done" /\ UNCHANGED value
  /\ UNCHANGED <<setting, online, owner, refused, book>>

(* The thread of the call remembers a refusal before it answers.           *)
NoteResult(c) ==
  /\ call[c].pc = "noting"
  /\ refused' = (refused \/ call[c].end = "refused")
  /\ Goes(c, [call[c] EXCEPT !.pc = "telling"])
  /\ UNCHANGED <<hardware, owner, tally, book>>

Tell(c) ==
  /\ call[c].pc = "telling"
  /\ Goes(c, Free)
  /\ book' = [fair |-> book.fair \cup {v \in {call[c].want} : call[c].end = "done"},
              blurred |-> book.blurred \/ call[c].end = "failed",
              learned |-> book.learned \/ call[c].end = "refused"]
  /\ UNCHANGED <<hardware, owner, refused, tally>>

(* Whether the setting is offered: not after a refusal, else if the tool   *)
(* gets an answer, for which the caller waits.                             *)
CurveOptimizerStatus(c) ==
  /\ setting = "curve"
  /\ call[c] = Free
  /\ tally.calls < MaxCalls
  /\ tally' = [tally EXCEPT !.calls = @ + 1]
  /\ IF refused THEN UNCHANGED call ELSE Goes(c, [pc |-> "probing", late |-> book.learned])
  /\ UNCHANGED <<hardware, owner, refused, book>>
Probed(c) ==
  /\ call[c].pc = "probing"
  /\ Goes(c, Free)
  /\ UNCHANGED <<hardware, owner, refused, tally, book>>

-----------------------------------------------------------------------------
(* Outside hardwared.                                                      *)

(* A CPU goes, and comes back with any preference.                         *)
CpuGoes(f) ==
  /\ setting = "epp" /\ f \in online
  /\ Trouble
  /\ online' = online \ {f}
  /\ UNCHANGED <<setting, value, owner, refused, call, book>>
CpuComes(f, v) ==
  /\ f \notin online
  /\ online' = online \cup {f}
  /\ Set(f, v) /\ Blurred
  /\ UNCHANGED <<setting, owner, refused, call, tally>>

SetElsewhere(f, v) ==
  /\ f \in Files /\ value[f] # v
  /\ Trouble
  /\ Set(f, v) /\ Blurred
  /\ UNCHANGED <<setting, online, owner, refused, call>>

(* hardwared ends in the middle of its calls and is started again; what it *)
(* had asked the tool or asusd to do may still be done.                    *)
Restart ==
  /\ Trouble
  /\ call' = [c \in Callers |-> Free]
  /\ \/ UNCHANGED value
     \/ \E c \in Callers :
          /\ call[c].pc = "running" \/ (setting = "panel" /\ call[c].pc = "writing")
          /\ Set(Least(Cpus), call[c].want)
  /\ owner' \in IF setting = "profile" THEN Owners ELSE {"free"}
  /\ refused' = FALSE
  /\ book' = [book EXCEPT !.blurred = @ \/ Underway # {}, !.learned = FALSE]
  /\ UNCHANGED <<setting, online>>

Next ==
  \/ \E c \in Callers : \/ \E v \in Values : Call(c, v)
                        \/ Authorize(c) \/ Validate(c) \/ Write(c) \/ Check(c)
                        \/ Run(c) \/ NoteResult(c) \/ Tell(c)
                        \/ CurveOptimizerStatus(c) \/ Probed(c)
  \/ \E f \in Cpus, v \in Values : CpuGoes(f) \/ CpuComes(f, v) \/ SetElsewhere(f, v)
  \/ Restart

-----------------------------------------------------------------------------
(* With no call under way a setting has, in all its files, the value it    *)
(* had or one that a caller was told is applied, unless a caller was told  *)
(* otherwise or something else changed it. So two callers whose writes to  *)
(* the CPUs cross are not both told that theirs is applied: set_epp reads  *)
(* back every file after it wrote the last one.                            *)
CrossingIsTold ==
  Underway = {} /\ ~book.blurred /\ book.fair # {} => Agreed \cap book.fair # {}

(* Once a caller knows that the firmware has no Curve Optimizer, hardwared *)
(* offers it to no one who asks later: the refusal is noted before it is   *)
(* answered.                                                               *)
RefusalRemembered == \A c \in Callers : call[c].pc = "probing" => ~call[c].late
=============================================================================
