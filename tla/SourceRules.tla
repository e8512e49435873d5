----------------------------- MODULE SourceRules -----------------------------
(***************************************************************************)
(* Power-source rules and GPU Optimized (power_rules_runtime.rs and        *)
(* worker_runtime.rs), with the window that edits them (main.rs).          *)
(*                                                                         *)
(*   window: the rules as last shown (form, known, locked); an edit sends  *)
(*           the whole record; events of the worker come back (views)      *)
(*   worker: one command or snapshot at a time, then the writes it led to, *)
(*           each an await (queue, todo, up)                               *)
(*   tracker: the stored rules and the source last observed (rules, last)  *)
(*   telemetry task: a snapshot that may be old when it is looked at       *)
(*                                                                         *)
(* A setting is what OneShotWrite promises: a write lands, is refused, or  *)
(* has an unknown outcome and lands late or never. gpu is the mode of the  *)
(* next boot, one value here; GpuQueue has the two attributes behind it.   *)
(***************************************************************************)
EXTENDS Integers, Sequences

CONSTANTS Fields,       \* what a rule sets: "profile", "hz" (the panel rate)
          Values,       \* what a rule or the user may ask for
          ProductGpu,   \* whether the machine has the product GPU backend
          Stored,       \* the rules a first start may find on disk
          MaxCommands,  \* clicks and edits of the user
          MaxPlugs,     \* changes of the power source
          MaxTroubles   \* failures, foreign changes and deaths, together

Keep == "none"     \* the rule leaves this setting alone
PowerRule == [Fields -> Values \cup {Keep}]
PowerRules == [enabled : BOOLEAN, ac : PowerRule, battery : PowerRule, optimized : BOOLEAN]
NoRule == [f \in Fields |-> Keep]
DefaultRules == [enabled |-> FALSE, ac |-> NoRule, battery |-> NoRule, optimized |-> FALSE]
Sources == {"ac", "battery"}
Modes == {"Hybrid", "Integrated", "Ultimate"}

ASSUME FieldsAssumption == Fields \subseteq {"profile", "hz"}
ASSUME GpuAssumption == ProductGpu \in BOOLEAN
ASSUME StoredAssumption == Stored \subseteq PowerRules
ASSUME BoundsAssumption == {MaxCommands, MaxPlugs, MaxTroubles} \subseteq Nat

VARIABLES supply,   \* the power source
          poll,     \* the telemetry task: [pc, seen]
          setting,  \* the profile and the refresh rate in force
          gpu,      \* the GPU mode of the next boot
          late,     \* writes with an unknown outcome
          form, known, locked, views, queue,
          up, todo, rules, last, disk,
          used,     \* commands, plugs and troubles so far
          hist      \* history, see Histories

hardware == <<setting, gpu, late>>
window == <<form, known, locked, views>>
tracker == <<rules, last, disk>>
vars == <<supply, poll, setting, gpu, late, form, known, locked, views, queue,
          up, todo, rules, last, disk, used, hist>>

Commands ==
  [op : {"rules"}, new : PowerRules, edit : {"enabled", "ac", "battery", "optimized"},
   fresh : BOOLEAN]
    \cup [op : {"gpu"}, mode : Modes]
    \cup [op : {"write"}, f : Fields, v : Values]
    \cup [op : {"refresh"}]

(* What the worker still has to do for the command or snapshot it took.    *)
Tasks ==
  [op : {"write"}, f : Fields, v : Values, rule : BOOLEAN]
    \cup [op : {"status"}, ac : BOOLEAN, explicit : BOOLEAN]
    \cup [op : {"gpu"}, mode : Modes]

(* inForce: settings a rule wrote and nothing has disturbed since.         *)
(* wish: the GPU request of the user the worker took last. behind: a wish  *)
(* or a rule was sent while an earlier edit was not shown yet. raced: gpu  *)
(* changed between a status read and the write after it. drift: gpu was    *)
(* changed, or not changed, by something else than GPU Optimized.          *)
(* sources: what was observed since the start; edited: rules were stored.  *)
Histories ==
  [inForce : SUBSET Fields, wish : {"none", "optimized"} \cup Modes, behind : BOOLEAN,
   raced : BOOLEAN, drift : BOOLEAN, sources : SUBSET Sources, edited : BOOLEAN]

TypeOK ==
  /\ supply \in Sources
  /\ poll \in [pc : {"none", "asked", "ready"}, seen : Sources \cup {"unknown"}]
  /\ setting \in [Fields -> Values]
  /\ gpu \in Modes
  /\ late \subseteq Tasks
  /\ form \in PowerRules
  /\ {known, locked} \subseteq BOOLEAN
  /\ views \in Seq(PowerRules \cup {[op |-> "gpu"]})
  /\ queue \in Seq(Commands)
  /\ todo \in Seq(Tasks)
  /\ up \in BOOLEAN
  /\ {rules, disk} \subseteq PowerRules
  /\ last \in Sources \cup {"unknown"}
  /\ used \in [commands : 0 .. MaxCommands, plugs : 0 .. MaxPlugs, troubles : 0 .. MaxTroubles]
  /\ hist \in Histories

Started == [inForce |-> {}, wish |-> "none", behind |-> FALSE, raced |-> FALSE,
            drift |-> FALSE, sources |-> {}, edited |-> FALSE]

(* The process has started: rules loaded and sent to the window, nothing   *)
(* written.                                                                *)
Init ==
  /\ supply \in Sources
  /\ poll = [pc |-> "none", seen |-> "unknown"]
  /\ setting \in [Fields -> Values]
  /\ gpu \in IF ProductGpu THEN Modes ELSE {"Hybrid"}
  /\ late = {}
  /\ form = DefaultRules
  /\ known = FALSE
  /\ locked = FALSE
  /\ rules \in Stored
  /\ views = <<rules>>
  /\ queue = <<>>
  /\ up = TRUE
  /\ todo = <<>>
  /\ last = "unknown"
  /\ disk = rules
  /\ used = [commands |-> 0, plugs |-> 0, troubles |-> 0]
  /\ hist = Started

-----------------------------------------------------------------------------
(* Power source and telemetry                                              *)

Spend(what, bound) ==
  /\ used[what] < bound
  /\ used' = [used EXCEPT ![what] = @ + 1]

SupplyChanges ==
  /\ Spend("plugs", MaxPlugs)
  /\ supply' \in Sources \ {supply}
  /\ UNCHANGED <<poll, hardware, window, queue, up, todo, tracker, hist>>

Idle == up /\ todo = <<>>

(* The timer fires while the worker waits for something to do.             *)
Tick ==
  /\ Idle
  /\ poll.pc = "none"
  /\ poll' = [poll EXCEPT !.pc = "asked"]
  /\ UNCHANGED <<supply, hardware, window, queue, up, todo, tracker, used, hist>>

Sample ==
  /\ poll.pc = "asked"
  /\ poll' = [pc |-> "ready", seen |-> supply]
  /\ UNCHANGED <<supply, hardware, window, queue, up, todo, tracker, used, hist>>

(* The snapshot fails, or does not tell the source.                        *)
SampleFails ==
  /\ poll.pc = "asked"
  /\ poll' = [pc |-> "ready", seen |-> "unknown"]
  /\ UNCHANGED <<supply, hardware, window, queue, up, todo, tracker, used, hist>>

-----------------------------------------------------------------------------
(* PowerRulesTracker                                                       *)

RuleFor(r, source) == IF source = "ac" THEN r.ac ELSE r.battery

(* apply_power_rule: first the profile, then the refresh rate.             *)
RuleWrites(rule) ==
  LET write(f) == IF f \in Fields /\ rule[f] # Keep
                    THEN <<[op |-> "write", f |-> f, v |-> rule[f], rule |-> TRUE]>>
                    ELSE <<>>
  IN write("profile") \o write("hz")

(* applicable: an empty rule writes nothing.                               *)
Applicable(r, source) == IF r.enabled THEN RuleWrites(RuleFor(r, source)) ELSE <<>>

(* GPU Optimized at the source, or nothing (and nothing without a backend). *)
Reconcile(wanted, source, explicit) ==
  IF wanted /\ ProductGpu THEN <<[op |-> "status", ac |-> source = "ac", explicit |-> explicit]>>
            ELSE <<>>

(* Mutant: the first observation applies a rule.                           *)
ObserveFirst(seen) ==
  IF seen = "unknown" THEN UNCHANGED <<todo, last, hist>>
  ELSE /\ last' = seen
       /\ todo' = IF last = seen THEN <<>>
                  ELSE Applicable(rules, seen) \o Reconcile(rules.optimized, seen, FALSE)
       /\ hist' = [hist EXCEPT !.sources = @ \cup {seen}]

(* Mutant: the first observation does not reconcile the GPU either.        *)
ObserveChangesOnly(seen) ==
  IF seen = "unknown" THEN UNCHANGED <<todo, last, hist>>
  ELSE /\ last' = seen
       /\ todo' = IF last \in {"unknown", seen} THEN <<>>
                  ELSE Applicable(rules, seen) \o Reconcile(rules.optimized, seen, FALSE)
       /\ hist' = [hist EXCEPT !.sources = @ \cup {seen}]

(* observe, and what observe_power_source makes of it.                     *)
Observe(seen) ==
  IF seen = "unknown" THEN UNCHANGED <<todo, last, hist>>
  ELSE /\ last' = seen
       /\ todo' = (IF last \in {"unknown", seen} THEN <<>> ELSE Applicable(rules, seen))
                    \o Reconcile(rules.optimized /\ last # seen, seen, FALSE)
       /\ hist' = [hist EXCEPT !.sources = @ \cup {seen}]

(* Mutant: only enabling the rules applies one, not editing it.            *)
ToApplyWhenEnabled(old, new) ==
  IF last = "unknown" \/ old.enabled THEN <<>> ELSE Applicable(new, last)

(* set_rules: the current source's rule, when the rules were just enabled  *)
(* or it was edited.                                                       *)
ToApply(old, new) ==
  IF last = "unknown" \/ (old.enabled /\ RuleFor(old, last) = RuleFor(new, last))
    THEN <<>> ELSE Applicable(new, last)

-----------------------------------------------------------------------------
(* The worker                                                              *)

Takes(op) ==
  /\ Idle
  /\ queue # <<>>
  /\ Head(queue).op = op
  /\ queue' = Tail(queue)

(* Mutant: the view is sent before the rules are stored.                   *)
TakeRulesShowingOld ==
  /\ Takes("rules")
  /\ LET c == Head(queue) IN
       /\ rules' = c.new
       /\ disk' = c.new
       /\ views' = Append(views, rules)
       /\ todo' = (IF last = "unknown" THEN <<>>
                   ELSE Reconcile(c.new.optimized /\ ~rules.optimized, last, TRUE))
                    \o ToApply(rules, c.new)
       /\ hist' = [hist EXCEPT !.edited = TRUE,
             !.wish = IF c.edit = "optimized" /\ c.new.optimized THEN "optimized" ELSE @]
  /\ UNCHANGED <<supply, poll, hardware, form, known, locked, up, last, used>>

(* SetPowerRules: stored or not, the window is told; when stored, an       *)
(* explicit GPU request first, then the rule. The source is the one last   *)
(* observed.                                                               *)
TakeRules ==
  /\ Takes("rules")
  /\ LET c == Head(queue) IN
     \/ /\ rules' = c.new
        /\ disk' = c.new
        /\ views' = Append(views, c.new)
        /\ todo' = (IF last = "unknown" THEN <<>>
                    ELSE Reconcile(c.new.optimized /\ ~rules.optimized, last, TRUE))
                     \o ToApply(rules, c.new)
        /\ hist' = [hist EXCEPT !.edited = TRUE,
              !.wish = IF c.edit = "optimized" /\ c.new.optimized THEN "optimized" ELSE @]
        /\ UNCHANGED used
     \/ /\ Spend("troubles", MaxTroubles)
        /\ views' = Append(views, rules)
        /\ UNCHANGED <<rules, disk, todo, hist>>
  /\ UNCHANGED <<supply, poll, hardware, form, known, locked, up, last>>

(* SetProductGpuMode: a write without a look at the status.                *)
TakeGpu ==
  /\ Takes("gpu")
  /\ todo' = <<[op |-> "gpu", mode |-> Head(queue).mode]>>
  /\ hist' = [hist EXCEPT !.wish = Head(queue).mode, !.drift = TRUE]
  /\ UNCHANGED <<supply, poll, hardware, window, up, tracker, used>>

(* SetPerformance and SetPanelRefresh.                                     *)
TakeWrite ==
  /\ Takes("write")
  /\ todo' = <<[op |-> "write", f |-> Head(queue).f, v |-> Head(queue).v, rule |-> FALSE]>>
  /\ UNCHANGED <<supply, poll, hardware, window, up, tracker, used, hist>>

(* RefreshTelemetry: a snapshot taken by the worker itself.                *)
TakeRefresh ==
  /\ Takes("refresh")
  /\ \E seen \in {supply, "unknown"} : Observe(seen)
  /\ UNCHANGED <<supply, poll, hardware, window, up, rules, disk, used>>

TakeSnapshot ==
  /\ Idle
  /\ poll.pc = "ready"
  /\ poll' = [pc |-> "none", seen |-> "unknown"]
  /\ Observe(poll.seen)
  /\ UNCHANGED <<supply, hardware, window, queue, up, rules, disk, used>>

-----------------------------------------------------------------------------
(* The writes                                                              *)

Doing(op) == up /\ todo # <<>> /\ Head(todo).op = op

(* A setting takes a value: for a rule, or for another reason.             *)
SetField(f, v, byRule) ==
  /\ setting' = [setting EXCEPT ![f] = v]
  /\ hist' = [hist EXCEPT !.inForce = IF byRule THEN @ \cup {f} ELSE @ \ {f}]

WriteLands ==
  /\ Doing("write")
  /\ SetField(Head(todo).f, Head(todo).v, Head(todo).rule)
  /\ late' = {t \in late : t.op # "write" \/ t.f # Head(todo).f}
  /\ todo' = Tail(todo)
  /\ UNCHANGED <<supply, poll, gpu, window, queue, up, tracker, used>>

(* Refused, or with an unknown outcome. Nothing is tried again, and the    *)
(* rest of the rule is still written.                                      *)
WriteFails ==
  /\ Doing("write")
  /\ Spend("troubles", MaxTroubles)
  /\ \/ UNCHANGED late
     \/ late' = late \cup {Head(todo)}
  /\ hist' = [hist EXCEPT !.inForce = @ \ {Head(todo).f}]
  /\ todo' = Tail(todo)
  /\ UNCHANGED <<supply, poll, setting, gpu, window, queue, up, tracker>>

(* Mutant: an automatic switch leaves Ultimate as well.                    *)
StatusLeavingUltimate ==
  /\ Doing("status")
  /\ LET want == IF Head(todo).ac THEN "Hybrid" ELSE "Integrated" IN
       todo' = IF gpu = want THEN Tail(todo)
               ELSE <<[op |-> "gpu", mode |-> want]>> \o Tail(todo)
  /\ hist' = [hist EXCEPT !.drift = FALSE, !.raced = FALSE]
  /\ UNCHANGED <<supply, poll, hardware, window, queue, up, tracker, used>>

(* apply_gpu_optimized reads the status first: a target already effective  *)
(* writes nothing, an automatic switch does not leave Ultimate.            *)
Status ==
  /\ Doing("status")
  /\ LET want == IF Head(todo).ac THEN "Hybrid" ELSE "Integrated" IN
       todo' = IF gpu = want \/ (gpu = "Ultimate" /\ ~Head(todo).explicit) THEN Tail(todo)
               ELSE <<[op |-> "gpu", mode |-> want]>> \o Tail(todo)
  /\ hist' = [hist EXCEPT !.drift = FALSE, !.raced = FALSE]
  /\ UNCHANGED <<supply, poll, hardware, window, queue, up, tracker, used>>

(* An unreadable status writes nothing.                                    *)
StatusFails ==
  /\ Doing("status")
  /\ Spend("troubles", MaxTroubles)
  /\ todo' = Tail(todo)
  /\ hist' = [hist EXCEPT !.drift = TRUE]
  /\ UNCHANGED <<supply, poll, hardware, window, queue, up, tracker>>

(* The mode is queued for the next boot; the window gets the answer.       *)
GpuLands ==
  /\ Doing("gpu")
  /\ gpu' = Head(todo).mode
  /\ late' = {t \in late : t.op # "gpu"}
  /\ views' = Append(views, [op |-> "gpu"])
  /\ todo' = Tail(todo)
  /\ UNCHANGED <<supply, poll, setting, form, known, locked, queue, up, tracker, used, hist>>

GpuFails ==
  /\ Doing("gpu")
  /\ Spend("troubles", MaxTroubles)
  /\ \/ UNCHANGED late
     \/ late' = late \cup {Head(todo)}
  /\ views' = Append(views, [op |-> "gpu"])
  /\ todo' = Tail(todo)
  /\ hist' = [hist EXCEPT !.drift = TRUE]
  /\ UNCHANGED <<supply, poll, setting, gpu, form, known, locked, queue, up, tracker>>

(* A write with an unknown outcome is executed after all, or lost.         *)
LateLands ==
  \E t \in late :
    /\ late' = late \ {t}
    /\ \/ UNCHANGED <<setting, gpu, hist>>
       \/ /\ t.op = "write"
          /\ SetField(t.f, t.v, FALSE)
          /\ UNCHANGED gpu
       \/ /\ t.op = "gpu"
          /\ gpu' = t.mode
          /\ hist' = [hist EXCEPT !.drift = TRUE, !.raced = @ \/ Doing("gpu")]
          /\ UNCHANGED setting
    /\ UNCHANGED <<supply, poll, window, queue, up, todo, tracker, used>>

(* Fn+F5, the desktop, another session.                                    *)
ForeignChange ==
  /\ Spend("troubles", MaxTroubles)
  /\ \/ \E f \in Fields : \E v \in Values : SetField(f, v, FALSE) /\ UNCHANGED gpu
     \/ /\ ProductGpu
        /\ gpu' \in Modes \ {gpu}
        /\ hist' = [hist EXCEPT !.drift = TRUE, !.raced = @ \/ Doing("gpu")]
        /\ UNCHANGED setting
  /\ UNCHANGED <<supply, poll, late, window, queue, up, todo, tracker>>

-----------------------------------------------------------------------------
(* The window                                                              *)

(* Everything sent has been stored and shown.                              *)
Shown ==
  /\ \A i \in 1 .. Len(queue) : queue[i].op # "rules"
  /\ \A i \in 1 .. Len(views) : views[i] = [op |-> "gpu"]

(* send_rules: the record is rebuilt from what the window shows, with one  *)
(* field changed.                                                          *)
SendRules(new, edit) ==
  /\ queue' = Append(queue, [op |-> "rules", new |-> new, edit |-> edit, fresh |-> Shown])
  /\ hist' = [hist EXCEPT !.behind = @ \/ ~Shown]
  /\ UNCHANGED form

(* The rules are there to edit once they were shown, GPU Optimized with    *)
(* the GPU cards.                                                          *)
UserEdits ==
  /\ up
  /\ Spend("commands", MaxCommands)
  /\ \/ known /\ SendRules([form EXCEPT !.enabled = ~@], "enabled")
     \/ \E f \in Fields : \E v \in Values \cup {Keep} :
          /\ known /\ form.enabled
          /\ \/ SendRules([form EXCEPT !.ac[f] = v], "ac")
             \/ SendRules([form EXCEPT !.battery[f] = v], "battery")
     \/ ProductGpu /\ ~locked /\ SendRules([form EXCEPT !.optimized = TRUE], "optimized")
  /\ UNCHANGED <<supply, poll, hardware, known, locked, views, up, todo, tracker>>

(* A GPU card: Optimized is switched off first, when the window shows it   *)
(* on; the mode is sent unless it is the one shown.                        *)
UserPicksMode ==
  /\ up
  /\ ProductGpu /\ ~locked
  /\ Spend("commands", MaxCommands)
  /\ \E mode \in Modes :
       LET off == [op |-> "rules", new |-> [form EXCEPT !.optimized = FALSE],
                   edit |-> "optimized", fresh |-> Shown]
           pick == [op |-> "gpu", mode |-> mode]
       IN /\ \/ /\ locked' = TRUE
                /\ queue' = IF form.optimized THEN queue \o <<off, pick>>
                                              ELSE Append(queue, pick)
             \/ /\ form.optimized
                /\ queue' = Append(queue, off)
                /\ UNCHANGED locked
          /\ hist' = [hist EXCEPT !.behind = @ \/ ~Shown]
  /\ UNCHANGED <<supply, poll, hardware, form, known, views, up, todo, tracker>>

UserCommands ==
  /\ up
  /\ Spend("commands", MaxCommands)
  /\ \/ \E f \in Fields : \E v \in Values :
          queue' = Append(queue, [op |-> "write", f |-> f, v |-> v])
     \/ queue' = Append(queue, [op |-> "refresh"])
  /\ UNCHANGED <<supply, poll, hardware, window, up, todo, tracker, hist>>

(* The window handles the next event of the worker.                        *)
Show ==
  /\ up
  /\ views # <<>>
  /\ views' = Tail(views)
  /\ IF Head(views) = [op |-> "gpu"]
       THEN locked' = FALSE /\ UNCHANGED <<form, known>>
       ELSE form' = Head(views) /\ known' = TRUE /\ UNCHANGED locked
  /\ UNCHANGED <<supply, poll, hardware, queue, up, todo, tracker, used, hist>>

-----------------------------------------------------------------------------
(* The process dies; a write it was in may have been dispatched.           *)
Crash ==
  /\ up
  /\ Spend("troubles", MaxTroubles)
  /\ up' = FALSE
  /\ \/ UNCHANGED late
     \/ /\ todo # <<>> /\ Head(todo).op \in {"write", "gpu"}
        /\ late' = late \cup {Head(todo)}
  /\ todo' = <<>> /\ queue' = <<>> /\ views' = <<>>
  /\ poll' = [pc |-> "none", seen |-> "unknown"]
  /\ form' = DefaultRules /\ known' = FALSE /\ locked' = FALSE
  /\ rules' = DefaultRules /\ last' = "unknown"
  /\ hist' = [Started EXCEPT !.drift = hist.drift]
  /\ UNCHANGED <<supply, setting, gpu, disk>>

(* load: unreadable rules are disabled rules.                              *)
Restart ==
  /\ ~up
  /\ up' = TRUE
  /\ \/ rules' = disk /\ UNCHANGED used
     \/ rules' = DefaultRules /\ Spend("troubles", MaxTroubles)
  /\ views' = <<rules'>>
  /\ UNCHANGED <<supply, poll, hardware, form, known, locked, queue, todo, last, disk, hist>>

-----------------------------------------------------------------------------
TakeCommand == TakeRules \/ TakeGpu \/ TakeWrite \/ TakeRefresh
WriteEnds == WriteLands \/ WriteFails \/ Status \/ StatusFails \/ GpuLands \/ GpuFails

Next ==
  \/ SupplyChanges \/ Tick \/ Sample \/ SampleFails
  \/ TakeCommand \/ TakeSnapshot \/ WriteEnds \/ LateLands \/ ForeignChange
  \/ UserEdits \/ UserPicksMode \/ UserCommands \/ Show \/ Crash \/ Restart

Spec == Init /\ [][Next]_vars

(* The worker never rests while one of its branches is ready, select! does *)
(* not starve one, the application comes back, and telemetry is readable   *)
(* again and again.                                                        *)
FairSpec ==
  /\ Spec
  /\ WF_vars(TakeCommand) /\ WF_vars(TakeSnapshot) /\ WF_vars(Tick)
  /\ WF_vars(WriteEnds)
  /\ WF_vars(Restart)
  /\ SF_vars(Sample)

-----------------------------------------------------------------------------
(* Properties                                                              *)

(* "The first observed power source after start never applies a profile or *)
(* refresh rule, and loading the rules never writes hardware": a rule is   *)
(* written only after two sources were seen since the start, or an edit.   *)
FirstSourceWritesNothing ==
  (\E i \in 1 .. Len(todo) : todo[i].op = "write" /\ todo[i].rule)
    => hist.edited \/ hist.sources = Sources

(* When the worker is done, a setting the enabled rules govern and only    *)
(* they have written since is what the rule for the observed source says,  *)
(* whatever was edited, enabled, disabled or observed in between.          *)
RuleInForce ==
  Idle /\ rules.enabled =>
    \A f \in hist.inForce :
      last # "unknown" /\ RuleFor(rules, last)[f] # Keep
        => setting[f] = RuleFor(rules, last)[f]

(* An edit made when nothing was on its way changes nothing else: the      *)
(* window then shows what is stored, after failed saves and restarts too.  *)
EditsKeepTheRest ==
  \A i \in 1 .. Len(queue) :
    LET c == queue[i] IN
      c.op = "rules" /\ c.fresh =>
        /\ c.edit # "enabled" => c.new.enabled = rules.enabled
        /\ c.edit # "ac" => c.new.ac = rules.ac
        /\ c.edit # "battery" => c.new.battery = rules.battery
        /\ c.edit # "optimized" => c.new.optimized = rules.optimized

Leaves == gpu = "Ultimate" /\ gpu' # "Ultimate" /\ Doing("gpu") /\ todo' = Tail(todo)
Asked == hist.wish \in {"Hybrid", "Integrated", "optimized"}

(* apply_gpu_optimized: "an automatic switch never leaves Ultimate (MUX),  *)
(* only an explicit request does".                                         *)
UltimateLeftOnlyOnRequest == [][Leaves => Asked]_vars

(* The same, for a user who waits until the last edit is shown, and unless *)
(* something else changes the mode between the status read and the write.  *)
UltimateKept == [][Leaves => Asked \/ hist.behind \/ hist.raced]_vars

(* GPU Optimized settles on the mode for the source at hand, or leaves     *)
(* Ultimate alone, whatever the source did, through old snapshots, edits   *)
(* and restarts, until something else changes the mode.                    *)
OptimizedSettles ==
  <>[](up /\ rules.optimized /\ ~hist.drift =>
         gpu \in {"Ultimate", IF supply = "ac" THEN "Hybrid" ELSE "Integrated"})
=============================================================================
