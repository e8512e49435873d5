--------------------------- MODULE SourceRulesProofs ---------------------------
(***************************************************************************)
(* The power-source rules for any fields, values, stored rules and bounds: *)
(* the first source observed writes nothing, the rule of the observed      *)
(* source is in force when the worker is done, an edit keeps what it does  *)
(* not edit, and Ultimate is left on request only.                         *)
(*                                                                         *)
(* What holds between two steps of the worker is said of the work it still *)
(* has (todo), and what a window will show of the events on their way      *)
(* (views): the parts of IInv below.                                       *)
(***************************************************************************)
EXTENDS SourceRules, TLAPS

RuleWrite(t) == t.op = "write" /\ t.rule
GpuView == [op |-> "gpu"]
Elements(s) == {s[i] : i \in 1 .. Len(s)}

(* A stopped process holds nothing.                                        *)
StoppedIsEmpty ==
  ~up => /\ queue = <<>> /\ todo = <<>> /\ views = <<>>
         /\ form = DefaultRules /\ rules = DefaultRules
         /\ last = "unknown"

(* A rule has written nothing before a source was observed, and a source   *)
(* observed is remembered.                                                 *)
Observed ==
  /\ last = "unknown" => hist.inForce = {}
  /\ last # "unknown" => last \in hist.sources

(* The rule writes to come are of the rule for the source observed, which  *)
(* was edited, or is not the first source.                                 *)
WritesAreRules ==
  \A t \in Elements(todo) :
    RuleWrite(t) =>
      /\ rules.enabled /\ last # "unknown"
      /\ t.v = RuleFor(rules, last)[t.f]
      /\ hist.edited \/ hist.sources = Sources

(* A setting in force is what the rule says, or will be written.           *)
InForceOrWritten ==
  rules.enabled /\ last # "unknown" =>
    \A f \in hist.inForce :
      RuleFor(rules, last)[f] # Keep =>
        \/ setting[f] = RuleFor(rules, last)[f]
        \/ \E t \in Elements(todo) : RuleWrite(t) /\ t.f = f

(* The last rules on their way to the window are the stored ones, and so   *)
(* are the ones it shows when none are on their way.                       *)
LastViewIsStored ==
  \A i \in 1 .. Len(views) :
    views[i] # GpuView /\ (\A j \in 1 .. Len(views) : i < j => views[j] = GpuView)
      => views[i] = rules

FormIsStored == (\A i \in 1 .. Len(views) : views[i] = GpuView) => form = rules

(* Nothing is stored before a fresh edit, which keeps what it does not     *)
(* edit; and what is not fresh is behind.                                  *)
FreshFirst(q) ==
  \A i, j \in 1 .. Len(q) : q[i].op = "rules" /\ q[i].fresh /\ j < i => q[j].op # "rules"

Kept(c, r) ==
  c.op = "rules" /\ c.fresh =>
    /\ c.edit # "enabled" => c.new.enabled = r.enabled
    /\ c.edit # "ac" => c.new.ac = r.ac
    /\ c.edit # "battery" => c.new.battery = r.battery
    /\ c.edit # "optimized" => c.new.optimized = r.optimized

FreshKeep == \A c \in Elements(queue) : Kept(c, rules)

StaleIsBehind == \A c \in Elements(queue) : c.op = "rules" /\ ~c.fresh => hist.behind

(* A GPU write is the next thing to do, and one that leaves Ultimate was   *)
(* asked for; so is a look at the status that may lead to one.             *)
Leaving == hist.wish \in {"Hybrid", "Integrated", "optimized"} \/ hist.behind \/ hist.raced

GpuIsNext == todo # <<>> => \A t \in Elements(Tail(todo)) : t.op # "gpu"

GpuIsAsked ==
  \A t \in Elements(todo) :
    t.op = "gpu" /\ t.mode # "Ultimate" /\ gpu = "Ultimate" => Leaving

StatusIsAsked ==
  \A t \in Elements(todo) :
    t.op = "status" /\ t.explicit => hist.wish = "optimized" \/ hist.behind

RulesInv == StoppedIsEmpty /\ Observed /\ WritesAreRules /\ InForceOrWritten
ViewsInv == LastViewIsStored /\ FormIsStored
QueueInv == FreshFirst(queue) /\ FreshKeep
GpuInv == StaleIsBehind /\ GpuIsNext /\ GpuIsAsked /\ StatusIsAsked

IInv == TypeOK /\ RulesInv /\ ViewsInv /\ QueueInv /\ GpuInv

-----------------------------------------------------------------------------
(* Sequences, and what a rule asks to be written.                          *)

LEMMA TailIs ==
  ASSUME NEW S, NEW s \in Seq(S), s # <<>>
  PROVE  /\ Head(s) = s[1] /\ Head(s) \in S
         /\ Tail(s) \in Seq(S)
         /\ Len(s) \in Nat /\ Len(Tail(s)) = Len(s) - 1
         /\ \A i \in 1 .. Len(Tail(s)) : Tail(s)[i] = s[i + 1] /\ i + 1 \in 1 .. Len(s)
         /\ Elements(s) = {Head(s)} \cup Elements(Tail(s))
<1>1. /\ Head(s) = s[1] /\ Head(s) \in S
      /\ Tail(s) \in Seq(S)
      /\ Len(s) \in Nat /\ Len(s) >= 1 /\ Len(Tail(s)) = Len(s) - 1
      /\ \A i \in 1 .. Len(Tail(s)) : Tail(s)[i] = s[i + 1] /\ i + 1 \in 1 .. Len(s)
  OBVIOUS
<1>2. ASSUME NEW i \in 1 .. Len(s), i # 1 PROVE s[i] \in Elements(Tail(s))
  <2>1. i - 1 \in 1 .. Len(Tail(s)) /\ (i - 1) + 1 = i
    BY <1>1, <1>2
  <2> QED BY <1>1, <2>1 DEF Elements
<1>3. 1 \in 1 .. Len(s)
  BY <1>1
<1> QED BY <1>1, <1>2, <1>3 DEF Elements

LEMMA AppendIs ==
  ASSUME NEW S, NEW s \in Seq(S), NEW x \in S
  PROVE  /\ Append(s, x) \in Seq(S)
         /\ Len(s) \in Nat /\ Len(Append(s, x)) = Len(s) + 1
         /\ \A i \in 1 .. Len(s) : Append(s, x)[i] = s[i]
         /\ Append(s, x)[Len(s) + 1] = x
         /\ Elements(Append(s, x)) = Elements(s) \cup {x}
<1> DEFINE a == Append(s, x)
<1>1. /\ a \in Seq(S) /\ Len(s) \in Nat /\ Len(a) = Len(s) + 1
      /\ \A i \in 1 .. Len(s) : a[i] = s[i]
      /\ a[Len(s) + 1] = x
  OBVIOUS
<1> HIDE DEF a
<1>2. 1 .. Len(a) = (1 .. Len(s)) \cup {Len(s) + 1}
  BY <1>1
<1>3. Elements(a) = Elements(s) \cup {x}
  BY <1>1, <1>2 DEF Elements
<1> QED BY <1>1, <1>3 DEF a

LEMMA ConcatIs ==
  ASSUME NEW S, NEW s \in Seq(S), NEW t \in Seq(S)
  PROVE  s \o t \in Seq(S) /\ Elements(s \o t) = Elements(s) \cup Elements(t)
<1> DEFINE u == s \o t
<1>1. /\ u \in Seq(S)
      /\ Len(s) \in Nat /\ Len(t) \in Nat /\ Len(u) = Len(s) + Len(t)
      /\ \A i \in 1 .. Len(u) : u[i] = IF i <= Len(s) THEN s[i] ELSE t[i - Len(s)]
  OBVIOUS
<1> HIDE DEF u
<1>2. ASSUME NEW i \in 1 .. Len(s) PROVE i \in 1 .. Len(u) /\ u[i] = s[i]
  BY <1>1
<1>3. ASSUME NEW i \in 1 .. Len(t) PROVE Len(s) + i \in 1 .. Len(u) /\ u[Len(s) + i] = t[i]
  <2>1. Len(s) + i \in 1 .. Len(u) /\ ~(Len(s) + i <= Len(s)) /\ (Len(s) + i) - Len(s) = i
    BY <1>1
  <2>2. u[Len(s) + i] = t[(Len(s) + i) - Len(s)]
    BY <1>1, <2>1
  <2> QED BY <2>1, <2>2
<1>4. ASSUME NEW i \in 1 .. Len(u), ~(i \in 1 .. Len(s))
      PROVE  \E j \in 1 .. Len(t) : u[i] = t[j]
  <2>1. i - Len(s) \in 1 .. Len(t) /\ u[i] = t[i - Len(s)]
    BY <1>1, <1>4
  <2> QED BY <2>1
<1>5. Elements(u) = Elements(s) \cup Elements(t)
  BY <1>2, <1>3, <1>4 DEF Elements
<1> QED BY <1>1, <1>5 DEF u

LEMMA SingleIs ==
  ASSUME NEW S, NEW x \in S
  PROVE  <<x>> \in Seq(S) /\ Elements(<<x>>) = {x} /\ Tail(<<x>>) = <<>> /\ Head(<<x>>) = x
BY DEF Elements

LEMMA PrependIs ==
  ASSUME NEW S, NEW x \in S, NEW s \in Seq(S)
  PROVE  /\ <<x>> \o s \in Seq(S) /\ <<x>> \o s # <<>>
         /\ Head(<<x>> \o s) = x /\ Tail(<<x>> \o s) = s
         /\ Elements(<<x>> \o s) = {x} \cup Elements(s)
<1>1. <<x>> \o s # <<>> /\ Head(<<x>> \o s) = x /\ Tail(<<x>> \o s) = s
  OBVIOUS
<1> DEFINE one == <<x>>
<1>2. one \in Seq(S) /\ Elements(one) = {x}
  BY SingleIs
<1> HIDE DEF one
<1>3. one \o s \in Seq(S) /\ Elements(one \o s) = Elements(one) \cup Elements(s)
  BY <1>2, ConcatIs
<1> QED BY <1>1, <1>2, <1>3 DEF one

LEMMA EmptyIs == ASSUME NEW S PROVE <<>> \in Seq(S) /\ Elements(<<>>) = {}
BY DEF Elements

LEMMA TaskIs ==
  ASSUME NEW t \in Tasks
  PROVE  /\ t.op \in {"write", "status", "gpu"}
         /\ t.op = "write" => t.f \in Fields /\ t.v \in Values /\ t.rule \in BOOLEAN
         /\ t.op = "gpu" => t.mode \in Modes
         /\ t.op = "status" => t.explicit \in BOOLEAN /\ t.ac \in BOOLEAN
BY DEF Tasks

LEMMA CommandIs ==
  ASSUME NEW c \in Commands
  PROVE  /\ c.op = "rules" => /\ c.new \in PowerRules /\ c.fresh \in BOOLEAN
                             /\ c.edit \in {"enabled", "ac", "battery", "optimized"}
         /\ c.op = "gpu" => c.mode \in Modes
         /\ c.op = "write" => c.f \in Fields /\ c.v \in Values
BY DEF Commands

(* The writes of a rule are its governed fields.                           *)
WriteOf(rule, f) == [op |-> "write", f |-> f, v |-> rule[f], rule |-> TRUE]
WritesOf(rule) == {WriteOf(rule, f) : f \in {g \in Fields : rule[g] # Keep}}

LEMMA RuleWritesAre ==
  ASSUME NEW rule \in PowerRule
  PROVE  RuleWrites(rule) \in Seq(Tasks) /\ Elements(RuleWrites(rule)) = WritesOf(rule)
<1> DEFINE write(f) == IF f \in Fields /\ rule[f] # Keep THEN <<WriteOf(rule, f)>> ELSE <<>>
<1>1. ASSUME NEW f
      PROVE /\ write(f) \in Seq(Tasks)
            /\ Elements(write(f)) = {WriteOf(rule, g) : g \in {h \in Fields \cap {f} : rule[h] # Keep}}
  <2>1. CASE f \in Fields /\ rule[f] # Keep
    <3>1. WriteOf(rule, f) \in Tasks
      BY <2>1 DEF WriteOf, Tasks, PowerRule
    <3>2. write(f) = <<WriteOf(rule, f)>>
      BY <2>1
    <3> QED BY <2>1, <3>1, <3>2, SingleIs
  <2>2. CASE ~(f \in Fields /\ rule[f] # Keep)
    BY <2>2, EmptyIs
  <2> QED BY <2>1, <2>2
<1>2. RuleWrites(rule) = write("profile") \o write("hz")
  BY DEF RuleWrites, WriteOf
<1>3. write("profile") \in Seq(Tasks) /\ write("hz") \in Seq(Tasks)
  BY <1>1
<1> HIDE DEF write
<1>4. /\ RuleWrites(rule) \in Seq(Tasks)
      /\ Elements(RuleWrites(rule)) = Elements(write("profile")) \cup Elements(write("hz"))
  BY <1>2, <1>3, ConcatIs
<1>5. Elements(RuleWrites(rule)) = WritesOf(rule)
  BY <1>1, <1>4, FieldsAssumption DEF WritesOf
<1> QED BY <1>4, <1>5

LEMMA ApplicableIs ==
  ASSUME NEW r \in PowerRules, NEW source
  PROVE  /\ Applicable(r, source) \in Seq(Tasks)
         /\ Elements(Applicable(r, source))
              = {t \in WritesOf(RuleFor(r, source)) : r.enabled}
<1>1. RuleFor(r, source) \in PowerRule
  BY DEF RuleFor, PowerRules
<1>2. CASE r.enabled
  <2>1. Applicable(r, source) = RuleWrites(RuleFor(r, source))
    BY <1>2 DEF Applicable
  <2> QED BY <1>1, <1>2, <2>1, RuleWritesAre
<1>3. CASE ~r.enabled
  <2>1. Applicable(r, source) = <<>>
    BY <1>3 DEF Applicable
  <2> QED BY <1>3, <2>1, EmptyIs
<1> QED BY <1>2, <1>3

StatusOf(source, explicit) == [op |-> "status", ac |-> source = "ac", explicit |-> explicit]

LEMMA ReconcileIs ==
  ASSUME NEW wanted, NEW source, NEW explicit \in BOOLEAN
  PROVE  /\ Reconcile(wanted, source, explicit) \in Seq(Tasks)
         /\ Elements(Reconcile(wanted, source, explicit))
              = {t \in {StatusOf(source, explicit)} : wanted /\ ProductGpu}
<1>1. CASE wanted /\ ProductGpu
  <2>1. StatusOf(source, explicit) \in Tasks
    BY DEF Tasks, StatusOf
  <2>2. Reconcile(wanted, source, explicit) = <<StatusOf(source, explicit)>>
    BY <1>1 DEF Reconcile, StatusOf
  <2> QED BY <1>1, <2>1, <2>2, SingleIs
<1>2. CASE ~(wanted /\ ProductGpu)
  <2>1. Reconcile(wanted, source, explicit) = <<>>
    BY <1>2 DEF Reconcile
  <2> QED BY <1>2, <2>1, EmptyIs
<1> QED BY <1>1, <1>2

(* What is left to do after an observation, and after an edit.             *)
LEMMA ObserveWork ==
  ASSUME rules \in PowerRules, NEW seen, seen # "unknown", Observe(seen)
  PROVE  /\ todo' \in Seq(Tasks)
         /\ Elements(todo')
              = {t \in WritesOf(RuleFor(rules, seen)) :
                   rules.enabled /\ last \notin {"unknown", seen}}
                \cup {t \in {StatusOf(seen, FALSE)} :
                       rules.optimized /\ last # seen /\ ProductGpu}
<1> DEFINE a == IF last \in {"unknown", seen} THEN <<>> ELSE Applicable(rules, seen)
           b == Reconcile(rules.optimized /\ last # seen, seen, FALSE)
<1>1. todo' = a \o b
  BY DEF Observe
<1>2. /\ a \in Seq(Tasks)
      /\ Elements(a) = {t \in WritesOf(RuleFor(rules, seen)) :
                         rules.enabled /\ last \notin {"unknown", seen}}
  BY ApplicableIs, EmptyIs
<1>3. b \in Seq(Tasks)
  BY ReconcileIs
<1>4. Elements(b) = {t \in {StatusOf(seen, FALSE)} :
                       rules.optimized /\ last # seen /\ ProductGpu}
  BY ReconcileIs
<1> HIDE DEF a, b
<1>5. todo' \in Seq(Tasks) /\ Elements(todo') = Elements(a) \cup Elements(b)
  BY <1>1, <1>2, <1>3, ConcatIs
<1> QED BY <1>2, <1>4, <1>5

EditTasks(old, new) ==
  (IF last = "unknown" THEN <<>>
   ELSE Reconcile(new.optimized /\ ~old.optimized, last, TRUE)) \o ToApply(old, new)

LEMMA EditWork ==
  ASSUME NEW old \in PowerRules, NEW new \in PowerRules
  PROVE  /\ EditTasks(old, new) \in Seq(Tasks)
         /\ Elements(EditTasks(old, new))
              = {t \in WritesOf(RuleFor(new, last)) :
                   /\ new.enabled /\ last # "unknown"
                   /\ ~(old.enabled /\ RuleFor(old, last) = RuleFor(new, last))}
                \cup {t \in {StatusOf(last, TRUE)} :
                       new.optimized /\ ~old.optimized /\ last # "unknown" /\ ProductGpu}
<1> DEFINE a == IF last = "unknown" THEN <<>>
                ELSE Reconcile(new.optimized /\ ~old.optimized, last, TRUE)
           b == ToApply(old, new)
<1>1. /\ a \in Seq(Tasks)
      /\ Elements(a) = {t \in {StatusOf(last, TRUE)} :
                       new.optimized /\ ~old.optimized /\ last # "unknown" /\ ProductGpu}
  <2>1. CASE last = "unknown"
    BY <2>1, EmptyIs
  <2>2. CASE last # "unknown"
    BY <2>2, ReconcileIs
  <2> QED BY <2>1, <2>2
<1>2. /\ b \in Seq(Tasks)
      /\ Elements(b) = {t \in WritesOf(RuleFor(new, last)) :
                   /\ new.enabled /\ last # "unknown"
                   /\ ~(old.enabled /\ RuleFor(old, last) = RuleFor(new, last))}
  BY ApplicableIs, EmptyIs DEF ToApply
<1>3. EditTasks(old, new) = a \o b /\ a \in Seq(Tasks) /\ b \in Seq(Tasks)
  BY <1>1, <1>2 DEF EditTasks
<1> HIDE DEF a, b
<1>4. /\ EditTasks(old, new) \in Seq(Tasks)
      /\ Elements(EditTasks(old, new)) = Elements(a) \cup Elements(b)
  BY <1>3, ConcatIs
<1> QED BY <1>1, <1>2, <1>4

-----------------------------------------------------------------------------
(* Types.                                                                  *)

LEMMA DefaultsAre == DefaultRules \in PowerRules /\ Started \in Histories
BY DEF DefaultRules, PowerRules, PowerRule, NoRule, Started, Histories

LEMMA SpendTypes ==
  ASSUME TypeOK, NEW what \in {"commands", "plugs", "troubles"}, NEW bound,
         what = "commands" => bound = MaxCommands,
         what = "plugs" => bound = MaxPlugs,
         what = "troubles" => bound = MaxTroubles,
         Spend(what, bound)
  PROVE  used' \in [commands : 0 .. MaxCommands, plugs : 0 .. MaxPlugs, troubles : 0 .. MaxTroubles]
BY BoundsAssumption DEF TypeOK, Spend

LEMMA ObserveTypes ==
  ASSUME TypeOK, NEW seen \in Sources \cup {"unknown"}, Observe(seen)
  PROVE  /\ todo' \in Seq(Tasks)
         /\ last' \in Sources \cup {"unknown"}
         /\ hist' \in Histories
<1>1. CASE seen = "unknown"
  BY <1>1 DEF Observe, TypeOK
<1>2. CASE seen # "unknown"
  <2>1. rules \in PowerRules
    BY DEF TypeOK
  <2>2. todo' \in Seq(Tasks)
    BY <1>2, <2>1, ObserveWork
  <2>3. last' = seen /\ hist' = [hist EXCEPT !.sources = @ \cup {seen}]
    BY <1>2 DEF Observe
  <2> QED BY <1>2, <2>2, <2>3 DEF TypeOK, Histories
<1> QED BY <1>1, <1>2

LEMMA SendTypes ==
  ASSUME TypeOK, NEW new \in PowerRules,
         NEW edit \in {"enabled", "ac", "battery", "optimized"}, SendRules(new, edit)
  PROVE  queue' \in Seq(Commands) /\ form' \in PowerRules /\ hist' \in Histories
<1> DEFINE c == [op |-> "rules", new |-> new, edit |-> edit, fresh |-> Shown]
<1>1. c \in Commands
  BY DEF Commands, Shown
<1>2. queue' = Append(queue, c) /\ form' = form
  BY DEF SendRules
<1> HIDE DEF c
<1>3. queue' \in Seq(Commands)
  BY <1>1, <1>2, AppendIs DEF TypeOK
<1>4. hist' \in Histories
  BY DEF SendRules, TypeOK, Histories, Shown
<1> QED BY <1>2, <1>3, <1>4 DEF TypeOK

LEMMA SetTypes ==
  ASSUME TypeOK, NEW f \in Fields, NEW v \in Values, NEW r \in BOOLEAN, SetField(f, v, r)
  PROVE  setting' \in [Fields -> Values] /\ hist' \in Histories
BY DEF SetField, TypeOK, Histories

(* What the worker takes, and what it does next.                           *)
LEMMA TakesIs ==
  ASSUME TypeOK, NEW op, Takes(op)
  PROVE  /\ up /\ todo = <<>> /\ queue # <<>>
         /\ Head(queue) \in Commands /\ Head(queue).op = op
         /\ queue' = Tail(queue) /\ queue' \in Seq(Commands)
         /\ Elements(queue) = {Head(queue)} \cup Elements(queue')
<1>1. queue # <<>> /\ queue \in Seq(Commands)
  BY DEF Takes, TypeOK
<1> QED BY <1>1, TailIs DEF Takes, Idle

LEMMA DoingIs ==
  ASSUME TypeOK, NEW op, Doing(op)
  PROVE  /\ up /\ todo # <<>>
         /\ Head(todo) \in Tasks /\ Head(todo).op = op
         /\ Tail(todo) \in Seq(Tasks)
         /\ Elements(todo) = {Head(todo)} \cup Elements(Tail(todo))
<1>1. todo # <<>> /\ todo \in Seq(Tasks)
  BY DEF Doing, TypeOK
<1> QED BY <1>1, TailIs DEF Doing

LEMMA TakeTypes == TypeOK /\ (TakeCommand \/ TakeSnapshot) => TypeOK'
<1> SUFFICES ASSUME TypeOK, TakeCommand \/ TakeSnapshot PROVE TypeOK'
  OBVIOUS
<1> USE DEF hardware, window, tracker
<1>1. CASE TakeRules
  <2> DEFINE c == Head(queue)
  <2>1. c \in Commands /\ c.op = "rules" /\ queue' \in Seq(Commands)
    BY <1>1, TakesIs DEF TakeRules
  <2>2. c.new \in PowerRules
    BY <2>1, CommandIs
  <2>3. CASE /\ rules' = c.new /\ disk' = c.new /\ views' = Append(views, c.new)
             /\ todo' = EditTasks(rules, c.new)
             /\ hist' = [hist EXCEPT !.edited = TRUE,
                   !.wish = IF c.edit = "optimized" /\ c.new.optimized THEN "optimized" ELSE @]
             /\ UNCHANGED used
    <3>1. rules \in PowerRules
      BY DEF TypeOK
    <3>2. todo' \in Seq(Tasks)
      BY <2>2, <2>3, <3>1, EditWork
    <3>3. views' \in Seq(PowerRules \cup {[op |-> "gpu"]})
      BY <2>2, <2>3, AppendIs DEF TypeOK
    <3>4. hist' \in Histories
      BY <2>3 DEF TypeOK, Histories
    <3> QED BY <1>1, <2>1, <2>2, <2>3, <3>2, <3>3, <3>4 DEF TakeRules, TypeOK
  <2>4. CASE /\ Spend("troubles", MaxTroubles) /\ views' = Append(views, rules)
             /\ UNCHANGED <<rules, disk, todo, hist>>
    <3>1. used' \in [commands : 0 .. MaxCommands, plugs : 0 .. MaxPlugs, troubles : 0 .. MaxTroubles]
      BY <2>4, SpendTypes
    <3>2. views' \in Seq(PowerRules \cup {[op |-> "gpu"]})
      BY <2>4, AppendIs DEF TypeOK
    <3> QED BY <1>1, <2>1, <2>4, <3>1, <3>2 DEF TakeRules, TypeOK
  <2> QED BY <1>1, <2>3, <2>4 DEF TakeRules, EditTasks
<1>2. CASE TakeGpu
  <2>1. Head(queue) \in Commands /\ Head(queue).op = "gpu" /\ queue' \in Seq(Commands)
    BY <1>2, TakesIs DEF TakeGpu
  <2>2. Head(queue).mode \in Modes
    BY <2>1, CommandIs
  <2>3. todo' \in Seq(Tasks)
    BY <1>2, <2>2, SingleIs DEF TakeGpu, Tasks
  <2>4. hist' \in Histories
    BY <1>2, <2>2 DEF TakeGpu, Histories, TypeOK
  <2> QED BY <1>2, <2>1, <2>3, <2>4 DEF TakeGpu, TypeOK
<1>3. CASE TakeWrite
  <2>1. Head(queue) \in Commands /\ Head(queue).op = "write" /\ queue' \in Seq(Commands)
    BY <1>3, TakesIs DEF TakeWrite
  <2>2. Head(queue).f \in Fields /\ Head(queue).v \in Values
    BY <2>1, CommandIs
  <2>3. [op |-> "write", f |-> Head(queue).f, v |-> Head(queue).v, rule |-> FALSE] \in Tasks
    BY <2>2 DEF Tasks
  <2>4. todo' \in Seq(Tasks)
    BY <1>3, <2>3, SingleIs DEF TakeWrite
  <2> QED BY <1>3, <2>1, <2>4 DEF TakeWrite, TypeOK
<1>4. CASE TakeRefresh
  <2>1. queue' \in Seq(Commands)
    BY <1>4, TakesIs DEF TakeRefresh
  <2>2. PICK seen \in {supply, "unknown"} : Observe(seen)
    BY <1>4 DEF TakeRefresh
  <2>3. todo' \in Seq(Tasks) /\ last' \in Sources \cup {"unknown"} /\ hist' \in Histories
    <3>1. seen \in Sources \cup {"unknown"}
      BY DEF TypeOK
    <3> QED BY <2>2, <3>1, ObserveTypes
  <2> QED BY <1>4, <2>1, <2>3 DEF TakeRefresh, TypeOK
<1>5. CASE TakeSnapshot
  <2>1. todo' \in Seq(Tasks) /\ last' \in Sources \cup {"unknown"} /\ hist' \in Histories
    <3>1. poll.seen \in Sources \cup {"unknown"}
      BY DEF TypeOK
    <3> QED BY <1>5, <3>1, ObserveTypes DEF TakeSnapshot
  <2> QED BY <1>5, <2>1 DEF TakeSnapshot, TypeOK
<1> QED BY <1>1, <1>2, <1>3, <1>4, <1>5 DEF TakeCommand

LEMMA EndTypes == TypeOK /\ (WriteEnds \/ LateLands \/ ForeignChange) => TypeOK'
<1> SUFFICES ASSUME TypeOK, WriteEnds \/ LateLands \/ ForeignChange PROVE TypeOK'
  OBVIOUS
<1> USE DEF hardware, window, tracker
<1> DEFINE h == Head(todo)
<1>1. CASE WriteLands
  <2>1. h \in Tasks /\ h.op = "write" /\ Tail(todo) \in Seq(Tasks)
    BY <1>1, DoingIs DEF WriteLands
  <2>2. setting' \in [Fields -> Values] /\ hist' \in Histories
    BY <1>1, <2>1, TaskIs, SetTypes DEF WriteLands
  <2> QED BY <1>1, <2>1, <2>2 DEF WriteLands, TypeOK
<1>2. CASE WriteFails
  <2>1. h \in Tasks /\ Tail(todo) \in Seq(Tasks)
    BY <1>2, DoingIs DEF WriteFails
  <2>2. used' \in [commands : 0 .. MaxCommands, plugs : 0 .. MaxPlugs, troubles : 0 .. MaxTroubles]
    BY <1>2, SpendTypes DEF WriteFails
  <2>3. hist' \in Histories
    BY <1>2 DEF WriteFails, TypeOK, Histories
  <2> QED BY <1>2, <2>1, <2>2, <2>3 DEF WriteFails, TypeOK
<1>3. CASE Status
  <2>1. Tail(todo) \in Seq(Tasks)
    BY <1>3, DoingIs DEF Status
  <2>2. ASSUME NEW want \in {"Hybrid", "Integrated"}
        PROVE  <<[op |-> "gpu", mode |-> want]>> \o Tail(todo) \in Seq(Tasks)
    <3>1. [op |-> "gpu", mode |-> want] \in Tasks
      BY DEF Tasks, Modes
    <3> QED BY <2>1, <3>1, SingleIs, ConcatIs
  <2>3. todo' \in Seq(Tasks)
    BY <1>3, <2>1, <2>2 DEF Status
  <2>4. hist' \in Histories
    BY <1>3 DEF Status, TypeOK, Histories
  <2> QED BY <1>3, <2>3, <2>4 DEF Status, TypeOK
<1>4. CASE StatusFails
  <2>1. Tail(todo) \in Seq(Tasks)
    BY <1>4, DoingIs DEF StatusFails
  <2>2. used' \in [commands : 0 .. MaxCommands, plugs : 0 .. MaxPlugs, troubles : 0 .. MaxTroubles]
    BY <1>4, SpendTypes DEF StatusFails
  <2>3. hist' \in Histories
    BY <1>4 DEF StatusFails, TypeOK, Histories
  <2> QED BY <1>4, <2>1, <2>2, <2>3 DEF StatusFails, TypeOK
<1>5. CASE GpuLands \/ GpuFails
  <2>1. h \in Tasks /\ h.op = "gpu" /\ Tail(todo) \in Seq(Tasks)
    BY <1>5, DoingIs DEF GpuLands, GpuFails
  <2>2. views' \in Seq(PowerRules \cup {[op |-> "gpu"]})
    <3>1. views' = Append(views, GpuView)
      BY <1>5 DEF GpuLands, GpuFails, GpuView
    <3>2. GpuView \in PowerRules \cup {[op |-> "gpu"]}
      BY DEF GpuView
    <3> QED BY <3>1, <3>2, AppendIs DEF TypeOK
  <2>3. CASE GpuLands
    BY <2>1, <2>2, <2>3, TaskIs DEF GpuLands, TypeOK
  <2>4. CASE GpuFails
    <3>1. used' \in [commands : 0 .. MaxCommands, plugs : 0 .. MaxPlugs, troubles : 0 .. MaxTroubles]
      BY <2>4, SpendTypes DEF GpuFails
    <3>2. hist' \in Histories
      BY <2>4 DEF GpuFails, TypeOK, Histories
    <3> QED BY <2>1, <2>2, <2>4, <3>1, <3>2 DEF GpuFails, TypeOK
  <2> QED BY <1>5, <2>3, <2>4
<1>6. CASE LateLands
  <2>1. PICK t \in late :
          /\ late' = late \ {t}
          /\ \/ UNCHANGED <<setting, gpu, hist>>
             \/ t.op = "write" /\ SetField(t.f, t.v, FALSE) /\ UNCHANGED gpu
             \/ /\ t.op = "gpu" /\ gpu' = t.mode /\ UNCHANGED setting
                /\ hist' = [hist EXCEPT !.drift = TRUE, !.raced = @ \/ Doing("gpu")]
          /\ UNCHANGED <<supply, poll, window, queue, up, todo, tracker, used>>
    BY <1>6 DEF LateLands
  <2>2. t \in Tasks
    BY DEF TypeOK
  <2>3. setting' \in [Fields -> Values] /\ gpu' \in Modes /\ hist' \in Histories
    <3>1. CASE UNCHANGED <<setting, gpu, hist>>
      BY <3>1 DEF TypeOK
    <3>2. CASE t.op = "write" /\ SetField(t.f, t.v, FALSE) /\ UNCHANGED gpu
      BY <2>2, <3>2, TaskIs, SetTypes DEF TypeOK
    <3>3. CASE /\ t.op = "gpu" /\ gpu' = t.mode /\ UNCHANGED setting
               /\ hist' = [hist EXCEPT !.drift = TRUE, !.raced = @ \/ Doing("gpu")]
      BY <2>2, <3>3, TaskIs DEF TypeOK, Histories, Doing
    <3> QED BY <2>1, <3>1, <3>2, <3>3
  <2> QED BY <2>1, <2>3 DEF TypeOK
<1>7. CASE ForeignChange
  <2>1. used' \in [commands : 0 .. MaxCommands, plugs : 0 .. MaxPlugs, troubles : 0 .. MaxTroubles]
    BY <1>7, SpendTypes DEF ForeignChange
  <2>2. setting' \in [Fields -> Values] /\ gpu' \in Modes /\ hist' \in Histories
    <3>1. ASSUME NEW f \in Fields, NEW v \in Values, SetField(f, v, FALSE), UNCHANGED gpu
          PROVE  setting' \in [Fields -> Values] /\ gpu' \in Modes /\ hist' \in Histories
      BY <3>1, SetTypes DEF TypeOK
    <3>2. CASE /\ gpu' \in Modes \ {gpu} /\ UNCHANGED setting
               /\ hist' = [hist EXCEPT !.drift = TRUE, !.raced = @ \/ Doing("gpu")]
      BY <3>2 DEF TypeOK, Histories, Doing
    <3> QED BY <1>7, <3>1, <3>2 DEF ForeignChange
  <2> QED BY <1>7, <2>1, <2>2 DEF ForeignChange, TypeOK
<1> QED BY <1>1, <1>2, <1>3, <1>4, <1>5, <1>6, <1>7 DEF WriteEnds

LEMMA EditTypes ==
  ASSUME NEW r \in PowerRules, NEW f \in Fields, NEW v \in Values \cup {Keep}, NEW b \in BOOLEAN
  PROVE  /\ [r EXCEPT !.enabled = ~@] \in PowerRules
         /\ [r EXCEPT !.ac[f] = v] \in PowerRules
         /\ [r EXCEPT !.battery[f] = v] \in PowerRules
         /\ [r EXCEPT !.optimized = b] \in PowerRules
BY DEF PowerRules, PowerRule

LEMMA WindowTypes == TypeOK /\ (UserEdits \/ UserPicksMode \/ UserCommands \/ Show) => TypeOK'
<1> SUFFICES ASSUME TypeOK, UserEdits \/ UserPicksMode \/ UserCommands \/ Show PROVE TypeOK'
  OBVIOUS
<1> USE DEF hardware, window, tracker
<1> DEFINE Uses == [commands : 0 .. MaxCommands, plugs : 0 .. MaxPlugs, troubles : 0 .. MaxTroubles]
<1>1. CASE UserEdits
  <2>1. used' \in Uses
    BY <1>1, SpendTypes DEF UserEdits
  <2>2. PICK new \in PowerRules, edit \in {"enabled", "ac", "battery", "optimized"} :
          SendRules(new, edit)
    <3>1. form \in PowerRules
      BY DEF TypeOK
    <3>2. CASE known /\ SendRules([form EXCEPT !.enabled = ~@], "enabled")
      BY <3>1, <3>2 DEF PowerRules
    <3>3. ASSUME NEW f \in Fields, NEW v \in Values \cup {Keep},
                 \/ SendRules([form EXCEPT !.ac[f] = v], "ac")
                 \/ SendRules([form EXCEPT !.battery[f] = v], "battery")
          PROVE  \E new \in PowerRules, edit \in {"enabled", "ac", "battery", "optimized"} :
                   SendRules(new, edit)
      BY <3>1, <3>3, EditTypes
    <3>4. CASE SendRules([form EXCEPT !.optimized = TRUE], "optimized")
      BY <3>1, <3>4 DEF PowerRules
    <3> QED BY <1>1, <3>2, <3>3, <3>4 DEF UserEdits
  <2>3. queue' \in Seq(Commands) /\ form' \in PowerRules /\ hist' \in Histories
    BY <2>2, SendTypes
  <2> QED BY <1>1, <2>1, <2>3 DEF UserEdits, TypeOK
<1>2. CASE UserPicksMode
  <2>1. used' \in Uses
    BY <1>2, SpendTypes DEF UserPicksMode
  <2>2. PICK mode \in Modes :
          LET off == [op |-> "rules", new |-> [form EXCEPT !.optimized = FALSE],
                      edit |-> "optimized", fresh |-> Shown]
              pick == [op |-> "gpu", mode |-> mode]
          IN /\ \/ locked' = TRUE /\ queue' = queue \o <<off, pick>>
                \/ locked' = TRUE /\ queue' = Append(queue, pick)
                \/ UNCHANGED locked /\ queue' = Append(queue, off)
             /\ hist' = [hist EXCEPT !.behind = @ \/ ~Shown]
    BY <1>2 DEF UserPicksMode
  <2> DEFINE off == [op |-> "rules", new |-> [form EXCEPT !.optimized = FALSE],
                     edit |-> "optimized", fresh |-> Shown]
             pick == [op |-> "gpu", mode |-> mode]
  <2>3. off \in Commands /\ pick \in Commands
    <3>1. [form EXCEPT !.optimized = FALSE] \in PowerRules /\ Shown \in BOOLEAN
      BY DEF TypeOK, PowerRules, Shown
    <3> QED BY <3>1 DEF Commands
  <2>4. hist' \in Histories
    BY <2>2 DEF TypeOK, Histories, Shown
  <2>5. \/ queue' = queue \o <<off, pick>>
        \/ queue' = Append(queue, pick)
        \/ queue' = Append(queue, off)
    BY <2>2
  <2>6. locked' \in BOOLEAN
    BY <2>2 DEF TypeOK
  <2> HIDE DEF off, pick
  <2>7. queue' \in Seq(Commands)
    <3>1. queue \in Seq(Commands) /\ <<off, pick>> \in Seq(Commands)
      BY <2>3 DEF TypeOK
    <3>2. queue \o <<off, pick>> \in Seq(Commands)
      BY <3>1, ConcatIs
    <3>3. Append(queue, pick) \in Seq(Commands) /\ Append(queue, off) \in Seq(Commands)
      BY <2>3, <3>1, AppendIs
    <3> QED BY <2>5, <3>2, <3>3
  <2> QED BY <1>2, <2>1, <2>4, <2>6, <2>7 DEF UserPicksMode, TypeOK
<1>3. CASE UserCommands
  <2>1. used' \in Uses
    BY <1>3, SpendTypes DEF UserCommands
  <2>2. PICK c \in Commands : queue' = Append(queue, c)
    BY <1>3 DEF UserCommands, Commands
  <2>3. queue' \in Seq(Commands)
    BY <2>2, AppendIs DEF TypeOK
  <2> QED BY <1>3, <2>1, <2>3 DEF UserCommands, TypeOK
<1>4. CASE Show
  <2>1. /\ Head(views) \in PowerRules \cup {[op |-> "gpu"]}
        /\ Tail(views) \in Seq(PowerRules \cup {[op |-> "gpu"]})
    <3>1. views # <<>> /\ views \in Seq(PowerRules \cup {[op |-> "gpu"]})
      BY <1>4 DEF Show, TypeOK
    <3> QED BY <3>1, TailIs
  <2> QED BY <1>4, <2>1 DEF Show, TypeOK
<1> QED BY <1>1, <1>2, <1>3, <1>4

LEMMA OtherTypes ==
  TypeOK /\ (SupplyChanges \/ Tick \/ Sample \/ SampleFails \/ Crash \/ Restart) => TypeOK'
<1> SUFFICES ASSUME TypeOK,
                    SupplyChanges \/ Tick \/ Sample \/ SampleFails \/ Crash \/ Restart
             PROVE TypeOK'
  OBVIOUS
<1> USE DEF hardware, window, tracker
<1> DEFINE Uses == [commands : 0 .. MaxCommands, plugs : 0 .. MaxPlugs, troubles : 0 .. MaxTroubles]
<1>1. CASE SupplyChanges
  <2>1. used' \in Uses
    BY <1>1, SpendTypes DEF SupplyChanges
  <2> QED BY <1>1, <2>1 DEF SupplyChanges, TypeOK
<1>2. CASE Tick \/ Sample \/ SampleFails
  BY <1>2 DEF Tick, Sample, SampleFails, TypeOK
<1>3. CASE Crash
  <2>1. used' \in Uses
    BY <1>3, SpendTypes DEF Crash
  <2>2. late' \subseteq Tasks
    <3>1. CASE UNCHANGED late
      BY <3>1 DEF TypeOK
    <3>2. CASE todo # <<>> /\ late' = late \cup {Head(todo)}
      <4>1. Head(todo) \in Tasks
        BY <3>2, TailIs DEF TypeOK
      <4> QED BY <3>2, <4>1 DEF TypeOK
    <3> QED BY <1>3, <3>1, <3>2 DEF Crash
  <2>3. hist' \in Histories
    BY <1>3, DefaultsAre DEF Crash, TypeOK, Histories
  <2>4. todo' \in Seq(Tasks) /\ queue' \in Seq(Commands)
        /\ views' \in Seq(PowerRules \cup {[op |-> "gpu"]})
    BY <1>3, EmptyIs DEF Crash
  <2> QED BY <1>3, <2>1, <2>2, <2>3, <2>4, DefaultsAre DEF Crash, TypeOK
<1>4. CASE Restart
  <2>1. used' \in Uses
    <3>1. CASE UNCHANGED used
      BY <3>1 DEF TypeOK
    <3>2. CASE Spend("troubles", MaxTroubles)
      BY <3>2, SpendTypes
    <3> QED BY <1>4, <3>1, <3>2 DEF Restart
  <2>2. rules' \in PowerRules
    BY <1>4, DefaultsAre DEF Restart, TypeOK
  <2>3. views' \in Seq(PowerRules \cup {[op |-> "gpu"]})
    BY <1>4, <2>2, SingleIs DEF Restart
  <2> QED BY <1>4, <2>1, <2>2, <2>3 DEF Restart, TypeOK
<1> QED BY <1>1, <1>2, <1>3, <1>4

LEMMA TypeNext == TypeOK /\ [Next]_vars => TypeOK'
<1>1. TypeOK /\ UNCHANGED vars => TypeOK'
  BY DEF TypeOK, vars
<1> QED BY <1>1, TakeTypes, EndTypes, WindowTypes, OtherTypes DEF Next

-----------------------------------------------------------------------------
(* The worker and the rules it applies.                                    *)

LEMMA StoppedNext == TypeOK /\ StoppedIsEmpty /\ [Next]_vars => StoppedIsEmpty'
<1> SUFFICES ASSUME TypeOK, StoppedIsEmpty, [Next]_vars PROVE StoppedIsEmpty'
  OBVIOUS
<1> USE DEF StoppedIsEmpty, hardware, window, tracker
<1>1. CASE up /\ up' = up
  BY <1>1
<1>2. CASE UNCHANGED <<up, queue, todo, views, form, rules, last>>
  BY <1>2
<1>3. CASE Crash
  BY <1>3 DEF Crash
<1>4. CASE Restart
  BY <1>4 DEF Restart
<1>5. CASE TakeRules \/ TakeGpu \/ TakeWrite \/ TakeRefresh
  BY <1>1, <1>5 DEF TakeRules, TakeGpu, TakeWrite, TakeRefresh, Takes, Idle
<1>6. CASE WriteEnds
  BY <1>1, <1>6 DEF WriteEnds, WriteLands, WriteFails, Status, StatusFails, GpuLands, GpuFails, Doing
<1>7. CASE UserEdits \/ UserPicksMode \/ UserCommands \/ Show
  BY <1>1, <1>7 DEF UserEdits, UserPicksMode, UserCommands, Show
<1>8. CASE TakeSnapshot
  BY <1>1, <1>8 DEF TakeSnapshot, Idle
<1>9. CASE SupplyChanges \/ Tick \/ Sample \/ SampleFails \/ UNCHANGED vars
  BY <1>2, <1>9 DEF SupplyChanges, Tick, Sample, SampleFails, vars
<1>10. CASE LateLands \/ ForeignChange
  BY <1>2, <1>10 DEF LateLands, ForeignChange
<1> QED BY <1>3, <1>4, <1>5, <1>6, <1>7, <1>8, <1>9, <1>10 DEF Next, TakeCommand

(* A step that only does, or drops, what there was to do.                  *)
Carries ==
  /\ UNCHANGED <<rules, last>>
  /\ hist'.sources = hist.sources /\ hist'.edited = hist.edited
  /\ \A t \in Elements(todo') : RuleWrite(t) => t \in Elements(todo)
  /\ \A f \in hist'.inForce :
       \/ /\ f \in hist.inForce /\ setting'[f] = setting[f]
          /\ \A t \in Elements(todo) : RuleWrite(t) /\ t.f = f => t \in Elements(todo')
       \/ \E t \in Elements(todo) : RuleWrite(t) /\ t.f = f /\ setting'[f] = t.v

LEMMA CarriesKeeps ==
  ASSUME Observed, WritesAreRules, InForceOrWritten, Carries
  PROVE  Observed' /\ WritesAreRules' /\ InForceOrWritten'
<1>1. Observed'
  BY DEF Observed, WritesAreRules, Carries
<1>2. WritesAreRules'
  BY DEF WritesAreRules, Carries
<1>3. InForceOrWritten'
  <2> SUFFICES ASSUME rules.enabled, last # "unknown", NEW f \in hist'.inForce,
                      RuleFor(rules, last)[f] # Keep
               PROVE  \/ setting'[f] = RuleFor(rules, last)[f]
                      \/ \E t \in Elements(todo') : RuleWrite(t) /\ t.f = f
    BY DEF InForceOrWritten, Carries, RuleFor
  <2>1. CASE /\ f \in hist.inForce /\ setting'[f] = setting[f]
             /\ \A t \in Elements(todo) : RuleWrite(t) /\ t.f = f => t \in Elements(todo')
    BY <2>1 DEF InForceOrWritten
  <2>2. CASE \E t \in Elements(todo) : RuleWrite(t) /\ t.f = f /\ setting'[f] = t.v
    BY <2>2 DEF WritesAreRules
  <2> QED BY <2>1, <2>2 DEF Carries
<1> QED BY <1>1, <1>2, <1>3

(* The fields of hist a step leaves alone.                                 *)
LEMMA HistoryIs ==
  ASSUME TypeOK, NEW x
  PROVE  LET same(h) == /\ h.inForce = hist.inForce /\ h.sources = hist.sources
                        /\ h.edited = hist.edited
         IN /\ same([hist EXCEPT !.behind = x]) /\ same([hist EXCEPT !.drift = x])
            /\ \A y : same([hist EXCEPT !.drift = x, !.raced = y])
            /\ \A y : same([hist EXCEPT !.wish = x, !.drift = y])
BY DEF TypeOK, Histories

LEMMA SetCarries ==
  ASSUME TypeOK, NEW f \in Fields, NEW v, SetField(f, v, FALSE), UNCHANGED <<rules, last, todo>>
  PROVE  Carries
<1>1. /\ hist'.sources = hist.sources /\ hist'.edited = hist.edited
      /\ hist'.inForce = hist.inForce \ {f} /\ hist.inForce \subseteq Fields
  BY DEF SetField, TypeOK, Histories
<1>2. \A g \in Fields \ {f} : setting'[g] = setting[g]
  BY DEF SetField, TypeOK
<1> QED BY <1>1, <1>2 DEF Carries

LEMMA SameCarries ==
  ASSUME UNCHANGED <<rules, last, todo, setting>>,
         hist'.inForce = hist.inForce, hist'.sources = hist.sources, hist'.edited = hist.edited
  PROVE  Carries
BY DEF Carries

LEMMA WindowCarries ==
  TypeOK /\ (UserEdits \/ UserPicksMode \/ UserCommands \/ Show \/ SupplyChanges \/ Tick
               \/ Sample \/ SampleFails \/ UNCHANGED vars) => Carries
<1> SUFFICES ASSUME TypeOK,
                    \/ UserEdits \/ UserPicksMode \/ UserCommands \/ Show
                    \/ SupplyChanges \/ Tick \/ Sample \/ SampleFails \/ UNCHANGED vars
             PROVE  Carries
  OBVIOUS
<1> USE DEF hardware, window, tracker
<1>1. UNCHANGED <<rules, last, todo, setting>>
  BY DEF UserEdits, UserPicksMode, UserCommands, Show, SupplyChanges, Tick, Sample, SampleFails, vars
<1>2. hist' = hist \/ hist' = [hist EXCEPT !.behind = @ \/ ~Shown]
  BY DEF UserEdits, UserPicksMode, UserCommands, Show, SupplyChanges, Tick, Sample, SampleFails,
         vars, SendRules
<1>3. CASE hist' = hist
  BY <1>1, <1>3, SameCarries
<1>4. CASE hist' = [hist EXCEPT !.behind = @ \/ ~Shown]
  <2>1. PICK x : hist' = [hist EXCEPT !.behind = x]
    BY <1>4
  <2> QED BY <1>1, <2>1, HistoryIs, SameCarries
<1> QED BY <1>2, <1>3, <1>4

LEMMA HardwareCarries == TypeOK /\ (LateLands \/ ForeignChange) => Carries
<1> SUFFICES ASSUME TypeOK, LateLands \/ ForeignChange PROVE Carries
  OBVIOUS
<1> USE DEF hardware, window, tracker
<1>1. UNCHANGED <<rules, last, todo>>
  BY DEF LateLands, ForeignChange
<1>2. \/ UNCHANGED <<setting, hist>>
      \/ \E f \in Fields : \E v : SetField(f, v, FALSE)
      \/ UNCHANGED setting /\ \E x, y : hist' = [hist EXCEPT !.drift = x, !.raced = y]
  <2>1. CASE LateLands
    <3>1. PICK t \in late :
             \/ UNCHANGED <<setting, gpu, hist>>
             \/ t.op = "write" /\ SetField(t.f, t.v, FALSE)
             \/ /\ UNCHANGED setting
                /\ hist' = [hist EXCEPT !.drift = TRUE, !.raced = @ \/ Doing("gpu")]
      BY <2>1 DEF LateLands
    <3>2. t \in Tasks
      BY DEF TypeOK
    <3> QED BY <3>1, <3>2, TaskIs
  <2>2. CASE ForeignChange
    BY <2>2 DEF ForeignChange
  <2> QED BY <2>1, <2>2
<1>3. CASE UNCHANGED <<setting, hist>>
  BY <1>1, <1>3, SameCarries
<1>4. CASE \E f \in Fields : \E v : SetField(f, v, FALSE)
  BY <1>1, <1>4, SetCarries
<1>5. CASE UNCHANGED setting /\ \E x, y : hist' = [hist EXCEPT !.drift = x, !.raced = y]
  BY <1>1, <1>5, HistoryIs, SameCarries
<1> QED BY <1>2, <1>3, <1>4, <1>5

(* Doing, or dropping, what is first.                                      *)
LEMMA EndCarries == TypeOK /\ WriteEnds => Carries
<1> SUFFICES ASSUME TypeOK, WriteEnds PROVE Carries
  OBVIOUS
<1> USE DEF hardware, window, tracker
<1> DEFINE h == Head(todo)
<1>1. CASE WriteLands
  <2>1. /\ h \in Tasks /\ h.op = "write" /\ todo' = Tail(todo)
        /\ Elements(todo) = {h} \cup Elements(Tail(todo))
    BY <1>1, DoingIs DEF WriteLands
  <2>2. h.f \in Fields /\ h.v \in Values /\ SetField(h.f, h.v, h.rule) /\ UNCHANGED <<rules, last>>
    BY <1>1, <2>1, TaskIs DEF WriteLands
  <2> HIDE DEF h
  <2>3. /\ hist'.sources = hist.sources /\ hist'.edited = hist.edited
        /\ hist'.inForce = IF h.rule THEN hist.inForce \cup {h.f} ELSE hist.inForce \ {h.f}
        /\ hist.inForce \subseteq Fields
    BY <2>2 DEF SetField, TypeOK, Histories
  <2>4. setting'[h.f] = h.v /\ \A g \in Fields \ {h.f} : setting'[g] = setting[g]
    BY <2>2 DEF SetField, TypeOK
  <2>5. ASSUME NEW f \in hist'.inForce
        PROVE  \/ /\ f \in hist.inForce /\ setting'[f] = setting[f]
                  /\ \A t \in Elements(todo) : RuleWrite(t) /\ t.f = f => t \in Elements(todo')
               \/ \E t \in Elements(todo) : RuleWrite(t) /\ t.f = f /\ setting'[f] = t.v
    <3>1. CASE f = h.f
      <4>1. h.rule
        BY <2>3, <3>1
      <4>2. h \in Elements(todo) /\ RuleWrite(h) /\ h.f = f /\ setting'[f] = h.v
        BY <2>1, <2>4, <3>1, <4>1 DEF RuleWrite
      <4> QED BY <4>2
    <3>2. CASE f # h.f
      <4>1. f \in hist.inForce /\ setting'[f] = setting[f]
        BY <2>3, <2>4, <3>2
      <4>2. \A t \in Elements(todo) : t.f = f => t \in Elements(todo')
        BY <2>1, <3>2
      <4> QED BY <4>1, <4>2
    <3> QED BY <3>1, <3>2
  <2>6. \A t \in Elements(todo') : t \in Elements(todo)
    BY <2>1
  <2> QED BY <2>2, <2>3, <2>5, <2>6 DEF Carries
<1>2. CASE WriteFails
  <2>1. /\ todo' = Tail(todo) /\ Elements(todo) = {h} \cup Elements(Tail(todo))
        /\ UNCHANGED <<rules, last, setting>>
    BY <1>2, DoingIs DEF WriteFails
  <2>2. /\ hist'.sources = hist.sources /\ hist'.edited = hist.edited
        /\ hist'.inForce = hist.inForce \ {h.f}
    BY <1>2 DEF WriteFails, TypeOK, Histories
  <2> HIDE DEF h
  <2> QED BY <2>1, <2>2 DEF Carries
<1>3. CASE Status
  <2>1. /\ Elements(todo) = {h} \cup Elements(Tail(todo))
        /\ h.op = "status" /\ Tail(todo) \in Seq(Tasks)
        /\ UNCHANGED <<rules, last, setting>>
    BY <1>3, DoingIs DEF Status
  <2>2. /\ hist'.sources = hist.sources /\ hist'.edited = hist.edited
        /\ hist'.inForce = hist.inForce
    BY <1>3 DEF Status, TypeOK, Histories
  <2>3. \/ todo' = Tail(todo)
        \/ \E want \in {"Hybrid", "Integrated"} :
             todo' = <<[op |-> "gpu", mode |-> want]>> \o Tail(todo)
    BY <1>3 DEF Status
  <2> HIDE DEF h
  <2>4. /\ Elements(Tail(todo)) \subseteq Elements(todo')
        /\ \A t \in Elements(todo') : t \in Elements(Tail(todo)) \/ t.op = "gpu"
    <3>1. ASSUME NEW want \in {"Hybrid", "Integrated"},
                 todo' = <<[op |-> "gpu", mode |-> want]>> \o Tail(todo)
          PROVE  \E t : t.op = "gpu" /\ Elements(todo') = {t} \cup Elements(Tail(todo))
      <4> DEFINE t == [op |-> "gpu", mode |-> want]
      <4>1. t \in Tasks /\ t.op = "gpu"
        BY DEF Tasks, Modes
      <4>2. todo' = <<t>> \o Tail(todo)
        BY <3>1
      <4> HIDE DEF t
      <4> DEFINE rest == Tail(todo)
      <4>3. rest \in Seq(Tasks) /\ t \in Tasks
        BY <2>1, <4>1
      <4> HIDE DEF rest
      <4>4. Elements(<<t>> \o rest) = {t} \cup Elements(rest)
        BY <4>3, PrependIs
      <4> QED BY <4>1, <4>2, <4>4 DEF rest
    <3>2. CASE todo' = Tail(todo)
      BY <3>2
    <3>3. CASE \E t : t.op = "gpu" /\ Elements(todo') = {t} \cup Elements(Tail(todo))
      BY <3>3
    <3> QED BY <2>3, <3>1, <3>2, <3>3
  <2> QED BY <2>1, <2>2, <2>4 DEF Carries, RuleWrite
<1>4. CASE StatusFails \/ GpuLands \/ GpuFails
  <2>1. /\ todo' = Tail(todo) /\ Elements(todo) = {h} \cup Elements(Tail(todo))
        /\ h.op # "write" /\ UNCHANGED <<rules, last, setting>>
    BY <1>4, DoingIs DEF StatusFails, GpuLands, GpuFails
  <2>2. hist' = hist \/ hist' = [hist EXCEPT !.drift = TRUE]
    BY <1>4 DEF StatusFails, GpuLands, GpuFails
  <2>3. /\ hist'.sources = hist.sources /\ hist'.edited = hist.edited
        /\ hist'.inForce = hist.inForce
    BY <2>2, HistoryIs
  <2> HIDE DEF h
  <2> QED BY <2>1, <2>3 DEF Carries, RuleWrite
<1> QED BY <1>1, <1>2, <1>3, <1>4 DEF WriteEnds

(* Taking something else than new rules, or a source.                      *)
LEMMA TakeCarries == TypeOK /\ (TakeGpu \/ TakeWrite) => Carries
<1> SUFFICES ASSUME TypeOK, TakeGpu \/ TakeWrite PROVE Carries
  OBVIOUS
<1> USE DEF hardware, window, tracker
<1>1. todo = <<>> /\ UNCHANGED <<rules, last, setting>>
  BY DEF TakeGpu, TakeWrite, Takes, Idle
<1>2. \E t : todo' = <<t>> /\ (t.op = "gpu" \/ ~t.rule)
  BY DEF TakeGpu, TakeWrite
<1>3. \A t \in Elements(todo') : ~RuleWrite(t)
  <2>1. PICK t : todo' = <<t>> /\ ~RuleWrite(t)
    BY <1>2 DEF RuleWrite
  <2> QED BY <2>1 DEF Elements
<1>4. /\ hist'.sources = hist.sources /\ hist'.edited = hist.edited
      /\ hist'.inForce = hist.inForce
  BY DEF TakeGpu, TakeWrite, TypeOK, Histories
<1> QED BY <1>1, <1>3, <1>4, EmptyIs DEF Carries

LEMMA ObserveKeeps ==
  ASSUME TypeOK, Observed, WritesAreRules, InForceOrWritten, todo = <<>>,
         NEW seen \in Sources \cup {"unknown"}, Observe(seen), UNCHANGED <<rules, setting>>
  PROVE  Observed' /\ WritesAreRules' /\ InForceOrWritten'
<1>1. CASE seen = "unknown"
  <2>1. Carries
    BY <1>1, SameCarries DEF Observe
  <2> QED BY <2>1, CarriesKeeps
<1>2. CASE seen # "unknown"
  <2>1. last' = seen /\ hist' = [hist EXCEPT !.sources = @ \cup {seen}]
    BY <1>2 DEF Observe
  <2>2. /\ hist'.sources = hist.sources \cup {seen} /\ hist'.edited = hist.edited
        /\ hist'.inForce = hist.inForce /\ hist.inForce \subseteq Fields
        /\ hist.sources \subseteq Sources
    BY <2>1 DEF TypeOK, Histories
  <2>3. Elements(todo')
          = {t \in WritesOf(RuleFor(rules, seen)) : rules.enabled /\ last \notin {"unknown", seen}}
              \cup {t \in {StatusOf(seen, FALSE)} :
                     rules.optimized /\ last # seen /\ ProductGpu}
    BY <1>2, ObserveWork DEF TypeOK
  <2>4. Observed'
    BY <1>2, <2>1, <2>2 DEF Observed
  <2>5. WritesAreRules'
    <3> SUFFICES ASSUME NEW t \in Elements(todo'), RuleWrite(t)
                 PROVE  /\ rules.enabled /\ t.v = RuleFor(rules, seen)[t.f]
                        /\ hist'.sources = Sources
      BY <1>2, <2>1 DEF WritesAreRules, RuleFor
    <3>1. t \in WritesOf(RuleFor(rules, seen)) /\ rules.enabled /\ last \notin {"unknown", seen}
      BY <2>3 DEF RuleWrite, StatusOf
    <3>2. t.v = RuleFor(rules, seen)[t.f]
      BY <3>1 DEF WritesOf, WriteOf
    <3>3. last \in hist.sources /\ last \in Sources /\ seen \in Sources
      BY <1>2, <3>1 DEF Observed, TypeOK
    <3>4. hist'.sources = Sources
      BY <2>2, <3>1, <3>3 DEF Sources
    <3> QED BY <3>1, <3>2, <3>4
  <2>6. InForceOrWritten'
    <3> SUFFICES ASSUME rules.enabled, NEW f \in hist.inForce, RuleFor(rules, seen)[f] # Keep
                 PROVE  \/ setting[f] = RuleFor(rules, seen)[f]
                        \/ \E t \in Elements(todo') : RuleWrite(t) /\ t.f = f
      BY <2>1, <2>2 DEF InForceOrWritten, RuleFor
    <3>1. CASE last = "unknown"
      BY <3>1 DEF Observed
    <3>2. CASE last = seen
      BY <1>2, <3>2, EmptyIs DEF InForceOrWritten
    <3>3. CASE last \notin {"unknown", seen}
      <4>1. WriteOf(RuleFor(rules, seen), f) \in Elements(todo')
        BY <2>2, <2>3, <3>3 DEF WritesOf
      <4>2. RuleWrite(WriteOf(RuleFor(rules, seen), f)) /\ WriteOf(RuleFor(rules, seen), f).f = f
        BY DEF RuleWrite, WriteOf
      <4> QED BY <4>1, <4>2
    <3> QED BY <3>1, <3>2, <3>3
  <2> QED BY <2>4, <2>5, <2>6
<1> QED BY <1>1, <1>2

LEMMA TakeRulesKeeps ==
  ASSUME TypeOK, Observed, WritesAreRules, InForceOrWritten, TakeRules
  PROVE  Observed' /\ WritesAreRules' /\ InForceOrWritten'
<1> USE DEF hardware, window, tracker
<1> DEFINE c == Head(queue)
<1>1. /\ c \in Commands /\ c.op = "rules" /\ todo = <<>>
      /\ UNCHANGED <<setting, last>>
  BY TakesIs DEF TakeRules
<1>2. c.new \in PowerRules /\ rules \in PowerRules
  BY <1>1, CommandIs DEF TypeOK
<1>3. CASE UNCHANGED <<rules, todo, hist>>
  BY <1>1, <1>3, SameCarries, CarriesKeeps
<1>4. CASE /\ rules' = c.new
           /\ todo' = EditTasks(rules, c.new)
           /\ hist' = [hist EXCEPT !.edited = TRUE,
                 !.wish = IF c.edit = "optimized" /\ c.new.optimized THEN "optimized" ELSE @]
  <2> DEFINE new == c.new
  <2>1. /\ hist'.sources = hist.sources /\ hist'.edited = TRUE
        /\ hist'.inForce = hist.inForce /\ hist.inForce \subseteq Fields
    BY <1>4 DEF TypeOK, Histories
  <2> HIDE DEF c
  <2>2. Elements(todo')
          = {t \in WritesOf(RuleFor(new, last)) :
               /\ new.enabled /\ last # "unknown"
               /\ ~(rules.enabled /\ RuleFor(rules, last) = RuleFor(new, last))}
              \cup {t \in {StatusOf(last, TRUE)} :
                     new.optimized /\ ~rules.optimized /\ last # "unknown" /\ ProductGpu}
    BY <1>2, <1>4, EditWork
  <2>3. rules' = new /\ last' = last
    BY <1>1, <1>4
  <2> HIDE DEF new
  <2>4. Observed'
    BY <2>1, <2>3 DEF Observed
  <2>5. WritesAreRules'
    <3> SUFFICES ASSUME NEW t \in Elements(todo'), RuleWrite(t)
                 PROVE  new.enabled /\ last # "unknown" /\ t.v = RuleFor(new, last)[t.f]
      BY <2>1, <2>3 DEF WritesAreRules, RuleFor
    <3>1. t \in WritesOf(RuleFor(new, last)) /\ new.enabled /\ last # "unknown"
      BY <2>2 DEF RuleWrite, StatusOf
    <3> QED BY <3>1 DEF WritesOf, WriteOf
  <2>6. InForceOrWritten'
    <3> SUFFICES ASSUME new.enabled, last # "unknown", NEW f \in hist.inForce,
                        RuleFor(new, last)[f] # Keep
                 PROVE  \/ setting[f] = RuleFor(new, last)[f]
                        \/ \E t \in Elements(todo') : RuleWrite(t) /\ t.f = f
      BY <1>1, <2>1, <2>3 DEF InForceOrWritten, RuleFor
    <3>1. CASE rules.enabled /\ RuleFor(rules, last) = RuleFor(new, last)
      BY <1>1, <3>1, EmptyIs DEF InForceOrWritten
    <3>2. CASE ~(rules.enabled /\ RuleFor(rules, last) = RuleFor(new, last))
      <4>1. WriteOf(RuleFor(new, last), f) \in Elements(todo')
        BY <2>1, <2>2, <3>2 DEF WritesOf
      <4>2. RuleWrite(WriteOf(RuleFor(new, last), f)) /\ WriteOf(RuleFor(new, last), f).f = f
        BY DEF RuleWrite, WriteOf
      <4> QED BY <4>1, <4>2
    <3> QED BY <3>1, <3>2
  <2> QED BY <2>4, <2>5, <2>6
<1> QED BY <1>3, <1>4 DEF TakeRules, EditTasks

LEMMA RulesNext == TypeOK /\ RulesInv /\ [Next]_vars => RulesInv'
<1> SUFFICES ASSUME TypeOK, RulesInv, [Next]_vars PROVE RulesInv'
  OBVIOUS
<1> USE DEF hardware, window, tracker
<1>1. StoppedIsEmpty'
  BY StoppedNext DEF RulesInv
<1>2. CASE Carries
  BY <1>1, <1>2, CarriesKeeps DEF RulesInv
<1>3. CASE TakeRules
  BY <1>1, <1>3, TakeRulesKeeps DEF RulesInv
<1>4. CASE TakeRefresh
  <2>1. PICK seen \in {supply, "unknown"} : Observe(seen)
    BY <1>4 DEF TakeRefresh
  <2>2. seen \in Sources \cup {"unknown"} /\ todo = <<>> /\ UNCHANGED <<rules, setting>>
    BY <1>4 DEF TakeRefresh, Takes, Idle, TypeOK
  <2> QED BY <1>1, <2>1, <2>2, ObserveKeeps DEF RulesInv
<1>5. CASE TakeSnapshot
  <2>1. /\ poll.seen \in Sources \cup {"unknown"} /\ todo = <<>> /\ UNCHANGED <<rules, setting>>
        /\ Observe(poll.seen)
    BY <1>5 DEF TakeSnapshot, Idle, TypeOK
  <2> QED BY <1>1, <2>1, ObserveKeeps DEF RulesInv
<1>6. CASE Crash
  <2>1. last' = "unknown" /\ todo' = <<>> /\ hist'.inForce = {}
    BY <1>6 DEF Crash, Started
  <2> QED BY <1>1, <2>1, EmptyIs DEF RulesInv, Observed, WritesAreRules, InForceOrWritten
<1>7. CASE Restart
  <2>1. last' = "unknown" /\ todo' = <<>> /\ hist' = hist /\ hist.inForce = {}
    BY <1>7 DEF Restart, RulesInv, StoppedIsEmpty, Observed
  <2> QED BY <1>1, <2>1, EmptyIs DEF RulesInv, Observed, WritesAreRules, InForceOrWritten
<1> QED BY <1>2, <1>3, <1>4, <1>5, <1>6, <1>7, WindowCarries, HardwareCarries, EndCarries, TakeCarries
         DEF Next, TakeCommand

-----------------------------------------------------------------------------
(* The window, and what is on its way to and from it.                      *)

LEMMA GpuViewIs == ASSUME NEW r \in PowerRules PROVE r # GpuView
<1>1. "enabled" \in DOMAIN r /\ "enabled" \notin DOMAIN GpuView
  BY DEF PowerRules, GpuView
<1> QED BY <1>1

LEMMA AppendFresh ==
  ASSUME NEW q \in Seq(Commands), NEW c \in Commands, FreshFirst(q),
         c.op = "rules" /\ c.fresh => \A d \in Elements(q) : d.op # "rules"
  PROVE  FreshFirst(Append(q, c))
<1> DEFINE a == Append(q, c)
<1>1. /\ Len(q) \in Nat /\ Len(a) = Len(q) + 1 /\ a[Len(q) + 1] = c
      /\ \A i \in 1 .. Len(q) : a[i] = q[i]
  BY AppendIs
<1> HIDE DEF a
<1> SUFFICES ASSUME NEW i \in 1 .. Len(a), NEW j \in 1 .. Len(a),
                    a[i].op = "rules", a[i].fresh, j < i
             PROVE  a[j].op # "rules"
  BY DEF FreshFirst, a
<1>2. j \in 1 .. Len(q) /\ a[j] = q[j]
  BY <1>1
<1>3. CASE i = Len(q) + 1
  BY <1>1, <1>2, <1>3 DEF Elements
<1>4. CASE i # Len(q) + 1
  <2>1. i \in 1 .. Len(q) /\ a[i] = q[i]
    BY <1>1, <1>4
  <2> QED BY <1>2, <2>1 DEF FreshFirst
<1> QED BY <1>3, <1>4

LEMMA TailFresh ==
  ASSUME NEW q \in Seq(Commands), q # <<>>, FreshFirst(q)
  PROVE  /\ FreshFirst(Tail(q))
         /\ Head(q).op = "rules" => \A c \in Elements(Tail(q)) : ~(c.op = "rules" /\ c.fresh)
<1> DEFINE t == Tail(q)
<1>1. /\ Head(q) = q[1] /\ Len(q) \in Nat /\ Len(t) = Len(q) - 1 /\ Len(t) \in Nat
      /\ \A i \in 1 .. Len(t) : t[i] = q[i + 1] /\ i + 1 \in 1 .. Len(q)
  BY TailIs
<1> HIDE DEF t
<1>2. FreshFirst(t)
  <2> SUFFICES ASSUME NEW i \in 1 .. Len(t), NEW j \in 1 .. Len(t),
                      t[i].op = "rules", t[i].fresh, j < i
               PROVE  t[j].op # "rules"
    BY DEF FreshFirst
  <2>1. i + 1 \in 1 .. Len(q) /\ j + 1 \in 1 .. Len(q) /\ j + 1 < i + 1
    BY <1>1
  <2> QED BY <1>1, <2>1 DEF FreshFirst
<1>3. ASSUME Head(q).op = "rules", NEW i \in 1 .. Len(t) PROVE ~(t[i].op = "rules" /\ t[i].fresh)
  <2>1. i + 1 \in 1 .. Len(q) /\ 1 \in 1 .. Len(q) /\ 1 < i + 1
    BY <1>1
  <2> QED BY <1>1, <1>3, <2>1 DEF FreshFirst
<1> QED BY <1>2, <1>3 DEF Elements, t

(* The queue of the window, when the user adds to it.                      *)
LEMMA SentIs ==
  ASSUME TypeOK, FormIsStored, NEW new \in PowerRules,
         NEW edit \in {"enabled", "ac", "battery", "optimized"},
         edit # "enabled" => new.enabled = form.enabled,
         edit # "ac" => new.ac = form.ac,
         edit # "battery" => new.battery = form.battery,
         edit # "optimized" => new.optimized = form.optimized
  PROVE  LET c == [op |-> "rules", new |-> new, edit |-> edit, fresh |-> Shown] IN
         /\ c \in Commands /\ Kept(c, rules) /\ c.op = "rules"
         /\ c.fresh => \A d \in Elements(queue) : d.op # "rules"
         /\ ~c.fresh => ~Shown
<1>1. Shown => form = rules
  BY DEF Shown, FormIsStored, GpuView
<1>2. Shown => \A d \in Elements(queue) : d.op # "rules"
  BY DEF Shown, Elements
<1>3. Shown \in BOOLEAN
  BY DEF Shown
<1> QED BY <1>1, <1>2, <1>3 DEF Commands, Kept

LEMMA AppendKeeps ==
  ASSUME TypeOK, FreshFirst(queue), FreshKeep, NEW c \in Commands, Kept(c, rules),
         c.op = "rules" /\ c.fresh => \A d \in Elements(queue) : d.op # "rules",
         queue' = Append(queue, c), rules' = rules
  PROVE  FreshFirst(queue') /\ FreshKeep'
<1>1. queue \in Seq(Commands)
  BY DEF TypeOK
<1>2. FreshFirst(queue') /\ Elements(queue') = Elements(queue) \cup {c}
  BY <1>1, AppendFresh, AppendIs
<1> QED BY <1>2 DEF FreshKeep

LEMMA TailKeeps ==
  ASSUME TypeOK, FreshFirst(queue), FreshKeep, queue # <<>>, queue' = Tail(queue),
         rules' = rules \/ Head(queue).op = "rules"
  PROVE  FreshFirst(queue') /\ FreshKeep'
<1>1. queue \in Seq(Commands)
  BY DEF TypeOK
<1>2. /\ FreshFirst(queue')
      /\ Head(queue).op = "rules" => \A c \in Elements(queue') : ~(c.op = "rules" /\ c.fresh)
      /\ Elements(queue') \subseteq Elements(queue)
  BY <1>1, TailFresh, TailIs
<1> QED BY <1>2 DEF FreshKeep, Kept

(* The events on their way.                                                *)
LEMMA RulesViewKeeps ==
  ASSUME TypeOK, NEW r \in PowerRules, rules' = r, views' = Append(views, r)
  PROVE  ViewsInv'
<1> DEFINE S == PowerRules \cup {[op |-> "gpu"]}
<1>1. views \in Seq(S) /\ r \in S
  BY DEF TypeOK
<1>2. Len(views) \in Nat /\ Len(views') = Len(views) + 1 /\ views'[Len(views) + 1] = r
  BY <1>1, AppendIs
<1>3. Len(views') \in 1 .. Len(views') /\ views'[Len(views')] = r /\ r # GpuView
  BY <1>2, GpuViewIs
<1>4. \A i \in 1 .. Len(views') : i # Len(views') => i < Len(views')
  BY <1>2
<1> QED BY <1>3, <1>4 DEF ViewsInv, LastViewIsStored, FormIsStored

LEMMA GpuViewKeeps ==
  ASSUME TypeOK, ViewsInv, UNCHANGED <<rules, form>>, views' = Append(views, GpuView)
  PROVE  ViewsInv'
<1> DEFINE S == PowerRules \cup {[op |-> "gpu"]}
<1>1. views \in Seq(S) /\ GpuView \in S
  BY DEF TypeOK, GpuView
<1>2. /\ Len(views) \in Nat /\ Len(views') = Len(views) + 1 /\ views'[Len(views) + 1] = GpuView
      /\ \A i \in 1 .. Len(views) : views'[i] = views[i]
  BY <1>1, AppendIs
<1>3. \A i \in 1 .. Len(views') : views'[i] # GpuView => i \in 1 .. Len(views)
  BY <1>2
<1>4. \A i \in 1 .. Len(views) : i \in 1 .. Len(views')
  BY <1>2
<1>5. LastViewIsStored'
  <2> SUFFICES ASSUME NEW i \in 1 .. Len(views'), views'[i] # GpuView,
                      \A j \in 1 .. Len(views') : i < j => views'[j] = GpuView
               PROVE  views'[i] = rules
    BY DEF LastViewIsStored
  <2>1. i \in 1 .. Len(views) /\ views[i] # GpuView
    BY <1>2, <1>3
  <2>2. \A j \in 1 .. Len(views) : i < j => views[j] = GpuView
    BY <1>2, <1>4
  <2> QED BY <1>2, <2>1, <2>2 DEF ViewsInv, LastViewIsStored
<1>6. FormIsStored'
  BY <1>2, <1>4 DEF ViewsInv, FormIsStored
<1> QED BY <1>5, <1>6 DEF ViewsInv

LEMMA ShowKeeps == ASSUME TypeOK, ViewsInv, Show PROVE ViewsInv'
<1> DEFINE S == PowerRules \cup {[op |-> "gpu"]}
<1>1. views \in Seq(S) /\ views # <<>> /\ views' = Tail(views) /\ rules' = rules
  BY DEF TypeOK, Show, tracker
<1>2. /\ Head(views) = views[1]
      /\ Len(views) \in Nat /\ Len(views') = Len(views) - 1 /\ Len(views') \in Nat
      /\ \A i \in 1 .. Len(views') : views'[i] = views[i + 1] /\ i + 1 \in 1 .. Len(views)
  BY <1>1, TailIs
<1>3. \A i \in 1 .. Len(views) : i # 1 => i - 1 \in 1 .. Len(views') /\ views'[i - 1] = views[i]
  <2> TAKE i \in 1 .. Len(views)
  <2> SUFFICES ASSUME i # 1 PROVE i - 1 \in 1 .. Len(views') /\ views'[i - 1] = views[i]
    OBVIOUS
  <2>1. i - 1 \in 1 .. Len(views') /\ (i - 1) + 1 = i
    BY <1>2
  <2> QED BY <1>2, <2>1
<1>4. LastViewIsStored'
  <2> SUFFICES ASSUME NEW i \in 1 .. Len(views'), views'[i] # GpuView,
                      \A j \in 1 .. Len(views') : i < j => views'[j] = GpuView
               PROVE  views'[i] = rules
    BY <1>1 DEF LastViewIsStored
  <2>1. i + 1 \in 1 .. Len(views) /\ views[i + 1] = views'[i]
    BY <1>2
  <2>2. ASSUME NEW j \in 1 .. Len(views), i + 1 < j PROVE views[j] = GpuView
    <3>1. j # 1 /\ i < j - 1
      BY <1>2, <2>2
    <3> QED BY <1>3, <3>1
  <2> QED BY <2>1, <2>2 DEF ViewsInv, LastViewIsStored
<1>5. FormIsStored'
  <2> SUFFICES ASSUME \A i \in 1 .. Len(views') : views'[i] = GpuView PROVE form' = rules
    BY <1>1 DEF FormIsStored
  <2>1. \A i \in 1 .. Len(views) : i # 1 => views[i] = GpuView
    BY <1>3
  <2>2. CASE views[1] = GpuView
    <3>1. form' = form
      BY <1>2, <2>2 DEF Show, GpuView
    <3> QED BY <2>1, <2>2, <3>1 DEF ViewsInv, FormIsStored
  <2>3. CASE views[1] # GpuView
    <3>1. form' = views[1]
      BY <1>2, <2>3 DEF Show, GpuView
    <3>2. 1 \in 1 .. Len(views) /\ \A j \in 1 .. Len(views) : 1 < j => j # 1
      BY <1>2
    <3> QED BY <2>1, <2>3, <3>1, <3>2 DEF ViewsInv, LastViewIsStored
  <2> QED BY <2>2, <2>3
<1> QED BY <1>4, <1>5 DEF ViewsInv

LEMMA ViewsNext == TypeOK /\ StoppedIsEmpty /\ ViewsInv /\ [Next]_vars => ViewsInv'
<1> SUFFICES ASSUME TypeOK, StoppedIsEmpty, ViewsInv, [Next]_vars PROVE ViewsInv'
  OBVIOUS
<1> USE DEF hardware, window, tracker
<1>1. CASE UNCHANGED <<views, form, rules>>
  BY <1>1 DEF ViewsInv, LastViewIsStored, FormIsStored
<1>2. CASE TakeRules
  <2>1. Head(queue).new \in PowerRules /\ rules \in PowerRules
    BY <1>2, TakesIs, CommandIs DEF TakeRules, TypeOK
  <2>2. \/ rules' = Head(queue).new /\ views' = Append(views, Head(queue).new)
        \/ rules' = rules /\ views' = Append(views, rules)
    BY <1>2 DEF TakeRules
  <2> QED BY <2>1, <2>2, RulesViewKeeps
<1>3. CASE GpuLands \/ GpuFails
  <2>1. UNCHANGED <<rules, form>> /\ views' = Append(views, GpuView)
    BY <1>3 DEF GpuLands, GpuFails, GpuView
  <2> QED BY <2>1, GpuViewKeeps
<1>4. CASE Show
  BY <1>4, ShowKeeps
<1>5. CASE Crash
  BY <1>5 DEF Crash, ViewsInv, LastViewIsStored, FormIsStored
<1>6. CASE Restart
  <2>1. rules' \in PowerRules
    BY <1>6, DefaultsAre DEF Restart, TypeOK
  <2>2. views' = <<rules'>> /\ rules' # GpuView
    BY <1>6, <2>1, GpuViewIs DEF Restart
  <2> QED BY <2>2 DEF ViewsInv, LastViewIsStored, FormIsStored
<1>7. CASE TakeGpu \/ TakeWrite \/ TakeRefresh \/ TakeSnapshot
  BY <1>1, <1>7 DEF TakeGpu, TakeWrite, TakeRefresh, TakeSnapshot
<1>8. CASE WriteLands \/ WriteFails \/ Status \/ StatusFails \/ LateLands \/ ForeignChange
  BY <1>1, <1>8 DEF WriteLands, WriteFails, Status, StatusFails, LateLands, ForeignChange
<1>9. CASE UserEdits \/ UserPicksMode \/ UserCommands
  BY <1>1, <1>9 DEF UserEdits, UserPicksMode, UserCommands, SendRules
<1>10. CASE SupplyChanges \/ Tick \/ Sample \/ SampleFails \/ UNCHANGED vars
  BY <1>1, <1>10 DEF SupplyChanges, Tick, Sample, SampleFails, vars
<1> QED BY <1>2, <1>3, <1>4, <1>5, <1>6, <1>7, <1>8, <1>9, <1>10 DEF Next, TakeCommand, WriteEnds

(* What is sent: an edit of the rules, then perhaps a GPU mode, or another *)
(* command.                                                                *)
EditKeeps(new, edit) ==
  /\ new \in PowerRules /\ edit \in {"enabled", "ac", "battery", "optimized"}
  /\ edit # "enabled" => new.enabled = form.enabled
  /\ edit # "ac" => new.ac = form.ac
  /\ edit # "battery" => new.battery = form.battery
  /\ edit # "optimized" => new.optimized = form.optimized

EditOf(new, edit) == [op |-> "rules", new |-> new, edit |-> edit, fresh |-> Shown]

LEMMA UserSends ==
  ASSUME TypeOK, UserEdits \/ UserPicksMode
  PROVE  /\ rules' = rules /\ hist' = [hist EXCEPT !.behind = @ \/ ~Shown]
         /\ \E new, edit, mode :
              /\ EditKeeps(new, edit) /\ mode \in Modes
              /\ \/ queue' = Append(queue, EditOf(new, edit))
                 \/ queue' = Append(Append(queue, EditOf(new, edit)), [op |-> "gpu", mode |-> mode])
                 \/ queue' = Append(queue, [op |-> "gpu", mode |-> mode])
<1> USE DEF hardware, window, tracker
<1>1. form \in PowerRules /\ "Hybrid" \in Modes
  BY DEF TypeOK, Modes
<1>2. CASE UserEdits
  <2>1. PICK new, edit : SendRules(new, edit) /\ EditKeeps(new, edit)
    <3>1. CASE known /\ SendRules([form EXCEPT !.enabled = ~@], "enabled")
      <4>1. EditKeeps([form EXCEPT !.enabled = ~@], "enabled")
        BY <1>1 DEF EditKeeps, PowerRules
      <4> QED BY <3>1, <4>1
    <3>2. ASSUME NEW f \in Fields, NEW v \in Values \cup {Keep},
                 \/ SendRules([form EXCEPT !.ac[f] = v], "ac")
                 \/ SendRules([form EXCEPT !.battery[f] = v], "battery")
          PROVE  \E new, edit : SendRules(new, edit) /\ EditKeeps(new, edit)
      <4>1. EditKeeps([form EXCEPT !.ac[f] = v], "ac")
        BY <1>1 DEF EditKeeps, PowerRules, PowerRule
      <4>2. EditKeeps([form EXCEPT !.battery[f] = v], "battery")
        BY <1>1 DEF EditKeeps, PowerRules, PowerRule
      <4> QED BY <3>2, <4>1, <4>2
    <3>3. CASE SendRules([form EXCEPT !.optimized = TRUE], "optimized")
      <4>1. EditKeeps([form EXCEPT !.optimized = TRUE], "optimized")
        BY <1>1 DEF EditKeeps, PowerRules
      <4> QED BY <3>3, <4>1
    <3> QED BY <1>2, <3>1, <3>2, <3>3 DEF UserEdits
  <2> QED BY <1>1, <1>2, <2>1 DEF UserEdits, SendRules, EditOf
<1>3. CASE UserPicksMode
  <2> DEFINE off == EditOf([form EXCEPT !.optimized = FALSE], "optimized")
  <2>1. EditKeeps([form EXCEPT !.optimized = FALSE], "optimized")
    BY <1>1 DEF EditKeeps, PowerRules
  <2>2. PICK mode \in Modes :
          LET pick == [op |-> "gpu", mode |-> mode] IN
          /\ \/ queue' = queue \o <<off, pick>>
             \/ queue' = Append(queue, pick)
             \/ queue' = Append(queue, off)
          /\ hist' = [hist EXCEPT !.behind = @ \/ ~Shown]
    BY <1>3 DEF UserPicksMode, EditOf
  <2> DEFINE pick == [op |-> "gpu", mode |-> mode]
  <2>3. rules' = rules
    BY <1>3 DEF UserPicksMode
  <2> HIDE DEF off, pick
  <2>4. queue \o <<off, pick>> = Append(Append(queue, off), pick)
    BY DEF TypeOK
  <2>5. /\ hist' = [hist EXCEPT !.behind = @ \/ ~Shown]
        /\ \/ queue' = Append(Append(queue, off), pick)
           \/ queue' = Append(queue, pick)
           \/ queue' = Append(queue, off)
    BY <2>2, <2>4 DEF pick
  <2> QED BY <2>1, <2>3, <2>5 DEF off, pick
<1> QED BY <1>2, <1>3

LEMMA EditOfIs ==
  ASSUME TypeOK, FormIsStored, NEW new, NEW edit, EditKeeps(new, edit)
  PROVE  LET c == EditOf(new, edit) IN
         /\ c \in Commands /\ c.op = "rules" /\ Kept(c, rules)
         /\ c.fresh => \A d \in Elements(queue) : d.op # "rules"
         /\ ~c.fresh => ~Shown
BY SentIs DEF EditKeeps, EditOf

LEMMA QueueNext ==
  TypeOK /\ StoppedIsEmpty /\ ViewsInv /\ QueueInv /\ [Next]_vars => QueueInv'
<1> SUFFICES ASSUME TypeOK, StoppedIsEmpty, ViewsInv, QueueInv, [Next]_vars PROVE QueueInv'
  OBVIOUS
<1> USE DEF hardware, window, tracker
<1>1. CASE UNCHANGED <<queue, rules>>
  BY <1>1 DEF QueueInv, FreshFirst, FreshKeep
<1>2. CASE TakeCommand
  <2>1. \E op : Takes(op) /\ (rules' = rules \/ op = "rules")
    BY <1>2 DEF TakeCommand, TakeRules, TakeGpu, TakeWrite, TakeRefresh
  <2>2. queue # <<>> /\ queue' = Tail(queue) /\ (rules' = rules \/ Head(queue).op = "rules")
    BY <2>1 DEF Takes
  <2> QED BY <2>2, TailKeeps DEF QueueInv
<1>3. CASE UserEdits \/ UserPicksMode
  <2>1. PICK new, edit, mode :
          /\ EditKeeps(new, edit) /\ mode \in Modes
          /\ \/ queue' = Append(queue, EditOf(new, edit))
             \/ queue' = Append(Append(queue, EditOf(new, edit)), [op |-> "gpu", mode |-> mode])
             \/ queue' = Append(queue, [op |-> "gpu", mode |-> mode])
    BY <1>3, UserSends
  <2> DEFINE c == EditOf(new, edit)
             g == [op |-> "gpu", mode |-> mode]
  <2>2. /\ c \in Commands /\ c.op = "rules" /\ Kept(c, rules)
        /\ c.fresh => \A d \in Elements(queue) : d.op # "rules"
    BY <2>1, EditOfIs DEF ViewsInv
  <2>3. g \in Commands /\ g.op = "gpu" /\ Kept(g, rules)
    BY <2>1 DEF Commands, Kept
  <2>4. rules' = rules /\ queue \in Seq(Commands)
    BY <1>3, UserSends DEF TypeOK
  <2> HIDE DEF c, g
  <2>5. FreshFirst(Append(queue, c)) /\ Append(queue, c) \in Seq(Commands)
    BY <2>2, <2>4, AppendFresh, AppendIs DEF QueueInv
  <2>6. CASE queue' = Append(queue, c)
    BY <2>2, <2>4, <2>6, AppendKeeps DEF QueueInv
  <2>7. CASE queue' = Append(queue, g)
    BY <2>3, <2>4, <2>7, AppendKeeps DEF QueueInv
  <2>8. CASE queue' = Append(Append(queue, c), g)
    <3>1. FreshFirst(queue') /\ Elements(queue') = Elements(queue) \cup {c, g}
      <4> DEFINE q == Append(queue, c)
      <4>1. Elements(q) = Elements(queue) \cup {c}
        BY <2>2, <2>4, AppendIs
      <4>2. FreshFirst(q) /\ q \in Seq(Commands) /\ queue' = Append(q, g)
        BY <2>5, <2>8
      <4> HIDE DEF q
      <4>3. FreshFirst(Append(q, g)) /\ Elements(Append(q, g)) = Elements(q) \cup {g}
        BY <2>3, <4>2, AppendFresh, AppendIs
      <4> QED BY <4>1, <4>2, <4>3
    <3> QED BY <2>2, <2>3, <2>4, <3>1 DEF QueueInv, FreshKeep
  <2> QED BY <2>1, <2>6, <2>7, <2>8 DEF c, g
<1>4. CASE UserCommands
  <2>1. PICK c : c \in Commands /\ c.op # "rules" /\ queue' = Append(queue, c)
    BY <1>4 DEF UserCommands, Commands
  <2>2. rules' = rules /\ Kept(c, rules)
    BY <1>4, <2>1 DEF UserCommands, Kept
  <2> QED BY <2>1, <2>2, AppendKeeps DEF QueueInv
<1>5. CASE Crash
  BY <1>5, EmptyIs DEF Crash, QueueInv, FreshFirst, FreshKeep
<1>6. CASE Restart
  <2>1. queue' = <<>>
    BY <1>6 DEF Restart, StoppedIsEmpty
  <2> QED BY <2>1, EmptyIs DEF QueueInv, FreshFirst, FreshKeep
<1>7. CASE WriteEnds \/ TakeSnapshot
  BY <1>1, <1>7 DEF WriteEnds, WriteLands, WriteFails, Status, StatusFails, GpuLands, GpuFails,
                    TakeSnapshot
<1>8. CASE SupplyChanges \/ Tick \/ Sample \/ SampleFails \/ Show \/ LateLands \/ ForeignChange
           \/ UNCHANGED vars
  BY <1>1, <1>8 DEF SupplyChanges, Tick, Sample, SampleFails, Show, LateLands, ForeignChange, vars
<1> QED BY <1>2, <1>3, <1>4, <1>5, <1>6, <1>7, <1>8 DEF Next

-----------------------------------------------------------------------------
(* The GPU mode, and who asked for it.                                     *)

(* A step that keeps the work, or takes some away.                         *)
LEMMA DropKeeps ==
  ASSUME TypeOK, GpuIsNext, StatusIsAsked, todo # <<>>, todo' = Tail(todo),
         hist'.wish = hist.wish, hist'.behind = hist.behind
  PROVE  GpuIsNext' /\ GpuIsAsked' /\ StatusIsAsked'
<1>1. /\ Elements(todo) = {Head(todo)} \cup Elements(Tail(todo))
      /\ Tail(todo) \in Seq(Tasks)
  BY TailIs DEF TypeOK
<1>2. \A t \in Elements(todo') : t.op # "gpu" /\ t \in Elements(todo)
  BY <1>1 DEF GpuIsNext
<1>3. todo' # <<>> => Elements(Tail(todo')) \subseteq Elements(todo')
  BY <1>1, TailIs
<1> QED BY <1>2, <1>3 DEF GpuIsNext, GpuIsAsked, StatusIsAsked

LEMMA SameKeeps ==
  ASSUME GpuIsNext, GpuIsAsked, StatusIsAsked, UNCHANGED todo,
         hist'.wish = hist.wish, hist.behind => hist'.behind, hist.raced => hist'.raced,
         gpu' = gpu \/ hist'.raced \/ \A t \in Elements(todo) : t.op # "gpu"
  PROVE  GpuIsNext' /\ GpuIsAsked' /\ StatusIsAsked'
BY DEF GpuIsNext, GpuIsAsked, StatusIsAsked, Leaving

(* Work of writes and looks at the status.                                 *)
LEMMA NoGpuKeeps ==
  ASSUME todo' \in Seq(Tasks), \A t \in Elements(todo') : t.op # "gpu",
         \A t \in Elements(todo') :
           t.op = "status" /\ t.explicit => hist'.wish = "optimized" \/ hist'.behind
  PROVE  GpuIsNext' /\ GpuIsAsked' /\ StatusIsAsked'
<1>1. todo' # <<>> => Elements(Tail(todo')) \subseteq Elements(todo')
  BY TailIs
<1> QED BY <1>1 DEF GpuIsNext, GpuIsAsked, StatusIsAsked

LEMMA WritesAreWrites ==
  ASSUME NEW rule, NEW t \in WritesOf(rule)
  PROVE  t.op = "write"
BY DEF WritesOf, WriteOf

LEMMA StatusOfIs ==
  ASSUME NEW source, NEW e PROVE StatusOf(source, e).op = "status" /\ StatusOf(source, e).explicit = e
BY DEF StatusOf

LEMMA ObserveGpu ==
  ASSUME TypeOK, todo = <<>>, GpuIsNext, GpuIsAsked, StatusIsAsked,
         NEW seen \in Sources \cup {"unknown"}, Observe(seen), gpu' = gpu
  PROVE  GpuIsNext' /\ GpuIsAsked' /\ StatusIsAsked' /\ hist'.behind = hist.behind
<1>1. CASE seen = "unknown"
  BY <1>1, SameKeeps DEF Observe
<1>2. CASE seen # "unknown"
  <2>1. /\ todo' \in Seq(Tasks)
        /\ \A t \in Elements(todo') :
             t \in WritesOf(RuleFor(rules, seen)) \/ t = StatusOf(seen, FALSE)
    BY <1>2, ObserveWork DEF TypeOK
  <2>2. \A t \in Elements(todo') : t.op # "gpu" /\ ~(t.op = "status" /\ t.explicit)
    <3> TAKE t \in Elements(todo')
    <3>1. CASE t \in WritesOf(RuleFor(rules, seen))
      BY <3>1, WritesAreWrites
    <3>2. CASE t = StatusOf(seen, FALSE)
      BY <3>2, StatusOfIs
    <3> QED BY <2>1, <3>1, <3>2
  <2>3. hist'.behind = hist.behind
    BY <1>2 DEF Observe, TypeOK, Histories
  <2> QED BY <2>1, <2>2, <2>3, NoGpuKeeps
<1> QED BY <1>1, <1>2

(* New rules switch GPU Optimized on when the user did, or when they were  *)
(* sent behind an edit that was not shown yet.                             *)
LEMMA TakeRulesGpu ==
  ASSUME TypeOK, QueueInv, GpuInv, TakeRules
  PROVE  GpuInv'
<1> USE DEF hardware, window, tracker
<1> DEFINE c == Head(queue)
<1>1. /\ c \in Commands /\ c.op = "rules" /\ todo = <<>> /\ gpu' = gpu /\ last' = last
      /\ Elements(queue) = {c} \cup Elements(queue')
  BY TakesIs DEF TakeRules
<1>2. /\ c.new \in PowerRules /\ rules \in PowerRules /\ c.fresh \in BOOLEAN
      /\ c.new.optimized \in BOOLEAN
  BY <1>1, CommandIs DEF TypeOK, PowerRules
<1>3. CASE UNCHANGED <<rules, todo, hist>>
  BY <1>1, <1>3, SameKeeps DEF GpuInv, StaleIsBehind
<1>4. CASE /\ rules' = c.new
           /\ todo' = EditTasks(rules, c.new)
           /\ hist' = [hist EXCEPT !.edited = TRUE,
                 !.wish = IF c.edit = "optimized" /\ c.new.optimized THEN "optimized" ELSE @]
  <2> DEFINE new == c.new
  <2>1. /\ hist'.behind = hist.behind
        /\ c.edit = "optimized" /\ new.optimized => hist'.wish = "optimized"
    BY <1>4 DEF TypeOK, Histories
  <2>2. new.optimized /\ ~rules.optimized => hist'.wish = "optimized" \/ hist'.behind
    <3>1. CASE c.fresh
      BY <1>1, <2>1, <3>1 DEF QueueInv, FreshKeep, Kept
    <3>2. CASE ~c.fresh
      BY <1>1, <2>1, <3>2 DEF GpuInv, StaleIsBehind
    <3> QED BY <1>2, <3>1, <3>2
  <2> HIDE DEF c
  <2>3. /\ todo' \in Seq(Tasks)
        /\ \A t \in Elements(todo') :
             \/ t \in WritesOf(RuleFor(new, last))
             \/ t = StatusOf(last, TRUE) /\ new.optimized /\ ~rules.optimized
    <3>1. new \in PowerRules /\ rules \in PowerRules /\ todo' = EditTasks(rules, new)
      BY <1>2, <1>4
    <3> HIDE DEF new
    <3>2. Elements(EditTasks(rules, new))
            = {t \in WritesOf(RuleFor(new, last)) :
                 /\ new.enabled /\ last # "unknown"
                 /\ ~(rules.enabled /\ RuleFor(rules, last) = RuleFor(new, last))}
                \cup {t \in {StatusOf(last, TRUE)} :
                       new.optimized /\ ~rules.optimized /\ last # "unknown" /\ ProductGpu}
      BY <3>1, EditWork
    <3>3. EditTasks(rules, new) \in Seq(Tasks)
      BY <3>1, EditWork
    <3> QED BY <3>1, <3>2, <3>3
  <2>4. \A t \in Elements(todo') :
          /\ t.op # "gpu"
          /\ t.op = "status" /\ t.explicit => hist'.wish = "optimized" \/ hist'.behind
    BY <2>2, <2>3, WritesAreWrites, StatusOfIs
  <2>5. GpuIsNext' /\ GpuIsAsked' /\ StatusIsAsked'
    BY <2>3, <2>4, NoGpuKeeps
  <2> QED BY <1>1, <2>1, <2>5 DEF GpuInv, StaleIsBehind
<1> QED BY <1>3, <1>4 DEF TakeRules, EditTasks

(* An automatic look at the status leaves Ultimate alone.                  *)
LEMMA StatusGpu == ASSUME TypeOK, GpuInv, Status PROVE GpuInv'
<1> USE DEF hardware, window, tracker
<1> DEFINE h == Head(todo)
           rest == Tail(todo)
<1>1. /\ h \in Tasks /\ h.op = "status" /\ rest \in Seq(Tasks) /\ todo # <<>>
      /\ Elements(todo) = {h} \cup Elements(rest)
      /\ UNCHANGED <<gpu, queue>>
  BY DoingIs DEF Status
<1>2. hist'.wish = hist.wish /\ hist'.behind = hist.behind
  BY DEF Status, TypeOK, Histories
<1>3. CASE todo' = rest
  BY <1>1, <1>2, <1>3, DropKeeps DEF GpuInv, StaleIsBehind
<1>4. ASSUME NEW want \in {"Hybrid", "Integrated"}, ~(gpu = "Ultimate" /\ ~h.explicit),
             todo' = <<[op |-> "gpu", mode |-> want]>> \o rest
      PROVE  GpuInv'
  <2> DEFINE t == [op |-> "gpu", mode |-> want]
  <2>1. t \in Tasks /\ t.op = "gpu" /\ todo' = <<t>> \o rest
    BY <1>4 DEF Tasks, Modes
  <2>2. gpu = "Ultimate" => hist.wish = "optimized" \/ hist.behind
    BY <1>1, <1>4 DEF GpuInv, StatusIsAsked
  <2>3. \A u \in Elements(rest) : u.op # "gpu" /\ u \in Elements(todo)
    BY <1>1 DEF GpuInv, GpuIsNext
  <2>4. rest \in Seq(Tasks)
    BY <1>1
  <2> HIDE DEF t, rest
  <2>5. Tail(todo') = rest /\ Elements(todo') = {t} \cup Elements(rest)
    BY <2>1, <2>4, PrependIs
  <2>6. GpuIsNext' /\ StatusIsAsked'
    BY <1>2, <2>1, <2>3, <2>5 DEF GpuInv, GpuIsNext, StatusIsAsked
  <2>7. GpuIsAsked'
    BY <1>1, <1>2, <2>2, <2>3, <2>5 DEF GpuIsAsked, Leaving
  <2> QED BY <1>1, <1>2, <2>6, <2>7 DEF GpuInv, StaleIsBehind
<1> QED BY <1>3, <1>4 DEF Status

LEMMA GpuNext == TypeOK /\ StoppedIsEmpty /\ ViewsInv /\ QueueInv /\ GpuInv /\ [Next]_vars => GpuInv'
<1> SUFFICES ASSUME TypeOK, StoppedIsEmpty, ViewsInv, QueueInv, GpuInv, [Next]_vars PROVE GpuInv'
  OBVIOUS
<1> USE DEF hardware, window, tracker
<1>1. CASE UNCHANGED <<gpu, queue, todo, hist>>
  BY <1>1 DEF GpuInv, StaleIsBehind, GpuIsNext, GpuIsAsked, StatusIsAsked, Leaving
<1>2. CASE TakeRules
  BY <1>2, TakeRulesGpu
<1>3. CASE TakeGpu
  <2>1. /\ Head(queue) \in Commands /\ Head(queue).op = "gpu"
        /\ Elements(queue) = {Head(queue)} \cup Elements(queue')
    BY <1>3, TakesIs DEF TakeGpu
  <2>2. /\ Head(queue).mode \in Modes
        /\ hist'.wish = Head(queue).mode /\ hist'.behind = hist.behind
    BY <1>3, <2>1, CommandIs DEF TakeGpu, TypeOK, Histories
  <2> DEFINE t == [op |-> "gpu", mode |-> Head(queue).mode]
  <2>3. t \in Tasks /\ t.op = "gpu" /\ t.mode = Head(queue).mode /\ todo' = <<t>>
    BY <1>3, <2>2 DEF Tasks, TakeGpu
  <2> HIDE DEF t
  <2>4. Elements(todo') = {t} /\ Elements(Tail(todo')) = {}
    BY <2>3, SingleIs, EmptyIs
  <2>5. GpuIsNext' /\ GpuIsAsked' /\ StatusIsAsked'
    BY <2>2, <2>3, <2>4 DEF GpuIsNext, GpuIsAsked, StatusIsAsked, Leaving, Modes
  <2> QED BY <2>1, <2>2, <2>5 DEF GpuInv, StaleIsBehind
<1>4. CASE TakeWrite
  <2>1. /\ Elements(queue) = {Head(queue)} \cup Elements(queue') /\ hist' = hist
        /\ todo' \in Seq(Tasks)
    BY <1>4, TakesIs, TakeTypes DEF TakeWrite, TakeCommand, TypeOK
  <2>2. PICK t : todo' = <<t>> /\ t.op = "write"
    BY <1>4 DEF TakeWrite
  <2>3. Elements(todo') = {t}
    BY <2>2 DEF Elements
  <2> QED BY <2>1, <2>2, <2>3, NoGpuKeeps DEF GpuInv, StaleIsBehind
<1>5. CASE TakeRefresh
  <2>1. PICK seen \in {supply, "unknown"} : Observe(seen)
    BY <1>5 DEF TakeRefresh
  <2>2. /\ seen \in Sources \cup {"unknown"} /\ todo = <<>> /\ gpu' = gpu
        /\ Elements(queue) = {Head(queue)} \cup Elements(queue')
    BY <1>5, TakesIs DEF TakeRefresh, TypeOK
  <2> QED BY <2>1, <2>2, ObserveGpu DEF GpuInv, StaleIsBehind
<1>6. CASE TakeSnapshot
  <2>1. /\ poll.seen \in Sources \cup {"unknown"} /\ todo = <<>> /\ UNCHANGED <<gpu, queue>>
        /\ Observe(poll.seen)
    BY <1>6 DEF TakeSnapshot, Idle, TypeOK
  <2> QED BY <2>1, ObserveGpu DEF GpuInv, StaleIsBehind
<1>7. CASE Status
  BY <1>7, StatusGpu
<1>8. CASE WriteLands \/ WriteFails \/ StatusFails \/ GpuLands \/ GpuFails
  <2>1. todo # <<>> /\ todo' = Tail(todo) /\ queue' = queue
    BY <1>8 DEF WriteLands, WriteFails, StatusFails, GpuLands, GpuFails, Doing
  <2>2. hist'.wish = hist.wish /\ hist'.behind = hist.behind
    BY <1>8 DEF WriteLands, SetField, WriteFails, StatusFails, GpuLands, GpuFails, TypeOK, Histories
  <2> QED BY <2>1, <2>2, DropKeeps DEF GpuInv, StaleIsBehind
<1>9. CASE LateLands \/ ForeignChange
  <2>1. UNCHANGED <<todo, queue>>
    BY <1>9 DEF LateLands, ForeignChange
  <2>2. \/ UNCHANGED <<gpu, hist>>
        \/ \E f, v : SetField(f, v, FALSE) /\ UNCHANGED gpu
        \/ hist' = [hist EXCEPT !.drift = TRUE, !.raced = @ \/ Doing("gpu")]
    BY <1>9 DEF LateLands, ForeignChange
  <2>3. /\ hist'.wish = hist.wish /\ hist'.behind = hist.behind
        /\ hist.raced => hist'.raced
        /\ gpu' = gpu \/ (Doing("gpu") => hist'.raced)
    BY <2>2 DEF SetField, TypeOK, Histories
  <2>4. Doing("gpu") \/ \A t \in Elements(todo) : t.op # "gpu"
    <3>1. CASE todo = <<>>
      BY <3>1, EmptyIs
    <3>2. CASE todo # <<>>
      <4>1. up /\ Elements(todo) = {Head(todo)} \cup Elements(Tail(todo))
        BY <3>2, TailIs DEF TypeOK, StoppedIsEmpty
      <4> QED BY <3>2, <4>1 DEF Doing, GpuInv, GpuIsNext
    <3> QED BY <3>1, <3>2
  <2> QED BY <2>1, <2>3, <2>4, SameKeeps DEF GpuInv, StaleIsBehind
<1>10. CASE UserEdits \/ UserPicksMode
  <2>1. PICK new, edit, mode :
          /\ EditKeeps(new, edit) /\ mode \in Modes
          /\ \/ queue' = Append(queue, EditOf(new, edit))
             \/ queue' = Append(Append(queue, EditOf(new, edit)), [op |-> "gpu", mode |-> mode])
             \/ queue' = Append(queue, [op |-> "gpu", mode |-> mode])
    BY <1>10, UserSends
  <2> DEFINE c == EditOf(new, edit)
             g == [op |-> "gpu", mode |-> mode]
  <2>2. c \in Commands /\ (~c.fresh => ~Shown)
    BY <2>1, EditOfIs DEF ViewsInv
  <2>3. g \in Commands /\ g.op = "gpu"
    BY <2>1 DEF Commands
  <2>4. /\ hist'.wish = hist.wish /\ hist'.behind = (hist.behind \/ ~Shown)
        /\ hist'.raced = hist.raced
    BY <1>10, UserSends DEF TypeOK, Histories
  <2>5. UNCHANGED <<gpu, todo>> /\ queue \in Seq(Commands)
    BY <1>10 DEF UserEdits, UserPicksMode, TypeOK
  <2> HIDE DEF c, g
  <2>6. Elements(queue') \subseteq Elements(queue) \cup {c, g}
    <3>1. /\ Append(queue, c) \in Seq(Commands)
          /\ Elements(Append(queue, c)) = Elements(queue) \cup {c}
          /\ Elements(Append(queue, g)) = Elements(queue) \cup {g}
      BY <2>2, <2>3, <2>5, AppendIs
    <3> DEFINE q == Append(queue, c)
    <3>2. q \in Seq(Commands) /\ Elements(q) = Elements(queue) \cup {c}
      BY <3>1
    <3> HIDE DEF q
    <3>3. Elements(Append(q, g)) = Elements(q) \cup {g}
      BY <2>3, <3>2, AppendIs
    <3> QED BY <2>1, <3>1, <3>2, <3>3 DEF c, g, q
  <2>7. StaleIsBehind'
    BY <2>2, <2>3, <2>4, <2>6 DEF GpuInv, StaleIsBehind
  <2> QED BY <2>4, <2>5, <2>7, SameKeeps DEF GpuInv
<1>11. CASE UserCommands
  <2>1. PICK c : c \in Commands /\ c.op # "rules" /\ queue' = Append(queue, c)
    BY <1>11 DEF UserCommands, Commands
  <2>2. UNCHANGED <<gpu, todo, hist>> /\ queue \in Seq(Commands)
    BY <1>11 DEF UserCommands, TypeOK
  <2>3. Elements(queue') = Elements(queue) \cup {c}
    BY <2>1, <2>2, AppendIs
  <2> QED BY <2>1, <2>2, <2>3, SameKeeps DEF GpuInv, StaleIsBehind
<1>12. CASE Crash
  BY <1>12, EmptyIs DEF Crash, GpuInv, StaleIsBehind, GpuIsNext, GpuIsAsked, StatusIsAsked
<1>13. CASE SupplyChanges \/ Tick \/ Sample \/ SampleFails \/ Show \/ Restart \/ UNCHANGED vars
  BY <1>1, <1>13 DEF SupplyChanges, Tick, Sample, SampleFails, Show, Restart, vars
<1> QED BY <1>2, <1>3, <1>4, <1>5, <1>6, <1>7, <1>8, <1>9, <1>10, <1>11, <1>12, <1>13
         DEF Next, TakeCommand, WriteEnds

-----------------------------------------------------------------------------
(* The theorems.                                                           *)

LEMMA InitInv == Init => IInv
<1> SUFFICES ASSUME Init PROVE IInv
  OBVIOUS
<1>1. rules \in PowerRules /\ DefaultRules \in PowerRules /\ Started \in Histories
  BY StoredAssumption, DefaultsAre DEF Init
<1>2. TypeOK
  <2>1. /\ views \in Seq(PowerRules \cup {[op |-> "gpu"]})
        /\ queue \in Seq(Commands) /\ todo \in Seq(Tasks)
    BY <1>1, SingleIs, EmptyIs DEF Init
  <2>2. used \in [commands : 0 .. MaxCommands, plugs : 0 .. MaxPlugs, troubles : 0 .. MaxTroubles]
    BY BoundsAssumption DEF Init
  <2> QED BY <1>1, <2>1, <2>2 DEF Init, TypeOK, Modes
<1>3. RulesInv
  BY EmptyIs DEF Init, Started, RulesInv, StoppedIsEmpty, Observed, WritesAreRules, InForceOrWritten
<1>4. ViewsInv
  <2>1. views = <<rules>> /\ rules # GpuView
    BY <1>1, GpuViewIs DEF Init
  <2> QED BY <2>1 DEF ViewsInv, LastViewIsStored, FormIsStored
<1>5. QueueInv
  BY EmptyIs DEF Init, QueueInv, FreshFirst, FreshKeep
<1>6. GpuInv
  BY EmptyIs DEF Init, GpuInv, StaleIsBehind, GpuIsNext, GpuIsAsked, StatusIsAsked
<1> QED BY <1>2, <1>3, <1>4, <1>5, <1>6 DEF IInv

LEMMA InvNext == IInv /\ [Next]_vars => IInv'
<1> SUFFICES ASSUME IInv, [Next]_vars PROVE IInv'
  OBVIOUS
<1>1. TypeOK /\ RulesInv /\ StoppedIsEmpty /\ ViewsInv /\ QueueInv /\ GpuInv
  BY DEF IInv, RulesInv
<1> QED BY <1>1, TypeNext, RulesNext, ViewsNext, QueueNext, GpuNext DEF IInv

LEMMA AlwaysInv == Spec => []IInv
BY InitInv, InvNext, PTL DEF Spec

(* The types, and what of the work, the events and the queue they rest on. *)
THEOREM Types == Spec => []TypeOK
<1>1. IInv => TypeOK
  BY DEF IInv
<1> QED BY <1>1, AlwaysInv, PTL

(* observe: the first power source seen after a start writes no profile    *)
(* and no refresh rate, and loading the rules writes nothing: before that, *)
(* the user edited the rules or two sources were seen.                     *)
THEOREM FirstObservation == Spec => []FirstSourceWritesNothing
<1>1. IInv => FirstSourceWritesNothing
  <2> SUFFICES ASSUME IInv, NEW i \in 1 .. Len(todo), todo[i].op = "write", todo[i].rule
               PROVE  hist.edited \/ hist.sources = Sources
    BY DEF FirstSourceWritesNothing
  <2>1. todo[i] \in Elements(todo) /\ RuleWrite(todo[i])
    BY DEF Elements, RuleWrite
  <2> QED BY <2>1 DEF IInv, RulesInv, WritesAreRules
<1> QED BY <1>1, AlwaysInv, PTL

(* set_rules and observe_power_source: when the worker has done its work,  *)
(* what a rule set and nothing else changed since is what the rule for the *)
(* observed source says.                                                   *)
THEOREM RuleIsInForce == Spec => []RuleInForce
<1>1. IInv => RuleInForce
  BY EmptyIs DEF IInv, RulesInv, InForceOrWritten, RuleInForce, Idle
<1> QED BY <1>1, AlwaysInv, PTL

(* send_rules: an edit made while nothing was on its way keeps every part  *)
(* of the stored rules it does not edit.                                   *)
THEOREM EditsAreNarrow == Spec => []EditsKeepTheRest
<1>1. IInv => EditsKeepTheRest
  <2> SUFFICES ASSUME IInv, NEW i \in 1 .. Len(queue) PROVE Kept(queue[i], rules)
    BY DEF EditsKeepTheRest, Kept
  <2>1. queue[i] \in Elements(queue)
    BY DEF Elements
  <2> QED BY <2>1 DEF IInv, QueueInv, FreshKeep
<1> QED BY <1>1, AlwaysInv, PTL

(* apply_gpu_optimized: only a request of the user leaves Ultimate, unless *)
(* the user did not wait for an edit to be shown, or something else        *)
(* changed the mode between the look at the status and the write.          *)
THEOREM UltimateStays == Spec => UltimateKept
<1>1. IInv /\ [Next]_vars => [Leaves => Asked \/ hist.behind \/ hist.raced]_vars
  <2> SUFFICES ASSUME IInv, [Next]_vars, Leaves PROVE Asked \/ hist.behind \/ hist.raced
    OBVIOUS
  <2> USE DEF hardware, window, tracker
  <2>1. /\ TypeOK /\ todo # <<>> /\ todo' = Tail(todo) /\ Head(todo).op = "gpu"
        /\ gpu = "Ultimate" /\ gpu' # "Ultimate"
    BY DEF IInv, Leaves, Doing
  <2>2. Head(todo) \in Elements(todo) /\ todo' # todo
    BY <2>1, TailIs DEF TypeOK
  <2>3. gpu' = Head(todo).mode
    <3>1. CASE GpuLands
      BY <3>1 DEF GpuLands
    <3>2. CASE UNCHANGED gpu \/ UNCHANGED todo
      BY <2>1, <2>2, <3>2
    <3>3. CASE TakeCommand \/ TakeSnapshot
      BY <2>1, <3>3 DEF TakeCommand, TakeRules, TakeGpu, TakeWrite, TakeRefresh, Takes,
                        TakeSnapshot, Idle
    <3>4. CASE WriteEnds
      BY <3>1, <3>2, <3>4 DEF WriteEnds, WriteLands, WriteFails, Status, StatusFails, GpuFails
    <3>5. CASE UserEdits \/ UserPicksMode \/ UserCommands \/ Show \/ Crash \/ Restart
      BY <3>2, <3>5 DEF UserEdits, UserPicksMode, UserCommands, Show, Crash, Restart
    <3>6. CASE SupplyChanges \/ Tick \/ Sample \/ SampleFails \/ UNCHANGED vars
      BY <3>2, <3>6 DEF SupplyChanges, Tick, Sample, SampleFails, vars
    <3>7. CASE LateLands \/ ForeignChange
      BY <3>2, <3>7 DEF LateLands, ForeignChange
    <3> QED BY <3>3, <3>4, <3>5, <3>6, <3>7 DEF Next
  <2> QED BY <2>1, <2>2, <2>3 DEF IInv, GpuInv, GpuIsAsked, Leaving, Asked
<1> QED BY <1>1, AlwaysInv, PTL DEF Spec, UltimateKept
===============================================================================
