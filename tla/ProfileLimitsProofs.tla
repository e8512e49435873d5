-------------------------- MODULE ProfileLimitsProofs --------------------------
(***************************************************************************)
(* The tracker of the profile limits, for any profiles, items and values:  *)
(* its memory is its file's, and the profile it records for is the one in  *)
(* force. Both need nothing of the jobs but that the worker observes a     *)
(* profile only between them, and records only what the tracker remembers. *)
(* That what is remembered is in force after a replay needs the jobs: what *)
(* a replay still has to write, and what it waits for.                     *)
(*                                                                         *)
(* The other two parts of MCProfileLimits follow, each of its own Init and *)
(* Next. The queue of the GPU mode: what a caller has read is queued still *)
(* unless another one wrote, and a mix is blamed on a caller. The settings *)
(* behind attributes: the value in every file is a fair one, or a call is  *)
(* under way that will answer for it.                                      *)
(***************************************************************************)
EXTENDS MCProfileLimits, FiniteSetTheorems, WellFoundedInduction, TLAPS

(* A history keeps its two fields.                                         *)
Shape == hist = [sure |-> hist.sure, moved |-> hist.moved]

Inv == LimitsMatchFile /\ TrackedIsInForce /\ Shape

(* A file that parses holds one set of rules.                              *)
LEMMA HeldIs ==
  ASSUME NEW f, f = Unreadable \/ \E r : f = {r}
  PROVE  f # Unreadable => f = {Held(f)}
BY DEF Held, Unreadable

LEMMA InitialFile == ASSUME NEW f \in InitialFiles PROVE f = Unreadable \/ \E r : f = {r}
<1>1. IsFiniteSet(f) /\ Cardinality(f) <= 1
  BY FilesAssumption
<1>2. Cardinality(f) \in Nat
  BY <1>1, FS_CardinalityType
<1>3. CASE Cardinality(f) = 0
  BY <1>1, <1>3, FS_EmptySet DEF Unreadable
<1>4. CASE Cardinality(f) = 1
  BY <1>1, <1>4, FS_Singleton
<1>5. Cardinality(f) = 0 \/ Cardinality(f) = 1
  BY <1>1, <1>2
<1> QED BY <1>3, <1>4, <1>5

(* Whatever a process finds when it starts, it remembers what is there.    *)
LEMMA LoadMatches ==
  ASSUME NEW f, f = Unreadable \/ \E r : f = {r}
  PROVE  IF f = Unreadable THEN Held(f) = Nothing ELSE f = {Held(f)}
BY HeldIs DEF Held

LEMMA InitInv == Init => Inv
<1> SUFFICES ASSUME Init PROVE Inv
  OBVIOUS
<1>1. LimitsMatchFile
  BY InitialFile, LoadMatches DEF Init, LimitsMatchFile
<1>2. TrackedIsInForce /\ Shape
  BY DEF Init, TrackedIsInForce, Shape
<1> QED BY <1>1, <1>2 DEF Inv

-----------------------------------------------------------------------------
(* The file and the memory.                                                *)

LEMMA SaveMatches ==
  ASSUME LimitsMatchFile, ~error, NEW next, Save(next), error' = error
  PROVE  LimitsMatchFile'
BY DEF Save, LimitsMatchFile, Unreadable

LEMMA MatchesNext == LimitsMatchFile /\ [Next]_vars => LimitsMatchFile'
<1> SUFFICES ASSUME LimitsMatchFile, [Next]_vars PROVE LimitsMatchFile'
  OBVIOUS
<1>1. CASE UNCHANGED <<file, rules, error>>
  BY <1>1 DEF LimitsMatchFile
<1>2. ASSUME NEW enabled \in BOOLEAN, SetAutoApply(enabled) PROVE LimitsMatchFile'
  BY <1>2 DEF SetAutoApply, LimitsMatchFile, Unreadable
<1>3. CASE Ack
  <2>1. CASE UNCHANGED <<file, rules>>
    BY <1>1, <1>3, <2>1 DEF Ack
  <2>2. CASE Records(Waits) /\ \E next : Save(next)
    BY <1>3, <2>2, SaveMatches DEF Ack, Records
  <2> QED BY <1>3, <2>1, <2>2 DEF Ack
<1>4. CASE Kill
  <2>1. file = Unreadable \/ \E r : file = {r}
    BY DEF LimitsMatchFile
  <2> QED BY <1>4, <2>1, LoadMatches DEF Kill, Load, LimitsMatchFile
<1>5. CASE Poll \/ \E p \in Profiles : SetPerformance(p)
  BY <1>1, <1>5 DEF Poll, SetPerformance
<1>6. CASE \/ \E val \in [Firmware -> Values \cup {None}] : SetPowerLimits(val)
           \/ \E w \in Writes : SetTuning(w)
           \/ Send \/ Nack \/ Refused \/ SkipNvidia \/ GiveUp \/ Perform \/ PerformFails
           \/ \E w \in late : Land(w) \/ Lose(w)
           \/ \E p \in Profiles : Switch(p)
           \/ UNCHANGED vars
  BY <1>1, <1>6 DEF SetPowerLimits, SetTuning, Send, Nack, Refused, SkipNvidia, GiveUp, Perform,
                    PerformFails, Land, Lose, Switch, tracker, vars
<1> QED BY <1>2, <1>3, <1>4, <1>5, <1>6 DEF Next, Commands, Worker

-----------------------------------------------------------------------------
(* The profile that is tracked.                                            *)

LEMMA MovedStays ==
  ASSUME Shape, NEW s
  PROVE  [hist EXCEPT !.sure = s] = [sure |-> s, moved |-> hist.moved]
BY DEF Shape

LEMMA TrackedNext == TrackedIsInForce /\ Shape /\ [Next]_vars => (TrackedIsInForce /\ Shape)'
<1> SUFFICES ASSUME TrackedIsInForce, Shape, [Next]_vars PROVE TrackedIsInForce' /\ Shape'
  OBVIOUS
<1> USE DEF TrackedIsInForce, Shape
<1>1. CASE UNCHANGED <<profile, current, hist>>
  BY <1>1
<1>2. CASE UNCHANGED <<profile, current>> /\ \E s : hist' = [hist EXCEPT !.sure = s]
  <2>1. PICK s : hist' = [sure |-> s, moved |-> hist.moved]
    BY <1>2, MovedStays
  <2> QED BY <1>2, <2>1
<1>3. CASE Poll
  BY <1>3 DEF Poll, Observe
<1>4. ASSUME NEW p \in Profiles, SetPerformance(p) PROVE TrackedIsInForce' /\ Shape'
  <2>1. profile' = p
    BY <1>4 DEF SetPerformance, Switched
  <2>2. CASE /\ Observe(p)
             /\ hist' = [sure |-> hist.sure /\ p = profile /\ p = current, moved |-> FALSE]
    BY <2>1, <2>2 DEF Observe
  <2>3. CASE /\ hist' = [sure |-> hist.sure /\ p = profile, moved |-> hist.moved \/ p # profile]
             /\ current' = current
    BY <2>1, <2>3
  <2> QED BY <1>4, <2>2, <2>3 DEF SetPerformance
<1>5. ASSUME NEW p \in Profiles, Switch(p) PROVE TrackedIsInForce' /\ Shape'
  BY <1>5 DEF Switch
<1>6. CASE Kill
  <2>1. current' = None /\ hist' = [sure |-> FALSE, moved |-> hist.moved]
    BY <1>6, MovedStays DEF Kill, Load, Unsure
  <2> QED BY <2>1
<1>7. CASE \/ \E enabled \in BOOLEAN : SetAutoApply(enabled)
           \/ Refused \/ SkipNvidia \/ Nack \/ GiveUp \/ \E w \in late : Land(w)
  BY <1>2, <1>7 DEF SetAutoApply, Refused, SkipNvidia, Nack, GiveUp, Land, Unsure, tracker
<1>8. CASE Ack
  BY <1>2, <1>8 DEF Ack
<1>9. CASE \/ \E val \in [Firmware -> Values \cup {None}] : SetPowerLimits(val)
           \/ \E w \in Writes : SetTuning(w)
           \/ Send \/ Perform \/ PerformFails \/ \E w \in late : Lose(w)
           \/ UNCHANGED vars
  BY <1>1, <1>9 DEF SetPowerLimits, SetTuning, Send, Perform, PerformFails, Lose, tracker, vars
<1> QED BY <1>3, <1>4, <1>5, <1>6, <1>7, <1>8, <1>9 DEF Next, Commands, Worker

-----------------------------------------------------------------------------
(* What is in force after a replay.                                        *)

Counts == [commands : 0 .. MaxCommands, switches : 0 .. MaxSwitches, troubles : 0 .. MaxTroubles]

(* Types, with "at most one" said without counting.                        *)
Types ==
  /\ profile \in Profiles
  /\ hw \in [Items -> Values \cup {Default}]
  /\ rules \in Rules /\ error \in BOOLEAN /\ current \in Profiles \cup {None}
  /\ job = {} \/ \E j \in Jobs : job = {j}
  /\ call = {} \/ \E c \in Calls : call = {c}
  /\ late \subseteq Writes
  /\ used \in Counts
  /\ hist \in Histories

(* A job has something left, and what is called is what is due.            *)
CallIsDue ==
  /\ job # {} => The.todo # {}
  /\ call # {} => job # {} /\ Waits.item = Due.item /\ Waits.val = Due.val

Done == call # {} /\ Waits.state = "done"

(* Of a replay that nothing disturbed, every remembered item is in force   *)
(* or still to be written, with the remembered value.                      *)
ReplayIsWhole ==
  job # {} /\ The.kind = "replay" =>
    /\ current # None /\ ~error /\ rules[current].auto /\ ~hist.sure
    /\ The.todo \subseteq Entries(rules[current])
    /\ The.clean =>
         /\ \A w \in Entries(rules[current]) : hw[w.item] = w.val \/ w \in The.todo
         /\ Done => hw[Waits.item] = Waits.val

(* When sure, only the item being set may differ, and once it is done it   *)
(* has the value that will be recorded.                                    *)
SureIsTrue ==
  hist.sure =>
    /\ current # None /\ ~error /\ rules[current].auto
    /\ \A i \in Items :
         \/ rules[current].val[i] \in {None, hw[i]}
         \/ call # {} /\ Waits.item = i /\ Waits.state # "sent"
    /\ Done => hw[Waits.item] = Waits.val

ReplayInv == Types /\ CallIsDue /\ ReplayIsWhole /\ SureIsTrue

LEMMA OneIs == ASSUME NEW x PROVE (CHOOSE y \in {x} : TRUE) = x
OBVIOUS

LEMMA TheIs ==
  ASSUME Types
  PROVE  /\ job # {} => /\ job = {The} /\ The \in Jobs
                        /\ The.todo \subseteq Writes /\ The.clean \in BOOLEAN
                        /\ The.kind \in {"replay", "batch", "single"}
         /\ call # {} => /\ call = {Waits} /\ Waits \in Calls
                         /\ Waits.item \in Items /\ Waits.val \in Values
                         /\ Waits.state \in {"sent", "done", "failed"}
<1>1. job # {} => job = {The} /\ The \in Jobs
  BY OneIs DEF Types, The
<1>2. call # {} => call = {Waits} /\ Waits \in Calls
  BY OneIs DEF Types, Waits
<1> QED BY <1>1, <1>2 DEF Jobs, Calls

LEMMA Least ==
  ASSUME NEW T \in SUBSET Nat, T # {}
  PROVE  \E m \in T : \A n \in T : m <= n
<1> DEFINE R == OpToRel(<, Nat)
<1>1. IsWellFoundedOn(R, Nat)
  BY NatLessThanWellFounded
<1> HIDE DEF R
<1>2. \E x \in T : \A y \in T : ~(<<y, x>> \in R)
  BY <1>1, WFMin
<1>3. \A x, y \in Nat : y < x => <<y, x>> \in R
  BY DEF R, OpToRel
<1>4. \A x, y \in Nat : ~(y < x) => x <= y
  OBVIOUS
<1> QED BY <1>2, <1>3, <1>4

LEMMA PlaceIs == ASSUME NEW i \in Items PROVE Place(i) \in Nat
<1>1. Order \in Seq(STRING)
  <2>1. Limits \in Seq(STRING) /\ Cpu \in Seq(STRING) /\ Nvidia \in Seq(STRING)
    BY ItemsAssumption
  <2> QED BY <2>1 DEF Order
<1>2. \A k \in DOMAIN Order : k \in Nat
  BY <1>1
<1>3. \E k \in DOMAIN Order : Order[k] = i
  BY DEF Items
<1>4. Place(i) \in DOMAIN Order
  BY <1>3 DEF Place
<1> QED BY <1>2, <1>4

LEMMA DueIs ==
  ASSUME The.todo \subseteq Writes, The.todo # {}
  PROVE  /\ Due \in The.todo /\ Due \in Writes /\ Due.item \in Items /\ Due.val \in Values
         /\ Due = [item |-> Due.item, val |-> Due.val]
<1> DEFINE places == {Place(w.item) : w \in The.todo}
<1>1. \A w \in The.todo : w.item \in Items
  BY DEF Writes
<1>2. places \in SUBSET Nat /\ places # {}
  BY <1>1, PlaceIs
<1> HIDE DEF places
<1>3. PICK m \in places : \A n \in places : m <= n
  BY <1>2, Least
<1>4. PICK w \in The.todo : m = Place(w.item)
  BY DEF places
<1>5. \A other \in The.todo : Place(w.item) <= Place(other.item)
  BY <1>3, <1>4 DEF places
<1>6. Due \in The.todo
  BY <1>5 DEF Due
<1> QED BY <1>6 DEF Writes

(* A command, a trouble and a switch leave the counts within their bounds. *)
LEMMA Counted ==
  ASSUME used \in Counts
  PROVE  /\ Command => used' \in Counts
         /\ Trouble => used' \in Counts /\ used' # used
         /\ used.switches < MaxSwitches /\ used' = [used EXCEPT !.switches = @ + 1]
              => used' \in Counts
<1>1. MaxCommands \in Nat /\ MaxSwitches \in Nat /\ MaxTroubles \in Nat
  BY BoundsAssumption
<1>2. ASSUME Command PROVE used' \in Counts
  BY <1>1, <1>2 DEF Command, Counts
<1>3. ASSUME Trouble PROVE used' \in Counts /\ used' # used
  BY <1>1, <1>3 DEF Trouble, Counts
<1>4. ASSUME used.switches < MaxSwitches, used' = [used EXCEPT !.switches = @ + 1]
      PROVE  used' \in Counts
  BY <1>1, <1>4 DEF Counts
<1> QED BY <1>2, <1>3, <1>4

LEMMA RulesAre ==
  ASSUME NEW r \in Rules, NEW p \in Profiles
  PROVE  /\ r[p].auto \in BOOLEAN /\ r[p].val \in [Items -> Values \cup {None}]
         /\ \A i \in Items : r[p].val[i] \in Values \cup {None}
         /\ \A w : w \in Entries(r[p]) <=> w \in Writes /\ r[p].val[w.item] = w.val
         /\ \A i \in Items : r[p].val[i] # None => [item |-> i, val |-> r[p].val[i]] \in Entries(r[p])
<1>1. r[p] \in ProfileLimitSet
  BY DEF Rules
<1>2. r[p].auto \in BOOLEAN /\ r[p].val \in [Items -> Values \cup {None}]
  BY <1>1 DEF ProfileLimitSet
<1>3. \A w : w \in Entries(r[p]) <=> w \in Writes /\ r[p].val[w.item] = w.val
  BY DEF Entries
<1>4. ASSUME NEW i \in Items, r[p].val[i] # None
      PROVE  [item |-> i, val |-> r[p].val[i]] \in Entries(r[p])
  BY <1>2, <1>4 DEF Entries, Writes
<1> QED BY <1>2, <1>3, <1>4

LEMMA NothingIs == Nothing \in Rules
BY DEF Nothing, Rules, ProfileLimitSet

LEMMA ReplayInitInv == Init => ReplayInv
<1> SUFFICES ASSUME Init PROVE ReplayInv
  OBVIOUS
<1>1. rules \in Rules
  <2>1. file = Unreadable \/ \E r : file = {r}
    BY InitialFile DEF Init
  <2>2. file \subseteq Rules
    BY FilesAssumption DEF Init
  <2> QED BY <2>1, <2>2, HeldIs, NothingIs DEF Init, Held
<1>2. used \in Counts
  BY BoundsAssumption DEF Init, Counts
<1>3. hist \in Histories /\ hist.sure = FALSE
  BY DEF Init, Histories
<1>4. Types
  BY <1>1, <1>2, <1>3 DEF Init, Types
<1> QED BY <1>3, <1>4 DEF Init, ReplayInv, CallIsDue, ReplayIsWhole, SureIsTrue

(* What of the jobs a step leaves alone.                                   *)
LEMMA RestInv ==
  ASSUME ReplayInv, Types', UNCHANGED <<hw, rules, error, current, job, call>>,
         hist'.sure => hist.sure
  PROVE  ReplayInv'
<1>1. The' = The /\ Waits' = Waits /\ Due' = Due
  BY DEF The, Waits, Due
<1>2. CallIsDue'
  BY <1>1 DEF ReplayInv, CallIsDue
<1>3. ReplayIsWhole'
  BY <1>1 DEF ReplayInv, ReplayIsWhole, Done
<1>4. SureIsTrue'
  BY <1>1 DEF ReplayInv, SureIsTrue, Done
<1> QED BY <1>2, <1>3, <1>4 DEF ReplayInv

LEMMA EndInv ==
  ASSUME Types', job' = {}, call' = {}, ~hist'.sure
  PROVE  ReplayInv'
BY DEF ReplayInv, CallIsDue, ReplayIsWhole, SureIsTrue

LEMMA UnsureIs ==
  ASSUME Types, hist' = Unsure
  PROVE  hist' \in Histories /\ hist'.sure = FALSE /\ hist'.moved = hist.moved
BY DEF Types, Histories, Unsure

(* observe: between two jobs.                                              *)
LEMMA ObserveInv ==
  ASSUME ReplayInv, Idle, NEW p \in Profiles, Observe(p), UNCHANGED <<rules, error, call, late>>,
         profile' \in Profiles, hw' \in [Items -> Values \cup {Default}],
         used' \in Counts, hist' \in Histories,
         hist'.sure => hist.sure /\ p = current /\ hw' = hw
  PROVE  ReplayInv'
<1> USE DEF ReplayInv
<1>1. job = {} /\ call = {} /\ call' = {} /\ current' = p /\ p # None
  BY NamesAssumption DEF Idle, CallIsDue, Observe
<1>2. rules \in Rules
  BY DEF Types
<1>3. ~Done' /\ Entries(rules[p]) \subseteq Writes
  BY <1>1 DEF Done, Entries
<1>4. CASE ReplayOf(p) = {}
  <2>1. job' = {}
    BY <1>4 DEF Observe
  <2>2. Types'
    BY <1>1, <2>1 DEF Types
  <2>3. SureIsTrue'
    BY <1>1, <1>3 DEF SureIsTrue, Done
  <2> QED BY <1>1, <2>1, <2>2, <2>3 DEF CallIsDue, ReplayIsWhole
<1>5. CASE ReplayOf(p) # {}
  <2> DEFINE todo == ReplayOf(p)
             j == [kind |-> "replay", todo |-> todo, clean |-> TRUE]
  <2>1. /\ todo = Entries(rules[p]) /\ current # p
        /\ ~error /\ rules[p].auto
    BY <1>5 DEF ReplayOf
  <2>2. job' = {j}
    BY <1>5 DEF Observe
  <2>3. todo \subseteq Writes /\ todo # {}
    BY <1>3, <1>5, <2>1
  <2> HIDE DEF todo
  <2>4. j \in Jobs /\ j.todo = todo /\ j.kind = "replay"
    BY <2>3 DEF Jobs
  <2> HIDE DEF j
  <2>5. The' = j
    BY <2>2, OneIs DEF The
  <2>6. Types'
    BY <1>1, <2>2, <2>4 DEF Types
  <2>7. ~hist'.sure
    BY <2>1
  <2>8. ReplayIsWhole'
    BY <1>1, <1>3, <2>1, <2>4, <2>5, <2>7 DEF ReplayIsWhole
  <2> QED BY <1>1, <2>2, <2>3, <2>4, <2>5, <2>6, <2>7, <2>8 DEF CallIsDue, SureIsTrue
<1> QED BY <1>4, <1>5

LEMMA SwitchedIs ==
  ASSUME Types, NEW p \in Profiles, Switched(p)
  PROVE  /\ profile' = p /\ hw' \in [Items -> Values \cup {Default}]
         /\ p = profile => hw' = hw
<1>1. profile' = p /\ hw' = [i \in Items |-> IF i \in Firmware /\ p # profile THEN Default ELSE hw[i]]
  BY DEF Switched
<1>2. hw \in [Items -> Values \cup {Default}]
  BY DEF Types
<1> QED BY <1>1, <1>2

LEMMA PollInv == ASSUME ReplayInv, Poll PROVE ReplayInv'
<1> DEFINE sure == hist.sure /\ current = profile
<1>1. /\ Idle /\ Observe(profile) /\ hist' = [sure |-> sure, moved |-> FALSE]
      /\ UNCHANGED <<profile, hw, file, rules, error, call, late, used>>
  BY DEF Poll
<1>2. Types /\ profile \in Profiles /\ hw \in [Items -> Values \cup {Default}] /\ used \in Counts
  BY DEF ReplayInv, Types
<1>3. sure \in BOOLEAN
  BY <1>2 DEF Types, Histories
<1>4. hist'.sure => hist.sure /\ profile = current /\ hw' = hw
  BY <1>1
<1> HIDE DEF sure
<1>5. hist' \in Histories
  BY <1>1, <1>3 DEF Histories
<1> QED BY <1>1, <1>2, <1>4, <1>5, ObserveInv

LEMMA SetPerformanceInv ==
  ASSUME ReplayInv, NEW p \in Profiles, SetPerformance(p)
  PROVE  ReplayInv'
<1>1. /\ Idle /\ Switched(p) /\ UNCHANGED <<file, rules, error, call, late>> /\ Types
      /\ call' = call
  BY DEF SetPerformance, ReplayInv
<1>2. /\ profile' = p /\ hw' \in [Items -> Values \cup {Default}]
      /\ p = profile => hw' = hw
  BY <1>1, SwitchedIs
<1>3. used \in Counts /\ hist \in Histories /\ hist.sure \in BOOLEAN /\ hist.moved \in BOOLEAN
  BY <1>1 DEF Types, Histories
<1> DEFINE seen == hist.sure /\ p = profile /\ p = current
           sure == hist.sure /\ p = profile
           moved == hist.moved \/ p # profile
<1>4. seen \in BOOLEAN /\ sure \in BOOLEAN /\ moved \in BOOLEAN
  BY <1>3
<1>5. seen => hist.sure /\ p = current /\ hw' = hw
  BY <1>2
<1>6. sure => hist.sure /\ hw' = hw
  BY <1>2
<1>7. \/ Command /\ Observe(p) /\ hist' = [sure |-> seen, moved |-> FALSE]
      \/ Trouble /\ hist' = [sure |-> sure, moved |-> moved] /\ UNCHANGED <<current, job>>
  BY DEF SetPerformance
<1> HIDE DEF seen, sure, moved
<1>8. CASE Command /\ Observe(p) /\ hist' = [sure |-> seen, moved |-> FALSE]
  <2>1. hist' \in Histories /\ (hist'.sure => hist.sure /\ p = current /\ hw' = hw)
    BY <1>4, <1>5, <1>8 DEF Histories
  <2>2. used' \in Counts
    BY <1>3, <1>8, Counted
  <2> QED BY <1>1, <1>2, <1>8, <2>1, <2>2, ObserveInv
<1>9. CASE Trouble /\ hist' = [sure |-> sure, moved |-> moved] /\ UNCHANGED <<current, job>>
  <2>1. hist' \in Histories /\ (hist'.sure => hist.sure /\ hw' = hw)
    BY <1>4, <1>6, <1>9 DEF Histories
  <2>2. used' \in Counts
    BY <1>3, <1>9, Counted
  <2>3. job = {} /\ call = {} /\ job' = {} /\ call' = {}
    BY <1>1, <1>9 DEF ReplayInv, CallIsDue, Idle
  <2>4. Types'
    BY <1>1, <1>2, <1>9, <2>1, <2>2, <2>3 DEF Types
  <2>5. SureIsTrue'
    BY <1>1, <1>9, <2>1, <2>3 DEF ReplayInv, SureIsTrue, Done
  <2> QED BY <2>3, <2>4, <2>5 DEF ReplayInv, CallIsDue, ReplayIsWhole
<1> QED BY <1>7, <1>8, <1>9

(* A batch or a single setting begins.                                     *)
LEMMA BeginInv ==
  ASSUME ReplayInv, Idle, Command, NEW j \in Jobs, j.kind # "replay", j.todo # {}, job' = {j},
         UNCHANGED <<profile, hw, rules, error, current, call, late, hist>>
  PROVE  ReplayInv'
<1>1. Types /\ call = {} /\ call' = {}
  BY DEF ReplayInv, CallIsDue, Idle
<1>2. used' \in Counts
  BY <1>1, Counted DEF Types
<1>3. Types'
  BY <1>1, <1>2 DEF Types
<1>4. The' = j
  BY OneIs DEF The
<1>5. SureIsTrue'
  BY <1>1 DEF ReplayInv, SureIsTrue, Done
<1> QED BY <1>1, <1>3, <1>4, <1>5 DEF ReplayInv, CallIsDue, ReplayIsWhole

LEMMA CommandsInv == ASSUME ReplayInv, Commands PROVE ReplayInv'
<1>1. ASSUME NEW p \in Profiles, SetPerformance(p) PROVE ReplayInv'
  BY <1>1, SetPerformanceInv
<1>2. ASSUME NEW val \in [Firmware -> Values \cup {None}], SetPowerLimits(val) PROVE ReplayInv'
  <2> DEFINE chosen == {w \in Writes : w.item \in Firmware /\ val[w.item] = w.val}
             j == [kind |-> "batch", todo |-> chosen, clean |-> TRUE]
  <2>1. chosen \subseteq Writes
    OBVIOUS
  <2>2. /\ Idle /\ Command /\ chosen # {} /\ job' = {j}
        /\ UNCHANGED <<profile, hw, rules, error, current, call, late, hist>>
    BY <1>2 DEF SetPowerLimits, tracker
  <2> HIDE DEF chosen
  <2>3. j \in Jobs /\ j.kind = "batch" /\ j.todo = chosen
    BY <2>1 DEF Jobs
  <2> HIDE DEF j
  <2> QED BY <2>2, <2>3, BeginInv
<1>3. ASSUME NEW w \in Writes, SetTuning(w) PROVE ReplayInv'
  <2> DEFINE j == [kind |-> "single", todo |-> {w}, clean |-> TRUE]
  <2>1. /\ Idle /\ Command /\ job' = {j}
        /\ UNCHANGED <<profile, hw, rules, error, current, call, late, hist>>
    BY <1>3 DEF SetTuning, tracker
  <2>2. j \in Jobs /\ j.kind = "single" /\ j.todo # {}
    BY DEF Jobs
  <2> HIDE DEF j
  <2> QED BY <2>1, <2>2, BeginInv
<1>4. ASSUME NEW enabled \in BOOLEAN, SetAutoApply(enabled) PROVE ReplayInv'
  <2>1. /\ Idle /\ current # None /\ hist' = Unsure
        /\ \/ Command /\ rules' = [rules EXCEPT ![current].auto = enabled]
           \/ Trouble /\ rules' = rules
        /\ UNCHANGED <<profile, hw, error, current, job, call, late>>
    BY <1>4 DEF SetAutoApply
  <2>2. Types /\ job' = {} /\ call' = {}
    BY <2>1 DEF ReplayInv, CallIsDue, Idle
  <2>3. hist' \in Histories /\ ~hist'.sure /\ used' \in Counts
    BY <2>1, <2>2, UnsureIs, Counted DEF Types
  <2>4. rules' \in Rules
    <3>1. rules \in Rules /\ current \in Profiles
      BY <2>1, <2>2 DEF Types
    <3>2. CASE rules' = [rules EXCEPT ![current].auto = enabled]
      <4> DEFINE set == [rules[current] EXCEPT !.auto = enabled]
      <4>1. rules[current] \in ProfileLimitSet
        BY <3>1 DEF Rules
      <4>2. set \in ProfileLimitSet
        BY <4>1 DEF ProfileLimitSet
      <4>3. rules' = [rules EXCEPT ![current] = set]
        BY <3>1, <3>2 DEF Rules
      <4> HIDE DEF set
      <4> QED BY <3>1, <4>2, <4>3 DEF Rules
    <3> QED BY <2>1, <3>1, <3>2
  <2>5. Types'
    BY <2>1, <2>2, <2>3, <2>4 DEF Types
  <2> QED BY <2>2, <2>3, <2>5, EndInv
<1> QED BY <1>1, <1>2, <1>3, <1>4 DEF Commands

-----------------------------------------------------------------------------
(* The steps of a job.                                                     *)

LEMMA SendInv == ASSUME ReplayInv, Send PROVE ReplayInv'
<1> DEFINE c == [item |-> Due.item, val |-> Due.val, state |-> "sent"]
<1>1. /\ job # {} /\ call = {} /\ call' = {c}
      /\ UNCHANGED <<profile, hw, rules, error, current, job, late, used, hist>>
  BY DEF Send, Idle, tracker
<1>2. Types /\ The.todo \subseteq Writes /\ The.todo # {}
  BY <1>1, TheIs DEF ReplayInv, CallIsDue
<1>3. c \in Calls /\ c.item = Due.item /\ c.val = Due.val /\ c.state = "sent"
  BY <1>2, DueIs DEF Calls
<1> HIDE DEF c
<1>4. The' = The /\ Due' = Due /\ Waits' = c
  BY <1>1, OneIs DEF The, Due, Waits
<1>5. Types'
  BY <1>1, <1>2, <1>3 DEF Types
<1>6. CallIsDue'
  BY <1>1, <1>3, <1>4 DEF ReplayInv, CallIsDue
<1>7. ~Done /\ ~Done'
  BY <1>1, <1>3, <1>4 DEF Done
<1>8. ReplayIsWhole'
  BY <1>1, <1>4, <1>7 DEF ReplayInv, ReplayIsWhole
<1>9. SureIsTrue'
  BY <1>1, <1>7 DEF ReplayInv, SureIsTrue
<1> QED BY <1>5, <1>6, <1>8, <1>9 DEF ReplayInv

(* What is left of a job is a job of its kind.                             *)
LEMMA LeftIs ==
  ASSUME Types, job # {}, The.todo # {}
  PROVE  \/ Left = {} /\ The.todo = {Due}
         \/ \E j \in Jobs : /\ Left = {j} /\ j.todo = The.todo \ {Due} /\ j.todo # {}
                            /\ j.kind = The.kind /\ j.clean = The.clean
<1>1. job = {The} /\ The \in Jobs /\ The.todo \subseteq Writes
  BY TheIs
<1>2. CASE The.todo = {Due}
  BY <1>2 DEF Left
<1>3. CASE The.todo # {Due}
  <2> DEFINE rest == The.todo \ {Due}
             j == [The EXCEPT !.todo = rest]
  <2>1. rest \subseteq Writes /\ rest # {}
    <3>1. Due \in The.todo
      BY <1>1, DueIs
    <3> QED BY <1>1, <1>3, <3>1
  <2>2. Left = {j}
    BY <1>1, <1>3 DEF Left
  <2> HIDE DEF rest
  <2>3. j \in Jobs /\ j.todo = rest /\ j.kind = The.kind /\ j.clean = The.clean
    BY <1>1, <2>1 DEF Jobs
  <2> HIDE DEF j
  <2> QED BY <2>1, <2>2, <2>3 DEF rest
<1> QED BY <1>2, <1>3

(* What is saved, or is not.                                               *)
LEMMA SavedIs ==
  ASSUME Types, current # None, NEW i \in Items, NEW v \in Values,
         Save([rules EXCEPT ![current].val[i] = v])
  PROVE  /\ rules' \in Rules /\ used' \in Counts
         /\ used' = used =>
              /\ rules'[current].auto = rules[current].auto
              /\ rules'[current].val[i] = v
              /\ \A k \in Items : k # i => rules'[current].val[k] = rules[current].val[k]
<1> DEFINE set == [rules[current] EXCEPT !.val[i] = v]
           next == [rules EXCEPT ![current].val[i] = v]
<1>1. rules \in Rules /\ current \in Profiles /\ used \in Counts
  BY DEF Types
<1>2. rules[current] \in ProfileLimitSet
  BY <1>1 DEF Rules
<1>3. /\ set \in ProfileLimitSet /\ set.auto = rules[current].auto /\ set.val[i] = v
      /\ \A k \in Items : k # i => set.val[k] = rules[current].val[k]
  BY <1>2 DEF ProfileLimitSet
<1>4. next = [rules EXCEPT ![current] = set]
  BY <1>1 DEF Rules
<1> HIDE DEF set
<1>5. next \in Rules /\ next[current] = set
  BY <1>1, <1>3, <1>4 DEF Rules
<1>6. Save(next)
  OBVIOUS
<1> HIDE DEF next
<1>7. CASE rules' = next /\ used' = used
  BY <1>1, <1>3, <1>5, <1>7
<1>8. CASE Trouble /\ rules' = rules
  BY <1>1, <1>8, Counted
<1> QED BY <1>6, <1>7, <1>8 DEF Save

LEMMA AckInv == ASSUME ReplayInv, Ack PROVE ReplayInv'
<1> DEFINE mine == The.kind # "replay"
           next == [rules EXCEPT ![current].val[Waits.item] = Waits.val]
           sure == IF mine THEN hist.sure /\ used' = used ELSE Left = {} /\ The.clean
<1>1. /\ call # {} /\ Waits.state = "done" /\ call' = {} /\ job' = Left
      /\ IF mine /\ Records(Waits) THEN Save(next) ELSE UNCHANGED <<file, rules, used>>
      /\ hist' = [hist EXCEPT !.sure = sure]
      /\ UNCHANGED <<profile, hw, error, current, late>>
  BY DEF Ack
<1>2. /\ Types /\ job # {} /\ The.todo # {} /\ Waits.item = Due.item /\ Waits.val = Due.val
      /\ ReplayIsWhole /\ SureIsTrue /\ Done
  BY <1>1 DEF ReplayInv, CallIsDue, Done
<1>3. /\ Waits.item \in Items /\ Waits.val \in Values /\ The.clean \in BOOLEAN
      /\ The \in Jobs /\ The.todo \subseteq Writes
  BY <1>1, <1>2, TheIs
<1>4. PICK i \in Items, v \in Values : i = Waits.item /\ v = Waits.val
  BY <1>3
<1>5. Due = [item |-> i, val |-> v] /\ Due \in The.todo
  BY <1>2, <1>3, <1>4, DueIs
<1>6. rules' \in Rules /\ used' \in Counts
  <2>1. CASE mine /\ Records(Waits)
    <3>1. Save([rules EXCEPT ![current].val[i] = v]) /\ current # None
      BY <1>1, <1>4, <2>1 DEF Records
    <3> QED BY <1>2, <3>1, SavedIs
  <2>2. CASE ~(mine /\ Records(Waits))
    BY <1>1, <1>2, <2>2 DEF Types
  <2> QED BY <2>1, <2>2
<1>7. hist' \in Histories /\ hist'.sure = sure
  <2>1. sure \in BOOLEAN /\ hist \in Histories
    BY <1>2, <1>3 DEF Types, Histories
  <2> HIDE DEF sure
  <2> QED BY <1>1, <2>1 DEF Histories
<1>8. \/ Left = {} /\ The.todo = {Due}
      \/ \E j \in Jobs : /\ Left = {j} /\ j.todo = The.todo \ {Due} /\ j.todo # {}
                         /\ j.kind = The.kind /\ j.clean = The.clean
  BY <1>2, LeftIs
<1>9. Types'
  BY <1>1, <1>2, <1>6, <1>7, <1>8 DEF Types
<1>10. job' # {} => /\ The'.todo = The.todo \ {Due} /\ The'.todo # {}
                    /\ The'.kind = The.kind /\ The'.clean = The.clean
  BY <1>1, <1>8, OneIs DEF The
<1>11. CallIsDue' /\ ~Done'
  BY <1>1, <1>10 DEF CallIsDue, Done
<1>12. ReplayIsWhole' /\ SureIsTrue'
  <2>1. CASE mine
    <3>1. ReplayIsWhole'
      BY <1>10, <2>1 DEF ReplayIsWhole
    <3>2. SUFFICES ASSUME hist'.sure PROVE SureIsTrue'
      BY <3>1 DEF SureIsTrue
    <3>3. hist.sure /\ used' = used
      BY <1>7, <2>1, <3>2
    <3>4. /\ current # None /\ ~error /\ rules[current].auto /\ hw[i] = v
          /\ \A k \in Items : k # i => rules[current].val[k] \in {None, hw[k]}
      BY <1>2, <1>4, <3>3 DEF SureIsTrue
    <3>5. /\ rules'[current].auto = rules[current].auto
          /\ rules'[current].val[i] = v
          /\ \A k \in Items : k # i => rules'[current].val[k] = rules[current].val[k]
      <4>1. CASE Records(Waits)
        <5>1. Save([rules EXCEPT ![current].val[i] = v])
          BY <1>1, <1>4, <2>1, <4>1
        <5> QED BY <1>2, <3>3, <3>4, <5>1, SavedIs
      <4>2. CASE ~Records(Waits)
        BY <1>1, <1>4, <3>4, <4>2 DEF Records
      <4> QED BY <4>1, <4>2
    <3> QED BY <1>1, <1>11, <3>4, <3>5 DEF SureIsTrue
  <2>2. CASE ~mine
    <3>1. /\ rules' = rules
          /\ current # None /\ ~error /\ rules[current].auto
          /\ The.todo \subseteq Entries(rules[current])
          /\ The.clean => /\ \A w \in Entries(rules[current]) : hw[w.item] = w.val \/ w \in The.todo
                          /\ hw[i] = v
      BY <1>1, <1>2, <1>4, <2>2 DEF ReplayIsWhole
    <3>2. Due.item = i /\ Due.val = v
      BY <1>5
    <3>3. The.clean => \A w \in Entries(rules[current]) :
                         hw[w.item] = w.val \/ w \in The.todo \ {Due}
      BY <3>1, <3>2
    <3>4. ReplayIsWhole'
      <4>1. job' # {} => ~hist'.sure
        BY <1>1, <1>7, <2>2
      <4> QED BY <1>1, <1>10, <1>11, <3>1, <3>3, <4>1 DEF ReplayIsWhole
    <3>5. SUFFICES ASSUME hist'.sure PROVE SureIsTrue'
      BY <3>4 DEF SureIsTrue
    <3>6. The.clean /\ The.todo \ {Due} = {}
      BY <1>7, <1>8, <2>2, <3>5
    <3>7. rules \in Rules /\ current \in Profiles
      BY <1>2, <3>1 DEF Types
    <3>8. ASSUME NEW k \in Items PROVE rules[current].val[k] \in {None, hw[k]}
      <4>1. CASE rules[current].val[k] # None
        <5> DEFINE w == [item |-> k, val |-> rules[current].val[k]]
        <5>1. w \in Entries(rules[current])
          BY <3>7, <4>1, RulesAre
        <5>2. hw[w.item] = w.val
          BY <3>3, <3>6, <5>1
        <5> QED BY <5>2
      <4> QED BY <4>1
    <3> QED BY <1>1, <1>11, <3>1, <3>8 DEF SureIsTrue
  <2> QED BY <2>1, <2>2
<1> QED BY <1>9, <1>11, <1>12 DEF ReplayInv

(* A job that is over, with nothing sure.                                  *)
LEMMA StopInv ==
  ASSUME ReplayInv, LimitsMatchFile, Refused \/ SkipNvidia \/ Nack \/ GiveUp \/ Kill
  PROVE  ReplayInv'
<1> DEFINE given == {[item |-> c.item, val |-> c.val] : c \in {x \in call : x.state = "sent"}}
<1>1. Types /\ used \in Counts
  BY DEF ReplayInv, Types
<1>2. given \subseteq Writes
  <2>1. \A c \in call : c \in Calls
    BY <1>1 DEF Types
  <2> QED BY <2>1 DEF Calls, Writes
<1>3. /\ job' = {} /\ call' = {} /\ hist' = Unsure /\ UNCHANGED <<profile, hw>>
      /\ Trouble \/ used' = used
      /\ late' = late \/ late' = late \cup given
      /\ \/ UNCHANGED <<rules, error, current>>
         \/ Load(file)
  BY <1>1 DEF Refused, SkipNvidia, Nack, GiveUp, Kill, tracker, ReplayInv, CallIsDue, Idle
<1> HIDE DEF given
<1>4. used' \in Counts /\ hist' \in Histories /\ ~hist'.sure /\ late' \subseteq Writes
  BY <1>1, <1>2, <1>3, Counted, UnsureIs DEF Types
<1>5. rules' \in Rules /\ error' \in BOOLEAN /\ current' \in Profiles \cup {None}
  <2>1. CASE UNCHANGED <<rules, error, current>>
    BY <1>1, <2>1 DEF Types
  <2>2. CASE Load(file)
    <3>1. Held(file) \in Rules
      <4>1. CASE file = Unreadable
        BY <4>1, NothingIs DEF Held
      <4>2. CASE file # Unreadable
        <5>1. file = {rules}
          BY <4>2 DEF LimitsMatchFile
        <5>2. Held(file) = rules
          BY <4>2, <5>1, OneIs DEF Held
        <5> QED BY <1>1, <5>2 DEF Types
      <4> QED BY <4>1, <4>2
    <3> QED BY <2>2, <3>1 DEF Load
  <2> QED BY <1>3, <2>1, <2>2
<1>6. Types'
  BY <1>1, <1>3, <1>4, <1>5 DEF Types
<1> QED BY <1>3, <1>4, <1>6, EndInv

-----------------------------------------------------------------------------
(* The steps of the hardware.                                              *)

LEMMA WrittenIs ==
  ASSUME Types, NEW i \in Items, NEW v \in Values, hw' = [hw EXCEPT ![i] = v]
  PROVE  /\ hw' \in [Items -> Values \cup {Default}] /\ hw'[i] = v
         /\ \A k \in Items : k # i => hw'[k] = hw[k]
<1>1. hw \in [Items -> Values \cup {Default}]
  BY DEF Types
<1> QED BY <1>1

(* The call, answered.                                                     *)
LEMMA AnsweredIs ==
  ASSUME Types, call # {}, NEW s \in {"done", "failed"},
         call' = {[c EXCEPT !.state = s] : c \in call}
  PROVE  /\ \E c \in Calls : call' = {c}
         /\ Waits'.item = Waits.item /\ Waits'.val = Waits.val /\ Waits'.state = s
<1> DEFINE c == [Waits EXCEPT !.state = s]
<1>1. call = {Waits} /\ Waits \in Calls
  BY TheIs
<1>2. call' = {c}
  BY <1>1
<1>3. c \in Calls /\ c.item = Waits.item /\ c.val = Waits.val /\ c.state = s
  BY <1>1 DEF Calls
<1> HIDE DEF c
<1>4. Waits' = c
  BY <1>2, OneIs DEF Waits
<1> QED BY <1>2, <1>3, <1>4

LEMMA PerformInv == ASSUME ReplayInv, Perform PROVE ReplayInv'
<1>1. /\ call # {} /\ Waits.state = "sent" /\ hw' = [hw EXCEPT ![Waits.item] = Waits.val]
      /\ call' = {[c EXCEPT !.state = "done"] : c \in call}
      /\ UNCHANGED <<profile, rules, error, current, job, late, used, hist>>
  BY DEF Perform, tracker
<1>2. /\ Types /\ job # {} /\ The.todo # {} /\ Waits.item = Due.item /\ Waits.val = Due.val
      /\ ReplayIsWhole /\ SureIsTrue /\ ~Done
  BY <1>1 DEF ReplayInv, CallIsDue, Done
<1>3. PICK i \in Items, v \in Values : i = Waits.item /\ v = Waits.val
  BY <1>1, <1>2, TheIs
<1>4. /\ hw' \in [Items -> Values \cup {Default}] /\ hw'[i] = v
      /\ \A k \in Items : k # i => hw'[k] = hw[k]
  BY <1>1, <1>2, <1>3, WrittenIs
<1>5. /\ \E c \in Calls : call' = {c}
      /\ Waits'.item = i /\ Waits'.val = v /\ Waits'.state = "done" /\ call' # {}
  BY <1>1, <1>2, <1>3, AnsweredIs
<1>6. The' = The /\ Due' = Due
  BY <1>1 DEF The, Due
<1>7. Types'
  BY <1>1, <1>2, <1>4, <1>5 DEF Types
<1>8. CallIsDue'
  BY <1>1, <1>2, <1>3, <1>5, <1>6 DEF CallIsDue
<1>9. ReplayIsWhole'
  <2>1. SUFFICES ASSUME The.kind = "replay" PROVE ReplayIsWhole'
    BY <1>6 DEF ReplayIsWhole
  <2>2. /\ current # None /\ ~error /\ rules[current].auto /\ ~hist.sure
        /\ The.todo \subseteq Entries(rules[current])
        /\ The.clean => \A w \in Entries(rules[current]) : hw[w.item] = w.val \/ w \in The.todo
    BY <1>2, <2>1 DEF ReplayIsWhole
  <2>3. rules \in Rules /\ current \in Profiles /\ The.todo \subseteq Writes
    BY <1>2, <2>2, TheIs DEF Types
  <2>4. Due \in Entries(rules[current])
    BY <1>2, <2>2, <2>3, DueIs
  <2>5. rules[current].val[i] = v
    BY <1>2, <1>3, <2>3, <2>4, RulesAre
  <2>6. ASSUME The.clean, NEW w \in Entries(rules[current])
        PROVE  hw'[w.item] = w.val \/ w \in The.todo
    <3>1. w \in Writes /\ rules[current].val[w.item] = w.val
      BY <2>3, RulesAre
    <3>2. w.item \in Items
      BY <3>1 DEF Writes
    <3>3. CASE w.item = i
      BY <1>4, <2>5, <3>1, <3>3
    <3>4. CASE w.item # i
      BY <1>4, <2>2, <2>6, <3>2, <3>4
    <3> QED BY <3>3, <3>4
  <2> QED BY <1>1, <1>4, <1>5, <1>6, <2>2, <2>6 DEF ReplayIsWhole
<1>10. SureIsTrue'
  BY <1>1, <1>2, <1>4, <1>5 DEF SureIsTrue
<1> QED BY <1>7, <1>8, <1>9, <1>10 DEF ReplayInv

LEMMA PerformFailsInv == ASSUME ReplayInv, PerformFails PROVE ReplayInv'
<1>1. /\ call # {} /\ Waits.state = "sent" /\ Trouble
      /\ hw' = [hw EXCEPT ![Waits.item] = Waits.val] \/ hw' = hw
      /\ call' = {[c EXCEPT !.state = "failed"] : c \in call}
      /\ UNCHANGED <<profile, rules, error, current, job, late, hist>>
  BY DEF PerformFails, tracker
<1>2. /\ Types /\ job # {} /\ The.todo # {} /\ Waits.item = Due.item /\ Waits.val = Due.val
      /\ ReplayIsWhole /\ SureIsTrue /\ ~Done
  BY <1>1 DEF ReplayInv, CallIsDue, Done
<1>3. PICK i \in Items, v \in Values : i = Waits.item /\ v = Waits.val
  BY <1>1, <1>2, TheIs
<1>4. /\ hw' \in [Items -> Values \cup {Default}]
      /\ hw'[i] \in {v, hw[i]}
      /\ \A k \in Items : k # i => hw'[k] = hw[k]
  <2>1. hw \in [Items -> Values \cup {Default}]
    BY <1>2 DEF Types
  <2> QED BY <1>1, <1>2, <1>3, <2>1, WrittenIs
<1>5. /\ \E c \in Calls : call' = {c}
      /\ Waits'.item = i /\ Waits'.val = v /\ Waits'.state = "failed" /\ call' # {}
  BY <1>1, <1>2, <1>3, AnsweredIs
<1>6. The' = The /\ Due' = Due /\ used' \in Counts /\ ~Done'
  BY <1>1, <1>2, <1>5, Counted DEF The, Due, Types, Done
<1>7. Types'
  BY <1>1, <1>2, <1>4, <1>5, <1>6 DEF Types
<1>8. CallIsDue'
  BY <1>1, <1>2, <1>3, <1>5, <1>6 DEF CallIsDue
<1>9. ReplayIsWhole'
  <2>1. SUFFICES ASSUME The.kind = "replay" PROVE ReplayIsWhole'
    BY <1>6 DEF ReplayIsWhole
  <2>2. /\ current # None /\ ~error /\ rules[current].auto /\ ~hist.sure
        /\ The.todo \subseteq Entries(rules[current])
        /\ The.clean => \A w \in Entries(rules[current]) : hw[w.item] = w.val \/ w \in The.todo
    BY <1>2, <2>1 DEF ReplayIsWhole
  <2>3. rules \in Rules /\ current \in Profiles /\ The.todo \subseteq Writes
    BY <1>2, <2>2, TheIs DEF Types
  <2>4. Due \in Entries(rules[current])
    BY <1>2, <2>2, <2>3, DueIs
  <2>5. rules[current].val[i] = v
    BY <1>2, <1>3, <2>3, <2>4, RulesAre
  <2>6. ASSUME The.clean, NEW w \in Entries(rules[current])
        PROVE  hw'[w.item] = w.val \/ w \in The.todo
    <3>1. w \in Writes /\ rules[current].val[w.item] = w.val
      BY <2>3, RulesAre
    <3>2. w.item \in Items
      BY <3>1 DEF Writes
    <3>3. CASE w.item = i
      BY <1>4, <2>2, <2>5, <2>6, <3>1, <3>3
    <3>4. CASE w.item # i
      BY <1>4, <2>2, <2>6, <3>2, <3>4
    <3> QED BY <3>3, <3>4
  <2> QED BY <1>1, <1>6, <2>2, <2>6 DEF ReplayIsWhole
<1>10. SureIsTrue'
  BY <1>1, <1>2, <1>4, <1>5, <1>6 DEF SureIsTrue
<1> QED BY <1>7, <1>8, <1>9, <1>10 DEF ReplayInv

(* A write that lands late, or a switch made elsewhere, spoils the replay. *)
LEMMA DisturbedInv ==
  ASSUME ReplayInv, profile' \in Profiles, hw' \in [Items -> Values \cup {Default}],
         late' \subseteq Writes, used' \in Counts, hist' \in Histories, ~hist'.sure,
         job' = Disturbed, UNCHANGED <<rules, error, current, call>>
  PROVE  ReplayInv'
<1> USE DEF ReplayInv
<1>1. CASE job = {}
  <2>1. job' = {} /\ call' = {}
    BY <1>1 DEF Disturbed, CallIsDue
  <2>2. Types'
    BY <2>1 DEF Types
  <2> QED BY <2>1, <2>2, EndInv
<1>2. CASE job # {}
  <2> DEFINE j == [The EXCEPT !.clean = FALSE]
  <2>1. job = {The} /\ The \in Jobs
    BY <1>2, TheIs
  <2>2. job' = {j}
    BY <2>1 DEF Disturbed
  <2>3. j \in Jobs /\ j.todo = The.todo /\ j.kind = The.kind /\ j.clean = FALSE
    BY <2>1 DEF Jobs
  <2> HIDE DEF j
  <2>4. The' = j /\ Waits' = Waits
    BY <2>2, OneIs DEF The, Waits
  <2>5. Due' = Due
    BY <2>3, <2>4 DEF Due
  <2>6. Types'
    BY <2>2, <2>3 DEF Types
  <2>7. CallIsDue'
    BY <1>2, <2>2, <2>3, <2>4, <2>5 DEF CallIsDue
  <2>8. ReplayIsWhole'
    BY <1>2, <2>3, <2>4 DEF ReplayIsWhole
  <2> QED BY <2>6, <2>7, <2>8 DEF SureIsTrue
<1> QED BY <1>1, <1>2

LEMMA LandInv == ASSUME ReplayInv, NEW w \in late, Land(w) PROVE ReplayInv'
<1>1. Types /\ w \in Writes
  BY DEF ReplayInv, Types
<1>2. PICK i \in Items, v \in Values : i = w.item /\ v = w.val
  BY <1>1 DEF Writes
<1>3. hw' \in [Items -> Values \cup {Default}]
  BY <1>1, <1>2, WrittenIs DEF Land
<1>4. hist' \in Histories /\ ~hist'.sure
  BY <1>1, UnsureIs DEF Land
<1>5. profile' \in Profiles /\ late' \subseteq Writes /\ used' \in Counts
  BY <1>1 DEF Land, Types
<1> QED BY <1>3, <1>4, <1>5, DisturbedInv DEF Land, tracker

LEMMA SwitchInv == ASSUME ReplayInv, NEW p \in Profiles, Switch(p) PROVE ReplayInv'
<1>1. Types
  BY DEF ReplayInv
<1>2. /\ Switched(p) /\ used.switches < MaxSwitches
      /\ used' = [used EXCEPT !.switches = @ + 1]
      /\ hist' = [sure |-> FALSE, moved |-> TRUE]
  BY DEF Switch
<1>3. hw' \in [Items -> Values \cup {Default}] /\ profile' \in Profiles
  BY <1>1, <1>2, SwitchedIs
<1>4. hist' \in Histories /\ ~hist'.sure
  BY <1>2 DEF Histories
<1>5. late' \subseteq Writes /\ used' \in Counts
  BY <1>1, <1>2, Counted DEF Switch, Types
<1> QED BY <1>3, <1>4, <1>5, DisturbedInv DEF Switch, tracker

LEMMA ReplayNext == LimitsMatchFile /\ ReplayInv /\ [Next]_vars => ReplayInv'
<1> SUFFICES ASSUME LimitsMatchFile, ReplayInv, [Next]_vars PROVE ReplayInv'
  OBVIOUS
<1>1. CASE UNCHANGED vars
  <2>1. Types'
    BY <1>1 DEF ReplayInv, Types, vars
  <2> QED BY <1>1, <2>1, RestInv DEF vars
<1>2. ASSUME NEW w \in late, Lose(w) PROVE ReplayInv'
  <2>1. Types'
    BY <1>2 DEF Lose, ReplayInv, Types, tracker
  <2> QED BY <1>2, <2>1, RestInv DEF Lose, tracker
<1>3. CASE Commands
  BY <1>3, CommandsInv
<1>4. CASE Worker
  BY <1>4, PollInv, SendInv, AckInv, StopInv DEF Worker
<1>5. CASE Refused \/ SkipNvidia \/ GiveUp \/ Kill
  BY <1>5, StopInv
<1>6. CASE Perform \/ PerformFails
  BY <1>6, PerformInv, PerformFailsInv
<1>7. CASE \E w \in late : Land(w)
  BY <1>7, LandInv
<1>8. CASE \E p \in Profiles : Switch(p)
  BY <1>8, SwitchInv
<1> QED BY <1>1, <1>2, <1>3, <1>4, <1>5, <1>6, <1>7, <1>8 DEF Next

-----------------------------------------------------------------------------
(* The theorems.                                                           *)

LEMMA AlwaysInv == Spec => []Inv
<1>1. Inv /\ [Next]_vars => Inv'
  BY MatchesNext, TrackedNext DEF Inv
<1> QED BY <1>1, InitInv, PTL DEF Spec

(* Whatever saves fail and whenever the process is killed, the memory of   *)
(* the limits is their file's, and an unreadable file is never overwritten.*)
THEOREM MemoryIsFile == Spec => []LimitsMatchFile
<1>1. Inv => LimitsMatchFile
  BY DEF Inv
<1> QED BY <1>1, AlwaysInv, PTL

(* What the user sets is recorded for the profile in force, unless that    *)
(* was changed elsewhere since the worker last looked.                     *)
THEOREM RightProfile == Spec => []TrackedIsInForce
<1>1. Inv => TrackedIsInForce
  BY DEF Inv
<1> QED BY <1>1, AlwaysInv, PTL

LEMMA AlwaysReplayInv == Spec => [](LimitsMatchFile /\ ReplayInv)
<1>1. Init => LimitsMatchFile /\ ReplayInv
  BY InitInv, ReplayInitInv DEF Inv
<1>2. LimitsMatchFile /\ ReplayInv /\ [Next]_vars => (LimitsMatchFile /\ ReplayInv)'
  BY MatchesNext, ReplayNext
<1> QED BY <1>1, <1>2, PTL DEF Spec

(* Every variable keeps its type, and there is at most one job, one call   *)
(* and one set of rules in the file.                                       *)
THEOREM TypeCorrect == Spec => []TypeOK
<1>1. LimitsMatchFile /\ ReplayInv => TypeOK
  <2> SUFFICES ASSUME LimitsMatchFile, ReplayInv PROVE TypeOK
    OBVIOUS
  <2>1. Types /\ CallIsDue
    BY DEF ReplayInv
  <2>2. \A x : Cardinality({x}) = 1
    BY FS_Singleton
  <2>3. Cardinality({}) = 0
    BY FS_EmptySet
  <2>4. file \subseteq Rules /\ (file = {} \/ \E r : file = {r})
    BY <2>1 DEF LimitsMatchFile, Unreadable, Types
  <2>5. ASSUME NEW S, S = {} \/ \E x : S = {x} PROVE Cardinality(S) <= 1
    <3>1. Cardinality(S) = 0 \/ Cardinality(S) = 1
      BY <2>2, <2>3, <2>5
    <3> QED BY <3>1
  <2>6. job \subseteq Jobs /\ call \subseteq Calls /\ (call # {} => job # {})
    BY <2>1 DEF Types, CallIsDue
  <2>7. (job = {} \/ \E j : job = {j}) /\ (call = {} \/ \E c : call = {c})
    BY <2>1 DEF Types
  <2>8. Cardinality(file) <= 1 /\ Cardinality(job) <= 1 /\ Cardinality(call) <= 1
    BY <2>4, <2>5, <2>7
  <2> QED BY <2>1, <2>4, <2>6, <2>8 DEF TypeOK, Types, Counts
<1> QED BY <1>1, AlwaysReplayInv, PTL

(* After a replay that wrote everything, and settings of the user that all *)
(* went well, what is remembered for the tracked profile is in force: the  *)
(* replay of the worker mixes no two profiles and leaves out no item, and  *)
(* no value is recorded that the hardware does not have.                   *)
THEOREM RememberedIsInForce == Spec => []RememberedInForce
<1>1. ReplayInv => RememberedInForce
  BY DEF ReplayInv, CallIsDue, SureIsTrue, RememberedInForce, Idle
<1> QED BY <1>1, AlwaysReplayInv, PTL

-----------------------------------------------------------------------------
(* The queue of the product GPU mode.                                      *)

Raws == [Queue!Attributes -> Queue!Bits \cup {Queue!None}]
QueueCalls == [pc : Queue!Pcs, mode : Queue!Modes, left : SUBSET Queue!Attributes, got : Raws]

QueueShapes ==
  /\ inForce \in Queue!Pairs /\ queued \in Raws
  /\ calls \in [Callers -> QueueCalls] /\ DOMAIN answer = Callers

(* What a caller has read so far is what is queued still.                  *)
Reads(c) == \A a \in Queue!Attributes \ calls[c].left : calls[c].got[a] = queued[a]

ModeIsAsked ==
  \A c \in Callers : calls[c].pc \in {"before", "dgpu", "mux", "after"} => calls[c].mode \in asked

GotIsQueued == \A c \in Callers \ crossed : calls[c].pc \in {"before", "after"} => Reads(c)

(* A mix is the doing of a caller that is about to write or to read what   *)
(* is queued now, or has been warned and will not be confirmed unless it   *)
(* reads what is queued now.                                               *)
Mixed == Queue!NextBoot(queued) \notin asked \cup {Queue!Decode(inForce)}
Blame(c) ==
  \/ calls[c].pc \in {"dgpu", "mux"}
  \/ calls[c].pc = "after" /\ Reads(c)
  \/ calls[c].pc = "before" /\ Reads(c) /\ c \in warned
  \/ calls[c].pc \in {"idle", "auth", "status"} /\ c \in warned
MixIsBlamed == Mixed => \E c \in Callers : Blame(c)

QueueInv == QueueShapes /\ ModeIsAsked /\ GotIsQueued /\ MixIsBlamed

LEMMA QueuePromise == QueueInv => Queue!MixIsReported
BY DEF QueueInv, MixIsBlamed, Mixed, Blame, Queue!MixIsReported, Queue!Quiet

USE DEF Queue!None, Queue!Attributes, Queue!Bits

LEMMA EmptyIsRaw == Queue!Empty \in Raws /\ \A a \in Queue!Attributes : Queue!Empty[a] = -1
BY DEF Queue!Empty, Raws

LEMMA TargetsAre ==
  /\ Queue!Modes = {"Hybrid", "Integrated", "Ultimate"}
  /\ \A mode \in Queue!Modes : /\ Queue!Target[mode] \in Queue!Pairs
                               /\ Queue!Decode(Queue!Target[mode]) = mode
<1>1. \A mode \in Queue!Modes :
        Queue!Target[mode] = CASE mode = "Hybrid"     -> Queue!Pair(0, 1)
                               [] mode = "Integrated" -> Queue!Pair(1, 1)
                               [] mode = "Ultimate"   -> Queue!Pair(0, 0)
  BY DEF Queue!Target
<1>2. /\ Queue!Target["Hybrid"] = Queue!Pair(0, 1) /\ Queue!Target["Integrated"] = Queue!Pair(1, 1)
      /\ Queue!Target["Ultimate"] = Queue!Pair(0, 0)
  BY <1>1 DEF Queue!Modes
<1>3. \A d, m \in {0, 1} : /\ Queue!Pair(d, m) \in Queue!Pairs
                           /\ Queue!Pair(d, m)["dgpu"] = d /\ Queue!Pair(d, m)["mux"] = m
  BY DEF Queue!Pair, Queue!Pairs
<1>4. /\ Queue!Pair(0, 1) # Queue!Pair(1, 1) /\ Queue!Pair(0, 1) # Queue!Pair(0, 0)
      /\ Queue!Pair(1, 1) # Queue!Pair(0, 0)
  BY <1>3
<1>5. \A mode, other \in Queue!Modes : Queue!Target[mode] = Queue!Target[other] => mode = other
  BY <1>2, <1>4 DEF Queue!Modes
<1>6. ASSUME NEW mode \in Queue!Modes PROVE Queue!Decode(Queue!Target[mode]) = mode
  BY <1>5 DEF Queue!Decode
<1>7. \A mode \in Queue!Modes : Queue!Target[mode] \in Queue!Pairs
  BY <1>2, <1>3 DEF Queue!Modes
<1> QED BY <1>6, <1>7 DEF Queue!Modes

(* What a caller is told of the pair that is queued.                       *)
LEMMA ToldIsNext ==
  ASSUME inForce \in Queue!Pairs, queued \in Raws, NEW mode \in Queue!Modes,
         NEW pair, pair = Queue!Deferred(inForce, queued),
         \/ Queue!Decode(inForce) = mode /\ ~Queue!RebootRequired(inForce, pair)
         \/ Queue!Classify(mode, inForce, pair) \in {"AlreadyActive", "RebootRequired"}
  PROVE  Queue!NextBoot(queued) = mode
<1>1. \/ Queue!Decode(inForce) = mode /\ ~Queue!RebootRequired(inForce, pair)
      \/ pair = Queue!Target[mode]
  BY DEF Queue!Classify
<1>2. CASE queued = Queue!Empty
  <2>1. pair = Queue!Empty
    BY <1>2 DEF Queue!Deferred
  <2>2. pair # Queue!Target[mode]
    BY <2>1, EmptyIsRaw, TargetsAre DEF Queue!Pairs
  <2> QED BY <1>1, <1>2, <2>2 DEF Queue!NextBoot
<1>3. CASE queued # Queue!Empty
  <2>1. pair["dgpu"] \in {0, 1} /\ pair # Queue!Empty
    BY <1>3, EmptyIsRaw DEF Queue!Deferred, Queue!Pairs, Raws
  <2>2. (pair = inForce /\ Queue!Decode(inForce) = mode) \/ pair = Queue!Target[mode]
    BY <1>1, <2>1 DEF Queue!RebootRequired
  <2> QED BY <1>3, <2>2, TargetsAre DEF Queue!NextBoot
<1> QED BY <1>2, <1>3

LEMMA QueueInitInv == Queue!Init => QueueInv
<1> SUFFICES ASSUME Queue!Init PROVE QueueInv
  OBVIOUS
<1>1. Queue!Idle \in QueueCalls
  BY EmptyIsRaw DEF Queue!Idle, QueueCalls, Queue!Pcs, Queue!Modes
<1>2. \A c \in Callers : calls[c].pc = "idle"
  BY DEF Queue!Init, Queue!Idle
<1>3. QueueShapes
  BY <1>1, EmptyIsRaw, TargetsAre DEF Queue!Init, QueueShapes
<1>4. ~Mixed
  BY DEF Queue!Init, Mixed, Queue!NextBoot
<1> QED BY <1>2, <1>3, <1>4 DEF QueueInv, ModeIsAsked, GotIsQueued, MixIsBlamed

(* A step of a caller that queues nothing.                                 *)
LEMMA NothingQueued ==
  ASSUME QueueInv, NEW c \in Callers, NEW new \in QueueCalls,
         calls' = [calls EXCEPT ![c] = new],
         UNCHANGED <<inForce, queued>>, DOMAIN answer' = Callers,
         asked \subseteq asked', warned \ {c} \subseteq warned',
         crossed \ {c} \subseteq crossed',
         new.pc \in {"before", "dgpu", "mux", "after"} => new.mode \in asked',
         c \notin crossed' /\ new.pc \in {"before", "after"} => Reads(c)',
         Mixed' /\ Blame(c) => Blame(c)'
  PROVE  QueueInv'
<1>1. QueueShapes' /\ calls'[c] = new /\ \A d \in Callers \ {c} : calls'[d] = calls[d]
  BY DEF QueueInv, QueueShapes
<1>2. \A d \in Callers \ {c} : (Reads(d)' <=> Reads(d)) /\ (Blame(d) => Blame(d)')
  BY <1>1 DEF Reads, Blame
<1>3. ModeIsAsked'
  BY <1>1 DEF QueueInv, ModeIsAsked
<1>4. GotIsQueued'
  BY <1>1, <1>2 DEF QueueInv, GotIsQueued
<1>5. Mixed' => Mixed
  BY DEF Mixed, Queue!NextBoot
<1>6. MixIsBlamed'
  BY <1>2, <1>5 DEF QueueInv, MixIsBlamed
<1> QED BY <1>1, <1>3, <1>4, <1>6 DEF QueueInv

(* A write: its caller is to blame for what is queued now.                 *)
LEMMA Queued ==
  ASSUME QueueInv, NEW c \in Callers, NEW new \in QueueCalls,
         calls' = [calls EXCEPT ![c] = new],
         inForce' = inForce, queued' \in Raws, DOMAIN answer' = Callers,
         asked' = asked, crossed' = crossed \cup (Callers \ {c}),
         new.mode = calls[c].mode,
         calls[c].pc \in {"dgpu", "mux"},
         \/ new.pc = "mux"
         \/ new.pc = "after" /\ new.left = Queue!Attributes
         \/ new.pc = "idle" /\ c \in warned'
  PROVE  QueueInv'
<1>1. QueueShapes' /\ calls'[c] = new /\ \A d \in Callers \ {c} : calls'[d] = calls[d]
  BY DEF QueueInv, QueueShapes
<1>2. ModeIsAsked'
  BY <1>1 DEF QueueInv, ModeIsAsked
<1>3. new.pc = "after" => Reads(c)'
  BY <1>1 DEF Reads
<1>4. GotIsQueued'
  BY <1>1, <1>3 DEF GotIsQueued
<1>5. MixIsBlamed'
  BY <1>1, <1>3 DEF MixIsBlamed, Blame
<1> QED BY <1>1, <1>2, <1>4, <1>5 DEF QueueInv

(* Calls as the steps change them.                                         *)
LEMMA CallIs ==
  ASSUME QueueShapes, NEW c \in Callers
  PROVE  /\ calls[c] \in QueueCalls
         /\ calls[c] = [pc |-> calls[c].pc, mode |-> calls[c].mode, left |-> calls[c].left,
                        got |-> calls[c].got]
         /\ calls[c].mode \in Queue!Modes /\ calls[c].left \subseteq Queue!Attributes
         /\ calls[c].got \in Raws
BY DEF QueueShapes, QueueCalls

LEMMA IdleIs == Queue!Idle \in QueueCalls /\ Queue!Idle.pc = "idle"
BY EmptyIsRaw DEF Queue!Idle, QueueCalls, Queue!Pcs, Queue!Modes

(* A call ends; one that is confirmed says what is queued now, if it read  *)
(* that.                                                                   *)
LEMMA AnswerKeeps ==
  ASSUME QueueInv, NEW c \in Callers, NEW a, Queue!Answer(c, a),
         UNCHANGED <<inForce, queued, asked, crossed>>,
         /\ a \notin Queue!Troubles /\ calls[c].pc \in {"before", "after"} /\ Reads(c)
           => Queue!NextBoot(queued) \in asked,
         calls[c].pc \in {"dgpu", "mux"} => a \in Queue!Troubles
  PROVE  QueueInv'
<1>1. /\ calls' = [calls EXCEPT ![c] = Queue!Idle]
      /\ DOMAIN answer' = Callers
      /\ warned' = IF a \in Queue!Troubles THEN warned \cup {c}
                   ELSE IF calls[c].pc \in {"before", "after"} THEN warned \ {c} ELSE warned
  BY DEF Queue!Answer, QueueInv, QueueShapes
<1>2. warned \ {c} \subseteq warned' /\ calls'[c].pc = "idle"
  BY <1>1, IdleIs DEF QueueInv, QueueShapes
<1>3. ASSUME Mixed', Blame(c) PROVE Blame(c)'
  <2>1. Mixed
    BY <1>3 DEF Mixed, Queue!NextBoot
  <2>2. CASE a \in Queue!Troubles
    BY <1>1, <1>2, <2>2 DEF Blame
  <2>3. CASE a \notin Queue!Troubles
    <3>1. ~(calls[c].pc \in {"before", "after"} /\ Reads(c))
      BY <2>1, <2>3 DEF Mixed
    <3>2. calls[c].pc \in {"idle", "auth", "status"} /\ c \in warned
      BY <1>3, <2>3, <3>1 DEF Blame
    <3>3. c \in warned'
      BY <1>1, <2>3, <3>2
    <3> QED BY <1>2, <3>3 DEF Blame
  <2> QED BY <2>2, <2>3
<1> QED BY <1>1, <1>2, <1>3, IdleIs, NothingQueued

LEMMA ArriveKeeps ==
  ASSUME QueueInv, NEW c \in Callers, Queue!SetModeArrives(c) \/ Queue!StatusArrives(c)
  PROVE  QueueInv'
<1>1. PICK pc \in {"auth", "status"}, mode \in Queue!Modes :
        Queue!Arrive(c, pc, mode) /\ UNCHANGED asked
  <2>1. "Hybrid" \in Queue!Modes
    BY DEF Queue!Modes
  <2> QED BY <2>1 DEF Queue!SetModeArrives, Queue!StatusArrives
<1> DEFINE new == [Queue!Idle EXCEPT !.pc = pc, !.mode = mode, !.left = Queue!Attributes]
<1>2. new \in QueueCalls /\ new.pc \in {"auth", "status"}
  BY EmptyIsRaw DEF Queue!Idle, QueueCalls, Queue!Pcs
<1>3. /\ calls' = [calls EXCEPT ![c] = new] /\ calls[c].pc = "idle"
      /\ UNCHANGED <<inForce, queued, asked, warned>> /\ crossed' = crossed \ {c}
      /\ DOMAIN answer' = Callers
  BY <1>1 DEF Queue!Arrive, QueueInv, QueueShapes
<1> HIDE DEF new
<1>4. Blame(c) => Blame(c)'
  <2>1. calls'[c].pc \in {"auth", "status"}
    BY <1>2, <1>3 DEF QueueInv, QueueShapes
  <2> QED BY <1>3, <2>1 DEF Blame
<1>5. new.pc \notin {"before", "dgpu", "mux", "after"}
  BY <1>2
<1> QED BY <1>2, <1>3, <1>4, <1>5, NothingQueued

LEMMA AuthorizeKeeps == ASSUME QueueInv, NEW c \in Callers, Queue!Authorize(c) PROVE QueueInv'
<1>1. calls[c].pc = "auth" /\ UNCHANGED <<inForce, queued, crossed>> /\ QueueShapes
  BY DEF Queue!Authorize, QueueInv
<1>2. CASE Queue!Answer(c, "refused") /\ UNCHANGED asked
  BY <1>1, <1>2, AnswerKeeps
<1>3. CASE /\ Queue!Reading(c, "before") /\ asked' = asked \cup {calls[c].mode}
           /\ UNCHANGED <<answer, warned>>
  <2> DEFINE new == [calls[c] EXCEPT !.pc = "before", !.left = Queue!Attributes,
                                     !.got = Queue!Empty]
  <2>1. /\ new \in QueueCalls /\ new.pc = "before" /\ new.mode = calls[c].mode
        /\ new.left = Queue!Attributes
    BY <1>1, CallIs, EmptyIsRaw DEF QueueCalls, Queue!Pcs
  <2>2. calls' = [calls EXCEPT ![c] = new]
    BY <1>3 DEF Queue!Reading
  <2> HIDE DEF new
  <2>3. calls'[c] = new
    BY <1>1, <2>2 DEF QueueShapes
  <2>4. Reads(c)'
    BY <2>1, <2>3 DEF Reads
  <2>5. Blame(c) => Blame(c)'
    BY <1>1, <1>3, <2>1, <2>3, <2>4 DEF Blame
  <2>6. new.mode \in asked' /\ asked \subseteq asked'
    BY <1>3, <2>1
  <2> QED BY <1>1, <1>3, <2>1, <2>2, <2>4, <2>5, <2>6, NothingQueued DEF QueueShapes
<1> QED BY <1>2, <1>3 DEF Queue!Authorize

LEMMA ReadKeeps ==
  ASSUME QueueInv, NEW c \in Callers, NEW a \in Queue!Attributes, Queue!Read(c, a)
  PROVE  QueueInv'
<1>1. /\ calls[c].pc \in {"before", "after", "status"} /\ QueueShapes
      /\ UNCHANGED <<inForce, queued, answer, warned, asked, crossed>>
  BY DEF Queue!Read, QueueInv
<1> DEFINE got == [calls[c].got EXCEPT ![a] = queued[a]]
           new == [calls[c] EXCEPT !.left = calls[c].left \ {a}, !.got = got]
<1>2. calls' = [calls EXCEPT ![c] = new]
  <2>1. calls' = [calls EXCEPT ![c].left = @ \ {a}, ![c].got[a] = queued[a]]
    BY DEF Queue!Read
  <2> QED BY <1>1, <2>1, CallIs DEF QueueShapes, QueueCalls
<1>3. got = [calls[c].got EXCEPT ![a] = queued[a]] /\ got \in Raws
  BY <1>1, CallIs DEF QueueShapes, Raws
<1> HIDE DEF got
<1>4. /\ new.pc = calls[c].pc /\ new.mode = calls[c].mode /\ new.left = calls[c].left \ {a}
      /\ new.got = got /\ new \in QueueCalls
  BY <1>1, <1>3, CallIs DEF QueueCalls
<1> HIDE DEF new
<1>5. new.got[a] = queued[a] /\ \A b \in Queue!Attributes : b # a => new.got[b] = calls[c].got[b]
  BY <1>1, <1>3, <1>4, CallIs DEF Raws
<1>6. calls'[c] = new
  BY <1>1, <1>2 DEF QueueShapes
<1>7. Reads(c) => Reads(c)'
  BY <1>1, <1>4, <1>5, <1>6 DEF Reads
<1>8. Blame(c) => Blame(c)'
  BY <1>1, <1>4, <1>6, <1>7 DEF Blame
<1>9. new.pc \in {"before", "dgpu", "mux", "after"} => new.mode \in asked
  BY <1>4 DEF QueueInv, ModeIsAsked
<1>10. c \notin crossed /\ new.pc \in {"before", "after"} => Reads(c)'
  BY <1>4, <1>7 DEF QueueInv, GotIsQueued
<1> QED BY <1>1, <1>2, <1>4, <1>8, <1>9, <1>10, NothingQueued DEF QueueShapes

(* With both values read, what is read is what is queued.                  *)
LEMMA WholeIsQueued ==
  ASSUME QueueShapes, NEW c \in Callers, calls[c].left = {}, Reads(c)
  PROVE  calls[c].got = queued
BY CallIs DEF Reads, QueueShapes, Raws

LEMMA DecideKeeps == ASSUME QueueInv, NEW c \in Callers, Queue!Decide(c) PROVE QueueInv'
<1>1. /\ calls[c].pc = "before" /\ calls[c].left = {} /\ QueueShapes
      /\ UNCHANGED <<inForce, queued, asked, crossed>> /\ calls[c].mode \in asked
  BY DEF Queue!Decide, QueueInv, ModeIsAsked
<1>2. CASE /\ Queue!Decode(inForce) = calls[c].mode
           /\ ~Queue!RebootRequired(inForce, Queue!Deferred(inForce, calls[c].got))
           /\ Queue!Answer(c, "AlreadyActive")
  <2>1. ASSUME Reads(c) PROVE Queue!NextBoot(queued) = calls[c].mode
    BY <1>1, <1>2, <2>1, WholeIsQueued, ToldIsNext, CallIs DEF QueueShapes
  <2> QED BY <1>1, <1>2, <2>1, AnswerKeeps
<1>3. CASE calls' = [calls EXCEPT ![c].pc = "dgpu"] /\ UNCHANGED <<answer, warned>>
  <2> DEFINE new == [calls[c] EXCEPT !.pc = "dgpu"]
  <2>1. new \in QueueCalls /\ new.pc = "dgpu" /\ new.mode = calls[c].mode
    BY <1>1, CallIs DEF QueueCalls, Queue!Pcs
  <2>2. calls' = [calls EXCEPT ![c] = new]
    BY <1>3
  <2> HIDE DEF new
  <2>3. Blame(c)'
    BY <1>1, <2>1, <2>2 DEF QueueShapes, Blame
  <2>4. new.pc \notin {"before", "after"}
    BY <2>1
  <2> QED BY <1>1, <1>3, <2>1, <2>2, <2>3, <2>4, NothingQueued DEF QueueShapes
<1> QED BY <1>2, <1>3 DEF Queue!Decide

LEMMA EndKeeps ==
  ASSUME QueueInv, NEW c \in Callers,
         Queue!Confirm(c) \/ Queue!ReportStatus(c) \/ Queue!ReadFails(c)
  PROVE  QueueInv'
<1>1. QueueShapes
  BY DEF QueueInv
<1>2. CASE Queue!Confirm(c)
  <2>1. /\ calls[c].pc = "after" /\ calls[c].left = {}
        /\ UNCHANGED <<inForce, queued, asked, crossed>> /\ calls[c].mode \in asked
    BY <1>2 DEF Queue!Confirm, QueueInv, ModeIsAsked
  <2> DEFINE a == Queue!Classify(calls[c].mode, inForce, Queue!Deferred(inForce, calls[c].got))
  <2>2. Queue!Answer(c, a)
    BY <1>2 DEF Queue!Confirm
  <2>3. a \in {"AlreadyActive", "RebootRequired"} \/ a \in Queue!Troubles
    BY DEF Queue!Classify, Queue!Troubles
  <2>4. ASSUME Reads(c), a \in {"AlreadyActive", "RebootRequired"}
        PROVE  Queue!NextBoot(queued) = calls[c].mode
    BY <1>1, <2>1, <2>4, WholeIsQueued, ToldIsNext, CallIs DEF QueueShapes
  <2> HIDE DEF a
  <2> QED BY <2>1, <2>2, <2>3, <2>4, AnswerKeeps
<1>3. CASE Queue!ReportStatus(c)
  <2>1. calls[c].pc = "status" /\ UNCHANGED <<inForce, queued, asked, crossed>>
    BY <1>3 DEF Queue!ReportStatus
  <2> QED BY <1>3, <2>1, AnswerKeeps DEF Queue!ReportStatus
<1>4. CASE Queue!ReadFails(c)
  <2>1. "error" \in Queue!Troubles
    BY DEF Queue!Troubles
  <2> QED BY <1>4, <2>1, AnswerKeeps DEF Queue!ReadFails
<1> QED BY <1>2, <1>3, <1>4

LEMMA WriteKeeps ==
  ASSUME QueueInv, NEW c \in Callers, Queue!WriteDgpu(c) \/ Queue!WriteMux(c)
  PROVE  QueueInv'
<1>1. PICK a \in Queue!Attributes :
        /\ calls[c].pc = a
        /\ \/ /\ Queue!Queues(c, a, Queue!Target[calls[c].mode][a])
              /\ IF a = "dgpu" THEN calls' = [calls EXCEPT ![c].pc = "mux"]
                 ELSE Queue!Reading(c, "after")
              /\ answer' = answer
           \/ /\ \E x \in Queue!Troubles : Queue!Answer(c, x)
              /\ \/ Queue!Queues(c, a, Queue!Target[calls[c].mode][a])
                 \/ UNCHANGED <<queued, crossed>>
        /\ UNCHANGED <<inForce, asked>>
  <2>1. {"error", "partial"} \subseteq Queue!Troubles
    BY DEF Queue!Troubles
  <2>2. CASE Queue!WriteDgpu(c)
    BY <2>1, <2>2 DEF Queue!WriteDgpu
  <2>3. CASE Queue!WriteMux(c)
    BY <2>1, <2>3 DEF Queue!WriteMux
  <2> QED BY <2>2, <2>3
<1>2. QueueShapes /\ calls[c].pc \in {"dgpu", "mux"}
  BY <1>1 DEF QueueInv
<1>3. ASSUME Queue!Queues(c, a, Queue!Target[calls[c].mode][a])
      PROVE  queued' \in Raws /\ crossed' = crossed \cup (Callers \ {c})
  <2>1. Queue!Target[calls[c].mode][a] \in {0, 1}
    BY <1>2, CallIs, TargetsAre DEF Queue!Pairs
  <2> QED BY <1>2, <1>3, <2>1 DEF Queue!Queues, QueueShapes, Raws
<1>4. CASE /\ Queue!Queues(c, a, Queue!Target[calls[c].mode][a]) /\ answer' = answer
           /\ IF a = "dgpu" THEN calls' = [calls EXCEPT ![c].pc = "mux"]
              ELSE Queue!Reading(c, "after")
  <2> DEFINE new == IF a = "dgpu" THEN [calls[c] EXCEPT !.pc = "mux"]
                    ELSE [calls[c] EXCEPT !.pc = "after", !.left = Queue!Attributes,
                                          !.got = Queue!Empty]
  <2>1. calls' = [calls EXCEPT ![c] = new]
    BY <1>4 DEF Queue!Reading
  <2>2. /\ new \in QueueCalls /\ new.mode = calls[c].mode
        /\ new.pc = "mux" \/ (new.pc = "after" /\ new.left = Queue!Attributes)
    BY <1>2, CallIs, EmptyIsRaw DEF QueueCalls, Queue!Pcs
  <2> HIDE DEF new
  <2> QED BY <1>1, <1>2, <1>3, <1>4, <2>1, <2>2, Queued DEF QueueShapes
<1>5. CASE /\ \E x \in Queue!Troubles : Queue!Answer(c, x)
           /\ \/ Queue!Queues(c, a, Queue!Target[calls[c].mode][a])
              \/ UNCHANGED <<queued, crossed>>
  <2>1. PICK x \in Queue!Troubles : Queue!Answer(c, x)
    BY <1>5
  <2>2. CASE UNCHANGED <<queued, crossed>>
    BY <1>1, <2>1, <2>2, AnswerKeeps
  <2>3. CASE Queue!Queues(c, a, Queue!Target[calls[c].mode][a])
    <3>1. /\ calls' = [calls EXCEPT ![c] = Queue!Idle] /\ DOMAIN answer' = Callers
          /\ c \in warned'
      BY <1>2, <2>1 DEF Queue!Answer, QueueShapes
    <3>2. calls'[c] = Queue!Idle /\ \A d \in Callers \ {c} : calls'[d] = calls[d]
      BY <1>2, <3>1 DEF QueueShapes
    <3>3. QueueShapes'
      BY <1>1, <1>2, <1>3, <2>3, <3>1, IdleIs DEF QueueShapes
    <3>4. ModeIsAsked' /\ GotIsQueued'
      BY <1>1, <1>3, <2>3, <3>2, IdleIs DEF QueueInv, ModeIsAsked, GotIsQueued
    <3>5. Blame(c)'
      BY <3>1, <3>2, IdleIs DEF Blame
    <3> QED BY <3>3, <3>4, <3>5 DEF QueueInv, MixIsBlamed
  <2> QED BY <1>5, <2>2, <2>3
<1> QED BY <1>1, <1>4, <1>5

LEMMA BootKeeps == QueueInv /\ Queue!Boot => QueueInv'
<1> SUFFICES ASSUME QueueInv, Queue!Boot PROVE QueueInv'
  OBVIOUS
<1>1. /\ calls' = [c \in Callers |-> Queue!Idle] /\ DOMAIN answer' = Callers
      /\ queued' = Queue!Empty
      /\ inForce' = IF queued = Queue!Empty THEN inForce ELSE Queue!Deferred(inForce, queued)
  BY DEF Queue!Boot
<1>2. inForce' \in Queue!Pairs
  BY <1>1 DEF QueueInv, QueueShapes, Raws, Queue!Deferred, Queue!Pairs
<1>3. \A c \in Callers : calls'[c].pc = "idle"
  BY <1>1, IdleIs
<1>4. QueueShapes'
  BY <1>1, <1>2, IdleIs, EmptyIsRaw DEF QueueShapes
<1>5. ~Mixed'
  BY <1>1 DEF Mixed, Queue!NextBoot
<1> QED BY <1>3, <1>4, <1>5 DEF QueueInv, ModeIsAsked, GotIsQueued, MixIsBlamed

LEMMA QueueNextInv == QueueInv /\ Queue!Next => QueueInv'
BY ArriveKeeps, AuthorizeKeeps, ReadKeeps, DecideKeeps, EndKeeps, WriteKeeps, BootKeeps
DEF Queue!Next, Queue!Step

(* A caller that ends with its mode confirmed has read what is queued.     *)
ConfirmedNow ==
  \A c \in Callers \ crossed :
    /\ calls[c].pc \in {"before", "after"} /\ calls[c].left = {} /\ calls'[c].pc = "idle"
    /\ answer'[c] \in {"AlreadyActive", "RebootRequired"}
    => Queue!NextBoot(queued) = calls[c].mode

LEMMA ConfirmedStep == QueueInv /\ Queue!Next => ConfirmedNow
<1> SUFFICES ASSUME QueueInv, Queue!Next, NEW c \in Callers \ crossed,
                    calls[c].pc \in {"before", "after"}, calls[c].left = {}, calls'[c].pc = "idle",
                    answer'[c] \in {"AlreadyActive", "RebootRequired"}
             PROVE  Queue!NextBoot(queued) = calls[c].mode
  BY DEF ConfirmedNow
<1>1. /\ QueueShapes /\ calls[c].got = queued /\ calls[c].mode \in Queue!Modes
      /\ inForce \in Queue!Pairs /\ queued \in Raws
  BY WholeIsQueued, CallIs DEF QueueInv, GotIsQueued, QueueShapes
<1>2. ASSUME NEW d \in Callers, d # c,
             Queue!Step(d) \/ Queue!SetModeArrives(d) \/ Queue!StatusArrives(d)
      PROVE  FALSE
  <2>1. calls'[c] = calls[c]
    BY <1>1, <1>2
    DEF QueueShapes, Queue!Step, Queue!SetModeArrives, Queue!StatusArrives, Queue!Arrive,
        Queue!Authorize, Queue!Decide, Queue!WriteDgpu, Queue!WriteMux, Queue!Confirm,
        Queue!ReportStatus, Queue!ReadFails, Queue!Read, Queue!Answer, Queue!Reading
  <2> QED BY <2>1
<1>3. ~Queue!Boot
  <2>1. Queue!Boot => answer'[c] = "none"
    BY DEF Queue!Boot
  <2> QED BY <2>1
<1>4. Queue!Decide(c) \/ Queue!Confirm(c)
  <2>1. ~Queue!SetModeArrives(c) /\ ~Queue!StatusArrives(c) /\ ~Queue!Authorize(c)
        /\ ~Queue!WriteDgpu(c) /\ ~Queue!WriteMux(c) /\ ~Queue!ReportStatus(c)
        /\ ~Queue!ReadFails(c) /\ \A a \in Queue!Attributes : ~Queue!Read(c, a)
    BY DEF Queue!SetModeArrives, Queue!StatusArrives, Queue!Arrive, Queue!Authorize,
           Queue!WriteDgpu, Queue!WriteMux, Queue!ReportStatus, Queue!ReadFails, Queue!Read
  <2> QED BY <1>2, <1>3, <2>1 DEF Queue!Next, Queue!Step
<1>5. CASE Queue!Decide(c)
  <2>1. calls[c].pc = "before" /\ calls' # [calls EXCEPT ![c].pc = "dgpu"]
    BY <1>1, <1>5, CallIs DEF Queue!Decide, QueueShapes
  <2>2. /\ Queue!Decode(inForce) = calls[c].mode
        /\ ~Queue!RebootRequired(inForce, Queue!Deferred(inForce, queued))
    BY <1>1, <1>5, <2>1 DEF Queue!Decide
  <2> QED BY <1>1, <2>2, ToldIsNext
<1>6. CASE Queue!Confirm(c)
  <2>1. answer'[c] = Queue!Classify(calls[c].mode, inForce, Queue!Deferred(inForce, queued))
    BY <1>1, <1>6 DEF Queue!Confirm, Queue!Answer, QueueShapes
  <2> QED BY <1>1, <2>1, ToldIsNext
<1> QED BY <1>4, <1>5, <1>6

LEMMA AlwaysQueueInv == PartSpec => []QueueInv
<1>1. PartInit => QueueInv
  BY QueueInitInv DEF PartInit
<1>2. QueueInv /\ [PartNext]_<<part, vars, queueState, attributeState>> => QueueInv'
  <2>1. QueueInv /\ UNCHANGED queueState => QueueInv'
    BY DEF queueState, QueueInv, QueueShapes, ModeIsAsked, GotIsQueued, MixIsBlamed, Mixed, Blame,
           Reads, Queue!NextBoot
  <2> QED BY <2>1, QueueNextInv DEF PartNext
<1> QED BY <1>1, <1>2, PTL DEF PartSpec

(* A caller told that its GPU mode is active or queued, with no write of   *)
(* another during its call, gets it at the next boot.                      *)
THEOREM ConfirmedComes == PartSpec => ConfirmedIsNext
<1>1. QueueInv /\ [PartNext]_<<part, vars, queueState, attributeState>>
      => [ConfirmedNow]_queueState
  BY ConfirmedStep DEF PartNext
<1>2. PartSpec => [][ConfirmedNow]_queueState
  BY <1>1, AlwaysQueueInv, PTL DEF PartSpec
<1> QED BY <1>2 DEF ConfirmedIsNext, Queue!ConfirmedIsNext, ConfirmedNow, queueState, Queue!vars

-----------------------------------------------------------------------------
(* The settings behind attributes.                                         *)

TaskShapes ==
  /\ value \in [Cpus -> Values] /\ online \subseteq Cpus
  /\ tasks \in [Callers -> Attributes!Calls] /\ book \in Attributes!Books
  /\ \A c \in Callers :
       /\ tasks[c].pc \in {"writing", "checking"}
          => tasks[c].left \subseteq tasks[c].files /\ tasks[c].left # {}
       /\ tasks[c].pc \in {"running", "noting", "telling"} => setting = "curve"

(* A caller that knows of a refusal, or is about to, learns nothing that   *)
(* hardwared has not noted.                                                *)
RefusalIsNoted ==
  /\ book.learned = TRUE => refused = TRUE
  /\ \A c \in Callers : /\ tasks[c].pc = "telling" /\ tasks[c].end = "refused" => refused = TRUE
                        /\ tasks[c].pc = "probing" => tasks[c].late # TRUE

(* A call writes every file there is, unless one came since.               *)
FilesAreWritten ==
  book.blurred # TRUE =>
    \A c \in Callers :
      tasks[c].pc \in {"writing", "checking"} => Attributes!Files \subseteq tasks[c].files

(* A call that has written, and one that will find out, or say, whether    *)
(* the value in every file is its own.                                     *)
Ending(c) == tasks[c].pc \in {"noting", "telling"}
Halfway(c) == tasks[c].pc = "writing" /\ tasks[c].left # tasks[c].files
HasWritten(c) ==
  \/ Halfway(c)
  \/ tasks[c].pc = "checking"
  \/ Ending(c) /\ tasks[c].end # "refused"
Answers(c) ==
  \/ Halfway(c)
  \/ /\ tasks[c].pc = "checking"
     /\ \A f \in Attributes!Files \ tasks[c].left : value[f] = tasks[c].want
  \/ Ending(c) /\ tasks[c].end = "failed"
  \/ Ending(c) /\ tasks[c].end = "done" /\ value[Attributes!Least(Cpus)] = tasks[c].want

(* The value is a fair one, or a call will answer for it.                  *)
Settled ==
  \/ Attributes!Agreed \cap book.fair # {}
  \/ book.fair = {} /\ \A c \in Callers : ~HasWritten(c)
ValueIsFair == book.blurred # TRUE => Settled \/ \E c \in Callers : Answers(c)

TaskInv == TaskShapes /\ RefusalIsNoted /\ FilesAreWritten /\ ValueIsFair

LEMMA TaskPromise == TaskInv => Attributes!CrossingIsTold /\ Attributes!RefusalRemembered
<1> SUFFICES ASSUME TaskInv PROVE Attributes!CrossingIsTold /\ Attributes!RefusalRemembered
  OBVIOUS
<1>1. \A c \in Callers : Answers(c) => c \in Attributes!Underway
  BY DEF Answers, Halfway, Ending, Attributes!Underway
<1> QED BY <1>1 DEF TaskInv, ValueIsFair, Settled, RefusalIsNoted, Attributes!CrossingIsTold,
                   Attributes!RefusalRemembered

LEMMA FirstCpu ==
  ASSUME NEW S \in SUBSET Cpus, S # {}
  PROVE  Attributes!Least(S) \in S
BY CpusAssumption, Least DEF Attributes!Least

LEMMA FilesAre == online \subseteq Cpus => Attributes!Files \subseteq Cpus
BY CpusAssumption, FirstCpu DEF Attributes!Files

(* Calls as the steps change them.                                         *)
LEMMA TaskIs ==
  ASSUME NEW t \in Attributes!Calls
  PROVE  /\ t.pc \in {"free", "authorizing", "validating", "running", "writing", "checking",
                      "noting", "telling", "probing"}
         /\ t.pc = "free" => t = Attributes!Free
         /\ t.pc \in {"authorizing", "validating", "running"}
            => t = [pc |-> t.pc, want |-> t.want] /\ t.want \in Values
         /\ t.pc \in {"writing", "checking"}
            => /\ t = [pc |-> t.pc, want |-> t.want, files |-> t.files, left |-> t.left]
               /\ t.want \in Values /\ t.files \subseteq Cpus /\ t.left \subseteq Cpus
         /\ t.pc \in {"noting", "telling"}
            => /\ t = [pc |-> t.pc, want |-> t.want, end |-> t.end] /\ t.want \in Values
               /\ t.end \in {"refused", "done", "failed"}
         /\ t.pc = "probing" => t = [pc |-> t.pc, late |-> t.late]
BY DEF Attributes!Calls, Attributes!Free

LEMMA FreeIs == Attributes!Free \in Attributes!Calls /\ Attributes!Free.pc = "free"
BY DEF Attributes!Calls, Attributes!Free

(* What a step of one call must keep to.                                   *)
Passes(c) ==
  /\ value' = value /\ book.fair \subseteq book'.fair
  /\ book'.fair = book.fair \/ HasWritten(c)
  /\ HasWritten(c)' => HasWritten(c)
  /\ Answers(c) => Answers(c)' \/ (Attributes!Agreed \cap book.fair)' # {}

Shaped(t) ==
  /\ t.pc \in {"writing", "checking"} => t.left \subseteq t.files /\ t.left # {}
  /\ t.pc \in {"running", "noting", "telling"} => setting = "curve"

Noted(t) ==
  /\ t.pc = "telling" /\ t.end = "refused" => refused' = TRUE
  /\ t.pc = "probing" => t.late # TRUE

LEMMA OneTask ==
  ASSUME TaskInv, NEW c \in Callers, NEW new \in Attributes!Calls,
         tasks' = [tasks EXCEPT ![c] = new], UNCHANGED <<setting, online>>,
         value' \in [Cpus -> Values], book' \in Attributes!Books,
         Shaped(new), Noted(new),
         refused = TRUE => refused' = TRUE, book'.learned = TRUE => refused' = TRUE,
         book'.blurred # TRUE => book.blurred # TRUE \/ Attributes!Underway = {},
         new.pc = "writing" /\ tasks[c].pc # "writing" => new.files = Attributes!Files,
         new.pc \in {"writing", "checking"} /\ tasks[c].pc \in {"writing", "checking"}
           => new.files = tasks[c].files,
         new.pc = "checking" => tasks[c].pc \in {"writing", "checking"},
         book'.blurred # TRUE =>
           Settled' \/ Answers(c)' \/ (book.blurred # TRUE /\ Passes(c))
  PROVE  TaskInv'
<1>1. tasks'[c] = new /\ \A d \in Callers \ {c} : tasks'[d] = tasks[d]
  BY DEF TaskInv, TaskShapes
<1>2. Attributes!Files' = Attributes!Files
  BY DEF Attributes!Files
<1>3. TaskShapes'
  <2>1. tasks' \in [Callers -> Attributes!Calls] /\ online' \subseteq Cpus
    BY DEF TaskInv, TaskShapes
  <2>2. \A d \in Callers : Shaped(tasks[d])
    BY DEF TaskInv, TaskShapes, Shaped
  <2>3. \A d \in Callers : Shaped(tasks'[d])
    BY <1>1, <2>2
  <2> QED BY <2>1, <2>3 DEF TaskShapes, Shaped
<1>4. RefusalIsNoted'
  BY <1>1 DEF TaskInv, RefusalIsNoted, Noted
<1>5. FilesAreWritten'
  <2> SUFFICES ASSUME book'.blurred # TRUE, NEW d \in Callers,
                      tasks'[d].pc \in {"writing", "checking"}
               PROVE  Attributes!Files \subseteq tasks'[d].files
    BY <1>2 DEF FilesAreWritten
  <2>1. CASE d # c
    <3>1. tasks'[d] = tasks[d] /\ d \in Attributes!Underway
      BY <1>1, <2>1 DEF Attributes!Underway
    <3> QED BY <3>1 DEF TaskInv, FilesAreWritten
  <2>2. CASE d = c /\ tasks[c].pc \in {"writing", "checking"}
    <3>1. book.blurred # TRUE
      BY <2>2 DEF Attributes!Underway
    <3>2. Attributes!Files \subseteq tasks[c].files
      BY <2>2, <3>1 DEF TaskInv, FilesAreWritten
    <3> QED BY <1>1, <2>2, <3>2
  <2>3. CASE d = c /\ tasks[c].pc \notin {"writing", "checking"}
    BY <1>1, <2>3
  <2> QED BY <2>1, <2>2, <2>3
<1>6. ASSUME book.blurred # TRUE, Passes(c), ~Settled', ~Answers(c)'
      PROVE  \E d \in Callers : Answers(d)'
  <2>1. Attributes!Agreed' = Attributes!Agreed
    BY <1>2, <1>6 DEF Attributes!Agreed, Passes
  <2>2. Attributes!Agreed \cap book.fair = {}
    BY <1>6, <2>1 DEF Passes, Settled
  <2>3. \A d \in Callers \ {c} : /\ HasWritten(d)' <=> HasWritten(d)
                                 /\ Answers(d) => Answers(d)'
    BY <1>1, <1>2, <1>6 DEF HasWritten, Answers, Halfway, Ending, Passes
  <2>4. ~Answers(c)
    BY <1>6 DEF Passes, Settled
  <2>5. ~Settled
    <3> SUFFICES ASSUME book.fair = {}, \A d \in Callers : ~HasWritten(d) PROVE FALSE
      BY <2>2 DEF Settled
    <3>1. book'.fair = {} /\ \A d \in Callers : ~HasWritten(d)'
      BY <1>6, <2>3 DEF Passes
    <3> QED BY <1>6, <3>1 DEF Settled
  <2>6. \E d \in Callers : Answers(d)
    BY <1>6, <2>5 DEF TaskInv, ValueIsFair
  <2> QED BY <2>3, <2>4, <2>6
<1>7. ValueIsFair'
  BY <1>6 DEF ValueIsFair
<1> QED BY <1>3, <1>4, <1>5, <1>7 DEF TaskInv

(* A step of a call that changes nothing but the call, and has written     *)
(* nothing.                                                                *)
LEMMA QuietTask ==
  ASSUME TaskInv, NEW c \in Callers, NEW new \in Attributes!Calls,
         tasks' = [tasks EXCEPT ![c] = new], UNCHANGED <<setting, online, value, refused, book>>,
         Shaped(new), Noted(new), ~HasWritten(c),
         new.pc \in {"free", "validating", "running", "probing"}
         \/ (new.pc = "writing" /\ new.left = new.files /\ new.files = Attributes!Files)
         \/ (new.pc = "noting" /\ new.end = "refused"),
         tasks[c].pc # "writing" \/ new.pc # "writing"
  PROVE  TaskInv'
<1>1. tasks'[c] = new
  BY DEF TaskInv, TaskShapes
<1>2. ~HasWritten(c)' /\ ~Answers(c)
  BY <1>1 DEF HasWritten, Answers, Halfway, Ending
<1>3. Passes(c)
  BY <1>2 DEF Passes
<1>4. /\ value \in [Cpus -> Values] /\ book \in Attributes!Books
      /\ book.learned = TRUE => refused = TRUE
  BY DEF TaskInv, TaskShapes, RefusalIsNoted
<1>5. value' \in [Cpus -> Values] /\ book' \in Attributes!Books
      /\ (refused = TRUE => refused' = TRUE) /\ (book'.learned = TRUE => refused' = TRUE)
      /\ (book'.blurred # TRUE => book.blurred # TRUE) /\ UNCHANGED <<setting, online>>
  BY <1>4
<1>6. /\ new.pc = "writing" => new.files = Attributes!Files
      /\ new.pc # "checking" /\ (new.pc = "writing" => tasks[c].pc # "writing")
  OBVIOUS
<1>7. tasks[c].pc # "checking"
  BY DEF HasWritten
<1> QED BY <1>3, <1>5, <1>6, <1>7, OneTask

(* A call that ends with the setting uncertain, its caller told so.        *)
LEMMA BlurredTask ==
  ASSUME TaskInv, NEW c \in Callers, Attributes!Fails(c), UNCHANGED <<setting, online, refused>>,
         value' \in [Cpus -> Values]
  PROVE  TaskInv'
<1>1. tasks' = [tasks EXCEPT ![c] = Attributes!Free] /\ book' = [book EXCEPT !.blurred = TRUE]
  BY DEF Attributes!Fails, Attributes!Goes, Attributes!Blurred
<1>2. book' \in Attributes!Books /\ book'.blurred = TRUE /\ book'.learned = book.learned
  BY <1>1 DEF TaskInv, TaskShapes, Attributes!Books
<1>3. Shaped(Attributes!Free) /\ Noted(Attributes!Free)
  BY FreeIs DEF Shaped, Noted
<1>4. book'.learned = TRUE => refused' = TRUE
  BY <1>2 DEF TaskInv, RefusalIsNoted
<1> QED BY <1>1, <1>2, <1>3, <1>4, FreeIs, OneTask

(* A call of Hardware1, and its authorization.                             *)
LEMMA CallInv ==
  ASSUME TaskInv, NEW c \in Callers, NEW v \in Values, Attributes!Call(c, v)
  PROVE  TaskInv'
<1> DEFINE new == [pc |-> "authorizing", want |-> v]
<1>1. /\ tasks[c] = Attributes!Free /\ tasks' = [tasks EXCEPT ![c] = new]
      /\ book' = IF Attributes!Underway # {} THEN book
                 ELSE [book EXCEPT !.fair = Attributes!Agreed, !.blurred = FALSE]
      /\ UNCHANGED <<setting, value, online, refused>>
  BY DEF Attributes!Call, Attributes!SetPerformanceProfile, Attributes!SetCpuEpp,
         Attributes!SetCpuBoost, Attributes!SetAspmDisabled, Attributes!SetBootSound,
         Attributes!SetApuMemory, Attributes!SetPanelOverdrive, Attributes!SetPowerLimit,
         Attributes!SetNvidiaTuning, Attributes!SetCurveOptimizer, Attributes!Begins,
         Attributes!Goes, Attributes!hardware
<1>2. new \in Attributes!Calls /\ new.pc = "authorizing"
  BY DEF Attributes!Calls
<1> HIDE DEF new
<1>3. /\ Shaped(new) /\ Noted(new) /\ tasks'[c] = new
      /\ \A d \in Callers \ {c} : tasks'[d] = tasks[d]
  BY <1>1, <1>2 DEF Shaped, Noted, TaskInv, TaskShapes
<1>4. ~HasWritten(c) /\ ~Answers(c) /\ ~HasWritten(c)'
  BY <1>1, <1>2, <1>3, FreeIs DEF HasWritten, Answers, Halfway, Ending
<1>5. CASE Attributes!Underway # {}
  BY <1>1, <1>2, <1>3, <1>4, <1>5, OneTask
  DEF Passes, TaskInv, TaskShapes, RefusalIsNoted
<1>6. CASE Attributes!Underway = {}
  <2>1. book' = [book EXCEPT !.fair = Attributes!Agreed, !.blurred = FALSE]
    BY <1>1, <1>6
  <2>2. Attributes!Agreed \subseteq Values /\ Attributes!Agreed' = Attributes!Agreed
    BY <1>1 DEF Attributes!Agreed, Attributes!Files
  <2>3. /\ book' \in Attributes!Books /\ book'.fair = Attributes!Agreed
        /\ book'.learned = book.learned
    BY <2>1, <2>2 DEF TaskInv, TaskShapes, Attributes!Books
  <2>4. \A d \in Callers \ {c} : ~HasWritten(d)'
    BY <1>3, <1>6 DEF Attributes!Underway, HasWritten, Halfway, Ending
  <2>5. Settled'
    BY <1>4, <2>2, <2>3, <2>4 DEF Settled
  <2>6. book'.learned = TRUE => refused' = TRUE
    BY <1>1, <2>3 DEF TaskInv, RefusalIsNoted
  <2>7. value' \in [Cpus -> Values] /\ (refused = TRUE => refused' = TRUE)
    BY <1>1 DEF TaskInv, TaskShapes
  <2> QED BY <1>1, <1>2, <1>3, <1>6, <2>3, <2>5, <2>6, <2>7, OneTask
<1> QED BY <1>5, <1>6

LEMMA AuthorizeInv == ASSUME TaskInv, NEW c \in Callers, Attributes!Authorize(c) PROVE TaskInv'
<1>1. tasks[c] \in Attributes!Calls /\ tasks[c].pc = "authorizing"
      /\ UNCHANGED <<setting, online, value, refused, book>>
  BY DEF TaskInv, TaskShapes, Attributes!Authorize, Attributes!hardware
<1>2. ~HasWritten(c)
  BY <1>1 DEF HasWritten, Halfway, Ending
<1> DEFINE pc == IF setting = "curve" THEN "running" ELSE "validating"
           granted == [tasks[c] EXCEPT !.pc = pc]
<1>3. PICK new \in {granted, Attributes!Free} : tasks' = [tasks EXCEPT ![c] = new]
  BY DEF Attributes!Authorize, Attributes!Goes
<1>4. pc \in {"validating", "running"} /\ (pc = "running" => setting = "curve")
  OBVIOUS
<1> HIDE DEF pc
<1>5. granted \in Attributes!Calls /\ granted.pc = pc
  <2>1. granted = [pc |-> pc, want |-> tasks[c].want] /\ tasks[c].want \in Values
    BY <1>1, TaskIs
  <2> QED BY <1>4, <2>1 DEF Attributes!Calls
<1> HIDE DEF granted
<1>6. new \in Attributes!Calls /\ new.pc \in {"free", "validating", "running"}
      /\ (new.pc = "running" => setting = "curve")
  BY <1>3, <1>4, <1>5, FreeIs
<1>7. Shaped(new) /\ Noted(new)
  BY <1>6 DEF Shaped, Noted
<1> QED BY <1>1, <1>2, <1>3, <1>6, <1>7, QuietTask

LEMMA ValidateInv == ASSUME TaskInv, NEW c \in Callers, Attributes!Validate(c) PROVE TaskInv'
<1> DEFINE begun == [pc |-> "writing", want |-> tasks[c].want, files |-> Attributes!Files,
                     left |-> Attributes!Files]
<1>1. /\ tasks[c].pc = "validating" /\ UNCHANGED <<setting, online, value, refused, book>>
      /\ \/ Attributes!Files # {} /\ tasks' = [tasks EXCEPT ![c] = begun]
         \/ tasks' = [tasks EXCEPT ![c] = Attributes!Free]
  BY DEF Attributes!Validate, Attributes!EppPaths, Attributes!ProfileChoices,
         Attributes!LimitBounds, Attributes!NvidiaBounds, Attributes!ApuMemoryRange,
         Attributes!Unvalidated, Attributes!Validates, Attributes!Goes, Attributes!hardware
<1>2. tasks[c] \in Attributes!Calls /\ online \subseteq Cpus
  BY DEF TaskInv, TaskShapes
<1>3. begun \in Attributes!Calls
  <2>1. tasks[c].want \in Values
    BY <1>1, <1>2, TaskIs
  <2>2. Attributes!Files \in SUBSET Cpus
    BY <1>2, FilesAre
  <2> QED BY <2>1, <2>2 DEF Attributes!Calls
<1>4. /\ begun.pc = "writing" /\ begun.left = begun.files /\ begun.files = Attributes!Files
      /\ begun.left = Attributes!Files
  OBVIOUS
<1> HIDE DEF begun
<1>5. ~HasWritten(c)
  BY <1>1 DEF HasWritten, Halfway, Ending
<1>6. CASE Attributes!Files # {} /\ tasks' = [tasks EXCEPT ![c] = begun]
  <2>1. Shaped(begun) /\ Noted(begun)
    BY <1>4, <1>6 DEF Shaped, Noted
  <2> QED BY <1>1, <1>3, <1>4, <1>5, <1>6, <2>1, QuietTask
<1>7. CASE tasks' = [tasks EXCEPT ![c] = Attributes!Free]
  <2>1. Shaped(Attributes!Free) /\ Noted(Attributes!Free)
    BY FreeIs DEF Shaped, Noted
  <2> QED BY <1>1, <1>5, <1>7, <2>1, FreeIs, QuietTask
<1> QED BY <1>1, <1>6, <1>7

(* The file written next.                                                  *)
LEMMA WriterIs ==
  ASSUME TaskInv, NEW c \in Callers, tasks[c].pc \in {"writing", "checking"}
  PROVE  /\ tasks[c] \in Attributes!Calls /\ tasks[c].want \in Values
         /\ tasks[c].files \subseteq Cpus /\ tasks[c].left \subseteq tasks[c].files
         /\ tasks[c].left # {} /\ tasks[c].left \subseteq Cpus
         /\ Attributes!Least(tasks[c].left) \in tasks[c].left
<1>1. /\ tasks[c] \in Attributes!Calls
      /\ tasks[c].left \subseteq tasks[c].files /\ tasks[c].left # {}
  BY DEF TaskInv, TaskShapes
<1> QED BY <1>1, TaskIs, FirstCpu

(* A file is written, or only seems to be: the call will answer for it.    *)
LEMMA WroteInv ==
  ASSUME TaskInv, NEW c \in Callers, tasks[c].pc = "writing",
         tasks' = [tasks EXCEPT ![c] = Attributes!Wrote(c)],
         value' \in [Cpus -> Values], UNCHANGED <<setting, online, refused, book>>
  PROVE  TaskInv'
<1> DEFINE t == tasks[c]
           left == t.left \ {Attributes!Least(t.left)}
           new == Attributes!Wrote(c)
<1>1. /\ t \in Attributes!Calls /\ t.want \in Values /\ t.files \subseteq Cpus
      /\ t.left \subseteq t.files /\ left \subseteq t.files /\ left # t.files /\ left \subseteq Cpus
      /\ t.files # {}
      /\ t = [pc |-> t.pc, want |-> t.want, files |-> t.files, left |-> t.left]
  BY WriterIs, TaskIs
<1>2. new = IF left = {} THEN [t EXCEPT !.pc = "checking", !.left = t.files]
            ELSE [t EXCEPT !.left = left]
  BY DEF Attributes!Wrote
<1> HIDE DEF t, left, new
<1>3. /\ new \in Attributes!Calls /\ new.want = t.want /\ new.files = t.files
      /\ \/ new.pc = "writing" /\ new.left = left /\ left # {}
         \/ new.pc = "checking" /\ new.left = t.files
  <2>1. CASE left = {}
    <3>1. new = [pc |-> "checking", want |-> t.want, files |-> t.files, left |-> t.files]
      BY <1>1, <1>2, <2>1
    <3> QED BY <1>1, <3>1 DEF Attributes!Calls
  <2>2. CASE left # {}
    <3>1. new = [pc |-> "writing", want |-> t.want, files |-> t.files, left |-> left]
      BY <1>1, <1>2, <2>2 DEF t
    <3> QED BY <1>1, <2>2, <3>1 DEF Attributes!Calls
  <2> QED BY <2>1, <2>2
<1>4. tasks' = [tasks EXCEPT ![c] = new] /\ tasks'[c] = new
  BY DEF new, TaskInv, TaskShapes
<1>5. Shaped(new) /\ Noted(new)
  BY <1>1, <1>3 DEF Shaped, Noted
<1>6. ASSUME book.blurred # TRUE PROVE Answers(c)'
  <2>1. Attributes!Files' = Attributes!Files /\ Attributes!Files \subseteq t.files
    BY <1>6 DEF t, TaskInv, FilesAreWritten, Attributes!Files
  <2>2. CASE new.pc = "writing" /\ new.left = left
    BY <1>1, <1>3, <1>4, <2>2 DEF Answers, Halfway
  <2>3. CASE new.pc = "checking" /\ new.left = t.files
    BY <1>4, <2>1, <2>3 DEF Answers
  <2> QED BY <1>3, <2>2, <2>3
<1>7. /\ book' \in Attributes!Books /\ (book'.blurred # TRUE => book.blurred # TRUE /\ Answers(c)')
      /\ (refused = TRUE => refused' = TRUE) /\ (book'.learned = TRUE => refused' = TRUE)
  BY <1>6 DEF TaskInv, TaskShapes, RefusalIsNoted
<1>8. tasks[c].pc = "writing" /\ new.files = tasks[c].files
  BY <1>3 DEF t
<1> QED BY <1>3, <1>4, <1>5, <1>7, <1>8, OneTask

LEMMA WriteInv == ASSUME TaskInv, NEW c \in Callers, Attributes!Write(c) PROVE TaskInv'
<1> DEFINE f == Attributes!Least(tasks[c].left)
<1>1. /\ tasks[c].pc = "writing" /\ UNCHANGED <<setting, online, refused>>
      /\ value \in [Cpus -> Values] /\ f \in Cpus /\ tasks[c].want \in Values
  BY WriterIs DEF Attributes!Write, TaskInv, TaskShapes
<1> HIDE DEF f
<1>2. Attributes!Set(f, tasks[c].want) => value' \in [Cpus -> Values]
  BY <1>1 DEF Attributes!Set
<1>3. CASE /\ Attributes!Goes(c, Attributes!Wrote(c)) /\ UNCHANGED book
           /\ Attributes!Set(f, tasks[c].want) \/ UNCHANGED value
  BY <1>1, <1>2, <1>3, WroteInv DEF Attributes!Goes
<1>4. CASE Attributes!Fails(c) /\ (Attributes!Set(f, tasks[c].want) \/ UNCHANGED value)
  BY <1>1, <1>2, <1>4, BlurredTask
<1>5. CASE Attributes!Refuses(c) /\ UNCHANGED value /\ tasks[c].left = tasks[c].files
  <2>1. Shaped(Attributes!Free) /\ Noted(Attributes!Free)
    BY FreeIs DEF Shaped, Noted
  <2>2. ~HasWritten(c)
    BY <1>1, <1>5 DEF HasWritten, Halfway, Ending
  <2> QED BY <1>1, <1>5, <2>1, <2>2, FreeIs, QuietTask DEF Attributes!Refuses, Attributes!Goes
<1> QED BY <1>3, <1>4, <1>5 DEF Attributes!Write, f

(* A call whose caller is told that its value is applied, when it is.      *)
LEMMA AppliedIsFair ==
  ASSUME TaskInv, NEW c \in Callers, Answers(c),
         \/ tasks[c].pc = "checking" /\ \A f \in Attributes!Files \cap tasks[c].left :
                                          value[f] = tasks[c].want
         \/ tasks[c].pc = "telling" /\ tasks[c].end = "done"
  PROVE  tasks[c].want \in Attributes!Agreed
<1>1. tasks[c].want \in Values /\ (tasks[c].pc = "telling" => setting = "curve")
  BY TaskIs DEF TaskInv, TaskShapes
<1>2. CASE tasks[c].pc = "checking"
  BY <1>1, <1>2 DEF Answers, Halfway, Ending, Attributes!Agreed
<1>3. CASE tasks[c].pc = "telling" /\ tasks[c].end = "done"
  BY <1>1, <1>3 DEF Answers, Halfway, Ending, Attributes!Agreed, Attributes!Files
<1> QED BY <1>2, <1>3

LEMMA CheckInv == ASSUME TaskInv, NEW c \in Callers, Attributes!Check(c) PROVE TaskInv'
<1> DEFINE t == tasks[c]
           f == Attributes!Least(t.left)
           left == t.left \ {f}
           kept == f \in Attributes!Files /\ value[f] = t.want
           fewer == [t EXCEPT !.left = left]
<1>1. /\ t.pc = "checking" /\ UNCHANGED <<setting, online, value, refused>>
      /\ \/ kept /\ left # {} /\ tasks' = [tasks EXCEPT ![c] = fewer] /\ UNCHANGED book
         \/ /\ kept /\ left = {} /\ tasks' = [tasks EXCEPT ![c] = Attributes!Free]
            /\ book' = [book EXCEPT !.fair = @ \cup {t.want}]
         \/ Attributes!Fails(c)
  BY DEF Attributes!Check, Attributes!Goes, Attributes!hardware
<1>2. /\ t \in Attributes!Calls /\ t.want \in Values /\ t.files \subseteq Cpus
      /\ t.left \subseteq t.files /\ left \subseteq Cpus
      /\ t = [pc |-> t.pc, want |-> t.want, files |-> t.files, left |-> t.left]
  BY <1>1, WriterIs, TaskIs
<1>3. /\ value' \in [Cpus -> Values] /\ HasWritten(c) /\ book \in Attributes!Books
      /\ (refused = TRUE => refused' = TRUE) /\ (book.learned = TRUE => refused' = TRUE)
      /\ tasks \in [Callers -> Attributes!Calls] /\ Attributes!Agreed' = Attributes!Agreed
  BY <1>1 DEF TaskInv, TaskShapes, RefusalIsNoted, HasWritten, Attributes!Agreed, Attributes!Files
<1>4. CASE kept /\ left # {} /\ tasks' = [tasks EXCEPT ![c] = fewer] /\ UNCHANGED book
  <2>1. fewer = [pc |-> "checking", want |-> t.want, files |-> t.files, left |-> left]
    BY <1>1, <1>2
  <2>2. fewer \in Attributes!Calls
    BY <1>2, <2>1 DEF Attributes!Calls
  <2>3. fewer.pc = "checking" /\ fewer.want = t.want /\ fewer.files = t.files /\ fewer.left = left
    BY <2>1
  <2> HIDE DEF fewer
  <2>4. Shaped(fewer) /\ Noted(fewer) /\ tasks'[c] = fewer
    BY <1>2, <1>3, <1>4, <2>3 DEF Shaped, Noted
  <2>5. Answers(c) => Answers(c)'
    BY <1>1, <1>4, <2>3, <2>4 DEF Answers, Halfway, Ending, Attributes!Files
  <2>6. Passes(c)
    BY <1>1, <1>3, <1>4, <2>5 DEF Passes
  <2>7. fewer.files = tasks[c].files /\ tasks[c].pc = "checking" /\ fewer.pc # "writing"
    BY <1>1, <2>3
  <2> QED BY <1>1, <1>3, <1>4, <2>2, <2>4, <2>6, <2>7, OneTask
<1>5. CASE /\ kept /\ left = {} /\ tasks' = [tasks EXCEPT ![c] = Attributes!Free]
           /\ book' = [book EXCEPT !.fair = @ \cup {t.want}]
  <2>1. /\ book' \in Attributes!Books /\ book'.fair = book.fair \cup {t.want}
        /\ book'.blurred = book.blurred /\ book'.learned = book.learned
    BY <1>2, <1>3, <1>5 DEF Attributes!Books
  <2>2. Answers(c) => t.want \in Attributes!Agreed
    BY <1>1, <1>5, AppliedIsFair
  <2>3. tasks'[c].pc = "free"
    BY <1>3, <1>5, FreeIs
  <2>4. ~HasWritten(c)'
    BY <2>3 DEF HasWritten, Halfway, Ending
  <2>5. Passes(c)
    BY <1>1, <1>3, <2>1, <2>2, <2>4 DEF Passes
  <2>6. Shaped(Attributes!Free) /\ Noted(Attributes!Free)
    BY FreeIs DEF Shaped, Noted
  <2> QED BY <1>1, <1>3, <1>5, <2>1, <2>5, <2>6, FreeIs, OneTask
<1>6. CASE Attributes!Fails(c)
  BY <1>1, <1>3, <1>6, BlurredTask
<1> QED BY <1>1, <1>4, <1>5, <1>6

-----------------------------------------------------------------------------
(* The Curve Optimizer.                                                    *)

LEMMA RunInv == ASSUME TaskInv, NEW c \in Callers, Attributes!Run(c) PROVE TaskInv'
<1> DEFINE want == tasks[c].want
<1>1. /\ tasks[c].pc = "running" /\ UNCHANGED <<setting, online, refused, book>>
      /\ value \in [Cpus -> Values] /\ want \in Values /\ setting = "curve"
      /\ tasks \in [Callers -> Attributes!Calls] /\ book \in Attributes!Books
      /\ (book.learned = TRUE => refused = TRUE)
  BY TaskIs DEF Attributes!Run, TaskInv, TaskShapes, RefusalIsNoted
<1> HIDE DEF want
<1>2. PICK end \in {"done", "refused", "failed"} :
        /\ tasks' = [tasks EXCEPT ![c] = [pc |-> "noting", want |-> want, end |-> end]]
        /\ \/ end # "refused" /\ value' = [value EXCEPT ![Attributes!Least(Cpus)] = want]
           \/ end # "done" /\ UNCHANGED value
  BY DEF Attributes!Run, Attributes!Goes, Attributes!Set, want
<1> DEFINE new == [pc |-> "noting", want |-> want, end |-> end]
<1>3. new \in Attributes!Calls /\ new.pc = "noting" /\ new.end = end /\ new.want = want
  BY <1>1 DEF Attributes!Calls
<1> HIDE DEF new
<1>4. tasks' = [tasks EXCEPT ![c] = new] /\ tasks'[c] = new
  BY <1>1, <1>2 DEF new
<1>5. Shaped(new) /\ Noted(new) /\ ~HasWritten(c)
  BY <1>1, <1>3 DEF Shaped, Noted, HasWritten, Halfway, Ending
<1>6. CASE end = "refused"
  <2>1. UNCHANGED value
    BY <1>2, <1>6
  <2> QED BY <1>1, <1>3, <1>4, <1>5, <1>6, <2>1, QuietTask
<1>7. CASE end # "refused"
  <2>1. Attributes!Least(Cpus) \in Cpus
    BY CpusAssumption, FirstCpu
  <2>2. value' \in [Cpus -> Values]
    BY <1>1, <1>2, <2>1
  <2>3. end = "done" => value'[Attributes!Least(Cpus)] = want
    BY <1>1, <1>2, <2>1
  <2>4. Answers(c)'
    BY <1>3, <1>4, <1>7, <2>3 DEF Answers, Ending
  <2> QED BY <1>1, <1>3, <1>4, <1>5, <2>2, <2>4, OneTask
<1> QED BY <1>6, <1>7

LEMMA NoteInv == ASSUME TaskInv, NEW c \in Callers, Attributes!NoteResult(c) PROVE TaskInv'
<1> DEFINE t == tasks[c]
           new == [t EXCEPT !.pc = "telling"]
<1>1. /\ t.pc = "noting" /\ UNCHANGED <<setting, online, value, book>>
      /\ refused' = (refused \/ t.end = "refused") /\ tasks' = [tasks EXCEPT ![c] = new]
      /\ t \in Attributes!Calls /\ setting = "curve"
  BY DEF Attributes!NoteResult, Attributes!Goes, Attributes!hardware, TaskInv, TaskShapes
<1>2. new = [pc |-> "telling", want |-> t.want, end |-> t.end] /\ t.want \in Values
      /\ t.end \in {"refused", "done", "failed"}
  BY <1>1, TaskIs
<1>3. new \in Attributes!Calls
  BY <1>2 DEF Attributes!Calls
<1>4. new.pc = "telling" /\ new.end = t.end /\ new.want = t.want
  BY <1>2
<1> HIDE DEF new
<1>5. refused = TRUE \/ t.end = "refused" => refused' = TRUE
  BY <1>1
<1>6. tasks'[c] = new /\ Shaped(new) /\ Noted(new)
  BY <1>1, <1>4, <1>5 DEF TaskInv, TaskShapes, Shaped, Noted
<1>7. (HasWritten(c)' => HasWritten(c)) /\ (Answers(c) => Answers(c)')
  BY <1>1, <1>4, <1>6 DEF HasWritten, Answers, Halfway, Ending
<1>8. Passes(c)
  BY <1>1, <1>7 DEF Passes
<1>9. /\ value' \in [Cpus -> Values] /\ book' \in Attributes!Books
      /\ (refused = TRUE => refused' = TRUE) /\ (book'.learned = TRUE => refused' = TRUE)
      /\ (book'.blurred # TRUE => book.blurred # TRUE)
  BY <1>1, <1>5 DEF TaskInv, TaskShapes, RefusalIsNoted
<1> QED BY <1>1, <1>3, <1>4, <1>6, <1>8, <1>9, OneTask

LEMMA TellInv == ASSUME TaskInv, NEW c \in Callers, Attributes!Tell(c) PROVE TaskInv'
<1> DEFINE t == tasks[c]
<1>1. /\ t.pc = "telling" /\ UNCHANGED <<setting, online, value, refused>>
      /\ tasks' = [tasks EXCEPT ![c] = Attributes!Free]
      /\ t \in Attributes!Calls /\ t.want \in Values /\ book \in Attributes!Books
      /\ tasks \in [Callers -> Attributes!Calls]
      /\ t.end \in {"refused", "done", "failed"}
  BY TaskIs DEF Attributes!Tell, Attributes!Goes, Attributes!hardware, TaskInv, TaskShapes
<1>2. book' = [fair |-> book.fair \cup {v \in {t.want} : t.end = "done"},
               blurred |-> book.blurred \/ t.end = "failed",
               learned |-> book.learned \/ t.end = "refused"]
  BY DEF Attributes!Tell
<1>3. /\ book' \in Attributes!Books /\ book.fair \subseteq book'.fair
      /\ t.end # "done" => book'.fair = book.fair
      /\ t.end = "done" => t.want \in book'.fair
      /\ book'.blurred # TRUE => book.blurred # TRUE /\ t.end # "failed"
      /\ book'.learned = TRUE => book.learned = TRUE \/ t.end = "refused"
  BY <1>1, <1>2 DEF Attributes!Books
<1>4. (refused = TRUE => refused' = TRUE) /\ (book'.learned = TRUE => refused' = TRUE)
  BY <1>1, <1>3 DEF TaskInv, RefusalIsNoted
<1>5. ~HasWritten(c)' /\ (t.end = "done" => HasWritten(c))
  <2>1. tasks'[c].pc = "free"
    BY <1>1, FreeIs
  <2> QED BY <1>1, <2>1 DEF HasWritten, Halfway, Ending
<1>6. Attributes!Agreed' = Attributes!Agreed /\ value' \in [Cpus -> Values]
  BY <1>1 DEF Attributes!Agreed, Attributes!Files, TaskInv, TaskShapes
<1>7. ASSUME book'.blurred # TRUE, Answers(c) PROVE (Attributes!Agreed \cap book.fair)' # {}
  <2>1. t.end = "done"
    BY <1>1, <1>3, <1>7 DEF Answers, Halfway, Ending
  <2>2. t.want \in Attributes!Agreed
    BY <1>1, <1>7, <2>1, AppliedIsFair
  <2> QED BY <1>3, <1>6, <2>1, <2>2
<1>8. book'.blurred # TRUE => book.blurred # TRUE /\ Passes(c)
  BY <1>1, <1>3, <1>5, <1>7 DEF Passes
<1>9. Shaped(Attributes!Free) /\ Noted(Attributes!Free)
  BY FreeIs DEF Shaped, Noted
<1> HIDE DEF t
<1> QED BY <1>1, <1>3, <1>4, <1>6, <1>8, <1>9, FreeIs, OneTask

(* A status is asked for, and given.                                       *)
LEMMA StatusInv ==
  ASSUME TaskInv, NEW c \in Callers, Attributes!CurveOptimizerStatus(c) \/ Attributes!Probed(c)
  PROVE  TaskInv'
<1> DEFINE probing == [pc |-> "probing", late |-> book.learned]
<1>1. /\ tasks[c] = Attributes!Free \/ tasks[c].pc = "probing"
      /\ UNCHANGED <<setting, online, value, refused, book>>
      /\ \/ refused # TRUE /\ tasks' = [tasks EXCEPT ![c] = probing]
         \/ UNCHANGED tasks
         \/ tasks' = [tasks EXCEPT ![c] = Attributes!Free]
  BY DEF Attributes!CurveOptimizerStatus, Attributes!Probed, Attributes!Goes, Attributes!hardware
<1>2. ~HasWritten(c)
  BY <1>1, FreeIs DEF HasWritten, Halfway, Ending
<1>3. tasks \in [Callers -> Attributes!Calls] /\ book.learned \in BOOLEAN
  BY DEF TaskInv, TaskShapes, Attributes!Books
<1>4. CASE refused # TRUE /\ tasks' = [tasks EXCEPT ![c] = probing]
  <2>1. probing \in Attributes!Calls /\ probing.pc = "probing" /\ probing.late = book.learned
    BY <1>3 DEF Attributes!Calls
  <2> HIDE DEF probing
  <2>2. Shaped(probing) /\ Noted(probing)
    BY <1>4, <2>1 DEF Shaped, Noted, TaskInv, RefusalIsNoted
  <2> QED BY <1>1, <1>2, <1>4, <2>1, <2>2, QuietTask
<1>5. CASE tasks' = [tasks EXCEPT ![c] = Attributes!Free]
  <2>1. Shaped(Attributes!Free) /\ Noted(Attributes!Free)
    BY FreeIs DEF Shaped, Noted
  <2> QED BY <1>1, <1>2, <1>5, <2>1, FreeIs, QuietTask
<1>6. CASE UNCHANGED tasks
  <2>1. [tasks EXCEPT ![c] = tasks[c]] = tasks
    BY <1>3
  <2>2. Shaped(tasks[c]) /\ Noted(tasks[c])
    BY <1>1 DEF TaskInv, TaskShapes, RefusalIsNoted, Shaped, Noted
  <2>3. tasks[c].pc \in {"free", "probing"}
    BY <1>1, FreeIs
  <2> QED BY <1>1, <1>2, <1>3, <1>6, <2>1, <2>2, <2>3, QuietTask
<1> QED BY <1>1, <1>4, <1>5, <1>6

-----------------------------------------------------------------------------
(* What happens outside hardwared, and its restart.                        *)

LEMMA CpuGoesInv == ASSUME TaskInv, NEW f \in Cpus, Attributes!CpuGoes(f) PROVE TaskInv'
<1>1. /\ setting = "epp" /\ online' = online \ {f}
      /\ UNCHANGED <<setting, value, refused, tasks, book>>
  BY DEF Attributes!CpuGoes
<1>2. Attributes!Files' \subseteq Attributes!Files /\ Attributes!Agreed \subseteq Attributes!Agreed'
  BY <1>1 DEF Attributes!Files, Attributes!Agreed
<1>3. \A c \in Callers : (HasWritten(c)' <=> HasWritten(c)) /\ (Answers(c) => Answers(c)')
  BY <1>1, <1>2 DEF HasWritten, Answers, Halfway, Ending
<1>4. TaskShapes' /\ RefusalIsNoted'
  BY <1>1 DEF TaskInv, TaskShapes, RefusalIsNoted
<1>5. FilesAreWritten'
  BY <1>1, <1>2 DEF TaskInv, FilesAreWritten
<1>6. ValueIsFair'
  BY <1>1, <1>2, <1>3 DEF TaskInv, ValueIsFair, Settled
<1> QED BY <1>4, <1>5, <1>6 DEF TaskInv

(* Something else sets the value.                                          *)
LEMMA ElsewhereInv ==
  ASSUME TaskInv, NEW f \in Cpus, NEW v \in Values,
         Attributes!CpuComes(f, v) \/ Attributes!SetElsewhere(f, v)
  PROVE  TaskInv'
<1>1. /\ online' \subseteq Cpus /\ value' = [value EXCEPT ![f] = v]
      /\ book' = [book EXCEPT !.blurred = TRUE] /\ UNCHANGED <<setting, refused, tasks>>
  BY DEF Attributes!CpuComes, Attributes!SetElsewhere, Attributes!Set, Attributes!Blurred,
         TaskInv, TaskShapes
<1>2. book' \in Attributes!Books /\ book'.blurred = TRUE /\ book'.learned = book.learned
  BY <1>1 DEF TaskInv, TaskShapes, Attributes!Books
<1>3. value' \in [Cpus -> Values]
  BY <1>1 DEF TaskInv, TaskShapes
<1>4. TaskShapes' /\ RefusalIsNoted'
  BY <1>1, <1>2, <1>3 DEF TaskInv, TaskShapes, RefusalIsNoted
<1> QED BY <1>2, <1>4 DEF TaskInv, FilesAreWritten, ValueIsFair

LEMMA RestartInv == ASSUME TaskInv, Attributes!Restart PROVE TaskInv'
<1>1. /\ tasks' = [c \in Callers |-> Attributes!Free] /\ UNCHANGED <<setting, online>>
      /\ book' = [book EXCEPT !.blurred = @ \/ Attributes!Underway # {}, !.learned = FALSE]
      /\ \/ UNCHANGED value
         \/ \E c \in Callers :
              /\ tasks[c].pc = "running" \/ (setting = "panel" /\ tasks[c].pc = "writing")
              /\ value' = [value EXCEPT ![Attributes!Least(Cpus)] = tasks[c].want]
  BY DEF Attributes!Restart, Attributes!Set
<1>2. /\ book' \in Attributes!Books /\ book'.learned # TRUE /\ book'.fair = book.fair
      /\ book'.blurred # TRUE => book.blurred # TRUE /\ Attributes!Underway = {}
  BY <1>1 DEF TaskInv, TaskShapes, Attributes!Books
<1>3. \A c \in Callers : tasks'[c] = Attributes!Free
  BY <1>1
<1>4. value' \in [Cpus -> Values] /\ (Attributes!Underway = {} => UNCHANGED value)
  <2>1. CASE UNCHANGED value
    BY <2>1 DEF TaskInv, TaskShapes
  <2>2. ASSUME NEW c \in Callers,
               tasks[c].pc = "running" \/ (setting = "panel" /\ tasks[c].pc = "writing"),
               value' = [value EXCEPT ![Attributes!Least(Cpus)] = tasks[c].want]
        PROVE  value' \in [Cpus -> Values] /\ Attributes!Underway # {}
    <3>1. tasks[c].want \in Values
      BY <2>2, TaskIs DEF TaskInv, TaskShapes
    <3> QED BY <2>2, <3>1 DEF TaskInv, TaskShapes, Attributes!Underway
  <2> QED BY <1>1, <2>1, <2>2
<1>5. TaskShapes'
  <2>1. tasks' \in [Callers -> Attributes!Calls]
    BY <1>1, FreeIs
  <2> QED BY <1>1, <1>2, <1>3, <1>4, <2>1, FreeIs DEF TaskInv, TaskShapes
<1>6. RefusalIsNoted' /\ FilesAreWritten'
  BY <1>2, <1>3, FreeIs DEF RefusalIsNoted, FilesAreWritten
<1>7. \A c \in Callers : ~HasWritten(c)'
  BY <1>3, FreeIs DEF HasWritten, Halfway, Ending
<1>8. ASSUME Attributes!Underway = {}, book.blurred # TRUE PROVE Settled'
  <2>1. Settled
    BY <1>8 DEF TaskInv, ValueIsFair, Answers, Halfway, Ending, Attributes!Underway
  <2>2. Attributes!Agreed' = Attributes!Agreed
    BY <1>1, <1>4, <1>8 DEF Attributes!Agreed, Attributes!Files
  <2> QED BY <1>2, <1>7, <2>1, <2>2 DEF Settled
<1>9. ValueIsFair'
  BY <1>2, <1>8 DEF ValueIsFair
<1> QED BY <1>5, <1>6, <1>9 DEF TaskInv

LEMMA TaskInitInv == Attributes!Init => TaskInv
<1> SUFFICES ASSUME Attributes!Init PROVE TaskInv
  OBVIOUS
<1>1. \A c \in Callers : tasks[c] = Attributes!Free
  BY DEF Attributes!Init
<1>2. Attributes!Agreed \subseteq Values
  BY DEF Attributes!Agreed
<1>3. TaskShapes
  BY <1>1, <1>2, FreeIs DEF Attributes!Init, TaskShapes, Attributes!Books
<1>4. RefusalIsNoted /\ FilesAreWritten
  BY <1>1, FreeIs DEF Attributes!Init, RefusalIsNoted, FilesAreWritten
<1>5. \A c \in Callers : ~HasWritten(c)
  BY <1>1, FreeIs DEF HasWritten, Halfway, Ending
<1>6. ValueIsFair
  BY <1>5 DEF Attributes!Init, ValueIsFair, Settled
<1> QED BY <1>3, <1>4, <1>6 DEF TaskInv

LEMMA TaskNextInv == TaskInv /\ Attributes!Next => TaskInv'
BY CallInv, AuthorizeInv, ValidateInv, WriteInv, CheckInv, RunInv, NoteInv, TellInv, StatusInv,
   CpuGoesInv, ElsewhereInv, RestartInv DEF Attributes!Next

LEMMA AlwaysTaskInv == PartSpec => []TaskInv
<1>1. PartInit => TaskInv
  BY TaskInitInv DEF PartInit
<1>2. TaskInv /\ [PartNext]_<<part, vars, queueState, attributeState>> => TaskInv'
  <2>1. ASSUME TaskInv, UNCHANGED attributeState PROVE TaskInv'
    <3>1. UNCHANGED <<setting, value, online, refused, tasks, book>>
      BY <2>1 DEF attributeState
    <3>2. Attributes!Files' = Attributes!Files /\ Attributes!Agreed' = Attributes!Agreed
      BY <3>1 DEF Attributes!Files, Attributes!Agreed
    <3> QED BY <2>1, <3>1, <3>2
        DEF TaskInv, TaskShapes, RefusalIsNoted, FilesAreWritten, ValueIsFair, Settled,
            HasWritten, Answers, Halfway, Ending
  <2> QED BY <2>1, TaskNextInv DEF PartNext
<1> QED BY <1>1, <1>2, PTL DEF PartSpec

(* Callers know what their calls led to: a mix of GPU requests, writes     *)
(* that crossed, a refusal of the firmware.                                *)
THEOREM CallersDoKnow == PartSpec => []CallersKnow
<1>1. QueueInv /\ TaskInv => CallersKnow
  BY QueuePromise, TaskPromise DEF CallersKnow
<1> QED BY <1>1, AlwaysQueueInv, AlwaysTaskInv, PTL

=============================================================================
