----------------------------- MODULE SettingsProofs -----------------------------
(***************************************************************************)
(* The parts of MCSettings besides the rules, for any constants: the files *)
(* of a store through errors, kills and power losses; what the fan editor, *)
(* the power-limit editor and the cards show, and what they are locked     *)
(* for. Each is proved of its own Init and Next, and then of PartSpec,     *)
(* whose steps take a part's step or leave its state alone.                *)
(***************************************************************************)
EXTENDS MCSettings, SourceRulesProofs, SequenceTheorems, WellFoundedInduction

-----------------------------------------------------------------------------
(* FileStore.                                                              *)

(* The temporary file holds what is saved once it is written, durably once *)
(* it is synced; after the rename so does the file.                        *)
TempHolds ==
  /\ save.at \in {"written", "synced"} => temp.text = save.doc
  /\ save.at = "synced" => temp.synced
  /\ save.at = "renamed" => dir.file = save.doc

(* A bad file is where a power loss leaves it, and no save goes over it.   *)
BadIsSafe ==
  dir.file = Store!Bad =>
    after = {dir} /\ save.at \notin {"aside", "created", "written", "synced"}

StoreInv == Store!StoreTypeOK /\ TempHolds /\ BadIsSafe /\ Store!SavesSurvive

LEMMA DocsAre ==
  /\ \A doc \in Docs : doc \notin {Store!Torn, Store!Bad, Store!Absent}
  /\ Docs \subseteq Store!Contents
  /\ {Store!Absent, Store!Torn, Store!Bad} \subseteq Store!Contents
  /\ Store!Torn # Store!Bad /\ Store!Absent # Store!Bad /\ Store!Absent # Store!Torn
BY DocsAssumption DEF Store!Contents, Store!Torn, Store!Bad, Store!Absent

LEMMA StoreInitInv == Store!Init => StoreInv
<1> SUFFICES ASSUME Store!Init PROVE StoreInv
  OBVIOUS
<1> USE DEF Store!Init
<1>1. Store!StoreTypeOK
  BY DocsAre, CountsAssumption DEF Store!StoreTypeOK, Store!Dirs, Store!NoTemp, Store!SaveSteps
<1>2. Store!SavesSurvive
  BY DocsAre DEF Store!SavesSurvive
<1> QED BY <1>1, <1>2 DEF StoreInv, TempHolds, BadIsSafe

LEMMA StoreNextInv == StoreInv /\ Store!Next => StoreInv'
<1> SUFFICES ASSUME StoreInv, Store!Next PROVE StoreInv'
  OBVIOUS
<1> USE DocsAre DEF StoreInv, TempHolds, BadIsSafe, Store!SavesSurvive
<1>1. Store!StoreTypeOK'
  <2> USE CountsAssumption
      DEF Store!StoreTypeOK, Store!Dirs, Store!NoTemp, Store!SaveSteps, Store!Step, Store!Becomes,
          Store!Valid
  <2>1. ASSUME NEW doc \in Docs, Store!Ask(doc) PROVE Store!StoreTypeOK'
    BY <2>1 DEF Store!Ask
  <2>2. CASE Store!Preserve
    BY <2>2 DEF Store!Preserve
  <2>3. CASE Store!Look
    BY <2>3 DEF Store!Look
  <2>4. CASE Store!Create
    BY <2>4 DEF Store!Create
  <2>5. CASE Store!Write
    BY <2>5 DEF Store!Write
  <2>6. CASE Store!Sync
    BY <2>6 DEF Store!Sync
  <2>7. CASE Store!Rename
    BY <2>7 DEF Store!Rename
  <2>8. CASE Store!Done
    BY <2>8 DEF Store!Done
  <2>9. CASE Store!Errs
    BY <2>9 DEF Store!Errs
  <2>10. ASSUME NEW text \in Docs \cup {Store!Absent, Store!Bad}, Store!HandEdit(text)
         PROVE  Store!StoreTypeOK'
    BY <2>10 DEF Store!HandEdit
  <2>11. CASE Store!Kill
    BY <2>11 DEF Store!Kill
  <2>12. CASE Store!PowerLoss
    BY <2>12 DEF Store!PowerLoss
  <2> QED BY <2>1, <2>2, <2>3, <2>4, <2>5, <2>6, <2>7, <2>8, <2>9, <2>10, <2>11, <2>12
           DEF Store!Next
<1> USE DEF Store!StoreTypeOK, Store!Dirs, Store!NoTemp, Store!SaveSteps, Store!Step,
            Store!Becomes, Store!Valid
<1>2. ASSUME NEW doc \in Docs, Store!Ask(doc) PROVE StoreInv'
  BY <1>1, <1>2 DEF Store!Ask
<1>3. CASE Store!Preserve
  BY <1>1, <1>3 DEF Store!Preserve
<1>4. CASE Store!Look
  BY <1>1, <1>4 DEF Store!Look
<1>5. CASE Store!Create
  BY <1>1, <1>5 DEF Store!Create
<1>6. CASE Store!Write
  BY <1>1, <1>6 DEF Store!Write
<1>7. CASE Store!Sync
  BY <1>1, <1>7 DEF Store!Sync
<1>8. CASE Store!Rename
  BY <1>1, <1>8 DEF Store!Rename
<1>9. CASE Store!Done
  BY <1>1, <1>9 DEF Store!Done
<1>10. CASE Store!Errs
  BY <1>1, <1>10 DEF Store!Errs
<1>11. ASSUME NEW text \in Docs \cup {Store!Absent, Store!Bad}, Store!HandEdit(text)
       PROVE  StoreInv'
  BY <1>1, <1>11 DEF Store!HandEdit
<1>12. CASE Store!Kill
  BY <1>1, <1>12 DEF Store!Kill
<1>13. CASE Store!PowerLoss
  BY <1>1, <1>13 DEF Store!PowerLoss
<1> QED BY <1>2, <1>3, <1>4, <1>5, <1>6, <1>7, <1>8, <1>9, <1>10, <1>11, <1>12, <1>13
         DEF Store!Next

LEMMA BadStays ==
  StoreInv /\ Store!Next => (dir.file = Store!Bad =>
    dir'.file = Store!Bad \/ dir'.aside = Store!Bad \/ count'.edits # count.edits)
<1> SUFFICES ASSUME StoreInv, Store!Next, dir.file = Store!Bad
             PROVE  dir'.file = Store!Bad \/ dir'.aside = Store!Bad \/ count'.edits # count.edits
  OBVIOUS
<1> USE DEF StoreInv, BadIsSafe, Store!StoreTypeOK, Store!Step, Store!Dirs
<1>1. CASE UNCHANGED dir
  BY <1>1
<1>2. CASE Store!Look
  BY <1>2 DEF Store!Look, Store!Becomes, Store!Valid
<1>3. CASE Store!Rename
  BY <1>3 DEF Store!Rename
<1>4. ASSUME NEW text, Store!HandEdit(text) PROVE count'.edits # count.edits
  BY <1>4, CountsAssumption DEF Store!HandEdit
<1>5. CASE Store!PowerLoss
  BY <1>5 DEF Store!PowerLoss
<1>6. CASE \/ \E doc \in Docs : Store!Ask(doc)
           \/ Store!Preserve \/ Store!Create \/ Store!Write \/ Store!Sync \/ Store!Done
           \/ Store!Errs \/ Store!Kill
  BY <1>1, <1>6 DEF Store!Ask, Store!Preserve, Store!Create, Store!Write, Store!Sync, Store!Done,
                    Store!Errs, Store!Kill
<1> QED BY <1>2, <1>3, <1>4, <1>5, <1>6 DEF Store!Next

-----------------------------------------------------------------------------
(* Sequences.                                                              *)

LEMMA Prepended ==
  ASSUME NEW S, NEW x \in S, NEW s \in Seq(S)
  PROVE  /\ <<x>> \o s \in Seq(S) /\ Len(s) \in Nat /\ Len(<<x>> \o s) = Len(s) + 1
         /\ (<<x>> \o s)[1] = x
         /\ \A i \in 1 .. Len(s) : (<<x>> \o s)[i + 1] = s[i]
<1>1. <<x>> \o s \in Seq(S) /\ Len(s) \in Nat /\ Len(<<x>> \o s) = Len(s) + 1
  OBVIOUS
<1>2. (<<x>> \o s)[1] = x
  OBVIOUS
<1>3. \A i \in 1 .. Len(s) : (<<x>> \o s)[i + 1] = s[i]
  OBVIOUS
<1> QED BY <1>1, <1>2, <1>3

LEMMA SameSeq ==
  ASSUME NEW S, NEW x, NEW s \in Seq(S), NEW t \in Seq(S), Len(s) = Len(t) + 1, s[1] = x,
         x \in S,
         \A i \in 1 .. Len(t) : s[i + 1] = t[i]
  PROVE  s = <<x>> \o t
<1> DEFINE u == <<x>> \o t
<1>1. /\ u \in Seq(S) /\ Len(t) \in Nat /\ Len(u) = Len(t) + 1 /\ u[1] = x
      /\ \A i \in 1 .. Len(t) : u[i + 1] = t[i]
  BY Prepended
<1> HIDE DEF u
<1>2. ASSUME NEW i \in 1 .. Len(s) PROVE s[i] = u[i]
  <2>1. CASE i = 1
    BY <1>1, <2>1
  <2>2. CASE i # 1
    <3>1. i - 1 \in 1 .. Len(t) /\ (i - 1) + 1 = i
      BY <1>1, <2>2
    <3>2. s[(i - 1) + 1] = u[(i - 1) + 1]
      BY <1>1, <3>1
    <3> QED BY <3>1, <3>2
  <2> QED BY <2>1, <2>2
<1>3. s = u
  BY <1>1, <1>2, SeqEqual
<1> QED BY <1>3 DEF u

LEMMA HeadFirst ==
  ASSUME NEW S, NEW s \in Seq(S), s # <<>>
  PROVE  s = <<Head(s)>> \o Tail(s)
<1>1. /\ Tail(s) \in Seq(S) /\ Head(s) \in S /\ Head(s) = s[1]
      /\ Len(s) = Len(Tail(s)) + 1
      /\ \A i \in 1 .. Len(Tail(s)) : Tail(s)[i] = s[i + 1]
  OBVIOUS
<1> DEFINE t == Tail(s)
           x == Head(s)
<1> HIDE DEF t, x
<1>2. /\ t \in Seq(S) /\ x \in S /\ s[1] = x /\ Len(s) = Len(t) + 1
      /\ \A i \in 1 .. Len(t) : s[i + 1] = t[i]
  BY <1>1 DEF t, x
<1>3. s = <<x>> \o t
  BY <1>2, SameSeq
<1> QED BY <1>3 DEF t, x
LEMMA ShortSeq ==
  ASSUME NEW S, NEW s \in Seq(S)
  PROVE  /\ Elements(s) = {} => s = <<>>
         /\ Len(s) = 1 => Tail(s) = <<>>
<1>1. ASSUME s # <<>> PROVE s[1] \in Elements(s)
  <2>1. 1 \in 1 .. Len(s)
    BY <1>1
  <2> QED BY <2>1 DEF Elements
<1>2. ASSUME Len(s) = 1 PROVE Tail(s) = <<>>
  <2>1. s # <<>>
    BY <1>2
  <2>2. Tail(s) \in Seq(S) /\ Len(Tail(s)) = 0
    BY <1>2, <2>1, HeadTailProperties
  <2> QED BY <2>2, EmptySeq
<1> QED BY <1>1, <1>2

LEMMA Grouped ==
  ASSUME NEW S, NEW s \in Seq(S), NEW t \in Seq(S), NEW u \in Seq(S)
  PROVE  s \o (t \o u) = (s \o t) \o u
BY ConcatAssociative

LEMMA AppendConcat ==
  ASSUME NEW S, NEW s \in Seq(S), NEW t \in Seq(S), NEW x \in S
  PROVE  s \o Append(t, x) = Append(s \o t, x) /\ s \o t \in Seq(S)
<1>1. s \o t \in Seq(S) /\ <<x>> \in Seq(S)
  BY ConcatProperties
<1>2. Append(t, x) = t \o <<x>>
  BY AppendIsConcat
<1>3. Append(s \o t, x) = (s \o t) \o <<x>>
  BY <1>1, AppendIsConcat
<1> DEFINE h == <<x>>
<1>4. h \in Seq(S)
  BY <1>1
<1> HIDE DEF h
<1>5. s \o (t \o h) = (s \o t) \o h
  BY <1>4, Grouped
<1> QED BY <1>1, <1>2, <1>3, <1>5 DEF h

(* The last element of s that is in G is in H.                             *)
LastIn(s, G, H) ==
  \A i \in 1 .. Len(s) :
    s[i] \in G /\ (\A j \in 1 .. Len(s) : j > i => s[j] \notin G) => s[i] \in H

LEMMA LastMore ==
  ASSUME NEW S, NEW s \in Seq(S), NEW x \in S, NEW G, NEW H,
         x \in G => x \in H, x \notin G => LastIn(s, G, H)
  PROVE  LastIn(Append(s, x), G, H)
<1> DEFINE a == Append(s, x)
<1>1. /\ Len(s) \in Nat /\ Len(a) = Len(s) + 1 /\ a[Len(s) + 1] = x
      /\ \A i \in 1 .. Len(s) : a[i] = s[i]
  BY AppendIs
<1> HIDE DEF a
<1> SUFFICES ASSUME NEW i \in 1 .. Len(a), a[i] \in G,
                    \A j \in 1 .. Len(a) : j > i => a[j] \notin G
             PROVE  a[i] \in H
  BY DEF LastIn, a
<1>2. CASE i = Len(s) + 1
  BY <1>1, <1>2
<1>3. CASE i # Len(s) + 1
  <2>1. i \in 1 .. Len(s) /\ a[i] = s[i] /\ Len(s) + 1 \in 1 .. Len(a) /\ Len(s) + 1 > i
    BY <1>1, <1>3
  <2>2. x \notin G
    BY <1>1, <2>1
  <2>3. \A j \in 1 .. Len(s) : j > i => s[j] \notin G
    BY <1>1
  <2> QED BY <2>1, <2>2, <2>3 DEF LastIn
<1> QED BY <1>2, <1>3

LEMMA LastLess ==
  ASSUME NEW S, NEW s \in Seq(S), s # <<>>, NEW G, NEW H, LastIn(s, G, H)
  PROVE  /\ LastIn(Tail(s), G, H)
         /\ s[1] \in G /\ Elements(Tail(s)) \cap G = {} => s[1] \in H
<1> DEFINE t == Tail(s)
<1>1. /\ t \in Seq(S) /\ Len(s) \in Nat /\ Len(t) = Len(s) - 1 /\ Len(s) >= 1
      /\ \A i \in 1 .. Len(t) : t[i] = s[i + 1] /\ i + 1 \in 1 .. Len(s)
  BY TailIs
<1> HIDE DEF t
<1>2. ASSUME NEW i \in 1 .. Len(t), t[i] \in G, \A j \in 1 .. Len(t) : j > i => t[j] \notin G
      PROVE  t[i] \in H
  <2>1. t[i] = s[i + 1] /\ i + 1 \in 1 .. Len(s)
    BY <1>1
  <2>2. ASSUME NEW j \in 1 .. Len(s), j > i + 1 PROVE s[j] \notin G
    <3>1. j - 1 \in 1 .. Len(t) /\ j - 1 > i /\ (j - 1) + 1 = j
      BY <1>1, <2>2
    <3>2. t[j - 1] = s[(j - 1) + 1] /\ t[j - 1] \notin G
      BY <1>1, <1>2, <3>1
    <3> QED BY <3>1, <3>2
  <2> QED BY <1>2, <2>1, <2>2 DEF LastIn
<1>3. ASSUME s[1] \in G, Elements(t) \cap G = {} PROVE s[1] \in H
  <2>1. ASSUME NEW j \in 1 .. Len(s), j > 1 PROVE s[j] \notin G
    <3>1. j - 1 \in 1 .. Len(t) /\ (j - 1) + 1 = j
      BY <1>1, <2>1
    <3>2. t[j - 1] = s[(j - 1) + 1] /\ t[j - 1] \in Elements(t)
      BY <1>1, <3>1 DEF Elements
    <3> QED BY <1>3, <3>1, <3>2
  <2>2. 1 \in 1 .. Len(s)
    BY <1>1
  <2> QED BY <1>3, <2>1, <2>2 DEF LastIn
<1> QED BY <1>2, <1>3 DEF LastIn, t

LEMMA Least ==
  ASSUME NEW T \in SUBSET Nat, T # {}
  PROVE  \E m \in T : \A n \in T : m <= n
<1> DEFINE R == OpToRel(<, Nat)
<1>1. IsWellFoundedOn(R, Nat)
  BY NatLessThanWellFounded
<1> HIDE DEF R
<1>2. \E x \in T : \A y \in T : ~(<<y, x>> \in R)
  BY <1>1, WFMin
<1>3. \A x, y \in Nat : y < x => <<y, x>> \in R
  BY DEF R, OpToRel
<1>4. \A x, y \in Nat : ~(y < x) => x <= y
  OBVIOUS
<1> QED BY <1>2, <1>3, <1>4

LEMMA ConcatTwo ==
  ASSUME NEW S, NEW s \in Seq(S), NEW x \in S, NEW y \in S
  PROVE  s \o <<x, y>> = Append(Append(s, x), y)
OBVIOUS

LEMMA FromIs ==
  ASSUME NEW S, NEW s \in Seq(S), NEW m \in Nat \ {0}
  PROVE  /\ SubSeq(s, m, Len(s)) \in Seq(S)
         /\ \A i \in 1 .. Len(s) : i >= m => s[i] \in Elements(SubSeq(s, m, Len(s)))
<1> DEFINE n == Len(s)
           t == SubSeq(s, m, n)
<1>1. n \in Nat /\ m \in Int /\ n \in Int /\ \A i \in m .. n : s[i] \in S
  OBVIOUS
<1>2. /\ t \in Seq(S) /\ Len(t) = IF m <= n THEN n - m + 1 ELSE 0
      /\ \A i \in 1 .. n - m + 1 : t[i] = s[m + i - 1]
  <2> HIDE DEF n
  <2> QED BY <1>1, SubSeqProperties DEF t
<1> HIDE DEF n, t
<1>3. ASSUME NEW i \in 1 .. n, i >= m PROVE s[i] \in Elements(t)
  <2>1. i - m + 1 \in 1 .. n - m + 1 /\ m + (i - m + 1) - 1 = i /\ m <= n
    BY <1>1, <1>3
  <2>2. t[i - m + 1] = s[m + (i - m + 1) - 1] /\ i - m + 1 \in 1 .. Len(t)
    BY <1>1, <1>2, <2>1
  <2>3. s[i] = t[i - m + 1]
    BY <2>1, <2>2
  <2> QED BY <2>2, <2>3 DEF Elements
<1> QED BY <1>2, <1>3 DEF n, t

-----------------------------------------------------------------------------
(* FanEditor.                                                              *)

(* What was sent and not shown yet, the oldest first: answers, the job,    *)
(* commands. A step of the worker changes nothing of it.                   *)
Sent(answers) == [i \in 1 .. Len(answers) |-> answers[i].cmd]
PipeOf(answers, at, cmds) == Sent(answers) \o (at \o cmds)
Working == IF job.stage = "idle" THEN <<>> ELSE <<job.cmd>>
Pipe == PipeOf(replies, Working, commands)

Owed(do) == \E c \in Elements(Pipe) : c.do = do

(* A job writes what it says it is at.                                     *)
JobIs ==
  /\ job.stage = "stored" => job.cmd.do = "set"
  /\ job.stage = "written" => job.cmd.do \in {"set", "reset"}

(* Behind the last refresh nothing is applied, or it crossed.              *)
Covered(pipe) ==
  \A p, q \in 1 .. Len(pipe) :
    pipe[p].do = "set" /\ pipe[q].do = "refresh" /\ q < p =>
      \E r \in 1 .. Len(pipe) : p < r /\ pipe[r].do = "refresh"
NoSetBehind == ~trail.crossed => Covered(Pipe)

(* When no read is to come, what is being applied is what the editor       *)
(* shows; a clean editor, or an answer that makes it clean, is stored.     *)
NothingToRead ==
  /\ ~trail.crossed /\ editor.state = "ready"
  /\ \A c \in Elements(Pipe) : c.do = "set"

AppliedIsShown ==
  NothingToRead =>
    /\ Len(Pipe) <= 1
    /\ \A c \in Elements(Pipe) :
         editor.pending /\ c.at = editor.at /\ c.curve = editor.curve
    /\ ~trail.foreign =>
         /\ ~editor.dirty => editor.curve = stored[editor.at].curve
         /\ \A r \in Elements(replies) :
              r.ok => editor.curve = stored[editor.at].curve

(* A read that was answered last shows what is stored.                     *)
LastReadIsStored ==
  /\ replies # <<>> /\ commands = <<>> /\ job.stage = "idle" /\ ~trail.foreign
  /\ replies[Len(replies)].cmd.do = "refresh" /\ replies[Len(replies)].ok
  => replies[Len(replies)].curve = stored[replies[Len(replies)].cmd.at].curve

(* The draft and the lock.                                                 *)
SlotOrRead == editor.state = "ready" => trail.of = editor.at \/ Owed("refresh")
PendingOrSent == editor.pending => Pipe # <<>>

FanInv ==
  /\ Fan!FanTypeOK /\ JobIs /\ SlotOrRead /\ PendingOrSent
  /\ NoSetBehind /\ AppliedIsShown /\ LastReadIsStored

(* What a step of the queue does to what was sent and not shown.           *)

LEMMA SentEach ==
  ASSUME NEW a \in Seq(Fan!Replies)
  PROVE  /\ Sent(a) \in Seq(Fan!Commands) /\ Len(Sent(a)) = Len(a) /\ Len(a) \in Nat
         /\ \A i \in 1 .. Len(a) : Sent(a)[i] = a[i].cmd
<1>1. \A i \in 1 .. Len(a) : a[i] \in Fan!Replies
  OBVIOUS
<1>2. \A i \in 1 .. Len(a) : a[i].cmd \in Fan!Commands
  BY <1>1 DEF Fan!Replies
<1>3. Len(a) \in Nat /\ \A i \in 1 .. Len(a) : Sent(a)[i] = a[i].cmd
  BY DEF Sent
<1>4. Sent(a) \in Seq(Fan!Commands)
  BY <1>2 DEF Sent
<1>5. Len(Sent(a)) = Len(a)
  BY DEF Sent
<1> QED BY <1>3, <1>4, <1>5

LEMMA SentMore ==
  ASSUME NEW a \in Seq(Fan!Replies), NEW r \in Fan!Replies
  PROVE  Sent(Append(a, r)) = Append(Sent(a), r.cmd)
BY DEF Sent

LEMMA SentLess ==
  ASSUME NEW a \in Seq(Fan!Replies), a # <<>>
  PROVE  Sent(a) = <<Head(a).cmd>> \o Sent(Tail(a))
<1>1. /\ Tail(a) \in Seq(Fan!Replies) /\ Head(a) \in Fan!Replies /\ Head(a) = a[1]
      /\ Len(a) \in Nat /\ Len(a) >= 1 /\ Len(Tail(a)) = Len(a) - 1
      /\ \A i \in 1 .. Len(a) - 1 : Tail(a)[i] = a[i + 1]
  OBVIOUS
<1>2. Head(a).cmd \in Fan!Commands
  BY <1>1 DEF Fan!Replies
<1>3. /\ Sent(a) \in Seq(Fan!Commands) /\ Len(Sent(a)) = Len(a)
      /\ \A i \in 1 .. Len(a) : Sent(a)[i] = a[i].cmd
  BY SentEach
<1>4. /\ Sent(Tail(a)) \in Seq(Fan!Commands) /\ Len(Sent(Tail(a))) = Len(a) - 1
  BY <1>1, SentEach
<1>5. \A i \in 1 .. Len(Tail(a)) : Sent(Tail(a))[i] = Tail(a)[i].cmd
  BY <1>1, SentEach
<1>6. Sent(a)[1] = Head(a).cmd
  BY <1>1, <1>3
<1>7. \A i \in 1 .. Len(Sent(Tail(a))) : Sent(a)[i + 1] = Sent(Tail(a))[i]
  BY <1>1, <1>3, <1>4, <1>5
<1> DEFINE s == Sent(a)
           t == Sent(Tail(a))
           x == Head(a).cmd
<1>8. s \in Seq(Fan!Commands) /\ t \in Seq(Fan!Commands) /\ s[1] = x /\ x \in Fan!Commands
  BY <1>2, <1>3, <1>4, <1>6
<1>11. Len(s) = Len(t) + 1
  <2>1. Len(a) \in Nat /\ Len(s) = Len(a) /\ Len(t) = Len(a) - 1
    BY <1>1, <1>3, <1>4
  <2> HIDE DEF s, t
  <2> QED BY <2>1
<1> HIDE DEF s, t, x
<1>9. \A i \in 1 .. Len(t) : s[i + 1] = t[i]
  BY <1>7 DEF s, t
<1>10. s = <<x>> \o t
  BY <1>8, <1>9, <1>11, SameSeq
<1> QED BY <1>10 DEF s, t, x

(* The worker takes a command, and answers it.                             *)
LEMMA PipeTaken ==
  ASSUME NEW a \in Seq(Fan!Replies), NEW c \in Seq(Fan!Commands), c # <<>>
  PROVE  PipeOf(a, <<>>, c) = PipeOf(a, <<Head(c)>>, Tail(c))
<1>1. <<>> \o c = c
  BY ConcatEmptySeq
<1>2. c = <<Head(c)>> \o Tail(c)
  BY HeadFirst
<1> QED BY <1>1, <1>2 DEF PipeOf

LEMMA PipeAnswered ==
  ASSUME NEW a \in Seq(Fan!Replies), NEW c \in Seq(Fan!Commands), NEW r \in Fan!Replies
  PROVE  PipeOf(Append(a, r), <<>>, c) = PipeOf(a, <<r.cmd>>, c)
<1>1. Sent(a) \in Seq(Fan!Commands)
  BY SentEach
<1>2. r.cmd \in Fan!Commands
  BY DEF Fan!Replies
<1>3. <<r.cmd>> \in Seq(Fan!Commands)
  BY <1>2
<1>4. Sent(Append(a, r)) = Sent(a) \o <<r.cmd>> /\ <<>> \o c = c
  BY <1>1, <1>2, SentMore, ConcatEmptySeq, AppendIsConcat
<1>5. Sent(a) \o (<<r.cmd>> \o c) = (Sent(a) \o <<r.cmd>>) \o c
  BY <1>1, <1>3, Grouped
<1> QED BY <1>4, <1>5 DEF PipeOf

(* The window sends a command, and shows an answer.                        *)
LEMMA PipeSent ==
  ASSUME NEW a \in Seq(Fan!Replies), NEW at \in Seq(Fan!Commands),
         NEW c \in Seq(Fan!Commands), NEW cmd \in Fan!Commands
  PROVE  PipeOf(a, at, Append(c, cmd)) = Append(PipeOf(a, at, c), cmd)
<1>1. Sent(a) \in Seq(Fan!Commands)
  BY SentEach
<1>2. at \o Append(c, cmd) = Append(at \o c, cmd) /\ at \o c \in Seq(Fan!Commands)
  BY AppendConcat
<1>3. Sent(a) \o Append(at \o c, cmd) = Append(Sent(a) \o (at \o c), cmd)
  BY <1>1, <1>2, AppendConcat
<1> QED BY <1>2, <1>3 DEF PipeOf

LEMMA PipeShown ==
  ASSUME NEW a \in Seq(Fan!Replies), a # <<>>, NEW at \in Seq(Fan!Commands),
         NEW c \in Seq(Fan!Commands)
  PROVE  PipeOf(a, at, c) = <<Head(a).cmd>> \o PipeOf(Tail(a), at, c)
<1>1. Tail(a) \in Seq(Fan!Replies) /\ Head(a) \in Fan!Replies
  OBVIOUS
<1>2. Head(a).cmd \in Fan!Commands
  BY <1>1 DEF Fan!Replies
<1>3. <<Head(a).cmd>> \in Seq(Fan!Commands)
  BY <1>2
<1>4. Sent(Tail(a)) \in Seq(Fan!Commands)
  BY <1>1, SentEach
<1>5. at \o c \in Seq(Fan!Commands)
  BY ConcatProperties
<1>6. Sent(a) = <<Head(a).cmd>> \o Sent(Tail(a))
  BY SentLess
<1>7. <<Head(a).cmd>> \o (Sent(Tail(a)) \o (at \o c))
        = (<<Head(a).cmd>> \o Sent(Tail(a))) \o (at \o c)
  BY <1>3, <1>4, <1>5, Grouped
<1> QED BY <1>6, <1>7 DEF PipeOf

LEMMA FanTypes ==
  ASSUME Fan!FanTypeOK
  PROVE  /\ replies \in Seq(Fan!Replies) /\ commands \in Seq(Fan!Commands)
         /\ job.cmd \in Fan!Commands /\ Working \in Seq(Fan!Commands)
         /\ Sent(replies) \in Seq(Fan!Commands)
         /\ Pipe \in Seq(Fan!Commands)
<1>1. /\ replies \in Seq(Fan!Replies) /\ commands \in Seq(Fan!Commands)
      /\ job.cmd \in Fan!Commands
  BY DEF Fan!FanTypeOK, Fan!Jobs
<1>2. <<job.cmd>> \in Seq(Fan!Commands) /\ <<>> \in Seq(Fan!Commands)
  BY <1>1
<1>3. Working \in Seq(Fan!Commands)
  BY <1>2 DEF Working
<1>4. Sent(replies) \in Seq(Fan!Commands)
  BY <1>1, SentEach
<1>5. Working \o commands \in Seq(Fan!Commands)
  BY <1>1, <1>3, ConcatIs
<1>6. Pipe \in Seq(Fan!Commands)
  BY <1>4, <1>5, ConcatIs DEF Pipe, PipeOf
<1> QED BY <1>1, <1>3, <1>4, <1>6

(* What was sent is a refresh, a set or a reset; an answer that was not    *)
(* shown is of one of them.                                                *)
LEMMA CommandKinds ==
  ASSUME NEW c \in Fan!Commands
  PROVE  c.do \in {"refresh", "set", "reset"} /\ c.at \in Fan!Slots /\ c.curve \in Curves
BY DEF Fan!Commands

LEMMA PipeElements ==
  ASSUME Fan!FanTypeOK
  PROVE  /\ Elements(Pipe) = Elements(Sent(replies)) \cup Elements(Working) \cup Elements(commands)
         /\ Elements(Sent(replies)) = {r.cmd : r \in Elements(replies)}
         /\ Elements(Working) = IF job.stage = "idle" THEN {} ELSE {job.cmd}
         /\ Elements(Pipe) \subseteq Fan!Commands
<1>1. Working \o commands \in Seq(Fan!Commands)
      /\ Elements(Working \o commands) = Elements(Working) \cup Elements(commands)
  BY FanTypes, ConcatIs
<1>2. Elements(Sent(replies) \o (Working \o commands))
        = Elements(Sent(replies)) \cup Elements(Working \o commands)
  <2> DEFINE s == Sent(replies)
             u == Working \o commands
  <2>1. s \in Seq(Fan!Commands) /\ u \in Seq(Fan!Commands)
    BY <1>1, FanTypes
  <2> HIDE DEF s, u
  <2>2. Elements(s \o u) = Elements(s) \cup Elements(u)
    BY <2>1, ConcatIs
  <2> QED BY <2>2 DEF s, u
<1>3. Elements(Sent(replies)) = {r.cmd : r \in Elements(replies)}
  <2> DEFINE s == Sent(replies)
  <2>1. replies \in Seq(Fan!Replies)
    BY FanTypes
  <2>2. Len(s) = Len(replies) /\ \A i \in 1 .. Len(replies) : s[i] = replies[i].cmd
    BY <2>1, SentEach
  <2> HIDE DEF s
  <2>3. Elements(s) = {r.cmd : r \in Elements(replies)}
    BY <2>2 DEF Elements
  <2> QED BY <2>3 DEF s
<1>4. Elements(Working) = IF job.stage = "idle" THEN {} ELSE {job.cmd}
  BY SingleIs, EmptyIs, FanTypes DEF Working
<1>5. Elements(Pipe) \subseteq Fan!Commands
  BY FanTypes DEF Elements
<1> QED BY <1>1, <1>2, <1>3, <1>4, <1>5 DEF Pipe, PipeOf

LEMMA OwedIs ==
  ASSUME Fan!FanTypeOK, NEW do
  PROVE  Fan!Outstanding(do) <=> Owed(do)
<1>1. Fan!Outstanding(do) <=> \/ \E c \in Elements(commands) : c.do = do
                              \/ \E c \in Elements(Working) : c.do = do
                              \/ \E r \in Elements(replies) : r.cmd.do = do
  <2>1. DOMAIN commands = 1 .. Len(commands) /\ DOMAIN replies = 1 .. Len(replies)
    BY FanTypes
  <2>2. (\E i \in DOMAIN commands : commands[i].do = do)
          <=> (\E c \in Elements(commands) : c.do = do)
    BY <2>1 DEF Elements
  <2>3. (\E i \in DOMAIN replies : replies[i].cmd.do = do)
          <=> (\E r \in Elements(replies) : r.cmd.do = do)
    BY <2>1 DEF Elements
  <2>4. (job.stage # "idle" /\ job.cmd.do = do) <=> (\E c \in Elements(Working) : c.do = do)
    BY PipeElements
  <2> QED BY <2>2, <2>3, <2>4 DEF Fan!Outstanding
<1>2. (\E r \in Elements(replies) : r.cmd.do = do)
        <=> (\E c \in Elements(Sent(replies)) : c.do = do)
  BY PipeElements
<1> QED BY <1>1, <1>2, PipeElements DEF Owed

(* What is behind the last refresh stays so when a command is appended or  *)
(* the first one is answered.                                              *)
LEMMA CoveredMore ==
  ASSUME NEW p \in Seq(Fan!Commands), NEW c \in Fan!Commands,
         \/ c.do = "refresh"
         \/ Covered(p) /\ (c.do # "set" \/ \A x \in Elements(p) : x.do # "refresh")
  PROVE  Covered(Append(p, c))
<1> DEFINE a == Append(p, c)
<1>1. /\ Len(p) \in Nat /\ Len(a) = Len(p) + 1 /\ a[Len(p) + 1] = c
      /\ \A i \in 1 .. Len(p) : a[i] = p[i]
  BY AppendIs
<1> HIDE DEF a
<1> SUFFICES ASSUME NEW i \in 1 .. Len(a), NEW j \in 1 .. Len(a),
                    a[i].do = "set", a[j].do = "refresh", j < i
             PROVE  \E r \in 1 .. Len(a) : i < r /\ a[r].do = "refresh"
  BY DEF Covered, a
<1>2. j \in 1 .. Len(p) /\ a[j] = p[j] /\ (i \in 1 .. Len(p) \/ i = Len(p) + 1)
  BY <1>1
<1>3. CASE i = Len(p) + 1
  <2>1. c.do = "set" /\ p[j] \in Elements(p) /\ p[j].do = "refresh"
    BY <1>1, <1>2, <1>3 DEF Elements
  <2> QED BY <2>1
<1>4. CASE i \in 1 .. Len(p)
  <2>1. a[i] = p[i]
    BY <1>1, <1>4
  <2>2. CASE c.do = "refresh"
    BY <1>1, <1>4, <2>2
  <2>3. CASE Covered(p)
    <3>1. PICK r \in 1 .. Len(p) : i < r /\ p[r].do = "refresh"
      BY <1>2, <1>4, <2>1, <2>3 DEF Covered
    <3>2. r \in 1 .. Len(a) /\ a[r].do = "refresh"
      BY <1>1, <3>1
    <3> QED BY <3>1, <3>2
  <2> QED BY <2>2, <2>3
<1> QED BY <1>2, <1>3, <1>4

LEMMA CoveredLess ==
  ASSUME NEW p \in Seq(Fan!Commands), NEW c \in Fan!Commands, Covered(<<c>> \o p)
  PROVE  /\ Covered(p)
         /\ c.do = "refresh" /\ p # <<>> => \E x \in Elements(p) : x.do # "set"
<1> DEFINE a == <<c>> \o p
<1>1. /\ a \in Seq(Fan!Commands) /\ Len(p) \in Nat /\ Len(a) = Len(p) + 1
      /\ a[1] = c
      /\ \A i \in 1 .. Len(p) : a[i + 1] = p[i]
  BY Prepended
<1>2. Covered(a)
  OBVIOUS
<1> HIDE DEF a
<1>3. ASSUME NEW i \in 1 .. Len(p), NEW j \in 1 .. Len(p),
             p[i].do = "set", p[j].do = "refresh", j < i
      PROVE  \E r \in 1 .. Len(p) : i < r /\ p[r].do = "refresh"
  <2>1. i + 1 \in 1 .. Len(a) /\ j + 1 \in 1 .. Len(a) /\ j + 1 < i + 1
    BY <1>1, <1>3
  <2>2. a[i + 1].do = "set" /\ a[j + 1].do = "refresh"
    BY <1>1, <1>3
  <2>3. PICK r \in 1 .. Len(a) : i + 1 < r /\ a[r].do = "refresh"
    BY <1>2, <2>1, <2>2 DEF Covered
  <2>4. r - 1 \in 1 .. Len(p) /\ (r - 1) + 1 = r /\ i < r - 1
    BY <1>1, <2>3
  <2>5. a[(r - 1) + 1] = p[r - 1]
    BY <1>1, <2>4
  <2> QED BY <2>3, <2>4, <2>5
<1>4. ASSUME c.do = "refresh", p # <<>>, \A x \in Elements(p) : x.do = "set" PROVE FALSE
  <2>1. \A i \in 1 .. Len(p) : p[i].do = "set"
    BY <1>4 DEF Elements
  <2>2. Len(p) >= 1 /\ 1 \in 1 .. Len(p) /\ 1 + 1 \in 1 .. Len(a) /\ 1 \in 1 .. Len(a)
    BY <1>1, <1>4
  <2>3. a[1 + 1].do = "set" /\ a[1].do = "refresh"
    BY <1>1, <1>4, <2>1, <2>2
  <2>4. PICK r \in 1 .. Len(a) : 1 + 1 < r /\ a[r].do = "refresh"
    BY <1>2, <2>2, <2>3 DEF Covered
  <2>5. r - 1 \in 1 .. Len(p) /\ (r - 1) + 1 = r
    BY <1>1, <2>4
  <2>6. a[(r - 1) + 1] = p[r - 1]
    BY <1>1, <2>5
  <2> QED BY <2>1, <2>4, <2>5, <2>6
<1> QED BY <1>3, <1>4 DEF Covered

LEMMA FanInitTypes == Fan!Init => Fan!FanTypeOK
<1> SUFFICES ASSUME Fan!Init PROVE Fan!FanTypeOK
  OBVIOUS
<1>1. Fan!Refresh(First) \in Fan!Commands
  BY SlotAssumption, CurveAssumption DEF Fan!Refresh, Fan!Commands
<1> QED BY <1>1, SlotAssumption, CurveAssumption, CountsAssumption
        DEF Fan!Init, Fan!FanTypeOK, Fan!Editors, Fan!Jobs, Fan!Stages, Fan!Trails

LEMMA FanAnsweredTypes ==
  ASSUME Fan!FanTypeOK, NEW ok \in BOOLEAN, NEW curve \in Curves, Fan!Answered(ok, curve)
  PROVE  /\ [cmd |-> job.cmd, ok |-> ok, curve |-> curve] \in Fan!Replies
         /\ replies' = Append(replies, [cmd |-> job.cmd, ok |-> ok, curve |-> curve])
         /\ replies' \in Seq(Fan!Replies) /\ job' \in Fan!Jobs
         /\ job'.stage = "idle" /\ job'.cmd = job.cmd
<1>1. [cmd |-> job.cmd, ok |-> ok, curve |-> curve] \in Fan!Replies
  BY FanTypes DEF Fan!Replies
<1>2. replies' = Append(replies, [cmd |-> job.cmd, ok |-> ok, curve |-> curve])
  BY DEF Fan!Answered
<1>3. replies' \in Seq(Fan!Replies)
  BY <1>1, <1>2, FanTypes, AppendProperties
<1>4. job' \in Fan!Jobs /\ job'.stage = "idle" /\ job'.cmd = job.cmd
  BY DEF Fan!Answered, Fan!FanTypeOK, Fan!Jobs, Fan!Stages
<1> QED BY <1>1, <1>2, <1>3, <1>4

TallyTypes == [gestures : 0 .. MaxGestures, foreign : 0 .. MaxForeign, failures : 0 .. MaxFailures]

LEMMA FanTally ==
  ASSUME tally \in TallyTypes
  PROVE  /\ Fan!Gesture => tally' \in TallyTypes
         /\ tally.failures < MaxFailures /\ tally' = [tally EXCEPT !.failures = @ + 1]
              => tally' \in TallyTypes
         /\ tally.foreign < MaxForeign /\ tally' = [tally EXCEPT !.foreign = @ + 1]
              => tally' \in TallyTypes
<1>1. MaxGestures \in Nat /\ MaxForeign \in Nat /\ MaxFailures \in Nat
  BY CountsAssumption
<1>2. ASSUME Fan!Gesture PROVE tally' \in TallyTypes
  BY <1>1, <1>2 DEF Fan!Gesture, TallyTypes
<1>3. ASSUME tally.failures < MaxFailures, tally' = [tally EXCEPT !.failures = @ + 1]
      PROVE  tally' \in TallyTypes
  BY <1>1, <1>3 DEF TallyTypes
<1>4. ASSUME tally.foreign < MaxForeign, tally' = [tally EXCEPT !.foreign = @ + 1]
      PROVE  tally' \in TallyTypes
  BY <1>1, <1>4 DEF TallyTypes
<1> QED BY <1>2, <1>3, <1>4

LEMMA FanNextTypes == Fan!FanTypeOK /\ Fan!Next => Fan!FanTypeOK'
<1> SUFFICES ASSUME Fan!FanTypeOK, Fan!Next PROVE Fan!FanTypeOK'
  OBVIOUS
<1> USE SlotAssumption, CurveAssumption, CountsAssumption DEF Fan!FanTypeOK
<1>0. tally \in TallyTypes
  BY DEF TallyTypes
<1>1. ASSUME NEW slot \in Fan!Slots, Fan!Select(slot) PROVE Fan!FanTypeOK'
  <2>1. Fan!Refresh(slot) \in Fan!Commands
    BY DEF Fan!Refresh, Fan!Commands
  <2>2. commands' \in Seq(Fan!Commands)
    BY <1>1, <2>1, AppendProperties DEF Fan!Select
  <2>3. editor' \in Fan!Editors /\ trail' \in Fan!Trails
    BY <1>1 DEF Fan!Select, Fan!Editors, Fan!Trails
  <2>4. tally' \in TallyTypes
    BY <1>0, <1>1, FanTally DEF Fan!Select
  <2> QED BY <1>1, <2>2, <2>3, <2>4 DEF Fan!Select, TallyTypes
<1>2. ASSUME NEW curve \in Curves, Fan!Edit(curve) PROVE Fan!FanTypeOK'
  <2>1. tally' \in TallyTypes
    BY <1>0, <1>2, FanTally DEF Fan!Edit
  <2> QED BY <1>2, <2>1 DEF Fan!Edit, Fan!Editors, TallyTypes
<1>3. CASE Fan!Apply
  <2> DEFINE cmd == [do |-> "set", at |-> editor.at, curve |-> editor.curve]
  <2>1. cmd \in Fan!Commands
    BY DEF Fan!Editors, Fan!Commands
  <2>2. commands' \in Seq(Fan!Commands)
    BY <1>3, <2>1, AppendProperties DEF Fan!Apply
  <2>3. Fan!Outstanding("refresh") \in BOOLEAN
    BY DEF Fan!Outstanding
  <2>4. editor' \in Fan!Editors /\ trail' \in Fan!Trails
    BY <1>3, <2>3 DEF Fan!Apply, Fan!Editors, Fan!Trails
  <2>5. tally' \in TallyTypes
    BY <1>0, <1>3, FanTally DEF Fan!Apply
  <2> QED BY <1>3, <2>2, <2>4, <2>5 DEF Fan!Apply, TallyTypes
<1>4. CASE Fan!Reset
  <2> DEFINE cmd == [do |-> "reset", at |-> editor.at, curve |-> Factory]
  <2>1. cmd \in Fan!Commands
    BY DEF Fan!Editors, Fan!Commands
  <2>2. commands' \in Seq(Fan!Commands)
    BY <1>4, <2>1, AppendProperties DEF Fan!Reset
  <2>3. editor' \in Fan!Editors
    BY <1>4 DEF Fan!Reset, Fan!Editors
  <2>5. tally' \in TallyTypes
    BY <1>0, <1>4, FanTally DEF Fan!Reset
  <2> QED BY <1>4, <2>2, <2>3, <2>5 DEF Fan!Reset, TallyTypes
<1>5. CASE Fan!Show
  <2> DEFINE reply == Head(replies)
             refresh == Fan!Refresh(<<reply.cmd.at[1], editor.at[2]>>)
  <2>1. replies' \in Seq(Fan!Replies) /\ reply \in Fan!Replies
    <3>1. replies \in Seq(Fan!Replies) /\ replies # <<>> /\ replies' = Tail(replies)
      BY <1>5 DEF Fan!Show
    <3> QED BY <3>1, HeadTailProperties
  <2>2. reply.cmd \in Fan!Commands /\ reply.curve \in Curves /\ reply.ok \in BOOLEAN
    BY <2>1 DEF Fan!Replies
  <2>3. reply.cmd.at \in Fan!Slots /\ editor.at \in Fan!Slots
    BY <2>2 DEF Fan!Commands, Fan!Editors
  <2>4. <<reply.cmd.at[1], editor.at[2]>> \in Fan!Slots
    BY <2>3 DEF Fan!Slots
  <2>5. refresh \in Fan!Commands
    BY <2>4 DEF Fan!Refresh, Fan!Commands
  <2> HIDE DEF reply, refresh
  <2>6. CASE Fan!ShowRefreshed(reply)
    BY <1>5, <2>1, <2>2, <2>3, <2>6
       DEF Fan!Show, Fan!ShowRefreshed, Fan!Load, Fan!Editors, Fan!Trails
  <2>7. CASE Fan!ShowSet(reply)
    BY <1>5, <2>1, <2>2, <2>7 DEF Fan!Show, Fan!ShowSet, Fan!Editors
  <2>8. CASE Fan!ShowReset(reply)
    <3>1. commands' \in Seq(Fan!Commands)
      BY <2>5, <2>8, AppendProperties DEF Fan!ShowReset, refresh
    <3>2. editor' \in Fan!Editors
      BY <2>2, <2>8 DEF Fan!ShowReset, Fan!Editors
    <3> QED BY <1>5, <2>1, <2>8, <3>1, <3>2 DEF Fan!Show, Fan!ShowReset
  <2> QED BY <1>5, <2>6, <2>7, <2>8 DEF Fan!Show, reply
<1>6. CASE Fan!Take
  <2>1. Head(commands) \in Fan!Commands /\ commands' \in Seq(Fan!Commands)
    <3>1. commands \in Seq(Fan!Commands) /\ commands # <<>> /\ commands' = Tail(commands)
      BY <1>6 DEF Fan!Take
    <3> QED BY <3>1, HeadTailProperties
  <2>2. job' \in Fan!Jobs
    BY <1>6, <2>1 DEF Fan!Take, Fan!Jobs, Fan!Stages
  <2> QED BY <1>6, <2>1, <2>2 DEF Fan!Take
<1>7. CASE Fan!Read
  <2>1. job.cmd.at \in Fan!Slots
    BY FanTypes, CommandKinds
  <2>2. stored[job.cmd.at].curve \in Curves
    BY <2>1
  <2>3. replies' \in Seq(Fan!Replies) /\ job' \in Fan!Jobs
    BY <1>7, <2>2, FanAnsweredTypes DEF Fan!Read
  <2>4. trail' \in Fan!Trails
    BY <1>7 DEF Fan!Read, Fan!Trails
  <2> QED BY <1>7, <2>3, <2>4 DEF Fan!Read
<1>8. CASE Fan!ReadEnabled
  <2>1. job.cmd.at \in Fan!Slots
    BY FanTypes, CommandKinds
  <2>2. job' \in Fan!Jobs
    BY <1>8, <2>1 DEF Fan!ReadEnabled, Fan!Jobs, Fan!Stages
  <2> QED BY <1>8, <2>2 DEF Fan!ReadEnabled
<1>9. CASE Fan!WriteCurve
  <2>1. job.cmd.at \in Fan!Slots /\ job.cmd.curve \in Curves /\ job.enabled \in BOOLEAN
    BY FanTypes, CommandKinds DEF Fan!Jobs
  <2>2. stored' \in [Fan!Slots -> [curve : Curves, enabled : BOOLEAN]]
    BY <1>9, <2>1 DEF Fan!WriteCurve
  <2>3. job' \in Fan!Jobs
    BY <1>9 DEF Fan!WriteCurve, Fan!Jobs, Fan!Stages
  <2> QED BY <1>9, <2>2, <2>3 DEF Fan!WriteCurve
<1>10. CASE Fan!ConfirmCurve
  <2> DEFINE ok == stored[job.cmd.at] = [curve |-> job.cmd.curve, enabled |-> job.enabled]
  <2>1. job.cmd.curve \in Curves /\ ok \in BOOLEAN
    BY FanTypes, CommandKinds
  <2>2. Fan!Answered(ok, job.cmd.curve)
    BY <1>10 DEF Fan!ConfirmCurve
  <2> HIDE DEF ok
  <2>3. replies' \in Seq(Fan!Replies) /\ job' \in Fan!Jobs
    BY <2>1, <2>2, FanAnsweredTypes
  <2> QED BY <1>10, <2>3 DEF Fan!ConfirmCurve
<1>11. CASE Fan!WriteFactory
  <2>1. stored' \in [Fan!Slots -> [curve : Curves, enabled : BOOLEAN]]
    BY <1>11 DEF Fan!WriteFactory
  <2>2. job' \in Fan!Jobs
    BY <1>11 DEF Fan!WriteFactory, Fan!Jobs, Fan!Stages
  <2> QED BY <1>11, <2>1, <2>2 DEF Fan!WriteFactory
<1>12. CASE Fan!ConfirmFactory
  <2> DEFINE ok == \A fan \in Fans : Fan!ResetValidates(stored[<<job.cmd.at[1], fan>>].curve)
  <2>1. ok \in BOOLEAN
    OBVIOUS
  <2>2. Fan!Answered(ok, Factory)
    BY <1>12 DEF Fan!ConfirmFactory
  <2> HIDE DEF ok
  <2>3. replies' \in Seq(Fan!Replies) /\ job' \in Fan!Jobs
    BY <2>1, <2>2, FanAnsweredTypes
  <2> QED BY <1>12, <2>3 DEF Fan!ConfirmFactory
<1>13. CASE Fan!Fail
  <2>1. replies' \in Seq(Fan!Replies) /\ job' \in Fan!Jobs
    BY <1>13, FanAnsweredTypes DEF Fan!Fail
  <2>2. tally' \in TallyTypes
    BY <1>0, <1>13, FanTally DEF Fan!Fail
  <2> QED BY <1>13, <2>1, <2>2 DEF Fan!Fail, TallyTypes
<1>14. ASSUME NEW slot \in Fan!Slots, NEW curve \in Curves, NEW enabled \in BOOLEAN,
              Fan!Foreign(slot, curve, enabled)
       PROVE  Fan!FanTypeOK'
  <2>1. stored' \in [Fan!Slots -> [curve : Curves, enabled : BOOLEAN]]
    BY <1>14 DEF Fan!Foreign
  <2>2. tally' \in TallyTypes
    BY <1>0, <1>14, FanTally DEF Fan!Foreign
  <2> QED BY <1>14, <2>1, <2>2 DEF Fan!Foreign, Fan!Trails, TallyTypes
<1> QED BY <1>1, <1>2, <1>3, <1>4, <1>5, <1>6, <1>7, <1>8, <1>9, <1>10, <1>11, <1>12, <1>13,
           <1>14
        DEF Fan!Next, Fan!Gestures

-----------------------------------------------------------------------------
(* What each step does to the pipe.                                        *)

Worker ==
  \/ Fan!Take \/ Fan!Read \/ Fan!ReadEnabled \/ Fan!WriteCurve \/ Fan!ConfirmCurve
  \/ Fan!WriteFactory \/ Fan!ConfirmFactory \/ Fan!Fail

LEMMA PipeRests ==
  ASSUME UNCHANGED <<commands, job, replies>>
  PROVE  Pipe' = Pipe
<1>1. Working' = Working
  BY DEF Working
<1> QED BY <1>1 DEF Pipe

LEMMA FanSends ==
  ASSUME Fan!FanTypeOK, NEW c \in Fan!Commands,
         commands' = Append(commands, c), UNCHANGED <<job, replies>>
  PROVE  /\ Pipe' = Append(Pipe, c)
         /\ Elements(Pipe') = Elements(Pipe) \cup {c}
         /\ Pipe' # <<>> /\ Len(Pipe') = Len(Pipe) + 1
         /\ commands' # <<>>
<1>3. commands' # <<>>
  BY FanTypes, AppendProperties
<1>1. PipeOf(replies, Working, Append(commands, c)) = Append(Pipe, c)
  BY FanTypes, PipeSent DEF Pipe
<1>2. Pipe' = Append(Pipe, c)
  BY <1>1 DEF Pipe, Working
<1>4. Pipe \in Seq(Fan!Commands)
  BY FanTypes
<1>5. /\ Elements(Append(Pipe, c)) = Elements(Pipe) \cup {c}
      /\ Append(Pipe, c) # <<>> /\ Len(Append(Pipe, c)) = Len(Pipe) + 1
  BY <1>4, AppendIs, AppendProperties
<1> QED BY <1>2, <1>3, <1>5

LEMMA FanAnswers ==
  ASSUME Fan!FanTypeOK, NEW ok \in BOOLEAN, NEW curve \in Curves, Fan!Answered(ok, curve),
         job.stage # "idle", UNCHANGED commands
  PROVE  /\ Pipe' = Pipe
         /\ Elements(replies') = Elements(replies)
                                   \cup {[cmd |-> job.cmd, ok |-> ok, curve |-> curve]}
         /\ replies' # <<>>
         /\ replies'[Len(replies')] = [cmd |-> job.cmd, ok |-> ok, curve |-> curve]
         /\ job.cmd \in Elements(Pipe)
<1> DEFINE r == [cmd |-> job.cmd, ok |-> ok, curve |-> curve]
<1>1. r \in Fan!Replies /\ replies' = Append(replies, r) /\ job'.stage = "idle" /\ r.cmd = job.cmd
  BY FanAnsweredTypes
<1> HIDE DEF r
<1>2. PipeOf(Append(replies, r), <<>>, commands) = PipeOf(replies, <<r.cmd>>, commands)
  BY <1>1, FanTypes, PipeAnswered
<1>3. Working' = <<>> /\ Working = <<r.cmd>>
  BY <1>1 DEF Working
<1>4. Pipe' = Pipe
  BY <1>1, <1>2, <1>3 DEF Pipe
<1>5. job.cmd \in Elements(Pipe)
  BY PipeElements
<1>6. /\ Elements(Append(replies, r)) = Elements(replies) \cup {r}
      /\ Append(replies, r)[Len(Append(replies, r))] = r /\ Append(replies, r) # <<>>
  <2>1. replies \in Seq(Fan!Replies)
    BY FanTypes
  <2>2. Elements(Append(replies, r)) = Elements(replies) \cup {r}
    BY <1>1, <2>1, AppendIs
  <2>3. Append(replies, r)[Len(Append(replies, r))] = r /\ Append(replies, r) # <<>>
    BY <1>1, <2>1
  <2> QED BY <2>2, <2>3
<1> QED BY <1>1, <1>4, <1>5, <1>6 DEF r

(* Every step of the worker but Take that ends a job is an answer.         *)
LEMMA WorkerAnswers ==
  ASSUME Fan!FanTypeOK,
         Fan!Read \/ Fan!ConfirmCurve \/ Fan!ConfirmFactory \/ Fan!Fail
  PROVE  \E ok \in BOOLEAN, curve \in Curves :
           /\ Fan!Answered(ok, curve)
           /\ job.stage # "idle" /\ UNCHANGED <<commands, stored, editor>>
           /\ Fan!Read => /\ job.cmd.do = "refresh" /\ curve = stored[job.cmd.at].curve
                          /\ trail' = [trail EXCEPT !.foreign = FALSE]
           /\ ~Fan!Read => UNCHANGED trail /\ (job.cmd.do # "refresh" \/ ~ok)
           /\ job.cmd.do = "set" /\ ok => job.cmd.curve = stored[job.cmd.at].curve
<1>1. /\ job.cmd.at \in Fan!Slots /\ job.cmd.curve \in Curves /\ Factory \in Curves
      /\ \A slot \in Fan!Slots : stored[slot].curve \in Curves
  BY FanTypes, CommandKinds, CurveAssumption DEF Fan!FanTypeOK
<1>2. CASE Fan!Read
  BY <1>1, <1>2 DEF Fan!Read
<1>3. CASE Fan!ConfirmCurve
  <2> DEFINE ok == stored[job.cmd.at] = [curve |-> job.cmd.curve, enabled |-> job.enabled]
  <2>1. ok \in BOOLEAN /\ (ok => job.cmd.curve = stored[job.cmd.at].curve) /\ ~Fan!Read
    BY <1>3 DEF Fan!Read, Fan!ConfirmCurve
  <2>2. /\ Fan!Answered(ok, job.cmd.curve) /\ job.cmd.do = "set" /\ job.stage # "idle"
        /\ UNCHANGED <<commands, stored, editor, trail>>
    BY <1>3 DEF Fan!ConfirmCurve
  <2> HIDE DEF ok
  <2> QED BY <1>1, <2>1, <2>2
<1>4. CASE Fan!ConfirmFactory
  <2> DEFINE ok == \A fan \in Fans : Fan!ResetValidates(stored[<<job.cmd.at[1], fan>>].curve)
  <2>1. ok \in BOOLEAN /\ ~Fan!Read
    BY <1>4 DEF Fan!Read, Fan!ConfirmFactory
  <2>2. /\ Fan!Answered(ok, Factory) /\ job.cmd.do = "reset" /\ job.stage # "idle"
        /\ UNCHANGED <<commands, stored, editor, trail>>
    BY <1>4 DEF Fan!ConfirmFactory
  <2> HIDE DEF ok
  <2> QED BY <1>1, <2>1, <2>2
<1>5. CASE Fan!Fail /\ ~Fan!Read
  BY <1>1, <1>5 DEF Fan!Fail
<1> QED BY <1>2, <1>3, <1>4, <1>5

LEMMA WorkerKeeps ==
  ASSUME Fan!FanTypeOK, Worker
  PROVE  /\ Pipe' = Pipe /\ editor' = editor
         /\ trail'.of = trail.of /\ trail'.crossed = trail.crossed
<1>1. /\ editor' = editor /\ trail'.of = trail.of /\ trail'.crossed = trail.crossed
  BY DEF Worker, Fan!Take, Fan!Read, Fan!ReadEnabled, Fan!WriteCurve, Fan!ConfirmCurve,
         Fan!WriteFactory, Fan!ConfirmFactory, Fan!Fail, Fan!FanTypeOK, Fan!Trails
<1>2. CASE Fan!Take
  <2>1. PipeOf(replies, <<>>, commands) = PipeOf(replies, <<Head(commands)>>, Tail(commands))
    BY <1>2, FanTypes, PipeTaken DEF Fan!Take
  <2>2. Working = <<>> /\ Working' = <<Head(commands)>>
    BY <1>2 DEF Fan!Take, Working, Fan!FanTypeOK, Fan!Jobs
  <2>3. Pipe' = Pipe
    BY <1>2, <2>1, <2>2 DEF Pipe, Fan!Take
  <2> QED BY <1>1, <2>3
<1>3. CASE Fan!ReadEnabled \/ Fan!WriteCurve \/ Fan!WriteFactory
  <2>1. /\ job.stage # "idle" /\ job'.stage # "idle" /\ job'.cmd = job.cmd
        /\ UNCHANGED <<commands, replies>>
    BY <1>3 DEF Fan!ReadEnabled, Fan!WriteCurve, Fan!WriteFactory, Fan!FanTypeOK, Fan!Jobs
  <2>2. Working' = Working
    BY <2>1 DEF Working
  <2> QED BY <1>1, <2>1, <2>2 DEF Pipe
<1>4. CASE Fan!Read \/ Fan!ConfirmCurve \/ Fan!ConfirmFactory \/ Fan!Fail
  <2>1. Pipe' = Pipe
    BY <1>4, WorkerAnswers, FanAnswers
  <2> QED BY <1>1, <2>1
<1> QED BY <1>2, <1>3, <1>4 DEF Worker

LEMMA FanShows ==
  ASSUME Fan!FanTypeOK, Fan!Show
  PROVE  \E r \in Fan!Replies, rest \in Seq(Fan!Commands) :
           /\ Fan!ShowRefreshed(r) \/ Fan!ShowSet(r) \/ Fan!ShowReset(r)
           /\ r = replies[1] /\ r \in Elements(replies) /\ r.cmd \in Fan!Commands
           /\ Pipe = <<r.cmd>> \o rest
           /\ Elements(Pipe) = Elements(rest) \cup {r.cmd} /\ Len(Pipe) = Len(rest) + 1
           /\ Len(rest) \in Nat
           /\ rest = <<>> => commands = <<>> /\ job.stage = "idle" /\ Len(replies) = 1
           /\ ~Fan!ShowReset(r) => Pipe' = rest
           /\ Fan!ShowReset(r) =>
                /\ Covered(Pipe') /\ Pipe' # <<>>
                /\ \E c \in Elements(Pipe') : c.do = "refresh"
<1> DEFINE r == Head(replies)
           rest == PipeOf(Tail(replies), Working, commands)
           refresh == Fan!Refresh(<<r.cmd.at[1], editor.at[2]>>)
<1>1. replies # <<>> /\ replies \in Seq(Fan!Replies)
  BY FanTypes DEF Fan!Show
<1>2. r = replies[1] /\ r \in Fan!Replies /\ Tail(replies) \in Seq(Fan!Replies)
  BY <1>1
<1>3. r.cmd \in Fan!Commands /\ r \in Elements(replies)
  <2>1. 1 \in 1 .. Len(replies)
    BY <1>1
  <2> QED BY <1>2, <2>1 DEF Elements, Fan!Replies
<1>4. Pipe = <<r.cmd>> \o rest
  BY <1>1, FanTypes, PipeShown DEF Pipe
<1>5. /\ Sent(Tail(replies)) \in Seq(Fan!Commands)
      /\ Working \o commands \in Seq(Fan!Commands)
  BY <1>2, SentEach, FanTypes, ConcatIs
<1>6. rest \in Seq(Fan!Commands)
  BY <1>5, ConcatIs DEF PipeOf
<1>7. rest = <<>> => commands = <<>> /\ job.stage = "idle" /\ Len(replies) = 1
  <2> SUFFICES ASSUME rest = <<>>
               PROVE  commands = <<>> /\ job.stage = "idle" /\ Len(replies) = 1
    OBVIOUS
  <2>1. Sent(Tail(replies)) = <<>> /\ Working \o commands = <<>>
    BY <1>5, ConcatEqualIffEmpty DEF PipeOf
  <2>2. Working = <<>> /\ commands = <<>>
    BY <2>1, FanTypes, ConcatEqualIffEmpty
  <2>3. job.stage = "idle"
    BY <2>2 DEF Working
  <2>4. Len(Sent(Tail(replies))) = Len(Tail(replies))
    BY <1>2, SentEach
  <2>5. Len(replies) = 1
    BY <1>1, <2>1, <2>4
  <2> QED BY <2>2, <2>3, <2>5
<1>8. /\ replies' = Tail(replies) /\ job' = job
      /\ Fan!ShowRefreshed(r) \/ Fan!ShowSet(r) \/ Fan!ShowReset(r)
  BY DEF Fan!Show
<1>9. refresh \in Fan!Commands /\ refresh.do = "refresh"
  <2>1. r.cmd.at \in Fan!Slots /\ editor.at \in Fan!Slots
    BY <1>3, CommandKinds DEF Fan!FanTypeOK, Fan!Editors
  <2>2. <<r.cmd.at[1], editor.at[2]>> \in Fan!Slots
    BY <2>1 DEF Fan!Slots
  <2> QED BY <2>2, CurveAssumption DEF Fan!Refresh, Fan!Commands
<1>10. ASSUME ~Fan!ShowReset(r) PROVE Pipe' = rest
  BY <1>8, <1>10 DEF Pipe, Working, Fan!ShowRefreshed, Fan!ShowSet
<1>11. ASSUME Fan!ShowReset(r) PROVE Pipe' = Append(rest, refresh)
  <2>1. commands' = Append(commands, refresh)
    BY <1>11 DEF Fan!ShowReset
  <2> HIDE DEF r, refresh
  <2>2. PipeOf(Tail(replies), Working, Append(commands, refresh)) = Append(rest, refresh)
    BY <1>2, <1>9, FanTypes, PipeSent
  <2> QED BY <1>8, <2>1, <2>2 DEF Pipe, Working
<1> HIDE DEF r, rest, refresh
<1>12. Elements(Pipe) = Elements(rest) \cup {r.cmd}
  BY <1>3, <1>4, <1>6, PrependIs
<1>13. Len(Pipe) = Len(rest) + 1 /\ Len(rest) \in Nat
  BY <1>3, <1>4, <1>6, Prepended
<1>14. /\ Covered(Append(rest, refresh)) /\ Append(rest, refresh) # <<>>
       /\ refresh \in Elements(Append(rest, refresh))
  BY <1>6, <1>9, CoveredMore, AppendIs, AppendProperties
<1> QED BY <1>2, <1>3, <1>4, <1>6, <1>7, <1>8, <1>9, <1>10, <1>11, <1>12, <1>13, <1>14

-----------------------------------------------------------------------------
(* The invariant of the editor.                                            *)

LEMMA FanInitInv == Fan!Init => FanInv
<1> SUFFICES ASSUME Fan!Init PROVE FanInv
  OBVIOUS
<1>1. Fan!FanTypeOK
  BY FanInitTypes
<1>2. JobIs /\ SlotOrRead /\ PendingOrSent /\ AppliedIsShown /\ LastReadIsStored
  BY DEF Fan!Init, JobIs, SlotOrRead, PendingOrSent, AppliedIsShown, NothingToRead,
         LastReadIsStored
<1>3. Covered(Pipe)
  <2>1. commands = <<Fan!Refresh(First)>> /\ job.stage = "idle" /\ replies = <<>>
    BY DEF Fan!Init
  <2>2. Elements(Pipe) = {Fan!Refresh(First)}
    BY <1>1, <2>1, PipeElements, FanTypes, SingleIs, EmptyIs DEF Fan!Init
  <2>3. \A i \in 1 .. Len(Pipe) : Pipe[i].do # "set"
    BY <2>2 DEF Elements, Fan!Refresh
  <2> QED BY <2>3 DEF Covered
<1> QED BY <1>1, <1>2, <1>3 DEF FanInv, NoSetBehind

LEMMA EmptyPipe ==
  ASSUME Fan!FanTypeOK, Pipe = <<>>
  PROVE  Elements(Pipe) = {} /\ Elements(replies) = {} /\ replies = <<>>
<1>1. Elements(Pipe) = {}
  BY EmptyIs
<1>2. Elements(replies) = {}
  BY <1>1, PipeElements
<1>3. replies = <<>>
  BY <1>2, FanTypes, ShortSeq
<1> QED BY <1>1, <1>2, <1>3

(* One element where the pipe has at most one.                             *)
LEMMA OneSent ==
  ASSUME Fan!FanTypeOK, Pipe # <<>>
  PROVE  Len(Pipe) >= 1 /\ Len(Pipe) \in Nat /\ \E c \in Elements(Pipe) : TRUE
<1>1. Len(Pipe) \in Nat /\ Len(Pipe) >= 1
  BY FanTypes
<1>2. Pipe[1] \in Elements(Pipe)
  BY <1>1 DEF Elements
<1> QED BY <1>1, <1>2

LEMMA SelectInv ==
  ASSUME FanInv, Fan!FanTypeOK', NEW slot \in Fan!Slots, Fan!Select(slot)
  PROVE  FanInv'
<1> USE DEF FanInv
<1> DEFINE c == Fan!Refresh(slot)
<1>1. c \in Fan!Commands /\ c.do = "refresh"
  BY CurveAssumption DEF Fan!Refresh, Fan!Commands
<1>2. commands' = Append(commands, c) /\ UNCHANGED <<stored, job, replies>>
  BY DEF Fan!Select
<1> HIDE DEF c
<1>3. /\ Pipe' = Append(Pipe, c) /\ Elements(Pipe') = Elements(Pipe) \cup {c} /\ Pipe' # <<>>
  BY <1>1, <1>2, FanSends
<1>4. NoSetBehind' /\ SlotOrRead' /\ PendingOrSent' /\ JobIs'
  BY <1>1, <1>2, <1>3, FanTypes, CoveredMore DEF NoSetBehind, SlotOrRead, PendingOrSent, Owed, JobIs
<1>5. AppliedIsShown'
  BY <1>1, <1>3 DEF AppliedIsShown, NothingToRead
<1>6. LastReadIsStored'
  BY <1>1, <1>2, FanSends DEF LastReadIsStored
<1> QED BY <1>4, <1>5, <1>6

LEMMA EditInv ==
  ASSUME FanInv, Fan!FanTypeOK', NEW curve \in Curves, Fan!Edit(curve)
  PROVE  FanInv'
<1> USE DEF FanInv
<1>1. /\ UNCHANGED <<stored, commands, job, replies, trail>>
      /\ editor.state = "ready" /\ ~editor.pending
      /\ editor'.at = editor.at /\ editor'.state = editor.state /\ editor'.dirty
      /\ editor'.pending = editor.pending
  BY DEF Fan!Edit, Fan!Unlocked, Fan!FanTypeOK, Fan!Editors
<1>2. Pipe' = Pipe
  BY <1>1, PipeRests
<1>3. NoSetBehind' /\ SlotOrRead' /\ PendingOrSent' /\ JobIs' /\ LastReadIsStored'
  BY <1>1, <1>2 DEF NoSetBehind, SlotOrRead, PendingOrSent, Owed, JobIs, LastReadIsStored
<1>4. AppliedIsShown'
  <2> SUFFICES ASSUME NothingToRead'
               PROVE  /\ Len(Pipe) <= 1 /\ Elements(Pipe) = {} /\ Elements(replies) = {}
    BY <1>1, <1>2 DEF AppliedIsShown
  <2>1. NothingToRead
    BY <1>1, <1>2 DEF NothingToRead
  <2>2. Pipe = <<>>
    BY <1>1, <2>1, OneSent DEF AppliedIsShown
  <2> QED BY <2>1, <2>2, EmptyPipe DEF AppliedIsShown
<1> QED BY <1>3, <1>4

LEMMA ApplyInv ==
  ASSUME FanInv, Fan!FanTypeOK', Fan!Apply
  PROVE  FanInv'
<1> USE DEF FanInv
<1> DEFINE c == [do |-> "set", at |-> editor.at, curve |-> editor.curve]
<1>1. /\ c \in Fan!Commands /\ c.do = "set" /\ c.at = editor.at /\ c.curve = editor.curve
  BY DEF Fan!Commands, Fan!FanTypeOK, Fan!Editors
<1>2. /\ commands' = Append(commands, c) /\ UNCHANGED <<stored, job, replies>>
      /\ editor.state = "ready" /\ ~editor.pending /\ editor.dirty
      /\ editor' = [editor EXCEPT !.pending = TRUE]
      /\ trail' = [trail EXCEPT !.crossed = @ \/ Fan!Outstanding("refresh")]
  BY DEF Fan!Apply, Fan!Unlocked
<1> HIDE DEF c
<1>3. /\ Pipe' = Append(Pipe, c) /\ Elements(Pipe') = Elements(Pipe) \cup {c}
      /\ Pipe' # <<>> /\ Len(Pipe') = Len(Pipe) + 1
  BY <1>1, <1>2, FanSends
<1>4. /\ editor'.at = editor.at /\ editor'.curve = editor.curve /\ editor'.state = editor.state
      /\ editor'.dirty = editor.dirty /\ editor'.pending
      /\ trail'.of = trail.of /\ trail'.foreign = trail.foreign
  BY <1>2 DEF Fan!FanTypeOK, Fan!Editors, Fan!Trails
<1>5. ASSUME ~trail'.crossed
      PROVE  ~trail.crossed /\ \A x \in Elements(Pipe) : x.do # "refresh"
  <2>1. ~trail.crossed /\ ~Fan!Outstanding("refresh")
    BY <1>2, <1>5 DEF Fan!FanTypeOK, Fan!Trails
  <2> QED BY <2>1, OwedIs DEF Owed
<1>6. SlotOrRead' /\ PendingOrSent' /\ JobIs'
  BY <1>2, <1>3, <1>4 DEF SlotOrRead, PendingOrSent, Owed, JobIs
<1>7. NoSetBehind'
  BY <1>1, <1>3, <1>5, FanTypes, CoveredMore DEF NoSetBehind
<1>8. LastReadIsStored'
  BY <1>1, <1>2, FanSends DEF LastReadIsStored
<1>9. AppliedIsShown'
  <2> SUFFICES ASSUME NothingToRead'
               PROVE  /\ Len(Pipe') <= 1 /\ Elements(Pipe') = {c} /\ Elements(replies') = {}
    BY <1>1, <1>2, <1>4 DEF AppliedIsShown
  <2>1. NothingToRead
    BY <1>2, <1>3, <1>5 DEF NothingToRead
  <2>2. Pipe = <<>>
    BY <1>2, <2>1, OneSent DEF AppliedIsShown
  <2>3. Elements(Pipe) = {} /\ Elements(replies) = {} /\ Len(Pipe) = 0
    BY <2>2, EmptyPipe
  <2> QED BY <1>2, <1>3, <2>3
<1> QED BY <1>6, <1>7, <1>8, <1>9

LEMMA ResetInv ==
  ASSUME FanInv, Fan!FanTypeOK', Fan!Reset
  PROVE  FanInv'
<1> USE DEF FanInv
<1> DEFINE c == [do |-> "reset", at |-> editor.at, curve |-> Factory]
<1>1. c \in Fan!Commands /\ c.do = "reset"
  BY CurveAssumption DEF Fan!Commands, Fan!FanTypeOK, Fan!Editors
<1>2. /\ commands' = Append(commands, c) /\ UNCHANGED <<stored, job, replies, trail>>
      /\ editor' = [editor EXCEPT !.pending = TRUE]
  BY DEF Fan!Reset
<1> HIDE DEF c
<1>3. Pipe' = Append(Pipe, c) /\ Elements(Pipe') = Elements(Pipe) \cup {c} /\ Pipe' # <<>>
  BY <1>1, <1>2, FanSends
<1>4. editor'.at = editor.at /\ editor'.state = editor.state
  BY <1>2 DEF Fan!FanTypeOK, Fan!Editors
<1>5. SlotOrRead' /\ PendingOrSent' /\ JobIs'
  BY <1>2, <1>3, <1>4 DEF SlotOrRead, PendingOrSent, Owed, JobIs
<1>6. NoSetBehind'
  BY <1>1, <1>2, <1>3, FanTypes, CoveredMore DEF NoSetBehind
<1>7. AppliedIsShown'
  BY <1>1, <1>3 DEF AppliedIsShown, NothingToRead
<1>8. LastReadIsStored'
  BY <1>1, <1>2, FanSends DEF LastReadIsStored
<1> QED BY <1>5, <1>6, <1>7, <1>8

LEMMA ShowInv ==
  ASSUME FanInv, Fan!FanTypeOK', Fan!Show
  PROVE  FanInv'
<1> USE DEF FanInv
<1>1. PICK r \in Fan!Replies, rest \in Seq(Fan!Commands) :
           /\ Fan!ShowRefreshed(r) \/ Fan!ShowSet(r) \/ Fan!ShowReset(r)
           /\ r = replies[1] /\ r \in Elements(replies) /\ r.cmd \in Fan!Commands
           /\ Pipe = <<r.cmd>> \o rest
           /\ Elements(Pipe) = Elements(rest) \cup {r.cmd} /\ Len(Pipe) = Len(rest) + 1
           /\ Len(rest) \in Nat
           /\ rest = <<>> => commands = <<>> /\ job.stage = "idle" /\ Len(replies) = 1
           /\ ~Fan!ShowReset(r) => Pipe' = rest
           /\ Fan!ShowReset(r) =>
                /\ Covered(Pipe') /\ Pipe' # <<>>
                /\ \E c \in Elements(Pipe') : c.do = "refresh"
  BY FanShows
<1>2. /\ replies' = Tail(replies) /\ UNCHANGED <<stored, job>> /\ replies # <<>>
      /\ trail'.crossed = trail.crossed /\ trail'.foreign = trail.foreign
  BY <1>1 DEF Fan!Show, Fan!ShowRefreshed, Fan!Load, Fan!ShowSet, Fan!ShowReset,
              Fan!FanTypeOK, Fan!Trails
<1>3. JobIs'
  BY <1>2 DEF JobIs
<1>4. LastReadIsStored'
  <2>1. replies \in Seq(Fan!Replies)
    BY FanTypes
  <2>2. replies' # <<>> => Len(replies') = Len(replies) - 1 /\ replies'[Len(replies')] = replies[Len(replies)]
    BY <1>2, <2>1
  <2>3. commands' = <<>> => commands = <<>>
    <3>1. CASE UNCHANGED commands
      BY <3>1
    <3>2. CASE Fan!ShowReset(r)
      BY <3>2, FanTypes DEF Fan!ShowReset
    <3> QED BY <1>1, <3>1, <3>2 DEF Fan!ShowRefreshed, Fan!ShowSet
  <2> QED BY <1>2, <2>2, <2>3 DEF LastReadIsStored
<1>5. CASE Fan!ShowReset(r)
  <2>1. SlotOrRead' /\ PendingOrSent' /\ NoSetBehind' /\ AppliedIsShown'
    BY <1>1, <1>5 DEF SlotOrRead, PendingOrSent, NoSetBehind, AppliedIsShown, NothingToRead, Owed
  <2> QED BY <1>3, <1>4, <2>1
<1>6. ASSUME ~Fan!ShowReset(r) PROVE Pipe' = rest /\ NoSetBehind'
  <2>1. Pipe' = rest
    BY <1>1, <1>6
  <2>2. Covered(Pipe) => Covered(rest)
    BY <1>1, CoveredLess
  <2> QED BY <1>2, <2>1, <2>2 DEF NoSetBehind
<1>7. ASSUME ~Fan!ShowReset(r), NothingToRead', r.cmd.do = "refresh" \/ NothingToRead
      PROVE  rest = <<>>
  <2>1. ~trail.crossed /\ \A x \in Elements(rest) : x.do = "set"
    BY <1>2, <1>6, <1>7 DEF NothingToRead
  <2>2. CASE r.cmd.do = "refresh"
    <3>1. Covered(<<r.cmd>> \o rest)
      BY <1>1, <2>1 DEF NoSetBehind
    <3> QED BY <1>1, <2>1, <2>2, <3>1, CoveredLess
  <2>3. CASE NothingToRead
    BY <1>1, <2>3 DEF AppliedIsShown
  <2> QED BY <1>7, <2>2, <2>3
<1>8. rest = <<>> => Elements(rest) = {} /\ Elements(Tail(replies)) = {} /\ Len(rest) = 0
  <2> SUFFICES ASSUME rest = <<>>
               PROVE  Elements(rest) = {} /\ Elements(Tail(replies)) = {} /\ Len(rest) = 0
    OBVIOUS
  <2>1. Tail(replies) = <<>>
    <3>1. replies \in Seq(Fan!Replies) /\ Len(replies) = 1
      BY <1>1, FanTypes
    <3> QED BY <3>1, ShortSeq
  <2> QED BY <2>1, EmptyIs
<1>9. CASE Fan!ShowRefreshed(r)
  <2>0. ~Fan!ShowReset(r) /\ r.cmd.do = "refresh"
    BY <1>9 DEF Fan!ShowRefreshed, Fan!ShowReset
  <2>1. SlotOrRead' /\ PendingOrSent'
    <3>1. ~editor'.pending
      BY <1>9 DEF Fan!ShowRefreshed, Fan!Load, Fan!FanTypeOK, Fan!Editors
    <3>2. editor'.state = "ready" => editor'.at = r.cmd.at /\ trail'.of = r.cmd.at
      BY <1>9 DEF Fan!ShowRefreshed, Fan!Load, Fan!FanTypeOK, Fan!Editors, Fan!Trails
    <3> QED BY <3>1, <3>2 DEF SlotOrRead, PendingOrSent
  <2>2. AppliedIsShown'
    <3> SUFFICES ASSUME NothingToRead' PROVE AppliedIsShown'
      BY DEF AppliedIsShown
    <3>1. rest = <<>> /\ Pipe' = rest
      BY <1>6, <1>7, <2>0
    <3>2. r.ok /\ Fan!Load(r)
      BY <1>9 DEF NothingToRead, Fan!ShowRefreshed, Fan!FanTypeOK, Fan!Editors
    <3>3. ~trail.foreign => r.curve = stored[r.cmd.at].curve
      BY <1>1, <1>2, <2>0, <3>1, <3>2 DEF LastReadIsStored
    <3>4. editor'.at = r.cmd.at /\ editor'.curve = r.curve
      BY <3>2 DEF Fan!Load, Fan!FanTypeOK, Fan!Editors
    <3> QED BY <1>2, <1>8, <3>1, <3>3, <3>4 DEF AppliedIsShown
  <2> QED BY <1>3, <1>4, <1>6, <2>0, <2>1, <2>2
<1>10. CASE Fan!ShowSet(r)
  <2>0. ~Fan!ShowReset(r) /\ r.cmd.do = "set"
    BY <1>10 DEF Fan!ShowSet, Fan!ShowReset
  <2>1. /\ editor'.state = editor.state /\ editor'.at = editor.at /\ editor'.curve = editor.curve
        /\ ~editor'.pending /\ (editor'.dirty <=> editor.dirty /\ ~r.ok) /\ trail' = trail
    BY <1>10 DEF Fan!ShowSet, Fan!FanTypeOK, Fan!Editors
  <2>2. SlotOrRead' /\ PendingOrSent'
    BY <1>1, <1>6, <2>0, <2>1 DEF SlotOrRead, PendingOrSent, Owed
  <2>3. AppliedIsShown'
    <3> SUFFICES ASSUME NothingToRead' PROVE AppliedIsShown'
      BY DEF AppliedIsShown
    <3>1. NothingToRead
      BY <1>1, <1>6, <2>0, <2>1 DEF NothingToRead
    <3>2. rest = <<>> /\ Pipe' = rest
      BY <1>6, <1>7, <2>0, <3>1
    <3>3. ~trail.foreign /\ ~editor'.dirty => editor.curve = stored[editor.at].curve
      BY <1>1, <2>1, <3>1 DEF AppliedIsShown
    <3> QED BY <1>2, <1>8, <2>1, <3>2, <3>3 DEF AppliedIsShown
  <2> QED BY <1>3, <1>4, <1>6, <2>0, <2>2, <2>3
<1> QED BY <1>1, <1>5, <1>9, <1>10

LEMMA WorkerInv ==
  ASSUME FanInv, Fan!FanTypeOK', Worker
  PROVE  FanInv'
<1> USE DEF FanInv
<1>1. /\ Pipe' = Pipe /\ editor' = editor
      /\ trail'.of = trail.of /\ trail'.crossed = trail.crossed
  BY WorkerKeeps
<1>2. SlotOrRead' /\ PendingOrSent' /\ NoSetBehind' /\ (NothingToRead' <=> NothingToRead)
  BY <1>1 DEF SlotOrRead, PendingOrSent, NoSetBehind, NothingToRead, Owed
<1>3. job.stage # "idle" => job.cmd \in Elements(Pipe)
  BY PipeElements
<1>4. CASE Fan!Take \/ Fan!ReadEnabled
  <2>1. UNCHANGED <<stored, replies, trail>> /\ job'.stage # "idle"
    BY <1>4 DEF Fan!Take, Fan!ReadEnabled, Fan!FanTypeOK, Fan!Jobs
  <2>2. AppliedIsShown' /\ LastReadIsStored'
    BY <1>1, <1>2, <2>1 DEF AppliedIsShown, LastReadIsStored
  <2>3. JobIs'
    BY <1>4 DEF JobIs, Fan!Take, Fan!ReadEnabled, Fan!FanTypeOK, Fan!Jobs
  <2> QED BY <1>2, <2>2, <2>3
<1>5. CASE Fan!WriteCurve
  <2>1. /\ UNCHANGED <<replies, trail>> /\ job'.stage = "written" /\ job'.cmd = job.cmd
        /\ job.cmd.do = "set" /\ job.stage # "idle"
        /\ stored' = [stored EXCEPT ![job.cmd.at] =
                        [curve |-> job.cmd.curve, enabled |-> job.enabled]]
    BY <1>5 DEF Fan!WriteCurve, Fan!FanTypeOK, Fan!Jobs
  <2>2. LastReadIsStored' /\ JobIs'
    BY <2>1 DEF LastReadIsStored, JobIs
  <2>3. AppliedIsShown'
    <3> SUFFICES ASSUME NothingToRead PROVE AppliedIsShown'
      BY <1>2 DEF AppliedIsShown
    <3>1. job.cmd.at = editor.at /\ job.cmd.curve = editor.curve
      BY <1>3, <2>1 DEF AppliedIsShown
    <3>2. editor.at \in Fan!Slots /\ DOMAIN stored = Fan!Slots
      BY DEF Fan!FanTypeOK, Fan!Editors
    <3>3. stored'[editor.at].curve = editor.curve
      BY <2>1, <3>1, <3>2
    <3> QED BY <1>1, <2>1, <3>3 DEF AppliedIsShown
  <2> QED BY <1>2, <2>2, <2>3
<1>6. CASE Fan!WriteFactory
  <2>1. /\ job'.stage = "written" /\ job'.cmd = job.cmd
        /\ job.cmd.do = "reset" /\ job.stage # "idle"
    BY <1>6 DEF Fan!WriteFactory, Fan!FanTypeOK, Fan!Jobs
  <2>2. LastReadIsStored' /\ JobIs'
    BY <2>1 DEF LastReadIsStored, JobIs
  <2>3. ~NothingToRead
    BY <1>3, <2>1 DEF NothingToRead
  <2> QED BY <1>2, <2>2, <2>3 DEF AppliedIsShown
<1>7. CASE Fan!Read \/ Fan!ConfirmCurve \/ Fan!ConfirmFactory \/ Fan!Fail
  <2>1. PICK ok \in BOOLEAN, curve \in Curves :
           /\ Fan!Answered(ok, curve)
           /\ job.stage # "idle" /\ UNCHANGED <<commands, stored, editor>>
           /\ Fan!Read => /\ job.cmd.do = "refresh" /\ curve = stored[job.cmd.at].curve
                          /\ trail' = [trail EXCEPT !.foreign = FALSE]
           /\ ~Fan!Read => UNCHANGED trail /\ (job.cmd.do # "refresh" \/ ~ok)
           /\ job.cmd.do = "set" /\ ok => job.cmd.curve = stored[job.cmd.at].curve
    BY <1>7, WorkerAnswers
  <2>2. /\ Elements(replies') = Elements(replies)
                                   \cup {[cmd |-> job.cmd, ok |-> ok, curve |-> curve]}
        /\ replies' # <<>>
        /\ replies'[Len(replies')] = [cmd |-> job.cmd, ok |-> ok, curve |-> curve]
    BY <2>1, FanAnswers
  <2>3. job'.stage = "idle" /\ job'.cmd = job.cmd
    BY <2>1, FanAnsweredTypes
  <2>4. JobIs'
    BY <2>3 DEF JobIs
  <2>5. LastReadIsStored'
    BY <2>1, <2>2 DEF LastReadIsStored
  <2>6. AppliedIsShown'
    <3> SUFFICES ASSUME NothingToRead PROVE AppliedIsShown'
      BY <1>2 DEF AppliedIsShown
    <3>1. job.cmd.do = "set" /\ job.cmd.at = editor.at /\ job.cmd.curve = editor.curve
      BY <1>3, <2>1 DEF NothingToRead, AppliedIsShown
    <3>2. UNCHANGED trail /\ (ok => editor.curve = stored[editor.at].curve)
      BY <2>1, <3>1
    <3> QED BY <1>1, <2>1, <2>2, <3>2 DEF AppliedIsShown
  <2> QED BY <1>2, <2>4, <2>5, <2>6
<1> QED BY <1>4, <1>5, <1>6, <1>7 DEF Worker

LEMMA ForeignInv ==
  ASSUME FanInv, Fan!FanTypeOK', NEW slot \in Fan!Slots, NEW curve \in Curves,
         NEW enabled \in BOOLEAN, Fan!Foreign(slot, curve, enabled)
  PROVE  FanInv'
<1> USE DEF FanInv
<1>1. /\ UNCHANGED <<editor, commands, job, replies>> /\ trail'.foreign
      /\ trail'.crossed = trail.crossed /\ trail'.of = trail.of
  BY DEF Fan!Foreign, Fan!FanTypeOK, Fan!Trails
<1>2. Pipe' = Pipe
  BY <1>1, PipeRests
<1>3. SlotOrRead' /\ PendingOrSent' /\ NoSetBehind' /\ JobIs' /\ LastReadIsStored'
  BY <1>1, <1>2 DEF SlotOrRead, PendingOrSent, NoSetBehind, Owed, JobIs, LastReadIsStored
<1>4. AppliedIsShown'
  BY <1>1, <1>2 DEF AppliedIsShown, NothingToRead
<1> QED BY <1>3, <1>4

LEMMA FanNextInv == FanInv /\ Fan!Next => FanInv'
<1> SUFFICES ASSUME FanInv, Fan!Next PROVE FanInv'
  OBVIOUS
<1>1. Fan!FanTypeOK'
  BY FanNextTypes DEF FanInv
<1> QED BY <1>1, SelectInv, EditInv, ApplyInv, ResetInv, ShowInv, WorkerInv, ForeignInv
        DEF Fan!Next, Fan!Gestures, Worker

(* What the window promises follows from it.                               *)
LEMMA FanPromises ==
  ASSUME FanInv
  PROVE  Fan!DraftOfSelection /\ Fan!ShownIsStored /\ Fan!PendingIsOwed
<1> USE DEF FanInv
<1>1. Fan!DraftOfSelection
  BY OwedIs DEF Fan!DraftOfSelection, SlotOrRead
<1>2. Fan!ShownIsStored
  <2> SUFFICES ASSUME commands = <<>> /\ job.stage = "idle" /\ replies = <<>>,
                      editor.state = "ready" /\ ~editor.dirty,
                      ~trail.crossed /\ ~trail.foreign
               PROVE  editor.curve = stored[editor.at].curve
    BY DEF Fan!ShownIsStored
  <2>1. Elements(Pipe) = {}
    BY PipeElements, EmptyIs
  <2> QED BY <2>1 DEF AppliedIsShown, NothingToRead
<1>3. Fan!PendingIsOwed
  <2> SUFFICES ASSUME editor.pending
               PROVE  \E do \in {"refresh", "set", "reset"} : Fan!Outstanding(do)
    BY DEF Fan!PendingIsOwed
  <2>1. PICK c \in Elements(Pipe) : TRUE
    BY OneSent DEF PendingOrSent
  <2>2. c.do \in {"refresh", "set", "reset"}
    BY PipeElements, CommandKinds
  <2>3. Fan!Outstanding(c.do)
    BY OwedIs DEF Owed
  <2> QED BY <2>2, <2>3
<1> QED BY <1>1, <1>2, <1>3

-----------------------------------------------------------------------------
(* LimitEditor.                                                            *)

(* The batch has left what it was asked for, and something while it writes. *)
BatchIs ==
  /\ batch.left \subseteq Limit!Drafted(batch.vals)
  /\ batch.at \in {"write", "back"} => batch.left # {}

(* Unless the limits changed unread, the newest snapshot to come, or the   *)
(* panel when none is, shows the limits in force.                          *)
ReadShots == [show : {"snapshot"}, ok : {TRUE}, obs : Limit!Shots]
NewestIsTrue ==
  ~unread =>
    /\ LastIn(events, ReadShots, {e \in ReadShots : e.obs = firmware})
    /\ Elements(events) \cap ReadShots = {} => panel.obs = firmware

LimitInv == Limit!LimitTypeOK /\ BatchIs /\ Limit!LockIsOwed /\ NewestIsTrue

LEMMA PlaceIs ==
  ASSUME NEW k \in Limit!Keys
  PROVE  Limit!Place(k) \in Nat /\ Limits[Limit!Place(k)] = k
<1>1. DOMAIN Limits = 1 .. Len(Limits) /\ Len(Limits) \in Nat
  BY LimitsAssumption
<1>2. \E i \in DOMAIN Limits : Limits[i] = k
  BY DEF Limit!Keys
<1>3. Limit!Place(k) \in DOMAIN Limits /\ Limits[Limit!Place(k)] = k
  BY <1>2 DEF Limit!Place
<1> QED BY <1>1, <1>3

LEMMA DueIs ==
  ASSUME batch.left \subseteq Limit!Keys, batch.left # {}
  PROVE  Limit!Due \in batch.left /\ Limit!Due \in Limit!Keys
<1> DEFINE places == {Limit!Place(k) : k \in batch.left}
<1>1. places \in SUBSET Nat /\ places # {}
  BY PlaceIs
<1> HIDE DEF places
<1>2. PICK m \in places : \A n \in places : m <= n
  BY <1>1, Least
<1>3. PICK k \in batch.left : m = Limit!Place(k)
  BY DEF places
<1>4. \A other \in batch.left : Limit!Place(k) <= Limit!Place(other)
  BY <1>2, <1>3 DEF places
<1>5. Limit!Due \in batch.left
  BY <1>4 DEF Limit!Due
<1> QED BY <1>5

LEMMA LimitTypes ==
  ASSUME Limit!LimitTypeOK
  PROVE  /\ orders \in Seq(Limit!Orders) /\ events \in Seq(Limit!Events)
         /\ firmware \in Limit!Shots /\ panel \in Limit!Panels /\ batch \in Limit!Batches
         /\ batch.left \subseteq Limit!Keys
         /\ panel.obs \in Limit!Shots /\ panel.drafts \in Limit!Drafts
         /\ panel.pending \subseteq Limit!Keys /\ panel.awaiting \subseteq Limit!Keys
         /\ panel.stale \in BOOLEAN /\ panel.error \in BOOLEAN
         /\ batch.vals \in Limit!Drafts
BY DEF Limit!LimitTypeOK, Limit!Panels, Limit!Batches

UseTypes == [edits : 0 .. MaxEdits, switches : 0 .. MaxSwitches, mishaps : 0 .. MaxMishaps]

LEMMA LimitUses ==
  ASSUME uses \in UseTypes
  PROVE  /\ Limit!Edited => uses' \in UseTypes
         /\ Limit!Mishap => uses' \in UseTypes
         /\ uses.switches < MaxSwitches /\ uses' = [uses EXCEPT !.switches = @ + 1]
              => uses' \in UseTypes
<1>1. MaxEdits \in Nat /\ MaxSwitches \in Nat /\ MaxMishaps \in Nat
  BY CountsAssumption
<1>2. ASSUME Limit!Edited PROVE uses' \in UseTypes
  BY <1>1, <1>2 DEF Limit!Edited, UseTypes
<1>3. ASSUME Limit!Mishap PROVE uses' \in UseTypes
  BY <1>1, <1>3 DEF Limit!Mishap, UseTypes
<1>4. ASSUME uses.switches < MaxSwitches, uses' = [uses EXCEPT !.switches = @ + 1]
      PROVE  uses' \in UseTypes
  BY <1>1, <1>4 DEF UseTypes
<1> QED BY <1>2, <1>3, <1>4

(* What is to answer a field, by elements.                                 *)
LEMMA AnsweringIs ==
  ASSUME Limit!LimitTypeOK, NEW k
  PROVE  Limit!Answering(k) <=>
           \/ \E o \in Elements(orders) : o.do = "apply" /\ o.vals[k] # Limit!None
           \/ batch.do = "apply" /\ batch.at # "idle" /\ k \in batch.left
           \/ \E e \in Elements(events) : e.show = "result" /\ e.key = k
<1>1. DOMAIN orders = 1 .. Len(orders) /\ DOMAIN events = 1 .. Len(events)
  BY LimitTypes
<1>2. (\E i \in DOMAIN orders : orders[i].do = "apply" /\ orders[i].vals[k] # Limit!None)
        <=> (\E o \in Elements(orders) : o.do = "apply" /\ o.vals[k] # Limit!None)
  BY <1>1 DEF Elements
<1>3. (\E i \in DOMAIN events : events[i].show = "result" /\ events[i].key = k)
        <=> (\E e \in Elements(events) : e.show = "result" /\ e.key = k)
  BY <1>1 DEF Elements
<1> QED BY <1>2, <1>3 DEF Limit!Answering

LEMMA LimitInitInv == Limit!Init => LimitInv
<1> SUFFICES ASSUME Limit!Init PROVE LimitInv
  OBVIOUS
<1>1. /\ firmware \in Limit!Shots /\ Limit!NoDrafts \in Limit!Drafts
      /\ MaxEdits \in Nat /\ MaxSwitches \in Nat /\ MaxMishaps \in Nat
  BY CountsAssumption DEF Limit!Init, Limit!Shots, Limit!NoDrafts, Limit!Drafts
<1>2. [do |-> "refresh", vals |-> Limit!NoDrafts, seen |-> firmware] \in Limit!Orders
  BY <1>1 DEF Limit!Orders
<1>3. orders \in Seq(Limit!Orders) /\ events \in Seq(Limit!Events) /\ Elements(events) = {}
  BY <1>2, EmptyIs DEF Limit!Init
<1>4. panel \in Limit!Panels /\ batch \in Limit!Batches
  BY <1>1 DEF Limit!Init, Limit!Panels, Limit!Batches, Limit!Stages, Limit!Results
<1>8. uses \in UseTypes
  BY <1>1 DEF Limit!Init, UseTypes
<1>5. Limit!LimitTypeOK
  BY <1>1, <1>3, <1>4, <1>8 DEF Limit!Init, Limit!LimitTypeOK, UseTypes
<1>6. BatchIs /\ Limit!LockIsOwed
  BY DEF Limit!Init, BatchIs, Limit!LockIsOwed
<1>7. NewestIsTrue
  BY <1>3 DEF Limit!Init, NewestIsTrue, LastIn
<1> QED BY <1>5, <1>6, <1>7 DEF LimitInv

LEMMA EventsAre ==
  ASSUME Limit!LimitTypeOK
  PROVE  /\ \A ok \in BOOLEAN : /\ Limit!Snapshot(ok) \in Limit!Events
                                /\ Limit!Snapshot(ok).show = "snapshot"
                                /\ Limit!Snapshot(ok) \in ReadShots <=> ok
                                /\ Limit!Snapshot(ok).obs = firmware
         /\ \A k \in Limit!Keys, result \in Limit!Results :
              /\ Limit!Result(k, result) \in Limit!Events
              /\ Limit!Result(k, result).show = "result" /\ Limit!Result(k, result).key = k
              /\ Limit!Result(k, result) \notin ReadShots
<1>1. firmware \in Limit!Shots
  BY LimitTypes
<1>2. ASSUME NEW ok \in BOOLEAN
      PROVE  /\ Limit!Snapshot(ok) \in Limit!Events
             /\ Limit!Snapshot(ok).show = "snapshot"
             /\ Limit!Snapshot(ok) \in ReadShots <=> ok
             /\ Limit!Snapshot(ok).obs = firmware
  BY <1>1 DEF Limit!Snapshot, Limit!Events, ReadShots
<1>3. ASSUME NEW k \in Limit!Keys, NEW result \in Limit!Results
      PROVE  /\ Limit!Result(k, result) \in Limit!Events
             /\ Limit!Result(k, result).show = "result" /\ Limit!Result(k, result).key = k
             /\ Limit!Result(k, result) \notin ReadShots
  BY DEF Limit!Result, Limit!Events, ReadShots
<1> QED BY <1>2, <1>3

(* A lock that was owed an answer is owed one still.                       *)
Owing(k) ==
  \/ \E o \in Elements(orders) : o.do = "apply" /\ o.vals[k] # Limit!None
  \/ batch.do = "apply" /\ batch.at # "idle" /\ k \in batch.left
  \/ \E e \in Elements(events) : e.show = "result" /\ e.key = k
LocksOwing == \A k \in panel.pending : Owing(k) \/ k \in panel.awaiting

LEMMA OwingIs == Limit!LimitTypeOK => (Limit!LockIsOwed <=> LocksOwing)
BY AnsweringIs DEF Limit!LockIsOwed, LocksOwing, Owing

LEMMA OwingNext ==
  ASSUME Limit!LimitTypeOK'
  PROVE  LocksOwing' => Limit!LockIsOwed'
<1>1. DOMAIN orders' = 1 .. Len(orders') /\ DOMAIN events' = 1 .. Len(events')
  BY DEF Limit!LimitTypeOK
<1>2. ASSUME NEW k, Owing(k)' PROVE Limit!Answering(k)'
  <2>1. CASE \E o \in Elements(orders') : o.do = "apply" /\ o.vals[k] # Limit!None
    <3>1. \E i \in DOMAIN orders' : orders'[i].do = "apply" /\ orders'[i].vals[k] # Limit!None
      BY <1>1, <2>1 DEF Elements
    <3> QED BY <3>1 DEF Limit!Answering
  <2>2. CASE \E e \in Elements(events') : e.show = "result" /\ e.key = k
    <3>1. \E i \in DOMAIN events' : events'[i].show = "result" /\ events'[i].key = k
      BY <1>1, <2>2 DEF Elements
    <3> QED BY <3>1 DEF Limit!Answering
  <2> QED BY <1>2, <2>1, <2>2 DEF Owing, Limit!Answering
<1> QED BY <1>2 DEF LocksOwing, Limit!LockIsOwed

LEMMA DraftInv ==
  ASSUME LimitInv, NEW k \in Limit!Keys, NEW w \in Watts, Limit!Draft(k, w)
  PROVE  LimitInv'
<1> USE DEF LimitInv
<1>1. /\ UNCHANGED <<firmware, orders, batch, events, strays, unread>>
      /\ panel' = [panel EXCEPT !.drafts[k] = IF w = panel.obs[k] THEN Limit!None ELSE w,
                                !.error = FALSE]
  BY DEF Limit!Draft
<1>2. panel' \in Limit!Panels /\ panel'.obs = panel.obs /\ panel'.pending = panel.pending
      /\ panel'.awaiting = panel.awaiting
  <2> DEFINE value == IF w = panel.obs[k] THEN Limit!None ELSE w
             drafts == [panel.drafts EXCEPT ![k] = value]
  <2>1. panel' = [panel EXCEPT !.drafts = drafts, !.error = FALSE]
    BY <1>1, LimitTypes DEF Limit!Panels
  <2>2. value \in Watts \cup {Limit!None}
    OBVIOUS
  <2> HIDE DEF value
  <2>3. drafts \in Limit!Drafts
    BY <2>2, LimitTypes DEF Limit!Drafts
  <2> HIDE DEF drafts
  <2> QED BY <2>1, <2>3, LimitTypes DEF Limit!Panels
<1>3. uses' \in UseTypes
  BY LimitUses DEF Limit!Draft, Limit!LimitTypeOK, UseTypes
<1>4. Limit!LimitTypeOK'
  BY <1>1, <1>2, <1>3 DEF Limit!LimitTypeOK, UseTypes
<1>5. LocksOwing'
  BY <1>1, <1>2, OwingIs DEF LocksOwing, Owing
<1>6. BatchIs' /\ NewestIsTrue'
  BY <1>1, <1>2 DEF BatchIs, NewestIsTrue
<1> QED BY <1>4, <1>5, <1>6, OwingNext

LEMMA LimitApplyInv ==
  ASSUME LimitInv, Limit!Apply
  PROVE  LimitInv'
<1> USE DEF LimitInv
<1> DEFINE o == [do |-> "apply", vals |-> panel.drafts, seen |-> panel.obs]
<1>1. o \in Limit!Orders /\ o.do = "apply" /\ o.vals = panel.drafts
  BY LimitTypes DEF Limit!Orders
<1>2. /\ UNCHANGED <<firmware, batch, events, strays, unread>>
      /\ orders' = Append(orders, o)
      /\ panel' = [panel EXCEPT !.pending = @ \cup Limit!Drafted(panel.drafts)]
  BY DEF Limit!Apply
<1> HIDE DEF o
<1>3. orders' \in Seq(Limit!Orders) /\ Elements(orders') = Elements(orders) \cup {o}
  BY <1>1, <1>2, LimitTypes, AppendIs
<1>4. /\ panel' \in Limit!Panels /\ panel'.obs = panel.obs /\ panel'.awaiting = panel.awaiting
      /\ panel'.pending = panel.pending \cup Limit!Drafted(panel.drafts)
  <2>1. Limit!Drafted(panel.drafts) \subseteq Limit!Keys
    BY DEF Limit!Drafted
  <2> QED BY <1>2, <2>1, LimitTypes DEF Limit!Panels
<1>5. uses' \in UseTypes
  BY LimitUses DEF Limit!Apply, Limit!LimitTypeOK, UseTypes
<1>6. Limit!LimitTypeOK'
  BY <1>2, <1>3, <1>4, <1>5 DEF Limit!LimitTypeOK, UseTypes
<1>7. LocksOwing'
  <2> SUFFICES ASSUME NEW k \in panel'.pending PROVE Owing(k)' \/ k \in panel'.awaiting
    BY DEF LocksOwing
  <2>1. CASE k \in panel.pending
    BY <1>2, <1>3, <1>4, <2>1, OwingIs DEF LocksOwing, Owing
  <2>2. CASE k \in Limit!Drafted(panel.drafts)
    BY <1>1, <1>3, <2>2 DEF Owing, Limit!Drafted
  <2> QED BY <1>4, <2>1, <2>2
<1>8. BatchIs' /\ NewestIsTrue'
  BY <1>2, <1>4 DEF BatchIs, NewestIsTrue
<1> QED BY <1>6, <1>7, <1>8, OwingNext

LEMMA LimitShowInv ==
  ASSUME LimitInv, Limit!Show
  PROVE  LimitInv'
<1> USE DEF LimitInv
<1> DEFINE e == Head(events)
<1>1. /\ events # <<>> /\ events' = Tail(events)
      /\ UNCHANGED <<firmware, orders, batch, strays, uses, unread>>
      /\ Limit!ShowSnapshot(e) \/ Limit!ShowResult(e)
  BY DEF Limit!Show
<1>2. /\ e = events[1] /\ e \in Limit!Events /\ events' \in Seq(Limit!Events)
      /\ Elements(events) = {e} \cup Elements(events')
  BY <1>1, LimitTypes, TailIs
<1> HIDE DEF e
<1>3. /\ panel' \in Limit!Panels
      /\ \A k \in panel'.pending :
           /\ k \in panel.pending
           /\ k \in panel.awaiting => k \in panel'.awaiting
           /\ k \in panel'.awaiting \/ ~(e.show = "result" /\ e.key = k)
      /\ IF e \in ReadShots THEN panel'.obs = e.obs ELSE panel'.obs = panel.obs
  <2>1. CASE Limit!ShowSnapshot(e)
    <3> DEFINE confirmed == {k \in Limit!Drafted(panel.drafts) : panel.drafts[k] = e.obs[k]}
               pending == panel.pending \ confirmed
               resolved == pending \cap panel.awaiting
               drafts == [k \in Limit!Keys |->
                            IF k \in confirmed THEN Limit!None ELSE panel.drafts[k]]
    <3>1. e.show = "snapshot" /\ e.ok \in BOOLEAN /\ e.obs \in Limit!Shots
          /\ (e \in ReadShots <=> e.ok)
      BY <1>2, <2>1 DEF Limit!ShowSnapshot, Limit!Events, ReadShots
    <3>2. panel' = IF ~e.ok THEN [panel EXCEPT !.stale = TRUE]
                   ELSE [obs |-> e.obs, stale |-> FALSE, drafts |-> drafts,
                         pending |-> pending \ resolved,
                         awaiting |-> (panel.awaiting \ confirmed) \ resolved,
                         error |-> panel.error \/ resolved # {}]
      BY <2>1 DEF Limit!ShowSnapshot
    <3>3. drafts \in Limit!Drafts
      BY LimitTypes DEF Limit!Drafts
    <3> HIDE DEF drafts
    <3>4. CASE ~e.ok
      BY <3>1, <3>2, <3>4, LimitTypes DEF Limit!Panels
    <3>5. CASE e.ok
      <4>1. /\ pending \ resolved \subseteq Limit!Keys
            /\ (panel.awaiting \ confirmed) \ resolved \subseteq Limit!Keys
            /\ (panel.error \/ resolved # {}) \in BOOLEAN
        BY LimitTypes
      <4>2. /\ panel'.obs = e.obs /\ panel'.pending = pending \ resolved
            /\ panel'.awaiting = (panel.awaiting \ confirmed) \ resolved
        BY <3>2, <3>5
      <4>3. panel' \in Limit!Panels
        <5> HIDE DEF pending, confirmed, resolved
        <5> DEFINE error == panel.error \/ resolved # {}
        <5>1. error \in BOOLEAN
          BY <4>1
        <5>2. panel' = [obs |-> e.obs, stale |-> FALSE, drafts |-> drafts,
                         pending |-> pending \ resolved,
                         awaiting |-> (panel.awaiting \ confirmed) \ resolved,
                         error |-> error]
          BY <3>2, <3>5
        <5> HIDE DEF error
        <5> QED BY <3>1, <3>3, <4>1, <5>1, <5>2 DEF Limit!Panels
      <4> QED BY <3>1, <3>5, <4>2, <4>3
    <3> QED BY <3>1, <3>4, <3>5
  <2>2. CASE Limit!ShowResult(e)
    <3>1. e.show = "result" /\ e.key \in Limit!Keys /\ e.result \in Limit!Results
          /\ e \notin ReadShots
      BY <1>2, <2>2 DEF Limit!ShowResult, Limit!Events, ReadShots
    <3>2. CASE e.result = "applied"
      <4>1. panel' = [panel EXCEPT !.pending = @ \ {e.key}, !.awaiting = @ \ {e.key}, !.error = FALSE]
        BY <2>2, <3>2 DEF Limit!ShowResult
      <4> QED BY <3>1, <4>1, LimitTypes DEF Limit!Panels
    <3>3. CASE e.result = "timeout"
      <4>1. panel' = [panel EXCEPT !.awaiting = @ \cup {e.key}]
        BY <2>2, <3>3 DEF Limit!ShowResult
      <4> QED BY <3>1, <4>1, LimitTypes DEF Limit!Panels
    <3>4. CASE e.result = "error"
      <4>1. panel' = [panel EXCEPT !.pending = @ \ {e.key}, !.error = TRUE]
        BY <2>2, <3>4 DEF Limit!ShowResult
      <4> QED BY <3>1, <4>1, LimitTypes DEF Limit!Panels
    <3> QED BY <3>1, <3>2, <3>3, <3>4 DEF Limit!Results
  <2> QED BY <1>1, <2>1, <2>2
<1>4. Limit!LimitTypeOK'
  BY <1>1, <1>2, <1>3 DEF Limit!LimitTypeOK
<1>5. LocksOwing'
  <2> SUFFICES ASSUME NEW k \in panel'.pending, k \notin panel'.awaiting PROVE Owing(k)'
    BY DEF LocksOwing
  <2>1. Owing(k) /\ ~(e.show = "result" /\ e.key = k)
    BY <1>3, OwingIs DEF LocksOwing
  <2> QED BY <1>1, <1>2, <2>1 DEF Owing
<1>6. BatchIs'
  BY <1>1 DEF BatchIs
<1>7. NewestIsTrue'
  <2> SUFFICES ASSUME ~unread
               PROVE  /\ LastIn(events', ReadShots, {s \in ReadShots : s.obs = firmware})
                      /\ Elements(events') \cap ReadShots = {} => panel'.obs = firmware
    BY <1>1 DEF NewestIsTrue
  <2> DEFINE H == {s \in ReadShots : s.obs = firmware}
  <2>1. LastIn(events, ReadShots, H)
    BY DEF NewestIsTrue
  <2> HIDE DEF H
  <2>2. /\ LastIn(events', ReadShots, H)
        /\ e \in ReadShots /\ Elements(events') \cap ReadShots = {} => e \in H
    BY <1>1, <1>2, <2>1, LimitTypes, LastLess
  <2>3. Elements(events') \cap ReadShots = {} => panel'.obs = firmware
    <3>1. CASE e \in ReadShots
      BY <1>3, <2>2, <3>1 DEF H
    <3>2. CASE e \notin ReadShots
      BY <1>2, <1>3, <3>2 DEF NewestIsTrue
    <3> QED BY <3>1, <3>2
  <2> QED BY <2>2, <2>3 DEF H
<1> QED BY <1>4, <1>5, <1>6, <1>7, OwingNext

(* An answer: its field leaves the batch and enters the events.            *)
LEMMA LimitAnswered ==
  ASSUME LimitInv, batch.left # {}, NEW result \in Limit!Results, Limit!Answered(result)
  PROVE  /\ batch' \in Limit!Batches /\ BatchIs' /\ batch'.do = batch.do /\ batch'.at = "next"
         /\ Limit!Due \in Limit!Keys
         /\ batch.do = "apply" => batch'.left = batch.left \ {Limit!Due}
<1> USE DEF LimitInv
<1> DEFINE left == IF batch.do = "replay" /\ result # "applied"
                   THEN {} ELSE batch.left \ {Limit!Due}
           stopped == batch.stopped \/ result # "applied"
<1>1. batch' = [batch EXCEPT !.left = left, !.stopped = stopped, !.at = "next"]
  BY DEF Limit!Answered
<1>2. stopped \in BOOLEAN
  BY LimitTypes DEF Limit!Batches
<1>3. left \subseteq batch.left
  OBVIOUS
<1> HIDE DEF left, stopped
<1>4. /\ batch' \in Limit!Batches /\ batch'.do = batch.do /\ batch'.at = "next"
      /\ batch'.left = left /\ batch'.vals = batch.vals
  BY <1>1, <1>2, <1>3, LimitTypes DEF Limit!Batches, Limit!Stages
<1>5. BatchIs'
  BY <1>3, <1>4 DEF BatchIs
<1>6. Limit!Due \in Limit!Keys
  BY LimitTypes, DueIs
<1> QED BY <1>4, <1>5, <1>6 DEF left

(* A step that answers the field in turn, and nothing else of the locks.   *)
LEMMA AnsweredInv ==
  ASSUME LimitInv, batch.left # {}, NEW result \in Limit!Results, Limit!Answered(result),
         batch.at # "idle",
         NEW s \in Seq(Limit!Events), Elements(events) \subseteq Elements(s),
         events' = Append(s, Limit!Result(Limit!Due, result)),
         firmware' \in Limit!Shots, strays' \subseteq Limit!Keys \X Watts, unread' \in BOOLEAN,
         uses' \in UseTypes, UNCHANGED <<panel, orders>>,
         ~unread' => /\ LastIn(s, ReadShots, {e \in ReadShots : e.obs = firmware'})
                     /\ Elements(s) \cap ReadShots = {} => panel.obs = firmware'
  PROVE  LimitInv'
<1> USE DEF LimitInv
<1> DEFINE r == Limit!Result(Limit!Due, result)
           H == {e \in ReadShots : e.obs = firmware'}
<1>1. /\ batch' \in Limit!Batches /\ BatchIs' /\ batch'.do = batch.do /\ batch'.at = "next"
      /\ Limit!Due \in Limit!Keys
      /\ batch.do = "apply" => batch'.left = batch.left \ {Limit!Due}
  BY LimitAnswered
<1>2. /\ r \in Limit!Events /\ r.show = "result" /\ r.key = Limit!Due /\ r \notin ReadShots
  BY <1>1, EventsAre
<1> HIDE DEF r, H
<1>3. events' = Append(s, r)
  BY DEF r
<1>4. events' \in Seq(Limit!Events) /\ Elements(events') = Elements(s) \cup {r}
  BY <1>2, <1>3, AppendIs
<1>5. Limit!LimitTypeOK'
  BY <1>1, <1>4, LimitTypes DEF Limit!LimitTypeOK, UseTypes
<1>6. LocksOwing'
  <2> SUFFICES ASSUME NEW k \in panel.pending, k \notin panel.awaiting PROVE Owing(k)'
    BY DEF LocksOwing
  <2>1. Owing(k)
    BY OwingIs DEF LocksOwing
  <2>2. CASE batch.do = "apply" /\ k \in batch.left
    <3>1. CASE k = Limit!Due
      BY <1>2, <1>4, <3>1 DEF Owing
    <3>2. CASE k # Limit!Due
      BY <1>1, <2>2, <3>2 DEF Owing
    <3> QED BY <3>1, <3>2
  <2>3. CASE \/ \E o \in Elements(orders) : o.do = "apply" /\ o.vals[k] # Limit!None
             \/ \E e \in Elements(events) : e.show = "result" /\ e.key = k
    BY <1>4, <2>3 DEF Owing
  <2> QED BY <2>1, <2>2, <2>3 DEF Owing
<1>7. NewestIsTrue'
  <2> SUFFICES ASSUME ~unread'
               PROVE  /\ LastIn(events', ReadShots, H)
                      /\ Elements(events') \cap ReadShots = {} => panel.obs = firmware'
    BY DEF NewestIsTrue, H
  <2>1. LastIn(s, ReadShots, H) /\ (Elements(s) \cap ReadShots = {} => panel.obs = firmware')
    BY DEF H
  <2>2. LastIn(Append(s, r), ReadShots, H)
    BY <1>2, <2>1, LastMore
  <2> QED BY <1>2, <1>3, <1>4, <2>1, <2>2
<1> QED BY <1>1, <1>5, <1>6, <1>7, OwingNext

(* A step that tells nothing and leaves the locks and the firmware alone.  *)
LEMMA StillInv ==
  ASSUME LimitInv, UNCHANGED <<firmware, panel, orders, events, strays, unread>>,
         uses' \in UseTypes, batch' \in Limit!Batches, BatchIs',
         \A k \in Limit!Keys : batch.do = "apply" /\ batch.at # "idle" /\ k \in batch.left =>
                                 batch'.do = "apply" /\ batch'.at # "idle" /\ k \in batch'.left
  PROVE  LimitInv'
<1> USE DEF LimitInv
<1>1. Limit!LimitTypeOK' /\ NewestIsTrue'
  BY DEF Limit!LimitTypeOK, UseTypes, NewestIsTrue
<1>2. LocksOwing'
  BY OwingIs, LimitTypes DEF LocksOwing, Owing
<1> QED BY <1>1, <1>2, OwingNext

LEMMA UnreadInv ==
  ASSUME LimitInv, UNCHANGED <<panel, events>>, unread' = TRUE,
         firmware' \in Limit!Shots, strays' \subseteq Limit!Keys \X Watts,
         uses' \in UseTypes, batch' \in Limit!Batches, BatchIs',
         orders' \in Seq(Limit!Orders), Elements(orders) \subseteq Elements(orders'),
         \A k \in Limit!Keys : batch.do = "apply" /\ batch.at # "idle" /\ k \in batch.left =>
                                 batch'.do = "apply" /\ batch'.at # "idle" /\ k \in batch'.left
  PROVE  LimitInv'
<1> USE DEF LimitInv
<1>1. Limit!LimitTypeOK' /\ NewestIsTrue'
  BY DEF Limit!LimitTypeOK, UseTypes, NewestIsTrue
<1>2. LocksOwing'
  BY OwingIs, LimitTypes DEF LocksOwing, Owing
<1> QED BY <1>1, <1>2, OwingNext

LEMMA LimitNextInv == LimitInv /\ Limit!Next => LimitInv'
<1> SUFFICES ASSUME LimitInv, Limit!Next PROVE LimitInv'
  OBVIOUS
<1> USE DEF LimitInv
<1>1. uses \in UseTypes /\ firmware \in Limit!Shots /\ strays \subseteq Limit!Keys \X Watts
      /\ unread \in BOOLEAN
  BY DEF Limit!LimitTypeOK, UseTypes
<1>2. CASE Limit!Take
  <2> DEFINE o == Head(orders)
  <2>1. /\ o \in Limit!Orders /\ orders' \in Seq(Limit!Orders)
        /\ Elements(orders) = {o} \cup Elements(orders')
    BY <1>2, LimitTypes, TailIs DEF Limit!Take
  <2>2. o.do \in {"refresh", "apply", "replay"} /\ o.vals \in Limit!Drafts /\ o.seen \in Limit!Shots
        /\ Limit!Drafted(o.vals) \subseteq Limit!Keys
    BY <2>1 DEF Limit!Orders, Limit!Drafted
  <2>3. /\ batch.at = "idle" /\ UNCHANGED <<firmware, panel, events, strays, uses, unread>>
        /\ batch' = [batch EXCEPT !.do = o.do, !.at = "next", !.vals = o.vals, !.seen = o.seen,
                       !.left = Limit!Drafted(o.vals),
                       !.checked = o.do # "apply", !.stopped = FALSE, !.result = "applied"]
    BY <1>2 DEF Limit!Take
  <2> HIDE DEF o
  <2>4. /\ batch' \in Limit!Batches /\ batch'.do = o.do /\ batch'.at = "next"
        /\ batch'.left = Limit!Drafted(o.vals) /\ batch'.vals = o.vals
    BY <2>2, <2>3, LimitTypes DEF Limit!Batches, Limit!Stages, Limit!Results
  <2>5. Limit!LimitTypeOK'
    BY <2>1, <2>3, <2>4 DEF Limit!LimitTypeOK
  <2>6. BatchIs' /\ NewestIsTrue'
    BY <2>3, <2>4 DEF BatchIs, NewestIsTrue
  <2>7. LocksOwing'
    <3> SUFFICES ASSUME NEW k \in panel.pending, k \notin panel.awaiting PROVE Owing(k)'
      BY <2>3 DEF LocksOwing
    <3>1. Owing(k) /\ k \in Limit!Keys
      BY OwingIs, LimitTypes DEF LocksOwing
    <3>2. CASE o.do = "apply" /\ o.vals[k] # Limit!None
      BY <2>4, <3>1, <3>2 DEF Owing, Limit!Drafted
    <3> QED BY <2>1, <2>3, <3>1, <3>2 DEF Owing
  <2> QED BY <2>5, <2>6, <2>7, OwingNext
<1>3. CASE Limit!Rest
  <2>1. batch' \in Limit!Batches /\ batch'.left = batch.left /\ batch'.vals = batch.vals
        /\ batch'.at = "idle" /\ batch.left = {}
        /\ UNCHANGED <<firmware, panel, orders, events, strays, uses, unread>>
    BY <1>3, LimitTypes DEF Limit!Rest, Limit!Batches, Limit!Stages
  <2>2. BatchIs'
    BY <2>1 DEF BatchIs
  <2> QED BY <1>1, <2>1, <2>2, StillInv
<1>4. CASE Limit!Look
  <2>1. batch' \in Limit!Batches /\ batch'.left = batch.left /\ batch'.vals = batch.vals
        /\ batch'.do = batch.do /\ batch'.at = "write" /\ batch.left # {}
        /\ UNCHANGED <<firmware, panel, orders, events, strays, uses, unread>>
    BY <1>4, LimitTypes DEF Limit!Look, Limit!Batches, Limit!Stages
  <2>2. BatchIs'
    BY <2>1 DEF BatchIs
  <2> QED BY <1>1, <2>1, <2>2, StillInv
<1>5. CASE Limit!Skip \/ Limit!Conflict
  <2>1. /\ batch.left # {} /\ batch.at # "idle" /\ "error" \in Limit!Results /\ Limit!Answered("error")
        /\ events' = Append(events, Limit!Result(Limit!Due, "error"))
        /\ UNCHANGED <<firmware, panel, orders, strays, uses, unread>>
    BY <1>5 DEF Limit!Skip, Limit!Conflict, Limit!Results
  <2>2. events \in Seq(Limit!Events)
    BY LimitTypes
  <2>3. ~unread => /\ LastIn(events, ReadShots, {e \in ReadShots : e.obs = firmware})
                   /\ Elements(events) \cap ReadShots = {} => panel.obs = firmware
    BY DEF NewestIsTrue
  <2> QED BY <1>1, <2>1, <2>2, <2>3, AnsweredInv
<1>6. ASSUME Limit!Written, batch.at = "write" PROVE firmware' \in Limit!Shots /\ unread' = TRUE
  <2>1. Limit!Due \in batch.left /\ Limit!Due \in Limit!Keys
    BY <1>6, LimitTypes, DueIs DEF BatchIs
  <2>2. batch.vals[Limit!Due] \in Watts
    BY <2>1, LimitTypes DEF BatchIs, Limit!Drafted, Limit!Drafts
  <2> QED BY <1>1, <1>6, <2>1, <2>2 DEF Limit!Written, Limit!Shots
<1>7. ASSUME batch.at = "write"
      PROVE  /\ batch.left # {} /\ Limit!Due \in Limit!Keys /\ batch.vals[Limit!Due] \in Watts
  <2>1. Limit!Due \in batch.left /\ Limit!Due \in Limit!Keys
    BY <1>7, LimitTypes, DueIs DEF BatchIs
  <2> QED BY <1>7, <2>1, LimitTypes DEF BatchIs, Limit!Drafted, Limit!Drafts
<1>8. CASE Limit!Write
  <2>1. batch' \in Limit!Batches /\ batch'.left = batch.left /\ batch'.vals = batch.vals
        /\ batch'.do = batch.do /\ batch'.at = "back" /\ batch.left # {}
        /\ UNCHANGED <<panel, orders, events, strays, uses>>
        /\ firmware' \in Limit!Shots /\ unread' = TRUE
    BY <1>6, <1>7, <1>8, LimitTypes DEF Limit!Write, Limit!Batches, Limit!Stages, Limit!Results
  <2>2. BatchIs'
    BY <2>1 DEF BatchIs
  <2> QED BY <1>1, <2>1, <2>2, LimitTypes, UnreadInv
<1>9. CASE Limit!TimeOut
  <2>1. batch' \in Limit!Batches /\ batch'.left = batch.left /\ batch'.vals = batch.vals
        /\ batch'.do = batch.do /\ batch'.at = "back" /\ batch.left # {}
        /\ UNCHANGED <<panel, orders, events>>
    BY <1>7, <1>9, LimitTypes DEF Limit!TimeOut, Limit!Batches, Limit!Stages, Limit!Results
  <2>2. BatchIs'
    BY <2>1 DEF BatchIs
  <2>3. uses' \in UseTypes
    BY <1>1, <1>9, LimitUses DEF Limit!TimeOut
  <2>4. CASE Limit!Written /\ UNCHANGED strays
    BY <1>1, <1>6, <1>9, <2>1, <2>2, <2>3, <2>4, LimitTypes, UnreadInv DEF Limit!TimeOut
  <2>5. CASE /\ strays' = strays \cup {<<Limit!Due, batch.vals[Limit!Due]>>}
             /\ UNCHANGED <<firmware, unread>>
    <3>1. strays' \subseteq Limit!Keys \X Watts
      BY <1>1, <1>7, <1>9, <2>5 DEF Limit!TimeOut
    <3>2. Limit!LimitTypeOK' /\ NewestIsTrue'
      BY <2>1, <2>3, <2>5, <3>1 DEF Limit!LimitTypeOK, UseTypes, NewestIsTrue
    <3>3. LocksOwing'
      BY <1>9, <2>1, OwingIs DEF LocksOwing, Owing, Limit!TimeOut
    <3> QED BY <2>2, <3>2, <3>3, OwingNext
  <2> QED BY <1>9, <2>4, <2>5 DEF Limit!TimeOut
<1>10. CASE Limit!Refused
  <2>1. /\ batch.left # {} /\ batch.at # "idle" /\ "error" \in Limit!Results /\ Limit!Answered("error")
        /\ events' = Append(events, Limit!Result(Limit!Due, "error"))
        /\ UNCHANGED <<panel, orders, strays>>
    BY <1>7, <1>10 DEF Limit!Refused, Limit!Results
  <2>2. events \in Seq(Limit!Events) /\ uses' \in UseTypes
    BY <1>1, <1>10, LimitTypes, LimitUses DEF Limit!Refused
  <2>3. /\ firmware' \in Limit!Shots /\ unread' \in BOOLEAN
        /\ unread' \/ (firmware' = firmware /\ unread' = unread)
    <3>1. CASE UNCHANGED <<firmware, unread>>
      BY <1>1, <3>1
    <3>2. ASSUME NEW w \in Watts, firmware' = [firmware EXCEPT ![Limit!Due] = w], unread' = TRUE
          PROVE  firmware' \in Limit!Shots
      BY <1>1, <3>2 DEF Limit!Shots
    <3> QED BY <1>10, <3>1, <3>2 DEF Limit!Refused
  <2>4. ~unread' => /\ LastIn(events, ReadShots, {e \in ReadShots : e.obs = firmware'})
                    /\ Elements(events) \cap ReadShots = {} => panel.obs = firmware'
    BY <2>3 DEF NewestIsTrue
  <2> QED BY <1>1, <2>1, <2>2, <2>3, <2>4, AnsweredInv
<1>11. ASSUME NEW ok \in BOOLEAN,
              unread' = (unread /\ ~ok), UNCHANGED firmware
       PROVE  /\ Append(events, Limit!Snapshot(ok)) \in Seq(Limit!Events)
              /\ Elements(Append(events, Limit!Snapshot(ok))) = Elements(events) \cup {Limit!Snapshot(ok)}
              /\ unread' \in BOOLEAN
              /\ ~unread' =>
                   /\ LastIn(Append(events, Limit!Snapshot(ok)), ReadShots,
                             {e \in ReadShots : e.obs = firmware'})
                   /\ Elements(Append(events, Limit!Snapshot(ok))) \cap ReadShots = {} =>
                        panel.obs = firmware'
  <2> DEFINE e == Limit!Snapshot(ok)
             H == {x \in ReadShots : x.obs = firmware'}
  <2>1. e \in Limit!Events /\ (e \in ReadShots <=> ok) /\ e.obs = firmware'
    BY <1>11, EventsAre
  <2>2. e \in ReadShots => e \in H
    BY <2>1
  <2>3. ~unread' /\ e \notin ReadShots => /\ LastIn(events, ReadShots, H)
                                          /\ Elements(events) \cap ReadShots = {} => panel.obs = firmware'
    BY <1>11, <2>1 DEF NewestIsTrue
  <2> HIDE DEF e, H
  <2>4. Append(events, e) \in Seq(Limit!Events) /\ Elements(Append(events, e)) = Elements(events) \cup {e}
    BY <2>1, LimitTypes, AppendIs
  <2>5. ~unread' => LastIn(Append(events, e), ReadShots, H)
    BY <2>1, <2>2, <2>3, LimitTypes, LastMore
  <2>6. ~unread' => (Elements(Append(events, e)) \cap ReadShots = {} => panel.obs = firmware')
    BY <2>1, <2>2, <2>3, <2>4
  <2>7. unread' \in BOOLEAN
    BY <1>1, <1>11
  <2> QED BY <2>4, <2>5, <2>6, <2>7 DEF e, H
<1>12. ASSUME NEW ok \in BOOLEAN, Limit!Refresh(ok) PROVE LimitInv'
  <2> DEFINE e == Limit!Snapshot(ok)
             H == {x \in ReadShots : x.obs = firmware'}
  <2>1. /\ unread' = (unread /\ ~ok) /\ UNCHANGED <<panel, orders, strays, firmware>>
        /\ events' = Append(events, e)
        /\ batch' = [batch EXCEPT !.at = "idle"] /\ batch.do = "refresh"
    BY <1>12 DEF Limit!Refresh
  <2>2. /\ events' \in Seq(Limit!Events) /\ Elements(events') = Elements(events) \cup {e}
        /\ unread' \in BOOLEAN
        /\ ~unread' => /\ LastIn(events', ReadShots, H)
                       /\ Elements(events') \cap ReadShots = {} => panel.obs = firmware'
    BY <1>11, <2>1
  <2>3. uses' \in UseTypes
    BY <1>1, <1>12, LimitUses DEF Limit!Refresh
  <2>4. batch' \in Limit!Batches /\ batch'.at = "idle" /\ batch'.left = batch.left
        /\ batch'.vals = batch.vals
    BY <2>1, LimitTypes DEF Limit!Batches, Limit!Stages
  <2>5. Limit!LimitTypeOK' /\ BatchIs'
    BY <2>1, <2>2, <2>3, <2>4 DEF Limit!LimitTypeOK, UseTypes, BatchIs
  <2>6. NewestIsTrue'
    BY <2>1, <2>2 DEF NewestIsTrue
  <2>7. LocksOwing'
    BY <2>1, <2>2, OwingIs DEF LocksOwing, Owing
  <2> QED BY <2>5, <2>6, <2>7, OwingNext
<1>13. ASSUME NEW ok \in BOOLEAN, Limit!ReadBack(ok) PROVE LimitInv'
  <2> DEFINE s == Append(events, Limit!Snapshot(ok))
             r == Limit!Result(Limit!Due, batch.result)
  <2>1. /\ unread' = (unread /\ ~ok) /\ UNCHANGED <<panel, orders, strays, firmware>>
        /\ events' = events \o <<Limit!Snapshot(ok), r>>
        /\ Limit!Answered(batch.result) /\ batch.at = "back"
    BY <1>13 DEF Limit!ReadBack
  <2>2. batch.left # {} /\ batch.result \in Limit!Results
    BY <2>1, LimitTypes DEF BatchIs, Limit!Batches
  <2>3. Limit!Due \in Limit!Keys
    BY <2>2, LimitTypes, DueIs
  <2>4. Limit!Snapshot(ok) \in Limit!Events /\ r \in Limit!Events
    BY <2>2, <2>3, EventsAre
  <2>5. events' = Append(s, r)
    BY <2>1, <2>4, LimitTypes, ConcatTwo
  <2>6. /\ s \in Seq(Limit!Events) /\ Elements(events) \subseteq Elements(s)
        /\ unread' \in BOOLEAN
        /\ ~unread' =>
             /\ LastIn(s, ReadShots, {e \in ReadShots : e.obs = firmware'})
             /\ Elements(s) \cap ReadShots = {} => panel.obs = firmware'
    BY <1>11, <2>1
  <2>7. uses' \in UseTypes
    BY <1>1, <1>13, LimitUses DEF Limit!ReadBack
  <2> HIDE DEF s
  <2>8. firmware' \in Limit!Shots /\ strays' \subseteq Limit!Keys \X Watts
    BY <1>1, <2>1
  <2> QED BY <2>1, <2>2, <2>5, <2>6, <2>7, <2>8, AnsweredInv
<1>14. CASE Limit!Lands
  <2>1. PICK w \in strays : /\ strays' = strays \ {w}
                            /\ firmware' = [firmware EXCEPT ![w[1]] = w[2]]
                            /\ unread' = TRUE /\ UNCHANGED <<panel, orders, batch, events, uses>>
    BY <1>14 DEF Limit!Lands
  <2>2. w[1] \in Limit!Keys /\ w[2] \in Watts
    BY <1>1
  <2>3. firmware' \in Limit!Shots /\ strays' \subseteq Limit!Keys \X Watts
    BY <1>1, <2>1, <2>2 DEF Limit!Shots
  <2>4. BatchIs'
    BY <2>1 DEF BatchIs
  <2> QED BY <1>1, <2>1, <2>3, <2>4, LimitTypes, UnreadInv
<1>15. ASSUME NEW w \in Watts, NEW saved \in Limit!Drafts,
              Limit!Switch([k \in Limit!Keys |-> w], saved)
       PROVE  LimitInv'
  <2> DEFINE limits == [k \in Limit!Keys |-> w]
             o == [do |-> "replay", vals |-> saved, seen |-> limits]
  <2>1. /\ firmware' = limits /\ unread' = TRUE /\ UNCHANGED <<panel, batch, events, strays>>
        /\ orders' = IF saved = Limit!NoDrafts THEN orders ELSE Append(orders, o)
    BY <1>15 DEF Limit!Switch
  <2>2. limits \in Limit!Shots
    BY DEF Limit!Shots
  <2>3. o \in Limit!Orders
    BY <2>2 DEF Limit!Orders
  <2> HIDE DEF limits, o
  <2>4. orders' \in Seq(Limit!Orders) /\ Elements(orders) \subseteq Elements(orders')
    BY <2>1, <2>3, LimitTypes, AppendIs
  <2>5. uses' \in UseTypes
    BY <1>1, <1>15, LimitUses DEF Limit!Switch
  <2>6. BatchIs'
    BY <2>1 DEF BatchIs
  <2> QED BY <1>1, <2>1, <2>2, <2>4, <2>5, <2>6, LimitTypes, UnreadInv
<1> QED BY <1>2, <1>3, <1>4, <1>5, <1>8, <1>9, <1>10, <1>12, <1>13, <1>14, <1>15,
           DraftInv, LimitApplyInv, LimitShowInv
        DEF Limit!Next

LEMMA LimitPromises == LimitInv => Limit!ShownIsInForce /\ Limit!LockIsOwed
BY EmptyIs DEF LimitInv, NewestIsTrue, Limit!ShownIsInForce

-----------------------------------------------------------------------------
(* MainCards.                                                              *)

(* The outcomes a card knows: an answer is never absent, and only a mixed  *)
(* queue, which only the GPU has, is read as unknown.                      *)
OutcomesAre ==
  /\ machine.half => Card!Gpu
  /\ \A p \in Elements(posts) : /\ p.do = "set" => p.how # "absent"
                                /\ p.do = "refresh" /\ ~Card!Gpu => p.how # "unknown"

(* Unless the machine changed unread, the newest value to come, or an open *)
(* card when none is, shows what is in force and queued.                   *)
Told == [do : {"refresh", "set"}, how : {"ok"},
         now : Choices, queued : Choices \cup {Card!Nothing}]
ShownIsTrue ==
  /\ card.shown = machine.now
  /\ Card!Gpu => {card.queued, card.shown, Card!Nothing} =
                   {machine.queued, machine.now, Card!Nothing}
NewestIsShown ==
  ~unseen =>
    /\ ~machine.half
    /\ LastIn(posts, Told, {p \in Told : p.now = machine.now /\ p.queued = machine.queued})
    /\ Elements(posts) \cap Told = {} /\ card.ready => ShownIsTrue

(* The charge limit and the GPU are pending only while a set is to be      *)
(* answered; the error of a limit that can be read, while a read is.       *)
CardOwes(do) == \E x \in Elements(asks) \cup Elements(posts) : x.do = do
LocksOwe ==
  /\ card.pending /\ ~Card!Performance => CardOwes("set")
  /\ Card!Charge /\ card.ready /\ (card.error \/ card.unconfirmed) => CardOwes("refresh")

CardInv == Card!CardTypeOK /\ OutcomesAre /\ NewestIsShown /\ LocksOwe

LEMMA CardTypes ==
  ASSUME Card!CardTypeOK
  PROVE  /\ asks \in Seq(Card!Asks) /\ posts \in Seq(Card!Posts)
         /\ card \in Card!Cards /\ unseen \in BOOLEAN
         /\ card.kind \in Card!Kinds /\ card.shown \in Choices
         /\ card.queued \in Choices \cup {Card!Nothing}
         /\ card.ready \in BOOLEAN /\ card.writable \in BOOLEAN /\ card.pending \in BOOLEAN
         /\ card.unconfirmed \in BOOLEAN /\ card.error \in BOOLEAN
         /\ machine.now \in Choices /\ machine.queued \in Choices \cup {Card!Nothing}
         /\ machine.half \in BOOLEAN
         /\ machine \in [now : Choices, queued : Choices \cup {Card!Nothing}, half : BOOLEAN]
BY DEF Card!CardTypeOK, Card!Cards

SpentTypes == [clicks : 0 .. MaxClicks, others : 0 .. MaxOthers, misses : 0 .. MaxMisses]

LEMMA CardSpent ==
  ASSUME spent \in SpentTypes
  PROVE  /\ Card!Miss => spent' \in SpentTypes
         /\ Card!Other => spent' \in SpentTypes
         /\ spent.clicks < MaxClicks /\ spent' = [spent EXCEPT !.clicks = @ + 1]
              => spent' \in SpentTypes
<1>1. MaxClicks \in Nat /\ MaxOthers \in Nat /\ MaxMisses \in Nat
  BY CountsAssumption
<1>2. ASSUME Card!Miss PROVE spent' \in SpentTypes
  BY <1>1, <1>2 DEF Card!Miss, SpentTypes
<1>3. ASSUME Card!Other PROVE spent' \in SpentTypes
  BY <1>1, <1>3 DEF Card!Other, SpentTypes
<1>4. ASSUME spent.clicks < MaxClicks, spent' = [spent EXCEPT !.clicks = @ + 1]
      PROVE  spent' \in SpentTypes
  BY <1>1, <1>4 DEF SpentTypes
<1> QED BY <1>2, <1>3, <1>4

LEMMA RefreshIs == Card!CardTypeOK => Card!Refresh \in Card!Asks /\ Card!Refresh.do = "refresh"
BY CardTypes DEF Card!Refresh, Card!Asks

(* What is owed, by positions.                                             *)
LEMMA CardOwedIs ==
  ASSUME Card!CardTypeOK, NEW do
  PROVE  Card!Owed(do) <=> CardOwes(do)
<1>1. DOMAIN asks = 1 .. Len(asks) /\ DOMAIN posts = 1 .. Len(posts)
  BY CardTypes
<1>2. (\E i \in DOMAIN asks : asks[i].do = do) <=> (\E x \in Elements(asks) : x.do = do)
  BY <1>1 DEF Elements
<1>3. (\E i \in DOMAIN posts : posts[i].do = do) <=> (\E x \in Elements(posts) : x.do = do)
  BY <1>1 DEF Elements
<1> QED BY <1>2, <1>3 DEF Card!Owed, CardOwes

LEMMA CardInitInv == Card!Init => CardInv
<1> SUFFICES ASSUME Card!Init PROVE CardInv
  OBVIOUS
<1>1. /\ machine \in [now : Choices, queued : Choices \cup {Card!Nothing}, half : BOOLEAN]
      /\ machine.half = FALSE
  BY DEF Card!Init
<1>2. /\ card \in Card!Cards /\ card.ready = FALSE /\ card.pending = FALSE
  BY DEF Card!Init, Card!Cards
<1>3. Card!Refresh \in Card!Asks
  BY <1>1 DEF Card!Refresh, Card!Asks
<1>4. asks \in Seq(Card!Asks) /\ posts \in Seq(Card!Posts) /\ posts = <<>> /\ Elements(posts) = {}
  BY <1>3, EmptyIs DEF Card!Init
<1>5. spent \in SpentTypes /\ unseen = FALSE
  BY CountsAssumption DEF Card!Init, SpentTypes
<1>6. Card!CardTypeOK
  BY <1>1, <1>2, <1>4, <1>5 DEF Card!CardTypeOK, SpentTypes
<1>7. OutcomesAre /\ LocksOwe
  BY <1>1, <1>2, <1>4 DEF OutcomesAre, LocksOwe
<1>8. NewestIsShown
  BY <1>1, <1>2, <1>4 DEF NewestIsShown, LastIn
<1> QED BY <1>6, <1>7, <1>8 DEF CardInv

(* One more post: it is true of the machine if it tells of it, and nothing *)
(* changed if it does not.                                                 *)
LEMMA PostedInv ==
  ASSUME CardInv, NEW p \in Card!Posts, posts' = Append(posts, p), UNCHANGED card,
         asks' \in Seq(Card!Asks), unseen' \in BOOLEAN, spent' \in SpentTypes,
         machine' \in [now : Choices, queued : Choices \cup {Card!Nothing}, half : BOOLEAN],
         p.do = "set" => p.how # "absent",
         p.do = "refresh" /\ ~Card!Gpu => p.how # "unknown", machine'.half => Card!Gpu,
         ~unseen' /\ p \in Told =>
           machine'.half = FALSE /\ p.now = machine'.now /\ p.queued = machine'.queued,
         ~unseen' /\ p \notin Told => ~unseen /\ UNCHANGED machine,
         \A x \in Elements(asks) : x \in Elements(asks') \/ x.do = p.do
  PROVE  CardInv'
<1> USE DEF CardInv
<1>1. posts' \in Seq(Card!Posts) /\ Elements(posts') = Elements(posts) \cup {p}
  BY CardTypes, AppendIs
<1>2. Card!CardTypeOK'
  BY <1>1 DEF Card!CardTypeOK, SpentTypes
<1>3. OutcomesAre'
  BY <1>1 DEF OutcomesAre, Card!Gpu
<1>4. NewestIsShown'
  <2> DEFINE H == {q \in Told : q.now = machine'.now /\ q.queued = machine'.queued}
  <2> SUFFICES ASSUME ~unseen'
               PROVE  /\ ~machine'.half /\ LastIn(posts', Told, H)
                      /\ Elements(posts') \cap Told = {} /\ card'.ready => ShownIsTrue'
    BY DEF NewestIsShown
  <2>1. p \in Told => p \in H
    OBVIOUS
  <2>2. p \notin Told => LastIn(posts, Told, H)
    BY DEF NewestIsShown
  <2>3. machine'.half = FALSE
    BY CardTypes DEF NewestIsShown
  <2> HIDE DEF H
  <2>4. LastIn(posts', Told, H)
    BY <2>1, <2>2, CardTypes, LastMore
  <2>5. Elements(posts') \cap Told = {} /\ card'.ready => ShownIsTrue'
    BY <1>1 DEF NewestIsShown, ShownIsTrue, Card!Gpu
  <2> QED BY <2>3, <2>4, <2>5
<1>5. \A do : CardOwes(do) => CardOwes(do)'
  BY <1>1 DEF CardOwes
<1>6. LocksOwe'
  BY <1>5 DEF LocksOwe, Card!Performance, Card!Charge
<1> QED BY <1>2, <1>3, <1>4, <1>6

LEMMA CardShows ==
  ASSUME CardInv, NEW p \in Card!Posts, p \in Elements(posts),
         \/ Card!ShowPerformance(p) \/ Card!ShowPerformanceRead(p)
         \/ Card!ShowCharge(p) \/ Card!ShowChargeRead(p)
         \/ Card!ShowGpu(p) \/ Card!ShowGpuRead(p)
         \/ Card!ShowRegistry(p)
  PROVE  /\ card' \in Card!Cards /\ card'.kind = card.kind
         /\ asks' \in Seq(Card!Asks) /\ Elements(asks) \subseteq Elements(asks')
         /\ p \in Told =>
              /\ card'.shown = p.now
              /\ Card!Gpu => {card'.queued, card'.shown, Card!Nothing} =
                               {p.queued, p.now, Card!Nothing}
         /\ p \notin Told /\ card'.ready =>
              card.ready /\ card'.shown = card.shown /\ card'.queued = card.queued
         /\ card'.pending /\ ~Card!Performance => card.pending /\ p.do # "set"
         /\ Card!Charge /\ card'.ready /\ (card'.error \/ card'.unconfirmed) =>
              \/ card.ready /\ (card.error \/ card.unconfirmed) /\ p.do # "refresh"
              \/ \E x \in Elements(asks') : x.do = "refresh"
<1> USE DEF CardInv
<1>1. /\ p.how \in {"ok", "error", "unknown", "absent"} /\ p.now \in Choices
      /\ p.queued \in Choices \cup {Card!Nothing}
      /\ p \in Told <=> p.do \in {"refresh", "set"} /\ p.how = "ok"
      /\ p.do = "set" => p.how # "absent"
      /\ p.do = "refresh" /\ ~Card!Gpu => p.how # "unknown"
  <2>1. /\ p.how \in {"ok", "error", "unknown", "absent"} /\ p.now \in Choices
        /\ p.queued \in Choices \cup {Card!Nothing}
    BY DEF Card!Posts
  <2>2. p \in Told <=> p.do \in {"refresh", "set"} /\ p.how = "ok"
    BY DEF Card!Posts, Told
  <2>3. /\ p.do = "set" => p.how # "absent"
        /\ p.do = "refresh" /\ ~Card!Gpu => p.how # "unknown"
    BY DEF OutcomesAre
  <2> QED BY <2>1, <2>2, <2>3
<1>2. /\ Append(asks, Card!Refresh) \in Seq(Card!Asks)
      /\ Elements(Append(asks, Card!Refresh)) = Elements(asks) \cup {Card!Refresh}
      /\ Card!Refresh.do = "refresh"
  BY CardTypes, RefreshIs, AppendIs
<1>3. asks \in Seq(Card!Asks)
  BY CardTypes
<1> USE DEF Card!Cards
<1>4. CASE Card!ShowPerformance(p)
  BY <1>1, <1>3, <1>4, CardTypes DEF Card!ShowPerformance, Card!Performance, Card!Charge, Card!Gpu
<1>5. CASE Card!ShowPerformanceRead(p)
  BY <1>1, <1>3, <1>5, CardTypes DEF Card!ShowPerformanceRead, Card!Performance, Card!Charge, Card!Gpu
<1>6. CASE Card!ShowCharge(p)
  <2>1. /\ p.do = "set" /\ ~Card!Gpu
        /\ asks' = IF p.how = "ok" THEN asks ELSE Append(asks, Card!Refresh)
        /\ p.how \in {"ok", "error", "unknown"}
    BY <1>1, <1>6 DEF Card!ShowCharge, Card!Charge, Card!Gpu
  <2>2. /\ asks' \in Seq(Card!Asks) /\ Elements(asks) \subseteq Elements(asks')
        /\ p.how # "ok" => \E x \in Elements(asks') : x.do = "refresh"
    BY <1>2, <1>3, <2>1
  <2>3. CASE p.how = "ok"
    <3>1. card' = [card EXCEPT !.shown = p.now, !.pending = FALSE, !.unconfirmed = FALSE,
                               !.error = FALSE]
      BY <1>6, <2>3 DEF Card!ShowCharge, Card!ChargeAnswered
    <3> QED BY <1>1, <2>1, <2>2, <2>3, <3>1, CardTypes
  <2>4. CASE p.how = "error"
    <3>1. card' = [card EXCEPT !.pending = FALSE, !.unconfirmed = FALSE, !.error = TRUE]
      BY <1>6, <2>4 DEF Card!ShowCharge, Card!ChargeAnswered
    <3>2. card' \in Card!Cards /\ card'.kind = card.kind /\ card'.pending = FALSE
          /\ card'.ready = card.ready /\ card'.shown = card.shown /\ card'.queued = card.queued
      BY <3>1, CardTypes
    <3>3. p.how # "ok"
      BY <2>4
    <3>4. p \notin Told
      BY <1>1, <3>3
    <3>5. \E x \in Elements(asks') : x.do = "refresh"
      BY <2>2, <3>3
    <3> QED BY <2>2, <3>2, <3>4, <3>5
  <2>5. CASE p.how = "unknown"
    <3>1. card' = [card EXCEPT !.pending = FALSE, !.unconfirmed = TRUE, !.error = FALSE]
      BY <1>6, <2>5 DEF Card!ShowCharge, Card!ChargeAnswered
    <3>2. card' \in Card!Cards /\ card'.kind = card.kind /\ card'.pending = FALSE
          /\ card'.ready = card.ready /\ card'.shown = card.shown /\ card'.queued = card.queued
      BY <3>1, CardTypes
    <3>3. p.how # "ok"
      BY <2>5
    <3>4. p \notin Told
      BY <1>1, <3>3
    <3>5. \E x \in Elements(asks') : x.do = "refresh"
      BY <2>2, <3>3
    <3> QED BY <2>2, <3>2, <3>4, <3>5
  <2> QED BY <2>1, <2>3, <2>4, <2>5
<1>7. CASE Card!ShowChargeRead(p)
  BY <1>1, <1>3, <1>7, CardTypes DEF Card!ShowChargeRead, Card!Performance, Card!Charge, Card!Gpu
<1>8. CASE Card!ShowGpu(p)
  <2>1. /\ p.do = "set" /\ Card!Gpu /\ ~Card!Charge
        /\ asks' = IF p.how = "ok" THEN asks ELSE Append(asks, Card!Refresh)
    BY <1>8 DEF Card!ShowGpu, Card!Charge, Card!Gpu
  <2>2. asks' \in Seq(Card!Asks) /\ Elements(asks) \subseteq Elements(asks')
    BY <1>2, <1>3, <2>1
  <2>3. CASE p.how = "ok"
    <3>1. card' = [card EXCEPT !.shown = p.now, !.queued = p.queued, !.pending = FALSE,
                               !.writable = p.queued # p.now, !.error = p.queued = p.now]
      BY <1>8, <2>3 DEF Card!ShowGpu
    <3> QED BY <1>1, <2>1, <2>2, <2>3, <3>1, CardTypes
  <2>4. CASE p.how # "ok"
    <3>1. card' = [card EXCEPT !.pending = FALSE, !.writable = FALSE, !.error = TRUE]
      BY <1>8, <2>4 DEF Card!ShowGpu
    <3> QED BY <1>1, <2>1, <2>2, <2>4, <3>1, CardTypes
  <2> QED BY <2>3, <2>4
<1>9. CASE Card!ShowGpuRead(p)
  <2>1. p.do = "refresh" /\ Card!Gpu /\ ~Card!Charge /\ asks' = asks
    BY <1>9 DEF Card!ShowGpuRead, Card!Charge, Card!Gpu
  <2>2. CASE p.how = "ok"
    <3> DEFINE queued == IF p.queued = p.now THEN Card!Nothing ELSE p.queued
    <3>1. card' = [card EXCEPT !.shown = p.now, !.ready = TRUE, !.writable = TRUE,
                               !.queued = queued, !.error = FALSE]
      BY <1>9, <2>2 DEF Card!ShowGpuRead
    <3>2. queued \in Choices \cup {Card!Nothing}
          /\ {queued, p.now, Card!Nothing} = {p.queued, p.now, Card!Nothing}
      BY <1>1
    <3> HIDE DEF queued
    <3>3. card' \in Card!Cards /\ card'.kind = card.kind /\ card'.shown = p.now
          /\ card'.queued = queued /\ card'.pending = card.pending
      BY <1>1, <3>1, <3>2, CardTypes
    <3> QED BY <1>1, <1>3, <2>1, <2>2, <3>2, <3>3
  <2>3. CASE p.how = "unknown"
    BY <1>1, <1>3, <1>9, <2>1, <2>3, CardTypes DEF Card!ShowGpuRead
  <2>4. CASE p.how = "absent"
    BY <1>1, <1>3, <1>9, <2>1, <2>4, CardTypes DEF Card!ShowGpuRead
  <2>5. CASE p.how = "error"
    BY <1>1, <1>3, <1>9, <2>1, <2>5, CardTypes DEF Card!ShowGpuRead
  <2> QED BY <1>1, <2>2, <2>3, <2>4, <2>5
<1>10. CASE Card!ShowRegistry(p)
  <2>1. p.do = "registry" /\ asks' = asks /\ card' = [card EXCEPT !.writable = p.how = "ok"]
    BY <1>10 DEF Card!ShowRegistry
  <2> QED BY <1>1, <1>3, <2>1, CardTypes
<1> QED BY <1>4, <1>5, <1>6, <1>7, <1>8, <1>9, <1>10

LEMMA CardClickInv ==
  ASSUME CardInv, NEW choice \in Choices, Card!Click(choice)
  PROVE  CardInv'
<1> USE DEF CardInv
<1> DEFINE ask == [do |-> "set", choice |-> choice]
<1>1. /\ asks' = Append(asks, ask) /\ card' = [card EXCEPT !.pending = TRUE]
      /\ UNCHANGED <<machine, posts, unseen>>
  BY DEF Card!Click
<1>2. ask \in Card!Asks /\ ask.do = "set"
  BY DEF Card!Asks
<1> HIDE DEF ask
<1>3. asks' \in Seq(Card!Asks) /\ Elements(asks') = Elements(asks) \cup {ask}
  BY <1>1, <1>2, CardTypes, AppendIs
<1>4. /\ card' \in Card!Cards /\ card'.kind = card.kind /\ card'.ready = card.ready
      /\ card'.shown = card.shown /\ card'.queued = card.queued
      /\ card'.error = card.error /\ card'.unconfirmed = card.unconfirmed
  BY <1>1, CardTypes DEF Card!Cards
<1>5. spent' \in SpentTypes
  BY CardSpent DEF Card!Click, Card!CardTypeOK, SpentTypes
<1>6. Card!CardTypeOK'
  BY <1>1, <1>3, <1>4, <1>5 DEF Card!CardTypeOK, SpentTypes
<1>7. OutcomesAre'
  BY <1>1, <1>4 DEF OutcomesAre, Card!Gpu
<1>8. NewestIsShown'
  BY <1>1, <1>4 DEF NewestIsShown, ShownIsTrue, Card!Gpu
<1>9. CardOwes("set")' /\ (CardOwes("refresh") => CardOwes("refresh")')
  BY <1>1, <1>2, <1>3 DEF CardOwes
<1>10. LocksOwe'
  BY <1>4, <1>9 DEF LocksOwe, Card!Performance, Card!Charge
<1> QED BY <1>6, <1>7, <1>8, <1>10

LEMMA CardShowInv ==
  ASSUME CardInv, Card!Show
  PROVE  CardInv'
<1> USE DEF CardInv
<1> DEFINE p == Head(posts)
<1>1. /\ posts # <<>> /\ posts' = Tail(posts) /\ UNCHANGED <<machine, spent, unseen>>
      /\ \/ Card!ShowPerformance(p) \/ Card!ShowPerformanceRead(p)
         \/ Card!ShowCharge(p) \/ Card!ShowChargeRead(p)
         \/ Card!ShowGpu(p) \/ Card!ShowGpuRead(p)
         \/ Card!ShowRegistry(p)
  BY DEF Card!Show
<1>2. /\ p = posts[1] /\ p \in Card!Posts /\ posts' \in Seq(Card!Posts)
      /\ Elements(posts) = {p} \cup Elements(posts')
  BY <1>1, CardTypes, TailIs
<1> HIDE DEF p
<1>3. /\ card' \in Card!Cards /\ card'.kind = card.kind
      /\ asks' \in Seq(Card!Asks) /\ Elements(asks) \subseteq Elements(asks')
      /\ p \in Told =>
           /\ card'.shown = p.now
           /\ Card!Gpu => {card'.queued, card'.shown, Card!Nothing} =
                            {p.queued, p.now, Card!Nothing}
      /\ p \notin Told /\ card'.ready =>
           card.ready /\ card'.shown = card.shown /\ card'.queued = card.queued
      /\ card'.pending /\ ~Card!Performance => card.pending /\ p.do # "set"
      /\ Card!Charge /\ card'.ready /\ (card'.error \/ card'.unconfirmed) =>
           \/ card.ready /\ (card.error \/ card.unconfirmed) /\ p.do # "refresh"
           \/ \E x \in Elements(asks') : x.do = "refresh"
  BY <1>1, <1>2, CardShows
<1>4. Card!CardTypeOK'
  BY <1>1, <1>2, <1>3 DEF Card!CardTypeOK
<1>5. OutcomesAre'
  BY <1>1, <1>2, <1>3 DEF OutcomesAre, Card!Gpu
<1>6. NewestIsShown'
  <2> DEFINE H == {q \in Told : q.now = machine'.now /\ q.queued = machine'.queued}
  <2> SUFFICES ASSUME ~unseen'
               PROVE  /\ ~machine'.half /\ LastIn(posts', Told, H)
                      /\ Elements(posts') \cap Told = {} /\ card'.ready => ShownIsTrue'
    BY DEF NewestIsShown
  <2>1. /\ ~machine'.half /\ LastIn(posts, Told, H)
        /\ Elements(posts) \cap Told = {} /\ card.ready => ShownIsTrue
    BY <1>1 DEF NewestIsShown
  <2>2. p \in H => p.now = machine.now /\ p.queued = machine.queued
    BY <1>1
  <2> HIDE DEF H
  <2>3. LastIn(posts', Told, H) /\ (p \in Told /\ Elements(posts') \cap Told = {} => p \in H)
    BY <1>1, <1>2, <2>1, CardTypes, LastLess
  <2>4. ASSUME Elements(posts') \cap Told = {}, card'.ready PROVE ShownIsTrue'
    <3>1. CASE p \in Told
      BY <1>1, <1>3, <2>2, <2>3, <2>4, <3>1 DEF ShownIsTrue, Card!Gpu
    <3>2. CASE p \notin Told
      BY <1>1, <1>2, <1>3, <2>1, <2>4, <3>2 DEF ShownIsTrue, Card!Gpu
    <3> QED BY <3>1, <3>2
  <2> QED BY <2>1, <2>3, <2>4
<1>7. \A do : CardOwes(do) /\ p.do # do => CardOwes(do)'
  BY <1>2, <1>3 DEF CardOwes
<1>8. LocksOwe'
  <2>1. ASSUME card'.pending, ~Card!Performance' PROVE CardOwes("set")'
    BY <1>3, <1>7, <2>1 DEF LocksOwe, Card!Performance
  <2>2. ASSUME Card!Charge', card'.ready, card'.error \/ card'.unconfirmed
        PROVE  CardOwes("refresh")'
    <3>1. CASE \E x \in Elements(asks') : x.do = "refresh"
      BY <3>1 DEF CardOwes
    <3>2. CASE card.ready /\ (card.error \/ card.unconfirmed) /\ p.do # "refresh"
      BY <1>3, <1>7, <2>2, <3>2 DEF LocksOwe, Card!Charge
    <3> QED BY <1>3, <2>2, <3>1, <3>2 DEF Card!Charge
  <2> QED BY <2>1, <2>2 DEF LocksOwe
<1> QED BY <1>4, <1>5, <1>6, <1>8

(* A read, asked for or not.                                               *)
LEMMA ReadsInv ==
  ASSUME CardInv, NEW how \in {"ok", "error", "unknown", "absent"}, Card!Reads(how),
         asks' \in Seq(Card!Asks),
         \A x \in Elements(asks) : x \in Elements(asks') \/ x.do = "refresh"
  PROVE  CardInv'
<1> USE DEF CardInv
<1> DEFINE p == [do |-> "refresh", how |-> how, now |-> machine.now, queued |-> machine.queued]
<1>1. /\ p \in Card!Posts /\ p.do = "refresh" /\ p.how = how
      /\ p.now = machine.now /\ p.queued = machine.queued
      /\ p \in Told <=> how = "ok"
  BY CardTypes DEF Card!Posts, Told
<1>2. /\ posts' = Append(posts, p) /\ UNCHANGED <<card, machine>>
      /\ unseen' = (unseen /\ how # "ok")
      /\ how = "ok" => ~machine.half
      /\ how = "unknown" => Card!Gpu
  BY DEF Card!Reads, Card!Posted
<1>3. spent' \in SpentTypes
  BY CardSpent DEF Card!Reads, Card!CardTypeOK, SpentTypes
<1>4. /\ unseen' \in BOOLEAN /\ (machine.half => Card!Gpu)
      /\ machine' \in [now : Choices, queued : Choices \cup {Card!Nothing}, half : BOOLEAN]
  BY <1>2, CardTypes DEF OutcomesAre
<1> HIDE DEF p
<1> QED BY <1>1, <1>2, <1>3, <1>4, CardTypes, PostedInv

LEMMA AfterIs ==
  ASSUME Card!CardTypeOK, NEW choice \in Choices
  PROVE  /\ Card!After(choice) \in
              [now : Choices, queued : Choices \cup {Card!Nothing}, half : BOOLEAN]
         /\ ~Card!Gpu => Card!After(choice).half = machine.half
         /\ Card!Gpu => Card!After(choice).half = FALSE
BY CardTypes DEF Card!After

(* A value set, by a click or by the worker itself.                        *)
LEMMA SetsInv ==
  ASSUME CardInv, NEW choice \in Choices, NEW how, Card!Sets(choice, how), UNCHANGED card,
         asks' \in Seq(Card!Asks), spent' \in SpentTypes,
         \A x \in Elements(asks) : x \in Elements(asks') \/ x.do = "set"
  PROVE  CardInv'
<1> USE DEF CardInv
<1> DEFINE M == [now : Choices, queued : Choices \cup {Card!Nothing}, half : BOOLEAN]
           p == [do |-> "set", how |-> how, now |-> machine'.now, queued |-> machine'.queued]
<1>1. how \in {"ok", "error", "unknown"} /\ posts' = Append(posts, p)
  BY DEF Card!Sets, Card!Posted
<1>2. machine \in M /\ Card!After(choice) \in M /\ (machine.half => Card!Gpu)
      /\ (~Card!Gpu => ~Card!After(choice).half)
  BY CardTypes, AfterIs DEF OutcomesAre
<1>3. /\ machine' \in M /\ unseen' \in BOOLEAN /\ (machine'.half => Card!Gpu)
      /\ ~unseen' /\ how = "ok" => machine'.half = FALSE
      /\ ~unseen' /\ how # "ok" => ~unseen /\ UNCHANGED machine
  <2>1. CASE how = "ok"
    <3>1. machine' = Card!After(choice) /\ unseen' = FALSE
      BY <2>1 DEF Card!Sets
    <3>2. machine'.half = FALSE
      BY <1>2, <3>1, CardTypes, AfterIs
    <3> QED BY <1>2, <2>1, <3>1, <3>2
  <2>2. CASE how # "ok"
    <3>1. /\ \/ machine' = machine \/ machine' = Card!After(choice)
             \/ Card!Gpu /\ machine' = [machine EXCEPT !.half = TRUE, !.queued = Card!Nothing]
          /\ unseen' = (unseen \/ machine' # machine)
      BY <2>2 DEF Card!Sets
    <3>2. machine' \in M /\ (machine'.half => Card!Gpu)
      BY <1>2, <3>1, CardTypes
    <3>3. unseen' \in BOOLEAN
      BY <3>1, CardTypes
    <3>4. ~unseen' => ~unseen /\ UNCHANGED machine
      BY <3>1
    <3> QED BY <2>2, <3>2, <3>3, <3>4
  <2> QED BY <2>1, <2>2
<1>4. /\ p \in Card!Posts /\ p.do = "set" /\ p.how = how
      /\ p.now = machine'.now /\ p.queued = machine'.queued
      /\ p \in Told <=> how = "ok"
  <2>1. machine'.now \in Choices /\ machine'.queued \in Choices \cup {Card!Nothing}
    BY <1>3
  <2> QED BY <1>1, <2>1 DEF Card!Posts, Told
<1> HIDE DEF p
<1> QED BY <1>1, <1>3, <1>4, PostedInv

(* What is asked for, less the command performed or the run of sets that   *)
(* became one.                                                             *)
LEMMA CoalescedIs ==
  ASSUME Card!CardTypeOK, asks # <<>>, Head(asks).do = "set"
  PROVE  /\ SubSeq(asks, Card!Coalesced + 1, Len(asks)) \in Seq(Card!Asks)
         /\ asks[Card!Coalesced].choice \in Choices
         /\ \A x \in Elements(asks) :
              x \in Elements(SubSeq(asks, Card!Coalesced + 1, Len(asks))) \/ x.do = "set"
<1> DEFINE n == Len(asks)
           c == Card!Coalesced
           rest == SubSeq(asks, c + 1, n)
<1>1. /\ asks \in Seq(Card!Asks) /\ n \in Nat /\ n >= 1 /\ Head(asks) = asks[1]
      /\ DOMAIN asks = 1 .. n
      /\ \A i \in 1 .. n : asks[i] \in Card!Asks
  BY CardTypes
<1>2. c \in 1 .. n /\ (c = 1 \/ \A i \in 1 .. n : asks[i].do = "set")
  BY <1>1 DEF Card!Coalesced
<1>3. /\ rest \in Seq(Card!Asks)
      /\ \A i \in 1 .. n : i >= c + 1 => asks[i] \in Elements(rest)
  <2> HIDE DEF c
  <2>1. c + 1 \in Nat \ {0}
    BY <1>1, <1>2
  <2> DEFINE m == c + 1
  <2> HIDE DEF m
  <2>2. m \in Nat \ {0}
    BY <2>1 DEF m
  <2>3. /\ SubSeq(asks, m, Len(asks)) \in Seq(Card!Asks)
        /\ \A i \in 1 .. Len(asks) : i >= m => asks[i] \in Elements(SubSeq(asks, m, Len(asks)))
    BY <1>1, <2>2, FromIs
  <2> QED BY <2>3 DEF m
<1> HIDE DEF rest
<1>4. asks[c].choice \in Choices
  <2> HIDE DEF c
  <2> QED BY <1>1, <1>2 DEF Card!Asks
<1>5. ASSUME NEW x \in Elements(asks) PROVE x \in Elements(rest) \/ x.do = "set"
  <2> HIDE DEF n, c
  <2>1. PICK i \in 1 .. n : x = asks[i]
    BY DEF Elements, n
  <2>2. CASE i = 1 \/ c # 1
    BY <1>1, <1>2, <2>1, <2>2 DEF n
  <2>3. CASE i # 1 /\ c = 1
    BY <1>1, <1>3, <2>1, <2>3
  <2> QED BY <2>2, <2>3
<1> QED BY <1>3, <1>4, <1>5 DEF rest

LEMMA CardNextInv == CardInv /\ Card!Next => CardInv'
<1> SUFFICES ASSUME CardInv, Card!Next PROVE CardInv'
  OBVIOUS
<1> DEFINE Hows == {"ok", "error", "unknown", "absent"}
<1>1. Card!CardTypeOK /\ asks \in Seq(Card!Asks) /\ spent \in SpentTypes
  BY CardTypes DEF CardInv, Card!CardTypeOK, SpentTypes
<1>2. ASSUME NEW choice \in Choices, Card!Click(choice) PROVE CardInv'
  BY <1>2, CardClickInv
<1>3. ASSUME NEW choice \in Choices, Card!Elsewhere(choice) PROVE CardInv'
  <2>1. /\ machine' = Card!After(choice) /\ unseen' = TRUE /\ UNCHANGED <<card, asks, posts>>
    BY <1>3 DEF Card!Elsewhere
  <2>2. spent' \in SpentTypes
    BY <1>1, <1>3, CardSpent DEF Card!Elsewhere
  <2>3. Card!CardTypeOK'
    BY <1>1, <2>1, <2>2, AfterIs DEF Card!CardTypeOK, SpentTypes
  <2>4. OutcomesAre'
    BY <1>1, <2>1, AfterIs DEF CardInv, OutcomesAre, Card!Gpu
  <2>5. NewestIsShown'
    BY <2>1 DEF NewestIsShown
  <2>6. LocksOwe'
    BY <2>1 DEF CardInv, LocksOwe, CardOwes, Card!Performance, Card!Charge
  <2> QED BY <2>3, <2>4, <2>5, <2>6 DEF CardInv
<1>4. ASSUME NEW how \in Hows, Card!PerformRefresh(how) PROVE CardInv'
  <2>1. asks' \in Seq(Card!Asks)
        /\ \A x \in Elements(asks) : x \in Elements(asks') \/ x.do = "refresh"
    BY <1>1, <1>4, TailIs DEF Card!PerformRefresh
  <2> QED BY <1>4, <2>1, ReadsInv DEF Card!PerformRefresh
<1>5. ASSUME NEW how \in Hows, Card!Tick(how) PROVE CardInv'
  BY <1>1, <1>5, ReadsInv DEF Card!Tick
<1>6. ASSUME NEW how \in Hows, Card!PerformSet(how) PROVE CardInv'
  <2>1. /\ asks # <<>> /\ Head(asks).do = "set" /\ UNCHANGED card
        /\ asks' = SubSeq(asks, Card!Coalesced + 1, Len(asks))
        /\ Card!Sets(asks[Card!Coalesced].choice, how)
    BY <1>6 DEF Card!PerformSet
  <2>2. spent' \in SpentTypes
    BY <1>1, <1>6, CardSpent DEF Card!PerformSet
  <2>3. /\ asks' \in Seq(Card!Asks) /\ asks[Card!Coalesced].choice \in Choices
        /\ \A x \in Elements(asks) : x \in Elements(asks') \/ x.do = "set"
    BY <1>1, <2>1, CoalescedIs
  <2> QED BY <2>1, <2>2, <2>3, SetsInv
<1>7. ASSUME NEW how \in Hows, NEW choice \in Choices, Card!Automatic(choice, how)
      PROVE  CardInv'
  <2>1. spent' \in SpentTypes
    BY <1>1, <1>7, CardSpent DEF Card!Automatic
  <2> QED BY <1>1, <1>7, <2>1, SetsInv DEF Card!Automatic
<1>8. ASSUME NEW how \in {"ok", "absent"}, Card!Registry(how) PROVE CardInv'
  <2> DEFINE p == [do |-> "registry", how |-> how, now |-> machine.now, queued |-> machine.queued]
  <2>1. /\ posts' = Append(posts, p) /\ UNCHANGED <<card, machine, asks, unseen>>
    BY <1>8 DEF Card!Registry, Card!Posted
  <2>2. p \in Card!Posts /\ p.do = "registry" /\ p \notin Told
    BY <1>1, CardTypes DEF Card!Posts, Told
  <2>3. spent' \in SpentTypes
    BY <1>1, <1>8, CardSpent DEF Card!Registry
  <2>4. machine.half => Card!Gpu
    BY DEF CardInv, OutcomesAre
  <2> HIDE DEF p
  <2> QED BY <1>1, <2>1, <2>2, <2>3, <2>4, CardTypes, PostedInv
<1> QED BY <1>2, <1>3, <1>4, <1>5, <1>6, <1>7, <1>8, CardShowInv DEF Card!Next

LEMMA CardPromises == CardInv => Card!CardIsTrue /\ Card!CardIsUnlocked
<1> SUFFICES ASSUME CardInv PROVE Card!CardIsTrue /\ Card!CardIsUnlocked
  OBVIOUS
<1>1. Card!CardIsTrue
  BY EmptyIs DEF CardInv, NewestIsShown, ShownIsTrue, Card!CardIsTrue
<1>2. Card!CardIsUnlocked
  BY CardOwedIs DEF CardInv, LocksOwe, Card!CardIsUnlocked
<1> QED BY <1>1, <1>2

-----------------------------------------------------------------------------
(* What the parts are to PartSpec.                                         *)

PartVars == <<part, vars, fanState, limitState, cardState, storeState>>

LEMMA PartSteps ==
  [PartNext]_PartVars =>
    /\ [Store!Next]_storeState /\ [Fan!Next]_fanState /\ [Next]_vars
    /\ [Limit!Next]_limitState /\ [Card!Next]_cardState
BY DEF PartNext, PartVars

LEMMA AlwaysStoreInv == PartSpec => []StoreInv
<1>1. PartInit => StoreInv
  BY StoreInitInv DEF PartInit
<1>2. StoreInv /\ UNCHANGED storeState => StoreInv'
  BY DEF StoreInv, storeState, Store!StoreTypeOK, TempHolds, BadIsSafe, Store!SavesSurvive
<1>3. StoreInv /\ [PartNext]_PartVars => StoreInv'
  BY <1>2, PartSteps, StoreNextInv
<1> QED BY <1>1, <1>3, PTL DEF PartSpec, PartVars

LEMMA AlwaysFanInv == PartSpec => []FanInv
<1>1. PartInit => FanInv
  BY FanInitInv DEF PartInit
<1>2. FanInv /\ UNCHANGED fanState => FanInv'
  <2> SUFFICES ASSUME FanInv, UNCHANGED fanState PROVE FanInv'
    OBVIOUS
  <2>1. UNCHANGED <<stored, editor, commands, job, replies, tally, trail>>
    BY DEF fanState
  <2>2. Pipe' = Pipe /\ Fan!FanTypeOK'
    BY <2>1, PipeRests DEF FanInv, Fan!FanTypeOK
  <2> QED BY <2>1, <2>2 DEF FanInv, JobIs, SlotOrRead, PendingOrSent, NoSetBehind, AppliedIsShown,
                            NothingToRead, LastReadIsStored, Owed
<1>3. FanInv /\ [PartNext]_PartVars => FanInv'
  BY <1>2, PartSteps, FanNextInv
<1> QED BY <1>1, <1>3, PTL DEF PartSpec, PartVars

LEMMA AlwaysLimitInv == PartSpec => []LimitInv
<1>1. PartInit => LimitInv
  BY LimitInitInv DEF PartInit
<1>2. LimitInv /\ UNCHANGED limitState => LimitInv'
  BY OwingIs, OwingNext
  DEF LimitInv, limitState, Limit!LimitTypeOK, BatchIs, NewestIsTrue, LocksOwing, Owing
<1>3. LimitInv /\ [PartNext]_PartVars => LimitInv'
  BY <1>2, PartSteps, LimitNextInv
<1> QED BY <1>1, <1>3, PTL DEF PartSpec, PartVars

LEMMA AlwaysCardInv == PartSpec => []CardInv
<1>1. PartInit => CardInv
  BY CardInitInv DEF PartInit
<1>2. CardInv /\ UNCHANGED cardState => CardInv'
  BY DEF CardInv, cardState, Card!CardTypeOK, OutcomesAre, NewestIsShown, ShownIsTrue, LocksOwe,
         CardOwes, Card!Gpu, Card!Charge, Card!Performance
<1>3. CardInv /\ [PartNext]_PartVars => CardInv'
  BY <1>2, PartSteps, CardNextInv
<1> QED BY <1>1, <1>3, PTL DEF PartSpec, PartVars

(* AC-021: with no refresh to come, the points in the fan editor were read *)
(* from the fan and profile an Apply would write to.                       *)
THEOREM DraftIsOfSelection == PartSpec => []DraftOfSelection
<1>1. FanInv => DraftOfSelection
  BY FanPromises DEF DraftOfSelection
<1> QED BY <1>1, AlwaysFanInv, PTL

(* At rest, in whatever order answers, reads, automatic changes and other  *)
(* programs came: a clean fan curve, the power limits, and an open profile *)
(* charge or GPU card show what the hardware holds, unless it changed      *)
(* after it was last read.                                                 *)
THEOREM WindowsTellTheTruth == PartSpec => []ShownIsHardware
<1>1. FanInv /\ LimitInv /\ CardInv => ShownIsHardware
  BY FanPromises, LimitPromises, CardPromises DEF ShownIsHardware
<1> QED BY <1>1, AlwaysFanInv, AlwaysLimitInv, AlwaysCardInv, PTL

(* No editor and no card stays locked for an answer that no command,       *)
(* running batch or event still to be shown can bring.                     *)
THEOREM NoLockIsForgotten == PartSpec => []LocksAreOwed
<1>1. FanInv /\ LimitInv /\ CardInv => LocksAreOwed
  BY FanPromises, LimitPromises, CardPromises DEF LocksAreOwed
<1> QED BY <1>1, AlwaysFanInv, AlwaysLimitInv, AlwaysCardInv, PTL

(* Durable atomic writes: no error, kill or power loss at any step of any  *)
(* save leaves half a document, and a careful store still has the document *)
(* whose save it acknowledged last.                                        *)
THEOREM SavesAreDurable == PartSpec => []SavesSurvive
<1>1. StoreInv => SavesSurvive
  BY DEF StoreInv, SavesSurvive
<1> QED BY <1>1, AlwaysStoreInv, PTL

(* Invalid source bytes are never overwritten: they stay in the file or    *)
(* beside it until the user writes the file again.                         *)
THEOREM BadBytesAreKept == PartSpec => BadKept
<1>1. StoreInv /\ [PartNext]_PartVars =>
        [dir.file = Store!Bad => dir'.file = Store!Bad \/ dir'.aside = Store!Bad
                                   \/ count'.edits # count.edits]_Store!storeVars
  BY PartSteps, BadStays DEF storeState, Store!storeVars
<1> QED BY <1>1, AlwaysStoreInv, PTL DEF PartSpec, PartVars, BadKept, Store!BadKept

===============================================================================
