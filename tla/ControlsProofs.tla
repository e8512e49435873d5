---------------------------- MODULE ControlsProofs ----------------------------
(***************************************************************************)
(* The parts of MCExtraControls, for any constants: what the section of    *)
(* hardware extras and the quick controls show once nothing is under way,  *)
(* the keyboard lighting, the lid switch, and the windows. Each part is    *)
(* proved of its own Init and Next; for PartSpec, a step takes the part's  *)
(* step or leaves its state alone.                                         *)
(***************************************************************************)
EXTENDS MCExtraControls, SequenceTheorems, TLAPS


-----------------------------------------------------------------------------
(* Sequences of closures.                                                  *)

IsSeq(s) == \E S : s \in Seq(S)

LEMMA AppendIs ==
  ASSUME NEW s, IsSeq(s), NEW x
  PROVE  /\ IsSeq(Append(s, x)) /\ Append(s, x) # <<>>
         /\ Len(s) \in Nat /\ Len(Append(s, x)) = Len(s) + 1
         /\ \A i \in 1 .. Len(s) : Append(s, x)[i] = s[i]
         /\ Append(s, x)[Len(s) + 1] = x
<1>1. PICK S : s \in Seq(S)
  BY DEF IsSeq
<1>2. s \in Seq(S \cup {x}) /\ x \in S \cup {x}
  BY <1>1
<1>3. Append(s, x) \in Seq(S \cup {x})
  BY <1>2
<1> QED BY <1>2, <1>3 DEF IsSeq

LEMMA TailIs ==
  ASSUME NEW s, IsSeq(s), s # <<>>
  PROVE  /\ IsSeq(Tail(s))
         /\ Len(s) \in Nat \ {0} /\ Len(Tail(s)) = Len(s) - 1 /\ Head(s) = s[1]
         /\ \A i \in 1 .. Len(s) - 1 : Tail(s)[i] = s[i + 1]
         /\ Tail(s) = <<>> => Len(s) = 1
<1>1. PICK S : s \in Seq(S)
  BY DEF IsSeq
<1>2. Tail(s) \in Seq(S) /\ Len(s) \in Nat \ {0} /\ Len(Tail(s)) = Len(s) - 1 /\ Head(s) = s[1]
  BY <1>1
<1>3. \A i \in 1 .. Len(s) - 1 : Tail(s)[i] = s[i + 1]
  BY <1>1
<1>4. Tail(s) = <<>> => Len(s) = 1
  <2> DEFINE t == Tail(s)
  <2>1. t \in Seq(S) /\ Len(s) \in Nat /\ Len(t) = Len(s) - 1
    BY <1>2
  <2> HIDE DEF t
  <2>2. t = <<>> => Len(t) = 0
    OBVIOUS
  <2>3. t = <<>> => Len(s) = 1
    BY <2>1, <2>2
  <2> QED BY <2>3 DEF t
<1> QED BY <1>2, <1>3, <1>4 DEF IsSeq

(* One is taken out of a sequence; the others stay in it.                  *)
LEMMA RemoveAtIs ==
  ASSUME NEW s, IsSeq(s), NEW i \in 1 .. Len(s)
  PROVE  /\ IsSeq(RemoveAt(s, i))
         /\ \A j \in 1 .. Len(RemoveAt(s, i)) : \E k \in 1 .. Len(s) : RemoveAt(s, i)[j] = s[k]
         /\ \A k \in 1 .. Len(s) :
              k = i \/ \E j \in 1 .. Len(RemoveAt(s, i)) : RemoveAt(s, i)[j] = s[k]
<1> DEFINE n == Len(s)
           a == SubSeq(s, 1, i - 1)
           b == SubSeq(s, i + 1, n)
           t == a \o b
<1>1. PICK S : s \in Seq(S)
  BY DEF IsSeq
<1>2. n \in Nat /\ i \in 1 .. n /\ DOMAIN s = 1 .. n /\ \A k \in 1 .. n : s[k] \in S
  BY <1>1
<1> HIDE DEF n
<1>3. /\ a \in Seq(S) /\ Len(a) = i - 1
      /\ \A j \in 1 .. i - 1 : a[j] = s[j]
  <2>1. /\ \A j \in 1 .. i - 1 : s[j] \in S
        /\ 1 \in Int /\ i - 1 \in Int /\ (i - 1) - 1 + 1 = i - 1
        /\ \A j \in 1 .. i - 1 : 1 + j - 1 = j
        /\ ~(1 <= i - 1) => i - 1 = 0
    BY <1>2
  <2>2. /\ a \in Seq(S) /\ Len(a) = IF 1 <= i - 1 THEN (i - 1) - 1 + 1 ELSE 0
        /\ \A j \in 1 .. (i - 1) - 1 + 1 : a[j] = s[1 + j - 1]
    BY <2>1, SubSeqProperties
  <2> HIDE DEF a
  <2> QED BY <2>1, <2>2
<1>4. /\ b \in Seq(S) /\ Len(b) = n - i
      /\ \A j \in 1 .. n - i : b[j] = s[i + j]
  <2>1. /\ \A j \in i + 1 .. n : s[j] \in S
        /\ i + 1 \in Int /\ n \in Int /\ n - (i + 1) + 1 = n - i
        /\ \A j \in 1 .. n - i : i + 1 + j - 1 = i + j
        /\ ~(i + 1 <= n) => n - i = 0
    BY <1>2
  <2>2. /\ b \in Seq(S) /\ Len(b) = IF i + 1 <= n THEN n - (i + 1) + 1 ELSE 0
        /\ \A j \in 1 .. n - (i + 1) + 1 : b[j] = s[i + 1 + j - 1]
    BY <2>1, SubSeqProperties
  <2> HIDE DEF b
  <2> QED BY <2>1, <2>2
<1> HIDE DEF a, b
<1>5. /\ t \in Seq(S) /\ Len(t) = n - 1
      /\ \A j \in 1 .. n - 1 : t[j] = IF j < i THEN s[j] ELSE s[j + 1]
  <2>1. /\ t \in Seq(S) /\ Len(t) = Len(a) + Len(b)
        /\ \A j \in 1 .. Len(a) + Len(b) : t[j] = IF j <= Len(a) THEN a[j] ELSE b[j - Len(a)]
    BY <1>3, <1>4, ConcatProperties
  <2> HIDE DEF t
  <2>2. Len(a) + Len(b) = n - 1
    BY <1>2, <1>3, <1>4
  <2>3. ASSUME NEW j \in 1 .. n - 1 PROVE t[j] = IF j < i THEN s[j] ELSE s[j + 1]
    <3>1. CASE j < i
      <4>1. j <= Len(a) /\ j \in 1 .. i - 1
        BY <1>2, <1>3, <3>1
      <4> QED BY <1>3, <2>1, <2>2, <3>1, <4>1
    <3>2. CASE ~(j < i)
      <4>1. ~(j <= Len(a)) /\ j - Len(a) \in 1 .. n - i /\ i + (j - Len(a)) = j + 1
        BY <1>2, <1>3, <3>2
      <4> QED BY <1>4, <2>1, <2>2, <3>2, <4>1
    <3> QED BY <3>1, <3>2
  <2> QED BY <2>1, <2>2, <2>3
<1>6. RemoveAt(s, i) = t
  BY DEF RemoveAt, a, b, n
<1> HIDE DEF t
<1>7. \A j \in 1 .. n - 1 : j \in 1 .. n /\ j + 1 \in 1 .. n
  BY <1>2
<1>8. \A k \in 1 .. n : k = i \/ (k < i /\ k \in 1 .. n - 1)
                           \/ (k - 1 \in 1 .. n - 1 /\ ~(k - 1 < i) /\ (k - 1) + 1 = k)
  BY <1>2
<1>9. \A j \in 1 .. n - 1 : \E k \in 1 .. n : t[j] = s[k]
  BY <1>5, <1>7
<1>10. \A k \in 1 .. n : k = i \/ \E j \in 1 .. n - 1 : t[j] = s[k]
  BY <1>5, <1>8
<1> QED BY <1>5, <1>6, <1>9, <1>10 DEF IsSeq, n

-----------------------------------------------------------------------------
(* The section of hardware extras: its draft.                              *)

DraftInv == unresolved \in BOOLEAN /\ DraftIffUnresolved

LEMMA DraftStays ==
  ASSUME Next, ~ShowRefresh, ~ShowApplied PROVE UNCHANGED <<unresolved, draft>>
<1>1. ASSUME NEW c, NEW v, Stage(c, v) \/ RequestDirect(c, v) PROVE UNCHANGED <<unresolved, draft>>
  BY <1>1 DEF Stage, RequestDirect
<1>2. CASE Apply \/ RequestClamshell \/ Reload
  <2>1. Apply => UNCHANGED <<unresolved, draft>>
    BY DEF Apply
  <2>2. RequestClamshell \/ Reload => UNCHANGED <<unresolved, draft>>
    BY DEF RequestClamshell, Reload
  <2> QED BY <1>2, <2>1, <2>2
<1>3. ASSUME NEW r, NEW c, EndRefresh(r) \/ ReadControl(r, c)
      PROVE  UNCHANGED <<unresolved, draft>>
  BY <1>3 DEF EndRefresh, ReadControl, flags
<1>4. ASSUME NEW t, WriteOk(t) \/ SendAround(t) \/ WriteFails(t) \/ WriteTimesOut(t) \/ Finish(t)
      PROVE  UNCHANGED <<unresolved, draft>>
  BY <1>4 DEF WriteOk, SendAround, WriteFails, WriteTimesOut, Finish, End, flags
<1>5. CASE ShowDirect \/ ShowClamshell
  BY <1>5 DEF ShowDirect, ShowClamshell
<1>6. CASE Sends \/ QuickRefresh
  BY <1>6 DEF Sends, SendClosure, QuickRefresh, flags
<1>7. CASE Environment
  BY <1>7 DEF Environment, Land, Foreign, flags
<1>8. \/ User \/ Refreshes \/ Mutations \/ Sends \/ ShowDirect \/ ShowClamshell \/ QuickRefresh
      \/ Environment
  BY DEF Next, EventLoop
<1>9. CASE User
  BY <1>1, <1>2, <1>9 DEF User
<1>10. CASE Refreshes \/ Mutations
  BY <1>3, <1>4, <1>10 DEF Refreshes, Mutations
<1> QED BY <1>5, <1>6, <1>7, <1>8, <1>9, <1>10

LEMMA DraftNextInv == DraftInv /\ Next => DraftInv'
<1> SUFFICES ASSUME DraftInv, Next PROVE DraftInv'
  OBVIOUS
<1> USE DEF DraftInv, DraftIffUnresolved
<1>1. CASE ShowRefresh
  BY <1>1 DEF ShowRefresh, Reconcile
<1>2. CASE ShowApplied
  BY <1>2 DEF ShowApplied
<1>3. CASE ~ShowRefresh /\ ~ShowApplied
  BY <1>3, DraftStays
<1> QED BY <1>1, <1>2, <1>3

(* The records are records: no more of the types is needed.                *)
IsWindow(w) == w = [shown |-> w.shown, ready |-> w.ready, clam |-> w.clam,
                    applying |-> w.applying, apply |-> w.apply]
IsHistory(h) == h = [owed |-> h.owed, moved |-> h.moved]
IsRead(r) == r = [obs |-> r.obs, reconcile |-> r.reconcile] /\ DOMAIN r.obs = Controls
IsTask(t) == t = [kind |-> t.kind, val |-> t.val, ready |-> t.ready, todo |-> t.todo,
                  done |-> t.done]

LEMMA NewReadIs ==
  ASSUME NEW reconcile
  PROVE  /\ IsRead(NewRead(reconcile))
         /\ \A c \in Controls : NewRead(reconcile).obs[c] = Unread
BY DEF NewRead, IsRead

(* What a mutation's closure still has to do is refresh, as a task's.      *)
Changes(op) == op \notin {"clamshell", "refresh"}
ChangeQueued == \E i \in 1 .. Len(queue) : Changes(queue[i].op)
RestQueued == \E i \in 1 .. Len(queue) : queue[i].op # "clamshell"
NoRefreshQueued == \A i \in 1 .. Len(queue) : queue[i].op # "refresh"
IsLast(i) == /\ i \in 1 .. Len(queue) /\ queue[i].op = "refresh"
             /\ \A j \in 1 .. Len(queue) : j > i => queue[j].op # "refresh"

(* And so with the closures that are still to be sent.                     *)
ChangeUnsent == \E i \in 1 .. Len(unsent) : Changes(unsent[i].op)
RestUnsent == \E i \in 1 .. Len(unsent) : unsent[i].op # "clamshell"
NoRefreshUnsent == \A i \in 1 .. Len(unsent) : unsent[i].op # "refresh"

Pending == (\E t \in tasks : t.kind # "clamshell") \/ ChangeUnsent \/ ChangeQueued

Shapes ==
  /\ DOMAIN hw = Controls
  /\ IsWindow(win)
  /\ IsHistory(hist)
  /\ IsSeq(queue) /\ IsSeq(unsent)
  /\ \A r \in reads : IsRead(r)
  /\ \A t \in tasks :
       /\ IsTask(t)
       /\ t.kind \in {"apply", "clamshell"} \cup Direct
       /\ t.kind = "clamshell" => t.todo = <<>>

(* The flags keep it to one task and one refresh.                          *)
OneAtATime ==
  /\ mutating = (tasks # {}) /\ \A t, u \in tasks : t = u
  /\ refreshing = (reads # {}) /\ \A r, s \in reads : r = s

LockEnds == win.applying => tasks # {} \/ unsent # <<>> \/ queue # <<>>

RefreshIsOwed ==
  /\ (\E t \in tasks : t.kind = "clamshell") => hist.owed # "refresh"
  /\ hist.owed = "refresh" =>
       \/ reads # {}
       \/ \E t \in tasks : t.kind # "clamshell"
       \/ RestUnsent \/ RestQueued

(* Where a value of a control may come from; and the value that is going   *)
(* to be shown last: of the refresh under way or of any that is still to   *)
(* be sent, of the last one that is queued, or, with none, the one shown.  *)
(* What the others read must be what it is while one is under way: that    *)
(* one may end what was remembered of an effect sent around asusd.         *)
True(c, v) == v \in {hw[c], Missing} \cup (IF c = "aura" THEN {m.sent : m \in memo} ELSE {})
LastIsTrue(c) ==
  /\ \A r \in reads : r.obs[c] \in {Unread, hw[c], Missing}
  /\ \A i \in 1 .. Len(unsent) : unsent[i].op = "refresh" =>
       /\ True(c, unsent[i].obs[c])
       /\ reads # {} => unsent[i].obs[c] \in {hw[c], Missing}
  /\ reads = {} /\ NoRefreshUnsent =>
       /\ \A i \in 1 .. Len(queue) : IsLast(i) => True(c, queue[i].obs[c])
       /\ ~dirty /\ NoRefreshQueued => True(c, win.shown[c])
ShownOrPending == Pending \/ \A c \in Controls \ hist.moved : LastIsTrue(c)

ExtraInv == Shapes /\ OneAtATime /\ LockEnds /\ RefreshIsOwed /\ ShownOrPending

LEMMA ExtraPromise == ExtraInv => QuietIsSettled
BY DEF ExtraInv, LockEnds, RefreshIsOwed, ShownOrPending, Pending, LastIsTrue, True, QuietIsSettled,
       Quiet, ChangeQueued, RestQueued, NoRefreshQueued, ChangeUnsent, RestUnsent, NoRefreshUnsent

LEMMA ExtraInitInv == Init => ExtraInv
<1> SUFFICES ASSUME Init PROVE ExtraInv
  OBVIOUS
<1> USE NewReadIs DEF Init
<1>1. IsSeq(queue) /\ IsSeq(unsent)
  <2>1. queue \in Seq({}) /\ unsent \in Seq({})
    OBVIOUS
  <2> QED BY <2>1 DEF IsSeq
<1>2. Shapes
  BY <1>1 DEF Shapes, IsWindow, IsHistory
<1>3. OneAtATime /\ LockEnds /\ RefreshIsOwed
  BY DEF OneAtATime, LockEnds, RefreshIsOwed
<1>4. ShownOrPending
  <2>1. \A i \in 1 .. Len(unsent) : FALSE
    OBVIOUS
  <2> QED BY <2>1 DEF ShownOrPending, LastIsTrue
<1> QED BY <1>2, <1>3, <1>4 DEF ExtraInv

(* A refresh is started: whatever was missed is read.                      *)
LEMMA RefreshStarts ==
  ASSUME ExtraInv, NEW w, NEW reconcile, NEW missed, Refresh(w, reconcile),
         hist' = [hist EXCEPT !.moved = Moved(missed)],
         UNCHANGED <<hw, unsent, mutating, tasks>>
  PROVE  /\ reads' # {} \/ tasks' # {}
         /\ refreshing' = (reads' # {}) /\ \A r, s \in reads' : r = s
         /\ hist'.owed = hist.owed /\ IsHistory(hist')
         /\ \A r \in reads' : IsRead(r)
         /\ \/ reads' = reads /\ hist'.moved = hist.moved \cup missed /\ win' = w
            \/ reads' # {} /\ \A c \in Controls \ hist'.moved : LastIsTrue(c)'
<1> USE DEF ExtraInv, Shapes, IsWindow, IsHistory, IsRead, IsTask, OneAtATime
<1>1. hist'.owed = hist.owed /\ hist'.moved = Moved(missed)
      /\ IsHistory(hist')
  OBVIOUS
<1>2. CASE mutating \/ refreshing
  BY <1>1, <1>2 DEF Refresh, Moved
<1>3. CASE ~(mutating \/ refreshing)
  <2>1. reads = {} /\ reads' = {NewRead(reconcile)} /\ refreshing' = TRUE
    BY <1>3 DEF Refresh
  <2>2. ASSUME NEW c \in Controls, c \notin hist'.moved PROVE LastIsTrue(c)'
    <3>1. DOMAIN unsent = 1 .. Len(unsent) /\ hist'.moved = Outdated
      BY <1>1, <1>3 DEF IsSeq, Moved
    <3>2. \A i \in 1 .. Len(unsent) : unsent[i].op = "refresh" =>
            unsent[i].obs[c] \in {hw[c], Missing}
      BY <2>2, <3>1 DEF Outdated
    <3> QED BY <2>1, <3>2, NewReadIs DEF LastIsTrue, True
  <2>3. \A r \in reads' : IsRead(r)
    BY <2>1, NewReadIs
  <2> QED BY <1>1, <2>1, <2>2, <2>3
<1> QED BY <1>2, <1>3

LEMMA WindowIs ==
  ASSUME NEW w, IsWindow(w), NEW u, u = [w EXCEPT !.apply = FALSE]
  PROVE  IsWindow(u) /\ u.shown = w.shown
BY DEF IsWindow

LEMMA UnlockedIs ==
  ASSUME NEW w, IsWindow(w), NEW u, NEW values,
         \/ u = [w EXCEPT !.applying = FALSE]
         \/ u = [w EXCEPT !.applying = FALSE, !.shown = values]
  PROVE  IsWindow(u) /\ ~u.applying
<1>1. CASE u = [w EXCEPT !.applying = FALSE]
  BY <1>1 DEF IsWindow
<1>2. CASE u = [w EXCEPT !.applying = FALSE, !.shown = values]
  BY <1>2 DEF IsWindow
<1> QED BY <1>1, <1>2

LEMMA WroteIs ==
  ASSUME NEW t, IsTask(t)
  PROVE  IsTask(Wrote(t)) /\ Wrote(t).kind = t.kind
<1> DEFINE done == IF t.kind = "apply" THEN t.done \cup {Head(t.todo)} ELSE t.done
<1>1. ASSUME NEW a, NEW b, NEW u, u = [t EXCEPT !.todo = a, !.done = b]
      PROVE  IsTask(u) /\ u.kind = t.kind
  BY <1>1 DEF IsTask
<1>2. Wrote(t) = [t EXCEPT !.todo = Tail(t.todo), !.done = done]
  BY DEF Wrote
<1> HIDE DEF done
<1> QED BY <1>1, <1>2

LEMMA ExtraUserInv == ExtraInv /\ User => ExtraInv'
<1> SUFFICES ASSUME ExtraInv, User PROVE ExtraInv'
  OBVIOUS
<1> USE DEF ExtraInv, Shapes, IsWindow, IsHistory, IsRead, IsTask, OneAtATime, LockEnds,
            RefreshIsOwed, RestQueued, RestUnsent
<1>1. ASSUME NEW w, NEW t, Begin(w, t), UNCHANGED <<hw, memo, queue, unsent, refreshing, reads, dirty>>,
             IsWindow(w),
             IsTask(t),
             t.kind \in {"apply", "clamshell"} \cup Direct, t.kind = "clamshell" => t.todo = <<>>,
             w.shown = win.shown
      PROVE  ExtraInv'
  <2>1. /\ tasks = {} /\ tasks' = {t} /\ mutating' = TRUE
        /\ win' = [w EXCEPT !.applying = TRUE, !.ready = {}]
        /\ hist' = [hist EXCEPT !.owed = IF t.kind = "clamshell" THEN "clamshell" ELSE "refresh"]
    BY <1>1 DEF Begin
  <2>2. win'.shown = win.shown /\ hist'.moved = hist.moved
    BY <1>1, <2>1
  <2>3. Shapes'
    BY <1>1, <2>1
  <2>4. OneAtATime' /\ LockEnds' /\ RefreshIsOwed'
    BY <1>1, <2>1
  <2>5. ShownOrPending'
    <3>1. CASE Pending
      BY <1>1, <2>1, <3>1 DEF ShownOrPending, Pending, ChangeQueued, ChangeUnsent
    <3>2. CASE ~Pending
      BY <1>1, <2>1, <2>2, <3>2 DEF ShownOrPending, Pending, LastIsTrue, True, ChangeQueued, ChangeUnsent,
                NoRefreshQueued, NoRefreshUnsent, IsLast
    <3> QED BY <3>1, <3>2
  <2> QED BY <2>3, <2>4, <2>5
<1>2. ASSUME NEW c, NEW v, Stage(c, v) PROVE ExtraInv'
  <2>1. /\ UNCHANGED <<hw, memo, queue, unsent, refreshing, reads, mutating, tasks, hist>>
        /\ dirty' = TRUE /\ ~win.applying
        /\ win' = [win EXCEPT !.shown[c] = v, !.apply = TRUE]
    BY <1>2 DEF Stage
  <2>2. Shapes' /\ OneAtATime' /\ LockEnds' /\ RefreshIsOwed'
    BY <2>1
  <2>3. ShownOrPending'
    BY <2>1 DEF ShownOrPending, Pending, LastIsTrue, True, ChangeQueued, ChangeUnsent,
                NoRefreshQueued, NoRefreshUnsent, IsLast
  <2> QED BY <2>2, <2>3
<1>3. CASE Apply
  <2> DEFINE w == [win EXCEPT !.apply = FALSE]
             staged == win.ready \cap Staged
             t == [kind |-> "apply", val |-> win.shown, ready |-> staged,
                   todo |-> SelectSeq(Order, LAMBDA c : c \in staged), done |-> {}]
  <2>1. /\ IsWindow(w)
        /\ w.shown = win.shown
    <3> HIDE DEF w
    <3>1. w = [win EXCEPT !.apply = FALSE]
      BY DEF w
    <3> QED BY <3>1, WindowIs
  <2>2. Begin(w, t) /\ UNCHANGED <<hw, memo, queue, unsent, refreshing, reads, dirty>>
    BY <1>3 DEF Apply
  <2> QED BY <1>1, <2>1, <2>2
<1>4. ASSUME NEW c, NEW v, RequestDirect(c, v) PROVE ExtraInv'
  <2> DEFINE t == [kind |-> c, val |-> [win.shown EXCEPT ![c] = v], ready |-> {},
                   todo |-> <<c>>, done |-> {}]
  <2>1. Begin(win, t) /\ c \in Direct /\ UNCHANGED <<hw, memo, queue, unsent, refreshing, reads, dirty>>
    BY <1>4 DEF RequestDirect
  <2>2. c # "clamshell"
    BY <2>1, ControlsAssumption
  <2> QED BY <1>1, <2>1, <2>2
<1>5. CASE RequestClamshell
  <2> DEFINE t == [kind |-> "clamshell", val |-> win.shown, ready |-> {}, todo |-> <<>>,
                   done |-> {}]
  <2>1. Begin(win, t) /\ UNCHANGED <<hw, memo, queue, unsent, refreshing, reads, dirty>>
    BY <1>5 DEF RequestClamshell
  <2> QED BY <1>1, <2>1
<1>6. CASE Reload
  <2>1. /\ Refresh(win, TRUE) /\ hist' = [hist EXCEPT !.moved = Moved({})] /\ ~win.applying
        /\ UNCHANGED <<hw, memo, queue, unsent, mutating, tasks, dirty>>
    BY <1>6 DEF Reload
  <2>2. /\ refreshing' = (reads' # {}) /\ \A r, s \in reads' : r = s
        /\ hist'.owed = hist.owed
        /\ IsHistory(hist')
        /\ \A r \in reads' : IsRead(r)
        /\ \/ reads' = reads /\ hist'.moved = hist.moved \cup {} /\ win' = win
           \/ reads' # {} /\ \A c \in Controls \ hist'.moved : LastIsTrue(c)'
    BY <2>1, RefreshStarts
  <2>3. /\ IsWindow(win')
        /\ ~win'.applying
    BY <2>1 DEF Refresh
  <2>4. Shapes'
    BY <2>1, <2>2, <2>3
  <2>5. OneAtATime' /\ LockEnds' /\ RefreshIsOwed'
    BY <2>1, <2>2, <2>3
  <2>6. Pending' <=> Pending
    BY <2>1 DEF Pending, ChangeQueued, ChangeUnsent
  <2>7. ASSUME reads' = reads, hist'.moved = hist.moved \cup {}, win' = win
        PROVE  ShownOrPending'
    <3>1. UNCHANGED <<hw, memo, win, queue, unsent, reads, dirty>>
      BY <2>1, <2>7
    <3>2. \A c \in Controls : LastIsTrue(c)' <=> LastIsTrue(c)
      BY <3>1 DEF LastIsTrue, True, NoRefreshQueued, NoRefreshUnsent, IsLast
    <3>3. \A c \in Controls \ hist'.moved : c \notin hist.moved
      <4>1. hist'.moved = hist.moved \cup {}
        BY <2>7
      <4> QED BY <4>1
    <3> QED BY <2>6, <3>2, <3>3 DEF ShownOrPending
  <2>8. (\A c \in Controls \ hist'.moved : LastIsTrue(c)') => ShownOrPending'
    BY DEF ShownOrPending
  <2>9. ShownOrPending'
    BY <2>2, <2>7, <2>8
  <2> QED BY <2>4, <2>5, <2>9
<1> QED BY <1>2, <1>3, <1>4, <1>5, <1>6 DEF User

(* A closure is queued, and the next one is run.                           *)
LEMMA QueueGrows ==
  ASSUME IsSeq(queue), NEW q, queue' = Append(queue, q)
  PROVE  /\ IsSeq(queue)' /\ queue' # <<>>
         /\ ChangeQueued' <=> ChangeQueued \/ Changes(q.op)
         /\ RestQueued' <=> RestQueued \/ q.op # "clamshell"
         /\ NoRefreshQueued' <=> NoRefreshQueued /\ q.op # "refresh"
         /\ \A i \in 1 .. Len(queue)' : IsLast(i)' =>
              IF q.op = "refresh" THEN queue'[i] = q ELSE IsLast(i) /\ queue'[i] = queue[i]
<1> DEFINE n == Len(queue)
<1>1. /\ IsSeq(queue') /\ queue' # <<>> /\ n \in Nat /\ Len(queue') = n + 1
      /\ \A i \in 1 .. n : queue'[i] = queue[i]
      /\ queue'[n + 1] = q
  BY AppendIs
<1> HIDE DEF n
<1>2. 1 .. n + 1 = (1 .. n) \cup {n + 1}
  BY <1>1
<1>3. /\ ChangeQueued' <=> ChangeQueued \/ Changes(q.op)
      /\ RestQueued' <=> RestQueued \/ q.op # "clamshell"
      /\ NoRefreshQueued' <=> NoRefreshQueued /\ q.op # "refresh"
  BY <1>1, <1>2 DEF n, ChangeQueued, RestQueued, NoRefreshQueued
<1>4. ASSUME NEW i \in 1 .. Len(queue'), IsLast(i)'
      PROVE  IF q.op = "refresh" THEN queue'[i] = q ELSE IsLast(i) /\ queue'[i] = queue[i]
  <2>1. /\ i \in 1 .. n + 1 /\ queue'[i].op = "refresh"
        /\ \A j \in 1 .. n + 1 : j > i => queue'[j].op # "refresh"
    BY <1>1, <1>4 DEF IsLast
  <2>2. CASE q.op = "refresh"
    <3>1. ~(n + 1 > i)
      BY <1>1, <2>1, <2>2
    <3> QED BY <1>1, <2>1, <2>2, <3>1
  <2>3. CASE q.op # "refresh"
    <3>1. i \in 1 .. n /\ queue'[i] = queue[i]
      BY <1>1, <2>1, <2>3
    <3>2. \A j \in 1 .. n : j > i => queue[j].op # "refresh"
      BY <1>1, <1>2, <2>1
    <3> QED BY <2>1, <2>3, <3>1, <3>2 DEF IsLast, n
  <2> QED BY <2>2, <2>3
<1> QED BY <1>1, <1>3, <1>4

LEMMA QueueShrinks ==
  ASSUME IsSeq(queue), queue # <<>>, queue' = Tail(queue)
  PROVE  /\ IsSeq(queue)'
         /\ ChangeQueued <=> ChangeQueued' \/ Changes(Head(queue).op)
         /\ RestQueued <=> RestQueued' \/ Head(queue).op # "clamshell"
         /\ NoRefreshQueued' /\ Head(queue).op = "refresh" => IsLast(1) /\ queue[1] = Head(queue)
                                                              /\ 1 \in 1 .. Len(queue)
         /\ NoRefreshQueued' /\ Head(queue).op # "refresh" => NoRefreshQueued
         /\ \A i \in 1 .. Len(queue)' : IsLast(i)' =>
              \E j \in 1 .. Len(queue) : IsLast(j) /\ queue'[i] = queue[j]
<1> DEFINE n == Len(queue)
           q == Head(queue)
<1>1. /\ IsSeq(queue') /\ n \in Nat \ {0} /\ Len(queue') = n - 1 /\ q = queue[1]
      /\ \A i \in 1 .. n - 1 : queue'[i] = queue[i + 1]
  BY TailIs
<1> HIDE DEF n, q
<1>2. ASSUME NEW i \in 1 .. n, i # 1 PROVE i - 1 \in 1 .. n - 1 /\ queue[i] = queue'[i - 1]
  <2>1. i - 1 \in 1 .. n - 1 /\ (i - 1) + 1 = i
    BY <1>1, <1>2
  <2> QED BY <1>1, <2>1
<1>3. \A i \in 1 .. n - 1 : i + 1 \in 1 .. n
  BY <1>1
<1>4. 1 \in 1 .. n
  BY <1>1
<1>5. /\ ChangeQueued <=> ChangeQueued' \/ Changes(q.op)
      /\ RestQueued <=> RestQueued' \/ q.op # "clamshell"
  <2>1. /\ ChangeQueued <=> \E i \in 1 .. n : Changes(queue[i].op)
        /\ RestQueued <=> \E i \in 1 .. n : queue[i].op # "clamshell"
    BY DEF n, ChangeQueued, RestQueued
  <2>2. /\ ChangeQueued' <=> \E i \in 1 .. n - 1 : Changes(queue'[i].op)
        /\ RestQueued' <=> \E i \in 1 .. n - 1 : queue'[i].op # "clamshell"
    BY <1>1 DEF ChangeQueued, RestQueued
  <2>3. (\E i \in 1 .. n : Changes(queue[i].op)) <=>
          (\E i \in 1 .. n - 1 : Changes(queue'[i].op)) \/ Changes(q.op)
    BY <1>1, <1>2, <1>3, <1>4
  <2>4. (\E i \in 1 .. n : queue[i].op # "clamshell") <=>
          (\E i \in 1 .. n - 1 : queue'[i].op # "clamshell") \/ q.op # "clamshell"
    BY <1>1, <1>2, <1>3, <1>4
  <2> QED BY <2>1, <2>2, <2>3, <2>4
<1>6. NoRefreshQueued' => \A j \in 1 .. n : j # 1 => queue[j].op # "refresh"
  BY <1>1, <1>2 DEF NoRefreshQueued
<1>7. NoRefreshQueued' /\ q.op = "refresh" => IsLast(1)
  <2>1. \A j \in 1 .. n : j > 1 => j # 1
    BY <1>1
  <2> QED BY <1>1, <1>4, <1>6, <2>1 DEF IsLast, n
<1>8. NoRefreshQueued' /\ q.op # "refresh" => NoRefreshQueued
  BY <1>1, <1>6 DEF NoRefreshQueued, n
<1>9. ASSUME NEW i \in 1 .. Len(queue'), IsLast(i)'
      PROVE  IsLast(i + 1) /\ i + 1 \in 1 .. n /\ queue'[i] = queue[i + 1]
  <2>1. /\ i \in 1 .. n - 1 /\ queue'[i].op = "refresh"
        /\ \A j \in 1 .. n - 1 : j > i => queue'[j].op # "refresh"
    BY <1>1, <1>9 DEF IsLast
  <2>2. ASSUME NEW j \in 1 .. n, j > i + 1 PROVE queue[j].op # "refresh"
    <3>1. j # 1 /\ j - 1 > i
      BY <1>1, <2>1, <2>2
    <3> QED BY <1>2, <2>1, <3>1
  <2> QED BY <1>1, <1>3, <2>1, <2>2 DEF IsLast, n
<1> QED BY <1>1, <1>4, <1>5, <1>7, <1>8, <1>9 DEF n, q

(* A task leaves its closure to be sent; one of them is sent.              *)
LEMMA UnsentGrows ==
  ASSUME IsSeq(unsent), NEW q, unsent' = Append(unsent, q)
  PROVE  /\ IsSeq(unsent)' /\ unsent' # <<>>
         /\ ChangeUnsent' <=> ChangeUnsent \/ Changes(q.op)
         /\ RestUnsent' <=> RestUnsent \/ q.op # "clamshell"
         /\ NoRefreshUnsent' <=> NoRefreshUnsent /\ q.op # "refresh"
         /\ \A i \in 1 .. Len(unsent)' :
              unsent'[i] = q \/ (i \in 1 .. Len(unsent) /\ unsent'[i] = unsent[i])
<1> DEFINE n == Len(unsent)
<1>1. /\ IsSeq(unsent') /\ unsent' # <<>> /\ n \in Nat /\ Len(unsent') = n + 1
      /\ \A i \in 1 .. n : unsent'[i] = unsent[i]
      /\ unsent'[n + 1] = q
  BY AppendIs
<1> HIDE DEF n
<1>2. 1 .. n + 1 = (1 .. n) \cup {n + 1}
  BY <1>1
<1>3. /\ ChangeUnsent' <=> ChangeUnsent \/ Changes(q.op)
      /\ RestUnsent' <=> RestUnsent \/ q.op # "clamshell"
      /\ NoRefreshUnsent' <=> NoRefreshUnsent /\ q.op # "refresh"
  BY <1>1, <1>2 DEF n, ChangeUnsent, RestUnsent, NoRefreshUnsent
<1> QED BY <1>1, <1>2, <1>3 DEF n

LEMMA UnsentShrinks ==
  ASSUME IsSeq(unsent), NEW i \in DOMAIN unsent, unsent' = RemoveAt(unsent, i)
  PROVE  /\ IsSeq(unsent)' /\ i \in 1 .. Len(unsent)
         /\ ChangeUnsent <=> ChangeUnsent' \/ Changes(unsent[i].op)
         /\ RestUnsent <=> RestUnsent' \/ unsent[i].op # "clamshell"
         /\ NoRefreshUnsent <=> NoRefreshUnsent' /\ unsent[i].op # "refresh"
         /\ \A j \in 1 .. Len(unsent)' : \E k \in 1 .. Len(unsent) : unsent'[j] = unsent[k]
<1>1. i \in 1 .. Len(unsent)
  BY DEF IsSeq
<1>2. /\ IsSeq(unsent')
      /\ \A j \in 1 .. Len(unsent') : \E k \in 1 .. Len(unsent) : unsent'[j] = unsent[k]
      /\ \A k \in 1 .. Len(unsent) :
           k = i \/ \E j \in 1 .. Len(unsent') : unsent'[j] = unsent[k]
  BY <1>1, RemoveAtIs
<1>3. ChangeUnsent <=> ChangeUnsent' \/ Changes(unsent[i].op)
  BY <1>1, <1>2 DEF ChangeUnsent
<1>4. RestUnsent <=> RestUnsent' \/ unsent[i].op # "clamshell"
  <2> DEFINE Rest(q) == q.op # "clamshell"
  <2> HIDE DEF Rest
  <2>1. (\E k \in 1 .. Len(unsent) : Rest(unsent[k])) <=>
          (\E j \in 1 .. Len(unsent') : Rest(unsent'[j])) \/ Rest(unsent[i])
    BY <1>1, <1>2
  <2> QED BY <2>1 DEF Rest, RestUnsent
<1>5. NoRefreshUnsent <=> NoRefreshUnsent' /\ unsent[i].op # "refresh"
  BY <1>1, <1>2 DEF NoRefreshUnsent
<1> QED BY <1>1, <1>2, <1>3, <1>4, <1>5

LEMMA ReadsInv == ExtraInv /\ Refreshes => ExtraInv'
<1> SUFFICES ASSUME ExtraInv, NEW r \in reads,
                    EndRefresh(r) \/ \E c \in Controls : ReadControl(r, c)
             PROVE  ExtraInv'
  BY DEF Refreshes
<1> USE DEF ExtraInv, Shapes, IsWindow, IsHistory, IsRead, IsTask, OneAtATime, LockEnds, RefreshIsOwed
<1>1. ASSUME NEW c \in Controls, ReadControl(r, c) PROVE ExtraInv'
  <2>1. PICK o \in Observed(c) : reads' = (reads \ {r}) \cup {[r EXCEPT !.obs[c] = o]}
    BY <1>1 DEF ReadControl
  <2> DEFINE s == [r EXCEPT !.obs[c] = o]
  <2>2. /\ UNCHANGED <<hw, memo, win, queue, unsent, refreshing, mutating, tasks, dirty, hist>>
        /\ reads' = {s} /\ o \in {hw[c], Missing}
    BY <1>1, <2>1 DEF ReadControl, flags, Observed
  <2>3. IsRead(s)
    OBVIOUS
  <2>4. \A d \in Controls : s.obs[d] = IF d = c THEN o ELSE r.obs[d]
    OBVIOUS
  <2> HIDE DEF s
  <2>5. Shapes' /\ OneAtATime' /\ LockEnds' /\ RefreshIsOwed'
    BY <2>2, <2>3 DEF RestQueued, RestUnsent
  <2>6. Pending' <=> Pending
    BY <2>2 DEF Pending, ChangeQueued, ChangeUnsent
  <2>7. \A d \in Controls : LastIsTrue(d) => LastIsTrue(d)'
    BY <2>2, <2>4 DEF LastIsTrue, True
  <2> QED BY <2>2, <2>5, <2>6, <2>7 DEF ShownOrPending
<1>2. CASE EndRefresh(r)
  <2>1. PICK q : /\ unsent' = Append(unsent, q) /\ q.op = "refresh"
                 /\ q.obs = [c \in Controls |->
                               IF c = "aura" /\ memo' # {} /\ r.obs[c] # Missing
                               THEN (CHOOSE m \in memo' : TRUE).sent
                               ELSE r.obs[c]]
    <3> DEFINE obs == [c \in Controls |->
                        IF c = "aura" /\ memo' # {} /\ r.obs[c] # Missing
                        THEN (CHOOSE m \in memo' : TRUE).sent
                        ELSE r.obs[c]]
    <3>1. PICK statuses, clam :
            unsent' = Append(unsent, [op |-> "refresh", reconcile |-> r.reconcile, obs |-> obs,
                                      statuses |-> statuses, clam |-> clam])
      BY <1>2 DEF EndRefresh
    <3> HIDE DEF obs
    <3> DEFINE q == [op |-> "refresh", reconcile |-> r.reconcile, obs |-> obs,
                     statuses |-> statuses, clam |-> clam]
    <3>2. unsent' = Append(unsent, q) /\ q.op = "refresh" /\ q.obs = obs
      BY <3>1
    <3> QED BY <3>2 DEF obs
  <2>2. /\ UNCHANGED <<hw, win, queue, mutating, tasks, dirty, hist>>
        /\ reads' = {} /\ refreshing' = FALSE
        /\ \A c \in Controls : r.obs[c] # Unread
    BY <1>2 DEF EndRefresh
  <2>3. /\ IsSeq(unsent') /\ unsent' # <<>>
        /\ ChangeUnsent' <=> ChangeUnsent \/ Changes(q.op)
        /\ RestUnsent' /\ ~NoRefreshUnsent'
        /\ \A i \in 1 .. Len(unsent') :
             unsent'[i] = q \/ (i \in 1 .. Len(unsent) /\ unsent'[i] = unsent[i])
    BY <2>1, UnsentGrows
  <2>4. Shapes' /\ OneAtATime' /\ LockEnds' /\ RefreshIsOwed'
    BY <2>2, <2>3
  <2>5. Pending' <=> Pending
    BY <2>1, <2>2, <2>3 DEF Pending, Changes, ChangeQueued
  <2>6. ASSUME NEW c \in Controls, LastIsTrue(c) PROVE LastIsTrue(c)'
    <3>1. q.obs[c] \in {hw[c], Missing} \cup (IF c = "aura" THEN {m.sent : m \in memo'} ELSE {})
      BY <2>1, <2>2, <2>6 DEF LastIsTrue
    <3>2. \A i \in 1 .. Len(unsent) : unsent[i].op = "refresh" =>
            unsent[i].obs[c] \in {hw[c], Missing}
      BY <2>6 DEF LastIsTrue
    <3>3. \A i \in 1 .. Len(unsent') : unsent'[i].op = "refresh" =>
            unsent'[i].obs[c] \in {hw'[c], Missing}
                                   \cup (IF c = "aura" THEN {m.sent : m \in memo'} ELSE {})
      BY <2>2, <2>3, <3>1, <3>2
    <3> QED BY <2>2, <2>3, <3>3 DEF LastIsTrue, True
  <2> QED BY <2>2, <2>4, <2>5, <2>6 DEF ShownOrPending
<1> QED BY <1>1, <1>2

LEMMA TaskInv == ExtraInv /\ Mutations => ExtraInv'
<1> SUFFICES ASSUME ExtraInv, NEW t \in tasks,
                    \/ WriteOk(t) \/ SendAround(t) \/ WriteFails(t) \/ WriteTimesOut(t)
                    \/ Finish(t)
             PROVE  ExtraInv'
  BY DEF Mutations
<1> USE DEF ExtraInv, Shapes, IsWindow, IsHistory, IsRead, IsTask, OneAtATime, LockEnds, RefreshIsOwed
<1>1. CASE WriteOk(t) \/ SendAround(t)
  <2> DEFINE u == Wrote(t)
  <2>1. /\ t.todo # <<>> /\ tasks' = {u}
        /\ UNCHANGED <<win, queue, unsent, refreshing, mutating, dirty, reads>>
    BY <1>1 DEF WriteOk, SendAround, flags
  <2>2. u.kind = t.kind
        /\ IsTask(u)
    BY WroteIs
  <2> HIDE DEF u
  <2>3. DOMAIN hw' = Controls
    BY <1>1 DEF WriteOk, SendAround
  <2>4. /\ IsHistory(hist')
        /\ hist'.owed = hist.owed
    BY <1>1 DEF WriteOk, SendAround
  <2>5. t.kind # "clamshell"
    BY <2>1
  <2>6. Shapes'
    BY <2>1, <2>2, <2>3, <2>4, <2>5
  <2>7. OneAtATime' /\ LockEnds' /\ RefreshIsOwed'
    BY <2>1, <2>2, <2>4, <2>5 DEF RestQueued, RestUnsent
  <2>8. ShownOrPending'
    BY <2>1, <2>2, <2>5 DEF ShownOrPending, Pending
  <2> QED BY <2>6, <2>7, <2>8
<1>2. ASSUME NEW result, End(t, result), DOMAIN hw' = Controls,
             t.kind = "clamshell" => UNCHANGED hw
      PROVE  ExtraInv'
  <2> DEFINE q == [op |-> t.kind, result |-> result, val |-> t.val, ready |-> t.ready,
                   done |-> t.done]
  <2>1. /\ unsent' = Append(unsent, q) /\ q.op = t.kind /\ mutating' = FALSE /\ tasks' = {}
        /\ UNCHANGED <<memo, win, queue, refreshing, reads, dirty, hist>>
    BY <1>2 DEF End
  <2>2. t.kind # "refresh"
    BY ControlsAssumption
  <2> HIDE DEF q
  <2>3. /\ IsSeq(unsent') /\ unsent' # <<>>
        /\ ChangeUnsent' <=> ChangeUnsent \/ Changes(q.op)
        /\ RestUnsent' <=> RestUnsent \/ q.op # "clamshell"
        /\ NoRefreshUnsent' <=> NoRefreshUnsent
        /\ \A i \in 1 .. Len(unsent') :
             unsent'[i] = q \/ (i \in 1 .. Len(unsent) /\ unsent'[i] = unsent[i])
    BY <2>1, <2>2, UnsentGrows
  <2>4. Shapes' /\ OneAtATime' /\ LockEnds' /\ RefreshIsOwed'
    BY <1>2, <2>1, <2>3 DEF RestQueued
  <2>5. CASE t.kind # "clamshell"
    BY <2>1, <2>2, <2>3, <2>4, <2>5 DEF ShownOrPending, Pending, Changes
  <2>6. CASE t.kind = "clamshell"
    <3>1. Pending' <=> Pending
      BY <2>1, <2>3, <2>6 DEF Pending, Changes, ChangeQueued
    <3>2. ASSUME NEW c \in Controls, LastIsTrue(c) PROVE LastIsTrue(c)'
      <4>1. UNCHANGED <<hw, memo, win, queue, reads, dirty>>
        BY <1>2, <2>1, <2>6
      <4>2. \A v : True(c, v)' <=> True(c, v)
        BY <4>1 DEF True
      <4>3. \A i \in 1 .. Len(unsent') : unsent'[i].op = "refresh" =>
              i \in 1 .. Len(unsent) /\ unsent'[i] = unsent[i]
        BY <2>1, <2>2, <2>3
      <4>4. NoRefreshQueued' <=> NoRefreshQueued
        BY <4>1 DEF NoRefreshQueued
      <4>5. \A i : IsLast(i)' <=> IsLast(i)
        BY <4>1 DEF IsLast
      <4> QED BY <2>3, <3>2, <4>1, <4>2, <4>3, <4>4, <4>5 DEF LastIsTrue
    <3> QED BY <2>1, <2>4, <3>1, <3>2 DEF ShownOrPending
  <2> QED BY <2>5, <2>6
<1>3. CASE WriteFails(t) \/ WriteTimesOut(t)
  <2>1. t.kind # "clamshell"
    BY <1>3 DEF WriteFails, WriteTimesOut
  <2>2. DOMAIN hw' = Controls
    BY <1>3 DEF WriteFails, WriteTimesOut
  <2>3. End(t, "failed") \/ End(t, "timeout")
    BY <1>3 DEF WriteFails, WriteTimesOut
  <2> QED BY <1>2, <2>1, <2>2, <2>3
<1>4. CASE Finish(t)
  <2>1. UNCHANGED hw /\ End(t, "ok")
    BY <1>4 DEF Finish
  <2> QED BY <1>2, <2>1
<1> QED BY <1>1, <1>3, <1>4

(* A closure is sent.                                                      *)
LEMMA SendsInv == ExtraInv /\ Sends => ExtraInv'
<1> SUFFICES ASSUME ExtraInv, NEW i \in DOMAIN unsent, SendClosure(i) PROVE ExtraInv'
  BY DEF Sends
<1> DEFINE q == unsent[i]
<1> USE DEF ExtraInv, Shapes, OneAtATime, LockEnds, RefreshIsOwed
<1>1. /\ queue' = Append(queue, q) /\ unsent' = RemoveAt(unsent, i)
      /\ UNCHANGED <<hw, memo, win, refreshing, reads, mutating, tasks, dirty, hist>>
  BY DEF SendClosure, flags
<1>2. /\ IsSeq(unsent') /\ i \in 1 .. Len(unsent)
      /\ ChangeUnsent <=> ChangeUnsent' \/ Changes(q.op)
      /\ RestUnsent <=> RestUnsent' \/ q.op # "clamshell"
      /\ NoRefreshUnsent <=> NoRefreshUnsent' /\ q.op # "refresh"
      /\ \A j \in 1 .. Len(unsent') : \E k \in 1 .. Len(unsent) : unsent'[j] = unsent[k]
  BY <1>1, UnsentShrinks
<1>3. /\ IsSeq(queue') /\ queue' # <<>>
      /\ ChangeQueued' <=> ChangeQueued \/ Changes(q.op)
      /\ RestQueued' <=> RestQueued \/ q.op # "clamshell"
      /\ NoRefreshQueued' <=> NoRefreshQueued /\ q.op # "refresh"
      /\ \A j \in 1 .. Len(queue') : IsLast(j)' =>
           IF q.op = "refresh" THEN queue'[j] = q ELSE IsLast(j) /\ queue'[j] = queue[j]
  BY <1>1, QueueGrows
<1> HIDE DEF q
<1>4. Shapes'
  BY <1>1, <1>2, <1>3
<1>5. OneAtATime' /\ LockEnds' /\ RefreshIsOwed'
  BY <1>1, <1>2, <1>3
<1>6. Pending' <=> Pending
  BY <1>1, <1>2, <1>3 DEF Pending
<1>7. ASSUME NEW c \in Controls, LastIsTrue(c) PROVE LastIsTrue(c)'
  <2>1. \A v : True(c, v)' <=> True(c, v)
    BY <1>1 DEF True
  <2>2. \A j \in 1 .. Len(unsent') : unsent'[j].op = "refresh" =>
          /\ True(c, unsent'[j].obs[c])
          /\ reads # {} => unsent'[j].obs[c] \in {hw[c], Missing}
    BY <1>2, <1>7 DEF LastIsTrue
  <2>3. CASE q.op = "refresh"
    <3>1. True(c, q.obs[c])
      BY <1>2, <1>7, <2>3 DEF LastIsTrue, q
    <3> QED BY <1>1, <1>3, <1>7, <2>1, <2>2, <2>3, <3>1 DEF LastIsTrue
  <2>4. CASE q.op # "refresh"
    <3>1. \A j \in 1 .. Len(queue') : IsLast(j)' => j \in 1 .. Len(queue)
      BY <1>3, <2>4 DEF IsLast
    <3> QED BY <1>1, <1>2, <1>3, <1>7, <2>1, <2>2, <2>4, <3>1 DEF LastIsTrue
  <2> QED BY <2>3, <2>4
<1> QED BY <1>1, <1>4, <1>5, <1>6, <1>7 DEF ShownOrPending

LEMMA LoopInv == ExtraInv /\ EventLoop => ExtraInv'
<1> SUFFICES ASSUME ExtraInv, EventLoop PROVE ExtraInv'
  OBVIOUS
<1> DEFINE q == Head(queue)
<1> USE DEF ExtraInv, Shapes, IsWindow, IsHistory, IsRead, IsTask, OneAtATime, LockEnds, RefreshIsOwed,
           RestUnsent
<1>1. /\ queue # <<>> /\ queue' = Tail(queue)
      /\ q.op \in {"refresh", "apply", "clamshell"} \cup Direct
      /\ UNCHANGED <<hw, memo, unsent, mutating, tasks>>
  BY DEF EventLoop, ShowRefresh, ShowApplied, ShowDirect, ShowClamshell
<1>2. /\ IsSeq(queue')
      /\ ChangeQueued <=> ChangeQueued' \/ Changes(q.op)
      /\ RestQueued <=> RestQueued' \/ q.op # "clamshell"
      /\ NoRefreshQueued' /\ q.op = "refresh" => IsLast(1) /\ queue[1] = q /\ 1 \in 1 .. Len(queue)
      /\ NoRefreshQueued' /\ q.op # "refresh" => NoRefreshQueued
      /\ \A i \in 1 .. Len(queue') : IsLast(i)' =>
           \E j \in 1 .. Len(queue) : IsLast(j) /\ queue'[i] = queue[j]
  BY <1>1, QueueShrinks
<1> HIDE DEF q
<1>3. CASE ShowRefresh
  <2> DEFINE w == [shown |-> win'.shown, ready |-> win'.ready, clam |-> win'.clam,
                   applying |-> FALSE, apply |-> win'.apply]
  <2>1. /\ q.op = "refresh" /\ win'.shown = q.obs /\ win' = w
        /\ UNCHANGED <<refreshing, reads>>
        /\ hist' = [hist EXCEPT !.owed = "none"]
    BY <1>3 DEF ShowRefresh, q
  <2>2. Shapes' /\ OneAtATime' /\ LockEnds' /\ RefreshIsOwed'
    BY <1>1, <1>2, <2>1
  <2>3. Pending' <=> Pending
    BY <1>1, <1>2, <2>1 DEF Pending, Changes, ChangeUnsent
  <2>4. ASSUME NEW c \in Controls, LastIsTrue(c) PROVE LastIsTrue(c)'
    BY <1>1, <1>2, <2>1, <2>4 DEF LastIsTrue, True, NoRefreshUnsent
  <2>5. hist'.moved = hist.moved
    BY <2>1
  <2> QED BY <2>2, <2>3, <2>4, <2>5 DEF ShownOrPending
<1>4. ASSUME NEW w, NEW reconcile, Refresh(w, reconcile), ~w.applying,
             IsWindow(w),
             hist' = [hist EXCEPT !.moved = Moved(Controls)]
      PROVE  ExtraInv'
  <2>1. /\ reads' # {} \/ tasks' # {}
        /\ refreshing' = (reads' # {}) /\ \A r, s \in reads' : r = s
        /\ hist'.owed = hist.owed
        /\ IsHistory(hist')
        /\ \A r \in reads' : IsRead(r)
        /\ \/ reads' = reads /\ hist'.moved = hist.moved \cup Controls /\ win' = w
           \/ reads' # {} /\ \A c \in Controls \ hist'.moved : LastIsTrue(c)'
    BY <1>1, <1>4, RefreshStarts
  <2>2. /\ IsWindow(win')
        /\ ~win'.applying
    BY <1>4 DEF Refresh
  <2>3. Shapes'
    BY <1>1, <1>2, <2>1, <2>2
  <2>4. OneAtATime' /\ LockEnds' /\ RefreshIsOwed'
    BY <1>1, <1>2, <2>1, <2>2
  <2>5. ShownOrPending'
    BY <2>1 DEF ShownOrPending
  <2> QED BY <2>3, <2>4, <2>5
<1>5. CASE ShowApplied
  <2> DEFINE w == [win EXCEPT !.applying = FALSE]
  <2>1. /\ Refresh(w, q.result # "timeout") /\ hist' = [hist EXCEPT !.moved = Moved(Controls)]
    BY <1>5 DEF ShowApplied, q
  <2>2. /\ IsWindow(w)
        /\ ~w.applying
    <3> HIDE DEF w
    <3>1. w = [win EXCEPT !.applying = FALSE]
      BY DEF w
    <3> QED BY <3>1, UnlockedIs
  <2> QED BY <1>4, <2>1, <2>2
<1>6. CASE ShowDirect
  <2> DEFINE value == IF q.result = "ok" THEN q.val[q.op] ELSE win.shown[q.op]
             values == [win.shown EXCEPT ![q.op] = value]
             w == [win EXCEPT !.applying = FALSE, !.shown = values]
  <2>1. /\ Refresh(w, TRUE) /\ hist' = [hist EXCEPT !.moved = Moved(Controls)]
    BY <1>6 DEF ShowDirect, q
  <2> HIDE DEF values
  <2>2. /\ IsWindow(w)
        /\ ~w.applying
    <3> HIDE DEF w
    <3>1. w = [win EXCEPT !.applying = FALSE, !.shown = values]
      BY DEF w
    <3> QED BY <3>1, UnlockedIs
  <2> QED BY <1>4, <2>1, <2>2
<1>7. CASE ShowClamshell
  <2>1. PICK clam \in BOOLEAN : win' = [win EXCEPT !.applying = FALSE, !.clam = clam]
    BY <1>7 DEF ShowClamshell
  <2>2. /\ q.op = "clamshell" /\ UNCHANGED <<refreshing, reads, dirty, hist>>
    BY <1>7 DEF ShowClamshell, q
  <2>3. /\ IsWindow(win')
        /\ ~win'.applying /\ win'.shown = win.shown
    BY <2>1
  <2>4. Shapes' /\ OneAtATime' /\ LockEnds' /\ RefreshIsOwed'
    BY <1>1, <1>2, <2>2, <2>3
  <2>5. Pending' <=> Pending
    BY <1>1, <1>2, <2>2 DEF Pending, Changes, ChangeUnsent
  <2>6. ASSUME NEW c \in Controls, LastIsTrue(c) PROVE LastIsTrue(c)'
    BY <1>1, <1>2, <2>2, <2>3, <2>6 DEF LastIsTrue, True, NoRefreshUnsent
  <2> QED BY <2>2, <2>4, <2>5, <2>6 DEF ShownOrPending
<1> QED BY <1>3, <1>5, <1>6, <1>7 DEF EventLoop

LEMMA ExtraNextInv == ExtraInv /\ Next => ExtraInv'
<1> SUFFICES ASSUME ExtraInv, Next PROVE ExtraInv'
  OBVIOUS
<1> USE DEF ExtraInv, Shapes, IsWindow, IsHistory, IsRead, IsTask, OneAtATime, LockEnds, RefreshIsOwed
<1>1. CASE QuickRefresh
  <2>1. /\ UNCHANGED <<hw, memo, queue, unsent, refreshing, reads, mutating, tasks, dirty, hist>>
        /\ IsWindow(win')
        /\ win'.applying = win.applying /\ win'.shown = win.shown
    BY <1>1 DEF QuickRefresh, flags
  <2>2. Shapes' /\ OneAtATime' /\ LockEnds' /\ RefreshIsOwed'
    BY <2>1 DEF RestQueued, RestUnsent
  <2>3. ShownOrPending'
    BY <2>1 DEF ShownOrPending, Pending, LastIsTrue, True, ChangeQueued, ChangeUnsent,
                NoRefreshQueued, NoRefreshUnsent, IsLast
  <2> QED BY <2>2, <2>3
<1>2. ASSUME NEW c, NEW v, hw' = [hw EXCEPT ![c] = v],
             hist' = [hist EXCEPT !.moved = @ \cup {c}],
             UNCHANGED <<memo, win, queue, unsent, flags, reads, tasks>>
      PROVE  ExtraInv'
  <2>1. /\ UNCHANGED <<memo, win, queue, unsent, refreshing, reads, mutating, tasks, dirty>>
        /\ IsHistory(hist')
        /\ hist'.owed = hist.owed /\ hist'.moved = hist.moved \cup {c}
        /\ DOMAIN hw' = Controls /\ \A d \in Controls : d # c => hw'[d] = hw[d]
    BY <1>2 DEF flags
  <2>2. Shapes' /\ OneAtATime' /\ LockEnds' /\ RefreshIsOwed'
    BY <2>1 DEF RestQueued, RestUnsent
  <2>3. ShownOrPending'
    BY <2>1 DEF ShownOrPending, Pending, LastIsTrue, True, ChangeQueued, ChangeUnsent,
                NoRefreshQueued, NoRefreshUnsent, IsLast
  <2> QED BY <2>2, <2>3
<1>3. CASE Environment
  BY <1>2, <1>3 DEF Environment, Land, Foreign
<1> QED BY <1>1, <1>3, ExtraUserInv, ReadsInv, TaskInv, SendsInv, LoopInv DEF Next

-----------------------------------------------------------------------------
(* Quick controls.                                                         *)

WroteQueued == \E i \in 1 .. Len(events) : events[i].kind = "wrote"
LastEvent == events[Len(events)]
IsLook(k) == k = [stage |-> k.stage, level |-> k.level, usable |-> k.usable]

LooksAre ==
  /\ led = [set |-> led.set, seen |-> led.seen]
  /\ past = [behind |-> past.behind, foreign |-> past.foreign]
  /\ IsSeq(events)
  /\ \A k \in looks : IsLook(k)
  /\ looking = TRUE => \E k \in looks : k.stage = "read"

(* Unless a refresh is behind, there is no other next to it; and if        *)
(* nothing else moved either, a write brings the window the next refresh,  *)
(* or the last read is under way, queued or shown, and still true.         *)
StillToRead == \E k \in looks : k.stage = "read" /\ k.level = Quick!Unknown
HasRead == \E k \in looks : k.level = led.seen /\ k.usable = TRUE
ReadIsQueued == /\ looks = {} /\ events # <<>>
                /\ LastEvent.kind = "looked" /\ LastEvent.level = led.seen
                /\ LastEvent.usable = TRUE
ReadIsShown == looks = {} /\ events = <<>> /\ ready = TRUE /\ shown = led.seen

Ahead == past.behind # TRUE => \A k, l \in looks : k = l
LastReadIsTrue ==
  past.behind # TRUE /\ past.foreign # TRUE =>
    \/ writes # {} \/ WroteQueued
    \/ StillToRead \/ HasRead \/ ReadIsQueued \/ ReadIsShown

QuickInv == LooksAre /\ Ahead /\ LastReadIsTrue

LEMMA QuickPromise == QuickInv => Quick!QuickShowsLed
<1>1. events = <<>> => ~WroteQueued
  BY DEF WroteQueued
<1>2. looks = {} => ~StillToRead /\ ~HasRead
  BY DEF StillToRead, HasRead
<1>3. /\ ~past.behind => past.behind # TRUE
      /\ ~past.foreign => past.foreign # TRUE
  OBVIOUS
<1> QED BY <1>1, <1>2, <1>3 DEF QuickInv, LastReadIsTrue, ReadIsQueued, ReadIsShown,
       Quick!QuickShowsLed, Quick!QuickQuiet

LEMMA NewLookIs ==
  /\ IsLook(Quick!NewLook) /\ Quick!NewLook.stage = "read"
  /\ Quick!NewLook.level = Quick!Unknown
BY DEF Quick!NewLook, IsLook

LEMMA QuickInitInv == Quick!Init => QuickInv
<1> SUFFICES ASSUME Quick!Init PROVE QuickInv
  OBVIOUS
<1>1. IsSeq(events)
  <2>1. events \in Seq({})
    BY DEF Quick!Init
  <2> QED BY <2>1 DEF IsSeq
<1>2. led = [set |-> led.set, seen |-> led.seen]
  BY DEF Quick!Init
<1>3. LooksAre
  BY <1>1, <1>2, NewLookIs DEF Quick!Init, LooksAre
<1>4. Ahead /\ LastReadIsTrue
  BY NewLookIs DEF Quick!Init, Ahead, LastReadIsTrue, StillToRead
<1> QED BY <1>3, <1>4 DEF QuickInv

LEMMA EventsGrow ==
  ASSUME IsSeq(events), NEW e, events' = Append(events, e)
  PROVE  /\ IsSeq(events') /\ events' # <<>>
         /\ WroteQueued' <=> WroteQueued \/ e.kind = "wrote"
         /\ LastEvent' = e
<1> DEFINE n == Len(events)
<1>1. /\ IsSeq(events') /\ events' # <<>> /\ n \in Nat /\ Len(events') = n + 1
      /\ \A i \in 1 .. n : events'[i] = events[i]
      /\ events'[n + 1] = e
  BY AppendIs
<1> HIDE DEF n
<1>2. 1 .. n + 1 = (1 .. n) \cup {n + 1}
  BY <1>1
<1> QED BY <1>1, <1>2 DEF n, WroteQueued, LastEvent

LEMMA EventsShrink ==
  ASSUME IsSeq(events), events # <<>>, events' = Tail(events)
  PROVE  /\ IsSeq(events')
         /\ WroteQueued => WroteQueued' \/ Head(events).kind = "wrote"
         /\ events' = <<>> => LastEvent = Head(events)
         /\ events' # <<>> => LastEvent' = LastEvent
<1> DEFINE n == Len(events)
<1>1. /\ IsSeq(events') /\ n \in Nat \ {0} /\ Len(events') = n - 1 /\ Head(events) = events[1]
      /\ \A i \in 1 .. n - 1 : events'[i] = events[i + 1]
      /\ events' = <<>> => n = 1
  BY TailIs
<1>2. events' # <<>> => n - 1 \in Nat \ {0}
  BY <1>1, TailIs
<1> HIDE DEF n
<1>3. events' = <<>> => LastEvent = Head(events)
  BY <1>1 DEF n, LastEvent
<1>4. events' # <<>> => LastEvent' = LastEvent
  <2> HAVE events' # <<>>
  <2>1. n - 1 \in 1 .. n - 1 /\ (n - 1) + 1 = n
    BY <1>1, <1>2
  <2> QED BY <1>1, <2>1 DEF n, LastEvent
<1>5. ASSUME NEW i \in 1 .. n, i # 1 PROVE i - 1 \in 1 .. n - 1 /\ events[i] = events'[i - 1]
  <2>1. i - 1 \in 1 .. n - 1 /\ (i - 1) + 1 = i
    BY <1>1, <1>5
  <2> QED BY <1>1, <2>1
<1>6. WroteQueued => WroteQueued' \/ Head(events).kind = "wrote"
  BY <1>1, <1>5 DEF n, WroteQueued
<1> QED BY <1>1, <1>3, <1>4, <1>6

(* A refresh is started, or dropped.                                       *)
LEMMA LookStarts ==
  ASSUME LooksAre, Ahead, Quick!Start \/ (looking = TRUE /\ Quick!Dropped)
  PROVE  /\ past' = [behind |-> past'.behind, foreign |-> past'.foreign]
         /\ \A k \in looks' : IsLook(k)
         /\ looking' = TRUE => \E k \in looks' : k.stage = "read"
         /\ past'.behind # TRUE => StillToRead' /\ \A k, l \in looks' : k = l
<1> USE DEF LooksAre, Ahead
<1>1. CASE Quick!Start
  BY <1>1, NewLookIs DEF Quick!Start, StillToRead
<1>2. CASE looking = TRUE /\ Quick!Dropped
  BY <1>2 DEF Quick!Dropped, StillToRead
<1> QED BY <1>1, <1>2

LEMMA WindowKeepsQuick ==
  ASSUME QuickInv,
         Quick!Tick \/ Quick!Show \/ Quick!ExtraRefresh \/ \E l \in Quick!Levels : Quick!Click(l)
  PROVE  QuickInv'
<1> USE DEF QuickInv, LooksAre
<1>1. ASSUME UNCHANGED <<led, looking, looks, events>>,
             past' = [past EXCEPT !.foreign = TRUE] \/ (UNCHANGED past /\ writes' # {})
      PROVE  QuickInv'
  <2>1. LooksAre' /\ Ahead'
    BY <1>1 DEF Ahead
  <2>2. LastReadIsTrue'
    BY <1>1 DEF LastReadIsTrue
  <2> QED BY <2>1, <2>2
<1>2. CASE Quick!ExtraRefresh \/ \E l \in Quick!Levels : Quick!Click(l)
  BY <1>1, <1>2 DEF Quick!ExtraRefresh, Quick!Click
<1>3. ASSUME Quick!Start \/ (looking = TRUE /\ Quick!Dropped), UNCHANGED led, IsSeq(events')
      PROVE  QuickInv'
  <2>1. /\ past' = [behind |-> past'.behind, foreign |-> past'.foreign]
        /\ \A k \in looks' : IsLook(k)
        /\ looking' = TRUE => \E k \in looks' : k.stage = "read"
        /\ past'.behind # TRUE => StillToRead' /\ \A k, l \in looks' : k = l
    BY <1>3, LookStarts
  <2>2. LooksAre'
    BY <1>3, <2>1
  <2>3. Ahead' /\ LastReadIsTrue'
    BY <2>1 DEF Ahead, LastReadIsTrue
  <2> QED BY <2>2, <2>3
<1>4. CASE Quick!Tick
  <2>1. Quick!Start /\ UNCHANGED led /\ UNCHANGED events
    BY <1>4 DEF Quick!Tick
  <2> QED BY <1>3, <2>1
<1>5. CASE Quick!ShowWrote
  <2>1. /\ events # <<>> /\ events' = Tail(events) /\ UNCHANGED led
        /\ Quick!Start \/ (looking = TRUE /\ Quick!Dropped)
    BY <1>5 DEF Quick!ShowWrote
  <2> QED BY <1>3, <2>1, EventsShrink
<1>6. CASE Quick!ShowLooked
  <2>1. /\ events # <<>> /\ events' = Tail(events) /\ Head(events).kind = "looked"
        /\ ready' = Head(events).usable /\ shown' = Head(events).level
        /\ UNCHANGED <<led, looking, looks, writes, past>>
    BY <1>6 DEF Quick!ShowLooked
  <2>2. /\ IsSeq(events')
        /\ WroteQueued => WroteQueued'
        /\ events' = <<>> => LastEvent = Head(events)
        /\ events' # <<>> => LastEvent' = LastEvent
    BY <2>1, EventsShrink
  <2>3. LooksAre' /\ Ahead'
    BY <2>1, <2>2 DEF Ahead
  <2>4. /\ StillToRead' <=> StillToRead
        /\ HasRead' <=> HasRead
        /\ ReadIsQueued => ReadIsQueued' \/ ReadIsShown'
        /\ ~ReadIsShown
    BY <2>1, <2>2 DEF StillToRead, HasRead, ReadIsQueued, ReadIsShown
  <2>5. LastReadIsTrue'
    BY <2>1, <2>2, <2>4 DEF LastReadIsTrue
  <2> QED BY <2>3, <2>5
<1> QED BY <1>2, <1>4, <1>5, <1>6 DEF Quick!Show

LEMMA ReadIs ==
  ASSUME NEW k, IsLook(k), NEW j, NEW v, j = [k EXCEPT !.level = v, !.usable = TRUE]
  PROVE  IsLook(j) /\ j.stage = k.stage /\ j.level = v /\ j.usable = TRUE
BY DEF IsLook

LEMMA LooksKeepQuick ==
  ASSUME QuickInv, NEW k \in looks, Quick!LookStep(k) \/ Quick!LookFails(k)
  PROVE  QuickInv'
<1> USE DEF QuickInv, LooksAre, IsLook
<1>1. ASSUME NEW j, j = [k EXCEPT !.level = led.seen, !.usable = TRUE],
             looks' = (looks \ {k}) \cup {j}, k.stage = "read",
             UNCHANGED <<led, looking, events, past>>
      PROVE  QuickInv'
  <2>1. /\ looks' = (looks \ {k}) \cup {j} /\ k.stage = "read"
        /\ UNCHANGED <<led, looking, events, past>>
    BY <1>1
  <2>2. IsLook(j) /\ j.stage = k.stage /\ j.level = led.seen /\ j.usable = TRUE
    <3>1. IsLook(k)
      OBVIOUS
    <3> QED BY <1>1, <3>1, ReadIs
  <2>3. LooksAre'
    BY <2>1, <2>2
  <2>4. Ahead'
    BY <2>1 DEF Ahead
  <2>5. HasRead'
    BY <2>1, <2>2 DEF HasRead
  <2> QED BY <2>3, <2>4, <2>5 DEF LastReadIsTrue
<1>2. CASE Quick!LookDone(k)
  <2> DEFINE j == [k EXCEPT !.stage = "ready"]
  <2>1. /\ looks' = (looks \ {k}) \cup {j} /\ k.level # Quick!Unknown /\ looking' = FALSE
        /\ UNCHANGED <<led, ready, shown, writes, events, past>>
    BY <1>2 DEF Quick!LookDone
  <2>2. IsLook(j) /\ j.level = k.level /\ j.usable = k.usable
    OBVIOUS
  <2> HIDE DEF j
  <2>3. LooksAre'
    BY <2>1, <2>2
  <2>4. Ahead'
    BY <2>1 DEF Ahead
  <2>5. /\ WroteQueued' <=> WroteQueued
        /\ StillToRead => StillToRead'
        /\ HasRead => HasRead'
        /\ ~ReadIsQueued /\ ~ReadIsShown
    BY <2>1, <2>2 DEF WroteQueued, StillToRead, HasRead, ReadIsQueued, ReadIsShown
  <2> QED BY <2>1, <2>3, <2>4, <2>5 DEF LastReadIsTrue
<1>3. CASE Quick!LookQueues(k)
  <2> DEFINE e == [kind |-> "looked", level |-> k.level, usable |-> k.usable]
  <2>1. /\ looks' = looks \ {k} /\ k.stage = "ready" /\ events' = Append(events, e)
        /\ UNCHANGED <<led, ready, shown, looking, writes, past>>
    BY <1>3 DEF Quick!LookQueues, Quick!Queued
  <2>2. e.kind = "looked" /\ e.level = k.level /\ e.usable = k.usable
    OBVIOUS
  <2> HIDE DEF e
  <2>3. /\ IsSeq(events') /\ events' # <<>>
        /\ WroteQueued' <=> WroteQueued
        /\ LastEvent' = e
    BY <2>1, <2>2, EventsGrow
  <2>4. LooksAre'
    BY <2>1, <2>3
  <2>5. Ahead'
    BY <2>1 DEF Ahead
  <2>6. LastReadIsTrue'
    <3> SUFFICES ASSUME past.behind # TRUE, past.foreign # TRUE, writes = {}, ~WroteQueued
                 PROVE  ReadIsQueued'
      BY <2>1, <2>3 DEF LastReadIsTrue
    <3>1. looks = {k}
      BY DEF Ahead
    <3>2. HasRead
      BY <2>1, <3>1 DEF LastReadIsTrue, StillToRead, ReadIsQueued, ReadIsShown
    <3> QED BY <2>1, <2>2, <2>3, <3>1, <3>2 DEF HasRead, ReadIsQueued
  <2> QED BY <2>4, <2>5, <2>6
<1>4. CASE Quick!LookFails(k)
  <2>1. PICK level : looks' = (looks \ {k}) \cup {[stage |-> "ready", level |-> level,
                                                  usable |-> FALSE]}
    BY <1>4 DEF Quick!LookFails
  <2>2. /\ looking' = FALSE /\ past' = [past EXCEPT !.foreign = TRUE]
        /\ UNCHANGED <<led, events>>
    BY <1>4 DEF Quick!LookFails
  <2> DEFINE j == [stage |-> "ready", level |-> level, usable |-> FALSE]
  <2>6. IsLook(j)
    OBVIOUS
  <2> HIDE DEF j
  <2>7. \A i \in looks' : IsLook(i)
    BY <2>1, <2>6 DEF j
  <2>3. LooksAre'
    BY <2>2, <2>7
  <2>4. Ahead'
    BY <2>1, <2>2 DEF Ahead
  <2>5. LastReadIsTrue'
    BY <2>2 DEF LastReadIsTrue
  <2> QED BY <2>3, <2>4, <2>5
<1>5. CASE Quick!LookReads(k)
  BY <1>1, <1>5 DEF Quick!LookReads
<1> QED BY <1>2, <1>3, <1>4, <1>5 DEF Quick!LookStep

LEMMA WritesKeepQuick ==
  ASSUME QuickInv, NEW w \in writes,
         \/ Quick!WriteStep(w) \/ Quick!WriteFails(w) \/ Quick!Write(w) \/ Quick!Mismatch(w)
         \/ Quick!GiveUp(w)
  PROVE  QuickInv'
<1> USE DEF QuickInv, LooksAre
<1>1. ASSUME NEW level, NEW usable, Quick!Queued("wrote", level, usable),
             UNCHANGED <<led, looking, looks, past>>
      PROVE  QuickInv'
  <2> DEFINE e == [kind |-> "wrote", level |-> level, usable |-> usable]
  <2>1. events' = Append(events, e) /\ e.kind = "wrote"
    BY <1>1 DEF Quick!Queued
  <2> HIDE DEF e
  <2>2. IsSeq(events') /\ WroteQueued'
    BY <2>1, EventsGrow
  <2> QED BY <1>1, <2>2 DEF Ahead, LastReadIsTrue
<1>2. CASE \/ Quick!WriteFails(w) \/ Quick!Confirm(w) \/ Quick!Mismatch(w) \/ Quick!GiveUp(w)
  BY <1>1, <1>2 DEF Quick!WriteFails, Quick!Confirm, Quick!Mismatch, Quick!GiveUp
<1>3. CASE Quick!Send(w)
  <2>1. writes' # {} /\ UNCHANGED <<led, looking, looks, events, past>>
    BY <1>3 DEF Quick!Send, Quick!Move
  <2> QED BY <2>1 DEF Ahead, LastReadIsTrue
<1>4. CASE Quick!Write(w)
  <2>1. /\ led' = [led EXCEPT !.set = w.level] /\ UNCHANGED <<looking, looks, events>>
        /\ past' = [past EXCEPT !.foreign = @ \/ w.stage = "late"]
        /\ w.stage = "late" \/ writes' # {}
    BY <1>4 DEF Quick!Write, Quick!Move
  <2>2. LooksAre' /\ Ahead'
    BY <2>1 DEF Ahead
  <2>3. past'.foreign # TRUE => writes' # {}
    BY <2>1
  <2> QED BY <2>2, <2>3 DEF LastReadIsTrue
<1> QED BY <1>2, <1>3, <1>4 DEF Quick!WriteStep

LEMMA QuickNextInv == QuickInv /\ Quick!Next => QuickInv'
<1> SUFFICES ASSUME QuickInv, Quick!Next PROVE QuickInv'
  OBVIOUS
<1> USE DEF QuickInv, LooksAre
<1>1. CASE Quick!Settle
  <2> DEFINE odd == past.foreign \/ \A w \in writes : w.stage = "written" => w.level # led.set
  <2>1. /\ led' = [led EXCEPT !.seen = led.set] /\ UNCHANGED <<looking, looks, writes, events>>
        /\ past' = [past EXCEPT !.foreign = odd]
    BY <1>1 DEF Quick!Settle
  <2>2. writes = {} => odd = TRUE
    OBVIOUS
  <2> HIDE DEF odd
  <2>3. LooksAre' /\ Ahead'
    BY <2>1 DEF Ahead
  <2>4. past'.foreign # TRUE => writes' # {}
    BY <2>1, <2>2
  <2> QED BY <2>3, <2>4 DEF LastReadIsTrue
<1>2. ASSUME NEW l \in Quick!Levels, Quick!OtherLevel(l) PROVE QuickInv'
  <2>1. /\ led' = [set |-> l, seen |-> l] /\ UNCHANGED <<looking, looks, events>>
        /\ past' = [past EXCEPT !.foreign = TRUE]
    BY <1>2 DEF Quick!OtherLevel
  <2>2. LooksAre' /\ Ahead' /\ past'.foreign = TRUE
    BY <2>1 DEF Ahead
  <2> QED BY <2>2 DEF LastReadIsTrue
<1> QED BY <1>1, <1>2, WindowKeepsQuick, LooksKeepQuick, WritesKeepQuick DEF Quick!Next

-----------------------------------------------------------------------------
(* Keyboard lighting.                                                      *)

(* What a call's record carries at each of its steps, and that they stay   *)
(* records: all that is needed of the types.                               *)
CallsAre ==
  /\ call = [c \in Callers |-> call[c]]
  /\ \A c \in Callers :
       \/ call[c] = Lighting!Free
       \/ /\ call[c].pc \in {"authorizing", "reading"}
          /\ call[c] = [pc |-> call[c].pc, req |-> call[c].req]
       \/ /\ call[c].pc \in {"listing", "setting", "checking"}
          /\ call[c] = [pc |-> call[c].pc, req |-> call[c].req, copy |-> call[c].copy]
  /\ book = [effect |-> book.effect, power |-> book.power, lit |-> book.lit,
             disturbed |-> book.disturbed]

On(c, record) == call[c] # Lighting!Free /\ Lighting!Record(call[c].req) = record
Alone(record) == \A c, d \in Callers : On(c, record) /\ On(d, record) => c = d
Unset(record) == \A c \in Callers : On(c, record) => call[c].pc # "checking"

(* As long as the effect is not disturbed one call at most is on its way:  *)
(* its copy is what the book has, and so is the record until it is set.    *)
EffectIsBooked ==
  "effect" \notin book.disturbed =>
    /\ Alone("effect")
    /\ Unset("effect") => effect = book.effect /\ lit = book.lit
    /\ \A c \in Callers : On(c, "effect") =>
         /\ call[c].pc \in {"listing", "setting", "checking"} => call[c].copy = book.effect
         /\ call[c].pc = "checking" =>
              effect = Lighting!Merged(call[c].req, call[c].copy) /\ lit = Lighting!Frame(effect)

PowerIsBooked ==
  "power" \notin book.disturbed =>
    /\ Alone("power")
    /\ Unset("power") => power = book.power
    /\ \A c \in Callers : On(c, "power") =>
         /\ call[c].pc \in {"listing", "setting", "checking"} => call[c].copy = book.power
         /\ call[c].pc = "checking" => power = Lighting!Merged(call[c].req, call[c].copy)

LightInv == CallsAre /\ EffectIsBooked /\ PowerIsBooked

LEMMA LightInitInv == Lighting!Init => LightInv
BY DEF Lighting!Init, LightInv, CallsAre, EffectIsBooked, PowerIsBooked, On, Alone, Unset,
       Lighting!Free

LEMMA LightPromise == LightInv => Lighting!PartsAsAsked
BY DEF LightInv, EffectIsBooked, PowerIsBooked, On, Unset, Lighting!PartsAsAsked,
       Lighting!Underway

LEMMA LightNextInv == LightInv /\ Lighting!Next => LightInv'
<1> SUFFICES ASSUME LightInv, Lighting!Next PROVE LightInv'
  OBVIOUS
<1> USE DEF LightInv, CallsAre, EffectIsBooked, PowerIsBooked, On, Alone, Unset, Lighting!Free,
            Lighting!Record, Lighting!asusd
<1>1. ASSUME NEW c \in Callers, NEW req \in Lighting!Requests, Lighting!Call(c, req)
      PROVE  LightInv'
  BY <1>1 DEF Lighting!Call, Lighting!Goes, Lighting!Underway
<1> USE DEF Lighting!Goes, Lighting!Answers, Lighting!Fails
<1>2. ASSUME NEW c \in Callers, Lighting!Handle(c) PROVE LightInv'
  <2>1. CASE Lighting!Authorize(c)
    BY <2>1 DEF Lighting!Authorize
  <2>2. CASE Lighting!Read(c)
    BY <2>2 DEF Lighting!Read, Lighting!Current
  <2>3. CASE Lighting!List(c)
    BY <2>3 DEF Lighting!List
  <2>4. CASE Lighting!SendFrame(c)
    BY <2>4 DEF Lighting!SendFrame, Lighting!ByKernel
  <2>5. CASE Lighting!Refuse(c)
    BY <2>5 DEF Lighting!Refuse
  <2>6. CASE Lighting!Set(c)
    BY <2>6 DEF Lighting!Set, Lighting!Written
  <2>7. CASE Lighting!Check(c)
    <3> DEFINE req == call[c].req
               copy == call[c].copy
    <3>1. call[c].pc = "checking" /\ call[c] # Lighting!Free /\ call' = [call EXCEPT ![c] = Lighting!Free]
      BY <2>7 DEF Lighting!Check
    <3>2. UNCHANGED <<effect, power, lit>>
      BY <2>7 DEF Lighting!Check
    <3>3. CASE book' = [book EXCEPT !.disturbed = @ \cup {Lighting!Record(req)}]
      BY <3>1, <3>2, <3>3
    <3>4. CASE /\ req.op = "power"
               /\ book' = [book EXCEPT !.power = Lighting!Merged(req, @)]
      BY <3>1, <3>2, <3>4
    <3>5. CASE /\ req.op # "power"
               /\ book' = [book EXCEPT !.effect = Lighting!Merged(req, @),
                                      !.lit = Lighting!Frame(Lighting!Merged(req, book.effect))]
      BY <3>1, <3>2, <3>5
    <3> QED BY <2>7, <3>3, <3>4, <3>5 DEF Lighting!Check
  <2> QED BY <1>2, <2>1, <2>2, <2>3, <2>4, <2>5, <2>6, <2>7 DEF Lighting!Handle
<1>3. CASE Lighting!Foreign
  <2>1. call' = call
    BY <1>3 DEF Lighting!Foreign
  <2>2. CASE /\ UNCHANGED <<effect, lit>>
             /\ book' = IF Lighting!Underway("power") = {} THEN [book EXCEPT !.power = power']
                        ELSE [book EXCEPT !.disturbed = @ \cup {"power"}]
    BY <2>1, <2>2 DEF Lighting!Underway
  <2>3. CASE /\ UNCHANGED power
             /\ book' = IF Lighting!Underway("effect") = {}
                        THEN [book EXCEPT !.effect = effect', !.lit = lit']
                        ELSE [book EXCEPT !.disturbed = @ \cup {"effect"}]
    BY <2>1, <2>3 DEF Lighting!Underway
  <2> QED BY <1>3, <2>2, <2>3 DEF Lighting!Foreign
<1> QED BY <1>1, <1>2, <1>3 DEF Lighting!Next

-----------------------------------------------------------------------------
(* Closed-lid mode.                                                        *)

LidInv ==
  /\ child \in {"none", "alive", "exited"}
  /\ ~available => child = "none"
  /\ Lid!LidAsTold

LEMMA LidInitInv == Lid!Init => LidInv
BY DEF Lid!Init, LidInv, Lid!LidAsTold, Lid!Started

LEMMA ZeroIsLeast == ~(0 > 0)
OBVIOUS

LEMMA LidNextInv == LidInv /\ Lid!Next => LidInv'
<1> SUFFICES ASSUME LidInv, Lid!Next PROVE LidInv'
  OBVIOUS
<1> USE DEF LidInv, Lid!LidAsTold, Lid!Says, Lid!Decides, Lid!Lost
<1>1. CASE Lid!Status
  <2>1. UNCHANGED <<available, strays>>
    BY <1>1 DEF Lid!Status
  <2>2. CASE child = "none" /\ told' = status /\ UNCHANGED <<child, status, blurred>>
    BY <2>1, <2>2
  <2>3. CASE child = "alive" /\ told' = "active" /\ UNCHANGED <<child, status, blurred>>
    BY <2>1, <2>3
  <2>4. CASE child' = "none" /\ told' = "unknown" /\ status' = "unknown" /\ UNCHANGED blurred
    BY <2>1, <2>4
  <2>5. CASE child # "none" /\ blurred' = TRUE /\ UNCHANGED child
    BY <2>1, <2>5
  <2> QED BY <1>1, <2>2, <2>3, <2>4, <2>5 DEF Lid!Status
<1>2. CASE Lid!SetUnavailable
  BY <1>2 DEF Lid!SetUnavailable
<1>3. CASE Lid!KeepOn
  BY <1>3 DEF Lid!KeepOn
<1>4. CASE Lid!TurnOn
  BY <1>4 DEF Lid!TurnOn
<1>5. CASE Lid!TurnOff
  <2>1. available /\ child' = "none" /\ available' = available
    BY <1>5 DEF Lid!TurnOff
  <2>2. CASE told' = "inactive" /\ status' = "inactive" /\ UNCHANGED <<strays, blurred>>
    BY <2>1, <2>2
  <2>3. CASE blurred' = TRUE
    BY <2>1, <2>3
  <2> QED BY <1>5, <2>2, <2>3 DEF Lid!TurnOff
<1>6. CASE Lid!ProcessEnds
  <2>1. UNCHANGED <<available, status, told, blurred>>
    BY <1>6 DEF Lid!ProcessEnds
  <2>2. CASE child = "alive" /\ child' = "exited" /\ UNCHANGED strays
    BY <2>1, <2>2
  <2>3. CASE strays > 0 /\ UNCHANGED child
    BY <2>1, <2>3, ZeroIsLeast
  <2> QED BY <1>6, <2>2, <2>3 DEF Lid!ProcessEnds
<1>7. CASE Lid!Restart
  BY <1>7 DEF Lid!Restart, Lid!Started
<1> QED BY <1>1, <1>2, <1>3, <1>4, <1>5, <1>6, <1>7 DEF Lid!Next

-----------------------------------------------------------------------------
(* All parts.                                                              *)

PartVars == <<part, vars, quickState, windowVars, lightState, lidState>>

LEMMA PartSteps ==
  [PartNext]_PartVars =>
    [Next]_vars /\ [Quick!Next]_quickState /\ [Lighting!Next]_lightState /\ [Lid!Next]_lidState
BY DEF PartNext, PartVars

(* advanced_refresh_reconciliation: while the outcome of an Apply is open  *)
(* there is the draft to compare the hardware with, and never otherwise.   *)
THEOREM DraftIsKept == PartSpec => []DraftIffUnresolved
<1>1. PartInit => DraftInv
  BY DEF PartInit, Init, DraftInv, DraftIffUnresolved
<1>2. DraftInv /\ [PartNext]_PartVars => DraftInv'
  <2>1. DraftInv /\ UNCHANGED vars => DraftInv'
    BY DEF DraftInv, DraftIffUnresolved, vars
  <2> QED BY <2>1, PartSteps, DraftNextInv
<1>3. DraftInv => DraftIffUnresolved
  BY DEF DraftInv
<1> QED BY <1>1, <1>2, <1>3, PTL DEF PartSpec, PartVars

(* With nothing under way the extras and the quick controls show what the  *)
(* hardware holds, or have been told that it cannot be read, and a section *)
(* is not locked: whatever refreshes were dropped, edits failed or were    *)
(* given up (extra_backend.rs, quick_controls_backend.rs).                 *)
THEOREM SectionsDoSettle == PartSpec => []SectionsSettle
<1>1. PartInit => ExtraInv /\ QuickInv
  BY ExtraInitInv, QuickInitInv DEF PartInit
<1>2. ExtraInv /\ [PartNext]_PartVars => ExtraInv'
  <2>1. ExtraInv /\ UNCHANGED vars => ExtraInv'
    BY DEF ExtraInv, vars, Shapes, OneAtATime, LockEnds, RefreshIsOwed, ShownOrPending, Pending,
           LastIsTrue, True, ChangeQueued, RestQueued, NoRefreshQueued, IsLast, ChangeUnsent,
           RestUnsent, NoRefreshUnsent
  <2> QED BY <2>1, PartSteps, ExtraNextInv
<1>3. QuickInv /\ [PartNext]_PartVars => QuickInv'
  <2>1. QuickInv /\ UNCHANGED quickState => QuickInv'
    BY DEF QuickInv, quickState, LooksAre, Ahead, LastReadIsTrue, WroteQueued, LastEvent,
           StillToRead, HasRead, ReadIsQueued, ReadIsShown
  <2> QED BY <2>1, PartSteps, QuickNextInv
<1>4. ExtraInv /\ QuickInv => SectionsSettle
  BY ExtraPromise, QuickPromise DEF SectionsSettle
<1> QED BY <1>1, <1>2, <1>3, <1>4, PTL DEF PartSpec, PartVars

(* set_static_rgb, set_effect and set_power_state keep the rest of the     *)
(* record they rewrite (aura.rs); the lid switch is as the session daemon  *)
(* said last (clamshell.rs).                                               *)
THEOREM CallsDoAsAsked == PartSpec => []PartsAsAsked
<1>1. PartInit => LightInv /\ LidInv
  BY LightInitInv, LidInitInv DEF PartInit
<1>2. LightInv /\ [PartNext]_PartVars => LightInv'
  <2>1. LightInv /\ UNCHANGED lightState => LightInv'
    BY DEF LightInv, lightState, CallsAre, EffectIsBooked, PowerIsBooked, On, Alone, Unset
  <2> QED BY <2>1, PartSteps, LightNextInv
<1>3. LidInv /\ [PartNext]_PartVars => LidInv'
  <2>1. LidInv /\ UNCHANGED lidState => LidInv'
    <3>1. UNCHANGED lidState => UNCHANGED <<available, child, strays, status, told, blurred>>
      BY DEF lidState
    <3> QED BY <3>1 DEF LidInv, Lid!LidAsTold
  <2> QED BY <2>1, PartSteps, LidNextInv
<1>4. LightInv /\ LidInv => PartsAsAsked
  BY LightPromise DEF LidInv, PartsAsAsked
<1> QED BY <1>1, <1>2, <1>3, <1>4, PTL DEF PartSpec, PartVars

-----------------------------------------------------------------------------
(* The windows. HiddenHasIcon is not inductive: that hiding is safe        *)
(* follows from READY, and what READY is worth from the reports under way  *)
(* (Heard).                                                                *)

(* What the tray's thread last heard, or is going to hear last, is so.     *)
Heard ==
  /\ tray.ready => tray.service
  /\ tray.service /\ reports = <<>> => (tray.ready <=> host)
  /\ reports # <<>> => tray.service /\ (reports[Len(reports)] = "online" <=> host)

(* HiddenHasIcon, and that without a tray service nothing is hidden.       *)
Iconed ==
  app = "up" /\ main = "hidden" /\ ~grace /\ ~Leaving =>
    tray.service /\ (host \/ blind)

Inv == WindowsTypeOK /\ Heard /\ Iconed

USE DEF Closures, Panels

-----------------------------------------------------------------------------
(* The secondary windows: each operator keeps them typed and mirrored.     *)

Mirrored(p) == p.shown = p.open /\ (p.shown # {} => p.mirror)

LEMMA MirrorKept ==
  ASSUME NEW p \in PanelStates, p.shown = p.open
  PROVE  UpdateMirror(p) \in PanelStates /\ Mirrored(UpdateMirror(p))
BY DEF UpdateMirror, PanelStates, Mirrored

LEMMA CloseAllMirrored ==
  ASSUME NEW p \in PanelStates, Mirrored(p)
  PROVE  CloseAll(p) \in PanelStates /\ Mirrored(CloseAll(p))
<1> DEFINE closed == [p EXCEPT !.open = {}, !.shown = @ \ p.open]
<1>1. closed \in PanelStates /\ closed.shown = closed.open
  BY DEF PanelStates, Mirrored
<1>2. UpdateMirror(closed) \in PanelStates /\ Mirrored(UpdateMirror(closed))
  BY <1>1, MirrorKept
<1> QED BY <1>2 DEF CloseAll

LEMMA OpenPanelMirrored ==
  ASSUME NEW p \in PanelStates, Mirrored(p), NEW n \in Panels,
         NEW outcome \in {"uncreated", "unshown", "shown"}
  PROVE  OpenPanel(p, n, outcome) \in PanelStates /\ Mirrored(OpenPanel(p, n, outcome))
<1> DEFINE made == [p EXCEPT !.made = @ \cup {n}]
           opened == [p EXCEPT !.open = @ \cup {n}, !.shown = @ \cup {n},
                               !.made = @ \cup {n}]
<1>1. made \in PanelStates /\ made.shown = made.open
  BY DEF PanelStates, Mirrored
<1>2. opened \in PanelStates /\ opened.shown = opened.open
  BY DEF PanelStates, Mirrored
<1>3. /\ UpdateMirror(made) \in PanelStates /\ Mirrored(UpdateMirror(made))
      /\ UpdateMirror(opened) \in PanelStates /\ Mirrored(UpdateMirror(opened))
  BY <1>1, <1>2, MirrorKept
<1>4. OpenPanel(p, n, "uncreated") = p
  BY DEF OpenPanel
<1>5. OpenPanel(p, n, "unshown") = UpdateMirror(made)
  BY DEF OpenPanel
<1>6. OpenPanel(p, n, "shown") = UpdateMirror(opened)
  BY DEF OpenPanel
<1> HIDE DEF made, opened
<1> QED BY <1>3, <1>4, <1>5, <1>6

LEMMA ClosePanelMirrored ==
  ASSUME NEW p \in PanelStates, Mirrored(p), NEW n \in Panels
  PROVE  ClosePanel(p, n) \in PanelStates /\ Mirrored(ClosePanel(p, n))
<1> DEFINE closed == [p EXCEPT !.open = @ \ {n}, !.shown = @ \ {n}]
<1>1. closed \in PanelStates /\ closed.shown = closed.open
  BY DEF PanelStates, Mirrored
<1> QED BY <1>1, MirrorKept DEF ClosePanel

PanelsOK == panels \in PanelStates /\ Mirrored(panels)

LEMMA PanelsInit == WindowsInit => PanelsOK
BY DEF WindowsInit, PanelsOK, NoPanels, PanelStates, Mirrored

LEMMA HidingKeepsPanels == PanelsOK /\ HideMain => PanelsOK'
BY CloseAllMirrored DEF PanelsOK, HideMain, Mirrored

LEMMA ShowingKeepsPanels ==
  ASSUME PanelsOK, NEW n \in Panels, ShowPanel(n)
  PROVE  PanelsOK'
<1>1. CASE n \in panels.open
  BY <1>1 DEF ShowPanel, PanelsOK, Mirrored
<1>2. CASE n \notin panels.open
  <2>1. PICK outcome \in Outcomes(n) : panels' = OpenPanel(panels, n, outcome)
    BY <1>2 DEF ShowPanel
  <2>2. outcome \in {"uncreated", "unshown", "shown"}
    BY <2>1 DEF Outcomes
  <2> QED BY <2>1, <2>2, OpenPanelMirrored DEF PanelsOK, Mirrored
<1> QED BY <1>1, <1>2

LEMMA PanelsNext == PanelsOK /\ closures \in Seq(Closures) /\ [WindowsNext]_windowVars => PanelsOK'
<1> SUFFICES ASSUME PanelsOK, closures \in Seq(Closures), [WindowsNext]_windowVars PROVE PanelsOK'
  OBVIOUS
<1>1. CASE UNCHANGED panels
  BY <1>1 DEF PanelsOK, Mirrored
<1>2. CASE CloseMain
  BY <1>1, <1>2, HidingKeepsPanels DEF CloseMain
<1>3. ASSUME NEW n \in Panels, PanelButton(n) PROVE PanelsOK'
  <2>1. CASE n \in panels.open
    BY <1>3, <2>1, ClosePanelMirrored DEF PanelButton, PanelsOK, Mirrored
  <2>2. CASE n \notin panels.open
    <3>1. PICK outcome \in Outcomes(n) : panels' = OpenPanel(panels, n, outcome)
      BY <1>3, <2>2 DEF PanelButton
    <3>2. outcome \in {"uncreated", "unshown", "shown"}
      BY <3>1 DEF Outcomes
    <3> QED BY <3>1, <3>2, OpenPanelMirrored DEF PanelsOK, Mirrored
  <2> QED BY <2>1, <2>2
<1>4. ASSUME NEW n \in Panels, PanelCloses(n) PROVE PanelsOK'
  BY <1>4 DEF PanelCloses, PanelsOK, PanelStates, Mirrored
<1>5. CASE Handle
  <2>1. CASE Head(closures) = "toggle"
    BY <1>1, <1>5, <2>1, HidingKeepsPanels DEF Handle, ToggleMain, ShowMain
  <2>2. CASE Head(closures) \in {"show", "quit"}
    BY <1>1, <1>5, <2>2 DEF Handle, ShowMain
  <2>3. CASE Head(closures) \notin {"toggle", "show", "quit"}
    <3>1. ShowPanel(Head(closures))
      BY <1>5, <2>3 DEF Handle
    <3>2. Head(closures) \in Panels
      BY <1>5, <2>3 DEF Handle
    <3> QED BY <3>1, <3>2, ShowingKeepsPanels
  <2> QED BY <2>1, <2>2, <2>3
<1>6. CASE Exit
  BY <1>6 DEF Exit, PanelsOK, NoPanels, PanelStates, Mirrored
<1> QED BY <1>1, <1>2, <1>3, <1>4, <1>5, <1>6
       DEF WindowsNext, Person, windowVars, Launch, Built, GraceEnds, SecondLaunch, Signal, Shortcut,
           TrayClick, Send, Minimize, QuitButton, HostChanges, HearOfHost
-----------------------------------------------------------------------------
(* The types.                                                              *)

LEMMA OneSeq == ASSUME NEW S, NEW x \in S PROVE <<x>> \in Seq(S)
OBVIOUS

LEMMA AppendSeq == ASSUME NEW S, NEW q \in Seq(S), NEW x \in S PROVE Append(q, x) \in Seq(S)
OBVIOUS

LEMMA TailSeq == ASSUME NEW S, NEW q \in Seq(S), q # <<>> PROVE Tail(q) \in Seq(S)
OBVIOUS

LEMMA LastOfOne ==
  ASSUME NEW S, NEW q \in Seq(S), q # <<>>, Tail(q) = <<>>
  PROVE  Head(q) = q[Len(q)]
<1>1. Len(Tail(q)) = Len(q) - 1
  OBVIOUS
<1>2. Len(<<>>) = 0
  OBVIOUS
<1>3. Len(Tail(q)) = 0
  BY <1>2, Zenon
<1>4. Len(q) = 1
  BY <1>1, <1>3
<1> QED BY <1>4

LEMMA InitTyped == WindowsInit => WindowsTypeOK
<1> SUFFICES ASSUME WindowsInit PROVE WindowsTypeOK
  OBVIOUS
<1>1. panels \in PanelStates
  BY PanelsInit DEF PanelsOK
<1>2. closures \in Seq(Closures) /\ reports \in Seq({"online", "offline"})
  BY EmptySeq DEF WindowsInit
<1> QED BY <1>1, <1>2 DEF WindowsInit, WindowsTypeOK

LEMMA TypesNext == WindowsTypeOK /\ PanelsOK /\ [WindowsNext]_windowVars => WindowsTypeOK'
<1> SUFFICES ASSUME WindowsTypeOK, PanelsOK, [WindowsNext]_windowVars PROVE WindowsTypeOK'
  OBVIOUS
<1> USE DEF WindowsTypeOK
<1>p. panels' \in PanelStates
  BY PanelsNext DEF PanelsOK
<1>e. ASSUME Event PROVE count' \in [events : Nat, hosts : Nat]
  BY <1>e DEF Event
<1>1. CASE Launch
  <2>1. reports' \in Seq({"online", "offline"})
    BY <1>1, EmptySeq, OneSeq DEF Launch
  <2> QED BY <1>1, <1>p, <1>e, <2>1 DEF Launch
<1>2. CASE Built
  BY <1>2, <1>p DEF Built
<1>3. CASE GraceEnds
  BY <1>3, <1>p DEF GraceEnds, HidesBlindly
<1>4. ASSUME NEW c \in Closures, Send(c) PROVE WindowsTypeOK'
  BY <1>4, <1>p, <1>e DEF Send
<1>5. CASE Minimize
  BY <1>5, <1>p, <1>e DEF Minimize
<1>6. CASE CloseMain
  <2>1. closures' \in Seq(Closures)
    <3>1. closures' = closures \/ closures' = Append(closures, "exit")
      BY <1>6 DEF CloseMain
    <3>2. closures \in Seq(Closures) /\ "exit" \in Closures
      OBVIOUS
    <3>3. Append(closures, "exit") \in Seq(Closures)
      BY <3>2, AppendSeq
    <3> QED BY <3>1, <3>2, <3>3
  <2>2. main' = "hidden" /\ blind' \in BOOLEAN
    BY <1>6 DEF CloseMain, HideMain, HidesBlindly
  <2> QED BY <1>6, <1>p, <1>e, <2>1, <2>2 DEF CloseMain
<1>7. ASSUME NEW n \in Panels, PanelButton(n) PROVE WindowsTypeOK'
  BY <1>7, <1>p, <1>e DEF PanelButton
<1>8. ASSUME NEW n \in Panels, PanelCloses(n) PROVE WindowsTypeOK'
  BY <1>8, <1>p, <1>e DEF PanelCloses
<1>9. CASE QuitButton
  BY <1>9, <1>p, <1>e DEF QuitButton
<1>10. CASE Handle
  <2>1. closures' \in Seq(Closures)
    BY <1>10 DEF Handle
  <2>2. main' \in {"hidden", "shown", "minimized"} /\ blind' \in BOOLEAN
    BY <1>10 DEF Handle, ToggleMain, HideMain, ShowMain, ShowPanel, HidesBlindly
  <2> QED BY <1>10, <1>p, <2>1, <2>2 DEF Handle
<1>11. CASE Exit
  BY <1>11, <1>p, EmptySeq DEF Exit
<1>12. CASE HostChanges
  BY <1>12, <1>p DEF HostChanges
<1>13. CASE HearOfHost
  BY <1>13, <1>p, TailSeq DEF HearOfHost
<1>14. CASE UNCHANGED windowVars
  BY <1>14 DEF windowVars
<1> QED BY <1>1, <1>2, <1>3, <1>4, <1>5, <1>6, <1>7, <1>8, <1>9, <1>10, <1>11, <1>12,
           <1>13, <1>14
       DEF WindowsNext, Person, SecondLaunch, Signal, Shortcut, TrayClick

Typed == WindowsTypeOK /\ PanelsOK

LEMMA AlwaysTyped == WindowsSpec => []Typed
<1>1. WindowsInit => Typed
  BY InitTyped, PanelsInit DEF Typed
<1>2. Typed /\ [WindowsNext]_windowVars => Typed'
  BY TypesNext, PanelsNext DEF Typed, WindowsTypeOK
<1> QED BY <1>1, <1>2, PTL DEF WindowsSpec

(* Every variable keeps its type, with queues and host changes unbounded.  *)
THEOREM TypeCorrect == WindowsSpec => []WindowsTypeOK
<1>1. Typed => WindowsTypeOK
  BY DEF Typed
<1> QED BY <1>1, AlwaysTyped, PTL

(* However the two secondary windows are opened and closed, one that is    *)
(* seen is taken for open and is mirrored (panel_windows.rs).              *)
THEOREM PanelsCorrect == WindowsSpec => []PanelsAreMirrored
<1>1. Typed => PanelsAreMirrored
  BY DEF Typed, PanelsOK, Mirrored, PanelsAreMirrored
<1> QED BY <1>1, AlwaysTyped, PTL

-----------------------------------------------------------------------------
(* What hiding rests on.                                                   *)

LEMMA HeardNext == WindowsTypeOK /\ Heard /\ [WindowsNext]_windowVars => Heard'
<1> SUFFICES ASSUME WindowsTypeOK, Heard, [WindowsNext]_windowVars PROVE Heard'
  OBVIOUS
<1> USE DEF WindowsTypeOK, Heard
<1>1. CASE UNCHANGED <<tray, reports, host>>
  BY <1>1
<1>2. CASE Launch
  <2>1. tray'.service = tray'.ready
    BY <1>2 DEF Launch
  <2>2. CASE tray'.service /\ ~host
    BY <1>2, <2>1, <2>2 DEF Launch
  <2>3. CASE ~(tray'.service /\ ~host)
    <3>1. reports' = <<>> /\ host' = host
      BY <1>2, <2>3 DEF Launch
    <3> QED BY <2>1, <2>3, <3>1
  <2> QED BY <2>2, <2>3
<1>3. CASE Exit
  BY <1>3 DEF Exit
<1>4. CASE HostChanges
  <2>1. CASE tray.service
    <3>1. reports' = Append(reports, IF host THEN "offline" ELSE "online")
      BY <1>4, <2>1 DEF HostChanges
    <3>2. reports'[Len(reports')] = (IF host THEN "offline" ELSE "online") /\ reports' # <<>>
      BY <3>1
    <3> QED BY <1>4, <2>1, <3>2 DEF HostChanges
  <2>2. CASE ~tray.service
    BY <1>4, <2>2 DEF HostChanges
  <2> QED BY <2>1, <2>2
<1>5. CASE HearOfHost
  <2>1. /\ reports # <<>> /\ tray.service /\ host' = host
        /\ tray'.service = tray.service
        /\ tray'.ready = (Head(reports) = "online")
        /\ reports' = Tail(reports)
    BY <1>5 DEF HearOfHost
  <2>2. CASE Tail(reports) = <<>>
    <3>1. Head(reports) = reports[Len(reports)]
      BY <2>1, <2>2, LastOfOne
    <3> QED BY <2>1, <2>2, <3>1
  <2>3. CASE Tail(reports) # <<>>
    <3>1. reports'[Len(reports')] = reports[Len(reports)]
      BY <2>1, <2>3
    <3> QED BY <2>1, <2>3, <3>1
  <2> QED BY <2>2, <2>3
<1> QED BY <1>1, <1>2, <1>3, <1>4, <1>5
       DEF WindowsNext, Person, windowVars, Built, GraceEnds, SecondLaunch, Signal, Shortcut, TrayClick,
           Send, Minimize, CloseMain, PanelButton, PanelCloses, QuitButton, Handle

(* The request to end stays queued until the loop ends.                    *)
LEMMA ExitStays ==
  ASSUME WindowsTypeOK, Leaving,
         \/ closures' = closures
         \/ \E c \in Closures : closures' = Append(closures, c)
         \/ closures # <<>> /\ Head(closures) # "exit" /\ closures' = Tail(closures)
  PROVE  Leaving'
<1>1. PICK i \in DOMAIN closures : closures[i] = "exit"
  BY DEF Leaving
<1>2. CASE closures' = closures
  BY <1>2 DEF Leaving
<1>3. CASE \E c \in Closures : closures' = Append(closures, c)
  <2>1. i \in DOMAIN closures' /\ closures'[i] = "exit"
    BY <1>1, <1>3 DEF WindowsTypeOK
  <2> QED BY <2>1 DEF Leaving
<1>4. CASE closures # <<>> /\ Head(closures) # "exit" /\ closures' = Tail(closures)
  <2>1. i # 1 /\ i - 1 \in DOMAIN closures' /\ closures'[i - 1] = "exit"
    BY <1>1, <1>4 DEF WindowsTypeOK
  <2> QED BY <2>1 DEF Leaving
<1> QED BY <1>2, <1>3, <1>4

LEMMA LastExit ==
  ASSUME NEW q \in Seq(Closures), closures' = Append(q, "exit")
  PROVE  Leaving'
<1>1. Len(q) + 1 \in DOMAIN closures' /\ closures'[Len(q) + 1] = "exit"
  OBVIOUS
<1> QED BY <1>1 DEF Leaving

(* Hidden on READY's word: the host is there, or its going is not heard of.*)
LEMMA HidingIsSeen ==
  ASSUME WindowsTypeOK, Heard, tray.ready
  PROVE  tray.service /\ (host \/ HidesBlindly)
BY DEF WindowsTypeOK, Heard, HidesBlindly

LEMMA IconedNext == WindowsTypeOK /\ Heard /\ Iconed /\ [WindowsNext]_windowVars => Iconed'
<1> SUFFICES ASSUME WindowsTypeOK, Heard, Iconed, [WindowsNext]_windowVars PROVE Iconed'
  OBVIOUS
<1> USE DEF Iconed
<1>1. CASE UNCHANGED <<app, main, tray, grace, host, blind>> /\ (Leaving => Leaving')
  BY <1>1
<1>2. CASE Launch \/ Built \/ Exit \/ Minimize
  BY <1>2 DEF Launch, Built, Exit, Minimize
<1>3. CASE GraceEnds
  <2>1. CASE main = "hidden" /\ ~tray.ready
    BY <1>3, <2>1 DEF GraceEnds
  <2>2. CASE main # "hidden"
    BY <1>3, <2>2 DEF GraceEnds
  <2>3. CASE main = "hidden" /\ tray.ready
    BY <1>3, <2>3, HidingIsSeen DEF GraceEnds
  <2> QED BY <2>1, <2>2, <2>3 DEF WindowsTypeOK
<1>4. ASSUME NEW c \in Closures, Send(c) PROVE Iconed'
  BY <1>1, <1>4, ExitStays DEF Send
<1>5. CASE CloseMain
  <2>1. CASE HideMain /\ tray.ready
    BY <1>5, <2>1, HidingIsSeen DEF CloseMain, HideMain
  <2>2. CASE closures' = Append(closures, "exit")
    BY <2>2, LastExit DEF WindowsTypeOK
  <2> QED BY <1>5, <2>1, <2>2 DEF CloseMain
<1>6. CASE QuitButton
  BY <1>6, LastExit DEF QuitButton, WindowsTypeOK
<1>7. ASSUME NEW n \in Panels, PanelButton(n) \/ PanelCloses(n) PROVE Iconed'
  BY <1>1, <1>7, ExitStays DEF PanelButton, PanelCloses
<1>8. CASE Handle
  <2>1. CASE Head(closures) = "toggle"
    <3>1. CASE HideMain /\ tray.ready
      BY <1>8, <3>1, HidingIsSeen DEF Handle, HideMain
    <3>2. CASE ShowMain
      BY <1>8, <3>2 DEF Handle, ShowMain
    <3> QED BY <1>8, <2>1, <3>1, <3>2 DEF Handle, ToggleMain
  <2>2. CASE Head(closures) = "show"
    BY <1>8, <2>2 DEF Handle, ShowMain
  <2>3. CASE Head(closures) = "quit"
    <3>1. Tail(closures) \in Seq(Closures)
      BY <1>8 DEF Handle, WindowsTypeOK
    <3> QED BY <1>8, <2>3, <3>1, LastExit DEF Handle
  <2>4. CASE Head(closures) \notin {"toggle", "show", "quit"}
    <3>1. closures # <<>> /\ Head(closures) # "exit" /\ closures' = Tail(closures)
      BY <1>8, <2>4 DEF Handle
    <3>2. UNCHANGED <<app, main, tray, grace, host, blind>>
      BY <1>8, <2>4 DEF Handle, ShowPanel
    <3> QED BY <1>1, <3>1, <3>2, ExitStays
  <2> QED BY <2>1, <2>2, <2>3, <2>4
<1>9. CASE HostChanges
  <2>1. Leaving => Leaving'
    BY <1>9, ExitStays DEF HostChanges
  <2> QED BY <1>9, <2>1 DEF HostChanges, WindowsTypeOK
<1>10. CASE HearOfHost
  <2>1. Leaving => Leaving'
    BY <1>10, ExitStays DEF HearOfHost
  <2>2. tray'.service = tray.service
    BY <1>10 DEF HearOfHost, WindowsTypeOK
  <2> QED BY <1>10, <2>1, <2>2 DEF HearOfHost
<1>11. CASE UNCHANGED windowVars
  BY <1>1, <1>11, ExitStays DEF windowVars
<1> QED BY <1>2, <1>3, <1>4, <1>5, <1>6, <1>7, <1>8, <1>9, <1>10, <1>11
       DEF WindowsNext, Person, SecondLaunch, Signal, Shortcut, TrayClick

LEMMA AlwaysInv == WindowsSpec => []Inv
<1>1. WindowsInit => Heard /\ Iconed
  BY DEF WindowsInit, Heard, Iconed
<1>2. WindowsInit => WindowsTypeOK
  BY InitTyped
<1>3. Typed /\ Inv /\ [WindowsNext]_windowVars => Inv'
  BY TypesNext, HeardNext, IconedNext DEF Typed, Inv
<1> QED BY <1>1, <1>2, <1>3, AlwaysTyped, PTL DEF WindowsSpec, Inv

(* While the program goes on, a hidden main window has an icon to come     *)
(* back from, up to what the desktop had not said yet (tray_backend.rs).   *)
THEOREM IconCorrect == WindowsSpec => []HiddenHasIcon
<1>1. Inv => HiddenHasIcon
  BY DEF Inv, Iconed, HiddenHasIcon
<1> QED BY <1>1, AlwaysInv, PTL

-----------------------------------------------------------------------------
(* refreshing is set by the refresh that starts and taken back by it alone *)
(* (quick_controls_backend.rs): a refresh is dropped only for another one  *)
(* that is still to show what it reads.                                    *)
FlagInv == looking \in BOOLEAN /\ (\A k \in looks : IsLook(k)) /\ Quick!OneRefreshReads

LEMMA FlagInitInv == Quick!Init => FlagInv
BY NewLookIs DEF Quick!Init, FlagInv, Quick!OneRefreshReads

(* A look that goes on is read on with the same flag, or gives it up.      *)
LEMMA LookKeepsFlag ==
  ASSUME FlagInv, NEW k \in looks, Quick!LookStep(k) \/ Quick!LookFails(k)
  PROVE  FlagInv'
<1> USE DEF FlagInv, Quick!OneRefreshReads, IsLook
<1>0. ASSUME NEW j, j = [k EXCEPT !.level = led.seen, !.usable = TRUE],
             looks' = (looks \ {k}) \cup {j}, k.stage = "read", UNCHANGED looking
      PROVE  FlagInv'
  <2>1. IsLook(j) /\ j.stage = "read"
    <3>1. IsLook(k)
      OBVIOUS
    <3> QED BY <1>0, <3>1, ReadIs
  <2>2. looks' = (looks \ {k}) \cup {j} /\ k.stage = "read" /\ UNCHANGED looking
    BY <1>0
  <2> QED BY <2>1, <2>2
<1>1. CASE Quick!LookReads(k)
  BY <1>0, <1>1 DEF Quick!LookReads
<1>2. CASE Quick!LookDone(k)
  <2> DEFINE r == [k EXCEPT !.stage = "ready"]
  <2>1. k.stage = "read" /\ looks' = (looks \ {k}) \cup {r} /\ looking' = FALSE
    BY <1>2 DEF Quick!LookDone
  <2>2. r.stage = "ready" /\ IsLook(r)
    BY <2>1
  <2> HIDE DEF r
  <2> QED BY <2>1, <2>2
<1>3. CASE Quick!LookQueues(k)
  <2>1. k.stage = "ready" /\ looks' = looks \ {k} /\ looking' = looking
    BY <1>3 DEF Quick!LookQueues
  <2> QED BY <2>1
<1>4. CASE Quick!LookFails(k)
  <2>1. PICK level \in {Quick!Unknown, led.seen} :
          looks' = (looks \ {k}) \cup {[stage |-> "ready", level |-> level, usable |-> FALSE]}
    BY <1>4 DEF Quick!LookFails
  <2> DEFINE r == [stage |-> "ready", level |-> level, usable |-> FALSE]
  <2>2. k.stage = "read" /\ looks' = (looks \ {k}) \cup {r} /\ looking' = FALSE
    BY <1>4, <2>1 DEF Quick!LookFails
  <2>3. r.stage = "ready" /\ IsLook(r)
    OBVIOUS
  <2> HIDE DEF r
  <2> QED BY <2>2, <2>3
<1> QED BY <1>1, <1>2, <1>3, <1>4 DEF Quick!LookStep

LEMMA FlagNextInv == FlagInv /\ Quick!Next => FlagInv'
<1> SUFFICES ASSUME FlagInv, Quick!Next PROVE FlagInv'
  OBVIOUS
<1> USE DEF FlagInv, Quick!OneRefreshReads
<1>1. CASE UNCHANGED <<looking, looks>>
  BY <1>1
<1>2. CASE ~looking /\ Quick!Start
  BY <1>2, NewLookIs DEF Quick!Start
<1>3. ASSUME NEW k \in looks, Quick!LookStep(k) \/ Quick!LookFails(k) PROVE FlagInv'
  BY <1>3, LookKeepsFlag
<1>4. Quick!Tick \/ Quick!Show => (~looking /\ Quick!Start) \/ UNCHANGED <<looking, looks>>
  BY DEF Quick!Tick, Quick!Show, Quick!ShowLooked, Quick!ShowWrote, Quick!Dropped
<1>5. Quick!Settle \/ Quick!ExtraRefresh => UNCHANGED <<looking, looks>>
  BY DEF Quick!Settle, Quick!ExtraRefresh
<1>6. ASSUME NEW l, Quick!Click(l) \/ Quick!OtherLevel(l) PROVE UNCHANGED <<looking, looks>>
  BY <1>6 DEF Quick!Click, Quick!OtherLevel
<1>7. ASSUME NEW w, Quick!WriteStep(w) \/ Quick!WriteFails(w) \/ Quick!Write(w)
                      \/ Quick!Mismatch(w) \/ Quick!GiveUp(w)
      PROVE  UNCHANGED <<looking, looks>>
  BY <1>7 DEF Quick!WriteStep, Quick!Send, Quick!Confirm, Quick!WriteFails, Quick!Write,
         Quick!Mismatch, Quick!GiveUp
<1> QED BY <1>1, <1>2, <1>3, <1>4, <1>5, <1>6, <1>7 DEF Quick!Next

(* The quick controls drop a refresh only for one that still reads, and    *)
(* never read twice at a time (quick_controls_backend.rs).                 *)
THEOREM FlagIsHeld == PartSpec => []Quick!OneRefreshReads
<1>1. PartInit => FlagInv
  BY FlagInitInv DEF PartInit
<1>2. FlagInv /\ [PartNext]_PartVars => FlagInv'
  <2>1. FlagInv /\ UNCHANGED quickState => FlagInv'
    BY DEF FlagInv, quickState, Quick!OneRefreshReads
  <2> QED BY <2>1, PartSteps, FlagNextInv
<1>3. FlagInv => Quick!OneRefreshReads
  BY DEF FlagInv
<1> QED BY <1>1, <1>2, <1>3, PTL DEF PartSpec, PartVars
===============================================================================
