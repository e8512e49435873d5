------------------------- MODULE ChargeWriteProofs -------------------------
(***************************************************************************)
(* The safety of the charge-limit path for any number of front-ends, any   *)
(* percentages and any bounds. The properties are not inductive: a verdict *)
(* depends on what hardwared answered, that on where its handler was, and  *)
(* that on what lies in asusd's inbox. Inv adds exactly these links.       *)
(***************************************************************************)
EXTENDS ChargeWrite, TLAPS

(* An answer is told apart by its name: these two sets are always expanded. *)
USE DEF WrappedErrors, Refusals

(* One front-end: where its call is (with the handler, on its way back, or *)
(* neither), and that an open request has no verdict yet.                  *)
CallOK(c) ==
  /\ handler[c] # "none" =>
       client[c].pc = "calling" /\ reply[c] = "none" /\ client[c].want \in Limits
  /\ reply[c] # "none" => client[c].pc = "calling"
  /\ client[c].pc # "idle" => verdict[c].kind = "none"

(* What was sent for its latest request.                                   *)
SentOK(c) ==
  /\ handler[c] = "authorizing" => hist[c].sent = 0
  /\ hist[c].sent <= 1
  /\ hist[c].sent = 1 => hist[c].granted
  /\ reply[c] = "unsupported" => hist[c].sent = 0
  /\ reply[c] \in Refusals => hist[c].sent = 0 \/ hist[c].objected
  /\ verdict[c].kind = "command" =>
       /\ verdict[c].err = "Unsupported" => hist[c].sent = 0
       /\ verdict[c].err \in {"PermissionDenied", "InvalidRequest"} =>
            hist[c].sent = 0 \/ hist[c].objected

(* Which values its latest request is known to have seen in force.         *)
SeenOK(c) ==
  /\ client[c].pc # "idle" => configured \in hist[c].seen
  /\ handler[c] = "effective" \/ reply[c] = "ok" => client[c].want \in hist[c].seen
  /\ client[c].pc \in {"readConfigured", "readEffective"} /\ client[c].err = "none"
       => client[c].want \in hist[c].seen
  /\ client[c].pc = "readEffective" => client[c].read \in hist[c].seen
  /\ verdict[c].kind = "applied" => client[c].want \in hist[c].seen

ClientOK(c) == CallOK(c) /\ SentOK(c) /\ SeenOK(c)

(* A setter asusd has not executed: if it is of its front-end's latest     *)
(* request, the caller waits for it, or learns, or has learned, that there *)
(* is no reply.                                                            *)
Pending(m) ==
  /\ m.n <= client[m.from].n
  /\ m.n = client[m.from].n =>
       /\ hist[m.from].sent = 1
       /\ verdict[m.from].kind # "command"
       /\ client[m.from].pc = "calling" =>
            handler[m.from] = "setting" \/ reply[m.from] = "noReply"

InboxOK == \A i \in 1 .. Len(inbox) : Pending(inbox[i])

(* No request has two setters in the inbox.                                *)
InboxUnique ==
  \A i, j \in 1 .. Len(inbox) :
    inbox[i].from = inbox[j].from /\ inbox[i].n = inbox[j].n => i = j

Inv ==
  /\ TypeOK
  /\ \A c \in Clients : ClientOK(c)
  /\ InboxOK
  /\ InboxUnique

-----------------------------------------------------------------------------
(* The initial states.                                                     *)
LEMMA InitInv == Init => Inv
<1> SUFFICES ASSUME Init PROVE Inv
  OBVIOUS
<1> USE DEF Init
<1>1. TypeOK
  <2>1. client \in [Clients -> Requests]
    BY DEF Requests, ClientPcs
  <2>2. verdict \in [Clients -> Verdicts]
    <3>1. NoVerdict \in Verdicts
      BY DEF Verdicts, NoVerdict
    <3> QED
      BY <3>1
  <2>3. handler \in [Clients -> HandlerPcs] /\ reply \in [Clients -> Replies]
    BY DEF HandlerPcs, Replies
  <2>4. externals \in 0 .. MaxExternal /\ crashes \in 0 .. MaxCrashes
    BY BoundsAssumption
  <2>5. hist \in [Clients -> Histories]
    BY DEF Fresh, Histories
  <2>6. configured \in Limits /\ effective \in Limits
    OBVIOUS
  <2>7. inbox \in Seq(Setters)
    OBVIOUS
  <2> QED
    BY <2>1, <2>2, <2>3, <2>4, <2>5, <2>6, <2>7 DEF TypeOK
<1>2. ASSUME NEW c \in Clients PROVE ClientOK(c)
  BY DEF ClientOK, CallOK, SentOK, SeenOK, Fresh, NoVerdict
<1>3. InboxOK /\ InboxUnique
  BY DEF InboxOK, InboxUnique
<1> QED
  BY <1>1, <1>2, <1>3 DEF Inv

-----------------------------------------------------------------------------
(* Front-end steps.                                                        *)

(* Messages of the front-ends' requests are told apart by their numbers:   *)
(* every setter in the inbox is from a front-end, with a number.           *)
LEMMA InboxType ==
  ASSUME TypeOK, NEW i \in 1 .. Len(inbox)
  PROVE  inbox[i] \in Setters
BY DEF TypeOK

LEMMA SubmitInv ==
  ASSUME Inv, NEW c \in Clients, NEW p \in Wanted, Submit(c, p)
  PROVE  Inv'
<1> USE DEF Submit
<1>0. TypeOK /\ ClientOK(c) /\ p \in Nat
  BY WantedAssumption DEF Inv
<1>1. TypeOK'
  <2>1. client' \in [Clients -> Requests]
    <3>1. \E q \in {"idle", "calling"} : client' = [client EXCEPT ![c] =
            [pc |-> q, n |-> client[c].n + 1, want |-> p, err |-> "none", read |-> 0]]
      BY <1>0 DEF TypeOK
    <3> QED
      BY <1>0, <3>1 DEF TypeOK, Requests, ClientPcs
  <2>2. verdict' \in [Clients -> Verdicts]
    <3>1. {NoVerdict, [kind |-> "command", err |-> "InvalidRequest"]} \subseteq Verdicts
      BY DEF Verdicts, NoVerdict, ProviderErrors
    <3> QED
      BY <1>0, <3>1 DEF TypeOK
  <2>3. handler' \in [Clients -> HandlerPcs] /\ reply' \in [Clients -> Replies]
    BY <1>0 DEF TypeOK, HandlerPcs, Replies
  <2>4. hist' \in [Clients -> Histories]
    BY <1>0 DEF TypeOK, Fresh, Histories
  <2> QED
    BY <1>0, <2>1, <2>2, <2>3, <2>4 DEF TypeOK, hardware
<1>2. ASSUME NEW d \in Clients PROVE ClientOK(d)'
  <2>1. CASE d = c
    <3>1. handler[c] = "none" /\ reply[c] = "none"
      BY <1>0 DEF ClientOK, CallOK
    <3>2. /\ client'[c].want = p
          /\ client'[c].err = "none"
          /\ client'[c].pc = (IF ValidLimit(p) THEN "calling" ELSE "idle")
          /\ hist'[c] = Fresh
          /\ configured' = configured
      BY <1>0 DEF TypeOK, hardware
    <3>3. ValidLimit(p) => p \in Limits
      BY <1>0 DEF ValidLimit, Limits
    <3>4. CASE ValidLimit(p)
      BY <1>0, <2>1, <3>1, <3>2, <3>3, <3>4
      DEF TypeOK, ClientOK, CallOK, SentOK, SeenOK, Fresh, NoVerdict
    <3>5. CASE ~ValidLimit(p)
      BY <1>0, <2>1, <3>1, <3>2, <3>5
      DEF TypeOK, ClientOK, CallOK, SentOK, SeenOK, Fresh
    <3> QED
      BY <3>4, <3>5
  <2>2. CASE d # c
    BY <1>0, <2>2 DEF TypeOK, Inv, ClientOK, CallOK, SentOK, SeenOK, hardware
  <2> QED
    BY <2>1, <2>2
<1>3. InboxOK'
  <2> SUFFICES ASSUME NEW i \in 1 .. Len(inbox) PROVE Pending(inbox[i])'
    BY DEF InboxOK
  <2>1. inbox[i] \in Setters /\ Pending(inbox[i])
    BY <1>0, InboxType DEF Inv, InboxOK
  <2>2. CASE inbox[i].from = c
    <3>1. client[c].n \in Nat /\ client'[c].n = client[c].n + 1
      BY <1>0 DEF TypeOK, Requests
    <3> QED
      BY <2>1, <2>2, <3>1 DEF Pending, Setters
  <2>3. CASE inbox[i].from # c
    BY <1>0, <2>1, <2>3 DEF TypeOK, Pending, Setters
  <2> QED
    BY <2>2, <2>3
<1>4. InboxUnique'
  BY DEF Inv, InboxUnique
<1> QED
  BY <1>1, <1>2, <1>3, <1>4 DEF Inv

LEMMA ReceiveInv ==
  ASSUME Inv, NEW c \in Clients, Receive(c)
  PROVE  Inv'
<1> USE DEF Receive
<1> DEFINE e == Classify(reply[c])
           recovers == reply[c] = "ok" \/ MayHaveDispatched(e)
<1>0. TypeOK /\ ClientOK(c) /\ handler[c] = "none" /\ verdict[c].kind = "none"
  BY DEF Inv, ClientOK, CallOK
<1>a. e \in ProviderErrors
  BY DEF Classify, ProviderErrors
<1>1. TypeOK'
  <2>1. client' \in [Clients -> Requests]
    <3>1. /\ [client[c] EXCEPT !.pc = "readConfigured"] \in Requests
          /\ [client[c] EXCEPT !.pc = "readConfigured", !.err = e] \in Requests
          /\ [client[c] EXCEPT !.pc = "idle"] \in Requests
      BY <1>0, <1>a DEF TypeOK, Requests, ClientPcs
    <3>2. \/ client' = [client EXCEPT ![c] = [client[c] EXCEPT !.pc = "readConfigured"]]
          \/ client' = [client EXCEPT ![c] =
                          [client[c] EXCEPT !.pc = "readConfigured", !.err = e]]
          \/ client' = [client EXCEPT ![c] = [client[c] EXCEPT !.pc = "idle"]]
      BY <1>0 DEF TypeOK
    <3> HIDE DEF e
    <3> QED
      BY <1>0, <3>1, <3>2 DEF TypeOK
  <2>2. verdict' \in [Clients -> Verdicts]
    <3>1. [kind |-> "command", err |-> e] \in Verdicts
      BY <1>a DEF Verdicts
    <3> QED
      BY <1>0, <3>1 DEF TypeOK
  <2>3. reply' \in [Clients -> Replies]
    BY <1>0 DEF TypeOK, Replies
  <2> QED
    BY <1>0, <2>1, <2>2, <2>3 DEF TypeOK, hardware
<1>b. /\ client'[c].n = client[c].n
      /\ client'[c].want = client[c].want
      /\ client'[c].pc = (IF recovers THEN "readConfigured" ELSE "idle")
      /\ recovers => client'[c].err = (IF reply[c] = "ok" THEN client[c].err ELSE e)
      /\ verdict'[c] = (IF recovers THEN verdict[c] ELSE [kind |-> "command", err |-> e])
      /\ reply'[c] = "none"
      /\ handler' = handler /\ hist' = hist /\ configured' = configured /\ inbox' = inbox
  BY <1>0 DEF TypeOK, Requests, hardware
<1>c. \A d \in Clients \ {c} :
        client'[d] = client[d] /\ verdict'[d] = verdict[d] /\ reply'[d] = reply[d]
  BY <1>0 DEF TypeOK
<1>2. ASSUME NEW d \in Clients PROVE ClientOK(d)'
  <2>1. CASE d = c
    BY <1>0, <1>a, <1>b, <2>1
    DEF ClientOK, CallOK, SentOK, SeenOK, Classify, MayHaveDispatched, ProviderErrors
  <2>2. CASE d # c
    BY <1>b, <1>c, <2>2 DEF Inv, ClientOK, CallOK, SentOK, SeenOK
  <2> QED
    BY <2>1, <2>2
<1>3. InboxOK'
  <2> SUFFICES ASSUME NEW i \in 1 .. Len(inbox) PROVE Pending(inbox[i])'
    BY <1>b DEF InboxOK
  <2>1. inbox[i] \in Setters /\ Pending(inbox[i])
    BY <1>0, InboxType DEF Inv, InboxOK
  <2>2. CASE inbox[i].from = c
    BY <1>0, <1>b, <2>1, <2>2 DEF Pending, Classify, MayHaveDispatched
  <2>3. CASE inbox[i].from # c
    BY <1>b, <1>c, <2>1, <2>3 DEF Pending, Setters
  <2> QED
    BY <2>2, <2>3
<1>4. InboxUnique'
  BY <1>b DEF Inv, InboxUnique
<1> QED
  BY <1>1, <1>2, <1>3, <1>4 DEF Inv

(* Both halves of the read-back end in one of three ways: the read goes    *)
(* on, it yields the wanted value to a request that has seen it, or the    *)
(* request ends without an "applied".                                      *)
LEMMA ReadBackInv ==
  ASSUME Inv, NEW c \in Clients, NEW r \in Requests, NEW v \in Verdicts,
         client[c].pc \in {"readConfigured", "readEffective"},
         client' = [client EXCEPT ![c] = r],
         verdict' = [verdict EXCEPT ![c] = v],
         r.n = client[c].n, r.want = client[c].want,
         \/ r.pc = "idle" /\ v.kind # "command"
         \/ /\ r.pc = "readEffective" /\ r.err = client[c].err
            /\ v = verdict[c] /\ r.read \in hist[c].seen,
         v.kind = "applied" => client[c].want \in hist[c].seen,
         UNCHANGED <<daemon, hardware, externals, crashes, hist>>
  PROVE  Inv'
<1>0. TypeOK /\ ClientOK(c) /\ handler[c] = "none" /\ reply[c] = "none" /\ verdict[c].kind = "none"
  BY DEF Inv, TypeOK, ClientOK, CallOK
<1>b. handler' = handler /\ reply' = reply /\ hist' = hist /\ configured' = configured
        /\ inbox' = inbox
  BY DEF daemon, hardware
<1>1. TypeOK'
  BY <1>0, <1>b DEF TypeOK, daemon, hardware
<1>c. client'[c] = r /\ verdict'[c] = v
  BY <1>0 DEF TypeOK
<1>d. \A d \in Clients \ {c} : client'[d] = client[d] /\ verdict'[d] = verdict[d]
  BY <1>0 DEF TypeOK
<1>2. ASSUME NEW d \in Clients PROVE ClientOK(d)'
  <2>1. CASE d = c
    BY <1>0, <1>b, <1>c, <2>1 DEF ClientOK, CallOK, SentOK, SeenOK
  <2>2. CASE d # c
    BY <1>b, <1>d, <2>2 DEF Inv, ClientOK, CallOK, SentOK, SeenOK
  <2> QED
    BY <2>1, <2>2
<1>3. InboxOK'
  <2> SUFFICES ASSUME NEW i \in 1 .. Len(inbox) PROVE Pending(inbox[i])'
    BY <1>b DEF InboxOK
  <2>1. inbox[i] \in Setters /\ Pending(inbox[i])
    BY <1>0, InboxType DEF Inv, InboxOK
  <2>2. CASE inbox[i].from = c
    BY <1>0, <1>b, <1>c, <2>1, <2>2 DEF Pending
  <2>3. CASE inbox[i].from # c
    BY <1>b, <1>d, <2>1, <2>3 DEF Pending, Setters
  <2> QED
    BY <2>2, <2>3
<1>4. InboxUnique'
  BY <1>b DEF Inv, InboxUnique
<1> QED
  BY <1>1, <1>2, <1>3, <1>4 DEF Inv

LEMMA ReadFailsInv ==
  ASSUME Inv, NEW c \in Clients, ReadFails(c),
         client[c].pc \in {"readConfigured", "readEffective"},
         UNCHANGED <<daemon, hardware, externals, crashes, hist>>
  PROVE  Inv'
<1> DEFINE r == [client[c] EXCEPT !.pc = "idle", !.err = "none", !.read = 0]
           v == IF client[c].err = "none" THEN [kind |-> "readback", err |-> "none"]
                ELSE [kind |-> "unconfirmed", err |-> client[c].err]
<1>0. client[c] \in Requests /\ verdict[c] \in Verdicts
  BY DEF Inv, TypeOK
<1>1. client' = [client EXCEPT ![c] = r] /\ verdict' = [verdict EXCEPT ![c] = v]
  BY DEF ReadFails
<1>2. r \in Requests /\ r.n = client[c].n /\ r.want = client[c].want /\ r.pc = "idle"
  BY <1>0 DEF Requests, ClientPcs
<1>3. v \in Verdicts /\ v.kind \notin {"command", "applied"}
  BY <1>0 DEF Verdicts, Requests
<1> QED
  BY <1>1, <1>2, <1>3, ReadBackInv

LEMMA ReadYieldsInv ==
  ASSUME Inv, NEW c \in Clients, NEW percent \in hist[c].seen, ReadYields(c, percent),
         client[c].pc \in {"readConfigured", "readEffective"},
         UNCHANGED <<daemon, hardware, externals, crashes, hist>>
  PROVE  Inv'
<1> DEFINE r == [client[c] EXCEPT !.pc = "idle", !.err = "none", !.read = 0]
           v == IF client[c].err = "none" \/ percent = client[c].want
                THEN [kind |-> "applied", err |-> "none"]
                ELSE [kind |-> "unconfirmed", err |-> client[c].err]
<1>0. client[c] \in Requests /\ verdict[c] \in Verdicts
  BY DEF Inv, TypeOK
<1>1. client' = [client EXCEPT ![c] = r] /\ verdict' = [verdict EXCEPT ![c] = v]
  BY DEF ReadYields
<1>2. r \in Requests /\ r.n = client[c].n /\ r.want = client[c].want /\ r.pc = "idle"
  BY <1>0 DEF Requests, ClientPcs
<1>3. v \in Verdicts /\ v.kind # "command"
  BY <1>0 DEF Verdicts, Requests
<1>4. v.kind = "applied" => client[c].want \in hist[c].seen
  BY DEF Inv, ClientOK, SeenOK
<1> QED
  BY <1>1, <1>2, <1>3, <1>4, ReadBackInv

LEMMA SessionReadConfiguredInv ==
  ASSUME Inv, NEW c \in Clients, SessionReadConfigured(c)
  PROVE  Inv'
<1>1. CASE ReadFails(c)
  BY <1>1, ReadFailsInv DEF SessionReadConfigured
<1>2. CASE /\ client' = [client EXCEPT ![c].pc = "readEffective", ![c].read = configured]
           /\ UNCHANGED verdict
  <2> DEFINE r == [client[c] EXCEPT !.pc = "readEffective", !.read = configured]
  <2>0. TypeOK /\ client[c] \in Requests /\ verdict[c] \in Verdicts /\ configured \in Nat
    BY DEF Inv, TypeOK, Limits, MinChargeLimit, MaxChargeLimit
  <2>1. client' = [client EXCEPT ![c] = r] /\ verdict' = [verdict EXCEPT ![c] = verdict[c]]
    BY <1>2, <2>0 DEF TypeOK
  <2>2. r \in Requests /\ r.n = client[c].n /\ r.want = client[c].want
          /\ r.err = client[c].err /\ r.pc = "readEffective" /\ r.read = configured
    BY <2>0 DEF Requests, ClientPcs
  <2>3. configured \in hist[c].seen /\ verdict[c].kind = "none"
    BY DEF Inv, ClientOK, CallOK, SeenOK, SessionReadConfigured
  <2> QED
    BY <2>0, <2>1, <2>2, <2>3, ReadBackInv DEF SessionReadConfigured
<1> QED
  BY <1>1, <1>2 DEF SessionReadConfigured

LEMMA SessionReadEffectiveInv ==
  ASSUME Inv, NEW c \in Clients, SessionReadEffective(c)
  PROVE  Inv'
<1>1. CASE ReadFails(c)
  BY <1>1, ReadFailsInv DEF SessionReadEffective
<1>2. CASE effective = client[c].read /\ ReadYields(c, effective)
  <2>1. effective \in hist[c].seen
    BY <1>2 DEF Inv, ClientOK, SeenOK, SessionReadEffective
  <2> QED
    BY <1>2, <2>1, ReadYieldsInv DEF SessionReadEffective
<1> QED
  BY <1>1, <1>2 DEF SessionReadEffective

-----------------------------------------------------------------------------
(* hardwared steps.                                                        *)

(* A caller whose handler is not at asusd's setter has no setter of its    *)
(* latest request in the inbox.                                            *)
LEMMA NothingPending ==
  ASSUME Inv, NEW c \in Clients, handler[c] \notin {"none", "setting"},
         NEW i \in 1 .. Len(inbox), inbox[i].from = c
  PROVE  inbox[i].n < client[c].n
<1>1. inbox[i] \in Setters /\ Pending(inbox[i])
  BY InboxType DEF Inv, InboxOK
<1>2. client[c] \in Requests
  BY DEF Inv, TypeOK
<1>3. client[c].pc = "calling" /\ reply[c] = "none"
  BY DEF Inv, ClientOK, CallOK
<1> QED
  BY <1>1, <1>2, <1>3 DEF Pending, Setters, Requests

(* The handler answers, for a reason.                                      *)
LEMMA AnswerInv ==
  ASSUME Inv, NEW c \in Clients, NEW r \in Replies \ {"none"}, Answer(c, r),
         handler[c] \notin {"none", "setting"},
         r = "unsupported" => handler[c] = "authorizing",
         r \in Refusals => handler[c] = "authorizing" \/ hist'[c].objected,
         r = "ok" => handler[c] = "effective",
         NEW yes \in BOOLEAN,
         hist' \in {hist, [hist EXCEPT ![c].granted = TRUE], [hist EXCEPT ![c].objected = yes]},
         UNCHANGED <<frontend, inbox, asusdUp, hardware, externals, crashes>>
  PROVE  Inv'
<1> USE DEF Answer, frontend, hardware
<1>0. TypeOK /\ ClientOK(c)
  BY DEF Inv
<1>1. TypeOK'
  <2>1. hist' \in [Clients -> Histories]
    <3>1. hist[c] \in Histories
      BY <1>0 DEF TypeOK
    <3>2. /\ [hist[c] EXCEPT !.granted = TRUE] \in Histories
          /\ [hist[c] EXCEPT !.objected = yes] \in Histories
      BY <3>1 DEF Histories
    <3> QED
      BY <1>0, <3>2 DEF TypeOK
  <2> QED
    BY <1>0, <2>1 DEF TypeOK, HandlerPcs
<1>a. /\ handler'[c] = "none" /\ reply'[c] = r
      /\ hist'[c].sent = hist[c].sent /\ hist'[c].seen = hist[c].seen
      /\ hist[c].granted => hist'[c].granted
  <2>1. hist \in [Clients -> Histories] /\ hist[c] \in Histories
    BY <1>0 DEF TypeOK
  <2>2. hist'[c] \in {hist[c], [hist[c] EXCEPT !.granted = TRUE],
                      [hist[c] EXCEPT !.objected = yes]}
    BY <2>1
  <2> QED
    BY <1>0, <2>1, <2>2 DEF TypeOK, Histories
<1>c. verdict[c].kind = "none" /\ (handler[c] = "authorizing" => hist[c].sent = 0)
  BY <1>0 DEF ClientOK, CallOK, SentOK
<1>b. \A d \in Clients \ {c} :
        handler'[d] = handler[d] /\ reply'[d] = reply[d] /\ hist'[d] = hist[d]
  BY <1>0 DEF TypeOK
<1>2. ASSUME NEW d \in Clients PROVE ClientOK(d)'
  <2>1. CASE d = c
    BY <1>0, <1>a, <1>c, <2>1 DEF ClientOK, CallOK, SentOK, SeenOK
  <2>2. CASE d # c
    BY <1>b, <2>2 DEF Inv, ClientOK, CallOK, SentOK, SeenOK
  <2> QED
    BY <2>1, <2>2
<1>3. InboxOK'
  <2> SUFFICES ASSUME NEW i \in 1 .. Len(inbox) PROVE Pending(inbox[i])'
    BY DEF InboxOK
  <2>1. inbox[i] \in Setters /\ Pending(inbox[i])
    BY <1>0, InboxType DEF Inv, InboxOK
  <2>2. CASE inbox[i].from = c
    <3>1. inbox[i].n < client[c].n
      BY <2>2, NothingPending
    <3>2. client[c].n \in Nat
      BY <1>0 DEF TypeOK, Requests
    <3> QED
      BY <2>1, <2>2, <3>1, <3>2 DEF Pending, Setters
  <2>3. CASE inbox[i].from # c
    BY <1>b, <2>1, <2>3 DEF Pending, Setters
  <2> QED
    BY <2>2, <2>3
<1>4. InboxUnique'
  BY DEF Inv, InboxUnique
<1> QED
  BY <1>1, <1>2, <1>3, <1>4 DEF Inv

LEMMA DeclineInv ==
  ASSUME Inv, NEW c \in Clients, Decline(c)
  PROVE  Inv'
BY AnswerInv DEF Decline, Replies

LEMMA ReadBackEffectiveInv ==
  ASSUME Inv, NEW c \in Clients, ReadBackEffective(c)
  PROVE  Inv'
BY AnswerInv DEF ReadBackEffective, Replies

LEMMA ReadBackConfiguredInv ==
  ASSUME Inv, NEW c \in Clients, ReadBackConfigured(c)
  PROVE  Inv'
<1>1. ASSUME NEW r \in WrappedErrors, r \in Refusals => asusdUp, Answer(c, r),
             hist' = [hist EXCEPT ![c].objected = asusdUp /\ r \in Definite]
      PROVE  Inv'
  <2>1. PICK yes \in BOOLEAN : yes = (asusdUp /\ r \in Definite)
    OBVIOUS
  <2>2. hist' = [hist EXCEPT ![c].objected = yes]
    BY <1>1, <2>1, Zenon
  <2>3. r \in Refusals => hist'[c].objected
    BY <1>1, <2>1, <2>2 DEF Inv, TypeOK, Histories, Definite
  <2>4. r \in Replies \ {"none", "ok", "unsupported"} /\ handler[c] = "configured"
    BY <1>1 DEF Replies, ReadBackConfigured
  <2> QED
    BY <1>1, <2>2, <2>3, <2>4, AnswerInv DEF ReadBackConfigured
<1>2. CASE /\ configured = client[c].want
           /\ handler' = [handler EXCEPT ![c] = "effective"]
           /\ UNCHANGED <<reply, hist>>
  <2>0. TypeOK /\ ClientOK(c) /\ handler[c] = "configured"
          /\ UNCHANGED <<frontend, inbox, asusdUp, hardware, externals, crashes, hist>>
    BY <1>2 DEF Inv, ReadBackConfigured
  <2>1. TypeOK'
    BY <1>2, <2>0 DEF TypeOK, HandlerPcs, frontend, hardware
  <2>2. ASSUME NEW d \in Clients PROVE ClientOK(d)'
    <3>1. CASE d = c
      BY <1>2, <2>0, <3>1
      DEF TypeOK, ClientOK, CallOK, SentOK, SeenOK, frontend, hardware
    <3>2. CASE d # c
      BY <1>2, <2>0, <3>2
      DEF TypeOK, Inv, ClientOK, CallOK, SentOK, SeenOK, frontend, hardware
    <3> QED
      BY <3>1, <3>2
  <2>3. InboxOK'
    <3> SUFFICES ASSUME NEW i \in 1 .. Len(inbox) PROVE Pending(inbox[i])'
      BY <2>0 DEF InboxOK
    <3>1. inbox[i] \in Setters /\ Pending(inbox[i])
      BY <2>0, InboxType DEF Inv, InboxOK
    <3>2. CASE inbox[i].from = c
      <4>1. inbox[i].n < client[c].n
        BY <2>0, <3>2, NothingPending
      <4>2. client[c].n \in Nat
        BY <2>0 DEF TypeOK, Requests
      <4> QED
        BY <2>0, <3>1, <3>2, <4>1, <4>2 DEF Pending, Setters, frontend
    <3>3. CASE inbox[i].from # c
      BY <1>2, <2>0, <3>1, <3>3 DEF TypeOK, Pending, Setters, frontend
    <3> QED
      BY <3>2, <3>3
  <2>4. InboxUnique'
    BY <2>0 DEF Inv, InboxUnique
  <2> QED
    BY <2>1, <2>2, <2>3, <2>4 DEF Inv
<1> QED
  BY <1>1, <1>2 DEF ReadBackConfigured

LEMMA AuthorizeInv ==
  ASSUME Inv, NEW c \in Clients, Authorize(c)
  PROVE  Inv'
<1>0. /\ TypeOK /\ ClientOK(c) /\ handler[c] = "authorizing"
      /\ UNCHANGED <<frontend, asusdUp, hardware, externals, crashes>>
  BY DEF Inv, Authorize
<1>1. CASE ~asusdUp
  BY <1>0, <1>1, AnswerInv DEF Authorize, Replies
<1>2. CASE asusdUp
  <2> DEFINE m == [from |-> c, n |-> client[c].n, want |-> client[c].want]
  <2>0. /\ handler' = [handler EXCEPT ![c] = "setting"]
        /\ inbox' = Append(inbox, m)
        /\ hist' = [hist EXCEPT ![c].sent = @ + 1, ![c].granted = TRUE]
        /\ reply' = reply
    BY <1>2 DEF Authorize
  <2>1. m \in Setters /\ m.from = c /\ m.n = client[c].n
    BY <1>0 DEF TypeOK, ClientOK, CallOK, Setters, Requests
  <2> HIDE DEF m
  <2>2. /\ Len(inbox') = Len(inbox) + 1
        /\ inbox'[Len(inbox) + 1] = m
        /\ \A i \in 1 .. Len(inbox) : inbox'[i] = inbox[i]
        /\ Len(inbox) \in Nat
        /\ inbox' \in Seq(Setters)
    BY <1>0, <2>0, <2>1 DEF TypeOK
  <2>3. /\ hist[c].sent = 0 /\ hist'[c].sent = 1 /\ hist'[c].granted
        /\ hist'[c].seen = hist[c].seen
        /\ handler'[c] = "setting"
    BY <1>0, <2>0 DEF TypeOK, ClientOK, SentOK, Histories
  <2>4. \A d \in Clients \ {c} : handler'[d] = handler[d] /\ hist'[d] = hist[d]
    BY <1>0, <2>0 DEF TypeOK
  <2>5. TypeOK'
    <3>1. hist' \in [Clients -> Histories]
      <4>1. hist[c] \in Histories
        BY <1>0 DEF TypeOK
      <4>2. [hist[c] EXCEPT !.sent = @ + 1, !.granted = TRUE] \in Histories
        <5>1. [hist[c] EXCEPT !.sent = @ + 1] \in Histories
          BY <4>1 DEF Histories
        <5>2. \A h \in Histories : [h EXCEPT !.granted = TRUE] \in Histories
          BY DEF Histories
        <5> QED
          BY <5>1, <5>2
      <4> QED
        BY <1>0, <2>0, <4>2 DEF TypeOK
    <3>2. handler' \in [Clients -> HandlerPcs]
      BY <1>0, <2>0 DEF TypeOK, HandlerPcs
    <3> QED
      BY <1>0, <2>0, <2>2, <3>1, <3>2 DEF TypeOK, frontend, hardware
  <2>6. ASSUME NEW d \in Clients PROVE ClientOK(d)'
    <3>1. CASE d = c
      BY <1>0, <2>0, <2>3, <3>1 DEF ClientOK, CallOK, SentOK, SeenOK, frontend, hardware
    <3>2. CASE d # c
      BY <1>0, <2>0, <2>4, <3>2 DEF Inv, ClientOK, CallOK, SentOK, SeenOK, frontend, hardware
    <3> QED
      BY <3>1, <3>2
  <2>7. ASSUME NEW i \in 1 .. Len(inbox), inbox[i].from = c PROVE inbox[i].n < client[c].n
    BY <1>0, <2>7, NothingPending
  <2>8. client[c].n \in Nat /\ verdict[c].kind = "none"
    BY <1>0 DEF TypeOK, Requests, ClientOK, CallOK
  <2>9. InboxOK'
    <3> SUFFICES ASSUME NEW i \in 1 .. Len(inbox') PROVE Pending(inbox[i])'
      BY DEF InboxOK
    <3>1. CASE i = Len(inbox) + 1
      <4>1. inbox'[i] = m /\ client' = client /\ verdict' = verdict
        BY <1>0, <2>2, <3>1 DEF frontend
      <4> QED
        BY <2>1, <2>3, <2>8, <4>1 DEF Pending
    <3>2. CASE i # Len(inbox) + 1
      <4>1. i \in 1 .. Len(inbox) /\ inbox'[i] = inbox[i]
        BY <2>2, <3>2
      <4>2. inbox[i] \in Setters /\ Pending(inbox[i])
        BY <1>0, <4>1, InboxType DEF Inv, InboxOK
      <4>3. CASE inbox[i].from = c
        BY <1>0, <2>7, <2>8, <4>1, <4>2, <4>3 DEF Pending, Setters, frontend
      <4>4. CASE inbox[i].from # c
        BY <1>0, <2>0, <2>4, <4>1, <4>2, <4>4 DEF Pending, Setters, frontend
      <4> QED
        BY <4>3, <4>4
    <3> QED
      BY <3>1, <3>2
  <2>10. InboxUnique'
    BY <2>1, <2>2, <2>7, <2>8 DEF Inv, InboxUnique
  <2> QED
    BY <2>5, <2>6, <2>9, <2>10 DEF Inv
<1> QED
  BY <1>1, <1>2

LEMMA HardwaredDiesInv ==
  ASSUME Inv, HardwaredDies
  PROVE  Inv'
<1> USE DEF HardwaredDies, frontend, hardware
<1>0. TypeOK
  BY DEF Inv
<1>1. TypeOK'
  BY <1>0, BoundsAssumption DEF TypeOK, HandlerPcs, Replies
<1>a. \A d \in Clients :
        /\ handler'[d] = "none"
        /\ reply'[d] = (IF handler[d] # "none" THEN "noReply" ELSE reply[d])
  BY <1>0 DEF TypeOK
<1>2. ASSUME NEW d \in Clients PROVE ClientOK(d)'
  BY <1>a DEF Inv, ClientOK, CallOK, SentOK, SeenOK
<1>3. InboxOK'
  <2> SUFFICES ASSUME NEW i \in 1 .. Len(inbox) PROVE Pending(inbox[i])'
    BY DEF InboxOK
  <2>1. inbox[i] \in Setters /\ Pending(inbox[i])
    BY <1>0, InboxType DEF Inv, InboxOK
  <2> QED
    BY <1>a, <2>1 DEF Pending, Setters
<1>4. InboxUnique'
  BY DEF Inv, InboxUnique
<1> QED
  BY <1>1, <1>2, <1>3, <1>4 DEF Inv

-----------------------------------------------------------------------------
(* Steps of asusd and of the world.                                        *)

(* A new configured value is seen by every open request; nothing else of   *)
(* the histories that Inv speaks of changes.                               *)
LEMMA SeenGrows ==
  ASSUME TypeOK, NEW h \in [Clients -> Histories], NEW conf \in Limits
  PROVE  /\ Seen(h, conf) \in [Clients -> Histories]
         /\ \A d \in Clients :
              /\ Seen(h, conf)[d].sent = h[d].sent
              /\ Seen(h, conf)[d].granted = h[d].granted
              /\ Seen(h, conf)[d].objected = h[d].objected
              /\ Seen(h, conf)[d].seen = IF client[d].pc # "idle" THEN h[d].seen \cup {conf}
                                         ELSE h[d].seen
<1>1. ASSUME NEW k \in Histories
      PROVE  /\ [k EXCEPT !.seen = @ \cup {conf}] \in Histories
             /\ [k EXCEPT !.seen = @ \cup {conf}].sent = k.sent
             /\ [k EXCEPT !.seen = @ \cup {conf}].granted = k.granted
             /\ [k EXCEPT !.seen = @ \cup {conf}].objected = k.objected
             /\ [k EXCEPT !.seen = @ \cup {conf}].seen = k.seen \cup {conf}
  BY DEF Histories
<1> QED
  BY <1>1 DEF Seen

(* The histories when asusd executes its oldest setter, of c.              *)
LEMMA ExecutesHistories ==
  ASSUME Inv, AsusdExecutes, NEW c \in Clients, c = Head(inbox).from
  PROVE  /\ hist' \in [Clients -> Histories]
         /\ \A d \in Clients :
              /\ hist'[d].sent = hist[d].sent
              /\ hist'[d].granted = hist[d].granted
              /\ hist[d].objected => hist'[d].objected
              /\ hist'[d].objected = hist[d].objected \/ handler[d] = "setting"
              /\ hist'[d].seen = IF client[d].pc # "idle" THEN hist[d].seen \cup {configured'}
                                 ELSE hist[d].seen
         /\ client[c].n = Head(inbox).n /\ handler[c] = "setting" /\ reply'[c] \in Refusals
              => hist'[c].objected
<1> DEFINE m == Head(inbox)
           a == client[c].n = m.n /\ configured' = m.want /\ configured' # configured
           b == (client[c].n = m.n /\ handler[c] = "setting") /\ reply'[c] \in Definite
           l == [hist[c] EXCEPT !.landed = @ \/ a, !.objected = @ \/ b]
           h == [hist EXCEPT ![c] = l]
<1>1. /\ TypeOK /\ hist \in [Clients -> Histories] /\ hist[c] \in Histories
      /\ configured \in Limits /\ m \in Setters
  BY DEF Inv, TypeOK, AsusdExecutes
<1>2. hist' = Seen([hist EXCEPT ![c].landed = @ \/ a, ![c].objected = @ \/ b], configured')
  BY Zenon DEF AsusdExecutes, Becomes
<1>3. hist' = Seen(h, configured')
  BY <1>2, Zenon
<1>4. configured' \in Limits
  BY <1>1 DEF AsusdExecutes, Becomes, Setters
<1>5. a \in BOOLEAN /\ b \in BOOLEAN
  OBVIOUS
<1>6. b => handler[c] = "setting"
  OBVIOUS
<1>7. b <=> client[c].n = m.n /\ handler[c] = "setting" /\ reply'[c] \in Definite
  OBVIOUS
<1> HIDE DEF a, b, m
<1>8. /\ l \in Histories /\ l.sent = hist[c].sent /\ l.granted = hist[c].granted
      /\ l.seen = hist[c].seen /\ (hist[c].objected \/ b => l.objected)
      /\ ~b => l.objected = hist[c].objected
  <2>1. hist[c].landed \in BOOLEAN /\ hist[c].objected \in BOOLEAN
    BY <1>1 DEF Histories
  <2>2. PICK p \in BOOLEAN, q \in BOOLEAN :
          p = (hist[c].landed \/ a) /\ q = (hist[c].objected \/ b)
    BY <1>5, <2>1
  <2>3. l = [hist[c] EXCEPT !.landed = p, !.objected = q]
    BY <2>2, Zenon
  <2> HIDE DEF l
  <2>4. /\ l \in Histories /\ l.sent = hist[c].sent /\ l.granted = hist[c].granted
        /\ l.seen = hist[c].seen /\ l.objected = q
    BY <1>1, <2>2, <2>3 DEF Histories
  <2>5. ~b => q = hist[c].objected
    BY <1>5, <2>1, <2>2
  <2> QED
    BY <2>2, <2>4, <2>5, Zenon
<1> HIDE DEF l
<1>9. h \in [Clients -> Histories] /\ \A d \in Clients : h[d] = IF d = c THEN l ELSE hist[d]
  BY <1>1, <1>8
<1> HIDE DEF h
<1>10. /\ Seen(h, configured') \in [Clients -> Histories]
       /\ \A d \in Clients :
            LET k == Seen(h, configured')[d]
            IN  /\ k.sent = h[d].sent /\ k.granted = h[d].granted /\ k.objected = h[d].objected
                /\ k.seen = IF client[d].pc # "idle" THEN h[d].seen \cup {configured'}
                            ELSE h[d].seen
  BY <1>1, <1>4, <1>9, SeenGrows
<1>11. \A d \in Clients :
         /\ h[d].sent = hist[d].sent /\ h[d].granted = hist[d].granted /\ h[d].seen = hist[d].seen
         /\ hist[d].objected => h[d].objected
         /\ h[d].objected = hist[d].objected \/ handler[d] = "setting"
  BY <1>6, <1>8, <1>9
<1>12. b => h[c].objected
  BY <1>8, <1>9
<1> QED
  BY <1>3, <1>7, <1>10, <1>11, <1>12 DEF m, Definite

LEMMA AsusdExecutesInv ==
  ASSUME Inv, AsusdExecutes
  PROVE  Inv'
<1> DEFINE m == Head(inbox)
           c == m.from
           current == client[c].n = m.n
           awaited == current /\ handler[c] = "setting"
<1>0. TypeOK /\ inbox # <<>> /\ UNCHANGED <<frontend, asusdUp, externals, crashes>>
  BY DEF Inv, AsusdExecutes
<1>1. /\ inbox' = Tail(inbox) /\ Len(inbox) \in Nat /\ Len(inbox) >= 1
      /\ m = inbox[1] /\ m \in Setters /\ c \in Clients /\ m.want \in Limits
      /\ inbox' \in Seq(Setters)
      /\ Len(inbox') = Len(inbox) - 1
      /\ \A i \in 1 .. Len(inbox') : i + 1 \in 1 .. Len(inbox) /\ inbox'[i] = inbox[i + 1]
  <2>1. inbox' = Tail(inbox) /\ inbox \in Seq(Setters)
    BY <1>0 DEF AsusdExecutes, TypeOK
  <2>2. m \in Setters
    BY <1>0, <2>1
  <2> QED
    BY <1>0, <2>1, <2>2 DEF Setters
<1>2. /\ configured' \in {configured, m.want} /\ effective' \in {effective, m.want}
  BY DEF AsusdExecutes, Becomes
<1>3. \/ UNCHANGED <<handler, reply>>
      \/ /\ awaited
         /\ \/ handler' = [handler EXCEPT ![c] = "configured"] /\ UNCHANGED reply
            \/ /\ handler' = [handler EXCEPT ![c] = "none"]
               /\ \E r \in WrappedErrors : reply' = [reply EXCEPT ![c] = r]
  BY DEF AsusdExecutes, Answer
<1>4. configured' \in Limits /\ effective' \in Limits
  BY <1>0, <1>1, <1>2 DEF TypeOK
<1>6. /\ hist' \in [Clients -> Histories]
      /\ \A d \in Clients :
           /\ hist'[d].sent = hist[d].sent
           /\ hist'[d].granted = hist[d].granted
           /\ hist[d].objected => hist'[d].objected
           /\ hist[d].seen \subseteq hist'[d].seen
           /\ client[d].pc # "idle" => configured' \in hist'[d].seen
      /\ awaited /\ reply'[c] \in Refusals => hist'[c].objected
  BY <1>1, ExecutesHistories
<1> HIDE DEF m
<1>7. TypeOK'
  <2>1. handler' \in [Clients -> HandlerPcs] /\ reply' \in [Clients -> Replies]
    BY <1>0, <1>3 DEF TypeOK, HandlerPcs, Replies
  <2> QED
    BY <1>0, <1>1, <1>2, <1>4, <1>6, <2>1 DEF TypeOK, frontend
<1>8. ASSUME NEW d \in Clients PROVE ClientOK(d)'
  <2>1. \/ handler'[d] = handler[d] /\ reply'[d] = reply[d]
        \/ handler[d] = "setting" /\ handler'[d] = "configured" /\ reply'[d] = reply[d]
        \/ /\ handler[d] = "setting" /\ handler'[d] = "none" /\ reply'[d] \in WrappedErrors
           /\ reply'[d] \in Refusals => hist'[d].objected
    BY <1>0, <1>1, <1>3, <1>6 DEF TypeOK
  <2>2. ClientOK(d) /\ client'[d] = client[d] /\ verdict'[d] = verdict[d] 
    BY <1>0 DEF Inv, frontend
  <2>3. CallOK(d)'
    BY <2>1, <2>2 DEF ClientOK, CallOK
  <2>4. SentOK(d)'
    BY <1>6, <2>1, <2>2 DEF ClientOK, SentOK
  <2>5. SeenOK(d)'
    BY <1>6, <2>1, <2>2 DEF ClientOK, SeenOK
  <2> QED
    BY <2>3, <2>4, <2>5 DEF ClientOK
<1>9. InboxOK'
  <2> SUFFICES ASSUME NEW i \in 1 .. Len(inbox') PROVE Pending(inbox[i])'
    BY DEF InboxOK
  <2>1. i + 1 \in 1 .. Len(inbox) /\ inbox'[i] = inbox[i + 1]
    BY <1>1
  <2>2. inbox[i + 1] \in Setters /\ Pending(inbox[i + 1])
    BY <1>0, <2>1, InboxType DEF Inv, InboxOK
  <2>3. inbox[i + 1].from = c => inbox[i + 1].n # m.n
    BY <1>1, <2>1 DEF Inv, InboxUnique
  <2>4. LET d == inbox[i + 1].from
        IN  (current /\ d = c) \/ (handler'[d] = handler[d] /\ reply'[d] = reply[d])
    BY <1>0, <1>3, <2>2 DEF TypeOK, Setters
  <2>5. UNCHANGED <<client, verdict>> /\ inbox[i + 1].from \in Clients
    BY <1>0, <2>2 DEF frontend, Setters
  <2> QED
    BY <1>6, <2>1, <2>2, <2>3, <2>4, <2>5 DEF Pending
<1>10. InboxUnique'
  <2> SUFFICES ASSUME NEW i \in 1 .. Len(inbox'), NEW j \in 1 .. Len(inbox'),
                      inbox'[i].from = inbox'[j].from, inbox'[i].n = inbox'[j].n
               PROVE  i = j
    BY DEF InboxUnique
  <2>1. i + 1 = j + 1
    BY <1>1 DEF Inv, InboxUnique
  <2> QED
    BY <1>1, <2>1
<1> QED
  BY <1>7, <1>8, <1>9, <1>10 DEF Inv

LEMMA AsusdDiesInv ==
  ASSUME Inv, AsusdDies
  PROVE  Inv'
<1> USE DEF AsusdDies, frontend, hardware
<1>0. TypeOK
  BY DEF Inv
<1>1. TypeOK'
  <2>1. handler' \in [Clients -> HandlerPcs] /\ reply' \in [Clients -> Replies]
    BY <1>0 DEF TypeOK, HandlerPcs, Replies
  <2>2. crashes' \in 0 .. MaxCrashes
    BY <1>0, BoundsAssumption DEF TypeOK
  <2>3. inbox' \in Seq(Setters)
    OBVIOUS
  <2> QED
    BY <1>0, <2>1, <2>2, <2>3 DEF TypeOK
<1>a. \A d \in Clients :
        /\ handler'[d] = (IF handler[d] = "setting" THEN "none" ELSE handler[d])
        /\ reply'[d] = (IF handler[d] = "setting" THEN "noReply" ELSE reply[d])
  BY <1>0 DEF TypeOK
<1>2. ASSUME NEW d \in Clients PROVE ClientOK(d)'
  BY <1>a DEF Inv, ClientOK, CallOK, SentOK, SeenOK
<1>3. InboxOK' /\ InboxUnique'
  BY DEF InboxOK, InboxUnique
<1> QED
  BY <1>1, <1>2, <1>3 DEF Inv

LEMMA AsusdRestartsInv ==
  ASSUME Inv, AsusdRestarts
  PROVE  Inv'
<1> USE DEF AsusdRestarts, frontend, hardware
<1>1. TypeOK'
  BY DEF Inv, TypeOK
<1>2. ASSUME NEW d \in Clients PROVE ClientOK(d)'
  BY DEF Inv, ClientOK, CallOK, SentOK, SeenOK
<1>3. InboxOK' /\ InboxUnique'
  BY DEF Inv, InboxOK, InboxUnique, Pending
<1> QED
  BY <1>1, <1>2, <1>3 DEF Inv

LEMMA ExternalChangeInv ==
  ASSUME Inv, ExternalChange
  PROVE  Inv'
<1> USE DEF frontend, daemon
<1>0. /\ TypeOK /\ hist \in [Clients -> Histories]
      /\ UNCHANGED <<frontend, daemon, crashes>>
      /\ externals < MaxExternal /\ externals' = externals + 1
      /\ configured' \in Limits /\ effective' \in Limits
      /\ hist' = Seen(hist, configured')
  BY DEF Inv, TypeOK, ExternalChange, Becomes
<1>1. /\ hist' \in [Clients -> Histories]
      /\ \A d \in Clients :
           /\ hist'[d].sent = hist[d].sent
           /\ hist'[d].granted = hist[d].granted
           /\ hist'[d].objected = hist[d].objected
           /\ hist[d].seen \subseteq hist'[d].seen
           /\ client[d].pc # "idle" => configured' \in hist'[d].seen
  BY <1>0, SeenGrows
<1>2. TypeOK'
  BY <1>0, <1>1, BoundsAssumption DEF TypeOK
<1>3. ASSUME NEW d \in Clients PROVE ClientOK(d)'
  BY <1>0, <1>1 DEF Inv, ClientOK, CallOK, SentOK, SeenOK
<1>4. InboxOK'
  <2> SUFFICES ASSUME NEW i \in 1 .. Len(inbox) PROVE Pending(inbox[i])'
    BY <1>0 DEF InboxOK
  <2>1. inbox[i] \in Setters /\ Pending(inbox[i])
    BY <1>0, InboxType DEF Inv, InboxOK
  <2> QED
    BY <1>0, <1>1, <2>1 DEF Pending, Setters
<1>5. InboxUnique'
  BY <1>0 DEF Inv, InboxUnique
<1> QED
  BY <1>2, <1>3, <1>4, <1>5 DEF Inv

-----------------------------------------------------------------------------
(* Every step, and every behaviour, keeps Inv.                             *)
LEMMA NextInv == Inv /\ [Next]_vars => Inv'
<1> SUFFICES ASSUME Inv, [Next]_vars PROVE Inv'
  OBVIOUS
<1>1. ASSUME NEW c \in Clients, NEW p \in Wanted, Submit(c, p) PROVE Inv'
  BY <1>1, SubmitInv
<1>2. ASSUME NEW c \in Clients, ClientStep(c) PROVE Inv'
  BY <1>2, ReceiveInv, SessionReadConfiguredInv, SessionReadEffectiveInv DEF ClientStep
<1>3. ASSUME NEW c \in Clients, PolkitAnswers(c) PROVE Inv'
  BY <1>3, DeclineInv, AuthorizeInv DEF PolkitAnswers
<1>4. ASSUME NEW c \in Clients, HandlerStep(c) PROVE Inv'
  BY <1>4, ReadBackConfiguredInv, ReadBackEffectiveInv DEF HandlerStep
<1>5. CASE UNCHANGED vars
  <2> USE <1>5 DEF vars
  <2>1. TypeOK'
    BY DEF Inv, TypeOK
  <2>2. ASSUME NEW d \in Clients PROVE ClientOK(d)'
    BY DEF Inv, ClientOK, CallOK, SentOK, SeenOK
  <2>3. InboxOK' /\ InboxUnique'
    BY DEF Inv, InboxOK, InboxUnique, Pending
  <2> QED
    BY <2>1, <2>2, <2>3 DEF Inv
<1> QED
  BY <1>1, <1>2, <1>3, <1>4, <1>5, HardwaredDiesInv, AsusdExecutesInv, AsusdDiesInv,
     AsusdRestartsInv, ExternalChangeInv DEF Next

LEMMA AlwaysInv == Spec => []Inv
BY InitInv, NextInv, PTL DEF Spec

-----------------------------------------------------------------------------
(* The variables keep their types: only valid percentages are ever in      *)
(* asusd's inbox or in force, whatever the front-ends ask for.             *)
THEOREM TypeCorrect == Spec => []TypeOK
<1>1. Inv => TypeOK
  BY DEF Inv
<1> QED
  BY AlwaysInv, <1>1, PTL

(* set_charge_limit tells "applied" only if the wanted percentage was the  *)
(* configured threshold at an instant of the request.                      *)
THEOREM AppliedCorrect == Spec => []AppliedWasInForce
<1>1. Inv => AppliedWasInForce
  BY DEF Inv, ClientOK, SeenOK, AppliedWasInForce
<1> QED
  BY AlwaysInv, <1>1, PTL

(* A request reported as unsupported sent no setter, and neither did one   *)
(* reported as invalid or denied, unless asusd itself answered so.         *)
THEOREM RefusalsAreReal == Spec => []RefusalIsReal
<1>1. Inv => RefusalIsReal
  BY DEF Inv, ClientOK, SentOK, RefusalIsReal
<1> QED
  BY AlwaysInv, <1>1, PTL

(* A request is at most one setter, and polkit granted it.                 *)
THEOREM AtMostOnce == Spec => []OneGrantedSetter
<1>1. Inv => OneGrantedSetter
  BY DEF Inv, ClientOK, SentOK, OneGrantedSetter
<1> QED
  BY AlwaysInv, <1>1, PTL

(* Once a front-end was given a command error, nothing of that request can *)
(* still reach asusd.                                                      *)
THEOREM ErrorsAreFinal == Spec => []CommandErrorIsFinal
<1>1. Inv => CommandErrorIsFinal
  BY DEF Inv, InboxOK, Pending, CommandErrorIsFinal
<1> QED
  BY AlwaysInv, <1>1, PTL

-----------------------------------------------------------------------------
(* That somebody answers is a matter of the call and its setter alone.     *)

Carried(c) == client[c].pc = "calling" => handler[c] # "none" \/ reply[c] # "none"
Setter(c, m) == m.from = c /\ m.n = client[c].n
Awaited(c) == handler[c] = "setting" => asusdUp /\ \E i \in 1 .. Len(inbox) : Setter(c, inbox[i])

(* A step of c's call that sends no setter, or of c's handler.             *)
LEMMA CallWaits ==
  ASSUME Inv, NobodyWaitsInVain, NEW c \in Clients, UNCHANGED <<inbox, asusdUp>>,
         \A d \in Clients \ {c} : /\ client'[d] = client[d]
                                  /\ handler'[d] = handler[d] /\ reply'[d] = reply[d],
         Carried(c)', handler'[c] # "setting"
  PROVE  NobodyWaitsInVain'
BY DEF NobodyWaitsInVain, Carried

LEMMA SubmitWaits ==
  ASSUME Inv, NobodyWaitsInVain, NEW c \in Clients, NEW p \in Wanted, Submit(c, p)
  PROVE  NobodyWaitsInVain'
<1>1. TypeOK /\ client[c].pc = "idle" /\ handler[c] = "none" /\ UNCHANGED <<inbox, asusdUp>>
  BY DEF Inv, ClientOK, CallOK, Submit
<1>2. \A d \in Clients \ {c} : /\ client'[d] = client[d]
                               /\ handler'[d] = handler[d] /\ reply'[d] = reply[d]
  BY <1>1 DEF Submit, TypeOK
<1>3. Carried(c)' /\ handler'[c] # "setting"
  BY <1>1 DEF Submit, TypeOK, Carried
<1> QED BY <1>1, <1>2, <1>3, CallWaits

LEMMA ClientWaits ==
  ASSUME Inv, NobodyWaitsInVain, NEW c \in Clients, ClientStep(c)
  PROVE  NobodyWaitsInVain'
<1>1. TypeOK /\ handler[c] = "none" /\ UNCHANGED <<handler, inbox, asusdUp>>
  BY DEF Inv, ClientOK, CallOK, ClientStep, Receive, SessionReadConfigured, SessionReadEffective,
         daemon
<1>2. \A d \in Clients \ {c} : client'[d] = client[d] /\ reply'[d] = reply[d]
  BY <1>1 DEF ClientStep, Receive, SessionReadConfigured, SessionReadEffective, ReadFails,
              ReadYields, daemon, TypeOK
<1>3. client'[c].pc # "calling"
  BY <1>1 DEF ClientStep, Receive, SessionReadConfigured, SessionReadEffective, ReadFails,
              ReadYields, TypeOK, Requests
<1> QED BY <1>1, <1>2, <1>3, CallWaits DEF Carried

LEMMA AnswerWaits ==
  ASSUME Inv, NobodyWaitsInVain, NEW c \in Clients, NEW r, r # "none", Answer(c, r),
         UNCHANGED <<client, inbox, asusdUp>>
  PROVE  NobodyWaitsInVain'
<1>1. /\ handler'[c] = "none" /\ reply'[c] = r
      /\ \A d \in Clients \ {c} : handler'[d] = handler[d] /\ reply'[d] = reply[d]
  BY DEF Inv, TypeOK, Answer
<1> QED BY <1>1, CallWaits DEF Carried

LEMMA HandlerWaits ==
  ASSUME Inv, NobodyWaitsInVain, NEW c \in Clients, PolkitAnswers(c) \/ HandlerStep(c)
  PROVE  NobodyWaitsInVain'
<1>1. TypeOK /\ UNCHANGED <<client, asusdUp>>
  BY DEF Inv, PolkitAnswers, HandlerStep, Decline, Authorize, ReadBackConfigured,
         ReadBackEffective, frontend
<1>2. CASE UNCHANGED inbox /\ \E r : r # "none" /\ Answer(c, r)
  BY <1>1, <1>2, AnswerWaits
<1>3. CASE UNCHANGED <<inbox, reply>> /\ handler' = [handler EXCEPT ![c] = "effective"]
  BY <1>1, <1>3, CallWaits DEF TypeOK, Carried
<1>4. CASE /\ asusdUp /\ UNCHANGED reply /\ handler' = [handler EXCEPT ![c] = "setting"]
           /\ inbox' = Append(inbox, [from |-> c, n |-> client[c].n, want |-> client[c].want])
  <2> DEFINE m == [from |-> c, n |-> client[c].n, want |-> client[c].want]
  <2>1. Setter(c, m)
    BY DEF Setter
  <2> HIDE DEF m
  <2>2. /\ Len(inbox) \in Nat /\ Len(inbox') = Len(inbox) + 1 /\ inbox'[Len(inbox) + 1] = m
        /\ \A i \in 1 .. Len(inbox) : inbox'[i] = inbox[i]
    BY <1>1, <1>4 DEF TypeOK, m
  <2>3. ASSUME NEW d \in Clients PROVE (Carried(d) /\ Awaited(d))'
    <3>1. CASE d = c
      BY <1>1, <1>4, <2>1, <2>2, <3>1 DEF Carried, Awaited, Setter, TypeOK
    <3>2. CASE d # c
      <4>1. handler'[d] = handler[d] /\ reply'[d] = reply[d] /\ client'[d] = client[d]
        BY <1>1, <1>4, <3>2 DEF TypeOK
      <4> QED BY <1>1, <2>2, <4>1 DEF NobodyWaitsInVain, Carried, Awaited, Setter
    <3> QED BY <3>1, <3>2
  <2> QED BY <2>3 DEF NobodyWaitsInVain, Carried, Awaited, Setter
<1>5. CASE Decline(c) \/ ReadBackEffective(c)
  BY <1>2, <1>5 DEF Decline, ReadBackEffective
<1>6. CASE ReadBackConfigured(c)
  BY <1>2, <1>3, <1>6 DEF ReadBackConfigured
<1>7. CASE Authorize(c)
  BY <1>2, <1>4, <1>7 DEF Authorize
<1> QED BY <1>5, <1>6, <1>7 DEF PolkitAnswers, HandlerStep

(* A daemon dies: every call it had in hand is answered by the bus.        *)
LEMMA DeathWaits ==
  ASSUME Inv, NobodyWaitsInVain, HardwaredDies \/ AsusdDies
  PROVE  NobodyWaitsInVain'
BY DEF Inv, TypeOK, NobodyWaitsInVain, HardwaredDies, AsusdDies, frontend

(* asusd executes a setter: it is that of the handler that goes on, or of  *)
(* nobody who waits.                                                       *)
LEMMA ExecutesWaits ==
  ASSUME Inv, NobodyWaitsInVain, AsusdExecutes
  PROVE  NobodyWaitsInVain'
<1> DEFINE m == Head(inbox)
           c == m.from
<1>1. /\ TypeOK /\ asusdUp /\ UNCHANGED <<client, asusdUp>>
      /\ inbox # <<>> /\ inbox' = Tail(inbox)
      /\ \/ UNCHANGED <<handler, reply>> /\ ~(client[c].n = m.n /\ handler[c] = "setting")
         \/ handler' = [handler EXCEPT ![c] = "configured"] /\ UNCHANGED reply
         \/ /\ handler' = [handler EXCEPT ![c] = "none"]
            /\ \E r \in WrappedErrors : reply' = [reply EXCEPT ![c] = r]
  BY DEF Inv, AsusdExecutes, Answer, frontend
<1>2. /\ Len(inbox) \in Nat /\ Len(inbox') = Len(inbox) - 1 /\ m = inbox[1]
      /\ m \in Setters /\ c \in Clients
      /\ \A i \in 2 .. Len(inbox) : i - 1 \in 1 .. Len(inbox') /\ inbox'[i - 1] = inbox[i]
  <2>1. inbox \in Seq(Setters) /\ m \in Setters
    BY <1>1 DEF TypeOK
  <2> QED BY <1>1, <2>1 DEF Setters
<1> HIDE DEF m
<1>3. ASSUME NEW d \in Clients PROVE (Carried(d) /\ Awaited(d))'
  <2>1. Carried(d) /\ Awaited(d)
    BY DEF NobodyWaitsInVain, Carried, Awaited, Setter
  <2>2. CASE d = c /\ handler'[c] # "setting"
    BY <1>1, <1>2, <2>1, <2>2 DEF TypeOK, Carried, Awaited
  <2>3. CASE ~(d = c /\ handler'[c] # "setting")
    <3>1. handler'[d] = handler[d] /\ reply'[d] = reply[d] /\ client'[d] = client[d]
      BY <1>1, <1>2, <2>3 DEF TypeOK
    <3>2. handler[d] = "setting" => ~Setter(d, m)
      BY <1>1, <1>2, <2>3 DEF Setter, TypeOK
    <3>3. ASSUME handler[d] = "setting"
          PROVE  \E i \in 1 .. Len(inbox') : inbox'[i].from = d /\ inbox'[i].n = client[d].n
      <4>1. PICK i \in 1 .. Len(inbox) : Setter(d, inbox[i])
        BY <2>1, <3>3 DEF Awaited
      <4>2. i \in 2 .. Len(inbox)
        BY <1>2, <3>2, <3>3, <4>1
      <4>3. i - 1 \in 1 .. Len(inbox') /\ inbox'[i - 1] = inbox[i]
        BY <1>2, <4>2
      <4> QED BY <4>1, <4>3 DEF Setter
    <3>4. Awaited(d)'
      BY <1>1, <3>1, <3>3 DEF Awaited, Setter
    <3> QED BY <2>1, <3>1, <3>4 DEF Carried
  <2> QED BY <2>2, <2>3
<1> QED BY <1>3 DEF NobodyWaitsInVain, Carried, Awaited, Setter

(* Whoever dies, and however the calls interleave, a front-end that waits  *)
(* is waited upon: its call is with a handler or its answer is on the way, *)
(* and a handler that awaits asusd has its setter with an asusd that lives. *)
THEOREM AnswersCome == Spec => []NobodyWaitsInVain
<1>1. Init => NobodyWaitsInVain
  BY DEF Init, NobodyWaitsInVain
<1>2. Inv /\ NobodyWaitsInVain /\ [Next]_vars => NobodyWaitsInVain'
  <2> SUFFICES ASSUME Inv, NobodyWaitsInVain, [Next]_vars PROVE NobodyWaitsInVain'
    OBVIOUS
  <2>1. CASE AsusdRestarts \/ ExternalChange \/ UNCHANGED vars
    BY <2>1 DEF AsusdRestarts, ExternalChange, vars, frontend, daemon, NobodyWaitsInVain
  <2> QED BY <2>1, SubmitWaits, ClientWaits, HandlerWaits, DeathWaits, ExecutesWaits DEF Next
<1> QED BY <1>1, <1>2, AlwaysInv, PTL DEF Spec
=============================================================================
