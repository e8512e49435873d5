----------------------- MODULE ChargeWriteRefinement -----------------------
(***************************************************************************)
(* The charge-limit path implements the one-shot write, for any number of  *)
(* front-ends, any percentages and any bounds. Under the invariant of      *)
(* ChargeWriteProofs every action is one abstract action or a stutter:     *)
(*                                                                         *)
(*   Submit                     Open, or Refuse an invalid percentage      *)
(*   Authorize                  Dispatch                                   *)
(*   AsusdExecutes              Land                                       *)
(*   AsusdDies                  Lose                                       *)
(*   ExternalChange             Other                                      *)
(*   Receive, SessionRead...    Settle when they end the request           *)
(*   the rest                   stutter: the handlers are not seen         *)
(***************************************************************************)
EXTENDS ChargeWriteProofs

(* What the abstract write sees: of one front-end's request, of the inbox, *)
(* of the verdicts. The two Boolean fields have names of their own, so     *)
(* that the provers may treat them as values.                              *)
IsOpen(c) == client[c].pc # "idle"
IsSent(c) == hist[c].sent > 0
ReqOf(c) == [open |-> IsOpen(c), n |-> client[c].n, want |-> client[c].want,
             sent |-> IsSent(c), seen |-> hist[c].seen]
Req == [c \in Clients |-> ReqOf(c)]
Fly == {inbox[i] : i \in 1 .. Len(inbox)}
ResOf(c) == SettledAs(verdict[c], hist[c])
Res == [c \in Clients |-> ResOf(c)]

AbstractStep == OneShot!Next \/ UNCHANGED OneShot!vars

(* A step that changes nothing of that is a stutter.                       *)
LEMMA Stutter ==
  ASSUME configured' = configured, inbox' = inbox,
         \A d \in Clients : ReqOf(d)' = ReqOf(d) /\ ResOf(d)' = ResOf(d)
  PROVE  AbstractStep
<1>1. Req' = Req
  BY DEF Req
<1>2. Fly' = Fly /\ Res' = Res
  BY DEF Fly, Res
<1> QED
  BY <1>1, <1>2 DEF AbstractStep, OneShot!vars, Req, ReqOf, IsOpen, IsSent, Fly, Res, ResOf

(* While a request has no verdict, what asusd answered is not seen.        *)
LEMMA SameResult ==
  ASSUME Inv, verdict' = verdict, NEW d \in Clients,
         hist'[d].objected = hist[d].objected \/ handler[d] # "none"
  PROVE  ResOf(d)' = ResOf(d)
<1>1. CASE hist'[d].objected = hist[d].objected
  BY <1>1 DEF ResOf, SettledAs
<1>2. CASE handler[d] # "none"
  <2>1. verdict[d].kind = "none"
    BY <1>2 DEF Inv, ClientOK, CallOK
  <2> QED
    BY <2>1 DEF ResOf, SettledAs
<1> QED
  BY <1>1, <1>2

(* The handlers of hardwared are not seen.                                 *)
LEMMA HandlerStutter ==
  ASSUME Inv, UNCHANGED <<client, verdict, inbox, configured>>,
         \A d \in Clients :
           /\ hist'[d].sent = hist[d].sent /\ hist'[d].seen = hist[d].seen
           /\ hist'[d].objected = hist[d].objected \/ handler[d] # "none"
  PROVE  AbstractStep
<1>1. \A d \in Clients : ReqOf(d)' = ReqOf(d)
  BY DEF ReqOf, IsOpen, IsSent
<1>2. \A d \in Clients : ResOf(d)' = ResOf(d)
  BY SameResult
<1> QED
  BY <1>1, <1>2, Stutter

(* The request of c changes, and nobody else's.                            *)
LEMMA OneRequest ==
  ASSUME NEW c \in Clients, NEW r, ReqOf(c)' = r,
         \A d \in Clients \ {c} : ReqOf(d)' = ReqOf(d)
  PROVE  Req' = [Req EXCEPT ![c] = r]
BY DEF Req

LEMMA OneResult ==
  ASSUME NEW c \in Clients, NEW r, ResOf(c)' = r,
         \A d \in Clients \ {c} :
           verdict'[d] = verdict[d] /\ hist'[d].objected = hist[d].objected
  PROVE  Res' = [Res EXCEPT ![c] = r]
<1>1. \A d \in Clients \ {c} : ResOf(d)' = ResOf(d)
  BY DEF ResOf, SettledAs
<1> QED
  BY <1>1 DEF Res

-----------------------------------------------------------------------------
LEMMA InitRefines == Init => OneShot!Init
<1> SUFFICES ASSUME Init PROVE OneShot!Init
  OBVIOUS
<1>1. configured \in Limits
  BY DEF Init
<1>2. Req = [c \in Clients |-> [open |-> FALSE, n |-> 0, want |-> 0,
                                sent |-> FALSE, seen |-> {}]]
  <2> SUFFICES ASSUME NEW c \in Clients
               PROVE  ReqOf(c) = [open |-> FALSE, n |-> 0, want |-> 0,
                                  sent |-> FALSE, seen |-> {}]
    BY DEF Req
  <2>1. IsOpen(c) = FALSE /\ IsSent(c) = FALSE
    BY DEF Init, Fresh, IsOpen, IsSent
  <2>2. client[c].n = 0 /\ client[c].want = 0 /\ hist[c].seen = {}
    BY DEF Init, Fresh
  <2> QED
    BY <2>1, <2>2 DEF ReqOf
<1>3. Fly = {}
  BY DEF Init, Fly
<1>4. Res = [c \in Clients |-> "none"]
  BY DEF Init, Res, ResOf, SettledAs, NoVerdict
<1> QED
  BY <1>1, <1>2, <1>3, <1>4 DEF OneShot!Init, Req, ReqOf, IsOpen, IsSent, Fly, Res, ResOf

LEMMA SubmitRefines ==
  ASSUME Inv, NEW c \in Clients, NEW p \in Wanted, Submit(c, p)
  PROVE  AbstractStep
<1> USE DEF Submit
<1>0. TypeOK /\ configured' = configured /\ inbox' = inbox /\ client[c].pc = "idle"
  BY DEF Inv, hardware
<1>1. hist' = [hist EXCEPT ![c] = Fresh] /\ hist'[c] = Fresh
  BY <1>0 DEF TypeOK
<1>2. \A d \in Clients \ {c} :
        /\ ReqOf(d)' = ReqOf(d) /\ verdict'[d] = verdict[d]
        /\ hist'[d].objected = hist[d].objected
  BY <1>0, <1>1 DEF TypeOK, ReqOf, IsOpen, IsSent
<1>3. Fly' = Fly
  BY <1>0 DEF Fly
<1>4. CASE ValidLimit(p)
  <2>1. client'[c].pc = "calling" /\ client'[c].n = client[c].n + 1 /\ client'[c].want = p
    BY <1>0, <1>4 DEF TypeOK
  <2>2. ReqOf(c)' = [open |-> TRUE, n |-> client[c].n + 1, want |-> p,
                     sent |-> FALSE, seen |-> {configured}]
    <3>1. IsOpen(c)' = TRUE /\ IsSent(c)' = FALSE
      BY <1>1, <2>1 DEF Fresh, IsOpen, IsSent
    <3>2. hist'[c].seen = {configured}
      BY <1>1 DEF Fresh
    <3> QED
      BY <2>1, <3>1, <3>2 DEF ReqOf
  <2>3. ResOf(c)' = "none"
    BY <1>0, <1>4 DEF TypeOK, ResOf, SettledAs, NoVerdict
  <2>4. ~Req[c].open /\ Req[c].n = client[c].n
    BY <1>0 DEF Req, ReqOf, IsOpen
  <2>5. /\ Req' = [Req EXCEPT ![c] = [open |-> TRUE, n |-> @.n + 1, want |-> p,
                                      sent |-> FALSE, seen |-> {configured}]]
        /\ Res' = [Res EXCEPT ![c] = "none"]
    BY <1>2, <2>2, <2>3, <2>4, OneRequest, OneResult
  <2>6. OneShot!Open(c, p)
    BY <1>0, <1>3, <2>4, <2>5 DEF OneShot!Open, Req, ReqOf, IsOpen, IsSent, Fly, Res, ResOf
  <2> QED
    BY <2>6 DEF AbstractStep, OneShot!Next
<1>5. CASE ~ValidLimit(p)
  <2>1. client'[c].pc = "idle" /\ client'[c].n = client[c].n + 1 /\ client'[c].want = p
    BY <1>0, <1>5 DEF TypeOK
  <2>2. ReqOf(c)' = [open |-> FALSE, n |-> client[c].n + 1, want |-> p,
                     sent |-> FALSE, seen |-> {configured}]
    <3>1. IsOpen(c)' = FALSE /\ IsSent(c)' = FALSE
      BY <1>1, <2>1 DEF Fresh, IsOpen, IsSent
    <3>2. hist'[c].seen = {configured}
      BY <1>1 DEF Fresh
    <3> QED
      BY <2>1, <3>1, <3>2 DEF ReqOf
  <2>3. ResOf(c)' = "rejected"
    <3>1. verdict'[c] = [kind |-> "command", err |-> "InvalidRequest"]
      BY <1>0, <1>5 DEF TypeOK
    <3>2. ~hist'[c].objected
      BY <1>1 DEF Fresh
    <3> QED
      BY <3>1, <3>2 DEF ResOf, SettledAs
  <2>4. ~Req[c].open /\ Req[c].n = client[c].n
    BY <1>0 DEF Req, ReqOf, IsOpen
  <2>5. /\ Req' = [Req EXCEPT ![c] = [open |-> FALSE, n |-> @.n + 1, want |-> p,
                                      sent |-> FALSE, seen |-> {configured}]]
        /\ Res' = [Res EXCEPT ![c] = "rejected"]
    BY <1>2, <2>2, <2>3, <2>4, OneRequest, OneResult
  <2>6. OneShot!Refuse(c, p)
    BY <1>0, <1>3, <2>4, <2>5 DEF OneShot!Refuse, Req, ReqOf, IsOpen, IsSent, Fly, Res, ResOf
  <2> QED
    BY <2>6 DEF AbstractStep, OneShot!Next
<1> QED
  BY <1>4, <1>5

LEMMA SettleIsStep ==
  ASSUME NEW c \in Clients, NEW r \in OneShot!Results \ {"none"}, OneShot!Settle(c, r)
  PROVE  AbstractStep
BY DEF AbstractStep, OneShot!Next

(* A request of c ends with a verdict that the invariant bears out.        *)
LEMMA SettleRefines ==
  ASSUME Inv, NEW c \in Clients, client[c].pc # "idle",
         UNCHANGED <<inbox, configured, hist>>,
         client'[c].pc = "idle", client'[c].n = client[c].n, client'[c].want = client[c].want,
         \A d \in Clients \ {c} : client'[d] = client[d],
         NEW v \in Verdicts, v.kind # "none", verdict' = [verdict EXCEPT ![c] = v],
         v.kind \in {"applied", "readback"} => client[c].want \in hist[c].seen,
         v.kind = "command" =>
           /\ v.err # "BackendUnavailable" /\ ~hist[c].objected => hist[c].sent = 0
           /\ \A i \in 1 .. Len(inbox) : inbox[i].from = c => inbox[i].n # client[c].n
  PROVE  AbstractStep
<1>a. PICK r : r = SettledAs(v, hist[c])
  OBVIOUS
<1>0. TypeOK
  BY DEF Inv
<1>1. r \in {"applied", "rejected", "ended", "unknown"}
  BY <1>a DEF SettledAs, Verdicts
<1>2. r = "applied" => v.kind \in {"applied", "readback"}
  BY <1>a DEF SettledAs, Verdicts
<1>3. /\ r \in {"rejected", "ended"} => v.kind = "command"
      /\ r = "rejected" => v.err # "BackendUnavailable" /\ ~hist[c].objected
  BY <1>a DEF SettledAs, Verdicts
<1>4. ResOf(c)' = r
  BY <1>0, <1>a DEF TypeOK, ResOf
<1>5. Req[c] = ReqOf(c)
  BY DEF Req
<1>6. Req' = [Req EXCEPT ![c].open = FALSE]
  <2>1. ReqOf(c)' = [ReqOf(c) EXCEPT !.open = FALSE]
    <3>0. PICK no : no = FALSE
      OBVIOUS
    <3>1. IsOpen(c)' = no /\ IsSent(c)' = IsSent(c)
      BY <1>0, <3>0 DEF TypeOK, Requests, IsOpen, IsSent
    <3>2. /\ client'[c].n = client[c].n /\ client'[c].want = client[c].want
          /\ hist'[c] = hist[c]
      BY <1>0 DEF TypeOK, Requests
    <3>3. ReqOf(c)' = [ReqOf(c) EXCEPT !.open = no]
      BY <3>1, <3>2 DEF ReqOf
    <3> QED
      BY <3>0, <3>3, Zenon
  <2>2. \A d \in Clients \ {c} : ReqOf(d)' = ReqOf(d)
    BY <1>0 DEF TypeOK, ReqOf, IsOpen, IsSent
  <2> QED
    BY <1>5, <2>1, <2>2, OneRequest
<1>7. Res' = [Res EXCEPT ![c] = r]
  BY <1>0, <1>4, OneResult DEF TypeOK
<1>8. Fly' = Fly
  BY DEF Fly
<1>9. /\ Req[c].open
      /\ r = "applied" => Req[c].want \in Req[c].seen
      /\ r = "rejected" => ~Req[c].sent
      /\ r = "ended" => \A m \in Fly : m.from = c => m.n # Req[c].n
  <2>1. /\ Req[c].open = IsOpen(c) /\ Req[c].sent = IsSent(c) /\ Req[c].n = client[c].n
        /\ Req[c].want = client[c].want /\ Req[c].seen = hist[c].seen
    BY <1>5 DEF ReqOf
  <2>2. IsOpen(c) /\ (r = "rejected" => ~IsSent(c))
    BY <1>3 DEF IsOpen, IsSent
  <2>3. r = "ended" => \A m \in Fly : m.from = c => m.n # client[c].n
    BY <1>3 DEF Fly
  <2> QED
    BY <1>2, <2>1, <2>2, <2>3
<1>10. OneShot!Settle(c, r)
  BY <1>6, <1>7, <1>8, <1>9 DEF OneShot!Settle, Req, ReqOf, IsOpen, IsSent, Fly, Res, ResOf
<1>11. r \in OneShot!Results \ {"none"}
  BY <1>1 DEF OneShot!Results
<1> QED
  BY <1>10, <1>11, SettleIsStep

LEMMA ReceiveRefines ==
  ASSUME Inv, NEW c \in Clients, Receive(c)
  PROVE  AbstractStep
<1> USE DEF Receive
<1> DEFINE e == Classify(reply[c])
<1>0. /\ TypeOK /\ ClientOK(c) /\ client[c].pc = "calling" /\ reply[c] # "none"
      /\ UNCHANGED <<inbox, configured, hist>>
  BY DEF Inv, hardware
<1>1. CASE reply[c] = "ok" \/ MayHaveDispatched(e)
  <2>1. verdict' = verdict
    BY <1>1
  <2>2. /\ client'[c].pc = "readConfigured"
        /\ client'[c].n = client[c].n /\ client'[c].want = client[c].want
        /\ \A d \in Clients \ {c} : client'[d] = client[d]
    BY <1>0, <1>1 DEF TypeOK, Requests
  <2>3. \A d \in Clients : ReqOf(d)' = ReqOf(d)
    BY <1>0, <2>2 DEF ReqOf, IsOpen, IsSent
  <2> QED
    BY <1>0, <2>1, <2>3, Stutter, SameResult
<1>2. CASE reply[c] # "ok" /\ ~MayHaveDispatched(e)
  <2> DEFINE v == [kind |-> "command", err |-> e]
  <2>1. /\ client'[c].pc = "idle" /\ client'[c].n = client[c].n
        /\ client'[c].want = client[c].want
        /\ \A d \in Clients \ {c} : client'[d] = client[d]
        /\ verdict' = [verdict EXCEPT ![c] = v]
    BY <1>0, <1>2 DEF TypeOK, Requests
  <2>2. v \in Verdicts
    BY DEF Verdicts, ProviderErrors, Classify
  <2>3. reply[c] \in {"gone", "unsupported", "denied", "invalid"}
    BY <1>0, <1>2 DEF TypeOK, Replies, Classify, MayHaveDispatched
  <2>4. v.err # "BackendUnavailable" /\ ~hist[c].objected => hist[c].sent = 0
    BY <1>0, <2>3 DEF ClientOK, SentOK, Classify, Refusals
  <2>5. \A i \in 1 .. Len(inbox) : inbox[i].from = c => inbox[i].n # client[c].n
    BY <1>0, <2>3 DEF Inv, InboxOK, Pending, ClientOK, CallOK
  <2> QED
    BY <1>0, <2>1, <2>2, <2>4, <2>5, SettleRefines
<1> QED
  BY <1>1, <1>2

(* The read that ends a request without a state.                           *)
LEMMA ReadFailsRefines ==
  ASSUME Inv, NEW c \in Clients, client[c].pc \in {"readConfigured", "readEffective"},
         ReadFails(c), UNCHANGED <<inbox, configured, hist>>
  PROVE  AbstractStep
<1> DEFINE v == IF client[c].err = "none" THEN [kind |-> "readback", err |-> "none"]
                ELSE [kind |-> "unconfirmed", err |-> client[c].err]
<1>1. /\ client'[c].pc = "idle" /\ client'[c].n = client[c].n /\ client'[c].want = client[c].want
      /\ \A d \in Clients \ {c} : client'[d] = client[d]
      /\ verdict' = [verdict EXCEPT ![c] = v]
  BY DEF ReadFails, Inv, TypeOK, Requests
<1>2. v \in Verdicts
  BY DEF Inv, TypeOK, Requests, Verdicts
<1>3. v.kind = "readback" => client[c].want \in hist[c].seen
  BY DEF Inv, ClientOK, SeenOK
<1> QED
  BY <1>1, <1>2, <1>3, SettleRefines

LEMMA ReadYieldsRefines ==
  ASSUME Inv, NEW c \in Clients, client[c].pc = "readEffective",
         ReadYields(c, client[c].read), UNCHANGED <<inbox, configured, hist>>
  PROVE  AbstractStep
<1> DEFINE v == IF client[c].err = "none" \/ client[c].read = client[c].want
                THEN [kind |-> "applied", err |-> "none"]
                ELSE [kind |-> "unconfirmed", err |-> client[c].err]
<1>1. /\ client'[c].pc = "idle" /\ client'[c].n = client[c].n /\ client'[c].want = client[c].want
      /\ \A d \in Clients \ {c} : client'[d] = client[d]
      /\ verdict' = [verdict EXCEPT ![c] = v]
  BY DEF ReadYields, Inv, TypeOK, Requests
<1>2. v \in Verdicts
  BY DEF Inv, TypeOK, Requests, Verdicts
<1>3. v.kind = "applied" => client[c].want \in hist[c].seen
  BY DEF Inv, ClientOK, SeenOK
<1> QED
  BY <1>1, <1>2, <1>3, SettleRefines

LEMMA SessionReadConfiguredRefines ==
  ASSUME Inv, NEW c \in Clients, SessionReadConfigured(c)
  PROVE  AbstractStep
<1> USE DEF SessionReadConfigured
<1>0. TypeOK /\ client[c].pc = "readConfigured" /\ UNCHANGED <<inbox, configured, hist>>
  BY DEF Inv, daemon, hardware
<1>1. CASE ReadFails(c)
  BY <1>0, <1>1, ReadFailsRefines
<1>2. CASE /\ client' = [client EXCEPT ![c].pc = "readEffective", ![c].read = configured]
           /\ UNCHANGED verdict
  <2>1. /\ client'[c].pc = "readEffective"
        /\ client'[c].n = client[c].n /\ client'[c].want = client[c].want
        /\ \A d \in Clients \ {c} : client'[d] = client[d]
    BY <1>0, <1>2 DEF TypeOK, Requests
  <2>2. \A d \in Clients : ReqOf(d)' = ReqOf(d)
    BY <1>0, <2>1 DEF ReqOf, IsOpen, IsSent
  <2> QED
    BY <1>0, <1>2, <2>2, Stutter, SameResult
<1> QED
  BY <1>1, <1>2

LEMMA SessionReadEffectiveRefines ==
  ASSUME Inv, NEW c \in Clients, SessionReadEffective(c)
  PROVE  AbstractStep
<1>0. client[c].pc = "readEffective" /\ UNCHANGED <<inbox, configured, hist>>
  BY DEF SessionReadEffective, daemon, hardware
<1>1. ReadFails(c) \/ ReadYields(c, client[c].read)
  BY DEF SessionReadEffective
<1> QED
  BY <1>0, <1>1, ReadFailsRefines, ReadYieldsRefines

-----------------------------------------------------------------------------
LEMMA AuthorizeRefines ==
  ASSUME Inv, NEW c \in Clients, Authorize(c)
  PROVE  AbstractStep
<1>0. /\ TypeOK /\ ClientOK(c) /\ handler[c] = "authorizing"
      /\ UNCHANGED <<client, verdict, configured>>
  BY DEF Inv, Authorize, frontend, hardware
<1>1. CASE ~asusdUp
  <2>1. inbox' = inbox /\ hist' = [hist EXCEPT ![c].granted = TRUE]
    BY <1>1 DEF Authorize
  <2>2. \A d \in Clients : /\ hist'[d].sent = hist[d].sent /\ hist'[d].seen = hist[d].seen
                            /\ hist'[d].objected = hist[d].objected
    BY <1>0, <2>1 DEF TypeOK, Histories
  <2> QED
    BY <1>0, <2>1, <2>2, HandlerStutter
<1>2. CASE asusdUp
  <2> DEFINE m == [from |-> c, n |-> client[c].n, want |-> client[c].want]
  <2>0. /\ inbox' = Append(inbox, m)
        /\ hist' = [hist EXCEPT ![c].sent = @ + 1, ![c].granted = TRUE]
    BY <1>2 DEF Authorize
  <2>1. m \in Setters
    BY <1>0 DEF TypeOK, ClientOK, CallOK, Setters, Requests
  <2>2. Req[c] = ReqOf(c) /\ m = [from |-> c, n |-> Req[c].n, want |-> Req[c].want]
    BY DEF Req, ReqOf
  <2> HIDE DEF m
  <2>3. hist[c].sent = 0 /\ client[c].pc = "calling"
    BY <1>0 DEF ClientOK, SentOK, CallOK
  <2>4. Fly' = Fly \cup {m}
    <3>1. /\ Len(inbox') = Len(inbox) + 1
          /\ inbox'[Len(inbox) + 1] = m
          /\ \A i \in 1 .. Len(inbox) : inbox'[i] = inbox[i]
          /\ Len(inbox) \in Nat
      BY <1>0, <2>0, <2>1 DEF TypeOK
    <3> QED
      BY <3>1 DEF Fly
  <2>5. hist'[c].sent = 1 /\ hist'[c].seen = hist[c].seen
    BY <1>0, <2>0, <2>3 DEF TypeOK, Histories
  <2>6. ReqOf(c)' = [ReqOf(c) EXCEPT !.sent = TRUE]
    <3>0. PICK yes : yes = TRUE
      OBVIOUS
    <3>1. IsSent(c)' = yes /\ IsOpen(c)' = IsOpen(c)
      <4>1. IsSent(c)' /\ (IsSent(c)' \in BOOLEAN)
        BY <2>5 DEF IsSent
      <4>2. IsOpen(c)' = IsOpen(c)
        BY <1>0 DEF IsOpen
      <4> QED
        BY <3>0, <4>1, <4>2
    <3>2. ReqOf(c)' = [ReqOf(c) EXCEPT !.sent = yes]
      BY <1>0, <2>5, <3>1 DEF ReqOf
    <3> QED
      BY <3>0, <3>2, Zenon
  <2>7. \A d \in Clients \ {c} : ReqOf(d)' = ReqOf(d)
    BY <1>0, <2>0 DEF TypeOK, ReqOf, IsOpen, IsSent
  <2>8. Req' = [Req EXCEPT ![c].sent = TRUE]
    BY <2>2, <2>6, <2>7, OneRequest
  <2>9. Req[c].open /\ ~Req[c].sent
    <3>1. Req[c].open = IsOpen(c) /\ Req[c].sent = IsSent(c)
      BY <2>2 DEF ReqOf
    <3>2. IsOpen(c) /\ ~IsSent(c)
      BY <2>3 DEF IsOpen, IsSent
    <3> QED
      BY <3>1, <3>2
  <2>10. Res' = Res
    <3>1. \A d \in Clients : hist'[d].objected = hist[d].objected \/ handler[d] # "none"
      BY <1>0, <2>0 DEF TypeOK
    <3> QED
      BY <1>0, <3>1, SameResult DEF Res
  <2>11. OneShot!Dispatch(c)
    BY <1>0, <2>2, <2>4, <2>8, <2>9, <2>10 DEF OneShot!Dispatch, Req, ReqOf, IsOpen, IsSent, Fly, Res, ResOf
  <2> QED
    BY <2>11 DEF AbstractStep, OneShot!Next
<1> QED
  BY <1>1, <1>2

-----------------------------------------------------------------------------
(* A new threshold is seen by the open requests and nobody else.           *)
LEMMA TakeRefines ==
  ASSUME client' = client,
         \A d \in Clients :
           /\ hist'[d].sent = hist[d].sent
           /\ hist'[d].seen = IF IsOpen(d) THEN hist[d].seen \cup {configured'}
                              ELSE hist[d].seen
  PROVE  OneShot!Take(configured')
<1>1. ASSUME NEW d \in Clients
      PROVE  ReqOf(d)' = IF Req[d].open THEN [Req[d] EXCEPT !.seen = @ \cup {configured'}]
                         ELSE Req[d]
  <2>1. Req[d] = ReqOf(d) /\ Req[d].open = IsOpen(d)
    BY <1>1 DEF Req, ReqOf
  <2>2. IsOpen(d)' = IsOpen(d) /\ IsSent(d)' = IsSent(d)
    BY <1>1 DEF IsOpen, IsSent
  <2> QED
    BY <1>1, <2>1, <2>2 DEF ReqOf
<1>2. Req' = [d \in Clients |->
                IF Req[d].open THEN [Req[d] EXCEPT !.seen = @ \cup {configured'}] ELSE Req[d]]
  BY <1>1 DEF Req
<1> QED
  BY <1>2 DEF OneShot!Take, Req, ReqOf, IsOpen, IsSent

LEMMA AsusdExecutesRefines ==
  ASSUME Inv, AsusdExecutes
  PROVE  AbstractStep
<1> DEFINE m == Head(inbox)
<1>0. /\ TypeOK /\ inbox # <<>> /\ inbox' = Tail(inbox)
      /\ UNCHANGED <<client, verdict>>
      /\ configured' \in {configured, m.want}
  BY DEF Inv, AsusdExecutes, Becomes, frontend
<1>1. /\ Len(inbox) \in Nat \ {0}
      /\ m = inbox[1]
      /\ Len(inbox') = Len(inbox) - 1
      /\ \A i \in 1 .. Len(inbox') : inbox'[i] = inbox[i + 1]
  BY <1>0 DEF TypeOK
<1>2. m \in Fly
  BY <1>1 DEF Fly
<1>3. Fly' = Fly \ {m}
  <2>1. ASSUME NEW i \in 1 .. Len(inbox), i # 1 PROVE inbox[i] # m
    <3>1. 1 \in 1 .. Len(inbox)
      BY <1>1
    <3> QED
      BY <1>1, <2>1, <3>1 DEF Inv, InboxUnique
  <2>2. Fly' \subseteq Fly \ {m}
    <3> SUFFICES ASSUME NEW i \in 1 .. Len(inbox') PROVE inbox'[i] \in Fly \ {m}
      BY DEF Fly
    <3>1. i + 1 \in 1 .. Len(inbox) /\ i + 1 # 1
      BY <1>1
    <3> QED
      BY <1>1, <2>1, <3>1 DEF Fly
  <2>3. Fly \ {m} \subseteq Fly'
    <3> SUFFICES ASSUME NEW i \in 1 .. Len(inbox), inbox[i] # m PROVE inbox[i] \in Fly'
      BY DEF Fly
    <3>1. i - 1 \in 1 .. Len(inbox') /\ i = (i - 1) + 1
      BY <1>1
    <3> QED
      BY <1>1, <3>1 DEF Fly
  <2> QED
    BY <2>2, <2>3
<1>5. m.from \in Clients
  <2>1. 1 \in 1 .. Len(inbox)
    BY <1>1
  <2> QED
    BY <1>0, <1>1, <2>1, InboxType DEF Setters
<1>6. \A d \in Clients :
        /\ hist'[d].sent = hist[d].sent
        /\ hist'[d].objected = hist[d].objected \/ handler[d] # "none"
        /\ hist'[d].seen = IF IsOpen(d) THEN hist[d].seen \cup {configured'}
                           ELSE hist[d].seen
  BY <1>5, ExecutesHistories DEF IsOpen
<1>7. OneShot!Take(configured')
  BY <1>0, <1>6, TakeRefines
<1>8. PICK k \in Fly : k = m
  BY <1>2
<1>9. OneShot!Take(k.want) \/ OneShot!Take(configured)
  BY <1>0, <1>7, <1>8 DEF OneShot!Take
<1>10. Res' = Res
  BY <1>0, <1>6, SameResult DEF Res
<1>11. OneShot!Land(k)
  BY <1>3, <1>8, <1>9, <1>10 DEF OneShot!Land, Fly, Res, ResOf
<1> QED
  BY <1>8, <1>11 DEF AbstractStep, OneShot!Next, Fly

LEMMA AsusdDiesRefines ==
  ASSUME Inv, AsusdDies
  PROVE  AbstractStep
<1>1. UNCHANGED <<client, verdict, configured, hist>> /\ inbox' = <<>>
  BY DEF AsusdDies, frontend, hardware
<1>2. Req' = Req /\ Res' = Res /\ Fly' = {}
  BY <1>1 DEF Req, ReqOf, IsOpen, IsSent, Res, ResOf, Fly
<1>3. OneShot!Lose
  BY <1>1, <1>2 DEF OneShot!Lose, Req, ReqOf, Res, Fly
<1> QED
  BY <1>3 DEF AbstractStep, OneShot!Next

LEMMA ExternalChangeRefines ==
  ASSUME Inv, ExternalChange
  PROVE  AbstractStep
<1>0. /\ TypeOK /\ UNCHANGED <<client, verdict, inbox>>
      /\ hist' = Seen(hist, configured')
      /\ configured' \in Limits
  BY DEF Inv, TypeOK, ExternalChange, Becomes, frontend, daemon
<1>1. \A d \in Clients :
        /\ hist'[d].sent = hist[d].sent
        /\ hist'[d].objected = hist[d].objected
        /\ hist'[d].seen = IF IsOpen(d) THEN hist[d].seen \cup {configured'}
                           ELSE hist[d].seen
  <2>1. hist \in [Clients -> Histories]
    BY <1>0 DEF TypeOK
  <2> QED
    BY <1>0, <2>1, SeenGrows DEF IsOpen
<1>2. OneShot!Take(configured')
  BY <1>0, <1>1, TakeRefines
<1>3. Fly' = Fly /\ Res' = Res
  BY <1>0, <1>1 DEF Fly, Res, ResOf, SettledAs
<1>4. PICK v \in Limits : v = configured'
  BY <1>0
<1>5. OneShot!Other(v)
  BY <1>2, <1>3, <1>4 DEF OneShot!Other, OneShot!Take, Fly, Res, ResOf
<1> QED
  BY <1>5 DEF AbstractStep, OneShot!Next

-----------------------------------------------------------------------------
LEMMA StepRefines == Inv /\ [Next]_vars => AbstractStep
<1> SUFFICES ASSUME Inv, [Next]_vars PROVE AbstractStep
  OBVIOUS
<1>1. ASSUME NEW c \in Clients, ClientStep(c) PROVE AbstractStep
  BY <1>1, ReceiveRefines, SessionReadConfiguredRefines, SessionReadEffectiveRefines
     DEF ClientStep
<1>2. ASSUME NEW c \in Clients, Decline(c) \/ HandlerStep(c) PROVE AbstractStep
  <2>1. CASE Decline(c) \/ ReadBackEffective(c)
    BY <2>1, HandlerStutter DEF Decline, ReadBackEffective, frontend, hardware
  <2>2. CASE ReadBackConfigured(c)
    <3>1. UNCHANGED <<client, verdict, inbox, configured>> /\ handler[c] = "configured"
      BY <2>2 DEF ReadBackConfigured, frontend, hardware
    <3>2. CASE UNCHANGED hist
      BY <3>1, <3>2, HandlerStutter
    <3>3. CASE \E yes : hist' = [hist EXCEPT ![c].objected = yes]
      <4>1. \A d \in Clients :
              /\ hist'[d].sent = hist[d].sent /\ hist'[d].seen = hist[d].seen
              /\ d # c => hist'[d].objected = hist[d].objected
        <5>1. PICK yes : hist' = [hist EXCEPT ![c].objected = yes]
          BY <3>3
        <5> QED
          BY <5>1 DEF Inv, TypeOK, Histories
      <4>2. \A d \in Clients : hist'[d].objected = hist[d].objected \/ handler[d] # "none"
        BY <3>1, <4>1
      <4> QED
        BY <3>1, <4>1, <4>2, HandlerStutter
    <3> QED
      BY <2>2, <3>2, <3>3 DEF ReadBackConfigured
  <2> QED
    BY <1>2, <2>1, <2>2 DEF HandlerStep
<1>3. CASE HardwaredDies \/ AsusdRestarts
  BY <1>3, HandlerStutter DEF HardwaredDies, AsusdRestarts, frontend, hardware
<1>4. CASE UNCHANGED vars
  BY <1>4, HandlerStutter DEF vars
<1> QED
  BY <1>1, <1>2, <1>3, <1>4, SubmitRefines, AuthorizeRefines, AsusdExecutesRefines,
     AsusdDiesRefines, ExternalChangeRefines DEF Next, PolkitAnswers

(* The charge-limit path implements the one-shot write: whatever the       *)
(* front-ends, the daemons and asusd do to each other, a request is one    *)
(* write at most, and is settled truthfully.                               *)
THEOREM Refinement == Spec => ImplementsOneShot
<1>1. Inv /\ [Next]_vars => [OneShot!Next]_(OneShot!vars)
  BY StepRefines DEF AbstractStep
<1> QED
  BY InitRefines, AlwaysInv, <1>1, PTL DEF Spec, ImplementsOneShot, OneShot!Spec
=============================================================================
