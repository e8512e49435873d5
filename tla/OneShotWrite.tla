---------------------------- MODULE OneShotWrite ----------------------------
(***************************************************************************)
(* What Orbis promises about one privileged write, whatever the capability *)
(* (docs/architecture.md, section 4): a front-end opens a request, at most *)
(* one write of it is ever dispatched to the backend, the write may land   *)
(* late or never, and the request is settled as                            *)
(*   "applied"   only when the wanted value was in force while the request *)
(*               was open,                                                 *)
(*   "rejected"  only when no write of it was dispatched,                  *)
(*   "ended"     only when no write of it can land any more: what it did   *)
(*               is not promised,                                          *)
(*   "unknown"   otherwise: nobody retries it.                             *)
(* The register also changes for reasons of its own (another tool, the     *)
(* firmware).                                                              *)
(***************************************************************************)
EXTENDS Naturals

CONSTANTS Clients,   \* front-ends that write this setting
          Asked,     \* what a front-end may ask for
          Values     \* what the setting can hold

VARIABLES register,  \* the value in force
          request,   \* [Clients -> [open, n, want, sent, seen]]
          flying,    \* dispatched writes the backend has not executed
          result     \* [Clients -> how the latest request was settled]

vars == <<register, request, flying, result>>

Results == {"none", "applied", "rejected", "ended", "unknown"}

Init ==
  /\ register \in Values
  /\ request = [c \in Clients |-> [open |-> FALSE, n |-> 0, want |-> 0,
                                   sent |-> FALSE, seen |-> {}]]
  /\ flying = {}
  /\ result = [c \in Clients |-> "none"]

(* A request is opened: nothing of it was dispatched yet.                  *)
Open(c, v) ==
  /\ ~request[c].open
  /\ request' = [request EXCEPT ![c] = [open |-> TRUE, n |-> @.n + 1, want |-> v,
                                        sent |-> FALSE, seen |-> {register}]]
  /\ result' = [result EXCEPT ![c] = "none"]
  /\ UNCHANGED <<register, flying>>

(* A value nobody can ask for is rejected without any request.             *)
Refuse(c, v) ==
  /\ ~request[c].open
  /\ request' = [request EXCEPT ![c] = [open |-> FALSE, n |-> @.n + 1, want |-> v,
                                        sent |-> FALSE, seen |-> {register}]]
  /\ result' = [result EXCEPT ![c] = "rejected"]
  /\ UNCHANGED <<register, flying>>

(* The single write of the request leaves for the backend.                 *)
Dispatch(c) ==
  /\ request[c].open
  /\ ~request[c].sent
  /\ request' = [request EXCEPT ![c].sent = TRUE]
  /\ flying' = flying \cup {[from |-> c, n |-> request[c].n, want |-> request[c].want]}
  /\ UNCHANGED <<register, result>>

(* The register takes the value v: every open request has seen it.         *)
Take(v) ==
  /\ register' = v
  /\ request' = [c \in Clients |->
       IF request[c].open THEN [request[c] EXCEPT !.seen = @ \cup {v}] ELSE request[c]]

(* The backend executes a write, or accepts it without effect.             *)
Land(m) ==
  /\ flying' = flying \ {m}
  /\ Take(m.want) \/ Take(register)
  /\ UNCHANGED result

(* The backend went away with everything it had not executed.              *)
Lose ==
  /\ flying' = {}
  /\ UNCHANGED <<register, request, result>>

(* Somebody else sets the register.                                        *)
Other(v) ==
  /\ Take(v)
  /\ UNCHANGED <<flying, result>>

Settle(c, r) ==
  /\ request[c].open
  /\ r = "applied" => request[c].want \in request[c].seen
  /\ r = "rejected" => ~request[c].sent
  /\ r = "ended" => \A m \in flying : m.from = c => m.n # request[c].n
  /\ request' = [request EXCEPT ![c].open = FALSE]
  /\ result' = [result EXCEPT ![c] = r]
  /\ UNCHANGED <<register, flying>>

Next ==
  \/ \E c \in Clients, v \in Asked : Open(c, v) \/ Refuse(c, v)
  \/ \E c \in Clients : Dispatch(c)
  \/ \E m \in flying : Land(m)
  \/ Lose
  \/ \E v \in Values : Other(v)
  \/ \E c \in Clients, r \in Results \ {"none"} : Settle(c, r)

Spec == Init /\ [][Next]_vars
=============================================================================
