----------------------------- MODULE ChargeWrite -----------------------------
(***************************************************************************)
(* The charge-limit mutation, from a front-end to the kernel:              *)
(*                                                                         *)
(*   front-end: AppService.set_charge_limit over                           *)
(*              SessionHardwareBatteryProvider    (client, verdict)        *)
(*   orbis-hardwared: handle_set_charge_limit and                          *)
(*              AsusdBatteryMutationBackend       (handler, reply)         *)
(*   asusd: executes setters in order             (inbox, asusdUp)         *)
(*   asusd's stored threshold, the kernel's       (configured, effective)  *)
(*   sessiond: reads both, one after the other    (SessionRead...)         *)
(*                                                                         *)
(* Every await is a step of its own: calls of several front-ends           *)
(* interleave, hardwared and asusd die between two steps, a dispatched     *)
(* setter lands after its caller was told that there was no reply.         *)
(* hist is a history variable: what really became of each front-end's      *)
(* latest request.                                                         *)
(***************************************************************************)
EXTENDS Integers, Sequences, FiniteSets

CONSTANTS Clients,      \* front-ends (UI worker, a second session)
          Wanted,       \* percentages a front-end may ask for
          MaxRequests,  \* requests per front-end
          MaxExternal,  \* threshold changes made by others (asusctl, firmware)
          MaxCrashes    \* deaths of hardwared and asusd, together

ASSUME WantedAssumption == Wanted \subseteq Nat
ASSUME BoundsAssumption == {MaxRequests, MaxExternal, MaxCrashes} \subseteq Nat

MinChargeLimit == 20
MaxChargeLimit == 100

(* validate_charge_limit: the same check in the client and the daemon.     *)
ValidLimit(p) == p \in MinChargeLimit .. MaxChargeLimit

VARIABLES client, verdict, handler, reply, inbox, asusdUp,
          configured, effective, externals, crashes, hist

hardware == <<configured, effective>>
daemon == <<handler, reply, inbox, asusdUp>>
frontend == <<client, verdict>>
vars == <<client, verdict, handler, reply, inbox, asusdUp,
          configured, effective, externals, crashes, hist>>

ClientPcs == {"idle", "calling", "readConfigured", "readEffective"}
HandlerPcs == {"none", "authorizing", "setting", "configured", "effective"}
(* What travels back on the bus: the confirmed value, or an error, told    *)
(* apart by what the caller looks for in its name and in its text.         *)
Refusals == {"denied", "invalid"}
(* hardwared wraps an error it got from asusd (or from polkit) as Failed,  *)
(* with that error's name and text inside.                                 *)
WrappedErrors == Refusals \cup {"failed", "noReply", "gone"}
(* Of these, the ones a caller takes to mean that nothing was done.        *)
Definite == Refusals \cup {"gone"}
Replies == {"none", "ok", "unsupported"} \cup WrappedErrors
ProviderErrors ==
  {"InvalidRequest", "PermissionDenied", "Unsupported", "BackendUnavailable",
   "Timeout", "Dbus"}
Verdicts ==
  [kind : {"none", "applied", "readback"}, err : {"none"}]
    \cup [kind : {"command", "unconfirmed"}, err : ProviderErrors]

NoVerdict == [kind |-> "none", err |-> "none"]
Limits == MinChargeLimit .. MaxChargeLimit
Setters == [from : Clients, n : Nat, want : Limits]

Requests == [pc : ClientPcs, n : Nat, want : Nat,
             err : ProviderErrors \cup {"none"}, read : Nat]
Histories == [sent : Nat, granted : BOOLEAN, landed : BOOLEAN, objected : BOOLEAN,
              seen : SUBSET Limits]

TypeOK ==
  /\ client \in [Clients -> Requests]
  /\ verdict \in [Clients -> Verdicts]
  /\ handler \in [Clients -> HandlerPcs]
  /\ reply \in [Clients -> Replies]
  /\ inbox \in Seq(Setters)
  /\ asusdUp \in BOOLEAN
  /\ configured \in Limits
  /\ effective \in Limits
  /\ externals \in 0 .. MaxExternal
  /\ crashes \in 0 .. MaxCrashes
  /\ hist \in [Clients -> Histories]

(* hist when a request starts: setters sent, polkit's consent, whether one *)
(* changed the threshold, whether asusd itself answered one, or the read   *)
(* after it, as if nothing were done, thresholds seen.                     *)
Fresh == [sent |-> 0, granted |-> FALSE, landed |-> FALSE, objected |-> FALSE,
          seen |-> {configured}]

Init ==
  /\ client = [c \in Clients |-> [pc |-> "idle", n |-> 0, want |-> 0,
                                  err |-> "none", read |-> 0]]
  /\ verdict = [c \in Clients |-> NoVerdict]
  /\ handler = [c \in Clients |-> "none"]
  /\ reply = [c \in Clients |-> "none"]
  /\ inbox = <<>>
  /\ asusdUp = TRUE
  /\ configured \in Wanted \cap Limits
  /\ effective = configured
  /\ externals = 0
  /\ crashes = 0
  /\ hist = [c \in Clients |-> [Fresh EXCEPT !.seen = {}]]

-----------------------------------------------------------------------------
(* Mutant: a caller without a reply is taken for one without a backend.    *)
ClassifyNoReplyAsGone(r) ==
  CASE r \in {"gone", "noReply"} -> "BackendUnavailable"
    [] r = "unsupported" -> "Unsupported"
    [] r = "denied"      -> "PermissionDenied"
    [] r = "invalid"     -> "InvalidRequest"
    [] OTHER             -> "Dbus"

(* zbus_error_to_provider. Every fragment is looked for in name and text,  *)
(* so that an error hardwared got from asusd and wrapped counts like one   *)
(* of its own: "gone" has ServiceUnknown, NameHasNoOwner or Disconnected   *)
(* in it, "noReply" NoReply, "denied" AccessDenied, "invalid" InvalidArgs, *)
(* each without the ones before; only NotSupported must be the name.       *)
Classify(r) ==
  CASE r = "gone"        -> "BackendUnavailable"
    [] r = "noReply"     -> "Timeout"
    [] r = "unsupported" -> "Unsupported"
    [] r = "denied"      -> "PermissionDenied"
    [] r = "invalid"     -> "InvalidRequest"
    [] OTHER             -> "Dbus"

(* Mutant: only a timeout is treated as an unknown outcome.                *)
MayHaveDispatchedOnTimeout(e) == e = "Timeout"

(* mutation_may_have_dispatched                                            *)
MayHaveDispatched(e) == e \in {"Timeout", "Dbus"}

-----------------------------------------------------------------------------
(* Front-end                                                               *)

(* SessionHardwareBatteryProvider::set_charge_limit validates, then sends  *)
(* the D-Bus call; hardwared may not be there to receive it.               *)
Submit(c, p) ==
  /\ client[c].pc = "idle"
  /\ client[c].n < MaxRequests
  /\ hist' = [hist EXCEPT ![c] = Fresh]
  /\ IF ValidLimit(p)
       THEN /\ client' = [client EXCEPT ![c] =
                 [pc |-> "calling", n |-> @.n + 1, want |-> p, err |-> "none", read |-> 0]]
            /\ verdict' = [verdict EXCEPT ![c] = NoVerdict]
            /\ \/ /\ handler' = [handler EXCEPT ![c] = "authorizing"]
                  /\ UNCHANGED reply
               \/ /\ reply' = [reply EXCEPT ![c] = "gone"]
                  /\ UNCHANGED handler
       ELSE /\ client' = [client EXCEPT ![c] =
                 [pc |-> "idle", n |-> @.n + 1, want |-> p, err |-> "none", read |-> 0]]
            /\ verdict' = [verdict EXCEPT ![c] = [kind |-> "command",
                                                  err |-> "InvalidRequest"]]
            /\ UNCHANGED <<handler, reply>>
  /\ UNCHANGED <<inbox, asusdUp, hardware, externals, crashes>>

(* Mutant: the call is sent again when no reply came.                      *)
ReceiveRetrying(c) ==
  /\ client[c].pc = "calling"
  /\ reply[c] # "none"
  /\ reply' = [reply EXCEPT ![c] = "none"]
  /\ CASE reply[c] = "noReply" ->
             /\ handler' = [handler EXCEPT ![c] = "authorizing"]
             /\ UNCHANGED <<client, verdict>>
       [] reply[c] = "ok" ->
             /\ client' = [client EXCEPT ![c].pc = "readConfigured"]
             /\ UNCHANGED <<verdict, handler>>
       [] OTHER ->
             /\ client' = [client EXCEPT ![c].pc = "idle"]
             /\ verdict' = [verdict EXCEPT ![c] = [kind |-> "command",
                                                   err |-> Classify(reply[c])]]
             /\ UNCHANGED handler
  /\ UNCHANGED <<inbox, asusdUp, hardware, externals, crashes, hist>>

(* AppService::set_charge_limit on the answer: read back after success,    *)
(* one classifying read after an outcome that may have been dispatched,    *)
(* a plain command error otherwise. Nothing is ever sent again.            *)
Receive(c) ==
  /\ client[c].pc = "calling"
  /\ reply[c] # "none"
  /\ reply' = [reply EXCEPT ![c] = "none"]
  /\ LET e == Classify(reply[c]) IN
       IF reply[c] = "ok"
         THEN /\ client' = [client EXCEPT ![c].pc = "readConfigured"]
              /\ UNCHANGED verdict
         ELSE IF MayHaveDispatched(e)
           THEN /\ client' = [client EXCEPT ![c].pc = "readConfigured", ![c].err = e]
                /\ UNCHANGED verdict
           ELSE /\ client' = [client EXCEPT ![c].pc = "idle"]
                /\ verdict' = [verdict EXCEPT ![c] = [kind |-> "command", err |-> e]]
  /\ UNCHANGED <<handler, inbox, asusdUp, hardware, externals, crashes, hist>>

(* The read-back did not produce a state.                                  *)
ReadFails(c) ==
  /\ client' = [client EXCEPT ![c].pc = "idle", ![c].err = "none", ![c].read = 0]
  /\ verdict' = [verdict EXCEPT ![c] =
       IF client[c].err = "none" THEN [kind |-> "readback", err |-> "none"]
                                 ELSE [kind |-> "unconfirmed", err |-> client[c].err]]

(* recover_unknown_charge confirms only the wanted percentage.             *)
ReadYields(c, percent) ==
  /\ client' = [client EXCEPT ![c].pc = "idle", ![c].err = "none", ![c].read = 0]
  /\ verdict' = [verdict EXCEPT ![c] =
       IF client[c].err = "none" \/ percent = client[c].want
         THEN [kind |-> "applied", err |-> "none"]
         ELSE [kind |-> "unconfirmed", err |-> client[c].err]]

(* Mutant: the read has no deadline.                                       *)
SessionReadConfiguredUnbounded(c) ==
  /\ client[c].pc = "readConfigured"
  /\ asusdUp
  /\ client' = [client EXCEPT ![c].pc = "readEffective", ![c].read = configured]
  /\ UNCHANGED <<verdict, daemon, hardware, externals, crashes, hist>>

(* Session1 read, first half: asusd's stored threshold. The read is bounded *)
(* by the provider's timeout, so it always ends, possibly with an error.   *)
SessionReadConfigured(c) ==
  /\ client[c].pc = "readConfigured"
  /\ \/ /\ asusdUp
        /\ client' = [client EXCEPT ![c].pc = "readEffective", ![c].read = configured]
        /\ UNCHANGED verdict
     \/ ReadFails(c)
  /\ UNCHANGED <<daemon, hardware, externals, crashes, hist>>

(* Second half: the kernel's threshold; two different values are an error. *)
SessionReadEffective(c) ==
  /\ client[c].pc = "readEffective"
  /\ IF effective = client[c].read
       THEN ReadYields(c, effective) \/ ReadFails(c)
       ELSE ReadFails(c)
  /\ UNCHANGED <<daemon, hardware, externals, crashes, hist>>

-----------------------------------------------------------------------------
(* orbis-hardwared                                                         *)

(* The handler of c's call ends with an answer.                            *)
Answer(c, r) ==
  /\ handler' = [handler EXCEPT ![c] = "none"]
  /\ reply' = [reply EXCEPT ![c] = r]

(* Mutant: the setter leaves before polkit has answered.                   *)
DeclineAfterSending(c) ==
  /\ handler[c] = "authorizing"
  /\ asusdUp
  /\ inbox' = Append(inbox, [from |-> c, n |-> client[c].n, want |-> client[c].want])
  /\ hist' = [hist EXCEPT ![c].sent = @ + 1]
  /\ Answer(c, "denied")
  /\ UNCHANGED <<frontend, asusdUp, hardware, externals, crashes>>

(* handle_set_charge_limit: polkit says no or fails, or the backend built  *)
(* at start-up is a disabled one; nothing is sent to asusd. What polkit or *)
(* the discovery at start-up failed with is in the text.                   *)
Decline(c) ==
  /\ handler[c] = "authorizing"
  /\ \E r \in {"unsupported"} \cup WrappedErrors : Answer(c, r)
  /\ UNCHANGED <<frontend, inbox, asusdUp, hardware, externals, crashes, hist>>

(* polkit says yes: exactly one setter goes to asusd, when it is there.    *)
Authorize(c) ==
  /\ handler[c] = "authorizing"
  /\ IF asusdUp
       THEN /\ handler' = [handler EXCEPT ![c] = "setting"]
            /\ inbox' = Append(inbox, [from |-> c, n |-> client[c].n,
                                       want |-> client[c].want])
            /\ hist' = [hist EXCEPT ![c].sent = @ + 1, ![c].granted = TRUE]
            /\ UNCHANGED reply
       ELSE /\ Answer(c, "gone")
            /\ hist' = [hist EXCEPT ![c].granted = TRUE]
            /\ UNCHANGED inbox
  /\ UNCHANGED <<frontend, asusdUp, hardware, externals, crashes>>

(* Mutant: the value read back is not compared with the wanted one.        *)
ReadBackConfiguredUnchecked(c) ==
  /\ handler[c] = "configured"
  /\ IF asusdUp
       THEN /\ handler' = [handler EXCEPT ![c] = "effective"]
            /\ UNCHANGED reply
       ELSE Answer(c, "gone")
  /\ UNCHANGED <<frontend, inbox, asusdUp, hardware, externals, crashes, hist>>

(* The configured read-back: another value is an error ("failed"), and so  *)
(* is a read that asusd, alive or gone, does not answer with a value.      *)
ReadBackConfigured(c) ==
  /\ handler[c] = "configured"
  /\ \/ /\ asusdUp
        /\ configured = client[c].want
        /\ handler' = [handler EXCEPT ![c] = "effective"]
        /\ UNCHANGED <<reply, hist>>
     \/ \E r \in WrappedErrors :
          /\ r \in Refusals => asusdUp
          /\ Answer(c, r)
          /\ hist' = [hist EXCEPT ![c].objected = asusdUp /\ r \in Definite]
  /\ UNCHANGED <<frontend, inbox, asusdUp, hardware, externals, crashes>>

(* The effective read-back: any percentage is reported, also a divergent   *)
(* one; only a failed read is an error.                                    *)
ReadBackEffective(c) ==
  /\ handler[c] = "effective"
  /\ Answer(c, "ok") \/ Answer(c, "failed")
  /\ UNCHANGED <<frontend, inbox, asusdUp, hardware, externals, crashes, hist>>

(* hardwared dies: the bus tells every waiting caller that no reply will   *)
(* come; setters already sent stay with asusd. systemd starts it again.    *)
HardwaredDies ==
  /\ crashes < MaxCrashes
  /\ crashes' = crashes + 1
  /\ \E c \in Clients : handler[c] # "none"
  /\ handler' = [c \in Clients |-> "none"]
  /\ reply' = [c \in Clients |-> IF handler[c] # "none" THEN "noReply" ELSE reply[c]]
  /\ UNCHANGED <<frontend, inbox, asusdUp, hardware, externals, hist>>

-----------------------------------------------------------------------------
(* asusd and the kernel                                                    *)

(* Both thresholds take new values; open requests have seen them.          *)
Becomes(conf, eff) ==
  /\ configured' = conf
  /\ effective' = eff

Seen(h, conf) ==
  [c \in Clients |-> IF client[c].pc # "idle"
                       THEN [h[c] EXCEPT !.seen = @ \cup {conf}] ELSE h[c]]

(* asusd executes the oldest setter: it takes effect in its store, in the  *)
(* kernel, in both or in neither, and asusd answers with or without error, *)
(* an error of any name.                                                   *)
AsusdExecutes ==
  /\ asusdUp
  /\ inbox # <<>>
  /\ LET m == Head(inbox)
         c == m.from
         current == client[c].n = m.n
         awaited == current /\ handler[c] = "setting"
     IN /\ inbox' = Tail(inbox)
        /\ IF awaited
             THEN \/ /\ handler' = [handler EXCEPT ![c] = "configured"]
                     /\ UNCHANGED reply
                  \/ \E r \in WrappedErrors : Answer(c, r)
             ELSE UNCHANGED <<handler, reply>>
        /\ \E conf \in {configured, m.want}, eff \in {effective, m.want} :
             /\ Becomes(conf, eff)
             /\ hist' = Seen([hist EXCEPT
                  ![c].landed = @ \/ (current /\ conf = m.want /\ conf # configured),
                  ![c].objected = @ \/ (awaited /\ reply'[c] \in Definite)], conf)
  /\ UNCHANGED <<frontend, asusdUp, externals, crashes>>

(* asusd dies with what it had not executed; its callers get no reply.     *)
AsusdDies ==
  /\ asusdUp
  /\ crashes < MaxCrashes
  /\ crashes' = crashes + 1
  /\ asusdUp' = FALSE
  /\ inbox' = <<>>
  /\ handler' = [c \in Clients |-> IF handler[c] = "setting" THEN "none" ELSE handler[c]]
  /\ reply' = [c \in Clients |-> IF handler[c] = "setting" THEN "noReply" ELSE reply[c]]
  /\ UNCHANGED <<frontend, hardware, externals, hist>>

AsusdRestarts ==
  /\ ~asusdUp
  /\ asusdUp' = TRUE
  /\ UNCHANGED <<frontend, handler, reply, inbox, hardware, externals, crashes, hist>>

(* asusctl, another tool or the firmware changes the thresholds.           *)
ExternalChange ==
  /\ externals < MaxExternal
  /\ externals' = externals + 1
  /\ \E p \in Wanted \cap Limits :
       /\ Becomes(p, p) \/ Becomes(configured, p)
       /\ hist' = Seen(hist, configured')
  /\ UNCHANGED <<frontend, daemon, crashes>>

-----------------------------------------------------------------------------
ClientStep(c) ==
  Receive(c) \/ SessionReadConfigured(c) \/ SessionReadEffective(c)
HandlerStep(c) == ReadBackConfigured(c) \/ ReadBackEffective(c)
PolkitAnswers(c) == Decline(c) \/ Authorize(c)

Next ==
  \/ \E c \in Clients, p \in Wanted : Submit(c, p)
  \/ \E c \in Clients : ClientStep(c) \/ PolkitAnswers(c) \/ HandlerStep(c)
  \/ HardwaredDies
  \/ AsusdExecutes
  \/ AsusdDies
  \/ AsusdRestarts
  \/ ExternalChange

Spec == Init /\ [][Next]_vars

(* A call is in one hand at a time, the front-end's, polkit's or           *)
(* hardwared's handler's, and whoever has it goes on; asusd executes what  *)
(* it was sent while it lives.                                             *)
Fairness ==
  /\ \A c \in Clients : WF_vars(ClientStep(c) \/ PolkitAnswers(c) \/ HandlerStep(c))
  /\ WF_vars(AsusdExecutes)

FairSpec == Spec /\ Fairness

-----------------------------------------------------------------------------
(* Properties                                                              *)

(* A front-end is told Applied only if the wanted percentage was asusd's   *)
(* configured threshold at some instant of the request: by the daemon's    *)
(* configured read-back, or by the classifying read after a lost answer.   *)
AppliedWasInForce ==
  \A c \in Clients : verdict[c].kind = "applied" => client[c].want \in hist[c].seen

(* A request the code reports as refused sent no setter, whatever the      *)
(* interleaving, unless asusd, which had received it, answered its setter  *)
(* or the read-back with such an error; one reported as unsupported sent   *)
(* none at all. A refusal is never what a lost answer or a death became.   *)
RefusalIsReal ==
  \A c \in Clients :
    verdict[c].kind = "command" =>
      /\ verdict[c].err = "Unsupported" => hist[c].sent = 0
      /\ verdict[c].err \in {"PermissionDenied", "InvalidRequest"} =>
           hist[c].sent = 0 \/ hist[c].objected

(* One request is at most one setter, across timeouts, crashes of both     *)
(* daemons and the recovery read; and never one polkit did not grant.      *)
OneGrantedSetter ==
  \A c \in Clients : hist[c].sent <= 1 /\ (hist[c].sent = 1 => hist[c].granted)

(* A command error is final: no setter of that request is still on its way *)
(* to asusd, so the threshold cannot move later because of it.             *)
CommandErrorIsFinal ==
  \A i \in 1 .. Len(inbox) :
    LET m == inbox[i] IN
      m.n = client[m.from].n => verdict[m.from].kind # "command"

(* CommandError::Command says the mutation was not performed or was        *)
(* rejected (orbis-application/src/lib.rs): then the request has not       *)
(* changed the threshold, or asusd itself answered it with such an error.  *)
CommandErrorMeansNotWritten ==
  \A c \in Clients :
    verdict[c].kind = "command" => ~hist[c].landed \/ hist[c].objected

(* Nobody waits in vain: an open call is with its handler or its answer is *)
(* on the way, whoever has died, and a handler that awaits asusd's answer  *)
(* has its setter in the inbox of an asusd that lives.                     *)
NobodyWaitsInVain ==
  \A c \in Clients :
    /\ client[c].pc = "calling" => handler[c] # "none" \/ reply[c] # "none"
    /\ handler[c] = "setting" =>
         asusdUp /\ \E i \in 1 .. Len(inbox) : inbox[i].from = c /\ inbox[i].n = client[c].n

(* The front-end's worker, which awaits the write without a deadline,      *)
(* always gets back to its loop, whatever dies in between.                 *)
Responsive ==
  \A c \in Clients : client[c].pc # "idle" ~> client[c].pc = "idle"

-----------------------------------------------------------------------------
(* The abstract write: the settled result. A refusal, unless asusd itself  *)
(* refused, is a rejection; of any other command error only its end is     *)
(* promised.                                                               *)
SettledAs(v, h) ==
  CASE v.kind \in {"applied", "none"} -> v.kind
    [] v.kind = "readback" -> "applied"
    [] v.kind = "command" ->
         IF v.err # "BackendUnavailable" /\ ~h.objected THEN "rejected" ELSE "ended"
    [] OTHER -> "unknown"

OneShot == INSTANCE OneShotWrite WITH
  Asked <- Wanted,
  Values <- Limits,
  register <- configured,
  request <- [c \in Clients |->
               [open |-> client[c].pc # "idle", n |-> client[c].n,
                want |-> client[c].want, sent |-> hist[c].sent > 0,
                seen |-> hist[c].seen]],
  flying <- {inbox[i] : i \in 1 .. Len(inbox)},
  result <- [c \in Clients |-> SettledAs(verdict[c], hist[c])]

(* Every behaviour of the path is a behaviour of the one-shot write.       *)
ImplementsOneShot == OneShot!Spec
=============================================================================
