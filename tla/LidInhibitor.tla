------------------------------ MODULE LidInhibitor ------------------------------
(***************************************************************************)
(* Closed-lid mode in orbis-sessiond (clamshell.rs): a systemd-inhibit     *)
(* process blocks the lid switch for as long as it lives. The daemon owns  *)
(* one at most; one it has lost sight of still blocks the switch (strays). *)
(* Every method runs under one mutex, so each is one step.                 *)
(***************************************************************************)
EXTENDS Integers

CONSTANTS MaxRequests,  \* calls of the two methods
          MaxUpsets     \* deaths of a process, and system calls that fail, together

VARIABLES available,  \* systemd-inhibit was found when the daemon started
          child,      \* the process owned: "none", "alive" or "exited"
          strays,     \* processes alive that the daemon does not own
          status,     \* the status remembered
          told,       \* the answer of the last call
          requests, upsets,
          blurred     \* history: a wait or a kill has failed

lidVars == <<available, child, strays, status, told, requests, upsets, blurred>>

Statuses == {"unavailable", "inactive", "active", "denied", "start failed", "exit failed",
             "unknown"}

LidTypeOK ==
  /\ available \in BOOLEAN
  /\ child \in {"none", "alive", "exited"}
  /\ strays \in 0 .. MaxUpsets
  /\ {status, told} \subseteq Statuses
  /\ requests \in 0 .. MaxRequests /\ upsets \in 0 .. MaxUpsets
  /\ blurred \in BOOLEAN

Started(found) == IF found THEN "inactive" ELSE "unavailable"

Init ==
  /\ available \in BOOLEAN
  /\ child = "none" /\ strays = 0
  /\ status = Started(available) /\ told = Started(available)
  /\ requests = 0 /\ upsets = 0
  /\ blurred = FALSE

Request == requests < MaxRequests /\ requests' = requests + 1
Upset == upsets < MaxUpsets /\ upsets' = upsets + 1
Says(answer) == told' = answer
Decides(answer) == status' = answer /\ told' = answer

Lost == IF child = "alive" THEN strays + 1 ELSE strays

-----------------------------------------------------------------------------
(* status(): a process that is gone is dropped, one that cannot be waited  *)
(* for is kept.                                                            *)
Status ==
  /\ Request
  /\ \/ /\ child = "none"
        /\ Says(status)
        /\ UNCHANGED <<child, status, upsets, blurred>>
     \/ /\ child = "alive"
        /\ Says("active")
        /\ UNCHANGED <<child, status, upsets, blurred>>
     \/ /\ child = "exited"
        /\ child' = "none"
        /\ Decides("unknown")
        /\ UNCHANGED <<upsets, blurred>>
     \/ /\ child # "none"
        /\ Upset
        /\ Decides("unknown")
        /\ blurred' = TRUE
        /\ UNCHANGED child
  /\ UNCHANGED <<available, strays>>

SetUnavailable ==
  /\ Request
  /\ ~available
  /\ Decides("unavailable")
  /\ UNCHANGED <<available, child, strays, upsets, blurred>>

(* A process that is running is enough.                                    *)
KeepOn ==
  /\ Request
  /\ available
  /\ child = "alive"
  /\ Decides("active")
  /\ UNCHANGED <<available, child, strays, upsets, blurred>>

(* Otherwise, also when the wait fails, it is dropped and one is started.  *)
TurnOn ==
  /\ Request
  /\ available
  /\ strays' = Lost
  /\ blurred' = (blurred \/ child = "alive")
  /\ \/ /\ child' = "alive"
        /\ Decides("active")
        /\ IF child = "alive" THEN Upset ELSE UNCHANGED upsets
     \/ /\ child' = "none"
        /\ Upset
        /\ \E s \in {"denied", "start failed"} : Decides(s)
  /\ UNCHANGED available

(* The process is killed and waited for; it is dropped in any case.        *)
TurnOff ==
  /\ Request
  /\ available
  /\ child' = "none"
  /\ \/ Decides("inactive") /\ UNCHANGED <<strays, upsets, blurred>>
     \/ /\ child # "none"
        /\ Upset
        /\ strays' \in {strays, Lost}
        /\ \E s \in {"denied", "exit failed"} : Decides(s)
        /\ blurred' = TRUE
  /\ UNCHANGED available

-----------------------------------------------------------------------------
(* logind is told by the end of the process alone.                         *)
ProcessEnds ==
  /\ Upset
  /\ \/ child = "alive" /\ child' = "exited" /\ UNCHANGED strays
     \/ strays > 0 /\ strays' = strays - 1 /\ UNCHANGED child
  /\ UNCHANGED <<available, status, told, requests, blurred>>

(* systemd ends every process of the service with it, and starts it again. *)
Restart ==
  /\ Upset
  /\ child' = "none" /\ strays' = 0
  /\ available' \in BOOLEAN
  /\ status' = Started(available') /\ told' = Started(available')
  /\ blurred' = FALSE
  /\ UNCHANGED requests

-----------------------------------------------------------------------------
Next ==
  \/ Status \/ SetUnavailable \/ KeepOn \/ TurnOn \/ TurnOff
  \/ ProcessEnds \/ Restart

Spec == Init /\ [][Next]_lidVars

-----------------------------------------------------------------------------
(* What was told last is how the lid is: "inactive" or "unavailable" leave *)
(* it to the system, "active" blocks it until the process ends, of which   *)
(* the next call will know; and the switch never stays blocked by a        *)
(* process that nobody can end. Only a wait or a kill that fails may spoil *)
(* that (try_wait and kill of one's own child).                            *)
LidAsTold ==
  ~blurred =>
    /\ strays = 0
    /\ told \in {"inactive", "unavailable", "denied", "start failed", "unknown"} =>
         child = "none"
    /\ told = "active" => child # "none"
    /\ status = "active" => child # "none"
=============================================================================
