------------------------- MODULE MCKeyboardTimeout -------------------------
(* TLC instances of KeyboardTimeout. The same run checks Capabilities: the *)
(* two share no state, so either part is explored while the other stays in *)
(* an initial state. A hardwared that found no battery backend is looked   *)
(* at where its other question failed too: the controls share no evidence. *)
(* The two sources can be exchanged, so one order of their settings is     *)
(* enough to start from.                                                   *)
EXTENDS KeyboardTimeout

CONSTANTS MaxEvents, MaxMishaps
VARIABLES part, world, delegated, refresh, ahead, events, window, mishaps, steady

Gates == INSTANCE Capabilities
gateState == <<world, delegated, refresh, ahead, events, window, mishaps, steady>>

PartInit ==
  /\ part \in {"timeout", "gates"}
  /\ Init /\ Gates!Init
  /\ part = "timeout" =>
       /\ settings["ac"] = None => settings["battery"] = None
       /\ settings["ac"] = 0 => settings["battery"] \in {None, 0}
       /\ ~world.conflict /\ world.battery /\ ~world.ppd
  /\ part = "gates" =>
       /\ light = 0 /\ settings = [source \in Sources |-> None]
       /\ world.battery <=> (world.conflict => world.ppd)

PartNext ==
  \/ part = "timeout" /\ Next /\ UNCHANGED <<part, gateState>>
  \/ part = "gates" /\ Gates!Next /\ UNCHANGED <<part, vars>>

PartFairness ==
  /\ WF_vars(part = "timeout" /\ Run)
  /\ SF_vars(part = "timeout" /\ Changed)
  /\ SF_vars(part = "timeout" /\ TakeEvent)
  /\ SF_vars(part = "timeout" /\ TakeEnd)
  /\ SF_vars(part = "timeout" /\ TakeQuit)
  /\ WF_gateState(part = "gates" /\ Gates!Worker)
  /\ WF_gateState(part = "gates" /\ Gates!Show)

PartSpec == PartInit /\ [][PartNext]_<<part, vars, gateState>> /\ PartFairness

-----------------------------------------------------------------------------
(* With nothing under way and nothing changed since the last refresh a     *)
(* control of the cards is open just when its writer works and its value   *)
(* can be read.                                                            *)
GatesAreTrue == Gates!GatesAreTrue

(* After the last change the controls of the cards come to say what works. *)
GatesFollow == part = "gates" => Gates!GatesFollow
=============================================================================
