--------------------------- MODULE MCExtraControls ---------------------------
(* TLC instances of ExtraControls. The same run checks QuickControls, the  *)
(* other section that writes by tasks of its own, and AppWindows. What one *)
(* section does to the other, switching off its control, is ExtraRefresh   *)
(* there, and which windows are shown changes nothing in either. Below the *)
(* section are AuraWrites and LidInhibitor, which serve any caller. So     *)
(* each part is explored while the others stay in an initial state.        *)
EXTENDS ExtraControls, AppWindows

TwoStaged == <<"boot", "aspm">>

-----------------------------------------------------------------------------
CONSTANTS MaxLevel, MaxQuickClicks, MaxOthers,
          Callers, Modes, Listed, KernelTakes, Colours, Speeds, KnownSpeeds,
          Reported, Zones, MaxCalls,
          MaxRequests, MaxUpsets
VARIABLES part, led, ready, shown, looking, looks, writes, events, spent, past,
          effect, power, lit, call, tally, book,
          available, child, strays, status, told, requests, upsets, blurred

Quick == INSTANCE QuickControls WITH refreshing <- looking, MaxClicks <- MaxQuickClicks
Lighting == INSTANCE AuraWrites
Lid == INSTANCE LidInhibitor
quickState == <<led, ready, shown, looking, looks, writes, events, spent, past>>
lightState == <<effect, power, lit, call, tally, book>>
lidState == <<available, child, strays, status, told, requests, upsets, blurred>>

(* The lights start switched on, with any colour and speed: these are      *)
(* interchangeable.                                                        *)
PartInit ==
  /\ part \in {"extra", "quick", "windows", "lighting", "lid"}
  /\ Init /\ Quick!Init /\ WindowsInit /\ Lighting!Init /\ Lid!Init
  /\ part # "quick" => led.seen = 0
  /\ part # "windows" => host
  /\ power = [z \in Reported |-> "on"]
  /\ effect.colour = CHOOSE c \in Colours : TRUE
  /\ effect.speed = CHOOSE s \in KnownSpeeds : TRUE
  /\ part # "lid" => available

PartNext ==
  \/ /\ part = "extra" /\ Next
     /\ UNCHANGED <<part, quickState, windowVars, lightState, lidState>>
  \/ /\ part = "quick" /\ Quick!Next
     /\ UNCHANGED <<part, vars, windowVars, lightState, lidState>>
  \/ /\ part = "windows" /\ WindowsNext
     /\ UNCHANGED <<part, vars, quickState, lightState, lidState>>
  \/ /\ part = "lighting" /\ Lighting!Next
     /\ UNCHANGED <<part, vars, quickState, windowVars, lidState>>
  \/ /\ part = "lid" /\ Lid!Next
     /\ UNCHANGED <<part, vars, quickState, windowVars, lightState>>

PartFairness ==
  /\ WF_quickState(part = "quick" /\ Quick!Tick)
  /\ WF_quickState(part = "quick" /\ Quick!Show)
  /\ WF_quickState(part = "quick" /\ Quick!Settle)
  /\ WF_quickState(part = "quick" /\ Quick!LookGoesOn)
  /\ WF_quickState(part = "quick" /\ Quick!WriteGoesOn)

PartSpec ==
  /\ PartInit
  /\ [][PartNext]_<<part, vars, quickState, windowVars, lightState, lidState>>
  /\ PartFairness

-----------------------------------------------------------------------------
(* With nothing under way either section shows what its hardware holds and *)
(* can be used, also after a write that failed or was given up: what       *)
(* extra_backend.rs and quick_controls_backend.rs each owe after the tasks *)
(* they drop.                                                              *)
SectionsSettle == QuietIsSettled /\ Quick!QuickShowsLed

(* Whatever was dropped, given up or done by others, the main window comes *)
(* to show the level of the LED, and to offer to change it.                *)
QuickRecovers == part = "quick" => Quick!QuickRecovers

(* A call that replaces a part of a record keeps the rest, though it reads *)
(* and writes the whole; the lid switch is as it was said to be.           *)
PartsAsAsked == Lighting!PartsAsAsked /\ Lid!LidAsTold
=============================================================================
