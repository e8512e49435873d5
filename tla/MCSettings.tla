------------------------------ MODULE MCSettings ------------------------------
(* TLC instance of the power-source rules (SourceRules without a product   *)
(* GPU), of what the windows hold of the hardware (FanEditor, LimitEditor, *)
(* MainCards) and of the settings files (FileStore). The five share no     *)
(* state, so each part is explored while the others stay in one initial    *)
(* state.                                                                  *)
EXTENDS MCSourceRules

-----------------------------------------------------------------------------
(* Fan curves of two points instead of eight.                              *)
Good == [temps |-> <<40, 90>>, pwms |-> <<60, 200>>]
Silent == [temps |-> <<50, 90>>, pwms |-> <<0, 90>>]
Stopped == [temps |-> <<40, 90>>, pwms |-> <<0, 0>>]
ThreeCurves == {Good, Silent, Stopped}
FirstSlot == <<"balanced", "CPU">>

TwoLimits == <<"spl", "fppt">>

CONSTANTS FanProfiles, Fans, Curves, Factory, First, MaxGestures, MaxForeign, MaxFailures
CONSTANTS Limits, Watts, MaxEdits, MaxSwitches, MaxMishaps
CONSTANTS Choices, MaxClicks, MaxOthers, MaxMisses
CONSTANTS Docs, MaxSaves, MaxHandEdits, MaxErrors, MaxLosses

VARIABLES part, stored, editor, commands, job, replies, tally, trail
VARIABLES firmware, panel, orders, batch, events, strays, uses, unread
VARIABLES card, machine, asks, posts, spent, unseen
VARIABLES flavour, dir, temp, after, save, answered, count

Fan == INSTANCE FanEditor
fanState == <<stored, editor, commands, job, replies, tally, trail>>
Limit == INSTANCE LimitEditor
limitState == <<firmware, panel, orders, batch, events, strays, uses, unread>>
Card == INSTANCE MainCards
cardState == <<card, machine, asks, posts, spent, unseen>>
Store == INSTANCE FileStore
storeState == <<flavour, dir, temp, after, save, answered, count>>

ASSUME SlotAssumption == First \in Fan!Slots
ASSUME CurveAssumption == Factory \in Curves
ASSUME LimitsAssumption == Limits \in Seq(Limit!Keys)
ASSUME DocsAssumption == Docs \cap {Store!Absent, Store!Torn, Store!Bad} = {}
ASSUME CountsAssumption ==
  {MaxGestures, MaxForeign, MaxFailures, MaxEdits, MaxSwitches, MaxMishaps, MaxClicks, MaxOthers,
   MaxMisses, MaxSaves, MaxHandEdits, MaxErrors, MaxLosses} \subseteq Nat

(* Where a part rests while another moves; the fan part starts there too,  *)
(* from the factory curves.                                                *)
RulesRest == supply = "ac" /\ setting = [f \in Fields |-> "low"]
FanRests == stored[FirstSlot].curve = Good
LimitsRest == \A k \in Limit!Keys : firmware[k] = "low"
CardsRest == card.kind = "gpu" /\ card.shown = "eco" /\ machine.now = "eco"
StoreRests == flavour = "careful" /\ dir.file = Store!Absent /\ save.doc = "a"

PartInit ==
  /\ part \in {"rules", "fans", "limits", "cards", "files"}
  /\ Init /\ Fan!Init /\ Limit!Init /\ Card!Init /\ Store!Init
  /\ part # "rules" => RulesRest
  /\ FanRests
  /\ part # "limits" => LimitsRest
  /\ part # "cards" => CardsRest
  /\ part # "files" => StoreRests

PartNext ==
  /\ \/ part = "rules" /\ Next /\ UNCHANGED <<fanState, limitState, cardState, storeState>>
     \/ part = "fans" /\ Fan!Next /\ UNCHANGED <<vars, limitState, cardState, storeState>>
     \/ part = "limits" /\ Limit!Next /\ UNCHANGED <<vars, fanState, cardState, storeState>>
     \/ part = "cards" /\ Card!Next /\ UNCHANGED <<vars, fanState, limitState, storeState>>
     \/ part = "files" /\ Store!Next /\ UNCHANGED <<vars, fanState, limitState, cardState>>
  /\ UNCHANGED part

PartSpec ==
  PartInit /\ [][PartNext]_<<part, vars, fanState, limitState, cardState, storeState>>

-----------------------------------------------------------------------------
(* The points in the editor were read from the fan an Apply would write.   *)
DraftOfSelection == part = "fans" => Fan!DraftOfSelection

(* At rest, the clean fan curve, the limits and the card in the windows    *)
(* are what the hardware holds, unless it changed after it was last read.  *)
ShownIsHardware ==
  /\ part = "fans" => Fan!ShownIsStored
  /\ part = "limits" => Limit!ShownIsInForce
  /\ part = "cards" => Card!CardIsTrue

(* No editor and no card stays locked for an answer that will not come.    *)
LocksAreOwed ==
  /\ part = "fans" => Fan!PendingIsOwed
  /\ part = "limits" => Limit!LockIsOwed
  /\ part = "cards" => Card!CardIsUnlocked

(* No error, kill or power loss leaves half a document in a settings file, *)
(* or takes back a save a careful store acknowledged.                      *)
SavesSurvive == part = "files" => Store!SavesSurvive

(* What a user's mistake made unreadable is kept, in the file or beside it. *)
BadKept == Store!BadKept
===============================================================================
