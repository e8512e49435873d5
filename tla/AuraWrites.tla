------------------------------- MODULE AuraWrites -------------------------------
(***************************************************************************)
(* Keyboard lighting in hardwared (aura.rs): set_static_rgb, set_effect    *)
(* and set_power_state change a part of a record of asusd by reading it    *)
(* whole, replacing the part and writing it whole again.                   *)
(*                                                                         *)
(*   asusd: the effect and, for each zone, the power states                *)
(*   keyboard: the effect it shows; a mode asusd does not list is sent     *)
(*          to the kernel as a frame, of which asusd learns nothing  (lit) *)
(*   hardwared: a task for each call; every access is an await      (call) *)
(*                                                                         *)
(* A front-end that has given a call up is another caller from then on.    *)
(***************************************************************************)
EXTENDS Integers, FiniteSets

CONSTANTS Callers,    \* the calls there may be at a time
          Modes,      \* effect modes
          Listed,     \* those in SupportedBasicModes; "static" is a mode
          KernelTakes,\* those the kernel attribute takes; {} without it
          Colours,
          Speeds,     \* speeds, the second colour with them
          KnownSpeeds,\* those with a speed byte of the kernel
          Reported,   \* the zones asusd has
          Zones,      \* the zones a caller may name
          MaxCalls,
          MaxTroubles \* accesses that fail and changes made elsewhere, together

Places == {"here", "there"}   \* zone and direction, which no call changes
Lights == {"on", "off"}       \* the four power states of a zone
Effects == [mode : Modes, colour : Colours, speed : Speeds, place : Places]
Powers == [Reported -> Lights]
Frames == [mode : Modes, colour : Colours, speed : Speeds]
Frame(e) == [mode |-> e.mode, colour |-> e.colour, speed |-> e.speed]

Requests ==
  [op : {"static"}, colour : Colours]
    \cup [op : {"effect"}, mode : Modes, colour : Colours, speed : Speeds]
    \cup [op : {"power"}, zone : Zones, light : Lights]

VARIABLES effect, power,  \* asusd's records
          lit,            \* the frame the keyboard shows
          call,           \* [pc, req, copy] for each caller
          tally,          \* calls and troubles so far
          book            \* history, see Books

asusd == <<effect, power>>
auraVars == <<effect, power, lit, call, tally, book>>

Free == [pc |-> "free"]
Calls ==
  {Free} \cup [pc : {"authorizing", "reading"}, req : Requests]
         \cup [pc : {"listing", "setting", "checking"}, req : Requests,
               copy : Effects \cup Powers]

(* What asusd and the keyboard would have had the calls been made one      *)
(* after the other, those that were refused left out; disturbed: the       *)
(* records of which that cannot be said any more.                          *)
Books == [effect : Effects, power : Powers, lit : Frames, disturbed : SUBSET {"effect", "power"}]

AuraTypeOK ==
  /\ effect \in Effects /\ power \in Powers /\ lit \in Frames
  /\ call \in [Callers -> Calls]
  /\ tally \in [calls : 0 .. MaxCalls, troubles : 0 .. MaxTroubles]
  /\ book \in Books

Init ==
  /\ effect \in [mode : {"static"}, colour : Colours, speed : KnownSpeeds, place : {"here"}]
  /\ power \in Powers
  /\ lit = Frame(effect)
  /\ call = [c \in Callers |-> Free]
  /\ tally = [calls |-> 0, troubles |-> 0]
  /\ book = [effect |-> effect, power |-> power, lit |-> lit, disturbed |-> {}]

-----------------------------------------------------------------------------
(* What a call reads, changes and writes.                                  *)

Record(req) == IF req.op = "power" THEN "power" ELSE "effect"
Current(req) == IF req.op = "power" THEN power ELSE effect

(* The record a call writes: what it was asked for, the rest as it was.    *)
Merged(req, copy) ==
  CASE req.op = "static" -> [copy EXCEPT !.mode = "static", !.colour = req.colour]
    [] req.op = "effect" -> [copy EXCEPT !.mode = req.mode, !.colour = req.colour,
                                         !.speed = req.speed]
    [] req.op = "power" -> [copy EXCEPT ![req.zone] = req.light]

(* The read-back: the colour, the whole effect, or the zone.               *)
Confirms(req, copy) ==
  CASE req.op = "static" -> effect.colour = req.colour
    [] req.op = "effect" -> effect = Merged(req, copy)
    [] req.op = "power" -> power[req.zone] = req.light

(* Mutant: only the zone asked for is sent, and asusd takes the others for *)
(* off.                                                                    *)
WrittenAlone(req, copy) ==
  IF req.op = "power"
  THEN /\ power' = [z \in Reported |-> IF z = req.zone THEN req.light ELSE "off"]
       /\ UNCHANGED <<effect, lit>>
  ELSE /\ effect' = Merged(req, copy)
       /\ lit' = Frame(effect')
       /\ UNCHANGED power

(* asusd executes a setter; an effect is shown as well.                    *)
Written(req, copy) ==
  IF req.op = "power"
  THEN power' = Merged(req, copy) /\ UNCHANGED <<effect, lit>>
  ELSE /\ effect' = Merged(req, copy)
       /\ lit' = Frame(effect')
       /\ UNCHANGED power

Trouble ==
  /\ tally.troubles < MaxTroubles
  /\ tally' = [tally EXCEPT !.troubles = @ + 1]

Goes(c, to) == call' = [call EXCEPT ![c] = to]
Answers(c) == Goes(c, Free)

(* An access fails: the call is answered with an error. Before the setter  *)
(* that means that nothing was written.                                    *)
Fails(c) == Trouble /\ Answers(c) /\ UNCHANGED book

Underway(record) == {c \in Callers : call[c] # Free /\ Record(call[c].req) = record}

-----------------------------------------------------------------------------
(* A call of Hardware1.                                                    *)

Call(c, req) ==
  /\ call[c] = Free
  /\ tally.calls < MaxCalls
  /\ tally' = [tally EXCEPT !.calls = @ + 1]
  /\ Goes(c, [pc |-> "authorizing", req |-> req])
  /\ book' = IF Underway(Record(req)) = {} THEN book
             ELSE [book EXCEPT !.disturbed = @ \cup {Record(req)}]
  /\ UNCHANGED <<asusd, lit>>

(* Granted, or denied.                                                     *)
Authorize(c) ==
  /\ call[c].pc = "authorizing"
  /\ \/ Goes(c, [call[c] EXCEPT !.pc = "reading"])
     \/ Answers(c)
  /\ UNCHANGED <<asusd, lit, tally, book>>

(* The record is read; a zone asusd does not have is refused.              *)
Read(c) ==
  /\ call[c].pc = "reading"
  /\ LET req == call[c].req
         next == IF req.op = "power" THEN "setting" ELSE "listing"
     IN IF req.op = "power" /\ req.zone \notin Reported
        THEN Answers(c) /\ UNCHANGED <<tally, book>>
        ELSE \/ /\ Goes(c, [pc |-> next, req |-> req, copy |-> Current(req)])
                /\ UNCHANGED <<tally, book>>
             \/ Fails(c)
  /\ UNCHANGED <<asusd, lit>>

ModeOf(req) == IF req.op = "static" THEN "static" ELSE req.mode

(* SupportedBasicModes lists the mode, or cannot be read.                  *)
List(c) ==
  /\ call[c].pc = "listing"
  /\ \/ /\ ModeOf(call[c].req) \in Listed
        /\ Goes(c, [call[c] EXCEPT !.pc = "setting"])
        /\ UNCHANGED <<tally, book>>
     \/ Fails(c)
  /\ UNCHANGED <<asusd, lit>>

(* The kernel's route, for an effect with a speed it knows.                *)
ByKernel(req) == req.op = "effect" /\ req.mode \in KernelTakes /\ req.speed \in KnownSpeeds

(* The frame is written, or not.                                           *)
SendFrame(c) ==
  /\ call[c].pc = "listing"
  /\ LET req == call[c].req
     IN /\ ModeOf(req) \notin Listed
        /\ ByKernel(req)
        /\ \/ /\ lit' = Frame(Merged(req, call[c].copy))
              /\ Answers(c)
              /\ book' = [book EXCEPT !.lit = Frame(Merged(req, book.effect))]
              /\ UNCHANGED tally
           \/ Fails(c) /\ UNCHANGED lit
  /\ UNCHANGED asusd

(* Neither asusd nor the kernel takes it.                                  *)
Refuse(c) ==
  /\ call[c].pc = "listing"
  /\ ModeOf(call[c].req) \notin Listed
  /\ ~ByKernel(call[c].req)
  /\ Answers(c)
  /\ UNCHANGED <<asusd, lit, tally, book>>

(* The one setter; when it fails asusd has executed it or not.             *)
Set(c) ==
  /\ call[c].pc = "setting"
  /\ LET req == call[c].req
     IN \/ /\ Written(req, call[c].copy)
           /\ Goes(c, [call[c] EXCEPT !.pc = "checking"])
           /\ UNCHANGED <<tally, book>>
        \/ /\ Trouble
           /\ Answers(c)
           /\ Written(req, call[c].copy) \/ UNCHANGED <<asusd, lit>>
           /\ book' = [book EXCEPT !.disturbed = @ \cup {Record(req)}]

(* Confirmed; a mismatch or a read that fails is an error.                 *)
Check(c) ==
  /\ call[c].pc = "checking"
  /\ Answers(c)
  /\ LET req == call[c].req
     IN \/ /\ Confirms(req, call[c].copy)
           /\ book' = IF req.op = "power"
                      THEN [book EXCEPT !.power = Merged(req, @)]
                      ELSE [book EXCEPT !.effect = Merged(req, @),
                                        !.lit = Frame(Merged(req, book.effect))]
           /\ UNCHANGED tally
        \/ /\ IF Confirms(req, call[c].copy) THEN Trouble ELSE UNCHANGED tally
           /\ book' = [book EXCEPT !.disturbed = @ \cup {Record(req)}]
  /\ UNCHANGED <<asusd, lit>>

(* asusctl, or asusd itself when the keys are pressed.                     *)
Foreign ==
  /\ Trouble
  /\ \/ /\ \E z \in Reported, light \in Lights : power' = [power EXCEPT ![z] = light]
        /\ book' = IF Underway("power") = {} THEN [book EXCEPT !.power = power']
                   ELSE [book EXCEPT !.disturbed = @ \cup {"power"}]
        /\ UNCHANGED <<effect, lit>>
     \/ /\ \E colour \in Colours, place \in Places :
             effect' = [effect EXCEPT !.colour = colour, !.place = place]
        /\ lit' = Frame(effect')
        /\ book' = IF Underway("effect") = {} THEN [book EXCEPT !.effect = effect', !.lit = lit']
                   ELSE [book EXCEPT !.disturbed = @ \cup {"effect"}]
        /\ UNCHANGED power
  /\ UNCHANGED call

-----------------------------------------------------------------------------
Handle(c) ==
  Authorize(c) \/ Read(c) \/ List(c) \/ SendFrame(c) \/ Refuse(c) \/ Set(c) \/ Check(c)

Next ==
  \/ \E c \in Callers : Handle(c) \/ \E req \in Requests : Call(c, req)
  \/ Foreign

Spec == Init /\ [][Next]_auraVars

-----------------------------------------------------------------------------
(* "Replace one zone of LedPower, keeping every other zone", and the same  *)
(* for the effect: with no call under way the records and the keyboard are *)
(* what the calls that were not refused make of them one after the other,  *)
(* whatever calls on the other record came in between and whoever changed  *)
(* a record before. Two calls on one record at a time, a change during a   *)
(* call and a setter that failed may spoil that, and nothing else.         *)
PartsAsAsked ==
  /\ Underway("power") = {} /\ "power" \notin book.disturbed => power = book.power
  /\ Underway("effect") = {} /\ "effect" \notin book.disturbed =>
       effect = book.effect /\ lit = book.lit
=============================================================================
