------------------------- MODULE KeyboardTimeoutProofs -------------------------
(***************************************************************************)
(* The keyboard timeout leaves the light to the person, for any levels,    *)
(* timeouts and bounds. LightKept speaks of the runner at rest; what it    *)
(* may do next depends on the access it is in, so Kept says for each pc    *)
(* what the light and the level the runner holds are then. Capabilities,   *)
(* the other part of MCKeyboardTimeout, follows at the end.                *)
(***************************************************************************)
EXTENDS MCKeyboardTimeout, SequenceTheorems, TLAPS

(* The light is the person's, or off with the person's level in store.     *)
Known(level) == (light = hist.chosen /\ light # 0) \/ (light = 0 /\ level = hist.chosen)

Kept ==
  /\ late = {} /\ runner.pc # "gone"
  /\ runner.pc \in {"top", "select", "stopped", "opening"} =>
       IF runner.dimmed = None THEN light = hist.chosen ELSE Known(runner.dimmed)
  /\ runner.pc = "dimRead" => runner.dimmed = None /\ light = hist.chosen
  /\ runner.pc = "dimWrite" =>
       runner.dimmed = None /\ light = hist.chosen /\ light # 0 /\ runner.held = light
  /\ runner.pc \in {"dimCheck", "restoreRead"} => runner.dimmed = None /\ Known(runner.held)
  /\ runner.pc = "restoreWrite" =>
       runner.dimmed = None /\ light = 0 /\ runner.held = hist.chosen

(* What was read before switching off was not "off".                       *)
HeldOn ==
  runner.pc \in {"dimWrite", "dimCheck", "restoreRead", "restoreWrite"} => runner.held # 0

Inv == TypeOK /\ HeldOn /\ (hist.clean => Kept)

USE DEF None

-----------------------------------------------------------------------------
(* Types.                                                                  *)

Runners == [pc : Pcs, after : {"top", "opening", "stopped"},
            held : Levels, dimmed : (Levels \ {0}) \cup {None},
            timeout : Timeouts \cup {None}, target : Timeouts \cup {None}]
Watches == [state : {"none", "open", "lost"}, told : BOOLEAN, events : Seq({"Idle", "Resumed"})]
Uses == [presses : 0 .. MaxPresses, switches : 0 .. MaxSwitches,
         idles : 0 .. MaxIdles, faults : 0 .. MaxFaults]
Histories == [chosen : Levels, clean : BOOLEAN]

LEMMA LevelsType == Levels = 0 .. MaxLevel /\ 0 \in Levels /\ None \notin Levels
BY LevelAssumption DEF Levels

LEMMA SpendType ==
  ASSUME TypeOK, \/ Spend("presses", MaxPresses) \/ Spend("switches", MaxSwitches)
                 \/ Spend("idles", MaxIdles) \/ Spend("faults", MaxFaults)
  PROVE  used' \in Uses
<1> used \in Uses
  BY DEF TypeOK, Uses
<1>1. CASE Spend("presses", MaxPresses)
  BY <1>1, BoundsAssumption DEF Spend, Uses
<1>2. CASE Spend("switches", MaxSwitches)
  BY <1>2, BoundsAssumption DEF Spend, Uses
<1>3. CASE Spend("idles", MaxIdles)
  BY <1>3, BoundsAssumption DEF Spend, Uses
<1>4. CASE Spend("faults", MaxFaults)
  BY <1>4, BoundsAssumption DEF Spend, Uses
<1> QED
  BY <1>1, <1>2, <1>3, <1>4

LEMMA FaultType ==
  ASSUME TypeOK, Fault
  PROVE  used' \in Uses /\ hist' \in Histories /\ ~hist'.clean
<1>1. used' \in Uses
  BY SpendType DEF Fault
<1>2. hist \in Histories
  BY DEF TypeOK, Histories
<1>3. hist' = [hist EXCEPT !.clean = FALSE]
  BY DEF Fault
<1>4. hist' \in Histories /\ ~hist'.clean
  BY <1>2, <1>3 DEF Histories
<1> QED
  BY <1>1, <1>4

LEMMA WantedType == ASSUME TypeOK PROVE Wanted \in Timeouts \cup {None}
BY DEF TypeOK, Wanted, Sources

(* restore() takes the saved level, and leaves the runner typed.           *)
LEMMA RestoringIs ==
  ASSUME NEW r \in Runners, NEW after \in {"top", "opening", "stopped"}
  PROVE  /\ Restoring(r, after) \in Runners
         /\ r.dimmed = None => /\ Restoring(r, after).pc = after
                               /\ Restoring(r, after).dimmed = None
         /\ r.dimmed # None => /\ Restoring(r, after).pc = "restoreRead"
                               /\ Restoring(r, after).dimmed = None
                               /\ Restoring(r, after).held = r.dimmed
BY LevelsType DEF Runners, Restoring, Pcs

LEMMA GoesIs ==
  ASSUME TypeOK, NEW pc \in Pcs, Goes(pc)
  PROVE  /\ runner' \in Runners /\ runner'.pc = pc
         /\ runner'.dimmed = runner.dimmed /\ runner'.held = runner.held
BY DEF TypeOK, Goes, Runners

(* TypeOK with its sets by name.                                           *)
Outside ==
  /\ settings \in [Sources -> Timeouts \cup {None, 0}]
  /\ ac \in Sources \cup {"unknown"}
  /\ person \in {"active", "idle"}
  /\ quit \in BOOLEAN
Typed ==
  /\ light \in Levels /\ late \subseteq Levels
  /\ Outside
  /\ watch \in Watches
  /\ runner \in Runners
  /\ used \in Uses
  /\ hist \in Histories

LEMMA TypedIs == (TypeOK <=> Typed) /\ (TypeOK' <=> Typed')
BY DEF TypeOK, Typed, Outside, Watches, Runners, Uses, Histories

-----------------------------------------------------------------------------
(* Each action keeps the types.                                            *)

LEMMA WatchTypes ==
  ASSUME watch \in Watches
  PROVE  /\ NoWatch \in Watches
         /\ [NoWatch EXCEPT !.state = "open"] \in Watches
         /\ [watch EXCEPT !.state = "lost", !.told = FALSE] \in Watches
         /\ [watch EXCEPT !.told = TRUE, !.events = Append(@, "Idle")] \in Watches
         /\ [watch EXCEPT !.told = FALSE, !.events = Append(@, "Resumed")] \in Watches
         /\ watch.events # <<>> => /\ [watch EXCEPT !.events = Tail(@)] \in Watches
                                   /\ Head(watch.events) \in {"Idle", "Resumed"}
<1> DEFINE E == {"Idle", "Resumed"}
<1>1. watch.events \in Seq(E)
  BY DEF Watches
<1>2. Append(watch.events, "Idle") \in Seq(E) /\ Append(watch.events, "Resumed") \in Seq(E)
  BY <1>1
<1>3. watch.events # <<>> => Tail(watch.events) \in Seq(E) /\ Head(watch.events) \in E
  BY <1>1
<1>4. <<>> \in Seq(E)
  OBVIOUS
<1> QED
  BY <1>1, <1>2, <1>3, <1>4 DEF Watches, NoWatch

LEMMA PressTypes == Typed /\ Press => Typed'
<1> SUFFICES ASSUME Typed, Press PROVE Typed'
  OBVIOUS
<1>1. used' \in Uses
  BY SpendType, TypedIs DEF Press
<1>2. light' \in Levels /\ hist' \in Histories
  BY DEF Press, Typed, Histories
<1> QED
  BY <1>1, <1>2 DEF Press, device, inputs, Typed, Outside

LEMMA OutsideTypes ==
  Typed /\ (GoesIdle \/ SettingsSaved \/ SourceReported \/ Quit) => Typed'
<1> SUFFICES ASSUME Typed, GoesIdle \/ SettingsSaved \/ SourceReported \/ Quit PROVE Typed'
  OBVIOUS
<1>1. used' \in Uses
  BY SpendType, TypedIs DEF GoesIdle, SettingsSaved, SourceReported, Quit, Typed
<1>2. Outside'
  BY DEF GoesIdle, SettingsSaved, SourceReported, Quit, Typed, Outside, inputs
<1> QED
  BY <1>1, <1>2 DEF GoesIdle, SettingsSaved, SourceReported, Quit, Typed, device, inputs

LEMMA WatchingTypes == Typed /\ (Notify \/ Input \/ WatchBreaks) => Typed'
<1> SUFFICES ASSUME Typed, Notify \/ Input \/ WatchBreaks PROVE Typed'
  OBVIOUS
<1>1. watch' \in Watches
  BY WatchTypes DEF Typed, Notify, Input, WatchBreaks
<1>2. used' \in Uses /\ hist' \in Histories
  BY FaultType, TypedIs DEF Typed, Notify, Input, WatchBreaks
<1>3. Outside'
  BY DEF Typed, Outside, Notify, Input, WatchBreaks, inputs
<1> QED
  BY <1>1, <1>2, <1>3 DEF Typed, Notify, Input, WatchBreaks, device

(* What the runner does between its accesses: it goes on, or restores.     *)
LEMMA LookTypes == Typed /\ Look => Typed'
<1> SUFFICES ASSUME Typed, Look PROVE Typed'
  OBVIOUS
<1>1. [runner EXCEPT !.target = Wanted] \in Runners
  BY WantedType, TypedIs DEF Typed, Runners
<1>2. runner' \in Runners
  BY <1>1, RestoringIs, GoesIs, TypedIs DEF Look, Pcs
<1>3. watch' \in Watches
  BY WatchTypes DEF Look, Typed
<1> QED
  BY <1>2, <1>3 DEF Look, Typed, Outside, device, inputs

LEMMA OpenTypes == Typed /\ Open => Typed'
<1> SUFFICES ASSUME Typed, Open PROVE Typed'
  OBVIOUS
<1>1. runner' \in Runners
  BY DEF Open, Typed, Runners, Pcs
<1>2. watch' \in Watches
  BY WatchTypes DEF Open, Typed
<1>3. used' \in Uses /\ hist' \in Histories
  BY FaultType, TypedIs DEF Typed, Open
<1> QED
  BY <1>1, <1>2, <1>3 DEF Open, Typed, Outside, device, inputs

LEMMA SelectTypes == Typed /\ (Changed \/ TakeEvent \/ TakeEnd \/ TakeQuit) => Typed'
<1> SUFFICES ASSUME Typed, Changed \/ TakeEvent \/ TakeEnd \/ TakeQuit PROVE Typed'
  OBVIOUS
<1>1. runner' \in Runners
  <2>1. CASE Changed
    BY <2>1, GoesIs, TypedIs DEF Changed, Pcs
  <2>2. CASE TakeEnd
    BY <2>2, GoesIs, TypedIs DEF TakeEnd, Pcs
  <2>3. CASE TakeQuit
    BY <2>3, RestoringIs DEF TakeQuit, Typed
  <2>4. CASE TakeEvent
    <3>1. Restoring(runner, "top") \in Runners
      BY RestoringIs DEF Typed
    <3>2. [runner EXCEPT !.pc = IF runner.dimmed = None THEN "dimRead" ELSE "top"] \in Runners
      BY DEF Typed, Runners, Pcs
    <3> QED BY <2>4, <3>1, <3>2 DEF TakeEvent
  <2> QED BY <2>1, <2>2, <2>3, <2>4
<1>2. watch' \in Watches
  BY WatchTypes DEF Changed, TakeEvent, TakeEnd, TakeQuit, Typed
<1> QED
  BY <1>1, <1>2 DEF Changed, TakeEvent, TakeEnd, TakeQuit, Typed, Outside, device, inputs

LEMMA EndsIs ==
  ASSUME Typed, Ends
  PROVE  /\ runner' \in Runners /\ runner'.pc = runner.after
         /\ runner'.pc \in {"top", "opening", "stopped"}
         /\ runner'.dimmed = runner.dimmed /\ runner'.held = runner.held
BY GoesIs, TypedIs DEF Ends, Typed, Runners, Pcs

(* A write leaves the light at its old level or at the one written.        *)
LEMMA WriteTypes ==
  ASSUME Typed, NEW v \in Levels, WriteFails(v) \/ (Written(v) /\ UNCHANGED <<used, hist>>)
  PROVE  /\ light' \in Levels /\ late' \subseteq Levels
         /\ used' \in Uses /\ hist' \in Histories
BY FaultType, TypedIs DEF WriteFails, Written, device, Typed

LEMMA AccessTypes == Typed /\ HeldOn /\ Access => Typed'
<1> SUFFICES ASSUME Typed, HeldOn, Access PROVE Typed'
  OBVIOUS
<1> USE DEF device, inputs
<1>1. CASE DimRead
  <2>1. used' \in Uses /\ hist' \in Histories
    BY <1>1, FaultType, TypedIs DEF DimRead, Typed
  <2>2. runner' \in Runners
    <3>1. [runner EXCEPT !.pc = IF light = 0 THEN "top" ELSE "dimWrite", !.held = light]
            \in Runners
      BY DEF Typed, Runners, Pcs
    <3> QED BY <1>1, <3>1, GoesIs, TypedIs DEF DimRead, Pcs
  <2> QED BY <1>1, <2>1, <2>2 DEF DimRead, Typed, Outside
<1>2. CASE DimWrite
  <2>1. light' \in Levels /\ late' \subseteq Levels /\ used' \in Uses /\ hist' \in Histories
    BY <1>2, WriteTypes, LevelsType DEF DimWrite
  <2>2. runner' \in Runners
    BY <1>2, GoesIs, TypedIs DEF DimWrite, Pcs
  <2> QED BY <1>2, <2>1, <2>2 DEF DimWrite, Typed, Outside
<1>3. CASE DimCheck
  <2>1. used' \in Uses /\ hist' \in Histories
    BY <1>3, FaultType, TypedIs DEF DimCheck, Typed
  <2>2. runner' \in Runners
    <3>1. [runner EXCEPT !.pc = "top", !.dimmed = None] \in Runners
      BY DEF Typed, Runners, Pcs
    <3>2. [runner EXCEPT !.pc = "top", !.dimmed = runner.held] \in Runners
      BY <1>3 DEF DimCheck, HeldOn, Typed, Runners, Pcs
    <3> QED BY <1>3, <3>1, <3>2, GoesIs, TypedIs DEF DimCheck, Pcs
  <2> QED BY <1>3, <2>1, <2>2 DEF DimCheck, Typed, Outside
<1>4. CASE RestoreRead
  <2>1. used' \in Uses /\ hist' \in Histories
    BY <1>4, FaultType, TypedIs DEF RestoreRead, Typed
  <2>2. runner' \in Runners
    BY <1>4, GoesIs, EndsIs, TypedIs DEF RestoreRead, Pcs
  <2> QED BY <1>4, <2>1, <2>2 DEF RestoreRead, Typed, Outside
<1>5. CASE RestoreWrite
  <2>1. light' \in Levels /\ late' \subseteq Levels /\ used' \in Uses /\ hist' \in Histories
    BY <1>5, WriteTypes DEF RestoreWrite, Typed, Runners
  <2>2. runner' \in Runners
    BY <1>5, EndsIs DEF RestoreWrite
  <2> QED BY <1>5, <2>1, <2>2 DEF RestoreWrite, Typed, Outside
<1> QED
  BY <1>1, <1>2, <1>3, <1>4, <1>5 DEF Access

LEMMA TypesNext == TypeOK /\ HeldOn /\ [Next]_vars => TypeOK'
<1> SUFFICES ASSUME Typed, HeldOn, [Next]_vars PROVE Typed'
  BY TypedIs
<1>1. CASE Press \/ GoesIdle \/ Notify \/ Input \/ WatchBreaks \/ SettingsSaved
           \/ SourceReported \/ Quit
  BY <1>1, PressTypes, OutsideTypes, WatchingTypes
<1>2. CASE Look \/ Open \/ Access \/ Select \/ TakeQuit
  BY <1>2, LookTypes, OpenTypes, SelectTypes, AccessTypes DEF Select
<1>3. CASE LateWrite
  BY <1>3 DEF LateWrite, inputs, Typed, Outside
<1>4. CASE Kill
  BY <1>4, FaultType, GoesIs, TypedIs DEF Kill, device, inputs, Typed, Outside, Pcs
<1>5. CASE UNCHANGED vars
  BY <1>5 DEF vars, Typed, Outside
<1> QED
  BY <1>1, <1>2, <1>3, <1>4, <1>5 DEF Next, Run

-----------------------------------------------------------------------------
(* The light is the person's.                                              *)

LEMMA HeldOnNext == TypeOK /\ HeldOn /\ [Next]_vars => HeldOn'
<1> SUFFICES ASSUME Typed, TypeOK, HeldOn, [Next]_vars PROVE HeldOn'
  BY TypedIs
<1> DEFINE calm == {"top", "select", "opening", "dimRead", "stopped", "gone"}
<1>1. CASE Press \/ GoesIdle \/ Notify \/ Input \/ WatchBreaks \/ SettingsSaved
           \/ SourceReported \/ Quit \/ LateWrite \/ UNCHANGED vars
  <2>1. runner' = runner
    BY <1>1 DEF Press, GoesIdle, Notify, Input, WatchBreaks, SettingsSaved, SourceReported,
                Quit, LateWrite, vars
  <2> QED BY <2>1 DEF HeldOn
<1>2. CASE Look
  <2>1. [runner EXCEPT !.target = Wanted] \in Runners
    BY WantedType DEF Typed, Runners
  <2>2. Goes("select") => HeldOn'
    BY GoesIs DEF HeldOn, Pcs
  <2> QED BY <1>2, <2>1, <2>2, RestoringIs DEF Look, HeldOn, Runners
<1>3. CASE TakeEvent \/ TakeQuit
  <2>1. [runner EXCEPT !.pc = IF runner.dimmed = None THEN "dimRead" ELSE "top"].pc \in calm
    BY DEF Typed, Runners
  <2> QED BY <1>3, <2>1, RestoringIs DEF TakeEvent, TakeQuit, HeldOn, Typed, Runners
<1>4. CASE Open \/ Changed \/ TakeEnd \/ Kill
  BY <1>4, GoesIs DEF Open, Changed, TakeEnd, Kill, HeldOn, Typed, Runners, Pcs
<1>5. CASE DimRead
  BY <1>5, GoesIs DEF DimRead, HeldOn, Typed, Runners, Pcs
<1>6. CASE DimWrite \/ RestoreRead
  BY <1>6, GoesIs, EndsIs DEF DimWrite, RestoreRead, HeldOn, Pcs
<1>7. CASE DimCheck
  BY <1>7, GoesIs DEF DimCheck, HeldOn, Typed, Runners, Pcs
<1>8. CASE RestoreWrite
  BY <1>8, EndsIs DEF RestoreWrite, HeldOn
<1> QED
  BY <1>1, <1>2, <1>3, <1>4, <1>5, <1>6, <1>7, <1>8 DEF Next, Run, Select, Access

(* A fault ends the run that is spoken of.                                 *)
LEMMA FaultEnds == TypeOK /\ Fault => ~hist'.clean
BY FaultType

LEMMA PressKeeps == Typed /\ (hist.clean => Kept) /\ Press => (hist'.clean => Kept')
<1> SUFFICES ASSUME Typed, hist.clean => Kept, Press, hist'.clean PROVE Kept'
  OBVIOUS
<1>1. PICK v \in Levels \ {light} :
        /\ light' = v
        /\ hist' = [chosen |-> v,
                    clean |-> /\ hist.clean
                              /\ runner.pc \notin {"dimWrite", "restoreWrite"}
                              /\ v # 0 \/ ~SwitchedOff]
  BY DEF Press
<1>2. /\ hist.clean /\ Kept /\ light' = hist'.chosen
      /\ runner.pc \notin {"dimWrite", "restoreWrite"}
      /\ light' # 0 \/ ~SwitchedOff
  BY <1>1
<1>3. late' = late /\ runner' = runner
  BY DEF Press
<1> QED
  BY <1>2, <1>3 DEF Kept, Known, SwitchedOff

LEMMA ApartKeeps ==
  (hist.clean => Kept) /\ UNCHANGED <<device, runner, hist>> => (hist'.clean => Kept')
BY DEF device, Kept, Known

(* Taking the saved level to restore keeps what is known of the light.     *)
LEMMA RestoringKeeps ==
  ASSUME NEW r \in Runners, NEW after \in {"top", "opening", "stopped"},
         Kept, runner.pc \in {"top", "select"}, r.dimmed = runner.dimmed,
         UNCHANGED <<device, hist>>, runner' = Restoring(r, after)
  PROVE  Kept'
BY RestoringIs DEF Kept, Known, device

LEMMA LoopKeeps ==
  ASSUME Typed, hist.clean => Kept,
         Look \/ Open \/ Changed \/ TakeEvent \/ TakeEnd \/ TakeQuit, hist'.clean
  PROVE  Kept'
<1>1. hist' = hist /\ UNCHANGED device /\ Kept
  <2>1. CASE Open
    BY <2>1, FaultEnds, TypedIs DEF Open
  <2> QED BY <2>1 DEF Look, Changed, TakeEvent, TakeEnd, TakeQuit
<1>2. CASE Look
  <2> DEFINE r == [runner EXCEPT !.target = Wanted]
  <2>1. r \in Runners /\ r.dimmed = runner.dimmed
    BY WantedType, TypedIs DEF Typed, Runners
  <2>2. CASE Goes("select")
    BY <1>1, <1>2, <2>2, GoesIs, TypedIs DEF Look, Kept, Known, device, Pcs
  <2>3. CASE runner' = Restoring(r, "opening")
    <3> HIDE DEF r
    <3> QED BY <1>1, <1>2, <2>1, <2>3, RestoringKeeps DEF Look
  <2> QED BY <1>2, <2>2, <2>3 DEF Look
<1>3. CASE Open
  <2>1. runner.pc = "opening" /\ runner'.pc = "top" /\ runner'.dimmed = runner.dimmed
    BY <1>3 DEF Open, Typed, Runners
  <2> QED BY <1>1, <2>1 DEF Kept, Known, device
<1>4. CASE Changed \/ TakeEnd
  BY <1>1, <1>4, GoesIs, TypedIs DEF Changed, TakeEnd, Kept, Known, device, Pcs
<1>5. CASE TakeQuit
  BY <1>1, <1>5, RestoringKeeps DEF TakeQuit, Typed
<1>6. CASE TakeEvent
  <2>1. CASE runner' = Restoring(runner, "top")
    BY <1>1, <1>6, <2>1, RestoringKeeps DEF TakeEvent, Typed
  <2>2. CASE runner' = [runner EXCEPT !.pc = IF runner.dimmed = None THEN "dimRead" ELSE "top"]
    <3>1. /\ runner.pc = "select" /\ runner'.dimmed = runner.dimmed
          /\ runner'.pc = IF runner.dimmed = None THEN "dimRead" ELSE "top"
      BY <1>6, <2>2 DEF TakeEvent, Typed, Runners
    <3> QED BY <1>1, <3>1 DEF Kept, Known, device
  <2> QED BY <1>6, <2>1, <2>2 DEF TakeEvent
<1> QED
  BY <1>2, <1>3, <1>4, <1>5, <1>6

(* An access that ends without a fault leaves the light known.             *)
LEMMA AccessKeeps ==
  ASSUME Typed, hist.clean => Kept, Access, hist'.clean
  PROVE  Kept'
<1> USE DEF device
<1>1. hist' = hist /\ Kept
  BY FaultEnds, TypedIs DEF Access, DimRead, DimWrite, DimCheck, RestoreRead, RestoreWrite,
                            WriteFails
<1>2. CASE DimRead
  <2>1. /\ runner.pc = "dimRead" /\ runner'.dimmed = runner.dimmed /\ UNCHANGED device
        /\ \/ runner'.pc = "top"
           \/ light # 0 /\ runner'.pc = "dimWrite" /\ runner'.held = light
    BY <1>2, FaultEnds, TypedIs DEF DimRead, Typed, Runners
  <2> QED BY <1>1, <2>1 DEF Kept, Known
<1>3. CASE DimWrite
  <2>1. /\ runner.pc = "dimWrite" /\ Written(0) /\ runner'.pc = "dimCheck"
        /\ runner'.dimmed = runner.dimmed /\ runner'.held = runner.held
    BY <1>3, FaultEnds, GoesIs, TypedIs DEF DimWrite, WriteFails, Pcs
  <2> QED BY <1>1, <2>1 DEF Kept, Known, Written
<1>4. CASE DimCheck
  <2>1. /\ runner.pc = "dimCheck" /\ runner'.pc = "top" /\ UNCHANGED device
        /\ runner'.dimmed = IF light = 0 THEN runner.held ELSE None
    BY <1>4, FaultEnds, TypedIs DEF DimCheck, Typed, Runners
  <2>2. runner.held # None
    BY LevelsType DEF Typed, Runners
  <2> QED BY <1>1, <2>1, <2>2 DEF Kept, Known
<1>5. CASE RestoreRead
  <2>1. /\ runner.pc = "restoreRead" /\ UNCHANGED device
        /\ runner'.dimmed = runner.dimmed /\ runner'.held = runner.held
        /\ IF light = 0 THEN runner'.pc = "restoreWrite"
                        ELSE runner'.pc \in {"top", "opening", "stopped"}
    BY <1>5, FaultEnds, GoesIs, EndsIs, TypedIs DEF RestoreRead, Pcs
  <2> QED BY <1>1, <2>1 DEF Kept, Known
<1>6. CASE RestoreWrite
  <2>1. /\ runner.pc = "restoreWrite" /\ Written(runner.held)
        /\ runner'.dimmed = runner.dimmed
        /\ runner'.pc \in {"top", "opening", "stopped"}
    BY <1>6, FaultEnds, EndsIs, TypedIs DEF RestoreWrite, WriteFails
  <2> QED BY <1>1, <2>1 DEF Kept, Known, Written
<1> QED
  BY <1>2, <1>3, <1>4, <1>5, <1>6 DEF Access

LEMMA KeptNext ==
  ASSUME TypeOK, hist.clean => Kept, [Next]_vars
  PROVE  hist'.clean => Kept'
<1> Typed
  BY TypedIs
<1>1. CASE Press
  BY <1>1, PressKeeps
<1>2. CASE GoesIdle \/ Notify \/ Input \/ SettingsSaved \/ SourceReported \/ Quit
           \/ UNCHANGED vars
  <2>1. UNCHANGED <<device, runner, hist>>
    BY <1>2 DEF GoesIdle, Notify, Input, SettingsSaved, SourceReported, Quit, vars, device
  <2> QED BY <2>1, ApartKeeps
<1>3. CASE WatchBreaks \/ Kill
  BY <1>3, FaultEnds DEF WatchBreaks, Kill
<1>4. CASE Look \/ Open \/ Select \/ TakeQuit
  BY <1>4, LoopKeeps DEF Select
<1>5. CASE Access
  BY <1>5, AccessKeeps
<1>6. CASE LateWrite
  BY <1>6 DEF LateWrite, Kept
<1> QED
  BY <1>1, <1>2, <1>3, <1>4, <1>5, <1>6 DEF Next, Run

-----------------------------------------------------------------------------
LEMMA InitInv == Init => Inv
<1> SUFFICES ASSUME Init PROVE Inv
  OBVIOUS
<1>1. Typed
  <2>1. used \in Uses
    BY BoundsAssumption DEF Init, Uses
  <2>2. watch \in Watches
    BY DEF Init, NoWatch, Watches
  <2>3. runner \in Runners
    BY LevelsType DEF Init, Runners, Pcs
  <2>4. hist \in Histories
    BY DEF Init, Histories
  <2>5. /\ light \in Levels /\ late \subseteq Levels
        /\ Outside
    BY DEF Init, Outside
  <2> QED BY <2>1, <2>2, <2>3, <2>4, <2>5 DEF Typed
<1>2. HeldOn /\ Kept
  BY <1>1 DEF Init, HeldOn, Kept, Known
<1> QED BY <1>1, <1>2, TypedIs DEF Inv

LEMMA AlwaysInv == Spec => []Inv
<1>1. Inv /\ [Next]_vars => Inv'
  BY TypesNext, HeldOnNext, KeptNext DEF Inv
<1> QED BY InitInv, <1>1, PTL DEF Spec

(* Every reachable state has its type, for any levels and timeouts.        *)
THEOREM TypeCorrect == Spec => []TypeOK
<1>1. Inv => TypeOK
  BY DEF Inv
<1> QED BY <1>1, AlwaysInv, PTL

(* The runner at rest leaves the light at what the person chose last, or   *)
(* has switched it off and knows what to put back (dim, restore).          *)
THEOREM LightIsThePersons == Spec => []LightKept
<1>1. Inv => LightKept
  BY DEF Inv, Kept, Known, LightKept, AtRest
<1> QED BY <1>1, AlwaysInv, PTL

-----------------------------------------------------------------------------
(* The gates of the capability registry.                                   *)

Registry(i) == events[i].kind = "registry"
NoneAfter(i) == \A j \in 1 .. Len(events) : j > i => ~Registry(j)

GateShapes ==
  /\ refresh.next \in 0 .. 9 /\ refresh = [next |-> refresh.next, proven |-> refresh.proven]
  /\ ahead \in Nat /\ events \in Seq(Gates!Events)
  /\ window = [open |-> window.open, reset |-> window.reset]

(* Each registry to come is newer than the one before.                     *)
NewerComes ==
  /\ \A i \in 1 .. Len(events) : Registry(i) => events[i].ahead \in 1 .. ahead
  /\ \A i, j \in 1 .. Len(events) :
       i < j /\ Registry(i) /\ Registry(j) => events[i].ahead < events[j].ahead

(* What Followed asks of the open controls.                                *)
FollowedBy(open) ==
  \A feature \in Gates!Features :
    \/ feature = "performance" /\ Gates!Orphaned
    \/ feature \in open <=> Gates!Works(feature) /\ Gates!Readable(feature)

(* A refresh nothing disturbed has proven what is so; once it is done, the *)
(* last registry to come, or the window, follows it, and the charge limit  *)
(* is closed behind it only when it cannot be read.                        *)
ProvenIsSo ==
  steady = TRUE /\ refresh.next # 0 =>
    \A k \in 1 .. 8 :
      Gates!Questions[k] \in refresh.proven <=> k < refresh.next /\ Gates!Proves(Gates!Questions[k])
LastIsFollowed ==
  steady = TRUE /\ refresh.next = 0 =>
    /\ \A i \in 1 .. Len(events) :
         NoneAfter(i) /\ Registry(i) => FollowedBy(events[i].open)
    /\ NoneAfter(0) => FollowedBy(window.open)
    /\ \A i \in 1 .. Len(events) :
         NoneAfter(i) /\ events[i].kind = "charge failed" => ~world.sessiond

ResetIsOpen == window.reset => "fan" \in window.open

GateInv == GateShapes /\ NewerComes /\ ProvenIsSo /\ LastIsFollowed /\ ResetIsOpen

LEMMA GatePromise == GateInv => GatesAreTrue
<1> SUFFICES ASSUME GateInv PROVE GatesAreTrue
  OBVIOUS
<1>1. ASSUME refresh.next = 0, events = <<>>, steady PROVE Gates!Followed
  <2>1. steady = TRUE /\ NoneAfter(0)
    BY <1>1 DEF NoneAfter
  <2> QED BY <1>1, <2>1 DEF GateInv, LastIsFollowed, FollowedBy, Gates!Followed
<1> QED BY <1>1 DEF GateInv, ResetIsOpen, GatesAreTrue, Gates!GatesAreTrue

LEMMA GateInitInv == Gates!Init => GateInv
<1> SUFFICES ASSUME Gates!Init PROVE GateInv
  OBVIOUS
<1>1. events = <<>> /\ Len(events) = 0 /\ events \in Seq(Gates!Events)
  BY DEF Gates!Init
<1> QED BY <1>1 DEF Gates!Init, Gates!Idle, GateInv, GateShapes, NewerComes, ProvenIsSo,
                    LastIsFollowed, ResetIsOpen

(* The evidence of a whole refresh opens what works and can be read.       *)
LEMMA OpenedIsFollowed ==
  ASSUME \A k \in 1 .. 8 :
           Gates!Questions[k] \in refresh.proven <=> Gates!Proves(Gates!Questions[k])
  PROVE  FollowedBy(Gates!Opened(refresh.proven))
<1>1. \A q \in {"set fan", "set charge", "set performance", "set limits", "get performance",
                "get charge", "get cpu curve", "get gpu curve"} :
        q \in refresh.proven <=> Gates!Proves(q)
  <2>1. /\ Gates!Questions[1] = "set fan" /\ Gates!Questions[2] = "set charge"
        /\ Gates!Questions[3] = "set performance" /\ Gates!Questions[4] = "set limits"
        /\ Gates!Questions[5] = "get performance" /\ Gates!Questions[6] = "get charge"
        /\ Gates!Questions[7] = "get cpu curve" /\ Gates!Questions[8] = "get gpu curve"
    BY DEF Gates!Questions
  <2>2. \A k \in {1, 2, 3, 4, 5, 6, 7, 8} :
          Gates!Questions[k] \in refresh.proven <=> Gates!Proves(Gates!Questions[k])
    OBVIOUS
  <2> HIDE DEF Gates!Questions, Gates!Proves
  <2> QED BY <2>1, <2>2
<1>2. \A f \in Gates!Features : f \in Gates!Opened(refresh.proven) <=> Gates!Needs(f) \subseteq refresh.proven
  BY DEF Gates!Opened
<1>3. /\ Gates!Needs("performance") \subseteq refresh.proven <=>
           Gates!Proves("set performance") /\ Gates!Proves("get performance")
      /\ Gates!Needs("charge") \subseteq refresh.proven <=>
           Gates!Proves("set charge") /\ Gates!Proves("get charge")
      /\ Gates!Needs("fan") \subseteq refresh.proven <=>
           Gates!Proves("set fan") /\ Gates!Proves("get cpu curve") /\ Gates!Proves("get gpu curve")
      /\ Gates!Needs("limits") \subseteq refresh.proven <=> Gates!Proves("set limits")
  BY <1>1 DEF Gates!Needs
<1>4. ASSUME NEW f \in Gates!Features, f # "performance"
      PROVE  Gates!Needs(f) \subseteq refresh.proven <=> Gates!Works(f) /\ Gates!Readable(f)
  BY <1>3, <1>4 DEF Gates!Features, Gates!Proves, Gates!Works, Gates!Readable,
                    Gates!Hardware1Battery
<1>5. ~Gates!Orphaned =>
        (Gates!Needs("performance") \subseteq refresh.proven <=>
           Gates!Works("performance") /\ Gates!Readable("performance"))
  BY <1>3 DEF Gates!Proves, Gates!Works, Gates!Readable, Gates!Orphaned,
              Gates!PerformanceEvidence, Gates!Hardware1Performance, Gates!Hardware1Battery
<1> QED BY <1>2, <1>4, <1>5 DEF FollowedBy

(* The world and what works in it stay.                                    *)
LEMMA FollowedStays ==
  ASSUME UNCHANGED <<world, delegated>>, NEW open, FollowedBy(open)
  PROVE  \A feature \in Gates!Features :
           \/ feature = "performance" /\ Gates!Orphaned'
           \/ feature \in open <=> Gates!Works(feature)' /\ Gates!Readable(feature)'
BY DEF FollowedBy, Gates!Orphaned, Gates!Works, Gates!Readable, Gates!Hardware1Performance,
       Gates!Hardware1Battery

(* The questions are eight, and no two the same.                           *)
LEMMA QuestionsAre ==
  /\ Len(Gates!Questions) = 8 /\ DOMAIN Gates!Questions = 1 .. 8
  /\ \A i, j \in 1 .. 8 : Gates!Questions[i] = Gates!Questions[j] => i = j
<1>1. Len(Gates!Questions) = 8 /\ DOMAIN Gates!Questions = 1 .. 8
  BY DEF Gates!Questions
<1>2. \A i \in 1 .. 8 : i \in {1, 2, 3, 4, 5, 6, 7, 8}
  OBVIOUS
<1>3. /\ Gates!Questions[1] = "set fan" /\ Gates!Questions[2] = "set charge"
      /\ Gates!Questions[3] = "set performance" /\ Gates!Questions[4] = "set limits"
      /\ Gates!Questions[5] = "get performance" /\ Gates!Questions[6] = "get charge"
      /\ Gates!Questions[7] = "get cpu curve" /\ Gates!Questions[8] = "get gpu curve"
  BY DEF Gates!Questions
<1>4. ASSUME NEW i \in {1, 2, 3, 4, 5, 6, 7, 8}, NEW j \in {1, 2, 3, 4, 5, 6, 7, 8}, i # j
      PROVE  Gates!Questions[i] # Gates!Questions[j]
  <2>1. CASE i = 1
    BY <1>3, <1>4, <2>1
  <2>2. CASE i = 2
    BY <1>3, <1>4, <2>2
  <2>3. CASE i = 3
    BY <1>3, <1>4, <2>3
  <2>4. CASE i = 4
    BY <1>3, <1>4, <2>4
  <2>5. CASE i = 5
    BY <1>3, <1>4, <2>5
  <2>6. CASE i = 6
    BY <1>3, <1>4, <2>6
  <2>7. CASE i = 7
    BY <1>3, <1>4, <2>7
  <2>8. CASE i = 8
    BY <1>3, <1>4, <2>8
  <2> QED BY <2>1, <2>2, <2>3, <2>4, <2>5, <2>6, <2>7, <2>8
<1> QED BY <1>1, <1>2, <1>4

(* The element behind, in range.                                           *)
LEMMA Behind ==
  ASSUME NEW n \in Nat, NEW i \in Int
  PROVE  /\ i \in 1 .. n - 1 => i + 1 \in 1 .. n /\ i + 1 \in 2 .. n /\ i \in 0 .. n - 1
         /\ i \in 2 .. n => i \in 1 .. n /\ 1 < i
OBVIOUS

LEMMA OneIs == ASSUME NEW x PROVE Append(<<>>, x) = <<x>>
OBVIOUS

(* One more event.                                                         *)
LEMMA OneMore ==
  ASSUME GateShapes, NEW e \in Gates!Events, events' = Append(events, e)
  PROVE  /\ events' \in Seq(Gates!Events) /\ Len(events) \in Nat
         /\ Len(events') = Len(events) + 1 /\ events'[Len(events) + 1] = e
         /\ \A i \in 1 .. Len(events) : events'[i] = events[i]
BY DEF GateShapes

LEMMA EventIs ==
  ASSUME GateShapes, NEW i \in 1 .. Len(events)
  PROVE  /\ events[i] \in Gates!Events
         /\ Registry(i) => events[i] = [kind |-> "registry", ahead |-> events[i].ahead,
                                        open |-> events[i].open]
                           /\ events[i].ahead \in Nat /\ events[i].open \in SUBSET Gates!Features
         /\ events[i].kind \in {"registry", "registry failed", "charge failed"}
<1>1. events \in Seq(Gates!Events)
  BY DEF GateShapes
<1>2. events[i] \in Gates!Events
  BY <1>1
<1>3. ASSUME NEW e \in Gates!Events
      PROVE  /\ e.kind = "registry" => e = [kind |-> "registry", ahead |-> e.ahead, open |-> e.open]
                                       /\ e.ahead \in Nat /\ e.open \in SUBSET Gates!Features
             /\ e.kind \in {"registry", "registry failed", "charge failed"}
  <2>1. CASE e \in [kind : {"registry"}, ahead : Nat, open : SUBSET Gates!Features]
    BY <2>1
  <2>2. CASE e \in [kind : {"registry failed", "charge failed"}]
    BY <2>2
  <2> QED BY <2>1, <2>2 DEF Gates!Events
<1> QED BY <1>2, <1>3 DEF Registry

LEMMA CompleteGates == GateInv /\ Gates!Complete => GateInv'
<1> SUFFICES ASSUME GateInv, Gates!Complete PROVE GateInv'
  OBVIOUS
<1> DEFINE new == [kind |-> "registry", ahead |-> ahead + 1, open |-> Gates!Opened(refresh.proven)]
<1>1. /\ ahead \in Nat /\ refresh.next \in 0 .. 9 /\ GateShapes
  BY DEF GateInv, GateShapes
<1>2. new \in Gates!Events /\ new.kind = "registry" /\ new.ahead = ahead + 1
      /\ new.open = Gates!Opened(refresh.proven)
  <2>1. Gates!Opened(refresh.proven) \in SUBSET Gates!Features /\ ahead + 1 \in Nat
    BY <1>1 DEF Gates!Opened
  <2> HIDE DEF Gates!Opened
  <2> QED BY <2>1 DEF Gates!Events
<1>3. events' = Append(events, new) /\ ahead' = ahead + 1
  BY DEF Gates!Complete, Gates!Publish
<1>4. /\ refresh.next = 9 /\ UNCHANGED <<world, delegated, window, steady>>
      /\ refresh'.next = 0 /\ refresh' = [next |-> refresh'.next, proven |-> refresh'.proven]
  <2>1. Len(Gates!Questions) = 8
    BY DEF Gates!Questions
  <2> QED BY <1>1, <2>1 DEF Gates!Complete, GateInv, GateShapes
<1> HIDE DEF new
<1>5. /\ events' \in Seq(Gates!Events) /\ Len(events) \in Nat
      /\ Len(events') = Len(events) + 1 /\ events'[Len(events) + 1] = new
      /\ \A i \in 1 .. Len(events) : events'[i] = events[i]
  BY <1>1, <1>2, <1>3, OneMore
<1>6. GateShapes'
  BY <1>1, <1>3, <1>4, <1>5 DEF GateShapes
<1>7. NewerComes'
  BY <1>1, <1>2, <1>3, <1>5 DEF GateInv, NewerComes, Registry
<1>8. ASSUME steady = TRUE PROVE FollowedBy(Gates!Opened(refresh.proven))
  BY <1>4, <1>8, OpenedIsFollowed DEF GateInv, ProvenIsSo
<1>9. LastIsFollowed'
  <2>1. \A i \in 1 .. Len(events) : ~NoneAfter(i)' /\ ~NoneAfter(0)'
    BY <1>2, <1>5 DEF NoneAfter, Registry
  <2>2. Len(events') \in 1 .. Len(events') /\ ~NoneAfter(0)'
    BY <1>2, <1>5 DEF NoneAfter, Registry
  <2>3. steady = TRUE => FollowedBy(new.open)
    BY <1>2, <1>8
  <2>4. events'[Len(events) + 1].open = new.open /\ steady' = steady
    BY <1>4, <1>5
  <2>5. ASSUME NEW i \in 1 .. Len(events'), NoneAfter(i)' PROVE i = Len(events) + 1
    BY <1>5, <2>1, <2>5
  <2>7. \A i \in 1 .. Len(events') : NoneAfter(i)' /\ events'[i].kind = "charge failed" => FALSE
    BY <1>2, <1>5, <2>5
  <2>8. ASSUME NEW i \in 1 .. Len(events'), steady' = TRUE, NoneAfter(i)'
        PROVE  FollowedBy(events[i].open)'
    <3>1. events'[i].open = new.open /\ FollowedBy(new.open)
      BY <2>3, <2>4, <2>5, <2>8
    <3>2. \A feature \in Gates!Features :
            \/ feature = "performance" /\ Gates!Orphaned'
            \/ feature \in new.open <=> Gates!Works(feature)' /\ Gates!Readable(feature)'
      BY <1>4, <3>1, FollowedStays
    <3> QED BY <3>1, <3>2 DEF FollowedBy
  <2> QED BY <2>2, <2>7, <2>8 DEF LastIsFollowed
<1> QED BY <1>4, <1>6, <1>7, <1>9 DEF GateInv, ProvenIsSo, ResetIsOpen

LEMMA AskGates ==
  ASSUME GateInv, Gates!Change \/ Gates!BeginRefresh \/ Gates!Ask PROVE GateInv'
<1>1. CASE Gates!Change
  BY <1>1 DEF Gates!Change, Gates!Mishap, GateInv, GateShapes, NewerComes, Registry, ProvenIsSo,
              LastIsFollowed, ResetIsOpen
<1>2. CASE Gates!BeginRefresh
  <2>1. /\ refresh'.next = 1 /\ refresh' = [next |-> refresh'.next, proven |-> refresh'.proven]
        /\ refresh'.proven = {} /\ UNCHANGED <<world, delegated, ahead, events, window>>
    BY <1>2 DEF Gates!BeginRefresh, Gates!Begin
  <2>2. ProvenIsSo' /\ LastIsFollowed'
    BY <2>1 DEF ProvenIsSo, LastIsFollowed
  <2> QED BY <2>1, <2>2 DEF GateInv, GateShapes, NewerComes, Registry, ResetIsOpen
<1>3. CASE Gates!Ask
  <2> DEFINE question == Gates!Questions[refresh.next]
  <2>1. /\ refresh.next \in 1 .. 8 /\ refresh.next # 0
        /\ refresh = [next |-> refresh.next, proven |-> refresh.proven]
        /\ UNCHANGED <<world, delegated, ahead, events, window>>
    BY <1>3, QuestionsAre DEF Gates!Ask, Gates!Asking, GateInv, GateShapes
  <2>2. /\ refresh' = [next |-> refresh'.next, proven |-> refresh'.proven]
        /\ refresh'.next = refresh.next + 1
        /\ \/ /\ steady' = steady
              /\ refresh'.proven = refresh.proven
                                   \cup (IF Gates!Proves(question) THEN {question} ELSE {})
           \/ steady' = FALSE
    BY <1>3, <2>1 DEF Gates!Ask, Gates!Mishap
  <2>3. ASSUME NEW k \in 1 .. 8, Gates!Questions[k] = question PROVE k = refresh.next
    BY <2>1, <2>3, QuestionsAre
  <2>4. ProvenIsSo'
    <3> HIDE DEF question
    <3> SUFFICES ASSUME steady' = TRUE, NEW k \in 1 .. 8
                 PROVE  Gates!Questions[k] \in refresh'.proven
                          <=> k < refresh'.next /\ Gates!Proves(Gates!Questions[k])'
      BY DEF ProvenIsSo
    <3>1. Gates!Proves(Gates!Questions[k])' <=> Gates!Proves(Gates!Questions[k])
      BY <2>1 DEF Gates!Proves, Gates!PerformanceEvidence, Gates!Hardware1Performance,
                  Gates!Hardware1Battery
    <3>2. Gates!Questions[k] \in refresh.proven
            <=> k < refresh.next /\ Gates!Proves(Gates!Questions[k])
      BY <2>1, <2>2 DEF GateInv, ProvenIsSo
    <3>3. Gates!Questions[k] = question <=> k = refresh.next
      BY <2>3 DEF question
    <3> QED BY <2>1, <2>2, <3>1, <3>2, <3>3
  <2>5. refresh'.next \in 0 .. 9 /\ refresh'.next # 0
    BY <2>1, <2>2
  <2>6. LastIsFollowed' /\ GateShapes'
    BY <2>1, <2>2, <2>5 DEF LastIsFollowed, GateInv, GateShapes
  <2> QED BY <2>1, <2>4, <2>6 DEF GateInv, NewerComes, Registry, ResetIsOpen
<1> QED BY <1>1, <1>2, <1>3

(* A failed event, at the end.                                             *)
LEMMA FailedGates ==
  ASSUME GateInv, Gates!Abort \/ Gates!ReadChargeFails PROVE GateInv'
<1>1. GateShapes /\ UNCHANGED <<world, delegated, ahead, window>>
  BY DEF GateInv, Gates!Abort, Gates!ReadChargeFails
<1>2. PICK e \in Gates!Events : e.kind # "registry" /\ events' = Append(events, e)
  <2>1. CASE Gates!Abort
    BY <2>1 DEF Gates!Abort, Gates!Events
  <2>2. CASE Gates!ReadChargeFails
    BY <2>2, OneIs DEF Gates!ReadChargeFails, Gates!Events
  <2> QED BY <2>1, <2>2
<1>3. e \in Gates!Events /\ e.kind # "registry"
  BY <1>2
<1>4. /\ events' \in Seq(Gates!Events) /\ Len(events) \in Nat
      /\ Len(events') = Len(events) + 1 /\ events'[Len(events) + 1] = e
      /\ \A i \in 1 .. Len(events) : events'[i] = events[i]
  BY <1>1, <1>2, OneMore
<1>5. NewerComes'
  <2>1. \A i \in 1 .. Len(events') : i \in 1 .. Len(events) \/ i = Len(events) + 1
    BY <1>4
  <2>2. \A i \in 1 .. Len(events') :
          Registry(i)' => i \in 1 .. Len(events) /\ Registry(i) /\ events'[i] = events[i]
    BY <1>3, <1>4, <2>1 DEF Registry
  <2> QED BY <1>1, <2>2 DEF GateInv, NewerComes
<1>6. CASE Gates!Abort
  <2>1. /\ refresh'.next = 0 /\ refresh' = [next |-> refresh'.next, proven |-> refresh'.proven]
        /\ steady' = FALSE
    BY <1>1, <1>6 DEF Gates!Abort, Gates!Mishap, GateShapes
  <2>2. GateShapes'
    <3>1. refresh'.next \in 0 .. 9
      BY <2>1
    <3>2. ahead' \in Nat /\ window' = [open |-> window'.open, reset |-> window'.reset]
      BY <1>1 DEF GateShapes
    <3> QED BY <1>4, <2>1, <3>1, <3>2 DEF GateShapes
  <2>3. ProvenIsSo' /\ LastIsFollowed'
    BY <2>1 DEF ProvenIsSo, LastIsFollowed
  <2>4. ResetIsOpen'
    BY <1>1 DEF GateInv, ResetIsOpen
  <2> QED BY <1>5, <2>2, <2>3, <2>4 DEF GateInv
<1>7. CASE Gates!ReadChargeFails
  <2>1. /\ refresh.next = 0 /\ refresh' = refresh /\ events = <<>>
        /\ steady' = TRUE => steady = TRUE /\ ~world.sessiond
    BY <1>7 DEF Gates!ReadChargeFails, Gates!Mishap
  <2>0. Len(events) = 0
    BY <2>1
  <2>2. /\ Len(events') = 1 /\ events'[1] = e
        /\ \A i \in 1 .. Len(events') : i = 1
        /\ \A i \in 1 .. Len(events) : FALSE
    <3>1. Len(events') = 1 /\ events'[1] = e
      BY <1>4, <2>0
    <3>2. \A i \in 1 .. 1 : i = 1
      OBVIOUS
    <3>3. \A i \in 1 .. 0 : FALSE
      OBVIOUS
    <3> QED BY <2>0, <3>1, <3>2, <3>3
  <2>3. NoneAfter(0) /\ \A i \in 1 .. Len(events') : ~Registry(i)'
    BY <1>3, <2>2 DEF NoneAfter, Registry
  <2>4. LastIsFollowed'
    <3> SUFFICES ASSUME steady' = TRUE PROVE LastIsFollowed'
      BY DEF LastIsFollowed
    <3>1. FollowedBy(window.open)
      BY <2>1, <2>3 DEF GateInv, LastIsFollowed
    <3>2. FollowedBy(window.open)'
      BY <1>1, <3>1, FollowedStays DEF FollowedBy
    <3>3. ~world'.sessiond
      BY <1>1, <2>1
    <3> QED BY <2>3, <3>2, <3>3 DEF LastIsFollowed
  <2>5. GateShapes'
    BY <1>1, <1>4, <2>1 DEF GateShapes
  <2>6. ProvenIsSo' /\ ResetIsOpen'
    BY <1>1, <2>1 DEF GateInv, ProvenIsSo, ResetIsOpen
  <2> QED BY <1>5, <2>4, <2>5, <2>6 DEF GateInv
<1> QED BY <1>6, <1>7

(* The first event is shown, and the newer ones counted from it.           *)
LEMMA ShowGates == GateInv /\ Gates!Show => GateInv'
<1> SUFFICES ASSUME GateInv, Gates!Show PROVE GateInv'
  OBVIOUS
<1>1. /\ GateShapes /\ events \in Seq(Gates!Events) /\ events # <<>> /\ ahead \in Nat
      /\ UNCHANGED <<world, delegated, refresh, steady>>
      /\ window = [open |-> window.open, reset |-> window.reset]
  BY DEF GateInv, GateShapes, Gates!Show
<1>2. /\ Len(events) \in Nat /\ Len(events) # 0 /\ Head(events) = events[1] /\ 1 \in 1 .. Len(events)
      /\ Tail(events) \in Seq(Gates!Events) /\ Len(Tail(events)) = Len(events) - 1
      /\ \A i \in 1 .. Len(events) - 1 : Tail(events)[i] = events[i + 1]
  BY <1>1
(* What is left, but for the ahead of a registry, and what is shown.       *)
<1>3. ASSUME /\ events' \in Seq(Gates!Events) /\ Len(events') = Len(events) - 1
             /\ \A i \in 1 .. Len(events) - 1 :
                  /\ events'[i].kind = events[i + 1].kind
                  /\ Registry(i + 1) => events'[i].open = events[i + 1].open
             /\ window' = [open |-> window'.open, reset |-> window'.reset] /\ ahead' \in Nat
             /\ Registry(1) => window'.open = events[1].open
             /\ ~Registry(1) => \/ window'.open = window.open
                               \/ /\ events[1].kind = "charge failed"
                                  /\ window'.open = window.open \ {"charge"}
             /\ NewerComes' /\ ResetIsOpen'
      PROVE  GateInv'
  <2>0. Len(events') = Len(events) - 1 /\ Len(events) \in Nat
    BY <1>2, <1>3
  <2>1. \A i \in 1 .. Len(events) - 1 : Registry(i)' <=> Registry(i + 1)
    BY <1>3 DEF Registry
  <2>2. \A i \in 0 .. Len(events) - 1 : NoneAfter(i)' <=> NoneAfter(i + 1)
    <3>1. ASSUME NEW i \in 0 .. Len(events) - 1, NoneAfter(i + 1),
                 NEW j \in 1 .. Len(events'), j > i
          PROVE  ~Registry(j)'
      <4>1. j \in 1 .. Len(events) - 1 /\ j + 1 \in 1 .. Len(events) /\ j + 1 > i + 1
        <5>1. j \in 1 .. Len(events) - 1 /\ j \in Int /\ i \in Int
          BY <2>0
        <5> QED BY <1>2, <3>1, <5>1, Behind
      <4>2. ~Registry(j + 1)
        BY <3>1, <4>1 DEF NoneAfter
      <4> QED BY <2>1, <4>1, <4>2
    <3>2. ASSUME NEW i \in 0 .. Len(events) - 1, NoneAfter(i)',
                 NEW j \in 1 .. Len(events), j > i + 1
          PROVE  ~Registry(j)
      <4>1. j - 1 \in 1 .. Len(events) - 1 /\ j - 1 > i /\ (j - 1) + 1 = j
        BY <1>2, <3>2
      <4>2. ~Registry(j - 1)'
        BY <1>3, <3>2, <4>1 DEF NoneAfter
      <4> QED BY <2>1, <4>1, <4>2
    <3> QED BY <3>1, <3>2 DEF NoneAfter
  <2>3. LastIsFollowed'
    <3> SUFFICES ASSUME steady = TRUE, refresh.next = 0
                 PROVE  /\ \A i \in 1 .. Len(events') :
                             NoneAfter(i)' /\ Registry(i)' => FollowedBy(events[i].open)'
                        /\ NoneAfter(0)' => FollowedBy(window.open)'
                        /\ \A i \in 1 .. Len(events') :
                             NoneAfter(i)' /\ events'[i].kind = "charge failed" => ~world'.sessiond
      BY <1>1 DEF LastIsFollowed
    <3>0. /\ \A i \in 1 .. Len(events) : NoneAfter(i) /\ Registry(i) => FollowedBy(events[i].open)
          /\ NoneAfter(0) => FollowedBy(window.open)
          /\ \A i \in 1 .. Len(events) :
               NoneAfter(i) /\ events[i].kind = "charge failed" => ~world.sessiond
      BY DEF GateInv, LastIsFollowed
    <3>1. ASSUME NEW i \in 1 .. Len(events'), NoneAfter(i)', Registry(i)'
          PROVE  FollowedBy(events[i].open)'
      <4>0. /\ i \in 1 .. Len(events) - 1 /\ i \in 0 .. Len(events) - 1
            /\ i + 1 \in 1 .. Len(events)
        <5>1. i \in 1 .. Len(events) - 1 /\ i \in Int
          BY <2>0
        <5> QED BY <1>2, <5>1, Behind
      <4>1. i \in 1 .. Len(events) - 1 /\ i + 1 \in 1 .. Len(events) /\ NoneAfter(i + 1) /\ Registry(i + 1)
        BY <2>1, <2>2, <3>1, <4>0
      <4>2. FollowedBy(events[i + 1].open) /\ events'[i].open = events[i + 1].open
        BY <1>3, <3>0, <4>1
      <4> QED BY <1>1, <4>2, FollowedStays DEF FollowedBy
    <3>2. ASSUME NoneAfter(0)' PROVE FollowedBy(window.open)'
      <4>1. NoneAfter(1)
        BY <1>2, <2>2, <3>2
      <4>2. CASE Registry(1)
        <5>1. FollowedBy(events[1].open) /\ window'.open = events[1].open
          BY <1>2, <1>3, <3>0, <4>1, <4>2
        <5> QED BY <1>1, <5>1, FollowedStays DEF FollowedBy
      <4>3. CASE ~Registry(1)
        <5>1. NoneAfter(0)
          BY <1>2, <4>1, <4>3 DEF NoneAfter
        <5>2. FollowedBy(window.open)
          BY <3>0, <5>1
        <5>3. \A feature \in Gates!Features :
                \/ feature = "performance" /\ Gates!Orphaned'
                \/ feature \in window.open <=> Gates!Works(feature)' /\ Gates!Readable(feature)'
          BY <1>1, <5>2, FollowedStays
        <5>4. CASE window'.open = window.open
          BY <5>3, <5>4 DEF FollowedBy
        <5>5. CASE /\ events[1].kind = "charge failed"
                   /\ window'.open = window.open \ {"charge"}
          <6>1. ~world'.sessiond
            BY <1>1, <1>2, <3>0, <4>1, <5>5
          <6>2. ~Gates!Readable("charge")'
            BY <6>1 DEF Gates!Readable
          <6> QED BY <5>3, <5>5, <6>2 DEF FollowedBy
        <5> QED BY <1>3, <4>3, <5>4, <5>5
      <4> QED BY <4>2, <4>3
    <3>3. ASSUME NEW i \in 1 .. Len(events'), NoneAfter(i)', events'[i].kind = "charge failed"
          PROVE  ~world'.sessiond
      <4>0. /\ i \in 1 .. Len(events) - 1 /\ i \in 0 .. Len(events) - 1
            /\ i + 1 \in 1 .. Len(events)
        <5>1. i \in 1 .. Len(events) - 1 /\ i \in Int
          BY <2>0
        <5> QED BY <1>2, <5>1, Behind
      <4>1. i \in 1 .. Len(events) - 1 /\ i + 1 \in 1 .. Len(events) /\ NoneAfter(i + 1)
            /\ events[i + 1].kind = "charge failed"
        BY <1>3, <2>2, <3>3, <4>0
      <4> QED BY <1>1, <3>0, <4>1
    <3> QED BY <3>1, <3>2, <3>3
  <2>4. ProvenIsSo'
    BY <1>1 DEF GateInv, ProvenIsSo, Gates!Proves, Gates!PerformanceEvidence,
                Gates!Hardware1Performance, Gates!Hardware1Battery
  <2>5. GateShapes'
    BY <1>1, <1>3 DEF GateShapes
  <2> QED BY <1>3, <2>3, <2>4, <2>5 DEF GateInv
<1>4. CASE Gates!ShowRegistry(Head(events))
  <2> DEFINE first == events[1].ahead
  <2>1. /\ Registry(1) /\ first \in 1 .. ahead
        /\ \A i \in 2 .. Len(events) : Registry(i) => events[i].ahead \in first + 1 .. ahead
    <3>1. Registry(1)
      BY <1>2, <1>4 DEF Gates!ShowRegistry, Registry
    <3>2. \A i \in 2 .. Len(events) : i \in 1 .. Len(events) /\ 1 < i
      BY <1>2
    <3> QED BY <1>1, <1>2, <3>1, <3>2 DEF GateInv, NewerComes
  <2>2. /\ window' = [open |-> events[1].open, reset |-> "fan" \in events[1].open]
        /\ ahead' = ahead - first
        /\ events' = [i \in 1 .. Len(events) - 1 |-> Gates!Since(events[i + 1], first)]
    BY <1>2, <1>4, <2>1 DEF Gates!ShowRegistry
  <2> HIDE DEF first
  <2>3. ASSUME NEW i \in 1 .. Len(events) - 1
        PROVE  /\ Gates!Since(events[i + 1], first) \in Gates!Events
               /\ events'[i].kind = events[i + 1].kind
               /\ Registry(i + 1) => /\ events'[i].open = events[i + 1].open
                                     /\ events'[i].ahead = events[i + 1].ahead - first
    <3>1. i + 1 \in 2 .. Len(events) /\ i + 1 \in 1 .. Len(events)
      BY <1>2
    <3>2. events'[i] = Gates!Since(events[i + 1], first) /\ events[i + 1] \in Gates!Events
      BY <1>1, <2>2, <3>1, EventIs
    <3>3. CASE Registry(i + 1)
      <4>1. /\ events[i + 1] = [kind |-> "registry", ahead |-> events[i + 1].ahead,
                                open |-> events[i + 1].open]
            /\ events[i + 1].ahead \in Nat /\ events[i + 1].open \in SUBSET Gates!Features
        BY <1>1, <3>1, <3>3, EventIs
      <4>3. events[i + 1].ahead - first \in Nat
        <5>1. events[i + 1].ahead \in first + 1 .. ahead /\ first \in 1 .. ahead
          BY <2>1, <3>1, <3>3
        <5> QED BY <1>1, <5>1
      <4>2. Gates!Since(events[i + 1], first)
              = [kind |-> "registry", ahead |-> events[i + 1].ahead - first, open |-> events[i + 1].open]
        BY <3>3, <4>1 DEF Gates!Since, Registry
      <4>4. Gates!Since(events[i + 1], first) \in Gates!Events
        <5>1. Gates!Since(events[i + 1], first)
                \in [kind : {"registry"}, ahead : Nat, open : SUBSET Gates!Features]
          BY <4>1, <4>2, <4>3
        <5> QED BY <5>1 DEF Gates!Events
      <4>5. /\ Gates!Since(events[i + 1], first).kind = "registry"
            /\ Gates!Since(events[i + 1], first).open = events[i + 1].open
            /\ Gates!Since(events[i + 1], first).ahead = events[i + 1].ahead - first
        BY <4>2
      <4> QED BY <3>2, <3>3, <4>4, <4>5 DEF Registry
    <3>4. CASE ~Registry(i + 1)
      BY <3>2, <3>4 DEF Gates!Since, Registry
    <3> QED BY <3>3, <3>4
  <2>4. events' \in Seq(Gates!Events) /\ Len(events') = Len(events) - 1
    <3> DEFINE Left(i) == Gates!Since(events[i + 1], first)
               n == Len(events) - 1
    <3>0. n \in Nat
      BY <1>2
    <3>1. \A i \in 1 .. n : Left(i) \in Gates!Events
      BY <2>3
    <3>2. events' = [i \in 1 .. n |-> Left(i)]
      BY <2>2
    <3> HIDE DEF Left, n
    <3>3. events' \in Seq(Gates!Events) /\ Len(events') = n
      BY <3>0, <3>1, <3>2
    <3> QED BY <3>3 DEF n
  <2>5. ahead' \in Nat
    BY <1>1, <2>1, <2>2
  <2>6. NewerComes'
    <3>1. ASSUME NEW i \in 1 .. Len(events) - 1, Registry(i)'
          PROVE  Registry(i + 1) /\ i + 1 \in 2 .. Len(events) /\ i + 1 \in 1 .. Len(events)
                 /\ events'[i].ahead = events[i + 1].ahead - first
      BY <1>2, <2>3, <3>1 DEF Registry
    <3>2. \A i \in 1 .. Len(events') : Registry(i)' => events'[i].ahead \in 1 .. ahead'
      <4> SUFFICES ASSUME NEW i \in 1 .. Len(events'), Registry(i)'
                   PROVE  events'[i].ahead \in 1 .. ahead'
        OBVIOUS
      <4>1. i \in 1 .. Len(events) - 1
        BY <2>4
      <4>2. i + 1 \in 2 .. Len(events) /\ Registry(i + 1)
            /\ events'[i].ahead = events[i + 1].ahead - first
        BY <3>1, <4>1
      <4>3. events[i + 1].ahead \in first + 1 .. ahead
        BY <2>1, <4>2
      <4> QED BY <1>1, <2>1, <2>2, <4>2, <4>3
    <3>3. ASSUME NEW i \in 1 .. Len(events'), NEW j \in 1 .. Len(events'), i < j,
                 Registry(i)', Registry(j)'
          PROVE  events'[i].ahead < events'[j].ahead
      <4>0. /\ i \in 1 .. Len(events) - 1 /\ j \in 1 .. Len(events) - 1 /\ i + 1 < j + 1
        BY <2>4, <3>3
      <4>2. /\ Registry(i + 1) /\ Registry(j + 1)
            /\ i + 1 \in 1 .. Len(events) /\ j + 1 \in 1 .. Len(events)
            /\ events'[i].ahead = events[i + 1].ahead - first
            /\ events'[j].ahead = events[j + 1].ahead - first
        BY <3>1, <3>3, <4>0
      <4>3. events[i + 1].ahead \in Nat /\ events[j + 1].ahead \in Nat /\ first \in Nat
        <5>1. events[i + 1].ahead \in Nat
          BY <1>1, <4>2, EventIs
        <5>2. events[j + 1].ahead \in Nat
          BY <1>1, <4>2, EventIs
        <5> QED BY <1>1, <2>1, <5>1, <5>2
      <4>1. /\ events[i + 1].ahead < events[j + 1].ahead
            /\ events'[i].ahead = events[i + 1].ahead - first
            /\ events'[j].ahead = events[j + 1].ahead - first
        BY <4>0, <4>2 DEF GateInv, NewerComes
      <4> QED BY <4>1, <4>3
    <3> QED BY <3>2, <3>3 DEF NewerComes
  <2>7. window' = [open |-> window'.open, reset |-> window'.reset] /\ window'.open = events[1].open
        /\ ResetIsOpen'
    BY <2>2 DEF ResetIsOpen
  <2> QED BY <1>3, <2>1, <2>3, <2>4, <2>5, <2>6, <2>7
<1>5. CASE Gates!ShowOther(Head(events))
  <2>1. /\ ~Registry(1) /\ events' = Tail(events) /\ ahead' = ahead
        /\ events[1].kind \in {"registry failed", "charge failed"}
    BY <1>1, <1>2, <1>5, EventIs DEF Gates!ShowOther, Registry
  <2>2. /\ window' = [open |-> window'.open, reset |-> window'.reset]
        /\ \/ window'.open = window.open /\ window'.reset = FALSE
           \/ /\ events[1].kind = "charge failed"
              /\ window'.open = window.open \ {"charge"} /\ window'.reset = window.reset
    BY <1>1, <1>2, <1>5, <2>1 DEF Gates!ShowOther
  <2>3. NewerComes'
    <3>1. \A i \in 1 .. Len(events') :
            /\ i \in 1 .. Len(events) - 1
            /\ i + 1 \in 1 .. Len(events) /\ events'[i] = events[i + 1]
      <4>1. Len(events') = Len(events) - 1
        BY <1>2, <2>1
      <4>2. \A i \in 1 .. Len(events') : i \in 1 .. Len(events) - 1 /\ i + 1 \in 1 .. Len(events)
        BY <1>2, <4>1
      <4> QED BY <1>2, <2>1, <4>2
    <3>2. \A i \in 1 .. Len(events') : Registry(i)' <=> Registry(i + 1)
      BY <3>1 DEF Registry
    <3>3. \A i \in 1 .. Len(events') : Registry(i)' => events'[i].ahead \in 1 .. ahead'
      BY <2>1, <3>1, <3>2 DEF GateInv, NewerComes
    <3>4. ASSUME NEW i \in 1 .. Len(events'), NEW j \in 1 .. Len(events'), i < j,
                 Registry(i)', Registry(j)'
          PROVE  events'[i].ahead < events'[j].ahead
      <4>1. i + 1 < j + 1 /\ i + 1 \in 1 .. Len(events) /\ j + 1 \in 1 .. Len(events)
        BY <1>2, <3>1, <3>4
      <4> QED BY <3>1, <3>2, <3>4, <4>1 DEF GateInv, NewerComes
    <3> QED BY <3>3, <3>4 DEF NewerComes
  <2>4. ResetIsOpen'
    BY <2>2 DEF GateInv, ResetIsOpen
  <2> QED BY <1>1, <1>2, <1>3, <2>1, <2>2, <2>3, <2>4
<1> QED BY <1>4, <1>5 DEF Gates!Show

LEMMA AlwaysGateInv == PartSpec => []GateInv
<1>1. PartInit => GateInv
  BY GateInitInv DEF PartInit
<1>2. GateInv /\ UNCHANGED gateState => GateInv'
  <2> SUFFICES ASSUME GateInv, UNCHANGED gateState PROVE GateInv'
    OBVIOUS
  <2>1. UNCHANGED <<world, delegated, refresh, ahead, events, window, steady>>
    BY DEF gateState
  <2>2. GateShapes' /\ ResetIsOpen' /\ NewerComes'
    BY <2>1 DEF GateInv, GateShapes, ResetIsOpen, NewerComes, Registry
  <2>3. ProvenIsSo'
    BY <2>1 DEF GateInv, ProvenIsSo, Gates!Proves, Gates!PerformanceEvidence,
                Gates!Hardware1Performance, Gates!Hardware1Battery
  <2>4. LastIsFollowed'
    <3>1. \A open : FollowedBy(open) =>
            \A feature \in Gates!Features :
              \/ feature = "performance" /\ Gates!Orphaned'
              \/ feature \in open <=> Gates!Works(feature)' /\ Gates!Readable(feature)'
      BY <2>1, FollowedStays
    <3>2. \A i : (NoneAfter(i)' <=> NoneAfter(i)) /\ (Registry(i)' <=> Registry(i))
      BY <2>1 DEF NoneAfter, Registry
    <3>3. \A i : FollowedBy(events[i].open) => FollowedBy(events[i].open)'
      BY <2>1, <3>1 DEF FollowedBy
    <3>4. FollowedBy(window.open) => FollowedBy(window.open)'
      BY <2>1, <3>1 DEF FollowedBy
    <3> QED BY <2>1, <3>2, <3>3, <3>4 DEF GateInv, LastIsFollowed
  <2> QED BY <2>2, <2>3, <2>4 DEF GateInv
<1>3. GateInv /\ Gates!Next => GateInv'
  BY AskGates, FailedGates, CompleteGates, ShowGates DEF Gates!Next, Gates!Worker
<1>4. [PartNext]_<<part, vars, gateState>> => Gates!Next \/ UNCHANGED gateState
  BY DEF PartNext
<1> QED BY <1>1, <1>2, <1>3, <1>4, PTL DEF PartSpec

(* update_capabilities_at and refresh_capability_registry: with no refresh *)
(* under way and nothing changed since the last one began, a control is    *)
(* open just when its writer works and its value can be read; and the fans *)
(* are never offered a reset while their control is closed.                *)
THEOREM GatesDoTell == PartSpec => []GatesAreTrue
BY AlwaysGateInv, GatePromise, PTL
===============================================================================
