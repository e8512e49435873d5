------------------------------- MODULE MainCards -------------------------------
(***************************************************************************)
(* Three cards of the main window (UiState, main.rs): the performance      *)
(* profile, the charge limit and the product GPU mode. Each has a part of  *)
(* the state, a click, an answer and a refresh, and rules of its own for   *)
(* what locks it and what unlocks it again.                                *)
(*                                                                         *)
(* The cards share the worker's queue and nothing else, so one card is     *)
(* followed at a time. The worker performs a command and posts its answer  *)
(* in one step here; ChargeWrite and GpuQueue take those steps apart. The  *)
(* profile and the limit are answered Applied or with an error, never      *)
(* Accepted or Pending (SessionHardware*Provider).                         *)
(***************************************************************************)
EXTENDS Integers, Sequences

CONSTANTS Choices,     \* profiles, percentages or GPU modes
          MaxClicks,
          MaxOthers,   \* changes by other programs and by the worker itself
          MaxMisses    \* failed calls, and hardwared going away

Nothing == "nothing queued"

VARIABLES card,      \* which card, and what the window holds of it
          machine,   \* the value in force and, for the GPU, the queued one
          asks,      \* WorkerCommands of the card not yet performed
          posts,     \* WorkerEvents of the card not yet handled
          spent,     \* clicks, others and misses so far
          unseen     \* history: the machine changed after the last read

cardVars == <<card, machine, asks, posts, spent, unseen>>

Kinds == {"performance", "charge", "gpu"}
Cards == [kind : Kinds, shown : Choices, queued : Choices \cup {Nothing},
          ready : BOOLEAN, writable : BOOLEAN, pending : BOOLEAN,
          unconfirmed : BOOLEAN, error : BOOLEAN]
Asks == [do : {"refresh", "set"}, choice : Choices]
Posts == [do : {"refresh", "set", "registry"},
          how : {"ok", "error", "unknown", "absent"},
          now : Choices, queued : Choices \cup {Nothing}]

CardTypeOK ==
  /\ card \in Cards
  /\ machine \in [now : Choices, queued : Choices \cup {Nothing}, half : BOOLEAN]
  /\ asks \in Seq(Asks) /\ posts \in Seq(Posts)
  /\ spent \in [clicks : 0 .. MaxClicks, others : 0 .. MaxOthers, misses : 0 .. MaxMisses]
  /\ unseen \in BOOLEAN

Gpu == card.kind = "gpu"
Charge == card.kind = "charge"
Performance == card.kind = "performance"

Refresh == [do |-> "refresh", choice |-> machine.now]
Miss == spent.misses < MaxMisses /\ spent' = [spent EXCEPT !.misses = @ + 1]
Other == spent.others < MaxOthers /\ spent' = [spent EXCEPT !.others = @ + 1]

(* production_initial, and the first refresh of each card in main.         *)
Init ==
  /\ \E choice \in Choices :
       machine = [now |-> choice, queued |-> Nothing, half |-> FALSE]
  /\ \E kind \in Kinds, choice \in Choices :
       card = [kind |-> kind, shown |-> choice, queued |-> Nothing, ready |-> FALSE,
               writable |-> FALSE, pending |-> FALSE, unconfirmed |-> FALSE, error |-> FALSE]
  /\ asks = <<Refresh>>
  /\ posts = <<>>
  /\ spent = [clicks |-> 0, others |-> 0, misses |-> 0]
  /\ unseen = FALSE

-----------------------------------------------------------------------------
(* Clicks                                                                  *)

(* performance_click_allowed, charge_mutation_allowed,                     *)
(* gpu_mode_click_allowed and gpu_mode_click_is_noop.                      *)
Allowed(choice) ==
  /\ card.ready /\ card.writable
  /\ Charge => ~card.pending /\ ~card.unconfirmed /\ ~card.error
  /\ Gpu => ~card.pending /\ ~(card.shown = choice /\ card.queued = Nothing)

Click(choice) ==
  /\ Allowed(choice)
  /\ spent.clicks < MaxClicks
  /\ spent' = [spent EXCEPT !.clicks = @ + 1]
  /\ asks' = Append(asks, [do |-> "set", choice |-> choice])
  /\ card' = [card EXCEPT !.pending = TRUE]
  /\ UNCHANGED <<machine, posts, unseen>>

-----------------------------------------------------------------------------
(* Answers                                                                 *)

(* apply_performance_event (the delegated path): the error of an earlier   *)
(* answer goes with the next success only.                                 *)
ShowPerformance(post) ==
  /\ Performance /\ post.do = "set"
  /\ card' = CASE post.how = "ok" -> [card EXCEPT !.shown = post.now, !.pending = FALSE,
                                                  !.error = FALSE]
               [] post.how = "error" -> [card EXCEPT !.pending = FALSE, !.error = TRUE]
               [] post.how = "unknown" -> [card EXCEPT !.pending = TRUE]
  /\ UNCHANGED asks

(* apply_performance_refresh.                                              *)
ShowPerformanceRead(post) ==
  /\ Performance /\ post.do = "refresh"
  /\ card' = IF post.how = "ok"
             THEN [card EXCEPT !.ready = TRUE, !.pending = FALSE, !.shown = post.now]
             ELSE [card EXCEPT !.ready = FALSE, !.pending = FALSE, !.error = TRUE]
  /\ UNCHANGED asks

(* apply_charge_limit_result.                                              *)
ChargeAnswered(post) ==
  card' = CASE post.how = "ok" -> [card EXCEPT !.shown = post.now, !.pending = FALSE,
                                               !.unconfirmed = FALSE, !.error = FALSE]
            [] post.how = "error" -> [card EXCEPT !.pending = FALSE, !.unconfirmed = FALSE,
                                                  !.error = TRUE]
            [] post.how = "unknown" -> [card EXCEPT !.pending = FALSE, !.unconfirmed = TRUE,
                                                    !.error = FALSE]

(* Any error is followed by a read (handle_worker_event).                  *)
ShowCharge(post) ==
  /\ Charge /\ post.do = "set"
  /\ ChargeAnswered(post)
  /\ asks' = IF post.how = "ok" THEN asks ELSE Append(asks, Refresh)

(* apply_charge_limit_refresh: a limit that cannot be read, or is absent,  *)
(* closes the card; the registry alone does not open it again.             *)
ShowChargeRead(post) ==
  /\ Charge /\ post.do = "refresh"
  /\ card' = CASE post.how = "ok" -> [card EXCEPT !.shown = post.now, !.ready = TRUE,
                                        !.pending = FALSE, !.unconfirmed = FALSE,
                                        !.error = FALSE]
               [] post.how = "absent" -> [card EXCEPT !.ready = FALSE, !.writable = FALSE]
               [] post.how = "error" -> [card EXCEPT !.ready = FALSE, !.writable = FALSE,
                                           !.pending = FALSE, !.unconfirmed = FALSE,
                                           !.error = TRUE]
  /\ UNCHANGED asks

(* Mutant: the queued mode is shown as the one in force.                   *)
ShowGpuClaiming(post) ==
  /\ Gpu /\ post.do = "set"
  /\ card' = IF post.how = "ok"
             THEN [card EXCEPT !.shown = IF post.queued = Nothing THEN post.now ELSE post.queued,
                               !.queued = post.queued, !.pending = FALSE,
                               !.writable = post.queued # post.now,
                               !.error = post.queued = post.now]
             ELSE [card EXCEPT !.pending = FALSE, !.writable = FALSE, !.error = TRUE]
  /\ asks' = IF post.how = "ok" THEN asks ELSE Append(asks, Refresh)

(* apply_product_gpu_result: "already active" with a queued mode, which is *)
(* what undoing a queued switch answers, is taken for a contradiction. An  *)
(* error is followed by a read of the status.                              *)
ShowGpu(post) ==
  /\ Gpu /\ post.do = "set"
  /\ card' = IF post.how = "ok"
             THEN [card EXCEPT !.shown = post.now, !.queued = post.queued, !.pending = FALSE,
                               !.writable = post.queued # post.now,
                               !.error = post.queued = post.now]
             ELSE [card EXCEPT !.pending = FALSE, !.writable = FALSE, !.error = TRUE]
  /\ asks' = IF post.how = "ok" THEN asks ELSE Append(asks, Refresh)

(* apply_product_gpu_status and the failed read: a queued mode equal to    *)
(* the current one is none; a mixed queue, which is answered as "reboot    *)
(* required" without a mode, and a backend that is gone close the card; a  *)
(* failed read leaves it as it is.                                         *)
ShowGpuRead(post) ==
  /\ Gpu /\ post.do = "refresh"
  /\ card' = CASE post.how = "ok" ->
                    [card EXCEPT !.shown = post.now, !.ready = TRUE, !.writable = TRUE,
                       !.queued = IF post.queued = post.now THEN Nothing ELSE post.queued,
                       !.error = FALSE]
               [] post.how = "unknown" -> [card EXCEPT !.ready = FALSE, !.writable = FALSE,
                                             !.error = TRUE]
               [] post.how = "absent" -> [card EXCEPT !.ready = FALSE, !.writable = FALSE]
               [] post.how = "error" -> card
  /\ UNCHANGED asks

(* update_capabilities: whether the profile or the limit may be written.   *)
ShowRegistry(post) ==
  /\ post.do = "registry"
  /\ card' = [card EXCEPT !.writable = post.how = "ok"]
  /\ UNCHANGED asks

Show ==
  /\ posts # <<>>
  /\ LET post == Head(posts)
     IN \/ ShowPerformance(post) \/ ShowPerformanceRead(post)
        \/ ShowCharge(post) \/ ShowChargeRead(post)
        \/ ShowGpu(post) \/ ShowGpuRead(post)
        \/ ShowRegistry(post)
  /\ posts' = Tail(posts)
  /\ UNCHANGED <<machine, spent, unseen>>

-----------------------------------------------------------------------------
(* The worker                                                              *)

Posted(do, how, m) ==
  posts' = Append(posts, [do |-> do, how |-> how, now |-> m.now, queued |-> m.queued])

(* One read, asked for or periodic.                                        *)
Reads(how) ==
  /\ IF how \in {"ok", "unknown"} THEN UNCHANGED spent ELSE Miss
  /\ how = "unknown" => Gpu /\ machine.half
  /\ how = "ok" => ~machine.half
  /\ how = "absent" => ~Performance
  /\ Posted("refresh", how, machine)
  /\ unseen' = (unseen /\ how # "ok")
  /\ UNCHANGED <<card, machine>>

PerformRefresh(how) ==
  /\ asks # <<>> /\ Head(asks).do = "refresh"
  /\ asks' = Tail(asks)
  /\ Reads(how)

(* A tick between commands: the profile every two ticks and the GPU status *)
(* every five, the charge limit never.                                     *)
Tick(how) ==
  /\ posts = <<>> /\ asks = <<>>
  /\ Performance \/ Gpu
  /\ Reads(how)
  /\ UNCHANGED asks

(* RegistryChange, every thirty ticks: hardwared is there, or is not.      *)
Registry(how) ==
  /\ posts = <<>> /\ ~Gpu
  /\ how = "ok" <=> ~card.writable
  /\ IF how = "ok" THEN UNCHANGED spent ELSE Miss
  /\ Posted("registry", how, machine)
  /\ UNCHANGED <<card, machine, asks, unseen>>

(* The machine after a choice was set. The GPU queues it for the next boot *)
(* unless it is in force with nothing else queued.                         *)
After(choice) ==
  IF ~Gpu THEN [machine EXCEPT !.now = choice]
  ELSE IF choice = machine.now /\ machine.queued \in {Nothing, choice} /\ ~machine.half
       THEN machine
       ELSE [machine EXCEPT !.queued = choice, !.half = FALSE]

(* A success was read back; an error or an unknown outcome may leave the   *)
(* choice in force, and the GPU a queue of two modes mixed.                *)
Sets(choice, how) ==
  /\ \/ /\ how = "ok"
        /\ machine' = After(choice)
        /\ unseen' = FALSE
     \/ /\ how \in (IF Gpu THEN {"error"} ELSE {"error", "unknown"})
        /\ machine' \in {machine, After(choice)}
                        \cup (IF Gpu THEN {[machine EXCEPT !.half = TRUE, !.queued = Nothing]}
                              ELSE {})
        /\ unseen' = (unseen \/ machine' # machine)
  /\ Posted("set", how, machine')

(* Consecutive SetChargeLimit commands become the last of them.            *)
Coalesced ==
  IF Charge /\ \A i \in DOMAIN asks : asks[i].do = "set" THEN Len(asks) ELSE 1

PerformSet(how) ==
  /\ asks # <<>> /\ Head(asks).do = "set"
  /\ asks' = SubSeq(asks, Coalesced + 1, Len(asks))
  /\ Sets(asks[Coalesced].choice, how)
  /\ IF how = "ok" THEN UNCHANGED spent ELSE Miss
  /\ UNCHANGED card

(* The worker sets the limit itself when a full charge begins or ends, and *)
(* the profile or the GPU when the source of power changes.                *)
Automatic(choice, how) ==
  /\ Other
  /\ Sets(choice, how)
  /\ UNCHANGED <<card, asks>>

(* asusctl, the firmware or another session changes it.                    *)
Elsewhere(choice) ==
  /\ Other
  /\ machine' = After(choice)
  /\ machine' # machine
  /\ unseen' = TRUE
  /\ UNCHANGED <<card, asks, posts>>

Next ==
  \/ \E choice \in Choices : Click(choice) \/ Elsewhere(choice)
  \/ Show
  \/ \E how \in {"ok", "error", "unknown", "absent"} :
       \/ PerformRefresh(how) \/ Tick(how) \/ PerformSet(how)
       \/ \E choice \in Choices : Automatic(choice, how)
  \/ \E how \in {"ok", "absent"} : Registry(how)

Spec == Init /\ [][Next]_cardVars

-----------------------------------------------------------------------------
(* Properties                                                              *)

(* With nothing asked and nothing to show, an open card shows what is in   *)
(* force and, for the GPU, what is queued and different from it, unless it *)
(* was changed elsewhere, or by a call that failed, since the last read:   *)
(* in whatever order answers, reads and automatic changes arrive.          *)
CardIsTrue ==
  /\ asks = <<>> /\ posts = <<>> /\ card.ready /\ ~unseen /\ ~machine.half
  => /\ card.shown = machine.now
     /\ Gpu => {card.queued, card.shown, Nothing} = {machine.queued, machine.now, Nothing}

Owed(do) == (\E i \in DOMAIN asks : asks[i].do = do) \/ (\E i \in DOMAIN posts : posts[i].do = do)

(* No answer leaves an open card locked: the charge limit and the GPU are  *)
(* pending only while an answer is to come, and the error of a charge      *)
(* limit that can still be read is followed by the read that clears it.    *)
CardIsUnlocked ==
  /\ card.pending /\ ~Performance => Owed("set") \/ Owed("refresh")
  /\ Charge /\ card.ready /\ (card.error \/ card.unconfirmed) => Owed("refresh")
===============================================================================
