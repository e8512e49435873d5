# Orbis Control: a TLA+ verification project

Orbis Control is a control centre for ASUS laptops: a Slint UI and a CLI, an
unprivileged session service (`orbis-sessiond`) that only reads, and a
privileged service (`orbis-hardwared`) that performs narrowly defined writes
after a polkit decision. The hardware itself is reached through asusd,
supergfxd, power-profiles-daemon, UPower, logind and sysfs.

This directory holds TLA+ modules for the parts of that system where
interleavings, late effects and crashes decide correctness, TLC configurations
that check them on small instances, and TLAPS proofs. `PROJECT.json` is the
index: components, runs, the mutant that shows each property has teeth, the
source lines behind every definition, hazards, findings and theorems.

    tlc -workers 2 -config MCChargeWrite.cfg MCChargeWrite     # one run
    tlapm ChargeWriteRefinement.tla                            # the refinement, proved
    tlapm ChargeWriteProofs.tla                                # invariants, proved; likewise the
                                                               # other ...Proofs modules

Paths below are relative to `src/crates/`.

## 1. The system

                 UI process (orbis-ui)                       other front-ends (CLI, 2nd session)
      window  --WorkerCommand-->  worker loop                       |
        ^  <--WorkerEvent--        | one command or snapshot        |
        |                          | at a time                      |
      keyboard task, extra window  |                                |
                                   v                                v
       reads: orbis-sessiond (Session1)      writes: orbis-hardwared (Hardware1) --polkit-->
                     \                              |
                      \------ asusd, supergfxd, sysfs, UPower, firmware ------ asusctl, Fn keys

The UI process holds everything that has memory: the restore point of a full
charge, the power-source rules, the per-profile limits, the keyboard timeout.
hardwared keeps next to no state between calls; it validates, asks polkit, writes once,
reads back and answers. A write may be dispatched and its answer lost, so the
rule of the whole system is: *never retry a write, read instead, and never say
more than was observed* (`docs/architecture.md`, section 4).

### Inventory

| Component (source) | State | Operations | Interacts by | What is hard | What makes it correct | Here |
|---|---|---|---|---|---|---|
| charge-limit mutation path (`orbis-application`, `orbis-session-client`, `orbis-hardwared/src/{lib,battery}.rs`, `orbis-sessiond/src/upower.rs`) | asusd's stored threshold, the kernel's, calls in every stage | submit, authorize, set, two read-backs, classify the answer, recover by one read | D-Bus calls front-end → hardwared → asusd, Session1 read | lost answers, late setters, two front-ends, a read of two values one after the other, a daemon dying in any stage | a verdict says no more than what happened; one setter per request, a granted one | ChargeWrite, OneShotWrite, ChargeWriteProofs, ChargeWriteRefinement |
| one-time full charge (`orbis-ui/src/{worker_runtime,power_rules_runtime}.rs`, `orbis-config/src/power_rules.rs`) | restore point in memory and on disk | start, stop, due, finish, edit rules, load | worker commands, telemetry snapshots, the rules file | kill between two saves and a write, failing saves, old snapshots, a second start during a full charge | the old limit is owed until dispatched, is put back when due, is never 100 | FullCharge, FullChargeProofs |
| product GPU mode (`orbis-hardwared/src/asus_gpu_mode.rs`, `orbis-providers/src/asus_gpu_mode.rs`) | two attributes, each with a value deferred to the next boot | status, set mode | one D-Bus call per attribute access | calls interleave between attributes, the second write fails, reads tear | a confirmed mode is what the next boot brings; a mix is reported | GpuQueue, ProfileLimitsProofs |
| UI worker loop (`orbis-ui/src/worker_runtime.rs`) | command queue, one deferred command, the poll in progress | receive, coalesce, snapshot, tick | mpsc channels | an await in the only loop, a command received and put aside | nothing is dropped or reordered, the loop comes back | parts of FullCharge, SourceRules, ProfileLimits, LimitEditor, FanEditor, MainCards, Capabilities |
| power-source rules and GPU Optimized (same files, `orbis-ui/src/main.rs`) | rules, source last observed, what the window shows | observe, set rules, apply a rule, apply Optimized, edit, pick a mode | commands with whole records, events back, status read then write | stale forms, old snapshots, foreign changes between a read and a write, restarts | rules are written only when they should be, hold when they were; Ultimate is left only on request | SourceRules, SourceRulesProofs |
| keyboard idle timeout (`orbis-ui/src/keyboard_timeout_runtime.rs`, `orbis-providers/src/{idle_notify,keyboard_dim}.rs`) | level to put back, timeout in force, idle watch | dim, restore, retarget, stop | compositor events, watch channels, logind | Fn keys during an await, source changes while dark, late writes, lost watch, closing | the light is the person's whenever the task is at rest | KeyboardTimeout, KeyboardTimeoutProofs |
| profile limits (`orbis-ui/src/profile_limits_runtime.rs`, `orbis-config/src/profile_limits.rs`) | values per profile in memory and on disk, profile last observed | record, observe, replay, auto-apply | worker | a value recorded for a profile that is no longer current; a replay that stops halfway; a late write under another profile | a profile gets its own values, the memory is the file's | ProfileLimits, ProfileLimitsProofs |
| power-limit mutation path (`orbis-ui/src/main.rs`, `orbis-hardwared/src/power_limits.rs`) | drafts, pending fields, firmware attributes | edit, apply a batch, write, read back, skip | Hardware1, one second of patience in the UI | fields answered one by one among replays and snapshots; writes land after the UI gave up | a field is not locked without an answer to come; what is shown was read | LimitEditor, SettingsProofs, ProfileLimits |
| extra controls window (`orbis-ui/src/extra_backend.rs`) | refreshing, mutating, dirty and unresolved flags, a draft | refresh, stage, apply, direct change, lid switch | tasks sharing flags | tasks finish in any order, outcomes stay unknown | a draft is kept just as long as an outcome is open; at rest the window shows the hardware | ExtraControls, ControlsProofs |
| quick controls (`orbis-ui/src/quick_controls_backend.rs`, `orbis-hardwared/src/keyboard_backlight.rs`) | level shown, refreshing flag | tick, click, read, write, settle | tasks, the LED's two files | a refresh is dropped while one runs, a write settles late | the window comes to show the LED | QuickControls, ControlsProofs |
| fan curves (`orbis-ui/src/main.rs`, `orbis-hardwared/src/fans.rs`) | asusd's curves, the editor | select, edit, apply, profile-wide reset, refresh | worker, Hardware1, asusd | answers for a selection that has moved on, a reset that touches other fans | the points in the editor were read from the fan an Apply would write | FanEditor, SettingsProofs |
| main cards (`orbis-ui/src/main.rs`) | what the performance, charge and GPU cards show, queue and lock | click, answer, refresh, registry | worker | periodic reads, automatic switches and answers change one card | at rest a card is true, or is going to be read | MainCards, SettingsProofs |
| capability registry (`orbis-ui/src/{composition,controller,worker_runtime}.rs`, `orbis-providers/src/{probes,bounded_probes}.rs`) | what is proven, generation, what the window opens | refresh question by question, publish, abort | Session1, Hardware1, ppd | daemons come and go between two questions | a control is open just when its writer works | Capabilities, KeyboardTimeoutProofs |
| configuration stores (`orbis-config`) | files, temporary files | load, save by temp and rename, move aside | file system | crash or power loss between two steps, invalid files, hand edits | old or new file, never half; a bad file is kept | FileStore, SettingsProofs; the rules file and the limits file also in FullCharge, SourceRules, ProfileLimits |
| windows and tray (`orbis-ui/src/{main,panel_windows,tray_backend,window_lifecycle_backend,single_instance,global_shortcuts}.rs`) | windows, READY, bus name | launch, hide, show, open and close panels, quit | event loop, tray host, D-Bus | the tray host comes and goes behind the report of it | a hidden window can be brought back | AppWindows, ControlsProofs |
| core mutation model (`orbis-core/src/{transaction,reconciliation,...}.rs`), fan policy | phase of a transaction, pending transitions | apply result, observe, decide, permit | pure | - | - | not modelled: no program writes by it |
| supergfxd GPU mode (`orbis-hardwared/src/supergfxd.rs`, `orbis-providers/src/native_asus_eco.rs`) | mode, pending mode, pending action | request, snapshot | D-Bus | - | - | not modelled: switched off in hardwared |
| sessiond (`orbis-sessiond`) | discovered battery, clamshell inhibitor | reads, lazy discovery, inhibitor on and off | Session1 | torn reads; a process that ends by itself, or that a failed call loses sight of | a read never mutates; the lid is as it was said to be | LidInhibitor, ControlsProofs; its reads in ChargeWrite, FanEditor, LimitEditor, Capabilities; the lid switch of the window in ExtraControls |
| privileged peripherals (`orbis-hardwared/src/{aura,panel,firmware,aspm,cpu_tuning,...}.rs`) | asusd's lighting records, kernel attributes; the platform profile's owner at the start, whether the SMU has refused | validate, write, read back; for lighting read, change a part, write the whole | Hardware1, asusd, kernel attributes, drivers, one tool | calls overlap; a value has a file per CPU, and CPUs come and go; some lighting modes go past asusd | a call changes what it was asked to and nothing else; a caller is not told that its value is applied when another's is | AuraWrites and ControlsProofs (lighting), AttributeWrites and ProfileLimitsProofs (the rest); their callers in ExtraControls, ProfileLimits |
| diagnostics and telemetry | histories for display | sample, format | snapshots | - | a snapshot that fails or is old changes nothing for good | a snapshot in FullCharge, SourceRules |
| display providers, CLI, session protocol, test support | none | reads; one-shot calls; wire types; fixtures | - | - | - | not modelled |

The hazards behind the "what is hard" column, each at its line and with the
properties aimed at it, are in `PROJECT.json`.

## 2. Modules

| Module | Models |
|---|---|
| `OneShotWrite` | what Orbis promises of one privileged write |
| `ChargeWrite` | the charge-limit path end to end; implements `OneShotWrite` |
| `ChargeWriteProofs` | theorems: the inductive invariant of `ChargeWrite` and what follows |
| `ChargeWriteRefinement` | theorem: `ChargeWrite` implements `OneShotWrite` |
| `FullCharge` | the one-time full charge in the UI worker, on top of a charge-limit write as `OneShotWrite` promises it |
| `GpuQueue` | concurrent product-GPU calls in hardwared over asusd's two deferred attributes |
| `SourceRules` | power-source rules, GPU Optimized and the window that edits them |
| `KeyboardTimeout` | the keyboard auto-off task |
| `ProfileLimits` | limits and tuning remembered per profile: recorded, saved, replayed |
| `LimitEditor` | the power-limit drafts of the window, their batches, the writes and read-backs |
| `FanEditor` | the fan editor, its commands, hardwared's two fan handlers and asusd's curves |
| `MainCards` | the performance, charge and GPU cards of the main window |
| `ExtraControls` | the extra section: refresh and mutation tasks, staged and direct changes |
| `QuickControls` | the keyboard brightness of the main window down to the LED's files |
| `Capabilities` | the capability refresh and the four controls it opens and closes |
| `FileStore` | a save of a settings file, step by step |
| `AppWindows` | one instance, its windows, the tray icon, hiding and quitting |
| `AuraWrites` | keyboard lighting in hardwared: records read, changed in part and written whole by concurrent calls |
| `AttributeWrites` | hardwared's settings written through attributes, asusd or drivers, by concurrent calls |
| `LidInhibitor` | closed-lid mode in sessiond: the process that blocks the lid switch |
| `FullChargeProofs`, `SourceRulesProofs` | theorems about the module named |
| `ProfileLimitsProofs` | theorems about ProfileLimits, and about GpuQueue and AttributeWrites, of `MCProfileLimits` |
| `KeyboardTimeoutProofs` | theorems about KeyboardTimeout, and about Capabilities, of `MCKeyboardTimeout` |
| `SettingsProofs` | theorems about FanEditor, LimitEditor, MainCards and FileStore, of `MCSettings` |
| `ControlsProofs` | theorems about ExtraControls, QuickControls, AuraWrites, LidInhibitor and AppWindows, of `MCExtraControls` |
| `MC...` | instances for TLC |

**ChargeWrite.** `client[c]` is `AppService::set_charge_limit` with its await
points (`calling`, then the two halves of the Session1 read), `handler[c]` is
`handle_set_charge_limit` with `AsusdBatteryMutationBackend::set_charge_limit`
(`authorizing`, `setting`, the two read-backs), `reply[c]` what the bus carries
back, `inbox` the setters asusd has not executed. `Classify` is
`zbus_error_to_provider`: it goes by text fragments in order, and hardwared wraps
the errors it got, so an error of asusd (`WrappedErrors`) can classify as "service
unknown", or, by the fragments `AccessDenied` and `InvalidArgs`, as a refusal of a
request whose setter was sent; `hist.objected` notes an asusd that answers so itself.
`Receive`,
`ReadFails` and `ReadYields` are the success, error and recovery branches.
`HardwaredDies`, `AsusdDies`, `AsusdExecutes` (which may do all, half or nothing
of a setter, and answer with or without an error) and `ExternalChange` are the
environment.

**FullCharge.** `worker.pc` is where the worker loop awaits (`setting`,
`raising`, `restoring`), `queue` and `deferred` its commands, `poll` the
telemetry task with what it saw, `memory` and `disk` the restore point.
`TakeSet` is one write for a run of `SetChargeLimit`, `TakeStart`, `TakeStop`,
`TakeRules`, `TakeRefresh`, `TakeSnapshot` are the branches of the loop, each
with the save that belongs to it. `Crash` may happen between any two steps.

**GpuQueue.** A call is a sequence of attribute accesses (`before`, `dgpu`,
`mux`, `after`, or `status`). `Deferred` is
`AsusGpuModeSnapshot::from_values`, `Classify` is
`classify_product_gpu_readback`, `Status` is `read_status`. The reads of a
snapshot that `try_join!` runs come in any order.

**SourceRules.** `Observe` is `PowerRulesTracker::observe` with
`observe_power_source`, `ToApply` what `set_rules` returns, `RuleWrites`
`apply_power_rule`, `Status` and `GpuLands`/`GpuFails` the two halves of
`apply_gpu_optimized`. The window is `form`/`known`/`locked` with its callbacks
(`UserEdits`, `UserPicksMode`) and `views`, the events on their way back.
`TakeGpu` is the direct command, which looks at no status.

**KeyboardTimeout.** `runner.pc` is where `run_keyboard_timeout` awaits: the top
of the loop, `select!`, opening a watch, the accesses of `dim` and `restore`
(`runner.after` is what `restore` returns to). `watch` is the compositor's
notification with the events not yet read.

**ProfileLimits.** `current` and `rules` are the tracker's, `file` is what it
saves, `job` the replay, batch or single command the worker is in, with the
items still `todo` and the write it awaits (`call`). `Observe` is `observe` with
the replay it starts, `Ack` records and saves, `Nack` is the error branch that
ends a replay, `GiveUp` the deadline after which a write may still land (`late`).
`Switch` is a profile switched elsewhere: firmware takes its defaults.

**LimitEditor.** `panel` is the power-limit part of `UiState` (the drafts, the
fields pending and awaiting verification), `batch` the worker's
`write_power_limit` for one field after the other, from `Skip`, `Look` and
`Conflict` (an Apply writes only over the snapshot the user saw, and nothing after
a field that failed) to `ReadBack`; `strays` are writes given up. `Take` also takes refreshes and
replays, whose snapshots reach the same panel.

**FanEditor.** `editor` is the fan part of `UiState`, `Load` and the three
`Show...` the handlers of its events; `Take` to `ConfirmFactory` the worker's
command with `handle_set_fan_curve` or `handle_reset_fan_curves` (whose read-back
swaps temperatures and duties, `ResetValidates`). `Foreign` is another client of
asusd.

**MainCards.** One card is followed at a time: `Click`, `Show...` for each kind of
event, and below them the worker's `PerformSet`, `PerformRefresh`, the telemetry
`Tick` and the registry.

**ExtraControls.** `reads` and `tasks` are the spawned futures, kept to one each by
the flags `refreshing` and `mutating`. A task clears its flag first and sends its
closure then (`extra_backend.rs:956-958` and its like): `unsent` are the closures
in between, which `SendClosure` sends in any order, so that a newer refresh may be
shown before an older one; `queue` are those in the event loop. `Overlay` and
`Reconcile` decide what an outcome that stayed unknown becomes when it is read.

**QuickControls.** `led.set` and `led.seen` are the two files of the LED, which
agree only after `Settle`; `looks` and `writes` are tasks, `ExtraRefresh` what the
extra section does to the control.

**Capabilities.** `refresh.next` runs through `Questions`; each answer tells what is
so at that moment. Two things hardwared decides when it starts: `world.conflict`,
whether something else owns the platform profile, and `world.battery`, whether it has
a battery backend (`build_battery_backend`). One started while asusd is down refuses
every charge limit until it is started again, however often asusd returns
(`Hardware1Battery`), and its control stays closed. `Proves` are the probes, `Needs` what a control asks for,
`ShowRegistry` is `update_capabilities_at`, which drops old generations.

**FileStore.** `dir` is what a reader sees, `after` what a power loss may leave of
it, `temp` the temporary file. `flavour` tells the two ways of saving apart.

**AppWindows.** `tray.ready` is `READY`, `reports` what the tray's thread has yet to
hear, `host` the truth; `closures` are those sent to the event loop. `blind`
remembers that the window was hidden on a report overtaken by the host.

**AuraWrites.** `call[c]` is a call of `set_aura_static_rgb`, `set_aura_effect` or
`set_aura_power` with its awaits (`authorizing`, `reading`, `listing`, `setting`,
`checking`) and the record it has read. `Merged` is what it writes, `SendFrame` the
kernel's route for modes asusd does not list, of which asusd learns nothing. `book`
is the history: the same calls made one after the other, the refused ones left
out, and which records that cannot be said of any more (two calls at a time, a
change made elsewhere during one, a setter that failed).

**AttributeWrites.** A behaviour is about one `setting`, for they share no state.
`call[c]` goes through its handler: `authorizing`, `validating` (one action per kind
of bounds), `writing` and `checking` file by file, and for the Curve Optimizer
`running`, `noting` and `telling`, the steps of the thread that waits for the tool.
Nothing is locked, and zbus runs calls on tokio's threads, so calls overlap at every
access. `value` has the files, of every CPU for the energy preference, `online` the
CPUs that have one. `book.fair` are the values the setting may have had calls been
carried out one at a time, `book.blurred` that a caller was told of doubt or that
something else changed it.

**LidInhibitor.** Each method is one step, for it holds the mutex throughout.
`strays` are processes that live on after a kill or a wait has failed.

**Parts and sums.** Components that share no state are checked in one run as the
parts of a sum: the MC module has a variable `part`, chosen initially, and each
step is a step of that part while the others rest. `MCProfileLimits` has
ProfileLimits, GpuQueue and AttributeWrites; `MCExtraControls` ExtraControls, QuickControls,
AppWindows, AuraWrites and LidInhibitor; `MCSettings` the rules of SourceRules, FanEditor, LimitEditor,
MainCards and FileStore; `MCKeyboardTimeout` KeyboardTimeout and Capabilities.
Such a run explores every behaviour of each part; a property is a named
property of one part or the conjunction of what the parts state of the same
question.

### Abstractions

* Percentages, levels and modes are members of small sets; texts are the classes
  the code distinguishes; wording, logging and status lines are left out.
* In FullCharge and SourceRules a write is what `OneShotWrite` promises: it
  lands, is refused, or is unknown and lands late or never. In SourceRules the
  GPU mode is the mode of the next boot as one value; `GpuQueue` has the pair.
  The window's "not writable" locks only withdraw input and are left out.
* UPower's diagnostic value and the panel path below its command are left out;
  backend probing (`mutation_status`) is a question of `Capabilities`, which keeps
  of an answer only whether it says "supported".
* In MainCards the worker performs a command and posts its answer in one step;
  ChargeWrite and GpuQueue take those steps apart. In LimitEditor a snapshot stands
  for its identity, which is a hash of the same values. Fan curves have two points.
* In FileStore the file system renames atomically and in order, and keeps neither
  unsynced contents nor unsynced renames through a power loss.
* Environment actions (deaths, foreign changes, plugs, presses, faults) are
  bounded by constants named `Max...`; nothing else is.

## 3. Runs

| Run | Instance | Distinct states | Shows |
|---|---|---|---|
| `charge_write` | 2 front-ends, one request each of 10 (invalid), 60 or 80, one death, one foreign change; it starts at 60, for 60 and 80 can be exchanged | 470 000 | verdicts are truthful: `AppliedWasInForce`, `RefusalIsReal`, `OneGrantedSetter`, `CommandErrorIsFinal`; the path is a one-shot write (`ImplementsOneShot`) and answers (`Responsive`) |
| `charge_write_command` | violation | | finding 1 |
| `full_charge` | three commands, one plug, one failing save or unreadable file, one kill | 232 000 | `RestoreOwed`, `MemoryMatchesDisk`, `RestorePointNeverFull`, `RestoredOncePerFault`, `RestoredWhenDue`, `StopHonoured` |
| `full_charge_crash` | violation | | finding 2 |
| `profile_limits_and_gpu` | limits: two profiles, two limits, one CPU and one GPU item, two commands, one switch elsewhere, one trouble. GPU: two callers, three calls, one failing access, one boot. Attributes: two callers, three calls, two CPUs, one failure, restart or change elsewhere | 1 850 000 | `LimitsMatchFile`, `TrackedIsInForce`, `RememberedInForce`, `LimitsFollowed`; `ConfirmedIsNext`; `CallersKnow` of the GPU queue and the attributes |
| `gpu_queue_half` | violation | | finding 3 |
| `settings` | rules: profile and panel rate, two commands, one plug, one trouble. Fans: two profiles, two fans, three curves, three gestures, one foreign change, one failure. Limits: two fields of two values, three drafts or clicks, one profile switch, one mishap. Cards: two choices, two clicks, one change elsewhere, two failures. Files: three saves, one hand edit, one error, two kills or power losses | 2 010 000 | `FirstSourceWritesNothing`, `RuleInForce`, `EditsKeepTheRest`; `DraftOfSelection`; `ShownIsHardware` and `LocksAreOwed` of the fan editor, the limits and the cards; `SavesSurvive`, `BadKept` |
| `source_rules_gpu` | GPU Optimized with the panel rule beside it, two commands, one plug, one trouble | 1 100 000 | `UltimateKept`, `OptimizedSettles` |
| `source_rules_ultimate` | violation | | finding 4 |
| `keyboard_timeout_and_gates` | timeout: 2 levels besides off, two presses, two changes of source or settings, one idle spell, one fault. Gates: two daemons that stop or start, or questions that fail | 205 000 | `LightKept`, `UndimmedOnInput`, `TimeoutFollows`, `StopsUndimmed`; `GatesAreTrue`, `GatesFollow` |
| `keyboard_timeout_unconfirmed` | violation | | finding 5 |
| `window_controls` | extra: two staged controls and a direct one of two values, two edits, two clicks, one trouble. Quick: two levels, two clicks, one foreign change, one trouble. Windows: five events of the person or of other launches, the tray host comes or goes twice. Lighting: two callers, two calls, four modes, one failing access or change elsewhere. Lid: six calls, three upsets | 3 190 000 | `DraftIffUnresolved`, `SectionsSettle`, `QuickRecovers`; `HiddenHasIcon`, `PanelsAreMirrored`; `PartsAsAsked` of the lighting and the lid |

Every passing run ends in between one and four minutes with two workers.

**Why these bounds.** The hazards need few actors: a confusion of two requests
needs two front-ends, a late effect needs one death or lost answer after it, a
mixed GPU pair needs two callers and a third call to be seen, a lost edit needs
two edits, a wrong restore needs one charge, one failure and one kill, a replay
cut short needs two items and one trouble, an answer for a selection left behind
needs two slots, an overtaken report two moves of the tray host. One
fault more adds no new kind of state: histories such as `hist.forfeited`,
`hist.clean`, `hist.sure` and `crossed` record *that* an excusing event happened.
The mutants show that each property is within reach of its bounds: every one is
violated by a plausible slip in one definition under the very same `.cfg`.
The GPU part of `SourceRules` has a run of its own because a rule's writes and
GPU Optimized share only the source, the window and the queue. In
`KeyboardTimeout` one idle spell gives several "idle" events, one for each new
watch. In `Capabilities` a refresh begins only while fewer than `MaxEvents`
events wait in the window, which bounds the queue and nothing else.
Two runs start from part of the initial states: charging at 60 (60 and 80 can
be exchanged), one order of the two sources' keyboard settings (the sources can
be exchanged), and a hardwared without a battery backend only where it also
answered its other question negatively (the controls share no evidence). The
theorems are about every initial state.

**Deadlock** is not checked: every instance ends when its commands, faults and
requests are used up, and the real system may rest as well.

### Fairness

* `ChargeWrite`: a call is in one hand at a time, the front-end's, polkit's or
  hardwared's handler's, and whoever has it goes on: one weak fairness for each
  front-end (async tasks on a running runtime; the agent's dialog ends). And asusd
  executes what it was sent while it lives. The last one is an assumption on
  asusd: the handler awaits it without a deadline, and with a hung asusd
  `Responsive` fails. `docs/threat-model.md` asks that a provider "must not
  indefinitely block", so this is the place where that rests on another daemon.
  Nothing is fair about crashes, restarts of asusd or external changes.
* `FullCharge`, `SourceRules`: the worker's branches are weakly fair (the loop
  never rests while one is ready, `select!` picks at random among the ready
  ones), a write ends, the timer fires, the application is started again. The
  telemetry sample is strongly fair: it may fail any number of times but not
  for ever. `StopHonoured` and `OptimizedSettles` excuse failing saves and
  foreign changes explicitly.
* `KeyboardTimeout`: the task's awaits end (`CALL_DEADLINE` of three seconds;
  sysfs reads), and `select!` starves no branch that is ready again and again
  (strong fairness, because the loop passes through `top` in between). The
  person and the compositor owe nothing. The three seconds `main` waits for the
  task at the end may run out during an access: that is `Kill`, which
  `StopsUndimmed` excuses.
* `ProfileLimits`: the worker is weakly fair, and so is the performing of a write
  unless it waits at a password prompt, which nobody has to answer.
* `QuickControls`: the timer, the event loop, the tasks' reads and writes (each
  with a deadline) and the settling of the LED are weakly fair.
* `Capabilities`: the worker and the event loop are weakly fair. The refresh ends
  with a read of the power limits that has no deadline of its own; here it is
  answered or fails, and with a hung sessiond `GatesFollow` would fail.
* The other modules have safety properties only.

### Findings

Where the code does something else than a comment or document says, a run
expects the violation and `PROJECT.json` quotes both sides.

1. `charge_write_command`: asusd goes away between the setter and hardwared's
   read-back; the wrapped error is classified by its text as "backend
   unavailable" and reported as a command that was not performed, although it
   was. The property asks nothing of an asusd that answers with such an error
   itself. `CommandErrorIsFinal` is what remains true: nothing happens *later*.
2. `full_charge_crash`: the saved restore point is cleared before the limit is
   restored; a kill in between leaves 100 %. The comment promises that "a crash
   or restart still restores it later". `RestoreOwed` is what remains true.
3. `gpu_queue_half`: the test for a partially queued pair comes after the
   missing half was filled in, so it never fires.
4. `source_rules_ultimate`: the window rebuilds the whole record from what it
   shows; an edit sent before the previous one is shown switches GPU Optimized
   on again, which counts as an explicit request and leaves Ultimate.
   `UltimateKept` is what remains true for a user who waits for the window.
5. `keyboard_timeout_unconfirmed`: a dimming whose confirming read fails is
   forgotten, so the next input does not undo it.

Weaknesses without a run of their own. The properties excuse or bound each of
them by name, and the comment at the definition says so:

* when the rules file cannot be saved, a due restore is dispatched on every
  snapshot although the comment says once (`RestoredOncePerFault`);
* an error that asusd answers to the setter, or to the read after it, reads like
  Orbis's own refusal when its name is `AccessDenied` or `InvalidArgs`: the request is
  reported as refused, and nothing looks whether the limit changed (`objected` in
  `ChargeWrite`);
* a refresh of the extra section that is overtaken between the clearing of its flag
  and the sending of its closure is shown last, with what it had read
  (`Outdated` in `ExtraControls`);
* the read-back of a fan reset takes duties for temperatures and temperatures
  for duties: a factory curve that stops a fan at 80 degrees or more passes, since the
  check then looks for a high duty at zero degrees (`ResetValidates`);
* a curve applied while an older refresh is under way leaves the editor clean on
  the old curve (`crossed` in `FanEditor`);
* a power limit whose write timed out, and whose read-back is shown before that
  result, stays locked until the next snapshot of the limits (`LockIsOwed` excuses a field
  awaiting verification);
* undoing a queued GPU mode counts as a mismatch, and a failed refresh of the
  charge limit closes its card until the next one (`CardIsTrue`,
  `CardIsUnlocked`);
* once a profile was written through power-profiles-daemon it always is; when
  that daemon goes, the control opens on hardwared's word while its writes go to
  the daemon that is gone (`Orphaned` in `Capabilities`);
* a CPU that comes online while the energy preference is being written has no file in
  the list made at the start, and the caller is told that all is applied; who owns
  the platform profile is asked only when hardwared starts (`AttributeWrites`);
* a missing Curve Optimizer tool is remembered like a refusal of the SMU, until
  hardwared ends, although the comment at `SMU_REFUSED` speaks of the SMU only
  (`NoteResult`);
* the plain stores do not sync the directory, so a power loss may take back an
  acknowledged save (`SavesSurvive` asks that of the careful stores only);
* a press up and then off, while the keyboard task is switching off or restoring,
  is taken for its own dimming and undone (`SwitchedOff` in `KeyboardTimeout`);
* two lighting calls on one record at a time lose one of the two changes, and both
  may be told that theirs was confirmed: the window sends one at a time, but a
  call it has given up goes on (`book.disturbed` in `AuraWrites`);
* an inhibitor that could not be killed or waited for is dropped all the same and
  may block the lid switch until the session service ends (`blurred` in
  `LidInhibitor`);
* the choice to hide to the tray is offered by a `READY` read at the start and
  after a change of the preferences only; a close that finds no tray host quits,
  although the comment at `wire_close_request` has the window kept; a second
  launch while the first instance starts in the background or shuts down is
  dropped without a word (`AppWindows`).

## 4. Proofs

These are proved, for every value of the constants:

| Theorem | Statement |
|---|---|
| `ChargeWriteProofs!TypeCorrect` | `Spec => []TypeOK` |
| `AppliedCorrect` | `Spec => []AppliedWasInForce` |
| `RefusalsAreReal` | `Spec => []RefusalIsReal` |
| `AtMostOnce` | `Spec => []OneGrantedSetter` |
| `ErrorsAreFinal` | `Spec => []CommandErrorIsFinal` |
| `AnswersCome` | `Spec => []NobodyWaitsInVain` |
| `Refinement` (in `ChargeWriteRefinement`) | `Spec => ImplementsOneShot` |
| `FullChargeProofs!TypeCorrect` | `Spec => []TypeOK` |
| `OwedCorrect` | `Spec => []RestoreOwed` |
| `CopiesAgree` | `Spec => []MemoryMatchesDisk` |
| `NeverFull` | `Spec => []RestorePointNeverFull` |
| `OncePerFault` | `Spec => []RestoredOncePerFault` |
| `PutAsideIsNext` | `Spec => []DeferredIsQueued` |
| `SourceRulesProofs!Types` | `Spec => []TypeOK` |
| `FirstObservation` | `Spec => []FirstSourceWritesNothing` |
| `RuleIsInForce` | `Spec => []RuleInForce` |
| `EditsAreNarrow` | `Spec => []EditsKeepTheRest` |
| `UltimateStays` | `Spec => UltimateKept` (an action property) |
| `ProfileLimitsProofs!TypeCorrect` | `Spec => []TypeOK` |
| `MemoryIsFile` | `Spec => []LimitsMatchFile` |
| `RightProfile` | `Spec => []TrackedIsInForce` |
| `RememberedIsInForce` | `Spec => []RememberedInForce` |
| `ConfirmedComes` | `PartSpec => ConfirmedIsNext` (an action property) |
| `CallersDoKnow` | `PartSpec => []CallersKnow` |
| `SettingsProofs!DraftIsOfSelection` | `PartSpec => []DraftOfSelection` |
| `WindowsTellTheTruth` | `PartSpec => []ShownIsHardware` |
| `NoLockIsForgotten` | `PartSpec => []LocksAreOwed` |
| `SavesAreDurable` | `PartSpec => []SavesSurvive` |
| `BadBytesAreKept` | `PartSpec => BadKept` (an action property) |
| `KeyboardTimeoutProofs!TypeCorrect` | `Spec => []TypeOK` |
| `LightIsThePersons` | `Spec => []LightKept` |
| `GatesDoTell` | `PartSpec => []GatesAreTrue` |
| `ControlsProofs!DraftIsKept` | `PartSpec => []DraftIffUnresolved` |
| `SectionsDoSettle` | `PartSpec => []SectionsSettle` |
| `CallsDoAsAsked` | `PartSpec => []PartsAsAsked` |
| `FlagIsHeld` | `PartSpec => []Quick!OneRefreshReads` |
| `TypeCorrect` | `WindowsSpec => []WindowsTypeOK` |
| `PanelsCorrect` | `WindowsSpec => []PanelsAreMirrored` |
| `IconCorrect` | `WindowsSpec => []HiddenHasIcon` |

Assumptions, all evaluated by TLC in the runs of their modules: bounds are
naturals; percentages are naturals in `ChargeWrite`, and from 20 to 100 in
`FullCharge` (`WantedAssumption`); the brightest level is a natural
(`LevelAssumption`). A file a process may find at first holds one set of rules or does
not parse (`StoredAssumption`, `FilesAssumption`, `DocsAssumption`), and "none", "torn" and
the like are not values (`NamesAssumption`). The fields, items, limits and controls
are those the code has (`FieldsAssumption`, `ItemsAssumption`, `LimitsAssumption`,
`ControlsAssumption`), the slot selected first is one, the factory curve a curve, and
a machine has a CPU and numbers its CPUs (`CpusAssumption`).
Nothing is assumed of the number of values, front-ends, callers or profiles; the
bounds may be any naturals, so a queue may be of any length.

**ChargeWriteProofs.** The four properties of the charge path are about verdicts,
and none is inductive: what a verdict says depends on the answer, which depends
on where the handler was, which depends on what lay in asusd's inbox. `Inv` adds
these links, one front-end at a time:

* `CallOK`: a request is with its handler or its answer is on the way back,
  never both, and an open request has no verdict;
* `SentOK`: a handler that has not asked polkit yet has sent nothing; an answer
  "unsupported" comes with nothing sent, a refusal with nothing sent or from asusd
  itself; at most one setter;
* `SeenOK`: the values the request has seen include the current threshold while
  it is open, the wanted one once a read-back has confirmed it, and the one in
  the first half of a Session1 read;
* `InboxOK`, `InboxUnique`: a setter in the inbox belongs to its front-end's
  latest request only if the caller still waits for it or was told there is no
  reply, so that no command error can follow; and no request has two setters.

There is one lemma per action, each with one step per conjunct the action can
disturb; `NextInv` collects them, and the theorems follow from `AlwaysInv`.
`NobodyWaitsInVain` is the part of `Responsive` that is safety, and is inductive over
`Inv`: an open call has a handler or an answer, and a handler that waits for asusd has
its setter in the inbox of an asusd that lives.

**ChargeWriteRefinement** uses the same `Inv`. Each action is one action of
`OneShotWrite` or a stutter (the list is at the head of the module). Three facts
of `Inv` carry it: `SentOK` makes `Authorize` a first dispatch; `InboxUnique`
makes the removal of the oldest setter from a sequence the removal of one element
from a set; `SeenOK`, `SentOK` and `InboxOK` justify "applied" (the value was in
force), "rejected" (nothing was sent) and "ended" (nothing of it can take effect any
more: the other command errors) where a request is settled. So for every number of front-ends a request of the real path
is one write at most and is settled truthfully.

**FullChargeProofs.** What must be saved depends on what the worker is about to
do. `RaiseIsSaved`: a limit is raised only with its restore point on disk, so
`RestoreOwed` survives a kill at any point. `Budget`: attempts made, the one under
way and the one a restore point still allows are one in all, and one more for each
fault; `RestoredOncePerFault` follows by arithmetic. `Aimed`: a write has a value.
`DeferredIsQueued`, what the two liveness properties rest on: a worker that has put a
command aside, and so looks at nothing else, has that command in its queue.

**SourceRulesProofs.** What holds between two steps of the worker is said of what is
still to be done. `WritesAreRules`: a write of a rule that waits is of the rule for
the source observed, and before anything was observed or edited none waits;
`InForceOrWritten`: a setting that only rules wrote since is what the rule says, or a
write that waits will make it so; `RuleInForce` is the case of nothing waiting. The
window has a part of its own: the last rules on their way to it are the stored ones
(`LastViewIsStored`, `FormIsStored`), and no other edit is queued before a fresh one,
which keeps what is stored now (`FreshFirst`, `FreshKeep`). For `UltimateKept`, `GpuIsAsked` and `StatusIsAsked` say that a GPU write, or a
look at the status that leads to one, was asked for when it leaves Ultimate.

**ProfileLimitsProofs.** `LimitsMatchFile` and `TrackedIsInForce` are nearly inductive,
once it is seen that the jobs matter only through the tracker: a value is recorded in
memory and file or in neither, a profile is observed only between two jobs, and a
switch made elsewhere is marked by `hist.moved` until the worker looks.
`RememberedInForce` is about a replay as a whole: `CallIsDue` says that what is called
is what is due next, `ReplayIsWhole` that of a replay nothing disturbed every
remembered item is in force or still to be written, `SureIsTrue` that afterwards only
the item a command is setting may differ, and once it is done has the value that will
be recorded.
*GPU queue* (`QueueInv`): what a call has read so far is queued still, unless another
caller's write `crossed` it (`GotIsQueued`). So a call that ends confirmed has decided
by what is queued at that moment, and `ToldIsNext`, a lemma on `Classify` and
`Deferred` alone, says that the next boot brings its mode. `MixIsBlamed` is what
`MixIsReported` is at rest: while a mix is queued there is a caller that is about to
write or has read what is queued now, and so will be told, or that has been warned and
cannot be confirmed without reading it.
*Attributes* (`TaskInv`): `ValueIsFair` says that the value in every file is a fair one,
or that a call will answer for it: one that is halfway through its files, one whose own
value is in all the files it has read back, or one that has yet to tell its caller. A
write makes its caller such a call, whatever the others were; a read-back that agrees
and a last one that ends the call keep it true. `FilesAreWritten`: a call that writes
has every file there is, unless one came since. `RefusalIsNoted`: a caller knows of a
refusal only after `refused` is set.

**SettingsProofs.** One invariant for each part.
*Fans*: answers not shown, the job under way and commands not taken are one sequence,
the `Pipe`; a step of the worker moves a boundary in it, or none, and a step of the
window adds at its end or takes from its front. `NoSetBehind`: a curve applied behind
a refresh is followed by another refresh, unless they `crossed`; with no refresh
to come, an applied curve is the one shown (`AppliedIsShown`), and a refresh answered
last shows what is stored (`LastReadIsStored`). `SlotOrRead`: a draft is of the slot
selected, or a refresh is to come.
*Limits*: `BatchIs` ties the batch's stage to its field; `NewestIsTrue`: unless the
limits changed unread, the newest snapshot to come, or the panel with none to come,
shows the limits in force.
*Cards*: `NewestIsShown` is the same for a card, with the two answers of a set;
`LocksOwe`: what is locked is owed an answer, by a command or a post.
*Files*: `TempHolds`: what was written to the temporary file is there, for good once it
was synced; `BadIsSafe`: a bad file is where a power loss leaves it, and no save goes
over it.

**KeyboardTimeoutProofs.** `LightKept` speaks of the runner at rest. `Kept` says for
each place the runner can be at what the light and the held level are there: while
it switches off, the held level is the person's; before it restores, the light is
off and the held level is the person's, or the person has chosen another. A fault,
or a press the runner cannot see, ends the run that is spoken of. `HeldOn` (a level
read before switching off is not zero) is what types the level to put back.
*Gates* (`GateInv`): `ProvenIsSo` says question by question that what a refresh nothing
disturbed has proven is so; once it is done, the last registry among the events to
come, or the window when none is, follows it (`LastIsFollowed`). That the window takes
that registry and no older one needs `NewerComes`: each registry to come is newer than
the one before it and than that of the window.

**ControlsProofs.** *Extra controls* (`ExtraInv`): the flags keep it to one task and one
refresh (`OneAtATime`), though the closures of many may wait, sent or unsent.
`ShownOrPending`: a change is pending, or for each control that did not move elsewhere
what the refresh under way has read is true, so is what any unsent one has read, in
whatever order they will be sent, and with none of these the value shown last: that
of the last refresh queued, or the one shown (`LastIsTrue`). `RefreshIsOwed` and `LockEnds`
say who will answer for a refresh that is owed and a lock.
*Quick controls* (`LastReadIsTrue`): a write whose task is not done brings another
refresh; without one, the last read is still to be made, or has been made, is queued
or shown, and is true. A refresh dropped while one runs is `past.behind`;
`OneRefreshReads` says that there is one, so that none is dropped for nothing.
*Lighting* (`EffectIsBooked`, `PowerIsBooked`): on a record that is not disturbed there is
one call at most; its copy is what the book has, and so is the record until it is set.
*Lid*: `LidAsTold` is inductive with the state of the child that goes with it.
*Windows*: Hiding the window is allowed by `READY`, which lags behind
the tray host. `Heard` says what it is worth: the last report under way is the
host's present state, and with none under way `READY` is. `Iconed` strengthens
`HiddenHasIcon` by the tray service itself, without which nothing is hidden for
good. `PanelsAreMirrored` is carried by lemmas on the operators that change the
panels, one each, which every action then cites.

Each part of a sum is proved of its own `Init` and `Next`; for `PartSpec`, a step takes
one part's step and leaves the variables of the others alone.

Checked by TLC only: liveness (`Responsive`, `RestoredWhenDue`, `StopHonoured`,
`LimitsFollowed`, `OptimizedSettles`, `UndimmedOnInput`, `TimeoutFollows`,
`StopsUndimmed`, `GatesFollow`, `QuickRecovers`), because what fairness gives rests on
`ENABLED`, which is out of the prover's reach. Of `Responsive`, `RestoredWhenDue`,
`StopHonoured` and `QuickRecovers` one part that is safety is proved: what is waited for is
on its way (`AnswersCome`, `PutAsideIsNext`, `FlagIsHeld`). Every invariant and every action property
of a passing run is a theorem.

## 5. Plan

Modelled: the paths by which the UI writes hardware and files, and the windows
that show the result. Proved: their safety. What could still be added, in this order:

1. The types of the parts that have no theorem about them yet, of which the proofs
   carry what they need (`TaskShapes`, `QueueShapes`, `GateShapes` and the like).
2. The paths behind the commands that are one step in `MainCards`.

A refinement of `OneShotWrite` by the writes of `FullCharge` is not planned: a write is
one step there, which dispatches, lands and settles, and so no single step of
`OneShotWrite`. The two modules are joined by what `Refinement` proves of such a write,
which is how `FullCharge` models it.

The models avoid recursive operators for this.

## 6. Not modelled

* `orbis-core`'s transaction, reconciliation, schedule, pending-transition and
  fan-policy modules and the engine of `orbis-capabilities`: pure code by which no
  program of the repository decides a write. Their unit tests enumerate what a
  model would.
* supergfxd: the running hardwared mounts `DisabledGpuMutationBackend`, so the path
  changes nothing; `native_asus_eco` only reads.
* The choice between the Armoury and the legacy power-limit backend, made anew at
  each call, and the single probes below a question of `Capabilities`.
* hardwared's status calls, which write nothing; that of the Curve Optimizer, which
  depends on earlier calls, is in AttributeWrites.
* sessiond's lazy discovery, which only decides which file is read.
* The display-refresh owner and its service, which no program starts, and the
  Wayland output backend, which reads the displays.
* Layout, the position of windows, the preferences form, the composition of the
  providers; formatting, histories, diagnostics; wire types, the CLI's output,
  fixtures and mock providers. They keep no state that a write depends on. About
  half of the repository's lines are tests.
