# A verification of the tuya-zigbee-switch firmware in TLA+

The firmware replaces that of Zigbee wall switches, relay modules and curtain motors, on
Telink and Silabs chips; converters tell Zigbee2MQTT what such a device has. This directory
holds TLA+ modules of the parts of both that keep state over time, TLC configurations that
check them on small instances, and proofs that TLAPS checks for every value of the constants.
Paths below are relative to `src/src/` unless they start with another directory of the
repository; line numbers are those of the commit the modules were translated from.

## 1. The system

The firmware is a single-threaded event loop. The SDK calls back on ZCL commands, attribute
writes, GPIO interrupts and timers (`hal_task_t`, one-shot); `app_task` runs between
callbacks. A callback runs to completion, so that the unit of interleaving is a callback.
What makes the code hard is that everything else may come between two callbacks of one
activity: another command, a rewritten attribute, a power cycle, or a timer that was set by
rules which no longer apply. What a device consists of is a string, the device configuration,
which three programs read: the firmware at start-up, the generator of the converters and the
validation in the converters.

| Component | State | Operations | Interacts with |
|---|---|---|---|
| cover cluster (`zigbee/cover_cluster.c`) | position and target of the motor, direction, a deferred action, three tasks, the configuration and its stored copy | Open, Close, Stop, GoToLiftPercentage, writes of travel times, deadzones and reversal, the three tasks, start-up | two relays, which are one motor; NVM; reporting |
| cover switch cluster (`zigbee/cover_switch_cluster.c`) | type, cover index, reversal, a mode for the local cover and one for bound covers, the present value, the last command sent | presses, long presses and releases of two buttons, attribute writes, start-up | two buttons, a cover of the device, bound covers, NVM |
| relays (`base_components/relay.c`) | on/off, two coils, a task; one `pulse_relay` for all | `relay_on`, `relay_off`, the pulse tasks | share `pulse_relay`; `on_change` calls the relay cluster |
| relay cluster (`zigbee/relay_cluster.c`) | start-up mode, indicator mode and state, stored copies | On/Off/Toggle, MoveToLevelWithOnOff, attribute writes, start-up | relay, LED, NVM |
| button (`base_components/button.c`) | debounced level, pressed, long pressed, one task | GPIO callback, update task | calls the handlers of its switch |
| switch cluster (`zigbee/switch_cluster.c`) | mode, action, relay mode, binding mode, relay index, multistate value | press, release, long press, attribute writes, start-up | button, relay clusters, bound devices, LED, NVM |
| LED, network indicator (`base_components/led.c`, `network_indicator.c`) | lit, blinks left, the task; the state of a status LED | on, off, blink, the task; changes of the network | shared by the network, relays and detached switches |
| poll control (`zigbee/poll_control_cluster.c`) | four intervals, the fast-poll window, the check-in task | commands, writes, `app_task`, any ZCL activity | the poll rate of the stack, which the stack also sets |
| OTA layout conversion (`telink/ota_reformating/`) | the flash | `ensure_correct_ota_scheme` at every start | boot ROM, vendor bootloader |
| config parser (`device_config/config_parser.c`) | the static tables of the device | one pass over the entries at start | all clusters; the same string is read by the generator and by the validation |
| boot, joining, reset (`app.c`, `device_config/reset.c`, `telink/hal/zigbee_network.c`) | network status, device type, scheduled reboot | start-up, steering, leave, factory reset | NVM, stack |
| NVM migrations (`device_config/nvm_migrations.c`) | version item | one pass at start | |
| basic, battery, group clusters | attribute tables, the configuration, the status LED | reads, writes | NVM, reboot, LED |
| HAL (`telink/hal`, `silabs/hal`, `stub/hal`) | tasks, clock, GPIO | | the SDKs |
| Zigbee2MQTT converters (`zigbee2mqtt/converters/switch_custom.js`, its template and generator) | 210 definitions; what Zigbee2MQTT knows of a device | lookup by model, entities, the steps of `configure` | the attributes of the device, bindings, reports |
| device database (`device_db.yaml`) | configuration and models of each device | | the generator and the build |

`zigbee2mqtt/converters_v1/` is generated by the same template and has the same definitions but for
the field `ota`. `tuya_with_ota.js` lists stock devices that may be updated; `zha/`, `homed/`, the
other helper scripts and the binaries in `bin/` keep no state.

What makes each component correct:

- **Cover.** The relays of a motor are interlocked and rest between changes; a running motor is
  always supervised by a task that stops it; a deferred action runs, exactly once, and never
  overrules a newer one; dead reckoning agrees with the shade; reports agree with attributes.
- **Cover switch.** What moves while a button is held is stopped by its release; the local cover and
  bound covers are told the same; a stop by both buttons is final; the reported value, on which
  the next command depends, tells the buttons.
- **Relays.** No coil stays energized; pulses exclude each other; every pulse is given in the end;
  contacts are where the attribute says; a restart does what the start-up mode says.
- **Button and switch.** A long press is never lost; a release is handled by the press that it
  ends; smart actions leave a bound light in step with its relay; a level that was set moving
  is stopped.
- **LEDs.** The network is shown by blinking while the device is out of it, and afterwards every LED is
  back to what it is for, whatever blinked or was flashed before.
- **Poll control.** A fast-poll window lasts as long as was asked; the rate is that of the mode;
  check-ins are scheduled exactly while they are enabled; accepted intervals are accepted
  again after a restart.
- **OTA conversion.** There is always a complete image that the device would start from; the old
  one goes only when the new one is complete; the conversion finishes.
- **Configuration.** Firmware, generator and validation make the same device of a string; indicators
  are paired with relays and switches in order; the network has the LEDs that are documented.
- **Zigbee2MQTT.** What a definition shows exists on the device, with the values that have a name; once
  configured, what the device reports arrives; a device of the database gets configured.

The hazards behind these are listed line by line in `PROJECT.json`.

## 2. Modules

| Module | Models | State and actions |
|---|---|---|
| `CoverCluster` | `zigbee/cover_cluster.c`, all of it | `c`: the cluster with its tasks and relays, `nv`: the stored configuration. The C functions are operators on `c` under their own names; the actions are the ZCL commands, the attribute writes, `StopTask`, `UpdateTask`, `DelayTask`, `Tick` and `Reboot`. |
| `CoverPlant` | the cluster with its motor and shade | adds the real position of the shade (external), and observers of run time, of the last command and of disturbances. |
| `MotorProtection` | the abstract promise of `cover_dispatch_action` | drive, rest, remaining run: start and stop only after a rest, no run longer than `MaxRun`. |
| `CoverManual` | a cover kept in manual mode | the refinement mapping to `MotorProtection`; liveness. |
| `ButtonEvents` | the abstract button | pressed and long pressed: presses, long presses and releases in their order, start-up with the button held. |
| `CoverSwitch` | `zigbee/cover_switch_cluster.c` over two `ButtonEvents` | the attributes and the present value, the commands last sent to each output, the covers, which move by themselves at any moment; `hold` observes what moves while held. |
| `RelayBank` | `base_components/relay.c` | `bank`: relays, pins, tasks, `pulse_relay`; `contact`: the contacts (external); `touched` observes. |
| `RelayCluster` | `zigbee/relay_cluster.c` over `RelayBank` | attributes, LEDs, stored copies; commands, writes, start-up of one relay after the other, power loss anywhere. |
| `Button` | `base_components/button.c` | the pin and `button_t`; bounces, GPIO dispatch, the one task. |
| `SwitchCluster` | `zigbee/switch_cluster.c` over `Button` | the cluster, the relays it may switch, a bound light; the handlers under their names, every attribute write, restart, network changes. |
| `Indicators` | `base_components/led.c`, `network_indicator.c` and all that command LEDs | each LED with its blinks and its timers, the wiring of the device, the notified network status, the status LED's attribute; `excused` observes which LEDs may differ from what they are for. |
| `PollControl` | `zigbee/poll_control_cluster.c` | the cluster, its task, the rate of the stack, the stored intervals, a clock that wraps; `app_task` is an action, which runs before the clock advances. |
| `FastPollWindow` | the abstract fast-poll window | opened for a time, closed on request or when the time is over. |
| `OtaScheme` | `telink/ota_reformating/ensure_ota_scheme.c` | the flash page by page and the place in the procedure; power loss and failed writes as faults. |
| `DeviceConfig` | the three readers of a device configuration | an entry read into the tables of `parse_config`, the counts of the generator, the verdict of the validation. |
| `ConfigParser` | the readers side by side | one action, which reads one more entry of any kind. |
| `DeviceEndpoints` | the `*_add_to_endpoint` functions | the attributes of the device and those it reports, as functions of the tables. |
| `DeviceDb` | `device_db.yaml` | the entries and the models of every device that is built. |
| `Romasku` | the helpers and the template of `switch_custom.js` | an entity per helper; the entities, endpoint names and `configure` steps of a definition as functions of its counts. |
| `Converters`, `SwitchConverters` | `zigbee2mqtt/converters/switch_custom.js` | its 210 definitions. |
| `Zigbee2Mqtt` | a device and Zigbee2MQTT | the device: stored and running configuration, relay indexes, bindings and reports; Zigbee2MQTT: the definition and the step of `configure`. Interview, steps that are done, refused or lost, restarts, factory resets, and an owner who rewrites configuration and settings. |
| `*_proofs` | | the theorems of section 5. |

Composition. `RelayCluster` is over `RelayBank`, `SwitchCluster` over `Button` and `CoverPlant` over
`CoverCluster` by EXTENDS: an action of the whole conjoins the action of the part.
`CoverSwitch` has two instances of `ButtonEvents`, which `Button` is checked to implement
(`ReportsEvents`), so that what it relies on is what the button does, bounces and rewritten
durations included. `CoverSwitch` lets covers do what they like, so that it needs nothing of
`CoverCluster`. `Indicators` takes what a relay asks of its LED from `RelayCluster`, where it is
shown to be the state of the relay or of the attribute (`IndicatorsShow`), and the pairing of the
k-th LED with the k-th relay and switch from `ConfigParser` (`IndicatorsPaired`). `Zigbee2Mqtt` runs the
parser of `DeviceConfig` on the configurations of `DeviceDb`, builds the endpoints of
`DeviceEndpoints` and applies the definitions of `Converters` to them. The switch treats a relay as
on or off at once; that the contact follows is shown by `RelayCluster`.

Conventions. Time is discrete. A task is the ticks left until it is due, a timestamp the ticks
since then, up to a bound beyond which the code does not tell them apart; only `PollControl`
keeps the clock itself, because there the wrap matters, and `Indicators` and `CoverSwitch` leave
durations out: what is scheduled comes at any moment. Time does not pass while a task is
due. Definitions that begin with a comment "Mutant of" are not part of any specification:
each is a plausible bug, used to see that a property notices it. Variables called observers
are read by properties only.

## 3. Runs

| Run | Distinct states | Question and result |
|---|---|---|
| `cover_plant` | 150,829 | With a shade attached: dead reckoning is exact (`TrackingExact`), no relay stays on beyond the bound (`RunTimeBounded`), a cover at rest is where the last accepted command asked (`AcceptedCommandWins`). |
| `cover_config` | 482,318 | With travel times and deadzones rewritten at any moment, into and out of manual mode: interlock (`RelaysMatchMoving`), supervision (`MotorSupervised`), spacing of relay changes and their one exception (`SwitchesSpaced`, `SwapOnlyWhenOvertaken`). |
| `cover_manual` | 2,287 | The cluster implements `MotorProtection` (`ProtectsMotor`); a cover that is left alone comes to rest (`ComesToRest`). |
| `cover_switch` | 575,232 | Two buttons: held moves end with the release (`HoldEndsWithRelease`), both outputs are told the same (`KeptTogether`), the value tells the buttons (`PresentValueInSync`), a stop is final (`StopIsFinal`). |
| `relays` | 34,136 | Pulses end, exclude each other and are all given (`PulsesEnd`, `PulsesExclusive`, `PulsesSettle`); contacts follow (`ContactsFollow`); LEDs show (`IndicatorsShow`); restarts do what the start-up mode says (`RestartsAsConfigured`). |
| `switch` | 312,336 | Long presses come (`LongPressesCome`) and are not taken for short ones (`ShortPressOnly`), the button is the abstract one (`ReportsEvents`), smart actions keep light and relay in step (`SmartInSync`), moves are stopped (`MoveEndsWithPress`), the multistate value is true (`MultistateInSync`). |
| `indicators` | 142,413 | Every wiring of two LEDs: the network is shown (`NetworkShown`), and in it LEDs are what they are for (`IndicatorsFollow`). |
| `config_parser` | 119,040 | Every order of the entries: indicators are paired (`IndicatorsPaired`), the network has its LEDs (`NetworkLedsAsDocumented`), the three readers agree (`ReadAlike`). |
| `zigbee2mqtt` | 49,194 | Every device of the database with every definition for its model: what is shown exists (`Understands`), reports arrive once configured (`ConfiguredReports`), stored relay indexes are kept or translated, with one exception (`RelayIndexTranslated`, see section 4), configuring ends (`EndsConfigured`). |
| `poll_control` | 142,196 | The cluster implements `FastPollWindow` (`FastPollTimed`); rate, check-ins and stored intervals are right (`RateFollowsMode`, `CheckInTimed`, `RestartKeepsIntervals`). |
| `poll_wrap` | violation | A clock that wraps before the integers do leaves a window open for ever (`FastPollEnds`). |
| `ota_scheme` | 504 | Always bootable but for one window (`AlwaysBoots`); converted once faults stop, also after a restart inside that window, unless a second fault has left no image to start from (`Reformatted`). |

### Bounds, and why they are enough

- *Cover.* Four position steps (`MaxPct` 4, `BpPerPct` 1) leave three positions strictly between the
  ends, so that targets ahead, behind, equal and overtaken all occur. `RelayMinSwitch` is 2 or 3,
  so that a deferral may be due, not due, or due in the same tick as another task.
  Updates come every 2 ticks of a travel of 4, so that the stored position is stale half of
  the time, which is what the hazards are about. In `cover_config` the travel times include 0
  (manual mode, or one direction that borrows the time of the other) and the deadzones a
  value above the cap. In `cover_plant` travel is one position per tick without rounding;
  with a divisor that does not divide, the code's estimate rounds, and exactness would not be
  the property to state. The overrun is shorter than a full travel, as in the code, so that only
  a move that took all of it is sure to have reached its end (`Realigned`). In `cover_config` `Lifts` includes a value beyond 100 %.
- *Cover switch.* Two covers, so that the index may be another than the default; indexes 0 (none) and 3
  (beyond the covers) are written too, and every type and mode of both outputs.
- *Relays.* Two latching relays, the least that compete for a pulse, and one normal relay; a pulse
  of two ticks, so that a command may come before, in the middle of and at the end of one; one
  relay with LED and writable attributes, for the clusters do not share any.
- *Switch.* `DebounceDelay` 1 and a longest time of 2 let a long press be shorter than, as long as
  and longer than what a bounce interrupts. The duration may be rewritten to 0. One relay and a
  switch of index 1 make the default index and the stored one invalid, and an index written
  as 9 is corrected to 1. The smart action is the one whose order matters.
- *Indicators.* Two LEDs and the status LED, with every number of relays and switches from none to one
  for each LED, so that an LED may serve the network, a relay and a detached switch at once, or
  nothing. `MaxTimers` 2 is one chain of blinking and one timer that was forgotten. The proof of
  section 5 has neither bound.
- *Config parser.* Three gangs, one cover, four buttons and four LEDs are enough for an entry of each kind
  to come before and after each other; the numbers are 0 and 256, as `relay_pulse_ms` has 8 bits.
  `Fits` stops where the firmware's tables end: what is beyond is undefined in the code.
- *Zigbee2MQTT.* The tables have the sizes of the firmware, and the initial states are all the devices of
  the database; their owners leave them alone but for two models, one and two gangs, whose
  configuration and settings are rewritten twice (`MaxWrites`), which is what it takes to store an
  index under one configuration and load it under another. One lost message or factory reset
  (`MaxFaults`) may come at any step, for a second one finds no more than the first.
- *Poll control.* Integers modulo 16 and windows of at most 3 ticks, below the half turn that the
  signed comparison needs; written values fall below, inside and above what is accepted, and
  19 is beyond the width. `poll_wrap` sets `ClockWrap` to 6, in place of 268,435 of 2^32.
- *OTA.* Four image pages, two to a sector, slots that overlap where an
  image behind the bootloader reaches into the small-OTA slot, a stale first page left in the target slot by earlier firmware.

Integers are unbounded but in `PollControl` and for `relay_pulse_ms`: see section 6.

### Fairness

`Tick` and the tasks are weakly fair: the SDK runs due timers and the clock goes on. `app_task` is
weakly fair in `PollControl`, the GPIO dispatch in `SwitchCluster` (the interrupt handler schedules
it and it checks every pin again), start-up in `RelayCluster`, the processor in `OtaScheme`. In
`Zigbee2Mqtt` the reboot that was scheduled, joining (`app_task` steers whenever the device is
not in a network) and the steps of Zigbee2MQTT are; the loss of a request is fair only when the
device has left, and other losses are finitely many. No command, write, press, power cycle or
fault is fair. Liveness is therefore stated as "or the user goes on for ever": `ComesToRest`,
`PulsesSettle`, `LongPressesCome`, `Reformatted`, `EndsConfigured`. Deadlock is checked in all runs
but that of `OtaScheme`, where a device whose flash holds nothing to start from has stopped.

## 4. Disagreements between code and comments

One is a run that TLC finds violated, with the quotation in `PROJECT.json`:

- **A window that never ends** (`telink/hal/timer.c:10`, run `poll_wrap`). The clock wraps at 268,435 ms,
  the comparison assumes 2^32.

The others are exceptions that a property names, so that it says how far the promise holds:

- **Reversal without a pause** (`cover_cluster.c:348`). Dispatch decides on the position of the last
  update, execution on a fresh one. If the motor has passed its new target in between, the
  relays are swapped at once. `SwapOnlyWhenOvertaken` and `SwitchesSpaced` show, and the proofs
  confirm, that this is the only way.
- **A command that is lost** (`cover_cluster.c:205`). A command whose target equals the stale position
  is dropped although the motor is running away from it; and a deferred action that is due runs
  after a newer command. `AcceptedCommandWins` holds otherwise.
- **Held at start-up** (`switch_cluster.c:394`). `btn_init` takes care that a button held at start-up is
  no press and no long press, but the switch cluster handles its release as a short one.
  `ShortPressOnly` holds once an edge has been seen.
- **Overwriting the running image** (`ensure_ota_scheme.c:121`). Between the two flag writes of a
  conversion from the bootloader the ROM starts the new copy, which finds the old image and
  copies it over itself. `AlwaysBoots` names the window. A fault during that copy leaves nothing to start
  from; without one the conversion ends as any other. `Reformatted` excuses only the device that is dead for it.
- **A relay index of no relay** (`zigbee/switch_cluster.c:518`). A switch beyond the relays "should detach instead
  of keeping invalid relay indices" (`tests/test_switches_without_relays.py:183`), and `parse_config` gives it
  the index 0. But what is stored is validated, "to prevent out-of-bounds access" (512), by replacing an invalid index with the
  number of the switch, which is of no relay either. It is enough to write any setting of such a switch, which stores the 0,
  and to restart; or to store the index of a relay and to start with fewer. (The same index written is corrected to 1.) The
  attribute then has a value that the definition has no name for; no relay is commanded by it, for
  every use tests it again (57). Without the exception `Misloaded`, TLC finds `RelayIndexTranslated` violated by a
  configuration with fewer relays, a write of a setting and a restart. With it the property still says that an index is
  kept where its relay exists, that a switch with a relay of its own number always has one, that a new
  switch beyond the relays is detached, and that an index that has been written stays right until the
  configuration changes.
- **Pulse length taken for an LED** (`helper_scripts/make_z2m_custom_converters.py:61`). The generator goes by
  the first letter and takes `LP<N>`, the length of latching pulses, for a network LED. The definition
  of `SWITCH_ZEMISMART_1_TS0012`, which has `LP50`, shows a network LED that the device has no
  attribute for; and the validation of the converter, which takes `LP50` for a pin, refuses the
  configuration that the device ships with. `Understands` and `ReadAlike` hold otherwise.
- **LEDs** (`zigbee/relay_cluster.c:177`, `zigbee/switch_cluster.c:60`, `network_indicator.c:12`). A relay that is set
  while the device is out of the network ends the blinking that shows it, also at every start-up,
  where the relays load their state after the blinking has begun. A detached switch that
  flashes the LED of a relay that is on leaves it off. An LED that neither a relay nor a detached
  switch commands stays as the blinking left it. `NetworkShown` and `IndicatorsFollow` hold otherwise.
  On Telink `hal_tasks_init` forgets a timer that is pending (`led.c:63`), so that two chains of blinking may
  run on one LED; the properties hold in spite of it.

More facts are in the models without a property, since no document promises otherwise. An open
command repeated at the open end stops the motor. `momentary_nc` reads its button upside down
after a restart (`docs/known_issues.md:16`). A `cover_index` is not validated. The type of
a cover switch rewritten while it is held loses the stop, and a button still held after a stop
by both may become a long press. `LP256` gives pulses of length 0. And two are outside the models:
the long press duration of a cover switch is not stored, and the stored configuration has 128
characters where the converter lets 256 pass.

`docs/known_issues.md:13` lists "Power-on behavior doesn't fully work on some devices", without saying which or
how. `RestartsAsConfigured` rules out one class of causes: the logic that stores and reads the state, with
power lost between any two callbacks, start-up included. It leaves others: power lost inside a callback, between
the pin and the write to NVM; an NVM that fails; and a latching relay, whose contact a start-up mode does not reach
before anything has been stored (`ContactsFollow` excuses it until it is set).

## 5. Proofs

All are for every value of the constants that the named assumptions allow. Five theorems have a
hypothesis on the constants of their own: `KeptManual`, `CalibrationKept` and `UnitSpeed` (twice) of
the cover, `ClockWrap = IntWrap` of poll control; two of Zigbee2MQTT have one on the data, `ShowsWhatIs` and
`AsksForReports`. Each is a definition or an equation, satisfied by the run that checks the property.

**Cover** (`Cover_proofs`; `ConstantsAssumption`). The inductive invariant is
`IInv(c) /\ nv \in SUBSET Config`, where `IInv` is `Core` (types, interlock, deferral,
reports) and `Supervised` (the tasks of a running motor). They are separate because
`cover_execute_action` breaks `Supervised` between cancelling the tasks and scheduling new ones,
and lemmas about its parts can only assume `Core`. Each C function has a lemma that it
preserves what its caller needs; the positions come from two lemmas about integer division.
Results: `TypeCorrect`, `RelaysCorrect`, `SupervisionCorrect`, and of properties that no run states,
`DeferralCorrect` (a deferred action has a task) and `ReportsCorrect` (every change has been
notified). For the action properties `SwapCorrect` and `SpacingCorrect` the relays are followed
through the functions.

**Cover in manual mode** (also `ManualAssumption`: the timeout of a run is no shorter than the rest of the relays;
hypothesis `KeptManual`: no travel time is ever configured). `ManualProtected` is the refinement
of `MotorProtection`. `ManualInv` adds that the motor runs at an end of the position, so that a command in its
direction always meets the early return and never restarts the timeout, and that the timeout
does not cut the rest of the relays short. Every callback then leaves the motor alone, starts it
after a rest or stops it after one (`MayBecome`), which `MotorProtection` allows.

**Cover with its shade** (also `PlantAssumption`; hypothesis `CalibrationKept`: travel times are not rewritten to others
than those of the shade). Whatever a callback but the automatic stop does to the motor is one of four relations
between two cluster states (`Steered`): it goes on, looks where it is, stops, or moves to a target.
`WinsCorrect` needs in its invariant that the position of the last update lies behind the
motor (`Monotone`) and that the last command is met, executed, or deferred with the motor moving away
from its target (`Pursues`). Without the hypothesis it fails: a longer
travel time written in the middle of a move takes the estimate back, and if the position is updated before
the relays have rested, the deferred action may look met.
`TrackingCorrect` and `RunTimeCorrect` also need that a tick is the time of one motor position (`UnitSpeed`, for any
number of positions): otherwise both the estimate and the duration of a move are rounded, and errors of
many short moves add up. `PlantInv` says of an undisturbed move that the relay that is on is that of
its direction (`Wired`), that the automatic stop comes when the target is reached and at an end not before
(`Aimed`), that the shade has come as far as the run is long, or to its end (`Driven`), and that the
run is no longer than the way behind the cover, but for the overrun (`Paced`).

**Button and switch** (`SwitchCluster_proofs`; `ButtonAssumption`, `SwitchAssumption`). A release is handled by the
reported value, which press and long press left behind. `MultistateInSync` is part of the
invariant for that reason, with the order of the button's events (`ButtonOK`). That a moving level
is stopped (`MoveEndsWithPress`) is not inductive either: the release must also be able to stop it, so
`Stoppable` says that nothing moves while the device is out of the network or the switch is a toggle.
Results: `TypeCorrect`, `MultistateCorrect`, `MovesEnd`, `SmartCorrect`, `ShortCorrect`, and `EventsCorrect`, the
refinement of `ButtonEvents`, for any delays and any number of relays.

**Cover switch** (`CoverSwitch_proofs`; `CoverSwitchAssumption`). That something which is held moving implies a
pressed button is not inductive: a release must also find that it is to stop what the press
began. `IInv` adds `Held`, that what the release goes by (mode, cover, value) is as it was when the
hold began; `StopHeld`, that a momentary switch is at "stop" only with a button down; `ButtonOK`, that
what is long pressed is pressed; and `Stored`, that the stored settings are the current ones.
Results: `TypeCorrect`, `HoldsEnd`, `SameCommand`, `PresentValueTells`, `StopStays`, and
`SettingsSurvive`, which no run states.

**Relays** (`RelayCluster_proofs`; `BankAssumption`). Per latching relay: energized exactly while the task that
ends its pulse is scheduled, and then holding `pulse_relay` unless pulses may overlap. Per contact:
moving exactly during a pulse, otherwise where it was last set. A function called for one relay leaves
the coils and tasks of the others alone (`OthersStay`), which is what makes the argument
independent of their number. Results: `TypeCorrect`, `PulsesEndCorrect`, `ExclusionCorrect`,
`ContactsCorrect`. `UsesBank` shows that the clusters implement `BankSpec`, and so carries these over to
the device (`DevicePulsesEnd` and its like). The properties of the clusters need more
(`ClusterInv`): of a relay that start-up has come to, that its stored state is the current one as far as its
start-up mode reads it; of one that waits, that it is off and its stored state is that from before the power failed.
Results: `IndicatorsCorrect`, `RestartsCorrect`.

**LEDs** (`Indicators_proofs`; `IndicatorsAssumption`). `IndicatorsFollow` says nothing while the device is out of the
network, and nothing of what an LED will be when its blinking ends. `Settled` adds both: an LED that
does not serve the network at the moment is lit as it should be, or blinks for a while and should be dark.
`AllChained` gives whatever blinks a timer, however many are forgotten, and `RelaysExcused` says
that only a relay takes an LED from the network. Results: `TypeCorrect`, `NetworkIsShown`,
`IndicatorsCorrect`, for any number of LEDs and timers.

**Poll control** (`PollControl_proofs`; `PollAssumption`). `RestartKeepsIntervals` is not inductive: that
the stored intervals are those in use says nothing of their being accepted again. `IInv` adds
that the intervals in use are valid (`Sound`) and that, before anything is stored, they are
the defaults (`Saved`). Results: `TypeCorrect`, `RestartCorrect`, `RateCorrect`, `CheckInCorrect`. `WindowCorrect`
is the refinement of `FastPollWindow`, if the clock wraps with the integers; `poll_wrap` shows that it
fails otherwise. `WindowInv` adds that the end of a window is less than half a turn ahead, where the
signed comparison of the code tells earlier from later.

**OTA** (`OtaScheme_proofs`; `FlashAssumption`, and `ImageFits`, which `MAX_FIRMWARE_SIZE` alone does not
give). The invariant lists the four layouts an interruption can leave behind, and says that the copy
is correct up to the page reached and that its source is whole. Results: `TypeCorrect`,
`CopyCorrect`, `BootCorrect`.

**Configuration** (`Config_proofs`; `ParserAssumption`). The slots for indicators are filled from the first
one on (`Indicators`), so that the first free one of the relays, of the switches and, without an
LED for the network alone, of the network is the same; an LED for the network ends its list after
the first place (`NetworkShown`); the counts agree (`SameCounts`). Results, for tables of any size and
configurations of any length: `TypeCorrect`, `Paired`, `NetworkLedsKnown`, `SameDevice`, and `OneDebounce`,
which no run states.

**A device under Zigbee2MQTT** (`Config_proofs`; `ParserAssumption`), for any bounds on faults and writes and any
models whose owners write. `RelayIndexCorrect` needs that the parser makes tables of every
configuration (`ParseTyped`): its loop is a recursive function over the entries, and induction over
how many have been read is replaced by `Induction`, which is about a set of numbers and rests on
the pigeonhole theorem of the library. That the entries are ones is shown of each row of the
database (`DatabaseTyped`). `LoadedExists` then says what a restart makes of an index, whatever was stored, and
`StoringKeeps` that a write stores the index in use, so that the exception `Misloaded` stays exact: the switch is
beyond the relays and its stored index is of none. `ConfigureCorrect` is the inductive invariant of configuring: the definition found names
the model interviewed, the tables are those of the running configuration (`Matched`), and the steps taken for
done are done for as long as the device stays in the network (`Stepped`). `UnderstandsCorrect` and
`ReportsArrive` follow from it and a hypothesis each, `ShowsWhatIs` and `AsksForReports`, which speak
of the definitions and the database alone: that a definition, applied to the configuration of each model it
names, shows what there is and asks for what is reported. The hypotheses are data; the run
`zigbee2mqtt` decides them, since every device of the database is one of its initial
states and meets there every definition that names its model.

**Model-checked only.** Liveness (`ComesToRest`, `PulsesSettle`, `LongPressesCome`, `Reformatted`,
`EndsConfigured`), which needs ENABLED. That each definition fits each device it is for (`ShowsWhatIs`,
`AsksForReports`): a finite table of strings, of which there is nothing to prove that TLC does not
enumerate. `TrackingExact` and
`AcceptedCommandWins` without `UnitSpeed` and `CalibrationKept` do not hold, as said above.

## 6. Not modelled

- **Arithmetic width of the cover**: products of travel time and distance overflow 32 bits above
  about 429 s; times are compared modulo 2^32 although the clock wraps earlier, which
  `PollControl` shows where the effect lasts.
- **Durations of a cover switch**, which are the buttons' matter, and the level direction of a switch,
  which only fills in a command.
- **The count of quick presses**, which only calls for the factory reset; the reset itself is in
  `Zigbee2Mqtt` and may come at any moment.
- **The change of the device type** (`app.c:38`), for which another firmware must be installed, and
  `reset_all` for malformed configurations.
- **NVM migrations**: there is none yet. The pass writes the version item on the first boot and does
  nothing else.
- **Configurations that do not fit the tables** of the parser, or are malformed: undefined in the code.
- **Power lost inside a callback**, but in `OtaScheme`: between a pin and the write to NVM that follows it.
- **Measuring the battery**, group membership and the reading of attributes: no state of their own.
- **Labels, units, limits and icons** of the converters, and the converters for Zigbee2MQTT 1, which differ
  in the field `ota`; `tuya_with_ota.js`, `zha/`, `homed/` and the build scripts.
- **Silabs HAL and stub**: the same interface; the models follow the Telink HAL. The stub does
  not replace what a task has scheduled: each call takes a slot of its table (`stub/hal/tasks.c`).
- **Radio, SDK, boot ROM, Zigbee2MQTT itself**: external. Messages to bound devices arrive or not with the
  network; a bound light does what it is told; Zigbee2MQTT configures after an interview and gives up at the
  first step that fails.

## 7. Plan

Done: the cover and its switch, relays, button and switch, LEDs, poll control, the OTA conversion,
the configuration and the converters.

1. `Joining`: the count of quick presses and the factory reset, the change of the device type with power
   loss between its two writes, steering.
2. `CoverArithmetic`: the conversions and the travelled distance modulo 2^32 against their definitions on
   integers.
