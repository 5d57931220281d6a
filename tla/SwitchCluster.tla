---------------------------- MODULE SwitchCluster ----------------------------
(***************************************************************************)
(* The switch cluster (src/zigbee/switch_cluster.c): what presses, long    *)
(* presses and releases of a button do to a relay of the device and to the *)
(* lights bound to it, according to attributes that may be rewritten at    *)
(* any moment, also while the button is held.                              *)
(*                                                                         *)
(* A relay is on or off here: RelayCluster shows what that takes.  The     *)
(* bound light does what the commands say; the indicator is left out.      *)
(***************************************************************************)
EXTENDS Button

CONSTANTS
  SwitchIdx,         \* switch_idx
  RelayClusters,     \* relay_clusters_cnt
  DefaultHigh,       \* pressed_when_high of the device configuration
  DefaultMode, DefaultDuration,
  \* the values that the coordinator writes
  Modes, Actions, RelayModes, BindedModes, Indexes, Durations

Mode == {"toggle", "momentary", "momentary_nc"}
SwitchAction == {"onoff", "offon", "toggle_simple", "toggle_smart_sync", "toggle_smart_opposite"}
RelayMode == {"detached", "rise", "long", "short"}
BindedMode == {"rise", "long", "short"}
Multistate == {"not_pressed", "press", "long_press", "position_on", "position_off"}

ASSUME SwitchAssumption ==
  /\ SwitchIdx \in Nat /\ RelayClusters \in Nat /\ DefaultHigh \in Level
  /\ DefaultMode \in Mode /\ DefaultDuration \in Age
  /\ Modes \subseteq Mode /\ Actions \subseteq SwitchAction
  /\ RelayModes \subseteq RelayMode /\ BindedModes \subseteq BindedMode
  /\ Indexes \subseteq Nat /\ Durations \subseteq Age

VARIABLES
  s,        \* the cluster, the relays of the device that are on, and the bound light
  joined,   \* the network status
  nv,       \* stored attributes: {} before the first write
  heard     \* observed: an edge, or a write of the mode, since start-up

vars == <<pin, button, s, joined, nv, heard>>

Relays == 1 .. RelayClusters
Index == 0 .. SwitchIdx + RelayClusters + 1
Settings ==
  [mode: Mode, action: SwitchAction, relay_mode: RelayMode, binded_mode: BindedMode,
   relay_index: Index, long_press_duration: Age]

\* The level of the bound light moves, or has been left moving: see Abandoned.
Ramp == {"still", "moving", "abandoned"}
SwitchState ==
  [mode: Mode, action: SwitchAction, relay_mode: RelayMode, binded_mode: BindedMode,
   relay_index: Index, multistate_state: Multistate,
   relays: SUBSET Relays, light: BOOLEAN, ramp: Ramp]

HasValidRelay(k) == k.relay_index \in Relays
RelayIsOn(k) == k.relay_index \in k.relays
InToggleMode(k) == k.mode = "toggle"

-----------------------------------------------------------------------------
(* What a position of the switch does to the relay and to the bound light. *)

RelaySet(k, on) ==
  [k EXCEPT !.relays = IF on THEN @ \cup {k.relay_index} ELSE @ \ {k.relay_index}]
RelayToggle(k) == RelaySet(k, ~RelayIsOn(k))

\* switch_cluster_relay_action_on and _off.
RelayAction(k, on) ==
  CASE ~HasValidRelay(k) -> k
    [] HasValidRelay(k) /\ k.action = "onoff" -> RelaySet(k, on)
    [] HasValidRelay(k) /\ k.action = "offon" -> RelaySet(k, ~on)
    [] OTHER -> RelayToggle(k)

\* switch_cluster_binding_action_on and _off: the command, and what the light makes of
\* it.  Without a relay to go by the smart actions toggle.
BindingCommand(k, on) ==
  CASE k.action = "onoff" -> on
    [] k.action = "offon" -> ~on
    [] k.action = "toggle_smart_sync" /\ HasValidRelay(k) -> RelayIsOn(k)
    [] k.action = "toggle_smart_opposite" /\ HasValidRelay(k) -> ~RelayIsOn(k)
    [] OTHER -> ~k.light

BindingAction(k, on) == IF joined THEN [k EXCEPT !.light = BindingCommand(k, on)] ELSE k

\* Mutant of Act: the light is told before the relay is switched.
ActBackwards(k, relay_acts, binding_acts, on) ==
  LET told == IF binding_acts THEN BindingAction(k, on) ELSE k
  IN  IF relay_acts THEN RelayAction(told, on) ELSE told

\* The handlers all do the one and then the other.
Act(k, relay_acts, binding_acts, on) ==
  LET switched == IF relay_acts THEN RelayAction(k, on) ELSE k
  IN  IF binding_acts THEN BindingAction(switched, on) ELSE switched

\* A switch in toggle mode does not support the modes rise, short and long.
Position(k, on) ==
  [Act(k, k.relay_mode # "detached", TRUE, on)
     EXCEPT !.multistate_state = IF on THEN "position_on" ELSE "position_off"]

\* switch_cluster_level_control and _stop; that the direction alternates is left out.
LevelControl(k) ==
  IF joined THEN [k EXCEPT !.ramp = "moving"] ELSE k
LevelStop(k) == IF joined THEN [k EXCEPT !.ramp = "still"] ELSE k

-----------------------------------------------------------------------------
(* The handlers of the button.                                             *)

\* switch_cluster_on_button_press.
OnButtonPress(k) ==
  IF InToggleMode(k) THEN Position(k, TRUE)
  ELSE [Act(k, k.relay_mode = "rise", k.binded_mode = "rise", TRUE)
          EXCEPT !.multistate_state = "press"]

\* Mutant of OnButtonRelease: a long press counts as a short one as well.
ReleaseAlwaysShort(k) ==
  IF InToggleMode(k) THEN Position(k, FALSE)
  ELSE [Act(LevelStop(k), k.relay_mode = "short", k.binded_mode = "short", TRUE)
          EXCEPT !.multistate_state = "not_pressed"]

\* switch_cluster_on_button_release.
OnButtonRelease(k) ==
  CASE InToggleMode(k) -> Position(k, FALSE)
    [] ~InToggleMode(k) /\ k.multistate_state = "long_press" ->
         [LevelStop(k) EXCEPT !.multistate_state = "not_pressed"]
    [] OTHER -> [Act(k, k.relay_mode = "short", k.binded_mode = "short", TRUE)
                   EXCEPT !.multistate_state = "not_pressed"]

\* switch_cluster_on_button_long_press: a long press always toggles the relay.
OnButtonLongPress(k) ==
  IF InToggleMode(k) THEN k
  ELSE LET switched == IF k.relay_mode = "long" /\ HasValidRelay(k) THEN RelayToggle(k) ELSE k
       IN  [LevelControl(Act(switched, FALSE, k.binded_mode = "long", TRUE))
              EXCEPT !.multistate_state = "long_press"]

\* The handlers that the task of the button calls, in their order.
Handled(b, k) ==
  LET edge == CASE Presses(b) -> OnButtonPress(k)
                [] Releases(b) -> OnButtonRelease(k)
                [] OTHER -> k
  IN  IF LongPresses(b) THEN OnButtonLongPress(edge) ELSE edge

ButtonTask ==
  /\ UpdateTask
  /\ s' = Handled(button, s)
  /\ heard' = (heard \/ Presses(button) \/ Releases(button))
  /\ UNCHANGED <<joined, nv>>

-----------------------------------------------------------------------------
(* Attribute writes.                                                       *)

\* Mutant of Synchronized: a long press is not told from a short one.
SynchronizedShort(b, k) ==
  IF InToggleMode(k) THEN IF b.pressed THEN "position_on" ELSE "position_off"
  ELSE IF b.pressed THEN "press" ELSE "not_pressed"

\* synchronize_multistate_state.
Synchronized(b, k) ==
  CASE InToggleMode(k) /\ b.pressed -> "position_on"
    [] InToggleMode(k) /\ ~b.pressed -> "position_off"
    [] ~InToggleMode(k) /\ b.long_pressed -> "long_press"
    [] ~InToggleMode(k) /\ ~b.long_pressed /\ b.pressed -> "press"
    [] OTHER -> "not_pressed"

Current ==
  [mode |-> s.mode, action |-> s.action, relay_mode |-> s.relay_mode,
   binded_mode |-> s.binded_mode, relay_index |-> s.relay_index,
   long_press_duration |-> button.long_press_duration]

\* switch_cluster_store_attrs_to_nv.
Store == nv' = {Current'}

\* switch_cluster_on_write_attr, for all attributes but the mode.
Write(k) ==
  s' = k /\ Store /\ UNCHANGED <<pin, joined, heard>>

WriteAction == \E a \in Actions : UNCHANGED button /\ Write([s EXCEPT !.action = a])
WriteRelayMode == \E m \in RelayModes : UNCHANGED button /\ Write([s EXCEPT !.relay_mode = m])
WriteBindedMode == \E m \in BindedModes : UNCHANGED button /\ Write([s EXCEPT !.binded_mode = m])
WriteDuration ==
  \E d \in Durations : button' = [button EXCEPT !.long_press_duration = d] /\ Write(s)

\* An index that is out of range becomes the first relay, if there is one.
WrittenIndex(i) == IF RelayClusters = 0 THEN 0 ELSE IF i \in Relays THEN i ELSE 1
WriteRelayIndex ==
  \E i \in Indexes : UNCHANGED button /\ Write([s EXCEPT !.relay_index = WrittenIndex(i)])

\* Observed: nobody will stop the light that moves.
Abandoned(ramp) == IF ramp = "moving" THEN "abandoned" ELSE ramp

\* Mutant of WrittenMode: multistate_state is not synchronized.
ModeUnsynchronized(m) ==
  [s EXCEPT !.mode = m, !.ramp = IF m = "toggle" THEN Abandoned(@) ELSE @]

WrittenMode(m) ==
  LET k == [s EXCEPT !.mode = m, !.ramp = IF m = "toggle" THEN Abandoned(@) ELSE @]
  IN  [k EXCEPT !.multistate_state = Synchronized(button, k)]

\* The polarity of the button follows the mode, whatever the configuration said.
WriteMode ==
  \E m \in Modes :
    /\ s' = WrittenMode(m)
    /\ button' = [button EXCEPT !.pressed_when_high = IF m = "momentary_nc" THEN 1 ELSE 0]
    /\ Store /\ heard' = TRUE
    /\ UNCHANGED <<pin, joined>>

-----------------------------------------------------------------------------
(* Start-up.                                                               *)

\* parse_config detaches a switch that has no relay.
DefaultSettings ==
  LET attached == SwitchIdx + 1 \in Relays
  IN  [mode |-> DefaultMode, action |-> "toggle_simple",
       relay_mode |-> IF attached THEN "short" ELSE "detached", binded_mode |-> "short",
       relay_index |-> IF attached THEN SwitchIdx + 1 ELSE 0,
       long_press_duration |-> DefaultDuration]

\* An index that is out of range becomes that of the switch, even if there is no such
\* relay: it is invalid again then.
LoadedIndex(i) ==
  IF RelayClusters = 0 THEN 0 ELSE IF i \in Relays THEN i ELSE SwitchIdx + 1

\* switch_cluster_load_attrs_from_nv.
Loaded(stored) ==
  IF stored = {} THEN DefaultSettings
  ELSE [(CHOOSE n \in stored : TRUE) EXCEPT !.relay_index = LoadedIndex(@)]

\* The button is initialized before the attributes are loaded, with the polarity of the
\* configuration; what the relays do is up to their clusters.
Started(set, on, lit, ramp) ==
  [mode |-> set.mode, action |-> set.action, relay_mode |-> set.relay_mode,
   binded_mode |-> set.binded_mode, relay_index |-> set.relay_index,
   multistate_state |-> "not_pressed", relays |-> on, light |-> lit, ramp |-> ramp]

Reboot ==
  /\ button' = BtnInit(pin, DefaultHigh, Loaded(nv).long_press_duration)
  /\ \E on \in SUBSET Relays : s' = Started(Loaded(nv), on, s.light, Abandoned(s.ramp))
  /\ heard' = FALSE
  /\ UNCHANGED <<pin, joined, nv>>

Init ==
  /\ pin \in Level /\ joined \in BOOLEAN /\ nv = {} /\ heard = FALSE
  /\ button = BtnInit(pin, DefaultHigh, DefaultDuration)
  /\ \E on \in SUBSET Relays : s = Started(DefaultSettings, on, FALSE, "still")

-----------------------------------------------------------------------------
(* The surroundings.                                                       *)

\* Another command switches a relay.
RelayCommand ==
  /\ \E r \in Relays, on \in BOOLEAN :
       s' = [s EXCEPT !.relays = IF on THEN @ \cup {r} ELSE @ \ {r}]
  /\ UNCHANGED <<pin, button, joined, nv, heard>>

\* The light is out of reach when the network is left.
NetworkChanges ==
  /\ joined' = ~joined
  /\ s' = [s EXCEPT !.ramp = Abandoned(@)]
  /\ UNCHANGED <<pin, button, nv, heard>>

others == <<s, joined, nv, heard>>
Pin == PinFlips /\ UNCHANGED others
Dispatch == GpioDispatch /\ UNCHANGED others
Tick == ButtonTick /\ UNCHANGED others

Next ==
  \/ Pin \/ Dispatch \/ ButtonTask \/ Tick
  \/ WriteAction \/ WriteRelayMode \/ WriteBindedMode \/ WriteDuration \/ WriteRelayIndex
  \/ WriteMode \/ Reboot \/ RelayCommand \/ NetworkChanges

Spec == Init /\ [][Next]_vars

\* Interrupts are dispatched, the task runs and time passes.
FairSpec == Spec /\ WF_vars(Dispatch) /\ WF_vars(ButtonTask) /\ WF_vars(Tick)

-----------------------------------------------------------------------------
(* Properties.                                                             *)

\* The reported multistate value, which is also what the release goes by, matches the
\* button: through edges, long presses that a toggle ignores, and rewritten modes.
MultistateInSync == heard => s.multistate_state = Synchronized(button, s)

SmartAction == s.action \in {"toggle_smart_sync", "toggle_smart_opposite"}

\* A smart action leaves the light as its relay is, or as it is not: the command is
\* chosen by the relay after it was switched, whichever event switches both.
SmartInSync ==
  [][s'.light # s.light /\ SmartAction /\ HasValidRelay(s)
       /\ (InToggleMode(s) \/ s.relay_mode = s.binded_mode) =>
       (s'.light <=> RelayIsOn(s')) = (s.action = "toggle_smart_sync")]_vars

Events ==
  INSTANCE ButtonEvents WITH b <- [pressed |-> button.pressed, long_pressed |-> button.long_pressed]

\* The button, its pin bouncing and its settings rewritten, implements ButtonEvents: what
\* the clusters rely on.
ReportsEvents == Events!EventsSpec

\* A light whose level was set moving is stopped by the release, unless the network was
\* left, the device restarted or the switch turned into a toggle in the meantime.
MoveEndsWithPress ==
  s.ramp = "moving" => button.long_pressed /\ s.multistate_state = "long_press"

Released == button.pressed /\ ~button'.pressed /\ heard'

\* The release of a long press is not taken for a short press, even if the mode or the
\* actions were rewritten while the button was held; unless it was held at start-up, whose
\* release is handled although it "should not be detected as user press" (button.c:14-15).
ShortPressOnly ==
  [][Released /\ heard /\ button.long_pressed /\ ~InToggleMode(s) =>
       s'.relays = s.relays /\ s'.light = s.light]_vars

\* A press becomes a long press or ends, unless the pin or the duration keep changing;
\* the task does not run for ever in no time.
LongPressesCome ==
  ([]<><<Pin \/ WriteDuration>>_vars) \/ <>[](button.pressed => button.long_pressed)
=============================================================================
