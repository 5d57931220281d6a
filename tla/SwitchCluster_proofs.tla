------------------------ MODULE SwitchCluster_proofs ------------------------
(***************************************************************************)
(* The button and the switch cluster, for any debounce delay, any duration *)
(* of a long press, any number of relays and whatever is written when.     *)
(*                                                                         *)
(* The release of a button goes by the multistate value that its press and *)
(* its long press left behind, so the properties rest on that value being  *)
(* what the button says (MultistateInSync), and that on the order of the   *)
(* button's events (ButtonOK).  That a moving level is stopped is not      *)
(* inductive: the release must also be able to stop it (Stoppable).        *)
(***************************************************************************)
EXTENDS SwitchCluster, TLAPS

-----------------------------------------------------------------------------
(* The button.                                                             *)

TypeOK ==
  /\ pin \in Level /\ button \in ButtonState /\ s \in SwitchState
  /\ joined \in BOOLEAN /\ nv \in SUBSET Settings /\ heard \in BOOLEAN

\* What is long pressed is pressed.
ButtonOK(b) == b \in ButtonState /\ (b.long_pressed => b.pressed)

\* The constants of the button, as the provers need them.
LEMMA Times ==
  /\ Age \subseteq Nat /\ 0 \in Age /\ DebounceDelay \in Age /\ Off \notin Age
  /\ \A t \in Age : t <= MaxAge /\ Older(t) \in Age
  /\ \A t \in Age \ {0} : t - 1 \in Age
  /\ \A t, u \in Age : ~(t <= u) => t - u \in Age
BY ButtonAssumption DEF Age, Off, Older

LEMMA InitOK ==
  ASSUME NEW level \in Level, NEW high \in Level, NEW duration \in Age
  PROVE  /\ ButtonOK(BtnInit(level, high, duration))
         /\ BtnInit(level, high, duration).long_press_duration = duration
         /\ BtnInit(level, high, duration).pressed = BtnInit(level, high, duration).long_pressed
BY Times DEF BtnInit, ButtonOK, ButtonState

\* The task handles an edge, and then a long press, which needs a pressed button.
LEMMA UpdatedIs ==
  ASSUME NEW b, ButtonOK(b)
  PROVE  LET n == Updated(b)
         IN  /\ ButtonOK(n) /\ n.long_press_duration = b.long_press_duration
             /\ Presses(b) => ~b.pressed /\ ~b.long_pressed /\ n.pressed
             /\ Releases(b) => b.pressed /\ ~n.pressed /\ ~n.long_pressed /\ ~LongPresses(b)
             /\ ~Presses(b) /\ ~Releases(b) => n.pressed = b.pressed
             /\ LongPresses(b) => n.pressed /\ n.long_pressed /\ ~b.long_pressed
             /\ ~LongPresses(b) /\ ~Releases(b) => n.long_pressed = b.long_pressed
<1> DEFINE e == Edge(b)
           d == Debounced(b)
           n == Updated(b)
<1>1. b \in ButtonState
  BY DEF ButtonOK
<1>2. /\ e \in ButtonState /\ e.long_press_duration = b.long_press_duration
      /\ Presses(b) => ~b.pressed /\ e.pressed /\ e.long_pressed = b.long_pressed
      /\ Releases(b) => b.pressed /\ ~e.pressed /\ ~e.long_pressed
      /\ ~Presses(b) /\ ~Releases(b) => e = b
  BY <1>1 DEF Edge, ButtonState, Presses, Releases
<1>3. e.long_pressed => e.pressed
  BY <1>2 DEF ButtonOK
<1>4. /\ d = [e EXCEPT !.long_pressed = @ \/ LongPresses(b)]
      /\ LongPresses(b) <=>
           e.pressed /\ ~e.long_pressed /\ e.long_press_duration <= e.pressed_for
  BY DEF Debounced, LongPresses
<1> HIDE DEF e, d
<1>5. /\ d \in ButtonState /\ d.pressed = e.pressed
      /\ d.long_pressed = (e.long_pressed \/ LongPresses(b))
      /\ d.long_press_duration = e.long_press_duration /\ d.pressed_for = e.pressed_for
  BY <1>2, <1>4 DEF ButtonState
<1>6. d.pressed /\ ~d.long_pressed => d.long_press_duration - d.pressed_for \in Age
  BY <1>2, <1>4, <1>5, Times DEF ButtonState
<1>7. /\ n \in ButtonState /\ n.pressed = d.pressed /\ n.long_pressed = d.long_pressed
      /\ n.long_press_duration = d.long_press_duration
  BY <1>5, <1>6 DEF Updated, AwaitLongPress, ButtonState, d
<1> HIDE DEF n
<1>8. n.long_pressed => n.pressed
  BY <1>3, <1>4, <1>5, <1>7
<1>9. /\ b.pressed \in BOOLEAN /\ b.long_pressed \in BOOLEAN
      /\ e.pressed \in BOOLEAN /\ e.long_pressed \in BOOLEAN
  BY <1>1, <1>2 DEF ButtonState
<1>10. Presses(b) => ~b.long_pressed
  BY <1>2 DEF ButtonOK
<1>11. LongPresses(b) => ~b.long_pressed
  BY <1>2, <1>4, <1>10 DEF ButtonOK
<1>12. /\ ButtonOK(n) /\ n.long_press_duration = b.long_press_duration
  BY <1>2, <1>5, <1>7, <1>8 DEF ButtonOK
<1>13. n.pressed = e.pressed /\ n.long_pressed = (e.long_pressed \/ LongPresses(b))
  BY <1>5, <1>7
<1>14. Presses(b) => ~b.pressed /\ n.pressed
  BY <1>2, <1>13
<1>15. Releases(b) => b.pressed /\ ~n.pressed /\ ~LongPresses(b) /\ ~n.long_pressed
  BY <1>2, <1>4, <1>13
<1>16. ~Presses(b) /\ ~Releases(b) => n.pressed = b.pressed
  BY <1>2, <1>13
<1>17. LongPresses(b) => n.pressed /\ n.long_pressed
  BY <1>4, <1>13
<1>18. ~LongPresses(b) /\ ~Releases(b) => n.long_pressed = b.long_pressed
  BY <1>2, <1>9, <1>13
<1> QED
  BY <1>10, <1>11, <1>12, <1>14, <1>15, <1>16, <1>17, <1>18 DEF n

\* Neither the interrupt nor the passage of time changes what is reported.
SameEvents(b, n) ==
  /\ ButtonOK(n) /\ n.pressed = b.pressed /\ n.long_pressed = b.long_pressed
  /\ n.long_press_duration = b.long_press_duration

LEMMA DispatchSame == ButtonOK(button) /\ pin \in Level /\ GpioDispatch => SameEvents(button, button')
BY Times DEF ButtonOK, ButtonState, GpioDispatch, GpioCallback, SameEvents

LEMMA TickSame == ButtonOK(button) /\ ButtonTick => SameEvents(button, button')
<1> SUFFICES ASSUME ButtonOK(button), ButtonTick PROVE SameEvents(button, button')
  OBVIOUS
<1>1. button \in ButtonState
  BY DEF ButtonOK
<1>2. /\ Older(button.pressed_for) \in Age /\ Older(button.since_change) \in Age
      /\ (IF button.update_task = Off THEN Off ELSE button.update_task - 1) \in {Off} \cup Age
  BY <1>1, Times DEF ButtonTick, ButtonState
<1> QED
  BY <1>1, <1>2 DEF ButtonTick, ButtonOK, ButtonState, SameEvents
-----------------------------------------------------------------------------
(* The relay and the bound light.                                          *)

\* What the actions and handlers leave alone.
SameSettings(k, n) ==
  /\ n.mode = k.mode /\ n.action = k.action /\ n.relay_mode = k.relay_mode
  /\ n.binded_mode = k.binded_mode /\ n.relay_index = k.relay_index

Smart(k) == k.action \in {"toggle_smart_sync", "toggle_smart_opposite"} /\ HasValidRelay(k)

\* A changed light is in step with the relay, as the smart action asks.
InStep(k, n) ==
  n.light # k.light /\ Smart(k) =>
    (n.light <=> RelayIsOn(n)) = (k.action = "toggle_smart_sync")

LEMMA RelaySetIs ==
  ASSUME NEW k \in SwitchState, NEW on \in BOOLEAN, HasValidRelay(k)
  PROVE  LET n == RelaySet(k, on)
         IN  /\ n \in SwitchState /\ SameSettings(k, n) /\ n.light = k.light
             /\ n.multistate_state = k.multistate_state /\ n.ramp = k.ramp
BY DEF RelaySet, HasValidRelay, SwitchState, SameSettings

LEMMA RelayActionIs ==
  ASSUME NEW k \in SwitchState, NEW on \in BOOLEAN
  PROVE  LET n == RelayAction(k, on)
         IN  /\ n \in SwitchState /\ SameSettings(k, n) /\ n.light = k.light
             /\ n.multistate_state = k.multistate_state /\ n.ramp = k.ramp
<1>1. CASE ~HasValidRelay(k)
  BY <1>1 DEF RelayAction, SameSettings
<1>2. CASE HasValidRelay(k)
  <2>1. (~RelayIsOn(k)) \in BOOLEAN /\ (~on) \in BOOLEAN
    BY DEF RelayIsOn
  <2>2. \/ RelayAction(k, on) = RelaySet(k, on)
        \/ RelayAction(k, on) = RelaySet(k, ~on)
        \/ RelayAction(k, on) = RelaySet(k, ~RelayIsOn(k))
    BY <1>2 DEF RelayAction, RelayToggle
  <2>3. PICK to \in BOOLEAN : RelayAction(k, on) = RelaySet(k, to)
    BY <2>1, <2>2, Zenon
  <2> QED
    BY <1>2, <2>3, RelaySetIs
<1> QED
  BY <1>1, <1>2

\* The command to the light goes by the relay as it is by then.
LEMMA BindingActionIs ==
  ASSUME NEW k \in SwitchState, NEW on \in BOOLEAN
  PROVE  LET n == BindingAction(k, on)
         IN  /\ n \in SwitchState /\ SameSettings(k, n) /\ n.relays = k.relays
             /\ n.multistate_state = k.multistate_state /\ n.ramp = k.ramp
             /\ InStep(k, n)
<1>1. BindingCommand(k, on) \in BOOLEAN
  <2>1. k.light \in BOOLEAN /\ (~k.light) \in BOOLEAN /\ (~on) \in BOOLEAN
        /\ RelayIsOn(k) \in BOOLEAN /\ (~RelayIsOn(k)) \in BOOLEAN
    BY DEF RelayIsOn, SwitchState
  <2> QED
    BY <2>1 DEF BindingCommand
<1>2. Smart(k) => BindingCommand(k, on) = IF k.action = "toggle_smart_sync"
                                          THEN RelayIsOn(k) ELSE ~RelayIsOn(k)
  BY DEF Smart, BindingCommand
<1> DEFINE told == [k EXCEPT !.light = BindingCommand(k, on)]
<1>3. /\ told \in SwitchState /\ SameSettings(k, told) /\ told.relays = k.relays
      /\ told.multistate_state = k.multistate_state /\ told.ramp = k.ramp
      /\ told.light = BindingCommand(k, on)
  BY <1>1 DEF SwitchState, SameSettings
<1> HIDE DEF told
<1>4. RelayIsOn(told) <=> RelayIsOn(k)
  BY <1>3 DEF RelayIsOn, SameSettings
<1>5. InStep(k, told)
  BY <1>2, <1>3, <1>4 DEF InStep
<1>6. InStep(k, k)
  BY DEF InStep
<1> QED
  BY <1>3, <1>5, <1>6 DEF BindingAction, SameSettings, told

LEMMA ActIs ==
  ASSUME NEW k \in SwitchState, NEW relay_acts \in BOOLEAN, NEW binding_acts \in BOOLEAN,
         NEW on \in BOOLEAN
  PROVE  LET n == Act(k, relay_acts, binding_acts, on)
         IN  /\ n \in SwitchState /\ SameSettings(k, n)
             /\ n.multistate_state = k.multistate_state /\ n.ramp = k.ramp
             /\ ~relay_acts => n.relays = k.relays
             /\ ~binding_acts => n.light = k.light
             /\ InStep(k, n)
<1> DEFINE w == IF relay_acts THEN RelayAction(k, on) ELSE k
           n == IF binding_acts THEN BindingAction(w, on) ELSE w
<1>1. /\ w \in SwitchState /\ SameSettings(k, w) /\ w.light = k.light
      /\ w.multistate_state = k.multistate_state /\ w.ramp = k.ramp
      /\ ~relay_acts => w.relays = k.relays
  BY RelayActionIs DEF SameSettings
<1>2. Act(k, relay_acts, binding_acts, on) = n
  BY DEF Act
<1> HIDE DEF w
<1>3. /\ n \in SwitchState /\ SameSettings(w, n) /\ n.relays = w.relays
      /\ n.multistate_state = w.multistate_state /\ n.ramp = w.ramp /\ InStep(w, n)
  BY <1>1, BindingActionIs DEF SameSettings, InStep
<1>4. ~binding_acts => n.light = w.light
  OBVIOUS
<1> HIDE DEF n
<1>5. SameSettings(k, n)
  BY <1>1, <1>3 DEF SameSettings
<1>6. InStep(k, n)
  BY <1>1, <1>3 DEF InStep, Smart, HasValidRelay, SameSettings
<1> QED
  BY <1>1, <1>2, <1>3, <1>4, <1>5, <1>6

-----------------------------------------------------------------------------
(* The handlers of the button.                                             *)

\* A handler that sets the multistate value only changes nothing of the rest.
LEMMA MarkedIs ==
  ASSUME NEW k \in SwitchState, NEW value \in Multistate
  PROVE  LET n == [k EXCEPT !.multistate_state = value]
         IN  /\ n \in SwitchState /\ SameSettings(k, n) /\ n.relays = k.relays
             /\ n.light = k.light /\ n.ramp = k.ramp /\ n.multistate_state = value
BY DEF SwitchState, SameSettings

\* What every handler does, whatever the attributes: n is the cluster after it.
Handles(k, n) == n \in SwitchState /\ SameSettings(k, n)

\* The same after the multistate value is set.
LEMMA ActMarked ==
  ASSUME NEW k \in SwitchState, NEW relay_acts \in BOOLEAN, NEW binding_acts \in BOOLEAN,
         NEW on \in BOOLEAN, NEW value \in Multistate
  PROVE  LET n == [Act(k, relay_acts, binding_acts, on) EXCEPT !.multistate_state = value]
         IN  /\ Handles(k, n) /\ n.multistate_state = value /\ n.ramp = k.ramp
             /\ ~relay_acts => n.relays = k.relays
             /\ ~binding_acts => n.light = k.light
             /\ InStep(k, n)
<1> DEFINE a == Act(k, relay_acts, binding_acts, on)
           n == [a EXCEPT !.multistate_state = value]
<1>1. /\ a \in SwitchState /\ SameSettings(k, a) /\ a.ramp = k.ramp
      /\ ~relay_acts => a.relays = k.relays
      /\ ~binding_acts => a.light = k.light
      /\ InStep(k, a)
  BY ActIs
<1> HIDE DEF a
<1>2. /\ n \in SwitchState /\ SameSettings(a, n) /\ n.relays = a.relays
      /\ n.light = a.light /\ n.ramp = a.ramp /\ n.multistate_state = value
  BY <1>1, MarkedIs
<1> HIDE DEF n
<1>3. InStep(k, n)
  BY <1>1, <1>2 DEF InStep, RelayIsOn, SameSettings
<1>4. SameSettings(k, n)
  BY <1>1, <1>2 DEF SameSettings
<1> QED
  BY <1>1, <1>2, <1>3, <1>4 DEF Handles, n, a

LEMMA PressIs ==
  ASSUME NEW k \in SwitchState
  PROVE  LET n == OnButtonPress(k)
         IN  /\ Handles(k, n) /\ n.ramp = k.ramp /\ InStep(k, n)
             /\ n.multistate_state = IF InToggleMode(k) THEN "position_on" ELSE "press"
             /\ ~InToggleMode(k) =>
                  /\ k.relay_mode # "rise" => n.relays = k.relays
                  /\ k.binded_mode # "rise" => n.light = k.light
<1>1. "position_on" \in Multistate /\ "press" \in Multistate
  BY DEF Multistate
<1>2. CASE InToggleMode(k)
  <2> DEFINE relay_acts == k.relay_mode # "detached"
             binding_acts == TRUE
             on == TRUE
             n == [Act(k, relay_acts, binding_acts, on) EXCEPT !.multistate_state = "position_on"]
  <2>1. relay_acts \in BOOLEAN /\ binding_acts \in BOOLEAN /\ on \in BOOLEAN
    OBVIOUS
  <2>2. OnButtonPress(k) = n
    BY <1>2, Zenon DEF OnButtonPress, Position
  <2>3. (relay_acts <=> k.relay_mode # "detached") /\ (binding_acts <=> TRUE)
    OBVIOUS
  <2> HIDE DEF relay_acts, binding_acts, on
  <2>4. /\ Handles(k, n) /\ n.multistate_state = "position_on" /\ n.ramp = k.ramp
        /\ ~relay_acts => n.relays = k.relays
        /\ ~binding_acts => n.light = k.light
        /\ InStep(k, n)
    BY <1>1, <2>1, ActMarked
  <2> HIDE DEF n
  <2> QED
    BY <1>2, <2>2, <2>3, <2>4
<1>3. CASE ~InToggleMode(k)
  <2> DEFINE relay_acts == k.relay_mode = "rise"
             binding_acts == k.binded_mode = "rise"
             on == TRUE
             n == [Act(k, relay_acts, binding_acts, on) EXCEPT !.multistate_state = "press"]
  <2>1. relay_acts \in BOOLEAN /\ binding_acts \in BOOLEAN /\ on \in BOOLEAN
    OBVIOUS
  <2>2. OnButtonPress(k) = n
    BY <1>3, Zenon DEF OnButtonPress
  <2>3. (relay_acts <=> k.relay_mode = "rise") /\ (binding_acts <=> k.binded_mode = "rise")
    OBVIOUS
  <2> HIDE DEF relay_acts, binding_acts, on
  <2>4. /\ Handles(k, n) /\ n.multistate_state = "press" /\ n.ramp = k.ramp
        /\ ~relay_acts => n.relays = k.relays
        /\ ~binding_acts => n.light = k.light
        /\ InStep(k, n)
    BY <1>1, <2>1, ActMarked
  <2> HIDE DEF n
  <2> QED
    BY <1>3, <2>2, <2>3, <2>4
<1> QED
  BY <1>2, <1>3

\* LevelControl and LevelStop change the ramp only, in a network.
LEMMA RampIs ==
  ASSUME NEW k \in SwitchState
  PROVE  /\ LevelControl(k) \in SwitchState /\ SameSettings(k, LevelControl(k))
         /\ LevelControl(k).relays = k.relays /\ LevelControl(k).light = k.light
         /\ LevelControl(k).multistate_state = k.multistate_state
         /\ LevelControl(k).ramp = (IF joined THEN "moving" ELSE k.ramp)
         /\ LevelStop(k) \in SwitchState /\ SameSettings(k, LevelStop(k))
         /\ LevelStop(k).relays = k.relays /\ LevelStop(k).light = k.light
         /\ LevelStop(k).ramp = (IF joined THEN "still" ELSE k.ramp)
BY DEF LevelControl, LevelStop, SwitchState, SameSettings, Ramp

LEMMA ReleaseIs ==
  ASSUME NEW k \in SwitchState
  PROVE  LET n == OnButtonRelease(k)
         IN  /\ Handles(k, n) /\ InStep(k, n)
             /\ n.multistate_state = IF InToggleMode(k) THEN "position_off" ELSE "not_pressed"
             /\ n.ramp = k.ramp \/ n.ramp = "still"
             /\ ~InToggleMode(k) /\ k.multistate_state = "long_press" =>
                  /\ n.relays = k.relays /\ n.light = k.light
                  /\ joined => n.ramp = "still"
<1>1. "position_off" \in Multistate /\ "not_pressed" \in Multistate
  BY DEF Multistate
<1>2. CASE InToggleMode(k)
  <2> DEFINE relay_acts == k.relay_mode # "detached"
             binding_acts == TRUE
             on == FALSE
             n == [Act(k, relay_acts, binding_acts, on) EXCEPT !.multistate_state = "position_off"]
  <2>1. relay_acts \in BOOLEAN /\ binding_acts \in BOOLEAN /\ on \in BOOLEAN
    OBVIOUS
  <2>2. OnButtonRelease(k) = n
    BY <1>2, Zenon DEF OnButtonRelease, Position
  <2>3. (relay_acts <=> k.relay_mode # "detached") /\ (binding_acts <=> TRUE)
    OBVIOUS
  <2> HIDE DEF relay_acts, binding_acts, on
  <2>4. /\ Handles(k, n) /\ n.multistate_state = "position_off" /\ n.ramp = k.ramp
        /\ ~relay_acts => n.relays = k.relays
        /\ ~binding_acts => n.light = k.light
        /\ InStep(k, n)
    BY <1>1, <2>1, ActMarked
  <2> HIDE DEF n
  <2> QED
    BY <1>2, <2>2, <2>3, <2>4
<1>3. CASE ~InToggleMode(k) /\ k.multistate_state = "long_press"
  <2> DEFINE l == LevelStop(k)
             n == [l EXCEPT !.multistate_state = "not_pressed"]
  <2>1. /\ l \in SwitchState /\ SameSettings(k, l) /\ l.relays = k.relays /\ l.light = k.light
        /\ l.ramp = (IF joined THEN "still" ELSE k.ramp)
    BY RampIs
  <2> HIDE DEF l
  <2>2. /\ n \in SwitchState /\ SameSettings(l, n) /\ n.relays = l.relays
        /\ n.light = l.light /\ n.ramp = l.ramp /\ n.multistate_state = "not_pressed"
    BY <1>1, <2>1, MarkedIs
  <2>3. OnButtonRelease(k) = n
    BY <1>3 DEF OnButtonRelease, l
  <2> HIDE DEF n
  <2> QED
    BY <1>3, <2>1, <2>2, <2>3 DEF Handles, InStep, SameSettings
<1>4. CASE ~InToggleMode(k) /\ k.multistate_state # "long_press"
  <2> DEFINE relay_acts == k.relay_mode = "short"
             binding_acts == k.binded_mode = "short"
             on == TRUE
             n == [Act(k, relay_acts, binding_acts, on) EXCEPT !.multistate_state = "not_pressed"]
  <2>1. relay_acts \in BOOLEAN /\ binding_acts \in BOOLEAN /\ on \in BOOLEAN
    OBVIOUS
  <2>2. OnButtonRelease(k) = n
    BY <1>4, Zenon DEF OnButtonRelease
  <2>3. (relay_acts <=> k.relay_mode = "short") /\ (binding_acts <=> k.binded_mode = "short")
    OBVIOUS
  <2> HIDE DEF relay_acts, binding_acts, on
  <2>4. /\ Handles(k, n) /\ n.multistate_state = "not_pressed" /\ n.ramp = k.ramp
        /\ ~relay_acts => n.relays = k.relays
        /\ ~binding_acts => n.light = k.light
        /\ InStep(k, n)
    BY <1>1, <2>1, ActMarked
  <2> HIDE DEF n
  <2> QED
    BY <1>4, <2>2, <2>3, <2>4
<1> QED
  BY <1>2, <1>3, <1>4

LEMMA LongPressIs ==
  ASSUME NEW k \in SwitchState
  PROVE  LET n == OnButtonLongPress(k)
         IN  /\ Handles(k, n) /\ InStep(k, n)
             /\ InToggleMode(k) => n = k
             /\ ~InToggleMode(k) =>
                  /\ n.multistate_state = "long_press"
                  /\ n.ramp = (IF joined THEN "moving" ELSE k.ramp)
                  /\ k.relay_mode # "long" => n.relays = k.relays
                  /\ k.binded_mode # "long" => n.light = k.light
<1>1. CASE InToggleMode(k)
  BY <1>1 DEF OnButtonLongPress, Handles, SameSettings, InStep
<1>2. CASE ~InToggleMode(k)
  <2> DEFINE w == IF k.relay_mode = "long" /\ HasValidRelay(k) THEN RelayToggle(k) ELSE k
             a == Act(w, FALSE, k.binded_mode = "long", TRUE)
             l == LevelControl(a)
             n == [l EXCEPT !.multistate_state = "long_press"]
  <2>1. /\ w \in SwitchState /\ SameSettings(k, w) /\ w.light = k.light /\ w.ramp = k.ramp
        /\ k.relay_mode # "long" => w.relays = k.relays
    <3>1. (~RelayIsOn(k)) \in BOOLEAN
      BY DEF RelayIsOn
    <3> QED
      BY <3>1, RelaySetIs DEF RelayToggle, SameSettings
  <2> HIDE DEF w
  <2>2. (k.binded_mode = "long") \in BOOLEAN
    OBVIOUS
  <2>3. /\ a \in SwitchState /\ SameSettings(w, a) /\ a.ramp = w.ramp /\ a.relays = w.relays
        /\ k.binded_mode # "long" => a.light = w.light
        /\ InStep(w, a)
    BY <2>1, <2>2, ActIs
  <2> HIDE DEF a
  <2>4. /\ l \in SwitchState /\ SameSettings(a, l) /\ l.relays = a.relays
        /\ l.light = a.light /\ l.ramp = (IF joined THEN "moving" ELSE a.ramp)
    BY <2>3, RampIs
  <2> HIDE DEF l
  <2>5. /\ n \in SwitchState /\ SameSettings(l, n) /\ n.relays = l.relays
        /\ n.light = l.light /\ n.ramp = l.ramp /\ n.multistate_state = "long_press"
    BY <2>4, MarkedIs DEF Multistate
  <2>6. OnButtonLongPress(k) = n
    BY <1>2 DEF OnButtonLongPress, l, a, w
  <2> HIDE DEF n
  <2>7. SameSettings(k, n) /\ n.relays = w.relays /\ n.light = a.light
    BY <2>1, <2>3, <2>4, <2>5 DEF SameSettings
  <2>8. InStep(k, n)
    BY <2>1, <2>3, <2>7 DEF InStep, Smart, HasValidRelay, RelayIsOn, SameSettings
  <2> QED
    BY <1>2, <2>1, <2>3, <2>4, <2>5, <2>6, <2>7, <2>8 DEF Handles
<1> QED
  BY <1>1, <1>2
-----------------------------------------------------------------------------
(* The invariant.                                                          *)

\* The release of the button can stop a level that moves: a toggle and a switch out of
\* the network do not stop anything, so nothing may be moving under them.
Stoppable == s.ramp = "moving" => joined /\ ~InToggleMode(s)

IInv == TypeOK /\ ButtonOK(button) /\ MultistateInSync /\ MoveEndsWithPress /\ Stoppable

\* The two stages of the button's task.
EdgeHandled(b, k) ==
  CASE Presses(b) -> OnButtonPress(k)
    [] Releases(b) -> OnButtonRelease(k)
    [] OTHER -> k

LEMMA HandledIs ==
  ASSUME NEW b, NEW k
  PROVE  Handled(b, k) =
           IF LongPresses(b) THEN OnButtonLongPress(EdgeHandled(b, k)) ELSE EdgeHandled(b, k)
BY DEF Handled, EdgeHandled

LEMMA EdgeHandledIs ==
  ASSUME NEW b, NEW k \in SwitchState
  PROVE  LET n == EdgeHandled(b, k)
         IN  /\ Handles(k, n) /\ InStep(k, n)
             /\ n.ramp = k.ramp \/ n.ramp = "still"
             /\ Presses(b) =>
                  n.multistate_state = IF InToggleMode(k) THEN "position_on" ELSE "press"
             /\ Releases(b) =>
                  /\ n.multistate_state = IF InToggleMode(k) THEN "position_off" ELSE "not_pressed"
                  /\ ~InToggleMode(k) /\ k.multistate_state = "long_press" =>
                       /\ n.relays = k.relays /\ n.light = k.light
                       /\ joined => n.ramp = "still"
             /\ ~Releases(b) /\ ~InToggleMode(k) =>
                  /\ k.relay_mode # "rise" => n.relays = k.relays
                  /\ k.binded_mode # "rise" => n.light = k.light
             /\ ~Presses(b) /\ ~Releases(b) => n = k
<1>1. CASE Presses(b)
  <2>1. EdgeHandled(b, k) = OnButtonPress(k) /\ ~Releases(b)
    BY <1>1 DEF EdgeHandled, Presses, Releases
  <2> QED
    BY <1>1, <2>1, PressIs
<1>2. CASE Releases(b)
  <2>1. EdgeHandled(b, k) = OnButtonRelease(k) /\ ~Presses(b)
    BY <1>2 DEF EdgeHandled, Presses, Releases
  <2> QED
    BY <1>2, <2>1, ReleaseIs
<1>3. CASE ~Presses(b) /\ ~Releases(b)
  <2>1. EdgeHandled(b, k) = k
    BY <1>3 DEF EdgeHandled
  <2> QED
    BY <1>3, <2>1 DEF Handles, SameSettings, InStep
<1> QED
  BY <1>1, <1>2, <1>3

\* The task of the button in one step: what the button then says, and the cluster.
LEMMA TaskTypes ==
  ASSUME IInv, ButtonTask
  PROVE  TypeOK' /\ ButtonOK(button)' /\ SameSettings(s, s')
<1>1. button' = Updated(button) /\ ButtonOK(button')
  BY UpdatedIs DEF ButtonTask, UpdateTask, IInv
<1>2. Handles(s, EdgeHandled(button, s))
  BY EdgeHandledIs DEF IInv, TypeOK
<1>3. Handles(s, s')
  BY <1>2, HandledIs, LongPressIs DEF ButtonTask, Handles, SameSettings
<1>4. heard' \in BOOLEAN
  BY DEF ButtonTask, IInv, TypeOK, Presses, Releases
<1> QED
  BY <1>1, <1>3, <1>4 DEF ButtonTask, UpdateTask, IInv, TypeOK, ButtonOK, Handles

LEMMA TaskInSync ==
  ASSUME IInv, ButtonTask
  PROVE  MultistateInSync'
<1> DEFINE e == EdgeHandled(button, s)
<1>1. SUFFICES ASSUME heard' PROVE s'.multistate_state = Synchronized(button', s')
  BY DEF MultistateInSync
<1>2. /\ ButtonOK(button) /\ s \in SwitchState /\ button' = Updated(button)
      /\ s' = Handled(button, s) /\ SameSettings(s, s')
      /\ ~Presses(button) /\ ~Releases(button) =>
           s.multistate_state = Synchronized(button, s)
  BY <1>1, TaskTypes DEF ButtonTask, UpdateTask, IInv, TypeOK, MultistateInSync
<1>3. InToggleMode(s') <=> InToggleMode(s)
  BY <1>2 DEF InToggleMode, SameSettings
<1>4. CASE Releases(button)
  <2>1. s' = e /\ ~button'.pressed /\ ~button'.long_pressed
    BY <1>2, <1>4, UpdatedIs, HandledIs
  <2>2. e.multistate_state = IF InToggleMode(s) THEN "position_off" ELSE "not_pressed"
    BY <1>2, <1>4, EdgeHandledIs
  <2> HIDE DEF e
  <2> QED
    BY <1>3, <2>1, <2>2 DEF Synchronized
<1>5. CASE LongPresses(button) /\ ~Releases(button)
  <2>1. s' = OnButtonLongPress(e) /\ button'.pressed /\ button'.long_pressed
    BY <1>2, <1>5, UpdatedIs, HandledIs
  <2>2. /\ e \in SwitchState /\ (InToggleMode(e) <=> InToggleMode(s))
        /\ Presses(button) => e.multistate_state =
             IF InToggleMode(s) THEN "position_on" ELSE "press"
        /\ ~Presses(button) => e = s
    BY <1>2, <1>5, EdgeHandledIs DEF Handles, SameSettings, InToggleMode
  <2> HIDE DEF e
  <2>3. CASE ~InToggleMode(s)
    <3>1. s'.multistate_state = "long_press"
      BY <2>1, <2>2, <2>3, LongPressIs
    <3> QED
      BY <1>3, <2>1, <2>3, <3>1 DEF Synchronized
  <2>4. CASE InToggleMode(s)
    <3>1. s' = e
      BY <2>1, <2>2, <2>4, LongPressIs
    <3>2. ~Presses(button) => button.pressed
      BY <1>2, <1>5, <2>1, UpdatedIs
    <3>3. s'.multistate_state = "position_on"
      BY <1>2, <1>5, <2>2, <2>4, <3>1, <3>2 DEF Synchronized
    <3> QED
      BY <1>3, <2>1, <2>4, <3>3 DEF Synchronized
  <2> QED
    BY <2>3, <2>4
<1>6. CASE ~LongPresses(button) /\ ~Releases(button)
  <2>1. s' = e /\ button'.long_pressed = button.long_pressed
    BY <1>2, <1>6, UpdatedIs, HandledIs
  <2>2. CASE Presses(button)
    <3>1. /\ button'.pressed /\ ~button'.long_pressed
          /\ e.multistate_state = IF InToggleMode(s) THEN "position_on" ELSE "press"
      BY <1>2, <2>1, <2>2, UpdatedIs, EdgeHandledIs
    <3> HIDE DEF e
    <3> QED
      BY <1>3, <2>1, <3>1 DEF Synchronized
  <2>3. CASE ~Presses(button)
    <3>1. s' = s /\ button'.pressed = button.pressed
      BY <1>2, <1>6, <2>1, <2>3, UpdatedIs, EdgeHandledIs
    <3> QED
      BY <1>2, <1>6, <2>1, <2>3, <3>1 DEF Synchronized, InToggleMode
  <2> QED
    BY <2>2, <2>3
<1> QED
  BY <1>4, <1>5, <1>6

LEMMA TaskMoves ==
  ASSUME IInv, ButtonTask
  PROVE  MoveEndsWithPress' /\ Stoppable'
<1> DEFINE e == EdgeHandled(button, s)
<1>1. SUFFICES ASSUME s'.ramp = "moving"
      PROVE  /\ button'.long_pressed /\ s'.multistate_state = "long_press"
             /\ joined' /\ ~InToggleMode(s')
  BY DEF MoveEndsWithPress, Stoppable
<1>2. /\ ButtonOK(button) /\ s \in SwitchState /\ button' = Updated(button)
      /\ s' = Handled(button, s) /\ SameSettings(s, s') /\ joined' = joined
      /\ s.ramp = "moving" => /\ button.long_pressed /\ s.multistate_state = "long_press"
                              /\ joined /\ ~InToggleMode(s)
  BY TaskTypes DEF ButtonTask, UpdateTask, IInv, TypeOK, MoveEndsWithPress, Stoppable
<1>3. InToggleMode(s') <=> InToggleMode(s)
  BY <1>2 DEF InToggleMode, SameSettings
<1>4. /\ e \in SwitchState /\ (InToggleMode(e) <=> InToggleMode(s))
      /\ e.ramp = s.ramp \/ e.ramp = "still"
      /\ Releases(button) /\ ~InToggleMode(s) /\ s.multistate_state = "long_press" /\ joined =>
           e.ramp = "still"
      /\ ~Presses(button) /\ ~Releases(button) => e = s
  BY <1>2, EdgeHandledIs DEF Handles, SameSettings, InToggleMode
<1>5. s' = IF LongPresses(button) THEN OnButtonLongPress(e) ELSE e
  BY <1>2, HandledIs
<1>6. "still" # "moving"
  OBVIOUS
<1> HIDE DEF e
<1>7. CASE LongPresses(button)
  <2>1. button'.long_pressed /\ ~button.long_pressed
    BY <1>2, <1>7, UpdatedIs
  <2>2. s' = OnButtonLongPress(e) /\ e.ramp # "moving"
    BY <1>2, <1>4, <1>5, <1>6, <1>7, <2>1
  <2>3. ~InToggleMode(s)
    BY <1>1, <1>4, <2>2, LongPressIs
  <2>4. s'.multistate_state = "long_press" /\ joined
    BY <1>1, <1>4, <2>2, <2>3, LongPressIs
  <2> QED
    BY <1>2, <1>3, <2>1, <2>3, <2>4
<1>8. CASE ~LongPresses(button)
  <2>1. s' = e /\ s.ramp = "moving"
    BY <1>1, <1>4, <1>5, <1>6, <1>8
  <2>2. ~Releases(button)
    BY <1>1, <1>2, <1>4, <1>6, <2>1
  <2>3. ~Presses(button)
    BY <1>2, <2>1, UpdatedIs
  <2>4. s' = s /\ button'.long_pressed = button.long_pressed
    BY <1>2, <1>4, <1>8, <2>1, <2>2, <2>3, UpdatedIs
  <2> QED
    BY <1>2, <2>1, <2>4
<1> QED
  BY <1>7, <1>8
-----------------------------------------------------------------------------
(* The steps of the specification.                                         *)

\* The invariant holds as long as nothing it speaks of changes.
LEMMA SameInv ==
  ASSUME IInv, TypeOK', SameEvents(button, button'), UNCHANGED <<joined, heard>>,
         s'.mode = s.mode, s'.multistate_state = s.multistate_state, s'.ramp = s.ramp
  PROVE  IInv'
BY DEF IInv, MultistateInSync, MoveEndsWithPress, Stoppable, Synchronized, InToggleMode,
       SameEvents

LEMMA SettingsType ==
  ASSUME NEW k \in SwitchState, NEW b \in ButtonState
  PROVE  [mode |-> k.mode, action |-> k.action, relay_mode |-> k.relay_mode,
          binded_mode |-> k.binded_mode, relay_index |-> k.relay_index,
          long_press_duration |-> b.long_press_duration] \in Settings
BY DEF SwitchState, ButtonState, Settings

LEMMA IndexTypes ==
  /\ Relays \subseteq Index /\ 0 \in Index /\ SwitchIdx + 1 \in Index
  /\ (RelayClusters # 0 => 1 \in Index)
BY SwitchAssumption DEF Relays, Index

\* A rewritten attribute other than the mode does not concern the button's events.
LEMMA WriteInv ==
  ASSUME IInv, NEW k \in SwitchState, Write(k), SameEvents([button EXCEPT !.long_press_duration = button'.long_press_duration], button'),
         k.mode = s.mode, k.multistate_state = s.multistate_state, k.ramp = s.ramp
  PROVE  IInv'
<1>1. /\ s' = k /\ nv' = {Current'} /\ UNCHANGED <<pin, joined, heard>>
  BY DEF Write, Store
<1>2. button' \in ButtonState /\ button'.pressed = button.pressed
      /\ button'.long_pressed = button.long_pressed /\ ButtonOK(button')
  BY DEF IInv, ButtonOK, ButtonState, SameEvents
<1>3. Current' \in Settings
  BY <1>1, <1>2, SettingsType DEF Current
<1>4. TypeOK'
  BY <1>1, <1>2, <1>3 DEF IInv, TypeOK
<1> QED
  BY <1>1, <1>2, <1>4 DEF IInv, MultistateInSync, MoveEndsWithPress, Stoppable, Synchronized,
     InToggleMode

\* The writes of every attribute but the mode.
AttributeWrite ==
  WriteAction \/ WriteRelayMode \/ WriteBindedMode \/ WriteDuration \/ WriteRelayIndex

LEMMA AttributeWriteInv == IInv /\ AttributeWrite => IInv'
<1> SUFFICES ASSUME IInv, AttributeWrite PROVE IInv'
  OBVIOUS
<1>1. s \in SwitchState /\ button \in ButtonState /\ ButtonOK(button)
  BY DEF IInv, TypeOK
<1> DEFINE Kept == SameEvents([button EXCEPT !.long_press_duration = button'.long_press_duration],
                              button')
<1>2. UNCHANGED button => Kept
  BY <1>1 DEF SameEvents, ButtonState
<1>3. ASSUME NEW a \in Actions, UNCHANGED button, Write([s EXCEPT !.action = a]) PROVE IInv'
  <2>1. [s EXCEPT !.action = a] \in SwitchState
    BY <1>1, SwitchAssumption DEF SwitchState
  <2> QED
    BY <1>1, <1>2, <1>3, <2>1, WriteInv DEF SwitchState
<1>4. ASSUME NEW m \in RelayModes, UNCHANGED button, Write([s EXCEPT !.relay_mode = m])
      PROVE  IInv'
  <2>1. [s EXCEPT !.relay_mode = m] \in SwitchState
    BY <1>1, SwitchAssumption DEF SwitchState
  <2> QED
    BY <1>1, <1>2, <1>4, <2>1, WriteInv DEF SwitchState
<1>5. ASSUME NEW m \in BindedModes, UNCHANGED button, Write([s EXCEPT !.binded_mode = m])
      PROVE  IInv'
  <2>1. [s EXCEPT !.binded_mode = m] \in SwitchState
    BY <1>1, SwitchAssumption DEF SwitchState
  <2> QED
    BY <1>1, <1>2, <1>5, <2>1, WriteInv DEF SwitchState
<1>6. ASSUME NEW i \in Indexes, UNCHANGED button,
             Write([s EXCEPT !.relay_index = WrittenIndex(i)])
      PROVE  IInv'
  <2>1. WrittenIndex(i) \in Index
    BY IndexTypes DEF WrittenIndex
  <2>2. [s EXCEPT !.relay_index = WrittenIndex(i)] \in SwitchState
    BY <1>1, <2>1 DEF SwitchState
  <2> QED
    BY <1>1, <1>2, <1>6, <2>2, WriteInv DEF SwitchState
<1>7. ASSUME NEW d \in Durations, button' = [button EXCEPT !.long_press_duration = d], Write(s)
      PROVE  IInv'
  <2>1. d \in Age
    BY SwitchAssumption
  <2>2. Kept
    BY <1>1, <1>7, <2>1 DEF SameEvents, ButtonOK, ButtonState
  <2> QED
    BY <1>1, <1>7, <2>2, WriteInv
<1> QED
  BY <1>3, <1>4, <1>5, <1>6, <1>7
  DEF AttributeWrite, WriteAction, WriteRelayMode, WriteBindedMode, WriteDuration, WriteRelayIndex

\* A rewritten mode takes the multistate value with it, and gives up a level that moves
\* if it makes a toggle.
LEMMA WriteModeInv == IInv /\ WriteMode => IInv'
<1> SUFFICES ASSUME IInv, NEW m \in Modes, s' = WrittenMode(m),
                    button' = [button EXCEPT !.pressed_when_high =
                                 IF m = "momentary_nc" THEN 1 ELSE 0],
                    Store, heard' = TRUE, UNCHANGED <<pin, joined>>
             PROVE  IInv'
  BY DEF WriteMode
<1> DEFINE k == [s EXCEPT !.mode = m, !.ramp = IF m = "toggle" THEN Abandoned(@) ELSE @]
           value == Synchronized(button, k)
<1>1. s \in SwitchState /\ button \in ButtonState /\ m \in Mode
  BY SwitchAssumption DEF IInv, TypeOK
<1>2. (IF m = "toggle" THEN Abandoned(s.ramp) ELSE s.ramp) \in Ramp
  BY <1>1 DEF SwitchState, Abandoned, Ramp
<1>3. /\ k \in SwitchState /\ k.mode = m
      /\ k.ramp = IF m = "toggle" THEN Abandoned(s.ramp) ELSE s.ramp
  BY <1>1, <1>2 DEF SwitchState
<1>4. value \in Multistate
  BY DEF Synchronized, Multistate
<1>5. s' = [k EXCEPT !.multistate_state = value]
  BY DEF WrittenMode
<1> HIDE DEF k, value
<1>6. /\ s' \in SwitchState /\ s'.mode = m /\ s'.ramp = k.ramp
      /\ s'.multistate_state = value
  BY <1>3, <1>4, <1>5 DEF SwitchState
<1>7. /\ button' \in ButtonState /\ button'.pressed = button.pressed
      /\ button'.long_pressed = button.long_pressed
  BY <1>1 DEF ButtonState, Level
<1>8. Current' \in Settings
  BY <1>6, <1>7, SettingsType DEF Current
<1>9. TypeOK' /\ ButtonOK(button)'
  BY <1>6, <1>7, <1>8 DEF IInv, TypeOK, ButtonOK, Store
<1>10. value = Synchronized(button', s')
  BY <1>3, <1>6, <1>7 DEF value, Synchronized, InToggleMode
<1>11. s'.ramp = "moving" => s.ramp = "moving" /\ m # "toggle"
  BY <1>3, <1>6 DEF Abandoned
<1>12. MultistateInSync'
  BY <1>6, <1>10 DEF MultistateInSync
<1>13. MoveEndsWithPress' /\ Stoppable'
  BY <1>6, <1>7, <1>10, <1>11
  DEF IInv, MoveEndsWithPress, Stoppable, Synchronized, InToggleMode
<1> QED
  BY <1>9, <1>12, <1>13 DEF IInv

LEMMA LoadedType ==
  ASSUME nv \in SUBSET Settings
  PROVE  Loaded(nv) \in Settings /\ DefaultSettings \in Settings
<1>1. DefaultSettings \in Settings
  BY SwitchAssumption, IndexTypes DEF DefaultSettings, Settings, Mode, SwitchAction, RelayMode,
     BindedMode
<1>2. CASE nv # {}
  <2> DEFINE n == CHOOSE x \in nv : TRUE
  <2>1. n \in Settings
    BY <1>2
  <2> HIDE DEF n
  <2>2. LoadedIndex(n.relay_index) \in Index
    BY IndexTypes DEF LoadedIndex
  <2>3. Loaded(nv) = [n EXCEPT !.relay_index = LoadedIndex(@)]
    BY <1>2 DEF Loaded, n
  <2> QED
    BY <1>1, <2>1, <2>2, <2>3 DEF Settings
<1> QED
  BY <1>1, <1>2 DEF Loaded

LEMMA StartedIs ==
  ASSUME NEW set \in Settings, NEW on \in SUBSET Relays, NEW lit \in BOOLEAN, NEW ramp \in Ramp
  PROVE  /\ Started(set, on, lit, ramp) \in SwitchState
         /\ Started(set, on, lit, ramp).ramp = ramp
         /\ Started(set, on, lit, ramp).light = lit
BY DEF Started, Settings, SwitchState, Multistate

LEMMA AbandonedIs ==
  ASSUME NEW ramp \in Ramp
  PROVE  Abandoned(ramp) \in Ramp /\ Abandoned(ramp) # "moving"
BY DEF Abandoned, Ramp

LEMMA RebootInv == IInv /\ Reboot => IInv'
<1> SUFFICES ASSUME IInv, Reboot PROVE IInv'
  OBVIOUS
<1>1. Loaded(nv) \in Settings /\ Loaded(nv).long_press_duration \in Age
  BY LoadedType DEF IInv, TypeOK, Settings
<1>2. PICK on \in SUBSET Relays : s' = Started(Loaded(nv), on, s.light, Abandoned(s.ramp))
  BY DEF Reboot
<1>3. s.light \in BOOLEAN /\ Abandoned(s.ramp) \in Ramp /\ Abandoned(s.ramp) # "moving"
  BY AbandonedIs DEF IInv, TypeOK, SwitchState
<1>4. s' \in SwitchState /\ s'.ramp # "moving"
  BY <1>1, <1>2, <1>3, StartedIs
<1>5. ButtonOK(button')
  BY <1>1, SwitchAssumption, InitOK DEF Reboot, IInv, TypeOK
<1> QED
  BY <1>4, <1>5 DEF Reboot, IInv, TypeOK, ButtonOK, MultistateInSync, MoveEndsWithPress, Stoppable

LEMMA InitInv == Init => IInv
<1> SUFFICES ASSUME Init PROVE IInv
  OBVIOUS
<1>1. DefaultSettings \in Settings
  BY LoadedType DEF Init
<1>2. PICK on \in SUBSET Relays : s = Started(DefaultSettings, on, FALSE, "still")
  BY DEF Init
<1>3. s \in SwitchState /\ s.ramp # "moving"
  BY <1>1, <1>2, StartedIs DEF Ramp
<1>4. ButtonOK(button)
  BY SwitchAssumption, InitOK DEF Init
<1> QED
  BY <1>3, <1>4 DEF Init, IInv, TypeOK, ButtonOK, MultistateInSync, MoveEndsWithPress, Stoppable

\* The surroundings: the pin, other commands and the network.
LEMMA OthersInv ==
  ASSUME IInv, Pin \/ Dispatch \/ Tick \/ RelayCommand \/ NetworkChanges
  PROVE  IInv'
<1>1. s \in SwitchState /\ ButtonOK(button) /\ button \in ButtonState
  BY DEF IInv, TypeOK
<1>2. SameEvents(button, button)
  BY <1>1 DEF SameEvents
<1>3. CASE Pin
  <2>1. TypeOK'
    BY <1>3 DEF Pin, PinFlips, others, IInv, TypeOK, Level
  <2> QED
    BY <1>2, <1>3, <2>1, SameInv DEF Pin, PinFlips, others
<1>4. CASE Dispatch
  <2>1. SameEvents(button, button')
    BY <1>1, <1>4, DispatchSame DEF Dispatch, IInv, TypeOK
  <2>2. TypeOK'
    BY <1>4, <2>1 DEF Dispatch, GpioDispatch, others, IInv, TypeOK, SameEvents, ButtonOK
  <2> QED
    BY <1>4, <2>1, <2>2, SameInv DEF Dispatch, others
<1>5. CASE Tick
  <2>1. SameEvents(button, button')
    BY <1>1, <1>5, TickSame DEF Tick
  <2>2. TypeOK'
    BY <1>5, <2>1 DEF Tick, ButtonTick, others, IInv, TypeOK, SameEvents, ButtonOK
  <2> QED
    BY <1>5, <2>1, <2>2, SameInv DEF Tick, others
<1>6. CASE RelayCommand
  <2>1. /\ s' \in SwitchState /\ s'.mode = s.mode /\ s'.ramp = s.ramp
        /\ s'.multistate_state = s.multistate_state
    BY <1>1, <1>6 DEF RelayCommand, SwitchState
  <2>2. TypeOK'
    BY <1>6, <2>1 DEF RelayCommand, IInv, TypeOK
  <2> QED
    BY <1>2, <1>6, <2>1, <2>2, SameInv DEF RelayCommand
<1>7. CASE NetworkChanges
  <2>1. Abandoned(s.ramp) \in Ramp /\ Abandoned(s.ramp) # "moving"
    BY <1>1, AbandonedIs DEF SwitchState
  <2>2. /\ s' \in SwitchState /\ s'.mode = s.mode /\ s'.ramp # "moving"
        /\ s'.multistate_state = s.multistate_state
    BY <1>1, <1>7, <2>1 DEF NetworkChanges, SwitchState
  <2> QED
    BY <1>7, <2>2 DEF NetworkChanges, IInv, TypeOK, MultistateInSync, MoveEndsWithPress,
       Stoppable, Synchronized, InToggleMode
<1> QED
  BY <1>3, <1>4, <1>5, <1>6, <1>7

LEMMA NextInv == IInv /\ [Next]_vars => IInv'
<1> SUFFICES ASSUME IInv, [Next]_vars PROVE IInv'
  OBVIOUS
<1>1. CASE ButtonTask
  BY <1>1, TaskTypes, TaskInSync, TaskMoves DEF IInv
<1>2. CASE UNCHANGED vars
  BY <1>2 DEF vars, IInv, TypeOK, MultistateInSync, MoveEndsWithPress, Stoppable, Synchronized,
     InToggleMode
<1> QED
  BY <1>1, <1>2, OthersInv, AttributeWriteInv, WriteModeInv, RebootInv DEF Next, AttributeWrite
-----------------------------------------------------------------------------
(* The theorems.                                                           *)

\* The multistate value and the moving level agree with the button, through edges, long
\* presses, rewritten attributes, restarts and the loss of the network.
THEOREM InvariantCorrect == Spec => []IInv
<1> QED
  BY InitInv, NextInv, PTL DEF Spec

\* Every delay of the button and every attribute stays in its domain.
THEOREM TypeCorrect == Spec => []TypeOK
<1>1. IInv => TypeOK
  BY DEF IInv
<1> QED
  BY <1>1, InvariantCorrect, PTL

\* The multistate value tells the position, the press or the long press.
THEOREM MultistateCorrect == Spec => []MultistateInSync
<1>1. IInv => MultistateInSync
  BY DEF IInv
<1> QED
  BY <1>1, InvariantCorrect, PTL

\* A level moves only while a long press that will stop it lasts.
THEOREM MovesEnd == Spec => []MoveEndsWithPress
<1>1. IInv => MoveEndsWithPress
  BY DEF IInv
<1> QED
  BY <1>1, InvariantCorrect, PTL

\* Only the button's task, a power cycle and other commands change the relays, and only
\* the first of them the light.
LEMMA OthersKeepLight ==
  ASSUME IInv, [Next]_vars, ~ButtonTask
  PROVE  s'.light = s.light
<1>1. s \in SwitchState
  BY DEF IInv, TypeOK
<1>2. CASE AttributeWrite
  BY <1>1, <1>2 DEF AttributeWrite, WriteAction, WriteRelayMode, WriteBindedMode, WriteDuration,
     WriteRelayIndex, Write, SwitchState
<1>3. CASE WriteMode
  BY <1>1, <1>3 DEF WriteMode, WrittenMode, SwitchState
<1>4. CASE Reboot
  BY <1>4 DEF Reboot, Started
<1>5. CASE Pin \/ Dispatch \/ Tick \/ RelayCommand \/ NetworkChanges \/ UNCHANGED vars
  BY <1>1, <1>5 DEF Pin, Dispatch, Tick, others, RelayCommand, NetworkChanges, vars, SwitchState
<1> QED
  BY <1>2, <1>3, <1>4, <1>5 DEF Next, AttributeWrite

\* The light in the two stages of the button's task: at most one of them tells it.
LEMMA TaskInStep ==
  ASSUME IInv, ButtonTask, InToggleMode(s) \/ s.relay_mode = s.binded_mode
  PROVE  InStep(s, s')
<1> DEFINE e == EdgeHandled(button, s)
<1>1. s \in SwitchState /\ ButtonOK(button) /\ s' = Handled(button, s)
  BY DEF IInv, TypeOK, ButtonTask
<1>2. s' = IF LongPresses(button) THEN OnButtonLongPress(e) ELSE e
  BY <1>1, HandledIs
<1>3. /\ e \in SwitchState /\ SameSettings(s, e) /\ InStep(s, e)
      /\ ~Releases(button) /\ ~InToggleMode(s) =>
           /\ s.relay_mode # "rise" => e.relays = s.relays
           /\ s.binded_mode # "rise" => e.light = s.light
  BY <1>1, EdgeHandledIs DEF Handles
<1> HIDE DEF e
<1>4. CASE ~LongPresses(button)
  BY <1>2, <1>3, <1>4
<1>5. CASE LongPresses(button) /\ InToggleMode(s)
  <2>1. s' = e
    BY <1>2, <1>3, <1>5, LongPressIs DEF InToggleMode, SameSettings
  <2> QED
    BY <1>3, <2>1
<1>6. CASE LongPresses(button) /\ ~InToggleMode(s)
  <2>1. ~Releases(button)
    BY <1>1, <1>6, UpdatedIs
  <2>2. /\ s' = OnButtonLongPress(e) /\ ~InToggleMode(e)
        /\ e.relay_mode = s.relay_mode /\ e.binded_mode = s.relay_mode
    BY <1>2, <1>3, <1>6 DEF InToggleMode, SameSettings
  <2>3. /\ SameSettings(e, s') /\ InStep(e, s')
        /\ s.relay_mode # "long" => s'.relays = e.relays /\ s'.light = e.light
    BY <1>3, <2>2, LongPressIs DEF Handles
  <2>4. CASE s.relay_mode = "long"
    <3>1. e.light = s.light
      BY <1>3, <1>6, <2>1, <2>4
    <3> QED
      BY <1>3, <2>3, <3>1 DEF InStep, Smart, HasValidRelay, SameSettings
  <2>5. CASE s.relay_mode # "long"
    BY <1>3, <2>3, <2>5 DEF InStep, Smart, HasValidRelay, RelayIsOn, SameSettings
  <2> QED
    BY <2>4, <2>5
<1> QED
  BY <1>4, <1>5, <1>6

\* A smart action leaves the light in step with its relay, for either stage of the task
\* and whatever attributes were rewritten before.
THEOREM SmartCorrect == Spec => SmartInSync
<1> DEFINE P == s'.light # s.light /\ SmartAction /\ HasValidRelay(s)
                  /\ (InToggleMode(s) \/ s.relay_mode = s.binded_mode) =>
                    (s'.light <=> RelayIsOn(s')) = (s.action = "toggle_smart_sync")
<1>1. IInv /\ [Next]_vars => P
  <2> SUFFICES ASSUME IInv, [Next]_vars, s'.light # s.light, SmartAction, HasValidRelay(s),
                      InToggleMode(s) \/ s.relay_mode = s.binded_mode
               PROVE  (s'.light <=> RelayIsOn(s')) = (s.action = "toggle_smart_sync")
    OBVIOUS
  <2>1. ButtonTask
    BY OthersKeepLight
  <2>2. InStep(s, s')
    BY <2>1, TaskInStep
  <2> QED
    BY <2>2 DEF InStep, Smart, SmartAction
<1>2. IInv /\ [Next]_vars => [P]_vars
  BY <1>1
<1> QED
  BY <1>2, InvariantCorrect, PTL DEF Spec, SmartInSync

\* The release of a long press switches nothing, but for a button held at start-up.
THEOREM ShortCorrect == Spec => ShortPressOnly
<1> DEFINE P == Released /\ heard /\ button.long_pressed /\ ~InToggleMode(s) =>
                  s'.relays = s.relays /\ s'.light = s.light
<1>1. IInv /\ [Next]_vars => P
  <2> SUFFICES ASSUME IInv, [Next]_vars, Released, heard, button.long_pressed,
                      ~InToggleMode(s)
               PROVE  s'.relays = s.relays /\ s'.light = s.light
    OBVIOUS
  <2>1. s \in SwitchState /\ ButtonOK(button) /\ button \in ButtonState /\ pin \in Level
    BY DEF IInv, TypeOK
  <2>2. ButtonTask
    <3>1. ~(Pin \/ RelayCommand \/ NetworkChanges \/ UNCHANGED vars)
      BY DEF Released, Pin, PinFlips, RelayCommand, NetworkChanges, vars
    <3>2. ~(Dispatch \/ Tick)
      BY <2>1, DispatchSame, TickSame DEF Dispatch, Tick, Released, SameEvents
    <3>3. ~AttributeWrite
      BY <2>1 DEF Released, AttributeWrite, WriteAction, WriteRelayMode, WriteBindedMode,
         WriteDuration, WriteRelayIndex, ButtonState
    <3>4. ~WriteMode /\ ~Reboot
      BY <2>1 DEF Released, WriteMode, Reboot, ButtonState
    <3> QED
      BY <3>1, <3>2, <3>3, <3>4 DEF Next, AttributeWrite
  <2>3. Releases(button) /\ ~LongPresses(button)
    BY <2>1, <2>2, UpdatedIs DEF Released, ButtonTask, UpdateTask
  <2>4. s.multistate_state = "long_press"
    BY DEF IInv, MultistateInSync, Synchronized
  <2>5. s' = EdgeHandled(button, s)
    BY <2>2, <2>3, HandledIs DEF ButtonTask
  <2> QED
    BY <2>1, <2>3, <2>4, <2>5, EdgeHandledIs
<1>2. IInv /\ [Next]_vars => [P]_vars
  BY <1>1
<1> QED
  BY <1>2, InvariantCorrect, PTL DEF Spec, ShortPressOnly

\* Only long_pressed of the two flags changes.
LEMMA LongPressed ==
  ASSUME NEW x, NEW y, NEW r, r = [pressed |-> x, long_pressed |-> y]
  PROVE  [r EXCEPT !.long_pressed = TRUE] = [pressed |-> x, long_pressed |-> TRUE]
<1> DEFINE q == [r EXCEPT !.long_pressed = TRUE]
<1>1. q = [r EXCEPT !.long_pressed = TRUE]
  OBVIOUS
<1>2. DOMAIN r = {"pressed", "long_pressed"}
  OBVIOUS
<1>3. q.pressed = x /\ q.long_pressed = TRUE /\ DOMAIN q = {"pressed", "long_pressed"}
  BY <1>2
<1>4. q = [i \in {"pressed", "long_pressed"} |-> IF i = "long_pressed" THEN TRUE ELSE r[i]]
  BY <1>2
<1> HIDE DEF q
<1>5. q = [pressed |-> x, long_pressed |-> TRUE]
  BY <1>1, <1>3
<1> QED
  BY <1>5 DEF q

\* A step of the pin, the clock or an attribute reports no event; the task of the button
\* reports a press, a long press or a release in their order.
LEMMA StepOfEvents ==
  ASSUME IInv, [Next]_vars
  PROVE  \/ Events!Press \/ Events!PressLong \/ Events!LongPress \/ Events!Release
         \/ Events!Start
         \/ UNCHANGED [pressed |-> button.pressed, long_pressed |-> button.long_pressed]
<1>1. button \in ButtonState /\ ButtonOK(button) /\ pin \in Level
  BY DEF IInv, TypeOK
<1>2. button.pressed \in BOOLEAN /\ button.long_pressed \in BOOLEAN
  BY <1>1 DEF ButtonState
<1>3. CASE ButtonTask
  <2> DEFINE b == button
             n == Updated(button)
  <2>1. /\ n.pressed \in BOOLEAN /\ n.long_pressed \in BOOLEAN /\ button' = n
    BY <1>1, <1>3, UpdatedIs DEF ButtonOK, ButtonState, ButtonTask, UpdateTask
  <2>2. /\ n.long_pressed => n.pressed
        /\ Presses(b) => ~b.pressed /\ ~b.long_pressed /\ n.pressed
        /\ Releases(b) => b.pressed /\ ~n.pressed /\ ~n.long_pressed
        /\ ~Presses(b) /\ ~Releases(b) => n.pressed = b.pressed
        /\ LongPresses(b) => n.pressed /\ n.long_pressed /\ ~b.long_pressed
        /\ ~LongPresses(b) /\ ~Releases(b) => n.long_pressed = b.long_pressed
    BY <1>1, UpdatedIs DEF ButtonOK
  <2> HIDE DEF n
  <2>3. CASE Presses(b)
    BY <1>2, <2>1, <2>2, <2>3 DEF Events!Press, Events!PressLong
  <2>4. CASE Releases(b)
    BY <1>2, <2>1, <2>2, <2>4 DEF Events!Release
  <2>5. CASE ~Presses(b) /\ ~Releases(b) /\ LongPresses(b)
    <3>1. b.pressed /\ ~b.long_pressed
      BY <1>2, <2>2, <2>5
    <3>2. n.pressed = b.pressed /\ n.long_pressed = TRUE
      BY <2>1, <2>2, <2>5
    <3>3. [[pressed |-> button.pressed, long_pressed |-> button.long_pressed]
             EXCEPT !.long_pressed = TRUE] = [pressed |-> b.pressed, long_pressed |-> TRUE]
      BY LongPressed, Zenon
    <3>4. [pressed |-> button.pressed, long_pressed |-> button.long_pressed]'
            = [pressed |-> n.pressed, long_pressed |-> n.long_pressed]
      BY <2>1
    <3> QED
      BY <3>1, <3>2, <3>3, <3>4 DEF Events!LongPress
  <2>6. CASE ~Presses(b) /\ ~Releases(b) /\ ~LongPresses(b)
    BY <2>1, <2>2, <2>6
  <2> QED
    BY <2>3, <2>4, <2>5, <2>6
<1>4. CASE Reboot
  <2>1. /\ button'.pressed = button'.long_pressed /\ button'.long_pressed \in BOOLEAN
    BY <1>1, <1>4 DEF Reboot, BtnInit
  <2> QED
    BY <2>1 DEF Events!Start
<1>5. CASE Pin \/ RelayCommand \/ NetworkChanges \/ UNCHANGED vars
  BY <1>5 DEF Pin, PinFlips, RelayCommand, NetworkChanges, vars
<1>6. CASE Dispatch \/ Tick
  BY <1>1, <1>6, DispatchSame, TickSame DEF Dispatch, Tick, SameEvents
<1>7. CASE AttributeWrite
  BY <1>1, <1>7 DEF AttributeWrite, WriteAction, WriteRelayMode, WriteBindedMode,
     WriteDuration, WriteRelayIndex, ButtonState
<1>8. CASE WriteMode
  BY <1>1, <1>8 DEF WriteMode, ButtonState
<1> QED
  BY <1>3, <1>4, <1>5, <1>6, <1>7, <1>8 DEF Next, AttributeWrite

\* The button implements ButtonEvents, for every debounce delay and every duration that
\* may be written: the cover switch and this cluster may rely on the order of its calls.
THEOREM EventsCorrect == Spec => ReportsEvents
<1>1. Init => Events!Started
  <2> SUFFICES ASSUME Init PROVE Events!Started
    OBVIOUS
  <2>1. button = BtnInit(pin, DefaultHigh, DefaultDuration)
    BY DEF Init
  <2>2. (pin = DefaultHigh) \in BOOLEAN
    OBVIOUS
  <2> QED
    BY <2>1, <2>2 DEF BtnInit, Events!Started
<1>2. IInv /\ [Next]_vars =>
        [Events!Press \/ Events!PressLong \/ Events!LongPress \/ Events!Release
           \/ Events!Start]_[pressed |-> button.pressed, long_pressed |-> button.long_pressed]
  BY StepOfEvents
<1> QED
  BY <1>1, <1>2, InvariantCorrect, PTL DEF Spec, ReportsEvents, Events!EventsSpec
=============================================================================
