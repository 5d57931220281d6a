----------------------------- MODULE Indicators -----------------------------
(***************************************************************************)
(* The LEDs (src/base_components/led.c) and the three that command them:   *)
(* the network indicator (network_indicator.c, config_parser.c), which     *)
(* makes LEDs blink while the device is not in a network, the relays,      *)
(* whose state an LED shows, and detached switches, which flash it.        *)
(*                                                                         *)
(* What a relay asks of its LED is its attribute indicator_state, see      *)
(* RelayCluster. A timer that was posted runs its course whatever becomes  *)
(* of the LED: led_blink initializes the task, which forgets the timer it  *)
(* has, so that nothing is ever cancelled (telink/hal/tasks.c), and there  *)
(* may be several. They are due in any order, so that lengths are left     *)
(* out.                                                                    *)
(***************************************************************************)
EXTENDS Integers

CONSTANTS
  IndicatorCount,   \* number of indicator LEDs
  MaxTimers         \* bound on the timers of an LED

ASSUME IndicatorsAssumption == IndicatorCount \in Nat /\ MaxTimers \in Nat \ {0}

Status == 0                      \* the LED for the network alone
Gangs == 1 .. IndicatorCount     \* the k-th indicator is that of relay k and of switch k
Leds == {Status} \cup Gangs

FOREVER == 2   \* LED_BLINK_FOREVER; a flash is a single blink

LedState == [on: BOOLEAN, blink_times_left: 0 .. FOREVER, timers: 0 .. MaxTimers]

VARIABLES
  wiring,     \* the device: has it a status LED, how many relays, switches; a battery
  joined,     \* the network status that was last notified
  leds,       \* led_t of each LED
  asked,      \* indicator_state of each relay
  attached,   \* switches in a mode other than detached, with a valid relay
  manual,     \* manual_state_when_connected,
  nv_manual,  \* and as stored: {} before the first write
  excused     \* observed: LEDs that need not show what they are for, see the properties

vars == <<wiring, joined, leds, asked, attached, manual, nv_manual, excused>>

Wiring ==
  [has_dedicated_led: BOOLEAN, relays: 0 .. IndicatorCount, switches: 0 .. IndicatorCount,
   battery: BOOLEAN]

NetworkLeds == IF wiring.has_dedicated_led THEN {Status} ELSE Gangs
Relays == 1 .. wiring.relays
Switches == 1 .. wiring.switches

-----------------------------------------------------------------------------
(* led.c.                                                                  *)

Dark == [on |-> FALSE, blink_times_left |-> 0, timers |-> 0]

\* led_on and led_off.
Steady(led, lit) == [led EXCEPT !.on = lit, !.blink_times_left = 0]

\* Mutant of Blink: one that blinks is left alone.
BlinkUnlessBlinking(led, times) ==
  IF led.blink_times_left # 0 THEN led
  ELSE [on |-> TRUE, blink_times_left |-> times, timers |-> led.timers + 1]

\* led_blink: one that blinks goes on with another count.
Blink(led, times) ==
  IF led.blink_times_left # 0 THEN [led EXCEPT !.blink_times_left = times]
  ELSE [on |-> TRUE, blink_times_left |-> times, timers |-> led.timers + 1]

\* led_blink_handler; the timer that is due is over.
Blinked(led) ==
  CASE led.blink_times_left = 0 -> [led EXCEPT !.timers = @ - 1]
    [] led.blink_times_left # 0 /\ led.on ->
         [led EXCEPT !.on = FALSE,
                     !.blink_times_left = IF @ = FOREVER THEN @ ELSE @ - 1]
    [] OTHER -> [led EXCEPT !.on = TRUE]

BlinkHandler(l) ==
  /\ leds[l].timers > 0
  /\ leds' = [leds EXCEPT ![l] = Blinked(@)]
  /\ UNCHANGED <<wiring, joined, asked, attached, manual, nv_manual, excused>>

-----------------------------------------------------------------------------
(* The network.                                                            *)

\* network_indicator_not_connected.
NotConnected(state) ==
  [l \in Leds |-> IF l \in NetworkLeds /\ state[l].blink_times_left # FOREVER
                  THEN Blink(state[l], FOREVER) ELSE state[l]]

\* network_indicator_from_manual_state.
FromManualState(state, lit) ==
  [l \in Leds |-> CASE l \notin NetworkLeds -> state[l]
                    [] l \in NetworkLeds /\ wiring.has_dedicated_led -> Steady(state[l], lit)
                    [] OTHER -> [state[l] EXCEPT !.blink_times_left = 0]]

\* update_switch_clusters.
UpdateSwitches(state) ==
  [l \in Leds |-> IF l \in Switches \ attached THEN Steady(state[l], FALSE) ELSE state[l]]

\* update_relay_clusters.
UpdateRelays(state) ==
  [l \in Leds |-> IF l \in Relays THEN Steady(state[l], asked[l]) ELSE state[l]]

\* Mutant of Connected: the relays before the switches.
ConnectedRelaysFirst(state, lit) ==
  UpdateSwitches(UpdateRelays(FromManualState(state, lit)))

Connected(state, lit) == UpdateRelays(UpdateSwitches(FromManualState(state, lit)))

InBounds(state) == \A l \in Leds : state[l].timers <= MaxTimers

\* network_indicator_on_network_status_change; the status may also be the same again.
\* An LED for the network that stops blinking and that neither a relay nor a detached
\* switch commands stays as it is.
NetworkStatus(status) ==
  /\ joined' = status
  /\ manual' = (manual /\ ~(status /\ wiring.battery))
  /\ leds' = IF status THEN Connected(leds, manual') ELSE NotConnected(leds)
  /\ InBounds(leds')
  /\ excused' = IF status
                THEN (excused \cup NetworkLeds) \ ({Status} \cup Relays \cup (Switches \ attached))
                ELSE excused \ NetworkLeds
  /\ UNCHANGED <<wiring, asked, attached, nv_manual>>

\* The attribute of the basic cluster, which exists with the LED.
WriteManual(lit) ==
  /\ joined /\ wiring.has_dedicated_led
  /\ manual' = lit /\ nv_manual' = {lit}
  /\ leds' = FromManualState(leds, lit)
  /\ UNCHANGED <<wiring, joined, asked, attached, excused>>

\* Another attribute of the basic cluster: both are stored.
WriteBasic ==
  /\ joined
  /\ nv_manual' = {manual}
  /\ UNCHANGED <<wiring, joined, leds, asked, attached, manual, excused>>

-----------------------------------------------------------------------------
(* Relays and switches.                                                    *)

\* sync_indicator_led, after a command or a write: whatever the LED is doing.
SyncIndicator(k, lit) ==
  /\ k \in Relays
  /\ asked' = [asked EXCEPT ![k] = lit]
  /\ leds' = [leds EXCEPT ![k] = Steady(@, lit)]
  /\ excused' = IF joined THEN excused \ {k} ELSE excused \cup {k}
  /\ UNCHANGED <<wiring, joined, attached, manual, nv_manual>>

\* switch_cluster_flash_indicator: afterwards the LED is off, also that of a relay that is on.
Flash(k) ==
  /\ k \in Switches \ attached
  /\ leds[k].blink_times_left = 0
  /\ leds' = [leds EXCEPT ![k] = Blink(@, 1)]
  /\ InBounds(leds')
  /\ excused' = IF k \in Relays THEN excused \cup {k} ELSE excused \ {k}
  /\ UNCHANGED <<wiring, joined, asked, attached, manual, nv_manual>>

\* relay_mode or relay_index of a switch is written.
WriteRelayMode(k) ==
  /\ joined /\ k \in Switches /\ Relays # {}
  /\ attached' \in {attached \cup {k}, attached \ {k}}
  /\ UNCHANGED <<wiring, joined, leds, asked, manual, nv_manual, excused>>

-----------------------------------------------------------------------------
(* Start-up.                                                               *)

\* parse_config, before the stack has restored the network (zb_init): peripherals_init,
\* then the relays load their attributes and set their LEDs.
StartedLeds(states) ==
  LET blinking == NotConnected([l \in Leds |-> Dark])
  IN  [l \in Leds |-> IF l \in Relays THEN Steady(blinking[l], states[l]) ELSE blinking[l]]

\* What the relays ask for after a restart is RelayCluster's matter.
Reboot ==
  /\ joined' = FALSE
  /\ asked' \in [Gangs -> BOOLEAN]
  /\ leds' = StartedLeds(asked')
  /\ manual' = IF nv_manual = {} THEN TRUE ELSE CHOOSE lit \in nv_manual : TRUE
  /\ excused' = Relays
  /\ UNCHANGED <<wiring, attached, nv_manual>>

Init ==
  /\ wiring \in Wiring
  /\ attached \in IF Relays = {} THEN {{}} ELSE SUBSET Switches
  /\ joined = FALSE
  /\ asked \in [Gangs -> BOOLEAN]
  /\ leds = StartedLeds(asked)
  /\ manual = TRUE /\ nv_manual = {}
  /\ excused = Relays

Next ==
  \/ \E l \in Leds : BlinkHandler(l)
  \/ \E b \in BOOLEAN : NetworkStatus(b) \/ WriteManual(b) \/ \E k \in Gangs : SyncIndicator(k, b)
  \/ \E k \in Gangs : Flash(k) \/ WriteRelayMode(k)
  \/ WriteBasic \/ Reboot

Spec == Init /\ [][Next]_vars

-----------------------------------------------------------------------------
(* Properties.                                                             *)

\* LEDs and attributes stay in their domains.
TypeOK ==
  /\ wiring \in Wiring /\ joined \in BOOLEAN
  /\ leds \in [Leds -> LedState] /\ asked \in [Gangs -> BOOLEAN]
  /\ attached \subseteq Switches
  /\ manual \in BOOLEAN /\ nv_manual \subseteq BOOLEAN /\ excused \subseteq Leds

\* "Blinks while pairing" (docs/contribute/porting.md:91, 96): out of the network an LED for
\* it blinks and has a timer to go on with, whatever was flashed or blinking before; unless
\* its relay has been set since the status was last notified, which ends the blinking.
NetworkShown ==
  ~joined =>
    \A l \in NetworkLeds \ excused : leds[l].blink_times_left = FOREVER /\ leds[l].timers > 0

\* What an LED is for when there is nothing to blink for.
Shows(l) ==
  CASE l = Status -> manual
    [] l \in Relays -> asked[l]
    [] OTHER -> FALSE

\* "1 per relay, follows state" and "briefly flashes on button press"
\* (docs/contribute/porting.md:96): in the network an LED is back to what it is for once it
\* does not blink, and what blinks ends; except for that of a relay that was flashed by a
\* detached switch and not set since, and one that stopped blinking for the network with
\* nobody to command it.
IndicatorsFollow ==
  joined =>
    \A l \in (IF wiring.has_dedicated_led THEN Leds ELSE Gangs) \ excused :
      IF leds[l].blink_times_left = 0 THEN leds[l].on = Shows(l)
      ELSE leds[l].blink_times_left # FOREVER /\ leds[l].timers > 0
=============================================================================
