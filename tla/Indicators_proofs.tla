------------------------- MODULE Indicators_proofs -------------------------
(***************************************************************************)
(* What the LEDs show, for every number of LEDs, relays and switches, with *)
(* or without an LED for the network alone, and any number of forgotten    *)
(* timers.                                                                 *)
(*                                                                         *)
(* IndicatorsFollow says nothing of an LED while the device is out of the  *)
(* network, so that it is not inductive: Settled adds the LEDs that do not *)
(* serve the network, and that an LED which blinks is one that shall be    *)
(* dark in the end. Chained gives whatever blinks a timer to go on with,   *)
(* and RelaysExcused says whose LEDs need not blink.                       *)
(***************************************************************************)
EXTENDS Indicators, TLAPS

\* An LED, without the bound on its timers.
Led == [on: BOOLEAN, blink_times_left: 0 .. FOREVER, timers: Nat]

Chained(led) == led.blink_times_left # 0 => led.timers > 0

\* Lit as it should be, or blinking for a while if it should be dark.
Settles(led, lit) ==
  IF led.blink_times_left = 0 THEN led.on = lit
  ELSE led.blink_times_left # FOREVER /\ ~lit

Serving == IF wiring.has_dedicated_led THEN Leds ELSE Gangs

AllChained == \A l \in Leds : Chained(leds[l])

Settled ==
  \A l \in Serving \ excused :
    joined \/ l \notin NetworkLeds => Settles(leds[l], Shows(l))

\* Out of the network only an LED that a relay commands need not blink.
RelaysExcused == ~joined => excused \cap NetworkLeds \subseteq Relays

IInv == TypeOK /\ AllChained /\ Settled /\ RelaysExcused /\ NetworkShown

-----------------------------------------------------------------------------
(* One LED.                                                                *)

\* Lighting an LED changes nothing else.
LEMMA Lighten ==
  ASSUME NEW led \in Led, NEW lit \in BOOLEAN
  PROVE  /\ [led EXCEPT !.on = lit] \in Led
         /\ [led EXCEPT !.on = lit].on = lit
         /\ [led EXCEPT !.on = lit].blink_times_left = led.blink_times_left
         /\ [led EXCEPT !.on = lit].timers = led.timers
BY DEF Led

\* led_on and led_off end the blinking and leave the timer.
LEMMA SteadyLed ==
  ASSUME NEW led \in Led, NEW lit \in BOOLEAN
  PROVE  /\ Steady(led, lit) \in Led
         /\ Steady(led, lit).blink_times_left = 0
         /\ Steady(led, lit).on = lit
         /\ Steady(led, lit).timers = led.timers
<1> DEFINE m == [led EXCEPT !.on = lit]
<1>1. m \in Led /\ m.on = lit /\ m.timers = led.timers
  BY Lighten
<1>2. Steady(led, lit) = [m EXCEPT !.blink_times_left = 0]
  BY DEF Steady, m
<1> HIDE DEF m
<1> QED
  BY <1>1, <1>2 DEF Led, FOREVER

\* led_blink leaves an LED that blinks, with a timer.
LEMMA BlinkLed ==
  ASSUME NEW led \in Led, NEW times \in 1 .. FOREVER, Chained(led)
  PROVE  /\ Blink(led, times) \in Led
         /\ Blink(led, times).blink_times_left = times
         /\ Chained(Blink(led, times))
BY DEF Blink, Led, FOREVER, Chained

\* A timer ends no blinking for the network, and leaves what blinks for a while dark.
LEMMA BlinkedLed ==
  ASSUME NEW led \in Led, led.timers > 0, NEW lit \in BOOLEAN
  PROVE  /\ Blinked(led) \in Led
         /\ Blinked(led).timers <= led.timers
         /\ Chained(Blinked(led))
         /\ led.blink_times_left = FOREVER => Blinked(led).blink_times_left = FOREVER
         /\ Settles(led, lit) => Settles(Blinked(led), lit)
<1>1. CASE led.blink_times_left = 0
  <2>1. Blinked(led) = [led EXCEPT !.timers = @ - 1]
    BY <1>1 DEF Blinked
  <2> QED
    BY <1>1, <2>1 DEF Led, Chained, Settles, FOREVER
<1>2. CASE led.blink_times_left # 0 /\ led.on
  <2> DEFINE m == [led EXCEPT !.on = FALSE]
             left == IF m.blink_times_left = FOREVER THEN FOREVER ELSE m.blink_times_left - 1
  <2>1. /\ m \in Led /\ ~m.on /\ m.timers = led.timers
        /\ m.blink_times_left = led.blink_times_left
    BY Lighten
  <2>2. Blinked(led) = [m EXCEPT !.blink_times_left = IF @ = FOREVER THEN @ ELSE @ - 1]
    BY <1>2 DEF Blinked, m
  <2> HIDE DEF m
  <2>3. left \in 0 .. FOREVER /\ (left = FOREVER <=> led.blink_times_left = FOREVER)
    BY <1>2, <2>1 DEF Led, FOREVER
  <2>4. Blinked(led) = [m EXCEPT !.blink_times_left = left]
    BY <2>1, <2>2 DEF Led
  <2> HIDE DEF left
  <2>5. /\ Blinked(led) \in Led /\ ~Blinked(led).on
        /\ Blinked(led).blink_times_left = left /\ Blinked(led).timers = led.timers
    BY <2>1, <2>3, <2>4 DEF Led
  <2> QED
    BY <1>2, <2>3, <2>5 DEF Led, Chained, Settles
<1>3. CASE led.blink_times_left # 0 /\ ~led.on
  <2> DEFINE m == [led EXCEPT !.on = TRUE]
  <2>1. m \in Led /\ m.timers = led.timers /\ m.blink_times_left = led.blink_times_left
    BY Lighten
  <2>2. Blinked(led) = m
    BY <1>3 DEF Blinked
  <2> HIDE DEF m
  <2> QED
    BY <1>3, <2>1, <2>2 DEF Led, Chained, Settles
<1> QED
  BY <1>1, <1>2, <1>3

-----------------------------------------------------------------------------
(* All of them.                                                            *)

\* Which LED is whose.
LEMMA Places ==
  ASSUME wiring \in Wiring
  PROVE  /\ Status \in Leds /\ Gangs \subseteq Leds /\ Status \notin Gangs
         /\ Relays \subseteq Gangs /\ Switches \subseteq Gangs
         /\ NetworkLeds \subseteq Serving /\ Serving \subseteq Leds
         /\ wiring.has_dedicated_led => NetworkLeds = {Status}
         /\ ~wiring.has_dedicated_led => NetworkLeds = Gangs /\ Serving = Gangs
BY IndicatorsAssumption
   DEF Wiring, Status, Leds, Gangs, Relays, Switches, NetworkLeds, Serving

\* Out of the network, its LEDs blink and the others are left alone.
LEMMA NotConnectedLeds ==
  ASSUME NEW state \in [Leds -> Led], \A l \in Leds : Chained(state[l]), NEW l \in Leds
  PROVE  /\ NotConnected(state) \in [Leds -> Led]
         /\ Chained(NotConnected(state)[l])
         /\ l \in NetworkLeds => NotConnected(state)[l].blink_times_left = FOREVER
         /\ l \notin NetworkLeds => NotConnected(state)[l] = state[l]
<1>1. FOREVER \in 1 .. FOREVER
  BY DEF FOREVER
<1> QED
  BY <1>1, BlinkLed DEF NotConnected

\* In the network, every LED is set by the last of those that command it.
LEMMA ConnectedLeds ==
  ASSUME wiring \in Wiring, asked \in [Gangs -> BOOLEAN], NEW lit \in BOOLEAN,
         NEW state \in [Leds -> Led], \A l \in Leds : Chained(state[l]), NEW l \in Leds
  PROVE  /\ Connected(state, lit) \in [Leds -> Led]
         /\ Chained(Connected(state, lit)[l])
         /\ l \in Relays => Settles(Connected(state, lit)[l], asked[l])
         /\ l \in (Switches \ attached) \ Relays => Settles(Connected(state, lit)[l], FALSE)
         /\ l = Status /\ wiring.has_dedicated_led => Settles(Connected(state, lit)[l], lit)
         /\ l \notin NetworkLeds \cup Relays \cup (Switches \ attached) =>
              Connected(state, lit)[l] = state[l]
<1> DEFINE manual_state == FromManualState(state, lit)
           switches == UpdateSwitches(manual_state)
<1>1. /\ manual_state \in [Leds -> Led]
      /\ \A m \in Leds : Chained(manual_state[m])
      /\ \A m \in Leds \ NetworkLeds : manual_state[m] = state[m]
      /\ wiring.has_dedicated_led => Settles(manual_state[Status], lit)
  <2>1. ASSUME NEW m \in Leds
        PROVE  /\ [state[m] EXCEPT !.blink_times_left = 0] \in Led
               /\ Chained([state[m] EXCEPT !.blink_times_left = 0])
               /\ Steady(state[m], lit) \in Led
               /\ Chained(Steady(state[m], lit))
               /\ Settles(Steady(state[m], lit), lit)
    <3>1. state[m] \in Led
      OBVIOUS
    <3> QED
      BY <3>1, SteadyLed DEF Led, Chained, Settles, FOREVER
  <2>2. \A m \in Leds :
          manual_state[m] = CASE m \notin NetworkLeds -> state[m]
                              [] m \in NetworkLeds /\ wiring.has_dedicated_led -> Steady(state[m], lit)
                              [] OTHER -> [state[m] EXCEPT !.blink_times_left = 0]
    BY DEF FromManualState
  <2>3. manual_state \in [Leds -> Led]
    BY <2>1 DEF FromManualState
  <2> HIDE DEF manual_state
  <2> QED
    BY <2>1, <2>2, <2>3, Places
<1> HIDE DEF manual_state
<1>2. /\ switches \in [Leds -> Led]
      /\ \A m \in Leds : Chained(switches[m])
      /\ \A m \in Leds \ (Switches \ attached) : switches[m] = manual_state[m]
      /\ \A m \in Leds \cap (Switches \ attached) : Settles(switches[m], FALSE)
  BY <1>1, SteadyLed DEF UpdateSwitches, Chained, Settles
<1> HIDE DEF switches
<1>3. /\ UpdateRelays(switches) \in [Leds -> Led]
      /\ \A m \in Leds : Chained(UpdateRelays(switches)[m])
      /\ \A m \in Leds \ Relays : UpdateRelays(switches)[m] = switches[m]
      /\ \A m \in Leds \cap Relays : Settles(UpdateRelays(switches)[m], asked[m])
  <2>1. \A m \in Relays : asked[m] \in BOOLEAN
    BY Places
  <2> QED
    BY <1>2, <2>1, SteadyLed DEF UpdateRelays, Chained, Settles
<1>4. Connected(state, lit) = UpdateRelays(switches)
  BY DEF Connected, switches, manual_state
<1> QED
  BY <1>1, <1>2, <1>3, <1>4, Places

\* The LEDs that start-up leaves.
LEMMA StartedLedsAre ==
  ASSUME wiring \in Wiring, NEW states \in [Gangs -> BOOLEAN], NEW l \in Leds
  PROVE  /\ StartedLeds(states) \in [Leds -> LedState]
         /\ Chained(StartedLeds(states)[l])
         /\ l \in NetworkLeds \ Relays =>
              /\ StartedLeds(states)[l].blink_times_left = FOREVER
              /\ StartedLeds(states)[l].timers > 0
         /\ l \notin NetworkLeds \cup Relays => Settles(StartedLeds(states)[l], FALSE)
<1> DEFINE dark == [m \in Leds |-> Dark]
           blinking == NotConnected(dark)
<1>1. /\ dark \in [Leds -> Led]
      /\ \A m \in Leds : Chained(dark[m])
      /\ \A m \in Leds : Settles(dark[m], FALSE)
  BY DEF Dark, Led, Chained, Settles, FOREVER
<1>2. \A m \in Leds :
        /\ blinking \in [Leds -> Led]
        /\ Chained(blinking[m])
        /\ m \in NetworkLeds => blinking[m].blink_times_left = FOREVER
        /\ m \notin NetworkLeds => blinking[m] = dark[m]
  BY <1>1, NotConnectedLeds
<1>3. \A m \in Leds : blinking[m].timers \in 0 .. 1
  <2>1. \A m \in Leds : blinking[m] = IF m \in NetworkLeds THEN Blink(Dark, FOREVER) ELSE Dark
    BY DEF NotConnected, Dark, FOREVER
  <2>2. Blink(Dark, FOREVER).timers = 1 /\ Dark.timers = 0
    BY DEF Blink, Dark
  <2> QED
    BY <2>1, <2>2
<1> HIDE DEF dark, blinking
<1>4. StartedLeds(states) =
        [m \in Leds |-> IF m \in Relays THEN Steady(blinking[m], states[m]) ELSE blinking[m]]
  BY DEF StartedLeds, blinking, dark
<1>5. ASSUME NEW m \in Leds
      PROVE  /\ StartedLeds(states)[m] \in LedState
             /\ Chained(StartedLeds(states)[m])
             /\ m \notin Relays => StartedLeds(states)[m] = blinking[m]
  <2>1. CASE m \in Relays
    <3>1. states[m] \in BOOLEAN /\ blinking[m] \in Led
      BY <2>1, <1>2, Places
    <3>2. StartedLeds(states)[m] = Steady(blinking[m], states[m])
      BY <1>4, <2>1
    <3> QED
      BY <2>1, <3>1, <3>2, <1>3, SteadyLed, IndicatorsAssumption DEF Led, LedState, Chained
  <2>2. CASE m \notin Relays
    BY <2>2, <1>2, <1>3, <1>4, IndicatorsAssumption DEF Led, LedState, Chained
  <2> QED
    BY <2>1, <2>2
<1>6. StartedLeds(states) \in [Leds -> LedState]
  BY <1>4, <1>5
<1>7. blinking[l].blink_times_left = FOREVER => blinking[l].timers > 0
  BY <1>2 DEF Chained, FOREVER
<1> QED
  BY <1>1, <1>2, <1>5, <1>6, <1>7

-----------------------------------------------------------------------------
(* The steps.                                                              *)

\* What an LED is for.
LEMMA ShowsType ==
  ASSUME TypeOK, NEW l \in Leds
  PROVE  Shows(l) \in BOOLEAN
<1>1. l \in Relays => asked[l] \in BOOLEAN
  BY Places DEF TypeOK
<1> QED
  BY <1>1 DEF Shows, TypeOK

\* An LED of the model is one within the bound.
LEMMA LedsType ==
  TypeOK => leds \in [Leds -> Led]
BY DEF TypeOK, LedState, Led

LEMMA BoundedLeds ==
  ASSUME NEW state \in [Leds -> Led], InBounds(state)
  PROVE  state \in [Leds -> LedState]
<1>1. \A l \in Leds : state[l] \in LedState
  BY IndicatorsAssumption DEF InBounds, Led, LedState
<1> QED
  BY <1>1

LEMMA InitInv == Init => IInv
<1> SUFFICES ASSUME Init PROVE IInv
  OBVIOUS
<1> USE DEF Init
<1>1. TypeOK
  <2>1. leds \in [Leds -> LedState]
    BY StartedLedsAre, Places
  <2>2. attached \subseteq Switches
    OBVIOUS
  <2> QED
    BY <2>1, <2>2, Places DEF TypeOK
<1>2. AllChained
  BY StartedLedsAre DEF AllChained
<1>3. Settled
  <2>1. ASSUME NEW l \in Serving \ excused, l \notin NetworkLeds
        PROVE  Settles(leds[l], Shows(l))
    <3>1. l \in Leds /\ l # Status /\ l \notin Relays
      BY <2>1, Places DEF Serving
    <3>2. Shows(l) = FALSE
      BY <3>1 DEF Shows
    <3> QED
      BY <2>1, <3>1, <3>2, StartedLedsAre
  <2> QED
    BY <2>1 DEF Settled
<1>4. NetworkShown
  BY StartedLedsAre, Places DEF NetworkShown
<1>5. RelaysExcused
  BY DEF RelaysExcused
<1> QED
  BY <1>1, <1>2, <1>3, <1>4, <1>5 DEF IInv

LEMMA BlinkHandlerInv ==
  ASSUME IInv, NEW l \in Leds, BlinkHandler(l)
  PROVE  IInv'
<1> USE DEF IInv
<1>1. leds[l] \in Led /\ leds[l].timers > 0 /\ leds[l].timers <= MaxTimers
  BY LedsType, IndicatorsAssumption DEF BlinkHandler, TypeOK, LedState
<1>2. leds' = [leds EXCEPT ![l] = Blinked(leds[l])]
  BY DEF BlinkHandler
<1>3. UNCHANGED <<wiring, joined, asked, attached, manual, nv_manual, excused>>
  BY DEF BlinkHandler
<1>4. \A m \in Leds : leds'[m] = IF m = l THEN Blinked(leds[l]) ELSE leds[m]
  BY <1>2 DEF TypeOK
<1>5. /\ Blinked(leds[l]) \in Led /\ Blinked(leds[l]).timers <= leds[l].timers
      /\ Chained(Blinked(leds[l]))
      /\ leds[l].blink_times_left = FOREVER => Blinked(leds[l]).blink_times_left = FOREVER
      /\ \A lit \in BOOLEAN : Settles(leds[l], lit) => Settles(Blinked(leds[l]), lit)
  BY <1>1, BlinkedLed
<1>6. TypeOK'
  <2>1. Blinked(leds[l]) \in LedState
    BY <1>1, <1>5, IndicatorsAssumption DEF Led, LedState
  <2>2. leds' \in [Leds -> LedState]
    BY <1>2, <2>1 DEF TypeOK
  <2> QED
    BY <1>3, <2>2 DEF TypeOK, Wiring, Switches
<1>7. AllChained'
  BY <1>4, <1>5 DEF AllChained
<1>8. Settled'
  BY <1>3, <1>4, <1>5, ShowsType, Places
     DEF Settled, Serving, NetworkLeds, Shows, Relays, TypeOK
<1>9. NetworkShown'
  BY <1>3, <1>4, <1>5, <1>7, Places
     DEF NetworkShown, NetworkLeds, AllChained, Chained, FOREVER, TypeOK
<1>10. RelaysExcused'
  BY <1>3 DEF RelaysExcused, NetworkLeds, Relays
<1> QED
  BY <1>6, <1>7, <1>8, <1>9, <1>10

LEMMA NetworkStatusInv ==
  ASSUME IInv, NEW status \in BOOLEAN, NetworkStatus(status)
  PROVE  IInv'
<1> USE DEF IInv
<1>1. wiring \in Wiring /\ leds \in [Leds -> Led] /\ asked \in [Gangs -> BOOLEAN]
  BY LedsType DEF TypeOK
<1>2. \A l \in Leds : Chained(leds[l])
  BY DEF AllChained
<1>3. joined' = status /\ UNCHANGED <<wiring, asked, attached, nv_manual>>
  BY DEF NetworkStatus
<1>4. manual' \in BOOLEAN /\ (~status => manual' = manual)
  BY DEF NetworkStatus, TypeOK
<1>5. CASE status
  <2>1. /\ leds' = Connected(leds, manual')
        /\ InBounds(leds')
        /\ excused' = (excused \cup NetworkLeds)
                         \ ({Status} \cup Relays \cup (Switches \ attached))
    BY <1>5 DEF NetworkStatus
  <2>2. \A l \in Leds :
          /\ leds' \in [Leds -> Led]
          /\ Chained(leds'[l])
          /\ l \in Relays => Settles(leds'[l], asked[l])
          /\ l \in (Switches \ attached) \ Relays => Settles(leds'[l], FALSE)
          /\ l = Status /\ wiring.has_dedicated_led => Settles(leds'[l], manual')
          /\ l \notin NetworkLeds \cup Relays \cup (Switches \ attached) => leds'[l] = leds[l]
    BY <1>1, <1>2, <1>4, <2>1, ConnectedLeds
  <2>3. leds' \in [Leds -> Led]
    BY <2>2, Places, <1>1
  <2>4. TypeOK'
    BY <1>3, <1>4, <1>1, <2>1, <2>3, BoundedLeds, Places DEF TypeOK, Wiring, Switches
  <2>5. AllChained'
    BY <2>2 DEF AllChained
  <2>6. Settled'
    <3> SUFFICES ASSUME NEW l \in (Serving \ excused)'
                 PROVE  Settles(leds'[l], Shows(l)')
      BY DEF Settled
    <3>1. l \in Serving /\ l \in Leds /\ l \notin excused'
      BY <1>1, <1>3, Places DEF Serving
    <3>2. CASE l = Status
      <4>1. wiring.has_dedicated_led
        BY <1>1, <3>1, <3>2, Places
      <4>2. Shows(l)' = manual'
        BY <1>1, <1>3, <3>2, Places DEF Shows, Relays
      <4> QED
        BY <2>2, <3>1, <3>2, <4>1, <4>2
    <3>3. CASE l \in Relays
      BY <1>1, <1>3, <2>2, <3>1, <3>3, Places DEF Shows, Relays
    <3>4. CASE l # Status /\ l \notin Relays
      <4>1. Shows(l) = FALSE /\ Shows(l)' = FALSE
        BY <1>3, <3>4 DEF Shows, Relays
      <4>2. l \in (Switches \ attached) => Settles(leds'[l], FALSE)
        BY <2>2, <3>1, <3>4
      <4>3. CASE l \notin Switches \ attached
        <5>1. l \notin excused /\ l \notin NetworkLeds
          BY <2>1, <3>1, <3>4, <4>3
        <5>2. leds'[l] = leds[l]
          BY <2>2, <3>1, <3>4, <4>3, <5>1
        <5> QED
          BY <3>1, <4>1, <5>1, <5>2 DEF Settled
      <4> QED
        BY <4>1, <4>2, <4>3
    <3> QED
      BY <3>2, <3>3, <3>4
  <2>7. NetworkShown' /\ RelaysExcused'
    BY <1>3, <1>5 DEF NetworkShown, RelaysExcused
  <2> QED
    BY <2>4, <2>5, <2>6, <2>7
<1>6. CASE ~status
  <2>1. leds' = NotConnected(leds) /\ InBounds(leds') /\ excused' = excused \ NetworkLeds
    BY <1>6 DEF NetworkStatus
  <2>2. \A l \in Leds :
          /\ leds' \in [Leds -> Led]
          /\ Chained(leds'[l])
          /\ l \in NetworkLeds => leds'[l].blink_times_left = FOREVER
          /\ l \notin NetworkLeds => leds'[l] = leds[l]
    BY <1>1, <1>2, <2>1, NotConnectedLeds
  <2>3. leds' \in [Leds -> Led]
    BY <2>2, Places, <1>1
  <2>4. TypeOK'
    BY <1>3, <1>4, <1>1, <2>1, <2>3, BoundedLeds, Places DEF TypeOK, Wiring, Switches
  <2>5. AllChained'
    BY <2>2 DEF AllChained
  <2>6. Settled'
    <3>1. ASSUME NEW l \in Serving, l \notin excused, l \notin NetworkLeds
          PROVE  Settles(leds'[l], Shows(l)')
      <4>1. leds'[l] = leds[l] /\ Settles(leds[l], Shows(l))
        BY <1>1, <2>2, <3>1, Places DEF Settled
      <4>2. Shows(l)' = Shows(l)
        BY <1>3, <1>4, <1>6 DEF Shows, Relays
      <4> QED
        BY <4>1, <4>2
    <3> QED
      BY <1>3, <1>6, <2>1, <3>1 DEF Settled, Serving, NetworkLeds
  <2>7. NetworkShown'
    <3>1. \A l \in NetworkLeds : leds'[l].blink_times_left = FOREVER /\ leds'[l].timers > 0
      BY <1>1, <2>2, Places DEF Chained, FOREVER
    <3> QED
      BY <1>3, <3>1 DEF NetworkShown, NetworkLeds
  <2>8. RelaysExcused'
    BY <1>3, <2>1 DEF RelaysExcused, NetworkLeds
  <2> QED
    BY <2>4, <2>5, <2>6, <2>7, <2>8
<1> QED
  BY <1>5, <1>6

LEMMA WriteManualInv ==
  ASSUME IInv, NEW lit \in BOOLEAN, WriteManual(lit)
  PROVE  IInv'
<1> USE DEF IInv
<1>1. /\ wiring \in Wiring /\ leds \in [Leds -> LedState] /\ leds \in [Leds -> Led]
      /\ wiring.has_dedicated_led /\ joined
  BY LedsType DEF TypeOK, WriteManual
<1>2. /\ manual' = lit /\ nv_manual' = {lit}
      /\ UNCHANGED <<wiring, joined, asked, attached, excused>>
  BY DEF WriteManual
<1>3. \A l \in Leds : leds'[l] = IF l = Status THEN Steady(leds[l], lit) ELSE leds[l]
  BY <1>1, Places DEF WriteManual, FromManualState
<1>4. /\ Steady(leds[Status], lit) \in LedState
      /\ Steady(leds[Status], lit).blink_times_left = 0
      /\ Steady(leds[Status], lit).on = lit
  <2>1. leds[Status] \in Led /\ leds[Status].timers \in 0 .. MaxTimers
    BY <1>1, Places DEF LedState
  <2> QED
    BY <2>1, SteadyLed DEF Led, LedState
<1>5. TypeOK'
  <2>1. leds' \in [Leds -> LedState]
    <3>1. leds' = [l \in Leds |-> leds'[l]]
      BY DEF WriteManual, FromManualState
    <3> QED
      BY <1>1, <1>3, <1>4, <3>1
  <2> QED
    BY <1>2, <2>1 DEF TypeOK, Wiring, Switches
<1>6. AllChained'
  BY <1>3, <1>4 DEF AllChained, Chained
<1>7. Settled'
  <2>1. ASSUME NEW l \in Serving \ excused
        PROVE  Settles(leds'[l], Shows(l)')
    <3>1. l \in Leds /\ Settles(leds[l], Shows(l))
      BY <1>1, Places DEF Settled
    <3>2. CASE l = Status
      <4>1. Shows(l)' = lit
        BY <1>1, <1>2, <3>2, Places DEF Shows, Relays
      <4> QED
        BY <1>3, <1>4, <3>1, <3>2, <4>1 DEF Settles
    <3>3. CASE l # Status
      <4>1. Shows(l)' = Shows(l)
        BY <1>2, <3>3 DEF Shows, Relays
      <4> QED
        BY <1>3, <3>1, <3>3, <4>1
    <3> QED
      BY <3>2, <3>3
  <2> QED
    BY <1>2, <2>1 DEF Settled, Serving
<1>8. NetworkShown'
  BY <1>1, <1>2 DEF NetworkShown
<1>9. RelaysExcused'
  BY <1>1, <1>2 DEF RelaysExcused, NetworkLeds, Relays
<1> QED
  BY <1>5, <1>6, <1>7, <1>8, <1>9

LEMMA SyncIndicatorInv ==
  ASSUME IInv, NEW k \in Gangs, NEW lit \in BOOLEAN, SyncIndicator(k, lit)
  PROVE  IInv'
<1> USE DEF IInv
<1>1. /\ wiring \in Wiring /\ leds \in [Leds -> LedState] /\ leds \in [Leds -> Led]
      /\ k \in Relays /\ k \in Leds /\ k # Status
  BY LedsType, Places DEF TypeOK, SyncIndicator
<1>2. /\ UNCHANGED <<wiring, joined, attached, manual, nv_manual>>
      /\ excused' = IF joined THEN excused \ {k} ELSE excused \cup {k}
  BY DEF SyncIndicator
<1>3. /\ \A l \in Leds : leds'[l] = IF l = k THEN Steady(leds[k], lit) ELSE leds[l]
      /\ \A m \in Gangs : asked'[m] = IF m = k THEN lit ELSE asked[m]
  BY <1>1 DEF SyncIndicator, TypeOK
<1>4. /\ Steady(leds[k], lit) \in LedState
      /\ Steady(leds[k], lit).blink_times_left = 0
      /\ Steady(leds[k], lit).on = lit
  <2>1. leds[k] \in Led /\ leds[k].timers \in 0 .. MaxTimers
    BY <1>1 DEF LedState
  <2> QED
    BY <2>1, SteadyLed DEF Led, LedState
<1>5. TypeOK'
  <2>1. leds' \in [Leds -> LedState] /\ asked' \in [Gangs -> BOOLEAN]
    BY <1>1, <1>4 DEF SyncIndicator, TypeOK
  <2> QED
    BY <1>1, <1>2, <2>1 DEF TypeOK, Wiring, Switches
<1>6. AllChained'
  BY <1>3, <1>4 DEF AllChained, Chained
<1>7. Settled'
  <2>1. ASSUME NEW l \in Serving, l \notin excused', joined \/ l \notin NetworkLeds
        PROVE  Settles(leds'[l], Shows(l)')
    <3>1. l \in Leds
      BY <1>1, Places
    <3>2. CASE l = k
      <4>1. Shows(l)' = lit
        BY <1>1, <1>2, <1>3, <3>2 DEF Shows, Relays
      <4> QED
        BY <1>3, <1>4, <3>1, <3>2, <4>1 DEF Settles
    <3>3. CASE l # k
      <4>1. Settles(leds[l], Shows(l))
        BY <1>2, <2>1, <3>3 DEF Settled
      <4>2. Shows(l)' = Shows(l)
        <5>1. l \in Relays => asked'[l] = asked[l]
          BY <1>1, <1>3, <3>3, Places
        <5> QED
          BY <1>2, <5>1 DEF Shows, Relays
      <4> QED
        BY <1>3, <3>1, <3>3, <4>1, <4>2
    <3> QED
      BY <3>2, <3>3
  <2> QED
    BY <1>2, <2>1 DEF Settled, Serving, NetworkLeds
<1>8. NetworkShown'
  BY <1>1, <1>2, <1>3, Places DEF NetworkShown, NetworkLeds
<1>9. RelaysExcused'
  BY <1>1, <1>2 DEF RelaysExcused, NetworkLeds, Relays
<1> QED
  BY <1>5, <1>6, <1>7, <1>8, <1>9

LEMMA FlashInv ==
  ASSUME IInv, NEW k \in Gangs, Flash(k)
  PROVE  IInv'
<1> USE DEF IInv
<1>1. /\ wiring \in Wiring /\ leds \in [Leds -> Led] /\ leds[k].blink_times_left = 0
      /\ k \in Leds /\ k # Status
  BY LedsType, Places DEF TypeOK, Flash
<1>2. /\ UNCHANGED <<wiring, joined, asked, attached, manual, nv_manual>>
      /\ excused' = IF k \in Relays THEN excused \cup {k} ELSE excused \ {k}
      /\ leds' = [leds EXCEPT ![k] = Blink(leds[k], 1)]
      /\ InBounds(leds')
  BY DEF Flash
<1>3. \A l \in Leds : leds'[l] = IF l = k THEN Blink(leds[k], 1) ELSE leds[l]
  BY <1>1, <1>2
<1>4. /\ Blink(leds[k], 1) \in Led /\ Blink(leds[k], 1).blink_times_left = 1
      /\ Chained(Blink(leds[k], 1))
  <2>1. 1 \in 1 .. FOREVER
    BY DEF FOREVER
  <2> QED
    BY <1>1, <2>1, BlinkLed DEF AllChained
<1>5. TypeOK'
  <2>1. leds' \in [Leds -> Led]
    BY <1>1, <1>2, <1>4
  <2>2. leds' \in [Leds -> LedState]
    BY <1>2, <2>1, BoundedLeds
  <2> QED
    BY <1>1, <1>2, <2>2 DEF TypeOK, Wiring, Switches
<1>6. AllChained'
  BY <1>3, <1>4 DEF AllChained
<1>7. Settled'
  <2>1. ASSUME NEW l \in Serving, l \notin excused', joined \/ l \notin NetworkLeds
        PROVE  Settles(leds'[l], Shows(l)')
    <3>1. l \in Leds
      BY <1>1, Places
    <3>2. Shows(l)' = Shows(l)
      BY <1>2 DEF Shows, Relays
    <3>3. CASE l = k
      <4>1. Shows(l) = FALSE
        BY <1>1, <1>2, <2>1, <3>3 DEF Shows
      <4> QED
        BY <1>3, <1>4, <3>1, <3>2, <3>3, <4>1 DEF Settles, FOREVER
    <3>4. CASE l # k
      BY <1>2, <1>3, <2>1, <3>1, <3>2, <3>4 DEF Settled
    <3> QED
      BY <3>3, <3>4
  <2> QED
    BY <1>2, <2>1 DEF Settled, Serving, NetworkLeds
<1>8. NetworkShown'
  <2>1. ASSUME ~joined, NEW l \in NetworkLeds, l \notin excused'
        PROVE  leds'[l].blink_times_left = FOREVER /\ leds'[l].timers > 0
    <3>1. l \in Leds
      BY <1>1, Places
    <3>2. CASE l = k
      <4>1. k \in excused
        BY <1>1, <2>1, <3>2 DEF NetworkShown, FOREVER
      <4>2. k \in Relays
        BY <2>1, <3>2, <4>1 DEF RelaysExcused
      <4> QED
        BY <1>2, <2>1, <3>2, <4>1, <4>2
    <3>3. CASE l # k
      BY <1>2, <1>3, <2>1, <3>1, <3>3 DEF NetworkShown
    <3> QED
      BY <3>2, <3>3
  <2> QED
    BY <1>2, <2>1 DEF NetworkShown, NetworkLeds
<1>9. RelaysExcused'
  BY <1>1, <1>2 DEF RelaysExcused, NetworkLeds, Relays
<1> QED
  BY <1>5, <1>6, <1>7, <1>8, <1>9

\* Neither attributes that are stored nor modes that are written reach an LED.
LEMMA WriteInv ==
  ASSUME IInv, \/ WriteBasic
               \/ \E k \in Gangs : WriteRelayMode(k)
               \/ UNCHANGED vars
  PROVE  IInv'
<1> USE DEF IInv
<1>1. /\ UNCHANGED <<wiring, joined, leds, asked, manual, excused>>
      /\ attached' \subseteq Switches /\ nv_manual' \subseteq BOOLEAN
  BY DEF WriteBasic, WriteRelayMode, vars, TypeOK
<1>2. TypeOK'
  BY <1>1 DEF TypeOK, Wiring, Switches
<1>3. AllChained'
  BY <1>1 DEF AllChained
<1>4. Settled'
  BY <1>1 DEF Settled, Serving, NetworkLeds, Shows, Relays
<1>5. NetworkShown'
  BY <1>1 DEF NetworkShown, NetworkLeds
<1>6. RelaysExcused'
  BY <1>1 DEF RelaysExcused, NetworkLeds, Relays
<1> QED
  BY <1>2, <1>3, <1>4, <1>5, <1>6

LEMMA RebootInv ==
  ASSUME IInv, Reboot
  PROVE  IInv'
<1> USE DEF IInv
<1>1. /\ ~joined' /\ asked' \in [Gangs -> BOOLEAN] /\ leds' = StartedLeds(asked')
      /\ excused' = Relays /\ UNCHANGED <<wiring, attached, nv_manual>>
  BY DEF Reboot
<1>2. wiring \in Wiring
  BY DEF TypeOK
<1>3. manual' \in BOOLEAN
  BY DEF Reboot, TypeOK
<1>4. \A l \in Leds :
        /\ leds' \in [Leds -> LedState]
        /\ Chained(leds'[l])
        /\ l \in NetworkLeds \ Relays =>
             leds'[l].blink_times_left = FOREVER /\ leds'[l].timers > 0
        /\ l \notin NetworkLeds \cup Relays => Settles(leds'[l], FALSE)
  BY <1>1, <1>2, StartedLedsAre
<1>5. TypeOK'
  <2>1. leds' \in [Leds -> LedState] /\ excused' \subseteq Leds
    BY <1>1, <1>2, <1>4, Places
  <2>2. joined' \in BOOLEAN /\ attached' \subseteq Switches' /\ nv_manual' \subseteq BOOLEAN
    BY <1>1 DEF Reboot, TypeOK, Switches
  <2> QED
    BY <1>1, <1>2, <1>3, <2>1, <2>2 DEF TypeOK
<1>6. AllChained'
  BY <1>4 DEF AllChained
<1>7. Settled'
  <2>1. ASSUME NEW l \in Serving, l \notin Relays, l \notin NetworkLeds
        PROVE  Settles(leds'[l], Shows(l)')
    <3>1. l \in Leds /\ l # Status
      BY <1>2, <2>1, Places DEF Serving
    <3>2. Shows(l)' = FALSE
      BY <1>1, <2>1, <3>1 DEF Shows, Relays
    <3> QED
      BY <1>4, <2>1, <3>1, <3>2
  <2> QED
    BY <1>1, <2>1 DEF Settled, Serving, NetworkLeds
<1>8. NetworkShown'
  BY <1>1, <1>2, <1>4, Places DEF NetworkShown, NetworkLeds
<1>9. RelaysExcused'
  BY <1>1, <1>2 DEF RelaysExcused, NetworkLeds, Relays
<1> QED
  BY <1>5, <1>6, <1>7, <1>8, <1>9

LEMMA NextInv == IInv /\ [Next]_vars => IInv'
BY BlinkHandlerInv, NetworkStatusInv, WriteManualInv, SyncIndicatorInv, FlashInv, WriteInv,
   RebootInv
   DEF Next

-----------------------------------------------------------------------------

\* The inductive invariant holds for any number of LEDs and timers.
THEOREM InvariantCorrect == Spec => []IInv
BY InitInv, NextInv, PTL DEF Spec

\* LEDs and attributes stay in their domains.
THEOREM TypeCorrect == Spec => []TypeOK
<1>1. IInv => TypeOK
  BY DEF IInv
<1> QED
  BY <1>1, InvariantCorrect, PTL

\* Out of the network its LEDs blink, unless their relay has been set since.
THEOREM NetworkIsShown == Spec => []NetworkShown
<1>1. IInv => NetworkShown
  BY DEF IInv
<1> QED
  BY <1>1, InvariantCorrect, PTL

\* In the network an LED is back to what it is for, or blinks for a while.
THEOREM IndicatorsCorrect == Spec => []IndicatorsFollow
<1>1. IInv => IndicatorsFollow
  <2> SUFFICES ASSUME IInv, joined, NEW l \in Serving \ excused
               PROVE  IF leds[l].blink_times_left = 0 THEN leds[l].on = Shows(l)
                      ELSE leds[l].blink_times_left # FOREVER /\ leds[l].timers > 0
    BY DEF IndicatorsFollow, Serving
  <2>1. Settles(leds[l], Shows(l))
    BY DEF IInv, Settled
  <2>2. Chained(leds[l])
    BY Places DEF IInv, AllChained, TypeOK
  <2> QED
    BY <2>1, <2>2 DEF Settles, Chained
<1> QED
  BY <1>1, InvariantCorrect, PTL
=============================================================================
