---------------------------- MODULE Config_proofs ----------------------------
(***************************************************************************)
(* What becomes of a device configuration.                                 *)
(*                                                                         *)
(* First the properties of ConfigParser for tables of any size and any     *)
(* numbers: what the list of entries may be is unbounded, the tables are   *)
(* not. Then those of a device under Zigbee2MQTT, for every bound on       *)
(* faults and writes and every choice of the models that are rewritten.    *)
(* What depends on the data has a hypothesis about it: that a definition   *)
(* fits the devices whose models it names (ShowsWhatIs, AsksForReports).   *)
(***************************************************************************)
EXTENDS ConfigParser, Zigbee2Mqtt, FiniteSetTheorems, TLAPS

\* The indicators fill the slots from the first one on, in the order of their LEDs; the
\* relays and the switches have the same, and an LED in use has been entered.
Indicators ==
  /\ p.relay_led = p.switch_led
  /\ \A k \in Slot : p.relay_led[k] # Null <=> k <= g.indicators_cnt
  /\ \A k \in Slot : p.relay_led[k] <= p.leds
  /\ \A j, k \in Slot : j < k /\ p.relay_led[k] # Null => p.relay_led[j] < p.relay_led[k]
  /\ p.dedicated <= p.leds
  /\ p.dedicated # Null => \A k \in Slot : p.relay_led[k] # p.dedicated

\* Without an LED of its own the network has all indicators; with one, the list ends
\* after it.
NetworkShown ==
  IF p.dedicated = Null THEN p.net_leds = p.relay_led
                        ELSE p.net_leds[1] = p.dedicated /\ p.net_leds[2] = Null

\* The counts of the generator, and what the converter has let pass.
SameCounts ==
  /\ g.switch_cnt = Len(p.switches) /\ g.relay_cnt = p.relays
  /\ g.cover_switch_cnt = p.cover_switches /\ g.cover_cnt = p.covers
  /\ g.has_battery_cluster = p.battery
  /\ accepted => (g.has_dedicated_net_led <=> p.dedicated # Null)

IInv == TypeOK /\ Indicators /\ NetworkShown /\ DebounceUniform /\ SameCounts

\* The slot that an indicator is put in is the one after those in use.
LEMMA NextSlot ==
  ASSUME NEW slots \in [Slot -> LedRef], NEW c \in Nat, NEW led,
         \A k \in Slot : slots[k] # Null <=> k <= c
  PROVE  FirstFree(slots, led) = [k \in Slot |-> IF k = c + 1 THEN led ELSE slots[k]]
<1>1. ASSUME NEW k \in Slot
      PROVE  slots[k] = Null /\ (\A j \in 1 .. k - 1 : slots[j] # Null) <=> k = c + 1
  <2>1. k \in Nat /\ k >= 1 /\ k <= Gangs /\ Gangs \in Nat
    BY ParserAssumption DEF Slot
  <2>2. CASE k <= c
    BY <2>1, <2>2
  <2>3. CASE k = c + 1
    BY <2>1, <2>3 DEF Slot
  <2>4. CASE k > c + 1
    <3>1. k - 1 \in 1 .. k - 1 /\ k - 1 \in Slot /\ ~ (k - 1 <= c)
      BY <2>1, <2>4 DEF Slot
    <3> QED BY <3>1, <2>4, <2>1
  <2> QED BY <2>1, <2>2, <2>3, <2>4
<1> QED BY <1>1 DEF FirstFree

\* At the start nothing has been read.
LEMMA InitIInv == ParserInit => IInv
<1> SUFFICES ASSUME ParserInit PROVE IInv
  OBVIOUS
<1> USE ParserAssumption
<1>1. NoTables \in Tables /\ NoCounts.indicators_cnt = 0 /\ NoLeds \in [Slot -> LedRef]
  BY DEF NoTables, NoLeds, NoCounts, Tables, LedRef, Null
<1>2. TypeOK
  BY <1>1 DEF ParserInit, TypeOK, NoTables, NoCounts, Fits
<1>3. Indicators
  BY DEF ParserInit, NoTables, NoCounts, NoLeds, Indicators, Null, Slot
<1>4. NetworkShown
  BY DEF ParserInit, NetworkShown, NoTables, NoLeds
<1>5. DebounceUniform
  BY DEF ParserInit, NoTables, DebounceUniform
<1>6. SameCounts
  BY DEF ParserInit, NoTables, NoCounts, SameCounts
<1> QED BY <1>2, <1>3, <1>4, <1>5, <1>6 DEF IInv

-----------------------------------------------------------------------------
(* Every entry keeps the invariant.                                        *)

LEMMA EntryNumber == \A e \in Entries : e.n \in Nat
<1>1. \A e \in [kind: Numbered, n: Numbers] : e.n \in Nat
  BY ParserAssumption
<1>2. \A kind \in Plain : Entry(kind).n \in Nat
  BY DEF Entry
<1> QED BY <1>1, <1>2 DEF Entries

\* A change of every element keeps a sequence of the same elements.
LEMMA Mapped ==
  ASSUME NEW S, NEW q \in Seq(S), NEW f, DOMAIN f = DOMAIN q, f = [k \in DOMAIN q |-> f[k]],
         \A k \in DOMAIN q : q[k] \in S => f[k] \in S
  PROVE  f \in Seq(S) /\ Len(f) = Len(q)
<1>1. Len(q) \in Nat /\ DOMAIN q = 1 .. Len(q)
  OBVIOUS
<1>2. \A k \in 1 .. Len(q) : f[k] \in S
  BY <1>1
<1>3. f \in [1 .. Len(q) -> S]
  BY <1>1, <1>2
<1> QED BY <1>1, <1>3

\* A count in a table may be any number.
LEMMA CountsTyped ==
  ASSUME NEW t \in Tables, NEW n \in Nat
  PROVE  /\ [t EXCEPT !.relays = n] \in Tables
         /\ [t EXCEPT !.covers = n] \in Tables
         /\ [t EXCEPT !.cover_switches = n] \in Tables
         /\ [t EXCEPT !.pulse_ms = n] \in Tables
BY DEF Tables

\* An entry that touches no table but those of its own part of the device.
LEMMA OtherEntry ==
  ASSUME IInv, NEW e \in Entries, ReadEntry(e), e.kind \notin {"S", "X", "I", "L", "B", "M", "D"}
  PROVE  IInv'
<1> USE ParserAssumption DEF IInv
<1>1. p \in Tables /\ g.relay_cnt \in Nat
  BY DEF TypeOK
<1>2. /\ p'.relay_led = p.relay_led /\ p'.switch_led = p.switch_led /\ p'.leds = p.leds
      /\ p'.net_leds = p.net_leds /\ p'.dedicated = p.dedicated
      /\ p'.buttons = p.buttons /\ p'.debounce = p.debounce
      /\ p'.switches = p.switches /\ p'.cover_switches = p.cover_switches
      /\ g'.indicators_cnt = g.indicators_cnt /\ g'.switch_cnt = g.switch_cnt
      /\ g'.cover_switch_cnt = g.cover_switch_cnt
  BY <1>1 DEF ReadEntry, Parsed, Counted, Tables, TypeOK
<1>3. p' \in Tables /\ Fits(p)'
  <2>1. e.n % 256 \in Nat
    BY EntryNumber
  <2>2. p' = Parsed(p, e) /\ Fits(p)'
    BY DEF ReadEntry
  <2>3. CASE e.kind = "R"
    <3>1. p' = [p EXCEPT !.relays = p.relays + 1]
      BY <2>2, <2>3 DEF Parsed
    <3>2. p.relays + 1 \in Nat
      BY <1>1 DEF Tables
    <3> QED BY <1>1, <2>2, <3>1, <3>2, CountsTyped
  <2>4. CASE e.kind = "C"
    <3>1. p' = [p EXCEPT !.covers = p.covers + 1]
      BY <2>2, <2>4 DEF Parsed
    <3>2. p.covers + 1 \in Nat
      BY <1>1 DEF Tables
    <3> QED BY <1>1, <2>2, <3>1, <3>2, CountsTyped
  <2>5. CASE e.kind = "BT"
    <3>1. p' = [p EXCEPT !.battery = TRUE]
      BY <2>2, <2>5 DEF Parsed
    <3> QED BY <1>1, <2>2, <3>1 DEF Tables
  <2>6. CASE e.kind = "LP"
    <3> DEFINE n == e.n % 256
    <3>1. p' = [p EXCEPT !.pulse_ms = n]
      BY <2>2, <2>6 DEF Parsed
    <3>2. n \in Nat
      BY <2>1
    <3> HIDE DEF n
    <3> QED BY <1>1, <2>2, <3>1, <3>2, CountsTyped
  <2>7. CASE e.kind \notin {"R", "C", "BT", "LP"}
    BY <1>1, <2>2, <2>7 DEF Parsed
  <2> QED BY <2>2, <2>3, <2>4, <2>5, <2>6, <2>7
<1>4. TypeOK'
  <2>1. g' = Counted(g, e) /\ accepted' \in BOOLEAN
    BY DEF ReadEntry
  <2>2. g' \in [switch_cnt: Nat, relay_cnt: Nat, cover_switch_cnt: Nat, cover_cnt: Nat,
                indicators_cnt: Nat, has_dedicated_net_led: BOOLEAN,
                has_battery_cluster: BOOLEAN]
    <3>1. CASE e.kind = "R"
      BY <2>1, <3>1 DEF TypeOK, Counted
    <3>2. CASE e.kind = "C"
      BY <2>1, <3>2 DEF TypeOK, Counted
    <3>3. CASE e.kind = "BT"
      BY <2>1, <3>3 DEF TypeOK, Counted
    <3>4. CASE e.kind = "LP"
      BY <2>1, <3>4 DEF TypeOK, Counted
    <3>5. CASE e.kind \notin {"R", "C", "BT", "LP"}
      BY <2>1, <3>5 DEF TypeOK, Counted
    <3> QED BY <3>1, <3>2, <3>3, <3>4, <3>5
  <2> QED BY <1>3, <2>1, <2>2 DEF TypeOK
<1>5. Indicators' /\ NetworkShown' /\ DebounceUniform'
  BY <1>2 DEF Indicators, NetworkShown, DebounceUniform
<1>6. SameCounts'
  <2>1. CASE e.kind = "LP"
    BY <1>1, <2>1 DEF SameCounts, ReadEntry, Parsed, Counted, Validates, Tables, TypeOK
  <2>2. CASE e.kind # "LP"
    BY <1>1, <1>2, <2>2 DEF SameCounts, ReadEntry, Parsed, Counted, Validates, Tables, TypeOK
  <2> QED BY <2>1, <2>2
<1> QED BY <1>4, <1>5, <1>6

\* An indicator goes to the next slot of the relays, of the switches and of the network.
LEMMA IndicatorEntry ==
  ASSUME IInv, NEW e \in Entries, ReadEntry(e), e.kind = "I"
  PROVE  IInv'
<1> USE ParserAssumption DEF IInv
<1> DEFINE led == p.leds + 1
           c == g.indicators_cnt
           next == [k \in Slot |-> IF k = c + 1 THEN led ELSE p.relay_led[k]]
<1>1. /\ p \in Tables /\ c \in Nat /\ p.leds \in Nat /\ led \in Nat \ {0} /\ led > p.leds
      /\ p.relay_led \in [Slot -> LedRef] /\ p.dedicated \in LedRef
  BY DEF TypeOK, Tables
<1>2. p.relay_led = p.switch_led /\ \A k \in Slot : p.relay_led[k] # Null <=> k <= c
  BY DEF Indicators
<1>3. FirstFree(p.relay_led, led) = next
  <2> HIDE DEF led, c
  <2> QED BY <1>1, <1>2, NextSlot
<1>4. p' = [p EXCEPT !.leds = led, !.relay_led = next, !.switch_led = next,
                     !.net_leds = IF p.dedicated = Null THEN next ELSE p.net_leds]
  BY <1>1, <1>2, <1>3 DEF ReadEntry, Parsed, AddIndicator, Tables, NetworkShown
<1>5. /\ p'.relay_led = next /\ p'.switch_led = next /\ p'.leds = led
      /\ p'.net_leds = (IF p.dedicated = Null THEN next ELSE p.net_leds)
      /\ p'.dedicated = p.dedicated /\ p'.buttons = p.buttons /\ p'.debounce = p.debounce
      /\ p'.switches = p.switches /\ p'.relays = p.relays
      /\ p'.cover_switches = p.cover_switches /\ p'.covers = p.covers
      /\ p'.battery = p.battery /\ p'.pulse_ms = p.pulse_ms
  <2> HIDE DEF next, led
  <2> QED BY <1>1, <1>4 DEF Tables
<1>6. g' = [g EXCEPT !.indicators_cnt = c + 1] /\ (accepted' <=> accepted)
      /\ accepted' \in BOOLEAN
  BY DEF ReadEntry, Counted, Validates, TypeOK
<1>7. Fits(p) /\ Fits(p') /\ led <= MaxLeds
  BY <1>1, <1>5 DEF TypeOK, ReadEntry, Fits
<1>8. next \in [Slot -> LedRef]
  BY <1>1, <1>7 DEF LedRef, Null
<1>9. TypeOK'
  <2>1. p' \in Tables
    <3> HIDE DEF next, led
    <3> QED BY <1>1, <1>4, <1>8 DEF Tables
  <2> QED BY <1>1, <1>6, <1>7, <2>1 DEF TypeOK
<1>10. Indicators'
  <2>1. g'.indicators_cnt = c + 1
    BY <1>6 DEF TypeOK
  <2>2. \A k \in Slot : next[k] # Null <=> k <= c + 1
    BY <1>1, <1>2 DEF Slot, Null
  <2>3. \A k \in Slot : p.relay_led[k] \in Nat /\ p.relay_led[k] <= p.leds /\ next[k] <= led
    BY <1>1 DEF Indicators, LedRef, Null
  <2>4. \A j, k \in Slot : j < k /\ next[k] # Null => next[j] < next[k]
    <3> SUFFICES ASSUME NEW j \in Slot, NEW k \in Slot, j < k, next[k] # Null
                 PROVE  next[j] < next[k]
      OBVIOUS
    <3>1. k <= c + 1 /\ j <= c
      BY <1>1, <2>2 DEF Slot
    <3>2. CASE k = c + 1
      BY <1>1, <2>3, <3>1, <3>2 DEF Slot
    <3>3. CASE k <= c
      BY <1>1, <1>2, <3>1, <3>3 DEF Slot, Indicators
    <3> QED BY <1>1, <3>1, <3>2, <3>3 DEF Slot
  <2>5. p.dedicated <= led /\ (p.dedicated # Null => \A k \in Slot : next[k] # p.dedicated)
    BY <1>1 DEF Indicators, LedRef, Null
  <2> HIDE DEF next, led, c
  <2> QED BY <1>5, <2>1, <2>2, <2>3, <2>4, <2>5 DEF Indicators
<1>11. NetworkShown' /\ DebounceUniform'
  <2> HIDE DEF next, led
  <2> QED BY <1>5 DEF NetworkShown, DebounceUniform
<1>12. SameCounts'
  BY <1>5, <1>6 DEF SameCounts, TypeOK
<1> QED BY <1>9, <1>10, <1>11, <1>12

\* The LED of the network ends the list that it begins.
LEMMA NetworkLedEntry ==
  ASSUME IInv, NEW e \in Entries, ReadEntry(e), e.kind = "L"
  PROVE  IInv'
<1> USE ParserAssumption DEF IInv
<1> DEFINE led == p.leds + 1
           ended == [p.net_leds EXCEPT ![1] = led, ![2] = Null]
<1>1. /\ p \in Tables /\ led \in Nat \ {0} /\ 1 \in Slot /\ 2 \in Slot
      /\ p.relay_led \in [Slot -> LedRef] /\ p.net_leds \in [Slot -> LedRef]
  BY DEF TypeOK, Tables, Slot
<1>2. p' = [p EXCEPT !.leds = led, !.net_leds = ended, !.dedicated = led]
  BY <1>1 DEF ReadEntry, Parsed, AddNetworkLed, Tables
<1>3. /\ p'.leds = led /\ p'.net_leds = ended /\ p'.dedicated = led
      /\ p'.relay_led = p.relay_led /\ p'.switch_led = p.switch_led
      /\ p'.buttons = p.buttons /\ p'.debounce = p.debounce
      /\ p'.switches = p.switches /\ p'.relays = p.relays
      /\ p'.cover_switches = p.cover_switches /\ p'.covers = p.covers
      /\ p'.battery = p.battery
  <2> HIDE DEF ended, led
  <2> QED BY <1>1, <1>2 DEF Tables
<1>4. /\ g' = [g EXCEPT !.has_dedicated_net_led = TRUE] /\ (accepted' <=> accepted)
      /\ g'.has_dedicated_net_led = TRUE
  BY DEF ReadEntry, Counted, Validates, TypeOK
<1>5. Fits(p') /\ led <= MaxLeds
  BY <1>3 DEF ReadEntry, Fits
<1>6. ended \in [Slot -> LedRef] /\ led \in LedRef /\ ended[1] = led /\ ended[2] = Null
  BY <1>1, <1>5 DEF LedRef, Null
<1>7. TypeOK'
  <2>1. p' \in Tables
    <3> HIDE DEF ended
    <3> QED BY <1>1, <1>2, <1>6 DEF Tables
  <2> QED BY <1>4, <1>5, <2>1 DEF TypeOK
<1>8. Indicators'
  <2>1. g'.indicators_cnt = g.indicators_cnt
    BY <1>4 DEF TypeOK
  <2>2. \A k \in Slot : p.relay_led[k] \in Nat /\ p.relay_led[k] <= p.leds
    BY <1>1 DEF Indicators, LedRef, Null
  <2>3. \A k \in Slot : p.relay_led[k] <= led /\ p.relay_led[k] # led
    BY <1>1, <2>2 DEF Tables
  <2>4. led <= led
    BY <1>1
  <2> HIDE DEF led
  <2> QED BY <1>3, <2>1, <2>3, <2>4 DEF Indicators
<1>9. NetworkShown' /\ DebounceUniform'
  BY <1>1, <1>3, <1>6 DEF NetworkShown, DebounceUniform, Null
<1>10. SameCounts'
  BY <1>1, <1>3, <1>4 DEF SameCounts, TypeOK, Null
<1> QED BY <1>7, <1>8, <1>9, <1>10

\* Switches and buttons: a new button has the debounce time that all have.
LEMMA ButtonEntry ==
  ASSUME IInv, NEW e \in Entries, ReadEntry(e), e.kind \in {"S", "X", "B", "M", "D"}
  PROVE  IInv'
<1> USE ParserAssumption DEF IInv
<1>1. /\ p \in Tables /\ p.buttons \in Seq(Nat) /\ p.debounce \in Nat
      /\ p.switches \in Seq([mode: {"toggle", "momentary"}, relay_index: Nat])
      /\ e.n \in Nat
  BY EntryNumber DEF TypeOK, Tables
<1>2. /\ p'.relay_led = p.relay_led /\ p'.switch_led = p.switch_led /\ p'.leds = p.leds
      /\ p'.net_leds = p.net_leds /\ p'.dedicated = p.dedicated
      /\ p'.relays = p.relays /\ p'.covers = p.covers /\ p'.battery = p.battery
      /\ g'.indicators_cnt = g.indicators_cnt
  BY <1>1 DEF ReadEntry, Parsed, Counted, AddSwitch, AddButton, SetMomentary, SetDebounce, Tables, TypeOK
<1>3. Indicators' /\ NetworkShown'
  BY <1>2 DEF Indicators, NetworkShown
<1>4. Fits(p)'
  BY DEF ReadEntry
<1>5. g' \in [switch_cnt: Nat, relay_cnt: Nat, cover_switch_cnt: Nat, cover_cnt: Nat,
              indicators_cnt: Nat, has_dedicated_net_led: BOOLEAN,
              has_battery_cluster: BOOLEAN]
      /\ accepted' \in BOOLEAN /\ (accepted' <=> accepted)
  BY DEF ReadEntry, Counted, TypeOK, Validates
<1>6. CASE e.kind = "S"
  <2> DEFINE new == [mode |-> "toggle", relay_index |-> Len(p.switches) + 1]
  <2>1. p' = [p EXCEPT !.buttons = Append(p.buttons, p.debounce),
                       !.switches = Append(p.switches, new)]
    BY <1>1, <1>6 DEF ReadEntry, Parsed, AddSwitch, AddButton, Tables
  <2>2. new \in [mode: {"toggle", "momentary"}, relay_index: Nat]
    BY <1>1
  <2> HIDE DEF new
  <2>3. Append(p.switches, new) \in Seq([mode: {"toggle", "momentary"}, relay_index: Nat])
        /\ Len(Append(p.switches, new)) = Len(p.switches) + 1
    BY <1>1, <2>2
  <2>6. Append(p.buttons, p.debounce) \in Seq(Nat)
    BY <1>1
  <2>8. p' \in Tables
    BY <1>1, <2>1, <2>3, <2>6 DEF Tables
  <2>4. DebounceUniform'
    <3>1. \A b \in DOMAIN Append(p.buttons, p.debounce) :
            Append(p.buttons, p.debounce)[b] = p.debounce
      BY <1>1 DEF DebounceUniform
    <3>2. p'.buttons = Append(p.buttons, p.debounce) /\ p'.debounce = p.debounce
      BY <1>1, <2>1 DEF Tables
    <3> QED BY <3>1, <3>2 DEF DebounceUniform
  <2>5. SameCounts'
    BY <1>1, <1>5, <1>6, <2>1, <2>3 DEF SameCounts, ReadEntry, Counted, TypeOK, Tables
  <2> QED BY <1>3, <1>4, <1>5, <2>4, <2>5, <2>8 DEF TypeOK
<1>7. CASE e.kind = "X"
  <2>1. p' = [p EXCEPT !.buttons = Append(Append(p.buttons, p.debounce), p.debounce),
                       !.cover_switches = p.cover_switches + 1]
    BY <1>1, <1>7 DEF ReadEntry, Parsed, AddButton, Tables
  <2> DEFINE two == Append(Append(p.buttons, p.debounce), p.debounce)
  <2>2. two \in Seq(Nat) /\ \A b \in DOMAIN two : two[b] = p.debounce
    BY <1>1 DEF DebounceUniform
  <2>3. p' \in Tables
    <3>1. [p EXCEPT !.buttons = two] \in Tables
      BY <1>1, <2>2 DEF Tables
    <3>2. p' = [[p EXCEPT !.buttons = two]
                  EXCEPT !.cover_switches = p.cover_switches + 1]
      BY <1>1, <2>1 DEF Tables
    <3>3. p.cover_switches + 1 \in Nat
      BY <1>1 DEF Tables
    <3> QED BY <3>1, <3>2, <3>3, CountsTyped
  <2>4. DebounceUniform'
    <3>1. p'.buttons = two /\ p'.debounce = p.debounce
      BY <1>1, <2>1 DEF Tables
    <3> QED BY <2>2, <3>1 DEF DebounceUniform
  <2>5. SameCounts'
    BY <1>1, <1>5, <1>7, <2>1 DEF SameCounts, ReadEntry, Counted, TypeOK, Tables
  <2> QED BY <1>3, <1>4, <1>5, <2>3, <2>4, <2>5 DEF TypeOK
<1>8. CASE e.kind = "B"
  <2>1. p' = [p EXCEPT !.buttons = Append(p.buttons, p.debounce)]
    BY <1>1, <1>8 DEF ReadEntry, Parsed, AddButton, Tables
  <2>2. /\ Append(p.buttons, p.debounce) \in Seq(Nat)
        /\ \A b \in DOMAIN Append(p.buttons, p.debounce) :
             Append(p.buttons, p.debounce)[b] = p.debounce
    BY <1>1 DEF DebounceUniform
  <2>3. p' \in Tables
    BY <1>1, <2>1, <2>2 DEF Tables
  <2>4. DebounceUniform'
    <3>1. p'.buttons = Append(p.buttons, p.debounce) /\ p'.debounce = p.debounce
      BY <1>1, <2>1 DEF Tables
    <3> QED BY <2>2, <3>1 DEF DebounceUniform
  <2>5. SameCounts'
    BY <1>1, <1>5, <1>8, <2>1 DEF SameCounts, ReadEntry, Counted, TypeOK, Tables
  <2> QED BY <1>3, <1>4, <1>5, <2>3, <2>4, <2>5 DEF TypeOK
<1>9. CASE e.kind = "M"
  <2> DEFINE all == [k \in DOMAIN p.switches |-> [p.switches[k] EXCEPT !.mode = "momentary"]]
  <2>1. p' = [p EXCEPT !.switches = all]
    BY <1>1, <1>9 DEF ReadEntry, Parsed, SetMomentary, Tables
  <2>2. all \in Seq([mode: {"toggle", "momentary"}, relay_index: Nat])
        /\ Len(all) = Len(p.switches)
    <3>1. \A r \in [mode: {"toggle", "momentary"}, relay_index: Nat] :
            [r EXCEPT !.mode = "momentary"] \in [mode: {"toggle", "momentary"}, relay_index: Nat]
      OBVIOUS
    <3> DEFINE AddedSwitch == [mode: {"toggle", "momentary"}, relay_index: Nat]
    <3>2. DOMAIN all = DOMAIN p.switches /\ all = [k \in DOMAIN p.switches |-> all[k]]
      OBVIOUS
    <3>3. \A k \in DOMAIN p.switches : p.switches[k] \in AddedSwitch => all[k] \in AddedSwitch
      BY <3>1
    <3>4. p.switches \in Seq(AddedSwitch)
      BY <1>1
    <3> HIDE DEF all, AddedSwitch
    <3>5. all \in Seq(AddedSwitch) /\ Len(all) = Len(p.switches)
      BY <3>2, <3>3, <3>4, Mapped
    <3> QED BY <3>5 DEF AddedSwitch
  <2> HIDE DEF all
  <2>3. p' \in Tables
    BY <1>1, <2>1, <2>2 DEF Tables
  <2>4. DebounceUniform'
    BY <1>1, <2>1 DEF DebounceUniform, Tables
  <2>5. SameCounts'
    BY <1>1, <1>5, <1>9, <2>1, <2>2 DEF SameCounts, ReadEntry, Counted, TypeOK, Tables
  <2> QED BY <1>3, <1>4, <1>5, <2>3, <2>4, <2>5 DEF TypeOK
<1>10. CASE e.kind = "D"
  <2> DEFINE all == [b \in DOMAIN p.buttons |-> e.n]
  <2>1. p' = [p EXCEPT !.debounce = e.n, !.buttons = all]
    BY <1>1, <1>10 DEF ReadEntry, Parsed, SetDebounce, Tables
  <2>2. all \in Seq(Nat)
    BY <1>1
  <2>6. \A b \in DOMAIN all : all[b] = e.n
    OBVIOUS
  <2> HIDE DEF all
  <2>3. p' \in Tables
    BY <1>1, <2>1, <2>2 DEF Tables
  <2>4. DebounceUniform'
    BY <1>1, <2>1, <2>2, <2>6 DEF DebounceUniform, Tables
  <2>5. SameCounts'
    BY <1>1, <1>5, <1>10, <2>1 DEF SameCounts, ReadEntry, Counted, TypeOK, Tables
  <2> QED BY <1>3, <1>4, <1>5, <2>3, <2>4, <2>5 DEF TypeOK
<1> QED BY <1>6, <1>7, <1>8, <1>9, <1>10

LEMMA NextIInv == IInv /\ [ParserNext]_parser_vars => IInv'
<1> SUFFICES ASSUME IInv, [ParserNext]_parser_vars PROVE IInv'
  OBVIOUS
<1>1. ASSUME NEW e \in Entries, ReadEntry(e) PROVE IInv'
  BY <1>1, OtherEntry, IndicatorEntry, NetworkLedEntry, ButtonEntry
<1>2. CASE UNCHANGED parser_vars
  BY <1>2 DEF IInv, parser_vars, TypeOK, Indicators, NetworkShown, DebounceUniform, SameCounts
<1> QED BY <1>1, <1>2 DEF ParserNext

LEMMA Invariance == ParserSpec => []IInv
BY InitIInv, NextIInv, PTL DEF ParserSpec

-----------------------------------------------------------------------------
(* The properties, of every list of entries.                               *)

\* The tables keep their types and their bounds.
THEOREM TypeCorrect == ParserSpec => []TypeOK
<1>1. IInv => TypeOK
  BY DEF IInv
<1> QED BY <1>1, Invariance, PTL

\* The k-th indicator belongs to the k-th relay and to the k-th switch.
THEOREM Paired == ParserSpec => []IndicatorsPaired
<1>1. IInv => IndicatorsPaired
  BY DEF IInv, Indicators, IndicatorsPaired
<1> QED BY <1>1, Invariance, PTL

\* The network is shown by its own LED or, without one, by all indicators.
THEOREM NetworkLedsKnown == ParserSpec => []NetworkLedsAsDocumented
<1>1. ASSUME IInv PROVE NetworkLedsAsDocumented
  <2> USE <1>1, ParserAssumption DEF IInv
  <2>1. 1 \in Slot /\ 2 \in Slot /\ Slot = 1 .. Gangs /\ g.indicators_cnt \in Nat
    BY DEF Slot, TypeOK
  <2>2. CASE p.dedicated # Null
    <3>1. p.net_leds[1] = p.dedicated /\ p.net_leds[2] = Null
      BY <2>2 DEF NetworkShown
    <3>2. {m \in Slot : \A j \in 1 .. m : p.net_leds[j] # Null} = {1}
      <4>1. ASSUME NEW m \in Slot, m # 1 PROVE 2 \in 1 .. m
        BY <2>1, <4>1
      <4>2. \A j \in 1 .. 1 : p.net_leds[j] # Null
        BY <3>1, <2>2
      <4> QED BY <2>1, <3>1, <4>1, <4>2
    <3> QED BY <2>2, <3>1, <3>2 DEF NetworkLedsAsDocumented, NetworkLeds
  <2>3. CASE p.dedicated = Null
    <3>1. /\ p.net_leds = p.relay_led
          /\ \A k \in Slot : p.relay_led[k] # Null <=> k <= g.indicators_cnt
      BY <2>3 DEF NetworkShown, Indicators
    <3>2. ASSUME NEW m \in Slot
          PROVE  (\A j \in 1 .. m : p.net_leds[j] # Null) <=> p.relay_led[m] # Null
      BY <2>1, <3>1
    <3> QED BY <2>3, <3>1, <3>2 DEF NetworkLedsAsDocumented, NetworkLeds
  <2> QED BY <2>2, <2>3
<1> QED BY <1>1, Invariance, PTL

\* All buttons have the same debounce time, whenever it is set.
THEOREM OneDebounce == ParserSpec => []DebounceUniform
<1>1. IInv => DebounceUniform
  BY DEF IInv
<1> QED BY <1>1, Invariance, PTL

\* The firmware and the generator make the same device of what the converter lets pass.
THEOREM SameDevice == ParserSpec => []ReadAlike
<1>1. IInv => ReadAlike
  BY DEF IInv, SameCounts, Indicators, ReadAlike
<1> QED BY <1>1, Invariance, PTL

-----------------------------------------------------------------------------
(* The tables that the parser makes of a whole configuration.              *)

\* A set of numbers that has 0 and, with a number, the next one, has all: else every
\* number up to one that is missing could be mapped to a smaller one, the missing to
\* the one before, and no two to the same.
LEMMA Induction ==
  ASSUME NEW S, 0 \in S, \A n \in Nat : n \in S => n + 1 \in S
  PROVE  Nat \subseteq S
<1> SUFFICES ASSUME NEW n \in Nat, n \notin S PROVE FALSE
  OBVIOUS
<1>1. n > 0
  OBVIOUS
<1> DEFINE A == 0 .. n
           B == 0 .. n - 1
           f == [k \in A |-> IF k \in S THEN k ELSE k - 1]
<1>2. \A k \in A : k \notin S => k - 1 \in Nat /\ k - 1 \notin S
  OBVIOUS
<1>3. f \in [A -> B]
  BY <1>1, <1>2
<1>4. IsFiniteSet(A) /\ IsFiniteSet(B) /\ Cardinality(B) < Cardinality(A)
  BY <1>1, FS_Interval
<1>5. \E j, k \in A : j # k /\ f[j] = f[k]
  <2> HIDE DEF f, A, B
  <2> QED BY <1>3, <1>4, FS_PigeonHole, Zenon
<1> QED BY <1>2, <1>5

\* What an entry is read as, and the tables without the bounds that parse_config relies on.
Letters == [kind: Plain \cup Numbered, n: Nat]
AnyTables ==
  [switches: Seq([mode: {"toggle", "momentary"}, relay_index: Nat]),
   relays: Nat, cover_switches: Nat, covers: Nat,
   buttons: Seq(Nat), debounce: Nat,
   leds: Nat, relay_led: [Slot -> Nat], switch_led: [Slot -> Nat],
   net_leds: [Slot -> Nat], dedicated: Nat,
   battery: BOOLEAN, pulse_ms: Nat]

\* The parser begins with tables,
LEMMA NoTablesTyped == NoTables \in AnyTables
BY ParserAssumption DEF NoTables, AnyTables, NoLeds, Null

\* and whatever the entry, they stay tables.
LEMMA ParsedTyped ==
  ASSUME NEW t \in AnyTables, NEW e \in Letters
  PROVE  Parsed(t, e) \in AnyTables
<1> DEFINE Entered == [mode: {"toggle", "momentary"}, relay_index: Nat]
<1>1. /\ t.switches \in Seq(Entered) /\ t.buttons \in Seq(Nat) /\ t.debounce \in Nat
      /\ t.leds \in Nat /\ t.relays \in Nat /\ t.covers \in Nat /\ t.cover_switches \in Nat
      /\ t.relay_led \in [Slot -> Nat] /\ t.switch_led \in [Slot -> Nat]
      /\ t.net_leds \in [Slot -> Nat] /\ t.dedicated \in Nat
  BY DEF AnyTables
<1>2. e.n \in Nat /\ e.n % 256 \in Nat
  BY DEF Letters
<1>3. \A u \in AnyTables : AddButton(u) = [u EXCEPT !.buttons = Append(u.buttons, u.debounce)]
                         /\ AddButton(u) \in AnyTables
  <2> SUFFICES ASSUME NEW u \in AnyTables
               PROVE  [u EXCEPT !.buttons = Append(u.buttons, u.debounce)] \in AnyTables
    BY DEF AddButton
  <2>1. u.buttons \in Seq(Nat) /\ u.debounce \in Nat
    BY DEF AnyTables
  <2>2. Append(u.buttons, u.debounce) \in Seq(Nat)
    BY <2>1
  <2> QED BY <2>2 DEF AnyTables
<1>4. CASE e.kind = "S"
  <2> DEFINE new == [mode |-> "toggle", relay_index |-> Len(t.switches) + 1]
  <2>1. new \in Entered
    BY <1>1
  <2>2. Parsed(t, e) = [AddButton(t) EXCEPT !.switches = Append(AddButton(t).switches, new)]
    BY <1>4 DEF Parsed, AddSwitch
  <2>3. AddButton(t).switches \in Seq(Entered)
    BY <1>3 DEF AnyTables
  <2> HIDE DEF new, Entered
  <2>4. Append(AddButton(t).switches, new) \in Seq(Entered)
    BY <2>1, <2>3
  <2> QED BY <1>3, <2>2, <2>4 DEF AnyTables, Entered
<1>5. CASE e.kind = "X"
  <2>1. AddButton(AddButton(t)) \in AnyTables
    BY <1>3
  <2>2. AddButton(AddButton(t)).cover_switches + 1 \in Nat
    BY <2>1 DEF AnyTables
  <2>3. Parsed(t, e) = [AddButton(AddButton(t)) EXCEPT
                          !.cover_switches = AddButton(AddButton(t)).cover_switches + 1]
    BY <1>5 DEF Parsed
  <2> QED BY <2>1, <2>2, <2>3 DEF AnyTables
<1>6. CASE e.kind = "I"
  <2> DEFINE led == t.leds + 1
             net == IF t.dedicated = Null THEN FirstFree(t.net_leds, led) ELSE t.net_leds
  <2>1. led \in Nat /\ \A slots \in [Slot -> Nat] : FirstFree(slots, led) \in [Slot -> Nat]
    BY <1>1 DEF FirstFree
  <2>2. /\ net \in [Slot -> Nat]
        /\ FirstFree(t.relay_led, led) \in [Slot -> Nat]
        /\ FirstFree(t.switch_led, led) \in [Slot -> Nat]
    <3> HIDE DEF led
    <3> QED BY <1>1, <2>1
  <2>3. Parsed(t, e) = [t EXCEPT !.leds = led, !.relay_led = FirstFree(t.relay_led, led),
                                 !.switch_led = FirstFree(t.switch_led, led), !.net_leds = net]
    BY <1>6 DEF Parsed, AddIndicator, AnyTables
  <2> HIDE DEF led, net
  <2> QED BY <2>1, <2>2, <2>3 DEF AnyTables
<1>7. CASE e.kind = "L"
  <2> DEFINE net == [t.net_leds EXCEPT ![1] = t.leds + 1, ![2] = Null]
  <2>1. t.leds + 1 \in Nat /\ net \in [Slot -> Nat]
    <3>1. \A f \in [Slot -> Nat], v, w \in Nat : [f EXCEPT ![1] = v, ![2] = w] \in [Slot -> Nat]
      OBVIOUS
    <3>2. t.leds + 1 \in Nat /\ Null \in Nat
      BY <1>1 DEF Null
    <3> QED BY <1>1, <3>1, <3>2
  <2>2. Parsed(t, e) = [t EXCEPT !.leds = t.leds + 1, !.net_leds = net, !.dedicated = t.leds + 1]
    BY <1>7 DEF Parsed, AddNetworkLed, AnyTables
  <2> HIDE DEF net
  <2> QED BY <2>1, <2>2 DEF AnyTables
<1>8. CASE e.kind = "M"
  <2> DEFINE f == [k \in DOMAIN t.switches |-> [t.switches[k] EXCEPT !.mode = "momentary"]]
  <2>1. \A k \in DOMAIN t.switches : t.switches[k] \in Entered => f[k] \in Entered
    OBVIOUS
  <2>2. DOMAIN f = DOMAIN t.switches /\ f = [k \in DOMAIN t.switches |-> f[k]]
    OBVIOUS
  <2>3. f \in Seq(Entered)
    <3> HIDE DEF f, Entered
    <3> QED BY <1>1, <2>1, <2>2, Mapped
  <2>4. Parsed(t, e) = [t EXCEPT !.switches = f]
    BY <1>8 DEF Parsed, SetMomentary
  <2> HIDE DEF f
  <2> QED BY <2>3, <2>4 DEF AnyTables
<1>9. CASE e.kind = "D"
  <2> DEFINE f == [b \in DOMAIN t.buttons |-> e.n]
  <2>1. f \in Seq(Nat)
    <3>1. /\ DOMAIN f = DOMAIN t.buttons /\ f = [b \in DOMAIN t.buttons |-> f[b]]
          /\ \A b \in DOMAIN t.buttons : t.buttons[b] \in Nat => f[b] \in Nat
      BY <1>2
    <3> HIDE DEF f
    <3> QED BY <1>1, <3>1, Mapped
  <2>2. Parsed(t, e) = [t EXCEPT !.debounce = e.n, !.buttons = f]
    BY <1>9 DEF Parsed, SetDebounce
  <2> HIDE DEF f
  <2> QED BY <1>2, <2>1, <2>2 DEF AnyTables
<1>10. CASE e.kind = "B"
  BY <1>3, <1>10 DEF Parsed
<1>11. CASE e.kind \in {"R", "C", "BT", "LP"}
  <2>1. \A n \in Nat : /\ [t EXCEPT !.relays = n] \in AnyTables
                       /\ [t EXCEPT !.covers = n] \in AnyTables
                       /\ [t EXCEPT !.pulse_ms = n] \in AnyTables
                       /\ [t EXCEPT !.battery = TRUE] \in AnyTables
    BY DEF AnyTables
  <2>2. t.relays + 1 \in Nat /\ t.covers + 1 \in Nat
    BY <1>1
  <2>3. \/ Parsed(t, e) = [t EXCEPT !.relays = t.relays + 1]
        \/ Parsed(t, e) = [t EXCEPT !.covers = t.covers + 1]
        \/ Parsed(t, e) = [t EXCEPT !.battery = TRUE]
        \/ Parsed(t, e) = [t EXCEPT !.pulse_ms = e.n % 256]
    BY <1>11 DEF Parsed
  <2> QED BY <1>2, <2>1, <2>2, <2>3
<1>12. CASE e.kind \notin {"S", "X", "I", "L", "M", "D", "B", "R", "C", "BT", "LP"}
  BY <1>12 DEF Parsed
<1> QED BY <1>4, <1>5, <1>6, <1>7, <1>8, <1>9, <1>10, <1>11, <1>12

\* The tables after each entry, as a function of how many have been read.
IsReading(entries, read, n) ==
  read = [i \in 0 .. n |-> IF i = 0 THEN NoTables ELSE Parsed(read[i - 1], entries[i])]

\* The recursive definition in Parse defines a function.
LEMMA ReadingExists ==
  ASSUME NEW entries, NEW n \in Nat
  PROVE  \E read : IsReading(entries, read, n)
<1> DEFINE S == {m \in Nat : \E read : IsReading(entries, read, m)}
<1>1. 0 \in S
  <2> DEFINE first == [i \in 0 .. 0 |-> NoTables]
  <2>1. first = [i \in 0 .. 0 |-> IF i = 0 THEN NoTables ELSE Parsed(first[i - 1], entries[i])]
    OBVIOUS
  <2>2. IsReading(entries, first, 0)
    BY <2>1 DEF IsReading
  <2> QED BY <2>2
<1>2. ASSUME NEW m \in Nat, m \in S PROVE m + 1 \in S
  <2>1. PICK read : IsReading(entries, read, m)
    BY <1>2
  <2> DEFINE next == [i \in 0 .. m + 1 |->
                        IF i <= m THEN read[i] ELSE Parsed(read[m], entries[m + 1])]
  <2>2. \A i \in 0 .. m + 1 :
          next[i] = IF i = 0 THEN NoTables ELSE Parsed(next[i - 1], entries[i])
    <3>1. \A i \in 0 .. m :
            read[i] = IF i = 0 THEN NoTables ELSE Parsed(read[i - 1], entries[i])
      BY <2>1 DEF IsReading
    <3>2. ASSUME NEW i \in 0 .. m
          PROVE  next[i] = IF i = 0 THEN NoTables ELSE Parsed(next[i - 1], entries[i])
      <4>1. next[i] = read[i] /\ (i # 0 => i - 1 \in 0 .. m /\ next[i - 1] = read[i - 1])
        OBVIOUS
      <4> QED BY <3>1, <4>1
    <3>3. next[m + 1] = Parsed(next[m], entries[m + 1]) /\ m + 1 # 0 /\ (m + 1) - 1 = m
      OBVIOUS
    <3>4. \A i \in 0 .. m + 1 : i \in 0 .. m \/ i = m + 1
      OBVIOUS
    <3> HIDE DEF next
    <3> QED BY <3>2, <3>3, <3>4
  <2>3. next = [i \in 0 .. m + 1 |-> next[i]]
    OBVIOUS
  <2>4. IsReading(entries, next, m + 1)
    <3> HIDE DEF next
    <3> QED BY <2>2, <2>3 DEF IsReading
  <2> QED BY <2>4
<1> HIDE DEF S
<1>3. n \in S
  BY <1>1, <1>2, Induction
<1> QED BY <1>3 DEF S

\* Of entries of any kind, in any number and order, the parser makes tables.
THEOREM ParseTyped ==
  ASSUME NEW entries \in Seq(Letters)
  PROVE  Parse(entries) \in AnyTables
<1> DEFINE last == Len(entries)
           read == CHOOSE r : IsReading(entries, r, last)
<1>1. last \in Nat /\ \A i \in 1 .. last : entries[i] \in Letters
  OBVIOUS
<1>2. Parse(entries) = read[last]
  BY DEF Parse, IsReading
<1>3. IsReading(entries, read, last)
  <2> HIDE DEF last
  <2> QED BY <1>1, ReadingExists
<1> HIDE DEF read, last
<1> DEFINE S == {i \in Nat : i <= last => read[i] \in AnyTables}
<1>4. \A i \in 0 .. last : read[i] = IF i = 0 THEN NoTables ELSE Parsed(read[i - 1], entries[i])
  BY <1>3 DEF IsReading
<1>5. 0 \in S
  BY <1>1, <1>4, NoTablesTyped
<1>6. ASSUME NEW m \in Nat, m \in S PROVE m + 1 \in S
  <2> SUFFICES ASSUME m + 1 <= last PROVE read[m + 1] \in AnyTables
    OBVIOUS
  <2>1. read[m] \in AnyTables /\ m + 1 \in 1 .. last /\ m + 1 \in 0 .. last /\ (m + 1) - 1 = m
    BY <1>1, <1>6
  <2>2. read[m + 1] = Parsed(read[m], entries[m + 1])
    BY <1>4, <2>1
  <2> QED BY <1>1, <2>1, <2>2, ParsedTyped
<1>7. last \in S
  <2> HIDE DEF S
  <2> QED BY <1>1, <1>5, <1>6, Induction
<1> QED BY <1>1, <1>2, <1>7

\* So is a list of letters.
LEMMA OfTyped == \A kinds \in Seq(Plain) : Of(kinds) \in Seq(Letters)
<1> SUFFICES ASSUME NEW kinds \in Seq(Plain) PROVE Of(kinds) \in Seq(Letters)
  OBVIOUS
<1>1. \A k \in DOMAIN kinds : Entry(kinds[k]) \in Letters
  BY DEF Entry, Letters
<1>2. Len(kinds) \in Nat /\ DOMAIN kinds = 1 .. Len(kinds)
  OBVIOUS
<1> HIDE DEF Letters
<1> QED BY <1>1, <1>2 DEF Of

\* The entries of every device of the database are entries.
LEMMA DatabaseTyped == \A c \in device_db : c.entries \in Seq(Letters)
<1> DEFINE Good(c) == c.entries \in Seq(Letters)
<1>1. \A entries \in Seq(Letters) : \A models : \A c \in Configs(entries, models) : Good(c)
  BY DEF Configs
<1>2. \A kinds \in Seq(Plain) : \A models : \A c \in Configs(Of(kinds), models) : Good(c)
  BY <1>1, OfTyped
<1> HIDE DEF Letters, Good
<1>3. \A c \in switch_modules : Good(c)
  <2>1. /\ <<"B", "L", "S", "R">> \in Seq(Plain)
        /\ <<"B", "L", "S", "R", "S", "R">> \in Seq(Plain)
        /\ <<"B", "L", "S", "R", "S", "R", "S", "R">> \in Seq(Plain)
        /\ <<"B", "L", "S", "R", "S", "R", "S", "R", "S", "R">> \in Seq(Plain)
        /\ <<"B", "L", "S", "R", "S", "R", "M">> \in Seq(Plain)
        /\ <<"B", "S", "R", "S", "R", "S", "R">> \in Seq(Plain)
        /\ <<"B", "L", "S", "R", "S", "R", "SLP">> \in Seq(Plain)
        /\ <<"B", "L", "S", "S", "R", "R">> \in Seq(Plain)
    BY DEF Plain
  <2> SUFFICES ASSUME NEW c \in switch_modules PROVE Good(c)
    OBVIOUS
  <2> QED BY <1>2, <2>1, ZenonT(60) DEF switch_modules
<1>4. \A c \in plain_switches : Good(c)
  <2>1. /\ <<"L", "S", "R", "S", "R", "S", "R", "S", "R", "M">> \in Seq(Plain)
        /\ <<"L", "S", "R", "M">> \in Seq(Plain)
        /\ <<"L", "S", "R", "S", "R", "M">> \in Seq(Plain)
        /\ <<"L", "S", "R">> \in Seq(Plain)
        /\ <<"L", "S", "R", "S", "R", "S", "R", "M">> \in Seq(Plain)
    BY DEF Plain
  <2> SUFFICES ASSUME NEW c \in plain_switches PROVE Good(c)
    OBVIOUS
  <2> QED BY <1>2, <2>1, ZenonT(60) DEF plain_switches
<1>5. \A c \in indicated_switches : Good(c)
  <2>1. /\ <<"L", "S", "R", "I", "M">> \in Seq(Plain)
        /\ <<"L", "S", "R", "I", "S", "R", "I", "M">> \in Seq(Plain)
        /\ <<"S", "R", "I", "M">> \in Seq(Plain)
        /\ <<"L", "S", "R", "I", "M", "SLP">> \in Seq(Plain)
        /\ <<"L", "S", "R", "I", "S", "R", "I", "M", "SLP">> \in Seq(Plain)
        /\ <<"L", "S", "R", "I", "S", "R", "I", "S", "R", "I", "M", "SLP">> \in Seq(Plain)
        /\ <<"L", "S", "R", "I", "S", "R", "M">> \in Seq(Plain)
        /\ <<"L", "S", "R", "I", "S", "R", "I", "S", "R", "I", "M">> \in Seq(Plain)
        /\ <<"L", "S", "R", "I", "S", "R", "I", "S", "R", "I", "S", "R", "I", "M">> \in Seq(Plain)
        /\ <<"S", "R", "I", "S", "R", "I", "S", "R", "I", "S", "R", "I", "M">> \in Seq(Plain)
        /\ <<"I", "S", "R", "M">> \in Seq(Plain)
        /\ <<"S", "R", "I", "S", "R", "I", "M">> \in Seq(Plain)
        /\ <<"S", "R", "I", "S", "R", "I", "S", "R", "I", "M">> \in Seq(Plain)
        /\ <<"B", "L", "S", "R", "I">> \in Seq(Plain)
        /\ <<"L", "S", "R", "I", "S", "R", "I">> \in Seq(Plain)
        /\ <<"L", "S", "R", "I", "S", "R", "I", "S", "R", "I">> \in Seq(Plain)
        /\ <<"L", "S", "R", "I", "S", "R", "I", "S", "R", "I", "S", "R", "I">> \in Seq(Plain)
    BY DEF Plain
  <2>2. \A models :
          \A c \in Configs(Of(<<"S", "R", "I", "S", "R", "I">>) \o <<[kind |-> "LP", n |-> 50]>>
                           \o Of(<<"M">>), models) : Good(c)
    <3> DEFINE first == Of(<<"S", "R", "I", "S", "R", "I">>)
               pulse == [kind |-> "LP", n |-> 50]
               final == Of(<<"M">>)
    <3>1. <<"S", "R", "I", "S", "R", "I">> \in Seq(Plain) /\ <<"M">> \in Seq(Plain)
      BY DEF Plain
    <3>2. first \in Seq(Letters) /\ final \in Seq(Letters)
      BY <3>1, OfTyped
    <3>3. pulse \in Letters
      BY DEF Letters, Numbered
    <3> HIDE DEF first, pulse, final
    <3>4. <<pulse>> \in Seq(Letters)
      BY <3>3
    <3>5. first \o <<pulse>> \in Seq(Letters)
      BY <3>2, <3>4
    <3>6. first \o <<pulse>> \o final \in Seq(Letters)
      BY <3>2, <3>5
    <3> QED BY <1>1, <3>6 DEF first, pulse, final
  <2> SUFFICES ASSUME NEW c \in indicated_switches PROVE Good(c)
    OBVIOUS
  <2> QED BY <1>2, <2>1, <2>2, ZenonT(60) DEF indicated_switches
<1>6. \A c \in cover_modules : Good(c)
  <2>1. /\ <<"B", "L", "X", "C">> \in Seq(Plain)
        /\ <<"L", "X", "C", "X", "C">> \in Seq(Plain)
        /\ <<"B", "L", "X", "C", "M">> \in Seq(Plain)
    BY DEF Plain
  <2> SUFFICES ASSUME NEW c \in cover_modules PROVE Good(c)
    OBVIOUS
  <2> QED BY <1>2, <2>1, ZenonT(60) DEF cover_modules
<1>7. \A c \in remotes : Good(c)
  <2>1. /\ <<"S", "I", "S", "I", "S", "I", "S", "I", "BT", "M">> \in Seq(Plain)
        /\ <<"I", "S", "BT", "M">> \in Seq(Plain)
        /\ <<"S", "I", "BT", "M">> \in Seq(Plain)
        /\ <<"L", "S", "S", "S", "S", "BT", "M">> \in Seq(Plain)
        /\ <<"B", "S", "I", "BT", "M">> \in Seq(Plain)
        /\ <<"S", "I", "S", "I", "BT", "M">> \in Seq(Plain)
        /\ <<"S", "I", "S", "I", "S", "I", "BT", "M">> \in Seq(Plain)
    BY DEF Plain
  <2> SUFFICES ASSUME NEW c \in remotes PROVE Good(c)
    OBVIOUS
  <2> QED BY <1>2, <2>1, ZenonT(60) DEF remotes
<1> QED BY <1>3, <1>4, <1>5, <1>6, <1>7 DEF device_db, Good

-----------------------------------------------------------------------------
(* The device: its configuration, its tables and the relays of its switches. *)

\* What is stored can be parsed, what is running are tables, and a switch has a number, as
\* it is stored and in use.
Stored ==
  /\ config.entries \in Seq(Letters)
  /\ tables \in AnyTables
  /\ chosen \in [DOMAIN tables.switches -> Nat]
  /\ \A k \in DOMAIN nv_index : nv_index[k] \in Nat

\* What the owner writes is a configuration like those of the database.
LEMMA WritableTyped == \A c \in Writable : c.entries \in Seq(Letters)
<1>1. Of(<<"S", "S", "R">>) \in Seq(Letters)
  <2>1. <<"S", "S", "R">> \in Seq(Plain)
    BY DEF Plain
  <2> QED BY <2>1, OfTyped
<1>2. \A c \in OwnConfigs : c.entries \in Seq(Letters)
  BY <1>1, Zenon DEF OwnConfigs
<1> QED BY <1>2, DatabaseTyped, Zenon DEF Writable

\* Switches are numbered from 1 on.
LEMMA SwitchNumber ==
  ASSUME NEW t \in AnyTables, NEW k \in DOMAIN t.switches
  PROVE  k \in Nat /\ k >= 1 /\ t.relays \in Nat
<1>1. t.switches \in Seq([mode: {"toggle", "momentary"}, relay_index: Nat]) /\ t.relays \in Nat
  BY DEF AnyTables
<1> QED BY <1>1

\* What a restart makes of the indexes that are stored is what the property asks for.
LEMMA LoadedExists ==
  ASSUME NEW t \in AnyTables, NEW k \in DOMAIN t.switches,
         \A j \in DOMAIN nv_index : nv_index[j] \in Nat
  PROVE  LET i == LoadedIndex(t, k)
         IN  /\ i \in Nat
             /\ k \in DOMAIN nv_index /\ nv_index[k] \in 1 .. t.relays => i = nv_index[k]
             /\ \/ i \in RelayIndices(t)
                \/ k > t.relays /\ i = 0
                \/ /\ k > t.relays /\ i = k
                   /\ k \in DOMAIN nv_index /\ nv_index[k] \notin 1 .. t.relays
BY SwitchNumber DEF LoadedIndex, DefaultIndex, RelayIndices

\* At the start the switches have the relays of their own numbers, if those exist.
LEMMA InitStored == Init => Stored /\ RelayIndexTranslated
<1> SUFFICES ASSUME Init PROVE Stored /\ RelayIndexTranslated
  OBVIOUS
<1>1. config.entries \in Seq(Letters) /\ tables = Parse(config.entries)
  BY DatabaseTyped DEF Init
<1>2. tables \in AnyTables
  BY <1>1, ParseTyped
<1>3. DOMAIN nv_index = {}
  BY DEF Init
<1>4. chosen = [k \in DOMAIN tables.switches |-> LoadedIndex(tables, k)]
  BY <1>3 DEF Init, LoadedIndex
<1>5. \A j \in DOMAIN nv_index : nv_index[j] \in Nat
  BY <1>3
<1> QED BY <1>1, <1>2, <1>4, <1>5, LoadedExists DEF Stored, RelayIndexTranslated, Misloaded

\* Storing the index that a switch has keeps to the property: what is stored is that index.
LEMMA StoringKeeps ==
  ASSUME Stored, RelayIndexTranslated, NEW k \in DOMAIN chosen, NEW i \in Nat,
         UNCHANGED <<config, tables>>, StoreIndex(k, i),
         \/ chosen' = chosen /\ i = chosen[k]
         \/ chosen' = [chosen EXCEPT ![k] = i] /\ i \in RelayIndices(tables)
  PROVE  (Stored /\ RelayIndexTranslated)'
<1>1. /\ DOMAIN nv_index' = DOMAIN nv_index \cup {k}
      /\ nv_index'[k] = i
      /\ \A j \in DOMAIN nv_index \ {k} : nv_index'[j] = nv_index[j]
  BY DEF StoreIndex
<1>2. /\ chosen' \in [DOMAIN tables.switches -> Nat]
      /\ chosen'[k] = i
      /\ \A j \in DOMAIN chosen \ {k} : chosen'[j] = chosen[j]
  BY DEF Stored
<1>3. \A j \in DOMAIN nv_index' : nv_index'[j] \in Nat
  BY <1>1 DEF Stored
<1>4. Stored'
  BY <1>2, <1>3 DEF Stored
<1>5. k \in Nat /\ k >= 1 /\ tables.relays \in Nat
  BY SwitchNumber DEF Stored
<1>6. \/ i \in RelayIndices(tables)
      \/ k > tables.relays /\ i = 0
      \/ k > tables.relays /\ i = k
  BY DEF RelayIndexTranslated, Misloaded
<1>7. \/ i \in RelayIndices(tables)
      \/ k > tables.relays /\ i = 0
      \/ k > tables.relays /\ i = k /\ i \notin 1 .. tables.relays
  BY <1>5, <1>6
<1>8. ASSUME NEW j \in DOMAIN chosen'
      PROVE  /\ j \in DOMAIN nv_index' /\ nv_index'[j] \in 1 .. tables'.relays
                  => chosen'[j] = nv_index'[j]
             /\ \/ chosen'[j] \in RelayIndices(tables')
                \/ j > tables'.relays /\ chosen'[j] = 0
                \/ Misloaded(j)'
  <2>1. CASE j = k
    BY <2>1, <1>1, <1>2, <1>7 DEF Misloaded
  <2>2. CASE j # k
    <3>1. j \in DOMAIN chosen
      BY <1>2 DEF Stored
    <3> QED BY <2>2, <3>1, <1>1, <1>2 DEF RelayIndexTranslated, Misloaded
  <2> QED BY <2>1, <2>2
<1> QED BY <1>4, <1>8 DEF RelayIndexTranslated

\* The tables and the relays of the switches change together, and what the owner writes
\* is checked against the tables in use.
LEMMA NextStored ==
  ASSUME Stored, RelayIndexTranslated, [Next]_vars
  PROVE  (Stored /\ RelayIndexTranslated)'
<1>1. CASE Restart
  <2>1. UNCHANGED <<config, nv_index>> /\ tables' = Parse(config.entries)
        /\ chosen' = [k \in DOMAIN tables'.switches |-> LoadedIndex(tables', k)]
    BY <1>1 DEF Restart, Boot
  <2>2. tables' \in AnyTables
    BY <2>1, ParseTyped DEF Stored
  <2> QED BY <2>1, <2>2, LoadedExists DEF Stored, RelayIndexTranslated, Misloaded
<1>2. CASE \E c \in Writable : WriteConfig(c)
  <2>1. config'.entries \in Seq(Letters) /\ UNCHANGED <<tables, chosen, nv_index>>
    BY <1>2, WritableTyped DEF WriteConfig
  <2> QED BY <2>1 DEF Stored, RelayIndexTranslated, Misloaded
<1>3. ASSUME NEW k \in DOMAIN chosen, NEW value \in Slot, WriteRelayIndex(k, value)
      PROVE  (Stored /\ RelayIndexTranslated)'
  <2> DEFINE i == WrittenIndex(tables, value)
  <2>1. UNCHANGED <<config, tables>> /\ chosen' = [chosen EXCEPT ![k] = i]
        /\ StoreIndex(k, chosen'[k])
    BY <1>3 DEF WriteRelayIndex
  <2>2. tables.relays \in Nat /\ k \in DOMAIN tables.switches
    BY SwitchNumber DEF Stored
  <2>3. i \in Nat \cap RelayIndices(tables)
    BY <2>2 DEF WrittenIndex, RelayIndices
  <2>4. chosen'[k] = i
    BY <2>1
  <2> HIDE DEF i
  <2> QED BY <2>1, <2>3, <2>4, StoringKeeps
<1>4. ASSUME NEW k \in DOMAIN chosen, WriteSetting(k)
      PROVE  (Stored /\ RelayIndexTranslated)'
  <2>1. UNCHANGED <<config, tables, chosen>> /\ StoreIndex(k, chosen[k]) /\ chosen[k] \in Nat
    BY <1>4 DEF WriteSetting, Stored
  <2> QED BY <2>1, StoringKeeps
<1>5. CASE FactoryReset \/ Join \/ Interview \/ Configure \/ UNCHANGED vars
  <2>1. UNCHANGED <<config, tables, chosen, nv_index>>
    BY <1>5 DEF FactoryReset, Join, Interview, Configure, StartConfigure, StepDone,
                StepUnanswered, StepRefused, StepLost, device, vars
  <2> QED BY <2>1 DEF Stored, RelayIndexTranslated, Misloaded
<1> QED BY <1>1, <1>2, <1>3, <1>4, <1>5 DEF Next, Owner

\* Whatever is written, stored and restarted, and whatever the configuration was when it
\* was stored, a switch keeps its relay where that exists and else gets one that exists and
\* that the definition has a name for, or none if it is beyond the relays; only a switch
\* beyond the relays that was stored with an index of no relay has its own number instead.
THEOREM RelayIndexCorrect == Spec => []RelayIndexTranslated
<1>1. Stored /\ RelayIndexTranslated /\ [Next]_vars => (Stored /\ RelayIndexTranslated)'
  BY NextStored
<1> QED BY <1>1, InitStored, PTL DEF Spec

-----------------------------------------------------------------------------
(* Zigbee2MQTT: the definition and the steps of configure.                 *)

\* The definition names the model that was interviewed, and the device has the tables of
\* the configuration that it runs.
Matched ==
  /\ definition # Unknown => definition \in definitions /\ seen.model \in definition.zigbeeModel
  /\ tables = Parse(running.entries)

\* What a step is to achieve has been achieved.
Done(s, bindings, reports) ==
  /\ s.do = "bind" => <<s.endpoint, s.cluster>> \in bindings
  /\ s.do = "report" => \A id \in s.attributes : <<s.endpoint, s.cluster, id>> \in reports

\* As long as the device is in the network, the steps that were taken for done are done:
\* those before the current one and, once configured, all.
Stepped ==
  /\ step \in Nat
  /\ joined => \A i \in 1 .. step - 1 : Done(definition.configure[i], bound, reported)
  /\ joined /\ configured =>
       \A i \in 1 .. Len(definition.configure) : Done(definition.configure[i], bound, reported)

\* At the start there is no definition and nothing is configured.
LEMMA InitMatched == Init => Matched /\ Stepped
BY DEF Init, Matched, Stepped

\* A definition is found for the model that is interviewed, and tables are made anew
\* whenever the device starts.
LEMMA NextMatched ==
  ASSUME Matched, [Next]_vars
  PROVE  Matched'
<1>1. CASE Restart
  BY <1>1 DEF Matched, Restart, Boot, z2m
<1>2. CASE Interview
  <2>1. definition' \in definitions /\ running.model \in definition'.zigbeeModel
    BY <1>2 DEF Interview
  <2> QED BY <1>2, <2>1 DEF Matched, Interview, device
<1>3. CASE Join
  BY <1>3 DEF Matched, Join, device
<1>4. CASE FactoryReset
  BY <1>4 DEF Matched, FactoryReset, device, z2m
<1>5. CASE Configure
  BY <1>5 DEF Matched, Configure, StartConfigure, StepDone, StepUnanswered, StepRefused,
              StepLost, device
<1>6. CASE Owner
  BY <1>6 DEF Matched, Owner, WriteConfig, WriteSetting, WriteRelayIndex, z2m
<1>7. CASE UNCHANGED vars
  BY <1>7 DEF Matched, vars, device, z2m
<1> QED BY <1>1, <1>2, <1>3, <1>4, <1>5, <1>6, <1>7 DEF Next

\* A step that is executed is done, and undoes none that was.
LEMMA ExecutedDone ==
  \A s : Executed(s) =>
    /\ Done(s, bound', reported')
    /\ \A r : Done(r, bound, reported) => Done(r, bound', reported')
BY DEF Executed, Done

\* However configure is cut short, what it was taken to have done is done; the network
\* forgets it only together with the device.
LEMMA NextStepped ==
  ASSUME Stepped, [Next]_vars
  PROVE  Stepped'
<1>1. CASE Restart \/ Owner \/ UNCHANGED vars
  <2>1. UNCHANGED <<network, z2m>>
    BY <1>1 DEF Restart, Owner, WriteConfig, WriteSetting, WriteRelayIndex, vars
  <2> QED BY <2>1 DEF network, z2m, Stepped, Done
<1>2. CASE Join \/ FactoryReset
  BY <1>2 DEF Join, FactoryReset, Stepped, z2m
<1>3. CASE Interview \/ StartConfigure
  BY <1>3 DEF Interview, StartConfigure, Stepped, network
<1>4. CASE StepRefused \/ StepLost
  BY <1>4 DEF StepRefused, StepLost, Stepped, Done, network
<1>5. CASE StepUnanswered
  <2>1. step' = 0 /\ UNCHANGED <<joined, definition, configured>>
    BY <1>5 DEF StepUnanswered
  <2>2. \A r : Done(r, bound, reported) => Done(r, bound', reported')
    BY <1>5, ExecutedDone DEF StepUnanswered
  <2> QED BY <2>1, <2>2 DEF Stepped
<1>6. CASE StepDone
  <2>1. /\ joined /\ step > 0 /\ UNCHANGED <<joined, definition>>
        /\ configured' = (step = Len(definition.configure))
        /\ step' = IF configured' THEN 0 ELSE step + 1
    BY <1>6 DEF StepDone
  <2>2. /\ Done(definition.configure[step], bound', reported')
        /\ \A r : Done(r, bound, reported) => Done(r, bound', reported')
    BY <1>6, ExecutedDone DEF StepDone, Command
  <2>3. \A i \in 1 .. step : Done(definition.configure[i], bound', reported')
    BY <2>1, <2>2 DEF Stepped
  <2>4. CASE step = Len(definition.configure)
    <3>1. configured' /\ step' = 0
      BY <2>1, <2>4
    <3> QED BY <2>1, <2>3, <2>4, <3>1 DEF Stepped
  <2>5. CASE step # Len(definition.configure)
    <3>1. ~configured' /\ step' = step + 1
      BY <2>1, <2>5
    <3>2. step' \in Nat /\ step' - 1 = step
      BY <3>1 DEF Stepped
    <3> QED BY <2>1, <2>3, <3>1, <3>2 DEF Stepped
  <2> QED BY <2>4, <2>5
<1> QED BY <1>1, <1>2, <1>3, <1>4, <1>5, <1>6 DEF Next, Configure

\* The invariant of configuring.
THEOREM ConfigureCorrect == Spec => [](Matched /\ Stepped)
<1>1. Matched /\ Stepped /\ [Next]_vars => (Matched /\ Stepped)'
  BY NextMatched, NextStepped
<1> QED BY <1>1, InitMatched, PTL DEF Spec

\* What Zigbee2MQTT shows exists on the device, through restarts, new configurations and
\* interviews in any order: the definition is always one for the model that is running.
THEOREM UnderstandsCorrect ==
  ASSUME ShowsWhatIs
  PROVE  Spec => []Understands
<1>1. Matched /\ Stepped => Understands
  BY DEF Matched, ShowsWhatIs, Understands, Supported
<1> QED BY <1>1, ConfigureCorrect, PTL

\* However configuring was cut short and started over, once it is through, the steps of the
\* definition have been done on the device as it runs, in the network that it is in.
THEOREM ReportsArrive ==
  ASSUME AsksForReports
  PROVE  Spec => []ConfiguredReports
<1>1. Matched /\ Stepped => ConfiguredReports
  <2> SUFFICES ASSUME Matched, Stepped, Supported, configured, joined,
                      NEW a \in Notified(tables)
                                  \cap {Shown(definition, e) : e \in definition.extend}
               PROVE  /\ <<a.endpoint, a.cluster>> \in bound
                      /\ <<a.endpoint, a.cluster, a.attribute>> \in reported
    BY DEF ConfiguredReports
  <2> DEFINE steps == definition.configure
  <2>1. /\ definition \in definitions /\ running \in device_db
        /\ running.model \in definition.zigbeeModel /\ tables = Parse(running.entries)
    BY DEF Matched, Supported
  <2>2. PICK i, j \in 1 .. Len(steps) :
          /\ steps[i].do = "bind" /\ steps[j].do = "report"
          /\ steps[i].endpoint = a.endpoint /\ steps[i].cluster = a.cluster
          /\ steps[j].endpoint = a.endpoint /\ steps[j].cluster = a.cluster
          /\ a.attribute \in steps[j].attributes
    BY <2>1 DEF AsksForReports
  <2>3. Done(steps[i], bound, reported) /\ Done(steps[j], bound, reported)
    BY DEF Stepped
  <2> QED BY <2>2, <2>3 DEF Done
<1> QED BY <1>1, ConfigureCorrect, PTL
=============================================================================
