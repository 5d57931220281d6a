---------------------------- MODULE DeviceConfig ----------------------------
(***************************************************************************)
(* The readers of a device configuration such as                           *)
(* "osap2dsa;TS0002-ABC;BC3u;LC2i;SB5u;RD2D4;IA0;SB4u;RD3B1;IA1;M;":       *)
(* parse_config of the firmware (src/device_config/config_parser.c), the   *)
(* generator of the converters (make_z2m_custom_converters.py) and the     *)
(* validation of device_config in the converters (switch_custom.js).       *)
(*                                                                         *)
(* Manufacturer and model have been read; the entries follow in any order. *)
(* Pins are taken to be valid and are left out, and so are the settings of *)
(* relays, pulls and image type that no other part of the project reads.   *)
(* The firmware does not check that its tables are large enough: what      *)
(* exceeds them is not modelled.                                           *)
(***************************************************************************)
EXTENDS Integers, Sequences

CONSTANTS
  Gangs,             \* length of switch_clusters, relay_clusters and network_indicator.leds
  CoverGangs,        \* length of cover_switch_clusters and cover_clusters
  MaxButtons,        \* length of buttons
  MaxLeds,           \* length of leds
  DefaultDebounce,   \* DEBOUNCE_DELAY_MS
  Numbers            \* the numbers that D and LP are written with

ASSUME ParserAssumption ==
  /\ Gangs \in Nat \ {0, 1} /\ CoverGangs \in Nat /\ MaxButtons \in Nat /\ MaxLeds \in Nat
  /\ DefaultDebounce \in Nat /\ Numbers \subseteq Nat

\* An entry by the letters it begins with, and the number in D<N> and LP<N>.
Entry(kind) == [kind |-> kind, n |-> 0]
Plain == {"S", "R", "X", "C", "I", "L", "B", "BT", "M", "SLP", "i"}
Numbered == {"D", "LP"}
Entries == {Entry(kind) : kind \in Plain} \cup [kind: Numbered, n: Numbers]

Slot == 1 .. Gangs
Null == 0
LedRef == Null .. MaxLeds   \* NULL, or the number of an LED

Tables ==
  [switches: Seq([mode: {"toggle", "momentary"}, relay_index: Nat]),
   relays: Nat, cover_switches: Nat, covers: Nat,
   buttons: Seq(Nat), debounce: Nat,
   leds: Nat, relay_led: [Slot -> LedRef], switch_led: [Slot -> LedRef],
   net_leds: [Slot -> LedRef], dedicated: LedRef,
   battery: BOOLEAN, pulse_ms: Nat]

-----------------------------------------------------------------------------
(* parse_config.                                                           *)

NoLeds == [k \in Slot |-> Null]
NoTables ==
  [switches |-> << >>, relays |-> 0, cover_switches |-> 0, covers |-> 0,
   buttons |-> << >>, debounce |-> DefaultDebounce,
   leds |-> 0, relay_led |-> NoLeds, switch_led |-> NoLeds,
   net_leds |-> NoLeds, dedicated |-> Null, battery |-> FALSE, pulse_ms |-> 100]

\* Mutant of FirstFree: the loop does not stop at the first free slot.
EveryFree(slots, led) == [k \in Slot |-> IF slots[k] = Null THEN led ELSE slots[k]]

\* The LED goes to the first slot that has none, if there is one.
FirstFree(slots, led) ==
  [k \in Slot |->
     IF slots[k] = Null /\ \A j \in 1 .. k - 1 : slots[j] # Null THEN led ELSE slots[k]]

\* An indicator belongs to a relay and a switch, wherever these are in the string, and
\* shows the network unless an LED of its own does.
AddIndicator(t) ==
  LET led == t.leds + 1
  IN  [t EXCEPT !.leds = led,
                !.relay_led = FirstFree(@, led),
                !.switch_led = FirstFree(@, led),
                !.net_leds = IF t.dedicated = Null THEN FirstFree(@, led) ELSE @]

\* Mutant of AddNetworkLed: the list of LEDs is not ended.
AddUnterminated(t) ==
  [t EXCEPT !.leds = @ + 1, !.net_leds[1] = t.leds + 1, !.dedicated = t.leds + 1]

AddNetworkLed(t) ==
  [t EXCEPT !.leds = @ + 1, !.net_leds[1] = t.leds + 1, !.net_leds[2] = Null,
            !.dedicated = t.leds + 1]

AddButton(t) == [t EXCEPT !.buttons = Append(@, t.debounce)]

AddSwitch(t) ==
  [AddButton(t) EXCEPT
     !.switches = Append(@, [mode |-> "toggle", relay_index |-> Len(t.switches) + 1])]

SetDebounce(t, n) ==
  [t EXCEPT !.debounce = n, !.buttons = [b \in DOMAIN t.buttons |-> n]]

\* M makes the switches momentary that have been read so far.
SetMomentary(t) ==
  [t EXCEPT !.switches = [k \in DOMAIN t.switches |->
                            [t.switches[k] EXCEPT !.mode = "momentary"]]]

\* The body of the loop; relay_pulse_ms is 8 bits wide.
Parsed(t, e) ==
  CASE e.kind = "S" -> AddSwitch(t)
    [] e.kind = "R" -> [t EXCEPT !.relays = @ + 1]
    [] e.kind = "X" -> [AddButton(AddButton(t)) EXCEPT !.cover_switches = @ + 1]
    [] e.kind = "C" -> [t EXCEPT !.covers = @ + 1]
    [] e.kind = "I" -> AddIndicator(t)
    [] e.kind = "L" -> AddNetworkLed(t)
    [] e.kind = "B" -> AddButton(t)
    [] e.kind = "BT" -> [t EXCEPT !.battery = TRUE]
    [] e.kind = "M" -> SetMomentary(t)
    [] e.kind = "D" -> SetDebounce(t, e.n)
    [] e.kind = "LP" -> [t EXCEPT !.pulse_ms = e.n % 256]
    [] OTHER -> t

\* The bounds of the tables, which parse_config relies on.
Fits(t) ==
  /\ Len(t.switches) <= Gangs /\ t.relays <= Gangs
  /\ t.cover_switches <= CoverGangs /\ t.covers <= CoverGangs
  /\ Len(t.buttons) <= MaxButtons /\ t.leds <= MaxLeds

\* network_indicator_from_manual_state and the other loops over the LEDs of the network
\* end at the first slot that is NULL.
NetworkLeds(t) ==
  {t.net_leds[k] : k \in {m \in Slot : \A j \in 1 .. m : t.net_leds[j] # Null}}

-----------------------------------------------------------------------------
(* The other readers.                                                      *)

NoCounts ==
  [switch_cnt |-> 0, relay_cnt |-> 0, cover_switch_cnt |-> 0, cover_cnt |-> 0,
   indicators_cnt |-> 0, has_dedicated_net_led |-> FALSE, has_battery_cluster |-> FALSE]

\* Mutant of Counted: SLP is not told from a switch.
CountedByLetter(c, e) ==
  CASE e.kind \in {"S", "SLP"} -> [c EXCEPT !.switch_cnt = @ + 1]
    [] e.kind = "R" -> [c EXCEPT !.relay_cnt = @ + 1]
    [] e.kind = "X" -> [c EXCEPT !.cover_switch_cnt = @ + 1]
    [] e.kind = "C" -> [c EXCEPT !.cover_cnt = @ + 1]
    [] e.kind = "I" -> [c EXCEPT !.indicators_cnt = @ + 1]
    [] e.kind \in {"L", "LP"} -> [c EXCEPT !.has_dedicated_net_led = TRUE]
    [] e.kind = "BT" -> [c EXCEPT !.has_battery_cluster = TRUE]
    [] OTHER -> c

\* The generator goes by the first letter, also when that of LP is not meant for an LED.
Counted(c, e) ==
  CASE e.kind = "S" -> [c EXCEPT !.switch_cnt = @ + 1]
    [] e.kind = "R" -> [c EXCEPT !.relay_cnt = @ + 1]
    [] e.kind = "X" -> [c EXCEPT !.cover_switch_cnt = @ + 1]
    [] e.kind = "C" -> [c EXCEPT !.cover_cnt = @ + 1]
    [] e.kind = "I" -> [c EXCEPT !.indicators_cnt = @ + 1]
    [] e.kind \in {"L", "LP"} -> [c EXCEPT !.has_dedicated_net_led = TRUE]
    [] e.kind = "BT" -> [c EXCEPT !.has_battery_cluster = TRUE]
    [] OTHER -> c

\* validate: of the documented entries LP<N> is refused, whose P is not a pin of port P.
Validates(e) == e.kind # "LP"
=============================================================================
