---------------------------- MODULE ConfigParser ----------------------------
(***************************************************************************)
(* A device configuration read entry by entry, by the firmware, by the     *)
(* generator of the converters and by the validation in the converters: of *)
(* every list of entries in any order, as long as the tables last.         *)
(***************************************************************************)
EXTENDS DeviceConfig

VARIABLES
  p,          \* the tables of the firmware
  g,          \* the counts of the generator
  accepted    \* the converter has let all entries pass

parser_vars == <<p, g, accepted>>

ParserInit == p = NoTables /\ g = NoCounts /\ accepted = TRUE

ReadEntry(e) ==
  /\ Fits(Parsed(p, e))
  /\ p' = Parsed(p, e)
  /\ g' = Counted(g, e)
  /\ accepted' = (accepted /\ Validates(e))

ParserNext == \E e \in Entries : ReadEntry(e)

ParserSpec == ParserInit /\ [][ParserNext]_parser_vars

-----------------------------------------------------------------------------
(* Properties: of every order of the entries.                              *)

\* The tables stay in their domains and bounds.
TypeOK ==
  /\ p \in Tables /\ Fits(p) /\ accepted \in BOOLEAN
  /\ g \in [switch_cnt: Nat, relay_cnt: Nat, cover_switch_cnt: Nat, cover_cnt: Nat,
            indicators_cnt: Nat, has_dedicated_net_led: BOOLEAN, has_battery_cluster: BOOLEAN]

\* The k-th indicator is that of the k-th relay and of the k-th switch, whatever else is
\* in between and in which order, and none of them is the LED of the network.
IndicatorsPaired ==
  /\ p.relay_led = p.switch_led
  /\ \A k \in Slot : p.relay_led[k] # Null <=> k <= g.indicators_cnt
  /\ \A j, k \in Slot : j < k /\ p.relay_led[k] # Null => p.relay_led[j] < p.relay_led[k]
  /\ p.dedicated # Null => \A k \in Slot : p.relay_led[k] # p.dedicated

\* An indicator "blinks while pairing if there is no network led"
\* (docs/contribute/porting.md:96): the network is shown by the LED for it alone, or by
\* all indicators, also when the indicators had been entered in the list before the
\* network LED was read.
NetworkLedsAsDocumented ==
  NetworkLeds(p) =
    IF p.dedicated # Null THEN {p.dedicated} ELSE {p.relay_led[k] : k \in Slot} \ {Null}

\* "Set software debounce in ms for all buttons/switches"
\* (docs/contribute/porting.md:109): also for those that come before the entry.
DebounceUniform == \A b \in DOMAIN p.buttons : p.buttons[b] = p.debounce

\* Of a configuration that the converter lets pass, the firmware and the generator make
\* the same device: its endpoints, its battery, its indicators and its network LED.
ReadAlike ==
  /\ g.switch_cnt = Len(p.switches) /\ g.relay_cnt = p.relays
  /\ g.cover_switch_cnt = p.cover_switches /\ g.cover_cnt = p.covers
  /\ g.has_battery_cluster = p.battery
  /\ \A k \in Slot : p.relay_led[k] # Null <=> k <= g.indicators_cnt
  /\ accepted => (g.has_dedicated_net_led <=> p.dedicated # Null)
=============================================================================
