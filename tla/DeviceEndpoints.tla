-------------------------- MODULE DeviceEndpoints --------------------------
(***************************************************************************)
(* The Zigbee endpoints that parse_config builds from the tables of a      *)
(* configuration: the attributes of the server clusters, as the            *)
(* *_add_to_endpoint functions set them up, and those the firmware reports *)
(* changes of (hal_zigbee_notify_attribute_changed).                       *)
(*                                                                         *)
(* An enumeration comes with the values that consts.h defines for it.      *)
(* Clusters have the names that Zigbee2MQTT knows them by. Those without   *)
(* attributes, OTA and poll control are left out.                          *)
(***************************************************************************)
EXTENDS DeviceConfig

Attr(endpoint, cluster, attribute) ==
  [endpoint |-> endpoint, cluster |-> cluster, attribute |-> attribute, values |-> {}]
EnumAttr(endpoint, cluster, attribute, values) ==
  [endpoint |-> endpoint, cluster |-> cluster, attribute |-> attribute, values |-> values]

BasicAttrs(t) ==
  {Attr(1, "genBasic", a) : a \in 0 .. 7 \cup {\h0012, \h4000, \hfffd, \hff00, \hff02}}
    \cup IF t.dedicated # Null THEN {EnumAttr(1, "genBasic", \hff01, 0 .. 1)} ELSE {}

BatteryAttrs(t) ==
  IF t.battery THEN {Attr(1, "genPowerCfg", a) : a \in {\h0020, \h0021, \hfffd}} ELSE {}

MultistateAttrs(k, states) ==
  {Attr(k, "genMultistateInput", a) : a \in {\h004a, \h0051, \h006f}}
    \cup {EnumAttr(k, "genMultistateInput", \h0055, states)}

RelayIndices(t) == IF t.relays = 0 THEN {0} ELSE 1 .. t.relays

SwitchAttrs(t, k) ==
  {EnumAttr(k, "genOnOffSwitchCfg", \h0000, 0 .. 2),
   EnumAttr(k, "genOnOffSwitchCfg", \h0010, 0 .. 4),
   EnumAttr(k, "genOnOffSwitchCfg", \hff00, 0 .. 2),
   EnumAttr(k, "genOnOffSwitchCfg", \hff01, 0 .. 3),
   EnumAttr(k, "genOnOffSwitchCfg", \hff02, RelayIndices(t)),
   Attr(k, "genOnOffSwitchCfg", \hff03),
   Attr(k, "genOnOffSwitchCfg", \hff04),
   EnumAttr(k, "genOnOffSwitchCfg", \hff05, 1 .. 3)}
    \cup MultistateAttrs(k, 0 .. 4)

RelayAttrs(t, k, index) ==
  {EnumAttr(k, "genOnOff", \h0000, 0 .. 1), Attr(k, "genOnOff", \h4003),
   Attr(k, "genGroups", \h0000)}
    \cup IF t.relay_led[index] # Null
         THEN {EnumAttr(k, "genOnOff", \hff01, 0 .. 2), EnumAttr(k, "genOnOff", \hff02, 0 .. 1)}
         ELSE {}

CoverSwitchAttrs(t, k) ==
  {EnumAttr(k, "0xFC01", \h0000, 0 .. 1),
   EnumAttr(k, "0xFC01", \h0001, 0 .. t.covers),
   EnumAttr(k, "0xFC01", \h0002, 0 .. 1),
   EnumAttr(k, "0xFC01", \h0003, 0 .. 3),
   EnumAttr(k, "0xFC01", \h0004, 0 .. 3),
   Attr(k, "0xFC01", \h0005)}
    \cup MultistateAttrs(k, 0 .. 5)

CoverAttrs(k) ==
  {Attr(k, "closuresWindowCovering", a) : a \in {\h0000, \h0008} \cup \hff02 .. \hff05}
    \cup {EnumAttr(k, "closuresWindowCovering", \hff00, 0 .. 2),
          EnumAttr(k, "closuresWindowCovering", \hff01, 0 .. 1)}

\* Endpoints are numbered in this order, whatever the order of the entries.
Attributes(t) ==
  LET relay_base == Len(t.switches)
      cover_switch_base == relay_base + t.relays
      cover_base == cover_switch_base + t.cover_switches
  IN  BasicAttrs(t) \cup BatteryAttrs(t)
        \cup UNION {SwitchAttrs(t, k) : k \in 1 .. relay_base}
        \cup UNION {RelayAttrs(t, relay_base + k, k) : k \in 1 .. t.relays}
        \cup UNION {CoverSwitchAttrs(t, cover_switch_base + k) : k \in 1 .. t.cover_switches}
        \cup UNION {CoverAttrs(cover_base + k) : k \in 1 .. t.covers}

\* There is an endpoint even if nothing is configured.
Endpoints(t) ==
  LET total_endpoints == Len(t.switches) + t.relays + t.cover_switches + t.covers
  IN  1 .. IF total_endpoints = 0 THEN 1 ELSE total_endpoints

Notified(t) ==
  {a \in Attributes(t) :
     \/ a.cluster = "genMultistateInput" /\ a.attribute = \h0055
     \/ a.cluster = "genOnOff" /\ a.attribute \in {\h0000, \hff02}
     \/ a.cluster = "genPowerCfg" /\ a.attribute \in {\h0020, \h0021}
     \/ a.cluster = "closuresWindowCovering" /\ a.attribute \in {\h0008, \hff00}}
=============================================================================
