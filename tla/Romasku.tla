------------------------------ MODULE Romasku ------------------------------
(***************************************************************************)
(* The converters of Zigbee2MQTT for the devices of the project: the       *)
(* helpers "romasku" of zigbee2mqtt/converters/switch_custom.js, and the   *)
(* template by which every definition of that file is generated.           *)
(*                                                                         *)
(* An entity is what a helper exposes: an attribute of a cluster at a      *)
(* named endpoint and, if it is an enumeration, the values that have a     *)
(* name in the lookup. Names shown to the user, limits and units are left  *)
(* out.                                                                    *)
(***************************************************************************)
EXTENDS Integers, SequencesExt

Entity(name, cluster, attribute) ==
  [name |-> name, cluster |-> cluster, attribute |-> attribute, lookup |-> {}]
Enum(name, cluster, attribute, lookup) ==
  [name |-> name, cluster |-> cluster, attribute |-> attribute, lookup |-> lookup]

-----------------------------------------------------------------------------
(* const romasku.                                                          *)

switchAction(e) == Enum(e, "genOnOffSwitchCfg", \h0010, 0 .. 4)
switchMode(e) == Enum(e, "genOnOffSwitchCfg", \hff00, 0 .. 2)
relayMode(e) == Enum(e, "genOnOffSwitchCfg", \hff01, 0 .. 3)
relayIndex(e, relay_cnt) == Enum(e, "genOnOffSwitchCfg", \hff02, 1 .. relay_cnt)
bindedMode(e) == Enum(e, "genOnOffSwitchCfg", \hff05, 1 .. 3)
longPressDuration(e) == Entity(e, "genOnOffSwitchCfg", \hff03)
levelMoveRate(e) == Entity(e, "genOnOffSwitchCfg", \hff04)
pressAction(e) == Enum(e, "genMultistateInput", \h0055, 0 .. 4)
relayIndicatorMode(e) == Enum(e, "genOnOff", \hff01, 0 .. 2)
relayIndicator(e) == Enum(e, "genOnOff", \hff02, 0 .. 1)
batteryPercentage(e) == Entity(e, "genPowerCfg", \h0021)
networkIndicator(e) == Enum(e, "genBasic", \hff01, 0 .. 1)
multiPressResetCount(e) == Entity(e, "genBasic", \hff02)
deviceConfig(e) == Entity(e, "genBasic", \hff00)

coverSwitchPressAction(e) == Enum(e, "genMultistateInput", \h0055, 0 .. 5)
coverSwitchType(e) == Enum(e, "0xFC01", \h0000, 0 .. 1)
coverSwitchCoverIndex(e, output_cnt) == Enum(e, "0xFC01", \h0001, 0 .. output_cnt)
coverSwitchInvert(e) == Enum(e, "0xFC01", \h0002, 0 .. 1)
coverSwitchLocalMode(e) == Enum(e, "0xFC01", \h0003, 0 .. 3)
coverSwitchBindedMode(e) == Enum(e, "0xFC01", \h0004, 0 .. 3)
coverSwitchLongPressDuration(e) == Entity(e, "0xFC01", \h0005)

coverMoving(e) == Enum(e, "closuresWindowCovering", \hff00, 0 .. 2)
coverMotorReversal(e) == Enum(e, "closuresWindowCovering", \hff01, 0 .. 1)
coverOpenTime(e) == Entity(e, "closuresWindowCovering", \hff02)
coverCloseTime(e) == Entity(e, "closuresWindowCovering", \hff03)
coverOpenDeadzone(e) == Entity(e, "closuresWindowCovering", \hff04)
coverClosedDeadzone(e) == Entity(e, "closuresWindowCovering", \hff05)

\* External: what onOff and windowCovering of the library expose.
OnOff(e) == Enum(e, "genOnOff", \h0000, 0 .. 1)
Lift(e) == Entity(e, "closuresWindowCovering", \h0008)

-----------------------------------------------------------------------------
(* The template: endpoints.                                                *)

\* Names that tell n endpoints apart.
Positions(n) ==
  CASE n = 0 -> << >>
    [] n = 1 -> <<"">>
    [] n = 2 -> <<"left", "right">>
    [] n = 3 -> <<"left", "middle", "right">>
    [] OTHER -> SubSeq(<<"0", "1", "2", "3">>, 1, n)

Names(base, n) == [k \in 1 .. n |-> <<base, Positions(n)[k]>>]

\* Mutant of EndpointNames: the covers come before their switches.
EndpointNamesCoversFirst(d) ==
  Names("switch", d.switches) \o Names("relay", d.relays)
    \o Names("cover", d.covers) \o Names("cover_switch", d.coverSwitches)

\* deviceEndpoints: the k-th name is that of endpoint k.
EndpointNames(d) ==
  Names("switch", d.switches) \o Names("relay", d.relays)
    \o Names("cover_switch", d.coverSwitches) \o Names("cover", d.covers)

EndpointsOf(d, base) ==
  SelectSeq([k \in 1 .. Len(EndpointNames(d)) |-> k], LAMBDA k : EndpointNames(d)[k][1] = base)

-----------------------------------------------------------------------------
(* The template: extend.                                                   *)

If(condition, entities) == IF condition THEN entities ELSE {}

SwitchEntities(d, e) ==
  {pressAction(e), switchMode(e), switchAction(e),
   bindedMode(e), longPressDuration(e), levelMoveRate(e)}
    \cup If(d.relays > 0, {relayMode(e), relayIndex(e, d.relays)})

CoverSwitchEntities(d, e) ==
  {coverSwitchPressAction(e), coverSwitchType(e), coverSwitchInvert(e),
   coverSwitchBindedMode(e), coverSwitchLongPressDuration(e)}
    \cup If(d.covers > 0, {coverSwitchCoverIndex(e, d.covers), coverSwitchLocalMode(e)})

CoverEntities(e) ==
  {Lift(e), coverMoving(e), coverMotorReversal(e), coverOpenTime(e), coverCloseTime(e),
   coverOpenDeadzone(e), coverClosedDeadzone(e)}

DeviceEntities(d) ==
  LET first_endpoint == EndpointNames(d)[1]
  IN  {deviceConfig(first_endpoint), multiPressResetCount(first_endpoint)}
        \cup If(d.networkLed, {networkIndicator(first_endpoint)})
        \cup If(d.battery, {batteryPercentage(first_endpoint)})

Extend(d) ==
  LET switchNames == Names("switch", d.switches)
      relayNames == Names("relay", d.relays)
      coverSwitchNames == Names("cover_switch", d.coverSwitches)
      coverNames == Names("cover", d.covers)
  IN  DeviceEntities(d)
        \cup UNION {SwitchEntities(d, switchNames[k]) : k \in 1 .. d.switches}
        \cup {OnOff(relayNames[k]) : k \in 1 .. d.relays}
        \cup UNION {{relayIndicatorMode(relayNames[k]), relayIndicator(relayNames[k])} :
                      k \in 1 .. d.indicators}
        \cup UNION {CoverSwitchEntities(d, coverSwitchNames[k]) : k \in 1 .. d.coverSwitches}
        \cup UNION {CoverEntities(coverNames[k]) : k \in 1 .. d.covers}

-----------------------------------------------------------------------------
(* The template: configure.                                                *)

Bind(k, cluster) == [do |-> "bind", endpoint |-> k, cluster |-> cluster, attributes |-> {}]
Report(k, cluster, attribute) ==
  [do |-> "report", endpoint |-> k, cluster |-> cluster, attributes |-> {attribute}]
Read(k, cluster, attributes) ==
  [do |-> "read", endpoint |-> k, cluster |-> cluster, attributes |-> attributes]

ForEach(endpoints, Steps(_)) == FlattenSeq([k \in DOMAIN endpoints |-> Steps(endpoints[k])])

\* External: what onOff and windowCovering of the library configure, before the rest.
LibrarySteps(d) ==
  ForEach(EndpointsOf(d, "relay"),
          LAMBDA k : <<Bind(k, "genOnOff"), Report(k, "genOnOff", \h0000)>>)
    \o ForEach(EndpointsOf(d, "cover"),
               LAMBDA k : <<Bind(k, "closuresWindowCovering"),
                            Report(k, "closuresWindowCovering", \h0008)>>)

SwitchSteps(k) == <<Bind(k, "genMultistateInput"), Report(k, "genMultistateInput", \h0055)>>

BatterySteps ==
  <<Bind(1, "genPowerCfg"), Report(1, "genPowerCfg", \h0021),
    Read(1, "genPowerCfg", {\h0021, \h0020})>>

CoverSteps(k) ==
  <<Bind(k, "closuresWindowCovering"), Report(k, "closuresWindowCovering", \hff00)>>

\* Mutant of IndicatorSteps: every relay is taken to have an indicator.
IndicatorStepsOfAll(d) ==
  ForEach(EndpointsOf(d, "relay"), LAMBDA k : <<Report(k, "genOnOff", \hff02)>>)

IndicatorSteps(d) ==
  ForEach(SubSeq(EndpointsOf(d, "relay"), 1, d.indicators),
          LAMBDA k : <<Report(k, "genOnOff", \hff02)>>)

\* Mutant of ConfigureSteps: no report is asked of the indicators.
StepsWithoutIndicators(d) ==
  LibrarySteps(d)
    \o ForEach(EndpointsOf(d, "switch"), SwitchSteps)
    \o (IF d.battery THEN BatterySteps ELSE << >>)
    \o ForEach(EndpointsOf(d, "relay"), LAMBDA k : <<Report(k, "genOnOff", \h0000)>>)
    \o ForEach(EndpointsOf(d, "cover_switch"), SwitchSteps)
    \o ForEach(EndpointsOf(d, "cover"), CoverSteps)

ConfigureSteps(d) ==
  LibrarySteps(d)
    \o ForEach(EndpointsOf(d, "switch"), SwitchSteps)
    \o (IF d.battery THEN BatterySteps ELSE << >>)
    \o ForEach(EndpointsOf(d, "relay"), LAMBDA k : <<Report(k, "genOnOff", \h0000)>>)
    \o IndicatorSteps(d)
    \o ForEach(EndpointsOf(d, "cover_switch"), SwitchSteps)
    \o ForEach(EndpointsOf(d, "cover"), CoverSteps)

-----------------------------------------------------------------------------
(* A definition, and the three kinds that the file has.                    *)

Definition(models, d) ==
  [zigbeeModel |-> models, endpoints |-> EndpointNames(d),
   extend |-> Extend(d), configure |-> ConfigureSteps(d)]

Nothing ==
  [switches |-> 0, relays |-> 0, coverSwitches |-> 0, covers |-> 0,
   indicators |-> 0, networkLed |-> FALSE, battery |-> FALSE]

\* n switches with a relay each, the first of which have an indicator.
Switch(models, n, indicators, networkLed) ==
  Definition(models, [Nothing EXCEPT !.switches = n, !.relays = n, !.indicators = indicators,
                                     !.networkLed = networkLed])

\* n buttons of a device that runs on a battery.
Remote(models, n, networkLed) ==
  Definition(models, [Nothing EXCEPT !.switches = n, !.battery = TRUE,
                                     !.networkLed = networkLed])

\* n covers with a switch each, and a network LED.
Cover(models, n) ==
  Definition(models, [Nothing EXCEPT !.coverSwitches = n, !.covers = n, !.networkLed = TRUE])
=============================================================================
