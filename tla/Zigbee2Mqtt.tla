---------------------------- MODULE Zigbee2Mqtt ----------------------------
(***************************************************************************)
(* A device of the database and Zigbee2MQTT with the converters: the       *)
(* device is interviewed, its definition is looked up by the model it      *)
(* reports, and the definition configures bindings and reports step by     *)
(* step. Meanwhile its owner writes device_config, which the device only   *)
(* starts to use when it reboots, and settings that the device stores by   *)
(* the number of the switch and loads again under another configuration.   *)
(*                                                                         *)
(* What Zigbee2MQTT does with a definition is external: it configures      *)
(* after an interview, gives up at the first step that fails, starts over  *)
(* from the first one, and forgets that a device is configured when it     *)
(* joins anew or is reconfigured by its owner. The owner does so after the *)
(* interview, when no configuration is under way.                          *)
(***************************************************************************)
EXTENDS Converters, DeviceEndpoints, DeviceDb

CONSTANTS
  Rewritten,   \* models whose owners write settings and configurations
  MaxFaults,   \* bound on lost messages and factory resets
  MaxWrites    \* bound on what the owner writes

VARIABLES
  config,        \* the stored device_config_str
  rebooting,     \* a reboot is scheduled
  running,       \* the configuration that was parsed at the last start,
  tables,        \* and the tables made of it
  chosen,        \* relay_index of each switch,
  nv_index,      \* and as stored, of the switches that have been stored
  joined,        \* the device is in the network
  bound,         \* endpoints and clusters bound to the coordinator
  reported,      \* attributes that are reported
  seen,          \* the configuration that Zigbee2MQTT interviewed,
  listed,        \* the endpoints that the device had then,
  definition,    \* the definition it found
  step,          \* the next step of configure, 0 if not under way
  configured,    \* the last configure succeeded
  faults, writes \* how many so far

device == <<config, rebooting, running, tables, chosen, nv_index>>
network == <<joined, bound, reported>>
z2m == <<seen, listed, definition, step, configured>>
vars == <<device, network, z2m, faults, writes>>

Unknown == [zigbeeModel |-> {}, endpoints |-> << >>, extend |-> {}, configure |-> << >>]
NoConfig == [model |-> "", entries |-> << >>]

-----------------------------------------------------------------------------
(* The device.                                                             *)

\* The tables after each entry, and after the last one.
Parse(entries) ==
  LET read[n \in 0 .. Len(entries)] ==
        IF n = 0 THEN NoTables ELSE Parsed(read[n - 1], entries[n])
  IN  read[Len(entries)]

\* parse_config detaches the switches beyond the relays, before they load their settings.
DefaultIndex(t, k) == IF k > t.relays THEN 0 ELSE k

\* Mutant of LoadedIndex: it is not validated.
LoadedAsStored(t, k) == IF k \in DOMAIN nv_index THEN nv_index[k] ELSE DefaultIndex(t, k)

\* An index that is none of a relay becomes the number of the switch.
LoadedIndex(t, k) ==
  IF k \notin DOMAIN nv_index THEN DefaultIndex(t, k)
  ELSE IF t.relays = 0 THEN 0
  ELSE IF nv_index[k] \in 1 .. t.relays THEN nv_index[k] ELSE k

WrittenIndex(t, value) ==
  IF t.relays = 0 THEN 0 ELSE IF value \in 1 .. t.relays THEN value ELSE 1

StoreIndex(k, i) ==
  nv_index' = [j \in DOMAIN nv_index \cup {k} |-> IF j = k THEN i ELSE nv_index[j]]

Boot ==
  /\ rebooting' = FALSE
  /\ running' = config
  /\ tables' = Parse(config.entries)
  /\ chosen' = [k \in DOMAIN tables'.switches |-> LoadedIndex(tables', k)]

\* The scheduled reboot, or a power cycle.
Restart ==
  /\ Boot
  /\ UNCHANGED <<config, nv_index, network, z2m, faults, writes>>

\* The reset button, or many presses: the stack forgets the network, stored items stay.
FactoryReset ==
  /\ joined /\ faults < MaxFaults
  /\ joined' = FALSE /\ bound' = {} /\ reported' = {}
  /\ faults' = faults + 1
  /\ UNCHANGED <<device, z2m, writes>>

\* A device that is not in a network looks for one.
Join ==
  /\ ~joined
  /\ joined' = TRUE
  /\ seen' = NoConfig /\ listed' = {} /\ definition' = Unknown /\ step' = 0 /\ configured' = FALSE
  /\ UNCHANGED <<device, bound, reported, faults, writes>>

-----------------------------------------------------------------------------
(* The owner.                                                              *)

Owned == running.model \in Rewritten /\ joined /\ definition # Unknown /\ writes < MaxWrites

\* A configuration of one's own: more switches than relays.
OwnConfigs == [model: Rewritten, entries: {Of(<<"S", "S", "R">>)}]

Writable ==
  {c \in {d \in device_db : d.model \in Rewritten} \cup OwnConfigs :
     \A k \in DOMAIN c.entries : Validates(c.entries[k])}

\* basic_cluster_callback_attr_write_trampoline.
WriteConfig(c) ==
  /\ Owned
  /\ config' = c /\ rebooting' = TRUE
  /\ writes' = writes + 1
  /\ UNCHANGED <<running, tables, chosen, nv_index, network, z2m, faults>>

\* A relay is chosen from the lookup of the definition.
WriteRelayIndex(k, value) ==
  /\ Owned
  /\ \E e \in definition.extend :
       /\ e.name = definition.endpoints[k]
       /\ e.cluster = "genOnOffSwitchCfg" /\ e.attribute = \hff02 /\ value \in e.lookup
  /\ chosen' = [chosen EXCEPT ![k] = WrittenIndex(tables, value)]
  /\ StoreIndex(k, chosen'[k])
  /\ writes' = writes + 1
  /\ UNCHANGED <<config, rebooting, running, tables, network, z2m, faults>>

\* Another setting of the switch is written: all of them are stored.
WriteSetting(k) ==
  /\ Owned
  /\ StoreIndex(k, chosen[k])
  /\ writes' = writes + 1
  /\ UNCHANGED <<config, rebooting, running, tables, chosen, network, z2m, faults>>

-----------------------------------------------------------------------------
(* Zigbee2MQTT.                                                            *)

\* Models are read and endpoints listed. Several definitions may name a model.
Interview ==
  /\ joined /\ step = 0
  /\ definition = Unknown \/ seen # running
  /\ seen' = running /\ listed' = Endpoints(tables)
  /\ definition' \in {d \in definitions : running.model \in d.zigbeeModel}
  /\ configured' = FALSE
  /\ UNCHANGED <<device, network, step, faults, writes>>

StartConfigure ==
  /\ joined /\ definition # Unknown /\ ~configured /\ step = 0
  /\ step' = 1
  /\ UNCHANGED <<device, network, seen, listed, definition, configured, faults, writes>>

Command == definition.configure[step]

\* Both the endpoint object and the device itself have what the step is about.
Possible(c) ==
  /\ c.endpoint \in listed
  /\ LET attributes == {a \in Attributes(tables) :
                            a.endpoint = c.endpoint /\ a.cluster = c.cluster}
     IN  /\ attributes # {}
         /\ c.attributes \subseteq {a.attribute : a \in attributes}

Executed(c) ==
  /\ bound' = bound \cup IF c.do = "bind" THEN {<<c.endpoint, c.cluster>>} ELSE {}
  /\ reported' = reported \cup
       IF c.do = "report" THEN {<<c.endpoint, c.cluster, id>> : id \in c.attributes} ELSE {}

StepDone ==
  /\ step > 0 /\ joined /\ Possible(Command)
  /\ Executed(Command)
  /\ configured' = (step = Len(definition.configure))
  /\ step' = IF configured' THEN 0 ELSE step + 1
  /\ UNCHANGED <<device, joined, seen, listed, definition, faults, writes>>

\* The answer is lost: done, but Zigbee2MQTT gives up.
StepUnanswered ==
  /\ step > 0 /\ joined /\ Possible(Command) /\ faults < MaxFaults
  /\ Executed(Command)
  /\ step' = 0
  /\ faults' = faults + 1
  /\ UNCHANGED <<device, joined, seen, listed, definition, configured, writes>>

StepRefused ==
  /\ step > 0 /\ joined /\ ~Possible(Command)
  /\ step' = 0
  /\ UNCHANGED <<device, network, seen, listed, definition, configured, faults, writes>>

\* The request is lost, or the device has left.
StepLost ==
  /\ step > 0
  /\ IF joined THEN faults < MaxFaults /\ faults' = faults + 1 ELSE UNCHANGED faults
  /\ step' = 0
  /\ UNCHANGED <<device, network, seen, listed, definition, configured, writes>>

-----------------------------------------------------------------------------

Init ==
  /\ config \in device_db
  /\ running = config /\ rebooting = FALSE
  /\ tables = Parse(config.entries)
  /\ nv_index = << >>
  /\ chosen = [k \in DOMAIN tables.switches |-> DefaultIndex(tables, k)]
  /\ joined = FALSE /\ bound = {} /\ reported = {}
  /\ seen = NoConfig /\ listed = {} /\ definition = Unknown /\ step = 0 /\ configured = FALSE
  /\ faults = 0 /\ writes = 0

Owner ==
  \/ \E c \in Writable : WriteConfig(c)
  \/ \E k \in DOMAIN chosen : WriteSetting(k) \/ \E value \in Slot : WriteRelayIndex(k, value)

Configure == StartConfigure \/ StepDone \/ StepUnanswered \/ StepRefused \/ StepLost

Next == Restart \/ FactoryReset \/ Join \/ Interview \/ Configure \/ Owner

\* A scheduled reboot comes, a device joins, and Zigbee2MQTT keeps trying; a step that
\* is tried is done unless one of finitely many faults happens.
Fairness ==
  /\ WF_vars(rebooting /\ Restart) /\ WF_vars(Join)
  /\ WF_vars(StartConfigure) /\ WF_vars(StepDone) /\ WF_vars(StepRefused)
  /\ WF_vars(~joined /\ StepLost)

Spec == Init /\ [][Next]_vars /\ Fairness

-----------------------------------------------------------------------------
(* Properties.                                                             *)

\* Zigbee2MQTT has interviewed a device of the database as it runs now.
Supported == definition # Unknown /\ seen = running /\ running \in device_db

Number(d, name) == CHOOSE k \in DOMAIN d.endpoints : d.endpoints[k] = name

\* The attribute that an entity shows, with the values that it has names for.
Shown(d, e) ==
  [endpoint |-> Number(d, e.name), cluster |-> e.cluster, attribute |-> e.attribute,
   values |-> e.lookup]

\* The generator takes "LP<N>", which sets the length of pulses
\* (docs/contribute/porting.md:114), for a network LED (make_z2m_custom_converters.py:61).
TakenForLed(c, e) ==
  /\ e.cluster = "genBasic" /\ e.attribute = \hff01
  /\ \E k \in DOMAIN c.entries : c.entries[k].kind = "LP"

\* Whatever a definition shows and offers, the device has, at that endpoint and with just
\* the values that have a name: for each of the 210 definitions and every model they go
\* by, but for a network LED that is none.
Understands ==
  Supported =>
    {Shown(definition, e) : e \in {f \in definition.extend : ~TakenForLed(running, f)}}
      \subseteq Attributes(tables)

\* Once configured, all the device reports of what the definition shows does reach
\* Zigbee2MQTT, however often configuring was cut short and started over, and whatever
\* configurations the device has had before.
ConfiguredReports ==
  Supported /\ configured /\ joined =>
    LET shown == {Shown(definition, e) : e \in definition.extend}
    IN  \A a \in Notified(tables) \cap shown :
          /\ <<a.endpoint, a.cluster>> \in bound
          /\ <<a.endpoint, a.cluster, a.attribute>> \in reported

\* What the two properties above ask of the data alone. Of every definition and every
\* device of the database with a model that the definition goes by: what the definition
\* shows is there,
ShowsWhatIs ==
  \A d \in definitions, c \in device_db :
    c.model \in d.zigbeeModel =>
      {Shown(d, e) : e \in {f \in d.extend : ~TakenForLed(c, f)}}
        \subseteq Attributes(Parse(c.entries))

\* and what it shows and the device reports is bound and asked for by its steps.
AsksForReports ==
  \A d \in definitions, c \in device_db :
    c.model \in d.zigbeeModel =>
      \A a \in Notified(Parse(c.entries)) \cap {Shown(d, e) : e \in d.extend} :
        \E i, j \in 1 .. Len(d.configure) :
          LET s == d.configure[i]
              r == d.configure[j]
          IN  /\ s.do = "bind" /\ s.endpoint = a.endpoint /\ s.cluster = a.cluster
              /\ r.do = "report" /\ r.endpoint = a.endpoint /\ r.cluster = a.cluster
              /\ a.attribute \in r.attributes

\* A switch beyond the relays that was stored with an index of no relay: loading gives it
\* its own number, which is of no relay either.
Misloaded(k) ==
  /\ k > tables.relays /\ chosen[k] = k
  /\ k \in DOMAIN nv_index /\ nv_index[k] \notin 1 .. tables.relays

\* A relay index that was stored under any configuration is kept where that relay exists,
\* and otherwise replaced by one that exists and has a name; a switch beyond the relays is
\* detached "instead of keeping invalid relay indices"
\* (tests/test_switches_without_relays.py:183), but for one that is Misloaded.
RelayIndexTranslated ==
  \A k \in DOMAIN chosen :
    /\ k \in DOMAIN nv_index /\ nv_index[k] \in 1 .. tables.relays => chosen[k] = nv_index[k]
    /\ \/ chosen[k] \in RelayIndices(tables)
       \/ k > tables.relays /\ chosen[k] = 0
       \/ Misloaded(k)

\* A device of the database that was interviewed as it runs gets configured, unless it
\* changes before: no step of its definition is one that the device refuses.
EndsConfigured == Supported ~> (configured \/ ~Supported)
=============================================================================
