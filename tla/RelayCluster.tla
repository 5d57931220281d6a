---------------------------- MODULE RelayCluster ----------------------------
(***************************************************************************)
(* The On/Off clusters of the relays (src/zigbee/relay_cluster.c): ZCL     *)
(* commands and switches set the relays, an indicator LED follows them or  *)
(* is set by hand, and the attributes survive a restart, after which the   *)
(* start-up mode decides what becomes of the relay.                        *)
(*                                                                         *)
(* The LED is the state last asked for by this cluster; what else commands *)
(* it, so that it may blink, is the matter of Indicators.                  *)
(***************************************************************************)
EXTENDS RelayBank

CONSTANTS
  Indicated,   \* relays that have an indicator LED
  Written      \* relays whose attributes are written

ASSUME RelayClusterAssumption == Indicated \subseteq Relays /\ Written \subseteq Relays

VARIABLES
  attrs,   \* startup_mode, indicator_led_mode and indicator_state of each relay
  led,     \* the LEDs that are lit
  nv,      \* stored attributes of each relay: {} before the first write
  was_on   \* observed: whether a relay that has not started yet was on when power failed

clusterVars == <<attrs, led, nv, was_on>>
vars == <<bank, contact, touched, attrs, led, nv, was_on>>

StartupMode == {"off", "on", "toggle", "previous"}
IndicatorMode == {"same", "opposite", "manual"}
Attributes ==
  [startup_mode: StartupMode, indicator_led_mode: IndicatorMode,
   indicator_state: BOOLEAN]

-----------------------------------------------------------------------------

IndicatorState(a, on) ==
  CASE a.indicator_led_mode = "same" -> on
    [] a.indicator_led_mode = "opposite" -> ~on
    [] OTHER -> a.indicator_state

\* sync_indicator_led.
Synced(r, a, on) ==
  IF r \in Indicated THEN [a EXCEPT !.indicator_state = IndicatorState(a, on)] ELSE a

Lit(r, a) == r \in Indicated /\ a.indicator_state

StoredAs(a, on) == {[attrs |-> a, on_off |-> on]}

\* Mutant of StoredOnChange: the TOGGLE mode is forgotten.
StoredOnPrevious(r, a, on, stored) ==
  IF a.startup_mode = "previous" THEN StoredAs(a, on) ELSE stored

\* relay_cluster_on_relay_change: the attributes are stored before the LED follows.
StoredOnChange(r, a, on, stored) ==
  IF a.startup_mode \in {"toggle", "previous"} THEN StoredAs(a, on) ELSE stored

\* Mutant of SyncCluster: the LED is not synchronized.
ForgetLed(r) == UNCHANGED <<attrs, led>>

SyncCluster(r) ==
  /\ attrs' = [attrs EXCEPT ![r] = Synced(r, @, bank'.on[r])]
  /\ led' = [led EXCEPT ![r] = Lit(r, attrs'[r])]

\* relay_cluster_on and relay_cluster_off.
ClusterSet(r, on) ==
  /\ SetRelay(r, on)
  /\ nv' = [nv EXCEPT ![r] = StoredOnChange(r, attrs[r], on, @)]
  /\ SyncCluster(r)
  /\ UNCHANGED was_on

ClusterOn(r) == ClusterSet(r, TRUE)
ClusterOff(r) == ClusterSet(r, FALSE)
ClusterToggle(r) == ClusterSet(r, ~bank.on[r])

\* MoveToLevelWithOnOff.
MoveToLevel(r, level) == IF level = 0 THEN ClusterOff(r) ELSE ClusterOn(r)

ClusterCommand(r) ==
  ClusterOn(r) \/ ClusterOff(r) \/ ClusterToggle(r) \/ \E level \in 0 .. 1 : MoveToLevel(r, level)

-----------------------------------------------------------------------------
(* Attribute writes.                                                       *)

\* relay_cluster_on_write_attr; an indicator state that the mode does not allow is
\* set back.
OnWriteAttr(r, written, syncs) ==
  /\ Running /\ r \in Written
  /\ LET a == IF syncs \/ written.indicator_led_mode # "manual"
              THEN Synced(r, written, bank.on[r]) ELSE written
     IN  /\ attrs' = [attrs EXCEPT ![r] = a]
         /\ led' = IF syncs \/ written.indicator_led_mode # "manual"
                   THEN [led EXCEPT ![r] = Lit(r, a)] ELSE led
         /\ nv' = [nv EXCEPT ![r] = StoredAs(a, bank.on[r])]
  /\ UNCHANGED <<bank, contact, touched, was_on>>

WriteStartupMode(r, m) ==
  OnWriteAttr(r, [attrs[r] EXCEPT !.startup_mode = m], FALSE)

\* A relay without an LED has neither of these attributes.
WriteIndicatorMode(r, m) ==
  r \in Indicated /\ OnWriteAttr(r, [attrs[r] EXCEPT !.indicator_led_mode = m], FALSE)
WriteIndicatorState(r, s) ==
  r \in Indicated /\ OnWriteAttr(r, [attrs[r] EXCEPT !.indicator_state = s], TRUE)

WriteAttribute(r) ==
  \/ \E m \in StartupMode : WriteStartupMode(r, m)
  \/ \E m \in IndicatorMode : WriteIndicatorMode(r, m)
  \/ \E s \in BOOLEAN : WriteIndicatorState(r, s)

-----------------------------------------------------------------------------
(* Start-up.                                                               *)

DefaultAttributes ==
  [startup_mode |-> "off", indicator_led_mode |-> "same", indicator_state |-> FALSE]

\* relay_cluster_load_attrs_from_nv.
LoadedAttributes(r) ==
  IF nv[r] = {} THEN DefaultAttributes ELSE (CHOOSE n \in nv[r] : TRUE).attrs

\* relay_cluster_handle_startup_mode; nothing is set before anything was stored.
StartupOf(r) ==
  LET a == LoadedAttributes(r)
      prev_on == \E n \in nv[r] : n.on_off
  IN  CASE nv[r] = {} -> "leave"
        [] nv[r] # {} /\ a.startup_mode = "off" -> "off"
        [] nv[r] # {} /\ a.startup_mode = "on" -> "on"
        [] nv[r] # {} /\ a.startup_mode = "toggle" -> IF prev_on THEN "off" ELSE "on"
        [] OTHER -> IF prev_on THEN "on" ELSE "off"

\* relay_cluster_add_to_endpoint: a relay that is set is stored as at any other time.
StartUp(r) ==
  LET a == LoadedAttributes(r)
  IN  /\ StartRelay(r, StartupOf(r))
      /\ attrs' = [attrs EXCEPT ![r] = Synced(r, a, bank'.on[r])]
      /\ led' = [led EXCEPT ![r] = Lit(r, attrs'[r])]
      /\ nv' = IF StartupOf(r) = "leave" THEN nv
               ELSE [nv EXCEPT ![r] = StoredOnChange(r, a, bank'.on[r], @)]
      /\ was_on' = [was_on EXCEPT ![r] = FALSE]

\* Power may also fail while the relays are started.
Started(r) == r < bank.starting

Reboot ==
  /\ PowerCycle
  /\ attrs' = [r \in Relays |-> DefaultAttributes]
  /\ led' = [r \in Relays |-> FALSE]
  /\ was_on' = [r \in Relays |-> IF Started(r) THEN bank.on[r] ELSE was_on[r]]
  /\ UNCHANGED nv

Init ==
  /\ BankInit
  /\ attrs = [r \in Relays |-> DefaultAttributes]
  /\ led = [r \in Relays |-> FALSE]
  /\ nv = [r \in Relays |-> {}]
  /\ was_on = [r \in Relays |-> FALSE]

EndTask(r) == PulseEnds(r) /\ UNCHANGED clusterVars
RetryTask(r) == PulseRetried(r) /\ UNCHANGED clusterVars
Tick == BankTick /\ UNCHANGED clusterVars

Tasks == \E r \in Relays : EndTask(r) \/ RetryTask(r)

Next ==
  \/ \E r \in Relays : StartUp(r) \/ ClusterCommand(r) \/ WriteAttribute(r)
  \/ Tasks \/ Tick \/ Reboot

Spec == Init /\ [][Next]_vars

\* Start-up completes, due tasks run and time passes.
FairSpec ==
  /\ Spec /\ WF_vars(Tick)
  /\ \A r \in Relays : WF_vars(StartUp(r)) /\ WF_vars(EndTask(r)) /\ WF_vars(RetryTask(r))

-----------------------------------------------------------------------------
(* Properties.                                                             *)

\* What the start-up mode promises of a restart, in terms of the relay as it was
\* when power failed, not of what happened to be stored of it.
AfterRestart(mode, on) ==
  CASE mode = "on" -> TRUE
    [] mode = "toggle" -> ~on
    [] mode = "previous" -> on
    [] OTHER -> FALSE

\* However commands, mode changes and earlier restarts, completed or not, were
\* interleaved, a restart does to a relay what its start-up mode says.
RestartsAsConfigured ==
  [][\A r \in Relays : StartUp(r) =>
       bank'.on[r] = AfterRestart(attrs'[r].startup_mode, was_on[r])]_vars

\* An LED in a following mode shows its relay and one in manual mode what was last
\* written, also after a restart.
IndicatorsShow ==
  \A r \in Indicated : Started(r) => led[r] = IndicatorState(attrs[r], bank.on[r])

UserStep == Reboot \/ \E r \in Relays : ClusterCommand(r)

\* When the relays are left alone every pulse is given, however many wait for others.
PulsesSettle ==
  ([]<><<UserStep>>_vars) \/ <>[](\A r \in Relays : bank.task[r] = "none")
=============================================================================
