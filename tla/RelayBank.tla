----------------------------- MODULE RelayBank -----------------------------
(***************************************************************************)
(* The relays of a device (src/base_components/relay.c).                   *)
(*                                                                         *)
(* A normal relay is driven by one pin as long as it is on.  A latching    *)
(* relay has two coils, one to close and one to open its contact; each is  *)
(* energized for a pulse only.  Pulses of different relays are not allowed *)
(* to overlap, unless the configuration says so: a relay that finds        *)
(* another one pulsing tries again after the length of a pulse.            *)
(*                                                                         *)
(* The functions of relay.c are operators from the state of the relays to  *)
(* the next; an action is one callback of the event loop.                  *)
(***************************************************************************)
EXTENDS Integers

CONSTANTS
  RelayCount,   \* relays_cnt: relays are known by their index
  Latching,     \* the relays with is_latching
  PulseTicks    \* relay_pulse_ms

ASSUME BankAssumption ==
  RelayCount \in Nat \ {0} /\ Latching \subseteq 1 .. RelayCount
  /\ PulseTicks \in Nat \ {0}

Relays == 1 .. RelayCount
NoRelay == 0

VARIABLES
  bank,      \* the relays, their pins and tasks, pulse_relay, and which relay
             \* start-up has come to
  contact,   \* the contacts: "open", "closed", or "moving" while a pulse lasts
  touched    \* observed: the relays that were set since the last power-up

bankVars == <<bank, contact, touched>>

-----------------------------------------------------------------------------

\* Mutant of EndPulse: the relay keeps its claim on the pulse.
EndPulseKeepsClaim(b, r) ==
  [b EXCEPT !.on_pin[r] = FALSE, !.off_pin[r] = FALSE]

\* relay_end_latching_pulse.
EndPulse(b, r) ==
  [b EXCEPT !.on_pin[r] = FALSE, !.off_pin[r] = FALSE,
            !.pulse_relay = IF @ = r THEN NoRelay ELSE @]

Schedule(b, r, handler) == [b EXCEPT !.task[r] = handler, !.due[r] = PulseTicks]
Unschedule(b, r) == [b EXCEPT !.task[r] = "none", !.due[r] = 0]

\* Mutant of MayPulse: the pulse that is under way is overlooked.
MayAlwaysPulse(b) == TRUE

MayPulse(b) == b.pulse_relay = NoRelay \/ b.simultaneous

\* relay_start_latching_pulse.
StartPulse(b, r) ==
  IF MayPulse(b)
  THEN Schedule([b EXCEPT !.on_pin[r] = @ \/ b.on[r], !.off_pin[r] = @ \/ ~b.on[r],
                          !.pulse_relay = r], r, "end")
  ELSE Schedule(b, r, "start")

\* Mutants of PulseAnew: the pulse under way is not ended, or the task that ends the
\* new one is unscheduled.
PulseOnTop(b, r) == StartPulse(Unschedule(b, r), r)
PulseUnended(b, r) == Unschedule(StartPulse(EndPulse(b, r), r), r)

\* A new position of a latching relay replaces whatever it was doing.
PulseAnew(b, r) == StartPulse(Unschedule(EndPulse(b, r), r), r)

\* relay_on and relay_off, but for the call of on_change.
RelaySet(b, r, on) ==
  LET set == [b EXCEPT !.on[r] = on]
  IN  IF r \in Latching THEN PulseAnew(set, r) ELSE [set EXCEPT !.on_pin[r] = on]

RelayToggle(b, r) == RelaySet(b, r, ~b.on[r])

\* relay_init of every relay.
RelaysOff(simultaneous) ==
  [on |-> [r \in Relays |-> FALSE],
   on_pin |-> [r \in Relays |-> FALSE], off_pin |-> [r \in Relays |-> FALSE],
   task |-> [r \in Relays |-> "none"], due |-> [r \in Relays |-> 0],
   pulse_relay |-> NoRelay, simultaneous |-> simultaneous, starting |-> 1]

\* Start-up then sets the relays one after the other, those that it sets at all.
Startup == {"on", "off", "leave"}

StartedUp(b, r, startup) ==
  [IF startup = "leave" THEN b ELSE RelaySet(b, r, startup = "on")
     EXCEPT !.starting = r + 1]

\* Callbacks run after start-up.
Running == bank.starting > RelayCount

-----------------------------------------------------------------------------
(* The contacts.                                                           *)

Energized(b, r) == b.on_pin[r] \/ b.off_pin[r]

\* A latching contact moves during a pulse and has moved when it is over; a normal
\* one follows its pin.
ContactAfter(r) ==
  IF r \notin Latching THEN IF bank'.on_pin[r] THEN "closed" ELSE "open"
  ELSE CASE Energized(bank', r) -> "moving"
         [] ~Energized(bank', r) /\ Energized(bank, r) ->
              IF bank.due[r] > 0 THEN "moving"
              ELSE IF bank.on_pin[r] THEN "closed" ELSE "open"
         [] OTHER -> contact[r]

Contacts == contact' = [r \in Relays |-> ContactAfter(r)]

\* A pulse that is cut short by a power cycle may leave the contact either way.
AfterPowerLoss(r) ==
  CASE r \notin Latching -> {"open"}
    [] r \in Latching /\ contact[r] = "moving" -> {"open", "closed"}
    [] OTHER -> {contact[r]}

-----------------------------------------------------------------------------
(* Actions.                                                                *)

SetRelay(r, on) ==
  /\ Running
  /\ bank' = RelaySet(bank, r, on)
  /\ Contacts
  /\ touched' = touched \cup {r}

PulseEnds(r) ==
  /\ Running /\ bank.task[r] = "end" /\ bank.due[r] = 0
  /\ bank' = EndPulse(Unschedule(bank, r), r)
  /\ Contacts
  /\ UNCHANGED touched

PulseRetried(r) ==
  /\ Running /\ bank.task[r] = "start" /\ bank.due[r] = 0
  /\ bank' = StartPulse(bank, r)
  /\ Contacts
  /\ UNCHANGED touched

NothingDue(b) == \A r \in Relays : b.task[r] # "none" => b.due[r] > 0

BankTick ==
  /\ Running /\ NothingDue(bank)
  /\ bank' = [bank EXCEPT !.due = [r \in Relays |-> IF @[r] > 0 THEN @[r] - 1 ELSE 0]]
  /\ UNCHANGED <<contact, touched>>

StartRelay(r, startup) ==
  /\ bank.starting = r
  /\ bank' = StartedUp(bank, r, startup)
  /\ Contacts
  /\ touched' = IF startup = "leave" THEN touched ELSE touched \cup {r}

PowerCycle ==
  /\ bank' = RelaysOff(bank.simultaneous)
  /\ contact' \in [Relays -> {"open", "closed"}]
  /\ \A r \in Relays : contact'[r] \in AfterPowerLoss(r)
  /\ touched' = {}

BankInit ==
  /\ \E simultaneous \in BOOLEAN : bank = RelaysOff(simultaneous)
  /\ contact = [r \in Relays |-> "open"] /\ touched = {}

BankNext ==
  \/ \E r \in Relays, on \in BOOLEAN : SetRelay(r, on)
  \/ \E r \in Relays : PulseEnds(r) \/ PulseRetried(r)
  \/ BankTick
  \/ \E r \in Relays, startup \in Startup : StartRelay(r, startup)
  \/ PowerCycle

BankSpec == BankInit /\ [][BankNext]_bankVars

-----------------------------------------------------------------------------
(* Properties.                                                             *)

BankState ==
  [on: [Relays -> BOOLEAN], on_pin: [Relays -> BOOLEAN], off_pin: [Relays -> BOOLEAN],
   task: [Relays -> {"none", "end", "start"}], due: [Relays -> 0 .. PulseTicks],
   pulse_relay: Relays \cup {NoRelay}, simultaneous: BOOLEAN,
   starting: 1 .. RelayCount + 1]

\* Pins, tasks and contacts are what the code and the relays can make of them.
BankTypeOK ==
  /\ bank \in BankState
  /\ contact \in [Relays -> {"open", "closed", "moving"}]
  /\ touched \subseteq Relays

\* A coil is never left energized: whoever is pulsing has a task to end the pulse,
\* through every command that arrives while pulses run or wait; and pulse_relay
\* does not outlive the pulse, so that no relay waits for nobody.
PulsesEnd ==
  /\ \A r \in Latching : Energized(bank, r) <=> bank.task[r] = "end"
  /\ bank.pulse_relay # NoRelay => bank.task[bank.pulse_relay] = "end"

\* The two coils of a relay never work against each other, and, unless the
\* configuration allows it, neither do those of two relays load the supply at once.
PulsesExclusive ==
  /\ \A r \in Latching : ~(bank.on_pin[r] /\ bank.off_pin[r])
  /\ bank.simultaneous \/ \A r, s \in Latching :
       Energized(bank, r) /\ Energized(bank, s) => r = s

\* A relay that has no task left has its contact where the attribute says, whatever
\* was toggled in between; but for a latching relay that nobody set since power-up.
ContactsFollow ==
  \A r \in Relays : bank.task[r] = "none" /\ (r \in touched \/ r \notin Latching) =>
    contact[r] = IF bank.on[r] THEN "closed" ELSE "open"
=============================================================================
