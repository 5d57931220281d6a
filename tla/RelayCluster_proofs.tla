------------------------- MODULE RelayCluster_proofs -------------------------
(***************************************************************************)
(* The relays, for any number of them, any choice of latching ones and any *)
(* length of the pulse; and the On/Off clusters, which use the relays as   *)
(* RelayBank says, so that what is proved of the relays holds of the       *)
(* device, whatever the clusters do.                                       *)
(*                                                                         *)
(* The argument: pulse_relay is a lock.  While pulses exclude each other,  *)
(* a coil is energized only by the relay that holds it, and who holds it   *)
(* has a task that will give it back.  BankInv says so of the state of     *)
(* relay.c, and each of its functions preserves it; what becomes of the    *)
(* contacts follows.                                                       *)
(***************************************************************************)
EXTENDS RelayCluster, TLAPS

-----------------------------------------------------------------------------
(* The state of relay.c.                                                   *)

\* The coils of a latching relay, which is energized exactly during its pulse.
CoilsOf(b, r) ==
  /\ Energized(b, r) <=> b.task[r] = "end"
  /\ b.on_pin[r] => b.on[r]
  /\ b.off_pin[r] => ~b.on[r]

\* Who has a pulse holds the lock, unless pulses may overlap.
LockOf(b, r) == b.simultaneous \/ (b.task[r] = "end" => b.pulse_relay = r)

NormalOf(b, r) == b.task[r] = "none" /\ ~b.off_pin[r] /\ (b.on_pin[r] <=> b.on[r])

BankInv(b) ==
  /\ b \in BankState
  /\ \A r \in Latching : CoilsOf(b, r) /\ LockOf(b, r)
  /\ \A r \in Relays \ Latching : NormalOf(b, r)
  /\ b.pulse_relay # NoRelay => b.pulse_relay \in Latching /\ b.task[b.pulse_relay] = "end"

\* The pins and tasks of the other relays are as they were: the functions of relay.c,
\* called for r, change none of them.
OthersStay(b, d, r) ==
  /\ d.simultaneous = b.simultaneous
  /\ \A s \in Relays \ {r} :
       /\ d.on[s] = b.on[s] /\ d.on_pin[s] = b.on_pin[s] /\ d.off_pin[s] = b.off_pin[s]
       /\ d.task[s] = b.task[s]

LEMMA Bounds == Latching \subseteq Relays /\ NoRelay \notin Relays /\ PulseTicks \in Nat
  /\ 0 \in 0 .. PulseTicks /\ PulseTicks \in 0 .. PulseTicks
BY BankAssumption DEF Relays, NoRelay

\* The relay gives up its pulse and its task.
Idle(b, r) == EndPulse(Unschedule(b, r), r)

LEMMA IdleIs ==
  ASSUME NEW b \in BankState, NEW r \in Relays
  PROVE  /\ Idle(b, r) \in BankState /\ OthersStay(b, Idle(b, r), r)
         /\ Unschedule(EndPulse(b, r), r) = Idle(b, r)
         /\ Idle(b, r).on = b.on /\ Idle(b, r).task[r] = "none"
         /\ ~Idle(b, r).on_pin[r] /\ ~Idle(b, r).off_pin[r]
         /\ Idle(b, r).pulse_relay = IF b.pulse_relay = r THEN NoRelay ELSE b.pulse_relay
BY Bounds DEF Idle, EndPulse, Unschedule, BankState, OthersStay

LEMMA StartIs ==
  ASSUME NEW b \in BankState, NEW r \in Relays,
         ~b.on_pin[r], ~b.off_pin[r]
  PROVE  LET d == StartPulse(b, r)
         IN  /\ d \in BankState /\ OthersStay(b, d, r) /\ d.on = b.on
             /\ MayPulse(b) => /\ d.task[r] = "end" /\ d.pulse_relay = r
                               /\ d.on_pin[r] = b.on[r] /\ d.off_pin[r] = ~b.on[r]
             /\ ~MayPulse(b) => /\ d.task[r] = "start" /\ d.pulse_relay = b.pulse_relay
                                /\ ~d.on_pin[r] /\ ~d.off_pin[r]
<1>1. CASE MayPulse(b)
  BY <1>1, Bounds DEF StartPulse, Schedule, BankState, OthersStay
<1>2. CASE ~MayPulse(b)
  BY <1>2, Bounds DEF StartPulse, Schedule, BankState, OthersStay
<1> QED
  BY <1>1, <1>2

-----------------------------------------------------------------------------
(* BankInv is preserved.                                                   *)

\* A relay that is idle respects the lock.
LEMMA InvOfIdle ==
  ASSUME NEW b, BankInv(b), NEW d \in BankState, NEW r \in Latching, OthersStay(b, d, r),
         d.task[r] = "none", ~d.on_pin[r], ~d.off_pin[r],
         d.pulse_relay = IF b.pulse_relay = r THEN NoRelay ELSE b.pulse_relay
  PROVE  BankInv(d)
<1>1. ASSUME NEW s \in Latching PROVE CoilsOf(d, s) /\ LockOf(d, s)
  <2>1. CASE s = r
    BY <2>1 DEF CoilsOf, LockOf, Energized
  <2>2. CASE s # r
    <3>1. CoilsOf(b, s) /\ LockOf(b, s)
      BY DEF BankInv
    <3> QED
      BY <2>2, <3>1, Bounds DEF CoilsOf, LockOf, Energized, OthersStay
  <2> QED
    BY <2>1, <2>2
<1>2. \A s \in Relays \ Latching : NormalOf(d, s)
  BY Bounds DEF BankInv, NormalOf, OthersStay
<1>3. d.pulse_relay # NoRelay => d.pulse_relay \in Latching /\ d.task[d.pulse_relay] = "end"
  BY Bounds DEF BankInv, OthersStay
<1> QED
  BY <1>1, <1>2, <1>3 DEF BankInv

\* One that starts a pulse, or waits to, as well.
LEMMA InvOfStart ==
  ASSUME NEW b, BankInv(b), NEW r \in Latching, ~b.on_pin[r], ~b.off_pin[r]
  PROVE  BankInv(StartPulse(b, r))
<1> DEFINE d == StartPulse(b, r)
<1>1. b \in BankState /\ r \in Relays
  BY Bounds DEF BankInv
<1>2. /\ d \in BankState /\ OthersStay(b, d, r) /\ d.on = b.on
      /\ MayPulse(b) => /\ d.task[r] = "end" /\ d.pulse_relay = r
                        /\ d.on_pin[r] = b.on[r] /\ d.off_pin[r] = ~b.on[r]
      /\ ~MayPulse(b) => /\ d.task[r] = "start" /\ d.pulse_relay = b.pulse_relay
                         /\ ~d.on_pin[r] /\ ~d.off_pin[r]
  BY <1>1, StartIs
<1>3. b.task[r] # "end" /\ b.pulse_relay # r
  BY Bounds DEF BankInv, CoilsOf, Energized
<1> HIDE DEF d
<1>4. ASSUME NEW s \in Latching PROVE CoilsOf(d, s) /\ LockOf(d, s)
  <2>1. CASE s = r
    <3>1. d.on[r] = b.on[r] /\ b.on[r] \in BOOLEAN
      BY <1>1, <1>2 DEF BankState
    <3> QED
      BY <1>2, <2>1, <3>1 DEF CoilsOf, LockOf, Energized
  <2>2. CASE s # r
    <3>1. CoilsOf(b, s) /\ LockOf(b, s)
      BY DEF BankInv
    <3>2. s \in Relays \ {r}
      BY <2>2, Bounds
    <3>3. CoilsOf(d, s)
      BY <1>2, <3>1, <3>2 DEF CoilsOf, Energized, OthersStay
    <3>4. ASSUME ~b.simultaneous, b.task[s] = "end" PROVE ~MayPulse(b)
      BY <3>1, <3>4, Bounds DEF LockOf, MayPulse
    <3> QED
      BY <1>2, <3>1, <3>2, <3>3, <3>4 DEF LockOf, OthersStay
  <2> QED
    BY <2>1, <2>2
<1>5. \A s \in Relays \ Latching : NormalOf(d, s)
  BY <1>2, Bounds DEF BankInv, NormalOf, OthersStay
<1>6. d.pulse_relay # NoRelay => d.pulse_relay \in Latching /\ d.task[d.pulse_relay] = "end"
  BY <1>2, <1>3, Bounds DEF BankInv, OthersStay
<1> QED
  BY <1>2, <1>4, <1>5, <1>6 DEF BankInv, d

\* What a relay that is set leaves behind.
LEMMA SetLatchingInv ==
  ASSUME NEW b, BankInv(b), NEW r \in Latching, NEW on \in BOOLEAN
  PROVE  /\ BankInv(RelaySet(b, r, on)) /\ OthersStay(b, RelaySet(b, r, on), r)
         /\ RelaySet(b, r, on).on[r] = on /\ RelaySet(b, r, on).task[r] # "none"
         /\ b.task[r] = "end" => RelaySet(b, r, on).task[r] = "end"
<1> DEFINE set == [b EXCEPT !.on[r] = on]
           d == Idle(set, r)
<1>1. set \in BankState /\ b \in BankState /\ r \in Relays
  BY Bounds DEF BankInv, BankState
<1>2. /\ OthersStay(b, set, r) /\ set.on[r] = on /\ set.pulse_relay = b.pulse_relay
      /\ set.simultaneous = b.simultaneous
  BY <1>1, Bounds DEF OthersStay, BankState
<1>3. RelaySet(b, r, on) = StartPulse(d, r)
  BY <1>1, IdleIs DEF RelaySet, PulseAnew
<1>4. /\ d \in BankState /\ OthersStay(set, d, r) /\ d.on = set.on /\ d.task[r] = "none"
      /\ ~d.on_pin[r] /\ ~d.off_pin[r]
      /\ d.pulse_relay = IF set.pulse_relay = r THEN NoRelay ELSE set.pulse_relay
  BY <1>1, IdleIs
<1> HIDE DEF set, d
<1>5. OthersStay(b, d, r) /\ d.on[r] = on
  BY <1>2, <1>4 DEF OthersStay
<1>6. BankInv(d)
  BY <1>2, <1>4, <1>5, InvOfIdle
<1>7. BankInv(StartPulse(d, r))
  BY <1>4, <1>6, InvOfStart
<1>8. /\ OthersStay(d, StartPulse(d, r), r) /\ StartPulse(d, r).on = d.on
      /\ StartPulse(d, r).task[r] # "none"
      /\ MayPulse(d) => StartPulse(d, r).task[r] = "end"
  BY <1>1, <1>4, StartIs
<1>9. OthersStay(b, StartPulse(d, r), r)
  BY <1>5, <1>8 DEF OthersStay
<1>10. b.task[r] = "end" => MayPulse(d)
  BY <1>2, <1>4 DEF BankInv, LockOf, MayPulse, OthersStay
<1> QED
  BY <1>3, <1>5, <1>7, <1>8, <1>9, <1>10

LEMMA SetNormalInv ==
  ASSUME NEW b, BankInv(b), NEW r \in Relays \ Latching, NEW on \in BOOLEAN
  PROVE  /\ BankInv(RelaySet(b, r, on)) /\ OthersStay(b, RelaySet(b, r, on), r)
         /\ RelaySet(b, r, on).on[r] = on
<1> DEFINE d == [[b EXCEPT !.on[r] = on] EXCEPT !.on_pin[r] = on]
<1>1. b \in BankState
  BY DEF BankInv
<1>2. /\ d \in BankState /\ OthersStay(b, d, r) /\ d.on[r] = on /\ d.on_pin[r] = on
      /\ d.off_pin = b.off_pin /\ d.task = b.task /\ d.pulse_relay = b.pulse_relay
  BY <1>1 DEF BankState, OthersStay
<1>3. RelaySet(b, r, on) = d
  BY DEF RelaySet
<1> HIDE DEF d
<1>4. \A s \in Latching : CoilsOf(d, s) /\ LockOf(d, s)
  BY <1>2, Bounds DEF BankInv, CoilsOf, LockOf, Energized, OthersStay
<1>5. \A s \in Relays \ Latching : NormalOf(d, s)
  BY <1>2 DEF BankInv, NormalOf, OthersStay
<1>6. BankInv(d)
  BY <1>2, <1>4, <1>5 DEF BankInv
<1> QED
  BY <1>2, <1>3, <1>6

-----------------------------------------------------------------------------
(* The contacts.                                                           *)

AsSet(r) == IF bank.on[r] THEN "closed" ELSE "open"

ContactInv(r) ==
  IF r \in Latching
  THEN /\ contact[r] = "moving" <=> Energized(bank, r)
       /\ r \in touched /\ bank.task[r] = "none" => contact[r] = AsSet(r)
  ELSE contact[r] = AsSet(r)

IInv ==
  /\ BankTypeOK
  /\ BankInv(bank)
  /\ \A r \in Relays : ContactInv(r)

LEMMA ContactsAre ==
  ASSUME Contacts, NEW r \in Relays
  PROVE  contact'[r] = ContactAfter(r)
BY DEF Contacts

\* A normal relay has its contact where its pin says.
LEMMA NormalContact ==
  ASSUME BankInv(bank)', Contacts, NEW r \in Relays \ Latching
  PROVE  ContactInv(r)'
<1>1. contact'[r] = IF bank'.on_pin[r] THEN "closed" ELSE "open"
  BY ContactsAre DEF ContactAfter
<1>2. bank'.on_pin[r] <=> bank'.on[r]
  BY DEF BankInv, NormalOf
<1> QED
  BY <1>1, <1>2 DEF ContactInv, AsSet

\* A callback for relay r disturbs no other contact.
LEMMA OtherContacts ==
  ASSUME IInv, BankInv(bank)', Contacts, NEW r \in Relays, OthersStay(bank, bank', r),
         NEW s \in Relays \ {r}, s \in touched' => s \in touched
  PROVE  ContactInv(s)'
<1>1. CASE s \notin Latching
  BY <1>1, NormalContact
<1>2. CASE s \in Latching
  <2>1. /\ Energized(bank', s) <=> Energized(bank, s)
        /\ bank'.on[s] = bank.on[s] /\ bank'.task[s] = bank.task[s]
    BY DEF OthersStay, Energized
  <2>2. contact'[s] = IF Energized(bank, s) THEN "moving" ELSE contact[s]
    BY <1>2, <2>1, ContactsAre DEF ContactAfter
  <2>3. ContactInv(s)
    BY DEF IInv
  <2> QED
    BY <1>2, <2>1, <2>2, <2>3 DEF ContactInv, AsSet
<1> QED
  BY <1>1, <1>2

\* Contacts keep their type.
LEMMA ContactsType ==
  ASSUME IInv, Contacts
  PROVE  contact' \in [Relays -> {"open", "closed", "moving"}]
<1>1. ASSUME NEW r \in Relays PROVE ContactAfter(r) \in {"open", "closed", "moving"}
  <2>1. contact[r] \in {"open", "closed", "moving"}
    BY DEF IInv, BankTypeOK
  <2> QED
    BY <2>1 DEF ContactAfter
<1> QED
  BY <1>1 DEF Contacts

-----------------------------------------------------------------------------
(* Every action preserves the invariant.                                   *)

\* Setting relay r, for a command or at start-up.
LEMMA SetInv ==
  ASSUME IInv, NEW r \in Relays, NEW on \in BOOLEAN,
         NEW d, d = RelaySet(bank, r, on)
  PROVE  /\ BankInv(d) /\ OthersStay(bank, d, r) /\ d.on[r] = on
         /\ r \in Latching =>
              d.task[r] # "none" /\ (bank.task[r] = "end" => d.task[r] = "end")
<1>1. BankInv(bank)
  BY DEF IInv
<1>2. CASE r \in Latching
  BY <1>1, <1>2, SetLatchingInv
<1>3. CASE r \notin Latching
  BY <1>1, <1>3, SetNormalInv
<1> QED
  BY <1>2, <1>3

\* The contact of a latching relay that was set, or is started again, by a state d.
LEMMA BusyContact ==
  ASSUME IInv, BankInv(bank)', Contacts, NEW r \in Latching, bank'.task[r] # "none",
         bank.task[r] = "end" => bank'.task[r] = "end"
  PROVE  ContactInv(r)'
<1>1. ContactInv(r) /\ r \in Relays
  BY Bounds DEF IInv
<1>2. Energized(bank, r) => Energized(bank', r)
  BY DEF IInv, BankInv, CoilsOf
<1>3. contact'[r] = IF Energized(bank', r) THEN "moving" ELSE contact[r]
  BY <1>1, <1>2, ContactsAre DEF ContactAfter
<1> QED
  BY <1>1, <1>2, <1>3 DEF ContactInv

\* Relay r was set: by a command, or by start-up, which goes on to the next relay.
LEMMA SetStep ==
  ASSUME IInv, NEW r \in Relays, NEW on \in BOOLEAN, NEW n \in 1 .. RelayCount + 1,
         bank' = [RelaySet(bank, r, on) EXCEPT !.starting = n],
         Contacts, touched' = touched \cup {r}
  PROVE  IInv'
<1> DEFINE d == RelaySet(bank, r, on)
<1>1. /\ BankInv(d) /\ OthersStay(bank, d, r) /\ d.on[r] = on
      /\ r \in Latching => d.task[r] # "none" /\ (bank.task[r] = "end" => d.task[r] = "end")
  BY SetInv
<1> HIDE DEF d
<1>2. /\ bank' \in BankState /\ bank'.on = d.on /\ bank'.on_pin = d.on_pin
      /\ bank'.off_pin = d.off_pin /\ bank'.task = d.task
      /\ bank'.pulse_relay = d.pulse_relay /\ bank'.simultaneous = d.simultaneous
  BY <1>1 DEF BankInv, BankState, d
<1>3. BankInv(bank')
  BY <1>1, <1>2 DEF BankInv, CoilsOf, LockOf, NormalOf, Energized
<1>4. ASSUME NEW s \in Relays \ {r} PROVE ContactInv(s)'
  <2>1. OthersStay(bank, bank', r)
    BY <1>1, <1>2 DEF OthersStay
  <2> QED
    BY <1>3, <2>1, OtherContacts
<1>5. ContactInv(r)'
  <2>1. CASE r \in Latching
    BY <1>1, <1>2, <1>3, <2>1, BusyContact
  <2>2. CASE r \notin Latching
    BY <1>3, <2>2, NormalContact
  <2> QED
    BY <2>1, <2>2
<1>6. BankTypeOK'
  BY <1>2, ContactsType DEF IInv, BankTypeOK
<1> QED
  BY <1>3, <1>4, <1>5, <1>6 DEF IInv

LEMMA SetRelayInv ==
  ASSUME IInv, NEW r \in Relays, NEW on \in BOOLEAN, SetRelay(r, on)
  PROVE  IInv'
<1>1. RelaySet(bank, r, on) \in BankState
  BY SetInv DEF BankInv
<1>2. RelaySet(bank, r, on) =
        [RelaySet(bank, r, on) EXCEPT !.starting = RelaySet(bank, r, on).starting]
  BY <1>1 DEF BankState
<1>3. RelaySet(bank, r, on).starting \in 1 .. RelayCount + 1
  BY <1>1 DEF BankState
<1> QED
  BY <1>2, <1>3, SetStep DEF SetRelay

\* The invariant of a bank that differs in the times and in starting only.
LEMMA SameBank ==
  ASSUME IInv, bank' \in BankState, UNCHANGED <<contact, touched>>,
         bank'.on = bank.on, bank'.on_pin = bank.on_pin, bank'.off_pin = bank.off_pin,
         bank'.task = bank.task, bank'.pulse_relay = bank.pulse_relay,
         bank'.simultaneous = bank.simultaneous
  PROVE  IInv'
<1>1. BankInv(bank')
  BY DEF IInv, BankInv, CoilsOf, LockOf, NormalOf, Energized
<1>2. \A r \in Relays : ContactInv(r)'
  BY DEF IInv, ContactInv, AsSet, Energized
<1> QED
  BY <1>1, <1>2 DEF IInv, BankTypeOK

LEMMA StartRelayInv ==
  ASSUME IInv, NEW r \in Relays, NEW startup \in Startup, StartRelay(r, startup)
  PROVE  IInv'
<1>1. r + 1 \in 1 .. RelayCount + 1
  BY BankAssumption DEF Relays
<1>2. bank' = [IF startup = "leave" THEN bank ELSE RelaySet(bank, r, startup = "on")
                 EXCEPT !.starting = r + 1]
  BY DEF StartRelay, StartedUp
<1>3. CASE startup # "leave"
  BY <1>1, <1>2, <1>3, SetStep DEF StartRelay
<1>4. CASE startup = "leave"
  <2>1. bank \in BankState /\ bank' = [bank EXCEPT !.starting = r + 1]
    BY <1>2, <1>4 DEF IInv, BankTypeOK
  <2>2. /\ bank' \in BankState /\ bank'.on = bank.on /\ bank'.on_pin = bank.on_pin
        /\ bank'.off_pin = bank.off_pin /\ bank'.task = bank.task
        /\ bank'.pulse_relay = bank.pulse_relay /\ bank'.simultaneous = bank.simultaneous
    BY <1>1, <2>1 DEF BankState
  <2>3. touched' = touched
    BY <1>4 DEF StartRelay
  <2>4. ASSUME NEW s \in Relays PROVE contact'[s] = contact[s]
    <3>1. Energized(bank', s) <=> Energized(bank, s)
      BY <2>2 DEF Energized
    <3>2. contact'[s] = ContactAfter(s)
      BY ContactsAre DEF StartRelay
    <3>3. ContactInv(s)
      BY DEF IInv
    <3>4. CASE s \in Latching
      BY <3>1, <3>2, <3>3, <3>4 DEF ContactAfter, ContactInv
    <3>5. CASE s \notin Latching
      <4>1. bank'.on_pin[s] <=> bank.on[s]
        BY <2>2, <3>5 DEF IInv, BankInv, NormalOf
      <4> QED
        BY <3>2, <3>3, <3>5, <4>1 DEF ContactAfter, ContactInv, AsSet
    <3> QED
      BY <3>4, <3>5
  <2>5. contact' = contact
    <3>1. contact' = [s \in Relays |-> ContactAfter(s)]
      BY DEF StartRelay, Contacts
    <3>2. contact = [s \in Relays |-> contact[s]]
      BY DEF IInv, BankTypeOK
    <3>3. \A s \in Relays : ContactAfter(s) = contact[s]
      BY <2>4, <3>1
    <3> QED
      BY <3>1, <3>2, <3>3
  <2> QED
    BY <2>2, <2>3, <2>5, SameBank
<1> QED
  BY <1>3, <1>4

LEMMA PulseEndsInv ==
  ASSUME IInv, NEW r \in Relays, PulseEnds(r)
  PROVE  IInv'
<1>1. bank \in BankState /\ BankInv(bank) /\ bank' = Idle(bank, r)
  BY DEF IInv, BankTypeOK, PulseEnds, Idle
<1>2. /\ bank' \in BankState /\ OthersStay(bank, bank', r)
      /\ bank'.on = bank.on /\ bank'.task[r] = "none"
      /\ ~bank'.on_pin[r] /\ ~bank'.off_pin[r]
      /\ bank'.pulse_relay = IF bank.pulse_relay = r THEN NoRelay ELSE bank.pulse_relay
  BY <1>1, IdleIs
<1>3. r \in Latching /\ bank.task[r] = "end" /\ bank.due[r] = 0
  BY DEF PulseEnds, IInv, BankInv, NormalOf
<1>4. BankInv(bank')
  BY <1>1, <1>2, <1>3, InvOfIdle
<1>5. \A s \in Relays \ {r} : ContactInv(s)'
  BY <1>2, <1>4, OtherContacts DEF PulseEnds
<1>6. ContactInv(r)'
  <2>1. Energized(bank, r) /\ ~Energized(bank', r) /\ (bank.on_pin[r] <=> bank.on[r])
    BY <1>1, <1>2, <1>3 DEF BankInv, CoilsOf, Energized
  <2>2. contact'[r] = IF bank.on_pin[r] THEN "closed" ELSE "open"
    BY <1>3, <2>1, ContactsAre DEF PulseEnds, ContactAfter
  <2> QED
    BY <1>2, <1>3, <2>1, <2>2 DEF ContactInv, AsSet
<1>7. BankTypeOK'
  BY <1>2, ContactsType DEF IInv, BankTypeOK, PulseEnds
<1> QED
  BY <1>4, <1>5, <1>6, <1>7 DEF IInv

LEMMA PulseRetriedInv ==
  ASSUME IInv, NEW r \in Relays, PulseRetried(r)
  PROVE  IInv'
<1>1. bank \in BankState /\ BankInv(bank) /\ bank' = StartPulse(bank, r)
  BY DEF IInv, BankTypeOK, PulseRetried
<1>2. r \in Latching /\ bank.task[r] = "start"
  BY DEF PulseRetried, IInv, BankInv, NormalOf
<1>3. ~bank.on_pin[r] /\ ~bank.off_pin[r]
  BY <1>1, <1>2 DEF BankInv, CoilsOf, Energized
<1>4. /\ bank' \in BankState /\ OthersStay(bank, bank', r) /\ bank'.task[r] # "none"
  BY <1>1, <1>3, StartIs
<1>5. BankInv(bank')
  BY <1>1, <1>2, <1>3, InvOfStart
<1>6. \A s \in Relays \ {r} : ContactInv(s)'
  BY <1>4, <1>5, OtherContacts DEF PulseRetried
<1>7. ContactInv(r)'
  BY <1>2, <1>4, <1>5, BusyContact DEF PulseRetried
<1>8. BankTypeOK'
  BY <1>4, ContactsType DEF IInv, BankTypeOK, PulseRetried
<1> QED
  BY <1>5, <1>6, <1>7, <1>8 DEF IInv

LEMMA BankTickInv == IInv /\ BankTick => IInv'
<1> SUFFICES ASSUME IInv, BankTick PROVE IInv'
  OBVIOUS
<1>1. bank \in BankState
  BY DEF IInv, BankTypeOK
<1>2. \A r \in Relays : (IF bank.due[r] > 0 THEN bank.due[r] - 1 ELSE 0) \in 0 .. PulseTicks
  BY <1>1, Bounds DEF BankState
<1>3. /\ bank' \in BankState /\ bank'.on = bank.on /\ bank'.on_pin = bank.on_pin
      /\ bank'.off_pin = bank.off_pin /\ bank'.task = bank.task
      /\ bank'.pulse_relay = bank.pulse_relay /\ bank'.simultaneous = bank.simultaneous
  BY <1>1, <1>2 DEF BankTick, BankState
<1> QED
  BY <1>3, SameBank DEF BankTick

\* Start-up begins with all relays off and nothing scheduled.
LEMMA OffInv ==
  ASSUME NEW simultaneous \in BOOLEAN
  PROVE  BankInv(RelaysOff(simultaneous))
<1>1. RelaysOff(simultaneous) \in BankState
  BY Bounds, BankAssumption DEF RelaysOff, BankState
<1>2. \A r \in Latching : CoilsOf(RelaysOff(simultaneous), r) /\ LockOf(RelaysOff(simultaneous), r)
  BY Bounds DEF RelaysOff, CoilsOf, LockOf, Energized
<1>3. \A r \in Relays \ Latching : NormalOf(RelaysOff(simultaneous), r)
  BY DEF RelaysOff, NormalOf
<1> QED
  BY <1>1, <1>2, <1>3 DEF BankInv, RelaysOff

LEMMA PowerCycleInv == IInv /\ PowerCycle => IInv'
<1> SUFFICES ASSUME IInv, PowerCycle PROVE IInv'
  OBVIOUS
<1>1. bank' = RelaysOff(bank.simultaneous) /\ bank.simultaneous \in BOOLEAN
  BY DEF PowerCycle, IInv, BankTypeOK, BankState
<1>2. BankInv(bank')
  BY <1>1, OffInv
<1>3. \A r \in Relays : ~bank'.on[r] /\ ~Energized(bank', r)
  BY <1>1 DEF RelaysOff, Energized
<1>4. ASSUME NEW r \in Relays PROVE ContactInv(r)'
  <2>1. contact'[r] \in {"open", "closed"} /\ contact'[r] \in AfterPowerLoss(r)
    BY DEF PowerCycle
  <2>2. CASE r \in Latching
    BY <1>3, <2>1, <2>2 DEF ContactInv, PowerCycle
  <2>3. CASE r \notin Latching
    BY <1>3, <2>1, <2>3 DEF ContactInv, AsSet, AfterPowerLoss
  <2> QED
    BY <2>2, <2>3
<1>5. BankTypeOK'
  BY <1>2 DEF BankInv, BankTypeOK, PowerCycle
<1> QED
  BY <1>2, <1>4, <1>5 DEF IInv

LEMMA InitInv == BankInit => IInv
<1> SUFFICES ASSUME BankInit PROVE IInv
  OBVIOUS
<1>1. PICK simultaneous \in BOOLEAN : bank = RelaysOff(simultaneous)
  BY DEF BankInit
<1>2. BankInv(bank)
  BY <1>1, OffInv
<1>3. \A r \in Relays : ContactInv(r)
  BY <1>1 DEF BankInit, ContactInv, AsSet, Energized, RelaysOff
<1>4. BankTypeOK
  BY <1>2 DEF BankInv, BankInit, BankTypeOK
<1> QED
  BY <1>2, <1>3, <1>4 DEF IInv

LEMMA NextInv == IInv /\ [BankNext]_bankVars => IInv'
<1>1. IInv /\ UNCHANGED bankVars => IInv'
  <2> SUFFICES ASSUME IInv, UNCHANGED bankVars PROVE IInv'
    OBVIOUS
  <2>1. bank' = bank /\ contact' = contact /\ touched' = touched /\ bank \in BankState
    BY DEF bankVars, IInv, BankTypeOK
  <2> QED
    BY <2>1, SameBank
<1> QED
  BY <1>1, SetRelayInv, PulseEndsInv, PulseRetriedInv, BankTickInv, StartRelayInv,
     PowerCycleInv DEF BankNext

-----------------------------------------------------------------------------
(* The theorems.                                                           *)

\* The inductive invariant: the lock, the coils and the contacts.
THEOREM InvariantCorrect == BankSpec => []IInv
<1> QED
  BY InitInv, NextInv, PTL DEF BankSpec

\* Relays, tasks and contacts stay in their domains.
THEOREM TypeCorrect == BankSpec => []BankTypeOK
<1>1. IInv => BankTypeOK
  BY DEF IInv
<1> QED
  BY <1>1, InvariantCorrect, PTL

\* No coil is left energized and no claim on the pulse is left behind.
THEOREM PulsesEndCorrect == BankSpec => []PulsesEnd
<1>1. IInv => PulsesEnd
  BY DEF IInv, BankInv, CoilsOf, PulsesEnd
<1> QED
  BY <1>1, InvariantCorrect, PTL

\* Coils exclude each other, within a relay and, unless configured, between relays.
THEOREM ExclusionCorrect == BankSpec => []PulsesExclusive
<1>1. IInv => PulsesExclusive
  BY DEF IInv, BankInv, CoilsOf, LockOf, PulsesExclusive
<1> QED
  BY <1>1, InvariantCorrect, PTL

\* A relay without a task has its contact where it was last set.
THEOREM ContactsCorrect == BankSpec => []ContactsFollow
<1>1. IInv => ContactsFollow
  BY DEF IInv, ContactInv, AsSet, ContactsFollow
<1> QED
  BY <1>1, InvariantCorrect, PTL

-----------------------------------------------------------------------------
(* The clusters.                                                           *)

\* A step of the clusters is one of the relays, or leaves them alone.
LEMMA StepOfBank == [Next]_vars => [BankNext]_bankVars
<1> SUFFICES ASSUME [Next]_vars PROVE [BankNext]_bankVars
  OBVIOUS
<1>1. ASSUME NEW r \in Relays, StartUp(r) PROVE BankNext
  <2>1. StartupOf(r) \in Startup
    BY DEF StartupOf, Startup
  <2> QED
    BY <1>1, <2>1 DEF StartUp, BankNext
<1>2. ASSUME NEW r \in Relays, NEW on, on \in BOOLEAN, ClusterSet(r, on) PROVE BankNext
  BY <1>2 DEF ClusterSet, BankNext
<1>3. ASSUME NEW r \in Relays, ClusterCommand(r) PROVE BankNext
  BY <1>2, <1>3 DEF ClusterCommand, ClusterOn, ClusterOff, ClusterToggle, MoveToLevel
<1>4. ASSUME NEW r \in Relays, WriteAttribute(r) PROVE UNCHANGED bankVars
  BY <1>4 DEF WriteAttribute, WriteStartupMode, WriteIndicatorMode, WriteIndicatorState,
              OnWriteAttr, bankVars
<1>5. Tasks \/ Tick => BankNext
  BY DEF Tasks, EndTask, RetryTask, Tick, BankNext
<1>6. Reboot => BankNext
  BY DEF Reboot, BankNext
<1>7. UNCHANGED vars => UNCHANGED bankVars
  BY DEF vars, bankVars
<1> QED
  BY <1>1, <1>3, <1>4, <1>5, <1>6, <1>7 DEF Next

\* The clusters implement the relays: every behaviour of the device is one of relay.c.
THEOREM UsesBank == Spec => BankSpec
<1>1. Init => BankInit
  BY DEF Init
<1> QED
  BY <1>1, StepOfBank, PTL DEF Spec, BankSpec

\* So no coil is left energized, whatever commands and start-up modes do.
THEOREM DevicePulsesEnd == Spec => []PulsesEnd
<1> QED
  BY UsesBank, PulsesEndCorrect, PTL

\* Nor do the coils of the device work against each other.
THEOREM DevicePulsesExclusive == Spec => []PulsesExclusive
<1> QED
  BY UsesBank, ExclusionCorrect, PTL

\* And the contacts of the device follow its attributes.
THEOREM DeviceContactsFollow == Spec => []ContactsFollow
<1> QED
  BY UsesBank, ContactsCorrect, PTL

-----------------------------------------------------------------------------
(* Start-up modes and LEDs.  What a restart will do to a relay is decided  *)
(* by what is stored of it: of a relay in a mode that looks back, TOGGLE   *)
(* or PREVIOUS, that is the relay as it is, or as it was when power failed *)
(* if it has not been started since.                                       *)

\* StoredOnChange and OnWriteAttr store the attributes with the relay as it is.
StoredState == [attrs: Attributes, on_off: BOOLEAN]

Loaded(stored) ==
  IF stored = {} THEN DefaultAttributes ELSE (CHOOSE n \in stored : TRUE).attrs

ClusterTypeOK ==
  /\ attrs \in [Relays -> Attributes] /\ led \in [Relays -> BOOLEAN]
  /\ nv \in [Relays -> {{}} \cup {{n} : n \in StoredState}]
  /\ was_on \in [Relays -> BOOLEAN]

LooksBack(a) == a.startup_mode \in {"toggle", "previous"}

\* A relay in state on, stored as s.
Remembers(s, on) ==
  LooksBack(Loaded(s)) => s # {} /\ \A n \in s : n.on_off = on

\* The LED of relay r, whose attributes are a, is lit if l and shows the relay.
Shows(r, a, l, on) ==
  r \in Indicated => l = a.indicator_state /\ a.indicator_state = IndicatorState(a, on)

StartedInv(r) ==
  /\ attrs[r].startup_mode = Loaded(nv[r]).startup_mode
  /\ Remembers(nv[r], bank.on[r])
  /\ Shows(r, attrs[r], led[r], bank.on[r])

\* Reboot leaves a relay off until start-up comes to it.
WaitingInv(r) == ~bank.on[r] /\ Remembers(nv[r], was_on[r])

ClusterInv ==
  /\ IInv /\ ClusterTypeOK
  /\ \A r \in Relays : IF Started(r) THEN StartedInv(r) ELSE WaitingInv(r)

LEMMA LoadedIs ==
  /\ Loaded({}) = DefaultAttributes
  /\ \A n : Loaded({n}) = n.attrs
BY DEF Loaded

\* What is stored is empty or one state.
LEMMA StoredIs ==
  ASSUME ClusterTypeOK, NEW r \in Relays
  PROVE  /\ nv[r] = {} \/ \E n \in StoredState : nv[r] = {n}
         /\ LoadedAttributes(r) = Loaded(nv[r]) /\ Loaded(nv[r]) \in Attributes
<1>1. nv[r] = {} \/ \E n \in StoredState : nv[r] = {n}
  BY DEF ClusterTypeOK
<1>2. LoadedAttributes(r) = Loaded(nv[r])
  BY DEF LoadedAttributes, Loaded
<1>3. Loaded(nv[r]) \in Attributes
  <2>1. DefaultAttributes \in Attributes
    BY DEF DefaultAttributes, Attributes, StartupMode, IndicatorMode
  <2>2. \A n \in StoredState : n.attrs \in Attributes
    BY DEF StoredState
  <2> QED
    BY <1>1, <2>1, <2>2, LoadedIs
<1> QED
  BY <1>1, <1>2, <1>3

\* relay_on, relay_off and the pulse tasks leave start-up where it is.
LEMMA SetOthers ==
  ASSUME NEW b \in BankState, NEW r \in Relays, NEW on \in BOOLEAN
  PROVE  RelaySet(b, r, on).starting = b.starting
<1>1. CASE r \notin Latching
  BY <1>1 DEF RelaySet, BankState
<1>2. CASE r \in Latching
  <2> DEFINE d == Unschedule(EndPulse([b EXCEPT !.on[r] = on], r), r)
  <2>1. d \in BankState /\ d.starting = b.starting
    BY Bounds DEF EndPulse, Unschedule, BankState
  <2>2. RelaySet(b, r, on) = StartPulse(d, r)
    BY <1>2 DEF RelaySet, PulseAnew
  <2> HIDE DEF d
  <2> QED
    BY <2>1, <2>2 DEF StartPulse, Schedule, BankState
<1> QED
  BY <1>1, <1>2

LEMMA TasksKeep ==
  ASSUME IInv, Tasks \/ Tick
  PROVE  /\ bank'.on = bank.on /\ bank'.starting = bank.starting
         /\ UNCHANGED clusterVars
<1>1. bank \in BankState
  BY DEF IInv, BankTypeOK
<1> QED
  BY <1>1 DEF Tasks, Tick, EndTask, RetryTask, PulseEnds, PulseRetried, BankTick,
     EndPulse, Unschedule, StartPulse, Schedule, BankState

\* The relays whose cluster a step does not touch.
LEMMA Untouched ==
  ASSUME NEW r \in Relays, IF Started(r) THEN StartedInv(r) ELSE WaitingInv(r),
         bank'.on[r] = bank.on[r], Started(r)' <=> Started(r),
         attrs'[r] = attrs[r], led'[r] = led[r], nv'[r] = nv[r], was_on'[r] = was_on[r]
  PROVE  (IF Started(r) THEN StartedInv(r) ELSE WaitingInv(r))'
BY DEF StartedInv, WaitingInv

\* Synced changes the indicator state only, and its outcome shows the relay.
LEMMA SyncedIs ==
  ASSUME NEW r \in Relays, NEW a \in Attributes, NEW on \in BOOLEAN,
         NEW d, d = Synced(r, a, on)
  PROVE  /\ d \in Attributes /\ d.startup_mode = a.startup_mode
         /\ Shows(r, d, Lit(r, d), on) /\ Lit(r, d) \in BOOLEAN
<1>1. IndicatorState(a, on) \in BOOLEAN
  BY DEF IndicatorState, Attributes
<1>2. CASE r \notin Indicated
  BY <1>2 DEF Synced, Shows, Lit
<1>3. CASE r \in Indicated
  <2>1. d = [a EXCEPT !.indicator_state = IndicatorState(a, on)]
    BY <1>3 DEF Synced
  <2>2. /\ d \in Attributes /\ d.startup_mode = a.startup_mode
        /\ d.indicator_led_mode = a.indicator_led_mode
        /\ d.indicator_state = IndicatorState(a, on)
    BY <1>1, <2>1 DEF Attributes
  <2>3. IndicatorState(d, on) = IndicatorState(a, on)
    BY <2>2 DEF IndicatorState
  <2>4. Lit(r, d) = d.indicator_state
    BY <1>1, <1>3, <2>2 DEF Lit
  <2> QED
    BY <1>1, <2>2, <2>3, <2>4 DEF Shows
<1> QED
  BY <1>2, <1>3

\* What StoredOnChange keeps of relay r.
LEMMA StoredOnChangeIs ==
  ASSUME NEW r, NEW a \in Attributes, NEW on \in BOOLEAN,
         NEW s \in {{}} \cup {{n} : n \in StoredState},
         a.startup_mode = Loaded(s).startup_mode,
         NEW t, t = StoredOnChange(r, a, on, s)
  PROVE  /\ t \in {{}} \cup {{n} : n \in StoredState}
         /\ a.startup_mode = Loaded(t).startup_mode /\ Remembers(t, on)
<1>1. CASE LooksBack(a)
  <2> DEFINE n == [attrs |-> a, on_off |-> on]
  <2>1. n \in StoredState /\ n.attrs = a /\ n.on_off = on
    BY DEF StoredState
  <2>2. t = {n}
    BY <1>1 DEF LooksBack, StoredOnChange, StoredAs
  <2> HIDE DEF n
  <2>3. Loaded(t) = a
    BY <2>1, <2>2, LoadedIs
  <2> QED
    BY <2>1, <2>2, <2>3 DEF Remembers
<1>2. CASE ~LooksBack(a)
  BY <1>2 DEF LooksBack, StoredOnChange, Remembers
<1> QED
  BY <1>1, <1>2

\* The invariant after a step for relay r only: what it leaves of r has to be shown.
LEMMA OneRelay ==
  ASSUME ClusterInv, IInv', NEW r \in Relays, OthersStay(bank, bank', r),
         \A s \in Relays \ {r} : Started(s)' <=> Started(s),
         NEW a \in Attributes, NEW l \in BOOLEAN, NEW w \in BOOLEAN,
         NEW t \in {{}} \cup {{n} : n \in StoredState},
         attrs' = [attrs EXCEPT ![r] = a], led' = [led EXCEPT ![r] = l],
         nv' = [nv EXCEPT ![r] = t], was_on' = [was_on EXCEPT ![r] = w],
         Started(r)', a.startup_mode = Loaded(t).startup_mode,
         Remembers(t, bank'.on[r]), Shows(r, a, l, bank'.on[r])
  PROVE  ClusterInv'
<1>1. ClusterTypeOK
  BY DEF ClusterInv
<1>2. ClusterTypeOK'
  BY <1>1 DEF ClusterTypeOK
<1>3. attrs'[r] = a /\ led'[r] = l /\ nv'[r] = t
  BY <1>1 DEF ClusterTypeOK
<1>4. StartedInv(r)'
  BY <1>3 DEF StartedInv
<1>5. ASSUME NEW s \in Relays \ {r}
      PROVE  (IF Started(s) THEN StartedInv(s) ELSE WaitingInv(s))'
  <2>1. /\ attrs'[s] = attrs[s] /\ led'[s] = led[s] /\ nv'[s] = nv[s]
        /\ was_on'[s] = was_on[s]
    BY <1>1 DEF ClusterTypeOK
  <2>2. bank'.on[s] = bank.on[s]
    BY DEF OthersStay
  <2>3. IF Started(s) THEN StartedInv(s) ELSE WaitingInv(s)
    BY DEF ClusterInv
  <2> QED
    BY <2>1, <2>2, <2>3, Untouched
<1> QED
  BY <1>2, <1>4, <1>5 DEF ClusterInv

LEMMA SameOf ==
  ASSUME NEW S, NEW T, NEW f \in [S -> T], NEW x \in S
  PROVE  f = [f EXCEPT ![x] = f[x]]
OBVIOUS

\* Commands, and the switches of the device, set a relay that has started.
LEMMA ClusterSetInv ==
  ASSUME ClusterInv, NEW r \in Relays, NEW on \in BOOLEAN, ClusterSet(r, on)
  PROVE  ClusterInv'
<1> DEFINE a == Synced(r, attrs[r], on)
           t == StoredOnChange(r, attrs[r], on, nv[r])
<1>1. /\ IInv /\ ClusterTypeOK /\ attrs[r] \in Attributes
      /\ nv[r] \in {{}} \cup {{n} : n \in StoredState} /\ bank \in BankState
  BY DEF ClusterInv, ClusterTypeOK, IInv, BankTypeOK
<1>2. /\ IInv' /\ OthersStay(bank, bank', r) /\ bank'.on[r] = on
      /\ bank'.starting = bank.starting
  BY <1>1, SetRelayInv, SetInv, SetOthers DEF ClusterSet, SetRelay
<1>3. Started(r) /\ \A s \in Relays : Started(s)' <=> Started(s)
  BY <1>1, <1>2, BankAssumption
  DEF ClusterSet, SetRelay, Running, Started, Relays, BankState
<1>4. attrs[r].startup_mode = Loaded(nv[r]).startup_mode
  BY <1>3 DEF ClusterInv, StartedInv
<1>5. /\ a \in Attributes /\ a.startup_mode = attrs[r].startup_mode
      /\ Shows(r, a, Lit(r, a), on) /\ Lit(r, a) \in BOOLEAN
  BY <1>1, SyncedIs
<1>6. /\ t \in {{}} \cup {{n} : n \in StoredState}
      /\ attrs[r].startup_mode = Loaded(t).startup_mode /\ Remembers(t, on)
  BY <1>1, <1>4, StoredOnChangeIs
<1>7. attrs' = [attrs EXCEPT ![r] = a]
  BY <1>2 DEF ClusterSet, SyncCluster
<1>8. led' = [led EXCEPT ![r] = Lit(r, a)]
  BY <1>1, <1>7 DEF ClusterSet, SyncCluster, ClusterTypeOK
<1>9. nv' = [nv EXCEPT ![r] = t]
  BY DEF ClusterSet
<1>10. was_on[r] \in BOOLEAN /\ was_on' = [was_on EXCEPT ![r] = was_on[r]]
  BY <1>1 DEF ClusterSet, ClusterTypeOK
<1> HIDE DEF a, t
<1> QED
  BY <1>2, <1>3, <1>5, <1>6, <1>7, <1>8, <1>9, <1>10, OneRelay

LEMMA ClusterCommandInv ==
  ASSUME ClusterInv, NEW r \in Relays, ClusterCommand(r)
  PROVE  ClusterInv'
<1>1. (~bank.on[r]) \in BOOLEAN
  OBVIOUS
<1> QED
  BY <1>1, ClusterSetInv
  DEF ClusterCommand, ClusterOn, ClusterOff, ClusterToggle, MoveToLevel

\* An attribute write stores the relay as it is.
LEMMA OnWriteAttrInv ==
  ASSUME ClusterInv, NEW r \in Relays, NEW w \in Attributes, NEW syncs \in BOOLEAN,
         OnWriteAttr(r, w, syncs),
         ~syncs => w.indicator_state = attrs[r].indicator_state
  PROVE  ClusterInv'
<1> DEFINE on == bank.on[r]
           synced == syncs \/ w.indicator_led_mode # "manual"
           a == IF synced THEN Synced(r, w, on) ELSE w
           l == IF synced THEN Lit(r, a) ELSE led[r]
           n == [attrs |-> a, on_off |-> on]
<1>1. /\ IInv /\ ClusterTypeOK /\ bank \in BankState /\ on \in BOOLEAN
      /\ led[r] \in BOOLEAN /\ UNCHANGED <<bank, contact, touched, was_on>>
  BY DEF ClusterInv, ClusterTypeOK, IInv, BankTypeOK, BankState, OnWriteAttr
<1>2. IInv'
  <2>1. UNCHANGED bankVars
    BY <1>1 DEF bankVars
  <2> QED
    BY <1>1, <2>1, NextInv
<1>3. OthersStay(bank, bank', r)
  BY <1>1 DEF OthersStay
<1>4. Started(r) /\ \A s \in Relays : Started(s)' <=> Started(s)
  BY <1>1, BankAssumption DEF OnWriteAttr, Running, Started, Relays, BankState
<1>5. Shows(r, attrs[r], led[r], on)
  BY <1>4 DEF ClusterInv, StartedInv
<1>6. /\ a \in Attributes /\ l \in BOOLEAN /\ Shows(r, a, l, on)
  <2>1. CASE synced
    BY <1>1, <2>1, SyncedIs
  <2>2. CASE ~synced
    <3>1. w.indicator_led_mode = "manual" /\ w.indicator_state = attrs[r].indicator_state
      BY <2>2
    <3>2. r \in Indicated => led[r] = w.indicator_state
      BY <1>5, <3>1 DEF Shows
    <3> QED
      BY <1>1, <2>2, <3>1, <3>2 DEF Shows, IndicatorState
  <2> QED
    BY <2>1, <2>2
<1>7. attrs' = [attrs EXCEPT ![r] = a] /\ nv' = [nv EXCEPT ![r] = {n}]
  BY DEF OnWriteAttr, StoredAs
<1>8. led' = [led EXCEPT ![r] = l]
  <2>1. led = [led EXCEPT ![r] = led[r]]
    BY <1>1 DEF ClusterTypeOK
  <2>2. led' = IF synced THEN [led EXCEPT ![r] = Lit(r, a)] ELSE led
    BY DEF OnWriteAttr
  <2> QED
    BY <2>1, <2>2
<1>9. was_on[r] \in BOOLEAN /\ was_on' = [was_on EXCEPT ![r] = was_on[r]]
  BY <1>1 DEF ClusterTypeOK
<1> HIDE DEF a, l
<1>10. n \in StoredState /\ n.attrs = a /\ n.on_off = on
  BY <1>1, <1>6 DEF StoredState
<1> HIDE DEF n
<1>11. /\ {n} \in {{}} \cup {{m} : m \in StoredState}
       /\ a.startup_mode = Loaded({n}).startup_mode /\ Remembers({n}, on)
  BY <1>10, LoadedIs DEF Remembers
<1> QED
  BY <1>1, <1>2, <1>3, <1>4, <1>6, <1>7, <1>8, <1>9, <1>11, OneRelay

LEMMA WriteAttributeInv ==
  ASSUME ClusterInv, NEW r \in Relays, WriteAttribute(r)
  PROVE  ClusterInv'
<1>1. attrs[r] \in Attributes
  BY DEF ClusterInv, ClusterTypeOK
<1>2. ASSUME NEW m \in StartupMode, WriteStartupMode(r, m) PROVE ClusterInv'
  BY <1>1, <1>2, OnWriteAttrInv DEF WriteStartupMode, Attributes
<1>3. ASSUME NEW m \in IndicatorMode, WriteIndicatorMode(r, m) PROVE ClusterInv'
  BY <1>1, <1>3, OnWriteAttrInv DEF WriteIndicatorMode, Attributes
<1>4. ASSUME NEW x \in BOOLEAN, WriteIndicatorState(r, x) PROVE ClusterInv'
  BY <1>1, <1>4, OnWriteAttrInv DEF WriteIndicatorState, Attributes
<1> QED
  BY <1>2, <1>3, <1>4 DEF WriteAttribute

\* What start-up makes of relay r, stored as s.
LEMMA StartupOfIs ==
  ASSUME ClusterInv, NEW r \in Relays, ~Started(r)
  PROVE  /\ StartupOf(r) = "leave" <=> nv[r] = {}
         /\ StartupOf(r) \in Startup
         /\ StartupOf(r) # "leave" =>
              (StartupOf(r) = "on") = AfterRestart(Loaded(nv[r]).startup_mode, was_on[r])
<1>1. /\ ClusterTypeOK /\ Remembers(nv[r], was_on[r]) /\ was_on[r] \in BOOLEAN
  BY DEF ClusterInv, WaitingInv, ClusterTypeOK
<1>2. /\ nv[r] = {} \/ \E n \in StoredState : nv[r] = {n}
      /\ LoadedAttributes(r) = Loaded(nv[r]) /\ Loaded(nv[r]) \in Attributes
  BY <1>1, StoredIs
<1>3. CASE nv[r] = {}
  BY <1>3 DEF StartupOf, Startup
<1>4. ASSUME NEW n \in StoredState, nv[r] = {n}
      PROVE  /\ StartupOf(r) \in {"on", "off"}
             /\ (StartupOf(r) = "on")
                  = AfterRestart(Loaded(nv[r]).startup_mode, was_on[r])
  <2>1. n.on_off \in BOOLEAN /\ Loaded(nv[r]).startup_mode \in StartupMode
    BY <1>2 DEF StoredState, Attributes
  <2>2. LooksBack(Loaded(nv[r])) => n.on_off = was_on[r]
    BY <1>1, <1>4 DEF Remembers
  <2>3. nv[r] # {} /\ ((\E m \in nv[r] : m.on_off) <=> n.on_off)
    BY <1>4
  <2>4. CASE Loaded(nv[r]).startup_mode \in {"off", "on"}
    BY <1>2, <2>3, <2>4 DEF StartupOf, AfterRestart
  <2>5. CASE Loaded(nv[r]).startup_mode = "toggle"
    BY <1>1, <1>2, <2>1, <2>2, <2>3, <2>5 DEF StartupOf, AfterRestart, LooksBack
  <2>6. CASE Loaded(nv[r]).startup_mode = "previous"
    BY <1>1, <1>2, <2>1, <2>2, <2>3, <2>6 DEF StartupOf, AfterRestart, LooksBack
  <2> QED
    BY <2>1, <2>4, <2>5, <2>6 DEF StartupMode
<1> QED
  BY <1>2, <1>3, <1>4 DEF Startup

\* The relay that start-up comes to, and what is stored of it then.
LEMMA StartUpIs ==
  ASSUME ClusterInv, NEW r \in Relays, StartUp(r)
  PROVE  /\ ~Started(r) /\ Started(r)' /\ OthersStay(bank, bank', r)
         /\ \A s \in Relays \ {r} : Started(s)' <=> Started(s)
         /\ bank'.on[r] = AfterRestart(Loaded(nv[r]).startup_mode, was_on[r])
         /\ IInv' /\ bank'.on[r] \in BOOLEAN
<1>1. IInv /\ bank \in BankState /\ bank.starting = r /\ ~bank.on[r] = TRUE
  BY BankAssumption DEF ClusterInv, IInv, BankTypeOK, StartUp, StartRelay, Started,
     Relays, WaitingInv
<1>2. ~Started(r)
  BY <1>1 DEF Started, Relays
<1>3. /\ StartupOf(r) = "leave" <=> nv[r] = {}
      /\ StartupOf(r) \in Startup
      /\ StartupOf(r) # "leave" =>
              (StartupOf(r) = "on") = AfterRestart(Loaded(nv[r]).startup_mode, was_on[r])
  BY <1>2, StartupOfIs
<1>4. IInv'
  BY <1>1, <1>3, StartRelayInv DEF StartUp
<1>5. bank' \in BankState
  BY <1>4 DEF IInv, BankTypeOK
<1>6. bank' = [IF StartupOf(r) = "leave" THEN bank ELSE RelaySet(bank, r, StartupOf(r) = "on")
                 EXCEPT !.starting = r + 1]
  BY DEF StartUp, StartRelay, StartedUp
<1>7. /\ bank'.starting = r + 1 /\ OthersStay(bank, bank', r)
      /\ bank'.on[r] = AfterRestart(Loaded(nv[r]).startup_mode, was_on[r])
  <2>1. CASE StartupOf(r) = "leave"
    <3>1. bank' = [bank EXCEPT !.starting = r + 1]
      BY <1>6, <2>1
    <3>2. /\ bank'.starting = r + 1 /\ bank'.on = bank.on /\ bank'.on_pin = bank.on_pin
          /\ bank'.off_pin = bank.off_pin /\ bank'.task = bank.task
          /\ bank'.simultaneous = bank.simultaneous
      BY <1>1, <3>1 DEF BankState
    <3>3. Loaded(nv[r]).startup_mode = "off"
      BY <1>3, <2>1, LoadedIs DEF DefaultAttributes
    <3> QED
      BY <1>1, <3>2, <3>3 DEF OthersStay, AfterRestart, BankState
  <2>2. CASE StartupOf(r) # "leave"
    <3> DEFINE on == StartupOf(r) = "on"
               d == RelaySet(bank, r, on)
    <3>1. on \in BOOLEAN
      OBVIOUS
    <3> HIDE DEF on
    <3>2. BankInv(d) /\ OthersStay(bank, d, r) /\ d.on[r] = on
      BY <1>1, <3>1, SetInv
    <3>3. d \in BankState
      BY <3>2 DEF BankInv
    <3>4. bank' = [d EXCEPT !.starting = r + 1]
      BY <1>6, <2>2 DEF on
    <3> HIDE DEF d
    <3>5. /\ bank'.starting = r + 1 /\ bank'.on = d.on /\ bank'.on_pin = d.on_pin
          /\ bank'.off_pin = d.off_pin /\ bank'.task = d.task
          /\ bank'.simultaneous = d.simultaneous
      BY <3>3, <3>4 DEF BankState
    <3>6. on = AfterRestart(Loaded(nv[r]).startup_mode, was_on[r])
      BY <1>3, <2>2 DEF on
    <3> QED
      BY <3>2, <3>5, <3>6 DEF OthersStay
  <2> QED
    BY <2>1, <2>2
<1>8. Started(r)' /\ \A s \in Relays \ {r} : Started(s)' <=> Started(s)
  BY <1>1, <1>7, BankAssumption DEF Started, Relays
<1> QED
  BY <1>2, <1>4, <1>5, <1>7, <1>8 DEF BankState

LEMMA StartUpInv ==
  ASSUME ClusterInv, NEW r \in Relays, StartUp(r)
  PROVE  ClusterInv'
<1> DEFINE on == bank'.on[r]
           a == LoadedAttributes(r)
           b == Synced(r, a, on)
           t == IF StartupOf(r) = "leave" THEN nv[r] ELSE StoredOnChange(r, a, on, nv[r])
<1>1. /\ ~Started(r) /\ Started(r)' /\ OthersStay(bank, bank', r)
      /\ \A s \in Relays \ {r} : Started(s)' <=> Started(s)
      /\ IInv' /\ on \in BOOLEAN
  BY StartUpIs
<1>2. /\ ClusterTypeOK /\ nv[r] \in {{}} \cup {{n} : n \in StoredState}
  BY DEF ClusterInv, ClusterTypeOK
<1>3. a = Loaded(nv[r]) /\ a \in Attributes
  BY <1>2, StoredIs
<1>4. attrs' = [attrs EXCEPT ![r] = b] /\ was_on' = [was_on EXCEPT ![r] = FALSE]
  BY DEF StartUp
<1>5. led' = [led EXCEPT ![r] = Lit(r, b)]
  BY <1>2, <1>4 DEF StartUp, ClusterTypeOK
<1>6. nv' = [nv EXCEPT ![r] = t]
  BY <1>2 DEF StartUp, ClusterTypeOK
<1>7. /\ b \in Attributes /\ b.startup_mode = a.startup_mode
      /\ Shows(r, b, Lit(r, b), on) /\ Lit(r, b) \in BOOLEAN
  BY <1>1, <1>3, SyncedIs
<1>8. /\ t \in {{}} \cup {{n} : n \in StoredState}
      /\ a.startup_mode = Loaded(t).startup_mode /\ Remembers(t, on)
  <2>1. CASE StartupOf(r) = "leave"
    <3>1. nv[r] = {}
      BY <1>1, <2>1, StartupOfIs
    <3> QED
      BY <1>3, <2>1, <3>1, LoadedIs DEF Remembers, LooksBack, DefaultAttributes
  <2>2. CASE StartupOf(r) # "leave"
    BY <1>1, <1>2, <1>3, <2>2, StoredOnChangeIs
  <2> QED
    BY <2>1, <2>2
<1> HIDE DEF a, b, t
<1> QED
  BY <1>1, <1>4, <1>5, <1>6, <1>7, <1>8, OneRelay

\* Power fails: of a relay that has not been started since the last time, what it was
\* before that counts.
LEMMA RebootInv == ClusterInv /\ Reboot => ClusterInv'
<1> SUFFICES ASSUME ClusterInv, Reboot PROVE ClusterInv'
  OBVIOUS
<1>1. IInv /\ ClusterTypeOK /\ bank \in BankState
  BY DEF ClusterInv, IInv, BankTypeOK
<1>2. IInv'
  BY <1>1, PowerCycleInv DEF Reboot
<1>3. bank'.starting = 1 /\ \A r \in Relays : bank'.on[r] = FALSE
  BY DEF Reboot, PowerCycle, RelaysOff
<1>4. ClusterTypeOK'
  <2>1. DefaultAttributes \in Attributes
    BY DEF DefaultAttributes, Attributes, StartupMode, IndicatorMode
  <2>2. \A r \in Relays : (IF Started(r) THEN bank.on[r] ELSE was_on[r]) \in BOOLEAN
    BY <1>1 DEF BankState, ClusterTypeOK
  <2> QED
    BY <1>1, <2>1, <2>2 DEF Reboot, ClusterTypeOK
<1>5. ASSUME NEW r \in Relays PROVE ~Started(r)' /\ WaitingInv(r)'
  <2>1. Remembers(nv[r], IF Started(r) THEN bank.on[r] ELSE was_on[r])
    BY DEF ClusterInv, StartedInv, WaitingInv
  <2>2. nv'[r] = nv[r] /\ was_on'[r] = IF Started(r) THEN bank.on[r] ELSE was_on[r]
    BY DEF Reboot
  <2> QED
    BY <1>3, <2>1, <2>2 DEF WaitingInv, Started, Relays
<1> QED
  BY <1>2, <1>4, <1>5 DEF ClusterInv

LEMMA ClusterInitInv == Init => ClusterInv
<1> SUFFICES ASSUME Init PROVE ClusterInv
  OBVIOUS
<1>1. IInv
  BY InitInv DEF Init
<1>2. bank.starting = 1 /\ \A r \in Relays : bank.on[r] = FALSE
  BY DEF Init, BankInit, RelaysOff
<1>3. ClusterTypeOK
  <2>1. DefaultAttributes \in Attributes
    BY DEF DefaultAttributes, Attributes, StartupMode, IndicatorMode
  <2> QED
    BY <2>1 DEF Init, ClusterTypeOK
<1>4. ASSUME NEW r \in Relays PROVE ~Started(r) /\ WaitingInv(r)
  <2>1. Remembers(nv[r], was_on[r])
    BY LoadedIs DEF Init, Remembers, LooksBack, DefaultAttributes
  <2> QED
    BY <1>2, <2>1 DEF WaitingInv, Started, Relays
<1> QED
  BY <1>1, <1>3, <1>4 DEF ClusterInv

LEMMA ClusterNextInv == ClusterInv /\ [Next]_vars => ClusterInv'
<1>1. ASSUME ClusterInv, UNCHANGED clusterVars, IInv', bank'.on = bank.on,
             bank'.starting = bank.starting
      PROVE  ClusterInv'
  <2>1. ClusterTypeOK'
    BY <1>1 DEF ClusterInv, ClusterTypeOK, clusterVars
  <2>2. ASSUME NEW r \in Relays
        PROVE  (IF Started(r) THEN StartedInv(r) ELSE WaitingInv(r))'
    <3>1. IF Started(r) THEN StartedInv(r) ELSE WaitingInv(r)
      BY <1>1 DEF ClusterInv
    <3> QED
      BY <1>1, <3>1, Untouched DEF clusterVars, Started
  <2> QED
    BY <1>1, <2>1, <2>2 DEF ClusterInv
<1>2. ClusterInv /\ (Tasks \/ Tick) => ClusterInv'
  <2> SUFFICES ASSUME ClusterInv, Tasks \/ Tick PROVE ClusterInv'
    OBVIOUS
  <2>1. IInv /\ IInv'
    BY NextInv DEF ClusterInv, Tasks, Tick, EndTask, RetryTask, BankNext
  <2> QED
    BY <1>1, <2>1, TasksKeep
<1>3. ClusterInv /\ UNCHANGED vars => ClusterInv'
  <2> SUFFICES ASSUME ClusterInv, UNCHANGED vars PROVE ClusterInv'
    OBVIOUS
  <2>1. IInv'
    BY NextInv DEF ClusterInv, vars, bankVars
  <2> QED
    BY <1>1, <2>1 DEF vars, clusterVars
<1> QED
  BY <1>2, <1>3, StartUpInv, ClusterCommandInv, WriteAttributeInv, RebootInv DEF Next

\* The inductive invariant of the clusters: what is stored of a relay that its start-up
\* mode looks back at is up to date, and its LED is synchronized.
THEOREM ClusterCorrect == Spec => []ClusterInv
<1> QED
  BY ClusterInitInv, ClusterNextInv, PTL DEF Spec

\* LEDs show what their mode says, for any number of relays.
THEOREM IndicatorsCorrect == Spec => []IndicatorsShow
<1>1. ClusterInv => IndicatorsShow
  BY RelayClusterAssumption DEF ClusterInv, StartedInv, Shows, IndicatorsShow
<1> QED
  BY <1>1, ClusterCorrect, PTL

\* A restart does to every relay what its start-up mode says of the relay as it was
\* when power failed, whatever commands, writes and failures of power came before.
THEOREM RestartsCorrect == Spec => RestartsAsConfigured
<1> DEFINE AsConfigured ==
             \A r \in Relays : StartUp(r) =>
               bank'.on[r] = AfterRestart(attrs'[r].startup_mode, was_on[r])
<1>1. ASSUME ClusterInv, NEW r \in Relays, StartUp(r)
      PROVE  bank'.on[r] = AfterRestart(attrs'[r].startup_mode, was_on[r])
  <2>1. /\ bank'.on[r] = AfterRestart(Loaded(nv[r]).startup_mode, was_on[r])
        /\ bank'.on[r] \in BOOLEAN
    BY <1>1, StartUpIs
  <2>2. /\ LoadedAttributes(r) = Loaded(nv[r]) /\ Loaded(nv[r]) \in Attributes
        /\ ClusterTypeOK
    BY <1>1, StoredIs DEF ClusterInv
  <2>3. attrs'[r] = Synced(r, LoadedAttributes(r), bank'.on[r])
    BY <1>1, <2>2 DEF StartUp, ClusterTypeOK
  <2>4. attrs'[r].startup_mode = Loaded(nv[r]).startup_mode
    BY <2>1, <2>2, <2>3, SyncedIs
  <2> QED
    BY <2>1, <2>4
<1>2. ClusterInv => [AsConfigured]_vars
  BY <1>1
<1>3. ClusterInv /\ [Next]_vars => [AsConfigured]_vars
  BY <1>2
<1> QED
  BY <1>3, ClusterCorrect, PTL DEF Spec, RestartsAsConfigured
=============================================================================
