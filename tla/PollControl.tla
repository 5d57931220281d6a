---------------------------- MODULE PollControl ----------------------------
(***************************************************************************)
(* The poll control cluster of an end device                               *)
(* (src/zigbee/poll_control_cluster.c): how often a sleepy device asks its *)
(* parent for messages.  It polls fast for a while after a restart, after  *)
(* any ZCL message and after each check-in, and slowly otherwise.          *)
(*                                                                         *)
(* A fast-poll window ends when app_task finds that the millisecond clock  *)
(* has passed fast_poll_end_ms.  The clock is a counter that wraps at      *)
(* ClockWrap; the arithmetic on it wraps at IntWrap, that is 2^32.         *)
(***************************************************************************)
EXTENDS Integers

CONSTANTS
  IntWrap,           \* 2^32
  ClockWrap,         \* hal_millis() counts modulo this
  MsPerQs,           \* QS_TO_MS: 250 milliseconds per quarter-second
  CheckInDefault,    \* the defaults of a battery device ...
  LongPollDefault,
  ShortPollDefault,
  MainsPollDefault,  \* ... and of another: long and short interval
  FastPollDefault,   \* the timeout of both
  MinLongPoll,       \* the bounds of a long poll interval, 4 and 0x6E0000
  MaxLongPoll,
  StackPollRate,     \* POLL_RATE, which the Telink stack callbacks set
  CheckIns,          \* values that messages may carry
  LongPolls,
  ShortPolls,
  Timeouts

Off == -1

\* (uint32_t)(qs) * 250
QsToMs(qs) == (qs * MsPerQs) % IntWrap

ASSUME PollAssumption ==
  /\ IntWrap \in Nat \ {0} /\ IntWrap % 2 = 0
  /\ ClockWrap \in 1 .. IntWrap /\ MsPerQs \in Nat \ {0}
  /\ {CheckInDefault, LongPollDefault, ShortPollDefault, MainsPollDefault,
      FastPollDefault, MinLongPoll, MaxLongPoll, StackPollRate} \subseteq Nat
  /\ CheckIns \cup LongPolls \cup ShortPolls \cup Timeouts \subseteq Nat
  /\ ShortPollDefault <= LongPollDefault /\ LongPollDefault <= CheckInDefault
  /\ MainsPollDefault <= CheckInDefault
  /\ \A t \in Timeouts \cup {FastPollDefault} : 2 * t * MsPerQs < IntWrap

VARIABLES
  is_battery,  \* the device has a battery: fixed by its configuration
  p,           \* the cluster, its task and the poll rate of the stack
  nv,          \* the stored intervals: {} before the first write
  clock,       \* hal_millis()
  looped       \* app_task has run since the clock advanced

vars == <<is_battery, p, nv, clock, looped>>

Intervals == [check_in_interval: Nat, long_poll_interval: Nat,
              short_poll_interval: Nat, fast_poll_timeout: Nat]

Stored(k) ==
  [check_in_interval |-> k.check_in_interval,
   long_poll_interval |-> k.long_poll_interval,
   short_poll_interval |-> k.short_poll_interval,
   fast_poll_timeout |-> k.fast_poll_timeout]

-----------------------------------------------------------------------------
(* Fast-poll mode.                                                         *)

ExpectedRate(k) ==
  QsToMs(IF k.in_fast_poll THEN k.short_poll_interval ELSE k.long_poll_interval)

\* Mutant of EnterFastPoll: the rate is left to poll_control_cluster_update.
EnterWithoutRate(k, timeout) ==
  LET t == IF timeout = 0 THEN k.fast_poll_timeout ELSE timeout
  IN  [k EXCEPT !.in_fast_poll = TRUE,
                !.fast_poll_end_ms = (clock + QsToMs(t)) % IntWrap]

EnterFastPoll(k, timeout) ==
  LET t == IF timeout = 0 THEN k.fast_poll_timeout ELSE timeout
  IN  [k EXCEPT !.in_fast_poll = TRUE,
                !.fast_poll_end_ms = (clock + QsToMs(t)) % IntWrap,
                !.rate = QsToMs(k.short_poll_interval)]

ExitFastPoll(k) ==
  [k EXCEPT !.in_fast_poll = FALSE, !.rate = QsToMs(k.long_poll_interval)]

OnZclActivity(k) == EnterFastPoll(k, k.fast_poll_timeout)

\* Mutant of Expired: the operands are compared instead of their difference.
ExpiredByOrder(k) == clock >= k.fast_poll_end_ms

\* (int32_t)(hal_millis() - fast_poll_end_ms) >= 0
Expired(k) == (clock - k.fast_poll_end_ms) % IntWrap < IntWrap \div 2

PollControlUpdate(k) ==
  LET u == IF k.in_fast_poll /\ Expired(k) THEN ExitFastPoll(k) ELSE k
  IN  [u EXCEPT !.rate = ExpectedRate(u)]

-----------------------------------------------------------------------------
(* Start-up and stored intervals.                                          *)

Valid(i) ==
  /\ i.check_in_interval = 0 \/ i.check_in_interval >= i.long_poll_interval
  /\ i.long_poll_interval >= i.short_poll_interval

Defaults ==
  [check_in_interval |-> CheckInDefault,
   long_poll_interval |-> IF is_battery THEN LongPollDefault ELSE MainsPollDefault,
   short_poll_interval |-> IF is_battery THEN ShortPollDefault ELSE MainsPollDefault,
   fast_poll_timeout |-> FastPollDefault]

\* Stored intervals that contradict each other are ignored.
Loaded == IF \E i \in nv : Valid(i) THEN CHOOSE i \in nv : Valid(i) ELSE Defaults

CheckInTimer(i) ==
  IF i.check_in_interval = 0 THEN Off ELSE QsToMs(i.check_in_interval)

\* poll_control_cluster_add_to_endpoint: start in fast poll.
AddToEndpoint(i) ==
  [check_in_interval |-> i.check_in_interval,
   long_poll_interval |-> i.long_poll_interval,
   short_poll_interval |-> i.short_poll_interval,
   fast_poll_timeout |-> i.fast_poll_timeout,
   in_fast_poll |-> TRUE,
   fast_poll_end_ms |-> QsToMs(i.fast_poll_timeout) % IntWrap,
   check_in_task |-> CheckInTimer(i),
   rate |-> QsToMs(i.short_poll_interval)]

-----------------------------------------------------------------------------
(* ZCL messages: each is activity before it is handled.                    *)

\* The main loop calls app_task after the callback.
Handle(k) == p' = k /\ looped' = FALSE /\ UNCHANGED <<is_battery, nv, clock>>
HandleAndStore(k) ==
  p' = k /\ nv' = {Stored(k)} /\ looped' = FALSE /\ UNCHANGED <<is_battery, clock>>

Active == OnZclActivity(p)

OtherMessage == Handle(Active)

CheckInRsp(start, timeout) ==
  Handle(IF start THEN EnterFastPoll(Active, timeout) ELSE ExitFastPoll(Active))

FastPollStop ==
  Handle(IF Active.in_fast_poll THEN ExitFastPoll(Active) ELSE Active)

\* Mutant of AcceptsLongPoll: the check-in interval is forgotten.
AcceptsAnyLongPoll(k, i) ==
  i >= MinLongPoll /\ i <= MaxLongPoll /\ i >= k.short_poll_interval

AcceptsLongPoll(k, i) ==
  /\ i >= MinLongPoll /\ i <= MaxLongPoll
  /\ k.check_in_interval = 0 \/ i <= k.check_in_interval
  /\ i >= k.short_poll_interval

AcceptsShortPoll(k, i) == i >= 1 /\ i <= k.long_poll_interval

\* An interval that is not accepted is answered with an error.
SetLongPoll(i) ==
  LET set == [Active EXCEPT !.long_poll_interval = i]
  IN  IF AcceptsLongPoll(Active, i)
      THEN HandleAndStore([set EXCEPT !.rate =
             IF set.in_fast_poll THEN set.rate ELSE QsToMs(i)])
      ELSE OtherMessage

SetShortPoll(i) ==
  LET set == [Active EXCEPT !.short_poll_interval = i]
  IN  IF AcceptsShortPoll(Active, i)
      THEN HandleAndStore([set EXCEPT !.rate =
             IF set.in_fast_poll THEN QsToMs(i) ELSE set.rate])
      ELSE OtherMessage

\* Mutant of CheckInWritten: a check-in timer of a disabled check-in runs on.
CheckInStillTimed(k, i) ==
  LET used == IF i # 0 /\ i < k.long_poll_interval THEN k.long_poll_interval ELSE i
      set == [k EXCEPT !.check_in_interval = used]
  IN  IF used = 0 THEN set ELSE [set EXCEPT !.check_in_task = CheckInTimer(set)]

\* A check-in interval shorter than the long poll interval is raised to it.
CheckInWritten(k, i) ==
  LET used == IF i # 0 /\ i < k.long_poll_interval THEN k.long_poll_interval ELSE i
      set == [k EXCEPT !.check_in_interval = used]
  IN  [set EXCEPT !.check_in_task = CheckInTimer(set)]

WriteCheckInInterval(i) == HandleAndStore(CheckInWritten(Active, i))

WriteFastPollTimeout(t) ==
  HandleAndStore([Active EXCEPT !.fast_poll_timeout = t])

Message ==
  \/ OtherMessage \/ FastPollStop
  \/ \E start \in BOOLEAN, t \in Timeouts : CheckInRsp(start, t)
  \/ \E i \in LongPolls : SetLongPoll(i)
  \/ \E i \in ShortPolls : SetShortPoll(i)
  \/ \E i \in CheckIns : WriteCheckInInterval(i)
  \/ \E t \in Timeouts : WriteFastPollTimeout(t)

-----------------------------------------------------------------------------
(* Tasks, time and power loss.                                             *)

\* check_in_handler sends the check-in and schedules the next.
CheckInTask ==
  /\ p.check_in_task = 0
  /\ Handle(IF p.check_in_interval = 0 THEN [p EXCEPT !.check_in_task = Off]
            ELSE [EnterFastPoll(p, p.fast_poll_timeout)
                    EXCEPT !.check_in_task = CheckInTimer(p)])

\* app_task.
Update ==
  p' = PollControlUpdate(p) /\ looped' = TRUE /\ UNCHANGED <<is_battery, nv, clock>>

\* The commissioning callbacks of the Telink stack set a poll rate of their own.
StackSetsPollRate == Handle([p EXCEPT !.rate = StackPollRate])

CountDown(t) == IF t = Off THEN Off ELSE t - 1

Tick ==
  /\ looped /\ p.check_in_task # 0
  /\ clock' = (clock + 1) % ClockWrap
  /\ p' = [p EXCEPT !.check_in_task = CountDown(@)]
  /\ looped' = FALSE
  /\ UNCHANGED <<is_battery, nv>>

Reboot ==
  /\ clock' = 0 /\ looped' = FALSE
  /\ p' = AddToEndpoint(Loaded)
  /\ UNCHANGED <<is_battery, nv>>

Init ==
  /\ is_battery \in BOOLEAN
  /\ nv = {} /\ clock = 0 /\ looped = FALSE
  /\ p = AddToEndpoint(Defaults)

Next ==
  \/ Message \/ CheckInTask \/ Update \/ StackSetsPollRate \/ Tick \/ Reboot

\* The main loop keeps running app_task and due tasks; time keeps passing.
Fairness == WF_vars(CheckInTask) /\ WF_vars(Update) /\ WF_vars(Tick)

Spec == Init /\ [][Next]_vars
FairSpec == Spec /\ Fairness

-----------------------------------------------------------------------------
(* Properties.                                                             *)

ClusterState ==
  [check_in_interval: Nat, long_poll_interval: Nat, short_poll_interval: Nat,
   fast_poll_timeout: Nat, in_fast_poll: BOOLEAN,
   fast_poll_end_ms: 0 .. IntWrap - 1, check_in_task: {Off} \cup Nat, rate: Nat]

\* Intervals, clock and rate keep values the firmware can represent.
TypeOK ==
  /\ is_battery \in BOOLEAN /\ p \in ClusterState /\ nv \in SUBSET Intervals
  /\ clock \in 0 .. ClockWrap - 1 /\ looped \in BOOLEAN

\* A restart resumes the intervals in force: no sequence of accepted commands and
\* attribute writes stores intervals that poll_control_load_from_nv would reject,
\* or leaves stored intervals behind those in use.
RestartKeepsIntervals == Loaded = Stored(p)

\* Every handler leaves the stack polling at the rate of the mode the cluster is
\* in; only a commissioning callback can disturb it, until app_task runs again.
RateFollowsMode ==
  \/ p.rate = ExpectedRate(p)
  \/ p.rate = StackPollRate /\ ~looped

\* Check-ins are timed exactly while they are enabled, through every rewrite of
\* the interval, and never later than the interval allows.
CheckInTimed ==
  /\ p.check_in_interval = 0 <=> p.check_in_task = Off
  /\ p.check_in_task <= QsToMs(p.check_in_interval)

\* What is left until fast_poll_end_ms, which is less than half a turn ahead.
Ahead == (p.fast_poll_end_ms - clock) % IntWrap
Remaining == IF p.in_fast_poll /\ Ahead < IntWrap \div 2 THEN Ahead ELSE 0

Window == INSTANCE FastPollWindow
  WITH fast <- p.in_fast_poll, left <- Remaining, idle <- looped,
       Windows <- {QsToMs(t) : t \in Timeouts \cup {FastPollDefault}}

\* Fast polling lasts exactly as long as it was last asked to, across the wrap of
\* the clock and the retargeting of fast_poll_end_ms by later messages.
FastPollTimed == Window!WindowSpec

\* "Mark as in fast poll so we transition to long poll after timeout" (line 309):
\* a device that nobody talks to any more goes back to slow polling.
Disturbed == Message \/ CheckInTask \/ StackSetsPollRate \/ Reboot

FastPollEnds == ([]<><<Disturbed>>_vars) \/ <>[](~p.in_fast_poll)
=============================================================================
