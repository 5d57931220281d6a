------------------------- MODULE PollControl_proofs -------------------------
(***************************************************************************)
(* Safety of the poll control cluster for every default, bound and message *)
(* argument, and wherever the clock wraps: a restart resumes the intervals *)
(* in force, the poll rate follows the mode, check-ins are timed exactly   *)
(* while they are enabled.                                                 *)
(***************************************************************************)
EXTENDS PollControl, TLAPS

\* A remainder is a natural number below the divisor.
LEMMA ModRange ==
  ASSUME NEW m \in Nat, NEW n \in Nat, n > 0
  PROVE  m % n \in 0 .. n - 1
OBVIOUS

\* A duration in milliseconds is a 32-bit value.
LEMMA MsRange ==
  ASSUME NEW q \in Nat
  PROVE  QsToMs(q) \in 0 .. IntWrap - 1
<1>1. q * MsPerQs \in Nat
  BY PollAssumption
<1> QED
  BY <1>1, ModRange, PollAssumption DEF QsToMs

\* What the handlers preserve of one cluster state, but for its poll rate.
Sound(k) ==
  /\ k \in ClusterState
  /\ Valid(Stored(k))
  /\ k.check_in_interval = 0 <=> k.check_in_task = Off
  /\ k.check_in_task <= QsToMs(k.check_in_interval)

InRate(k) == k.rate = ExpectedRate(k)

\* The stored intervals are the ones in force, the defaults if none are stored.
Saved(k, store) == store = {Stored(k)} \/ (store = {} /\ Stored(k) = Defaults)

IInv ==
  /\ is_battery \in BOOLEAN /\ clock \in 0 .. ClockWrap - 1 /\ looped \in BOOLEAN
  /\ Sound(p)
  /\ InRate(p) \/ (p.rate = StackPollRate /\ ~looped)
  /\ Saved(p, nv)

\* Entering fast poll sets the rate and touches no interval and no timer.
LEMMA EnterSound ==
  ASSUME NEW k, Sound(k), NEW t \in Nat, clock \in Nat
  PROVE  LET e == EnterFastPoll(k, t)
         IN  /\ Sound(e) /\ InRate(e) /\ Stored(e) = Stored(k)
             /\ e.check_in_interval = k.check_in_interval
             /\ e.check_in_task = k.check_in_task
             /\ e.long_poll_interval = k.long_poll_interval
             /\ e.in_fast_poll
<1> DEFINE e == EnterFastPoll(k, t)
           used == IF t = 0 THEN k.fast_poll_timeout ELSE t
<1>1. k \in ClusterState
  BY DEF Sound
<1>2. used \in Nat
  BY <1>1 DEF ClusterState
<1>3. clock + QsToMs(used) \in Nat
  BY <1>2, MsRange, PollAssumption
<1>4. (clock + QsToMs(used)) % IntWrap \in 0 .. IntWrap - 1
  BY <1>3, ModRange, PollAssumption
<1>5. QsToMs(k.short_poll_interval) \in Nat
  BY <1>1, MsRange, PollAssumption DEF ClusterState
<1> HIDE DEF used
<1>6. e = [k EXCEPT !.in_fast_poll = TRUE,
                    !.fast_poll_end_ms = (clock + QsToMs(used)) % IntWrap,
                    !.rate = QsToMs(k.short_poll_interval)]
  BY DEF EnterFastPoll, used
<1>7. e \in ClusterState
  BY <1>1, <1>4, <1>5, <1>6 DEF ClusterState
<1>8. /\ e.check_in_interval = k.check_in_interval /\ e.check_in_task = k.check_in_task
      /\ e.long_poll_interval = k.long_poll_interval
      /\ e.short_poll_interval = k.short_poll_interval
      /\ e.fast_poll_timeout = k.fast_poll_timeout
      /\ e.in_fast_poll /\ e.rate = QsToMs(k.short_poll_interval)
  BY <1>1, <1>6 DEF ClusterState
<1>9. Stored(e) = Stored(k)
  BY <1>8 DEF Stored
<1> HIDE DEF e
<1> QED
  BY <1>7, <1>8, <1>9 DEF Sound, InRate, ExpectedRate, e

\* Leaving fast poll likewise.
LEMMA ExitSound ==
  ASSUME NEW k, Sound(k)
  PROVE  /\ Sound(ExitFastPoll(k)) /\ InRate(ExitFastPoll(k))
         /\ Stored(ExitFastPoll(k)) = Stored(k)
<1> DEFINE e == ExitFastPoll(k)
<1>1. k \in ClusterState
  BY DEF Sound
<1>2. QsToMs(k.long_poll_interval) \in Nat
  BY <1>1, MsRange, PollAssumption DEF ClusterState
<1>3. e \in ClusterState
  BY <1>1, <1>2 DEF ClusterState, ExitFastPoll
<1>4. /\ e.check_in_interval = k.check_in_interval /\ e.check_in_task = k.check_in_task
      /\ e.long_poll_interval = k.long_poll_interval
      /\ e.short_poll_interval = k.short_poll_interval
      /\ e.fast_poll_timeout = k.fast_poll_timeout
      /\ ~e.in_fast_poll /\ e.rate = QsToMs(k.long_poll_interval)
  BY <1>1 DEF ClusterState, ExitFastPoll
<1>5. Stored(e) = Stored(k)
  BY <1>4 DEF Stored
<1> HIDE DEF e
<1>6. Sound(e) /\ InRate(e)
  BY <1>3, <1>4, <1>5 DEF Sound, InRate, ExpectedRate
<1> QED
  BY <1>5, <1>6 DEF e

\* poll_control_cluster_update sets the rate right, whatever it was.
LEMMA UpdateSound ==
  ASSUME NEW k, Sound(k)
  PROVE  /\ Sound(PollControlUpdate(k)) /\ InRate(PollControlUpdate(k))
         /\ Stored(PollControlUpdate(k)) = Stored(k)
<1> DEFINE u == IF k.in_fast_poll /\ Expired(k) THEN ExitFastPoll(k) ELSE k
           v == [u EXCEPT !.rate = ExpectedRate(u)]
<1>1. Sound(u) /\ Stored(u) = Stored(k)
  BY ExitSound
<1> HIDE DEF u
<1>2. u \in ClusterState
  BY <1>1 DEF Sound
<1>3. ExpectedRate(u) \in Nat
  BY <1>2, MsRange, PollAssumption DEF ClusterState, ExpectedRate
<1>4. v \in ClusterState
  BY <1>2, <1>3 DEF ClusterState
<1>5. /\ v.check_in_interval = u.check_in_interval /\ v.check_in_task = u.check_in_task
      /\ v.long_poll_interval = u.long_poll_interval
      /\ v.short_poll_interval = u.short_poll_interval
      /\ v.fast_poll_timeout = u.fast_poll_timeout
      /\ v.in_fast_poll = u.in_fast_poll /\ v.rate = ExpectedRate(u)
  BY <1>2 DEF ClusterState
<1>6. Stored(v) = Stored(u)
  BY <1>5 DEF Stored
<1>7. ExpectedRate(v) = ExpectedRate(u)
  BY <1>5 DEF ExpectedRate
<1>8. PollControlUpdate(k) = v
  BY DEF PollControlUpdate, u
<1> HIDE DEF v
<1> QED
  BY <1>1, <1>4, <1>5, <1>6, <1>7, <1>8 DEF Sound, InRate

\* The timer of a check-in interval is set exactly when the interval is not zero.
LEMMA CheckInTimerRange ==
  ASSUME NEW i, i.check_in_interval \in Nat
  PROVE  /\ CheckInTimer(i) \in {Off} \cup Nat
         /\ i.check_in_interval = 0 <=> CheckInTimer(i) = Off
         /\ CheckInTimer(i) <= QsToMs(i.check_in_interval)
BY MsRange, PollAssumption DEF CheckInTimer, Off

\* The intervals a device starts from are consistent.
LEMMA DefaultsValid ==
  ASSUME is_battery \in BOOLEAN
  PROVE  Defaults \in Intervals /\ Valid(Defaults)
BY PollAssumption DEF Defaults, Intervals, Valid

\* A device starts in fast poll, with consistent intervals.
LEMMA AddToEndpointSound ==
  ASSUME NEW i \in Intervals, Valid(i)
  PROVE  /\ Sound(AddToEndpoint(i)) /\ InRate(AddToEndpoint(i))
         /\ Stored(AddToEndpoint(i)) = i
<1> DEFINE e == AddToEndpoint(i)
<1>1. /\ i.check_in_interval \in Nat /\ i.long_poll_interval \in Nat
      /\ i.short_poll_interval \in Nat /\ i.fast_poll_timeout \in Nat
  BY DEF Intervals
<1>2. /\ QsToMs(i.short_poll_interval) \in Nat /\ QsToMs(i.fast_poll_timeout) \in Nat
  BY <1>1, MsRange, PollAssumption
<1>3. QsToMs(i.fast_poll_timeout) % IntWrap \in 0 .. IntWrap - 1
  BY <1>2, ModRange, PollAssumption
<1>4. e \in ClusterState
  BY <1>1, <1>2, <1>3, CheckInTimerRange DEF AddToEndpoint, ClusterState
<1>5. /\ e.check_in_interval = i.check_in_interval /\ e.check_in_task = CheckInTimer(i)
      /\ e.long_poll_interval = i.long_poll_interval
      /\ e.short_poll_interval = i.short_poll_interval
      /\ e.fast_poll_timeout = i.fast_poll_timeout
      /\ e.in_fast_poll /\ e.rate = QsToMs(i.short_poll_interval)
  BY DEF AddToEndpoint
<1> HIDE DEF e
<1>6. Stored(e) = i
  BY <1>5 DEF Stored, Intervals
<1>7. Sound(e) /\ InRate(e)
  BY <1>1, <1>4, <1>5, <1>6, CheckInTimerRange DEF Sound, InRate, ExpectedRate
<1> QED
  BY <1>6, <1>7 DEF e

\* Saved intervals are the ones a restart loads.
LEMMA SavedIsLoaded ==
  ASSUME NEW k, Sound(k), Saved(k, nv), is_battery \in BOOLEAN
  PROVE  Loaded = Stored(k)
<1>1. Valid(Stored(k))
  BY DEF Sound
<1>2. CASE nv = {Stored(k)}
  BY <1>1, <1>2 DEF Loaded
<1>3. CASE nv = {} /\ Stored(k) = Defaults
  BY <1>3 DEF Loaded
<1> QED
  BY <1>2, <1>3 DEF Saved

\* The intervals of a sound state.
LEMMA StoredType ==
  ASSUME NEW k, Sound(k)
  PROVE  Stored(k) \in Intervals /\ Valid(Stored(k))
BY DEF Sound, ClusterState, Stored, Intervals

-----------------------------------------------------------------------------
(* The steps.                                                              *)

\* A message first opens a fast-poll window; what its handler then relies on.
LEMMA ActiveSound ==
  ASSUME IInv
  PROVE  /\ Sound(Active) /\ InRate(Active) /\ Stored(Active) = Stored(p)
         /\ Active.in_fast_poll
<1>1. Sound(p) /\ p.fast_poll_timeout \in Nat /\ clock \in Nat
  BY PollAssumption DEF IInv, Sound, ClusterState
<1> QED
  BY <1>1, EnterSound DEF Active, OnZclActivity

\* A callback that changes no interval.
LEMMA HandleInv ==
  ASSUME IInv, NEW k, Sound(k), InRate(k), Stored(k) = Stored(p), Handle(k)
  PROVE  IInv'
<1>1. p' = k /\ nv' = nv /\ is_battery' = is_battery /\ clock' = clock /\ looped' = FALSE
  BY DEF Handle
<1>2. Saved(k, nv)
  BY DEF IInv, Saved
<1> QED
  BY <1>1, <1>2 DEF IInv, Sound, InRate, Saved, Valid, Stored, ExpectedRate, QsToMs,
                    ClusterState, Defaults

\* A callback that stores the intervals it has changed.
LEMMA StoreInv ==
  ASSUME IInv, NEW k, Sound(k), InRate(k), HandleAndStore(k)
  PROVE  IInv'
<1>1. /\ p' = k /\ nv' = {Stored(k)} /\ is_battery' = is_battery
      /\ clock' = clock /\ looped' = FALSE
  BY DEF HandleAndStore
<1> QED
  BY <1>1 DEF IInv, Sound, InRate, Saved, Valid, Stored, ExpectedRate, QsToMs,
              ClusterState

\* An accepted long poll interval keeps the order of the intervals.
LEMMA SetLongPollInv ==
  ASSUME IInv, NEW i \in LongPolls, SetLongPoll(i)
  PROVE  IInv'
<1> DEFINE a == Active
           s == [a EXCEPT !.long_poll_interval = i, !.rate = a.rate]
<1>1. /\ Sound(a) /\ InRate(a) /\ Stored(a) = Stored(p) /\ a.in_fast_poll
      /\ i \in Nat /\ a \in ClusterState
  BY ActiveSound, PollAssumption DEF Sound
<1>2. CASE AcceptsLongPoll(a, i)
  <2>1. HandleAndStore([[a EXCEPT !.long_poll_interval = i] EXCEPT !.rate =
          IF [a EXCEPT !.long_poll_interval = i].in_fast_poll
          THEN [a EXCEPT !.long_poll_interval = i].rate ELSE QsToMs(i)])
    BY <1>2 DEF SetLongPoll
  <2> HIDE DEF a
  <2>2. HandleAndStore(s)
    BY <2>1, <1>1 DEF ClusterState
  <2>3. /\ s \in ClusterState
        /\ s.check_in_interval = a.check_in_interval /\ s.check_in_task = a.check_in_task
        /\ s.long_poll_interval = i /\ s.short_poll_interval = a.short_poll_interval
        /\ s.in_fast_poll /\ s.rate = a.rate
    BY <1>1 DEF ClusterState
  <2> HIDE DEF s
  <2>4. Valid(Stored(s))
    BY <1>1, <1>2, <2>3 DEF Valid, Stored, AcceptsLongPoll, ClusterState
  <2>5. Sound(s) /\ InRate(s)
    BY <1>1, <2>3, <2>4 DEF Sound, InRate, ExpectedRate
  <2> QED
    BY <2>2, <2>5, StoreInv
<1>3. CASE ~AcceptsLongPoll(a, i)
  <2>1. Handle(a)
    BY <1>3 DEF SetLongPoll, OtherMessage
  <2> QED
    BY <2>1, <1>1, HandleInv
<1> QED
  BY <1>2, <1>3

\* So does an accepted short poll interval, whose rate is in use at once.
LEMMA SetShortPollInv ==
  ASSUME IInv, NEW i \in ShortPolls, SetShortPoll(i)
  PROVE  IInv'
<1> DEFINE a == Active
           s == [a EXCEPT !.short_poll_interval = i, !.rate = QsToMs(i)]
<1>1. /\ Sound(a) /\ InRate(a) /\ Stored(a) = Stored(p) /\ a.in_fast_poll
      /\ i \in Nat /\ a \in ClusterState /\ QsToMs(i) \in Nat
  BY ActiveSound, MsRange, PollAssumption DEF Sound
<1>2. CASE AcceptsShortPoll(a, i)
  <2>1. HandleAndStore([[a EXCEPT !.short_poll_interval = i] EXCEPT !.rate =
          IF [a EXCEPT !.short_poll_interval = i].in_fast_poll
          THEN QsToMs(i) ELSE [a EXCEPT !.short_poll_interval = i].rate])
    BY <1>2 DEF SetShortPoll
  <2> HIDE DEF a
  <2>2. HandleAndStore(s)
    BY <2>1, <1>1 DEF ClusterState
  <2>3. /\ s \in ClusterState
        /\ s.check_in_interval = a.check_in_interval /\ s.check_in_task = a.check_in_task
        /\ s.short_poll_interval = i /\ s.long_poll_interval = a.long_poll_interval
        /\ s.in_fast_poll /\ s.rate = QsToMs(i)
    BY <1>1 DEF ClusterState
  <2> HIDE DEF s
  <2>4. Valid(Stored(s))
    BY <1>1, <1>2, <2>3 DEF Sound, Valid, Stored, AcceptsShortPoll, ClusterState
  <2>5. Sound(s) /\ InRate(s)
    BY <1>1, <2>3, <2>4 DEF Sound, InRate, ExpectedRate
  <2> QED
    BY <2>2, <2>5, StoreInv
<1>3. CASE ~AcceptsShortPoll(a, i)
  <2>1. Handle(a)
    BY <1>3 DEF SetShortPoll, OtherMessage
  <2> QED
    BY <2>1, <1>1, HandleInv
<1> QED
  BY <1>2, <1>3

\* A check-in interval is raised to the long poll interval if it must be, and timed.
LEMMA WriteCheckInInv ==
  ASSUME IInv, NEW i \in CheckIns, WriteCheckInInterval(i)
  PROVE  IInv'
<1> DEFINE a == Active
           used == IF i # 0 /\ i < a.long_poll_interval THEN a.long_poll_interval ELSE i
           b == [a EXCEPT !.check_in_interval = used]
           s == [b EXCEPT !.check_in_task = CheckInTimer(b)]
<1>1. /\ Sound(a) /\ InRate(a) /\ i \in Nat /\ a \in ClusterState
  BY ActiveSound, PollAssumption DEF Sound
<1>2. HandleAndStore(s)
  BY DEF WriteCheckInInterval, CheckInWritten
<1>3. used \in Nat /\ (used = 0 \/ used >= a.long_poll_interval)
  BY <1>1 DEF ClusterState
<1> HIDE DEF a, used
<1>4. /\ b \in ClusterState /\ b.check_in_interval = used
      /\ b.long_poll_interval = a.long_poll_interval
      /\ b.short_poll_interval = a.short_poll_interval
      /\ b.in_fast_poll = a.in_fast_poll /\ b.rate = a.rate
  BY <1>1, <1>3 DEF ClusterState
<1> HIDE DEF b
<1>5. /\ CheckInTimer(b) \in {Off} \cup Nat
      /\ used = 0 <=> CheckInTimer(b) = Off
      /\ CheckInTimer(b) <= QsToMs(used)
  BY <1>3, <1>4, CheckInTimerRange
<1>6. /\ s \in ClusterState /\ s.check_in_interval = used
      /\ s.check_in_task = CheckInTimer(b)
      /\ s.long_poll_interval = a.long_poll_interval
      /\ s.short_poll_interval = a.short_poll_interval
      /\ s.in_fast_poll = a.in_fast_poll /\ s.rate = a.rate
  BY <1>4, <1>5 DEF ClusterState
<1> HIDE DEF s
<1>7. Valid(Stored(s))
  BY <1>1, <1>3, <1>6 DEF Sound, Valid, Stored, ClusterState
<1>8. Sound(s) /\ InRate(s)
  BY <1>1, <1>5, <1>6, <1>7 DEF Sound, InRate, ExpectedRate
<1> QED
  BY <1>2, <1>8, StoreInv

\* The fast-poll timeout is not ordered with the intervals.
LEMMA WriteTimeoutInv ==
  ASSUME IInv, NEW t \in Timeouts, WriteFastPollTimeout(t)
  PROVE  IInv'
<1> DEFINE a == Active
           s == [a EXCEPT !.fast_poll_timeout = t]
<1>1. Sound(a) /\ InRate(a) /\ t \in Nat /\ a \in ClusterState
  BY ActiveSound, PollAssumption DEF Sound
<1>2. HandleAndStore(s)
  BY DEF WriteFastPollTimeout
<1> HIDE DEF a
<1>3. /\ s \in ClusterState /\ s.check_in_interval = a.check_in_interval
      /\ s.check_in_task = a.check_in_task
      /\ s.long_poll_interval = a.long_poll_interval
      /\ s.short_poll_interval = a.short_poll_interval
      /\ s.in_fast_poll = a.in_fast_poll /\ s.rate = a.rate
  BY <1>1 DEF ClusterState
<1> HIDE DEF s
<1>4. Sound(s) /\ InRate(s)
  BY <1>1, <1>3 DEF Sound, InRate, ExpectedRate, Valid, Stored
<1> QED
  BY <1>2, <1>4, StoreInv

LEMMA MessageInv == IInv /\ Message => IInv'
<1> SUFFICES ASSUME IInv, Message PROVE IInv'
  OBVIOUS
<1>1. CASE OtherMessage
  BY <1>1, ActiveSound, HandleInv DEF OtherMessage
<1>2. CASE FastPollStop
  <2>1. Handle(ExitFastPoll(Active))
    BY <1>2, ActiveSound DEF FastPollStop
  <2> QED
    BY <2>1, ActiveSound, ExitSound, HandleInv
<1>3. ASSUME NEW start \in BOOLEAN, NEW t \in Timeouts, CheckInRsp(start, t)
      PROVE  IInv'
  <2>1. t \in Nat /\ clock \in Nat
    BY PollAssumption DEF IInv
  <2>2. CASE start
    <3>1. Handle(EnterFastPoll(Active, t))
      BY <1>3, <2>2 DEF CheckInRsp
    <3> QED
      BY <3>1, <2>1, ActiveSound, EnterSound, HandleInv
  <2>3. CASE ~start
    <3>1. Handle(ExitFastPoll(Active))
      BY <1>3, <2>3 DEF CheckInRsp
    <3> QED
      BY <3>1, ActiveSound, ExitSound, HandleInv
  <2> QED
    BY <2>2, <2>3
<1> QED
  BY <1>1, <1>2, <1>3, SetLongPollInv, SetShortPollInv, WriteCheckInInv, WriteTimeoutInv
     DEF Message

\* A check-in schedules the next one.
LEMMA CheckInTaskInv == IInv /\ CheckInTask => IInv'
<1> SUFFICES ASSUME IInv, CheckInTask PROVE IInv'
  OBVIOUS
<1> DEFINE e == EnterFastPoll(p, p.fast_poll_timeout)
           s == [e EXCEPT !.check_in_task = CheckInTimer(p)]
<1>1. /\ Sound(p) /\ p.fast_poll_timeout \in Nat /\ clock \in Nat
      /\ p.check_in_interval \in Nat /\ p.check_in_interval # 0
  BY PollAssumption DEF IInv, Sound, ClusterState, CheckInTask, Off
<1>2. Handle(s)
  BY <1>1 DEF CheckInTask
<1>3. /\ Sound(e) /\ InRate(e) /\ Stored(e) = Stored(p)
      /\ e.check_in_interval = p.check_in_interval
  BY <1>1, EnterSound
<1>4. /\ CheckInTimer(p) \in {Off} \cup Nat /\ CheckInTimer(p) # Off
      /\ CheckInTimer(p) <= QsToMs(p.check_in_interval)
  BY <1>1, CheckInTimerRange
<1> HIDE DEF e
<1>5. e \in ClusterState
  BY <1>3 DEF Sound
<1>6. /\ s \in ClusterState /\ s.check_in_interval = e.check_in_interval
      /\ s.check_in_task = CheckInTimer(p)
      /\ s.long_poll_interval = e.long_poll_interval
      /\ s.short_poll_interval = e.short_poll_interval
      /\ s.fast_poll_timeout = e.fast_poll_timeout
      /\ s.in_fast_poll = e.in_fast_poll /\ s.rate = e.rate
  BY <1>4, <1>5 DEF ClusterState
<1> HIDE DEF s
<1>7. Stored(s) = Stored(p)
  BY <1>3, <1>6 DEF Stored
<1>8. Sound(s) /\ InRate(s)
  BY <1>1, <1>3, <1>4, <1>6, <1>7 DEF Sound, InRate, ExpectedRate
<1> QED
  BY <1>2, <1>7, <1>8, HandleInv

\* Time passes: the timer runs down, the clock wraps.
LEMMA TickInv == IInv /\ Tick => IInv'
<1> SUFFICES ASSUME IInv, Tick PROVE IInv'
  OBVIOUS
<1> DEFINE d == CountDown(p.check_in_task)
<1>1. /\ p \in ClusterState /\ Sound(p) /\ looped /\ InRate(p) /\ Saved(p, nv)
      /\ p.check_in_task \in {Off} \cup Nat /\ p.check_in_task # 0
      /\ p.check_in_interval \in Nat
  BY DEF IInv, Sound, ClusterState, Tick
<1>2. d \in {Off} \cup Nat /\ (d = Off <=> p.check_in_task = Off) /\ d <= p.check_in_task
  BY <1>1 DEF CountDown, Off
<1>3. d <= QsToMs(p.check_in_interval)
  BY <1>1, <1>2, MsRange, PollAssumption DEF Sound, Off
<1>4. /\ p' = [p EXCEPT !.check_in_task = d] /\ looped' = FALSE
      /\ nv' = nv /\ is_battery' = is_battery /\ clock' = (clock + 1) % ClockWrap
  BY DEF Tick
<1>5. clock' \in 0 .. ClockWrap - 1
  BY <1>4, ModRange, PollAssumption DEF IInv
<1> HIDE DEF d
<1>6. /\ p' \in ClusterState /\ p'.check_in_interval = p.check_in_interval
      /\ p'.check_in_task = d /\ p'.long_poll_interval = p.long_poll_interval
      /\ p'.short_poll_interval = p.short_poll_interval
      /\ p'.fast_poll_timeout = p.fast_poll_timeout
      /\ p'.in_fast_poll = p.in_fast_poll /\ p'.rate = p.rate
  BY <1>1, <1>2, <1>4 DEF ClusterState
<1>7. Stored(p)' = Stored(p)
  BY <1>6 DEF Stored
<1>8. Sound(p)' /\ InRate(p)'
  BY <1>1, <1>2, <1>3, <1>6, <1>7
     DEF Sound, InRate, ExpectedRate, QsToMs, Valid, ClusterState
<1>9. Saved(p, nv)'
  BY <1>1, <1>4, <1>7 DEF Saved, Defaults
<1> QED
  BY <1>4, <1>5, <1>8, <1>9 DEF IInv

\* A restart loads what was saved.
LEMMA RebootInv == IInv /\ Reboot => IInv'
<1> SUFFICES ASSUME IInv, Reboot PROVE IInv'
  OBVIOUS
<1> DEFINE e == AddToEndpoint(Loaded)
<1>1. Loaded = Stored(p) /\ Stored(p) \in Intervals /\ Valid(Stored(p))
  BY SavedIsLoaded, StoredType DEF IInv
<1>2. Sound(e) /\ InRate(e) /\ Stored(e) = Stored(p)
  BY <1>1, AddToEndpointSound
<1>3. /\ p' = e /\ nv' = nv /\ is_battery' = is_battery
      /\ clock' = 0 /\ looped' = FALSE
  BY DEF Reboot
<1> HIDE DEF e
<1>4. Saved(e, nv)
  BY <1>2 DEF IInv, Saved
<1>5. 0 \in 0 .. ClockWrap - 1
  BY PollAssumption
<1> QED
  BY <1>2, <1>3, <1>4, <1>5 DEF IInv, Sound, InRate, Saved, Valid, Stored,
       ExpectedRate, QsToMs, ClusterState, Defaults

\* app_task puts the rate right; a commissioning callback may have changed it.
LEMMA UpdateInv == IInv /\ Update => IInv'
<1> SUFFICES ASSUME IInv, Update PROVE IInv'
  OBVIOUS
<1> DEFINE u == PollControlUpdate(p)
<1>1. Sound(u) /\ InRate(u) /\ Stored(u) = Stored(p)
  BY UpdateSound DEF IInv
<1>2. /\ p' = u /\ nv' = nv /\ is_battery' = is_battery
      /\ clock' = clock /\ looped' = TRUE
  BY DEF Update
<1> HIDE DEF u
<1>3. Saved(u, nv)
  BY <1>1 DEF IInv, Saved
<1> QED
  BY <1>1, <1>2, <1>3 DEF IInv, Sound, InRate, Saved, Valid, Stored,
       ExpectedRate, QsToMs, ClusterState, Defaults

LEMMA StackInv == IInv /\ StackSetsPollRate => IInv'
<1> SUFFICES ASSUME IInv, StackSetsPollRate PROVE IInv'
  OBVIOUS
<1>1. /\ p' = [p EXCEPT !.rate = StackPollRate] /\ looped' = FALSE
      /\ nv' = nv /\ is_battery' = is_battery /\ clock' = clock
  BY DEF StackSetsPollRate, Handle
<1>2. p \in ClusterState /\ StackPollRate \in Nat
  BY PollAssumption DEF IInv, Sound
<1>3. /\ p' \in ClusterState /\ p'.check_in_interval = p.check_in_interval
      /\ p'.check_in_task = p.check_in_task
      /\ p'.long_poll_interval = p.long_poll_interval
      /\ p'.short_poll_interval = p.short_poll_interval
      /\ p'.fast_poll_timeout = p.fast_poll_timeout /\ p'.rate = StackPollRate
  BY <1>1, <1>2 DEF ClusterState
<1>4. Stored(p)' = Stored(p)
  BY <1>3 DEF Stored
<1>5. Sound(p)'
  BY <1>3, <1>4 DEF IInv, Sound, QsToMs, Valid
<1>6. Saved(p, nv)'
  BY <1>1, <1>4 DEF IInv, Saved, Defaults
<1> QED
  BY <1>1, <1>3, <1>5, <1>6 DEF IInv

LEMMA InitInv == Init => IInv
<1> SUFFICES ASSUME Init PROVE IInv
  OBVIOUS
<1>1. Defaults \in Intervals /\ Valid(Defaults)
  BY DefaultsValid DEF Init
<1>2. Sound(p) /\ InRate(p) /\ Stored(p) = Defaults
  BY <1>1, AddToEndpointSound DEF Init
<1>3. 0 \in 0 .. ClockWrap - 1
  BY PollAssumption
<1> QED
  BY <1>2, <1>3 DEF Init, IInv, Saved

LEMMA NextInv == IInv /\ [Next]_vars => IInv'
<1>1. IInv /\ UNCHANGED vars => IInv'
  BY DEF IInv, vars, Sound, InRate, Saved, Valid, Stored, ExpectedRate, QsToMs,
         ClusterState, Defaults
<1> QED
  BY <1>1, MessageInv, CheckInTaskInv, UpdateInv, StackInv, TickInv, RebootInv DEF Next

-----------------------------------------------------------------------------
(* The theorems.                                                           *)

\* The inductive invariant.
THEOREM InvariantCorrect == Spec => []IInv
<1> QED
  BY InitInv, NextInv, PTL DEF Spec

\* Intervals, clock and rate always keep values the firmware can represent.
THEOREM TypeCorrect == Spec => []TypeOK
<1>1. IInv => TypeOK
  <2> SUFFICES ASSUME IInv PROVE TypeOK
    OBVIOUS
  <2>1. Stored(p) \in Intervals
    BY StoredType DEF IInv
  <2>2. nv \in SUBSET Intervals
    BY <2>1 DEF IInv, Saved
  <2> QED
    BY <2>2 DEF IInv, TypeOK, Sound
<1> QED
  BY <1>1, InvariantCorrect, PTL

\* A restart at any instant resumes the intervals that are in force.
THEOREM RestartCorrect == Spec => []RestartKeepsIntervals
<1>1. IInv => RestartKeepsIntervals
  BY SavedIsLoaded DEF IInv, RestartKeepsIntervals
<1> QED
  BY <1>1, InvariantCorrect, PTL

\* The stack polls at the rate of the mode, or is about to be put right by app_task.
THEOREM RateCorrect == Spec => []RateFollowsMode
<1>1. IInv => RateFollowsMode
  BY DEF IInv, InRate, RateFollowsMode
<1> QED
  BY <1>1, InvariantCorrect, PTL

\* Check-ins are timed exactly while they are enabled.
THEOREM CheckInCorrect == Spec => []CheckInTimed
<1>1. IInv => CheckInTimed
  BY DEF IInv, Sound, CheckInTimed
<1> QED
  BY <1>1, InvariantCorrect, PTL

-----------------------------------------------------------------------------
(* The fast-poll window, for a clock that wraps where the arithmetic does. *)

\* The arithmetic of the clock.
LEMMA ModTurn ==
  ASSUME NEW n \in Nat, n > 0
  PROVE  /\ \A x \in 0 .. n - 1 : x % n = x
         /\ \A x \in n .. 2 * n - 1 : x % n = x - n
         /\ \A x \in -n .. -1 : x % n = x + n
<1>1. ASSUME NEW x \in 0 .. n - 1 PROVE x % n = x
  OBVIOUS
<1>2. ASSUME NEW x \in n .. 2 * n - 1 PROVE x % n = x - n
  OBVIOUS
<1>3. ASSUME NEW x \in -n .. -1 PROVE x % n = x + n
  OBVIOUS
<1> QED
  BY <1>1, <1>2, <1>3

\* The timeouts that messages carry and attributes hold, and what they are in ticks.
Allowed == Timeouts \cup {FastPollDefault}

Windows == {QsToMs(t) : t \in Allowed}

LEMMA WindowRange ==
  /\ Allowed \subseteq Nat
  /\ \A w \in Windows : w \in Nat /\ w < IntWrap \div 2 /\ w < IntWrap
<1>1. Allowed \subseteq Nat
  BY PollAssumption DEF Allowed
<1>2. ASSUME NEW t \in Allowed PROVE QsToMs(t) \in Nat /\ 2 * QsToMs(t) < IntWrap
  <2> DEFINE ms == t * MsPerQs
  <2>1. ms \in Nat
    BY <1>1, PollAssumption
  <2>2. 2 * t * MsPerQs < IntWrap
    BY PollAssumption DEF Allowed
  <2>3. 2 * t * MsPerQs = 2 * ms
    BY <1>1, PollAssumption
  <2> HIDE DEF ms
  <2>4. ms \in 0 .. IntWrap - 1
    BY <2>1, <2>2, <2>3, PollAssumption
  <2>5. ms % IntWrap = ms
    BY <2>4, ModTurn, PollAssumption
  <2> QED
    BY <2>1, <2>2, <2>3, <2>5 DEF QsToMs, ms
<1> QED
  BY <1>1, <1>2, PollAssumption DEF Windows

\* What is left of the window of state k.
AheadOf(k) == (k.fast_poll_end_ms - clock) % IntWrap

\* A window that was just opened, if k is in one.
Fresh(k) ==
  /\ k.fast_poll_timeout \in Allowed
  /\ k.in_fast_poll => AheadOf(k) \in Windows

\* fast_poll_end_ms is less than half a turn ahead, and app_task leaves no window
\* behind that is over.
WindowInv ==
  /\ IInv
  /\ p.fast_poll_timeout \in Allowed
  /\ p.in_fast_poll => Ahead < IntWrap \div 2 /\ (looped => Ahead > 0)

\* A time that lies w ahead of the clock.
LEMMA AheadIs ==
  ASSUME NEW now \in 0 .. IntWrap - 1, NEW w \in 0 .. IntWrap - 1
  PROVE  (((now + w) % IntWrap) - now) % IntWrap = w
<1> DEFINE end == (now + w) % IntWrap
<1>1. end = IF now + w < IntWrap THEN now + w ELSE now + w - IntWrap
  <2>1. CASE now + w < IntWrap
    <3>1. now + w \in 0 .. IntWrap - 1
      BY <2>1, PollAssumption
    <3> QED
      BY <2>1, <3>1, ModTurn, PollAssumption
  <2>2. CASE ~(now + w < IntWrap)
    <3>1. now + w \in IntWrap .. 2 * IntWrap - 1
      BY <2>2, PollAssumption
    <3> QED
      BY <2>2, <3>1, ModTurn, PollAssumption
  <2> QED
    BY <2>1, <2>2
<1> HIDE DEF end
<1>2. (end - now) % IntWrap = w
  <2>1. CASE now + w < IntWrap
    <3>1. end - now = w
      BY <1>1, <2>1, PollAssumption
    <3> QED
      BY <3>1, ModTurn, PollAssumption
  <2>2. CASE ~(now + w < IntWrap)
    <3>1. end - now = w - IntWrap /\ w - IntWrap \in -IntWrap .. -1
      BY <1>1, <2>2, PollAssumption
    <3>2. (w - IntWrap) % IntWrap = (w - IntWrap) + IntWrap
      BY <3>1, ModTurn, PollAssumption
    <3> QED
      BY <3>1, <3>2, PollAssumption
  <2> QED
    BY <2>1, <2>2
<1> QED
  BY <1>2 DEF end

LEMMA EnterFresh ==
  ASSUME clock \in 0 .. IntWrap - 1, NEW k \in ClusterState,
         k.fast_poll_timeout \in Allowed, NEW t \in Allowed \cup {0}
  PROVE  /\ Fresh(EnterFastPoll(k, t)) /\ EnterFastPoll(k, t).in_fast_poll
         /\ EnterFastPoll(k, t).fast_poll_timeout = k.fast_poll_timeout
<1> DEFINE used == IF t = 0 THEN k.fast_poll_timeout ELSE t
           w == QsToMs(used)
           e == EnterFastPoll(k, t)
<1>1. w \in Windows
  BY DEF Windows
<1>2. w \in 0 .. IntWrap - 1
  BY <1>1, WindowRange, PollAssumption
<1>3. /\ e.in_fast_poll /\ e.fast_poll_timeout = k.fast_poll_timeout
      /\ e.fast_poll_end_ms = (clock + w) % IntWrap
  BY DEF EnterFastPoll, ClusterState
<1> HIDE DEF e, w
<1>4. AheadOf(e) = w
  BY <1>2, <1>3, AheadIs DEF AheadOf
<1> QED
  BY <1>1, <1>3, <1>4 DEF Fresh, e

LEMMA ExitFresh ==
  ASSUME NEW k \in ClusterState, k.fast_poll_timeout \in Allowed
  PROVE  Fresh(ExitFastPoll(k))
BY DEF ExitFastPoll, Fresh, ClusterState

\* A handler that leaves the window alone leaves it fresh.
LEMMA KeepFresh ==
  ASSUME NEW k, Fresh(k), NEW n, n.in_fast_poll = k.in_fast_poll,
         n.fast_poll_end_ms = k.fast_poll_end_ms, n.fast_poll_timeout \in Allowed
  PROVE  Fresh(n)
BY DEF Fresh, AheadOf

LEMMA ActiveFresh ==
  ASSUME WindowInv, ClockWrap = IntWrap
  PROVE  Fresh(Active) /\ Active \in ClusterState
<1>1. /\ clock \in 0 .. IntWrap - 1 /\ p \in ClusterState
      /\ p.fast_poll_timeout \in Allowed
  BY DEF WindowInv, IInv, Sound
<1>2. Active \in ClusterState
  BY ActiveSound DEF WindowInv, Sound
<1> QED
  BY <1>1, <1>2, EnterFresh DEF Active, OnZclActivity

\* Every message leaves the window closed or freshly opened.
LEMMA MessageFresh ==
  ASSUME WindowInv, Message, ClockWrap = IntWrap
  PROVE  Fresh(p') /\ looped' = FALSE /\ clock' = clock
<1> DEFINE a == Active
<1>1. /\ clock \in 0 .. IntWrap - 1 /\ Fresh(a) /\ a \in ClusterState
      /\ a.fast_poll_timeout \in Allowed
  BY ActiveFresh DEF WindowInv, IInv, Fresh
<1>2. a.in_fast_poll
  BY ActiveSound DEF WindowInv
<1>3. looped' = FALSE /\ clock' = clock
  BY DEF Message, OtherMessage, FastPollStop, CheckInRsp, SetLongPoll, SetShortPoll,
         WriteCheckInInterval, WriteFastPollTimeout, Handle, HandleAndStore
<1>4. CASE OtherMessage
  BY <1>1, <1>4 DEF OtherMessage, Handle
<1>5. CASE FastPollStop
  BY <1>1, <1>2, <1>5, ExitFresh DEF FastPollStop, Handle
<1>6. ASSUME NEW start \in BOOLEAN, NEW t \in Timeouts, CheckInRsp(start, t)
      PROVE  Fresh(p')
  BY <1>1, <1>6, EnterFresh, ExitFresh DEF CheckInRsp, Handle, Allowed
<1> HIDE DEF a
<1>7. ASSUME NEW i \in LongPolls, SetLongPoll(i) PROVE Fresh(p')
  <2> DEFINE s == [[a EXCEPT !.long_poll_interval = i] EXCEPT !.rate =
                     IF [a EXCEPT !.long_poll_interval = i].in_fast_poll
                     THEN [a EXCEPT !.long_poll_interval = i].rate ELSE QsToMs(i)]
  <2>1. p' = s \/ p' = a
    BY <1>7 DEF SetLongPoll, OtherMessage, Handle, HandleAndStore, a
  <2>2. /\ s.in_fast_poll = a.in_fast_poll /\ s.fast_poll_end_ms = a.fast_poll_end_ms
        /\ s.fast_poll_timeout = a.fast_poll_timeout
    BY <1>1 DEF ClusterState
  <2> HIDE DEF s
  <2> QED
    BY <1>1, <2>1, <2>2, KeepFresh
<1>8. ASSUME NEW i \in ShortPolls, SetShortPoll(i) PROVE Fresh(p')
  <2> DEFINE s == [[a EXCEPT !.short_poll_interval = i] EXCEPT !.rate =
                     IF [a EXCEPT !.short_poll_interval = i].in_fast_poll
                     THEN QsToMs(i) ELSE [a EXCEPT !.short_poll_interval = i].rate]
  <2>1. p' = s \/ p' = a
    BY <1>8 DEF SetShortPoll, OtherMessage, Handle, HandleAndStore, a
  <2>2. /\ s.in_fast_poll = a.in_fast_poll /\ s.fast_poll_end_ms = a.fast_poll_end_ms
        /\ s.fast_poll_timeout = a.fast_poll_timeout
    BY <1>1 DEF ClusterState
  <2> HIDE DEF s
  <2> QED
    BY <1>1, <2>1, <2>2, KeepFresh
<1>9. ASSUME NEW i \in CheckIns, WriteCheckInInterval(i) PROVE Fresh(p')
  <2>1. p' = CheckInWritten(a, i)
    BY <1>9 DEF WriteCheckInInterval, HandleAndStore, a
  <2>2. /\ p'.in_fast_poll = a.in_fast_poll /\ p'.fast_poll_end_ms = a.fast_poll_end_ms
        /\ p'.fast_poll_timeout = a.fast_poll_timeout
    BY <1>1, <2>1 DEF ClusterState, CheckInWritten
  <2> QED
    BY <1>1, <2>2, KeepFresh
<1>10. ASSUME NEW t \in Timeouts, WriteFastPollTimeout(t) PROVE Fresh(p')
  <2>1. p' = [a EXCEPT !.fast_poll_timeout = t]
    BY <1>10 DEF WriteFastPollTimeout, HandleAndStore, a
  <2>2. /\ p'.in_fast_poll = a.in_fast_poll /\ p'.fast_poll_end_ms = a.fast_poll_end_ms
        /\ p'.fast_poll_timeout \in Allowed
    BY <1>1, <2>1 DEF ClusterState, Allowed
  <2> QED
    BY <1>1, <2>2, KeepFresh
<1> QED
  BY <1>3, <1>4, <1>5, <1>6, <1>7, <1>8, <1>9, <1>10 DEF Message

-----------------------------------------------------------------------------
(* Every step is one of FastPollWindow.                                    *)

WindowNext ==
  Window!Open \/ Window!Close \/ Window!OtherEvent \/ Window!Look \/ Window!Wait

WindowVars == <<p.in_fast_poll, Remaining, looped>>

LEMMA AheadRange ==
  ASSUME WindowInv, ClockWrap = IntWrap
  PROVE  /\ Ahead \in 0 .. IntWrap - 1 /\ Ahead = AheadOf(p)
         /\ clock \in 0 .. IntWrap - 1 /\ p.fast_poll_end_ms \in 0 .. IntWrap - 1
         /\ p.in_fast_poll \in BOOLEAN
         /\ Remaining = IF p.in_fast_poll THEN Ahead ELSE 0
<1>1. /\ clock \in 0 .. IntWrap - 1 /\ p.fast_poll_end_ms \in 0 .. IntWrap - 1
      /\ p.in_fast_poll \in BOOLEAN
  BY DEF WindowInv, IInv, Sound, ClusterState
<1>2. p.fast_poll_end_ms - clock \in Int /\ IntWrap \in Nat /\ IntWrap > 0
  BY <1>1, PollAssumption
<1>3. \A x \in Int, n \in Nat : n > 0 => x % n \in 0 .. n - 1
  OBVIOUS
<1>4. Ahead \in 0 .. IntWrap - 1
  BY <1>2, <1>3 DEF Ahead
<1> QED
  BY <1>1, <1>4 DEF Remaining, Ahead, AheadOf, WindowInv

\* A callback that leaves a fresh window, at the same time or at a restart.
LEMMA FreshStep ==
  ASSUME IInv', NEW k, p' = k, looped' = FALSE, k.fast_poll_timeout \in Allowed,
         k.in_fast_poll => Ahead' \in Windows
  PROVE  WindowInv' /\ WindowNext
<1>1. p'.in_fast_poll \in BOOLEAN
  BY DEF IInv, Sound, ClusterState
<1>2. p'.in_fast_poll => Ahead' \in Nat /\ Ahead' < IntWrap \div 2
  BY WindowRange
<1>3. WindowInv'
  BY <1>2 DEF WindowInv
<1>4. CASE p'.in_fast_poll
  <2>1. Remaining' = Ahead'
    BY <1>2, <1>4 DEF Remaining
  <2> QED
    BY <1>1, <1>3, <1>4, <2>1 DEF WindowNext, Window!Open, Windows, Allowed
<1>5. CASE ~p'.in_fast_poll
  <2>1. Remaining' = 0
    BY <1>5 DEF Remaining
  <2> QED
    BY <1>1, <1>3, <1>5, <2>1 DEF WindowNext, Window!Close
<1> QED
  BY <1>4, <1>5

LEMMA MessageStep ==
  ASSUME WindowInv, Message, ClockWrap = IntWrap
  PROVE  WindowInv' /\ WindowNext
<1>1. Fresh(p') /\ looped' = FALSE /\ clock' = clock
  BY MessageFresh
<1>2. IInv'
  BY MessageInv DEF WindowInv
<1>3. p'.in_fast_poll => Ahead' \in Windows
  BY <1>1 DEF Fresh, AheadOf, Ahead
<1> QED
  BY <1>1, <1>2, <1>3, FreshStep DEF Fresh

\* An event that is not about the window.
LEMMA OtherStep ==
  ASSUME WindowInv, IInv', p'.in_fast_poll = p.in_fast_poll, looped' = FALSE,
         p'.fast_poll_end_ms = p.fast_poll_end_ms, clock' = clock,
         p'.fast_poll_timeout = p.fast_poll_timeout
  PROVE  WindowInv' /\ WindowNext
BY DEF WindowInv, Ahead, Remaining, WindowNext, Window!OtherEvent

LEMMA CheckInStep ==
  ASSUME WindowInv, CheckInTask, ClockWrap = IntWrap
  PROVE  WindowInv' /\ WindowNext
<1>1. /\ IInv' /\ p \in ClusterState /\ clock \in 0 .. IntWrap - 1
      /\ p.fast_poll_timeout \in Allowed
  BY CheckInTaskInv DEF WindowInv, IInv, Sound
<1>2. looped' = FALSE /\ clock' = clock
  BY DEF CheckInTask, Handle
<1>3. CASE p.check_in_interval = 0
  <2>1. p' = [p EXCEPT !.check_in_task = Off]
    BY <1>3 DEF CheckInTask, Handle
  <2>2. /\ p'.in_fast_poll = p.in_fast_poll /\ p'.fast_poll_end_ms = p.fast_poll_end_ms
        /\ p'.fast_poll_timeout = p.fast_poll_timeout
    BY <1>1, <2>1 DEF ClusterState
  <2> QED
    BY <1>1, <1>2, <2>2, OtherStep
<1>4. CASE p.check_in_interval # 0
  <2> DEFINE e == EnterFastPoll(p, p.fast_poll_timeout)
  <2>1. Fresh(e) /\ e.fast_poll_timeout = p.fast_poll_timeout
    BY <1>1, EnterFresh
  <2>2. e \in ClusterState
    <3>1. Sound(p)
      BY DEF WindowInv, IInv
    <3>2. p.fast_poll_timeout \in Nat
      BY <1>1, WindowRange
    <3>3. clock \in Nat
      BY <1>1
    <3> QED
      BY <3>1, <3>2, <3>3, EnterSound DEF Sound
  <2>3. p' = [e EXCEPT !.check_in_task = CheckInTimer(p)]
    BY <1>4 DEF CheckInTask, Handle
  <2> HIDE DEF e
  <2>4. /\ p'.in_fast_poll = e.in_fast_poll /\ p'.fast_poll_end_ms = e.fast_poll_end_ms
        /\ p'.fast_poll_timeout = e.fast_poll_timeout
    BY <2>2, <2>3 DEF ClusterState
  <2>5. Fresh(p')
    BY <1>1, <2>1, <2>4, KeepFresh
  <2>6. p'.in_fast_poll => Ahead' \in Windows
    BY <1>2, <2>5 DEF Fresh, AheadOf, Ahead
  <2> QED
    BY <1>1, <1>2, <2>5, <2>6, FreshStep DEF Fresh
<1> QED
  BY <1>3, <1>4

LEMMA RebootStep ==
  ASSUME WindowInv, Reboot, ClockWrap = IntWrap
  PROVE  WindowInv' /\ WindowNext
<1> DEFINE w == QsToMs(p.fast_poll_timeout)
<1>1. IInv' /\ looped' = FALSE /\ clock' = 0 /\ p.fast_poll_timeout \in Allowed
  BY RebootInv DEF WindowInv, Reboot
<1>2. Loaded = Stored(p)
  BY SavedIsLoaded DEF WindowInv, IInv
<1>3. w \in Windows /\ w \in 0 .. IntWrap - 1
  <2>1. w \in Windows
    BY <1>1 DEF Windows
  <2> HIDE DEF w
  <2> QED
    BY <2>1, WindowRange, PollAssumption
<1>4. p' = AddToEndpoint(Stored(p))
  BY <1>2 DEF Reboot
<1>5. /\ p'.in_fast_poll /\ p'.fast_poll_timeout = p.fast_poll_timeout
      /\ p'.fast_poll_end_ms = w % IntWrap
  BY <1>4 DEF AddToEndpoint, Stored
<1> HIDE DEF w
<1>6. Ahead' = w
  <2>1. w % IntWrap = w /\ w - 0 = w
    BY <1>3, ModTurn, PollAssumption
  <2> QED
    BY <1>1, <1>5, <2>1 DEF Ahead
<1> QED
  BY <1>1, <1>3, <1>5, <1>6, FreshStep

\* app_task closes a window exactly when nothing is left of it.
LEMMA UpdateStep ==
  ASSUME WindowInv, Update, ClockWrap = IntWrap
  PROVE  WindowInv' /\ WindowNext
<1> DEFINE u == IF p.in_fast_poll /\ Expired(p) THEN ExitFastPoll(p) ELSE p
<1>1. /\ Ahead \in 0 .. IntWrap - 1 /\ clock \in 0 .. IntWrap - 1
      /\ p.fast_poll_end_ms \in 0 .. IntWrap - 1 /\ p.in_fast_poll \in BOOLEAN
      /\ Remaining = IF p.in_fast_poll THEN Ahead ELSE 0
  BY AheadRange
<1>2. IInv' /\ looped' = TRUE /\ clock' = clock /\ p' = PollControlUpdate(p)
  BY UpdateInv DEF WindowInv, Update
<1>3. ASSUME p.in_fast_poll PROVE Expired(p) <=> Ahead = 0
  <2> DEFINE d == p.fast_poll_end_ms - clock
             h == IntWrap \div 2
  <2>1. /\ d \in -(IntWrap - 1) .. IntWrap - 1 /\ d % IntWrap < h
        /\ clock - p.fast_poll_end_ms = -d
        /\ IntWrap \in Nat /\ h \in Nat /\ IntWrap = 2 * h /\ IntWrap > 0
    BY <1>1, <1>3, PollAssumption DEF WindowInv, Ahead
  <2> HIDE DEF d, h
  <2>2. CASE d = 0
    <3>1. 0 \in 0 .. IntWrap - 1 /\ clock - p.fast_poll_end_ms = 0
      <4>1. IntWrap \in Nat /\ IntWrap > 0
        BY <2>1
      <4>2. 0 \in 0 .. IntWrap - 1
        BY <4>1
      <4>3. clock - p.fast_poll_end_ms = 0
        BY <1>1, <2>2 DEF d
      <4> QED
        BY <4>2, <4>3
    <3>2. 0 % IntWrap = 0
      BY <2>1, <3>1, ModTurn
    <3> QED
      BY <2>1, <2>2, <3>1, <3>2 DEF Expired, Ahead, d, h
  <2>3. CASE d \in 1 .. IntWrap - 1
    <3>1. d % IntWrap = d /\ (-d) % IntWrap = IntWrap - d
      <4>1. -d \in -IntWrap .. -1 /\ d \in 0 .. IntWrap - 1
        BY <2>1, <2>3
      <4>2. d % IntWrap = d /\ (-d) % IntWrap = (-d) + IntWrap
        BY <2>1, <4>1, ModTurn
      <4> QED
        BY <2>1, <4>2
    <3>2. Ahead = d /\ Ahead # 0
      BY <2>3, <3>1 DEF Ahead, d
    <3>3. ~(IntWrap - d < h)
      BY <2>1, <2>3, <3>1
    <3> QED
      BY <2>1, <3>1, <3>2, <3>3 DEF Expired, h
  <2>4. CASE d \in -(IntWrap - 1) .. -1
    <3>1. d % IntWrap = IntWrap + d /\ (-d) % IntWrap = -d
      <4>1. d \in -IntWrap .. -1 /\ -d \in 0 .. IntWrap - 1
        BY <2>1, <2>4
      <4>2. d % IntWrap = d + IntWrap /\ (-d) % IntWrap = -d
        BY <2>1, <4>1, ModTurn
      <4> QED
        BY <2>1, <4>2
    <3>2. Ahead = IntWrap + d /\ Ahead # 0
      BY <2>1, <2>4, <3>1 DEF Ahead, d
    <3>3. ~(-d < h)
      BY <2>1, <2>4, <3>1
    <3> QED
      BY <2>1, <3>1, <3>2, <3>3 DEF Expired, h
  <2> QED
    BY <2>1, <2>2, <2>3, <2>4
<1>4. /\ u \in ClusterState /\ u.fast_poll_end_ms = p.fast_poll_end_ms
      /\ u.fast_poll_timeout = p.fast_poll_timeout
      /\ u.in_fast_poll = (p.in_fast_poll /\ ~Expired(p))
  <2>1. p \in ClusterState /\ Sound(p)
    BY DEF WindowInv, IInv, Sound
  <2>2. CASE p.in_fast_poll /\ Expired(p)
    <3>1. u = ExitFastPoll(p) /\ u \in ClusterState
      BY <2>1, <2>2, ExitSound DEF Sound
    <3> QED
      BY <2>1, <2>2, <3>1 DEF ExitFastPoll, ClusterState
  <2>3. CASE ~(p.in_fast_poll /\ Expired(p))
    <3>1. u = p
      BY <2>3
    <3> QED
      BY <1>1, <2>1, <2>3, <3>1
  <2> QED
    BY <2>2, <2>3
<1>5. p' = [u EXCEPT !.rate = ExpectedRate(u)]
  BY <1>2 DEF PollControlUpdate
<1> HIDE DEF u
<1>6. /\ p'.fast_poll_end_ms = p.fast_poll_end_ms
      /\ p'.fast_poll_timeout = p.fast_poll_timeout
      /\ p'.in_fast_poll = (p.in_fast_poll /\ ~Expired(p))
  BY <1>4, <1>5 DEF ClusterState
<1>7. Ahead' = Ahead
  BY <1>2, <1>6 DEF Ahead
<1>8. WindowInv'
  <2>1. p'.in_fast_poll => p.in_fast_poll /\ Ahead > 0
    <3> SUFFICES ASSUME p'.in_fast_poll PROVE p.in_fast_poll /\ Ahead > 0
      OBVIOUS
    <3>1. p.in_fast_poll /\ ~Expired(p)
      BY <1>6
    <3>2. Ahead # 0
      BY <1>3, <3>1
    <3> QED
      BY <1>1, <3>1, <3>2
  <2> QED
    BY <1>2, <1>6, <1>7, <2>1 DEF WindowInv
<1>9. p'.in_fast_poll = (p.in_fast_poll /\ Remaining > 0)
  BY <1>1, <1>3, <1>6
<1>10. Remaining' = Remaining
  BY <1>1, <1>3, <1>6, <1>7 DEF Remaining
<1> QED
  BY <1>2, <1>8, <1>9, <1>10 DEF WindowNext, Window!Look

LEMMA TickStep ==
  ASSUME WindowInv, Tick, ClockWrap = IntWrap
  PROVE  WindowInv' /\ WindowNext
<1>1. /\ Ahead \in 0 .. IntWrap - 1 /\ clock \in 0 .. IntWrap - 1
      /\ p.fast_poll_end_ms \in 0 .. IntWrap - 1 /\ p.in_fast_poll \in BOOLEAN
      /\ Remaining = IF p.in_fast_poll THEN Ahead ELSE 0
  BY AheadRange
<1>2. /\ IInv' /\ looped /\ looped' = FALSE /\ clock' = (clock + 1) % IntWrap
      /\ p' = [p EXCEPT !.check_in_task = CountDown(@)]
  BY TickInv DEF WindowInv, Tick
<1>3. /\ p'.in_fast_poll = p.in_fast_poll /\ p'.fast_poll_end_ms = p.fast_poll_end_ms
      /\ p'.fast_poll_timeout = p.fast_poll_timeout
  BY <1>2 DEF WindowInv, IInv, Sound, ClusterState
<1>4. ASSUME p.in_fast_poll PROVE Ahead > 0 /\ Ahead' = Ahead - 1
  <2> DEFINE end == p.fast_poll_end_ms
             w == Ahead
  <2>1. w > 0 /\ w \in 1 .. IntWrap - 1
    BY <1>1, <1>2, <1>4 DEF WindowInv
  <2>2. clock' = IF clock + 1 = IntWrap THEN 0 ELSE clock + 1
    <3>1. CASE clock + 1 = IntWrap
      <4>1. IntWrap \in IntWrap .. 2 * IntWrap - 1
        BY PollAssumption
      <4>2. IntWrap % IntWrap = IntWrap - IntWrap
        BY <4>1, ModTurn, PollAssumption
      <4> QED
        BY <1>2, <3>1, <4>2, PollAssumption
    <3>2. CASE clock + 1 # IntWrap
      <4>1. clock + 1 \in 0 .. IntWrap - 1
        BY <1>1, <3>2, PollAssumption
      <4> QED
        BY <1>2, <3>2, <4>1, ModTurn, PollAssumption
    <3> QED
      BY <3>1, <3>2
  <2>3. w = IF end >= clock THEN end - clock ELSE end - clock + IntWrap
    <3>1. CASE end >= clock
      <4>1. end - clock \in 0 .. IntWrap - 1
        BY <1>1, <3>1, PollAssumption
      <4> QED
        BY <3>1, <4>1, ModTurn, PollAssumption DEF Ahead
    <3>2. CASE ~(end >= clock)
      <4>1. end - clock \in -IntWrap .. -1
        BY <1>1, <3>2, PollAssumption
      <4> QED
        BY <3>2, <4>1, ModTurn, PollAssumption DEF Ahead
    <3> QED
      BY <3>1, <3>2
  <2>4. Ahead' = (end - clock') % IntWrap
    BY <1>3 DEF Ahead
  <2> HIDE DEF end, w
  <2>5. (end - clock') % IntWrap = w - 1
    <3>1. CASE clock + 1 = IntWrap
      <4>1. end - clock' = end /\ end = w - 1 /\ end \in 0 .. IntWrap - 1
        BY <1>1, <2>1, <2>2, <2>3, <3>1, PollAssumption DEF end
      <4> QED
        BY <4>1, ModTurn, PollAssumption
    <3>2. CASE clock + 1 # IntWrap /\ end >= clock
      <4>1. end - clock' = w - 1 /\ w - 1 \in 0 .. IntWrap - 1
        BY <1>1, <2>1, <2>2, <2>3, <3>2, PollAssumption DEF end
      <4> QED
        BY <4>1, ModTurn, PollAssumption
    <3>3. CASE clock + 1 # IntWrap /\ ~(end >= clock)
      <4>1. /\ end - clock' = w - 1 - IntWrap /\ w - 1 - IntWrap \in -IntWrap .. -1
            /\ (w - 1 - IntWrap) + IntWrap = w - 1
        BY <1>1, <2>1, <2>2, <2>3, <3>3, PollAssumption DEF end
      <4>2. (w - 1 - IntWrap) % IntWrap = (w - 1 - IntWrap) + IntWrap
        BY <4>1, ModTurn, PollAssumption
      <4> QED
        BY <4>1, <4>2
    <3> QED
      BY <3>1, <3>2, <3>3
  <2> QED
    BY <2>1, <2>4, <2>5 DEF w
<1>5. WindowInv'
  BY <1>1, <1>2, <1>3, <1>4, PollAssumption DEF WindowInv
<1>6. Remaining' = IF Remaining = 0 THEN 0 ELSE Remaining - 1
  <2>1. CASE p.in_fast_poll
    <3>1. Ahead' < IntWrap \div 2
      BY <1>3, <1>5, <2>1 DEF WindowInv
    <3> QED
      BY <1>1, <1>3, <1>4, <2>1, <3>1 DEF Remaining
  <2>2. CASE ~p.in_fast_poll
    BY <1>1, <1>3, <2>2 DEF Remaining
  <2> QED
    BY <2>1, <2>2
<1> QED
  BY <1>1, <1>2, <1>3, <1>4, <1>5, <1>6 DEF WindowNext, Window!Wait

LEMMA StackStep ==
  ASSUME WindowInv, StackSetsPollRate
  PROVE  WindowInv' /\ WindowNext
<1>1. IInv' /\ p' = [p EXCEPT !.rate = StackPollRate] /\ looped' = FALSE /\ clock' = clock
  BY StackInv DEF WindowInv, StackSetsPollRate, Handle
<1>2. /\ p'.in_fast_poll = p.in_fast_poll /\ p'.fast_poll_end_ms = p.fast_poll_end_ms
      /\ p'.fast_poll_timeout = p.fast_poll_timeout
  BY <1>1 DEF WindowInv, IInv, Sound, ClusterState
<1> QED
  BY <1>1, <1>2, OtherStep

LEMMA WindowStep ==
  ASSUME WindowInv, [Next]_vars, ClockWrap = IntWrap
  PROVE  WindowInv' /\ [WindowNext]_WindowVars
<1>1. CASE UNCHANGED vars
  <2>1. IInv'
    BY <1>1, NextInv DEF WindowInv
  <2> QED
    BY <1>1, <2>1 DEF vars, WindowInv, WindowVars, Ahead, Remaining
<1> QED
  BY <1>1, MessageStep, CheckInStep, UpdateStep, StackStep, TickStep, RebootStep DEF Next

LEMMA WindowInit ==
  ASSUME Init, ClockWrap = IntWrap
  PROVE  WindowInv /\ Window!WindowInit
<1> DEFINE w == QsToMs(FastPollDefault)
<1>1. IInv /\ clock = 0 /\ looped = FALSE /\ p = AddToEndpoint(Defaults)
  BY InitInv DEF Init
<1>2. w \in Windows /\ w \in 0 .. IntWrap - 1 /\ w < IntWrap \div 2
  <2>1. w \in Windows
    BY DEF Windows, Allowed
  <2> HIDE DEF w
  <2> QED
    BY <2>1, WindowRange, PollAssumption
<1>3. /\ p.in_fast_poll = TRUE /\ p.fast_poll_timeout = FastPollDefault
      /\ p.fast_poll_end_ms = w % IntWrap
  BY <1>1 DEF AddToEndpoint, Defaults
<1>4. w % IntWrap = w /\ w - 0 = w
  BY <1>2, ModTurn, PollAssumption
<1> HIDE DEF w
<1>5. Ahead = w
  BY <1>1, <1>3, <1>4 DEF Ahead
<1>6. WindowInv
  BY <1>1, <1>2, <1>3, <1>5 DEF WindowInv, Allowed
<1>7. Remaining = w
  BY <1>2, <1>3, <1>5 DEF Remaining
<1> QED
  BY <1>1, <1>2, <1>3, <1>6, <1>7 DEF Window!WindowInit, Windows, Allowed

\* On a device whose clock counts modulo 2^32, every fast-poll window lasts exactly as
\* long as it was last asked to, for every sequence of messages, check-ins and restarts.
THEOREM WindowCorrect ==
  ASSUME ClockWrap = IntWrap
  PROVE  Spec => FastPollTimed
<1>1. Init => WindowInv /\ Window!WindowInit
  BY WindowInit
<1>2. WindowInv /\ [Next]_vars => WindowInv' /\ [WindowNext]_WindowVars
  BY WindowStep
<1> QED
  BY <1>1, <1>2, PTL DEF Spec, FastPollTimed, Window!WindowSpec, WindowNext, WindowVars,
     Window!window
=============================================================================
