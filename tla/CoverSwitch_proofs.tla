-------------------------- MODULE CoverSwitch_proofs --------------------------
(***************************************************************************)
(* Proofs of the safety properties of CoverSwitch.                         *)
(*                                                                         *)
(* The handlers all change the cluster by UpdatePresentValue, so the       *)
(* lemmas say what that keeps; the theorems then go through the actions.   *)
(***************************************************************************)
EXTENDS CoverSwitch, TLAPS

ButtonOK(b) == b.long_pressed => b.pressed

\* Why an output is held: what the release goes by is as it was when the hold began.
Held(k) ==
  /\ "local" \in k.hold =>
       HasCover(k) /\ WhileHeld(k, k.present_value, k.local_mode)
             /\ k.present_value \in Short \cup Long
  /\ "binded" \in k.hold =>
       joined /\ WhileHeld(k, k.present_value, k.binded_mode) /\ k.present_value \in Short \cup Long

Together(k) ==
  k.local_mode = k.binded_mode /\ HasCover(k) /\ joined => k.sent.local = k.sent.binded

\* A momentary switch stays at STOP until the buttons are released.
StopHeld ==
  s.switch_type = "momentary" /\ s.present_value = "stop" => AnyPressed(open_button, close_button)

Stored == nv = {Current} \/ (nv = {} /\ Current = DefaultSettings)

IInv ==
  /\ TypeOK
  /\ ButtonOK(open_button) /\ ButtonOK(close_button)
  /\ Held(s) /\ HoldEndsWithRelease
  /\ Together(s)
  /\ StopHeld /\ PresentValueInSync
  /\ Stored

SameSettings(u, k) ==
  /\ u.switch_type = k.switch_type /\ u.cover_index = k.cover_index
  /\ u.reversal = k.reversal
  /\ u.local_mode = k.local_mode /\ u.binded_mode = k.binded_mode

-----------------------------------------------------------------------------
(* Commands.                                                               *)

LEMMA GetCmdType ==
  ASSUME NEW k \in ClusterState, NEW value \in PresentValue, NEW mode \in Mode, NEW m \in Moving
  PROVE  GetCmd(k, value, mode, m) \in Commands
<1>1. MomentaryCmd(k, value, mode, m) \in Commands
  BY DEF MomentaryCmd, OrStop, Direction, Commands, Moves, None
<1> QED
  BY <1>1 DEF GetCmd, Direction, Commands, Moves, None

\* Whether there is a command does not depend on how the cover moves.
LEMMA NoneAlike ==
  ASSUME NEW k \in ClusterState, NEW value \in PresentValue, NEW mode \in Mode,
         NEW m \in Moving, NEW l \in Moving
  PROVE  GetCmd(k, value, mode, m) = None <=> GetCmd(k, value, mode, l) = None
BY DEF GetCmd, MomentaryCmd, OrStop, Direction, None

LEMMA LocalCmdType ==
  ASSUME TypeOK, NEW k \in ClusterState, NEW value \in PresentValue
  PROVE  LocalCmd(k, value) \in Commands
<1>1. CASE HasCover(k)
  <2>1. moving[k.cover_index] \in Moving /\ k.local_mode \in Mode
    BY <1>1 DEF TypeOK, HasCover, ClusterState
  <2> QED
    BY <1>1, <2>1, GetCmdType DEF LocalCmd
<1>2. CASE ~HasCover(k)
  BY <1>2 DEF LocalCmd, Commands
<1> QED
  BY <1>1, <1>2

LEMMA BindedCmdType ==
  ASSUME TypeOK, NEW k \in ClusterState, NEW value \in PresentValue
  PROVE  BindedCmd(k, value) \in Commands
<1>1. k.binded_mode \in Mode /\ k.binded_moving \in Moving
  BY DEF ClusterState
<1> QED
  BY <1>1, GetCmdType, LocalCmdType DEF BindedCmd

\* With matching modes what is bound is told what the cover is told.
LEMMA MatchingCmds ==
  ASSUME TypeOK, NEW k \in ClusterState, NEW value \in PresentValue,
         k.local_mode = k.binded_mode, HasCover(k)
  PROVE  BindedCmd(k, value) = LocalCmd(k, value)
<1>1. moving[k.cover_index] \in Moving /\ k.local_mode \in Mode /\ k.binded_moving \in Moving
  BY DEF TypeOK, HasCover, ClusterState
<1>2. LocalCmd(k, value) = None <=> GetCmd(k, value, k.binded_mode, k.binded_moving) = None
  BY <1>1, NoneAlike DEF LocalCmd
<1> QED
  BY <1>2 DEF BindedCmd

-----------------------------------------------------------------------------
(* UpdatePresentValue.                                                     *)

LEMMA UpdateFacts ==
  ASSUME TypeOK, NEW k \in ClusterState, NEW value \in PresentValue
  PROVE  /\ UpdatePresentValue(k, value) \in ClusterState
         /\ SameSettings(UpdatePresentValue(k, value), k)
         /\ UpdatePresentValue(k, value).present_value = value
         /\ value = k.present_value => UpdatePresentValue(k, value) = k
<1>1. CASE value = k.present_value
  BY <1>1 DEF UpdatePresentValue, SameSettings
<1>2. CASE value # k.present_value
  <2> DEFINE cmd == Delivered(BindedCmd(k, value))
  <2> DEFINE local == LocalCmd(k, value)
  <2> DEFINE sent == [local |-> local, binded |-> cmd]
  <2>1. cmd \in Commands /\ local \in Commands
    BY LocalCmdType, BindedCmdType DEF Delivered, Commands
  <2>2. sent \in [Outputs -> Commands]
    BY <2>1 DEF Outputs
  <2>3. MovingAfter(cmd) \in Moving
    BY DEF MovingAfter, Moving
  <2>4. HeldAfter(k, value, sent) \in SUBSET Outputs
    BY DEF HeldAfter
  <2>5. UpdatePresentValue(k, value)
          = [k EXCEPT !.present_value = value,
                      !.binded_moving = IF cmd = None THEN @ ELSE MovingAfter(cmd),
                      !.sent = sent,
                      !.hold = HeldAfter(k, value, sent)]
    BY <1>2 DEF UpdatePresentValue
  <2> HIDE DEF cmd, local, sent
  <2> QED
    BY <1>2, <2>2, <2>3, <2>4, <2>5 DEF ClusterState, SameSettings
<1> QED
  BY <1>1, <1>2

\* What an update sends, and which outputs it leaves held.
LEMMA UpdateEffects ==
  ASSUME TypeOK, NEW k \in ClusterState, NEW value \in PresentValue, value # k.present_value
  PROVE  LET u == UpdatePresentValue(k, value)
         IN  /\ u.sent = [local |-> LocalCmd(k, value), binded |-> Delivered(BindedCmd(k, value))]
             /\ u.hold = HeldAfter(k, value, u.sent)
<1> DEFINE cmd == Delivered(BindedCmd(k, value))
<1> DEFINE sent == [local |-> LocalCmd(k, value), binded |-> cmd]
<1>1. UpdatePresentValue(k, value)
        = [k EXCEPT !.present_value = value,
                    !.binded_moving = IF cmd = None THEN @ ELSE MovingAfter(cmd),
                    !.sent = sent,
                    !.hold = HeldAfter(k, value, sent)]
  BY DEF UpdatePresentValue
<1> HIDE DEF cmd, sent
<1>2. UpdatePresentValue(k, value).sent = sent
      /\ UpdatePresentValue(k, value).hold = HeldAfter(k, value, sent)
  BY <1>1 DEF ClusterState
<1> QED
  BY <1>2 DEF cmd, sent

\* Outputs with the same mode are told the same.
LEMMA UpdateTogether ==
  ASSUME TypeOK, NEW k \in ClusterState, NEW value \in PresentValue, Together(k)
  PROVE  Together(UpdatePresentValue(k, value))
<1> DEFINE u == UpdatePresentValue(k, value)
<1>1. CASE value = k.present_value
  BY <1>1, UpdateFacts
<1>2. CASE value # k.present_value
  <2> SUFFICES ASSUME u.local_mode = u.binded_mode, HasCover(u), joined
               PROVE  u.sent.local = u.sent.binded
    BY DEF Together
  <2>1. k.local_mode = k.binded_mode /\ HasCover(k)
    BY UpdateFacts DEF SameSettings, HasCover
  <2>2. Delivered(BindedCmd(k, value)) = LocalCmd(k, value)
    BY <2>1, MatchingCmds DEF Delivered
  <2>3. u.sent = [local |-> LocalCmd(k, value), binded |-> Delivered(BindedCmd(k, value))]
    BY <1>2, UpdateEffects
  <2> QED
    BY <2>2, <2>3
<1> QED
  BY <1>1, <1>2

\* STOP, and the release of a momentary switch, end every hold.
LEMMA UpdateEnds ==
  ASSUME TypeOK, NEW k \in ClusterState, NEW value \in {"stop", "released"},
         Held(k), value = "released" => k.switch_type = "momentary"
  PROVE  UpdatePresentValue(k, value).hold = {}
<1> DEFINE u == UpdatePresentValue(k, value)
<1>0. value \in PresentValue /\ k.hold \subseteq Outputs /\ k.local_mode \in Mode
      /\ k.binded_mode \in Mode /\ k.present_value \in PresentValue
  BY DEF PresentValue, ClusterState
<1>1. CASE value = k.present_value
  <2>1. k.present_value \notin Short \cup Long
    BY <1>1 DEF Short, Long
  <2> QED
    BY <1>0, <1>1, <2>1, UpdateFacts DEF Held, Outputs
<1>2. CASE value # k.present_value
  <2>1. u.sent = [local |-> LocalCmd(k, value), binded |-> Delivered(BindedCmd(k, value))]
        /\ u.hold = HeldAfter(k, value, u.sent)
    BY <1>0, <1>2, UpdateEffects
  <2>2. ASSUME NEW mode \in Mode, NEW m,
               value = "released" => mode = "hybrid" /\ k.present_value \in Long
        PROVE  GetCmd(k, value, mode, m) = "stop"
    BY <2>2 DEF GetCmd, MomentaryCmd, Short, Long
  <2>3. ASSUME NEW mode \in Mode, NEW m, WhileHeld(k, value, mode)
        PROVE  GetCmd(k, value, mode, m) \notin Moves
    BY <2>3 DEF GetCmd, WhileHeld, Moves, Short, Long
  <2>4. "local" \notin u.hold
    <3>1. LocalCmd(k, value) \in Moves => ~WhileHeld(k, value, k.local_mode)
      BY <1>0, <2>3 DEF LocalCmd, Moves, None
    <3>2. "local" \in k.hold => LocalCmd(k, value) = "stop"
      BY <1>0, <2>2 DEF Held, LocalCmd, WhileHeld
    <3> QED
      BY <2>1, <3>1, <3>2 DEF HeldAfter, ModeOf
  <2>5. "binded" \notin u.hold
    <3>1. BindedCmd(k, value) \in Moves => ~WhileHeld(k, value, k.binded_mode)
      BY <1>0, <2>3 DEF BindedCmd, LocalCmd, Moves, None
    <3>2. "binded" \in k.hold => Delivered(BindedCmd(k, value)) = "stop"
      BY <1>0, <2>2 DEF Held, BindedCmd, LocalCmd, WhileHeld, Delivered
    <3>3. Delivered(BindedCmd(k, value)) \in Moves => ~WhileHeld(k, value, k.binded_mode)
      BY <3>1 DEF Delivered, Moves, None
    <3> QED
      BY <2>1, <3>2, <3>3 DEF HeldAfter, ModeOf
  <2> QED
    BY <2>1, <2>4, <2>5 DEF HeldAfter, Outputs
<1> QED
  BY <1>1, <1>2

\* Otherwise a hold begins or goes on, and what it goes by stays.
LEMMA UpdateHeld ==
  ASSUME TypeOK, NEW k \in ClusterState, NEW value \in Short \cup Long, Held(k),
         k.switch_type = "momentary" => value \in Long \/ k.hold = {}
  PROVE  Held(UpdatePresentValue(k, value))
<1> DEFINE u == UpdatePresentValue(k, value)
<1>0. value \in PresentValue
  BY DEF PresentValue
<1>1. CASE value = k.present_value
  BY <1>0, <1>1, UpdateFacts
<1>2. CASE value # k.present_value
  <2>1. u.sent = [local |-> LocalCmd(k, value), binded |-> Delivered(BindedCmd(k, value))]
        /\ u.hold = HeldAfter(k, value, u.sent)
    BY <1>0, <1>2, UpdateEffects
  <2>2. u.present_value = value /\ SameSettings(u, k)
    BY <1>0, UpdateFacts
  <2>3. k.switch_type \in Type
    BY DEF ClusterState
  <2>4. ASSUME "local" \in u.hold
        PROVE  HasCover(u) /\ WhileHeld(u, value, u.local_mode)
    <3>1. CASE "local" \in k.hold
      BY <2>2, <2>3, <3>1 DEF Held, WhileHeld, SameSettings, HasCover, Type
    <3>2. CASE LocalCmd(k, value) \in Moves /\ WhileHeld(k, value, k.local_mode)
      BY <2>2, <3>2 DEF LocalCmd, WhileHeld, SameSettings, HasCover, Moves, None
    <3> QED
      BY <2>1, <2>4, <3>1, <3>2 DEF HeldAfter, ModeOf
  <2>5. ASSUME "binded" \in u.hold
        PROVE  joined /\ WhileHeld(u, value, u.binded_mode)
    <3>1. CASE "binded" \in k.hold
      BY <2>2, <2>3, <3>1 DEF Held, WhileHeld, SameSettings, Type
    <3>2. CASE Delivered(BindedCmd(k, value)) \in Moves /\ WhileHeld(k, value, k.binded_mode)
      BY <2>2, <3>2 DEF Delivered, WhileHeld, SameSettings, Moves, None
    <3> QED
      BY <2>1, <2>5, <3>1, <3>2 DEF HeldAfter, ModeOf
  <2> QED
    BY <2>2, <2>4, <2>5 DEF Held
<1> QED
  BY <1>1, <1>2

-----------------------------------------------------------------------------
(* The handlers, for buttons as they are when they are called.             *)

Levels == [pressed: BOOLEAN, long_pressed: BOOLEAN]

LEMMA ReversedType ==
  ASSUME NEW k, NEW value \in PresentValue
  PROVE  /\ value \in Short => Reversed(k, value) \in Short
         /\ value \in Long => Reversed(k, value) \in Long
BY DEF Reversed, Short, Long

\* Reversed looks at the direction only.
LEMMA ReversedAlike ==
  ASSUME NEW k, NEW u, SameSettings(u, k), NEW value
  PROVE  Reversed(u, value) = Reversed(k, value)
BY DEF Reversed, SameSettings

LEMMA PressKeeps ==
  ASSUME TypeOK, NEW k \in ClusterState, Held(k), Together(k),
         NEW open \in Levels, NEW close \in Levels, AnyPressed(open, close),
         ~(open.pressed /\ close.pressed) =>
           k.hold = {} /\ ~open.long_pressed /\ ~close.long_pressed
  PROVE  LET u == OnButtonPress(k, open, close)
         IN  /\ u \in ClusterState /\ SameSettings(u, k)
             /\ Held(u) /\ Together(u)
             /\ UpToDate(u, open, close)
<1> DEFINE u == OnButtonPress(k, open, close)
<1>1. CASE open.pressed /\ close.pressed
  <2>1. u = UpdatePresentValue(k, "stop") /\ "stop" \in PresentValue
    BY <1>1 DEF OnButtonPress, PresentValue
  <2>2. u.hold = {}
    BY <2>1, UpdateEnds
  <2> QED
    BY <1>1, <2>1, <2>2, UpdateFacts, UpdateTogether DEF Held, UpToDate
<1>2. CASE ~(open.pressed /\ close.pressed)
  <2> DEFINE side == IF open.pressed THEN "open" ELSE "close"
  <2>1. u = UpdatePresentValue(k, Reversed(k, side))
    BY <1>2 DEF OnButtonPress
  <2>2. Reversed(k, side) \in Short /\ Reversed(k, side) \in PresentValue
    BY DEF Reversed, Short, PresentValue
  <2>3. u \in ClusterState /\ SameSettings(u, k) /\ u.present_value = Reversed(k, side)
    BY <2>1, <2>2, UpdateFacts
  <2>4. Held(u)
    BY <1>2, <2>1, <2>2, UpdateHeld
  <2>5. Together(u)
    BY <2>1, <2>2, UpdateTogether
  <2>6. u.present_value = Reversed(u, side)
    BY <2>3, ReversedAlike
  <2>7. UpToDate(u, open, close)
    BY <1>2, <2>6 DEF UpToDate, AnyPressed
  <2> QED
    BY <2>3, <2>4, <2>5, <2>7
<1> QED
  BY <1>1, <1>2

LEMMA LongPressKeeps ==
  ASSUME TypeOK, NEW k \in ClusterState, Held(k), Together(k),
         NEW open \in Levels, NEW close \in Levels, AnyPressed(open, close),
         ButtonOK(open), ButtonOK(close), open.long_pressed \/ close.long_pressed,
         NEW open0 \in Levels, NEW close0 \in Levels,
         open0.pressed = open.pressed, close0.pressed = close.pressed
  PROVE  LET u == OnButtonLongPress(k, open, close)
         IN  /\ u \in ClusterState /\ SameSettings(u, k)
             /\ Held(u) /\ Together(u)
             /\ UpToDate(k, open0, close0) => UpToDate(u, open, close)
<1> DEFINE u == OnButtonLongPress(k, open, close)
<1>1. CASE k.switch_type = "toggle" \/ (open.pressed /\ close.pressed)
  <2>1. u = k
    BY <1>1 DEF OnButtonLongPress
  <2>2. UpToDate(k, open0, close0) => UpToDate(k, open, close)
    BY <1>1 DEF UpToDate, AnyPressed
  <2> QED
    BY <2>1, <2>2 DEF SameSettings
<1>2. CASE ~(k.switch_type = "toggle" \/ (open.pressed /\ close.pressed))
  <2> DEFINE long == IF open.pressed THEN "long_open" ELSE "long_close"
  <2>1. open.long_pressed = open.pressed
    BY <1>2 DEF ButtonOK, AnyPressed, Levels
  <2>2. u = UpdatePresentValue(k, Reversed(k, long))
    BY <1>2, <2>1 DEF OnButtonLongPress
  <2>3. Reversed(k, long) \in Long /\ Reversed(k, long) \in PresentValue
    BY DEF Reversed, Long, PresentValue
  <2>4. u \in ClusterState /\ SameSettings(u, k) /\ u.present_value = Reversed(k, long)
    BY <2>2, <2>3, UpdateFacts
  <2>5. Held(u)
    BY <2>2, <2>3, UpdateHeld
  <2>6. Together(u)
    BY <2>2, <2>3, UpdateTogether
  <2>7. u.present_value = Reversed(u, long)
    BY <2>4, ReversedAlike
  <2>8. UpToDate(u, open, close)
    BY <1>2, <2>4, <2>7 DEF UpToDate, AnyPressed, SameSettings
  <2> QED
    BY <2>4, <2>5, <2>6, <2>8
<1> QED
  BY <1>1, <1>2

LEMMA ReleaseKeeps ==
  ASSUME TypeOK, NEW k \in ClusterState, Held(k), Together(k),
         NEW open \in Levels, NEW close \in Levels, ~(open.pressed /\ close.pressed)
  PROVE  LET u == OnButtonRelease(k, open, close)
         IN  /\ u \in ClusterState /\ SameSettings(u, k)
             /\ Held(u) /\ Together(u)
             /\ ~AnyPressed(open, close) =>
                  /\ u.hold = {} /\ UpToDate(u, open, close)
                  /\ ~(u.switch_type = "momentary" /\ u.present_value = "stop")
             /\ k.present_value = "stop" => UpToDate(u, open, close)
<1> DEFINE u == OnButtonRelease(k, open, close)
<1>0. k.switch_type \in Type /\ "stop" \in PresentValue /\ "released" \in PresentValue
  BY DEF ClusterState, PresentValue
<1>1. CASE ~AnyPressed(open, close)
  <2> DEFINE value == IF k.switch_type = "toggle" THEN "stop" ELSE "released"
  <2>1. u = UpdatePresentValue(k, value) /\ value \in PresentValue
    BY <1>0, <1>1 DEF OnButtonRelease, AnyPressed
  <2>2. value \in {"stop", "released"} /\ (value = "released" => k.switch_type = "momentary")
    BY <1>0 DEF Type
  <2>3. u.hold = {}
    BY <2>1, <2>2, UpdateEnds
  <2>4. u \in ClusterState /\ SameSettings(u, k) /\ u.present_value = value
    BY <2>1, UpdateFacts
  <2>5. Together(u)
    BY <2>1, UpdateTogether
  <2>6. UpToDate(u, open, close)
    BY <1>1, <2>4 DEF UpToDate, AnyPressed, SameSettings
  <2> QED
    BY <1>0, <2>3, <2>4, <2>5, <2>6 DEF Held, SameSettings, Type
<1>2. CASE AnyPressed(open, close) /\ k.switch_type = "momentary"
  <2>1. u = k
    BY <1>2 DEF OnButtonRelease, AnyPressed
  <2>2. k.present_value = "stop" => UpToDate(k, open, close)
    BY <1>2 DEF UpToDate, AnyPressed
  <2> QED
    BY <1>2, <2>1, <2>2 DEF SameSettings
<1>3. CASE AnyPressed(open, close) /\ k.switch_type = "toggle"
  <2> DEFINE side == IF open.pressed THEN "open" ELSE "close"
  <2>1. u = UpdatePresentValue(k, Reversed(k, side))
    BY <1>3 DEF OnButtonRelease, AnyPressed
  <2>2. Reversed(k, side) \in Short /\ Reversed(k, side) \in PresentValue
    BY DEF Reversed, Short, PresentValue
  <2>3. u \in ClusterState /\ SameSettings(u, k) /\ u.present_value = Reversed(k, side)
    BY <2>1, <2>2, UpdateFacts
  <2>4. Held(u)
    BY <1>3, <2>1, <2>2, UpdateHeld
  <2>5. Together(u)
    BY <2>1, <2>2, UpdateTogether
  <2>6. u.present_value = Reversed(u, side)
    BY <2>3, ReversedAlike
  <2>7. UpToDate(u, open, close)
    BY <1>3, <2>3, <2>6 DEF UpToDate, AnyPressed, SameSettings
  <2> QED
    BY <1>3, <2>3, <2>4, <2>5, <2>7
<1> QED
  BY <1>0, <1>1, <1>2, <1>3 DEF Type

-----------------------------------------------------------------------------
(* The actions.                                                            *)

\* Between two events the cluster is as IInv has it.
LEMMA SilentKeeps ==
  ASSUME IInv
  PROVE  /\ Silent(s) \in ClusterState /\ SameSettings(Silent(s), s)
         /\ Silent(s).hold = s.hold /\ Silent(s).present_value = s.present_value
         /\ Silent(s).sent = Nothing
         /\ Held(Silent(s)) /\ Together(Silent(s))
<1>1. s \in ClusterState
  BY DEF IInv, TypeOK
<1>2. Nothing \in [Outputs -> Commands] /\ Nothing["local"] = Nothing["binded"]
  BY DEF Nothing, Commands, Outputs
<1>3. Silent(s) \in ClusterState /\ SameSettings(Silent(s), s)
      /\ Silent(s).hold = s.hold /\ Silent(s).present_value = s.present_value
      /\ Silent(s).sent = Nothing
  BY <1>1, <1>2 DEF Silent, ClusterState, SameSettings
<1>4. Held(Silent(s))
  BY <1>3 DEF IInv, Held, SameSettings, HasCover, WhileHeld
<1>5. Together(Silent(s))
  BY <1>2, <1>3 DEF Together
<1> QED
  BY <1>3, <1>4, <1>5

LEMMA InitIInv == Init => IInv
<1> SUFFICES ASSUME Init PROVE IInv
  OBVIOUS
<1>1. open_button \in Levels /\ close_button \in Levels
      /\ ButtonOK(open_button) /\ ButtonOK(close_button)
  BY DEF Init, Open!Started, Close!Started, Levels, ButtonOK
<1>2. DefaultSettings \in Settings
  BY CoverSwitchAssumption DEF DefaultSettings, Settings, Type, Mode
<1>3. s \in ClusterState
  BY CoverSwitchAssumption DEF Init, ClusterInit, DefaultSettings, ClusterState, Type, Mode,
    PresentValue, Moving, Nothing, Outputs, Commands
<1>4. moving \in [Covers -> Moving] /\ joined \in BOOLEAN /\ nv \subseteq Settings
      /\ heard \in BOOLEAN
  BY DEF Init, Moving
<1>5. TypeOK
  BY <1>1, <1>3, <1>4 DEF TypeOK, Levels, Open!ButtonLevels, Close!ButtonLevels
<1>6. s.hold = {} /\ s.present_value = "released" /\ s.sent = Nothing
  BY DEF Init, ClusterInit
<1>7. Held(s) /\ HoldEndsWithRelease /\ StopHeld /\ Together(s)
  BY <1>6 DEF Held, HoldEndsWithRelease, StopHeld, Together, Nothing, Outputs
<1>8. PresentValueInSync
  BY DEF Init, PresentValueInSync
<1>9. Stored
  BY DEF Init, Stored, Current, ClusterInit, DefaultSettings
<1> QED
  BY <1>1, <1>5, <1>7, <1>8, <1>9 DEF IInv

\* An event of a button leaves the stored attributes right.
LEMMA StoredKept ==
  ASSUME Stored, UNCHANGED nv, SameSettings(s', s)
  PROVE  Stored'
BY DEF Stored, Current, SameSettings

\* What a handler has to show.
LEMMA HandledIInv ==
  ASSUME IInv, UNCHANGED <<moving, joined, nv>>,
         open_button' \in Levels, close_button' \in Levels,
         ButtonOK(open_button'), ButtonOK(close_button'), heard' \in BOOLEAN,
         s' \in ClusterState, SameSettings(s', s), Held(s'), Together(s'),
         AnyPressed(open_button', close_button') \/
           (s'.hold = {} /\ ~(s'.switch_type = "momentary" /\ s'.present_value = "stop")),
         heard' => UpToDate(s', open_button', close_button')
  PROVE  IInv'
<1>1. TypeOK'
  BY DEF IInv, TypeOK, Levels, Open!ButtonLevels, Close!ButtonLevels
<1>2. Held(s)' /\ Together(s)'
  BY DEF Held, Together
<1>3. HoldEndsWithRelease'
  <2>1. s'.hold # {} => "local" \in s'.hold \/ "binded" \in s'.hold
    BY DEF ClusterState, Outputs
  <2> QED
    BY <2>1 DEF Held, HoldEndsWithRelease
<1>4. StopHeld' /\ PresentValueInSync'
  BY DEF StopHeld, PresentValueInSync
<1>5. Stored'
  BY StoredKept DEF IInv
<1>6. ButtonOK(open_button)' /\ ButtonOK(close_button)'
  BY DEF ButtonOK
<1> QED
  BY <1>1, <1>2, <1>3, <1>4, <1>5, <1>6 DEF IInv

LEMMA PressedIInv == IInv /\ Pressed => IInv'
<1> SUFFICES ASSUME IInv, Pressed PROVE IInv'
  OBVIOUS
<1> DEFINE k == Silent(s)
<1> DEFINE open == open_button'
<1> DEFINE close == close_button'
<1>1. open \in Levels /\ close \in Levels /\ ButtonOK(open) /\ ButtonOK(close)
      /\ AnyPressed(open, close)
      /\ (~(open.pressed /\ close.pressed) =>
           ~AnyPressed(open_button, close_button) /\ ~open.long_pressed /\ ~close.long_pressed)
  <2>1. open_button \in Levels /\ close_button \in Levels
        /\ ButtonOK(open_button) /\ ButtonOK(close_button)
    BY DEF IInv, TypeOK, Levels, Open!ButtonLevels, Close!ButtonLevels
  <2>2. CASE Open!Press /\ UNCHANGED close_button
    BY <2>1, <2>2 DEF Open!Press, Levels, ButtonOK, AnyPressed
  <2>3. CASE Close!Press /\ UNCHANGED open_button
    BY <2>1, <2>3 DEF Close!Press, Levels, ButtonOK, AnyPressed
  <2> QED
    BY <2>2, <2>3 DEF Pressed
<1>2. TypeOK /\ k \in ClusterState /\ Held(k) /\ Together(k) /\ k.hold = s.hold
      /\ SameSettings(k, s)
  BY SilentKeeps DEF IInv
<1>3. ~(open.pressed /\ close.pressed) => k.hold = {}
  BY <1>1, <1>2 DEF IInv, HoldEndsWithRelease
<1>4. s' = OnButtonPress(k, open, close) /\ heard' = TRUE /\ UNCHANGED <<moving, joined, nv>>
  BY DEF Pressed
<1> HIDE DEF k, open, close
<1>5. s' \in ClusterState /\ SameSettings(s', k) /\ Held(s') /\ Together(s')
      /\ UpToDate(s', open, close)
  BY <1>1, <1>2, <1>3, <1>4, PressKeeps
<1>6. SameSettings(s', s)
  BY <1>2, <1>5 DEF SameSettings
<1> QED
  BY <1>1, <1>4, <1>5, <1>6, HandledIInv DEF open, close

LEMMA LongPressedIInv == IInv /\ LongPressed => IInv'
<1> SUFFICES ASSUME IInv, LongPressed PROVE IInv'
  OBVIOUS
<1> DEFINE k == Silent(s)
<1> DEFINE open == open_button'
<1> DEFINE close == close_button'
<1>1. open \in Levels /\ close \in Levels /\ ButtonOK(open) /\ ButtonOK(close)
      /\ AnyPressed(open, close) /\ (open.long_pressed \/ close.long_pressed)
      /\ open_button \in Levels /\ close_button \in Levels
      /\ open_button.pressed = open.pressed /\ close_button.pressed = close.pressed
  BY DEF LongPressed, Open!LongPress, Close!LongPress, IInv, TypeOK, Levels, ButtonOK, AnyPressed,
    Open!ButtonLevels, Close!ButtonLevels
<1>2. TypeOK /\ k \in ClusterState /\ Held(k) /\ Together(k) /\ SameSettings(k, s)
      /\ k.present_value = s.present_value
  BY SilentKeeps DEF IInv
<1>3. s' = OnButtonLongPress(k, open, close) /\ UNCHANGED <<moving, joined, nv, heard>>
  BY DEF LongPressed
<1>4. UpToDate(s, open_button, close_button) => UpToDate(k, open_button, close_button)
  BY <1>2 DEF UpToDate, SameSettings, Reversed
<1> HIDE DEF k, open, close
<1>5. s' \in ClusterState /\ SameSettings(s', k) /\ Held(s') /\ Together(s')
      /\ (UpToDate(k, open_button, close_button) => UpToDate(s', open, close))
  BY <1>1, <1>2, <1>3, LongPressKeeps
<1>6. SameSettings(s', s)
  BY <1>2, <1>5 DEF SameSettings
<1>7. heard' \in BOOLEAN /\ (heard' => UpToDate(s', open, close))
  BY <1>3, <1>4, <1>5 DEF IInv, TypeOK, PresentValueInSync
<1> QED
  BY <1>1, <1>3, <1>5, <1>6, <1>7, HandledIInv DEF open, close

\* The levels that the first of two callbacks sees.
LEMMA PressedLongLevels ==
  ASSUME IInv, PressedLong
  PROVE  \E open0, close0 \in Levels :
           /\ open_button' \in Levels /\ close_button' \in Levels
           /\ ButtonOK(open_button') /\ ButtonOK(close_button')
           /\ open0.pressed = open_button'.pressed /\ close0.pressed = close_button'.pressed
           /\ AnyPressed(open_button', close_button') /\ AnyPressed(open0, close0)
           /\ open_button'.long_pressed \/ close_button'.long_pressed
           /\ ~(open0.pressed /\ close0.pressed) =>
                ~AnyPressed(open_button, close_button) /\ ~open0.long_pressed
                      /\ ~close0.long_pressed
           /\ s' = OnButtonLongPress(OnButtonPress(Silent(s), open0, close0), open_button',
                 close_button')
<1>1. open_button \in Levels /\ close_button \in Levels
      /\ ButtonOK(open_button) /\ ButtonOK(close_button)
  BY DEF IInv, TypeOK, Levels, Open!ButtonLevels, Close!ButtonLevels
<1> DEFINE short == [pressed |-> TRUE, long_pressed |-> FALSE]
<1> DEFINE long == [pressed |-> TRUE, long_pressed |-> TRUE]
<1>2. short \in Levels /\ long \in Levels /\ JustPressed = short
  BY DEF Levels, JustPressed
<1>3. CASE /\ Open!PressLong /\ UNCHANGED close_button
           /\ s' = OnButtonLongPress(
                     OnButtonPress(Silent(s), JustPressed, close_button),
                     open_button', close_button)
  <2>1. ~open_button.pressed /\ open_button' = long /\ close_button' = close_button
    BY <1>3 DEF Open!PressLong
  <2>2. s' = OnButtonLongPress(OnButtonPress(Silent(s), short, close_button), open_button',
        close_button')
    BY <1>2, <1>3, <2>1
  <2>3. ~(short.pressed /\ close_button.pressed) =>
          ~AnyPressed(open_button, close_button) /\ ~short.long_pressed
                /\ ~close_button.long_pressed
    BY <1>1, <2>1 DEF AnyPressed, Levels, ButtonOK
  <2>4. ButtonOK(long) /\ AnyPressed(long, close_button) /\ AnyPressed(short, close_button)
        /\ short.pressed = long.pressed /\ long.long_pressed
    BY DEF ButtonOK, AnyPressed
  <2> HIDE DEF short, long
  <2> QED
    BY <1>1, <1>2, <2>1, <2>2, <2>3, <2>4
<1>4. CASE /\ Close!PressLong /\ UNCHANGED open_button
           /\ s' = OnButtonLongPress(
                     OnButtonPress(Silent(s), open_button, JustPressed),
                     open_button, close_button')
  <2>1. ~close_button.pressed /\ close_button' = long /\ open_button' = open_button
    BY <1>4 DEF Close!PressLong
  <2>2. s' = OnButtonLongPress(OnButtonPress(Silent(s), open_button, short), open_button',
        close_button')
    BY <1>2, <1>4, <2>1
  <2>3. ~(open_button.pressed /\ short.pressed) =>
          ~AnyPressed(open_button, close_button) /\ ~open_button.long_pressed /\ ~short.long_pressed
    BY <1>1, <2>1 DEF AnyPressed, Levels, ButtonOK
  <2>4. ButtonOK(long) /\ AnyPressed(open_button, long) /\ AnyPressed(open_button, short)
        /\ short.pressed = long.pressed /\ long.long_pressed
    BY DEF ButtonOK, AnyPressed
  <2> HIDE DEF short, long
  <2> QED
    BY <1>1, <1>2, <2>1, <2>2, <2>3, <2>4
<1> QED
  BY <1>3, <1>4 DEF PressedLong

LEMMA PressedLongIInv == IInv /\ PressedLong => IInv'
<1> SUFFICES ASSUME IInv, PressedLong PROVE IInv'
  OBVIOUS
<1> DEFINE k == Silent(s)
<1> DEFINE open == open_button'
<1> DEFINE close == close_button'
<1>1. PICK open0 \in Levels, close0 \in Levels :
           /\ open \in Levels /\ close \in Levels
           /\ ButtonOK(open) /\ ButtonOK(close)
           /\ open0.pressed = open.pressed /\ close0.pressed = close.pressed
           /\ AnyPressed(open, close) /\ AnyPressed(open0, close0)
           /\ open.long_pressed \/ close.long_pressed
           /\ ~(open0.pressed /\ close0.pressed) =>
                ~AnyPressed(open_button, close_button) /\ ~open0.long_pressed
                      /\ ~close0.long_pressed
           /\ s' = OnButtonLongPress(OnButtonPress(k, open0, close0), open, close)
  BY PressedLongLevels
<1>2. TypeOK /\ k \in ClusterState /\ Held(k) /\ Together(k) /\ k.hold = s.hold
      /\ SameSettings(k, s)
  BY SilentKeeps DEF IInv
<1>3. ~(open0.pressed /\ close0.pressed) => k.hold = {}
  BY <1>1, <1>2 DEF IInv, HoldEndsWithRelease
<1>4. heard' = TRUE /\ UNCHANGED <<moving, joined, nv>>
  BY DEF PressedLong
<1> HIDE DEF k, open, close
<1> DEFINE pressed == OnButtonPress(k, open0, close0)
<1>5. pressed \in ClusterState /\ SameSettings(pressed, k) /\ Held(pressed) /\ Together(pressed)
      /\ UpToDate(pressed, open0, close0)
  BY <1>1, <1>2, <1>3, PressKeeps
<1> HIDE DEF pressed
<1>6. s' \in ClusterState /\ SameSettings(s', pressed) /\ Held(s') /\ Together(s')
      /\ UpToDate(s', open, close)
  BY <1>1, <1>2, <1>5, LongPressKeeps DEF pressed
<1>7. SameSettings(s', s)
  BY <1>2, <1>5, <1>6 DEF SameSettings
<1> QED
  BY <1>1, <1>4, <1>6, <1>7, HandledIInv DEF open, close

LEMMA ReleasedIInv == IInv /\ Released => IInv'
<1> SUFFICES ASSUME IInv, Released PROVE IInv'
  OBVIOUS
<1> DEFINE k == Silent(s)
<1> DEFINE open == open_button'
<1> DEFINE close == close_button'
<1>1. open \in Levels /\ close \in Levels /\ ButtonOK(open) /\ ButtonOK(close)
      /\ ~(open.pressed /\ close.pressed)
      /\ (AnyPressed(open, close) => open_button.pressed /\ close_button.pressed)
  <2>1. open_button \in Levels /\ close_button \in Levels
        /\ ButtonOK(open_button) /\ ButtonOK(close_button)
    BY DEF IInv, TypeOK, Levels, Open!ButtonLevels, Close!ButtonLevels
  <2>2. CASE Open!Release /\ UNCHANGED close_button
    BY <2>1, <2>2 DEF Open!Release, Levels, ButtonOK, AnyPressed
  <2>3. CASE Close!Release /\ UNCHANGED open_button
    BY <2>1, <2>3 DEF Close!Release, Levels, ButtonOK, AnyPressed
  <2> QED
    BY <2>2, <2>3 DEF Released
<1>2. TypeOK /\ k \in ClusterState /\ Held(k) /\ Together(k) /\ SameSettings(k, s)
      /\ k.present_value = s.present_value
  BY SilentKeeps DEF IInv
<1>3. s' = OnButtonRelease(k, open, close) /\ UNCHANGED <<moving, joined, nv>>
      /\ heard' = (heard \/ ~AnyPressed(open, close))
  BY DEF Released
<1>4. heard /\ AnyPressed(open, close) => k.present_value = "stop"
  <2>1. heard => UpToDate(s, open_button, close_button)
    BY DEF IInv, PresentValueInSync
  <2>2. open_button.pressed /\ close_button.pressed =>
          (UpToDate(s, open_button, close_button) => s.present_value = "stop")
    BY DEF UpToDate, AnyPressed
  <2> QED
    BY <1>1, <1>2, <2>1, <2>2
<1> HIDE DEF k, open, close
<1>5. /\ s' \in ClusterState /\ SameSettings(s', k) /\ Held(s') /\ Together(s')
      /\ ~AnyPressed(open, close) =>
           /\ s'.hold = {} /\ UpToDate(s', open, close)
           /\ ~(s'.switch_type = "momentary" /\ s'.present_value = "stop")
      /\ k.present_value = "stop" => UpToDate(s', open, close)
  BY <1>1, <1>2, <1>3, ReleaseKeeps
<1>6. SameSettings(s', s)
  BY <1>2, <1>5 DEF SameSettings
<1>7. heard' \in BOOLEAN /\ (heard' => UpToDate(s', open, close))
  BY <1>3, <1>4, <1>5 DEF IInv, TypeOK
<1> QED
  BY <1>1, <1>3, <1>5, <1>6, <1>7, HandledIInv DEF open, close

\* What a write has to show.
LEMMA WrittenIInv ==
  ASSUME IInv, NEW k \in ClusterState, NEW abandoned \in SUBSET Outputs, Write(k, abandoned),
         k.sent = s.sent, k.hold = s.hold,
         \A o \in Outputs \ abandoned :
           /\ k.switch_type = s.switch_type /\ k.present_value = s.present_value
           /\ o = "local" => k.cover_index = s.cover_index /\ k.local_mode = s.local_mode
           /\ o = "binded" => k.binded_mode = s.binded_mode,
         k.switch_type = "momentary" /\ k.present_value = "stop" =>
           s.switch_type = "momentary" /\ s.present_value = "stop",
         heard' \in BOOLEAN, heard' => UpToDate(k, open_button, close_button)
  PROVE  IInv'
<1>1. Nothing \in [Outputs -> Commands] /\ Nothing["local"] = Nothing["binded"]
  BY DEF Nothing, Commands, Outputs
<1>2. /\ s' \in ClusterState /\ SameSettings(s', k) /\ s'.present_value = k.present_value
      /\ s'.sent = Nothing /\ s'.hold = s.hold \ abandoned
  BY <1>1 DEF Write, Silent, ClusterState, SameSettings
<1>3. UNCHANGED <<open_button, close_button, moving, joined>> /\ nv' = {Current'}
  BY DEF Write, Store, buttons
<1>4. Current' \in Settings
  BY <1>2 DEF Current, Settings, ClusterState
<1>5. TypeOK' /\ Stored'
  BY <1>2, <1>3, <1>4 DEF IInv, TypeOK, Stored
<1>6. s.hold \subseteq Outputs
  BY DEF IInv, TypeOK, ClusterState
<1>7. Held(s')
  BY <1>2, <1>6 DEF IInv, Held, HasCover, WhileHeld, SameSettings, Outputs
<1>8. Held(s)'
  BY <1>3, <1>7 DEF Held
<1>9. Together(s)'
  BY <1>1, <1>2 DEF Together
<1>10. HoldEndsWithRelease'
  BY <1>2, <1>3, <1>6 DEF IInv, HoldEndsWithRelease, AnyPressed
<1>11. StopHeld'
  BY <1>2, <1>3 DEF IInv, StopHeld, AnyPressed, SameSettings
<1>12. UpToDate(k, open_button, close_button) => UpToDate(s', open_button, close_button)
  BY <1>2 DEF UpToDate, SameSettings, Reversed
<1>13. PresentValueInSync'
  BY <1>3, <1>12 DEF PresentValueInSync
<1>14. ButtonOK(open_button)' /\ ButtonOK(close_button)'
  BY <1>3 DEF IInv, ButtonOK
<1> QED
  BY <1>5, <1>8, <1>9, <1>10, <1>11, <1>13, <1>14 DEF IInv

LEMMA WriteTypeIInv == IInv /\ WriteType => IInv'
<1> SUFFICES ASSUME IInv, NEW t \in Types,
                    Write([s EXCEPT !.switch_type = t,
                             !.present_value = IF t = "toggle" THEN "stop"
                                   ELSE "released"], Outputs),
                    heard' = ~AnyPressed(open_button, close_button)
             PROVE  IInv'
  BY DEF WriteType
<1> DEFINE k == [s EXCEPT !.switch_type = t,
                          !.present_value = IF t = "toggle" THEN "stop" ELSE "released"]
<1>1. s \in ClusterState /\ t \in Type
  BY CoverSwitchAssumption DEF IInv, TypeOK
<1>2. k \in ClusterState /\ k.sent = s.sent /\ k.hold = s.hold /\ k.switch_type = t
      /\ k.present_value = IF t = "toggle" THEN "stop" ELSE "released"
  BY <1>1 DEF ClusterState, PresentValue
<1>3. heard' \in BOOLEAN
  OBVIOUS
<1>4. heard' => UpToDate(k, open_button, close_button)
  BY <1>2 DEF UpToDate, AnyPressed
<1>5. Outputs \in SUBSET Outputs /\ ~(k.switch_type = "momentary" /\ k.present_value = "stop")
  BY <1>2
<1> HIDE DEF k
<1> QED
  BY <1>2, <1>3, <1>4, <1>5, WrittenIInv DEF k

LEMMA WriteCoverIndexIInv == IInv /\ WriteCoverIndex => IInv'
<1> SUFFICES ASSUME IInv, NEW i \in Indexes,
                    Write([s EXCEPT !.cover_index = i], Unless(i = s.cover_index, {"local"})),
                    UNCHANGED heard
             PROVE  IInv'
  BY DEF WriteCoverIndex
<1> DEFINE k == [s EXCEPT !.cover_index = i]
<1> DEFINE abandoned == Unless(i = s.cover_index, {"local"})
<1>1. s \in ClusterState /\ i \in Nat
  BY CoverSwitchAssumption DEF IInv, TypeOK
<1>2. k \in ClusterState /\ k.sent = s.sent /\ k.hold = s.hold /\ k.cover_index = i
      /\ k.switch_type = s.switch_type /\ k.present_value = s.present_value
      /\ k.reversal = s.reversal
      /\ k.local_mode = s.local_mode /\ k.binded_mode = s.binded_mode
  BY <1>1 DEF ClusterState
<1>3. heard' \in BOOLEAN /\ (heard' => UpToDate(k, open_button, close_button))
  BY <1>2 DEF IInv, TypeOK, PresentValueInSync, UpToDate, Reversed
<1>4. abandoned \in SUBSET Outputs /\ ("local" \notin abandoned => k.cover_index = s.cover_index)
  BY <1>2 DEF Unless, Outputs
<1>5. Write(k, abandoned)
  OBVIOUS
<1> HIDE DEF k, abandoned
<1> QED
  BY <1>2, <1>3, <1>4, <1>5, WrittenIInv

LEMMA WriteReversalIInv == IInv /\ WriteReversal => IInv'
<1> SUFFICES ASSUME IInv, NEW r \in BOOLEAN, Write([s EXCEPT !.reversal = r], {}),
                    heard' = (heard
                          /\ (s'.reversal = s.reversal \/ ~AnyPressed(open_button, close_button)))
             PROVE  IInv'
  BY DEF WriteReversal
<1> DEFINE k == [s EXCEPT !.reversal = r]
<1>1. s \in ClusterState
  BY DEF IInv, TypeOK
<1>2. k \in ClusterState /\ k.sent = s.sent /\ k.hold = s.hold /\ k.cover_index = s.cover_index
      /\ k.switch_type = s.switch_type /\ k.present_value = s.present_value
      /\ k.reversal = r
      /\ k.local_mode = s.local_mode /\ k.binded_mode = s.binded_mode
  BY <1>1 DEF ClusterState
<1>3. s'.reversal = r
  BY <1>1 DEF Write, Silent, ClusterState
<1>4. heard' \in BOOLEAN
  BY DEF IInv, TypeOK
<1>5. UpToDate(s, open_button, close_button) /\ r = s.reversal
      => UpToDate(k, open_button, close_button)
  BY <1>2 DEF UpToDate, Reversed
<1>6. UpToDate(s, open_button, close_button) /\ ~AnyPressed(open_button, close_button)
        => UpToDate(k, open_button, close_button)
  BY <1>2 DEF UpToDate, AnyPressed
<1>7. heard' => UpToDate(k, open_button, close_button)
  BY <1>3, <1>5, <1>6 DEF IInv, PresentValueInSync
<1>8. Write(k, {}) /\ {} \in SUBSET Outputs
  OBVIOUS
<1> HIDE DEF k
<1> QED
  BY <1>2, <1>4, <1>7, <1>8, WrittenIInv

LEMMA WriteLocalModeIInv == IInv /\ WriteLocalMode => IInv'
<1> SUFFICES ASSUME IInv, NEW m \in LocalModes,
                    Write([s EXCEPT !.local_mode = m], Unless(m = s.local_mode, {"local"})),
                    UNCHANGED heard
             PROVE  IInv'
  BY DEF WriteLocalMode
<1> DEFINE k == [s EXCEPT !.local_mode = m]
<1> DEFINE abandoned == Unless(m = s.local_mode, {"local"})
<1>1. s \in ClusterState /\ m \in Mode
  BY CoverSwitchAssumption DEF IInv, TypeOK
<1>2. k \in ClusterState /\ k.sent = s.sent /\ k.hold = s.hold /\ k.cover_index = s.cover_index
      /\ k.switch_type = s.switch_type /\ k.present_value = s.present_value
      /\ k.reversal = s.reversal
      /\ k.local_mode = m /\ k.binded_mode = s.binded_mode
  BY <1>1 DEF ClusterState
<1>3. heard' \in BOOLEAN /\ (heard' => UpToDate(k, open_button, close_button))
  BY <1>2 DEF IInv, TypeOK, PresentValueInSync, UpToDate, Reversed
<1>4. abandoned \in SUBSET Outputs /\ ("local" \notin abandoned => k.local_mode = s.local_mode)
  BY <1>2 DEF Unless, Outputs
<1>5. Write(k, abandoned)
  OBVIOUS
<1> HIDE DEF k, abandoned
<1> QED
  BY <1>2, <1>3, <1>4, <1>5, WrittenIInv

LEMMA WriteBindedModeIInv == IInv /\ WriteBindedMode => IInv'
<1> SUFFICES ASSUME IInv, NEW m \in BindedModes,
                    Write([s EXCEPT !.binded_mode = m], Unless(m = s.binded_mode, {"binded"})),
                    UNCHANGED heard
             PROVE  IInv'
  BY DEF WriteBindedMode
<1> DEFINE k == [s EXCEPT !.binded_mode = m]
<1> DEFINE abandoned == Unless(m = s.binded_mode, {"binded"})
<1>1. s \in ClusterState /\ m \in Mode
  BY CoverSwitchAssumption DEF IInv, TypeOK
<1>2. k \in ClusterState /\ k.sent = s.sent /\ k.hold = s.hold /\ k.cover_index = s.cover_index
      /\ k.switch_type = s.switch_type /\ k.present_value = s.present_value
      /\ k.reversal = s.reversal
      /\ k.local_mode = s.local_mode /\ k.binded_mode = m
  BY <1>1 DEF ClusterState
<1>3. heard' \in BOOLEAN /\ (heard' => UpToDate(k, open_button, close_button))
  BY <1>2 DEF IInv, TypeOK, PresentValueInSync, UpToDate, Reversed
<1>4. abandoned \in SUBSET Outputs /\ ("binded" \notin abandoned => k.binded_mode = s.binded_mode)
  BY <1>2 DEF Unless, Outputs
<1>5. Write(k, abandoned)
  OBVIOUS
<1> HIDE DEF k, abandoned
<1> QED
  BY <1>2, <1>3, <1>4, <1>5, WrittenIInv

LEMMA WriteLongPressDurationIInv == IInv /\ WriteLongPressDuration => IInv'
<1> SUFFICES ASSUME IInv, Write(s, {}), UNCHANGED heard PROVE IInv'
  BY DEF WriteLongPressDuration
<1>1. s \in ClusterState /\ {} \in SUBSET Outputs
  BY DEF IInv, TypeOK
<1>2. heard' \in BOOLEAN /\ (heard' => UpToDate(s, open_button, close_button))
  BY DEF IInv, TypeOK, PresentValueInSync
<1> QED
  BY <1>1, <1>2, WrittenIInv

LEMMA RebootIInv == IInv /\ Reboot => IInv'
<1> SUFFICES ASSUME IInv, Reboot PROVE IInv'
  OBVIOUS
<1>1. open_button' \in Levels /\ close_button' \in Levels
      /\ ButtonOK(open_button') /\ ButtonOK(close_button')
  BY DEF Reboot, Open!Start, Close!Start, Levels, ButtonOK
<1>2. Loaded(nv) = Current
  BY DEF IInv, Stored, Loaded
<1>3. Current \in Settings
  BY DEF IInv, TypeOK, Current, Settings, ClusterState
<1>4. s' = ClusterInit(Current) /\ moving' = [i \in Covers |-> "stopped"]
      /\ heard' = FALSE /\ UNCHANGED <<joined, nv>>
  BY <1>2 DEF Reboot
<1>5. SameSettings(s', s) /\ s'.present_value = "released" /\ s'.hold = {} /\ s'.sent = Nothing
  BY <1>4 DEF ClusterInit, Current, SameSettings
<1>6. s' \in ClusterState
  BY <1>3, <1>4 DEF ClusterInit, ClusterState, Settings, PresentValue, Moving, Nothing, Commands
<1>7. TypeOK'
  BY <1>1, <1>4, <1>6 DEF IInv, TypeOK, Levels, Open!ButtonLevels, Close!ButtonLevels, Moving
<1>8. (Held(s) /\ Together(s) /\ HoldEndsWithRelease /\ StopHeld)'
  BY <1>5 DEF Held, Together, HoldEndsWithRelease, StopHeld, Nothing, Outputs
<1>9. PresentValueInSync'
  BY <1>4 DEF PresentValueInSync
<1>10. Stored'
  BY <1>4, <1>5, StoredKept DEF IInv
<1>11. ButtonOK(open_button)' /\ ButtonOK(close_button)'
  BY <1>1 DEF ButtonOK
<1> QED
  BY <1>7, <1>8, <1>9, <1>10, <1>11 DEF IInv

\* Neither a cover that moves nor a network that changes touches the switch.
LEMMA SurroundingsIInv == IInv /\ (CoverMoves \/ NetworkChanges) => IInv'
<1> SUFFICES ASSUME IInv, CoverMoves \/ NetworkChanges PROVE IInv'
  OBVIOUS
<1> DEFINE k == Silent(s)
<1>1. k \in ClusterState /\ SameSettings(k, s) /\ k.hold = s.hold
      /\ k.present_value = s.present_value /\ k.sent = Nothing
  BY SilentKeeps
<1>2. UNCHANGED <<open_button, close_button, nv, heard>>
  BY DEF CoverMoves, NetworkChanges, buttons
<1>3. moving' \in [Covers -> Moving] /\ joined' \in BOOLEAN
  BY DEF CoverMoves, NetworkChanges, IInv, TypeOK
<1>4. /\ s' \in ClusterState /\ SameSettings(s', s) /\ s'.present_value = s.present_value
      /\ s'.sent = Nothing /\ s'.hold \subseteq s.hold
      /\ "binded" \in s'.hold => joined' = joined
  <2>1. CASE CoverMoves
    BY <1>1, <2>1 DEF CoverMoves
  <2>2. CASE NetworkChanges
    <3>1. s' = [k EXCEPT !.hold = k.hold \ {"binded"}]
      BY <2>2 DEF NetworkChanges
    <3> HIDE DEF k
    <3> QED
      BY <1>1, <3>1 DEF ClusterState, SameSettings
  <2> QED
    BY <2>1, <2>2
<1> HIDE DEF k
<1>5. TypeOK'
  BY <1>2, <1>3, <1>4 DEF IInv, TypeOK
<1>6. Held(s)'
  BY <1>4 DEF IInv, Held, SameSettings, HasCover, WhileHeld
<1>7. Together(s)'
  BY <1>4 DEF Together, Nothing, Outputs
<1>8. HoldEndsWithRelease' /\ StopHeld'
  BY <1>2, <1>4 DEF IInv, HoldEndsWithRelease, StopHeld, AnyPressed, SameSettings
<1>9. PresentValueInSync'
  BY <1>2, <1>4 DEF IInv, PresentValueInSync, UpToDate, SameSettings, Reversed
<1>10. Stored'
  BY <1>2, <1>4, StoredKept DEF IInv
<1>11. ButtonOK(open_button)' /\ ButtonOK(close_button)'
  BY <1>2 DEF IInv, ButtonOK
<1> QED
  BY <1>5, <1>6, <1>7, <1>8, <1>9, <1>10, <1>11 DEF IInv

LEMMA StutterIInv == IInv /\ UNCHANGED vars => IInv'
BY DEF IInv, vars, buttons, TypeOK, ButtonOK, Held, HoldEndsWithRelease, Together, StopHeld,
  PresentValueInSync, Stored, Current, HasCover, Open!ButtonLevels, Close!ButtonLevels

LEMMA NextIInv == IInv /\ [Next]_vars => IInv'
<1> SUFFICES ASSUME IInv, [Next]_vars PROVE IInv'
  OBVIOUS
<1>1. CASE Pressed \/ LongPressed \/ PressedLong \/ Released
  BY <1>1, PressedIInv, LongPressedIInv, PressedLongIInv, ReleasedIInv
<1>2. CASE WriteType \/ WriteCoverIndex \/ WriteReversal \/ WriteLocalMode
             \/ WriteBindedMode \/ WriteLongPressDuration
  BY <1>2, WriteTypeIInv, WriteCoverIndexIInv, WriteReversalIInv, WriteLocalModeIInv,
    WriteBindedModeIInv, WriteLongPressDurationIInv
<1>3. CASE Reboot
  BY <1>3, RebootIInv
<1>4. CASE CoverMoves \/ NetworkChanges
  BY <1>4, SurroundingsIInv
<1>5. CASE UNCHANGED vars
  BY <1>5, StutterIInv
<1> QED
  BY <1>1, <1>2, <1>3, <1>4, <1>5 DEF Next

LEMMA Invariance == Spec => []IInv
<1> QED
  BY InitIInv, NextIInv, PTL DEF Spec

-----------------------------------------------------------------------------
(* Theorems.                                                               *)

\* The attributes, the buttons and the observations stay in their domains.
THEOREM TypeCorrect == Spec => []TypeOK
<1>1. IInv => TypeOK
  BY DEF IInv
<1> QED
  BY <1>1, Invariance, PTL

\* What moves while a button is held is stopped by the release: for any number of covers,
\* whatever is written, received or pressed in between.
THEOREM HoldsEnd == Spec => []HoldEndsWithRelease
<1>1. IInv => HoldEndsWithRelease
  BY DEF IInv
<1> QED
  BY <1>1, Invariance, PTL

\* With matching modes the cover of the device and the bound ones are told the same.
THEOREM SameCommand == Spec => []KeptTogether
<1>1. IInv => KeptTogether
  BY DEF IInv, Together, KeptTogether
<1> QED
  BY <1>1, Invariance, PTL

\* The reported present value tells the buttons.
THEOREM PresentValueTells == Spec => []PresentValueInSync
<1>1. IInv => PresentValueInSync
  BY DEF IInv
<1> QED
  BY <1>1, Invariance, PTL

\* The attributes survive a restart.
THEOREM SettingsSurvive == Spec => []RestartKeepsSettings
<1>1. IInv => RestartKeepsSettings
  BY DEF IInv, Stored, RestartKeepsSettings, Loaded
<1> QED
  BY <1>1, Invariance, PTL

\* No command, or a long press.
Final(k) == k.present_value \in Long \/ \A o \in Outputs : k.sent[o] \notin Moves

LEMMA SilentFinal == IInv => Final(Silent(s))
BY SilentKeeps DEF Final, Nothing, Moves, None

LEMMA StopStep ==
  ASSUME IInv, Next, s.present_value = "stop", s.switch_type = "momentary"
  PROVE  Final(s')
<1> DEFINE k == Silent(s)
<1>1. TypeOK /\ k \in ClusterState /\ k.switch_type = "momentary"
      /\ k.present_value = "stop" /\ Final(k)
  BY SilentKeeps, SilentFinal DEF IInv, SameSettings
<1>2. open_button \in Levels /\ close_button \in Levels /\ AnyPressed(open_button, close_button)
  BY DEF IInv, TypeOK, StopHeld, Levels, Open!ButtonLevels, Close!ButtonLevels
<1>3. "stop" \in PresentValue /\ "released" \in PresentValue
  BY DEF PresentValue
<1>4. UpdatePresentValue(k, "stop") = k
  BY <1>1 DEF UpdatePresentValue
<1>5. CASE Pressed
  <2>1. open_button'.pressed /\ close_button'.pressed
    BY <1>2, <1>5 DEF Pressed, Open!Press, Close!Press, AnyPressed
  <2>2. s' = OnButtonPress(k, open_button', close_button')
    BY <1>5 DEF Pressed
  <2> HIDE DEF k
  <2>3. s' = UpdatePresentValue(k, "stop")
    BY <2>1, <2>2 DEF OnButtonPress
  <2> QED
    BY <1>1, <1>4, <2>3
<1>6. CASE LongPressed
  <2>1. s' = OnButtonLongPress(k, open_button', close_button')
    BY <1>6 DEF LongPressed
  <2> HIDE DEF k
  <2>2. CASE open_button'.pressed /\ close_button'.pressed
    BY <1>1, <2>1, <2>2 DEF OnButtonLongPress
  <2>3. CASE ~(open_button'.pressed /\ close_button'.pressed)
    <3> DEFINE value == IF open_button'.long_pressed THEN Reversed(k, "long_open")
          ELSE Reversed(k, "long_close")
    <3>1. s' = UpdatePresentValue(k, value)
      BY <1>1, <2>1, <2>3 DEF OnButtonLongPress
    <3>2. value \in Long /\ value \in PresentValue
      BY DEF Reversed, Long, PresentValue
    <3> HIDE DEF value
    <3> QED
      BY <1>1, <3>1, <3>2, UpdateFacts DEF Final
  <2> QED
    BY <2>2, <2>3
<1>7. CASE PressedLong
  <2>1. PICK open0 \in Levels, close0 \in Levels :
             /\ open0.pressed = open_button'.pressed /\ close0.pressed = close_button'.pressed
             /\ ~(open0.pressed /\ close0.pressed) => ~AnyPressed(open_button, close_button)
             /\ s' = OnButtonLongPress(OnButtonPress(k, open0, close0), open_button', close_button')
    BY <1>7, PressedLongLevels
  <2> HIDE DEF k
  <2>2. open0.pressed /\ close0.pressed
    BY <1>2, <2>1
  <2>3. OnButtonPress(k, open0, close0) = k
    BY <1>4, <2>2 DEF OnButtonPress
  <2>4. s' = k
    BY <2>1, <2>2, <2>3 DEF OnButtonLongPress
  <2> QED
    BY <1>1, <2>4
<1>8. CASE Released
  <2>1. s' = OnButtonRelease(k, open_button', close_button')
    BY <1>8 DEF Released
  <2> HIDE DEF k
  <2>2. CASE AnyPressed(open_button', close_button')
    BY <1>1, <2>1, <2>2 DEF OnButtonRelease, AnyPressed
  <2>3. CASE ~AnyPressed(open_button', close_button')
    <3>1. s' = UpdatePresentValue(k, "released")
      BY <1>1, <2>1, <2>3 DEF OnButtonRelease, AnyPressed
    <3>2. \A mode, m : GetCmd(k, "released", mode, m) = None
      BY <1>1 DEF GetCmd, MomentaryCmd, Short, Long, None
    <3>3. LocalCmd(k, "released") = None /\ Delivered(BindedCmd(k, "released")) = None
      BY <3>2 DEF LocalCmd, BindedCmd, Delivered
    <3>4. s'.sent = [local |-> None, binded |-> None]
      BY <1>1, <1>3, <3>1, <3>3, UpdateEffects
    <3> QED
      BY <3>4 DEF Final, Outputs, Moves, None
  <2> QED
    BY <2>2, <2>3
<1>9. CASE WriteType \/ WriteCoverIndex \/ WriteReversal \/ WriteLocalMode
             \/ WriteBindedMode \/ WriteLongPressDuration
  <2>1. ASSUME NEW w \in ClusterState, NEW abandoned, Write(w, abandoned)
        PROVE  s'.sent = Nothing
    BY <2>1 DEF Write, Silent, ClusterState
  <2>2. s \in ClusterState
    BY DEF IInv, TypeOK
  <2>3. s'.sent = Nothing
    <3>1. CASE WriteType
      <4>1. \A t \in Types : [s EXCEPT !.switch_type = t,
                !.present_value = IF t = "toggle" THEN "stop" ELSE "released"] \in ClusterState
        BY <1>3, <2>2, CoverSwitchAssumption DEF ClusterState
      <4> QED
        BY <2>1, <3>1, <4>1 DEF WriteType
    <3>2. CASE WriteCoverIndex
      <4>1. \A i \in Indexes : [s EXCEPT !.cover_index = i] \in ClusterState
        BY <2>2, CoverSwitchAssumption DEF ClusterState
      <4> QED
        BY <2>1, <3>2, <4>1 DEF WriteCoverIndex
    <3>3. CASE WriteReversal
      <4>1. \A r \in BOOLEAN : [s EXCEPT !.reversal = r] \in ClusterState
        BY <2>2 DEF ClusterState
      <4> QED
        BY <2>1, <3>3, <4>1 DEF WriteReversal
    <3>4. CASE WriteLocalMode
      <4>1. \A m \in LocalModes : [s EXCEPT !.local_mode = m] \in ClusterState
        BY <2>2, CoverSwitchAssumption DEF ClusterState
      <4> QED
        BY <2>1, <3>4, <4>1 DEF WriteLocalMode
    <3>5. CASE WriteBindedMode
      <4>1. \A m \in BindedModes : [s EXCEPT !.binded_mode = m] \in ClusterState
        BY <2>2, CoverSwitchAssumption DEF ClusterState
      <4> QED
        BY <2>1, <3>5, <4>1 DEF WriteBindedMode
    <3>6. CASE WriteLongPressDuration
      BY <2>1, <2>2, <3>6 DEF WriteLongPressDuration
    <3> QED
      BY <1>9, <3>1, <3>2, <3>3, <3>4, <3>5, <3>6
  <2> QED
    BY <2>3 DEF Final, Nothing, Moves, None
<1>10. CASE Reboot
  BY <1>10 DEF Reboot, ClusterInit, Final, Nothing, Moves, None
<1>11. CASE CoverMoves
  BY <1>1, <1>11 DEF CoverMoves
<1>12. CASE NetworkChanges
  <2>1. s' = [k EXCEPT !.hold = k.hold \ {"binded"}]
    BY <1>12 DEF NetworkChanges
  <2> HIDE DEF k
  <2> QED
    BY <1>1, <2>1 DEF ClusterState, Final
<1> QED
  BY <1>5, <1>6, <1>7, <1>8, <1>9, <1>10, <1>11, <1>12 DEF Next

\* Letting go of a momentary switch that was stopped with both buttons moves nothing.
THEOREM StopStays == Spec => StopIsFinal
<1>1. IInv /\ [Next]_vars =>
        [s.present_value = "stop" /\ s.switch_type = "momentary"
           /\ (\E o \in Outputs : s'.sent[o] \in Moves) => s'.present_value \in Long]_vars
  BY StopStep DEF Final
<1> QED
  BY <1>1, Invariance, PTL DEF Spec, StopIsFinal
=============================================================================
