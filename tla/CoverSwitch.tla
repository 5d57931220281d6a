----------------------------- MODULE CoverSwitch -----------------------------
(***************************************************************************)
(* The cover switch cluster (src/zigbee/cover_switch_cluster.c): what the  *)
(* presses, long presses and releases of two buttons tell a cover of the   *)
(* device and the covers bound to it, according to attributes that may be  *)
(* rewritten at any moment, also while a button is held.                   *)
(*                                                                         *)
(* The buttons are ButtonEvents.  The covers of the device may start, turn *)
(* and stop at any moment: they defer commands, stop by themselves and are *)
(* commanded by others, see CoverCluster.                                  *)
(***************************************************************************)
EXTENDS Integers

CONSTANTS
  SwitchIdx,       \* cover_switch_idx
  CoverClusters,   \* cover_clusters_cnt
  \* the values that the coordinator writes
  Types, Indexes, LocalModes, BindedModes

Type == {"toggle", "momentary"}
Mode == {"immediate", "short_press", "long_press", "hybrid"}
Covers == 1 .. CoverClusters

ASSUME CoverSwitchAssumption ==
  /\ SwitchIdx \in Nat /\ CoverClusters \in Nat
  /\ Types \subseteq Type /\ Indexes \subseteq Nat
  /\ LocalModes \subseteq Mode /\ BindedModes \subseteq Mode

VARIABLES
  open_button, close_button,
  s,        \* the cluster
  moving,   \* the attribute "moving" of the covers of the device
  joined,   \* the network status
  nv,       \* stored attributes: {} before the first write
  heard     \* observed: present_value is up to date, see PresentValueInSync

Open == INSTANCE ButtonEvents WITH b <- open_button
Close == INSTANCE ButtonEvents WITH b <- close_button

buttons == <<open_button, close_button>>
vars == <<buttons, s, moving, joined, nv, heard>>

None == "none"
Moves == {"open", "close"}
Commands == Moves \cup {"stop", None}
Short == {"open", "close"}
Long == {"long_open", "long_close"}
PresentValue == {"released", "stop"} \cup Short \cup Long
Moving == {"stopped", "opening", "closing"}
Outputs == {"local", "binded"}

Settings ==
  [switch_type: Type, cover_index: Nat, reversal: BOOLEAN, local_mode: Mode, binded_mode: Mode]

\* sent: the commands of the last event; hold: the outputs that were set moving for as
\* long as a button is held or a contact closed (both observed).
ClusterState ==
  [switch_type: Type, cover_index: Nat, reversal: BOOLEAN, local_mode: Mode, binded_mode: Mode,
   present_value: PresentValue, binded_moving: Moving,
   sent: [Outputs -> Commands], hold: SUBSET Outputs]

Nothing == [o \in Outputs |-> None]
HasCover(k) == k.cover_index \in Covers

-----------------------------------------------------------------------------
(* Commands.                                                               *)

Direction(value) == IF value \in {"open", "long_open"} THEN "open" ELSE "close"
MovingAfter(cmd) ==
  CASE cmd = "open" -> "opening" [] cmd = "close" -> "closing" [] OTHER -> "stopped"

\* Repeated presses stop.
OrStop(cmd, m) == IF m = MovingAfter(cmd) THEN "stop" ELSE cmd

\* Mutant of MomentaryCmd: the release of a long press counts as that of a short one.
MomentaryCmdUnheld(k, value, mode, m) ==
  LET was == k.present_value
  IN  CASE mode = "immediate" /\ value \in Short -> OrStop(Direction(value), m)
        [] mode \in {"short_press", "hybrid"} /\ value = "released" /\ was \in Short \cup Long ->
             OrStop(Direction(was), m)
        [] mode = "long_press" /\ value \in Long -> OrStop(Direction(value), m)
        [] mode = "hybrid" /\ value \in Long -> Direction(value)
        [] OTHER -> None

\* The last part of cover_switch_cluster_get_cmd, for momentary switches.
MomentaryCmd(k, value, mode, m) ==
  LET was == k.present_value
  IN  CASE mode = "immediate" /\ value \in Short -> OrStop(Direction(value), m)
        [] mode \in {"short_press", "hybrid"} /\ value = "released" /\ was \in Short ->
             OrStop(Direction(was), m)
        [] mode = "long_press" /\ value \in Long -> OrStop(Direction(value), m)
        [] mode = "hybrid" /\ value \in Long -> Direction(value)
        [] mode = "hybrid" /\ value = "released" /\ was \in Long -> "stop"
        [] OTHER -> None

\* cover_switch_cluster_get_cmd.
GetCmd(k, value, mode, m) ==
  CASE value = "stop" -> "stop"
    [] value # "stop" /\ k.switch_type = "toggle" ->
         IF value \in Short THEN Direction(value) ELSE None
    [] OTHER -> MomentaryCmd(k, value, mode, m)

LocalCmd(k, value) ==
  IF HasCover(k) THEN GetCmd(k, value, k.local_mode, moving[k.cover_index]) ELSE None

\* Mutant of BindedCmd: what is bound is always judged by its own last command.
BindedCmdAlone(k, value) == GetCmd(k, value, k.binded_mode, k.binded_moving)

\* With matching modes the bound covers are told what the cover of the device is told.
BindedCmd(k, value) ==
  IF k.local_mode = k.binded_mode /\ LocalCmd(k, value) # None THEN LocalCmd(k, value)
  ELSE GetCmd(k, value, k.binded_mode, k.binded_moving)

\* cover_switch_trigger_binding_cmd.
Delivered(cmd) == IF joined THEN cmd ELSE None

ModeOf(k, output) == IF output = "local" THEN k.local_mode ELSE k.binded_mode

\* Observed: the outputs that move for as long as the button is held.
WhileHeld(k, value, mode) ==
  k.switch_type = "toggle" \/ (mode = "hybrid" /\ value \in Long)

HeldAfter(k, value, sent) ==
  {o \in Outputs : \/ sent[o] \in Moves /\ WhileHeld(k, value, ModeOf(k, o))
                   \/ o \in k.hold /\ sent[o] # "stop"}

\* cover_switch_cluster_update_present_value.
UpdatePresentValue(k, value) ==
  LET binded_cmd == Delivered(BindedCmd(k, value))
      sent == [local |-> LocalCmd(k, value), binded |-> binded_cmd]
  IN  IF value = k.present_value THEN k
      ELSE [k EXCEPT !.present_value = value,
                     !.binded_moving = IF binded_cmd = None THEN @ ELSE MovingAfter(binded_cmd),
                     !.sent = sent,
                     !.hold = HeldAfter(k, value, sent)]

-----------------------------------------------------------------------------
(* The handlers of the buttons; both read the state of both.               *)

Reversed(k, value) ==
  CASE k.reversal /\ value = "open" -> "close" [] k.reversal /\ value = "close" -> "open"
    [] k.reversal /\ value = "long_open" -> "long_close"
    [] k.reversal /\ value = "long_close" -> "long_open"
    [] OTHER -> value

\* cover_switch_cluster_on_button_press; one of them is pressed.
OnButtonPress(k, open, close) ==
  UpdatePresentValue(k,
    CASE open.pressed /\ close.pressed -> "stop"
      [] open.pressed /\ ~close.pressed -> Reversed(k, "open")
      [] OTHER -> Reversed(k, "close"))

\* Mutant of OnButtonLongPress: a long press counts while both are pressed.
LongPressWhileStopped(k, open, close) ==
  IF k.switch_type = "toggle" THEN k
  ELSE UpdatePresentValue(k,
         IF open.long_pressed THEN Reversed(k, "long_open") ELSE Reversed(k, "long_close"))

\* cover_switch_cluster_on_button_long_press.
OnButtonLongPress(k, open, close) ==
  IF k.switch_type = "toggle" \/ (open.pressed /\ close.pressed) THEN k
  ELSE UpdatePresentValue(k,
         IF open.long_pressed THEN Reversed(k, "long_open") ELSE Reversed(k, "long_close"))

\* Mutant of OnButtonRelease: momentary switches go back to the button that is held.
ReleaseReverts(k, open, close) ==
  CASE ~open.pressed /\ ~close.pressed ->
         UpdatePresentValue(k, IF k.switch_type = "toggle" THEN "stop" ELSE "released")
    [] open.pressed -> UpdatePresentValue(k, Reversed(k, "open"))
    [] OTHER -> UpdatePresentValue(k, Reversed(k, "close"))

\* cover_switch_cluster_on_button_release.
OnButtonRelease(k, open, close) ==
  CASE ~open.pressed /\ ~close.pressed ->
         UpdatePresentValue(k, IF k.switch_type = "toggle" THEN "stop" ELSE "released")
    [] (open.pressed \/ close.pressed) /\ k.switch_type = "momentary" -> k
    [] open.pressed /\ k.switch_type = "toggle" -> UpdatePresentValue(k, Reversed(k, "open"))
    [] OTHER -> UpdatePresentValue(k, Reversed(k, "close"))

Silent(k) == [k EXCEPT !.sent = Nothing]
AnyPressed(open, close) == open.pressed \/ close.pressed

Pressed ==
  /\ (Open!Press /\ UNCHANGED close_button) \/ (Close!Press /\ UNCHANGED open_button)
  /\ s' = OnButtonPress(Silent(s), open_button', close_button')
  /\ heard' = TRUE
  /\ UNCHANGED <<moving, joined, nv>>

LongPressed ==
  /\ (Open!LongPress /\ UNCHANGED close_button) \/ (Close!LongPress /\ UNCHANGED open_button)
  /\ s' = OnButtonLongPress(Silent(s), open_button', close_button')
  /\ UNCHANGED <<moving, joined, nv, heard>>

JustPressed == [pressed |-> TRUE, long_pressed |-> FALSE]

\* Both callbacks, one after the other.
PressedLong ==
  /\ \/ /\ Open!PressLong /\ UNCHANGED close_button
        /\ s' = OnButtonLongPress(
                  OnButtonPress(Silent(s), JustPressed, close_button),
                  open_button', close_button)
     \/ /\ Close!PressLong /\ UNCHANGED open_button
        /\ s' = OnButtonLongPress(
                  OnButtonPress(Silent(s), open_button, JustPressed),
                  open_button, close_button')
  /\ heard' = TRUE
  /\ UNCHANGED <<moving, joined, nv>>

Released ==
  /\ (Open!Release /\ UNCHANGED close_button) \/ (Close!Release /\ UNCHANGED open_button)
  /\ s' = OnButtonRelease(Silent(s), open_button', close_button')
  /\ heard' = (heard \/ ~AnyPressed(open_button', close_button'))
  /\ UNCHANGED <<moving, joined, nv>>

-----------------------------------------------------------------------------
(* Attribute writes.  Whoever rewrites what an output goes by while it is  *)
(* held abandons it (observed).                                            *)

Current ==
  [switch_type |-> s.switch_type, cover_index |-> s.cover_index, reversal |-> s.reversal,
   local_mode |-> s.local_mode, binded_mode |-> s.binded_mode]

\* cover_switch_cluster_store_attrs_to_nv; the long press duration is not among them.
Store == nv' = {Current'}

\* cover_switch_cluster_on_write_attr.
Write(k, abandoned) ==
  /\ s' = [Silent(k) EXCEPT !.hold = @ \ abandoned]
  /\ Store
  /\ UNCHANGED <<buttons, moving, joined>>

Unless(unchanged, outputs) == IF unchanged THEN {} ELSE outputs

\* present_value is reset, whatever is held.
WriteType ==
  /\ \E t \in Types :
       Write([s EXCEPT !.switch_type = t,
                       !.present_value = IF t = "toggle" THEN "stop" ELSE "released"], Outputs)
  /\ heard' = ~AnyPressed(open_button, close_button)

WriteCoverIndex ==
  /\ \E i \in Indexes : Write([s EXCEPT !.cover_index = i], Unless(i = s.cover_index, {"local"}))
  /\ UNCHANGED heard

WriteReversal ==
  /\ \E r \in BOOLEAN : Write([s EXCEPT !.reversal = r], {})
  /\ heard' = (heard /\ (s'.reversal = s.reversal \/ ~AnyPressed(open_button, close_button)))

WriteLocalMode ==
  /\ \E m \in LocalModes : Write([s EXCEPT !.local_mode = m], Unless(m = s.local_mode, {"local"}))
  /\ UNCHANGED heard

WriteBindedMode ==
  /\ \E m \in BindedModes :
       Write([s EXCEPT !.binded_mode = m], Unless(m = s.binded_mode, {"binded"}))
  /\ UNCHANGED heard

\* One attribute sets the duration of both buttons, which ButtonEvents leaves open.
WriteLongPressDuration == Write(s, {}) /\ UNCHANGED heard

-----------------------------------------------------------------------------
(* Start-up and surroundings.                                              *)

DefaultSettings ==
  [switch_type |-> "momentary", cover_index |-> SwitchIdx + 1, reversal |-> FALSE,
   local_mode |-> "hybrid", binded_mode |-> "hybrid"]

\* cover_switch_cluster_load_attrs_from_nv.
Loaded(stored) == IF stored = {} THEN DefaultSettings ELSE CHOOSE set \in stored : TRUE

\* cover_switch_cluster_init; present_value is that of a momentary switch.
ClusterInit(set) ==
  [switch_type |-> set.switch_type, cover_index |-> set.cover_index, reversal |-> set.reversal,
   local_mode |-> set.local_mode, binded_mode |-> set.binded_mode,
   present_value |-> "released", binded_moving |-> "stopped", sent |-> Nothing, hold |-> {}]

Reboot ==
  /\ Open!Start /\ Close!Start
  /\ s' = ClusterInit(Loaded(nv))
  /\ moving' = [i \in Covers |-> "stopped"]
  /\ heard' = FALSE
  /\ UNCHANGED <<joined, nv>>

CoverMoves ==
  /\ \E i \in Covers, m \in Moving : moving' = [moving EXCEPT ![i] = m]
  /\ s' = Silent(s)
  /\ UNCHANGED <<buttons, joined, nv, heard>>

\* Bound covers are out of reach when the network is left.
NetworkChanges ==
  /\ joined' = ~joined
  /\ s' = [Silent(s) EXCEPT !.hold = @ \ {"binded"}]
  /\ UNCHANGED <<buttons, moving, nv, heard>>

Init ==
  /\ Open!Started /\ Close!Started
  /\ s = ClusterInit(DefaultSettings)
  /\ moving = [i \in Covers |-> "stopped"]
  /\ joined \in BOOLEAN /\ nv = {} /\ heard = FALSE

Next ==
  \/ Pressed \/ LongPressed \/ PressedLong \/ Released
  \/ WriteType \/ WriteCoverIndex \/ WriteReversal \/ WriteLocalMode \/ WriteBindedMode
  \/ WriteLongPressDuration
  \/ Reboot \/ CoverMoves \/ NetworkChanges

Spec == Init /\ [][Next]_vars

-----------------------------------------------------------------------------
(* Properties.                                                             *)

\* The attributes and the buttons stay in their domains.
TypeOK ==
  /\ open_button \in Open!ButtonLevels /\ close_button \in Close!ButtonLevels
  /\ s \in ClusterState /\ moving \in [Covers -> Moving]
  /\ joined \in BOOLEAN /\ nv \subseteq Settings /\ heard \in BOOLEAN

\* A cover that moves for as long as a button is held or a contact closed is stopped by
\* the release, also if the other button intervenes, the direction is reversed or the
\* local cover stops by itself; unless the attributes that it goes by are rewritten, or the
\* network is left, in the meantime.
HoldEndsWithRelease ==
  s.hold # {} => AnyPressed(open_button, close_button) /\ s.present_value \in Short \cup Long

\* "When local & binded modes match: use local cover's actual state for both to keep
\* them synchronized" (cover_switch_cluster.c:158): both are told the same.
KeptTogether ==
  s.local_mode = s.binded_mode /\ HasCover(s) /\ joined => s.sent.local = s.sent.binded

\* Letting go of a momentary switch that was stopped with both buttons moves nothing
\* (cover_switch_cluster.c:239); only a long press of the button still held does.
StopIsFinal ==
  [][s.present_value = "stop" /\ s.switch_type = "momentary"
       /\ (\E o \in Outputs : s'.sent[o] \in Moves) =>
       s'.present_value \in Long]_vars

UpToDate(k, open, close) ==
  LET both == open.pressed /\ close.pressed
      side == IF open.pressed THEN "open" ELSE "close"
      long == IF open.pressed THEN "long_open" ELSE "long_close"
      long_pressed == open.long_pressed \/ close.long_pressed
  IN  CASE both -> k.present_value = "stop"
        [] ~AnyPressed(open, close) ->
             k.present_value = IF k.switch_type = "toggle" THEN "stop" ELSE "released"
        [] AnyPressed(open, close) /\ ~both /\ k.switch_type = "toggle" ->
             k.present_value = Reversed(k, side)
        [] OTHER ->
             k.present_value \in {"stop", Reversed(k, IF long_pressed THEN long ELSE side)}

\* present_value, which the next command depends on, tells the buttons: from the first
\* press after start-up, and until the type or the direction is rewritten while one is held.
PresentValueInSync == heard => UpToDate(s, open_button, close_button)

\* A restart finds the attributes as they were.
RestartKeepsSettings == Loaded(nv) = Current
=============================================================================
