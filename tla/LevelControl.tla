---------------------------- MODULE LevelControl ----------------------------
(***************************************************************************)
(* A lamp whose brightness somebody sets in percent, which reports its     *)
(* level, and whose reported percentage is sent back to it, as automations *)
(* and sliders do, any number of times.  The conversions are those of      *)
(* Values, the quirks applied where docs/spec/60_device_quirks_table.yaml  *)
(* wants them: before the capability is told, and before a command is      *)
(* encoded.                                                                *)
(***************************************************************************)
EXTENDS Values

CONSTANTS
  Devices,   \* manufacturer and model of devices
  MaxTyped,  \* the largest number typed
  Nothing    \* nothing asked for, or reported, yet

ASSUME MaxTypedAssumption == MaxTyped \in Nat

VARIABLES
  device,    \* the lamp
  level,     \* its CurrentLevel, an unsigned byte
  shown,     \* what light.level says, once the lamp has reported this level
  asked      \* history: the percentage last typed, unless the lamp was
             \* dimmed by hand since

vars == <<device, level, shown, asked>>

Level == 0 .. 255

Init ==
  /\ device \in Devices
  /\ level \in Level
  /\ shown = Nothing /\ asked = Nothing

(* The command zb_level of the shell, which knows no quirks. *)
TypeLevel(n) ==
  /\ level' = ZclLevel(ShellLevel(n))
  /\ asked' = n
  /\ shown' = Nothing
  /\ UNCHANGED device

(* Somebody dims the lamp at the lamp. *)
Dim(l) ==
  /\ level' = l
  /\ asked' = Nothing
  /\ shown' = Nothing
  /\ UNCHANGED device

Report ==
  /\ shown' = QuirkValue(device, "light.level", Percent(level))
  /\ UNCHANGED <<device, level, asked>>

(* What is shown is sent as a command. *)
SendBack ==
  /\ shown # Nothing
  /\ level' = ZclLevel(QuirkCommand(device, "light.level", shown))
  /\ shown' = Nothing
  /\ UNCHANGED <<device, asked>>

Next ==
  \/ \E n \in 0 .. MaxTyped : TypeLevel(n)
  \/ \E l \in Level : Dim(l)
  \/ Report
  \/ SendBack

Spec == Init /\ [][Next]_vars

-----------------------------------------------------------------------------
AskedPercent == asked # Nothing /\ asked \in 0 .. 100

(* The two conversions do not agree: one rounds, the other cuts off.  Yet  *)
(* what is shown never creeps away from the percentage that was asked for: *)
(* sent back and reported any number of times, it loses at most two.       *)
LevelHolds ==
  AskedPercent /\ shown # Nothing =>
    LET wanted == QuirkCommand(device, "light.level", asked)
    IN  shown \in wanted - 2 .. wanted

(* A lamp that was asked for some light is not switched off by sending     *)
(* back what it reports.                                                   *)
StaysLit == AskedPercent /\ asked > 0 => level > 0

(* A quirk distorts nothing for good.  Of all that a device can report, a  *)
(* command that says what is shown is shown again as it is, to the last    *)
(* bit, so any number of times.  The device itself is told what it         *)
(* reported, but for a level of 0 that the quirk raises to 1, and for a    *)
(* temperature that is multiplied by 0.1f and divided by it: this may come *)
(* back as a neighbouring float.  (Below 0, it is the magnitude that is    *)
(* looked at.)                                                             *)
Reportable ==
  [cap \in {"sensor.contact", "light.on", "light.level", "sensor.temperature"} |->
     CASE cap = "sensor.temperature" -> {Celsius(h) : h \in 0 .. 2^15}
       [] cap = "light.level"        -> {Percent(l) : l \in Level}
       [] OTHER                      -> BOOLEAN]

Same(cap, v, w) ==
  CASE cap = "sensor.temperature" -> Place(w) - Place(v) \in -1 .. 1
    [] cap = "light.level"        -> w = v \/ (v = 0 /\ w = 1)
    [] OTHER                      -> w = v

Undone(d, cap, v) ==
  LET s == QuirkValue(d, cap, v)
      c == QuirkCommand(d, cap, s)
  IN  Same(cap, v, c) /\ QuirkValue(d, cap, c) = s

Undistorted == {d \in Devices : \A cap \in DOMAIN Reportable :
                                  \A v \in Reportable[cap] : Undone(d, cap, v)}

CommandUndoesReport == device \in Undistorted

=============================================================================
