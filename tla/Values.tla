------------------------------- MODULE Values -------------------------------
(***************************************************************************)
(* What becomes of a value on its way between a device and the bridge: the *)
(* two conversions of a brightness (drivers/zigbee/zb_cmd.c and            *)
(* services/src/capability.c), and the quirks of devices                   *)
(* (services/src/quirks.c).                                                *)
(*                                                                         *)
(* A name is a sequence of parts, so that it has prefixes.  A temperature  *)
(* is a float, and what is done to it is rounded as the code rounds it.    *)
(***************************************************************************)
EXTENDS Integers, Sequences, SequencesExt, Float32

(* The shell reads a percentage with atoi and keeps eight bits of it.      *)
ShellLevel(n) == n % 256

(* zba_send_level rounds to the nearest of the levels 0..254, and again    *)
(* keeps eight bits.                                                       *)

(* Faulty variant: rounding down. *)
ZclLevelDown(percent) == ((percent * 254) \div 100) % 256

ZclLevel(percent) == ((percent * 254 + 50) \div 100) % 256

(* cap_handle_attribute_report rounds down. *)
Percent(l) == (l * 100) \div 254

(* It divides the hundredths of a degree that are reported by 100.0f.      *)
Celsius(hundredths) == Over(Float(hundredths), Float(100))

-----------------------------------------------------------------------------
(* quirks_table.  All its entries have one action; its one scale has no    *)
(* offset.                                                                 *)

Clamp(cap, min, max) == [type |-> "clamp_range", cap |-> cap, min |-> min, max |-> max]
Invert(cap)          == [type |-> "invert_boolean", cap |-> cap]
Scale(cap, factor)   == [type |-> "scale_numeric", cap |-> cap, factor |-> factor]

Tenth == Over(Float(1), Float(10))

Entry(manufacturer, model, prefix, actions) ==
  [manufacturer |-> manufacturer, model |-> model, prefix |-> prefix, actions |-> actions]

QuirksTable ==
  << Entry("DUMMY", <<"DUMMY-LIGHT-1">>, FALSE, << Clamp("light.level", 1, 100) >>),
     Entry("IKEA of Sweden", <<"TRADFRI bulb">>, TRUE, << Clamp("light.level", 1, 100) >>),
     Entry("LUMI", <<"lumi.sensor_magnet">>, TRUE, << Invert("sensor.contact") >>),
     Entry("_TZE200", <<"TS0601">>, TRUE, << Scale("sensor.temperature", Tenth) >>) >>

(* quirks_find. *)
Matches(entry, d) ==
  /\ entry.manufacturer = d.manufacturer
  /\ IF entry.prefix THEN IsPrefix(entry.model, d.model)
                     ELSE entry.model = d.model

Matching(d) == {i \in DOMAIN QuirksTable : Matches(QuirksTable[i], d)}

QuirksFind(d) == QuirksTable[CHOOSE i \in Matching(d) :
                                    \A j \in Matching(d) : i <= j]

(* quirks_apply_value and quirks_apply_command: what one action does to a  *)
(* value that a device reported, and to one that it is sent.               *)

Clamped(action, v) ==
  IF v < action.min THEN action.min ELSE IF v > action.max THEN action.max ELSE v

OnReport(v, action) ==
  CASE action.type = "clamp_range"    -> Clamped(action, v)
    [] action.type = "invert_boolean" -> ~v
    [] action.type = "scale_numeric"  -> Times(v, action.factor)

(* Faulty variant: what a quirk does to a report it does to a command. *)
OnCommandAsReport(v, action) == OnReport(v, action)

(* (A factor next to 0 is not divided by; the table has none.)             *)
OnCommand(v, action) ==
  CASE action.type = "clamp_range"    -> Clamped(action, v)
    [] action.type = "invert_boolean" -> ~v
    [] action.type = "scale_numeric"  -> Over(v, action.factor)

(* Actions for other capabilities are passed over. *)
QuirkValue(d, cap, v) ==
  IF Matching(d) = {} THEN v
  ELSE FoldLeft(LAMBDA w, action : IF action.cap = cap THEN OnReport(w, action) ELSE w,
                v, QuirksFind(d).actions)

QuirkCommand(d, cap, v) ==
  IF Matching(d) = {} THEN v
  ELSE FoldLeft(LAMBDA w, action : IF action.cap = cap THEN OnCommand(w, action) ELSE w,
                v, QuirksFind(d).actions)

=============================================================================
