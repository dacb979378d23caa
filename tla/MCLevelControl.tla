--------------------------- MODULE MCLevelControl ---------------------------
(* A device for each entry of the table, two that nearly match one, and    *)
(* every level and percentage.                                             *)
EXTENDS LevelControl

Lamp(manufacturer, model) == [manufacturer |-> manufacturer, model |-> model]

MCDevices ==
  { Lamp("DUMMY", <<"DUMMY-LIGHT-1">>),
    Lamp("DUMMY", <<"DUMMY-LIGHT-1", "2">>),
    Lamp("IKEA of Sweden", <<"TRADFRI bulb", "E27">>),
    Lamp("LUMI", <<"lumi.sensor_magnet", ".aq2">>),
    Lamp("_TZE200", <<"TS0601">>),
    Lamp("LUMI", <<"TS0601">>) }

=============================================================================
