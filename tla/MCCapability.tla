---------------------------- MODULE MCCapability ----------------------------
(* The local node, a device with three mapped clusters on two endpoints,   *)
(* one more than an entry of the cache holds, and a device for which the   *)
(* cache has no room.                                                      *)
EXTENDS Capability

MCOffers ==
  [d1 |-> << [id |-> 1, clusters |-> <<"level", "humidity", "onoff">>],
             [id |-> 2, clusters |-> <<"level", "color">>] >>,
   d2 |-> << >>]

MCRaw == [cap \in Caps |->
            CASE cap = "light.on"           -> {0, 1}
              [] cap = "sensor.temperature" -> {2005, 2100}
              [] cap = "light.level"        -> {253}
              [] OTHER                      -> {}]

=============================================================================
