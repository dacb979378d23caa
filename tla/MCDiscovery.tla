---------------------------- MODULE MCDiscovery ----------------------------
EXTENDS Discovery

CONSTANT Watched  \* a device: they are all alike, so this one stands for all

(* A put-off node that waits when MQTT is up is published in the end.      *)
WaitingPublished == PublishedOnceUp(Watched)

=============================================================================
