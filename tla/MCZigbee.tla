------------------------------ MODULE MCZigbee ------------------------------
EXTENDS Zigbee
=============================================================================
