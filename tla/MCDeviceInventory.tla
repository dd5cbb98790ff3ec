------------------------- MODULE MCDeviceInventory -------------------------
EXTENDS DeviceInventory
CONSTANTS m1, m2
=============================================================================
