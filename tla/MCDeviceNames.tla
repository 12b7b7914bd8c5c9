---------------------------- MODULE MCDeviceNames ----------------------------
(* DeviceNames with a thread that reads, one that looks up default devices, *)
(* and two drives, on every platform.                                      *)
EXTENDS DeviceNames
=============================================================================
