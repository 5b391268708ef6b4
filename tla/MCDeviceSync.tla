---------------------------- MODULE MCDeviceSync ----------------------------
(* Instances of DeviceSync small enough for TLC. *)
EXTENDS DeviceSync

MCChunkCap  == [l \in Lanes |-> 1]
MCWindowCap == [l \in Lanes |-> IF l = "guard" THEN 10 ELSE 1]
=============================================================================
