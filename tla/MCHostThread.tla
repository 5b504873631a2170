---------------------------- MODULE MCHostThread ----------------------------
(* Instances of HostThread: two devices, one with a pool. *)
EXTENDS HostThread

OnePool == [d \in Devices |-> IF d = DefaultDeviceId THEN {"pool"} ELSE {}]
=============================================================================
