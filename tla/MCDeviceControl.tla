-------------------------- MODULE MCDeviceControl --------------------------
(* Instances of DeviceControl for TLC. *)
EXTENDS DeviceControl, TLC

CONSTANTS own, mem,      \* the owner and a member
          r1, r2, r3,    \* requests
          t1, t2,        \* names of reservations
          s1, s2, s3     \* connections of the Agent

MCCaller == [r \in Rpcs |-> IF r = r1 THEN own ELSE mem]
Control  == [r \in Rpcs |-> "control"]
Mixed    == [r \in Rpcs |-> IF r = r3 THEN "content" ELSE "control"]
Pings    == [r \in Rpcs |-> IF r = r3 THEN "ping" ELSE "control"]
=============================================================================
