-------------------------- MODULE MCDeviceInstall --------------------------
(* Instances of DeviceInstall for TLC. *)
EXTENDS DeviceInstall, TLC

CONSTANTS node, script, p1, p2

(* The properties only look at safety, so these sets may be permuted. *)
Symmetry == Permutations(Users) \cup Permutations(Keys) \cup Permutations(Codes)
            \cup Permutations(Procs)
=============================================================================
