---------------------------- MODULE MCPushDevices ----------------------------
(* Instances of PushDevices for TLC: two pages of one browser, which is given a second
   endpoint once it lost the first. *)
EXTENDS PushDevices, TLC

CONSTANTS t1, t2, phone

OneDevice == t1 :> phone @@ t2 :> phone
=============================================================================
