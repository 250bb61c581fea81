-------------------------- MODULE MCDeviceManagement --------------------------
(***************************************************************************)
(* Instances of DeviceManagement for TLC: two servers, an object with      *)
(* several instances and one with a single one.                            *)
(***************************************************************************)
EXTENDS DeviceManagement

Light == 3
Device == 4

P(x, s, acl) == [about |-> x, owner |-> s, acl |-> acl]

(* Both servers may CREATE lights; light 0 is server 1's, whom its list    *)
(* names without DELETE, which the others have.                            *)
MCBootPolicy ==
  {P(<<Light, AllInstances>>, 1, [s \in {0} |-> {"CREATE"}]),
   P(<<Light, 0>>, 1, [s \in {0, 1} |-> IF s = 0 THEN {"READ", "DELETE"} ELSE {"READ", "WRITE"}])}

(* Everybody may CREATE lights, and try to CREATE a device. *)
MCBootPolicyAny ==
  {P(<<Light, AllInstances>>, 1, [s \in {0} |-> {"CREATE"}]),
   P(<<Device, AllInstances>>, 1, [s \in {0} |-> {"CREATE"}])}

MCWritten == {[s \in {1} |-> {"READ"}]}
=============================================================================
