----------------------------- MODULE AccessPolicy -----------------------------
(***************************************************************************)
(* What the Access Control object is for.  Each object instance that       *)
(* exists, and each object as a target of CREATE, has a policy or none: its *)
(* owner and what each server may do, server 0 standing for all that the   *)
(* policy does not name.  A server that is alone may do everything but     *)
(* CREATE, policies it may change or drop included.  A new instance belongs *)
(* to its creator, with the exception of CreateAlone, which is the code's  *)
(* own.  A policy goes when its instance goes.  With no server at all, as  *)
(* during bootstrap, the client is being configured.                       *)
(***************************************************************************)
EXTENDS Functions

CONSTANTS
  Server,
  AllInstances,   \* <<o, AllInstances>> is object o as a target of CREATE
  NoPolicy,
  NoRights        \* entries of a policy that are no set of rights

VARIABLES
  servers,   \* the servers the client is registered on
  policy     \* from what exists to its policy or NoPolicy

policyVars == <<servers, policy>>

OwnersRights == {"READ", "WRITE", "EXECUTE", "DELETE"}

Gives(entry, op) == entry \notin NoRights /\ op \in entry

Allows(p, s, op) ==
  \/ s \in DOMAIN p.acl /\ Gives(p.acl[s], op)
  \/ s \notin DOMAIN p.acl /\ p.owner = s /\ op \in OwnersRights
  \/ s \notin DOMAIN p.acl /\ 0 \in DOMAIN p.acl /\ Gives(p.acl[0], op)

May(s, x, op) ==
  \/ servers = {s} /\ op # "CREATE"
  \/ policy[x] # NoPolicy /\ Allows(policy[x], s, op)

Appears(x, p) ==
  /\ UNCHANGED servers
  /\ x \notin DOMAIN policy
  /\ policy' = [y \in DOMAIN policy \cup {x} |-> IF y = x THEN p ELSE policy[y]]

(* An instance that is created is its creator's ...                        *)
CreateInstance(s, x) ==
  /\ servers # {s}
  /\ May(s, <<x[1], AllInstances>>, "CREATE")
  /\ Appears(x, [owner |-> s, acl |-> [t \in {s} |-> OwnersRights]])

(* ... but nobody's if its creator is the only server that is registered:  *)
(* an exception that the code makes and the comment on CREATE does not, by *)
(* which the client's other accounts count too.                            *)
CreateAlone(s, x) ==
  /\ servers = {s}
  /\ May(s, <<x[1], AllInstances>>, "CREATE")
  /\ Appears(x, NoPolicy)

(* A CREATE that is refused for its values leaves an instance of nobody.   *)
CreateRemains(s, x) ==
  /\ May(s, <<x[1], AllInstances>>, "CREATE")
  /\ Appears(x, NoPolicy)

DeleteInstance(s, x) ==
  /\ May(s, x, "DELETE")
  /\ UNCHANGED servers
  /\ policy' = Restrict(policy, DOMAIN policy \ {x})

ChangePolicy(s, x) ==
  /\ servers = {s}
  /\ policy[x] # NoPolicy
  /\ policy' = [policy EXCEPT ![x] = policy'[x]]
  /\ UNCHANGED servers

Configure == servers = {} /\ UNCHANGED servers

ServersChange == servers' \subseteq Server /\ UNCHANGED policy

ServerStep(s) ==
  \/ \E x \in DOMAIN policy' \ DOMAIN policy :
       CreateInstance(s, x) \/ CreateAlone(s, x) \/ CreateRemains(s, x)
  \/ \E x \in DOMAIN policy : DeleteInstance(s, x) \/ ChangePolicy(s, x)

PolicyNext == ServersChange \/ Configure \/ \E s \in servers : ServerStep(s)

PolicySpec == servers = {} /\ [][PolicyNext]_policyVars
=============================================================================
