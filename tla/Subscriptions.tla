---------------------------- MODULE Subscriptions ----------------------------
(***************************************************************************)
(* What a server that observes counts on: it is notified of what it has    *)
(* asked for, more often than it has called off, and of nothing else; and  *)
(* the values it is told of follow one another in the order in which they  *)
(* were set, so that the last one heard is the newest one heard of.        *)
(***************************************************************************)
EXTENDS Naturals

CONSTANTS Target, Server

Subscription == Target \X Server    \* what is observed, and by whom

VARIABLES
  outstanding,   \* for each one, the OBSERVEs not called off by a CANCEL
  current,       \* how often the value has been set
  last           \* which of these values each server was sent last

subscriptionVars == <<outstanding, current, last>>

SubscriptionInit ==
  /\ outstanding = [x \in Subscription |-> 0]
  /\ current = 0
  /\ last = [s \in Server |-> 0]

Ask(x) ==
  /\ outstanding' = [outstanding EXCEPT ![x] = @ + 1]
  /\ UNCHANGED <<current, last>>

CallOff(x) ==
  /\ outstanding[x] > 0
  /\ outstanding' = [outstanding EXCEPT ![x] = @ - 1]
  /\ UNCHANGED <<current, last>>

Set ==
  /\ current' = current + 1
  /\ UNCHANGED <<outstanding, last>>

Notify(x) ==
  /\ outstanding[x] > 0
  /\ \E n \in last[x[2]] .. current : last' = [last EXCEPT ![x[2]] = n]
  /\ UNCHANGED <<outstanding, current>>

SubscriptionNext ==
  \/ Set
  \/ \E x \in Subscription : Ask(x) \/ CallOff(x) \/ Notify(x)

SubscriptionSpec == SubscriptionInit /\ [][SubscriptionNext]_subscriptionVars
=============================================================================
