---------------------------- MODULE StartService ----------------------------
(***************************************************************************)
(* What lwm2m_start_client() owes the application and the servers: no      *)
(* server is sent a REGISTER before the client has been told everything    *)
(* there is to know, by its own callback or by the bootstrap server, each  *)
(* one is sent a single REGISTER, and the call returns when one of them    *)
(* has answered or there is none.                                          *)
(***************************************************************************)
CONSTANT Server

VARIABLES
  phase,       \* "bootstrapping", "registering", "started"
  informed,    \* the client has been told what servers there are
  sent,        \* the servers sent a REGISTER
  answered     \* the servers that have answered it

startVars == <<phase, informed, sent, answered>>

StartInit ==
  /\ phase = "bootstrapping"
  /\ informed = FALSE
  /\ sent = {}
  /\ answered = {}

Inform ==
  /\ informed' = TRUE
  /\ UNCHANGED <<phase, sent, answered>>

EndBootstrap ==
  /\ phase = "bootstrapping"
  /\ informed
  /\ phase' = "registering"
  /\ UNCHANGED <<informed, sent, answered>>

Send(s) ==
  /\ phase = "registering"
  /\ s \notin sent
  /\ sent' = sent \cup {s}
  /\ UNCHANGED <<phase, informed, answered>>

Answer(s) ==
  /\ s \in sent
  /\ answered' = answered \cup {s}
  /\ UNCHANGED <<phase, informed, sent>>

Return ==
  /\ phase = "registering"
  /\ answered # {} \/ sent = {}
  /\ phase' = "started"
  /\ UNCHANGED <<informed, sent, answered>>

StartNext ==
  \/ Inform \/ EndBootstrap \/ Return
  \/ \E s \in Server : Send(s) \/ Answer(s)

StartSpec == StartInit /\ [][StartNext]_startVars
=============================================================================
