-------------------------------- MODULE Relay --------------------------------
(***************************************************************************)
(* What the relay server promises of sessions to devices that log in only  *)
(* while their name is free: a name has one session at most, a connection  *)
(* has one name at most, and a session neither changes hands nor ends      *)
(* before its client has gone.                                             *)
(***************************************************************************)
CONSTANTS Names, Clients, NoClient

VARIABLES
  session, \* the client logged in under each name, or NoClient
  gone     \* clients that have closed their connection

Holds(c) == \E n \in Names : session[n] = c

Join(n, c) ==
  /\ session[n] = NoClient /\ ~Holds(c)
  /\ session' = [session EXCEPT ![n] = c]
  /\ UNCHANGED gone

Leave(n) ==
  /\ session[n] \in gone
  /\ session' = [session EXCEPT ![n] = NoClient]
  /\ UNCHANGED gone

Go(c) ==
  /\ gone' = gone \cup {c}
  /\ UNCHANGED session

\* A client that is in no session may connect again.
Return(c) ==
  /\ ~Holds(c)
  /\ gone' = gone \ {c}
  /\ UNCHANGED session

Init == session = [n \in Names |-> NoClient] /\ gone = {}

Next ==
  \/ \E c \in Clients : Go(c) \/ Return(c)
  \/ \E n \in Names : Leave(n) \/ \E c \in Clients : Join(n, c)

Spec == Init /\ [][Next]_<<session, gone>>

==============================================================================
