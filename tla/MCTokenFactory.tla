--------------------------- MODULE MCTokenFactory ---------------------------
(***************************************************************************)
(* TokenFactory on the small instances, with the commands, requests and    *)
(* generated messages of the programs around it.  The simulator has the    *)
(* keys of both users.                                                     *)
(***************************************************************************)
EXTENDS Client, Simulation, MCInstance

\* tx and screen only record the last step; two states that differ in them
\* behave alike.
View == <<state, commanded>>
=============================================================================
