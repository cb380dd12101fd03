---------------------------- MODULE MCKeeperCalls ----------------------------
(***************************************************************************)
(* KeeperCalls on the small instances.                                     *)
(***************************************************************************)
EXTENDS KeeperCalls, MCInstance

\* shown only records what was committed; two states that differ in it behave
\* alike.
View == <<calls, seen>>
=============================================================================
