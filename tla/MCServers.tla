----------------------------- MODULE MCServers ------------------------------
(***************************************************************************)
(* Instances of Servers for TLC: all servers have one hostname, so that    *)
(* forgetting by name and by id differ.                                    *)
(***************************************************************************)
EXTENDS Servers

OneName == [s \in Servers |-> CHOOSE n \in Names : TRUE]
=============================================================================
