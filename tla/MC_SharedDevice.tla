-------------------------- MODULE MC_SharedDevice --------------------------
(* SharedDevice with one variable, polled every second.              *)
EXTENDS SharedDevice

CONSTANT var

MCPollTime == [v \in {var} |-> 1]
=============================================================================
