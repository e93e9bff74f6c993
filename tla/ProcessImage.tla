---------------------------- MODULE ProcessImage ----------------------------
(***************************************************************************)
(* What the data path of a device promises to WinCC OA, without threads,   *)
(* queues or requests: a data point shows values its variable has had in   *)
(* the PLC, none of them twice and never an older one after a newer one.   *)
(* The n-th value of a variable is the number n.                           *)
(*                                                                         *)
(* The driver does not quite keep the promise: it may also show a buffer   *)
(* of zeroes that no PLC sent, for the variables in Junk.                  *)
(***************************************************************************)
EXTENDS Integers

CONSTANTS Vars, Junk

VARIABLES
  plc,      \* the value of each variable in the PLC
  dp,       \* the last of its values that its data point has shown, 0 = none
  blank     \* the data point shows a buffer of zeroes instead

vars == <<plc, dp, blank>>

Init ==
  /\ plc = [v \in Vars |-> 1]
  /\ dp = [v \in Vars |-> 0]
  /\ blank = [v \in Vars |-> FALSE]

Change ==
  /\ \E S \in SUBSET Vars : plc' = [v \in Vars |-> IF v \in S THEN plc[v] + 1 ELSE plc[v]]
  /\ UNCHANGED <<dp, blank>>

Show(v) ==
  /\ \E n \in dp[v]..plc[v] : n # 0 /\ dp' = [dp EXCEPT ![v] = n]
  /\ blank' = [blank EXCEPT ![v] = FALSE]
  /\ UNCHANGED plc

ShowZeroes(v) ==
  /\ v \in Junk
  /\ blank' = [blank EXCEPT ![v] = TRUE]
  /\ UNCHANGED <<plc, dp>>

Next == Change \/ \E v \in Vars : Show(v) \/ ShowZeroes(v)

Spec == Init /\ [][Next]_vars
=============================================================================
