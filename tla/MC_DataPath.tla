---------------------------- MODULE MC_DataPath ----------------------------
(***************************************************************************)
(* DataPath with three variables: fast is read (direction IN), slow is     *)
(* read and written (INOUT) and has a longer poll time, output is written  *)
(* only (OUT) and so has no slot.                                          *)
(***************************************************************************)
EXTENDS DataPath

CONSTANTS fast, slow, output

MCPollTime == [v \in {fast, slow} |-> IF v = fast THEN 1 ELSE 2]

(* Requests for slow, tried for ever, do not fail for ever, nor does WinCC *)
(* OA refuse its values for ever.  Those of fast may.                      *)
FairSpec ==
  /\ Spec /\ Scheduling
  /\ SF_allVars(ReadWell(slow)) /\ SF_allVars(ShowValue(slow))

(* The data point of slow comes to show the value slow has in the PLC, and *)
(* does not keep the zeroes: it is not starved by a variable with a        *)
(* shorter poll time, nor does it stay behind after a failed request or a  *)
(* refusal, whatever becomes of the other variables.                       *)
PointCatchesUp == []<>CaughtUp(slow)
=============================================================================
