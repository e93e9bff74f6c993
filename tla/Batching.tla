------------------------------ MODULE Batching ------------------------------
(***************************************************************************)
(* RAMS7200LibFacade::RAMS7200ReadWriteMaxN: a list of S7 data items is    *)
(* cut into requests that fit the PDU of the PLC, each request is handed   *)
(* to the snap7 client, and the values of a READ are queued for WinCC OA.  *)
(*                                                                         *)
(* The item list is given by its end offsets: end[k] is the number of data *)
(* bytes of items 1..k together.  Sizes and offsets determine each other;  *)
(* offsets give the total of any request without a recursive sum.          *)
(***************************************************************************)
EXTENDS Integers, Sequences

CONSTANTS
  MaxVars,      \* parameter N: most variables in one multi-variable request
  PduSize,      \* parameter PDU_SZ
  VarOverhead,  \* parameter VAR_OH: header bytes per variable
  MsgOverhead,  \* parameter MSG_OH: header bytes per message
  Layouts       \* the item lists considered, as end offsets

ASSUME BatchingAssumption ==
  /\ MaxVars \in Nat \ {0}
  /\ PduSize \in Nat /\ VarOverhead \in Nat /\ MsgOverhead \in Nat
  /\ \A e \in Layouts : /\ e \in Seq(Nat)
                        /\ \A i, j \in DOMAIN e : i <= j => e[i] <= e[j]

VARIABLES
  end,          \* the item list (never changes)
  op,           \* rorw: "READ" or "WRITE"
  pc,
  lastIndex,    \* last_index: items 1..lastIndex have been processed
  toSend,       \* to_send: items of the request being built
  currSum,      \* curr_sum: bytes of the request being built
  shown,        \* i - last_index in the reporting loop
  result,       \* the Result field of every TS7DataItem; "unset" is garbage
  calls,        \* the snap7 requests made so far
  queued,       \* items whose buffer went to _queueToDPCB, in order
  warned,       \* items reported by "Error in reading address"
  ioFailures

vars == <<end, op, pc, lastIndex, toSend, currSum, shown, result, calls,
          queued, warned, ioFailures>>

N == Len(end)                                   \* items.size()
Offset(k) == IF k = 0 THEN 0 ELSE end[k]
Bytes(i, j) == Offset(j) - Offset(i - 1)        \* data bytes of items i..j
ItemSize(k) == Bytes(k, k) + VarOverhead
Batch == (lastIndex + 1)..(lastIndex + toSend)  \* items of the request

Request == [kind : {"multi", "area"}, first : Nat, last : Nat, ok : BOOLEAN]
LastRequest == calls[Len(calls)]

TypeOK ==
  /\ end \in Seq(Nat)
  /\ op \in {"READ", "WRITE"}
  /\ pc \in {"loop", "fill", "report", "done"}
  /\ lastIndex \in 0..N /\ toSend \in 0..(N - lastIndex)
  /\ currSum \in Nat /\ shown \in 0..toSend
  /\ result \in [1..N -> {"unset", "ok", "error"}]
  /\ calls \in Seq(Request)
  /\ queued \in Seq(1..N)
  /\ warned \subseteq 1..N
  /\ ioFailures \in Nat
-----------------------------------------------------------------------------
(* TS7DataItemFromAddress leaves the Result field of a new item unset.     *)
Init ==
  /\ end \in Layouts
  /\ op \in {"READ", "WRITE"}
  /\ pc = "loop"
  /\ lastIndex = 0 /\ toSend = 0 /\ currSum = 0 /\ shown = 0
  /\ result = [k \in 1..N |-> "unset"]
  /\ calls = <<>> /\ queued = <<>> /\ warned = {}
  /\ ioFailures = 0

(* while(last_index < items.size()) { to_send = 0; curr_sum = 0; ... }     *)
StartBatch ==
  /\ pc = "loop" /\ lastIndex < N
  /\ pc' = "fill" /\ toSend' = 0 /\ currSum' = 0
  /\ UNCHANGED <<end, op, lastIndex, shown, result, calls, queued, warned,
                 ioFailures>>

Finish ==
  /\ pc = "loop" /\ lastIndex >= N
  /\ pc' = "done"
  /\ UNCHANGED <<end, op, lastIndex, toSend, currSum, shown, result, calls,
                 queued, warned, ioFailures>>

(* The next item of the list joins the request: the inner for loop.        *)
FitsWithoutMessageHeader(k) == currSum + ItemSize(k) < PduSize /\ toSend < MaxVars
FitsStopsEarly(k) == currSum + 2 * ItemSize(k) < PduSize - MsgOverhead /\ toSend < MaxVars
FitsOneLess(k) == currSum + ItemSize(k) < PduSize - MsgOverhead /\ toSend < MaxVars - 1
Fits(k) == currSum + ItemSize(k) < PduSize - MsgOverhead /\ toSend < MaxVars

CanTake == lastIndex + toSend < N /\ Fits(lastIndex + toSend + 1)

Take ==
  /\ pc = "fill" /\ CanTake
  /\ currSum' = currSum + ItemSize(lastIndex + toSend + 1)
  /\ toSend' = toSend + 1
  /\ UNCHANGED <<end, op, pc, lastIndex, shown, result, calls, queued, warned,
                 ioFailures>>

(* to_send == 0: ReadArea/WriteArea for the one item that is too large.    *)
(* The client gets the fields of the item, never the item: Result stays.   *)
CallArea ==
  /\ pc = "fill" /\ ~CanTake /\ toSend = 0
  /\ toSend' = 1
  /\ currSum' = ItemSize(lastIndex + 1) + MsgOverhead
  /\ \E ok \in BOOLEAN :
       calls' = Append(calls, [kind |-> "area", first |-> lastIndex + 1,
                               last |-> lastIndex + 1, ok |-> ok])
  /\ pc' = "report"
  /\ UNCHANGED <<end, op, lastIndex, shown, result, queued, warned, ioFailures>>

(* ReadMultiVars/WriteMultiVars.  The client sets the Result of every item *)
(* of a request that was answered; a request that failed as a whole leaves *)
(* them as they were or marks them as errors.                              *)
MultiResults(ok) ==
  {r \in [1..N -> {"unset", "ok", "error"}] :
     /\ \A k \in 1..N \ Batch : r[k] = result[k]
     /\ \A k \in Batch : IF ok THEN r[k] # "unset" ELSE r[k] \in {result[k], "error"}}

CallMulti ==
  /\ pc = "fill" /\ ~CanTake /\ toSend > 0
  /\ \E ok \in BOOLEAN :
       /\ calls' = Append(calls, [kind |-> "multi", first |-> lastIndex + 1,
                                  last |-> lastIndex + toSend, ok |-> ok])
       /\ result' \in MultiResults(ok)
  /\ pc' = "report"
  /\ UNCHANGED <<end, op, lastIndex, toSend, currSum, shown, queued, warned, ioFailures>>

(* The loop over the items of the finished request.  An item of a READ     *)
(* whose Result is 0 has its buffer queued for WinCC OA, any other is      *)
(* reported.  An unset Result may read as 0 or as anything else.           *)
ReadsZeroUnchecked(k) == {TRUE}
ReadsZero(k) == IF result[k] = "unset" THEN BOOLEAN ELSE {result[k] = "ok"}

ReportItem ==
  /\ pc = "report" /\ op = "READ" /\ shown < toSend
  /\ shown' = shown + 1
  /\ LET k == lastIndex + shown + 1 IN
       \E zero \in ReadsZero(k) :
         IF zero THEN queued' = Append(queued, k) /\ warned' = warned
                 ELSE warned' = warned \cup {k} /\ queued' = queued
  /\ UNCHANGED <<end, op, pc, lastIndex, toSend, currSum, result, calls, ioFailures>>

CountFailure == ioFailures' = IF LastRequest.ok THEN ioFailures ELSE ioFailures + 1

AdvancePast == lastIndex' = lastIndex + toSend + 1
AdvanceIfOk == lastIndex' = IF LastRequest.ok THEN lastIndex + toSend ELSE lastIndex
Advance == lastIndex' = lastIndex + toSend                \* last_index += to_send

EndRequest ==
  /\ pc = "report" /\ (op = "READ" => shown = toSend)
  /\ CountFailure /\ Advance
  /\ toSend' = 0 /\ shown' = 0
  /\ pc' = "loop"
  /\ UNCHANGED <<end, op, currSum, result, calls, queued, warned>>

Next == StartBatch \/ Finish \/ Take \/ CallArea \/ CallMulti \/ ReportItem \/ EndRequest

Spec == Init /\ [][Next]_vars
-----------------------------------------------------------------------------
Sum(c) == Bytes(c.first, c.last) + (c.last - c.first + 1) * VarOverhead
Reported == 1..(lastIndex + shown)   \* the items already reported on

(* No multi-variable request exceeds the PDU with its headers, or the      *)
(* number of variables the protocol allows: snap7 rejects either request   *)
(* as a whole, and none of its items would ever be read.                   *)
PduRespected ==
  \A i \in DOMAIN calls : calls[i].kind = "multi" =>
    /\ Sum(calls[i]) + MsgOverhead < PduSize
    /\ calls[i].last - calls[i].first < MaxVars

(* The requests cut the item list into consecutive non-empty ranges, none  *)
(* overlapping and none skipped, so when the function returns every item   *)
(* has been asked for exactly once and in order: a WRITE is not repeated   *)
(* and a READ is not forgotten, whatever the layout and whatever failed.   *)
EachItemOnce ==
  /\ \A i \in DOMAIN calls :
       /\ calls[i].first = (IF i = 1 THEN 1 ELSE calls[i - 1].last + 1)
       /\ calls[i].first <= calls[i].last
  /\ pc = "done" /\ N > 0 => calls # <<>> /\ LastRequest.last = N

(* An item is sent by the slow area call only when it could not have gone  *)
(* into a request of its own.                                              *)
AreaOnlyWhenTooBig ==
  \A i \in DOMAIN calls : calls[i].kind = "area" =>
    /\ calls[i].first = calls[i].last
    /\ ItemSize(calls[i].first) + MsgOverhead >= PduSize

(* A request ends early for a reason: the list is finished, the request    *)
(* is full, or the next item would not fit.  Otherwise a poll of many      *)
(* small variables would take more round trips than its cycle has.         *)
RequestsAreFull ==
  \A i \in DOMAIN calls : calls[i].kind = "multi" =>
    LET c == calls[i] IN
    \/ c.last = N
    \/ c.last - c.first + 1 = MaxVars
    \/ Sum(c) + ItemSize(c.last + 1) + MsgOverhead >= PduSize

(* Every item of a READ that has been reported on was either delivered     *)
(* once, in list order, or warned about; an item that the PLC answered     *)
(* with an error never reaches the data points, an item it answered        *)
(* inside a multi-variable request always does; a WRITE delivers nothing.  *)
ReadsAccountedFor ==
  LET reported == IF op = "READ" THEN Reported ELSE {}
      delivered == {queued[i] : i \in DOMAIN queued}
  IN
  /\ delivered \cup warned = reported /\ delivered \cap warned = {}
  /\ \A i, j \in DOMAIN queued : i < j => queued[i] < queued[j]
  /\ \A k \in reported : result[k] = "ok" => k \in delivered
  /\ \A k \in reported : result[k] = "error" => k \in warned

(* "Call with ReadArea because it can split the request automatically":    *)
(* the item too large for a PDU is read like the others, so a ReadArea     *)
(* that succeeded is not reported by "Error in reading address".           *)
AreaReadSucceeds ==
  \A i \in DOMAIN calls :
    calls[i].kind = "area" /\ calls[i].ok => calls[i].first \notin warned
=============================================================================
