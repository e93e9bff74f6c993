--------------------------- MODULE BatchingProofs ---------------------------
(* The requests built by RAMS7200ReadWriteMaxN respect the PDU and ask for *)
(* every item exactly once, for every item list and every PDU size.        *)
EXTENDS Batching, TLAPS

(* The last item that has been asked for.                                  *)
Asked == IF calls = <<>> THEN 0 ELSE LastRequest.last

(* What the loop maintains.  Between two requests everything asked for has *)
(* been reported on; currSum is the size of the request being built, and   *)
(* it has fitted since its first item joined.                              *)
LoopInv ==
  /\ end \in Layouts
  /\ pc \in {"loop", "fill", "done"} => Asked = lastIndex /\ shown = 0
  /\ pc = "fill" =>
       /\ currSum = Bytes(lastIndex + 1, lastIndex + toSend) + toSend * VarOverhead
       /\ toSend <= MaxVars
       /\ toSend > 0 => currSum + MsgOverhead < PduSize
       /\ lastIndex < N
  /\ pc = "report" =>
       calls # <<>> /\ Asked = lastIndex + toSend
  /\ pc = "done" => lastIndex = N

(* Consecutive requests ask for consecutive ranges.                        *)
Chained ==
  \A i \in DOMAIN calls :
    /\ calls[i].first = (IF i = 1 THEN 1 ELSE calls[i - 1].last + 1)
    /\ calls[i].first <= calls[i].last
    /\ calls[i].last <= N

IInv == TypeOK /\ LoopInv /\ Chained /\ PduRespected /\ AreaOnlyWhenTooBig

LEMMA OffsetType ==
  ASSUME end \in Seq(Nat), NEW k \in 0..N
  PROVE  Offset(k) \in Nat
BY DEF Offset, N

LEMMA OffsetMonotone ==
  ASSUME end \in Layouts, NEW i \in 0..N, NEW j \in 0..N, i <= j
  PROVE  Offset(i) <= Offset(j)
<1>1. end \in Seq(Nat) /\ \A a, b \in DOMAIN end : a <= b => end[a] <= end[b]
  BY BatchingAssumption
<1>2. CASE i = 0
  BY <1>1, <1>2, OffsetType DEF Offset
<1>3. CASE i # 0
  BY <1>1, <1>3 DEF Offset, N
<1> QED BY <1>2, <1>3

(* The size of a request grows by the size of the item that joins it.      *)
LEMMA JoinSize ==
  ASSUME end \in Seq(Nat), NEW a \in Nat, NEW n \in Nat, a + n < N,
         VarOverhead \in Nat
  PROVE  /\ Bytes(a + 1, a + n) + n * VarOverhead + ItemSize(a + n + 1)
              = Bytes(a + 1, a + n + 1) + (n + 1) * VarOverhead
         /\ ItemSize(a + n + 1) \in Int
         /\ Bytes(a + 1, a + n) \in Int
<1>1. Offset(a) \in Nat /\ Offset(a + n) \in Nat /\ Offset(a + n + 1) \in Nat
  BY OffsetType DEF N
<1>2. (n + 1) * VarOverhead = n * VarOverhead + VarOverhead /\ n * VarOverhead \in Nat
  OBVIOUS
<1>3. (a + 1) - 1 = a /\ (a + n + 1) - 1 = a + n
  OBVIOUS
<1>4. /\ Bytes(a + 1, a + n) = Offset(a + n) - Offset(a)
      /\ Bytes(a + 1, a + n + 1) = Offset(a + n + 1) - Offset(a)
      /\ ItemSize(a + n + 1) = Offset(a + n + 1) - Offset(a + n) + VarOverhead
  BY <1>3 DEF Bytes, ItemSize
<1> DEFINE before == n * VarOverhead
           after == (n + 1) * VarOverhead
<1>5. after = before + VarOverhead /\ before \in Nat
  BY <1>2
<1> HIDE DEF before, after
<1>6. Bytes(a + 1, a + n) + before + ItemSize(a + n + 1) = Bytes(a + 1, a + n + 1) + after
  BY <1>1, <1>4, <1>5
<1>7. ItemSize(a + n + 1) \in Int /\ Bytes(a + 1, a + n) \in Int
  BY <1>1, <1>4
<1> QED BY <1>6, <1>7 DEF before, after

(* An item is at least as large as its header.                             *)
LEMMA ItemSizeNat ==
  ASSUME end \in Layouts, NEW k \in 1..N
  PROVE  ItemSize(k) \in Nat
<1>1. end \in Seq(Nat) /\ VarOverhead \in Nat
  BY BatchingAssumption
<1>2. Offset(k - 1) \in Nat /\ Offset(k) \in Nat /\ Offset(k - 1) <= Offset(k)
  <2>1. k - 1 \in 0..N /\ k \in 0..N
    BY <1>1 DEF N
  <2> QED BY <1>1, <2>1, OffsetType, OffsetMonotone
<1> QED BY <1>1, <1>2 DEF ItemSize, Bytes

(* A request appended to the calls leaves the earlier ones as they were.   *)
LEMMA AppendCall ==
  ASSUME calls \in Seq(Request), NEW c \in Request, calls' = Append(calls, c)
  PROVE  /\ calls' \in Seq(Request) /\ calls' # <<>>
         /\ Len(calls') = Len(calls) + 1
         /\ DOMAIN calls' = DOMAIN calls \cup {Len(calls) + 1}
         /\ \A i \in DOMAIN calls : calls'[i] = calls[i] /\ i # Len(calls) + 1
         /\ calls'[Len(calls) + 1] = c
         /\ LastRequest' = c
BY DEF LastRequest

THEOREM InitIInv == Init => IInv
<1> SUFFICES ASSUME Init PROVE IInv
  OBVIOUS
<1> USE BatchingAssumption DEF Init
<1>1. TypeOK
  BY DEF TypeOK, N
<1>2. LoopInv
  BY DEF LoopInv, Asked
<1>3. Chained /\ PduRespected /\ AreaOnlyWhenTooBig
  BY DEF Chained, PduRespected, AreaOnlyWhenTooBig
<1> QED BY <1>1, <1>2, <1>3 DEF IInv

LEMMA StartBatchInv == ASSUME IInv, StartBatch PROVE IInv'
<1> USE DEF StartBatch, IInv
<1>1. TypeOK'
  BY BatchingAssumption DEF TypeOK, LoopInv, N
<1>2. LoopInv'
  <2>1. lastIndex \in Nat /\ end \in Seq(Nat) /\ VarOverhead \in Nat /\ MaxVars \in Nat
    BY BatchingAssumption DEF TypeOK, N
  <2>2. (0 = Bytes(lastIndex + 1, lastIndex + 0) + 0 * VarOverhead)'
    <3>1. Offset(lastIndex) \in Nat
      BY <2>1, OffsetType DEF TypeOK
    <3>2. (lastIndex + 1) - 1 = lastIndex /\ lastIndex + 0 = lastIndex /\ 0 * VarOverhead = 0
      BY <2>1
    <3> QED BY <3>1, <3>2, <2>1 DEF Bytes, Offset
  <2>3. Asked' = Asked
    BY DEF Asked, LastRequest
  <2> QED BY <2>1, <2>2, <2>3 DEF LoopInv, N
<1>3. Chained' /\ PduRespected' /\ AreaOnlyWhenTooBig'
  BY DEF Chained, PduRespected, AreaOnlyWhenTooBig, Sum, ItemSize, Bytes, Offset, N
<1> QED BY <1>1, <1>2, <1>3

LEMMA FinishInv == ASSUME IInv, Finish PROVE IInv'
<1> USE DEF Finish, IInv
<1>1. TypeOK'
  BY DEF TypeOK, N
<1>2. LoopInv'
  BY DEF LoopInv, Asked, LastRequest, N, TypeOK
<1>3. Chained' /\ PduRespected' /\ AreaOnlyWhenTooBig'
  BY DEF Chained, PduRespected, AreaOnlyWhenTooBig, Sum, ItemSize, Bytes, Offset, N
<1> QED BY <1>1, <1>2, <1>3

LEMMA TakeInv == ASSUME IInv, Take PROVE IInv'
<1> DEFINE k == lastIndex + toSend + 1
<1> USE DEF Take, IInv
<1>1. /\ end \in Seq(Nat) /\ lastIndex \in Nat /\ toSend \in Nat /\ N \in Nat
      /\ lastIndex + toSend < N /\ VarOverhead \in Nat /\ MsgOverhead \in Nat
      /\ PduSize \in Nat /\ MaxVars \in Nat
  BY BatchingAssumption DEF TypeOK, CanTake, N
<1>2. ItemSize(k) \in Nat
  BY <1>1, ItemSizeNat DEF LoopInv
<1>3. /\ currSum \in Nat /\ currSum' = currSum + ItemSize(k) /\ toSend' = toSend + 1
      /\ currSum + ItemSize(k) < PduSize - MsgOverhead /\ toSend < MaxVars
  BY DEF TypeOK, CanTake, Fits
<1>4. TypeOK'
  BY <1>1, <1>2, <1>3 DEF TypeOK, N
<1>5. LoopInv'
  <2>1. currSum' = (Bytes(lastIndex + 1, lastIndex + toSend) + toSend * VarOverhead)'
    <3>1. currSum = Bytes(lastIndex + 1, lastIndex + toSend) + toSend * VarOverhead
      BY DEF LoopInv
    <3>2. currSum' = Bytes(lastIndex + 1, lastIndex + toSend + 1) + (toSend + 1) * VarOverhead
      <4> HIDE DEF Take, IInv
      <4>1. Bytes(lastIndex + 1, lastIndex + toSend) + toSend * VarOverhead + ItemSize(k)
              = Bytes(lastIndex + 1, lastIndex + toSend + 1) + (toSend + 1) * VarOverhead
        BY <1>1, JoinSize
      <4> QED BY <1>3, <3>1, <4>1
    <3>3. lastIndex' = lastIndex /\ end' = end /\ lastIndex + toSend + 1 = lastIndex + (toSend + 1)
      BY <1>1
    <3> QED BY <1>3, <3>2, <3>3 DEF Bytes, Offset
  <2>2. (toSend <= MaxVars /\ currSum + MsgOverhead < PduSize)'
    BY <1>1, <1>2, <1>3
  <2>3. Asked' = Asked
    BY DEF Asked, LastRequest
  <2> QED BY <1>1, <2>1, <2>2, <2>3 DEF LoopInv, N
<1>6. Chained' /\ PduRespected' /\ AreaOnlyWhenTooBig'
  BY DEF Chained, PduRespected, AreaOnlyWhenTooBig, Sum, ItemSize, Bytes, Offset, N
<1> QED BY <1>4, <1>5, <1>6

(* A request c for items lastIndex+1 .. lastIndex+n keeps the calls        *)
(* chained, whichever client call it was.                                  *)
LEMMA ChainExtends ==
  ASSUME TypeOK, LoopInv, Chained, pc = "fill", NEW c \in Request, NEW n \in Nat \ {0},
         lastIndex + n <= N, c.first = lastIndex + 1, c.last = lastIndex + n,
         calls' = Append(calls, c), end' = end
  PROVE  Chained'
<1>1. calls \in Seq(Request) /\ N' = N /\ lastIndex \in Nat /\ N \in Nat
  BY DEF TypeOK, N
<1>2. /\ \A i \in DOMAIN calls : calls'[i] = calls[i] /\ i # Len(calls) + 1
      /\ calls'[Len(calls) + 1] = c
      /\ DOMAIN calls' = DOMAIN calls \cup {Len(calls) + 1}
      /\ DOMAIN calls = 1..Len(calls) /\ Len(calls) \in Nat
  BY <1>1, AppendCall
<1> SUFFICES ASSUME NEW i \in DOMAIN calls'
             PROVE  /\ calls'[i].first = (IF i = 1 THEN 1 ELSE calls'[i - 1].last + 1)
                    /\ calls'[i].first <= calls'[i].last /\ calls'[i].last <= N
  BY <1>1 DEF Chained
<1>3. CASE i \in DOMAIN calls
  <2>1. i # 1 => i - 1 \in DOMAIN calls
    BY <1>2, <1>3
  <2> QED BY <1>2, <1>3, <2>1 DEF Chained
<1>4. CASE i = Len(calls) + 1
  <2>1. CASE calls = <<>>
    BY <1>1, <1>2, <1>4, <2>1 DEF LoopInv, Asked
  <2>2. CASE calls # <<>>
    <3>1. Len(calls) \in DOMAIN calls /\ calls[Len(calls)].last = lastIndex
      BY <1>1, <1>2, <2>2 DEF LoopInv, Asked, LastRequest
    <3>2. i # 1 /\ i - 1 = Len(calls)
      BY <1>2, <1>4, <3>1
    <3> QED BY <1>1, <1>2, <1>4, <3>1, <3>2
  <2> QED BY <2>1, <2>2
<1> QED BY <1>2, <1>3, <1>4

(* The calls stay within the PDU when a request that does is appended, and *)
(* likewise for the requests of a single large item.                       *)
LEMMA CallsExtend ==
  ASSUME calls \in Seq(Request), NEW c \in Request, calls' = Append(calls, c), end' = end,
         PduRespected, AreaOnlyWhenTooBig,
         c.kind = "multi" => Sum(c) + MsgOverhead < PduSize /\ c.last - c.first < MaxVars,
         c.kind = "area" => c.first = c.last /\ ItemSize(c.first) + MsgOverhead >= PduSize
  PROVE  PduRespected' /\ AreaOnlyWhenTooBig'
<1>1. /\ \A i \in DOMAIN calls : calls'[i] = calls[i]
      /\ calls'[Len(calls) + 1] = c
      /\ DOMAIN calls' = DOMAIN calls \cup {Len(calls) + 1}
  BY AppendCall
<1>2. \A d : Sum(d)' = Sum(d) /\ \A j : ItemSize(j)' = ItemSize(j)
  BY DEF Sum, ItemSize, Bytes, Offset
<1> QED BY <1>1, <1>2 DEF PduRespected, AreaOnlyWhenTooBig, Sum, ItemSize, Bytes, Offset

LEMMA CallAreaInv == ASSUME IInv, CallArea PROVE IInv'
<1> DEFINE k == lastIndex + 1
<1> USE DEF IInv
<1>1. PICK ok \in BOOLEAN :
        calls' = Append(calls, [kind |-> "area", first |-> k, last |-> k, ok |-> ok])
  BY DEF CallArea
<1> DEFINE c == [kind |-> "area", first |-> k, last |-> k, ok |-> ok]
<1>2. /\ pc = "fill" /\ pc' = "report" /\ toSend = 0 /\ toSend' = 1 /\ end' = end
      /\ lastIndex' = lastIndex /\ ~CanTake /\ currSum' = ItemSize(k) + MsgOverhead
      /\ UNCHANGED <<op, shown, result, queued, warned, ioFailures>>
  BY DEF CallArea
<1>3. /\ lastIndex \in Nat /\ N \in Nat /\ lastIndex < N /\ k \in 1..N /\ N' = N
      /\ MsgOverhead \in Nat /\ PduSize \in Nat /\ MaxVars \in Nat \ {0}
  BY <1>2, BatchingAssumption DEF LoopInv, TypeOK, N
<1>4. c \in Request /\ calls' = Append(calls, c)
  BY <1>1, <1>3 DEF Request
<1>5. calls \in Seq(Request) /\ calls' \in Seq(Request) /\ calls' # <<>> /\ LastRequest' = c
  BY <1>4, AppendCall DEF TypeOK
<1>6. ItemSize(k) \in Nat
  BY <1>3, ItemSizeNat DEF LoopInv
<1>7. ItemSize(k) + MsgOverhead >= PduSize
  <2>1. currSum = 0
    <3>1. currSum = Bytes(k, lastIndex + 0) + 0 * VarOverhead
      BY <1>2 DEF LoopInv
    <3>2. lastIndex + 0 = lastIndex /\ k - 1 = lastIndex /\ 0 * VarOverhead = 0
      BY <1>3, BatchingAssumption
    <3>3. Offset(lastIndex) \in Nat
      BY <1>3, OffsetType DEF TypeOK
    <3> QED BY <3>1, <3>2, <3>3 DEF Bytes
  <2>2. lastIndex + toSend + 1 = k /\ lastIndex + toSend < N
    BY <1>2, <1>3
  <2>3. ~(0 + ItemSize(k) < PduSize - MsgOverhead /\ 0 < MaxVars)
    BY <1>2, <2>1, <2>2 DEF CanTake, Fits
  <2> QED BY <1>3, <1>6, <2>3
<1>8. TypeOK'
  <2>1. /\ lastIndex' \in 0..N /\ toSend' \in 0..(N - lastIndex') /\ shown' \in 0..toSend'
        /\ currSum' \in Nat
    BY <1>2, <1>3, <1>6 DEF TypeOK
  <2> QED BY <1>2, <1>3, <1>5, <2>1 DEF TypeOK
<1>9. LoopInv'
  BY <1>2, <1>3, <1>5 DEF LoopInv, Asked, N
<1>10. Chained'
  BY <1>2, <1>3, <1>4, ChainExtends
<1>11. PduRespected' /\ AreaOnlyWhenTooBig'
  BY <1>2, <1>4, <1>5, <1>7, CallsExtend
<1> QED BY <1>8, <1>9, <1>10, <1>11

LEMMA CallMultiInv == ASSUME IInv, CallMulti PROVE IInv'
<1> USE DEF IInv
<1>1. PICK ok \in BOOLEAN :
        /\ calls' = Append(calls, [kind |-> "multi", first |-> lastIndex + 1,
                                   last |-> lastIndex + toSend, ok |-> ok])
        /\ result' \in MultiResults(ok)
  BY DEF CallMulti
<1> DEFINE c == [kind |-> "multi", first |-> lastIndex + 1,
                 last |-> lastIndex + toSend, ok |-> ok]
<1>2. /\ pc = "fill" /\ pc' = "report" /\ toSend > 0 /\ toSend' = toSend /\ end' = end
      /\ lastIndex' = lastIndex /\ currSum' = currSum
      /\ UNCHANGED <<op, shown, queued, warned, ioFailures>>
  BY DEF CallMulti
<1>3. /\ lastIndex \in Nat /\ N \in Nat /\ toSend \in Nat \ {0} /\ lastIndex + toSend <= N
      /\ N' = N /\ MsgOverhead \in Nat /\ PduSize \in Nat /\ MaxVars \in Nat
  BY <1>2, BatchingAssumption DEF TypeOK, N
<1>4. c \in Request /\ calls' = Append(calls, c)
  BY <1>1, <1>3 DEF Request
<1>5. calls \in Seq(Request) /\ calls' \in Seq(Request) /\ calls' # <<>> /\ LastRequest' = c
  BY <1>4, AppendCall DEF TypeOK
<1>6. Sum(c) + MsgOverhead < PduSize /\ c.last - c.first < MaxVars
  <2>1. (lastIndex + toSend) - (lastIndex + 1) + 1 = toSend
    BY <1>3
  <2>2. Sum(c) = currSum
    BY <1>2, <2>1 DEF Sum, LoopInv
  <2> QED BY <1>2, <1>3, <2>2 DEF LoopInv
<1>7. TypeOK'
  BY <1>1, <1>2, <1>5 DEF TypeOK, MultiResults, N
<1>8. LoopInv'
  BY <1>2, <1>3, <1>5 DEF LoopInv, Asked, N
<1>9. Chained'
  BY <1>2, <1>3, <1>4, ChainExtends
<1>10. PduRespected' /\ AreaOnlyWhenTooBig'
  BY <1>2, <1>4, <1>5, <1>6, CallsExtend
<1> QED BY <1>7, <1>8, <1>9, <1>10

LEMMA ReportItemInv == ASSUME IInv, ReportItem PROVE IInv'
<1> USE DEF IInv, ReportItem
<1>1. TypeOK'
  <2>1. lastIndex + shown + 1 \in 1..N
    BY DEF TypeOK, N
  <2>2. queued' \in Seq(1..N) /\ warned' \subseteq 1..N
    <3> DEFINE k == lastIndex + shown + 1
    <3>1. \/ queued' = Append(queued, k) /\ warned' = warned
          \/ queued' = queued /\ warned' = warned \cup {k}
      OBVIOUS
    <3>2. queued \in Seq(1..N) /\ warned \subseteq 1..N
      BY DEF TypeOK
    <3>3. k \in 1..N
      BY <2>1
    <3> HIDE DEF ReportItem, IInv, k
    <3>4. Append(queued, k) \in Seq(1..N)
      BY <3>2, <3>3
    <3>5. warned \cup {k} \subseteq 1..N
      BY <3>2, <3>3
    <3> QED BY <3>1, <3>2, <3>4, <3>5
  <2>3. shown' \in 0..toSend
    BY DEF TypeOK, N
  <2> QED BY <2>2, <2>3 DEF TypeOK, N
<1>2. LoopInv'
  BY DEF LoopInv, Asked, LastRequest
<1>3. Chained' /\ PduRespected' /\ AreaOnlyWhenTooBig'
  BY DEF Chained, PduRespected, AreaOnlyWhenTooBig, Sum, ItemSize, Bytes, Offset, N
<1> QED BY <1>1, <1>2, <1>3

LEMMA EndRequestInv == ASSUME IInv, EndRequest PROVE IInv'
<1> USE DEF IInv, EndRequest
<1>1. TypeOK'
  BY DEF TypeOK, Advance, CountFailure, N
<1>2. LoopInv'
  BY DEF LoopInv, Asked, LastRequest, Advance
<1>3. Chained' /\ PduRespected' /\ AreaOnlyWhenTooBig'
  BY DEF Chained, PduRespected, AreaOnlyWhenTooBig, Sum, ItemSize, Bytes, Offset, N
<1> QED BY <1>1, <1>2, <1>3

(* For every list of items, PDU size and overhead, the loop invariant      *)
(* holds in every reachable state.                                         *)
THEOREM Inductive == Spec => []IInv
<1>1. Init => IInv
  BY InitIInv
<1>2. IInv /\ [Next]_vars => IInv'
  <2> SUFFICES ASSUME IInv, [Next]_vars PROVE IInv'
    OBVIOUS
  <2>1. CASE Next
    BY <2>1, StartBatchInv, FinishInv, TakeInv, CallAreaInv, CallMultiInv, ReportItemInv,
       EndRequestInv DEF Next
  <2>2. CASE UNCHANGED vars
    BY <2>2 DEF vars, IInv, TypeOK, LoopInv, Asked, LastRequest, Chained, PduRespected,
       AreaOnlyWhenTooBig, Sum, ItemSize, Bytes, Offset, N
  <2> QED BY <2>1, <2>2
<1> QED BY <1>1, <1>2, PTL DEF Spec

(* Every variable keeps its type: in particular last_index never passes    *)
(* the end of the list, where items[last_index] would be read.             *)
THEOREM TypeCorrect == Spec => []TypeOK
<1>1. IInv => TypeOK
  BY DEF IInv
<1> QED BY <1>1, Inductive, PTL

(* No multi-variable request that the facade sends exceeds the PDU or the  *)
(* allowed number of variables.                                            *)
THEOREM PduSafe == Spec => []PduRespected
<1>1. IInv => PduRespected
  BY DEF IInv
<1> QED BY <1>1, Inductive, PTL

(* ReadArea and WriteArea are used only for an item that exceeds the PDU.  *)
THEOREM AreaJustified == Spec => []AreaOnlyWhenTooBig
<1>1. IInv => AreaOnlyWhenTooBig
  BY DEF IInv
<1> QED BY <1>1, Inductive, PTL

(* The requests cut the list into consecutive ranges, and cover it when    *)
(* the function returns: every item is asked for exactly once.             *)
THEOREM Partition == Spec => []EachItemOnce
<1>1. IInv => EachItemOnce
  BY DEF IInv, Chained, LoopInv, Asked, EachItemOnce, TypeOK, N
<1> QED BY <1>1, Inductive, PTL
-----------------------------------------------------------------------------
(* A request that is appended keeps the others full.                       *)
LEMMA FullExtends ==
  ASSUME calls \in Seq(Request), NEW c \in Request, calls' = Append(calls, c), end' = end,
         RequestsAreFull,
         c.kind = "multi" => \/ c.last = N \/ c.last - c.first + 1 = MaxVars
                             \/ Sum(c) + ItemSize(c.last + 1) + MsgOverhead >= PduSize
  PROVE  RequestsAreFull'
<1>1. /\ \A i \in DOMAIN calls : calls'[i] = calls[i]
      /\ calls'[Len(calls) + 1] = c
      /\ DOMAIN calls' = DOMAIN calls \cup {Len(calls) + 1}
  BY AppendCall
<1> QED BY <1>1 DEF RequestsAreFull, Sum, ItemSize, Bytes, Offset, N

LEMMA CallMultiFull == ASSUME IInv, RequestsAreFull, CallMulti PROVE RequestsAreFull'
<1>1. PICK ok \in BOOLEAN :
        calls' = Append(calls, [kind |-> "multi", first |-> lastIndex + 1,
                                last |-> lastIndex + toSend, ok |-> ok])
  BY DEF CallMulti
<1> DEFINE c == [kind |-> "multi", first |-> lastIndex + 1,
                 last |-> lastIndex + toSend, ok |-> ok]
           k == lastIndex + toSend + 1
<1>2. /\ lastIndex \in Nat /\ N \in Nat /\ toSend \in Nat \ {0} /\ lastIndex + toSend <= N
      /\ MsgOverhead \in Nat /\ PduSize \in Nat /\ MaxVars \in Nat /\ currSum \in Nat
      /\ toSend <= MaxVars /\ end \in Layouts
  <2>1. pc = "fill" /\ toSend > 0 /\ TypeOK /\ LoopInv
    BY DEF CallMulti, IInv
  <2>2. N \in Nat /\ lastIndex \in 0..N /\ toSend \in 0..(N - lastIndex) /\ currSum \in Nat
    BY <2>1 DEF TypeOK, N
  <2>3. toSend <= MaxVars /\ end \in Layouts
    BY <2>1 DEF LoopInv
  <2> QED BY <2>1, <2>2, <2>3, BatchingAssumption
<1>3. (lastIndex + toSend) - (lastIndex + 1) + 1 = toSend
  BY <1>2
<1>4. Sum(c) = currSum
  BY <1>3 DEF Sum, LoopInv, CallMulti, IInv
<1>5. c.last = N \/ c.last - c.first + 1 = MaxVars
        \/ Sum(c) + ItemSize(c.last + 1) + MsgOverhead >= PduSize
  <2>1. CASE lastIndex + toSend >= N
    BY <1>2, <2>1
  <2>2. CASE ~Fits(k)
    <3>1. CASE toSend >= MaxVars
      BY <1>2, <1>3, <3>1
    <3>2. CASE ~(currSum + ItemSize(k) < PduSize - MsgOverhead)
      <4>1. CASE k \in 1..N
        BY <1>2, <1>4, <3>2, <4>1, ItemSizeNat
      <4>2. CASE k \notin 1..N
        BY <1>2, <4>2
      <4> QED BY <4>1, <4>2
    <3> QED BY <1>2, <2>2, <3>1, <3>2 DEF Fits
  <2> QED BY <1>2, <2>1, <2>2 DEF CallMulti, CanTake
<1>6. c \in Request /\ calls \in Seq(Request)
  BY <1>2 DEF Request, IInv, TypeOK
<1> QED BY <1>1, <1>5, <1>6, FullExtends DEF CallMulti

LEMMA FullStep == ASSUME IInv, RequestsAreFull, [Next]_vars PROVE RequestsAreFull'
<1>1. CASE CallMulti
  BY <1>1, CallMultiFull
<1>2. CASE CallArea
  <2>1. PICK ok \in BOOLEAN :
          calls' = Append(calls, [kind |-> "area", first |-> lastIndex + 1,
                                  last |-> lastIndex + 1, ok |-> ok])
    BY <1>2 DEF CallArea
  <2> DEFINE c == [kind |-> "area", first |-> lastIndex + 1, last |-> lastIndex + 1, ok |-> ok]
  <2>2. c \in Request /\ calls \in Seq(Request)
    BY DEF IInv, TypeOK, Request
  <2> QED BY <1>2, <2>1, <2>2, FullExtends DEF CallArea
<1>3. CASE UNCHANGED <<end, calls>>
  BY <1>3 DEF RequestsAreFull, Sum, ItemSize, Bytes, Offset, N
<1> QED BY <1>1, <1>2, <1>3
   DEF Next, StartBatch, Finish, Take, ReportItem, EndRequest, vars

(* No request ends early without a reason, for every list, PDU size and    *)
(* overhead: a poll takes no more round trips than it has to.              *)
THEOREM Full == Spec => []RequestsAreFull
<1>1. Init => RequestsAreFull
  BY DEF Init, RequestsAreFull
<1> QED BY <1>1, FullStep, Inductive, PTL DEF Spec
-----------------------------------------------------------------------------
LEMMA ReportItemAccounted ==
  ASSUME IInv, ReadsAccountedFor, ReportItem PROVE ReadsAccountedFor'
<1> DEFINE k == lastIndex + shown + 1
           delivered == {queued[i] : i \in DOMAIN queued}
<1>1. /\ lastIndex \in Nat /\ shown \in Nat /\ N \in Nat /\ k \in 1..N
      /\ queued \in Seq(1..N) /\ op' = op /\ op = "READ" /\ result' = result
      /\ lastIndex' = lastIndex /\ shown' = shown + 1
      /\ result \in [1..N -> {"unset", "ok", "error"}]
  BY DEF ReportItem, IInv, TypeOK, N
<1>2. Reported' = Reported \cup {k} /\ k \notin Reported /\ \A j \in Reported : j < k
  BY <1>1 DEF Reported
<1>3. /\ delivered \cup warned = Reported /\ delivered \cap warned = {}
      /\ \A i, j \in DOMAIN queued : i < j => queued[i] < queued[j]
      /\ \A j \in Reported : result[j] = "ok" => j \in delivered
      /\ \A j \in Reported : result[j] = "error" => j \in warned
  BY <1>1 DEF ReadsAccountedFor
<1>4. \/ queued' = Append(queued, k) /\ warned' = warned /\ result[k] # "error"
      \/ queued' = queued /\ warned' = warned \cup {k} /\ result[k] # "ok"
  BY DEF ReportItem, ReadsZero
<1>5. CASE queued' = Append(queued, k) /\ warned' = warned /\ result[k] # "error"
  <2>1. /\ Len(queued) \in Nat /\ DOMAIN queued = 1..Len(queued)
        /\ DOMAIN queued' = 1..(Len(queued) + 1)
        /\ \A i \in DOMAIN queued : queued'[i] = queued[i]
        /\ queued'[Len(queued) + 1] = k
    BY <1>1, <1>5
  <2>2. delivered' = delivered \cup {k}
    BY <2>1
  <2>3. \A i \in DOMAIN queued : queued[i] < k
    BY <1>2, <1>3
  <2>4. \A i, j \in DOMAIN queued' : i < j => queued'[i] < queued'[j]
    BY <1>3, <2>1, <2>3
  <2> HIDE DEF delivered, k
  <2>5. delivered' \cup warned' = Reported' /\ delivered' \cap warned' = {}
    BY <1>2, <1>3, <1>5, <2>2
  <2>6. /\ \A j \in Reported' : result'[j] = "ok" => j \in delivered'
        /\ \A j \in Reported' : result'[j] = "error" => j \in warned'
    BY <1>1, <1>2, <1>3, <1>5, <2>2
  <2> QED BY <1>1, <2>4, <2>5, <2>6 DEF ReadsAccountedFor, delivered
<1>6. CASE queued' = queued /\ warned' = warned \cup {k} /\ result[k] # "ok"
  <2>1. delivered' = delivered
    BY <1>6
  <2>2. \A i, j \in DOMAIN queued' : i < j => queued'[i] < queued'[j]
    BY <1>3, <1>6
  <2> HIDE DEF delivered, k
  <2>3. delivered' \cup warned' = Reported' /\ delivered' \cap warned' = {}
    BY <1>2, <1>3, <1>6, <2>1
  <2>4. /\ \A j \in Reported' : result'[j] = "ok" => j \in delivered'
        /\ \A j \in Reported' : result'[j] = "error" => j \in warned'
    BY <1>1, <1>2, <1>3, <1>6, <2>1
  <2> QED BY <1>1, <2>2, <2>3, <2>4 DEF ReadsAccountedFor, delivered
<1> QED BY <1>4, <1>5, <1>6

LEMMA AccountedStep == ASSUME IInv, ReadsAccountedFor, [Next]_vars PROVE ReadsAccountedFor'
<1>1. CASE ReportItem
  BY <1>1, ReportItemAccounted
<1>2. CASE CallMulti
  <2>1. UNCHANGED <<op, lastIndex, shown, queued, warned>> /\ shown = 0
    BY <1>2 DEF CallMulti, IInv, LoopInv
  <2>2. \A j \in Reported : result'[j] = result[j]
    <3>1. /\ lastIndex \in Nat /\ toSend \in Nat /\ N \in Nat /\ lastIndex <= N
      BY DEF IInv, TypeOK, N
    <3>2. \A j \in Reported : j \in 1..N \ Batch
      BY <2>1, <3>1 DEF Reported, Batch
    <3> QED BY <1>2, <3>2 DEF CallMulti, MultiResults
  <2> QED BY <2>1, <2>2 DEF ReadsAccountedFor, Reported
<1>3. CASE EndRequest
  <2>1. op = "READ" => Reported' = Reported
    BY <1>3 DEF EndRequest, Advance, Reported, IInv, TypeOK, N
  <2> QED BY <1>3, <2>1 DEF EndRequest, ReadsAccountedFor
<1>4. CASE UNCHANGED <<op, lastIndex, shown, queued, warned, result>>
  BY <1>4 DEF ReadsAccountedFor, Reported
<1> QED BY <1>1, <1>2, <1>3, <1>4 DEF Next, StartBatch, Finish, Take, CallArea, vars

(* Every item of a read is delivered once and in order or warned about,    *)
(* whatever the client answers and however the list was cut.               *)
THEOREM Accounted == Spec => []ReadsAccountedFor
<1>1. Init => ReadsAccountedFor
  BY DEF Init, ReadsAccountedFor, Reported
<1> QED BY <1>1, AccountedStep, Inductive, PTL DEF Spec
-----------------------------------------------------------------------------
(* How many steps the function can still make: for each item left at most  *)
(* five, the three of a request, one to join it and one to be reported on. *)
StepsLeft ==
  CASE pc = "loop"   -> 5 * (N - lastIndex) + 1
    [] pc = "fill"   -> 5 * (N - lastIndex) - toSend
    [] pc = "report" -> 5 * (N - lastIndex - toSend) + 2 + (toSend - shown)
    [] pc = "done"   -> 0

(* Every iteration of the loop makes progress, so the function returns     *)
(* after at most 5 * items.size() + 1 steps: an item too large for any     *)
(* request, a request that fails as a whole and an item answered with an   *)
(* error are passed over, never tried again.                               *)
Returns ==
  [](StepsLeft \in 0..(5 * N + 1)) /\ [][StepsLeft' < StepsLeft]_vars

(* One step lowers the variant.                                            *)
LEMMA StepShortens == ASSUME IInv, Next PROVE StepsLeft' < StepsLeft
<1> USE DEF StepsLeft
<1>1. /\ N \in Nat /\ lastIndex \in 0..N /\ toSend \in 0..(N - lastIndex) /\ shown \in 0..toSend
      /\ N' = N
  <2>1. TypeOK /\ N \in Nat
    BY DEF IInv, TypeOK, N
  <2>2. end' = end
    BY DEF Next, StartBatch, Finish, Take, CallArea, CallMulti, ReportItem, EndRequest
  <2>3. N' = N
    BY <2>2 DEF N
  <2> QED BY <2>1, <2>3 DEF TypeOK
<1>2. CASE StartBatch
  <2>1. pc = "loop" /\ pc' = "fill" /\ lastIndex' = lastIndex /\ toSend' = 0
    BY <1>2 DEF StartBatch
  <2> QED BY <1>1, <2>1
<1>3. CASE Finish
  <2>1. pc = "loop" /\ pc' = "done"
    BY <1>3 DEF Finish
  <2> QED BY <1>1, <2>1
<1>4. CASE Take
  <2>1. pc = "fill" /\ pc' = "fill" /\ lastIndex' = lastIndex /\ toSend' = toSend + 1
    BY <1>4 DEF Take
  <2> QED BY <1>1, <2>1
<1>5. CASE CallArea
  <2>1. /\ pc = "fill" /\ pc' = "report" /\ lastIndex' = lastIndex /\ shown' = shown
        /\ toSend = 0 /\ toSend' = 1
    BY <1>5 DEF CallArea
  <2> QED BY <1>1, <2>1
<1>6. CASE CallMulti
  <2>1. /\ pc = "fill" /\ pc' = "report" /\ lastIndex' = lastIndex /\ shown' = shown
        /\ toSend > 0 /\ toSend' = toSend
    BY <1>6 DEF CallMulti
  <2> QED BY <1>1, <2>1
<1>7. CASE ReportItem
  <2>1. /\ pc = "report" /\ pc' = "report" /\ lastIndex' = lastIndex /\ toSend' = toSend
        /\ shown' = shown + 1
    BY <1>7 DEF ReportItem
  <2> QED BY <1>1, <2>1
<1>8. CASE EndRequest
  <2>1. pc = "report" /\ pc' = "loop" /\ lastIndex' = lastIndex + toSend /\ toSend' = 0
    BY <1>8 DEF EndRequest, Advance
  <2> QED BY <1>1, <2>1
<1> QED BY <1>2, <1>3, <1>4, <1>5, <1>6, <1>7, <1>8 DEF Next

(* A request that has been made asked for something.                       *)
SendsSomething == pc = "report" => toSend > 0

(* For every list, PDU and answer of the PLC the function winds down.      *)
THEOREM Ends == Spec => Returns
<1>1. Init => SendsSomething
  BY DEF Init, SendsSomething
<1>2. IInv /\ SendsSomething /\ [Next]_vars => SendsSomething'
  BY DEF Next, StartBatch, Finish, Take, CallArea, CallMulti, ReportItem, EndRequest, vars,
     SendsSomething
<1>3. IInv /\ SendsSomething => StepsLeft \in 0..(5 * N + 1)
  <2> SUFFICES ASSUME IInv, SendsSomething PROVE StepsLeft \in 0..(5 * N + 1)
    OBVIOUS
  <2>1. /\ N \in Nat /\ lastIndex \in 0..N /\ toSend \in 0..(N - lastIndex) /\ shown \in 0..toSend
        /\ pc \in {"loop", "fill", "report", "done"}
    BY DEF IInv, TypeOK, N
  <2>2. pc = "report" => toSend > 0
    BY DEF SendsSomething
  <2> QED BY <2>1, <2>2 DEF StepsLeft
<1>4. IInv /\ [Next]_vars => [StepsLeft' < StepsLeft]_vars
  BY StepShortens
<1> QED BY Inductive, <1>1, <1>2, <1>3, <1>4, PTL DEF Spec, Returns
=============================================================================
