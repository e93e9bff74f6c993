--------------------------- MODULE DataPathProofs ---------------------------
(* The safety properties of the data path, for any variables, poll times   *)
(* and bounds, and its refinement of ProcessImage.                         *)
EXTENDS DataPath, TLAPS

(* Where a write is: in the slot it is newer than what the thread took     *)
(* from the slot, which is newer than everything sent.  The values of a    *)
(* variable are counted by the writes sent and the PLC's own changes.      *)
Newest(v) == IF sent[v] = <<>> THEN 0 ELSE sent[v][Len(sent[v])]

SlotInv ==
  \A v \in Polled :
    /\ \A i \in DOMAIN sent[v] : sent[v][i] <= Newest(v)
    /\ taken[v] # 0 => Newest(v) < taken[v]
    /\ pending[v] # 0 => Newest(v) < pending[v] /\ taken[v] < pending[v]
    /\ Newest(v) <= accepted /\ taken[v] <= accepted /\ pending[v] <= accepted
    /\ plc[v] <= 1 + changes + Newest(v) /\ plc[v] > 0

(* What has been written in this pass is due until Poll has collected it.  *)
PassInv ==
  /\ pc # "writing" => ToWrite = {}
  /\ pc = "write" => written = {}
  /\ pc = "writing" => \A v \in written \cup ToWrite : age[v] = Period(v)
  /\ pc = "poll" => \A v \in written : age[v] = Period(v)
  /\ pc \in {"polling", "sleep"} => written = {}
  /\ pc # "polling" => got = {}

(* The values on their way to a data point are in order: shown, queued, to *)
(* be queued, in the PLC.                                                  *)
QueuedInv ==
  \A i \in DOMAIN queue :
    LET v == queue[i][1]
        n == queue[i][2] IN
    /\ n = NoData => v \in Junk
    /\ n # NoData => dp[v] <= n /\ n <= plc[v]
    /\ \A j \in DOMAIN queue : i < j /\ queue[j][1] = v /\ queue[j][2] # NoData => n <= queue[j][2]

GotInv ==
  \A item \in got :
    LET v == item[1]
        n == item[2] IN
    /\ n = NoData => v \in Junk
    /\ n # NoData => /\ dp[v] <= n /\ n <= plc[v]
                     /\ \A i \in DOMAIN queue : queue[i][1] = v => queue[i][2] <= n
    /\ \A other \in got : other[1] = v => other = item

PointInv == \A v \in Polled : dp[v] <= plc[v]

IInv == TypeOK /\ SlotInv /\ PassInv /\ QueuedInv /\ GotInv /\ PointInv /\ WritesOnceInOrder

USE DEF NoData, Writes

LEMMA PeriodNat == \A v \in Polled : Period(v) \in Nat
BY DataPathAssumption DEF Period, MaxOf

LEMMA NewestNat == ASSUME TypeOK, NEW v \in Polled PROVE Newest(v) \in Nat
<1>1. sent[v] \in Seq(Writes)
  BY DEF TypeOK
<1>2. CASE sent[v] = <<>>
  BY <1>2 DEF Newest
<1>3. CASE sent[v] # <<>>
  BY <1>1, <1>3, DataPathAssumption DEF Newest
<1> QED BY <1>2, <1>3

LEMMA ValuesNat == Values \subseteq Nat /\ 0 \in Values /\ Writes \subseteq Nat /\ 0 \in Writes
BY DataPathAssumption DEF Values

LEMMA Typed ==
  ASSUME TypeOK
  PROVE  /\ \A v \in Polled : /\ pending[v] \in Nat /\ taken[v] \in Nat /\ taken[v] \in Writes
                              /\ plc[v] \in Nat /\ dp[v] \in Nat /\ sent[v] \in Seq(Writes)
                              /\ Newest(v) \in Nat
         /\ \A item \in got : item[1] \in Polled /\ item[2] \in Nat
         /\ \A i \in DOMAIN queue : queue[i][1] \in Polled /\ queue[i][2] \in Nat
         /\ accepted \in Nat /\ changes \in Nat
<1>1. \A v \in Polled : /\ pending[v] \in Nat /\ taken[v] \in Nat /\ taken[v] \in Writes
                        /\ sent[v] \in Seq(Writes)
  BY ValuesNat DEF TypeOK
<1>2. \A v \in Polled : plc[v] \in Nat /\ dp[v] \in Nat
  BY ValuesNat DEF TypeOK
<1>3. \A item \in Polled \X Values : item[1] \in Polled /\ item[2] \in Nat
  BY ValuesNat
<1>4. \A i \in DOMAIN queue : queue[i] \in Polled \X Values
  BY DEF TypeOK
<1>5. \A item \in got : item \in Polled \X Values
  BY DEF TypeOK
<1>6. accepted \in Nat /\ changes \in Nat
  BY ValuesNat DEF TypeOK
<1>7. \A v \in Polled : Newest(v) \in Nat
  BY NewestNat
<1>8. /\ \A item \in got : item[1] \in Polled /\ item[2] \in Nat
      /\ \A i \in DOMAIN queue : queue[i][1] \in Polled /\ queue[i][2] \in Nat
  BY <1>3, <1>4, <1>5
<1> QED BY <1>1, <1>2, <1>6, <1>7, <1>8

LEMMA Appended ==
  ASSUME NEW S, NEW s \in Seq(S), NEW e \in S
  PROVE  /\ Append(s, e) \in Seq(S) /\ Append(s, e) # <<>>
         /\ Append(s, e)[Len(Append(s, e))] = e
         /\ DOMAIN Append(s, e) = 1..(Len(s) + 1) /\ DOMAIN s = 1..Len(s)
         /\ \A i \in 1..Len(s) : Append(s, e)[i] = s[i]
         /\ Append(s, e)[Len(s) + 1] = e
<1>1. Append(s, e) \in Seq(S) /\ Len(Append(s, e)) = Len(s) + 1
  OBVIOUS
<1>2. Append(s, e)[Len(s) + 1] = e
  OBVIOUS
<1> QED BY <1>1, <1>2

LEMMA InitInv == Init => IInv
<1> SUFFICES ASSUME Init PROVE IInv
  OBVIOUS
<1>1. TypeOK
  <2>1. queue \in Seq(Polled \X Values)
    BY DEF Init
  <2>2. sent \in [Polled -> Seq(Writes)]
    BY DEF Init
  <2>3. age \in [Polled -> Nat] /\ \A v \in Polled : age[v] <= Period(v)
    BY PeriodNat DEF Init
  <2>4. plc \in [Polled -> Values] /\ dp \in [Polled -> Values]
    BY DataPathAssumption DEF Init, Values
  <2>5. /\ pending \in [Polled -> Writes] /\ taken \in [Polled -> Writes]
        /\ last \in [Polled -> Writes] /\ accepted \in Writes
    BY DataPathAssumption DEF Init
  <2>6. blank \in [Polled -> BOOLEAN]
    BY DEF Init
  <2>7. changes \in 0..MaxChanges
    BY DataPathAssumption DEF Init
  <2> QED BY <2>1, <2>2, <2>3, <2>4, <2>5, <2>6, <2>7 DEF Init, TypeOK
<1>2. SlotInv /\ WritesOnceInOrder
  BY DataPathAssumption DEF Init, SlotInv, Newest, WritesOnceInOrder
<1>3. PassInv
  BY DEF Init, PassInv, ToWrite
<1>4. QueuedInv /\ GotInv /\ PointInv
  BY DEF Init, QueuedInv, GotInv, PointInv
<1> QED BY <1>1, <1>2, <1>3, <1>4 DEF IInv

LEMMA WriteDataInv == ASSUME IInv, NEW v \in Vars, WriteData(v) PROVE IInv'
<1> USE DEF IInv, WriteData, points, world
<1>1. accepted + 1 \in Writes
  BY DataPathAssumption DEF TypeOK
<1>2. \/ pending' = [pending EXCEPT ![v] = accepted + 1] /\ last' = [last EXCEPT ![v] = accepted + 1]
      \/ UNCHANGED <<pending, last>>
  BY DEF FillSlot, Filled
<1>3. TypeOK'
  <2>1. pending' \in [Polled -> Writes] /\ last' \in [Polled -> Writes]
    <3>1. pending \in [Polled -> Writes] /\ last \in [Polled -> Writes]
      BY DEF TypeOK
    <3> HIDE DEF IInv, WriteData
    <3> QED BY <1>1, <1>2, <3>1
  <2> QED BY <1>1, <2>1 DEF TypeOK, Period
<1>4. SlotInv' /\ WritesOnceInOrder'
  <2>1. \A u \in Polled : Newest(u)' = Newest(u) /\ Newest(u) \in Nat
    BY NewestNat DEF Newest
  <2>2. \A u \in Polled : pending'[u] = pending[u] \/ pending'[u] = accepted + 1
    BY <1>2 DEF TypeOK
  <2>3. \A u \in Polled : taken[u] \in Nat /\ pending[u] \in Nat
    BY DEF TypeOK
  <2>4. accepted \in Nat /\ changes \in Nat
    BY DEF TypeOK
  <2>5. SlotInv'
    BY <2>1, <2>2, <2>3, <2>4 DEF SlotInv
  <2> QED BY <2>5 DEF WritesOnceInOrder
<1>5. PassInv'
  BY DEF PassInv, ToWrite
<1>6. QueuedInv' /\ GotInv' /\ PointInv'
  BY DEF QueuedInv, GotInv, PointInv
<1> QED BY <1>3, <1>4, <1>5, <1>6

LEMMA CollectWritesInv == ASSUME IInv, CollectWrites PROVE IInv'
<1> USE DEF IInv, CollectWrites, points, world, EmptySlots, Bumped
<1>1. TypeOK'
  <2>1. age' \in [Polled -> Nat] /\ \A v \in Polled : age'[v] <= Period(v)
    BY PeriodNat DEF TypeOK
  <2>2. pending' \in [Polled -> Writes] /\ taken' \in [Polled -> Writes]
    BY DataPathAssumption DEF TypeOK
  <2> QED BY <2>1, <2>2 DEF TypeOK, Period
<1>2. SlotInv' /\ WritesOnceInOrder'
  <2>1. \A u \in Polled : Newest(u)' = Newest(u) /\ Newest(u) \in Nat
    BY NewestNat DEF Newest
  <2> QED BY <2>1 DEF SlotInv, WritesOnceInOrder, TypeOK
<1>3. PassInv'
  BY DEF PassInv, ToWrite, TypeOK, Period
<1>4. QueuedInv' /\ GotInv' /\ PointInv'
  BY DEF QueuedInv, GotInv, PointInv
<1> QED BY <1>1, <1>2, <1>3, <1>4

LEMMA PassivePassInv == ASSUME IInv, PassivePass PROVE IInv'
<1> USE DEF IInv, PassivePass, slots, points, world
<1>1. TypeOK' /\ PassInv'
  BY DEF TypeOK, PassInv, ToWrite, Period
<1>2. SlotInv' /\ WritesOnceInOrder'
  BY DEF SlotInv, Newest, WritesOnceInOrder
<1>3. QueuedInv' /\ GotInv' /\ PointInv'
  BY DEF QueuedInv, GotInv, PointInv
<1> QED BY <1>1, <1>2, <1>3

(* The write taken last is newer than those sent, and becomes the newest.  *)
LEMMA WriteRequestInv ==
  ASSUME IInv, NEW R \in SUBSET Polled, NEW done \in SUBSET R, WriteRequest(R, done)
  PROVE  IInv'
<1> USE DEF IInv, WriteRequest, slots
<1>1. \A v \in Polled : sent[v] \in Seq(Writes) /\ Newest(v) \in Nat /\ plc[v] \in Nat
                        /\ taken[v] \in Nat /\ pending[v] \in Nat /\ taken[v] \in Writes
  BY Typed
<1>2. accepted \in Nat /\ changes \in Nat
  BY Typed
<1>3. \A v \in R : v \in Polled /\ taken[v] # 0
  BY DEF ToWrite
<1>4. \A v \in R : /\ sent'[v] = Append(sent[v], taken[v]) /\ taken'[v] = 0
                   /\ Newest(v)' = taken[v]
  <2>1. \A v \in R : sent'[v] = Append(sent[v], taken[v]) /\ taken'[v] = 0
    BY <1>3
  <2>2. ASSUME NEW v \in R
        PROVE  /\ Append(sent[v], taken[v]) # <<>>
               /\ Append(sent[v], taken[v])[Len(Append(sent[v], taken[v]))] = taken[v]
    <3> HIDE DEF IInv, WriteRequest
    <3>1. sent[v] \in Seq(Writes) /\ taken[v] \in Writes
      BY <1>1, <1>3
    <3> QED BY <3>1, Appended
  <2> QED BY <2>1, <2>2 DEF Newest
<1>5. \A v \in Polled \ R : sent'[v] = sent[v] /\ taken'[v] = taken[v]
                            /\ Newest(v)' = Newest(v) /\ plc'[v] = plc[v]
  BY DEF Newest
<1>6. \A v \in Polled : plc'[v] = plc[v] \/ (v \in R /\ plc'[v] = plc[v] + 1)
  OBVIOUS
<1>7. \A v \in R : \A i \in DOMAIN sent'[v] :
        (i \in DOMAIN sent[v] /\ sent'[v][i] = sent[v][i])
        \/ (i = Len(sent[v]) + 1 /\ sent'[v][i] = taken[v])
  BY <1>1, <1>3, <1>4, Appended
<1>8. \A v \in Polled : \A i \in DOMAIN sent[v] : i \in 1..Len(sent[v]) /\ sent[v][i] \in Nat
  BY <1>1, DataPathAssumption
<1>9. ASSUME NEW v \in R
      PROVE  /\ \A i \in DOMAIN sent'[v] : sent'[v][i] <= taken[v]
             /\ \A i, j \in DOMAIN sent'[v] : i < j => sent'[v][i] < sent'[v][j]
  <2>1. /\ \A i \in DOMAIN sent[v] : sent[v][i] < taken[v]
        /\ \A i, j \in DOMAIN sent[v] : i < j => sent[v][i] < sent[v][j]
    BY <1>1, <1>3, <1>8 DEF SlotInv, WritesOnceInOrder
  <2>2. /\ v \in Polled /\ taken[v] \in Nat /\ Len(sent[v]) \in Nat
        /\ \A i \in DOMAIN sent[v] : i \in 1..Len(sent[v]) /\ sent[v][i] \in Nat
    BY <1>1, <1>3, <1>8
  <2>3. \A i \in DOMAIN sent'[v] :
        (i \in DOMAIN sent[v] /\ sent'[v][i] = sent[v][i])
        \/ (i = Len(sent[v]) + 1 /\ sent'[v][i] = taken[v])
    BY <1>7
  <2> HIDE DEF IInv, WriteRequest
  <2> QED BY <2>1, <2>2, <2>3
<1>10. WritesOnceInOrder'
  <2>1. WritesOnceInOrder
    OBVIOUS
  <2> HIDE DEF IInv, WriteRequest
  <2>2. ASSUME NEW v \in Polled, NEW i \in DOMAIN sent'[v], NEW j \in DOMAIN sent'[v], i < j
        PROVE  sent'[v][i] < sent'[v][j]
    <3>1. CASE v \in R
      BY <1>9, <2>2, <3>1
    <3>2. CASE v \notin R
      BY <1>5, <2>1, <2>2, <3>2 DEF WritesOnceInOrder
    <3> QED BY <3>1, <3>2
  <2> QED BY <2>2 DEF WritesOnceInOrder
<1>11. SlotInv'
  <2>1. \A v \in R :
          /\ pending[v] # 0 => taken[v] < pending[v]
          /\ taken[v] <= accepted /\ plc'[v] <= 1 + changes + taken[v] /\ plc'[v] > 0
    <3>1. SlotInv
      OBVIOUS
    <3> HIDE DEF IInv, WriteRequest
    <3> QED BY <1>1, <1>2, <1>3, <1>6, <3>1 DEF SlotInv
  <2>2. ASSUME NEW v \in Polled \ R
        PROVE  /\ \A i \in DOMAIN sent'[v] : sent'[v][i] <= Newest(v)'
               /\ taken'[v] # 0 => Newest(v)' < taken'[v]
               /\ pending[v] # 0 => Newest(v)' < pending[v] /\ taken'[v] < pending[v]
               /\ Newest(v)' <= accepted /\ taken'[v] <= accepted /\ pending[v] <= accepted
               /\ plc'[v] <= 1 + changes + Newest(v)' /\ plc'[v] > 0
    BY <1>5 DEF SlotInv
  <2>3. ASSUME NEW v \in R
        PROVE  /\ \A i \in DOMAIN sent'[v] : sent'[v][i] <= Newest(v)'
               /\ taken'[v] # 0 => Newest(v)' < taken'[v]
               /\ pending[v] # 0 => Newest(v)' < pending[v] /\ taken'[v] < pending[v]
               /\ Newest(v)' <= accepted /\ taken'[v] <= accepted /\ pending[v] <= accepted
               /\ plc'[v] <= 1 + changes + Newest(v)' /\ plc'[v] > 0
    <3>1. v \in Polled /\ taken'[v] = 0 /\ Newest(v)' = taken[v]
      BY <1>3, <1>4
    <3>2. taken[v] \in Nat /\ pending[v] \in Nat /\ taken[v] # 0
      BY <1>1, <1>3
    <3>3. pending[v] <= accepted
      BY <1>3 DEF SlotInv
    <3>4. \A i \in DOMAIN sent'[v] : sent'[v][i] <= taken[v]
      BY <1>9
    <3>5. /\ pending[v] # 0 => taken[v] < pending[v]
          /\ taken[v] <= accepted /\ plc'[v] <= 1 + changes + taken[v] /\ plc'[v] > 0
      BY <2>1
    <3> HIDE DEF IInv, WriteRequest
    <3>6. pending[v] # 0 => 0 < pending[v]
      BY <3>2
    <3>7. \A i \in DOMAIN sent'[v] : sent'[v][i] <= Newest(v)'
      BY <3>1, <3>4
    <3>8. taken'[v] # 0 => Newest(v)' < taken'[v]
      BY <3>1
    <3>9. pending[v] # 0 => Newest(v)' < pending[v] /\ taken'[v] < pending[v]
      BY <3>1, <3>5, <3>6
    <3>10. taken'[v] <= accepted /\ Newest(v)' <= accepted
      BY <1>2, <3>1, <3>5
    <3>11. plc'[v] <= 1 + changes + Newest(v)' /\ plc'[v] > 0
      BY <3>1, <3>5
    <3> QED BY <3>3, <3>7, <3>8, <3>9, <3>10, <3>11
  <2> QED BY <2>2, <2>3 DEF SlotInv, world
<1>12. TypeOK'
  <2>1. \A v \in Polled : plc'[v] \in Values
    <3>1. \A v \in Polled : Newest(v)' <= accepted /\ plc'[v] <= 1 + changes + Newest(v)'
      BY <1>11 DEF SlotInv, world
    <3>2. accepted <= MaxWrites /\ changes <= MaxChanges
      BY DEF TypeOK
    <3>3. \A v \in Polled : plc'[v] \in Nat /\ Newest(v)' \in Nat
      <4>1. \A v \in R : Newest(v)' \in Nat
        BY <1>1, <1>3, <1>4
      <4>2. \A v \in Polled \ R : Newest(v)' \in Nat
        BY <1>1, <1>5
      <4>3. \A v \in Polled : plc'[v] \in Nat
        BY <1>1, <1>6
      <4> QED BY <4>1, <4>2, <4>3
    <3> QED BY <1>2, <3>1, <3>2, <3>3, DataPathAssumption DEF Values
  <2>2. plc' \in [Polled -> Values]
    BY <2>1
  <2>3. sent' \in [Polled -> Seq(Writes)]
    <3>1. \A v \in Polled : sent'[v] \in Seq(Writes)
      <4>1. \A v \in R : sent'[v] \in Seq(Writes)
        BY <1>1, <1>3, <1>4, Appended
      <4>2. \A v \in Polled \ R : sent'[v] \in Seq(Writes)
        BY <1>1, <1>5
      <4> QED BY <4>1, <4>2
    <3> QED BY <3>1
  <2>4. taken' \in [Polled -> Writes] /\ written' \in SUBSET Polled
    BY <1>1, DataPathAssumption DEF TypeOK
  <2> QED BY <2>2, <2>3, <2>4 DEF TypeOK, Period, points
<1>13. PassInv'
  BY DEF PassInv, ToWrite
<1>14. QueuedInv' /\ GotInv' /\ PointInv'
  <2>1. \A v \in Polled : plc[v] <= plc'[v] /\ dp[v] \in Nat /\ plc'[v] \in Nat
    BY <1>1, <1>6, Typed
  <2>2. \A i \in DOMAIN queue : queue[i][1] \in Polled /\ queue[i][2] \in Nat
    BY Typed
  <2>3. \A item \in got : item[1] \in Polled /\ item[2] \in Nat
    BY Typed
  <2>4. QueuedInv'
    BY <1>1, <2>1, <2>2 DEF QueuedInv, points
  <2>5. GotInv'
    BY <1>1, <2>1, <2>3 DEF GotInv, points
  <2>6. PointInv'
    BY <1>1, <2>1 DEF PointInv, points
  <2> QED BY <2>4, <2>5, <2>6
<1> QED BY <1>10, <1>11, <1>12, <1>13, <1>14

LEMMA EndWritesInv == ASSUME IInv, EndWrites PROVE IInv'
<1> USE DEF IInv, EndWrites, slots, points, world
<1>1. TypeOK' /\ PassInv'
  BY DEF TypeOK, PassInv, ToWrite, Period
<1>2. SlotInv' /\ WritesOnceInOrder'
  BY DEF SlotInv, Newest, WritesOnceInOrder
<1>3. QueuedInv' /\ GotInv' /\ PointInv'
  BY DEF QueuedInv, GotInv, PointInv
<1> QED BY <1>1, <1>2, <1>3

LEMMA CollectReadsInv == ASSUME IInv, CollectReads PROVE IInv'
<1> USE DEF IInv, CollectReads, slots, points, world
<1>1. TypeOK'
  <2>1. age' \in [Polled -> Nat] /\ \A v \in Polled : age'[v] <= Period(v)
    BY PeriodNat DEF TypeOK
  <2> QED BY <2>1 DEF TypeOK, Due, Period
<1>2. PassInv'
  BY DEF PassInv, ToWrite
<1>3. SlotInv' /\ WritesOnceInOrder'
  BY DEF SlotInv, Newest, WritesOnceInOrder
<1>4. QueuedInv' /\ GotInv' /\ PointInv'
  BY DEF QueuedInv, GotInv, PointInv
<1> QED BY <1>1, <1>2, <1>3, <1>4

(* What is read now is at least as new as anything queued before.          *)
LEMMA ReadRequestInv ==
  ASSUME IInv, NEW R \in SUBSET Polled, NEW good \in SUBSET R, ReadRequest(R, good)
  PROVE  IInv'
<1> USE DEF IInv, ReadRequest, slots, points, world
<1>1. got' \in SUBSET (Polled \X Values)
  <2>1. \A v \in Polled : <<v, plc[v]>> \in Polled \X Values /\ <<v, 0>> \in Polled \X Values
    BY ValuesNat DEF TypeOK
  <2> QED BY <2>1 DEF Answered, Unanswered
<1>2. TypeOK'
  BY <1>1 DEF TypeOK, Period
<1>3. PassInv'
  BY DEF PassInv, ToWrite
<1>4. SlotInv' /\ WritesOnceInOrder'
  BY DEF SlotInv, Newest, WritesOnceInOrder
<1>5. QueuedInv' /\ PointInv'
  BY DEF QueuedInv, PointInv
<1>6. GotInv'
  <2>1. \A v \in Polled : plc[v] \in Nat /\ plc[v] # 0 /\ dp[v] <= plc[v]
    BY Typed DEF SlotInv, PointInv
  <2>2. \A i \in DOMAIN queue : queue[i][1] \in Polled /\ queue[i][2] \in Nat
    BY Typed
  <2>3. \A i \in DOMAIN queue : queue[i][2] <= plc[queue[i][1]]
    BY <2>1, <2>2 DEF QueuedInv
  <2>4. CASE got' = Answered(R, good)
    <3>1. \A item \in got' : item[1] \in Polled /\ item[2] = plc[item[1]]
                             /\ item = <<item[1], item[2]>>
      BY <2>4 DEF Answered
    <3> QED BY <2>1, <2>3, <3>1 DEF GotInv
  <2>5. CASE got' = Unanswered(R)
    <3>1. \A item \in got' : item[1] \in Junk /\ item = <<item[1], 0>> /\ item[2] = 0
      BY <2>5 DEF Unanswered
    <3> QED BY <3>1 DEF GotInv
  <2> QED BY <2>4, <2>5
<1> QED BY <1>2, <1>3, <1>4, <1>5, <1>6

(* The last item of the queue is the one that was queued.                  *)
LEMMA EnqueueInv == ASSUME IInv, NEW item \in got, Enqueue(item) PROVE IInv'
<1> USE DEF IInv, Enqueue, Enqueued, slots, points, world
<1>1. item \in Polled \X Values /\ queue \in Seq(Polled \X Values)
  BY DEF TypeOK
<1>2. /\ queue' \in Seq(Polled \X Values)
      /\ DOMAIN queue' = 1..(Len(queue) + 1) /\ DOMAIN queue = 1..Len(queue) /\ Len(queue) \in Nat
      /\ \A i \in DOMAIN queue : queue'[i] = queue[i]
      /\ queue'[Len(queue) + 1] = item
  <2> HIDE DEF IInv
  <2>1. queue' = Append(queue, item)
    OBVIOUS
  <2> QED BY <1>1, <2>1, Appended
<1>3. TypeOK'
  BY <1>2 DEF TypeOK, Period
<1>4. PassInv'
  BY DEF PassInv, ToWrite
<1>5. SlotInv' /\ WritesOnceInOrder'
  BY DEF SlotInv, Newest, WritesOnceInOrder
<1>6. PointInv'
  BY DEF PointInv
<1>7. QueuedInv'
  <2>1. \A i \in DOMAIN queue' : i \in DOMAIN queue \/ i = Len(queue) + 1
    BY <1>2
  <2>2. ASSUME NEW i \in DOMAIN queue
        PROVE  /\ queue[i][2] = 0 => queue[i][1] \in Junk
               /\ queue[i][2] # 0 => dp[queue[i][1]] <= queue[i][2] /\ queue[i][2] <= plc[queue[i][1]]
               /\ \A j \in DOMAIN queue' :
                    i < j /\ queue'[j][1] = queue[i][1] /\ queue'[j][2] # 0
                      => queue[i][2] <= queue'[j][2]
    BY <1>2, <2>1 DEF QueuedInv, GotInv
  <2>3. /\ item[2] = 0 => item[1] \in Junk
        /\ item[2] # 0 => dp[item[1]] <= item[2] /\ item[2] <= plc[item[1]]
    BY DEF GotInv
  <2>4. \A j \in DOMAIN queue' : ~(Len(queue) + 1 < j)
    BY <1>2
  <2> QED BY <1>2, <2>1, <2>2, <2>3, <2>4 DEF QueuedInv
<1>8. GotInv'
  <2>1. ASSUME NEW it \in got', it[2] # 0
        PROVE  \A i \in DOMAIN queue' : queue'[i][1] = it[1] => queue'[i][2] <= it[2]
    <3>1. it \in got /\ it[1] # item[1]
      BY DEF GotInv
    <3>2. \A i \in DOMAIN queue : queue[i][1] = it[1] => queue[i][2] <= it[2]
      BY <2>1, <3>1 DEF GotInv
    <3>3. \A i \in DOMAIN queue' : i \in DOMAIN queue \/ i = Len(queue) + 1
      BY <1>2
    <3> QED BY <1>2, <3>1, <3>2, <3>3
  <2>2. \A it \in got' : it \in got
    OBVIOUS
  <2> QED BY <2>1, <2>2 DEF GotInv
<1> QED BY <1>3, <1>4, <1>5, <1>6, <1>7, <1>8

LEMMA EndReadsInv == ASSUME IInv, EndReads PROVE IInv'
<1> USE DEF IInv, EndReads, slots, points, world
<1>1. TypeOK' /\ PassInv'
  BY DEF TypeOK, PassInv, ToWrite, Period
<1>2. SlotInv' /\ WritesOnceInOrder'
  BY DEF SlotInv, Newest, WritesOnceInOrder
<1>3. QueuedInv' /\ GotInv' /\ PointInv'
  BY DEF QueuedInv, GotInv, PointInv
<1> QED BY <1>1, <1>2, <1>3

LEMMA WakeInv == ASSUME IInv, NEW s \in 0..MaxPass, Wake(s) PROVE IInv'
<1> USE DEF IInv, Wake, slots, points, world
<1>1. TypeOK'
  <2>1. age' \in [Polled -> Nat] /\ \A v \in Polled : age'[v] <= Period(v)
    <3>1. /\ s \in Nat /\ age \in [Polled -> Nat]
          /\ age' = [v \in Polled |-> IF age[v] + s > Period(v) THEN Period(v) ELSE age[v] + s]
      BY DataPathAssumption DEF TypeOK
    <3> HIDE DEF IInv, Wake
    <3>2. \A v \in Polled : Period(v) \in Nat /\ age[v] + s \in Nat
      BY <3>1, PeriodNat
    <3> QED BY <3>1, <3>2
  <2> QED BY <2>1 DEF TypeOK, Period
<1>2. PassInv'
  BY DEF PassInv, ToWrite
<1>3. SlotInv' /\ WritesOnceInOrder'
  BY DEF SlotInv, Newest, WritesOnceInOrder
<1>4. QueuedInv' /\ GotInv' /\ PointInv'
  BY DEF QueuedInv, GotInv, PointInv
<1> QED BY <1>1, <1>2, <1>3, <1>4

LEMMA WorkBeginInv == ASSUME IInv, WorkBegin PROVE IInv'
<1> USE DEF IInv, WorkBegin, slots, world
<1>1. TypeOK' /\ PassInv'
  BY DEF TypeOK, PassInv, ToWrite, Period
<1>2. SlotInv' /\ WritesOnceInOrder'
  BY DEF SlotInv, Newest, WritesOnceInOrder
<1>3. QueuedInv' /\ GotInv' /\ PointInv'
  BY DEF QueuedInv, GotInv, PointInv
<1> QED BY <1>1, <1>2, <1>3

LEMMA WorkEndInv == ASSUME IInv, WorkEnd PROVE IInv'
<1> USE DEF IInv, WorkEnd, slots, world
<1>1. TypeOK' /\ PassInv'
  BY DEF TypeOK, PassInv, ToWrite, Period
<1>2. SlotInv' /\ WritesOnceInOrder'
  BY DEF SlotInv, Newest, WritesOnceInOrder
<1>3. QueuedInv' /\ GotInv' /\ PointInv'
  BY DEF QueuedInv, GotInv, PointInv
<1> QED BY <1>1, <1>2, <1>3

(* What a data point shows is what was at the head of the queue.           *)
LEMMA HeadFacts ==
  ASSUME IInv, queue # <<>>
  PROVE  LET v == Head(queue)[1]
             n == Head(queue)[2] IN
         /\ v \in Polled /\ n \in Values /\ n \in Nat
         /\ n = 0 => v \in Junk
         /\ n # 0 => dp[v] <= n /\ n <= plc[v]
<1>1. Head(queue) = queue[1] /\ 1 \in DOMAIN queue /\ queue[1] \in Polled \X Values
  BY DEF IInv, TypeOK
<1> QED BY <1>1, ValuesNat DEF IInv, QueuedInv

LEMMA WorkItemInv ==
  ASSUME IInv, NEW v \in Polled, NEW shown \in BOOLEAN, WorkItem(v, shown)
  PROVE  IInv'
<1> USE DEF IInv, WorkItem, slots, world
<1> DEFINE n == Head(queue)[2]
<1>1. /\ Len(queue) \in Nat /\ DOMAIN queue = 1..Len(queue) /\ Len(queue) > 0
      /\ queue' \in Seq(Polled \X Values) /\ DOMAIN queue' = 1..(Len(queue) - 1)
      /\ \A i \in DOMAIN queue' : i + 1 \in DOMAIN queue /\ queue'[i] = queue[i + 1]
      /\ Head(queue) = queue[1]
  <2> HIDE DEF IInv
  <2>1. queue \in Seq(Polled \X Values) /\ queue # <<>> /\ queue' = Tail(queue)
    BY DEF IInv, TypeOK
  <2> QED BY <2>1
<1>2. queue[1][1] = v /\ queue[1][2] = n /\ n \in Values /\ n \in Nat
      /\ (n = 0 => v \in Junk) /\ (n # 0 => dp[v] <= n /\ n <= plc[v])
  BY <1>1, HeadFacts
<1>3. \/ dp' = dp /\ blank' \in [Polled -> BOOLEAN]
      \/ n # 0 /\ dp' = [dp EXCEPT ![v] = n] /\ blank' \in [Polled -> BOOLEAN]
  <2>1. CASE shown /\ n = 0
    <3>1. dp' = dp
      BY <2>1 DEF TypeOK
    <3>2. blank' \in [Polled -> BOOLEAN]
      BY <2>1 DEF TypeOK
    <3> QED BY <3>1, <3>2
  <2>2. CASE shown /\ n # 0
    <3>1. dp' = [dp EXCEPT ![v] = n]
      BY <2>2
    <3>2. blank' \in [Polled -> BOOLEAN]
      BY <2>2 DEF TypeOK
    <3> QED BY <2>2, <3>1, <3>2
  <2>3. CASE ~shown
    BY <2>3 DEF TypeOK
  <2> QED BY <2>1, <2>2, <2>3
<1>4. TypeOK'
  <2>1. dp' \in [Polled -> Values]
    BY <1>2, <1>3 DEF TypeOK
  <2> QED BY <1>1, <1>3, <2>1 DEF TypeOK, Period
<1>5. PassInv'
  BY DEF PassInv, ToWrite
<1>6. SlotInv' /\ WritesOnceInOrder'
  BY DEF SlotInv, Newest, WritesOnceInOrder
<1>7. PointInv'
  BY <1>2, <1>3 DEF PointInv, TypeOK
<1>8. \A u \in Polled : dp'[u] = dp[u] \/ (u = v /\ n # 0 /\ dp'[u] = n)
  BY <1>3 DEF TypeOK
<1>9. QueuedInv'
  <2>1. ASSUME NEW i \in DOMAIN queue'
        PROVE  /\ i + 1 \in DOMAIN queue /\ queue'[i] = queue[i + 1] /\ 1 < i + 1
               /\ queue[i + 1][1] \in Polled
    BY <1>1, Typed
  <2>2. ASSUME NEW i \in DOMAIN queue', queue'[i][2] # 0
        PROVE  dp'[queue'[i][1]] <= queue'[i][2] /\ queue'[i][2] <= plc[queue'[i][1]]
    <3> DEFINE w == queue[i + 1]
    <3>1. i + 1 \in DOMAIN queue /\ queue'[i] = w /\ 1 < i + 1 /\ w[1] \in Polled
          /\ 1 \in DOMAIN queue
      BY <1>1, <2>1
    <3>2. dp[w[1]] <= w[2] /\ w[2] <= plc[w[1]]
      BY <2>2, <3>1 DEF QueuedInv
    <3>3. w[1] = v => n <= w[2]
      BY <1>2, <2>2, <3>1 DEF QueuedInv
    <3> HIDE DEF w, n, IInv, WorkItem
    <3> QED BY <1>8, <3>1, <3>2, <3>3
  <2>3. ASSUME NEW i \in DOMAIN queue', NEW j \in DOMAIN queue', i < j
        PROVE  i + 1 < j + 1
    BY <1>1, <2>3
  <2>4. \A i, j \in DOMAIN queue : i < j /\ queue[j][1] = queue[i][1] /\ queue[j][2] # 0
          => queue[i][2] <= queue[j][2]
    BY DEF QueuedInv
  <2>5. \A i \in DOMAIN queue' : queue'[i][2] = 0 => queue'[i][1] \in Junk
    BY <2>1 DEF QueuedInv
  <2>6. UNCHANGED plc
    OBVIOUS
  <2> HIDE DEF IInv, WorkItem
  <2>7. \A i, j \in DOMAIN queue' : i < j /\ queue'[j][1] = queue'[i][1] /\ queue'[j][2] # 0
          => queue'[i][2] <= queue'[j][2]
    BY <2>1, <2>3, <2>4
  <2> QED BY <2>2, <2>5, <2>6, <2>7 DEF QueuedInv
<1>10. GotInv'
  <2>1. ASSUME NEW it \in got, it[2] # 0
        PROVE  dp'[it[1]] <= it[2]
    <3>1. it[1] \in Polled /\ dp[it[1]] <= it[2]
      BY <2>1, Typed DEF GotInv
    <3>2. it[1] = v => n <= it[2]
      BY <1>1, <1>2, <2>1 DEF GotInv
    <3> QED BY <1>8, <3>1, <3>2
  <2>2. ASSUME NEW it \in got, it[2] # 0, NEW i \in DOMAIN queue', queue'[i][1] = it[1]
        PROVE  queue'[i][2] <= it[2]
    BY <1>1, <2>2 DEF GotInv
  <2> QED BY <2>1, <2>2 DEF GotInv
<1> QED BY <1>4, <1>5, <1>6, <1>7, <1>9, <1>10

LEMMA PlcChangeInv == ASSUME IInv, NEW v \in Polled, PlcChange(v) PROVE IInv'
<1> USE DEF IInv, PlcChange, slots, points
<1>1. \A u \in Polled : plc'[u] = plc[u] \/ (u = v /\ plc'[u] = plc[u] + 1)
  BY DEF TypeOK
<1>2. changes \in Nat /\ changes' = changes + 1
  BY Typed
<1>3. SlotInv'
  <2>1. \A u \in Polled : Newest(u)' = Newest(u) /\ Newest(u) \in Nat /\ plc[u] \in Nat
    BY Typed DEF Newest
  <2> QED BY <1>1, <1>2, <2>1 DEF SlotInv
<1>4. TypeOK'
  <2>1. \A u \in Polled : plc'[u] \in Values
    <3>1. \A u \in Polled : plc'[u] <= 1 + changes' + Newest(u)' /\ Newest(u)' <= accepted
      BY <1>3 DEF SlotInv
    <3>2. \A u \in Polled : plc'[u] \in Nat /\ Newest(u)' \in Nat /\ accepted \in Nat
      BY <1>1, Typed DEF Newest
    <3>3. accepted <= MaxWrites /\ changes' <= MaxChanges
      BY <1>2, DataPathAssumption DEF TypeOK
    <3> QED BY <1>2, <3>1, <3>2, <3>3, DataPathAssumption DEF Values
  <2>2. plc' \in [Polled -> Values]
    BY <2>1 DEF TypeOK
  <2>3. changes' \in 0..MaxChanges
    BY <1>2, DataPathAssumption
  <2> QED BY <2>2, <2>3 DEF TypeOK, Period
<1>5. PassInv' /\ WritesOnceInOrder'
  BY DEF PassInv, ToWrite, WritesOnceInOrder
<1>6. QueuedInv' /\ GotInv' /\ PointInv'
  <2>1. \A u \in Polled : plc[u] <= plc'[u] /\ plc[u] \in Nat /\ plc'[u] \in Nat /\ dp[u] \in Nat
    BY <1>1, Typed
  <2>2. QueuedInv'
    BY <2>1, Typed DEF QueuedInv
  <2>3. GotInv'
    BY <2>1, Typed DEF GotInv
  <2>4. PointInv'
    BY <2>1 DEF PointInv
  <2> QED BY <2>2, <2>3, <2>4
<1> QED BY <1>3, <1>4, <1>5, <1>6

LEMMA StutterInv == ASSUME IInv, UNCHANGED allVars PROVE IInv'
<1> USE DEF IInv, allVars, slots, points, world
<1>1. TypeOK' /\ PassInv'
  BY DEF TypeOK, PassInv, ToWrite, Period
<1>2. SlotInv' /\ WritesOnceInOrder'
  BY DEF SlotInv, Newest, WritesOnceInOrder
<1>3. QueuedInv' /\ GotInv' /\ PointInv'
  BY DEF QueuedInv, GotInv, PointInv
<1> QED BY <1>1, <1>2, <1>3

LEMMA StepInv == ASSUME IInv, [Next]_allVars PROVE IInv'
<1>1. CASE \E v \in Vars : WriteData(v)
  BY <1>1, WriteDataInv
<1>2. CASE \E v \in Polled : PlcChange(v)
  BY <1>2, PlcChangeInv
<1>3. CASE PlcThread
  <2>1. ASSUME NEW R \in SUBSET Polled, NEW S \in SUBSET R, WriteRequest(R, S) \/ ReadRequest(R, S)
        PROVE  IInv'
    BY <2>1, WriteRequestInv, ReadRequestInv
  <2>2. CASE CollectWrites \/ PassivePass \/ EndWrites \/ CollectReads \/ EndReads
    BY <2>2, CollectWritesInv, PassivePassInv, EndWritesInv, CollectReadsInv, EndReadsInv
  <2>3. CASE (\E item \in got : Enqueue(item)) \/ (\E s \in 0..MaxPass : Wake(s))
    BY <2>3, EnqueueInv, WakeInv
  <2> QED BY <1>3, <2>1, <2>2, <2>3 DEF PlcThread
<1>4. CASE WorkProc
  BY <1>4, WorkBeginInv, WorkEndInv, WorkItemInv DEF WorkProc
<1>5. CASE UNCHANGED allVars
  BY <1>5, StutterInv
<1> QED BY <1>1, <1>2, <1>3, <1>4, <1>5 DEF Next

(* Slots, requests, queue and data points keep the order described above.  *)
THEOREM Inductive == Spec => []IInv
BY InitInv, StepInv, PTL DEF Spec

(* Every variable keeps its type, the bounds on the values included.       *)
THEOREM TypeCorrect == Spec => []TypeOK
BY Inductive, PTL DEF IInv

(* The writes to a variable are sent at most once and in order.            *)
THEOREM WritesInOrder == Spec => []WritesOnceInOrder
BY Inductive, PTL DEF IInv

LEMMA WrittenIsDue == IInv => WrittenIsPolled
BY PeriodNat DEF IInv, TypeOK, PassInv, WrittenIsPolled, Due

(* A written variable is polled in the pass in which it was written.       *)
THEOREM ReadBack == Spec => []WrittenIsPolled
BY Inductive, WrittenIsDue, PTL
-----------------------------------------------------------------------------
LEMMA ImageInit == Init => Image!Init
BY DEF Init, Image!Init

LEMMA ImageWrite ==
  ASSUME NEW R \in SUBSET Polled, NEW done \in SUBSET R, WriteRequest(R, done)
  PROVE  Image!Change
<1>1. done \in SUBSET Polled
  OBVIOUS
<1> QED BY <1>1 DEF WriteRequest, points, Image!Change

LEMMA ImagePlcChange == ASSUME TypeOK, NEW v \in Polled, PlcChange(v) PROVE Image!Change
<1>1. {v} \in SUBSET Polled
  OBVIOUS
<1>2. plc' = [u \in Polled |-> IF u \in {v} THEN plc[u] + 1 ELSE plc[u]]
  BY DEF PlcChange, TypeOK
<1> QED BY <1>1, <1>2 DEF PlcChange, points, Image!Change

LEMMA ImageItem ==
  ASSUME IInv, NEW v \in Polled, NEW shown \in BOOLEAN, WorkItem(v, shown)
  PROVE  Image!Show(v) \/ Image!ShowZeroes(v) \/ UNCHANGED Image!vars
<1> USE DEF WorkItem, world
<1> DEFINE n == Head(queue)[2]
<1>1. /\ n \in Nat
      /\ n = 0 => v \in Junk
      /\ n # 0 => dp[v] <= n /\ n <= plc[v]
  BY HeadFacts
<1>2. dp[v] \in Nat /\ plc[v] \in Nat
  BY Typed DEF IInv
<1>3. CASE shown /\ n = 0
  <2>1. dp' = dp
    BY <1>3 DEF IInv, TypeOK
  <2>2. blank' = [blank EXCEPT ![v] = TRUE]
    BY <1>3
  <2> QED BY <1>1, <1>3, <2>1, <2>2 DEF Image!ShowZeroes
<1>4. CASE shown /\ n # 0
  <2>1. dp' = [dp EXCEPT ![v] = n] /\ n \in dp[v]..plc[v]
    BY <1>1, <1>2, <1>4
  <2>2. blank' = [blank EXCEPT ![v] = FALSE]
    BY <1>4
  <2> QED BY <1>4, <2>1, <2>2 DEF Image!Show
<1>5. CASE ~shown
  BY <1>5 DEF Image!vars
<1> QED BY <1>3, <1>4, <1>5

LEMMA ImageStep == ASSUME IInv, [Next]_allVars PROVE [Image!Next]_(Image!vars)
<1>1. CASE \E v \in Polled : PlcChange(v)
  BY <1>1, ImagePlcChange DEF IInv, Image!Next
<1>2. CASE \E R \in SUBSET Polled : \E S \in SUBSET R : WriteRequest(R, S)
  BY <1>2, ImageWrite DEF Image!Next
<1>3. CASE \E v \in Polled, shown \in BOOLEAN : WorkItem(v, shown)
  BY <1>3, ImageItem DEF Image!Next
<1>4. CASE UNCHANGED <<plc, dp, blank>>
  BY <1>4 DEF Image!vars
<1>5. CASE \/ \E v \in Vars : WriteData(v)
           \/ CollectWrites \/ PassivePass \/ EndWrites \/ CollectReads \/ EndReads
           \/ \E R \in SUBSET Polled : \E S \in SUBSET R : ReadRequest(R, S)
           \/ \E item \in got : Enqueue(item)
           \/ \E s \in 0..MaxPass : Wake(s)
           \/ WorkBegin \/ WorkEnd \/ UNCHANGED allVars
  <2>1. UNCHANGED <<plc, dp, blank>>
    BY <1>5 DEF WriteData, CollectWrites, PassivePass, EndWrites, CollectReads, EndReads,
       ReadRequest, Enqueue, Wake, WorkBegin, WorkEnd, allVars, points, world
  <2> QED BY <1>4, <2>1
<1> QED BY <1>1, <1>2, <1>3, <1>5 DEF Next, PlcThread, WorkProc

(* The data points are an image of the PLC: every step of the data path is *)
(* a step of ProcessImage, or changes nothing that it is about.            *)
THEOREM Refinement == Spec => ImageSpec
BY Inductive, ImageInit, ImageStep, PTL DEF Spec, ImageSpec, Image!Spec
=============================================================================
