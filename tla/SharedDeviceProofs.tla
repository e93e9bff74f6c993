------------------------- MODULE SharedDeviceProofs -------------------------
(* What two threads of one device keep whatever they do, and that the      *)
(* device is served as by one thread when they take turns.                 *)
EXTENDS SharedDevice, TLAPS

(* The data path as the first thread sees it, as the second one does, and  *)
(* between the two: as a thread that sleeps with nothing in hand.          *)
P1 == INSTANCE DataPathProofs WITH pc <- pc1, taken <- taken1, toRead <- toRead1,
                                   got <- got1, written <- written1
P2 == INSTANCE DataPathProofs WITH pc <- pc2, taken <- taken2, toRead <- toRead2,
                                   got <- got2, written <- written2
P0 == INSTANCE DataPathProofs WITH pc <- "sleep", taken <- NoWrites, toRead <- {},
                                   got <- {}, written <- {}

USE SharedDeviceAssumption DEF First!DataPathAssumption
-----------------------------------------------------------------------------
(* One write is in one place: p in the slot, t and u in the threads, s has *)
(* been sent.  a is the newest write of all, l that of the variable.       *)
OnePlace(p, t, u, s, a, l) ==
  /\ p \in Nat /\ t \in Nat /\ u \in Nat /\ s \in Seq(Nat) /\ a \in Nat /\ l \in Nat
  /\ p <= a /\ t <= a /\ u <= a
  /\ p # 0 => p # t /\ p # u
  /\ t # 0 => t # u
  /\ \A i \in 1..Len(s) : s[i] # 0 /\ s[i] # p /\ s[i] # t /\ s[i] # u /\ s[i] <= a
  /\ \A i, j \in 1..Len(s) : i # j => s[i] # s[j]
  /\ l # 0 => l \in {p, t, u} \/ \E i \in 1..Len(s) : s[i] = l

LEMMA OtherPlace ==
  ASSUME NEW p, NEW t, NEW u, NEW s, NEW a, NEW l, OnePlace(p, t, u, s, a, l)
  PROVE  OnePlace(p, u, t, s, a, l)
BY DEF OnePlace

LEMMA Taking ==
  ASSUME NEW p, NEW t, NEW u, NEW s, NEW a, NEW l, OnePlace(p, t, u, s, a, l), t = 0
  PROVE  OnePlace(0, p, u, s, a, l)
BY DEF OnePlace

LEMMA Appended ==
  ASSUME NEW s \in Seq(Nat), NEW t \in Nat
  PROVE  /\ Append(s, t) \in Seq(Nat) /\ Len(Append(s, t)) = Len(s) + 1 /\ Len(s) \in Nat
         /\ \A i \in 1..Len(s) : Append(s, t)[i] = s[i]
         /\ Append(s, t)[Len(s) + 1] = t
OBVIOUS

LEMMA Sending ==
  ASSUME NEW p, NEW t, NEW u, NEW s, NEW a, NEW l, OnePlace(p, t, u, s, a, l), t # 0
  PROVE  OnePlace(p, 0, u, Append(s, t), a, l)
<1> DEFINE r == Append(s, t)
<1>1. /\ r \in Seq(Nat) /\ Len(r) = Len(s) + 1 /\ Len(s) \in Nat
      /\ \A i \in 1..Len(s) : r[i] = s[i]
      /\ r[Len(s) + 1] = t
  BY Appended DEF OnePlace
<1> HIDE DEF r
<1>2. \A i \in 1..Len(r) : i \in 1..Len(s) \/ i = Len(s) + 1
  BY <1>1
<1>3. \A i \in 1..Len(r) : r[i] # 0 /\ r[i] # p /\ r[i] # u /\ r[i] <= a
  BY <1>1, <1>2 DEF OnePlace
<1>4. \A i, j \in 1..Len(r) : i # j => r[i] # r[j]
  BY <1>1, <1>2 DEF OnePlace
<1>5. l # 0 => l \in {p, 0, u} \/ \E i \in 1..Len(r) : r[i] = l
  <2>1. Len(s) + 1 \in 1..Len(r) /\ \A i \in 1..Len(s) : i \in 1..Len(r)
    BY <1>1
  <2> QED BY <1>1, <2>1 DEF OnePlace
<1>6. OnePlace(p, 0, u, r, a, l)
  BY <1>1, <1>3, <1>4, <1>5 DEF OnePlace
<1> QED BY <1>6 DEF r

LEMMA Accepting ==
  ASSUME NEW p, NEW t, NEW u, NEW s, NEW a, NEW l, OnePlace(p, t, u, s, a, l)
  PROVE  OnePlace(a + 1, t, u, s, a + 1, a + 1) /\ OnePlace(p, t, u, s, a + 1, l)
<1> DEFINE b == a + 1
<1>1. /\ p \in Nat /\ t \in Nat /\ u \in Nat /\ l \in Nat /\ s \in Seq(Nat)
      /\ p <= a /\ t <= a /\ u <= a /\ \A i \in 1..Len(s) : s[i] <= a
  BY DEF OnePlace
<1>2. b \in Nat /\ b # 0 /\ b <= b /\ \A n \in Nat : n <= a => n <= b /\ n # b
  BY DEF OnePlace
<1>3. \A i \in 1..Len(s) : s[i] \in Nat
  BY <1>1
<1> HIDE DEF b
<1>4. \A i \in 1..Len(s) : s[i] <= b /\ s[i] # b
  BY <1>1, <1>2, <1>3
<1>5. p <= b /\ t <= b /\ u <= b /\ b # t /\ b # u
  BY <1>1, <1>2
<1>6. OnePlace(b, t, u, s, b, b)
  BY <1>1, <1>2, <1>4, <1>5 DEF OnePlace
<1>7. OnePlace(p, t, u, s, b, l)
  BY <1>1, <1>2, <1>4, <1>5 DEF OnePlace
<1> QED BY <1>6, <1>7 DEF b

(* A thread has writes in hand only while it is sending them.              *)
WritesInv ==
  /\ pending \in [Polled -> Nat] /\ taken1 \in [Polled -> Nat] /\ taken2 \in [Polled -> Nat]
  /\ sent \in [Polled -> Seq(Nat)] /\ last \in [Polled -> Nat]
  /\ \A v \in Polled : OnePlace(pending[v], taken1[v], taken2[v], sent[v], accepted, last[v])
  /\ pc1 # "writing" => taken1 = NoWrites
  /\ pc2 # "writing" => taken2 = NoWrites

LEMMA WritesInit == Init => WritesInv
BY DEF Init, First!Init, WritesInv, NoWrites, OnePlace

(* The first thread moves a write from the slot to its list, and from      *)
(* there to the client; nothing else it does touches one.                  *)
LEMMA Thread1Writes == ASSUME WritesInv, First!PlcThread, UNCHANGED second PROVE WritesInv'
<1> USE DEF WritesInv, second, lists2
<1>1. CASE First!CollectWrites
  <2> USE <1>1 DEF First!CollectWrites, First!EmptySlots, NoWrites
  <2>1. \A v \in Polled : OnePlace(pending[v], taken1[v], taken2[v], sent[v], accepted, last[v])
    BY OtherPlace
  <2>2. \A v \in Polled : OnePlace(0, pending[v], taken2[v], sent[v], accepted, last[v])
    BY <2>1, Taking
  <2>3. \A v \in Polled : OnePlace(0, taken1'[v], taken2'[v], sent[v], accepted, last[v])
    BY <2>2, OtherPlace
  <2> QED BY <2>3
<1>2. CASE \E R \in SUBSET Polled : \E S \in SUBSET R : First!WriteRequest(R, S)
  <2> PICK R \in SUBSET Polled, S \in SUBSET Polled : S \subseteq R /\ First!WriteRequest(R, S)
    BY <1>2
  <2> USE DEF First!WriteRequest, First!slots, First!ToWrite
  <2>1. \A v \in Polled : OnePlace(pending[v], taken1[v], taken2[v], sent[v], accepted, last[v])
    BY OtherPlace
  <2>2. \A v \in R : OnePlace(pending[v], 0, taken2[v], Append(sent[v], taken1[v]), accepted, last[v])
    BY <2>1, Sending
  <2>3. \A v \in Polled : OnePlace(pending'[v], taken1'[v], taken2'[v], sent'[v], accepted', last'[v])
    BY <2>1, <2>2
  <2>4. \A v \in Polled : OnePlace(pending'[v], taken1'[v], taken2'[v], sent'[v], accepted', last'[v])
    BY <2>3, OtherPlace
  <2>5. taken1' \in [Polled -> Nat] /\ sent' \in [Polled -> Seq(Nat)]
    <3>1. \A v \in Polled : taken1'[v] \in Nat /\ sent'[v] \in Seq(Nat)
      BY <2>3 DEF OnePlace
    <3> QED BY <3>1
  <2> QED BY <2>4, <2>5
<1>3. CASE First!EndWrites
  <2>1. taken1 = NoWrites
    BY <1>3 DEF First!EndWrites, First!ToWrite, NoWrites
  <2> QED BY <1>3, <2>1 DEF First!EndWrites, First!slots
<1>4. CASE \/ First!PassivePass \/ First!CollectReads \/ First!EndReads
           \/ \E R \in SUBSET Polled : \E S \in SUBSET R : First!ReadRequest(R, S)
           \/ \E item \in got1 : First!Enqueue(item)
           \/ \E s \in 0..MaxPass : First!Wake(s)
  BY <1>4 DEF First!PassivePass, First!CollectReads, First!EndReads, First!ReadRequest,
     First!Enqueue, First!Wake, First!slots
<1> QED BY <1>1, <1>2, <1>3, <1>4 DEF First!PlcThread

(* The second thread moves a write from the slot to its list, and from     *)
(* there to the client; nothing else it does touches one.                  *)
LEMMA Thread2Writes == ASSUME WritesInv, Second!PlcThread, UNCHANGED first PROVE WritesInv'
<1> USE DEF WritesInv, first, lists1
<1>1. CASE Second!CollectWrites
  <2> USE <1>1 DEF Second!CollectWrites, Second!EmptySlots, NoWrites
  <2>1. \A v \in Polled : OnePlace(pending[v], taken2[v], taken1[v], sent[v], accepted, last[v])
    BY OtherPlace
  <2>2. \A v \in Polled : OnePlace(0, pending[v], taken1[v], sent[v], accepted, last[v])
    BY <2>1, Taking
  <2>3. \A v \in Polled : OnePlace(0, taken1'[v], taken2'[v], sent[v], accepted, last[v])
    BY <2>2, OtherPlace
  <2> QED BY <2>3
<1>2. CASE \E R \in SUBSET Polled : \E S \in SUBSET R : Second!WriteRequest(R, S)
  <2> PICK R \in SUBSET Polled, S \in SUBSET Polled : S \subseteq R /\ Second!WriteRequest(R, S)
    BY <1>2
  <2> USE DEF Second!WriteRequest, Second!slots, Second!ToWrite
  <2>1. \A v \in Polled : OnePlace(pending[v], taken2[v], taken1[v], sent[v], accepted, last[v])
    BY OtherPlace
  <2>2. \A v \in R : OnePlace(pending[v], 0, taken1[v], Append(sent[v], taken2[v]), accepted, last[v])
    BY <2>1, Sending
  <2>3. \A v \in Polled : OnePlace(pending'[v], taken2'[v], taken1'[v], sent'[v], accepted', last'[v])
    BY <2>1, <2>2
  <2>4. \A v \in Polled : OnePlace(pending'[v], taken1'[v], taken2'[v], sent'[v], accepted', last'[v])
    BY <2>3, OtherPlace
  <2>5. taken2' \in [Polled -> Nat] /\ sent' \in [Polled -> Seq(Nat)]
    <3>1. \A v \in Polled : taken2'[v] \in Nat /\ sent'[v] \in Seq(Nat)
      BY <2>3 DEF OnePlace
    <3> QED BY <3>1
  <2> QED BY <2>4, <2>5
<1>3. CASE Second!EndWrites
  <2>1. taken2 = NoWrites
    BY <1>3 DEF Second!EndWrites, Second!ToWrite, NoWrites
  <2> QED BY <1>3, <2>1 DEF Second!EndWrites, Second!slots
<1>4. CASE \/ Second!PassivePass \/ Second!CollectReads \/ Second!EndReads
           \/ \E R \in SUBSET Polled : \E S \in SUBSET R : Second!ReadRequest(R, S)
           \/ \E item \in got2 : Second!Enqueue(item)
           \/ \E s \in 0..MaxPass : Second!Wake(s)
  BY <1>4 DEF Second!PassivePass, Second!CollectReads, Second!EndReads, Second!ReadRequest,
     Second!Enqueue, Second!Wake, Second!slots
<1> QED BY <1>1, <1>2, <1>3, <1>4 DEF Second!PlcThread

LEMMA WriteDataWrites == ASSUME WritesInv, NEW v \in Vars, WriteData(v) PROVE WritesInv'
<1> USE DEF WritesInv, WriteData, First!WriteData, First!FillSlot, First!Filled,
            second, lists2
<1>1. CASE v \in Polled
  <2>1. \A w \in Polled : /\ OnePlace(accepted + 1, taken1[w], taken2[w], sent[w], accepted + 1, accepted + 1)
                          /\ OnePlace(pending[w], taken1[w], taken2[w], sent[w], accepted + 1, last[w])
    BY Accepting
  <2>2. accepted + 1 \in Nat
    BY <1>1, <2>1 DEF OnePlace
  <2> QED BY <1>1, <2>1, <2>2
<1>2. CASE v \notin Polled
  <2>1. \A w \in Polled : OnePlace(pending[w], taken1[w], taken2[w], sent[w], accepted + 1, last[w])
    BY Accepting
  <2> QED BY <1>2, <2>1
<1> QED BY <1>1, <1>2

LEMMA WritesStep == ASSUME WritesInv, [Next]_vars PROVE WritesInv'
<1>1. CASE Goes1 \/ Goes2
  BY <1>1, Thread1Writes, Thread2Writes DEF Goes1, Goes2
<1>2. CASE Returns1 \/ Returns2
  BY <1>2 DEF Returns1, Returns2, MayReturn, WritesInv, shared, first, lists1, second, lists2
<1>3. CASE Start \/ AddAddress
  BY <1>3 DEF Start, AddAddress, HandleNewMS, Spawn, WritesInv, shared, lists1, lists2
<1>4. CASE RemoveAddress \/ UNCHANGED vars
  BY <1>4 DEF RemoveAddress, vars, WritesInv, shared, first, lists1, second, lists2
<1>5. CASE WorkProc
  BY <1>5 DEF WorkProc, First!WorkProc, First!WorkBegin, First!WorkItem, First!WorkEnd,
     First!slots, WritesInv, second, lists2
<1>6. CASE \E v \in Vars : WriteData(v)
  BY <1>6, WriteDataWrites
<1>7. CASE \E v \in Polled : PlcChange(v)
  BY <1>7 DEF PlcChange, First!PlcChange, First!slots, WritesInv, second, lists2
<1> QED BY <1>1, <1>2, <1>3, <1>4, <1>5, <1>6, <1>7 DEF Next

(* Each write is in the slot, in one of the threads or sent, never in two   *)
(* of these places.                                                        *)
THEOREM WritesHavePlaces == Spec => []WritesInv
BY WritesInit, WritesStep, PTL DEF Spec

(* No write is handed to the PLC twice, however the threads overlap.       *)
THEOREM SentOnce == Spec => []NoWriteTwice
<1>1. ASSUME WritesInv, NEW v \in Polled PROVE DOMAIN sent[v] = 1..Len(sent[v])
  BY <1>1 DEF WritesInv
<1>2. WritesInv => NoWriteTwice
  <2> SUFFICES ASSUME WritesInv, NEW v \in Polled, NEW i \in DOMAIN sent[v],
                      NEW j \in DOMAIN sent[v], i # j
               PROVE  sent[v][i] # sent[v][j]
    BY DEF NoWriteTwice
  <2>1. OnePlace(pending[v], taken1[v], taken2[v], sent[v], accepted, last[v])
    BY DEF WritesInv
  <2> QED BY <1>1, <2>1 DEF OnePlace
<1> QED BY WritesHavePlaces, <1>2, PTL

(* The last write is never lost between slot, threads and PLC.             *)
THEOREM NothingOvertaken == Spec => []NewestIsUnderway
<1>1. ASSUME WritesInv, NEW v \in Polled PROVE DOMAIN sent[v] = 1..Len(sent[v])
  BY <1>1 DEF WritesInv
<1>2. WritesInv => NewestIsUnderway
  BY <1>1 DEF WritesInv, OnePlace, NewestIsUnderway
<1> QED BY WritesHavePlaces, <1>2, PTL
-----------------------------------------------------------------------------
(* While no two threads overlap: the device is the data path of the one    *)
(* that serves it, or of none.                                             *)
Rest ==
  /\ pc1 = "done" => /\ taken1 = NoWrites /\ toRead1 = {} /\ got1 = {}
                     /\ written1 = {}
  /\ pc2 = "done" => /\ taken2 = NoWrites /\ toRead2 = {} /\ got2 = {}
                     /\ written2 = {}

ServedByFirst == pc1 # "done" /\ pc2 = "done" /\ P1!IInv
ServedBySecond == pc2 # "done" /\ pc1 = "done" /\ P2!IInv
NotServed == pc1 = "done" /\ pc2 = "done" /\ P0!IInv

HandoverInv == Rest /\ (alone => ServedByFirst \/ ServedBySecond \/ NotServed)

LEMMA Thread1IsPlcThread == First!PlcThread => P1!PlcThread
BY DEF
      First!CollectWrites, First!Bumped, First!EmptySlots, First!Period,
      First!points, First!world, First!MaxOf, First!PlcThread,
      First!PassivePass, First!EndWrites, First!ToWrite, First!CollectReads,
      First!Due, First!Restarted, First!EndReads, First!WriteRequest,
      First!ReadRequest, First!Answered, First!Unanswered, First!NoData,
      First!Enqueue, First!Enqueued, First!Wake, First!slots, P1!CollectWrites,
      P1!Bumped, P1!EmptySlots, P1!Period, P1!points, P1!world, P1!MaxOf,
      P1!PlcThread, P1!PassivePass, P1!EndWrites, P1!ToWrite, P1!CollectReads,
      P1!Due, P1!Restarted, P1!EndReads, P1!WriteRequest, P1!ReadRequest,
      P1!Answered, P1!Unanswered, P1!NoData, P1!Enqueue, P1!Enqueued, P1!Wake,
      P1!slots

LEMMA Thread2IsPlcThread == Second!PlcThread => P2!PlcThread
BY DEF
      Second!CollectWrites, Second!Bumped, Second!EmptySlots, Second!Period,
      Second!points, Second!world, Second!MaxOf, Second!PlcThread,
      Second!PassivePass, Second!EndWrites, Second!ToWrite, Second!CollectReads,
      Second!Due, Second!Restarted, Second!EndReads, Second!WriteRequest,
      Second!ReadRequest, Second!Answered, Second!Unanswered, Second!NoData,
      Second!Enqueue, Second!Enqueued, Second!Wake, Second!slots, P2!CollectWrites,
      P2!Bumped, P2!EmptySlots, P2!Period, P2!points, P2!world, P2!MaxOf,
      P2!PlcThread, P2!PassivePass, P2!EndWrites, P2!ToWrite, P2!CollectReads,
      P2!Due, P2!Restarted, P2!EndReads, P2!WriteRequest, P2!ReadRequest,
      P2!Answered, P2!Unanswered, P2!NoData, P2!Enqueue, P2!Enqueued, P2!Wake,
      P2!slots

LEMMA Rest0IsNext ==
  ASSUME \/ WorkProc \/ (\E v \in Vars : WriteData(v)) \/ (\E v \in Polled : PlcChange(v))
         \/ RemoveAddress \/ UNCHANGED vars
  PROVE  [P0!Next]_(P0!allVars) /\ UNCHANGED <<pc1, pc2>>
BY DEF WorkProc, WriteData, PlcChange, RemoveAddress, vars, shared, first, second,
      lists1, lists2,
      First!Next, First!allVars, First!WorkProc, First!WorkBegin, First!WorkItem,
      First!WorkEnd, First!WriteData, First!FillSlot, First!Filled, First!PlcChange,
      First!points, First!world, First!slots, First!NoData, P0!Next,
      P0!allVars, P0!WorkProc, P0!WorkBegin, P0!WorkItem, P0!WorkEnd, P0!WriteData,
      P0!FillSlot, P0!Filled, P0!PlcChange, P0!points, P0!world, P0!slots,
      P0!NoData

LEMMA Rest1IsNext ==
  ASSUME \/ WorkProc \/ (\E v \in Vars : WriteData(v)) \/ (\E v \in Polled : PlcChange(v))
         \/ RemoveAddress \/ UNCHANGED vars
  PROVE  [P1!Next]_(P1!allVars) /\ UNCHANGED <<pc1, pc2>>
BY DEF WorkProc, WriteData, PlcChange, RemoveAddress, vars, shared, first, second,
      lists1, lists2,
      First!Next, First!allVars, First!WorkProc, First!WorkBegin, First!WorkItem,
      First!WorkEnd, First!WriteData, First!FillSlot, First!Filled, First!PlcChange,
      First!points, First!world, First!slots, First!NoData, P1!Next,
      P1!allVars, P1!WorkProc, P1!WorkBegin, P1!WorkItem, P1!WorkEnd, P1!WriteData,
      P1!FillSlot, P1!Filled, P1!PlcChange, P1!points, P1!world, P1!slots,
      P1!NoData

LEMMA Rest2IsNext ==
  ASSUME \/ WorkProc \/ (\E v \in Vars : WriteData(v)) \/ (\E v \in Polled : PlcChange(v))
         \/ RemoveAddress \/ UNCHANGED vars
  PROVE  [P2!Next]_(P2!allVars) /\ UNCHANGED <<pc1, pc2>>
BY DEF WorkProc, WriteData, PlcChange, RemoveAddress, vars, shared, first, second,
      lists1, lists2,
      First!Next, First!allVars, First!WorkProc, First!WorkBegin, First!WorkItem,
      First!WorkEnd, First!WriteData, First!FillSlot, First!Filled, First!PlcChange,
      First!points, First!world, First!slots, First!NoData, P2!Next,
      P2!allVars, P2!WorkProc, P2!WorkBegin, P2!WorkItem, P2!WorkEnd, P2!WriteData,
      P2!FillSlot, P2!Filled, P2!PlcChange, P2!points, P2!world, P2!slots,
      P2!NoData

(* A thread that has returned takes no step, one in a pass does not end it.*)
LEMMA Thread1Lives == First!PlcThread => pc1 # "done" /\ pc1' # "done"
BY DEF
      First!CollectWrites, First!PassivePass, First!EndWrites, First!CollectReads,
      First!EndReads, First!WriteRequest, First!ReadRequest, First!Enqueue,
      First!Wake, First!PlcThread, First!slots

(* A thread that has returned takes no step, one in a pass does not end it.*)
LEMMA Thread2Lives == Second!PlcThread => pc2 # "done" /\ pc2' # "done"
BY DEF
      Second!CollectWrites, Second!PassivePass, Second!EndWrites,
      Second!CollectReads, Second!EndReads, Second!WriteRequest, Second!ReadRequest,
      Second!Enqueue, Second!Wake, Second!PlcThread, Second!slots

(* While the first thread serves the device alone, every step is one of the *)
(* data path as this thread sees it, or the thread returns.                *)
LEMMA Turn1 ==
  ASSUME pc1 # "done", pc2 = "done", alone', [Next]_vars
  PROVE  ([P1!Next]_(P1!allVars) /\ UNCHANGED pc2) \/ Returns1
<1>1. CASE Goes1
  BY <1>1, Thread1IsPlcThread DEF Goes1, P1!Next, second
<1>2. ~Goes2 /\ ~Returns2
  BY Thread2Lives DEF Goes2, Returns2, MayReturn
<1>3. ~Start /\ ~AddAddress
  BY DEF Start, AddAddress, HandleNewMS, Spawn
<1> QED BY <1>1, <1>2, <1>3, Rest1IsNext DEF Next

(* While the second thread serves the device alone, every step is one of the *)
(* data path as this thread sees it, or the thread returns.                *)
LEMMA Turn2 ==
  ASSUME pc2 # "done", pc1 = "done", alone', [Next]_vars
  PROVE  ([P2!Next]_(P2!allVars) /\ UNCHANGED pc1) \/ Returns2
<1>1. CASE Goes2
  BY <1>1, Thread2IsPlcThread DEF Goes2, P2!Next, first
<1>2. ~Goes1 /\ ~Returns1
  BY Thread1Lives DEF Goes1, Returns1, MayReturn
<1>3. ~Start /\ ~AddAddress
  BY DEF Start, AddAddress, HandleNewMS, Spawn
<1> QED BY <1>1, <1>2, <1>3, Rest2IsNext DEF Next

(* While no thread serves it, only the two other threads of the program    *)
(* act, or a thread is started.                                            *)
LEMMA Turn0 ==
  ASSUME pc1 = "done", pc2 = "done", [Next]_vars
  PROVE  ([P0!Next]_(P0!allVars) /\ UNCHANGED <<pc1, pc2>>) \/ HandleNewMS
<1>1. ~Goes1 /\ ~Goes2 /\ ~Returns1 /\ ~Returns2
  BY Thread1Lives, Thread2Lives DEF Goes1, Goes2, Returns1, Returns2, MayReturn
<1> QED BY <1>1, Rest0IsNext DEF Next, Start, AddAddress

(* A thread that returns leaves the data path as it is between threads.    *)
LEMMA GapAfter1 == ASSUME P1!IInv, Returns1 PROVE P0!IInv'
<1> USE DEF Returns1, MayReturn, shared
<1>1. taken1 = NoWrites
  BY DEF P1!IInv, P1!TypeOK, P1!PassInv, P1!ToWrite, NoWrites
<1> QED BY <1>1 DEF NoWrites,
      P1!IInv, P1!TypeOK, P1!SlotInv, P1!Newest, P1!PassInv, P1!ToWrite,
      P1!QueuedInv, P1!GotInv, P1!PointInv, P1!WritesOnceInOrder, P1!Period,
      P1!MaxOf, P1!NoData, P1!Writes, P1!Values, P0!IInv, P0!TypeOK, P0!SlotInv,
      P0!Newest, P0!PassInv, P0!ToWrite, P0!QueuedInv, P0!GotInv, P0!PointInv,
      P0!WritesOnceInOrder, P0!Period, P0!MaxOf, P0!NoData, P0!Writes, P0!Values

(* A thread that starts there finds it as one that wakes from its sleep.   *)
LEMMA GapBefore1 ==
  ASSUME P0!IInv, Rest, pc1 = "done", pc1' = "sleep",
         UNCHANGED <<shared, lists1, written1>>
  PROVE  P1!IInv'
BY DEF Rest, NoWrites, shared, lists1,
      P1!IInv, P1!TypeOK, P1!SlotInv, P1!Newest, P1!PassInv, P1!ToWrite,
      P1!QueuedInv, P1!GotInv, P1!PointInv, P1!WritesOnceInOrder, P1!Period,
      P1!MaxOf, P1!NoData, P1!Writes, P1!Values, P0!IInv, P0!TypeOK, P0!SlotInv,
      P0!Newest, P0!PassInv, P0!ToWrite, P0!QueuedInv, P0!GotInv, P0!PointInv,
      P0!WritesOnceInOrder, P0!Period, P0!MaxOf, P0!NoData, P0!Writes, P0!Values

(* A thread that returns leaves the data path as it is between threads.    *)
LEMMA GapAfter2 == ASSUME P2!IInv, Returns2 PROVE P0!IInv'
<1> USE DEF Returns2, MayReturn, shared
<1>1. taken2 = NoWrites
  BY DEF P2!IInv, P2!TypeOK, P2!PassInv, P2!ToWrite, NoWrites
<1> QED BY <1>1 DEF NoWrites,
      P2!IInv, P2!TypeOK, P2!SlotInv, P2!Newest, P2!PassInv, P2!ToWrite,
      P2!QueuedInv, P2!GotInv, P2!PointInv, P2!WritesOnceInOrder, P2!Period,
      P2!MaxOf, P2!NoData, P2!Writes, P2!Values, P0!IInv, P0!TypeOK, P0!SlotInv,
      P0!Newest, P0!PassInv, P0!ToWrite, P0!QueuedInv, P0!GotInv, P0!PointInv,
      P0!WritesOnceInOrder, P0!Period, P0!MaxOf, P0!NoData, P0!Writes, P0!Values

(* A thread that starts there finds it as one that wakes from its sleep.   *)
LEMMA GapBefore2 ==
  ASSUME P0!IInv, Rest, pc2 = "done", pc2' = "sleep",
         UNCHANGED <<shared, lists2, written2>>
  PROVE  P2!IInv'
BY DEF Rest, NoWrites, shared, lists2,
      P2!IInv, P2!TypeOK, P2!SlotInv, P2!Newest, P2!PassInv, P2!ToWrite,
      P2!QueuedInv, P2!GotInv, P2!PointInv, P2!WritesOnceInOrder, P2!Period,
      P2!MaxOf, P2!NoData, P2!Writes, P2!Values, P0!IInv, P0!TypeOK, P0!SlotInv,
      P0!Newest, P0!PassInv, P0!ToWrite, P0!QueuedInv, P0!GotInv, P0!PointInv,
      P0!WritesOnceInOrder, P0!Period, P0!MaxOf, P0!NoData, P0!Writes, P0!Values

LEMMA RestStep == ASSUME Rest, [Next]_vars PROVE Rest'
<1> USE DEF Rest, shared, first, second, lists1, lists2
<1>1. CASE Goes1 \/ Goes2
  BY <1>1, Thread1Lives, Thread2Lives DEF Goes1, Goes2
<1>2. CASE Returns1 \/ Returns2
  BY <1>2 DEF Returns1, Returns2
<1>3. CASE Start \/ AddAddress
  BY <1>3 DEF Start, AddAddress, HandleNewMS, Spawn
<1>4. CASE RemoveAddress \/ UNCHANGED vars
  BY <1>4 DEF RemoveAddress, vars
<1>5. CASE WorkProc
  BY <1>5 DEF WorkProc, First!WorkProc, First!WorkBegin, First!WorkItem, First!WorkEnd
<1>6. CASE (\E v \in Vars : WriteData(v)) \/ (\E v \in Polled : PlcChange(v))
  BY <1>6 DEF WriteData, PlcChange, First!WriteData, First!PlcChange
<1> QED BY <1>1, <1>2, <1>3, <1>4, <1>5, <1>6 DEF Next

LEMMA AloneStep == ASSUME [Next]_vars, alone' PROVE alone
<1>1. Goes1 \/ Goes2 \/ Returns1 \/ Returns2 \/ RemoveAddress \/ WorkProc \/ UNCHANGED vars
      \/ (\E v \in Vars : WriteData(v)) \/ (\E v \in Polled : PlcChange(v))
      => UNCHANGED alone
  BY DEF Goes1, Goes2, Returns1, Returns2, RemoveAddress, WorkProc, WriteData, PlcChange, vars, control
<1> QED BY <1>1 DEF Next, Start, AddAddress, HandleNewMS, Spawn

LEMMA HandoverInit == Init => HandoverInv
<1> SUFFICES ASSUME Init PROVE HandoverInv
  OBVIOUS
<1>1. P1!Init
  BY DEF Init, First!Init, P1!Init
<1>2. P1!IInv
  BY <1>1, P1!InitInv
<1> QED BY <1>2 DEF Init, First!Init, HandoverInv, Rest, ServedByFirst

LEMMA HandoverStep == ASSUME HandoverInv, [Next]_vars PROVE HandoverInv'
<1> SUFFICES ASSUME alone' PROVE (ServedByFirst \/ ServedBySecond \/ NotServed)'
  BY RestStep DEF HandoverInv
<1>1. alone
  BY AloneStep
<1>2. CASE ServedByFirst
  <2>1. CASE [P1!Next]_(P1!allVars) /\ UNCHANGED pc2
    <3>1. P1!IInv'
      BY <1>2, <2>1, P1!StepInv DEF ServedByFirst
    <3>2. pc1' # "done"
      BY <3>1 DEF P1!IInv, P1!TypeOK
    <3> QED BY <1>2, <2>1, <3>1, <3>2 DEF ServedByFirst
  <2>2. CASE Returns1
    BY <1>2, <2>2, GapAfter1 DEF ServedByFirst, NotServed, Returns1, second
  <2> QED BY <1>2, <2>1, <2>2, Turn1 DEF ServedByFirst
<1>3. CASE ServedBySecond
  <2>1. CASE [P2!Next]_(P2!allVars) /\ UNCHANGED pc1
    <3>1. P2!IInv'
      BY <1>3, <2>1, P2!StepInv DEF ServedBySecond
    <3>2. pc2' # "done"
      BY <3>1 DEF P2!IInv, P2!TypeOK
    <3> QED BY <1>3, <2>1, <3>1, <3>2 DEF ServedBySecond
  <2>2. CASE Returns2
    BY <1>3, <2>2, GapAfter2 DEF ServedBySecond, NotServed, Returns2, first
  <2> QED BY <1>3, <2>1, <2>2, Turn2 DEF ServedBySecond
<1>4. CASE NotServed
  <2>1. CASE [P0!Next]_(P0!allVars) /\ UNCHANGED <<pc1, pc2>>
    BY <1>4, <2>1, P0!StepInv DEF NotServed
  <2>2. CASE HandleNewMS
    <3>1. CASE pc1' = "sleep" /\ UNCHANGED pc2
      BY <1>4, <2>2, <3>1, GapBefore1 DEF HandoverInv, NotServed, ServedByFirst, HandleNewMS
    <3>2. CASE pc2' = "sleep" /\ UNCHANGED pc1
      BY <1>4, <2>2, <3>2, GapBefore2 DEF HandoverInv, NotServed, ServedBySecond, HandleNewMS
    <3> QED BY <2>2, <3>1, <3>2 DEF HandleNewMS, Spawn
  <2> QED BY <1>4, <2>1, <2>2, Turn0 DEF NotServed
<1> QED BY <1>1, <1>2, <1>3, <1>4 DEF HandoverInv

(* While no threads overlap, the thread that serves the device finds all as *)
(* a single thread would, and so does the one that comes after it.         *)
THEOREM HandsOver == Spec => []HandoverInv
BY HandoverInit, HandoverStep, PTL DEF Spec

(* Threads that take turns send the writes in order, each of them followed *)
(* by a poll in its own pass, as if one thread had served the device.      *)
THEOREM OrderKept == Spec => []HandoverKeepsOrder
<1>1. ASSUME HandoverInv PROVE HandoverKeepsOrder
  <2> SUFFICES ASSUME alone
               PROVE  First!WritesOnceInOrder /\ First!WrittenIsPolled /\ Second!WrittenIsPolled
    BY DEF HandoverKeepsOrder
  <2> USE DEF First!WrittenIsPolled, Second!WrittenIsPolled, First!WritesOnceInOrder
  <2>1. CASE ServedByFirst
    <3>1. P1!IInv /\ pc2 = "done"
      BY <2>1 DEF ServedByFirst
    <3>2. P1!WrittenIsPolled
      BY <3>1, P1!WrittenIsDue
    <3> QED BY <3>1, <3>2 DEF P1!IInv, P1!WritesOnceInOrder, P1!WrittenIsPolled, P1!Due, First!Due,
               P1!Period, First!Period, P1!MaxOf, First!MaxOf
  <2>2. CASE ServedBySecond
    <3>1. P2!IInv /\ pc1 = "done"
      BY <2>2 DEF ServedBySecond
    <3>2. P2!WrittenIsPolled
      BY <3>1, P2!WrittenIsDue
    <3> QED BY <3>1, <3>2 DEF P2!IInv, P2!WritesOnceInOrder, P2!WrittenIsPolled, P2!Due, Second!Due,
               P2!Period, Second!Period, P2!MaxOf, Second!MaxOf
  <2>3. CASE NotServed
    BY <2>3 DEF NotServed, P0!IInv, P0!WritesOnceInOrder
  <2> QED BY <1>1, <2>1, <2>2, <2>3 DEF HandoverInv
<1> QED BY HandsOver, <1>1, PTL

(* And the data points stay an image of the PLC across the handovers.      *)
THEOREM ImageKept == Spec => HandoverKeepsImage
<1>1. ASSUME HandoverInv, [Next]_vars, alone' PROVE [Image!Next]_(Image!vars)
  <2> USE DEF Image!Next, Image!Change, Image!Show, Image!ShowZeroes, Image!vars
  <2>1. CASE ServedByFirst
    <3>1. CASE [P1!Next]_(P1!allVars)
      BY <2>1, <3>1, P1!ImageStep
         DEF ServedByFirst, P1!Image!Next, P1!Image!Change, P1!Image!Show, P1!Image!ShowZeroes,
             P1!Image!vars
    <3> QED BY <2>1, <3>1, <1>1, Turn1 DEF ServedByFirst, Returns1, shared
  <2>2. CASE ServedBySecond
    <3>1. CASE [P2!Next]_(P2!allVars)
      BY <2>2, <3>1, P2!ImageStep
         DEF ServedBySecond, P2!Image!Next, P2!Image!Change, P2!Image!Show, P2!Image!ShowZeroes,
             P2!Image!vars
    <3> QED BY <2>2, <3>1, <1>1, Turn2 DEF ServedBySecond, Returns2, shared
  <2>3. CASE NotServed
    <3>1. CASE [P0!Next]_(P0!allVars)
      BY <2>3, <3>1, P0!ImageStep
         DEF NotServed, P0!Image!Next, P0!Image!Change, P0!Image!Show, P0!Image!ShowZeroes,
             P0!Image!vars
    <3> QED BY <2>3, <3>1, <1>1, Turn0 DEF NotServed, HandleNewMS, shared
  <2> QED BY <1>1, <2>1, <2>2, <2>3, AloneStep DEF HandoverInv
<1> QED BY HandsOver, <1>1, PTL DEF Spec, HandoverKeepsImage
=============================================================================
