------------------------------ MODULE DataPath ------------------------------
(***************************************************************************)
(* The way of the values between WinCC OA and one PLC.                     *)
(*                                                                         *)
(*   writeData            main thread: a write of WinCC OA is left in the  *)
(*                        variable's slot _toPlc                           *)
(*   WriteToPLC, Poll     PLC thread, once per pass: empties the slots     *)
(*                        into write requests, then reads the variables    *)
(*                        that are due and queues the answers              *)
(*   workProc             main thread: drains the queue into data points   *)
(*                                                                         *)
(* A write is a number, a variable's value in the PLC the number of values *)
(* it has had.  How a list is cut into requests is module Batching; here a *)
(* request is any part of the list.  Connections and roles are module      *)
(* PlcConnection; here a pass may be skipped and any request may fail.     *)
(***************************************************************************)
EXTENDS Integers, Sequences, FiniteSets

CONSTANTS
  Vars,         \* the variables WinCC OA writes: direction OUT or INOUT
  Polled,       \* those with a slot: direction IN or INOUT
  Junk,         \* those whose uninitialised TS7DataItem::Result reads 0
  PollTime,     \* [Polled -> Nat]: seconds, from the address
  Interval,     \* Constants::getPollingInterval()
  MaxWrites,    \* bound: writes of WinCC OA
  MaxChanges,   \* bound: values that variables get inside the PLC
  MaxNews,      \* bound: writes and changes together
  MaxPass,      \* bound: whole seconds from one pass to the next
  MaxQueue      \* bound: queued items at the start of a pass

ASSUME DataPathAssumption ==
  /\ Junk \subseteq Polled
  /\ PollTime \in [Polled -> Nat]
  /\ Interval \in Nat /\ MaxWrites \in Nat /\ MaxChanges \in Nat /\ MaxNews \in Nat
  /\ MaxPass \in Nat \ {0} /\ MaxQueue \in Nat

VARIABLES
  pending,      \* _toPlc.pdata: the write in the slot of each variable, 0 = null
  age,          \* whole seconds since lastPollTime, up to Period
  pc,           \* where the PLC thread is in its pass
  taken,        \* the writes WriteToPLC has collected, 0 = none
  toRead,       \* the variables Poll has collected and not yet asked for
  got,          \* answers Poll has not yet queued: <<variable, value>>
  queue,        \* _toDPqueue
  draining,     \* workProc holds _toDPmutex
  plc,          \* the value of each variable in the PLC
  dp, blank,    \* what each data point shows, see ProcessImage
  accepted,     \* writes accepted so far; changes: values the PLC made itself
  changes,
  last,         \* the last write accepted for each variable
  sent,         \* the writes handed to the client, in order, by variable
  written       \* the variables written in this pass and not yet polled

slots == <<pending, accepted, last>>
world == <<plc, changes>>
points == <<dp, blank, draining>>
allVars == <<slots, age, pc, taken, toRead, got, queue, points, world, sent, written>>

Writes == 0..MaxWrites
Values == 0..(1 + MaxWrites + MaxChanges)
NoData == 0                        \* the value of a buffer of zeroes
MaxOf(a, b) == IF a > b THEN a ELSE b
Period(v) == MaxOf(PollTime[v], Interval)

TypeOK ==
  /\ pending \in [Polled -> Writes] /\ taken \in [Polled -> Writes]
  /\ age \in [Polled -> Nat] /\ \A v \in Polled : age[v] <= Period(v)
  /\ pc \in {"write", "writing", "poll", "polling", "sleep"}
  /\ toRead \subseteq Polled
  /\ got \subseteq Polled \X Values
  /\ queue \in Seq(Polled \X Values) /\ draining \in BOOLEAN
  /\ plc \in [Polled -> Values] /\ dp \in [Polled -> Values]
  /\ blank \in [Polled -> BOOLEAN]
  /\ accepted \in Writes /\ changes \in 0..MaxChanges
  /\ last \in [Polled -> Writes] /\ sent \in [Polled -> Seq(Writes)]
  /\ written \subseteq Polled

Init ==
  /\ pending = [v \in Polled |-> 0] /\ taken = [v \in Polled |-> 0]
  /\ age = [v \in Polled |-> 0]
  /\ pc = "write"
  /\ toRead = {} /\ got = {}
  /\ queue = <<>> /\ draining = FALSE
  /\ plc = [v \in Polled |-> 1]
  /\ dp = [v \in Polled |-> 0] /\ blank = [v \in Polled |-> FALSE]
  /\ accepted = 0 /\ changes = 0
  /\ last = [v \in Polled |-> 0] /\ sent = [v \in Polled |-> <<>>]
  /\ written = {}
-----------------------------------------------------------------------------
(* writeData and queuePLCItem: _toPlc.pdata is overwritten, vars.at()      *)
(* throws for a variable without a slot, which is logged and forgotten.    *)
(* The main thread is in writeData or in workProc.                         *)
FilledIfFree(v, w) == [pending EXCEPT ![v] = IF @ = 0 THEN w ELSE @]
Filled(v, w) == [pending EXCEPT ![v] = w]
FillSlotCreating(v, w) ==
  /\ pending' = [u \in Polled \cup {v} |-> IF u = v THEN w ELSE pending[u]]
  /\ last' = last
FillSlot(v, w) ==
  IF v \in Polled THEN pending' = Filled(v, w) /\ last' = [last EXCEPT ![v] = w]
                  ELSE UNCHANGED <<pending, last>>

WriteData(v) ==
  /\ ~draining /\ accepted < MaxWrites /\ accepted + changes < MaxNews
  /\ accepted' = accepted + 1
  /\ FillSlot(v, accepted + 1)
  /\ UNCHANGED <<age, pc, taken, toRead, got, queue, points, world, sent, written>>
-----------------------------------------------------------------------------
(* The PLC thread.  WriteToPLC empties the slots under _rwmutex and makes  *)
(* their variables due for the poll that follows.                          *)
NotBumped(v) == age[v]
Bumped(v) == Period(v)
KeepSlots == UNCHANGED pending
EmptySlots == pending' = [v \in Polled |-> 0]

CollectWrites ==
  /\ pc = "write"
  /\ taken' = pending
  /\ age' = [v \in Polled |-> IF pending[v] # 0 THEN Bumped(v) ELSE age[v]]
  /\ EmptySlots
  /\ pc' = "writing"
  /\ UNCHANGED <<accepted, last, toRead, got, queue, points, world, sent, written>>

(* A passive server skips the pass.                                        *)
PassivePass ==
  /\ pc = "write"
  /\ pc' = "sleep"
  /\ UNCHANGED <<slots, age, taken, toRead, got, queue, points, world, sent, written>>

(* A request with the writes to R.  Done are those the PLC has carried     *)
(* out, whether or not its answer arrives: nothing is written again.       *)
ToWrite == {v \in Polled : taken[v] # 0}

WriteRequest(R, done) ==
  /\ pc = "writing" /\ R # {} /\ R \subseteq ToWrite /\ done \subseteq R
  /\ plc' = [v \in Polled |-> IF v \in done THEN plc[v] + 1 ELSE plc[v]]
  /\ sent' = [v \in Polled |-> IF v \in R THEN Append(sent[v], taken[v]) ELSE sent[v]]
  /\ taken' = [v \in Polled |-> IF v \in R THEN 0 ELSE taken[v]]
  /\ written' = written \cup R
  /\ UNCHANGED <<slots, age, pc, toRead, got, queue, points, changes>>

EndWrites ==
  /\ pc = "writing" /\ ToWrite = {}
  /\ pc' = "poll"
  /\ UNCHANGED <<slots, age, taken, toRead, got, queue, points, world, sent, written>>

(* Poll collects the variables that are due, under _rwmutex.               *)
Due == {v \in Polled : age[v] >= Period(v)}
RestartedAll == IF Due = {} THEN {} ELSE Polled
Restarted == Due

CollectReads ==
  /\ pc = "poll"
  /\ toRead' = Due
  /\ written' = {}
  /\ age' = [v \in Polled |-> IF v \in Restarted THEN 0 ELSE age[v]]
  /\ pc' = "polling"
  /\ UNCHANGED <<slots, taken, got, queue, points, world, sent>>

(* A request for R, and what of it is queued: the items the PLC has        *)
(* answered well; or, if there is no answer at all, the untouched buffers  *)
(* of items whose Result happens to be 0.                                  *)
Answered(R, good) == {<<v, plc[v]>> : v \in good}
Unanswered(R) == {<<v, NoData>> : v \in R \cap Junk}

ReadRequest(R, good) ==
  /\ pc = "polling" /\ got = {} /\ R # {} /\ R \subseteq toRead /\ good \subseteq R
  /\ toRead' = toRead \ R
  /\ got' \in {Answered(R, good), Unanswered(R)}
  /\ UNCHANGED <<slots, age, pc, taken, queue, points, world, sent, written>>

(* insertInDataToDp, under _toDPmutex.                                     *)
EnqueuedInFront(item) == <<item>> \o queue
Enqueued(item) == Append(queue, item)

Enqueue(item) ==
  /\ pc = "polling" /\ item \in got /\ ~draining
  /\ got' = got \ {item}
  /\ queue' = Enqueued(item)
  /\ UNCHANGED <<slots, age, pc, taken, toRead, points, world, sent, written>>

EndReads ==
  /\ pc = "polling" /\ toRead = {} /\ got = {}
  /\ pc' = "sleep"
  /\ UNCHANGED <<slots, age, taken, toRead, got, queue, points, world, sent, written>>

(* The rest of the second.  Two passes may lie within the same whole       *)
(* second of the time since the last poll, or many seconds apart.          *)
Wake(seconds) ==
  /\ pc = "sleep" /\ Len(queue) <= MaxQueue
  /\ pc' = "write"
  /\ age' = [v \in Polled |-> IF age[v] + seconds > Period(v) THEN Period(v)
                                                              ELSE age[v] + seconds]
  /\ UNCHANGED <<slots, taken, toRead, got, queue, points, world, sent, written>>
-----------------------------------------------------------------------------
(* workProc holds _toDPmutex until the queue is empty.  toDp may refuse.   *)
WorkBegin ==
  /\ ~draining /\ queue # <<>>
  /\ draining' = TRUE
  /\ UNCHANGED <<slots, age, pc, taken, toRead, got, queue, dp, blank, world, sent, written>>

WorkItem(v, shown) ==
  /\ draining /\ queue # <<>> /\ Head(queue)[1] = v
  /\ queue' = Tail(queue)
  /\ LET n == Head(queue)[2] IN
       IF shown THEN /\ dp' = [dp EXCEPT ![v] = IF n = NoData THEN @ ELSE n]
                      /\ blank' = [blank EXCEPT ![v] = n = NoData]
                 ELSE UNCHANGED <<dp, blank>>
  /\ UNCHANGED <<slots, age, pc, taken, toRead, got, draining, world, sent, written>>

WorkEnd ==
  /\ draining /\ queue = <<>>
  /\ draining' = FALSE
  /\ UNCHANGED <<slots, age, pc, taken, toRead, got, queue, dp, blank, world, sent, written>>

(* The PLC's program gives a variable a new value.                         *)
PlcChange(v) ==
  /\ changes < MaxChanges /\ accepted + changes < MaxNews
  /\ changes' = changes + 1
  /\ plc' = [plc EXCEPT ![v] = @ + 1]
  /\ UNCHANGED <<slots, age, pc, taken, toRead, got, queue, points, sent, written>>
-----------------------------------------------------------------------------
PlcThread ==
  \/ CollectWrites \/ PassivePass \/ EndWrites \/ CollectReads \/ EndReads
  \/ \E R \in SUBSET Polled : \E S \in SUBSET R : WriteRequest(R, S) \/ ReadRequest(R, S)
  \/ \E item \in got : Enqueue(item)
  \/ \E s \in 0..MaxPass : Wake(s)

WorkProc == WorkBegin \/ WorkEnd \/ \E v \in Polled, shown \in BOOLEAN : WorkItem(v, shown)

Next ==
  \/ PlcThread \/ WorkProc
  \/ \E v \in Vars : WriteData(v)
  \/ \E v \in Polled : PlcChange(v)

(* The PLC's answer for v arrives.                                         *)
ReadWell(v) ==
  \E R \in SUBSET Polled : \E S \in SUBSET R :
    v \in S /\ ReadRequest(R, S) /\ got' = Answered(R, S)

ShowValue(v) == WorkItem(v, TRUE) /\ Head(queue)[2] # NoData

(* Both threads are scheduled, a server that is again and again passive is *)
(* again and again active, and time passes.  What is assumed of requests   *)
(* and of toDp is said for one variable at a time, by the modules that     *)
(* check liveness: tried for ever for it, they do not fail for ever.       *)
Scheduling ==
  /\ WF_allVars(PlcThread) /\ WF_allVars(WorkProc)
  /\ SF_allVars(CollectWrites) /\ SF_allVars(\E s \in 1..MaxPass : Wake(s))

Spec == Init /\ [][Next]_allVars
-----------------------------------------------------------------------------
(* No write is sent twice, and the writes to a variable are sent in the    *)
(* order of the writeData calls, though a slot may be refilled while the   *)
(* thread is sending what it took from it.                                 *)
WritesOnceInOrder ==
  \A v \in Polled : \A i, j \in DOMAIN sent[v] : i < j => sent[v][i] < sent[v][j]

(* "Make sure that the next poll will happen immediately": what has been   *)
(* written is due when the poll of the same pass collects what it asks     *)
(* for, whatever its poll time and its age, so that the data point does    *)
(* not keep the old value for a period.                                    *)
WrittenIsPolled == pc = "poll" => written \subseteq Due

(* Data points show the values of the PLC, in order, for all the slots,    *)
(* requests, queues and refusals in between.                               *)
Image == INSTANCE ProcessImage WITH Vars <- Polled
ImageSpec == Image!Spec

(* WinCC OA gives each variable finitely many values here, the PLC too.    *)
(* The last of the writes to a variable is sent, whatever it overwrites in *)
(* the slot and whenever it comes: between two passes, or while the thread *)
(* sends the write before.                                                 *)
LastWriteIsSent ==
  []<>\A v \in Polled : last[v] = 0 \/ \E i \in DOMAIN sent[v] : sent[v][i] = last[v]

(* The data point of v shows the value that v has in the PLC.              *)
CaughtUp(v) == dp[v] = plc[v] /\ ~blank[v]
=============================================================================
