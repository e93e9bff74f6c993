---------------------------- MODULE SharedDevice ----------------------------
(***************************************************************************)
(* Two PLC threads that serve one device.                                  *)
(*                                                                         *)
(* handleNewMS starts a thread without asking whether the one before has   *)
(* ended.  It is called again for a device that has one                    *)
(*                                                                         *)
(*   by start(), if addAddress has handed the device to the callback       *)
(*   between initialize() and start();                                     *)
(*   by addAddress, if removeAddress has cleared _run for another address  *)
(*   of the device and the thread has not looked at it since.              *)
(*                                                                         *)
(* Each thread has its own RAMS7200LibFacade; the slots, the times of the  *)
(* last polls, the queue and the PLC are shared.  So each thread is an     *)
(* instance of DataPath with its own place in the pass and its own lists.  *)
(* The variables and their HWObjects stay, other addresses of the device   *)
(* come and go.  Erased devices are in DeviceLifecycle.                    *)
(***************************************************************************)
EXTENDS Integers, Sequences, FiniteSets

CONSTANTS Vars, Polled, Junk, PollTime, Interval,    \* as in DataPath
          MaxWrites, MaxChanges, MaxNews, MaxPass, MaxQueue

VARIABLES
  pending, age, queue, draining, plc, dp, blank, accepted, changes, last, sent,
  pc1, taken1, toRead1, got1, written1,     \* a thread, or the place of
  pc2, taken2, toRead2, got2, written2,     \* one if pc is "done"
  run,          \* _run
  started,      \* start() has been called
  alone         \* no thread has been started beside another one

First == INSTANCE DataPath WITH pc <- pc1, taken <- taken1, toRead <- toRead1,
                                got <- got1, written <- written1
Second == INSTANCE DataPath WITH pc <- pc2, taken <- taken2, toRead <- toRead2,
                                 got <- got2, written <- written2

ASSUME SharedDeviceAssumption == First!DataPathAssumption

lists1 == <<taken1, toRead1, got1>>
lists2 == <<taken2, toRead2, got2>>
first == <<pc1, lists1, written1>>
second == <<pc2, lists2, written2>>
shared == <<pending, age, queue, draining, plc, dp, blank, accepted, changes, last, sent>>
control == <<run, started, alone>>
vars == <<shared, first, second, control>>

NoWrites == [v \in Polled |-> 0]

Init ==
  /\ First!Init
  /\ pc2 = "done" /\ taken2 = NoWrites /\ toRead2 = {} /\ got2 = {}
  /\ written2 = {}
  /\ run = TRUE /\ started \in BOOLEAN /\ alone = TRUE
-----------------------------------------------------------------------------
(* handleNewMS, in the main thread and so never inside workProc.  A thread *)
(* that has connected looks at _run like one that wakes from its sleep.    *)
(* A device has at most two threads here: a bound.                         *)
Spawn ==
  \/ pc1 = "done" /\ pc1' = "sleep" /\ alone' = (alone /\ pc2 = "done") /\ UNCHANGED pc2
  \/ pc2 = "done" /\ pc2' = "sleep" /\ alone' = (alone /\ pc1 = "done") /\ UNCHANGED pc1

HandleNewMS ==
  /\ ~draining
  /\ run' = TRUE /\ Spawn
  /\ UNCHANGED <<shared, lists1, written1, lists2, written2>>

Start == ~started /\ started' = TRUE /\ HandleNewMS

(* addAddress and removeAddress for another address of the device.         *)
AddAddress == ~run /\ HandleNewMS /\ UNCHANGED started
RemoveAddress ==
  /\ run /\ ~draining
  /\ run' = FALSE
  /\ UNCHANGED <<shared, first, second, started, alone>>

(* while(_driverRun && ms._run): between two passes a thread goes on or    *)
(* returns, and its lists are gone.                                        *)
MayGoOn(pc) == pc = "sleep" => run
MayReturnAtOnce(pc) == pc # "done" /\ ~run
MayReturn(pc) == pc = "sleep" /\ ~run

Goes1 == MayGoOn(pc1) /\ First!PlcThread /\ UNCHANGED <<second, control>>
Goes2 == MayGoOn(pc2) /\ Second!PlcThread /\ UNCHANGED <<first, control>>
Returns1 ==
  /\ MayReturn(pc1)
  /\ pc1' = "done" /\ taken1' = NoWrites /\ toRead1' = {} /\ got1' = {}
  /\ written1' = {}
  /\ UNCHANGED <<shared, second, control>>
Returns2 ==
  /\ MayReturn(pc2)
  /\ pc2' = "done" /\ taken2' = NoWrites /\ toRead2' = {} /\ got2' = {}
  /\ written2' = {}
  /\ UNCHANGED <<shared, first, control>>

(* The rest is as with one thread.                                         *)
WorkProc == First!WorkProc /\ UNCHANGED <<second, control>>
WriteData(v) == First!WriteData(v) /\ UNCHANGED <<second, control>>
PlcChange(v) == First!PlcChange(v) /\ UNCHANGED <<second, control>>

Next ==
  \/ Goes1 \/ Returns1 \/ Goes2 \/ Returns2
  \/ Start \/ AddAddress \/ RemoveAddress \/ WorkProc
  \/ \E v \in Vars : WriteData(v)
  \/ \E v \in Polled : PlcChange(v)

Spec == Init /\ [][Next]_vars
-----------------------------------------------------------------------------
(* A slot is emptied by one thread only: no write is handed to the PLC     *)
(* twice, however many threads look for it.                                *)
NoWriteTwice ==
  \A v \in Polled : \A i, j \in DOMAIN sent[v] : i # j => sent[v][i] # sent[v][j]

(* The last write to a variable is in its slot, in one of the threads, or  *)
(* handed to the PLC: what is lost is only what a later write replaced,    *)
(* and neither a second thread nor one that returns takes a write along.   *)
NewestIsUnderway ==
  \A v \in Polled :
    last[v] # 0 =>
      \/ last[v] \in {pending[v], taken1[v], taken2[v]}
      \/ \E i \in DOMAIN sent[v] : sent[v][i] = last[v]

(* As long as each thread has returned before the next is started, the     *)
(* device is served as by one thread: writes in order, what is written is  *)
(* polled in the same pass.  With two threads at a time neither holds.     *)
HandoverKeepsOrder ==
  alone =>
    First!WritesOnceInOrder /\ First!WrittenIsPolled /\ Second!WrittenIsPolled

(* And the data points follow the PLC in order, though what the thread     *)
(* before has queued is still to be shown.                                 *)
Image == INSTANCE ProcessImage WITH Vars <- Polled
HandoverKeepsImage == [][alone' => [Image!Next]_(Image!vars)]_vars
=============================================================================
