------------------------- MODULE PanelSessionProofs -------------------------
(* Safety of PanelSession: types and descriptors.                          *)
EXTENDS PanelSession, TLAPS

IInv == TypeOK /\ NothingLeaks

LEMMA InitIInv == Init => IInv
  BY DEF Init, IInv, TypeOK, NothingLeaks, Apart

(* One step per action: only CreateSocket opens a socket and only          *)
(* OpenUserFile a file, and the ways back to Apart close both.             *)
LEMMA StepIInv == IInv /\ [Next]_vars => IInv'
<1> SUFFICES ASSUME IInv, [Next]_vars PROVE IInv'
  OBVIOUS
<1> USE DEF IInv, TypeOK, NothingLeaks, Apart, Goto, world, CloseFd
<1>1. CASE OuterTest
  BY <1>1 DEF OuterTest
<1>2. CASE AwaitRole
  BY <1>2 DEF AwaitRole, WriteTouchConnErr
<1>3. CASE CreateSocket
  BY <1>3 DEF CreateSocket
<1>4. CASE SocketFails
  BY <1>4 DEF SocketFails
<1>5. CASE Connect
  BY <1>5 DEF Connect
<1>6. CASE ConnectFails
  BY <1>6 DEF ConnectFails, Retry
<1>7. CASE Wait
  BY <1>7 DEF Wait
<1>8. CASE InnerTest
  BY <1>8 DEF InnerTest, WriteTouchConnErr, Stays
<1>9. CASE CheckRole
  BY <1>9 DEF CheckRole
<1>10. CASE Handshake
  BY <1>10 DEF Handshake
<1>11. CASE HandshakeFails
  BY <1>11 DEF HandshakeFails
<1>12. CASE OpenUserFile
  BY <1>12 DEF OpenUserFile
<1>13. CASE SendUser
  BY <1>13 DEF SendUser, Fclose
<1>14. CASE SendUserMarker
  BY <1>14 DEF SendUserMarker, Fclose
<1>15. CASE AcceptLogFile
  BY <1>15 DEF AcceptLogFile
<1>16. CASE ReceiveName
  BY <1>16 DEF ReceiveName
<1>17. CASE EndOfNames
  BY <1>17 DEF EndOfNames
<1>18. CASE AcknowledgeName
  BY <1>18 DEF AcknowledgeName
<1>19. CASE Transfer
  BY <1>19 DEF Transfer
<1>20. CASE AcknowledgeFile
  BY <1>20 DEF AcknowledgeFile
<1>21. CASE EndOfTreatment
  BY <1>21 DEF EndOfTreatment
<1>22. CASE CloseAfterLoop
  BY <1>22 DEF CloseAfterLoop, FinalClose
<1>23. CASE OtherThread
  BY <1>23 DEF OtherThread
<1>24. CASE RoleChange \/ PanelChange \/ StopDevice
  <2>1. UNCHANGED thread
    BY <1>24 DEF RoleChange, PanelChange, StopDevice
  <2>2. run' \in BOOLEAN /\ active' \in BOOLEAN /\ reachable' \in BOOLEAN
    BY <1>24, Zenon DEF RoleChange, PanelChange, StopDevice
  <2>3. QED
    BY <2>1, <2>2 DEF thread
<1>25. CASE UNCHANGED vars
  BY <1>25 DEF vars, thread
<1>26. QED
  BY <1>1, <1>2, <1>3, <1>4, <1>5, <1>6, <1>7, <1>8, <1>9, <1>10, <1>11, <1>12, <1>13, <1>14,
     <1>15, <1>16, <1>17, <1>18, <1>19, <1>20, <1>21, <1>22, <1>23, <1>24, <1>25 DEF Next, Thread

(* The two invariants that are proved together.                            *)
THEOREM Inductive == Spec => []IInv
  BY InitIInv, StepIInv, PTL DEF Spec

(* Every variable keeps its type, and a user file is open only while it is *)
(* being sent.                                                             *)
THEOREM TypeCorrect == Spec => []TypeOK
  BY Inductive, PTL DEF IInv

(* However a connection ends (lines 252 to 612 of RAMS7200Panel.cxx), its  *)
(* socket and its file are closed before the thread connects again.        *)
THEOREM NoLeak == Spec => []NothingLeaks
  BY Inductive, PTL DEF IInv
-----------------------------------------------------------------------------
(* How many steps a thread whose _run is cleared can still make on its     *)
(* longest way out, counted without further names from the panel.          *)
StepsLeft ==
  [done |-> 0, outer |-> 1, wait |-> 2, close |-> 2, inner |-> 3, end |-> 4, names |-> 5,
   receipt |-> 6, transfer |-> 7, name |-> 8, marker |-> 5, send |-> 6, user |-> 7, accept |-> 6,
   kind |-> 8, answer |-> 9, hello |-> 10, check |-> 11, connect |-> 4, socket |-> 5,
   role |-> 6][pc]

(* The thread of a stopped device is on its way out, whatever the panel,   *)
(* the network and the role do: each step it makes brings it nearer to the *)
(* end of its two loops, no failure sends it round again, and nobody sets  *)
(* _run back.  Only the panel can hold it up, with another name in the     *)
(* loop over names, which does not look at _run.  With the fairness of     *)
(* FairSpec this is why ThreadEnds holds.                                  *)
WindsDown ==
  [][~run => /\ ~run'
             /\ IF ReceiveName THEN StepsLeft' = StepsLeft + 3
                ELSE StepsLeft' <= StepsLeft /\ (Thread => StepsLeft' < StepsLeft)]_vars

LEMMA StepsLeftType == TypeOK => StepsLeft \in Nat
BY DEF TypeOK, Apart, StepsLeft

(* Where one step takes a thread that has been stopped.                    *)
LEMMA WayOut ==
  ASSUME Thread, ~run, ~ReceiveName PROVE StepsLeft' < StepsLeft
<1> USE DEF Goto
<1>1. CASE OuterTest \/ AwaitRole \/ CreateSocket \/ SocketFails
  <2>1. \/ pc = "outer" /\ pc' = "done"
        \/ pc = "role" /\ pc' = "socket"
        \/ pc = "socket" /\ pc' \in {"connect", "done"}
    BY <1>1 DEF OuterTest, AwaitRole, CreateSocket, SocketFails
  <2> QED BY <2>1 DEF StepsLeft
<1>2. CASE Connect \/ ConnectFails \/ Wait
  <2>1. \/ pc = "connect" /\ pc' \in {"inner", "wait"}
        \/ pc = "wait" /\ pc' = "outer"
    BY <1>2 DEF Connect, ConnectFails, Retry, Wait
  <2> QED BY <2>1 DEF StepsLeft
<1>3. CASE InnerTest \/ CheckRole \/ EndOfTreatment \/ CloseAfterLoop
  <2>1. \/ pc = "inner" /\ pc' = "close"
        \/ pc = "check" /\ pc' \in {"hello", "close"}
        \/ pc = "end" /\ pc' \in {"inner", "close"}
        \/ pc = "close" /\ pc' = "outer"
    BY <1>3 DEF InnerTest, Stays, CheckRole, EndOfTreatment, CloseAfterLoop
  <2> QED BY <2>1 DEF StepsLeft
<1>4. CASE Handshake \/ HandshakeFails
  <2>1. \/ pc = "hello" /\ pc' \in {"answer", "close"}
        \/ pc = "answer" /\ pc' \in {"kind", "close"}
        \/ pc = "kind" /\ pc' \in {"user", "accept", "end", "close"}
    BY <1>4 DEF Handshake, HandshakeFails
  <2> QED BY <2>1 DEF StepsLeft
<1>5. CASE OpenUserFile \/ SendUser \/ SendUserMarker
  <2>1. \/ pc = "user" /\ pc' \in {"send", "close"}
        \/ pc = "send" /\ pc' \in {"marker", "close"}
        \/ pc = "marker" /\ pc' \in {"end", "close"}
    BY <1>5 DEF OpenUserFile, SendUser, SendUserMarker
  <2> QED BY <2>1 DEF StepsLeft
<1>6. CASE AcceptLogFile \/ EndOfNames \/ AcknowledgeName
  <2>1. \/ pc = "accept" /\ pc' \in {"names", "close"}
        \/ pc = "names" /\ pc' = "end"
        \/ pc = "name" /\ pc' \in {"names", "transfer", "end"}
    BY <1>6 DEF AcceptLogFile, EndOfNames, AcknowledgeName
  <2> QED BY <2>1 DEF StepsLeft
<1>7. CASE Transfer \/ AcknowledgeFile
  <2>1. \/ pc = "transfer" /\ pc' \in {"receipt", "end"}
        \/ pc = "receipt" /\ pc' \in {"names", "end"}
    BY <1>7 DEF Transfer, AcknowledgeFile
  <2> QED BY <2>1 DEF StepsLeft
<1> QED BY <1>1, <1>2, <1>3, <1>4, <1>5, <1>6, <1>7 DEF Thread

LEMMA RunStaysCleared == ASSUME [Next]_vars, ~run PROVE ~run'
<1>1. CASE Thread
  <2>1. UNCHANGED world
    BY <1>1 DEF Thread, OuterTest, AwaitRole, CreateSocket, SocketFails, Connect, ConnectFails, Wait,
       InnerTest, CheckRole, Handshake, HandshakeFails, OpenUserFile, SendUser, SendUserMarker,
       AcceptLogFile, ReceiveName, EndOfNames, AcknowledgeName, Transfer, AcknowledgeFile,
       EndOfTreatment, CloseAfterLoop
  <2> QED BY <2>1 DEF world
<1>2. CASE OtherThread \/ RoleChange \/ PanelChange \/ StopDevice \/ UNCHANGED vars
  BY <1>2 DEF OtherThread, RoleChange, PanelChange, StopDevice, vars, world
<1> QED BY <1>1, <1>2 DEF Next

(* A panel thread whose _run is cleared winds down, from any place and     *)
(* through every failure.                                                  *)
THEOREM Ends == Spec => WindsDown
<1>1. ASSUME IInv, [Next]_vars, ~run
      PROVE  /\ ~run'
             /\ IF ReceiveName THEN StepsLeft' = StepsLeft + 3
                ELSE StepsLeft' <= StepsLeft /\ (Thread => StepsLeft' < StepsLeft)
  <2>1. ~run'
    BY <1>1, RunStaysCleared
  <2>2. ReceiveName => StepsLeft' = StepsLeft + 3
    BY DEF ReceiveName, Goto, StepsLeft
  <2>3. StepsLeft \in Nat /\ StepsLeft' \in Nat
    BY <1>1, StepsLeftType, StepIInv DEF IInv, StepsLeft, TypeOK, Apart
  <2>4. Thread /\ ~ReceiveName => StepsLeft' < StepsLeft
    BY <1>1, WayOut
  <2>5. ~Thread => StepsLeft' = StepsLeft
    <3>1. ~Thread => pc' = pc
      BY <1>1 DEF Next, OtherThread, RoleChange, PanelChange, StopDevice, vars, thread
    <3> QED BY <3>1 DEF StepsLeft
  <2> QED BY <2>1, <2>2, <2>3, <2>4, <2>5
<1>2. IInv /\ [Next]_vars =>
        [~run => /\ ~run'
                 /\ IF ReceiveName THEN StepsLeft' = StepsLeft + 3
                    ELSE StepsLeft' <= StepsLeft /\ (Thread => StepsLeft' < StepsLeft)]_vars
  BY <1>1
<1> QED BY Inductive, <1>2, PTL DEF Spec, WindsDown
=============================================================================
