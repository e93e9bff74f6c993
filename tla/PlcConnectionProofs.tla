------------------------ MODULE PlcConnectionProofs ------------------------
(* The safety properties of the connection, for any failure limit, any     *)
(* number of requests in a cycle and role changes anywhere.                *)
EXTENDS PlcConnection, TLAPS

(* _wasConnected covers Connected(), a thread that runs leaves the retry   *)
(* loop connected, and what follows a reconnection has a fresh counter.    *)
LinkInv ==
  /\ connected => wasConnected
  /\ pc \in {"leave", "io"} /\ run => wasConnected
  /\ pc \in {"publish", "retry", "leave"} => ioFailures = 0
  /\ pc = "io" => ioFailures < FailureLimit

IInv == TypeOK /\ LinkInv

USE ConnectionAssumption DEF Move

LEMMA InitInv == Init => IInv
<1> SUFFICES ASSUME Init PROVE IInv
  OBVIOUS
<1> USE DEF Init
<1>1. ioFailures \in 0..(FailureLimit - 1 + MaxRequests)
  OBVIOUS
<1>2. /\ active \in BOOLEAN /\ reach \in BOOLEAN /\ run \in BOOLEAN
      /\ connected \in BOOLEAN /\ wasConnected \in BOOLEAN
      /\ wasActive \in BOOLEAN /\ isNowActive \in BOOLEAN
  OBVIOUS
<1>3. pc \in Places /\ errDp \in {"unset", "error", "fine"}
  BY DEF Places
<1>4. LinkInv
  BY DEF LinkInv
<1> QED BY <1>1, <1>2, <1>3, <1>4 DEF IInv, TypeOK

LEMMA StepInv == ASSUME IInv, [Next]_vars PROVE IInv'
<1> USE DEF IInv, TypeOK, LinkInv, Places
<1>1. CASE FirstConnect
  BY <1>1 DEF FirstConnect, TryConnect
<1>2. CASE PublishFirst \/ Lost \/ Publish \/ Leave
  BY <1>2 DEF PublishFirst, Lost, Publish, Leave, MarkErrorIfActive, MarkError
<1>3. CASE ReadRole \/ Test \/ Sample \/ Passive \/ Sleep
  BY <1>3 DEF ReadRole, Test, Sample, Passive, Sleep
<1>4. CASE Switch
  BY <1>4 DEF Switch, MarkError
<1>5. CASE Check
  BY <1>5 DEF Check, Healthy
<1>6. CASE Reconnect
  BY <1>6 DEF Reconnect, Disconnect
<1>7. CASE Retry
  BY <1>7 DEF Retry, RetryWanted
<1>8. ASSUME NEW n \in 0..MaxRequests, Io(n) PROVE IInv'
  <2>1. PICK failed \in 0..n : ioFailures' = ioFailures + failed
    BY <1>8 DEF Io
  <2>2. ioFailures' \in 0..(FailureLimit - 1 + MaxRequests)
    BY <1>8, <2>1 DEF Io
  <2> QED BY <1>8, <2>2 DEF Io
<1>9. CASE RoleChange \/ NetworkChange \/ LinkDrop \/ StopRequest
  <2>1. /\ active' \in BOOLEAN /\ reach' \in BOOLEAN
        /\ connected' \in BOOLEAN /\ run' \in BOOLEAN
    BY <1>9 DEF RoleChange, NetworkChange, LinkDrop, StopRequest
  <2>2. (connected' => connected) /\ (run' => run)
    BY <1>9 DEF RoleChange, NetworkChange, LinkDrop, StopRequest
  <2>3. UNCHANGED <<pc, wasConnected, ioFailures, wasActive, isNowActive, errDp>>
    BY <1>9 DEF RoleChange, NetworkChange, LinkDrop, StopRequest
  <2>4. TypeOK'
    BY <2>1, <2>3
  <2>5. LinkInv'
    BY <2>2, <2>3
  <2> QED BY <2>4, <2>5
<1>10. CASE UNCHANGED vars
  BY <1>10 DEF vars
<1> QED BY <1>1, <1>2, <1>3, <1>4, <1>5, <1>6, <1>7, <1>8, <1>9, <1>10 DEF Next, Step

(* The counter of failures and the flags agree with the thread's place.    *)
THEOREM Inductive == Spec => []IInv
BY InitInv, StepInv, PTL DEF Spec

(* Every variable keeps its type; ioFailures stays bounded, although no    *)
(* success resets it.                                                      *)
THEOREM TypeCorrect == Spec => []TypeOK
BY Inductive, PTL DEF IInv

(* I/O is done on a connection below its failure limit, and by a running   *)
(* thread only after having connected.                                     *)
THEOREM IoSafe == Spec => []IoOnGoodConnection
<1>1. IInv => IoOnGoodConnection
  BY DEF IInv, LinkInv, IoOnGoodConnection
<1> QED BY Inductive, <1>1, PTL

(* "fine" is published on a connection, by every thread that is not being  *)
(* stopped and at every place; a thread that is being stopped publishes it *)
(* without one at the end of EnsureConnection only.                        *)
THEOREM FineIsConnected == Spec => FineOnlyAfterConnecting
<1>1. ASSUME IInv, [Next]_vars, errDp' = "fine", errDp # "fine"
      PROVE  connected \/ (pc = "leave" /\ (wasConnected \/ ~run))
  <2> USE <1>1 DEF IInv, LinkInv, MarkErrorIfActive, MarkError
  <2>1. CASE PublishFirst
    BY <2>1 DEF PublishFirst
  <2>2. CASE Switch
    BY <2>2 DEF Switch
  <2>3. CASE Lost
    BY <2>3 DEF Lost
  <2>4. CASE Publish
    BY <2>4 DEF Publish
  <2>5. CASE Leave
    BY <2>5 DEF Leave
  <2>6. CASE \/ FirstConnect \/ ReadRole \/ Test \/ Sample \/ Check \/ Reconnect \/ Retry
             \/ Passive \/ Sleep \/ \E n \in 0..MaxRequests : Io(n)
             \/ RoleChange \/ NetworkChange \/ LinkDrop \/ StopRequest \/ UNCHANGED vars
    BY <2>6 DEF FirstConnect, ReadRole, Test, Sample, Check, Reconnect, Disconnect, Retry, Passive,
       Sleep, Io, RoleChange, NetworkChange, LinkDrop, StopRequest, vars
  <2> QED BY <2>1, <2>2, <2>3, <2>4, <2>5, <2>6 DEF Next, Step
<1>2. IInv /\ [Next]_vars =>
        [errDp' = "fine" /\ errDp # "fine" =>
           connected \/ (pc = "leave" /\ (wasConnected \/ ~run))]_errDp
  BY <1>1
<1> QED BY Inductive, <1>2, PTL DEF Spec, FineOnlyAfterConnecting
-----------------------------------------------------------------------------
(* How many steps a thread that has been asked to stop can still make: no  *)
(* way leads back to an earlier place, since neither loop goes on.         *)
StepsLeft ==
  [connect |-> 4, publishFirst |-> 3, readRole |-> 2, sample |-> 11, switch |-> 10, check |-> 9,
   lost |-> 8, reconnect |-> 7, publish |-> 6, retry |-> 5, leave |-> 4, io |-> 3, sleep |-> 2,
   test |-> 1, done |-> 0][pc]

(* A thread that has been asked to stop ends after at most eleven steps of *)
(* its own, whatever the role, the network and the PLC do meanwhile: it    *)
(* tries to connect once more at most (while(_run && !_wasConnected)), and *)
(* no request to stop is withdrawn.  With the weak fairness of Step this   *)
(* is why ThreadEnds holds.                                                *)
WindsDown == [][~run => ~run' /\ StepsLeft' <= StepsLeft /\ (Step => StepsLeft' < StepsLeft)]_vars

(* From any place, and for any failure limit and number of requests, a     *)
(* thread that has been asked to stop winds down.                          *)
THEOREM Ends == Spec => WindsDown
<1>1. ASSUME IInv, [Next]_vars, ~run
      PROVE  ~run' /\ StepsLeft' <= StepsLeft /\ (Step => StepsLeft' < StepsLeft)
  <2> USE DEF StepsLeft
  <2>1. StepsLeft \in Nat
    BY <1>1 DEF IInv, TypeOK, Places
  <2>2. CASE Step
    <3>1. ~run'
      BY <1>1, <2>2 DEF Step, FirstConnect, PublishFirst, ReadRole, Test, Sample, Switch, Check, Lost,
         Reconnect, Publish, Retry, Leave, Passive, Sleep, Io
    <3>2. StepsLeft' < StepsLeft
      <4>1. CASE FirstConnect \/ PublishFirst \/ ReadRole \/ Sample
        BY <4>1 DEF FirstConnect, PublishFirst, ReadRole, Sample
      <4>2. CASE Test \/ Check \/ Retry
        BY <1>1, <4>2 DEF Test, Check, Retry, RetryWanted
      <4>3. CASE Switch \/ Lost
        <5>1. \/ pc = "switch" /\ pc' = "check"
              \/ pc = "lost" /\ pc' = "reconnect"
          BY <4>3 DEF Switch, Lost
        <5> QED BY <5>1
      <4>4. CASE Reconnect \/ Publish
        BY <4>4 DEF Reconnect, Publish
      <4>5. CASE Leave \/ Passive \/ Sleep
        <5>1. \/ pc = "leave" /\ pc' = "io"
              \/ pc = "io" /\ pc' = "sleep"
              \/ pc = "sleep" /\ pc' = "test"
          BY <4>5 DEF Leave, Passive, Sleep
        <5> QED BY <5>1
      <4>6. CASE \E n \in 0..MaxRequests : Io(n)
        <5>1. pc = "io" /\ pc' = "sleep"
          BY <4>6 DEF Io
        <5> QED BY <5>1
      <4> QED BY <2>2, <4>1, <4>2, <4>3, <4>4, <4>5, <4>6 DEF Step
    <3>3. StepsLeft' \in Nat
      BY <2>2, <1>1, StepInv DEF IInv, TypeOK, Places
    <3> QED BY <2>1, <3>1, <3>2, <3>3
  <2>3. CASE RoleChange \/ NetworkChange \/ LinkDrop \/ StopRequest \/ UNCHANGED vars
    <3>1. pc' = pc /\ ~run'
      BY <1>1, <2>3 DEF RoleChange, NetworkChange, LinkDrop, StopRequest, vars
    <3>2. ~Step
      BY <3>1 DEF Step, FirstConnect, PublishFirst, ReadRole, Test, Sample, Switch, Check, Lost,
         Reconnect, Publish, Retry, Leave, Passive, Sleep, Io
    <3> QED BY <2>1, <3>1, <3>2
  <2> QED BY <1>1, <2>2, <2>3 DEF Next
<1>2. IInv /\ [Next]_vars =>
        [~run => ~run' /\ StepsLeft' <= StepsLeft /\ (Step => StepsLeft' < StepsLeft)]_vars
  BY <1>1
<1> QED BY Inductive, <1>2, PTL DEF Spec, WindsDown
=============================================================================
