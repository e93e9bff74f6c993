---------------------------- MODULE PlcConnection ----------------------------
(***************************************************************************)
(* One PLC thread and its connection: the loop of                          *)
(* RAMS7200HWService::handleNewMS with RAMS7200LibFacade::Connect,         *)
(* Disconnect and EnsureConnection.  The server's redundancy role, the     *)
(* reachability of the PLC and the request to stop change at any time, and *)
(* every read of the role is a step of its own.                            *)
(***************************************************************************)
EXTENDS Integers

CONSTANTS
  FailureLimit,   \* failed requests after which the connection is renewed: 5
  MaxRequests,    \* bound: requests in one cycle
  FlipAt          \* places of the thread at which the role may change

Places == {"connect", "publishFirst", "readRole", "test", "sample", "switch", "check",
           "lost", "reconnect", "publish", "retry", "leave", "io", "sleep", "done"}

ASSUME ConnectionAssumption ==
  /\ FailureLimit \in Nat \ {0} /\ MaxRequests \in Nat \ {0}
  /\ FlipAt \subseteq Places

VARIABLES
  pc,
  active,         \* ~RAMS7200Resources::getDisableCommands()
  reach,          \* the PLC answers on the network
  run,            \* _driverRun && ms._run
  connected,      \* _client->Connected()
  wasConnected,   \* _wasConnected
  ioFailures,
  wasActive, isNowActive,
  errDp           \* last value queued for <ip>._system$_Error

vars == <<pc, active, reach, run, connected, wasConnected, ioFailures, wasActive,
          isNowActive, errDp>>

TypeOK ==
  /\ pc \in Places
  /\ active \in BOOLEAN /\ reach \in BOOLEAN /\ run \in BOOLEAN
  /\ connected \in BOOLEAN /\ wasConnected \in BOOLEAN
  /\ ioFailures \in 0..(FailureLimit - 1 + MaxRequests)
  /\ wasActive \in BOOLEAN /\ isNowActive \in BOOLEAN
  /\ errDp \in {"unset", "error", "fine"}

Init ==
  /\ pc = "connect"
  /\ active \in BOOLEAN /\ reach \in BOOLEAN /\ run = TRUE
  /\ connected = FALSE /\ wasConnected = FALSE /\ ioFailures = 0
  /\ wasActive = FALSE /\ isNowActive = FALSE
  /\ errDp = "unset"

(* RAMS7200MarkDeviceConnectionError(error)                                *)
MarkError(error) == errDp' = IF error THEN "error" ELSE "fine"
MarkErrorIfPassive(error) == IF active THEN UNCHANGED errDp ELSE MarkError(error)
MarkErrorIfActive(error) == IF active THEN MarkError(error) ELSE UNCHANGED errDp

Move(from, to) == pc = from /\ pc' = to

(* Connect(): a new client; Connected() may be false again when published. *)
TryConnect ==
  /\ connected' = reach
  /\ wasConnected' = (wasConnected \/ reach)

FirstConnect ==
  /\ Move("connect", "publishFirst") /\ TryConnect
  /\ UNCHANGED <<active, reach, run, ioFailures, wasActive, isNowActive, errDp>>

PublishFirst ==
  /\ Move("publishFirst", "readRole") /\ MarkErrorIfActive(~connected)
  /\ UNCHANGED <<active, reach, run, connected, wasConnected, ioFailures, wasActive,
                 isNowActive>>

ReadRole ==
  /\ Move("readRole", "test") /\ wasActive' = active
  /\ UNCHANGED <<active, reach, run, connected, wasConnected, ioFailures, isNowActive,
                 errDp>>

Test ==
  /\ Move("test", IF run THEN "sample" ELSE "done")
  /\ UNCHANGED <<active, reach, run, connected, wasConnected, ioFailures, wasActive,
                 isNowActive, errDp>>

Sample ==
  /\ Move("sample", "switch") /\ isNowActive' = active
  /\ UNCHANGED <<active, reach, run, connected, wasConnected, ioFailures, wasActive, errDp>>

(* EnsureConnection(wasActive != isNowActive).                             *)
Switch ==
  /\ Move("switch", "check")
  /\ IF wasActive # isNowActive THEN MarkError(~connected) ELSE UNCHANGED errDp
  /\ UNCHANGED <<active, reach, run, connected, wasConnected, ioFailures, wasActive,
                 isNowActive>>

HealthyIfConnected == connected
Healthy == connected /\ ioFailures < FailureLimit

Check ==
  /\ Move("check", IF Healthy THEN "io" ELSE IF wasConnected THEN "lost" ELSE "reconnect")
  /\ UNCHANGED <<active, reach, run, connected, wasConnected, ioFailures, wasActive,
                 isNowActive, errDp>>

Lost ==
  /\ Move("lost", "reconnect") /\ MarkErrorIfActive(TRUE)
  /\ UNCHANGED <<active, reach, run, connected, wasConnected, ioFailures, wasActive,
                 isNowActive>>

(* Disconnect() and Connect() again: what Disconnect() makes of            *)
(* _wasConnected and _client is overwritten by Connect().                  *)
Disconnect == ioFailures' = 0

Reconnect ==
  /\ Move("reconnect", "publish")
  /\ Disconnect /\ connected' = reach /\ wasConnected' = reach
  /\ UNCHANGED <<active, reach, run, wasActive, isNowActive, errDp>>

PublishNever ==
  /\ Move("publish", "retry")
  /\ UNCHANGED <<active, reach, run, connected, wasConnected, ioFailures, wasActive,
                 isNowActive, errDp>>

Publish ==
  /\ Move("publish", "retry") /\ MarkErrorIfActive(~connected)
  /\ UNCHANGED <<active, reach, run, connected, wasConnected, ioFailures, wasActive,
                 isNowActive>>

(* The sleep of five seconds lies here, then while(_run && !_wasConnected). *)
RetryNever == FALSE
RetryEither == run \/ ~wasConnected
RetryUntilConnected == ~wasConnected
RetryWanted == run /\ ~wasConnected

Retry ==
  /\ Move("retry", IF RetryWanted THEN "reconnect" ELSE "leave")
  /\ UNCHANGED <<active, reach, run, connected, wasConnected, ioFailures, wasActive,
                 isNowActive, errDp>>

Leave ==
  /\ Move("leave", "io") /\ MarkErrorIfActive(FALSE)
  /\ UNCHANGED <<active, reach, run, connected, wasConnected, ioFailures, wasActive,
                 isNowActive>>

(* WriteToPLC() and Poll() when isNowActive: a number of requests, all of  *)
(* which fail when the PLC does not answer.                                *)
Io(n) ==
  /\ Move("io", "sleep") /\ isNowActive
  /\ \E failed \in 0..n :
       /\ (connected /\ reach) \/ failed = n
       /\ ioFailures' = ioFailures + failed
  /\ UNCHANGED <<active, reach, run, connected, wasConnected, wasActive, isNowActive, errDp>>

Passive ==
  /\ Move("io", "sleep") /\ ~isNowActive
  /\ UNCHANGED <<active, reach, run, connected, wasConnected, ioFailures, wasActive,
                 isNowActive, errDp>>

Sleep ==
  /\ Move("sleep", "test") /\ wasActive' = isNowActive
  /\ UNCHANGED <<active, reach, run, connected, wasConnected, ioFailures, isNowActive,
                 errDp>>

Step == \/ FirstConnect \/ PublishFirst \/ ReadRole \/ Test \/ Sample \/ Switch \/ Check
        \/ Lost \/ Reconnect \/ Publish \/ Retry \/ Leave \/ Passive \/ Sleep
        \/ \E n \in 0..MaxRequests : Io(n)
-----------------------------------------------------------------------------
(* The environment: WinCC OA's redundancy, the network, the main thread.   *)
RoleChange == pc \in FlipAt /\ active' = ~active /\ UNCHANGED
  <<pc, reach, run, connected, wasConnected, ioFailures, wasActive, isNowActive, errDp>>

NetworkChange == reach' = ~reach /\ UNCHANGED
  <<pc, active, run, connected, wasConnected, ioFailures, wasActive, isNowActive, errDp>>

(* An unreachable peer is noticed by the client at some time, or not.      *)
LinkDrop == ~reach /\ connected /\ connected' = FALSE /\ UNCHANGED
  <<pc, active, reach, run, wasConnected, ioFailures, wasActive, isNowActive, errDp>>

StopRequest == run /\ run' = FALSE /\ UNCHANGED
  <<pc, active, reach, connected, wasConnected, ioFailures, wasActive, isNowActive, errDp>>

Next == Step \/ RoleChange \/ NetworkChange \/ LinkDrop \/ StopRequest

(* The thread is scheduled, and cycles with a request keep coming: a       *)
(* variable is due again after its polling time.                           *)
Fairness == WF_vars(Step) /\ SF_vars(\E n \in 1..MaxRequests : Io(n))
Spec == Init /\ [][Next]_vars
FairSpec == Spec /\ Fairness
-----------------------------------------------------------------------------
(* Each of the places that publish "fine" does so on a connection: it is    *)
(* there as it is published, or, at the end of EnsureConnection, the last  *)
(* attempt has made it (the PLC may have dropped it since).  The one       *)
(* exception is in the code: a thread that is asked to stop while it       *)
(* retries leaves the loop and calls a PLC "fine" that it has not reached. *)
FineOnlyAfterConnecting ==
  [][errDp' = "fine" /\ errDp # "fine" =>
       connected \/ (pc = "leave" /\ (wasConnected \/ ~run))]_errDp

(* No cycle does I/O on a connection that has reached its failure limit,   *)
(* and a running thread does none without having connected.                *)
IoOnGoodConnection ==
  pc = "io" /\ run => wasConnected /\ ioFailures < FailureLimit

(* A PLC that stays away while the server is active is reported, whatever  *)
(* the role and the network did before.                                    *)
ErrorIsRaised == <>[](active /\ run /\ ~reach) => <>[](errDp = "error")

(* On a server that is always active, a PLC that stays reachable is        *)
(* reported to be fine again and again.                                    *)
ErrorIsCleared == ([]active /\ <>[](run /\ reach)) => []<>(errDp = "fine")

(* A PLC that stays reachable is polled, after any sequence of outages and *)
(* role changes that ends with the server active.                          *)
PollingResumes == <>[](active /\ run /\ reach) => []<>(pc = "io" /\ isNowActive /\ connected)

(* The thread ends when it is asked to, reachable PLC or not.              *)
ThreadEnds == ~run ~> pc = "done"
=============================================================================
