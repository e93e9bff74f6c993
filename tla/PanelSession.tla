---------------------------- MODULE PanelSession ----------------------------
(***************************************************************************)
(* RAMS7200Panel::FileSharingTask around its treatments: the thread of a   *)
(* touch panel connects, shakes hands, serves "User" and "LogFile"         *)
(* treatments, and connects again after a failure.                         *)
(*                                                                         *)
(* A socket is known by its number, and close() by itself does not forget  *)
(* the number: another thread of the driver may get it for a socket or a   *)
(* file of its own.  What a LogFile treatment does with a file is module   *)
(* PanelTransfer; here it is one step.  What another thread's descriptor   *)
(* answers is left open.                                                   *)
(***************************************************************************)
EXTENDS Naturals

VARIABLES
  pc,           \* where the thread is: see TypeOK
  fd,           \* what the number socket_desc stands for
  sockErr,      \* sock_err
  fpUser,       \* the FILE of a User treatment
  conError,     \* _touchConError, as last sent to WinCC OA
  socketFailed, \* socket() has failed
  run, active,  \* _run; ~RAMS7200Resources::getDisableCommands()
  reachable     \* the panel is there

thread == <<pc, fd, sockErr, fpUser, conError, socketFailed>>
world == <<run, active, reachable>>
vars == <<thread, world>>

Apart == {"outer", "role", "socket", "wait", "done"}     \* without a connection
TypeOK ==
  /\ pc \in Apart \cup {"connect", "inner", "check", "hello", "answer", "kind",
                        "user", "send", "marker", "accept", "names", "name", "transfer",
                        "receipt", "end", "close"}
  /\ fd \in {"none", "open", "closed", "foreign"}
  /\ sockErr \in BOOLEAN /\ fpUser \in {"open", "closed"}
  /\ conError \in {"unsent", "set", "clear"} /\ socketFailed \in BOOLEAN
  /\ run \in BOOLEAN /\ active \in BOOLEAN /\ reachable \in BOOLEAN
  \* a file is open only while it is sent
  /\ fpUser = "open" => pc \in {"send", "marker"}

Init ==
  /\ pc = "outer" /\ fd = "none" /\ sockErr = FALSE /\ fpUser = "closed"
  /\ conError = "unsent" /\ socketFailed = FALSE
  /\ run = TRUE /\ active \in BOOLEAN /\ reachable \in BOOLEAN

(* close(socket_desc): a number that is free is refused, one that belongs  *)
(* to another thread is taken from it.                                     *)
KeepFd == fd' = fd
CloseFd == fd' = "closed"

(* recv and send: what can succeed, and what can fail at any time.         *)
CanSucceed == fd = "foreign" \/ (fd = "open" /\ reachable)
Goto(p) == pc' = p
-----------------------------------------------------------------------------
(* The outer loop.  A passive server waits without a look at _run.         *)
OuterTest ==
  /\ pc = "outer" /\ Goto(IF run THEN "role" ELSE "done")
  /\ UNCHANGED <<fd, sockErr, fpUser, conError, socketFailed, world>>

WriteIfChanged(e) == conError' = IF conError = "unsent" /\ e = "set" THEN conError ELSE e
WriteTouchConnErr(e) == conError' = e
AwaitRole ==
  /\ pc = "role" /\ active
  /\ WriteTouchConnErr("set") /\ Goto("socket")
  /\ UNCHANGED <<fd, sockErr, fpUser, socketFailed, world>>

CreateSocket ==
  /\ pc = "socket" /\ fd' = "open" /\ Goto("connect")
  /\ UNCHANGED <<sockErr, fpUser, conError, socketFailed, world>>

SocketFails ==
  /\ pc = "socket" /\ socketFailed' = TRUE /\ Goto("done")
  /\ UNCHANGED <<fd, sockErr, fpUser, conError, world>>

Connect ==
  /\ pc = "connect" /\ CanSucceed /\ Goto("inner")
  /\ UNCHANGED <<fd, sockErr, fpUser, conError, socketFailed, world>>

(* Refused, timed out, or the socket's mode cannot be changed: the thread  *)
(* sleeps and tries again.                                                 *)
GiveUp == Goto("done")
Retry == Goto("wait")
ConnectFails ==
  /\ pc = "connect" /\ CloseFd /\ Retry
  /\ UNCHANGED <<sockErr, fpUser, conError, socketFailed, world>>

Wait ==
  /\ pc = "wait" /\ Goto("outer")
  /\ UNCHANGED <<fd, sockErr, fpUser, conError, socketFailed, world>>
-----------------------------------------------------------------------------
(* The inner loop: one treatment each time round.                          *)
StaysInside == active
Stays == run
InnerTest ==
  /\ pc = "inner"
  /\ IF Stays THEN WriteTouchConnErr("clear") /\ Goto("check")
              ELSE UNCHANGED conError /\ Goto("close")
  /\ UNCHANGED <<fd, sockErr, fpUser, socketFailed, world>>

CheckRole ==
  /\ pc = "check"
  /\ IF active THEN UNCHANGED fd /\ Goto("hello") ELSE CloseFd /\ Goto("close")
  /\ UNCHANGED <<sockErr, fpUser, conError, socketFailed, world>>

(* The number, the number plus one, and what the panel wants.              *)
Handshake ==
  /\ CanSucceed
  /\ \/ pc = "hello" /\ Goto("answer")
     \/ pc = "answer" /\ Goto("kind")
     \/ pc = "kind" /\ pc' \in {"user", "accept", "end"}
  /\ UNCHANGED <<fd, sockErr, fpUser, conError, socketFailed, world>>

HandshakeFails ==
  /\ pc \in {"hello", "answer", "kind"}
  /\ CloseFd /\ Goto("close")
  /\ UNCHANGED <<sockErr, fpUser, conError, socketFailed, world>>

(* User: the file is sent in pieces, then a marker.                        *)
OpenUserFile ==
  /\ pc = "user"
  /\ \/ fpUser' = "open" /\ sockErr' = FALSE /\ Goto("send") /\ UNCHANGED fd
     \/ CloseFd /\ Goto("close") /\ UNCHANGED <<fpUser, sockErr>>
  /\ UNCHANGED <<conError, socketFailed, world>>

Fclose == fpUser' = "closed"

SendUser ==
  /\ pc = "send"
  /\ \/ CanSucceed /\ Goto("marker") /\ UNCHANGED <<fd, fpUser, sockErr>>
     \/ CloseFd /\ Fclose /\ sockErr' = TRUE /\ Goto("close")
  /\ UNCHANGED <<conError, socketFailed, world>>

SendUserMarker ==
  /\ pc = "marker" /\ Fclose
  /\ \/ CanSucceed /\ Goto("end") /\ UNCHANGED fd
     \/ CloseFd /\ Goto("close")
  /\ UNCHANGED <<sockErr, conError, socketFailed, world>>
-----------------------------------------------------------------------------
(* LogFile: names until the panel ends the treatment, and a file for each. *)
AcceptLogFile ==
  /\ pc = "accept"
  /\ \/ CanSucceed /\ Goto("names") /\ UNCHANGED <<fd, sockErr>>
     \/ CloseFd /\ sockErr' = TRUE /\ Goto("close")
  /\ UNCHANGED <<fpUser, conError, socketFailed, world>>

ReceiveName ==
  /\ pc = "names" /\ CanSucceed /\ Goto("name")
  /\ UNCHANGED <<fd, sockErr, fpUser, conError, socketFailed, world>>

(* The panel's marker, or no name at all: then sock_err stays as it was.   *)
EndOfNames ==
  /\ pc = "names" /\ Goto("end")
  /\ \/ CanSucceed /\ UNCHANGED fd
     \/ CloseFd
  /\ UNCHANGED <<sockErr, fpUser, conError, socketFailed, world>>

(* "Event" is acknowledged and the next name follows; the file of another  *)
(* name is created and the name acknowledged.                              *)
AcknowledgeName ==
  /\ pc = "name"
  /\ \/ CanSucceed /\ Goto("names") /\ UNCHANGED <<fd, sockErr>>
     \/ CanSucceed /\ Goto("transfer") /\ sockErr' = FALSE /\ UNCHANGED fd
     \/ CloseFd /\ sockErr' = TRUE /\ Goto("end")
  /\ UNCHANGED <<fpUser, conError, socketFailed, world>>

Transfer ==
  /\ pc = "transfer"
  /\ \/ CanSucceed /\ Goto("receipt") /\ UNCHANGED <<fd, sockErr>>
     \/ CloseFd /\ sockErr' = TRUE /\ Goto("end")
  /\ UNCHANGED <<fpUser, conError, socketFailed, world>>

AcknowledgeFile ==
  /\ pc = "receipt"
  /\ \/ CanSucceed /\ Goto("names") /\ UNCHANGED fd
     \/ CloseFd /\ Goto("end")
  /\ UNCHANGED <<sockErr, fpUser, conError, socketFailed, world>>

EndOfTreatment ==
  /\ pc = "end" /\ Goto(IF sockErr THEN "close" ELSE "inner")
  /\ UNCHANGED <<fd, sockErr, fpUser, conError, socketFailed, world>>

(* Whoever leaves the inner loop closes the socket once more.              *)
FinalClose == CloseFd
CloseAfterLoop ==
  /\ pc = "close" /\ FinalClose /\ Goto("outer")
  /\ UNCHANGED <<sockErr, fpUser, conError, socketFailed, world>>
-----------------------------------------------------------------------------
(* Another thread opens a socket or a file, and closes it.                 *)
OtherThread ==
  /\ \/ fd = "closed" /\ fd' = "foreign"
     \/ fd = "foreign" /\ fd' = "closed"
  /\ UNCHANGED <<pc, sockErr, fpUser, conError, socketFailed, world>>

RoleChange == active' = ~active /\ UNCHANGED <<thread, run, reachable>>
PanelChange == reachable' = ~reachable /\ UNCHANGED <<thread, run, active>>
StopDevice == run /\ run' = FALSE /\ UNCHANGED <<thread, active, reachable>>

Thread ==
  \/ OuterTest \/ AwaitRole \/ CreateSocket \/ SocketFails \/ Connect \/ ConnectFails \/ Wait
  \/ InnerTest \/ CheckRole \/ Handshake \/ HandshakeFails
  \/ OpenUserFile \/ SendUser \/ SendUserMarker
  \/ AcceptLogFile \/ ReceiveName \/ EndOfNames \/ AcknowledgeName \/ Transfer \/ AcknowledgeFile
  \/ EndOfTreatment \/ CloseAfterLoop

Next == Thread \/ OtherThread \/ RoleChange \/ PanelChange \/ StopDevice

(* The thread is scheduled and every receive ends, by its timeout if need  *)
(* be.  A panel that can be reached is reached after enough attempts, and  *)
(* it does not send names for ever.                                        *)
Fairness == WF_vars(Thread) /\ SF_vars(Connect) /\ SF_vars(EndOfNames)

Spec == Init /\ [][Next]_vars
FairSpec == Spec /\ Fairness
-----------------------------------------------------------------------------
(* The thread never connects again with the socket or the user file of an  *)
(* earlier connection still open: a panel that comes and goes for months   *)
(* does not use up the descriptors of the driver, whichever of the two     *)
(* dozen ways out of a connection it takes.                                *)
NothingLeaks == pc \in Apart => fd # "open" /\ fpUser = "closed"

(* What must not happen for the next two: that socket() fails, after which *)
(* the thread gives up, or that the thread goes on in the inner loop with  *)
(* the number of a socket it has closed and another thread has been given  *)
(* the same number.  (That another thread has it until the thread creates  *)
(* its next socket does not matter.)                                       *)
Undisturbed == ~socketFailed /\ (fd = "foreign" => pc \in Apart \cup {"close"})

(* "Always ready and trying to connect": a panel that is there to stay is  *)
(* connected, and shown to be, again and again, whatever failed before.    *)
PanelComesBack ==
  (<>[](run /\ active /\ reachable) /\ []Undisturbed) =>
    []<>(conError = "clear" /\ fd = "open")

(* A panel that has gone away is in the end shown to be away, and not      *)
(* taken for connected by what a broken connection leaves behind.          *)
AwayIsShown ==
  (<>[](run /\ active /\ ~reachable) /\ []Undisturbed) => <>[](conError = "set")

(* The thread of a stopped device ends, so that stop() can join it, if the *)
(* server is active: a passive one waits on.  No failure and no number in  *)
(* other hands keeps it.                                                   *)
ThreadEnds == <>[](~run /\ active) => <>(pc = "done")
=============================================================================
