-------------------------- MODULE DeviceLifecycle --------------------------
(***************************************************************************)
(* The life of the devices (RAMS7200MS) and of their threads.              *)
(*                                                                         *)
(* The main thread of the driver adds and removes addresses                *)
(* (RAMS7200HWMapper), starts and stops the service (RAMS7200HWService).   *)
(* handleNewMS gives a device a PLC thread and, when it has a touch panel, *)
(* a panel thread; they run until they see the device's _run cleared, and  *)
(* sleep on its condition variable in between.                             *)
(*                                                                         *)
(* A device that is removed and added again is a new object: instances are *)
(* pairs of a device and a generation.  Threads keep a reference to their  *)
(* instance, and nothing joins them before it is erased: a read of an      *)
(* erased instance's _run may return either value.                         *)
(***************************************************************************)
EXTENDS Integers, Sequences, FiniteSets

CONSTANTS
  Devices,        \* the ip combos
  WithPanel,      \* those with a touch panel address
  Vars,           \* variable names
  MaxAdds,        \* bound: addDpPa calls
  MaxToggles,     \* bound: changes of the server's redundancy role
  AddPhases,      \* when the framework calls addDpPa (not under src/)
  RemovePhases    \* when it calls clrDpPa

Phases == {"boot", "initialized", "starting", "started", "stopping", "stopped"}

ASSUME LifecycleAssumption ==
  /\ Devices # {} /\ IsFiniteSet(Devices) /\ WithPanel \subseteq Devices /\ Vars # {}
  /\ MaxAdds \in Nat \ {0} /\ MaxToggles \in Nat
  /\ AddPhases \subseteq {"boot", "initialized", "started"}
  /\ RemovePhases \subseteq {"boot", "initialized", "started"}

Instances == Devices \X (1..MaxAdds)
Dev(i) == i[1]

VARIABLES
  phase,        \* how far the main thread has got
  mpc,          \* what it is doing in that phase
  cur, var,     \* the instance and variable it is doing it to
  todo,         \* devices that start() or stop() has still to visit
  mss,          \* RAMS7200MSs: the generation of each device, 0 = not mapped
  adds, toggles,
  alive,        \* instances that have not been erased
  vars,         \* the variables of each instance
  run,          \* _run of each instance
  lock,         \* holder of each _threadMutex, 0 = free
  driverRun,    \* _driverRun
  active,       \* ~RAMS7200Resources::getDisableCommands()
  threads       \* _plcThreads and _panelThreads

mainVars == <<phase, mpc, cur, var, todo, mss, adds, alive, vars, driverRun>>
allVars == <<mainVars, toggles, run, lock, active, threads>>

Sleeping == {"sleep", "blocking", "waiting", "done"}
Thread ==
  [kind : {"plc"}, ms : Instances, after : {"test", "retry"},
   pc : {"connect", "test", "ensure", "retry", "work"} \cup Sleeping]
  \cup
  [kind : {"panel"}, ms : Instances, after : {"outer", "passive"},
   pc : {"outer", "passive", "session", "inner"} \cup Sleeping]

TypeOK ==
  /\ phase \in Phases
  /\ mpc \in {"idle", "setRun", "spawn", "addVar", "rmLock", "rmNotify", "rmErase",
              "stopRun", "stopNotify", "join"}
  /\ cur \in Instances /\ var \in Vars /\ todo \subseteq Devices
  /\ mss \in [Devices -> 0..MaxAdds]
  /\ adds \in 0..MaxAdds /\ toggles \in 0..MaxToggles
  /\ alive \subseteq Instances
  /\ vars \in [Instances -> SUBSET Vars]
  /\ run \in [Instances -> BOOLEAN]
  /\ threads \in Seq(Thread)
  /\ lock \in [Instances -> 0..Len(threads)]
  /\ driverRun \in BOOLEAN /\ active \in BOOLEAN

Threads == DOMAIN threads
Of(d) == <<d, mss[d]>>
Mapped == {d \in Devices : mss[d] # 0}
CallbackSet == phase # "boot"          \* _newMSCB

Init ==
  /\ phase = "boot" /\ mpc = "idle"
  /\ cur = (CHOOSE i \in Instances : TRUE) /\ var = (CHOOSE v \in Vars : TRUE)
  /\ todo = {}
  /\ mss = [d \in Devices |-> 0]
  /\ adds = 0 /\ toggles = 0
  /\ alive = {}
  /\ vars = [i \in Instances |-> {}]
  /\ run = [i \in Instances |-> FALSE]
  /\ lock = [i \in Instances |-> 0]
  /\ driverRun = TRUE
  /\ active \in BOOLEAN
  /\ threads = <<>>
-----------------------------------------------------------------------------
(* The framework and the service: initialize, start.                       *)

Initialize ==
  /\ phase = "boot" /\ mpc = "idle"
  /\ phase' = "initialized"
  /\ UNCHANGED <<mpc, cur, var, todo, mss, adds, toggles, alive, vars, run, lock,
                 driverRun, active, threads>>

Start ==
  /\ phase = "initialized" /\ mpc = "idle"
  /\ phase' = "starting"
  /\ todo' = Mapped
  /\ UNCHANGED <<mpc, cur, var, mss, adds, toggles, alive, vars, run, lock,
                 driverRun, active, threads>>

StartNext ==
  /\ phase = "starting" /\ mpc = "idle"
  /\ \E d \in todo :
       /\ todo' = todo \ {d}
       /\ cur' = Of(d)
  /\ mpc' = "setRun"
  /\ UNCHANGED <<phase, var, mss, adds, toggles, alive, vars, run, lock, driverRun,
                 active, threads>>

StartEnd ==
  /\ phase = "starting" /\ mpc = "idle" /\ todo = {}
  /\ phase' = "started"
  /\ UNCHANGED <<mpc, cur, var, todo, mss, adds, toggles, alive, vars, run, lock,
                 driverRun, active, threads>>

(* handleNewMS: ms._run = true, then the threads.                          *)
PlcThread(i) == [kind |-> "plc", ms |-> i, pc |-> "connect", after |-> "test"]
PanelThread(i) == [kind |-> "panel", ms |-> i, pc |-> "outer", after |-> "outer"]
NewThreads(i) == IF Dev(i) \in WithPanel THEN <<PlcThread(i), PanelThread(i)>>
                                         ELSE <<PlcThread(i)>>

HandleStepsSwapped == <<"spawn", "setRun">>
HandleSteps == <<"setRun", "spawn">>
NextStep(step) ==
  IF step = HandleSteps[1] THEN HandleSteps[2]
  ELSE IF phase = "starting" THEN "idle" ELSE "addVar"

SetRun ==
  /\ mpc = "setRun"
  /\ run' = [run EXCEPT ![cur] = TRUE]
  /\ mpc' = NextStep("setRun")
  /\ UNCHANGED <<phase, cur, var, todo, mss, adds, toggles, alive, vars, lock,
                 driverRun, active, threads>>

Spawn ==
  /\ mpc = "spawn"
  /\ threads' = threads \o NewThreads(cur)
  /\ mpc' = NextStep("spawn")
  /\ UNCHANGED <<phase, cur, var, todo, mss, adds, toggles, alive, vars, run, lock,
                 driverRun, active>>
-----------------------------------------------------------------------------
(* addDpPa/addAddress: a new device is put into the map; a device that is  *)
(* not running is handed to the callback, when there is one.               *)
AddAddress(d, v) ==
  /\ phase \in AddPhases /\ mpc = "idle" /\ adds < MaxAdds
  /\ adds' = adds + 1
  /\ LET i == IF mss[d] = 0 THEN <<d, adds + 1>> ELSE Of(d) IN
       /\ mss' = [mss EXCEPT ![d] = i[2]]
       /\ alive' = alive \cup {i}
       /\ cur' = i
       /\ mpc' = IF CallbackSet /\ ~run[i] THEN HandleSteps[1] ELSE "addVar"
  /\ var' = v
  /\ UNCHANGED <<phase, todo, toggles, vars, run, lock, driverRun, active, threads>>

(* addVar; or std::stoi throws for a poll time that is not a number, after *)
(* the device has been mapped and started: it stays without the variable.  *)
AddVar ==
  /\ mpc = "addVar"
  /\ \/ vars' = [vars EXCEPT ![cur] = @ \cup {var}]
     \/ UNCHANGED vars
  /\ mpc' = "idle"
  /\ UNCHANGED <<phase, cur, var, todo, mss, adds, toggles, alive, run, lock,
                 driverRun, active, threads>>

(* clrDpPa/removeAddress.  The variable may be gone already, with another  *)
(* of its addresses, or never have been there: the device is asked to stop *)
(* all the same.                                                           *)
RemoveAddress(d, v) ==
  /\ phase \in RemovePhases /\ mpc = "idle"
  /\ mss[d] # 0
  /\ cur' = Of(d) /\ var' = v
  /\ mpc' = "rmLock"
  /\ UNCHANGED <<phase, todo, mss, adds, toggles, alive, vars, run, lock, driverRun,
                 active, threads>>

(* { lock_guard lk(_threadMutex); _run.store(false); }                     *)
MutexFreeForgotten == TRUE
MutexFreeToClear == lock[cur] = 0

RemoveClearRun ==
  /\ mpc = "rmLock" /\ MutexFreeToClear
  /\ run' = [run EXCEPT ![cur] = FALSE]
  /\ mpc' = "rmNotify"
  /\ UNCHANGED <<phase, cur, var, todo, mss, adds, toggles, alive, vars, lock,
                 driverRun, active, threads>>

(* _threadCv.notify_all(): whoever waits tests the predicate again.        *)
Notified(i) ==
  [t \in Threads |-> IF threads[t].ms = i /\ threads[t].pc = "waiting"
                       THEN [threads[t] EXCEPT !.pc = "sleep"] ELSE threads[t]]

RemoveVar == vars' = [vars EXCEPT ![cur] = @ \ {var}]

RemoveNotify ==
  /\ mpc = "rmNotify"
  /\ threads' = Notified(cur)
  /\ RemoveVar
  /\ mpc' = "rmErase"
  /\ UNCHANGED <<phase, cur, var, todo, mss, adds, toggles, alive, run, lock,
                 driverRun, active>>

NeverEmpty == FALSE
IsEmpty == vars[cur] = {}

RemoveErase ==
  /\ mpc = "rmErase"
  /\ IF IsEmpty
       THEN alive' = alive \ {cur} /\ mss' = [mss EXCEPT ![Dev(cur)] = 0]
       ELSE UNCHANGED <<alive, mss>>
  /\ mpc' = "idle"
  /\ UNCHANGED <<phase, cur, var, todo, adds, toggles, vars, run, lock, driverRun,
                 active, threads>>
-----------------------------------------------------------------------------
(* stop(): each mapped device in turn, then the joins.                     *)
VisitedIfPolled == {d \in Mapped : vars[Of(d)] # {}}
Visited == Mapped

Stop ==
  /\ phase = "started" /\ mpc = "idle"
  /\ phase' = "stopping"
  /\ driverRun' = FALSE
  /\ todo' = Visited
  /\ UNCHANGED <<mpc, cur, var, mss, adds, toggles, alive, vars, run, lock, active,
                 threads>>

StopNext ==
  /\ phase = "stopping" /\ mpc = "idle"
  /\ \/ \E d \in todo : todo' = todo \ {d} /\ cur' = Of(d) /\ mpc' = "stopRun"
     \/ todo = {} /\ mpc' = "join" /\ UNCHANGED <<todo, cur>>
  /\ UNCHANGED <<phase, var, mss, adds, toggles, alive, vars, run, lock, driverRun,
                 active, threads>>

(* The mutex is not taken here.                                            *)
StopClearRun ==
  /\ mpc = "stopRun"
  /\ run' = [run EXCEPT ![cur] = FALSE]
  /\ mpc' = "stopNotify"
  /\ UNCHANGED <<phase, cur, var, todo, mss, adds, toggles, alive, vars, lock,
                 driverRun, active, threads>>

StopNotify ==
  /\ mpc = "stopNotify"
  /\ threads' = Notified(cur)
  /\ mpc' = "idle"
  /\ UNCHANGED <<phase, cur, var, todo, mss, adds, toggles, alive, vars, run, lock,
                 driverRun, active>>

StopJoin ==
  /\ mpc = "join"
  /\ \A t \in Threads : threads[t].pc = "done"
  /\ phase' = "stopped" /\ mpc' = "idle"
  /\ UNCHANGED <<cur, var, todo, mss, adds, toggles, alive, vars, run, lock,
                 driverRun, active, threads>>

MainOp == Initialize \/ Start \/ Stop \/ \E d \in Devices, v \in Vars :
                                            AddAddress(d, v) \/ RemoveAddress(d, v)
MainStep == \/ StartNext \/ StartEnd \/ SetRun \/ Spawn \/ AddVar
            \/ RemoveClearRun \/ RemoveNotify \/ RemoveErase
            \/ StopNext \/ StopClearRun \/ StopNotify \/ StopJoin
-----------------------------------------------------------------------------
(* The threads.  ReadRun(t): what t may see when it reads ms._run.         *)
ReadRun(t) == IF threads[t].ms \in alive THEN {run[threads[t].ms]} ELSE BOOLEAN

At(t, where) == threads[t].pc = where

Goto(t, where) ==
  /\ threads' = [threads EXCEPT ![t].pc = where]
  /\ UNCHANGED <<mainVars, toggles, run, lock, active>>

SleepThen(t, where) ==
  /\ threads' = [threads EXCEPT ![t].pc = "sleep", ![t].after = where]
  /\ UNCHANGED <<mainVars, toggles, run, lock, active>>

(* aFacade.Connect(), then while(_driverRun && ms._run).                   *)
PlcConnect(t) == At(t, "connect") /\ Goto(t, "test")

PlcTest(t) ==
  /\ At(t, "test")
  /\ \E r \in ReadRun(t) : Goto(t, IF driverRun /\ r THEN "ensure" ELSE "done")

(* EnsureConnection: connected, or another attempt after a sleep, as long  *)
(* as ms._run; the driver-wide flag is not looked at.                      *)
PlcEnsure(t) == At(t, "ensure") /\ (Goto(t, "work") \/ SleepThen(t, "retry"))

PlcRetryForever(t) == At(t, "retry") /\ Goto(t, "ensure")
PlcRetry(t) ==
  /\ At(t, "retry")
  /\ \E r \in ReadRun(t) : Goto(t, IF r THEN "ensure" ELSE "work")

(* Writes and polls when active; sleeps what is left of the second.        *)
PlcWork(t) == At(t, "work") /\ (SleepThen(t, "test") \/ (active /\ Goto(t, "test")))

(* FileSharingTask: its loop, the wait while passive, and the session.     *)
PanelOuterForever(t) == At(t, "outer") /\ Goto(t, "passive")
PanelOuter(t) ==
  /\ At(t, "outer")
  /\ \E r \in ReadRun(t) : Goto(t, IF r THEN "passive" ELSE "done")

PanelPassive(t) ==
  /\ At(t, "passive")
  /\ IF active THEN Goto(t, "session") ELSE SleepThen(t, "passive")

PanelSession(t) ==
  /\ At(t, "session")
  /\ \/ Goto(t, "done")              \* socket() failed
     \/ SleepThen(t, "outer")        \* could not connect
     \/ Goto(t, "inner")

(* while(ms._run): every receive has a timeout, so it always comes back.   *)
PanelInner(t) ==
  /\ At(t, "inner")
  /\ \E r \in ReadRun(t) : IF r THEN Goto(t, "inner") \/ Goto(t, "outer")
                                ELSE Goto(t, "outer")

(* sleep_for: wait_for under the mutex, with the predicate !_run.  The     *)
(* mutex of an erased instance excludes nobody.                            *)
MutexFree(t) == lock[threads[t].ms] = 0 \/ threads[t].ms \notin alive

SleepTest(t) ==
  /\ At(t, "sleep") /\ MutexFree(t)
  /\ \E r \in ReadRun(t) :
       IF r THEN /\ lock' = [lock EXCEPT ![threads[t].ms] = t]
                 /\ threads' = [threads EXCEPT ![t].pc = "blocking"]
            ELSE /\ threads' = [threads EXCEPT ![t].pc = threads[t].after]
                 /\ lock' = lock
  /\ UNCHANGED <<mainVars, toggles, run, active>>

SleepBlock(t) ==
  /\ At(t, "blocking")
  /\ lock' = [lock EXCEPT ![threads[t].ms] = 0]
  /\ threads' = [threads EXCEPT ![t].pc = "waiting"]
  /\ UNCHANGED <<mainVars, toggles, run, active>>

SleepTimeout(t) ==
  /\ At(t, "waiting") /\ MutexFree(t)
  /\ threads' = [threads EXCEPT ![t].pc = threads[t].after]
  /\ UNCHANGED <<mainVars, toggles, run, lock, active>>

ThreadStep(t) ==
  \/ PlcConnect(t) \/ PlcTest(t) \/ PlcEnsure(t) \/ PlcRetry(t) \/ PlcWork(t)
  \/ PanelOuter(t) \/ PanelPassive(t) \/ PanelSession(t) \/ PanelInner(t)
  \/ SleepTest(t) \/ SleepBlock(t) \/ SleepTimeout(t)

(* The redundancy role of the server changes (WinCC OA, not under src/).   *)
ToggleRole ==
  /\ toggles < MaxToggles
  /\ toggles' = toggles + 1
  /\ active' = ~active
  /\ UNCHANGED <<mainVars, run, lock, threads>>

Next == MainOp \/ MainStep \/ ToggleRole \/ \E t \in Threads : ThreadStep(t)

(* An operation that the main thread has begun is carried on, and every    *)
(* thread is scheduled; a sleep ends, at the latest by its timeout.        *)
Fairness == WF_allVars(MainStep) /\ \A t \in 1..(2 * (MaxAdds + Cardinality(Devices))) :
                                       WF_allVars(t \in Threads /\ ThreadStep(t))
Spec == Init /\ [][Next]_allVars
FairSpec == Spec /\ Fairness
-----------------------------------------------------------------------------
Serves(t, i) == threads[t].kind = "plc" /\ threads[t].ms = i /\ threads[t].pc # "done"

(* A device whose _run is set is served: from the moment its threads are   *)
(* spawned there is a PLC thread that has not ended.  addAddress relies on *)
(* this: it starts nothing when _run is already set.                       *)
RunningIsServed ==
  \A i \in alive :
    run[i] /\ driverRun /\ ~(cur = i /\ mpc = "spawn") => \E t \in Threads : Serves(t, i)

(* removeAddress never leaves a thread asleep for its full five or ten     *)
(* seconds: once the flag is cleared and the device notified, no thread of *)
(* the device is in a wait that began before.                              *)
NoLostWakeup ==
  \A t \in Threads :
    LET i == threads[t].ms IN
    threads[t].pc = "waiting" /\ i \in alive /\ driverRun =>
      run[i] \/ (cur = i /\ mpc = "rmNotify")

(* The map, the instances and their variables agree between operations: an *)
(* instance outside the map has been erased, and a device that a removal   *)
(* has stopped is still mapped only if it has variables left.  (A device   *)
(* whose only addition has failed has none, but it runs.)                  *)
MapAgrees ==
  mpc = "idle" =>
    /\ alive = {Of(d) : d \in Mapped}
    /\ phase = "started" => \A d \in Mapped : run[Of(d)] \/ vars[Of(d)] # {}

(* Before stop() joins anything it has asked every device to stop: none    *)
(* that exists has its _run set, and the driver-wide flag is cleared,      *)
(* whatever was added and removed before, even before the service was      *)
(* started, and whatever additions have failed.  A device passed over      *)
(* would keep its threads in their loops, and stop() in the join.          *)
AskedBeforeJoin ==
  mpc = "join" \/ phase = "stopped" => ~driverRun /\ \A i \in alive : ~run[i]

(* No thread of an erased instance is left over.                           *)
NoOrphans == \A t \in Threads : threads[t].ms \in alive \/ threads[t].pc = "done"

(* stop() returns, if the server is active for long enough and no thread   *)
(* outlived its device.                                                    *)
StopReturnsIfActive ==
  (<>[]active /\ []NoOrphans) => (phase = "stopping" ~> phase = "stopped")

(* Threads of a device whose _run was cleared end, unless it is set again. *)
ClearedThreadsEnd ==
  (<>[]active /\ []NoOrphans) =>
    \A i \in Instances :
      (i \in alive /\ mpc = "idle" /\ phase = "started" /\ ~run[i]) ~>
        (run[i] \/ \A t \in Threads : threads[t].ms = i => threads[t].pc = "done")

(* "use this function to stop your hardware activity": stop() returns.     *)
StopReturns == phase = "stopping" ~> phase = "stopped"
=============================================================================
