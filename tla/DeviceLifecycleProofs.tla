----------------------- MODULE DeviceLifecycleProofs -----------------------
(* The safety invariants of the device life cycle, for any devices, any    *)
(* number of additions and removals, and any phases in which they happen.  *)
EXTENDS DeviceLifecycle, TLAPS

AddSteps == {"setRun", "spawn", "addVar"}
RemoveSteps == {"rmLock", "rmNotify", "rmErase"}
StopSteps == {"stopRun", "stopNotify", "join"}

(* What the main thread can be doing in each phase.                        *)
MainInv ==
  /\ driverRun = (phase \notin {"stopping", "stopped"})
  /\ phase = "starting" => mpc \in {"idle", "setRun", "spawn"}
  /\ phase = "stopping" => mpc \in {"idle"} \cup StopSteps
  /\ phase = "stopped" => mpc = "idle"
  /\ phase \in {"boot", "initialized", "started"} => mpc \in {"idle"} \cup AddSteps \cup RemoveSteps
  /\ phase \in {"starting", "stopping"} => todo \subseteq Mapped

(* Instances in use are exactly the mapped ones, and a generation that has *)
(* not been created yet belongs to nobody.                                 *)
InstanceInv ==
  /\ \A i \in Instances : i \in alive <=> mss[Dev(i)] = i[2]
  /\ \A i \in Instances : i[2] > adds => i \notin alive /\ ~run[i]
  /\ \A t \in Threads : threads[t].ms[2] <= adds
  /\ mpc \in AddSteps \cup RemoveSteps => cur \in alive

(* A thread about to block holds the mutex of its device and has seen _run *)
(* set, which only removeAddress, with the mutex, or stop() can change.    *)
SleepInv ==
  \A t \in Threads : threads[t].pc = "blocking" /\ threads[t].ms \in alive =>
    /\ lock[threads[t].ms] = t
    /\ driverRun => run[threads[t].ms]

IInv == /\ TypeOK /\ MainInv /\ InstanceInv /\ SleepInv
        /\ RunningIsServed /\ NoLostWakeup

USE DEF AddSteps, RemoveSteps, StopSteps

LEMMA InitInv == Init => IInv
<1> SUFFICES ASSUME Init PROVE IInv
  OBVIOUS
<1>1. Instances # {} /\ \A i \in Instances : i[2] \in Nat /\ i[2] > 0 /\ Dev(i) \in Devices
  <2>1. PICK d : d \in Devices
    BY LifecycleAssumption
  <2>2. <<d, 1>> \in Instances
    BY <2>1, LifecycleAssumption DEF Instances
  <2>3. \A i \in Instances : i[2] \in Nat /\ i[2] > 0 /\ Dev(i) \in Devices
    BY LifecycleAssumption DEF Instances, Dev
  <2> QED BY <2>2, <2>3
<1>2. TypeOK
  BY <1>1, LifecycleAssumption DEF Init, TypeOK, Phases
<1>3. MainInv
  BY DEF Init, MainInv
<1>4. InstanceInv
  BY <1>1 DEF Init, InstanceInv, Threads
<1>5. SleepInv /\ RunningIsServed /\ NoLostWakeup
  BY DEF Init, SleepInv, RunningIsServed, NoLostWakeup, Threads
<1> QED BY <1>2, <1>3, <1>4, <1>5 DEF IInv

(* The instance of a mapped device is one of the instances.                *)
LEMMA OfMapped ==
  ASSUME TypeOK, NEW d \in Mapped
  PROVE  /\ Of(d) \in Instances /\ Dev(Of(d)) = d /\ Of(d)[2] = mss[d]
         /\ d \in Devices
BY LifecycleAssumption DEF TypeOK, Mapped, Of, Instances, Dev

(* The service-level invariants do not depend on what the main thread is   *)
(* about to do, except for the two steps they name.                        *)
LEMMA QuietStep ==
  ASSUME IInv, UNCHANGED <<run, lock, alive, threads>>, driverRun' => driverRun,
         mpc \notin {"spawn", "rmNotify"} \/ UNCHANGED <<cur, mpc>>
  PROVE  SleepInv' /\ RunningIsServed' /\ NoLostWakeup'
BY DEF IInv, SleepInv, RunningIsServed, NoLostWakeup, Threads, Serves

LEMMA InitializeInv == ASSUME IInv, Initialize PROVE IInv'
<1> USE DEF Initialize
<1>1. TypeOK'
  BY DEF IInv, TypeOK, Phases
<1>2. MainInv' /\ InstanceInv'
  BY DEF IInv, MainInv, InstanceInv, Mapped, Threads
<1>3. SleepInv' /\ RunningIsServed' /\ NoLostWakeup'
  BY QuietStep
<1> QED BY <1>1, <1>2, <1>3 DEF IInv

LEMMA StartInv == ASSUME IInv, Start PROVE IInv'
<1> USE DEF Start
<1>1. TypeOK'
  BY DEF IInv, TypeOK, Phases, Mapped
<1>2. MainInv' /\ InstanceInv'
  BY DEF IInv, MainInv, InstanceInv, Mapped, Threads
<1>3. SleepInv' /\ RunningIsServed' /\ NoLostWakeup'
  BY QuietStep
<1> QED BY <1>1, <1>2, <1>3 DEF IInv

LEMMA StartNextInv == ASSUME IInv, StartNext PROVE IInv'
<1>1. PICK d \in todo : todo' = todo \ {d} /\ cur' = Of(d)
  BY DEF StartNext
<1>2. d \in Mapped /\ TypeOK
  BY DEF StartNext, IInv, MainInv
<1>3. Of(d) \in Instances /\ Of(d) \in alive
  BY <1>2, OfMapped DEF IInv, InstanceInv
<1>4. TypeOK'
  BY <1>1, <1>3 DEF StartNext, IInv, TypeOK, Mapped
<1>5. MainInv' /\ InstanceInv'
  BY <1>1, <1>3 DEF StartNext, IInv, MainInv, InstanceInv, Mapped, Threads
<1>6. SleepInv' /\ RunningIsServed' /\ NoLostWakeup'
  BY QuietStep DEF StartNext
<1> QED BY <1>4, <1>5, <1>6 DEF IInv

LEMMA StartEndInv == ASSUME IInv, StartEnd PROVE IInv'
<1> USE DEF StartEnd
<1>1. TypeOK'
  BY DEF IInv, TypeOK, Phases, Mapped
<1>2. MainInv' /\ InstanceInv'
  BY DEF IInv, MainInv, InstanceInv, Mapped, Threads
<1>3. SleepInv' /\ RunningIsServed' /\ NoLostWakeup'
  BY QuietStep
<1> QED BY <1>1, <1>2, <1>3 DEF IInv

LEMMA SetRunInv == ASSUME IInv, SetRun PROVE IInv'
<1>1. mpc' = "spawn" /\ cur \in alive /\ cur \in Instances
  BY DEF SetRun, NextStep, HandleSteps, IInv, InstanceInv, TypeOK
<1>2. TypeOK'
  BY <1>1 DEF SetRun, IInv, TypeOK
<1>3. MainInv' /\ InstanceInv'
  BY <1>1 DEF SetRun, IInv, MainInv, InstanceInv, Mapped, Threads, TypeOK
<1>4. SleepInv' /\ RunningIsServed' /\ NoLostWakeup'
  BY <1>1 DEF SetRun, IInv, SleepInv, RunningIsServed, NoLostWakeup,
     Threads, Serves, TypeOK
<1> QED BY <1>2, <1>3, <1>4 DEF IInv

LEMMA AddVarInv == ASSUME IInv, AddVar PROVE IInv'
<1> USE DEF AddVar
<1>1. TypeOK'
  BY DEF IInv, TypeOK
<1>2. MainInv' /\ InstanceInv'
  BY DEF IInv, MainInv, InstanceInv, Mapped, Threads
<1>3. SleepInv' /\ RunningIsServed' /\ NoLostWakeup'
  BY QuietStep
<1> QED BY <1>1, <1>2, <1>3 DEF IInv

(* The threads that a device gets are appended to those there are, and the *)
(* first of them is a PLC thread.                                          *)
LEMMA NewThreadsFacts ==
  ASSUME TypeOK, NEW i \in Instances, threads' = threads \o NewThreads(i)
  PROVE  /\ threads' \in Seq(Thread)
         /\ Len(threads') >= Len(threads)
         /\ Threads \subseteq Threads'
         /\ \A t \in Threads : threads'[t] = threads[t]
         /\ \A t \in Threads' \ Threads : /\ threads'[t].ms = i
                                          /\ threads'[t].pc \in {"connect", "outer"}
         /\ \E t \in Threads' : /\ threads'[t].kind = "plc" /\ threads'[t].ms = i
                                /\ threads'[t].pc = "connect"
<1>1. PlcThread(i) \in Thread /\ PanelThread(i) \in Thread
  BY DEF Thread, PlcThread, PanelThread, Sleeping
<1>2. threads \in Seq(Thread)
  BY DEF TypeOK
<1>3. CASE Dev(i) \in WithPanel
  <2>1. threads' = threads \o <<PlcThread(i), PanelThread(i)>>
    BY <1>3 DEF NewThreads
  <2>2. /\ threads' \in Seq(Thread) /\ Len(threads') = Len(threads) + 2
        /\ \A t \in 1..Len(threads) : threads'[t] = threads[t]
        /\ threads'[Len(threads) + 1] = PlcThread(i)
        /\ threads'[Len(threads) + 2] = PanelThread(i)
    BY <1>1, <1>2, <2>1
  <2>3. /\ Threads = 1..Len(threads) /\ Threads' = 1..(Len(threads) + 2) /\ Len(threads) \in Nat
    BY <1>2, <2>2 DEF Threads
  <2>4. \A t \in Threads' \ Threads : t = Len(threads) + 1 \/ t = Len(threads) + 2
    BY <2>3
  <2>5. Len(threads) + 1 \in Threads' /\ Threads \subseteq Threads'
    BY <2>3
  <2>6. /\ PlcThread(i).kind = "plc" /\ PlcThread(i).ms = i /\ PlcThread(i).pc = "connect"
        /\ PanelThread(i).ms = i /\ PanelThread(i).pc = "outer"
    BY DEF PlcThread, PanelThread
  <2> HIDE DEF Threads
  <2>7. \A t \in Threads' \ Threads : /\ threads'[t].ms = i
                                      /\ threads'[t].pc \in {"connect", "outer"}
    BY <2>2, <2>4, <2>6
  <2> QED BY <2>2, <2>3, <2>5, <2>6, <2>7
<1>4. CASE Dev(i) \notin WithPanel
  <2>1. threads' = threads \o <<PlcThread(i)>>
    BY <1>4 DEF NewThreads
  <2>2. /\ threads' \in Seq(Thread) /\ Len(threads') = Len(threads) + 1
        /\ \A t \in 1..Len(threads) : threads'[t] = threads[t]
        /\ threads'[Len(threads) + 1] = PlcThread(i)
    BY <1>1, <1>2, <2>1
  <2>3. /\ Threads = 1..Len(threads) /\ Threads' = 1..(Len(threads) + 1) /\ Len(threads) \in Nat
    BY <1>2, <2>2 DEF Threads
  <2> QED BY <2>2, <2>3 DEF PlcThread
<1> QED BY <1>3, <1>4

LEMMA SpawnInv == ASSUME IInv, Spawn PROVE IInv'
<1>1. /\ cur \in Instances /\ cur \in alive /\ threads' = threads \o NewThreads(cur)
      /\ mpc = "spawn" /\ mpc' \in {"idle", "addVar"} /\ (phase = "starting" <=> mpc' = "idle")
      /\ phase # "stopped" /\ TypeOK /\ cur[2] <= adds
  BY DEF Spawn, NextStep, HandleSteps, IInv, TypeOK, InstanceInv, MainInv, Instances
<1>2. /\ threads' \in Seq(Thread) /\ Len(threads') >= Len(threads)
      /\ Threads \subseteq Threads' /\ \A t \in Threads : threads'[t] = threads[t]
      /\ \A t \in Threads' \ Threads : /\ threads'[t].ms = cur
                                       /\ threads'[t].pc \in {"connect", "outer"}
      /\ \E t \in Threads' : /\ threads'[t].kind = "plc" /\ threads'[t].ms = cur
                             /\ threads'[t].pc = "connect"
  BY <1>1, NewThreadsFacts
<1>3. TypeOK'
  <2>1. Len(threads) \in Nat /\ Len(threads') \in Nat
    BY <1>1, <1>2 DEF TypeOK
  <2>2. lock' \in [Instances -> 0..Len(threads')]
    BY <1>1, <1>2, <2>1 DEF Spawn, TypeOK
  <2> QED BY <1>1, <1>2, <2>2 DEF Spawn, TypeOK
<1>4. MainInv'
  BY <1>1 DEF Spawn, IInv, MainInv, Mapped
<1>5. InstanceInv'
  BY <1>1, <1>2 DEF Spawn, IInv, InstanceInv
<1>6. SleepInv'
  <2> SUFFICES ASSUME NEW t \in Threads', threads'[t].pc = "blocking", threads'[t].ms \in alive
               PROVE  lock[threads'[t].ms] = t /\ (driverRun => run[threads'[t].ms])
    BY DEF Spawn, SleepInv
  <2>1. t \in Threads /\ threads'[t] = threads[t]
    BY <1>2
  <2> QED BY <2>1 DEF IInv, SleepInv
<1>7. RunningIsServed'
  <2> SUFFICES ASSUME NEW i \in alive, run[i], driverRun
               PROVE  \E t \in Threads' : Serves(t, i)'
    BY DEF Spawn, RunningIsServed
  <2>1. CASE i = cur
    BY <1>2, <2>1 DEF Serves
  <2>2. CASE i # cur
    <3>1. PICK t \in Threads : Serves(t, i)
      BY <2>2 DEF IInv, RunningIsServed
    <3>2. t \in Threads' /\ threads'[t] = threads[t]
      BY <1>2
    <3> QED BY <3>1, <3>2 DEF Serves
  <2> QED BY <2>1, <2>2
<1>8. NoLostWakeup'
  BY <1>1, <1>2 DEF Spawn, IInv, NoLostWakeup
<1> QED BY <1>3, <1>4, <1>5, <1>6, <1>7, <1>8 DEF IInv

LEMMA AddAddressInv ==
  ASSUME IInv, NEW d \in Devices, NEW v \in Vars, AddAddress(d, v) PROVE IInv'
<1> DEFINE i == IF mss[d] = 0 THEN <<d, adds + 1>> ELSE Of(d)
<1>1. /\ adds < MaxAdds /\ adds' = adds + 1 /\ mss' = [mss EXCEPT ![d] = i[2]]
      /\ alive' = alive \cup {i} /\ cur' = i /\ mpc = "idle" /\ mpc' \in {"setRun", "addVar"}
      /\ var' = v /\ phase \in AddPhases /\ TypeOK /\ adds \in Nat /\ MaxAdds \in Nat
      /\ UNCHANGED <<phase, todo, toggles, vars, run, lock, driverRun, active, threads>>
  BY LifecycleAssumption DEF AddAddress, HandleSteps, IInv, TypeOK
<1>2. /\ i \in Instances /\ Dev(i) = d /\ i[2] <= adds + 1 /\ i[2] \in 0..MaxAdds
      /\ mss[d] # 0 => i \in alive /\ i[2] = mss[d]
      /\ mss[d] = 0 => i[2] = adds + 1
  <2>1. CASE mss[d] = 0
    BY <1>1, <2>1 DEF Instances, Dev
  <2>2. CASE mss[d] # 0
    <3>1. d \in Mapped
      BY <2>2 DEF Mapped
    <3>2. Of(d) \in Instances /\ Dev(Of(d)) = d /\ Of(d)[2] = mss[d]
      BY <1>1, <3>1, OfMapped
    <3>3. Of(d) \in alive
      BY <3>2 DEF IInv, InstanceInv
    <3>4. mss[d] <= adds /\ mss[d] \in 0..MaxAdds
      BY <1>1, <3>2, <3>3 DEF IInv, InstanceInv, TypeOK
    <3> QED BY <1>1, <2>2, <3>2, <3>3, <3>4
  <2> QED BY <2>1, <2>2
<1> HIDE DEF i
<1>3. TypeOK'
  BY <1>1, <1>2 DEF TypeOK
<1>4. MainInv'
  BY <1>1, LifecycleAssumption DEF IInv, MainInv
<1>5. InstanceInv'
  <2>1. \A j \in Instances : j \in alive' <=> mss'[Dev(j)] = j[2]
    <3> SUFFICES ASSUME NEW j \in Instances PROVE j \in alive' <=> mss'[Dev(j)] = j[2]
      OBVIOUS
    <3>1. mss \in [Devices -> 0..MaxAdds] /\ Dev(j) \in Devices /\ j = <<Dev(j), j[2]>>
          /\ i = <<d, i[2]>> /\ j[2] \in 1..MaxAdds
      BY <1>1, <1>2 DEF TypeOK, Instances, Dev
    <3>2. j \in alive <=> mss[Dev(j)] = j[2]
      BY DEF IInv, InstanceInv
    <3>3. CASE Dev(j) # d
      BY <1>1, <1>2, <3>1, <3>2, <3>3
    <3>4. CASE Dev(j) = d
      <4>1. mss'[d] = i[2]
        BY <1>1, <3>1
      <4>2. i = j <=> i[2] = j[2]
        BY <3>1, <3>4
      <4>3. mss[d] # 0 => (j \in alive <=> j = i)
        BY <1>2, <3>2, <3>4, <4>2
      <4>4. mss[d] = 0 => j \notin alive
        BY <3>1, <3>2, <3>4
      <4> QED BY <1>1, <3>4, <4>1, <4>2, <4>3, <4>4
    <3> QED BY <3>3, <3>4
  <2>2. \A j \in Instances : j[2] > adds' => j \notin alive' /\ ~run'[j]
    <3> SUFFICES ASSUME NEW j \in Instances, j[2] > adds + 1
                 PROVE  j \notin alive' /\ ~run[j]
      BY <1>1
    <3>1. j[2] > adds /\ j # i
      BY <1>1, <1>2 DEF Instances
    <3> QED BY <1>1, <3>1 DEF IInv, InstanceInv
  <2>3. \A t \in Threads : threads[t].ms[2] <= adds + 1
    <3> SUFFICES ASSUME NEW t \in Threads PROVE threads[t].ms[2] <= adds + 1
      OBVIOUS
    <3>1. threads[t] \in Thread
      BY <1>1 DEF TypeOK, Threads
    <3>2. threads[t].ms[2] \in Nat
      BY <3>1 DEF Thread, Instances
    <3> QED BY <1>1, <3>2 DEF IInv, InstanceInv
  <2> QED BY <1>1, <2>1, <2>2, <2>3 DEF InstanceInv, Threads
<1>6. i \notin alive => ~run[i] /\ \A t \in Threads : threads[t].ms # i
  <2>1. i \notin alive => i[2] = adds + 1
    BY <1>2
  <2> QED BY <1>1, <1>2, <2>1 DEF IInv, InstanceInv
<1>7. SleepInv' /\ RunningIsServed' /\ NoLostWakeup'
  BY <1>1, <1>6 DEF IInv, SleepInv, RunningIsServed, NoLostWakeup,
     Threads, Serves
<1> QED BY <1>3, <1>4, <1>5, <1>7 DEF IInv

LEMMA RemoveAddressInv ==
  ASSUME IInv, NEW d \in Devices, NEW v \in Vars, RemoveAddress(d, v) PROVE IInv'
<1>1. d \in Mapped /\ TypeOK
  BY DEF RemoveAddress, IInv, Mapped
<1>2. Of(d) \in Instances /\ Of(d) \in alive
  BY <1>1, OfMapped DEF IInv, InstanceInv
<1>3. TypeOK'
  BY <1>2 DEF RemoveAddress, IInv, TypeOK
<1>4. MainInv' /\ InstanceInv'
  BY <1>2, LifecycleAssumption DEF RemoveAddress, IInv, MainInv, InstanceInv, Mapped, Threads
<1>5. SleepInv' /\ RunningIsServed' /\ NoLostWakeup'
  BY QuietStep DEF RemoveAddress
<1> QED BY <1>3, <1>4, <1>5 DEF IInv

LEMMA RemoveClearRunInv == ASSUME IInv, RemoveClearRun PROVE IInv'
<1>1. /\ mpc = "rmLock" /\ mpc' = "rmNotify" /\ lock[cur] = 0 /\ cur \in alive
      /\ cur \in Instances /\ run' = [run EXCEPT ![cur] = FALSE]
      /\ run \in [Instances -> BOOLEAN] /\ alive \subseteq Instances
      /\ UNCHANGED <<phase, cur, alive, lock, driverRun, threads, mss, adds>>
  BY DEF RemoveClearRun, MutexFreeToClear, IInv, TypeOK, InstanceInv
<1>2. TypeOK'
  BY <1>1 DEF RemoveClearRun, IInv, TypeOK
<1>3. MainInv' /\ InstanceInv'
  BY <1>1 DEF RemoveClearRun, IInv, MainInv, InstanceInv, Mapped, Threads
<1>4. SleepInv'
  <2>1. \A t \in Threads : threads[t].pc = "blocking" /\ threads[t].ms \in alive =>
          threads[t].ms # cur
    <3> SUFFICES ASSUME NEW t \in Threads, threads[t].pc = "blocking", threads[t].ms \in alive
                 PROVE  threads[t].ms # cur
      OBVIOUS
    <3>1. lock[threads[t].ms] = t
      BY DEF IInv, SleepInv
    <3>2. t # 0
      BY DEF Threads, IInv, TypeOK
    <3> QED BY <1>1, <3>1, <3>2
  <2> QED BY <1>1, <2>1 DEF IInv, SleepInv, Threads
<1>5. RunningIsServed' /\ NoLostWakeup'
  BY <1>1 DEF IInv, RunningIsServed, NoLostWakeup, Threads, Serves
<1> QED BY <1>2, <1>3, <1>4, <1>5 DEF IInv

(* A notification moves the threads of one device out of their wait, and   *)
(* ends none.                                                              *)
LEMMA NotifiedFacts ==
  ASSUME TypeOK, NEW i \in Instances, threads' = Notified(i)
  PROVE  /\ threads' \in Seq(Thread) /\ Len(threads') = Len(threads) /\ Threads' = Threads
         /\ \A t \in Threads : /\ threads'[t].kind = threads[t].kind
                               /\ threads'[t].ms = threads[t].ms
                               /\ threads'[t].pc # "waiting" => threads'[t].pc = threads[t].pc
                                                                \/ threads'[t].pc = "sleep"
                               /\ threads[t].pc = "done" => threads'[t].pc = "done"
                               /\ threads'[t].pc = "waiting" =>
                                    threads[t].pc = "waiting" /\ threads[t].ms # i
                               /\ threads'[t].pc = "done" => threads[t].pc = "done"
<1>1. threads \in Seq(Thread) /\ Threads = 1..Len(threads) /\ Len(threads) \in Nat
  BY DEF TypeOK, Threads
<1>2. \A t \in Threads : threads[t] \in Thread
  BY <1>1
<1> DEFINE r(t) == IF threads[t].ms = i /\ threads[t].pc = "waiting"
                     THEN [threads[t] EXCEPT !.pc = "sleep"] ELSE threads[t]
<1>3. \A t \in Threads : /\ r(t) \in Thread
                         /\ r(t).kind = threads[t].kind /\ r(t).ms = threads[t].ms
                         /\ r(t).pc = IF threads[t].ms = i /\ threads[t].pc = "waiting"
                                        THEN "sleep" ELSE threads[t].pc
  BY <1>2 DEF Thread, Sleeping
<1>4. threads' = [t \in 1..Len(threads) |-> r(t)]
  BY <1>1 DEF Notified
<1> HIDE DEF r
<1>5. threads' \in Seq(Thread) /\ Len(threads') = Len(threads)
  BY <1>1, <1>3, <1>4
<1>6. Threads' = Threads /\ \A t \in Threads : threads'[t] = r(t)
  BY <1>1, <1>4, <1>5 DEF Threads
<1> QED BY <1>3, <1>5, <1>6

(* What a notification does to the invariants of the threads.              *)
LEMMA NotifiedInv ==
  ASSUME IInv, cur \in Instances, threads' = Notified(cur), mpc \notin {"spawn"},
         mpc' # "rmNotify", mpc = "rmNotify" \/ ~driverRun,
         UNCHANGED <<phase, cur, alive, run, lock, driverRun>>
  PROVE  SleepInv' /\ RunningIsServed' /\ NoLostWakeup'
<1> /\ threads' \in Seq(Thread) /\ Len(threads') = Len(threads) /\ Threads' = Threads
    /\ \A t \in Threads : /\ threads'[t].kind = threads[t].kind
                          /\ threads'[t].ms = threads[t].ms
                          /\ threads'[t].pc # "waiting" => threads'[t].pc = threads[t].pc
                                                           \/ threads'[t].pc = "sleep"
                          /\ threads[t].pc = "done" => threads'[t].pc = "done"
                          /\ threads'[t].pc = "waiting" =>
                               threads[t].pc = "waiting" /\ threads[t].ms # cur
                          /\ threads'[t].pc = "done" => threads[t].pc = "done"
  BY NotifiedFacts DEF IInv
<1>1. SleepInv'
  BY DEF IInv, SleepInv
<1>2. RunningIsServed'
  <2> SUFFICES ASSUME NEW i \in alive, run[i], driverRun PROVE \E t \in Threads' : Serves(t, i)'
    BY DEF RunningIsServed
  <2>1. PICK t \in Threads : Serves(t, i)
    BY DEF IInv, RunningIsServed
  <2> QED BY <2>1 DEF Serves
<1>3. NoLostWakeup'
  BY DEF IInv, NoLostWakeup
<1> QED BY <1>1, <1>2, <1>3

LEMMA RemoveNotifyInv == ASSUME IInv, RemoveNotify PROVE IInv'
<1>1. /\ cur \in Instances /\ threads' = Notified(cur) /\ TypeOK /\ phase # "stopped"
      /\ cur \in alive /\ mpc = "rmNotify" /\ mpc' = "rmErase"
  BY DEF RemoveNotify, RemoveVar, IInv, TypeOK, MainInv, InstanceInv
<1>2. /\ threads' \in Seq(Thread) /\ Len(threads') = Len(threads) /\ Threads' = Threads
      /\ \A t \in Threads : threads'[t].ms = threads[t].ms
  BY <1>1, NotifiedFacts
<1>3. TypeOK'
  BY <1>1, <1>2 DEF RemoveNotify, RemoveVar, TypeOK
<1>4. MainInv' /\ InstanceInv'
  BY <1>1, <1>2 DEF RemoveNotify, RemoveVar, IInv, MainInv, InstanceInv, Mapped
<1>5. SleepInv' /\ RunningIsServed' /\ NoLostWakeup'
  BY <1>1, NotifiedInv DEF RemoveNotify, RemoveVar
<1> QED BY <1>3, <1>4, <1>5 DEF IInv

LEMMA StopNotifyInv == ASSUME IInv, StopNotify PROVE IInv'
<1>1. /\ cur \in Instances /\ threads' = Notified(cur) /\ TypeOK /\ phase = "stopping"
      /\ mpc = "stopNotify" /\ mpc' = "idle" /\ ~driverRun
  BY DEF StopNotify, IInv, TypeOK, MainInv, Phases
<1>2. /\ threads' \in Seq(Thread) /\ Len(threads') = Len(threads) /\ Threads' = Threads
      /\ \A t \in Threads : threads'[t].ms = threads[t].ms
  BY <1>1, NotifiedFacts
<1>3. TypeOK'
  BY <1>1, <1>2 DEF StopNotify, TypeOK
<1>4. MainInv' /\ InstanceInv'
  BY <1>1, <1>2 DEF StopNotify, IInv, MainInv, InstanceInv, Mapped
<1>5. SleepInv' /\ RunningIsServed' /\ NoLostWakeup'
  BY <1>1, NotifiedInv DEF StopNotify
<1> QED BY <1>3, <1>4, <1>5 DEF IInv

LEMMA RemoveEraseInv == ASSUME IInv, RemoveErase PROVE IInv'
<1>1. /\ mpc = "rmErase" /\ mpc' = "idle" /\ cur \in alive /\ cur \in Instances
      /\ alive' \subseteq alive /\ alive \subseteq Instances
      /\ mss \in [Devices -> 0..MaxAdds] /\ MaxAdds \in Nat
      /\ \/ alive' = alive \ {cur} /\ mss' = [mss EXCEPT ![Dev(cur)] = 0]
         \/ UNCHANGED <<alive, mss>>
      /\ UNCHANGED <<phase, cur, adds, run, lock, driverRun, threads, todo>>
  BY LifecycleAssumption DEF RemoveErase, IsEmpty, IInv, TypeOK, InstanceInv
<1>2. TypeOK'
  BY <1>1 DEF RemoveErase, IInv, TypeOK
<1>3. MainInv'
  BY <1>1 DEF IInv, MainInv
<1>4. InstanceInv'
  <2>1. \A j \in Instances : j \in alive' <=> mss'[Dev(j)] = j[2]
    <3> SUFFICES ASSUME NEW j \in Instances PROVE j \in alive' <=> mss'[Dev(j)] = j[2]
      OBVIOUS
    <3>1. /\ j \in alive <=> mss[Dev(j)] = j[2]
          /\ mss[Dev(cur)] = cur[2]
      BY <1>1 DEF IInv, InstanceInv
    <3>2. /\ j = <<Dev(j), j[2]>> /\ cur = <<Dev(cur), cur[2]>> /\ j[2] # 0
          /\ Dev(j) \in Devices /\ Dev(cur) \in Devices
      BY <1>1 DEF Instances, Dev
    <3>3. CASE UNCHANGED <<alive, mss>>
      BY <3>1, <3>3
    <3>4. CASE alive' = alive \ {cur} /\ mss' = [mss EXCEPT ![Dev(cur)] = 0]
      <4>1. CASE Dev(j) = Dev(cur)
        <5>1. mss'[Dev(j)] = 0
          BY <1>1, <3>2, <3>4, <4>1
        <5>2. j \in alive => j = cur
          BY <3>1, <3>2, <4>1
        <5> QED BY <3>2, <3>4, <5>1, <5>2
      <4>2. CASE Dev(j) # Dev(cur)
        <5>1. mss'[Dev(j)] = mss[Dev(j)] /\ j # cur
          BY <1>1, <3>2, <3>4, <4>2
        <5> QED BY <3>1, <3>4, <5>1
      <4> QED BY <4>1, <4>2
    <3> QED BY <1>1, <3>3, <3>4
  <2> QED BY <1>1, <2>1 DEF IInv, InstanceInv, Threads
<1>5. SleepInv' /\ RunningIsServed' /\ NoLostWakeup'
  BY <1>1 DEF IInv, SleepInv, RunningIsServed, NoLostWakeup, Threads, Serves
<1> QED BY <1>2, <1>3, <1>4, <1>5 DEF IInv

LEMMA StopInv == ASSUME IInv, Stop PROVE IInv'
<1> USE DEF Stop
<1>1. TypeOK'
  BY DEF IInv, TypeOK, Phases, Mapped, Visited
<1>2. MainInv' /\ InstanceInv'
  BY DEF IInv, MainInv, InstanceInv, Visited, Mapped, Threads
<1>3. SleepInv' /\ RunningIsServed' /\ NoLostWakeup'
  BY QuietStep DEF IInv, MainInv
<1> QED BY <1>1, <1>2, <1>3 DEF IInv

LEMMA StopNextInv == ASSUME IInv, StopNext PROVE IInv'
<1>1. cur' \in Instances
  <2>1. CASE cur' = cur
    BY <2>1 DEF IInv, TypeOK
  <2>2. ASSUME NEW d \in todo, cur' = Of(d) PROVE cur' \in Instances
    BY <2>2, OfMapped DEF StopNext, IInv, MainInv
  <2> QED BY <2>1, <2>2 DEF StopNext
<1>2. TypeOK'
  BY <1>1 DEF StopNext, IInv, TypeOK
<1>3. MainInv' /\ InstanceInv'
  BY DEF StopNext, IInv, MainInv, InstanceInv, Mapped, Threads
<1>4. SleepInv' /\ RunningIsServed' /\ NoLostWakeup'
  BY QuietStep DEF StopNext
<1> QED BY <1>2, <1>3, <1>4 DEF IInv

LEMMA StopClearRunInv == ASSUME IInv, StopClearRun PROVE IInv'
<1>1. /\ ~driverRun /\ cur \in Instances /\ run' = [run EXCEPT ![cur] = FALSE]
      /\ run \in [Instances -> BOOLEAN] /\ phase = "stopping"
  BY DEF StopClearRun, IInv, TypeOK, MainInv, Phases
<1>2. TypeOK'
  BY <1>1 DEF StopClearRun, IInv, TypeOK
<1>3. MainInv' /\ InstanceInv'
  BY <1>1 DEF StopClearRun, IInv, MainInv, InstanceInv, Mapped, Threads
<1>4. SleepInv' /\ RunningIsServed' /\ NoLostWakeup'
  BY <1>1 DEF StopClearRun, IInv, SleepInv, RunningIsServed, NoLostWakeup,
     Threads, Serves
<1> QED BY <1>2, <1>3, <1>4 DEF IInv

LEMMA StopJoinInv == ASSUME IInv, StopJoin PROVE IInv'
<1>1. phase = "stopping"
  BY DEF StopJoin, IInv, MainInv, TypeOK, Phases
<1>2. TypeOK'
  BY DEF StopJoin, IInv, TypeOK, Phases
<1>3. MainInv' /\ InstanceInv'
  BY <1>1 DEF StopJoin, IInv, MainInv, InstanceInv, Mapped, Threads
<1>4. SleepInv' /\ RunningIsServed' /\ NoLostWakeup'
  BY DEF StopJoin, IInv, SleepInv, RunningIsServed, NoLostWakeup,
     Threads, Serves
<1> QED BY <1>2, <1>3, <1>4 DEF IInv

LEMMA ToggleRoleInv == ASSUME IInv, ToggleRole PROVE IInv'
<1> USE DEF ToggleRole, mainVars
<1>1. TypeOK'
  BY LifecycleAssumption DEF IInv, TypeOK
<1>2. MainInv' /\ InstanceInv'
  BY DEF IInv, MainInv, InstanceInv, Mapped, Threads
<1>3. SleepInv' /\ RunningIsServed' /\ NoLostWakeup'
  BY QuietStep
<1> QED BY <1>1, <1>2, <1>3 DEF IInv

(* A step of thread t changes t's record only, within its type.            *)
LEMMA ThreadUpdate ==
  ASSUME TypeOK, NEW t \in Threads, NEW r \in Thread, threads' = [threads EXCEPT ![t] = r]
  PROVE  /\ threads' \in Seq(Thread) /\ Len(threads') = Len(threads) /\ Threads' = Threads
         /\ threads'[t] = r
         /\ \A u \in Threads : u # t => threads'[u] = threads[u]
BY DEF TypeOK, Threads

(* What t may see of its device's _run when the device exists.             *)
LEMMA ReadRunFacts ==
  ASSUME NEW t \in Threads, NEW r \in ReadRun(t), threads[t].ms \in alive
  PROVE  r = run[threads[t].ms]
BY DEF ReadRun

(* A step that only moves t along, neither into a wait nor, for a PLC      *)
(* thread that is needed, to its end, keeps every invariant.               *)
LEMMA MoveInv ==
  ASSUME IInv, NEW t \in Threads, NEW r \in Thread, threads' = [threads EXCEPT ![t] = r],
         UNCHANGED <<mainVars, run, lock, active, toggles>>,
         r.kind = threads[t].kind, r.ms = threads[t].ms,
         r.pc \notin {"waiting", "blocking"},
         threads[t].pc # "done",
         r.pc = "done" /\ r.kind = "plc" /\ r.ms \in alive /\ driverRun => ~run[r.ms]
  PROVE  IInv'
<1> /\ threads' \in Seq(Thread) /\ Len(threads') = Len(threads) /\ Threads' = Threads
    /\ threads'[t] = r
    /\ \A u \in Threads : u # t => threads'[u] = threads[u]
  BY ThreadUpdate DEF IInv
<1> USE DEF mainVars
<1>1. TypeOK'
  BY DEF IInv, TypeOK
<1>2. MainInv' /\ InstanceInv'
  BY DEF IInv, MainInv, InstanceInv, Mapped
<1>3. SleepInv' /\ NoLostWakeup'
  BY DEF IInv, SleepInv, NoLostWakeup
<1>4. RunningIsServed'
  <2> SUFFICES ASSUME NEW i \in alive, run[i], driverRun, ~(cur = i /\ mpc = "spawn")
               PROVE  \E u \in Threads : Serves(u, i)'
    BY DEF RunningIsServed
  <2>1. PICK u \in Threads : Serves(u, i)
    BY DEF IInv, RunningIsServed
  <2>2. Serves(u, i)'
    BY <2>1 DEF Serves
  <2> QED BY <2>2
<1> QED BY <1>1, <1>2, <1>3, <1>4 DEF IInv

(* The moves: to another place, or to a sleep with a place to go on at.    *)
LEMMA GotoInv ==
  ASSUME IInv, NEW t \in Threads, NEW where, Goto(t, where),
         threads[t].pc # "done",
         threads[t].kind = "plc" => where \in {"connect", "test", "ensure", "retry", "work", "done"},
         threads[t].kind = "panel" => where \in {"outer", "passive", "session", "inner", "done"},
         where = "done" /\ threads[t].kind = "plc" /\ threads[t].ms \in alive /\ driverRun
           => ~run[threads[t].ms]
  PROVE  IInv'
<1> DEFINE r == [threads[t] EXCEPT !.pc = where]
<1>1. threads[t] \in Thread
  BY DEF IInv, TypeOK, Threads
<1>2. /\ r \in Thread /\ r.kind = threads[t].kind /\ r.ms = threads[t].ms /\ r.pc = where
      /\ r.pc \notin {"waiting", "blocking"}
  BY <1>1 DEF Thread, Sleeping
<1>3. threads' = [threads EXCEPT ![t] = r]
  BY DEF Goto
<1> HIDE DEF r
<1> QED BY <1>2, <1>3, MoveInv DEF Goto

LEMMA SleepThenInv ==
  ASSUME IInv, NEW t \in Threads, NEW where, SleepThen(t, where),
         threads[t].pc # "done",
         threads[t].kind = "plc" => where \in {"test", "retry"},
         threads[t].kind = "panel" => where \in {"outer", "passive"}
  PROVE  IInv'
<1> DEFINE r == [threads[t] EXCEPT !.pc = "sleep", !.after = where]
<1>1. threads[t] \in Thread
  BY DEF IInv, TypeOK, Threads
<1>2. /\ r \in Thread /\ r.kind = threads[t].kind /\ r.ms = threads[t].ms /\ r.pc = "sleep"
  BY <1>1 DEF Thread, Sleeping
<1>3. threads' = [threads EXCEPT ![t] = r]
  BY DEF SleepThen
<1> HIDE DEF r
<1> QED BY <1>2, <1>3, MoveInv DEF SleepThen

LEMMA PlcInv ==
  ASSUME IInv, NEW t \in Threads,
         PlcConnect(t) \/ PlcTest(t) \/ PlcEnsure(t) \/ PlcRetry(t) \/ PlcWork(t)
  PROVE  IInv'
<1>1. threads[t] \in Thread
  BY DEF IInv, TypeOK, Threads
<1>2. threads[t].pc \in {"connect", "test", "ensure", "retry", "work"}
  BY DEF PlcConnect, PlcTest, PlcEnsure, PlcRetry, PlcWork, At
<1>3. threads[t].kind = "plc"
  BY <1>1, <1>2 DEF Thread, Sleeping
<1>4. CASE PlcConnect(t)
  BY <1>2, <1>3, <1>4, GotoInv DEF PlcConnect
<1>5. CASE PlcTest(t)
  <2>1. PICK r \in ReadRun(t) : Goto(t, IF driverRun /\ r THEN "ensure" ELSE "done")
    BY <1>5 DEF PlcTest
  <2>2. CASE driverRun /\ r
    BY <1>2, <1>3, <2>1, <2>2, GotoInv
  <2>3. CASE ~(driverRun /\ r)
    <3>1. threads[t].ms \in alive /\ driverRun => ~run[threads[t].ms]
      BY <2>3, ReadRunFacts
    <3> QED BY <1>2, <1>3, <2>1, <2>3, <3>1, GotoInv
  <2> QED BY <2>2, <2>3
<1>6. CASE PlcEnsure(t)
  BY <1>2, <1>3, <1>6, GotoInv, SleepThenInv DEF PlcEnsure
<1>7. CASE PlcRetry(t)
  <2>1. PICK r \in ReadRun(t) : Goto(t, IF r THEN "ensure" ELSE "work")
    BY <1>7 DEF PlcRetry
  <2>2. CASE r
    BY <1>2, <1>3, <2>1, <2>2, GotoInv
  <2>3. CASE ~r
    BY <1>2, <1>3, <2>1, <2>3, GotoInv
  <2> QED BY <2>2, <2>3
<1>8. CASE PlcWork(t)
  BY <1>2, <1>3, <1>8, GotoInv, SleepThenInv DEF PlcWork
<1> QED BY <1>4, <1>5, <1>6, <1>7, <1>8

LEMMA PanelInv ==
  ASSUME IInv, NEW t \in Threads,
         PanelOuter(t) \/ PanelPassive(t) \/ PanelSession(t) \/ PanelInner(t)
  PROVE  IInv'
<1>1. threads[t] \in Thread
  BY DEF IInv, TypeOK, Threads
<1>2. threads[t].pc \in {"outer", "passive", "session", "inner"}
  BY DEF PanelOuter, PanelPassive, PanelSession, PanelInner, At
<1>3. threads[t].kind = "panel"
  BY <1>1, <1>2 DEF Thread, Sleeping
<1>4. CASE PanelOuter(t)
  <2>1. PICK r \in ReadRun(t) : Goto(t, IF r THEN "passive" ELSE "done")
    BY <1>4 DEF PanelOuter
  <2>2. CASE r
    BY <1>2, <1>3, <2>1, <2>2, GotoInv
  <2>3. CASE ~r
    BY <1>2, <1>3, <2>1, <2>3, GotoInv
  <2> QED BY <2>2, <2>3
<1>5. CASE PanelPassive(t)
  BY <1>2, <1>3, <1>5, GotoInv, SleepThenInv DEF PanelPassive
<1>6. CASE PanelSession(t)
  BY <1>2, <1>3, <1>6, GotoInv, SleepThenInv DEF PanelSession
<1>7. CASE PanelInner(t)
  <2>1. Goto(t, "inner") \/ Goto(t, "outer")
    BY <1>7 DEF PanelInner
  <2> QED BY <1>2, <1>3, <2>1, GotoInv
<1> QED BY <1>4, <1>5, <1>6, <1>7

LEMMA AfterInv ==
  ASSUME IInv, NEW t \in Threads, threads[t].pc \in {"sleep", "waiting"},
         threads' = [threads EXCEPT ![t].pc = threads[t].after],
         UNCHANGED <<mainVars, run, lock, active, toggles>>
  PROVE  IInv'
<1> DEFINE r == [threads[t] EXCEPT !.pc = threads[t].after]
<1>1. threads[t] \in Thread
  BY DEF IInv, TypeOK, Threads
<1>2. /\ r \in Thread /\ r.kind = threads[t].kind /\ r.ms = threads[t].ms
      /\ r.pc \notin {"waiting", "blocking", "done"}
  BY <1>1 DEF Thread, Sleeping
<1>3. threads' = [threads EXCEPT ![t] = r]
  OBVIOUS
<1> HIDE DEF r
<1> QED BY <1>2, <1>3, MoveInv

LEMMA SleepTestInv == ASSUME IInv, NEW t \in Threads, SleepTest(t) PROVE IInv'
<1>1. threads[t] \in Thread /\ threads[t].pc = "sleep" /\ MutexFree(t) /\ threads[t].ms \in Instances
  BY DEF SleepTest, At, IInv, TypeOK, Threads, Thread
<1>2. PICK seen \in ReadRun(t) :
        IF seen THEN /\ lock' = [lock EXCEPT ![threads[t].ms] = t]
                     /\ threads' = [threads EXCEPT ![t].pc = "blocking"]
                ELSE /\ threads' = [threads EXCEPT ![t].pc = threads[t].after]
                     /\ lock' = lock
  BY DEF SleepTest
<1>3. CASE ~seen
  BY <1>1, <1>2, <1>3, AfterInv DEF SleepTest
<1>4. CASE seen
  <2> DEFINE r == [threads[t] EXCEPT !.pc = "blocking"]
             i == threads[t].ms
  <2>1. /\ r \in Thread /\ r.kind = threads[t].kind /\ r.ms = i /\ r.pc = "blocking"
    BY <1>1 DEF Thread, Sleeping
  <2>2. threads' = [threads EXCEPT ![t] = r] /\ lock' = [lock EXCEPT ![i] = t]
    BY <1>2, <1>4
  <2>3. i \in alive => run[i] /\ lock[i] = 0
    BY <1>1, <1>4, ReadRunFacts DEF MutexFree
  <2> HIDE DEF r, i
  <2>4. /\ threads' \in Seq(Thread) /\ Len(threads') = Len(threads) /\ Threads' = Threads
        /\ threads'[t] = r /\ \A u \in Threads : u # t => threads'[u] = threads[u]
    BY <2>1, <2>2, ThreadUpdate DEF IInv
  <2>5. i \in Instances /\ i = threads[t].ms /\ lock \in [Instances -> 0..Len(threads)]
        /\ t \in 1..Len(threads) /\ alive \subseteq Instances
    BY <1>1 DEF i, IInv, TypeOK, Threads
  <2>6. UNCHANGED <<mainVars, toggles, run, active>>
    BY DEF SleepTest
  <2>7. TypeOK'
    BY <2>2, <2>4, <2>5, <2>6 DEF IInv, TypeOK, mainVars
  <2>8. MainInv' /\ InstanceInv'
    BY <2>1, <2>4, <2>5, <2>6 DEF IInv, MainInv, InstanceInv, Mapped, mainVars
  <2>9. SleepInv'
    <3> SUFFICES ASSUME NEW u \in Threads, threads'[u].pc = "blocking", threads'[u].ms \in alive
                 PROVE  lock'[threads'[u].ms] = u /\ (driverRun => run[threads'[u].ms])
      BY <2>4, <2>6 DEF SleepInv, mainVars
    <3>1. CASE u = t
      BY <2>1, <2>2, <2>3, <2>4, <2>5, <3>1
    <3>2. CASE u # t
      <4>1. /\ threads'[u] = threads[u] /\ lock[threads[u].ms] = u
            /\ driverRun => run[threads[u].ms]
        BY <2>4, <3>2 DEF IInv, SleepInv
      <4>2. u # 0 /\ threads[u].ms # i /\ threads[u].ms \in Instances
        BY <2>3, <2>5, <4>1 DEF Threads
      <4> QED BY <2>2, <2>5, <4>1, <4>2
    <3> QED BY <3>1, <3>2
  <2>10. RunningIsServed'
    <3> SUFFICES ASSUME NEW j \in alive, run[j], driverRun, ~(cur = j /\ mpc = "spawn")
                 PROVE  \E u \in Threads : Serves(u, j)'
      BY <2>4, <2>6 DEF RunningIsServed, mainVars
    <3>1. PICK u \in Threads : Serves(u, j)
      BY DEF IInv, RunningIsServed
    <3> QED BY <2>1, <2>4, <2>5, <3>1 DEF Serves
  <2>11. NoLostWakeup'
    BY <2>1, <2>4, <2>6 DEF IInv, NoLostWakeup, mainVars
  <2> QED BY <2>7, <2>8, <2>9, <2>10, <2>11 DEF IInv
<1> QED BY <1>3, <1>4

LEMMA SleepBlockInv == ASSUME IInv, NEW t \in Threads, SleepBlock(t) PROVE IInv'
<1> DEFINE r == [threads[t] EXCEPT !.pc = "waiting"]
           i == threads[t].ms
<1>1. threads[t] \in Thread /\ threads[t].pc = "blocking" /\ i \in Instances
  BY DEF SleepBlock, At, IInv, TypeOK, Threads, Thread
<1>2. /\ r \in Thread /\ r.kind = threads[t].kind /\ r.ms = i /\ r.pc = "waiting"
  BY <1>1 DEF Thread, Sleeping
<1>3. threads' = [threads EXCEPT ![t] = r] /\ lock' = [lock EXCEPT ![i] = 0]
  BY DEF SleepBlock
<1>4. i \in alive => lock[i] = t /\ (driverRun => run[i])
  BY <1>1 DEF IInv, SleepInv
<1>5. i = threads[t].ms
  OBVIOUS
<1> HIDE DEF r, i
<1>6. /\ threads' \in Seq(Thread) /\ Len(threads') = Len(threads) /\ Threads' = Threads
      /\ threads'[t] = r /\ \A u \in Threads : u # t => threads'[u] = threads[u]
  BY <1>2, <1>3, ThreadUpdate DEF IInv
<1>7. lock \in [Instances -> 0..Len(threads)] /\ Len(threads) \in Nat /\ alive \subseteq Instances
  BY DEF IInv, TypeOK
<1>8. UNCHANGED <<mainVars, toggles, run, active>>
  BY DEF SleepBlock
<1>9. TypeOK'
  BY <1>1, <1>3, <1>6, <1>7, <1>8 DEF IInv, TypeOK, mainVars
<1>10. MainInv' /\ InstanceInv'
  BY <1>2, <1>5, <1>6, <1>8 DEF IInv, MainInv, InstanceInv, Mapped, mainVars
<1>11. SleepInv'
  <2> SUFFICES ASSUME NEW u \in Threads, threads'[u].pc = "blocking", threads'[u].ms \in alive
               PROVE  lock'[threads'[u].ms] = u /\ (driverRun => run[threads'[u].ms])
    BY <1>6, <1>8 DEF SleepInv, mainVars
  <2>1. u # t /\ threads'[u] = threads[u]
    BY <1>2, <1>6
  <2>2. lock[threads[u].ms] = u /\ (driverRun => run[threads[u].ms])
    BY <2>1 DEF IInv, SleepInv
  <2>3. threads[u].ms # i
    BY <1>4, <2>1, <2>2
  <2> QED BY <1>3, <1>7, <2>1, <2>2, <2>3
<1>12. RunningIsServed'
  <2> SUFFICES ASSUME NEW j \in alive, run[j], driverRun, ~(cur = j /\ mpc = "spawn")
               PROVE  \E u \in Threads : Serves(u, j)'
    BY <1>6, <1>8 DEF RunningIsServed, mainVars
  <2>1. PICK u \in Threads : Serves(u, j)
    BY DEF IInv, RunningIsServed
  <2> QED BY <1>2, <1>5, <1>6, <2>1 DEF Serves
<1>13. NoLostWakeup'
  BY <1>2, <1>4, <1>6, <1>8 DEF IInv, NoLostWakeup, mainVars
<1> QED BY <1>9, <1>10, <1>11, <1>12, <1>13 DEF IInv

LEMMA SleepTimeoutInv == ASSUME IInv, NEW t \in Threads, SleepTimeout(t) PROVE IInv'
BY AfterInv DEF SleepTimeout, At

LEMMA StepInv == ASSUME IInv, [Next]_allVars PROVE IInv'
<1>1. CASE MainOp
  BY <1>1, InitializeInv, StartInv, StopInv, AddAddressInv, RemoveAddressInv DEF MainOp
<1>2. CASE MainStep
  BY <1>2, StartNextInv, StartEndInv, SetRunInv, SpawnInv, AddVarInv, RemoveClearRunInv,
     RemoveNotifyInv, RemoveEraseInv, StopNextInv, StopClearRunInv, StopNotifyInv,
     StopJoinInv DEF MainStep
<1>3. CASE ToggleRole
  BY <1>3, ToggleRoleInv
<1>4. ASSUME NEW t \in Threads, ThreadStep(t) PROVE IInv'
  BY <1>4, PlcInv, PanelInv, SleepTestInv, SleepBlockInv, SleepTimeoutInv DEF ThreadStep
<1>5. CASE UNCHANGED allVars
  BY <1>5 DEF allVars, mainVars, IInv, TypeOK, MainInv, InstanceInv, SleepInv,
     RunningIsServed, NoLostWakeup, Mapped, Threads, Serves
<1> QED BY <1>1, <1>2, <1>3, <1>4, <1>5 DEF Next

(* The inductive invariant holds in every reachable state, whenever the    *)
(* framework adds and removes addresses.                                   *)
THEOREM Inductive == Spec => []IInv
<1>1. Init => IInv
  BY InitInv
<1>2. IInv /\ [Next]_allVars => IInv'
  BY StepInv
<1> QED BY <1>1, <1>2, PTL DEF Spec

(* Every variable keeps its type; a PLC thread never runs panel code.      *)
THEOREM TypeCorrect == Spec => []TypeOK
<1>1. IInv => TypeOK
  BY DEF IInv
<1> QED BY <1>1, Inductive, PTL

(* A device whose _run is set has a PLC thread, however additions,         *)
(* removals, the start and the exit of earlier threads interleave.         *)
THEOREM Served == Spec => []RunningIsServed
<1>1. IInv => RunningIsServed
  BY DEF IInv
<1> QED BY <1>1, Inductive, PTL

(* The notification of removeAddress reaches every waiting thread.         *)
THEOREM WakeupNotLost == Spec => []NoLostWakeup
<1>1. IInv => NoLostWakeup
  BY DEF IInv
<1> QED BY <1>1, Inductive, PTL
-----------------------------------------------------------------------------
(* A step of a thread changes its own record only, and not its instance.   *)
LEMMA OneThread ==
  ASSUME TypeOK, NEW t \in Threads, ThreadStep(t)
  PROVE  /\ Threads' = Threads /\ threads'[t].ms = threads[t].ms
         /\ \A u \in Threads : u # t => threads'[u] = threads[u]
         /\ UNCHANGED <<mainVars, run, active>>
<1>1. \/ \E w : threads' = [threads EXCEPT ![t].pc = w]
      \/ \E w : threads' = [threads EXCEPT ![t].pc = "sleep", ![t].after = w]
  BY DEF ThreadStep, PlcConnect, PlcTest, PlcEnsure, PlcRetry, PlcWork, PanelOuter, PanelPassive,
     PanelSession, PanelInner, SleepTest, SleepBlock, SleepTimeout, Goto, SleepThen
<1>2. UNCHANGED <<mainVars, run, active>>
  BY DEF ThreadStep, PlcConnect, PlcTest, PlcEnsure, PlcRetry, PlcWork, PanelOuter, PanelPassive,
     PanelSession, PanelInner, SleepTest, SleepBlock, SleepTimeout, Goto, SleepThen
<1>3. threads[t] \in Thread /\ threads \in Seq(Thread)
  BY DEF TypeOK, Threads
<1>4. PICK r : threads' = [threads EXCEPT ![t] = r] /\ r.ms = threads[t].ms
  <2>1. ASSUME NEW w, threads' = [threads EXCEPT ![t].pc = w]
        PROVE  /\ threads' = [threads EXCEPT ![t] = [threads[t] EXCEPT !.pc = w]]
               /\ [threads[t] EXCEPT !.pc = w].ms = threads[t].ms
    BY <1>3, <2>1 DEF Thread
  <2>2. ASSUME NEW w, threads' = [threads EXCEPT ![t].pc = "sleep", ![t].after = w]
        PROVE  /\ threads' = [threads EXCEPT ![t] = [threads[t] EXCEPT !.pc = "sleep", !.after = w]]
               /\ [threads[t] EXCEPT !.pc = "sleep", !.after = w].ms = threads[t].ms
    BY <1>3, <2>2 DEF Thread
  <2> QED BY <1>1, <2>1, <2>2
<1> QED BY <1>2, <1>3, <1>4 DEF Threads

(* An instance that exists is the one its device is mapped to.             *)
LEMMA AliveIsMapped ==
  ASSUME IInv, NEW i \in alive PROVE Dev(i) \in Mapped /\ i = Of(Dev(i))
<1>1. mss[Dev(i)] = i[2] /\ i \in Instances
  BY DEF IInv, TypeOK, InstanceInv
<1>2. Dev(i) \in Devices /\ i[2] # 0 /\ i = <<Dev(i), i[2]>>
  BY <1>1, LifecycleAssumption DEF Instances, Dev
<1> QED BY <1>1, <1>2 DEF Mapped, Of

(* Once start() has begun, a device without variables has its _run set:    *)
(* only start() that has not come to it yet, an addition that is about to  *)
(* set it, and a removal that is about to erase the device, are between.   *)
InHand(i) ==
  \/ phase = "starting" /\ (Dev(i) \in todo \/ (cur = i /\ mpc = "setRun"))
  \/ phase = "started" /\ cur = i /\ mpc \in {"setRun", "rmNotify", "rmErase"}

VarsInv ==
  phase \in {"starting", "started"} => \A i \in alive : run[i] \/ vars[i] # {} \/ InHand(i)

LEMMA VarsStep == ASSUME IInv, VarsInv, [Next]_allVars PROVE VarsInv'
<1>1. TypeOK /\ MainInv /\ InstanceInv /\ alive \subseteq Instances
  BY DEF IInv, TypeOK
<1>2. \A i \in alive : Dev(i) \in Mapped /\ i = Of(Dev(i))
  BY AliveIsMapped
<1>3. CASE AddVar
  BY <1>1, <1>3 DEF AddVar, VarsInv, InHand, TypeOK
<1>4. CASE RemoveClearRun
  <2>1. /\ mpc = "rmLock" /\ mpc' = "rmNotify" /\ phase # "starting" /\ phase' = phase
        /\ run' = [run EXCEPT ![cur] = FALSE] /\ run \in [Instances -> BOOLEAN]
        /\ UNCHANGED <<cur, alive, vars>>
    BY <1>1, <1>4 DEF RemoveClearRun, MainInv, TypeOK
  <2>2. \A i \in alive : i # cur => run'[i] = run[i]
    BY <1>1, <2>1
  <2> QED BY <2>1, <2>2 DEF VarsInv, InHand
<1>5. CASE RemoveNotify
  <2>1. /\ mpc' = "rmErase" /\ phase # "starting" /\ mpc = "rmNotify"
        /\ \A i \in alive : i # cur => vars'[i] = vars[i]
        /\ UNCHANGED <<phase, cur, alive, run>>
    BY <1>1, <1>5 DEF RemoveNotify, RemoveVar, MainInv, TypeOK
  <2> QED BY <2>1 DEF VarsInv, InHand
<1>6. CASE RemoveErase
  <2>1. mpc = "rmErase" /\ phase # "starting" /\ UNCHANGED <<phase, vars, run>>
    BY <1>1, <1>6 DEF RemoveErase, MainInv
  <2>2. alive' \subseteq alive /\ (vars[cur] = {} => cur \notin alive')
    BY <1>6 DEF RemoveErase, IsEmpty
  <2> QED BY <2>1, <2>2 DEF VarsInv, InHand
<1>7. ASSUME NEW d \in Devices, NEW v \in Vars, AddAddress(d, v) PROVE VarsInv'
  <2>1. PICK i : /\ alive' = alive \cup {i} /\ cur' = i
                 /\ mpc' = IF CallbackSet /\ ~run[i] THEN "setRun" ELSE "addVar"
    BY <1>7 DEF AddAddress, HandleSteps
  <2>2. /\ phase \in {"boot", "initialized", "started"} /\ mpc = "idle"
        /\ UNCHANGED <<phase, vars, run>>
    BY <1>7, LifecycleAssumption DEF AddAddress
  <2> QED BY <2>1, <2>2 DEF VarsInv, InHand, CallbackSet
<1>8. CASE SetRun
  <2>1. /\ mpc = "setRun" /\ run' = [run EXCEPT ![cur] = TRUE] /\ run \in [Instances -> BOOLEAN]
        /\ UNCHANGED <<phase, cur, todo, alive, vars>>
    BY <1>1, <1>8 DEF SetRun, TypeOK
  <2>2. \A i \in alive : IF i = cur THEN run'[i] ELSE run'[i] = run[i]
    BY <1>1, <2>1
  <2> QED BY <2>1, <2>2 DEF VarsInv, InHand
<1>9. CASE Spawn
  BY <1>9 DEF Spawn, VarsInv, InHand
<1>10. CASE StartNext
  <2>1. PICK d \in todo : todo' = todo \ {d} /\ cur' = Of(d)
    BY <1>10 DEF StartNext
  <2>2. /\ phase = "starting" /\ mpc = "idle" /\ mpc' = "setRun"
        /\ UNCHANGED <<phase, alive, vars, run>>
    BY <1>10 DEF StartNext
  <2> QED BY <1>2, <2>1, <2>2 DEF VarsInv, InHand
<1>11. CASE StartEnd
  BY <1>11 DEF StartEnd, VarsInv, InHand
<1>12. CASE Start
  <2>1. phase' = "starting" /\ todo' = Mapped /\ alive' = alive
    BY <1>12 DEF Start
  <2> QED BY <1>2, <2>1 DEF VarsInv, InHand
<1>13. CASE Initialize \/ Stop \/ StopNext \/ StopClearRun \/ StopNotify \/ StopJoin
  <2>1. phase' \notin {"starting", "started"}
    BY <1>1, <1>13 DEF MainInv, TypeOK, Phases, Initialize, Stop, StopNext, StopClearRun, StopNotify,
       StopJoin
  <2> QED BY <2>1 DEF VarsInv
<1>14. ASSUME NEW d \in Devices, NEW v \in Vars, RemoveAddress(d, v) PROVE VarsInv'
  <2>1. /\ mpc = "idle" /\ phase \in {"boot", "initialized", "started"}
        /\ UNCHANGED <<phase, alive, vars, run>>
    BY <1>14, LifecycleAssumption DEF RemoveAddress
  <2> QED BY <2>1 DEF VarsInv, InHand
<1>15. CASE ToggleRole \/ UNCHANGED allVars \/ \E t \in Threads : ThreadStep(t)
  <2>1. UNCHANGED <<mainVars, run>>
    BY <1>1, <1>15, OneThread DEF ToggleRole, allVars
  <2> QED BY <2>1 DEF mainVars, VarsInv, InHand
<1> QED BY <1>3, <1>4, <1>5, <1>6, <1>7, <1>8, <1>9, <1>10, <1>11, <1>12, <1>13, <1>14, <1>15
       DEF Next, MainOp, MainStep

(* Between operations the map holds exactly the instances that exist, and  *)
(* while the service runs a device that is stopped has variables left.     *)
THEOREM MapIsConsistent == Spec => []MapAgrees
<1>1. Init => VarsInv
  BY DEF Init, VarsInv
<1>2. IInv /\ VarsInv /\ [Next]_allVars => VarsInv'
  BY VarsStep
<1>3. ASSUME IInv, VarsInv PROVE MapAgrees
  <2> SUFFICES ASSUME mpc = "idle"
               PROVE  /\ alive = {Of(d) : d \in Mapped}
                      /\ phase = "started" => \A d \in Mapped : run[Of(d)] \/ vars[Of(d)] # {}
    BY DEF MapAgrees
  <2>1. \A d \in Mapped : Of(d) \in alive
    BY <1>3, OfMapped DEF IInv, InstanceInv
  <2>2. \A i \in alive : i \in {Of(d) : d \in Mapped}
    BY <1>3, AliveIsMapped
  <2>3. phase = "started" => \A i \in alive : run[i] \/ vars[i] # {}
    BY <1>3 DEF VarsInv, InHand
  <2> QED BY <2>1, <2>2, <2>3
<1> QED BY Inductive, <1>1, <1>2, <1>3, PTL DEF Spec
-----------------------------------------------------------------------------
(* A mutex of an instance that exists is held only by a thread of that     *)
(* instance which is about to wait, and thereby to release it: what        *)
(* removeAddress waits for when it clears _run is one step of that thread, *)
(* so the main thread and the threads of a device never wait on each       *)
(* other, and no thread of an erased instance holds up a new one.          *)
MutexHeldBriefly ==
  \A i \in alive : lock[i] # 0 =>
    lock[i] \in Threads /\ threads[lock[i]].ms = i /\ threads[lock[i]].pc = "blocking"

(* The mutex of a generation that has not been created is free.            *)
FreshMutexFree == \A i \in Instances : i[2] > adds => lock[i] = 0

LockInv == MutexHeldBriefly /\ FreshMutexFree

(* A step that leaves the mutexes and every thread about to wait alone.    *)
LEMMA LockKept ==
  ASSUME IInv, LockInv, UNCHANGED lock, adds' >= adds, adds' \in Nat, adds \in Nat,
         \A i \in alive' : i \in alive \/ (i \in Instances /\ i[2] > adds),
         \A t \in Threads : threads[t].pc = "blocking" =>
           t \in Threads' /\ threads'[t].pc = "blocking" /\ threads'[t].ms = threads[t].ms
  PROVE  LockInv'
<1>1. \A i \in Instances : i[2] \in Nat
  BY LifecycleAssumption DEF Instances
<1> QED BY <1>1 DEF LockInv, MutexHeldBriefly, FreshMutexFree

LEMMA LockThread == ASSUME IInv, LockInv, NEW t \in Threads, ThreadStep(t) PROVE LockInv'
<1>1. /\ threads[t].ms \in Instances /\ t # 0 /\ threads[t].ms[2] <= adds
      /\ threads[t].ms[2] \in Nat /\ adds \in Nat
      /\ lock \in [Instances -> 0..Len(threads)] /\ alive \subseteq Instances
  <2>1. TypeOK /\ InstanceInv /\ threads[t] \in Thread /\ t # 0
    BY DEF IInv, TypeOK, Threads
  <2>2. threads[t].ms \in Instances
    BY <2>1 DEF Thread
  <2>3. threads[t].ms[2] \in Nat
    BY <2>2, LifecycleAssumption DEF Instances
  <2>4. adds \in Nat /\ lock \in [Instances -> 0..Len(threads)] /\ alive \subseteq Instances
    BY <2>1, LifecycleAssumption DEF TypeOK
  <2> QED BY <2>1, <2>2, <2>3, <2>4 DEF InstanceInv
<1>2. /\ Threads' = Threads /\ threads'[t].ms = threads[t].ms
      /\ \A u \in Threads : u # t => threads'[u] = threads[u]
      /\ alive' = alive /\ adds' = adds
  BY OneThread DEF IInv, mainVars
<1>3. CASE lock' = lock /\ threads[t].pc # "blocking"
  BY <1>1, <1>2, <1>3, LockKept
<1>4. CASE /\ lock' = [lock EXCEPT ![threads[t].ms] = t]
           /\ threads' = [threads EXCEPT ![t].pc = "blocking"]
           /\ MutexFree(t) /\ threads[t].pc = "sleep"
  <2>1. threads'[t].pc = "blocking"
    BY <1>4 DEF IInv, TypeOK, Thread, Threads
  <2>2. MutexHeldBriefly'
    <3> SUFFICES ASSUME NEW i \in alive, lock'[i] # 0
                 PROVE  /\ lock'[i] \in Threads /\ threads'[lock'[i]].ms = i
                        /\ threads'[lock'[i]].pc = "blocking"
      BY <1>2 DEF MutexHeldBriefly
    <3>1. CASE i = threads[t].ms
      BY <1>1, <1>2, <1>4, <2>1, <3>1
    <3>2. CASE i # threads[t].ms
      <4>1. lock'[i] = lock[i]
        BY <1>1, <1>4, <3>2
      <4> QED BY <1>2, <1>4, <3>2, <4>1 DEF LockInv, MutexHeldBriefly
    <3> QED BY <3>1, <3>2
  <2>3. FreshMutexFree'
    BY <1>1, <1>2, <1>4 DEF LockInv, FreshMutexFree
  <2> QED BY <2>2, <2>3 DEF LockInv
<1>5. CASE lock' = [lock EXCEPT ![threads[t].ms] = 0] /\ threads[t].pc = "blocking"
  <2>1. MutexHeldBriefly'
    BY <1>1, <1>2, <1>5 DEF LockInv, MutexHeldBriefly
  <2>2. FreshMutexFree'
    BY <1>1, <1>2, <1>5 DEF LockInv, FreshMutexFree
  <2> QED BY <2>1, <2>2 DEF LockInv
<1>6. CASE SleepTest(t)
  BY <1>3, <1>4, <1>6 DEF SleepTest, At
<1>7. CASE SleepBlock(t)
  BY <1>5, <1>7 DEF SleepBlock, At
<1>8. CASE ThreadStep(t) /\ ~SleepTest(t) /\ ~SleepBlock(t)
  BY <1>3, <1>8 DEF ThreadStep, PlcConnect, PlcTest, PlcEnsure, PlcRetry, PlcWork, PanelOuter,
     PanelPassive, PanelSession, PanelInner, SleepTimeout, Goto, SleepThen, At
<1> QED BY <1>6, <1>7, <1>8

LEMMA LockStep == ASSUME IInv, LockInv, [Next]_allVars PROVE LockInv'
<1>1. TypeOK /\ adds \in Nat
  BY LifecycleAssumption DEF IInv, TypeOK
<1>2. CASE \/ Initialize \/ Start \/ Stop \/ StartNext \/ StartEnd \/ SetRun \/ AddVar
           \/ RemoveClearRun \/ StopNext \/ StopClearRun \/ StopJoin \/ ToggleRole
           \/ \E d \in Devices, v \in Vars : RemoveAddress(d, v)
           \/ UNCHANGED allVars
  <2>1. UNCHANGED <<lock, adds, alive, threads>>
    BY <1>2 DEF Initialize, Start, Stop, StartNext, StartEnd, SetRun, AddVar, RemoveClearRun,
       StopNext, StopClearRun, StopJoin, ToggleRole, RemoveAddress, allVars, mainVars
  <2> QED BY <1>1, <2>1, LockKept DEF Threads
<1>3. CASE RemoveErase
  BY <1>1, <1>3, LockKept DEF RemoveErase, Threads
<1>4. CASE Spawn
  <2>1. cur \in Instances
    BY <1>1 DEF TypeOK
  <2>2. threads' = threads \o NewThreads(cur) /\ UNCHANGED <<lock, adds, alive>>
    BY <1>4 DEF Spawn
  <2>3. Threads \subseteq Threads' /\ \A t \in Threads : threads'[t] = threads[t]
    BY <1>1, <2>1, <2>2, NewThreadsFacts
  <2>4. \A t \in Threads : t \in Threads' /\ threads'[t] = threads[t]
    BY <2>3
  <2>5. adds' >= adds /\ adds' \in Nat /\ lock' = lock /\ alive' = alive
    BY <1>1, <2>2
  <2> QED BY <1>1, <2>4, <2>5, LockKept
<1>5. CASE RemoveNotify \/ StopNotify
  <2>1. /\ cur \in Instances /\ threads' = Notified(cur) /\ UNCHANGED <<lock, adds, alive>>
    BY <1>1, <1>5 DEF RemoveNotify, StopNotify, TypeOK
  <2>2. \A t \in Threads : threads[t].pc = "blocking" => threads'[t] = threads[t]
    BY <1>1, <2>1 DEF Notified, TypeOK, Threads
  <2> QED BY <1>1, <2>1, <2>2, NotifiedFacts, LockKept
<1>6. ASSUME NEW d \in Devices, NEW v \in Vars, AddAddress(d, v) PROVE LockInv'
  <2> DEFINE i == IF mss[d] = 0 THEN <<d, adds + 1>> ELSE Of(d)
  <2>1. /\ adds' = adds + 1 /\ alive' = alive \cup {i} /\ adds < MaxAdds
        /\ UNCHANGED <<lock, threads>>
    BY <1>6 DEF AddAddress
  <2>2. i \in alive \/ (i \in Instances /\ i[2] > adds)
    <3>1. CASE mss[d] = 0
      BY <1>1, <2>1, <3>1, LifecycleAssumption DEF Instances
    <3>2. CASE mss[d] # 0
      BY <1>1, <3>2, OfMapped DEF Mapped, IInv, InstanceInv
    <3> QED BY <3>1, <3>2
  <2> HIDE DEF i
  <2> QED BY <1>1, <2>1, <2>2, LockKept DEF Threads
<1>7. ASSUME NEW t \in Threads, ThreadStep(t) PROVE LockInv'
  BY <1>7, LockThread
<1> QED BY <1>2, <1>3, <1>4, <1>5, <1>6, <1>7 DEF Next, MainOp, MainStep

(* removeAddress never waits for a mutex whose holder waits for anything.  *)
THEOREM LockIsReleased == Spec => []MutexHeldBriefly
<1>1. Init => LockInv
  BY DEF Init, LockInv, MutexHeldBriefly, FreshMutexFree
<1>2. IInv /\ LockInv /\ [Next]_allVars => LockInv'
  BY LockStep
<1>3. LockInv => MutexHeldBriefly
  BY DEF LockInv
<1> QED BY Inductive, <1>1, <1>2, <1>3, PTL DEF Spec
-----------------------------------------------------------------------------
(* How many steps the thread th can still make on its longest way out,     *)
(* once it is to end: where it goes on from after a sleep, and the steps   *)
(* of the sleep itself.                                                    *)
AwakeLeft ==
  [connect |-> 2, test |-> 1, ensure |-> 6, retry |-> 4, work |-> 3,
   outer |-> 1, passive |-> 4, session |-> 3, inner |-> 2, done |-> 0]
SleepLeft == [sleep |-> 1, waiting |-> 2, blocking |-> 3]
StepsLeft(th) ==
  IF th.pc \in DOMAIN SleepLeft THEN AwakeLeft[th.after] + SleepLeft[th.pc] ELSE AwakeLeft[th.pc]

(* The threads that have to end: the instance exists and its _run is       *)
(* cleared; a panel thread also needs the server to be active.             *)
ToEnd(t) ==
  threads[t].ms \in alive /\ ~run[threads[t].ms] /\ (active \/ threads[t].kind = "plc")

(* As long as its _run stays cleared, a thread is on its way out: every    *)
(* step it makes brings it nearer to its end, and nothing that the main    *)
(* thread or another thread does sends it back.  A PLC thread may finish   *)
(* one more cycle, and sleep twice in it.  With the fairness of FairSpec   *)
(* and MutexHeldBriefly this is why ClearedThreadsEnd holds, and why the   *)
(* joins of stop() return.                                                 *)
WindsDown ==
  [][\A t \in Threads : ToEnd(t) =>
       /\ StepsLeft(threads'[t]) <= StepsLeft(threads[t])
       /\ ThreadStep(t) => StepsLeft(threads'[t]) < StepsLeft(threads[t])]_allVars

LEMMA StepsLeftType == ASSUME NEW th \in Thread PROVE StepsLeft(th) \in Nat
<1>1. /\ th.after \in {"test", "retry", "outer", "passive"}
      /\ th.pc \in {"connect", "test", "ensure", "retry", "work", "outer", "passive", "session",
                    "inner", "done", "sleep", "waiting", "blocking"}
  BY DEF Thread, Sleeping
<1>2. AwakeLeft[th.after] \in Nat
  BY <1>1 DEF AwakeLeft
<1>3. th.pc \in DOMAIN SleepLeft => SleepLeft[th.pc] \in Nat
  BY DEF SleepLeft
<1>4. th.pc \notin DOMAIN SleepLeft => AwakeLeft[th.pc] \in Nat
  BY <1>1 DEF AwakeLeft, SleepLeft
<1> QED BY <1>2, <1>3, <1>4 DEF StepsLeft

(* What a move and the beginning of a sleep do to the count.               *)
LEMMA StepsAfterMove ==
  ASSUME TypeOK, NEW t \in Threads, NEW where, where \in DOMAIN AwakeLeft,
         threads' = [threads EXCEPT ![t].pc = where]
  PROVE  StepsLeft(threads'[t]) = AwakeLeft[where]
<1>1. threads'[t].pc = where
  BY DEF TypeOK, Threads, Thread
<1>2. where \notin DOMAIN SleepLeft
  BY DEF AwakeLeft, SleepLeft
<1> QED BY <1>1, <1>2 DEF StepsLeft

LEMMA StepsAfterSleep ==
  ASSUME TypeOK, NEW t \in Threads, NEW where,
         threads' = [threads EXCEPT ![t].pc = "sleep", ![t].after = where]
  PROVE  StepsLeft(threads'[t]) = AwakeLeft[where] + 1
<1>1. threads[t] \in Thread /\ threads'[t] = [threads[t] EXCEPT !.pc = "sleep", !.after = where]
  BY DEF TypeOK, Threads
<1>2. threads'[t].pc = "sleep" /\ threads'[t].after = where
  BY <1>1 DEF Thread
<1> QED BY <1>2 DEF StepsLeft, SleepLeft

LEMMA StepsAwake ==
  ASSUME NEW t \in Threads, threads[t].pc \in DOMAIN AwakeLeft
  PROVE  StepsLeft(threads[t]) = AwakeLeft[threads[t].pc]
BY DEF StepsLeft, AwakeLeft, SleepLeft

LEMMA PlcShorter ==
  ASSUME TypeOK, NEW t \in Threads, ToEnd(t),
         PlcConnect(t) \/ PlcTest(t) \/ PlcEnsure(t) \/ PlcRetry(t) \/ PlcWork(t)
  PROVE  StepsLeft(threads'[t]) < StepsLeft(threads[t])
<1>1. \A r \in ReadRun(t) : r = FALSE
  BY DEF ToEnd, ReadRun
<1>2. \/ threads[t].pc = "connect" /\ Goto(t, "test")
      \/ threads[t].pc = "test" /\ Goto(t, "done")
      \/ threads[t].pc = "ensure" /\ (Goto(t, "work") \/ SleepThen(t, "retry"))
      \/ threads[t].pc = "retry" /\ Goto(t, "work")
      \/ threads[t].pc = "work" /\ (Goto(t, "test") \/ SleepThen(t, "test"))
  BY <1>1 DEF PlcConnect, PlcTest, PlcEnsure, PlcRetry, PlcWork, At
<1>3. ASSUME NEW where, Goto(t, where), where \in DOMAIN AwakeLeft
      PROVE  StepsLeft(threads'[t]) = AwakeLeft[where]
  BY <1>3, StepsAfterMove DEF Goto
<1>4. ASSUME NEW where, SleepThen(t, where) PROVE StepsLeft(threads'[t]) = AwakeLeft[where] + 1
  BY <1>4, StepsAfterSleep DEF SleepThen
<1> QED BY <1>2, <1>3, <1>4, StepsAwake DEF AwakeLeft

LEMMA PanelShorter ==
  ASSUME TypeOK, NEW t \in Threads, ToEnd(t),
         PanelOuter(t) \/ PanelPassive(t) \/ PanelSession(t) \/ PanelInner(t)
  PROVE  StepsLeft(threads'[t]) < StepsLeft(threads[t])
<1>1. \A r \in ReadRun(t) : r = FALSE
  BY DEF ToEnd, ReadRun
<1>2. threads[t].pc \in {"outer", "passive", "session", "inner"} /\ threads[t] \in Thread
  BY DEF PanelOuter, PanelPassive, PanelSession, PanelInner, At, TypeOK, Threads
<1>3. active
  BY <1>2 DEF ToEnd, Thread, Sleeping
<1>4. \/ threads[t].pc = "outer" /\ Goto(t, "done")
      \/ threads[t].pc = "passive" /\ Goto(t, "session")
      \/ threads[t].pc = "session" /\ (Goto(t, "done") \/ SleepThen(t, "outer") \/ Goto(t, "inner"))
      \/ threads[t].pc = "inner" /\ Goto(t, "outer")
  BY <1>1, <1>3 DEF PanelOuter, PanelPassive, PanelSession, PanelInner, At
<1>5. ASSUME NEW where, Goto(t, where), where \in DOMAIN AwakeLeft
      PROVE  StepsLeft(threads'[t]) = AwakeLeft[where]
  BY <1>5, StepsAfterMove DEF Goto
<1>6. ASSUME NEW where, SleepThen(t, where) PROVE StepsLeft(threads'[t]) = AwakeLeft[where] + 1
  BY <1>6, StepsAfterSleep DEF SleepThen
<1> QED BY <1>4, <1>5, <1>6, StepsAwake DEF AwakeLeft

LEMMA SleepShorter ==
  ASSUME TypeOK, NEW t \in Threads, ToEnd(t), SleepTest(t) \/ SleepBlock(t) \/ SleepTimeout(t)
  PROVE  StepsLeft(threads'[t]) < StepsLeft(threads[t])
<1>1. threads[t] \in Thread /\ threads \in Seq(Thread) /\ t \in DOMAIN threads
  BY DEF TypeOK, Threads
<1>2. threads[t].after \in {"test", "retry", "outer", "passive"}
  BY <1>1 DEF Thread
<1>3. AwakeLeft[threads[t].after] \in Nat /\ threads[t].after \in DOMAIN AwakeLeft
  BY <1>2 DEF AwakeLeft
<1>4. CASE SleepTest(t)
  <2>1. threads[t].pc = "sleep" /\ threads' = [threads EXCEPT ![t].pc = threads[t].after]
    BY <1>4 DEF SleepTest, At, ToEnd, ReadRun
  <2>2. StepsLeft(threads[t]) = AwakeLeft[threads[t].after] + 1
    BY <2>1 DEF StepsLeft, SleepLeft
  <2>3. StepsLeft(threads'[t]) = AwakeLeft[threads[t].after]
    BY <1>3, <2>1, StepsAfterMove
  <2> QED BY <1>3, <2>2, <2>3
<1>5. CASE SleepBlock(t)
  <2>1. threads[t].pc = "blocking" /\ threads' = [threads EXCEPT ![t].pc = "waiting"]
    BY <1>5 DEF SleepBlock, At
  <2>2. threads'[t].pc = "waiting" /\ threads'[t].after = threads[t].after
    BY <1>1, <2>1 DEF Thread
  <2>3. StepsLeft(threads[t]) = AwakeLeft[threads[t].after] + 3
    BY <2>1 DEF StepsLeft, SleepLeft
  <2>4. StepsLeft(threads'[t]) = AwakeLeft[threads[t].after] + 2
    BY <2>2 DEF StepsLeft, SleepLeft
  <2> QED BY <1>3, <2>3, <2>4
<1>6. CASE SleepTimeout(t)
  <2>1. threads[t].pc = "waiting" /\ threads' = [threads EXCEPT ![t].pc = threads[t].after]
    BY <1>6 DEF SleepTimeout, At
  <2>2. StepsLeft(threads[t]) = AwakeLeft[threads[t].after] + 2
    BY <2>1 DEF StepsLeft, SleepLeft
  <2>3. StepsLeft(threads'[t]) = AwakeLeft[threads[t].after]
    BY <1>3, <2>1, StepsAfterMove
  <2> QED BY <1>3, <2>2, <2>3
<1> QED BY <1>4, <1>5, <1>6

(* Whoever else acts either leaves t alone or wakes it.                    *)
LEMMA OthersDelayNot ==
  ASSUME IInv, [Next]_allVars, NEW t \in Threads, ToEnd(t)
  PROVE  StepsLeft(threads'[t]) <= StepsLeft(threads[t])
<1>1. TypeOK /\ threads[t] \in Thread /\ StepsLeft(threads[t]) \in Nat
  BY StepsLeftType DEF IInv, TypeOK, Threads
<1>2. CASE threads'[t] = threads[t]
  BY <1>1, <1>2
<1>3. CASE \/ Initialize \/ Start \/ Stop \/ StartNext \/ StartEnd \/ SetRun \/ AddVar
           \/ RemoveClearRun \/ RemoveErase \/ StopNext \/ StopClearRun \/ StopJoin \/ ToggleRole
           \/ (\E d \in Devices, v \in Vars : AddAddress(d, v) \/ RemoveAddress(d, v))
           \/ UNCHANGED allVars
  BY <1>2, <1>3 DEF Initialize, Start, Stop, StartNext, StartEnd, SetRun, AddVar, RemoveClearRun,
     RemoveErase, StopNext, StopClearRun, StopJoin, ToggleRole, AddAddress, RemoveAddress, allVars
<1>4. CASE Spawn
  <2>1. cur \in Instances /\ threads' = threads \o NewThreads(cur)
    BY <1>1, <1>4 DEF Spawn, TypeOK
  <2> QED BY <1>1, <1>2, <2>1, NewThreadsFacts
<1>5. CASE RemoveNotify \/ StopNotify
  <2>1. threads' = Notified(cur) /\ threads \in Seq(Thread) /\ t \in DOMAIN threads
    BY <1>1, <1>5 DEF RemoveNotify, StopNotify, TypeOK, Threads
  <2>2. CASE threads[t].ms = cur /\ threads[t].pc = "waiting"
    <3>1. threads'[t] = [threads[t] EXCEPT !.pc = "sleep"]
      BY <2>1, <2>2 DEF Notified, Threads
    <3>2. threads'[t].pc = "sleep" /\ threads'[t].after = threads[t].after
      BY <1>1, <3>1 DEF Thread
    <3>3. AwakeLeft[threads[t].after] \in Nat
      BY <1>1 DEF Thread, AwakeLeft
    <3>4. StepsLeft(threads[t]) = AwakeLeft[threads[t].after] + 2
      BY <2>2 DEF StepsLeft, SleepLeft
    <3>5. StepsLeft(threads'[t]) = AwakeLeft[threads[t].after] + 1
      BY <3>2 DEF StepsLeft, SleepLeft
    <3> QED BY <3>3, <3>4, <3>5
  <2>3. CASE ~(threads[t].ms = cur /\ threads[t].pc = "waiting")
    BY <1>2, <2>1, <2>3 DEF Notified, Threads
  <2> QED BY <2>2, <2>3
<1>6. ASSUME NEW u \in Threads, ThreadStep(u), u # t
      PROVE  StepsLeft(threads'[t]) <= StepsLeft(threads[t])
  BY <1>1, <1>2, <1>6, OneThread
<1>7. ASSUME ThreadStep(t) PROVE StepsLeft(threads'[t]) <= StepsLeft(threads[t])
  <2>1. StepsLeft(threads'[t]) < StepsLeft(threads[t])
    BY <1>1, <1>7, PlcShorter, PanelShorter, SleepShorter DEF ThreadStep
  <2>2. StepsLeft(threads'[t]) \in Nat
    <3>1. TypeOK' /\ Threads' = Threads
      BY <1>1, <1>7, OneThread, StepInv DEF IInv
    <3>2. threads'[t] \in Thread
      BY <3>1 DEF TypeOK, Threads
    <3> QED BY <3>2, StepsLeftType
  <2> QED BY <1>1, <2>1, <2>2
<1> QED BY <1>3, <1>4, <1>5, <1>6, <1>7 DEF Next, MainOp, MainStep

(* Every thread of a device whose _run is cleared winds down.              *)
THEOREM Ends == Spec => WindsDown
<1>1. ASSUME IInv, [Next]_allVars, NEW t \in Threads, ToEnd(t)
      PROVE  /\ StepsLeft(threads'[t]) <= StepsLeft(threads[t])
             /\ ThreadStep(t) => StepsLeft(threads'[t]) < StepsLeft(threads[t])
  BY <1>1, OthersDelayNot, PlcShorter, PanelShorter, SleepShorter DEF ThreadStep, IInv
<1>2. IInv /\ [Next]_allVars =>
        [\A t \in Threads : ToEnd(t) =>
           /\ StepsLeft(threads'[t]) <= StepsLeft(threads[t])
           /\ ThreadStep(t) => StepsLeft(threads'[t]) < StepsLeft(threads[t])]_allVars
  BY <1>1
<1> QED BY Inductive, <1>2, PTL DEF Spec, WindsDown
-----------------------------------------------------------------------------
(* While stop() goes through the map, the devices that still run are those *)
(* it has not visited and the one it is at.                                *)
VisitInv ==
  phase \in {"stopping", "stopped"} =>
    /\ \A i \in alive : run[i] => Dev(i) \in todo \/ (cur = i /\ mpc = "stopRun")
    /\ mpc = "join" \/ phase = "stopped" => todo = {}

LEMMA VisitStep == ASSUME IInv, VisitInv, [Next]_allVars PROVE VisitInv'
<1>1. TypeOK /\ MainInv /\ InstanceInv /\ alive \subseteq Instances
  BY DEF IInv, TypeOK
<1>2. \A i \in alive : Dev(i) \in Mapped /\ i = Of(Dev(i))
  BY AliveIsMapped
<1>3. CASE Stop
  <2>1. phase = "started" /\ mpc' = mpc /\ mpc = "idle" /\ phase' = "stopping" /\ todo' = Mapped
        /\ alive' = alive
    BY <1>3 DEF Stop, Visited
  <2> QED BY <1>2, <2>1 DEF VisitInv
<1>4. CASE StopNext
  <2>1. phase = "stopping" /\ phase' = phase /\ mpc = "idle" /\ UNCHANGED <<alive, run>>
    BY <1>4 DEF StopNext
  <2>2. ASSUME NEW d \in todo, todo' = todo \ {d}, cur' = Of(d), mpc' = "stopRun"
        PROVE  VisitInv'
    BY <1>2, <2>1, <2>2 DEF VisitInv
  <2>3. CASE todo = {} /\ mpc' = "join" /\ UNCHANGED <<todo, cur>>
    BY <2>1, <2>3 DEF VisitInv
  <2> QED BY <1>4, <2>2, <2>3 DEF StopNext
<1>5. CASE StopClearRun
  <2>1. /\ mpc = "stopRun" /\ mpc' = "stopNotify" /\ run' = [run EXCEPT ![cur] = FALSE]
        /\ UNCHANGED <<phase, todo, alive>> /\ run \in [Instances -> BOOLEAN]
    BY <1>1, <1>5 DEF StopClearRun, TypeOK
  <2>2. phase \notin {"stopped"}
    BY <1>1, <2>1 DEF MainInv
  <2> QED BY <1>1, <2>1, <2>2 DEF VisitInv
<1>6. CASE StopNotify
  <2>1. mpc = "stopNotify" /\ mpc' = "idle" /\ UNCHANGED <<phase, todo, alive, run>>
    BY <1>6 DEF StopNotify
  <2>2. phase # "stopped"
    BY <1>1, <2>1 DEF MainInv
  <2> QED BY <2>1, <2>2 DEF VisitInv
<1>7. CASE StopJoin
  <2>1. mpc = "join" /\ mpc' = "idle" /\ phase' = "stopped" /\ UNCHANGED <<todo, alive, run>>
    BY <1>7 DEF StopJoin
  <2>2. phase = "stopping"
    BY <1>1, <2>1 DEF MainInv, TypeOK, Phases
  <2> QED BY <2>1, <2>2 DEF VisitInv
<1>8. CASE \/ Initialize \/ Start \/ StartNext \/ StartEnd \/ SetRun \/ Spawn \/ AddVar
           \/ RemoveClearRun \/ RemoveNotify \/ RemoveErase
           \/ \E d \in Devices, v \in Vars : AddAddress(d, v) \/ RemoveAddress(d, v)
  <2>1. phase \notin {"stopping", "stopped"}
    BY <1>1, <1>8, LifecycleAssumption DEF MainInv, Initialize, Start, StartNext, StartEnd, SetRun,
       Spawn, AddVar, RemoveClearRun, RemoveNotify, RemoveErase, AddAddress, RemoveAddress
  <2>2. phase' \notin {"stopping", "stopped"}
    BY <1>8, <2>1 DEF Initialize, Start, StartNext, StartEnd, SetRun, Spawn, AddVar, RemoveClearRun,
       RemoveNotify, RemoveErase, AddAddress, RemoveAddress
  <2> QED BY <2>2 DEF VisitInv
<1>9. CASE ToggleRole \/ UNCHANGED allVars \/ \E t \in Threads : ThreadStep(t)
  <2>1. UNCHANGED <<mainVars, run>>
    BY <1>1, <1>9, OneThread DEF ToggleRole, allVars
  <2> QED BY <2>1 DEF mainVars, VisitInv
<1> QED BY <1>3, <1>4, <1>5, <1>6, <1>7, <1>8, <1>9 DEF Next, MainOp, MainStep

(* When stop() joins, every device that exists has been asked to stop.     *)
THEOREM AllAsked == Spec => []AskedBeforeJoin
<1>1. Init => VisitInv
  BY DEF Init, VisitInv
<1>2. IInv /\ VisitInv /\ [Next]_allVars => VisitInv'
  BY VisitStep
<1>3. IInv /\ VisitInv => AskedBeforeJoin
  BY DEF IInv, MainInv, TypeOK, Phases, VisitInv, AskedBeforeJoin
<1> QED BY Inductive, <1>1, <1>2, <1>3, PTL DEF Spec
=============================================================================
