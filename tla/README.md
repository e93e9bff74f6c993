# The RAMS7200 driver in TLA+

A WinCC OA driver (`src/`) that exchanges values with Siemens S7-200 PLCs through
the snap7 library and files with the touch panels beside them. These modules
model its core; TLC checks them on small instances and TLAPS proves their main
safety properties for every instance.

1. [The system](#1-the-system)
2. [The modules](#2-the-modules)
3. [The runs](#3-the-runs)
4. [Fairness](#4-fairness)
5. [The proofs](#5-the-proofs)
6. [What the models leave out](#6-what-the-models-leave-out)
7. [What the code does that a reader may not expect](#7-what-the-code-does-that-a-reader-may-not-expect)
8. [Plan](#8-plan)

## 1. The system

Three kinds of threads share the state of the devices.

* The **main thread** belongs to the WinCC OA framework (DrvManager). It calls
  `HWMapper::addDpPa`/`clrDpPa` when an address is configured or removed,
  `HWService::initialize`, `start`, `stop`, and in between `writeData` for a value that
  WinCC OA writes and `workProc` to deliver what has been read.
* One **PLC thread** for each started device: it connects, and once a second writes what is
  waiting and polls what is due.
* One **panel thread** for each started device with a touch panel: it connects to the panel
  and serves its requests for the user file and its transfers of log files.

```
              addDpPa, clrDpPa          start, stop
  WinCC OA ----------------> HWMapper ----------------> HWService
     |  ^                       | RAMS7200MSs               | spawns, joins
     |  | workProc              v                           v
     |  +---- _toDPqueue <--- RAMS7200MS <------------- PLC thread --- snap7 --- PLC
     |                          ^  _run, _threadCv      panel thread -- TCP ---- panel
     +---- writeData -> _toPlc -+
```

| Component | State | Operations | What makes it hard | What makes it correct |
|---|---|---|---|---|
| `RAMS7200LibFacade::RAMS7200ReadWriteMaxN` | `last_index`, `to_send`, `curr_sum`, the items' `Result`, `ioFailures` | cut a list of items into requests that fit the PDU, queue what was read | sizes at a limit, an item too large for a request, one request or item of several failing | every item asked for once, no request too large, nothing delivered that the PLC did not send |
| `RAMS7200HWMapper` | `RAMS7200MSs`, the HWObjects | `addDpPa`, `clrDpPa`, `addAddress`, `removeAddress` | changes while threads run, a device erased under its threads | a running device has a thread, map and devices agree |
| `RAMS7200HWService` | `_driverRun`, `_plcThreads`, `_panelThreads`, `_toDPqueue` | `initialize`, `start`, `stop`, `handleNewMS`, `writeData`, `workProc` | joining threads that sleep or wait, the queue between threads | `stop` asks every thread to end and returns |
| `RAMS7200LibFacade`, connection | `_client`, `_wasConnected`, `ioFailures`, the `_Error` data point | `Connect`, `Disconnect`, `EnsureConnection` | outages, role changes and the stop request at any step | the error data point follows the PLC, polling resumes |
| `RAMS7200MS`, `RAMS7200MSVar` | `vars`, `_toPlc`, `lastPollTime`, `_run` | `addVar`, `removeVar`, `queuePLCItem`; `WriteToPLC` and `Poll` of the facade | a write while the thread sends the one before, lost answers, a queue behind | writes go out once and in order, data points follow the PLC in order |
| several PLC threads of one device | the same, twice: each thread has its own facade | `start`, `addAddress`, `removeAddress` while threads run | nobody asks whether the thread before has ended | no write lost or sent twice, a handover that WinCC OA does not notice |
| `RAMS7200Panel` | socket, `sock_err`, the files, three buffers | `FileSharingTask`, `writeTouchConnErrDPE` | a marker cut by TCP, some two dozen ways out of a connection | no file damaged, no descriptor left open, the panel connected again |
| `Transformations`, `Common::S7Utils` | none | `toPeriph`, `toVar`, the S7 item of an address | width, sign and order of bytes, bits counted in bits | what is written is what the PLC's program sees, neighbours untouched |
| `Constants`, `RAMS7200Resources`, `Logger` | configuration, redundancy role, debug level | reading the config file, `parse_map`, `setLogLvl`, output | two bytes read from a buffer of any type | the level is the one that was written; the config file is not modelled |
| `RAMS7200Main`, `RAMS7200Drv`, `RAMS7200Encryption` | | start-up, DES | | not modelled, see 6 |

The hazards that follow from this are listed in `PROJECT.json`, each at its line and with
the properties that would catch it.

## 2. The modules

In the order in which they were written, the most important first.

| Module | Models | State and actions against the code |
|---|---|---|
| `Batching` | `RAMS7200ReadWriteMaxN` | the local variables by their names; `StartBatch`, `Take`, `CallArea`/`CallMulti`, `ReportItem`, `EndRequest` are the stages of its loop. The item list is given by its end offsets. |
| `DeviceLifecycle` | `HWMapper::addAddress`/`removeAddress`, `HWService::initialize`, `start`, `stop`, `handleNewMS`, the control of both threads, `sleep_for` | `phase` and `mpc` are where the main thread is, one action for each access to what threads share; `threads` holds every thread ever spawned. A device added again is a new *instance*. The mutex and the wait of the condition variable are three steps: `SleepTest`, `SleepBlock`, `SleepTimeout`. |
| `PlcConnection` | the loop in `handleNewMS` with `Connect`, `Disconnect`, `EnsureConnection` | one action for each read of the role and each access to the client, so that the role, the network and the stop request may change in between |
| `ProcessImage` | the promise of the data path | the n-th value of a variable is the number n; a data point shows a value that was there and never an older one after a newer one |
| `DataPath` | `writeData`, `WriteToPLC`, `Poll`, `insertInDataToDp`, `workProc` | slots, the passes of the thread, requests, the queue. Its request is any part of the list: how a list is cut is `Batching`. It implements `ProcessImage` (`ImageSpec`), with the same variables `plc`, `dp`, `blank`. |
| `SharedDevice` | `handleNewMS`, `start`, `addAddress`, `removeAddress` around the data path | two instances of `DataPath`, `First` and `Second`, over the same slots, poll times, queue and PLC, each with its own `pc` and lists: `pc1`, `taken1` and so on. `Spawn` is the thread that `handleNewMS` starts, `Returns1`/`2` the end of its loop. `alone` remembers whether two threads have ever been there at a time. |
| `PanelTransfer` | the `LogFile` treatment of `FileSharingTask` | names, packets, the search for `##PNL_ACK##` in the last two packets, the file and the `ofstream` in front of it |
| `ValuePath` | `S7Utils`, the six transformations, `addDpPa`/`clrDpPa`, `addVar`/`removeVar`, `queuePLCItem`, `parse_map` | bytes of a small base; the whole way of a value is one step, the steps on it are those of `DataPath`. `configs`, `objects` and `msVars` are the base class's configs, the HWObjects and `RAMS7200MS::vars`, which are found by text; a poll time is its digits, so that `std::stoi` and `std::to_string` may not undo each other. |
| `PanelSession` | the rest of `FileSharingTask` | `pc` is the place in the code, `fd` what the number `socket_desc` stands for: a number that was closed may come to belong to another thread |

`MC_*` modules give `Batching`, `DataPath`, `SharedDevice`, `PanelTransfer` and `ValuePath` their values for
TLC; the other modules take theirs from the `.cfg`. `*Proofs` modules hold the theorems.
`PROJECT.json` maps every definition to the lines it stands for.

How the modules fit together: `DeviceLifecycle` has the whole life of the threads with
their work as one step. `PlcConnection`, `DataPath` (with `Batching` inside a request and
`ValuePath` inside a value) and `PanelSession` (with `PanelTransfer` inside a treatment)
each look into one of those steps. They share no variable but the role and the stop
request, which every one of them lets change at any time. `SharedDevice` composes the data
path with the part of that life in which a device has two threads, or one after the other.

Operators called `...Forgotten`, `...OneLess`, `...Unchecked`, `...IfFree` and the like stand before the
definition they vary. They are that definition with a plausible mistake, used to see that each
property notices one; no specification uses them.

## 3. The runs

| Run | Instance | States | What it shows |
|---|---|---|---|
| `batching` | lists of up to 4 items of 4 sizes, PDU 13, 2 variables at most | 664,913 | PDU and variable limit respected, every item asked for once and in order, the area call only where needed, requests filled, answers and failures accounted for |
| `batching_area` | 2 items | *violated* | `AreaReadSucceeds`: see findings |
| `lifecycle` | one device, two variables, two additions, each of which may fail half-way, addresses added and removed in every phase | 1,521,396 | a running device is served, no notification is lost, map and instances agree, `stop()` passes no device over |
| `lifecycle_live` | one device with a panel, one role change, removals while started | 89,970 | `stop()` returns if the server becomes active, threads of a device that was stopped end |
| `lifecycle_stop` | the smallest device with a panel | *violated* | `StopReturns`: see findings |
| `connection` | failure limit 5 as in the code, two requests in a cycle, the role may change everywhere | 6,348 | the error data point is raised and cleared, and set to "fine" on a connection only, but for a thread that is being stopped (see 7); polling resumes; the thread ends |
| `datapath` | two polled variables of different periods and one output, two writes, or one and one value of the PLC's own | 145,100 | writes once and in order, a written variable polled in the same pass, the refinement of `ProcessImage`; the last write is sent, and every data point comes to show the PLC's value |
| `shared_device` | one variable, two threads, two writes and one value of the PLC's own | 891,404 | no write sent twice or lost but to a later one, whatever the threads do; order of writes and image kept by threads that take turns |
| `panel_transfer` | a marker of 3 characters, five texts with pieces of it, packets of up to 4, four contents of the uninitialised buffers, two treatments of two files | 5,240 | the file holds what has arrived, through packets, rewriting and failures; acknowledged files complete, the end found if it lies in at most two packets |
| `panel_transfer_split` | the same | *violated* | `ReceivedIsSent`: see findings |
| `panel_session` | no bound needed | 800 | no socket or file left open, a panel that is there is connected again, one that is away is shown, the thread ends |
| `value_path` | seventeen addresses of all types that touch and overlap, a bit beyond the end of its byte, one variable with two poll times, one with a leading zero, the debug level; two at a time, two writes, two memories, bytes of 2 bits | 290,262 | the PLC's program and the logger see what was written, what is polled finds its data point, a poll shows what the PLC has, neighbours stay |

Why the bounds are enough:

* `Batching`: sizes 1, 3, 7, 8 with headers of 2 and 3 in a PDU of 13 lie on both sides of
  every comparison (8 + 2 + 3 = 13 is just too large, 7 just fits, 3 + 2 + 3 + 2 + 3 = 13
  is just too large for two). Four items are a full request, a request after an area call
  and one after a failure. The invariants are proved without bounds.
* `DeviceLifecycle`: two additions are a device removed and added again, or one with two
  variables of which one is removed. More devices do not interact: they share only
  `_driverRun` and the main thread. Panels only matter for ending, in `lifecycle_live`.
* `PlcConnection`: `FailureLimit` is the code's. Role, network and stop request are not bounded.
* `DataPath`: `MaxNews` allows two writes, or a write and a change: both writes to `slow`, so that the second
  overwrites the first in its slot or refills the slot while the first is being sent, or one of them to the
  output, which has no slot. Both writes and the change together are in `shared_device` and in the proofs.
  `MaxQueue` 1 at the start of a pass lets a queue hold
  answers of two passes for one variable. `MaxPass` 1 second with `Interval` 1 and poll times 1 and 2:
  passes within one whole second, and at a period. `Junk` is one variable.
* `SharedDevice`: one variable is enough for two threads to meet at its slot, its poll time and its queue;
  that a device has at most two threads is a bound of `Spawn`. All its properties are proved for any
  variables and bounds, with two threads.
* `PanelTransfer`: the marker begins and ends alike as `##PNL_ACK##` does; a packet can hold
  text and marker, the marker alone, or any piece; two treatments let the buffers keep what
  the first left; a stream buffer of 3 is written out in the middle of a file.
* `ValuePath`: with bytes of 2 bits a 16 bit integer has 16 values and a 32 bit one 256, so
  that values are cut, negative and out of order. Two addresses at a time: one that
  writes and one that must not notice, or two of the same variable. All its properties are proved for
  bytes of up to eight bits, any addresses, memories and values.

`CHECK_DEADLOCK FALSE` stands where the code really ends (a function that returns, a thread that is
done, a service that has stopped) or where the inputs of the run are used up (`ValuePath`,
`PanelTransfer`).

### Findings

* **`batching_area`**: `RAMS7200LibFacade.cxx:188` says of an item larger than the PDU "Call
  with ReadArea because it can split the request automatically". `ReadArea` is given the
  item's fields and never sets `Result`, which line 210 reads all the same; nobody has
  initialised it. A value that was read well is dropped with "Error in reading address", or a
  buffer of zeroes is delivered after a read that failed.
* **`lifecycle_stop`**: `stop()` joins a panel thread that, on a passive server, waits in
  `while(getDisableCommands())` (`RAMS7200Panel.cxx:62`) without a look at `_run`.
* **`panel_transfer_split`**: when the marker ends in a packet of its own, line 559 writes the
  shortened text over the beginning of the file, and does not shorten the file: a part of the
  marker stays in it.

## 4. Fairness

* `Batching`, `SharedDevice`, `PanelTransfer`, `ValuePath`, `ProcessImage`: safety only, none.
* `DeviceLifecycle`: weak fairness of what the main thread has begun and of every thread. The
  operating system schedules them; every `sleep_for` is a `wait_for`, every `recv` has a
  timeout of two minutes. (A `send` has none, `SO_SNDTIMEO` is not set: that it returns is assumed, here and
  of `PanelSession`.) Nothing makes the framework add, remove or stop.
  `StopReturnsIfActive` and `ClearedThreadsEnd` suppose a server that becomes active for good
  and no thread of a device that was erased (such a thread reads freed memory).
* `PlcConnection`: weak fairness of the thread; strong fairness of a cycle that makes a
  request, as every variable is due again after its period. Needed because a connection that
  has broken unnoticed is only given up after five failed requests.
* `DataPath`: `Scheduling` is weak fairness of both threads and strong fairness of `CollectWrites` (a server
  that is active again and again) and of a `Wake` after at least a second (time passes). `MC_DataPath` adds
  strong fairness of an answer to a request for `slow` and of a `toDp` for it: what is tried for ever for the variable
  that `PointCatchesUp` is about does not fail for ever. Requests for `fast` may. That the main thread keeps
  up with the queue is the guard of `Wake` (`MaxQueue`), an assumption and no result.
* `PanelSession`: weak fairness of the thread; strong fairness of `Connect` (a panel that can
  be reached is reached at last) and of `EndOfNames` (a panel does not send names for ever).
  `PanelComesBack` and `AwayIsShown` suppose `Undisturbed`: `socket()` never fails, and the thread does not go
  on in its inner loop with the number of a socket it has closed after another thread has been given that number.
  That another thread has the number until the next socket is made is allowed. Without it the code promises
  nothing, see 7. `ThreadEnds` needs no such condition.

## 5. The proofs

All are for every value of the constants that satisfies the named assumption of the module.
Every module has an inductive invariant `IInv`; `Inductive` proves `Spec => []IInv`. (In
`SharedDeviceProofs` there are two, `WritesInv` and `HandoverInv`.)

| Module | Theorems | Argument |
|---|---|---|
| `BatchingProofs` | `TypeCorrect`, `PduSafe`, `AreaJustified`, `Partition`, `Full`, `Accounted`, `Ends` | `LoopInv`: between requests everything asked for has been reported on; `currSum` is the size of the request being built, which has fitted since its first item. `Chained`: consecutive requests ask for consecutive ranges. Offsets instead of sizes make the size of a request a difference, so no sum has to be computed. `Full` and `Accounted` are inductive with these: a request is only sent when the next item does not fit, and the client only sets `Result` of items that have not been reported on. |
| `DeviceLifecycleProofs` | `TypeCorrect`, `Served`, `WakeupNotLost`, `MapIsConsistent`, `AllAsked`, `LockIsReleased`, `Ends` | `MainInv`: what the main thread can do in each phase. `InstanceInv`: the living instances are the mapped ones, a generation that does not exist has no thread. `SleepInv`: a thread about to block holds the mutex and has seen `_run` set; only `stop()` clears it without the mutex, which is why `WakeupNotLost` speaks of a driver that runs. `VarsInv` says that a device without variables is running or in the hands of the main thread (a failed addition leaves it running). `LockInv` is the converse of `SleepInv`: who holds a mutex is about to release it. `VisitInv`: while `stop()` goes through the map, what still runs is what it has not visited. |
| `PlcConnectionProofs` | `TypeCorrect`, `IoSafe`, `FineIsConnected`, `Ends` | `LinkInv`: `_wasConnected` covers `Connected()`, the retry loop is only left connected or stopped, what follows a reconnection has a fresh counter. |
| `DataPathProofs` | `TypeCorrect`, `WritesInOrder`, `ReadBack`, `Refinement` | `SlotInv`: slot newer than taken newer than sent. `PassInv` and the lemma `WrittenIsDue`: what is collected or written in this pass is due until it is polled. `QueuedInv`, `GotInv`, `PointInv`: shown, queued, to be queued and in the PLC are in order, for each variable. From these every step is one of `ProcessImage` or changes nothing it sees (`ImageStep`). |
| `SharedDeviceProofs` | `SentOnce`, `NothingOvertaken`, `OrderKept`, `ImageKept` | `WritesInv`: each write is in one place, the slot, one of the two threads' lists or what has been sent, and the newest is in one of them; the order of the threads' steps does not matter. `HandoverInv`: while no threads overlap, the invariant of `DataPathProofs` holds for the thread that serves the device or, between two, for a thread asleep with empty hands (`P0`). `GapAfter` and `GapBefore` carry it across; in between `StepInv` and `ImageStep` are cited through the instances `P0`, `P1`, `P2` and nothing is proved again. |
| `PanelTransferProofs` | `TypeCorrect`, `Kept`, `Complete`, `EndFound` | `ArrivedInv`: what has arrived of text and marker ends in the last packet. While a file is in hand `Kept` follows from it (`FileInHand`), also after the rewriting in place; the steps that let go of a file keep it (`FileStep`). The lemmas `Suffix`, `SuffixLaws`, `TwoCuts` are about ends of sequences, `MarkerIsTheEnd` says that a marker found is the one that ends the text: this needs the assumption that no text holds a marker (`PanelTransferAssumption`), without which no receiver could work. |
| `PanelSessionProofs` | `TypeCorrect`, `NoLeak`, `Ends` | Only `CreateSocket` opens a socket and only `OpenUserFile` a file; `TypeOK` says where the file may be open, `NothingLeaks` where the socket may not. The two together are inductive. |
| `ValuePathProofs` | `Served`, `TypeCorrect`, `Seen`, `Shown`, `Untouched` | `FromAnObject`: each slot has the poll time of an address that is still configured, because the removal of any address of a variable removes the slot. `ObjectsHaveVars`: the only address of a variable has a slot. What is polled then finds its HWObject by text, if the digits of the poll time are those `std::to_string` writes. `DataInv` is a second invariant: what waits in a slot is `toPeriph` of a value of that variable (`SlotHolds`), the memory holds bytes, the debug level two of them, and what was written is seen. |

The lemmas below `DataInv` are the arithmetic of the transformations, for bytes of one to eight bits:

* `PowersTable` has the powers of two, `WithBitLaws` says that setting a bit leaves a byte and its other bits.
* `ItemPlace`, `BitPlace` and `StoredFrame`: the S7 item of an address is the bits that `Covers` gives it, and storing it
  changes no others. `Untouched` is this for what a slot holds, whether its type matches the address or not.
* `QuotientOfQuotient`, `QuotientAndRest`, `WholeOfFour`: taking a number apart by its base and putting it together, for
  the bases that bytes of one to eight bits have.
* `HostBytesAre`, `SignedTwo`, `SignedFour`, `SignedTwoUnique`, `SignedFourIs`: the bytes of a number, swapped, stored and put
  together again with the sign are the number that was meant: `WriteSeen` for the PLC's program, `PollSees` for the poll.
* `LeastElement`: a set of naturals has a least element, from `WFMin` and `NatLessThanWellFounded`. It gives the first
  zero of a text (`TextEnds`) without an induction over texts; `UpToZeroIs` and `StringToVarIs` say that the PLC's
  program and `toVar` both stop there.

They rest on two assumptions. `ValuePathAssumption`: a byte has one to eight bits, and a variable and a poll time
make one peripheral address, as the framework has one address for each text. `ValuesAssumption`: WinCC OA's
integers have four bytes, a `bool` is 0 or 1 and a text has no zero in it. `DataInv` and `IInv` have
also been checked by TLC on the instance of `value_path`.

The four theorems `Ends` are the safety half of termination. Each names a variant, `StepsLeft`. For
`RAMS7200ReadWriteMaxN` (`Batching`) it is lowered by every step and at most `5 * N + 1`: an item that fits no request,
a failed request and an item answered with an error are passed over, never tried again. For threads it goes by the
place of the thread, and `WindsDown` says of every step, in the three cases:

* a PLC thread whose `_run` is cleared (`PlcConnection`) only takes steps that lower the variant, so eleven are enough;
  the role, the network and a lost link do not raise it;
* a stopped panel thread (`PanelSession`) likewise, but a name received takes it back by three: the loop over names
  does not look at `_run`, which is why `ThreadEnds` needs `SF_vars(EndOfNames)`;
* the threads of a device (`DeviceLifecycle`) likewise while `_run` stays cleared (a panel thread while the server
  is active), sleeps included: a notification shortens a wait and nothing lengthens it. That the mutex a thread needs becomes free is `LockIsReleased`,
  that each device has been asked before the joins `AllAsked`.

That these steps are in the end taken is the fairness of `FairSpec`, and that the runs check: `ThreadEnds`,
`ClearedThreadsEnd`, `StopReturnsIfActive`. TLC has also checked `WindsDown`, `Returns`, `LockInv` and `VisitInv` as
properties of small instances.

Model-checked only: all liveness (under fairness, out of the prover's reach) and the three violations. Every invariant
and every action property of a passing run is proved.

## 6. What the models leave out

* **Configuration** (`Constants`, `RAMS7200Resources`): TSAP ports, paths and the polling interval
  are read once at start. The interval is a constant of `DataPath`, the role a variable.
  `parse_map`, the data points that `writeData` answers by itself, is in `ValuePath`.
* **Logger**: the level is in `ValuePath`, the rest is output. **Main, Drv**: registration with the framework; the order in which it calls
  the classes is not in `src/` and is a parameter of `DeviceLifecycle` (`AddPhases`, `RemovePhases`).
* **Encryption**: DES is vendored; sending a piece of the user file may fail, what it holds is left out.
* **snap7, WinCC OA, TCP, the panel and the PLC** are modelled from how the code uses them: a
  request is answered, answered with errors for some of its items, or not at all.
* `DeviceLifecycle`: what threads do is one step each. A read of an erased device's `_run` gives either
  value (undefined behaviour); its mutex excludes nobody. A crash of such a read is left out.
* `DataPath`, `SharedDevice`: a fixed set of variables with one address each (several addresses of a variable
  are in `ValuePath`), one thread in the one and at most two in the other, a device that is not erased (erased
  ones are in `DeviceLifecycle`). That an area
  read leaves `Result` unset is in `Batching`; here an unset `Result` may let a buffer of zeroes
  through (`Junk`). The memory of the buffers, some of which are never freed, is left out.
* `PanelTransfer`: the directory switch `"Event"`, NUL bytes in files and names longer than their
  buffers are left out. The `ofstream` writes out when it is full and at no other time.
  `pc = "undefined"` is a `pop_back` of an empty string, after which nothing is claimed. A first packet shorter than
  the marker that an old or uninitialised `lastMsg` completes to one always ends there.
* `PanelSession`: `connect_try_count` only chooses between four and ten seconds of sleep. `des_setup`
  cannot fail for the key it is given. Without a treatment that is known the loop goes round.
* `ValuePath`: addresses are given by their parts; `std::stoi` on characters that are no digits
  is left out. The PLC has memory for area V only. A float is the integer with its bits. That the
  type of a data point matches its address is an assumption of `PlcSeesWritten` and `PollShowsPlc`
  (`RAMS7200HWMapper.cxx:111` has a TODO for a check), not of the model: with a type too small
  for the address the bytes behind the buffer are arbitrary, and only `NeighboursUntouched` says anything.

## 7. What the code does that a reader may not expect

No property that holds of the code contradicts these. The last is about the documentation alone, and that
a `send` never blocks is an assumption of the models; the others are their behaviours.

* Removing one address of a device clears `_run` for the whole device: its other variables are
  not polled until an address is added again (`RAMS7200HWMapper.cxx:183`).
* A device whose addresses are removed and added again, or that is added between `initialize` and `start`, may
  have two PLC threads, though `src/doc/RAMS7200Design.uml` has one for each IP address. Then writes may go out
  in another order than WinCC OA made them, a written variable need not be polled in the same pass, and a data
  point may go back to an older value: TLC refutes each part of `HandoverKeepsOrder` and
  `HandoverKeepsImage` without `alone`. If the device was erased in between, the threads of the first keep
  a reference to it.
* Of two addresses of one variable only the first one's poll time counts, its data point alone is polled, and
  removing either stops the polling of both (`RAMS7200MS.cxx:12`); the comment at `RAMS7200MS.hxx:57` has poll
  times that can be changed on the fly.
* An address whose poll time is no number makes `std::stoi` throw when its device has already been mapped and
  started: the device runs without the variable (`RAMS7200HWMapper.cxx:174`; what the framework does with the exception is
  not in `src/`).
* A thread that is stopped while it tries to reconnect leaves the loop and publishes "fine" for a PLC it has not
  reached, if the server is active (`RAMS7200LibFacade.cxx:58-61`). It is the one exception that
  `FineOnlyAfterConnecting` makes.
* An item whose size with all headers equals the PDU is read by the area call too, where the comment at
  `RAMS7200LibFacade.cxx:188` has "mem size > PDU".
* A write replaces one that is still in the slot; a write that fails is not repeated.
* The role is read before `EnsureConnection` and used after it: a server that has become passive in between
  writes and polls once more.
* Most failures of a panel connection close the socket twice, the second time a number that may already be
  another thread's. `sock_err` outlives its connection. A single failure of `socket()` ends the thread.
* Only receiving has a timeout on the panel's socket (`RAMS7200Panel.cxx:238`): a `send` that blocks holds up the thread, and
  `stop()` with it.
* A file name shorter than the marker, after a treatment that ended, ends the next one
  (`RAMS7200Panel.cxx:445`).
* The poll's data point is named with `std::to_string` of the poll time: an address written `"05"` is
  polled and its values find no HWObject (`RAMS7200LibFacade.cxx:109`).
* The bit number of an address is not compared with 8: `V0.9` is accepted and names bit 1 of byte 1
  (`S7Utils.hxx`: `AddressIsValid`, `TS7DataItemFromAddress`).
* `src/README.md:228` gives 1002 to int32 and 1003 to an int64 that does not exist, where
  `RAMS7200HWMapper.hxx:27` has int16 and int32; `src/README.md:259` calls DEBUGLVL an INT32, which
  `Constants.cxx:40` reads as 16 bits of the PLC's order, so that a small level of that type becomes 0, which silences
  warnings and errors too (and the name in the map is `_DEBUGLVL`).

## 8. Plan

Done: all components that keep state, one run for each question, proofs for every module.

What is left, in the order of what it would add:

1. `SharedDevice` with any number of threads: the two instances become a function of threads; `WritesInv` is
   written so that it generalises (one place for each write).
2. The variables of a device changing under its threads (`addVar`, `removeVar` while passes run) in the same
   module, with a data point that loses its HWObject while its value is in the queue.
3. `PanelSession` with the foreign descriptor as a second actor, to state what the double close may do to it.
