# A TLA+ model of the SRTM OPC UA server

This directory models and verifies the server in `../src`: the quasar-based OPC UA server
that monitors an ATLAS LAr SRTM board (I2C sensors, Firefly optical modules, the IPMC block,
the Zynq) and publishes the readings. The models are written from the code; where a comment
or document of the repository promises something else, a run or a line under
[known divergences](#known-divergences) says so.

Contents: [inventory](#inventory), [modules](#modules), [runs](#runs), [proofs](#proofs),
[only model-checked](#only-model-checked), [not modelled](#not-modelled),
[known divergences](#known-divergences), [plan](#plan).

## Inventory

The server has one main thread. It reads the configuration, starts the stack, wakes up twice a
second, reads all sensors and publishes them (`QuasarServer::mainLoop` → `DRegs::update` →
`sensorMonitor`, `sensorFormat`, `extract_*` → setters of cache variables), and takes everything
down again. Beside it run the threads of the OPC UA stack, which read, write and set variables
for the clients, and the worker threads of the source-variable pool. A cache or free variable
that changes updates, in the thread that changed it, the calculated variables whose formulas
read it. The IPMC is another processor that writes its block at any time.

### Quasar::ThreadPool (`Common`)
State: `m_pendingJobs`, `m_accessLock`, `m_conditionVariable`, `m_quit`, the workers and the
job each has in hand. Operations: constructor, `work()`, `addJob()`, destructor. Used by the
source variables, destroyed by the server first thing in its shutdown. Hard: workers, callers
and destructor interleave at every lock, wait and unlocked read of `m_quit`. Correct if: a job
runs and is deleted once, jobs start in the order of acceptance, the queue respects its
limit, no wakeup is lost, accepted jobs run, the destructor comes back and leaves nothing.

### CalculatedVariables: engine and elaboration (`CalculatedVariables`)
State: the list of ParserVariables, for each the calculated variables it notifies, whether it
is a constant, and its synchronizer; the generic formulas. Operations: registration of
variables, elaboration of formulas, instantiation of a calculated variable, `optimize()`,
`setupSynchronization()`. Runs once, in one thread, while the configuration is read; what
it computes decides which threads exclude each other later. Hard: the order of registration,
erased variables that something still points to, constants, a depth-first search along a graph
that it is also cutting; a loop of textual substitutions. Correct if: nothing points to an
erased variable, two variables have the same synchronizer exactly if their updates can meet,
elaboration ends, and a formula reads the variables it names.

### CalculatedVariables: run time (`CalculatedVariables`, `ChangeNotifyingVariable`)
State: value in the address space; value, state and synchronizer of each ParserVariable; the
nested calls of each thread. Operations: `setValue()`, the change listener,
`ParserVariable::setValue()`, `update()`. Hard: concurrent updates of one graph, recursive
locks held along a chain of notifications. Correct if: what settles is consistent, no formula
is evaluated by two threads at once, a missing value is never computed with, all calls return.

### muParser (`CalculatedVariables/ext_components`, vendored)
The formulas of calculated variables run in it, each in a parser of its own. State: the tables
of functions, operators, constants and variables; the flags of the token reader; three stacks
while a formula is compiled; the byte code and its stack. Operations: definitions, removals and
switches; reading a token; compiling; running. Hard: what may follow what is spread over flags
and stacks; commands are folded as they are emitted; the machine's stack is as large as the
compiler counted; byte code holds pointers to what the tables held. Correct if: the texts it
takes are the formulas, their value is right, the stack fits, and no byte code outlives the
definitions it was made of.

### AddressSpace
Source variables: a manager per variable that remembers the running transaction and turns
reads and writes into jobs of the pool (asynchronous) or executes them (synchronous). This
design declares no source variable, and the open62541 backend compiles the managers out: the
models are of the framework's code. Node manager: the node table. Cache, free and calculated
variables: creation, initial value, registration with the engine, each kind in an order of its
own. Hard: transactions that overtake one another, a device function that throws, an initial
value set before anyone listens, two parts of a file that make one address.

### I2C bus and sensors (`I2c`, `Sensor`)
State: one file descriptor and status per bus, the enable register that selects a module (three
Fireflies and the SFP stand behind it), the register pointers in the devices, one I/O buffer for
all sensors, one record per sensor. Operations: `sensorRead`, `sensorWrite`, `sensorMonitor`, one
read function per kind of chip (`fireflyRead4`, `ltc2945Read`, `sfpRead`). All run in the main
thread. Hard: any transfer can fail, a module can be pulled out between two transfers, a failure
must leave neither the selection nor the shared buffer to be mistaken. Correct if: a record is of
one sensor and one round, and a failure costs only the sensor it hits.

### IPMC block (`Sensor/ipmcSensorBlock`)
State: the block as the IPMC has written it so far; the record: header, data, time stamp,
decoder. Operations: `ipmcSensorBlockRead`, `ipmcSensorBlockFormat`; and the IPMC's writes.
Hard: the block is written while it is read, the writer can give up and begin again, the
sequence number has one byte. Correct if: a record not marked invalid is of one write.

### Zynq sensors (`Sensor/zynqOnBoard`)
State: constants and error of each channel, whether the initialisation is done, the last values.
Operations: `zynqOnBoardRead`, `zynqOnBoardFormat`. Hard: an initialisation that is broken off at a
missing file and repeated in each cycle, errors that stay.

### DRegs and the document (`Device`, `Json/cJSON`)
State: the cache variables, the document of a cycle. Operation: `update()`, one cycle: read, format
as JSON, print to a file in the first cycles, look every item up again, publish it as good. Hard:
what is missing in the document is published as well; the printing counts the bytes it will need
beforehand. Correct if: a value published as good was read in this cycle, and the print fits.

### Server (`Server`, `Configuration`, `Meta`)
State: running flag, lifetimes of pool, devices, address space, stack. Operations: command line,
start, configuration, main loop, signal handler, shutdown in a fixed order. Hard: signals and
exceptions at any point, requests while the parts behind them are being destroyed. Correct if:
each item is answered once, no job meets an unlinked device, every exit leaves nothing.

### ServerConfig.xml (`Server/serverconfigxml.cpp`, backend of Unified Automation)
State: the settings, the lists, the endpoints with their certificates and security settings.
Operation: `loadConfiguration()`, one section after the other, each element with its own rule for
being absent, empty or wrong. Hard: some 80 elements, any of which can be missing; lists and
endpoints that are partly good. Correct if: each setting is what the file or the default says.

### LogIt and the meta objects (`LogIt`, `Meta`)
State: the registered components and their levels, the map of names to handles, the sinks; the
objects below `StandardMetaData` that show levels and take writes. Operations: initialisation,
registration, setting levels, logging; `configureMeta()`, writes of clients, `destroyMeta()`. Hard:
a full or repeated list of components, a level set in the device but not in the node, a
configuration refused when half of the objects are linked, a write during the shutdown.

### The rest
Drivers of chips the board's table has but does not read values of, tools outside the build, the
EEPROM and FTDI access, the tables of JSON callbacks, reads of `/proc` and `/sys`, build scripts.
`PROJECT.json` lists every part with its files and status, and the hazards at their lines.

## Modules

| Module | Models | State and actions |
|---|---|---|
| `ThreadPool` | `QuasarThreadPool.cpp` | `lock`, `m_quit`, `m_pendingJobs` as in the code; a program counter per worker (`wpc`), caller (`cpc`) and for the destructor (`dpc`); `hand`, `arg`: their local job pointers; counts of executions and deletions. One action per step between two points where another thread can interfere. |
| `JobService` | what the pool promises | A bounded first-in first-out service: `Accept`, `Start`, `Finish`, `Close`, `Discard`. `ThreadPool` instantiates it under a refinement mapping (`ImplementsService`). |
| `CalcEngine` | `CalculatedVariablesEngine.cpp`, the graph | `registered` in the order of registration, `listed` the ParserVariables still listed, `notifies` their calculated variables' pointers, `sync`, the iterator of `setupSynchronization()`, and `search`, the nested calls of the depth-first search, which looks at one neighbour per step in any order. Formulas are the sets of variables they read. |
| `CalcVariables` | `CalculatedVariable.cpp`, `ParserVariable.cpp`, the change listener, `ChangeNotifyingVariable.cpp` | `asv` the address space, `pv` the ParserVariables, a stack of calls per thread, holder and depth of the recursive locks. Formulas are sums: enough to tell old inputs from new. |
| `FormulaReader`, `FormulaParser` | muParser's token reader and `CreateRPN()` | `reader` the flags of what may come next, `rpn` the stacks of operators, values and argument counts with the byte code; each step reads one token and reduces what it completes. |
| `FormulaCode`, `FormulaNumbers` | the byte code, `AddOp()`'s folding, `ParseCmdCode()` | Operators: terms `ptr * data + data2`, folds, jumps, the machine with its stack index. Numbers are fractions. |
| `FormulaGrammar` | what a formula is | The reference: a grammar over spans of the text, and the meaning of what it derives. It has no stack and no flags. |
| `ParserDefinitions` | `ParserBase`'s tables and `m_pParseFormula` | `defs` (all tables), the switches, `expr`, `mode`, `code`; one action per `Define...`, `Remove...`, `Clear...`, `Enable...`, `SetExpr`, `Eval`, `GetUsedVar`. |
| `Formulas` | the two together | Init and Next, and the properties. |
| `SensorBus` | `sensorI2C.c`, `sensorData.c`, `firefly.c`, `ltc2945.c`, `sfp.c`, `i2cDevUser.c` | `plugged`, `selected`, `pointer`: the hardware; `turn`, `todo`, `stage`, `status`: where `sensorMonitor()` and the calls below it are; `buffer`, `copied`, `record`: what was read, known by sensor, page and round. |
| `SensorRound` | what a round promises | The sensors in turn, a record empty or its own. `SensorBus` implements it (`ImplementsRound`), `Monitoring` builds on it. |
| `IpmcBlock` | `ipmcSensorBlock.c` and the IPMC | `mem` with the number of the write in each cell; the reader's program counter, its FILE buffer and its record. |
| `ZynqSensors` | `zynqOnBoard.c` | `initDone`, `err`, `scale`, `offset`, `value`: where each number comes from. `ReadZynq(out)` is one call with the files it finds. |
| `Documents` | `cJSON.c` | Items are records with their children in a sequence; adding, looking up without regard to case, and printing as lengths: needed, allocated, written. |
| `Monitoring` | `DRegs::update()` | Composes `SensorRound`, `ZynqSensors`, a block and `Documents`: `pc`, `document`, `published`. The groups of setters are one operation each. |
| `SourceVariables` | the I/O managers and jobs of source variables | `transaction`, `handle` of each manager; `call`, `at` of each stack thread; `doing`, `phase` of the jobs; mutexes; answers. |
| `ServerLifecycle` | `BaseQuasarServer.cpp`, `opcserver_open62541.cpp`, `shutdown.cpp` | `main`, `flag`, `handled`, `server`, `code` on top of `SourceVariables`. |
| `Configurator` | the generated `configure()`, `ASNodeManager.cpp`, elaboration | `stage`, `place`, `nodes` the addresses taken, `listed` the ParserVariables in their order, `generic`, and `work`, the formula being elaborated, one substitution per step. |
| `FreeVariables` | `FreeVariablesEngine.cpp` | The conversion of initial values to the type of the variable, with the widths of `strto*` and of the type. |
| `ServerConfigXml`, `Startup` | `serverconfigxml.cpp`; both files of a start | A table of instructions in the order of the code, one per element, and a cursor that walks it; then the endpoints. `Startup` calls `configure()` behind it. |
| `LogIt` | `LogIt.cpp`, `LogItInstance.cpp`, `LogLevels.cpp`, `LogRecord.cpp`, `LogSinks.cpp` | `components`, `handles`, `general`, `sinks`; what is loggable and what each sink gets. |
| `MetaData` | `meta.cpp`, the objects of `Meta` | `main` (what is still to do), `nodes`, `devices`, `request` of each stack thread, on top of `LogIt`. |
| `ThreadPoolProofs`, `SensorProofs`, `CalcEngineProofs`, `CalcVariablesProofs`, `ServerProofs`, `MetaDataProofs`, `MonitoringProofs`, `StartupProofs` | | Theorems and proofs. |
| `MC...` | | Values for TLC. `MCCalcVariables` takes the synchronizers of its graph from what `DomainsAreComponents` says of it, so the two halves of the calculated variables are checked together. |

The type invariants (`TypeOK`) stand in the modules of the components; the proofs rest on those of
the pool, the block and the bus, and state what they need of the others' types in their own
invariants. Operators whose comment begins with "Mutant" are
deliberate mistakes; each shows that a property would notice.

## Runs

| Run | Asks | Result |
|---|---|---|
| `thread_pool` | all properties of the pool: 2 workers, 2 callers, 3 jobs, a queue of 2 | hold |
| `thread_pool_destroy` | does the destructor come back? | it can hang |
| `calc_engine` | every configuration of up to 4 variables | holds |
| `calc_variables` | two threads, two inputs, a calculated variable another one reads; 2 writes each | holds |
| `calc_variables_final` | the same with a calculated variable nothing reads | a stale result can stay |
| `formula` | every text of up to 6 to 8 tokens over eight vocabularies; every sequence of operations on the tables with two definitions | holds |
| `sensor_bus` | an ltc2945, two Fireflies and the SFP, failures and plugging anywhere | holds |
| `ipmc_block` | reading while the IPMC writes, gives up, starts again | holds |
| `monitoring` | cycles with sensors, files and the block failing at any time | holds |
| `server` | a whole life of the server with requests, exceptions and signals | holds |
| `configuration` | every small configuration file; ServerConfig.xml with one thing wrong; pairs of endpoints | holds |
| `metadata` | every small configuration of log levels, two writes at any point, the shutdown | holds |

### What the passing runs say
* `thread_pool`. `JobsHandledOnce`: no job is executed or deleted twice or deleted while
  reachable. `NoLostWakeup`: a notification that comes while all workers are busy is not
  needed, one that comes while one sleeps is not lost. `NothingLeftBehind`. `AcceptedJobsRun`.
  `ImplementsService`, which includes the queue's bound and the order of the jobs.
* `calc_engine`. `NoDanglingVariable`; `DomainsAreComponents` (the reference is connectedness
  in the graph: two variables are connected if no set closed under links has one without the other).
* `calc_variables`. `SettledIsConsistent`, `UpdatedByOneThread`, `EmptyPropagates`,
  `SetValueReturns`: the nested locks close no cycle.
* `formula`. `AcceptsOnlyFormulas` and `RefusesOnlyMalformed`: the texts accepted are those of
  the grammar, and a text is refused at a token only if no formula goes on like that.
  `ResultIsRight`: the optimised code computes what the grammar's meaning says, and makes the
  same assignments. `StackFits`: the machine stays inside the stack the compiler counted.
  `CodeIsCurrent`: `Eval()` never runs code of other definitions. `CallbacksAreRead`: what was
  defined is what its name is read as.
* `sensor_bus`. `RecordIsOwn`: a record that says present has halves of that very module
  read in its last turn. `CleanReadIsRecorded`: a failure costs only its own sensor.
  `ImplementsRound`.
* `ipmc_block`. `RecordIsOneWrite`.
* `monitoring`. `PresentModuleIsWhole`, `PowerIsOfThisCycle`, `ZynqIsOfThisCycle`: what is
  published of a group is of this cycle, or is what the code puts for a missing value.
  `PublishedIsConverted`: once the initialisation is done no channel shows a raw value.
  `PrintFits`: no print function writes behind what it allocated.
* `server`. `AnsweredOnce`: a refused item gets no answer, another only its own, never that of a
  transaction which used the same manager meanwhile.
  `JobsFindTheirDevices`, `CleanExit`: however start or main loop ended. `TakenIsAnswered`,
  `SignalEnds`: under fairness an item is answered and a signal ends the server.
* `configuration`. `FormulasReadWhatTheyName`, `VariablesHaveOneAddress`, `InitialValuesArrive`:
  of every configuration that is accepted. `LoadedIsWritten`: settings, lists and endpoints are
  those of the file, or the default. `ElaborationEnds`: unless generic formulas apply one
  another in a circle.
* `metadata`. `OneHandlePerName`; `ShownIsInUse`: the text a level's node shows is the level
  messages are filtered with, in every sink; `SaneLevelsApply`; `NothingStaysLinked`.

### Bounds
* Pool: two workers and two callers race for everything there is to race for (lock, queue,
  wakeup); three jobs on a queue of two make it full and make a caller be refused. The proofs
  drop the bounds. The destructor's hang needs one worker.
* Engine: four variables give every graph shape the search distinguishes (chain, fan-in,
  fan-out, diamond, two components, constants, unread variables), in every order.
* Calculated variables: two writers, since a value is computed by at most two concurrent
  updates of one formula at a time before a third repeats the situation; `MaxWrites` 2 for each
  variable lets a writer overtake itself (1 where the run ends with a counterexample); numbers 0
  and 1.
* Formulas: each vocabulary has the tokens of one group of rules (arithmetic, division, powers,
  conditionals and assignments, comparisons and logic, calls with commas, extremes, rounding), and
  the length leaves room for the nestings those rules distinguish. Two environments give the
  variables zero, negative and positive values. Exponents above `MaxExponent` 4 and all results no
  fraction expresses are "undefined" and compare equal; functions of undefined numbers and
  functions the user defines are undefined. Fractions are kept from `&&` and `||`, see divergences.
* Tables: identifiers of the three kinds of character sets (`_` may be a name or an operator, `-` is
  built in, `a.b` needs the dot), two definitions so that they can conflict or hide one another, and
  every use of a name with one argument, or a string and a number. Brackets are never empty. The
  tables change while no text is read, and texts are read with the constructor's definitions: the
  order of tokens and what is behind a name do not depend on one another.
* Sensor bus: two rounds are told apart by one bit, which is enough because a record must be
  of the round just made; the ltc2945 between two Fireflies and before the SFP gives neighbours of
  the same and of other kinds. The board's other rows repeat these. The proofs are for any table.
* IPMC block: two data cells and sequence numbers modulo 3 with 5 writes, so that the numbers
  come round; the proof is for any size, number of writes and modulus.
* Monitoring: one ltc2945, two Fireflies, a temperature and a voltage of the Zynq of which two files
  can fail, one row of the FPGA group. The document is printed with six classes of numbers and three
  kinds of text, the same for all items of a document. Memory is not short.
* Server: two stack threads, two workers, a queue of one; one variable read and written through the
  pool and one read by the caller, in a transaction of reads that uses one of them twice and one of
  writes: a transaction meets itself and the other one in the queue, in a worker and at the mutex.
* Configuration: names with and without a dot, one cache variable per object, nesting of two, two
  objects and two further variables, four formulas (plain, `$thisObjectAddress`, `$parentObjectAddress`,
  `$applyGenericFormula`) without and two with a status formula, one of them refused, two generic
  identifiers that may be missing, declared twice, nested or circular; `MaxLength` 24 cuts the circular ones. Initial values: all numbers of a
  machine whose words of 8 to 64 bits have 2 to 5, which meets every boundary of `strto*` and of each
  type from both sides. ServerConfig.xml: every element or none, with one exception (missing, empty,
  a word, zero, a list with empty entries); pairs of 17 kinds of endpoints, with the certificate file
  there or not. The instructions of different elements do not depend on one another except through
  their section, which one exception reaches. `configure()` is explored behind one document.
* Meta: room for two components, a registration that is repeated and one that finds the list full;
  two sinks; configurations of up to two component entries, repeated and unknown names among them;
  two writes of a level, another spelling, an unknown word or a value that is no text.
* Deadlock is checked except where the system stops by itself: the pool once it is destroyed, the
  engine once it is ready, writers that have used up `MaxWrites`, a formula that has been read, a
  configuration that has been read, a server that has returned, a process that crashed.

### Fairness and other assumptions
* Threads are scheduled: weak fairness of the steps of each worker, of a call in progress, of the
  main thread, of the destructor. Taking a mutex gets strong fairness, because others can take it
  in between again and again while a blocked thread stays ready; the kernel's mutexes hand it over
  eventually. `execute()`, device functions and transfers return. Nothing is assumed of callers,
  signals, spurious wakeups. The loop of `elaborateFormula()` runs on.
* `server` takes the pool as `JobService`, which `thread_pool` shows it to be, and assumes that its
  destructor comes back; `thread_pool_destroy` shows when it does not.
* `CallAddJob`: the owner makes no call of `addJob()` begin or remain in flight once the
  workers have been joined; the code cannot work otherwise, since the object is going away. The
  server does not guarantee it: `server` has the requests that come too late as `crashed`.
* `Overlap = FALSE`: two transactions do not call one manager at a time. The stack serves requests
  in one thread as configured (`src/bin/ServerConfig.xml:231`, the thread pool is not enabled); the
  managers keep one transaction and have no lock, so that with `TRUE` an answer can go to the wrong
  one. For the same reason one thread serves writes in `metadata`.
* One thread writes each variable: the device thread the cache variables, a client its free
  variable. (Two writers of one variable have no order the code promises, see hazards.)
* Transfers on the bus succeed or fail as a whole; i2c-dev works that way.
* stdio buffers the IPMC file with the first read: the block is smaller than its buffer and
  `fseek()` to the start stays inside it. The check of the sequence number alone would not be enough
  without it.
* The IPMC breaks off fewer writes in a row than there are sequence numbers.

## Proofs

All theorems hold for every value of the constants that satisfies the named assumptions of
the modules; `tlapm` checks every leaf.

* **Thread pool** (`ThreadPoolProofs`). `IInv` says who holds the lock (`LockInv`), when a local
  job pointer is set (`PointerInv`), that a job is in one place (`PlaceInv`), what its place
  says about its counts (`CountInv`), how far the destructor is (`OwnerInv`). None of the
  properties is inductive alone: that a popped job has not run needs that it was in no other
  hand, which needs the lock. One lemma per action, then `PoolInvariant`; from it
  `PoolTypeCorrect`, `PoolHandlesJobsOnce`, `PoolQueueBounded`, `PoolLosesNoWakeup`,
  `PoolLeavesNothingBehind`. No lost wakeup needs the lock too: a worker goes to sleep only
  with the queue empty under the lock, and `PushJob` leaves a caller that still has to notify.
* **Refinement** (`PoolImplementsService`, there too). Under the mapping that reads a job's status
  from its place, `PushJob` is `Accept`, `TakeJob` is `Start`, `Execute` is `Finish`, `SetQuit` is
  `Close`, `FlushJob` is `Discard`, and every other step stutters. It uses `IInv`.
* **IPMC block** (`SensorProofs`, with the bus; its specification is `BlockSpec`). Cells are written from first to last, so the write numbers
  never rise along the block (`Ordered`), and first and last cell differ by less than the
  modulus (`Recent`). Equal sequence numbers at both ends then mean equal writes, and with
  `Ordered` all cells between them are equal too. `BlockRecordIsOneWrite` follows, under the
  assumption that the file holds the whole block (`~Truncates`); with short reads it is false
  (see below).
* **Sensor bus** (`SensorProofs`). `BusInv` adds to `TypeOK` and `RecordIsOwn` where the transfers
  stand: the call under way is the first of those left (`CallUnderWay`), a module that answers a
  read is the one whose turn it is and has the register pointer the call before it wrote
  (`ReadIsAimed`), the half copied so far is of this module and round (`HalfIsOwn`), and a module's
  record is cleared until its last call returned (`ClearedFirst`). `RecordIsOwn` alone is not
  inductive, since the second half of a Firefly comes three calls after the first was copied.
  A failed selection is where the proof earns its keep: `sensorWrite()` goes on and writes to
  whatever module is selected, and only because reads do stop there does the pointer not matter.
  `BusRecordIsOwn`, `BusCleanReadIsRecorded` and `BusImplementsRound` follow for any table of Fireflies,
  SFPs and LTC2945; the last one lets `Monitoring` leave the transfers out.

* **Engine** (`CalcEngineProofs`), for any configuration and any order of registration and of the
  neighbours. `NoDanglingVariable` follows from what `optimize()` leaves (`Lists`). For the search, `Whole`
  says that a variable linked to one with a synchronizer has the same, or that a call under way has
  still to look at it; `Joined` that variables with one synchronizer are connected; `Covered` that the
  loop has left nothing behind. What makes it inductive is that all calls under way are of the newest
  domain (`Calls`) and that the graph is symmetric on what is listed and not constant
  (`NeighboursAreLinked`), although the code finds a link in two different ways, through formulas upwards
  and through pointers downwards: so a neighbour which has a synchronizer already has this one
  (`NeighbourIsOurs`), and no two domains meet. `EngineDomainsAreComponents` follows.
* **Calculated variables** (`CalcVariablesProofs`), for any graph without cycles, any formulas, any
  number of threads and writes. The proof splits the calculated variables: one is `Guarded` if all
  that notify it have one synchronizer. `IInv` says that the frames of a thread are a walk along
  the graph (`StackInv`), that a lock is held as often as a frame locked it (`LockInv`), that a
  result about to be stored belongs to the present inputs (`DataInv`), and that a calculated variable
  which is not what its inputs give is still to be updated by somebody (`ResultInv`). The last two
  need each other and the lock: while one thread carries a result from `eval` to the address space,
  no other may change an input, and every input of a guarded variable is changed with its
  synchronizer held. `CalcInvariant` and `ReadResultsAreCurrent` (a guarded variable nobody is going
  to update is current) need nothing more. `CalcSettledIsConsistent`, `CalcUpdatedByOneThread` and
  `CalcEmptyPropagates` are the run's properties, of all variables; they hold under `OneDomain`, that
  every calculated variable is guarded. That is false for a calculated variable nothing reads, as
  `calc_variables_final` shows. `CalcHolderIsAtWork` says that a thread that waits for a
  synchronizer waits for a thread inside `setValue()` that waits for none, the safety part of
  `SetValueReturns`. It needs no `OneDomain`: all synchronizers a thread holds are one and the
  same, because a listed variable shares that of its inputs and whose listener was called is listed
  (`AllHeard`). `GraphAssumption` says that each variable is written by one thread,
  `SynchronizerAssumption` what `EngineInputsShareSynchronizer` proves of the engine.
* **Server** (`ServerProofs`), for any transactions, threads and workers. `Life` says that a call, a
  queued job and a busy worker all mean that the devices are linked and the pool is up, through every
  order in which the shutdown can meet them; `ServerJobsFindTheirDevices` and `ServerCleanExit` follow.
  `Addressed` adds which transaction each manager remembers (`Managed`) and that items return in
  order; `ServerAnsweredOnce` follows for `~Overlap`, and with `Overlap` it is false.
* **Log levels** (`MetaDataProofs`), for any list of components, configuration and writes. `Registry`:
  list and map of handles fit together, also when the list is full or a name is repeated. `Linked`: a
  node with a device link is of a class that is unlinked in the shutdown. `MetaOneHandlePerName` and
  `MetaNothingStaysLinked` follow, with `Applied` and `Counted` (objects made so far, in the order of
  handles) `MetaSaneLevelsApply`, and with `Shown` `MetaShownIsInUse`, under `OneWriter`: with two
  threads, device and node can be written in different orders.
* **Monitoring** (`MonitoringProofs`), for any table of Fireflies, LTC2945s, SFPs and channels. The
  properties are about what was published, which is found by name in a document that was formatted
  from records: `Round` and `Zynq` say that the records are of this cycle, `Documented` that the document
  is the one these records give, `Extracted` what each extract function made of it so far. The
  bulk of the proof is `Documents`: an item found by a name is the one added under that name
  (`Shows`), which needs the names of a table to differ in more than case (`MonitoringAssumption`).
  `FireflyIsWhole`, `LtcIsOfThisCycle`, `ChannelIsOfThisCycle`, `ChannelIsConverted`. `PrintingFits`
  is about the document alone: by its shape (`Whole`) it is no deeper than it is printed, and at each
  level a function counts what its entries were counted for and at least as much between them as it
  writes (`SumOfMore`). How many sensors, channels and rows there are does not matter.
* **muParser's definitions** (`CalcEngineProofs`, with the engine), for any identifiers and any sequence of definitions,
  about `ParserSpec`, the half of `Formulas` that changes the tables. Byte code is kept over some
  operations and thrown away by others; `CodeInv` says that what is kept is what the formula would be
  compiled to now. For a removal it is thrown away; the case that needs an argument is the table
  that grows while code is kept, when the variable factory adds what it is asked for. The lemma
  there (`SameCompiled`) is that a name that was read as something goes on being read as that. From
  it `ParserCodeIsCurrent`. `ParserCallbacksAreRead` says that what is defined is what its name is
  read as: it needs that a table has one entry per name (`Unique`), that the tables checked against one
  another have none in common (`Apart`), and `IdentifiersAssumption`, which says what the character sets
  and the order of the token reader's attempts do.
* **ServerConfig.xml** (`StartupProofs`; all its theorems are about `StartupSpec(documents)`, for any
  documents with any number of endpoints). The cursor of `loadConfiguration()` is moved by hand, and a
  section whose element is missing is jumped over. `Nested` is what the table of instructions has of
  this: each section is entered, read and left, none in another one. From it `XmlInv`: the cursor is in
  the section whose settings are being read (`CursorInv`), so the members taken are those behind it that
  the document writes (`MembersInv`), and an endpoint in the array is the one of its element
  (`Filling`, which has to say so of places that are cut off or empty later). `XmlLoadedIsWritten`.
* **Addresses** (`StartupProofs`), for any names, depth and number of objects. `ListedInv` says that a
  name stands for one variable, which is a node. The argument is about texts: an address is put
  together from names with dots between them, names may hold dots themselves, and what keeps two
  addresses apart is only that the second of two equal ones is refused. `AddressesAreUnique` and
  `InitialValuesAreSeen`, which needs that a value that was converted is the one that was written
  for any widths the types have (`AllNumbersAreTaken`).
* **Elaboration** (`StartupProofs`), for formulas of any length. A formula is changed in place until no
  dollar expression is left; what it is to mean is `Meaning`, defined on the text as it was written.
  `ElaborationInv` says that the text so far stands for the whole (`Stands`): if the substitutions in it
  come to an end, so do those in the whole, and both mean the same. It rests on three lemmas: a generic
  formula means what its text means (`GenericMeansItsText`: those that end have a rank, which is at most
  the number of generic formulas, and expanding one level deeper changes nothing), a piece
  can be replaced by a text of the same meaning (`MeaningReplaced`), and `elaborateParent()`, which counts
  dots from the right, finds the object the levels of the file say (`ParentIsWithin`), provided that no
  name on the way holds a dot. What a formula then names is searched among the variables there are
  (`ReadsAreNamed`). `FormulasReadTheNamed`. `ConfiguratorAssumption` says that names and formulas are
  finite texts, that the root's address is none of the names and that "." is no digit.

Run by run the proofs drop these bounds: threads, jobs and queue of the pool; size and writes of the
block; the size of a configuration; the tables of the bus and of monitoring (the run `monitoring` leaves the SFP out, the proofs
have it); graph, formulas, numbers and writes of the calculated variables; transactions and their
lengths; components and writes of the log levels; the number of definitions; documents, endpoints,
objects, names, and formulas of a start. The invariants were
checked with TLC on the constants of the runs before they were proved.

## Only model-checked
* Liveness (`AcceptedJobsRun`, `SetValueReturns`, `TakenIsAnswered`, `SignalEnds`, `ElaborationEnds`): the
  prover has no rules for fairness.
* `AcceptsOnlyFormulas`, `RefusesOnlyMalformed`, `ResultIsRight`, `StackFits`: grammar, compiler and machine
  are recursions over a text (`RECURSIVE` operators, with which the prover cannot work), and each of
  these compares two of them, for which the prover has no induction.

## Not modelled
* Not compiled, or without a caller in the server: `zynqPL.c`, `frequencyCounter.c`,
  `sensorInitSRTM_hw1.c` and with it `fireflyRead12()`, the testers, the EEPROM and FTDI access, the
  tables of JSON callbacks, `cJSON_Utils.c` and cJSON's parser and buffered printing, muParser's own
  tests, C interface and integer parser, `Certificate.cpp` (its call is commented out, OPCUA-1564).
* Rows the board's table does not have, or whose driver reads nothing: `tmp100`, `pca8575`,
  `adn1066`, `atca48V`, `ddr4`; the I2C multiplexer; the control lines of the Fireflies.
* Pure input and output: `Util` except what `Monitoring` takes from it, `Uio`, what a sink does with a
  message, the log lines about the process.
* Generated or build-time code: the XML binding, the build framework, validators and decoration.
* What this design does not use: methods, arrays, delegated cache variables, loggers shared
  between libraries; the Windows branches.
* In modelled parts: the characters of tokens and numbers, transcendental functions, floating-point
  rounding, the conversion of raw readings, wording.
* Branches that are not taken, or are taken with the effect of one that is: more than one listener on
  a variable in `optimize()` (`CalculatedVariablesEngine.cpp:285`; only the registration, once per
  variable, adds one), an address space that does not take the value in
  `ChangeNotifyingVariable::setValue()` (line 58), the second call of `loadConfiguration()`
  (`serverconfigxml.cpp:87`), the secure default a build can choose (1961-1971), the failure of the
  register write before a presence bit is read (`sensorI2C.c:76-85`; as that of the read).
* The nodes an object makes for its config entries, source variables and methods
  (`designToClassBody.jinja:262-423`). They could only have a configuration refused that the model
  accepts, and nothing is claimed of refused ones.

`PROJECT.json` says the same part by part.

## Known divergences
The two violation runs are findings in `PROJECT.json` with the line they contradict. Those below are in
the models as the code has them, or were met while reading; none has a run of its own.

Sensors:
* `sensorI2C.c:128`: `I2CRegEnable()` reports failure as −1, `sensorWrite()` tests for `XST_FAILURE`, which
  is 1, and writes to the module still selected, although the next line speaks of an error.
* `getBit()` returns 0 when the read fails, and `fireflyIsPresent()` takes 0 as present
  (`firefly.c:38`). The record stays right because the transfers that follow answer for themselves.
* `ltc2945Read()` returns before it stores a temperature of zero (`ltc2945.c:51`) and keeps the one of
  an earlier reading, where `ltc2945.h:25` says "0 ==> N.C."; `PowerIsOfThisCycle` leaves it out.
* `sfpRead()` dereferences its record exactly if it is null (`sfp.c:26`); it never is.
* `firefly.c:199` ends the model at its tenth character where the serial number was meant.
* A short read of the IPMC block returns without marking the record (`ipmcSensorBlock.c:146`): with
  `Truncates = TRUE` `RecordIsOneWrite` fails. The buffer has the size that the first header asked for,
  be it 0 (138), and the decoder reads 30 bytes whatever was read. A record that was marked invalid
  is shown (206); a block that cannot be opened leaves the last one.
* `zynqOnBoard.c`: while the initialisation is broken off, the channels behind the missing file are
  shown unconverted and without error (168-202); errors of constants never go away; an error is filed
  under the name of the file instead of the channel (264), so that −99 is published instead of −999;
  the FPGA group takes its rows by fixed numbers, although two rows of the table are commented out
  (113, 116, 272-275); `readZynqConstantString()` puts a `'0'` for the end of the text (156).
* `DRegs.cpp` publishes items of an absent Firefly from uninitialised variables (365) and does not look
  at an LTC2945's `noUpd` (225). `Monitoring` has both: `Garbage`, and `Crash`.

Calculated variables and formulas:
* The listener takes every status but "waiting for initial data" as good
  (`CalculatedVariablesChangeListener.cpp:45`), where `CalculatedVariable.cpp:65` promises to propagate
  inputs that are not good.
* Cache variables get their initial value before they are registered, so that formulas reading them wait
  for the first update, although `FreeVariablesEngine.cpp:194` calls the other order important. A
  calculated constant with an initial value shows that for ever.
* Only value formulas are elaborated; a status formula with a `$` is refused. Generic formulas are put
  in without brackets, and those that apply one another in a circle keep the loop running for ever.
  `$parentObjectAddress` counts dots, so a name with a dot counts as two levels.
* muParser takes some texts with a comma where the operand is missing (`a ? , b : c`, `1, ? 2 : 3`,
  `4, -, 3`) and evaluates a stale slot, although `muParser.h:1466` says the flag is there to avoid that:
  `AcceptsOnlyFormulas` is stated for texts without commas, `ResultIsRight` and `StackFits` for those the
  grammar has. Constant operands of `&&` and `||` are truncated (`muParser.cpp:1936`), variable ones are
  not. A function for bulk mode without arguments can be defined and never called (6917). `DefineConst()`
  lets a constant hide a variable; `DefineNameChars()`, `SetVarFactory()` do not reset the parser.
* A free variable of an unsigned type takes a negative literal modulo its word, if its type has
  that number.

Server:
* The pool's functor version of `addJob()` leaks a job that is refused (`QuasarThreadPool.cpp:94`). Jobs
  the destructor flushes are never answered. A request that comes during or after it ends in an
  exception or in freed memory (`crashed`).
* `OpcServer::start()` never returns anything but 0, so the branch at `BaseQuasarServer.cpp:153` is dead;
  a failed `SetServerConfig()` and the run for a certificate leave `m_pServer` undeleted.
* ServerConfig.xml: of the discovery URLs the last one is kept in the first place; an endpoint behind a
  refused one is cut off and a null pointer stays, which `OpcServer::start()` uses (`opcserver.cpp:156`);
  the status is that of the last endpoint; lists are as long as their elements though empty ones are
  skipped; a certificate made for an endpoint stays although a later check refuses that.
* The order of elements is not validated for free variables (`designToConfigurator.jinja:119`).
* A write of a level reads the device link twice without a test; one that is cut off between by
  `destroyMeta()` uses a null pointer (`crashed` in `metadata`).

## Plan
Done: the modules and runs above. What is left, in the order of importance:
1. User-defined functions inside longer formulas, so that both halves of `Formulas` meet.
2. Methods of the framework, and cache variables with delegated writes, on top of `SourceVariables`.
3. The multiplexer and the control lines of the Fireflies, if the board's table comes to use them.
