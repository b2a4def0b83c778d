# TLA+ models of ocp-diag-core-cpp

This directory holds a verification development of the OCP diagnostics core
library: TLA+ modules translated from the C++ code, TLC configurations that
model-check them, and proofs checked by TLAPS. Paths below are relative to
`src/ocpdiag/core/`.

## The system

| Part | State it keeps | Operations | Talks to |
|---|---|---|---|
| Artifact writer (`results/artifact_writer.*`) | mutex, sequence counter, buffered file writer, output stream, stop flag, flush thread | `Write`, `Flush`, flush every minute, destructor | riegeli file writer, JSON printer |
| Result calculator (`results/test_result_calculator.*`) | status, result, started, finalized | `NotifyStartRun/Skip/Error/FailureDiagnosis`, `Finalize` | - |
| Test run (`results/test_run.*`) | global guard, started flag, mutex, writer, calculator, log sink, id counters | constructor, pre-start error and log, start, skip, destructor | writer, calculator, Abseil's log |
| Log sink (`results/log_sink.h`) | reference to the writer | `Send`, `Flush`, called by `LOG`/`CHECK` in any thread | writer |
| Test step (`results/test_step.*`) | status, ended flag, mutex | `Add*`, `Skip`, `End`, destructor | run, calculator, writer |
| Measurement series (`results/measurement_series.*`) | type, element count, ended flag, mutex | `AddElement`, `End`, destructor | step, writer |
| Output receiver (`results/output_receiver.*`, `output_iterator.h`) | cached model, two id maps | make writer, get model, reset | the writer's file |
| Data model (`results/data_model/`) | none of its own | validation of structs, conversion to artifacts and back, helpers for limits | all of the above |
| DUT info (`results/data_model/dut_info.*`) | one object per program, its infos, id counters | constructor, `Add*Info`, destructor | test run, which takes it over |
| Node configuration (`hwinterface/service_flags.*`, `LoadConfigs`) | none | parse flags, read a file, apply overrides | node client |
| Node client (`hwinterface/client/node_client.*`) | configuration and backends of each node | create, one method per API call | backends |
| Host backend (`hwinterface/backends/host/`) | a reader of the SMBIOS table | CPU, memory, storage, errors, addresses, node, reboot | host adapter |
| Host adapter (`hwinterface/backends/lib/`) | child process of a call | run a command, read files | kernel, or ssh |
| Off-DUT machine interface (`lib/off_dut_machine_interface/`) | child, pipe and signal handler of a call | run a command with input, find ssh | kernel |
| JSON helpers (`lib/json/`), identifier matching (`hwinterface/lib/`) | none | read a message, match an identifier | files |

What is hard in the results library is sharing. One `TestRun`, its steps and their
series are shared by any number of threads; every object has its own mutex,
methods are several critical sections in a row, and the artifacts of all of
them meet in one writer with a thread of its own. Any `CHECK` may kill the
program between two of these sections, and any `LOG()` in the program becomes
an artifact. What a reader of the output relies on (each step's artifacts
between its start and end, a verdict that agrees with the errors in the log,
nothing missing from a series, everything on disk at the end) depends on the
order in which those sections run.

The hardware interface has other difficulties. A node client is made in many
steps of which any may fail, and its calls rewrite the configuration they read.
The commands it runs share what belongs to the process: the table of
descriptors, which every child inherits, and the handler of `SIGPIPE`; each
races a deadline. And what the host backend says of a machine is put together
from files and outputs that may be missing, cut short or in an odd order.
`PROJECT.json` lists the hazards at their lines.

## Modules

| Module | Models | Correspondence |
|---|---|---|
| `ArtifactLog` | what the writer promises | `Put` is `Write`, `Sync` is `Flush`, `Truncate` another writer's opening of the file; a log, a durable prefix |
| `ArtifactWriter` | `artifact_writer.*` | `BeginWrite`/`WriteToFile`/`WriteToStream` are the parts of `Write`; `PeriodicFlush`/`FlusherExit` are `FlushEveryMinute`; `Destroy`/`Join` the destructor |
| `ArtifactWriterProofs` | | theorems about `ArtifactWriter` |
| `TestResultCalculator` | `test_result_calculator.*` | one action per method, each holds the mutex throughout |
| `Verdict` | what a verdict is | status and result as a function of the history of calls |
| `ResultCalculation` | the calculator with arbitrary callers | keeps the history, includes use after `Finalize` |
| `ResultCalculationProofs` | | theorems about `ResultCalculation` |
| `Artifacts` | `results.proto` | the artifacts, with the fields the library computes |
| `TestRun` | `test_run.*`, `log_sink.h` | a method is split at its locks, writer and calculator calls; `pc[t]` is where thread `t` is |
| `TestStep` | `test_step.*` | the same, on top of `TestRun` |
| `MeasurementSeries` | `measurement_series.*` | the same, on top of `TestStep`; `Spec` is the whole results library |
| `ResultsProofs` | | theorems about `TestRun` and `TestStep`, then about the whole results library: brackets, types, order, verdict, ends, totals, its use of the writer |
| `OutputReceiver` | `output_receiver.*`, `output_iterator.h` | `Built` is `BuildModel`, a fold of `HandleOutputArtifact` over the file |
| `Ranks` | | which place among some places one is, for statements about lists |
| `FoldLemmas` | | lemmas about folds, induction on naturals and ranks |
| `OutputReceiverProofs` | | theorems about `OutputReceiver` |
| `Report` | `dut_info.*`, `struct_validators.*`, `struct_to_proto.cc`, `proto_to_struct.cc`, limits of `input_model_helpers.cc` | `NewDutInfo`, `AddInfo`, `DropDutInfo` are the life of a `DutInfo`; `Add(x)` validates, converts and writes a struct; the converters are operators field by field |
| `ReportProofs` | | theorems about `Report` |
| `NodeConfiguration` | `service_flags.cc`, the overrides and `LoadConfigs` of `node_client.cc`, `JsonFileToMessage` | `ParseFlags`, `ReadFile`, one `ApplyMultiNodeOverrides` per override, `ApplySingleNodeOverride` |
| `HostBackend` | `backends/host/`, range lists and identifiers of `backends/lib/` | an operator per method, from the machine's files and outputs to the answer |
| `NodeClient` | `node_client.*`, `service_interface.h`, `remote_factory.cc` | `Load`, `BeginClient`/`AddBackend`/`FinishClient`/`Return` are `Create` and `CreateClients`; one `Call*` per method of the host backend, `CallOther` for the rest |
| `NodeClientProofs` | | lemmas about the operators of `HostBackend`, theorems about `NodeClient` and the answers of its host backend |
| `HostCommand` | `LocalHostAdapter::RunCommand`, `RunCommandWithStdin` of `ssh/remote.cc` | an action per system call of the calling thread; what a child, ssh, and the command ssh runs may do |
| `HostCommandProofs` | | theorems about `HostCommand` |
| `MC*` | | instances for TLC |

`TestRun`, `TestStep` and `MeasurementSeries` extend one another, each adding
its objects; a program with fewer kinds of objects is the specification of a
lower layer (`StepsSpec`: runs and steps; `Spec`: all). The three use the writer as
`ArtifactLog`, and `ArtifactWriter` is shown, by TLC and by proof, to implement
`ArtifactLog`; that is why a write or a flush is a single action above. The
calculator's actions are used as they are.

A second `TestRun` made while the first exists (`ConstructAnother`) first makes
its writer, which truncates the file if it is the first run's
(`ArtifactLog!Truncate`), and only then comes to the guard (`CheckGuard`), whose
`CHECK` kills the program. With `FileOfFlags` the file is the one named by
`FLAGS_ocpdiag_binary_results_filepath`, which both runs open. The writer of the
first run goes on at its own offset behind a hole; for its log the file is lost.
That is why what the library says of the file (`DurableAtTheEnd`,
`StepEndDurable`, `SeriesEndDurable`) is said unless a second run has truncated
it, and why `DurableAtTheEnd` adds that, short of its end, a run loses its file
to nothing else.

`Report` looks at the same run from the data's side: one thread, the structs
it gives and the artifacts it gets, where the layers above have threads and only
the identity of an artifact. `NodeClient` extends `NodeConfiguration`, whose
steps are its `Load`, and `HostBackend`, whose operators answer its calls.
`HostCommand` stands alone: what the backend's commands print is part of the
`machine` of `HostBackend`.

What callers of the results library may do is limited by C++ object lifetimes only: no method before
the constructor has returned or after the destructor has begun, a step is
destroyed before its run and a series before its step. They may call anything
else in any order from any thread, and get their arguments wrong
(`RejectArgument`). A failing `CHECK` puts its message into the log through
the registered sink (`CheckFails`), keeps the thread's locks, flushes and ends
the program (`Abort`).

Operators marked "Mutant" in a comment are not part of a model. Each is an
action with a plausible bug, used in place of the action below it to see that
the property it belongs to notices.

### What is external or abstracted

* riegeli: records sit in a buffer until a flush or close; once an operation
  fails, all later ones do.
* `absl::Mutex`, `LogSink` registration (excludes a message being sent),
  `CHECK`/`LOG(FATAL)` (send, flush the sinks, die).
* JSON printing: some artifacts cannot be printed, which ones is a parameter.
* Ids: a step or a series stands for its id; `IntIncrementer` makes them
  unique under its own mutex. Names, messages and values are left out.
* `Content(s)` stands for measurements, files, extensions, logs and passing
  diagnoses: nothing the library decides depends on which it is.
* `TestRun.tla` follows one `TestRun` from construction to destruction, and
  attempts at a second one meanwhile, up to the guard; a second run that passes
  the guard, the first having given it up, is not followed any further.
* `ArtifactWriter` has a file that nobody else opens, and implements
  `ArtifactLog!Spec`; the library, which shares the file of the flags with any
  second run, obeys `ArtifactLog!SharedSpec`, the same with `Truncate`.
* In `NodeClient`, backends other than the host's are known only by whether they
  can be built and that they answer. A client belongs to one thread, since
  `SelectBackend` writes its map without a lock.
* `machine` is what the host's files and commands say, parsed into words, ranges
  and numbers; `Missing` and `Garbage` are a value that is not there and one
  that does not parse. Fields copied without a decision are left out.
  `MachinesAssumption` is what the code takes for granted of a Linux host and its
  tools: range lists hold integers, times are integers, and a text that is not
  empty has at least one piece; and, where the range lists of sysfs parse, they agree with the processors
  (`IsLayout`): the nodes online are those with a directory, a node's `cpulist` is
  that of its processors, a `thread_siblings_list` that has its own processor is
  that of its core, and a core is a package, a die and a core id. Lists that do not
  parse, files that are missing, and siblings without the processor itself are
  allowed. An empty list is one that does not parse, as in `ParseRangeList`: the
  node of a machine that has memory and no processor makes `GetCpuInfo` fail.
* In `HostCommand` the kernel is modelled as the code uses it: a pipe with a
  capacity, the lowest free descriptors, inheritance by `fork`, `EPIPE` or
  `SIGPIPE` for a pipe nobody can read, exit status, kill. A child of a remote
  call is the local ssh; the command it has started on the machine under test
  (`remote`) has a life of its own: it reads what ssh gives it, succeeds only when
  it has read all of it (`cat > file`), and its code is ssh's; ssh may fail without
  it, and killing ssh does not end it. `hit` is
  a history variable: the pipes of which another call closed an end by number.
* In `Report` the structs have the member types of the C++ structs, and the
  references to hardware and software in them are those the program's
  `AddHardwareInfo` and `AddSoftwareInfo` have returned.
* The regular expression of `mhi_config` (`service_flags.cc:249`) wants a target,
  so no override of a node is without one (`InputsAssumption`).
* In the receiver, decoding errors of the file are not modelled, and the vectors
  of one object (its diagnoses, errors, measurements, files...) are one list
  (`lists`): the model's order within the list says more than the code keeps, and
  implies the order within each vector.

## Runs

| Run | Question | Instance and bounds |
|---|---|---|
| `writer` | Are sequence numbers file order, does a file failure cost the stream anything, does the writer keep the promise of `ArtifactLog`, does everything reach the file without a caller's flush, does the destructor return? | 2 threads, the flush thread, a printable and an unprintable artifact, a file that may fail, 4 writes, fairness |
| `calculator` | Is the published verdict the one the history deserves, are readings ever taken back? | any 5 calls |
| `step` | Order of the run's artifacts, the verdict against the log, steps between their start and end and telling of their errors, durability when `End` returns, at the run's end and at a crash, no use of a dead writer | 2 threads, 1 step, `LOG()` on, a second `TestRun` on the same file, no call starts with 6 or more artifacts in the log |
| `series` | Are series bracketed and complete, of one type that never changes, and ended on disk? Does every call return? | 2 threads, 1 step, 1 series, 2 types, a second `TestRun` on a file of its own, bound 5, fairness |
| `receiver_first` | Does the first model have every step, series and artifact of the file once, where it belongs and in order? | 2 steps, 3 series, any 4 of 10 artifacts |
| `report` | Does reading a file back lose anything, do references name their info, does a run start once, do validators and inclusive limits mean what they say? | 2 `DutInfo` objects, 2 infos, 2 artifacts; valid and invalid structs of every kind, one for each check |
| `client` | Which override wins, is creation all or nothing, which backend does a call reach, do the host's answers agree with the machine? | up to 3 of 6 overrides over 8 files; every mix of single-node flags; 4 nodes with 2 sets of builders and 4 connections; machines: every layout of 4 processors on 2 packages, dies, nodes and core ids with each core on one node, nodes without processors and lists that do not parse among them, RAS logs of up to 4 of 7 kinds of line, 2 DIMMs and address maps, 2 of 6 disks |
| `command` | Does accepted input arrive, does any child run or descriptor stay open behind a call, is one remote command at a time safe, does a call return? | 2 threads, a local or remote command each, up to 2 bytes through a pipe that holds 1, fairness |
| `step_error`, `late_artifact`, `receiver_reset`, `sigpipe` | What the documentation says and the code does not do | see below |

Why these bounds are enough: every race in the results library is between two
threads about one object, a `LOG()` in the background being a call like any
other; a log of five artifacts holds the schema version, the starts of run, step
and series and one element, of six (in `step`) two artifacts that race, and the
calls in flight may exceed it, so every end is reached. `MaxArtifacts`,
`MaxWrites`, `MaxCalls`, `MaxBuilds`, `MaxInfos` and `MaxDuts` only stop new
calls; none stops a call that has begun. Threads are interchangeable, so symmetry
is used in `step`, the larger safety run, and never with liveness.

What a second `TestRun` does to the file of the first is checked in `step`; in
`series`, where the durability of a series' end is the same argument, the second
run has a file of its own, to keep the liveness run small. In `command`
(`MCHostCommand`) a child that fails is one that a signal ends: no property asks
for the code of a failure. And of the two threads the same one always has the
larger command, threads being alike.

In `command` two calls are enough because what they share (a number, an end, the
handler) has one owner and one intruder, and a pipe that holds less than the
input makes a write wait. In `client` three overrides let a later one override,
miss and extend what earlier ones did; two of a kind (packages, DIMMs, disks,
nodes) tell merging from splitting, and a log of four lines holds a report, its
end, and what follows it. `report` has two `DutInfo` objects so that ids begin
again, and two artifacts so that one can refer to the other.

### Fairness

`ArtifactWriter!FairSpec`: a thread inside `Write` goes on (weak fairness); the
flush thread's timed wait returns again and again, and gets the mutex although
callers compete for it (strong fairness: `absl::Mutex` does not starve a
waiter). Nobody is assumed ever to call `Write`, `Flush` or the destructor.

`MeasurementSeries!FairSpec`: a thread that has begun a call takes its next step
when it can (weak fairness per thread, over the disjunction of what it may do
inside the library; a second `TestRun` on its way to the guard is such a call).
No call is assumed ever to begin. Weak fairness suffices because each lock is
taken a bounded number of times.

`HostCommand!FairSpec`: a thread inside a call takes its next step when it can
(weak fairness per thread). Among these steps is the deadline's, since the poll
loops compare the clock and sleep. Children need not ever do anything: a command
may run, and not read its input, for ever. That is why `CallsWhoseDataFitReturn`
is about calls whose input fits in the pipe, the deadline being set after the
writes. The node client and the report have no liveness property: they run to
their end in the caller's thread.

### Disagreements found

* `step_error`: `test_step.h:38-39` promises that `AddError` gives the run the
  error status; after `TestRun::Skip()` the run stays skipped.
* `late_artifact`: `AddElement` and the series constructor read
  `TestStep::Ended()` and write after the step's lock is given up; `End` of
  another thread in between puts an element, or a series' start, behind the
  step's end.
* `receiver_reset`: `OutputReceiver::ResetModel` keeps the id maps, so the
  rebuilt model is indexed past the end of its vectors.
* `sigpipe`: `remote.cc:179` ignores `SIGPIPE` "to avoid program terminate", but
  saves and restores the process's handler per call: of two threads the first to
  return takes the protection from the other.

Met while modelling, without a run of their own:

* `input_model_helpers.h:37-38` requires measurements to be "within the specified
  exclusive limits"; `input_model_helpers.cc:64` compares with the lower limit by
  `kGreaterThanOrEqual` and so accepts it. `InclusiveLimitsDecide` is about the
  inclusive limits only, which mean what line 29 of the header says.
* `remote.cc:243` ("Timeout, kill the command and return"): `kill` ends the local
  ssh, and the command of the machine under test may go on, as no terminal was
  asked for whose end would reach it. `OnlyFailedWritesLeaveChildren` is about
  the processes of the program, ssh among them, and not about that command.
* `measurement_series.h:35-36` promises a failure when a series is ended after
  its step; the code complains on cerr and emits the end.
* `test_run.cc:50`: a second `TestRun` truncates the results file of the first
  before its guard kills the program, whose last message then goes to a file that
  begins with a hole.
* `cpu.cc:126`: one NUMA node without processors makes `GetCpuInfo` fail, an
  empty range list being an error.
* `remote.cc:139`: the pipe's numbers are closed a second time, when they may be
  those of another call; its input then is cut short. `AcceptedDataArrives` and
  `CallsWhoseDataFitReturn` exclude the calls this hits (`hit`).
* `service_flags.cc:47`: `mhi_config_filepath` is declared and documented, and
  read nowhere; `mimik_redfish` is documented as a backend and rejected.
* `remote_factory.cc:48`: the last directory of `PATH` is not searched for ssh.
* `remote.cc:150` says that the child never returns from `execvp`; when that
  fails it does, and a copy of the program goes on (`stray`).
* `host_adapter.cc:143`: a command killed at its deadline is not waited for, and
  stays a zombie.
* `error.cc:65`: a record with a negative zone offset is not recognised.

## Proofs

All proofs are checked by TLAPS for every value of the constants that satisfies
the module's named assumption.

* `ArtifactWriterProofs`: `Spec => []IInv`, from `WriterAssumption`. The order
  of the file is not inductive by itself: what keeps it is that exactly the
  mutex holder is inside `Write` (`WriteHoldsMutex`), that it carries the newest
  number (`CarriesNewest`), that file and buffer together are a prefix of the
  numbered artifacts (`FileInOrder`) of the right length (`FileComplete`), and
  that the destructor leaves nobody inside. `FileOrder` follows from `IInv`, and
  `Refinement` (`Spec => ImplementsArtifactLog`) maps each step to a write, a
  flush, a failure, the close, or a stutter, with `IInv` at hand.
  `StreamIsComplete` adds what the stream holds (`StreamInv`): the printable
  artifacts of the numbered writes, in the order of their numbers, except for the
  one the mutex holder has yet to print. A file that fails has no part in it.
* `ResultCalculationProofs`: `Spec => []IInv`, where `DigestOfHistory` says that
  the status is the first of the skip and error calls and that a failure counts
  while there is neither; `Refinement` shows that `Finalize` publishes what
  `Verdict` computes from the history. `ReadingsNeverRetractedAlways` needs the
  digest, too: `Finalize` may overwrite neither a status nor a failure it should
  keep, and keeps a skip only because a skipped run has no result yet.
* `ResultsProofs`, from `RunAssumption`, first about the run and its steps alone:
  `StepsTypeCorrect` is `StepsSpec => []StepTypeOK`, and `StepsBracketed` is
  `StepsSpec => []StepBracket`, for any number of threads and steps. The bracket
  is strengthened, for each step, by `StepOnce`: the object is in construction
  while its constructor runs, by one thread, and no method runs then; nothing of
  the step is logged before that thread emits the start, and the start is logged
  once it has; and no end is logged while `ended_` is false. The argument first
  bounds what any step of a thread can touch (`RunEffect`, `StepEffect`), so that
  a method of one step is no business of another (`OtherSteps`), and then treats
  all methods of a step in use alike (`UsedStep`); the constructor's three parts
  are the cases of their own. TLC confirmed `BracketInv` on two threads and two
  steps before it was proved.
  Then, from the same assumption, about the whole library
  (`Spec`), for any number of threads, steps, series and types of values.
  `OneType` rests on `TypesInv`: an element on its way to the log
  (`InAddElement`), or in it, has the type the series has fixed, that of its
  validators if there are any, a series that has fixed none has no element, and
  what is fixed is never fixed again. `AllSeriesBracketed` rests on `SeriesInv`,
  which adds to the step's `BracketInv` what a series needs: its constructor runs
  in one thread, before any other method, and logs the start before the series
  is in use (`SeriesOnce`); and the thread that finds `ended_` false keeps the
  series' lock until the end is flushed, so that no element is numbered or
  written after it (`EndsOnce`). `AllStepsBracketed` says that the bracket of a
  step survives the series other threads use. TLC confirmed `SeriesInv` before it was proved.
  Last, about the same `Spec` and on top of `SeriesInv`, `CoreInv` adds the phases
  of the `TestRun` object: by the label of each thread, whether the run is being
  built, in use, or being destroyed, and that only one thread builds or destroys it
  (`LifeInv`). The steps of the
  specification are sorted once: methods of the run (`Major` moves its phase,
  `Minor` does not) and methods of steps and series, which the run sees only as
  artifacts, calculator calls and labels of their own (`Inner`); each invariant
  below is then proved for three kinds of step instead of fifty actions.
  `RunOrderAlways`: `OrderInv` relates phase, `started` and `run_mutex_` to which
  of schema version, start and end the log holds. `VerdictMatchesLogAlways`:
  `VerdictInv` says what the calculator knows of the log, except for the threads
  that are between their artifact and their notification. `DurableAtTheEndAlways`:
  behind the destructor's flush nobody writes (`EndInv`), and the file of a run
  that has not come to its end is open, or a second run is at its guard. `StepEndTellsErrorsAlways`
  and `StepEndDurableAlways` rest on `StepsInv`, one invariant per step;
  `SeriesTotalsAlways` and `SeriesEndDurableAlways` on `SeriesTellInv`, one per
  series: indices are handed out in order under the lock, and the element count is
  the number of those handed out. `WriterUsedLegally`: every step of the library is
  a write, a flush, the close or a stutter of `ArtifactLog`, or the truncation by
  another writer (`SharedSpec`), so that with
  `ArtifactWriterProofs!Refinement` the library on top of the real writer keeps the
  order of the file, as long as no second run truncates it. TLC confirmed these invariants before
  they were proved.
* `ReportProofs`: `NothingLostAlways` from one lemma per converter, that what it
  writes reads back as what it was given, up to the merged `RoundTrip` of an
  artifact. `ReferencesResolveAlways` and `OneTestRunStartAlways` rest on `IInv`:
  references come from a `DutInfo` that was made (`HandleInv`), ids are places in
  its list (`CurrentInv`), what is written refers to references given (`GivenInv`),
  a start is written once, when the run starts (`StartsInv`), and the `DutInfo` it
  lists either is gone, later objects having other numbers, or has only grown since
  (`ListedInv`), so that an id it lists is never that of something else.
  `ValidatorsAreOfOneTypeAlways`: a validator that is accepted has values of the
  type its operator wants. `InclusiveLimitsDecideForAll` says of every pair of integers what
  the run says of a few. TLC confirmed `IInv` first.
* `NodeClientProofs`, from `InputsAssumption` (files hold sequences of complete
  configurations, nobody registers a builder for the unknown backend, overrides
  have a target):
  `AllOrNothing`, `RightBackend` and `StableRouting` for every command line, file
  and machine. The invariant says that a client that is done has exactly the
  backends its configuration names (`ClientsBuilt`), that the one being built has
  some of them and the default one first (`BuildingRight`), and that the map a
  client has rewritten still selects what the given one selects (`ClientsBuilt`,
  `ReplyRight`); the unknown backend is never built, so a method mapped to it
  never gets past creation, and `backends_.at` never throws.
  `LastOverrideAlways`: for every number of overrides, `NodesRight` says of the
  nodes built so far what `LastOverrideDecides` says, for the overrides applied so
  far; one more either rewrites every node with its address, changing no address,
  or appends a node with an address no other has, and is the last of its own.
  `TopologyAlways`, `ErrorsAlways`, `IdsAlways` and `StorageAlways`, with
  `MachinesAssumption`: `AnswerInv` says that the last good answer is right about the
  machine (`HostAnswered`), which is inductive because a call answers from the
  machine alone and no step changes it.
  What those four rest on is a lemma for each method, about every machine. A
  `FoldLeft` is turned into the chain of its intermediate results (`FoldSteps` of
  `FoldLemmas`, `FlattenSteps`, `RangeSteps`, `LineSteps`, `KeptSteps`), along which
  an invariant is carried by induction on a set of numbers (`SetInduction`):
  a range list is increasing (`RangeListIs`), a report parsed so far holds the events
  of its lines (`ParseOneLine`, `WholeReport`), and a filtered one lists the wanted
  ones in order (`ListsWanted`). `TopologyIsRight` follows processors through reading
  (`NodesAreListed`), renumbering by first appearance (`FirstSeenIs`,
  `NormalizedIs`) and flattening (`FlattenOrdered`): numbers are equal where what
  they number is (`NumbersAreFaithful`), they have no gap (`SocketNumbers`), and the
  processors with thread number 0 are one per core, the least of its siblings
  (`HeadsAreCores`). `IdResolves` counts the pieces of five joined fields.
* `OutputReceiverProofs`, from `ReceiverAssumption` and `ArtifactsAssumption`, for
  any file, steps and series: `FirstModelAlways`. The invariant says that before
  the first build the two maps are empty, and that the model of the first build is
  that of the prefix it has read as long as it is kept; what is written and
  flushed later does not change that prefix. That the build is right is an
  induction along the file. `Sorted` relates the model, and the maps, to the
  artifacts read so far: `stepIdx` maps exactly the steps seen, to their ranks
  among the places where a step is first seen; `seriesIdx` the series seen, to
  their ranks among those of their own step; and each object has its artifacts
  (`Collects`). Getting an index, which may add a step (`StepFound`) or a series
  (`SeriesFound`), and storing the artifact (`RunHandled`, `OwnHandled`,
  `SeriesHandled`) keep it, and under it no index is past the end. TLC confirmed
  the invariant first.
* `FoldLemmas` has no theorem of its own: induction on a set of naturals
  (`SetInduction`), the intermediate results of a fold (`FoldDefined`,
  `FoldSteps`), and ranks, which count the places up to one and grow by one with
  each (`RankIs`, `RankGrows`). The proofs about the host backend and about the
  receiver rest on it.
* `HostCommandProofs`, for any number of threads, input and pipe capacity:
  `OneSshCall` rests on `HandlerOfOne` (with one remote command the handler is
  ignored exactly between save and restore, and what is saved is the original),
  `NothingLeftBehind` on `ChildOfCall` (a child begins with its fork and passes
  the poll alive only when a write failed; it is about processes of the program,
  not about the remote command), and `DescriptorsClosed` on `EndsHeld`:
  an open number is always the `fd` of some call with a cleanup before it,
  although numbers are closed twice and change hands. `AcceptedDataAlways` rests on
  `DataInv`, for each call of which nobody has closed an end by number: an end it
  has not closed is open behind its number, only its own child reads its pipe,
  every byte written is in the pipe or with the child, and a child that succeeded
  has met the end of its input, so nothing is left in the pipe.

Every safety invariant and every action property that a passing run checks, and
both refinements, are proved. Only model-checked is liveness (`EventuallyOnDisk`,
`DestroyReturns`, `CallsReturn`, `CallsWhoseDataFitReturn`): liveness under
fairness is out of the prover's reach.

## Not modelled

* `TestRun::StartAndRegisterDutInfo` called twice: `TestRun.tla` lets it happen;
  `Report` shows that it cannot, the second call lacking a `DutInfo`.
* `CommandLineStringFromMainArgs` and `ParameterJsonFromMainArgs`, which format
  `argv`; names, annotations and texts that are only copied.
* `RestartProcess`, `GetPidOfProcess`, `FetchTargetNodeInfo`, the id maps of
  `hw_info.cc`, and plain file access of the host adapter.
* The temporary files to which remote output is redirected, and with them the
  descriptor that a deadline leaves open (`remote.cc:122`).
* Identifier matching (`identifier_utils.cc`): a stateless conjunction or
  disjunction of full RE2 matches, and the match itself is RE2's.
* `JsonFileToMessage` without overwriting, which nothing modelled calls.
* Field-by-field accessors, fakes, mocks, test matchers, compatibility shims and
  examples; they keep no state a property could be about.

## What is left

1. The rest of the host adapter and the redirected output of remote commands.
2. A second `TestRun` after the first in one program.
