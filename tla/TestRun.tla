------------------------------ MODULE TestRun ------------------------------
(***************************************************************************)
(* results/test_run.{h,cc}: one TestRun object, shared by threads that     *)
(* call its methods, and the Abseil log sink (results/log_sink.h) through  *)
(* which any LOG() in the program becomes a log artifact.                  *)
(*                                                                         *)
(* A method is split where another thread can see the difference: its      *)
(* locks, the artifact writer and the result calculator.  The writer is    *)
(* the abstract log of ArtifactLog.tla, which ArtifactWriter.tla           *)
(* implements; a critical section of the writer or of the calculator is    *)
(* part of one action.                                                     *)
(*                                                                         *)
(* Callers follow C++ lifetimes only: no method before the constructor has *)
(* returned or after the destructor has begun.                             *)
(*                                                                         *)
(* External: Abseil's LOG and CHECK.  A failed CHECK or LOG(FATAL) sends   *)
(* its message to the registered sinks, flushes them and kills the         *)
(* program; AddLogSink and RemoveLogSink exclude a message being sent.     *)
(***************************************************************************)
EXTENDS Artifacts, TestResultCalculator

CONSTANTS
  Threads,
  Nobody,                 \* no thread, no object
  LogToResults,           \* FLAGS_ocpdiag_log_to_results
  FileOfFlags,            \* the file is FLAGS_ocpdiag_binary_results_filepath
  MaxArtifacts            \* bound: no optional call starts with a log this long

ASSUME RunAssumption ==
  /\ Nobody \notin Threads \cup Steps \cup Series
  /\ Steps \cap Series = {}
  /\ LogToResults \in BOOLEAN /\ FileOfFlags \in BOOLEAN
  /\ MaxArtifacts \in Nat

VARIABLES
  log, durable, file, closed,    \* the artifact writer, see ArtifactLog.tla
  initialized,            \* the global guard: a TestRun is active
  phase,                  \* the object: "absent", "constructing", "alive",
                          \* "destroying", "gone"
  sinkOn,                 \* log_sink_ is registered with Abseil
  started,                \* started_
  runLock,                \* holder of mutex_, or Nobody
  pc,                     \* where each thread is inside the library
  aborted                 \* the program has been killed

Log == INSTANCE ArtifactLog

logVars == <<log, durable, file, closed>>

lifeVars == <<initialized, phase, sinkOn, started, runLock>>

runVars == <<logVars, calculatorVars, lifeVars, pc, aborted>>

\* Labels: what a thread does next, "idle" being outside the library.
RunLabel ==
  {"idle", "guard", "register", "schema", "preError", "relog", "fatal", "dying",
   "runStart", "finalize", "runEnd", "runEndFlush", "deregister", "unset",
   "close"}

\* The labels of a destructor after its critical section.
ClosingLabel == {"deregister", "unset", "close"}

RunTypeOK ==
  /\ Log!TypeOK
  /\ CalculatorTypeOK
  /\ initialized \in BOOLEAN /\ sinkOn \in BOOLEAN /\ started \in BOOLEAN
  /\ phase \in {"absent", "constructing", "alive", "destroying", "gone"}
  /\ runLock \in Threads \cup {Nobody}
  /\ DOMAIN pc = Threads
  /\ aborted \in BOOLEAN

RunInit ==
  /\ Log!Init /\ file = "open"
  /\ CalculatorInit
  /\ initialized = FALSE
  /\ phase = "absent"
  /\ sinkOn = FALSE
  /\ started = FALSE
  /\ runLock = Nobody
  /\ pc = [t \in Threads |-> "idle"]
  /\ aborted = FALSE
-----------------------------------------------------------------------------
Goto(t, label) == pc' = [pc EXCEPT ![t] = label]

At(t, label) == ~aborted /\ pc[t] = label

Room == Len(log) < MaxArtifacts

\* A thread outside the library calls a method of the TestRun.
Calls(t) == At(t, "idle") /\ phase = "alive"

\* CHECK fails: the message goes to the registered sink.  The locks the
\* thread holds stay held.
CheckFails(t) ==
  /\ Goto(t, "dying")
  /\ IF sinkOn THEN Log!Put(RunLog) ELSE UNCHANGED logVars
  /\ UNCHANGED <<calculatorVars, initialized, phase, sinkOn, started, aborted>>

Die(t) == CheckFails(t) /\ UNCHANGED runLock

\* ... the sinks are flushed, and the program ends.
Abort(t) ==
  /\ At(t, "dying")
  /\ IF sinkOn THEN Log!Sync ELSE UNCHANGED logVars
  /\ aborted' = TRUE
  /\ UNCHANGED <<calculatorVars, lifeVars, pc>>
-----------------------------------------------------------------------------
\* TestRun::TestRun, CheckAndSetInitializationGuard.
Construct(t) ==
  /\ At(t, "idle")
  /\ phase = "absent"
  /\ ~initialized
  /\ initialized' = TRUE
  /\ phase' = "constructing"
  /\ Goto(t, "register")
  /\ UNCHANGED <<logVars, calculatorVars, sinkOn, started, runLock, aborted>>

(***************************************************************************)
(* Another TestRun, while this one exists.  Its writer_ is made first, and *)
(* opens the file of the flags, unless the caller has passed a writer with *)
(* a file of its own or none.  The first run's file may be the same one.   *)
(***************************************************************************)
ConstructAnother(t) ==
  /\ At(t, "idle")
  /\ phase \notin {"absent", "gone"}
  /\ (FileOfFlags /\ Log!Truncate) \/ UNCHANGED logVars
  /\ Goto(t, "guard")
  /\ UNCHANGED <<calculatorVars, lifeVars, aborted>>

\* Only then it comes to the guard, whose CHECK fails unless this run has
\* given it up; the other run then is no part of this behaviour.
CheckGuard(t) ==
  /\ At(t, "guard")
  /\ \/ initialized /\ Die(t)
     \/ /\ ~initialized
        /\ Goto(t, "idle")
        /\ UNCHANGED <<logVars, calculatorVars, lifeVars, aborted>>

RegisterLogSink(t) ==
  /\ At(t, "register")
  /\ sinkOn' = LogToResults
  /\ Goto(t, "schema")
  /\ UNCHANGED <<logVars, calculatorVars, initialized, phase, started, runLock,
                 aborted>>

\* ValidateStructOrDie(test_run_start) fails ...
RejectRunStart(t) ==
  /\ At(t, "schema")
  /\ Die(t)

\* ... or passes, and the constructor ends.
EmitSchemaVersion(t) ==
  /\ At(t, "schema")
  /\ Log!Put(SchemaVersion)
  /\ phase' = "alive"
  /\ Goto(t, "idle")
  /\ UNCHANGED <<calculatorVars, initialized, sinkOn, started, runLock, aborted>>

\* ValidateStructOrDie, or the CHECK of a pointer or a name, on an argument.
RejectArgument(t) ==
  /\ Calls(t)
  /\ Die(t)

\* AddPreStartError, up to its Write; the lock is kept for NotifyError.
AddPreStartError(t) ==
  /\ Calls(t) /\ Room
  /\ runLock = Nobody
  /\ \/ /\ started
        /\ runLock' = t
        /\ CheckFails(t)
     \/ /\ ~started
        /\ Log!Put(RunError)
        /\ runLock' = t
        /\ Goto(t, "preError")
        /\ UNCHANGED <<calculatorVars, initialized, phase, sinkOn, started, aborted>>

NotifyPreStartError(t) ==
  /\ At(t, "preError")
  /\ NotifyError
  /\ runLock' = Nobody
  /\ Goto(t, "idle")
  /\ UNCHANGED <<logVars, initialized, phase, sinkOn, started, aborted>>

\* AddPreStartLog: a fatal log goes on, with the lock, to be logged again.
AddPreStartLog(t, fatal) ==
  /\ Calls(t) /\ Room
  /\ runLock = Nobody
  /\ \/ /\ started
        /\ runLock' = t
        /\ CheckFails(t)
     \/ /\ ~started
        /\ Log!Put(RunLog)
        /\ runLock' = IF fatal THEN t ELSE Nobody
        /\ Goto(t, IF fatal THEN "relog" ELSE "idle")
        /\ UNCHANGED <<calculatorVars, initialized, phase, sinkOn, started, aborted>>

\* writer_->Flush() ...
FlushFatal(t) ==
  /\ At(t, "relog")
  /\ Log!Sync
  /\ Goto(t, "fatal")
  /\ UNCHANGED <<calculatorVars, lifeVars, aborted>>

\* ... LOG(FATAL).
LogFatal(t) ==
  /\ At(t, "fatal")
  /\ Die(t)

\* Mutant: StartAndRegisterDutInfo gives the lock up before EmitStart.
StartThenEmitUnlocked(t) ==
  /\ Calls(t) /\ Room
  /\ runLock = Nobody
  /\ NotifyStartRun
  /\ started' = TRUE
  /\ Goto(t, "runStart")
  /\ UNCHANGED <<logVars, initialized, phase, sinkOn, runLock, aborted>>

\* StartAndRegisterDutInfo, up to EmitStart; nothing forbids a second call.
StartAndRegisterDutInfo(t) ==
  /\ Calls(t) /\ Room
  /\ runLock = Nobody
  /\ runLock' = t
  /\ NotifyStartRun
  /\ started' = TRUE
  /\ Goto(t, "runStart")
  /\ UNCHANGED <<logVars, initialized, phase, sinkOn, aborted>>

EmitStart(t) ==
  /\ At(t, "runStart")
  /\ Log!Put(RunStart)
  /\ runLock' = Nobody
  /\ Goto(t, "idle")
  /\ UNCHANGED <<calculatorVars, initialized, phase, sinkOn, started, aborted>>

Skip(t) ==
  /\ Calls(t)
  /\ NotifySkip
  /\ UNCHANGED <<logVars, lifeVars, pc, aborted>>

\* LOG() anywhere in the program, at a level below FATAL.
LogMessage(t) ==
  /\ At(t, "idle") /\ Room
  /\ sinkOn
  /\ Log!Put(RunLog)
  /\ UNCHANGED <<calculatorVars, lifeVars, pc, aborted>>
-----------------------------------------------------------------------------
\* ~TestRun: every other thread is done with the object.  End takes the lock,
\* and starts a run that never started.
Destroy(t) ==
  /\ Calls(t)
  /\ \A u \in Threads : pc[u] \in {"idle", "guard"}
  /\ runLock = Nobody
  /\ phase' = "destroying"
  /\ runLock' = t
  /\ IF started THEN UNCHANGED logVars ELSE Log!Put(RunStart)
  /\ Goto(t, "finalize")
  /\ UNCHANGED <<calculatorVars, initialized, sinkOn, started, aborted>>

EndFinalize(t) ==
  /\ At(t, "finalize")
  /\ Finalize
  /\ Goto(t, "runEnd")
  /\ UNCHANGED <<logVars, lifeVars, aborted>>

EmitEnd(t) ==
  /\ At(t, "runEnd")
  /\ Log!Put(RunEnd(runStatus, runResult))
  /\ Goto(t, "runEndFlush")
  /\ UNCHANGED <<calculatorVars, lifeVars, aborted>>

\* Mutant: EmitEnd does not flush.
FlushEndForgotten(t) ==
  /\ At(t, "runEndFlush")
  /\ runLock' = Nobody
  /\ Goto(t, "deregister")
  /\ UNCHANGED <<logVars, calculatorVars, initialized, phase, sinkOn, started,
                 aborted>>

FlushEnd(t) ==
  /\ At(t, "runEndFlush")
  /\ Log!Sync
  /\ runLock' = Nobody
  /\ Goto(t, "deregister")
  /\ UNCHANGED <<calculatorVars, initialized, phase, sinkOn, started, aborted>>

\* Mutant: the sink of a destroyed TestRun stays registered.
DeregisterForgotten(t) ==
  /\ At(t, "deregister")
  /\ Goto(t, "unset")
  /\ UNCHANGED <<logVars, calculatorVars, lifeVars, aborted>>

DeregisterLogSink(t) ==
  /\ At(t, "deregister")
  /\ sinkOn' = FALSE
  /\ Goto(t, "unset")
  /\ UNCHANGED <<logVars, calculatorVars, initialized, phase, started, runLock,
                 aborted>>

UnsetInitializationGuard(t) ==
  /\ At(t, "unset")
  /\ initialized' = FALSE
  /\ Goto(t, "close")
  /\ UNCHANGED <<logVars, calculatorVars, phase, sinkOn, started, runLock, aborted>>

\* The members are destroyed, writer_ with them.
DestroyWriter(t) ==
  /\ At(t, "close")
  /\ Log!Close
  /\ file' = file
  /\ phase' = "gone"
  /\ Goto(t, "idle")
  /\ UNCHANGED <<calculatorVars, initialized, sinkOn, started, runLock, aborted>>

\* The program is dead, or done with its TestRun.
RunOver == aborted \/ phase = "gone"
-----------------------------------------------------------------------------
\* A call of a method other than the destructor begins (or is all done).
RunCall(t) ==
  \/ Construct(t) \/ ConstructAnother(t) \/ RejectArgument(t)
  \/ AddPreStartError(t)
  \/ \E fatal \in BOOLEAN : AddPreStartLog(t, fatal)
  \/ StartAndRegisterDutInfo(t) \/ Skip(t) \/ LogMessage(t)

\* A thread goes on with a call it has begun.
RunContinue(t) ==
  \/ CheckGuard(t) \/ RegisterLogSink(t) \/ RejectRunStart(t) \/ EmitSchemaVersion(t)
  \/ NotifyPreStartError(t) \/ FlushFatal(t) \/ LogFatal(t) \/ Abort(t)
  \/ EmitStart(t)
  \/ EndFinalize(t) \/ EmitEnd(t) \/ FlushEnd(t) \/ DeregisterLogSink(t)
  \/ UnsetInitializationGuard(t) \/ DestroyWriter(t)
-----------------------------------------------------------------------------
\* The places of the log, and what is at an earlier place than place i.
Places == 1..Len(log)

Before(i) == {log[j] : j \in 1..(i - 1)}

\* Artifacts that may be emitted before the run starts.
PreStart == {SchemaVersion, RunLog, RunError, RunStart}

IsRunEnd(a) == a.kind = "RunEnd"

(***************************************************************************)
(* The order of the run's artifacts, whatever the threads do: the schema   *)
(* version comes once, before everything but log messages; pre-start       *)
(* errors come before the start, everything that is not a pre-start        *)
(* artifact after it; and only log messages follow the end.                *)
(***************************************************************************)
RunOrder ==
  \A i \in Places :
    /\ log[i] = SchemaVersion => Before(i) \subseteq {RunLog}
    /\ log[i] # RunLog => SchemaVersion \in Before(i) \cup {log[i]}
    /\ log[i] = RunError => RunStart \notin Before(i)
    /\ log[i] \notin PreStart => RunStart \in Before(i)
    /\ IsRunEnd(log[i]) => \A j \in Places : j > i => log[j] = RunLog

Errors == {RunError} \cup {StepError(s) : s \in Steps}

Failures == {Failure(s) : s \in Steps}

(***************************************************************************)
(* The TestRunEnd agrees with the artifacts it closes: no run that emitted *)
(* an error is Complete and none is Error without one; Pass and Fail tell  *)
(* whether a failure was diagnosed; only a complete run has a result.      *)
(***************************************************************************)
VerdictMatchesLog ==
  \A i \in Places : IsRunEnd(log[i]) =>
    /\ log[i].status = "Complete" => Before(i) \cap Errors = {}
    /\ log[i].status = "Error" => Before(i) \cap Errors # {}
    /\ log[i].result = "Pass" => Before(i) \cap Failures = {}
    /\ log[i].result = "Fail" => Before(i) \cap Failures # {}
    /\ log[i].status = "Complete" <=> log[i].result # "NotApplicable"

(***************************************************************************)
(* Nothing is lost at the end, unless a second TestRun has truncated the   *)
(* file: the TestRunEnd is in the file before the log sink is removed, the *)
(* whole log is once the run is destroyed, and a program killed by a CHECK *)
(* leaves everything it wrote, its last message included.  A run that has  *)
(* not come to its end loses its file only to a TestRun that the guard is  *)
(* about to kill the program for, or has.                                  *)
(***************************************************************************)
DurableAtTheEnd ==
  /\ file = "open" =>
       /\ (\E t \in Threads : pc[t] \in ClosingLabel) =>
            \E i \in 1..durable : IsRunEnd(log[i])
       /\ phase = "gone" => durable = Len(log)
       /\ aborted /\ sinkOn => durable = Len(log)
  /\ file = "lost" /\ phase \notin {"destroying", "gone"} =>
       \E t \in Threads : pc[t] \in {"guard", "dying"}

(***************************************************************************)
(* The library respects the artifact writer's lifetime: no thread, not     *)
(* even one that calls LOG() in the background, writes or flushes after    *)
(* ~TestRun has destroyed the writer.                                      *)
(***************************************************************************)
UsesWriterLegally == Log!SharedSpec
=============================================================================
