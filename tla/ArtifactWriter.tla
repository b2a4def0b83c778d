--------------------------- MODULE ArtifactWriter ---------------------------
(***************************************************************************)
(* results/artifact_writer.{h,cc}: ArtifactWriter, shared by every thread  *)
(* that writes test results, with its periodic flush thread and its        *)
(* destructor.  A write is three steps under the writer's mutex: take the  *)
(* sequence number, append to the output file, append to the stream.       *)
(*                                                                         *)
(* External parts: the riegeli record writer (appended records sit in a    *)
(* buffer until a flush or Close moves them to the file; once it fails it  *)
(* stays failed), the JSON printer (some artifacts cannot be printed) and  *)
(* absl::Mutex.                                                            *)
(***************************************************************************)
EXTENDS Naturals, Sequences

CONSTANTS
  Threads,            \* threads that call Write and Flush
  Nobody,             \* no thread: the mutex is free
  Artifact,           \* the artifacts
  Unprintable,        \* those MessageToJsonString fails on
  HasFile,            \* output_filepath is not empty
  HasStream,          \* output_stream is not null
  FlushEachMinute,    \* constructor argument flush_each_minute
  FileMayFail,        \* the riegeli writer may fail
  MaxWrites           \* bound on the number of calls of Write

ASSUME WriterAssumption ==
  /\ Nobody \notin Threads
  /\ Unprintable \subseteq Artifact
  /\ HasFile \in BOOLEAN /\ HasStream \in BOOLEAN
  /\ HasFile \/ HasStream        \* CHECKed by the constructor
  /\ FlushEachMinute \in BOOLEAN /\ FileMayFail \in BOOLEAN
  /\ MaxWrites \in Nat

VARIABLES
  mutex,              \* mutex_: its holder, or Nobody
  pc,                 \* where each thread is in Write
  rec,                \* the record each thread is writing
  nextSeq,            \* sequence_number_
  buffer,             \* records handed to output_file_writer_, not yet flushed
  disk,               \* records in the output file
  stream,             \* records printed to output_stream_
  fileOk,             \* output_file_writer_.ok()
  stop,               \* stop_flush_routine_
  flusher,            \* flush_thread_: "none", "waiting", "done"
  owner,              \* the object: "live", "joining" (in ~ArtifactWriter), "dead"
  numbered            \* history: artifacts in the order they were numbered

vars == <<mutex, pc, rec, nextSeq, buffer, disk, stream, fileOk, stop, flusher,
          owner, numbered>>

Record == [seq : Nat, artifact : Artifact]

HasFlusher == HasFile /\ FlushEachMinute

TypeOK ==
  /\ mutex \in Threads \cup {Nobody}
  /\ pc \in [Threads -> {"idle", "file", "stream"}]
  /\ rec \in [Threads -> Record \cup {Nobody}]
  /\ nextSeq \in Nat
  /\ buffer \in Seq(Record) /\ disk \in Seq(Record) /\ stream \in Seq(Record)
  /\ fileOk \in BOOLEAN /\ stop \in BOOLEAN
  /\ flusher \in {"none", "waiting", "done"}
  /\ owner \in {"live", "joining", "dead"}
  /\ numbered \in Seq(Artifact)

\* SetupRecordWriter and SetupPeriodicFlush: the constructor's outcome.
Init ==
  /\ mutex = Nobody
  /\ pc = [t \in Threads |-> "idle"]
  /\ rec = [t \in Threads |-> Nobody]
  /\ nextSeq = 0
  /\ buffer = <<>> /\ disk = <<>> /\ stream = <<>>
  /\ fileOk = TRUE
  /\ stop = FALSE
  /\ flusher = IF HasFlusher THEN "waiting" ELSE "none"
  /\ owner = "live"
  /\ numbered = <<>>
-----------------------------------------------------------------------------
\* FlushLocked: nothing without a file; a failed flush is not reported.
FlushLocked ==
  \/ /\ HasFile /\ fileOk
     /\ disk' = disk \o buffer
     /\ buffer' = <<>>
     /\ UNCHANGED fileOk
  \/ /\ HasFile /\ fileOk /\ FileMayFail
     /\ fileOk' = FALSE
     /\ UNCHANGED <<disk, buffer>>
  \/ /\ ~(HasFile /\ fileOk)
     /\ UNCHANGED <<disk, buffer, fileOk>>

\* Mutant: Write takes its number without holding the mutex.
BeginWriteUnlocked(t, a) ==
  /\ owner = "live"
  /\ pc[t] = "idle"
  /\ nextSeq < MaxWrites
  /\ mutex' = t
  /\ rec' = [rec EXCEPT ![t] = [seq |-> nextSeq, artifact |-> a]]
  /\ nextSeq' = nextSeq + 1
  /\ numbered' = Append(numbered, a)
  /\ pc' = [pc EXCEPT ![t] = "file"]
  /\ UNCHANGED <<buffer, disk, stream, fileOk, stop, flusher, owner>>

\* Write: lock, timestamp, sequence_number_.Next().
BeginWrite(t, a) ==
  /\ owner = "live"
  /\ pc[t] = "idle"
  /\ mutex = Nobody
  /\ nextSeq < MaxWrites
  /\ mutex' = t
  /\ rec' = [rec EXCEPT ![t] = [seq |-> nextSeq, artifact |-> a]]
  /\ nextSeq' = nextSeq + 1
  /\ numbered' = Append(numbered, a)
  /\ pc' = [pc EXCEPT ![t] = "file"]
  /\ UNCHANGED <<buffer, disk, stream, fileOk, stop, flusher, owner>>

\* Mutant: a failed WriteRecord returns from Write, skipping the stream.
WriteToFileOrReturn(t) ==
  /\ pc[t] = "file"
  /\ IF HasFile /\ ~fileOk
     THEN /\ pc' = [pc EXCEPT ![t] = "idle"]
          /\ rec' = [rec EXCEPT ![t] = Nobody]
          /\ mutex' = Nobody
          /\ UNCHANGED <<buffer, fileOk>>
     ELSE /\ pc' = [pc EXCEPT ![t] = "stream"]
          /\ UNCHANGED <<mutex, rec>>
          /\ IF HasFile /\ FileMayFail
             THEN \/ buffer' = Append(buffer, rec[t]) /\ UNCHANGED fileOk
                  \/ fileOk' = FALSE /\ UNCHANGED buffer
             ELSE UNCHANGED <<buffer, fileOk>>
  /\ UNCHANGED <<nextSeq, disk, stream, stop, flusher, owner, numbered>>

\* WriteToFile: a failed WriteRecord is only reported on cerr.
WriteToFile(t) ==
  /\ pc[t] = "file"
  /\ \/ /\ HasFile /\ fileOk
        /\ buffer' = Append(buffer, rec[t])
        /\ UNCHANGED fileOk
     \/ /\ HasFile /\ fileOk /\ FileMayFail
        /\ fileOk' = FALSE
        /\ UNCHANGED buffer
     \/ /\ ~(HasFile /\ fileOk)
        /\ UNCHANGED <<buffer, fileOk>>
  /\ pc' = [pc EXCEPT ![t] = "stream"]
  /\ UNCHANGED <<mutex, rec, nextSeq, disk, stream, stop, flusher, owner, numbered>>

\* WriteToStream: an artifact that cannot be serialised is dropped; then the
\* lock's destructor releases the mutex.
WriteToStream(t) ==
  /\ pc[t] = "stream"
  /\ stream' = IF HasStream /\ rec[t].artifact \notin Unprintable
               THEN Append(stream, rec[t]) ELSE stream
  /\ pc' = [pc EXCEPT ![t] = "idle"]
  /\ rec' = [rec EXCEPT ![t] = Nobody]
  /\ mutex' = Nobody
  /\ UNCHANGED <<nextSeq, buffer, disk, fileOk, stop, flusher, owner, numbered>>

Flush(t) ==
  /\ owner = "live"
  /\ pc[t] = "idle"
  /\ mutex = Nobody
  /\ FlushLocked
  /\ UNCHANGED <<mutex, pc, rec, nextSeq, stream, stop, flusher, owner, numbered>>
-----------------------------------------------------------------------------
\* Mutant: the flush thread waits and flushes once instead of looping.
PeriodicFlushOnce ==
  /\ flusher = "waiting"
  /\ mutex = Nobody
  /\ ~stop
  /\ FlushLocked
  /\ flusher' = "done"
  /\ UNCHANGED <<mutex, pc, rec, nextSeq, stream, stop, owner, numbered>>

\* FlushEveryMinute: AwaitWithTimeout returns, holding the mutex, either with
\* the condition true (the loop ends) or after the timeout with it false.
PeriodicFlush ==
  /\ flusher = "waiting"
  /\ mutex = Nobody
  /\ ~stop
  /\ FlushLocked
  /\ UNCHANGED <<mutex, pc, rec, nextSeq, stream, stop, flusher, owner, numbered>>

FlusherExit ==
  /\ flusher = "waiting"
  /\ mutex = Nobody
  /\ stop
  /\ flusher' = "done"
  /\ UNCHANGED <<mutex, pc, rec, nextSeq, buffer, disk, stream, fileOk, stop,
                 owner, numbered>>

\* Mutant: the destructor joins the flush thread without asking it to stop.
DestroyWithoutStop ==
  /\ owner = "live"
  /\ \A t \in Threads : pc[t] = "idle"
  /\ mutex = Nobody
  /\ FlushLocked
  /\ owner' = IF HasFlusher THEN "joining" ELSE "dead"
  /\ UNCHANGED <<mutex, pc, rec, nextSeq, stream, stop, flusher, numbered>>

\* Mutant: the destructor does not close the file writer.
DestroyWithoutClose ==
  /\ owner = "live"
  /\ \A t \in Threads : pc[t] = "idle"
  /\ mutex = Nobody
  /\ stop' = TRUE
  /\ owner' = IF HasFlusher THEN "joining" ELSE "dead"
  /\ UNCHANGED <<mutex, pc, rec, nextSeq, buffer, disk, stream, fileOk, flusher,
                 numbered>>

\* ~ArtifactWriter: legal only when no thread is inside the object.  Close
\* flushes the buffer; its result is ignored.
Destroy ==
  /\ owner = "live"
  /\ \A t \in Threads : pc[t] = "idle"
  /\ mutex = Nobody
  /\ stop' = TRUE
  /\ FlushLocked
  /\ owner' = IF HasFlusher THEN "joining" ELSE "dead"
  /\ UNCHANGED <<mutex, pc, rec, nextSeq, stream, flusher, numbered>>

Join ==
  /\ owner = "joining"
  /\ flusher = "done"
  /\ owner' = "dead"
  /\ UNCHANGED <<mutex, pc, rec, nextSeq, buffer, disk, stream, fileOk, stop,
                 flusher, numbered>>

\* The object is gone: nothing is left to do.
Gone == owner = "dead" /\ UNCHANGED vars

Next ==
  \/ \E t \in Threads :
        \/ \E a \in Artifact : BeginWrite(t, a)
        \/ WriteToFile(t)
        \/ WriteToStream(t)
        \/ Flush(t)
  \/ PeriodicFlush
  \/ FlusherExit
  \/ Destroy
  \/ Join
  \/ Gone

Spec == Init /\ [][Next]_vars

\* Threads run: a thread inside Write goes on, the flush thread's timed wait
\* returns, and the destructor's join returns once the thread has ended.
Fairness ==
  /\ \A t \in Threads : WF_vars(WriteToFile(t)) /\ WF_vars(WriteToStream(t))
  /\ SF_vars(PeriodicFlush)
  /\ WF_vars(FlusherExit)
  /\ WF_vars(Join)

FairSpec == Spec /\ Fairness
-----------------------------------------------------------------------------
\* Everything handed to the file writer so far, in order.
fileRecords == disk \o buffer

\* The thread, if any, that has a number but has not reached the file yet.
InFlight == {t \in Threads : pc[t] = "file"}

(***************************************************************************)
(* Records reach the file in the order of their sequence numbers, with no  *)
(* gap and no repetition, however the threads interleave: the file is a    *)
(* prefix of what was numbered, and short of it only by the record being   *)
(* written or by what follows a failure of the file writer.                *)
(***************************************************************************)
SequenceNumbersAreFileOrder ==
  HasFile =>
    /\ \A i \in 1..Len(fileRecords) :
         fileRecords[i] = [seq |-> i - 1, artifact |-> numbered[i]]
    /\ fileOk /\ InFlight = {} => Len(fileRecords) = nextSeq

\* What record number i of the file must be.
NumberedRecord(i) == [seq |-> i - 1, artifact |-> numbered[i]]

(***************************************************************************)
(* The inductive invariant behind the property above and the refinement    *)
(* below: exactly the mutex holder is inside Write, it carries the newest  *)
(* number, and the file holds every earlier one, in order.                 *)
(***************************************************************************)
WriteHoldsMutex ==
  \A t \in Threads : /\ pc[t] # "idle" <=> mutex = t
                     /\ pc[t] # "idle" => nextSeq > 0

CarriesNewest ==
  \A t \in Threads : rec[t] = IF pc[t] = "idle" THEN Nobody
                              ELSE NumberedRecord(nextSeq)

FileInOrder ==
  /\ \A i \in 1..Len(disk) : disk[i] = NumberedRecord(i)
  /\ \A i \in 1..Len(buffer) : buffer[i] = NumberedRecord(Len(disk) + i)

FileComplete ==
  IF HasFile
  THEN /\ Len(disk) + Len(buffer) <= nextSeq
       /\ InFlight # {} => Len(disk) + Len(buffer) < nextSeq
       /\ fileOk => Len(disk) + Len(buffer) =
                      IF InFlight = {} THEN nextSeq ELSE nextSeq - 1
  ELSE disk = <<>> /\ buffer = <<>>

NobodyInsideOnceDestroyed ==
  owner # "live" => stop /\ mutex = Nobody

IInv ==
  /\ TypeOK
  /\ nextSeq = Len(numbered)
  /\ WriteHoldsMutex
  /\ CarriesNewest
  /\ FileInOrder
  /\ FileComplete
  /\ NobodyInsideOnceDestroyed

(***************************************************************************)
(* A failing file writer costs the stream nothing: every printable         *)
(* artifact whose Write has returned is on the stream, in numbered order.  *)
(***************************************************************************)
StreamMissesOnlyUnprintable ==
  HasStream =>
    /\ \A i, j \in 1..Len(stream) : i < j => stream[i].seq < stream[j].seq
    /\ \A n \in 1..nextSeq :
         \/ numbered[n] \in Unprintable
         \/ \E t \in Threads : pc[t] # "idle" /\ rec[t].seq = n - 1
         \/ \E i \in 1..Len(stream) :
              stream[i] = [seq |-> n - 1, artifact |-> numbered[n]]

\* The writer keeps the promise of ArtifactLog.tla.
Log == INSTANCE ArtifactLog
         WITH log <- numbered,
              durable <- Len(disk),
              file <- IF HasFile /\ fileOk THEN "open" ELSE "lost",
              closed <- owner # "live"

ImplementsArtifactLog == Log!Spec

(***************************************************************************)
(* The periodic flush: with flush_each_minute, whatever has been written   *)
(* reaches the file even if nobody ever calls Flush again or destroys the  *)
(* writer (unless the file writer fails).                                  *)
(***************************************************************************)
EventuallyOnDisk ==
  HasFlusher =>
    \A n \in 1..MaxWrites :
      (Len(numbered) >= n) ~> (Len(disk) >= n \/ ~fileOk)

\* The destructor's join returns: the flush thread sees the stop flag.
DestroyReturns == (owner = "joining") ~> (owner = "dead")
=============================================================================
