---------------------------- MODULE ArtifactLog ----------------------------
(***************************************************************************)
(* What the artifact writer promises to the rest of the results library    *)
(* (results/artifact_writer.h): artifacts are appended one at a time to a  *)
(* log, the sequence number of an artifact being its place in the log; a   *)
(* prefix of the log is in the output file, and a flush makes that prefix  *)
(* the whole log.  Once the file writer has failed the prefix never grows  *)
(* again, and nothing is appended or failed once the writer is destroyed.  *)
(*                                                                         *)
(* ArtifactWriter.tla implements Spec, for a file that nobody else opens;  *)
(* TestRun.tla and the modules above it use the log in place of the writer *)
(* and, where a second TestRun may open the same file, obey SharedSpec.    *)
(***************************************************************************)
EXTENDS Naturals, Sequences

CONSTANT Artifact          \* everything that can be written

VARIABLES
  log,                     \* the artifacts written, in order
  durable,                 \* how many of them the output file holds
  file,                    \* "open", or "lost": there is none, or it failed
  closed                   \* the writer has been destroyed

logVars == <<log, durable, file, closed>>

TypeOK ==
  /\ log \in Seq(Artifact)
  /\ durable \in 0..Len(log)
  /\ file \in {"open", "lost"}
  /\ closed \in BOOLEAN

Init ==
  /\ log = <<>>
  /\ durable = 0
  /\ file \in {"open", "lost"}
  /\ closed = FALSE

(***************************************************************************)
(* Put and Sync are the effects of ArtifactWriter::Write and ::Flush, with *)
(* no question asked about the writer's own lifetime.                      *)
(***************************************************************************)
Put(a) ==
  /\ log' = Append(log, a)
  /\ UNCHANGED <<durable, file, closed>>

Sync ==
  /\ durable' = IF file = "open" THEN Len(log) ELSE durable
  /\ UNCHANGED <<log, file, closed>>

Write == ~closed /\ \E a \in Artifact : Put(a)

Flush == ~closed /\ Sync

Fail ==
  /\ file = "open" /\ file' = "lost"
  /\ UNCHANGED <<log, durable, closed>>

\* Closing flushes, unless that flush is what makes the file fail.
Close ==
  /\ ~closed /\ closed' = TRUE
  /\ \/ /\ durable' = IF file = "open" THEN Len(log) ELSE durable
        /\ UNCHANGED file
     \/ /\ file' = "lost"
        /\ UNCHANGED durable
  /\ UNCHANGED log

(***************************************************************************)
(* Another writer opens the same file, and riegeli::FdWriter truncates it. *)
(* The writer of this log goes on at its own offset, behind a hole that no *)
(* reader gets over: for the log the file is lost.                         *)
(***************************************************************************)
Truncate ==
  /\ durable' = 0
  /\ file' = "lost"
  /\ UNCHANGED <<log, closed>>

Next == Write \/ Flush \/ Fail \/ Close

Spec == Init /\ [][Next]_logVars

SharedSpec == Init /\ [][Next \/ Truncate]_logVars
=============================================================================
