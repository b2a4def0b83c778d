---------------------------- MODULE HostCommand ----------------------------
(***************************************************************************)
(* Commands run on the machine under test: LocalHostAdapter::RunCommand    *)
(* (hwinterface/backends/lib/host_adapter.cc) and the ssh connection's     *)
(* RunCommandWithStdin (lib/off_dut_machine_interface/ssh/remote.cc).      *)
(* Each thread makes one call; the calls share what belongs to the process: *)
(* the table of descriptors, which children inherit, and the handler of    *)
(* SIGPIPE.  The kernel's part (pipes, fork, waitpid) and the children are  *)
(* modelled as the code uses them.                                         *)
(***************************************************************************)
EXTENDS Integers, FiniteSets, Sequences

CONSTANTS
  Threads,                \* threads that run one command each
  MaxData,                \* largest number of bytes given to a command's stdin
  ExitCodes,              \* codes a command may exit with
  PipeCapacity            \* bytes a pipe holds before write() blocks

ASSUME BoundsAssumption ==
  MaxData \in Nat /\ PipeCapacity \in Nat \ {0} /\ ExitCodes \subseteq 0..255

VARIABLES
  call,                   \* the command each thread runs
  pc,                     \* where each thread is
  fd,                     \* the local variable fd of each thread
  written,                \* bytes of stdin written so far
  saved,                  \* the local variable restore of each thread
  result,                 \* what the call returned
  table,                  \* what each descriptor of the program designates
  queue,                  \* the bytes in each thread's pipe, named by their writer
  child,                  \* the child each thread has forked
  sigpipe,                \* the program's handler of SIGPIPE
  program,                \* "running" or "killed"
  hit                     \* pipes of which another thread closed an end (history)

threadVars == <<pc, fd, written, saved, result>>
vars == <<call, threadVars, table, queue, child, sigpipe, program, hit>>

FDs == 1..(2 * Cardinality(Threads))
Free == <<>>
ReadEnd(t) == <<t, "r">>
WriteEnd(t) == <<t, "w">>

\* A child of the program is the command itself or ssh, which runs the command of the
\* machine under test: remote is what became of that one, and got what ssh gave it.
NoChild == [state |-> "none", code |-> 0, stray |-> FALSE, ends |-> {}, stdin |-> Free,
            remote |-> "none", got |-> <<>>]

SIGKILL == 9

\* The kernel closes the descriptors of a child that ends.
Ended(c, state, code) ==
  [c EXCEPT !.state = state, !.code = code, !.ends = {}, !.stdin = Free]

Deadline == [kind |-> "deadline", code |-> 0]
Failure == [kind |-> "error", code |-> 0]
Exit(code) == [kind |-> "exit", code |-> code]

\* An end of a pipe that is open somewhere: in the program or in a child.
IsOpen(end) ==
  end \in {table[n] : n \in FDs} \cup UNION {child[t].ends : t \in Threads}

\* Children matter as long as the program runs.
Running(t) == child[t].state = "running" /\ program = "running"

----------------------------------------------------------------------------
Init ==
  /\ call \in [Threads -> {c \in [kind : {"local", "ssh"}, data : 0..MaxData] :
                             c.kind = "local" => c.data = 0}]
  /\ pc = [t \in Threads |-> IF call[t].kind = "ssh" THEN "prepare" ELSE "fork"]
  /\ fd = [t \in Threads |-> <<>>]
  /\ written = [t \in Threads |-> 0]
  /\ saved = [t \in Threads |-> "default"]
  /\ result = [t \in Threads |-> <<>>]
  /\ table = [n \in FDs |-> Free]
  /\ queue = [t \in Threads |-> <<>>]
  /\ child = [t \in Threads |-> NoChild]
  /\ sigpipe = "default" /\ program = "running"
  /\ hit = {}

At(t, place) == program = "running" /\ pc[t] = place
Goto(t, place) == pc' = [pc EXCEPT ![t] = place]

\* The call's value is fixed; the cleanups still run, the last declared first.
ReturnWith(t, value) == result' = [result EXCEPT ![t] = value]

----------------------------------------------------------------------------
(* The calling thread.                                                     *)

\* Redirection asked for, no temporary file, no pipe: an error with nothing to clean up.
FailToPrepare(t) ==
  /\ At(t, "prepare")
  /\ ReturnWith(t, Failure) /\ Goto(t, "done")
  /\ UNCHANGED <<call, fd, written, saved, table, queue, child, sigpipe, program, hit>>

\* pipe() takes the two lowest free numbers.
Pipe(t) ==
  /\ At(t, "prepare")
  /\ \E r, w \in FDs :
       /\ r < w /\ table[r] = Free /\ table[w] = Free
       /\ \A n \in FDs : n < w /\ n # r => table[n] # Free
       /\ fd' = [fd EXCEPT ![t] = <<r, w>>]
       /\ table' = [table EXCEPT ![r] = ReadEnd(t), ![w] = WriteEnd(t)]
  /\ Goto(t, "fork")
  /\ UNCHANGED <<call, written, saved, result, queue, child, sigpipe, program, hit>>

\* The child inherits every open end; the one for ssh closes fd[1] and reads fd[0].  One
\* that cannot become ssh returns from the function: a stray copy of the program.
NewChild(t, execs) ==
  IF call[t].kind = "local"
  THEN [NoChild EXCEPT !.state = "running", !.ends = {table[n] : n \in FDs} \ {Free}]
  ELSE [NoChild EXCEPT !.state = "running",
                       !.stray = ~execs \/ table[fd[t][1]] = Free,
                       !.stdin = table[fd[t][1]],
                       !.ends  = {table[n] : n \in FDs \ {fd[t][2]}} \ {Free}]

Fork(t) ==
  /\ At(t, "fork")
  /\ \E execs \in BOOLEAN : child' = [child EXCEPT ![t] = NewChild(t, execs)]
  /\ Goto(t, IF call[t].kind = "ssh" THEN "closeRead" ELSE "poll")
  /\ UNCHANGED <<call, fd, written, saved, result, table, queue, sigpipe, program, hit>>

\* Where a call that has its value goes: to the cleanup of the pipe, if there is one.
Leave(t) == Goto(t, IF call[t].kind = "ssh" THEN "cleanup0" ELSE "done")

\* Also where a local command gets no temporary files.
FailToFork(t) ==
  /\ At(t, "fork")
  /\ ReturnWith(t, Failure) /\ Leave(t)
  /\ UNCHANGED <<call, fd, written, saved, table, queue, child, sigpipe, program, hit>>

\* close() of a number, whatever it designates by now.
CloseNumber(t, n) ==
  /\ table' = [table EXCEPT ![n] = Free]
  /\ hit' = IF table[n] \in {Free, ReadEnd(t), WriteEnd(t)} THEN hit
            ELSE hit \cup {table[n][1]}

Close(t, place, n, next) ==
  /\ At(t, place)
  /\ CloseNumber(t, n)
  /\ Goto(t, next)
  /\ UNCHANGED <<call, fd, written, saved, result, queue, child, sigpipe, program>>

CloseRead(t) == Close(t, "closeRead", fd[t][1], "ignore")

\* Mutant: the handler is saved but not set.
SaveSigpipe(t) ==
  /\ At(t, "ignore")
  /\ saved' = [saved EXCEPT ![t] = sigpipe]
  /\ Goto(t, "write")
  /\ UNCHANGED <<call, fd, written, result, table, queue, child, sigpipe, program, hit>>

IgnoreSigpipe(t) ==
  /\ At(t, "ignore")
  /\ saved' = [saved EXCEPT ![t] = sigpipe] /\ sigpipe' = "ignored"
  /\ Goto(t, "write")
  /\ UNCHANGED <<call, fd, written, result, table, queue, child, program, hit>>

\* write() blocks, with no deadline yet, while the pipe is full and can be read.
Write(t) ==
  /\ At(t, "write") /\ written[t] < call[t].data
  /\ \E u \in Threads :
       /\ table[fd[t][2]] = WriteEnd(u) /\ IsOpen(ReadEnd(u))
       /\ Len(queue[u]) < PipeCapacity
       /\ queue' = [queue EXCEPT ![u] = Append(@, t)]
  /\ written' = [written EXCEPT ![t] = @ + 1]
  /\ UNCHANGED <<call, pc, fd, saved, result, table, child, sigpipe, program, hit>>

\* EBADF, or EPIPE once nobody can read: the call fails, and nobody waits for the child.
FailToWrite(t) ==
  /\ At(t, "write") /\ written[t] < call[t].data
  /\ \A u \in Threads : table[fd[t][2]] = WriteEnd(u) =>
       ~IsOpen(ReadEnd(u)) /\ sigpipe = "ignored"
  /\ ReturnWith(t, Failure) /\ Goto(t, "restore")
  /\ UNCHANGED <<call, fd, written, saved, table, queue, child, sigpipe, program, hit>>

Sigpipe(t) ==
  /\ At(t, "write") /\ written[t] < call[t].data
  /\ \E u \in Threads : table[fd[t][2]] = WriteEnd(u) /\ ~IsOpen(ReadEnd(u))
  /\ sigpipe = "default"
  /\ program' = "killed"
  /\ UNCHANGED <<call, threadVars, table, queue, child, sigpipe, hit>>

\* Mutant: a write that takes only a part of the data is taken for all of it.
CloseAfterWrite(t) ==
  /\ written[t] > 0 \/ call[t].data = 0
  /\ Close(t, "write", fd[t][2], "poll")

CloseWrite(t) == written[t] = call[t].data /\ Close(t, "write", fd[t][2], "poll")

\* Where a polled call goes: an ssh call gives the handler back first.
LeavePoll(t) == Goto(t, IF call[t].kind = "ssh" THEN "restore" ELSE "done")

\* 128 + N as a shell does, -N as Python does.
CodeOf(t) ==
  IF child[t].state = "exited" THEN child[t].code
  ELSE IF call[t].kind = "local" THEN 128 + child[t].code ELSE -child[t].code

\* waitpid: a child that has finished before the deadline is reaped; reading its output
\* back may fail.
Poll(t) ==
  /\ At(t, "poll")
  /\ child[t].state \in {"exited", "signalled"}
  /\ ReturnWith(t, Exit(CodeOf(t))) \/ ReturnWith(t, Failure)
  /\ child' = [child EXCEPT ![t].state = "reaped"]
  /\ LeavePoll(t)
  /\ UNCHANGED <<call, fd, written, saved, table, queue, sigpipe, program, hit>>

\* Mutants: the deadline passes and the child lives on; only a finished child ends the loop.
GiveUp(t) ==
  /\ At(t, "poll")
  /\ ReturnWith(t, Deadline)
  /\ LeavePoll(t)
  /\ UNCHANGED <<call, fd, written, saved, table, queue, child, sigpipe, program, hit>>
GiveUpOnFinished(t) == ~Running(t) /\ GiveUp(t)

\* The deadline has passed: the child is killed, finished or not, and never waited for.
\* Where it is ssh, nobody tells the machine under test.
Kill(t) ==
  /\ At(t, "poll")
  /\ ReturnWith(t, Deadline)
  /\ child' = IF child[t].state = "running"
              THEN [child EXCEPT ![t] = Ended(@, "signalled", SIGKILL)] ELSE child
  /\ LeavePoll(t)
  /\ UNCHANGED <<call, fd, written, saved, table, queue, sigpipe, program, hit>>

RestoreSigpipe(t) ==
  /\ At(t, "restore")
  /\ sigpipe' = saved[t] /\ saved' = [saved EXCEPT ![t] = "default"]
  /\ Goto(t, "cleanup0")
  /\ UNCHANGED <<call, fd, written, result, table, queue, child, program, hit>>

\* Mutant: fd[1] is left to the code after the writes.
CleanupReadEnd(t) == Close(t, "cleanup0", fd[t][1], "done")

\* pipe_cleanup closes both numbers, also those that are closed already.
Cleanup(t) ==
  \/ Close(t, "cleanup0", fd[t][1], "cleanup1")
  \/ Close(t, "cleanup1", fd[t][2], "done")

----------------------------------------------------------------------------
(* Children.                                                               *)

IsSsh(t) == call[t].kind = "ssh" /\ ~child[t].stray

\* ssh has logged in, and the machine under test runs the command.
RemoteStarts(t) ==
  /\ Running(t) /\ IsSsh(t) /\ child[t].remote = "none"
  /\ child' = [child EXCEPT ![t].remote = "running"]
  /\ UNCHANGED <<call, threadVars, table, queue, sigpipe, program, hit>>

\* ssh gives `cat > file` the next byte of its own standard input.
ChildReads(t) ==
  /\ Running(t) /\ child[t].remote = "running"
  /\ \E u \in Threads :
       /\ child[t].stdin = ReadEnd(u) /\ queue[u] # <<>>
       /\ child' = [child EXCEPT ![t].got = Append(@, Head(queue[u]))]
       /\ queue' = [queue EXCEPT ![u] = Tail(@)]
  /\ UNCHANGED <<call, threadVars, table, sigpipe, program, hit>>

AtEndOfInput(t) ==
  \A u \in Threads : child[t].stdin = ReadEnd(u) => queue[u] = <<>> /\ ~IsOpen(WriteEnd(u))

\* The command of the machine under test ends, well only when it has read all its input;
\* ssh ends with its code, and nobody hears of it if ssh is gone.
RemoteEnds(t) ==
  /\ child[t].remote = "running" /\ program = "running"
  /\ \/ /\ child[t].state = "running"
        /\ \E code \in ExitCodes :
             /\ code = 0 => AtEndOfInput(t)
             /\ child' = [child EXCEPT ![t] = [Ended(@, "exited", code) EXCEPT !.remote = "ended"]]
     \/ /\ child[t].state # "running"
        /\ child' = [child EXCEPT ![t].remote = "ended"]
  /\ UNCHANGED <<call, threadVars, table, queue, sigpipe, program, hit>>

\* A local command or a stray copy ends; ssh fails, whatever the remote command does.
ChildExits(t) ==
  /\ Running(t)
  /\ \E code \in ExitCodes :
       /\ IsSsh(t) => code # 0
       /\ child' = [child EXCEPT ![t] = Ended(@, "exited", code)]
  /\ UNCHANGED <<call, threadVars, table, queue, sigpipe, program, hit>>

ChildSignalled(t) ==
  /\ Running(t)
  /\ child' = [child EXCEPT ![t] = Ended(@, "signalled", SIGKILL)]
  /\ UNCHANGED <<call, threadVars, table, queue, sigpipe, program, hit>>

----------------------------------------------------------------------------
ThreadStep(t) ==
  \/ FailToPrepare(t) \/ Pipe(t) \/ Fork(t) \/ FailToFork(t)
  \/ CloseRead(t) \/ IgnoreSigpipe(t)
  \/ Write(t) \/ FailToWrite(t) \/ Sigpipe(t) \/ CloseWrite(t)
  \/ Poll(t) \/ Kill(t) \/ RestoreSigpipe(t) \/ Cleanup(t)

ChildStep(t) ==
  RemoteStarts(t) \/ ChildReads(t) \/ RemoteEnds(t) \/ ChildExits(t) \/ ChildSignalled(t)

Next == \E t \in Threads : ThreadStep(t) \/ ChildStep(t)

\* Threads run, and time passes: the deadline, set when polling begins, comes.  A
\* command may run for ever.
Fairness == \A t \in Threads : WF_vars(ThreadStep(t))

Spec == Init /\ [][Next]_vars
FairSpec == Spec /\ Fairness

----------------------------------------------------------------------------
(* Properties.                                                             *)

Succeeded(t) == pc[t] = "done" /\ result[t] = Exit(0)

\* WriteFile and ReadFile rely on it (remote.cc:72-85, 187-197): exit code 0 of a
\* remote command means that it was given all of its input, and nothing else, however
\* the writes, the ends other children inherit, timeouts and the cleanups of other
\* calls interleave; short of a second close() that hits another call's pipe (hit), and
\* of a child that never became ssh.
AcceptedDataArrives ==
  hit = {} =>
    \A t \in Threads :
      Succeeded(t) /\ call[t].kind = "ssh" /\ ~child[t].stray =>
        child[t].got = [i \in 1..call[t].data |-> t]

\* A child process, the command or ssh, outlives its call only where the call failed to
\* write its input (remote.cc:190-193): a call that returns an exit code or the deadline
\* leaves no process of the program running (host_adapter.cc:142-145,
\* remote.cc:243-246), whatever becomes of the remote command.
OnlyFailedWritesLeaveChildren ==
  \A t \in Threads :
    pc[t] = "done" /\ Running(t) => result[t] = Failure /\ written[t] < call[t].data

\* Every end of every pipe is closed once all calls are over (remote.cc:139-142), though
\* each call closes its numbers twice and may hit those of another.
NoDescriptorLeaks ==
  program = "running" /\ (\A t \in Threads : pc[t] = "done") =>
    \A n \in FDs : table[n] = Free

SshCalls == {t \in Threads : call[t].kind = "ssh"}

\* One remote command at a time, among any number of local ones, never gets the program
\* killed for a closed pipe, and gives the handler back as it was (remote.cc:179-185).
OneSshCallIsSafe ==
  (\E s \in Threads : SshCalls \subseteq {s}) =>
    /\ program = "running"
    /\ (\A t \in Threads : pc[t] = "done") => sigpipe = "default"

\* "Ignore SIGPIPE to avoid program terminate" (remote.cc:179): no write to a pipe that
\* nobody reads kills the program, also when several threads run remote commands.
SigpipeNeverKills == program = "running"

\* A call whose input fits in the pipe returns or dies with the program, whatever its
\* command does and whoever else runs commands (host_adapter.cc:104-145,
\* remote.cc:199-246).
CallsWhoseDataFitReturn ==
  \A t \in Threads :
    call[t].data <= PipeCapacity ~> (pc[t] = "done" \/ program = "killed" \/ hit # {})

============================================================================
