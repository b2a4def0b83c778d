------------------------- MODULE HostCommandProofs -------------------------
(***************************************************************************)
(* Theorems about the commands run on the machine under test, for any      *)
(* number of threads, sizes of data and of pipes, and exit codes: what one *)
(* remote command at a time guarantees, which children outlive their call, *)
(* and that a command which succeeds has read all of its input.            *)
(***************************************************************************)
EXTENDS HostCommand, TLAPS

Places == {"prepare", "fork", "closeRead", "ignore", "write", "poll",
           "restore", "cleanup0", "cleanup1", "done"}

\* The fields of a child, whatever their values.
IsChild(c) ==
  c = [state |-> c.state, code |-> c.code, stray |-> c.stray, ends |-> c.ends,
       stdin |-> c.stdin, remote |-> c.remote, got |-> c.got]

Shape ==
  /\ \A t \in Threads : call[t].kind \in {"local", "ssh"}
  /\ pc \in [Threads -> Places]
  /\ saved \in [Threads -> {"default", "ignored"}] /\ sigpipe \in {"default", "ignored"}
  /\ DOMAIN result = Threads /\ DOMAIN child = Threads /\ DOMAIN fd = Threads
  /\ DOMAIN table = FDs
  /\ \A t \in Threads : IsChild(child[t])

\* Only remote commands have a pipe and touch the handler.
LocalPlaces ==
  \A t \in Threads : call[t].kind = "local" => pc[t] \in {"fork", "poll", "done"}

\* While one thread at most runs a remote command, the handler is ignored exactly
\* between IgnoreSigpipe and RestoreSigpipe, and what is saved is the original.
HandlerOfOne ==
  \A s \in Threads : SshCalls \subseteq {s} =>
    /\ program = "running"
    /\ saved[s] = "default"
    /\ sigpipe = IF call[s].kind = "ssh" /\ pc[s] \in {"write", "poll", "restore"}
                 THEN "ignored" ELSE "default"

\* A child begins with Fork, and runs on behind its poll only if a write failed.
ChildOfCall ==
  \A t \in Threads :
    /\ pc[t] \in {"prepare", "fork"} => child[t].state = "none"
    /\ pc[t] \in {"restore", "cleanup0", "cleanup1", "done"} /\ child[t].state = "running" =>
         result[t] = Failure /\ written[t] < call[t].data

\* The places at which a remote command may still have to close its read end.
HoldingEnds == {"fork", "closeRead", "ignore", "write", "poll", "restore", "cleanup0"}

\* What is open is in the hands of a call that has a cleanup before it, whoever opened it.
EndsHeld ==
  \A n \in FDs : table[n] # Free =>
    \E t \in Threads :
      /\ call[t].kind = "ssh"
      /\ \/ n = fd[t][1] /\ pc[t] \in HoldingEnds
         \/ n = fd[t][2] /\ pc[t] \in HoldingEnds \cup {"cleanup1"}

IInv == Shape /\ LocalPlaces /\ HandlerOfOne /\ ChildOfCall /\ EndsHeld

\* What a step of a remote command is to the program: its child, if any, may end.
RemoteEffect(t) ==
  /\ UNCHANGED <<call, threadVars, table, queue, sigpipe, program, hit>>
  /\ \E c : /\ child' = [child EXCEPT ![t] = c] /\ IsChild(c)
            /\ c.got = child[t].got /\ c.stray = child[t].stray
            /\ \/ /\ c.state = child[t].state /\ c.code = child[t].code
                  /\ c.stdin = child[t].stdin
               \/ /\ child[t].state = "running" /\ c.state = "exited" /\ c.stdin = Free
                  /\ c.code = 0 => AtEndOfInput(t)

\* Only its own child learns of it, and only by ending.
LEMMA RemoteSteps ==
  ASSUME Shape, NEW t \in Threads, RemoteStarts(t) \/ RemoteEnds(t)
  PROVE  RemoteEffect(t)
<1>1. IsChild(child[t]) /\ DOMAIN child = Threads
  BY DEF Shape
<1>2. CASE RemoteStarts(t)
  <2>1. PICK c : c = [child[t] EXCEPT !.remote = "running"]
    OBVIOUS
  <2>2. child' = [child EXCEPT ![t] = c]
    BY <1>2, <2>1 DEF RemoteStarts
  <2>3. /\ IsChild(c) /\ c.got = child[t].got /\ c.stray = child[t].stray
        /\ c.state = child[t].state /\ c.code = child[t].code /\ c.stdin = child[t].stdin
    BY <1>1, <2>1 DEF IsChild
  <2>4. UNCHANGED <<call, threadVars, table, queue, sigpipe, program, hit>>
    BY <1>2 DEF RemoteStarts
  <2> QED
    BY <2>2, <2>3, <2>4 DEF RemoteEffect
<1>3. CASE RemoteEnds(t) /\ child[t].state = "running"
  <2>1. PICK code \in ExitCodes :
          /\ code = 0 => AtEndOfInput(t)
          /\ child' = [child EXCEPT ![t] = [Ended(@, "exited", code) EXCEPT !.remote = "ended"]]
    BY <1>3 DEF RemoteEnds
  <2>2. PICK c : c = [Ended(child[t], "exited", code) EXCEPT !.remote = "ended"]
    OBVIOUS
  <2>3. child' = [child EXCEPT ![t] = c]
    BY <2>1, <2>2
  <2>4. /\ IsChild(c) /\ c.got = child[t].got /\ c.stray = child[t].stray
        /\ c.state = "exited" /\ c.stdin = Free /\ c.code = code
    BY <1>1, <2>2 DEF Ended, IsChild
  <2> QED
    BY <1>3, <2>1, <2>3, <2>4 DEF RemoteEnds, RemoteEffect
<1>4. CASE RemoteEnds(t) /\ child[t].state # "running"
  <2>1. PICK c : c = [child[t] EXCEPT !.remote = "ended"]
    OBVIOUS
  <2>2. child' = [child EXCEPT ![t] = c]
    BY <1>4, <2>1 DEF RemoteEnds
  <2>3. /\ IsChild(c) /\ c.got = child[t].got /\ c.stray = child[t].stray
        /\ c.state = child[t].state /\ c.code = child[t].code /\ c.stdin = child[t].stdin
    BY <1>1, <2>1 DEF IsChild
  <2>4. UNCHANGED <<call, threadVars, table, queue, sigpipe, program, hit>>
    BY <1>4 DEF RemoteEnds
  <2> QED
    BY <2>2, <2>3, <2>4 DEF RemoteEffect
<1> QED
  BY <1>2, <1>3, <1>4

\* Every action writes its own thread's variables, with values they can have.
LEMMA ShapeKept ==
  ASSUME Shape, NEW t \in Threads, ThreadStep(t) \/ ChildStep(t)
  PROVE  Shape'
<1> USE DEF At, Goto, Shape, Places
<1>1. CASE FailToPrepare(t)
  BY <1>1 DEF FailToPrepare, ReturnWith
<1>2. CASE Pipe(t)
  BY <1>2 DEF Pipe
<1>3. CASE Fork(t)
  <2>1. PICK execs \in BOOLEAN : child' = [child EXCEPT ![t] = NewChild(t, execs)]
    BY <1>3 DEF Fork
  <2>2. IsChild(NewChild(t, execs))
    BY DEF NewChild, NoChild, IsChild
  <2>3. DOMAIN child' = Threads /\ \A u \in Threads : IsChild(child'[u])
    BY <2>1, <2>2
  <2>4. /\ pc' = [pc EXCEPT ![t] = IF call[t].kind = "ssh" THEN "closeRead" ELSE "poll"]
        /\ UNCHANGED <<call, fd, saved, result, table, sigpipe>>
    BY <1>3 DEF Fork
  <2> QED
    BY <2>3, <2>4
<1>4. CASE FailToFork(t)
  BY <1>4 DEF FailToFork, ReturnWith, Leave
<1>5. CASE CloseRead(t)
  BY <1>5 DEF CloseRead, Close, CloseNumber
<1>6. CASE IgnoreSigpipe(t)
  BY <1>6 DEF IgnoreSigpipe
<1>7. CASE Write(t)
  BY <1>7 DEF Write
<1>8. CASE FailToWrite(t)
  BY <1>8 DEF FailToWrite, ReturnWith
<1>9. CASE Sigpipe(t)
  BY <1>9 DEF Sigpipe, threadVars
<1>10. CASE CloseWrite(t)
  BY <1>10 DEF CloseWrite, Close, CloseNumber
<1>11. CASE Poll(t)
  BY <1>11 DEF Poll, ReturnWith, LeavePoll, IsChild
<1>12. CASE Kill(t)
  BY <1>12 DEF Kill, ReturnWith, LeavePoll, Ended, IsChild
<1>13. CASE RestoreSigpipe(t)
  BY <1>13 DEF RestoreSigpipe
<1>14. CASE Cleanup(t)
  BY <1>14 DEF Cleanup, Close, CloseNumber
<1>15. CASE ChildReads(t)
  BY <1>15 DEF ChildReads, threadVars, IsChild, Running
<1>16. CASE ChildExits(t)
  BY <1>16 DEF ChildExits, threadVars, IsChild, Ended, Running
<1>17. CASE ChildSignalled(t)
  BY <1>17 DEF ChildSignalled, threadVars, IsChild, Ended, Running
<1>18. CASE RemoteStarts(t) \/ RemoteEnds(t)
  <2> QED
    BY <1>18, RemoteSteps DEF RemoteEffect, threadVars
<1> QED
  BY <1>1, <1>2, <1>3, <1>4, <1>5, <1>6, <1>7, <1>8, <1>9, <1>10, <1>11, <1>12,
     <1>13, <1>14, <1>15, <1>16, <1>17, <1>18 DEF ThreadStep, ChildStep

\* A local command goes from fork to poll to done.
LEMMA LocalPlacesKept ==
  ASSUME Shape, LocalPlaces, NEW t \in Threads, ThreadStep(t) \/ ChildStep(t)
  PROVE  LocalPlaces'
<1> USE DEF At, Goto, Shape, LocalPlaces, Places
<1>1. CASE FailToPrepare(t)
  BY <1>1 DEF FailToPrepare, ReturnWith
<1>2. CASE Pipe(t)
  BY <1>2 DEF Pipe
<1>3. CASE Fork(t)
  BY <1>3 DEF Fork, NewChild, NoChild
<1>4. CASE FailToFork(t)
  BY <1>4 DEF FailToFork, ReturnWith, Leave
<1>5. CASE CloseRead(t)
  BY <1>5 DEF CloseRead, Close
<1>6. CASE IgnoreSigpipe(t)
  BY <1>6 DEF IgnoreSigpipe
<1>7. CASE Write(t)
  BY <1>7 DEF Write
<1>8. CASE FailToWrite(t)
  BY <1>8 DEF FailToWrite, ReturnWith
<1>9. CASE Sigpipe(t)
  BY <1>9 DEF Sigpipe, threadVars
<1>10. CASE CloseWrite(t)
  BY <1>10 DEF CloseWrite, Close
<1>11. CASE Poll(t)
  BY <1>11 DEF Poll, ReturnWith, LeavePoll
<1>12. CASE Kill(t)
  BY <1>12 DEF Kill, ReturnWith, LeavePoll, Ended
<1>13. CASE RestoreSigpipe(t)
  BY <1>13 DEF RestoreSigpipe
<1>14. CASE Cleanup(t)
  BY <1>14 DEF Cleanup, Close
<1>15. CASE ChildReads(t)
  BY <1>15 DEF ChildReads, threadVars, Running
<1>16. CASE ChildExits(t)
  BY <1>16 DEF ChildExits, threadVars, Ended, Running
<1>17. CASE ChildSignalled(t)
  BY <1>17 DEF ChildSignalled, threadVars, Ended, Running
<1>18. CASE RemoteStarts(t) \/ RemoteEnds(t)
  <2> QED
    BY <1>18, RemoteSteps DEF RemoteEffect, threadVars
<1> QED
  BY <1>1, <1>2, <1>3, <1>4, <1>5, <1>6, <1>7, <1>8, <1>9, <1>10, <1>11, <1>12,
     <1>13, <1>14, <1>15, <1>16, <1>17, <1>18 DEF ThreadStep, ChildStep

\* No other thread touches the handler of the only remote command.
LEMMA HandlerOfOneKept ==
  ASSUME Shape, LocalPlaces, HandlerOfOne, NEW t \in Threads, ThreadStep(t) \/ ChildStep(t)
  PROVE  HandlerOfOne'
<1> USE DEF At, Goto, Shape, LocalPlaces, HandlerOfOne, SshCalls, Places
<1>1. CASE FailToPrepare(t)
  BY <1>1 DEF FailToPrepare, ReturnWith
<1>2. CASE Pipe(t)
  BY <1>2 DEF Pipe
<1>3. CASE Fork(t)
  BY <1>3 DEF Fork, NewChild, NoChild
<1>4. CASE FailToFork(t)
  BY <1>4 DEF FailToFork, ReturnWith, Leave
<1>5. CASE CloseRead(t)
  BY <1>5 DEF CloseRead, Close
<1>6. CASE IgnoreSigpipe(t)
  BY <1>6 DEF IgnoreSigpipe
<1>7. CASE Write(t)
  BY <1>7 DEF Write
<1>8. CASE FailToWrite(t)
  BY <1>8 DEF FailToWrite, ReturnWith
<1>9. CASE Sigpipe(t)
  BY <1>9 DEF Sigpipe, threadVars
<1>10. CASE CloseWrite(t)
  BY <1>10 DEF CloseWrite, Close
<1>11. CASE Poll(t)
  BY <1>11 DEF Poll, ReturnWith, LeavePoll
<1>12. CASE Kill(t)
  BY <1>12 DEF Kill, ReturnWith, LeavePoll, Ended
<1>13. CASE RestoreSigpipe(t)
  BY <1>13 DEF RestoreSigpipe
<1>14. CASE Cleanup(t)
  BY <1>14 DEF Cleanup, Close
<1>15. CASE ChildReads(t)
  BY <1>15 DEF ChildReads, threadVars, Running
<1>16. CASE ChildExits(t)
  BY <1>16 DEF ChildExits, threadVars, Ended, Running
<1>17. CASE ChildSignalled(t)
  BY <1>17 DEF ChildSignalled, threadVars, Ended, Running
<1>18. CASE RemoteStarts(t) \/ RemoteEnds(t)
  <2> QED
    BY <1>18, RemoteSteps DEF RemoteEffect, threadVars
<1> QED
  BY <1>1, <1>2, <1>3, <1>4, <1>5, <1>6, <1>7, <1>8, <1>9, <1>10, <1>11, <1>12,
     <1>13, <1>14, <1>15, <1>16, <1>17, <1>18 DEF ThreadStep, ChildStep

\* A thread leaves the poll with its child reaped or killed.
LEMMA ChildOfCallKept ==
  ASSUME Shape, ChildOfCall, NEW t \in Threads, ThreadStep(t) \/ ChildStep(t)
  PROVE  ChildOfCall'
<1> USE DEF At, Goto, Shape, ChildOfCall, Places
<1>1. CASE FailToPrepare(t)
  BY <1>1 DEF FailToPrepare, ReturnWith
<1>2. CASE Pipe(t)
  BY <1>2 DEF Pipe
<1>3. CASE Fork(t)
  BY <1>3 DEF Fork, NewChild, NoChild, IsChild
<1>4. CASE FailToFork(t)
  BY <1>4 DEF FailToFork, ReturnWith, Leave
<1>5. CASE CloseRead(t)
  BY <1>5 DEF CloseRead, Close
<1>6. CASE IgnoreSigpipe(t)
  BY <1>6 DEF IgnoreSigpipe
<1>7. CASE Write(t)
  BY <1>7 DEF Write
<1>8. CASE FailToWrite(t)
  BY <1>8 DEF FailToWrite, ReturnWith
<1>9. CASE Sigpipe(t)
  BY <1>9 DEF Sigpipe, threadVars
<1>10. CASE CloseWrite(t)
  BY <1>10 DEF CloseWrite, Close
<1>11. CASE Poll(t)
  BY <1>11 DEF Poll, ReturnWith, LeavePoll, IsChild
<1>12. CASE Kill(t)
  BY <1>12 DEF Kill, ReturnWith, LeavePoll, Ended, IsChild
<1>13. CASE RestoreSigpipe(t)
  BY <1>13 DEF RestoreSigpipe
<1>14. CASE Cleanup(t)
  BY <1>14 DEF Cleanup, Close
<1>15. CASE ChildReads(t)
  BY <1>15 DEF ChildReads, threadVars, IsChild, Running
<1>16. CASE ChildExits(t)
  BY <1>16 DEF ChildExits, threadVars, IsChild, Ended, Running
<1>17. CASE ChildSignalled(t)
  BY <1>17 DEF ChildSignalled, threadVars, IsChild, Ended, Running
<1>18. CASE RemoteStarts(t) \/ RemoteEnds(t)
  <2> QED
    BY <1>18, RemoteSteps DEF RemoteEffect, threadVars
<1> QED
  BY <1>1, <1>2, <1>3, <1>4, <1>5, <1>6, <1>7, <1>8, <1>9, <1>10, <1>11, <1>12,
     <1>13, <1>14, <1>15, <1>16, <1>17, <1>18 DEF ThreadStep, ChildStep

\* A number leaves the hands of its call by being closed.
LEMMA EndsHeldKept ==
  ASSUME Shape, LocalPlaces, EndsHeld, NEW t \in Threads, ThreadStep(t) \/ ChildStep(t)
  PROVE  EndsHeld'
<1> USE DEF At, Goto, Shape, LocalPlaces, EndsHeld, HoldingEnds, Places
<1>1. CASE FailToPrepare(t)
  BY <1>1 DEF FailToPrepare, ReturnWith
<1>2. CASE Pipe(t)
  BY <1>2 DEF Pipe
<1>3. CASE Fork(t)
  BY <1>3 DEF Fork, NewChild, NoChild, IsChild
<1>4. CASE FailToFork(t)
  BY <1>4 DEF FailToFork, ReturnWith, Leave
<1>5. CASE CloseRead(t)
  BY <1>5 DEF CloseRead, Close, CloseNumber
<1>6. CASE IgnoreSigpipe(t)
  BY <1>6 DEF IgnoreSigpipe
<1>7. CASE Write(t)
  BY <1>7 DEF Write
<1>8. CASE FailToWrite(t)
  BY <1>8 DEF FailToWrite, ReturnWith
<1>9. CASE Sigpipe(t)
  BY <1>9 DEF Sigpipe, threadVars
<1>10. CASE CloseWrite(t)
  BY <1>10 DEF CloseWrite, Close, CloseNumber
<1>11. CASE Poll(t)
  BY <1>11 DEF Poll, ReturnWith, LeavePoll, IsChild
<1>12. CASE Kill(t)
  BY <1>12 DEF Kill, ReturnWith, LeavePoll, Ended, IsChild
<1>13. CASE RestoreSigpipe(t)
  BY <1>13 DEF RestoreSigpipe
<1>14. CASE Cleanup(t)
  BY <1>14 DEF Cleanup, Close, CloseNumber
<1>15. CASE ChildReads(t)
  BY <1>15 DEF ChildReads, threadVars, IsChild, Running
<1>16. CASE ChildExits(t)
  BY <1>16 DEF ChildExits, threadVars, IsChild, Ended, Running
<1>17. CASE ChildSignalled(t)
  BY <1>17 DEF ChildSignalled, threadVars, IsChild, Ended, Running
<1>18. CASE RemoteStarts(t) \/ RemoteEnds(t)
  <2> QED
    BY <1>18, RemoteSteps DEF RemoteEffect, threadVars
<1> QED
  BY <1>1, <1>2, <1>3, <1>4, <1>5, <1>6, <1>7, <1>8, <1>9, <1>10, <1>11, <1>12,
     <1>13, <1>14, <1>15, <1>16, <1>17, <1>18 DEF ThreadStep, ChildStep

\* Before any call, the handler is the default one and nobody has a child.
LEMMA InitInvariant == Init => IInv
<1> SUFFICES ASSUME Init PROVE IInv
  OBVIOUS
<1>1. \A t \in Threads : call[t].kind \in {"local", "ssh"}
  BY DEF Init
<1>2. Shape
  BY <1>1 DEF Init, Shape, IsChild, NoChild, Places
<1>3. LocalPlaces
  BY <1>1 DEF Init, LocalPlaces
<1>4. HandlerOfOne
  BY DEF Init, HandlerOfOne
<1>5. ChildOfCall
  BY <1>1 DEF Init, ChildOfCall, NoChild
<1>6. EndsHeld
  BY DEF Init, EndsHeld
<1> QED
  BY <1>2, <1>3, <1>4, <1>5, <1>6 DEF IInv

\* No step of any thread, nor of any child, breaks the invariant.
LEMMA StepInvariant == IInv /\ [Next]_vars => IInv'
<1> SUFFICES ASSUME IInv, [Next]_vars PROVE IInv'
  OBVIOUS
<1>1. CASE Next
  <2>1. PICK t \in Threads : ThreadStep(t) \/ ChildStep(t)
    BY <1>1 DEF Next
  <2> QED
    BY <2>1, ShapeKept, LocalPlacesKept, HandlerOfOneKept, ChildOfCallKept,
       EndsHeldKept DEF IInv
<1>2. CASE UNCHANGED vars
  BY <1>2 DEF vars, threadVars, IInv, Shape, IsChild, LocalPlaces, HandlerOfOne, SshCalls,
              ChildOfCall, EndsHeld
<1> QED
  BY <1>1, <1>2

\* Which calls have the handler, and which children their calls have left, at any time
\* (remote.cc:139-246, host_adapter.cc:56-145).
THEOREM Invariance == Spec => []IInv
  BY InitInvariant, StepInvariant, PTL DEF Spec

\* One remote command at a time, among any number of local ones, is never killed by
\* SIGPIPE and gives the handler back (remote.cc:179-185).
THEOREM OneSshCall == Spec => []OneSshCallIsSafe
<1>1. IInv => OneSshCallIsSafe
  <2> SUFFICES ASSUME IInv, NEW s \in Threads, SshCalls \subseteq {s}
               PROVE  /\ program = "running"
                      /\ (\A t \in Threads : pc[t] = "done") => sigpipe = "default"
    BY DEF OneSshCallIsSafe
  <2> QED
    BY DEF IInv, HandlerOfOne
<1> QED
  BY <1>1, Invariance, PTL

\* A child process, the command or ssh, outlives its call only where the call failed to
\* write its input (remote.cc:190-193): after an exit code or the deadline it is reaped
\* or killed (host_adapter.cc:142-145, remote.cc:243-246).  Of the remote command behind
\* a killed ssh it says nothing.
THEOREM NothingLeftBehind == Spec => []OnlyFailedWritesLeaveChildren
<1>1. IInv => OnlyFailedWritesLeaveChildren
  BY DEF IInv, ChildOfCall, OnlyFailedWritesLeaveChildren, Running
<1> QED
  BY <1>1, Invariance, PTL

\* Every end of every pipe is closed once all calls are over (remote.cc:139-142), though
\* each call closes its numbers twice and may close those of another.
THEOREM DescriptorsClosed == Spec => []NoDescriptorLeaks
<1>1. IInv => NoDescriptorLeaks
  BY DEF IInv, EndsHeld, HoldingEnds, NoDescriptorLeaks
<1> QED
  BY <1>1, Invariance, PTL

----------------------------------------------------------------------------
(* The bytes of the input, and who may have them.                          *)

\* Ends of pipes tell their call and their side.
LEMMA EndsDiffer ==
  /\ \A t : ReadEnd(t) # Free /\ WriteEnd(t) # Free
  /\ \A t, u : /\ ReadEnd(t) # WriteEnd(u)
               /\ (ReadEnd(t) = ReadEnd(u)) => t = u
               /\ (WriteEnd(t) = WriteEnd(u)) => t = u
<1>1. ASSUME NEW t PROVE ReadEnd(t) # Free /\ WriteEnd(t) # Free
  BY DEF ReadEnd, WriteEnd, Free
<1>2. ASSUME NEW t, NEW u
      PROVE  /\ ReadEnd(t) # WriteEnd(u)
             /\ (ReadEnd(t) = ReadEnd(u)) => t = u
             /\ (WriteEnd(t) = WriteEnd(u)) => t = u
  BY DEF ReadEnd, WriteEnd
<1> QED
  BY <1>1, <1>2

\* What pipe() does.
LEMMA PipeTakesFree ==
  ASSUME Shape, NEW t \in Threads, Pipe(t)
  PROVE  \E r, w \in FDs :
           /\ r # w /\ table[r] = Free /\ table[w] = Free
           /\ fd' = [fd EXCEPT ![t] = <<r, w>>]
           /\ table' = [table EXCEPT ![r] = ReadEnd(t), ![w] = WriteEnd(t)]
           /\ table'[r] = ReadEnd(t) /\ table'[w] = WriteEnd(t)
           /\ \A n \in FDs \ {r, w} : table'[n] = table[n]
<1>1. PICK r, w \in FDs :
        /\ r < w /\ table[r] = Free /\ table[w] = Free
        /\ fd' = [fd EXCEPT ![t] = <<r, w>>]
        /\ table' = [table EXCEPT ![r] = ReadEnd(t), ![w] = WriteEnd(t)]
  BY DEF Pipe
<1>2. r # w
  BY <1>1 DEF FDs
<1>3. PICK x, y : x = ReadEnd(t) /\ y = WriteEnd(t)
  OBVIOUS
<1>4. table' = [table EXCEPT ![r] = x, ![w] = y] /\ DOMAIN table = FDs
  BY <1>1, <1>3 DEF Shape
<1>5. table'[r] = x /\ table'[w] = y /\ \A n \in FDs \ {r, w} : table'[n] = table[n]
  BY <1>2, <1>4
<1> QED
  BY <1>1, <1>2, <1>3, <1>5

\* A call that hits no pipe of another one closes what is its own.
LEMMA CloseOwn ==
  ASSUME NEW t, NEW n \in FDs, DOMAIN table = FDs, CloseNumber(t, n), hit' = {}
  PROVE  /\ hit = {} /\ table[n] \in {Free, ReadEnd(t), WriteEnd(t)}
         /\ table'[n] = Free /\ \A m \in FDs \ {n} : table'[m] = table[m]
  BY DEF CloseNumber

\* The parts of the state that carry data.
DataShape ==
  /\ DOMAIN written = Threads /\ DOMAIN queue = Threads
  /\ \A t \in Threads : written[t] \in Nat /\ call[t].data \in Nat
  /\ \A t \in Threads : call[t].kind = "ssh" /\ pc[t] \notin {"prepare", "done"} =>
       fd[t][1] \in FDs /\ fd[t][2] \in FDs /\ fd[t][1] # fd[t][2]
  /\ \A t \in Threads : child[t].state = "signalled" => child[t].code = SIGKILL

\* The places before a call closes the read end, and before it closes the write end.
BeforeCloseRead == {"fork", "closeRead"}
BeforeCloseWrite == {"fork", "closeRead", "ignore", "write"}

\* The ends a call has not closed yet are behind its numbers.
EndsOfCall(t) ==
  call[t].kind = "ssh" =>
    /\ pc[t] \in BeforeCloseRead => table[fd[t][1]] = ReadEnd(t)
    /\ pc[t] \in BeforeCloseWrite => table[fd[t][2]] = WriteEnd(t)

\* Only the child of a call reads its pipe.
ReaderOfCall(t) ==
  /\ child[t].stdin \in {Free, ReadEnd(t)}
  /\ call[t].kind = "ssh" /\ child[t].state = "running" => child[t].stdin = ReadEnd(t)

\* Every byte of the call is in its pipe or with its child, and no other byte is.
BytesOfCall(t) ==
  /\ child[t].got \in Seq({t}) /\ queue[t] \in Seq({t})
  /\ Len(child[t].got) + Len(queue[t]) = written[t]
  /\ pc[t] \in {"prepare", "fork"} => written[t] = 0
  /\ pc[t] = "poll" /\ call[t].kind = "ssh" => written[t] = call[t].data

\* A command that exits with 0 has emptied a pipe nobody will write to again.
EndOfCall(t) ==
  (/\ call[t].kind = "ssh" /\ ~child[t].stray
   /\ child[t].state = "exited" /\ child[t].code = 0) =>
    queue[t] = <<>> /\ pc[t] \notin BeforeCloseWrite \cup {"prepare"}

\* What 0 as the result of a call says.
ResultOfCall(t) ==
  /\ pc[t] \in BeforeCloseWrite \cup {"prepare", "poll"} => result[t] = <<>>
  /\ result[t] = Exit(0) /\ call[t].kind = "ssh" /\ ~child[t].stray =>
       child[t].state = "reaped" /\ Len(child[t].got) = call[t].data

\* As long as no call has closed an end of another one's pipe.
CallsRight ==
  hit = {} =>
    \A t \in Threads : /\ EndsOfCall(t) /\ ReaderOfCall(t) /\ BytesOfCall(t)
                       /\ EndOfCall(t) /\ ResultOfCall(t)

DataInv == DataShape /\ CallsRight

\* Numbers are those of a pipe of two ends, and what is counted are bytes.
LEMMA DataShapeKept ==
  ASSUME NEW t \in Threads, ThreadStep(t) \/ ChildStep(t),
         Shape, LocalPlaces, DataShape
  PROVE  DataShape'
<1> USE DEF At, Goto, Shape, LocalPlaces, DataShape, Places
<1>1. CASE FailToPrepare(t)
  BY <1>1 DEF FailToPrepare, ReturnWith
<1>2. CASE Pipe(t)
  <2>1. PICK r, w \in FDs : r # w /\ fd' = [fd EXCEPT ![t] = <<r, w>>]
    BY <1>2, PipeTakesFree
  <2> QED
    BY <1>2, <2>1 DEF Pipe
<1>3. CASE Fork(t)
  BY <1>3 DEF Fork, NewChild, NoChild, IsChild
<1>4. CASE FailToFork(t)
  BY <1>4 DEF FailToFork, ReturnWith, Leave
<1>5. CASE CloseRead(t)
  BY <1>5 DEF CloseRead, Close, CloseNumber
<1>6. CASE IgnoreSigpipe(t)
  BY <1>6 DEF IgnoreSigpipe
<1>7. CASE Write(t)
  BY <1>7 DEF Write
<1>8. CASE FailToWrite(t)
  BY <1>8 DEF FailToWrite, ReturnWith
<1>9. CASE Sigpipe(t)
  BY <1>9 DEF Sigpipe, threadVars
<1>10. CASE CloseWrite(t)
  BY <1>10 DEF CloseWrite, Close, CloseNumber
<1>11. CASE Poll(t)
  BY <1>11 DEF Poll, ReturnWith, LeavePoll, IsChild
<1>12. CASE Kill(t)
  BY <1>12 DEF Kill, ReturnWith, LeavePoll, Ended, IsChild
<1>13. CASE RestoreSigpipe(t)
  BY <1>13 DEF RestoreSigpipe
<1>14. CASE Cleanup(t)
  BY <1>14 DEF Cleanup, Close, CloseNumber
<1>15. CASE ChildReads(t)
  BY <1>15 DEF ChildReads, threadVars, IsChild, Running
<1>16. CASE ChildExits(t)
  BY <1>16 DEF ChildExits, threadVars, IsChild, Ended, Running
<1>17. CASE ChildSignalled(t)
  BY <1>17 DEF ChildSignalled, threadVars, IsChild, Ended, Running
<1>18. CASE RemoteStarts(t) \/ RemoteEnds(t)
  <2> QED
    BY <1>18, RemoteSteps DEF RemoteEffect, threadVars
<1> QED
  BY <1>1, <1>2, <1>3, <1>4, <1>5, <1>6, <1>7, <1>8, <1>9,
     <1>10, <1>11, <1>12, <1>13, <1>14, <1>15, <1>16, <1>17, <1>18 DEF ThreadStep, ChildStep

\* An end of a pipe is closed by its call, or the call is hit.
LEMMA EndsOfCallKept ==
  ASSUME NEW t \in Threads, ThreadStep(t) \/ ChildStep(t),
         Shape, LocalPlaces, DataShape, hit' = {}, CallsRight
  PROVE  \A u \in Threads : EndsOfCall(u)'
<1> USE DEF At, Goto, Shape, LocalPlaces, DataShape, Places, CallsRight, EndsOfCall,
             BeforeCloseRead, BeforeCloseWrite
<1>1. CASE FailToPrepare(t)
  BY <1>1 DEF FailToPrepare, ReturnWith
<1>2. CASE Pipe(t)
  <2>1. PICK r, w \in FDs :
          /\ r # w /\ table[r] = Free /\ table[w] = Free
          /\ fd' = [fd EXCEPT ![t] = <<r, w>>]
          /\ table'[r] = ReadEnd(t) /\ table'[w] = WriteEnd(t)
          /\ \A n \in FDs \ {r, w} : table'[n] = table[n]
    BY <1>2, PipeTakesFree
  <2>2. fd'[t][1] = r /\ fd'[t][2] = w /\ \A u \in Threads \ {t} : fd'[u] = fd[u]
    BY <2>1
  <2> QED
    BY <1>2, <2>1, <2>2, EndsDiffer DEF Pipe
<1>3. CASE Fork(t)
  BY <1>3 DEF Fork, NewChild, NoChild, IsChild
<1>4. CASE FailToFork(t)
  BY <1>4 DEF FailToFork, ReturnWith, Leave
<1>5. CASE CloseRead(t)
  <2>1. fd[t][1] \in FDs /\ CloseNumber(t, fd[t][1])
    BY <1>5 DEF CloseRead, Close
  <2>2. /\ hit = {} /\ table[fd[t][1]] \in {Free, ReadEnd(t), WriteEnd(t)}
        /\ \A m \in FDs \ {fd[t][1]} : table'[m] = table[m]
    BY <2>1, CloseOwn
  <2> QED
    BY <1>5, <2>1, <2>2, EndsDiffer DEF CloseRead, Close
<1>6. CASE IgnoreSigpipe(t)
  BY <1>6 DEF IgnoreSigpipe
<1>7. CASE Write(t)
  BY <1>7 DEF Write
<1>8. CASE FailToWrite(t)
  BY <1>8 DEF FailToWrite, ReturnWith
<1>9. CASE Sigpipe(t)
  BY <1>9 DEF Sigpipe, threadVars
<1>10. CASE CloseWrite(t)
  <2>1. ASSUME NEW n \in FDs, CloseNumber(t, n), UNCHANGED <<call, fd>>,
               pc'[t] \notin BeforeCloseWrite,
               \A u \in Threads \ {t} : pc'[u] = pc[u]
        PROVE  \A u \in Threads : EndsOfCall(u)'
    <3>1. /\ hit = {} /\ table[n] \in {Free, ReadEnd(t), WriteEnd(t)}
          /\ \A m \in FDs \ {n} : table'[m] = table[m]
      BY <2>1, CloseOwn
    <3> QED
      BY <2>1, <3>1, EndsDiffer
  <2> QED
    BY <1>10, <2>1 DEF CloseWrite, Close
<1>11. CASE Poll(t)
  BY <1>11 DEF Poll, ReturnWith, LeavePoll, IsChild
<1>12. CASE Kill(t)
  BY <1>12 DEF Kill, ReturnWith, LeavePoll, Ended, IsChild
<1>13. CASE RestoreSigpipe(t)
  BY <1>13 DEF RestoreSigpipe
<1>14. CASE Cleanup(t)
  <2>1. ASSUME NEW n \in FDs, CloseNumber(t, n), UNCHANGED <<call, fd>>,
               pc'[t] \notin BeforeCloseWrite,
               \A u \in Threads \ {t} : pc'[u] = pc[u]
        PROVE  \A u \in Threads : EndsOfCall(u)'
    <3>1. /\ hit = {} /\ table[n] \in {Free, ReadEnd(t), WriteEnd(t)}
          /\ \A m \in FDs \ {n} : table'[m] = table[m]
      BY <2>1, CloseOwn
    <3> QED
      BY <2>1, <3>1, EndsDiffer
  <2>2. CASE Close(t, "cleanup0", fd[t][1], "cleanup1")
    BY <2>1, <2>2 DEF Close
  <2>3. CASE Close(t, "cleanup1", fd[t][2], "done")
    BY <2>1, <2>3 DEF Close
  <2> QED
    BY <1>14, <2>2, <2>3 DEF Cleanup
<1>15. CASE ChildReads(t)
  BY <1>15 DEF ChildReads, threadVars, IsChild, Running
<1>16. CASE ChildExits(t)
  BY <1>16 DEF ChildExits, threadVars, IsChild, Ended, Running
<1>17. CASE ChildSignalled(t)
  BY <1>17 DEF ChildSignalled, threadVars, IsChild, Ended, Running
<1>18. CASE RemoteStarts(t) \/ RemoteEnds(t)
  <2> QED
    BY <1>18, RemoteSteps DEF RemoteEffect, threadVars
<1> QED
  BY <1>1, <1>2, <1>3, <1>4, <1>5, <1>6, <1>7, <1>8, <1>9,
     <1>10, <1>11, <1>12, <1>13, <1>14, <1>15, <1>16, <1>17, <1>18 DEF ThreadStep, ChildStep

\* A child is given the pipe of its call.
LEMMA ReaderOfCallKept ==
  ASSUME NEW t \in Threads, ThreadStep(t) \/ ChildStep(t),
         Shape, LocalPlaces, DataShape, hit' = {}, CallsRight
  PROVE  \A u \in Threads : ReaderOfCall(u)'
<1> USE DEF At, Goto, Shape, LocalPlaces, DataShape, Places, CallsRight, EndsOfCall,
             BeforeCloseRead, ReaderOfCall
<1>1. CASE FailToPrepare(t)
  BY <1>1 DEF FailToPrepare, ReturnWith
<1>2. CASE Pipe(t)
  BY <1>2 DEF Pipe
<1>3. CASE Fork(t)
  BY <1>3 DEF Fork, NewChild, NoChild, IsChild
<1>4. CASE FailToFork(t)
  BY <1>4 DEF FailToFork, ReturnWith, Leave
<1>5. CASE CloseRead(t)
  BY <1>5 DEF CloseRead, Close, CloseNumber
<1>6. CASE IgnoreSigpipe(t)
  BY <1>6 DEF IgnoreSigpipe
<1>7. CASE Write(t)
  BY <1>7 DEF Write
<1>8. CASE FailToWrite(t)
  BY <1>8 DEF FailToWrite, ReturnWith
<1>9. CASE Sigpipe(t)
  BY <1>9 DEF Sigpipe, threadVars
<1>10. CASE CloseWrite(t)
  BY <1>10 DEF CloseWrite, Close, CloseNumber
<1>11. CASE Poll(t)
  BY <1>11 DEF Poll, ReturnWith, LeavePoll, IsChild
<1>12. CASE Kill(t)
  BY <1>12 DEF Kill, ReturnWith, LeavePoll, Ended, IsChild
<1>13. CASE RestoreSigpipe(t)
  BY <1>13 DEF RestoreSigpipe
<1>14. CASE Cleanup(t)
  BY <1>14 DEF Cleanup, Close, CloseNumber
<1>15. CASE ChildReads(t)
  BY <1>15 DEF ChildReads, threadVars, IsChild, Running
<1>16. CASE ChildExits(t)
  BY <1>16 DEF ChildExits, threadVars, IsChild, Ended, Running
<1>17. CASE ChildSignalled(t)
  BY <1>17 DEF ChildSignalled, threadVars, IsChild, Ended, Running
<1>18. CASE RemoteStarts(t) \/ RemoteEnds(t)
  <2> QED
    BY <1>18, RemoteSteps DEF RemoteEffect, threadVars
<1> QED
  BY <1>1, <1>2, <1>3, <1>4, <1>5, <1>6, <1>7, <1>8, <1>9,
     <1>10, <1>11, <1>12, <1>13, <1>14, <1>15, <1>16, <1>17, <1>18 DEF ThreadStep, ChildStep

\* A step of a call or its child is about that call only: nobody else writes to its pipe, nor
\* reads from it.
LEMMA OthersKept ==
  ASSUME NEW t \in Threads, ThreadStep(t) \/ ChildStep(t),
         Shape, LocalPlaces, DataShape, hit' = {}, CallsRight
  PROVE  /\ hit = {} /\ call' = call
         /\ \A u \in Threads \ {t} :
              /\ pc'[u] = pc[u] /\ written'[u] = written[u] /\ result'[u] = result[u]
              /\ child'[u] = child[u] /\ queue'[u] = queue[u]
<1> USE DEF At, Goto, Shape, LocalPlaces, DataShape, Places
<1>1. CASE FailToPrepare(t)
  BY <1>1 DEF FailToPrepare, ReturnWith
<1>2. CASE Pipe(t)
  BY <1>2 DEF Pipe
<1>3. CASE Fork(t)
  BY <1>3 DEF Fork, NewChild, NoChild, IsChild
<1>4. CASE FailToFork(t)
  BY <1>4 DEF FailToFork, ReturnWith, Leave
<1>5. CASE CloseRead(t)
  BY <1>5 DEF CloseRead, Close, CloseNumber
<1>6. CASE IgnoreSigpipe(t)
  BY <1>6 DEF IgnoreSigpipe
<1>7. CASE Write(t)
  <2>1. CallsRight /\ hit = {}
    BY <1>7 DEF Write
  <2>2. call[t].kind = "ssh" /\ pc[t] = "write" /\ table[fd[t][2]] = WriteEnd(t)
    BY <1>7, <2>1 DEF Write, CallsRight, EndsOfCall, BeforeCloseWrite
  <2>3. queue' = [queue EXCEPT ![t] = Append(@, t)]
    <3>1. PICK u \in Threads :
            /\ table[fd[t][2]] = WriteEnd(u) /\ queue' = [queue EXCEPT ![u] = Append(@, t)]
      BY <1>7 DEF Write
    <3>2. u = t
      BY <2>2, <3>1, EndsDiffer
    <3> QED
      BY <3>1, <3>2
  <2> QED
    BY <1>7, <2>1, <2>3 DEF Write
<1>8. CASE FailToWrite(t)
  BY <1>8 DEF FailToWrite, ReturnWith
<1>9. CASE Sigpipe(t)
  BY <1>9 DEF Sigpipe, threadVars
<1>10. CASE CloseWrite(t)
  BY <1>10 DEF CloseWrite, Close, CloseNumber
<1>11. CASE Poll(t)
  BY <1>11 DEF Poll, ReturnWith, LeavePoll, IsChild
<1>12. CASE Kill(t)
  BY <1>12 DEF Kill, ReturnWith, LeavePoll, Ended, IsChild
<1>13. CASE RestoreSigpipe(t)
  BY <1>13 DEF RestoreSigpipe
<1>14. CASE Cleanup(t)
  BY <1>14 DEF Cleanup, Close, CloseNumber
<1>15. CASE ChildReads(t)
  <2>1. hit = {} /\ ReaderOfCall(t)
    BY <1>15 DEF ChildReads, CallsRight
  <2>2. queue' = [queue EXCEPT ![t] = Tail(queue[t])]
    BY <1>15, <2>1, EndsDiffer DEF ChildReads, ReaderOfCall
  <2> QED
    BY <1>15, <2>1, <2>2 DEF ChildReads, threadVars
<1>16. CASE ChildExits(t)
  BY <1>16 DEF ChildExits, threadVars, IsChild, Ended, Running
<1>17. CASE ChildSignalled(t)
  BY <1>17 DEF ChildSignalled, threadVars, IsChild, Ended, Running
<1>18. CASE RemoteStarts(t) \/ RemoteEnds(t)
  <2> QED
    BY <1>18, RemoteSteps DEF RemoteEffect, threadVars
<1> QED
  BY <1>1, <1>2, <1>3, <1>4, <1>5, <1>6, <1>7, <1>8, <1>9,
     <1>10, <1>11, <1>12, <1>13, <1>14, <1>15, <1>16, <1>17, <1>18 DEF ThreadStep, ChildStep

\* A byte leaves a pipe for the child that reads it.
LEMMA BytesOfCallKept ==
  ASSUME NEW t \in Threads, ThreadStep(t) \/ ChildStep(t),
         Shape, LocalPlaces, ChildOfCall, DataShape, hit' = {}, hit = {}, CallsRight,
         BytesOfCall(t)
  PROVE  BytesOfCall(t)'
<1> USE DEF At, Goto, Shape, LocalPlaces, ChildOfCall, DataShape, Places, BytesOfCall
<1>1. CASE FailToPrepare(t)
  BY <1>1 DEF FailToPrepare, ReturnWith
<1>2. CASE Pipe(t)
  BY <1>2 DEF Pipe
<1>3. CASE Fork(t)
  <2>1. child'[t].got = <<>> /\ UNCHANGED <<call, queue, written>>
    BY <1>3 DEF Fork, NewChild, NoChild
  <2>2. written[t] = 0 /\ pc'[t] # "fork" /\ pc'[t] # "prepare"
    BY <1>3 DEF Fork
  <2>3. pc'[t] = "poll" => call[t].kind # "ssh"
    BY <1>3 DEF Fork
  <2>4. <<>> \in Seq({t}) /\ Len(<<>>) = 0
    OBVIOUS
  <2>5. Len(child[t].got) \in Nat /\ Len(queue[t]) \in Nat
    OBVIOUS
  <2>6. Len(queue[t]) = 0
    BY <2>2, <2>5
  <2>7. Len(child'[t].got) + Len(queue'[t]) = written'[t]
    BY <2>1, <2>2, <2>4, <2>6
  <2> QED
    BY <2>1, <2>2, <2>3, <2>4, <2>7
<1>4. CASE FailToFork(t)
  BY <1>4 DEF FailToFork, ReturnWith, Leave
<1>5. CASE CloseRead(t)
  BY <1>5 DEF CloseRead, Close, CloseNumber
<1>6. CASE IgnoreSigpipe(t)
  BY <1>6 DEF IgnoreSigpipe
<1>7. CASE Write(t)
  <2>1. call[t].kind = "ssh" /\ pc[t] = "write" /\ table[fd[t][2]] = WriteEnd(t)
    BY <1>7 DEF Write, CallsRight, EndsOfCall, BeforeCloseWrite
  <2>2. queue' = [queue EXCEPT ![t] = Append(@, t)]
    <3>1. PICK u \in Threads :
            /\ table[fd[t][2]] = WriteEnd(u) /\ queue' = [queue EXCEPT ![u] = Append(@, t)]
      BY <1>7 DEF Write
    <3>2. u = t
      BY <2>1, <3>1, EndsDiffer
    <3> QED
      BY <3>1, <3>2
  <2>3. queue'[t] = Append(queue[t], t) /\ queue[t] \in Seq({t}) /\ child' = child
    BY <1>7, <2>2 DEF Write
  <2>4. queue'[t] \in Seq({t}) /\ Len(queue'[t]) = Len(queue[t]) + 1 /\ Len(queue[t]) \in Nat
    BY <2>3
  <2>5. written'[t] = written[t] + 1 /\ pc'[t] = "write"
    BY <1>7, <2>1 DEF Write
  <2>6. Len(child[t].got) \in Nat
    OBVIOUS
  <2>7. Len(child'[t].got) + Len(queue'[t]) = written'[t]
    <3>1. Len(child[t].got) + Len(queue[t]) = written[t]
      OBVIOUS
    <3> HIDE DEF BytesOfCall, Shape, ChildOfCall, LocalPlaces, DataShape
    <3>2. PICK a, b \in Nat : a = Len(child[t].got) /\ b = Len(queue[t])
      BY <2>4, <2>6
    <3>3. Len(child'[t].got) = a /\ Len(queue'[t]) = b + 1 /\ written'[t] = a + b + 1
      BY <2>3, <2>4, <2>5, <3>1, <3>2
    <3> QED
      BY <3>3
  <2> QED
    BY <2>3, <2>4, <2>5, <2>7
<1>8. CASE FailToWrite(t)
  BY <1>8 DEF FailToWrite, ReturnWith
<1>9. CASE Sigpipe(t)
  BY <1>9 DEF Sigpipe, threadVars
<1>10. CASE CloseWrite(t)
  BY <1>10 DEF CloseWrite, Close, CloseNumber
<1>11. CASE Poll(t)
  <2>1. child'[t].got = child[t].got /\ child'[t].state = "reaped"
    BY <1>11 DEF Poll
  <2> QED
    BY <1>11, <2>1 DEF Poll, LeavePoll
<1>12. CASE Kill(t)
  <2>1. /\ child'[t].got = child[t].got /\ child'[t].stray = child[t].stray
        /\ \/ child'[t].state = child[t].state /\ child'[t].code = child[t].code
           \/ child'[t].state = "signalled"
    BY <1>12 DEF Kill, Ended, IsChild
  <2> QED
    BY <1>12, <2>1 DEF Kill, LeavePoll
<1>13. CASE RestoreSigpipe(t)
  BY <1>13 DEF RestoreSigpipe
<1>14. CASE Cleanup(t)
  <2> QED
    BY <1>14 DEF Cleanup, Close
<1>15. CASE ChildReads(t)
  <2>1. ReaderOfCall(t)
    BY <1>15 DEF CallsRight
  <2>2. /\ queue[t] # <<>> /\ queue' = [queue EXCEPT ![t] = Tail(queue[t])]
        /\ child' = [child EXCEPT ![t].got = Append(child[t].got, Head(queue[t]))]
    <3>1. PICK u \in Threads :
            /\ child[t].stdin = ReadEnd(u) /\ queue[u] # <<>>
            /\ child' = [child EXCEPT ![t].got = Append(@, Head(queue[u]))]
            /\ queue' = [queue EXCEPT ![u] = Tail(@)]
      BY <1>15 DEF ChildReads
    <3>2. u = t
      <4>1. ReadEnd(u) \in {Free, ReadEnd(t)}
        BY <2>1, <3>1 DEF ReaderOfCall
      <4> QED
        BY <4>1, EndsDiffer
    <3> QED
      BY <3>1, <3>2
  <2>8. child'[t].got = Append(child[t].got, Head(queue[t]))
    BY <2>2 DEF IsChild
  <2>3. queue'[t] = Tail(queue[t]) /\ queue[t] \in Seq({t}) /\ child[t].got \in Seq({t})
    BY <2>2
  <2>4. /\ queue'[t] \in Seq({t}) /\ Len(queue'[t]) = Len(queue[t]) - 1
        /\ Head(queue[t]) = t /\ Len(queue[t]) \in Nat
    BY <2>2, <2>3
  <2>5. /\ child'[t].got \in Seq({t}) /\ Len(child'[t].got) = Len(child[t].got) + 1
        /\ Len(child[t].got) \in Nat
    BY <2>8, <2>3, <2>4
  <2>6. UNCHANGED <<call, pc, written>>
    BY <1>15 DEF ChildReads, threadVars
  <2> QED
    BY <2>4, <2>5, <2>6
<1>16. CASE ChildExits(t)
  <2>1. child'[t].got = child[t].got
    BY <1>16 DEF ChildExits, Ended, IsChild
  <2> QED
    BY <1>16, <2>1 DEF ChildExits, threadVars
<1>17. CASE ChildSignalled(t)
  <2>1. child'[t].got = child[t].got /\ child'[t].state = "signalled"
    BY <1>17 DEF ChildSignalled, Ended, IsChild
  <2> QED
    BY <1>17, <2>1 DEF ChildSignalled, threadVars
<1>18. CASE RemoteStarts(t) \/ RemoteEnds(t)
  <2>1. child'[t].got = child[t].got
    BY <1>18, RemoteSteps DEF RemoteEffect
  <2>2. UNCHANGED <<call, pc, queue, written>>
    BY <1>18, RemoteSteps DEF RemoteEffect, threadVars
  <2> QED
    BY <2>1, <2>2
<1> QED
  BY <1>1, <1>2, <1>3, <1>4, <1>5, <1>6, <1>7, <1>8, <1>9,
     <1>10, <1>11, <1>12, <1>13, <1>14, <1>15, <1>16, <1>17, <1>18 DEF ThreadStep, ChildStep

\* The last reader of a pipe that nobody can write to leaves nothing behind.
LEMMA EndOfCallKept ==
  ASSUME NEW t \in Threads, ThreadStep(t) \/ ChildStep(t),
         Shape, LocalPlaces, ChildOfCall, DataShape, hit' = {}, hit = {}, CallsRight,
         EndOfCall(t)
  PROVE  EndOfCall(t)'
<1> USE DEF At, Goto, Shape, LocalPlaces, ChildOfCall, DataShape, Places,
           BeforeCloseWrite, EndOfCall
<1>1. CASE FailToPrepare(t)
  BY <1>1 DEF FailToPrepare, ReturnWith
<1>2. CASE Pipe(t)
  BY <1>2 DEF Pipe
<1>3. CASE Fork(t)
  <2>1. /\ child'[t].state = "running" /\ child'[t].got = <<>> /\ child[t].state = "none"
        /\ pc[t] = "fork"
    BY <1>3 DEF Fork, NewChild, NoChild
  <2> QED
    BY <1>3, <2>1 DEF Fork
<1>4. CASE FailToFork(t)
  BY <1>4 DEF FailToFork, ReturnWith, Leave
<1>5. CASE CloseRead(t)
  BY <1>5 DEF CloseRead, Close, CloseNumber
<1>6. CASE IgnoreSigpipe(t)
  BY <1>6 DEF IgnoreSigpipe
<1>7. CASE Write(t)
  BY <1>7 DEF Write
<1>8. CASE FailToWrite(t)
  BY <1>8 DEF FailToWrite, ReturnWith
<1>9. CASE Sigpipe(t)
  BY <1>9 DEF Sigpipe, threadVars
<1>10. CASE CloseWrite(t)
  BY <1>10 DEF CloseWrite, Close, CloseNumber
<1>11. CASE Poll(t)
  <2>1. child'[t].got = child[t].got /\ child'[t].state = "reaped"
    BY <1>11 DEF Poll
  <2> QED
    BY <1>11, <2>1 DEF Poll, LeavePoll
<1>12. CASE Kill(t)
  <2>1. /\ child'[t].got = child[t].got /\ child'[t].stray = child[t].stray
        /\ \/ child'[t].state = child[t].state /\ child'[t].code = child[t].code
           \/ child'[t].state = "signalled"
    BY <1>12 DEF Kill, Ended, IsChild
  <2> QED
    BY <1>12, <2>1 DEF Kill, LeavePoll
<1>13. CASE RestoreSigpipe(t)
  BY <1>13 DEF RestoreSigpipe
<1>14. CASE Cleanup(t)
  BY <1>14 DEF Cleanup, Close, CloseNumber
<1>15. CASE ChildReads(t)
  <2>1. child'[t].state = "running"
    BY <1>15 DEF ChildReads, Running
  <2> QED
    BY <2>1
<1>16. CASE ChildExits(t)
  <2>1. PICK code \in ExitCodes :
          /\ IsSsh(t) => code # 0
          /\ child' = [child EXCEPT ![t] = Ended(@, "exited", code)]
    BY <1>16 DEF ChildExits
  <2>2. child'[t].code = code /\ child'[t].stray = child[t].stray
    BY <2>1 DEF Ended, IsChild
  <2>3. call' = call
    BY <1>16 DEF ChildExits
  <2> QED
    BY <2>1, <2>2, <2>3 DEF IsSsh
<1>17. CASE ChildSignalled(t)
  <2>1. child'[t].got = child[t].got /\ child'[t].state = "signalled"
    BY <1>17 DEF ChildSignalled, Ended, IsChild
  <2> QED
    BY <1>17, <2>1 DEF ChildSignalled, threadVars
<1>18. CASE RemoteStarts(t) \/ RemoteEnds(t)
  <2>1. PICK c :
          /\ child' = [child EXCEPT ![t] = c] /\ c.stray = child[t].stray
          /\ \/ c.state = child[t].state /\ c.code = child[t].code
             \/ /\ child[t].state = "running" /\ c.state = "exited"
                /\ c.code = 0 => AtEndOfInput(t)
    BY <1>18, RemoteSteps DEF RemoteEffect
  <2>2. child'[t] = c
    BY <2>1
  <2>3. UNCHANGED <<call, pc, queue, table, fd>>
    BY <1>18, RemoteSteps DEF RemoteEffect, threadVars
  <2>4. CASE c.state = child[t].state /\ c.code = child[t].code
    BY <2>1, <2>2, <2>3, <2>4
  <2>5. CASE child[t].state = "running" /\ (c.code = 0 => AtEndOfInput(t))
    <3> SUFFICES ASSUME call[t].kind = "ssh", AtEndOfInput(t)
                 PROVE  queue[t] = <<>> /\ pc[t] \notin BeforeCloseWrite \cup {"prepare"}
      BY <2>1, <2>2, <2>3, <2>5
    <3>1. child[t].stdin = ReadEnd(t)
      BY <2>5 DEF CallsRight, ReaderOfCall
    <3>2. queue[t] = <<>> /\ ~IsOpen(WriteEnd(t))
      BY <3>1 DEF AtEndOfInput
    <3>3. ASSUME pc[t] \in BeforeCloseWrite PROVE FALSE
      <4>1. table[fd[t][2]] = WriteEnd(t) /\ fd[t][2] \in FDs
        BY <3>3 DEF CallsRight, EndsOfCall
      <4> QED
        BY <3>2, <4>1 DEF IsOpen
    <3>4. pc[t] # "prepare"
      BY <2>5
    <3> QED
      BY <3>2, <3>3, <3>4
  <2> QED
    BY <2>1, <2>4, <2>5
<1> QED
  BY <1>1, <1>2, <1>3, <1>4, <1>5, <1>6, <1>7, <1>8, <1>9,
     <1>10, <1>11, <1>12, <1>13, <1>14, <1>15, <1>16, <1>17, <1>18 DEF ThreadStep, ChildStep

\* A call that returns 0 has polled a command that ended so.
LEMMA ResultOfCallKept ==
  ASSUME NEW t \in Threads, ThreadStep(t) \/ ChildStep(t),
         Shape, LocalPlaces, ChildOfCall, DataShape, hit' = {}, hit = {}, CallsRight,
         ResultOfCall(t)
  PROVE  ResultOfCall(t)'
<1> USE DEF At, Goto, Shape, LocalPlaces, ChildOfCall, DataShape, Places,
           BeforeCloseWrite, ResultOfCall
<1>1. CASE FailToPrepare(t)
  <2>1. result'[t] = Failure /\ pc'[t] = "done"
    BY <1>1 DEF FailToPrepare, ReturnWith
  <2> QED
    BY <2>1 DEF Failure, Exit
<1>2. CASE Pipe(t)
  BY <1>2 DEF Pipe
<1>3. CASE Fork(t)
  <2>1. result'[t] = <<>>
    BY <1>3 DEF Fork
  <2> QED
    BY <2>1 DEF Exit
<1>4. CASE FailToFork(t)
  <2>1. result'[t] = Failure /\ pc'[t] \in {"done", "cleanup0"}
    BY <1>4 DEF FailToFork, ReturnWith, Leave
  <2> QED
    BY <2>1 DEF Failure, Exit
<1>5. CASE CloseRead(t)
  BY <1>5 DEF CloseRead, Close, CloseNumber
<1>6. CASE IgnoreSigpipe(t)
  BY <1>6 DEF IgnoreSigpipe
<1>7. CASE Write(t)
  BY <1>7 DEF Write
<1>8. CASE FailToWrite(t)
  <2>1. result'[t] = Failure /\ pc'[t] = "restore"
    BY <1>8 DEF FailToWrite, ReturnWith
  <2> QED
    BY <2>1 DEF Failure, Exit
<1>9. CASE Sigpipe(t)
  BY <1>9 DEF Sigpipe, threadVars
<1>10. CASE CloseWrite(t)
  BY <1>10 DEF CloseWrite, Close, CloseNumber
<1>11. CASE Poll(t)
  <2>1. /\ child'[t].got = child[t].got /\ child'[t].state = "reaped"
        /\ child'[t].stray = child[t].stray
        /\ pc[t] = "poll" /\ pc'[t] \in {"done", "restore"} /\ UNCHANGED <<call, written>>
        /\ result'[t] \in {Exit(CodeOf(t)), Failure}
        /\ child[t].state \in {"exited", "signalled"}
    BY <1>11 DEF Poll, ReturnWith, LeavePoll, IsChild
  <2>2. SUFFICES ASSUME result'[t] = Exit(0), call[t].kind = "ssh", ~child[t].stray
                 PROVE  Len(child[t].got) = call[t].data
    BY <2>1
  <2>3. CodeOf(t) = 0
    BY <2>1, <2>2 DEF Failure, Exit
  <2>4. child[t].state = "exited" /\ child[t].code = 0
    BY <2>1, <2>2, <2>3 DEF CodeOf, SIGKILL
  <2>5. EndOfCall(t) /\ BytesOfCall(t)
    BY DEF CallsRight
  <2>6. queue[t] = <<>> /\ written[t] = call[t].data
    BY <2>1, <2>2, <2>4, <2>5 DEF EndOfCall, BytesOfCall
  <2>7. Len(child[t].got) \in Nat /\ Len(child[t].got) + Len(queue[t]) = written[t]
    BY <2>5 DEF BytesOfCall
  <2> QED
    BY <2>6, <2>7
<1>12. CASE Kill(t)
  <2>1. result'[t] = Deadline /\ pc'[t] \in {"done", "restore"}
    BY <1>12 DEF Kill, ReturnWith, LeavePoll
  <2> QED
    BY <2>1 DEF Deadline, Exit
<1>13. CASE RestoreSigpipe(t)
  BY <1>13 DEF RestoreSigpipe
<1>14. CASE Cleanup(t)
  BY <1>14 DEF Cleanup, Close, CloseNumber
<1>15. CASE ChildReads(t)
  <2>1. /\ child[t].state = "running" /\ child'[t].stray = child[t].stray
        /\ UNCHANGED <<call, pc, result>>
    BY <1>15 DEF ChildReads, Running, threadVars, IsChild
  <2> QED
    BY <2>1
<1>16. CASE ChildExits(t)
  <2>1. /\ child[t].state = "running" /\ child'[t].stray = child[t].stray
        /\ UNCHANGED <<call, pc, result>>
    BY <1>16 DEF ChildExits, Ended, Running, threadVars, IsChild
  <2> QED
    BY <2>1
<1>17. CASE ChildSignalled(t)
  <2>1. /\ child[t].state = "running" /\ child'[t].stray = child[t].stray
        /\ UNCHANGED <<call, pc, result>>
    BY <1>17 DEF ChildSignalled, Ended, Running, threadVars, IsChild
  <2> QED
    BY <2>1
<1>18. CASE RemoteStarts(t) \/ RemoteEnds(t)
  <2> QED
    BY <1>18, RemoteSteps DEF RemoteEffect, threadVars
<1> QED
  BY <1>1, <1>2, <1>3, <1>4, <1>5, <1>6, <1>7, <1>8, <1>9,
     <1>10, <1>11, <1>12, <1>13, <1>14, <1>15, <1>16, <1>17, <1>18 DEF ThreadStep, ChildStep

\* At first no call has begun.
LEMMA InitData == Init => DataInv
<1> SUFFICES ASSUME Init PROVE DataInv
  OBVIOUS
<1>1. ASSUME NEW t \in Threads
      PROVE  /\ call[t].kind \in {"local", "ssh"} /\ call[t].data \in Nat
             /\ pc[t] = IF call[t].kind = "ssh" THEN "prepare" ELSE "fork"
             /\ written[t] = 0 /\ result[t] = <<>> /\ queue[t] = <<>>
             /\ child[t].state = "none" /\ child[t].got = <<>> /\ child[t].stdin = Free
  BY BoundsAssumption DEF Init, NoChild
<1>2. DataShape
  BY <1>1 DEF Init, DataShape
<1>3. ASSUME NEW t \in Threads
      PROVE  EndsOfCall(t) /\ ReaderOfCall(t) /\ BytesOfCall(t) /\ EndOfCall(t) /\ ResultOfCall(t)
  <2>1. EndsOfCall(t) /\ ReaderOfCall(t) /\ EndOfCall(t)
    BY <1>1 DEF EndsOfCall, ReaderOfCall, EndOfCall, BeforeCloseRead, BeforeCloseWrite
  <2>2. BytesOfCall(t)
    <3>1. ASSUME NEW s, s = <<>> PROVE s \in Seq({t}) /\ Len(s) = 0
      BY <3>1
    <3>2. /\ child[t].got \in Seq({t}) /\ queue[t] \in Seq({t})
          /\ Len(child[t].got) + Len(queue[t]) = written[t]
      <4>1. child[t].got = <<>> /\ queue[t] = <<>> /\ written[t] = 0
        BY <1>1
      <4>2. child[t].got \in Seq({t}) /\ Len(child[t].got) = 0
        BY <3>1, <4>1
      <4>3. queue[t] \in Seq({t}) /\ Len(queue[t]) = 0
        BY <3>1, <4>1
      <4> QED
        BY <4>1, <4>2, <4>3
    <3>3. pc[t] \in {"prepare", "fork"} /\ written[t] = 0
      BY <1>1
    <3> QED
      BY <3>2, <3>3 DEF BytesOfCall
  <2>3. ResultOfCall(t)
    BY <1>1 DEF ResultOfCall, Exit
  <2> QED
    BY <2>1, <2>2, <2>3
<1> QED
  BY <1>2, <1>3 DEF DataInv, CallsRight

\* No step puts a byte where it does not belong, as long as no pipe is hit.
LEMMA StepData == IInv /\ DataInv /\ [Next]_vars => DataInv'
<1> SUFFICES ASSUME IInv, DataInv, [Next]_vars PROVE DataInv'
  OBVIOUS
<1>1. CASE Next
  <2>1. PICK t \in Threads : ThreadStep(t) \/ ChildStep(t)
    BY <1>1 DEF Next
  <2>2. Shape /\ LocalPlaces /\ ChildOfCall /\ DataShape /\ CallsRight
    BY DEF IInv, DataInv
  <2>3. DataShape'
    BY <2>1, <2>2, DataShapeKept
  <2>4. ASSUME hit' = {}, NEW u \in Threads
        PROVE  (EndsOfCall(u) /\ ReaderOfCall(u) /\ BytesOfCall(u) /\ EndOfCall(u)
                /\ ResultOfCall(u))'
    <3>1. EndsOfCall(u)' /\ ReaderOfCall(u)'
      BY <2>1, <2>2, <2>4, EndsOfCallKept, ReaderOfCallKept
    <3>2. /\ hit = {} /\ call' = call
          /\ \A v \in Threads \ {t} :
               /\ pc'[v] = pc[v] /\ written'[v] = written[v] /\ result'[v] = result[v]
               /\ child'[v] = child[v] /\ queue'[v] = queue[v]
      BY <2>1, <2>2, <2>4, OthersKept
    <3>3. BytesOfCall(u) /\ EndOfCall(u) /\ ResultOfCall(u)
      BY <2>2, <3>2 DEF CallsRight
    <3>4. CASE u = t
      <4>1. BytesOfCall(t)' /\ EndOfCall(t)' /\ ResultOfCall(t)'
        BY <2>1, <2>2, <2>4, <3>2, <3>3, <3>4, BytesOfCallKept, EndOfCallKept,
           ResultOfCallKept
      <4> QED
        BY <3>1, <3>4, <4>1
    <3>5. CASE u # t
      BY <3>1, <3>2, <3>3, <3>5 DEF BytesOfCall, EndOfCall, ResultOfCall
    <3> QED
      BY <3>4, <3>5
  <2> QED
    BY <2>3, <2>4 DEF DataInv, CallsRight
<1>2. CASE UNCHANGED vars
  BY <1>2 DEF vars, threadVars, DataInv, DataShape, CallsRight, EndsOfCall, ReaderOfCall,
              BytesOfCall, EndOfCall, ResultOfCall
<1> QED
  BY <1>1, <1>2

\* Exit code 0 of a remote command means that it was given all of its input, and nothing
\* else (remote.cc:72-85, 187-197), for any number of calls, sizes of their data and of
\* the pipes, however they interleave, as long as no second close() hits another's pipe.
THEOREM AcceptedDataAlways == Spec => []AcceptedDataArrives
<1>1. DataInv => AcceptedDataArrives
  <2> SUFFICES ASSUME DataInv, hit = {}, NEW t \in Threads,
                      result[t] = Exit(0), call[t].kind = "ssh", ~child[t].stray
               PROVE  child[t].got = [i \in 1..call[t].data |-> t]
    BY DEF AcceptedDataArrives, Succeeded
  <2>1. child[t].got \in Seq({t}) /\ Len(child[t].got) = call[t].data
    BY DEF DataInv, CallsRight, BytesOfCall, ResultOfCall
  <2> QED
    BY <2>1
<1> QED
  BY <1>1, InitInvariant, InitData, StepInvariant, StepData, PTL DEF Spec

============================================================================
