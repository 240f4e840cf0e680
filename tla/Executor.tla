------------------------------ MODULE Executor ------------------------------
(***************************************************************************)
(* What EventLoop promises to its callers: functors handed to queueInLoop  *)
(* run exactly once, one at a time, in the order in which they were        *)
(* queued; a functor handed to runInLoop by the loop's own thread runs at  *)
(* once and overtakes the queue.  How the loop is woken, which vector a    *)
(* functor waits in and when the loop sleeps are not visible here.         *)
(***************************************************************************)
EXTENDS Sequences

CONSTANT Functors    \* the closures callers may submit, each at most once

VARIABLES queue,     \* submitted and not yet run, oldest first
          executed   \* run, in the order they ran

evars == <<queue, executed>>

Ran == {executed[i] : i \in DOMAIN executed}
Waiting == {queue[i] : i \in DOMAIN queue}

EInit == queue = <<>> /\ executed = <<>>

Submit(f) ==
  /\ f \notin Waiting \cup Ran
  /\ queue' = Append(queue, f)
  /\ UNCHANGED executed

RunOldest ==
  /\ queue # <<>>
  /\ executed' = Append(executed, Head(queue))
  /\ queue' = Tail(queue)

RunAtOnce(f) ==
  /\ f \notin Waiting \cup Ran
  /\ executed' = Append(executed, f)
  /\ UNCHANGED queue

ENext == RunOldest \/ \E f \in Functors : Submit(f) \/ RunAtOnce(f)

ESpec == EInit /\ [][ENext]_evars
=============================================================================
