--------------------------- MODULE EventLoopThread ---------------------------
(***************************************************************************)
(* server::EventLoopThread (event-loop-thread.cc) with Thread and          *)
(* CountDownLatch (cur-thread.cc, countdown-latch.cc): the owner starts a  *)
(* thread, waits for the EventLoop that the thread builds on its stack,    *)
(* uses it, and in the end stops and joins the thread.  The loop is the    *)
(* one of EventLoop, driven here by the life of its thread; the owner is   *)
(* its only caller, as the main thread is of the loops of the pool.        *)
(***************************************************************************)
EXTENDS EventLoop

CONSTANT Owner
ASSUME OwnerAssumption == Owner \in Callers

VARIABLES opc,      \* where the owner is
          asleep,   \* the owner sleeps on a condition variable
          wpc,      \* where the thread is
          tid,      \* tid_ has been stored
          count,    \* count_ of the latch of Thread
          loopPtr   \* EventLoopThread::loop_ is not NULL

loopVars == vars
tvars == <<opc, asleep, wpc, tid, count, loopPtr>>
allVars == <<loopVars, tvars>>

ThreadTypeOK ==
  /\ opc \in {"new", "latch", "cond", "have", "quit", "join", "gone", "aborted",
             "crashed"}
  /\ asleep \in BOOLEAN
  /\ wpc \in {"none", "born", "running", "built", "looping", "ending", "dead"}
  /\ tid \in BOOLEAN
  /\ count \in {0, 1}
  /\ loopPtr \in BOOLEAN

ThreadInit ==
  /\ Init
  /\ opc = "new" /\ asleep = FALSE
  /\ wpc = "none"
  /\ tid = FALSE
  /\ count = 1
  /\ loopPtr = FALSE

-----------------------------------------------------------------------------
(* The owner: startLoop, use, ~EventLoopThread.                            *)

\* Thread::start: pthread_create succeeds ...
Start ==
  /\ opc = "new"
  /\ opc' = "latch"
  /\ wpc' = "born"
  /\ UNCHANGED <<loopVars, asleep, tid, count, loopPtr>>

\* ... or fails, which startLoop does not see.
StartFails ==
  /\ opc = "new"
  /\ opc' = "cond"
  /\ UNCHANGED <<loopVars, asleep, wpc, tid, count, loopPtr>>

\* latch_.wait(): test and sleep are one step under the latch's mutex.  Then
\* assert(tid_ > 0).
LatchWait ==
  /\ opc = "latch" /\ ~asleep
  /\ asleep' = (count > 0)
  /\ opc' = IF count > 0 THEN "latch" ELSE IF tid THEN "cond" ELSE "aborted"
  /\ UNCHANGED <<loopVars, wpc, tid, count, loopPtr>>

\* Fault: startLoop does not wait for the loop.
CondWaitNot ==
  /\ opc = "cond"
  /\ opc' = "have"
  /\ UNCHANGED <<loopVars, asleep, wpc, tid, count, loopPtr>>

\* while (loop_ == NULL) cond_.wait(), then return loop_.
CondWait ==
  /\ opc = "cond" /\ ~asleep
  /\ asleep' = ~loopPtr
  /\ opc' = IF loopPtr THEN "have" ELSE "cond"
  /\ UNCHANGED <<loopVars, wpc, tid, count, loopPtr>>

\* A condition variable may wake for no reason.
SpuriousWakeup ==
  /\ asleep
  /\ asleep' = FALSE
  /\ UNCHANGED <<loopVars, opc, wpc, tid, count, loopPtr>>

\* The owner hands functors to the loop.
Use ==
  /\ opc = "have"
  /\ \E f \in Functors : QueueInLoop(Owner, f)
  /\ UNCHANGED tvars

\* Fault: ~EventLoopThread sets quit_ and does not wake the loop.
DestroyQuitSilent ==
  /\ opc = "have"
  /\ loopPtr
  /\ QuitNoWakeup(Owner)
  /\ opc' = "quit"
  /\ UNCHANGED <<asleep, wpc, tid, count, loopPtr>>

\* ~EventLoopThread: loop_->quit(), the store to quit_.
DestroyQuit ==
  /\ opc = "have"
  /\ loopPtr
  /\ Quit(Owner)
  /\ opc' = "quit"
  /\ UNCHANGED <<asleep, wpc, tid, count, loopPtr>>

\* wakeup() of a call of queueInLoop or quit, ...
OwnerWakeup ==
  /\ wpc # "dead"
  /\ Wakeup(Owner)
  /\ UNCHANGED tvars

\* ... whose loop may have seen quit_ and be destroyed by then.  The call uses
\* what is left on the stack of the dead thread, which is undefined: it writes
\* to a closed descriptor and returns, or the process dies.
WakeupOfDeadLoop ==
  /\ wpc = "dead"
  /\ Owner \in waking
  /\ waking' = waking \ {Owner}
  /\ opc' \in {opc, "crashed"}
  /\ UNCHANGED <<pc, quit, calling, pending, functors, executed, evfd, edge, io,
                 ret, quitAsked, asleep, wpc, tid, count, loopPtr>>

\* ... and then thread_.join() is called,
DestroyJoin ==
  /\ opc = "quit"
  /\ Owner \notin waking
  /\ opc' = "join"
  /\ UNCHANGED <<loopVars, asleep, wpc, tid, count, loopPtr>>

\* ... which returns when the thread has ended.
Joined ==
  /\ opc = "join"
  /\ wpc = "dead"
  /\ opc' = "gone"
  /\ UNCHANGED <<loopVars, asleep, wpc, tid, count, loopPtr>>

-----------------------------------------------------------------------------
(* The thread: ThreadData::runInThread, EventLoopThread::threadFunc.       *)

\* *tid_ = tid(): no lock; the latch publishes it.
SetTid ==
  /\ wpc = "born" /\ ~tid
  /\ tid' = TRUE
  /\ UNCHANGED <<loopVars, opc, asleep, wpc, count, loopPtr>>

\* Fault: the latch is opened before the store to tid_.
CountDownFirst ==
  /\ wpc = "born"
  /\ count' = count - 1
  /\ asleep' = (asleep /\ ~(opc = "latch" /\ count = 1))
  /\ wpc' = "running"
  /\ UNCHANGED <<loopVars, opc, tid, loopPtr>>

\* latch_->countDown(), which wakes the owner when the count is 0.
CountDown ==
  /\ wpc = "born" /\ tid
  /\ count' = count - 1
  /\ asleep' = (asleep /\ ~(opc = "latch" /\ count = 1))
  /\ wpc' = "running"
  /\ UNCHANGED <<loopVars, opc, tid, loopPtr>>

\* EventLoop loop; on the thread's stack.
Build ==
  /\ wpc = "running"
  /\ wpc' = "built"
  /\ UNCHANGED <<loopVars, opc, asleep, tid, count, loopPtr>>

\* loop_ = &loop; cond_.notify(), under mutex_.
Publish ==
  /\ wpc = "built"
  /\ loopPtr' = TRUE
  /\ asleep' = (asleep /\ opc # "cond")
  /\ wpc' = "looping"
  /\ UNCHANGED <<loopVars, opc, tid, count>>

\* loop.loop() and the callbacks in it; none of them calls quit.
InLoop ==
  /\ wpc = "looping"
  /\ Loop
  /\ UNCHANGED tvars

\* Fault: a callback on the loop's thread calls quit.
InLoopCallbackQuits ==
  /\ wpc = "looping"
  /\ QuitFromLoop \/ \E f \in Functors : QueueFromLoop(f) \/ RunInLoopFromLoop(f)
  /\ UNCHANGED tvars

InLoopCallback ==
  /\ wpc = "looping"
  /\ \E f \in Functors : QueueFromLoop(f) \/ RunInLoopFromLoop(f)
  /\ UNCHANGED tvars

LoopIO ==
  /\ wpc = "looping"
  /\ IOReady
  /\ UNCHANGED tvars

\* loop() has returned: loop_ = NULL, with no lock.
Leave ==
  /\ wpc = "looping"
  /\ pc = "left"
  /\ loopPtr' = FALSE
  /\ wpc' = "ending"
  /\ UNCHANGED <<loopVars, opc, asleep, tid, count>>

\* ~EventLoop, and the thread ends.
End ==
  /\ wpc = "ending"
  /\ wpc' = "dead"
  /\ UNCHANGED <<loopVars, opc, asleep, tid, count, loopPtr>>

-----------------------------------------------------------------------------
OwnerBlocking == \/ LatchWait \/ CondWait \/ OwnerWakeup \/ WakeupOfDeadLoop
                 \/ DestroyJoin \/ Joined
ThreadStep == SetTid \/ CountDown \/ Build \/ Publish \/ InLoop \/ Leave \/ End

ThreadNext ==
  \/ Start \/ StartFails \/ Use \/ DestroyQuit \/ OwnerBlocking
  \/ SpuriousWakeup
  \/ ThreadStep \/ InLoopCallback \/ LoopIO

ThreadSpec == ThreadInit /\ [][ThreadNext]_allVars

\* Both threads keep running when they can; the owner finishes the calls it has
\* begun, and need not begin any.
ThreadFairSpec ==
  ThreadSpec /\ WF_allVars(OwnerBlocking) /\ WF_allVars(ThreadStep)

-----------------------------------------------------------------------------
\* assert(tid_ > 0) of Thread::start holds (cur-thread.cc:100): the latch orders
\* it after the store of the other thread.
TidAssertHolds == opc # "aborted"

\* Whoever got a loop from startLoop has a loop that is built and published
\* and whose thread is in, or about to call, loop(), until the owner itself
\* calls quit (event-loop-thread.cc:24-35).
LoopUsable == opc = "have" => wpc = "looping" /\ loopPtr /\ pc # "left"

\* A loop outlives the calls on it, but for one: only the wakeup() that ends the
\* destructor's own quit() can find the loop gone, because the loop may see quit_
\* and leave before it (event-loop.cc:116-121).  No hand-over of a functor
\* reaches a destroyed loop.
LoopOutlivesCalls == Owner \in waking => wpc = "looping" \/ opc = "quit"

\* The owner's calls return: startLoop once the thread has been created, with no
\* wakeup of either condition variable lost; the destructor if its quit() was not
\* overtaken by the entry of loop(), which resets quit_ (event-loop.cc:103), and
\* did not die of its wakeup() on the destroyed loop.
OwnerCallsReturn ==
  /\ opc = "latch" ~> opc = "have"
  /\ (quit /\ pc # "enter" /\ opc \in {"quit", "join"}) ~> opc \in {"gone", "crashed"}
=============================================================================
