----------------------------- MODULE EventLoop -----------------------------
(***************************************************************************)
(* server::EventLoop (event-loop.cc): one thread runs loop(); other        *)
(* threads hand it functors with queueInLoop()/runInLoop() and stop it     *)
(* with quit().  The loop sleeps in epoll_wait; the eventfd wakeupFd_,     *)
(* registered edge-triggered, is what ends the sleep.                      *)
(*                                                                         *)
(* The thread of the loop and the callers interleave at every step that    *)
(* another thread can observe: the push under mutex_, the write to the     *)
(* eventfd, the read of it, the swap under mutex_, the store to quit_.     *)
(***************************************************************************)
EXTENDS Naturals, Sequences

CONSTANTS Functors,   \* closures, each handed over at most once
          Callers     \* threads other than the loop's own

VARIABLES pc,           \* where the loop's thread is
          quit,         \* quit_
          calling,      \* callingPendingFunctors_
          pending,      \* pendingFunctors_
          functors,     \* the local vector of doPendingFunctors
          executed,     \* history: functors in the order they ran
          evfd,         \* counter of the eventfd
          edge,         \* the eventfd is on epoll's ready list
          io,           \* another descriptor of this loop is ready
          ret,          \* channels epoll_wait returned, not handled yet
          waking,       \* callers between their store and their wakeup()
          quitAsked     \* a caller has called quit()

vars == <<pc, quit, calling, pending, functors, executed, evfd, edge, io,
          ret, waking, quitAsked>>

Channels == {"wakeup", "io"}

Submitted == {pending[i] : i \in DOMAIN pending}
               \cup {functors[i] : i \in DOMAIN functors}
               \cup {executed[i] : i \in DOMAIN executed}

TypeOK ==
  /\ pc \in {"enter", "test", "poll", "handle", "swap", "run", "left"}
  /\ quit \in BOOLEAN
  /\ calling \in BOOLEAN
  /\ pending \in Seq(Functors)
  /\ functors \in Seq(Functors)
  /\ executed \in Seq(Functors)
  /\ evfd \in Nat
  /\ edge \in BOOLEAN
  /\ io \in BOOLEAN
  /\ ret \subseteq Channels
  /\ waking \subseteq Callers
  /\ quitAsked \in BOOLEAN

\* The constructor: the wakeup channel is in the poller, nothing is pending.
Init ==
  /\ pc = "enter"
  /\ quit = FALSE
  /\ calling = FALSE
  /\ pending = <<>>
  /\ functors = <<>>
  /\ executed = <<>>
  /\ evfd = 0
  /\ edge = FALSE
  /\ io = FALSE
  /\ ret = {}
  /\ waking = {}
  /\ quitAsked = FALSE

-----------------------------------------------------------------------------
(* The loop's thread.                                                      *)

\* loop() clears quit_ before it looks at it.
Enter ==
  /\ pc = "enter"
  /\ quit' = FALSE
  /\ pc' = "test"
  /\ UNCHANGED <<calling, pending, functors, executed, evfd, edge, io, ret,
                 waking, quitAsked>>

\* while (!quit_)
TestQuit ==
  /\ pc = "test"
  /\ pc' = IF quit THEN "left" ELSE "poll"
  /\ UNCHANGED <<quit, calling, pending, functors, executed, evfd, edge, io,
                 ret, waking, quitAsked>>

\* Fault: an edge left by a wakeup that has been read already is reported.
ReportedStaleEdge == {ch \in Channels : \/ ch = "wakeup" /\ edge
                                        \/ ch = "io" /\ io}

\* What epoll_wait reports: the eventfd if an edge is queued and it is still
\* readable (the kernel polls it again), any other ready descriptor.
Reported == {ch \in Channels : \/ ch = "wakeup" /\ edge /\ evfd > 0
                               \/ ch = "io" /\ io}

\* Epoll::poll returns only with at least one channel; reporting an
\* edge-triggered descriptor takes it off the ready list.
Poll ==
  /\ pc = "poll"
  /\ Reported # {}
  /\ ret' = Reported
  /\ edge' = FALSE
  /\ io' = FALSE
  /\ pc' = "handle"
  /\ UNCHANGED <<quit, calling, pending, functors, executed, evfd, waking,
                 quitAsked>>

\* Channel::handleEvents of the wakeup channel: handleRead empties the
\* counter, handleConn finds the event mask unchanged.
HandleWakeup ==
  /\ pc = "handle"
  /\ "wakeup" \in ret
  /\ evfd' = 0
  /\ ret' = ret \ {"wakeup"}
  /\ UNCHANGED <<pc, quit, calling, pending, functors, executed, edge, io,
                 waking, quitAsked>>

\* Channel::handleEvents of any other channel has returned.
HandleIO ==
  /\ pc = "handle"
  /\ "io" \in ret
  /\ ret' = ret \ {"io"}
  /\ UNCHANGED <<pc, quit, calling, pending, functors, executed, evfd, edge,
                 io, waking, quitAsked>>

\* Every channel handled.
EndHandling ==
  /\ pc = "handle"
  /\ ret = {}
  /\ pc' = "swap"
  /\ UNCHANGED <<quit, calling, pending, functors, executed, evfd, edge, io,
                 ret, waking, quitAsked>>

\* Fault: the pending vector is copied, not swapped.
SwapFunctorsByCopy ==
  /\ pc = "swap"
  /\ calling' = TRUE
  /\ functors' = pending
  /\ pc' = "run"
  /\ UNCHANGED <<quit, pending, executed, evfd, edge, io, ret, waking,
                 quitAsked>>

\* doPendingFunctors: announce, then take the whole vector under mutex_.
SwapFunctors ==
  /\ pc = "swap"
  /\ calling' = TRUE
  /\ functors' = pending
  /\ pending' = <<>>
  /\ pc' = "run"
  /\ UNCHANGED <<quit, executed, evfd, edge, io, ret, waking, quitAsked>>

RunFunctor ==
  /\ pc = "run"
  /\ functors # <<>>
  /\ executed' = Append(executed, Head(functors))
  /\ functors' = Tail(functors)
  /\ UNCHANGED <<pc, quit, calling, pending, evfd, edge, io, ret, waking,
                 quitAsked>>

EndFunctors ==
  /\ pc = "run"
  /\ functors = <<>>
  /\ calling' = FALSE
  /\ pc' = "test"
  /\ UNCHANGED <<quit, pending, functors, executed, evfd, edge, io, ret,
                 waking, quitAsked>>

\* A handler or a functor, on the loop's own thread, calls queueInLoop: it
\* pushes, and wakes the loop only if functors are being called.
InCallback == (pc = "handle" /\ "io" \in ret) \/ pc = "run"

\* Fault: queueInLoop forgets || callingPendingFunctors_.
QueueFromLoopNoWakeup(f) ==
  /\ InCallback
  /\ f \notin Submitted
  /\ pending' = Append(pending, f)
  /\ UNCHANGED <<pc, quit, calling, functors, executed, evfd, edge, io, ret,
                 waking, quitAsked>>

QueueFromLoop(f) ==
  /\ InCallback
  /\ f \notin Submitted
  /\ pending' = Append(pending, f)
  /\ evfd' = IF calling THEN evfd + 1 ELSE evfd
  /\ edge' = IF calling THEN TRUE ELSE edge
  /\ UNCHANGED <<pc, quit, calling, functors, executed, io, ret, waking,
                 quitAsked>>

\* ... or calls runInLoop, which calls the functor on the spot.
RunInLoopFromLoop(f) ==
  /\ InCallback
  /\ f \notin Submitted
  /\ executed' = Append(executed, f)
  /\ UNCHANGED <<pc, quit, calling, pending, functors, evfd, edge, io, ret,
                 waking, quitAsked>>

\* ... or calls quit, which needs no wakeup on this thread.
QuitFromLoop ==
  /\ InCallback
  /\ quit' = TRUE
  /\ UNCHANGED <<pc, calling, pending, functors, executed, evfd, edge, io,
                 ret, waking, quitAsked>>

-----------------------------------------------------------------------------
(* Other threads.  A caller is inside at most one call at a time.          *)

\* Fault: queueInLoop never wakes the loop of another thread.
QueueInLoopNoWakeup(c, f) ==
  /\ c \notin waking
  /\ f \notin Submitted
  /\ pending' = Append(pending, f)
  /\ UNCHANGED <<pc, quit, calling, functors, executed, evfd, edge, io, ret,
                 waking, quitAsked>>

\* queueInLoop (and runInLoop, which forwards to it): the push.
QueueInLoop(c, f) ==
  /\ c \notin waking
  /\ f \notin Submitted
  /\ pending' = Append(pending, f)
  /\ waking' = waking \cup {c}
  /\ UNCHANGED <<pc, quit, calling, functors, executed, evfd, edge, io, ret,
                 quitAsked>>

\* Fault: quit() never wakes the loop.
QuitNoWakeup(c) ==
  /\ c \notin waking
  /\ ~quitAsked
  /\ quitAsked' = TRUE
  /\ quit' = TRUE
  /\ UNCHANGED <<pc, calling, pending, functors, executed, evfd, edge, io,
                 ret, waking>>

\* quit(): the store.  Only the owner of the loop calls it, once.
Quit(c) ==
  /\ c \notin waking
  /\ ~quitAsked
  /\ quitAsked' = TRUE
  /\ quit' = TRUE
  /\ waking' = waking \cup {c}
  /\ UNCHANGED <<pc, calling, pending, functors, executed, evfd, edge, io, ret>>

\* wakeup(): the second half of both.
Wakeup(c) ==
  /\ c \in waking
  /\ evfd' = evfd + 1
  /\ edge' = TRUE
  /\ waking' = waking \ {c}
  /\ UNCHANGED <<pc, quit, calling, pending, functors, executed, io, ret,
                 quitAsked>>

\* A peer makes another descriptor of this loop ready.
IOReady ==
  /\ ~io
  /\ io' = TRUE
  /\ UNCHANGED <<pc, quit, calling, pending, functors, executed, evfd, edge,
                 ret, waking, quitAsked>>

-----------------------------------------------------------------------------
\* The steps of loop() itself.
Loop ==
  \/ Enter
  \/ TestQuit
  \/ Poll
  \/ HandleWakeup
  \/ HandleIO
  \/ EndHandling
  \/ SwapFunctors
  \/ RunFunctor
  \/ EndFunctors

\* What user callbacks may call from inside the loop.
Callback ==
  \/ \E f \in Functors : QueueFromLoop(f) \/ RunInLoopFromLoop(f)
  \/ QuitFromLoop

Caller(c) == Quit(c) \/ \E f \in Functors : QueueInLoop(c, f)

Next ==
  \/ Loop
  \/ Callback
  \/ \E c \in Callers : Caller(c) \/ Wakeup(c)
  \/ IOReady

Spec == Init /\ [][Next]_vars

\* A thread that is not blocked keeps running, and callbacks return.
FairSpec == Spec /\ WF_vars(Loop) /\ \A c \in Callers : WF_vars(Wakeup(c))

-----------------------------------------------------------------------------
\* The eventfd will end the next epoll_wait, or a caller is about to see to it.
WakeupComing == (edge /\ evfd > 0) \/ waking # {}

\* No functor is left behind by a sleeping loop: before loop() starts,
\* and from the swap of one batch until the next poll returns, whatever has
\* been pushed has a wakeup on its way (queueInLoop, event-loop.cc:137).
NoStrandedFunctor ==
  pc \in {"enter", "run", "test", "poll"} /\ pending # <<>> => WakeupComing

\* handleRead gets its 8 bytes: a wakeup reported by epoll is still readable
\* when the loop comes to it (the error branch of event-loop.cc:153 is dead).
WakeupReadable == "wakeup" \in ret => evfd > 0

\* callingPendingFunctors_ is up exactly while functors run, and the batch is
\* empty outside, so that the swap of doPendingFunctors loses nothing.
BatchDiscipline ==
  /\ calling <=> pc = "run"
  /\ pc # "run" => functors = <<>>

\* The loop implements a first-in first-out executor.
E == INSTANCE Executor WITH queue <- functors \o pending
ImplementsExecutor == E!ESpec

\* Whatever is submitted runs, unless the loop is stopped (event-loop.cc:132).
EveryFunctorRuns ==
  \A f \in Functors : f \in Submitted
      ~> (f \in {executed[i] : i \in DOMAIN executed} \/ pc = "left")

\* quit() of another thread ends a loop that has entered its while
\* (event-loop.cc:117), also one that sleeps.
QuitLeaves == (quit /\ pc # "enter") ~> pc = "left"
=============================================================================
