------------------------------- MODULE Server -------------------------------
(***************************************************************************)
(* server::Server (server.cc) with its EventLoopThreadPool, its acceptor   *)
(* and the life of a connection from the listen backlog to close(fd).      *)
(*                                                                         *)
(* The main loop's thread accepts, looks for an idle worker loop and hands *)
(* the connection over with queueInLoop; the worker registers it with its  *)
(* own poller (newEvent), serves it and gives itself back (handleClose).   *)
(* A worker's queue is the Executor that EventLoop implements.  What a     *)
(* connection exchanges with its peer is the subject of WebSocketData;     *)
(* here it only matters whether it reaches STATE_CLOSE or STATE_ERROR.     *)
(***************************************************************************)
EXTENDS Integers, Sequences, FiniteSets

CONSTANTS Conns,       \* peers that connect, once each
          NoConn,      \* a null SP_Channel
          NumThreads,  \* threadNum_, workers of the pool
          NumFds,      \* descriptors the process may still open
          MaxFds,      \* MAXFDS, counted in the same descriptors
          Faults,      \* system calls that may fail: "fcntl", "epoll_add"
          Silent       \* peers that may stay connected for ever

ASSUME NumThreadsAssumption == NumThreads \in Nat \ {0}
ASSUME FdsAssumption == NumFds \in Nat /\ MaxFds \in Nat
ASSUME ConnsAssumption == Silent \subseteq Conns /\ NoConn \notin Conns

Loops == 0..(NumThreads - 1)
Fds == 0..(NumFds - 1)
None == -1

VARIABLES mpc,       \* where the main loop's thread is
          armed,     \* the listen socket is registered for EPOLLIN | EPOLLET
          edge,      \* the listen socket is on epoll's ready list
          backlog,   \* established connections nobody accepted
          starved,   \* history: the last accept failed for want of descriptors
          hand,      \* the connection handNewConn is working on
          i,         \* index of the scan in getNextLoop, modulo NumThreads
          idle,      \* EventLoop::idle of each worker
          pend,      \* newEvent functors queued in each worker
          fd2chan,   \* Epoll::fd2chan_ of each worker, by descriptor
          st,        \* life of each connection
          fdOf,      \* its open descriptor
          loopOf     \* the worker chosen for it

mainVars == <<mpc, armed, starved, hand, i>>
connVars == <<st, fdOf, loopOf>>
vars == <<mpc, armed, edge, backlog, starved, hand, i, idle, pend, fd2chan,
          st, fdOf, loopOf>>

\* new: not connected; backlog; accepted: in handNewConn's hands; queued:
\* newEvent is pending; open: registered; shut: handleClose ran, the object
\* still lives; closed.  refused, leaked and unwatched are the error paths.
ConnStates == {"new", "backlog", "accepted", "queued", "open", "shut",
               "closed", "refused", "leaked", "unwatched"}

\* Connections a worker has on its hands.
Serving == {"queued", "open"}

TypeOK ==
  /\ mpc \in {"poll", "accept", "scan", "check", "rearm", "disarm"}
  /\ armed \in BOOLEAN
  /\ edge \in BOOLEAN
  /\ backlog \in Seq(Conns)
  /\ starved \in BOOLEAN
  /\ hand \in Conns \cup {NoConn}
  /\ i \in Loops
  /\ idle \in [Loops -> BOOLEAN]
  /\ pend \in [Loops -> Seq(Conns)]
  /\ fd2chan \in [Loops -> [Fds -> Conns \cup {NoConn}]]
  /\ st \in [Conns -> ConnStates]
  /\ fdOf \in [Conns -> Fds \cup {None}]
  /\ loopOf \in [Conns -> Loops \cup {None}]

\* Server::start has run: the pool's loops sleep, the acceptor is registered.
Init ==
  /\ mpc = "poll"
  /\ armed = TRUE
  /\ edge = FALSE
  /\ backlog = <<>>
  /\ starved = FALSE
  /\ hand = NoConn
  /\ i = 0
  /\ idle = [l \in Loops |-> TRUE]
  /\ pend = [l \in Loops |-> <<>>]
  /\ fd2chan = [l \in Loops |-> [f \in Fds |-> NoConn]]
  /\ st = [c \in Conns |-> "new"]
  /\ fdOf = [c \in Conns |-> None]
  /\ loopOf = [c \in Conns |-> None]

-----------------------------------------------------------------------------
(* The kernel: a peer connects.  Every arrival puts a listening socket that *)
(* is registered back on the ready list.                                   *)
Arrive(c) ==
  /\ st[c] = "new"
  /\ st' = [st EXCEPT ![c] = "backlog"]
  /\ backlog' = Append(backlog, c)
  /\ edge' = armed
  /\ starved' = FALSE
  /\ UNCHANGED <<mpc, armed, hand, i, idle, pend, fd2chan, fdOf, loopOf>>

-----------------------------------------------------------------------------
(* The main loop's thread: handNewConn and handThisConn.                   *)

\* epoll_wait reports the listen socket, once per edge.
AcceptEvent ==
  /\ mpc = "poll"
  /\ armed /\ edge /\ backlog # <<>>
  /\ edge' = FALSE
  /\ mpc' = "accept"
  /\ UNCHANGED <<armed, backlog, starved, hand, i, idle, pend, fd2chan, connVars>>

FreeFds == Fds \ {fdOf[c] : c \in Conns}

\* accept() returns the lowest free descriptor; getNextLoop starts at loop 0.
Accept ==
  /\ mpc = "accept"
  /\ backlog # <<>>
  /\ \E f \in FreeFds :
       /\ \A g \in FreeFds : f <= g
       /\ fdOf' = [fdOf EXCEPT ![Head(backlog)] = f]
  /\ hand' = Head(backlog)
  /\ st' = [st EXCEPT ![Head(backlog)] = "accepted"]
  /\ backlog' = Tail(backlog)
  /\ i' = 0
  /\ mpc' = "scan"
  /\ UNCHANGED <<armed, edge, starved, idle, pend, fd2chan, loopOf>>

\* accept() returns -1: the backlog is empty (EAGAIN), or no descriptor is
\* left (EMFILE) and the backlog stays as it is.
AcceptFails ==
  /\ mpc = "accept"
  /\ backlog = <<>> \/ FreeFds = {}
  /\ starved' = (backlog # <<>>)
  /\ mpc' = "rearm"
  /\ UNCHANGED <<armed, edge, backlog, hand, i, idle, pend, fd2chan, connVars>>

\* Fault: the scan waits for the worker it looks at.
ScanBusyStays ==
  /\ mpc = "scan"
  /\ ~idle[i]
  /\ UNCHANGED vars

\* getNextLoop passes over a busy worker and tries the next, without end.
ScanBusy ==
  /\ mpc = "scan"
  /\ ~idle[i]
  /\ i' = (i + 1) % NumThreads
  /\ UNCHANGED <<mpc, armed, edge, backlog, starved, hand, idle, pend, fd2chan,
                 connVars>>

\* Fault: the scan takes whatever worker it looks at.
ScanFoundAny ==
  /\ mpc = "scan"
  /\ idle' = [idle EXCEPT ![i] = FALSE]
  /\ loopOf' = [loopOf EXCEPT ![hand] = i]
  /\ mpc' = "check"
  /\ UNCHANGED <<armed, edge, backlog, starved, hand, i, pend, fd2chan, st, fdOf>>

\* ... finds an idle one, which handNewConn marks busy.
ScanFound ==
  /\ mpc = "scan"
  /\ idle[i]
  /\ idle' = [idle EXCEPT ![i] = FALSE]
  /\ loopOf' = [loopOf EXCEPT ![hand] = i]
  /\ mpc' = "check"
  /\ UNCHANGED <<armed, edge, backlog, starved, hand, i, pend, fd2chan, st, fdOf>>

\* accept_fd >= MAXFDS: close it and go on accepting; the worker stays busy.
Refuse ==
  /\ mpc = "check"
  /\ fdOf[hand] >= MaxFds
  /\ st' = [st EXCEPT ![hand] = "refused"]
  /\ fdOf' = [fdOf EXCEPT ![hand] = None]
  /\ hand' = NoConn
  /\ mpc' = "accept"
  /\ UNCHANGED <<armed, edge, backlog, starved, i, idle, pend, fd2chan, loopOf>>

\* setSocketNonBlocking fails: return at once.  The descriptor stays open,
\* and the acceptor's event mask, cleared by handleEvents, stays cleared.
Leak ==
  /\ mpc = "check"
  /\ fdOf[hand] < MaxFds
  /\ "fcntl" \in Faults
  /\ st' = [st EXCEPT ![hand] = "leaked"]
  /\ hand' = NoConn
  /\ mpc' = "disarm"
  /\ UNCHANGED <<armed, edge, backlog, starved, i, idle, pend, fd2chan, fdOf,
                 loopOf>>

\* Fault: one accept per event.
DispatchOnce ==
  /\ mpc = "check"
  /\ fdOf[hand] < MaxFds
  /\ st' = [st EXCEPT ![hand] = "queued"]
  /\ pend' = [pend EXCEPT ![loopOf[hand]] = Append(@, hand)]
  /\ hand' = NoConn
  /\ mpc' = "rearm"
  /\ UNCHANGED <<armed, edge, backlog, starved, i, idle, fd2chan, fdOf, loopOf>>

\* Hand the connection to the worker and go on accepting.
Dispatch ==
  /\ mpc = "check"
  /\ fdOf[hand] < MaxFds
  /\ st' = [st EXCEPT ![hand] = "queued"]
  /\ pend' = [pend EXCEPT ![loopOf[hand]] = Append(@, hand)]
  /\ hand' = NoConn
  /\ mpc' = "accept"
  /\ UNCHANGED <<armed, edge, backlog, starved, i, idle, fd2chan, fdOf, loopOf>>

\* handThisConn: the mask is what it was, epoll_mod does nothing.
Rearm ==
  /\ mpc = "rearm"
  /\ mpc' = "poll"
  /\ UNCHANGED <<armed, edge, backlog, starved, hand, i, idle, pend, fd2chan,
                 connVars>>

\* handThisConn after the early return: the mask is 0, and epoll_mod asks the
\* kernel for no events.
Disarm ==
  /\ mpc = "disarm"
  /\ armed' = FALSE
  /\ edge' = FALSE
  /\ mpc' = "poll"
  /\ UNCHANGED <<backlog, starved, hand, i, idle, pend, fd2chan, connVars>>

-----------------------------------------------------------------------------
(* The workers.                                                            *)

\* Worker l's thread is back in its loop: the connection it closed last has
\* been destroyed, before handleEvents returned.
InLoop(l) == \A c \in Conns : loopOf[c] = l => st[c] # "shut"

\* newEvent: Epoll::epoll_add registers the connection ...
NewEvent(l) ==
  /\ InLoop(l)
  /\ pend[l] # <<>>
  /\ LET c == Head(pend[l])
     IN  /\ fd2chan' = [fd2chan EXCEPT ![l][fdOf[c]] = c]
         /\ st' = [st EXCEPT ![c] = "open"]
  /\ pend' = [pend EXCEPT ![l] = Tail(@)]
  /\ UNCHANGED <<mainVars, edge, backlog, idle, fdOf, loopOf>>

\* ... or epoll_ctl fails and the channel is forgotten: the connection keeps
\* its descriptor (holder_ and channel_ keep each other) and its worker.
NewEventFails(l) ==
  /\ InLoop(l)
  /\ pend[l] # <<>>
  /\ "epoll_add" \in Faults
  /\ LET c == Head(pend[l])
     IN  /\ fd2chan' = [fd2chan EXCEPT ![l][fdOf[c]] = NoConn]
         /\ st' = [st EXCEPT ![c] = "unwatched"]
  /\ pend' = [pend EXCEPT ![l] = Tail(@)]
  /\ UNCHANGED <<mainVars, edge, backlog, idle, fdOf, loopOf>>

\* Fault: handleClose gives up the object and leaves it in fd2chan_.
HandleCloseKeepsChannel(c) ==
  /\ st[c] = "open"
  /\ st' = [st EXCEPT ![c] = "shut"]
  /\ idle' = [idle EXCEPT ![loopOf[c]] = TRUE]
  /\ UNCHANGED <<mainVars, edge, backlog, pend, fd2chan, fdOf, loopOf>>

\* Fault: handleClose forgets loop_->idle = true.
HandleCloseKeepsBusy(c) ==
  /\ st[c] = "open"
  /\ fd2chan' = [fd2chan EXCEPT ![loopOf[c]][fdOf[c]] = NoConn]
  /\ st' = [st EXCEPT ![c] = "shut"]
  /\ UNCHANGED <<mainVars, edge, backlog, idle, pend, fdOf, loopOf>>

\* The connection reached STATE_CLOSE or STATE_ERROR: handleClose takes it out
\* of the poller, drops the reference that kept it alive, frees the worker.
HandleClose(c) ==
  /\ st[c] = "open"
  /\ fd2chan' = [fd2chan EXCEPT ![loopOf[c]][fdOf[c]] = NoConn]
  /\ st' = [st EXCEPT ![c] = "shut"]
  /\ idle' = [idle EXCEPT ![loopOf[c]] = TRUE]
  /\ UNCHANGED <<mainVars, edge, backlog, pend, fdOf, loopOf>>

\* The last reference goes: ~WebSocketData closes the descriptor.
Destroy(c) ==
  /\ st[c] = "shut"
  /\ st' = [st EXCEPT ![c] = "closed"]
  /\ fdOf' = [fdOf EXCEPT ![c] = None]
  /\ UNCHANGED <<mainVars, edge, backlog, idle, pend, fd2chan, loopOf>>

-----------------------------------------------------------------------------
Main == \/ AcceptEvent \/ Accept \/ AcceptFails \/ ScanBusy \/ ScanFound
        \/ Refuse \/ Leak \/ Dispatch \/ Rearm \/ Disarm

Worker(l) == NewEvent(l) \/ NewEventFails(l)

Next ==
  \/ Main
  \/ \E l \in Loops : Worker(l)
  \/ \E c \in Conns : Arrive(c) \/ HandleClose(c) \/ Destroy(c)

Spec == Init /\ [][Next]_vars

\* Threads that are not blocked keep running, and every peer that is not
\* silent ends its session, so that its connection comes to be closed.
FairSpec ==
  /\ Spec
  /\ WF_vars(Main)
  /\ \A l \in Loops : WF_vars(Worker(l))
  /\ \A c \in Conns : WF_vars(Destroy(c))
  /\ \A c \in Conns \ Silent : WF_vars(HandleClose(c))

-----------------------------------------------------------------------------
\* Connections that keep worker l busy: in hand and assigned, queued, open.
OnLoop(l) == {c \in Conns : /\ loopOf[c] = l
                            /\ st[c] \in Serving \cup {"accepted"}}

\* A worker serves at most one connection at a time, whatever the order in
\* which sessions end and new ones arrive: a worker blocks in writeData, so
\* a second connection would wait behind it (server.cc:57, websocket-data.cc:50).
OneConnPerLoop == \A l \in Loops : \A c, d \in OnLoop(l) : c = d

\* A worker the scan will pick has nothing left to do for anybody.
IdleMeansFree == \A l \in Loops : idle[l] => OnLoop(l) = {}

\* The channel table is exact: what epoll finds under a descriptor is the open
\* connection that owns the descriptor now, on this worker, and every open
\* connection is found, although a descriptor is reused as soon as it is
\* closed (cur-epoll.cc:33, 61, websocket-data.cc:38).
ChannelTable ==
  \A l \in Loops, f \in Fds, c \in Conns :
     fd2chan[l][f] = c <=> st[c] = "open" /\ fdOf[c] = f /\ loopOf[c] = l

\* Two connections never hold one descriptor.
FdsDistinct ==
  \A c, d \in Conns : fdOf[c] # None /\ fdOf[c] = fdOf[d] => c = d

\* Once its accept loop has ended, the edge-triggered acceptor never sleeps on
\* a backlog, also when a peer connects between the last accept and the poll,
\* unless it ran out of descriptors or was disarmed (server.cc:55, 82).
NoStrandedBacklog ==
  mpc \in {"rearm", "poll"} /\ armed /\ ~starved /\ backlog # <<>> => edge

\* A worker is out of service only for a connection: one it is serving, or
\* one that an error path of the acceptor or of epoll_add left behind.
WorkersAccounted ==
  \A l \in Loops : ~idle[l] =>
     \E c \in Conns : /\ loopOf[c] = l
                      /\ st[c] \in Serving \cup {"accepted", "refused", "leaked",
                                                 "unwatched"}

\* Worker l will never be idle again.
Lost(l) == \E c \in Conns : loopOf[c] = l /\ st[c] \in {"refused", "leaked", "unwatched"}

\* Everybody who connects is served to the end, also when there are more peers
\* than workers, as long as one worker is left: what becomes of the others is
\* that they are given up one by one on an error path, or that the acceptor is
\* disarmed or out of descriptors.
EveryConnServed ==
  \A c \in Conns :
    st[c] = "backlog" ~> \/ st[c] \in {"closed", "refused", "leaked", "unwatched"}
                         \/ starved \/ ~armed
                         \/ \A l \in Loops : Lost(l)

\* newEvent registers a connection with DEFAULT_EXPIRED_TIME (dog-status.h:51,
\* websocket-data.cc:56): a silent peer's connection expires.
ConnExpires == \A c \in Conns : st[c] = "open" ~> st[c] = "closed"
=============================================================================
