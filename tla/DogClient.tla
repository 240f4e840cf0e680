------------------------------ MODULE DogClient ------------------------------
(***************************************************************************)
(* bin/dog-client.cc: threadNum sender threads take files off a list, send *)
(* each in a session of its own and wait until the main thread, which      *)
(* reads all sockets through one edge-triggered epoll, has seen the server *)
(* close.  They talk through thread_ids: -1 running, 1 closed by the       *)
(* server, 2 thread finished.  An event carries a pointer to uu on its     *)
(* thread's stack, which is the uu of whatever session the thread is in    *)
(* when the pointer is followed.                                           *)
(***************************************************************************)
EXTENDS Integers, FiniteSets

CONSTANTS NumThreads,   \* threadNum
          NumFiles,     \* list_num
          Packets,      \* the frames a file is sent in, EOS included
          Window,       \* the frames a socket holds in each direction
          SleepSuffices \* a thread gets past its first lock in the usleep of main

ASSUME DogClientAssumption ==
  /\ NumThreads \in Nat \ {0} /\ NumFiles \in Nat /\ SleepSuffices \in BOOLEAN
  /\ Packets \in Nat \ {0} /\ Window \in Nat \ {0}

Threads == 0 .. NumThreads - 1
NoItem == NumFiles

VARIABLES mpc,        \* where the main thread is
          created,    \* threads created
          paramId,    \* param.thread_id
          threadIds,  \* param.thread_ids
          curPos,     \* list->cur_pos
          tpc,        \* where each thread is
          tid,        \* its thread_id
          item,       \* its item
          asleep,     \* threads in pthread_cond_wait
          left,       \* the frames of its file it has not sent
          up,         \* frames on its socket that the server has not read
          data,       \* results on its socket that main has not read
          fin,        \* its socket has the server's FIN
          edge,       \* ... and is on epoll's ready list
          evs         \* ev[] of the main thread, what is left of it

mainVars == <<mpc, created, paramId, evs>>
sockVars == <<left, up, data, fin, edge>>
vars == <<mainVars, threadIds, curPos, tpc, tid, item, asleep, sockVars>>

Events == [t : Threads, item : 0 .. NumFiles, in : BOOLEAN, hup : BOOLEAN]

TypeOK ==
  /\ mpc \in {"create", "sleep", "loop", "events", "join", "broken", "exit", "dead"}
  /\ created \in 0 .. NumThreads
  /\ paramId \in Threads
  /\ threadIds \in [Threads -> {-1, 1, 2}]
  /\ curPos \in 0 .. NumFiles
  /\ tpc \in [Threads -> {"none", "born", "take", "link", "add", "send", "wait",
                          "closing", "finish", "done"}]
  /\ tid \in [Threads -> Threads]
  /\ item \in [Threads -> 0 .. NumFiles]
  /\ asleep \subseteq Threads
  /\ left \in [Threads -> 0 .. Packets]
  /\ up \in [Threads -> 0 .. Window]
  /\ data \in [Threads -> 0 .. Window]
  /\ fin \in [Threads -> BOOLEAN]
  /\ edge \in [Threads -> BOOLEAN]
  /\ evs \subseteq Events

\* thread_ids is not initialised: -1 stands for all values without a meaning.
Init ==
  /\ mpc = "create" /\ created = 0 /\ paramId = 0 /\ evs = {}
  /\ threadIds \in [Threads -> {-1, 1, 2}]
  /\ curPos = 0
  /\ tpc = [i \in Threads |-> "none"]
  /\ tid = [i \in Threads |-> 0]
  /\ item = [i \in Threads |-> NoItem]
  /\ asleep = {}
  /\ left = [i \in Threads |-> 0]
  /\ up = [i \in Threads |-> 0]
  /\ data = [i \in Threads |-> 0]
  /\ fin = [i \in Threads |-> FALSE]
  /\ edge = [i \in Threads |-> FALSE]

Running == mpc \notin {"exit", "dead"}

-----------------------------------------------------------------------------
(* SendThread.                                                             *)

ReadId(i) ==
  /\ tpc[i] = "born"
  /\ tid' = [tid EXCEPT ![i] = paramId]
  /\ tpc' = [tpc EXCEPT ![i] = "take"]
  /\ UNCHANGED <<mainVars, threadIds, curPos, item, asleep, sockVars>>

\* Fault: thread_ids is left as it is.
TakeKeepsFlag(i) ==
  /\ tpc[i] = "take"
  /\ \/ /\ curPos >= NumFiles
        /\ item' = [item EXCEPT ![i] = NoItem]
        /\ tpc' = [tpc EXCEPT ![i] = "finish"]
        /\ UNCHANGED curPos
     \/ /\ curPos < NumFiles
        /\ item' = [item EXCEPT ![i] = curPos]
        /\ tpc' = [tpc EXCEPT ![i] = "link"]
        /\ curPos' = curPos + 1
  /\ UNCHANGED <<mainVars, threadIds, tid, asleep, sockVars>>

\* The next file of the list, under mute, and the flag cleared.
Take(i) ==
  /\ tpc[i] = "take"
  /\ threadIds' = [threadIds EXCEPT ![tid[i]] = -1]
  /\ \/ /\ curPos >= NumFiles
        /\ item' = [item EXCEPT ![i] = NoItem]
        /\ tpc' = [tpc EXCEPT ![i] = "finish"]
        /\ UNCHANGED curPos
     \/ /\ curPos < NumFiles
        /\ item' = [item EXCEPT ![i] = curPos]
        /\ tpc' = [tpc EXCEPT ![i] = "link"]
        /\ curPos' = curPos + 1
  /\ UNCHANGED <<mainVars, tid, asleep, sockVars>>

\* webSocket_clientLinkToServer: a new socket, and uu is filled in.
Link(i) ==
  /\ tpc[i] = "link"
  /\ tpc' = [tpc EXCEPT ![i] = "add"]
  /\ left' = [left EXCEPT ![i] = Packets]
  /\ up' = [up EXCEPT ![i] = 0]
  /\ data' = [data EXCEPT ![i] = 0]
  /\ fin' = [fin EXCEPT ![i] = FALSE]
  /\ UNCHANGED <<mainVars, threadIds, curPos, tid, item, asleep, edge>>

\* The link, or epoll_ctl, fails: exit(-1) of the process.  Or the file cannot be
\* opened: fread is called with NULL, which ends the process too.
Exit(i) ==
  /\ tpc[i] \in {"link", "add"} \/ (tpc[i] = "send" /\ left[i] = Packets)
  /\ mpc' = "dead"
  /\ UNCHANGED <<created, paramId, evs, threadIds, curPos, tpc, tid, item, asleep,
                 sockVars>>

\* There is something for recv().
Readable(i) == data[i] > 0 \/ fin[i]

\* EPOLL_CTL_ADD
Add(i) ==
  /\ tpc[i] = "add"
  /\ tpc' = [tpc EXCEPT ![i] = "send"]
  /\ edge' = [edge EXCEPT ![i] = Readable(i)]
  /\ UNCHANGED <<mainVars, threadIds, curPos, tid, item, asleep, left, up, data, fin>>

\* A frame of the file, EOS behind the last; send() blocks while the socket is full.
Send(i) ==
  /\ tpc[i] = "send" /\ up[i] < Window
  /\ left' = [left EXCEPT ![i] = @ - 1]
  /\ up' = [up EXCEPT ![i] = @ + 1]
  /\ tpc' = [tpc EXCEPT ![i] = IF left[i] = 1 THEN "wait" ELSE "send"]
  /\ UNCHANGED <<mainVars, threadIds, curPos, tid, item, asleep, data, fin, edge>>

\* Fault: the thread goes on at once.
WaitNot(i) ==
  /\ tpc[i] = "wait"
  /\ tpc' = [tpc EXCEPT ![i] = "closing"]
  /\ UNCHANGED <<mainVars, threadIds, curPos, tid, item, asleep, sockVars>>

\* while (thread_ids[thread_id] != 1) wait; then clear it.
Wait(i) ==
  /\ tpc[i] = "wait" /\ i \notin asleep
  /\ \/ /\ threadIds[tid[i]] # 1
        /\ asleep' = asleep \cup {i}
        /\ UNCHANGED <<threadIds, tpc>>
     \/ /\ threadIds[tid[i]] = 1
        /\ threadIds' = [threadIds EXCEPT ![tid[i]] = -1]
        /\ tpc' = [tpc EXCEPT ![i] = "closing"]
        /\ UNCHANGED asleep
  /\ UNCHANGED <<mainVars, curPos, tid, item, sockVars>>

SpuriousWakeup(i) ==
  /\ i \in asleep
  /\ asleep' = asleep \ {i}
  /\ UNCHANGED <<mainVars, threadIds, curPos, tpc, tid, item, sockVars>>

\* EPOLL_CTL_DEL and close; uu goes out of scope.
Close(i) ==
  /\ tpc[i] = "closing"
  /\ edge' = [edge EXCEPT ![i] = FALSE]
  /\ tpc' = [tpc EXCEPT ![i] = "take"]
  /\ UNCHANGED <<mainVars, threadIds, curPos, tid, item, asleep, left, up, data, fin>>

\* thread_ids[thread_id] = 2, with no lock
Finish(i) ==
  /\ tpc[i] = "finish"
  /\ threadIds' = [threadIds EXCEPT ![tid[i]] = 2]
  /\ tpc' = [tpc EXCEPT ![i] = "done"]
  /\ UNCHANGED <<mainVars, curPos, tid, item, asleep, sockVars>>

-----------------------------------------------------------------------------
(* The worker of the session.                                              *)

\* A frame is read and answered with a result (processPacket, processEnd);
\* writeData tries again and again while the client's socket is full, and the
\* worker reads nothing more meanwhile.
ServerResult(i) ==
  /\ tpc[i] \in {"send", "wait"} /\ up[i] > 0
  /\ data[i] < Window
  /\ up' = [up EXCEPT ![i] = @ - 1]
  /\ data' = [data EXCEPT ![i] = @ + 1]
  /\ edge' = [edge EXCEPT ![i] = TRUE]
  /\ UNCHANGED <<mainVars, threadIds, curPos, tpc, tid, item, asleep, left, fin>>

\* The FIN after EOS.
ServerCloses(i) ==
  /\ tpc[i] = "wait" /\ up[i] = 0 /\ ~fin[i]
  /\ fin' = [fin EXCEPT ![i] = TRUE]
  /\ edge' = [edge EXCEPT ![i] = TRUE]
  /\ UNCHANGED <<mainVars, threadIds, curPos, tpc, tid, item, asleep, left, up, data>>

-----------------------------------------------------------------------------
(* main.                                                                   *)

Create ==
  /\ mpc = "create"
  /\ paramId' = created
  /\ created' = created + 1
  /\ tpc' = [tpc EXCEPT ![created] = "born"]
  /\ mpc' = "sleep"
  /\ UNCHANGED <<evs, threadIds, curPos, tid, item, asleep, sockVars>>

CreateFails ==
  /\ mpc = "create"
  /\ mpc' = "dead"
  /\ UNCHANGED <<created, paramId, evs, threadIds, curPos, tpc, tid, item, asleep,
                 sockVars>>

\* usleep(1000)
Sleep ==
  /\ mpc = "sleep"
  /\ SleepSuffices => tpc[paramId] \notin {"born", "take"}
  /\ mpc' = IF created < NumThreads THEN "create" ELSE "loop"
  /\ UNCHANGED <<created, paramId, evs, threadIds, curPos, tpc, tid, item, asleep,
                 sockVars>>

\* What epoll reports: it looks again at what is on its list.
Ready == {i \in Threads : edge[i] /\ Readable(i)}

\* epoll_wait fills ev[] with all that is ready.
EpollWait ==
  /\ mpc = "loop" /\ Ready # {}
  /\ evs' = {[t |-> i, item |-> item[i], in |-> TRUE, hup |-> fin[i]] : i \in Ready}
  /\ edge' = [i \in Threads |-> FALSE]
  /\ mpc' = "events"
  /\ UNCHANGED <<created, paramId, threadIds, curPos, tpc, tid, item, asleep, left, up,
                 data, fin>>

\* Fault: one finished thread is enough.
EpollTimeoutAny ==
  /\ mpc = "loop" /\ Ready = {}
  /\ mpc' = IF \E i \in Threads : threadIds[i] = 2 THEN "join" ELSE "loop"
  /\ UNCHANGED <<created, paramId, evs, threadIds, curPos, tpc, tid, item, asleep,
                 sockVars>>

\* Nothing for two seconds: the end, if every thread has finished.
EpollTimeout ==
  /\ mpc = "loop" /\ Ready = {}
  /\ mpc' = IF \A i \in Threads : threadIds[i] = 2 THEN "join" ELSE "loop"
  /\ UNCHANGED <<created, paramId, evs, threadIds, curPos, tpc, tid, item, asleep,
                 sockVars>>

\* epoll_wait fails, which takes no more than a signal (EINTR): main leaves its
\* loop whatever the threads are doing, ...
EpollFails ==
  /\ mpc = "loop"
  /\ mpc' = "broken"
  /\ UNCHANGED <<created, paramId, evs, threadIds, curPos, tpc, tid, item, asleep,
                 sockVars>>

\* ... destroys cond and mute, frees the list and returns: the process ends under
\* them.  (Or it does not: pthread_cond_destroy may wait for the sleepers.)
Abandon ==
  /\ mpc = "broken"
  /\ mpc' = "dead"
  /\ UNCHANGED <<created, paramId, evs, threadIds, curPos, tpc, tid, item, asleep,
                 sockVars>>

\* EPOLLIN: one webSocket_recv(uu->fd), which blocks while there is nothing and
\* need not take all there is.
HandleIn(e) ==
  /\ mpc = "events" /\ e.in
  /\ Readable(e.t)
  /\ \E n \in 0 .. data[e.t] :
       /\ n > 0 \/ data[e.t] = 0
       /\ data' = [data EXCEPT ![e.t] = @ - n]
  /\ evs' = (evs \ {e}) \cup (IF e.hup THEN {[e EXCEPT !.in = FALSE]} ELSE {})
  /\ UNCHANGED <<mpc, created, paramId, threadIds, curPos, tpc, tid, item, asleep,
                 left, up, fin, edge>>

\* Fault: the flag is set and nobody told.
HandleHupSilent(e) ==
  /\ mpc = "events" /\ ~e.in
  /\ threadIds' = [threadIds EXCEPT ![tid[e.t]] = 1]
  /\ evs' = evs \ {e}
  /\ UNCHANGED <<mpc, created, paramId, curPos, tpc, tid, item, asleep, sockVars>>

\* EPOLLRDHUP: thread_ids[uu->thread_id] = 1 and a broadcast, under mute.
HandleHup(e) ==
  /\ mpc = "events" /\ ~e.in
  /\ threadIds' = [threadIds EXCEPT ![tid[e.t]] = 1]
  /\ asleep' = {}
  /\ evs' = evs \ {e}
  /\ UNCHANGED <<mpc, created, paramId, curPos, tpc, tid, item, sockVars>>

EndEvents ==
  /\ mpc = "events" /\ evs = {}
  /\ mpc' = "loop"
  /\ UNCHANGED <<created, paramId, evs, threadIds, curPos, tpc, tid, item, asleep,
                 sockVars>>

\* pthread_join of threads that were created detached does not wait; main
\* returns, and the process ends.
Join ==
  /\ mpc = "join"
  /\ mpc' = "exit"
  /\ UNCHANGED <<created, paramId, evs, threadIds, curPos, tpc, tid, item, asleep,
                 sockVars>>

-----------------------------------------------------------------------------
SendThread(i) ==
  Running /\ (ReadId(i) \/ Take(i) \/ Link(i) \/ Add(i) \/ Send(i) \/ Wait(i)
                \/ Close(i) \/ Finish(i))

Main == \/ Create \/ Sleep \/ EpollWait \/ EpollTimeout \/ EndEvents \/ Join
        \/ \E e \in evs : HandleIn(e) \/ HandleHup(e)

Next ==
  \/ Main \/ CreateFails \/ EpollFails \/ Abandon
  \/ \E i \in Threads :
       \/ SendThread(i)
       \/ Running /\ (Exit(i) \/ SpuriousWakeup(i) \/ ServerResult(i) \/ ServerCloses(i))

Spec == Init /\ [][Next]_vars

\* Threads run when they are not blocked; the server answers what it has room to
\* answer and closes a session it has the end of (SessionEnds of WebSocketData).
FairSpec ==
  /\ Spec
  /\ WF_vars(Main)
  /\ \A i \in Threads :
       WF_vars(SendThread(i)) /\ WF_vars(Running /\ (ServerResult(i) \/ ServerCloses(i)))

-----------------------------------------------------------------------------
\* A thread gives up its socket only after the server has closed this very
\* session: the flag it saw is not left from an earlier one, nor from the memory
\* thread_ids was made of (dog-client.cc:159).
NoEarlyClose == \A i \in Threads : tpc[i] = "closing" => fin[i]

\* The pointer of an event still points to the uu it was registered with when
\* main follows it (dog-client.cc:273, 288).
NoStaleEvent ==
  \A e \in evs : tpc[e.t] \in {"send", "wait"} /\ item[e.t] = e.item

\* A silent epoll lets main go only when every file has been sent and every
\* session closed, and no file is taken past the last one.  That is the end the
\* code intends (dog-client.cc:257-266); the other ways out, a process that dies
\* (CreateFails, Exit) and an epoll_wait that fails (EpollFails), keep no such
\* promise: main then leaves files unsent and sessions open.
EndsLast ==
  /\ TypeOK
  /\ mpc \in {"join", "exit"} =>
       curPos = NumFiles /\ \A i \in Threads : tpc[i] = "done"

\* The client ends: no close of the server is missed, and nobody waits for ever,
\* also not in a circle of a sender whose socket is full, a worker in writeData
\* whose client does not read (websocket-data.cc:261) and main asleep on an edge
\* that has been spent with results unread.  Or epoll_wait fails: main has then
\* left its loop, and may wait for ever in pthread_cond_destroy.
Ends == <>(~Running \/ mpc = "broken")
=============================================================================
