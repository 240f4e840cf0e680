--------------------------- MODULE DogClientProofs ---------------------------
(* The sessions of the client never mix, for every number of threads, files,  *)
(* frames and every size of a socket, if a thread gets past its first lock    *)
(* while main sleeps behind pthread_create.                                   *)
EXTENDS DogClient, TLAPS

USE DogClientAssumption

\* How far main has come: the threads below created have been created, and the
\* last of them reads param before it is changed.
MainPart ==
  /\ mpc = "create" => created < NumThreads
  /\ mpc = "sleep" => created > 0 /\ paramId = created - 1
  /\ mpc \in {"loop", "events", "join", "exit"} => created = NumThreads
  /\ evs # {} => mpc \in {"events", "dead"}
  /\ mpc \in {"join", "exit"} => \A i \in Threads : tpc[i] = "done"

\* A thread before its first file: nothing has been written to its flag.
StartPart(i) ==
  /\ tpc[i] = "none" <=> i >= created
  /\ tpc[i] = "born" => mpc \in {"sleep", "dead"} /\ paramId = i
  /\ tpc[i] \notin {"none", "born"} => tid[i] = i

\* What the flag of a thread says once the thread has cleared it.
FlagPart(i) ==
  /\ tpc[i] \in {"link", "add", "send", "closing", "finish"} => threadIds[i] = -1
  /\ tpc[i] = "wait" => threadIds[i] # 2
  /\ tpc[i] = "wait" /\ threadIds[i] = 1 => fin[i] /\ ~edge[i]
  /\ tpc[i] = "done" => threadIds[i] = 2
  /\ tpc[i] = "take" /\ threadIds[i] # -1 => mpc \in {"sleep", "dead"} /\ paramId = i
  /\ tpc[i] \in {"finish", "done"} => curPos = NumFiles

\* The socket of a thread: nothing comes behind the FIN, which comes behind all.
SocketPart(i) ==
  /\ edge[i] => tpc[i] \in {"send", "wait"}
  /\ tpc[i] \in {"add", "send"} => left[i] > 0 /\ ~fin[i]
  /\ tpc[i] \in {"send", "wait"} /\ fin[i] => up[i] = 0
  /\ tpc[i] = "closing" => fin[i]

\* An event in ev[]: its thread is in the session the event is about and cannot
\* leave it, and behind one that carries the FIN no other will come.
EventPart(e) ==
  /\ tpc[e.t] \in {"send", "wait"} /\ item[e.t] = e.item
  /\ threadIds[e.t] # 1
  /\ e.in \/ e.hup
  /\ e.hup => tpc[e.t] = "wait" /\ fin[e.t] /\ ~edge[e.t]

\* The inductive invariant.
IInv ==
  /\ TypeOK
  /\ MainPart
  /\ \A i \in Threads : StartPart(i) /\ FlagPart(i) /\ SocketPart(i)
  /\ \A e \in evs : EventPart(e)
  /\ \A e, f \in evs : e.t = f.t => e = f

-----------------------------------------------------------------------------
\* No thread exists and nothing has been reported when main starts.
LEMMA InitIInv == Init => IInv
<1> SUFFICES ASSUME Init PROVE IInv
  OBVIOUS
<1>1. TypeOK
  BY DEF Init, TypeOK, Threads, NoItem
<1>2. MainPart
  BY DEF Init, MainPart
<1>3. \A i \in Threads : StartPart(i) /\ FlagPart(i) /\ SocketPart(i)
  BY DEF Init, StartPart, FlagPart, SocketPart, Threads
<1>4. QED
  BY <1>1, <1>2, <1>3 DEF IInv, Init

\* The thread that main waits for reads its own number.
LEMMA ReadIdIInv == ASSUME IInv, NEW i \in Threads, Running, ReadId(i) PROVE IInv'
<1> USE DEF IInv, ReadId, mainVars, sockVars, Running
<1>1. TypeOK'
  BY DEF TypeOK
<1>2. MainPart'
  BY DEF MainPart, TypeOK
<1>3. ASSUME NEW j \in Threads PROVE StartPart(j)'
  BY DEF StartPart, TypeOK
<1>4. ASSUME NEW j \in Threads PROVE FlagPart(j)'
  BY DEF FlagPart, StartPart, SocketPart, TypeOK
<1>5. ASSUME NEW j \in Threads PROVE SocketPart(j)'
  BY DEF SocketPart, FlagPart, StartPart, TypeOK
<1>6. ASSUME NEW e \in evs' PROVE EventPart(e)'
  <2>1. e \in evs /\ e.t \in Threads /\ EventPart(e) /\ FlagPart(e.t) /\ SocketPart(e.t)
    BY DEF TypeOK, Events
  <2>2. QED
    BY <2>1 DEF EventPart, StartPart, SocketPart, FlagPart, TypeOK
<1>7. QED
  BY <1>1, <1>2, <1>3, <1>4, <1>5, <1>6

\* Whatever the flag was, it says nothing behind the first lock of a file.
LEMMA TakeIInv == ASSUME IInv, NEW i \in Threads, Running, Take(i) PROVE IInv'
<1> USE DEF IInv, Take, mainVars, sockVars, Running, NoItem
<1>1. TypeOK'
  BY DEF TypeOK
<1>2. MainPart'
  BY DEF MainPart, TypeOK
<1>3. ASSUME NEW j \in Threads PROVE StartPart(j)'
  BY DEF StartPart, TypeOK
<1>4. ASSUME NEW j \in Threads PROVE FlagPart(j)'
  BY DEF FlagPart, StartPart, SocketPart, TypeOK
<1>5. ASSUME NEW j \in Threads PROVE SocketPart(j)'
  BY DEF SocketPart, FlagPart, StartPart, TypeOK
<1>6. ASSUME NEW e \in evs' PROVE EventPart(e)'
  <2>1. e \in evs /\ e.t \in Threads /\ EventPart(e) /\ FlagPart(e.t) /\ SocketPart(e.t)
    BY DEF TypeOK, Events
  <2>2. QED
    BY <2>1 DEF EventPart, StartPart, SocketPart, FlagPart, TypeOK
<1>7. QED
  BY <1>1, <1>2, <1>3, <1>4, <1>5, <1>6

\* A new socket has neither data nor FIN.
LEMMA LinkIInv == ASSUME IInv, NEW i \in Threads, Running, Link(i) PROVE IInv'
<1> USE DEF IInv, Link, mainVars, sockVars, Running
<1>1. TypeOK'
  BY DEF TypeOK
<1>2. MainPart'
  BY DEF MainPart, TypeOK
<1>3. ASSUME NEW j \in Threads PROVE StartPart(j)'
  BY DEF StartPart, TypeOK
<1>4. ASSUME NEW j \in Threads PROVE FlagPart(j)'
  BY DEF FlagPart, StartPart, SocketPart, TypeOK
<1>5. ASSUME NEW j \in Threads PROVE SocketPart(j)'
  BY DEF SocketPart, FlagPart, StartPart, TypeOK
<1>6. ASSUME NEW e \in evs' PROVE EventPart(e)'
  <2>1. e \in evs /\ e.t \in Threads /\ EventPart(e) /\ FlagPart(e.t) /\ SocketPart(e.t)
    BY DEF TypeOK, Events
  <2>2. QED
    BY <2>1 DEF EventPart, StartPart, SocketPart, FlagPart, TypeOK
<1>7. QED
  BY <1>1, <1>2, <1>3, <1>4, <1>5, <1>6

\* Nothing can have come before the first frame was sent.
LEMMA AddIInv == ASSUME IInv, NEW i \in Threads, Running, Add(i) PROVE IInv'
<1> USE DEF IInv, Add, mainVars, sockVars, Running, Readable
<1>1. TypeOK'
  BY DEF TypeOK
<1>2. MainPart'
  BY DEF MainPart, TypeOK
<1>3. ASSUME NEW j \in Threads PROVE StartPart(j)'
  BY DEF StartPart, TypeOK
<1>4. ASSUME NEW j \in Threads PROVE FlagPart(j)'
  BY DEF FlagPart, StartPart, SocketPart, TypeOK
<1>5. ASSUME NEW j \in Threads PROVE SocketPart(j)'
  BY DEF SocketPart, FlagPart, StartPart, TypeOK
<1>6. ASSUME NEW e \in evs' PROVE EventPart(e)'
  <2>1. e \in evs /\ e.t \in Threads /\ EventPart(e) /\ FlagPart(e.t) /\ SocketPart(e.t)
    BY DEF TypeOK, Events
  <2>2. QED
    BY <2>1 DEF EventPart, StartPart, SocketPart, FlagPart, TypeOK
<1>7. QED
  BY <1>1, <1>2, <1>3, <1>4, <1>5, <1>6

\* A frame goes out; the thread waits behind the last.
LEMMA SendIInv == ASSUME IInv, NEW i \in Threads, Running, Send(i) PROVE IInv'
<1> USE DEF IInv, Send, mainVars, sockVars, Running
<1>1. TypeOK'
  BY DEF TypeOK, SocketPart
<1>2. MainPart'
  BY DEF MainPart, TypeOK
<1>3. ASSUME NEW j \in Threads PROVE StartPart(j)'
  BY DEF StartPart, TypeOK
<1>4. ASSUME NEW j \in Threads PROVE FlagPart(j)'
  BY DEF FlagPart, StartPart, SocketPart, TypeOK
<1>5. ASSUME NEW j \in Threads PROVE SocketPart(j)'
  BY DEF SocketPart, FlagPart, StartPart, TypeOK
<1>6. ASSUME NEW e \in evs' PROVE EventPart(e)'
  <2>1. e \in evs /\ e.t \in Threads /\ EventPart(e) /\ FlagPart(e.t) /\ SocketPart(e.t)
    BY DEF TypeOK, Events
  <2>2. QED
    BY <2>1 DEF EventPart, StartPart, SocketPart, FlagPart, TypeOK
<1>7. QED
  BY <1>1, <1>2, <1>3, <1>4, <1>5, <1>6

\* The flag lets the thread out only behind the FIN, and is cleared at once.
LEMMA WaitIInv == ASSUME IInv, NEW i \in Threads, Running, Wait(i) PROVE IInv'
<1> USE DEF IInv, Wait, mainVars, sockVars, Running
<1>1. TypeOK'
  BY DEF TypeOK
<1>2. MainPart'
  BY DEF MainPart, TypeOK
<1>3. ASSUME NEW j \in Threads PROVE StartPart(j)'
  BY DEF StartPart, TypeOK
<1>4. ASSUME NEW j \in Threads PROVE FlagPart(j)'
  BY DEF FlagPart, StartPart, SocketPart, TypeOK
<1>5. ASSUME NEW j \in Threads PROVE SocketPart(j)'
  BY DEF SocketPart, FlagPart, StartPart, TypeOK
<1>6. ASSUME NEW e \in evs' PROVE EventPart(e)'
  <2>1. e \in evs /\ e.t \in Threads /\ EventPart(e) /\ FlagPart(e.t) /\ SocketPart(e.t)
    BY DEF TypeOK, Events
  <2>2. QED
    BY <2>1 DEF EventPart, StartPart, SocketPart, FlagPart, TypeOK
<1>7. QED
  BY <1>1, <1>2, <1>3, <1>4, <1>5, <1>6

\* The session ends with its flag cleared and no event about it left.
LEMMA CloseIInv == ASSUME IInv, NEW i \in Threads, Running, Close(i) PROVE IInv'
<1> USE DEF IInv, Close, mainVars, sockVars, Running
<1>1. TypeOK'
  BY DEF TypeOK
<1>2. MainPart'
  BY DEF MainPart, TypeOK
<1>3. ASSUME NEW j \in Threads PROVE StartPart(j)'
  BY DEF StartPart, TypeOK
<1>4. ASSUME NEW j \in Threads PROVE FlagPart(j)'
  BY DEF FlagPart, StartPart, SocketPart, TypeOK
<1>5. ASSUME NEW j \in Threads PROVE SocketPart(j)'
  BY DEF SocketPart, FlagPart, StartPart, TypeOK
<1>6. ASSUME NEW e \in evs' PROVE EventPart(e)'
  <2>1. e \in evs /\ e.t \in Threads /\ EventPart(e) /\ FlagPart(e.t) /\ SocketPart(e.t)
    BY DEF TypeOK, Events
  <2>2. QED
    BY <2>1 DEF EventPart, StartPart, SocketPart, FlagPart, TypeOK
<1>7. QED
  BY <1>1, <1>2, <1>3, <1>4, <1>5, <1>6

\* The last store of a thread, which nobody else writes over.
LEMMA FinishIInv == ASSUME IInv, NEW i \in Threads, Running, Finish(i) PROVE IInv'
<1> USE DEF IInv, Finish, mainVars, sockVars, Running
<1>1. TypeOK'
  BY DEF TypeOK
<1>2. MainPart'
  BY DEF MainPart, TypeOK
<1>3. ASSUME NEW j \in Threads PROVE StartPart(j)'
  BY DEF StartPart, TypeOK
<1>4. ASSUME NEW j \in Threads PROVE FlagPart(j)'
  BY DEF FlagPart, StartPart, SocketPart, TypeOK
<1>5. ASSUME NEW j \in Threads PROVE SocketPart(j)'
  BY DEF SocketPart, FlagPart, StartPart, TypeOK
<1>6. ASSUME NEW e \in evs' PROVE EventPart(e)'
  <2>1. e \in evs /\ e.t \in Threads /\ EventPart(e) /\ FlagPart(e.t) /\ SocketPart(e.t)
    BY DEF TypeOK, Events
  <2>2. QED
    BY <2>1 DEF EventPart, StartPart, SocketPart, FlagPart, TypeOK
<1>7. QED
  BY <1>1, <1>2, <1>3, <1>4, <1>5, <1>6

\* A wakeup without a cause changes nothing that matters.
LEMMA SpuriousWakeupIInv == ASSUME IInv, NEW i \in Threads, Running, SpuriousWakeup(i) PROVE IInv'
<1> USE DEF IInv, SpuriousWakeup, mainVars, sockVars, Running
<1>1. TypeOK'
  BY DEF TypeOK
<1>2. MainPart'
  BY DEF MainPart, TypeOK
<1>3. ASSUME NEW j \in Threads PROVE StartPart(j)'
  BY DEF StartPart, TypeOK
<1>4. ASSUME NEW j \in Threads PROVE FlagPart(j)'
  BY DEF FlagPart, StartPart, SocketPart, TypeOK
<1>5. ASSUME NEW j \in Threads PROVE SocketPart(j)'
  BY DEF SocketPart, FlagPart, StartPart, TypeOK
<1>6. ASSUME NEW e \in evs' PROVE EventPart(e)'
  <2>1. e \in evs /\ e.t \in Threads /\ EventPart(e) /\ FlagPart(e.t) /\ SocketPart(e.t)
    BY DEF TypeOK, Events
  <2>2. QED
    BY <2>1 DEF EventPart, StartPart, SocketPart, FlagPart, TypeOK
<1>7. QED
  BY <1>1, <1>2, <1>3, <1>4, <1>5, <1>6

\* A result comes only before the FIN.
LEMMA ServerResultIInv == ASSUME IInv, NEW i \in Threads, Running, ServerResult(i) PROVE IInv'
<1> USE DEF IInv, ServerResult, mainVars, sockVars, Running
<1>1. TypeOK'
  BY DEF TypeOK
<1>2. MainPart'
  BY DEF MainPart, TypeOK
<1>3. ASSUME NEW j \in Threads PROVE StartPart(j)'
  BY DEF StartPart, TypeOK
<1>4. ASSUME NEW j \in Threads PROVE FlagPart(j)'
  BY DEF FlagPart, StartPart, SocketPart, TypeOK
<1>5. ASSUME NEW j \in Threads PROVE SocketPart(j)'
  BY DEF SocketPart, FlagPart, StartPart, TypeOK
<1>6. ASSUME NEW e \in evs' PROVE EventPart(e)'
  <2>1. e \in evs /\ e.t \in Threads /\ EventPart(e) /\ FlagPart(e.t) /\ SocketPart(e.t)
    BY DEF TypeOK, Events
  <2>2. QED
    BY <2>1 DEF EventPart, StartPart, SocketPart, FlagPart, TypeOK
<1>7. QED
  BY <1>1, <1>2, <1>3, <1>4, <1>5, <1>6

\* The FIN comes once.
LEMMA ServerClosesIInv == ASSUME IInv, NEW i \in Threads, Running, ServerCloses(i) PROVE IInv'
<1> USE DEF IInv, ServerCloses, mainVars, sockVars, Running
<1>1. TypeOK'
  BY DEF TypeOK
<1>2. MainPart'
  BY DEF MainPart, TypeOK
<1>3. ASSUME NEW j \in Threads PROVE StartPart(j)'
  BY DEF StartPart, TypeOK
<1>4. ASSUME NEW j \in Threads PROVE FlagPart(j)'
  BY DEF FlagPart, StartPart, SocketPart, TypeOK
<1>5. ASSUME NEW j \in Threads PROVE SocketPart(j)'
  BY DEF SocketPart, FlagPart, StartPart, TypeOK
<1>6. ASSUME NEW e \in evs' PROVE EventPart(e)'
  <2>1. e \in evs /\ e.t \in Threads /\ EventPart(e) /\ FlagPart(e.t) /\ SocketPart(e.t)
    BY DEF TypeOK, Events
  <2>2. QED
    BY <2>1 DEF EventPart, StartPart, SocketPart, FlagPart, TypeOK
<1>7. QED
  BY <1>1, <1>2, <1>3, <1>4, <1>5, <1>6

\* param is written while every thread created so far has read it.
LEMMA CreateIInv == ASSUME IInv, Create PROVE IInv'
<1> USE DEF IInv, Create, sockVars
<1>0. created \in Threads /\ created + 1 \in 0 .. NumThreads /\ NumThreads \in Nat
  BY DEF TypeOK, MainPart, Threads
<1>1. TypeOK'
  BY <1>0 DEF TypeOK
<1>2. MainPart'
  BY <1>0 DEF MainPart, TypeOK
<1>3. ASSUME NEW j \in Threads PROVE StartPart(j)'
  <2>1. j \in Int /\ (j >= created + 1 <=> j >= created /\ j # created)
    BY <1>0 DEF Threads
  <2>2. tpc[created] = "none"
    BY <1>0 DEF StartPart, Threads
  <2>3. QED
    BY <1>0, <2>1, <2>2 DEF StartPart, MainPart, TypeOK
<1>4. ASSUME NEW j \in Threads PROVE FlagPart(j)'
  BY DEF FlagPart, StartPart, MainPart, TypeOK
<1>5. ASSUME NEW j \in Threads PROVE SocketPart(j)'
  BY DEF SocketPart, StartPart, TypeOK
<1>6. ASSUME NEW e \in evs' PROVE EventPart(e)'
  BY DEF EventPart, MainPart
<1>7. QED
  BY <1>1, <1>2, <1>3, <1>4, <1>5, <1>6

\* The thread is past its first lock, and has cleared its flag, when main goes on.
LEMMA SleepIInv == ASSUME IInv, SleepSuffices, Sleep PROVE IInv'
<1> USE DEF IInv, Sleep, sockVars
<1>1. TypeOK'
  BY DEF TypeOK
<1>2. MainPart'
  BY DEF MainPart, TypeOK
<1>3. ASSUME NEW j \in Threads PROVE StartPart(j)'
  BY DEF StartPart, MainPart, TypeOK, Threads
<1>4. ASSUME NEW j \in Threads PROVE FlagPart(j)'
  BY DEF FlagPart, StartPart, MainPart, TypeOK
<1>5. ASSUME NEW j \in Threads PROVE SocketPart(j)'
  BY DEF SocketPart, StartPart, TypeOK
<1>6. ASSUME NEW e \in evs' PROVE EventPart(e)'
  BY DEF EventPart, MainPart
<1>7. QED
  BY <1>1, <1>2, <1>3, <1>4, <1>5, <1>6

\* With the last flag at 2 the last thread has finished.
LEMMA EpollTimeoutIInv == ASSUME IInv, EpollTimeout PROVE IInv'
<1> USE DEF IInv, EpollTimeout, sockVars
<1>1. TypeOK'
  BY DEF TypeOK
<1>2. MainPart'
  <2>1. ASSUME NEW j \in Threads, threadIds[j] = 2 PROVE tpc[j] = "done"
    <3>1. created = NumThreads /\ j < NumThreads
      BY DEF MainPart, Threads
    <3>2. tpc[j] \notin {"none", "born", "take"}
      BY <2>1, <3>1 DEF StartPart, FlagPart, Threads, TypeOK
    <3>3. QED
      BY <2>1, <3>2 DEF FlagPart, TypeOK
  <2>2. QED
    BY <2>1 DEF MainPart, TypeOK
<1>3. ASSUME NEW j \in Threads PROVE StartPart(j)'
  BY DEF StartPart, MainPart, TypeOK, Threads
<1>4. ASSUME NEW j \in Threads PROVE FlagPart(j)'
  BY DEF FlagPart, StartPart, MainPart, TypeOK
<1>5. ASSUME NEW j \in Threads PROVE SocketPart(j)'
  BY DEF SocketPart, StartPart, TypeOK
<1>6. ASSUME NEW e \in evs' PROVE EventPart(e)'
  BY DEF EventPart, MainPart
<1>7. QED
  BY <1>1, <1>2, <1>3, <1>4, <1>5, <1>6

\* Each ready socket is reported once, with the FIN if it is there, and leaves
\* the ready list.
LEMMA EpollWaitIInv == ASSUME IInv, EpollWait PROVE IInv'
<1> USE DEF IInv, EpollWait
<1>1. ASSUME NEW e \in evs'
      PROVE  /\ e \in Events /\ e.in /\ e.t \in Ready
             /\ e.item = item[e.t] /\ e.hup = fin[e.t]
             /\ e = [t |-> e.t, item |-> item[e.t], in |-> TRUE, hup |-> fin[e.t]]
  <2>1. PICK i \in Ready : e = [t |-> i, item |-> item[i], in |-> TRUE, hup |-> fin[i]]
    OBVIOUS
  <2>2. i \in Threads /\ item[i] \in 0 .. NumFiles /\ fin[i] \in BOOLEAN
    BY DEF TypeOK, Ready
  <2>3. e.t = i /\ e.item = item[i] /\ e.in = TRUE /\ e.hup = fin[i]
    BY <2>1
  <2>4. QED
    BY <2>1, <2>2, <2>3 DEF Events
<1>2. TypeOK'
  BY <1>1 DEF TypeOK
<1>3. MainPart'
  BY DEF MainPart
<1>4. ASSUME NEW j \in Threads PROVE StartPart(j)' /\ FlagPart(j)' /\ SocketPart(j)'
  BY DEF StartPart, FlagPart, SocketPart, TypeOK
<1>5. ASSUME NEW e \in evs' PROVE EventPart(e)'
  <2>1. e.t \in Threads /\ edge[e.t] /\ FlagPart(e.t) /\ SocketPart(e.t)
    BY <1>1 DEF Ready
  <2>2. QED
    BY <1>1, <2>1 DEF EventPart, FlagPart, SocketPart, TypeOK
<1>6. ASSUME NEW e \in evs', NEW f \in evs', e.t = f.t PROVE e = f
  <2>1. e = [t |-> e.t, item |-> item[e.t], in |-> TRUE, hup |-> fin[e.t]]
    BY <1>1
  <2>2. f = [t |-> f.t, item |-> item[f.t], in |-> TRUE, hup |-> fin[f.t]]
    BY <1>1
  <2>3. QED
    BY <1>6, <2>1, <2>2, Zenon
<1>7. QED
  BY <1>2, <1>3, <1>4, <1>5, <1>6

\* main reads from the socket of the session; the event stays if it has the FIN.
LEMMA HandleInIInv == ASSUME IInv, NEW e \in evs, HandleIn(e) PROVE IInv'
<1> USE DEF IInv, HandleIn
<1> DEFINE rest == [e EXCEPT !.in = FALSE]
<1>1. e \in Events /\ EventPart(e)
  BY DEF TypeOK
<1>2. rest \in Events /\ rest.t = e.t /\ rest.item = e.item /\ rest.hup = e.hup
  BY <1>1 DEF Events
<1>3. \A f \in evs' : (f \in evs /\ f # e) \/ (f = rest /\ e.hup)
  OBVIOUS
<1> HIDE DEF rest
<1>4. TypeOK'
  <2>1. evs' \subseteq Events
    BY <1>2, <1>3 DEF TypeOK
  <2>2. data' \in [Threads -> 0 .. Window]
    <3>1. PICK n \in 0 .. data[e.t] : data' = [data EXCEPT ![e.t] = @ - n]
      OBVIOUS
    <3>2. e.t \in Threads /\ data[e.t] \in 0 .. Window
      BY <1>1 DEF Events, TypeOK
    <3>3. data[e.t] - n \in 0 .. Window
      BY <3>2
    <3>4. QED
      BY <3>1, <3>3 DEF TypeOK
  <2>3. QED
    BY <2>1, <2>2 DEF TypeOK
<1>5. MainPart'
  BY DEF MainPart
<1>6. ASSUME NEW j \in Threads PROVE StartPart(j)' /\ FlagPart(j)' /\ SocketPart(j)'
  BY DEF StartPart, FlagPart, SocketPart
<1>7. ASSUME NEW f \in evs' PROVE EventPart(f)'
  BY <1>1, <1>2, <1>3 DEF EventPart
<1>8. \A f, g \in evs' : f.t = g.t => f = g
  BY <1>2, <1>3
<1>9. QED
  BY <1>4, <1>5, <1>6, <1>7, <1>8

\* The flag is set for the session that has ended, of which no other event is left.
LEMMA HandleHupIInv == ASSUME IInv, NEW e \in evs, HandleHup(e) PROVE IInv'
<1> USE DEF IInv, HandleHup, sockVars
<1>1. e.t \in Threads /\ EventPart(e) /\ e.hup /\ tid[e.t] = e.t
  BY DEF TypeOK, Events, EventPart, StartPart
<1>2. tpc[e.t] = "wait" /\ fin[e.t] /\ ~edge[e.t]
  BY <1>1 DEF EventPart
<1>3. threadIds' = [threadIds EXCEPT ![e.t] = 1]
  BY <1>1
<1>4. TypeOK'
  BY DEF TypeOK
<1>5. MainPart'
  BY DEF MainPart
<1>6. ASSUME NEW j \in Threads PROVE StartPart(j)' /\ SocketPart(j)'
  BY DEF StartPart, SocketPart
<1>7. ASSUME NEW j \in Threads PROVE FlagPart(j)'
  BY <1>1, <1>2, <1>3 DEF FlagPart, TypeOK
<1>8. ASSUME NEW f \in evs' PROVE EventPart(f)'
  <2>1. f \in evs /\ f.t # e.t /\ f.t \in Threads
    BY DEF TypeOK, Events
  <2>2. QED
    BY <1>1, <1>3, <2>1 DEF EventPart, TypeOK
<1>9. QED
  BY <1>4, <1>5, <1>6, <1>7, <1>8

\* Steps that only move main on, or end the process.
LEMMA MoveIInv ==
  ASSUME IInv,
         \/ EndEvents \/ Join \/ CreateFails \/ EpollFails \/ Abandon
         \/ Running /\ \E i \in Threads : Exit(i)
  PROVE  IInv'
<1> USE DEF EndEvents, Join, CreateFails, EpollFails, Abandon, Exit, IInv
<1>1. UNCHANGED <<created, paramId, evs, threadIds, curPos, tpc, tid, item, asleep, sockVars>>
  OBVIOUS
<1>2. \/ mpc = "events" /\ evs = {} /\ mpc' = "loop"
      \/ mpc = "join" /\ mpc' = "exit"
      \/ mpc = "loop" /\ mpc' = "broken"
      \/ mpc' = "dead"
  OBVIOUS
<1>3. TypeOK'
  BY <1>1, <1>2 DEF TypeOK, sockVars
<1>4. MainPart'
  BY <1>1, <1>2 DEF MainPart
<1>5. ASSUME NEW j \in Threads PROVE StartPart(j)' /\ FlagPart(j)' /\ SocketPart(j)'
  <2>1. tpc[j] = "born" => mpc' = "dead" /\ paramId = j
    BY <1>2 DEF StartPart
  <2>2. tpc[j] = "take" /\ threadIds[j] # -1 => mpc' = "dead" /\ paramId = j
    BY <1>2 DEF FlagPart
  <2>3. QED
    BY <1>1, <2>1, <2>2 DEF StartPart, FlagPart, SocketPart, sockVars
<1>6. ASSUME NEW e \in evs' PROVE EventPart(e)'
  BY <1>1 DEF EventPart, sockVars
<1>7. QED
  BY <1>1, <1>3, <1>4, <1>5, <1>6

-----------------------------------------------------------------------------
\* Every step of the client keeps the invariant, if the sleep of main suffices.
LEMMA StepIInv == ASSUME SleepSuffices, IInv, [Next]_vars PROVE IInv'
<1>1. CASE Main
  BY <1>1, CreateIInv, SleepIInv, EpollWaitIInv, EpollTimeoutIInv, HandleInIInv,
     HandleHupIInv, MoveIInv DEF Main
<1>2. CASE CreateFails \/ EpollFails \/ Abandon
  BY <1>2, MoveIInv
<1>3. ASSUME NEW i \in Threads, SendThread(i) PROVE IInv'
  BY <1>3, ReadIdIInv, TakeIInv, LinkIInv, AddIInv, SendIInv, WaitIInv, CloseIInv,
     FinishIInv DEF SendThread
<1>4. ASSUME NEW i \in Threads, Running,
             Exit(i) \/ SpuriousWakeup(i) \/ ServerResult(i) \/ ServerCloses(i)
      PROVE  IInv'
  BY <1>4, MoveIInv, SpuriousWakeupIInv, ServerResultIInv, ServerClosesIInv
<1>5. CASE UNCHANGED vars
  BY <1>5 DEF vars, mainVars, sockVars, IInv, TypeOK, MainPart, StartPart, FlagPart,
     SocketPart, EventPart
<1>6. QED
  BY <1>1, <1>2, <1>3, <1>4, <1>5 DEF Next

\* The inductive invariant holds in every reachable state of a client whose
\* threads get past their first lock in the usleep behind pthread_create
\* (dog-client.cc:240-252).
THEOREM Invariance == ASSUME SleepSuffices PROVE Spec => []IInv
  BY InitIInv, StepIInv, PTL DEF Spec

\* No thread closes its socket before the server has closed the session
\* (dog-client.cc:159), however many threads and files there are.
THEOREM NeverClosesEarly == ASSUME SleepSuffices PROVE Spec => []NoEarlyClose
<1>1. IInv => NoEarlyClose
  BY DEF IInv, SocketPart, NoEarlyClose
<1>2. QED
  BY <1>1, Invariance, PTL

\* The pointer an event carries is followed only while the session it was
\* registered with goes on (dog-client.cc:273, 288).
THEOREM NeverFollowsStaleEvent == ASSUME SleepSuffices PROVE Spec => []NoStaleEvent
<1>1. IInv => NoStaleEvent
  BY DEF IInv, EventPart, NoStaleEvent
<1>2. QED
  BY <1>1, Invariance, PTL

\* On the timeout of epoll_wait main leaves its loop only behind the last session
\* of the last thread (dog-client.cc:257-266).  A failing epoll_wait, which ends
\* the loop at any time (dog-client.cc:254-256), leads elsewhere: to "broken".
THEOREM AlwaysEndsLast == ASSUME SleepSuffices PROVE Spec => []EndsLast
<1>1. IInv => EndsLast
  <2> SUFFICES ASSUME IInv, mpc \in {"join", "exit"}
               PROVE  curPos = NumFiles /\ \A i \in Threads : tpc[i] = "done"
    BY DEF IInv, EndsLast
  <2>1. \A i \in Threads : tpc[i] = "done"
    BY DEF IInv, MainPart
  <2>2. 0 \in Threads
    BY DEF Threads
  <2>3. QED
    BY <2>1, <2>2 DEF IInv, FlagPart
<1>2. QED
  BY <1>1, Invariance, PTL
=============================================================================
