---------------------------- MODULE ServerProofs ----------------------------
(* Theorems about Server, for any number of peers, workers and descriptors  *)
(* and with every fault of the model.                                       *)
EXTENDS Server, TLAPS, SequenceTheorems

\* The connection in handNewConn's hands is the only accepted one; a worker is
\* recorded for it exactly after the scan.
HandInv ==
  /\ mpc \in {"scan", "check"} <=> hand # NoConn
  /\ hand # NoConn => st[hand] = "accepted"
  /\ \A c \in Conns : st[c] = "accepted" => c = hand
  /\ mpc = "scan" => loopOf[hand] = None
  /\ mpc = "check" => loopOf[hand] \in Loops

\* What the state of a connection says about its descriptor and its worker.
LifeInv ==
  \A c \in Conns :
    /\ st[c] \in {"new", "backlog"} => fdOf[c] = None /\ loopOf[c] = None
    /\ st[c] \in {"accepted", "queued", "open", "shut"} => fdOf[c] \in Fds
    /\ st[c] \in {"queued", "open", "shut"} => loopOf[c] \in Loops

\* The backlog holds, once each, connections nobody accepted.
BacklogInv ==
  /\ \A k \in DOMAIN backlog : st[backlog[k]] = "backlog"
  /\ \A j, k \in DOMAIN backlog : backlog[j] = backlog[k] => j = k

\* A worker has at most one newEvent waiting, for the connection it was given.
PendInv ==
  \A l \in Loops :
    /\ Len(pend[l]) <= 1
    /\ pend[l] # <<>> =>
         st[Head(pend[l])] = "queued" /\ loopOf[Head(pend[l])] = l

\* The inductive invariant.
IInv ==
  /\ TypeOK
  /\ HandInv
  /\ LifeInv
  /\ BacklogInv
  /\ PendInv
  /\ FdsDistinct
  /\ IdleMeansFree
  /\ OneConnPerLoop
  /\ ChannelTable

USE NumThreadsAssumption, FdsAssumption, ConnsAssumption

\* Server::start establishes the invariant.
LEMMA InitIInv == Init => IInv
<1> SUFFICES ASSUME Init PROVE IInv
  OBVIOUS
<1> USE DEF Init
<1>1. TypeOK
  <2>1. <<>> \in Seq(Conns)
    BY EmptySeq
  <2>2. i \in Loops
    BY DEF Loops
  <2>3. QED
    BY <2>1, <2>2 DEF TypeOK, ConnStates
<1>2. HandInv /\ LifeInv /\ BacklogInv
  BY DEF HandInv, LifeInv, BacklogInv
<1>3. PendInv
  BY EmptySeq DEF PendInv
<1>4. FdsDistinct /\ IdleMeansFree /\ OneConnPerLoop /\ ChannelTable
  BY DEF FdsDistinct, IdleMeansFree, OneConnPerLoop, ChannelTable, OnLoop,
         Serving
<1>5. QED
  BY <1>1, <1>2, <1>3, <1>4 DEF IInv

\* A peer connects.
LEMMA ArriveIInv == ASSUME IInv, NEW c \in Conns, Arrive(c) PROVE IInv'
<1> USE DEF IInv, Arrive
<1>1. /\ backlog' \in Seq(Conns)
      /\ Len(backlog') = Len(backlog) + 1
      /\ Len(backlog) \in Nat
      /\ DOMAIN backlog = 1..Len(backlog)
      /\ DOMAIN backlog' = 1..(Len(backlog) + 1)
      /\ \A k \in 1..Len(backlog) : backlog'[k] = backlog[k]
      /\ backlog'[Len(backlog) + 1] = c
  BY AppendProperties, LenProperties DEF TypeOK
<1>2. TypeOK'
  BY <1>1 DEF TypeOK, ConnStates
<1>3. HandInv'
  BY DEF HandInv, TypeOK
<1>4. LifeInv'
  BY DEF LifeInv, TypeOK
<1>5. BacklogInv'
  <2>1. \A k \in DOMAIN backlog : backlog[k] # c /\ backlog[k] \in Conns
    BY <1>1 DEF BacklogInv, TypeOK
  <2>2. QED
    BY <1>1, <2>1 DEF BacklogInv, TypeOK
<1>6. PendInv'
  <2>1. ASSUME NEW l \in Loops, pend[l] # <<>> PROVE Head(pend[l]) \in Conns
    BY <2>1, HeadTailProperties DEF TypeOK
  <2>2. QED
    BY <2>1 DEF PendInv, TypeOK
<1>7. FdsDistinct' /\ IdleMeansFree' /\ OneConnPerLoop' /\ ChannelTable'
  BY DEF FdsDistinct, IdleMeansFree, OneConnPerLoop, ChannelTable, OnLoop,
         Serving, TypeOK
<1>8. QED
  BY <1>2, <1>3, <1>4, <1>5, <1>6, <1>7

\* The steps of the main thread that touch no connection.
LEMMA QuietIInv ==
  ASSUME IInv,
         \/ AcceptEvent \/ AcceptFails \/ ScanBusy \/ Rearm \/ Disarm
         \/ UNCHANGED vars
  PROVE  IInv'
<1> USE DEF IInv
<1>1. /\ UNCHANGED <<backlog, hand, idle, pend, fd2chan, st, fdOf, loopOf>>
      /\ mpc' \in {"scan", "check"} <=> mpc \in {"scan", "check"}
      /\ mpc' \in {"scan", "check"} => mpc' = mpc
  BY DEF AcceptEvent, AcceptFails, ScanBusy, Rearm, Disarm, vars, connVars
<1>2. i' \in Loops
  <2>1. (i + 1) % NumThreads \in 0..(NumThreads - 1)
    BY DEF TypeOK, Loops
  <2>2. QED
    BY <2>1 DEF AcceptEvent, AcceptFails, ScanBusy, Rearm, Disarm, vars,
                TypeOK, Loops
<1>3. TypeOK'
  BY <1>1, <1>2
  DEF AcceptEvent, AcceptFails, ScanBusy, Rearm, Disarm, vars, TypeOK
<1>4. HandInv'
  BY <1>1 DEF HandInv
<1>5. LifeInv' /\ BacklogInv' /\ PendInv' /\ FdsDistinct' /\ ChannelTable'
  BY <1>1 DEF LifeInv, BacklogInv, PendInv, FdsDistinct, ChannelTable
<1>6. IdleMeansFree' /\ OneConnPerLoop'
  BY <1>1 DEF IdleMeansFree, OneConnPerLoop, OnLoop
<1>7. QED
  BY <1>3, <1>4, <1>5, <1>6

\* handNewConn accepts a connection.
LEMMA AcceptIInv == ASSUME IInv, Accept PROVE IInv'
<1> USE DEF IInv
<1> DEFINE c == Head(backlog)
<1>1. /\ c \in Conns
      /\ Len(backlog) \in Nat \ {0}
      /\ c = backlog[1]
      /\ backlog' \in Seq(Conns)
      /\ DOMAIN backlog = 1..Len(backlog)
      /\ DOMAIN backlog' = 1..(Len(backlog) - 1)
      /\ \A k \in 1..(Len(backlog) - 1) : backlog'[k] = backlog[k + 1]
  BY HeadTailProperties, LenProperties, EmptySeq DEF Accept, TypeOK
<1>2. /\ st[c] = "backlog" /\ fdOf[c] = None /\ loopOf[c] = None
      /\ hand = NoConn
  BY <1>1 DEF BacklogInv, LifeInv, HandInv, Accept
<1>3. PICK f \in FreeFds : fdOf' = [fdOf EXCEPT ![c] = f]
  BY DEF Accept
<1>4. f \in Fds /\ \A d \in Conns : fdOf[d] # f
  BY DEF FreeFds
<1>5. TypeOK'
  <2>1. 0 \in Loops
    BY DEF Loops
  <2>2. QED
    BY <1>1, <1>3, <1>4, <2>1 DEF TypeOK, Accept, ConnStates
<1>6. HandInv'
  BY <1>1, <1>2 DEF HandInv, Accept, TypeOK
<1>7. LifeInv'
  BY <1>1, <1>2, <1>3, <1>4 DEF LifeInv, Accept, TypeOK
<1>8. BacklogInv'
  <2>1. ASSUME NEW k \in DOMAIN backlog'
        PROVE  /\ k + 1 \in DOMAIN backlog
               /\ backlog'[k] = backlog[k + 1]
               /\ backlog[k + 1] # c
               /\ backlog[k + 1] \in Conns
    <3>1. k \in 1..(Len(backlog) - 1)
      BY <1>1
    <3>2. k + 1 \in 1..Len(backlog) /\ 1 \in 1..Len(backlog) /\ k + 1 # 1
      BY <1>1, <3>1
    <3>3. backlog[k + 1] \in Conns
      BY <3>2, ElementOfSeq DEF TypeOK
    <3>4. backlog[k + 1] # backlog[1]
      BY <1>1, <3>2 DEF BacklogInv
    <3>5. QED
      BY <1>1, <3>1, <3>2, <3>3, <3>4
  <2>2. \A k \in DOMAIN backlog' : st'[backlog'[k]] = "backlog"
    <3> TAKE k \in DOMAIN backlog'
    <3>1. st[backlog[k + 1]] = "backlog"
      BY <2>1 DEF BacklogInv
    <3>2. QED
      BY <1>1, <2>1, <3>1 DEF Accept, TypeOK
  <2>3. \A j, k \in DOMAIN backlog' : backlog'[j] = backlog'[k] => j = k
    <3> TAKE j, k \in DOMAIN backlog'
    <3>1. backlog'[j] = backlog'[k] => j + 1 = k + 1
      BY <2>1 DEF BacklogInv
    <3>2. QED
      BY <1>1, <3>1
  <2>4. QED
    BY <2>2, <2>3 DEF BacklogInv
<1>9. PendInv'
  <2>1. ASSUME NEW l \in Loops, pend[l] # <<>> PROVE Head(pend[l]) \in Conns
    BY <2>1, HeadTailProperties DEF TypeOK
  <2>2. QED
    BY <1>1, <1>2, <2>1 DEF PendInv, TypeOK, Accept
<1>10. FdsDistinct'
  BY <1>1, <1>3, <1>4 DEF FdsDistinct, TypeOK
<1>11. IdleMeansFree' /\ OneConnPerLoop'
  <2>1. \A l \in Loops : OnLoop(l)' = OnLoop(l)
    BY <1>1, <1>2 DEF OnLoop, Serving, Accept, TypeOK, Loops, None
  <2>2. QED
    BY <2>1 DEF IdleMeansFree, OneConnPerLoop, Accept
<1>12. ChannelTable'
  BY <1>1, <1>2, <1>3, <1>4 DEF ChannelTable, Accept, TypeOK, Loops
<1>13. QED
  BY <1>5, <1>6, <1>7, <1>8, <1>9, <1>10, <1>11, <1>12

\* getNextLoop returns an idle worker and handNewConn marks it busy.
LEMMA ScanFoundIInv == ASSUME IInv, ScanFound PROVE IInv'
<1> USE DEF IInv, ScanFound
<1>1. hand \in Conns /\ st[hand] = "accepted" /\ i \in Loops /\ OnLoop(i) = {}
  BY DEF HandInv, TypeOK, IdleMeansFree
<1>2. TypeOK' /\ HandInv' /\ LifeInv'
  BY <1>1 DEF TypeOK, HandInv, LifeInv
<1>3. BacklogInv' /\ FdsDistinct'
  BY DEF BacklogInv, FdsDistinct
<1>4. PendInv'
  <2>1. ASSUME NEW l \in Loops, pend[l] # <<>>
        PROVE  Head(pend[l]) \in Conns /\ st[Head(pend[l])] = "queued"
    BY <2>1, HeadTailProperties DEF TypeOK, PendInv
  <2>2. QED
    BY <1>1, <2>1 DEF PendInv, TypeOK
<1>5. IdleMeansFree' /\ OneConnPerLoop'
  <2>1. OnLoop(i)' = {hand}
    BY <1>1 DEF OnLoop, TypeOK, Serving
  <2>2. \A l \in Loops : l # i => OnLoop(l)' \subseteq OnLoop(l)
    BY <1>1 DEF OnLoop, TypeOK
  <2>3. \A l \in Loops : idle'[l] => l # i /\ idle[l]
    BY <1>1 DEF TypeOK
  <2>4. IdleMeansFree'
    BY <2>2, <2>3 DEF IdleMeansFree
  <2>5. OneConnPerLoop'
    BY <2>1, <2>2 DEF OneConnPerLoop
  <2>6. QED
    BY <2>4, <2>5
<1>6. ChannelTable'
  BY <1>1 DEF ChannelTable, TypeOK
<1>7. QED
  BY <1>2, <1>3, <1>4, <1>5, <1>6

\* The two error paths of handNewConn.
LEMMA AcceptErrorIInv == ASSUME IInv, Refuse \/ Leak PROVE IInv'
<1> USE DEF IInv, Refuse, Leak
<1>1. hand \in Conns /\ st[hand] = "accepted"
  BY DEF HandInv, TypeOK
<1>2. TypeOK'
  BY <1>1 DEF TypeOK, ConnStates
<1>3. HandInv'
  BY <1>1 DEF HandInv, TypeOK
<1>3a. LifeInv'
  <2>1. CASE Refuse
    BY <1>1, <2>1 DEF LifeInv, TypeOK
  <2>2. CASE Leak
    BY <1>1, <2>2 DEF LifeInv, TypeOK
  <2>3. QED
    BY <2>1, <2>2
<1>4. BacklogInv'
  <2>1. \A k \in DOMAIN backlog : backlog[k] \in Conns
    BY ElementOfSeq, LenProperties DEF TypeOK
  <2>2. QED
    BY <1>1, <2>1 DEF BacklogInv, TypeOK
<1>5. PendInv'
  <2>1. ASSUME NEW l \in Loops, pend[l] # <<>>
        PROVE  Head(pend[l]) \in Conns /\ st[Head(pend[l])] = "queued"
    BY <2>1, HeadTailProperties DEF TypeOK, PendInv
  <2>2. QED
    BY <1>1, <2>1 DEF PendInv, TypeOK
<1>6. FdsDistinct'
  <2>1. CASE Refuse
    BY <1>1, <2>1 DEF FdsDistinct, TypeOK
  <2>2. CASE Leak
    BY <2>2 DEF FdsDistinct
  <2>3. QED
    BY <2>1, <2>2
<1>7. IdleMeansFree' /\ OneConnPerLoop'
  <2>1. \A l \in Loops : OnLoop(l)' \subseteq OnLoop(l)
    BY <1>1 DEF OnLoop, Serving, TypeOK
  <2>2. QED
    BY <2>1 DEF IdleMeansFree, OneConnPerLoop, TypeOK
<1>8. ChannelTable'
  BY <1>1 DEF ChannelTable, TypeOK
<1>9. QED
  BY <1>2, <1>3, <1>3a, <1>4, <1>5, <1>6, <1>7, <1>8

\* handNewConn queues newEvent in the worker.
LEMMA DispatchIInv == ASSUME IInv, Dispatch PROVE IInv'
<1> USE DEF IInv, Dispatch
<1> DEFINE l == loopOf[hand]
<1>1. hand \in Conns /\ st[hand] = "accepted" /\ l \in Loops /\ hand \in OnLoop(l)
  BY DEF HandInv, TypeOK, OnLoop
<1>2. ASSUME NEW m \in Loops, pend[m] # <<>>
      PROVE  Head(pend[m]) \in Conns /\ st[Head(pend[m])] = "queued"
  BY <1>2, HeadTailProperties DEF TypeOK, PendInv
<1>3. pend[l] = <<>>
  <2> SUFFICES ASSUME pend[l] # <<>> PROVE FALSE
    OBVIOUS
  <2>1. Head(pend[l]) \in OnLoop(l)
    BY <1>1, <1>2 DEF PendInv, OnLoop, Serving
  <2>2. QED
    BY <1>1, <1>2, <2>1 DEF OneConnPerLoop
<1>4. /\ pend'[l] = <<hand>> /\ pend'[l] \in Seq(Conns)
      /\ \A m \in Loops : m # l => pend'[m] = pend[m]
  BY <1>1, <1>3 DEF TypeOK
<1>5. TypeOK'
  BY <1>1, <1>4 DEF TypeOK, ConnStates
<1>6. HandInv' /\ LifeInv'
  BY <1>1 DEF HandInv, LifeInv, TypeOK
<1>7. BacklogInv'
  <2>1. \A k \in DOMAIN backlog : backlog[k] \in Conns
    BY ElementOfSeq, LenProperties DEF TypeOK
  <2>2. QED
    BY <1>1, <2>1 DEF BacklogInv, TypeOK
<1>8. PendInv'
  <2>1. ASSUME NEW m \in Loops, m # l
        PROVE  /\ Len(pend'[m]) <= 1
               /\ pend'[m] # <<>> => /\ st'[Head(pend'[m])] = "queued"
                                     /\ loopOf'[Head(pend'[m])] = m
    BY <1>1, <1>2, <1>4, <2>1 DEF PendInv, TypeOK
  <2>2. Len(pend'[l]) = 1 /\ Head(pend'[l]) = hand
    <3>1. Len(<<hand>>) = 1 /\ Head(<<hand>>) = hand
      OBVIOUS
    <3>2. QED
      BY <1>4, <3>1, Zenon
  <2>3. st'[hand] = "queued" /\ loopOf'[hand] = l
    BY <1>1 DEF TypeOK
  <2>4. QED
    BY <2>1, <2>2, <2>3 DEF PendInv
<1>9. IdleMeansFree' /\ OneConnPerLoop'
  <2>1. \A m \in Loops : OnLoop(m)' = OnLoop(m)
    BY <1>1 DEF OnLoop, Serving, TypeOK
  <2>2. QED
    BY <2>1 DEF IdleMeansFree, OneConnPerLoop
<1>10. FdsDistinct' /\ ChannelTable'
  BY <1>1 DEF FdsDistinct, ChannelTable, TypeOK
<1>11. QED
  BY <1>5, <1>6, <1>7, <1>8, <1>9, <1>10

\* A worker runs newEvent, whether or not epoll_add succeeds.
LEMMA WorkerIInv == ASSUME IInv, NEW l \in Loops, Worker(l) PROVE IInv'
<1> USE DEF IInv, mainVars
<1> DEFINE c == Head(pend[l])
<1>1. /\ c \in Conns /\ st[c] = "queued" /\ loopOf[c] = l /\ fdOf[c] \in Fds
      /\ pend[l] # <<>>
  BY HeadTailProperties
  DEF Worker, NewEvent, NewEventFails, TypeOK, PendInv, LifeInv
<1>2. PICK s \in {"open", "unwatched"} :
        /\ st' = [st EXCEPT ![c] = s]
        /\ fd2chan' = [fd2chan EXCEPT ![l][fdOf[c]] =
                          IF s = "open" THEN c ELSE NoConn]
  BY DEF Worker, NewEvent, NewEventFails
<1>3. /\ pend' = [pend EXCEPT ![l] = Tail(@)]
      /\ UNCHANGED <<mpc, armed, starved, hand, i, edge, backlog, idle, fdOf,
                     loopOf>>
  BY DEF Worker, NewEvent, NewEventFails
<1>4. pend'[l] = <<>> /\ \A m \in Loops : m # l => pend'[m] = pend[m]
  <2>1. Len(pend[l]) = 1
    <3>1. pend[l] \in Seq(Conns)
      BY DEF TypeOK
    <3>2. Len(pend[l]) \in Nat \ {0}
      BY <1>1, <3>1, EmptySeq
    <3>3. Len(pend[l]) <= 1
      BY DEF PendInv
    <3>4. \A n \in Nat \ {0} : n <= 1 => n = 1
      OBVIOUS
    <3>5. QED
      BY <3>2, <3>3, <3>4, Zenon
  <2>2. Tail(pend[l]) \in Seq(Conns) /\ Len(Tail(pend[l])) = 0
    BY <1>1, <2>1, HeadTailProperties DEF TypeOK
  <2>3. QED
    BY <1>3, <2>2, EmptySeq DEF TypeOK
<1>5. TypeOK'
  <2>1. pend' \in [Loops -> Seq(Conns)]
    <3>1. Tail(pend[l]) \in Seq(Conns)
      BY <1>1, HeadTailProperties DEF TypeOK
    <3>2. QED
      BY <1>3, <3>1 DEF TypeOK
  <2>2. QED
    BY <1>1, <1>2, <1>3, <2>1 DEF TypeOK, ConnStates
<1>6. HandInv' /\ LifeInv'
  BY <1>1, <1>2, <1>3 DEF HandInv, LifeInv, TypeOK
<1>7. BacklogInv'
  <2>1. \A k \in DOMAIN backlog : backlog[k] \in Conns
    BY ElementOfSeq, LenProperties DEF TypeOK
  <2>2. QED
    BY <1>1, <1>2, <1>3, <2>1 DEF BacklogInv, TypeOK
<1>8. PendInv'
  <2>1. ASSUME NEW m \in Loops, pend[m] # <<>>
        PROVE  Head(pend[m]) \in Conns /\ loopOf[Head(pend[m])] = m
    BY <2>1, HeadTailProperties DEF TypeOK, PendInv
  <2>2. ASSUME NEW m \in Loops, m # l
        PROVE  /\ Len(pend'[m]) <= 1
               /\ pend'[m] # <<>> => /\ st'[Head(pend'[m])] = "queued"
                                     /\ loopOf'[Head(pend'[m])] = m
    BY <1>1, <1>2, <1>3, <1>4, <2>1, <2>2 DEF PendInv, TypeOK
  <2>3. Len(pend'[l]) = 0
    BY <1>4, EmptySeq
  <2>4. QED
    BY <1>4, <2>2, <2>3 DEF PendInv
<1>9. IdleMeansFree' /\ OneConnPerLoop'
  <2>1. \A m \in Loops : OnLoop(m)' \subseteq OnLoop(m)
    BY <1>1, <1>2, <1>3 DEF OnLoop, Serving, TypeOK
  <2>2. QED
    BY <1>3, <2>1 DEF IdleMeansFree, OneConnPerLoop
<1>10. FdsDistinct'
  BY <1>3 DEF FdsDistinct
<1>11. ChannelTable'
  <2> SUFFICES ASSUME NEW m \in Loops, NEW f \in Fds, NEW d \in Conns
               PROVE  fd2chan'[m][f] = d <=>
                        st'[d] = "open" /\ fdOf[d] = f /\ loopOf[d] = m
    BY <1>3 DEF ChannelTable
  <2>1. CASE m = l /\ f = fdOf[c]
    <3>1. fd2chan'[m][f] = IF s = "open" THEN c ELSE NoConn
      BY <1>1, <1>2, <2>1 DEF TypeOK
    <3>2. d # c => fdOf[d] # f
      BY <1>1, <2>1 DEF FdsDistinct, Fds, None
    <3>3. QED
      BY <1>1, <1>2, <2>1, <3>1, <3>2 DEF TypeOK
  <2>2. CASE ~(m = l /\ f = fdOf[c])
    <3>1. fd2chan'[m][f] = fd2chan[m][f]
      BY <1>1, <1>2, <2>2 DEF TypeOK
    <3>2. QED
      BY <1>1, <1>2, <2>2, <3>1 DEF TypeOK, ChannelTable
  <2>3. QED
    BY <2>1, <2>2
<1>12. QED
  BY <1>5, <1>6, <1>7, <1>8, <1>9, <1>10, <1>11

\* A connection is closed, or its object destroyed.
LEMMA CloseIInv ==
  ASSUME IInv, NEW c \in Conns, HandleClose(c) \/ Destroy(c)
  PROVE  IInv'
<1> USE DEF IInv, mainVars
<1>1. /\ UNCHANGED <<mpc, armed, starved, hand, i, edge, backlog, pend, loopOf>>
      /\ st[c] \in {"open", "shut"} /\ fdOf[c] \in Fds /\ loopOf[c] \in Loops
      /\ st' = [st EXCEPT ![c] = IF st[c] = "open" THEN "shut" ELSE "closed"]
  BY DEF HandleClose, Destroy, LifeInv
<1>2. TypeOK'
  <2>1. CASE HandleClose(c)
    BY <1>1, <2>1 DEF HandleClose, TypeOK, ConnStates
  <2>2. CASE Destroy(c)
    BY <1>1, <2>2 DEF Destroy, TypeOK, ConnStates
  <2>3. QED
    BY <2>1, <2>2
<1>3. HandInv'
  BY <1>1 DEF HandInv, TypeOK
<1>4. LifeInv'
  <2>1. CASE HandleClose(c)
    BY <1>1, <2>1 DEF HandleClose, LifeInv, TypeOK
  <2>2. CASE Destroy(c)
    BY <1>1, <2>2 DEF Destroy, LifeInv, TypeOK
  <2>3. QED
    BY <2>1, <2>2
<1>5. BacklogInv'
  <2>1. \A k \in DOMAIN backlog : backlog[k] \in Conns
    BY ElementOfSeq, LenProperties DEF TypeOK
  <2>2. QED
    BY <1>1, <2>1 DEF BacklogInv, TypeOK
<1>6. PendInv'
  <2>1. ASSUME NEW l \in Loops, pend[l] # <<>>
        PROVE  Head(pend[l]) \in Conns /\ st[Head(pend[l])] = "queued"
    BY <2>1, HeadTailProperties DEF TypeOK, PendInv
  <2>2. QED
    BY <1>1, <2>1 DEF PendInv, TypeOK
<1>7. FdsDistinct'
  <2>1. CASE HandleClose(c)
    BY <2>1 DEF HandleClose, FdsDistinct
  <2>2. CASE Destroy(c)
    BY <1>1, <2>2 DEF Destroy, FdsDistinct, TypeOK
  <2>3. QED
    BY <2>1, <2>2
<1>8. \A l \in Loops : OnLoop(l)' = OnLoop(l) \ {c}
  BY <1>1 DEF OnLoop, Serving, TypeOK
<1>9. OneConnPerLoop'
  BY <1>8 DEF OneConnPerLoop
<1>10. IdleMeansFree'
  <2>1. CASE HandleClose(c)
    <3>1. OnLoop(loopOf[c]) \subseteq {c}
      BY <1>1, <2>1 DEF OneConnPerLoop, OnLoop, Serving, HandleClose
    <3>2. \A l \in Loops : l # loopOf[c] => idle'[l] = idle[l]
      BY <1>1, <2>1 DEF HandleClose, TypeOK
    <3>3. QED
      BY <1>8, <3>1, <3>2 DEF IdleMeansFree
  <2>2. CASE Destroy(c)
    BY <1>8, <2>2 DEF IdleMeansFree, Destroy
  <2>3. QED
    BY <2>1, <2>2
<1>11. ChannelTable'
  <2>1. CASE HandleClose(c)
    <3> SUFFICES ASSUME NEW m \in Loops, NEW f \in Fds, NEW d \in Conns
                 PROVE  fd2chan'[m][f] = d <=>
                          st'[d] = "open" /\ fdOf[d] = f /\ loopOf[d] = m
      BY <1>1, <2>1 DEF ChannelTable, HandleClose
    <3>1. CASE m = loopOf[c] /\ f = fdOf[c]
      <4>1. fd2chan'[m][f] = NoConn
        BY <1>1, <2>1, <3>1 DEF HandleClose, TypeOK
      <4>2. d # c => fdOf[d] # f
        BY <1>1, <3>1 DEF FdsDistinct, Fds, None
      <4>3. st'[c] # "open"
        BY <1>1 DEF TypeOK
      <4>4. QED
        BY <4>1, <4>2, <4>3
    <3>2. CASE ~(m = loopOf[c] /\ f = fdOf[c])
      <4>1. fd2chan'[m][f] = fd2chan[m][f]
        BY <1>1, <2>1, <3>2 DEF HandleClose, TypeOK
      <4>2. QED
        BY <1>1, <3>2, <4>1 DEF ChannelTable, TypeOK
    <3>3. QED
      BY <3>1, <3>2
  <2>2. CASE Destroy(c)
    BY <1>1, <2>2 DEF ChannelTable, Destroy, TypeOK
  <2>3. QED
    BY <2>1, <2>2
<1>12. QED
  BY <1>2, <1>3, <1>4, <1>5, <1>6, <1>7, <1>9, <1>10, <1>11

\* The invariant holds in every reachable state.
THEOREM Invariance == Spec => []IInv
<1>1. IInv /\ [Next]_vars => IInv'
  <2> SUFFICES ASSUME IInv, [Next]_vars PROVE IInv'
    OBVIOUS
  <2>1. CASE Main
    BY <2>1, QuietIInv, AcceptIInv, ScanFoundIInv, AcceptErrorIInv, DispatchIInv
    DEF Main
  <2>2. CASE \E l \in Loops : Worker(l)
    BY <2>2, WorkerIInv
  <2>3. CASE \E c \in Conns : Arrive(c) \/ HandleClose(c) \/ Destroy(c)
    BY <2>3, ArriveIInv, CloseIInv
  <2>4. CASE UNCHANGED vars
    BY <2>4, QuietIInv
  <2>5. QED
    BY <2>1, <2>2, <2>3, <2>4 DEF Next
<1>2. QED
  BY <1>1, InitIInv, PTL DEF Spec

\* Type correctness of the server's state; among others, the scan never leaves
\* the pool.
THEOREM TypeCorrect == Spec => []TypeOK
  BY Invariance, PTL DEF IInv

\* A worker never has two connections, whatever peers and the acceptor do.
THEOREM ExclusiveWorkers == Spec => []OneConnPerLoop
  BY Invariance, PTL DEF IInv

\* The channel tables are exact, whatever the reuse of descriptors.
THEOREM ExactChannelTable == Spec => []ChannelTable
  BY Invariance, PTL DEF IInv

\* Connections are never stranded in the backlog but for want of descriptors.
THEOREM BacklogNeverStranded == Spec => []NoStrandedBacklog
<1>1. Init => NoStrandedBacklog
  BY DEF Init, NoStrandedBacklog
<1>2. IInv /\ NoStrandedBacklog /\ [Next]_vars => NoStrandedBacklog'
  <2> SUFFICES ASSUME IInv, NoStrandedBacklog, [Next]_vars
               PROVE  NoStrandedBacklog'
    OBVIOUS
  <2> USE DEF NoStrandedBacklog
  <2>1. CASE Main
    BY <2>1 DEF Main, AcceptEvent, Accept, AcceptFails, ScanBusy, ScanFound,
                Refuse, Leak, Dispatch, Rearm, Disarm
  <2>2. CASE UNCHANGED <<mpc, armed, starved, edge, backlog>>
    BY <2>2
  <2>3. CASE \E l \in Loops : Worker(l)
    <3>1. UNCHANGED <<mpc, armed, starved, edge, backlog>>
      BY <2>3 DEF Worker, NewEvent, NewEventFails, mainVars
    <3>2. QED
      BY <2>2, <3>1
  <2>4. CASE \E c \in Conns : HandleClose(c) \/ Destroy(c)
    <3>1. UNCHANGED <<mpc, armed, starved, edge, backlog>>
      BY <2>4 DEF HandleClose, Destroy, mainVars
    <3>2. QED
      BY <2>2, <3>1
  <2>5. CASE \E c \in Conns : Arrive(c)
    <3>1. edge' = armed /\ armed' = armed
      BY <2>5 DEF Arrive
    <3>2. armed' => edge'
      BY <3>1, Zenon
    <3>3. QED
      BY <3>2, Zenon
  <2>6. CASE UNCHANGED vars
    BY <2>2, <2>6 DEF vars
  <2>7. QED
    BY <2>1, <2>3, <2>4, <2>5, <2>6 DEF Next
<1>3. QED
  BY <1>1, <1>2, Invariance, PTL DEF Spec

\* A worker taken out of service can be blamed on a connection.
THEOREM WorkersAlwaysAccounted == Spec => []WorkersAccounted
<1> DEFINE Blamed == Serving \cup {"accepted", "refused", "leaked", "unwatched"}
<1>1. Init => WorkersAccounted
  BY DEF Init, WorkersAccounted
<1>2. IInv /\ WorkersAccounted /\ [Next]_vars => WorkersAccounted'
  <2> SUFFICES ASSUME IInv, WorkersAccounted, [Next]_vars, NEW l \in Loops,
                      ~idle'[l]
               PROVE  \E c \in Conns : loopOf'[c] = l /\ st'[c] \in Blamed
    BY DEF WorkersAccounted
  <2> USE DEF IInv, Serving
  <2>1. CASE idle[l]
    <3>1. ScanFound /\ l = i
      BY <2>1 DEF Next, Main, AcceptEvent, Accept, AcceptFails, ScanBusy,
                  ScanFound, Refuse, Leak, Dispatch, Rearm, Disarm, Worker,
                  NewEvent, NewEventFails, Arrive, HandleClose, Destroy, vars,
                  TypeOK
    <3>2. hand \in Conns /\ loopOf'[hand] = l /\ st'[hand] \in Blamed
      BY <3>1 DEF ScanFound, HandInv, TypeOK
    <3>3. QED
      BY <3>2
  <2>2. CASE ~idle[l]
    <3>1. PICK c \in Conns : loopOf[c] = l /\ st[c] \in Blamed
      BY <2>2 DEF WorkersAccounted
    <3>2. loopOf'[c] = l
      <4>1. CASE ScanFound
        BY <3>1, <4>1, <2>2 DEF ScanFound, HandInv, TypeOK, Loops, None
      <4>2. CASE ~ScanFound
        BY <3>1, <4>2 DEF Next, Main, AcceptEvent, Accept, AcceptFails,
           ScanBusy, Refuse, Leak, Dispatch, Rearm, Disarm, Worker, NewEvent,
           NewEventFails, Arrive, HandleClose, Destroy, vars, connVars
      <4>3. QED
        BY <4>1, <4>2
    <3>3. st'[c] \in Blamed
      <4>1. CASE Main
        <5>1. CASE Accept
          <6>1. Head(backlog) \in Conns /\ st[Head(backlog)] = "backlog"
            BY <5>1, HeadTailProperties, LenProperties, EmptySeq
            DEF Accept, TypeOK, BacklogInv
          <6>2. QED
            BY <3>1, <5>1, <6>1 DEF Accept, TypeOK
        <5>2. CASE ~Accept
          BY <3>1, <4>1, <5>2 DEF Main, AcceptEvent, AcceptFails, ScanBusy,
             ScanFound, Refuse, Leak, Dispatch, Rearm, Disarm, connVars, TypeOK
        <5>3. QED
          BY <5>1, <5>2
      <4>2. CASE \E m \in Loops : Worker(m)
        BY <3>1, <4>2 DEF Worker, NewEvent, NewEventFails, TypeOK
      <4>3. CASE \E d \in Conns : Arrive(d) \/ HandleClose(d) \/ Destroy(d)
        <5>1. PICK d \in Conns : Arrive(d) \/ HandleClose(d) \/ Destroy(d)
          BY <4>3
        <5>2. d # c
          BY <2>2, <3>1, <5>1 DEF Arrive, HandleClose, Destroy, TypeOK
        <5>3. QED
          BY <3>1, <5>1, <5>2 DEF Arrive, HandleClose, Destroy, TypeOK
      <4>4. CASE UNCHANGED vars
        BY <3>1, <4>4 DEF vars
      <4>5. QED
        BY <4>1, <4>2, <4>3, <4>4 DEF Next
    <3>4. QED
      BY <3>2, <3>3
  <2>3. QED
    BY <2>1, <2>2
<1>3. QED
  BY <1>1, <1>2, Invariance, PTL DEF Spec
=============================================================================
