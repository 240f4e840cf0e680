--------------------------- MODULE EventLoopProofs ---------------------------
(* Theorems about EventLoop, for any sets of functors and callers, and about *)
(* the hand-over of a loop from its thread to its owner, and back.           *)
EXTENDS EventLoopThread, TLAPS, SequenceTheorems

\* The inductive invariant.  NoStrandedFunctor alone is not inductive: the
\* step that drains the eventfd (HandleWakeup) keeps it only because it is
\* taken outside run/test/poll, and the in-loop push only because calling is
\* up exactly in "run".
IInv == TypeOK /\ NoStrandedFunctor /\ WakeupReadable /\ BatchDiscipline

\* The constructor establishes the invariant.
LEMMA InitIInv == Init => IInv
<1> SUFFICES ASSUME Init PROVE IInv
  OBVIOUS
<1> USE DEF Init
<1>1. TypeOK
  BY EmptySeq DEF TypeOK, Channels
<1>2. NoStrandedFunctor /\ WakeupReadable
  BY DEF NoStrandedFunctor, WakeupReadable
<1>3. BatchDiscipline
  BY Zenon DEF BatchDiscipline
<1>4. QED
  BY <1>1, <1>2, <1>3 DEF IInv

\* The steps of loop() preserve it.
LEMMA LoopIInv == IInv /\ Loop => IInv'
<1> SUFFICES ASSUME IInv, Loop PROVE IInv'
  OBVIOUS
<1> USE DEF IInv, TypeOK, NoStrandedFunctor, WakeupReadable, BatchDiscipline,
            WakeupComing, Channels
<1>1. CASE Enter
  BY <1>1 DEF Enter
<1>2. CASE TestQuit
  BY <1>2 DEF TestQuit
<1>3. CASE Poll
  BY <1>3 DEF Poll, Reported
<1>4. CASE HandleWakeup
  BY <1>4 DEF HandleWakeup
<1>5. CASE HandleIO
  BY <1>5 DEF HandleIO
<1>6. CASE EndHandling
  BY <1>6 DEF EndHandling
<1>7. CASE SwapFunctors
  BY <1>7, EmptySeq DEF SwapFunctors
<1>8. CASE RunFunctor
  <2>1. /\ Head(functors) \in Functors
        /\ Tail(functors) \in Seq(Functors)
    BY <1>8, HeadTailProperties DEF RunFunctor
  <2>2. executed' \in Seq(Functors)
    BY <1>8, <2>1, AppendProperties DEF RunFunctor
  <2>3. QED
    BY <1>8, <2>1, <2>2 DEF RunFunctor
<1>9. CASE EndFunctors
  BY <1>9 DEF EndFunctors
<1>10. QED
  BY <1>1, <1>2, <1>3, <1>4, <1>5, <1>6, <1>7, <1>8, <1>9 DEF Loop

\* Callbacks on the loop's thread and the calls of other threads preserve it.
LEMMA CallIInv ==
  ASSUME IInv,
         \/ Callback
         \/ \E c \in Callers : Caller(c) \/ Wakeup(c)
         \/ IOReady
  PROVE  IInv'
<1> USE DEF IInv, TypeOK, NoStrandedFunctor, WakeupReadable, BatchDiscipline,
            WakeupComing, Channels
<1>1. CASE \E f \in Functors : QueueFromLoop(f)
  <2> PICK f \in Functors : QueueFromLoop(f)
    BY <1>1
  <2>1. pending' \in Seq(Functors)
    BY AppendProperties DEF QueueFromLoop
  <2>2. CASE pc = "run"
    BY <2>1, <2>2 DEF QueueFromLoop
  <2>3. CASE pc # "run"
    BY <2>1, <2>3 DEF QueueFromLoop, InCallback
  <2>4. QED
    BY <2>2, <2>3
<1>2. CASE \E f \in Functors : RunInLoopFromLoop(f)
  <2> PICK f \in Functors : RunInLoopFromLoop(f)
    BY <1>2
  <2>1. executed' \in Seq(Functors)
    BY AppendProperties DEF RunInLoopFromLoop
  <2>2. QED
    BY <2>1 DEF RunInLoopFromLoop
<1>3. CASE QuitFromLoop
  BY <1>3 DEF QuitFromLoop
<1>4. CASE \E c \in Callers : Quit(c)
  BY <1>4 DEF Quit
<1>5. CASE \E c \in Callers, f \in Functors : QueueInLoop(c, f)
  <2> PICK c \in Callers, f \in Functors : QueueInLoop(c, f)
    BY <1>5
  <2>1. pending' \in Seq(Functors)
    BY AppendProperties DEF QueueInLoop
  <2>2. QED
    BY <2>1 DEF QueueInLoop
<1>6. CASE \E c \in Callers : Wakeup(c)
  BY <1>6 DEF Wakeup
<1>7. CASE IOReady
  BY <1>7 DEF IOReady
<1>8. QED
  BY <1>1, <1>2, <1>3, <1>4, <1>5, <1>6, <1>7 DEF Callback, Caller

\* Every step preserves the invariant, so every reachable state satisfies it.
THEOREM Invariance == Spec => []IInv
<1>1. IInv /\ [Next]_vars => IInv'
  <2> SUFFICES ASSUME IInv, [Next]_vars PROVE IInv'
    OBVIOUS
  <2>1. CASE Next
    BY <2>1, LoopIInv, CallIInv DEF Next
  <2>2. CASE UNCHANGED vars
    BY <2>2 DEF vars, IInv, TypeOK, NoStrandedFunctor, WakeupReadable,
                BatchDiscipline, WakeupComing
  <2>3. QED
    BY <2>1, <2>2
<1>2. QED
  BY <1>1, InitIInv, PTL DEF Spec

\* Type correctness of the event loop's state.
THEOREM TypeCorrect == Spec => []TypeOK
  BY Invariance, PTL DEF IInv

\* The wakeup protocol never strands a functor, for any number of callers and
\* functors.
THEOREM NeverStranded == Spec => []NoStrandedFunctor
  BY Invariance, PTL DEF IInv

\* handleRead of the wakeup channel never finds the eventfd empty.
THEOREM AlwaysReadable == Spec => []WakeupReadable
  BY Invariance, PTL DEF IInv

-----------------------------------------------------------------------------
(* The loop implements the executor: the queue is the batch being run       *)
(* followed by what is pending.                                             *)

\* What is in neither part of a concatenation is not in the concatenation.
LEMMA NotInConcat ==
  ASSUME NEW S, NEW s \in Seq(S), NEW t \in Seq(S), NEW f,
         f \notin {s[i] : i \in DOMAIN s},
         f \notin {t[i] : i \in DOMAIN t}
  PROVE  f \notin {(s \o t)[i] : i \in DOMAIN (s \o t)}
<1> SUFFICES ASSUME NEW i \in DOMAIN (s \o t), f = (s \o t)[i] PROVE FALSE
  OBVIOUS
<1>1. /\ s \o t \in Seq(S)
      /\ Len(s) \in Nat /\ Len(t) \in Nat
      /\ Len(s \o t) = Len(s) + Len(t)
      /\ DOMAIN s = 1..Len(s) /\ DOMAIN t = 1..Len(t)
  BY ConcatProperties, LenProperties
<1>2. i \in 1..(Len(s) + Len(t))
  BY <1>1, LenProperties
<1>3. (s \o t)[i] = IF i <= Len(s) THEN s[i] ELSE t[i - Len(s)]
  BY <1>2, ConcatProperties
<1>4. CASE i <= Len(s)
  BY <1>1, <1>2, <1>3, <1>4
<1>5. CASE ~(i <= Len(s))
  <2>1. i - Len(s) \in 1..Len(t)
    BY <1>1, <1>2, <1>5
  <2>2. QED
    BY <1>1, <1>3, <1>5, <2>1
<1>6. QED
  BY <1>4, <1>5

\* Pushing onto the pending part pushes onto the whole queue.
LEMMA AppendToConcat ==
  ASSUME NEW S, NEW s \in Seq(S), NEW t \in Seq(S), NEW f \in S
  PROVE  s \o Append(t, f) = Append(s \o t, f)
<1>1. Append(t, f) = t \o <<f>> /\ <<f>> \in Seq(S)
  BY AppendIsConcat
<1>2. s \o t \in Seq(S)
  BY ConcatProperties
<1>3. Append(s \o t, f) = (s \o t) \o <<f>>
  BY <1>2, AppendIsConcat
<1>4. QED
  BY <1>1, <1>3, ConcatAssociative

\* The oldest functor of the batch is the oldest of the whole queue.
LEMMA HeadTailOfConcat ==
  ASSUME NEW S, NEW s \in Seq(S), NEW t \in Seq(S), s # <<>>
  PROVE  /\ s \o t # <<>>
         /\ Head(s \o t) = Head(s)
         /\ Tail(s \o t) = Tail(s) \o t
<1>1. /\ Len(s) \in Nat \ {0} /\ Len(t) \in Nat
      /\ s \o t \in Seq(S) /\ Len(s \o t) = Len(s) + Len(t)
      /\ s \o t # <<>>
  BY EmptySeq, LenProperties, ConcatProperties
<1>2. Head(s \o t) = Head(s)
  BY <1>1, ConcatProperties
<1>3. /\ Tail(s) \in Seq(S) /\ Len(Tail(s)) = Len(s) - 1
      /\ Tail(s \o t) \in Seq(S) /\ Len(Tail(s \o t)) = Len(s) + Len(t) - 1
      /\ \A i \in 1..(Len(s) - 1) : Tail(s)[i] = s[i+1]
      /\ \A i \in 1..(Len(s) + Len(t) - 1) : Tail(s \o t)[i] = (s \o t)[i+1]
  BY <1>1, HeadTailProperties
<1>4. /\ Tail(s) \o t \in Seq(S)
      /\ Len(Tail(s) \o t) = Len(s) + Len(t) - 1
  BY <1>1, <1>3, ConcatProperties
<1>5. ASSUME NEW i \in 1..(Len(s) + Len(t) - 1)
      PROVE  Tail(s \o t)[i] = (Tail(s) \o t)[i]
  <2>1. Tail(s \o t)[i] = IF i + 1 <= Len(s) THEN s[i+1] ELSE t[i + 1 - Len(s)]
    BY <1>1, <1>3, ConcatProperties
  <2>2. (Tail(s) \o t)[i] = IF i <= Len(s) - 1 THEN Tail(s)[i]
                                               ELSE t[i - (Len(s) - 1)]
    BY <1>1, <1>3, ConcatProperties
  <2>3. QED
    BY <1>1, <1>3, <2>1, <2>2
<1>6. Tail(s \o t) = Tail(s) \o t
  BY <1>3, <1>4, <1>5, SeqEqual
<1>7. QED
  BY <1>1, <1>2, <1>6

\* Every step of the loop and its callers is a step of the executor or
\* leaves the executor's state alone.
LEMMA StepRefines == IInv /\ [Next]_vars => [E!ENext]_(E!evars)
<1> SUFFICES ASSUME IInv, [Next]_vars PROVE [E!ENext]_(E!evars)
  OBVIOUS
<1>0. /\ pending \in Seq(Functors)
      /\ functors \in Seq(Functors)
      /\ executed \in Seq(Functors)
  BY DEF IInv, TypeOK
<1>1. ASSUME NEW f \in Functors, QueueFromLoop(f)
      PROVE  E!Submit(f)
  <2>1. f \notin E!Waiting \cup E!Ran
    BY <1>0, <1>1, NotInConcat DEF QueueFromLoop, Submitted, E!Waiting, E!Ran
  <2>2. QED
    BY <1>0, <1>1, <2>1, AppendToConcat DEF QueueFromLoop, E!Submit
<1>2. ASSUME NEW f \in Functors, RunInLoopFromLoop(f)
      PROVE  E!RunAtOnce(f)
  <2>1. f \notin E!Waiting \cup E!Ran
    BY <1>0, <1>2, NotInConcat DEF RunInLoopFromLoop, Submitted, E!Waiting, E!Ran
  <2>2. QED
    BY <1>2, <2>1 DEF RunInLoopFromLoop, E!RunAtOnce
<1>3. ASSUME NEW c \in Callers, NEW f \in Functors, QueueInLoop(c, f)
      PROVE  E!Submit(f)
  <2>1. f \notin E!Waiting \cup E!Ran
    BY <1>0, <1>3, NotInConcat DEF QueueInLoop, Submitted, E!Waiting, E!Ran
  <2>2. QED
    BY <1>0, <1>3, <2>1, AppendToConcat DEF QueueInLoop, E!Submit
<1>4. ASSUME RunFunctor PROVE E!RunOldest
  BY <1>0, <1>4, HeadTailOfConcat DEF RunFunctor, E!RunOldest
<1>5. ASSUME SwapFunctors PROVE UNCHANGED E!evars
  <2>1. functors = <<>>
    BY <1>5 DEF SwapFunctors, IInv, BatchDiscipline
  <2>2. functors' \o pending' = functors \o pending
    BY <1>0, <1>5, <2>1, ConcatEmptySeq DEF SwapFunctors
  <2>3. QED
    BY <1>5, <2>2 DEF SwapFunctors, E!evars
<1>6. ASSUME \/ Enter \/ TestQuit \/ Poll \/ HandleWakeup \/ HandleIO
             \/ EndHandling \/ EndFunctors \/ QuitFromLoop \/ IOReady
             \/ \E c \in Callers : Quit(c) \/ Wakeup(c)
             \/ UNCHANGED vars
      PROVE  UNCHANGED E!evars
  BY <1>6 DEF Enter, TestQuit, Poll, HandleWakeup, HandleIO, EndHandling,
              EndFunctors, QuitFromLoop, IOReady, Quit, Wakeup, vars, E!evars
<1>7. QED
  BY <1>1, <1>2, <1>3, <1>4, <1>5, <1>6
  DEF Next, Loop, Callback, Caller, E!ENext

\* The event loop implements the first-in first-out executor: no functor is
\* lost, run twice or run out of order, whatever the interleaving.
THEOREM LoopImplementsExecutor == Spec => ImplementsExecutor
<1>1. Init => E!EInit
  <2> SUFFICES ASSUME Init PROVE E!EInit
    OBVIOUS
  <2>1. functors \o pending = <<>>
    BY EmptySeq, ConcatEmptySeq DEF Init
  <2>2. QED
    BY <2>1 DEF Init, E!EInit
<1>2. QED
  BY <1>1, Invariance, StepRefines, PTL DEF Spec, ImplementsExecutor, E!ESpec

-----------------------------------------------------------------------------
(* The hand-over between owner and thread.                                 *)

USE OwnerAssumption

\* The latch is open exactly when the thread has stored its id and passed it.
LatchOrder ==
  /\ count = 0 => wpc \notin {"none", "born"}
  /\ wpc \notin {"none", "born"} => tid = TRUE

\* loop_ points to the loop exactly while the thread is in it.
PtrOrder ==
  /\ loopPtr = TRUE => wpc = "looping"
  /\ wpc = "looping" => loopPtr = TRUE
  /\ opc \in {"have", "quit", "join", "gone", "crashed"} =>
       wpc \in {"looping", "ending", "dead"}

\* Only the owner's destructor makes the loop leave.
QuitOrder ==
  /\ opc = "new" => wpc = "none"
  /\ wpc \in {"ending", "dead"} => pc = "left"
  /\ pc = "left" => quitAsked = TRUE
  /\ quit = TRUE => quitAsked = TRUE
  /\ quitAsked = TRUE => opc \in {"quit", "join", "gone", "crashed"}

\* The owner is in a call on the loop only while it uses it or stops it.
EndOrder == Owner \in waking => opc \in {"have", "quit"}

\* The inductive invariant.  Of the loop's variables it needs two types.
TInv ==
  /\ ThreadTypeOK
  /\ quit \in BOOLEAN /\ quitAsked \in BOOLEAN
  /\ LatchOrder
  /\ PtrOrder
  /\ QuitOrder
  /\ EndOrder
  /\ TidAssertHolds

\* The constructor establishes the invariant.
LEMMA InitTInv == ThreadInit => TInv
<1> SUFFICES ASSUME ThreadInit PROVE TInv
  OBVIOUS
<1>1. ThreadTypeOK /\ quit \in BOOLEAN /\ quitAsked \in BOOLEAN
  BY DEF ThreadInit, Init, ThreadTypeOK
<1>2. LatchOrder
  BY DEF ThreadInit, LatchOrder
<1>3. PtrOrder
  BY DEF ThreadInit, PtrOrder
<1>4. QuitOrder
  BY DEF ThreadInit, Init, QuitOrder
<1>5. EndOrder /\ TidAssertHolds
  BY DEF ThreadInit, Init, EndOrder, TidAssertHolds
<1>6. QED
  BY <1>1, <1>2, <1>3, <1>4, <1>5 DEF TInv

\* A step of loop() leaves calls and requests alone, and leaves the loop only
\* when quit_ is set.
LEMMA LoopFrame ==
  ASSUME Loop
  PROVE  /\ waking' = waking /\ quitAsked' = quitAsked
         /\ quit' = quit \/ quit' = FALSE
         /\ pc # "left"
         /\ pc' = "left" => quit
  BY DEF Loop, Enter, TestQuit, Poll, HandleWakeup, HandleIO, EndHandling,
         SwapFunctors, RunFunctor, EndFunctors

\* Every step of the owner keeps the invariant.
LEMMA OwnerKeeps ==
  ASSUME TInv, Start \/ StartFails \/ LatchWait \/ CondWait \/ SpuriousWakeup
         \/ Use \/ DestroyQuit \/ OwnerWakeup \/ WakeupOfDeadLoop \/ DestroyJoin \/ Joined
  PROVE  TInv'
<1> USE DEF TInv, ThreadTypeOK, LatchOrder, PtrOrder, QuitOrder, EndOrder, TidAssertHolds
<1>1. CASE Start
  BY <1>1 DEF Start, vars, loopVars
<1>2. CASE StartFails
  BY <1>2 DEF StartFails, vars, loopVars
<1>3. CASE LatchWait
  BY <1>3 DEF LatchWait, vars, loopVars
<1>4. CASE CondWait
  BY <1>4 DEF CondWait, vars, loopVars
<1>5. CASE SpuriousWakeup
  BY <1>5 DEF SpuriousWakeup, vars, loopVars
<1>6. CASE Use
  BY <1>6 DEF Use, tvars, QueueInLoop
<1>7. CASE DestroyQuit
  BY <1>7 DEF DestroyQuit, Quit
<1>8. CASE OwnerWakeup
  BY <1>8 DEF OwnerWakeup, tvars, Wakeup
<1>d. CASE WakeupOfDeadLoop
  BY <1>d DEF WakeupOfDeadLoop
<1>9. CASE DestroyJoin
  BY <1>9 DEF DestroyJoin, vars, loopVars
<1>10. CASE Joined
  BY <1>10 DEF Joined, vars, loopVars
<1>11. QED
  BY <1>1, <1>2, <1>3, <1>4, <1>5, <1>6, <1>7, <1>8, <1>d, <1>9, <1>10

\* Every step of the thread keeps the invariant.
LEMMA ThreadKeeps ==
  ASSUME TInv, SetTid \/ CountDown \/ Build \/ Publish \/ InLoop
         \/ InLoopCallback \/ LoopIO \/ Leave \/ End
  PROVE  TInv'
<1> USE DEF TInv, ThreadTypeOK, LatchOrder, PtrOrder, QuitOrder, EndOrder, TidAssertHolds
<1>1. CASE SetTid
  BY <1>1 DEF SetTid, vars, loopVars
<1>2. CASE CountDown
  BY <1>2 DEF CountDown, vars, loopVars
<1>3. CASE Build
  BY <1>3 DEF Build, vars, loopVars
<1>4. CASE Publish
  BY <1>4 DEF Publish, vars, loopVars
<1>5. CASE InLoop
  <2>1. Loop /\ UNCHANGED tvars /\ wpc = "looping"
    BY <1>5 DEF InLoop
  <2>2. QED
    BY <2>1, LoopFrame DEF tvars
<1>6. CASE InLoopCallback
  BY <1>6 DEF InLoopCallback, tvars, QueueFromLoop, RunInLoopFromLoop
<1>7. CASE LoopIO
  BY <1>7 DEF LoopIO, tvars, IOReady
<1>8. CASE Leave
  BY <1>8 DEF Leave, vars, loopVars
<1>9. CASE End
  BY <1>9 DEF End, vars, loopVars
<1>10. QED
  BY <1>1, <1>2, <1>3, <1>4, <1>5, <1>6, <1>7, <1>8, <1>9

\* The invariant holds in every state of every run of owner and thread.
THEOREM ThreadInvariance == ThreadSpec => []TInv
<1>1. ThreadInit => TInv
  BY InitTInv
<1>2. TInv /\ [ThreadNext]_allVars => TInv'
  <2> SUFFICES ASSUME TInv, [ThreadNext]_allVars PROVE TInv'
    OBVIOUS
  <2>1. CASE ThreadNext
    BY <2>1, OwnerKeeps, ThreadKeeps DEF ThreadNext, OwnerBlocking, ThreadStep
  <2>2. CASE UNCHANGED allVars
    BY <2>2 DEF allVars, loopVars, vars, tvars, TInv, ThreadTypeOK, LatchOrder,
                PtrOrder, QuitOrder, EndOrder, TidAssertHolds
  <2>3. QED
    BY <2>1, <2>2
<1>3. QED
  BY <1>1, <1>2, PTL DEF ThreadSpec

\* assert(tid_ > 0) of Thread::start (cur-thread.cc:100) never fails: the latch
\* orders it after the store of the new thread.
THEOREM TidAlwaysStored == ThreadSpec => []TidAssertHolds
<1>1. TInv => TidAssertHolds
  BY DEF TInv
<1>2. QED
  BY <1>1, ThreadInvariance, PTL

\* The loop startLoop returns (event-loop-thread.cc:24-35) is published and
\* stays in its loop until the owner's destructor calls quit, for any set of
\* functors that owner and callbacks submit.
THEOREM LoopAlwaysUsable == ThreadSpec => []LoopUsable
<1>1. TInv => LoopUsable
  <2> SUFFICES ASSUME TInv, opc = "have" PROVE wpc = "looping" /\ loopPtr /\ pc # "left"
    BY DEF LoopUsable
  <2>1. pc # "left"
    BY DEF TInv, QuitOrder
  <2>2. wpc = "looping"
    BY <2>1 DEF TInv, PtrOrder, QuitOrder
  <2>3. QED
    BY <2>1, <2>2 DEF TInv, PtrOrder
<1>2. QED
  BY <1>1, ThreadInvariance, PTL

\* Every call of the owner on the loop is made on a living loop, except that the
\* wakeup() of the destructor's quit() (event-loop-thread.cc:17-22) may find it
\* destroyed, for any set of functors.
THEOREM LoopAlwaysOutlivesCalls == ThreadSpec => []LoopOutlivesCalls
<1>1. TInv => LoopOutlivesCalls
  <2> SUFFICES ASSUME TInv, Owner \in waking PROVE wpc = "looping" \/ opc = "quit"
    BY DEF LoopOutlivesCalls
  <2>1. CASE opc = "have"
    BY <2>1 DEF TInv, PtrOrder, QuitOrder
  <2>2. QED
    BY <2>1 DEF TInv, EndOrder
<1>2. QED
  BY <1>1, ThreadInvariance, PTL
=============================================================================
