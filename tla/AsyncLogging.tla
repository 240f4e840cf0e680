---------------------------- MODULE AsyncLogging ----------------------------
(***************************************************************************)
(* server::AsyncLogging (async-logging.cc): threads append log lines to a  *)
(* buffer under mutex_; a backend thread takes full and half-full buffers, *)
(* writes them to the file and recycles two of them, so that neither side  *)
(* allocates in the normal case.                                           *)
(*                                                                         *)
(* A buffer is the sequence of the lines in it; lines are numbered in the  *)
(* order in which append() got the mutex.                                  *)
(***************************************************************************)
EXTENDS Naturals, Sequences, SequencesExt

CONSTANTS MaxLines,    \* bound: lines appended in a run
          Capacity,    \* lines that fit a buffer, kLargeBuffer
          MaxBacklog,  \* buffers the backend accepts at once, 25
          Null         \* an empty shared_ptr

ASSUME LinesAssumption == MaxLines \in Nat
ASSUME CapacityAssumption == Capacity \in Nat \ {0}
ASSUME BacklogAssumption == MaxBacklog \in Nat \ {0}

Lines == 1..MaxLines
Buffer == Seq(Lines)
ASSUME NullAssumption == Null \notin Buffer

VARIABLES running,       \* running_
          current,       \* currentBuffer_
          nextBuffer,    \* nextBuffer_
          buffers,       \* buffers_
          pc,            \* where the backend is
          newBuffer1,
          newBuffer2,
          buffersToWrite,
          appended,      \* number of lines append() has taken
          written,       \* the lines written to the file, in order
          dropped        \* the lines given up, in order

shared == <<running, current, nextBuffer, buffers, appended>>
local == <<pc, newBuffer1, newBuffer2, buffersToWrite, written, dropped>>
vars == <<running, current, nextBuffer, buffers, pc, newBuffer1, newBuffer2,
          buffersToWrite, appended, written, dropped>>

TypeOK ==
  /\ running \in BOOLEAN
  /\ current \in Buffer
  /\ nextBuffer \in Buffer \cup {Null}
  /\ buffers \in Seq(Buffer)
  /\ pc \in {"test", "lock", "wait", "drop", "write", "recycle1", "recycle2",
             "done", "aborted"}
  /\ newBuffer1 \in Buffer \cup {Null}
  /\ newBuffer2 \in Buffer \cup {Null}
  /\ buffersToWrite \in Seq(Buffer)
  /\ appended \in 0..MaxLines
  /\ written \in Seq(Lines)
  /\ dropped \in Seq(Lines)

\* start() has returned: the backend has its two spare buffers.
Init ==
  /\ running = TRUE
  /\ current = <<>> /\ nextBuffer = <<>>
  /\ buffers = <<>>
  /\ pc = "test"
  /\ newBuffer1 = <<>> /\ newBuffer2 = <<>>
  /\ buffersToWrite = <<>>
  /\ appended = 0
  /\ written = <<>>
  /\ dropped = <<>>

-----------------------------------------------------------------------------
(* The threads that log.  append() holds mutex_ throughout.                *)

AppendFits ==
  /\ appended < MaxLines
  /\ Len(current) < Capacity
  /\ appended' = appended + 1
  /\ current' = Append(current, appended + 1)
  /\ UNCHANGED <<running, nextBuffer, buffers, local>>

\* The full buffer is queued; the line opens the spare one, or a new one.
AppendFull ==
  /\ appended < MaxLines
  /\ Len(current) >= Capacity
  /\ appended' = appended + 1
  /\ buffers' = Append(buffers, current)
  /\ current' = Append(IF nextBuffer # Null THEN nextBuffer ELSE <<>>, appended + 1)
  /\ nextBuffer' = Null
  /\ UNCHANGED <<running, local>>

\* stop(): the backend is told, and joined.
Stop ==
  /\ running
  /\ running' = FALSE
  /\ UNCHANGED <<current, nextBuffer, buffers, appended, local>>

-----------------------------------------------------------------------------
(* The backend's thread.                                                   *)

\* while (running_), and the three assertions at the head of the loop.
TestRunning ==
  /\ pc = "test"
  /\ pc' = IF ~running THEN "done"
           ELSE IF newBuffer1 = <<>> /\ newBuffer2 = <<>> /\ buffersToWrite = <<>>
           THEN "lock"
           ELSE "aborted"
  /\ UNCHANGED <<shared, newBuffer1, newBuffer2, buffersToWrite, written, dropped>>

\* Under mutex_: wait, once, if there is nothing to do.
Wait ==
  /\ pc = "lock"
  /\ buffers = <<>>
  /\ pc' = "wait"
  /\ UNCHANGED <<shared, newBuffer1, newBuffer2, buffersToWrite, written, dropped>>

\* Fault: the second spare buffer is handed over whether it is needed or not.
SwapGivesBoth ==
  /\ pc = "wait" \/ (pc = "lock" /\ buffers # <<>>)
  /\ buffersToWrite' = Append(buffers, current)
  /\ buffers' = <<>>
  /\ current' = newBuffer1
  /\ newBuffer1' = Null
  /\ nextBuffer' = newBuffer2
  /\ newBuffer2' = Null
  /\ pc' = "drop"
  /\ UNCHANGED <<running, appended, written, dropped>>

\* Fault: the wait is repeated until a buffer is full.
SwapWhenFull ==
  /\ pc \in {"lock", "wait"}
  /\ buffers # <<>>
  /\ buffersToWrite' = Append(buffers, current)
  /\ buffers' = <<>>
  /\ current' = newBuffer1
  /\ newBuffer1' = Null
  /\ IF nextBuffer = Null
     THEN nextBuffer' = newBuffer2 /\ newBuffer2' = Null
     ELSE UNCHANGED <<nextBuffer, newBuffer2>>
  /\ pc' = "drop"
  /\ UNCHANGED <<running, appended, written, dropped>>

\* Take everything, the current buffer too, and replace what append() used up.
\* The timed wait ends by a notify, by its timeout or for no reason: the code
\* does not look which.
Swap ==
  /\ pc = "wait" \/ (pc = "lock" /\ buffers # <<>>)
  /\ buffersToWrite' = Append(buffers, current)
  /\ buffers' = <<>>
  /\ current' = newBuffer1
  /\ newBuffer1' = Null
  /\ IF nextBuffer = Null
     THEN nextBuffer' = newBuffer2 /\ newBuffer2' = Null
     ELSE UNCHANGED <<nextBuffer, newBuffer2>>
  /\ pc' = "drop"
  /\ UNCHANGED <<running, appended, written, dropped>>

\* Too many buffers: only the two oldest are kept.
Drop ==
  /\ pc = "drop"
  /\ Len(buffersToWrite) > MaxBacklog
  /\ dropped' = dropped \o FlattenSeq(SubSeq(buffersToWrite, 3, Len(buffersToWrite)))
  /\ buffersToWrite' = SubSeq(buffersToWrite, 1, 2)
  /\ pc' = "write"
  /\ UNCHANGED <<shared, newBuffer1, newBuffer2, written>>

NoDrop ==
  /\ pc = "drop"
  /\ Len(buffersToWrite) <= MaxBacklog
  /\ pc' = "write"
  /\ UNCHANGED <<shared, newBuffer1, newBuffer2, buffersToWrite, written, dropped>>

\* Fault: the vector is shortened before it is written.
WriteOutShortened ==
  /\ pc = "write"
  /\ buffersToWrite' = IF Len(buffersToWrite) > 2 THEN SubSeq(buffersToWrite, 1, 2)
                       ELSE buffersToWrite
  /\ written' = written \o FlattenSeq(buffersToWrite')
  /\ pc' = "recycle1"
  /\ UNCHANGED <<shared, newBuffer1, newBuffer2, dropped>>

\* Write all, then keep at most two for recycling.
WriteOut ==
  /\ pc = "write"
  /\ written' = written \o FlattenSeq(buffersToWrite)
  /\ buffersToWrite' = IF Len(buffersToWrite) > 2 THEN SubSeq(buffersToWrite, 1, 2)
                       ELSE buffersToWrite
  /\ pc' = "recycle1"
  /\ UNCHANGED <<shared, newBuffer1, newBuffer2, dropped>>

\* newBuffer1 always went to currentBuffer_: take the last buffer, reset.
Recycle1 ==
  /\ pc = "recycle1"
  /\ newBuffer1 = Null
  /\ newBuffer1' = <<>>
  /\ IF buffersToWrite = <<>>
     THEN pc' = "aborted" /\ UNCHANGED buffersToWrite
     ELSE pc' = "recycle2" /\ buffersToWrite' = Front(buffersToWrite)
  /\ UNCHANGED <<shared, newBuffer2, written, dropped>>

\* The same for newBuffer2, if it went to nextBuffer_; then clear and flush.
Recycle2 ==
  /\ pc = "recycle2"
  /\ newBuffer2' = <<>>
  /\ buffersToWrite' = <<>>
  /\ pc' = IF newBuffer2 = Null /\ buffersToWrite = <<>> THEN "aborted" ELSE "test"
  /\ UNCHANGED <<shared, newBuffer1, written, dropped>>

-----------------------------------------------------------------------------
Logging == AppendFits \/ AppendFull
Backend == \/ TestRunning \/ Wait \/ Swap \/ Drop \/ NoDrop \/ WriteOut
           \/ Recycle1 \/ Recycle2

Next == Logging \/ Stop \/ Backend

Spec == Init /\ [][Next]_vars

\* The backend is a thread that keeps running; its wait has a timeout.
FairSpec == Spec /\ WF_vars(Backend)

-----------------------------------------------------------------------------
\* No assertion of threadFunc fails: there is always a written buffer to
\* recycle for each spare one given away, also after a drop
\* (async-logging.cc:79-81, 120, 127).
NoAssertFails == pc # "aborted"

\* The lines still on their way to the file.
Unwritten ==
  (IF pc \in {"drop", "write"} THEN buffersToWrite ELSE <<>>)
    \o buffers \o <<current>>

\* The buffers that do not hold more than fits them.
Fitting == {b \in Buffer : Len(b) <= Capacity}

\* Every line is somewhere, once: written in order, on its way in order, or
\* given up in a batch that was too large.  None is duplicated by recycling, no
\* buffer is filled past its capacity, also when a line opens a recycled one,
\* and a stop leaves behind only what was appended after the last swap
\* (async-logging.cc:52-66, 78-108).
LinesConserved ==
  LET way == written \o FlattenSeq(Unwritten)
  IN  /\ TypeOK
      /\ \A j, k \in DOMAIN way : j < k => way[j] < way[k]
      /\ Len(way) + Len(dropped) = appended
      /\ ToSet(way) \cup ToSet(dropped) = 1..appended
      /\ {current} \cup ToSet(buffers) \cup ToSet(buffersToWrite) \subseteq Fitting

\* The backend notices what others do while nobody waits: a line does not stay in
\* memory while the logger runs, and stop() returns, also when the backend was
\* about to wait (async-logging.cc:87).
BackendKeepsUp ==
  /\ \A n \in Lines : appended >= n ~> (n \in ToSet(written \o dropped) \/ ~running)
  /\ ~running ~> pc = "done"
=============================================================================
