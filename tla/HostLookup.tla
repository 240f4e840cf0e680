----------------------------- MODULE HostLookup -----------------------------
(* The first part of webSocket_clientLinkToServer: a server given by its name is
   looked up in a thread of its own (websocket_getIpByHostName), whose structure
   gs lives in the caller's frame. The link of WebSocketClient follows.          *)
EXTENDS WebSocketClient

CONSTANTS Polls   \* the waits for actionEnd: 10 * 1000

ASSUME PollsAssumption == Polls \in Nat \ {0}

VARIABLES byName,  \* inet_addr() does not take the host for an address
          lpc,     \* where the caller is
          polls,   \* how often it found actionEnd unset
          gs,      \* GetHostName_Struct
          thread,  \* websocket_getHost_fun
          todo,    \* the stores to gs it has not made yet
          answer,  \* what gethostbyname_r() gave
          addr     \* the address for connect()

lookupVars == <<byName, polls, gs, thread, todo, answer, addr>>
allVars == <<vars, lpc, lookupVars>>

NewGs == [ip |-> "host", result |-> FALSE, actionEnd |-> FALSE]

LookupInit ==
  /\ Init
  /\ byName \in BOOLEAN
  /\ lpc = "start" /\ polls = 0 /\ gs = NewGs
  /\ thread = "none" /\ todo = {} /\ answer = "none" /\ addr = "none"

-----------------------------------------------------------------------------
(* The caller. *)

(* The host is an address; or the thread is created; or pthread_create fails with
   an error above zero, which the test for one below zero does not see.          *)
Begin ==
  /\ lpc = "start"
  /\ \/ ~byName /\ lpc' = "done" /\ addr' = "given" /\ UNCHANGED thread
     \/ byName /\ lpc' = "poll" /\ thread' \in {"resolving", "none"} /\ UNCHANGED addr
  /\ UNCHANGED <<vars, byName, polls, gs, todo, answer>>

(* while (!gs.actionEnd), up to the limit. *)
Poll ==
  /\ lpc = "poll"
  /\ \/ ~gs.actionEnd /\ polls < Polls /\ polls' = polls + 1 /\ UNCHANGED lpc
     \/ (gs.actionEnd \/ polls = Polls) /\ lpc' = "join" /\ UNCHANGED polls
  /\ UNCHANGED <<vars, byName, gs, thread, todo, answer, addr>>

(* The answer is in gs, and is an address for inet_addr(). *)
Answered ==
  /\ addr' = IF gs.result THEN gs.ip ELSE "none"
  /\ lpc' = IF gs.result /\ gs.ip # "broadcast" THEN "done" ELSE "failed"
  /\ UNCHANGED <<vars, byName, polls, gs, thread, todo, answer>>

(* Fault: the caller that has waited long enough does not join. *)
NoJoin == lpc = "join" /\ Answered

(* pthread_join(), for ever if the thread never ends. *)
Join == lpc = "join" /\ thread = "ended" /\ Answered

(* pthread_join() of a thread that was never created: an error, or the end of the
   process.                                                                      *)
JoinNothing ==
  /\ lpc = "join" /\ thread = "none"
  /\ lpc' \in {"failed", "crashed"}
  /\ UNCHANGED <<vars, lookupVars>>

-----------------------------------------------------------------------------
(* The thread. *)
Resolve ==
  /\ thread = "resolving"
  /\ answer' \in {"found", "broadcast", "missing"}
  /\ todo' = IF answer' = "missing" THEN {"actionEnd"} ELSE DOMAIN gs
  /\ thread' = "storing"
  /\ UNCHANGED <<vars, lpc, byName, polls, gs, addr>>

(* Nothing orders the stores for another thread. *)
Store ==
  /\ thread = "storing"
  /\ \E field \in todo :
       /\ gs' = [gs EXCEPT ![field] = IF field = "ip" THEN answer ELSE TRUE]
       /\ todo' = todo \ {field}
       /\ thread' = IF todo' = {} THEN "ended" ELSE "storing"
  /\ UNCHANGED <<vars, lpc, byName, polls, answer, addr>>

-----------------------------------------------------------------------------
(* The lookup is over and its frame is gone: the rest of the library. *)
Looked ==
  /\ lpc = "done"
  /\ byName' = FALSE /\ polls' = 0 /\ gs' = NewGs
  /\ thread' = "none" /\ todo' = {} /\ answer' = "none" /\ addr' = "none"
  /\ UNCHANGED lpc

Caller == Begin \/ Poll \/ Join \/ JoinNothing
ClientStep == Caller \/ (Looked /\ Client)
ThreadStep == Resolve \/ Store

LookupNext == ClientStep \/ ThreadStep \/ (Looked /\ (Deliver \/ PeerEnds))

(* Both threads of the client run, and gethostbyname_r() returns. *)
LookupFairSpec ==
  /\ LookupInit /\ [][LookupNext]_allVars
  /\ WF_allVars(ClientStep) /\ WF_allVars(ThreadStep)

-----------------------------------------------------------------------------
(* The caller's frame, in which gs lives, is left only when no thread writes to it
   any more; the address it goes on with is the one that was found, also when it
   was found after the limit; and a name that was found is never given up
   (websocket-client.cc:137-173).                                                *)
LookupAnswer ==
  /\ thread \in {"resolving", "storing"} => lpc \in {"poll", "join"}
  /\ lpc = "done" /\ byName => answer = "found" /\ addr = "found"
  /\ lpc = "failed" => answer # "found"

(* No call of the library hangs: the lookup ends even if its thread was never
   created; the link is given up after the count of timeOut if the peer ends; a
   call that waits for the rest of a frame ends when the peer does, also when a
   stale errno makes it look like a wait.                                        *)
CallsReturn ==
  /\ lpc = "poll" ~> lpc \in {"done", "failed", "crashed"}
  /\ (pc = "await" /\ conn \in {"fin", "rst"}) ~> pc \in {"linked", "failed"}
  /\ (pc = "more" /\ conn # "open") ~> pc = "linked"
=============================================================================
