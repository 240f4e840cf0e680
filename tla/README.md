# DogServer in TLA+

A specification of DogServer, a multi-threaded WebSocket server (`bin/dog-server.cc`, `src/`)
that takes audio from its clients and sends recognition results back. The modules below are
translated from the C++ source; TLC checks them on small instances and TLAPS proves the main
invariants for every value of the constants.

## 1. The system

The main thread runs an `EventLoop` with the listening socket. It accepts connections and gives
each to one of `threadNum` worker threads, each of which runs an `EventLoop` of its own. A worker
serves one connection at a time (`EventLoop::idle`). All threads log through one `AsyncLogging`,
whose backend is a thread too. A client library (`websocket-client.cc`) and a batch client
(`bin/dog-client.cc`) share the repository.

| Component | State it keeps | Operations | Interacts through |
|---|---|---|---|
| `EventLoop` | `quit_`, `pendingFunctors_`, `callingPendingFunctors_`, the eventfd | `loop`, `quit`, `runInLoop`, `queueInLoop`, `wakeup`, `handleRead`, `doPendingFunctors` | mutex, eventfd, callbacks |
| `Epoll`, `Channel` | `fd2chan_`, event masks | `poll`, `epoll_add/mod/del`, `handleEvents` | kernel's ready list |
| `Server` | listening socket, pool | `handNewConn`, `handThisConn` | `queueInLoop` of a worker |
| `EventLoopThreadPool` | the loops | `start`, `getNextLoop` | reads `idle` of every loop |
| `WebSocketData` | `state_`, `readPacket_`, `is_final_`, the descriptor | `newEvent`, `handleRead`, `handleConn`, `handleClose` | socket, its loop, decoder, file |
| `AsyncLogging` | `currentBuffer_`, `nextBuffer_`, `buffers_`, `running_` | `append`, `start`, `stop`, `threadFunc` | mutex, condition |
| `Thread`, `EventLoopThread`, `CountDownLatch` | started, joined, published loop | `start`, `join`, `startLoop` | condition variables |
| client library, dog-client | socket, buffers, the thread that looks names up | look-up, link, `enPackage`, `dePackage`, send, recv | the server |
| `Logger`, `LogStream`, `FixedBuffer` | one line of the log, 4000 bytes | `<<`, `convert`, the destructor that ends the line | `append` of `AsyncLogging` |
| SHA-1 and Base64, twice each | message block, length counters | `Input`, `PadMessage`, `Result`, encode, decode, accept key | handshake of server and client |
| cJSON | items: type, list pointers, child, name, flags | create, add, refer, insert, detach, replace, duplicate, delete; print, parse, compare, minify | `formatJson` of a result |

What is hard here: functors handed between threads while the other side may be about to sleep on
an edge-triggered descriptor; workers given back while the acceptor scans for one; descriptors
reused as soon as they are closed; a byte stream that TCP cuts anywhere; peers that leave, reset or
stay silent; buffers that go round between loggers and the backend. `PROJECT.json` lists the
hazards line by line.

What makes each part correct:

* event loop: what is submitted runs once, in order, on the loop's thread; a sleeping loop has
  nothing pending; quit ends it;
* acceptor and workers: one connection per worker, no connection forgotten in the backlog, no worker
  lost, the channel table never points to a dead connection;
* connection: payloads whole, unmasked and in order however the stream is cut; the parser in step
  with the frames; replies in protocol order; sessions end and give the worker back;
* logging: every line once and in order, none kept in memory for ever, no assertion fails;
* client: a linked client is in step with the server, a returned result is a whole frame, calls end when the peer does,
  sender threads and main never act on another session's events, nobody waits on a full socket for ever;
* logger: a line stays in its buffer and is made of whole pieces in order;
* handshake: server and client compute the same key, with the padding of the standard;
* cJSON: lists linked both ways, every item and every name freed once and by its owner, text inside its buffer, what is
  printed is read back.

## 2. Modules

### Executor
What an event loop promises: a queue of submitted functors, run oldest first, once each, except that
a functor submitted on the loop's thread with `runInLoop` runs at once.

### EventLoop
`event-loop.cc`. `pc` is the place of the loop's thread: `enter` (before `quit_ = false`), `test`
(`while (!quit_)`), `poll`, `handle`, `swap` and `run` (in `doPendingFunctors`), `left`. A call of
`queueInLoop` or `quit` by another thread is two actions, because the loop can run between the store
and the write to the eventfd: `QueueInLoop`/`Quit`, then `Wakeup`. The eventfd is a counter (`evfd`)
and a place on epoll's ready list (`edge`), which epoll re-checks against the counter when it reports
(`Reported`). `io` stands for all other descriptors of the loop; their handlers may call the loop's
own operations (`QueueFromLoop`, `RunInLoopFromLoop`, `QuitFromLoop`), and so may functors. The
refinement mapping to `Executor` is `queue <- functors \o pending`: the batch being run, then what
has been pushed meanwhile.

### EventLoopThread
`event-loop-thread.cc`, `cur-thread.cc`, `countdown-latch.cc`, on top of `EventLoop`, which it extends. `opc` is the
place of the owner: in `Thread::start` on the latch (`latch`), in `startLoop` on the condition variable
(`cond`), with a loop (`have`), and in the destructor (`quit`, `join`, `gone`); `asleep` says that it sleeps on
the condition variable of that place, which may also wake for no reason. `wpc` is the life of the thread
around `loop()`: while it is `looping` the actions of `EventLoop` are its steps. `quit()` and `wakeup()` of the
destructor are two steps, and the thread may be dead in between: the second is then a call on a destroyed object (`WakeupOfDeadLoop`),
which returns or ends the process (`opc = "crashed"`). The owner is the only caller, as the main
thread is of the workers' loops. A `quit()` that `loop()` overwrites on its entry leaves the destructor in `join`
for ever; `OwnerCallsReturn` is stated for the others.

### Server
`server.cc`, `event-loop-thread-pool.cc`, and the life of `WebSocketData` objects. Main thread: `mpc`
is the place in `handNewConn`/`handThisConn`; `Accept` takes the lowest free descriptor, `ScanBusy`
and `ScanFound` are one probe of `getNextLoop`, `Refuse`, `Leak` and `Dispatch` the three ways on from
there, `Rearm` and `Disarm` the call of `updatePoller` with the event mask set or, after the early
return of line 70, zero. `edge` is the listening socket's place on the ready list. Workers:
`NewEvent` runs the queued functor (`epoll_add`, which may fail), `HandleClose` is `handleClose`,
`Destroy` the destructor with its `close`; between the last two the worker is already `idle` while
the descriptor is still open. A worker's queue is the `Executor` that `EventLoop` implements. `idle`
is a plain `bool`; the logging call inside the scan makes the compiler read it every time, so a read
of it returns the value last stored.

### WebSocketData (and MCWebSocketData)
`websocket-data.cc`, `packet-buffer.h`, `Channel::handleEvents`: one connection against one peer. The
peer's stream is fixed by its script (head and frames); `wr` bytes of it have arrived and `rd` were
read. A payload byte is the pair of its frame and its offset; `Xor` gives it back only for the right
byte of the right key, `Junk` otherwise. `readAndParsePacket` is a pipeline of its five `if`s
(`Stage0`, `StageExt`, `StageMask`, `StageData`), each of which passes on the packet, the bytes that
FIONREAD still promises and whether the function has returned. Poll and handler are separate actions,
so the peer can act between them. `masking_key_` starts as uninitialised memory: all zero or not,
chosen in `Init`. `sockErr` is the pending error of a reset socket: epoll reports it as EPOLLERR until
a system call takes it; after that, a write raises SIGPIPE. `MCWebSocketData` holds the sessions.

### AsyncLogging
`async-logging.cc`. A buffer is the sequence of its lines, numbered in the order in which `append` got
the mutex. `append` is one action per branch, the backend one action per section between two points
where a logger can run. An assertion that fails leads to `pc = "aborted"`. The wait ends whenever it
likes: `waitForSeconds` adds its argument as nanoseconds, so the timeout is immediate in practice, and
the code does not look at why it returned.

### FrameCodec
The heads of frames, byte by byte, as the four functions that write or read them have it: `EnHead`
(`webSocket_enPackage`), `SendResultHead` (`sendResult`), `DeHead` (`webSocket_dePackage`), `ServerBodySize`
(`readAndParsePacket`). Each draws the borders between the three forms of a length by itself, and not all in the same
place. The width of a byte (`Base`, 256) and the first border (`L7`, 126) are parameters, so that TLC can walk through all
three forms with short payloads.

### WebSocketClient (and MCWebSocketClient)
`websocket-client.cc` on one blocking socket. The stream is the HTTP response and the results, laid out with
`SendResultHead`; bytes of text are all alike, and what `dePackage` makes of text when a call starts inside it is chosen
from a few values (`OfText`). `LinkRecv` looks at each piece of the response by itself, as the code does. A call of
`webSocket_recv` is `Recv`, followed by `RecvMore` and `RecvMoreNothing` until the frame is whole or given up; `out` records
what it returned, where its buffer began and how much it took. `again` is an errno left by some other call.

### DogClient
`bin/dog-client.cc`: `SendThread(i)` and `Main`, which share `thread_ids`, the mutex and the condition variable. A socket
is what it holds each way, the FIN, and whether it is on epoll's ready list. Events in `ev[]` name the thread whose `uu` they point to and
remember the file they were reported for, so that a pointer that has come to mean another session can be told. `thread_ids`
starts with any values. A socket holds `Window` frames in each direction: a sender blocks on a full one, and the worker in
`writeData` tries again and reads nothing more. Frames are counted, not kept, and a frame that the worker has read but not
answered is counted as unread; the kernel is taken to deliver as soon as there is room. A failing `epoll_wait` makes main leave its loop (`EpollFails`, `mpc = "broken"`); what
it does then, while threads are still in their sessions, is undefined: the process ends or main never gets out of `pthread_cond_destroy` (`Abandon`). The server closes a session after its EOS,
as `SessionEnds` of `WebSocketData` says.

### HostLookup
The start of `webSocket_clientLinkToServer`, on top of `WebSocketClient`, which it extends: a host given by name is looked up by
a thread that writes `gs` in the frame of its creator (`Resolve`, then one `Store` per field, in any order, since nothing orders
them for the other thread). The creator polls (`Poll`) to a limit and joins. A `pthread_create` that fails is not noticed
(`Begin`), and the join of a thread that does not exist is an error or the end of the process (`JoinNothing`).

### Forest, CJson (and MCCJson)
`cJSON.cc`, the functions that link items. `heap` maps the live items to their structures, `held` is the set of items whose
pointer the caller owns, `lost` the items that no call can reach any more: cJSON loses what it is given when a copy of a name
cannot be allocated, or when there is nothing to replace. One action per function, with the failing `strdup` as an outcome. The
guards are the contract of the header: an item is added to one container only, a reference is not kept past what it refers to, an
item is not added below itself. What goes with a deleted item must not be referred to from elsewhere; for the calls that detach or replace
an item first, that is judged on the heap after they have done so (`Deletable`). `cJSON_Duplicate` walks into what a reference refers to, so it may
come to one list on two ways: it copies places of the tree, not items (`Places`). A name is a letter with its case, which is what `case_insensitive_strcmp` can tell apart; `copied`
remembers whether the library made the copy. `Forest` is the promise: ordered trees of items, changed by linking, unlinking and
felling; `Members` follows the lists of the heap and is the refinement mapping. Its `Next` allows any of these changes,
so that `ImplementsForest` has two parts: a call makes some such change, or none (`Lists!Spec`), and which one (`CallsDoTheirStep`): each call is tied to one step of `Forest`,
at the place that its index or its name gives. `MCCJson` bounds the numbers of items of each sort.

### JsonText, JsonString
Printing and parsing. A text is a sequence of tokens with widths: what `ensure`, `update_offset` and the parsers
look at is sizes and structure, not characters. `JsonText` has the print buffer in its three modes (growing, preset length,
caller's), the four mutually recursive printers and parsers with the depth counter, and `Compare` with its two passes over
an object. `JsonString` is below that, byte by byte: the reservation and the escapes of `print_string_ptr`, the allocation and the
loop of `parse_string`, `utf16_literal_to_utf8`, and `cJSON_Minify`.

### Sha1, Sha1Block, Base64, ShakeKey
`Sha1` is buffering, counting and padding, parameterised by the operator that processes a block and by the width of the length
counters, so that the counters can be made to overflow; `Sha1Block` is the compression function on 32-bit words. `Base64` holds the encoders
and decoders of the server and of the client library. `ShakeKey` puts them together the way `sendRespond` does it (digest words
through `htonl`) and the way `webSocket_buildRespondShakeKey` does (digest as hexadecimal text, read back by `htoi`).

### LogLine
`logging.cc`, `log-stream.cc`, `fixed-buffer.h`: the pieces of one line put into the small buffer, each whole or not at all, and
`convert`, which works on the last digit of negative numbers too.

### MCCodecs
One step per input: `in` is chosen from the bounded inputs of one conversion, the step computes `out`, and the invariants compare
it with definitions that do not look at the code. These modules are recursive and no module with a theorem reaches them.

### Definitions named as faults
A definition whose comment begins with "Fault:" is a small change of the operation it precedes (a
dropped wakeup, a missing reset). No specification uses it; substituted for the operation it makes the
property listed with it in `PROJECT.json` fail, which shows that the property looks at that operation.

## 3. What TLC checks

| Run | Configuration | Shows |
|---|---|---|
| `event_loop` | 3 functors, 2 callers | `NoStrandedFunctor`: no lost wakeup; `WakeupReadable`: the error branch of `handleRead` is dead; `ImplementsExecutor`; `EveryFunctorRuns`; `QuitLeaves` |
| `event_loop_thread` | 2 functors, the owner as caller | `TidAssertHolds`, `LoopUsable`; `LoopOutlivesCalls`: only the wakeup of the destructor's own `quit` can meet a destroyed loop; `OwnerCallsReturn`: `startLoop` and the destructor return |
| `server` | 4 peers, 2 workers, 3 descriptors, MAXFDS at 2, failing `fcntl` and `epoll_ctl` | `OneConnPerLoop`, `ChannelTable`, `NoStrandedBacklog`, `WorkersAccounted`, `EveryConnServed`: with more peers than workers everybody is served as long as a worker is left |
| `websocket` | 7 sessions, 2 of them with unmasked frames, 2-byte head, lengths kept modulo 4 | `PayloadIntact`: masked payloads whole and in order, also behind unmasked ones; `InSync`, `ReplyProtocol`; `SessionEnds`, for peers that send their end and for those that leave early |
| `async_logging` | 9 lines, 2 per buffer, backlog limit 3 | `NoAssertFails`; `LinesConserved`: every line once and in order, no buffer past its capacity; `BackendKeepsUp`: lines reach the file while the logger runs, and `stop` returns |
| `websocket_client` | look-up with 2 polls, 4 sessions, bytes of one bit, buffer of 13 | `LookupAnswer`: the address is the one found and no thread writes to a frame that is gone; `LinkedOnce`, `RecvWhole`, `RecvLoses`; `CallsReturn`: look-up, link and receive return when the peer ends |
| `dog_client` | 2 threads, 4 files of 4 frames, sockets of 2 frames | `NoEarlyClose`, `NoStaleEvent`; `EndsLast`: the timeout lets main go only when all is done; `Ends`: no close is missed, and no circle of full sockets |
| `cjson` | 4 items; at once 2 containers, 1 object, 1 item that is a reference or lost, 2 that are named, or named and such | `ListsLinked`, `OwnedOnce`, `NamesFreedRight`; `ImplementsForest`: each call is the step of a forest that its name says, at the right place |
| `codecs` | 24,720 inputs, see below | `KeysAgree`, `PaddingReference`, `TextInside`, `ParsesBack`, `StringsSurvive`, `LineKept` |

The type invariant of a module, where no theorem of its own states it, is the first conjunct of one of its invariants (`InSync`,
`RecvWhole`, `EndsLast`, `LinesConserved`, `ListsLinked`). Three more runs end in a counterexample that
shows where the code departs from what it says:

| Run | Violated | What happens |
|---|---|---|
| `server_silent` | `ConnExpires` | connections are registered with an expiry of 2000 ms that nothing enforces; a silent peer keeps a worker |
| `websocket_oversize` | `OversizeRefused` | `&&` for `\|\|`: most lengths above 32 bits are truncated instead of refused |
| `websocket_reset` | `SurvivesReset` | the SIGPIPE handler is written but not installed; a reset ends the process |

**Bounds.** Three functors are one in a batch, one pushed meanwhile and one in a call under way; two
callers let a push of one fall between the push and the wakeup of the other. Two workers and four peers
give a worker in use while the other changes hands, a peer in hand and one in the backlog; three
descriptors, the last above MAXFDS, make refusal, reuse and EMFILE all happen. Frames of five bytes are
longer than the key, 2- and 8-byte extended lengths, empty and dropped frames all occur, and the
stream is cut at every byte. `LenMod` scales 2^32 down to 4: a 64-bit length of 5 is oversize. Nine
lines fill four buffers, one more than the backlog limit, which triggers the drop. With `Base` and `L7` at 2, results of 1, 2
and 3 bytes take heads of 2, 4 and 10; a buffer of 13 holds the last exactly, misses a result of 4 by one byte and refuses one
of 14. Two threads and four files give one a session while the other takes a second and a third file; files of four frames on
sockets of two block the sender and the worker, and leave results unread behind a spent edge. Four items are enough for a first,
a middle and a last member of a list, or a tree of three levels, and one item to be added, inserted, or to refer to it; two names
that differ in case only meet in one object.

The inputs of `codecs`: all strings of up to four of five bytes, and two nonces, for Base64 and the handshake (with the full SHA-1); message
lengths up to 43 in two calls of `Input`, with blocks of 6 bytes and length counters of 4 bits, so that the border of
a block, the carry into the second counter and its overflow all occur; trees of up to three levels with names, numbers and raw text, printed into every size of
buffer and with a largest size (`INT_MAX`) small enough to be met, and the nesting limit at 3; pairs of objects for `Compare`; strings with every class of
byte; UTF-16 literals of every class, and on both sides of every border; lines whose pieces fill a buffer of 30 to the last byte. `MCCodecs` names each set.

**Fairness.** The loop's thread, the acceptor, the workers and the logging backend are weakly fair:
they are threads that block only in the waits that are modelled. A caller between its push and its
wakeup finishes its call. In `Server`, a peer that is not in `Silent` ends its session, so its connection is
eventually closed; `SessionEnds` of `WebSocketData` is the reason this is sound. Peers, loggers, and
callers that have not started a call, are never fair. In `websocket` the worker's poll and handler are fair,
the peer is not.

In `websocket_client` the client runs
whenever it is not blocked in a system call, and so does the thread of the look-up, whose `gethostbyname_r` returns (it has a
timeout of its own); the peer is never fair, so `CallsReturn` asks for its end first.
In `dog_client` all threads are fair, and so is the worker: it answers what it has room to answer and closes what has ended.
`cjson` and `codecs` have no liveness: they are calls and functions.
In `event_loop_thread` the thread, and the owner inside a call, are fair; the owner need not begin a call.

**Deadlock** is not checked: a loop that has left, a closed connection, a stopped logger, and a server
to which nobody connects any more rest; so do a conversion that has been computed and a heap at its bounds. A circle of waits would
show in the liveness properties.

What is assumed: `dog_client` takes the `usleep(1000)` after each `pthread_create` to be long enough for the new thread to copy its
number and pass its first lock (`SleepSuffices`). Nothing in the code enforces it; with `SleepSuffices = FALSE` TLC violates
`NoEarlyClose`, `NoStaleEvent` and `EndsLast`, because two threads can share a number and uninitialised flags can look like
finished threads.

What the properties excuse, because the code does it: an unmasked payload is XORed with whatever key came before; an item that cJSON
could not add or had nothing to replace is lost, with a wrong flag if its name was constant; webSocket_recv loses a frame whose head is cut, frames behind the first in
one buffer, and frames that fill the buffer with head and payload; the link waits without limit on a silent server; an accept that fails with EMFILE leaves the
backlog until the next arrival (`starved`); a failing `fcntl` disarms the acceptor and, like a descriptor
above MAXFDS and a failing `epoll_ctl`, loses a worker; a reset is ignored by `handleEvents`, so a session
that is reset need not end; a FIN without EOS makes the worker spin, and `SessionEnds` leaves such sessions out; a client whose response is cut never links, which
`LinkedOnce` does not deny; a `quit()` that `loop()` overwrites on its entry is lost, and the destructor then does not return; the `wakeup()` of the destructor may be made on a destroyed loop; a failing
`epoll_wait` makes `dog-client` leave with files unsent and sessions open (`EndsLast` and `Ends` name it); lines appended after the last swap are lost on stop.

## 4. What TLAPS proves

Every invariant that a passing run checks is a theorem, except those of `codecs`, and so are the action property `ReplyProtocol` and the refinements
`ImplementsExecutor` and `ImplementsForest`. They hold for every value of the constants, under the named assumptions of the modules: there is a worker, a thread, a line
per buffer, a poll of the look-up and a backlog limit of at least one; null values are not values; scripts are sequences of
frames (`DataAssumption`) or of results that are not empty and fit 32 bits (`ScriptsAssumption`); the items of a heap are finite
(`ItemsAssumption`). Theorems that need more say so in an ASSUME of their own, named below.

* `EventLoopProofs`: `TypeCorrect`, `NeverStranded`, `AlwaysReadable`. The inductive invariant adds
  `BatchDiscipline` (`callingPendingFunctors_` is up exactly in `run`, and the batch is empty elsewhere): without
  it the swap could overwrite functors, and a push from a callback could miss its wakeup.
  `LoopImplementsExecutor` proves the refinement step by step: the swap and the end of a batch map to
  stuttering, each run of a functor to `RunOldest`.
  For `EventLoopThread`: `TidAlwaysStored`, `LoopAlwaysUsable`, `LoopAlwaysOutlivesCalls`. The invariant is the order of the
  hand-over: the latch is open only after the store to `tid_` (`LatchOrder`), `loop_` is set exactly while the thread
  loops (`PtrOrder`), the loop leaves only because its owner is in the destructor (`QuitOrder`), and the destructor joins
  only after its own calls (`EndOrder`). One lemma (`LoopFrame`) says all it needs to know of a step of `loop()`.
* `ServerProofs`: `TypeCorrect`, `ExclusiveWorkers`, `ExactChannelTable`, `BacklogNeverStranded`,
  `WorkersAlwaysAccounted`, with faults enabled. They rest on one invariant that says which connections are in whose hands:
  descriptors of live connections are distinct (`FdsDistinct`), an idle worker has no connection
  (`IdleMeansFree`), a worker's queue holds exactly its queued connections, the connection in hand is the
  only accepted one.
* `WebSocketDataProofs`: `AlwaysInSync`, for sessions in which no length above the parser's width gets past its test (`Fits`; `websocket_oversize` shows
  what happens otherwise), and `AlwaysPayloadIntact`, if moreover the text EOS is masked, as the protocol asks (`EosMasked`: an unmasked one is XORed
  with the key before it and not recognised). `DataInv` says which frame m the session has come to: the parser is before it or
  inside it, the read position agrees with the bytes it still wants, and the decoder has what the frames before m carry (`Reached`). Each
  stage of `readAndParsePacket` has a lemma of its own (`Stage0Works` to `StageDataWorks`), since one call may pass through all of them. `RepliesInOrder` needs no assumption.
* `AsyncLoggingProofs`: `AssertionsNeverFail`. The invariant counts buffers: a missing `nextBuffer_` means a
  queued buffer (`Spares`), hence the swap takes two whenever it gives two away, and both cuts keep two (`InHand`).
  `LinesAlwaysConserved`: the lines on their way, from the file through the backend's batch to the current buffer, are one increasing sequence
  (`Way`), and with those of dropped batches they are all lines appended so far (`Kept`). The drop cuts a piece out of the
  middle of that sequence, every other step moves a border in it. That no buffer is filled past its capacity is `FitInv`.
* `WebSocketClientProofs`: `ServerReadsClient` and `ClientReadsServer`, with the real widths (`Base = 256`, `L7 = 126`) and for every
  length: each side reads what the other writes, although they disagree about where the long form begins. Both are case
  splits on the form, with two arithmetic lemmas (`Word16`, `Word32`).
  `AlwaysLinkedOnce`: the invariant adds that one head has been sent as long as nothing was read
  (`FirstPiece`): only the first piece can match, so a client that had to repeat its head is never linked.
  `AlwaysRecvWhole` and `AlwaysRecvLoses`, with the real widths: the run has small ones, the theorems have those of the code, for results that fit 32 bits together with their head. The invariant
  (`RecvInv`) remembers that a call that waits for more and began on a frame has read that frame's head right, by `ClientReadsServer`.
  `LookupAlwaysAnswers` for the look-up (`LookupInv`: which fields of `gs` the thread has yet to store), and `LookupImplementsClient`: with its look-up the
  client takes only the steps it takes without.
* `DogClientProofs`: `NeverClosesEarly`, `NeverFollowsStaleEvent`, `AlwaysEndsLast`, under `SleepSuffices`; the last is about the end on the timeout, after which the code intends to stop, and not about a failing `epoll_wait`. The invariant ties the three places that know
  of a session to each other: a flag of 1 on a waiting thread means the FIN has come and been reported (`FlagPart`), an event
  in `ev[]` belongs to the session its thread is still in (`EventPart`), and of one thread there is at most one.
* `CJsonProofs`: `ListsAlwaysLinked`, `AlwaysOwnedOnce`, `NamesAlwaysFreedRight`. `ListsLinked` and `OwnedOnce` are not inductive: what a call does to the lists depends on there
  being no way from an item back to itself, which neither says. `HeapInv` adds that (`Grounded`: of every set of items, one is led to by none of
  them), that a list has one owner and is otherwise shared by references only (`Single`), and that every item is held, lost or in a list that has its owner (`Rooted`, `Ruled`). What `cJSON_Delete` visits is shown
  to be the least set that contains the item and is closed under child and next (`FreedIs`), and the last member, which `suffix_object` is called with, is found
  by counting (`LastMember`). One lemma per change of the heap (alloc, delete, insert, detach, relink, copy), then one per function.
  `RefinesForest`: every call is a step of `Forest`, or changes nothing in it, and it is the one that its name says. The members of a container are the one sequence that follows its list from
  child to the end (`IsList`, `ListUnique`), and no item is at two places of these sequences (`OnePlace`); so a change of the heap is shown to be a change of one sequence
  (`KidsInserted`, `KidsDetached`, `KidsRelinked`, `KidsGrown`) by exhibiting the new one. The trees that `Forest` deletes are what `cJSON_Delete` visits (`TreeIsFreed`, `KidsDeleted`),
  and the tree of a member that is taken out first is the one it had in its container, because the container is not below it (`NotBelowMember`, `ChildTree`). For a call by name, the item found is the first member so called (`ItemCalled`,
`FirstFound`), also when the new item has just been renamed, because that is no member. Of a duplicate only this is proved: one new tree of copies that belongs to the caller, not its shape.

Induction over data. The provers cannot use the library's induction theorems that take an operator, so the recursive functions that invariants speak of (the
concatenation of buffers, where a frame begins, what a walk along the lists visits) are reasoned about through sets: `SequenceLemmas` derives from the least element of a nonempty set
of numbers that a set with 0 and successors holds all of them (`SetInduction`), and states once what concatenation,
cutting and flattening do.

Only model-checked:

* liveness (`EveryFunctorRuns`, `QuitLeaves`, `OwnerCallsReturn`, `EveryConnServed`, `SessionEnds`, `BackendKeepsUp`,
  `CallsReturn`, `Ends`), which needs fairness and ENABLED;
* everything `codecs` checks: these modules are recursive, and tlapm does not take such modules.

## 5. Not modelled

* What an allocation that fails leaves behind, except for the `strdup` of cJSON's names.
* A case-sensitive lookup that meets a member without a name: `strcmp` gets NULL (`cJSON.cc:1779`), which is undefined. A caller gets there through no fault of its own, when the
  `strdup` of `replace_item_in_object` (2082) has failed; `Searchable` keeps the model from it.
* `cJSON_Raw` with no text: `print_value` frees the buffer (1302-1309) and its caller frees it again. The shortcut of `cJSON_Compare` for the same pointer (2646), since trees are values here.
  Minify is checked on texts whose strings and comments are closed; on others the code reads past the terminator (2494, 2508).
* The size of the buffer of a result: `sendResult` reserves 8 bytes of head for results of 0xFFFF bytes and more and writes 10 (`websocket-data.cc:467`, 501). What is sent is modelled, the two bytes past the end
  of the buffer are not.
* Lengths of 2^31 and more in the server: `resize` and `len_` are `int` (`packet-buffer.h:50`, 61) and would be negative. Lengths within a head of 2^32 in the client: `dePackage` adds in 32 bits (`websocket-client.cc:918`) and wraps.
* Errors of `accept` other than EAGAIN and EMFILE; a FIN that is followed by a reset, which fails with EPIPE where a reset alone fails with ECONNRESET first.
* cJSON: the value of a number (`strtod`, the saturation of `valueint`, the decimal point of the locale), the byte order mark,
  `cJSON_GetErrorPtr`, `cJSON_InitHooks`, and the functions that only read a type.
* The text of log lines and HTTP heads beyond what is compared. `localtime` returns one structure to all threads, so that a time in
  the log may be put together from two calls.
* The log file, socket set-up (`util.cc`) and argument parsing: single system calls.
* The dump of each session to a file (`websocket-data.cc:541`): its `fopen` is unchecked, and one that fails ends the process at the first frame.
* The client library's ping and pong (the server sends neither), its server half and `netCheck_*`, which nothing in the repository calls.
* The speech decoder, which is not in the repository: `received` is what it is given.
* The index of the spinning scan in `getNextLoop` is counted modulo the number of workers; as an `int` it would overflow after hours
  of a saturated pool.

## 6. Plan

1. A session byte by byte: `WebSocketClient` and `WebSocketData` composed over two streams, for the second head of a client
   whose response was cut.
2. The composition of `Server` with `WebSocketData` for one connection, to replace the assumption that sessions end by the specification that
   says so.
