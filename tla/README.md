# Verification of a-network-playground

The repository holds several small network servers, each written by hand in
one or two files: the same HTTP and WebSocket-chat server in C++ (blocking and
epoll), C, Rust (three versions) and Zig, plain HTTP servers in Zig, Go and
Elixir, and two command-line tools that look up MX records. There is no shared
library; the same designs recur (a thread pool, a keep-alive loop, frames, chat
rooms) and differ in detail. This project models the designs, with the
differences where they matter.

## 1. The system

| part | where | state | operations |
|---|---|---|---|
| thread pool | `backend_cc/main.cc` 73-131 (copied in `main_async.cc`), `backend_c/main.c` 90-169, `backend_rs/src/main.rs` 195-277 (copied in `compare1/`, `compare2/`) | task queue, mutex, condition variable, stop flag, threads | enqueue, worker loop, destroy |
| blocking chat server | `backend_cc/main.cc` 636-1292 | listening socket, one descriptor per connection, `g_websocket_rooms` under `g_rooms_mutex` | accept, serve requests, upgrade, join, broadcast, leave, close |
| epoll server | `backend_cc/main_async.cc` | map of connections with buffers, one mutex; pool; rooms | epoll loop, HTTP task, WebSocket task |
| Rust chat rooms | `backend_rs/src/main.rs` 580-720 (copied in `compare1/`; with timeouts in `compare2/`) | rooms of cloned sockets under one `Mutex` | upgrade, join, broadcast, reply, leave |
| Zig chat rooms | `backend_zig/main_async.zig` 872-1003 and 1577-1703 | rooms of heap objects in a map with borrowed keys, two mutexes | upgrade, join, broadcast, leave, destroy |
| keep-alive loops | `handle_client` of `main.rs`, `main.cc`, `main.c`; `handleClient` of `main.zig`; `handle_request_loop` of `main.ex` | a buffer and how much of it is used | read, find a request, answer, shift |
| comparison servers | `handle_client` of `compare1/main1.rs` and `compare2/main2.rs` | the same, and socket timeouts | read, parse, route, answer, upgrade |
| WebSocket frames | `WebSocketFrame` and the frame loops of C++, C, Rust, Zig | a buffer, an offset | parse, serialize, react to each opcode |
| helpers | percent decoding, query strings, paths, JSON echo, SHA-1, Base64, Range, multipart, MIME types | none | pure |
| static files | all but Go and Elixir | file system | resolve, open, stream |
| Elixir server | `backend_ex/main.ex` | listening socket, supervised tasks | accept, one task per connection |
| Go server | `backend_go/main.go` | none of its own | `net/http` handlers |
| MX tools | `nslookup_c/main.c`, `nslookup_go/main.go` | none | query, filter, sort, print |

**How they interact.** A server's main thread accepts and hands the descriptor
to the pool; a worker runs the connection's handler to its end, so a chat keeps
a worker. Handlers share the descriptor table of the process and the rooms; a
broadcast runs on the sender's worker and writes to the members' sockets with
the rooms' mutex held. In `main_async.cc` the epoll thread reads all
connections and hands requests to the pool by descriptor number, and a task
that upgrades a connection enqueues another task for the session.

**What is hard.** Lost wakeups in the pool and its shutdown; descriptor numbers
that are closed twice, reused, or kept after a close; blocking writes under a
lock; two threads on one connection (`main_async.cc`); sockets recognised by a
peer address that another may have (Rust); memory shared by an owner and a
broadcast, and keys that outlive their bytes (Zig); requests and frames cut
anywhere by the network, several in one read, or larger than the buffer;
timeouts (Elixir, `main2.rs`). The list, line by line, is `hazards` in
`PROJECT.json`.

**What makes each part correct.**

* pool: an accepted task is run once, in order, and without waiting while a
  worker is idle; destruction runs what was accepted and returns.
* chat: a member is given the texts of its room from its join on, once, in one
  order for all; a room lists its sessions and nothing else; a session ends when
  its client is gone.
* keep-alive: one reply for each request, in order, whatever the cuts; a
  handler ends with its client.
* frames: each frame is acted on once, whatever the cuts; Close ends a session.
* helpers: agree with a reference definition, stay inside their buffers.

## 2. Modules

| module | models | checked by |
|---|---|---|
| `TaskExecutor` | what callers expect of a pool (abstract) | refinement in run `pool` |
| `ThreadPool` | the pool, three variants | run `pool` |
| `ThreadPool_proofs` | its theorems | TLAPS |
| `ChatRoom` | what a room promises its members (abstract) | refinement in `rs_chat`, steps in `zig_rooms` |
| `RsChat` | the chat rooms of the three Rust servers | run `rs_chat` |
| `RsChat_proofs` | its theorems | TLAPS |
| `CcServer` | the blocking server of `main.cc`: accept, workers, descriptors, rooms | runs `cc_rooms`, `cc_live`, `cc_stray` |
| `CcServer_proofs` | its theorems | TLAPS |
| `AsyncServer` | the epoll server of `main_async.cc` | run `async` |
| `AsyncServer_proofs` | its theorems | TLAPS |
| `ZigRooms` | the chat rooms of `main_async.zig` and their memory | run `zig_rooms` |
| `ZigRooms_proofs` | its theorems | TLAPS |
| `KeepAlive` | five keep-alive loops | runs `keepalive`, `rs_repeats` |
| `KeepAlive_proofs` | its theorems | TLAPS |
| `RsCompare` | the request loops of `main1.rs` and `main2.rs` | run `rs_compare` |
| `WsFrames` | the frame codec and three frame loops | run `ws_frames` |
| `WsFrames_proofs` | its theorems | TLAPS |
| `RsText` | the text algorithms of `backend_rs` | run `rs_text` |
| `Lists` | `Pick`, a list without some of its places; `Horner`, numbers from digits and sums | `cc_rooms`, `zig_rooms`, `ws_frames`, `async` |
| `DataLemmas` | least elements, induction, `Pick`, `Horner` | TLAPS |
| `MC...` | the instances for TLC | |

A definition followed by "Mutant" in its comment is not part of a model: it is
the form that another definition would have with a plausible bug, and
`PROJECT.json` says which property notices.

### ThreadPool

`impl`, chosen by `Init`, says which copy runs: `"cc"`, `"c"` or `"rs"`. They
differ in three places: `main.c` signals before it unlocks and never refuses a
task (`EnqueuePush`, `EnqueueSignal`); the C++ pool throws when it is stopped
(`EnqueueThrow`); C and Rust set the flag without the mutex (`StopUnlockedC`,
`StopUnlockedRs`, against `StopLocked`). `pc` is each thread's place, `lock` the
mutex, a worker at `"waiting"` is inside the condition variable, and between
`"test"` and `"waiting"` there is `"sleep"`, where it has tested but not yet
parked. `accepted`, `started`, `ended` and `refused` are history variables.
Tasks in `Nested` are enqueued by a running task, as `main_async.cc` does at
the upgrade; tasks in `Endless` need not return, as a chat need not.

Instance: two workers, three tasks that return, one nested and endless chat.
Two workers are needed to have one parked while the other runs, three tasks to
have more tasks than workers, the chat to keep one worker for ever.

Fairness: a running thread goes on (weak), a thread asking for the mutex gets
it if it is released again and again (strong, the operating system's promise),
a task outside `Endless` returns. Nobody is made to enqueue or to destroy.

What holds: `Accounting`, `WorkConserving`, `DrainedAtJoin`, `Refinement`,
`EveryAcceptedTaskEnds` for the three variants; `NoSleeperAfterBroadcast` and
`ShutdownCompletes` for C++ only. With `impl = "c"` or `"rs"` both are false
(drop `impl = "cc"` from them to see it): a worker at `"sleep"` misses both the
flag and the broadcast, and the join never returns. No comment in the source
claims otherwise, so this is a hazard and not a finding. (`main.c` gets there
when `bind` or `listen` fails.)

### ChatRoom and RsChat

`ChatRoom` says what a room is for, without threads or sockets: a text enters
the `log` of its room at one point, and each member goes through the log, one
text at a time, from where it stood at the member's `Join`. A text may be
skipped (`Lose`) only for a client in `lossy`, which grows (`GiveUp`) when the
server has given a connection up.

`RsChat` follows a connection from its upgrade request to the end of
`handle_websocket_client`. `prog` says which program runs: `"main"` (the code of
`main.rs` and `main1.rs`) or `"main2"`, where a read or a write also ends after
six seconds. A room holds clones of sockets; `Leave` takes out of it what has no
peer any more and what has the peer address of the handler's own socket. `Addr`
gives the addresses, and two connections of one address may follow each other
while the handler of the first is not done. `Start` is `peer_addr().unwrap()`: a
reset before it panics, and `env.sh` builds with `-C panic=abort`. A frame is
written in two halves (`SendHalf`, `SendRest`), because `write_all` may have to
wait in the middle; `torn` notes what was written between the halves of a text.
`log`, `at` and `got` are history variables that map to `ChatRoom`.

The list of a room is a set here, so that a broadcast goes through it in any
order; the worker pool is left out, as each connection finds a worker (there are
at least 256); failures to clone a socket are left out.

Instance (`rs_chat`): three connections in one room, `c1` and `c3` from one
address. In `main.rs`, `c1` and `c2` may each send any frame and `c3` none; in
`main2.rs`, where timeouts add many more behaviours, `c2` says a text and `c3`
pings or closes. One frame for each client is enough for two concurrent
broadcasts, and a window of half a frame lets each write block in its middle.

Fairness: each handler takes a step if it can go on taking one (weak); nothing
is assumed of the clients. The lock needs no more, as the frames are bounded.

What holds: `RoomsExact` (in both directions, with the two excuses that the text
of `SessionListed` names: the client is gone, or an earlier connection with the
same address left after it had joined), `TextsWhole`, `Refinement`, and
`SessionEnds` up to a peer of `main.rs` that stops reading. A Pong or Close does
tear texts, as it is written without the lock; `torn` records it and no property
forbids it.

### CcServer

A connection is named after its client; a descriptor is a number, and `file`
says which connection each number stands for now. A system call takes the
connection at entry (`Enter`, `SendEnter`) and keeps it in `call` until it
returns, so closing a number under a blocked `read` leaves the read where it
is, as Linux does. `accept` hands out the lowest free number. A client may send
requests and frames, stop reading (`unread` reaches `Window`, and writes to it
block) or hang up at any time. The pool is here a queue and workers that take
from it; its internals are `ThreadPool`'s. A request or a frame is one message,
and a write is one step.

A handler is `StartTask`, then the read/answer loop of `handle_client`
(`Http...`, `WriteEnter`, `WriteDone`), and after an upgrade the loop of
`handle_websocket` (`Join`, `Chat...`, `BroadcastLock`, `SendEnter`,
`SendDone`, `BroadcastUnlock`). It ends with two closes: `Leave` and
`CloseInner` are the destructor of `handle_websocket`'s `SocketCloser`,
`CloseOuter` that of `handle_client`'s. `HttpReadFrame` and `ChatReadRequest`
happen only to a handler whose descriptor was taken over by another connection.

A member leaves the list of its room by `Pick` of `Lists`, which keeps the places
it is told to, in order, as `erase` of `remove` does.

`reused` is a history variable: it becomes true when `accept` hands out a number
that some handler has closed once and will close again. `cc_stray` shows what
this leads to. `ListedIsOpen` and `StraysOnlyAfterReuse` (run `cc_rooms`) say
that this is the only way: as long as it has not happened, rooms list open
descriptors of their own clients and texts stay in their room.

`AgreedOrder` holds in all cases, since a broadcast keeps the mutex over all its
writes. The price is `RoomsKeepMoving` and `SessionEnds`: they hold only up to
`SlowPeer`, a client that stops reading for ever.

Instances: `cc_rooms` and `cc_stray` have two clients in one room and one in
another, two workers and two descriptors, two messages per client; three
clients are the fewest for a stray text (one leaves, one stays listed, one
takes over), two descriptors the fewest for two open sessions. `cc_rooms`
permutes the two clients of one room and the workers. `cc_live` has two clients
that may send everything, and no symmetry. The window is one frame, so that a
client that does not read blocks its peers at once.

Fairness: workers and the accept loop run (weak). Nothing is assumed of the
clients. Weak fairness is enough for the mutex because clients send a bounded
number of frames.

### AsyncServer

One epoll thread and the tasks it hands out. `ready` is the kernel's
edge-triggered list, `events` what the last `epoll_wait` returned, `at` the step
the thread is in; `connections` is the map from descriptor numbers to buffers
and states, `tasks` the HTTP tasks queued for each number, `lock` the holder of
`connections_mutex` while `send_all` waits for a window, `chat` the workers that
run `handle_websocket`. The epoll thread reads at most `Most` tokens for an
event and does not come back for the rest. A task looks its connection up by
number when it runs: after a close and an `accept` the number may be another
client's, and the task then answers what it finds there. A chat handler and the
epoll thread read the same socket, and both close it.

`reused` becomes true when `accept` is given a number that a chat handler still
holds or has left in the map. `ClientsKeptApart` says that until then nobody is
given another's replies or frames, and replies come in order and once; a second
answer to an upgrade, which a task of an earlier connection on the same number
can cause, is excused. `PatientServed` says that a client that asks one thing at
a time is answered, unless another reads nothing for ever.

Instance (`async`): a client that waits for each reply and one that does not, on
two numbers, with scripts of a page, a file, and a chat; four workers for chats,
more than the sessions there can be. Two clients are enough for a number to be
passed on while tasks or handlers of its first owner are left. Fairness: the
epoll thread and each number's tasks run (weak); a chat handler need not. Left
out: the rooms and broadcasts (they are those of `CcServer`), `stop()`, failures
of `accept` and `epoll_ctl`, and a pool without a free worker.

### ZigRooms

The rooms of `main_async.zig` are made of memory, and the model is of that
memory. `heap` says which connection an object holds, `freed` how often it is in
the free lists: `create` takes an object from there or a new one, `destroy` adds
it without looking. The map does not copy its keys, and a key is the room name
in the buffer of the handler that made the entry; `rooms` is therefore indexed
by that handler's connection, and an entry whose maker is done is `Stale`: a
search may take it for its own or pass it by (`Entries`). A write that fails
puts its place in `failed`; `BroadcastEnd` removes and destroys those, and
removes the room when it is empty, before the mutex in it is unlocked (`Unlock`).
A write to a destroyed object crashes, since the safe build fills freed memory
with a pattern. `faults` notes that a write failed or a stale key was met.

The properties say what holds before the first fault, and what a fault is needed
for: `RoomsExact` and `PromiseKept` (every step is one of `ChatRoom`) hold until
either fault; `ObjectsApart`, that two handlers never hold one object, until a
write fails, stale keys or not. Afterwards it does not: drop
`"write" \notin faults` to see a broadcast destroy an object that its owner
destroys again, and two later sessions share one. In the same way, without its
first line `RoomsExact` shows a room split into two entries after its first
member has left, and a mutex unlocked in a removed entry.

Instance (`zig_rooms`): three connections that ask for one room and two texts,
with symmetry. Three are the fewest for two later sessions to share an object
that a third one's failed write put twice in the free lists, and for a stale key
between a member that stays and one that comes; two texts give an order. No
fairness: a broadcast can wait for a window with the mutex held, as in the other
servers. Left out: failures to allocate, and more than 64 failed writes in one
broadcast.

### KeepAlive

A token is a line with its CRLF; the buffer is always a part of what the client
sent, kept as the positions `base` and `filled`. `Cap` is the buffer's size in
tokens; Elixir's has none. The client sends token by token, so every cut at a
line is covered, and cuts inside a line behave like a cut before it, because the
loops look for the line ends only. A `patient` client sends a request when the
last was answered, others send ahead. Request kinds are those the loops tell
apart: a route, a static file that cannot be served, a line that does not parse.

`rs` takes all complete requests from the buffer before it reads; `cc`, `c` and
`zig` read, then take one. On a malformed line `rs` and `c` refuse and close,
`cc` answers and drops the buffer, `zig` drops it silently. A full buffer with
no complete request ends the connection, in `rs` after a 400 (`TooLong`). A
reply that cannot be written ends it too, except in `c`, and in `cc` after a
malformed line or a file. `ex` reads a line, skips to the empty line and
may run into a timeout in either. `main.zig` moves the rest of its buffer with
`@memcpy`, which panics on overlap (`ZigOverlap`).

`RepliesInOrder` names three exceptions. `rs` answers a file that it cannot serve
again (`rs_repeats`). Its 400 for lack of room goes to a request that has not
arrived whole: the property says that it is then the last reply, and that the
request is longer than the buffer and begins where the buffer does. `ex` is
excused after a timeout in the middle of the headers (`timedOut`). A request
without header lines makes `ex` skip the next one as well; that one is not
answered, but the order is kept. `InRequests` says what a stream is: requests one
after the other, each from its line to its empty line.
`PatientClientServed` needs nothing more than the fairness of
the handler. `PipelinedServed` says what a pipelining client can rely on: `rs`
answers all it has; `cc`, `c` and `zig` leave a complete request in the buffer
until more bytes come, and answer it then.

Instance: 14 streams of two or three requests with no, one, two or four header
lines, among them each kind in the middle and one request larger than the
buffer, for each of the five programs. `MaxReplies` only bounds `rs_repeats`'
endless answers.

### RsCompare

The request loops of the two comparison servers, with the parts of a request
that decide what happens to it: method, target, version, `Connection`,
`Upgrade`, key, number of headers, body. A stream is made of heads, the empty
lines that end them and bodies. `rs1` looks for spaces and headers in all that is
buffered from the request on (`Spaceless`, `AsksUpgrade1`); `rs2` parses after
every read, whether the request is whole or not, in the order of the checks of
`parse_http_request` (`Refusal2`), answers one request for each read, and takes
only the head from the buffer, so that a body becomes the start of the next
request (`Glued`). Its reads and writes end after six seconds (`ReadEnds`).

`RepliesInStep`: whatever the cuts, the i-th reply is the one due to the i-th
request, up to the first body, and nothing follows a reply that closes. The
reply due is stated from the request alone (`Due1`, `Due2`); `Leaks` is the case
in which `rs1` takes a later request's headers for those of this one.
`PipelinedAnswered`: `rs1` needs no more bytes to answer what it has.
`HandlerReturns`: a handler ends with its client, `rs2` also when the client is
silent.

Instance (`rs_compare`): each way a request can be unusual, alone in front of a
plain request and between two plain ones, with room for two or four tokens in
the buffer, every cut and delay. Fairness of the handler only. Of bodies, only
one of the announced length is sent; chunked and oversized ones are refused
before they are looked at. Header text, dates and the content of replies are left
out.

### WsFrames

Positions count the bytes that the client sends; the buffer holds
`start + 1 .. filled`, of which the loop has parsed up to `base`. `Serialize` and
`Parse` are the codec with its three length fields, and `Size` is what `Parse`
waits for. The loops differ in what they do with what they parse: `rs` and
`cc` keep a frame's opcode, `zig` broadcasts all as text; `rs` drops what is
buffered behind a Close and reads on, `cc` answers and leaves, `zig` answers and
keeps the Close in front of its buffer (`CloseZig`), so that it is answered
again after each read. `cc` takes a partial frame behind complete ones for a
malformed one. A full buffer makes the read of `rs` return 0, `cc` end the
session and `zig` skip the read (`ReadSkipped`) and parse again, for ever. `zig`
copies payloads to arrays that are too short for some of them (`Overrun`).

`zig` gives its parser the array up to the end, not up to what it has read
(line 1657). A frame of which a part has arrived is then complete with whatever
the array held before, if it fits, and the loop takes the rest of it for the next
frame (`Misread`, `Drift`); it waits as intended only for a frame that reaches
beyond the array. Before the header has arrived, stale bytes decide, and both are
possible. `rs` may get there too, when what it drops behind a Close ends inside a
frame (`CloseRs`). Such a handler is `"adrift"`: what it writes is not followed
any further, only that `rs` leaves when its client does.

`InStep` has four parts: a handler parses at frame borders (`AtBorders`, which
names who may be adrift); what is written answers the frames in order, none
twice but for zig's Close (`InOrder`); every frame that was parsed, and that has
no Close in front of it, is answered (`Complete`); and what is written parses as
the frame it answers (`Copied`). `FramesAnswered`: what has arrived whole and fits
is answered without more bytes. `HandlerReturns`: the session ends with the
client; for `zig`, if all frames fit and nothing comes behind a Close.

Instance (`ws_frames`): one to three frames of every opcode, also behind a Close,
with the payload lengths at which a length field or a buffer changes (0, 125,
126, 4092, 4093, 8183 to 8185, 65536), cut in each header, behind it and before
the last byte. `MaxOut` bounds the answers of zig to one Close; four are more
than the frames of any script. Fairness of the handler only. Lengths are encoded
minimally and stay far below 2^64; what payloads hold is left out. `main.c` has
the loop of `cc`, but no request reaches it.

### RsText

Each algorithm is a state machine with the variables of its loop (`pos`, `acc`),
and its result is compared with a definition that is written in another way:
queries and paths against pieces between separators, the decoders against the
characters that were encoded, the JSON echo against a reader of JSON, base64
against its decoding, SHA-1's blocks against the padding of RFC 3174 and its
digests against published ones.

Where the code does not give back what it was given, the property states what it
gives instead. A percent sign that encodes nothing stays, but is decoded before a
plus and a digit, and `main.rs` reads it as the byte 0 before two bytes that are no
UTF-8, even the first of a character that it splits so, after which nothing is left
of the text. The echo of `main.rs` moves the backspaces and form feeds of a value
to its key, and is no JSON when a text has another control character for which
there is no short escape.

Instance (`rs_text`): all queries of up to five and paths of up to six bytes over
those an algorithm tells apart, all encoded texts of up to four pieces, of each
kind that a decoder treats in its own way, strings of up to two characters in the
echo, control characters of each kind among them, and every length from 0 to 130
for SHA-1, which is twice a block and more. Characters of more than two bytes of
UTF-8 are left out, and in `main2.rs` what `from_utf8_lossy` puts in place of bytes
that are no UTF-8.

## 3. Findings

* `cc_stray`: the double close of `main.cc` sends a text to another room.
* `rs_repeats`: `main.rs` answers 404 for ever, `continue` without moving on.

Other departures from what one would expect are outcomes of the models that the
properties excuse by name, and that no property forbids; the hazards in
`PROJECT.json` say so one by one. Among them are the shutdown of the C and Rust
pools, the panics of `main.zig` and of `main.rs` on a reset, the memory of
`main_async.zig`, its parsing of frames that have arrived in part, frames that do
not fit, and in `main_async.cc` the close of a number that is another client's and
the second answer to an upgrade.

## 4. Proofs

`ThreadPool_proofs` proves, for all finite sets of workers and any tasks and
variants allowed by `PoolAssumption`: `TypeCorrect`, `TasksAccountedFor`,
`NoWakeupLost`, `ShutdownWakesAll`, `ShutdownDrains` and
`PoolImplementsExecutor`. The inductive invariant is built in layers, each used
by the next:

1. `TypeInv`: types, and which threads carry a task in `cur` and `arg`.
2. `MutualExclusion`: a thread is in a critical section exactly when it holds
   the mutex. Everything about "tested, then acted" needs it.
3. `ShutdownInv`: no enqueue by the owner after the stop; a worker leaves only
   after a stop; with C++, no worker is between its test and parking with the
   flag set; the last worker to leave left an empty queue.
4. `AccountingInv`: `accepted = started \o queue`, no task twice, and a task
   being enqueued is new. `DrainedAtJoin` follows from this with layer 3, and
   so do the step lemmas of the refinement.
5. `WorkInv`: a worker about to park sees an empty queue, and queued tasks are
   covered by awake workers and pending notifications. `Accounting` alone is
   not enough and `WorkConserving` alone is not inductive: without the first
   part a worker could park next to a task.

`RsChat_proofs` proves, for any connections, rooms, addresses, frames and window
allowed by `ChatAssumption`, and for both programs: `TypeCorrect`,
`RoomsStayExact`, `TextsStayWhole` and `RoomsKeepTheirPromise`, the refinement of
`ChatRoom`. The layers are:

1. `TypeInv`: types, and `Framed`: a handler in a broadcast has a text in hand,
   and one in the middle of it has a peer.
2. `Writers`: a handler is in a broadcast exactly when it holds the lock; and
   `Halves`: with `main`, half a text in a socket is the one its writer is in
   the middle of, or its client is gone. `TextsWhole` follows: nobody else can
   begin a text there.
3. `ListedInSession` and `SessionListed` are inductive on layer 1.
4. `RoomInv`, of each room: `Placed`, who is where in the log; `OnAir`, the text
   of a running broadcast is the last of the log; `Level`, a member that the
   broadcast has still to write to is one text behind, and every other member
   is at the end of the log. This is the invariant that makes
   "once, in order, with no gap" inductive: a broadcast may begin only when all
   are level again, because of layer 2.
5. A step lemma for each kind of step says which action of `ChatRoom` it is.

`CcServer_proofs` proves, for any clients, rooms, workers, descriptors and limits
allowed by `CcAssumption`: `TypeCorrect`, `ListIsOpen`, `RoomsKeepTexts` and
`OrderAgreed`. The first needs no more than itself. The next two hold as long as
no number is `reused`, and are inductive together only, in layers:

1. `LockInv`: a worker is in a broadcast exactly when it holds `g_rooms_mutex`,
   so that no list changes under it, and nobody else has descriptors to write to.
2. `OwnInv`: a number stands for the connection of the one worker that serves it,
   and of nobody else's; a number waits in the accept queue once. This is what a
   reused number breaks, and nothing else does.
3. `RoomInv`: a worker in a room has the room that its client asked for.
4. `ListInv`: the list of a room holds exactly the numbers of the sessions in it,
   each once.
5. `SendInv`: a broadcast goes through a list of its own room, and what was
   delivered was said in the room of the client that got it.

`OrderAgreed` does not depend on any of this, and its invariant is not about
descriptors. `OrderInv` says that a log exists, a numbering of texts, such that
every client was given its texts in its order, and that the text of the running
broadcast comes last, behind all that was delivered. The property itself, that
no two clients disagree about two texts, is not inductive: it says nothing of the
text on the air, nor of two clients that were each given one of two texts and
may yet be given the other. A log that every step extends excludes both.

`KeepAlive_proofs` proves `TypeCorrect` and `OrderOfReplies` for the five programs,
any streams that are `InRequests`, and any buffer size. `OrderInv` adds to
`RepliesInOrder` that every reply is to a request whose end is in the buffer or
in front of it (`Arrived`), until `rs` has refused one and closed (`LastRefused`),
and that what is still in the buffer belongs to requests that were not answered
(`Unanswered`), but for `rs` and a file it cannot serve; in `ex`, that the line in
hand is that of the request whose headers are being skipped. That `rs` refuses only
what does not fit needs one more fact: its buffer always begins where a request
does.

`ZigRooms_proofs` proves, for any connections, rooms and texts allowed by
`ZigAssumption`: `ObjectsStayApart`, `RoomsStayExact` and `PromiseIsKept`. That
handlers hold different objects is not inductive: `Create` may hand out what is
in the free lists. `Owned` adds that an object is there once at most and then
nobody's, that nothing beyond `brk` is in use, and that a broadcast has nothing
to destroy. A failed write ends the last of these, and with it the promise. Only
`Upgrade`, `BroadcastEnd` and `Return` touch the heap; every other step is covered
by one lemma (`Apart`).

The other two rest on `RoomsInv`: until the first fault the state is `Sound`. Its
parts are `Held`, a handler is in a broadcast exactly when it has the mutex;
`Sending`, the broadcast goes through an entry of the sender's room; `RoomsSound`,
in four parts: what is listed is a session of the room, nothing is listed twice,
every session is listed, and a room has one entry; and `LogSound`, where `Due`
are the members that the broadcast has still to write to, and they are one text
behind the log, all others level with it, as in `RsChat_proofs`. `OneEntry` is
where stale keys come in: it says that a handler that has not joined has no
entry, without which `Join` could make a second one for the room.
`PromiseIsKept` then takes one step at a time and names the action of `ChatRoom`
that it is, from `Sound` before it.

`WsFrames_proofs` proves, for the three programs and any frames that clients send:
`CodecRoundTrip`, for every length that the four modelled bytes of the field have
room for; `TypeCorrect`; and `ParsingInStep`. Positions are sums of sizes (`After`,
by `Horner`): `AfterSteps` unfolds them and `BordersGrow` says that borders are
apart, so that there is one frame in front (`CurrentIs`). Neither invariant is
inductive alone. That a loop moves on to a frame's end needs a frame to begin
where it parses, so `TypeCorrect` rests on `AtBorders`. `InStep` says nothing of
the answers still to come: `Past` adds that what was answered ends in front of
`base`, but for the Close that zig leaves there, and then the next answer comes
after all the others (`Earlier`). Steps that write nothing are covered by one
lemma (`QuietStep`); `TakeStep`, `DropStep` and `StayStep` are the three ways to
leave a frame. `Copied` is `CodecRoundTrip`, as what was parsed has fitted in the
buffer (`Arrived`).

`AsyncServer_proofs` proves, for any clients, scripts, descriptors, workers and
windows allowed by `AsyncAssumption`: `TypeCorrect` and `ClientsStayApart`. The
first needs to know that the task that holds the mutex has an entry with a header
(`MapTyped`): nobody removes entries under it. `ClientsKeptApart` speaks of replies
that were given, and is far from inductive. `Apart` adds what is on the way there:

1. `FilesSound`: a descriptor stands for one client, which was accepted; so a
   write by number reaches one client only, and `accept` a new one.
2. `EndsSound`: where `header_end` points, a request ends. What a task then takes
   out of the buffer is the rest of the request it answers, and all before it.
3. `HeardSound`: what handlers heard comes before all that its client has still to
   send or the kernel still holds (`Future`). Two handlers may read one socket, but
   each takes what is there, and the kernel keeps the order.
4. `OrderSound`, until a number is reused: the buffer of a connection holds tokens
   of its own client, in order (`Holds`), all in front of the `Future`; and every
   reply is to something in front of both (`Ahead`, `Answers`). `Before` and `Done`
   say "in front of" for tokens and for replies: two tokens of a request have one
   number, and an upgrade stays in the buffer and may be answered again.

Reads move tokens from the `Future` to the end of a buffer (`ReadHolds`), a task
moves what is first from the buffer to the replies (`AnswerFirst`,
`AnswerUpgrade`), and all other steps move nothing (`QuietStep`): an entry is made
without tokens or removed, a descriptor is closed, or `accept` gives its number to
a client without an entry, or sets `reused`. That what a client sends is in order
(`StreamInOrder`) is itself a fact about a concatenation of lists, for any script:
`FlattenKeepsOrder` says of each element of `FlattenSeq(ss)` which list and which
place it is from, and that these grow.

`DataLemmas` holds what these proofs say about data, for all inputs: a set of
naturals has a least element and a bounded one a greatest (`MinIsLeast`,
`MaxIsGreatest`); induction, stated with a set of numbers in place of a predicate
so that the provers can use it (`Induction`, `BoundedInduction`); that a function
defined by recursion over the naturals exists (`Recursion`); and with these, what
`Pick` returns for every list (`PickUnfolds`, `PickSelects`, `PickFromList`) and
how `Horner` goes on with one more digit (`HornerAppend`).

Only model-checked: liveness, which TLAPS does not handle under fairness;
`TypeOK` and `RepliesInStep` of `RsCompare`; and `RsText`. A statement of
`RepliesInStep` for every input needs an invariant that relates a buffer to the
requests that it was cut from, for two programs that cut differently and drop what
they have read at different points; it is not written yet. The algorithms of
`RsText` go over their input byte by byte; to prove them for every input needs an
invariant for each that relates what was read to the reference definition, and
these are written with operators of the community modules that the provers do not
unfold.

## 5. Not modelled

`not_modelled` components are listed in `PROJECT.json` with reasons. In short:
the Go handlers have no state, the MIME tables and response texts are data, the
static-file code is I/O, no request reaches the chat rooms of `main.c`, and the
request loop of `main_async.zig` is the standard library's. `stop()` of `main.cc`
runs only when `start` throws, before any connection exists. Of the helpers,
Range arithmetic and multipart scanning (`main_async.zig`) and the C and C++
copies are left. One hazard has no property:
lengths of frames that wrap, which end in reads outside a buffer. The payload that
`parseWebSocketFrame` of `main_async.zig` returns is a slice of its own stack;
frames are lengths and opcodes here, so that what is in it is left out.

## 6. What is left to do

1. Proofs: `TypeOK` and `RepliesInStep` of `RsCompare`.
2. The Range and multipart helpers of `main_async.zig` against reference
   definitions, in the manner of `RsText`.
