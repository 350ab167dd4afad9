------------------------------ MODULE CcServer ------------------------------
(***************************************************************************)
(* The blocking server of backend_cc/main.cc: the accept loop, the pool of *)
(* threads that each serve one connection at a time, the table of file     *)
(* descriptors they share, and the chat rooms, which hold descriptors.     *)
(*                                                                         *)
(* A connection is named after its client.  A descriptor is a number that  *)
(* the kernel reuses: a system call reaches the connection that the number *)
(* stands for when the call begins, and keeps it until the call returns,   *)
(* whatever happens to the number in the meantime.                         *)
(*                                                                         *)
(* The pool itself is ThreadPool; here it is the queue of accepted         *)
(* descriptors and the workers that take from it.  How bytes make requests *)
(* and frames is left out: a read returns one request or one frame.        *)
(***************************************************************************)
EXTENDS Lists, FiniteSets, SequencesExt

CONSTANTS
    Clients,       \* each client opens one connection
    Workers,       \* the threads of the pool
    Fds,           \* the descriptor numbers the process may hold for clients
    Rooms,
    Wants,         \* the room each client asks for
    Says,          \* the kinds of message each client sends
    MaxSent,       \* bound: requests and frames sent by a client
    Window,        \* frames that a client's socket holds until it reads them
    None           \* no connection, no thread, no descriptor, no room

FrameKinds == {"text", "ping", "bye"}
Kinds == FrameKinds \cup {"request", "upgrade"}

ASSUME CcAssumption ==
    /\ Fds \subseteq Nat
    /\ Wants \in [Clients -> Rooms]
    /\ Says \in [Clients -> SUBSET Kinds]
    /\ MaxSent \in Nat
    /\ Window \in Nat \ {0}
    /\ None \notin Clients \cup Workers \cup Fds \cup Rooms

VARIABLES
    \* the clients
    phase,         \* "backlog", "http", "chat" or "gone"
    sent,          \* requests and frames sent so far
    \* the network
    input,         \* what a client has sent and no read has returned yet
    unread,        \* writes to a client that it has not read yet
    got,           \* history: the text frames delivered to a client
    \* the kernel
    file,          \* the connection each descriptor stands for
    \* the server
    queue,         \* the pool's queue: accepted descriptors
    queuedFor,     \* history: the clients these were accepted for
    reused,        \* history: accept reused a number before its last close
    pc,            \* where each worker is
    fd,            \* client_fd of the handler a worker runs
    owner,         \* history: the client this handler was made for
    room,          \* room_name
    call,          \* the connection a worker's system call is on
    after,         \* where a worker goes on after a write
    frame,         \* the frame being broadcast
    todo,          \* the descriptors the broadcast has still to write to
    members,       \* g_websocket_rooms: the connections of each room
    roomsLock      \* the holder of g_rooms_mutex

Message(kind, r) == [kind |-> kind, room |-> r]
NoFrame == [from |-> None, n |-> 0, room |-> None]

clientVars == <<phase, sent>>
outVars == <<unread, got>>
acceptVars == <<queue, queuedFor, reused>>
handlerVars == <<fd, owner, room>>
sendVars == <<frame, todo>>
roomVars == <<members, roomsLock>>
workerVars == <<pc, handlerVars, call, after, sendVars>>
vars == <<clientVars, input, outVars, file, acceptVars, workerVars, roomVars>>

Goto(w, label) == pc' = [pc EXCEPT ![w] = label]

Init ==
    /\ phase = [c \in Clients |-> "backlog"]
    /\ sent = [c \in Clients |-> 0]
    /\ input = [c \in Clients |-> <<>>]
    /\ unread = [c \in Clients |-> 0]
    /\ got = [c \in Clients |-> <<>>]
    /\ file = [f \in Fds |-> None]
    /\ queue = <<>>
    /\ queuedFor = <<>>
    /\ reused = FALSE
    /\ pc = [w \in Workers |-> "idle"]
    /\ fd = [w \in Workers |-> None]
    /\ owner = [w \in Workers |-> None]
    /\ room = [w \in Workers |-> None]
    /\ call = [w \in Workers |-> None]
    /\ after = [w \in Workers |-> "idle"]
    /\ frame = [w \in Workers |-> NoFrame]
    /\ todo = [w \in Workers |-> <<>>]
    /\ members = [r \in Rooms |-> <<>>]
    /\ roomsLock = None

-----------------------------------------------------------------------------
(* Clients.  A client has one message in flight: it sends the next when    *)
(* the server has read the last.  It may stop reading, or hang up.         *)

\* The server still holds the connection: through a descriptor or through a
\* system call that began before the descriptor was closed.
Held(c) == (\E f \in Fds : file[f] = c) \/ (\E w \in Workers : call[w] = c)

Send(c, kind, r) ==
    /\ kind \in Says[c]
    /\ input[c] = <<>>
    /\ Held(c)
    /\ sent[c] < MaxSent
    /\ input' = [input EXCEPT ![c] = <<Message(kind, r)>>]
    /\ sent' = [sent EXCEPT ![c] = @ + 1]
    /\ UNCHANGED <<outVars, file, acceptVars, workerVars, roomVars>>

SendRequest(c) ==
    /\ phase[c] = "http"
    /\ Send(c, "request", None)
    /\ UNCHANGED phase

SendUpgrade(c) ==
    /\ phase[c] = "http"
    /\ Send(c, "upgrade", Wants[c])
    /\ phase' = [phase EXCEPT ![c] = "chat"]

\* "bye" stands for a Close, a continuation or a frame that does not parse.
SendFrame(c, kind) ==
    /\ phase[c] = "chat"
    /\ Send(c, kind, None)
    /\ UNCHANGED phase

HangUp(c) ==
    /\ phase[c] \in {"http", "chat"}
    /\ phase' = [phase EXCEPT ![c] = "gone"]
    /\ unread' = [unread EXCEPT ![c] = 0]
    /\ UNCHANGED <<sent, input, got, file, acceptVars, workerVars,
                   roomVars>>

ClientRead(c) ==
    /\ unread[c] > 0
    /\ unread' = [unread EXCEPT ![c] = 0]
    /\ UNCHANGED <<clientVars, input, got, file, acceptVars, workerVars,
                   roomVars>>

-----------------------------------------------------------------------------
(* The accept loop.  The kernel hands out the lowest free descriptor.      *)

FreeFds == {f \in Fds : file[f] = None}

\* A worker has still to close a number that it has closed before.
ClosedTwice(f) == \E w \in Workers : pc[w] = "closeOuter" /\ fd[w] = f

Accept(c) ==
    /\ phase[c] = "backlog"
    /\ FreeFds # {}
    /\ LET f == Min(FreeFds)
       IN  /\ file' = [file EXCEPT ![f] = c]
           /\ queue' = Append(queue, f)
           /\ reused' = (reused \/ ClosedTwice(f))
    /\ queuedFor' = Append(queuedFor, c)
    /\ phase' = [phase EXCEPT ![c] = "http"]
    /\ UNCHANGED <<sent, input, outVars, workerVars, roomVars>>

-----------------------------------------------------------------------------
(* System calls of a handler: read, write and close.                       *)

\* A call enters on the connection the descriptor stands for now, or fails at
\* once (EBADF) if it stands for none.
Enter(w, from, in, failed) ==
    /\ pc[w] = from
    /\ call' = [call EXCEPT ![w] = file[fd[w]]]
    /\ Goto(w, IF file[fd[w]] = None THEN failed ELSE in)
    /\ UNCHANGED <<clientVars, input, outVars, file, acceptVars, handlerVars,
                   after, sendVars, roomVars>>

\* read returns the message m of the connection ...
ReadGets(w, in, m) ==
    /\ pc[w] = in
    /\ input[call[w]] = <<m>>
    /\ input' = [input EXCEPT ![call[w]] = <<>>]
    /\ call' = [call EXCEPT ![w] = None]
    /\ UNCHANGED <<clientVars, outVars, file, acceptVars, fd, owner, todo,
                   roomVars>>

\* Mutant: an end of file is taken for an interrupted call.
ReadEndsRetried(w, in, label) ==
    /\ pc[w] = in
    /\ input[call[w]] = <<>>
    /\ phase[call[w]] = "gone"
    /\ call' = [call EXCEPT ![w] = None]
    /\ Goto(w, IF in = "httpRead" THEN "http" ELSE "chat")
    /\ UNCHANGED <<clientVars, input, outVars, file, acceptVars, handlerVars,
                   after, sendVars, roomVars>>

\* ... or end of file, once the client is gone.
ReadEnds(w, in, label) ==
    /\ pc[w] = in
    /\ input[call[w]] = <<>>
    /\ phase[call[w]] = "gone"
    /\ call' = [call EXCEPT ![w] = None]
    /\ Goto(w, label)
    /\ UNCHANGED <<clientVars, input, outVars, file, acceptVars, handlerVars,
                   after, sendVars, roomVars>>

\* The handler writes an answer and goes on at the given label.
Answer(w, label) ==
    /\ Goto(w, "write")
    /\ after' = [after EXCEPT ![w] = label]

\* A response that cannot be written ends handle_client, or, when it is the 404
\* for a malformed line or a file, is not looked at; nor are the results of the
\* handshake's, the Pong's and the Close frame's send_all.
Unwritten(w) == IF after[w] = "http" THEN "closeOuter" ELSE after[w]

\* Mutant: a write that does not wait for the window.
WrittenAtOnce(w, texts) ==
    LET c == call[w]
    IN  /\ unread' = [unread EXCEPT ![c] = @ + 1]
        /\ got' = [got EXCEPT ![c] = @ \o texts]

\* A write blocks while the client's window is full, and fails when the client
\* is gone: at once, or (the first one) not at all.
Written(w, texts) ==
    LET c == call[w]
    IN  IF phase[c] = "gone"
          THEN UNCHANGED outVars
          ELSE /\ unread[c] < Window
               /\ unread' = [unread EXCEPT ![c] = @ + 1]
               /\ got' = [got EXCEPT ![c] = @ \o texts]

WriteEnter(w) ==
    \E label \in {after[w], Unwritten(w)} : Enter(w, "write", "writing", label)

WriteDone(w) ==
    /\ pc[w] = "writing"
    /\ Written(w, <<>>)
    /\ \/ Goto(w, after[w])
       \/ phase[call[w]] = "gone" /\ Goto(w, Unwritten(w))
    /\ call' = [call EXCEPT ![w] = None]
    /\ UNCHANGED <<clientVars, input, file, acceptVars, handlerVars, after,
                   sendVars, roomVars>>

\* close: whatever the number stands for now, the process no longer holds it.
CloseFd(w) == file' = [file EXCEPT ![fd[w]] = None]

-----------------------------------------------------------------------------
(* handle_client.                                                          *)

StartTask(w) ==
    /\ pc[w] = "idle"
    /\ queue # <<>>
    /\ fd' = [fd EXCEPT ![w] = Head(queue)]
    /\ owner' = [owner EXCEPT ![w] = Head(queuedFor)]
    /\ queue' = Tail(queue)
    /\ queuedFor' = Tail(queuedFor)
    /\ Goto(w, "http")
    /\ UNCHANGED <<clientVars, input, outVars, file, reused, room, call, after,
                   sendVars, roomVars>>

HttpEnterRead(w) == Enter(w, "http", "httpRead", "closeOuter")

HttpReadEnds(w) == ReadEnds(w, "httpRead", "closeOuter")

HttpReadRequest(w) ==
    /\ ReadGets(w, "httpRead", Message("request", None))
    /\ Answer(w, "http")
    /\ UNCHANGED <<room, frame>>

HttpReadUpgrade(w) ==
    \E r \in Rooms :
        /\ ReadGets(w, "httpRead", Message("upgrade", r))
        /\ room' = [room EXCEPT ![w] = r]
        /\ Answer(w, "join")
        /\ UNCHANGED frame

\* A handler whose descriptor was taken over can be given a frame to parse as
\* a request: it waits for the end of the headers, or answers 404.
HttpReadFrame(w) ==
    \E kind \in FrameKinds :
        /\ ReadGets(w, "httpRead", Message(kind, None))
        /\ \/ Goto(w, "http") /\ UNCHANGED after
           \/ Answer(w, "http")
        /\ UNCHANGED <<room, frame>>

-----------------------------------------------------------------------------
(* handle_websocket.                                                       *)

Join(w) ==
    /\ pc[w] = "join"
    /\ roomsLock = None
    /\ members' = [members EXCEPT ![room[w]] = Append(@, fd[w])]
    /\ Goto(w, "chat")
    /\ UNCHANGED <<clientVars, input, outVars, file, acceptVars, handlerVars,
                   call, after, sendVars, roomsLock>>

ChatEnterRead(w) == Enter(w, "chat", "chatRead", "leave")

ChatReadEnds(w) == ReadEnds(w, "chatRead", "leave")

ChatReadText(w) ==
    /\ ReadGets(w, "chatRead", Message("text", None))
    /\ frame' = [frame EXCEPT ![w] = [from |-> call[w], n |-> sent[call[w]],
                                      room |-> room[w]]]
    /\ Goto(w, "broadcast")
    /\ UNCHANGED <<room, after>>

ChatReadPing(w) ==
    /\ ReadGets(w, "chatRead", Message("ping", None))
    /\ Answer(w, "chat")
    /\ UNCHANGED <<room, frame>>

ChatReadBye(w) ==
    /\ ReadGets(w, "chatRead", Message("bye", None))
    /\ Answer(w, "leave")
    /\ UNCHANGED <<room, frame>>

\* A request that reaches a chat handler through a reused descriptor is a
\* frame of an unknown kind, or an incomplete one.
ChatReadRequest(w) ==
    \E m \in {Message("request", None)} \cup {Message("upgrade", r) : r \in Rooms} :
        /\ ReadGets(w, "chatRead", m)
        /\ \/ Goto(w, "chat") /\ UNCHANGED after
           \/ Answer(w, "leave")
        /\ UNCHANGED <<room, frame>>

\* Mutant: the list is copied under the lock and written to without it.
BroadcastSnapshot(w) ==
    /\ pc[w] = "broadcast"
    /\ roomsLock = None
    /\ todo' = [todo EXCEPT ![w] = members[room[w]]]
    /\ Goto(w, "send")
    /\ UNCHANGED <<clientVars, input, outVars, file, acceptVars, handlerVars,
                   call, after, frame, roomVars>>

\* The broadcast holds g_rooms_mutex from its first write to its last.
BroadcastLock(w) ==
    /\ pc[w] = "broadcast"
    /\ roomsLock = None
    /\ roomsLock' = w
    /\ todo' = [todo EXCEPT ![w] = members[room[w]]]
    /\ Goto(w, "send")
    /\ UNCHANGED <<clientVars, input, outVars, file, acceptVars, handlerVars,
                   call, after, frame, members>>

\* send_all to the next member; its result is not looked at.
SendEnter(w) ==
    /\ pc[w] = "send"
    /\ todo[w] # <<>>
    /\ LET c == file[Head(todo[w])]
       IN  /\ call' = [call EXCEPT ![w] = c]
           /\ Goto(w, IF c = None THEN "send" ELSE "sending")
    /\ todo' = [todo EXCEPT ![w] = Tail(@)]
    /\ UNCHANGED <<clientVars, input, outVars, file, acceptVars, handlerVars,
                   after, frame, roomVars>>

SendDone(w) ==
    /\ pc[w] = "sending"
    /\ Written(w, <<frame[w]>>)
    /\ call' = [call EXCEPT ![w] = None]
    /\ Goto(w, "send")
    /\ UNCHANGED <<clientVars, input, file, acceptVars, handlerVars, after,
                   sendVars, roomVars>>

\* Mutant: a path out of the broadcast that leaves the mutex locked.
BroadcastNoUnlock(w) ==
    /\ pc[w] = "send"
    /\ todo[w] = <<>>
    /\ frame' = [frame EXCEPT ![w] = NoFrame]
    /\ Goto(w, "chat")
    /\ UNCHANGED <<clientVars, input, outVars, file, acceptVars, handlerVars,
                   call, after, todo, roomVars>>

BroadcastUnlock(w) ==
    /\ pc[w] = "send"
    /\ todo[w] = <<>>
    /\ roomsLock' = None
    /\ frame' = [frame EXCEPT ![w] = NoFrame]
    /\ Goto(w, "chat")
    /\ UNCHANGED <<clientVars, input, outVars, file, acceptVars, handlerVars,
                   call, after, todo, members>>

-----------------------------------------------------------------------------
(* The two SocketClosers.  handle_websocket's takes the descriptor out of  *)
(* the room, by value, and closes it; then handle_client's closes it again.*)

Without(s, f) == Pick(s, {i \in DOMAIN s : s[i] # f})

\* Mutant: the descriptor is closed but stays in the room.
LeaveStaysListed(w) ==
    /\ pc[w] = "leave"
    /\ roomsLock = None
    /\ Goto(w, "closeInner")
    /\ UNCHANGED <<clientVars, input, outVars, file, acceptVars, handlerVars,
                   call, after, sendVars, roomVars>>

Leave(w) ==
    /\ pc[w] = "leave"
    /\ roomsLock = None
    /\ members' = [members EXCEPT ![room[w]] = Without(@, fd[w])]
    /\ Goto(w, "closeInner")
    /\ UNCHANGED <<clientVars, input, outVars, file, acceptVars, handlerVars,
                   call, after, sendVars, roomsLock>>

CloseInner(w) ==
    /\ pc[w] = "closeInner"
    /\ CloseFd(w)
    /\ Goto(w, "closeOuter")
    /\ UNCHANGED <<clientVars, input, outVars, acceptVars, handlerVars, call,
                   after, sendVars, roomVars>>

CloseOuter(w) ==
    /\ pc[w] = "closeOuter"
    /\ CloseFd(w)
    /\ Goto(w, "idle")
    /\ fd' = [fd EXCEPT ![w] = None]
    /\ owner' = [owner EXCEPT ![w] = None]
    /\ room' = [room EXCEPT ![w] = None]
    /\ after' = [after EXCEPT ![w] = "idle"]
    /\ UNCHANGED <<clientVars, input, outVars, acceptVars, call, sendVars,
                   roomVars>>

-----------------------------------------------------------------------------
ClientStep(c) ==
    \/ SendRequest(c) \/ SendUpgrade(c)
    \/ (\E kind \in FrameKinds : SendFrame(c, kind))
    \/ HangUp(c) \/ ClientRead(c)

WorkerStep(w) ==
    \/ StartTask(w)
    \/ HttpEnterRead(w) \/ HttpReadEnds(w) \/ HttpReadRequest(w)
    \/ HttpReadUpgrade(w) \/ HttpReadFrame(w)
    \/ WriteEnter(w) \/ WriteDone(w)
    \/ Join(w)
    \/ ChatEnterRead(w) \/ ChatReadEnds(w) \/ ChatReadText(w)
    \/ ChatReadPing(w) \/ ChatReadBye(w) \/ ChatReadRequest(w)
    \/ BroadcastLock(w) \/ SendEnter(w) \/ SendDone(w) \/ BroadcastUnlock(w)
    \/ Leave(w) \/ CloseInner(w) \/ CloseOuter(w)

Next ==
    \/ \E c \in Clients : ClientStep(c) \/ Accept(c)
    \/ \E w \in Workers : WorkerStep(w)

Spec == Init /\ [][Next]_vars

\* Threads that can run do run; nothing is assumed of the clients.  Weak
\* fairness is enough for the mutex because each client sends a bounded
\* number of frames that need it.
FairSpec ==
    /\ Spec
    /\ \A c \in Clients : WF_vars(Accept(c))
    /\ \A w \in Workers : WF_vars(WorkerStep(w))

-----------------------------------------------------------------------------
(* Properties.                                                             *)

Labels == {"idle", "http", "httpRead", "write", "writing", "join", "chat",
           "chatRead", "broadcast", "send", "sending", "leave", "closeInner",
           "closeOuter"}

Messages == {Message(kind, None) : kind \in FrameKinds \cup {"request"}}
            \cup {Message("upgrade", r) : r \in Rooms}

Frames == [from : Clients, n : 1..MaxSent, room : Rooms]

\* Every variable has its type.
TypeOK ==
    /\ phase \in [Clients -> {"backlog", "http", "chat", "gone"}]
    /\ sent \in [Clients -> 0..MaxSent]
    /\ input \in [Clients -> {<<>>} \cup {<<m>> : m \in Messages}]
    /\ unread \in [Clients -> 0..Window]
    /\ got \in [Clients -> Seq(Frames)]
    /\ file \in [Fds -> Clients \cup {None}]
    /\ queue \in Seq(Fds)
    /\ queuedFor \in Seq(Clients) /\ Len(queuedFor) = Len(queue)
    /\ reused \in BOOLEAN
    /\ pc \in [Workers -> Labels]
    /\ fd \in [Workers -> Fds \cup {None}]
    /\ owner \in [Workers -> Clients \cup {None}]
    /\ room \in [Workers -> Rooms \cup {None}]
    /\ call \in [Workers -> Clients \cup {None}]
    /\ after \in [Workers -> {"idle", "http", "join", "chat", "leave"}]
    /\ frame \in [Workers -> Frames \cup {NoFrame}]
    /\ todo \in [Workers -> Seq(Fds)]
    /\ members \in [Rooms -> Seq(Fds)]
    /\ roomsLock \in Workers \cup {None}
    /\ \A w \in Workers : /\ pc[w] # "idle" => fd[w] \in Fds
                          /\ pc[w] = "sending" => call[w] \in Clients

Text(m) == <<m.from, m.n>>

\* Clients that are delivered the same two texts are delivered them in the
\* same order, because a broadcast keeps g_rooms_mutex over all its writes.
AgreedOrder ==
    \A c, d \in Clients :
        \A i, j \in DOMAIN got[c] : \A k, l \in DOMAIN got[d] :
            /\ i < j /\ k < l
            /\ Text(got[c][i]) = Text(got[d][l])
            /\ Text(got[c][j]) = Text(got[d][k])
            => Text(got[c][i]) = Text(got[c][j])

\* What a room lists can be written to: until accept has reused a number
\* between the two closes of a handler, a listed descriptor stands for a
\* client of that room, once, and so does one a broadcast still has to write.
ListedIsOpen ==
    ~reused =>
        /\ \A r \in Rooms : \A i, j \in DOMAIN members[r] :
              /\ file[members[r][i]] # None
              /\ Wants[file[members[r][i]]] = r
              /\ members[r][i] = members[r][j] => i = j
        /\ \A w \in Workers : \A i \in DOMAIN todo[w] :
              file[todo[w][i]] # None

\* A text reaches only clients of the room it was sent in (main.cc:738-739,
\* "broadcast to all connections in the same room"; main.cc:945-946).
BroadcastStaysInRoom ==
    \A c \in Clients : \A i \in DOMAIN got[c] : got[c][i].room = Wants[c]

\* The second close is the only way a text leaves its room.
StraysOnlyAfterReuse == ~reused => BroadcastStaysInRoom

\* A client that stops reading, for ever.
SlowPeer == \E c \in Clients : <>[](unread[c] = Window)

\* Only a client that stops reading can keep g_rooms_mutex from being free
\* again and again.
RoomsKeepMoving == SlowPeer \/ []<>(roomsLock = None)

\* The handler of a client that hangs up comes to its end and its worker takes
\* another task, unless a peer stops reading or a descriptor was reused.
SessionEnds ==
    SlowPeer \/ \A w \in Workers : \A c \in Clients :
        (owner[w] = c /\ phase[c] = "gone") ~> (owner[w] # c \/ reused)
=============================================================================
