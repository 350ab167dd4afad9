----------------------------- MODULE AsyncServer -----------------------------
(***************************************************************************)
(* The server of backend_cc/main_async.cc.  One thread waits on an edge-   *)
(* triggered epoll: it accepts, reads, and closes.  Tasks of the pool      *)
(* answer requests with connections_mutex held, and look their connection  *)
(* up by descriptor number.  A chat handler is a task that reads the same  *)
(* descriptor as the epoll thread does.                                    *)
(*                                                                         *)
(* A connection is named after its client.  A request is two tokens, the   *)
(* second of which holds the empty line that ends it; a frame is one.      *)
(* System calls do not block: the sockets are non-blocking.  The rooms and *)
(* their lock are those of CcServer and left out here, and so is stop().   *)
(***************************************************************************)
EXTENDS Lists, FiniteSets, SequencesExt

CONSTANTS
    Clients,       \* each client opens one connection
    Scripts,       \* the kinds of message each client may send, in order
    Patient,       \* the clients that wait for a reply before they go on
    Fds,           \* the descriptor numbers the process may hold for clients
    Chats,         \* the workers that may run a chat handler
    Most,          \* tokens that one read of the epoll thread returns
    Window,        \* replies that a client's socket holds until it reads them
    None           \* no connection, no descriptor, no client

\* writev answers "request", send_all "file" (a static file) and "upgrade".
Kinds == {"request", "file", "upgrade", "text"}

ASSUME AsyncAssumption ==
    /\ Scripts \subseteq [Clients -> Seq(Kinds)]
    /\ Patient \subseteq Clients
    /\ Fds \subseteq Nat
    /\ Cardinality(Clients) <= Cardinality(Fds)
    /\ Most \in Nat \ {0}
    /\ Window \in Nat \ {0}
    /\ None \notin Clients \cup Fds

VARIABLES
    \* the clients and the kernel
    script,        \* what each client sends
    phase,         \* "idle", "backlog", "open" or "gone"
    sent,          \* tokens a client has sent
    taken,         \* how many of them a read has returned
    unread,        \* replies to a client that it has not read yet
    file,          \* the connection each descriptor stands for
    ready,         \* the connections with an edge that epoll has not reported
    \* the epoll thread
    events,        \* what epoll_wait has returned and the loop has not handled
    at,            \* "events", or what it is about to "add" or "close"
    connections,   \* the map from descriptors to connections
    \* the pool
    tasks,         \* tasks for each descriptor that have not run
    lock,          \* the descriptor whose task sends with the mutex held
    chat,          \* what each chat handler does
    \* history
    replies,       \* what was written to each client
    heard,         \* the frames of each client that a chat handler has parsed
    reused         \* accept got a number that a chat or an entry still had

clientVars == <<phase, sent, unread>>
epollVars == <<ready, events, at>>
historyVars == <<replies, heard>>
vars == <<script, clientVars, taken, file, epollVars, connections, tasks,
          lock, chat, historyVars, reused>>

Token(c, n, last) == [from |-> c, n |-> n, last |-> last]
Kind(token) == script[token.from][token.n]

Streams ==
    [s \in Scripts |-> [c \in Clients |->
        FlattenSeq([n \in DOMAIN s[c] |->
            IF s[c][n] = "text" THEN <<Token(c, n, TRUE)>>
            ELSE <<Token(c, n, FALSE), Token(c, n, TRUE)>>])]]
Stream(c) == Streams[script][c]

Replied(c, n) ==
    \E i \in DOMAIN replies[c] : replies[c][i].from = c /\ replies[c][i].n = n

Idle == [doing |-> "nothing", fd |-> None]
Entry == [buf |-> <<>>, headerEnd |-> 0, state |-> "READING"]
Holding(conn, buf, headerEnd) ==
    [buf |-> buf, headerEnd |-> headerEnd, state |-> conn.state]
Accepting == [fd |-> None, hup |-> FALSE]

Init ==
    /\ script \in Scripts
    /\ phase = [c \in Clients |-> "idle"]
    /\ sent = [c \in Clients |-> 0]
    /\ taken = [c \in Clients |-> 0]
    /\ unread = [c \in Clients |-> 0]
    /\ file = [f \in Fds |-> None]
    /\ ready = {}
    /\ events = {}
    /\ at = [doing |-> "events", fd |-> None]
    /\ connections = [f \in Fds |-> None]
    /\ tasks = [f \in Fds |-> 0]
    /\ lock = None
    /\ chat = [h \in Chats |-> Idle]
    /\ replies = [c \in Clients |-> <<>>]
    /\ heard = [c \in Clients |-> <<>>]
    /\ reused = FALSE

-----------------------------------------------------------------------------
(* The clients.                                                            *)

Connect(c) ==
    /\ phase[c] = "idle"
    /\ phase' = [phase EXCEPT ![c] = "backlog"]
    /\ UNCHANGED <<script, sent, unread, taken, file, epollVars, connections,
                   tasks, lock, chat, historyVars, reused>>

Held(c) == \E f \in Fds : file[f] = c

\* Frames wait for the answer to the upgrade; a patient client for all it has
\* asked, and it reads the answers.
MaySend(c, token) ==
    /\ Kind(token) = "text" => Replied(c, token.n - 1) \/ token.n = 1
    /\ c \in Patient =>
          /\ unread[c] = 0
          /\ \A n \in 1..token.n - 1 : script[c][n] # "text" => Replied(c, n)

Send(c) ==
    /\ phase[c] = "open" /\ Held(c)
    /\ sent[c] < Len(Stream(c))
    /\ MaySend(c, Stream(c)[sent[c] + 1])
    /\ sent' = [sent EXCEPT ![c] = @ + 1]
    /\ ready' = ready \cup {c}
    /\ UNCHANGED <<script, phase, unread, taken, file, events, at, connections,
                   tasks, lock, chat, historyVars, reused>>

ClientRead(c) ==
    /\ unread[c] > 0
    /\ unread' = [unread EXCEPT ![c] = 0]
    /\ UNCHANGED <<script, phase, sent, taken, file, epollVars, connections,
                   tasks, lock, chat, historyVars, reused>>

HangUp(c) ==
    /\ phase[c] = "open"
    /\ phase' = [phase EXCEPT ![c] = "gone"]
    /\ unread' = [unread EXCEPT ![c] = 0]
    /\ ready' = IF Held(c) THEN ready \cup {c} ELSE ready
    /\ UNCHANGED <<script, sent, taken, file, events, at, connections, tasks,
                   lock, chat, historyVars, reused>>

-----------------------------------------------------------------------------
(* The kernel's side of the calls.                                         *)

\* close(f), and what epoll knew of the connection goes with it.
Close(f) ==
    /\ file' = [file EXCEPT ![f] = None]
    /\ ready' = ready \ {file[f]}

\* What a read of f finds: tokens, or the end, or nothing yet.
Unseen(f) == IF file[f] = None THEN <<>>
             ELSE SubSeq(Stream(file[f]), taken[file[f]] + 1, sent[file[f]])
Gone(f) == IF file[f] = None THEN TRUE ELSE phase[file[f]] = "gone"
Ended(f) == Gone(f) /\ Unseen(f) = <<>>

Take(f, count) == taken' = [taken EXCEPT ![file[f]] = @ + count]

Full(f) == ~Gone(f) /\ unread[file[f]] = Window

\* A reply to whoever f stands for; a client that is gone does not get it.
Reply(f, token) ==
    IF Gone(f) THEN UNCHANGED <<unread, replies>>
    ELSE /\ unread' = [unread EXCEPT ![file[f]] = @ + 1]
         /\ replies' = [replies EXCEPT ![file[f]] = Append(@, token)]

-----------------------------------------------------------------------------
(* The epoll thread.                                                       *)

Loop == at.doing = "events" /\ lock = None

\* Readiness is reported once; a connection that was reset is a hangup.
EpollWait ==
    /\ at.doing = "events"
    /\ events = {}
    /\ LET edges == {f \in Fds : file[f] \in ready}
           arrivals == {c \in Clients : phase[c] = "backlog"}
       IN  \E hups \in SUBSET {f \in edges : phase[file[f]] = "gone"} :
              events' = {[fd |-> f, hup |-> f \in hups] : f \in edges}
                            \cup (IF arrivals = {} THEN {} ELSE {Accepting})
    /\ events' # {}
    /\ ready' = {}
    /\ UNCHANGED <<script, clientVars, taken, file, at, connections, tasks,
                   lock, chat, historyVars, reused>>

\* The kernel hands out the lowest free number.
Accepted(left) ==
    /\ at.doing = "events"
    /\ Accepting \in events
    /\ \E c \in Clients, f \in Fds :
          /\ phase[c] = "backlog"
          /\ file[f] = None /\ \A g \in Fds : file[g] = None => f <= g
          /\ phase' = [phase EXCEPT ![c] = "open"]
          /\ file' = [file EXCEPT ![f] = c]
          /\ at' = [doing |-> "add", fd |-> f]
          /\ reused' = \/ reused
                       \/ connections[f] # None
                       \/ \E h \in Chats : chat[h].fd = f
    /\ events' = left
    /\ UNCHANGED <<script, sent, unread, taken, ready, connections, tasks, lock,
                   chat, historyVars>>

\* Mutant: the loop over the events is left after an accept.
AcceptBreaks == Accepted({})

Accept == Accepted(events \ {Accepting})

\* connections[client_fd] = Connection(), under the mutex.
Add ==
    /\ at.doing = "add" /\ lock = None
    /\ connections' = [connections EXCEPT ![at.fd] = Entry]
    /\ at' = [doing |-> "events", fd |-> None]
    /\ UNCHANGED <<script, clientVars, taken, file, ready, events, tasks, lock,
                   chat, historyVars, reused>>

\* Error or hangup: the entry goes under the mutex, the number after it.
Hangup(f) ==
    /\ Loop
    /\ [fd |-> f, hup |-> TRUE] \in events
    /\ events' = events \ {[fd |-> f, hup |-> TRUE]}
    /\ connections' = [connections EXCEPT ![f] = None]
    /\ at' = [doing |-> "close", fd |-> f]
    /\ UNCHANGED <<script, clientVars, taken, file, ready, tasks, lock, chat,
                   historyVars, reused>>

CloseHangup ==
    /\ at.doing = "close"
    /\ Close(at.fd)
    /\ at' = [doing |-> "events", fd |-> None]
    /\ UNCHANGED <<script, clientVars, taken, events, connections, tasks, lock,
                   chat, historyVars, reused>>

Readable(f) ==
    /\ Loop
    /\ [fd |-> f, hup |-> FALSE] \in events
    /\ events' = events \ {[fd |-> f, hup |-> FALSE]}

\* The event is of a connection that is no longer known, or (a stale event)
\* there is nothing to read.
ReadNothing(f) ==
    /\ Readable(f)
    /\ connections[f] = None \/ (Unseen(f) = <<>> /\ ~Ended(f))
    /\ UNCHANGED <<script, clientVars, taken, file, ready, at, connections,
                   tasks, lock, chat, historyVars, reused>>

ReadEnds(f) ==
    /\ Readable(f)
    /\ connections[f] # None
    /\ Ended(f)
    /\ connections' = [connections EXCEPT ![f] = None]
    /\ Close(f)
    /\ UNCHANGED <<script, clientVars, taken, at, tasks, lock, chat,
                   historyVars, reused>>

\* One read for each event; when the buffer holds the end of a header, a task
\* is enqueued.  A chat's bytes are kept and never looked at.
Read(f) ==
    /\ Readable(f)
    /\ connections[f] # None
    /\ Unseen(f) # <<>>
    /\ LET count == Min({Most, Len(Unseen(f))})
           conn == connections[f]
           buf == conn.buf \o SubSeq(Unseen(f), 1, count)
           ends == {i \in DOMAIN buf : buf[i].last /\ Kind(buf[i]) # "text"}
           found == conn.state = "READING" /\ ends # {}
       IN  /\ Take(f, count)
           /\ connections' = [connections EXCEPT ![f] =
                  Holding(@, buf, IF found THEN Min(ends) ELSE @.headerEnd)]
           /\ tasks' = IF found THEN [tasks EXCEPT ![f] = @ + 1] ELSE tasks
    /\ UNCHANGED <<script, clientVars, file, ready, at, lock, chat,
                   historyVars, reused>>

-----------------------------------------------------------------------------
(* handle_http_request, in a task of the pool.                             *)

Run(f) ==
    /\ lock = None
    /\ tasks[f] > 0
    /\ tasks' = [tasks EXCEPT ![f] = @ - 1]

First(f) == connections[f].buf[1]

\* The rest of a request whose start another reader took.
Garbled(f) == First(f).last

\* There is a request line in front of header_end.
Asks(f) == connections[f] # None /\ connections[f].headerEnd > 0

\* The connection is not known, or its header_end was reset by another task.
RunNothing(f) ==
    /\ Run(f)
    /\ ~Asks(f)
    /\ UNCHANGED <<script, clientVars, taken, file, epollVars, connections,
                   lock, chat, historyVars, reused>>

\* Mutant: the request is not removed from the buffer.
ShiftNot(f) == UNCHANGED connections

\* Shift buffer for next request.
Shift(f) ==
    connections' = [connections EXCEPT ![f] =
        Holding(@, SubSeq(@.buf, @.headerEnd + 1, Len(@.buf)), 0)]

\* Mutant: writev waits for no window.
RunWritevAtOnce(f) ==
    /\ Run(f)
    /\ Asks(f) /\ ~Garbled(f) /\ Kind(First(f)) = "request"
    /\ Shift(f) /\ Reply(f, First(f))
    /\ UNCHANGED <<script, phase, sent, taken, file, epollVars, lock, chat,
                   heard, reused>>

\* One writev: if it fails the request stays where it is.
RunWritev(f) ==
    /\ Run(f)
    /\ Asks(f) /\ ~Garbled(f) /\ Kind(First(f)) = "request"
    /\ \/ ~Full(f) /\ file[f] # None /\ Shift(f) /\ Reply(f, First(f))
       \/ (Full(f) \/ Gone(f)) /\ UNCHANGED <<unread, connections, replies>>
    /\ UNCHANGED <<script, phase, sent, taken, file, epollVars, lock, chat,
                   heard, reused>>

\* send_all tries again as long as the window is full, with the mutex held.
RunSendAll(f) ==
    /\ Run(f)
    /\ Asks(f)
    /\ Garbled(f) \/ Kind(First(f)) \in {"file", "upgrade"}
    /\ lock' = f
    /\ UNCHANGED <<script, clientVars, taken, file, epollVars, connections,
                   chat, historyVars, reused>>

\* 404, and the whole buffer is cleared.
SentGarbled(f) ==
    /\ lock = f /\ Garbled(f)
    /\ ~Full(f)
    /\ Reply(f, First(f))
    /\ connections' = [connections EXCEPT ![f] = Holding(@, <<>>, 0)]
    /\ lock' = None
    /\ UNCHANGED <<script, phase, sent, taken, file, epollVars, tasks, chat,
                   heard, reused>>

SentFile(f) ==
    /\ lock = f /\ ~Garbled(f) /\ Kind(First(f)) = "file"
    /\ ~Full(f)
    /\ Reply(f, First(f))
    /\ Shift(f)
    /\ lock' = None
    /\ UNCHANGED <<script, phase, sent, taken, file, epollVars, tasks, chat,
                   heard, reused>>

FreeChats == {h \in Chats : chat[h] = Idle}

\* The 101 is written, and a handler gets a worker; the request stays in the
\* buffer.
SentUpgrade(f) ==
    /\ lock = f /\ ~Garbled(f) /\ Kind(First(f)) = "upgrade"
    /\ ~Full(f)
    /\ Reply(f, First(f))
    /\ connections' = [connections EXCEPT ![f].state = "WEBSOCKET"]
    /\ FreeChats # {}
    /\ chat' = [chat EXCEPT ![CHOOSE h \in FreeChats : TRUE] =
                   [doing |-> "chat", fd |-> f]]
    /\ lock' = None
    /\ UNCHANGED <<script, phase, sent, taken, file, epollVars, tasks, heard,
                   reused>>

-----------------------------------------------------------------------------
(* handle_websocket: the read of the loop, and the close at its end.       *)

Chatting(h) == chat[h].doing = "chat"
Leaves(h) == chat' = [chat EXCEPT ![h].doing = "leave"]

ChatEnds(h) ==
    /\ Chatting(h)
    /\ Ended(chat[h].fd)
    /\ Leaves(h)
    /\ UNCHANGED <<script, clientVars, taken, file, epollVars, connections,
                   tasks, lock, historyVars, reused>>

\* All that is there is read; what is no frame may end the chat.
ChatReads(h) ==
    LET f == chat[h].fd
        texts == Pick(Unseen(f), {i \in DOMAIN Unseen(f) : Kind(Unseen(f)[i]) = "text"})
    IN  /\ Chatting(h)
        /\ Unseen(f) # <<>>
        /\ Take(f, Len(Unseen(f)))
        /\ heard' = [heard EXCEPT ![file[f]] = @ \o texts]
        /\ \/ UNCHANGED chat
           \/ texts # Unseen(f) /\ Leaves(h)
        /\ UNCHANGED <<script, clientVars, file, epollVars, connections, tasks,
                       lock, replies, reused>>

\* close(fd), whatever it stands for now; the entry stays.
ChatCloses(h) ==
    /\ chat[h].doing = "leave"
    /\ Close(chat[h].fd)
    /\ chat' = [chat EXCEPT ![h] = Idle]
    /\ UNCHANGED <<script, clientVars, taken, events, at, connections, tasks,
                   lock, historyVars, reused>>

-----------------------------------------------------------------------------
Client(c) == Connect(c) \/ Send(c) \/ ClientRead(c) \/ HangUp(c)

Epoll ==
    \/ EpollWait \/ Accept \/ Add \/ CloseHangup
    \/ \E f \in Fds : Hangup(f) \/ ReadNothing(f) \/ ReadEnds(f) \/ Read(f)

Task(f) ==
    \/ RunNothing(f) \/ RunWritev(f) \/ RunSendAll(f)
    \/ SentGarbled(f) \/ SentFile(f) \/ SentUpgrade(f)

Chat(h) == ChatEnds(h) \/ ChatReads(h) \/ ChatCloses(h)

Next ==
    \/ \E c \in Clients : Client(c)
    \/ Epoll
    \/ \E f \in Fds : Task(f)
    \/ \E h \in Chats : Chat(h)

Spec == Init /\ [][Next]_vars

\* The epoll thread runs, and so do the tasks: of the workers, 256 at least,
\* one is always left over.  The mutex is held for a bounded number of replies.
FairSpec ==
    /\ Spec
    /\ WF_vars(Epoll)
    /\ \A f \in Fds : WF_vars(Task(f))

-----------------------------------------------------------------------------
(* Properties.                                                             *)

Tokens == UNION {Range(Stream(c)) : c \in Clients}

\* Every variable has its type.
TypeOK ==
    /\ script \in Scripts
    /\ phase \in [Clients -> {"idle", "backlog", "open", "gone"}]
    /\ \A c \in Clients :
          /\ sent[c] \in 0..Len(Stream(c)) /\ taken[c] \in 0..sent[c]
          /\ replies[c] \in Seq(Tokens) /\ heard[c] \in Seq(Tokens)
    /\ unread \in [Clients -> 0..Window]
    /\ file \in [Fds -> Clients \cup {None}]
    /\ ready \subseteq Clients
    /\ events \subseteq [fd : Fds, hup : BOOLEAN] \cup {Accepting}
    /\ at.doing \in {"events", "add", "close"} /\ at.fd \in Fds \cup {None}
    /\ \A f \in Fds :
          connections[f] # None =>
              /\ connections[f].buf \in Seq(Tokens)
              /\ connections[f].headerEnd \in 0..Len(connections[f].buf)
              /\ connections[f].state \in {"READING", "WEBSOCKET"}
    /\ tasks \in [Fds -> Nat]
    /\ lock \in Fds \cup {None}
    /\ chat \in [Chats -> {Idle} \cup [doing : {"chat", "leave"}, fd : Fds]]

InOrder(s) == \A i, j \in DOMAIN s : i < j => s[i].n < s[j].n

\* However tasks, reads and closes fall together, a client is answered what it
\* asked, in order, and once, and its chat hears its own frames: as long as no
\* number was reused that a chat handler still used or had left in the map.
\* Only an upgrade can be answered again, by a task of an earlier connection.
ClientsKeptApart ==
    ~reused =>
        \A c \in Clients :
            /\ \A i \in DOMAIN replies[c] : replies[c][i].from = c
            /\ InOrder(heard[c])
            /\ \A i, j \in DOMAIN replies[c] :
                  i < j => \/ replies[c][i].n < replies[c][j].n
                           \/ /\ replies[c][i].n = replies[c][j].n
                              /\ Kind(replies[c][i]) = "upgrade"

\* A client that reads nothing, for ever.
SlowPeer == \E c \in Clients : <>[](unread[c] = Window)

\* A client that asks one thing at a time is answered, whatever number it was
\* given and however its requests are cut, unless one that reads nothing holds
\* up the server.
PatientServed ==
    SlowPeer \/ \A c \in Patient :
        (phase[c] = "open" /\ sent[c] = Len(Stream(c)))
            ~> (reused \/ phase[c] = "gone" \/
                  \A n \in DOMAIN script[c] :
                      script[c][n] # "text" => Replied(c, n))
=============================================================================
