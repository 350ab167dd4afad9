------------------------------- MODULE RsChat -------------------------------
(***************************************************************************)
(* The chat rooms of backend_rs: from the upgrade request to the end of    *)
(* handle_websocket_client.  main.rs and compare1/main1.rs ("main") have   *)
(* the same code; compare2/main2.rs ("main2") has it too, on a socket with *)
(* read and write timeouts.                                                *)
(*                                                                         *)
(* Every connection has a worker: there are at least 256.  A room holds    *)
(* clones of its members' sockets, and a handler that ends takes out of    *)
(* its room what has the address of its own peer.  The Vec of a room is a  *)
(* set here: a broadcast may go through it in any order.  A frame is       *)
(* written in two halves, as write_all may have to wait in the middle.     *)
(***************************************************************************)
EXTENDS Integers, Sequences

CONSTANTS
    Progs,         \* the programs to run: a subset of {"main", "main2"}
    Conns,         \* connections, each with its client and its handler
    Rooms,
    Addr,          \* the peer address of each connection
    Says,          \* the kinds of frame each client sends to each program
    MaxSent,       \* bound: frames sent by a client
    Window,        \* half frames that a socket holds until its client reads
    None           \* no connection, no frame

Kinds == {"text", "ping", "close"}

ASSUME ChatAssumption ==
    /\ Progs \subseteq {"main", "main2"}
    /\ Says \in [Progs -> [Conns -> SUBSET Kinds]]
    /\ MaxSent \in Nat
    /\ Window \in Nat \ {0}
    /\ None \notin Conns

VARIABLES
    prog,          \* the program that runs
    \* the clients and the network
    phase,         \* "idle", "open", "closed" (FIN sent) or "reset" (RST sent)
    sent,          \* frames sent so far
    input,         \* frames that no read has returned yet
    unread,        \* half frames written to a client and not read yet
    \* the server
    aborted,       \* a panic has ended the process
    pc,            \* where the handler of each connection is
    room,          \* room_name: the room its client asks for
    frame,         \* the frame being answered
    todo,          \* the peers a broadcast has still to write to
    peer,          \* the peer it has written half of the frame to
    members,       \* peers: the sockets of each room
    lock,          \* the holder of the Mutex around peers
    \* history
    half,          \* the text of which a socket was given only a half so far
    torn,          \* what was written to a socket between two halves
    log,           \* the texts said in each room, in order
    at,            \* how much of its room's log a socket is done with
    got            \* the texts written to a client, whole

client == <<phase, sent, input, unread>>
sends == <<frame, todo, peer>>
handler == <<pc, sends>>
wire == <<half, torn, at, got>>
vars == <<prog, client, aborted, handler, room, members, lock, log, wire>>

Message == [kind : Kinds, n : 1..MaxSent]
Text == [from : Conns, n : 1..MaxSent]
NotIn == -1

Goto(c, label) == pc' = [pc EXCEPT ![c] = label]

Init ==
    /\ prog \in Progs
    /\ phase = [c \in Conns |-> "idle"]
    /\ sent = [c \in Conns |-> 0]
    /\ input = [c \in Conns |-> <<>>]
    /\ unread = [c \in Conns |-> 0]
    /\ aborted = FALSE
    /\ pc = [c \in Conns |-> "request"]
    /\ room \in [Conns -> Rooms]
    /\ frame = [c \in Conns |-> None]
    /\ todo = [c \in Conns |-> {}]
    /\ peer = [c \in Conns |-> None]
    /\ members = [r \in Rooms |-> {}]
    /\ lock = None
    /\ half = [c \in Conns |-> None]
    /\ torn = [c \in Conns |-> {}]
    /\ log = [r \in Rooms |-> <<>>]
    /\ at = [c \in Conns |-> NotIn]
    /\ got = [c \in Conns |-> <<>>]

-----------------------------------------------------------------------------
(* The clients.                                                            *)

\* A client connects and asks for its room.  Its address may be that of an
\* earlier connection, once that is over for the kernels of both sides.
Connect(c) ==
    /\ phase[c] = "idle"
    /\ \A d \in Conns \ {c} : Addr[d] = Addr[c] =>
          \/ phase[d] \in {"idle", "reset"}
          \/ phase[d] = "closed" /\ pc[d] = "done"
    /\ phase' = [phase EXCEPT ![c] = "open"]
    /\ UNCHANGED <<prog, sent, input, unread, aborted, handler, room, members,
                   lock, log, wire>>

\* Frames follow the answer to the upgrade request.
Send(c, kind) ==
    /\ kind \in Says[prog][c]
    /\ phase[c] = "open"
    /\ pc[c] # "request"
    /\ sent[c] < MaxSent
    /\ sent' = [sent EXCEPT ![c] = @ + 1]
    /\ input' = [input EXCEPT ![c] =
                     Append(@, [kind |-> kind, n |-> sent[c] + 1])]
    /\ UNCHANGED <<prog, phase, unread, aborted, handler, room, members, lock,
                   log, wire>>

ClientRead(c) ==
    /\ phase[c] = "open"
    /\ unread[c] > 0
    /\ unread' = [unread EXCEPT ![c] = 0]
    /\ UNCHANGED <<prog, phase, sent, input, aborted, handler, room, members,
                   lock, log, wire>>

ClientClose(c) ==
    /\ phase[c] = "open"
    /\ phase' = [phase EXCEPT ![c] = "closed"]
    /\ unread' = [unread EXCEPT ![c] = 0]
    /\ UNCHANGED <<prog, sent, input, aborted, handler, room, members, lock,
                   log, wire>>

\* A client goes without reading all that was sent to it, or is written to
\* after it has gone.
ClientReset(c) ==
    /\ phase[c] \in {"open", "closed"}
    /\ phase' = [phase EXCEPT ![c] = "reset"]
    /\ unread' = [unread EXCEPT ![c] = 0]
    /\ UNCHANGED <<prog, sent, input, aborted, handler, room, members, lock,
                   log, wire>>

-----------------------------------------------------------------------------
(* The upgrade, and the start of handle_websocket_client.                  *)

\* The 101 is written; if that fails so does the 404, and the handler ends.
Upgrade(c) ==
    /\ pc[c] = "request"
    /\ phase[c] # "idle"
    /\ Goto(c, IF phase[c] = "reset" THEN "done" ELSE "start")
    /\ UNCHANGED <<prog, client, aborted, sends, room, members, lock, log,
                   wire>>

\* peer_addr().unwrap(): a socket that was reset has no peer any more, and a
\* panic aborts the process.
Start(c) ==
    /\ pc[c] = "start"
    /\ aborted' = (phase[c] = "reset")
    /\ Goto(c, "join")
    /\ UNCHANGED <<prog, client, sends, room, members, lock, log, wire>>

Join(c) ==
    /\ pc[c] = "join"
    /\ lock = None
    /\ members' = [members EXCEPT ![room[c]] = @ \cup {c}]
    /\ at' = [at EXCEPT ![c] = Len(log[room[c]])]
    /\ Goto(c, "chat")
    /\ UNCHANGED <<prog, client, aborted, sends, room, lock, log, half, torn,
                   got>>

-----------------------------------------------------------------------------
(* The loop over reads and frames.                                         *)

TakeText(c) ==
    /\ pc[c] = "chat"
    /\ input[c] # <<>>
    /\ Head(input[c]).kind = "text"
    /\ frame' = [frame EXCEPT ![c] = [from |-> c, n |-> Head(input[c]).n]]
    /\ input' = [input EXCEPT ![c] = Tail(@)]
    /\ Goto(c, "broadcast")
    /\ UNCHANGED <<prog, phase, sent, unread, aborted, todo, peer, room,
                   members, lock, log, wire>>

TakePing(c) ==
    /\ pc[c] = "chat"
    /\ input[c] # <<>>
    /\ Head(input[c]).kind = "ping"
    /\ input' = [input EXCEPT ![c] = Tail(@)]
    /\ Goto(c, "reply")
    /\ UNCHANGED <<prog, phase, sent, unread, aborted, sends, room, members,
                   lock, log, wire>>

\* Close is answered and drops the frames that were read together with it;
\* the loop goes on reading.
TakeClose(c) ==
    /\ pc[c] = "chat"
    /\ input[c] # <<>>
    /\ Head(input[c]).kind = "close"
    /\ \E k \in 1..Len(input[c]) :
          input' = [input EXCEPT ![c] = SubSeq(@, k + 1, Len(@))]
    /\ Goto(c, "reply")
    /\ UNCHANGED <<prog, phase, sent, unread, aborted, sends, room, members,
                   lock, log, wire>>

\* Mutant: a read error is taken for an interrupted call.
HangUpRetried(c) ==
    /\ pc[c] = "chat"
    /\ input[c] = <<>>
    /\ phase[c] = "closed" \/ prog = "main2"
    /\ Goto(c, "leave")
    /\ UNCHANGED <<prog, client, aborted, sends, room, members, lock, log,
                   wire>>

\* The read returns 0 or an error: the client is gone, or (main2) it has been
\* silent for six seconds.
HangUp(c) ==
    /\ pc[c] = "chat"
    /\ input[c] = <<>>
    /\ phase[c] # "open" \/ prog = "main2"
    /\ Goto(c, "leave")
    /\ UNCHANGED <<prog, client, aborted, sends, room, members, lock, log,
                   wire>>

-----------------------------------------------------------------------------
(* Writing to sockets.  No result is looked at.                            *)

\* Mutant: a write that does not wait for the window.
WritableAtOnce(d) == phase[d] = "open"

Writable(d) == phase[d] = "open" /\ unread[d] < Window

\* The write fails or goes nowhere: the client is gone, or (main2) its window
\* has been full for six seconds.
Unwritable(d) == phase[d] # "open" \/ (prog = "main2" /\ unread[d] = Window)

\* A half frame reaches d; in the middle of a text, it tears that text.
Written(d, kind, tears) ==
    /\ Writable(d)
    /\ unread' = [unread EXCEPT ![d] = @ + 1]
    /\ torn' = IF tears THEN [torn EXCEPT ![d] = @ \cup {kind}] ELSE torn

\* A Pong or a Close, written without the lock.
Reply(c) ==
    /\ pc[c] = "reply"
    /\ \/ Written(c, "reply", half[c] # None)
       \/ Unwritable(c) /\ UNCHANGED <<unread, torn>>
    /\ Goto(c, "chat")
    /\ UNCHANGED <<prog, phase, sent, input, aborted, sends, room, members,
                   lock, log, half, at, got>>

\* Mutant: the list is copied under the lock and written to without it.
BroadcastSnapshot(c) ==
    /\ pc[c] = "broadcast"
    /\ lock = None
    /\ todo' = [todo EXCEPT ![c] = members[room[c]]]
    /\ log' = [log EXCEPT ![room[c]] = Append(@, frame[c])]
    /\ Goto(c, "send")
    /\ UNCHANGED <<prog, client, aborted, frame, peer, room, members, lock,
                   wire>>

\* Mutant: the sender is not sent its own text.
BroadcastOthers(c) ==
    /\ pc[c] = "broadcast"
    /\ lock = None
    /\ lock' = c
    /\ todo' = [todo EXCEPT ![c] = members[room[c]] \ {c}]
    /\ log' = [log EXCEPT ![room[c]] = Append(@, frame[c])]
    /\ Goto(c, "send")
    /\ UNCHANGED <<prog, client, aborted, frame, peer, room, members, wire>>

\* The lock is held from the first write to the last.
Broadcast(c) ==
    /\ pc[c] = "broadcast"
    /\ lock = None
    /\ lock' = c
    /\ todo' = [todo EXCEPT ![c] = members[room[c]]]
    /\ log' = [log EXCEPT ![room[c]] = Append(@, frame[c])]
    /\ Goto(c, "send")
    /\ UNCHANGED <<prog, client, aborted, frame, peer, room, members, wire>>

SendHalf(c, d) ==
    /\ pc[c] = "send"
    /\ d \in todo[c]
    /\ Written(d, "text", half[d] # None)
    /\ half' = [half EXCEPT ![d] = frame[c]]
    /\ peer' = [peer EXCEPT ![c] = d]
    /\ todo' = [todo EXCEPT ![c] = @ \ {d}]
    /\ Goto(c, "rest")
    /\ UNCHANGED <<prog, phase, sent, input, aborted, frame, room, members,
                   lock, log, at, got>>

\* Done with d.
SentTo(c, d) ==
    /\ at' = [at EXCEPT ![d] = @ + 1]
    /\ peer' = [peer EXCEPT ![c] = None]
    /\ todo' = [todo EXCEPT ![c] = @ \ {d}]
    /\ Goto(c, "send")
    /\ UNCHANGED <<prog, phase, sent, input, aborted, frame, room, members,
                   lock, log>>

SendRest(c, d) ==
    /\ pc[c] = "rest"
    /\ d = peer[c]
    /\ Written(d, "text", half[d] # frame[c])
    /\ half' = [half EXCEPT ![d] = None]
    /\ got' = [got EXCEPT ![d] = Append(@, frame[c])]
    /\ SentTo(c, d)

SendLost(c, d) ==
    /\ \/ pc[c] = "send" /\ d \in todo[c]
       \/ pc[c] = "rest" /\ d = peer[c]
    /\ Unwritable(d)
    /\ SentTo(c, d)
    /\ UNCHANGED <<unread, half, torn, got>>

BroadcastEnd(c) ==
    /\ pc[c] = "send"
    /\ todo[c] = {}
    /\ lock' = None
    /\ frame' = [frame EXCEPT ![c] = None]
    /\ Goto(c, "chat")
    /\ UNCHANGED <<prog, client, aborted, todo, peer, room, members, log,
                   wire>>

-----------------------------------------------------------------------------
(* Drop for SocketCloser.                                                  *)

\* retain keeps the sockets that still have a peer, of another address.
Keeps(c, d) == phase[d] # "reset" /\ Addr[d] # Addr[c]

\* Mutant: the room is removed although others are still in it.
LeaveRemovesRoom(c) ==
    /\ pc[c] = "leave"
    /\ lock = None
    /\ members' = [members EXCEPT ![room[c]] = {}]
    /\ Goto(c, "done")
    /\ UNCHANGED <<prog, client, aborted, sends, room, lock, log, wire>>

Leave(c) ==
    /\ pc[c] = "leave"
    /\ lock = None
    /\ members' = [members EXCEPT ![room[c]] = {d \in @ : Keeps(c, d)}]
    /\ Goto(c, "done")
    /\ UNCHANGED <<prog, client, aborted, sends, room, lock, log, wire>>

-----------------------------------------------------------------------------
Client(c) ==
    \/ Connect(c) \/ (\E kind \in Kinds : Send(c, kind))
    \/ ClientRead(c) \/ ClientClose(c) \/ ClientReset(c)

Handler(c) ==
    \/ Upgrade(c) \/ Start(c) \/ Join(c)
    \/ TakeText(c) \/ TakePing(c) \/ TakeClose(c) \/ HangUp(c)
    \/ Reply(c)
    \/ Broadcast(c) \/ BroadcastEnd(c)
    \/ (\E d \in Conns : SendHalf(c, d) \/ SendRest(c, d) \/ SendLost(c, d))
    \/ Leave(c)

Next == ~aborted /\ \E c \in Conns : Client(c) \/ Handler(c)

Spec == Init /\ [][Next]_vars

\* Handlers that can run do run; nothing is assumed of the clients.  Weak
\* fairness is enough for the lock because the frames are bounded.
FairSpec == Spec /\ \A c \in Conns : WF_vars(~aborted /\ Handler(c))

-----------------------------------------------------------------------------
(* Properties.                                                             *)

Session == {"chat", "reply", "broadcast", "send", "rest", "leave"}
Labels == Session \cup {"request", "start", "join", "done"}
Listed(c) == c \in members[room[c]]

\* Every variable has its type.
TypeOK ==
    /\ prog \in Progs
    /\ phase \in [Conns -> {"idle", "open", "closed", "reset"}]
    /\ sent \in [Conns -> 0..MaxSent]
    /\ input \in [Conns -> Seq(Message)]
    /\ unread \in [Conns -> 0..Window]
    /\ aborted \in BOOLEAN
    /\ pc \in [Conns -> Labels]
    /\ room \in [Conns -> Rooms]
    /\ frame \in [Conns -> Text \cup {None}]
    /\ todo \in [Conns -> SUBSET Conns]
    /\ peer \in [Conns -> Conns \cup {None}]
    /\ members \in [Rooms -> SUBSET Conns]
    /\ lock \in Conns \cup {None}
    /\ half \in [Conns -> Text \cup {None}]
    /\ torn \in [Conns -> SUBSET {"reply", "text"}]
    /\ log \in [Rooms -> Seq(Text)]
    /\ at \in [Conns -> Nat \cup {NotIn}]
    /\ got \in [Conns -> Seq(Text)]

\* A room holds sockets of its own sessions only: a handler that has ended
\* leaves no clone behind that would keep its connection open.
ListedInSession ==
    \A r \in Rooms : \A c \in members[r] : room[c] = r /\ pc[c] \in Session

\* A session is in its room until it ends, whatever other handlers take out:
\* all but a client that is gone, or one that came back with the address of a
\* connection whose handler was late to leave.
SessionListed ==
    \A c \in Conns :
        pc[c] \in Session /\ ~Listed(c) =>
            \/ phase[c] = "reset"
            \/ \E d \in Conns \ {c} : Addr[d] = Addr[c] /\ pc[d] = "done"

\* A room holds just its sessions: see the two halves of this.
RoomsExact == ListedInSession /\ SessionListed

\* No text is written into the middle of another one, however many handlers
\* broadcast; only the timeouts of main2 cut a text short.
TextsWhole == \A c \in Conns : "text" \in torn[c] => prog = "main2"

\* Members are given what is said in their room, once, in one order, from the
\* point where they joined, with no gap while they are connected.
Lossy == {c \in Conns : prog = "main2" \/ phase[c] \in {"closed", "reset"}}
Promise ==
    INSTANCE ChatRoom WITH Clients <- Conns, Texts <- Text, lossy <- Lossy
Refinement == Promise!Spec

\* A client of main.rs that stops reading, for ever.
SlowPeer == prog = "main" /\ \E c \in Conns : <>[](unread[c] = Window)

\* The handlers of all clients that are gone come to their ends and free their
\* workers, unless a peer stops reading (main.rs) or the process has aborted.
SessionEnds ==
    SlowPeer \/ []<>(aborted \/ \A c \in Conns :
                        phase[c] \in {"closed", "reset"} => pc[c] = "done")
=============================================================================
