------------------------------ MODULE ZigRooms ------------------------------
(***************************************************************************)
(* The chat rooms of main_async.zig: from the upgrade request to the end   *)
(* of handleClient, with the memory they are made of.                      *)
(*                                                                         *)
(* A handler creates a WebSocketConnection on the heap and destroys it     *)
(* when it ends; a broadcast destroys those that it fails to write to.     *)
(* The map of rooms does not copy its keys: the key of an entry is the     *)
(* room name in the request buffer of the handler that made the entry, on  *)
(* the stack of that handler.  An entry is therefore named after its       *)
(* maker, and its key is stale once the maker's handler has returned.      *)
(*                                                                         *)
(* Each room has a mutex too, which is only taken with g_rooms_mutex held: *)
(* all that matters of it is where it is unlocked.                         *)
(***************************************************************************)
EXTENDS Lists, FiniteSets

CONSTANTS
    Conns,         \* connections, each with its client and its handler
    Rooms,
    MaxSent,       \* bound: texts sent by all clients together
    Window,        \* texts that a socket holds until its client reads
    None           \* no connection, no entry

ASSUME ZigAssumption ==
    /\ IsFiniteSet(Conns)
    /\ MaxSent \in Nat
    /\ Window \in Nat \ {0}
    /\ None \notin Conns

VARIABLES
    \* the clients and the network
    phase,         \* "open", "closed" (FIN sent) or "reset" (RST sent)
    sent,          \* texts sent so far
    unread,        \* texts written to a client and not read yet
    \* the heap
    heap,          \* the connection an object holds, if it is in use
    brk,           \* objects that have ever been in use: 1..brk
    freed,         \* how often an object is in the free lists
    \* the server
    aborted,       \* a crash has ended the process
    pc,            \* where the handler of each connection is
    room,          \* room_name: the room its client asks for
    taken,         \* texts its handler has taken
    obj,           \* ws_conn: its object
    rooms,         \* g_websocket_rooms: the objects of each entry; <<>>: none
    lock,          \* the holder of g_rooms_mutex
    found,         \* the entry that is being broadcast to
    cursor,        \* where in it the broadcast is
    failed,        \* failed_indices
    \* history
    faults,        \* what has happened: "write", "key"
    log,           \* the texts said in each room, in order
    at,            \* how much of its room's log a member was written
    got            \* the texts written to a client

client == <<phase, sent, unread>>
memory == <<heap, brk, freed>>
broadcast == <<found, cursor, failed>>
history == <<log, at, got>>
vars == <<client, memory, aborted, pc, room, taken, obj, rooms, lock,
          broadcast, faults, history>>

Objects == 1..Cardinality(Conns)
Text == [from : Conns, n : 1..MaxSent]
NotIn == -1

Goto(c, label) == pc' = [pc EXCEPT ![c] = label]

Init ==
    /\ phase = [c \in Conns |-> "open"]
    /\ sent = [c \in Conns |-> 0]
    /\ unread = [c \in Conns |-> 0]
    /\ heap = [a \in Objects |-> None]
    /\ brk = 0
    /\ freed = [a \in Objects |-> 0]
    /\ aborted = FALSE
    /\ pc = [c \in Conns |-> "request"]
    /\ room \in [Conns -> Rooms]
    /\ taken = [c \in Conns |-> 0]
    /\ obj = [c \in Conns |-> 0]
    /\ rooms = [k \in Conns |-> <<>>]
    /\ lock = None
    /\ found = None /\ cursor = 0 /\ failed = {}
    /\ faults = {}
    /\ log = [r \in Rooms |-> <<>>]
    /\ at = [c \in Conns |-> NotIn]
    /\ got = [c \in Conns |-> <<>>]

-----------------------------------------------------------------------------
(* The clients.                                                            *)

ClientSay(c) ==
    /\ phase[c] = "open"
    /\ pc[c] # "request"
    /\ Cardinality({t \in Text : t.n <= sent[t.from]}) < MaxSent
    /\ sent' = [sent EXCEPT ![c] = @ + 1]
    /\ UNCHANGED <<phase, unread, memory, aborted, pc, room, taken, obj, rooms,
                   lock, broadcast, faults, history>>

ClientRead(c) ==
    /\ phase[c] = "open"
    /\ unread[c] > 0
    /\ unread' = [unread EXCEPT ![c] = 0]
    /\ UNCHANGED <<phase, sent, memory, aborted, pc, room, taken, obj, rooms,
                   lock, broadcast, faults, history>>

\* A client closes; it resets if it leaves something unread or is written to
\* after that.
ClientLeave(c) ==
    /\ \/ phase[c] = "open" /\ phase' = [phase EXCEPT ![c] = "closed"]
       \/ phase[c] # "reset" /\ phase' = [phase EXCEPT ![c] = "reset"]
    /\ unread' = [unread EXCEPT ![c] = 0]
    /\ UNCHANGED <<sent, memory, aborted, pc, room, taken, obj, rooms, lock,
                   broadcast, faults, history>>

-----------------------------------------------------------------------------
(* The heap and the map.                                                   *)

\* create: an object from a free list, or a new one.
Create(c) ==
    \E a \in Objects :
        /\ \/ a = brk + 1 /\ brk' = a /\ UNCHANGED freed
           \/ freed[a] > 0 /\ freed' = [freed EXCEPT ![a] = @ - 1] /\ UNCHANGED brk
        /\ heap' = [heap EXCEPT ![a] = c]
        /\ obj' = [obj EXCEPT ![c] = a]

\* destroy, of each of some places in a list: it is not noticed when an object
\* is destroyed a second time, or under another owner.
Destroy(list, places) ==
    LET Times(a) == Cardinality({i \in places : list[i] = a})
    IN  /\ heap' = [a \in Objects |-> IF Times(a) > 0 THEN None ELSE heap[a]]
        /\ freed' = [a \in Objects |-> freed[a] + Times(a)]
        /\ UNCHANGED brk

Stale(k) == rooms[k] # <<>> /\ pc[k] = "done"

\* What a search for the room of c may find.  The bytes of a stale key are
\* those of whatever uses that stack now: they may be any name.
Entries(c) ==
    LET named == {k \in Conns : rooms[k] # <<>> /\ ~Stale(k) /\ room[k] = room[c]}
    IN  named \cup {k \in Conns : Stale(k)}
              \cup (IF named = {} THEN {None} ELSE {})

Searched ==
    faults' = faults \cup (IF \E k \in Conns : Stale(k) THEN {"key"} ELSE {})

-----------------------------------------------------------------------------
(* The upgrade.                                                            *)

\* The 101 is written; if that fails the handler ends.
Upgrade(c) ==
    /\ pc[c] = "request"
    /\ IF phase[c] = "reset"
       THEN Goto(c, "done") /\ UNCHANGED <<memory, obj>>
       ELSE Goto(c, "join") /\ Create(c)
    /\ UNCHANGED <<client, aborted, room, taken, rooms, lock, broadcast, faults,
                   history>>

\* addConnectionToRoom
Join(c) ==
    /\ pc[c] = "join"
    /\ lock = None
    /\ \E k \in Entries(c) :
          LET entry == IF k = None THEN c ELSE k
          IN  rooms' = [rooms EXCEPT ![entry] = Append(@, obj[c])]
    /\ Searched
    /\ at' = [at EXCEPT ![c] = Len(log[room[c]])]
    /\ Goto(c, "chat")
    /\ UNCHANGED <<client, memory, aborted, room, taken, obj, lock, broadcast,
                   log, got>>

-----------------------------------------------------------------------------
(* The loop over frames, and broadcastToRoom.  Waiting for g_rooms_mutex    *)
(* changes nothing: a text is taken, and a loss noticed, when it is given. *)

Said(c) == [from |-> c, n |-> taken[c]]

\* The next text was parsed, and is said in the room.
Says(c) ==
    /\ pc[c] = "chat"
    /\ lock = None
    /\ taken[c] < sent[c]
    /\ taken' = [taken EXCEPT ![c] = @ + 1]
    /\ log' = [log EXCEPT ![room[c]] = Append(@, [from |-> c, n |-> taken'[c]])]

\* Mutant: the entry is looked up under the lock and used without it.
BroadcastUnlocked(c) ==
    /\ Says(c) /\ found = None
    /\ Searched
    /\ found' \in Entries(c)
    /\ cursor' = 1 /\ failed' = {}
    /\ IF found' = None THEN Goto(c, "chat") ELSE Goto(c, "send")
    /\ UNCHANGED <<client, memory, aborted, room, obj, rooms, lock, at, got>>

\* g_rooms_mutex is held until the room was unlocked.
Broadcast(c) ==
    /\ Says(c)
    /\ Searched
    /\ found' \in Entries(c)
    /\ cursor' = 1 /\ failed' = {}
    /\ IF found' = None
       THEN Goto(c, "chat") /\ UNCHANGED lock
       ELSE Goto(c, "send") /\ lock' = c
    /\ UNCHANGED <<client, memory, aborted, room, obj, rooms, at, got>>

\* The next object of the list, and the connection it holds.
HasPeer(c) == pc[c] = "send" /\ cursor <= Len(rooms[found])
Peer == heap[rooms[found][cursor]]

Writable(d) == phase[d] = "open" /\ unread[d] < Window

\* The text reaches the socket, or goes nowhere.
Write(c) ==
    /\ HasPeer(c) /\ Peer # None
    /\ \/ /\ Writable(Peer)
          /\ unread' = [unread EXCEPT ![Peer] = @ + 1]
          /\ got' = [got EXCEPT ![Peer] = Append(@, Said(c))]
       \/ /\ phase[Peer] = "closed"
          /\ UNCHANGED <<unread, got>>
    /\ at' = [at EXCEPT ![Peer] = @ + 1]
    /\ cursor' = cursor + 1
    /\ UNCHANGED <<phase, sent, memory, aborted, pc, room, taken, obj, rooms,
                   lock, found, failed, faults, log>>

\* More than 64 failures are not collected; there are fewer here.
WriteFails(c) ==
    /\ HasPeer(c) /\ Peer # None
    /\ phase[Peer] = "reset"
    /\ failed' = failed \cup {cursor}
    /\ cursor' = cursor + 1
    /\ faults' = faults \cup {"write"}
    /\ UNCHANGED <<client, memory, aborted, pc, room, taken, obj, rooms, lock,
                   found, history>>

\* An object that was destroyed is filled with a pattern, pointers included.
WriteFreed(c) ==
    /\ HasPeer(c) /\ Peer = None
    /\ aborted' = TRUE
    /\ UNCHANGED <<client, memory, pc, room, taken, obj, rooms, lock, broadcast,
                   faults, history>>

\* The list that is broadcast to, without some places.
Without(places) == Pick(rooms[found], DOMAIN rooms[found] \ places)

\* What failed is taken out and destroyed, and an empty room removed: with its
\* mutex, which is yet to be unlocked.
BroadcastEnd(c) ==
    /\ pc[c] = "send"
    /\ cursor > Len(rooms[found])
    /\ Destroy(rooms[found], failed)
    /\ rooms' = [rooms EXCEPT ![found] = Without(failed)]
    /\ IF rooms'[found] = <<>>
       THEN Goto(c, "unlock") /\ UNCHANGED <<lock, broadcast>>
       ELSE Goto(c, "chat") /\ lock' = None
            /\ found' = None /\ cursor' = 0 /\ failed' = {}
    /\ UNCHANGED <<client, aborted, room, taken, obj, faults, history>>

\* The memory of an entry that was removed is undefined: unlock may find that
\* the state of the mutex is none of its values, and panic.
Unlock(c) ==
    /\ pc[c] = "unlock"
    /\ aborted' \in BOOLEAN
    /\ lock' = None
    /\ found' = None /\ cursor' = 0 /\ failed' = {}
    /\ Goto(c, "chat")
    /\ UNCHANGED <<client, memory, room, taken, obj, rooms, faults, history>>

-----------------------------------------------------------------------------
(* The end of a session.                                                   *)

\* stream() fails: the client is gone.
HungUp(c) ==
    /\ pc[c] = "chat"
    /\ taken[c] = sent[c]
    /\ phase[c] # "open"

\* Mutant: the room is removed although others are still in it.
LeaveRemovesRoom(c) ==
    /\ HungUp(c)
    /\ lock = None
    /\ \E k \in Entries(c) :
          rooms' = IF k = None THEN rooms ELSE [rooms EXCEPT ![k] = <<>>]
    /\ Searched
    /\ Goto(c, "free")
    /\ UNCHANGED <<client, memory, aborted, room, taken, obj, lock, broadcast,
                   history>>

\* removeConnectionFromRoom
Leave(c) ==
    /\ HungUp(c)
    /\ lock = None
    /\ \E k \in Entries(c) :
          rooms' = IF k = None THEN rooms
                   ELSE [rooms EXCEPT ![k] =
                            Pick(@, {i \in DOMAIN @ : @[i] # obj[c]})]
    /\ Searched
    /\ Goto(c, "free")
    /\ UNCHANGED <<client, memory, aborted, room, taken, obj, lock, broadcast,
                   history>>

\* Mutant: the object is destroyed once by each of two defers.
ReturnTwice(c) ==
    /\ pc[c] = "free"
    /\ Destroy(<<obj[c], obj[c]>>, {1, 2})
    /\ Goto(c, "done")
    /\ UNCHANGED <<client, aborted, room, taken, obj, rooms, lock, broadcast,
                   faults, history>>

\* The two defers: the object is destroyed, the stream is closed.
Return(c) ==
    /\ pc[c] = "free"
    /\ Destroy(<<obj[c]>>, {1})
    /\ Goto(c, "done")
    /\ UNCHANGED <<client, aborted, room, taken, obj, rooms, lock, broadcast,
                   faults, history>>

-----------------------------------------------------------------------------
Client(c) == ClientSay(c) \/ ClientRead(c) \/ ClientLeave(c)

Handler(c) ==
    \/ Upgrade(c) \/ Join(c)
    \/ Broadcast(c) \/ Write(c) \/ WriteFails(c) \/ WriteFreed(c)
    \/ BroadcastEnd(c) \/ Unlock(c)
    \/ Leave(c) \/ Return(c)

Next == ~aborted /\ \E c \in Conns : Client(c) \/ Handler(c)

Spec == Init /\ [][Next]_vars

-----------------------------------------------------------------------------
(* Properties.                                                             *)

InRoom == {"chat", "send", "unlock"}

Places(c) == {p \in Conns \X Objects :
                 p[2] \in DOMAIN rooms[p[1]] /\ rooms[p[1]][p[2]] = obj[c]}

\* Until a write fails or a stale key is met, the rooms hold just the sessions:
\* each in one place, in an entry of its room, with an object of its own; two
\* sessions of one room are in one entry; no broadcast meets an object that was
\* destroyed, and it unlocks the room while that is in the map.
RoomsExact ==
    faults = {} =>
        /\ ~aborted
        /\ \A c \in Conns : pc[c] \in InRoom =>
              /\ heap[obj[c]] = c
              /\ Cardinality(Places(c)) = 1
              /\ \A p \in Places(c) : room[p[1]] = room[c]
        /\ \A c, d \in Conns :
              {pc[c], pc[d]} \subseteq InRoom /\ room[c] = room[d] =>
                  \E p \in Places(c), q \in Places(d) : p[1] = q[1]
        /\ \A c \in Conns : pc[c] = "unlock" => rooms[found] # <<>>
        /\ \A k \in Conns : \A i \in DOMAIN rooms[k] :
              \E c \in Conns : pc[c] \in InRoom /\ obj[c] = rooms[k][i]

\* Two handlers come to hold one object only after a broadcast has destroyed
\* what its owner would destroy as well.
ObjectsApart ==
    "write" \notin faults =>
        \A c, d \in Conns :
            c # d /\ {pc[c], pc[d]} \cap {"request", "done"} = {} => obj[c] # obj[d]

\* Until then, members are given what is said in their room, once, in one
\* order, from the point where they joined.
Gone == {c \in Conns : phase[c] # "open"}
Promise ==
    INSTANCE ChatRoom WITH Clients <- Conns, Texts <- Text, lossy <- Gone
PromiseKept ==
    Promise!Init /\ [][faults' # {} \/ Promise!Next]_(Promise!vars)
=============================================================================
