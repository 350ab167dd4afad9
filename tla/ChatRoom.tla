------------------------------ MODULE ChatRoom ------------------------------
(***************************************************************************)
(* What a chat room promises its members, whatever threads, locks and      *)
(* sockets it is built from: a text is said at one point of its room's     *)
(* log, and a member is given the texts of the log one by one, from the    *)
(* point where it joined.  A text may be lost only on a member whose       *)
(* connection the server has given up or cannot wait for.                  *)
(***************************************************************************)
EXTENDS Integers, Sequences

CONSTANTS Clients, Rooms, Texts

VARIABLES
    log,           \* the texts said in each room
    room,          \* the room of a client, once it has asked for one
    at,            \* how much of its room's log a member is done with
    got,           \* the texts a client was given
    lossy          \* the clients that may miss a text

vars == <<log, room, at, got, lossy>>

NotIn == -1

Init ==
    /\ log = [r \in Rooms |-> <<>>]
    /\ room \in [Clients -> Rooms]
    /\ at = [c \in Clients |-> NotIn]
    /\ got = [c \in Clients |-> <<>>]
    /\ lossy \in SUBSET Clients

Log(c) == log[room[c]]

Join(c) ==
    /\ at[c] = NotIn
    /\ at' = [at EXCEPT ![c] = Len(Log(c))]
    /\ UNCHANGED <<log, room, got, lossy>>

Say(c) ==
    /\ at[c] # NotIn
    /\ \E t \in Texts : log' = [log EXCEPT ![room[c]] = Append(@, t)]
    /\ UNCHANGED <<room, at, got, lossy>>

Move(c) ==
    /\ at[c] # NotIn
    /\ at[c] < Len(Log(c))
    /\ at' = [at EXCEPT ![c] = @ + 1]
    /\ UNCHANGED <<log, room, lossy>>

Deliver(c) ==
    /\ Move(c)
    /\ got' = [got EXCEPT ![c] = Append(@, Log(c)[at[c] + 1])]

Lose(c) ==
    /\ c \in lossy
    /\ Move(c)
    /\ UNCHANGED got

GiveUp(c) ==
    /\ lossy' = lossy \cup {c}
    /\ UNCHANGED <<log, room, at, got>>

Next ==
    \E c \in Clients :
        Join(c) \/ Say(c) \/ Deliver(c) \/ Lose(c) \/ GiveUp(c)

Spec == Init /\ [][Next]_vars
=============================================================================
