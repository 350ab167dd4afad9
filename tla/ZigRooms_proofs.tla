--------------------------- MODULE ZigRooms_proofs ---------------------------
(***************************************************************************)
(* Theorems about ZigRooms: as long as no write has failed, every object   *)
(* is owned by one handler or is in the free lists once.                   *)
(***************************************************************************)
EXTENDS ZigRooms, DataLemmas, FiniteSetTheorems

Steps == {"request", "join", "chat", "send", "unlock", "free", "done"}

\* The part of the types that ownership depends on.
HeapTyped ==
    /\ pc \in [Conns -> Steps]
    /\ obj \in [Conns -> Nat]
    /\ brk \in Nat
    /\ freed \in [Objects -> Nat]

Alive(c) == pc[c] \notin {"request", "done"}

\* An object is in the free lists once or not at all, and then nobody's; no
\* broadcast has anything to destroy.
Owned ==
    /\ failed = {}
    /\ \A a \in Objects : freed[a] \in {0, 1} /\ (freed[a] = 1 => a <= brk)
    /\ \A c \in Conns : Alive(c) =>
          obj[c] \in Objects /\ obj[c] <= brk /\ freed[obj[c]] = 0
    /\ \A c, d \in Conns : c # d /\ Alive(c) /\ Alive(d) => obj[c] # obj[d]

HeapSound == HeapTyped /\ Owned

\* The invariant: a failed write ends what the heap promises.
HeapInv == "write" \in faults \/ HeapSound

LEMMA HeapInvInit == Init => HeapInv
  BY DEF Init, HeapInv, HeapSound, HeapTyped, Owned, Alive, Steps

\* What went wrong stays on record.
LEMMA FaultsStay ==
    ASSUME NEW c \in Conns, Client(c) \/ Handler(c)
    PROVE  faults \subseteq faults'
  BY DEF Client, ClientSay, ClientRead, ClientLeave, Handler, Upgrade, Join,
         Broadcast, Write, WriteFails, WriteFreed, BroadcastEnd, Unlock, Leave,
         Return, Searched, broadcast

-----------------------------------------------------------------------------
\* A step that leaves the heap alone, takes nobody in or out and has nothing
\* to destroy.
Apart(c) ==
    /\ UNCHANGED <<memory, obj>>
    /\ \/ pc' = pc
       \/ Alive(c) /\ \E l \in Steps \ {"request", "done"} : pc' = [pc EXCEPT ![c] = l]
    /\ failed' \in {failed, {}} \/ "write" \in faults'

LEMMA ApartStep ==
    ASSUME HeapSound, NEW c \in Conns, Apart(c), "write" \notin faults'
    PROVE  HeapSound'
<1> USE DEF HeapSound, HeapTyped, Apart, memory
<1>1. \A d \in Conns : Alive(d)' = Alive(d)
  BY DEF Alive, Steps
<1>2. HeapTyped'
  BY DEF Steps, Objects
<1>3. failed' = {}
  BY DEF Owned
<1> QED
  BY <1>1, <1>2, <1>3 DEF Owned, Objects

\* What each handler does to the heap between its upgrade and its return, and
\* what clients do.
LEMMA OthersApart ==
    ASSUME HeapSound, NEW c \in Conns,
           \/ Client(c) \/ Join(c) \/ Broadcast(c)
           \/ Write(c) \/ WriteFails(c) \/ WriteFreed(c)
           \/ Unlock(c) \/ Leave(c)
    PROVE  Apart(c)
<1> USE DEF Apart, Alive, Steps, Goto, HeapSound, HeapTyped, memory, broadcast
<1>1. CASE Client(c)
  BY <1>1 DEF Client, ClientSay, ClientRead, ClientLeave
<1>2. CASE Join(c)
  BY <1>2 DEF Join, Searched
<1>3. CASE Broadcast(c)
  BY <1>3 DEF Broadcast, Says, Searched
<1>4. CASE Write(c) \/ WriteFails(c) \/ WriteFreed(c)
  BY <1>4 DEF Write, WriteFails, WriteFreed
<1>5. CASE Unlock(c)
  BY <1>5 DEF Unlock
<1>6. CASE Leave(c)
  BY <1>6 DEF Leave, HungUp, Searched
<1> QED
  BY <1>1, <1>2, <1>3, <1>4, <1>5, <1>6

LEMMA UpgradeOwns ==
    ASSUME HeapSound, NEW c \in Conns, Upgrade(c)
    PROVE  HeapSound'
<1> USE DEF HeapSound, HeapTyped
<1>1. pc[c] = "request" /\ UNCHANGED <<failed, faults>>
  BY DEF Upgrade, broadcast
<1>2. CASE phase[c] = "reset"
  <2>1. /\ UNCHANGED <<memory, obj>>
        /\ pc' = [pc EXCEPT ![c] = "done"]
    BY <1>2 DEF Upgrade, Goto
  <2>2. \A d \in Conns : Alive(d)' = Alive(d)
    BY <1>1, <2>1 DEF Alive
  <2> QED
    BY <1>1, <2>1, <2>2 DEF Owned, Objects, memory, Steps
<1>3. CASE phase[c] # "reset"
  <2>1. pc' = [pc EXCEPT ![c] = "join"] /\ Create(c)
    BY <1>3 DEF Upgrade, Goto
  <2>2. PICK a \in Objects :
            /\ \/ a = brk + 1 /\ brk' = a /\ UNCHANGED freed
               \/ /\ freed[a] > 0 /\ UNCHANGED brk
                  /\ freed' = [freed EXCEPT ![a] = @ - 1]
            /\ obj' = [obj EXCEPT ![c] = a]
    BY <2>1 DEF Create
  <2>3. a \in Nat
    BY <2>2 DEF Objects
  <2>4. HeapTyped'
    BY <2>1, <2>2, <2>3 DEF Steps, Objects
  <2>5. Owned'
    <3> HIDE DEF HeapTyped
    <3>0. freed[a] \in {0, 1} /\ (freed[a] = 1 => a <= brk) /\ brk \in Nat
      BY DEF Owned, HeapTyped
    <3>1. /\ a <= brk' /\ brk <= brk' /\ freed'[a] = 0
          /\ \A b \in Objects \ {a} : freed'[b] = freed[b]
      <4>1. CASE a = brk + 1 /\ brk' = a /\ UNCHANGED freed
        BY <4>1, <3>0, <2>3
      <4>2. CASE /\ freed[a] > 0 /\ UNCHANGED brk
                 /\ freed' = [freed EXCEPT ![a] = @ - 1]
        BY <4>2, <3>0, <2>3 DEF HeapTyped
      <4> QED
        BY <2>2, <4>1, <4>2
    <3> USE DEF HeapTyped
    <3>2. \A d \in Conns : Alive(d) => obj[d] # a
      BY <2>2, <2>3 DEF Owned
    <3>3. /\ \A d \in Conns \ {c} : Alive(d)' = Alive(d) /\ obj'[d] = obj[d]
          /\ obj'[c] = a
      BY <2>1, <2>2 DEF Alive
    <3>4. \A b \in Objects : freed'[b] \in {0, 1} /\ (freed'[b] = 1 => b <= brk')
      BY <3>1, <2>3, <2>4 DEF Owned, Objects
    <3>5. \A d \in Conns : Alive(d)' =>
              obj'[d] \in Objects /\ obj'[d] <= brk' /\ freed'[obj'[d]] = 0
      BY <3>1, <3>2, <3>3, <2>2, <2>4 DEF Owned, Objects
    <3>6. \A d, e \in Conns : d # e /\ Alive(d)' /\ Alive(e)' => obj'[d] # obj'[e]
      BY <3>2, <3>3 DEF Owned
    <3> QED
      BY <1>1, <3>4, <3>5, <3>6 DEF Owned, Objects
  <2> QED
    BY <1>1, <2>4, <2>5
<1> QED
  BY <1>2, <1>3

\* destroy, of nothing.
LEMMA DestroyNothing ==
    ASSUME NEW list, freed \in [Objects -> Nat], Destroy(list, {})
    PROVE  /\ freed' = freed /\ brk' = brk
           /\ heap' = [b \in Objects |-> heap[b]]
<1>1. \A a \in Objects : Cardinality({i \in {} : list[i] = a}) = 0
  <2>1. \A a \in Objects : {i \in {} : list[i] = a} = {}
    OBVIOUS
  <2> QED
    BY <2>1, FS_EmptySet
<1> QED
  BY <1>1 DEF Destroy

\* destroy, of one object.
LEMMA DestroyOne ==
    ASSUME NEW a \in Nat, freed \in [Objects -> Nat], Destroy(<<a>>, {1})
    PROVE  /\ freed' = [b \in Objects |-> IF b = a THEN freed[b] + 1 ELSE freed[b]]
           /\ heap' = [b \in Objects |-> IF b = a THEN None ELSE heap[b]]
           /\ brk' = brk
<1>1. \A b \in Objects :
          Cardinality({i \in {1} : <<a>>[i] = b}) = IF b = a THEN 1 ELSE 0
  <2>1. \A b \in Objects : {i \in {1} : <<a>>[i] = b} = IF b = a THEN {1} ELSE {}
    OBVIOUS
  <2> QED
    BY <2>1, FS_EmptySet, FS_Singleton
<1> QED
  BY <1>1 DEF Destroy

LEMMA BroadcastEndOwns ==
    ASSUME HeapSound, NEW c \in Conns, BroadcastEnd(c)
    PROVE  HeapSound'
<1> USE DEF HeapSound, HeapTyped
<1>1. /\ UNCHANGED obj
      /\ failed' \in {failed, {}}
      /\ Alive(c)
      /\ \E l \in {"unlock", "chat"} : pc' = [pc EXCEPT ![c] = l]
      /\ Destroy(rooms[found], failed)
  BY DEF BroadcastEnd, Goto, Alive, broadcast
<1>2. \A d \in Conns : Alive(d)' = Alive(d)
  BY <1>1 DEF Alive
<1>3. failed = {} /\ failed' = {}
  BY <1>1 DEF Owned
<1>4. freed' = freed /\ brk' = brk
  BY <1>1, <1>3, DestroyNothing
<1>5. HeapTyped'
  BY <1>1, <1>4 DEF Steps
<1> QED
  BY <1>1, <1>2, <1>3, <1>4, <1>5 DEF Owned

\* The object goes back to the free lists with its owner.
LEMMA ReturnOwns ==
    ASSUME HeapSound, NEW c \in Conns, Return(c)
    PROVE  HeapSound'
<1> USE DEF HeapSound, HeapTyped
<1>1. /\ UNCHANGED <<obj, failed>>
      /\ Alive(c)
      /\ pc' = [pc EXCEPT ![c] = "done"]
      /\ Destroy(<<obj[c]>>, {1})
  BY DEF Return, Goto, Alive, broadcast
<1>2. /\ freed' = [b \in Objects |->
                       IF b = obj[c] THEN freed[b] + 1 ELSE freed[b]]
      /\ brk' = brk
  BY <1>1, DestroyOne
<1>3. /\ ~Alive(c)'
      /\ \A d \in Conns \ {c} : Alive(d)' = Alive(d)
  BY <1>1 DEF Alive
<1>4. HeapTyped'
  BY <1>1, <1>2 DEF Steps
<1>5. obj[c] \in Objects /\ obj[c] <= brk /\ freed[obj[c]] = 0
  BY <1>1 DEF Owned
<1>6. \A b \in Objects : freed'[b] \in {0, 1} /\ (freed'[b] = 1 => b <= brk')
  BY <1>2, <1>5 DEF Owned
<1>7. \A d \in Conns : Alive(d)' => Alive(d) /\ d # c /\ obj[d] # obj[c]
  BY <1>1, <1>3 DEF Owned
<1>8. \A d \in Conns : Alive(d)' =>
          obj'[d] \in Objects /\ obj'[d] <= brk' /\ freed'[obj'[d]] = 0
  BY <1>1, <1>2, <1>7 DEF Owned
<1>9. \A d, e \in Conns : d # e /\ Alive(d)' /\ Alive(e)' => obj'[d] # obj'[e]
  BY <1>1, <1>7 DEF Owned
<1> QED
  BY <1>1, <1>4, <1>6, <1>8, <1>9 DEF Owned

-----------------------------------------------------------------------------
LEMMA HeapInvNext == HeapInv /\ [Next]_vars => HeapInv'
<1> SUFFICES ASSUME HeapInv, [Next]_vars PROVE HeapInv'
  OBVIOUS
<1>1. CASE UNCHANGED vars
  BY <1>1 DEF vars, memory, broadcast, HeapInv, HeapSound, HeapTyped, Owned, Alive
<1>2. CASE Next
  <2>1. PICK c \in Conns : Client(c) \/ Handler(c)
    BY <1>2 DEF Next
  <2>2. faults \subseteq faults'
    BY <2>1, FaultsStay
  <2>3. ASSUME HeapSound, "write" \notin faults'
        PROVE  HeapSound'
    <3>1. CASE Upgrade(c)
      BY <2>3, <3>1, UpgradeOwns
    <3>2. CASE BroadcastEnd(c)
      BY <2>3, <3>2, BroadcastEndOwns
    <3>3. CASE Return(c)
      BY <2>3, <3>3, ReturnOwns
    <3>4. CASE \/ Client(c) \/ Join(c) \/ Broadcast(c)
               \/ Write(c) \/ WriteFails(c) \/ WriteFreed(c)
               \/ Unlock(c) \/ Leave(c)
      BY <2>3, <3>4, OthersApart, ApartStep
    <3> QED
      BY <2>1, <3>1, <3>2, <3>3, <3>4 DEF Handler
  <2> QED
    BY <2>2, <2>3 DEF HeapInv
<1> QED
  BY <1>1, <1>2

LEMMA HeapInvApart == HeapInv => ObjectsApart
  BY DEF HeapInv, HeapSound, Owned, Alive, ObjectsApart

\* No object is held by two handlers unless a write has failed: create gives
\* out only what nobody holds, and each handler destroys what it was given once.
THEOREM ObjectsStayApart == Spec => []ObjectsApart
<1>1. Spec => []HeapInv
  BY HeapInvInit, HeapInvNext, PTL DEF Spec
<1> QED
  BY <1>1, HeapInvApart, PTL

-----------------------------------------------------------------------------
(***************************************************************************)
(* The rooms, until the first fault.  A session has one place, in the one  *)
(* entry of its room; what an entry lists is a session of its room.        *)
(***************************************************************************)
Inside(c) == pc[c] \in InRoom

Typed ==
    /\ phase \in [Conns -> {"open", "closed", "reset"}]
    /\ sent \in [Conns -> Nat]
    /\ taken \in [Conns -> Nat]
    /\ \A c \in Conns : taken[c] <= sent[c] /\ sent[c] <= MaxSent
    /\ heap \in [Objects -> Conns \cup {None}]
    /\ aborted = FALSE
    /\ room \in [Conns -> Rooms]
    /\ rooms \in [Conns -> Seq(Objects)]
    /\ log \in [Rooms -> Seq(Text)]
    /\ at \in [Conns -> Nat \cup {NotIn}]

\* Each handler has its object, and g_rooms_mutex while it broadcasts.
Held ==
    /\ \A c \in Conns : Alive(c) => heap[obj[c]] = c
    /\ \A c \in Conns : pc[c] # "unlock" /\ (pc[c] = "send" <=> lock = c)

\* A broadcast goes through the entry of its room.
Sending ==
    \A c \in Conns : pc[c] = "send" =>
        /\ found \in Conns /\ cursor \in Nat \ {0}
        /\ rooms[found] # <<>> /\ room[found] = room[c]

Listed ==
    \A k \in Conns : \A i \in DOMAIN rooms[k] :
        \E c \in Conns : Inside(c) /\ obj[c] = rooms[k][i] /\ room[c] = room[k]

Once ==
    \A k, l \in Conns : \A i \in DOMAIN rooms[k], j \in DOMAIN rooms[l] :
        rooms[k][i] = rooms[l][j] => k = l /\ i = j

Member ==
    \A c \in Conns : Inside(c) =>
        \E k \in Conns : \E i \in DOMAIN rooms[k] : rooms[k][i] = obj[c]

OneEntry ==
    /\ \A k, l \in Conns :
          rooms[k] # <<>> /\ rooms[l] # <<>> /\ room[k] = room[l] => k = l
    /\ \A c \in Conns : pc[c] \in {"request", "join"} => rooms[c] = <<>>

RoomsSound == Listed /\ Once /\ Member /\ OneEntry

\* The log of a room.  The text of a broadcast is its last, and a member whose
\* turn is yet to come is that text behind.
Placed ==
    \A c \in Conns :
        /\ pc[c] \in {"request", "join"} => at[c] = NotIn
        /\ Inside(c) => at[c] # NotIn

OnAir ==
    \A c \in Conns : pc[c] = "send" =>
        /\ log[room[c]] # <<>>
        /\ log[room[c]][Len(log[room[c]])] = Said(c)

Due(d) ==
    \E c \in Conns : pc[c] = "send" /\ \E i \in DOMAIN rooms[found] :
        i >= cursor /\ rooms[found][i] = obj[d]

Level ==
    \A d \in Conns : Inside(d) =>
        /\ Due(d) => at[d] + 1 = Len(log[room[d]])
        /\ ~Due(d) => at[d] = Len(log[room[d]])

LogSound == Placed /\ OnAir /\ Level

Sound == HeapSound /\ Typed /\ Held /\ Sending /\ RoomsSound /\ LogSound

RoomsInv == faults = {} => Sound

PromiseStep == [Promise!Next]_(Promise!vars)

LEMMA TextsFinite == IsFiniteSet(Text)
<1> DEFINE pairs == Conns \X (1..MaxSent)
           f == [p \in pairs |-> [from |-> p[1], n |-> p[2]]]
<1>1. IsFiniteSet(pairs)
  <2>1. IsFiniteSet(1..MaxSent)
    BY ZigAssumption, FS_Interval
  <2> QED
    BY <2>1, ZigAssumption, FS_Product
<1>2. f \in Surjection(pairs, Text)
  <2>1. f \in [pairs -> Text]
    BY DEF Text
  <2>2. ASSUME NEW t \in Text PROVE \E p \in pairs : f[p] = t
    <3>1. <<t.from, t.n>> \in pairs /\ f[<<t.from, t.n>>] = t
      BY DEF Text
    <3> QED
      BY <3>1
  <2> QED
    BY <2>1, <2>2 DEF Surjection
<1> QED
  BY <1>1, <1>2, FS_Surjection

\* A client that may send has sent less than all the texts there may be.
LEMMA SentInBound ==
    ASSUME NEW c \in Conns, sent \in [Conns -> Nat], sent[c] <= MaxSent,
           Cardinality({t \in Text : t.n <= sent[t.from]}) < MaxSent
    PROVE  sent[c] < MaxSent
<1> DEFINE T == {t \in Text : t.n <= sent[t.from]}
           f == [i \in 1..MaxSent |-> [from |-> c, n |-> i]]
<1>1. SUFFICES ASSUME sent[c] = MaxSent PROVE FALSE
  BY ZigAssumption
<1>2. f \in Injection(1..MaxSent, T)
  <2>1. \A i \in 1..MaxSent : f[i] \in T
    BY <1>1 DEF Text
  <2>2. \A i, j \in 1..MaxSent : f[i] = f[j] => i = j
    <3>1. \A i \in 1..MaxSent : f[i].n = i
      OBVIOUS
    <3> HIDE DEF f
    <3> QED
      BY <3>1
  <2> QED
    BY <2>1, <2>2 DEF Injection, IsInjective
<1>3. IsFiniteSet(T)
  BY TextsFinite, FS_Subset
<1>4. Cardinality(1..MaxSent) <= Cardinality(T)
  <2> HIDE DEF T, f
  <2> QED
    BY <1>2, <1>3, FS_Injection
<1>5. Cardinality(1..MaxSent) = MaxSent
  BY ZigAssumption, FS_Interval
<1>6. Cardinality(T) \in Nat
  BY <1>3, FS_CardinalityType
<1> QED
  BY <1>4, <1>5, <1>6, ZigAssumption

\* Who sends holds the lock, so there is one at most.
LEMMA NoneSends ==
    ASSUME Sound, lock = None
    PROVE  \A c \in Conns : pc[c] # "send" /\ ~Due(c)
  BY ZigAssumption DEF Sound, Held, Due

\* What an entry lists of a session is listed in the session's room.
LEMMA PlaceOfSession ==
    ASSUME Sound, NEW c \in Conns, Inside(c)
    PROVE  /\ \E k \in Conns : \E i \in DOMAIN rooms[k] : rooms[k][i] = obj[c]
           /\ \A k \in Conns : \A i \in DOMAIN rooms[k] :
                 rooms[k][i] = obj[c] => room[k] = room[c]
<1>1. \A d \in Conns : Inside(d) /\ obj[d] = obj[c] => d = c
  BY DEF Sound, HeapSound, Owned, Alive, Inside, InRoom
<1> QED
  BY <1>1 DEF Sound, RoomsSound, Member, Listed

LEMMA ClientStep ==
    ASSUME Sound, NEW c \in Conns, Client(c)
    PROVE  Typed' /\ Held' /\ Sending' /\ RoomsSound' /\ LogSound' /\ PromiseStep
<1>1. UNCHANGED <<memory, aborted, pc, room, taken, obj, rooms, lock, broadcast,
                  log, at, got>>
  BY DEF Client, ClientSay, ClientRead, ClientLeave, history
<1>2. /\ phase' \in [Conns -> {"open", "closed", "reset"}]
      /\ Gone' = Gone \/ Gone' = Gone \cup {c}
  <2>1. CASE phase' = phase
    BY <2>1 DEF Sound, Typed, Gone
  <2>2. CASE ClientLeave(c)
    BY <2>2 DEF ClientLeave, Sound, Typed, Gone
  <2> QED
    BY <2>1, <2>2 DEF Client, ClientSay, ClientRead
<1>3. /\ sent' \in [Conns -> Nat]
      /\ \A d \in Conns : sent[d] <= sent'[d] /\ sent'[d] <= MaxSent
  <2>1. CASE ClientSay(c)
    <3>1. sent[c] < MaxSent /\ sent' = [sent EXCEPT ![c] = @ + 1]
      BY <2>1, SentInBound DEF ClientSay, Sound, Typed
    <3> QED
      BY <3>1, ZigAssumption DEF Sound, Typed
  <2>2. CASE sent' = sent
    BY <2>2 DEF Sound, Typed
  <2> QED
    BY <2>1, <2>2 DEF Client, ClientRead, ClientLeave
<1>4. Typed'
  <2>1. \A d \in Conns : taken[d] <= sent'[d]
    BY <1>3, ZigAssumption DEF Sound, Typed
  <2> QED
    BY <1>1, <1>2, <1>3, <2>1 DEF Sound, Typed, memory
<1>5. Held' /\ Sending' /\ RoomsSound'
  BY <1>1 DEF Sound, Held, Sending, RoomsSound, Listed, Once, Member, OneEntry,
     Inside, Alive, memory, broadcast
<1>6. LogSound'
  BY <1>1 DEF Sound, LogSound, Placed, OnAir, Level, Due, Inside, Said, broadcast
<1>7. PromiseStep
  <2>1. CASE Gone' = Gone
    BY <2>1, <1>1 DEF PromiseStep, Promise!vars
  <2>2. CASE Gone' = Gone \cup {c}
    BY <2>2, <1>1 DEF PromiseStep, Promise!Next, Promise!GiveUp
  <2> QED
    BY <1>2, <2>1, <2>2
<1> QED
  BY <1>4, <1>5, <1>6, <1>7

\* A handler that is not in a room comes, or does not come, to have an object.
LEMMA UpgradeStep ==
    ASSUME Sound, HeapSound', NEW c \in Conns, Upgrade(c)
    PROVE  Typed' /\ Held' /\ Sending' /\ RoomsSound' /\ LogSound' /\ PromiseStep
<1>1. /\ pc[c] = "request"
      /\ UNCHANGED <<client, aborted, room, taken, rooms, lock, found, cursor,
                     log, at, got>>
      /\ \E l \in {"done", "join"} : pc' = [pc EXCEPT ![c] = l]
  BY DEF Upgrade, Goto, broadcast, history
<1>2. /\ ~Inside(c) /\ ~Inside(c)' /\ pc'[c] \in {"done", "join"}
      /\ \A d \in Conns \ {c} : pc'[d] = pc[d]
  BY <1>1 DEF Inside, InRoom, Sound, HeapSound, HeapTyped
<1>3. \A d \in Conns \ {c} : obj'[d] = obj[d]
  BY DEF Upgrade, Create, Sound, HeapSound, HeapTyped
<1>4. heap' \in [Objects -> Conns \cup {None}]
  BY DEF Upgrade, Create, memory, Sound, Typed
<1>5. ASSUME NEW d \in Conns, Alive(d)' PROVE heap'[obj'[d]] = d
  <2>1. CASE phase[c] = "reset"
    BY <2>1, <1>1, <1>2, <1>5 DEF Upgrade, Goto, memory, Alive, Sound, Held,
       HeapSound, HeapTyped
  <2>2. CASE phase[c] # "reset"
    <3>1. pc' = [pc EXCEPT ![c] = "join"] /\ Create(c)
      BY <2>2 DEF Upgrade, Goto
    <3>2. PICK a \in Objects : /\ heap' = [heap EXCEPT ![a] = c]
                               /\ obj' = [obj EXCEPT ![c] = a]
      BY <3>1 DEF Create
    <3>3. obj'[c] = a /\ heap'[a] = c /\ Alive(c)'
      BY <3>1, <3>2 DEF Sound, HeapSound, HeapTyped, Typed, Alive
    <3>4. CASE d # c
      <4>1. Alive(d) /\ obj'[d] = obj[d]
        BY <1>2, <1>3, <1>5, <3>4 DEF Alive
      <4>2. obj[d] \in Objects /\ heap[obj[d]] = d
        BY <4>1 DEF Sound, HeapSound, Owned, Held
      <4>3. obj'[d] # obj'[c]
        BY <1>5, <3>3, <3>4 DEF HeapSound, Owned
      <4> QED
        BY <3>2, <3>3, <4>1, <4>2, <4>3 DEF Sound, Typed
    <3> QED
      BY <3>3, <3>4
  <2> QED
    BY <2>1, <2>2
<1>6. Typed'
  BY <1>1, <1>4 DEF Sound, Typed, client
<1>7. Held'
  BY <1>1, <1>2, <1>5 DEF Sound, Held
<1>8. Sending'
  BY <1>1, <1>2 DEF Sound, Sending
<1>9. \A d \in Conns : Inside(d)' = Inside(d) /\ (Inside(d) => obj'[d] = obj[d])
  BY <1>2, <1>3 DEF Inside
<1>10. RoomsSound'
  BY <1>1, <1>2, <1>9 DEF Sound, RoomsSound, Listed, Once, Member, OneEntry
<1>11. \A d \in Conns : Inside(d) => (Due(d)' <=> Due(d))
  BY <1>1, <1>2, <1>9 DEF Due
<1>12. LogSound'
  BY <1>1, <1>2, <1>9, <1>11 DEF Sound, LogSound, Placed, OnAir, Level, Said
<1>13. PromiseStep
  BY <1>1 DEF PromiseStep, Promise!vars, Gone, client
<1> QED
  BY <1>6, <1>7, <1>8, <1>10, <1>12, <1>13

\* What a search finds while no key is stale: the entry of the room, if any.
LEMMA SearchFinds ==
    ASSUME NEW c \in Conns, Searched, faults' = {}, NEW k \in Entries(c)
    PROVE  \/ /\ k \in Conns /\ rooms[k] # <<>> /\ room[k] = room[c]
           \/ /\ k = None
              /\ \A l \in Conns : rooms[l] # <<>> => room[l] # room[c]
<1>1. \A l \in Conns : ~Stale(l)
  BY DEF Searched
<1> QED
  BY <1>1 DEF Entries

LEMMA JoinStep ==
    ASSUME Sound, NEW c \in Conns, Join(c), faults' = {}
    PROVE  Typed' /\ Held' /\ Sending' /\ RoomsSound' /\ LogSound' /\ PromiseStep
<1>1. /\ pc[c] = "join" /\ lock = None
      /\ pc' = [pc EXCEPT ![c] = "chat"]
      /\ at' = [at EXCEPT ![c] = Len(log[room[c]])]
      /\ UNCHANGED <<client, memory, aborted, room, taken, obj, lock, found,
                     cursor, log, got>>
  BY DEF Join, Goto, broadcast
<1>2. PICK e \in Conns :
          /\ rooms' = [rooms EXCEPT ![e] = Append(@, obj[c])]
          /\ room[e] = room[c]
          /\ \A l \in Conns : rooms[l] # <<>> /\ room[l] = room[c] => l = e
          /\ e = c \/ rooms[e] # <<>>
  <2>1. PICK k \in Entries(c) :
            LET entry == IF k = None THEN c ELSE k
            IN  rooms' = [rooms EXCEPT ![entry] = Append(@, obj[c])]
    BY DEF Join
  <2>2. \/ k \in Conns /\ rooms[k] # <<>> /\ room[k] = room[c]
        \/ /\ k = None
           /\ \A l \in Conns : rooms[l] # <<>> => room[l] # room[c]
    BY SearchFinds DEF Join
  <2>3. CASE k = None
    <3>1. rooms' = [rooms EXCEPT ![c] = Append(@, obj[c])]
      BY <2>1, <2>3
    <3>2. \A l \in Conns : rooms[l] # <<>> => room[l] # room[c]
      BY <2>2, <2>3, ZigAssumption
    <3> QED
      BY <3>1, <3>2
  <2>4. CASE k # None
    <3>1. rooms' = [rooms EXCEPT ![k] = Append(@, obj[c])]
      BY <2>1, <2>4
    <3>2. k \in Conns /\ rooms[k] # <<>> /\ room[k] = room[c]
      BY <2>2, <2>4
    <3>3. \A l \in Conns : rooms[l] # <<>> /\ room[l] = room[c] => l = k
      BY <3>2 DEF Sound, RoomsSound, OneEntry
    <3> QED
      BY <3>1, <3>2, <3>3
  <2> QED
    BY <2>3, <2>4
<1>3. /\ pc'[c] = "chat" /\ \A d \in Conns \ {c} : pc'[d] = pc[d]
      /\ at'[c] = Len(log[room[c]]) /\ \A d \in Conns \ {c} : at'[d] = at[d]
      /\ Len(log[room[c]]) \in Nat
  BY <1>1 DEF Sound, HeapSound, HeapTyped, Typed
<1>4. /\ ~Inside(c) /\ Inside(c)'
      /\ \A d \in Conns \ {c} : Inside(d)' = Inside(d)
      /\ \A d \in Conns : Alive(d)' = Alive(d)
  BY <1>1, <1>3 DEF Inside, InRoom, Alive
<1>5. obj[c] \in Objects /\ \A d \in Conns : Inside(d) => obj[d] # obj[c]
  BY <1>1, <1>4 DEF Sound, HeapSound, Owned, Alive, Inside, InRoom
<1> DEFINE old == rooms[e]
<1>6. /\ old \in Seq(Objects) /\ rooms'[e] = Append(old, obj[c])
      /\ \A k \in Conns \ {e} : rooms'[k] = rooms[k]
  BY <1>2 DEF Sound, Typed
<1>7. /\ rooms'[e] \in Seq(Objects) /\ rooms'[e] # <<>>
      /\ Len(old) \in Nat /\ DOMAIN old = 1..Len(old)
      /\ DOMAIN rooms'[e] = 1..(Len(old) + 1)
      /\ rooms'[e][Len(old) + 1] = obj[c]
      /\ \A i \in DOMAIN old : i \in DOMAIN rooms'[e] /\ rooms'[e][i] = old[i]
      /\ \A i \in DOMAIN rooms'[e] : i = Len(old) + 1 \/ i \in DOMAIN old
  <2> HIDE DEF old
  <2> QED
    BY <1>5, <1>6
<1> HIDE DEF old
<1>8. Typed'
  BY <1>1, <1>3, <1>6, <1>7, <1>2 DEF Sound, Typed, client, memory
<1>9. \A d \in Conns : pc[d] # "send" /\ pc'[d] # "send" /\ ~Due(d) /\ ~Due(d)'
  BY <1>1, <1>3, NoneSends DEF Due
<1>10. Held' /\ Sending'
  <2>1. \A d \in Conns : d # None
    BY ZigAssumption
  <2> QED
    BY <1>1, <1>3, <1>4, <1>9, <2>1 DEF Sound, Held, Sending, memory
<1>11. \A k \in Conns : \A i \in DOMAIN rooms'[k] :
           \/ i \in DOMAIN rooms[k] /\ rooms'[k][i] = rooms[k][i]
           \/ k = e /\ i = Len(old) + 1 /\ rooms'[k][i] = obj[c]
  BY <1>6, <1>7 DEF old
<1>12. \A k \in Conns : \A i \in DOMAIN rooms[k] :
           /\ rooms[k][i] # obj[c]
           /\ i \in DOMAIN rooms'[k] /\ rooms'[k][i] = rooms[k][i]
  BY SMTT(30), <1>5, <1>6, <1>7 DEF Sound, RoomsSound, Listed, old
<1>13. Listed'
  <2> SUFFICES ASSUME NEW k \in Conns, NEW i \in DOMAIN rooms'[k]
               PROVE  \E d \in Conns : /\ Inside(d)' /\ obj'[d] = rooms'[k][i]
                                       /\ room'[d] = room'[k]
    BY DEF Listed
  <2>1. CASE i \in DOMAIN rooms[k] /\ rooms'[k][i] = rooms[k][i]
    BY <1>1, <1>4, <2>1 DEF Sound, RoomsSound, Listed
  <2>2. CASE k = e /\ rooms'[k][i] = obj[c]
    BY <1>1, <1>2, <1>4, <2>2
  <2> QED
    BY <1>11, <2>1, <2>2
<1>14. Once'
  BY <1>11, <1>12 DEF Sound, RoomsSound, Once
<1>15. Member'
  <2> SUFFICES ASSUME NEW d \in Conns, Inside(d)'
               PROVE  \E k \in Conns : \E i \in DOMAIN rooms'[k] : rooms'[k][i] = obj'[d]
    BY DEF Member
  <2>1. CASE d = c
    <3>1. Len(old) + 1 \in DOMAIN rooms'[e]
      BY <1>7
    <3> QED
      BY <1>1, <1>7, <2>1, <3>1
  <2>2. CASE d # c
    BY <1>1, <1>4, <1>12, <2>2 DEF Sound, RoomsSound, Member
  <2> QED
    BY <2>1, <2>2
<1>16. OneEntry'
  <2>1. \A k \in Conns : rooms'[k] # <<>> /\ k # e => rooms[k] # <<>>
    BY <1>6
  <2>2. \A k, l \in Conns :
            rooms'[k] # <<>> /\ rooms'[l] # <<>> /\ room[k] = room[l] => k = l
    BY <1>2, <2>1 DEF Sound, RoomsSound, OneEntry
  <2>3. ASSUME NEW d \in Conns, pc'[d] \in {"request", "join"}
        PROVE  rooms'[d] = <<>>
    <3>1. d # c /\ rooms[d] = <<>>
      BY <1>3, <2>3 DEF Sound, RoomsSound, OneEntry
    <3>2. d # e
      BY <1>2, <3>1
    <3> QED
      BY <1>6, <3>1, <3>2
  <2> QED
    BY <1>1, <2>2, <2>3 DEF OneEntry
<1>17. LogSound'
  <2>1. at'[c] # NotIn
    BY <1>3 DEF NotIn
  <2>2. Placed'
    BY <1>3, <1>4, <2>1 DEF Sound, LogSound, Placed
  <2>3. OnAir'
    BY <1>9 DEF OnAir
  <2>4. Level'
    BY <1>1, <1>3, <1>4, <1>9 DEF Sound, LogSound, Level
  <2> QED
    BY <2>2, <2>3, <2>4 DEF LogSound
<1>18. PromiseStep
  <2>1. at[c] = NotIn
    BY <1>1 DEF Sound, LogSound, Placed
  <2> QED
    BY <1>1, <2>1 DEF PromiseStep, Promise!Next, Promise!Join, Promise!Log,
       Promise!NotIn, NotIn, Gone, client
<1> QED
  BY <1>8, <1>10, <1>13, <1>14, <1>15, <1>16, <1>17, <1>18 DEF RoomsSound

\* The text is the last of the log, and all members are a text behind.
LEMMA BroadcastStep ==
    ASSUME Sound, NEW c \in Conns, Broadcast(c), faults' = {}
    PROVE  Typed' /\ Held' /\ Sending' /\ RoomsSound' /\ LogSound' /\ PromiseStep
<1>1. /\ pc[c] = "chat" /\ lock = None /\ taken[c] < sent[c]
      /\ taken' = [taken EXCEPT ![c] = @ + 1]
      /\ log' = [log EXCEPT ![room[c]] = Append(@, [from |-> c, n |-> taken'[c]])]
      /\ cursor' = 1
      /\ UNCHANGED <<client, memory, aborted, room, obj, rooms, at, got>>
  BY DEF Broadcast, Says
<1>2. Inside(c) /\ Alive(c)
  BY <1>1 DEF Inside, InRoom, Alive
<1>3. found' \in Conns /\ rooms[found'] # <<>> /\ room[found'] = room[c]
  <2>1. \/ found' \in Conns /\ rooms[found'] # <<>> /\ room[found'] = room[c]
        \/ \A l \in Conns : rooms[l] # <<>> => room[l] # room[c]
    BY SearchFinds DEF Broadcast
  <2>2. PICK k \in Conns : \E i \in DOMAIN rooms[k] : rooms[k][i] = obj[c]
    BY <1>2, PlaceOfSession
  <2>3. rooms[k] # <<>> /\ room[k] = room[c]
    BY <1>2, <2>2, PlaceOfSession
  <2> QED
    BY <2>1, <2>3
<1>4. pc' = [pc EXCEPT ![c] = "send"] /\ lock' = c
  BY <1>3, ZigAssumption DEF Broadcast, Goto
<1>5. /\ pc'[c] = "send" /\ \A d \in Conns \ {c} : pc'[d] = pc[d]
      /\ \A d \in Conns : Inside(d)' = Inside(d) /\ Alive(d)' = Alive(d)
  BY <1>1, <1>4 DEF Sound, HeapSound, HeapTyped, Inside, InRoom, Alive
<1> DEFINE t == [from |-> c, n |-> taken'[c]]
           old == log[room[c]]
<1>6. /\ taken'[c] = taken[c] + 1 /\ \A d \in Conns \ {c} : taken'[d] = taken[d]
      /\ taken[c] \in Nat /\ taken'[c] <= sent[c] /\ taken'[c] \in 1..MaxSent
  <2>1. taken[c] \in Nat /\ sent[c] \in Nat /\ sent[c] <= MaxSent
    BY DEF Sound, Typed
  <2> QED
    BY <1>1, <2>1, ZigAssumption DEF Sound, Typed
<1>7. t \in Text
  BY <1>6 DEF Text
<1>8. old \in Seq(Text) /\ log'[room[c]] = Append(old, t)
  BY <1>1 DEF Sound, Typed
<1>9. /\ log'[room[c]] \in Seq(Text) /\ log'[room[c]] # <<>>
      /\ Len(old) \in Nat /\ Len(log'[room[c]]) = Len(old) + 1
      /\ log'[room[c]][Len(log'[room[c]])] = t
  <2> HIDE DEF t, old
  <2> QED
    BY <1>7, <1>8
<1>10. Said(c)' = t
  BY DEF Said
<1> HIDE DEF t, old
<1>11. Typed'
  <2>1. taken' \in [Conns -> Nat] /\ log' \in [Rooms -> Seq(Text)]
    BY <1>1, <1>6, <1>9 DEF Sound, Typed
  <2>2. \A d \in Conns : taken'[d] <= sent[d]
    BY <1>6 DEF Sound, Typed
  <2> QED
    BY <1>1, <2>1, <2>2 DEF Sound, Typed, client, memory
<1>12. \A d \in Conns \ {c} : pc'[d] # "send"
  BY <1>1, <1>5, NoneSends
<1>13. Held' /\ Sending'
  BY <1>1, <1>3, <1>4, <1>5, <1>12 DEF Sound, Held, Sending, memory
<1>14. RoomsSound'
  BY <1>1, <1>5 DEF Sound, RoomsSound, Listed, Once, Member, OneEntry
<1>15. Placed' /\ OnAir'
  BY <1>1, <1>5, <1>9, <1>10, <1>12 DEF Sound, LogSound, Placed, OnAir
<1>16. Level'
  <2> SUFFICES ASSUME NEW d \in Conns, Inside(d)
               PROVE  /\ Due(d)' => at'[d] + 1 = Len(log'[room'[d]])
                      /\ ~Due(d)' => at'[d] = Len(log'[room'[d]])
    BY <1>5 DEF Level
  <2>1. at[d] = Len(log[room[d]]) /\ at'[d] = at[d] /\ room'[d] = room[d]
    BY <1>1, NoneSends DEF Sound, LogSound, Level
  <2>2. PICK k \in Conns : \E i \in DOMAIN rooms[k] : rooms[k][i] = obj[d]
    BY PlaceOfSession
  <2>3. room[k] = room[d] /\ rooms[k] # <<>>
    BY <2>2, PlaceOfSession
  <2>4. CASE room[d] = room[c]
    <3>1. k = found'
      BY <1>3, <2>3, <2>4 DEF Sound, RoomsSound, OneEntry
    <3>2. PICK i \in DOMAIN rooms[found'] : rooms[found'][i] = obj[d]
      BY <2>2, <3>1
    <3>3. i >= 1
      BY <1>3 DEF Sound, Typed
    <3>4. Due(d)'
      BY <1>1, <1>5, <3>2, <3>3 DEF Due
    <3> QED
      BY <1>9, <2>1, <2>4, <3>4 DEF old
  <2>5. CASE room[d] # room[c]
    <3>1. \A i \in DOMAIN rooms[found'] : rooms[found'][i] # obj[d]
      BY <1>3, <2>5, PlaceOfSession
    <3>2. ~Due(d)'
      BY <1>1, <3>1 DEF Due
    <3>3. log'[room[d]] = log[room[d]]
      BY <1>1, <2>5 DEF Sound, Typed
    <3> QED
      BY <2>1, <3>2, <3>3
  <2> QED
    BY <2>4, <2>5
<1>17. PromiseStep
  <2>1. at[c] # NotIn
    BY <1>2 DEF Sound, LogSound, Placed
  <2>2. log' = [log EXCEPT ![room[c]] = Append(@, t)]
    BY <1>1 DEF t
  <2> QED
    BY <1>1, <1>7, <2>1, <2>2 DEF PromiseStep, Promise!Next, Promise!Say,
       Promise!NotIn, NotIn, Gone, client
<1> QED
  BY <1>11, <1>13, <1>14, <1>15, <1>16, <1>17 DEF LogSound

\* The next object of a broadcast is that of a session of its room, which is
\* still to be given the text.
LEMMA PeerIsMember ==
    ASSUME Sound, NEW c \in Conns, HasPeer(c)
    PROVE  /\ Peer \in Conns /\ Inside(Peer) /\ room[Peer] = room[c]
           /\ found \in Conns /\ cursor \in DOMAIN rooms[found]
           /\ rooms[found][cursor] = obj[Peer]
           /\ Due(Peer) /\ at[Peer] + 1 = Len(log[room[c]])
<1>1. /\ found \in Conns /\ cursor \in Nat \ {0} /\ room[found] = room[c]
      /\ cursor <= Len(rooms[found]) /\ rooms[found] \in Seq(Objects)
  BY DEF Sound, Sending, HasPeer, Typed
<1>2. cursor \in DOMAIN rooms[found] /\ cursor \in Nat
  BY <1>1
<1>3. PICK d \in Conns : /\ Inside(d) /\ obj[d] = rooms[found][cursor]
                         /\ room[d] = room[found]
  BY <1>1, <1>2 DEF Sound, RoomsSound, Listed
<1>4. Peer = d
  BY <1>3 DEF Peer, Sound, Held, Inside, InRoom, Alive
<1>5. Due(d)
  BY <1>2, <1>3 DEF Due, HasPeer
<1> QED
  BY <1>1, <1>2, <1>3, <1>4, <1>5 DEF Sound, LogSound, Level

LEMMA WriteStep ==
    ASSUME Sound, NEW c \in Conns, Write(c)
    PROVE  Typed' /\ Held' /\ Sending' /\ RoomsSound' /\ LogSound' /\ PromiseStep
<1>0. PICK p \in Conns : p = Peer
  BY PeerIsMember DEF Write
<1>1. /\ HasPeer(c)
      /\ at' = [at EXCEPT ![p] = @ + 1]
      /\ cursor' = cursor + 1
      /\ UNCHANGED <<phase, sent, memory, aborted, pc, room, taken, obj, rooms,
                     lock, found, failed, log>>
  BY <1>0 DEF Write
<1>2. /\ p \in Conns /\ Inside(p) /\ room[p] = room[c]
      /\ found \in Conns /\ cursor \in DOMAIN rooms[found]
      /\ rooms[found][cursor] = obj[p]
      /\ Due(p) /\ at[p] + 1 = Len(log[room[c]])
  BY <1>0, <1>1, PeerIsMember
<1>3. \/ phase[p] = "open" /\ got' = [got EXCEPT ![p] = Append(@, Said(c))]
      \/ phase[p] = "closed" /\ UNCHANGED got
  BY <1>0 DEF Write, Writable
<1>4. at[p] \in Nat /\ cursor \in Nat \ {0} /\ log[room[c]] \in Seq(Text)
  BY <1>1, <1>2 DEF Sound, LogSound, Placed, Typed, Sending, HasPeer, NotIn
<1>5. at'[p] = at[p] + 1 /\ \A d \in Conns \ {p} : at'[d] = at[d]
  BY <1>1, <1>2 DEF Sound, Typed
<1>6. Typed'
  <2>1. at' \in [Conns -> Nat \cup {NotIn}]
    BY <1>1, <1>2, <1>4 DEF Sound, Typed
  <2> QED
    BY <1>1, <2>1 DEF Sound, Typed, memory
<1>7. Held' /\ Sending' /\ RoomsSound'
  <2>1. cursor' \in Nat \ {0}
    BY <1>1, <1>4
  <2> QED
    BY <1>1, <2>1 DEF Sound, Held, Sending, RoomsSound, Listed, Once, Member,
       OneEntry, Inside, Alive, memory
<1>8. \A d \in Conns : Inside(d)' = Inside(d)
  BY <1>1 DEF Inside
<1>9. Placed' /\ OnAir'
  <2>1. at'[p] # NotIn
    BY <1>4, <1>5 DEF NotIn
  <2>2. pc[p] \notin {"request", "join"}
    BY <1>2 DEF Inside, InRoom
  <2> QED
    BY <1>1, <1>5, <1>8, <2>1, <2>2 DEF Sound, LogSound, Placed, OnAir, Said
<1>10. ASSUME NEW d \in Conns
       PROVE  /\ Due(d) <=> \E i \in DOMAIN rooms[found] :
                                i >= cursor /\ rooms[found][i] = obj[d]
              /\ Due(d)' <=> \E i \in DOMAIN rooms[found] :
                                 i >= cursor + 1 /\ rooms[found][i] = obj[d]
  <2>1. pc[c] = "send" /\ pc'[c] = "send"
    BY <1>1 DEF HasPeer
  <2>2. /\ rooms'[found'] = rooms[found] /\ obj'[d] = obj[d]
        /\ cursor' = cursor + 1
    BY <1>1
  <2> QED
    BY <2>1, <2>2 DEF Due
<1>11. \A i \in DOMAIN rooms[found] : i \in Int
  BY <1>2 DEF Sound, Typed
<1>12. ~Due(p)'
  <2>1. \A i \in DOMAIN rooms[found] : rooms[found][i] = obj[p] => i = cursor
    BY <1>2 DEF Sound, RoomsSound, Once
  <2>2. ~(cursor >= cursor + 1)
    BY <1>4
  <2> QED
    BY <1>2, <1>10, <2>1, <2>2
<1>13. ASSUME NEW d \in Conns, d # p, Inside(d) PROVE Due(d)' <=> Due(d)
  <2>1. obj[d] # obj[p]
    BY <1>2, <1>13 DEF Sound, HeapSound, Owned, Alive, Inside, InRoom
  <2>2. \A i \in DOMAIN rooms[found] :
            rooms[found][i] = obj[d] => (i >= cursor + 1 <=> i >= cursor)
    BY <1>2, <1>4, <1>11, <2>1
  <2> QED
    BY <1>10, <2>2
<1>14. Level'
  <2> SUFFICES ASSUME NEW d \in Conns, Inside(d)
               PROVE  /\ Due(d)' => at'[d] + 1 = Len(log'[room'[d]])
                      /\ ~Due(d)' => at'[d] = Len(log'[room'[d]])
    BY <1>8 DEF Level
  <2>1. CASE d = p
    BY <1>1, <1>2, <1>5, <1>12, <2>1
  <2>2. CASE d # p
    BY <1>1, <1>5, <1>13, <2>2 DEF Sound, LogSound, Level
  <2> QED
    BY <2>1, <2>2
<1>15. PromiseStep
  <2>1. Len(log[room[c]]) \in Nat /\ at[p] # NotIn
    BY <1>4 DEF NotIn
  <2>2. log[room[c]][at[p] + 1] = Said(c)
    BY <1>1, <1>2, <1>4 DEF Sound, LogSound, OnAir, HasPeer
  <2>3. Promise!Move(p)
    BY <1>1, <1>2, <1>4, <2>1 DEF Promise!Move, Promise!Log, Promise!NotIn, NotIn, Gone
  <2>4. Promise!Deliver(p) \/ Promise!Lose(p)
    BY <1>2, <1>3, <2>2, <2>3 DEF Promise!Deliver, Promise!Lose, Promise!Log, Gone
  <2> QED
    BY <1>2, <2>4 DEF PromiseStep, Promise!Next
<1> QED
  BY <1>6, <1>7, <1>9, <1>14, <1>15 DEF LogSound

\* No broadcast meets an object that was destroyed, and none has failed.
LEMMA NoFaultStep ==
    ASSUME Sound, NEW c \in Conns, faults' = {},
           WriteFails(c) \/ WriteFreed(c) \/ Unlock(c)
    PROVE  FALSE
<1>1. CASE WriteFails(c)
  BY <1>1 DEF WriteFails
<1>2. CASE WriteFreed(c)
  BY <1>2, PeerIsMember, ZigAssumption DEF WriteFreed
<1>3. CASE Unlock(c)
  BY <1>3 DEF Unlock, Sound, Held
<1> QED
  BY <1>1, <1>2, <1>3

LEMMA BroadcastEndStep ==
    ASSUME Sound, NEW c \in Conns, BroadcastEnd(c)
    PROVE  Typed' /\ Held' /\ Sending' /\ RoomsSound' /\ LogSound' /\ PromiseStep
<1>1. /\ pc[c] = "send" /\ cursor > Len(rooms[found]) /\ failed = {}
      /\ Destroy(rooms[found], {})
      /\ rooms' = [rooms EXCEPT ![found] = Without({})]
      /\ UNCHANGED <<client, aborted, room, taken, obj, log, at, got>>
  BY DEF BroadcastEnd, Sound, HeapSound, Owned, history
<1>2. /\ found \in Conns /\ cursor \in Nat /\ rooms[found] # <<>>
      /\ rooms[found] \in Seq(Objects) /\ lock = c
  BY <1>1 DEF Sound, Sending, Typed, Held
<1>3. heap' = heap
  <2>1. heap' = [a \in Objects |-> heap[a]]
    BY <1>1, DestroyNothing DEF Sound, HeapSound, HeapTyped
  <2> QED
    BY <2>1 DEF Sound, Typed
<1>4. rooms' = rooms
  <2>1. DOMAIN rooms[found] \ {} = DOMAIN rooms[found]
    OBVIOUS
  <2>2. Without({}) = rooms[found]
    BY <1>2, <2>1, PickAll DEF Without
  <2> QED
    BY <1>1, <1>2, <2>2 DEF Sound, Typed
<1>5. pc' = [pc EXCEPT ![c] = "chat"] /\ lock' = None
  BY <1>2, <1>4 DEF BroadcastEnd, Goto
<1>6. /\ pc'[c] = "chat" /\ \A d \in Conns \ {c} : pc'[d] = pc[d]
      /\ \A d \in Conns : Inside(d)' = Inside(d) /\ Alive(d)' = Alive(d)
  BY <1>1, <1>5 DEF Sound, HeapSound, HeapTyped, Inside, InRoom, Alive
<1>7. \A d \in Conns : pc'[d] # "send" /\ d # None
  BY <1>2, <1>6, ZigAssumption DEF Sound, Held
<1>8. Typed' /\ Held' /\ Sending'
  BY <1>1, <1>3, <1>4, <1>5, <1>6, <1>7 DEF Sound, Typed, Held, Sending, client
<1>9. RoomsSound'
  BY <1>1, <1>4, <1>6 DEF Sound, RoomsSound, Listed, Once, Member, OneEntry
<1>10. \A d \in Conns : ~Due(d) /\ ~Due(d)'
  <2>1. \A i \in DOMAIN rooms[found] : ~(i >= cursor)
    BY <1>1, <1>2
  <2> QED
    BY <2>1, <1>7 DEF Due
<1>11. LogSound'
  BY <1>1, <1>6, <1>7, <1>10 DEF Sound, LogSound, Placed, OnAir, Level
<1>12. PromiseStep
  BY <1>1 DEF PromiseStep, Promise!vars, Gone, client
<1> QED
  BY <1>8, <1>9, <1>11, <1>12

\* The list of an entry without the object of c.
LEMMA LeaveStep ==
    ASSUME Sound, NEW c \in Conns, Leave(c), faults' = {}
    PROVE  Typed' /\ Held' /\ Sending' /\ RoomsSound' /\ LogSound' /\ PromiseStep
<1>1. /\ pc[c] = "chat" /\ lock = None
      /\ pc' = [pc EXCEPT ![c] = "free"]
      /\ UNCHANGED <<client, memory, aborted, room, taken, obj, lock, found,
                     cursor, log, at, got>>
  BY DEF Leave, HungUp, Goto, broadcast, history
<1>2. Inside(c) /\ Alive(c)
  BY <1>1 DEF Inside, InRoom, Alive
<1>3. PICK e \in Conns : \E i \in DOMAIN rooms[e] : rooms[e][i] = obj[c]
  BY <1>2, PlaceOfSession
<1>4. rooms[e] # <<>> /\ room[e] = room[c] /\ rooms[e] \in Seq(Objects)
  <2>1. rooms[e] \in Seq(Objects)
    BY DEF Sound, Typed
  <2>2. room[e] = room[c]
    BY <1>2, <1>3, PlaceOfSession
  <2> QED
    BY <1>3, <2>1, <2>2
<1> DEFINE kept == {i \in DOMAIN rooms[e] : rooms[e][i] # obj[c]}
           rest == Pick(rooms[e], kept)
<1>5. rooms' = [rooms EXCEPT ![e] = rest]
  <2>1. PICK k \in Entries(c) :
            rooms' = IF k = None THEN rooms
                     ELSE [rooms EXCEPT ![k] =
                              Pick(@, {i \in DOMAIN @ : @[i] # obj[c]})]
    BY DEF Leave
  <2>2. \/ k \in Conns /\ rooms[k] # <<>> /\ room[k] = room[c]
        \/ \A l \in Conns : rooms[l] # <<>> => room[l] # room[c]
    BY SearchFinds DEF Leave
  <2>3. k = e
    BY <1>4, <2>2 DEF Sound, RoomsSound, OneEntry
  <2>4. e # None
    BY ZigAssumption
  <2> QED
    BY <2>1, <2>3, <2>4
<1>6. /\ rest \in Seq(Objects)
      /\ \A k \in DOMAIN rest : \E i \in DOMAIN rooms[e] \cap kept : rest[k] = rooms[e][i]
      /\ (\A i, j \in DOMAIN rooms[e] : rooms[e][i] = rooms[e][j] => i = j)
             => \A i, j \in DOMAIN rest : rest[i] = rest[j] => i = j
  <2> HIDE DEF kept
  <2> QED
    BY <1>4, PickFromList DEF rest
<1>7. \A i \in DOMAIN rooms[e] \cap kept : \E k \in DOMAIN rest : rest[k] = rooms[e][i]
  <2> HIDE DEF kept
  <2> QED
    BY <1>4, PickKeeps DEF rest
<1>8. /\ \A k \in DOMAIN rest : rest[k] # obj[c]
      /\ \A k \in DOMAIN rest : \E i \in DOMAIN rooms[e] : rest[k] = rooms[e][i]
      /\ \A i \in DOMAIN rooms[e] : rooms[e][i] # obj[c] =>
            \E k \in DOMAIN rest : rest[k] = rooms[e][i]
  <2> HIDE DEF rest
  <2> QED
    BY <1>6, <1>7
<1> HIDE DEF rest, kept
<1>9. /\ rooms' \in [Conns -> Seq(Objects)]
      /\ rooms'[e] = rest /\ \A k \in Conns \ {e} : rooms'[k] = rooms[k]
  BY <1>5, <1>6 DEF Sound, Typed
<1>10. /\ pc'[c] = "free" /\ \A d \in Conns \ {c} : pc'[d] = pc[d]
       /\ ~Inside(c)'
       /\ \A d \in Conns \ {c} : Inside(d)' = Inside(d)
       /\ \A d \in Conns : Alive(d)' = Alive(d)
  BY <1>1 DEF Sound, HeapSound, HeapTyped, Inside, InRoom, Alive
<1>11. \A d \in Conns : pc[d] # "send" /\ pc'[d] # "send" /\ ~Due(d) /\ ~Due(d)'
  <2>1. \A d \in Conns : pc[d] # "send" /\ pc'[d] # "send"
    BY <1>1, <1>10, NoneSends
  <2> QED
    BY <2>1 DEF Due
<1>12. Typed' /\ Held' /\ Sending'
  BY <1>1, <1>9, <1>10, <1>11 DEF Sound, Typed, Held, Sending, client, memory
<1>13. \A k \in Conns : \A i \in DOMAIN rooms'[k] :
           /\ rooms'[k][i] # obj[c]
           /\ \E j \in DOMAIN rooms[k] : rooms'[k][i] = rooms[k][j]
  <2> SUFFICES ASSUME NEW k \in Conns, NEW i \in DOMAIN rooms'[k]
               PROVE  /\ rooms'[k][i] # obj[c]
                      /\ \E j \in DOMAIN rooms[k] : rooms'[k][i] = rooms[k][j]
    OBVIOUS
  <2>1. CASE k = e
    BY <1>8, <1>9, <2>1
  <2>2. CASE k # e
    <3>1. rooms'[k] = rooms[k]
      BY <1>9, <2>2
    <3>2. rooms[k][i] # obj[c]
      BY <1>3, <2>2, <3>1 DEF Sound, RoomsSound, Once
    <3> QED
      BY <3>1, <3>2
  <2> QED
    BY <2>1, <2>2
<1>14. Listed'
  <2> SUFFICES ASSUME NEW k \in Conns, NEW i \in DOMAIN rooms'[k]
               PROVE  \E d \in Conns : /\ Inside(d)' /\ obj'[d] = rooms'[k][i]
                                       /\ room'[d] = room'[k]
    BY DEF Listed
  <2>1. PICK j \in DOMAIN rooms[k] : rooms'[k][i] = rooms[k][j]
    BY <1>13
  <2>2. PICK d \in Conns : Inside(d) /\ obj[d] = rooms[k][j] /\ room[d] = room[k]
    BY DEF Sound, RoomsSound, Listed
  <2>3. d # c
    BY <1>13, <2>1, <2>2
  <2> QED
    BY <1>1, <1>10, <2>1, <2>2, <2>3
<1>15. Once'
  <2> SUFFICES ASSUME NEW k \in Conns, NEW l \in Conns,
                      NEW i \in DOMAIN rooms'[k], NEW j \in DOMAIN rooms'[l],
                      rooms'[k][i] = rooms'[l][j]
               PROVE  k = l /\ i = j
    BY DEF Once
  <2>1. k = l
    BY <1>13 DEF Sound, RoomsSound, Once
  <2>2. CASE k = e
    <3>1. \A m, n \in DOMAIN rooms[e] : rooms[e][m] = rooms[e][n] => m = n
      BY DEF Sound, RoomsSound, Once
    <3> QED
      BY <1>6, <1>9, <2>1, <2>2, <3>1
  <2>3. CASE k # e
    BY <1>9, <2>1, <2>3 DEF Sound, RoomsSound, Once
  <2> QED
    BY <2>1, <2>2, <2>3
<1>16. Member'
  <2> SUFFICES ASSUME NEW d \in Conns, Inside(d)'
               PROVE  \E k \in Conns : \E i \in DOMAIN rooms'[k] : rooms'[k][i] = obj'[d]
    BY DEF Member
  <2>1. d # c /\ Inside(d) /\ obj'[d] = obj[d]
    BY <1>1, <1>10
  <2>2. obj[d] # obj[c]
    BY <1>2, <2>1 DEF Sound, HeapSound, Owned, Alive, Inside, InRoom
  <2>3. PICK k \in Conns : \E i \in DOMAIN rooms[k] : rooms[k][i] = obj[d]
    BY <2>1, PlaceOfSession
  <2>4. CASE k = e
    <3>1. \E i \in DOMAIN rest : rest[i] = obj[d]
      BY <1>8, <2>2, <2>3, <2>4
    <3> QED
      BY <1>9, <2>1, <3>1
  <2>5. CASE k # e
    BY <1>9, <2>1, <2>3, <2>5
  <2> QED
    BY <2>4, <2>5
<1>17. OneEntry'
  <2>1. \A k \in Conns : rooms'[k] # <<>> => rooms[k] # <<>>
    BY <1>4, <1>9
  <2>2. \A d \in Conns : pc'[d] \in {"request", "join"} => pc[d] \in {"request", "join"}
    BY <1>10
  <2> QED
    BY <1>1, <2>1, <2>2 DEF Sound, RoomsSound, OneEntry
<1>18. LogSound'
  <2>1. \A d \in Conns : /\ Inside(d)' => Inside(d)
                         /\ pc'[d] \in {"request", "join"} => pc'[d] = pc[d]
    BY <1>10
  <2> QED
    BY <1>1, <1>11, <2>1 DEF Sound, LogSound, Placed, OnAir, Level
<1>19. PromiseStep
  BY <1>1 DEF PromiseStep, Promise!vars, Gone, client
<1> QED
  BY <1>12, <1>14, <1>15, <1>16, <1>17, <1>18, <1>19 DEF RoomsSound

\* The object goes, and nobody lists it any more.
LEMMA ReturnStep ==
    ASSUME Sound, NEW c \in Conns, Return(c)
    PROVE  Typed' /\ Held' /\ Sending' /\ RoomsSound' /\ LogSound' /\ PromiseStep
<1>1. /\ pc[c] = "free"
      /\ pc' = [pc EXCEPT ![c] = "done"]
      /\ Destroy(<<obj[c]>>, {1})
      /\ UNCHANGED <<client, aborted, room, taken, obj, rooms, lock, found,
                     cursor, log, at, got>>
  BY DEF Return, Goto, broadcast, history
<1>2. /\ pc'[c] = "done" /\ \A d \in Conns \ {c} : pc'[d] = pc[d]
      /\ \A d \in Conns : Inside(d)' = Inside(d)
      /\ Alive(c) /\ \A d \in Conns : Alive(d)' => Alive(d) /\ d # c
  BY <1>1 DEF Sound, HeapSound, HeapTyped, Inside, InRoom, Alive
<1>3. heap' = [b \in Objects |-> IF b = obj[c] THEN None ELSE heap[b]]
  BY <1>1, DestroyOne DEF Sound, HeapSound, HeapTyped
<1>4. ASSUME NEW d \in Conns, Alive(d)' PROVE heap'[obj[d]] = d
  <2>1. obj[d] \in Objects /\ obj[d] # obj[c] /\ heap[obj[d]] = d
    BY <1>2, <1>4 DEF Sound, HeapSound, Owned, Held
  <2> QED
    BY <1>3, <2>1
<1>5. heap' \in [Objects -> Conns \cup {None}]
  BY <1>3 DEF Sound, Typed
<1>6. Typed' /\ Held' /\ Sending'
  BY <1>1, <1>2, <1>4, <1>5 DEF Sound, Typed, Held, Sending, client
<1>7. RoomsSound'
  <2>1. \A d \in Conns : pc'[d] \in {"request", "join"} => pc[d] \in {"request", "join"}
    BY <1>2
  <2> QED
    BY <1>1, <1>2, <2>1 DEF Sound, RoomsSound, Listed, Once, Member, OneEntry
<1>8. \A d \in Conns : Due(d)' <=> Due(d)
  BY <1>1, <1>2 DEF Due
<1>9. LogSound'
  <2>1. \A d \in Conns : pc'[d] \in {"request", "join"} => pc[d] \in {"request", "join"}
    BY <1>2
  <2>2. \A d \in Conns : pc'[d] = "send" => pc[d] = "send"
    BY <1>2
  <2> QED
    BY <1>1, <1>2, <1>8, <2>1, <2>2
       DEF Sound, LogSound, Placed, OnAir, Level, Said
<1>10. PromiseStep
  BY <1>1 DEF PromiseStep, Promise!vars, Gone, client
<1> QED
  BY <1>6, <1>7, <1>9, <1>10

LEMMA RoomsInvInit == Init => RoomsInv /\ Promise!Init
<1> SUFFICES ASSUME Init PROVE RoomsInv /\ Promise!Init
  OBVIOUS
<1>1. HeapSound
  BY DEF Init, HeapSound, HeapTyped, Owned, Alive, Steps
<1>2. Typed
  BY ZigAssumption DEF Init, Typed
<1>3. Held /\ Sending /\ RoomsSound
  BY ZigAssumption DEF Init, Held, Sending, RoomsSound, Listed, Once, Member,
     OneEntry, Inside, InRoom, Alive
<1>4. LogSound
  BY DEF Init, LogSound, Placed, OnAir, Level, Due, Inside, InRoom
<1>5. Promise!Init
  BY DEF Init, Promise!Init, Promise!NotIn, NotIn, Gone
<1> QED
  BY <1>1, <1>2, <1>3, <1>4, <1>5 DEF RoomsInv, Sound

LEMMA RoomsInvNext ==
    ASSUME HeapInv, RoomsInv, [Next]_vars
    PROVE  RoomsInv' /\ (faults' = {} => PromiseStep)
<1>1. CASE UNCHANGED vars
  <2>1. RoomsInv'
    BY <1>1 DEF RoomsInv, Sound, HeapSound, HeapTyped, Owned, Typed, Held, Sending,
       RoomsSound, Listed, Once, Member, OneEntry, LogSound, Placed, OnAir, Level,
       Due, Said, Inside, Alive, vars, client, memory, broadcast, history
  <2>2. PromiseStep
    BY <1>1 DEF PromiseStep, Promise!vars, Gone, vars, client, history
  <2> QED
    BY <2>1, <2>2
<1>2. CASE Next
  <2> SUFFICES ASSUME faults' = {} PROVE Sound' /\ PromiseStep
    BY DEF RoomsInv
  <2>1. PICK c \in Conns : Client(c) \/ Handler(c)
    BY <1>2 DEF Next
  <2>2. Sound
    BY <2>1, FaultsStay DEF RoomsInv
  <2>3. HeapSound'
    BY HeapInvNext DEF HeapInv
  <2>4. Typed' /\ Held' /\ Sending' /\ RoomsSound' /\ LogSound' /\ PromiseStep
    <3>1. CASE Client(c)
      BY <2>2, <3>1, ClientStep
    <3>2. CASE Upgrade(c)
      BY <2>2, <2>3, <3>2, UpgradeStep
    <3>3. CASE Join(c)
      BY <2>2, <3>3, JoinStep
    <3>4. CASE Broadcast(c)
      BY <2>2, <3>4, BroadcastStep
    <3>5. CASE Write(c)
      BY <2>2, <3>5, WriteStep
    <3>6. CASE WriteFails(c) \/ WriteFreed(c) \/ Unlock(c)
      BY <2>2, <3>6, NoFaultStep
    <3>7. CASE BroadcastEnd(c)
      BY <2>2, <3>7, BroadcastEndStep
    <3>8. CASE Leave(c)
      BY <2>2, <3>8, LeaveStep
    <3>9. CASE Return(c)
      BY <2>2, <3>9, ReturnStep
    <3> QED
      BY <2>1, <3>1, <3>2, <3>3, <3>4, <3>5, <3>6, <3>7, <3>8, <3>9 DEF Handler
  <2> QED
    BY <2>3, <2>4 DEF Sound
<1> QED
  BY <1>1, <1>2

\* A list of an entry has no more places than there are objects.
LEMMA PlacesAreFew ==
    ASSUME Sound, NEW k \in Conns
    PROVE  DOMAIN rooms[k] \subseteq Objects
<1> DEFINE s == rooms[k]
<1>1. s \in Seq(Objects) /\ \A i, j \in DOMAIN s : s[i] = s[j] => i = j
  BY DEF Sound, Typed, RoomsSound, Once
<1> HIDE DEF s
<1>2. DOMAIN s = 1..Len(s) /\ Len(s) \in Nat /\ \A i \in 1..Len(s) : s[i] \in Objects
  BY <1>1
<1>3. [i \in 1..Len(s) |-> s[i]] \in Injection(1..Len(s), Objects)
  BY <1>1, <1>2 DEF Injection, IsInjective
<1>4. Cardinality(Conns) \in Nat
  BY ZigAssumption, FS_CardinalityType
<1>5. IsFiniteSet(Objects) /\ Cardinality(Objects) = Cardinality(Conns)
  BY <1>4, FS_Interval DEF Objects
<1>6. Cardinality(1..Len(s)) <= Cardinality(Objects)
  BY <1>3, <1>5, FS_Injection
<1>7. Cardinality(1..Len(s)) = Len(s)
  BY <1>2, FS_Interval
<1> QED
  BY <1>2, <1>4, <1>5, <1>6, <1>7 DEF Objects, s

LEMMA RoomsInvExact == RoomsInv => RoomsExact
<1> SUFFICES ASSUME Sound, faults = {} PROVE RoomsExact
  BY DEF RoomsInv, RoomsExact
<1>1. ASSUME NEW c \in Conns, Inside(c)
      PROVE  /\ heap[obj[c]] = c
             /\ Cardinality(Places(c)) = 1
             /\ \A p \in Places(c) : room[p[1]] = room[c]
             /\ \E k \in Conns : rooms[k] # <<>> /\ room[k] = room[c]
                                 /\ \E p \in Places(c) : p[1] = k
  <2>1. PICK k \in Conns : \E i \in DOMAIN rooms[k] : rooms[k][i] = obj[c]
    BY <1>1, PlaceOfSession
  <2>2. PICK i \in DOMAIN rooms[k] : rooms[k][i] = obj[c]
    BY <2>1
  <2>3. i \in Objects
    BY PlacesAreFew
  <2>4. <<k, i>> \in Places(c)
    BY <2>2, <2>3 DEF Places
  <2>5. \A p \in Places(c) : p = <<k, i>>
    BY <2>2 DEF Places, Sound, RoomsSound, Once
  <2>6. Places(c) = {<<k, i>>}
    BY <2>4, <2>5
  <2>7. Cardinality(Places(c)) = 1
    BY <2>6, FS_Singleton
  <2>8. room[k] = room[c] /\ rooms[k] # <<>>
    BY <1>1, <2>2, PlaceOfSession
  <2>9. heap[obj[c]] = c
    BY <1>1 DEF Sound, Held, Inside, InRoom, Alive
  <2> QED
    BY <2>4, <2>6, <2>7, <2>8, <2>9
<1>2. ASSUME NEW c \in Conns, NEW d \in Conns, Inside(c), Inside(d), room[c] = room[d]
      PROVE  \E p \in Places(c), q \in Places(d) : p[1] = q[1]
  <2>1. PICK k \in Conns : /\ rooms[k] # <<>> /\ room[k] = room[c]
                           /\ \E p \in Places(c) : p[1] = k
    BY <1>1, <1>2
  <2>2. PICK l \in Conns : /\ rooms[l] # <<>> /\ room[l] = room[d]
                           /\ \E p \in Places(d) : p[1] = l
    BY <1>1, <1>2
  <2>3. k = l
    BY <1>2, <2>1, <2>2 DEF Sound, RoomsSound, OneEntry
  <2> QED
    BY <2>1, <2>2, <2>3
<1>3. \A c \in Conns : pc[c] # "unlock"
  BY DEF Sound, Held
<1>4. \A k \in Conns : \A i \in DOMAIN rooms[k] :
          \E c \in Conns : pc[c] \in InRoom /\ obj[c] = rooms[k][i]
  BY DEF Sound, RoomsSound, Listed, Inside
<1>5. aborted = FALSE
  BY DEF Sound, Typed
<1> QED
  BY <1>1, <1>2, <1>3, <1>4, <1>5 DEF RoomsExact, Inside

\* Until a write fails or a search meets a stale key, a room of main_async.zig
\* lists each of its sessions once, in one entry, and nothing else.
THEOREM RoomsStayExact == Spec => []RoomsExact
<1>1. Spec => [](HeapInv /\ RoomsInv)
  <2>1. HeapInv /\ RoomsInv /\ [Next]_vars => HeapInv' /\ RoomsInv'
    BY HeapInvNext, RoomsInvNext
  <2> QED
    BY <2>1, HeapInvInit, RoomsInvInit, PTL DEF Spec
<1> QED
  BY <1>1, RoomsInvExact, PTL

\* Until then, whatever its windows, leaves and closes, a member is given what
\* is said in its room, in the one order of its log, from where it joined.
THEOREM PromiseIsKept == Spec => PromiseKept
<1>1. HeapInv /\ RoomsInv /\ [Next]_vars =>
          HeapInv' /\ RoomsInv' /\ [faults' # {} \/ Promise!Next]_(Promise!vars)
  BY HeapInvNext, RoomsInvNext DEF PromiseStep
<1> QED
  BY <1>1, HeapInvInit, RoomsInvInit, PTL DEF Spec, PromiseKept
=============================================================================
