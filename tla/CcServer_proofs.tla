--------------------------- MODULE CcServer_proofs ---------------------------
(***************************************************************************)
(* Theorems about CcServer, for any clients, workers, descriptors, rooms,  *)
(* and messages.                                                           *)
(***************************************************************************)
EXTENDS CcServer, DataLemmas

(***************************************************************************)
(* Typing.  A handler has what it needs where it is: a room from the       *)
(* upgrade on, a connection during a system call, a frame while it         *)
(* broadcasts.                                                             *)
(***************************************************************************)
Answering == {"write", "writing"}
Aired == {"broadcast", "send", "sending"}

HasRoom(w) ==
    \/ pc[w] \in {"join", "chat", "chatRead", "leave"} \cup Aired
    \/ pc[w] \in Answering /\ after[w] # "http"

Placed ==
    /\ \A w \in Workers :
          /\ pc[w] \in Answering => after[w] # "idle"
          /\ HasRoom(w) => room[w] \in Rooms
          /\ pc[w] \in {"httpRead", "chatRead", "writing", "sending"} =>
                call[w] \in Clients
          /\ pc[w] \in Aired => frame[w] \in Frames /\ frame[w].room = room[w]
    /\ \A c \in Clients : input[c] # <<>> => sent[c] > 0

TypeInv == TypeOK /\ Placed

LEMMA TypeInvInit == Init => TypeInv
<1> SUFFICES ASSUME Init PROVE TypeInv
  OBVIOUS
<1> USE CcAssumption DEF Init
<1>1. <<>> \in Seq(Fds) /\ <<>> \in Seq(Frames) /\ <<>> \in Seq(Clients)
  OBVIOUS
<1>2. pc \in [Workers -> Labels]
  BY DEF Labels
<1>3. unread \in [Clients -> 0..Window] /\ sent \in [Clients -> 0..MaxSent]
  OBVIOUS
<1>4. TypeOK
  BY <1>1, <1>2, <1>3 DEF TypeOK
<1>5. Placed
  BY DEF Placed, HasRoom, Answering, Aired
<1> QED
  BY <1>4, <1>5 DEF TypeInv

\* Clients leave the workers alone.
LEMMA TypeInvClient ==
    ASSUME TypeInv, NEW c \in Clients, ClientStep(c)
    PROVE  TypeInv'
<1> USE CcAssumption DEF TypeInv, workerVars, handlerVars, sendVars, outVars,
        acceptVars, roomVars, clientVars
<1>1. ASSUME NEW kind \in Kinds, NEW r \in Rooms \cup {None}, Send(c, kind, r),
             Message(kind, r) \in Messages,
             phase' \in [Clients -> {"backlog", "http", "chat", "gone"}]
      PROVE  TypeInv'
  <2>1. sent[c] + 1 \in 1..MaxSent
    BY <1>1 DEF Send, TypeOK
  <2>2. sent' \in [Clients -> 0..MaxSent] /\ sent'[c] > 0
    BY <1>1, <2>1 DEF Send, TypeOK
  <2>3. input' \in [Clients -> {<<>>} \cup {<<m>> : m \in Messages}]
    BY <1>1 DEF Send, TypeOK
  <2>4. \A d \in Clients : input'[d] # <<>> => sent'[d] > 0
    BY <1>1, <2>2 DEF Send, TypeOK, Placed
  <2>5. TypeOK'
    BY <1>1, <2>2, <2>3 DEF Send, TypeOK
  <2>6. Placed'
    BY <1>1, <2>4 DEF Send, Placed, HasRoom
  <2> QED
    BY <2>5, <2>6
<1>2. CASE SendRequest(c)
  <2>1. Message("request", None) \in Messages
    BY DEF Messages
  <2> QED
    BY <1>1, <1>2, <2>1 DEF SendRequest, Kinds, TypeOK
<1>3. CASE SendUpgrade(c)
  <2>1. Wants[c] \in Rooms /\ Message("upgrade", Wants[c]) \in Messages
    BY DEF Messages
  <2>2. phase' \in [Clients -> {"backlog", "http", "chat", "gone"}]
    BY <1>3 DEF SendUpgrade, TypeOK
  <2> QED
    BY <1>1, <1>3, <2>1, <2>2 DEF SendUpgrade, Kinds
<1>4. ASSUME NEW kind \in FrameKinds, SendFrame(c, kind) PROVE TypeInv'
  <2>1. Message(kind, None) \in Messages
    BY DEF Messages
  <2> QED
    BY <1>1, <1>4, <2>1 DEF SendFrame, Kinds, TypeOK
<1>5. CASE HangUp(c)
  <2>1. /\ unread' \in [Clients -> 0..Window]
        /\ phase' \in [Clients -> {"backlog", "http", "chat", "gone"}]
    BY <1>5 DEF HangUp, TypeOK
  <2>2. TypeOK'
    BY <1>5, <2>1 DEF HangUp, TypeOK
  <2> QED
    BY <1>5, <2>2 DEF HangUp, Placed, HasRoom
<1>6. CASE ClientRead(c)
  <2>1. unread' \in [Clients -> 0..Window]
    BY <1>6 DEF ClientRead, TypeOK
  <2>2. TypeOK'
    BY <1>6, <2>1 DEF ClientRead, TypeOK
  <2> QED
    BY <1>6, <2>2 DEF ClientRead, Placed, HasRoom
<1> QED
  BY <1>2, <1>3, <1>4, <1>5, <1>6 DEF ClientStep

\* The kernel finds a free number if there is one.
LEMMA FreeNumber ==
    ASSUME FreeFds # {}
    PROVE  Min(FreeFds) \in Fds /\ file[Min(FreeFds)] = None
<1>1. FreeFds \in SUBSET Nat
  BY CcAssumption DEF FreeFds
<1>2. Min(FreeFds) \in FreeFds
  BY <1>1, MinIsLeast
<1> QED
  BY <1>2 DEF FreeFds

LEMMA TypeInvAccept ==
    ASSUME TypeInv, NEW c \in Clients, Accept(c)
    PROVE  TypeInv'
<1> USE DEF TypeInv, workerVars, handlerVars, sendVars, outVars, roomVars
<1> DEFINE f == Min(FreeFds)
<1>1. f \in Fds
  BY FreeNumber DEF Accept
<1>2. /\ file' = [file EXCEPT ![f] = c]
      /\ queue' = Append(queue, f)
      /\ queuedFor' = Append(queuedFor, c)
      /\ reused' \in BOOLEAN
      /\ phase' = [phase EXCEPT ![c] = "http"]
      /\ UNCHANGED <<sent, input, outVars, workerVars, roomVars>>
  BY DEF Accept, TypeOK
<1> HIDE DEF f
<1>3. /\ file' \in [Fds -> Clients \cup {None}]
      /\ phase' \in [Clients -> {"backlog", "http", "chat", "gone"}]
  BY <1>1, <1>2 DEF TypeOK
<1>4. /\ queue' \in Seq(Fds) /\ queuedFor' \in Seq(Clients)
      /\ Len(queuedFor') = Len(queue')
  BY SMTT(30), <1>1, <1>2 DEF TypeOK
<1>5. TypeOK'
  BY <1>2, <1>3, <1>4 DEF TypeOK
<1> QED
  BY <1>2, <1>5 DEF Placed, HasRoom

\* The steps of a worker: the way in and out of a system call first.
LEMMA TypeInvEnter ==
    ASSUME TypeInv, NEW w \in Workers, NEW from \in Labels, NEW in \in Labels,
           NEW failed \in Labels, Enter(w, from, in, failed),
           <<from, in, failed>> \in
               {<<"http", "httpRead", "closeOuter">>, <<"chat", "chatRead", "leave">>,
                <<"write", "writing", after[w]>>, <<"write", "writing", Unwritten(w)>>}
    PROVE  TypeInv'
<1> USE CcAssumption DEF TypeInv, handlerVars, sendVars, outVars, acceptVars,
        roomVars, clientVars
<1>1. from \in {"http", "chat", "write"} /\ fd[w] \in Fds
  BY DEF Enter, TypeOK
<1>2. file[fd[w]] \in Clients \cup {None}
  BY <1>1 DEF TypeOK
<1>3. pc' \in [Workers -> Labels] /\ call' \in [Workers -> Clients \cup {None}]
  BY <1>2 DEF Enter, Goto, TypeOK
<1>7. pc'[w] # "sending" /\ pc[w] # "idle" /\ \A v \in Workers \ {w} : pc'[v] = pc[v]
  BY <1>3 DEF Enter, Goto, TypeOK, Unwritten
<1>8. /\ \A v \in Workers \ {w} : call'[v] = call[v]
      /\ UNCHANGED <<clientVars, input, outVars, file, acceptVars, handlerVars,
                     after, sendVars, roomVars>>
  BY DEF Enter, TypeOK
<1>4. TypeOK'
  BY <1>1, <1>3, <1>7, <1>8 DEF TypeOK
<1>5. HasRoom(w)' => HasRoom(w)
  BY DEF Enter, Goto, TypeOK, HasRoom, Unwritten, Answering, Aired
<1>6. Placed'
  BY ZenonT(60), <1>1, <1>2, <1>5 DEF Enter, Goto, TypeOK, Placed, HasRoom, Unwritten,
     Answering, Aired
<1> QED
  BY <1>4, <1>6

LEMMA TypeInvReadEnds ==
    ASSUME TypeInv, NEW w \in Workers, NEW in \in {"httpRead", "chatRead"},
           ReadEnds(w, in, IF in = "httpRead" THEN "closeOuter" ELSE "leave")
    PROVE  TypeInv'
<1> USE CcAssumption DEF TypeInv, handlerVars, sendVars, outVars, acceptVars,
        roomVars, clientVars
<1>1. pc' \in [Workers -> Labels] /\ call' \in [Workers -> Clients \cup {None}]
  BY DEF ReadEnds, Goto, TypeOK, Labels
<1>2. TypeOK'
  BY <1>1 DEF ReadEnds, Goto, TypeOK
<1>3. Placed'
  BY DEF ReadEnds, Goto, TypeOK, Placed, HasRoom, Answering, Aired
<1> QED
  BY <1>2, <1>3

\* A read that returns: the handler goes on in the same room, or in the one it
\* was asked for, answers or has a frame to broadcast.
LEMMA TypeInvReadGets ==
    ASSUME TypeInv, NEW w \in Workers, NEW in \in {"httpRead", "chatRead"},
           NEW m \in Messages, ReadGets(w, in, m),
           pc' \in [Workers -> Labels],
           \A v \in Workers \ {w} : pc'[v] = pc[v],
           after' \in [Workers -> {"idle", "http", "join", "chat", "leave"}],
           \A v \in Workers \ {w} : after'[v] = after[v],
           room' \in [Workers -> Rooms \cup {None}],
           \A v \in Workers \ {w} : room'[v] = room[v],
           frame' \in [Workers -> Frames \cup {NoFrame}],
           \A v \in Workers \ {w} : frame'[v] = frame[v],
           pc'[w] \in {"http", "write", "chat", "broadcast"},
           pc'[w] \in Answering => after'[w] # "idle",
           HasRoom(w)' => room'[w] \in Rooms,
           pc'[w] \in Aired => frame'[w] \in Frames /\ frame'[w].room = room'[w]
    PROVE  TypeInv'
<1> USE CcAssumption DEF TypeInv, handlerVars, sendVars, outVars, acceptVars,
        roomVars, clientVars
<1>1. call' \in [Workers -> Clients \cup {None}]
  BY DEF ReadGets, TypeOK
<1>2. /\ input' \in [Clients -> {<<>>} \cup {<<n>> : n \in Messages}]
      /\ \A d \in Clients : input'[d] = <<>> \/ input'[d] = input[d]
  BY DEF ReadGets, TypeOK
<1>3. fd[w] \in Fds
  BY DEF ReadGets, TypeOK
<1>4. TypeOK'
  BY <1>1, <1>2, <1>3 DEF ReadGets, TypeOK
<1>5. \A d \in Clients : input'[d] # <<>> => sent'[d] > 0
  BY <1>2 DEF ReadGets, Placed
<1>6. Placed'
  BY SMTT(30), <1>5 DEF ReadGets, Placed, HasRoom, TypeOK, Answering, Aired
<1> QED
  BY <1>4, <1>6

LEMMA TypeInvStart ==
    ASSUME TypeInv, NEW w \in Workers, StartTask(w)
    PROVE  TypeInv'
<1> USE CcAssumption DEF TypeInv, handlerVars, sendVars, outVars, acceptVars,
        roomVars, clientVars
<1>1. /\ Head(queue) \in Fds /\ Tail(queue) \in Seq(Fds)
      /\ Head(queuedFor) \in Clients /\ Tail(queuedFor) \in Seq(Clients)
      /\ Len(Tail(queue)) = Len(Tail(queuedFor))
  BY DEF StartTask, TypeOK
<1>2. /\ pc' \in [Workers -> Labels]
      /\ fd' \in [Workers -> Fds \cup {None}]
      /\ owner' \in [Workers -> Clients \cup {None}]
  BY <1>1 DEF StartTask, Goto, TypeOK, Labels
<1>3. TypeOK'
  BY <1>1, <1>2 DEF StartTask, Goto, TypeOK
<1>4. Placed'
  BY DEF StartTask, Goto, TypeOK, Placed, HasRoom, Answering, Aired
<1> QED
  BY <1>3, <1>4

LEMMA TypeInvHttpRead ==
    ASSUME TypeInv, NEW w \in Workers,
           HttpReadRequest(w) \/ HttpReadUpgrade(w) \/ HttpReadFrame(w)
    PROVE  TypeInv'
<1> USE CcAssumption DEF TypeInv, Answering, Aired, HasRoom
<1>1. pc[w] = "httpRead" /\ pc \in [Workers -> Labels]
      /\ "write" \in Labels /\ "http" \in Labels
      /\ after \in [Workers -> {"idle", "http", "join", "chat", "leave"}]
      /\ room \in [Workers -> Rooms \cup {None}]
      /\ frame \in [Workers -> Frames \cup {NoFrame}]
  BY DEF HttpReadRequest, HttpReadUpgrade, HttpReadFrame, ReadGets, TypeOK, Labels
<1>2. CASE HttpReadRequest(w)
  <2>1. Message("request", None) \in Messages
    BY DEF Messages
  <2> QED
    BY <1>1, <1>2, <2>1, TypeInvReadGets DEF HttpReadRequest, Answer, Goto
<1>3. ASSUME NEW r \in Rooms, ReadGets(w, "httpRead", Message("upgrade", r)),
             room' = [room EXCEPT ![w] = r], Answer(w, "join"), UNCHANGED frame
      PROVE  TypeInv'
  <2>1. Message("upgrade", r) \in Messages
    BY DEF Messages
  <2> QED
    BY <1>1, <1>3, <2>1, TypeInvReadGets DEF Answer, Goto
<1>4. ASSUME NEW kind \in FrameKinds,
             ReadGets(w, "httpRead", Message(kind, None)),
             \/ Goto(w, "http") /\ UNCHANGED after
             \/ Answer(w, "http"),
             UNCHANGED <<room, frame>>
      PROVE  TypeInv'
  <2>1. Message(kind, None) \in Messages
    BY DEF Messages
  <2>2. CASE Goto(w, "http") /\ UNCHANGED after
    BY <1>1, <1>4, <2>1, <2>2, TypeInvReadGets DEF Goto
  <2>3. CASE Answer(w, "http")
    BY <1>1, <1>4, <2>1, <2>3, TypeInvReadGets DEF Answer, Goto
  <2> QED
    BY <1>4, <2>2, <2>3
<1> QED
  BY <1>2, <1>3, <1>4 DEF HttpReadUpgrade, HttpReadFrame

LEMMA TypeInvChatRead ==
    ASSUME TypeInv, NEW w \in Workers,
           ChatReadText(w) \/ ChatReadPing(w) \/ ChatReadBye(w) \/ ChatReadRequest(w)
    PROVE  TypeInv'
<1> USE CcAssumption DEF TypeInv, Answering, Aired, HasRoom
<1>1. pc[w] = "chatRead" /\ pc \in [Workers -> Labels]
      /\ "write" \in Labels /\ "chat" \in Labels /\ "broadcast" \in Labels
      /\ after \in [Workers -> {"idle", "http", "join", "chat", "leave"}]
      /\ room \in [Workers -> Rooms \cup {None}] /\ room[w] \in Rooms
      /\ frame \in [Workers -> Frames \cup {NoFrame}]
      /\ call[w] \in Clients
  BY DEF ChatReadText, ChatReadPing, ChatReadBye, ChatReadRequest, ReadGets,
     TypeOK, Labels, Placed
<1>2. CASE ChatReadText(w)
  <2>1. Message("text", None) \in Messages
    BY DEF Messages, FrameKinds
  <2> DEFINE t == [from |-> call[w], n |-> sent[call[w]], room |-> room[w]]
  <2>2. sent[call[w]] \in 1..MaxSent
    <3>1. input[call[w]] = <<Message("text", None)>>
      BY <1>2 DEF ChatReadText, ReadGets
    <3>2. input[call[w]] # <<>>
      BY <3>1
    <3>3. sent[call[w]] > 0 /\ sent[call[w]] \in 0..MaxSent
      BY <1>1, <3>2 DEF TypeOK, Placed
    <3> QED
      BY <3>3
  <2>3. t \in Frames /\ t.room = room[w]
    BY <1>1, <2>2 DEF Frames
  <2>4. /\ ReadGets(w, "chatRead", Message("text", None))
        /\ frame' = [frame EXCEPT ![w] = t]
        /\ pc' = [pc EXCEPT ![w] = "broadcast"]
        /\ UNCHANGED <<room, after>>
    BY <1>2 DEF ChatReadText, Goto
  <2> HIDE DEF t
  <2>5. frame' \in [Workers -> Frames \cup {NoFrame}]
    BY <1>1, <2>3, <2>4
  <2> QED
    BY <1>1, <2>1, <2>3, <2>4, <2>5, TypeInvReadGets
<1>3. CASE ChatReadPing(w)
  <2>1. Message("ping", None) \in Messages
    BY DEF Messages, FrameKinds
  <2> QED
    BY <1>1, <1>3, <2>1, TypeInvReadGets DEF ChatReadPing, Answer, Goto
<1>4. CASE ChatReadBye(w)
  <2>1. Message("bye", None) \in Messages
    BY DEF Messages, FrameKinds
  <2> QED
    BY <1>1, <1>4, <2>1, TypeInvReadGets DEF ChatReadBye, Answer, Goto
<1>5. ASSUME NEW m \in {Message("request", None)} \cup
                          {Message("upgrade", r) : r \in Rooms},
             ReadGets(w, "chatRead", m),
             \/ Goto(w, "chat") /\ UNCHANGED after
             \/ Answer(w, "leave"),
             UNCHANGED <<room, frame>>
      PROVE  TypeInv'
  <2>1. m \in Messages
    BY DEF Messages
  <2>2. CASE Goto(w, "chat") /\ UNCHANGED after
    BY <1>1, <1>5, <2>1, <2>2, TypeInvReadGets DEF Goto
  <2>3. CASE Answer(w, "leave")
    BY <1>1, <1>5, <2>1, <2>3, TypeInvReadGets DEF Answer, Goto
  <2> QED
    BY <1>5, <2>2, <2>3
<1> QED
  BY <1>2, <1>3, <1>4, <1>5 DEF ChatReadRequest

\* A write that is done.
LEMMA TypeInvWritten ==
    ASSUME TypeInv, NEW w \in Workers, call[w] \in Clients,
           NEW texts \in Seq(Frames), Written(w, texts)
    PROVE  /\ unread' \in [Clients -> 0..Window]
           /\ got' \in [Clients -> Seq(Frames)]
<1> USE CcAssumption DEF TypeInv, TypeOK, outVars
<1>1. CASE phase[call[w]] = "gone"
  BY <1>1 DEF Written
<1>2. CASE phase[call[w]] # "gone"
  <2>1. /\ unread[call[w]] + 1 \in 0..Window
        /\ unread' = [unread EXCEPT ![call[w]] = @ + 1]
        /\ got' = [got EXCEPT ![call[w]] = @ \o texts]
    BY SMTT(30), <1>2 DEF Written
  <2>2. got[call[w]] \o texts \in Seq(Frames)
    OBVIOUS
  <2>3. unread' \in [Clients -> 0..Window]
    BY <2>1
  <2> QED
    BY <2>1, <2>2, <2>3
<1> QED
  BY <1>1, <1>2

LEMMA TypeInvWrite ==
    ASSUME TypeInv, NEW w \in Workers, WriteDone(w)
    PROVE  TypeInv'
<1> USE CcAssumption DEF TypeInv, handlerVars, sendVars, acceptVars, roomVars,
        clientVars
<1>1. /\ pc[w] = "writing" /\ call[w] \in Clients /\ after[w] # "idle"
      /\ fd[w] \in Fds
      /\ HasRoom(w) => room[w] \in Rooms
  BY DEF WriteDone, TypeOK, Placed, Answering
<1>2. <<>> \in Seq(Frames) /\ Written(w, <<>>)
  BY DEF WriteDone
<1>3. /\ unread' \in [Clients -> 0..Window]
      /\ got' \in [Clients -> Seq(Frames)]
  BY <1>1, <1>2, TypeInvWritten, Zenon
<1> DEFINE label == pc'[w]
<1>4. pc' = [pc EXCEPT ![w] = label] /\ label \in {after[w], Unwritten(w)}
  BY <1>1 DEF WriteDone, Goto, TypeOK
<1> HIDE DEF label
<1>5. /\ label \in {"http", "join", "chat", "leave", "closeOuter"}
      /\ after[w] = "http" => label \in {"http", "closeOuter"}
  BY <1>1, <1>4 DEF Unwritten, TypeOK
<1>6. /\ call' = [call EXCEPT ![w] = None]
      /\ UNCHANGED <<clientVars, input, file, acceptVars, handlerVars, after,
                     sendVars, roomVars>>
  BY DEF WriteDone
<1>7. TypeOK'
  <2>1. pc' \in [Workers -> Labels] /\ call' \in [Workers -> Clients \cup {None}]
    BY <1>4, <1>5, <1>6 DEF TypeOK, Labels
  <2>2. \A v \in Workers : /\ pc'[v] # "idle" => fd[v] \in Fds
                           /\ pc'[v] = "sending" => call'[v] \in Clients
    BY <1>1, <1>4, <1>5, <1>6 DEF TypeOK
  <2> QED
    BY <1>3, <1>6, <2>1, <2>2 DEF TypeOK
<1>8. Placed'
  BY <1>1, <1>4, <1>5, <1>6 DEF Placed, HasRoom, TypeOK, Answering, Aired
<1> QED
  BY <1>7, <1>8

\* The rooms: joining, broadcasting and leaving.
LEMMA TypeInvRooms ==
    ASSUME TypeInv, NEW w \in Workers,
           Join(w) \/ BroadcastLock(w) \/ BroadcastUnlock(w) \/ Leave(w)
    PROVE  TypeInv'
<1> USE CcAssumption DEF TypeInv, handlerVars, sendVars, outVars, acceptVars,
        roomVars, clientVars
<1>1. /\ pc[w] \in {"join", "broadcast", "send", "leave"} /\ fd[w] \in Fds
      /\ room[w] \in Rooms
      /\ pc[w] = "broadcast" => frame[w] \in Frames /\ frame[w].room = room[w]
  BY DEF Join, BroadcastLock, BroadcastUnlock, Leave, TypeOK, Placed, HasRoom, Aired
<1>2. CASE Join(w)
  <2>1. Append(members[room[w]], fd[w]) \in Seq(Fds)
    BY <1>1 DEF TypeOK
  <2>2. /\ pc' \in [Workers -> Labels]
        /\ members' \in [Rooms -> Seq(Fds)]
    BY <1>1, <1>2, <2>1 DEF Join, Goto, TypeOK, Labels
  <2>3. TypeOK'
    BY <1>1, <1>2, <2>2 DEF Join, Goto, TypeOK
  <2>4. Placed'
    BY <1>1, <1>2 DEF Join, Goto, TypeOK, Placed, HasRoom, Answering, Aired
  <2> QED
    BY <2>3, <2>4
<1>3. CASE BroadcastLock(w)
  <2>1. /\ pc' \in [Workers -> Labels]
        /\ todo' \in [Workers -> Seq(Fds)]
    BY <1>1, <1>3 DEF BroadcastLock, Goto, TypeOK, Labels
  <2>2. TypeOK'
    BY <1>1, <1>3, <2>1 DEF BroadcastLock, Goto, TypeOK
  <2>3. Placed'
    BY <1>1, <1>3 DEF BroadcastLock, Goto, TypeOK, Placed, HasRoom, Answering, Aired
  <2> QED
    BY <2>2, <2>3
<1>4. CASE BroadcastUnlock(w)
  <2>1. /\ pc' \in [Workers -> Labels]
        /\ frame' \in [Workers -> Frames \cup {NoFrame}]
    BY <1>1, <1>4 DEF BroadcastUnlock, Goto, TypeOK, Labels
  <2>2. TypeOK'
    BY <1>1, <1>4, <2>1 DEF BroadcastUnlock, Goto, TypeOK
  <2>3. Placed'
    BY <1>1, <1>4 DEF BroadcastUnlock, Goto, TypeOK, Placed, HasRoom, Answering, Aired
  <2> QED
    BY <2>2, <2>3
<1>5. CASE Leave(w)
  <2>1. Without(members[room[w]], fd[w]) \in Seq(Fds)
    <3>1. members[room[w]] \in Seq(Fds)
      BY <1>1 DEF TypeOK
    <3> QED
      BY <3>1, PickFromList DEF Without
  <2>2. /\ pc' \in [Workers -> Labels]
        /\ members' \in [Rooms -> Seq(Fds)]
    BY <1>1, <1>5, <2>1 DEF Leave, Goto, TypeOK, Labels
  <2>3. TypeOK'
    BY <1>1, <1>5, <2>2 DEF Leave, Goto, TypeOK
  <2>4. Placed'
    BY <1>1, <1>5 DEF Leave, Goto, TypeOK, Placed, HasRoom, Answering, Aired
  <2> QED
    BY <2>3, <2>4
<1> QED
  BY <1>2, <1>3, <1>4, <1>5

LEMMA TypeInvSend ==
    ASSUME TypeInv, NEW w \in Workers, SendEnter(w) \/ SendDone(w)
    PROVE  TypeInv'
<1> USE CcAssumption DEF TypeInv, handlerVars, sendVars, acceptVars, roomVars,
        clientVars
<1>1. /\ pc[w] \in {"send", "sending"} /\ fd[w] \in Fds /\ room[w] \in Rooms
      /\ frame[w] \in Frames /\ frame[w].room = room[w]
  BY DEF SendEnter, SendDone, TypeOK, Placed, HasRoom, Aired
<1>2. CASE SendEnter(w)
  <2> DEFINE c == file[Head(todo[w])]
             label == IF c = None THEN "send" ELSE "sending"
  <2>1. Head(todo[w]) \in Fds /\ Tail(todo[w]) \in Seq(Fds)
    BY <1>2 DEF SendEnter, TypeOK
  <2>2. c \in Clients \cup {None} /\ label \in Labels
    BY <2>1 DEF TypeOK, Labels
  <2>3. /\ label \in {"send", "sending"}
        /\ label = "sending" => c \in Clients
    BY <2>2
  <2>4. /\ pc' = [pc EXCEPT ![w] = label]
        /\ call' = [call EXCEPT ![w] = c]
        /\ todo' = [todo EXCEPT ![w] = Tail(@)]
        /\ UNCHANGED <<clientVars, input, outVars, file, acceptVars, handlerVars,
                       after, frame, roomVars>>
    BY <1>2 DEF SendEnter, Goto
  <2> HIDE DEF c, label
  <2>5. /\ pc' \in [Workers -> Labels]
        /\ call' \in [Workers -> Clients \cup {None}]
        /\ todo' \in [Workers -> Seq(Fds)]
    BY <2>1, <2>2, <2>4 DEF TypeOK
  <2>6. TypeOK'
    BY <1>1, <2>3, <2>4, <2>5 DEF TypeOK, outVars
  <2>7. Placed'
    BY <1>1, <2>3, <2>4 DEF TypeOK, Placed, HasRoom, Answering, Aired
  <2> QED
    BY <2>6, <2>7
<1>3. CASE SendDone(w)
  <2>1. <<frame[w]>> \in Seq(Frames) /\ call[w] \in Clients
    BY <1>1, <1>3 DEF SendDone, TypeOK
  <2>2. /\ unread' \in [Clients -> 0..Window]
        /\ got' \in [Clients -> Seq(Frames)]
    BY <1>3, <2>1, TypeInvWritten DEF SendDone
  <2>3. /\ pc' \in [Workers -> Labels]
        /\ call' \in [Workers -> Clients \cup {None}]
    BY <1>3 DEF SendDone, Goto, TypeOK, Labels
  <2>4. TypeOK'
    BY <1>1, <1>3, <2>2, <2>3 DEF SendDone, Goto, TypeOK
  <2>5. Placed'
    BY <1>1, <1>3 DEF SendDone, Goto, TypeOK, Placed, HasRoom, Answering, Aired
  <2> QED
    BY <2>4, <2>5
<1> QED
  BY <1>2, <1>3

LEMMA TypeInvClose ==
    ASSUME TypeInv, NEW w \in Workers, CloseInner(w) \/ CloseOuter(w)
    PROVE  TypeInv'
<1> USE CcAssumption DEF TypeInv, handlerVars, sendVars, outVars, acceptVars,
        roomVars, clientVars
<1>1. pc[w] \in {"closeInner", "closeOuter"} /\ fd[w] \in Fds
  BY DEF CloseInner, CloseOuter, TypeOK
<1>2. file' \in [Fds -> Clients \cup {None}] /\ pc' \in [Workers -> Labels]
  BY <1>1 DEF CloseInner, CloseOuter, CloseFd, Goto, TypeOK, Labels
<1>3. CASE CloseInner(w)
  <2>1. TypeOK'
    BY <1>1, <1>2, <1>3 DEF CloseInner, Goto, TypeOK
  <2>2. Placed'
    BY <1>3 DEF CloseInner, Goto, TypeOK, Placed, HasRoom, Answering, Aired
  <2> QED
    BY <2>1, <2>2
<1>4. CASE CloseOuter(w)
  <2>1. /\ fd' \in [Workers -> Fds \cup {None}]
        /\ owner' \in [Workers -> Clients \cup {None}]
        /\ room' \in [Workers -> Rooms \cup {None}]
        /\ after' \in [Workers -> {"idle", "http", "join", "chat", "leave"}]
        /\ pc' = [pc EXCEPT ![w] = "idle"]
    BY <1>4 DEF CloseOuter, Goto, TypeOK
  <2>2. \A v \in Workers : /\ pc'[v] # "idle" => fd'[v] \in Fds
                           /\ pc'[v] = "sending" => call'[v] \in Clients
    BY <1>4, <2>1 DEF CloseOuter, TypeOK
  <2>3. TypeOK'
    BY <1>2, <1>4, <2>1, <2>2 DEF CloseOuter, TypeOK
  <2>4. Placed'
    BY <1>4 DEF CloseOuter, Goto, TypeOK, Placed, HasRoom, Answering, Aired
  <2> QED
    BY <2>3, <2>4
<1> QED
  BY <1>3, <1>4

LEMMA TypeInvWorker ==
    ASSUME TypeInv, NEW w \in Workers, WorkerStep(w)
    PROVE  TypeInv'
<1>1. CASE HttpEnterRead(w)
  BY <1>1, TypeInvEnter DEF HttpEnterRead, Labels
<1>2. CASE ChatEnterRead(w)
  BY <1>2, TypeInvEnter DEF ChatEnterRead, Labels
<1>3. CASE WriteEnter(w)
  <2>1. PICK label \in {after[w], Unwritten(w)} : Enter(w, "write", "writing", label)
    BY <1>3 DEF WriteEnter
  <2>2. label \in Labels
    BY DEF TypeInv, TypeOK, Unwritten, Labels
  <2> QED
    BY <2>1, <2>2, TypeInvEnter DEF Labels
<1>4. CASE HttpReadEnds(w)
  BY <1>4, TypeInvReadEnds DEF HttpReadEnds
<1>5. CASE ChatReadEnds(w)
  BY <1>5, TypeInvReadEnds DEF ChatReadEnds
<1> QED
  BY <1>1, <1>2, <1>3, <1>4, <1>5, TypeInvStart, TypeInvHttpRead, TypeInvChatRead,
     TypeInvWrite, TypeInvRooms, TypeInvSend, TypeInvClose DEF WorkerStep

LEMMA TypeInvNext == TypeInv /\ [Next]_vars => TypeInv'
<1> SUFFICES ASSUME TypeInv, [Next]_vars PROVE TypeInv'
  OBVIOUS
<1>1. CASE UNCHANGED vars
  BY <1>1 DEF vars, clientVars, outVars, acceptVars, workerVars, handlerVars,
     sendVars, roomVars, TypeInv, TypeOK, Placed, HasRoom
<1> QED
  BY <1>1, TypeInvClient, TypeInvAccept, TypeInvWorker DEF Next

\* Every variable of the server has its type, in every behaviour: handlers of
\* handle_client and handle_websocket always have the descriptor, the room and
\* the connection that the step they are at needs.
THEOREM TypeCorrect == Spec => []TypeOK
<1>1. Init => TypeInv
  BY TypeInvInit
<1>2. TypeInv /\ [Next]_vars => TypeInv'
  BY TypeInvNext
<1>3. TypeInv => TypeOK
  BY DEF TypeInv
<1> QED
  BY <1>1, <1>2, <1>3, PTL DEF Spec

-----------------------------------------------------------------------------
(***************************************************************************)
(* What a step of a worker leaves alone.                                   *)
(***************************************************************************)
LEMMA OthersStay ==
    ASSUME TypeOK, NEW w \in Workers, WorkerStep(w), NEW v \in Workers, v # w
    PROVE  /\ pc'[v] = pc[v] /\ fd'[v] = fd[v] /\ owner'[v] = owner[v]
           /\ room'[v] = room[v] /\ call'[v] = call[v] /\ after'[v] = after[v]
           /\ frame'[v] = frame[v] /\ todo'[v] = todo[v]
<1> USE DEF TypeOK, handlerVars, sendVars, workerVars, Goto, Answer
<1>1. CASE \/ HttpEnterRead(w) \/ HttpReadEnds(w) \/ WriteEnter(w)
           \/ ChatEnterRead(w) \/ ChatReadEnds(w)
  BY <1>1 DEF HttpEnterRead, HttpReadEnds, WriteEnter, ChatEnterRead,
     ChatReadEnds, Enter, ReadEnds
<1>2. CASE HttpReadRequest(w) \/ HttpReadUpgrade(w) \/ HttpReadFrame(w)
  BY <1>2 DEF HttpReadRequest, HttpReadUpgrade, HttpReadFrame, ReadGets
<1>3. CASE ChatReadText(w) \/ ChatReadPing(w) \/ ChatReadBye(w) \/ ChatReadRequest(w)
  BY <1>3 DEF ChatReadText, ChatReadPing, ChatReadBye, ChatReadRequest, ReadGets
<1>4. CASE StartTask(w) \/ WriteDone(w) \/ Join(w) \/ Leave(w)
  BY <1>4 DEF StartTask, WriteDone, Join, Leave
<1>5. CASE BroadcastLock(w) \/ SendEnter(w) \/ SendDone(w) \/ BroadcastUnlock(w)
  <2>1. CASE BroadcastLock(w)
    BY <2>1 DEF BroadcastLock
  <2>2. CASE SendEnter(w)
    BY <2>2 DEF SendEnter
  <2>3. CASE SendDone(w)
    BY <2>3 DEF SendDone
  <2>4. CASE BroadcastUnlock(w)
    BY <2>4 DEF BroadcastUnlock
  <2> QED
    BY <1>5, <2>1, <2>2, <2>3, <2>4
<1>6. CASE CloseInner(w) \/ CloseOuter(w)
  BY <1>6 DEF CloseInner, CloseOuter
<1> QED
  BY <1>1, <1>2, <1>3, <1>4, <1>5, <1>6 DEF WorkerStep

\* Only the broadcast takes the mutex and keeps it.
Broadcasting == {"send", "sending"}

LEMMA Unlocked ==
    ASSUME TypeOK, NEW w \in Workers, WorkerStep(w)
    PROVE  \/ BroadcastLock(w) \/ SendEnter(w) \/ SendDone(w) \/ BroadcastUnlock(w)
           \/ /\ pc[w] \notin Broadcasting /\ pc'[w] \notin Broadcasting
              /\ UNCHANGED <<todo, roomsLock>>
<1> USE DEF TypeOK, handlerVars, sendVars, roomVars, Goto, Answer, Broadcasting,
        Unwritten
<1>1. CASE \/ HttpEnterRead(w) \/ HttpReadEnds(w) \/ WriteEnter(w)
           \/ ChatEnterRead(w) \/ ChatReadEnds(w)
  BY <1>1 DEF HttpEnterRead, HttpReadEnds, WriteEnter, ChatEnterRead,
     ChatReadEnds, Enter, ReadEnds
<1>2. CASE HttpReadRequest(w) \/ HttpReadUpgrade(w) \/ HttpReadFrame(w)
  BY <1>2 DEF HttpReadRequest, HttpReadUpgrade, HttpReadFrame, ReadGets
<1>3. CASE ChatReadText(w) \/ ChatReadPing(w) \/ ChatReadBye(w) \/ ChatReadRequest(w)
  BY <1>3 DEF ChatReadText, ChatReadPing, ChatReadBye, ChatReadRequest, ReadGets
<1>4. CASE StartTask(w) \/ WriteDone(w) \/ Join(w) \/ Leave(w)
  BY <1>4 DEF StartTask, WriteDone, Join, Leave
<1>5. CASE CloseInner(w) \/ CloseOuter(w)
  BY <1>5 DEF CloseInner, CloseOuter
<1> QED
  BY <1>1, <1>2, <1>3, <1>4, <1>5 DEF WorkerStep

\* Descriptors change hands where a handler begins and where it closes.
LEMMA Serving ==
    ASSUME TypeInv, NEW w \in Workers, WorkerStep(w)
    PROVE  \/ StartTask(w) \/ CloseInner(w) \/ CloseOuter(w)
           \/ /\ pc[w] \notin {"idle", "closeInner", "closeOuter"}
              /\ pc'[w] # "idle"
              /\ UNCHANGED <<file, acceptVars, fd, owner>>
<1> USE DEF TypeInv, TypeOK, Placed, handlerVars, Goto, Answer, Unwritten, Answering
<1>1. CASE \/ HttpEnterRead(w) \/ HttpReadEnds(w) \/ WriteEnter(w)
           \/ ChatEnterRead(w) \/ ChatReadEnds(w)
  BY <1>1 DEF HttpEnterRead, HttpReadEnds, WriteEnter, ChatEnterRead,
     ChatReadEnds, Enter, ReadEnds
<1>2. CASE HttpReadRequest(w) \/ HttpReadUpgrade(w) \/ HttpReadFrame(w)
  BY <1>2 DEF HttpReadRequest, HttpReadUpgrade, HttpReadFrame, ReadGets
<1>3. CASE ChatReadText(w) \/ ChatReadPing(w) \/ ChatReadBye(w) \/ ChatReadRequest(w)
  BY <1>3 DEF ChatReadText, ChatReadPing, ChatReadBye, ChatReadRequest, ReadGets
<1>4. CASE WriteDone(w) \/ Join(w) \/ Leave(w)
  BY <1>4 DEF WriteDone, Join, Leave
<1>5. CASE BroadcastLock(w) \/ SendEnter(w) \/ SendDone(w) \/ BroadcastUnlock(w)
  BY <1>5 DEF BroadcastLock, SendEnter, SendDone, BroadcastUnlock
<1> QED
  BY <1>1, <1>2, <1>3, <1>4, <1>5 DEF WorkerStep

-----------------------------------------------------------------------------
(***************************************************************************)
(* g_rooms_mutex: whoever writes a broadcast holds it, and nobody else has *)
(* descriptors left to write to.                                           *)
(***************************************************************************)
LockInv ==
    \A w \in Workers : /\ pc[w] \in Broadcasting <=> roomsLock = w
                       /\ pc[w] \notin Broadcasting => todo[w] = <<>>

LEMMA LockInvInit == Init => LockInv
  BY CcAssumption DEF Init, LockInv, Broadcasting

LEMMA LockInvNext ==
    ASSUME TypeInv, LockInv, [Next]_vars
    PROVE  LockInv'
<1> USE CcAssumption DEF TypeInv, LockInv, Broadcasting
<1>1. ASSUME UNCHANGED <<pc, todo, roomsLock>> PROVE LockInv'
  BY <1>1
<1>2. ASSUME NEW c \in Clients, ClientStep(c) \/ Accept(c) PROVE LockInv'
  BY <1>1, <1>2 DEF ClientStep, SendRequest, SendUpgrade, SendFrame, Send, HangUp,
     ClientRead, Accept, workerVars, sendVars, roomVars
<1>3. ASSUME NEW w \in Workers, WorkerStep(w) PROVE LockInv'
  <2>1. \A v \in Workers \ {w} : pc'[v] = pc[v] /\ todo'[v] = todo[v]
    BY <1>3, OthersStay
  <2>2. CASE BroadcastLock(w)
    BY <2>1, <2>2 DEF BroadcastLock, Goto, TypeOK
  <2>3. CASE SendEnter(w)
    BY <2>1, <2>3 DEF SendEnter, Goto, TypeOK, roomVars
  <2>4. CASE SendDone(w)
    BY <2>1, <2>4 DEF SendDone, Goto, TypeOK, roomVars, sendVars
  <2>5. CASE BroadcastUnlock(w)
    BY <2>1, <2>5 DEF BroadcastUnlock, Goto, TypeOK
  <2>6. CASE /\ pc[w] \notin Broadcasting /\ pc'[w] \notin Broadcasting
             /\ UNCHANGED <<todo, roomsLock>>
    BY <2>1, <2>6
  <2> QED
    BY <1>3, <2>2, <2>3, <2>4, <2>5, <2>6, Unlocked
<1> QED
  BY <1>1, <1>2, <1>3 DEF Next, vars, workerVars, sendVars, roomVars

-----------------------------------------------------------------------------
(***************************************************************************)
(* Who owns a descriptor.  Until a number is reused between the two closes *)
(* of a handler, it stands for the client it was accepted for from accept  *)
(* to the first close, it is queued once, and one handler serves it.       *)
(***************************************************************************)
Owned ==
    /\ \A w \in Workers :
          /\ pc[w] # "idle" => owner[w] \in Clients
          /\ pc[w] \notin {"idle", "closeOuter"} => file[fd[w]] = owner[w]
          /\ pc[w] = "closeOuter" => file[fd[w]] \in {owner[w], None}
          /\ pc[w] # "idle" => \A i \in DOMAIN queue : queue[i] # fd[w]
    /\ \A v, w \in Workers :
          v # w /\ pc[v] # "idle" /\ pc[w] # "idle" => fd[v] # fd[w]
    /\ \A i \in DOMAIN queue : file[queue[i]] = queuedFor[i]
    /\ \A i, j \in DOMAIN queue : queue[i] = queue[j] => i = j

OwnInv == ~reused => Owned

LEMMA OwnInvInit == Init => OwnInv
  BY DEF Init, OwnInv, Owned

LEMMA OwnInvAccept ==
    ASSUME TypeInv, OwnInv, NEW c \in Clients, Accept(c)
    PROVE  OwnInv'
<1> SUFFICES ASSUME ~reused' PROVE Owned'
  BY DEF OwnInv
<1> DEFINE f == Min(FreeFds)
<1>1. f \in Fds /\ file[f] = None
  BY FreeNumber DEF Accept
<1>2. /\ file' = [file EXCEPT ![f] = c]
      /\ queue' = Append(queue, f)
      /\ queuedFor' = Append(queuedFor, c)
      /\ ~reused /\ ~ClosedTwice(f)
      /\ UNCHANGED <<pc, fd, owner>>
  BY DEF Accept, workerVars, handlerVars
<1> HIDE DEF f
<1>3. Owned
  BY <1>2 DEF OwnInv
<1>4. \A w \in Workers : pc[w] # "idle" => fd[w] # f
  BY <1>1, <1>2, <1>3, CcAssumption DEF Owned, ClosedTwice
<1>5. /\ queue \in Seq(Fds) /\ queuedFor \in Seq(Clients) /\ Len(queuedFor) = Len(queue)
      /\ DOMAIN queue = 1..Len(queue) /\ Len(queue) \in Nat
      /\ file \in [Fds -> Clients \cup {None}]
  BY DEF TypeInv, TypeOK
<1>6. \A i \in DOMAIN queue : queue[i] \in Fds /\ queuedFor[i] \in Clients
  BY <1>5
<1>7. \A i \in DOMAIN queue : queue[i] # f
  BY <1>1, <1>3, <1>6, CcAssumption DEF Owned
<1>8. /\ DOMAIN queue' = 1..Len(queue) + 1
      /\ queue'[Len(queue) + 1] = f /\ queuedFor'[Len(queue) + 1] = c
      /\ \A i \in 1..Len(queue) : queue'[i] = queue[i] /\ queuedFor'[i] = queuedFor[i]
      /\ \A i \in DOMAIN queue' : i = Len(queue) + 1 \/ i \in 1..Len(queue)
  BY <1>1, <1>2, <1>5
<1>9. \A w \in Workers : pc[w] # "idle" =>
          fd[w] \in Fds /\ file'[fd[w]] = file[fd[w]]
  BY <1>2, <1>4, <1>5 DEF TypeInv, TypeOK
<1>10. \A i \in DOMAIN queue' : file'[queue'[i]] = queuedFor'[i]
  BY <1>1, <1>2, <1>3, <1>5, <1>6, <1>7, <1>8 DEF Owned
<1>11. \A i, j \in DOMAIN queue' : queue'[i] = queue'[j] => i = j
  BY <1>3, <1>5, <1>7, <1>8 DEF Owned
<1>12. \A w \in Workers : pc[w] # "idle" => \A i \in DOMAIN queue' : queue'[i] # fd[w]
  BY <1>3, <1>4, <1>5, <1>8 DEF Owned
<1>13. \A w \in Workers :
          /\ pc'[w] # "idle" => owner'[w] \in Clients
          /\ pc'[w] \notin {"idle", "closeOuter"} => file'[fd'[w]] = owner'[w]
          /\ pc'[w] = "closeOuter" => file'[fd'[w]] \in {owner'[w], None}
  BY <1>2, <1>3, <1>9 DEF Owned
<1>14. \A v, w \in Workers :
           v # w /\ pc'[v] # "idle" /\ pc'[w] # "idle" => fd'[v] # fd'[w]
  BY <1>2, <1>3 DEF Owned
<1> QED
  BY <1>2, <1>10, <1>11, <1>12, <1>13, <1>14 DEF Owned

LEMMA OwnInvStart ==
    ASSUME TypeInv, OwnInv, NEW w \in Workers, StartTask(w)
    PROVE  OwnInv'
<1> SUFFICES ASSUME ~reused' PROVE Owned'
  BY DEF OwnInv
<1>1. /\ queue # <<>> /\ queue' = Tail(queue) /\ queuedFor' = Tail(queuedFor)
      /\ fd' = [fd EXCEPT ![w] = Head(queue)]
      /\ owner' = [owner EXCEPT ![w] = Head(queuedFor)]
      /\ pc' = [pc EXCEPT ![w] = "http"]
      /\ UNCHANGED file
      /\ pc[w] = "idle"
  BY DEF StartTask, Goto
<1>2. Owned
  BY DEF StartTask, OwnInv
<1>3. /\ queue \in Seq(Fds) /\ queuedFor \in Seq(Clients) /\ Len(queuedFor) = Len(queue)
      /\ DOMAIN queue = 1..Len(queue) /\ Len(queue) \in Nat \ {0}
      /\ Head(queue) = queue[1] /\ Head(queuedFor) = queuedFor[1]
      /\ queuedFor[1] \in Clients
      /\ pc \in [Workers -> Labels] /\ fd \in [Workers -> Fds \cup {None}]
      /\ owner \in [Workers -> Clients \cup {None}]
  BY <1>1 DEF TypeInv, TypeOK
<1>4. /\ DOMAIN queue' = 1..Len(queue) - 1
      /\ \A i \in DOMAIN queue' : /\ i + 1 \in DOMAIN queue
                                  /\ queue'[i] = queue[i + 1]
                                  /\ queuedFor'[i] = queuedFor[i + 1]
                                  /\ i + 1 # 1
  BY <1>1, <1>3
<1>5. 1 \in DOMAIN queue
  BY <1>3
<1>6. /\ pc'[w] = "http" /\ fd'[w] = queue[1] /\ owner'[w] = queuedFor[1]
      /\ \A v \in Workers \ {w} : pc'[v] = pc[v] /\ fd'[v] = fd[v] /\ owner'[v] = owner[v]
  BY <1>1, <1>3
<1>7. \A i \in DOMAIN queue' : queue'[i] # queue[1]
  BY <1>2, <1>4, <1>5 DEF Owned
<1>8. /\ \A i \in DOMAIN queue' : file'[queue'[i]] = queuedFor'[i]
      /\ \A i, j \in DOMAIN queue' : queue'[i] = queue'[j] => i = j
  <2>1. \A i \in DOMAIN queue' : file[queue[i + 1]] = queuedFor[i + 1]
    BY <1>2, <1>4 DEF Owned
  <2>2. \A i, j \in DOMAIN queue' : i + 1 = j + 1 => i = j
    BY <1>4
  <2>3. \A i \in DOMAIN queue' : file'[queue'[i]] = queuedFor'[i]
    BY <1>1, <1>4, <2>1
  <2>4. \A i, j \in DOMAIN queue' : queue[i + 1] = queue[j + 1] => i = j
    <3> TAKE i \in DOMAIN queue', j \in DOMAIN queue'
    <3>1. i + 1 \in DOMAIN queue /\ j + 1 \in DOMAIN queue
      BY <1>4
    <3>2. queue[i + 1] = queue[j + 1] => i + 1 = j + 1
      BY <1>2, <3>1 DEF Owned
    <3> QED
      BY <2>2, <3>2
  <2> QED
    BY <1>4, <2>3, <2>4
<1>9. \A v \in Workers : pc'[v] # "idle" => \A i \in DOMAIN queue' : queue'[i] # fd'[v]
  BY <1>2, <1>4, <1>6, <1>7 DEF Owned
<1>10. \A v \in Workers \ {w} : pc[v] # "idle" => fd[v] # queue[1]
  BY <1>2, <1>5 DEF Owned
<1>11. file[queue[1]] = queuedFor[1]
  BY <1>2, <1>5 DEF Owned
<1>12. \A u, v \in Workers :
           u # v /\ pc'[u] # "idle" /\ pc'[v] # "idle" => fd'[u] # fd'[v]
  BY <1>2, <1>6, <1>10 DEF Owned
<1>13. \A v \in Workers :
          /\ pc'[v] # "idle" => owner'[v] \in Clients
          /\ pc'[v] \notin {"idle", "closeOuter"} => file[fd'[v]] = owner'[v]
          /\ pc'[v] = "closeOuter" => file[fd'[v]] \in {owner'[v], None}
  BY <1>2, <1>3, <1>6, <1>11 DEF Owned
<1> QED
  BY <1>1, <1>8, <1>9, <1>12, <1>13 DEF Owned

LEMMA OwnInvClose ==
    ASSUME TypeInv, OwnInv, NEW w \in Workers, CloseInner(w) \/ CloseOuter(w)
    PROVE  OwnInv'
<1> SUFFICES ASSUME ~reused' PROVE Owned'
  BY DEF OwnInv
<1>1. /\ Owned
      /\ pc[w] # "idle" /\ pc'[w] \in {"closeOuter", "idle"}
      /\ pc'[w] = "closeOuter" => fd'[w] = fd[w] /\ owner'[w] = owner[w]
      /\ file' = [file EXCEPT ![fd[w]] = None]
      /\ UNCHANGED <<queue, queuedFor>>
      /\ \A v \in Workers \ {w} : pc'[v] = pc[v] /\ fd'[v] = fd[v] /\ owner'[v] = owner[v]
  BY DEF CloseInner, CloseOuter, CloseFd, Goto, acceptVars, handlerVars, OwnInv,
     TypeInv, TypeOK
<1>2. /\ fd[w] \in Fds
      /\ \A v \in Workers : pc[v] # "idle" => fd[v] \in Fds
      /\ \A i \in DOMAIN queue : queue[i] \in Fds
      /\ file \in [Fds -> Clients \cup {None}]
  BY <1>1 DEF TypeInv, TypeOK
<1>3. /\ \A v \in Workers \ {w} : pc[v] # "idle" => file'[fd[v]] = file[fd[v]]
      /\ \A i \in DOMAIN queue : file'[queue[i]] = file[queue[i]]
      /\ file'[fd[w]] = None
  BY <1>1, <1>2 DEF Owned
<1> QED
  BY <1>1, <1>3 DEF Owned

LEMMA OwnInvNext ==
    ASSUME TypeInv, OwnInv, [Next]_vars
    PROVE  OwnInv'
<1>1. ASSUME UNCHANGED <<file, queue, queuedFor, reused, pc, fd, owner>> PROVE OwnInv'
  BY <1>1 DEF OwnInv, Owned
<1>2. ASSUME NEW c \in Clients, ClientStep(c) PROVE OwnInv'
  BY <1>1, <1>2 DEF ClientStep, SendRequest, SendUpgrade, SendFrame, Send, HangUp,
     ClientRead, acceptVars, workerVars, handlerVars
<1>3. ASSUME NEW w \in Workers, WorkerStep(w) PROVE OwnInv'
  <2>1. CASE /\ pc[w] \notin {"idle", "closeInner", "closeOuter"}
             /\ pc'[w] # "idle"
             /\ UNCHANGED <<file, acceptVars, fd, owner>>
    <3>1. \A v \in Workers \ {w} : pc'[v] = pc[v]
      BY <1>3, OthersStay DEF TypeInv
    <3> QED
      BY <2>1, <3>1 DEF OwnInv, Owned, acceptVars
  <2> QED
    BY <1>3, <2>1, Serving, OwnInvStart, OwnInvClose
<1> QED
  BY <1>1, <1>2, <1>3, OwnInvAccept DEF Next, vars, acceptVars, workerVars, handlerVars

-----------------------------------------------------------------------------
(***************************************************************************)
(* Whose room a handler is in: the one that its own client asked for,      *)
(* because the connection it reads from is its client's.                   *)
(***************************************************************************)
Upgrades ==
    \A c \in Clients : \A r \in Rooms :
        input[c] = <<Message("upgrade", r)>> => r = Wants[c]

Housed ==
    \A w \in Workers : /\ pc[w] \in {"httpRead", "chatRead"} => call[w] = owner[w]
                       /\ HasRoom(w) => room[w] = Wants[owner[w]]

RoomInv == Upgrades /\ (~reused => Housed)

LEMMA RoomInvInit == Init => RoomInv
<1> SUFFICES ASSUME Init PROVE RoomInv
  OBVIOUS
<1>1. Upgrades
  BY DEF Init, Upgrades, Message
<1>2. Housed
  BY DEF Init, Housed, HasRoom, Answering, Aired
<1> QED
  BY <1>1, <1>2 DEF RoomInv

\* What a client sends; all but an upgrade names no room.
LEMMA UpgradesClient ==
    ASSUME TypeOK, Upgrades, NEW c \in Clients, ClientStep(c)
    PROVE  Upgrades'
<1>1. ASSUME UNCHANGED input PROVE Upgrades'
  BY <1>1 DEF Upgrades
<1>2. ASSUME NEW kind, NEW q, Send(c, kind, q), kind = "upgrade" => q = Wants[c]
      PROVE  Upgrades'
  <2> SUFFICES ASSUME NEW d \in Clients, NEW r \in Rooms,
                      input'[d] = <<Message("upgrade", r)>>
               PROVE  r = Wants[d]
    BY DEF Upgrades
  <2>1. input' = [input EXCEPT ![c] = <<Message(kind, q)>>]
    BY <1>2 DEF Send
  <2>2. CASE d = c
    <3>1. input'[c] = <<Message(kind, q)>>
      BY <2>1 DEF TypeOK
    <3>2. Message(kind, q) = Message("upgrade", r)
      BY <2>2, <3>1
    <3>3. kind = "upgrade" /\ q = r
      BY <3>2 DEF Message
    <3> QED
      BY <1>2, <2>2, <3>3
  <2>3. CASE d # c
    BY <2>1, <2>3 DEF Upgrades, TypeOK
  <2> QED
    BY <2>2, <2>3
<1>3. "upgrade" \notin FrameKinds
  BY DEF FrameKinds
<1> QED
  BY <1>1, <1>2, <1>3 DEF ClientStep, SendRequest, SendUpgrade, SendFrame, HangUp, ClientRead

LEMMA UpgradesWorker ==
    ASSUME TypeOK, Upgrades, NEW w \in Workers, WorkerStep(w)
    PROVE  Upgrades'
<1>1. ASSUME UNCHANGED input PROVE Upgrades'
  BY <1>1 DEF Upgrades
<1>2. ASSUME NEW in, NEW m, ReadGets(w, in, m) PROVE Upgrades'
  <2>1. \A c \in Clients : input'[c] = <<>> \/ input'[c] = input[c]
    BY <1>2 DEF ReadGets, TypeOK
  <2>2. \A r \in Rooms : <<>> # <<Message("upgrade", r)>>
    OBVIOUS
  <2> QED
    BY <2>1, <2>2 DEF Upgrades
<1>3. CASE HttpReadRequest(w) \/ HttpReadUpgrade(w) \/ HttpReadFrame(w)
  BY <1>2, <1>3 DEF HttpReadRequest, HttpReadUpgrade, HttpReadFrame
<1>4. CASE ChatReadText(w) \/ ChatReadPing(w) \/ ChatReadBye(w) \/ ChatReadRequest(w)
  BY <1>2, <1>4 DEF ChatReadText, ChatReadPing, ChatReadBye, ChatReadRequest
<1>5. CASE \/ HttpEnterRead(w) \/ HttpReadEnds(w) \/ WriteEnter(w)
           \/ ChatEnterRead(w) \/ ChatReadEnds(w)
  BY <1>1, <1>5 DEF HttpEnterRead, HttpReadEnds, WriteEnter, ChatEnterRead,
     ChatReadEnds, Enter, ReadEnds
<1>6. CASE StartTask(w) \/ WriteDone(w) \/ Join(w) \/ Leave(w)
  BY <1>1, <1>6 DEF StartTask, WriteDone, Join, Leave
<1>7. CASE BroadcastLock(w) \/ SendEnter(w) \/ SendDone(w) \/ BroadcastUnlock(w)
  BY <1>1, <1>7 DEF BroadcastLock, SendEnter, SendDone, BroadcastUnlock
<1>8. CASE CloseInner(w) \/ CloseOuter(w)
  BY <1>1, <1>8 DEF CloseInner, CloseOuter
<1> QED
  BY <1>3, <1>4, <1>5, <1>6, <1>7, <1>8 DEF WorkerStep

\* A handler comes to a room by an upgrade, and to a call by a descriptor.
LEMMA Housing ==
    ASSUME TypeInv, NEW w \in Workers, WorkerStep(w)
    PROVE  \/ HttpReadUpgrade(w)
           \/ /\ pc'[w] \in {"httpRead", "chatRead"} =>
                     /\ pc[w] \in {"http", "chat"}
                     /\ call'[w] = file[fd[w]]
              /\ HasRoom(w)' => HasRoom(w) /\ UNCHANGED <<owner, room>>
              /\ pc'[w] \in {"httpRead", "chatRead"} => UNCHANGED <<owner, room>>
<1> USE DEF TypeInv, TypeOK, Placed, HasRoom, handlerVars, Goto, Answer, Unwritten,
            Answering, Aired
<1>1. CASE HttpEnterRead(w) \/ WriteEnter(w) \/ ChatEnterRead(w)
  BY <1>1 DEF HttpEnterRead, WriteEnter, ChatEnterRead, Enter
<1>2. CASE HttpReadEnds(w) \/ ChatReadEnds(w)
  BY <1>2 DEF HttpReadEnds, ChatReadEnds, ReadEnds
<1>3. CASE HttpReadRequest(w) \/ HttpReadFrame(w)
  BY <1>3 DEF HttpReadRequest, HttpReadFrame, ReadGets
<1>4. CASE ChatReadText(w) \/ ChatReadPing(w) \/ ChatReadBye(w) \/ ChatReadRequest(w)
  BY <1>4 DEF ChatReadText, ChatReadPing, ChatReadBye, ChatReadRequest, ReadGets
<1>5. CASE StartTask(w)
  BY <1>5 DEF StartTask
<1>6. CASE WriteDone(w) \/ Join(w) \/ Leave(w)
  BY <1>6 DEF WriteDone, Join, Leave
<1>7. CASE BroadcastLock(w) \/ SendDone(w) \/ BroadcastUnlock(w)
  BY <1>7 DEF BroadcastLock, SendDone, BroadcastUnlock
<1>8. CASE SendEnter(w)
  BY <1>8 DEF SendEnter
<1>9. CASE CloseInner(w) \/ CloseOuter(w)
  BY <1>9 DEF CloseInner, CloseOuter
<1> QED
  BY <1>1, <1>2, <1>3, <1>4, <1>5, <1>6, <1>7, <1>8, <1>9 DEF WorkerStep

\* accept's history only ever becomes true, and only accept changes it.
LEMMA ReusedNext ==
    ASSUME TypeInv, [Next]_vars, ~reused'
    PROVE  ~reused
<1>1. ASSUME NEW w \in Workers, WorkerStep(w) PROVE ~reused
  <2>1. CASE StartTask(w) \/ CloseInner(w) \/ CloseOuter(w)
    BY <2>1 DEF StartTask, CloseInner, CloseOuter, acceptVars
  <2> QED
    BY <1>1, <2>1, Serving DEF acceptVars
<1>2. ASSUME NEW c \in Clients, ClientStep(c) PROVE ~reused
  BY <1>2 DEF ClientStep, SendRequest, SendUpgrade, SendFrame, Send, HangUp,
     ClientRead, acceptVars
<1>3. ASSUME NEW c \in Clients, Accept(c) PROVE ~reused
  BY <1>3 DEF Accept
<1> QED
  BY <1>1, <1>2, <1>3 DEF Next, vars, acceptVars

LEMMA RoomInvNext ==
    ASSUME TypeInv, OwnInv, RoomInv, [Next]_vars
    PROVE  RoomInv'
<1> USE DEF RoomInv
<1>1. ASSUME NEW c \in Clients, ClientStep(c) \/ Accept(c) PROVE RoomInv'
  <2>1. UNCHANGED workerVars
    BY <1>1 DEF ClientStep, SendRequest, SendUpgrade, SendFrame, Send, HangUp,
       ClientRead, Accept
  <2>2. ~reused' => Housed'
    BY <2>1, ReusedNext DEF Housed, HasRoom, workerVars, handlerVars
  <2>3. CASE Accept(c)
    BY <2>2, <2>3 DEF Upgrades, Accept
  <2> QED
    BY <1>1, <2>2, <2>3, UpgradesClient DEF TypeInv
<1>2. ASSUME NEW w \in Workers, WorkerStep(w) PROVE RoomInv'
  <2>1. Upgrades'
    BY <1>2, UpgradesWorker DEF TypeInv
  <2> SUFFICES ASSUME ~reused' PROVE Housed'
    BY <2>1
  <2>2. Housed /\ Owned
    BY ReusedNext DEF OwnInv
  <2>3. \A v \in Workers \ {w} : /\ pc'[v] = pc[v] /\ after'[v] = after[v]
                                 /\ call'[v] = call[v] /\ owner'[v] = owner[v]
                                 /\ room'[v] = room[v]
    BY <1>2, OthersStay DEF TypeInv
  <2>4. /\ pc'[w] \in {"httpRead", "chatRead"} => call'[w] = owner'[w]
        /\ HasRoom(w)' => room'[w] = Wants[owner'[w]]
    <3>1. CASE HttpReadUpgrade(w)
      <4>1. PICK r \in Rooms : /\ ReadGets(w, "httpRead", Message("upgrade", r))
                               /\ room' = [room EXCEPT ![w] = r]
                               /\ Answer(w, "join")
        BY <3>1 DEF HttpReadUpgrade
      <4>2. call[w] = owner[w] /\ call[w] \in Clients
        BY <2>2, <4>1 DEF Housed, ReadGets, TypeInv, Placed
      <4>3. r = Wants[owner[w]]
        BY <4>1, <4>2 DEF Upgrades, ReadGets
      <4> QED
        BY <4>1, <4>3 DEF ReadGets, Answer, Goto, TypeInv, TypeOK
    <3>2. CASE ~HttpReadUpgrade(w)
      <4>1. pc[w] \in {"http", "chat"} => file[fd[w]] = owner[w]
        BY <2>2 DEF Owned
      <4>2. /\ pc'[w] \in {"httpRead", "chatRead"} =>
                  /\ pc[w] \in {"http", "chat"}
                  /\ call'[w] = file[fd[w]] /\ UNCHANGED <<owner, room>>
            /\ HasRoom(w)' => HasRoom(w) /\ UNCHANGED <<owner, room>>
        BY <1>2, <3>2, Housing
      <4> QED
        BY <2>2, <4>1, <4>2 DEF Housed
    <3> QED
      BY <3>1, <3>2
  <2> QED
    BY <2>2, <2>3, <2>4 DEF Housed, HasRoom
<1> QED
  BY <1>1, <1>2 DEF Next, Upgrades, Housed, HasRoom, vars, acceptVars, workerVars,
     handlerVars

-----------------------------------------------------------------------------
(***************************************************************************)
(* What the rooms list: the descriptors of the handlers that are in them,  *)
(* once each.  A broadcast writes to descriptors that its room lists.      *)
(***************************************************************************)
Member(w) ==
    \/ pc[w] \in {"chat", "chatRead", "leave"} \cup Aired
    \/ pc[w] \in Answering /\ after[w] \in {"chat", "leave"}

Listed ==
    /\ \A r \in Rooms : \A i \in DOMAIN members[r] :
           \E w \in Workers : Member(w) /\ room[w] = r /\ members[r][i] = fd[w]
    /\ \A r \in Rooms : \A i, j \in DOMAIN members[r] :
           members[r][i] = members[r][j] => i = j
    /\ \A w \in Workers : \A i \in DOMAIN todo[w] :
           \E j \in DOMAIN members[room[w]] : todo[w][i] = members[room[w]][j]

ListInv == ~reused => Listed

LEMMA ListInvInit == Init => ListInv
  BY DEF Init, ListInv, Listed

\* Only Leave ends a membership.
LEMMA Membership ==
    ASSUME TypeInv, NEW w \in Workers, WorkerStep(w), Member(w), ~Leave(w)
    PROVE  Member(w)' /\ fd'[w] = fd[w] /\ room'[w] = room[w]
<1> USE DEF TypeInv, TypeOK, Placed, Member, handlerVars, Goto, Answer, Unwritten,
            Answering, Aired
<1>1. CASE HttpEnterRead(w) \/ WriteEnter(w) \/ ChatEnterRead(w)
  BY <1>1 DEF HttpEnterRead, WriteEnter, ChatEnterRead, Enter
<1>2. CASE HttpReadEnds(w) \/ ChatReadEnds(w)
  BY <1>2 DEF HttpReadEnds, ChatReadEnds, ReadEnds
<1>3. CASE HttpReadRequest(w) \/ HttpReadUpgrade(w) \/ HttpReadFrame(w)
  BY <1>3 DEF HttpReadRequest, HttpReadUpgrade, HttpReadFrame, ReadGets
<1>4. CASE ChatReadText(w) \/ ChatReadPing(w) \/ ChatReadBye(w) \/ ChatReadRequest(w)
  BY <1>4 DEF ChatReadText, ChatReadPing, ChatReadBye, ChatReadRequest, ReadGets
<1>5. CASE StartTask(w) \/ Join(w) \/ CloseInner(w) \/ CloseOuter(w)
  BY <1>5 DEF StartTask, Join, CloseInner, CloseOuter
<1>6. CASE WriteDone(w)
  BY <1>6 DEF WriteDone
<1>7. CASE BroadcastLock(w) \/ SendDone(w) \/ BroadcastUnlock(w)
  BY <1>7 DEF BroadcastLock, SendDone, BroadcastUnlock
<1>8. CASE SendEnter(w)
  BY <1>8 DEF SendEnter
<1> QED
  BY <1>1, <1>2, <1>3, <1>4, <1>5, <1>6, <1>7, <1>8 DEF WorkerStep

LEMMA MembersKept ==
    ASSUME TypeOK, NEW w \in Workers, WorkerStep(w)
    PROVE  Join(w) \/ Leave(w) \/ UNCHANGED members
<1> USE DEF roomVars
<1>1. CASE \/ HttpEnterRead(w) \/ HttpReadEnds(w) \/ WriteEnter(w)
           \/ ChatEnterRead(w) \/ ChatReadEnds(w)
  BY <1>1 DEF HttpEnterRead, HttpReadEnds, WriteEnter, ChatEnterRead,
     ChatReadEnds, Enter, ReadEnds
<1>2. CASE HttpReadRequest(w) \/ HttpReadUpgrade(w) \/ HttpReadFrame(w)
  BY <1>2 DEF HttpReadRequest, HttpReadUpgrade, HttpReadFrame, ReadGets
<1>3. CASE ChatReadText(w) \/ ChatReadPing(w) \/ ChatReadBye(w) \/ ChatReadRequest(w)
  BY <1>3 DEF ChatReadText, ChatReadPing, ChatReadBye, ChatReadRequest, ReadGets
<1>4. CASE StartTask(w) \/ WriteDone(w) \/ CloseInner(w) \/ CloseOuter(w)
  BY <1>4 DEF StartTask, WriteDone, CloseInner, CloseOuter
<1>5. CASE BroadcastLock(w) \/ SendEnter(w) \/ SendDone(w) \/ BroadcastUnlock(w)
  BY <1>5 DEF BroadcastLock, SendEnter, SendDone, BroadcastUnlock
<1> QED
  BY <1>1, <1>2, <1>3, <1>4, <1>5 DEF WorkerStep

\* Nobody but a handler itself puts its descriptor in a room.
LEMMA OneListing ==
    ASSUME TypeInv, Owned, Listed, NEW w \in Workers, pc[w] # "idle",
           NEW r \in Rooms, NEW i \in DOMAIN members[r], members[r][i] = fd[w]
    PROVE  Member(w) /\ room[w] = r
<1>1. PICK v \in Workers : Member(v) /\ room[v] = r /\ members[r][i] = fd[v]
  BY DEF Listed
<1>2. pc[v] # "idle"
  BY <1>1 DEF Member, Answering, Aired
<1>3. v = w
  BY <1>1, <1>2 DEF Owned
<1> QED
  BY <1>1, <1>3

LEMMA ListInvJoin ==
    ASSUME TypeInv, Owned, LockInv, Listed, NEW w \in Workers, Join(w)
    PROVE  Listed'
<1> DEFINE r == room[w]
<1>1. /\ r \in Rooms /\ fd[w] \in Fds
      /\ pc[w] = "join" /\ pc' = [pc EXCEPT ![w] = "chat"]
      /\ members' = [members EXCEPT ![r] = Append(@, fd[w])]
      /\ \A v \in Workers : todo[v] = <<>>
      /\ UNCHANGED <<fd, room, after, todo>>
  BY CcAssumption DEF Join, Goto, handlerVars, sendVars, LockInv, TypeInv, TypeOK,
     Placed, HasRoom, Aired
<1>2. /\ members \in [Rooms -> Seq(Fds)] /\ members[r] \in Seq(Fds)
      /\ pc \in [Workers -> Labels]
  BY <1>1 DEF TypeInv, TypeOK
<1> HIDE DEF r
<1> DEFINE n == Len(members[r])
<1>3. /\ n \in Nat /\ DOMAIN members[r] = 1..n /\ DOMAIN members'[r] = 1..n + 1
      /\ members'[r][n + 1] = fd[w]
      /\ \A i \in 1..n : members'[r][i] = members[r][i]
      /\ \A i \in 1..n + 1 : i = n + 1 \/ i \in 1..n
      /\ \A q \in Rooms \ {r} : members'[q] = members[q]
  BY <1>1, <1>2
<1> HIDE DEF n
<1>4. \A i \in DOMAIN members[r] : members[r][i] # fd[w]
  BY <1>1, OneListing DEF Member, Answering, Aired
<1>5. Member(w)' /\ room'[w] = r
  BY <1>1, <1>2 DEF Member, r
<1>6. \A v \in Workers : Member(v) => Member(v)'
  BY <1>1, <1>2 DEF Member, Answering, Aired
<1>7. \A q \in Rooms : \A i \in DOMAIN members'[q] :
          \E v \in Workers : Member(v)' /\ room'[v] = q /\ members'[q][i] = fd'[v]
  <2> SUFFICES ASSUME NEW q \in Rooms, NEW i \in DOMAIN members'[q]
               PROVE  \E v \in Workers : Member(v)' /\ room'[v] = q /\ members'[q][i] = fd'[v]
    OBVIOUS
  <2>1. CASE q = r /\ i = n + 1
    BY <1>1, <1>3, <1>5, <2>1
  <2>2. CASE ~(q = r /\ i = n + 1)
    <3>1. i \in DOMAIN members[q] /\ members'[q][i] = members[q][i]
      BY <1>3, <2>2
    <3>2. PICK v \in Workers : Member(v) /\ room[v] = q /\ members[q][i] = fd[v]
      BY <3>1 DEF Listed
    <3>3. room'[v] = q /\ members'[q][i] = fd'[v]
      BY <1>1, <3>1, <3>2
    <3> QED
      BY <1>6, <3>2, <3>3
  <2> QED
    BY <2>1, <2>2
<1>8. \A q \in Rooms : \A i, j \in DOMAIN members'[q] :
          members'[q][i] = members'[q][j] => i = j
  <2>1. \A i, j \in DOMAIN members'[r] : members'[r][i] = members'[r][j] => i = j
    BY <1>1, <1>3, <1>4 DEF Listed
  <2> QED
    BY <1>3, <2>1 DEF Listed
<1> QED
  BY <1>1, <1>7, <1>8 DEF Listed

LEMMA ListInvLeave ==
    ASSUME TypeInv, Owned, LockInv, Listed, NEW w \in Workers, Leave(w)
    PROVE  Listed'
<1> DEFINE r == room[w]
           left == Without(members[r], fd[w])
<1>1. /\ r \in Rooms /\ fd[w] \in Fds
      /\ pc[w] = "leave" /\ pc' = [pc EXCEPT ![w] = "closeInner"]
      /\ members' = [members EXCEPT ![r] = left]
      /\ \A v \in Workers : todo[v] = <<>>
      /\ UNCHANGED <<fd, room, after, todo>>
  BY CcAssumption DEF Leave, Goto, handlerVars, sendVars, LockInv, TypeInv, TypeOK,
     Placed, HasRoom, Aired
<1>2. /\ members \in [Rooms -> Seq(Fds)] /\ members[r] \in Seq(Fds)
      /\ pc \in [Workers -> Labels]
  BY <1>1 DEF TypeInv, TypeOK
<1>3. /\ \A k \in DOMAIN left : \E i \in DOMAIN members[r] :
             left[k] = members[r][i] /\ members[r][i] # fd[w]
      /\ \A i, j \in DOMAIN left : left[i] = left[j] => i = j
  <2> DEFINE places == {i \in DOMAIN members[r] : members[r][i] # fd[w]}
  <2>1. left = Pick(members[r], places)
    BY DEF Without
  <2>2. \A i, j \in DOMAIN members[r] : members[r][i] = members[r][j] => i = j
    BY <1>1 DEF Listed
  <2> HIDE DEF left, r, places
  <2>3. /\ \A k \in DOMAIN left : \E i \in DOMAIN members[r] \cap places :
               left[k] = members[r][i]
        /\ \A i, j \in DOMAIN left : left[i] = left[j] => i = j
    BY <1>2, <2>1, <2>2, PickFromList
  <2> QED
    BY <2>3 DEF places
<1> HIDE DEF left, r
<1>4. members'[r] = left /\ \A q \in Rooms \ {r} : members'[q] = members[q]
  BY <1>1, <1>2
<1>5. \A v \in Workers \ {w} : Member(v) => Member(v)'
  BY <1>1, <1>2 DEF Member, Answering, Aired
<1>6. \A q \in Rooms : \A i \in DOMAIN members'[q] :
          \E j \in DOMAIN members[q] : members'[q][i] = members[q][j] /\ members[q][j] # fd[w]
  <2>1. \A q \in Rooms : \A i \in DOMAIN members[q] :
            members[q][i] = fd[w] => q = r
    BY <1>1, OneListing DEF r
  <2> QED
    BY <1>3, <1>4, <2>1
<1>7. \A q \in Rooms : \A i \in DOMAIN members'[q] :
          \E v \in Workers : Member(v)' /\ room'[v] = q /\ members'[q][i] = fd'[v]
  <2> SUFFICES ASSUME NEW q \in Rooms, NEW i \in DOMAIN members'[q]
               PROVE  \E v \in Workers : Member(v)' /\ room'[v] = q /\ members'[q][i] = fd'[v]
    OBVIOUS
  <2>1. PICK j \in DOMAIN members[q] : members'[q][i] = members[q][j] /\ members[q][j] # fd[w]
    BY <1>6
  <2>2. PICK v \in Workers : Member(v) /\ room[v] = q /\ members[q][j] = fd[v]
    BY DEF Listed
  <2>3. v # w /\ room'[v] = q /\ members'[q][i] = fd'[v]
    BY <1>1, <2>1, <2>2
  <2> QED
    BY <1>5, <2>2, <2>3
<1>8. \A q \in Rooms : \A i, j \in DOMAIN members'[q] :
          members'[q][i] = members'[q][j] => i = j
  BY <1>3, <1>4 DEF Listed
<1> QED
  BY <1>1, <1>7, <1>8 DEF Listed

LEMMA ListInvNext ==
    ASSUME TypeInv, OwnInv, LockInv, ListInv, [Next]_vars
    PROVE  ListInv'
<1> SUFFICES ASSUME ~reused' PROVE Listed'
  BY DEF ListInv
<1>1. Listed /\ Owned
  BY ReusedNext DEF ListInv, OwnInv
<1>2. ASSUME UNCHANGED <<workerVars, roomVars>> PROVE Listed'
  BY <1>1, <1>2 DEF Listed, Member, workerVars, handlerVars, sendVars, roomVars
<1>3. ASSUME NEW c \in Clients, ClientStep(c) \/ Accept(c) PROVE Listed'
  BY <1>2, <1>3 DEF ClientStep, SendRequest, SendUpgrade, SendFrame, Send, HangUp,
     ClientRead, Accept
<1>4. ASSUME NEW w \in Workers, WorkerStep(w), ~Join(w), ~Leave(w) PROVE Listed'
  <2>1. UNCHANGED members
    BY <1>4, MembersKept DEF TypeInv
  <2>2. \A v \in Workers : Member(v) => Member(v)' /\ fd'[v] = fd[v] /\ room'[v] = room[v]
    <3>1. \A v \in Workers \ {w} : pc'[v] = pc[v] /\ after'[v] = after[v]
                                   /\ fd'[v] = fd[v] /\ room'[v] = room[v]
      BY <1>4, OthersStay DEF TypeInv
    <3> QED
      BY <1>4, <3>1, Membership DEF Member
  <2>3. \A r \in Rooms : \A i \in DOMAIN members[r] :
            \E v \in Workers : Member(v)' /\ room'[v] = r /\ members[r][i] = fd'[v]
    <3> TAKE r \in Rooms
    <3> TAKE i \in DOMAIN members[r]
    <3>1. PICK v \in Workers : Member(v) /\ room[v] = r /\ members[r][i] = fd[v]
      BY <1>1 DEF Listed
    <3> QED
      BY <2>2, <3>1
  <2>4. \A v \in Workers : \A i \in DOMAIN todo'[v] :
            \E j \in DOMAIN members[room'[v]] : todo'[v][i] = members[room'[v]][j]
    <3> SUFFICES ASSUME NEW v \in Workers, NEW i \in DOMAIN todo'[v]
                 PROVE  \E j \in DOMAIN members[room'[v]] : todo'[v][i] = members[room'[v]][j]
      OBVIOUS
    <3>1. CASE v # w
      BY <1>1, <1>4, <3>1, OthersStay DEF Listed, TypeInv
    <3>2. CASE v = w /\ BroadcastLock(w)
      <4>1. todo'[w] = members[room[w]] /\ room' = room
        BY <3>2 DEF BroadcastLock, handlerVars, TypeInv, TypeOK
      <4> QED
        BY <3>2, <4>1
    <3>3. CASE v = w /\ SendEnter(w)
      <4>1. todo'[w] = Tail(todo[w]) /\ room' = room /\ todo[w] \in Seq(Fds)
            /\ todo[w] # <<>>
        BY <3>3 DEF SendEnter, handlerVars, TypeInv, TypeOK
      <4>2. i + 1 \in DOMAIN todo[w] /\ todo'[w][i] = todo[w][i + 1]
        BY <3>3, <4>1
      <4>3. PICK j \in DOMAIN members[room[w]] : todo[w][i + 1] = members[room[w]][j]
        BY <1>1, <4>2 DEF Listed
      <4> QED
        BY <3>3, <4>1, <4>2, <4>3
    <3>4. CASE v = w /\ (SendDone(w) \/ BroadcastUnlock(w))
      <4>1. todo' = todo /\ room' = room
        BY <3>4 DEF SendDone, BroadcastUnlock, handlerVars, sendVars
      <4> QED
        BY <1>1, <4>1 DEF Listed
    <3>5. CASE v = w /\ pc[w] \notin Broadcasting /\ UNCHANGED todo
      <4>1. todo'[w] = <<>>
        BY <3>5 DEF LockInv
      <4> QED
        BY <3>5, <4>1
    <3> QED
      BY <1>4, <3>1, <3>2, <3>3, <3>4, <3>5, Unlocked DEF TypeInv
  <2> QED
    BY <1>1, <2>1, <2>3, <2>4 DEF Listed
<1> QED
  BY <1>1, <1>2, <1>3, <1>4, ListInvJoin, ListInvLeave DEF Next, vars

-----------------------------------------------------------------------------
(***************************************************************************)
(* What is delivered.  A broadcast is on a connection of its own room, and *)
(* only broadcasts deliver texts.                                          *)
(***************************************************************************)
InRoom == \A w \in Workers : pc[w] = "sending" => Wants[call[w]] = room[w]

SendInv == ~reused => InRoom /\ BroadcastStaysInRoom

LEMMA SendInvInit == Init => SendInv
  BY DEF Init, SendInv, InRoom, BroadcastStaysInRoom

LEMMA Deliveries ==
    ASSUME TypeInv, NEW w \in Workers, WorkerStep(w)
    PROVE  SendDone(w) \/ UNCHANGED got
<1> USE DEF outVars
<1>1. CASE \/ HttpEnterRead(w) \/ HttpReadEnds(w) \/ WriteEnter(w)
           \/ ChatEnterRead(w) \/ ChatReadEnds(w)
  BY <1>1 DEF HttpEnterRead, HttpReadEnds, WriteEnter, ChatEnterRead,
     ChatReadEnds, Enter, ReadEnds
<1>2. CASE HttpReadRequest(w) \/ HttpReadUpgrade(w) \/ HttpReadFrame(w)
  BY <1>2 DEF HttpReadRequest, HttpReadUpgrade, HttpReadFrame, ReadGets
<1>3. CASE ChatReadText(w) \/ ChatReadPing(w) \/ ChatReadBye(w) \/ ChatReadRequest(w)
  BY <1>3 DEF ChatReadText, ChatReadPing, ChatReadBye, ChatReadRequest, ReadGets
<1>4. CASE StartTask(w) \/ Join(w) \/ Leave(w) \/ CloseInner(w) \/ CloseOuter(w)
  BY <1>4 DEF StartTask, Join, Leave, CloseInner, CloseOuter
<1>5. CASE BroadcastLock(w) \/ SendEnter(w) \/ BroadcastUnlock(w)
  BY <1>5 DEF BroadcastLock, SendEnter, BroadcastUnlock
<1>6. CASE WriteDone(w)
  <2>1. call[w] \in Clients /\ got \in [Clients -> Seq(Frames)]
    BY <1>6 DEF WriteDone, TypeInv, TypeOK, Placed
  <2>2. got[call[w]] \o <<>> = got[call[w]]
    BY <2>1
  <2>3. [got EXCEPT ![call[w]] = got[call[w]]] = got
    BY <2>1
  <2> QED
    BY <1>6, <2>2, <2>3 DEF WriteDone, Written
<1> QED
  BY <1>1, <1>2, <1>3, <1>4, <1>5, <1>6 DEF WorkerStep

\* A delivery adds the frame of the broadcast to what one client got.
LEMMA Delivered ==
    ASSUME TypeInv, NEW w \in Workers, SendDone(w)
    PROVE  /\ call[w] \in Clients
           /\ \A c \in Clients : c # call[w] => got'[c] = got[c]
           /\ \/ got'[call[w]] = got[call[w]]
              \/ got'[call[w]] = Append(got[call[w]], frame[w])
<1>1. pc[w] = "sending" /\ Written(w, <<frame[w]>>)
  BY DEF SendDone
<1>2. call[w] \in Clients /\ got \in [Clients -> Seq(Frames)] /\ frame[w] \in Frames
  BY <1>1 DEF TypeInv, TypeOK, Placed, Aired
<1>3. got[call[w]] \o <<frame[w]>> = Append(got[call[w]], frame[w])
  BY <1>2
<1> QED
  BY <1>1, <1>2, <1>3 DEF Written, outVars

LEMMA SendInvSend ==
    ASSUME TypeInv, Owned, LockInv, Housed, Listed, InRoom,
           NEW w \in Workers, SendEnter(w)
    PROVE  InRoom'
<1> DEFINE f == Head(todo[w])
<1>1. /\ pc[w] = "send" /\ todo[w] # <<>> /\ todo[w] \in Seq(Fds)
      /\ call' = [call EXCEPT ![w] = file[f]]
      /\ UNCHANGED room
      /\ room[w] \in Rooms
  BY DEF SendEnter, handlerVars, TypeInv, TypeOK, Placed, HasRoom, Aired
<1>2. 1 \in DOMAIN todo[w] /\ f = todo[w][1]
  BY <1>1
<1> HIDE DEF f
<1>3. PICK j \in DOMAIN members[room[w]] : f = members[room[w]][j]
  BY <1>2 DEF Listed
<1>4. PICK v \in Workers : Member(v) /\ room[v] = room[w] /\ f = fd[v]
  BY <1>1, <1>3 DEF Listed
<1>5. HasRoom(v) /\ pc[v] \notin {"idle", "closeOuter"}
  BY <1>4 DEF Member, HasRoom, Answering, Aired
<1>6. Wants[file[f]] = room[w]
  BY <1>4, <1>5 DEF Owned, Housed
<1>7. \A u \in Workers \ {w} : pc'[u] = pc[u] /\ call'[u] = call[u]
  BY OthersStay DEF TypeInv, WorkerStep
<1>8. call'[w] = file[f]
  BY <1>1 DEF TypeInv, TypeOK
<1> QED
  BY <1>1, <1>6, <1>7, <1>8 DEF InRoom

LEMMA SendInvNext ==
    ASSUME TypeInv, OwnInv, LockInv, RoomInv, ListInv, SendInv, [Next]_vars
    PROVE  SendInv'
<1> SUFFICES ASSUME ~reused' PROVE InRoom' /\ BroadcastStaysInRoom'
  BY DEF SendInv
<1>1. Owned /\ Housed /\ Listed /\ InRoom /\ BroadcastStaysInRoom
  BY ReusedNext DEF OwnInv, RoomInv, ListInv, SendInv
<1>2. ASSUME NEW c \in Clients, ClientStep(c) \/ Accept(c)
      PROVE  InRoom' /\ BroadcastStaysInRoom'
  <2>1. UNCHANGED <<workerVars, got>>
    BY <1>2 DEF ClientStep, SendRequest, SendUpgrade, SendFrame, Send, HangUp,
       ClientRead, Accept, outVars
  <2> QED
    BY <1>1, <2>1 DEF InRoom, BroadcastStaysInRoom, workerVars, handlerVars
<1>3. ASSUME NEW w \in Workers, WorkerStep(w) PROVE InRoom'
  <2>1. \A v \in Workers \ {w} : pc'[v] = pc[v] /\ call'[v] = call[v] /\ room'[v] = room[v]
    BY <1>3, OthersStay DEF TypeInv
  <2>2. CASE BroadcastLock(w) \/ SendDone(w) \/ BroadcastUnlock(w)
    <3>1. pc'[w] # "sending"
      BY <2>2 DEF BroadcastLock, SendDone, BroadcastUnlock, Goto, TypeInv, TypeOK
    <3> QED
      BY <1>1, <2>1, <3>1 DEF InRoom
  <2>3. CASE pc'[w] \notin Broadcasting
    BY <1>1, <2>1, <2>3 DEF InRoom, Broadcasting
  <2> QED
    BY <1>1, <1>3, <2>2, <2>3, Unlocked, SendInvSend DEF TypeInv
<1>4. ASSUME NEW w \in Workers, WorkerStep(w) PROVE BroadcastStaysInRoom'
  <2>1. CASE SendDone(w)
    <3>1. frame[w].room = Wants[call[w]]
      BY <1>1, <2>1 DEF InRoom, SendDone, TypeInv, Placed, Aired
    <3>2. got[call[w]] \in Seq(Frames)
      BY <2>1, Delivered DEF TypeInv, TypeOK
    <3>3. \A i \in DOMAIN Append(got[call[w]], frame[w]) :
              \/ i \in DOMAIN got[call[w]]
                 /\ Append(got[call[w]], frame[w])[i] = got[call[w]][i]
              \/ Append(got[call[w]], frame[w])[i] = frame[w]
      BY <3>2
    <3> SUFFICES ASSUME NEW c \in Clients, NEW i \in DOMAIN got'[c]
                 PROVE  got'[c][i].room = Wants[c]
      BY DEF BroadcastStaysInRoom
    <3>4. CASE got'[c] = got[c]
      BY <1>1, <3>4 DEF BroadcastStaysInRoom
    <3>5. CASE c = call[w] /\ got'[c] = Append(got[c], frame[w])
      BY <1>1, <3>1, <3>3, <3>5 DEF BroadcastStaysInRoom
    <3> QED
      BY <2>1, <3>4, <3>5, Delivered
  <2>2. CASE UNCHANGED got
    BY <1>1, <2>2 DEF BroadcastStaysInRoom
  <2> QED
    BY <1>4, <2>1, <2>2, Deliveries
<1> QED
  BY <1>1, <1>2, <1>3, <1>4 DEF Next, vars, InRoom, BroadcastStaysInRoom,
     workerVars, handlerVars, outVars

RoomsInv == TypeInv /\ LockInv /\ OwnInv /\ RoomInv /\ ListInv /\ SendInv

LEMMA RoomsInvariant == Spec => []RoomsInv
<1>1. Init => RoomsInv
  BY TypeInvInit, LockInvInit, OwnInvInit, RoomInvInit, ListInvInit, SendInvInit
     DEF RoomsInv
<1>2. RoomsInv /\ [Next]_vars => RoomsInv'
  BY TypeInvNext, LockInvNext, OwnInvNext, RoomInvNext, ListInvNext, SendInvNext
     DEF RoomsInv
<1> QED
  BY <1>1, <1>2, PTL DEF Spec

\* A descriptor that g_websocket_rooms lists, or that a broadcast has still to
\* write to, stands for an open connection of a client of that room, once, as
\* long as accept has not reused a number between the two closes of a handler.
THEOREM ListIsOpen == Spec => []ListedIsOpen
<1>1. RoomsInv => ListedIsOpen
  <2> SUFFICES ASSUME RoomsInv, ~reused PROVE ListedIsOpen
    BY DEF ListedIsOpen
  <2>1. Owned /\ Housed /\ Listed
    BY DEF RoomsInv, OwnInv, RoomInv, ListInv
  <2>2. ASSUME NEW r \in Rooms, NEW i \in DOMAIN members[r]
        PROVE  file[members[r][i]] # None /\ Wants[file[members[r][i]]] = r
    <3>1. PICK w \in Workers : Member(w) /\ room[w] = r /\ members[r][i] = fd[w]
      BY <2>1 DEF Listed
    <3>2. HasRoom(w) /\ pc[w] \notin {"idle", "closeOuter"}
      BY <3>1 DEF Member, HasRoom, Answering, Aired
    <3>3. file[fd[w]] = owner[w] /\ owner[w] \in Clients /\ room[w] = Wants[owner[w]]
      BY <2>1, <3>2 DEF Owned, Housed
    <3> QED
      BY <3>1, <3>3, CcAssumption
  <2>3. \A r \in Rooms : \A i, j \in DOMAIN members[r] :
            members[r][i] = members[r][j] => i = j
    BY <2>1 DEF Listed
  <2>4. ASSUME NEW w \in Workers, NEW i \in DOMAIN todo[w] PROVE file[todo[w][i]] # None
    <3>1. PICK j \in DOMAIN members[room[w]] : todo[w][i] = members[room[w]][j]
      BY <2>1 DEF Listed
    <3>2. CASE pc[w] \in Broadcasting
      <4>1. room[w] \in Rooms
        BY <3>2 DEF RoomsInv, TypeInv, Placed, HasRoom, Broadcasting, Aired
      <4> QED
        BY <2>2, <3>1, <4>1
    <3>3. CASE pc[w] \notin Broadcasting
      BY <3>3 DEF RoomsInv, LockInv
    <3> QED
      BY <3>2, <3>3
  <2> QED
    BY <2>2, <2>3, <2>4 DEF ListedIsOpen
<1> QED
  BY <1>1, RoomsInvariant, PTL

\* A text reaches only clients of the room it was sent in, whatever joins,
\* leaves, closes and broadcasts there are at the same time: main.cc:737-738
\* is true of every behaviour in which accept never reuses a number between the
\* two closes of a handler.
THEOREM RoomsKeepTexts == Spec => []StraysOnlyAfterReuse
<1>1. RoomsInv => StraysOnlyAfterReuse
  BY DEF RoomsInv, SendInv, StraysOnlyAfterReuse
<1> QED
  BY <1>1, RoomsInvariant, PTL

-----------------------------------------------------------------------------
(***************************************************************************)
(* The order of the broadcasts.  A text is read once, so no two are the    *)
(* same.  The broadcasts form a log, in the order in which they take       *)
(* g_rooms_mutex: the one under way is the last, and every client is       *)
(* delivered its texts in the order of the log.                            *)
(***************************************************************************)
PastTexts == {t \in Clients \X Nat :
                 /\ t[2] <= sent[t[1]]
                 /\ input[t[1]] # <<>> => t[2] < sent[t[1]]}

FreshInv ==
    /\ \A w \in Workers : pc[w] \in Aired => Text(frame[w]) \in PastTexts
    /\ \A v, w \in Workers : v # w /\ pc[v] \in Aired /\ pc[w] \in Aired
                              => Text(frame[v]) # Text(frame[w])

Log(log) ==
    /\ log \in Seq(PastTexts)
    /\ \A k, l \in DOMAIN log : log[k] = log[l] => k = l
    /\ \A c \in Clients : \A i \in DOMAIN got[c] :
           \E k \in DOMAIN log : log[k] = Text(got[c][i])
    /\ \A c \in Clients : \A i, j \in DOMAIN got[c] : \A k, l \in DOMAIN log :
           i < j /\ log[k] = Text(got[c][i]) /\ log[l] = Text(got[c][j]) => k <= l
    /\ \A w \in Workers : pc[w] \in Broadcasting =>
           Len(log) \in DOMAIN log /\ log[Len(log)] = Text(frame[w])
    /\ \A w \in Workers : pc[w] = "broadcast" =>
           \A k \in DOMAIN log : log[k] # Text(frame[w])

OrderInv == FreshInv /\ \E log : Log(log)

LEMMA OrderInvInit == Init => OrderInv
<1> SUFFICES ASSUME Init PROVE OrderInv
  OBVIOUS
<1>1. FreshInv
  BY DEF Init, FreshInv, Aired
<1>2. Log(<<>>)
  BY DEF Init, Log, Broadcasting
<1> QED
  BY <1>1, <1>2 DEF OrderInv

\* What has been read stays read.
LEMMA Inputs ==
    ASSUME TypeOK, NEW w \in Workers, WorkerStep(w)
    PROVE  UNCHANGED sent /\ \A c \in Clients : input'[c] \in {input[c], <<>>}
<1> USE DEF clientVars, TypeOK
<1>1. CASE \/ HttpEnterRead(w) \/ HttpReadEnds(w) \/ WriteEnter(w)
           \/ ChatEnterRead(w) \/ ChatReadEnds(w)
  BY <1>1 DEF HttpEnterRead, HttpReadEnds, WriteEnter, ChatEnterRead,
     ChatReadEnds, Enter, ReadEnds
<1>2. CASE HttpReadRequest(w) \/ HttpReadUpgrade(w) \/ HttpReadFrame(w)
  BY <1>2 DEF HttpReadRequest, HttpReadUpgrade, HttpReadFrame, ReadGets
<1>3. CASE ChatReadText(w) \/ ChatReadPing(w) \/ ChatReadBye(w) \/ ChatReadRequest(w)
  BY <1>3 DEF ChatReadText, ChatReadPing, ChatReadBye, ChatReadRequest, ReadGets
<1>4. CASE \/ StartTask(w) \/ WriteDone(w) \/ Join(w) \/ Leave(w)
           \/ CloseInner(w) \/ CloseOuter(w)
  BY <1>4 DEF StartTask, WriteDone, Join, Leave, CloseInner, CloseOuter
<1>5. CASE BroadcastLock(w) \/ SendEnter(w) \/ SendDone(w) \/ BroadcastUnlock(w)
  BY <1>5 DEF BroadcastLock, SendEnter, SendDone, BroadcastUnlock
<1> QED
  BY <1>1, <1>2, <1>3, <1>4, <1>5 DEF WorkerStep

LEMMA PastGrows ==
    ASSUME TypeOK, [Next]_vars
    PROVE  PastTexts \subseteq PastTexts'
<1> SUFFICES ASSUME NEW t \in PastTexts PROVE t \in PastTexts'
  OBVIOUS
<1> DEFINE a == t[1]
<1>1. /\ t \in Clients \X Nat /\ a \in Clients /\ t[2] \in Nat
      /\ t[2] <= sent[a] /\ (input[a] # <<>> => t[2] < sent[a])
  BY DEF PastTexts
<1> HIDE DEF a
<1>2. SUFFICES t[2] <= sent'[a] /\ (input'[a] # <<>> => t[2] < sent'[a])
  BY <1>1 DEF PastTexts, a
<1>3. ASSUME NEW c \in Clients, NEW kind, NEW r, Send(c, kind, r)
      PROVE  t[2] <= sent'[a] /\ (input'[a] # <<>> => t[2] < sent'[a])
  <2>1. /\ sent \in [Clients -> 0..MaxSent] /\ input[c] = <<>>
        /\ sent' = [sent EXCEPT ![c] = @ + 1]
        /\ \A d \in Clients \ {c} : input'[d] = input[d]
    BY <1>3 DEF Send, TypeOK
  <2>2. CASE a = c
    <3>1. sent'[a] = sent[a] + 1 /\ sent[a] \in Nat
      BY <1>1, <2>1, <2>2, CcAssumption
    <3> QED
      BY <1>1, <3>1
  <2>3. CASE a # c
    BY <1>1, <2>1, <2>3
  <2> QED
    BY <2>2, <2>3
<1>4. ASSUME NEW c \in Clients, ClientStep(c)
      PROVE  t[2] <= sent'[a] /\ (input'[a] # <<>> => t[2] < sent'[a])
  <2>1. CASE HangUp(c) \/ ClientRead(c)
    BY <1>1, <2>1 DEF HangUp, ClientRead, clientVars
  <2> QED
    BY <1>3, <1>4, <2>1 DEF ClientStep, SendRequest, SendUpgrade, SendFrame
<1>5. ASSUME NEW c \in Clients, Accept(c)
      PROVE  t[2] <= sent'[a] /\ (input'[a] # <<>> => t[2] < sent'[a])
  BY <1>1, <1>5 DEF Accept
<1>6. ASSUME NEW w \in Workers, WorkerStep(w)
      PROVE  t[2] <= sent'[a] /\ (input'[a] # <<>> => t[2] < sent'[a])
  BY <1>1, <1>6, Inputs
<1>7. CASE UNCHANGED vars
  BY <1>1, <1>7 DEF vars, clientVars
<1> QED
  BY <1>4, <1>5, <1>6, <1>7 DEF Next

\* A worker comes to a broadcast by a text that it has read.
LEMMA Airing ==
    ASSUME TypeInv, NEW w \in Workers, WorkerStep(w), pc'[w] = "broadcast"
    PROVE  ChatReadText(w)
<1> USE DEF TypeInv, TypeOK, Placed, Goto, Answer, Unwritten
<1>1. CASE HttpEnterRead(w) \/ WriteEnter(w) \/ ChatEnterRead(w)
  BY <1>1 DEF HttpEnterRead, WriteEnter, ChatEnterRead, Enter
<1>2. CASE HttpReadEnds(w) \/ ChatReadEnds(w)
  BY <1>2 DEF HttpReadEnds, ChatReadEnds, ReadEnds
<1>3. CASE HttpReadRequest(w) \/ HttpReadUpgrade(w) \/ HttpReadFrame(w)
  BY <1>3 DEF HttpReadRequest, HttpReadUpgrade, HttpReadFrame
<1>4. CASE ChatReadPing(w) \/ ChatReadBye(w) \/ ChatReadRequest(w)
  BY <1>4 DEF ChatReadPing, ChatReadBye, ChatReadRequest
<1>5. CASE StartTask(w) \/ Join(w) \/ Leave(w) \/ CloseInner(w) \/ CloseOuter(w)
  BY <1>5 DEF StartTask, Join, Leave, CloseInner, CloseOuter
<1>6. CASE WriteDone(w)
  BY <1>6 DEF WriteDone
<1>7. CASE BroadcastLock(w) \/ SendDone(w) \/ BroadcastUnlock(w)
  BY <1>7 DEF BroadcastLock, SendDone, BroadcastUnlock
<1>8. CASE SendEnter(w)
  BY <1>8 DEF SendEnter
<1> QED
  BY <1>1, <1>2, <1>3, <1>4, <1>5, <1>6, <1>7, <1>8 DEF WorkerStep

\* The text that is read is new, and from then on it is past.
LEMMA TextIsNew ==
    ASSUME TypeInv, NEW w \in Workers, ChatReadText(w)
    PROVE  /\ Text(frame'[w]) \notin PastTexts
           /\ Text(frame'[w]) \in PastTexts'
<1> DEFINE c == call[w]
<1>1. /\ ReadGets(w, "chatRead", Message("text", None))
      /\ frame' = [frame EXCEPT ![w] = [from |-> c, n |-> sent[c], room |-> room[w]]]
      /\ pc[w] = "chatRead"
  BY DEF ChatReadText, ReadGets
<1>2. c \in Clients /\ sent[c] \in Nat
  BY <1>1, CcAssumption DEF TypeInv, TypeOK, Placed
<1>3. Text(frame'[w]) = <<c, sent[c]>>
  BY <1>1 DEF Text, TypeInv, TypeOK
<1>4. input[c] # <<>> /\ input'[c] = <<>> /\ sent' = sent
  <2>1. input[c] = <<Message("text", None)>> /\ input' = [input EXCEPT ![c] = <<>>]
    BY <1>1 DEF ReadGets
  <2> QED
    BY <1>1, <1>2, <2>1 DEF ReadGets, clientVars, TypeInv, TypeOK
<1> HIDE DEF c
<1>5. <<c, sent[c]>> \in Clients \X Nat
  BY <1>2
<1> QED
  BY <1>2, <1>3, <1>4, <1>5 DEF PastTexts

\* Whoever else is broadcasting goes on with the same frame.
LEMMA SameFrame ==
    ASSUME TypeInv, NEW w \in Workers, WorkerStep(w), pc'[w] \in Aired, ~ChatReadText(w)
    PROVE  pc[w] \in Aired /\ pc'[w] \in Broadcasting /\ frame'[w] = frame[w]
<1> USE DEF Aired, Broadcasting, Goto, TypeInv, TypeOK
<1>1. pc'[w] \in Broadcasting
  BY Airing
<1>2. CASE BroadcastLock(w) \/ SendEnter(w) \/ SendDone(w)
  BY <1>1, <1>2 DEF BroadcastLock, SendEnter, SendDone, sendVars
<1>3. CASE BroadcastUnlock(w)
  BY <1>1, <1>3 DEF BroadcastUnlock
<1> QED
  BY <1>1, <1>2, <1>3, Unlocked

LEMMA FreshInvNext ==
    ASSUME TypeInv, FreshInv, [Next]_vars
    PROVE  FreshInv'
<1>1. ASSUME UNCHANGED <<pc, frame>> PROVE FreshInv'
  BY <1>1, PastGrows DEF TypeInv, FreshInv
<1>2. ASSUME NEW c \in Clients, ClientStep(c) \/ Accept(c) PROVE FreshInv'
  BY <1>1, <1>2 DEF ClientStep, SendRequest, SendUpgrade, SendFrame, Send, HangUp,
     ClientRead, Accept, workerVars, sendVars
<1>3. ASSUME NEW w \in Workers, WorkerStep(w) PROVE FreshInv'
  <2>1. \A v \in Workers \ {w} : pc'[v] = pc[v] /\ frame'[v] = frame[v]
    BY <1>3, OthersStay DEF TypeInv
  <2>2. PastTexts \subseteq PastTexts'
    BY PastGrows DEF TypeInv
  <2>3. CASE ChatReadText(w)
    <3>1. /\ Text(frame'[w]) \notin PastTexts
          /\ Text(frame'[w]) \in PastTexts'
      BY <2>3, TextIsNew
    <3>2. \A v \in Workers \ {w} : pc'[v] \in Aired => Text(frame'[v]) \in PastTexts
      BY <2>1 DEF FreshInv
    <3> QED
      BY <2>1, <2>2, <3>1, <3>2 DEF FreshInv
  <2>4. CASE ~ChatReadText(w)
    <3>1. pc'[w] \in Aired => pc[w] \in Aired /\ frame'[w] = frame[w]
      BY <1>3, <2>4, SameFrame
    <3> QED
      BY <2>1, <2>2, <3>1 DEF FreshInv
  <2> QED
    BY <2>3, <2>4
<1> QED
  BY <1>1, <1>2, <1>3 DEF Next, vars, workerVars, sendVars

\* Steps that neither take the mutex nor deliver a text.
LEMMA LogStays ==
    ASSUME TypeInv, FreshInv, NEW log, Log(log), [Next]_vars, UNCHANGED got,
           \A w \in Workers : pc'[w] \in Broadcasting =>
               pc[w] \in Broadcasting /\ frame'[w] = frame[w],
           \A w \in Workers : pc'[w] = "broadcast" =>
               \/ pc[w] = "broadcast" /\ frame'[w] = frame[w]
               \/ Text(frame'[w]) \notin PastTexts
    PROVE  Log(log)'
<1>1. log \in Seq(PastTexts')
  <2>1. PastTexts \subseteq PastTexts' /\ log \in Seq(PastTexts)
    BY PastGrows DEF TypeInv, Log
  <2> QED
    BY <2>1
<1>2. \A k \in DOMAIN log : log[k] \in PastTexts
  BY DEF Log
<1> QED
  BY <1>1, <1>2 DEF Log

LEMMA LogLocks ==
    ASSUME TypeInv, LockInv, FreshInv, NEW log, Log(log), [Next]_vars,
           NEW w \in Workers, BroadcastLock(w)
    PROVE  \E next : Log(next)'
<1> DEFINE t == Text(frame[w])
           n == Len(log)
           new == Append(log, t)
<1>1. /\ pc[w] = "broadcast" /\ pc' = [pc EXCEPT ![w] = "send"]
      /\ \A v \in Workers : pc[v] \notin Broadcasting
      /\ UNCHANGED <<frame, got>>
  BY CcAssumption DEF BroadcastLock, Goto, outVars, LockInv
<1>2. log \in Seq(PastTexts) /\ n \in Nat /\ DOMAIN log = 1..n
  BY DEF Log
<1>3. t \in PastTexts /\ PastTexts \subseteq PastTexts'
  BY <1>1, PastGrows DEF FreshInv, Aired, TypeInv
<1>4. \A k \in DOMAIN log : log[k] # t
  BY <1>1 DEF Log
<1> HIDE DEF t
<1>5. /\ new \in Seq(PastTexts') /\ Len(new) = n + 1 /\ DOMAIN new = 1..n + 1
      /\ new[n + 1] = t
      /\ \A k \in 1..n : new[k] = log[k]
      /\ \A k \in 1..n + 1 : k = n + 1 \/ k \in 1..n
  <2>1. log \in Seq(PastTexts')
    BY <1>2, <1>3
  <2> QED
    BY <1>2, <1>3, <2>1
<1> HIDE DEF new, n
<1>6. \A k, l \in DOMAIN new : new[k] = new[l] => k = l
  BY <1>2, <1>4, <1>5 DEF Log
<1>7. \A c \in Clients : \A i \in DOMAIN got[c] :
          \E k \in DOMAIN new : new[k] = Text(got[c][i])
  <2> TAKE c \in Clients
  <2> TAKE i \in DOMAIN got[c]
  <2>1. PICK k \in DOMAIN log : log[k] = Text(got[c][i])
    BY DEF Log
  <2> QED
    BY <1>2, <1>5, <2>1
<1>8. \A c \in Clients : \A i \in DOMAIN got[c] : \A k \in DOMAIN new :
          new[k] = Text(got[c][i]) => k \in DOMAIN log /\ new[k] = log[k]
  <2> TAKE c \in Clients
  <2> TAKE i \in DOMAIN got[c]
  <2>1. PICK k \in DOMAIN log : log[k] = Text(got[c][i])
    BY DEF Log
  <2> QED
    BY <1>2, <1>4, <1>5, <2>1
<1>9. \A c \in Clients : \A i, j \in DOMAIN got[c] : \A k, l \in DOMAIN new :
          i < j /\ new[k] = Text(got[c][i]) /\ new[l] = Text(got[c][j]) => k <= l
  BY <1>8 DEF Log
<1>10. \A v \in Workers : pc'[v] \in Broadcasting =>
           Len(new) \in DOMAIN new /\ new[Len(new)] = Text(frame[v])
  <2>1. \A v \in Workers : pc'[v] \in Broadcasting => v = w
    BY <1>1 DEF TypeInv, TypeOK
  <2>2. Len(new) \in DOMAIN new
    BY <1>2, <1>5
  <2> QED
    BY <1>5, <2>1, <2>2 DEF t
<1>11. \A v \in Workers : pc'[v] = "broadcast" => \A k \in DOMAIN new : new[k] # Text(frame[v])
  <2> SUFFICES ASSUME NEW v \in Workers, pc'[v] = "broadcast", NEW k \in DOMAIN new
               PROVE  new[k] # Text(frame[v])
    OBVIOUS
  <2>1. v # w /\ pc[v] = "broadcast"
    BY <1>1 DEF TypeInv, TypeOK
  <2>2. Text(frame[v]) # t
    BY <1>1, <2>1 DEF FreshInv, Aired, t
  <2> QED
    BY <1>2, <1>5, <2>1, <2>2 DEF Log
<1>12. PICK next : next = new
  OBVIOUS
<1>13. Log(next)'
  BY <1>1, <1>5, <1>6, <1>7, <1>9, <1>10, <1>11, <1>12 DEF Log
<1> QED
  BY <1>13

LEMMA LogDelivers ==
    ASSUME TypeInv, NEW log, Log(log), [Next]_vars, NEW w \in Workers, SendDone(w)
    PROVE  Log(log)'
<1> DEFINE t == Text(frame[w])
           n == Len(log)
           d == call[w]
<1>1. /\ pc[w] = "sending" /\ pc' = [pc EXCEPT ![w] = "send"]
      /\ UNCHANGED frame
  BY DEF SendDone, Goto, sendVars
<1>2. log \in Seq(PastTexts) /\ n \in Nat /\ DOMAIN log = 1..n /\ n \in DOMAIN log
      /\ log[n] = t
  BY <1>1 DEF Log, Broadcasting
<1>3. PastTexts \subseteq PastTexts'
  BY PastGrows DEF TypeInv
<1>4. log \in Seq(PastTexts')
  BY <1>2, <1>3
<1>5. /\ d \in Clients
      /\ \A c \in Clients : c # d => got'[c] = got[c]
      /\ got'[d] = got[d] \/ got'[d] = Append(got[d], frame[w])
      /\ got[d] \in Seq(Frames)
  BY Delivered DEF TypeInv, TypeOK
<1>6. \A c \in Clients : \A i \in DOMAIN got'[c] :
          \/ i \in DOMAIN got[c] /\ got'[c][i] = got[c][i]
          \/ got'[c][i] = frame[w] /\ \A j \in DOMAIN got'[c] : j <= i
  <2> HIDE DEF d
  <2>1. \A i \in DOMAIN Append(got[d], frame[w]) :
            \/ i \in DOMAIN got[d] /\ Append(got[d], frame[w])[i] = got[d][i]
            \/ /\ Append(got[d], frame[w])[i] = frame[w]
               /\ \A j \in DOMAIN Append(got[d], frame[w]) : j <= i
    BY <1>5
  <2> QED
    BY <1>5, <2>1
<1>7. \A c \in Clients : \A i \in DOMAIN got'[c] :
          \E k \in DOMAIN log : log[k] = Text(got'[c][i])
  BY <1>2, <1>6 DEF Log
<1>8. ASSUME NEW c \in Clients, NEW i \in DOMAIN got'[c], NEW j \in DOMAIN got'[c],
             NEW k \in DOMAIN log, NEW l \in DOMAIN log,
             i < j, log[k] = Text(got'[c][i]), log[l] = Text(got'[c][j])
      PROVE  k <= l
  <2>1. i \in Int /\ j \in Int
    BY SMTT(30), TypeInvNext DEF TypeInv, TypeOK
  <2>2. i \in DOMAIN got[c] /\ got'[c][i] = got[c][i]
    BY <1>6, <1>8, <2>1
  <2>3. CASE j \in DOMAIN got[c] /\ got'[c][j] = got[c][j]
    BY <1>8, <2>2, <2>3 DEF Log
  <2>4. CASE got'[c][j] = frame[w]
    <3>1. l = n
      BY <1>2, <1>8, <2>4 DEF Log
    <3> QED
      BY <1>2, <3>1
  <2> QED
    BY <1>6, <2>3, <2>4
<1>9. \A v \in Workers : /\ pc'[v] \in Broadcasting => pc[v] \in Broadcasting
                         /\ pc'[v] = "broadcast" => pc[v] = "broadcast"
  BY <1>1 DEF TypeInv, TypeOK, Broadcasting
<1> HIDE DEF t, n, d
<1> QED
  BY <1>1, <1>4, <1>7, <1>8, <1>9 DEF Log

LEMMA OrderInvNext ==
    ASSUME TypeInv, LockInv, OrderInv, [Next]_vars
    PROVE  OrderInv'
<1>1. PICK log : Log(log)
  BY DEF OrderInv
<1>2. FreshInv /\ FreshInv'
  BY FreshInvNext DEF OrderInv
<1> SUFFICES \E new : Log(new)'
  BY <1>2 DEF OrderInv
<1>3. ASSUME UNCHANGED <<pc, frame, got>> PROVE Log(log)'
  BY <1>1, <1>2, <1>3, LogStays
<1>4. ASSUME NEW c \in Clients, ClientStep(c) \/ Accept(c) PROVE Log(log)'
  BY <1>3, <1>4 DEF ClientStep, SendRequest, SendUpgrade, SendFrame, Send, HangUp,
     ClientRead, Accept, workerVars, sendVars, outVars
<1>5. ASSUME NEW w \in Workers, WorkerStep(w) PROVE \E new : Log(new)'
  <2>1. \A v \in Workers \ {w} : pc'[v] = pc[v] /\ frame'[v] = frame[v]
    BY <1>5, OthersStay DEF TypeInv
  <2>2. CASE BroadcastLock(w)
    BY <1>1, <1>2, <2>2, LogLocks
  <2>3. CASE SendDone(w)
    BY <1>1, <2>3, LogDelivers
  <2>4. CASE ~BroadcastLock(w) /\ ~SendDone(w)
    <3>1. UNCHANGED got
      BY <1>5, <2>4, Deliveries
    <3>2. pc'[w] \in Broadcasting => pc[w] \in Broadcasting /\ frame'[w] = frame[w]
      <4>1. SendEnter(w) => pc[w] \in Broadcasting
        BY DEF SendEnter, Broadcasting
      <4>2. BroadcastUnlock(w) => pc'[w] \notin Broadcasting
        BY DEF BroadcastUnlock, Goto, Broadcasting, TypeInv, TypeOK
      <4>3. ChatReadText(w) => pc'[w] \notin Broadcasting
        BY DEF ChatReadText, Goto, Broadcasting, TypeInv, TypeOK
      <4>4. pc'[w] \in Broadcasting => pc[w] \in Broadcasting
        BY <1>5, <2>4, <4>1, <4>2, Unlocked DEF TypeInv
      <4> QED
        BY <1>5, <4>3, <4>4, SameFrame DEF Aired, Broadcasting
    <3>3. pc'[w] = "broadcast" => Text(frame'[w]) \notin PastTexts
      BY <1>5, Airing, TextIsNew
    <3>4. Log(log)'
      BY <1>1, <1>2, <2>1, <3>1, <3>2, <3>3, LogStays
    <3> QED
      BY <3>4
  <2> QED
    BY <2>2, <2>3, <2>4
<1> QED
  BY <1>3, <1>4, <1>5 DEF Next, vars, workerVars, sendVars, outVars

\* Two clients that are both delivered two texts are delivered them in the same
\* order: the broadcast of main.cc keeps g_rooms_mutex from its first write to
\* its last, so the order in which broadcasts take it is everyone's order.
THEOREM OrderAgreed == Spec => []AgreedOrder
<1>1. Init => RoomsInv /\ OrderInv
  BY TypeInvInit, LockInvInit, OwnInvInit, RoomInvInit, ListInvInit, SendInvInit,
     OrderInvInit DEF RoomsInv
<1>2. TypeInv /\ LockInv /\ OrderInv /\ [Next]_vars =>
          TypeInv' /\ LockInv' /\ OrderInv'
  BY TypeInvNext, LockInvNext, OrderInvNext
<1>3. OrderInv => AgreedOrder
  <2> SUFFICES ASSUME OrderInv, NEW c \in Clients, NEW d \in Clients,
                      NEW i \in DOMAIN got[c], NEW j \in DOMAIN got[c],
                      NEW k \in DOMAIN got[d], NEW l \in DOMAIN got[d],
                      i < j, k < l,
                      Text(got[c][i]) = Text(got[d][l]),
                      Text(got[c][j]) = Text(got[d][k])
               PROVE  Text(got[c][i]) = Text(got[c][j])
    BY DEF AgreedOrder
  <2>1. PICK log : Log(log)
    BY DEF OrderInv
  <2>2. PICK p \in DOMAIN log : log[p] = Text(got[c][i])
    BY <2>1 DEF Log
  <2>3. PICK q \in DOMAIN log : log[q] = Text(got[c][j])
    BY <2>1 DEF Log
  <2>4. p <= q /\ q <= p
    BY <2>1, <2>2, <2>3 DEF Log
  <2>5. p \in Int /\ q \in Int
    BY <2>1 DEF Log
  <2> QED
    BY <2>2, <2>3, <2>4, <2>5
<1> QED
  BY <1>1, <1>2, <1>3, PTL DEF Spec, RoomsInv

=============================================================================
