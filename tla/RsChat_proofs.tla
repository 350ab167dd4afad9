---------------------------- MODULE RsChat_proofs ----------------------------
(***************************************************************************)
(* Theorems about RsChat, for any connections, rooms and addresses, and    *)
(* for both programs.                                                      *)
(***************************************************************************)
EXTENDS RsChat, TLAPS

(***************************************************************************)
(* Typing.  A handler with a text has one to send, and it has a peer just  *)
(* when it has written half of the text to it.                             *)
(***************************************************************************)
Sending == {"send", "rest"}

Framed ==
    \A c \in Conns :
        /\ pc[c] \in {"broadcast", "send", "rest"} => frame[c] \in Text
        /\ pc[c] = "rest" <=> peer[c] # None

TypeInv == TypeOK /\ Framed

LEMMA TypeInvInit == Init => TypeInv
<1> SUFFICES ASSUME Init PROVE TypeInv
  OBVIOUS
<1> USE ChatAssumption DEF Init
<1>1. <<>> \in Seq(Message) /\ <<>> \in Seq(Text) /\ NotIn \in Nat \cup {NotIn}
  OBVIOUS
<1>2. /\ input \in [Conns -> Seq(Message)]
      /\ log \in [Rooms -> Seq(Text)]
      /\ got \in [Conns -> Seq(Text)]
  BY <1>1
<1>3. unread \in [Conns -> 0..Window] /\ sent \in [Conns -> 0..MaxSent]
  OBVIOUS
<1>4. pc \in [Conns -> Labels]
  BY DEF Labels
<1>5. TypeOK
  BY <1>1, <1>2, <1>3, <1>4 DEF TypeOK
<1>6. Framed
  BY DEF Framed
<1> QED
  BY <1>5, <1>6 DEF TypeInv

LEMMA TypeInvClient ==
    ASSUME TypeInv, NEW c \in Conns, Client(c)
    PROVE  TypeInv'
<1> USE ChatAssumption DEF TypeInv, handler, sends, wire
<1>1. CASE Connect(c)
  BY <1>1 DEF Connect, TypeOK, Framed
<1>2. ASSUME NEW kind \in Kinds, Send(c, kind) PROVE TypeInv'
  <2>1. sent[c] + 1 \in 1..MaxSent /\ input[c] \in Seq(Message)
    BY <1>2 DEF Send, TypeOK
  <2>2. [kind |-> kind, n |-> sent[c] + 1] \in Message
    BY <2>1 DEF Message
  <2>3. input' \in [Conns -> Seq(Message)]
    BY <1>2, <2>1, <2>2 DEF Send, TypeOK
  <2>4. sent' \in [Conns -> 0..MaxSent]
    BY <1>2, <2>1 DEF Send, TypeOK
  <2>5. Framed'
    BY <1>2 DEF Send, Framed
  <2> QED
    BY <1>2, <2>3, <2>4, <2>5 DEF Send, TypeOK
<1>3. CASE ClientRead(c)
  <2>1. /\ unread' \in [Conns -> 0..Window]
        /\ phase' \in [Conns -> {"idle", "open", "closed", "reset"}]
    BY <1>3 DEF ClientRead, TypeOK
  <2>2. Framed'
    BY <1>3 DEF ClientRead, Framed
  <2> QED
    BY <1>3, <2>1, <2>2 DEF ClientRead, TypeOK
<1>4. CASE ClientClose(c)
  <2>1. /\ unread' \in [Conns -> 0..Window]
        /\ phase' \in [Conns -> {"idle", "open", "closed", "reset"}]
    BY <1>4 DEF ClientClose, TypeOK
  <2>2. Framed'
    BY <1>4 DEF ClientClose, Framed
  <2> QED
    BY <1>4, <2>1, <2>2 DEF ClientClose, TypeOK
<1>5. CASE ClientReset(c)
  <2>1. /\ unread' \in [Conns -> 0..Window]
        /\ phase' \in [Conns -> {"idle", "open", "closed", "reset"}]
    BY <1>5 DEF ClientReset, TypeOK
  <2>2. Framed'
    BY <1>5 DEF ClientReset, Framed
  <2> QED
    BY <1>5, <2>1, <2>2 DEF ClientReset, TypeOK
<1> QED
  BY <1>1, <1>2, <1>3, <1>4, <1>5, Client(c) DEF Client

LEMMA WrittenType ==
    ASSUME TypeOK, NEW d \in Conns, NEW kind \in {"reply", "text"},
           NEW tears \in BOOLEAN, Written(d, kind, tears)
    PROVE  /\ unread' \in [Conns -> 0..Window]
           /\ torn' \in [Conns -> SUBSET {"reply", "text"}]
<1>1. unread[d] + 1 \in 0..Window
  BY ChatAssumption DEF Written, Writable, TypeOK
<1>2. torn[d] \cup {kind} \in SUBSET {"reply", "text"}
  BY DEF TypeOK
<1> QED
  BY <1>1, <1>2 DEF Written, TypeOK

LEMMA TypeInvHandler ==
    ASSUME TypeInv, NEW c \in Conns, Handler(c)
    PROVE  TypeInv'
<1> USE ChatAssumption DEF TypeInv, client, sends, wire, Goto
<1> DEFINE PcOK == pc' \in [Conns -> Labels]
<1>1. ASSUME Upgrade(c) \/ Start(c) \/ HangUp(c) PROVE TypeInv'
  <2>1. PcOK
    <3>1. PICK l \in Labels : pc' = [pc EXCEPT ![c] = l]
      BY <1>1 DEF Upgrade, Start, HangUp, Labels, Session
    <3> QED
      BY <3>1 DEF TypeOK
  <2>2. aborted' \in BOOLEAN
    BY <1>1 DEF Upgrade, Start, HangUp, TypeOK
  <2>3. Framed'
    <3>1. CASE Upgrade(c)
      BY <3>1 DEF Upgrade, TypeOK, Framed
    <3>2. CASE Start(c)
      BY <3>2 DEF Start, TypeOK, Framed
    <3>3. CASE HangUp(c)
      BY <3>3 DEF HangUp, TypeOK, Framed
    <3> QED
      BY <1>1, <3>1, <3>2, <3>3
  <2> QED
    BY <1>1, <2>1, <2>2, <2>3 DEF Upgrade, Start, HangUp, TypeOK
<1>2. CASE Join(c)
  <2>1. PcOK
    BY <1>2 DEF Join, TypeOK, Labels, Session
  <2>2. Len(log[room[c]]) \in Nat
    BY DEF TypeOK
  <2>3. at' \in [Conns -> Nat \cup {NotIn}]
    BY <1>2, <2>2 DEF Join, TypeOK
  <2>4. members' \in [Rooms -> SUBSET Conns]
    BY <1>2 DEF Join, TypeOK
  <2>5. Framed'
    BY <1>2 DEF Join, TypeOK, Framed
  <2> QED
    BY <1>2, <2>1, <2>3, <2>4, <2>5 DEF Join, TypeOK
<1>3. CASE TakeText(c)
  <2>1. input[c] \in Seq(Message) /\ input[c] # <<>>
    BY <1>3 DEF TakeText, TypeOK
  <2>2. Head(input[c]) \in Message /\ Tail(input[c]) \in Seq(Message)
    BY <2>1
  <2>3. [from |-> c, n |-> Head(input[c]).n] \in Text
    BY <2>2 DEF Message, Text
  <2>4. /\ input' \in [Conns -> Seq(Message)]
        /\ frame' \in [Conns -> Text \cup {None}]
    BY <1>3, <2>2, <2>3 DEF TakeText, TypeOK
  <2>5. PcOK
    BY <1>3 DEF TakeText, TypeOK, Labels, Session
  <2>6. Framed'
    BY <1>3, <2>3 DEF TakeText, TypeOK, Framed
  <2> QED
    BY <1>3, <2>4, <2>5, <2>6 DEF TakeText, TypeOK
<1>4. CASE TakePing(c)
  <2>1. input[c] \in Seq(Message) /\ input[c] # <<>>
    BY <1>4 DEF TakePing, TypeOK
  <2>2. Tail(input[c]) \in Seq(Message)
    BY <2>1
  <2>3. input' \in [Conns -> Seq(Message)]
    BY <1>4, <2>2 DEF TakePing, TypeOK
  <2>4. PcOK
    BY <1>4 DEF TakePing, TypeOK, Labels, Session
  <2>5. Framed'
    BY <1>4 DEF TakePing, TypeOK, Framed
  <2> QED
    BY <1>4, <2>3, <2>4, <2>5 DEF TakePing, TypeOK
<1>5. CASE TakeClose(c)
  <2>1. input[c] \in Seq(Message)
    BY DEF TypeOK
  <2>2. PICK k \in 1..Len(input[c]) :
            input' = [input EXCEPT ![c] = SubSeq(@, k + 1, Len(@))]
    BY <1>5 DEF TakeClose
  <2>3. SubSeq(input[c], k + 1, Len(input[c])) \in Seq(Message)
    BY <2>1
  <2>4. input' \in [Conns -> Seq(Message)]
    BY <2>2, <2>3 DEF TypeOK
  <2>5. PcOK
    BY <1>5 DEF TakeClose, TypeOK, Labels, Session
  <2>6. Framed'
    BY <1>5 DEF TakeClose, TypeOK, Framed
  <2> QED
    BY <1>5, <2>4, <2>5, <2>6 DEF TakeClose, TypeOK
<1>13. CASE Reply(c)
  <2>1. PcOK
    BY <1>13 DEF Reply, TypeOK, Labels, Session
  <2>2. Framed'
    BY <1>13 DEF Reply, TypeOK, Framed
  <2>3. CASE Written(c, "reply", half[c] # None)
    <3>1. unread' \in [Conns -> 0..Window]
      BY <2>3, WrittenType
    <3>2. torn' \in [Conns -> SUBSET {"reply", "text"}]
      BY <2>3, WrittenType
    <3> QED
      BY <1>13, <2>1, <2>2, <3>1, <3>2 DEF Reply, TypeOK
  <2>4. CASE UNCHANGED <<unread, torn>>
    BY <1>13, <2>1, <2>2, <2>4 DEF Reply, TypeOK
  <2> QED
    BY <1>13, <2>3, <2>4 DEF Reply
<1>6. CASE Broadcast(c)
  <2>1. frame[c] \in Text
    BY <1>6 DEF Broadcast, Framed
  <2>2. log' \in [Rooms -> Seq(Text)]
    BY <1>6, <2>1 DEF Broadcast, TypeOK
  <2>3. todo' \in [Conns -> SUBSET Conns]
    BY <1>6 DEF Broadcast, TypeOK
  <2>4. PcOK
    BY <1>6 DEF Broadcast, TypeOK, Labels, Session
  <2>5. Framed'
    BY <1>6 DEF Broadcast, TypeOK, Framed
  <2> QED
    BY <1>6, <2>2, <2>3, <2>4, <2>5 DEF Broadcast, TypeOK
<1>7. CASE BroadcastEnd(c)
  <2>1. PcOK
    BY <1>7 DEF BroadcastEnd, TypeOK, Labels, Session
  <2>2. frame' \in [Conns -> Text \cup {None}]
    BY <1>7 DEF BroadcastEnd, TypeOK
  <2>3. Framed'
    BY <1>7 DEF BroadcastEnd, TypeOK, Framed
  <2> QED
    BY <1>7, <2>1, <2>2, <2>3 DEF BroadcastEnd, TypeOK
<1>8. ASSUME NEW d \in Conns, SendHalf(c, d) PROVE TypeInv'
  <2>1. PcOK
    BY <1>8 DEF SendHalf, TypeOK, Labels, Session
  <2>2. unread' \in [Conns -> 0..Window]
    BY <1>8, WrittenType DEF SendHalf
  <2>3. torn' \in [Conns -> SUBSET {"reply", "text"}]
    BY <1>8, WrittenType DEF SendHalf
  <2>4. /\ half' \in [Conns -> Text \cup {None}]
        /\ peer' \in [Conns -> Conns \cup {None}]
        /\ todo' \in [Conns -> SUBSET Conns]
    BY <1>8 DEF SendHalf, TypeOK
  <2>5. Framed'
    BY <1>8 DEF SendHalf, TypeOK, Framed
  <2> QED
    BY <1>8, <2>1, <2>2, <2>3, <2>4, <2>5 DEF SendHalf, TypeOK
<1>9. ASSUME NEW d \in Conns, SentTo(c, d), pc[c] \in Sending,
             frame[c] \in Text
      PROVE  /\ PcOK
             /\ Framed'
             /\ at' \in [Conns -> Nat \cup {NotIn}]
             /\ peer' \in [Conns -> Conns \cup {None}]
             /\ todo' \in [Conns -> SUBSET Conns]
  <2>1. PcOK
    BY <1>9 DEF SentTo, TypeOK, Labels, Session
  <2>2. Framed'
    BY <1>9 DEF SentTo, TypeOK, Framed
  <2>3. at[d] + 1 \in Nat
    <3>1. at[d] \in Nat \cup {-1}
      BY DEF TypeOK, NotIn
    <3> QED
      BY <3>1
  <2>4. at' \in [Conns -> Nat \cup {NotIn}]
    BY <1>9, <2>3 DEF SentTo, TypeOK
  <2> QED
    BY <1>9, <2>1, <2>2, <2>4 DEF SentTo, TypeOK
<1>10. ASSUME NEW d \in Conns, SendRest(c, d) PROVE TypeInv'
  <2>1. frame[c] \in Text /\ pc[c] \in Sending /\ SentTo(c, d)
    BY <1>10 DEF SendRest, Framed, Sending
  <2>2. got' \in [Conns -> Seq(Text)]
    BY <1>10, <2>1 DEF SendRest, TypeOK
  <2>3. unread' \in [Conns -> 0..Window]
    BY <1>10, WrittenType DEF SendRest
  <2>4. torn' \in [Conns -> SUBSET {"reply", "text"}]
    BY <1>10, WrittenType DEF SendRest
  <2>5. half' \in [Conns -> Text \cup {None}]
    BY <1>10 DEF SendRest, TypeOK
  <2> QED
    BY <1>9, <2>1, <2>2, <2>3, <2>4, <2>5 DEF SentTo, TypeOK
<1>11. ASSUME NEW d \in Conns, SendLost(c, d) PROVE TypeInv'
  <2>1. frame[c] \in Text /\ pc[c] \in Sending /\ SentTo(c, d)
    BY <1>11 DEF SendLost, Framed, Sending
  <2> QED
    BY ZenonT(60), <1>9, <1>11, <2>1 DEF SentTo, SendLost, TypeOK
<1>12. CASE Leave(c)
  <2>1. PcOK
    BY <1>12 DEF Leave, TypeOK, Labels, Session
  <2>2. members' \in [Rooms -> SUBSET Conns]
    BY <1>12 DEF Leave, TypeOK
  <2>3. Framed'
    BY <1>12 DEF Leave, TypeOK, Framed
  <2> QED
    BY <1>12, <2>1, <2>2, <2>3 DEF Leave, TypeOK
<1> QED
  BY <1>1, <1>2, <1>3, <1>4, <1>5, <1>6, <1>7, <1>8, <1>10, <1>11, <1>12,
     <1>13, Handler(c) DEF Handler

LEMMA TypeInvStutter == TypeInv /\ UNCHANGED vars => TypeInv'
BY DEF TypeInv, TypeOK, Framed, vars, client, handler, sends, wire

LEMMA TypeInvariance == Spec => []TypeInv
<1>1. TypeInv /\ [Next]_vars => TypeInv'
  BY TypeInvClient, TypeInvHandler, TypeInvStutter DEF Next
<1> QED
  BY TypeInvInit, <1>1, PTL DEF Spec

\* Every variable keeps its type, in both programs.
THEOREM TypeCorrect == Spec => []TypeOK
<1>1. TypeInv => TypeOK
  BY DEF TypeInv
<1> QED
  BY TypeInvariance, <1>1, PTL

-----------------------------------------------------------------------------
(***************************************************************************)
(* What a step of a client and a step of a handler leave alone.            *)
(***************************************************************************)
LEMMA ClientStep ==
    ASSUME TypeOK, NEW c \in Conns, Client(c)
    PROVE  /\ UNCHANGED <<prog, aborted, handler, room, members, lock, log, wire>>
           /\ \A d \in Conns :
                 /\ phase[d] \in {"closed", "reset"} =>
                       phase'[d] \in {"closed", "reset"}
                 /\ phase[d] = "reset" => phase'[d] = "reset"
                 /\ phase'[d] = "idle" => phase[d] = "idle"
                 /\ phase'[d] = "open" => phase[d] \in {"idle", "open"}
<1> USE DEF TypeOK
<1>1. CASE Connect(c)
  BY <1>1 DEF Connect
<1>2. ASSUME NEW kind \in Kinds, Send(c, kind) PROVE UNCHANGED phase
  BY <1>2 DEF Send
<1>3. CASE ClientRead(c) \/ ClientClose(c) \/ ClientReset(c)
  BY <1>3 DEF ClientRead, ClientClose, ClientReset
<1>4. CASE \E kind \in Kinds : Send(c, kind)
  BY <1>4 DEF Send
<1> QED
  BY <1>1, <1>3, <1>4, Client(c) DEF Client

LEMMA HandlerStep ==
    ASSUME NEW c \in Conns, Handler(c)
    PROVE  UNCHANGED <<prog, phase, room>>
BY DEF Handler, client, Upgrade, Start, Join, TakeText, TakePing, TakeClose,
       HangUp, Reply, Broadcast, BroadcastEnd, SendHalf, SendRest, SentTo,
       SendLost, Leave

\* A handler comes into its room by Join and leaves its session by Leave.
LEMMA SessionStep ==
    ASSUME TypeOK, NEW c \in Conns, Handler(c), ~Join(c), ~Leave(c)
    PROVE  /\ UNCHANGED members
           /\ \A d \in Conns :
                 /\ pc[d] \in Session <=> pc'[d] \in Session
                 /\ pc[d] = "done" => pc'[d] = "done"
<1> USE DEF Goto, Session, TypeOK
<1>1. CASE Upgrade(c) \/ Start(c)
  BY <1>1 DEF Upgrade, Start
<1>2. CASE TakeText(c) \/ TakePing(c) \/ TakeClose(c) \/ HangUp(c)
  BY <1>2 DEF TakeText, TakePing, TakeClose, HangUp
<1>3. CASE Reply(c) \/ Broadcast(c) \/ BroadcastEnd(c)
  BY <1>3 DEF Reply, Broadcast, BroadcastEnd
<1>4. ASSUME NEW d \in Conns, SendHalf(c, d) \/ SendRest(c, d) \/ SendLost(c, d)
      PROVE  /\ UNCHANGED members
             /\ pc[c] \in Session /\ pc[c] # "done"
             /\ \E l \in Session : pc' = [pc EXCEPT ![c] = l]
  BY <1>4 DEF SendHalf, SendRest, SendLost, SentTo
<1>5. CASE \E d \in Conns : SendHalf(c, d) \/ SendRest(c, d) \/ SendLost(c, d)
  BY <1>4, <1>5
<1> QED
  BY <1>1, <1>2, <1>3, <1>5, Handler(c), ~Join(c), ~Leave(c) DEF Handler

(***************************************************************************)
(* Who is in a room.                                                       *)
(***************************************************************************)
LEMMA ListedNext ==
    ASSUME TypeOK, ListedInSession, Next
    PROVE  ListedInSession'
<1> USE DEF ListedInSession, TypeOK
<1>1. PICK c \in Conns : Client(c) \/ Handler(c)
  BY DEF Next
<1>2. CASE Client(c)
  BY <1>2, ClientStep DEF handler
<1>3. CASE Join(c)
  BY <1>3 DEF Join, Goto, Session
<1>4. CASE Leave(c)
  <2>1. room' = room /\ \A r \in Rooms : members'[r] \subseteq members[r]
    BY <1>4 DEF Leave
  <2>2. ASSUME NEW r \in Rooms, NEW d \in members'[r] PROVE d # c
    BY <1>4, <2>1, <2>2 DEF Leave, Keeps
  <2> QED
    BY <1>4, <2>1, <2>2 DEF Leave, Goto
<1>5. CASE Handler(c) /\ ~Join(c) /\ ~Leave(c)
  BY <1>5, SessionStep, HandlerStep
<1> QED
  BY <1>1, <1>2, <1>3, <1>4, <1>5

LEMMA SessionNext ==
    ASSUME TypeOK, SessionListed, Next
    PROVE  SessionListed'
<1> USE DEF SessionListed, Listed, TypeOK
<1>1. PICK c \in Conns : Client(c) \/ Handler(c)
  BY DEF Next
<1>2. CASE Client(c)
  BY <1>2, ClientStep DEF handler
<1>3. CASE Join(c)
  BY <1>3 DEF Join, Goto, client, Session
<1>4. CASE Leave(c)
  <2>1. /\ UNCHANGED <<phase, room>>
        /\ \A d \in Conns : pc'[d] = IF d = c THEN "done" ELSE pc[d]
    BY <1>4 DEF Leave, Goto, client
  <2>2. ASSUME NEW d \in Conns, Listed(d), ~Listed(d)'
        PROVE  phase[d] = "reset" \/ Addr[d] = Addr[c]
    BY <1>4, <2>1, <2>2 DEF Leave, Keeps
  <2>3. pc'[c] \notin Session
    BY <2>1 DEF Session
  <2> QED
    BY <2>1, <2>2, <2>3
<1>5. CASE Handler(c) /\ ~Join(c) /\ ~Leave(c)
  BY <1>5, SessionStep, HandlerStep
<1> QED
  BY <1>1, <1>2, <1>3, <1>4, <1>5

\* A room lists nobody but the sessions it has, whatever addresses clients
\* have and however they go.
THEOREM RoomsHoldSessions == Spec => []ListedInSession
<1>1. Init => ListedInSession
  BY DEF Init, ListedInSession
<1>2. TypeOK /\ ListedInSession /\ [Next]_vars => ListedInSession'
  <2>1. ListedInSession /\ UNCHANGED vars => ListedInSession'
    BY DEF ListedInSession, vars, handler
  <2> QED
    BY <2>1, ListedNext
<1> QED
  BY TypeCorrect, <1>1, <1>2, PTL DEF Spec

\* A session that is not in its room has a client that is gone, or has lost
\* its place to a handler with the same peer address.
THEOREM SessionsStayListed == Spec => []SessionListed
<1>1. Init => SessionListed
  BY DEF Init, SessionListed, Session
<1>2. TypeOK /\ SessionListed /\ [Next]_vars => SessionListed'
  <2>1. SessionListed /\ UNCHANGED vars => SessionListed'
    BY DEF SessionListed, Listed, vars, handler, client
  <2> QED
    BY <2>1, SessionNext
<1> QED
  BY TypeCorrect, <1>1, <1>2, PTL DEF Spec

\* Rooms and sessions agree, as the two theorems above say.
THEOREM RoomsStayExact == Spec => []RoomsExact
  BY RoomsHoldSessions, SessionsStayListed, PTL DEF RoomsExact

-----------------------------------------------------------------------------
(***************************************************************************)
(* The lock, and the halves of texts.  Whoever writes a text holds the     *)
(* lock; a socket that has been given half of one is about to be given the *)
(* rest by the same handler, or (main.rs) its client is gone.              *)
(***************************************************************************)
Writers == \A c \in Conns : pc[c] \in Sending <=> lock = c

Halves ==
    /\ \A c \in Conns :
          pc[c] = "rest" => half[peer[c]] = frame[c] /\ phase[peer[c]] # "idle"
    /\ prog = "main" =>
          \A d \in Conns : half[d] # None =>
              \/ phase[d] \in {"closed", "reset"}
              \/ \E c \in Conns : pc[c] = "rest" /\ peer[c] = d

WriteInv == Writers /\ Halves

Quiet(c) ==
    \/ Upgrade(c) \/ Start(c)
    \/ TakeText(c) \/ TakePing(c) \/ TakeClose(c) \/ HangUp(c)
    \/ Reply(c)

LEMMA QuietStep ==
    ASSUME TypeOK, NEW c \in Conns, Quiet(c)
    PROVE  /\ UNCHANGED <<prog, phase, room, todo, peer, members, lock, log,
                         half, at, got>>
           /\ pc[c] \notin Sending /\ pc'[c] \notin Sending
           /\ \A d \in Conns \ {c} : pc'[d] = pc[d] /\ frame'[d] = frame[d]
           /\ \A d \in Conns : "text" \in torn'[d] => "text" \in torn[d]
           /\ pc[c] = "request" => phase[c] # "idle"
           /\ pc'[c] # "request"
           /\ pc'[c] \in {"start", "join"} => pc[c] \in {"request", "start"}
           /\ pc'[c] \in Session => pc[c] \in Session
<1> USE DEF TypeOK, Goto, Sending, Session, client, sends, wire
<1>1. CASE Upgrade(c) \/ Start(c)
  BY <1>1 DEF Upgrade, Start
<1>2. CASE TakeText(c)
  BY <1>2 DEF TakeText
<1>3. CASE TakePing(c) \/ TakeClose(c) \/ HangUp(c)
  BY <1>3 DEF TakePing, TakeClose, HangUp
<1>4. CASE Reply(c)
  <2>1. \/ UNCHANGED torn
        \/ torn' = [torn EXCEPT ![c] = @ \cup {"reply"}]
    BY <1>4 DEF Reply, Written
  <2> DEFINE Same(d) == "text" \in torn'[d] => "text" \in torn[d]
  <2>2. ASSUME NEW d \in Conns PROVE Same(d)
    <3>1. torn \in [Conns -> SUBSET {"reply", "text"}]
      OBVIOUS
    <3> HIDE DEF TypeOK
    <3>2. CASE d = c
      BY <2>1, <3>1, <3>2
    <3>3. CASE d # c
      BY <2>1, <3>1, <3>3
    <3> QED
      BY <3>2, <3>3
  <2>3. /\ pc[c] = "reply"
        /\ pc' = [pc EXCEPT ![c] = "chat"]
        /\ UNCHANGED <<prog, phase, room, todo, peer, frame, members, lock, log,
                      half, at, got>>
    BY <1>4 DEF Reply
  <2> QED
    BY <2>2, <2>3
<1> QED
  BY <1>1, <1>2, <1>3, <1>4, Quiet(c) DEF Quiet

\* The ways a handler moves.
LEMMA HandlerCases ==
    ASSUME NEW c \in Conns, Handler(c)
    PROVE  \/ Quiet(c) \/ Join(c) \/ Leave(c)
           \/ Broadcast(c) \/ BroadcastEnd(c)
           \/ \E d \in Conns : SendHalf(c, d) \/ SendRest(c, d) \/ SendLost(c, d)
BY DEF Handler, Quiet

LEMMA WritersNext ==
    ASSUME TypeOK, Writers, Next
    PROVE  Writers'
<1> USE ChatAssumption DEF Writers, TypeOK, Goto, Sending
<1>1. PICK c \in Conns : Client(c) \/ Handler(c)
  BY DEF Next
<1>2. CASE Client(c)
  BY <1>2, ClientStep DEF handler
<1>3. CASE Quiet(c)
  BY SMTT(30), <1>3, QuietStep
<1>4. CASE Join(c) \/ Leave(c)
  BY <1>4 DEF Join, Leave
<1>5. CASE Broadcast(c)
  <2>1. /\ lock = None /\ lock' = c
        /\ pc' = [pc EXCEPT ![c] = "send"]
    BY <1>5 DEF Broadcast
  <2> QED
    BY <2>1
<1>7. CASE BroadcastEnd(c)
  <2>1. /\ lock = c /\ lock' = None
        /\ pc' = [pc EXCEPT ![c] = "chat"]
    BY <1>7 DEF BroadcastEnd
  <2> QED
    BY <2>1
<1>6. ASSUME NEW d \in Conns, SendHalf(c, d) \/ SendRest(c, d) \/ SendLost(c, d)
      PROVE  Writers'
  BY SMTT(30), <1>6 DEF SendHalf, SendRest, SendLost, SentTo
<1> QED
  BY <1>1, <1>2, <1>3, <1>4, <1>5, <1>6, <1>7, HandlerCases

LEMMA HalvesNext ==
    ASSUME TypeInv, WriteInv, Next
    PROVE  Halves' /\ (TextsWhole => TextsWhole')
<1> USE ChatAssumption DEF TypeInv, TypeOK, Framed, WriteInv, Writers, Halves,
                           TextsWhole, Sending
<1>1. PICK c \in Conns : Client(c) \/ Handler(c)
  BY DEF Next
<1>2. CASE Client(c)
  <2>1. /\ UNCHANGED <<prog, pc, frame, peer, half, torn>>
        /\ \A d \in Conns :
              /\ phase[d] \in {"closed", "reset"} =>
                    phase'[d] \in {"closed", "reset"}
              /\ phase'[d] = "idle" => phase[d] = "idle"
    BY <1>2, ClientStep DEF handler, sends, wire
  <2>2. \A e \in Conns : pc[e] = "rest" => peer[e] \in Conns
    OBVIOUS
  <2> QED
    BY <2>1, <2>2
<1>3. CASE Quiet(c)
  <2>1. /\ UNCHANGED <<prog, phase, peer, half>>
        /\ pc[c] # "rest" /\ pc'[c] # "rest"
        /\ \A d \in Conns \ {c} : pc'[d] = pc[d] /\ frame'[d] = frame[d]
        /\ \A d \in Conns : "text" \in torn'[d] => "text" \in torn[d]
    BY <1>3, QuietStep
  <2>2. ASSUME NEW e \in Conns, pc'[e] = "rest"
        PROVE  half'[peer'[e]] = frame'[e] /\ phase'[peer'[e]] # "idle"
    <3>1. pc[e] = "rest" /\ frame'[e] = frame[e]
      BY <2>1, <2>2
    <3> QED
      BY <2>1, <3>1
  <2>3. ASSUME NEW d \in Conns, NEW e \in Conns, pc[e] = "rest", peer[e] = d
        PROVE  pc'[e] = "rest" /\ peer'[e] = d
    BY <2>1, <2>3
  <2>4. Halves'
    BY <2>1, <2>2, <2>3
  <2>5. TextsWhole => TextsWhole'
    BY <2>1
  <2> QED
    BY <2>4, <2>5
<1>4. CASE Join(c) \/ Leave(c)
  <2>1. /\ UNCHANGED <<prog, phase, frame, peer, half, torn>>
        /\ pc[c] # "rest"
        /\ \E l \in {"chat", "done"} : pc' = [pc EXCEPT ![c] = l]
    BY <1>4 DEF Join, Leave, Goto, client, sends, wire
  <2> QED
    BY <2>1
<1>5. CASE Broadcast(c) \/ BroadcastEnd(c)
  BY SMTT(30), <1>5 DEF Broadcast, BroadcastEnd, Goto, client, wire
<1>6. ASSUME NEW d \in Conns, SendHalf(c, d)
      PROVE  Halves' /\ (TextsWhole => TextsWhole')
  <2>1. prog = "main" => half[d] = None
    BY ZenonT(60), <1>6 DEF SendHalf, Written, Writable
  <2>2. /\ UNCHANGED <<prog, phase, frame>>
        /\ pc' = [pc EXCEPT ![c] = "rest"]
        /\ half' = [half EXCEPT ![d] = frame[c]]
        /\ peer' = [peer EXCEPT ![c] = d]
        /\ phase[d] = "open" /\ pc[c] = "send"
        /\ torn' = torn \/ half[d] # None
    BY <1>6 DEF SendHalf, Written, Writable, Goto
  <2>3. Halves'
    BY SMTT(30), <2>1, <2>2
  <2>4. TextsWhole => TextsWhole'
    BY <2>1, <2>2
  <2> QED
    BY <2>3, <2>4
<1>7. ASSUME NEW d \in Conns, SendRest(c, d)
      PROVE  Halves' /\ (TextsWhole => TextsWhole')
  <2>1. half[d] = frame[c]
    BY <1>7 DEF SendRest
  <2>2. /\ UNCHANGED <<prog, phase, frame, torn>>
        /\ pc' = [pc EXCEPT ![c] = "send"]
        /\ half' = [half EXCEPT ![d] = None]
        /\ peer' = [peer EXCEPT ![c] = None]
        /\ pc[c] = "rest" /\ peer[c] = d
    BY <1>7, <2>1 DEF SendRest, SentTo, Written, Goto
  <2>3. \A e \in Conns \ {c} : pc[e] # "rest" /\ pc'[e] # "rest"
    BY <2>2
  <2>4. \A e \in Conns : pc'[e] # "rest"
    BY <2>2, <2>3
  <2>5. \A e \in Conns \ {d} : half'[e] = half[e]
    BY <2>2
  <2>6. half'[d] = None
    BY <2>2
  <2>7. Halves'
    BY SMTT(30), <2>2, <2>3, <2>4, <2>5, <2>6
  <2>8. TextsWhole => TextsWhole'
    BY <2>2
  <2> QED
    BY <2>7, <2>8
<1>8. ASSUME NEW d \in Conns, SendLost(c, d)
      PROVE  Halves' /\ (TextsWhole => TextsWhole')
  <2>1. /\ UNCHANGED <<prog, phase, frame, torn, half>>
        /\ pc' = [pc EXCEPT ![c] = "send"]
        /\ peer' = [peer EXCEPT ![c] = None]
        /\ pc[c] = "send" \/ (pc[c] = "rest" /\ peer[c] = d)
        /\ prog = "main" => phase[d] # "open"
    BY <1>8 DEF SendLost, SentTo, Unwritable, Goto
  <2>2. \A e \in Conns : /\ pc'[e] = "rest" => pc[e] = "rest"
                         /\ e # c => pc'[e] = pc[e] /\ peer'[e] = peer[e]
    BY <2>1
  <2>3. \A e \in Conns :
            pc'[e] = "rest" => half'[peer'[e]] = frame'[e] /\ phase'[peer'[e]] # "idle"
    <3>1. pc'[c] # "rest"
      BY <2>1
    <3> QED
      BY <2>1, <2>2, <3>1
  <2>4. ASSUME prog = "main", NEW e \in Conns, half[e] # None,
               phase[e] \notin {"closed", "reset"}
        PROVE  \E f \in Conns : pc'[f] = "rest" /\ peer'[f] = e
    <3>1. PICK f \in Conns : pc[f] = "rest" /\ peer[f] = e
      BY <2>4
    <3>2. f # c
      BY <2>1, <2>4, <3>1
    <3> QED
      BY <2>2, <3>1, <3>2
  <2>5. Halves'
    BY <2>1, <2>3, <2>4
  <2>6. TextsWhole => TextsWhole'
    BY <2>1
  <2> QED
    BY <2>5, <2>6
<1> QED
  BY <1>1, <1>2, <1>3, <1>4, <1>5, <1>6, <1>7, <1>8, HandlerCases

LEMMA WriteInvariance == Spec => [](TypeInv /\ WriteInv)
<1>1. Init => WriteInv
  BY ChatAssumption DEF Init, WriteInv, Writers, Halves, Sending
<1>2. WriteInv /\ UNCHANGED vars => WriteInv'
  BY DEF WriteInv, Writers, Halves, vars, client, handler, sends, wire
<1>3. TypeInv /\ WriteInv /\ [Next]_vars => WriteInv'
  BY <1>2, WritersNext, HalvesNext DEF TypeInv, WriteInv
<1> QED
  BY TypeInvariance, <1>1, <1>3, PTL DEF Spec

\* However many handlers broadcast, and however often the windows are full, no
\* text is written into the middle of another one.
THEOREM TextsStayWhole == Spec => []TextsWhole
<1>1. Init => TextsWhole
  BY DEF Init, TextsWhole
<1>2. TypeInv /\ WriteInv /\ TextsWhole /\ [Next]_vars => TextsWhole'
  <2>1. TextsWhole /\ UNCHANGED vars => TextsWhole'
    BY DEF TextsWhole, vars, wire
  <2> QED
    BY <2>1, HalvesNext
<1> QED
  BY WriteInvariance, <1>1, <1>2, PTL DEF Spec

-----------------------------------------------------------------------------
(***************************************************************************)
(* The promise of ChatRoom.  A member is level with its room's log, or one *)
(* text behind while the broadcast of that text has not come to it; the    *)
(* text is then the last of the log.                                       *)
(***************************************************************************)
Owed(d) == \E c \in Conns : d \in todo[c] \/ peer[c] = d

Placed ==
    \A c \in Conns :
        /\ pc[c] # "request" => phase[c] # "idle"
        /\ pc[c] \in {"request", "start", "join"} => at[c] = NotIn
        /\ pc[c] \in Session => at[c] # NotIn

OnAir ==
    \A c \in Conns :
        /\ pc[c] \notin Sending => todo[c] = {}
        /\ todo[c] \subseteq members[room[c]]
        /\ pc[c] = "rest" => peer[c] \in members[room[c]] \ todo[c]
        /\ pc[c] \in Sending =>
              /\ log[room[c]] # <<>>
              /\ log[room[c]][Len(log[room[c]])] = frame[c]

Level ==
    \A r \in Rooms : \A d \in members[r] :
        /\ Owed(d) => at[d] + 1 = Len(log[r])
        /\ ~Owed(d) => at[d] = Len(log[r])

RoomInv == Placed /\ OnAir /\ Level

ChatInv == TypeInv /\ Writers /\ ListedInSession /\ RoomInv

PromiseStep == [Promise!Next]_(Promise!vars)

LEMMA ClientRoom ==
    ASSUME ChatInv, NEW c \in Conns, Client(c)
    PROVE  RoomInv' /\ PromiseStep
<1>1. /\ UNCHANGED <<prog, pc, todo, peer, frame, room, members, lock, log, at, got>>
      /\ \A d \in Conns : phase'[d] = "idle" => phase[d] = "idle"
  BY ClientStep DEF ChatInv, TypeInv, handler, sends, wire
<1>2. Placed'
  BY <1>1 DEF ChatInv, RoomInv, Placed
<1>3. OnAir' /\ Level'
  BY <1>1 DEF ChatInv, RoomInv, OnAir, Level, Owed
<1>4. phase \in [Conns -> {"idle", "open", "closed", "reset"}]
  BY DEF ChatInv, TypeInv, TypeOK
<1>5. Lossy' = Lossy \/ Lossy' = Lossy \cup {c}
  <2>1. CASE Connect(c)
    BY <2>1, <1>1, <1>4 DEF Connect, Lossy
  <2>2. CASE ClientRead(c) \/ \E kind \in Kinds : Send(c, kind)
    BY <2>2, <1>1 DEF ClientRead, Send, Lossy
  <2>3. CASE ClientClose(c) \/ ClientReset(c)
    BY <2>3, <1>1, <1>4 DEF ClientClose, ClientReset, Lossy
  <2> QED
    BY <2>1, <2>2, <2>3 DEF Client
<1>6. PromiseStep
  <2>1. CASE Lossy' = Lossy
    BY <2>1, <1>1 DEF PromiseStep, Promise!vars
  <2>2. CASE Lossy' = Lossy \cup {c}
    BY <2>2, <1>1 DEF PromiseStep, Promise!Next, Promise!GiveUp
  <2> QED
    BY <1>5, <2>1, <2>2
<1> QED
  BY <1>2, <1>3, <1>6 DEF RoomInv

LEMMA QuietRoom ==
    ASSUME ChatInv, NEW c \in Conns, Quiet(c)
    PROVE  RoomInv' /\ PromiseStep
<1>1. /\ UNCHANGED <<prog, phase, room, todo, peer, members, log, at, got>>
      /\ pc[c] \notin Sending /\ pc'[c] \notin Sending
      /\ \A d \in Conns \ {c} : pc'[d] = pc[d] /\ frame'[d] = frame[d]
      /\ pc[c] = "request" => phase[c] # "idle"
      /\ pc'[c] # "request"
      /\ pc'[c] \in {"start", "join"} => pc[c] \in {"request", "start"}
      /\ pc'[c] \in Session => pc[c] \in Session
  BY QuietStep DEF ChatInv, TypeInv
<1>2. Placed'
  BY <1>1 DEF ChatInv, RoomInv, Placed
<1>3. OnAir'
  BY <1>1 DEF ChatInv, RoomInv, OnAir, Sending
<1>4. Level'
  BY <1>1 DEF ChatInv, RoomInv, Level, Owed
<1>5. PromiseStep
  BY <1>1 DEF PromiseStep, Promise!vars, Lossy
<1> QED
  BY <1>2, <1>3, <1>4, <1>5 DEF RoomInv

\* While nobody holds the lock, every member is level with its room.
LEMMA NoneOwed ==
    ASSUME ChatInv, lock = None
    PROVE  /\ \A c \in Conns : pc[c] \notin Sending /\ todo[c] = {} /\ peer[c] = None
           /\ \A d \in Conns : ~Owed(d)
<1>1. \A c \in Conns : pc[c] \notin Sending
  BY ChatAssumption DEF ChatInv, Writers
<1>2. \A c \in Conns : todo[c] = {} /\ peer[c] = None
  BY <1>1 DEF ChatInv, RoomInv, OnAir, TypeInv, Framed, Sending
<1> QED
  BY <1>1, <1>2, ChatAssumption DEF Owed

LEMMA JoinRoom ==
    ASSUME ChatInv, NEW c \in Conns, Join(c)
    PROVE  RoomInv' /\ PromiseStep
<1>1. /\ pc[c] = "join" /\ lock = None
      /\ pc' = [pc EXCEPT ![c] = "chat"]
      /\ members' = [members EXCEPT ![room[c]] = @ \cup {c}]
      /\ at' = [at EXCEPT ![c] = Len(log[room[c]])]
      /\ UNCHANGED <<prog, phase, room, frame, todo, peer, log, got>>
  BY DEF Join, Goto, client, sends
<1>2. /\ pc \in [Conns -> Labels] /\ room \in [Conns -> Rooms]
      /\ members \in [Rooms -> SUBSET Conns]
      /\ at \in [Conns -> Nat \cup {NotIn}]
      /\ log \in [Rooms -> Seq(Text)]
  BY DEF ChatInv, TypeInv, TypeOK
<1>3. Len(log[room[c]]) \in Nat
  BY <1>2
<1>4. Placed'
  BY <1>1, <1>2, <1>3 DEF ChatInv, RoomInv, Placed, Session, NotIn
<1>5. OnAir'
  <2>1. \A e \in Conns : pc[e] \notin Sending /\ pc'[e] \notin Sending
    BY <1>1, <1>2, NoneOwed DEF Sending
  <2> QED
    BY <2>1, <1>1, <1>2, NoneOwed DEF OnAir, Sending
<1>6. Level'
  <2>1. \A d \in Conns : ~Owed(d) /\ ~Owed(d)'
    BY <1>1, NoneOwed DEF Owed
  <2>2. ASSUME NEW r \in Rooms, NEW d \in members'[r]
        PROVE  at'[d] = Len(log'[r])
    <3>1. CASE d = c
      <4>1. c \notin members[r]
        BY <1>1 DEF ChatInv, ListedInSession, Session
      <4>2. r = room[c]
        BY <1>1, <1>2, <2>2, <3>1, <4>1
      <4> QED
        BY <1>1, <1>2, <3>1, <4>2
    <3>2. CASE d # c
      <4>1. d \in members[r]
        BY <1>1, <1>2, <2>2, <3>2
      <4>2. d \in Conns
        BY <1>2, <4>1
      <4> QED
        BY <1>1, <1>2, <2>1, <3>2, <4>1, <4>2 DEF ChatInv, RoomInv, Level
    <3> QED
      BY <3>1, <3>2
  <2>3. \A r \in Rooms : members'[r] \subseteq Conns
    BY <1>1, <1>2
  <2> QED
    BY <2>1, <2>2, <2>3 DEF Level
<1>7. PromiseStep
  <2>1. at[c] = NotIn
    BY <1>1 DEF ChatInv, RoomInv, Placed
  <2> QED
    BY <1>1, <2>1 DEF PromiseStep, Promise!Next, Promise!Join, Promise!Log,
                      Promise!NotIn, NotIn, Lossy
<1> QED
  BY <1>4, <1>5, <1>6, <1>7 DEF RoomInv

LEMMA LeaveRoom ==
    ASSUME ChatInv, NEW c \in Conns, Leave(c)
    PROVE  RoomInv' /\ PromiseStep
<1>1. /\ pc[c] = "leave" /\ lock = None
      /\ pc' = [pc EXCEPT ![c] = "done"]
      /\ UNCHANGED <<prog, phase, room, frame, todo, peer, log, at, got>>
      /\ \A r \in Rooms : members'[r] \subseteq members[r]
  BY DEF Leave, Goto, client, sends, wire, ChatInv, TypeInv, TypeOK
<1>2. pc \in [Conns -> Labels] /\ members \in [Rooms -> SUBSET Conns]
  BY DEF ChatInv, TypeInv, TypeOK
<1>3. Placed'
  BY <1>1, <1>2 DEF ChatInv, RoomInv, Placed, Session
<1>4. OnAir'
  <2>1. \A e \in Conns : pc'[e] \notin Sending
    BY <1>1, <1>2, NoneOwed DEF Sending
  <2> QED
    BY <2>1, <1>1, NoneOwed DEF OnAir, Sending
<1>5. Level'
  <2>1. \A d \in Conns : Owed(d) <=> Owed(d)'
    BY <1>1 DEF Owed
  <2> QED
    BY <2>1, <1>1, <1>2 DEF ChatInv, RoomInv, Level
<1>6. PromiseStep
  BY <1>1 DEF PromiseStep, Promise!vars, Lossy
<1> QED
  BY <1>3, <1>4, <1>5, <1>6 DEF RoomInv

LEMMA BroadcastRoom ==
    ASSUME ChatInv, NEW c \in Conns, Broadcast(c)
    PROVE  RoomInv' /\ PromiseStep
<1> DEFINE rm == room[c]
<1>1. /\ pc[c] = "broadcast" /\ lock = None
      /\ pc' = [pc EXCEPT ![c] = "send"]
      /\ todo' = [todo EXCEPT ![c] = members[rm]]
      /\ log' = [log EXCEPT ![rm] = Append(@, frame[c])]
      /\ UNCHANGED <<prog, phase, room, frame, peer, members, at, got>>
  BY DEF Broadcast, Goto, client, wire
<1>2. /\ pc \in [Conns -> Labels] /\ rm \in Rooms
      /\ todo \in [Conns -> SUBSET Conns]
      /\ members \in [Rooms -> SUBSET Conns]
      /\ at \in [Conns -> Nat \cup {NotIn}]
      /\ log \in [Rooms -> Seq(Text)] /\ log[rm] \in Seq(Text)
      /\ frame[c] \in Text
  BY <1>1 DEF ChatInv, TypeInv, TypeOK, Framed
<1>3. /\ Len(log'[rm]) = Len(log[rm]) + 1
      /\ log'[rm][Len(log'[rm])] = frame[c] /\ log'[rm] # <<>>
      /\ Len(log[rm]) \in Nat
  <2> DEFINE s == log[rm]
  <2>1. log'[rm] = Append(s, frame[c]) /\ s \in Seq(Text)
    BY <1>1, <1>2
  <2>2. /\ Len(Append(s, frame[c])) = Len(s) + 1 /\ Len(s) \in Nat
        /\ Append(s, frame[c])[Len(s) + 1] = frame[c]
    <3> HIDE DEF s
    <3> QED
      BY <2>1, <1>2
  <2>3. Append(s, frame[c]) # <<>>
    <3> HIDE DEF s
    <3> QED
      BY <2>1, <2>2
  <2> QED
    BY <2>1, <2>2, <2>3
<1>4. Placed'
  BY <1>1, <1>2 DEF ChatInv, RoomInv, Placed, Session
<1>5. OnAir'
  <2>1. ASSUME NEW e \in Conns, e # c
        PROVE  pc'[e] \notin Sending /\ todo'[e] = {}
    BY <1>1, <1>2, <2>1, NoneOwed
  <2>2. pc'[c] = "send" /\ todo'[c] = members[rm]
    BY <1>1, <1>2
  <2> QED
    BY <2>1, <2>2, <1>1, <1>3 DEF OnAir, Sending
<1>6. Level'
  <2>1. ASSUME NEW d \in Conns PROVE Owed(d)' <=> d \in members[rm]
    BY <1>1, <1>2, NoneOwed, ChatAssumption DEF Owed
  <2>2. ASSUME NEW r \in Rooms, NEW d \in members[r]
        PROVE  d \in Conns /\ at[d] = Len(log[r]) /\ room[d] = r
    <3>1. d \in Conns
      BY <1>2
    <3> QED
      BY <3>1, <1>1, NoneOwed DEF ChatInv, RoomInv, Level, ListedInSession
  <2>3. ASSUME NEW r \in Rooms, NEW d \in members[r]
        PROVE  /\ Owed(d)' => at[d] + 1 = Len(log'[r])
               /\ ~Owed(d)' => at[d] = Len(log'[r])
    <3>1. CASE r = rm
      BY <2>1, <2>2, <1>3, <3>1
    <3>2. CASE r # rm
      <4>1. d \notin members[rm]
        BY <1>2, <2>2, <3>2
      <4>2. log'[r] = log[r]
        BY <1>1, <1>2, <3>2
      <4> QED
        BY <2>1, <2>2, <4>1, <4>2
    <3> QED
      BY <3>1, <3>2
  <2> QED
    BY <2>3, <1>1 DEF Level
<1>7. PromiseStep
  <2>1. at[c] # NotIn
    BY <1>1 DEF ChatInv, RoomInv, Placed, Session
  <2> QED
    BY <1>1, <1>2, <2>1 DEF PromiseStep, Promise!Next, Promise!Say,
                            Promise!NotIn, NotIn, Lossy
<1> QED
  BY <1>4, <1>5, <1>6, <1>7 DEF RoomInv

LEMMA BroadcastEndRoom ==
    ASSUME ChatInv, NEW c \in Conns, BroadcastEnd(c)
    PROVE  RoomInv' /\ PromiseStep
<1>1. /\ pc[c] = "send" /\ todo[c] = {}
      /\ pc' = [pc EXCEPT ![c] = "chat"]
      /\ frame' = [frame EXCEPT ![c] = None]
      /\ UNCHANGED <<prog, phase, room, todo, peer, members, log, at, got>>
  BY DEF BroadcastEnd, Goto, client, wire
<1>2. pc \in [Conns -> Labels] /\ frame \in [Conns -> Text \cup {None}]
  BY DEF ChatInv, TypeInv, TypeOK
<1>3. Placed'
  BY <1>1, <1>2 DEF ChatInv, RoomInv, Placed, Session
<1>4. OnAir'
  <2>1. ASSUME NEW e \in Conns, e # c
        PROVE  pc'[e] = pc[e] /\ frame'[e] = frame[e]
    BY <1>1, <1>2, <2>1
  <2>2. pc'[c] \notin Sending
    BY <1>1, <1>2 DEF Sending
  <2> QED
    BY <2>1, <2>2, <1>1 DEF ChatInv, RoomInv, OnAir, Sending
<1>5. Level'
  BY <1>1 DEF ChatInv, RoomInv, Level, Owed
<1>6. PromiseStep
  BY <1>1 DEF PromiseStep, Promise!vars, Lossy
<1> QED
  BY <1>3, <1>4, <1>5, <1>6 DEF RoomInv

LEMMA SendHalfRoom ==
    ASSUME ChatInv, NEW c \in Conns, NEW d \in Conns, SendHalf(c, d)
    PROVE  RoomInv' /\ PromiseStep
<1>1. /\ pc[c] = "send" /\ d \in todo[c]
      /\ pc' = [pc EXCEPT ![c] = "rest"]
      /\ todo' = [todo EXCEPT ![c] = @ \ {d}]
      /\ peer' = [peer EXCEPT ![c] = d]
      /\ UNCHANGED <<prog, phase, room, frame, members, log, at, got>>
  BY DEF SendHalf, Goto
<1>2. /\ pc \in [Conns -> Labels] /\ todo \in [Conns -> SUBSET Conns]
      /\ peer \in [Conns -> Conns \cup {None}]
      /\ peer[c] = None
  BY <1>1 DEF ChatInv, TypeInv, TypeOK, Framed
<1>3. Placed'
  BY <1>1, <1>2 DEF ChatInv, RoomInv, Placed, Session
<1>4. ASSUME NEW e \in Conns, e # c
      PROVE  pc'[e] = pc[e] /\ todo'[e] = todo[e] /\ peer'[e] = peer[e]
  BY <1>1, <1>2, <1>4
<1>5. pc'[c] = "rest" /\ todo'[c] = todo[c] \ {d} /\ peer'[c] = d
  BY <1>1, <1>2
<1>6. OnAir'
  BY <1>1, <1>4, <1>5 DEF ChatInv, RoomInv, OnAir, Sending
<1>7. ASSUME NEW e \in Conns PROVE Owed(e)' <=> Owed(e)
  BY <1>1, <1>2, <1>4, <1>5, ChatAssumption DEF Owed
<1>8. Level'
  <2>1. members \in [Rooms -> SUBSET Conns]
    BY DEF ChatInv, TypeInv, TypeOK
  <2> QED
    BY <1>1, <1>7, <2>1 DEF ChatInv, RoomInv, Level
<1>9. PromiseStep
  BY <1>1 DEF PromiseStep, Promise!vars, Lossy
<1> QED
  BY <1>3, <1>6, <1>8, <1>9 DEF RoomInv

\* The broadcast is done with d: it had the last text of the log to get.
LEMMA SentRoom ==
    ASSUME ChatInv, NEW c \in Conns, NEW d \in Conns, SentTo(c, d),
           UNCHANGED phase,
           \/ pc[c] = "send" /\ d \in todo[c]
           \/ pc[c] = "rest" /\ d = peer[c]
    PROVE  /\ RoomInv'
           /\ Promise!Move(d)
           /\ Promise!Log(d)[at[d] + 1] = frame[c]
           /\ d \in members[room[c]]
<1>1. /\ pc' = [pc EXCEPT ![c] = "send"]
      /\ todo' = [todo EXCEPT ![c] = @ \ {d}]
      /\ peer' = [peer EXCEPT ![c] = None]
      /\ at' = [at EXCEPT ![d] = @ + 1]
      /\ UNCHANGED <<prog, phase, room, frame, members, log>>
  BY DEF SentTo, Goto
<1>2. /\ pc \in [Conns -> Labels] /\ todo \in [Conns -> SUBSET Conns]
      /\ peer \in [Conns -> Conns \cup {None}]
      /\ at \in [Conns -> Nat \cup {NotIn}]
      /\ members \in [Rooms -> SUBSET Conns]
      /\ room[c] \in Rooms /\ log[room[c]] \in Seq(Text)
  BY DEF ChatInv, TypeInv, TypeOK
<1>3. d \in members[room[c]] /\ Owed(d)
  BY DEF ChatInv, RoomInv, OnAir, Owed
<1>4. /\ at[d] + 1 = Len(log[room[c]])
      /\ room[d] = room[c] /\ pc[d] \in Session
  BY <1>2, <1>3 DEF ChatInv, RoomInv, Level, ListedInSession
<1>5. at[d] \in Nat /\ at[d] # NotIn
  BY <1>2, <1>4 DEF ChatInv, RoomInv, Placed
<1>6. /\ log[room[c]][at[d] + 1] = frame[c]
      /\ at[d] < Len(log[room[c]])
  <2>1. log[room[c]][Len(log[room[c]])] = frame[c]
    BY DEF ChatInv, RoomInv, OnAir, Sending
  <2> QED
    BY <1>4, <1>5, <2>1
<1>7. ASSUME NEW e \in Conns, e # c
      PROVE  /\ pc[e] \notin Sending /\ todo[e] = {} /\ peer[e] = None
             /\ pc'[e] = pc[e] /\ todo'[e] = {} /\ peer'[e] = None
  <2>1. pc[e] \notin Sending
    BY <1>7 DEF ChatInv, Writers, Sending
  <2>2. todo[e] = {} /\ peer[e] = None
    BY <2>1 DEF ChatInv, RoomInv, OnAir, TypeInv, Framed, Sending
  <2> QED
    BY <1>1, <1>2, <1>7, <2>1, <2>2
<1>8. pc'[c] = "send" /\ todo'[c] = todo[c] \ {d} /\ peer'[c] = None
  BY <1>1, <1>2
<1>9. Placed'
  <2>1. at'[d] = at[d] + 1 /\ \A e \in Conns : e # d => at'[e] = at[e]
    BY <1>1, <1>2
  <2>2. pc[c] \in {"send", "rest"}
    OBVIOUS
  <2>3. ASSUME NEW e \in Conns
        PROVE  /\ pc'[e] # "request" => phase'[e] # "idle"
               /\ pc'[e] \in {"request", "start", "join"} => at'[e] = NotIn
               /\ pc'[e] \in Session => at'[e] # NotIn
    <3>1. CASE e = d
      <4>1. at'[e] # NotIn
        BY <2>1, <3>1, <1>5 DEF NotIn
      <4>2. pc'[e] \notin {"request", "start", "join"}
        BY <1>4, <1>7, <1>8, <3>1 DEF Session
      <4>3. phase[e] # "idle"
        BY <1>4, <3>1 DEF ChatInv, RoomInv, Placed, Session
      <4> QED
        BY <4>1, <4>2, <4>3, <1>1
    <3>2. CASE e # d
      BY <2>1, <2>2, <1>1, <1>7, <1>8, <3>2 DEF ChatInv, RoomInv, Placed, Session
    <3> QED
      BY <3>1, <3>2
  <2> QED
    BY <2>3 DEF Placed
<1>10. OnAir'
  BY <1>1, <1>7, <1>8 DEF ChatInv, RoomInv, OnAir, Sending
<1>11. Level'
  <2>1. ~Owed(d)' /\ \A e \in Conns : e # d => (Owed(e)' <=> Owed(e))
    BY <1>1, <1>7, <1>8, ChatAssumption DEF Owed, ChatInv, TypeInv, Framed,
       RoomInv, OnAir
  <2>2. ASSUME NEW r \in Rooms, NEW e \in members[r]
        PROVE  /\ Owed(e)' => at'[e] + 1 = Len(log[r])
               /\ ~Owed(e)' => at'[e] = Len(log[r])
    <3>1. e \in Conns /\ room[e] = r
      BY <1>2 DEF ChatInv, ListedInSession
    <3>2. CASE e = d
      BY <1>1, <1>2, <1>4, <2>1, <3>1, <3>2
    <3>3. CASE e # d
      BY <1>1, <1>2, <2>1, <3>1, <3>3 DEF ChatInv, RoomInv, Level
    <3> QED
      BY <3>2, <3>3
  <2> QED
    BY <2>2, <1>1 DEF Level
<1>12. Promise!Move(d)
  BY <1>1, <1>4, <1>5, <1>6 DEF Promise!Move, Promise!Log, Promise!NotIn, NotIn, Lossy
<1>13. Promise!Log(d)[at[d] + 1] = frame[c]
  BY <1>4, <1>6 DEF Promise!Log
<1> QED
  BY <1>3, <1>9, <1>10, <1>11, <1>12, <1>13 DEF RoomInv

LEMMA SendRestRoom ==
    ASSUME ChatInv, NEW c \in Conns, NEW d \in Conns, SendRest(c, d)
    PROVE  RoomInv' /\ PromiseStep
<1>1. RoomInv' /\ Promise!Move(d) /\ Promise!Log(d)[at[d] + 1] = frame[c]
  BY SentRoom DEF SendRest, SentTo
<1>2. Promise!Deliver(d)
  BY <1>1 DEF SendRest, Promise!Deliver
<1> QED
  BY <1>1, <1>2 DEF PromiseStep, Promise!Next

LEMMA SendLostRoom ==
    ASSUME ChatInv, NEW c \in Conns, NEW d \in Conns, SendLost(c, d)
    PROVE  RoomInv' /\ PromiseStep
<1>1. RoomInv' /\ Promise!Move(d) /\ d \in members[room[c]]
  BY SentRoom DEF SendLost, SentTo
<1>2. phase[d] # "idle"
  BY <1>1 DEF ChatInv, TypeInv, TypeOK, ListedInSession, RoomInv, Placed, Session
<1>3. d \in Lossy
  BY <1>2 DEF SendLost, Unwritable, Lossy, ChatInv, TypeInv, TypeOK
<1>4. Promise!Lose(d)
  BY <1>1, <1>3 DEF SendLost, Promise!Lose
<1> QED
  BY <1>1, <1>4 DEF PromiseStep, Promise!Next

LEMMA RoomNext ==
    ASSUME ChatInv, Next
    PROVE  RoomInv' /\ PromiseStep
<1>1. PICK c \in Conns : Client(c) \/ Handler(c)
  BY DEF Next
<1> QED
  BY <1>1, HandlerCases, ClientRoom, QuietRoom, JoinRoom, LeaveRoom,
     BroadcastRoom, BroadcastEndRoom, SendHalfRoom, SendRestRoom, SendLostRoom

\* Whatever the rooms, addresses, windows and orders, a member of a room is
\* given what the room says, in its one order, from where it joined, and
\* misses a text only when its client is gone or (main2.rs) timed out.
THEOREM RoomsKeepTheirPromise == Spec => Refinement
<1>1. Init => Promise!Init /\ RoomInv
  BY ChatAssumption DEF Init, Promise!Init, Promise!NotIn, NotIn, Lossy,
     RoomInv, Placed, OnAir, Level, Owed, Sending, Session
<1>2. ChatInv /\ [Next]_vars => RoomInv' /\ PromiseStep
  <2>1. RoomInv /\ UNCHANGED vars => RoomInv' /\ PromiseStep
    BY DEF RoomInv, Placed, OnAir, Level, Owed, PromiseStep, Promise!vars,
           Lossy, vars, client, handler, sends, wire
  <2> QED
    BY <2>1, RoomNext DEF ChatInv
<1>3. Spec => []ChatInv
  <2>1. TypeInv /\ Writers /\ ListedInSession /\ RoomInv => ChatInv
    BY DEF ChatInv
  <2>2. WriteInv => Writers
    BY DEF WriteInv
  <2> QED
    BY <1>1, <1>2, <2>1, <2>2, WriteInvariance, RoomsHoldSessions, PTL DEF Spec
<1> QED
  BY <1>1, <1>2, <1>3, PTL DEF Spec, Refinement, Promise!Spec, PromiseStep
=============================================================================
