-------------------------- MODULE KeepAlive_proofs --------------------------
(***************************************************************************)
(* Theorems about KeepAlive, for each of the five programs, any streams of *)
(* requests and any limits.                                                *)
(***************************************************************************)
EXTENDS KeepAlive, DataLemmas

LEMMA StreamType ==
    ASSUME TypeOK
    PROVE  /\ stream \in Seq(Token) /\ Len(stream) \in Nat
           /\ DOMAIN stream = 1..Len(stream)
           /\ \A p \in DOMAIN stream : stream[p].req \in Requests
           /\ \A p \in DOMAIN stream : stream[p].req \in Nat \ {0}
           /\ InRequests(stream)
           /\ sent \in Nat /\ filled \in Nat /\ base \in Nat
           /\ base <= filled /\ filled <= sent /\ sent <= Len(stream)
<1>1. stream \in Seq(Token) /\ InRequests(stream)
  BY KeepAliveAssumption DEF TypeOK
<1>2. /\ Len(stream) \in Nat /\ DOMAIN stream = 1..Len(stream)
      /\ \A p \in DOMAIN stream : stream[p] \in Token
  BY <1>1
<1>3. /\ sent \in Nat /\ filled \in Nat /\ base \in Nat
      /\ base <= filled /\ filled <= sent /\ sent <= Len(stream)
  BY <1>2 DEF TypeOK
<1> QED
  BY <1>1, <1>2, <1>3 DEF Requests, Token

\* The empty line that ends a request is in the buffer, and a request that is
\* in the buffer begins there.
LEMMA FirstEnd ==
    ASSUME TypeOK, Ends # {}
    PROVE  /\ Min(Ends) \in base + 2 .. filled
           /\ Min(Ends) \in DOMAIN stream /\ stream[Min(Ends)].part = "end"
           /\ base + 1 \in DOMAIN stream
           /\ base + 1 <= filled
           /\ Request \in Requests /\ Request \in Nat \ {0}
<1>1. Ends \in SUBSET Nat
  BY StreamType DEF Ends
<1>2. Min(Ends) \in Ends
  BY <1>1, MinIsLeast
<1> DEFINE e == Min(Ends)
<1>3. e \in base + 2 .. filled /\ stream[e].part = "end"
  BY <1>2 DEF Ends
<1> HIDE DEF e
<1>4. base + 1 \in DOMAIN stream /\ e \in DOMAIN stream /\ base + 1 <= filled
  BY <1>3, StreamType
<1> QED
  BY <1>3, <1>4, StreamType DEF Request, e

\* A full buffer holds the line of a request.
LEMMA FullBuffer ==
    ASSUME TypeOK, Buffered = Cap
    PROVE  /\ base + 1 \in DOMAIN stream /\ base + 1 <= filled
           /\ filled = base + Cap
           /\ Request \in Requests /\ Request \in Nat \ {0}
<1>1. Cap \in Nat \ {0} /\ filled = base + Cap
  BY StreamType, KeepAliveAssumption DEF Buffered
<1>2. base + 1 \in DOMAIN stream /\ base + 1 <= filled
  BY <1>1, StreamType
<1> QED
  BY <1>1, <1>2, StreamType DEF Request

LEMMA TypeInit == Init => TypeOK
<1> SUFFICES ASSUME Init PROVE TypeOK
  OBVIOUS
<1>1. Len(stream) \in Nat
  BY KeepAliveAssumption DEF Init
<1>2. replies \in Seq(Requests \cup {0})
  BY DEF Init
<1>3. sent \in 0..Len(stream) /\ filled \in 0..sent /\ base \in 0..filled
  BY <1>1 DEF Init
<1>4. Buffered <= Cap
  BY KeepAliveAssumption DEF Init, Buffered
<1> QED
  BY <1>2, <1>3, <1>4 DEF Init, TypeOK

\* Replies are to requests that were sent, or to none.
LEMMA ReplyType ==
    ASSUME TypeOK, NEW r \in Requests \cup {0},
           replies' = IF gone THEN replies ELSE Append(replies, r)
    PROVE  replies' \in Seq(Requests \cup {0})
  BY DEF TypeOK

LEMMA TypeNext ==
    ASSUME TypeOK, [Next]_vars
    PROVE  TypeOK'
<1> USE DEF client
<1>1. CASE UNCHANGED vars
  BY <1>1 DEF vars, TypeOK, Requests, Buffered
<1>2. CASE ClientSend
  <2>1. sent + 1 \in 0..Len(stream) /\ filled \in 0..sent + 1
    BY <1>2, StreamType DEF ClientSend
  <2> QED
    BY <1>2, <2>1 DEF ClientSend, TypeOK, Requests, Buffered
<1>3. CASE ClientClose
  BY <1>3 DEF ClientClose, TypeOK, Requests, Buffered
<1>4. CASE Read
  <2> DEFINE both == {sent, base + Cap}
             f == Min(both)
  <2>1. /\ sent \in Nat /\ base + Cap \in Nat /\ base \in Nat /\ filled \in Nat
        /\ base <= filled /\ filled < sent /\ filled < base + Cap
    BY <1>4, StreamType, KeepAliveAssumption DEF Read, Buffered
  <2>2. f \in both /\ \A x \in both : f <= x
    BY <2>1, MinIsLeast
  <2>3. f \in Nat /\ f <= sent /\ f <= base + Cap /\ base <= f
    BY <2>1, <2>2
  <2>4. filled' = f
    BY <1>4 DEF Read
  <2> HIDE DEF f
  <2>5. filled' \in 0..sent /\ base \in 0..filled' /\ filled' - base <= Cap
    BY <2>1, <2>3, <2>4, KeepAliveAssumption
  <2> QED
    BY <1>4, <2>5 DEF Read, TypeOK, Requests, Buffered
<1>5. CASE ReadEof \/ Incomplete
  BY <1>5 DEF ReadEof, Incomplete, TypeOK, Requests, Buffered
<1>6. ASSUME Ends # {} PROVE Min(Ends) \in 0..filled /\ filled - Min(Ends) <= filled - base
  <2>1. Min(Ends) \in base + 2 .. filled
    BY <1>6, FirstEnd
  <2> DEFINE e == Min(Ends)
  <2>2. e \in base + 2 .. filled
    BY <2>1
  <2> HIDE DEF e
  <2>3. e \in 0..filled /\ filled - e <= filled - base
    BY <2>2, StreamType
  <2> QED
    BY <2>3 DEF e
<1>7. ASSUME Ends # {}, NEW b, b \in 0..filled, filled - b <= filled - base,
             base' = b, pc' \in {"read", "parse", "line", "skip", "closed", "panicked"},
             replies' \in Seq(Requests \cup {0}),
             UNCHANGED <<impl, client, filled, line, timedOut>>
      PROVE  TypeOK'
  <2>1. impl # "ex" => filled - b <= Cap
    BY <1>7, StreamType, KeepAliveAssumption DEF TypeOK, Buffered
  <2> QED
    BY <1>7, <2>1 DEF TypeOK, Requests, Buffered
<1>8. ASSUME Ends # {}, Reply PROVE replies' \in Seq(Requests \cup {0})
  BY <1>8, FirstEnd, ReplyType DEF Reply
<1>9. filled - filled <= filled - base /\ base \in 0..filled /\ filled \in 0..filled
  BY StreamType
<1>10. CASE Serve
  <2>1. base' \in {base, Min(Ends)}
    BY <1>10 DEF Serve
  <2> QED
    BY <1>6, <1>7, <1>8, <1>9, <1>10, <2>1 DEF Serve
<1>11. CASE ServeStuck \/ ZigOverlap \/ Refuse
  BY <1>7, <1>8, <1>9, <1>11 DEF ServeStuck, ZigOverlap, Refuse
<1>12. CASE DropBuffer
  <2>1. replies' \in Seq(Requests \cup {0})
    BY <1>8, <1>12 DEF DropBuffer, TypeOK
  <2> QED
    BY <1>7, <1>9, <1>12, <2>1 DEF DropBuffer
<1>13. CASE ExLine
  <2>1. base + 1 \in 0..filled /\ base + 1 \in DOMAIN stream
    BY <1>13, StreamType DEF ExLine, Buffered
  <2>2. line' \in Requests \cup {0}
    BY <1>13, <2>1, StreamType DEF ExLine, Request
  <2> QED
    BY <1>13, <2>1, <2>2 DEF ExLine, TypeOK, Requests, Buffered
<1>14. CASE ExRecv
  <2>1. sent \in 0..sent /\ base \in 0..sent
    BY StreamType
  <2> QED
    BY <1>14, <2>1 DEF ExRecv, ExWaits, TypeOK, Requests, Buffered
<1>15. ASSUME ExReply PROVE replies' \in Seq(Requests \cup {0})
  BY <1>15, ReplyType DEF ExReply, TypeOK
<1>16. CASE ExServe
  BY <1>6, <1>7, <1>15, <1>16 DEF ExServe, ExReply
<1>17. CASE ExRecvFails
  <2>1. replies' \in Seq(Requests \cup {0})
    BY <1>15, <1>17 DEF ExRecvFails, TypeOK
  <2> QED
    BY <1>17, <2>1 DEF ExRecvFails, ExReply, TypeOK, Requests, Buffered
<1>18. CASE TooLong
  <2>1. replies' \in Seq(Requests \cup {0})
    BY <1>18, FullBuffer, ReplyType DEF TooLong, Reply, TypeOK
  <2> QED
    BY <1>18, <2>1 DEF TooLong, TypeOK, Requests, Buffered
<1> QED
  BY <1>1, <1>2, <1>3, <1>4, <1>5, <1>10, <1>11, <1>12, <1>13, <1>14, <1>16, <1>17, <1>18
     DEF Next, Handler

\* The buffers of the five keep-alive loops: a handler never reads beyond the
\* buffer it has, nor consumes what it has not read, whatever is sent and
\* however it arrives.
THEOREM TypeCorrect == Spec => []TypeOK
<1>1. TypeOK /\ [Next]_vars => TypeOK'
  BY TypeNext
<1> QED
  BY <1>1, TypeInit, PTL DEF Spec

-----------------------------------------------------------------------------
(***************************************************************************)
(* The order of the replies.  What is still to be parsed comes after what  *)
(* was answered: for ex because it parses a request where one begins, for  *)
(* the others because an empty line is the last of its request.            *)
(***************************************************************************)
Boundary(p) == p = 0 \/ stream[p].part = "end"

\* a is answered before b, or again: rs, about a file it cannot serve.
Before(a, b) == a < b \/ (a = b /\ impl = "rs" /\ IsKind(a, "missing"))

Arrived == \A i \in DOMAIN replies :
               replies[i] \in Requests /\ EndOf(replies[i]) <= filled
LastRefused ==
    /\ pc = "closed"
    /\ \A i \in DOMAIN replies :
          /\ replies[i] \in Requests
          /\ EndOf(replies[i]) <= filled \/ RefusedTooLong(i)
InOrder == \A i, j \in DOMAIN replies : i < j => Before(replies[i], replies[j])

Unanswered ==
    /\ pc = "line" => Boundary(base)
    /\ impl = "rs" /\ pc \in {"read", "parse"} => Boundary(base)
    /\ pc = "skip" => /\ base >= 1 /\ line = stream[base].req
                     /\ \A i \in DOMAIN replies : replies[i] < line
    /\ pc \in {"read", "parse", "line"} =>
          \A i \in DOMAIN replies : \A p \in base + 1 .. Len(stream) :
              Before(replies[i], stream[p].req)

OrderInv ==
    /\ pc \in {"line", "skip"} => impl = "ex"
    /\ pc \in {"read", "parse"} => impl # "ex"
    /\ Orderly => (Arrived \/ LastRefused) /\ InOrder /\ Unanswered

LEMMA OrderInit == Init => OrderInv
  BY KeepAliveAssumption DEF Init, OrderInv, Arrived, InOrder, Unanswered, Boundary

\* A request whose empty line is in the buffer has arrived.
LEMMA EndArrived ==
    ASSUME TypeOK, NEW e \in DOMAIN stream, stream[e].part = "end", e <= filled,
           NEW p \in DOMAIN stream, p <= e
    PROVE  /\ EndOf(stream[p].req) <= filled
           /\ \A q \in e + 1 .. Len(stream) : stream[p].req < stream[q].req
<1> DEFINE r == stream[p].req
           S == {q \in DOMAIN stream : stream[q].req = r}
<1>1. r <= stream[e].req
  <2>1. CASE p < e
    BY <2>1, StreamType DEF InRequests
  <2>2. CASE p = e
    BY <2>2, StreamType
  <2>3. p < e \/ p = e
    BY StreamType
  <2> QED
    BY <2>1, <2>2, <2>3
<1>2. \A q \in e + 1 .. Len(stream) : r < stream[q].req
  <2> TAKE q \in e + 1 .. Len(stream)
  <2>1. q \in DOMAIN stream /\ e < q
    BY StreamType
  <2>2. stream[e].req < stream[q].req
    BY <2>1, StreamType DEF InRequests
  <2> QED
    BY <1>1, <2>1, <2>2, StreamType
<1>3. S \in SUBSET Nat /\ S # {} /\ e \in Nat
  BY StreamType
<1>4. \A q \in S : q <= e
  <2> SUFFICES ASSUME NEW q \in S, ~(q <= e) PROVE FALSE
    OBVIOUS
  <2>1. q \in e + 1 .. Len(stream)
    BY StreamType
  <2>2. r < r /\ r \in Nat
    BY <1>2, <2>1, StreamType
  <2> QED
    BY <2>2
<1>5. Max(S) \in S
  <2> HIDE DEF S
  <2> QED
    BY <1>3, <1>4, MaxIsGreatest
<1>6. EndOf(r) = Max(S)
  BY DEF EndOf
<1>7. EndOf(r) <= e
  <2> HIDE DEF S
  <2> QED
    BY <1>4, <1>5, <1>6
<1>8. EndOf(r) \in Nat
  <2> HIDE DEF S
  <2> QED
    BY <1>3, <1>5, <1>6
<1> HIDE DEF r
<1>9. EndOf(r) <= filled
  BY <1>3, <1>7, <1>8, StreamType
<1> QED
  BY <1>2, <1>9 DEF r

\* One more reply, or none when the client is gone.
LEMMA OneMoreInOrder ==
    ASSUME TypeOK, InOrder, UNCHANGED <<impl, stream>>,
           NEW r \in Requests,
           \A i \in DOMAIN replies : Before(replies[i], r),
           replies' = IF gone THEN replies ELSE Append(replies, r)
    PROVE  /\ InOrder'
           /\ \A i \in DOMAIN replies' :
                 \/ replies'[i] = r /\ i = Len(replies')
                 \/ i \in DOMAIN replies /\ replies'[i] = replies[i]
<1>1. CASE gone
  BY <1>1 DEF InOrder, Before, IsKind
<1>2. CASE ~gone
  <2>1. /\ replies \in Seq(Requests \cup {0}) /\ Len(replies) \in Nat
        /\ DOMAIN replies = 1..Len(replies)
    BY DEF TypeOK
  <2>2. /\ DOMAIN replies' = 1..Len(replies) + 1
        /\ Len(replies') = Len(replies) + 1
        /\ replies'[Len(replies) + 1] = r
        /\ \A i \in DOMAIN replies : replies'[i] = replies[i]
        /\ \A i \in DOMAIN replies' : i \in DOMAIN replies \/ i = Len(replies) + 1
    BY <1>2, <2>1
  <2>3. InOrder'
    <3> SUFFICES ASSUME NEW i \in DOMAIN replies', NEW j \in DOMAIN replies', i < j
                 PROVE  Before(replies'[i], replies'[j])
      BY DEF InOrder, Before, IsKind
    <3>1. i \in DOMAIN replies
      BY <2>1, <2>2
    <3> QED
      BY <2>2, <3>1 DEF InOrder
  <2> QED
    BY <2>2, <2>3
<1> QED
  BY <1>1, <1>2

LEMMA OneMore ==
    ASSUME TypeOK, Arrived, InOrder, UNCHANGED <<impl, stream>>,
           NEW r \in Requests, EndOf(r) <= filled, filled' = filled,
           \A i \in DOMAIN replies : Before(replies[i], r),
           replies' = IF gone THEN replies ELSE Append(replies, r)
    PROVE  /\ Arrived' /\ InOrder'
           /\ \A i \in DOMAIN replies' : replies'[i] = r \/
                  (i \in DOMAIN replies /\ replies'[i] = replies[i])
<1>1. /\ InOrder'
      /\ \A i \in DOMAIN replies' :
            \/ replies'[i] = r /\ i = Len(replies')
            \/ i \in DOMAIN replies /\ replies'[i] = replies[i]
  BY OneMoreInOrder
<1>2. Arrived'
  <2> SUFFICES ASSUME NEW i \in DOMAIN replies'
               PROVE  replies'[i] \in Requests /\ EndOf(replies'[i]) <= filled
    BY DEF Arrived, Requests, EndOf
  <2> QED
    BY <1>1 DEF Arrived
<1> QED
  BY <1>1, <1>2

\* rs refuses what begins where the buffer begins and is not over where it ends.
LEMMA OrderTooLong ==
    ASSUME TypeOK, TypeOK', OrderInv, TooLong
    PROVE  OrderInv'
<1> USE DEF client, OrderInv
<1>1. /\ pc = "parse" /\ impl # "ex" /\ pc' = "closed" /\ Buffered = Cap
      /\ UNCHANGED <<impl, stream, base, filled, timedOut, gone>>
  BY DEF TooLong
<1>2. Orderly /\ Arrived /\ InOrder /\ Unanswered
  BY <1>1 DEF Orderly, LastRefused
<1>3. CASE UNCHANGED replies
  <2>1. Arrived' /\ InOrder'
    BY <1>1, <1>2, <1>3 DEF Arrived, InOrder, Before, IsKind, Requests, EndOf
  <2> QED
    BY <1>1, <2>1 DEF Orderly, Unanswered
<1>4. CASE impl = "rs" /\ Reply /\ ~UNCHANGED replies
  <2>1. /\ base + 1 \in DOMAIN stream /\ base + 1 <= filled /\ filled = base + Cap
        /\ Request \in Requests /\ Request \in Nat /\ Request = stream[base + 1].req
    BY <1>1, FullBuffer DEF Request
  <2>2. PICK r \in Requests : r = stream[base + 1].req /\ r \in Nat /\ r = Request
    BY <2>1
  <2> DEFINE S == {p \in DOMAIN stream : stream[p].req = r}
  <2>3. /\ replies' = IF gone THEN replies ELSE Append(replies, r)
        /\ StartOf(r) = Min(S) /\ EndOf(r) = Max(S)
    BY <1>4, <2>2 DEF Reply, StartOf, EndOf
  <2>4. S \in SUBSET Nat /\ base + 1 \in S /\ \A q \in S : q <= Len(stream)
    BY <2>1, <2>2, StreamType
  <2>5. \A q \in S : base + 1 <= q
    <3> SUFFICES ASSUME NEW q \in S, ~(base + 1 <= q) PROVE FALSE
      OBVIOUS
    <3>1. q \in DOMAIN stream /\ q <= base /\ base \in DOMAIN stream /\ base < base + 1
      BY StreamType
    <3>2. stream[base].part = "end"
      BY <1>1, <1>2, <1>4, <3>1, StreamType DEF Unanswered, Boundary
    <3>3. stream[base].req < r
      BY <2>1, <2>2, <3>1, <3>2, StreamType DEF InRequests
    <3>4. stream[q].req <= stream[base].req
      <4>1. q = base \/ q < base
        BY <3>1, StreamType
      <4> QED
        BY <3>1, <4>1, StreamType DEF InRequests
    <3> QED
      BY <2>2, <3>1, <3>3, <3>4, StreamType
  <2> HIDE DEF S
  <2>6. StartOf(r) = base + 1 /\ EndOf(r) \in Nat
    <3>1. Min(S) \in S /\ \A x \in S : Min(S) <= x
      BY <2>4, MinIsLeast
    <3>2. Max(S) \in S
      <4>1. Len(stream) \in Nat
        BY StreamType
      <4> QED
        BY <2>4, <4>1, MaxIsGreatest
    <3>3. Min(S) \in Nat /\ Max(S) \in Nat /\ base + 1 \in Nat
      BY <2>4, <3>1, <3>2
    <3>4. Min(S) <= base + 1 /\ base + 1 <= Min(S)
      BY <2>4, <2>5, <3>1
    <3>5. Min(S) = base + 1
      BY <3>3, <3>4
    <3> QED
      BY <2>3, <3>3, <3>5
  <2>7. \A i \in DOMAIN replies : Before(replies[i], r)
    <3>1. base + 1 \in base + 1 .. Len(stream)
      BY <2>1, StreamType
    <3> QED
      BY <1>1, <1>2, <2>2, <3>1 DEF Unanswered
  <2>8. /\ InOrder'
        /\ \A i \in DOMAIN replies' :
              \/ replies'[i] = r /\ i = Len(replies')
              \/ i \in DOMAIN replies /\ replies'[i] = replies[i]
    BY <1>1, <1>2, <2>3, <2>7, OneMoreInOrder
  <2>9. EndOf(r) <= filled \/ EndOf(r) - StartOf(r) >= Cap
    BY <2>1, <2>6, StreamType, KeepAliveAssumption
  <2>10. ASSUME NEW i \in DOMAIN replies'
         PROVE  /\ replies'[i] \in Requests
                /\ EndOf(replies'[i]) <= filled \/ RefusedTooLong(i)'
    <3>1. CASE i \in DOMAIN replies /\ replies'[i] = replies[i]
      BY <1>2, <3>1 DEF Arrived
    <3>2. CASE replies'[i] = r /\ i = Len(replies')
      <4>1. EndOf(r)' = EndOf(r) /\ StartOf(r)' = StartOf(r) /\ Buffered' = Cap
        BY <1>1 DEF EndOf, StartOf, Buffered
      <4>2. \/ EndOf(r) <= filled
            \/ /\ Buffered' = Cap /\ base' + 1 = StartOf(r)'
               /\ EndOf(r)' - StartOf(r)' >= Cap
        BY <1>1, <2>6, <2>9, <4>1
      <4>3. EndOf(replies'[i]) = EndOf(r)
            /\ StartOf(replies[i])' = StartOf(r)' /\ EndOf(replies[i])' = EndOf(r)'
        BY <3>2 DEF EndOf, StartOf
      <4> QED
        BY <1>1, <1>4, <2>2, <3>2, <4>2, <4>3 DEF RefusedTooLong
    <3> QED
      BY <2>8, <3>1, <3>2
  <2>11. LastRefused'
    BY <1>1, <2>10 DEF LastRefused, Requests, EndOf
  <2> QED
    BY <1>1, <2>8, <2>11 DEF Orderly, Unanswered
<1> QED
  BY <1>3, <1>4 DEF TooLong

\* The loops of rs, cc, c and zig.
LEMMA OrderServe ==
    ASSUME TypeOK, TypeOK', OrderInv, Serve \/ ServeStuck \/ ZigOverlap \/ Refuse
    PROVE  OrderInv'
<1> USE DEF client, OrderInv
<1>1. /\ pc = "parse" /\ impl # "ex" /\ Ends # {} /\ Reply
      /\ UNCHANGED <<impl, stream, filled, timedOut, gone>>
  BY DEF Serve, ServeStuck, ZigOverlap, Refuse
<1>2. Orderly /\ Arrived /\ InOrder
  BY <1>1 DEF Orderly, LastRefused
<1> DEFINE e == Min(Ends)
           r == Request
<1>3. /\ e \in DOMAIN stream /\ stream[e].part = "end" /\ e <= filled
      /\ base + 1 \in DOMAIN stream /\ base + 1 <= e
      /\ r = stream[base + 1].req /\ r \in Requests
  <2>1. Min(Ends) \in base + 2 .. filled
    BY <1>1, FirstEnd
  <2>2. e <= filled /\ base + 1 <= e
    BY <2>1, StreamType
  <2> QED
    BY <1>1, <2>2, FirstEnd DEF Request
<1> HIDE DEF e, r
<1>4. EndOf(r) <= filled /\ \A p \in e + 1 .. Len(stream) : r < stream[p].req
  BY <1>3, EndArrived
<1>5. \A i \in DOMAIN replies : \A p \in base + 1 .. Len(stream) :
          Before(replies[i], stream[p].req)
  BY <1>1, <1>2 DEF Unanswered
<1>6. \A i \in DOMAIN replies : Before(replies[i], r)
  <2>1. base + 1 \in base + 1 .. Len(stream)
    BY <1>3, StreamType
  <2> QED
    BY <1>3, <1>5, <2>1
<1>7. replies' = IF gone THEN replies ELSE Append(replies, r)
  BY <1>1 DEF Reply, r
<1>8. /\ Arrived' /\ InOrder'
      /\ \A i \in DOMAIN replies' : replies'[i] = r \/
             (i \in DOMAIN replies /\ replies'[i] = replies[i])
  BY <1>1, <1>2, <1>3, <1>4, <1>6, <1>7, OneMore
<1>9. CASE Serve
  <2>1. pc' = "closed" \/ (pc' \in {"read", "parse"} /\ base' = e)
    BY <1>9 DEF Serve, e
  <2>2. ASSUME base' = e, NEW i \in DOMAIN replies', NEW p \in e + 1 .. Len(stream)
        PROVE  Before(replies'[i], stream[p].req)
    <3>1. p \in base + 1 .. Len(stream)
      BY <1>3, StreamType
    <3>2. CASE replies'[i] = r
      BY <1>4, <3>2 DEF Before
    <3>3. CASE i \in DOMAIN replies /\ replies'[i] = replies[i]
      BY <1>5, <3>1, <3>3
    <3> QED
      BY <1>8, <3>2, <3>3
  <2>3. base' = e => Boundary(base)'
    BY <1>1, <1>3 DEF Boundary
  <2> QED
    BY <1>1, <1>8, <2>1, <2>2, <2>3 DEF Orderly, Unanswered, Before, IsKind
<1>10. CASE ServeStuck
  <2>1. /\ impl = "rs" /\ base' = base /\ pc' \in {"closed", "parse"}
        /\ IsKind(r, "missing")
    BY <1>3, <1>10 DEF ServeStuck, Stuck, Kind, IsKind
  <2>2. ASSUME NEW i \in DOMAIN replies', NEW p \in base + 1 .. Len(stream)
        PROVE  Before(replies'[i], stream[p].req)
    <3>1. p \in DOMAIN stream /\ (p = base + 1 \/ base + 1 < p)
      BY StreamType
    <3>2. r <= stream[p].req
      BY <1>3, <3>1, StreamType DEF InRequests
    <3>3. CASE replies'[i] = r
      <4>1. r < stream[p].req \/ r = stream[p].req
        BY <1>3, <3>1, <3>2, StreamType
      <4> QED
        BY <2>1, <3>3, <4>1 DEF Before
    <3>4. CASE i \in DOMAIN replies /\ replies'[i] = replies[i]
      BY <1>5, <3>4
    <3> QED
      BY <1>8, <3>3, <3>4
  <2>3. Boundary(base)'
    BY <1>1, <1>2, <2>1 DEF Unanswered, Boundary
  <2> QED
    BY <1>1, <1>8, <2>1, <2>2, <2>3 DEF Orderly, Unanswered, Before, IsKind
<1>11. CASE ZigOverlap \/ Refuse
  <2>1. pc' \in {"closed", "panicked"}
    BY <1>11 DEF ZigOverlap, Refuse
  <2> QED
    BY <1>1, <1>8, <2>1 DEF Orderly, Unanswered
<1> QED
  BY <1>9, <1>10, <1>11

LEMMA OrderDrop ==
    ASSUME TypeOK, TypeOK', OrderInv, DropBuffer
    PROVE  OrderInv'
<1> USE DEF client, OrderInv
<1>1. /\ pc = "parse" /\ impl \in {"cc", "zig"} /\ Ends # {}
      /\ base' = filled /\ pc' = "read"
      /\ UNCHANGED <<impl, stream, filled, timedOut, gone>>
  BY DEF DropBuffer
<1>2. Orderly /\ Arrived /\ InOrder
  BY <1>1 DEF Orderly, LastRefused
<1> DEFINE e == Min(Ends)
           r == Request
<1>3. /\ e \in DOMAIN stream /\ stream[e].part = "end" /\ e <= filled
      /\ base + 1 \in DOMAIN stream /\ base + 1 <= e
      /\ r = stream[base + 1].req /\ r \in Requests
  <2>1. Min(Ends) \in base + 2 .. filled
    BY <1>1, FirstEnd
  <2>2. e <= filled /\ base + 1 <= e
    BY <2>1, StreamType
  <2> QED
    BY <1>1, <2>2, FirstEnd DEF Request
<1> HIDE DEF e
<1>4. EndOf(r) <= filled /\ \A p \in e + 1 .. Len(stream) : r < stream[p].req
  <2> HIDE DEF r
  <2> QED
    BY <1>3, EndArrived
<1>5. \A i \in DOMAIN replies : \A p \in base + 1 .. Len(stream) :
          Before(replies[i], stream[p].req)
  BY <1>1, <1>2 DEF Unanswered
<1>6. \A i \in DOMAIN replies : Before(replies[i], r)
  <2>1. base + 1 \in base + 1 .. Len(stream)
    BY <1>3, StreamType
  <2> QED
    BY <1>3, <1>5, <2>1
<1>7. \/ UNCHANGED replies
      \/ replies' = IF gone THEN replies ELSE Append(replies, r)
  BY DEF DropBuffer, Reply
<1> HIDE DEF r
<1>8. /\ Arrived' /\ InOrder'
      /\ \A i \in DOMAIN replies' : replies'[i] = r \/
             (i \in DOMAIN replies /\ replies'[i] = replies[i])
  <2>1. CASE UNCHANGED replies
    BY <1>1, <1>2, <2>1 DEF Arrived, InOrder, Before, IsKind, Requests, EndOf
  <2>2. CASE replies' = IF gone THEN replies ELSE Append(replies, r)
    BY <1>1, <1>2, <1>3, <1>4, <1>6, <2>2, OneMore
  <2> QED
    BY <1>7, <2>1, <2>2
<1>9. ASSUME NEW i \in DOMAIN replies', NEW p \in filled + 1 .. Len(stream)
      PROVE  Before(replies'[i], stream[p].req)
  <2>1. p \in e + 1 .. Len(stream) /\ p \in base + 1 .. Len(stream)
    BY <1>3, StreamType
  <2>2. CASE replies'[i] = r
    BY <1>4, <2>1, <2>2 DEF Before
  <2>3. CASE i \in DOMAIN replies /\ replies'[i] = replies[i]
    BY <1>5, <2>1, <2>3
  <2> QED
    BY <1>8, <2>2, <2>3
<1> QED
  BY <1>1, <1>8, <1>9 DEF Orderly, Unanswered, Before, IsKind

\* The loop of ex.
LEMMA OrderEx ==
    ASSUME TypeOK, TypeOK', OrderInv, ExLine \/ ExServe \/ ExRecvFails
    PROVE  OrderInv'
<1> USE DEF client, OrderInv
<1>1. /\ impl = "ex" /\ pc \in {"line", "skip"}
      /\ UNCHANGED <<impl, stream, filled, gone>>
  BY DEF ExLine, ExServe, ExRecvFails, ExWaits
<1>2. CASE ExLine
  <2>1. /\ pc = "line" /\ pc' = "skip" /\ base' = base + 1
        /\ line' = IF stream[base + 1].part = "line" THEN Request ELSE 0
        /\ Buffered > 0
        /\ UNCHANGED <<replies, timedOut>>
    BY <1>2 DEF ExLine
  <2> SUFFICES ASSUME Orderly' PROVE Arrived' /\ InOrder' /\ Unanswered'
    BY <1>1, <2>1
  <2>2. Orderly /\ Arrived /\ InOrder /\ Unanswered
    BY <1>1, <2>1 DEF Orderly, LastRefused
  <2>3. base + 1 \in DOMAIN stream /\ base + 1 \in base + 1 .. Len(stream)
        /\ (base + 1) - 1 = base /\ base + 1 >= 1 /\ base \in Nat
    BY <2>1, StreamType DEF Buffered
  <2>4. stream[base + 1].part = "line"
    <3>1. base + 1 = 1 \/ stream[(base + 1) - 1].part = "end"
      BY <2>1, <2>2, <2>3 DEF Unanswered, Boundary
    <3> QED
      BY <2>3, <3>1, StreamType DEF InRequests
  <2>5. line' = stream[base + 1].req
    BY <2>1, <2>4 DEF Request
  <2>6. \A i \in DOMAIN replies : replies[i] < line'
    BY <1>1, <2>1, <2>2, <2>3, <2>5 DEF Unanswered, Before
  <2>7. Arrived' /\ InOrder'
    BY <1>1, <2>1, <2>2 DEF Arrived, InOrder, Before, IsKind, Requests, EndOf
  <2>8. Unanswered'
    BY <1>1, <2>1, <2>3, <2>5, <2>6 DEF Unanswered
  <2> QED
    BY <2>7, <2>8
<1>3. CASE ExServe
  <2> DEFINE e == Min(Ends)
  <2>1. /\ pc = "skip" /\ Ends # {} /\ pc' = "line" /\ base' = e
        /\ replies' = IF gone THEN replies ELSE Append(replies, line)
        /\ UNCHANGED timedOut
    BY <1>3 DEF ExServe, ExReply
  <2> SUFFICES ASSUME Orderly' PROVE Arrived' /\ InOrder' /\ Unanswered'
    BY <1>1, <2>1
  <2>2. Orderly /\ Arrived /\ InOrder /\ Unanswered
    BY <1>1, <2>1 DEF Orderly, LastRefused
  <2>3. /\ e \in DOMAIN stream /\ stream[e].part = "end" /\ e <= filled
        /\ base \in DOMAIN stream /\ base <= e
        /\ line = stream[base].req /\ line \in Requests
        /\ \A i \in DOMAIN replies : replies[i] < line
    <3>1. Min(Ends) \in base + 2 .. filled /\ base >= 1
      BY <2>1, <2>2, FirstEnd DEF Unanswered
    <3>2. e <= filled /\ base <= e /\ base \in DOMAIN stream
      BY <3>1, StreamType
    <3> QED
      BY <2>1, <2>2, <3>2, FirstEnd, StreamType DEF Unanswered
  <2> HIDE DEF e
  <2>4. EndOf(line) <= filled /\ \A p \in e + 1 .. Len(stream) : line < stream[p].req
    BY <2>3, EndArrived
  <2>5. \A i \in DOMAIN replies : Before(replies[i], line)
    BY <2>3 DEF Before
  <2>6. /\ Arrived' /\ InOrder'
        /\ \A i \in DOMAIN replies' : replies'[i] = line \/
               (i \in DOMAIN replies /\ replies'[i] = replies[i])
    BY <1>1, <2>1, <2>2, <2>3, <2>4, <2>5, OneMore
  <2>7. ASSUME NEW i \in DOMAIN replies', NEW p \in e + 1 .. Len(stream)
        PROVE  replies'[i] < stream[p].req
    <3>1. line < stream[p].req /\ p \in DOMAIN stream
      BY <2>3, <2>4, StreamType
    <3>2. CASE replies'[i] = line
      BY <3>1, <3>2
    <3>3. CASE i \in DOMAIN replies /\ replies'[i] = replies[i]
      <4>1. replies[i] < line /\ replies[i] \in Requests
        BY <2>2, <2>3, <3>3 DEF Arrived
      <4>2. \A q \in Requests : q \in Nat
        BY StreamType DEF Requests
      <4> QED
        BY <2>3, <3>1, <3>3, <4>1, <4>2, StreamType
    <3> QED
      BY <2>6, <3>2, <3>3
  <2> QED
    BY <1>1, <2>1, <2>3, <2>6, <2>7 DEF Unanswered, Boundary, Before
<1>4. CASE ExRecvFails
  <2>1. CASE pc = "line"
    <3>1. pc' = "closed" /\ UNCHANGED <<replies, timedOut>>
      BY <1>4, <2>1 DEF ExRecvFails
    <3>2. Orderly => Arrived /\ InOrder
      BY <2>1 DEF LastRefused
    <3>3. Orderly => Arrived' /\ InOrder'
      BY <1>1, <3>1, <3>2 DEF Arrived, InOrder, Before, IsKind, Requests, EndOf
    <3> QED
      BY <1>1, <3>1, <3>3 DEF Orderly, Unanswered
  <2>2. CASE pc = "skip"
    <3>1. timedOut' = TRUE /\ pc' = "line"
      BY <1>4, <2>2 DEF ExRecvFails, ExReply
    <3> QED
      BY <1>1, <3>1 DEF Orderly
  <2> QED
    BY <1>1, <2>1, <2>2
<1> QED
  BY <1>2, <1>3, <1>4

\* Reading more moves nothing that was answered.
LEMMA OrderKept ==
    ASSUME TypeOK, TypeOK', OrderInv, UNCHANGED <<impl, stream, base, line, replies, timedOut>>,
           filled <= filled', pc = "closed" => filled' = filled,
           \/ pc' = pc
           \/ pc \in {"read", "parse"} /\ pc' \in {"read", "parse", "closed"}
    PROVE  OrderInv'
<1> USE DEF OrderInv
<1>1. SUFFICES Orderly => (Arrived \/ LastRefused)' /\ InOrder' /\ Unanswered'
  BY DEF Orderly
<1>2. ASSUME Orderly PROVE (Arrived \/ LastRefused)' /\ InOrder' /\ Unanswered'
  <2>1. InOrder' /\ Unanswered'
    BY <1>2 DEF InOrder, Unanswered, Before, IsKind, Boundary
  <2>2. ASSUME Arrived PROVE Arrived'
    <3> SUFFICES ASSUME NEW i \in DOMAIN replies
                 PROVE  replies[i] \in Requests /\ EndOf(replies[i]) <= filled'
      BY DEF Arrived, Requests, EndOf
    <3>1. replies[i] \in Requests /\ EndOf(replies[i]) <= filled
      BY <2>2 DEF Arrived
    <3>2. EndOf(replies[i]) \in Nat
      <4> DEFINE S == {p \in DOMAIN stream : stream[p].req = replies[i]}
      <4>1. S \in SUBSET Nat /\ S # {} /\ \A p \in S : p <= Len(stream)
        BY <3>1, StreamType DEF Requests
      <4>2. EndOf(replies[i]) = Max(S)
        BY DEF EndOf
      <4> HIDE DEF S
      <4> QED
        BY <4>1, <4>2, StreamType, MaxIsGreatest
    <3>3. filled \in Nat /\ filled' \in Nat
      BY DEF TypeOK
    <3> QED
      BY <3>1, <3>2, <3>3
  <2>3. ASSUME LastRefused PROVE LastRefused'
    <3>1. filled' = filled /\ pc' = "closed"
      BY <2>3 DEF LastRefused
    <3> QED
      BY <2>3, <3>1 DEF LastRefused, RefusedTooLong, Requests, EndOf, StartOf, Buffered
  <2> QED
    BY <1>2, <2>1, <2>2, <2>3
<1> QED
  BY <1>2

LEMMA OrderNext ==
    ASSUME TypeOK, OrderInv, [Next]_vars
    PROVE  OrderInv'
<1>1. TypeOK'
  BY TypeNext
<1>2. filled <= filled /\ filled <= sent
  BY StreamType
<1>3. CASE ClientSend \/ ClientClose \/ ReadEof \/ Incomplete \/ UNCHANGED vars
  BY <1>1, <1>2, <1>3, OrderKept DEF ClientSend, ClientClose, ReadEof, Incomplete,
     vars, client
<1>4. CASE Read
  <2>1. filled <= filled'
    <3> DEFINE both == {sent, base + Cap}
    <3>1. both \in SUBSET Nat /\ \A x \in both : filled <= x
      BY <1>4, StreamType, KeepAliveAssumption DEF Read, Buffered
    <3>2. Min(both) \in both
      BY <3>1, MinIsLeast
    <3>3. filled' = Min(both)
      BY <1>4 DEF Read
    <3> HIDE DEF both
    <3> QED
      BY <3>1, <3>2, <3>3
  <2> QED
    BY <1>1, <1>4, <2>1, OrderKept DEF Read, client
<1>5. CASE ExRecv
  BY <1>1, <1>2, <1>5, OrderKept DEF ExRecv, ExWaits, client
<1> QED
  BY <1>1, <1>3, <1>4, <1>5, OrderServe, OrderDrop, OrderEx, OrderTooLong
     DEF Next, Handler

\* However the network cuts a stream of requests, all five keep-alive loops
\* answer requests that have arrived whole, in their order, and once, but for the
\* file that rs cannot serve and for the recv of ex that times out; and rs refuses,
\* with its last reply, a request that is longer than its buffer and no other.
THEOREM OrderOfReplies == Spec => []RepliesInOrder
<1>1. Init => TypeOK /\ OrderInv
  BY TypeInit, OrderInit
<1>2. TypeOK /\ OrderInv /\ [Next]_vars => TypeOK' /\ OrderInv'
  BY TypeNext, OrderNext
<1>3. OrderInv => RepliesInOrder
  BY DEF OrderInv, RepliesInOrder, Arrived, LastRefused, InOrder, Before
<1> QED
  BY <1>1, <1>2, <1>3, PTL DEF Spec
=============================================================================
