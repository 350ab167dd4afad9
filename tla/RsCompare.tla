----------------------------- MODULE RsCompare -----------------------------
(***************************************************************************)
(* handle_client in the two comparison servers of backend_rs:              *)
(* compare1/main1.rs ("rs1", GET only) and compare2/main2.rs ("rs2", more  *)
(* of HTTP, and timeouts), from the socket to the replies.                 *)
(*                                                                         *)
(* A request arrives as a head (its line and its header lines), the empty  *)
(* line that ends it, and perhaps a body: text without spaces or line      *)
(* ends, so that what follows it runs on from it.  The buffer is always a  *)
(* part of what the client sent: the tokens base + 1 .. filled.            *)
(***************************************************************************)
EXTENDS Naturals, SequencesExt

CONSTANTS
    Impls,         \* the programs to run: a subset of {"rs1", "rs2"}
    Scripts,       \* what clients may ask: sequences of requests
    Caps           \* how many tokens may fit the buffer

Methods == {"GET", "POST", "PUT", "DELETE", "PATCH", "HEAD", "OPTIONS",
            "CONNECT", "TRACE"}

Ask == [method     : Methods \cup {"unknown", "garbled"},  \* garbled: no spaces
        target     : {"home", "json", "dynamic", "missing", "room", "noroom"},
        version    : {"1.0", "1.1", "2.0", "unknown", "none"},
        connection : {"none", "keep-alive", "close"},
        upgrade    : {"none", "websocket", "h2c"},
        key        : BOOLEAN,          \* it has a Sec-WebSocket-Key
        many       : BOOLEAN,          \* MAX_HEADERS header lines or more
        body       : {"none", "whole", "huge", "chunked"}]

ASSUME CompareAssumption ==
    /\ Impls \subseteq {"rs1", "rs2"}
    /\ \A s \in Scripts : s \in Seq(Ask)
    /\ Caps \subseteq Nat \ {0}

VARIABLES
    impl,          \* the program that runs
    cap,           \* tokens that fit its buffer: heads differ in length
    script,        \* the requests of this client
    stream,        \* their tokens
    sent,          \* how many tokens it has sent
    gone,          \* it has closed the connection
    base, filled,  \* the buffer holds the tokens base + 1 .. filled
    pc,
    replies        \* the requests answered, 0 for a part of one, with statuses

input == <<impl, cap, script, stream>>
vars == <<input, sent, gone, base, filled, pc, replies>>

Buffered == filled - base
Over == pc \in {"closed", "room"}

\* Only a body of the announced length is sent: of the others, nothing.
Tokens(s) ==
    LET parts(r) == IF s[r].body = "whole" THEN <<"head", "end", "body">>
                                           ELSE <<"head", "end">>
    IN  FlattenSeq([r \in DOMAIN s |->
            [i \in DOMAIN parts(r) |-> [req |-> r, part |-> parts(r)[i]]]])

Init ==
    /\ impl \in Impls
    /\ cap \in Caps
    /\ script \in Scripts
    /\ stream = Tokens(script)
    /\ sent = 0
    /\ gone = FALSE
    /\ base = 0
    /\ filled = 0
    /\ pc = "read"
    /\ replies = <<>>

ClientSend ==
    /\ ~gone /\ ~Over
    /\ sent < Len(stream)
    /\ sent' = sent + 1
    /\ UNCHANGED <<input, gone, base, filled, pc, replies>>

ClientClose ==
    /\ ~gone
    /\ gone' = TRUE
    /\ UNCHANGED <<input, sent, base, filled, pc, replies>>

-----------------------------------------------------------------------------
(* Reading.                                                                *)

\* Mutant: the room left in the buffer is computed one too large.
ReadOverfull ==
    /\ pc = "read"
    /\ filled < sent
    /\ filled' = Min({sent, base + cap + 1})
    /\ pc' = "parse"
    /\ UNCHANGED <<input, sent, gone, base, replies>>

\* A read returns what has arrived and fits.
Read ==
    /\ pc = "read"
    /\ filled < sent
    /\ filled' = Min({sent, base + cap})
    /\ pc' = "parse"
    /\ UNCHANGED <<input, sent, gone, base, replies>>

\* Mutant: rs2 reads on after a timeout, as main.rs does when a read would
\* block.
ReadEndsNot ==
    /\ pc = "read"
    /\ filled = sent
    /\ gone /\ impl = "rs1"
    /\ pc' = "closed"
    /\ UNCHANGED <<input, sent, gone, base, filled, replies>>

\* End of file; rs2 also gives up when nothing arrives for six seconds.
ReadEnds ==
    /\ pc = "read"
    /\ filled = sent
    /\ gone \/ impl = "rs2"
    /\ pc' = "closed"
    /\ UNCHANGED <<input, sent, gone, base, filled, replies>>

-----------------------------------------------------------------------------
(* The request in front of the buffer.                                     *)

Window == base + 1 .. filled
Ends == {p \in Window : stream[p].part = "end"}
End == Min(Ends)
Number == IF Ends = {} THEN 0 ELSE stream[End].req
Request == script[Number]

\* The body of an earlier request is still in front of the request line.
Glued == stream[base + 1].part = "body"

\* A reply is written; a client that is gone does not get it.
Answer(status) ==
    replies' = IF gone THEN replies
               ELSE Append(replies, [req |-> Number, status |-> status])

Handled(status, next) ==
    /\ Answer(status)
    /\ pc' = next
    /\ UNCHANGED <<input, sent, gone, filled>>

\* GET for a path of its own: what both programs serve.
Page(q) == IF q.target \in {"home", "json", "dynamic"} THEN 200 ELSE 404

-----------------------------------------------------------------------------
(* rs1: all the requests of the buffer, then a read.                       *)

\* Nothing more to process.  A full buffer that holds no whole request has
\* no room to read the rest of it.
Incomplete1 ==
    /\ impl = "rs1" /\ pc = "parse"
    /\ Ends = {}
    /\ IF Buffered = cap THEN Handled(400, "closed")
       ELSE pc' = "read" /\ UNCHANGED <<input, sent, gone, filled, replies>>
    /\ UNCHANGED base

\* parse_method and parse_path look for spaces in all that is buffered.
Spaceless ==
    \A p \in Window :
        stream[p].part = "head" => script[stream[p].req].method = "garbled"

\* find_header_value looks at all that is buffered, too.
Heads == {p \in Window : stream[p].part = "head"}
Upgrades == {p \in Heads : script[stream[p].req].upgrade # "none"}
AsksUpgrade1 ==
    /\ \E p \in Heads : script[stream[p].req].key
    /\ Upgrades # {}
    /\ script[stream[Min(Upgrades)].req].upgrade = "websocket"

IsGet == ~Glued /\ Request.method = "GET"

Refuse1 ==
    /\ impl = "rs1" /\ pc = "parse"
    /\ Ends # {}
    /\ Spaceless \/ (IsGet /\ Request.target = "noroom")
    /\ Handled(400, "closed")
    /\ UNCHANGED base

Upgrade1 ==
    /\ impl = "rs1" /\ pc = "parse"
    /\ Ends # {}
    /\ IsGet /\ Request.target = "room" /\ AsksUpgrade1
    /\ Handled(101, IF gone THEN "closed" ELSE "room")
    /\ UNCHANGED base

Serves1 ==
    /\ impl = "rs1" /\ pc = "parse"
    /\ Ends # {} /\ ~Spaceless
    /\ ~(IsGet /\ Request.target = "noroom")
    /\ ~(IsGet /\ Request.target = "room" /\ AsksUpgrade1)

Status1 == IF IsGet THEN Page(Request) ELSE 405

\* Mutant: the last request in the buffer is not removed from it.
Serve1Kept ==
    /\ Serves1
    /\ Handled(Status1, IF gone THEN "closed" ELSE "parse")
    /\ base' = IF End < filled THEN End ELSE base

\* Mutant: one request is served for each read.
Serve1ThenRead ==
    /\ Serves1
    /\ Handled(Status1, IF gone THEN "closed" ELSE "read")
    /\ base' = End

\* A failed write ends the handler.
Serve1 ==
    /\ Serves1
    /\ Handled(Status1, IF gone THEN "closed" ELSE "parse")
    /\ base' = End

-----------------------------------------------------------------------------
(* rs2: a read before each request.                                        *)

\* parse_http_request: the errors in the order of the checks, 0 for none.
\* Key and value of a header line always fit MAX_HEADER_SIZE.
Refusal2 ==
    CASE Ends = {} -> 400
      [] Ends # {} /\ (Glued \/ Request.method \notin Methods) -> 405
      [] OTHER ->
            CASE Request.version = "none" -> 400
              [] Request.version = "unknown" -> 505
              [] Request.many -> 429
              [] Request.body = "huge" -> 413
              [] Request.body = "whole" /\ End = filled -> 400
              [] Request.body = "chunked" -> 501
              [] OTHER -> 0

Chat2 == Request.method = "GET" /\ Request.target \in {"room", "noroom"}

AsksUpgrade2(q) == q.target = "room" /\ q.upgrade = "websocket" /\ q.key

Refuse2 ==
    /\ impl = "rs2" /\ pc = "parse"
    /\ Refusal2 # 0
    /\ Handled(Refusal2, "closed")
    /\ UNCHANGED base

Upgrade2 ==
    /\ impl = "rs2" /\ pc = "parse"
    /\ Refusal2 = 0 /\ Chat2
    /\ AsksUpgrade2(Request)
    /\ Handled(101, IF gone THEN "closed" ELSE "room")
    /\ UNCHANGED base

\* /chat without an upgrade, or without a room.
NotChat2 ==
    /\ impl = "rs2" /\ pc = "parse"
    /\ Refusal2 = 0 /\ Chat2
    /\ ~AsksUpgrade2(Request)
    /\ Handled(IF Request.target = "noroom" THEN 400 ELSE 404, "closed")
    /\ UNCHANGED base

Status2(q) ==
    CASE q.method \in {"GET", "HEAD"} -> Page(q)
      [] q.method \in {"POST", "PATCH"} -> 200
      [] q.method = "PUT" -> 201
      [] q.method \in {"DELETE", "OPTIONS"} -> 204
      [] OTHER -> 405

KeepAlive2(q) ==
    IF q.connection # "none" THEN q.connection = "keep-alive"
                             ELSE q.version = "1.1"

\* Only the headers leave the buffer: a body is parsed as the next request.
Serve2 ==
    /\ impl = "rs2" /\ pc = "parse"
    /\ Refusal2 = 0 /\ ~Chat2
    /\ Handled(Status2(Request),
               IF ~gone /\ KeepAlive2(Request) THEN "read" ELSE "closed")
    /\ base' = End

-----------------------------------------------------------------------------
Handler ==
    \/ Read \/ ReadEnds
    \/ Incomplete1 \/ Refuse1 \/ Upgrade1 \/ Serve1
    \/ Refuse2 \/ Upgrade2 \/ NotChat2 \/ Serve2

Next == ClientSend \/ ClientClose \/ Handler

Spec == Init /\ [][Next]_vars

\* The handler's thread runs and its timers expire; nothing is assumed of the
\* client.
FairSpec == Spec /\ WF_vars(Handler)

-----------------------------------------------------------------------------
(* Properties.                                                             *)

Statuses == {101, 200, 201, 204, 400, 404, 405, 413, 429, 501, 505}

\* Every variable has its type and the buffer its limit.
TypeOK ==
    /\ impl \in Impls /\ cap \in Caps
    /\ script \in Scripts /\ stream = Tokens(script)
    /\ gone \in BOOLEAN
    /\ sent \in 0..Len(stream)
    /\ filled \in 0..sent /\ base \in 0..filled
    /\ Buffered <= cap
    /\ pc \in {"read", "parse", "closed", "room"}
    /\ replies \in Seq([req : {0} \cup DOMAIN script, status : Statuses])

\* What the routes of each program say to a request, taken for itself.
Due1(q) ==
    CASE q.method = "garbled" -> {400, 405}
      [] q.method # "GET" -> {405}
      [] q.target = "noroom" -> {400}
      [] q.target = "room" -> IF AsksUpgrade2(q) THEN {101} ELSE {404}
      [] OTHER -> {Page(q)}

\* rs1 takes the headers of a later request for those of this one.
Leaks(i) ==
    /\ script[i].method = "GET" /\ script[i].target = "room"
    /\ \E j \in i + 1 .. Len(script) :
          script[j].upgrade # "none" \/ script[j].key

Due2(q) ==
    CASE q.method \notin Methods -> {405}
      [] q.version = "none" -> {400}
      [] q.version = "unknown" -> {505}
      [] q.many -> {429}
      [] q.body = "huge" -> {413}
      [] q.body = "chunked" -> {501}
      [] q.method = "GET" /\ q.target = "noroom" -> {400}
      [] AsksUpgrade2(q) /\ q.method = "GET" -> {101}
      [] OTHER -> {Status2(q)}

\* Replies that are not 200 and end the conversation in the middle of a
\* request: its rest was late (rs2) or had no room (rs1).
Cut(i) == i = Len(replies) /\ replies[i].status = 400 /\ pc = "closed"

\* However reads cut the requests, the i-th reply is the one due to the i-th
\* request, until one of them has a body (its bytes then garble the next);
\* nothing follows a reply that closes.
RepliesInStep ==
    \A i \in DOMAIN replies :
        (\A j \in 1..Min({i, Len(script)}) - 1 : script[j].body # "whole") =>
            \/ Cut(i)
            \/ /\ replies[i].req = i
               /\ impl = "rs1" =>
                    replies[i].status \in
                        Due1(script[i])
                            \cup (IF Leaks(i) THEN {101, 404} ELSE {})
               /\ impl = "rs2" =>
                    /\ replies[i].status \in Due2(script[i])
                    /\ i < Len(replies) => /\ script[i].connection # "close"
                                           /\ script[i].version = "1.0" =>
                                                script[i].connection = "keep-alive"

Longest == Max({Len(s) : s \in Scripts})

\* rs1 answers all the requests that were sent, with no need to send more, or
\* leaves the loop.
PipelinedAnswered ==
    \A r \in 1..Longest :
        (impl = "rs1" /\ r \in DOMAIN script /\ sent = Len(stream))
            ~> (Over \/ gone \/ \E i \in DOMAIN replies : replies[i].req = r)

\* A handler that is not in a room comes to its end and frees its worker when
\* its client is gone; rs2 does when the client is silent.
HandlerReturns ==
    (gone \/ (impl = "rs2" /\ sent = Len(stream))) ~> Over
=============================================================================
