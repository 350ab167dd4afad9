----------------------------- MODULE KeepAlive -----------------------------
(***************************************************************************)
(* The keep-alive loop: how one connection's handler turns the bytes it    *)
(* reads into requests and answers them.  Five programs write this loop    *)
(* by hand and differ in when they read, what they keep and what they      *)
(* drop: backend_rs/src/main.rs ("rs"), backend_cc/main.cc ("cc"),         *)
(* backend_c/main.c ("c"), backend_zig/main.zig ("zig") and                *)
(* backend_ex/main.ex ("ex").                                              *)
(*                                                                         *)
(* A token is a line with its CRLF: a request is its request line, its     *)
(* header lines and an empty line.  The buffer of a handler is always a    *)
(* part of what the client sent, so it is kept as two positions.           *)
(***************************************************************************)
EXTENDS Naturals, Sequences, FiniteSetsExt

CONSTANTS
    Impls,         \* the programs to run: a subset of the five above
    Streams,       \* what clients may send: sequences of tokens
    Cap,           \* tokens that fit the buffer (all but "ex" have a limit)
    MaxReplies     \* bound: the replies of a handler that never stops

Token == [req : Nat \ {0}, part : {"line", "header", "end"},
          kind : {"route", "missing", "malformed"}]

\* The requests come one after the other; each begins with its line and is over
\* with its empty line.
InRequests(s) ==
    /\ \A p, q \in DOMAIN s : p < q =>
           s[p].req <= s[q].req /\ (s[p].part = "end" => s[p].req < s[q].req)
    /\ \A p \in DOMAIN s : p = 1 \/ s[p - 1].part = "end" => s[p].part = "line"

ASSUME KeepAliveAssumption ==
    /\ Impls \subseteq {"rs", "cc", "c", "zig", "ex"}
    /\ \A s \in Streams : s \in Seq(Token) /\ InRequests(s)
    /\ Cap \in Nat \ {0}
    /\ MaxReplies \in Nat

VARIABLES
    impl,          \* the program that runs
    stream,        \* what this client sends
    patient,       \* it sends a request only when the last one was answered
    sent,          \* how many tokens it has sent
    gone,          \* it has closed the connection
    base, filled,  \* the buffer holds the tokens base + 1 .. filled
    pc,
    line,          \* ex: the request whose line was read last
    replies,       \* the requests answered so far; 0 for none that was sent
    timedOut       \* ex: a recv ran into its five seconds while it skipped

client == <<stream, patient, sent, gone>>
vars == <<impl, client, base, filled, pc, line, replies, timedOut>>

Over == pc \in {"closed", "panicked"}
Buffered == filled - base

Init ==
    /\ impl \in Impls
    /\ stream \in Streams
    /\ patient \in BOOLEAN
    /\ sent = 0
    /\ gone = FALSE
    /\ base = 0
    /\ filled = 0
    /\ pc = IF impl = "ex" THEN "line" ELSE "read"
    /\ line = 0
    /\ replies = <<>>
    /\ timedOut = FALSE

-----------------------------------------------------------------------------
(* The client.                                                             *)

Answered(r) == \E i \in DOMAIN replies : replies[i] = r

ClientSend ==
    /\ ~gone /\ ~Over
    /\ sent < Len(stream)
    /\ LET t == stream[sent + 1]
       IN  patient /\ t.part = "line" /\ t.req > 1 => Answered(t.req - 1)
    /\ sent' = sent + 1
    /\ UNCHANGED <<impl, stream, patient, gone, base, filled, pc, line, replies,
                   timedOut>>

ClientClose ==
    /\ ~gone
    /\ gone' = TRUE
    /\ UNCHANGED <<impl, stream, patient, sent, base, filled, pc, line, replies,
                   timedOut>>

-----------------------------------------------------------------------------
(* rs, cc, c, zig: read whatever has arrived and fits.  (They skip the     *)
(* read when the buffer is full, but then parsing has closed already.)     *)

\* Mutant: the room left in the buffer is computed one too large.
ReadOverfull ==
    /\ pc = "read"
    /\ Buffered < Cap
    /\ filled < sent
    /\ filled' = Min({sent, base + Cap + 1})
    /\ pc' = "parse"
    /\ UNCHANGED <<impl, client, base, line, replies, timedOut>>

Read ==
    /\ pc = "read"
    /\ Buffered < Cap
    /\ filled < sent
    /\ filled' = Min({sent, base + Cap})
    /\ pc' = "parse"
    /\ UNCHANGED <<impl, client, base, line, replies, timedOut>>

\* Mutant: an end of file is taken for an interrupted call.
ReadEofRetried ==
    /\ pc = "read"
    /\ Buffered < Cap
    /\ filled = sent /\ gone
    /\ pc' = "parse"
    /\ UNCHANGED <<impl, client, base, filled, line, replies, timedOut>>

ReadEof ==
    /\ pc = "read"
    /\ Buffered < Cap
    /\ filled = sent /\ gone
    /\ pc' = "closed"
    /\ UNCHANGED <<impl, client, base, filled, line, replies, timedOut>>

-----------------------------------------------------------------------------
(* rs, cc, c, zig: parse.                                                  *)

\* Where an empty line that follows another line is in the buffer.
Ends == {p \in base + 2 .. filled : stream[p].part = "end"}

\* Mutant: what came before the rest of the headers is forgotten.
IncompleteDropped ==
    /\ pc = "parse"
    /\ Ends = {} /\ Buffered < Cap
    /\ pc' = "read"
    /\ base' = filled
    /\ UNCHANGED <<impl, client, filled, line, replies, timedOut>>

\* No complete request, and room for more: read on.
Incomplete ==
    /\ pc = "parse"
    /\ Ends = {} /\ Buffered < Cap
    /\ pc' = "read"
    /\ UNCHANGED <<impl, client, base, filled, line, replies, timedOut>>

Request == stream[base + 1].req
Kind == stream[base + 1].kind

\* A reply to the current request; a client that is gone does not get it.
Reply ==
    /\ gone \/ Len(replies) < MaxReplies
    /\ replies' = IF gone THEN replies ELSE Append(replies, Request)

\* No complete request, and no room for more: close, rs after a 400.  What came
\* before in the same buffer was served and is out of it.
TooLong ==
    /\ pc = "parse"
    /\ Ends = {} /\ Buffered = Cap
    /\ IF impl = "rs" THEN Reply ELSE UNCHANGED replies
    /\ pc' = "closed"
    /\ UNCHANGED <<impl, client, base, filled, line, timedOut>>

\* A request line without spaces.  cc and c look at that line only; zig looks
\* for the spaces in the headers too, and rs in all that is buffered.
Malformed ==
    /\ Kind = "malformed"
    /\ impl = "zig" => Min(Ends) = base + 2
    /\ impl = "rs" =>
          \A p \in base + 1 .. filled :
              stream[p].part = "end" \/ (stream[p].part = "line" /\
                                            stream[p].kind = "malformed")

\* rs answers a file it cannot serve with 404 or 403 and does not move on.
Stuck == impl = "rs" /\ Kind = "missing"

\* A failed write ends the handler; but c does not look, nor does cc after the
\* reply for a file.
WriteEnds == gone /\ impl # "c" /\ ~(impl = "cc" /\ Kind = "missing")

\* Mutant: the last request in the buffer is not removed from it.
ServeKept ==
    /\ pc = "parse"
    /\ Ends # {} /\ ~Malformed /\ ~Stuck
    /\ impl = "zig" => filled - Min(Ends) <= Min(Ends) - base
    /\ Reply
    /\ IF WriteEnds
         THEN pc' = "closed" /\ UNCHANGED base
         ELSE /\ pc' = IF impl = "rs" THEN "parse" ELSE "read"
              /\ base' = IF Min(Ends) < filled THEN Min(Ends) ELSE base
    /\ UNCHANGED <<impl, client, filled, line, timedOut>>

\* Mutant: one request is served for each read.
ServeThenRead ==
    /\ pc = "parse"
    /\ Ends # {} /\ ~Malformed /\ ~Stuck
    /\ impl = "zig" => filled - Min(Ends) <= Min(Ends) - base
    /\ Reply
    /\ IF WriteEnds
         THEN pc' = "closed" /\ UNCHANGED base
         ELSE pc' = "read" /\ base' = Min(Ends)
    /\ UNCHANGED <<impl, client, filled, line, timedOut>>

\* Answer a request and take it out of the buffer.  Then rs looks for the next
\* one in the buffer; the others read first.
Serve ==
    /\ pc = "parse"
    /\ Ends # {} /\ ~Malformed /\ ~Stuck
    /\ impl = "zig" => filled - Min(Ends) <= Min(Ends) - base
    /\ Reply
    /\ IF WriteEnds
         THEN pc' = "closed" /\ UNCHANGED base
         ELSE /\ pc' = IF impl = "rs" THEN "parse" ELSE "read"
              /\ base' = Min(Ends)
    /\ UNCHANGED <<impl, client, filled, line, timedOut>>

ServeStuck ==
    /\ pc = "parse"
    /\ Ends # {} /\ Stuck
    /\ Reply
    /\ pc' = IF gone THEN "closed" ELSE "parse"
    /\ UNCHANGED <<impl, client, base, filled, line, timedOut>>

\* main.zig moves the rest of the buffer with @memcpy, which panics when the
\* rest is longer than the request: the two ranges overlap.  (Lengths are
\* counted in tokens here, as if all lines were equally long.)
ZigOverlap ==
    /\ impl = "zig"
    /\ pc = "parse"
    /\ Ends # {} /\ ~Malformed
    /\ filled - Min(Ends) > Min(Ends) - base
    /\ Reply
    /\ pc' = IF gone THEN "closed" ELSE "panicked"
    /\ UNCHANGED <<impl, client, base, filled, line, timedOut>>

\* rs and c answer 400 and close.
Refuse ==
    /\ impl \in {"rs", "c"}
    /\ pc = "parse"
    /\ Ends # {} /\ Malformed
    /\ Reply
    /\ pc' = "closed"
    /\ UNCHANGED <<impl, client, base, filled, line, timedOut>>

\* cc answers 404, zig nothing; both drop all that is buffered.
DropBuffer ==
    /\ impl \in {"cc", "zig"}
    /\ pc = "parse"
    /\ Ends # {} /\ Malformed
    /\ IF impl = "cc" THEN Reply ELSE UNCHANGED replies
    /\ base' = filled
    /\ pc' = "read"
    /\ UNCHANGED <<impl, client, filled, line, timedOut>>

-----------------------------------------------------------------------------
(* ex: a line, then everything up to an empty line, with no limit.         *)

ExLine ==
    /\ impl = "ex"
    /\ pc = "line"
    /\ Buffered > 0
    /\ line' = IF stream[base + 1].part = "line" THEN Request ELSE 0
    /\ base' = base + 1
    /\ pc' = "skip"
    /\ UNCHANGED <<impl, client, filled, replies, timedOut>>

ExWaits ==
    /\ impl = "ex"
    /\ \/ pc = "line" /\ Buffered = 0
       \/ pc = "skip" /\ Ends = {}

ExRecv ==
    /\ ExWaits
    /\ filled < sent
    /\ filled' = sent
    /\ UNCHANGED <<impl, client, base, pc, line, replies, timedOut>>

ExReply ==
    /\ gone \/ Len(replies) < MaxReplies
    /\ replies' = IF gone THEN replies ELSE Append(replies, line)
    /\ pc' = "line"

ExServe ==
    /\ impl = "ex"
    /\ pc = "skip"
    /\ Ends # {}
    /\ ExReply
    /\ base' = Min(Ends)
    /\ UNCHANGED <<impl, client, filled, line, timedOut>>

\* recv fails: the client is gone, or five seconds have passed.  In the middle
\* of the headers the request is answered all the same, and what was buffered
\* of them is parsed again as a request.
ExRecvFails ==
    /\ ExWaits
    /\ filled = sent
    /\ IF pc = "line"
         THEN pc' = "closed" /\ UNCHANGED <<replies, timedOut>>
         ELSE ExReply /\ timedOut' = TRUE
    /\ UNCHANGED <<impl, client, base, filled, line>>

-----------------------------------------------------------------------------
Handler ==
    \/ Read \/ ReadEof
    \/ Incomplete \/ TooLong \/ Serve \/ ServeStuck \/ ZigOverlap
    \/ Refuse \/ DropBuffer
    \/ ExLine \/ ExRecv \/ ExServe \/ ExRecvFails

Next == ClientSend \/ ClientClose \/ Handler

Spec == Init /\ [][Next]_vars

\* The handler's thread runs; nothing is assumed of the client.
FairSpec == Spec /\ WF_vars(Handler)

-----------------------------------------------------------------------------
(* Properties.                                                             *)

Requests == {stream[p].req : p \in DOMAIN stream}
EndOf(r) == Max({p \in DOMAIN stream : stream[p].req = r})
StartOf(r) == Min({p \in DOMAIN stream : stream[p].req = r})
IsKind(r, kind) ==
    \E p \in DOMAIN stream : stream[p].req = r /\ stream[p].kind = kind

\* Every variable has its type and the buffer its limit.
TypeOK ==
    /\ impl \in Impls /\ stream \in Streams /\ patient \in BOOLEAN
    /\ gone \in BOOLEAN /\ timedOut \in BOOLEAN
    /\ sent \in 0..Len(stream)
    /\ filled \in 0..sent /\ base \in 0..filled
    /\ impl # "ex" => Buffered <= Cap
    /\ pc \in {"read", "parse", "line", "skip", "closed", "panicked"}
    /\ line \in Requests \cup {0}
    /\ replies \in Seq(Requests \cup {0})

\* ex keeps requests apart as long as their headers are not slow to come.
Orderly == impl = "ex" => ~timedOut

\* rs has refused a request that is longer than the buffer, full to the brim with
\* it, and closed.
RefusedTooLong(i) ==
    /\ impl = "rs" /\ pc = "closed"
    /\ i = Len(replies)
    /\ Buffered = Cap /\ base + 1 = StartOf(replies[i])
    /\ EndOf(replies[i]) - StartOf(replies[i]) >= Cap

\* Replies come in the order of the requests, only to requests that have
\* arrived whole, and once.  There are two exceptions, both in rs: its last
\* reply may refuse a request that does not fit the buffer (main.rs:1206), and a
\* file that it cannot serve is answered again.
RepliesInOrder ==
    Orderly =>
        /\ \A i \in DOMAIN replies :
              /\ replies[i] \in Requests
              /\ EndOf(replies[i]) <= filled \/ RefusedTooLong(i)
        /\ \A i, j \in DOMAIN replies :
              i < j => \/ replies[i] < replies[j]
                       \/ /\ replies[i] = replies[j]
                          /\ impl = "rs" /\ IsKind(replies[i], "missing")

\* main.rs:1192 "Move to next request in buffer": a request is answered once.
OneReplyPerRequest ==
    \A i, j \in DOMAIN replies : replies[i] = replies[j] => i = j

\* rs has been asked for a file that it cannot serve.
Flooding ==
    impl = "rs" /\ \E i \in DOMAIN replies : IsKind(replies[i], "missing")

Excused(r) ==
    \/ Over \/ gone \/ Flooding
    \/ impl = "zig" /\ IsKind(r, "malformed")

\* A client that waits for each reply gets them all, however the network cuts
\* its requests, or the connection is closed.
PatientClientServed ==
    \A r \in 1..3 :
        (r \in Requests /\ patient /\ sent >= EndOf(r)) ~> (Answered(r) \/ Excused(r))

\* rs answers all the requests that were sent, with no need to send more
\* (main.rs:813 "Process as many complete requests as possible"); cc, c and zig
\* block in a read with a complete request in the buffer, and the next token
\* that the client sends gets it answered.
PipelinedServed ==
    \A r \in 1..3 :
        (/\ r \in Requests
         /\ \/ impl = "rs" /\ sent >= EndOf(r)
            \/ /\ impl \in {"cc", "c", "zig"}
               /\ base + 1 = StartOf(r) /\ filled >= EndOf(r) /\ sent > filled)
            ~> (Answered(r) \/ Excused(r))

\* A handler returns once its client is gone.
HandlerReturns == gone ~> Over
=============================================================================
