------------------------------ MODULE WsFrames ------------------------------
(***************************************************************************)
(* How a WebSocket handler turns the bytes it reads into frames, and which *)
(* frames it writes: the codec, and the loops of compare1/main1.rs ("rs",  *)
(* the same in main.rs), main.cc ("cc") and main_async.zig ("zig").  The   *)
(* loop of main.c is that of main.cc, but no request reaches it.           *)
(*                                                                         *)
(* Positions count the bytes of what the client sends, from 0.  The buffer *)
(* always holds a part of that: start + 1 .. filled, of which the loop has *)
(* parsed up to base.  Once a loop takes bytes from the middle of a frame   *)
(* for the beginning of one, it is adrift: what it writes from then on is   *)
(* not modelled.                                                           *)
(***************************************************************************)
EXTENDS Lists, FiniteSetsExt

CONSTANTS
    Impls,         \* the programs to run: a subset of {"rs", "cc", "zig"}
    Scripts,       \* what clients may send: sequences of frames
    MaxOut         \* bound: zig may answer one Close without end

Opcodes == {"continuation", "text", "binary", "close", "ping", "pong"}
Frame == [opcode : Opcodes, fin : BOOLEAN, len : Nat]

ASSUME FramesAssumption ==
    /\ Impls \subseteq {"rs", "cc", "zig"}
    /\ \A s \in Scripts : s \in Seq(Frame)
    /\ MaxOut \in Nat

-----------------------------------------------------------------------------
(* The codec.  The first two bytes are kept as a record, with the length   *)
(* field of the second; a masking key adds four bytes and changes nothing. *)

Weight == <<1, 256, 65536, 16777216>>
BigEndian(n, k) == [i \in 1..k |-> (n \div Weight[k + 1 - i]) % 256]
FromBigEndian(bytes) == Horner(256, bytes)

\* The extended length has eight bytes; the upper four are 0 here.
Serialize(opcode, fin, len) ==
    LET small == len <= 125
        short == len <= 65535
    IN  [opcode |-> opcode, fin |-> fin,
         field |-> IF small THEN len ELSE IF short THEN 126 ELSE 127,
         extended |-> IF small THEN <<>>
                      ELSE BigEndian(len, IF short THEN 2 ELSE 4)]

Parse(head) ==
    [opcode |-> head.opcode, fin |-> head.fin,
     len |-> IF head.field \in {126, 127} THEN FromBigEndian(head.extended)
                                          ELSE head.field]

\* The bytes of a frame: the sizes that parse waits for, one after the other.
\* A client masks its frames.
HeaderSize(f) == 6 + IF f.len <= 125 THEN 0 ELSE IF f.len <= 65535 THEN 2 ELSE 8
Size(f) == HeaderSize(f) + f.len

-----------------------------------------------------------------------------
VARIABLES
    impl,          \* the program that runs
    frames,        \* what this client sends
    sent,          \* how many bytes of it have arrived
    gone,          \* the client has closed the connection
    start, base, filled,
    pc,
    out            \* the frames written, each for a frame of the client

input == <<impl, frames>>
vars == <<input, sent, gone, start, base, filled, pc, out>>

\* The position after the first k frames.
After(k) == Horner(1, [i \in 1..k |-> Size(frames[i])])
Total == After(Len(frames))

\* cc leaves a byte of its buffer unused; zig does not read for the last one.
Cap == IF impl = "cc" THEN 8191 ELSE 8192
Used == filled - start
Full == Used >= IF impl = "zig" THEN Cap - 1 ELSE Cap

Init ==
    /\ impl \in Impls
    /\ frames \in Scripts
    /\ sent = 0
    /\ gone = FALSE
    /\ start = 0 /\ base = 0 /\ filled = 0
    /\ pc = "read"
    /\ out = <<>>

\* Where the network may cut what the client sends: in each header, after it,
\* before the last byte of each frame, and between frames.
Cuts == UNION { {After(k - 1) + 1, After(k - 1) + 3, After(k - 1) + 7,
                 After(k) - 1, After(k)} : k \in DOMAIN frames }

Arrive ==
    /\ ~gone
    /\ sent' \in {p \in Cuts : sent < p /\ p <= Total}
    /\ UNCHANGED <<input, gone, start, base, filled, pc, out>>

ClientClose ==
    /\ ~gone
    /\ gone' = TRUE
    /\ UNCHANGED <<input, sent, start, base, filled, pc, out>>

-----------------------------------------------------------------------------
\* Mutant: cc leaves no byte of its buffer unused.
ReadAll ==
    /\ pc = "read"
    /\ ~Full
    /\ filled < sent
    /\ filled' = Min({sent, start + 8192})
    /\ pc' = "parse"
    /\ UNCHANGED <<input, sent, gone, start, base, out>>

Read ==
    /\ pc = "read"
    /\ ~Full
    /\ filled < sent
    /\ filled' = Min({sent, start + Cap})
    /\ pc' = "parse"
    /\ UNCHANGED <<input, sent, gone, start, base, out>>

\* The read returns 0: the client is gone, or (rs) the buffer is full.
ReadNothing ==
    /\ pc = "read"
    /\ \/ gone /\ filled = sent /\ ~(impl = "zig" /\ Full)
       \/ impl = "rs" /\ Full
    /\ pc' = "closed"
    /\ UNCHANGED <<input, sent, gone, start, base, filled, out>>

\* zig parses again what it has when there is no room to read more.
ReadSkipped ==
    /\ pc = "read"
    /\ impl = "zig" /\ Full
    /\ pc' = "parse"
    /\ UNCHANGED <<input, sent, gone, start, base, filled, out>>

\* The frame in front, if any of it is there.
Current == CHOOSE k \in DOMAIN frames : After(k - 1) = base
Whole == base < filled /\ filled - base >= Size(frames[Current])
HeaderIn == filled - base >= HeaderSize(frames[Current])

\* zig gives parse its array up to the end, not up to what it has read: a frame
\* of which a part is there is taken for whole if the array has room for it.
\* Before its header is there, stale bytes decide.
Partial == base < filled /\ ~Whole
HasRoom == Size(frames[Current]) <= 8192 - (base - start)
Misread == impl = "zig" /\ Partial /\ (HeaderIn => HasRoom)
Awaited == Partial /\ (impl = "zig" => ~HeaderIn \/ ~HasRoom)

Write(opcode, fin, len) ==
    out' = Append(out, [for |-> Current, head |-> Serialize(opcode, fin, len)])

Take(next) ==
    /\ base' = After(Current)
    /\ pc' = next
    /\ UNCHANGED <<input, sent, gone, start, filled>>

\* zig has 4096 bytes for a payload without its mask, and as many for a frame
\* with the four bytes of its header.
Overruns(f) ==
    /\ impl = "zig"
    /\ f.len > IF f.opcode \in {"text", "binary", "ping"} THEN 4092 ELSE 4096

Parses(opcodes) ==
    /\ pc = "parse" /\ Whole
    /\ frames[Current].opcode \in opcodes
    /\ ~Overruns(frames[Current])

\* An index out of bounds: the process panics.
Overrun ==
    /\ pc = "parse"
    /\ Whole \/ (Misread /\ HeaderIn)
    /\ Overruns(frames[Current])
    /\ pc' = "aborted"
    /\ UNCHANGED <<input, sent, gone, start, base, filled, out>>

\* rs writes the client's own frame, cc a new one, whose fin is set, and zig
\* always a text.
WriteText(f) ==
    Write(IF impl = "zig" THEN "text" ELSE f.opcode, f.fin \/ impl # "rs", f.len)

\* Mutant: one frame is taken for each read.
BroadcastOnce ==
    /\ Parses({"text", "binary"})
    /\ WriteText(frames[Current])
    /\ base' = After(Current) /\ start' = base'
    /\ pc' = "read"
    /\ UNCHANGED <<input, sent, gone, filled>>

\* To all of the room.
Broadcast ==
    /\ Parses({"text", "binary"})
    /\ WriteText(frames[Current])
    /\ Take("parse")

Pong ==
    /\ Parses({"ping"})
    /\ Write("pong", TRUE, frames[Current].len)
    /\ Take("parse")

Ignore ==
    /\ Parses({"pong"} \cup IF impl # "cc" THEN {"continuation"} ELSE {})
    /\ Take("parse")
    /\ UNCHANGED out

\* Mutant: the loop goes on after a Close.
CloseReadsOn ==
    /\ impl = "cc"
    /\ Parses({"close"})
    /\ Write("close", TRUE, 2)
    /\ Take("parse")

\* cc answers with a code and leaves.
Close ==
    /\ impl = "cc"
    /\ Parses({"close"})
    /\ Write("close", TRUE, 2)
    /\ Take("closed")

\* The bytes that come next are taken for a frame, but are not at its beginning.
Drift ==
    /\ Misread
    /\ pc = "parse"
    /\ HeaderIn => ~Overruns(frames[Current])
    /\ pc' = "adrift"
    /\ UNCHANGED <<input, sent, gone, start, base, filled, out>>

AtBorder(p) == \E k \in 0..Len(frames) : After(k) = p

\* rs drops what is buffered and reads on.
CloseRs ==
    /\ impl = "rs"
    /\ Parses({"close"})
    /\ Write("close", TRUE, 0)
    /\ base' = filled /\ start' = filled
    /\ pc' = IF AtBorder(filled) THEN "read" ELSE "adrift"
    /\ UNCHANGED <<input, sent, gone, filled>>

\* Whatever it takes the bytes for, rs leaves with the client.
LeaveAdrift ==
    /\ impl = "rs"
    /\ pc = "adrift" /\ gone
    /\ pc' = "closed"
    /\ UNCHANGED <<input, sent, gone, start, base, filled, out>>

\* zig answers and leaves the loop over frames only, with the Close still in
\* front: it reads on, and answers the same Close after every read.
CloseZig ==
    /\ impl = "zig"
    /\ Parses({"close"})
    /\ Len(out) < MaxOut
    /\ Write("close", TRUE, 0)
    /\ start' = base
    /\ pc' = "read"
    /\ UNCHANGED <<input, sent, gone, base, filled>>

\* 1003 "Fragmentation not supported".
Unsupported ==
    /\ impl = "cc"
    /\ Parses({"continuation"})
    /\ Write("close", TRUE, 29)
    /\ Take("closed")

\* Mutant: what is left of the buffer is not moved to its front.
ShiftNot ==
    /\ pc = "parse"
    /\ base = filled \/ (Awaited /\ impl # "cc")
    /\ start' = filled /\ base' = filled
    /\ pc' = "read"
    /\ UNCHANGED <<input, sent, gone, filled, out>>

\* The end of the loop over frames: the rest moves to the front.
Shift ==
    /\ pc = "parse"
    /\ base = filled \/ (Awaited /\ impl # "cc")
    /\ start' = base
    /\ pc' = "read"
    /\ UNCHANGED <<input, sent, gone, base, filled, out>>

\* cc waits for the rest of a frame at the front of the buffer ...
Await ==
    /\ pc = "parse" /\ impl = "cc"
    /\ Partial
    /\ base = start /\ Used < Cap
    /\ pc' = "read"
    /\ UNCHANGED <<input, sent, gone, start, base, filled, out>>

\* ... and takes one behind others, or one that has no room, for malformed:
\* 1002 "Protocol error".
Malformed ==
    /\ pc = "parse" /\ impl = "cc"
    /\ Partial
    /\ base > start \/ Used = Cap
    /\ Write("close", TRUE, 16)
    /\ pc' = "closed"
    /\ UNCHANGED <<input, sent, gone, start, base, filled>>

-----------------------------------------------------------------------------
Handler ==
    \/ Read \/ ReadNothing \/ ReadSkipped
    \/ Broadcast \/ Pong \/ Ignore \/ Overrun \/ Drift
    \/ Close \/ CloseRs \/ CloseZig \/ Unsupported \/ LeaveAdrift
    \/ Shift \/ Await \/ Malformed

Next == Arrive \/ ClientClose \/ Handler

Spec == Init /\ [][Next]_vars

\* The handler's thread runs; nothing is assumed of the client.
FairSpec == Spec /\ WF_vars(Handler)

-----------------------------------------------------------------------------
(* Properties.                                                             *)

\* Every variable has its type and the buffer its limit.
TypeOK ==
    /\ impl \in Impls /\ frames \in Scripts
    /\ gone \in BOOLEAN
    /\ sent \in 0..Total
    /\ filled \in 0..sent /\ base \in 0..filled /\ start \in 0..base
    /\ Used <= Cap
    /\ pc \in {"read", "parse", "adrift", "closed", "aborted"}
    /\ \A i \in DOMAIN out : out[i].for \in DOMAIN frames

IsClose(k) == frames[k].opcode = "close"
Expects(k) ==
    /\ \/ frames[k].opcode \in {"text", "binary", "ping", "close"}
       \/ frames[k].opcode = "continuation" /\ impl = "cc"
    /\ \A j \in 1..k - 1 : ~IsClose(j)
Answered(k) == \E i \in DOMAIN out : out[i].for = k

\* A handler is adrift only in zig, or when rs has answered a Close with more
\* behind it.
AtBorders ==
    /\ pc \in {"read", "parse"} => AtBorder(base)
    /\ pc = "adrift" \/ ~AtBorder(base) =>
          \/ impl = "zig"
          \/ impl = "rs" /\ \E k \in 1..Len(frames) - 1 : IsClose(k) /\ Answered(k)

InOrder ==
    \A i, j \in DOMAIN out :
        i < j => \/ out[i].for < out[j].for
                 \/ impl = "zig" /\ out[i].for = out[j].for /\ IsClose(out[i].for)

Complete == \A k \in DOMAIN frames : After(k) <= base /\ Expects(k) => Answered(k)

Copies(head, f) ==
    /\ head.opcode = CASE f.opcode = "ping" -> "pong"
                       [] f.opcode = "binary" /\ impl = "zig" -> "text"
                       [] OTHER -> f.opcode
    /\ Parse(head).len = f.len
Copied ==
    \A i \in DOMAIN out :
        out[i].head.opcode # "close" => Copies(out[i].head, frames[out[i].for])

\* However reads cut what is sent, parsing stays in step with the frames: each
\* frame that was parsed is answered, once, in order, and what is written for
\* it parses as the frame it answers.
InStep == AtBorders /\ InOrder /\ Complete /\ Copied

\* All the frames up to the k-th have room in the buffers.
Fits(k) ==
    \A j \in 1..k : Size(frames[j]) <= Cap /\ ~Overruns(frames[j])

Longest == Max({Len(s) : s \in Scripts})

\* What has arrived whole is answered with no need to send more, and in rs
\* and zig even when the client leaves at once; cc may have ended before.
FramesAnswered ==
    \A k \in 1..Longest :
        (k \in DOMAIN frames /\ Expects(k) /\ Fits(k) /\ sent >= After(k))
            ~> \/ Answered(k)
               \/ impl = "cc" /\ pc = "closed"
               \/ impl = "zig" /\ pc = "adrift"

\* The handler leaves when the client does; in cc, also after a Close.  In zig
\* a frame that is too long, or what comes behind a Close, may fill the buffer
\* and keep it for ever.
HandlerReturns ==
    (\/ gone /\ (impl = "zig" => /\ Fits(Len(frames))
                                 /\ ~\E k \in 1..Len(frames) - 1 : IsClose(k))
     \/ impl = "cc" /\ IsClose(Len(frames)) /\ sent = Total)
        ~> (pc = "closed" \/ (impl = "zig" /\ pc = "adrift"))
=============================================================================
