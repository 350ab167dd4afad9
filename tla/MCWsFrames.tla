----------------------------- MODULE MCWsFrames -----------------------------
(***************************************************************************)
(* The instances of WsFrames that TLC checks: one to three frames, with    *)
(* the payload lengths at which a header or the buffer changes.            *)
(***************************************************************************)
EXTENDS WsFrames

Whole1(opcode, len) == [opcode |-> opcode, fin |-> TRUE, len |-> len]
First == [opcode |-> "text", fin |-> FALSE, len |-> 5]
Kinds == {Whole1(opcode, 5) : opcode \in {"binary", "ping", "pong", "continuation"}}
             \cup {First}
TextsOf(lens) == {Whole1("text", len) : len \in lens}
Texts == TextsOf({0, 125, 126, 4092, 4093, 8183, 8184, 8185, 65536})

MCScripts ==
    {<<f>> : f \in Texts}
        \cup {<<f, g, Whole1("close", 2)>> : f \in Kinds \cup Texts, g \in Kinds}
        \cup {<<f, g>> : f \in Texts, g \in TextsOf({0, 126, 4092, 8184})}
        \cup {<<f, Whole1("close", 2), g>> : f \in {First, Whole1("ping", 5)},
                                            g \in Kinds \cup {Whole1("text", 8184)}}
=============================================================================
