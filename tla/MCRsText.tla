------------------------------ MODULE MCRsText ------------------------------
(***************************************************************************)
(* The inputs of RsText that TLC checks: every short text over the bytes   *)
(* an algorithm tells apart, and every length around a block of SHA-1.     *)
(***************************************************************************)
EXTENDS RsText

MCQueries == BoundedSeq({Ampersand, EqualSign, Percent, 52}, 5)

\* /rs/ and what follows it.
MCPaths ==
    {<<47, 114, 115, 47>> \o rest : rest \in BoundedSeq({Slash, 120}, 6)}

\* What is in a query, the characters that are made of it, and what it is: text,
\* encoded or not ("text"); a percent sign that stays ("stray"), that is read with
\* a sign ("signed"), before bytes that are no UTF-8 ("raw"), or before part of a
\* character ("split"); or an encoded byte that is no UTF-8 ("broken").
Piece(is, bytes, chars) == [is |-> is, bytes |-> bytes, chars |-> chars]

\* x, +, %41, %2b, %25, encoded e acute; a percent sign before a letter or at the
\* end, before +4, before x and the first byte of a character, before x and e
\* acute; %C3.
\* No two pieces make a third one between them.
MCPieces ==
    {Piece("text", <<120>>, <<120>>), Piece("text", <<Plus>>, <<Space>>),
     Piece("text", <<Percent, 52, 49>>, <<65>>),
     Piece("text", <<Percent, 50, 98>>, <<Plus>>),
     Piece("text", <<Percent, 50, 53>>, <<Percent>>),
     Piece("text", <<Percent, 67, 51, Percent, 65, 57>>, <<233>>),
     Piece("stray", <<Percent, 122>>, <<Percent, 122>>),
     Piece("stray", <<Percent>>, <<Percent>>),
     Piece("signed", <<Percent, Plus, 52>>, <<4>>),
     Piece("raw", <<Percent, 120, 195>>, <<0>>),
     Piece("split", <<Percent, 120, 195, 169>>, <<0>>),
     Piece("broken", <<Percent, 67, 51>>, <<195>>)}

MCStrings == BoundedSeq({Quote, Backslash, 1, 8, 10, 12, 120}, 2)

MCEchoes ==
    {<< <<key, value>> >> : key \in MCStrings, value \in MCStrings}
        \cup {<< << <<120>>, v >>, << <<Quote>>, w >> >> :
                 v \in MCStrings, w \in MCStrings}

Ramp(len) == [k \in 1..len |-> (k * 37) % 256]

\* FIPS 180 gives the digest of "abc", RFC 6455 the accept key of its sample.
MCVectors ==
    {[input |-> <<97, 98, 99>>,
      digest |->
        <<169, 153, 62, 54, 71, 6, 129, 106, 186, 62, 37, 113, 120, 80, 194,
          108, 156, 208, 216, 157>>,
      accept |->
        <<113, 90, 107, 43, 78, 107, 99, 71, 103, 87, 113, 54, 80, 105, 86,
          120, 101, 70, 68, 67, 98, 74, 122, 81, 50, 74, 48, 61>>],
     [input |->
        <<100, 71, 104, 108, 73, 72, 78, 104, 98, 88, 66, 115, 90, 83, 66,
          117, 98, 50, 53, 106, 90, 81, 61, 61, 50, 53, 56, 69, 65, 70,
          65, 53, 45, 69, 57, 49, 52, 45, 52, 55, 68, 65, 45, 57, 53,
          67, 65, 45, 67, 53, 65, 66, 48, 68, 67, 56, 53, 66, 49, 49>>,
      digest |->
        <<179, 122, 79, 44, 192, 98, 79, 22, 144, 246, 70, 6, 207, 56, 89,
          69, 178, 190, 196, 234>>,
      accept |->
        <<115, 51, 112, 80, 76, 77, 66, 105, 84, 120, 97, 81, 57, 107, 89,
          71, 122, 122, 104, 90, 82, 98, 75, 43, 120, 79, 111, 61>>]}

MCInputs ==
    [kind \in Kinds |->
        CASE kind = "query" -> MCQueries
          [] kind = "path" -> MCPaths
          [] kind = "decode" -> BoundedSeq(MCPieces, 4)
          [] kind = "echo" -> MCEchoes
          [] kind = "base64" -> {Ramp(len) : len \in 0..7}
          [] kind = "sha1" -> {Ramp(len) : len \in 0..130}
                                  \cup {v.input : v \in MCVectors}]

=============================================================================
