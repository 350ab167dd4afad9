---------------------------- MODULE MCKeepAlive ----------------------------
(***************************************************************************)
(* The instances of KeepAlive that TLC checks: clients that send up to     *)
(* three requests, each a kind and a number of header lines.               *)
(***************************************************************************)
EXTENDS KeepAlive, SequencesExt

Lines(r, kind, headers) ==
    [i \in 1..headers + 2 |->
        [req |-> r, kind |-> kind,
         part |-> IF i = 1 THEN "line" ELSE IF i = headers + 2 THEN "end" ELSE "header"]]

Stream(script) ==
    FlattenSeq([r \in DOMAIN script |-> Lines(r, script[r][1], script[r][2])])

MCStreams ==
    { Stream(<< <<"route", h>>, <<k, g>>, <<"route", 1>> >>) :
          h \in 0..1, k \in {"route", "missing", "malformed"}, g \in 0..1 }
        \cup { Stream(<< <<"route", 0>>, <<"route", 4>> >>),
               Stream(<< <<"route", 2>>, <<"route", 0>>, <<"route", 0>> >>) }

MCMissing == { Stream(<< <<"route", 0>>, <<"missing", 1>>, <<"route", 1>> >>) }
=============================================================================
