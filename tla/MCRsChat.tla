------------------------------ MODULE MCRsChat ------------------------------
(***************************************************************************)
(* The instances of RsChat that TLC checks: c1 and c3 come from one        *)
(* address, so that c3 can only follow c1.                                 *)
(***************************************************************************)
EXTENDS RsChat

CONSTANTS c1, c2, c3, r1

MCAddr == [c \in Conns |-> IF c = c2 THEN "far" ELSE "near"]
\* Two clients of main.rs may say anything, those of main2.rs one thing each.
MCSays ==
    [p \in Progs |-> [c \in Conns |->
        IF p = "main" THEN IF c = c3 THEN {} ELSE Kinds
        ELSE CASE c = c1 -> {}
               [] c = c2 -> {"text"}
               [] c = c3 -> {"ping", "close"}]]
=============================================================================
