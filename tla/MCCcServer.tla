----------------------------- MODULE MCCcServer -----------------------------
(***************************************************************************)
(* The instances of CcServer that TLC checks.                              *)
(***************************************************************************)
EXTENDS CcServer, TLC

CONSTANTS c1, c2, c3, w1, w2, r1, r2, none

\* Three clients: c1 and c2 share a room, c3 asks for another one.
MCWants == [c \in Clients |-> IF c = c3 THEN r2 ELSE r1]
MCSays == [c \in Clients |-> IF c = c3 THEN {"request", "upgrade", "ping"}
                             ELSE {"upgrade", "text", "bye"}]
MCSymmetry == Permutations({c1, c2}) \cup Permutations({w1, w2})

\* Two clients of one room that send anything.
MCWantsOne == [c \in Clients |-> r1]
MCSaysAll == [c \in Clients |-> Kinds]
=============================================================================
