-------------------------------- MODULE Lists --------------------------------
(***************************************************************************)
(* Lists that elements are removed from (std::remove, orderedRemove) and   *)
(* lists that are added up, as recursive functions, which can be reasoned  *)
(* about.                                                                  *)
(***************************************************************************)
EXTENDS Integers, Sequences

\* What s has at some positions, in order: SelectSeq by position.
Pick(s, places) ==
    LET picked[i \in 0..Len(s)] ==
            IF i = 0 THEN <<>>
            ELSE IF i \in places THEN Append(picked[i - 1], s[i])
                                 ELSE picked[i - 1]
    IN  picked[Len(s)]

\* (s[1] * factor + s[2]) * factor + ... : the number with digits s, or with
\* factor 1 their sum.
Horner(factor, s) ==
    LET value[i \in 0..Len(s)] ==
            IF i = 0 THEN 0 ELSE factor * value[i - 1] + s[i]
    IN  value[Len(s)]
=============================================================================
