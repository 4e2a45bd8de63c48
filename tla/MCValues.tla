------------------------------ MODULE MCValues ------------------------------
(***************************************************************************)
(* The values on their own, for what a comment says of one of them; halves *)
(* of one bit, so that a Counter64 has four values.                        *)
(***************************************************************************)
EXTENDS SmiValues

\* "Assign a unsigned long to a Counter64. [i] The new low part. The high part is
\* cleared." (ctr64.h:238-240): whatever number a Counter64 is assigned, its high part
\* is 0.  The operator keeps the upper half of the number there.
AssignedHighIsCleared ==
    \A h \in {"a", "b"}, n \in 0..(Radix * Radix - 1) :
        objs[h].class = "Counter64" => High(Counter64Set(objs[h], n)) = 0
=============================================================================
