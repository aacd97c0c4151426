------------------------------- MODULE MCBwt -------------------------------
(***************************************************************************)
(* Small instances of Bwt and BwtCuda for TLC.                             *)
(***************************************************************************)
EXTENDS BwtCuda

UpTo5 == UNION {[1 .. m -> 0 .. 2] : m \in 0 .. 5}

\* "cabcbab": two rotations begin with c and differ in their second symbol,
\* which in the last one is that of the first group.
Wrapping == {<<2, 0, 1, 2, 1, 0, 1>>}

\* The program is over.
Over == /\ \/ phase \in {"done", "failed", "undefined"}
           \/ variant = "cuda" /\ prog = "sorted"
        /\ UNCHANGED allVars

MCSpec == CudaInit /\ [][CudaNext \/ Over]_allVars
=============================================================================
