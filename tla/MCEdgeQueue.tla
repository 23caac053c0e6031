---------------------------- MODULE MCEdgeQueue ----------------------------
(* Instances of EdgeQueue for TLC.                                         *)
EXTENDS EdgeQueue, TLC

CONSTANTS m1, m2, ticker, flush

\* One size that replay() slices within the 512 bytes ReadFile allocates even
\* when only the header was written, and one that it does not: a torn write of
\* m2 keeps the gateway from booting.
Sizes == [m \in Msgs |-> (m1 :> 1 @@ m2 :> 600)[m]]

\* The two drainers run the same code.
DrainerSymmetry == Permutations(Drainers)
=============================================================================
