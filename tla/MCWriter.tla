------------------------------ MODULE MCWriter ------------------------------
(***************************************************************************)
(* A short workload in which every kind of operation occurs.               *)
(***************************************************************************)
EXTENDS Writer

MCMix(s, n) == (7 * n + 3 * s + (n \div 2) * s) % 11

MCSizes == <<1, 4, 8>>

MCSeeds == {1, 4, 5}
=============================================================================
