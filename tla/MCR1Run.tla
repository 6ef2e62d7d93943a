------------------------------- MODULE MCR1Run --------------------------------
(***************************************************************************)
(* Bounds for model checking a benchmark run.                              *)
(***************************************************************************)
EXTENDS R1Run, MCRules

\* The smoke profile's ladder.
MCRates == SearchRatesUpTo(2000)

\* Of the data set's commits after its seed.
MCLedgers == {<<2>>, <<2, 3>>}
=============================================================================
