-------------------------- MODULE MCStatutoryExport --------------------------
(* A small instance of StatutoryExport: a floor of two years, so that a    *)
(* support period can be longer than it.                                   *)
EXTENDS StatutoryExport

CONSTANTS LastInstant, c1, c2

MCTimes == 0..LastInstant
\* The first document frozen before anything was placed is never accepted.
MCRefused == {<<c1, NoTime, NoTime>>}
MCNoneRefused == {}
=============================================================================
