--------------------------- MODULE MCMlxGateway ---------------------------
(* Small instances of MlxGateway for TLC.                                  *)
EXTENDS MlxGateway, TLC

\* Jobs that ask for the same headers are interchangeable; used in the runs
\* without temporal properties.
JobSymmetry == Permutations(Inference)
=============================================================================
