----------------------- MODULE MCDashboardGeneration -----------------------
(* Small instances of DashboardGeneration for TLC.  A temporal property is *)
(* checked with the invariants, so no symmetry is declared.                *)
EXTENDS DashboardGeneration
=============================================================================
