---------------------------- MODULE MCModelTest ----------------------------
(* Two channels, three models tested two at a time, two batches and one    *)
(* test of a single row.                                                   *)
EXTENDS ModelTest

=============================================================================
