---------------------------- MODULE MCEditForms ----------------------------
(* Every dialog of the console on two records, opened three times, with    *)
(* two saves and one failed request.                                       *)
EXTENDS EditForms

=============================================================================
