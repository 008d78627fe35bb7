---------------------------- MODULE MCPlayground ----------------------------
(* Two requests and two loads of the page, one save waiting at a time.     *)
EXTENDS Playground

=============================================================================
