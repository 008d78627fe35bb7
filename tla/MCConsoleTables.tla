-------------------------- MODULE MCConsoleTables --------------------------
(* Two pages; three clicks that load or search, one operation on a row and *)
(* one failure, on every table of the console.                             *)
EXTENDS ConsoleTables
=============================================================================
