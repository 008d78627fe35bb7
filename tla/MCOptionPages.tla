--------------------------- MODULE MCOptionPages ---------------------------
(* Two sections under one parent: the first has two fields, one of them a  *)
(* flag, the second has one field that edits the same option as a field of *)
(* the first.                                                              *)
EXTENDS OptionPages

MCSections == {"upper", "lower"}
MCKeys == {"flag", "text", "other"}
MCOwner == [k \in MCKeys |-> IF k = "other" THEN "lower" ELSE "upper"]
MCStores == {[k \in MCKeys |-> 0]}
MCOption == [k \in MCKeys |-> IF k = "flag" THEN 1 ELSE 2]
MCFlags == {"flag"}
=============================================================================
