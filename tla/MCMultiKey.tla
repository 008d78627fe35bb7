----------------------------- MODULE MCMultiKey -----------------------------
(* A channel with three keys, the third with the text of the first.        *)
EXTENDS MultiKey

CONSTANTS k1, k2, k3

MCText == [k \in Keys |-> IF k = k3 THEN k1 ELSE k]
MCChannels == {<<k1, k2, k3>>}
=============================================================================
