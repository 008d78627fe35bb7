--------------------------- MODULE MCChannelRetry ---------------------------
(* Small instances of ChannelRetry: two groups and up to four               *)
(* channels with equal and different priorities and weights.                *)
EXTENDS ChannelRetry, TLC

CONSTANTS r1, g1, g2, c1, c2, c3, c4

MCPriority == [c \in Channels |-> CASE c = c1 -> 2 [] c = c4 -> 0 [] OTHER -> 1]
MCWeight   == [c \in Channels |-> IF c \in {c1, c2} THEN 0 ELSE 5]

\* c1, c2 and c3 in the first group, c3 and c4 in the second.
TwoGroups == g1 :> ({c1, c2, c3} \cap Channels) @@ g2 :> ({c3, c4} \cap Channels)
OneToTwo == <<g1, g2>>

\* The first group offers all priorities, the second only the lowest.
WideGroups == g1 :> {c1, c2, c4} @@ g2 :> {c4}

\* Two groups with two priorities each: c1 over c2, and c3 over c4.
TwoByTwo == g1 :> {c1, c2} @@ g2 :> {c3, c4}

AutoToken  == [auto |-> TRUE, group |-> g1, cross |-> FALSE, pin |-> NoChannel]
CrossToken == [AutoToken EXCEPT !.cross = TRUE]
GroupToken == [AutoToken EXCEPT !.auto = FALSE]
AllTokens  == {AutoToken, CrossToken, GroupToken,
               [CrossToken EXCEPT !.pin = c3]}
CrossTokens == {CrossToken}

\* One code that is retried and one that is not.
Codes == {500, 504}

=============================================================================
