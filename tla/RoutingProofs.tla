--------------------------- MODULE RoutingProofs ---------------------------
(***************************************************************************)
(* Proofs about the way of a request to a channel and to one of its keys.  *)
(*                                                                         *)
(* ChannelRetry, for any groups, channels, priorities and number of        *)
(* retries, and whatever happens to the lists.  The retries start again    *)
(* with every group, so WalkInv says where the calls to a group are: those *)
(* to the group of the walk are among the latest retry calls, those to an  *)
(* earlier group within RetryTimes + 1 places, and later groups have had   *)
(* none.  It says so for every place in the loop, also while the walk is   *)
(* already prepared for the next group.  StreakInv says the converse, that *)
(* as many calls as retry counts have been made, to one group.             *)
(*                                                                         *)
(* MultiKey, as the instance K, for any keys, key lists, requests and      *)
(* handlers.  KeyInv says of the row of the channel, and of every copy of  *)
(* it that will be written, that it has a key, no key twice and a size of  *)
(* at least one, and of a report that its key has failed.  What a deletion *)
(* leaves is described by Nth, the n-th index that is left; that there is  *)
(* one for every n needs an induction, which Least replaces: there is a    *)
(* first index up to which n of them are left.                             *)
(***************************************************************************)
EXTENDS ChannelRetry, MultiKeyState, FiniteSetTheorems, WellFoundedInduction, TLAPS

\* The group the next lookup is for.
NextGroup(r) == IF kind[r].auto THEN index[r] ELSE 0

\* The calls to group g are among the latest n.
Recent(r, g, n) ==
    \A i \in DOMAIN tries[r] : tries[r][i].g = g => i > Len(tries[r]) - n

\* The calls to group g are within RetryTimes + 1 places.
Near(r, g) ==
    \E s \in Nat : \A i \in DOMAIN tries[r] :
        tries[r][i].g = g => i > s /\ i <= s + RetryTimes + 1

\* The walk is at the group of the call that is under way, or past it.
Here(r, used) ==
    ~reset[r] /\ group[r] = NextGroup(r) /\ Recent(r, group[r], retry[r] + used)
Ahead(r) ==
    /\ kind[r].auto /\ retry[r] = 0 /\ group[r] < index[r]
    /\ Recent(r, index[r], 0)

\* Where the calls to the groups are, given where the walk is.
WalkInv(r) ==
    /\ \A g \in 0..N : Near(r, g)
    /\ \A i \in DOMAIN tries[r] : tries[r][i].g <= NextGroup(r)
    /\ First(r) /\ Pinned(r) => group[r] = 0 /\ retry[r] = 0
    /\ pc[r] = "select" => ~reset[r] /\ Recent(r, NextGroup(r), retry[r])
    /\ pc[r] = "selected" => \/ Here(r, 0)
                             \/ Ahead(r) /\ Recent(r, group[r], RetryTimes)
    /\ pc[r] = "sent" => Here(r, 1) \/ Ahead(r)

\* The latest n tries went to group g.
Streak(r, n, g) ==
    /\ Len(tries[r]) >= n
    /\ \A i \in (Len(tries[r]) - n + 1)..Len(tries[r]) : tries[r][i].g = g

\* Cross-group retry has moved on with the selection of this channel.
Moved(r) == kind[r].auto /\ kind[r].cross /\ retry[r] = 0 /\ (reset[r] \/ RetryTimes = 0)

\* retry counts the latest tries, and they went to one group.
StreakInv(r) == ~Pinned(r) =>
    /\ pc[r] = "select" => ~reset[r] /\ Streak(r, retry[r], NextGroup(r))
    /\ pc[r] = "selected" =>
          \/ Moved(r)
          \/ /\ ~reset[r] /\ Streak(r, retry[r], group[r]) /\ NextGroup(r) = group[r]
             /\ kind[r].auto /\ kind[r].cross => retry[r] < RetryTimes
    /\ pc[r] = "sent" =>
          \/ Moved(r) /\ Streak(r, 1, group[r])
          \/ /\ ~reset[r] /\ Streak(r, retry[r] + 1, group[r]) /\ NextGroup(r) = group[r]
             /\ kind[r].auto /\ kind[r].cross => retry[r] < RetryTimes
    /\ pc[r] = "gaveUp" => /\ Streak(r, RetryTimes + 1, group[r])
                           /\ kind[r].auto /\ kind[r].cross => RetryTimes = 0

\* The group whose ratio is charged is the one the channel was selected in.
ServedInv(r) ==
    /\ pc[r] \in {"selected", "sent", "done"} => chan[r] \in Channels
    /\ pc[r] \in {"selected", "sent", "done"} /\ ~Pinned(r) =>
          /\ kind[r].auto => group[r] > 0
          /\ chan[r] \in Members[IF kind[r].auto THEN AutoGroups[group[r]]
                                                 ELSE kind[r].group]
    /\ ~kind[r].auto => group[r] = 0
    /\ pc[r] \in {"sent", "done"} =>
          /\ billed[r] = group[r] /\ Len(tries[r]) > 0
          /\ tries[r][Len(tries[r])].g = group[r]
          /\ tries[r][Len(tries[r])].c = chan[r]

ListInv == \A g \in Groups : list[g] \subseteq Members[g]

RequestInv(r) == WalkInv(r) /\ StreakInv(r) /\ ServedInv(r)

IInv == TypeOK /\ ListInv /\ \A r \in Requests : RequestInv(r)

(***************************************************************************)
(* Facts about the constants and the operators                             *)
(***************************************************************************)
LEMMA Constants ==
  /\ N \in Nat /\ RetryTimes \in Nat
  /\ \A i \in 1..N : AutoGroups[i] \in Groups
  BY SetsAssumption, NumbersAssumption DEF N

\* A lookup answers only channels of the list.
LEMMA LookupInList ==
  ASSUME NEW S, NEW n, NEW c \in GetRandomSatisfiedChannel(S, n)
  PROVE  c \in S
  BY DEF GetRandomSatisfiedChannel, Drawn

\* What Append does.
LEMMA AppendFacts ==
  ASSUME NEW S, NEW s \in Seq(S), NEW x \in S
  PROVE  /\ Append(s, x) \in Seq(S) /\ Len(Append(s, x)) = Len(s) + 1
         /\ \A i \in 1..Len(s) : Append(s, x)[i] = s[i]
         /\ Append(s, x)[Len(s) + 1] = x
  OBVIOUS

(***************************************************************************)
(* Type correctness                                                        *)
(***************************************************************************)
\* The fields of a request.
LEMMA RequestTypes ==
  ASSUME TypeOK, NEW r \in Requests
  PROVE  /\ kind[r].auto \in BOOLEAN /\ kind[r].cross \in BOOLEAN
         /\ kind[r].group \in Groups /\ kind[r].pin \in Channels \cup {NoChannel}
         /\ retry[r] \in Nat /\ retry[r] <= RetryTimes /\ index[r] \in Nat
         /\ index[r] > 0 /\ index[r] <= N + 1 /\ group[r] \in Nat /\ group[r] <= N
         /\ reset[r] \in BOOLEAN
         /\ tries[r] \in Seq(Try)
         /\ Len(tries[r]) \in Nat
  <1>1. kind[r] \in Kind BY DEF TypeOK
  <1>2. /\ kind[r].auto \in BOOLEAN /\ kind[r].cross \in BOOLEAN
        /\ kind[r].group \in Groups /\ kind[r].pin \in Channels \cup {NoChannel}
    BY <1>1 DEF Kind
  <1>3. /\ retry[r] \in 0..RetryTimes /\ index[r] \in 1..(N + 1) /\ group[r] \in 0..N
        /\ reset[r] \in BOOLEAN
        /\ tries[r] \in Seq(Try)
    BY DEF TypeOK
  <1>4. Len(tries[r]) \in Nat BY <1>3
  <1> QED BY <1>2, <1>3, <1>4, Constants

LEMMA TypeInit == Init => TypeOK
  BY SetsAssumption, Constants DEF Init, TypeOK, Ended

LEMMA TypeRelay ==
  ASSUME TypeOK, NEW r \in Requests, ServedInv(r), Relay(r) PROVE TypeOK'
  <1> USE Constants, RequestTypes DEF TypeOK, GoTo, Ended, listVars, walkVars
  <1>1. CASE SelectPinned(r) BY <1>1 DEF SelectPinned
  <1>2. CASE PinnedDisabled(r) BY <1>2 DEF PinnedDisabled
  <1>3. CASE GroupEmpty(r) BY <1>3 DEF GroupEmpty
  <1>4. CASE SkipGroup(r)
    <2>1. index[r] + 1 \in 1..(N + 1) /\ 0 \in 0..RetryTimes BY <1>4 DEF SkipGroup
    <2> QED BY <1>4, <2>1 DEF SkipGroup
  <1>5. CASE NoGroupLeft(r) BY <1>5 DEF NoGroupLeft
  <1>6. CASE NoEnabledKey(r) BY <1>6 DEF NoEnabledKey
  <1>7. ASSUME NEW c \in Channels, SelectInGroup(r, c) PROVE TypeOK'
    BY <1>7 DEF SelectInGroup
  <1>8. ASSUME NEW c \in Channels, SelectAuto(r, c) PROVE TypeOK'
    <2>1. index[r] \in 0..N /\ index[r] + 1 \in 1..(N + 1) /\ 0 \in 0..RetryTimes
      BY <1>8 DEF SelectAuto
    <2>2. (reset[r] \/ (Exhausted(r) /\ ~First(r))) \in BOOLEAN OBVIOUS
    <2>3. /\ retry' \in [Requests -> 0..RetryTimes]
          /\ index' \in [Requests -> 1..(N + 1)]
          /\ group' \in [Requests -> 0..N]
      BY <1>8, <2>1 DEF SelectAuto
    <2>4. reset' \in [Requests -> BOOLEAN] BY <1>8, <2>2, Zenon DEF SelectAuto
    <2> QED BY <1>8, <2>3, <2>4 DEF SelectAuto
  <1>9. ASSUME NEW key \in BOOLEAN, Send(r, key) PROVE TypeOK'
    <2>1. chan[r] \in Channels BY <1>9 DEF Send, ServedInv
    <2>2. [g |-> group[r], c |-> chan[r], key |-> key] \in Try
      BY <2>1 DEF Try
    <2>3. Append(tries[r], [g |-> group[r], c |-> chan[r], key |-> key])
             \in Seq(Try)
      BY <2>2, AppendFacts
    <2>4. tries' \in [Requests -> Seq(Try)]
      BY <1>9, <2>3 DEF Send
    <2> QED BY <1>9, <2>1, <2>4 DEF Send
  <1>10. CASE Succeed(r) BY <1>10 DEF Succeed
  <1>11. ASSUME NEW e \in Error, NEW disable \in BOOLEAN, Fail(r, e, disable)
         PROVE  TypeOK'
    <2>1. chan[r] \in Channels BY <1>11 DEF Fail, ServedInv
    <2>2. PICK next \in Nat : next = IF reset[r] THEN retry[r] ELSE retry[r] + 1
      OBVIOUS
    <2>3. PICK again \in BOOLEAN :
             again = (shouldRetry(r, e, RetryTimes - retry[r]) /\ next <= RetryTimes)
      OBVIOUS
    <2>4. /\ retry' = [retry EXCEPT ![r] = IF again THEN next ELSE @]
          /\ reset' = [reset EXCEPT ![r] = FALSE]
          /\ pc' = [pc EXCEPT ![r] = IF again THEN "select"
                           ELSE IF Repeatable(e) THEN "gaveUp" ELSE "failed"]
          /\ disabling' = IF disable THEN disabling \cup {chan[r]} ELSE disabling
          /\ UNCHANGED <<list, kind, index, group, chan, billed, tries>>
      BY <1>11, <2>2, <2>3 DEF Fail
    <2>5. again => next <= RetryTimes BY <2>3
    <2>6. retry' \in [Requests -> 0..RetryTimes] BY <2>2, <2>4, <2>5
    <2>7. reset' \in [Requests -> BOOLEAN] BY <2>4
    <2> QED BY <2>1, <2>4, <2>6, <2>7
  <1> QED
    BY <1>1, <1>2, <1>3, <1>4, <1>5, <1>6, <1>7, <1>8, <1>9, <1>10, <1>11 DEF Relay

LEMMA TypeNext == ASSUME IInv, [Next]_vars PROVE TypeOK'
  <1>1. ASSUME NEW r \in Requests, Relay(r) PROVE TypeOK'
    BY <1>1, TypeRelay DEF IInv, RequestInv
  <1>2. ASSUME NEW c \in Channels, DisableChannel(c) PROVE TypeOK'
    BY <1>2 DEF IInv, DisableChannel, TypeOK, walkVars
  <1>3. ASSUME NEW enabled \in SUBSET Channels, InitChannelCache(enabled) PROVE TypeOK'
    BY <1>3, SetsAssumption DEF IInv, InitChannelCache, TypeOK, walkVars
  <1>4. CASE UNCHANGED vars
    BY <1>4 DEF IInv, TypeOK, vars, listVars, walkVars
  <1> QED BY <1>1, <1>2, <1>3, <1>4 DEF Next

(***************************************************************************)
(* The invariant of a request, step by step                                *)
(***************************************************************************)
\* What a call appends to the history.
LEMMA SendAppends ==
  ASSUME TypeOK, NEW r \in Requests, ServedInv(r), NEW key \in BOOLEAN, Send(r, key)
  PROVE  /\ Len(tries[r])' = Len(tries[r]) + 1
         /\ \A i \in 1..Len(tries[r]) : tries[r][i]' = tries[r][i]
         /\ tries[r]'[Len(tries[r]) + 1].g = group[r]
         /\ tries[r]'[Len(tries[r]) + 1].c = chan[r]
         /\ tries[r]' \in Seq(Try)
  <1>1. PICK t \in Try : t = [g |-> group[r], c |-> chan[r], key |-> key]
    BY RequestTypes, Constants DEF Send, GoTo, ServedInv, Try
  <1>2. tries'[r] = Append(tries[r], t) BY <1>1 DEF Send, TypeOK
  <1>3. tries[r] \in Seq(Try) BY RequestTypes
  <1> QED BY <1>1, <1>2, <1>3, AppendFacts

\* A call is counted, and there was room for it.
LEMMA WalkSend ==
  ASSUME TypeOK, NEW r \in Requests, RequestInv(r), NEW key \in BOOLEAN, Send(r, key)
  PROVE  WalkInv(r)'
  <1>1. /\ pc[r] = "selected" /\ pc'[r] = "sent" /\ kind' = kind /\ index' = index
        /\ reset' = reset /\ retry' = retry /\ group' = group
    BY DEF Send, GoTo, TypeOK, walkVars
  <1>2. WalkInv(r) /\ ServedInv(r) BY DEF RequestInv
  <1>3. PICK l \in Nat : l = Len(tries[r]) BY RequestTypes
  <1>4. PICK t, u \in Seq(Try) : t = tries[r] /\ u = tries'[r]
    BY <1>2, SendAppends, RequestTypes
  <1>5. /\ Len(u) = l + 1 /\ Len(t) = l /\ u # <<>>
        /\ DOMAIN t = 1..l /\ DOMAIN u = 1..(l + 1)
        /\ \A i \in 1..l : u[i] = t[i]
        /\ u[l + 1].g = group[r]
    BY <1>2, <1>3, <1>4, SendAppends
  <1>6. /\ group[r] \in Nat /\ retry[r] \in Nat /\ retry[r] <= RetryTimes
        /\ RetryTimes \in Nat /\ index[r] \in Nat /\ index[r] > 0
        /\ \A i \in 1..l : t[i].g \in Nat
    <2>1. \A i \in 1..l : t[i] \in Try BY <1>4, <1>5
    <2> QED BY <2>1, RequestTypes, Constants DEF Try
  <1>7. NextGroup(r)' = NextGroup(r) BY <1>1 DEF NextGroup
  <1>8. Here(r, 0) \/ (Ahead(r) /\ Recent(r, group[r], RetryTimes))
    BY <1>1, <1>2 DEF WalkInv
  <1>9. /\ \A i \in 1..l : t[i].g = group[r] => i > l - RetryTimes
        /\ group[r] <= NextGroup(r)
    <2>1. CASE Here(r, 0)
      <3>1. \A i \in 1..l : t[i].g = group[r] => i > l - (retry[r] + 0)
        BY <2>1, <1>3, <1>4, <1>5, Zenon DEF Here, Recent
      <3>2. group[r] = NextGroup(r) BY <2>1 DEF Here
      <3> QED BY <3>1, <3>2, <1>6
    <2>2. CASE Ahead(r) /\ Recent(r, group[r], RetryTimes)
      <3>1. \A i \in 1..l : t[i].g = group[r] => i > l - RetryTimes
        BY <2>2, <1>3, <1>4, <1>5, Zenon DEF Recent
      <3>2. group[r] <= NextGroup(r) BY <2>2, <1>6 DEF Ahead, NextGroup
      <3> QED BY <3>1, <3>2
    <2> QED BY <1>8, <2>1, <2>2
  <1>10. \A i \in DOMAIN u : u[i].g <= NextGroup(r)
    <2>1. \A i \in 1..l : t[i].g <= NextGroup(r) BY <1>2, <1>4, <1>5 DEF WalkInv
    <2>2. ASSUME NEW i \in 1..(l + 1) PROVE u[i].g <= NextGroup(r)
      <3>1. CASE i = l + 1 BY <3>1, <1>5, <1>9
      <3>2. CASE i \in 1..l BY <3>2, <1>5, <2>1
      <3> QED BY <3>1, <3>2
    <2> QED BY <1>5, <2>2
  <1>11. ASSUME NEW g \in 0..N PROVE Near(r, g)'
    <2>1. PICK s \in Nat : \A i \in 1..l : t[i].g = g => i > s /\ i <= s + RetryTimes + 1
      BY <1>2, <1>4, <1>5 DEF WalkInv, Near
    <2>2. CASE g = group[r]
      <3>1. PICK s1 \in Nat : s1 = IF l > RetryTimes THEN l - RetryTimes ELSE 0
        BY <1>6
      <3>2. ASSUME NEW i \in 1..(l + 1), u[i].g = g
            PROVE  i > s1 /\ i <= s1 + RetryTimes + 1
        <4>1. CASE i = l + 1 BY <4>1, <3>1, <1>6
        <4>2. CASE i \in 1..l BY <4>2, <2>2, <3>1, <3>2, <1>5, <1>6, <1>9
        <4> QED BY <4>1, <4>2
      <3> QED BY <1>4, <1>5, <3>2 DEF Near
    <2>3. CASE g # group[r]
      <3>1. ASSUME NEW i \in 1..(l + 1), u[i].g = g
            PROVE  i > s /\ i <= s + RetryTimes + 1
        <4>1. i # l + 1 BY <3>1, <2>3, <1>5
        <4>2. i \in 1..l BY <4>1
        <4> QED BY <4>2, <3>1, <2>1, <1>5
      <3> QED BY <1>4, <1>5, <3>1 DEF Near
    <2> QED BY <2>2, <2>3
  <1>12. (Here(r, 1) \/ Ahead(r))'
    <2>1. CASE Here(r, 0)
      <3>0. \A i \in 1..l : t[i].g = group[r] => i > l - (retry[r] + 0)
        BY <2>1, <1>3, <1>4, <1>5, Zenon DEF Here, Recent
      <3>1. ASSUME NEW i \in DOMAIN u, u[i].g = group[r]
            PROVE  i > Len(u) - (retry[r] + 1)
        <4>1. CASE i = l + 1 BY <4>1, <1>5, <1>6
        <4>2. CASE i \in 1..l
          <5>1. i > l - (retry[r] + 0) BY <3>0, <3>1, <4>2, <1>5
          <5> QED BY <4>2, <5>1, <1>5, <1>6
        <4> QED BY <4>1, <4>2, <1>5
      <3>2. Recent(r, group[r], retry[r] + 1)'
        <4>1. group'[r] = group[r] /\ retry'[r] = retry[r] BY <1>1
        <4> QED BY <3>1, <4>1, <1>4, Zenon DEF Recent
      <3> QED BY <2>1, <3>2, <1>1, <1>7 DEF Here
    <2>2. CASE Ahead(r)
      <3>1. ASSUME NEW i \in 1..(l + 1), u[i].g = index[r] PROVE i > l + 1 - 0
        <4>1. i # l + 1 BY <3>1, <2>2, <1>5, <1>6 DEF Ahead
        <4>2. i \in 1..l BY <4>1
        <4> QED BY <4>2, <3>1, <2>2, <1>3, <1>4, <1>5 DEF Ahead, Recent
      <3>2. Recent(r, index[r], 0)' BY <3>1, <1>1, <1>4, <1>5 DEF Recent
      <3> QED BY <2>2, <3>2, <1>1 DEF Ahead
    <2> QED BY <1>8, <2>1, <2>2
  <1>13. (\A i \in DOMAIN tries[r] : tries[r][i].g <= NextGroup(r))'
    BY <1>4, <1>7, <1>10
  <1> QED BY <1>1, <1>4, <1>5, <1>11, <1>12, <1>13 DEF WalkInv, First

\* Looking back over more calls, or over none at a group without calls.
LEMMA RecentFacts ==
  ASSUME TypeOK, NEW r \in Requests
  PROVE  /\ \A g, n, m : n \in Nat /\ m \in Nat /\ n <= m /\ Recent(r, g, n) => Recent(r, g, m)
         /\ \A g \in Nat : (\A i \in DOMAIN tries[r] : tries[r][i].g < g) => Recent(r, g, 0)
         /\ First(r) => \A g, n : Recent(r, g, n)
  <1>1. PICK t \in Seq(Try) : t = tries[r] BY RequestTypes
  <1>2. Len(t) \in Nat /\ DOMAIN t = 1..Len(t) /\ \A i \in DOMAIN t : t[i].g \in Nat
    <2>1. \A i \in DOMAIN t : t[i] \in Try BY <1>1
    <2> QED BY <1>1, <2>1, Constants DEF Try
  <1> QED BY <1>1, <1>2 DEF Recent, First

\* The walk.
LEMMA WalkRelay ==
  ASSUME TypeOK, NEW r \in Requests, RequestInv(r), Relay(r) PROVE WalkInv(r)'
  <1>a. WalkInv(r) /\ ServedInv(r) BY DEF RequestInv
  <1>b. \A i \in DOMAIN tries[r] : tries[r][i].g \in Nat
    <2>1. \A i \in DOMAIN tries[r] : tries[r][i] \in Try BY RequestTypes
    <2> QED BY <2>1, Constants DEF Try
  <1>c. /\ \A g, n, m : n \in Nat /\ m \in Nat /\ n <= m /\ Recent(r, g, n) => Recent(r, g, m)
        /\ \A g \in Nat : (\A i \in DOMAIN tries[r] : tries[r][i].g < g) => Recent(r, g, 0)
        /\ First(r) => \A g, n : Recent(r, g, n)
    BY RecentFacts
  <1>d. tries'[r] = tries[r] => /\ \A g \in 0..N : Near(r, g)'
                               /\ First(r)' = First(r)
    BY <1>a DEF WalkInv, Near, First
  <1> USE Constants, RequestTypes, <1>a, <1>b, <1>c, <1>d
          DEF TypeOK, WalkInv, Here, Ahead, NextGroup, GoTo, listVars, walkVars,
              Pinned, Selects
  <1>1. CASE SelectPinned(r) BY <1>1 DEF SelectPinned, Recent
  <1>2. CASE PinnedDisabled(r) BY <1>2 DEF PinnedDisabled
  <1>3. CASE GroupEmpty(r) BY <1>3 DEF GroupEmpty
  <1>4. CASE SkipGroup(r) BY <1>4 DEF SkipGroup, Recent
  <1>5. CASE NoGroupLeft(r) BY <1>5 DEF NoGroupLeft
  <1>6. CASE NoEnabledKey(r) BY <1>6 DEF NoEnabledKey
  <1>7. ASSUME NEW c \in Channels, SelectInGroup(r, c) PROVE WalkInv(r)'
    BY <1>7 DEF SelectInGroup, ServedInv, Recent
  <1>8. ASSUME NEW c \in Channels, SelectAuto(r, c) PROVE WalkInv(r)'
    BY <1>8 DEF SelectAuto, Exhausted, Recent
  <1>9. ASSUME NEW key \in BOOLEAN, Send(r, key) PROVE WalkInv(r)'
    BY <1>9, WalkSend
  <1>10. CASE Succeed(r) BY <1>10 DEF Succeed
  <1>11. ASSUME NEW e \in Error, NEW disable \in BOOLEAN, Fail(r, e, disable)
         PROVE  WalkInv(r)'
    <2>1. PICK next \in Nat : next = IF reset[r] THEN retry[r] ELSE retry[r] + 1
      OBVIOUS
    <2>2. /\ pc[r] = "sent" /\ ~reset'[r] /\ kind'[r] = kind[r]
          /\ index'[r] = index[r] /\ group'[r] = group[r] /\ tries'[r] = tries[r]
          /\ pc'[r] = "select" => retry'[r] = next
          /\ pc'[r] \notin {"selected", "sent"}
      BY <1>11, <2>1 DEF Fail
    <2>3. Recent(r, NextGroup(r), next)
      <3>1. CASE Here(r, 1) BY <2>1, <3>1
      <3>2. CASE Ahead(r)
        <4>1. Recent(r, index[r], 0) /\ NextGroup(r) = index[r] BY <3>2
        <4>2. Recent(r, index[r], next) BY <4>1, <2>1, <1>c
        <4> QED BY <4>1, <4>2, Zenon
      <3> QED BY <2>2, <3>1, <3>2
    <2>4. NextGroup(r)' = NextGroup(r) BY <2>2
    <2>5. pc'[r] = "select" => Recent(r, NextGroup(r), retry[r])'
      BY <2>2, <2>3, <2>4, Zenon DEF Recent
    <2> HIDE DEF TypeOK, Here, Ahead, NextGroup, WalkInv
    <2>6. tries'[r] # <<>>
      <3>1. Len(tries[r]) > 0 BY <1>a, <2>2 DEF ServedInv
      <3> QED BY <2>2, <3>1
    <2>7. (\A i \in DOMAIN tries[r] : tries[r][i].g <= NextGroup(r))'
      BY <1>a, <2>2, <2>4, Zenon DEF WalkInv
    <2> QED BY <2>2, <2>5, <2>6, <2>7 DEF First, WalkInv
  <1> QED
    BY <1>1, <1>2, <1>3, <1>4, <1>5, <1>6, <1>7, <1>8, <1>9, <1>10, <1>11 DEF Relay

\* A call makes the streak of its group longer.
LEMMA StreakGrows ==
  ASSUME TypeOK, NEW r \in Requests, ServedInv(r), NEW key \in BOOLEAN, Send(r, key),
         NEW n \in Nat, Streak(r, n, group[r])
  PROVE  Streak(r, n + 1, group[r])'
  <1>1. /\ Len(tries'[r]) = Len(tries[r]) + 1
        /\ \A i \in 1..Len(tries[r]) : tries'[r][i] = tries[r][i]
        /\ tries'[r][Len(tries[r]) + 1].g = group[r]
    BY SendAppends
  <1>2. PICK l \in Nat : l = Len(tries[r]) BY RequestTypes
  <1>3. l >= n /\ \A i \in (l - n + 1)..l : tries[r][i].g = group[r]
    BY <1>2 DEF Streak
  <1>4. ASSUME NEW i \in (l + 1 - (n + 1) + 1)..(l + 1)
        PROVE  tries'[r][i].g = group[r]
    <2>1. CASE i = l + 1 BY <1>1, <1>2, <2>1
    <2>2. CASE i \in 1..l /\ i \in (l - n + 1)..l BY <1>1, <1>2, <1>3, <2>2
    <2> QED BY <1>3, <2>1, <2>2
  <1>5. group' = group BY DEF Send
  <1> QED BY <1>1, <1>2, <1>3, <1>4, <1>5 DEF Streak

\* The latest tries.
LEMMA StreakRelay ==
  ASSUME TypeOK, NEW r \in Requests, RequestInv(r), Relay(r) PROVE StreakInv(r)'
  <1>a. StreakInv(r) /\ ServedInv(r) BY DEF RequestInv
  <1> USE Constants, RequestTypes, <1>a
          DEF TypeOK, StreakInv, Streak, NextGroup, Moved, GoTo, listVars, walkVars,
              First, Pinned, Selects
  <1>1. CASE SelectPinned(r) BY <1>1 DEF SelectPinned
  <1>2. CASE PinnedDisabled(r) BY <1>2 DEF PinnedDisabled
  <1>3. CASE GroupEmpty(r) BY <1>3 DEF GroupEmpty
  <1>4. CASE SkipGroup(r) BY <1>4 DEF SkipGroup
  <1>5. CASE NoGroupLeft(r) BY <1>5 DEF NoGroupLeft
  <1>6. CASE NoEnabledKey(r) BY <1>6 DEF NoEnabledKey
  <1>7. ASSUME NEW c \in Channels, SelectInGroup(r, c) PROVE StreakInv(r)'
    BY <1>7 DEF SelectInGroup, ServedInv
  <1>8. ASSUME NEW c \in Channels, SelectAuto(r, c) PROVE StreakInv(r)'
    BY <1>8 DEF SelectAuto, Exhausted
  <1>9. ASSUME NEW key \in BOOLEAN, Send(r, key) PROVE StreakInv(r)'
    <2>1. /\ pc[r] = "selected" /\ pc'[r] = "sent" /\ kind' = kind /\ index' = index
          /\ reset' = reset /\ retry' = retry /\ group' = group
      BY <1>9 DEF Send
    <2>2. Streak(r, 0, group[r]) OBVIOUS
    <2>3. Streak(r, 1, group[r])'
      <3>1. Streak(r, 0 + 1, group[r])' BY <1>9, <2>2, StreakGrows
      <3> QED BY <3>1
    <2>4. Streak(r, retry[r], group[r]) => Streak(r, retry[r] + 1, group[r])'
      <3>1. PICK n \in Nat : n = retry[r] OBVIOUS
      <3>2. Streak(r, n, group[r]) => Streak(r, n + 1, group[r])' BY <1>9, StreakGrows
      <3> QED BY <3>1, <3>2, <2>1
    <2>5. Moved(r)' = Moved(r) /\ NextGroup(r)' = NextGroup(r)
      BY <2>1 DEF Moved, NextGroup
    <2> HIDE DEF Streak, Moved, NextGroup, TypeOK
    <2> QED BY <2>1, <2>3, <2>4, <2>5
  <1>10. CASE Succeed(r) BY <1>10 DEF Succeed
  <1>11. ASSUME NEW e \in Error, NEW disable \in BOOLEAN, Fail(r, e, disable)
         PROVE  StreakInv(r)'
    BY <1>11, SMTT(60) DEF Fail, shouldRetry, Repeatable
  <1> QED
    BY <1>1, <1>2, <1>3, <1>4, <1>5, <1>6, <1>7, <1>8, <1>9, <1>10, <1>11 DEF Relay

\* The group that is charged.
LEMMA ServedRelay ==
  ASSUME TypeOK, ListInv, NEW r \in Requests, ServedInv(r), Relay(r)
  PROVE  ServedInv(r)'
  <1> USE Constants, RequestTypes
          DEF TypeOK, ServedInv, GoTo, listVars, walkVars, First, Pinned, Selects
  <1>1. CASE SelectPinned(r) BY <1>1 DEF SelectPinned
  <1>2. CASE PinnedDisabled(r) BY <1>2 DEF PinnedDisabled
  <1>3. CASE GroupEmpty(r) BY <1>3 DEF GroupEmpty
  <1>4. CASE SkipGroup(r) BY <1>4 DEF SkipGroup
  <1>5. CASE NoGroupLeft(r) BY <1>5 DEF NoGroupLeft
  <1>6. CASE NoEnabledKey(r) BY <1>6 DEF NoEnabledKey
  <1>7. ASSUME NEW c \in Channels, SelectInGroup(r, c) PROVE ServedInv(r)'
    <2>1. c \in Members[kind[r].group] BY <1>7, LookupInList DEF SelectInGroup, ListInv
    <2> QED BY <1>7, <2>1 DEF SelectInGroup
  <1>8. ASSUME NEW c \in Channels, SelectAuto(r, c) PROVE ServedInv(r)'
    <2>1. index[r] \in 1..N BY <1>8 DEF SelectAuto
    <2>2. c \in Members[AutoGroups[index[r]]]
      BY <1>8, <2>1, LookupInList DEF SelectAuto, ListInv
    <2> QED BY <1>8, <2>1, <2>2 DEF SelectAuto
  <1>9. ASSUME NEW key \in BOOLEAN, Send(r, key) PROVE ServedInv(r)'
    BY <1>9, SendAppends DEF Send
  <1>10. CASE Succeed(r) BY <1>10 DEF Succeed
  <1>11. ASSUME NEW e \in Error, NEW disable \in BOOLEAN, Fail(r, e, disable)
         PROVE  ServedInv(r)'
    BY <1>11 DEF Fail
  <1> QED
    BY <1>1, <1>2, <1>3, <1>4, <1>5, <1>6, <1>7, <1>8, <1>9, <1>10, <1>11 DEF Relay

(***************************************************************************)
(* The inductive invariant                                                 *)
(***************************************************************************)
\* Nothing of the request changes.
SameRequest(q) ==
    /\ kind'[q] = kind[q] /\ pc'[q] = pc[q] /\ retry'[q] = retry[q]
    /\ reset'[q] = reset[q] /\ index'[q] = index[q] /\ group'[q] = group[q]
    /\ chan'[q] = chan[q] /\ billed'[q] = billed[q] /\ tries'[q] = tries[q]

LEMMA SameKeeps ==
  ASSUME NEW q \in Requests, RequestInv(q), SameRequest(q) PROVE RequestInv(q)'
  BY DEF SameRequest, RequestInv, WalkInv, StreakInv, ServedInv, Near, Recent, Here,
         Ahead, Streak, NextGroup, Moved, Pinned, First

\* A request's steps change nothing of another request.
LEMMA RelayFrame ==
  ASSUME TypeOK, NEW r \in Requests, Relay(r), NEW q \in Requests, q # r
  PROVE  SameRequest(q)
  BY DEF TypeOK, Relay, SelectPinned, PinnedDisabled, GroupEmpty, SkipGroup,
         NoGroupLeft, NoEnabledKey, SelectInGroup, SelectAuto, Send, Succeed, Fail,
         GoTo, SameRequest, listVars, walkVars

LEMMA InitInv == Init => IInv
  <1> SUFFICES ASSUME Init PROVE IInv OBVIOUS
  <1>1. TypeOK BY TypeInit
  <1>2. ListInv BY DEF Init, ListInv
  <1>3. ASSUME NEW r \in Requests PROVE RequestInv(r)
    <2>4. /\ pc[r] = "select" /\ retry[r] = 0 /\ ~reset[r] /\ index[r] = 1
          /\ group[r] = 0 /\ tries[r] = <<>> /\ Len(tries[r]) = 0
      BY DEF Init
    <2>5. WalkInv(r)
      <3>1. DOMAIN tries[r] = {} BY <2>4
      <3>2. 0 \in Nat OBVIOUS
      <3> QED BY <2>4, <3>1, <3>2, Zenon DEF WalkInv, Near, Recent
    <2>6. StreakInv(r) BY <2>4 DEF StreakInv, Streak
    <2>7. ServedInv(r) BY <2>4 DEF ServedInv
    <2> QED BY <2>5, <2>6, <2>7 DEF RequestInv
  <1> QED BY <1>1, <1>2, <1>3 DEF IInv

LEMMA ListStep == ASSUME IInv, [Next]_vars PROVE ListInv'
  <1>1. ASSUME NEW r \in Requests, Relay(r) PROVE list' = list
    BY <1>1 DEF Relay, SelectPinned, PinnedDisabled, GroupEmpty, SkipGroup,
       NoGroupLeft, NoEnabledKey, SelectInGroup, SelectAuto, Send, Succeed, Fail, listVars
  <1>2. ASSUME NEW c \in Channels, DisableChannel(c) PROVE ListInv'
    BY <1>2 DEF IInv, DisableChannel, ListInv
  <1>3. ASSUME NEW enabled \in SUBSET Channels, InitChannelCache(enabled) PROVE ListInv'
    BY <1>3 DEF InitChannelCache, ListInv
  <1>4. CASE UNCHANGED vars BY <1>4 DEF IInv, ListInv, vars, listVars
  <1> QED BY <1>1, <1>2, <1>3, <1>4 DEF Next, IInv, ListInv

\* Every step keeps the invariant.
LEMMA NextInv == IInv /\ [Next]_vars => IInv'
  <1> SUFFICES ASSUME IInv, [Next]_vars PROVE IInv' OBVIOUS
  <1>1. TypeOK' BY TypeNext
  <1>2. ListInv' BY ListStep
  <1>3. ASSUME NEW q \in Requests PROVE RequestInv(q)'
    <2>0. TypeOK /\ ListInv /\ RequestInv(q) BY DEF IInv
    <2>1. ASSUME NEW r \in Requests, Relay(r) PROVE RequestInv(q)'
      <3>1. CASE q = r
        BY <2>0, <2>1, <3>1, WalkRelay, StreakRelay, ServedRelay DEF RequestInv
      <3>2. CASE q # r BY <2>0, <2>1, <3>2, RelayFrame, SameKeeps
      <3> QED BY <3>1, <3>2
    <2>2. CASE UNCHANGED <<kind, pc, walkVars, group, chan, billed, tries>>
      BY <2>0, <2>2, SameKeeps DEF SameRequest, walkVars
    <2> QED BY <2>1, <2>2 DEF Next, DisableChannel, InitChannelCache, vars
  <1> QED BY <1>1, <1>2, <1>3 DEF IInv

LEMMA Invariance == Spec => []IInv
  BY InitInv, NextInv, PTL DEF Spec

(***************************************************************************)
(* The theorems                                                            *)
(***************************************************************************)
\* The walk over groups and priorities keeps its types: in particular the
\* group index stays within the groups and Retry never passes RetryTimes.
THEOREM TypeCorrect == Spec => []TypeOK
  <1>1. IInv => TypeOK BY DEF IInv
  <1> QED BY <1>1, Invariance, PTL

\* However often the loop of Relay starts its retries again, it makes at most
\* RetryTimes + 1 upstream calls to each group.
THEOREM TriesBoundedThm == Spec => []TriesBounded
  <1>1. ASSUME IInv, NEW r \in Requests, NEW g \in 0..N
        PROVE  Cardinality({i \in DOMAIN tries[r] : tries[r][i].g = g}) <= RetryTimes + 1
    <2>1. DOMAIN tries[r] \subseteq Nat
      <3>1. tries[r] \in Seq(Try) BY <1>1, RequestTypes DEF IInv
      <3> QED BY <3>1
    <2>2. PICK s \in Nat : \A i \in DOMAIN tries[r] :
             tries[r][i].g = g => i > s /\ i <= s + RetryTimes + 1
      BY <1>1 DEF IInv, RequestInv, WalkInv, Near
    <2>3. PICK T : T = {i \in DOMAIN tries[r] : tries[r][i].g = g} OBVIOUS
    <2>4. T \subseteq (s + 1)..(s + RetryTimes + 1)
      BY <2>1, <2>2, <2>3, Constants
    <2>5. /\ IsFiniteSet((s + 1)..(s + RetryTimes + 1))
          /\ Cardinality((s + 1)..(s + RetryTimes + 1)) = RetryTimes + 1
      <3>1. PICK a, b \in Int : a = s + 1 /\ b = s + RetryTimes + 1 /\ a <= b
        BY Constants
      <3>2. IsFiniteSet(a..b) /\ Cardinality(a..b) = IF a > b THEN 0 ELSE b - a + 1
        BY FS_Interval
      <3>3. b - a + 1 = RetryTimes + 1 BY <3>1, Constants
      <3> QED BY <3>1, <3>2, <3>3
    <2>6. Cardinality(T) <= RetryTimes + 1
      <3>1. PICK I : I = (s + 1)..(s + RetryTimes + 1) OBVIOUS
      <3>2. Cardinality(T) <= Cardinality(I) BY <2>4, <2>5, <3>1, FS_Subset
      <3> QED BY <2>5, <3>1, <3>2
    <2> QED BY <2>3, <2>6
  <1>2. IInv => TriesBounded BY <1>1 DEF TriesBounded
  <1> QED BY <1>2, Invariance, PTL

\* The loop of Relay does not give up before it has made RetryTimes retries.
THEOREM RetriesUsedThm == Spec => []RetriesUsed
  <1>1. ASSUME IInv, NEW r \in Requests, pc[r] = "gaveUp", ~Pinned(r)
        PROVE  Len(tries[r]) > RetryTimes
    <2>1. Streak(r, RetryTimes + 1, group[r])
      BY <1>1 DEF IInv, RequestInv, StreakInv
    <2>2. Len(tries[r]) \in Nat /\ RetryTimes \in Nat
      BY <1>1, RequestTypes, Constants DEF IInv
    <2> QED BY <2>1, <2>2 DEF Streak
  <1>2. IInv => RetriesUsed BY <1>1 DEF RetriesUsed
  <1> QED BY <1>2, Invariance, PTL

\* HandleGroupRatio charges the ratio of the group that serves the request.
THEOREM BilledAsServedThm == Spec => []BilledAsServed
  <1>1. IInv => BilledAsServed
    BY DEF IInv, RequestInv, ServedInv, BilledAsServed
  <1> QED BY <1>1, Invariance, PTL

-----------------------------------------------------------------------------
(***************************************************************************)
(* The keys of a channel                                                   *)
(***************************************************************************)
CONSTANTS KeyLists, Text, Handlers, Loop

K == INSTANCE MultiKey WITH Channels <- KeyLists

\* The types of key lists and rows, as K!TypeOK has them.
KeySeqs == UNION {[1..n -> Keys] : n \in 0..Cardinality(Keys)}
Values == {"on", "auto", "manual"}
Rows == [keys : KeySeqs, size : 0..Cardinality(Keys), list : [K!Index -> Values],
         status : Values, able : BOOLEAN, next : K!Index]

\* A channel has a key, no key twice, and a size of at least one.
GoodRow(row) ==
    /\ row.keys # << >> /\ row.size >= 1
    /\ \A i, j \in DOMAIN row.keys : row.keys[i] = row.keys[j] => i = j

\* Every set of natural numbers that is not empty has a least element.
LEMMA Least ==
    ASSUME NEW T, T \subseteq Nat, T # {}
    PROVE  \E x \in T : \A y \in T : x <= y
<1> DEFINE R == OpToRel(<, Nat)
<1>1. IsWellFoundedOn(R, Nat)
  BY NatLessThanWellFounded
<1>2. \A x, y \in Nat : <<y, x>> \in R <=> y < x
  BY DEF OpToRel
<1> HIDE DEF R
<1>3. PICK x \in T : \A y \in T : ~(<<y, x>> \in R)
  BY <1>1, WFMin
<1>4. x \in Nat /\ \A y \in T : y \in Nat
  OBVIOUS
<1>5. \A y \in T : ~(y < x)
  BY <1>2, <1>3, <1>4
<1>6. \A y \in T : x <= y
  BY <1>4, <1>5
<1> QED BY <1>6

\* The instance counts as FiniteSetTheorems does.
LEMMA SameCount ==
    /\ \A S : K!Cardinality(S) = Cardinality(S)
    /\ \A S : K!IsFiniteSet(S) <=> IsFiniteSet(S)
<1>1. ASSUME NEW S PROVE K!Cardinality(S) = Cardinality(S)
  BY Zenon DEF K!Cardinality, Cardinality
<1>2. ASSUME NEW S PROVE K!IsFiniteSet(S) <=> IsFiniteSet(S)
  BY DEF K!IsFiniteSet, IsFiniteSet
<1> QED BY <1>1, <1>2

LEMMA IntervalCount == ASSUME NEW n \in Nat PROVE IsFiniteSet(1..n) /\ Cardinality(1..n) = n
<1>1. 1 \in Int /\ n \in Int
  OBVIOUS
<1>2. IsFiniteSet(1..n) /\ Cardinality(1..n) = IF 1 > n THEN 0 ELSE n - 1 + 1
  BY <1>1, FS_Interval
<1> QED BY <1>2

\* A set of m indexes or less has an n-th element, for every n up to the
\* number of its elements: the first index up to which there are n of them.
LEMMA NthFacts ==
    ASSUME NEW m \in Nat, NEW S \in SUBSET (1..m), NEW n \in 1..Cardinality(S)
    PROVE  K!Nth(S, n) \in S /\ Cardinality({j \in S : j <= K!Nth(S, n)}) = n
<1> DEFINE F(x) == {j \in S : j <= x}
           T == {x \in 0..m : Cardinality(F(x)) >= n}
<1>1. IsFiniteSet(S) /\ Cardinality(S) \in Nat
  <2>1. IsFiniteSet(1..m)
    BY FS_Interval
  <2> QED BY <2>1, FS_Subset, FS_CardinalityType
<1>2. \A x : IsFiniteSet(F(x)) /\ Cardinality(F(x)) \in Nat
  <2> SUFFICES ASSUME NEW x PROVE IsFiniteSet(F(x)) /\ Cardinality(F(x)) \in Nat
    OBVIOUS
  <2>1. F(x) \in SUBSET S
    OBVIOUS
  <2> HIDE DEF F
  <2> QED BY <1>1, <2>1, FS_Subset, FS_CardinalityType
<1>3. F(m) = S /\ F(0) = {}
  <2>1. \A j \in S : j \in Nat /\ j <= m /\ ~(j <= 0)
    OBVIOUS
  <2> QED BY <2>1
<1>4. m \in T
  <2>1. Cardinality(F(m)) >= n
    BY <1>1, <1>3
  <2> QED BY <2>1
<1>5. PICK x \in T : \A y \in T : x <= y
  <2>1. T \subseteq Nat
    OBVIOUS
  <2> HIDE DEF T
  <2> QED BY <1>4, <2>1, Least
<1>6. x \in 0..m /\ Cardinality(F(x)) >= n
  BY <1>5
<1>7. x # 0
  <2>1. Cardinality(F(0)) = 0
    BY <1>3, FS_EmptySet
  <2> HIDE DEF F
  <2> QED BY <1>1, <1>6, <2>1
<1>8. Cardinality(F(x - 1)) < n
  <2>1. x - 1 \in 0..m /\ ~(x <= x - 1)
    BY <1>6, <1>7
  <2>2. x - 1 \notin T
    BY <1>5, <2>1
  <2>3. ~(Cardinality(F(x - 1)) >= n)
    BY <2>1, <2>2
  <2>4. Cardinality(F(x - 1)) \in Nat
    BY <1>2
  <2> HIDE DEF F, T
  <2> QED BY <1>1, <2>3, <2>4
<1>9. x \in S
  <2> SUFFICES ASSUME x \notin S PROVE FALSE
    OBVIOUS
  <2>1. F(x) = F(x - 1)
    <3>1. \A j \in S : j <= x <=> j <= x - 1
      BY <1>6
    <3> QED BY <3>1
  <2>2. Cardinality(F(x - 1)) \in Nat
    BY <1>2
  <2> HIDE DEF F, T
  <2> QED BY <1>1, <1>6, <1>8, <2>1, <2>2
<1>10. Cardinality(F(x)) = n
  <2>1. F(x) = F(x - 1) \cup {x} /\ x \notin F(x - 1)
    <3>1. \A j \in S : j <= x <=> j <= x - 1 \/ j = x
      BY <1>6
    <3>2. ~(x <= x - 1) /\ x <= x
      BY <1>6
    <3> QED BY <1>9, <3>1, <3>2
  <2>2. IsFiniteSet(F(x - 1)) /\ Cardinality(F(x - 1)) \in Nat
    BY <1>2
  <2> HIDE DEF F, T
  <2>3. Cardinality(F(x)) = Cardinality(F(x - 1)) + 1
    BY <2>1, <2>2, FS_AddElement
  <2> QED BY <1>1, <1>6, <1>8, <2>2, <2>3
<1>11. \E i \in S : K!Cardinality({j \in S : j <= i}) = n
  BY <1>9, <1>10, SameCount
<1> HIDE DEF F, T
<1>12. K!Nth(S, n) \in S /\ K!Cardinality({j \in S : j <= K!Nth(S, n)}) = n
  BY <1>11, Zenon DEF K!Nth
<1> QED BY <1>12, SameCount

\* A key list is a sequence of keys, not longer than there are keys.
LEMMA KeySeqsFacts ==
    ASSUME K!KeysAssumption
    PROVE  /\ Cardinality(Keys) \in Nat
           /\ K!Index = 1..Cardinality(Keys)
           /\ \A s \in KeySeqs : /\ s \in Seq(Keys) /\ Len(s) \in Nat
                                 /\ Len(s) <= Cardinality(Keys)
                                 /\ DOMAIN s = 1..Len(s)
                                 /\ DOMAIN s \subseteq K!Index
           /\ \A n \in 0..Cardinality(Keys) : \A f \in [1..n -> Keys] :
                 f \in KeySeqs /\ Len(f) = n
           /\ \A s \in Seq(Keys) : Len(s) <= Cardinality(Keys) => s \in KeySeqs
<1>1. Cardinality(Keys) \in Nat
  BY FS_CardinalityType, SameCount DEF K!KeysAssumption
<1>2. K!Index = 1..Cardinality(Keys)
  BY SameCount DEF K!Index
<1>3. \A n \in 0..Cardinality(Keys) : \A f \in [1..n -> Keys] :
         f \in KeySeqs /\ Len(f) = n /\ f \in Seq(Keys)
  <2> SUFFICES ASSUME NEW n \in 0..Cardinality(Keys), NEW f \in [1..n -> Keys]
               PROVE  f \in KeySeqs /\ Len(f) = n /\ f \in Seq(Keys)
    OBVIOUS
  <2>1. n \in Nat
    BY <1>1
  <2>2. Len(f) = n /\ f \in Seq(Keys)
    BY <2>1
  <2>3. f \in KeySeqs
    BY DEF KeySeqs
  <2> QED BY <2>2, <2>3
<1>4. \A s \in Seq(Keys) : Len(s) <= Cardinality(Keys) => s \in KeySeqs
  <2> SUFFICES ASSUME NEW s \in Seq(Keys), Len(s) <= Cardinality(Keys) PROVE s \in KeySeqs
    OBVIOUS
  <2>1. s \in [1..Len(s) -> Keys] /\ Len(s) \in 0..Cardinality(Keys)
    BY <1>1
  <2> QED BY <2>1 DEF KeySeqs
<1>5. ASSUME NEW s \in KeySeqs
      PROVE  /\ s \in Seq(Keys) /\ Len(s) \in Nat
             /\ Len(s) <= Cardinality(Keys)
             /\ DOMAIN s = 1..Len(s)
             /\ DOMAIN s \subseteq K!Index
  <2>1. PICK n \in 0..Cardinality(Keys) : s \in [1..n -> Keys]
    BY DEF KeySeqs
  <2>2. Len(s) = n /\ s \in Seq(Keys)
    BY <1>3, <2>1
  <2>3. n \in Nat /\ n <= Cardinality(Keys) /\ DOMAIN s = 1..n
    BY <1>1, <2>1
  <2>4. 1..n \subseteq 1..Cardinality(Keys)
    BY <1>1, <2>3
  <2> QED BY <1>2, <2>2, <2>3, <2>4
<1> QED BY <1>1, <1>2, <1>3, <1>4, <1>5

LEMMA NatFacts ==
    ASSUME K!KeysAssumption
    PROVE  /\ \A n \in 0..Cardinality(Keys) : n \in Nat
           /\ \A i \in K!Index : i \in Nat /\ i >= 1
BY KeySeqsFacts

LEMMA UpTo == \A n \in Nat : \A i \in 1..n : i <= n
OBVIOUS

\* Which keys of a row are disabled, by their index.
LEMMA RowFacts ==
    ASSUME K!KeysAssumption, NEW row \in Rows
    PROVE  /\ row.keys \in KeySeqs /\ row.list \in [K!Index -> Values]
           /\ row.size \in 0..Cardinality(Keys) /\ row.status \in Values
           /\ row.able \in BOOLEAN /\ row.next \in K!Index
           /\ K!KeysOf(row) \subseteq Keys /\ K!Disabled(row) \subseteq Keys
           /\ K!Disabled(row) \subseteq K!KeysOf(row)
           /\ \A k : k \in K!KeysOf(row) <=> \E i \in DOMAIN row.keys : row.keys[i] = k
           /\ \A k : k \in K!Disabled(row) <=>
                \E i \in DOMAIN row.keys : row.keys[i] = k /\ row.list[i] # "on"
<1>1. /\ row.keys \in KeySeqs /\ row.list \in [K!Index -> Values]
      /\ row.size \in 0..Cardinality(Keys) /\ row.status \in Values
      /\ row.able \in BOOLEAN /\ row.next \in K!Index
  BY DEF Rows
<1>2. row.keys \in Seq(Keys) /\ DOMAIN row.keys \subseteq K!Index
  BY <1>1, KeySeqsFacts
<1>3. \A i \in DOMAIN row.keys : row.keys[i] \in Keys
  BY <1>2
<1>4. \A k : k \in K!KeysOf(row) <=> \E i \in DOMAIN row.keys : row.keys[i] = k
  BY DEF K!KeysOf
<1>5. \A k : k \in K!Disabled(row) <=>
        \E i \in DOMAIN row.keys : row.keys[i] = k /\ row.list[i] # "on"
  BY <1>2 DEF K!Disabled, K!Off
<1>6. K!KeysOf(row) \subseteq Keys /\ K!Disabled(row) \subseteq Keys
  BY <1>3, <1>4, <1>5
<1>7. K!Disabled(row) \subseteq K!KeysOf(row)
  BY <1>4, <1>5
<1> QED BY <1>1, <1>4, <1>5, <1>6, <1>7

LEMMA NoRowType ==
    ASSUME K!KeysAssumption, 1 \in K!Index
    PROVE  K!NoRow \in Rows /\ K!AllOn \in [K!Index -> Values]
<1>1. K!AllOn \in [K!Index -> Values]
  BY DEF K!AllOn, Values
<1>2. << >> \in KeySeqs /\ 0 \in 0..Cardinality(Keys)
  <2>1. << >> \in Seq(Keys) /\ Len(<< >>) = 0
    OBVIOUS
  <2>2. Cardinality(Keys) \in Nat
    BY KeySeqsFacts
  <2>3. Len(<< >>) <= Cardinality(Keys) /\ 0 \in 0..Cardinality(Keys)
    BY <2>1, <2>2
  <2>4. << >> \in KeySeqs
    BY <2>1, <2>3, KeySeqsFacts
  <2> QED BY <2>3, <2>4
<1> QED BY <1>1, <1>2 DEF K!NoRow, Rows, Values

\* What Channel.Update makes of a row.
LEMMA UpdateFacts ==
    ASSUME K!KeysAssumption, NEW row \in Rows, db \in Rows, GoodRow(db), NEW w \in BOOLEAN
    PROVE  /\ K!Update(row, w) \in Rows
           /\ K!Update(row, w).keys = IF w THEN row.keys ELSE db.keys
           /\ K!Update(row, w).size = IF w THEN 1 ELSE Len(db.keys)
           /\ K!Update(row, w).status = row.status
           /\ \A i \in K!Index : K!Update(row, w).list[i] =
                IF i <= K!Update(row, w).size THEN row.list[i] ELSE "on"
<1> DEFINE size == IF w THEN 1 ELSE Len(db.keys)
           l == [i \in K!Index |-> IF i <= size THEN row.list[i] ELSE "on"]
           ks == IF w THEN row.keys ELSE db.keys
           u == [row EXCEPT !.keys = ks, !.size = size, !.list = l,
                            !.able = row.status = "on"]
<1>1. K!Update(row, w) = u
  BY DEF K!Update
<1>2. size \in 0..Cardinality(Keys)
  <2>1. Len(db.keys) \in Nat /\ Len(db.keys) <= Cardinality(Keys) /\ Cardinality(Keys) \in Nat
    BY KeySeqsFacts, RowFacts
  <2>2. Len(db.keys) # 0
    BY KeySeqsFacts, RowFacts DEF GoodRow
  <2> QED BY <2>1, <2>2
<1>3. l \in [K!Index -> Values]
  <2>1. row.list \in [K!Index -> Values]
    BY RowFacts
  <2> QED BY <2>1 DEF Values
<1>4. ks \in KeySeqs
  BY RowFacts
<1>5. \A i \in K!Index : l[i] = IF i <= size THEN row.list[i] ELSE "on"
  OBVIOUS
<1> HIDE DEF size, l, ks
<1>6. /\ u \in Rows /\ u.keys = ks /\ u.size = size /\ u.status = row.status /\ u.list = l
  BY <1>2, <1>3, <1>4 DEF Rows
<1> HIDE DEF u
<1> QED BY <1>1, <1>5, <1>6 DEF size, ks

\* Where handlerMultiKeyUpdate finds a key.
LEMMA KeyIndexFacts ==
    ASSUME K!KeysAssumption, NEW row \in Rows, GoodRow(row), NEW k
    PROVE  /\ K!KeyIndex(row, k) \in DOMAIN row.keys
           /\ K!KeysOf(row) \cap K!SameText(k) # {} =>
                row.keys[K!KeyIndex(row, k)] \in K!SameText(k)
<1>1. 1 \in DOMAIN row.keys
  <2>1. row.keys \in Seq(Keys) /\ row.keys # << >> /\ DOMAIN row.keys = 1..Len(row.keys)
    BY KeySeqsFacts, RowFacts DEF GoodRow
  <2> QED BY <2>1
<1> DEFINE at == {i \in DOMAIN row.keys : row.keys[i] \in K!SameText(k)}
<1>2. K!KeyIndex(row, k) = IF at = {} THEN 1 ELSE CHOOSE i \in at : \A j \in at : i <= j
  BY DEF K!KeyIndex
<1>3. at = {} <=> K!KeysOf(row) \cap K!SameText(k) = {}
  BY DEF K!KeysOf
<1>4. at \subseteq Nat
  <2>1. DOMAIN row.keys = 1..Len(row.keys) /\ Len(row.keys) \in Nat
    BY KeySeqsFacts, RowFacts
  <2> QED BY <2>1
<1>5. at # {} => K!KeyIndex(row, k) \in at
  <2> HIDE DEF at
  <2> SUFFICES ASSUME at # {} PROVE K!KeyIndex(row, k) \in at
    OBVIOUS
  <2>1. \E i \in at : \A j \in at : i <= j
    BY <1>4, Least
  <2> QED BY <1>2, <2>1
<1>6. CASE at = {}
  BY <1>1, <1>2, <1>3, <1>6
<1>7. CASE at # {}
  BY <1>5, <1>7
<1> QED BY <1>6, <1>7

LEMMA HandlerFacts ==
    ASSUME K!KeysAssumption, NEW row \in Rows, NEW k, NEW to \in {"auto", "on"}
    PROVE  LET new == K!handlerMultiKeyUpdate(row, k, to) IN
           /\ new \in Rows /\ new.keys = row.keys /\ new.size = row.size
           /\ \A i \in K!Index : new.list[i] = IF i = K!KeyIndex(row, k) THEN to ELSE row.list[i]
           /\ new.status # row.status => 
                new.status = "auto" /\ Cardinality(K!Off(new)) >= new.size
<1> DEFINE marked == [row EXCEPT !.list[K!KeyIndex(row, k)] = to]
           new == [marked EXCEPT !.status = IF K!AllDisabled(marked) THEN "auto" ELSE @]
           l == [row.list EXCEPT ![K!KeyIndex(row, k)] = to]
<1>1. K!handlerMultiKeyUpdate(row, k, to) = new
  BY DEF K!handlerMultiKeyUpdate
<1>2. l \in [K!Index -> Values]
  <2>1. row.list \in [K!Index -> Values]
    BY RowFacts
  <2> QED BY <2>1 DEF Values
<1>3. marked \in Rows /\ marked.keys = row.keys /\ marked.size = row.size /\ marked.list = l
      /\ marked.status = row.status
  BY <1>2 DEF Rows
<1>4. /\ new \in Rows /\ new.keys = row.keys /\ new.size = row.size /\ new.list = l
      /\ new.status = IF K!AllDisabled(marked) THEN "auto" ELSE row.status
  <2> HIDE DEF marked, l
  <2> QED BY <1>3 DEF Rows, Values
<1>5. K!Off(new) = K!Off(marked)
  BY <1>3, <1>4 DEF K!Off
<1>6. K!AllDisabled(marked) => Cardinality(K!Off(new)) >= new.size
  BY <1>3, <1>4, <1>5, SameCount DEF K!AllDisabled
<1>7. \A i \in K!Index : l[i] = IF i = K!KeyIndex(row, k) THEN to ELSE row.list[i]
  BY RowFacts
<1> HIDE DEF marked, l, new
<1> QED BY <1>1, <1>4, <1>6, <1>7

\* The loop that deletes keys: what is left is one of the old keys each, with
\* its status, and no key twice.
LEMMA WithoutFacts ==
    ASSUME K!KeysAssumption, NEW row \in Rows, GoodRow(row), NEW gone
    PROVE  LET new == K!Without(row, gone)
               left == DOMAIN row.keys \ gone IN
           /\ new \in Rows /\ new.status = row.status
           /\ new.keys = << >> <=> left = {}
           /\ \A i \in DOMAIN new.keys : \E j \in left :
                new.keys[i] = row.keys[j] /\ new.list[i] = row.list[j]
           /\ \A i, j \in DOMAIN new.keys : new.keys[i] = new.keys[j] => i = j
           /\ \A i \in K!Index : new.list[i] # "on" => i \in DOMAIN new.keys
<1> DEFINE left == DOMAIN row.keys \ gone
           c == Cardinality(left)
           ks == [n \in 1..c |-> row.keys[K!Nth(left, n)]]
           l == [n \in K!Index |-> IF n <= c THEN row.list[K!Nth(left, n)] ELSE "on"]
           new == [row EXCEPT !.keys = ks, !.size = c, !.list = l]
<1>0. row.keys \in Seq(Keys) /\ Len(row.keys) \in Nat /\ DOMAIN row.keys = 1..Len(row.keys)
      /\ Len(row.keys) <= Cardinality(Keys) /\ Cardinality(Keys) \in Nat
      /\ DOMAIN row.keys \subseteq K!Index /\ K!Index = 1..Cardinality(Keys)
  BY KeySeqsFacts, RowFacts
<1>1. K!Without(row, gone) = new
  BY SameCount DEF K!Without
<1>2. left \in SUBSET (1..Len(row.keys))
  BY <1>0
<1>3. c \in Nat /\ c <= Len(row.keys) /\ (c = 0 <=> left = {})
  <2>1. IsFiniteSet(1..Len(row.keys)) /\ Cardinality(1..Len(row.keys)) = Len(row.keys)
    BY <1>0, IntervalCount
  <2>2. IsFiniteSet(left) /\ Cardinality(left) <= Len(row.keys)
    BY <1>2, <2>1, FS_Subset
  <2> HIDE DEF left
  <2> QED BY <2>2, FS_CardinalityType, FS_EmptySet
<1>4. \A n \in 1..c : K!Nth(left, n) \in left /\ Cardinality({j \in left : j <= K!Nth(left, n)}) = n
  <2> HIDE DEF left
  <2> QED BY <1>0, <1>2, NthFacts
<1>5. \A n \in 1..c : K!Nth(left, n) \in DOMAIN row.keys /\ K!Nth(left, n) \in K!Index
  BY <1>0, <1>4
<1>6. c \in 0..Cardinality(Keys)
  <2> HIDE DEF c
  <2> QED BY <1>0, <1>3
<1>7. ks \in KeySeqs /\ Len(ks) = c /\ DOMAIN ks = 1..c
  <2>1. \A n \in 1..c : row.keys[K!Nth(left, n)] \in Keys
    <3> HIDE DEF c, left
    <3> QED BY <1>0, <1>5
  <2>2. ks \in [1..c -> Keys]
    <3> HIDE DEF c, left
    <3> QED BY <2>1
  <2> HIDE DEF ks, c
  <2> QED BY <1>6, <2>2, KeySeqsFacts
<1>8. l \in [K!Index -> Values]
  <2>1. row.list \in [K!Index -> Values]
    BY RowFacts
  <2>2. \A n \in K!Index : n <= c => K!Nth(left, n) \in K!Index
    <3> HIDE DEF c, left
    <3> QED BY <1>0, <1>3, <1>5
  <2> HIDE DEF c, left
  <2> QED BY <2>1, <2>2 DEF Values
<1>9. new \in Rows /\ new.keys = ks /\ new.list = l /\ new.status = row.status
  <2> HIDE DEF c, ks, l
  <2> QED BY <1>6, <1>7, <1>8 DEF Rows
<1>10. ks = << >> <=> left = {}
  <2>1. ks = << >> <=> c = 0
    <3> HIDE DEF ks, c
    <3>1. ks \in Seq(Keys)
      BY <1>7, KeySeqsFacts
    <3> QED BY <1>3, <1>7, <3>1
  <2> QED BY <1>3, <2>1
<1>11. \A i \in 1..c : ks[i] = row.keys[K!Nth(left, i)] /\ l[i] = row.list[K!Nth(left, i)]
  <2>1. \A i \in 1..c : i \in K!Index /\ i <= c
    <3> HIDE DEF c
    <3> QED BY <1>0, <1>3, <1>6
  <2> HIDE DEF c, left
  <2> QED BY <2>1
<1>12. \A i \in DOMAIN ks : \E j \in left : ks[i] = row.keys[j] /\ l[i] = row.list[j]
  <2> HIDE DEF c, left, ks, l
  <2> QED BY <1>4, <1>7, <1>11
<1>13. ASSUME NEW i \in DOMAIN ks, NEW j \in DOMAIN ks, ks[i] = ks[j] PROVE i = j
  <2>1. i \in 1..c /\ j \in 1..c
    BY <1>7
  <2>2. row.keys[K!Nth(left, i)] = row.keys[K!Nth(left, j)]
    <3> HIDE DEF c, left, ks, l
    <3> QED BY <1>11, <1>13, <2>1
  <2>3. K!Nth(left, i) = K!Nth(left, j)
    <3> HIDE DEF c, left, ks, l
    <3> QED BY <1>5, <2>1, <2>2 DEF GoodRow
  <2> HIDE DEF c, left, ks, l
  <2> QED BY <1>4, <2>1, <2>3
<1>14. \A i \in K!Index : l[i] # "on" => i \in DOMAIN ks
  <2> SUFFICES ASSUME NEW i \in K!Index, l[i] # "on" PROVE i \in 1..c
    BY <1>7
  <2>1. i <= c
    <3> HIDE DEF c, left
    <3> QED OBVIOUS
  <2> HIDE DEF c, left
  <2> QED BY <1>0, <1>3, <2>1
<1> HIDE DEF c, ks, l, new
<1> QED BY <1>1, <1>9, <1>10, <1>12, <1>13, <1>14

\* The operations of the administrator.
Ops == K!OfKeys \cup {"none", "enable channel", "disable channel"}
Deletes == {"delete", "delete disabled"}

\* The status an operation that deletes nothing gives the i-th key.
SetTo(row, do, i) ==
    IF \/ do[1] = "disable" /\ i = do[2]
       \/ do[1] = "disable all" /\ i <= row.size /\ row.list[i] = "on" THEN "manual"
    ELSE IF do[1] = "enable all" \/ (do[1] = "enable" /\ i = do[2]) THEN "on"
    ELSE row.list[i]

LEMMA ChangedKeeps ==
    ASSUME K!KeysAssumption, NEW row \in Rows, NEW do \in Ops \X K!Index, do[1] \notin Deletes
    PROVE  LET want == K!Changed(row, do) IN
           /\ want \in Rows /\ want.keys = row.keys
           /\ row.status # "auto" => want.status # "auto"
           /\ \A i \in K!Index : want.list[i] = SetTo(row, do, i)
<1> DEFINE with(l) == [row EXCEPT !.list = l]
           to(x) == [row EXCEPT !.status = x]
<1>1. row.list \in [K!Index -> Values] /\ K!AllOn \in [K!Index -> Values]
  BY RowFacts DEF K!AllOn, Values
<1>2. do[2] \in K!Index /\ do[1] \in Ops
  OBVIOUS
<1>3. ASSUME NEW l \in [K!Index -> Values], K!Changed(row, do) = with(l),
             \A i \in K!Index : l[i] = SetTo(row, do, i)
      PROVE  /\ K!Changed(row, do) \in Rows /\ K!Changed(row, do).keys = row.keys
             /\ row.status # "auto" => K!Changed(row, do).status # "auto"
             /\ \A i \in K!Index : K!Changed(row, do).list[i] = SetTo(row, do, i)
  <2>1. with(l) \in Rows /\ with(l).keys = row.keys /\ with(l).list = l
        /\ with(l).status = row.status
    BY DEF Rows
  <2> HIDE DEF with
  <2> QED BY <1>3, <2>1
<1>4. ASSUME NEW x \in {"on", "manual"}, K!Changed(row, do) = to(x),
             \A i \in K!Index : row.list[i] = SetTo(row, do, i)
      PROVE  /\ K!Changed(row, do) \in Rows /\ K!Changed(row, do).keys = row.keys
             /\ row.status # "auto" => K!Changed(row, do).status # "auto"
             /\ \A i \in K!Index : K!Changed(row, do).list[i] = SetTo(row, do, i)
  <2>1. to(x) \in Rows /\ to(x).keys = row.keys /\ to(x).list = row.list
        /\ to(x).status = x
    BY DEF Rows, Values
  <2> HIDE DEF to
  <2> QED BY <1>4, <2>1
<1>5. CASE do[1] = "disable"
  <2> DEFINE l == [row.list EXCEPT ![do[2]] = "manual"]
  <2>1. K!Changed(row, do) = with(l)
    BY <1>5 DEF K!Changed
  <2>2. l \in [K!Index -> Values] /\ \A i \in K!Index : l[i] = SetTo(row, do, i)
    BY <1>1, <1>5 DEF Values, SetTo
  <2> HIDE DEF l, with
  <2> QED BY <1>3, <2>1, <2>2
<1>6. CASE do[1] = "enable"
  <2> DEFINE l == [row.list EXCEPT ![do[2]] = "on"]
  <2>1. K!Changed(row, do) = with(l)
    BY <1>6 DEF K!Changed
  <2>2. l \in [K!Index -> Values] /\ \A i \in K!Index : l[i] = SetTo(row, do, i)
    BY <1>1, <1>6 DEF Values, SetTo
  <2> HIDE DEF l, with
  <2> QED BY <1>3, <2>1, <2>2
<1>7. CASE do[1] = "enable all"
  <2>1. K!Changed(row, do) = with(K!AllOn)
    BY <1>7 DEF K!Changed
  <2>2. \A i \in K!Index : K!AllOn[i] = SetTo(row, do, i)
    BY <1>7 DEF K!AllOn, SetTo
  <2> HIDE DEF with
  <2> QED BY <1>1, <1>3, <2>1, <2>2
<1>8. CASE do[1] = "disable all"
  <2> DEFINE l == [i \in K!Index |->
                     IF i <= row.size /\ row.list[i] = "on" THEN "manual" ELSE row.list[i]]
  <2>1. K!Changed(row, do) = with(l)
    BY <1>8 DEF K!Changed
  <2>2. l \in [K!Index -> Values] /\ \A i \in K!Index : l[i] = SetTo(row, do, i)
    BY <1>1, <1>8 DEF Values, SetTo
  <2> HIDE DEF l, with
  <2> QED BY <1>3, <2>1, <2>2
<1>9. CASE do[1] = "enable channel"
  <2>1. K!Changed(row, do) = to("on")
    BY <1>9 DEF K!Changed, K!Switched
  <2>2. \A i \in K!Index : row.list[i] = SetTo(row, do, i)
    BY <1>9 DEF SetTo
  <2> HIDE DEF to
  <2> QED BY <1>4, <2>1, <2>2
<1>10. CASE do[1] \in {"none", "disable channel"}
  <2>1. K!Changed(row, do) = to("manual")
    BY <1>10 DEF K!Changed, K!Switched
  <2>2. \A i \in K!Index : row.list[i] = SetTo(row, do, i)
    BY <1>10 DEF SetTo
  <2> HIDE DEF to
  <2> QED BY <1>4, <2>1, <2>2
<1> HIDE DEF with, to
<1> QED BY <1>2, <1>5, <1>6, <1>7, <1>8, <1>9, <1>10 DEF Ops, K!OfKeys, K!OneKey, Deletes

\* A handler that has read row writes new.  What it asks for is done for the
\* keys that are stored with their status.
Wanted(row, do) == K!Changed(row, do)
Written(row, do) == do[1] \in K!OfKeys /\ Wanted(row, do).keys # << >>
New(row, do) == K!Update(Wanted(row, do), Written(row, do))
NamedBy(row, do) ==
    CASE do[1] = "disable" -> K!Named(row, do[2])
      [] do[1] = "disable all" -> K!KeysOf(row)
      [] OTHER -> {}

LEMMA DeletesFacts ==
    ASSUME K!KeysAssumption, NEW row \in Rows, GoodRow(row),
           NEW do \in Ops \X K!Index, do[1] \in Deletes
    PROVE  /\ Wanted(row, do) \in Rows /\ Wanted(row, do).status = row.status
           /\ \A i \in DOMAIN Wanted(row, do).keys : \E j \in DOMAIN row.keys :
                /\ Wanted(row, do).keys[i] = row.keys[j]
                /\ Wanted(row, do).list[i] = row.list[j]
           /\ \A i, j \in DOMAIN Wanted(row, do).keys :
                Wanted(row, do).keys[i] = Wanted(row, do).keys[j] => i = j
           /\ \A i \in K!Index : Wanted(row, do).list[i] # "on" => i \in DOMAIN Wanted(row, do).keys
           /\ Wanted(row, do).keys = << >> /\ ~K!Refused(row, do) =>
                do[1] = "delete disabled" /\ K!AutoDisabled(row) = DOMAIN row.keys
<1> DEFINE Left(gone) == DOMAIN row.keys \ gone
           Facts(w, left) ==
             /\ w \in Rows /\ w.status = row.status
             /\ w.keys = << >> <=> left = {}
             /\ \A i \in DOMAIN w.keys : \E j \in left :
                  w.keys[i] = row.keys[j] /\ w.list[i] = row.list[j]
             /\ \A i, j \in DOMAIN w.keys : w.keys[i] = w.keys[j] => i = j
             /\ \A i \in K!Index : w.list[i] # "on" => i \in DOMAIN w.keys
<1>0. \A gone : Facts(K!Without(row, gone), Left(gone))
  BY WithoutFacts
<1>a. \A gone : Left(gone) \subseteq DOMAIN row.keys
  OBVIOUS
<1>1. CASE do[1] = "delete"
  <2>1. Wanted(row, do) = K!Without(row, {do[2]})
    BY <1>1 DEF K!Changed, Wanted
  <2>2. Left({do[2]}) = {} => K!Refused(row, do)
    BY <1>1 DEF K!Refused
  <2>3. Facts(Wanted(row, do), Left({do[2]}))
    <3> HIDE DEF Facts, Left
    <3> QED BY <1>0, <2>1
  <2> HIDE DEF Left
  <2> QED BY <1>a, <2>2, <2>3
<1>2. CASE do[1] = "delete disabled"
  <2>1. Wanted(row, do) = K!Without(row, K!AutoDisabled(row))
    BY <1>2 DEF K!Changed, Wanted
  <2>2. Left(K!AutoDisabled(row)) = {} => K!AutoDisabled(row) = DOMAIN row.keys
    BY DEF K!AutoDisabled
  <2>3. Facts(Wanted(row, do), Left(K!AutoDisabled(row)))
    <3> HIDE DEF Facts, Left
    <3> QED BY <1>0, <2>1
  <2> HIDE DEF Left
  <2> QED BY <1>2, <1>a, <2>2, <2>3
<1> QED BY <1>1, <1>2 DEF Deletes

\* The row that is written is a row of a channel.
LEMMA NewGood ==
    ASSUME K!KeysAssumption, NEW row \in Rows, GoodRow(row), db \in Rows, GoodRow(db),
           NEW do \in Ops \X K!Index
    PROVE  /\ Wanted(row, do) \in Rows /\ Written(row, do) \in BOOLEAN
           /\ New(row, do) \in Rows /\ GoodRow(New(row, do))
           /\ row.status # "auto" => New(row, do).status # "auto"
<1>1. /\ Wanted(row, do) \in Rows
      /\ row.status # "auto" => Wanted(row, do).status # "auto"
      /\ \A i, j \in DOMAIN Wanted(row, do).keys :
                Wanted(row, do).keys[i] = Wanted(row, do).keys[j] => i = j
  <2>1. CASE do[1] \in Deletes
    BY <2>1, DeletesFacts
  <2>2. CASE do[1] \notin Deletes
    BY <2>2, ChangedKeeps DEF Wanted, GoodRow
  <2> QED BY <2>1, <2>2
<1>2. Written(row, do) \in BOOLEAN
  BY DEF Written
<1>3. /\ New(row, do) \in Rows
      /\ New(row, do).keys = IF Written(row, do) THEN Wanted(row, do).keys ELSE db.keys
      /\ New(row, do).size = IF Written(row, do) THEN 1 ELSE Len(db.keys)
      /\ New(row, do).status = Wanted(row, do).status
  BY <1>1, <1>2, UpdateFacts DEF New
<1>4. Len(db.keys) >= 1
  <2>1. db.keys \in Seq(Keys) /\ db.keys # << >>
    BY KeySeqsFacts, RowFacts DEF GoodRow
  <2> QED BY <2>1
<1>5. New(row, do).size >= 1
  BY <1>3, <1>4
<1>6. New(row, do).keys # << >>
  BY <1>3 DEF Written, GoodRow
<1>7. \A i, j \in DOMAIN New(row, do).keys : New(row, do).keys[i] = New(row, do).keys[j] => i = j
  BY <1>1, <1>3 DEF GoodRow
<1> QED BY <1>1, <1>2, <1>3, <1>5, <1>6, <1>7 DEF GoodRow

\* The keys and the statuses that a handler writes, if nothing has changed
\* since it read the row.
LEMMA NewFacts ==
    ASSUME K!KeysAssumption, NEW row \in Rows, GoodRow(row), db \in Rows, GoodRow(db),
           NEW do \in Ops \X K!Index, row.keys = db.keys
    PROVE  LET new == New(row, do) IN
           /\ DOMAIN new.keys \subseteq K!Index
           /\ \A i \in K!Index : new.list[i] # "on" => new.list[i] = Wanted(row, do).list[i]
           /\ \A i \in K!Index : i <= new.size => new.list[i] = Wanted(row, do).list[i]
           /\ do[1] \notin Deletes => new.keys = row.keys
           /\ do[1] \in Deletes /\ Wanted(row, do).keys # << >> => new.keys = Wanted(row, do).keys
           /\ do[1] \in Deletes /\ Wanted(row, do).keys = << >> =>
                \A i \in K!Index : new.list[i] = "on"
<1>1. Wanted(row, do) \in Rows /\ Written(row, do) \in BOOLEAN /\ New(row, do) \in Rows
  BY NewGood
<1>2. /\ New(row, do).keys = IF Written(row, do) THEN Wanted(row, do).keys ELSE db.keys
      /\ \A i \in K!Index : New(row, do).list[i] =
                IF i <= New(row, do).size THEN Wanted(row, do).list[i] ELSE "on"
  BY <1>1, UpdateFacts DEF New
<1>3. DOMAIN New(row, do).keys \subseteq K!Index
  BY <1>1, RowFacts, KeySeqsFacts
<1>4. do[1] \notin Deletes => New(row, do).keys = row.keys
  <2>1. do[1] \notin Deletes => Wanted(row, do).keys = row.keys
    BY ChangedKeeps DEF Wanted
  <2> QED BY <1>2, <2>1
<1>5. do[1] \in Deletes /\ Wanted(row, do).keys # << >> => New(row, do).keys = Wanted(row, do).keys
  BY <1>2 DEF Written, Deletes, K!OfKeys, K!OneKey
<1>6. do[1] \in Deletes /\ Wanted(row, do).keys = << >> =>
                \A i \in K!Index : New(row, do).list[i] = "on"
  <2> SUFFICES ASSUME do[1] \in Deletes, Wanted(row, do).keys = << >>, NEW i \in K!Index
               PROVE  New(row, do).list[i] = "on"
    OBVIOUS
  <2>1. i \notin DOMAIN Wanted(row, do).keys
    OBVIOUS
  <2>2. Wanted(row, do).list[i] = "on"
    BY <2>1, DeletesFacts
  <2> QED BY <1>2, <2>2
<1> QED BY <1>2, <1>3, <1>4, <1>5, <1>6

\* Such a write disables only keys that the administrator has named.
LEMMA NewDisables ==
    ASSUME K!KeysAssumption, NEW row \in Rows, GoodRow(row), db \in Rows, GoodRow(db),
           NEW do \in Ops \X K!Index, row.keys = db.keys, row.list = db.list
    PROVE  K!Disabled(New(row, do)) \subseteq K!Disabled(db) \cup NamedBy(row, do)
<1> DEFINE new == New(row, do)
           want == Wanted(row, do)
<1>1. SUFFICES ASSUME NEW i \in DOMAIN new.keys, new.list[i] # "on"
               PROVE  new.keys[i] \in K!Disabled(db) \cup NamedBy(row, do)
  <2>1. new \in Rows
    BY NewGood
  <2>2. \A k : k \in K!Disabled(new) <=>
          \E i \in DOMAIN new.keys : new.keys[i] = k /\ new.list[i] # "on"
    BY <2>1, RowFacts
  <2> QED BY <2>2
<1>2. i \in K!Index /\ want.list[i] # "on"
  BY <1>1, NewFacts
<1>3. \A j \in DOMAIN row.keys : row.list[j] # "on" => row.keys[j] \in K!Disabled(db)
  BY RowFacts
<1>4. row.list \in [K!Index -> Values]
  BY RowFacts
<1>5. CASE do[1] \in Deletes
  <2>1. want.keys # << >> /\ new.keys = want.keys
    BY <1>1, <1>2, <1>5, NewFacts
  <2>2. \E j \in DOMAIN row.keys : want.keys[i] = row.keys[j] /\ want.list[i] = row.list[j]
    <3>1. i \in DOMAIN want.keys
      BY <1>1, <2>1
    <3>2. \A n \in DOMAIN want.keys : \E j \in DOMAIN row.keys :
            want.keys[n] = row.keys[j] /\ want.list[n] = row.list[j]
      BY <1>5, DeletesFacts
    <3> HIDE DEF want, new
    <3> QED BY <3>1, <3>2
  <2> QED BY <1>2, <1>3, <2>1, <2>2
<1>6. CASE do[1] \notin Deletes
  <2>0. want.list[i] = SetTo(row, do, i)
    <3>1. \A n \in K!Index : want.list[n] = SetTo(row, do, n)
      BY <1>6, ChangedKeeps DEF Wanted
    <3> HIDE DEF want, new
    <3> QED BY <1>2, <3>1
  <2>1. new.keys = row.keys /\ i \in DOMAIN row.keys
    BY <1>1, <1>6, NewFacts
  <2>2. CASE do[1] = "disable"
    <3>1. want.list[i] = IF i = do[2] THEN "manual" ELSE row.list[i]
      BY <2>0, <2>2 DEF SetTo, K!OfKeys, K!OneKey
    <3>2. i # do[2] => want.list[i] = row.list[i]
      BY <3>1
    <3>3. i = do[2] => row.keys[i] \in NamedBy(row, do)
      BY <2>1, <2>2 DEF NamedBy, K!Named
    <3> QED BY <1>2, <1>3, <2>1, <3>2, <3>3
  <2>3. CASE do[1] = "enable"
    <3>1. want.list[i] = IF i = do[2] THEN "on" ELSE row.list[i]
      BY <2>0, <2>3 DEF SetTo, K!OfKeys, K!OneKey
    <3>2. want.list[i] = row.list[i]
      BY <1>2, <3>1
    <3> QED BY <1>2, <1>3, <2>1, <3>2
  <2>4. CASE do[1] = "enable all"
    <3>1. want.list[i] = "on"
      BY <2>0, <2>4 DEF SetTo, K!OfKeys, K!OneKey
    <3> QED BY <1>2, <3>1
  <2>5. CASE do[1] = "disable all"
    <3>1. row.keys[i] \in K!KeysOf(row)
      BY <2>1 DEF K!KeysOf
    <3> QED BY <2>1, <2>5, <3>1 DEF NamedBy
  <2>6. CASE do[1] \notin K!OfKeys
    <3>1. want.list[i] = row.list[i]
      BY <2>0, <2>6 DEF SetTo, K!OfKeys, K!OneKey
    <3> QED BY <1>2, <1>3, <2>1, <3>1
  <2> QED BY <1>6, <2>2, <2>3, <2>4, <2>5, <2>6 DEF Deletes, K!OfKeys, K!OneKey
<1> QED BY <1>5, <1>6

\* The keys that such a write is to leave disabled are disabled.
LEMMA NewKeepsDisabled ==
    ASSUME K!KeysAssumption, NEW row \in Rows, GoodRow(row), db \in Rows, GoodRow(db),
           NEW do \in Ops \X K!Index, row.keys = db.keys, row.list = db.list,
           ~K!Refused(row, do), K!DisabledStays
    PROVE  K!ToBeDisabled(row, do, New(row, do)) \cap K!KeysOf(New(row, do))
             \subseteq K!Disabled(New(row, do))
<1> DEFINE new == New(row, do)
           want == Wanted(row, do)
           none == do[1] = "delete disabled" /\ K!AutoDisabled(row) = DOMAIN row.keys
           asked == CASE do[1] = "disable" -> down \cup K!Named(row, do[2])
                      [] do[1] = "enable" -> down \ K!Named(row, do[2])
                      [] do[1] = "enable all" -> {}
                      [] do[1] = "disable all" -> down \cup K!KeysOf(row)
                      [] OTHER -> down
<1>1. new \in Rows /\ GoodRow(new)
  BY NewGood
<1>2. SUFFICES ASSUME NEW i \in DOMAIN new.keys, i <= new.size, new.keys[i] \in asked, ~none
               PROVE  new.list[i] # "on"
  <2>1. K!ToBeDisabled(row, do, new) =
          IF none THEN {} ELSE asked \cap {new.keys[i] : i \in DOMAIN new.keys \cap 1..new.size}
    BY DEF K!ToBeDisabled
  <2>2. \A k : k \in K!Disabled(new) <=>
          \E i \in DOMAIN new.keys : new.keys[i] = k /\ new.list[i] # "on"
    BY <1>1, RowFacts
  <2>3. \A i \in DOMAIN new.keys \cap 1..new.size : i <= new.size
    <3>1. \A n \in Nat : \A i \in 1..n : i <= n
      BY UpTo
    <3>2. new.size \in Nat
      BY <1>1, NatFacts, RowFacts
    <3> HIDE DEF new
    <3> QED BY <3>1, <3>2
  <2> HIDE DEF asked, none
  <2> QED BY <1>2, <2>1, <2>2, <2>3
<1>3. i \in K!Index /\ new.list[i] = want.list[i]
  <2>1. /\ DOMAIN new.keys \subseteq K!Index
        /\ \A n \in K!Index : n <= new.size => new.list[n] = want.list[n]
    BY NewFacts
  <2> HIDE DEF new, want
  <2> QED BY <1>2, <2>1
<1>4. ASSUME NEW j \in DOMAIN row.keys, row.keys[j] \in down PROVE row.list[j] # "on"
  <2>1. row.keys[j] \in K!Disabled(db)
    BY <1>4 DEF K!DisabledStays, K!KeysOf
  <2>2. \E n \in DOMAIN db.keys : db.keys[n] = row.keys[j] /\ db.list[n] # "on"
    BY <2>1, RowFacts
  <2> QED BY <2>2 DEF GoodRow
<1>5. row.list \in [K!Index -> Values]
  BY RowFacts
<1>6. CASE do[1] \in Deletes
  <2>1. want.keys # << >> /\ new.keys = want.keys
    <3>1. want.keys = << >> => none
      BY <1>6, DeletesFacts
    <3>2. want.keys # << >> => new.keys = want.keys
      BY <1>6, NewFacts
    <3> QED BY <1>2, <3>1, <3>2
  <2>2. \E j \in DOMAIN row.keys : want.keys[i] = row.keys[j] /\ want.list[i] = row.list[j]
    <3>1. i \in DOMAIN want.keys
      BY <1>2, <2>1
    <3>2. \A n \in DOMAIN want.keys : \E j \in DOMAIN row.keys :
            want.keys[n] = row.keys[j] /\ want.list[n] = row.list[j]
      BY <1>6, DeletesFacts
    <3> HIDE DEF want, new
    <3> QED BY <3>1, <3>2
  <2>3. new.keys[i] \in down
    BY <1>2, <1>6 DEF Deletes
  <2> QED BY <1>3, <1>4, <2>1, <2>2, <2>3
<1>7. CASE do[1] \notin Deletes
  <2>0. want.list[i] = SetTo(row, do, i)
    <3>1. \A n \in K!Index : want.list[n] = SetTo(row, do, n)
      BY <1>7, ChangedKeeps DEF Wanted
    <3> HIDE DEF want, new
    <3> QED BY <1>3, <3>1
  <2>1. new.keys = row.keys /\ i \in DOMAIN row.keys
    BY <1>2, <1>7, NewFacts
  <2>2. CASE do[1] = "disable"
    <3>1. want.list[i] = IF i = do[2] THEN "manual" ELSE row.list[i]
      BY <2>0, <2>2 DEF SetTo, K!OfKeys, K!OneKey
    <3>2. want.list[i] = IF i = do[2] THEN "manual" ELSE row.list[i]
      BY <1>3, <3>1
    <3>3. row.keys[i] \in down \/ row.keys[i] \in K!Named(row, do[2])
      BY <1>2, <2>1, <2>2
    <3>4. row.keys[i] \in K!Named(row, do[2]) => i = do[2]
      BY <2>1 DEF K!Named, GoodRow
    <3> QED BY <1>3, <1>4, <2>1, <3>2, <3>3, <3>4
  <2>3. CASE do[1] = "enable"
    <3>1. want.list[i] = IF i = do[2] THEN "on" ELSE row.list[i]
      BY <2>0, <2>3 DEF SetTo, K!OfKeys, K!OneKey
    <3>2. row.keys[i] \in down /\ row.keys[i] \notin K!Named(row, do[2])
      BY <1>2, <2>1, <2>3
    <3>3. i # do[2]
      BY <2>1, <3>2 DEF K!Named
    <3>4. want.list[i] = row.list[i]
      BY <1>3, <3>1, <3>3
    <3> QED BY <1>3, <1>4, <2>1, <3>2, <3>4
  <2>4. CASE do[1] = "enable all"
    BY <1>2, <2>4
  <2>5. CASE do[1] = "disable all"
    <3>1. want.list[i] = IF i <= row.size /\ row.list[i] = "on" THEN "manual" ELSE row.list[i]
      BY <2>0, <2>5 DEF SetTo
    <3>2. i <= row.size
      <4>1. new.size = 1
        <5>1. Written(row, do) = TRUE
          BY <1>7, <2>5, ChangedKeeps DEF Written, Wanted, K!OfKeys, GoodRow
        <5>2. want \in Rows
          BY NewGood
        <5>3. K!Update(want, TRUE).size = 1
          <6> HIDE DEF want, new
          <6> QED BY <5>2, UpdateFacts
        <5> QED BY <5>1, <5>3 DEF New
      <4>2. i \in Nat /\ i <= 1 /\ row.size \in Nat /\ row.size >= 1
        <5>1. i \in Nat
          BY <1>3, NatFacts
        <5>2. row.size \in Nat /\ row.size >= 1
          BY NatFacts, RowFacts DEF GoodRow
        <5> HIDE DEF want, new
        <5> QED BY <1>2, <4>1, <5>1, <5>2
      <4> QED BY <4>2
    <3> QED BY <1>3, <3>1, <3>2
  <2>6. CASE do[1] \notin K!OfKeys
    <3>1. want.list[i] = row.list[i]
      BY <2>0, <2>6 DEF SetTo, K!OfKeys, K!OneKey
    <3>2. new.keys[i] \in down
      BY <1>2, <2>6 DEF K!OfKeys, K!OneKey
    <3> QED BY <1>3, <1>4, <2>1, <3>1, <3>2
  <2> QED BY <1>7, <2>2, <2>3, <2>4, <2>5, <2>6 DEF Deletes, K!OfKeys, K!OneKey
<1> QED BY <1>6, <1>7

\* A report of one key, saved over a row that has not changed.
LEMMA SavedReport ==
    ASSUME K!KeysAssumption, db \in Rows, GoodRow(db), NEW k, NEW to \in {"auto", "on"},
           NEW new \in Rows, new.keys = db.keys,
           \A i \in K!Index : new.list[i] = IF i = K!KeyIndex(db, k) THEN to ELSE db.list[i],
           K!DisabledStays
    PROVE  LET hit == {db.keys[K!KeyIndex(db, k)]} IN
           /\ to = "auto" => /\ K!Disabled(new) \subseteq K!Disabled(db) \cup hit
                             /\ (down \cup hit) \cap K!KeysOf(new) \subseteq K!Disabled(new)
           /\ to = "on" => /\ K!Disabled(new) \subseteq K!Disabled(db)
                           /\ (down \ hit) \cap K!KeysOf(new) \subseteq K!Disabled(new)
<1> DEFINE x == K!KeyIndex(db, k)
<1>1. x \in DOMAIN db.keys /\ DOMAIN db.keys \subseteq K!Index /\ db.list \in [K!Index -> Values]
  BY KeyIndexFacts, KeySeqsFacts, RowFacts
<1>2. \A i \in DOMAIN db.keys : new.list[i] = IF i = x THEN to ELSE db.list[i]
  BY <1>1
<1>3. \A q : q \in K!Disabled(new) <=>
               \E i \in DOMAIN db.keys : db.keys[i] = q /\ new.list[i] # "on"
  <2>1. \A q : q \in K!Disabled(new) <=>
               \E i \in DOMAIN new.keys : new.keys[i] = q /\ new.list[i] # "on"
    BY RowFacts
  <2> QED BY <2>1
<1>4. \A q : q \in K!Disabled(db) <=>
               \E i \in DOMAIN db.keys : db.keys[i] = q /\ db.list[i] # "on"
  BY RowFacts
<1>5. \A i \in DOMAIN db.keys : db.keys[i] \in down => db.list[i] # "on"
  <2> SUFFICES ASSUME NEW i \in DOMAIN db.keys, db.keys[i] \in down PROVE db.list[i] # "on"
    OBVIOUS
  <2>1. db.keys[i] \in K!Disabled(db)
    BY DEF K!DisabledStays, K!KeysOf
  <2> QED BY <1>4, <2>1 DEF GoodRow
<1>6. \A q \in K!KeysOf(new) : \E i \in DOMAIN db.keys : db.keys[i] = q
  BY RowFacts
<1>7. \A i \in DOMAIN db.keys : db.keys[i] = db.keys[x] => i = x
  BY <1>1 DEF GoodRow
<1> HIDE DEF x
<1>8. to = "auto" => /\ K!Disabled(new) \subseteq K!Disabled(db) \cup {db.keys[x]}
                     /\ (down \cup {db.keys[x]}) \cap K!KeysOf(new) \subseteq K!Disabled(new)
  BY <1>1, <1>2, <1>3, <1>4, <1>5, <1>6, <1>7
<1>9. to = "on" => /\ K!Disabled(new) \subseteq K!Disabled(db)
                   /\ (down \ {db.keys[x]}) \cap K!KeysOf(new) \subseteq K!Disabled(new)
  BY <1>1, <1>2, <1>3, <1>4, <1>5, <1>6
<1> QED BY <1>8, <1>9 DEF x

\* The key a request takes is one of the row's, and the polling index moves
\* to an index.
LEMMA ChoiceFacts ==
    ASSUME K!KeysAssumption, NEW row \in Rows, K!Enabled(row) # {}, NEW start,
           NEW i \in K!Choices(row, start)
    PROVE  /\ i \in DOMAIN row.keys /\ row.keys[i] \in Keys
           /\ K!Advance(row, i) \in Rows
           /\ K!Advance(row, i).keys = row.keys /\ K!Advance(row, i).size = row.size
           /\ K!Advance(row, i).list = row.list /\ K!Advance(row, i).status = row.status
<1>1. /\ row.keys \in Seq(Keys) /\ DOMAIN row.keys = 1..Len(row.keys)
      /\ Len(row.keys) \in Nat /\ Len(row.keys) <= Cardinality(Keys)
      /\ Cardinality(Keys) \in Nat /\ K!Index = 1..Cardinality(Keys)
  BY KeySeqsFacts, RowFacts
<1>2. K!Enabled(row) \subseteq DOMAIN row.keys
  BY DEF K!Enabled
<1>3. \A s : K!From(row, s) \in K!Enabled(row)
  <2> SUFFICES ASSUME NEW s PROVE K!From(row, s) \in K!Enabled(row)
    OBVIOUS
  <2> DEFINE after == {n \in K!Enabled(row) : n >= s}
             pool == IF after = {} THEN K!Enabled(row) ELSE after
  <2>1. pool \subseteq K!Enabled(row) /\ pool # {}
    OBVIOUS
  <2>2. K!From(row, s) = CHOOSE n \in pool : \A j \in pool : n <= j
    BY DEF K!From
  <2> HIDE DEF pool
  <2>3. pool \subseteq Nat
    BY <1>1, <1>2, <2>1
  <2>4. \E n \in pool : \A j \in pool : n <= j
    BY <2>1, <2>3, Least
  <2> QED BY <2>1, <2>2, <2>4
<1>4. i \in DOMAIN row.keys
  <2>1. i \in K!Enabled(row)
    BY <1>3 DEF K!Choices
  <2> QED BY <1>2, <2>1
<1>5. row.keys[i] \in Keys
  BY <1>1, <1>4
<1>6. (IF i = Len(row.keys) THEN 1 ELSE i + 1) \in K!Index
  BY <1>1, <1>4
<1> DEFINE moved(n) == [row EXCEPT !.next = n]
<1>7. \A n \in K!Index : moved(n) \in Rows /\ moved(n).keys = row.keys
        /\ moved(n).size = row.size /\ moved(n).list = row.list /\ moved(n).status = row.status
  BY DEF Rows
<1>8. K!Advance(row, i) = row \/ K!Advance(row, i) = moved(IF i = Len(row.keys) THEN 1 ELSE i + 1)
  BY DEF K!Advance
<1> HIDE DEF moved
<1>9. CASE K!Advance(row, i) = row
  BY <1>4, <1>5, <1>9
<1>10. CASE K!Advance(row, i) = moved(IF i = Len(row.keys) THEN 1 ELSE i + 1)
  BY <1>4, <1>5, <1>6, <1>7, <1>10
<1> QED BY <1>8, <1>9, <1>10

-----------------------------------------------------------------------------
(* The inductive invariant of the keys.                                    *)

KeyPCs == {"new", "chosen", "tests", "uses", "tries", "report", "mark", "read",
           "save", "done"}
ReqType == [pc : KeyPCs, row : Rows, key : Keys \cup {"none"}, to : {"auto", "on"}]
OpType == [pc : {"new", "read", "refresh", "done"}, do : Ops \X K!Index, row : Rows]

KType ==
    /\ cached \in BOOLEAN /\ mode \in {"random", "polling"}
    /\ db \in Rows /\ cache \in Rows
    /\ req \in [Requests -> ReqType]
    /\ op \in [Handlers -> OpType]
    /\ seen \in KeySeqs
    /\ sync \in [K!Syncs -> Rows]
    /\ blamed \subseteq Keys /\ down \subseteq Keys

\* The rows that will be written are rows of a channel, and a report names a
\* key that has failed.
ReqGood(r) ==
    /\ req[r].pc \in {"tests", "save"} \/ (req[r].pc = "chosen" /\ ~cached) =>
         GoodRow(req[r].row)
    /\ req[r].pc = "uses" => req[r].key \in Keys
    /\ req[r].pc \in {"report", "mark", "read", "save"} /\ req[r].to = "auto" =>
         K!SameText(req[r].key) \subseteq blamed

OpGood(h) == op[h].pc = "read" => GoodRow(op[h].row)

RowsGood == /\ GoodRow(db)
            /\ \A r \in Requests : ReqGood(r)
            /\ \A h \in Handlers : OpGood(h)

KeyInv == KType /\ RowsGood /\ K!DisabledStays /\ K!OnlyBlamedDisabled

LEMMA KeyTypes == ASSUME K!KeysAssumption, KType PROVE K!TypeOK
<1>1. KeySeqs = UNION {[1..n -> Keys] : n \in 0..K!Cardinality(Keys)}
  BY SameCount DEF KeySeqs
<1>2. Rows = [keys : UNION {[1..n -> Keys] : n \in 0..K!Cardinality(Keys)},
              size : 0..K!Cardinality(Keys), list : [K!Index -> {"on", "auto", "manual"}],
              status : {"on", "auto", "manual"}, able : BOOLEAN, next : K!Index]
  BY <1>1, SameCount DEF Rows, Values
<1>3. K!KeysOf([keys |-> seen]) \subseteq Keys
  <2>1. seen \in Seq(Keys)
    BY KeySeqsFacts DEF KType
  <2>2. \A i \in DOMAIN seen : seen[i] \in Keys
    BY <2>1
  <2> QED BY <2>2 DEF K!KeysOf
<1>4. DOMAIN op = Handlers /\ \A h \in Handlers : op[h].pc \in {"new", "read", "refresh", "done"}
                                                   /\ op[h].row \in Rows
  BY DEF KType, OpType
<1> HIDE DEF Rows
<1> QED BY <1>2, <1>3, <1>4, Zenon DEF K!TypeOK, KType, ReqType, KeyPCs

\* The channel as it is created.
LEMMA KeyInit == ASSUME K!KeysAssumption PROVE K!Init => KeyInv
<1> SUFFICES ASSUME K!Init PROVE KeyInv
  OBVIOUS
<1>1. PICK s \in KeyLists : db = K!NewChannel(s)
  BY DEF K!Init
<1>2. /\ s \in Seq(Keys) /\ s # << >> /\ \A i, j \in DOMAIN s : s[i] = s[j] => i = j
  BY DEF K!KeysAssumption
<1>3. Cardinality(Keys) \in Nat /\ IsFiniteSet(Keys)
  BY KeySeqsFacts, SameCount DEF K!KeysAssumption
<1>4. Len(s) <= Cardinality(Keys) /\ Len(s) >= 1 /\ Len(s) \in Nat
  <2>1. Len(s) \in Nat /\ Len(s) >= 1 /\ s \in [1..Len(s) -> Keys]
    BY <1>2
  <2>2. IsFiniteSet(1..Len(s)) /\ Cardinality(1..Len(s)) = Len(s)
    BY <2>1, IntervalCount
  <2>3. ~(Cardinality(Keys) < Cardinality(1..Len(s)))
    <3> SUFFICES ASSUME Cardinality(Keys) < Cardinality(1..Len(s)) PROVE FALSE
      OBVIOUS
    <3>1. \E x, y \in 1..Len(s) : x # y /\ s[x] = s[y]
      BY <1>3, <2>1, <2>2, FS_PigeonHole
    <3> QED BY <1>2, <3>1
  <2> QED BY <1>3, <2>1, <2>2, <2>3
<1>5. s \in KeySeqs /\ 1 \in K!Index /\ Len(s) \in 0..Cardinality(Keys)
  <2>1. 1 \in 1..Cardinality(Keys) /\ Len(s) \in 0..Cardinality(Keys)
    BY <1>3, <1>4
  <2> QED BY <1>2, <1>4, <2>1, KeySeqsFacts
<1>6. K!AllOn \in [K!Index -> Values] /\ K!NoRow \in Rows
  BY <1>5, NoRowType
<1>7. db \in Rows /\ db.keys = s /\ db.size = Len(s) /\ db.list = K!AllOn
  BY <1>1, <1>5, <1>6 DEF K!NewChannel, Rows, Values
<1>8. KType
  <2>1. req \in [Requests -> ReqType]
    BY <1>6 DEF K!Init, ReqType, KeyPCs
  <2>2. op \in [Handlers -> OpType]
    BY <1>5, <1>6 DEF K!Init, OpType, Ops
  <2>3. sync \in [K!Syncs -> Rows]
    BY <1>6 DEF K!Init
  <2> QED BY <1>5, <1>7, <2>1, <2>2, <2>3 DEF K!Init, KType
<1>9. RowsGood
  <2>1. GoodRow(db)
    BY <1>2, <1>4, <1>7 DEF GoodRow
  <2>2. \A r \in Requests : req[r].pc = "new"
    BY DEF K!Init
  <2>3. \A h \in Handlers : op[h].pc = "new"
    BY DEF K!Init
  <2> QED BY <2>1, <2>2, <2>3 DEF RowsGood, ReqGood, OpGood
<1>10. K!Disabled(db) = {} /\ down = {}
  <2>1. K!Off(db) = {}
    BY <1>7 DEF K!Off, K!AllOn
  <2> QED BY <2>1 DEF K!Disabled, K!Init
<1> QED BY <1>8, <1>9, <1>10 DEF KeyInv, K!DisabledStays, K!OnlyBlamedDisabled

-----------------------------------------------------------------------------
(* Every step keeps the invariant.                                         *)

\* What a write records is true of what it leaves.
LEMMA RecordedFacts ==
    ASSUME K!KeysAssumption, KType, db' \in Rows,
           NEW row, NEW keys, NEW named, K!Recorded(row, keys, named),
           named \subseteq Keys, keys \subseteq Keys,
           ~K!Stale(row) => /\ keys \cap K!KeysOf(db') \subseteq K!Disabled(db')
                            /\ K!Disabled(db') \subseteq blamed \cup named
    PROVE  /\ K!DisabledStays' /\ K!OnlyBlamedDisabled'
           /\ blamed' \subseteq Keys /\ down' \subseteq Keys /\ blamed \subseteq blamed'
<1>1. K!Disabled(db') \subseteq Keys
  BY RowFacts
<1>2. /\ down' = IF K!Stale(row) THEN K!Disabled(db') ELSE keys
      /\ blamed' = (blamed \cup named) \cup IF K!Stale(row) THEN K!Disabled(db') ELSE {}
  BY DEF K!Recorded
<1>3. blamed \subseteq Keys /\ down \subseteq Keys
  BY DEF KType
<1>4. CASE K!Stale(row)
  BY <1>1, <1>2, <1>3, <1>4 DEF K!DisabledStays, K!OnlyBlamedDisabled
<1>5. CASE ~K!Stale(row)
  BY <1>1, <1>2, <1>3, <1>5 DEF K!DisabledStays, K!OnlyBlamedDisabled
<1> QED BY <1>4, <1>5

\* A step of one request leaves the others alone.
LEMMA ReqFrame ==
    ASSUME RowsGood, NEW r \in Requests, GoodRow(db'), blamed \subseteq blamed',
           UNCHANGED <<cached, op>>, \A q \in Requests \ {r} : req'[q] = req[q], ReqGood(r)'
    PROVE  RowsGood'
<1>1. \A q \in Requests \ {r} : ReqGood(q)'
  BY DEF RowsGood, ReqGood
<1>2. \A h \in Handlers : OpGood(h)'
  BY DEF RowsGood, OpGood
<1> QED BY <1>1, <1>2 DEF RowsGood

\* A step that writes nothing keeps the history.
LEMMA SameRow ==
    ASSUME KeyInv, UNCHANGED <<db, down>>, blamed \subseteq blamed'
    PROVE  K!DisabledStays' /\ K!OnlyBlamedDisabled' /\ GoodRow(db')
BY DEF KeyInv, RowsGood, K!DisabledStays, K!OnlyBlamedDisabled

LEMMA IndexOne == ASSUME K!KeysAssumption, KType PROVE 1 \in K!Index /\ K!NoRow \in Rows
<1>1. db.next \in K!Index
  BY RowFacts DEF KType
<1>2. 1 \in K!Index
  BY <1>1, KeySeqsFacts
<1> QED BY <1>2, NoRowType

LEMMA ReqExcept ==
    ASSUME req \in [Requests -> ReqType], NEW r \in Requests
    PROVE  /\ req[r].row \in Rows /\ req[r].to \in {"auto", "on"} /\ req[r].pc \in KeyPCs
           /\ \A p \in KeyPCs, w \in Rows :
                [req EXCEPT ![r].pc = p, ![r].row = w] \in [Requests -> ReqType]
           /\ \A p \in KeyPCs, t \in {"auto", "on"} :
                [req EXCEPT ![r].pc = p, ![r].to = t] \in [Requests -> ReqType]
           /\ \A p \in KeyPCs : [req EXCEPT ![r].pc = p] \in [Requests -> ReqType]
<1>1. req[r].row \in Rows /\ req[r].to \in {"auto", "on"} /\ req[r].pc \in KeyPCs
  BY DEF ReqType
<1>2. ASSUME NEW p \in KeyPCs, NEW w \in Rows
      PROVE  [req EXCEPT ![r].pc = p, ![r].row = w] \in [Requests -> ReqType]
  <2> DEFINE y == [[req[r] EXCEPT !.pc = p] EXCEPT !.row = w]
  <2>1. y \in ReqType
    BY DEF ReqType
  <2>2. [req EXCEPT ![r].pc = p, ![r].row = w] = [req EXCEPT ![r] = y]
    OBVIOUS
  <2> HIDE DEF y
  <2> QED BY <2>1, <2>2
<1>3. ASSUME NEW p \in KeyPCs, NEW t \in {"auto", "on"}
      PROVE  [req EXCEPT ![r].pc = p, ![r].to = t] \in [Requests -> ReqType]
  <2> DEFINE y == [[req[r] EXCEPT !.pc = p] EXCEPT !.to = t]
  <2>1. y \in ReqType
    BY DEF ReqType
  <2>2. [req EXCEPT ![r].pc = p, ![r].to = t] = [req EXCEPT ![r] = y]
    OBVIOUS
  <2> HIDE DEF y
  <2> QED BY <2>1, <2>2
<1>4. ASSUME NEW p \in KeyPCs PROVE [req EXCEPT ![r].pc = p] \in [Requests -> ReqType]
  <2> DEFINE y == [req[r] EXCEPT !.pc = p]
  <2>1. y \in ReqType
    BY DEF ReqType
  <2>2. [req EXCEPT ![r].pc = p] = [req EXCEPT ![r] = y]
    OBVIOUS
  <2> HIDE DEF y
  <2> QED BY <2>1, <2>2
<1> QED BY <1>1, <1>2, <1>3, <1>4

LEMMA KeyChoose ==
    ASSUME K!KeysAssumption, KeyInv, NEW r \in Requests, NEW test \in BOOLEAN, K!Choose(r, test)
    PROVE  KeyInv'
<1>1. UNCHANGED <<cached, mode, db, cache, op, seen, sync, blamed, down>>
  BY DEF K!Choose
<1>2. /\ req' = [req EXCEPT ![r].pc = IF test THEN "tests" ELSE "chosen",
                            ![r].row = IF cached /\ ~test THEN @ ELSE db]
      /\ req \in [Requests -> ReqType] /\ db \in Rows /\ GoodRow(db)
  BY DEF K!Choose, KeyInv, KType, RowsGood
<1>3. req' \in [Requests -> ReqType]
  <2> DEFINE p == IF test THEN "tests" ELSE "chosen"
             w == IF cached /\ ~test THEN req[r].row ELSE db
  <2>1. p \in KeyPCs /\ w \in Rows
    BY <1>2, ReqExcept DEF KeyPCs
  <2>2. req' = [req EXCEPT ![r].pc = p, ![r].row = w]
    BY <1>2
  <2> HIDE DEF p, w
  <2>3. [req EXCEPT ![r].pc = p, ![r].row = w] \in [Requests -> ReqType]
    BY <1>2, <2>1, ReqExcept
  <2> QED BY <2>2, <2>3
<1>4. /\ req'[r].pc = IF test THEN "tests" ELSE "chosen"
      /\ ~(cached /\ ~test) => req'[r].row = db
      /\ \A q \in Requests \ {r} : req'[q] = req[q]
  BY <1>2 DEF ReqType
<1>5. ReqGood(r)'
  BY <1>1, <1>2, <1>4 DEF ReqGood
<1>6. RowsGood'
  BY <1>1, <1>2, <1>4, <1>5, ReqFrame DEF KeyInv
<1>7. K!DisabledStays' /\ K!OnlyBlamedDisabled'
  BY <1>1, SameRow
<1> QED BY <1>1, <1>3, <1>6, <1>7 DEF KeyInv, KType

LEMMA KeyFails ==
    ASSUME K!KeysAssumption, KeyInv, NEW r \in Requests, K!Fails(r)
    PROVE  KeyInv'
<1>1. UNCHANGED <<cached, mode, db, cache, op, seen, sync, down>>
      /\ blamed' = blamed \cup K!SameText(req[r].key) /\ req[r].pc = "uses"
      /\ req' = [req EXCEPT ![r].pc = "report"]
  BY DEF K!Fails
<1>2. req \in [Requests -> ReqType] /\ blamed' \subseteq Keys /\ GoodRow(db)
  BY <1>1 DEF KeyInv, KType, RowsGood, K!SameText
<1>3. req' \in [Requests -> ReqType]
  <2>1. "report" \in KeyPCs
    BY DEF KeyPCs
  <2> QED BY <1>1, <1>2, <2>1, ReqExcept
<1>4. /\ req'[r].pc = "report" /\ req'[r].key = req[r].key
      /\ \A q \in Requests \ {r} : req'[q] = req[q]
  BY <1>1, <1>2 DEF ReqType
<1>5. ReqGood(r)'
  BY <1>1, <1>4 DEF ReqGood
<1>6. RowsGood'
  BY <1>1, <1>2, <1>4, <1>5, ReqFrame DEF KeyInv
<1>7. K!DisabledStays' /\ K!OnlyBlamedDisabled'
  BY <1>1, SameRow
<1> QED BY <1>1, <1>2, <1>3, <1>6, <1>7 DEF KeyInv, KType

LEMMA KeyWorks ==
    ASSUME K!KeysAssumption, KeyInv, NEW r \in Requests, K!Works(r)
    PROVE  KeyInv'
<1>1. UNCHANGED <<cached, mode, db, cache, op, seen, sync, blamed, down>>
      /\ req[r].pc \in {"uses", "tries"}
      /\ req' = [req EXCEPT ![r].pc = IF @ = "tries" THEN "report" ELSE "done",
                          ![r].to = IF req[r].pc = "tries" THEN "on" ELSE @]
  BY DEF K!Works
<1>2. req \in [Requests -> ReqType] /\ GoodRow(db)
  BY <1>1 DEF KeyInv, KType, RowsGood
<1>3. req' \in [Requests -> ReqType]
  <2> DEFINE p == IF req[r].pc = "tries" THEN "report" ELSE "done"
             t == IF req[r].pc = "tries" THEN "on" ELSE req[r].to
  <2>1. p \in KeyPCs /\ t \in {"auto", "on"}
    BY <1>2, ReqExcept DEF KeyPCs
  <2>2. req' = [req EXCEPT ![r].pc = p, ![r].to = t]
    BY <1>1
  <2> HIDE DEF p, t
  <2> QED BY <1>2, <2>1, <2>2, ReqExcept
<1>4. /\ req'[r].pc = "done" \/ (req'[r].pc = "report" /\ req'[r].to = "on")
      /\ \A q \in Requests \ {r} : req'[q] = req[q]
  BY <1>1, <1>2 DEF ReqType
<1>5. ReqGood(r)'
  BY <1>4 DEF ReqGood
<1>6. RowsGood'
  BY <1>1, <1>2, <1>4, <1>5, ReqFrame DEF KeyInv
<1>7. K!DisabledStays' /\ K!OnlyBlamedDisabled'
  BY <1>1, SameRow
<1> QED BY <1>1, <1>3, <1>6, <1>7 DEF KeyInv, KType

LEMMA KeyReport ==
    ASSUME K!KeysAssumption, KeyInv, NEW r \in Requests, K!Report(r)
    PROVE  KeyInv'
<1> DEFINE p == IF cached THEN "mark" ELSE "read"
<1>1. UNCHANGED <<cached, mode, db, cache, op, seen, sync, blamed, down>>
      /\ req[r].pc = "report" /\ req' = [req EXCEPT ![r].pc = p]
  BY DEF K!Report
<1>2. req \in [Requests -> ReqType] /\ GoodRow(db) /\ ReqGood(r)
  BY <1>1 DEF KeyInv, KType, RowsGood
<1>3. p \in KeyPCs /\ p \in {"mark", "read"}
  BY DEF KeyPCs
<1> HIDE DEF p
<1>4. req' \in [Requests -> ReqType]
  BY <1>1, <1>2, <1>3, ReqExcept
<1>5. /\ req'[r].pc = p /\ req'[r].key = req[r].key /\ req'[r].to = req[r].to
      /\ \A q \in Requests \ {r} : req'[q] = req[q]
  BY <1>1, <1>2 DEF ReqType
<1>6. ReqGood(r)'
  BY <1>1, <1>2, <1>3, <1>5 DEF ReqGood
<1>7. RowsGood'
  BY <1>1, <1>2, <1>5, <1>6, ReqFrame DEF KeyInv
<1>8. K!DisabledStays' /\ K!OnlyBlamedDisabled'
  BY <1>1, SameRow
<1> QED BY <1>1, <1>4, <1>7, <1>8 DEF KeyInv, KType

LEMMA KeyReportToCache ==
    ASSUME K!KeysAssumption, KeyInv, NEW r \in Requests, K!ReportToCache(r)
    PROVE  KeyInv'
<1>1. UNCHANGED <<cached, mode, db, op, seen, sync, blamed, down>>
      /\ req[r].pc = "mark" /\ req' = [req EXCEPT ![r].pc = "read", ![r].row = K!NoRow]
      /\ cache' = IF req[r].row = K!NoRow
                  THEN K!handlerMultiKeyUpdate(cache, req[r].key, req[r].to) ELSE cache
  BY DEF K!ReportToCache
<1>2. req \in [Requests -> ReqType] /\ GoodRow(db) /\ cache \in Rows /\ ReqGood(r)
      /\ K!NoRow \in Rows
  BY <1>1, IndexOne DEF KeyInv, KType, RowsGood
<1>3. req' \in [Requests -> ReqType] /\ req[r].to \in {"auto", "on"}
  <2>1. "read" \in KeyPCs
    BY DEF KeyPCs
  <2>2. req' \in [Requests -> ReqType]
    BY <1>1, <1>2, <2>1, ReqExcept
  <2> QED BY <1>2, <2>2, ReqExcept
<1>4. /\ req'[r].pc = "read" /\ req'[r].key = req[r].key /\ req'[r].to = req[r].to
      /\ \A q \in Requests \ {r} : req'[q] = req[q]
  BY <1>1, <1>2 DEF ReqType
<1>5. ReqGood(r)'
  BY <1>1, <1>2, <1>4 DEF ReqGood
<1>6. RowsGood'
  BY <1>1, <1>2, <1>4, <1>5, ReqFrame DEF KeyInv
<1>7. K!DisabledStays' /\ K!OnlyBlamedDisabled'
  BY <1>1, SameRow
<1>8. cache' \in Rows
  BY <1>1, <1>2, <1>3, HandlerFacts
<1> QED BY <1>1, <1>3, <1>6, <1>7, <1>8 DEF KeyInv, KType

LEMMA KeyReadForReport ==
    ASSUME K!KeysAssumption, KeyInv, NEW r \in Requests, K!ReadForReport(r)
    PROVE  KeyInv'
<1>1. UNCHANGED <<cached, mode, db, cache, op, seen, sync, blamed, down>>
      /\ req[r].pc = "read"
      /\ req' = [req EXCEPT ![r].pc = IF db.status = req[r].to THEN "done" ELSE "save",
                            ![r].row = IF db.status = req[r].to THEN K!NoRow ELSE db]
  BY DEF K!ReadForReport
<1>2. req \in [Requests -> ReqType] /\ GoodRow(db) /\ db \in Rows /\ ReqGood(r)
      /\ K!NoRow \in Rows
  BY <1>1, IndexOne DEF KeyInv, KType, RowsGood
<1>3. req' \in [Requests -> ReqType]
  <2> DEFINE p == IF db.status = req[r].to THEN "done" ELSE "save"
             w == IF db.status = req[r].to THEN K!NoRow ELSE db
  <2>1. p \in KeyPCs /\ w \in Rows
    BY <1>2 DEF KeyPCs
  <2>2. req' = [req EXCEPT ![r].pc = p, ![r].row = w]
    BY <1>1
  <2> HIDE DEF p, w
  <2> QED BY <1>2, <2>1, <2>2, ReqExcept
<1>4. /\ req'[r].pc = "done" \/ (req'[r].pc = "save" /\ req'[r].row = db)
      /\ req'[r].key = req[r].key /\ req'[r].to = req[r].to
      /\ \A q \in Requests \ {r} : req'[q] = req[q]
  BY <1>1, <1>2 DEF ReqType
<1>5. ReqGood(r)'
  BY <1>1, <1>2, <1>4 DEF ReqGood
<1>6. RowsGood'
  BY <1>1, <1>2, <1>4, <1>5, ReqFrame DEF KeyInv
<1>7. K!DisabledStays' /\ K!OnlyBlamedDisabled'
  BY <1>1, SameRow
<1> QED BY <1>1, <1>3, <1>6, <1>7 DEF KeyInv, KType

\* Saving a report: the database keeps its keys and takes the list, the size
\* and the status the report was made of.
LEMMA KeySaveReport ==
    ASSUME K!KeysAssumption, KeyInv, NEW r \in Requests, K!SaveReport(r)
    PROVE  KeyInv'
<1> DEFINE row == req[r].row
           k == req[r].key
           to == req[r].to
           new == K!handlerMultiKeyUpdate(row, k, to)
           hit == {row.keys[K!KeyIndex(row, k)]}
           keys == IF to = "auto" THEN down \cup hit ELSE down \ hit
           named == IF K!KeysOf(row) \cap K!SameText(k) # {} THEN {} ELSE hit
           able == IF new.status # row.status THEN to = "on" ELSE db.able
<1>1. /\ UNCHANGED <<cached, mode, cache, op, seen, sync>>
      /\ req[r].pc = "save" /\ req' = [req EXCEPT ![r].pc = "done", ![r].row = K!NoRow]
  BY DEF K!SaveReport
<1>2. db' = [new EXCEPT !.keys = db.keys, !.able = able] /\ K!Recorded(row, keys, named)
  BY Zenon DEF K!SaveReport
<1>3. /\ req \in [Requests -> ReqType] /\ db \in Rows /\ GoodRow(db) /\ ReqGood(r)
      /\ K!NoRow \in Rows /\ down \subseteq Keys
  BY IndexOne DEF KeyInv, KType, RowsGood
<1>4. row \in Rows /\ to \in {"auto", "on"}
  BY <1>3 DEF ReqType
<1>5. GoodRow(row) /\ (to = "auto" => K!SameText(k) \subseteq blamed)
  BY <1>1, <1>3 DEF ReqGood
<1>6. /\ new \in Rows /\ new.size = row.size
      /\ \A i \in K!Index : new.list[i] = IF i = K!KeyIndex(row, k) THEN to ELSE row.list[i]
  <2> HIDE DEF row, k, to
  <2> QED BY <1>4, HandlerFacts
<1>7. hit \subseteq Keys
  <2>1. K!KeyIndex(row, k) \in DOMAIN row.keys
    BY <1>4, <1>5, KeyIndexFacts
  <2>2. row.keys \in Seq(Keys)
    BY <1>4, RowFacts, KeySeqsFacts
  <2> HIDE DEF row, k
  <2> QED BY <2>1, <2>2
<1>8. keys \subseteq Keys /\ named \subseteq Keys
  <2> HIDE DEF hit, to
  <2> QED BY <1>3, <1>7
<1>9. /\ db' \in Rows /\ db'.keys = db.keys /\ db'.list = new.list /\ db'.size = new.size
  <2>1. able \in BOOLEAN /\ db.keys \in KeySeqs
    BY <1>3, RowFacts
  <2> HIDE DEF new, able
  <2> QED BY <1>2, <1>6, <2>1 DEF Rows
<1>10. GoodRow(db')
  <2> HIDE DEF new, row
  <2> QED BY <1>3, <1>5, <1>6, <1>9 DEF GoodRow
<1>11. ASSUME ~K!Stale(row)
       PROVE  /\ keys \cap K!KeysOf(db') \subseteq K!Disabled(db')
              /\ K!Disabled(db') \subseteq blamed \cup named
  <2>1. row.list = db.list /\ row.keys = db.keys
    BY <1>11 DEF K!Stale
  <2>2. K!KeyIndex(row, k) = K!KeyIndex(db, k) /\ K!KeysOf(row) = K!KeysOf(db)
    BY <2>1 DEF K!KeyIndex, K!KeysOf
  <2>3. /\ \A i \in K!Index : db'.list[i] = IF i = K!KeyIndex(db, k) THEN to ELSE db.list[i]
        /\ hit = {db.keys[K!KeyIndex(db, k)]}
    <3> HIDE DEF new, to, k
    <3> QED BY <1>6, <1>9, <2>1, <2>2
  <2>4. /\ to = "auto" => /\ K!Disabled(db') \subseteq K!Disabled(db) \cup hit
                          /\ (down \cup hit) \cap K!KeysOf(db') \subseteq K!Disabled(db')
        /\ to = "on" => /\ K!Disabled(db') \subseteq K!Disabled(db)
                        /\ (down \ hit) \cap K!KeysOf(db') \subseteq K!Disabled(db')
    <3>1. K!DisabledStays
      BY DEF KeyInv
    <3> HIDE DEF new, to, k, row
    <3> QED BY <1>3, <1>4, <1>9, <2>3, <3>1, SavedReport
  <2>5. to = "auto" => hit \subseteq blamed \cup named
    <3>1. K!KeysOf(row) \cap K!SameText(k) # {} => hit \subseteq K!SameText(k)
      <4>1. K!KeysOf(row) \cap K!SameText(k) # {} =>
              row.keys[K!KeyIndex(row, k)] \in K!SameText(k)
        BY <1>4, <1>5, KeyIndexFacts
      <4> QED BY <4>1
    <3> HIDE DEF hit, to, k, row
    <3> QED BY <1>5, <3>1
  <2>6. K!Disabled(db) \subseteq blamed
    BY DEF KeyInv, K!OnlyBlamedDisabled
  <2> HIDE DEF hit, to, named
  <2> QED BY <1>4, <2>4, <2>5, <2>6
<1>12. /\ K!DisabledStays' /\ K!OnlyBlamedDisabled'
       /\ blamed' \subseteq Keys /\ down' \subseteq Keys /\ blamed \subseteq blamed'
  <2>1. KType
    BY DEF KeyInv
  <2> HIDE DEF row, keys, named
  <2> QED BY <1>2, <1>8, <1>9, <1>11, <2>1, RecordedFacts
<1>13. req' \in [Requests -> ReqType]
  <2>1. "done" \in KeyPCs
    BY DEF KeyPCs
  <2> QED BY <1>1, <1>3, <2>1, ReqExcept
<1>14. /\ req'[r].pc = "done" /\ \A q \in Requests \ {r} : req'[q] = req[q]
  BY <1>1, <1>3 DEF ReqType
<1>15. ReqGood(r)'
  BY <1>14 DEF ReqGood
<1>16. RowsGood'
  BY <1>1, <1>10, <1>12, <1>14, <1>15, ReqFrame DEF KeyInv
<1> QED BY <1>1, <1>9, <1>12, <1>13, <1>16 DEF KeyInv, KType

LEMMA ReqTaken ==
    ASSUME req \in [Requests -> ReqType], NEW r \in Requests, NEW key \in Keys,
           NEW p \in {"uses", "tries"}, NEW w \in Rows,
           req' = [req EXCEPT ![r].key = key, ![r].row = w, ![r].pc = p]
    PROVE  /\ req' \in [Requests -> ReqType] /\ req'[r].pc \in {"uses", "tries"}
           /\ req'[r].key \in Keys /\ \A q \in Requests \ {r} : req'[q] = req[q]
<1>1. p \in KeyPCs
  BY DEF KeyPCs
<1> DEFINE y == [[[req[r] EXCEPT !.key = key] EXCEPT !.row = w] EXCEPT !.pc = p]
<1>2. y \in ReqType /\ y.pc = p /\ y.key = key
  BY <1>1 DEF ReqType
<1>3. req' = [req EXCEPT ![r] = y]
  OBVIOUS
<1> HIDE DEF y
<1>4. [req EXCEPT ![r] = y] \in [Requests -> ReqType] /\ [req EXCEPT ![r] = y][r] = y
  BY <1>2
<1>5. \A q \in Requests \ {r} : [req EXCEPT ![r] = y][q] = req[q]
  OBVIOUS
<1> QED BY <1>2, <1>3, <1>4, <1>5

\* Taking a key.  Without the cache the polling index is saved with the list
\* and the size that were read.
LEMMA KeyGetNext ==
    ASSUME K!KeysAssumption, KeyInv, NEW r \in Requests, K!GetNextEnabledKey(r)
    PROVE  KeyInv'
<1> DEFINE shared == cached /\ req[r].pc = "chosen" /\ req[r].row = K!NoRow
           row == IF shared THEN cache ELSE req[r].row
           start == IF cached THEN cache.next ELSE db.next
<1>1. /\ UNCHANGED <<cached, mode, op, seen, sync>> /\ req[r].pc \in {"chosen", "tests"}
  BY DEF K!GetNextEnabledKey
<1>2. /\ req \in [Requests -> ReqType] /\ db \in Rows /\ cache \in Rows /\ GoodRow(db)
      /\ K!NoRow \in Rows /\ down \subseteq Keys /\ ReqGood(r) /\ cached \in BOOLEAN
  BY IndexOne DEF KeyInv, KType, RowsGood
<1>3. row \in Rows
  BY <1>2 DEF ReqType
<1>4. CASE /\ req' = [req EXCEPT ![r].pc = "done", ![r].row = K!NoRow]
           /\ UNCHANGED <<db, cache, blamed, down>>
  <2>1. req' \in [Requests -> ReqType]
    <3>1. "done" \in KeyPCs
      BY DEF KeyPCs
    <3> QED BY <1>2, <1>4, <3>1, ReqExcept
  <2>2. /\ req'[r].pc = "done" /\ \A q \in Requests \ {r} : req'[q] = req[q]
    BY <1>2, <1>4 DEF ReqType
  <2>3. ReqGood(r)'
    BY <2>2 DEF ReqGood
  <2>4. RowsGood'
    BY <1>1, <1>2, <1>4, <2>2, <2>3, ReqFrame DEF KeyInv
  <2>5. K!DisabledStays' /\ K!OnlyBlamedDisabled'
    BY <1>4, SameRow
  <2> QED BY <1>1, <1>4, <2>1, <2>4, <2>5 DEF KeyInv, KType
<1>5. CASE K!Enabled(row) # {} /\ \E i \in K!Choices(row, start) :
             LET moved == K!Advance(row, i) IN
               /\ req' = [req EXCEPT ![r].key = row.keys[i], ![r].row = K!NoRow,
                                     ![r].pc = IF @ = "chosen" THEN "uses" ELSE "tries"]
               /\ cache' = IF shared THEN moved ELSE cache
               /\ IF cached \/ mode = "random" THEN UNCHANGED <<db, blamed, down>>
                  ELSE /\ db' = [db EXCEPT !.list = moved.list, !.size = moved.size,
                                           !.next = moved.next]
                       /\ K!Recorded(row, down, {})
  <2>0. PICK i \in K!Choices(row, start) :
               /\ req' = [req EXCEPT ![r].key = row.keys[i], ![r].row = K!NoRow,
                                     ![r].pc = IF @ = "chosen" THEN "uses" ELSE "tries"]
               /\ cache' = IF shared THEN K!Advance(row, i) ELSE cache
               /\ IF cached \/ mode = "random" THEN UNCHANGED <<db, blamed, down>>
                  ELSE /\ db' = [db EXCEPT !.list = K!Advance(row, i).list,
                                           !.size = K!Advance(row, i).size,
                                           !.next = K!Advance(row, i).next]
                       /\ K!Recorded(row, down, {})
    BY <1>5
  <2> DEFINE moved == K!Advance(row, i)
  <2>1. /\ row.keys[i] \in Keys /\ moved \in Rows
        /\ moved.list = row.list /\ moved.size = row.size
    <3> HIDE DEF row, start
    <3> QED BY <1>3, <1>5, ChoiceFacts
  <2>2. req' \in [Requests -> ReqType] /\ req'[r].pc \in {"uses", "tries"}
        /\ req'[r].key \in Keys /\ \A q \in Requests \ {r} : req'[q] = req[q]
    <3> DEFINE key == row.keys[i]
               p == IF req[r].pc = "chosen" THEN "uses" ELSE "tries"
    <3>1. req' = [req EXCEPT ![r].key = key, ![r].row = K!NoRow, ![r].pc = p]
      BY <2>0
    <3>2. key \in Keys /\ p \in {"uses", "tries"}
      BY <2>1
    <3> HIDE DEF key, p
    <3> QED BY <1>2, <3>1, <3>2, ReqTaken
  <2>3. cache' \in Rows
    <3> HIDE DEF moved
    <3> QED BY <1>2, <2>0, <2>1 DEF moved
  <2>4. ReqGood(r)'
    BY <2>2 DEF ReqGood
  <2>5. CASE cached \/ mode = "random"
    <3>1. UNCHANGED <<db, blamed, down>>
      BY <2>0, <2>5
    <3>2. RowsGood'
      BY <1>1, <1>2, <2>2, <2>4, <3>1, ReqFrame DEF KeyInv
    <3>3. K!DisabledStays' /\ K!OnlyBlamedDisabled'
      BY <3>1, SameRow
    <3> QED BY <1>1, <2>2, <2>3, <3>1, <3>2, <3>3 DEF KeyInv, KType
  <2>6. CASE ~(cached \/ mode = "random")
    <3>1. /\ db' = [db EXCEPT !.list = moved.list, !.size = moved.size, !.next = moved.next]
          /\ K!Recorded(row, down, {})
      BY <2>0, <2>6
    <3>2. /\ db' \in Rows /\ db'.keys = db.keys /\ db'.list = row.list /\ db'.size = row.size
      <4>1. moved.list \in [K!Index -> Values] /\ moved.size \in 0..Cardinality(Keys)
            /\ moved.next \in K!Index
        <5> HIDE DEF moved
        <5> QED BY <2>1, RowFacts
      <4> HIDE DEF moved, row
      <4> QED BY <1>2, <2>1, <3>1, <4>1 DEF Rows
    <3>3. GoodRow(row)
      BY <1>1, <1>2, <2>6 DEF ReqGood
    <3>4. GoodRow(db')
      <4> HIDE DEF row
      <4> QED BY <1>2, <3>2, <3>3 DEF GoodRow
    <3>5. ASSUME ~K!Stale(row)
          PROVE  /\ down \cap K!KeysOf(db') \subseteq K!Disabled(db')
                 /\ K!Disabled(db') \subseteq blamed \cup {}
      <4>1. db'.list = db.list
        BY <3>2, <3>5 DEF K!Stale
      <4>2. K!Disabled(db') = K!Disabled(db) /\ K!KeysOf(db') = K!KeysOf(db)
        BY <3>2, <4>1 DEF K!Disabled, K!KeysOf, K!Off
      <4> QED BY <4>2 DEF KeyInv, K!DisabledStays, K!OnlyBlamedDisabled
    <3>6. /\ K!DisabledStays' /\ K!OnlyBlamedDisabled'
          /\ blamed' \subseteq Keys /\ down' \subseteq Keys /\ blamed \subseteq blamed'
      <4>1. KType
        BY DEF KeyInv
      <4>2. {} \subseteq Keys
        OBVIOUS
      <4> HIDE DEF row
      <4> QED BY <1>2, <3>1, <3>2, <3>5, <4>1, <4>2, RecordedFacts
    <3>7. RowsGood'
      BY <1>1, <2>2, <2>4, <3>4, <3>6, ReqFrame DEF KeyInv
    <3> QED BY <1>1, <2>2, <2>3, <3>2, <3>6, <3>7 DEF KeyInv, KType
  <2> QED BY <2>5, <2>6
<1> QED BY <1>4, <1>5 DEF K!GetNextEnabledKey

\* A step of one handler leaves the others alone.
LEMMA OpFrame ==
    ASSUME RowsGood, NEW h \in Handlers, GoodRow(db'), blamed \subseteq blamed',
           UNCHANGED <<cached, req>>, \A g \in Handlers \ {h} : op'[g] = op[g], OpGood(h)'
    PROVE  RowsGood'
<1>1. \A g \in Handlers \ {h} : OpGood(g)'
  BY DEF RowsGood, OpGood
<1>2. \A r \in Requests : ReqGood(r)'
  BY DEF RowsGood, ReqGood
<1> QED BY <1>1, <1>2 DEF RowsGood

LEMMA OpEnds ==
    ASSUME op \in [Handlers -> OpType], NEW h \in Handlers, NEW p \in {"refresh", "done"},
           NEW w \in Rows, op' = [op EXCEPT ![h].pc = p, ![h].row = w]
    PROVE  op' \in [Handlers -> OpType] /\ op'[h].pc = p
           /\ \A g \in Handlers \ {h} : op'[g] = op[g]
<1> DEFINE y == [[op[h] EXCEPT !.pc = p] EXCEPT !.row = w]
<1>1. y \in OpType /\ y.pc = p
  BY DEF OpType
<1>2. op' = [op EXCEPT ![h] = y]
  OBVIOUS
<1> HIDE DEF y
<1> QED BY <1>1, <1>2

\* Only the list of channels and the dialog's own keys are operations.
LEMMA KeyRequest ==
    ASSUME K!KeysAssumption, KeyInv, NEW h \in Handlers, NEW do \in K!Operations, K!Request(h, do)
    PROVE  KeyInv'
<1>1. UNCHANGED <<cached, mode, db, cache, req, seen, sync, blamed, down>>
      /\ op' = [op EXCEPT ![h] = [pc |-> "read", do |-> do, row |-> db]]
  BY DEF K!Request
<1>2. op \in [Handlers -> OpType] /\ db \in Rows /\ GoodRow(db) /\ seen \in KeySeqs
      /\ 1 \in K!Index
  BY IndexOne DEF KeyInv, KType, RowsGood
<1>3. do \in Ops \X K!Index
  <2>1. DOMAIN seen \subseteq K!Index
    BY <1>2, KeySeqsFacts
  <2>2. do \in (K!OneKey \X DOMAIN seen)
           \cup (((K!OfKeys \ K!OneKey) \cup {"enable channel", "disable channel"}) \X {1})
    BY DEF K!Operations
  <2>3. K!OneKey \subseteq Ops
        /\ ((K!OfKeys \ K!OneKey) \cup {"enable channel", "disable channel"}) \subseteq Ops
    BY DEF Ops, K!OfKeys
  <2> QED BY <1>2, <2>1, <2>2, <2>3
<1>4. [pc |-> "read", do |-> do, row |-> db] \in OpType
  BY <1>2, <1>3 DEF OpType
<1>5. op' \in [Handlers -> OpType] /\ op'[h].row = db /\ \A g \in Handlers \ {h} : op'[g] = op[g]
  BY <1>1, <1>2, <1>4
<1>6. OpGood(h)'
  BY <1>1, <1>2, <1>5 DEF OpGood
<1>7. RowsGood'
  BY <1>1, <1>2, <1>5, <1>6, OpFrame DEF KeyInv
<1>8. K!DisabledStays' /\ K!OnlyBlamedDisabled'
  BY <1>1, SameRow
<1> QED BY <1>1, <1>5, <1>7, <1>8 DEF KeyInv, KType

LEMMA KeyRefuse ==
    ASSUME K!KeysAssumption, KeyInv, NEW h \in Handlers, K!Refuse(h)
    PROVE  KeyInv'
<1>1. UNCHANGED <<cached, mode, db, cache, req, seen, sync, blamed, down>>
      /\ op' = [op EXCEPT ![h].pc = "done", ![h].row = K!NoRow]
  BY DEF K!Refuse
<1>2. op \in [Handlers -> OpType] /\ GoodRow(db) /\ K!NoRow \in Rows
  BY IndexOne DEF KeyInv, KType, RowsGood
<1>3. op' \in [Handlers -> OpType] /\ op'[h].pc = "done"
      /\ \A g \in Handlers \ {h} : op'[g] = op[g]
  BY <1>1, <1>2, OpEnds
<1>4. RowsGood'
  BY <1>1, <1>2, <1>3, OpFrame DEF KeyInv, OpGood
<1>5. K!DisabledStays' /\ K!OnlyBlamedDisabled'
  BY <1>1, SameRow
<1> QED BY <1>1, <1>3, <1>4, <1>5 DEF KeyInv, KType

\* The write of a handler, over whatever the database holds by then.
LEMMA KeyWrite ==
    ASSUME K!KeysAssumption, KeyInv, NEW h \in Handlers, K!Write(h)
    PROVE  KeyInv'
<1> DEFINE row == op[h].row
           do == op[h].do
           new == New(row, do)
           keys == K!ToBeDisabled(row, do, new)
<1>1. /\ UNCHANGED <<cached, mode, cache, req, seen, sync>>
      /\ op[h].pc = "read" /\ ~K!Refused(row, do) /\ db' = new
      /\ op' = [op EXCEPT ![h].pc = IF cached THEN "refresh" ELSE "done", ![h].row = K!NoRow]
  BY DEF K!Write, New, Wanted, Written
<1>2. K!Recorded(row, keys, NamedBy(row, do))
  BY Zenon DEF K!Write, New, Wanted, Written, NamedBy
<1>3. /\ op \in [Handlers -> OpType] /\ db \in Rows /\ GoodRow(db) /\ OpGood(h)
      /\ K!NoRow \in Rows /\ down \subseteq Keys /\ cached \in BOOLEAN
      /\ K!DisabledStays /\ K!OnlyBlamedDisabled
  BY IndexOne DEF KeyInv, KType, RowsGood
<1>4. row \in Rows /\ GoodRow(row) /\ do \in Ops \X K!Index
  BY <1>1, <1>3 DEF OpType, OpGood
<1>5. db' \in Rows /\ GoodRow(db')
  <2> HIDE DEF row, do
  <2> QED BY <1>1, <1>3, <1>4, NewGood
<1>6. NamedBy(row, do) \subseteq Keys /\ keys \subseteq Keys
  <2>1. K!KeysOf(row) \subseteq Keys /\ K!Named(row, do[2]) \subseteq K!KeysOf(row)
    <3> HIDE DEF row, do
    <3> QED BY <1>4, RowFacts DEF K!Named, K!KeysOf
  <2>2. K!KeysOf(new) \subseteq Keys
    BY <1>1, <1>5, RowFacts
  <2>3. {new.keys[i] : i \in DOMAIN new.keys \cap 1..new.size} \subseteq K!KeysOf(new)
    <3> HIDE DEF new
    <3> QED BY DEF K!KeysOf
  <2>4. keys = {} \/ keys \subseteq {new.keys[i] : i \in DOMAIN new.keys \cap 1..new.size}
    <3> HIDE DEF new, row, do
    <3> QED BY Zenon DEF K!ToBeDisabled, keys
  <2>5. NamedBy(row, do) \subseteq Keys
    <3> HIDE DEF row, do
    <3> QED BY <2>1 DEF NamedBy
  <2> HIDE DEF new, keys
  <2> QED BY <2>2, <2>3, <2>4, <2>5
<1>7. ASSUME ~K!Stale(row)
      PROVE  /\ keys \cap K!KeysOf(db') \subseteq K!Disabled(db')
             /\ K!Disabled(db') \subseteq blamed \cup NamedBy(row, do)
  <2>1. row.keys = db.keys /\ row.list = db.list
    BY <1>7 DEF K!Stale
  <2>2. keys \cap K!KeysOf(new) \subseteq K!Disabled(new)
    <3> HIDE DEF row, do
    <3> QED BY <1>1, <1>3, <1>4, <2>1, NewKeepsDisabled
  <2>3. K!Disabled(new) \subseteq K!Disabled(db) \cup NamedBy(row, do)
    <3> HIDE DEF row, do
    <3> QED BY <1>3, <1>4, <2>1, NewDisables
  <2> HIDE DEF new, keys, row, do
  <2> QED BY <1>1, <1>3, <2>2, <2>3 DEF K!OnlyBlamedDisabled
<1>8. /\ K!DisabledStays' /\ K!OnlyBlamedDisabled'
      /\ blamed' \subseteq Keys /\ down' \subseteq Keys /\ blamed \subseteq blamed'
  <2>1. KType
    BY DEF KeyInv
  <2> HIDE DEF row, do, keys
  <2> QED BY <1>2, <1>5, <1>6, <1>7, <2>1, RecordedFacts
<1>9. op' \in [Handlers -> OpType] /\ op'[h].pc \in {"refresh", "done"}
      /\ \A g \in Handlers \ {h} : op'[g] = op[g]
  <2> DEFINE p == IF cached THEN "refresh" ELSE "done"
  <2>1. op' = [op EXCEPT ![h].pc = p, ![h].row = K!NoRow] /\ p \in {"refresh", "done"}
    BY <1>1
  <2> HIDE DEF p
  <2> QED BY <1>3, <2>1, OpEnds
<1>10. OpGood(h)'
  BY <1>9 DEF OpGood
<1>11. RowsGood'
  BY <1>1, <1>5, <1>8, <1>9, <1>10, OpFrame DEF KeyInv
<1> QED BY <1>1, <1>5, <1>8, <1>9, <1>11 DEF KeyInv, KType

LEMMA KeyLoad == ASSUME K!KeysAssumption, KeyInv, K!LoadKeyStatus PROVE KeyInv'
<1>1. UNCHANGED <<cached, mode, db, cache, req, op, sync, blamed, down>> /\ seen' = db.keys
  BY DEF K!LoadKeyStatus
<1>2. db.keys \in KeySeqs
  BY RowFacts DEF KeyInv, KType
<1>3. K!DisabledStays' /\ K!OnlyBlamedDisabled'
  BY <1>1, SameRow
<1>4. RowsGood'
  BY <1>1 DEF KeyInv, RowsGood, ReqGood, OpGood
<1> QED BY <1>1, <1>2, <1>3, <1>4 DEF KeyInv, KType

LEMMA KeySync ==
    ASSUME K!KeysAssumption, KeyInv, NEW p \in K!Syncs, K!SyncStep(p) PROVE KeyInv'
<1>1. UNCHANGED <<cached, mode, db, seen, blamed, down>>
  BY DEF K!SyncStep, K!SyncRead, K!SyncSwap
<1>2. K!DisabledStays' /\ K!OnlyBlamedDisabled' /\ GoodRow(db')
  BY <1>1, SameRow
<1>3. \A r \in Requests : ReqGood(r)
  BY DEF KeyInv, RowsGood
<1>4. /\ req \in [Requests -> ReqType]
      /\ sync \in [K!Syncs -> Rows] /\ db \in Rows /\ cache \in Rows /\ K!NoRow \in Rows
      /\ op \in [Handlers -> OpType]
  BY IndexOne DEF KeyInv, KType
<1>5. CASE K!SyncRead(p)
  <2>1. sync' = [sync EXCEPT ![p] = db] /\ UNCHANGED <<cache, req, op>>
    BY <1>5 DEF K!SyncRead
  <2>2. sync' \in [K!Syncs -> Rows]
    BY <1>4, <2>1
  <2>3. RowsGood'
    BY <1>1, <1>2, <1>3, <2>1 DEF KeyInv, RowsGood, OpGood, ReqGood
  <2> QED BY <1>1, <1>2, <2>1, <2>2, <2>3 DEF KeyInv, KType
<1>6. CASE K!SyncSwap(p)
  <2>1. /\ cache' = K!Swapped(sync[p]) /\ sync' = [sync EXCEPT ![p] = K!NoRow]
        /\ op' = [h \in Handlers |-> IF h = p THEN [op[h] EXCEPT !.pc = "done"] ELSE op[h]]
    BY <1>6 DEF K!SyncSwap
  <2>2. sync' \in [K!Syncs -> Rows]
    BY <1>4, <2>1
  <2>3. cache' \in Rows
    <3>1. sync[p] \in Rows /\ cache.next \in K!Index
      BY <1>4, RowFacts
    <3>2. \A x \in Rows : K!Swapped(x) \in Rows
      BY <3>1 DEF K!Swapped, Rows
    <3> QED BY <2>1, <3>1, <3>2
  <2>4. op' \in [Handlers -> OpType]
    <3>1. \A x \in OpType : [x EXCEPT !.pc = "done"] \in OpType
      BY DEF OpType
    <3> QED BY <1>4, <2>1, <3>1
  <2>5. \A h \in Handlers : op'[h].pc = "done" \/ op'[h] = op[h]
    <3>1. \A x \in OpType : [x EXCEPT !.pc = "done"].pc = "done"
      BY DEF OpType
    <3> QED BY <1>4, <2>1, <3>1
  <2>6. /\ req' \in [Requests -> ReqType]
        /\ \A r \in Requests : ReqGood(r)'
    <3> DEFINE kept(x) == [x EXCEPT !.row = cache]
    <3>1. req' = [r \in Requests |->
                    IF req[r].pc \in {"chosen", "mark"} /\ req[r].row = K!NoRow
                    THEN kept(req[r]) ELSE req[r]]
      BY <1>6 DEF K!SyncSwap
    <3>2. \A x \in ReqType : /\ kept(x) \in ReqType /\ kept(x).pc = x.pc
                             /\ kept(x).key = x.key /\ kept(x).to = x.to
      BY <1>4 DEF ReqType
    <3>3. \A r \in Requests : req[r].pc = "chosen" /\ req[r].row = K!NoRow => cached
      <4>1. ~(K!NoRow.keys # << >>)
        BY DEF K!NoRow
      <4> QED BY <1>3, <1>4, <4>1 DEF ReqGood, GoodRow
    <3> HIDE DEF kept
    <3>4. req' \in [Requests -> ReqType]
      BY <1>4, <3>1, <3>2
    <3>5. ASSUME NEW r \in Requests PROVE ReqGood(r)'
      <4>1. /\ req'[r].pc = req[r].pc /\ req'[r].key = req[r].key /\ req'[r].to = req[r].to
            /\ req'[r] = req[r] \/ req[r].pc = "mark" \/ (req[r].pc = "chosen" /\ cached)
        BY <1>4, <3>1, <3>2, <3>3
      <4> QED BY <1>1, <1>3, <4>1 DEF ReqGood
    <3> QED BY <3>4, <3>5
  <2>7. RowsGood'
    BY <1>2, <2>5, <2>6 DEF KeyInv, RowsGood, OpGood
  <2> QED BY <1>1, <1>2, <2>2, <2>3, <2>4, <2>6, <2>7 DEF KeyInv, KType
<1> QED BY <1>5, <1>6 DEF K!SyncStep

LEMMA KeyNext == ASSUME K!KeysAssumption PROVE KeyInv /\ [K!Next]_K!keyVars => KeyInv'
<1> SUFFICES ASSUME KeyInv, [K!Next]_K!keyVars PROVE KeyInv'
  OBVIOUS
<1>1. ASSUME NEW r \in Requests,
             (\E test \in BOOLEAN : K!Choose(r, test)) \/ K!Fails(r) \/ K!RequestStep(r)
      PROVE  KeyInv'
  BY <1>1, KeyChoose, KeyFails, KeyGetNext, KeyWorks, KeyReport, KeyReportToCache, KeyReadForReport,
     KeySaveReport DEF K!RequestStep
<1>2. ASSUME NEW h \in Handlers,
             (\E do \in K!Operations : K!Request(h, do)) \/ K!HandlerStep(h)
      PROVE  KeyInv'
  BY <1>2, KeyRequest, KeyWrite, KeyRefuse DEF K!HandlerStep
<1>3. CASE UNCHANGED K!keyVars
  <2>1. UNCHANGED <<cached, mode, db, cache, req, op, seen, sync, blamed, down>>
    BY <1>3 DEF K!keyVars
  <2>2. K!DisabledStays' /\ K!OnlyBlamedDisabled'
    BY <2>1, SameRow
  <2>3. RowsGood'
    BY <2>1 DEF KeyInv, RowsGood, ReqGood, OpGood
  <2> QED BY <2>1, <2>2, <2>3 DEF KeyInv, KType
<1> QED BY <1>1, <1>2, <1>3, KeyLoad, KeySync DEF K!Next

LEMMA KeyAlways == ASSUME K!KeysAssumption PROVE K!Spec => []KeyInv
<1> QED BY KeyInit, KeyNext, PTL DEF K!Spec

\* A report takes the channel out of service only when its count of statuses
\* has reached the size; if these are right, the statuses are those of all keys.
LEMMA DownStep ==
    ASSUME K!KeysAssumption, KeyInv, KeyInv', K!Next,
           db.status # "auto", db'.status = "auto", db'.size = Len(db'.keys),
           K!Off(db') \subseteq DOMAIN db'.keys, ~K!StaleSave, ~K!StaleWrite
    PROVE  K!Enabled(db') = {}
<1>1. /\ db \in Rows /\ db' \in Rows /\ req \in [Requests -> ReqType]
      /\ op \in [Handlers -> OpType] /\ GoodRow(db)
  BY DEF KeyInv, KType, RowsGood
<1>2. PICK r \in Requests : K!SaveReport(r)
  <2>1. ASSUME NEW h \in Handlers, K!Write(h) PROVE FALSE
    <3> DEFINE row == op[h].row
               do == op[h].do
    <3>1. /\ op[h].pc = "read" /\ db' = New(row, do)
          /\ op' = [op EXCEPT ![h].pc = IF cached THEN "refresh" ELSE "done", ![h].row = K!NoRow]
      BY <2>1 DEF K!Write, New, Wanted, Written
    <3>2. row \in Rows /\ GoodRow(row) /\ do \in Ops \X K!Index
      BY <1>1, <3>1 DEF KeyInv, RowsGood, OpGood, OpType
    <3>3. op'[h].pc # "read"
      BY <1>1, <3>1 DEF OpType
    <3>4. row.status = db.status
      BY <1>1, <3>1, <3>3 DEF K!StaleWrite, K!Stale
    <3>5. New(row, do).status # "auto"
      <4> HIDE DEF row, do
      <4> QED BY <1>1, <3>2, <3>4, NewGood
    <3> QED BY <3>1, <3>5
  <2>2. ASSUME NEW r \in Requests, K!GetNextEnabledKey(r) PROVE FALSE
    <3> DEFINE over(x) == [db EXCEPT !.list = x.list, !.size = x.size, !.next = x.next]
               row == IF cached /\ req[r].pc = "chosen" /\ req[r].row = K!NoRow THEN cache ELSE req[r].row
    <3>1. db' = db \/ \E i : db' = over(K!Advance(row, i))
      BY <2>2, Zenon DEF K!GetNextEnabledKey
    <3>2. \A x : over(x).status = db.status
      BY <1>1 DEF Rows
    <3> HIDE DEF over, row
    <3> QED BY <3>1, <3>2
  <2>3. db' # db
    OBVIOUS
  <2> QED BY <2>1, <2>2, <2>3 DEF K!Next, K!RequestStep, K!HandlerStep, K!SyncStep, K!Choose,
          K!Fails, K!Works, K!Report, K!ReportToCache, K!ReadForReport, K!LoadKeyStatus, K!Request,
          K!Refuse, K!SyncRead, K!SyncSwap
<1> DEFINE row == req[r].row
           new == K!handlerMultiKeyUpdate(row, req[r].key, req[r].to)
           able == IF new.status # row.status THEN req[r].to = "on" ELSE db.able
<1>3. /\ req[r].pc = "save" /\ db' = [new EXCEPT !.keys = db.keys, !.able = able]
      /\ req' = [req EXCEPT ![r].pc = "done", ![r].row = K!NoRow]
  BY <1>2, Zenon DEF K!SaveReport
<1>4. row.status = db.status
  <2>1. req'[r].pc = "done"
    BY <1>1, <1>3 DEF ReqType
  <2> QED BY <1>1, <1>3, <2>1 DEF K!StaleSave, K!Stale
<1>5. /\ new \in Rows
      /\ new.status # row.status => Cardinality(K!Off(new)) >= new.size
  <2>1. row \in Rows /\ req[r].to \in {"auto", "on"}
    BY <1>1 DEF ReqType
  <2> QED BY <2>1, HandlerFacts
<1>6. db'.list = new.list /\ db'.size = new.size /\ db'.status = new.status
  <2> HIDE DEF new, able
  <2> QED BY <1>3, <1>5 DEF Rows
<1>7. K!Off(db') = K!Off(new)
  BY <1>6 DEF K!Off
<1>8. Cardinality(K!Off(db')) >= Len(db'.keys)
  <2> HIDE DEF new, row
  <2> QED BY <1>4, <1>5, <1>6, <1>7
<1>9. DOMAIN db'.keys = 1..Len(db'.keys) /\ Len(db'.keys) \in Nat
  BY <1>1, KeySeqsFacts, RowFacts
<1>10. K!Off(db') = DOMAIN db'.keys
  <2>1. /\ IsFiniteSet(DOMAIN db'.keys) /\ Cardinality(DOMAIN db'.keys) = Len(db'.keys)
    BY <1>9, IntervalCount
  <2>2. /\ Cardinality(K!Off(db')) <= Cardinality(DOMAIN db'.keys)
        /\ Cardinality(DOMAIN db'.keys) = Cardinality(K!Off(db')) => DOMAIN db'.keys = K!Off(db')
        /\ IsFiniteSet(K!Off(db'))
    BY <2>1, FS_Subset
  <2>3. Cardinality(K!Off(db')) \in Nat
    BY <2>2, FS_CardinalityType
  <2> QED BY <1>8, <1>9, <2>1, <2>2, <2>3
<1> QED BY <1>10 DEF K!Enabled, K!Off

\* The types of the rows, of their copies and of the requests and handlers
\* that hold them.
THEOREM KeyTypesThm == ASSUME K!KeysAssumption PROVE K!Spec => []K!TypeOK
<1>1. KeyInv => K!TypeOK
  BY KeyTypes DEF KeyInv
<1> QED BY <1>1, KeyAlways, PTL

\* The instance says of the state what MultiKeyState says of it.
LEMMA SameState ==
    /\ K!Index = Index
    /\ \A row : K!KeysOf(row) = KeysOf(row) /\ K!Off(row) = Off(row)
    /\ \A row : K!Disabled(row) = Disabled(row) /\ K!Enabled(row) = Enabled(row)
<1>1. K!Index = Index
  BY SameCount DEF K!Index, Index
<1>2. \A row : K!KeysOf(row) = KeysOf(row) /\ K!Off(row) = Off(row)
  BY <1>1 DEF K!KeysOf, KeysOf, K!Off, Off
<1>3. \A row : K!Disabled(row) = Disabled(row) /\ K!Enabled(row) = Enabled(row)
  BY <1>2 DEF K!Disabled, Disabled, K!Enabled, Enabled
<1> QED BY <1>1, <1>2, <1>3

\* Deleting keys moves their indexes, and reports, polling and the dialog all
\* write whole rows back: yet a disabled key stays disabled until somebody
\* enables or deletes it, unless a stale row is written over it.
THEOREM DisabledStaysThm == ASSUME K!KeysAssumption PROVE K!Spec => []DisabledStays
<1>1. KeyInv => DisabledStays
  BY SameState DEF KeyInv, K!DisabledStays, DisabledStays
<1> QED BY <1>1, KeyAlways, PTL

\* handlerMultiKeyUpdate looks the key of a report up by its text when the
\* report runs: it disables the key that has failed and no other, except when
\* that key is no longer there.
THEOREM OnlyBlamedDisabledThm == ASSUME K!KeysAssumption PROVE K!Spec => []OnlyBlamedDisabled
<1>1. KeyInv => OnlyBlamedDisabled
  BY SameState DEF KeyInv, K!OnlyBlamedDisabled, OnlyBlamedDisabled
<1> QED BY <1>1, KeyAlways, PTL

\* A step that takes the channel out of service, by a size and a list that fit
\* its keys and a row that was not stale, leaves no enabled key.
THEOREM DownHasNoKeyThm == ASSUME K!KeysAssumption PROVE K!Spec => DownHasNoKey
<1>1. KeyInv /\ KeyInv' /\ [K!Next]_K!keyVars =>
        [db.status # "auto" /\ db'.status = "auto" /\ db'.size = Len(db'.keys)
           /\ Off(db)' \subseteq DOMAIN db'.keys
           => StaleSave \/ StaleWrite \/ Enabled(db)' = {}]_keyVars
  <2> SUFFICES ASSUME KeyInv, KeyInv', [K!Next]_K!keyVars, db.status # "auto",
                      db'.status = "auto", db'.size = Len(db'.keys),
                      Off(db') \subseteq DOMAIN db'.keys, ~StaleSave, ~StaleWrite
               PROVE  Enabled(db') = {}
    BY DEF Off, Enabled, Index
  <2>1. K!Next
    BY DEF K!keyVars
  <2>2. ~K!StaleSave /\ ~K!StaleWrite
    BY DEF K!StaleSave, StaleSave, K!StaleWrite, StaleWrite, K!Stale, Stale
  <2>3. K!Off(db') = Off(db') /\ K!Enabled(db') = Enabled(db')
    BY SameState
  <2>4. K!Enabled(db') = {}
    BY <2>1, <2>2, <2>3, DownStep
  <2> QED BY <2>3, <2>4
<1> QED BY <1>1, KeyAlways, PTL DEF K!Spec, DownHasNoKey
============================================================================
