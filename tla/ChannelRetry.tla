---------------------------- MODULE ChannelRetry ----------------------------
(***************************************************************************)
(* Which channels a relayed request is sent to.  The distributor selects   *)
(* the first channel; when the upstream call fails, the loop of Relay may  *)
(* select another one: a lower priority of the same group, or, for a token *)
(* of the "auto" group, a channel of the next group.  The position in the  *)
(* groups (ContextKeyAutoGroupIndex) and in the priorities (Retry) is kept *)
(* in the request's context and in its RetryParam; the lists of channels   *)
(* are shared, and shrink and grow while the request is on its way.        *)
(*                                                                         *)
(* One model name is fixed, so a group has one list (group2model2channels).*)
(* A lookup in a list holds channelSyncLock, hence is one step; the walk   *)
(* over several groups is several.                                         *)
(***************************************************************************)
EXTENDS Integers, Sequences, FiniteSets

CONSTANTS
    Requests,      \* request ids
    Channels,      \* channels that serve the model
    Groups,        \* group names
    Members,       \* [Groups -> SUBSET Channels], as configured
    Priority,      \* [Channels -> Int]
    Weight,        \* [Channels -> Nat]
    MultiKey,      \* the channels with several keys
    AutoGroups,    \* GetUserAutoGroup: the groups "auto" stands for, in order
    RetryTimes,    \* common.RetryTimes
    StatusCodes,   \* HTTP status codes of upstream errors
    Kinds,         \* the kinds of requests that arrive (see Kind)
    Changes,       \* what happens to the lists: "disable", "sync"
    NoChannel      \* not a channel

N == Len(AutoGroups)

\* auto: the token's group is "auto", else it is group; cross: the token has
\* CrossGroupRetry; pin: the channel an administrator named in the key.
Kind == [auto: BOOLEAN, group: Groups, cross: BOOLEAN,
         pin: Channels \cup {NoChannel}]

ASSUME SetsAssumption ==
    /\ AutoGroups \in Seq(Groups) /\ Members \in [Groups -> SUBSET Channels]
    /\ Kinds \subseteq Kind /\ NoChannel \notin Channels
ASSUME NumbersAssumption ==
    /\ RetryTimes \in Nat /\ StatusCodes \subseteq Nat
    /\ Priority \in [Channels -> Int] /\ Weight \in [Channels -> Nat]

VARIABLES
    list,       \* group2model2channels: the channels a group offers
    disabling,  \* channels with a DisableChannel goroutine under way
    kind,       \* what kind of request it is
    pc,         \* where the request is
    retry,      \* RetryParam.Retry
    reset,      \* RetryParam.resetNextTry
    index,      \* ContextKeyAutoGroupIndex, counted from 1
    group,      \* ContextKeyAutoGroup as an index, 0 when it is not set
    chan,       \* the channel in the context
    billed,     \* RelayInfo.UsingGroup, whose ratio is charged, like group
    tries       \* history: the upstream calls made so far

listVars == <<list, disabling>>
walkVars == <<retry, reset, index>>
vars == <<listVars, kind, pc, walkVars, group, chan, billed, tries>>

Ended == {"done", "failed", "gaveUp", "noChannel", "noKey"}

\* An upstream call: the group it is for, its channel, and whether the context
\* holds a key of the channel.
Try == [g: 0..N, c: Channels, key: BOOLEAN]

TypeOK ==
    /\ list \in [Groups -> SUBSET Channels]
    /\ disabling \subseteq Channels
    /\ kind \in [Requests -> Kind]
    /\ pc \in [Requests -> {"select", "selected", "sent"} \cup Ended]
    /\ retry \in [Requests -> 0..RetryTimes]
    /\ reset \in [Requests -> BOOLEAN]
    /\ index \in [Requests -> 1..(N + 1)]
    /\ group \in [Requests -> 0..N]
    /\ chan \in [Requests -> Channels \cup {NoChannel}]
    /\ billed \in [Requests -> 0..N]
    /\ tries \in [Requests -> Seq(Try)]

Init ==
    /\ list = Members
    /\ disabling = {}
    /\ kind \in [Requests -> Kinds]
    /\ pc = [r \in Requests |-> "select"]
    /\ retry = [r \in Requests |-> 0]
    /\ reset = [r \in Requests |-> FALSE]
    /\ index = [r \in Requests |-> 1]
    /\ group = [r \in Requests |-> 0]
    /\ chan = [r \in Requests |-> NoChannel]
    /\ billed = [r \in Requests |-> 0]
    /\ tries = [r \in Requests |-> <<>>]

(***************************************************************************)
(* GetRandomSatisfiedChannel                                               *)
(***************************************************************************)
\* The priority at place retry, counted from the highest; a place beyond the
\* last is the last.
TargetPriority(S, n) ==
    LET prios == {Priority[c] : c \in S}
        above(p) == Cardinality({q \in prios : q > p})
    IN  CHOOSE p \in prios :
            above(p) = IF n >= Cardinality(prios) THEN Cardinality(prios) - 1 ELSE n

\* The random draw, with the smoothing, can fall on every channel when all
\* weights are 0, and otherwise on every channel with a weight.
Drawn(S) == IF \A c \in S : Weight[c] = 0 THEN S ELSE {c \in S : Weight[c] > 0}

\* What a lookup in the list S may answer; no channel when S is empty.
GetRandomSatisfiedChannel(S, n) ==
    IF Cardinality(S) <= 1 THEN S
    ELSE Drawn({c \in S : Priority[c] = TargetPriority(S, n)})

(***************************************************************************)
(* Selection: the distributor for the first try, getChannel afterwards     *)
(***************************************************************************)
First(r) == tries[r] = <<>>
Pinned(r) == kind[r].pin # NoChannel

GoTo(r, from, to) == pc[r] = from /\ pc' = [pc EXCEPT ![r] = to]

\* The first try goes to the named channel, if it is enabled.
SelectPinned(r) ==
    /\ First(r) /\ Pinned(r)
    /\ GoTo(r, "select", "selected")
    /\ chan' = [chan EXCEPT ![r] = kind[r].pin]
    /\ UNCHANGED <<listVars, kind, walkVars, group, billed, tries>>

PinnedDisabled(r) ==
    /\ First(r) /\ Pinned(r)
    /\ GoTo(r, "select", "noChannel")
    /\ UNCHANGED <<listVars, kind, walkVars, group, chan, billed, tries>>

\* CacheGetRandomSatisfiedChannel is called; it selects by the token's group.
Selects(r) == pc[r] = "select" /\ ~(First(r) /\ Pinned(r))

SelectInGroup(r, c) ==
    /\ Selects(r) /\ ~kind[r].auto
    /\ c \in GetRandomSatisfiedChannel(list[kind[r].group], retry[r])
    /\ GoTo(r, "select", "selected")
    /\ chan' = [chan EXCEPT ![r] = c]
    /\ UNCHANGED <<listVars, kind, walkVars, group, billed, tries>>

GroupEmpty(r) ==
    /\ Selects(r) /\ ~kind[r].auto
    /\ list[kind[r].group] = {}
    /\ GoTo(r, "select", "noChannel")
    /\ UNCHANGED <<listVars, kind, walkVars, group, chan, billed, tries>>

\* Seeded fault: the group is left without a new start of the retries.
SkipGroup_KeepsRetry(r) ==
    /\ Selects(r) /\ kind[r].auto
    /\ index[r] <= N /\ list[AutoGroups[index[r]]] = {}
    /\ index' = [index EXCEPT ![r] = @ + 1]
    /\ UNCHANGED <<listVars, kind, pc, retry, reset, group, chan, billed, tries>>

\* The group has no channel: the walk goes on with the next, and the retries
\* start again, which makes priorityRetry 0 there.
SkipGroup(r) ==
    /\ Selects(r) /\ kind[r].auto
    /\ index[r] <= N /\ list[AutoGroups[index[r]]] = {}
    /\ index' = [index EXCEPT ![r] = @ + 1]
    /\ retry' = [retry EXCEPT ![r] = 0]
    /\ UNCHANGED <<listVars, kind, pc, reset, group, chan, billed, tries>>

\* The group's retries are used up with this one: the next goes to the next
\* group.
Exhausted(r) == kind[r].cross /\ retry[r] >= RetryTimes

\* Seeded fault: the retries start again in the same group.
SelectAuto_SameGroup(r, c) ==
    /\ Selects(r) /\ kind[r].auto
    /\ index[r] <= N
    /\ c \in GetRandomSatisfiedChannel(list[AutoGroups[index[r]]], retry[r])
    /\ GoTo(r, "select", "selected")
    /\ chan' = [chan EXCEPT ![r] = c]
    /\ group' = [group EXCEPT ![r] = index[r]]
    /\ retry' = [retry EXCEPT ![r] = IF Exhausted(r) THEN 0 ELSE @]
    /\ reset' = [reset EXCEPT ![r] = @ \/ (Exhausted(r) /\ ~First(r))]
    /\ UNCHANGED <<listVars, kind, index, billed, tries>>

\* The walk stops at the first group that has a channel.  The RetryParam of
\* the distributor is thrown away, and with it its resetNextTry.
SelectAuto(r, c) ==
    /\ Selects(r) /\ kind[r].auto
    /\ index[r] <= N
    /\ c \in GetRandomSatisfiedChannel(list[AutoGroups[index[r]]], retry[r])
    /\ GoTo(r, "select", "selected")
    /\ chan' = [chan EXCEPT ![r] = c]
    /\ group' = [group EXCEPT ![r] = index[r]]
    /\ index' = [index EXCEPT ![r] = IF Exhausted(r) THEN @ + 1 ELSE @]
    /\ retry' = [retry EXCEPT ![r] = IF Exhausted(r) THEN 0 ELSE @]
    /\ reset' = [reset EXCEPT ![r] = @ \/ (Exhausted(r) /\ ~First(r))]
    /\ UNCHANGED <<listVars, kind, billed, tries>>

\* Seeded fault: off by one at the end of the groups.
NoGroupLeft_OffByOne(r) ==
    /\ Selects(r) /\ kind[r].auto
    /\ index[r] > N + 1
    /\ GoTo(r, "select", "noChannel")
    /\ UNCHANGED <<listVars, kind, walkVars, group, chan, billed, tries>>

\* No group is left: there is no channel, and the request fails.
NoGroupLeft(r) ==
    /\ Selects(r) /\ kind[r].auto
    /\ index[r] > N
    /\ GoTo(r, "select", "noChannel")
    /\ UNCHANGED <<listVars, kind, walkVars, group, chan, billed, tries>>

\* Seeded fault: a retry keeps the ratio of the first group.
Send_FirstRatio(r, key) ==
    /\ ~key => First(r) /\ chan[r] \in MultiKey
    /\ GoTo(r, "selected", "sent")
    /\ billed' = [billed EXCEPT ![r] = IF First(r) THEN group[r] ELSE @]
    /\ tries' = [tries EXCEPT ![r] =
                   Append(@, [g |-> group[r], c |-> chan[r], key |-> key])]
    /\ UNCHANGED <<listVars, kind, walkVars, group, chan>>

\* HandleGroupRatio takes the ratio of the group selected, then the context
\* gets the channel and one of its keys, and the call is made.  The
\* distributor ignores that no key is enabled.
Send(r, key) ==
    /\ ~key => First(r) /\ chan[r] \in MultiKey
    /\ GoTo(r, "selected", "sent")
    /\ billed' = [billed EXCEPT ![r] = group[r]]
    /\ tries' = [tries EXCEPT ![r] =
                   Append(@, [g |-> group[r], c |-> chan[r], key |-> key])]
    /\ UNCHANGED <<listVars, kind, walkVars, group, chan>>

\* getChannel answers the error that no key is enabled, and the loop ends.
NoEnabledKey(r) ==
    /\ ~First(r) /\ chan[r] \in MultiKey
    /\ GoTo(r, "selected", "noKey")
    /\ billed' = [billed EXCEPT ![r] = group[r]]
    /\ UNCHANGED <<listVars, kind, walkVars, group, chan, tries>>

(***************************************************************************)
(* The answer of the upstream call                                         *)
(***************************************************************************)
Error == [channel: BOOLEAN, skip: BOOLEAN, status: StatusCodes]

\* 5xx but for timeouts, 429, 307 and whatever is not 400, 408 or 2xx.
RetryableStatus(s) == s \notin {400, 408, 504, 524} /\ s \div 100 # 2

\* The error does not itself forbid another try.
Repeatable(e) == e.channel \/ (~e.skip /\ RetryableStatus(e.status))

shouldRetry(r, e, retryTimes) ==
    \/ e.channel
    \/ ~e.skip /\ retryTimes > 0 /\ ~Pinned(r) /\ RetryableStatus(e.status)

\* Depends on the status code, the message and the settings, too.
MayDisable(e) == e.channel \/ ~e.skip

Succeed(r) ==
    /\ GoTo(r, "sent", "done")
    /\ UNCHANGED <<listVars, kind, walkVars, group, chan, billed, tries>>

\* Seeded fault: the retries are counted from one.
Fail_OffByOne(r, e, disable) ==
    LET next == IF reset[r] THEN retry[r] ELSE retry[r] + 1
        again == shouldRetry(r, e, RetryTimes - retry[r] - 1) /\ next <= RetryTimes
    IN  /\ disable => MayDisable(e)
        /\ GoTo(r, "sent", IF again THEN "select"
                           ELSE IF Repeatable(e) THEN "gaveUp" ELSE "failed")
        /\ disabling' = IF disable THEN disabling \cup {chan[r]} ELSE disabling
        /\ retry' = [retry EXCEPT ![r] = IF again THEN next ELSE @]
        /\ reset' = [reset EXCEPT ![r] = FALSE]
        /\ UNCHANGED <<list, kind, index, group, chan, billed, tries>>

\* processChannelError may start DisableChannel; then shouldRetry, with the
\* retries left after the selection, IncreaseRetry and the loop's condition.
Fail(r, e, disable) ==
    LET next == IF reset[r] THEN retry[r] ELSE retry[r] + 1
        again == shouldRetry(r, e, RetryTimes - retry[r]) /\ next <= RetryTimes
    IN  /\ disable => MayDisable(e)
        /\ GoTo(r, "sent", IF again THEN "select"
                           ELSE IF Repeatable(e) THEN "gaveUp" ELSE "failed")
        /\ disabling' = IF disable THEN disabling \cup {chan[r]} ELSE disabling
        /\ retry' = [retry EXCEPT ![r] = IF again THEN next ELSE @]
        /\ reset' = [reset EXCEPT ![r] = FALSE]
        /\ UNCHANGED <<list, kind, index, group, chan, billed, tries>>

(***************************************************************************)
(* The lists change                                                        *)
(***************************************************************************)
\* The DisableChannel goroutine: UpdateChannelStatus takes a channel with one
\* key out of every list; one with several keys stays.
DisableChannel(c) ==
    /\ "disable" \in Changes
    /\ c \in disabling
    /\ disabling' = disabling \ {c}
    /\ list' = IF c \in MultiKey THEN list ELSE [g \in Groups |-> list[g] \ {c}]
    /\ UNCHANGED <<kind, pc, walkVars, group, chan, billed, tries>>

\* InitChannelCache builds the lists from the channels enabled in the database.
InitChannelCache(enabled) ==
    /\ "sync" \in Changes
    /\ list' = [g \in Groups |-> Members[g] \cap enabled]
    /\ UNCHANGED <<disabling, kind, pc, walkVars, group, chan, billed, tries>>

(***************************************************************************)
(* The specification                                                       *)
(***************************************************************************)
Relay(r) ==
    \/ SelectPinned(r) \/ PinnedDisabled(r) \/ GroupEmpty(r)
    \/ SkipGroup(r) \/ NoGroupLeft(r) \/ NoEnabledKey(r)
    \/ \E c \in Channels : SelectInGroup(r, c) \/ SelectAuto(r, c)
    \/ \E key \in BOOLEAN : Send(r, key)
    \/ Succeed(r)
    \/ \E e \in Error, disable \in BOOLEAN : Fail(r, e, disable)

Next ==
    \/ \E r \in Requests : Relay(r)
    \/ \E c \in Channels : DisableChannel(c)
    \/ \E enabled \in SUBSET Channels : InitChannelCache(enabled)

Spec == Init /\ [][Next]_vars

\* A request goes on: every upstream call ends, by a timeout at the latest.
FairSpec == Spec /\ \A r \in Requests : WF_vars(Relay(r))

(***************************************************************************)
(* Properties                                                              *)
(***************************************************************************)
\* However the lists change and the walk starts its retries again, no group
\* gets more than RetryTimes + 1 of the calls of a request (0 stands for the
\* group of a token that is not "auto").
TriesBounded ==
    \A r \in Requests, g \in 0..N :
        Cardinality({i \in DOMAIN tries[r] : tries[r][i].g = g}) <= RetryTimes + 1

\* The retries RetryTimes promises are made: a request that no channel is
\* named for gives up on an error worth another try only after RetryTimes
\* retries, in whichever groups they were.
RetriesUsed ==
    \A r \in Requests : pc[r] = "gaveUp" /\ ~Pinned(r) => Len(tries[r]) > RetryTimes

\* The user pays the ratio of the group whose channel serves the request, and
\* that channel is configured for this group, although groups change on retry.
BilledAsServed ==
    \A r \in Requests : pc[r] \in {"sent", "done"} =>
        LET last == tries[r][Len(tries[r])]
        IN  /\ last.g = billed[r]
            /\ ~Pinned(r) =>
                 last.c \in Members[IF kind[r].auto THEN AutoGroups[billed[r]]
                                                    ELSE kind[r].group]

\* Every request comes to an end, although the retries start again per group.
EveryRequestEnds == \A r \in Requests : <>(pc[r] \in Ended)

\* channel_select.go: "Each group will exhaust all its priorities before moving
\* to the next group": whatever the first group still offers, some channel of
\* the same priority was tried before the second group.
PrioritiesExhausted ==
    \A r \in Requests :
        kind[r].cross /\ group[r] = 2 =>
            \A c \in list[AutoGroups[1]] : \E i \in DOMAIN tries[r] :
                Priority[tries[r][i].c] = Priority[c]

\* channel_select.go, the example of two groups with two priorities each and
\* RetryTimes 3: "Retry=2: GroupA exhausted", the third call goes to the second
\* group, so a group gets as many calls as it has priorities.
OneTryPerPriority ==
    \A r \in Requests, g \in 1..N : kind[r].cross =>
        Cardinality({i \in DOMAIN tries[r] : tries[r][i].g = g})
           <= Cardinality({Priority[c] : c \in Members[AutoGroups[g]]})

\* channel.go: GetNextEnabledKey returns "an explicit error so caller can
\* properly handle a channel with no available keys": no call without a key.
EveryTryHasKey ==
    \A r \in Requests : \A i \in DOMAIN tries[r] : tries[r][i].key
=============================================================================
