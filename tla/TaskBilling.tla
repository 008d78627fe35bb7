---------------------------- MODULE TaskBilling ----------------------------
(***************************************************************************)
(* Asynchronous tasks: videos, songs and Midjourney pictures.  A task is   *)
(* submitted to a provider, stored as a row with its price, and paid; two  *)
(* loops of every master node, one for Midjourney and one for the rest,    *)
(* read the rows that are not finished, ask the provider, and write what   *)
(* it answers back over the whole row.  A failed task is refunded, a video *)
(* that reports its tokens is billed again.                                *)
(*                                                                         *)
(* The rows have other writers: a user who fetches a Gemini video makes    *)
(* the server ask the provider and save the row (videoFetchByIDResp-       *)
(* BodyBuilder), and Midjourney may notify the server.  Neither refunds.   *)
(*                                                                         *)
(* Status and progress are one state here: "running" is a row that the     *)
(* loops still read, "success" and "failure" one that they do not; a song  *)
(* that comes with a reason for failing is done and refunded whatever its  *)
(* status is, and is a "failure" too.                                      *)
(***************************************************************************)
EXTENDS Integers, FiniteSets

CONSTANTS
    Tasks,      \* submissions; a task is the row of its submission
    Mixes,      \* the kinds of the tasks, and the value of TASK_QUERY_LIMIT
    Nodes,      \* master nodes (NODE_TYPE is not "slave")
    Price,      \* the quota of a submission
    Costs,      \* what the tokens a video reports may cost; 0: none reported
    MaxFaults,  \* how often a request, a node or the database may fail
    MaxOutside  \* how often a user fetches a video, or Midjourney notifies

(* "gemini" is a video the user's fetch refreshes; "mjfree" a Midjourney    *)
(* action that is not paid (IN_PAINT, CUSTOM_ZOOM).                         *)
Videos == {"video", "gemini"}
Pictures == {"mj", "mjfree"}

Kinds == Videos \cup Pictures \cup {"suno"}

ASSUME KindsAssumption ==
    Mixes \subseteq [kinds: [Tasks -> Kinds], limit: Nat \ {0}]
ASSUME PricesAssumption == Price \in Nat \ {0} /\ Costs \subseteq Nat
ASSUME BoundsAssumption == MaxFaults \in Nat /\ MaxOutside \in Nat

VARIABLES
    kind,      \* the kind of each task
    limit,     \* TASK_QUERY_LIMIT: how many rows the task loop reads at once
    before,    \* the rows of its loop's table that are older than its own
    sub,       \* how far its submission is
    row,       \* its row
    up, cost,  \* the provider's side: how the task is, what it has cost
    gone, off, \* the kinds whose channel has been deleted, or disabled
    mem,       \* the rows that each loop has read and not yet dealt with
    ans,       \* the provider's answers a loop holds
    job,       \* the task a loop is at, and what it does next
    failed,    \* err of updateSunoTaskAll: the last update failed
    outside,   \* the row as a fetch or a notification is about to save it
    paid,      \* what the user's account has paid for the task
    refunds,   \* history: how often the task was refunded
    opened,    \* history: how often its row became one the loops read
    spoiled,   \* history: tasks a fault, a deletion or an outside writer met
    relost,    \* history: saves of a song that were lost after its refund
    faults, outsides

bounds == <<faults, outsides>>
history == <<refunds, opened, spoiled, relost>>
provider == <<up, cost, gone, off>>
ids == <<limit, before>>
loops == <<mem, ans, job, failed>>
vars == <<kind, ids, sub, row, provider, loops, outside, paid, history, bounds>>

Loops == Nodes \X {"task", "mj"}
LoopOf(k) == IF k \in Pictures THEN "mj" ELSE "task"

States == {"none", "running", "success", "failure"}
Row == [state: States, quota: Nat]
NoRow == [state |-> "none", quota |-> 0]
Idle == [task |-> {}, step |-> "idle", refund |-> FALSE]

(* What a loop reads: GetAllUnFinishSyncTasks and GetAllUnFinishTasks.      *)
Unfinished(t) == row[t].state = "running"

(* The oldest of the rows of S, as many as the limit allows.                *)
Oldest(S) == {t \in S : Cardinality(before[t] \cap S) < limit}

Init ==
    /\ \E m \in Mixes : kind = m.kinds /\ limit = m.limit
    /\ before = [t \in Tasks |-> {}]
    /\ sub = [t \in Tasks |-> "new"]
    /\ row = [t \in Tasks |-> NoRow]
    /\ up = [t \in Tasks |-> "none"] /\ cost = [t \in Tasks |-> 0]
    /\ gone = {} /\ off = {}
    /\ mem = [w \in Loops |-> [t \in Tasks |-> NoRow]]
    /\ ans = [w \in Loops |-> [t \in Tasks |-> "none"]]
    /\ job = [w \in Loops |-> Idle]
    /\ failed = [w \in Loops |-> FALSE]
    /\ outside = [t \in Tasks |-> NoRow]
    /\ paid = [t \in Tasks |-> 0]
    /\ refunds = [t \in Tasks |-> 0] /\ opened = [t \in Tasks |-> 0]
    /\ spoiled = {} /\ relost = [t \in Tasks |-> 0]
    /\ faults = 0 /\ outsides = 0

Fault == faults < MaxFaults /\ faults' = faults + 1

(* Task.Insert and Task.Update: the whole row is written.                   *)
Write(t, r) ==
    /\ row' = [row EXCEPT ![t] = r]
    /\ opened' = [opened EXCEPT ![t] =
                    IF r.state = "running" /\ ~Unfinished(t) THEN @ + 1 ELSE @]

-----------------------------------------------------------------------------
(* Submission: the provider accepts, the row is inserted, the user pays.   *)

Accept(t) ==
    /\ sub[t] = "new" /\ kind[t] \notin gone \cup off
    /\ up' = [up EXCEPT ![t] = "running"]
    /\ sub' = [sub EXCEPT ![t] = "accepted"]
    /\ UNCHANGED <<kind, ids, row, cost, gone, off, loops, outside, paid,
                   history, bounds>>

(* A picture the provider turns down is stored too, with its price and     *)
(* perhaps with an id, and is not paid; a video or a song is not stored.   *)
(* The channel is disabled when the provider says that it has no account:  *)
(* it takes no more submissions, and the loops go on to ask it.            *)
Reject(t) ==
    /\ sub[t] = "new" /\ kind[t] \notin gone \cup off
    /\ IF kind[t] \in Pictures
         THEN /\ sub' = [sub EXCEPT ![t] = "rejected"]
              /\ \E u \in {"none", "lost"} : up' = [up EXCEPT ![t] = u]
              /\ off' \in {off, off \cup {kind[t]}}
         ELSE sub' = [sub EXCEPT ![t] = "ended"] /\ UNCHANGED <<up, off>>
    /\ UNCHANGED <<kind, ids, row, cost, gone, loops, outside, paid, history,
                   bounds>>

Free(t) == kind[t] = "mjfree" \/ sub[t] = "rejected"

(* The rows in the table of tasks; pictures have a table of their own, of  *)
(* which the loop reads everything.                                        *)
Older == {u \in Tasks : row[u] # NoRow /\ kind[u] \notin Pictures}

Insert(t) ==
    /\ sub[t] \in {"accepted", "rejected"}
    /\ sub' = [sub EXCEPT ![t] = IF Free(t) THEN "ended" ELSE "inserted"]
    /\ Write(t, [state |-> "running", quota |-> Price])
    /\ before' = [before EXCEPT ![t] = Older]
    /\ UNCHANGED <<kind, limit, provider, loops, outside, paid, refunds,
                   spoiled, relost, bounds>>

(* Without a row a video or a song is not paid, a picture is.               *)
InsertFails(t) ==
    /\ sub[t] \in {"accepted", "rejected"} /\ Fault
    /\ sub' = [sub EXCEPT ![t] =
                 IF kind[t] = "mj" /\ ~Free(t) THEN "inserted" ELSE "ended"]
    /\ spoiled' = spoiled \cup {t}
    /\ UNCHANGED <<kind, ids, row, provider, loops, outside, paid, refunds,
                   opened, relost, outsides>>

(* PostConsumeQuota, deferred to the end of the submission.                 *)
Charge(t) ==
    /\ sub[t] = "inserted"
    /\ sub' = [sub EXCEPT ![t] = "charged"]
    /\ paid' = [paid EXCEPT ![t] = @ + Price]
    /\ UNCHANGED <<kind, ids, row, provider, loops, outside, history, bounds>>

ChargeFails(t) ==
    /\ sub[t] = "inserted" /\ Fault
    /\ sub' = [sub EXCEPT ![t] = "ended"]
    /\ spoiled' = spoiled \cup {t}
    /\ UNCHANGED <<kind, ids, row, provider, loops, outside, paid, refunds,
                   opened, relost, outsides>>

-----------------------------------------------------------------------------
(* The provider, and the administrator who deletes a channel.              *)

Finish(t) ==
    /\ up[t] = "running"
    /\ \/ /\ up' = [up EXCEPT ![t] = "success"]
          /\ \E c \in Costs : cost' = [cost EXCEPT ![t] = c]
       \/ up' = [up EXCEPT ![t] = "failure"] /\ UNCHANGED cost
    /\ UNCHANGED <<kind, ids, sub, row, gone, off, loops, outside, paid,
                   history, bounds>>

DeleteChannel(k) ==
    /\ k \notin gone /\ (\E t \in Tasks : kind[t] = k) /\ Fault
    /\ gone' = gone \cup {k}
    /\ UNCHANGED <<kind, ids, sub, row, up, cost, off, loops, outside, paid,
                   history, outsides>>

(* What the server makes of an answer: a video without a status, a song    *)
(* with a reason for failing, whatever its status, and a picture that is   *)
(* not finished after an hour count as failures.                           *)
Answers(t) == {up[t], "failure"}

-----------------------------------------------------------------------------
(* The loops UpdateTaskBulk and UpdateMidjourneyTaskBulk.                  *)

Held(w) == {t \in Tasks : mem[w][t] # NoRow}

(* The task loop reads the oldest rows only.  Rows without an id fail, and *)
(* are not refunded.                                                       *)
Poll(w) ==
    /\ Held(w) = {}
    /\ LET open == {t \in Tasks : Unfinished(t) /\ LoopOf(kind[t]) = w[2]}
           all == IF w[2] = "task" THEN Oldest(open) ELSE open
           nullTaskIds == {t \in all : up[t] = "none"} IN
         /\ all # {}
         /\ mem' = [mem EXCEPT ![w] =
                      [t \in Tasks |-> IF t \in all \ nullTaskIds
                                         THEN row[t] ELSE NoRow]]
         /\ row' = [t \in Tasks |-> IF t \in nullTaskIds
                                      THEN [row[t] EXCEPT !.state = "failure"]
                                      ELSE row[t]]
    /\ UNCHANGED <<kind, ids, sub, provider, ans, job, failed, outside, paid,
                   history, bounds>>

(* The loop leaves the tasks of T, for this round.                         *)
Leave(w, T) ==
    /\ mem' = [mem EXCEPT ![w] =
                 [t \in Tasks |-> IF t \in T THEN NoRow ELSE mem[w][t]]]
    /\ ans' = [ans EXCEPT ![w] =
                 [t \in Tasks |-> IF t \in T THEN "none" ELSE ans[w][t]]]
    /\ job' = [job EXCEPT ![w] = Idle]

Batch(w, k) == {t \in Held(w) : kind[t] = k}

(* A loop that is not at a task starts with the tasks of a channel.         *)
Starts(w, k) ==
    /\ job[w] = Idle
    /\ \A t \in Tasks : ans[w][t] = "none"
    /\ Batch(w, k) # {}

BulkFailLogged(w, k) ==
    /\ Starts(w, k) /\ k \in gone
    /\ Leave(w, Batch(w, k))
    /\ UNCHANGED <<kind, ids, sub, row, provider, failed, outside, paid,
                   history, bounds>>

(* The channel is gone: its tasks fail, and nothing is refunded.            *)
BulkFail(w, k) ==
    /\ Starts(w, k) /\ k \in gone
    /\ row' = [t \in Tasks |-> IF t \in Batch(w, k)
                                 THEN [row[t] EXCEPT !.state = "failure"]
                                 ELSE row[t]]
    /\ spoiled' = spoiled \cup Batch(w, k)
    /\ Leave(w, Batch(w, k))
    /\ UNCHANGED <<kind, ids, sub, provider, failed, outside, paid, refunds,
                   opened, relost, bounds>>

(* Songs and pictures are asked for together, and what the provider does   *)
(* not know is not in its answer; videos are asked for one by one.         *)
Known(w, k) == {t \in Batch(w, k) : up[t] # "lost"}

Ask(w, k) ==
    /\ Starts(w, k) /\ k \notin gone
    /\ \E a \in [Known(w, k) -> States \cup {"ask"}] :
         /\ \A t \in Known(w, k) :
               a[t] \in IF k \in Videos THEN {"ask"} ELSE Answers(t)
         /\ ans' = [ans EXCEPT ![w] =
                      [t \in Tasks |-> IF t \in Known(w, k)
                                         THEN a[t] ELSE "none"]]
    /\ mem' = [mem EXCEPT ![w] =
                 [t \in Tasks |-> IF t \in Batch(w, k) \ Known(w, k)
                                    THEN NoRow ELSE mem[w][t]]]
    /\ failed' = [failed EXCEPT ![w] = FALSE]
    /\ UNCHANGED <<kind, ids, sub, row, provider, job, outside, paid, history,
                   bounds>>

(* The request fails, or its answer cannot be read.                        *)
AskFails(w, k) ==
    /\ k \notin Videos /\ Starts(w, k) /\ k \notin gone /\ Fault
    /\ Leave(w, Batch(w, k))
    /\ UNCHANGED <<kind, ids, sub, row, provider, failed, outside, paid,
                   history, outsides>>

VideoFails(w, t) ==
    /\ job[w] = Idle /\ ans[w][t] = "ask" /\ Fault
    /\ Leave(w, {t})
    /\ UNCHANGED <<kind, ids, sub, row, provider, failed, outside, paid,
                   history, outsides>>

(* The quota of a task with the answer a is to be refunded.                 *)
Due(w, t, a) == a = "failure" /\ mem[w][t].quota # 0

(* The answer a is written into the row in memory; next is what follows,    *)
(* and refund whether the task is refunded before or after it is saved.     *)
Begin(w, t, a, next, refund) ==
    /\ mem' = [mem EXCEPT ![w][t].state = a]
    /\ job' = [job EXCEPT ![w] = [task |-> {t}, step |-> next, refund |-> refund]]

(* updateVideoSingleTask, up to the bill for the tokens.                    *)
Video(w, t) ==
    /\ job[w] = Idle /\ ans[w][t] = "ask"
    /\ \E a \in Answers(t) :
         Begin(w, t, a, IF a = "success" /\ cost[t] \notin {0, mem[w][t].quota}
                          THEN "bill" ELSE "save", Due(w, t, a))
    /\ UNCHANGED <<kind, ids, sub, row, provider, ans, failed, outside, paid,
                   history, bounds>>

BillUnrecorded(w, t) ==
    /\ job[w].task = {t} /\ job[w].step = "bill"
    /\ paid' = [paid EXCEPT ![t] = @ + cost[t] - mem[w][t].quota]
    /\ job' = [job EXCEPT ![w].step = "save"]
    /\ UNCHANGED <<kind, ids, sub, row, provider, mem, ans, failed, outside,
                   history, bounds>>

Bill(w, t) ==
    /\ job[w].task = {t} /\ job[w].step = "bill"
    /\ paid' = [paid EXCEPT ![t] = @ + cost[t] - mem[w][t].quota]
    /\ mem' = [mem EXCEPT ![w][t].quota = cost[t]]
    /\ job' = [job EXCEPT ![w].step = "save"]
    /\ UNCHANGED <<kind, ids, sub, row, provider, ans, failed, outside,
                   history, bounds>>

BillFails(w, t) ==
    /\ job[w].task = {t} /\ job[w].step = "bill" /\ Fault
    /\ job' = [job EXCEPT ![w].step = "save"]
    /\ UNCHANGED <<kind, ids, sub, row, provider, mem, ans, failed, outside,
                   paid, history, outsides>>

(* One item of updateSunoTaskAll: the refund comes first, and is left out   *)
(* when the update of the item before has failed.                           *)
Song(w, t) ==
    /\ kind[t] = "suno" /\ job[w] = Idle /\ ans[w][t] # "none"
    /\ LET refund == Due(w, t, ans[w][t]) /\ ~failed[w] IN
         Begin(w, t, ans[w][t], IF refund THEN "refund" ELSE "save", refund)
    /\ spoiled' = IF failed[w] THEN spoiled \cup {t} ELSE spoiled
    /\ UNCHANGED <<kind, ids, sub, row, provider, ans, failed, outside, paid,
                   refunds, opened, relost, bounds>>

(* One item of UpdateMidjourneyTaskBulk.                                    *)
Picture(w, t) ==
    /\ kind[t] \in Pictures /\ job[w] = Idle /\ ans[w][t] # "none"
    /\ Begin(w, t, ans[w][t], "save", Due(w, t, ans[w][t]))
    /\ UNCHANGED <<kind, ids, sub, row, provider, ans, failed, outside, paid,
                   history, bounds>>

(* checkTaskNeedUpdate, checkMjTaskNeedUpdate: nothing is new.              *)
Same(w, t) ==
    /\ job[w] = Idle /\ ans[w][t] = "running"
    /\ Leave(w, {t})
    /\ UNCHANGED <<kind, ids, sub, row, provider, failed, outside, paid,
                   history, bounds>>

Save(w, t) ==
    /\ job[w].task = {t} /\ job[w].step = "save"
    /\ Write(t, mem[w][t])
    /\ failed' = [failed EXCEPT ![w] = FALSE]
    /\ IF job[w].refund /\ kind[t] # "suno"
         THEN job' = [job EXCEPT ![w].step = "refund"] /\ UNCHANGED <<mem, ans>>
         ELSE Leave(w, {t})
    /\ UNCHANGED <<kind, ids, sub, provider, outside, paid, refunds, spoiled,
                   relost, bounds>>

(* A song that is about to be saved and has had its refund.                 *)
Refunded(w, t) ==
    kind[t] = "suno" /\ job[w].task = {t} /\ job[w].step = "save" /\ job[w].refund

SaveFailsRefunds(w, t) ==
    /\ job[w].task = {t} /\ job[w].step = "save" /\ Fault
    /\ failed' = [failed EXCEPT ![w] = kind[t] = "suno"]
    /\ IF job[w].refund /\ kind[t] # "suno"
         THEN job' = [job EXCEPT ![w].step = "refund"] /\ UNCHANGED <<mem, ans>>
         ELSE Leave(w, {t})
    /\ spoiled' = spoiled \cup {t}
    /\ relost' = [relost EXCEPT ![t] = IF Refunded(w, t) THEN @ + 1 ELSE @]
    /\ UNCHANGED <<kind, ids, sub, row, provider, outside, paid, refunds,
                   opened, outsides>>

(* No refund follows; a song may have had its refund.                       *)
SaveFails(w, t) ==
    /\ job[w].task = {t} /\ job[w].step = "save" /\ Fault
    /\ failed' = [failed EXCEPT ![w] = kind[t] = "suno"]
    /\ Leave(w, {t})
    /\ spoiled' = spoiled \cup {t}
    /\ relost' = [relost EXCEPT ![t] = IF Refunded(w, t) THEN @ + 1 ELSE @]
    /\ UNCHANGED <<kind, ids, sub, row, provider, outside, paid, refunds,
                   opened, outsides>>

(* A song is saved after its refund, whether that was done or not, the     *)
(* others before.                                                          *)
AfterRefund(w, t, done) ==
    IF kind[t] = "suno"
      THEN /\ job' = [job EXCEPT ![w] = [task |-> {t}, step |-> "save",
                                         refund |-> done]]
           /\ UNCHANGED <<mem, ans>>
      ELSE Leave(w, {t})

Refund(w, t) ==
    /\ job[w].task = {t} /\ job[w].step = "refund"
    /\ paid' = [paid EXCEPT ![t] = @ - mem[w][t].quota]
    /\ refunds' = [refunds EXCEPT ![t] = @ + 1]
    /\ AfterRefund(w, t, TRUE)
    /\ UNCHANGED <<kind, ids, sub, row, provider, failed, outside, opened,
                   spoiled, relost, bounds>>

RefundFails(w, t) ==
    /\ job[w].task = {t} /\ job[w].step = "refund" /\ Fault
    /\ spoiled' = spoiled \cup {t}
    /\ AfterRefund(w, t, FALSE)
    /\ UNCHANGED <<kind, ids, sub, row, provider, failed, outside, paid,
                   refunds, opened, relost, outsides>>

-----------------------------------------------------------------------------
(* The other writers read the row, change its state, and save it.          *)

Outside(t, a) ==
    /\ row[t] # NoRow /\ outside[t] = NoRow
    /\ outsides < MaxOutside /\ outsides' = outsides + 1
    /\ outside' = [outside EXCEPT ![t] = [row[t] EXCEPT !.state = a]]
    /\ UNCHANGED <<kind, ids, sub, row, provider, loops, paid, history,
                   faults>>

(* An answer without a status leaves the state as it was.                  *)
UserFetch(t) ==
    /\ kind[t] = "gemini" /\ up[t] \notin {"none", "lost"}
    /\ \E a \in {up[t], row[t].state} : Outside(t, a)

(* Notifications may come late.                                            *)
Notify(t) ==
    /\ kind[t] \in Pictures /\ up[t] \notin {"none", "lost"}
    /\ \E a \in {"running", up[t]} : Outside(t, a)

OutsideSave(t) ==
    /\ outside[t] # NoRow
    /\ Write(t, outside[t])
    /\ outside' = [outside EXCEPT ![t] = NoRow]
    /\ spoiled' = spoiled \cup {t}
    /\ UNCHANGED <<kind, ids, sub, provider, loops, paid, refunds, relost,
                   bounds>>

-----------------------------------------------------------------------------
(* A node stops, and its loops start again; S are the requests it served.  *)
Crash(n, S) ==
    LET mine == {n} \X {"task", "mj"}
        busy == {t \in Tasks : \E w \in mine : job[w].task = {t}}
        cut == {t \in S : sub[t] \in {"accepted", "rejected", "inserted"}}
    IN
    /\ Fault
    /\ sub' = [t \in Tasks |-> IF t \in cut THEN "ended" ELSE sub[t]]
    /\ outside' = [t \in Tasks |-> IF t \in S THEN NoRow ELSE outside[t]]
    /\ mem' = [w \in Loops |-> IF w \in mine THEN [t \in Tasks |-> NoRow]
                                             ELSE mem[w]]
    /\ ans' = [w \in Loops |-> IF w \in mine THEN [t \in Tasks |-> "none"]
                                             ELSE ans[w]]
    /\ job' = [w \in Loops |-> IF w \in mine THEN Idle ELSE job[w]]
    /\ failed' = [w \in Loops |-> IF w \in mine THEN FALSE ELSE failed[w]]
    /\ spoiled' = spoiled \cup busy \cup cut
    /\ relost' = [t \in Tasks |-> IF \E w \in mine : Refunded(w, t)
                                    THEN relost[t] + 1 ELSE relost[t]]
    /\ UNCHANGED <<kind, ids, row, provider, paid, refunds, opened, outsides>>

-----------------------------------------------------------------------------
Submission(t) == Insert(t) \/ Charge(t)

LoopStep(w) ==
    \/ Poll(w)
    \/ \E k \in Kinds : BulkFail(w, k) \/ Ask(w, k)
    \/ \E t \in Tasks :
         \/ Video(w, t) \/ Song(w, t) \/ Picture(w, t)
         \/ Bill(w, t) \/ Save(w, t) \/ Refund(w, t)

Failures(w) ==
    \/ \E k \in Kinds : AskFails(w, k)
    \/ \E t \in Tasks :
         \/ VideoFails(w, t) \/ BillFails(w, t)
         \/ SaveFails(w, t) \/ RefundFails(w, t)

Next ==
    \/ \E t \in Tasks :
         \/ Accept(t) \/ Reject(t) \/ Submission(t)
         \/ InsertFails(t) \/ ChargeFails(t) \/ Finish(t)
         \/ UserFetch(t) \/ Notify(t) \/ OutsideSave(t)
    \/ \E k \in Kinds : DeleteChannel(k)
    \/ \E w \in Loops : LoopStep(w) \/ Failures(w)
    \/ \E w \in Loops, t \in Tasks : Same(w, t)
    \/ \E n \in Nodes, S \in SUBSET Tasks : Crash(n, S)

(* Handlers run to their end, the loops go on, and a provider ends what it *)
(* has accepted.                                                           *)
Fairness ==
    /\ \A t \in Tasks : /\ WF_vars(Submission(t)) /\ WF_vars(OutsideSave(t))
                        /\ WF_vars(Finish(t))
    /\ \A w \in Loops : WF_vars(LoopStep(w))

Spec == Init /\ [][Next]_vars /\ Fairness

-----------------------------------------------------------------------------
(* The types of the variables.                                             *)
TypeOK ==
    /\ kind \in [Tasks -> Kinds]
    /\ limit \in Nat \ {0} /\ before \in [Tasks -> SUBSET Tasks]
    /\ sub \in [Tasks -> {"new", "accepted", "rejected", "inserted", "charged",
                           "ended"}]
    /\ row \in [Tasks -> Row] /\ outside \in [Tasks -> Row]
    /\ up \in [Tasks -> States \cup {"lost"}] /\ cost \in [Tasks -> Costs \cup {0}]
    /\ gone \subseteq Kinds /\ off \subseteq Kinds
    /\ mem \in [Loops -> [Tasks -> Row]]
    /\ ans \in [Loops -> [Tasks -> States \cup {"ask"}]]
    /\ job \in [Loops -> [task: {{}} \cup {{t} : t \in Tasks},
                          step: {"idle", "bill", "save", "refund"},
                          refund: BOOLEAN]]
    /\ failed \in [Loops -> BOOLEAN]
    /\ paid \in [Tasks -> Int] /\ refunds \in [Tasks -> Nat]
    /\ opened \in [Tasks -> Nat] /\ relost \in [Tasks -> Nat]
    /\ spoiled \subseteq Tasks
    /\ faults \in 0..MaxFaults /\ outsides \in 0..MaxOutside

(* With one master node a task is refunded at most once for each time its  *)
(* row became unfinished.  The loops judge by the row they have read, so   *)
(* this rests on the order of refund and update, and on giving up the      *)
(* refund when the update fails; a song, which is refunded first, may be   *)
(* refunded again for every update that was then lost.                     *)
RefundPerOpening == \A t \in Tasks : refunds[t] <= opened[t] + relost[t]

Quiet(t) ==
    /\ sub[t] = "charged" /\ outside[t] = NoRow
    /\ \A w \in Loops : job[w].task # {t}

(* A task the user was charged for, and that neither a fault nor another   *)
(* writer has met, has cost what its row says, or nothing if it failed,    *)
(* whenever no loop is at work on it: the charge at the end of the         *)
(* submission, the bill for the tokens and the refund together come out    *)
(* right also when a loop sees the row before the submission has charged.  *)
SettledTask ==
    \A t \in Tasks \ spoiled :
       Quiet(t) => paid[t] = IF row[t].state = "failure" THEN 0 ELSE row[t].quota

(* Every row of a task its provider knows is finished in the end, whatever *)
(* requests, nodes and updates fail on the way.                            *)
TasksFinish ==
    \A t \in Tasks :
       Unfinished(t) /\ up[t] \notin {"none", "lost"} ~> ~Unfinished(t)

(* A video is refunded once: task_video.go keeps the status it has read    *)
(* "to prevent repeated refunds".                                          *)
RefundedOnce == \A t \in Tasks : kind[t] \in Videos => refunds[t] <= 1
=============================================================================
