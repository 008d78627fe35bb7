------------------------- MODULE TaskBillingProofs -------------------------
(***************************************************************************)
(* Proofs about TaskBilling, for any tasks, prices, faults and number of   *)
(* outside writes, with one master node.                                   *)
(*                                                                         *)
(* RefundPerOpening is not inductive: a loop that has read an unfinished   *)
(* row may refund it later, whatever has become of the row.  Pot counts    *)
(* the refunds that may still come without the row being opened again, and *)
(* PotInv says that there is always room for them.                         *)
(*                                                                         *)
(* SettledTask speaks of the moments when no loop is at the task.  PriceInv*)
(* follows the balance through the steps of the loop in between, and adds  *)
(* what the submission has still to charge.                                *)
(***************************************************************************)
EXTENDS TaskBilling, TLAPS

\* The only master node.
Home == CHOOSE n : Nodes = {n}
OneNode == Nodes = {Home}

\* The loop that deals with a task.
Own(t) == <<Home, LoopOf(kind[t])>>

\* The row is one that a loop will read.
Readable(t) == IF row[t].state = "running" THEN 1 ELSE 0

\* The task is refunded next, after its row has been saved.
Owed(t) == LET w == Own(t) IN
    job[w].task = {t} /\ kind[t] # "suno" /\ job[w].step = "refund"

\* The song has had its refund, and its row is saved next.
Closing(t) == LET w == Own(t) IN
    job[w].task = {t} /\ kind[t] = "suno" /\ job[w].step = "save" /\ job[w].refund

\* The refunds that may come before the row is opened again.
Pot(t) ==
    IF mem[Own(t)][t] = NoRow THEN Readable(t)
    ELSE IF Owed(t) THEN 1 + Readable(t)
    ELSE IF Closing(t) THEN 0 ELSE 1

PotInv(t) == refunds[t] + Pot(t) <= opened[t] + relost[t]

\* What a row says that the task has cost.
Value(r) == IF r.state = "failure" THEN 0 ELSE r.quota

\* What the user will have paid when the submission has charged.
Balance(t) == paid[t] + (IF sub[t] = "inserted" THEN Price ELSE 0)

\* A task that is, or will be, charged, and that neither a fault nor another
\* writer has met.
Watched(t) == t \notin spoiled /\ sub[t] \in {"inserted", "charged"}

\* While no loop is at it, it costs what its row says, and the copy of the row
\* that a loop has read is not old.
Resting(t) ==
    /\ Balance(t) = Value(row[t])
    /\ mem[Own(t)][t] # NoRow => mem[Own(t)][t] = row[t] /\ row[t].state = "running"

\* While its loop is at it, what is still to be billed or refunded follows from
\* the row in memory and from the step that comes next.
Working(t) == LET j == job[Own(t)]  m == mem[Own(t)][t] IN
    /\ j.step = "bill" => Balance(t) = m.quota /\ m.state = "success"
    /\ j.step = "save" => Balance(t) = IF j.refund
                                         THEN IF kind[t] = "suno" THEN 0 ELSE m.quota
                                         ELSE Value(m)
    /\ j.step = "refund" => Balance(t) = m.quota /\ (kind[t] # "suno" => row[t] = m)

PriceInv(t) ==
    Watched(t) => IF job[Own(t)].task = {t} THEN Working(t) ELSE Resting(t)

\* Before its row is inserted a task has cost nothing, and one that will be
\* charged has an id at its provider.
EarlyInv(t) ==
    /\ sub[t] \in {"new", "accepted", "rejected"} => paid[t] = 0
    /\ sub[t] \in {"accepted", "inserted", "charged"} => up[t] # "none"

\* What a loop holds belongs to it, and its job agrees with what it holds.
LoopInv(w, t) ==
    /\ mem[w][t] # NoRow => w = Own(t) /\ mem[w][t].state # "none" /\ up[t] # "none"
    /\ ans[w][t] # "none" => /\ mem[w][t] # NoRow /\ up[t] # "lost"
                             /\ ans[w][t] = "ask" <=> kind[t] \in Videos
    /\ job[w].task = {t} =>
          /\ mem[w][t] # NoRow
          /\ job[w].step = "bill" => ~job[w].refund
          /\ job[w].step = "refund" => job[w].refund
          /\ job[w].refund => mem[w][t].state = "failure"

\* Nobody knows a task before its row is inserted, nobody outside knows songs.
TaskInv(t) ==
    /\ sub[t] \in {"new", "accepted", "rejected"} =>
          /\ row[t] = NoRow /\ outside[t] = NoRow
          /\ \A w \in Loops : mem[w][t] = NoRow
    /\ kind[t] = "suno" => outside[t] = NoRow

Structure == (\A t \in Tasks : TaskInv(t)) /\ (\A w \in Loops, t \in Tasks : LoopInv(w, t))
IInv == /\ TypeOK /\ Structure
        /\ \A t \in Tasks : PotInv(t) /\ EarlyInv(t) /\ PriceInv(t)

(***************************************************************************)
(* Type correctness                                                        *)
(***************************************************************************)
Job == [task: {{}} \cup {{t} : t \in Tasks},
        step: {"idle", "bill", "save", "refund"}, refund: BOOLEAN]

\* The constants and the records of the model.
LEMMA Constants ==
  /\ Price \in Nat /\ Price # 0 /\ Costs \subseteq Nat /\ MaxFaults \in Nat
  /\ MaxOutside \in Nat /\ NoRow \in Row /\ Idle \in Job
  BY PricesAssumption, BoundsAssumption DEF NoRow, Row, States, Idle, Job

LEMMA CostsAreNumbers ==
  ASSUME NEW c \in Costs \cup {0} PROVE c \in Nat
  BY PricesAssumption

\* A row keeps its type when its state or its quota changes.
LEMMA RowChanges ==
  ASSUME NEW r \in Row, NEW a \in States, NEW q \in Nat
  PROVE  /\ [r EXCEPT !.state = a] \in Row
         /\ [r EXCEPT !.state = a].state = a /\ [r EXCEPT !.state = a].quota = r.quota
         /\ [r EXCEPT !.quota = q] \in Row
         /\ [r EXCEPT !.quota = q].state = r.state /\ [r EXCEPT !.quota = q].quota = q
  BY DEF Row

LEMMA FailedRowState ==
  ASSUME NEW r \in Row PROVE [r EXCEPT !.state = "failure"].state = "failure"
  BY DEF Row

\* A job keeps its type when its step changes.
LEMMA JobChanges ==
  ASSUME NEW j \in Job, NEW s \in {"idle", "bill", "save", "refund"}
  PROVE  /\ [j EXCEPT !.step = s] \in Job
         /\ [j EXCEPT !.step = s].task = j.task
         /\ [j EXCEPT !.step = s].step = s
         /\ [j EXCEPT !.step = s].refund = j.refund
  BY DEF Job

\* The types of the loops' variables.
LoopTypes ==
    /\ mem \in [Loops -> [Tasks -> Row]]
    /\ ans \in [Loops -> [Tasks -> States \cup {"ask"}]]
    /\ job \in [Loops -> Job]
    /\ failed \in [Loops -> BOOLEAN]

\* What Leave makes of the loop.
LEMMA LeaveFacts ==
  ASSUME LoopTypes, NEW w \in Loops, NEW T, Leave(w, T)
  PROVE  /\ mem' \in [Loops -> [Tasks -> Row]]
         /\ ans' \in [Loops -> [Tasks -> States \cup {"ask"}]]
         /\ job' \in [Loops -> Job]
         /\ \A v \in Loops : v # w => /\ mem'[v] = mem[v] /\ ans'[v] = ans[v]
                                      /\ job'[v] = job[v]
         /\ job'[w] = Idle
         /\ \A t \in Tasks : /\ mem'[w][t] = IF t \in T THEN NoRow ELSE mem[w][t]
                             /\ ans'[w][t] = IF t \in T THEN "none" ELSE ans[w][t]
  BY Constants DEF Leave, LoopTypes, States

\* What Begin makes of the loop.
LEMMA BeginFacts ==
  ASSUME LoopTypes, NEW w \in Loops, NEW t \in Tasks, NEW a \in States,
         NEW s \in {"idle", "bill", "save", "refund"}, NEW b \in BOOLEAN,
         Begin(w, t, a, s, b)
  PROVE  /\ mem' \in [Loops -> [Tasks -> Row]] /\ job' \in [Loops -> Job]
         /\ \A v \in Loops : v # w => mem'[v] = mem[v] /\ job'[v] = job[v]
         /\ \A u \in Tasks : u # t => mem'[w][u] = mem[w][u]
         /\ mem'[w][t].state = a /\ mem'[w][t].quota = mem[w][t].quota
         /\ job'[w].task = {t} /\ job'[w].step = s /\ job'[w].refund = b
  <1>1. mem[w][t] \in Row BY DEF LoopTypes
  <1>2. /\ [mem[w][t] EXCEPT !.state = a] \in Row
        /\ [mem[w][t] EXCEPT !.state = a].state = a
        /\ [mem[w][t] EXCEPT !.state = a].quota = mem[w][t].quota
    BY <1>1, RowChanges DEF Row
  <1>3. mem' = [mem EXCEPT ![w][t] = [mem[w][t] EXCEPT !.state = a]]
    BY DEF Begin, LoopTypes
  <1>4. /\ mem' \in [Loops -> [Tasks -> Row]]
        /\ \A v \in Loops : v # w => mem'[v] = mem[v]
        /\ \A u \in Tasks : u # t => mem'[w][u] = mem[w][u]
        /\ mem'[w][t] = [mem[w][t] EXCEPT !.state = a]
    BY <1>2, <1>3 DEF LoopTypes
  <1>5. job' = [job EXCEPT ![w] = [task |-> {t}, step |-> s, refund |-> b]]
    BY DEF Begin
  <1>6. [task |-> {t}, step |-> s, refund |-> b] \in Job BY DEF Job
  <1>7. job' \in [Loops -> Job] /\ \A v \in Loops : v # w => job'[v] = job[v]
    BY <1>5, <1>6 DEF LoopTypes
  <1>8. job'[w] = [task |-> {t}, step |-> s, refund |-> b] BY <1>5 DEF LoopTypes
  <1> QED BY <1>2, <1>4, <1>7, <1>8

\* What AfterRefund makes of a song.
LEMMA AfterRefundFacts ==
  ASSUME LoopTypes, NEW w \in Loops, NEW t \in Tasks, kind[t] = "suno",
         NEW b \in BOOLEAN, AfterRefund(w, t, b)
  PROVE  /\ mem' = mem /\ ans' = ans /\ job' \in [Loops -> Job]
         /\ \A v \in Loops : v # w => job'[v] = job[v]
         /\ job'[w].task = {t} /\ job'[w].step = "save" /\ job'[w].refund = b
  <1>1. /\ job' = [job EXCEPT ![w] = [task |-> {t}, step |-> "save", refund |-> b]]
        /\ mem' = mem /\ ans' = ans
    BY DEF AfterRefund
  <1>2. [task |-> {t}, step |-> "save", refund |-> b] \in Job BY DEF Job
  <1> QED BY <1>1, <1>2 DEF LoopTypes

LEMMA TypesOfLoops ==
  ASSUME TypeOK PROVE LoopTypes
  BY DEF TypeOK, LoopTypes, Job

\* The variables that are not the loops'.
OtherTypes ==
    /\ kind \in [Tasks -> Kinds]
    /\ limit \in Nat \ {0} /\ before \in [Tasks -> SUBSET Tasks]
    /\ sub \in [Tasks -> {"new", "accepted", "rejected", "inserted", "charged",
                           "ended"}]
    /\ row \in [Tasks -> Row] /\ outside \in [Tasks -> Row]
    /\ up \in [Tasks -> States \cup {"lost"}] /\ cost \in [Tasks -> Costs \cup {0}]
    /\ gone \subseteq Kinds /\ off \subseteq Kinds
    /\ paid \in [Tasks -> Int] /\ refunds \in [Tasks -> Nat]
    /\ opened \in [Tasks -> Nat] /\ relost \in [Tasks -> Nat]
    /\ spoiled \subseteq Tasks
    /\ faults \in 0..MaxFaults /\ outsides \in 0..MaxOutside

\* A row that is marked as failed is a row.
LEMMA FailedRowsTyped ==
  ASSUME OtherTypes PROVE \A t \in Tasks : [row[t] EXCEPT !.state = "failure"] \in Row
  <1>1. ASSUME NEW t \in Tasks PROVE [row[t] EXCEPT !.state = "failure"] \in Row
    <2>1. row[t] \in Row BY DEF OtherTypes
    <2>2. "failure" \in States BY DEF States
    <2>3. 0 \in Nat OBVIOUS
    <2> QED BY <2>1, <2>2, <2>3, RowChanges
  <1> QED BY <1>1

LEMMA TypeParts == TypeOK <=> OtherTypes /\ LoopTypes
  BY DEF TypeOK, OtherTypes, LoopTypes, Job

LEMMA TypePartsNext == TypeOK' <=> OtherTypes' /\ LoopTypes'
  BY DEF TypeOK, OtherTypes, LoopTypes, Job

LEMMA TypeInit == ASSUME Init PROVE TypeOK
  <1>1. PICK m \in Mixes : kind = m.kinds /\ limit = m.limit BY DEF Init
  <1>2. kind \in [Tasks -> Kinds] /\ limit \in Nat \ {0} BY <1>1, KindsAssumption
  <1>3. OtherTypes BY <1>2, Constants DEF Init, OtherTypes, Row, NoRow, States
  <1>4. LoopTypes BY Constants DEF Init, LoopTypes, States
  <1> QED BY <1>3, <1>4, TypeParts

\* Writing a row keeps its type.
LEMMA WriteTypes ==
  ASSUME OtherTypes, NEW t \in Tasks, NEW r \in Row, Write(t, r)
  PROVE  /\ row' \in [Tasks -> Row] /\ opened' \in [Tasks -> Nat]
         /\ \A u \in Tasks : u # t => row'[u] = row[u] /\ opened'[u] = opened[u]
         /\ row'[t] = r
         /\ opened'[t] = opened[t] + (IF r.state = "running" /\ row[t].state # "running"
                                       THEN 1 ELSE 0)
  BY DEF OtherTypes, Write, Unfinished

LEMMA TypeSubmission ==
  ASSUME TypeOK, NEW t \in Tasks,
         \/ Accept(t) \/ Reject(t) \/ Submission(t) \/ InsertFails(t) \/ ChargeFails(t)
         \/ Finish(t) \/ UserFetch(t) \/ Notify(t) \/ OutsideSave(t)
  PROVE  TypeOK'
  <1> USE TypeParts, TypePartsNext DEF ids
  <1>a. OtherTypes /\ LoopTypes OBVIOUS
  <1>b. UNCHANGED loops => LoopTypes' BY <1>a DEF loops, LoopTypes
  <1>1. CASE Accept(t)
    <2>1. OtherTypes' BY <1>1, <1>a DEF Accept, OtherTypes, history, bounds, States
    <2> QED BY <2>1, <1>1, <1>b DEF Accept
  <1>2. CASE Reject(t)
    <2>1. OtherTypes' BY <1>2, <1>a DEF Reject, OtherTypes, history, bounds, States
    <2> QED BY <2>1, <1>2, <1>b DEF Reject
  <1>3. CASE Insert(t)
    <2>1. [state |-> "running", quota |-> Price] \in Row BY Constants DEF Row, States
    <2>2. row' \in [Tasks -> Row] /\ opened' \in [Tasks -> Nat]
      BY <1>3, <1>a, <2>1, WriteTypes DEF Insert
    <2>3. before' \in [Tasks -> SUBSET Tasks] BY <1>3, <1>a DEF Insert, OtherTypes, Older
    <2>4. OtherTypes' BY <1>3, <1>a, <2>2, <2>3 DEF Insert, OtherTypes, provider, bounds
    <2> QED BY <2>4, <1>3, <1>b DEF Insert
  <1>4. CASE Charge(t)
    <2>1. OtherTypes' BY <1>4, <1>a, Constants DEF Charge, OtherTypes, provider, history, bounds
    <2> QED BY <2>1, <1>4, <1>b DEF Charge
  <1>5. CASE InsertFails(t)
    <2>1. OtherTypes' BY <1>5, <1>a, Constants DEF InsertFails, Fault, OtherTypes, provider
    <2> QED BY <2>1, <1>5, <1>b DEF InsertFails
  <1>6. CASE ChargeFails(t)
    <2>1. OtherTypes' BY <1>6, <1>a, Constants DEF ChargeFails, Fault, OtherTypes, provider
    <2> QED BY <2>1, <1>6, <1>b DEF ChargeFails
  <1>7. CASE Finish(t)
    <2>1. OtherTypes' BY <1>7, <1>a DEF Finish, OtherTypes, history, bounds, States
    <2> QED BY <2>1, <1>7, <1>b DEF Finish
  <1>8. ASSUME NEW a \in States, Outside(t, a) PROVE TypeOK'
    <2>1. [row[t] EXCEPT !.state = a] \in Row BY <1>8, <1>a, RowChanges DEF OtherTypes, Row
    <2>2. OtherTypes'
      BY <2>1, <1>8, <1>a, Constants DEF Outside, OtherTypes, provider, history
    <2> QED BY <2>2, <1>8, <1>b DEF Outside
  <1>9. CASE UserFetch(t)
    <2>1. row[t].state \in States BY <1>a DEF OtherTypes, Row
    <2>2. PICK a \in {up[t], row[t].state} : Outside(t, a) BY <1>9 DEF UserFetch
    <2>3. a \in States BY <2>1, <1>9, <1>a DEF UserFetch, OtherTypes, States
    <2> QED BY <2>2, <2>3, <1>8
  <1>10. CASE Notify(t)
    <2>1. PICK a \in {"running", up[t]} : Outside(t, a) BY <1>10 DEF Notify
    <2>2. a \in States BY <1>10, <1>a DEF Notify, OtherTypes, States
    <2> QED BY <2>1, <2>2, <1>8
  <1>11. CASE OutsideSave(t)
    <2>1. outside[t] \in Row BY <1>a DEF OtherTypes
    <2>2. row' \in [Tasks -> Row] /\ opened' \in [Tasks -> Nat]
      BY <1>11, <1>a, <2>1, WriteTypes DEF OutsideSave
    <2>3. OtherTypes'
      BY <1>11, <1>a, <2>2, Constants DEF OutsideSave, OtherTypes, provider, bounds
    <2> QED BY <2>3, <1>11, <1>b DEF OutsideSave
  <1> QED BY <1>1, <1>2, <1>3, <1>4, <1>5, <1>6, <1>7, <1>9, <1>10, <1>11 DEF Submission

\* The answers the server acts on are states, when the provider knows the task.
LEMMA AnswersAreStates ==
  ASSUME OtherTypes, NEW t \in Tasks, up[t] # "lost"
  PROVE  Answers(t) \subseteq States
  BY DEF OtherTypes, Answers, States

\* Poll fails open rows without an id, and reads other open rows of its loop.
LEMMA PollFacts ==
  ASSUME LoopTypes, OtherTypes, NEW w \in Loops, Poll(w), NEW u \in Tasks
  PROVE  /\ \/ row'[u] = row[u]
            \/ /\ row[u].state = "running" /\ LoopOf(kind[u]) = w[2] /\ up[u] = "none"
               /\ row'[u] = [row[u] EXCEPT !.state = "failure"]
         /\ \/ mem'[w][u] = NoRow
            \/ /\ row[u].state = "running" /\ LoopOf(kind[u]) = w[2] /\ up[u] # "none"
               /\ mem'[w][u] = row[u]
  <1> DEFINE open == {t \in Tasks : Unfinished(t) /\ LoopOf(kind[t]) = w[2]}
             all == IF w[2] = "task" THEN Oldest(open) ELSE open
             nullTaskIds == {t \in all : up[t] = "none"}
  <1>1. all \subseteq open BY DEF Oldest
  <1>2. /\ row' = [t \in Tasks |-> IF t \in nullTaskIds
                                     THEN [row[t] EXCEPT !.state = "failure"] ELSE row[t]]
        /\ mem' = [mem EXCEPT ![w] =
                     [t \in Tasks |-> IF t \in all \ nullTaskIds THEN row[t] ELSE NoRow]]
    BY DEF Poll
  <1> HIDE DEF all
  <1>3. u \in all => row[u].state = "running" /\ LoopOf(kind[u]) = w[2]
    BY <1>1 DEF Unfinished
  <1>4. mem'[w] = [t \in Tasks |-> IF t \in all \ nullTaskIds THEN row[t] ELSE NoRow]
    BY <1>2 DEF LoopTypes
  <1> QED BY <1>2, <1>3, <1>4

LEMMA TypeLoop ==
  ASSUME TypeOK, Structure, NEW w \in Loops, LoopStep(w) \/ Failures(w) \/ \E t \in Tasks : Same(w, t)
  PROVE  TypeOK'
  <1> USE TypeParts, TypePartsNext DEF ids
  <1>a. OtherTypes /\ LoopTypes OBVIOUS
  <1>b. ASSUME UNCHANGED <<kind, ids, sub, row, provider, outside, paid, history, bounds>>
        PROVE  OtherTypes'
    BY <1>a, <1>b DEF OtherTypes, provider, history, bounds
  <1>c. ASSUME Fault, spoiled' \subseteq Tasks, relost' \in [Tasks -> Nat],
               UNCHANGED <<kind, ids, sub, row, provider, outside, paid, refunds, opened, outsides>>
        PROVE  OtherTypes'
    BY <1>a, <1>c, Constants DEF OtherTypes, provider, Fault
  <1>1. CASE Poll(w)
    <2>1. OtherTypes'
      <3>1. \A t \in Tasks : [row[t] EXCEPT !.state = "failure"] \in Row
        BY <1>a, FailedRowsTyped
      <3>2. row' \in [Tasks -> Row] BY <3>1, <1>1, <1>a DEF Poll, OtherTypes
      <3> QED BY <3>2, <1>1, <1>a DEF Poll, OtherTypes, provider, history, bounds
    <2>2. LoopTypes' BY <1>1, <1>a, Constants DEF Poll, LoopTypes, OtherTypes
    <2> QED BY <2>1, <2>2
  <1>2. ASSUME NEW k \in Kinds, BulkFail(w, k) PROVE TypeOK'
    <2>1. \A t \in Tasks : [row[t] EXCEPT !.state = "failure"] \in Row
      BY <1>a, FailedRowsTyped
    <2>2. row' \in [Tasks -> Row] BY <2>1, <1>2, <1>a DEF BulkFail, OtherTypes
    <2>3. spoiled' \subseteq Tasks BY <1>2, <1>a DEF BulkFail, OtherTypes, Batch, Held
    <2>4. OtherTypes' BY <2>2, <2>3, <1>2, <1>a DEF BulkFail, OtherTypes, provider, bounds
    <2>5. LoopTypes' BY <1>2, <1>a, LeaveFacts DEF BulkFail, LoopTypes
    <2> QED BY <2>4, <2>5
  <1>3. ASSUME NEW k \in Kinds, Ask(w, k) PROVE TypeOK'
    <2>1. OtherTypes' BY <1>3, <1>b DEF Ask
    <2>2. PICK a \in [Known(w, k) -> States \cup {"ask"}] :
             ans' = [ans EXCEPT ![w] =
                       [t \in Tasks |-> IF t \in Known(w, k) THEN a[t] ELSE "none"]]
      BY <1>3 DEF Ask
    <2>3. ans' \in [Loops -> [Tasks -> States \cup {"ask"}]]
      BY <2>2, <1>a DEF LoopTypes, States
    <2>4. LoopTypes' BY <2>3, <1>3, <1>a, Constants DEF Ask, LoopTypes
    <2> QED BY <2>1, <2>4
  <1>4. ASSUME NEW k \in Kinds, AskFails(w, k) PROVE TypeOK'
    <2>1. OtherTypes' BY <1>4, <1>c, <1>a DEF AskFails, history, OtherTypes
    <2>2. LoopTypes' BY <1>4, <1>a, LeaveFacts DEF AskFails, LoopTypes
    <2> QED BY <2>1, <2>2
  <1>5. ASSUME NEW t \in Tasks, VideoFails(w, t) \/ Same(w, t) PROVE TypeOK'
    <2>1. OtherTypes'
      <3>1. CASE VideoFails(w, t) BY <3>1, <1>c, <1>a DEF VideoFails, history, OtherTypes
      <3>2. CASE Same(w, t) BY <3>2, <1>b DEF Same
      <3> QED BY <3>1, <3>2, <1>5
    <2>2. LoopTypes' BY <1>5, <1>a, LeaveFacts DEF VideoFails, Same, LoopTypes
    <2> QED BY <2>1, <2>2
  <1>6. ASSUME NEW t \in Tasks, NEW a \in States,
               NEW n \in {"idle", "bill", "save", "refund"}, NEW b \in BOOLEAN,
               Begin(w, t, a, n, b), UNCHANGED <<ans, failed>>
        PROVE  LoopTypes'
    BY <1>6, <1>a, BeginFacts DEF LoopTypes
  <1>7. ASSUME NEW t \in Tasks, Video(w, t) PROVE TypeOK'
    <2>1. OtherTypes' BY <1>7, <1>b DEF Video
    <2>2. PICK a \in Answers(t) :
             Begin(w, t, a, IF a = "success" /\ cost[t] \notin {0, mem[w][t].quota}
                              THEN "bill" ELSE "save", Due(w, t, a))
      BY <1>7 DEF Video
    <2>3. up[t] # "lost" BY <1>7 DEF Video, Structure, LoopInv
    <2>4. a \in States BY <2>2, <2>3, <1>a, AnswersAreStates
    <2>5. Due(w, t, a) \in BOOLEAN BY DEF Due
    <2>6. LoopTypes' BY <1>6, <2>2, <2>4, <2>5, <1>7 DEF Video
    <2> QED BY <2>1, <2>6
  <1>8. ASSUME NEW t \in Tasks, Song(w, t) PROVE TypeOK'
    <2>1. OtherTypes'
      BY <1>8, <1>a DEF Song, OtherTypes, provider, bounds
    <2>2. ans[w][t] \in States
      BY <1>8, <1>a DEF Song, LoopTypes, Structure, LoopInv, Videos
    <2>3. PICK b \in BOOLEAN : b = (Due(w, t, ans[w][t]) /\ ~failed[w]) OBVIOUS
    <2>4. Begin(w, t, ans[w][t], IF b THEN "refund" ELSE "save", b)
      BY <2>3, <1>8 DEF Song
    <2>5. LoopTypes' BY <1>6, <2>2, <2>4, <1>8 DEF Song
    <2> QED BY <2>1, <2>5
  <1>9. ASSUME NEW t \in Tasks, Picture(w, t) PROVE TypeOK'
    <2>1. OtherTypes' BY <1>9, <1>b DEF Picture
    <2>2. ans[w][t] \in States
      BY <1>9, <1>a DEF Picture, LoopTypes, Structure, LoopInv, Videos, Pictures
    <2>3. Due(w, t, ans[w][t]) \in BOOLEAN BY DEF Due
    <2>4. LoopTypes' BY <1>6, <2>2, <2>3, <1>9 DEF Picture
    <2> QED BY <2>1, <2>4
  <1>10. ASSUME NEW t \in Tasks, job[w].step # "idle", job[w].task = {t},
                NEW n \in {"save", "refund"}, job' = [job EXCEPT ![w].step = n],
                UNCHANGED ans, mem' \in [Loops -> [Tasks -> Row]],
                failed' \in [Loops -> BOOLEAN]
         PROVE  LoopTypes'
    <2>1. [job[w] EXCEPT !.step = n] \in Job BY <1>a, JobChanges DEF LoopTypes
    <2>2. job' \in [Loops -> Job] BY <2>1, <1>10, <1>a DEF LoopTypes
    <2> QED BY <2>2, <1>10, <1>a DEF LoopTypes
  <1>11. ASSUME NEW t \in Tasks, Bill(w, t) PROVE TypeOK'
    <2>0. cost[t] \in Costs \cup {0} /\ paid[t] \in Int BY <1>a DEF OtherTypes
    <2>1. /\ mem[w][t] \in Row /\ cost[t] \in Nat /\ mem[w][t].quota \in Nat
          /\ paid[t] \in Int
      <3>1. mem[w][t] \in Row BY <1>a DEF LoopTypes
      <3>2. mem[w][t].quota \in Nat BY <3>1 DEF Row
      <3>3. cost[t] \in Nat BY <2>0, CostsAreNumbers
      <3> QED BY <3>1, <3>2, <3>3, <2>0
    <2>2. [mem[w][t] EXCEPT !.quota = cost[t]] \in Row
      BY <2>1, RowChanges DEF States
    <2>3. mem' = [mem EXCEPT ![w][t] = [mem[w][t] EXCEPT !.quota = cost[t]]]
      BY <1>11, <1>a DEF Bill, LoopTypes
    <2>4. mem' \in [Loops -> [Tasks -> Row]] BY <2>2, <2>3, <1>a DEF LoopTypes
    <2>5. paid' \in [Tasks -> Int] BY <2>1, <1>11, <1>a DEF Bill, OtherTypes
    <2>6. OtherTypes' BY <2>5, <1>11, <1>a DEF Bill, OtherTypes, provider, history, bounds
    <2>7. LoopTypes' BY <2>4, <1>11, <1>10, <1>a DEF Bill, LoopTypes
    <2> QED BY <2>6, <2>7
  <1>12. ASSUME NEW t \in Tasks, BillFails(w, t) PROVE TypeOK'
    <2>1. OtherTypes' BY <1>12, <1>c, <1>a DEF BillFails, history, OtherTypes
    <2>2. LoopTypes' BY <1>12, <1>10, <1>a DEF BillFails, LoopTypes
    <2> QED BY <2>1, <2>2
  <1>13. ASSUME NEW t \in Tasks, Save(w, t) PROVE TypeOK'
    <2>1. mem[w][t] \in Row BY <1>a DEF LoopTypes
    <2>2. row' \in [Tasks -> Row] /\ opened' \in [Tasks -> Nat]
      BY <1>13, <1>a, <2>1, WriteTypes DEF Save
    <2>3. OtherTypes' BY <1>13, <1>a, <2>2 DEF Save, OtherTypes, provider, bounds
    <2>4. failed' \in [Loops -> BOOLEAN] BY <1>13, <1>a DEF Save, LoopTypes
    <2>5. CASE job[w].refund /\ kind[t] # "suno"
      <3>1. job' = [job EXCEPT ![w].step = "refund"] /\ UNCHANGED <<mem, ans>>
        BY <2>5, <1>13 DEF Save
      <3>2. LoopTypes' BY <3>1, <2>4, <1>13, <1>10, <1>a DEF Save, LoopTypes
      <3> QED BY <3>2, <2>3
    <2>6. CASE ~(job[w].refund /\ kind[t] # "suno")
      <3>1. Leave(w, {t}) BY <2>6, <1>13 DEF Save
      <3>2. LoopTypes' BY <3>1, <2>4, <1>a, LeaveFacts DEF LoopTypes
      <3> QED BY <3>2, <2>3
    <2> QED BY <2>5, <2>6
  <1>14. ASSUME NEW t \in Tasks, SaveFails(w, t) PROVE TypeOK'
    <2>1. OtherTypes' BY <1>14, <1>c, <1>a DEF SaveFails, OtherTypes
    <2>2. PICK b \in BOOLEAN : b = (kind[t] = "suno") OBVIOUS
    <2>3. failed' = [failed EXCEPT ![w] = b] BY <2>2, <1>14 DEF SaveFails
    <2>4. failed' \in [Loops -> BOOLEAN] BY <2>3, <1>a DEF LoopTypes
    <2>5. LoopTypes' BY <1>14, <2>4, <1>a, LeaveFacts DEF SaveFails, LoopTypes
    <2> QED BY <2>1, <2>5
  <1>15. ASSUME NEW t \in Tasks, job[w].task = {t}, job[w].step = "refund",
                NEW b \in BOOLEAN, AfterRefund(w, t, b), UNCHANGED failed
         PROVE  LoopTypes'
    <2>1. CASE kind[t] = "suno"
      BY <2>1, <1>15, <1>a, AfterRefundFacts DEF LoopTypes
    <2>2. CASE kind[t] # "suno"
      BY <2>2, <1>15, <1>a, LeaveFacts DEF AfterRefund, LoopTypes
    <2> QED BY <2>1, <2>2
  <1>16. ASSUME NEW t \in Tasks, Refund(w, t) PROVE TypeOK'
    <2>1. mem[w][t].quota \in Nat /\ paid[t] \in Int
      BY <1>a DEF LoopTypes, OtherTypes, Row
    <2>2. paid' \in [Tasks -> Int] BY <2>1, <1>16, <1>a DEF Refund, OtherTypes
    <2>3. OtherTypes' BY <2>2, <1>16, <1>a DEF Refund, OtherTypes, provider, bounds
    <2> QED BY <2>3, <1>15, <1>16 DEF Refund
  <1>17. ASSUME NEW t \in Tasks, RefundFails(w, t) PROVE TypeOK'
    <2>1. OtherTypes' BY <1>17, <1>c, <1>a DEF RefundFails, OtherTypes
    <2> QED BY <2>1, <1>15, <1>17 DEF RefundFails
  <1> QED
    BY <1>1, <1>2, <1>3, <1>4, <1>5, <1>7, <1>8, <1>9, <1>11, <1>12, <1>13, <1>14,
       <1>16, <1>17 DEF LoopStep, Failures

LEMMA TypeNext ==
  ASSUME TypeOK, Structure, [Next]_vars PROVE TypeOK'
  <1> USE TypeParts, TypePartsNext DEF ids
  <1>a. OtherTypes /\ LoopTypes OBVIOUS
  <1>1. CASE UNCHANGED vars
    BY <1>1, <1>a DEF vars, provider, loops, history, bounds, OtherTypes, LoopTypes
  <1>2. ASSUME NEW k \in Kinds, DeleteChannel(k) PROVE TypeOK'
    <2>1. OtherTypes'
      BY <1>2, <1>a, Constants DEF DeleteChannel, Fault, OtherTypes, history
    <2>2. LoopTypes' BY <1>2, <1>a DEF DeleteChannel, loops, LoopTypes
    <2> QED BY <2>1, <2>2
  <1>3. ASSUME NEW n \in Nodes, NEW S \in SUBSET Tasks, Crash(n, S) PROVE TypeOK'
    <2>1. OtherTypes'
      <3>1. sub' \in [Tasks -> {"new", "accepted", "rejected", "inserted", "charged",
                                 "ended"}]
        BY <1>3, <1>a DEF Crash, OtherTypes
      <3>2. outside' \in [Tasks -> Row] BY <1>3, <1>a, Constants DEF Crash, OtherTypes
      <3>3. spoiled' \subseteq Tasks BY <1>3, <1>a DEF Crash, OtherTypes
      <3>4. relost' \in [Tasks -> Nat] BY <1>3, <1>a DEF Crash, OtherTypes
      <3>5. faults' \in 0..MaxFaults BY <1>3, <1>a, Constants DEF Crash, Fault, OtherTypes
      <3>6. UNCHANGED <<kind, ids, row, up, cost, gone, off, paid, refunds, opened, outsides>>
        BY <1>3 DEF Crash, provider
      <3> QED BY <3>1, <3>2, <3>3, <3>4, <3>5, <3>6, <1>a DEF OtherTypes
    <2>2. LoopTypes'
      BY <1>3, <1>a, Constants DEF Crash, LoopTypes, States
    <2> QED BY <2>1, <2>2
  <1> QED
    BY <1>1, <1>2, <1>3, TypeSubmission, TypeLoop DEF Next

(***************************************************************************)
(* What the loops hold                                                     *)
(***************************************************************************)
LEMMA HomeLoops ==
  ASSUME OneNode
  PROVE  /\ \A w \in Loops : w = <<Home, w[2]>>
         /\ \A t \in Tasks : Own(t) \in Loops
  BY DEF OneNode, Loops, Own, LoopOf

LEMMA StructureInit == ASSUME Init PROVE Structure
  <1>1. \A t \in Tasks : TaskInv(t) BY DEF Init, TaskInv
  <1>2. \A w \in Loops, t \in Tasks : LoopInv(w, t) BY DEF Init, LoopInv, Idle
  <1> QED BY <1>1, <1>2 DEF Structure

LEMMA StructureSubmission ==
  ASSUME TypeOK, Structure, NEW t \in Tasks,
         \/ Accept(t) \/ Reject(t) \/ Submission(t) \/ InsertFails(t) \/ ChargeFails(t)
         \/ Finish(t) \/ UserFetch(t) \/ Notify(t) \/ OutsideSave(t)
  PROVE  Structure'
  <1>a. OtherTypes /\ LoopTypes BY TypeParts
  <1>b. UNCHANGED <<kind, mem, ans, job>>
    BY DEF Accept, Reject, Submission, Insert, Charge, InsertFails, ChargeFails, Finish,
           UserFetch, Notify, Outside, OutsideSave, loops
  <1>c. /\ (\A u \in Tasks : TaskInv(u)) /\ \A w \in Loops, u \in Tasks : LoopInv(w, u)
    BY DEF Structure
  <1>1. ASSUME NEW w \in Loops, NEW u \in Tasks PROVE LoopInv(w, u)'
    <2>1. mem[w][u] # NoRow => up'[u] # "none" /\ (up[u] # "lost" => up'[u] # "lost")
      <3>1. CASE Accept(t) BY <3>1, <1>a, <1>c DEF Accept, OtherTypes, LoopInv
      <3>2. CASE Reject(t) BY <3>2, <1>a, <1>c DEF Reject, OtherTypes, LoopInv, TaskInv
      <3>3. CASE Finish(t) BY <3>3, <1>a, <1>c DEF Finish, OtherTypes, LoopInv
      <3>4. CASE UNCHANGED up BY <3>4, <1>c DEF LoopInv
      <3> QED BY <3>1, <3>2, <3>3, <3>4 DEF Submission, Insert, Charge, InsertFails,
                 ChargeFails, UserFetch, Notify, Outside, OutsideSave, provider
    <2>2. LoopInv(w, u) BY <1>c
    <2> QED BY <2>1, <2>2, <1>b DEF LoopInv, Own
  <1>2. ASSUME NEW u \in Tasks PROVE TaskInv(u)'
    <2>0. TaskInv(u) BY <1>c
    <2>1. CASE Accept(t) BY <2>0, <2>1, <1>a, <1>b DEF Accept, OtherTypes, TaskInv
    <2>2. CASE Reject(t) BY <2>0, <2>2, <1>a, <1>b DEF Reject, OtherTypes, TaskInv
    <2>3. CASE Insert(t)
      BY <2>0, <2>3, <1>a, <1>b DEF Insert, Write, OtherTypes, TaskInv
    <2>4. CASE Charge(t) BY <2>0, <2>4, <1>a, <1>b DEF Charge, OtherTypes, TaskInv
    <2>5. CASE InsertFails(t) BY <2>0, <2>5, <1>a, <1>b DEF InsertFails, OtherTypes, TaskInv
    <2>6. CASE ChargeFails(t) BY <2>0, <2>6, <1>a, <1>b DEF ChargeFails, OtherTypes, TaskInv
    <2>7. CASE Finish(t) BY <2>0, <2>7, <1>a, <1>b DEF Finish, OtherTypes, TaskInv
    <2>8. ASSUME kind[t] # "suno", NEW a, Outside(t, a) PROVE TaskInv(u)'
      BY <2>0, <2>8, <1>a, <1>b DEF Outside, OtherTypes, TaskInv
    <2>9. CASE UserFetch(t) BY <2>8, <2>9 DEF UserFetch
    <2>10. CASE Notify(t) BY <2>8, <2>10 DEF Notify, Pictures
    <2>11. CASE OutsideSave(t)
      BY <2>0, <2>11, <1>a, <1>b DEF OutsideSave, Write, OtherTypes, TaskInv
    <2> QED BY <2>1, <2>2, <2>3, <2>4, <2>5, <2>6, <2>7, <2>9, <2>10, <2>11 DEF Submission
  <1> QED BY <1>1, <1>2 DEF Structure

\* A task that a loop leaves is no longer its job, and the others stay.
LEMMA LeaveKeeps ==
  ASSUME LoopTypes, NEW w \in Loops, NEW T, Leave(w, T), UNCHANGED <<kind, up>>,
         NEW v \in Loops, NEW u \in Tasks, LoopInv(v, u)
  PROVE  LoopInv(v, u)' /\ (mem[v][u] = NoRow => mem'[v][u] = NoRow)
  <1>1. Idle.task # {u} BY DEF Idle
  <1> QED BY <1>1, LeaveFacts DEF LoopInv, Own

\* The task a loop begins with is one it holds.
LEMMA BeginKeeps ==
  ASSUME LoopTypes, NEW w \in Loops, NEW t \in Tasks, NEW a \in States, a # "none",
         NEW s \in {"bill", "save", "refund"}, NEW b \in BOOLEAN, Begin(w, t, a, s, b),
         b => a = "failure", s = "bill" => a # "failure", s = "refund" => b,
         mem[w][t] # NoRow, UNCHANGED <<kind, up, ans>>,
         NEW v \in Loops, NEW u \in Tasks, LoopInv(v, u), LoopInv(w, t)
  PROVE  LoopInv(v, u)' /\ (mem[v][u] = NoRow => mem'[v][u] = NoRow)
  <1>1. /\ \A x \in Loops : x # w => mem'[x] = mem[x] /\ job'[x] = job[x]
        /\ \A x \in Tasks : x # t => mem'[w][x] = mem[w][x]
        /\ mem'[w][t].state = a
        /\ job'[w].task = {t} /\ job'[w].step = s /\ job'[w].refund = b
    BY BeginFacts
  <1>2. NoRow.state = "none" BY DEF NoRow
  <1>3. CASE v # w BY <1>1, <1>3 DEF LoopInv, Own
  <1>4. CASE v = w /\ u # t BY <1>1, <1>4 DEF LoopInv, Own
  <1>5. CASE v = w /\ u = t
    <2>1. mem'[w][t] # NoRow /\ mem'[w][t].state # "none" BY <1>1, <1>2
    <2>2. w = Own(t) /\ up[t] # "none" BY DEF LoopInv
    <2>3. (w = Own(t))' BY <2>2 DEF Own
    <2>4. job'[w].refund => mem'[w][t].state = "failure" BY <1>1
    <2>5. s = "bill" => ~job'[w].refund BY <1>1
    <2>6. s = "refund" => job'[w].refund BY <1>1
    <2> QED BY <2>1, <2>2, <2>3, <2>4, <2>5, <2>6, <1>1, <1>5 DEF LoopInv
  <1> QED BY <1>3, <1>4, <1>5

LEMMA StructureLoop ==
  ASSUME OneNode, TypeOK, Structure, NEW w \in Loops,
         LoopStep(w) \/ Failures(w) \/ \E t \in Tasks : Same(w, t)
  PROVE  Structure'
  <1>a. OtherTypes /\ LoopTypes BY TypeParts
  <1>b. (\A u \in Tasks : TaskInv(u)) /\ \A v \in Loops, u \in Tasks : LoopInv(v, u)
    BY DEF Structure
  <1>c. ASSUME UNCHANGED <<kind, sub, outside>>,
               \A u \in Tasks : row[u] = NoRow /\ mem[w][u] = NoRow => row'[u] = NoRow,
               \A v \in Loops, u \in Tasks :
                  /\ LoopInv(v, u)'
                  /\ row[u] = NoRow /\ mem[v][u] = NoRow => mem'[v][u] = NoRow
        PROVE  Structure'
    <2>1. ASSUME NEW u \in Tasks PROVE TaskInv(u)'
      BY <1>b, <1>c DEF TaskInv
    <2> QED BY <2>1, <1>c DEF Structure
  <1>d. NoRow.state = "none" BY DEF NoRow
  <1>1. CASE Poll(w)
    <2>1. UNCHANGED <<kind, sub, outside, up, ans, job>> BY <1>1 DEF Poll, provider
    <2>2. ASSUME NEW u \in Tasks, row[u] = NoRow PROVE row'[u] = NoRow
      BY <2>2, <1>1, <1>a, <1>d, PollFacts
    <2>3. ASSUME NEW v \in Loops, NEW u \in Tasks
          PROVE  /\ LoopInv(v, u)'
                 /\ row[u] = NoRow /\ mem[v][u] = NoRow => mem'[v][u] = NoRow
      <3>1. LoopInv(v, u) BY <1>b
      <3>2. CASE v # w
        <4>1. mem'[v] = mem[v] BY <1>1, <1>a, <3>2 DEF Poll, LoopTypes
        <4> QED BY <4>1, <3>1, <2>1 DEF LoopInv, Own
      <3>3. CASE v = w
        <4>1. mem[w][u] = NoRow BY <1>1 DEF Poll, Held
        <4>2. ans[w][u] = "none" /\ job[w].task # {u} BY <4>1, <3>1, <3>3 DEF LoopInv
        <4>3. mem'[w][u] # NoRow =>
                 /\ mem'[w][u].state = "running" /\ up[u] # "none"
                 /\ LoopOf(kind[u]) = w[2]
          BY <1>1, <1>a, PollFacts
        <4>4. mem'[w][u] # NoRow => (w = Own(u))' BY <4>3, <2>1, HomeLoops DEF Own
        <4>5. row[u] = NoRow => mem'[w][u] = NoRow
          BY <1>1, <1>a, <1>d, PollFacts
        <4> QED BY <4>2, <4>3, <4>4, <4>5, <3>3, <2>1 DEF LoopInv
      <3> QED BY <3>2, <3>3
    <2> QED BY <1>c, <2>1, <2>2, <2>3
  <1>2. ASSUME NEW T, Leave(w, T), UNCHANGED <<kind, sub, outside, up>>,
               \A u \in Tasks : row[u] = NoRow /\ mem[w][u] = NoRow => row'[u] = NoRow
        PROVE  Structure'
    BY <1>a, <1>b, <1>c, <1>2, LeaveKeeps
  <1>3. ASSUME NEW k \in Kinds, BulkFail(w, k) PROVE Structure'
    <2>1. ASSUME NEW u \in Tasks, row[u] = NoRow, mem[w][u] = NoRow PROVE row'[u] = NoRow
      BY <2>1, <1>3 DEF BulkFail, Batch, Held
    <2> QED BY <1>2, <1>3, <2>1 DEF BulkFail, provider
  <1>4. ASSUME NEW k \in Kinds, AskFails(w, k) PROVE Structure'
    BY <1>2, <1>4 DEF AskFails, provider
  <1>5. ASSUME NEW t \in Tasks, VideoFails(w, t) \/ Same(w, t) \/ SaveFails(w, t)
        PROVE  Structure'
    BY <1>2, <1>5 DEF VideoFails, Same, SaveFails, provider
  <1>6. ASSUME NEW k \in Kinds, Ask(w, k) PROVE Structure'
    <2>1. PICK a \in [Known(w, k) -> States \cup {"ask"}] :
             /\ \A t \in Known(w, k) : a[t] \in IF k \in Videos THEN {"ask"} ELSE Answers(t)
             /\ ans' = [ans EXCEPT ![w] =
                          [t \in Tasks |-> IF t \in Known(w, k) THEN a[t] ELSE "none"]]
      BY <1>6 DEF Ask
    <2>2. /\ UNCHANGED <<kind, sub, outside, up, row, job>>
          /\ mem' = [mem EXCEPT ![w] =
                       [t \in Tasks |-> IF t \in Batch(w, k) \ Known(w, k)
                                          THEN NoRow ELSE mem[w][t]]]
          /\ job[w] = Idle
      BY <1>6 DEF Ask, provider, Starts
    <2>3. ASSUME NEW v \in Loops, NEW u \in Tasks
          PROVE  /\ LoopInv(v, u)'
                 /\ mem[v][u] = NoRow => mem'[v][u] = NoRow
      <3>1. LoopInv(v, u) BY <1>b
      <3>2. CASE v # w
        <4>1. mem'[v] = mem[v] /\ ans'[v] = ans[v] /\ job'[v] = job[v]
          BY <2>1, <2>2, <1>a, <3>2 DEF LoopTypes
        <4> QED BY <4>1, <3>1, <2>2 DEF LoopInv, Own
      <3>3. CASE v = w
        <4>1. job'[w].task # {u} BY <2>2 DEF Idle
        <4>2. mem'[w][u] = IF u \in Batch(w, k) \ Known(w, k) THEN NoRow ELSE mem[w][u]
          BY <2>2, <1>a DEF LoopTypes
        <4>3. ans'[w][u] = IF u \in Known(w, k) THEN a[u] ELSE "none"
          BY <2>1, <1>a DEF LoopTypes
        <4>4. u \in Known(w, k) => /\ mem[w][u] # NoRow /\ up[u] # "lost" /\ kind[u] = k
                                   /\ mem'[w][u] = mem[w][u]
          BY <4>2 DEF Known, Batch, Held
        <4>5. u \in Known(w, k) => (a[u] = "ask" <=> kind[u] \in Videos)
          <5>1. u \in Known(w, k) => Answers(u) \subseteq States
            BY <4>4, <1>a, AnswersAreStates
          <5> QED BY <2>1, <4>4, <5>1 DEF States
        <4> QED BY <4>1, <4>2, <4>3, <4>4, <4>5, <3>1, <3>3, <2>2 DEF LoopInv, Own
      <3> QED BY <3>2, <3>3
    <2> QED BY <1>c, <2>2, <2>3
  <1>7. ASSUME NEW t \in Tasks, NEW a \in States, a # "none",
               NEW n \in {"bill", "save", "refund"}, NEW b \in BOOLEAN,
               Begin(w, t, a, n, b),
               b => a = "failure", n = "bill" => a # "failure", n = "refund" => b,
               mem[w][t] # NoRow, UNCHANGED <<kind, sub, outside, row, up, ans>>
        PROVE  Structure'
    BY <1>a, <1>b, <1>c, <1>7, BeginKeeps
  <1>8. ASSUME NEW t \in Tasks, Video(w, t) PROVE Structure'
    <2>1. PICK a \in Answers(t) :
             Begin(w, t, a, IF a = "success" /\ cost[t] \notin {0, mem[w][t].quota}
                              THEN "bill" ELSE "save", Due(w, t, a))
      BY <1>8 DEF Video
    <2>2. mem[w][t] # NoRow /\ up[t] # "lost" /\ up[t] # "none"
      BY <1>8, <1>b DEF Video, LoopInv
    <2>3. a \in States /\ a # "none" BY <2>1, <2>2, <1>a, AnswersAreStates DEF Answers
    <2>4. UNCHANGED <<kind, sub, outside, row, up, ans>> BY <1>8 DEF Video, provider
    <2>5. PICK b \in BOOLEAN : b = Due(w, t, a) BY DEF Due
    <2>6. b => a = "failure" BY <2>5 DEF Due
    <2> QED BY <1>7, <2>1, <2>2, <2>3, <2>4, <2>5, <2>6
  <1>9. ASSUME NEW t \in Tasks, Song(w, t) PROVE Structure'
    <2>1. mem[w][t] # NoRow /\ ans[w][t] \in States /\ ans[w][t] # "none"
      BY <1>9, <1>a, <1>b DEF Song, LoopInv, LoopTypes, Videos
    <2>2. UNCHANGED <<kind, sub, outside, row, up, ans>> BY <1>9 DEF Song, provider
    <2>3. PICK b \in BOOLEAN : b = (Due(w, t, ans[w][t]) /\ ~failed[w]) OBVIOUS
    <2>4. Begin(w, t, ans[w][t], IF b THEN "refund" ELSE "save", b)
      BY <2>3, <1>9 DEF Song
    <2>5. b => ans[w][t] = "failure" BY <2>3 DEF Due
    <2> QED BY <1>7, <2>1, <2>2, <2>4, <2>5
  <1>10. ASSUME NEW t \in Tasks, Picture(w, t) PROVE Structure'
    <2>1. mem[w][t] # NoRow /\ ans[w][t] \in States /\ ans[w][t] # "none"
      BY <1>10, <1>a, <1>b DEF Picture, LoopInv, LoopTypes, Videos, Pictures
    <2>2. UNCHANGED <<kind, sub, outside, row, up, ans>> BY <1>10 DEF Picture, provider
    <2>3. PICK b \in BOOLEAN : b = Due(w, t, ans[w][t]) BY DEF Due
    <2>4. Begin(w, t, ans[w][t], "save", b) BY <2>3, <1>10 DEF Picture
    <2>5. b => ans[w][t] = "failure" BY <2>3 DEF Due
    <2> QED BY <1>7, <2>1, <2>2, <2>4, <2>5
  <1>11. ASSUME NEW t \in Tasks, job[w].task = {t}, NEW n \in {"save", "refund"},
                job' = [job EXCEPT ![w].step = n], n = "refund" => job[w].refund,
                UNCHANGED <<kind, sub, outside, up, ans>>,
                row[t] = NoRow /\ mem[w][t] = NoRow => row'[t] = NoRow,
                \A u \in Tasks : u # t => row'[u] = row[u],
                \A v \in Loops, u \in Tasks :
                   /\ mem[v][u] = NoRow <=> mem'[v][u] = NoRow
                   /\ mem'[v][u].state = mem[v][u].state
         PROVE  Structure'
    <2>1. /\ job'[w].task = {t} /\ job'[w].step = n /\ job'[w].refund = job[w].refund
          /\ \A v \in Loops : v # w => job'[v] = job[v]
      BY <1>11, <1>a, JobChanges DEF LoopTypes
    <2>2. ASSUME NEW v \in Loops, NEW u \in Tasks PROVE LoopInv(v, u)'
      <3>1. LoopInv(v, u) BY <1>b
      <3>2. CASE v # w BY <3>1, <3>2, <2>1, <1>11 DEF LoopInv, Own
      <3>3. CASE v = w BY <3>1, <3>3, <2>1, <1>11 DEF LoopInv, Own
      <3> QED BY <3>2, <3>3
    <2> QED BY <1>c, <2>2, <1>11
  <1>12. ASSUME NEW t \in Tasks, Bill(w, t) PROVE Structure'
    <2>1. mem[w][t] # NoRow /\ mem[w][t].state # "none" BY <1>12, <1>b DEF Bill, LoopInv
    <2>2. mem[w][t] \in Row BY <1>a DEF LoopTypes
    <2>3. [mem[w][t] EXCEPT !.quota = cost[t]].state = mem[w][t].state BY <2>2 DEF Row
    <2>4. mem' = [mem EXCEPT ![w][t] = [mem[w][t] EXCEPT !.quota = cost[t]]]
      BY <1>12, <1>a DEF Bill, LoopTypes
    <2>5. \A v \in Loops, u \in Tasks :
             /\ mem[v][u] = NoRow <=> mem'[v][u] = NoRow
             /\ mem'[v][u].state = mem[v][u].state
      BY <2>1, <2>3, <2>4, <1>a, <1>d DEF LoopTypes
    <2> QED BY <1>11, <1>12, <2>5 DEF Bill, provider
  <1>13. ASSUME NEW t \in Tasks, BillFails(w, t) PROVE Structure'
    BY <1>11, <1>13 DEF BillFails, provider
  <1>14. ASSUME NEW t \in Tasks, Save(w, t) PROVE Structure'
    <2>1. mem[w][t] # NoRow BY <1>14, <1>b DEF Save, LoopInv
    <2>2. \A u \in Tasks : u # t => row'[u] = row[u] BY <1>14, <1>a DEF Save, Write, OtherTypes
    <2>3. CASE job[w].refund /\ kind[t] # "suno"
      BY <1>11, <1>14, <2>1, <2>2, <2>3 DEF Save, provider
    <2>4. CASE ~(job[w].refund /\ kind[t] # "suno")
      BY <1>2, <1>14, <2>1, <2>2, <2>4 DEF Save, provider
    <2> QED BY <2>3, <2>4
  <1>15. ASSUME NEW t \in Tasks, Refund(w, t) \/ RefundFails(w, t) PROVE Structure'
    <2>0. /\ job[w].task = {t} /\ job[w].step = "refund"
          /\ UNCHANGED <<kind, sub, row, up, outside>>
      BY <1>15 DEF Refund, RefundFails, provider
    <2>1. PICK b \in BOOLEAN : AfterRefund(w, t, b) BY <1>15 DEF Refund, RefundFails
    <2>2. CASE kind[t] = "suno"
      <3>1. /\ mem' = mem /\ ans' = ans /\ \A v \in Loops : v # w => job'[v] = job[v]
            /\ job'[w].task = {t} /\ job'[w].step = "save" /\ job'[w].refund = b
        BY <2>1, <2>2, <1>a, AfterRefundFacts
      <3>2. ASSUME NEW v \in Loops, NEW u \in Tasks PROVE LoopInv(v, u)'
        <4>1. LoopInv(v, u) BY <1>b
        <4>2. CASE v # w BY <4>1, <4>2, <3>1, <2>0 DEF LoopInv, Own
        <4>3. CASE v = w BY <4>1, <4>3, <3>1, <2>0 DEF LoopInv, Own
        <4> QED BY <4>2, <4>3
      <3> QED BY <1>c, <2>0, <3>1, <3>2
    <2>3. CASE kind[t] # "suno"
      BY <1>2, <2>0, <2>1, <2>3 DEF AfterRefund
    <2> QED BY <2>2, <2>3
  <1> QED
    BY <1>1, <1>3, <1>4, <1>5, <1>6, <1>8, <1>9, <1>10, <1>12, <1>13, <1>14, <1>15
    DEF LoopStep, Failures

LEMMA StructureNext ==
  ASSUME OneNode, TypeOK, Structure, [Next]_vars PROVE Structure'
  <1>a. OtherTypes /\ LoopTypes BY TypeParts
  <1>b. (\A u \in Tasks : TaskInv(u)) /\ \A v \in Loops, u \in Tasks : LoopInv(v, u)
    BY DEF Structure
  <1>1. CASE UNCHANGED <<kind, sub, row, outside, mem, ans, job, up>>
    BY <1>1, <1>b DEF Structure, TaskInv, LoopInv, Own
  <1>2. ASSUME NEW n \in Nodes, NEW S \in SUBSET Tasks, Crash(n, S) PROVE Structure'
    <2>1. ASSUME NEW u \in Tasks PROVE TaskInv(u)'
      <3>1. TaskInv(u) BY <1>b
      <3> QED BY <3>1, <1>2, <1>a DEF Crash, TaskInv, OtherTypes, LoopTypes
    <2>2. ASSUME NEW v \in Loops, NEW u \in Tasks PROVE LoopInv(v, u)'
      <3>1. LoopInv(v, u) /\ Idle.task # {u} BY <1>b DEF Idle
      <3>2. \/ mem'[v] = mem[v] /\ ans'[v] = ans[v] /\ job'[v] = job[v]
            \/ /\ mem'[v] = [t \in Tasks |-> NoRow] /\ ans'[v] = [t \in Tasks |-> "none"]
               /\ job'[v] = Idle
        BY <1>2 DEF Crash
      <3>3. UNCHANGED <<kind, up>> BY <1>2 DEF Crash, provider
      <3> QED BY <3>1, <3>2, <3>3 DEF LoopInv, Own
    <2> QED BY <2>1, <2>2 DEF Structure
  <1> QED
    BY <1>1, <1>2, StructureSubmission, StructureLoop
    DEF Next, vars, provider, loops, DeleteChannel

(***************************************************************************)
(* The room for refunds                                                    *)
(***************************************************************************)
LEMMA PotInit == ASSUME OneNode, Init, NEW t \in Tasks PROVE PotInv(t)
  <1>1. mem[Own(t)][t] = NoRow BY HomeLoops DEF Init
  <1>2. Readable(t) = 0 BY DEF Init, Readable, NoRow
  <1>3. refunds[t] = 0 /\ opened[t] = 0 /\ relost[t] = 0 BY DEF Init
  <1> QED BY <1>1, <1>2, <1>3 DEF PotInv, Pot

\* A row is readable or not, and there is room for at most two refunds.
LEMMA PotRange ==
  ASSUME NEW t \in Tasks
  PROVE  /\ Readable(t) \in {0, 1} /\ Readable(t)' \in {0, 1}
         /\ Pot(t) \in {0, 1, 2} /\ Pot(t)' \in {0, 1, 2}
  <1>1. Readable(t) \in {0, 1} /\ Readable(t)' \in {0, 1} BY DEF Readable
  <1> QED BY <1>1 DEF Pot

\* The room depends on whether a loop holds the task, and is at it.
LEMMA PotValues ==
  ASSUME NEW t \in Tasks
  PROVE  /\ mem[Own(t)][t] = NoRow => Pot(t) = Readable(t)
         /\ mem[Own(t)][t] # NoRow /\ ~Owed(t) /\ ~Closing(t) => Pot(t) = 1
         /\ mem[Own(t)][t] # NoRow /\ Owed(t) => Pot(t) = 1 + Readable(t)
         /\ mem[Own(t)][t] # NoRow /\ ~Owed(t) /\ Closing(t) => Pot(t) = 0
  BY DEF Pot

LEMMA PotValuesNext ==
  ASSUME NEW t \in Tasks, UNCHANGED kind
  PROVE  /\ mem'[Own(t)][t] = NoRow => Pot(t)' = Readable(t)'
         /\ mem'[Own(t)][t] # NoRow /\ ~Owed(t)' /\ ~Closing(t)' => Pot(t)' = 1
         /\ mem'[Own(t)][t] # NoRow /\ Owed(t)' => Pot(t)' = 1 + Readable(t)'
         /\ mem'[Own(t)][t] # NoRow /\ ~Owed(t)' /\ Closing(t)' => Pot(t)' = 0
  BY DEF Pot, Own

\* A step that takes from the room what it adds to the refunds keeps PotInv.
LEMMA PotStep ==
  ASSUME OtherTypes, OtherTypes', NEW t \in Tasks, PotInv(t),
         refunds'[t] + Pot(t)' + opened[t] + relost[t]
           <= refunds[t] + Pot(t) + opened'[t] + relost'[t]
  PROVE  PotInv(t)'
  <1>1. /\ refunds[t] \in Nat /\ opened[t] \in Nat /\ relost[t] \in Nat
        /\ refunds'[t] \in Nat /\ opened'[t] \in Nat /\ relost'[t] \in Nat
    BY DEF OtherTypes
  <1>2. PICK p \in {0, 1, 2}, q \in {0, 1, 2} : p = Pot(t) /\ q = Pot(t)' BY PotRange
  <1> QED BY <1>1, <1>2 DEF PotInv

\* A step that only writes rows, and counts the openings.
LEMMA PotRows ==
  ASSUME OtherTypes, OtherTypes', NEW t \in Tasks, PotInv(t),
         UNCHANGED <<kind, mem, job, refunds, relost>>,
         Readable(t)' + opened[t] <= Readable(t) + opened'[t], opened[t] <= opened'[t]
  PROVE  PotInv(t)'
  <1>1. Own(t)' = Own(t) /\ (Owed(t)' <=> Owed(t)) /\ (Closing(t)' <=> Closing(t))
    BY DEF Own, Owed, Closing
  <1>2. \/ Pot(t) = Readable(t) /\ Pot(t)' = Readable(t)'
        \/ Pot(t) = 1 + Readable(t) /\ Pot(t)' = 1 + Readable(t)'
        \/ Pot(t)' = Pot(t)
    BY <1>1, PotValues, PotValuesNext
  <1>3. /\ refunds[t] \in Nat /\ opened[t] \in Nat /\ relost[t] \in Nat /\ opened'[t] \in Nat
    BY DEF OtherTypes
  <1> QED BY <1>2, <1>3, PotRange, PotStep

LEMMA PotSubmission ==
  ASSUME TypeOK, TypeOK', Structure, NEW u \in Tasks, NEW t \in Tasks, PotInv(t),
         \/ Accept(u) \/ Reject(u) \/ Submission(u) \/ InsertFails(u) \/ ChargeFails(u)
         \/ Finish(u) \/ UserFetch(u) \/ Notify(u) \/ OutsideSave(u)
  PROVE  PotInv(t)'
  <1>a. OtherTypes /\ OtherTypes' BY TypeParts, TypePartsNext
  <1>b. UNCHANGED <<kind, mem, job, refunds, relost>>
    BY DEF Accept, Reject, Submission, Insert, Charge, InsertFails, ChargeFails, Finish,
           UserFetch, Notify, Outside, OutsideSave, loops, history
  <1>c. opened[t] \in Nat BY <1>a DEF OtherTypes
  <1>1. CASE UNCHANGED <<row, opened>>
    BY <1>1, <1>a, <1>b, <1>c, PotRows, PotRange DEF Readable
  <1>2. ASSUME NEW r \in Row, Write(u, r) PROVE PotInv(t)'
    <2>1. Readable(t)' + opened[t] <= Readable(t) + opened'[t] /\ opened[t] <= opened'[t]
      BY <1>2, <1>a, <1>c, WriteTypes DEF Readable
    <2> QED BY <2>1, <1>a, <1>b, PotRows
  <1>3. CASE Insert(u)
    <2>1. [state |-> "running", quota |-> Price] \in Row BY Constants DEF Row, States
    <2> QED BY <2>1, <1>2, <1>3 DEF Insert
  <1>4. CASE OutsideSave(u)
    <2>1. outside[u] \in Row BY <1>a DEF OtherTypes
    <2> QED BY <2>1, <1>2, <1>4 DEF OutsideSave
  <1> QED
    BY <1>1, <1>3, <1>4 DEF Accept, Reject, Submission, Charge, InsertFails, ChargeFails,
       Finish, UserFetch, Notify, Outside, history

\* The loop of a task does nothing, and its row stays.
LEMMA PotElsewhere ==
  ASSUME OtherTypes, OtherTypes', NEW t \in Tasks, PotInv(t), UNCHANGED kind,
         refunds'[t] = refunds[t], opened'[t] = opened[t], relost'[t] = relost[t],
         row'[t] = row[t], mem'[Own(t)] = mem[Own(t)], job'[Own(t)] = job[Own(t)]
  PROVE  PotInv(t)'
  <1>1. Own(t)' = Own(t) BY DEF Own
  <1>2. Pot(t)' = Pot(t) BY <1>1 DEF Pot, Readable, Owed, Closing
  <1> QED BY <1>2 DEF PotInv

\* No loop is at the task before or after the step.
LEMMA PotAside ==
  ASSUME OtherTypes, OtherTypes', NEW t \in Tasks, PotInv(t), UNCHANGED kind,
         refunds'[t] = refunds[t], opened'[t] = opened[t], relost'[t] = relost[t],
         Readable(t)' <= Readable(t),
         job[Own(t)].task # {t}, job'[Own(t)].task # {t},
         mem'[Own(t)][t] # NoRow => mem[Own(t)][t] # NoRow \/ Readable(t) = 1
  PROVE  PotInv(t)'
  <1>1. ~Owed(t) /\ ~Closing(t) /\ ~Owed(t)' /\ ~Closing(t)' BY DEF Owed, Closing, Own
  <1>2. Pot(t)' <= Pot(t) BY <1>1, PotValues, PotValuesNext, PotRange
  <1>3. refunds[t] \in Nat /\ opened[t] \in Nat /\ relost[t] \in Nat BY DEF OtherTypes
  <1> QED BY <1>2, <1>3, PotRange, PotStep

LEMMA PotLoop ==
  ASSUME OneNode, TypeOK, TypeOK', Structure, NEW w \in Loops,
         LoopStep(w) \/ Failures(w) \/ \E t \in Tasks : Same(w, t),
         NEW u \in Tasks, PotInv(u)
  PROVE  PotInv(u)'
  <1>a. OtherTypes /\ OtherTypes' /\ LoopTypes /\ LoopTypes' BY TypeParts, TypePartsNext
  <1>b. \A v \in Loops, t \in Tasks : LoopInv(v, t) BY DEF Structure
  <1>c. Own(u) \in Loops BY HomeLoops
  <1>d. NoRow.state = "none" /\ Idle.task # {u} BY DEF NoRow, Idle
  <1>e. refunds[u] \in Nat /\ opened[u] \in Nat /\ relost[u] \in Nat BY <1>a DEF OtherTypes
  <1>1. CASE Poll(w)
    <2>1. UNCHANGED <<kind, job, refunds, opened, relost>> BY <1>1 DEF Poll, history
    <2>2. CASE Own(u) # w
      <3>1. mem'[Own(u)] = mem[Own(u)] BY <1>1, <1>a, <1>c, <2>2 DEF Poll, LoopTypes
      <3>2. LoopOf(kind[u]) # w[2] BY <2>2, HomeLoops DEF Own
      <3>3. row'[u] = row[u] BY <1>1, <3>2, <1>a, PollFacts
      <3> QED BY <2>1, <3>1, <3>3, <1>a, PotElsewhere
    <2>3. CASE Own(u) = w
      <3>1. mem[w][u] = NoRow BY <1>1 DEF Poll, Held
      <3>2. job[w].task # {u} BY <3>1, <1>b DEF LoopInv
      <3>3. mem'[w][u] # NoRow => Readable(u) = 1
        BY <1>1, <1>a, PollFacts DEF Readable
      <3>4. [row[u] EXCEPT !.state = "failure"].state = "failure"
        BY <1>a, FailedRowState DEF OtherTypes
      <3>5. row'[u] = row[u] \/ row'[u] = [row[u] EXCEPT !.state = "failure"]
        BY <1>1, <1>a, PollFacts
      <3>6. row'[u].state = "running" => row[u].state = "running" BY <3>4, <3>5
      <3>7. Readable(u)' <= Readable(u) BY <3>6, PotRange DEF Readable
      <3> QED BY <2>1, <2>3, <3>2, <3>3, <3>7, <1>a, PotAside
    <2> QED BY <2>2, <2>3
  <1>2. ASSUME UNCHANGED <<kind, row, refunds, opened, relost>>,
               \A v \in Loops : v # w => mem'[v] = mem[v] /\ job'[v] = job[v],
               mem[w][u] = NoRow => mem'[w][u] = NoRow,
               w = Own(u) => job[w].task # {u} /\ job'[w].task # {u}
        PROVE  PotInv(u)'
    <2>1. CASE Own(u) # w BY <2>1, <1>2, <1>a, <1>c, PotElsewhere
    <2>2. CASE Own(u) = w
      <3>1. Readable(u)' <= Readable(u) BY <1>2, PotRange DEF Readable
      <3> QED BY <3>1, <2>2, <1>2, <1>a, PotAside
    <2> QED BY <2>1, <2>2
  <1>3. ASSUME NEW k \in Kinds, BulkFail(w, k) PROVE PotInv(u)'
    <2>1. UNCHANGED <<kind, refunds, opened, relost>> BY <1>3 DEF BulkFail
    <2>2. job[w] = Idle /\ Leave(w, Batch(w, k)) BY <1>3 DEF BulkFail, Starts
    <2>3. CASE Own(u) # w
      <3>1. row'[u] = row[u] BY <2>3, <1>b, <1>3 DEF BulkFail, Batch, Held, LoopInv
      <3> QED BY <3>1, <2>1, <2>2, <2>3, <1>a, <1>c, LeaveFacts, PotElsewhere
    <2>4. CASE Own(u) = w
      <3>1. [row[u] EXCEPT !.state = "failure"].state = "failure"
        BY <1>a, FailedRowState DEF OtherTypes
      <3>2. row'[u] = row[u] \/ row'[u] = [row[u] EXCEPT !.state = "failure"]
        BY <1>3 DEF BulkFail
      <3>3. row'[u].state = "running" => row[u].state = "running" BY <3>1, <3>2
      <3>4. Readable(u)' <= Readable(u) BY <3>3, PotRange DEF Readable
      <3>5. job'[w] = Idle /\ (mem'[w][u] # NoRow => mem[w][u] # NoRow)
        BY <2>2, <1>a, LeaveFacts
      <3> QED BY <3>4, <3>5, <2>1, <2>2, <2>4, <1>a, <1>d, PotAside
    <2> QED BY <2>3, <2>4
  <1>4. ASSUME NEW k \in Kinds, Ask(w, k) PROVE PotInv(u)'
    <2>1. UNCHANGED <<kind, row, job, refunds, opened, relost>> /\ job[w] = Idle
      BY <1>4 DEF Ask, Starts, history
    <2>2. /\ \A v \in Loops : v # w => mem'[v] = mem[v]
          /\ mem[w][u] = NoRow => mem'[w][u] = NoRow
      BY <1>4, <1>a DEF Ask, LoopTypes
    <2> QED BY <2>1, <2>2, <1>2, <1>d
  <1>5. ASSUME NEW T, Leave(w, T), job[w] = Idle,
               UNCHANGED <<kind, row, refunds, opened, relost>>
        PROVE  PotInv(u)'
    BY <1>5, <1>2, <1>a, <1>d, LeaveFacts
  <1>6. ASSUME NEW k \in Kinds, AskFails(w, k) PROVE PotInv(u)'
    BY <1>5, <1>6 DEF AskFails, Starts, history
  <1>7. ASSUME NEW t \in Tasks, VideoFails(w, t) \/ Same(w, t) PROVE PotInv(u)'
    BY <1>5, <1>7 DEF VideoFails, Same, history
  <1>8. ASSUME NEW t \in Tasks, NEW a \in States, a # "none",
               NEW n \in {"bill", "save", "refund"}, NEW b \in BOOLEAN,
               Begin(w, t, a, n, b), n = "refund" => kind[t] = "suno",
               job[w] = Idle, ans[w][t] # "none",
               UNCHANGED <<kind, row, refunds, opened, relost>>
        PROVE  PotInv(u)'
    <2>1. /\ \A v \in Loops : v # w => mem'[v] = mem[v] /\ job'[v] = job[v]
          /\ \A x \in Tasks : x # t => mem'[w][x] = mem[w][x]
          /\ mem'[w][t].state = a /\ job'[w].task = {t} /\ job'[w].step = n
      BY <1>8, <1>a, BeginFacts
    <2>2. CASE u # t BY <2>1, <2>2, <1>2, <1>8, <1>d
    <2>3. CASE u = t
      <3>1. w = Own(t) /\ mem[w][t] # NoRow /\ mem'[w][t] # NoRow
        BY <1>8, <1>b, <1>d, <2>1 DEF LoopInv
      <3>2. ~Owed(u) /\ ~Closing(u) BY <3>1, <2>3, <1>8, <1>d DEF Owed, Closing
      <3>3. ~Owed(u)' BY <3>1, <2>1, <2>3, <1>8 DEF Owed, Own
      <3>4. Pot(u) = 1 /\ Pot(u)' <= 1
        BY <3>1, <3>2, <3>3, <2>3, <1>8, PotValues, PotValuesNext
      <3> QED BY <3>4, <1>8, <1>a, <1>e, PotRange, PotStep
    <2> QED BY <2>2, <2>3
  <1>9. ASSUME NEW t \in Tasks, Video(w, t) PROVE PotInv(u)'
    <2>1. PICK a \in Answers(t) :
             Begin(w, t, a, IF a = "success" /\ cost[t] \notin {0, mem[w][t].quota}
                              THEN "bill" ELSE "save", Due(w, t, a))
      BY <1>9 DEF Video
    <2>2. up[t] # "lost" /\ up[t] # "none" /\ ans[w][t] # "none" /\ job[w] = Idle
      BY <1>9, <1>b DEF Video, LoopInv
    <2>3. a \in States /\ a # "none" BY <2>1, <2>2, <1>a, AnswersAreStates DEF Answers
    <2>4. UNCHANGED <<kind, row, refunds, opened, relost>> BY <1>9 DEF Video, history
    <2>5. Due(w, t, a) \in BOOLEAN BY DEF Due
    <2> QED BY <1>8, <2>1, <2>2, <2>3, <2>4, <2>5
  <1>10. ASSUME NEW t \in Tasks, Song(w, t) PROVE PotInv(u)'
    <2>0. kind[t] = "suno" /\ ans[w][t] # "none" BY <1>10 DEF Song
    <2>1. ans[w][t] \in States /\ ans[w][t] # "none"
      <3>1. ans[w][t] \in States \cup {"ask"} BY <1>a DEF LoopTypes
      <3>2. ans[w][t] # "ask" BY <2>0, <1>b DEF LoopInv, Videos
      <3> QED BY <3>1, <3>2, <2>0
    <2>2. PICK b \in BOOLEAN : b = (Due(w, t, ans[w][t]) /\ ~failed[w]) OBVIOUS
    <2>3. Begin(w, t, ans[w][t], IF b THEN "refund" ELSE "save", b)
      BY <2>2, <1>10 DEF Song
    <2> QED BY <1>8, <1>10, <2>1, <2>3 DEF Song
  <1>11. ASSUME NEW t \in Tasks, Picture(w, t) PROVE PotInv(u)'
    <2>1. ans[w][t] \in States /\ ans[w][t] # "none"
      BY <1>11, <1>a, <1>b DEF Picture, LoopInv, LoopTypes, Videos, Pictures
    <2>2. Due(w, t, ans[w][t]) \in BOOLEAN BY DEF Due
    <2> QED BY <1>8, <1>11, <2>1, <2>2 DEF Picture, history
  \* The steps at a task t of the loop's.
  <1>t. ASSUME NEW t \in Tasks, job[w].task = {t}
        PROVE  w = Own(t) /\ mem[w][t] # NoRow
    BY <1>t, <1>b DEF LoopInv
  \* They leave the other tasks alone.
  <1>12. ASSUME NEW t \in Tasks, job[w].task = {t}, u # t, UNCHANGED kind,
                row'[u] = row[u], refunds'[u] = refunds[u], opened'[u] = opened[u],
                relost'[u] = relost[u], job'[w].task \in {{}, {t}},
                mem'[w][u] = mem[w][u],
                \A v \in Loops : v # w => mem'[v] = mem[v] /\ job'[v] = job[v]
         PROVE  PotInv(u)'
    <2>1. CASE Own(u) # w BY <2>1, <1>12, <1>a, <1>c, PotElsewhere
    <2>2. CASE Own(u) = w
      <3>1. Readable(u)' <= Readable(u) BY <1>12, PotRange DEF Readable
      <3> QED BY <3>1, <2>2, <1>12, <1>a, PotAside
    <2> QED BY <2>1, <2>2
  <1>13. ASSUME NEW n \in {"save", "refund"}, job' = [job EXCEPT ![w].step = n]
         PROVE  /\ job'[w].task = job[w].task /\ job'[w].step = n
                /\ job'[w].refund = job[w].refund
                /\ \A v \in Loops : v # w => job'[v] = job[v]
    BY <1>13, <1>a, JobChanges DEF LoopTypes
  <1>14. ASSUME NEW t \in Tasks, Bill(w, t) \/ BillFails(w, t) PROVE PotInv(u)'
    <2>1. /\ job[w].task = {t} /\ job[w].step = "bill"
          /\ job' = [job EXCEPT ![w].step = "save"]
          /\ UNCHANGED <<kind, row, refunds, opened, relost>>
      BY <1>14 DEF Bill, BillFails, history
    <2>2. /\ \A v \in Loops : v # w => mem'[v] = mem[v]
          /\ \A x \in Tasks : x # t => mem'[w][x] = mem[w][x]
      BY <1>14, <1>a DEF Bill, BillFails, LoopTypes
    <2>3. CASE u # t BY <2>1, <2>2, <2>3, <1>12, <1>13
    <2>4. CASE u = t
      <3>1. w = Own(t) /\ mem[w][t] # NoRow /\ ~job[w].refund
        BY <2>1, <1>b DEF LoopInv
      <3>2. ~Owed(u) /\ ~Closing(u) BY <3>1, <2>1, <2>4 DEF Owed, Closing
      <3>3. ~Owed(u)' /\ ~Closing(u)' BY <3>1, <2>1, <2>4, <1>13 DEF Owed, Closing, Own
      <3>4. Pot(u) = 1 /\ Pot(u)' <= 1
        BY <3>1, <3>2, <3>3, <2>1, <2>4, PotValues, PotValuesNext, PotRange
      <3> QED BY <3>4, <2>1, <1>a, <1>e, PotRange, PotStep
    <2> QED BY <2>3, <2>4
  <1>15. ASSUME NEW t \in Tasks, Save(w, t) PROVE PotInv(u)'
    <2>1. /\ job[w].task = {t} /\ job[w].step = "save" /\ Write(t, mem[w][t])
          /\ UNCHANGED <<kind, refunds, relost>>
      BY <1>15 DEF Save
    <2>2. w = Own(t) /\ mem[w][t] # NoRow /\ mem[w][t] \in Row
      BY <2>1, <1>t, <1>a DEF LoopTypes
    <2>3. /\ \A x \in Tasks : x # t => row'[x] = row[x] /\ opened'[x] = opened[x]
          /\ row'[t] = mem[w][t] /\ opened[t] <= opened'[t] /\ opened'[t] \in Nat
      BY <2>1, <2>2, <1>a, WriteTypes DEF OtherTypes
    <2>4. job[w].refund => mem[w][t].state = "failure" BY <2>1, <1>b DEF LoopInv
    <2>5. CASE job[w].refund /\ kind[t] # "suno"
      <3>1. job' = [job EXCEPT ![w].step = "refund"] /\ UNCHANGED mem
        BY <2>5, <1>15 DEF Save
      <3>2. CASE u # t BY <3>1, <3>2, <2>1, <2>3, <1>12, <1>13
      <3>3. CASE u = t
        <4>1. ~Owed(u) /\ ~Closing(u) BY <3>3, <2>1, <2>2, <2>5 DEF Owed, Closing
        <4>2. Owed(u)' BY <3>1, <3>3, <2>1, <2>2, <2>5, <1>13 DEF Owed, Own
        <4>3. Readable(u)' = 0 BY <3>3, <2>3, <2>4, <2>5 DEF Readable
        <4>4. Pot(u) = 1 /\ Pot(u)' = 1
          BY <4>1, <4>2, <4>3, <3>1, <3>3, <2>1, <2>2, PotValues, PotValuesNext
        <4> QED BY <4>4, <3>3, <2>1, <2>3, <1>a, <1>e, PotStep
      <3> QED BY <3>2, <3>3
    <2>6. CASE ~(job[w].refund /\ kind[t] # "suno")
      <3>1. Leave(w, {t}) BY <2>6, <1>15 DEF Save
      <3>2. /\ \A v \in Loops : v # w => mem'[v] = mem[v] /\ job'[v] = job[v]
            /\ \A x \in Tasks : x # t => mem'[w][x] = mem[w][x]
            /\ mem'[w][t] = NoRow /\ job'[w].task = {}
        BY <3>1, <1>a, LeaveFacts DEF Idle
      <3>3. CASE u # t BY <3>2, <3>3, <2>1, <2>3, <1>12
      <3>4. CASE u = t
        <4>1. ~Owed(u) BY <3>4, <2>1, <2>2 DEF Owed
        <4>2. Pot(u)' = Readable(u)' BY <3>2, <3>4, <2>1, <2>2, PotValuesNext
        <4>3. CASE Closing(u)
          <5>1. Readable(u)' = 0 BY <4>3, <3>4, <2>2, <2>3, <2>4 DEF Readable, Closing
          <5> QED BY <5>1, <4>2, <3>4, <2>1, <2>3, <1>a, <1>e, PotRange, PotStep
        <4>4. CASE ~Closing(u)
          <5>1. Pot(u) = 1 BY <4>1, <4>4, <3>4, <2>2, PotValues
          <5> QED BY <5>1, <4>2, <3>4, <2>1, <2>3, <1>a, <1>e, PotRange, PotStep
        <4> QED BY <4>3, <4>4
      <3> QED BY <3>3, <3>4
    <2> QED BY <2>5, <2>6
  <1>16. ASSUME NEW t \in Tasks, SaveFails(w, t) PROVE PotInv(u)'
    <2>1. /\ job[w].task = {t} /\ job[w].step = "save" /\ Leave(w, {t})
          /\ UNCHANGED <<kind, row, refunds, opened>>
          /\ relost' = [relost EXCEPT ![t] = IF Refunded(w, t) THEN @ + 1 ELSE @]
      BY <1>16 DEF SaveFails
    <2>2. w = Own(t) /\ mem[w][t] # NoRow BY <2>1, <1>t
    <2>3. /\ \A v \in Loops : v # w => mem'[v] = mem[v] /\ job'[v] = job[v]
          /\ \A x \in Tasks : x # t => mem'[w][x] = mem[w][x]
          /\ mem'[w][t] = NoRow /\ job'[w].task = {}
      BY <2>1, <1>a, LeaveFacts DEF Idle
    <2>4. /\ \A x \in Tasks : x # t => relost'[x] = relost[x]
          /\ relost'[t] = relost[t] + (IF Refunded(w, t) THEN 1 ELSE 0)
      BY <2>1, <1>a DEF OtherTypes
    <2>5. CASE u # t BY <2>1, <2>3, <2>4, <2>5, <1>12
    <2>6. CASE u = t
      <3>1. ~Owed(u) BY <2>1, <2>2, <2>6 DEF Owed
      <3>2. Pot(u)' = Readable(u)' BY <2>1, <2>2, <2>3, <2>6, PotValuesNext
      <3>3. CASE Closing(u)
        <4>1. relost'[u] = relost[u] + 1 BY <3>3, <2>2, <2>4, <2>6 DEF Closing, Refunded
        <4> QED BY <4>1, <3>2, <2>1, <1>a, <1>e, PotRange, PotStep
      <3>4. CASE ~Closing(u)
        <4>1. Pot(u) = 1 BY <3>1, <3>4, <2>2, <2>6, PotValues
        <4>2. relost'[u] >= relost[u] BY <2>4, <2>6, <1>e
        <4>3. relost'[u] \in Nat BY <1>a DEF OtherTypes
        <4> QED BY <4>1, <4>2, <4>3, <3>2, <2>1, <1>a, <1>e, PotRange, PotStep
      <3> QED BY <3>3, <3>4
    <2> QED BY <2>5, <2>6
  <1>17. ASSUME NEW t \in Tasks, Refund(w, t) \/ RefundFails(w, t) PROVE PotInv(u)'
    <2>1. /\ job[w].task = {t} /\ job[w].step = "refund"
          /\ UNCHANGED <<kind, row, opened, relost>>
      BY <1>17 DEF Refund, RefundFails
    <2>b. PICK b \in BOOLEAN : AfterRefund(w, t, b) /\ (~b => refunds' = refunds)
      BY <1>17 DEF Refund, RefundFails
    <2>2. w = Own(t) /\ mem[w][t] # NoRow /\ job[w].refund
      BY <2>1, <1>b DEF LoopInv
    <2>3. /\ \A x \in Tasks : x # t => refunds'[x] = refunds[x]
          /\ refunds'[t] <= refunds[t] + 1 /\ refunds'[t] \in Nat
      <3>1. refunds' = refunds \/ refunds' = [refunds EXCEPT ![t] = refunds[t] + 1]
        BY <1>17 DEF Refund, RefundFails
      <3> QED BY <3>1, <1>a DEF OtherTypes
    <2>4. CASE kind[t] = "suno"
      <3>1. /\ mem' = mem /\ \A v \in Loops : v # w => job'[v] = job[v]
            /\ job'[w].task = {t} /\ job'[w].step = "save" /\ job'[w].refund = b
        BY <2>b, <2>4, <1>a, AfterRefundFacts
      <3>2. CASE u # t BY <3>1, <3>2, <2>1, <2>3, <1>12
      <3>3. CASE u = t
        <4>1. ~Owed(u) /\ ~Closing(u) BY <3>3, <2>1, <2>2, <2>4 DEF Owed, Closing
        <4>2. ~Owed(u)' /\ (Closing(u)' <=> b)
          BY <3>1, <3>3, <2>1, <2>2, <2>4 DEF Owed, Closing, Own
        <4>3. Pot(u) = 1 /\ Pot(u)' = IF b THEN 0 ELSE 1
          BY <4>1, <4>2, <3>1, <3>3, <2>1, <2>2, PotValues, PotValuesNext
        <4>4. CASE b BY <4>3, <4>4, <3>3, <2>1, <2>3, <1>a, <1>e, PotStep
        <4>5. CASE ~b BY <4>3, <4>5, <3>3, <2>1, <2>b, <1>a, <1>e, PotStep
        <4> QED BY <4>4, <4>5
      <3> QED BY <3>2, <3>3
    <2>5. CASE kind[t] # "suno"
      <3>1. Leave(w, {t}) BY <2>b, <2>5 DEF AfterRefund
      <3>2. /\ \A v \in Loops : v # w => mem'[v] = mem[v] /\ job'[v] = job[v]
            /\ \A x \in Tasks : x # t => mem'[w][x] = mem[w][x]
            /\ mem'[w][t] = NoRow /\ job'[w].task = {}
        BY <3>1, <1>a, LeaveFacts DEF Idle
      <3>3. CASE u # t BY <3>2, <3>3, <2>1, <2>3, <1>12
      <3>4. CASE u = t
        <4>1. Owed(u) BY <3>4, <2>1, <2>2, <2>5 DEF Owed
        <4>2. Pot(u) = 1 + Readable(u) BY <4>1, <3>4, <2>2, PotValues
        <4>3. Pot(u)' = Readable(u)' BY <3>2, <3>4, <2>1, <2>2, PotValuesNext
        <4>4. Readable(u)' = Readable(u) BY <2>1 DEF Readable
        <4> QED BY <4>2, <4>3, <4>4, <3>4, <2>1, <2>3, <1>a, <1>e, PotRange, PotStep
      <3> QED BY <3>3, <3>4
    <2> QED BY <2>4, <2>5
  <1> QED
    BY <1>1, <1>3, <1>4, <1>6, <1>7, <1>9, <1>10, <1>11, <1>14, <1>15, <1>16, <1>17
    DEF LoopStep, Failures

LEMMA PotNext ==
  ASSUME OneNode, TypeOK, TypeOK', Structure, [Next]_vars, NEW u \in Tasks, PotInv(u)
  PROVE  PotInv(u)'
  <1>a. OtherTypes /\ OtherTypes' /\ LoopTypes BY TypeParts, TypePartsNext
  <1>b. refunds[u] \in Nat /\ opened[u] \in Nat /\ relost[u] \in Nat BY <1>a DEF OtherTypes
  <1>1. CASE UNCHANGED <<kind, row, mem, job, refunds, opened, relost>>
    BY <1>1, <1>a, PotElsewhere
  <1>2. ASSUME NEW n \in Nodes, NEW S \in SUBSET Tasks, Crash(n, S) PROVE PotInv(u)'
    <2>1. UNCHANGED <<kind, row, refunds, opened>> BY <1>2 DEF Crash
    <2>2. Own(u) \in {n} \X {"task", "mj"} BY DEF OneNode, Own, LoopOf
    <2>3. mem'[Own(u)][u] = NoRow BY <2>2, <1>2, HomeLoops DEF Crash
    <2>4. Pot(u)' = Readable(u)' BY <2>1, <2>3, PotValuesNext
    <2>5. Readable(u)' = Readable(u) BY <2>1 DEF Readable
    <2>6. CASE mem[Own(u)][u] # NoRow /\ ~Owed(u) /\ Closing(u)
      <3>0. Refunded(Own(u), u) BY <2>6 DEF Closing, Refunded
      <3>1. relost'[u] = relost[u] + 1 BY <3>0, <2>2, <1>2 DEF Crash
      <3> QED BY <3>1, <2>1, <2>4, <1>a, <1>b, PotRange, PotStep
    <2>7. CASE ~(mem[Own(u)][u] # NoRow /\ ~Owed(u) /\ Closing(u))
      <3>1. Pot(u) >= Readable(u) BY <2>7, PotValues, PotRange
      <3>2. relost'[u] \in Nat /\ relost'[u] >= relost[u] BY <1>2, <1>a, <1>b DEF Crash, OtherTypes
      <3> QED BY <3>1, <3>2, <2>1, <2>4, <2>5, <1>a, <1>b, PotRange, PotStep
    <2> QED BY <2>6, <2>7
  <1> QED
    BY <1>1, <1>2, PotSubmission, PotLoop
    DEF Next, vars, loops, history, DeleteChannel

(***************************************************************************)
(* What a task costs                                                       *)
(***************************************************************************)
LEMMA EarlySubmission ==
  ASSUME TypeOK, NEW t \in Tasks, NEW u \in Tasks, EarlyInv(u),
         \/ Accept(t) \/ Reject(t) \/ Submission(t) \/ InsertFails(t) \/ ChargeFails(t)
         \/ Finish(t) \/ UserFetch(t) \/ Notify(t) \/ OutsideSave(t)
  PROVE  EarlyInv(u)'
  <1>a. OtherTypes BY TypeParts
  <1> USE DEF OtherTypes, EarlyInv, provider
  <1>1. CASE Accept(t) BY <1>1, <1>a DEF Accept
  <1>2. CASE Reject(t) BY <1>2, <1>a DEF Reject
  <1>3. CASE Insert(t) BY <1>3, <1>a DEF Insert, Free
  <1>4. CASE Charge(t) BY <1>4, <1>a DEF Charge
  <1>5. CASE InsertFails(t) BY <1>5, <1>a DEF InsertFails, Free
  <1>6. CASE ChargeFails(t) BY <1>6, <1>a DEF ChargeFails
  <1>7. CASE Finish(t) BY <1>7, <1>a DEF Finish
  <1>8. CASE UserFetch(t) \/ Notify(t) BY <1>8 DEF UserFetch, Notify, Outside
  <1>9. CASE OutsideSave(t) BY <1>9 DEF OutsideSave
  <1> QED BY <1>1, <1>2, <1>3, <1>4, <1>5, <1>6, <1>7, <1>8, <1>9 DEF Submission

\* A step of a loop pays and refunds only tasks that have a row.
LEMMA EarlyLoop ==
  ASSUME TypeOK, Structure, NEW w \in Loops, NEW u \in Tasks, EarlyInv(u),
         LoopStep(w) \/ Failures(w) \/ \E t \in Tasks : Same(w, t)
  PROVE  EarlyInv(u)'
  <1>a. OtherTypes /\ LoopTypes BY TypeParts
  <1>1. UNCHANGED <<sub, up>>
    BY DEF LoopStep, Failures, Poll, BulkFail, Ask, Video, Song, Picture, Bill, Save, Refund,
           AskFails, VideoFails, BillFails, SaveFails, RefundFails, Same, provider
  <1>2. paid' = paid \/ \E t \in Tasks : Bill(w, t) \/ Refund(w, t)
    BY DEF LoopStep, Failures, Poll, BulkFail, Ask, Video, Song, Picture, Save,
           AskFails, VideoFails, BillFails, SaveFails, RefundFails, Same
  <1>3. ASSUME NEW t \in Tasks, Bill(w, t) \/ Refund(w, t)
        PROVE  paid'[u] = paid[u] \/ sub[u] \notin {"new", "accepted", "rejected"}
    <2>1. job[w].task = {t} /\ (u # t => paid'[u] = paid[u])
      BY <1>3, <1>a DEF Bill, Refund, OtherTypes
    <2>2. mem[w][t] # NoRow BY <2>1 DEF Structure, LoopInv
    <2> QED BY <2>1, <2>2 DEF Structure, TaskInv
  <1> QED BY <1>1, <1>2, <1>3 DEF EarlyInv

LEMMA EarlyNext ==
  ASSUME TypeOK, Structure, [Next]_vars, NEW u \in Tasks, EarlyInv(u)
  PROVE  EarlyInv(u)'
  <1>a. OtherTypes BY TypeParts
  <1>1. CASE UNCHANGED vars BY <1>1 DEF vars, provider, EarlyInv
  <1>2. ASSUME NEW k \in Kinds, DeleteChannel(k) PROVE EarlyInv(u)'
    BY <1>2 DEF DeleteChannel, EarlyInv
  <1>3. ASSUME NEW n \in Nodes, NEW S \in SUBSET Tasks, Crash(n, S) PROVE EarlyInv(u)'
    BY <1>3, <1>a DEF Crash, EarlyInv, provider, OtherTypes
  <1> QED BY <1>1, <1>2, <1>3, EarlySubmission, EarlyLoop DEF Next

\* The loop of a task goes on as before, or is not at the task and has at most
\* dropped its row.
LEMMA PriceKept ==
  ASSUME NEW t \in Tasks, PriceInv(t), UNCHANGED kind, row'[t] = row[t],
         Watched(t)' => Watched(t) /\ Balance(t)' = Balance(t),
         \/ mem'[Own(t)][t] = mem[Own(t)][t] /\ job'[Own(t)] = job[Own(t)]
         \/ /\ job[Own(t)].task # {t} /\ job'[Own(t)].task # {t}
            /\ mem'[Own(t)][t] \in {NoRow, mem[Own(t)][t]}
  PROVE  PriceInv(t)'
  <1>1. Own(t)' = Own(t) BY DEF Own
  <1> SUFFICES ASSUME Watched(t)'
               PROVE  IF job'[Own(t)].task = {t} THEN Working(t)' ELSE Resting(t)'
    BY <1>1 DEF PriceInv
  <1>2. IF job[Own(t)].task = {t} THEN Working(t) ELSE Resting(t) BY DEF PriceInv
  <1>3. Resting(t) /\ mem'[Own(t)][t] \in {NoRow, mem[Own(t)][t]} => Resting(t)'
    BY <1>1 DEF Resting
  <1>4. Working(t) /\ mem'[Own(t)][t] = mem[Own(t)][t] /\ job'[Own(t)] = job[Own(t)]
          => Working(t)'
    BY <1>1 DEF Working
  <1> QED BY <1>2, <1>3, <1>4

LEMMA PriceSubmission ==
  ASSUME OneNode, TypeOK, Structure, NEW t \in Tasks, NEW u \in Tasks, PriceInv(u), EarlyInv(u),
         \/ Accept(t) \/ Reject(t) \/ Submission(t) \/ InsertFails(t) \/ ChargeFails(t)
         \/ Finish(t) \/ UserFetch(t) \/ Notify(t) \/ OutsideSave(t)
  PROVE  PriceInv(u)'
  <1>a. OtherTypes /\ LoopTypes BY TypeParts
  <1>b. UNCHANGED <<kind, mem, job>>
    BY DEF Accept, Reject, Submission, Insert, Charge, InsertFails, ChargeFails, Finish,
           UserFetch, Notify, Outside, OutsideSave, loops
  <1>c. paid[u] \in Int /\ Price \in Nat BY <1>a, Constants DEF OtherTypes
  <1>1. ASSUME row'[u] = row[u], Watched(u)' => Watched(u) /\ Balance(u)' = Balance(u)
        PROVE  PriceInv(u)'
    BY <1>b, <1>1, PriceKept
  <1>2. CASE Accept(t)
    BY <1>1, <1>2, <1>a DEF Accept, Watched, Balance, OtherTypes, history
  <1>3. CASE Reject(t)
    BY <1>1, <1>3, <1>a DEF Reject, Watched, Balance, OtherTypes, history
  <1>4. CASE Charge(t)
    <2>1. row' = row /\ spoiled' = spoiled BY <1>4 DEF Charge, history
    <2>2. Watched(u)' => Watched(u) BY <2>1, <1>4, <1>a DEF Charge, Watched, OtherTypes
    <2>3. Balance(u)' = Balance(u)
      <3>1. CASE u # t BY <3>1, <1>4, <1>a DEF Charge, Balance, OtherTypes
      <3>2. CASE u = t
        <4>1. sub[u] = "inserted" /\ sub'[u] = "charged" /\ paid'[u] = paid[u] + Price
          BY <3>2, <1>4, <1>a DEF Charge, OtherTypes
        <4> QED BY <4>1, <1>c DEF Balance
      <3> QED BY <3>1, <3>2
    <2> QED BY <1>1, <2>1, <2>2, <2>3
  <1>5. CASE InsertFails(t) \/ ChargeFails(t)
    <2>1. row' = row /\ paid' = paid /\ spoiled' = spoiled \cup {t} /\ (u # t => sub'[u] = sub[u])
      BY <1>5, <1>a DEF InsertFails, ChargeFails, OtherTypes
    <2> QED BY <1>1, <2>1 DEF Watched, Balance
  <1>6. CASE Finish(t) BY <1>1, <1>6 DEF Finish, Watched, Balance, history
  <1>7. CASE UserFetch(t) \/ Notify(t)
    BY <1>1, <1>7 DEF UserFetch, Notify, Outside, Watched, Balance, history
  <1>8. CASE OutsideSave(t)
    <2>1. UNCHANGED <<sub, paid>> /\ spoiled' = spoiled \cup {t} /\ (u # t => row'[u] = row[u])
      BY <1>8, <1>a DEF OutsideSave, Write, OtherTypes
    <2>2. u = t => ~Watched(u)' BY <2>1 DEF Watched
    <2> QED BY <1>1, <2>1, <2>2 DEF PriceInv, Watched, Balance
  <1>9. CASE Insert(t)
    <2>1. /\ UNCHANGED <<paid, spoiled>> /\ (u # t => row'[u] = row[u] /\ sub'[u] = sub[u])
      BY <1>9, <1>a DEF Insert, Write, OtherTypes
    <2>2. CASE u # t BY <1>1, <2>1, <2>2 DEF Watched, Balance
    <2>3. CASE u = t
      <3>1. mem[Own(u)][u] = NoRow /\ job[Own(u)].task # {u}
        BY <1>9, <2>3, HomeLoops DEF Insert, Structure, TaskInv, LoopInv
      <3>2. row'[u] = [state |-> "running", quota |-> Price]
        BY <1>9, <2>3, <1>a DEF Insert, Write, OtherTypes
      <3>3. row'[u].state = "running" /\ row'[u].quota = Price BY <3>2
      <3>4. paid'[u] = 0 BY <1>9, <2>1, <2>3 DEF Insert, EarlyInv
      <3>5. Watched(u)' => sub'[u] = "inserted"
        BY <1>9, <2>3, <1>a DEF Insert, Watched, OtherTypes
      <3>6. sub'[u] = "inserted" => Balance(u)' = Value(row'[u])
        BY <3>3, <3>4, <1>c DEF Balance, Value
      <3>7. Own(u)' = Own(u) BY <1>b DEF Own
      <3> QED BY <3>1, <3>5, <3>6, <3>7, <1>b DEF PriceInv, Resting
    <2> QED BY <2>2, <2>3
  <1> QED BY <1>2, <1>3, <1>4, <1>5, <1>6, <1>7, <1>8, <1>9 DEF Submission

\* The balance is what was paid and what the submission still charges.
LEMMA BalanceDue ==
  ASSUME NEW t \in Tasks, UNCHANGED sub
  PROVE  \E d \in Nat : Balance(t) = paid[t] + d /\ Balance(t)' = paid'[t] + d
  <1>1. PICK d \in Nat : d = IF sub[t] = "inserted" THEN Price ELSE 0 BY Constants
  <1>2. Balance(t) = paid[t] + d BY <1>1 DEF Balance
  <1>3. Balance(t)' = paid'[t] + d BY <1>1 DEF Balance
  <1> QED BY <1>2, <1>3

\* A loop begins with a task it holds: the answer is in the row in memory.
LEMMA PriceBegin ==
  ASSUME OneNode, TypeOK, Structure, NEW w \in Loops, NEW t \in Tasks, PriceInv(t),
         NEW a \in States, NEW n \in {"bill", "save", "refund"},
         NEW b \in BOOLEAN, Begin(w, t, a, n, b), n = "bill" => a = "success",
         Watched(t)' => /\ b = Due(w, t, a)
                        /\ n = "refund" <=> kind[t] = "suno" /\ b,
         job[w] = Idle, ans[w][t] # "none",
         UNCHANGED <<kind, sub, row, paid>>, spoiled \subseteq spoiled'
  PROVE  PriceInv(t)'
  <1>a. LoopTypes /\ mem[w][t] \in Row BY TypeParts DEF LoopTypes
  <1>1. /\ mem'[w][t].state = a /\ mem'[w][t].quota = mem[w][t].quota
        /\ job'[w].task = {t} /\ job'[w].step = n /\ job'[w].refund = b
    BY <1>a, BeginFacts
  <1>2. w = Own(t) /\ mem[w][t] # NoRow /\ w = Own(t)' BY DEF Structure, LoopInv, Own
  <1> SUFFICES ASSUME Watched(t)' PROVE Working(t)'
    BY <1>1, <1>2 DEF PriceInv
  <1>3. Resting(t)
    <2>1. Watched(t) BY DEF Watched
    <2> QED BY <2>1, <1>2 DEF PriceInv, Idle
  <1>4. mem[w][t] = row[t] /\ row[t].state = "running" BY <1>2, <1>3 DEF Resting
  <1>5. Balance(t)' = mem'[w][t].quota
    <2>1. Balance(t) = mem[w][t].quota BY <1>3, <1>4 DEF Resting, Value
    <2> QED BY <2>1, <1>1 DEF Balance
  <1>6. n = "save" => Balance(t)' = IF job'[w].refund
                                      THEN IF kind[t] = "suno" THEN 0 ELSE mem'[w][t].quota
                                      ELSE Value(mem'[w][t])
    BY <1>1, <1>5 DEF Value, Due
  <1>7. n = "refund" => kind[t] = "suno" OBVIOUS
  <1> QED BY <1>1, <1>2, <1>5, <1>6, <1>7 DEF Working

\* The tokens are billed, and the row in memory is the new price.
LEMMA PriceBill ==
  ASSUME OneNode, TypeOK, Structure, NEW w \in Loops, NEW t \in Tasks, PriceInv(t),
         Bill(w, t) \/ BillFails(w, t)
  PROVE  PriceInv(t)'
  <1>a. OtherTypes /\ LoopTypes /\ mem[w][t] \in Row /\ job[w] \in Job
    BY TypeParts DEF LoopTypes
  <1>1. /\ job[w].task = {t} /\ job[w].step = "bill"
        /\ job' = [job EXCEPT ![w].step = "save"] /\ UNCHANGED <<kind, sub, row, spoiled>>
    BY DEF Bill, BillFails, history
  <1>2. w = Own(t) /\ ~job[w].refund /\ w = Own(t)' BY <1>1 DEF Structure, LoopInv, Own
  <1>3. job'[w].task = {t} /\ job'[w].step = "save" /\ ~job'[w].refund
    BY <1>1, <1>2, <1>a, JobChanges DEF LoopTypes
  <1> SUFFICES ASSUME Watched(t)' PROVE Working(t)'
    BY <1>2, <1>3 DEF PriceInv
  <1>4. Balance(t) = mem[w][t].quota /\ mem[w][t].state = "success"
    <2>1. Watched(t) BY <1>1 DEF Watched
    <2> QED BY <2>1, <1>1, <1>2 DEF PriceInv, Working
  <1>5. mem'[w][t].state = "success" /\ Balance(t)' = mem'[w][t].quota
    <2>1. CASE BillFails(w, t) BY <2>1, <1>1, <1>4 DEF BillFails, Balance
    <2>2. CASE Bill(w, t)
      <3>1. cost[t] \in Nat BY <1>a, CostsAreNumbers DEF OtherTypes
      <3>2. mem' = [mem EXCEPT ![w][t] = [mem[w][t] EXCEPT !.quota = cost[t]]]
        BY <2>2, <1>a DEF Bill, LoopTypes
      <3>3. mem'[w][t] = [mem[w][t] EXCEPT !.quota = cost[t]] BY <3>2, <1>a DEF LoopTypes
      <3>4. mem'[w][t].state = "success" /\ mem'[w][t].quota = cost[t]
        BY <3>3, <1>4, <1>a DEF Row
      <3>5. paid'[t] = paid[t] + cost[t] - mem[w][t].quota
        BY <2>2, <1>a DEF Bill, OtherTypes
      <3>6. PICK d \in Nat : Balance(t) = paid[t] + d /\ Balance(t)' = paid'[t] + d
        BY <1>1, BalanceDue
      <3>7. paid[t] \in Int /\ mem[w][t].quota \in Nat BY <1>a DEF OtherTypes, Row
      <3> QED BY <3>1, <3>4, <3>5, <3>6, <3>7, <1>4
    <2> QED BY <2>1, <2>2
  <1> QED BY <1>2, <1>3, <1>5 DEF Working, Value

\* The row is saved: it says what the task has cost, but for the refund to come.
LEMMA PriceSave ==
  ASSUME OneNode, TypeOK, Structure, NEW w \in Loops, NEW t \in Tasks, PriceInv(t), Save(w, t)
  PROVE  PriceInv(t)'
  <1>a. OtherTypes /\ LoopTypes /\ mem[w][t] \in Row /\ job[w] \in Job
    BY TypeParts DEF LoopTypes
  <1>1. /\ job[w].task = {t} /\ job[w].step = "save" /\ Write(t, mem[w][t])
        /\ UNCHANGED <<kind, sub, paid, spoiled>>
    BY DEF Save
  <1>2. /\ w = Own(t) /\ w = Own(t)' /\ (job[w].refund => mem[w][t].state = "failure")
    BY <1>1 DEF Structure, LoopInv, Own
  <1>3. row'[t] = mem[w][t] BY <1>1, <1>a, WriteTypes
  <1> SUFFICES ASSUME Watched(t)'
               PROVE  IF job'[w].task = {t} THEN Working(t)' ELSE Resting(t)'
    BY <1>2 DEF PriceInv
  <1>4. /\ Balance(t)' = Balance(t)
        /\ Balance(t) = IF job[w].refund
                          THEN IF kind[t] = "suno" THEN 0 ELSE mem[w][t].quota
                          ELSE Value(mem[w][t])
    <2>1. Watched(t) BY <1>1 DEF Watched
    <2> QED BY <2>1, <1>1, <1>2 DEF PriceInv, Working, Balance
  <1>5. CASE job[w].refund /\ kind[t] # "suno"
    <2>1. job' = [job EXCEPT ![w].step = "refund"] /\ UNCHANGED mem BY <1>5 DEF Save
    <2>2. job'[w].task = {t} /\ job'[w].step = "refund"
      BY <2>1, <1>1, <1>a, JobChanges DEF LoopTypes
    <2> QED BY <2>1, <2>2, <1>2, <1>3, <1>4, <1>5 DEF Working
  <1>6. CASE ~(job[w].refund /\ kind[t] # "suno")
    <2>1. Leave(w, {t}) BY <1>6 DEF Save
    <2>2. mem'[w][t] = NoRow /\ job'[w].task # {t}
      <3>1. Idle.task # {t} BY DEF Idle
      <3> QED BY <2>1, <3>1, <1>a, LeaveFacts
    <2>3. Balance(t)' = Value(row'[t]) BY <1>2, <1>3, <1>4, <1>6 DEF Value
    <2> QED BY <2>2, <2>3, <1>2 DEF Resting
  <1> QED BY <1>5, <1>6

\* The refund is paid: the task has cost nothing.
LEMMA PriceRefund ==
  ASSUME OneNode, TypeOK, Structure, NEW w \in Loops, NEW t \in Tasks, PriceInv(t), Refund(w, t)
  PROVE  PriceInv(t)'
  <1>a. OtherTypes /\ LoopTypes /\ mem[w][t] \in Row /\ job[w] \in Job
    BY TypeParts DEF LoopTypes
  <1>1. /\ job[w].task = {t} /\ job[w].step = "refund" /\ AfterRefund(w, t, TRUE)
        /\ UNCHANGED <<kind, sub, row, spoiled>> /\ paid'[t] = paid[t] - mem[w][t].quota
    BY <1>a DEF Refund, OtherTypes
  <1>2. /\ w = Own(t) /\ w = Own(t)' /\ job[w].refund /\ mem[w][t].state = "failure"
    BY <1>1 DEF Structure, LoopInv, Own
  <1> SUFFICES ASSUME Watched(t)'
               PROVE  IF job'[w].task = {t} THEN Working(t)' ELSE Resting(t)'
    BY <1>2 DEF PriceInv
  <1>3. Balance(t) = mem[w][t].quota /\ (kind[t] # "suno" => row[t] = mem[w][t])
    <2>1. Watched(t) BY <1>1 DEF Watched
    <2> QED BY <2>1, <1>1, <1>2 DEF PriceInv, Working
  <1>4. Balance(t)' = 0
    <2>1. PICK d \in Nat : Balance(t) = paid[t] + d /\ Balance(t)' = paid'[t] + d
      BY <1>1, BalanceDue
    <2>2. paid[t] \in Int /\ mem[w][t].quota \in Nat BY <1>a DEF OtherTypes, Row
    <2> QED BY <2>1, <2>2, <1>1, <1>3
  <1>5. CASE kind[t] = "suno"
    <2>1. job'[w].task = {t} /\ job'[w].step = "save" /\ job'[w].refund
      BY <1>1, <1>5, <1>a, AfterRefundFacts
    <2> QED BY <2>1, <1>1, <1>2, <1>4, <1>5 DEF Working
  <1>6. CASE kind[t] # "suno"
    <2>1. Leave(w, {t}) BY <1>1, <1>6 DEF AfterRefund
    <2>2. mem'[w][t] = NoRow /\ job'[w].task # {t}
      <3>1. Idle.task # {t} BY DEF Idle
      <3> QED BY <2>1, <3>1, <1>a, LeaveFacts
    <2>3. Value(row'[t]) = 0 BY <1>1, <1>2, <1>3, <1>6 DEF Value
    <2> QED BY <2>2, <2>3, <1>2, <1>4 DEF Resting
  <1> QED BY <1>5, <1>6

LEMMA PriceLoop ==
  ASSUME OneNode, TypeOK, Structure, NEW w \in Loops,
         LoopStep(w) \/ Failures(w) \/ \E t \in Tasks : Same(w, t),
         NEW u \in Tasks, PriceInv(u), EarlyInv(u)
  PROVE  PriceInv(u)'
  <1>a. OtherTypes /\ LoopTypes BY TypeParts
  <1>b. \A v \in Loops, t \in Tasks : LoopInv(v, t) BY DEF Structure
  <1>c. Own(u) \in Loops BY HomeLoops
  <1>d. NoRow.state = "none" /\ Idle.task = {} /\ Idle.task # {u} BY DEF NoRow, Idle
  \* The loop is not at the task, and has at most dropped it.
  <1>1. ASSUME UNCHANGED <<kind, sub>>, paid'[u] = paid[u], row'[u] = row[u],
               spoiled \subseteq spoiled',
               \A v \in Loops : v # w => mem'[v] = mem[v] /\ job'[v] = job[v],
               mem'[w][u] \in {NoRow, mem[w][u]}, job[w].task # {u}, job'[w].task # {u}
        PROVE  PriceInv(u)'
    <2>1. Watched(u)' => Watched(u) /\ Balance(u)' = Balance(u) BY <1>1 DEF Watched, Balance
    <2>2. CASE Own(u) # w BY <2>1, <2>2, <1>1, <1>c, PriceKept
    <2>3. CASE Own(u) = w BY <2>1, <2>3, <1>1, PriceKept
    <2> QED BY <2>2, <2>3
  <1>2. CASE Poll(w)
    <2>1. UNCHANGED <<kind, sub, paid, spoiled, job>> BY <1>2 DEF Poll, history
    <2>2. (Watched(u)' <=> Watched(u)) /\ Balance(u)' = Balance(u) BY <2>1 DEF Watched, Balance
    <2>3. CASE Own(u) # w
      <3>1. mem'[Own(u)] = mem[Own(u)] BY <1>2, <1>a, <1>c, <2>3 DEF Poll, LoopTypes
      <3>2. LoopOf(kind[u]) # w[2] BY <2>3, HomeLoops DEF Own
      <3>3. row'[u] = row[u] BY <1>2, <3>2, <1>a, PollFacts
      <3> QED BY <2>1, <2>2, <3>1, <3>3, PriceKept
    <2>4. CASE Own(u) = w
      <3>1. mem[w][u] = NoRow BY <1>2 DEF Poll, Held
      <3>2. job[w].task # {u} BY <3>1, <1>b DEF LoopInv
      <3> SUFFICES ASSUME Watched(u) PROVE Resting(u)'
        BY <3>2, <2>1, <2>2, <2>4 DEF PriceInv, Own
      <3>3. Resting(u) BY <3>2, <2>4 DEF PriceInv
      <3>4. up[u] # "none" BY DEF Watched, EarlyInv
      <3>5. row'[u] = row[u] BY <3>4, <1>2, <1>a, PollFacts
      <3>6. mem'[w][u] # NoRow => mem'[w][u] = row[u] /\ row[u].state = "running"
        BY <1>2, <1>a, PollFacts
      <3>7. Own(u)' = w BY <2>1, <2>4 DEF Own
      <3> QED BY <3>3, <3>5, <3>6, <3>7, <2>2 DEF Resting
    <2> QED BY <2>3, <2>4
  <1>3. ASSUME NEW T, Leave(w, T), UNCHANGED <<kind, sub>>, paid'[u] = paid[u], row'[u] = row[u],
               spoiled \subseteq spoiled', job[w].task # {u}
        PROVE  PriceInv(u)'
    <2>1. /\ \A v \in Loops : v # w => mem'[v] = mem[v] /\ job'[v] = job[v]
          /\ mem'[w][u] \in {NoRow, mem[w][u]} /\ job'[w] = Idle
      BY <1>3, <1>a, LeaveFacts
    <2> QED BY <2>1, <1>1, <1>3, <1>d
  <1>4. ASSUME NEW k \in Kinds, BulkFail(w, k) PROVE PriceInv(u)'
    <2>1. /\ UNCHANGED <<kind, sub, paid>> /\ spoiled' = spoiled \cup Batch(w, k)
          /\ Leave(w, Batch(w, k)) /\ job[w] = Idle
      BY <1>4 DEF BulkFail, Starts
    <2>2. CASE u \in Batch(w, k)
      <3>1. ~Watched(u)' BY <2>1, <2>2 DEF Watched
      <3> QED BY <3>1 DEF PriceInv
    <2>3. CASE u \notin Batch(w, k)
      <3>1. row'[u] = row[u] BY <1>4, <2>3 DEF BulkFail
      <3> QED BY <3>1, <2>1, <1>3, <1>d
    <2> QED BY <2>2, <2>3
  <1>5. ASSUME NEW k \in Kinds, AskFails(w, k) PROVE PriceInv(u)'
    BY <1>3, <1>5, <1>d DEF AskFails, Starts, history
  <1>6. ASSUME NEW t \in Tasks, VideoFails(w, t) \/ Same(w, t) PROVE PriceInv(u)'
    BY <1>3, <1>6, <1>d DEF VideoFails, Same, history
  <1>7. ASSUME NEW k \in Kinds, Ask(w, k) PROVE PriceInv(u)'
    <2>1. UNCHANGED <<kind, sub, paid, row, spoiled, job>> /\ job[w] = Idle
      BY <1>7 DEF Ask, Starts, history
    <2>2. /\ \A v \in Loops : v # w => mem'[v] = mem[v]
          /\ mem'[w][u] \in {NoRow, mem[w][u]}
      BY <1>7, <1>a DEF Ask, LoopTypes
    <2> QED BY <2>1, <2>2, <1>1, <1>d
  <1>8. ASSUME NEW t \in Tasks, u # t, NEW a \in States, NEW n \in {"bill", "save", "refund"},
               NEW b \in BOOLEAN, Begin(w, t, a, n, b), job[w] = Idle,
               UNCHANGED <<kind, sub, row, paid>>,
               spoiled \subseteq spoiled'
        PROVE  PriceInv(u)'
    <2>1. /\ \A v \in Loops : v # w => mem'[v] = mem[v] /\ job'[v] = job[v]
          /\ mem'[w][u] = mem[w][u] /\ job'[w].task = {t}
      BY <1>8, <1>a, BeginFacts
    <2> QED BY <2>1, <1>1, <1>8, <1>d
  <1>9. ASSUME NEW t \in Tasks, Video(w, t) PROVE PriceInv(u)'
    <2>1. PICK a \in Answers(t) :
             Begin(w, t, a, IF a = "success" /\ cost[t] \notin {0, mem[w][t].quota}
                              THEN "bill" ELSE "save", Due(w, t, a))
      BY <1>9 DEF Video
    <2>2. PICK n \in {"bill", "save"} :
             n = IF a = "success" /\ cost[t] \notin {0, mem[w][t].quota} THEN "bill" ELSE "save"
      OBVIOUS
    <2>3. /\ job[w] = Idle /\ ans[w][t] = "ask" /\ UNCHANGED <<kind, sub, row, paid, spoiled>>
          /\ Begin(w, t, a, n, Due(w, t, a)) /\ Due(w, t, a) \in BOOLEAN
      BY <2>1, <2>2, <1>9 DEF Video, history, Due
    <2>4. ans[w][t] # "none" /\ up[t] # "lost" /\ kind[t] \in Videos
      BY <2>3, <1>b DEF LoopInv
    <2>5. a \in States /\ kind[t] # "suno" BY <2>1, <2>4, <1>a, AnswersAreStates DEF Videos
    <2>6. CASE u # t BY <2>3, <2>5, <2>6, <1>8
    <2>7. CASE u = t BY <2>2, <2>3, <2>4, <2>5, <2>7, PriceBegin
    <2> QED BY <2>6, <2>7
  <1>10. ASSUME NEW t \in Tasks, Song(w, t) PROVE PriceInv(u)'
    <2>a. PICK b \in BOOLEAN : b = (Due(w, t, ans[w][t]) /\ ~failed[w]) OBVIOUS
    <2>1. PICK a, n : a = ans[w][t] /\ n = IF b THEN "refund" ELSE "save" OBVIOUS
    <2>2. /\ job[w] = Idle /\ ans[w][t] # "none" /\ UNCHANGED <<kind, sub, row, paid>>
          /\ Begin(w, t, a, n, b) /\ kind[t] = "suno"
          /\ spoiled' = IF failed[w] THEN spoiled \cup {t} ELSE spoiled
      BY <2>a, <2>1, <1>10 DEF Song
    <2>3. a \in States BY <2>1, <2>2, <1>a, <1>b DEF LoopInv, LoopTypes, Videos
    <2>4. n \in {"save", "refund"} /\ spoiled \subseteq spoiled' BY <2>1, <2>2
    <2>5. Watched(t)' => ~failed[w] BY <2>2 DEF Watched
    <2>6. Watched(t)' => /\ b = Due(w, t, a)
                         /\ n = "refund" <=> kind[t] = "suno" /\ b
      <3>1. Due(w, t, a) \in BOOLEAN BY DEF Due
      <3>2. Watched(t)' => b = Due(w, t, a) BY <3>1, <2>a, <2>1, <2>5
      <3>3. n = "refund" <=> kind[t] = "suno" /\ b BY <2>1, <2>2
      <3> QED BY <3>2, <3>3
    <2>7. CASE u # t BY <2>2, <2>3, <2>4, <2>7, <1>8
    <2>8. CASE u = t BY <2>2, <2>3, <2>4, <2>6, <2>8, PriceBegin
    <2> QED BY <2>7, <2>8
  <1>11. ASSUME NEW t \in Tasks, Picture(w, t) PROVE PriceInv(u)'
    <2>1. /\ job[w] = Idle /\ ans[w][t] # "none" /\ UNCHANGED <<kind, sub, row, paid, spoiled>>
          /\ Begin(w, t, ans[w][t], "save", Due(w, t, ans[w][t])) /\ kind[t] \in Pictures
      BY <1>11 DEF Picture, history
    <2>2. kind[t] # "suno" /\ ans[w][t] \in States
      BY <2>1, <1>a, <1>b DEF LoopInv, LoopTypes, Videos, Pictures
    <2>3. PICK a \in States : a = ans[w][t] BY <2>2
    <2>4. Begin(w, t, a, "save", Due(w, t, a)) /\ Due(w, t, a) \in BOOLEAN
      BY <2>1, <2>3 DEF Due
    <2>5. CASE u # t BY <2>1, <2>4, <2>5, <1>8
    <2>6. CASE u = t BY <2>1, <2>2, <2>4, <2>6, PriceBegin
    <2> QED BY <2>5, <2>6
  \* The steps at a task t leave the others alone.
  <1>12. ASSUME NEW t \in Tasks, u # t, job[w].task = {t}, UNCHANGED <<kind, sub>>,
                paid'[u] = paid[u], row'[u] = row[u], spoiled \subseteq spoiled',
                \/ Leave(w, {t})
                \/ /\ \E n \in {"save", "refund"} : job' = [job EXCEPT ![w].step = n]
                   /\ \A v \in Loops : v # w => mem'[v] = mem[v]
                   /\ mem'[w][u] = mem[w][u]
         PROVE  PriceInv(u)'
    <2>1. CASE Leave(w, {t}) BY <2>1, <1>3, <1>12
    <2>2. ASSUME NEW n \in {"save", "refund"}, job' = [job EXCEPT ![w].step = n],
                 \A v \in Loops : v # w => mem'[v] = mem[v], mem'[w][u] = mem[w][u]
          PROVE  PriceInv(u)'
      <3>1. job[w] \in Job /\ \A v \in Loops : v # w => job'[v] = job[v]
        BY <2>2, <1>a DEF LoopTypes
      <3>2. [job[w] EXCEPT !.step = n].task = {t} BY <3>1, <1>12, JobChanges
      <3>3. job'[w].task # {u} BY <3>2, <2>2, <1>12, <1>a DEF LoopTypes
      <3> QED BY <3>1, <3>3, <2>2, <1>1, <1>12
    <2> QED BY <2>1, <2>2, <1>12
  <1>13. ASSUME NEW t \in Tasks, Bill(w, t) \/ BillFails(w, t) PROVE PriceInv(u)'
    <2>1. /\ job[w].task = {t} /\ job' = [job EXCEPT ![w].step = "save"]
          /\ UNCHANGED <<kind, sub, row, spoiled>>
      BY <1>13 DEF Bill, BillFails, history
    <2>2. /\ u # t => paid'[u] = paid[u] /\ mem'[w][u] = mem[w][u]
          /\ \A v \in Loops : v # w => mem'[v] = mem[v]
      BY <1>13, <1>a DEF Bill, BillFails, LoopTypes, OtherTypes
    <2>3. CASE u # t BY <2>1, <2>2, <2>3, <1>12
    <2>4. CASE u = t BY <2>4, <1>13, PriceBill
    <2> QED BY <2>3, <2>4
  <1>14. ASSUME NEW t \in Tasks, Save(w, t) PROVE PriceInv(u)'
    <2>1. /\ job[w].task = {t} /\ UNCHANGED <<kind, sub, paid, spoiled>>
          /\ u # t => row'[u] = row[u]
          /\ \/ Leave(w, {t})
             \/ job' = [job EXCEPT ![w].step = "refund"] /\ UNCHANGED mem
      BY <1>14, <1>a DEF Save, Write, OtherTypes
    <2>2. CASE u # t BY <2>1, <2>2, <1>12
    <2>3. CASE u = t BY <2>3, <1>14, PriceSave
    <2> QED BY <2>2, <2>3
  <1>15. ASSUME NEW t \in Tasks, SaveFails(w, t) PROVE PriceInv(u)'
    <2>1. /\ job[w].task = {t} /\ UNCHANGED <<kind, sub, paid, row>> /\ Leave(w, {t})
          /\ spoiled' = spoiled \cup {t}
      BY <1>15 DEF SaveFails
    <2>2. CASE u # t BY <2>1, <2>2, <1>12
    <2>3. CASE u = t BY <2>1, <2>3 DEF PriceInv, Watched
    <2> QED BY <2>2, <2>3
  <1>16. ASSUME NEW t \in Tasks, Refund(w, t) \/ RefundFails(w, t) PROVE PriceInv(u)'
    <2>1. /\ job[w].task = {t} /\ UNCHANGED <<kind, sub, row>>
          /\ u # t => paid'[u] = paid[u]
          /\ spoiled \subseteq spoiled' /\ (RefundFails(w, t) => t \in spoiled')
      BY <1>16, <1>a DEF Refund, RefundFails, OtherTypes
    <2>2. PICK b \in BOOLEAN : AfterRefund(w, t, b) BY <1>16 DEF Refund, RefundFails
    <2>3. CASE u # t
      <3>1. CASE kind[t] = "suno"
        <4>1. /\ mem' = mem /\ job'[w].task = {t}
              /\ \A v \in Loops : v # w => job'[v] = job[v]
          BY <2>2, <3>1, <1>a, AfterRefundFacts
        <4> QED BY <4>1, <2>1, <2>3, <1>1
      <3>2. CASE kind[t] # "suno" BY <3>2, <2>1, <2>2, <2>3, <1>12 DEF AfterRefund
      <3> QED BY <3>1, <3>2
    <2>4. CASE u = t /\ Refund(w, t) BY <2>4, PriceRefund
    <2>5. CASE u = t /\ RefundFails(w, t) BY <2>1, <2>5 DEF PriceInv, Watched
    <2> QED BY <2>3, <2>4, <2>5, <1>16
  <1> QED
    BY <1>2, <1>4, <1>5, <1>6, <1>7, <1>9, <1>10, <1>11, <1>13, <1>14, <1>15, <1>16
    DEF LoopStep, Failures

LEMMA PriceNext ==
  ASSUME OneNode, TypeOK, Structure, [Next]_vars, NEW u \in Tasks, PriceInv(u), EarlyInv(u)
  PROVE  PriceInv(u)'
  <1>a. OtherTypes /\ LoopTypes BY TypeParts
  <1>1. CASE UNCHANGED <<kind, sub, row, mem, job, paid, spoiled>>
    BY <1>1, PriceKept DEF Watched, Balance
  <1>2. ASSUME NEW n \in Nodes, NEW S \in SUBSET Tasks, Crash(n, S) PROVE PriceInv(u)'
    <2>1. UNCHANGED <<kind, row, paid>> BY <1>2 DEF Crash
    <2>2. Own(u) \in {n} \X {"task", "mj"} /\ Own(u) \in Loops BY HomeLoops DEF OneNode, Own, LoopOf
    <2>3. mem'[Own(u)][u] = NoRow /\ job'[Own(u)] = Idle BY <2>2, <1>2 DEF Crash
    <2>4. Watched(u)' => Watched(u) /\ sub'[u] = sub[u] /\ job[Own(u)].task # {u}
      BY <2>2, <1>2, <1>a DEF Crash, Watched, OtherTypes
    <2>5. Watched(u)' => Balance(u)' = Balance(u) BY <2>1, <2>4 DEF Balance
    <2>6. Idle.task # {u} BY DEF Idle
    <2>7. CASE Watched(u)' BY <2>1, <2>3, <2>4, <2>5, <2>6, <2>7, PriceKept
    <2>8. CASE ~Watched(u)' BY <2>8 DEF PriceInv
    <2> QED BY <2>7, <2>8
  <1> QED
    BY <1>1, <1>2, PriceSubmission, PriceLoop
    DEF Next, vars, loops, history, DeleteChannel

(***************************************************************************)
(* The theorems                                                            *)
(***************************************************************************)
LEMMA IInvNext == ASSUME OneNode, IInv, [Next]_vars PROVE IInv'
  <1>1. TypeOK' /\ Structure' BY TypeNext, StructureNext DEF IInv
  <1>2. ASSUME NEW u \in Tasks PROVE PotInv(u)' /\ EarlyInv(u)' /\ PriceInv(u)'
    BY <1>1, PotNext, EarlyNext, PriceNext DEF IInv
  <1> QED BY <1>1, <1>2 DEF IInv

LEMMA IInvInit == ASSUME OneNode, Init PROVE IInv
  <1>1. ASSUME NEW t \in Tasks PROVE EarlyInv(t) /\ PriceInv(t)
    BY DEF Init, EarlyInv, PriceInv, Watched
  <1> QED BY <1>1, TypeInit, StructureInit, PotInit DEF IInv

LEMMA IInvAlways == ASSUME OneNode PROVE Spec => []IInv
  <1>1. Init => IInv BY IInvInit
  <1>2. IInv /\ [Next]_vars => IInv' BY IInvNext
  <1> QED BY <1>1, <1>2, PTL DEF Spec

(* With one master node the variables keep their types: in particular a    *)
(* loop acts only on answers about tasks that it holds and that their      *)
(* provider knows (updateVideoSingleTask, updateSunoTaskAll and            *)
(* UpdateMidjourneyTaskBulk index the map of the rows they have read).     *)
THEOREM TypeCorrect == ASSUME OneNode PROVE Spec => []TypeOK
  <1>1. IInv => TypeOK BY DEF IInv
  <1> QED BY <1>1, IInvAlways, PTL

(* With one master node, any number of tasks, faults and outside writes: a *)
(* task is refunded at most once for each time its row became unfinished,  *)
(* and once more for each update of a song lost after its refund           *)
(* (updateVideoSingleTask, updateSunoTaskAll, UpdateMidjourneyTaskBulk).   *)
THEOREM RefundsAreBounded == ASSUME OneNode PROVE Spec => []RefundPerOpening
  <1>1. IInv => RefundPerOpening
    <2>1. ASSUME IInv, NEW t \in Tasks PROVE refunds[t] <= opened[t] + relost[t]
      <3>1. refunds[t] \in Nat /\ opened[t] \in Nat /\ relost[t] \in Nat /\ PotInv(t)
        BY <2>1 DEF IInv, TypeOK
      <3> QED BY <3>1, PotRange DEF PotInv
    <2> QED BY <2>1 DEF RefundPerOpening
  <1> QED BY <1>1, IInvAlways, PTL

(* With one master node, any number of tasks, faults and outside writes: a *)
(* task that was charged and that no fault and no other writer has met has *)
(* cost what its row says, or nothing if it failed, whenever no loop is at *)
(* it.  The bill for the tokens, the refund and the charge at the end of   *)
(* the submission may come in any order the loop and the handler allow.    *)
THEOREM TasksSettle == ASSUME OneNode PROVE Spec => []SettledTask
  <1>1. IInv => SettledTask
    <2> SUFFICES ASSUME IInv, NEW t \in Tasks \ spoiled, Quiet(t)
                 PROVE  paid[t] = IF row[t].state = "failure" THEN 0 ELSE row[t].quota
      BY DEF SettledTask
    <2>1. job[Own(t)].task # {t} /\ sub[t] = "charged" BY HomeLoops DEF Quiet
    <2>2. Resting(t) BY <2>1 DEF IInv, PriceInv, Watched
    <2>3. paid[t] \in Int BY DEF IInv, TypeOK
    <2>4. Balance(t) = paid[t] BY <2>1, <2>3 DEF Balance
    <2> QED BY <2>2, <2>4 DEF Resting, Value
  <1> QED BY <1>1, IInvAlways, PTL
=============================================================================
