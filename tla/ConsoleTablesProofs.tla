------------------------ MODULE ConsoleTablesProofs ------------------------
(***************************************************************************)
(* Proofs about the paged tables, for any number of pages, list requests,  *)
(* row operations and failed requests.                                     *)
(***************************************************************************)
EXTENDS ConsoleTables, TLAPS

(***************************************************************************)
(* The inductive invariant                                                 *)
(***************************************************************************)
\* The query whose answer is in the rows.
Shown == [q |-> rows.q, page |-> rows.page]

Busy == IF op.st = "none" THEN 0 ELSE 1

\* Beyond the requests of the user, each operation on a row reloads at most
\* once; every caller of a request has one of the numbers given so far.
CountInv ==
    /\ Busy <= ops
    /\ counter + Busy <= MaxAsks + ops
    /\ \A g \in gets : g.callers \subseteq 1..counter

\* A later load has taken the number of the call: the answer is not shown.
Superseded(g) == table.load.counts /\ g.query.q = "load" /\ latest \notin g.callers

\* The query wanted is shown or will be, and no other answer will be.
AskedInv ==
    causes \cap {"failed", "crossed", "snapback"} = {} =>
        /\ \A g \in gets : g.query = wanted \/ Superseded(g)
        /\ wanted = Shown \/ \E g \in gets : g.query = wanted /\ Current(g)

\* Where an answer sets the page number, a wrong one waits for an answer.
AnswerInv ==
    /\ table.load.page = "answer"
    /\ causes \cap {"failed", "snapback", "unnumbered"} = {}
    => active = rows.page \/ gets # {}

\* Elsewhere the number is the wanted one, or the answer of a search is to
\* set it.
ClickInv ==
    /\ table.load.page # "answer"
    /\ causes \cap {"failed", "crossed", "snapback", "unnumbered"} = {}
    => \/ active = wanted.page
       \/ /\ table.load.page = "search"
          /\ wanted.q = "search"
          /\ \E g \in gets : g.query = wanted

\* An operation is on the row that was clicked; when it is done, the server
\* has its outcome.
OpInv ==
    op.st # "none" =>
        /\ op.snap.page = op.item
        /\ table.rows # ReadOnly
        /\ op.st = "done" => db[op.item] = op.to

\* No list request is in flight while the server has the operation to do.
AloneInv ==
    causes \cap {"failed", "raced"} = {} /\ op.st = "sent" =>
        gets = {} /\ rows.page = op.item

\* A row with a wrong status is the one operated on, or is about to be
\* replaced; the answers on their way are right.
StatusInv ==
    causes \cap {"failed", "raced"} = {} =>
        /\ \A g \in gets : g.st = "read" => g.status = db[g.query.page]
        /\ \/ rows.status = db[rows.page]
           \/ op.st # "none" /\ rows.page = op.item
           \/ \E g \in gets : Current(g)

IInv == /\ TypeOK /\ CountInv /\ OpInv
        /\ AskedInv /\ AnswerInv /\ ClickInv /\ AloneInv /\ StatusInv

(***************************************************************************)
(* Facts about the tables and about the types                              *)
(***************************************************************************)
Wellformed(t) ==
    /\ t.load.page \in {"answer", "search", "click"}
    /\ t.load.counts => t.load.page = "search"
    /\ t.load.page # "answer" => t.paging.early /\ t.paging.asks = "page"
    /\ t.rows.writes \in {"snapshot", "update", "none"}
    /\ t.rows.writes = "none" => t.rows = ReadOnly \/ t.rows.reloads

\* What the ten tables have in common, as far as the proofs need it.
LEMMA TableFacts == \A t \in Tables : Wellformed(t)
<1> USE DEF Table, Load, Paging, Rows, Wellformed, ReadOnly
<1>1. Wellformed(Table(loadChannels, pageChannels, manageChannel))
  BY DEF loadChannels, pageChannels, manageChannel
<1>2. Wellformed(Table(loadTokens, pageTokens, manageToken))
  BY DEF loadTokens, pageTokens, manageToken
<1>3. Wellformed(Table(loadUsers, pageUsers, manageUser))
  BY DEF loadUsers, pageUsers, manageUser
<1>4. Wellformed(Table(loadRedemptions, pageRedemptions, manageRedemption))
  BY DEF loadRedemptions, pageRedemptions, manageRedemption
<1>5. Wellformed(Table(loadModels, pageModels, manageModel))
  BY DEF loadModels, pageModels, manageModel
<1>6. Wellformed(Table(loadMjLogs, pageMjLogs, ReadOnly))
  BY DEF loadMjLogs, pageMjLogs
<1>7. Wellformed(Table(loadTaskLogs, pageTaskLogs, ReadOnly))
  BY DEF loadTaskLogs, pageTaskLogs
<1>8. Wellformed(Table(loadUsageLogs, pageUsageLogs, ReadOnly))
  BY DEF loadUsageLogs, pageUsageLogs
<1>9. Wellformed(Table(loadContracts, pageContracts, handleDelete))
  BY DEF loadContracts, pageContracts, handleDelete
<1>10. Wellformed(Table(loadTopups, pageTopups, handleAdminComplete))
  BY DEF loadTopups, pageTopups, handleAdminComplete
<1> HIDE DEF Table, Load, Paging, Rows, Wellformed, ReadOnly
<1> QED BY <1>1, <1>2, <1>3, <1>4, <1>5, <1>6, <1>7, <1>8, <1>9, <1>10 DEF Tables

Numbers == 1..(MaxAsks + MaxOps)
GetType == [query : Queries, callers : SUBSET Numbers,
            st : {"sent", "read"}, status : Status]
RowType == [q : {"load", "search"}, page : Pages, status : Status]
OpType == [st : {"none", "sent", "done"}, kind : {"toggle", "delete"},
           item : Pages, to : Status, snap : RowType, back : Pages]
Causes == {"crossed", "raced", "snapback", "unnumbered", "failed", "uncaught"}

LEMMA Types ==
    ASSUME TypeOK
    PROVE  /\ Wellformed(table) /\ table \in Tables
           /\ db \in [Pages -> Status] /\ rows \in RowType /\ op \in OpType
           /\ active \in Pages /\ wanted \in Queries
           /\ gets \subseteq GetType
           /\ causes \subseteq Causes
           /\ counter \in Nat /\ latest \in Nat /\ ops \in Nat /\ faults \in Nat
           /\ counter <= MaxAsks + MaxOps /\ latest <= counter
           /\ MaxPage \in Nat \ {0} /\ MaxAsks \in Nat /\ MaxOps \in Nat /\ MaxFaults \in Nat
<1>1. Wellformed(table) /\ table \in Tables
  BY TableFacts DEF TypeOK
<1>2. /\ db \in [Pages -> Status] /\ rows \in RowType /\ op \in OpType
      /\ active \in Pages /\ wanted \in Queries
      /\ gets \subseteq GetType
      /\ causes \subseteq Causes
  BY DEF TypeOK, RowType, OpType, GetType, Numbers, Causes
<1>3. MaxPage \in Nat \ {0} /\ MaxAsks \in Nat /\ MaxOps \in Nat /\ MaxFaults \in Nat
  BY TableAssumption DEF TableAssumption
<1>4. /\ counter \in Nat /\ latest \in Nat /\ ops \in Nat /\ faults \in Nat
      /\ counter <= MaxAsks + MaxOps /\ latest <= counter
  BY <1>3 DEF TypeOK
<1> QED BY <1>1, <1>2, <1>3, <1>4

LEMMA QueryFacts ==
    ASSUME NEW x \in Queries
    PROVE  /\ x.q \in {"load", "search"} /\ x.page \in Pages
           /\ x = [q |-> x.q, page |-> x.page]
BY DEF Queries

LEMMA GetFacts ==
    ASSUME NEW g \in GetType
    PROVE  /\ g.query \in Queries /\ g.callers \subseteq Numbers
           /\ g.st \in {"sent", "read"} /\ g.status \in Status
           /\ g.query.page \in Pages /\ g.query.q \in {"load", "search"}
           /\ \A s \in Status :
                LET h == [g EXCEPT !.st = "read", !.status = s]
                IN  /\ h \in GetType /\ h.query = g.query /\ h.callers = g.callers
                    /\ h.st = "read" /\ h.status = s
BY DEF GetType, Queries

LEMMA RowFacts ==
    ASSUME NEW r \in RowType
    PROVE  /\ r.q \in {"load", "search"} /\ r.page \in Pages /\ r.status \in Status
           /\ \A s \in Status :
                LET t == [r EXCEPT !.status = s]
                IN  t \in RowType /\ t.q = r.q /\ t.page = r.page /\ t.status = s
BY DEF RowType

LEMMA OpFacts ==
    ASSUME NEW o \in OpType
    PROVE  /\ o.st \in {"none", "sent", "done"} /\ o.kind \in {"toggle", "delete"}
           /\ o.item \in Pages /\ o.to \in Status /\ o.snap \in RowType /\ o.back \in Pages
           /\ LET d == [o EXCEPT !.st = "done"]
              IN  /\ d \in OpType /\ d.st = "done" /\ d.kind = o.kind /\ d.item = o.item
                  /\ d.to = o.to /\ d.snap = o.snap /\ d.back = o.back
BY DEF OpType

LEMMA NoOpFacts == NoOp \in OpType /\ NoOp.st = "none"
<1>1. 1 \in Pages
  BY TableAssumption DEF TableAssumption, Pages
<1> QED BY <1>1 DEF NoOp, OpType, RowType, Status

LEMMA PageQueryFacts ==
    ASSUME TypeOK, NEW p \in Pages
    PROVE  /\ PageQuery(p) \in Queries
           /\ table.load.page # "answer" => PageQuery(p).page = p
<1>1. 1 \in Pages
  BY TableAssumption DEF TableAssumption, Pages
<1>2. table.load.page # "answer" => table.paging.asks = "page"
  BY Types DEF Wellformed
<1> QED BY <1>1, <1>2 DEF PageQuery, Queries

LEMMA FirstQueryFacts ==
    ASSUME NEW b
    PROVE  /\ FirstQuery(b) \in Queries /\ FirstQuery(b).page = 1
           /\ ~b => FirstQuery(b).q = "load"
           /\ b => FirstQuery(b).q = "search"
<1>1. 1 \in Pages
  BY TableAssumption DEF TableAssumption, Pages
<1> QED BY <1>1 DEF FirstQuery, Queries

\* The request of a search, and what it does besides.
LEMMA SearchFacts ==
    ASSUME Search
    PROVE  /\ FirstQuery(keyword) \in Queries
           /\ \E set : Ask(FirstQuery(keyword), set)
                       /\ (flags \subseteq {"loading", "searching"} =>
                             set \subseteq {"loading", "searching"})
           /\ causes \cup Meets(FirstQuery(keyword)) \subseteq causes'
           /\ UNCHANGED <<table, db, rows, keyword, op, ops, faults>>
<1>1. FirstQuery(keyword) \in Queries
  BY FirstQueryFacts
<1> QED BY <1>1 DEF Search

(***************************************************************************)
(* One list request is sent                                                *)
(***************************************************************************)
\* The request that the caller waits for: a new one, or the one in flight.
Joins(new, query) ==
    /\ new.query = query
    /\ counter + 1 \in new.callers
    /\ new.callers \subseteq 1..(counter + 1)
    /\ new.st = "read" => \E g \in gets : g.query = query /\ g.st = "read"
    /\ gets' = {g \in gets : g.query # query} \cup {new}

LEMMA AskJoins ==
    ASSUME TypeOK, CountInv, NEW query \in Queries, NEW set, Ask(query, set),
           counter + 1 <= MaxAsks + MaxOps
    PROVE  \E new \in GetType : Joins(new, query)
<1> DEFINE same == {g \in gets : g.query = query}
           others == UNION {g.callers : g \in same}
           callers == others \cup {counter + 1}
           st == IF \E g \in same : g.st = "read" THEN "read" ELSE "sent"
           status == IF same = {} THEN "on" ELSE (CHOOSE g \in same : TRUE).status
           new == [query |-> query, callers |-> callers, st |-> st, status |-> status]
<1>1. gets' = (gets \ same) \cup {new}
  BY DEF Ask
<1>2. gets \ same = {g \in gets : g.query # query}
  OBVIOUS
<1>3. gets \subseteq GetType /\ counter \in Nat /\ MaxAsks \in Nat /\ MaxOps \in Nat
  BY Types
<1>4. callers \subseteq 1..(counter + 1)
  <2>1. others \subseteq 1..counter
    <3>1. \A g \in same : g.callers \subseteq 1..counter
      BY DEF CountInv
    <3>2. ASSUME NEW c \in others PROVE c \in 1..counter
      <4>1. PICK g \in same : c \in g.callers
        OBVIOUS
      <4> QED BY <3>1, <4>1
    <3> QED BY <3>2
  <2> HIDE DEF others
  <2>2. \A c \in 1..counter : c \in 1..(counter + 1)
    BY <1>3
  <2>3. counter + 1 \in 1..(counter + 1)
    BY <1>3
  <2> QED BY <2>1, <2>2, <2>3
<1>5. callers \subseteq Numbers
  <2>1. \A c \in 1..(counter + 1) : c \in Numbers
    BY <1>3 DEF Numbers
  <2> QED BY <1>4, <2>1
<1>6. status \in Status
  <2>1. CASE same = {}
    BY <2>1 DEF Status
  <2>2. CASE same # {}
    <3>1. (CHOOSE g \in same : TRUE) \in same
      BY <2>2
    <3>2. (CHOOSE g \in same : TRUE) \in GetType
      BY <1>3, <3>1
    <3>3. (CHOOSE g \in same : TRUE).status \in Status
      BY <3>2, GetFacts
    <3> QED BY <2>2, <3>3
  <2> QED BY <2>1, <2>2
<1>7. st \in {"sent", "read"} /\ (st = "read" => \E g \in gets : g.query = query /\ g.st = "read")
  OBVIOUS
<1> HIDE DEF others, callers, st, status
<1>8. new \in GetType /\ new.query = query /\ new.callers = callers /\ new.st = st
  BY <1>5, <1>6, <1>7 DEF GetType
<1>9. counter + 1 \in callers
  BY DEF callers
<1> HIDE DEF new
<1>10. Joins(new, query)
  <2>1. gets' = {g \in gets : g.query # query} \cup {new}
    BY <1>1, <1>2
  <2> QED BY <1>4, <1>7, <1>8, <1>9, <2>1 DEF Joins
<1> QED BY <1>8, <1>10

LEMMA AskTypes ==
    ASSUME TypeOK, CountInv, NEW query \in Queries, NEW set, Ask(query, set),
           counter + 1 <= MaxAsks + MaxOps, set \subseteq {"loading", "searching"}
    PROVE  /\ counter' \in 0..(MaxAsks + MaxOps) /\ latest' \in 0..counter'
           /\ wanted' \in Queries /\ gets' \subseteq GetType
           /\ flags' \subseteq {"loading", "searching"}
           /\ counter' = counter + 1 /\ wanted' = query
           /\ latest' = IF query.q = "load" THEN counter + 1 ELSE latest
           /\ \A g \in gets' : g.callers \subseteq 1..counter'
<1>1. counter' = counter + 1 /\ wanted' = query
      /\ latest' = IF query.q = "load" THEN counter + 1 ELSE latest
  BY DEF Ask
<1>2. counter' \in 0..(MaxAsks + MaxOps) /\ latest' \in 0..counter'
  BY <1>1, Types
<1>3. PICK new \in GetType : Joins(new, query)
  BY AskJoins
<1>4. gets' \subseteq GetType
  BY <1>3, Types DEF Joins
<1>5. flags' \subseteq {"loading", "searching"}
  <2>1. FlagOf(query.q) \in {"loading", "searching"}
    BY DEF FlagOf
  <2> QED BY <2>1 DEF Ask
<1>6. \A g \in gets' : g.callers \subseteq 1..counter'
  <2>1. \A c \in 1..counter : c \in 1..(counter + 1)
    BY Types
  <2> QED BY <1>1, <1>3, <2>1 DEF Joins, CountInv
<1> QED BY <1>1, <1>2, <1>4, <1>5, <1>6

\* The wanted answer after a request that has not crossed another one.
LEMMA AskAsked ==
    ASSUME TypeOK, CountInv, AskedInv, NEW query \in Queries, NEW set, Ask(query, set),
           counter + 1 <= MaxAsks + MaxOps, table' = table,
           causes \subseteq causes', Crosses(query) => "crossed" \in causes'
    PROVE  AskedInv'
<1>1. PICK new \in GetType : Joins(new, query)
  BY AskJoins
<1>2. wanted' = query /\ latest' = IF query.q = "load" THEN counter + 1 ELSE latest
  BY DEF Ask
<1> SUFFICES ASSUME (causes \cap {"failed", "crossed", "snapback"} = {})'
             PROVE  /\ \A g \in gets' : g.query = query \/ Superseded(g)'
                    /\ \E g \in gets' : g.query = query /\ Current(g)'
  BY <1>2 DEF AskedInv
<1>3. ~Crosses(query)
  OBVIOUS
<1>4. ASSUME NEW g \in gets', g.query # query
      PROVE  Superseded(g)'
  <2>1. g \in gets
    BY <1>1, <1>4 DEF Joins
  <2>2. table.load.counts /\ g.query.q = "load" /\ query.q = "load"
    BY <1>3, <1>4, <2>1 DEF Crosses
  <2>3. g.callers \subseteq 1..counter
    BY <2>1 DEF CountInv
  <2>4. counter + 1 \notin 1..counter
    BY Types
  <2> QED BY <1>2, <2>2, <2>3, <2>4 DEF Superseded
<1>5. new \in gets' /\ new.query = query /\ counter + 1 \in new.callers
  BY <1>1 DEF Joins
<1>6. Current(new)'
  BY <1>2, <1>5 DEF Current
<1> QED BY <1>4, <1>5, <1>6

\* Every request that can be sent has a number left.
LEMMA AskRoom ==
    ASSUME TypeOK, CountInv, counter < MaxAsks \/ op.st = "done"
    PROVE  counter + 1 <= MaxAsks + MaxOps
<1>1. ops \in 0..MaxOps
  BY DEF TypeOK
<1> QED BY <1>1, Types DEF CountInv, Busy

LEMMA ManagedFacts ==
    ASSUME TypeOK
    PROVE  /\ Managed \in RowType
           /\ table.rows.writes = "snapshot" =>
                /\ Managed.page = op.snap.page
                /\ Managed.status = IF op.kind = "delete" THEN op.snap.status ELSE op.to
           /\ table.rows.writes = "update" =>
                IF rows.page = op.item /\ op.kind # "delete"
                THEN Managed.page = rows.page /\ Managed.status = op.to
                ELSE Managed = rows
           /\ table.rows.writes = "none" => Managed = rows
<1> DEFINE status == IF op.kind = "delete" THEN op.snap.status ELSE op.to
<1>1. op.snap \in RowType /\ rows \in RowType /\ status \in Status
  <2>1. op \in OpType /\ rows \in RowType
    BY Types
  <2>2. op.snap \in RowType /\ op.to \in Status
    BY <2>1, OpFacts
  <2>3. op.snap.status \in Status
    BY <2>2, RowFacts
  <2> QED BY <2>1, <2>2, <2>3
<1>2. LET t == [op.snap EXCEPT !.status = status]
      IN  t \in RowType /\ t.page = op.snap.page /\ t.status = status
  <2> HIDE DEF status
  <2> QED BY <1>1, RowFacts
<1>3. LET t == [rows EXCEPT !.status = status]
      IN  t \in RowType /\ t.page = rows.page /\ t.status = status
  <2> HIDE DEF status
  <2> QED BY <1>1, RowFacts
<1>4. table.rows.writes \in {"snapshot", "update", "none"}
  BY Types DEF Wellformed
<1>5. CASE table.rows.writes = "snapshot"
  <2>1. Managed = [op.snap EXCEPT !.status = status]
    BY <1>5 DEF Managed
  <2> QED BY <1>2, <1>5, <2>1
<1>6. CASE table.rows.writes = "update" /\ rows.page = op.item /\ op.kind # "delete"
  <2>1. Managed = [rows EXCEPT !.status = status]
    BY <1>6 DEF Managed
  <2> QED BY <1>3, <1>6, <2>1
<1>7. CASE table.rows.writes = "update" /\ ~(rows.page = op.item /\ op.kind # "delete")
  <2>1. Managed = rows
    BY <1>7 DEF Managed
  <2> QED BY <1>1, <1>7, <2>1
<1>8. CASE table.rows.writes = "none"
  <2>1. Managed = rows
    BY <1>8 DEF Managed
  <2> QED BY <1>1, <1>8, <2>1
<1> QED BY <1>4, <1>5, <1>6, <1>7, <1>8

LEMMA MeetsFacts ==
    ASSUME NEW query
    PROVE  /\ Meets(query) \subseteq {"crossed", "raced"}
           /\ Crosses(query) => "crossed" \in Meets(query)
           /\ op.st = "sent" => "raced" \in Meets(query)
           /\ (\E g \in gets : g.query = query /\ g.st = "read") => "raced" \in Meets(query)
BY DEF Meets

\* What a row operation starts with.
LEMMA ManageFacts ==
    ASSUME TypeOK, NEW kind \in {"toggle", "delete"}, Manage(kind)
    PROVE  /\ op' \in OpType /\ op'.st = "sent" /\ op'.item = rows.page
           /\ op'.snap = rows
<1>1. rows \in RowType /\ active \in Pages
  BY Types
<1>2. rows.page \in Pages
  BY <1>1, RowFacts
<1> DEFINE to == IF kind = "delete" THEN "gone"
                 ELSE IF rows.status = "on" THEN "off" ELSE "on"
<1>3. to \in Status
  BY DEF Status
<1>4. op' = [st |-> "sent", kind |-> kind, item |-> rows.page, to |-> to,
             snap |-> rows, back |-> active]
  BY DEF Manage
<1> HIDE DEF to
<1> QED BY <1>1, <1>2, <1>3, <1>4 DEF OpType

\* The types of the variables.
TypesOf ==
    /\ table \in Tables
    /\ db \in [Pages -> Status]
    /\ rows \in RowType
    /\ active \in Pages
    /\ keyword \in BOOLEAN
    /\ flags \subseteq {"loading", "searching"}
    /\ gets \subseteq GetType
    /\ counter \in 0..(MaxAsks + MaxOps)
    /\ latest \in 0..counter
    /\ sought \subseteq 1..counter
    /\ wanted \in Queries
    /\ op \in OpType
    /\ ops \in 0..MaxOps
    /\ faults \in 0..MaxFaults
    /\ causes \subseteq Causes

LEMMA TypesOfType == TypeOK <=> TypesOf
BY DEF TypeOK, TypesOf, RowType, OpType, GetType, Numbers, Causes

LEMMA AskType ==
    ASSUME TypeOK, CountInv, NEW query \in Queries, NEW set, Ask(query, set),
           counter + 1 <= MaxAsks + MaxOps, set \subseteq {"loading", "searching"},
           UNCHANGED <<table, db, ops, faults>>, keyword' \in BOOLEAN,
           sought' \subseteq sought \cup {counter + 1}, rows' \in RowType, active' \in Pages, op' \in OpType, causes' \subseteq Causes
    PROVE  TypeOK'
<1>1. TypesOf
  BY TypesOfType
<1>3. sought' \subseteq 1..counter'
  <2>1. counter' = counter + 1 /\ counter \in Nat
    BY AskTypes, Types
  <2>2. \A c \in 1..counter : c \in 1..counter'
    BY <2>1
  <2>3. counter + 1 \in 1..counter'
    BY <2>1
  <2> QED BY <1>1, <2>2, <2>3 DEF TypesOf
<1>2. TypesOf'
  BY <1>1, <1>3, AskTypes DEF TypesOf
<1> QED BY <1>2, TypesOfType, PTL

(***************************************************************************)
(* Every step keeps the types, the numbers and the operation               *)
(***************************************************************************)
LEMMA TypeNext == TypeOK /\ CountInv /\ [Next]_vars => TypeOK'
<1> SUFFICES ASSUME TypeOK, CountInv, [Next]_vars PROVE TypeOK'
  OBVIOUS
<1>0. TypesOf
  BY TypesOfType
<1>t. ASSUME TypesOf' PROVE TypeOK'
  BY <1>t, TypesOfType, PTL
<1>c. /\ flags \subseteq {"loading", "searching"} /\ causes \subseteq Causes
      /\ rows \in RowType /\ op \in OpType /\ active \in Pages /\ keyword \in BOOLEAN
  BY <1>0 DEF TypesOf
<1>m. \A query : causes \cup Meets(query) \subseteq Causes
  BY <1>c, MeetsFacts DEF Causes
<1>1. ASSUME NEW b \in BOOLEAN, Type(b) PROVE TypeOK'
  BY <1>0, <1>1, <1>t DEF Type, TypesOf
<1>2. ASSUME NEW p \in Pages, ClickPage(p) PROVE TypeOK'
  <2>1. active' \in Pages
    BY <1>2, <1>c DEF ClickPage
  <2>2. causes' \subseteq Causes
    BY <1>2, <1>m DEF ClickPage
  <2>3. PageQuery(p) \in Queries /\ counter + 1 <= MaxAsks + MaxOps
    BY <1>2, PageQueryFacts, AskRoom DEF ClickPage
  <2>4. /\ Ask(PageQuery(p), flags)
        /\ UNCHANGED <<table, db, rows, keyword, sought, op, ops, faults>>
    BY <1>2 DEF ClickPage
  <2> QED BY <1>c, <2>1, <2>2, <2>3, <2>4, AskType
<1>3. CASE Search
  <2>1. active' \in Pages
    <3>1. 1 \in Pages
      BY TableAssumption DEF TableAssumption, Pages
    <3> QED BY <1>3, <1>c, <3>1 DEF Search
  <2>2. causes' \subseteq Causes
    <3>1. "unnumbered" \in Causes
      BY DEF Causes
    <3> QED BY <1>3, <1>m, <3>1 DEF Search
  <2>3. FirstQuery(keyword) \in Queries /\ counter + 1 <= MaxAsks + MaxOps
    BY <1>3, SearchFacts, AskRoom DEF Search
  <2>4. PICK set : Ask(FirstQuery(keyword), set) /\ set \subseteq {"loading", "searching"}
    BY <1>3, <1>c, SearchFacts
  <2>5. /\ UNCHANGED <<table, db, rows, keyword, op, ops, faults>>
        /\ sought' \subseteq sought \cup {counter + 1}
    BY <1>3 DEF Search
  <2> QED BY <1>c, <2>1, <2>2, <2>3, <2>4, <2>5, AskType
<1>14. ASSUME NEW b \in BOOLEAN, TypeAhead(b) PROVE TypeOK'
  <2>1. active' \in Pages
    <3>1. 1 \in Pages
      BY TableAssumption DEF TableAssumption, Pages
    <3> QED BY <1>14, <3>1 DEF TypeAhead
  <2>2. causes' \subseteq Causes
    BY <1>14, <1>m DEF TypeAhead
  <2>3. FirstQuery(b) \in Queries /\ counter + 1 <= MaxAsks + MaxOps
    BY <1>14, FirstQueryFacts, AskRoom DEF TypeAhead
  <2>4. /\ Ask(FirstQuery(b), flags) /\ keyword' = b
        /\ UNCHANGED <<table, db, rows, sought, op, ops, faults>>
    BY <1>14 DEF TypeAhead
  <2> QED BY <1>c, <2>1, <2>2, <2>3, <2>4, AskType
<1>4. CASE Refresh
  <2>2. causes' \subseteq Causes
    BY <1>4, <1>m DEF Refresh
  <2>3. PageQuery(active) \in Queries /\ counter + 1 <= MaxAsks + MaxOps
    BY <1>4, <1>c, PageQueryFacts, AskRoom DEF Refresh
  <2>4. /\ Ask(PageQuery(active), flags)
        /\ UNCHANGED <<table, db, rows, active, keyword, sought, op, ops, faults>>
    BY <1>4 DEF Refresh
  <2> QED BY <1>c, <2>2, <2>3, <2>4, AskType
<1>5. ASSUME NEW g \in gets, Read(g) PROVE TypeOK'
  <2>1. g \in GetType /\ db \in [Pages -> Status]
    BY <1>0 DEF TypesOf
  <2>2. db[g.query.page] \in Status
    BY <2>1, GetFacts
  <2>3. [g EXCEPT !.st = "read", !.status = db[g.query.page]] \in GetType
    BY <2>1, <2>2, GetFacts
  <2>4. gets' \subseteq GetType
    BY <1>0, <1>5, <2>3 DEF Read, TypesOf
  <2> QED BY <1>0, <1>5, <1>t, <2>4 DEF Read, TypesOf
<1>6. ASSUME NEW g \in gets, Show(g) PROVE TypeOK'
  <2>1. g \in GetType
    BY <1>0 DEF TypesOf
  <2>2. g.query.page \in Pages /\ g.query.q \in {"load", "search"} /\ g.status \in Status
    BY <2>1, GetFacts
  <2>3. rows' \in RowType
    BY <1>6, <1>c, <2>2 DEF Show, RowType
  <2>4. active' \in Pages
    BY <1>6, <1>c, <2>2 DEF Show, PageOf
  <2>5. flags' \subseteq {"loading", "searching"} /\ gets' \subseteq GetType
    BY <1>0, <1>6 DEF Show, TypesOf
  <2> QED BY <1>0, <1>6, <1>t, <2>3, <2>4, <2>5 DEF Show, TypesOf
<1>7. ASSUME NEW g \in gets, NEW how \in Failures, FailGet(g, how) PROVE TypeOK'
  <2>1. flags' \subseteq {"loading", "searching"} /\ gets' \subseteq GetType
        /\ causes' \subseteq Causes
    BY <1>0, <1>7 DEF FailGet, TypesOf, Causes
  <2>2. faults' \in 0..MaxFaults
    BY <1>7, Types DEF FailGet
  <2>3. rows' \in RowType
    <3>1. "gone" \in Status
      BY DEF Status
    <3> QED BY <1>7, <1>c, <3>1, RowFacts DEF FailGet
  <2> QED BY <1>0, <1>7, <1>t, <2>1, <2>2, <2>3 DEF FailGet, TypesOf
<1>8. ASSUME NEW kind \in {"toggle", "delete"}, Manage(kind) PROVE TypeOK'
  <2>1. op' \in OpType
    BY <1>8, ManageFacts
  <2>2. ops' \in 0..MaxOps
    BY <1>8, Types DEF Manage
  <2>3. flags' \subseteq {"loading", "searching"} /\ causes' \subseteq Causes
    BY <1>8, <1>c DEF Manage, Causes
  <2> QED BY <1>0, <1>8, <1>t, <2>1, <2>2, <2>3 DEF Manage, TypesOf
<1>9. CASE Apply
  <2>1. op' \in OpType
    BY <1>9, <1>c, OpFacts DEF Apply
  <2>2. op.to \in Status
    BY <1>c, OpFacts
  <2>3. db' \in [Pages -> Status]
    BY <1>0, <1>9, <2>2 DEF Apply, TypesOf
  <2> QED BY <1>0, <1>9, <1>t, <2>1, <2>3 DEF Apply, TypesOf
<1>10. CASE Finish
  <2>1. rows' \in RowType /\ op' \in OpType
    BY <1>10, ManagedFacts, NoOpFacts DEF Finish
  <2>2. causes' \subseteq Causes
    <3>1. "snapback" \in Causes
      BY DEF Causes
    <3> QED BY <1>10, <1>m, <3>1 DEF Finish
  <2>3. Uncovered \subseteq {"loading", "searching"}
    BY <1>c DEF Uncovered
  <2>4. op.back \in Pages
    BY <1>c, OpFacts
  <2>5. UNCHANGED <<table, db, active, keyword, sought, ops, faults>>
    BY <1>10 DEF Finish
  <2>6. CASE Reloads
    <3>1. PageQuery(op.back) \in Queries /\ counter + 1 <= MaxAsks + MaxOps
      BY <1>10, <2>4, PageQueryFacts, AskRoom DEF Finish
    <3>2. Ask(PageQuery(op.back), Uncovered)
      BY <1>10, <2>6 DEF Finish
    <3> QED BY <1>c, <2>1, <2>2, <2>3, <2>5, <3>1, <3>2, AskType
  <2>7. CASE ~Reloads
    <3>1. flags' = Uncovered /\ UNCHANGED <<gets, counter, latest, wanted>>
      BY <1>10, <2>7 DEF Finish
    <3> QED BY <1>0, <1>t, <2>1, <2>2, <2>3, <2>5, <3>1 DEF TypesOf
  <2> QED BY <2>6, <2>7
<1>11. ASSUME NEW how \in Failures, FailOp(how) PROVE TypeOK'
  <2>1. flags' \subseteq {"loading", "searching"} /\ causes' \subseteq Causes
    BY <1>c, <1>11 DEF FailOp, Causes
  <2>2. faults' \in 0..MaxFaults
    BY <1>11, Types DEF FailOp
  <2>3. op' \in OpType
    BY <1>11, NoOpFacts DEF FailOp
  <2> QED BY <1>0, <1>11, <1>t, <2>1, <2>2, <2>3 DEF FailOp, TypesOf
<1>12. CASE UNCHANGED vars
  BY <1>0, <1>12, <1>t DEF vars, TypesOf
<1> QED BY <1>1, <1>2, <1>3, <1>4, <1>5, <1>6, <1>7, <1>8, <1>9, <1>10, <1>11, <1>12, <1>14
        DEF Next

LEMMA AskCount ==
    ASSUME TypeOK, CountInv, NEW query \in Queries, NEW set, Ask(query, set),
           counter < MaxAsks, UNCHANGED <<op, ops>>
    PROVE  CountInv'
<1>1. counter + 1 <= MaxAsks + MaxOps
  BY AskRoom
<1>2. counter' = counter + 1
  BY DEF Ask
<1>3. \A g \in gets' : g.callers \subseteq 1..counter'
  <2>1. PICK new \in GetType : Joins(new, query)
    BY <1>1, AskJoins
  <2>2. \A c \in 1..counter : c \in 1..(counter + 1)
    BY Types
  <2> QED BY <1>2, <2>1, <2>2 DEF Joins, CountInv
<1>4. Busy' <= ops' /\ counter' + Busy' <= MaxAsks + ops'
  BY <1>2, Types DEF Busy, CountInv
<1> QED BY <1>3, <1>4 DEF CountInv

LEMMA CountNext == TypeOK /\ CountInv /\ [Next]_vars => CountInv'
<1> SUFFICES ASSUME TypeOK, CountInv, [Next]_vars PROVE CountInv'
  OBVIOUS
<1>0. /\ counter \in Nat /\ ops \in Nat /\ MaxAsks \in Nat
      /\ Busy <= ops /\ counter + Busy <= MaxAsks + ops
      /\ op \in OpType /\ active \in Pages
  BY Types DEF CountInv
<1>s. ASSUME gets' \subseteq gets, counter' = counter PROVE \A g \in gets' : g.callers \subseteq 1..counter'
  BY <1>s DEF CountInv
<1>1. ASSUME UNCHANGED <<counter, op, ops>>, gets' \subseteq gets PROVE CountInv'
  BY <1>1, <1>s, <1>0 DEF CountInv, Busy
<1>2. ASSUME NEW b \in BOOLEAN, Type(b) PROVE CountInv'
  BY <1>1, <1>2 DEF Type
<1>3. ASSUME NEW p \in Pages, ClickPage(p) PROVE CountInv'
  BY <1>3, AskCount, PageQueryFacts DEF ClickPage
<1>4. CASE Search
  <2>1. counter < MaxAsks
    BY <1>4 DEF Search
  <2> QED BY <1>4, <2>1, AskCount, SearchFacts
<1>13. ASSUME NEW b \in BOOLEAN, TypeAhead(b) PROVE CountInv'
  BY <1>13, AskCount, FirstQueryFacts DEF TypeAhead
<1>5. CASE Refresh
  BY <1>0, <1>5, AskCount, PageQueryFacts DEF Refresh
<1>6. ASSUME NEW g \in gets, Read(g) PROVE CountInv'
  <2>1. g \in GetType /\ db \in [Pages -> Status]
    BY Types
  <2>2. db[g.query.page] \in Status
    BY <2>1, GetFacts
  <2>3. [g EXCEPT !.st = "read", !.status = db[g.query.page]].callers = g.callers
    BY <2>1, <2>2, GetFacts
  <2>4. \A h \in gets' : h.callers \subseteq 1..counter'
    BY <1>6, <2>3 DEF Read, CountInv
  <2>5. Busy' <= ops' /\ counter' + Busy' <= MaxAsks + ops'
    BY <1>0, <1>6 DEF Read, Busy
  <2> QED BY <2>4, <2>5 DEF CountInv
<1>7. ASSUME NEW g \in gets, Show(g) \/ \E how \in Failures : FailGet(g, how) PROVE CountInv'
  BY <1>1, <1>7 DEF Show, FailGet
<1>8. ASSUME NEW kind \in {"toggle", "delete"}, Manage(kind) PROVE CountInv'
  <2>1. op'.st = "sent"
    BY <1>8, ManageFacts
  <2>2. op.st = "none" /\ ops' = ops + 1 /\ counter' = counter /\ gets' = gets
    BY <1>8 DEF Manage
  <2>3. Busy' = 1 /\ Busy = 0
    BY <2>1, <2>2 DEF Busy
  <2>4. Busy' <= ops' /\ counter' + Busy' <= MaxAsks + ops'
    BY <1>0, <2>2, <2>3
  <2> QED BY <1>s, <2>2, <2>4 DEF CountInv
<1>9. CASE Apply
  <2>1. op'.st = "done" /\ op.st = "sent"
    BY <1>0, <1>9, OpFacts DEF Apply
  <2>2. Busy' = Busy
    BY <2>1 DEF Busy
  <2> QED BY <1>0, <1>9, <1>s, <2>2 DEF Apply, CountInv
<1>10. CASE Finish
  <2>1. op.st = "done" /\ op'.st = "none" /\ ops' = ops
    BY <1>10, NoOpFacts DEF Finish
  <2>2. Busy' = 0 /\ Busy = 1
    BY <2>1 DEF Busy
  <2>3. CASE Reloads
    <3>1. op.back \in Pages
      BY <1>0, OpFacts
    <3>2. PageQuery(op.back) \in Queries /\ counter + 1 <= MaxAsks + MaxOps
      BY <2>1, <3>1, PageQueryFacts, AskRoom
    <3>3. Ask(PageQuery(op.back), Uncovered)
      BY <1>10, <2>3 DEF Finish
    <3>4. Uncovered \subseteq {"loading", "searching"}
      BY DEF Uncovered, TypeOK
    <3>5. counter' = counter + 1 /\ \A g \in gets' : g.callers \subseteq 1..counter'
      BY <3>2, <3>3, <3>4, AskTypes
    <3> QED BY <1>0, <2>1, <2>2, <3>5 DEF CountInv
  <2>4. CASE ~Reloads
    <3>1. gets' = gets /\ counter' = counter
      BY <1>10, <2>4 DEF Finish
    <3> QED BY <1>0, <1>s, <2>1, <2>2, <3>1 DEF CountInv
  <2> QED BY <2>3, <2>4
<1>11. ASSUME NEW how \in Failures, FailOp(how) PROVE CountInv'
  <2>1. op.st # "none" /\ op'.st = "none" /\ ops' = ops /\ gets' = gets /\ counter' = counter
    BY <1>11, NoOpFacts DEF FailOp
  <2>2. Busy' = 0 /\ Busy = 1
    BY <2>1 DEF Busy
  <2> QED BY <1>0, <1>s, <2>1, <2>2 DEF CountInv
<1>12. CASE UNCHANGED vars
  BY <1>1, <1>12 DEF vars
<1> QED BY <1>2, <1>3, <1>4, <1>5, <1>6, <1>7, <1>8, <1>9, <1>10, <1>11, <1>12, <1>13 DEF Next

LEMMA OpNext == TypeOK /\ OpInv /\ [Next]_vars => OpInv'
<1> SUFFICES ASSUME TypeOK, OpInv, [Next]_vars PROVE OpInv'
  OBVIOUS
<1>0. op \in OpType /\ db \in [Pages -> Status]
  BY Types
<1>1. ASSUME UNCHANGED <<table, db, op>> PROVE OpInv'
  BY <1>1 DEF OpInv
<1>2. ASSUME op' = NoOp PROVE OpInv'
  BY <1>2, NoOpFacts DEF OpInv
<1>3. ASSUME NEW kind \in {"toggle", "delete"}, Manage(kind) PROVE OpInv'
  <2>1. table' = table /\ table.rows # ReadOnly
    BY <1>3 DEF Manage
  <2> QED BY <1>3, <2>1, ManageFacts DEF OpInv
<1>4. CASE Apply
  <2>1. op.st = "sent" /\ op' = [op EXCEPT !.st = "done"]
        /\ db' = [db EXCEPT ![op.item] = op.to] /\ table' = table
    BY <1>4 DEF Apply
  <2>2. op.item \in Pages /\ op'.item = op.item /\ op'.to = op.to /\ op'.snap = op.snap
    BY <1>0, <2>1, OpFacts
  <2>3. db'[op.item] = op.to
    BY <1>0, <2>1, <2>2
  <2> QED BY <2>1, <2>2, <2>3 DEF OpInv
<1>5. ASSUME \/ \E b \in BOOLEAN : Type(b) \/ TypeAhead(b)
             \/ \E p \in Pages : ClickPage(p)
             \/ Search \/ Refresh
      PROVE  UNCHANGED <<table, db, op>>
  BY <1>5 DEF Type, TypeAhead, ClickPage, Search, Refresh
<1>6. ASSUME NEW g \in gets, Read(g) \/ Show(g) \/ \E how \in Failures : FailGet(g, how)
      PROVE  UNCHANGED <<table, db, op>>
  BY <1>6 DEF Read, Show, FailGet
<1>7. CASE Finish \/ \E how \in Failures : FailOp(how)
  BY <1>2, <1>7 DEF Finish, FailOp
<1>8. CASE UNCHANGED vars
  BY <1>1, <1>8 DEF vars
<1> QED BY <1>1, <1>3, <1>4, <1>5, <1>6, <1>7, <1>8 DEF Next

(***************************************************************************)
(* The wanted rows                                                         *)
(***************************************************************************)
\* An answer that is read keeps its query and its callers.
LEMMA ReadFacts ==
    ASSUME TypeOK, NEW g \in gets, Read(g)
    PROVE  \E h \in GetType :
             /\ h.query = g.query /\ h.callers = g.callers
             /\ h.st = "read" /\ h.status = db[h.query.page]
             /\ gets' = (gets \ {g}) \cup {h}
<1>1. g \in GetType /\ db \in [Pages -> Status]
  BY Types
<1>2. db[g.query.page] \in Status
  BY <1>1, GetFacts
<1> DEFINE h == [g EXCEPT !.st = "read", !.status = db[g.query.page]]
<1>3. h \in GetType /\ h.query = g.query /\ h.callers = g.callers
      /\ h.st = "read" /\ h.status = db[g.query.page]
  BY <1>1, <1>2, GetFacts
<1>4. gets' = (gets \ {g}) \cup {h}
  BY DEF Read
<1> HIDE DEF h
<1> QED BY <1>3, <1>4

\* After an operation without a snapback the rows belong to the same query.
LEMMA FinishFacts ==
    ASSUME TypeOK, Finish
    PROVE  /\ causes \subseteq causes'
           /\ "snapback" \notin causes' =>
                rows'.page = rows.page /\ rows'.q = rows.q /\ op.back = active
           /\ Reloads => Meets(PageQuery(op.back)) \subseteq causes'
BY DEF Finish

LEMMA AskedNext == TypeOK /\ CountInv /\ AskedInv /\ [Next]_vars => AskedInv'
<1> SUFFICES ASSUME TypeOK, CountInv, AskedInv, [Next]_vars PROVE AskedInv'
  OBVIOUS
<1>0. active \in Pages /\ op \in OpType /\ rows \in RowType /\ gets \subseteq GetType
      /\ wanted \in Queries
  BY Types
<1>f. ASSUME "failed" \in causes' PROVE AskedInv'
  BY <1>f DEF AskedInv
<1>1. ASSUME UNCHANGED <<table, gets, latest, wanted>>, Shown' = Shown, causes \subseteq causes'
      PROVE  AskedInv'
  BY <1>1 DEF AskedInv, Superseded, Current
<1>2. ASSUME NEW b \in BOOLEAN, Type(b) PROVE AskedInv'
  BY <1>1, <1>2 DEF Type, Shown
<1>3. ASSUME NEW p \in Pages, ClickPage(p) PROVE AskedInv'
  <2>1. PageQuery(p) \in Queries /\ counter + 1 <= MaxAsks + MaxOps
    BY <1>3, PageQueryFacts, AskRoom DEF ClickPage
  <2>2. causes' = causes \cup Meets(PageQuery(p)) /\ Ask(PageQuery(p), flags) /\ table' = table
    BY <1>3 DEF ClickPage
  <2> QED BY <2>1, <2>2, AskAsked, MeetsFacts
<1>4. CASE Search
  <2>1. FirstQuery(keyword) \in Queries /\ counter + 1 <= MaxAsks + MaxOps
    BY <1>4, SearchFacts, AskRoom DEF Search
  <2>2. PICK set : Ask(FirstQuery(keyword), set)
    BY <1>4, SearchFacts
  <2>3. causes \cup Meets(FirstQuery(keyword)) \subseteq causes' /\ table' = table
    BY <1>4, SearchFacts
  <2> QED BY <2>1, <2>2, <2>3, AskAsked, MeetsFacts
<1>14. ASSUME NEW b \in BOOLEAN, TypeAhead(b) PROVE AskedInv'
  <2>1. FirstQuery(b) \in Queries /\ counter + 1 <= MaxAsks + MaxOps
    BY <1>14, FirstQueryFacts, AskRoom DEF TypeAhead
  <2>2. causes' = causes \cup Meets(FirstQuery(b)) /\ Ask(FirstQuery(b), flags) /\ table' = table
    BY <1>14 DEF TypeAhead
  <2> QED BY <2>1, <2>2, AskAsked, MeetsFacts
<1>5. CASE Refresh
  <2>1. PageQuery(active) \in Queries /\ counter + 1 <= MaxAsks + MaxOps
    BY <1>0, <1>5, PageQueryFacts, AskRoom DEF Refresh
  <2>2. causes' = causes \cup Meets(PageQuery(active)) /\ Ask(PageQuery(active), flags)
        /\ table' = table
    BY <1>5 DEF Refresh
  <2> QED BY <2>1, <2>2, AskAsked, MeetsFacts
<1>6. ASSUME NEW g \in gets, Read(g) PROVE AskedInv'
  <2>1. PICK h \in GetType : /\ h.query = g.query /\ h.callers = g.callers
                             /\ gets' = (gets \ {g}) \cup {h}
    BY <1>6, ReadFacts
  <2>2. UNCHANGED <<table, rows, latest, wanted, causes>>
    BY <1>6 DEF Read
  <2>3. Current(h)' <=> Current(g)
    BY <2>1, <2>2 DEF Current
  <2>4. \A x : (Current(x)' <=> Current(x)) /\ (Superseded(x)' <=> Superseded(x))
    BY <2>2 DEF Current, Superseded
  <2>5. Superseded(h)' <=> Superseded(g)
    BY <2>1, <2>2 DEF Superseded
  <2> QED BY <2>1, <2>2, <2>3, <2>4, <2>5 DEF AskedInv, Shown
<1>7. ASSUME NEW g \in gets, Show(g) PROVE AskedInv'
  <2>1. UNCHANGED <<table, latest, wanted, causes>> /\ gets' = gets \ {g}
    BY <1>7 DEF Show
  <2>2. \A x : (Current(x)' <=> Current(x)) /\ (Superseded(x)' <=> Superseded(x))
    BY <2>1 DEF Current, Superseded
  <2> SUFFICES ASSUME causes \cap {"failed", "crossed", "snapback"} = {}
               PROVE  wanted = Shown' \/ \E h \in gets' : h.query = wanted /\ Current(h)
    BY <2>1, <2>2 DEF AskedInv
  <2>3. CASE Current(g)
    <3>1. g.query = wanted
      BY <2>3 DEF AskedInv, Superseded, Current
    <3>2. rows' = [q |-> g.query.q, page |-> g.query.page, status |-> g.status]
      BY <1>7, <2>3 DEF Show
    <3>3. Shown' = [q |-> wanted.q, page |-> wanted.page]
      BY <3>1, <3>2 DEF Shown
    <3> QED BY <1>0, <3>3, QueryFacts
  <2>4. CASE ~Current(g)
    <3>1. rows' = rows
      BY <1>7, <2>4 DEF Show
    <3> QED BY <2>1, <2>4, <3>1 DEF AskedInv, Shown
  <2> QED BY <2>3, <2>4
<1>8. ASSUME NEW g \in gets, NEW how \in Failures, FailGet(g, how) PROVE AskedInv'
  BY <1>8, <1>f DEF FailGet
<1>9. ASSUME NEW kind \in {"toggle", "delete"}, Manage(kind) PROVE AskedInv'
  BY <1>1, <1>9 DEF Manage, Shown
<1>10. CASE Apply
  BY <1>1, <1>10 DEF Apply, Shown
<1>11. CASE Finish
  <2>1. table' = table
    BY <1>11 DEF Finish
  <2>2. CASE Reloads
    <3>1. op.back \in Pages
      BY <1>0, OpFacts
    <3>2. PageQuery(op.back) \in Queries /\ counter + 1 <= MaxAsks + MaxOps
      BY <1>11, <3>1, PageQueryFacts, AskRoom DEF Finish
    <3>3. Ask(PageQuery(op.back), Uncovered)
      BY <1>11, <2>2 DEF Finish
    <3>4. causes \cup Meets(PageQuery(op.back)) \subseteq causes'
      BY <1>11, <2>2, FinishFacts
    <3> QED BY <2>1, <3>2, <3>3, <3>4, AskAsked, MeetsFacts
  <2>3. CASE ~Reloads
    <3>1. UNCHANGED <<gets, latest, wanted>>
      BY <1>11, <2>3 DEF Finish
    <3>2. CASE "snapback" \in causes'
      BY <3>2 DEF AskedInv
    <3>3. CASE "snapback" \notin causes'
      BY <1>1, <1>11, <2>1, <3>1, <3>3, FinishFacts DEF Shown
    <3> QED BY <3>2, <3>3
  <2> QED BY <2>2, <2>3
<1>12. ASSUME NEW how \in Failures, FailOp(how) PROVE AskedInv'
  BY <1>12, <1>f DEF FailOp
<1>13. CASE UNCHANGED vars
  BY <1>1, <1>13 DEF vars, Shown
<1> QED BY <1>2, <1>3, <1>4, <1>5, <1>6, <1>7, <1>8, <1>9, <1>10, <1>11, <1>12, <1>13, <1>14
        DEF Next

(***************************************************************************)
(* The page number                                                         *)
(***************************************************************************)
LEMMA AnswerNext == TypeOK /\ AnswerInv /\ [Next]_vars => AnswerInv'
<1> SUFFICES ASSUME TypeOK, AnswerInv, [Next]_vars PROVE AnswerInv'
  OBVIOUS
<1>f. ASSUME "failed" \in causes' PROVE AnswerInv'
  BY <1>f DEF AnswerInv
<1>1. ASSUME UNCHANGED <<table, gets, active, rows>>, causes \subseteq causes' PROVE AnswerInv'
  BY <1>1 DEF AnswerInv
<1>a. ASSUME NEW query, NEW set, Ask(query, set) PROVE AnswerInv'
  BY <1>a DEF Ask, AnswerInv
<1>2. ASSUME NEW b \in BOOLEAN, Type(b) PROVE AnswerInv'
  BY <1>1, <1>2 DEF Type
<1>3. ASSUME NEW p \in Pages, ClickPage(p) PROVE AnswerInv'
  BY <1>3, <1>a DEF ClickPage
<1>4. CASE Search
  BY <1>4, <1>a, SearchFacts
<1>14. ASSUME NEW b \in BOOLEAN, TypeAhead(b) PROVE AnswerInv'
  BY <1>14, <1>a DEF TypeAhead
<1>5. CASE Refresh
  BY <1>5, <1>a DEF Refresh
<1>6. ASSUME NEW g \in gets, Read(g) PROVE AnswerInv'
  <2>1. gets' # {}
    BY <1>6 DEF Read
  <2> QED BY <2>1 DEF AnswerInv
<1>7. ASSUME NEW g \in gets, Show(g) PROVE AnswerInv'
  <2> SUFFICES ASSUME table.load.page = "answer" PROVE active' = rows'.page
    BY <1>7 DEF Show, AnswerInv
  <2>1. ~table.load.counts
    BY Types DEF Wellformed
  <2>2. Current(g)
    BY <2>1 DEF Current
  <2>3. active' = PageOf(g) /\ rows' = [q |-> g.query.q, page |-> g.query.page,
                                        status |-> g.status]
    BY <1>7, <2>2 DEF Show
  <2> QED BY <2>3 DEF PageOf
<1>8. ASSUME NEW g \in gets, NEW how \in Failures, FailGet(g, how) PROVE AnswerInv'
  BY <1>8, <1>f DEF FailGet
<1>9. ASSUME NEW kind \in {"toggle", "delete"}, Manage(kind) PROVE AnswerInv'
  BY <1>1, <1>9 DEF Manage
<1>10. CASE Apply
  BY <1>1, <1>10 DEF Apply
<1>11. CASE Finish
  <2>1. CASE Reloads
    BY <1>11, <1>a, <2>1 DEF Finish
  <2>2. CASE ~Reloads
    <3>1. UNCHANGED <<table, gets, active>>
      BY <1>11, <2>2 DEF Finish
    <3> QED BY <1>11, <3>1, FinishFacts DEF AnswerInv
  <2> QED BY <2>1, <2>2
<1>12. ASSUME NEW how \in Failures, FailOp(how) PROVE AnswerInv'
  BY <1>12, <1>f DEF FailOp
<1>13. CASE UNCHANGED vars
  BY <1>1, <1>13 DEF vars
<1> QED BY <1>2, <1>3, <1>4, <1>5, <1>6, <1>7, <1>8, <1>9, <1>10, <1>11, <1>12, <1>13, <1>14
        DEF Next

LEMMA ClickNext ==
    TypeOK /\ CountInv /\ AskedInv /\ ClickInv /\ [Next]_vars => ClickInv'
<1> SUFFICES ASSUME TypeOK, CountInv, AskedInv, ClickInv, [Next]_vars,
                    (table.load.page # "answer")',
                    (causes \cap {"failed", "crossed", "snapback", "unnumbered"} = {})'
             PROVE  \/ (active = wanted.page)'
                    \/ (/\ table.load.page = "search"
                        /\ wanted.q = "search"
                        /\ \E g \in gets : g.query = wanted)'
  BY DEF ClickInv
<1> DEFINE Goal == active' = wanted'.page
<1>0. active \in Pages /\ op \in OpType /\ Wellformed(table)
  BY Types
<1>1. ASSUME UNCHANGED <<table, gets, active, wanted>>, causes \subseteq causes'
      PROVE  ClickInv'
  BY <1>1 DEF ClickInv
<1>a. ASSUME NEW p \in Pages, NEW set, Ask(PageQuery(p), set), active' = p, table' = table
      PROVE  Goal
  <2>1. wanted' = PageQuery(p)
    BY <1>a DEF Ask
  <2> QED BY <1>a, <2>1, PageQueryFacts
<1>2. ASSUME NEW b \in BOOLEAN, Type(b) PROVE ClickInv'
  BY <1>1, <1>2 DEF Type
<1>3. ASSUME NEW p \in Pages, ClickPage(p) PROVE Goal
  <2>1. table.paging.early /\ table' = table
    BY <1>0, <1>3 DEF Wellformed, ClickPage
  <2> QED BY <1>3, <1>a, <2>1 DEF ClickPage
<1>4. CASE Search
  <2>1. /\ table' = table
        /\ active' = (IF table.load.page = "click" \/ table.paging.home = "set" THEN 1 ELSE active)
        /\ (table.load.page = "search" /\ ~keyword /\ active # 1 => "unnumbered" \in causes')
    BY <1>4 DEF Search
  <2>2. wanted' = FirstQuery(keyword) /\ \E g \in gets' : g.query = FirstQuery(keyword)
    <3>1. FirstQuery(keyword) \in Queries /\ counter + 1 <= MaxAsks + MaxOps
      BY <1>4, SearchFacts, AskRoom DEF Search
    <3>2. PICK set : Ask(FirstQuery(keyword), set)
      BY <1>4, SearchFacts
    <3>3. PICK new \in GetType : Joins(new, FirstQuery(keyword))
      BY <3>1, <3>2, AskJoins
    <3>4. wanted' = FirstQuery(keyword)
      BY <3>2 DEF Ask
    <3> QED BY <3>3, <3>4 DEF Joins
  <2>3. CASE table.load.page = "click" \/ table.paging.home = "set"
    BY <2>1, <2>2, <2>3, FirstQueryFacts
  <2>4. CASE table.load.page = "search" /\ keyword
    BY <2>1, <2>2, <2>4, FirstQueryFacts
  <2>5. CASE table.load.page = "search" /\ ~keyword
    BY <2>1, <2>2, <2>5, FirstQueryFacts
  <2> QED BY <1>0, <2>1, <2>3, <2>4, <2>5 DEF Wellformed
<1>15. ASSUME NEW b \in BOOLEAN, TypeAhead(b) PROVE Goal
  <2>1. wanted' = FirstQuery(b) /\ active' = 1
    BY <1>15 DEF TypeAhead, Ask
  <2> QED BY <2>1, FirstQueryFacts
<1>5. CASE Refresh
  BY <1>0, <1>5, <1>a DEF Refresh
<1>6. ASSUME NEW g \in gets, Read(g) PROVE ClickInv'
  <2>1. PICK h \in GetType : h.query = g.query /\ gets' = (gets \ {g}) \cup {h}
    BY <1>6, ReadFacts
  <2>2. UNCHANGED <<table, active, wanted, causes>>
    BY <1>6 DEF Read
  <2> QED BY <2>1, <2>2 DEF ClickInv
<1>7. ASSUME NEW g \in gets, Show(g) PROVE ClickInv'
  <2>1. UNCHANGED <<table, wanted, causes, latest>> /\ gets' = gets \ {g}
    BY <1>7 DEF Show
  <2>2. CASE Current(g)
    <3>1. g.query = wanted
      BY <2>1, <2>2 DEF AskedInv, Superseded, Current
    <3>2. active' = PageOf(g)
      BY <1>7, <2>2 DEF Show
    <3>3. CASE table.load.page = "search" /\ wanted.q = "search"
      BY <2>1, <3>1, <3>2, <3>3 DEF PageOf, ClickInv
    <3>4. CASE ~(table.load.page = "search" /\ wanted.q = "search")
      <4>1. active = wanted.page
        BY <2>1, <3>4 DEF ClickInv
      <4>2. active' = active
        BY <2>1, <3>1, <3>2, <3>4 DEF PageOf
      <4> QED BY <2>1, <4>1, <4>2 DEF ClickInv
    <3> QED BY <3>3, <3>4
  <2>3. CASE ~Current(g)
    <3>1. active' = active
      BY <1>7, <2>3 DEF Show
    <3>2. g.query.q = "load"
      BY <2>3 DEF Current
    <3> QED BY <2>1, <3>1, <3>2 DEF ClickInv
  <2> QED BY <2>2, <2>3
<1>8. CASE \E how \in Failures : FailOp(how) \/ \E g \in gets : FailGet(g, how)
  BY <1>8 DEF FailGet, FailOp
<1>9. ASSUME NEW kind \in {"toggle", "delete"}, Manage(kind) PROVE ClickInv'
  BY <1>1, <1>9 DEF Manage
<1>10. CASE Apply
  <2>1. ClickInv'
    BY <1>1, <1>10 DEF Apply
  <2> QED BY <2>1 DEF ClickInv
<1>11. CASE Finish
  <2>1. op.back = active /\ causes \subseteq causes' /\ UNCHANGED <<table, active>>
    BY <1>11, FinishFacts DEF Finish
  <2>2. CASE Reloads
    BY <1>0, <1>11, <1>a, <2>1, <2>2 DEF Finish
  <2>3. CASE ~Reloads
    <3>1. ClickInv'
      BY <1>1, <1>11, <2>1, <2>3 DEF Finish
    <3> QED BY <3>1 DEF ClickInv
  <2> QED BY <2>2, <2>3
<1>12. CASE UNCHANGED vars
  <2>1. ClickInv'
    BY <1>1, <1>12 DEF vars
  <2> QED BY <2>1 DEF ClickInv
<1>13. ASSUME ClickInv'
       PROVE  \/ (active = wanted.page)'
              \/ (/\ table.load.page = "search"
                  /\ wanted.q = "search"
                  /\ \E g \in gets : g.query = wanted)'
  BY <1>13 DEF ClickInv
<1>14. ASSUME NEW g \in gets, Read(g) \/ Show(g) PROVE ClickInv'
  BY <1>6, <1>7, <1>14
<1> HIDE DEF ClickInv
<1> QED BY <1>2, <1>3, <1>4, <1>5, <1>8, <1>9, <1>10, <1>11, <1>12, <1>13, <1>14, <1>15
        DEF Next

(***************************************************************************)
(* The status in the rows                                                  *)
(***************************************************************************)
LEMMA AskStatus ==
    ASSUME TypeOK, CountInv, StatusInv, AloneInv, NEW query \in Queries, NEW set, Ask(query, set),
           counter + 1 <= MaxAsks + MaxOps, table' = table, db' = db,
           causes \cup Meets(query) \subseteq causes',
           op' = op \/ op'.st = "none"
    PROVE  StatusInv' /\ AloneInv'
<1> SUFFICES ASSUME (causes \cap {"failed", "raced"} = {})'
             PROVE  /\ \A g \in gets' : g.st = "read" => g.status = db[g.query.page]
                    /\ \E g \in gets' : Current(g)'
                    /\ op'.st # "sent"
  BY DEF StatusInv, AloneInv
<1>1. PICK new \in GetType : Joins(new, query)
  BY AskJoins
<1>2. latest' = IF query.q = "load" THEN counter + 1 ELSE latest
  BY DEF Ask
<1>3. ~(op.st = "sent") /\ ~(\E g \in gets : g.query = query /\ g.st = "read")
  <2>1. "raced" \notin Meets(query)
    OBVIOUS
  <2> QED BY <2>1, MeetsFacts
<1>4. op'.st # "sent"
  BY <1>3
<1>5. new.st # "read" /\ new \in gets' /\ new.query = query /\ counter + 1 \in new.callers
  BY <1>1, <1>3 DEF Joins
<1>6. Current(new)'
  BY <1>2, <1>5 DEF Current
<1>7. \A g \in gets' : g = new \/ g \in gets
  BY <1>1 DEF Joins
<1>8. causes \cap {"failed", "raced"} = {}
  OBVIOUS
<1> QED BY <1>4, <1>5, <1>6, <1>7, <1>8 DEF StatusInv

LEMMA StatusNext ==
    TypeOK /\ CountInv /\ OpInv /\ AloneInv /\ StatusInv /\ [Next]_vars
        => AloneInv' /\ StatusInv'
<1> SUFFICES ASSUME TypeOK, CountInv, OpInv, AloneInv, StatusInv, [Next]_vars
             PROVE  AloneInv' /\ StatusInv'
  OBVIOUS
<1> DEFINE Kept == AloneInv' /\ StatusInv'
<1>0. /\ active \in Pages /\ op \in OpType /\ rows \in RowType /\ db \in [Pages -> Status]
      /\ Wellformed(table)
  BY Types
<1>f. ASSUME "failed" \in causes' PROVE Kept
  BY <1>f DEF AloneInv, StatusInv
<1>1. ASSUME UNCHANGED <<table, db, rows, gets, latest, op>>, causes \subseteq causes'
      PROVE  Kept
  BY <1>1 DEF AloneInv, StatusInv, Current
<1>2. ASSUME NEW b \in BOOLEAN, Type(b) PROVE Kept
  BY <1>1, <1>2 DEF Type
<1>3. ASSUME NEW p \in Pages, ClickPage(p) PROVE Kept
  <2>1. PageQuery(p) \in Queries /\ counter + 1 <= MaxAsks + MaxOps
    BY <1>3, PageQueryFacts, AskRoom DEF ClickPage
  <2>2. causes \cup Meets(PageQuery(p)) \subseteq causes' /\ Ask(PageQuery(p), flags)
        /\ table' = table /\ db' = db /\ op' = op
    BY <1>3 DEF ClickPage
  <2> QED BY <2>1, <2>2, AskStatus
<1>4. CASE Search
  <2>1. FirstQuery(keyword) \in Queries /\ counter + 1 <= MaxAsks + MaxOps
    BY <1>4, SearchFacts, AskRoom DEF Search
  <2>2. PICK set : Ask(FirstQuery(keyword), set)
    BY <1>4, SearchFacts
  <2>3. /\ causes \cup Meets(FirstQuery(keyword)) \subseteq causes'
        /\ table' = table /\ db' = db /\ op' = op
    BY <1>4, SearchFacts
  <2> QED BY <2>1, <2>2, <2>3, AskStatus
<1>14. ASSUME NEW b \in BOOLEAN, TypeAhead(b) PROVE Kept
  <2>1. FirstQuery(b) \in Queries /\ counter + 1 <= MaxAsks + MaxOps
    BY <1>14, FirstQueryFacts, AskRoom DEF TypeAhead
  <2>2. causes \cup Meets(FirstQuery(b)) \subseteq causes' /\ Ask(FirstQuery(b), flags)
        /\ table' = table /\ db' = db /\ op' = op
    BY <1>14 DEF TypeAhead
  <2> QED BY <2>1, <2>2, AskStatus
<1>5. CASE Refresh
  <2>1. PageQuery(active) \in Queries /\ counter + 1 <= MaxAsks + MaxOps
    BY <1>0, <1>5, PageQueryFacts, AskRoom DEF Refresh
  <2>2. causes \cup Meets(PageQuery(active)) \subseteq causes' /\ Ask(PageQuery(active), flags)
        /\ table' = table /\ db' = db /\ op' = op
    BY <1>5 DEF Refresh
  <2> QED BY <2>1, <2>2, AskStatus
<1>6. ASSUME NEW g \in gets, Read(g) PROVE Kept
  <2>1. PICK h \in GetType : /\ h.query = g.query /\ h.callers = g.callers
                             /\ h.st = "read" /\ h.status = db[h.query.page]
                             /\ gets' = (gets \ {g}) \cup {h}
    BY <1>6, ReadFacts
  <2>2. UNCHANGED <<table, db, rows, latest, op, causes>>
    BY <1>6 DEF Read
  <2>3. Current(h)' <=> Current(g)
    BY <2>1, <2>2 DEF Current
  <2>4. \A x : Current(x)' <=> Current(x)
    BY <2>2 DEF Current
  <2>5. AloneInv'
    BY <2>2 DEF AloneInv
  <2>6. StatusInv'
    BY <2>1, <2>2, <2>3, <2>4 DEF StatusInv
  <2> QED BY <2>5, <2>6
<1>7. ASSUME NEW g \in gets, Show(g) PROVE Kept
  <2>1. UNCHANGED <<table, db, latest, op, causes>> /\ gets' = gets \ {g} /\ g.st = "read"
    BY <1>7 DEF Show
  <2>2. \A x : Current(x)' <=> Current(x)
    BY <2>1 DEF Current
  <2>3. AloneInv'
    BY <2>1 DEF AloneInv
  <2>4. CASE Current(g)
    <3>1. rows'.page = g.query.page /\ rows'.status = g.status
      BY <1>7, <2>4 DEF Show
    <3>2. StatusInv'
      BY <2>1, <3>1 DEF StatusInv
    <3> QED BY <2>3, <3>2
  <2>5. CASE ~Current(g)
    <3>1. rows' = rows
      BY <1>7, <2>5 DEF Show
    <3>2. StatusInv'
      BY <2>1, <2>2, <2>5, <3>1 DEF StatusInv
    <3> QED BY <2>3, <3>2
  <2> QED BY <2>4, <2>5
<1>8. ASSUME NEW g \in gets, NEW how \in Failures, FailGet(g, how) PROVE Kept
  BY <1>8, <1>f DEF FailGet
<1>9. ASSUME NEW kind \in {"toggle", "delete"}, Manage(kind) PROVE Kept
  <2>1. /\ UNCHANGED <<table, db, rows, gets, latest>> /\ causes \subseteq causes'
        /\ gets # {} => "raced" \in causes'
    BY <1>9 DEF Manage
  <2>2. op'.st = "sent" /\ op'.item = rows.page
    BY <1>9, ManageFacts
  <2> QED BY <2>1, <2>2 DEF AloneInv, StatusInv
<1>10. CASE Apply
  <2>1. /\ op.st = "sent" /\ op' = [op EXCEPT !.st = "done"]
        /\ UNCHANGED <<table, rows, gets, latest, causes>>
    BY <1>10 DEF Apply
  <2>2. op'.st = "done" /\ op'.item = op.item
    BY <1>0, <2>1, OpFacts
  <2> QED BY <2>1, <2>2 DEF AloneInv, StatusInv
<1>11. CASE Finish
  <2>1. table' = table /\ db' = db /\ rows' = Managed /\ op.st = "done" /\ op'.st = "none"
        /\ causes \subseteq causes'
    BY <1>11, NoOpFacts, FinishFacts DEF Finish
  <2>2. CASE Reloads
    <3>1. op.back \in Pages
      BY <1>0, OpFacts
    <3>2. PageQuery(op.back) \in Queries /\ counter + 1 <= MaxAsks + MaxOps
      BY <2>1, <3>1, PageQueryFacts, AskRoom
    <3>3. Ask(PageQuery(op.back), Uncovered)
      BY <1>11, <2>2 DEF Finish
    <3>4. causes \cup Meets(PageQuery(op.back)) \subseteq causes'
      BY <1>11, <2>2, FinishFacts
    <3> QED BY <2>1, <3>2, <3>3, <3>4, AskStatus
  <2>3. CASE ~Reloads
    <3>1. UNCHANGED <<gets, latest>>
      BY <1>11, <2>3 DEF Finish
    <3>2. \A x : Current(x)' <=> Current(x)
      BY <2>1, <3>1 DEF Current
    <3>3. op.kind # "delete" /\ ~table.rows.reloads
      BY <2>3 DEF Reloads
    <3>4. db[op.item] = op.to /\ op.snap.page = op.item /\ table.rows # ReadOnly
      BY <2>1 DEF OpInv
    <3>5. table.rows.writes = "snapshot" \/ table.rows.writes = "update"
      BY <1>0, <3>3, <3>4 DEF Wellformed
    <3>6. \/ rows'.status = db[rows'.page]
          \/ rows' = rows /\ rows.page # op.item
      BY <2>1, <3>3, <3>4, <3>5, ManagedFacts
    <3>7. StatusInv'
      BY <2>1, <3>1, <3>2, <3>6 DEF StatusInv
    <3> QED BY <2>1, <3>7 DEF AloneInv
  <2> QED BY <2>2, <2>3
<1>12. ASSUME NEW how \in Failures, FailOp(how) PROVE Kept
  BY <1>12, <1>f DEF FailOp
<1>13. CASE UNCHANGED vars
  BY <1>1, <1>13 DEF vars
<1> QED BY <1>2, <1>3, <1>4, <1>5, <1>6, <1>7, <1>8, <1>9, <1>10, <1>11, <1>12, <1>13, <1>14
        DEF Next

(***************************************************************************)
(* The theorems                                                            *)
(***************************************************************************)
LEMMA InvariantInit == Init => IInv
<1> SUFFICES ASSUME Init PROVE IInv
  OBVIOUS
<1>1. TypeOK
  <2>1. 1 \in Pages
    BY TableAssumption DEF TableAssumption, Pages
  <2>2. rows \in RowType /\ wanted \in Queries /\ db \in [Pages -> Status]
    BY <2>1 DEF Init, RowType, Queries, Status
  <2>3. op \in OpType
    BY NoOpFacts DEF Init
  <2>4. counter \in 0..(MaxAsks + MaxOps) /\ latest \in 0..counter /\ sought \subseteq 1..counter
        /\ ops \in 0..MaxOps /\ faults \in 0..MaxFaults
    BY TableAssumption DEF TableAssumption, Init
  <2>5. TypesOf
    BY <2>1, <2>2, <2>3, <2>4 DEF Init, TypesOf
  <2> QED BY <2>5, TypesOfType
<1>2. op.st = "none"
  BY NoOpFacts DEF Init
<1>3. CountInv
  <2>1. Busy = 0
    BY <1>2 DEF Busy
  <2> QED BY <2>1, TableAssumption DEF TableAssumption, Init, CountInv
<1>4. OpInv /\ AloneInv
  BY <1>2 DEF OpInv, AloneInv
<1>5. AskedInv
  BY DEF Init, AskedInv, Shown
<1>6. AnswerInv /\ ClickInv
  BY DEF Init, AnswerInv, ClickInv
<1>7. StatusInv
  <2>1. 1 \in Pages
    BY TableAssumption DEF TableAssumption, Pages
  <2> QED BY <2>1 DEF Init, StatusInv
<1> QED BY <1>1, <1>3, <1>4, <1>5, <1>6, <1>7 DEF IInv

LEMMA InvariantNext == IInv /\ [Next]_vars => IInv'
BY TypeNext, CountNext, OpNext, AskedNext, AnswerNext, ClickNext, StatusNext DEF IInv

\* The variables keep their types: no table sends more list requests than the
\* clicks on it and one for each operation on a row.
THEOREM TypeCorrect == Spec => []TypeOK
<1>1. IInv => TypeOK
  BY DEF IInv
<1> QED BY InvariantInit, InvariantNext, <1>1, PTL DEF Spec

\* A table without a request under way shows what was asked for last, unless
\* requests crossed that it cannot tell apart, one failed, or an operation on
\* a row put back the rows of its click.
THEOREM LatestAskedShownThm == Spec => []LatestAskedShown
<1>1. IInv => LatestAskedShown
  BY DEF IInv, AskedInv, Shown, Settled, LatestAskedShown
<1> QED BY InvariantInit, InvariantNext, <1>1, PTL DEF Spec

\* The page number belongs to the rows of a table without a request under
\* way; where the answer sets it, also when the answers came out of order.
THEOREM PageMatchesRowsThm == Spec => []PageMatchesRows
<1>1. IInv => PageMatchesRows
  <2> SUFFICES ASSUME IInv, gets = {}, causes \cap {"failed", "snapback", "unnumbered"} = {},
                      table.load.page = "answer" \/ "crossed" \notin causes
               PROVE  active = rows.page
    BY DEF PageMatchesRows, Settled
  <2>1. CASE table.load.page = "answer"
    BY <2>1 DEF IInv, AnswerInv
  <2>2. CASE table.load.page # "answer"
    <3>1. active = wanted.page
      BY <2>2 DEF IInv, ClickInv
    <3>2. wanted = Shown
      BY <2>2 DEF IInv, AskedInv
    <3> QED BY <3>1, <3>2 DEF Shown
  <2> QED BY <2>1, <2>2
<1> QED BY InvariantInit, InvariantNext, <1>1, PTL DEF Spec

\* The status in the row of a table without a request under way is the
\* server's, unless a list request ran against an operation on the row.
THEOREM RowsTrueThm == Spec => []RowsTrue
<1>1. IInv => RowsTrue
  BY DEF IInv, StatusInv, Settled, RowsTrue
<1> QED BY InvariantInit, InvariantNext, <1>1, PTL DEF Spec
=============================================================================
