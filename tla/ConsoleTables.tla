--------------------------- MODULE ConsoleTables ---------------------------
(***************************************************************************)
(* The paged tables of the web console (web/src/hooks).  A click on a page *)
(* number, a search or a reload sends a GET; its answer replaces the rows. *)
(* An operation on a row sends a request, and its answer changes the rows  *)
(* that the table shows.  Requests are answered in any order, and equal    *)
(* GETs in flight share one answer (patchAPIInstance of helpers/api.js).   *)
(* What the tables do differently is in ConsoleTableKinds.  Each page      *)
(* holds one item, with the number of the page; the columns, the filters   *)
(* other than one keyword, and the size of a page are left out.            *)
(***************************************************************************)
EXTENDS Naturals, FiniteSets, ConsoleTableKinds

CONSTANTS
    MaxPage,    \* the number of pages
    MaxAsks,    \* bound on the list requests of a behaviour
    MaxOps,     \* bound on the row operations of a behaviour
    MaxFaults   \* bound on the failed requests of a behaviour

ASSUME TableAssumption ==
    /\ MaxPage \in Nat \ {0}
    /\ MaxAsks \in Nat
    /\ MaxOps \in Nat
    /\ MaxFaults \in Nat

Pages == 1..MaxPage

Status == {"on", "off", "gone"}

VARIABLES
    table,     \* the table on the screen
    db,        \* the status of every item at the server
    rows,      \* what the table shows: query, page and status of the item
    active,    \* activePage
    keyword,   \* a keyword is typed in the search form
    flags,     \* which of loading and searching are set
    gets,      \* the list requests in flight, with their callers
    counter,   \* the number of list requests so far
    latest,    \* requestCounter: the latest call of a load
    sought,    \* the calls of searchChannels that became a load
    wanted,    \* history: the latest list request
    op,        \* the row operation in flight
    ops,       \* row operations so far
    faults,    \* failed requests so far
    causes     \* history: what a table does not defend itself against

vars == <<table, db, rows, active, keyword, flags, gets, counter, latest, sought,
          wanted, op, ops, faults, causes>>

Queries == [q : {"load", "search"}, page : Pages]

NoOp == [st |-> "none", kind |-> "toggle", item |-> 1, to |-> "on",
         snap |-> [q |-> "load", page |-> 1, status |-> "on"], back |-> 1]

Init ==
    /\ table \in Tables
    /\ db = [i \in Pages |-> "on"]
    /\ rows = [q |-> "load", page |-> 1, status |-> "on"]
    /\ active = 1
    /\ keyword = FALSE
    /\ flags = {}
    /\ gets = {}
    /\ counter = 0
    /\ latest = 0
    /\ sought = {}
    /\ wanted = [q |-> "load", page |-> 1]
    /\ op = NoOp
    /\ ops = 0
    /\ faults = 0
    /\ causes = {}

(* What a click on page p asks for.                                        *)
PageQuery(p) ==
    IF ~keyword \/ table.paging.asks = "drop" THEN [q |-> "load", page |-> p]
    ELSE [q |-> "search", page |-> IF table.paging.asks = "first" THEN 1 ELSE p]

FlagOf(q) == IF q = "search" /\ table.load.split THEN "searching" ELSE "loading"

(* Two different list requests are in flight, and the table does not know  *)
(* the later one from the earlier one.                                     *)
Crosses(query) ==
    \E g \in gets :
        /\ g.query # query
        /\ ~(table.load.counts /\ g.query.q = "load" /\ query.q = "load")

(* What the table does not see when it sends a list request: the other     *)
(* requests, an operation on a row, an answer that is older than the call. *)
Meets(query) ==
    (IF Crosses(query) THEN {"crossed"} ELSE {}) \cup
    (IF \/ op.st = "sent"
        \/ \E g \in gets : g.query = query /\ g.st = "read"
     THEN {"raced"} ELSE {})

(* A GET that is already in flight is not sent again: the caller is added  *)
(* to those that wait for it.  loadChannels numbers its calls.             *)
Ask(query, set) ==
    LET n == counter + 1
        same == {g \in gets : g.query = query}
    IN  /\ counter' = n
        /\ wanted' = query
        /\ latest' = IF query.q = "load" THEN n ELSE latest
        /\ gets' = (gets \ same) \cup
               {[query |-> query,
                 callers |-> (UNION {g.callers : g \in same}) \cup {n},
                 st |-> IF \E g \in same : g.st = "read" THEN "read" ELSE "sent",
                 status |-> IF same = {} THEN "on"
                            ELSE (CHOOSE g \in same : TRUE).status]}
        /\ flags' = set \cup {FlagOf(query.q)}

Type(b) ==
    /\ ~table.paging.typed
    /\ keyword # b
    /\ keyword' = b
    /\ UNCHANGED <<table, db, rows, active, flags, gets, counter, latest, sought, wanted,
                   op, ops, faults, causes>>

ClickPage(p) ==
    /\ p # active
    /\ counter < MaxAsks
    /\ Ask(PageQuery(p), flags)
    /\ causes' = causes \cup Meets(PageQuery(p))
    /\ active' = IF table.paging.early THEN p ELSE active
    /\ UNCHANGED <<table, db, rows, keyword, sought, op, ops, faults>>

(* A search begins at its first page, and without a keyword is a load.     *)
(* The table of channels then keeps the page number it had: searchChannels *)
(* sets it only in the answer of a search.                                 *)
(* Its flag searching is set all the same, until that load has ended.      *)
FirstQuery(b) == [q |-> IF b THEN "search" ELSE "load", page |-> 1]

Becomes == table.load.counts /\ ~keyword

Search ==
    /\ ~table.paging.typed
    /\ counter < MaxAsks
    /\ Ask(FirstQuery(keyword), IF Becomes THEN flags \cup {"searching"} ELSE flags)
    /\ sought' = IF Becomes THEN sought \cup {counter + 1} ELSE sought
    /\ causes' = causes \cup Meets(FirstQuery(keyword))
         \cup (IF table.load.page = "search" /\ ~keyword /\ active # 1
               THEN {"unnumbered"} ELSE {})
    /\ active' = IF table.load.page = "click" \/ table.paging.home = "set"
                 THEN 1 ELSE active
    /\ UNCHANGED <<table, db, rows, keyword, op, ops, faults>>

(* Where there is no search button, typing loads the first page.           *)
TypeAhead(b) ==
    /\ table.paging.typed
    /\ keyword # b
    /\ counter < MaxAsks
    /\ keyword' = b
    /\ Ask(FirstQuery(b), flags)
    /\ causes' = causes \cup Meets(FirstQuery(b))
    /\ active' = 1
    /\ UNCHANGED <<table, db, rows, sought, op, ops, faults>>

(* The tables of logs have no other reload than that of a search.          *)
Refresh ==
    /\ table.paging.home = "none"
    /\ counter < MaxAsks
    /\ Ask(PageQuery(active), flags)
    /\ causes' = causes \cup Meets(PageQuery(active))
    /\ UNCHANGED <<table, db, rows, active, keyword, sought, op, ops, faults>>

(***************************************************************************)
(* The server, and the answers to list requests.                           *)
(***************************************************************************)
Read(g) ==
    /\ g.st = "sent"
    /\ gets' = (gets \ {g}) \cup
                 {[g EXCEPT !.st = "read", !.status = db[g.query.page]]}
    /\ UNCHANGED <<table, db, rows, active, keyword, flags, counter, latest, sought, wanted,
                   op, ops, faults, causes>>

(* Mutant: every answer is shown. *)
CurrentAlways(g) == TRUE

(* The answer of a load counts only for the latest call of loadChannels.   *)
Current(g) ==
    table.load.counts /\ g.query.q = "load" => latest \in g.callers

(* Mutant: the answer does not set the page number. *)
PageOfClick(g) == active

PageOf(g) ==
    IF \/ table.load.page = "answer"
       \/ table.load.page = "search" /\ g.query.q = "search"
    THEN g.query.page ELSE active

(* The flags cleared when the answer has come, of whatever kind it is, and *)
(* if the table takes it.                                                  *)
Ended(g) == IF g.callers \cap sought = {} THEN {} ELSE {"searching"}

Taken(g) == IF Current(g) THEN {FlagOf(g.query.q)} ELSE {}

Show(g) ==
    /\ g.st = "read"
    /\ gets' = gets \ {g}
    /\ rows' = IF Current(g) THEN [q |-> g.query.q, page |-> g.query.page, status |-> g.status]
               ELSE rows
    /\ active' = IF Current(g) THEN PageOf(g) ELSE active
    /\ flags' = flags \ (Taken(g) \cup Ended(g))
    /\ UNCHANGED <<table, db, keyword, counter, latest, sought, wanted, op, ops, faults, causes>>

(* The request is refused by the server, or lost.  Where nothing catches   *)
(* the rejection of a lost one, the flag that the caller has set stays     *)
(* set.  The table of models shows no rows then.                           *)
FailGet(g, how) ==
    /\ faults < MaxFaults
    /\ faults' = faults + 1
    /\ gets' = gets \ {g}
    /\ rows' = IF table.load.empties THEN [rows EXCEPT !.status = "gone"] ELSE rows
    /\ flags' = flags \ (Ended(g) \cup
         (IF how = "refused" THEN Taken(g) ELSE {FlagOf(g.query.q)} \cap table.load.catches))
    /\ causes' = causes \cup {"failed"} \cup
         (IF how = "lost" /\ FlagOf(g.query.q) \notin table.load.catches
          THEN {"uncaught"} ELSE {})
    /\ UNCHANGED <<table, db, active, keyword, counter, latest, sought, wanted, op, ops>>

(***************************************************************************)
(* Operations on a row.                                                    *)
(***************************************************************************)
(* The rows are covered while the table is loading; the table of channels  *)
(* is also while it is searching.                                          *)
RowsReachable ==
    /\ "loading" \notin flags
    /\ table.load.counts => "searching" \notin flags

Manage(kind) ==
    /\ RowsReachable
    /\ op.st = "none"
    /\ ops < MaxOps
    /\ rows.status # "gone"
    /\ table.rows # ReadOnly
    /\ ops' = ops + 1
    /\ op' = [st |-> "sent", kind |-> kind, item |-> rows.page,
              to |-> IF kind = "delete" THEN "gone"
                     ELSE IF rows.status = "on" THEN "off" ELSE "on",
              snap |-> rows, back |-> active]
    /\ flags' = IF table.rows.covers THEN flags \cup {"loading"} ELSE flags
    /\ causes' = IF gets = {} THEN causes ELSE causes \cup {"raced"}
    /\ UNCHANGED <<table, db, rows, active, keyword, gets, counter, latest, sought, wanted,
                   faults>>

Apply ==
    /\ op.st = "sent"
    /\ op' = [op EXCEPT !.st = "done"]
    /\ db' = [db EXCEPT ![op.item] = op.to]
    /\ UNCHANGED <<table, rows, active, keyword, flags, gets, counter, latest, sought,
                   wanted, ops, faults, causes>>

(* Mutant: the new status is not shown. *)
ManagedNothing == rows

(* The rows after a successful operation.  A deleted item stays until the  *)
(* table has been loaded again.                                            *)
Managed ==
    LET status == IF op.kind = "delete" THEN op.snap.status ELSE op.to
    IN  CASE table.rows.writes = "snapshot" -> [op.snap EXCEPT !.status = status]
          [] table.rows.writes = "update" /\ rows.page = op.item
               /\ op.kind # "delete" -> [rows EXCEPT !.status = status]
          [] OTHER -> rows

(* Mutant: loading is not cleared after a row operation. *)
UncoveredNever == flags

Uncovered == IF table.rows.covers THEN flags \ {"loading"} ELSE flags

Reloads == table.rows.reloads \/ op.kind = "delete"

(* The success branch; the reload that follows uses the page number of the *)
(* moment of the click.                                                    *)
Finish ==
    /\ op.st = "done"
    /\ op' = NoOp
    /\ rows' = Managed
    /\ causes' = causes
         \cup (IF /\ Managed.page = rows.page
                  /\ Managed.q = rows.q
                  /\ op.back = active
               THEN {} ELSE {"snapback"})
         \cup (IF Reloads THEN Meets(PageQuery(op.back)) ELSE {})
    /\ IF Reloads THEN Ask(PageQuery(op.back), Uncovered)
                  ELSE flags' = Uncovered /\ UNCHANGED <<gets, counter, latest, wanted>>
    /\ UNCHANGED <<table, db, active, keyword, sought, ops, faults>>

(* Refused by the server, or lost, before or after it was done.            *)
FailOp(how) ==
    /\ op.st = "sent" \/ (op.st = "done" /\ how = "lost")
    /\ faults < MaxFaults
    /\ faults' = faults + 1
    /\ op' = NoOp
    /\ flags' = IF table.rows.covers /\ (how = "refused" \/ table.rows.catches)
                THEN flags \ {"loading"} ELSE flags
    /\ causes' = causes \cup {"failed"} \cup
         (IF how = "lost" /\ table.rows.covers /\ ~table.rows.catches
          THEN {"uncaught"} ELSE {})
    /\ UNCHANGED <<table, db, rows, active, keyword, gets, counter, latest, sought, wanted,
                   ops>>

Failures == {"refused", "lost"}

Next ==
    \/ \E b \in BOOLEAN : Type(b) \/ TypeAhead(b)
    \/ \E p \in Pages : ClickPage(p)
    \/ Search
    \/ Refresh
    \/ \E g \in gets : Read(g) \/ Show(g) \/ \E how \in Failures : FailGet(g, how)
    \/ \E kind \in {"toggle", "delete"} : Manage(kind)
    \/ Apply \/ Finish \/ \E how \in Failures : FailOp(how)

Answers ==
    \/ \E g \in gets : Read(g) \/ Show(g) \/ \E how \in Failures : FailGet(g, how)
    \/ Apply \/ Finish \/ \E how \in Failures : FailOp(how)

(* Every request is answered or fails; the user may stop at any time.      *)
Spec == Init /\ [][Next]_vars /\ WF_vars(Answers)

-----------------------------------------------------------------------------
(* The types of the variables.                                             *)
TypeOK ==
    /\ table \in Tables
    /\ db \in [Pages -> Status]
    /\ rows \in [q : {"load", "search"}, page : Pages, status : Status]
    /\ active \in Pages
    /\ keyword \in BOOLEAN
    /\ flags \subseteq {"loading", "searching"}
    /\ gets \subseteq [query : Queries, callers : SUBSET (1..MaxAsks + MaxOps),
                       st : {"sent", "read"}, status : Status]
    /\ counter \in 0..MaxAsks + MaxOps
    /\ latest \in 0..counter
    /\ sought \subseteq 1..counter
    /\ wanted \in Queries
    /\ op \in [st : {"none", "sent", "done"}, kind : {"toggle", "delete"},
               item : Pages, to : Status,
               snap : [q : {"load", "search"}, page : Pages, status : Status],
               back : Pages]
    /\ ops \in 0..MaxOps
    /\ faults \in 0..MaxFaults
    /\ causes \subseteq {"crossed", "raced", "snapback", "unnumbered", "failed",
                         "uncaught"}

Settled == gets = {} /\ op.st = "none"

(* When no request is under way, the page number belongs to the rows: the  *)
(* user does not act on page 2 of the list under the number 1.  A table    *)
(* that takes the number from the answer keeps this in any order of the    *)
(* answers; the others only if their requests did not cross.               *)
PageMatchesRows ==
    /\ Settled
    /\ causes \cap {"failed", "snapback", "unnumbered"} = {}
    /\ table.load.page = "answer" \/ "crossed" \notin causes
    => active = rows.page

(* When no request is under way, the status in a row is the server's,      *)
(* unless a list request and a row operation ran against each other.       *)
RowsTrue ==
    Settled /\ causes \cap {"failed", "raced"} = {} => rows.status = db[rows.page]

(* When no request is under way, the rows are those the user asked for     *)
(* last.  requestCounter keeps this for loads of channels in any order of  *)
(* the answers; everywhere else it takes requests that did not cross.      *)
LatestAskedShown ==
    Settled /\ causes \cap {"failed", "crossed", "snapback"} = {} =>
        wanted = [q |-> rows.q, page |-> rows.page]

(* The table does not stay covered: loading and searching are cleared,     *)
(* also when a request was refused or superseded, or shared its answer,    *)
(* except where nothing catches the rejection of one that was lost.        *)
LoadingEnds == flags # {} ~> (flags = {} \/ "uncaught" \in causes)

=============================================================================
