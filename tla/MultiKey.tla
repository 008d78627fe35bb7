------------------------------ MODULE MultiKey ------------------------------
(***************************************************************************)
(* A channel with several keys.  The status of a key is kept by its index, *)
(* in the row of the channel and, with MemoryCacheEnabled, in a copy that  *)
(* every SyncFrequency seconds is replaced by what the database holds.     *)
(* Four kinds of processes change it: requests take the next enabled key   *)
(* (GetNextEnabledKey), a request that fails disables its key later, in a  *)
(* goroutine (UpdateChannelStatus), the administrator disables, enables,   *)
(* and deletes keys (ManageMultiKeys) by the index that the dialog         *)
(* MultiKeyManageModal showed and switches the channel (UpdateChannel),    *)
(* and the cache is reloaded (InitChannelCache).  All of them read the     *)
(* row, change it and write it back, and only part of this is done under   *)
(* the lock of the channel.                                                *)
(*                                                                         *)
(* Indexes begin at 1.  A key without an entry in MultiKeyStatusList is    *)
(* "on" here, and the length of the list is the number of other entries.   *)
(*                                                                         *)
(* A key is a line of the channel's key field.  Two lines may have the     *)
(* same text, for AddChannel does not compare them; they are different     *)
(* keys here, and what the code compares is Text[k].                       *)
(***************************************************************************)
EXTENDS MultiKeyState

CONSTANTS
    Text,      \* the text of a key; keys may share it
    Channels,  \* the key lists a channel may begin with
    Requests,  \* requests and tests
    Handlers,  \* the administrator's requests, each used once
    Loop       \* the goroutine SyncChannelCache

ASSUME KeysAssumption ==
    /\ IsFiniteSet(Keys) /\ DOMAIN Text = Keys
    /\ \A s \in Channels : /\ s \in Seq(Keys) /\ s # << >>
                           /\ \A i, j \in DOMAIN s : s[i] = s[j] => i = j

AllOn == [i \in Index |-> "on"]

NewChannel(s) ==
    [keys |-> s, size |-> Len(s), list |-> AllOn, status |-> "on", able |-> TRUE,
     next |-> 1]

Syncs == Handlers \cup {Loop}
NoRow == [keys |-> << >>, size |-> 0, list |-> AllOn, status |-> "on",
          able |-> TRUE, next |-> 1]

Init ==
    /\ cached \in BOOLEAN
    /\ mode \in {"random", "polling"}
    /\ db \in {NewChannel(s) : s \in Channels}
    /\ cache = db
    /\ req = [r \in Requests |-> [pc |-> "new", row |-> NoRow, key |-> "none",
                                  to |-> "auto"]]
    /\ op = [h \in Handlers |-> [pc |-> "new", do |-> <<"none", 1>>, row |-> NoRow]]
    /\ seen = db.keys
    /\ sync = [p \in Syncs |-> NoRow]
    /\ blamed = {} /\ down = {}

(* The history of a write: keys is what it was to leave disabled.  A write  *)
(* of a stale row is taken for what it leaves, for nothing prevents it.     *)
Recorded(row, keys, named) ==
    /\ down' = IF Stale(row) THEN Disabled(db') ELSE keys
    /\ blamed' = blamed \cup named \cup IF Stale(row) THEN Disabled(db') ELSE {}

(* The operations of the dialog on one key and on all of them, and those of *)
(* the list of channels.                                                    *)
OneKey == {"disable", "enable", "delete"}
OfKeys == OneKey \cup {"enable all", "disable all", "delete disabled"}
Operations ==
    (OneKey \X DOMAIN seen) \cup
    ((OfKeys \ OneKey) \cup {"enable channel", "disable channel"}) \X {1}

-----------------------------------------------------------------------------
(* A request, or a test of a channel that is down, takes a key.            *)

(* The first enabled index from start on, which wraps around.               *)
From(row, start) ==
    LET after == {i \in Enabled(row) : i >= start}
        pool == IF after = {} THEN Enabled(row) ELSE after
    IN CHOOSE i \in pool : \A j \in pool : i <= j

Choices(row, start) ==
    IF mode = "random" THEN Enabled(row)
    ELSE {From(row, IF start > Len(row.keys) THEN 1 ELSE start)}

Advance(row, i) ==
    IF mode = "random" THEN row
    ELSE [row EXCEPT !.next = IF i = Len(row.keys) THEN 1 ELSE i + 1]

(* Without the cache the row is read first; tests read it always.           *)
Choose(r, test) ==
    /\ req[r].pc = "new"
    /\ IF test THEN db.status = "auto"
       ELSE IF cached THEN cache.able ELSE db.able
    /\ req' = [req EXCEPT ![r].pc = IF test THEN "tests" ELSE "chosen",
                          ![r].row = IF cached /\ ~test THEN @ ELSE db]
    /\ UNCHANGED <<cached, mode, db, cache, op, seen, sync, blamed, down>>

(* ManageMultiKeys holds the lock of the channel until the cache is new.    *)
PollingLocked == \E h \in Handlers : op[h].pc = "refresh" /\ op[h].do[1] \in OfKeys

(* A request with the cache uses, and moves the polling index of, the copy  *)
(* itself, or the one that was the copy when it was chosen (SyncSwap).      *)
(* Without the cache the whole channel_info is saved, as it was read.       *)
GetNextEnabledKey(r) ==
    LET shared == cached /\ req[r].pc = "chosen" /\ req[r].row = NoRow
        row == IF shared THEN cache ELSE req[r].row
        start == IF cached THEN cache.next ELSE db.next
    IN /\ req[r].pc \in {"chosen", "tests"} /\ ~PollingLocked
       /\ \/ /\ Enabled(row) = {}
             /\ req' = [req EXCEPT ![r].pc = "done", ![r].row = NoRow]
             /\ UNCHANGED <<db, cache, blamed, down>>
          \/ Enabled(row) # {} /\ \E i \in Choices(row, start) :
               LET moved == Advance(row, i) IN
               /\ req' = [req EXCEPT ![r].key = row.keys[i], ![r].row = NoRow,
                                     ![r].pc = IF @ = "chosen" THEN "uses" ELSE "tries"]
               /\ cache' = IF shared THEN moved ELSE cache
               /\ IF cached \/ mode = "random" THEN UNCHANGED <<db, blamed, down>>
                  ELSE /\ db' = [db EXCEPT !.list = moved.list, !.size = moved.size,
                                           !.next = moved.next]
                       /\ Recorded(row, down, {})
       /\ UNCHANGED <<cached, mode, op, seen, sync>>

SameText(k) == {q \in Keys : Text[q] = Text[k]}

(* processChannelError: a request that fails disables its key, a test that *)
(* succeeds enables it.                                                    *)
Fails(r) ==
    /\ req[r].pc = "uses"
    /\ req' = [req EXCEPT ![r].pc = "report"]
    /\ blamed' = blamed \cup SameText(req[r].key)
    /\ UNCHANGED <<cached, mode, db, cache, op, seen, sync, down>>

Works(r) ==
    /\ req[r].pc \in {"uses", "tries"}
    /\ req' = [req EXCEPT ![r].pc = IF @ = "tries" THEN "report" ELSE "done",
                          ![r].to = IF req[r].pc = "tries" THEN "on" ELSE @]
    /\ UNCHANGED <<cached, mode, db, cache, op, seen, sync, blamed, down>>

-----------------------------------------------------------------------------
(* UpdateChannelStatus.  With the cache it holds channelStatusLock.        *)

Locked == cached /\ \E r \in Requests : req[r].pc \in {"mark", "read", "save"}

KeyIndexFirst(row, k) == 1

(* The first key with the text; keyIndex stays at the first key when there  *)
(* is none.                                                                 *)
KeyIndex(row, k) ==
    LET at == {i \in DOMAIN row.keys : row.keys[i] \in SameText(k)}
    IN IF at = {} THEN 1 ELSE CHOOSE i \in at : \A j \in at : i <= j

AllDisabledEarly(row) == Cardinality(Off(row)) + 1 >= row.size

AllDisabled(row) == Cardinality(Off(row)) >= row.size

handlerMultiKeyUpdate(row, k, to) ==
    LET marked == [row EXCEPT !.list[KeyIndex(row, k)] = to] IN
    [marked EXCEPT !.status = IF AllDisabled(marked) THEN "auto" ELSE @]

(* The lock is taken and the copy fetched; without the cache there is none. *)
Report(r) ==
    /\ req[r].pc = "report" /\ ~Locked
    /\ req' = [req EXCEPT ![r].pc = IF cached THEN "mark" ELSE "read"]
    /\ UNCHANGED <<cached, mode, db, cache, op, seen, sync, blamed, down>>

(* The copy that was fetched is changed, under the polling lock; by now it  *)
(* may have been replaced.                                                  *)
ReportToCache(r) ==
    /\ req[r].pc = "mark" /\ ~PollingLocked
    /\ req' = [req EXCEPT ![r].pc = "read", ![r].row = NoRow]
    /\ cache' = IF req[r].row = NoRow
                THEN handlerMultiKeyUpdate(cache, req[r].key, req[r].to) ELSE cache
    /\ UNCHANGED <<cached, mode, db, op, seen, sync, blamed, down>>

(* A channel that is down already is left as it is.                        *)
ReadForReport(r) ==
    /\ req[r].pc = "read"
    /\ req' = [req EXCEPT ![r].pc = IF db.status = req[r].to THEN "done" ELSE "save",
                          ![r].row = IF db.status = req[r].to THEN NoRow ELSE db]
    /\ UNCHANGED <<cached, mode, db, cache, op, seen, sync, blamed, down>>

(* SaveWithoutKey, and UpdateAbilityStatus if the status of the channel has *)
(* changed.                                                                 *)
SaveReport(r) ==
    LET row == req[r].row
        k == req[r].key
        to == req[r].to
        new == handlerMultiKeyUpdate(row, k, to)
        hit == {row.keys[KeyIndex(row, k)]} IN
    /\ req[r].pc = "save"
    /\ db' = [new EXCEPT !.keys = db.keys,
                         !.able = IF new.status # row.status THEN to = "on" ELSE db.able]
    /\ req' = [req EXCEPT ![r].pc = "done", ![r].row = NoRow]
    /\ Recorded(row, IF to = "auto" THEN down \cup hit ELSE down \ hit,
                     IF KeysOf(row) \cap SameText(k) # {} THEN {} ELSE hit)
    /\ UNCHANGED <<cached, mode, cache, op, seen, sync>>

-----------------------------------------------------------------------------
(* The administrator.  A request names a key by the index the dialog shows.*)

LoadKeyStatus ==
    /\ seen # db.keys
    /\ seen' = db.keys
    /\ UNCHANGED <<cached, mode, db, cache, req, op, sync, blamed, down>>

(* ManageMultiKeys and UpdateChannel read the row; ManageMultiKeys takes    *)
(* the lock after that.                                                     *)
Request(h, do) ==
    /\ op[h].pc = "new"
    /\ op' = [op EXCEPT ![h] = [pc |-> "read", do |-> do, row |-> db]]
    /\ UNCHANGED <<cached, mode, db, cache, req, seen, sync, blamed, down>>

(* The n-th of a set of indexes: the one the loop over the keys reaches as  *)
(* the n-th it keeps.                                                       *)
Nth(S, n) == CHOOSE i \in S : Cardinality({j \in S : j <= i}) = n

WithoutForgets(row, gone) ==
    LET left == DOMAIN row.keys \ gone
    IN [row EXCEPT !.keys = [n \in 1..Cardinality(left) |-> row.keys[Nth(left, n)]],
                   !.size = Cardinality(left), !.list = AllOn]

(* The keys that are left, each with its status under its new index.       *)
Without(row, gone) ==
    LET left == DOMAIN row.keys \ gone
        size == Cardinality(left)
    IN [row EXCEPT !.keys = [n \in 1..size |-> row.keys[Nth(left, n)]], !.size = size,
                   !.list = [n \in Index |-> IF n <= size THEN row.list[Nth(left, n)]
                                             ELSE "on"]]

Named(row, i) == {row.keys[j] : j \in {i} \cap DOMAIN row.keys}
AutoDisabled(row) == {i \in DOMAIN row.keys : row.list[i] = "auto"}

(* UpdateChannel with a status alone.  Its other fields, the appended or    *)
(* replaced keys and the new MultiKeyMode among them, are left out.         *)
Switched(row, do) ==
    [row EXCEPT !.status = IF do[1] = "enable channel" THEN "on" ELSE "manual"]

Changed(row, do) ==
    CASE do[1] = "disable" -> [row EXCEPT !.list[do[2]] = "manual"]
      [] do[1] = "enable" -> [row EXCEPT !.list[do[2]] = "on"]
      [] do[1] = "enable all" -> [row EXCEPT !.list = AllOn]
      [] do[1] = "disable all" ->
           [row EXCEPT !.list = [i \in Index |->
              IF i <= row.size /\ row.list[i] = "on" THEN "manual" ELSE row.list[i]]]
      [] do[1] = "delete" -> Without(row, {do[2]})
      [] do[1] = "delete disabled" -> Without(row, AutoDisabled(row))
      [] OTHER -> Switched(row, do)

Refused(row, do) ==
    \/ do[1] \in OneKey /\ do[2] > row.size
    \/ do[1] = "delete" /\ DOMAIN row.keys \subseteq {do[2]}
    \/ do[1] = "disable all" /\ 1..row.size \subseteq Off(row)
    \/ do[1] = "delete disabled" /\ AutoDisabled(row) = {}

(* Channel.Update.  The keys are counted after encryptKey has made one line *)
(* of them, or, when none are written, in the database; an empty list of    *)
(* keys is not written.                                                     *)
Update(row, written) ==
    LET size == IF written THEN 1 ELSE Len(db.keys) IN
    [row EXCEPT !.keys = IF written THEN row.keys ELSE db.keys,
                !.size = size,
                !.list = [i \in Index |-> IF i <= size THEN row.list[i] ELSE "on"],
                !.able = row.status = "on"]

(* The keys an operation is to leave disabled, as far as the count of the   *)
(* keys lets it: what is stored of the indexes above it is dropped, and     *)
(* deleting all keys deletes none of them and enables them all.             *)
ToBeDisabled(row, do, new) ==
    LET asked == CASE do[1] = "disable" -> down \cup Named(row, do[2])
                   [] do[1] = "enable" -> down \ Named(row, do[2])
                   [] do[1] = "enable all" -> {}
                   [] do[1] = "disable all" -> down \cup KeysOf(row)
                   [] OTHER -> down
    IN IF do[1] = "delete disabled" /\ AutoDisabled(row) = DOMAIN row.keys THEN {}
       ELSE asked \cap {new.keys[i] : i \in DOMAIN new.keys \cap 1..new.size}

Write(h) ==
    LET row == op[h].row
        do == op[h].do
        want == Changed(row, do)
        new == Update(want, do[1] \in OfKeys /\ want.keys # << >>) IN
    /\ op[h].pc = "read" /\ ~Refused(row, do)
    /\ do[1] \in OfKeys => ~PollingLocked
    /\ db' = new
    /\ op' = [op EXCEPT ![h].pc = IF cached THEN "refresh" ELSE "done",
                        ![h].row = NoRow]
    /\ Recorded(row, ToBeDisabled(row, do, new),
                CASE do[1] = "disable" -> Named(row, do[2])
                  [] do[1] = "disable all" -> KeysOf(row)
                  [] OTHER -> {})
    /\ UNCHANGED <<cached, mode, cache, req, seen, sync>>

Refuse(h) ==
    /\ op[h].pc = "read" /\ Refused(op[h].row, op[h].do)
    /\ op' = [op EXCEPT ![h].pc = "done", ![h].row = NoRow]
    /\ UNCHANGED <<cached, mode, db, cache, req, seen, sync, blamed, down>>

-----------------------------------------------------------------------------
(* InitChannelCache, at the end of a handler and every SyncFrequency        *)
(* seconds.  The polling index of the old copy is kept.                     *)

SyncRead(p) ==
    /\ cached /\ sync[p] = NoRow
    /\ p \in Handlers => op[p].pc = "refresh"
    /\ sync' = [sync EXCEPT ![p] = db]
    /\ UNCHANGED <<cached, mode, db, cache, req, op, seen, blamed, down>>

SwappedKeepsList(row) ==
    [row EXCEPT !.able = row.status = "on", !.list = cache.list,
                !.next = IF mode = "polling" THEN cache.next ELSE @]

Swapped(row) ==
    [row EXCEPT !.able = row.status = "on",
                !.next = IF mode = "polling" THEN cache.next ELSE @]

(* Whoever has fetched the old copy keeps it; each has one of its own here, *)
(* although they share it.                                                  *)
SyncSwap(p) ==
    /\ sync[p] # NoRow
    /\ cache' = Swapped(sync[p])
    /\ req' = [r \in Requests |->
                 IF req[r].pc \in {"chosen", "mark"} /\ req[r].row = NoRow
                 THEN [req[r] EXCEPT !.row = cache] ELSE req[r]]
    /\ sync' = [sync EXCEPT ![p] = NoRow]
    /\ op' = [h \in Handlers |-> IF h = p THEN [op[h] EXCEPT !.pc = "done"] ELSE op[h]]
    /\ UNCHANGED <<cached, mode, db, seen, blamed, down>>

-----------------------------------------------------------------------------
RequestStep(r) ==
    \/ GetNextEnabledKey(r) \/ Works(r)
    \/ Report(r) \/ ReportToCache(r) \/ ReadForReport(r) \/ SaveReport(r)

HandlerStep(h) == Write(h) \/ Refuse(h)

SyncStep(p) == SyncRead(p) \/ SyncSwap(p)

Next ==
    \/ \E r \in Requests :
         (\E test \in BOOLEAN : Choose(r, test)) \/ Fails(r) \/ RequestStep(r)
    \/ LoadKeyStatus
    \/ \E h \in Handlers : (\E do \in Operations : Request(h, do)) \/ HandlerStep(h)
    \/ \E p \in Syncs : SyncStep(p)

(* Goroutines and handlers run to their end, and the sync loop goes on.     *)
Fairness ==
    /\ \A r \in Requests : WF_keyVars(RequestStep(r))
    /\ \A h \in Handlers : WF_keyVars(HandlerStep(h))
    /\ \A p \in Syncs : WF_keyVars(SyncStep(p))

Spec == Init /\ [][Next]_keyVars /\ Fairness

-----------------------------------------------------------------------------
(* The types of the variables.                                             *)
TypeOK ==
    LET Row == [keys : UNION {[1..n -> Keys] : n \in 0..Cardinality(Keys)},
                size : 0..Cardinality(Keys), list : [Index -> {"on", "auto", "manual"}],
                status : {"on", "auto", "manual"}, able : BOOLEAN, next : Index]
    IN /\ cached \in BOOLEAN /\ mode \in {"random", "polling"}
       /\ db \in Row /\ cache \in Row
       /\ req \in [Requests ->
              [pc : {"new", "chosen", "tests", "uses", "tries", "report", "mark",
                     "read", "save", "done"},
               row : Row, key : Keys \cup {"none"}, to : {"auto", "on"}]]
       /\ DOMAIN op = Handlers
       /\ \A h \in Handlers : op[h].pc \in {"new", "read", "refresh", "done"}
                               /\ op[h].row \in Row
       /\ KeysOf([keys |-> seen]) \subseteq Keys
       /\ sync \in [Syncs -> Row]
       /\ blamed \subseteq Keys /\ down \subseteq Keys

Quiet == /\ \A r \in Requests : req[r].pc \in {"new", "done"}
         /\ \A h \in Handlers : op[h].pc \in {"new", "done"}

(* The copy in memory ends up with the keys, the statuses and the service  *)
(* state of the database, whatever the order of reports and reloads was.   *)
CacheFollows ==
    cached => <>[](Quiet => /\ cache.keys = db.keys /\ cache.list = db.list
                            /\ cache.able = (db.status = "on"))

(* MultiKeySize is the number of keys: Update is to "recalculate           *)
(* MultiKeySize based on the current key list to avoid inconsistency after *)
(* editing keys".                                                          *)
SizeIsKeys == db.size = Len(db.keys)
=============================================================================
