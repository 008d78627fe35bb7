--------------------------- MODULE MultiKeyState ---------------------------
(***************************************************************************)
(* The state of a channel with several keys and what is to be true of it;  *)
(* the steps are in MultiKey.  A row has the keys, MultiKeySize as size,   *)
(* MultiKeyStatusList as list, the status of the channel and, as next,     *)
(* MultiKeyPollingIndex.                                                   *)
(***************************************************************************)
EXTENDS Naturals, Sequences, FiniteSets

CONSTANT Keys  \* the keys there are

VARIABLES
    cached,  \* MemoryCacheEnabled
    mode,    \* MultiKeyMode
    db,      \* the row of the channel; able is that of its abilities
    cache,   \* the copy in memory; able: it is in group2model2channels
    req,     \* the requests
    op,      \* the administrator's requests at the server
    seen,    \* the keys as the dialog shows them
    sync,    \* the rows that reloads of the cache have read
    blamed,  \* history: keys that failed, or that were chosen to be disabled
    down     \* history: keys a saved row has disabled, and nobody has enabled

keyVars == <<cached, mode, db, cache, req, op, seen, sync, blamed, down>>

Index == 1..Cardinality(Keys)
KeysOf(row) == {row.keys[i] : i \in DOMAIN row.keys}
Off(row) == {i \in Index : row.list[i] # "on"}
Enabled(row) == {i \in DOMAIN row.keys : row.list[i] = "on"}

(* A row that has changed since it was read.                                *)
Stale(row) == row.list # db.list \/ row.keys # db.keys \/ row.status # db.status

Disabled(row) == {row.keys[i] : i \in DOMAIN row.keys \cap Off(row)}

-----------------------------------------------------------------------------
(* A key that a saved row has disabled stays disabled until somebody       *)
(* enables it or it is deleted, although its index changes when another    *)
(* key is deleted.  What a stale write or a wrong count of the keys undoes *)
(* is not held against the later steps.                                    *)
DisabledStays == down \cap KeysOf(db) \subseteq Disabled(db)

(* Only a key that has failed, or whose index the administrator gave, is   *)
(* disabled; the exception is a report whose key is no longer there, which *)
(* disables the first key.                                                 *)
OnlyBlamedDisabled == Disabled(db) \subseteq blamed

StaleSave == \E r \in DOMAIN req : req[r].pc = "save" /\ req'[r].pc = "done"
                                     /\ Stale(req[r].row)
StaleWrite == \E h \in DOMAIN op : op[h].pc = "read" /\ op'[h].pc # "read"
                                   /\ Stale(op[h].row)

(* A step that takes a channel out of service leaves it no key to serve    *)
(* with, if its keys were counted right, no entry of the list is left of a *)
(* deleted key (a stale save may leave some) and its row was not stale.    *)
DownHasNoKey ==
    [][db.status # "auto" /\ db'.status = "auto" /\ db'.size = Len(db'.keys)
         /\ Off(db)' \subseteq DOMAIN db'.keys
         => StaleSave \/ StaleWrite \/ Enabled(db)' = {}]_keyVars
=============================================================================
