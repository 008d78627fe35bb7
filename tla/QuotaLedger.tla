---------------------------- MODULE QuotaLedger -----------------------------
(***************************************************************************)
(* What billing promises for a request, in three moves: an amount may be   *)
(* held on the owner's account; the entry is then closed once, either at   *)
(* the final quota or at nothing; a closed entry never changes again.      *)
(* Every move is one atomic change of the account.                         *)
(***************************************************************************)
EXTENDS Integers

CONSTANTS Requests, Users, Amounts, InitialQuota

VARIABLES
    quota,    \* the account of every user
    owner,    \* whose request it is
    entry,    \* "none", "held" or "closed"
    paid      \* what the owner has paid for the request

ledgerVars == <<quota, owner, entry, paid>>

LedgerInit ==
    /\ quota = [u \in Users |-> InitialQuota]
    /\ owner \in [Requests -> Users]
    /\ entry = [r \in Requests |-> "none"]
    /\ paid = [r \in Requests |-> 0]

\* The entry of r moves to e and the owner has now paid a in all.
Book(r, e, a) ==
    /\ entry' = [entry EXCEPT ![r] = e]
    /\ paid' = [paid EXCEPT ![r] = a]
    /\ quota' = [quota EXCEPT ![owner[r]] = @ - (a - paid[r])]
    /\ UNCHANGED owner

Hold(r)   == entry[r] = "none" /\ \E a \in Amounts : Book(r, "held", a)
Settle(r) == entry[r] # "closed" /\ \E a \in Amounts : Book(r, "closed", a)
Cancel(r) == entry[r] # "closed" /\ Book(r, "closed", 0)

LedgerNext == \E r \in Requests : Hold(r) \/ Settle(r) \/ Cancel(r)

LedgerSpec == LedgerInit /\ [][LedgerNext]_ledgerVars
=============================================================================
