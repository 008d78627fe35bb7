------------------------------- MODULE TopUp -------------------------------
(***************************************************************************)
(* How an order becomes quota.  A user orders a top-up from one of three   *)
(* payment providers, or redeems a code; callbacks of the provider,        *)
(* administrators and users then complete the order, on any node and       *)
(* several at a time.  EpayNotify and AdminCompleteTopUp hold a mutex of   *)
(* the node for the trade number (LockOrder); Recharge, RechargeCreem,     *)
(* Redeem and ManualCompleteTopUp read and write in one transaction.       *)
(*                                                                         *)
(* The option gorm:query_option has no effect in the gorm version the      *)
(* program is built with, so the read of a transaction takes no row lock.  *)
(* MySQL and PostgreSQL then let both of two transactions commit that have *)
(* read the same row; SQLite lets a transaction commit only if the row is  *)
(* still as it was read.                                                   *)
(***************************************************************************)
EXTENDS Integers, FiniteSets

CONSTANTS
    Orders,         \* trade numbers, and redemption codes
    Method,         \* [Orders -> Methods]
    Amount, Money,  \* [Orders -> Nat], the columns of the order
    QuotaPerUnit,   \* common.QuotaPerUnit
    Nodes,          \* servers
    Handlers,       \* HTTP handlers, each running one call at a time
    NodeOf,         \* [Handlers -> Nodes]
    SQLite,         \* common.UsingSQLite
    Faults,         \* what may go wrong: "crash", "db"
    MaxFaults,      \* how often, at most
    MaxSpare,       \* how many calls nobody has to make: repeated callbacks,
                    \* administrators, users with a code
    NoOrder         \* not an order

Methods == {"epay", "stripe", "creem", "code"}

ASSUME OrdersAssumption ==
    /\ Method \in [Orders -> Methods] /\ NoOrder \notin Orders
    /\ Amount \in [Orders -> Nat] /\ Money \in [Orders -> Nat]
    /\ QuotaPerUnit \in Nat
ASSUME ServersAssumption == NodeOf \in [Handlers -> Nodes] /\ SQLite \in BOOLEAN
ASSUME BoundsAssumption == MaxFaults \in Nat /\ MaxSpare \in Nat

VARIABLES
    status,    \* the status of the order's row; "none": no row
    job,       \* what each handler is doing
    credits,   \* history: how often an order was added to the user's quota
    credited,  \* history: how much quota that was
    checkout,  \* the provider's side: "open", "paid" or "expired"
    acked,     \* orders for which the provider takes the callback as delivered
    lost,      \* history: orders marked "success" by a call that then failed
    faults,    \* faults so far
    spare      \* calls so far that nobody had to make

bounds == <<faults, spare>>
vars == <<status, job, credits, credited, checkout, acked, lost, bounds>>

Ops == {"EpayNotify", "ManualCompleteTopUp", "Recharge", "RechargeCreem",
        "Redeem", "sessionExpired"}
Steps == {"check", "lock", "read", "save", "credit", "commit"}
Idle == [op |-> "none", order |-> NoOrder, step |-> "idle"]
Job == [op: Ops, order: Orders, step: Steps] \cup {Idle}

TypeOK ==
    /\ status \in [Orders -> {"none", "pending", "success", "expired"}]
    /\ job \in [Handlers -> Job]
    /\ credits \in [Orders -> Nat] /\ credited \in [Orders -> Nat]
    /\ checkout \in [Orders -> {"open", "paid", "expired"}]
    /\ acked \subseteq Orders /\ lost \subseteq Orders
    /\ faults \in 0..MaxFaults /\ spare \in 0..MaxSpare

\* A code exists from the start; its status "enabled" is pending here, and
\* "used" is success.
Init ==
    /\ status = [o \in Orders |-> IF Method[o] = "code" THEN "pending" ELSE "none"]
    /\ job = [h \in Handlers |-> Idle]
    /\ credits = [o \in Orders |-> 0] /\ credited = [o \in Orders |-> 0]
    /\ checkout = [o \in Orders |-> "open"]
    /\ acked = {} /\ lost = {}
    /\ faults = 0 /\ spare = 0

(***************************************************************************)
(* Quota of an order                                                       *)
(***************************************************************************)
\* What the payment of the order is worth.
Worth(o) == CASE Method[o] = "epay"   -> Amount[o] * QuotaPerUnit
              [] Method[o] = "stripe" -> Money[o] * QuotaPerUnit
              [] OTHER                -> Amount[o]

\* What an administrator adds: a Creem order has no PaymentMethod and is taken
\* for one in dollars.
ManualQuota(o) == (IF Method[o] = "stripe" THEN Money[o] ELSE Amount[o]) * QuotaPerUnit

Quota(j) == IF j.op = "ManualCompleteTopUp" THEN ManualQuota(j.order) ELSE Worth(j.order)

Credit(j) ==
    /\ credits' = [credits EXCEPT ![j.order] = @ + 1]
    /\ credited' = [credited EXCEPT ![j.order] = @ + Quota(j)]

(***************************************************************************)
(* Orders and payments                                                     *)
(***************************************************************************)
InsertOrder(o) ==
    /\ status[o] = "none"
    /\ status' = [status EXCEPT ![o] = "pending"]
    /\ UNCHANGED <<job, credits, credited, checkout, acked, lost, bounds>>

\* The user gets the link to pay once the row is there.  Creem's row is inserted
\* before the link is made, the others after.
RequestEpay(o)      == Method[o] = "epay" /\ InsertOrder(o)
RequestStripePay(o) == Method[o] = "stripe" /\ InsertOrder(o)
RequestCreemPay(o)  == Method[o] = "creem" /\ InsertOrder(o)

RequestPay(o) == RequestEpay(o) \/ RequestStripePay(o) \/ RequestCreemPay(o)

Pay(o) ==
    /\ status[o] # "none" /\ Method[o] # "code"
    /\ checkout[o] = "open"
    /\ checkout' = [checkout EXCEPT ![o] = "paid"]
    /\ UNCHANGED <<status, job, credits, credited, acked, lost, bounds>>

\* Stripe ends a checkout that nobody pays.
ExpireCheckout(o) ==
    /\ status[o] # "none" /\ Method[o] = "stripe"
    /\ checkout[o] = "open"
    /\ checkout' = [checkout EXCEPT ![o] = "expired"]
    /\ UNCHANGED <<status, job, credits, credited, acked, lost, bounds>>

(***************************************************************************)
(* A handler takes a call                                                  *)
(***************************************************************************)
Begin(h, o, op, step) ==
    /\ job[h] = Idle
    /\ job' = [job EXCEPT ![h] = [op |-> op, order |-> o, step |-> step]]

\* A provider repeats a callback until it is acknowledged, one at a time; the
\* other calls are made or not, and a callback may also arrive once more.
Required(o, op) ==
    o \notin acked /\ \A h \in Handlers : ~(job[h].order = o /\ job[h].op = op)

Called(o, op) ==
    \/ Required(o, op) /\ UNCHANGED bounds
    \/ spare < MaxSpare /\ spare' = spare + 1 /\ UNCHANGED faults

\* EpayNotify answers "success" before it does anything.
EpayNotify(h, o) ==
    /\ Method[o] = "epay" /\ checkout[o] = "paid"
    /\ Begin(h, o, "EpayNotify", "lock")
    /\ Called(o, "EpayNotify")
    /\ acked' = acked \cup {o}
    /\ UNCHANGED <<status, credits, credited, checkout, lost>>

sessionCompleted(h, o) ==
    /\ Method[o] = "stripe" /\ checkout[o] = "paid"
    /\ Begin(h, o, "Recharge", "read")
    /\ Called(o, "Recharge")
    /\ UNCHANGED <<status, credits, credited, checkout, acked, lost>>

sessionExpired(h, o) ==
    /\ Method[o] = "stripe" /\ checkout[o] = "expired"
    /\ Begin(h, o, "sessionExpired", "read")
    /\ Called(o, "sessionExpired")
    /\ UNCHANGED <<status, credits, credited, checkout, acked, lost>>

handleCheckoutCompleted(h, o) ==
    /\ Method[o] = "creem" /\ checkout[o] = "paid"
    /\ Begin(h, o, "RechargeCreem", "check")
    /\ Called(o, "RechargeCreem")
    /\ UNCHANGED <<status, credits, credited, checkout, acked, lost>>

AdminCompleteTopUp(h, o) ==
    /\ status[o] # "none" /\ Method[o] # "code"
    /\ Begin(h, o, "ManualCompleteTopUp", "lock")
    /\ spare < MaxSpare /\ spare' = spare + 1
    /\ UNCHANGED <<status, credits, credited, checkout, acked, lost, faults>>

\* By any user: the mutex of TopUp only excludes two calls of the same user.
Redeem(h, o) ==
    /\ Method[o] = "code"
    /\ Begin(h, o, "Redeem", "read")
    /\ spare < MaxSpare /\ spare' = spare + 1
    /\ UNCHANGED <<status, credits, credited, checkout, acked, lost, faults>>

(***************************************************************************)
(* The steps of a handler                                                  *)
(***************************************************************************)
At(h, op, step) == job[h].op \in op /\ job[h].step = step
GoTo(h, step) == job' = [job EXCEPT ![h].step = step]
End(h) == job' = [job EXCEPT ![h] = Idle]

\* Seeded fault: Creem's webhook answers 200 whatever happened.
Answer_Always(h, ok) ==
    acked' = IF job[h].op \in {"Recharge", "sessionExpired", "RechargeCreem"}
             THEN acked \cup {job[h].order} ELSE acked

\* The webhooks of Stripe answer 200 in any case; Creem's answers 500 on an
\* error, and is then called again.
Answer(h, ok) ==
    acked' = IF \/ job[h].op \in {"Recharge", "sessionExpired"}
                \/ job[h].op = "RechargeCreem" /\ ok
             THEN acked \cup {job[h].order} ELSE acked

Breaks(kind) == kind \in Faults /\ faults < MaxFaults /\ faults' = faults + 1 /\ UNCHANGED spare

Locking == {"EpayNotify", "ManualCompleteTopUp"}
HoldsLock(h) == job[h].op \in Locking /\ job[h].step # "lock"

\* Seeded fault: each call has a mutex of its own.
LockOrder_Fresh(h) ==
    /\ At(h, Locking, "lock")
    /\ GoTo(h, "read")
    /\ UNCHANGED <<status, credits, credited, checkout, acked, lost, bounds>>

LockOrder(h) ==
    /\ At(h, Locking, "lock")
    /\ \A k \in Handlers : HoldsLock(k) /\ NodeOf[k] = NodeOf[h] =>
                               job[k].order # job[h].order
    /\ GoTo(h, "read")
    /\ UNCHANGED <<status, credits, credited, checkout, acked, lost, bounds>>

\* EpayNotify: the row is read, saved and the quota added, one by one.
EpayRead(h) ==
    /\ At(h, {"EpayNotify"}, "read")
    /\ IF status[job[h].order] = "pending" THEN GoTo(h, "save") ELSE End(h)
    /\ UNCHANGED <<status, credits, credited, checkout, acked, lost, bounds>>

EpaySave(h) ==
    /\ At(h, {"EpayNotify"}, "save")
    /\ status' = [status EXCEPT ![job[h].order] = "success"]
    /\ GoTo(h, "credit")
    /\ UNCHANGED <<credits, credited, checkout, acked, lost, bounds>>

EpayCredit(h) ==
    /\ At(h, {"EpayNotify"}, "credit")
    /\ Credit(job[h])
    /\ End(h)
    /\ UNCHANGED <<status, checkout, acked, lost, bounds>>

\* The order cannot be read or saved, or the quota cannot be added.
EpayFails(h) ==
    /\ \E step \in {"read", "save", "credit"} : At(h, {"EpayNotify"}, step)
    /\ Breaks("db")
    /\ lost' = IF job[h].step = "credit" THEN lost \cup {job[h].order} ELSE lost
    /\ End(h)
    /\ UNCHANGED <<status, credits, credited, checkout, acked>>

\* handleCheckoutCompleted looks at the order before RechargeCreem does.
CreemCheck(h) ==
    /\ At(h, {"RechargeCreem"}, "check")
    /\ IF status[job[h].order] = "pending"
       THEN GoTo(h, "read") /\ UNCHANGED acked
       ELSE End(h) /\ Answer(h, TRUE)
    /\ UNCHANGED <<status, credits, credited, checkout, lost, bounds>>

Transactions == {"ManualCompleteTopUp", "Recharge", "RechargeCreem", "Redeem"}

\* The transaction reads the row and goes on if it may complete the order.
MayComplete(j) ==
    /\ status[j.order] = "pending"
    /\ j.op = "ManualCompleteTopUp" => ManualQuota(j.order) > 0

TxRead(h) ==
    /\ At(h, Transactions, "read") /\ MayComplete(job[h])
    /\ GoTo(h, "commit")
    /\ UNCHANGED <<status, credits, credited, checkout, acked, lost, bounds>>

\* The order is completed already, or expired; a code may also be out of date.
TxRefuses(h) ==
    /\ At(h, Transactions, "read")
    /\ ~MayComplete(job[h]) \/ job[h].op = "Redeem"
    /\ Answer(h, FALSE)
    /\ End(h)
    /\ UNCHANGED <<status, credits, credited, checkout, lost, bounds>>

\* The row is still as the transaction has read it.
Unchanged(h) == status[job[h].order] = "pending"

TxCommit(h) ==
    /\ At(h, Transactions, "commit")
    /\ SQLite => Unchanged(h)
    /\ status' = [status EXCEPT ![job[h].order] = "success"]
    /\ Credit(job[h])
    /\ Answer(h, TRUE)
    /\ End(h)
    /\ UNCHANGED <<checkout, lost, bounds>>

\* Seeded fault: the status is saved outside the transaction.
TxFails_NoRollback(h) ==
    /\ At(h, Transactions, "commit")
    /\ \/ SQLite /\ ~Unchanged(h) /\ UNCHANGED bounds
       \/ Breaks("db")
    /\ status' = [status EXCEPT ![job[h].order] = "success"]
    /\ Answer(h, FALSE)
    /\ End(h)
    /\ UNCHANGED <<credits, credited, checkout, lost>>

\* The order cannot be read, or the transaction fails and is rolled back.
TxFails(h) ==
    /\ \E step \in {"check", "read", "commit"} : At(h, Transactions, step)
    /\ \/ /\ At(h, Transactions, "commit") /\ SQLite /\ ~Unchanged(h)
          /\ UNCHANGED bounds
       \/ Breaks("db")
    /\ Answer(h, FALSE)
    /\ End(h)
    /\ UNCHANGED <<status, credits, credited, checkout, lost>>

\* sessionExpired reports a status other than pending and goes on.
ExpireRead(h) ==
    /\ At(h, {"sessionExpired"}, "read")
    /\ GoTo(h, "save")
    /\ UNCHANGED <<status, credits, credited, checkout, acked, lost, bounds>>

ExpireSave(h) ==
    /\ At(h, {"sessionExpired"}, "save")
    /\ status' = [status EXCEPT ![job[h].order] = "expired"]
    /\ Answer(h, TRUE)
    /\ End(h)
    /\ UNCHANGED <<credits, credited, checkout, lost, bounds>>

ExpireFails(h) ==
    /\ At(h, {"sessionExpired"}, "read") \/ At(h, {"sessionExpired"}, "save")
    /\ Breaks("db")
    /\ Answer(h, FALSE)
    /\ End(h)
    /\ UNCHANGED <<status, credits, credited, checkout, lost>>

\* A node stops, with its handlers and mutexes, and is started again.
Crash(n) ==
    LET dead == {h \in Handlers : NodeOf[h] = n}
    IN  /\ Breaks("crash")
        /\ job' = [h \in Handlers |-> IF h \in dead THEN Idle ELSE job[h]]
        /\ lost' = lost \cup {job[h].order : h \in {k \in dead : job[k].step = "credit"}}
        /\ UNCHANGED <<status, credits, credited, checkout, acked>>

(***************************************************************************)
(* The specification                                                       *)
(***************************************************************************)
Call(h, o) ==
    \/ EpayNotify(h, o) \/ sessionCompleted(h, o) \/ sessionExpired(h, o)
    \/ handleCheckoutCompleted(h, o) \/ AdminCompleteTopUp(h, o) \/ Redeem(h, o)

Step(h) ==
    \/ LockOrder(h) \/ EpayRead(h) \/ EpaySave(h) \/ EpayCredit(h) \/ EpayFails(h)
    \/ CreemCheck(h) \/ TxRead(h) \/ TxRefuses(h) \/ TxCommit(h) \/ TxFails(h)
    \/ ExpireRead(h) \/ ExpireSave(h) \/ ExpireFails(h)

Next ==
    \/ \E o \in Orders : RequestPay(o) \/ Pay(o) \/ ExpireCheckout(o)
    \/ \E h \in Handlers : Step(h) \/ \E o \in Orders : Call(h, o)
    \/ \E n \in Nodes : Crash(n)

Spec == Init /\ [][Next]_vars

\* A handler goes on, and a provider repeats what is not acknowledged.
FairSpec ==
    /\ Spec
    /\ \A h \in Handlers : WF_vars(Step(h))
    /\ \A o \in Orders :
          WF_vars(o \notin acked /\ \E h \in Handlers :
                    EpayNotify(h, o) \/ sessionCompleted(h, o) \/ handleCheckoutCompleted(h, o))

(***************************************************************************)
(* Properties                                                              *)
(***************************************************************************)
\* The order is completed by calls that exclude one another: one node, and its
\* mutex, or a database that refuses the second transaction.
OneNode == \A h, k \in Handlers : NodeOf[h] = NodeOf[k]
Guarded(o) == OneNode /\ (SQLite \/ Method[o] = "epay")

\* An order so guarded is added to the quota at most once, whichever callbacks,
\* administrators, failures and crashes meet.
CreditedOnce == \A o \in Orders : Guarded(o) => credits[o] <= 1

\* An order marked "success" has been added to the quota, or EpayNotify is
\* about to, or has failed after marking it.
SuccessCredited ==
    \A o \in Orders : status[o] = "success" =>
        \/ credits[o] > 0
        \/ o \in lost
        \/ \E h \in Handlers : At(h, {"EpayNotify"}, "credit") /\ job[h].order = o

\* What is paid is credited in the end.  After a failure only Creem keeps to
\* this, since its callback asks to be repeated.
PaidIsCredited ==
    \A o \in Orders :
        checkout[o] = "paid" ~> credits[o] > 0 \/ (Method[o] # "creem" /\ faults > 0)

\* "Row lock, avoids concurrent completion" (ManualCompleteTopUp): no order is
\* completed twice.
NeverCreditedTwice == \A o \in Orders : credits[o] <= 1

\* "Creem uses Amount as the quota" (RechargeCreem): an order adds what it is
\* worth, whoever completes it.
CreditedAsPriced == \A o \in Orders : credited[o] = credits[o] * Worth(o)
=============================================================================
