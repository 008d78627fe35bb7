---------------------------- MODULE TopUpProofs ----------------------------
(***************************************************************************)
(* Proofs about TopUp, for any orders, handlers, nodes, amounts, databases *)
(* and faults.                                                             *)
(***************************************************************************)
EXTENDS TopUp, TLAPS

(***************************************************************************)
(* The inductive invariant                                                 *)
(***************************************************************************)
\* Each operation is called for the orders of its method only.
MethodOf(op) == CASE op = "EpayNotify"    -> {"epay"}
                  [] op = "Recharge"      -> {"stripe"}
                  [] op = "sessionExpired" -> {"stripe"}
                  [] op = "RechargeCreem" -> {"creem"}
                  [] op = "Redeem"        -> {"code"}
                  [] OTHER                -> {"epay", "stripe", "creem"}

MethodInv == \A h \in Handlers : job[h] # Idle => Method[job[h].order] \in MethodOf(job[h].op)

\* LockOrder: on a node one handler at a time works on an order.
MutexInv ==
    \A h, k \in Handlers :
        /\ HoldsLock(h) /\ HoldsLock(k)
        /\ NodeOf[h] = NodeOf[k] /\ job[h].order = job[k].order
        => h = k

\* A completed order is not pending any more.
ClosedInv == \A o \in Orders : credits[o] > 0 => status[o] \in {"success", "expired"}

\* What a handler with the mutex has read is still so when it writes.
FreshInv ==
    \A h \in Handlers : OneNode /\ job[h] # Idle /\ Method[job[h].order] = "epay" =>
        /\ job[h].step \in {"save", "commit"} => status[job[h].order] = "pending"
        /\ job[h].step = "credit" => credits[job[h].order] = 0

\* The step "credit" belongs to EpayNotify, which has saved the order before,
\* "commit" to the transactions.
StepInv ==
    \A h \in Handlers :
        /\ job[h].step = "credit" => job[h].op = "EpayNotify" /\ status[job[h].order] = "success"
        /\ job[h].step = "commit" => job[h].op \in Transactions
        /\ job[h].step = "save" => job[h].op \in {"EpayNotify", "sessionExpired"}

RestInv == MethodInv /\ MutexInv /\ ClosedInv /\ FreshInv /\ StepInv /\ CreditedOnce
IInv == TypeOK /\ RestInv

(***************************************************************************)
(* Facts about one step                                                    *)
(***************************************************************************)
\* An order of any provider is a new row.
LEMMA RequestFacts == ASSUME NEW o \in Orders, RequestPay(o) PROVE InsertOrder(o)
BY DEF RequestPay, RequestEpay, RequestStripePay, RequestCreemPay

\* What a handler that has something to do is: a job with an order.
LEMMA BusyFacts ==
    ASSUME TypeOK, NEW h \in Handlers, job[h] # Idle
    PROVE  /\ job[h] \in [op: Ops, order: Orders, step: Steps]
           /\ job[h].op \in Ops /\ job[h].order \in Orders /\ job[h].step \in Steps
BY DEF TypeOK, Job

\* A step a handler is at makes it busy.
LEMMA AtFacts ==
    ASSUME TypeOK, NEW h \in Handlers, NEW op, NEW step \in Steps, At(h, op, step)
    PROVE  job[h] # Idle
BY DEF At, Idle, Steps

\* A handler goes on in its job.
LEMMA GoToFacts ==
    ASSUME TypeOK, NEW h \in Handlers, job[h] # Idle, NEW step \in Steps, GoTo(h, step)
    PROVE  /\ job' \in [Handlers -> Job]
           /\ job'[h].op = job[h].op /\ job'[h].order = job[h].order
           /\ job'[h].step = step /\ job'[h] # Idle
           /\ \A k \in Handlers : k # h => job'[k] = job[k]
<1>1. PICK op \in Ops, o \in Orders, s \in Steps : job[h] = [op |-> op, order |-> o, step |-> s]
  BY BusyFacts
<1>2. job' = [job EXCEPT ![h] = [op |-> op, order |-> o, step |-> step]]
  <2>1. [[op |-> op, order |-> o, step |-> s] EXCEPT !.step = step]
          = [op |-> op, order |-> o, step |-> step]
    OBVIOUS
  <2>2. job' = [job EXCEPT ![h] = [job[h] EXCEPT !.step = step]]
    BY DEF GoTo
  <2> QED
    BY <1>1, <2>1, <2>2
<1>3. [op |-> op, order |-> o, step |-> step] \in Job
  BY DEF Job
<1>4. [op |-> op, order |-> o, step |-> step] # Idle
  BY DEF Idle, Steps
<1> QED
  BY <1>1, <1>2, <1>3, <1>4 DEF TypeOK

\* A handler ends its job.
LEMMA EndFacts ==
    ASSUME TypeOK, NEW h \in Handlers, End(h)
    PROVE  /\ job' \in [Handlers -> Job] /\ job'[h] = Idle
           /\ \A k \in Handlers : k # h => job'[k] = job[k]
BY DEF TypeOK, End, Job

\* A call: an idle handler gets a job of its operation's first step, and no
\* order changes.
CallOf(h, o, op, step) ==
    /\ job[h] = Idle
    /\ job' = [job EXCEPT ![h] = [op |-> op, order |-> o, step |-> step]]
    /\ Method[o] \in MethodOf(op) /\ step \in {"lock", "read", "check"}
    /\ op \in Locking => step = "lock"

LEMMA CallFacts ==
    ASSUME TypeOK, NEW h \in Handlers, NEW o \in Orders, Call(h, o)
    PROVE  /\ \E op \in Ops, step \in Steps : CallOf(h, o, op, step)
           /\ UNCHANGED <<status, credits, credited, checkout, lost>>
           /\ acked' \subseteq Orders
           /\ faults' \in 0..MaxFaults /\ spare' \in 0..MaxSpare
<1>1. ASSUME NEW op, Called(o, op)
      PROVE  faults' \in 0..MaxFaults /\ spare' \in 0..MaxSpare
  BY <1>1, BoundsAssumption DEF Called, bounds, TypeOK
<1>2. CASE EpayNotify(h, o)
  <2>1. CallOf(h, o, "EpayNotify", "lock")
    BY <1>2 DEF EpayNotify, Begin, CallOf, MethodOf
  <2> QED
    BY <1>1, <1>2, <2>1 DEF EpayNotify, Ops, Steps, TypeOK
<1>3. CASE sessionCompleted(h, o)
  <2>1. CallOf(h, o, "Recharge", "read")
    BY <1>3 DEF sessionCompleted, Begin, CallOf, MethodOf, Locking
  <2> QED
    BY <1>1, <1>3, <2>1 DEF sessionCompleted, Ops, Steps, TypeOK
<1>4. CASE sessionExpired(h, o)
  <2>1. CallOf(h, o, "sessionExpired", "read")
    BY <1>4 DEF sessionExpired, Begin, CallOf, MethodOf, Locking
  <2> QED
    BY <1>1, <1>4, <2>1 DEF sessionExpired, Ops, Steps, TypeOK
<1>5. CASE handleCheckoutCompleted(h, o)
  <2>1. CallOf(h, o, "RechargeCreem", "check")
    BY <1>5 DEF handleCheckoutCompleted, Begin, CallOf, MethodOf, Locking
  <2> QED
    BY <1>1, <1>5, <2>1 DEF handleCheckoutCompleted, Ops, Steps, TypeOK
<1>6. CASE AdminCompleteTopUp(h, o)
  <2>1. CallOf(h, o, "ManualCompleteTopUp", "lock")
    BY <1>6, OrdersAssumption DEF AdminCompleteTopUp, Begin, CallOf, MethodOf, Methods
  <2> QED
    BY <1>6, <2>1, BoundsAssumption DEF AdminCompleteTopUp, Ops, Steps, TypeOK
<1>7. CASE Redeem(h, o)
  <2>1. CallOf(h, o, "Redeem", "read")
    BY <1>7 DEF Redeem, Begin, CallOf, MethodOf, Locking
  <2> QED
    BY <1>7, <2>1, BoundsAssumption DEF Redeem, Ops, Steps, TypeOK
<1> QED
  BY <1>2, <1>3, <1>4, <1>5, <1>6, <1>7 DEF Call

\* Acknowledgements and faults keep their types.
LEMMA AnswerFacts ==
    ASSUME TypeOK, NEW h \in Handlers, job[h] # Idle, NEW ok, Answer(h, ok)
    PROVE  acked' \subseteq Orders
BY BusyFacts DEF Answer, TypeOK

LEMMA BreaksFacts ==
    ASSUME TypeOK, NEW kind, Breaks(kind)
    PROVE  faults' \in 0..MaxFaults /\ spare' \in 0..MaxSpare
BY BoundsAssumption DEF Breaks, TypeOK

LEMMA QuotaFacts ==
    ASSUME NEW j, j.order \in Orders
    PROVE  Quota(j) \in Nat
<1>1. ManualQuota(j.order) \in Nat
  BY OrdersAssumption DEF ManualQuota
<1>2. Worth(j.order) \in Nat
  BY OrdersAssumption DEF Worth, Methods
<1> QED
  BY <1>1, <1>2 DEF Quota

\* Quota is added to one order, once.
LEMMA CreditFacts ==
    ASSUME TypeOK, NEW j, j.order \in Orders, Credit(j)
    PROVE  /\ credits' \in [Orders -> Nat] /\ credited' \in [Orders -> Nat]
           /\ credits'[j.order] = credits[j.order] + 1
           /\ \A o \in Orders : o # j.order => credits'[o] = credits[o]
<1>1. credits' \in [Orders -> Nat]
  BY DEF Credit, TypeOK
<1>2. credited' \in [Orders -> Nat]
  BY QuotaFacts DEF Credit, TypeOK
<1> QED
  BY <1>1, <1>2 DEF Credit, TypeOK

(***************************************************************************)
(* Types                                                                   *)
(***************************************************************************)
LEMMA TypeStep == ASSUME TypeOK, [Next]_vars PROVE TypeOK'
<1>1. CASE UNCHANGED vars
  BY <1>1 DEF vars, bounds, TypeOK
<1>2. ASSUME NEW o \in Orders, RequestPay(o) \/ Pay(o) \/ ExpireCheckout(o)
      PROVE  TypeOK'
  BY <1>2, RequestFacts DEF InsertOrder, Pay, ExpireCheckout, bounds, TypeOK
<1>3. ASSUME NEW h \in Handlers, NEW o \in Orders, Call(h, o)
      PROVE  TypeOK'
  <2>1. job' \in [Handlers -> Job]
    BY <1>3, CallFacts DEF CallOf, Job, TypeOK
  <2> QED
    BY <1>3, <2>1, CallFacts DEF TypeOK
<1>4. ASSUME NEW h \in Handlers, LockOrder(h) \/ EpayRead(h) \/ TxRead(h) \/ ExpireRead(h)
      PROVE  TypeOK'
  <2>1. job[h] # Idle
    BY <1>4, AtFacts DEF LockOrder, EpayRead, TxRead, ExpireRead, Steps
  <2>2. job' \in [Handlers -> Job]
    BY <1>4, <2>1, GoToFacts, EndFacts DEF LockOrder, EpayRead, TxRead, ExpireRead, Steps
  <2> QED
    BY <1>4, <2>2 DEF LockOrder, EpayRead, TxRead, ExpireRead, bounds, TypeOK
<1>5. ASSUME NEW h \in Handlers, EpaySave(h) PROVE TypeOK'
  <2>1. job[h] # Idle
    BY <1>5, AtFacts DEF EpaySave, Steps
  <2>2. job' \in [Handlers -> Job]
    BY <1>5, <2>1, GoToFacts DEF EpaySave, Steps
  <2> QED
    BY <1>5, <2>2 DEF EpaySave, bounds, TypeOK
<1>6. ASSUME NEW h \in Handlers, EpayCredit(h) PROVE TypeOK'
  <2>1. job[h] # Idle
    BY <1>6, AtFacts DEF EpayCredit, Steps
  <2> QED
    BY <1>6, <2>1, BusyFacts, CreditFacts, EndFacts DEF EpayCredit, bounds, TypeOK
<1>7. ASSUME NEW h \in Handlers, EpayFails(h) PROVE TypeOK'
  <2>1. job[h] # Idle
    BY <1>7, AtFacts DEF EpayFails, Steps
  <2> QED
    BY <1>7, <2>1, BusyFacts, BreaksFacts, EndFacts DEF EpayFails, TypeOK
<1>8. ASSUME NEW h \in Handlers, CreemCheck(h) PROVE TypeOK'
  <2>1. job[h] # Idle
    BY <1>8, AtFacts DEF CreemCheck, Steps
  <2>2. job' \in [Handlers -> Job] /\ acked' \subseteq Orders
    BY <1>8, <2>1, GoToFacts, EndFacts, AnswerFacts DEF CreemCheck, Steps, TypeOK
  <2> QED
    BY <1>8, <2>2 DEF CreemCheck, bounds, TypeOK
<1>9. ASSUME NEW h \in Handlers, TxRefuses(h) \/ TxFails(h) \/ ExpireFails(h)
      PROVE  TypeOK'
  <2>1. job[h] # Idle
    BY <1>9, AtFacts DEF TxRefuses, TxFails, ExpireFails, Steps
  <2>2. job' \in [Handlers -> Job] /\ acked' \subseteq Orders
    BY <1>9, <2>1, EndFacts, AnswerFacts DEF TxRefuses, TxFails, ExpireFails
  <2>3. faults' \in 0..MaxFaults /\ spare' \in 0..MaxSpare
    BY <1>9, BreaksFacts DEF TxRefuses, TxFails, ExpireFails, bounds, TypeOK
  <2> QED
    BY <1>9, <2>2, <2>3 DEF TxRefuses, TxFails, ExpireFails, bounds, TypeOK
<1>10. ASSUME NEW h \in Handlers, TxCommit(h) PROVE TypeOK'
  <2>1. job[h] # Idle
    BY <1>10, AtFacts DEF TxCommit, Steps
  <2>2. job' \in [Handlers -> Job] /\ acked' \subseteq Orders
    BY <1>10, <2>1, EndFacts, AnswerFacts DEF TxCommit
  <2>3. credits' \in [Orders -> Nat] /\ credited' \in [Orders -> Nat]
    BY <1>10, <2>1, BusyFacts, CreditFacts DEF TxCommit
  <2> QED
    BY <1>10, <2>2, <2>3 DEF TxCommit, bounds, TypeOK
<1>11. ASSUME NEW h \in Handlers, ExpireSave(h) PROVE TypeOK'
  <2>1. job[h] # Idle
    BY <1>11, AtFacts DEF ExpireSave, Steps
  <2>2. job' \in [Handlers -> Job] /\ acked' \subseteq Orders
    BY <1>11, <2>1, EndFacts, AnswerFacts DEF ExpireSave
  <2> QED
    BY <1>11, <2>2 DEF ExpireSave, bounds, TypeOK
<1>12. ASSUME NEW n \in Nodes, Crash(n) PROVE TypeOK'
  <2>1. job' \in [Handlers -> Job]
    BY <1>12 DEF Crash, Job, TypeOK
  <2>2. lost' \subseteq Orders
    <3>1. \A h \in Handlers : job[h].step = "credit" => job[h].order \in Orders
      BY BusyFacts DEF Idle
    <3> QED
      BY <1>12, <3>1 DEF Crash, TypeOK
  <2> QED
    BY <1>12, <2>1, <2>2, BreaksFacts DEF Crash, TypeOK
<1> QED
  BY <1>1, <1>2, <1>3, <1>4, <1>5, <1>6, <1>7, <1>8, <1>9, <1>10, <1>11, <1>12 DEF Next, Step

LEMMA TypeInit == Init => TypeOK
BY BoundsAssumption DEF Init, TypeOK, Job

\* Orders, jobs, credits and acknowledgements keep their types whatever calls,
\* failures and crashes happen.
THEOREM TypeCorrect == Spec => []TypeOK
BY TypeInit, TypeStep, PTL DEF Spec

(***************************************************************************)
(* An order is credited once                                               *)
(***************************************************************************)
\* A job that ends without writing disturbs nothing.
LEMMA EndKeeps ==
    ASSUME IInv, NEW h \in Handlers, End(h), UNCHANGED <<status, credits>>
    PROVE  RestInv'
<1>0. TypeOK /\ RestInv
  BY DEF IInv
<1>1. /\ job'[h] = Idle
      /\ \A k \in Handlers : k # h => job'[k] = job[k]
  BY <1>0, EndFacts
<1>2. MethodInv'
  BY <1>0, <1>1 DEF RestInv, MethodInv
<1>3. MutexInv'
  BY <1>0, <1>1 DEF RestInv, MutexInv, HoldsLock, Idle, Locking
<1>4. ClosedInv' /\ CreditedOnce'
  BY <1>0 DEF RestInv, ClosedInv, CreditedOnce, Guarded, OneNode
<1>5. FreshInv'
  BY <1>0, <1>1 DEF RestInv, FreshInv, OneNode
<1>6. StepInv'
  BY <1>0, <1>1 DEF RestInv, StepInv, Idle
<1> QED
  BY <1>2, <1>3, <1>4, <1>5, <1>6 DEF RestInv

\* A job that goes on without writing disturbs nothing, if it has the mutex it
\* needs and reads "pending" before it goes on to write.
LEMMA GoToKeeps ==
    ASSUME IInv, NEW h \in Handlers, job[h] # Idle, job[h].step # "lock",
           NEW step \in {"read", "save", "commit"}, GoTo(h, step),
           step = "save" => job[h].op \in {"EpayNotify", "sessionExpired"},
           step = "commit" => job[h].op \in Transactions,
           step # "read" /\ Method[job[h].order] = "epay" => status[job[h].order] = "pending",
           UNCHANGED <<status, credits>>
    PROVE  RestInv'
<1>0. TypeOK /\ RestInv
  BY DEF IInv
<1>1. /\ job'[h].op = job[h].op /\ job'[h].order = job[h].order
      /\ job'[h].step = step /\ job'[h] # Idle
      /\ \A k \in Handlers : k # h => job'[k] = job[k]
  BY <1>0, GoToFacts DEF Steps
<1>2. MethodInv'
  BY <1>0, <1>1 DEF RestInv, MethodInv
<1>3. MutexInv'
  BY <1>0, <1>1 DEF RestInv, MutexInv, HoldsLock
<1>4. ClosedInv' /\ CreditedOnce'
  BY <1>0 DEF RestInv, ClosedInv, CreditedOnce, Guarded, OneNode
<1>5. FreshInv'
  BY <1>0, <1>1 DEF RestInv, FreshInv, OneNode
<1>6. StepInv'
  BY <1>0, <1>1 DEF RestInv, StepInv
<1> QED
  BY <1>2, <1>3, <1>4, <1>5, <1>6 DEF RestInv

\* A call gets no mutex and writes nothing.
LEMMA CallKeeps ==
    ASSUME IInv, NEW h \in Handlers, NEW o \in Orders, Call(h, o)
    PROVE  RestInv'
<1>0. TypeOK /\ RestInv
  BY DEF IInv
<1>1. PICK op \in Ops, step \in Steps : CallOf(h, o, op, step)
  BY <1>0, CallFacts
<1>2. UNCHANGED <<status, credits>>
  BY <1>0, CallFacts
<1>3. /\ job'[h].op = op /\ job'[h].order = o /\ job'[h].step = step
      /\ \A k \in Handlers : k # h => job'[k] = job[k]
  BY <1>0, <1>1 DEF CallOf, TypeOK
<1>4. MethodInv'
  BY <1>0, <1>1, <1>3 DEF RestInv, MethodInv, CallOf
<1>5. MutexInv'
  BY <1>0, <1>1, <1>3 DEF RestInv, MutexInv, HoldsLock, CallOf
<1>6. ClosedInv' /\ CreditedOnce'
  BY <1>0, <1>2 DEF RestInv, ClosedInv, CreditedOnce, Guarded, OneNode
<1>7. FreshInv'
  BY <1>0, <1>1, <1>2, <1>3 DEF RestInv, FreshInv, OneNode, CallOf
<1>8. StepInv'
  BY <1>0, <1>1, <1>2, <1>3 DEF RestInv, StepInv, CallOf
<1> QED
  BY <1>4, <1>5, <1>6, <1>7, <1>8 DEF RestInv

\* LockOrder is where the mutex comes from.
LEMMA LockKeeps ==
    ASSUME IInv, NEW h \in Handlers, LockOrder(h)
    PROVE  RestInv'
<1>0. TypeOK /\ RestInv
  BY DEF IInv
<1>1. job[h] # Idle /\ job[h].step = "lock" /\ job[h].op \in Locking
  BY <1>0, AtFacts DEF LockOrder, At, Steps
<1>2. /\ job'[h].op = job[h].op /\ job'[h].order = job[h].order
      /\ job'[h].step = "read" /\ job'[h] # Idle
      /\ \A k \in Handlers : k # h => job'[k] = job[k]
  BY <1>0, <1>1, GoToFacts DEF LockOrder, Steps
<1>3. UNCHANGED <<status, credits>>
  BY DEF LockOrder
<1>4. MethodInv'
  BY <1>0, <1>1, <1>2 DEF RestInv, MethodInv
<1>5. MutexInv'
  BY <1>0, <1>2 DEF RestInv, MutexInv, HoldsLock, LockOrder
<1>6. ClosedInv' /\ CreditedOnce'
  BY <1>0, <1>3 DEF RestInv, ClosedInv, CreditedOnce, Guarded, OneNode
<1>7. FreshInv'
  BY <1>0, <1>2, <1>3 DEF RestInv, FreshInv, OneNode
<1>8. StepInv'
  BY <1>0, <1>2, <1>3 DEF RestInv, StepInv
<1> QED
  BY <1>4, <1>5, <1>6, <1>7, <1>8 DEF RestInv

\* On one node nobody else is beyond the lock of an order of EpayNotify.
LEMMA Alone ==
    ASSUME IInv, NEW h \in Handlers, NEW k \in Handlers, OneNode,
           job[h] # Idle, job[k] # Idle, job[h].order = job[k].order,
           Method[job[h].order] = "epay",
           job[h].step \in {"save", "credit", "commit"},
           job[k].step \in {"save", "credit", "commit"}
    PROVE  h = k
<1>0. TypeOK /\ RestInv
  BY DEF IInv
<1>1. job[h].op \in Ops /\ job[k].op \in Ops
  BY <1>0, BusyFacts
<1>2. job[h].op \in Locking /\ job[k].op \in Locking
  <2>1. \A op \in Ops : "epay" \in MethodOf(op) => op \in Locking
    BY DEF MethodOf, Ops, Locking
  <2> QED
    BY <1>0, <1>1, <2>1 DEF RestInv, MethodInv
<1> QED
  BY <1>0, <1>2 DEF RestInv, MutexInv, HoldsLock, OneNode

\* EpayNotify saves the order and goes on to credit it.
LEMMA EpaySaveKeeps ==
    ASSUME IInv, NEW h \in Handlers, EpaySave(h)
    PROVE  RestInv'
<1>0. TypeOK /\ RestInv
  BY DEF IInv
<1> DEFINE o == job[h].order
<1>1. job[h] # Idle /\ job[h].step = "save" /\ job[h].op = "EpayNotify"
  BY <1>0, AtFacts DEF EpaySave, At, Steps
<1>2. /\ job'[h].op = job[h].op /\ job'[h].order = job[h].order
      /\ job'[h].step = "credit" /\ job'[h] # Idle
      /\ \A k \in Handlers : k # h => job'[k] = job[k]
  BY <1>0, <1>1, GoToFacts DEF EpaySave, Steps
<1>3. o \in Orders /\ Method[o] = "epay"
  BY <1>0, <1>1, BusyFacts DEF RestInv, MethodInv, MethodOf
<1>4. /\ credits' = credits /\ status'[o] = "success"
      /\ \A p \in Orders : p # o => status'[p] = status[p]
  BY <1>0, <1>3 DEF EpaySave, TypeOK
<1>5. MethodInv'
  BY <1>0, <1>1, <1>2 DEF RestInv, MethodInv
<1>6. MutexInv'
  BY <1>0, <1>1, <1>2 DEF RestInv, MutexInv, HoldsLock
<1>7. ClosedInv' /\ CreditedOnce'
  BY <1>0, <1>4 DEF RestInv, ClosedInv, CreditedOnce, Guarded, OneNode
<1>8. FreshInv'
  <2> SUFFICES ASSUME NEW k \in Handlers, OneNode, job'[k] # Idle,
                      Method[job'[k].order] = "epay"
               PROVE  /\ job'[k].step \in {"save", "commit"} => status'[job'[k].order] = "pending"
                      /\ job'[k].step = "credit" => credits'[job'[k].order] = 0
    BY DEF FreshInv, OneNode
  <2>1. CASE k = h
    <3>1. OneNode => status[o] = "pending"
      BY <1>0, <1>1, <1>3 DEF RestInv, FreshInv
    <3>2. credits[o] = 0
      BY <1>0, <1>3, <3>1 DEF RestInv, ClosedInv, TypeOK
    <3> QED
      BY <1>2, <1>4, <2>1, <3>2
  <2>2. CASE k # h
    <3>1. job'[k] = job[k]
      BY <1>2, <2>2
    <3>2. job[k].order = o => job[k].step \notin {"save", "credit", "commit"}
      BY <1>1, <1>3, <2>2, <3>1, Alone
    <3>3. job[k].order \in Orders
      BY <1>0, <3>1, BusyFacts
    <3> QED
      BY <1>0, <1>4, <3>1, <3>2, <3>3 DEF RestInv, FreshInv
  <2> QED
    BY <2>1, <2>2
<1>9. StepInv'
  <2> SUFFICES ASSUME NEW k \in Handlers
               PROVE  /\ job'[k].step = "credit" => job'[k].op = "EpayNotify" /\ status'[job'[k].order] = "success"
                      /\ job'[k].step = "commit" => job'[k].op \in Transactions
                      /\ job'[k].step = "save" => job'[k].op \in {"EpayNotify", "sessionExpired"}
    BY DEF StepInv
  <2>1. job[k].step = "credit" => job[k].order \in Orders
    BY <1>0, BusyFacts DEF Idle
  <2> QED
    BY <1>0, <1>1, <1>2, <1>4, <2>1 DEF RestInv, StepInv
<1> QED
  BY <1>5, <1>6, <1>7, <1>8, <1>9 DEF RestInv

\* An order is credited for the first time and is closed then, so the invariant
\* is kept: what EpayCredit and TxCommit have in common.
LEMMA CreditKeeps ==
    ASSUME IInv, NEW h \in Handlers, job[h] # Idle, End(h), Credit(job[h]),
           job[h].step \in {"credit", "commit"},
           Guarded(job[h].order) => credits[job[h].order] = 0,
           status' \in [Orders -> {"none", "pending", "success", "expired"}],
           status'[job[h].order] = "success",
           \A p \in Orders : p # job[h].order => status'[p] = status[p]
    PROVE  RestInv'
<1>0. TypeOK /\ RestInv
  BY DEF IInv
<1> DEFINE o == job[h].order
<1>1. /\ job'[h] = Idle
      /\ \A k \in Handlers : k # h => job'[k] = job[k]
  BY <1>0, EndFacts
<1>2. o \in Orders
  BY <1>0, BusyFacts
<1>3. /\ credits'[o] = credits[o] + 1
      /\ \A p \in Orders : p # o => credits'[p] = credits[p]
  BY <1>0, <1>2, CreditFacts
<1>4. MethodInv'
  BY <1>0, <1>1 DEF RestInv, MethodInv
<1>5. MutexInv'
  BY <1>0, <1>1 DEF RestInv, MutexInv, HoldsLock, Idle, Locking
<1>6. ClosedInv'
  BY <1>0, <1>2, <1>3 DEF RestInv, ClosedInv
<1>7. CreditedOnce'
  BY <1>0, <1>2, <1>3 DEF RestInv, CreditedOnce, Guarded, OneNode
<1>8. FreshInv'
  <2> SUFFICES ASSUME NEW k \in Handlers, OneNode, job'[k] # Idle,
                      Method[job'[k].order] = "epay"
               PROVE  /\ job'[k].step \in {"save", "commit"} => status'[job'[k].order] = "pending"
                      /\ job'[k].step = "credit" => credits'[job'[k].order] = 0
    BY DEF FreshInv, OneNode
  <2>1. k # h /\ job'[k] = job[k]
    BY <1>1
  <2>2. job[k].order = o => job[k].step \notin {"save", "credit", "commit"}
    BY <2>1, Alone
  <2>3. job[k].order \in Orders
    BY <1>0, <2>1, BusyFacts
  <2> QED
    BY <1>0, <1>3, <2>1, <2>2, <2>3 DEF RestInv, FreshInv
<1>9. StepInv'
  <2> SUFFICES ASSUME NEW k \in Handlers
               PROVE  /\ job'[k].step = "credit" => job'[k].op = "EpayNotify" /\ status'[job'[k].order] = "success"
                      /\ job'[k].step = "commit" => job'[k].op \in Transactions
                      /\ job'[k].step = "save" => job'[k].op \in {"EpayNotify", "sessionExpired"}
    BY DEF StepInv
  <2>1. job[k].step = "credit" => job[k].order \in Orders
    BY <1>0, BusyFacts DEF Idle
  <2> QED
    BY <1>0, <1>1, <2>1 DEF RestInv, StepInv, Idle
<1> QED
  BY <1>4, <1>5, <1>6, <1>7, <1>8, <1>9 DEF RestInv

LEMMA EpayCreditKeeps ==
    ASSUME IInv, NEW h \in Handlers, EpayCredit(h)
    PROVE  RestInv'
<1>0. TypeOK /\ RestInv
  BY DEF IInv
<1>1. job[h] # Idle /\ job[h].step = "credit" /\ job[h].op = "EpayNotify"
  BY <1>0, AtFacts DEF EpayCredit, At, Steps
<1>2. job[h].order \in Orders /\ Method[job[h].order] = "epay"
  BY <1>0, <1>1, BusyFacts DEF RestInv, MethodInv, MethodOf
<1>3. Guarded(job[h].order) => credits[job[h].order] = 0
  BY <1>0, <1>1, <1>2 DEF RestInv, FreshInv, Guarded
<1>4. status[job[h].order] = "success"
  BY <1>0, <1>1 DEF RestInv, StepInv
<1> QED
  BY <1>0, <1>1, <1>3, <1>4, CreditKeeps DEF EpayCredit, TypeOK

LEMMA TxCommitKeeps ==
    ASSUME IInv, NEW h \in Handlers, TxCommit(h)
    PROVE  RestInv'
<1>0. TypeOK /\ RestInv
  BY DEF IInv
<1>1. job[h] # Idle /\ job[h].step = "commit"
  BY <1>0, AtFacts DEF TxCommit, At, Steps
<1>2. job[h].order \in Orders
  BY <1>0, <1>1, BusyFacts
<1>3. Guarded(job[h].order) => status[job[h].order] = "pending"
  BY <1>0, <1>1 DEF RestInv, FreshInv, Guarded, TxCommit, Unchanged
<1>4. Guarded(job[h].order) => credits[job[h].order] = 0
  BY <1>0, <1>2, <1>3 DEF RestInv, ClosedInv, TypeOK
<1>5. /\ status' \in [Orders -> {"none", "pending", "success", "expired"}]
      /\ status'[job[h].order] = "success"
      /\ \A p \in Orders : p # job[h].order => status'[p] = status[p]
  BY <1>0, <1>2 DEF TxCommit, TypeOK
<1> QED
  BY <1>1, <1>4, <1>5, CreditKeeps DEF TxCommit

\* Only orders of Stripe expire, and no order of EpayNotify does.
LEMMA ExpireSaveKeeps ==
    ASSUME IInv, NEW h \in Handlers, ExpireSave(h)
    PROVE  RestInv'
<1>0. TypeOK /\ RestInv
  BY DEF IInv
<1> DEFINE o == job[h].order
<1>1. job[h] # Idle /\ job[h].step = "save" /\ job[h].op = "sessionExpired"
  BY <1>0, AtFacts DEF ExpireSave, At, Steps
<1>2. o \in Orders /\ Method[o] = "stripe"
  BY <1>0, <1>1, BusyFacts DEF RestInv, MethodInv, MethodOf
<1>3. /\ credits' = credits /\ status'[o] = "expired"
      /\ \A p \in Orders : p # o => status'[p] = status[p]
  BY <1>0, <1>2 DEF ExpireSave, TypeOK
<1>4. /\ job'[h] = Idle
      /\ \A k \in Handlers : k # h => job'[k] = job[k]
  BY <1>0, EndFacts DEF ExpireSave
<1>5. MethodInv'
  BY <1>0, <1>4 DEF RestInv, MethodInv
<1>6. MutexInv'
  BY <1>0, <1>4 DEF RestInv, MutexInv, HoldsLock, Idle, Locking
<1>7. ClosedInv' /\ CreditedOnce'
  BY <1>0, <1>3 DEF RestInv, ClosedInv, CreditedOnce, Guarded, OneNode
<1>8. FreshInv'
  <2>1. \A k \in Handlers : job[k] # Idle => job[k].order \in Orders
    BY <1>0, BusyFacts
  <2> QED
    BY <1>0, <1>2, <1>3, <1>4, <2>1 DEF RestInv, FreshInv, OneNode
<1>9. StepInv'
  <2>1. \A k \in Handlers : job[k].step = "credit" =>
          job[k].order \in Orders /\ Method[job[k].order] = "epay"
    BY <1>0, BusyFacts DEF RestInv, StepInv, MethodInv, MethodOf, Idle
  <2> QED
    BY <1>0, <1>2, <1>3, <1>4, <2>1 DEF RestInv, StepInv, Idle
<1> QED
  BY <1>5, <1>6, <1>7, <1>8, <1>9 DEF RestInv

\* A crash frees the mutexes of the node together with the jobs that hold them.
LEMMA CrashKeeps ==
    ASSUME IInv, NEW n \in Nodes, Crash(n)
    PROVE  RestInv'
<1>0. TypeOK /\ RestInv
  BY DEF IInv
<1>1. \A k \in Handlers : job'[k] = Idle \/ job'[k] = job[k]
  BY DEF Crash
<1>2. UNCHANGED <<status, credits>>
  BY DEF Crash
<1>3. MethodInv'
  BY <1>0, <1>1 DEF RestInv, MethodInv
<1>4. MutexInv'
  BY <1>0, <1>1 DEF RestInv, MutexInv, HoldsLock, Idle, Locking
<1>5. ClosedInv' /\ CreditedOnce'
  BY <1>0, <1>2 DEF RestInv, ClosedInv, CreditedOnce, Guarded, OneNode
<1>6. FreshInv'
  BY <1>0, <1>1, <1>2 DEF RestInv, FreshInv, OneNode
<1>7. StepInv'
  BY <1>0, <1>1, <1>2 DEF RestInv, StepInv, Idle
<1> QED
  BY <1>3, <1>4, <1>5, <1>6, <1>7 DEF RestInv

LEMMA RestStep == ASSUME IInv, [Next]_vars PROVE RestInv'
<1>0. TypeOK /\ RestInv
  BY DEF IInv
<1>1. ASSUME UNCHANGED <<status, job, credits>> PROVE RestInv'
  BY <1>0, <1>1 DEF RestInv, MethodInv, MutexInv, ClosedInv, FreshInv, StepInv,
                    CreditedOnce, Guarded, OneNode, HoldsLock
<1>2. ASSUME NEW o \in Orders, RequestPay(o) PROVE RestInv'
  <2>1. UNCHANGED <<job, credits>>
    BY <1>2, RequestFacts DEF InsertOrder
  <2>2. /\ status[o] = "none" /\ status'[o] = "pending"
        /\ \A p \in Orders : p # o => status'[p] = status[p]
    BY <1>0, <1>2, RequestFacts DEF InsertOrder, TypeOK
  <2>3. MethodInv' /\ MutexInv' /\ CreditedOnce'
    BY <1>0, <2>1 DEF RestInv, MethodInv, MutexInv, HoldsLock, CreditedOnce, Guarded, OneNode
  <2>4. ClosedInv'
    BY <1>0, <2>1, <2>2 DEF RestInv, ClosedInv
  <2>5. FreshInv'
    <3>1. \A k \in Handlers : job[k] # Idle => job[k].order \in Orders
      BY <1>0, BusyFacts
    <3> QED
      BY <1>0, <2>1, <2>2, <3>1 DEF RestInv, FreshInv, OneNode
  <2>6. StepInv'
    <3>1. \A k \in Handlers : job[k].step = "credit" => job[k].order \in Orders
      BY <1>0, BusyFacts DEF Idle
    <3> QED
      BY <1>0, <2>1, <2>2, <3>1 DEF RestInv, StepInv
  <2> QED
    BY <2>3, <2>4, <2>5, <2>6 DEF RestInv
<1>3. ASSUME NEW h \in Handlers, EpayRead(h) PROVE RestInv'
  <2>1. job[h] # Idle /\ job[h].step = "read" /\ job[h].op = "EpayNotify"
    BY <1>0, <1>3, AtFacts DEF EpayRead, At, Steps
  <2> QED
    BY <1>3, <2>1, EndKeeps, GoToKeeps DEF EpayRead
<1>4. ASSUME NEW h \in Handlers, CreemCheck(h) PROVE RestInv'
  <2>1. job[h] # Idle /\ job[h].step = "check"
    BY <1>0, <1>4, AtFacts DEF CreemCheck, At, Steps
  <2> QED
    BY <1>4, <2>1, EndKeeps, GoToKeeps DEF CreemCheck
<1>5. ASSUME NEW h \in Handlers, TxRead(h) PROVE RestInv'
  <2>1. job[h] # Idle /\ job[h].step = "read" /\ job[h].op \in Transactions
    BY <1>0, <1>5, AtFacts DEF TxRead, At, Steps
  <2> QED
    BY <1>5, <2>1, GoToKeeps DEF TxRead, MayComplete
<1>6. ASSUME NEW h \in Handlers, ExpireRead(h) PROVE RestInv'
  <2>1. job[h] # Idle /\ job[h].step = "read" /\ job[h].op = "sessionExpired"
    BY <1>0, <1>6, AtFacts DEF ExpireRead, At, Steps
  <2>2. Method[job[h].order] # "epay"
    BY <1>0, <2>1 DEF RestInv, MethodInv, MethodOf
  <2> QED
    BY <1>6, <2>1, <2>2, GoToKeeps DEF ExpireRead
<1>7. ASSUME NEW h \in Handlers, EpayFails(h) \/ TxRefuses(h) \/ TxFails(h) \/ ExpireFails(h)
      PROVE  RestInv'
  BY <1>7, EndKeeps DEF EpayFails, TxRefuses, TxFails, ExpireFails
<1>8. ASSUME NEW o \in Orders, Pay(o) \/ ExpireCheckout(o) PROVE RestInv'
  BY <1>1, <1>8 DEF Pay, ExpireCheckout
<1>9. CASE UNCHANGED vars
  BY <1>1, <1>9 DEF vars
<1> QED
  BY <1>2, <1>3, <1>4, <1>5, <1>6, <1>7, <1>8, <1>9, CallKeeps, LockKeeps, EpaySaveKeeps,
     EpayCreditKeeps, TxCommitKeeps, ExpireSaveKeeps, CrashKeeps DEF Next, Step

LEMMA IInvInit == Init => IInv
<1> SUFFICES ASSUME Init PROVE RestInv
  BY TypeInit DEF IInv
<1>1. \A h \in Handlers : job[h] = Idle
  BY DEF Init
<1>2. \A o \in Orders : credits[o] = 0
  BY DEF Init
<1> QED
  BY <1>1, <1>2 DEF RestInv, MethodInv, MutexInv, ClosedInv, FreshInv, StepInv, CreditedOnce,
                    HoldsLock, Idle, Locking

\* On one node, an order of EpayNotify, or any order in SQLite, is added to the
\* quota at most once: the mutex of LockOrder, or the database, keeps what was
\* read valid until it is written.
THEOREM CreditedOnceThm == Spec => []CreditedOnce
<1>1. IInv /\ [Next]_vars => IInv'
  BY TypeStep, RestStep DEF IInv
<1>2. IInv => CreditedOnce
  BY DEF IInv, RestInv
<1> QED
  BY <1>1, <1>2, IInvInit, PTL DEF Spec

(***************************************************************************)
(* No credit is lost silently                                              *)
(***************************************************************************)
\* At a step that neither touches the order nor takes a handler away from the
\* step "credit".
LEMMA CreditedKept ==
    ASSUME SuccessCredited, credits' = credits, lost \subseteq lost',
           \A o \in Orders : status'[o] = "success" => status[o] = "success",
           \A k \in Handlers : job[k].step = "credit" => job'[k] = job[k]
    PROVE  SuccessCredited'
BY DEF SuccessCredited, At

\* The step of one handler that is not at "credit" keeps the others there.
LEMMA OthersKept ==
    ASSUME TypeOK, NEW h \in Handlers, job[h].step # "credit",
           End(h) \/ (job[h] # Idle /\ \E step \in Steps : GoTo(h, step))
    PROVE  \A k \in Handlers : job[k].step = "credit" => job'[k] = job[k]
BY EndFacts, GoToFacts

\* However calls overlap, on any number of nodes and with any database, an
\* order marked "success" has been credited, is about to be, or is one that a
\* failure hit between the two updates of EpayNotify.
THEOREM SuccessCreditedThm == Spec => []SuccessCredited
<1> DEFINE Inv == TypeOK /\ SuccessCredited
<1>1. Init => Inv
  BY TypeInit DEF Init, SuccessCredited
<1>2. ASSUME Inv, [Next]_vars PROVE SuccessCredited'
  <2>1. CASE UNCHANGED vars
    BY <1>2, <2>1 DEF vars, SuccessCredited, At
  <2>2. ASSUME NEW o \in Orders, RequestPay(o) \/ Pay(o) \/ ExpireCheckout(o)
        PROVE  SuccessCredited'
    BY <1>2, <2>2, RequestFacts, CreditedKept DEF InsertOrder, Pay, ExpireCheckout, TypeOK
  <2>3. ASSUME NEW h \in Handlers, NEW o \in Orders, Call(h, o)
        PROVE  SuccessCredited'
    <3>1. \A k \in Handlers : job[k].step = "credit" => job'[k] = job[k]
      BY <1>2, <2>3, CallFacts DEF CallOf, Idle, TypeOK
    <3> QED
      BY <1>2, <2>3, <3>1, CallFacts, CreditedKept
  <2>4. ASSUME NEW h \in Handlers,
               \/ LockOrder(h) \/ EpayRead(h) \/ CreemCheck(h) \/ TxRead(h)
               \/ TxRefuses(h) \/ TxFails(h) \/ ExpireRead(h) \/ ExpireFails(h)
        PROVE  SuccessCredited'
    <3>1. job[h] # Idle /\ job[h].step # "credit"
      BY <1>2, <2>4, AtFacts DEF LockOrder, EpayRead, CreemCheck, TxRead, TxRefuses, TxFails,
                            ExpireRead, ExpireFails, At, Steps
    <3>2. End(h) \/ \E step \in Steps : GoTo(h, step)
      BY <2>4 DEF LockOrder, EpayRead, CreemCheck, TxRead, TxRefuses, TxFails,
                  ExpireRead, ExpireFails, Steps
    <3>3. UNCHANGED <<status, credits, lost>>
      BY <2>4 DEF LockOrder, EpayRead, CreemCheck, TxRead, TxRefuses, TxFails,
                  ExpireRead, ExpireFails
    <3> QED
      BY <1>2, <3>1, <3>2, <3>3, OthersKept, CreditedKept
  <2>5. ASSUME NEW h \in Handlers, EpaySave(h) PROVE SuccessCredited'
    <3>1. job[h] # Idle /\ job[h].step = "save" /\ job[h].op = "EpayNotify"
      BY <1>2, <2>5, AtFacts DEF EpaySave, At, Steps
    <3>2. /\ At(h, {"EpayNotify"}, "credit")' /\ job'[h].order = job[h].order
          /\ \A k \in Handlers : k # h => job'[k] = job[k]
      BY <1>2, <2>5, <3>1, GoToFacts DEF EpaySave, Steps, At
    <3>3. \A p \in Orders : p # job[h].order => status'[p] = status[p]
      BY <1>2, <2>5 DEF EpaySave, TypeOK
    <3>4. UNCHANGED <<credits, lost>>
      BY <2>5 DEF EpaySave
    <3> QED
      BY <1>2, <3>1, <3>2, <3>3, <3>4 DEF SuccessCredited, At
  <2>6. ASSUME NEW h \in Handlers, EpayCredit(h) \/ TxCommit(h) PROVE SuccessCredited'
    <3>1. job[h] # Idle
      BY <1>2, <2>6, AtFacts DEF EpayCredit, TxCommit, Steps
    <3>2. job[h].order \in Orders
      BY <1>2, <3>1, BusyFacts
    <3>3. /\ credits' \in [Orders -> Nat]
          /\ credits'[job[h].order] = credits[job[h].order] + 1
          /\ \A o \in Orders : o # job[h].order => credits'[o] = credits[o]
      BY <1>2, <2>6, <3>2, CreditFacts DEF EpayCredit, TxCommit
    <3>4. /\ lost' = lost
          /\ \A p \in Orders : p # job[h].order => status'[p] = status[p]
          /\ \A k \in Handlers : k # h => job'[k] = job[k]
      BY <1>2, <2>6, EndFacts DEF EpayCredit, TxCommit, TypeOK
    <3>5. credits'[job[h].order] > 0
      BY <1>2, <3>2, <3>3 DEF TypeOK
    <3> QED
      BY <1>2, <3>2, <3>3, <3>4, <3>5 DEF SuccessCredited, At
  <2>7. ASSUME NEW h \in Handlers, EpayFails(h) PROVE SuccessCredited'
    <3>1. \A k \in Handlers : k # h => job'[k] = job[k]
      BY <1>2, <2>7, EndFacts DEF EpayFails
    <3>2. lost \subseteq lost' /\ (job[h].step = "credit" => job[h].order \in lost')
      BY <2>7 DEF EpayFails
    <3>3. UNCHANGED <<status, credits>>
      BY <2>7 DEF EpayFails
    <3> QED
      BY <1>2, <3>1, <3>2, <3>3 DEF SuccessCredited, At
  <2>8. ASSUME NEW h \in Handlers, ExpireSave(h) PROVE SuccessCredited'
    <3>1. job[h].step # "credit"
      BY <2>8 DEF ExpireSave, At
    <3>2. \A k \in Handlers : job[k].step = "credit" => job'[k] = job[k]
      BY <1>2, <2>8, <3>1, OthersKept DEF ExpireSave
    <3>3. \A o \in Orders : status'[o] = "success" => status[o] = "success"
      BY <1>2, <2>8 DEF ExpireSave, TypeOK
    <3> QED
      BY <1>2, <2>8, <3>2, <3>3, CreditedKept DEF ExpireSave
  <2>9. ASSUME NEW n \in Nodes, Crash(n) PROVE SuccessCredited'
    <3>1. \A k \in Handlers : job'[k] = job[k] \/ (job[k].step = "credit" => job[k].order \in lost')
      BY <2>9 DEF Crash
    <3>2. lost \subseteq lost'
      BY <2>9 DEF Crash
    <3>3. UNCHANGED <<status, credits>>
      BY <2>9 DEF Crash
    <3> QED
      BY <1>2, <3>1, <3>2, <3>3 DEF SuccessCredited, At
  <2> QED
    BY <1>2, <2>1, <2>2, <2>3, <2>4, <2>5, <2>6, <2>7, <2>8, <2>9 DEF Next, Step
<1>3. Inv /\ [Next]_vars => Inv'
  BY <1>2, TypeStep
<1> QED
  BY <1>1, <1>3, PTL DEF Spec
=============================================================================
