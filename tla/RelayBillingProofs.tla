------------------------- MODULE RelayBillingProofs -------------------------
(***************************************************************************)
(* Proofs about RelayBilling, for any number of requests, nodes and users, *)
(* any amounts and any combination of faults.                              *)
(*                                                                         *)
(* NeverOvercharged and SettledExactly say what has been paid when a       *)
(* request has ended.  To carry them from step to step, RequestInv says    *)
(* for every place in the handler what has been paid when it is there, as  *)
(* a bound in all cases and exactly when no update for the request failed  *)
(* and no scan refunded it; ScanInv says what a scan may be working on.    *)
(***************************************************************************)
EXTENDS RelayBilling, FiniteSetTheorems, TLAPS

\* The part of an amount that the token pays.
TokenPart(r, amount) == IF info[r].playground THEN 0 ELSE amount

Untouched(r) == r \notin failed /\ orphanRefunds[r] = 0

AllPaths == {"text", "claude", "audio"}

BeforeHold == {"idle", "token", "deduct", "noQuota", "noToken", "noUpdate"}
Holding    == {"register", "sent", "failed", "settleUser", "refundUser"}

\* Nothing is paid, recorded or refunded before the hold.
PreparedInv(r) ==
    /\ pc[r] \in BeforeHold => /\ hold[r] = 0 /\ cost[r] = 0 /\ net[r] = 0
                               /\ orphanRefunds[r] = 0 /\ r \notin inflight
    /\ pc[r] \in {"token", "deduct"} => info[r].pre > 0
    /\ pc[r] = "register" => hold[r] > 0 /\ hold[r] = info[r].pre

\* Records and refunds stand for a hold.
BackedInv(r) ==
    r \in inflight \/ orphanRefunds[r] > 0 => hold[r] = info[r].pre /\ hold[r] > 0

\* What has been paid at most.
BoundInv(r) ==
    /\ net[r] <= hold[r] \/ net[r] <= cost[r]
    /\ pc[r] \in Holding \cup {"panicked"} => net[r] <= hold[r]
    /\ pc[r] = "settleToken" => net[r] <= cost[r]
    /\ pc[r] \in {"refundToken", "dead"} => net[r] <= 0

\* What has been paid when nothing went wrong.
ExactInv(r) == Untouched(r) =>
    /\ pc[r] \in {"idle", "token", "noQuota", "noToken"} => netToken[r] = 0
    /\ pc[r] = "deduct" => netToken[r] = TokenPart(r, info[r].pre)
    /\ pc[r] \in Holding => net[r] = hold[r] /\ netToken[r] = TokenPart(r, hold[r])
    /\ pc[r] = "settleToken" => net[r] = cost[r] /\ netToken[r] = TokenPart(r, hold[r])
    /\ pc[r] \in {"clear", "done"} => net[r] = cost[r] /\ netToken[r] = TokenPart(r, cost[r])
    /\ pc[r] = "refundToken" => net[r] = 0 /\ netToken[r] = TokenPart(r, hold[r])
    /\ pc[r] \in {"returned", "dead"} => net[r] = 0 /\ netToken[r] = 0

RequestInv(r) == PreparedInv(r) /\ BackedInv(r) /\ BoundInv(r) /\ ExactInv(r)

\* A scan works on a request with a hold, which it has refunded before it goes
\* on to the token.
ScanInv ==
    \A n \in Nodes :
        /\ scan[n].step \in {"user", "token", "delete"} =>
              /\ scan[n].cur \in Requests
              /\ hold[scan[n].cur] = info[scan[n].cur].pre /\ hold[scan[n].cur] > 0
        /\ scan[n].step \in {"token", "delete"} => orphanRefunds[scan[n].cur] > 0

IInv == TypeOK /\ ScanInv /\ \A r \in Requests : RequestInv(r)

(***************************************************************************)
(* Type correctness                                                        *)
(***************************************************************************)
LEMMA TypeInit == Init => TypeOK
  BY AmountsAssumption, QuotaAssumption, ModeAssumption
     DEF Init, TypeOK, ScanIdle, ScanState, ScanStep, PC, Info

\* The fields of a request.
LEMMA InfoTypes ==
  ASSUME TypeOK, NEW r \in Requests
  PROVE  /\ info[r].user \in Users /\ info[r].node \in Nodes
         /\ info[r].pre \in Nat /\ info[r].playground \in BOOLEAN
         /\ info[r].path \in Paths
  <1>1. info[r] \in Info BY DEF TypeOK
  <1> QED BY <1>1, AmountsAssumption DEF Info

\* Every step of a handler keeps the types.
LEMMA TypeHandle == ASSUME TypeOK, NEW r \in Requests, Handle(r) PROVE TypeOK'
  <1> USE AmountsAssumption, InfoTypes DEF TypeOK, GoTo, PC, Running, Ended, dbVars,
          nodeVars, histVars, ChargeUser, ChargeToken, Fails, DeleteRecord
  <1>1. CASE SkipPreConsume(r) BY <1>1 DEF SkipPreConsume
  <1>2. CASE PreConsumeNoQuota(r) BY <1>2 DEF PreConsumeNoQuota
  <1>3. CASE PreConsumeCheck(r) BY <1>3 DEF PreConsumeCheck
  <1>4. CASE PreConsumeTokenRefused(r) BY <1>4 DEF PreConsumeTokenRefused
  <1>5. CASE PreConsumeToken(r) BY <1>5 DEF PreConsumeToken
  <1>6. CASE PreConsumeUser(r) BY <1>6 DEF PreConsumeUser
  <1>7. CASE PreConsumeUserFails(r) BY <1>7 DEF PreConsumeUserFails
  <1>8. CASE RegisterInflight(r) BY <1>8 DEF RegisterInflight
  <1>9. CASE \E quota \in Amounts, path \in AllPaths : Consume(r, path, quota)
    BY <1>9 DEF Consume
  <1>10. CASE UpstreamFails(r) BY <1>10 DEF UpstreamFails
  <1>11. CASE HandlerPanics(r) BY <1>11 DEF HandlerPanics
  <1>12. CASE SettleUser(r) BY <1>12 DEF SettleUser
  <1>13. CASE SettleToken(r) BY <1>13 DEF SettleToken, AfterSettlement
  <1>14. CASE SettleFails(r) BY <1>14 DEF SettleFails, AfterSettlement
  <1>15. CASE ClearInflight(r) BY <1>15 DEF ClearInflight
  <1>16. CASE NothingToReturn(r) BY <1>16 DEF NothingToReturn
  <1>17. CASE ReturnPreConsumedQuota(r) BY <1>17 DEF ReturnPreConsumedQuota
  <1>18. CASE RefundUser(r) BY <1>18 DEF RefundUser
  <1>19. CASE RefundToken(r) BY <1>19 DEF RefundToken
  <1>20. CASE RefundFails(r) BY <1>20 DEF RefundFails
  <1> QED
    BY <1>1, <1>2, <1>3, <1>4, <1>5, <1>6, <1>7, <1>8, <1>9, <1>10, <1>11,
       <1>12, <1>13, <1>14, <1>15, <1>16, <1>17, <1>18, <1>19, <1>20
       DEF Handle, ConsumeText, ConsumeClaude, ConsumeAudio, AllPaths

LEMMA ScanStateType ==
  ASSUME TypeOK, NEW n \in Nodes, NEW keys \in SUBSET Requests,
         NEW cur \in Requests \cup {NoRequest}, NEW step \in ScanStep,
         NEW unread \in SUBSET Requests
  PROVE  /\ scan' = [scan EXCEPT ![n].keys = keys, ![n].cur = cur, ![n].step = step,
                                ![n].unread = unread] => scan' \in [Nodes -> ScanState]
         /\ scan' = [scan EXCEPT ![n].keys = keys, ![n].step = step]
               => scan' \in [Nodes -> ScanState]
         /\ scan' = [scan EXCEPT ![n].keys = keys, ![n].unread = unread]
               => scan' \in [Nodes -> ScanState]
         /\ scan' = [scan EXCEPT ![n].keys = keys, ![n].cur = cur, ![n].step = step]
               => scan' \in [Nodes -> ScanState]
         /\ scan' = [scan EXCEPT ![n].cur = cur, ![n].step = step]
               => scan' \in [Nodes -> ScanState]
         /\ scan' = [scan EXCEPT ![n].keys = keys] => scan' \in [Nodes -> ScanState]
         /\ scan' = [scan EXCEPT ![n].step = step] => scan' \in [Nodes -> ScanState]
  <1>1. scan \in [Nodes -> ScanState] /\ scan[n] \in ScanState BY DEF TypeOK
  <1>2. /\ [scan[n] EXCEPT !.keys = keys, !.cur = cur, !.step = step, !.unread = unread]
              \in ScanState
        /\ [scan[n] EXCEPT !.keys = keys, !.step = step] \in ScanState
        /\ [scan[n] EXCEPT !.keys = keys, !.unread = unread] \in ScanState
        /\ [scan[n] EXCEPT !.keys = keys, !.cur = cur, !.step = step] \in ScanState
        /\ [scan[n] EXCEPT !.cur = cur, !.step = step] \in ScanState
        /\ [scan[n] EXCEPT !.keys = keys] \in ScanState
        /\ [scan[n] EXCEPT !.step = step] \in ScanState
    BY <1>1 DEF ScanState
  <1> QED BY <1>1, <1>2

\* The fields of a scan.
LEMMA ScanTypes ==
  ASSUME TypeOK, NEW n \in Nodes
  PROVE  /\ scan[n].keys \in SUBSET Requests /\ scan[n].unread \in SUBSET Requests
         /\ scan[n].cur \in Requests \cup {NoRequest}
  BY DEF TypeOK, ScanState

\* A record passed over leaves the list, and nothing else of a scan moves
\* but the history of records that could not be read.
LEMMA SkipFrame ==
  ASSUME TypeOK, NEW n \in Nodes, NEW r \in Requests, ScanSkip(n, r)
  PROVE  /\ scan' \in [Nodes -> ScanState]
         /\ \A m \in Nodes : /\ scan'[m].step = scan[m].step
                             /\ scan'[m].cur = scan[m].cur
                             /\ scan'[m].keys \subseteq scan[m].keys
         /\ UNCHANGED <<dbVars, inflight, reqVars, up, starts, histVars>>
  <1>1. UNCHANGED <<dbVars, inflight, reqVars, up, starts, histVars>> BY DEF ScanSkip
  <1>2. scan \in [Nodes -> ScanState] /\ scan[n] \in ScanState BY DEF TypeOK
  <1>3. CASE scan' = [scan EXCEPT ![n].keys = @ \ {r}]
    <2>1. [scan[n] EXCEPT !.keys = @ \ {r}] \in ScanState BY <1>2 DEF ScanState
    <2> QED BY <1>1, <1>2, <1>3, <2>1 DEF ScanState
  <1>4. CASE scan' = [scan EXCEPT ![n].keys = @ \ {r}, ![n].unread = @ \cup {r}]
    <2> DEFINE s == [scan[n] EXCEPT !.keys = @ \ {r}, !.unread = @ \cup {r}]
    <2>1. /\ s \in ScanState /\ s.step = scan[n].step /\ s.cur = scan[n].cur
          /\ s.keys \subseteq scan[n].keys
      BY <1>2 DEF ScanState
    <2>2. scan' = [scan EXCEPT ![n] = s] BY <1>2, <1>4
    <2> HIDE DEF s
    <2> QED BY <1>1, <1>2, <2>1, <2>2
  <1> QED BY <1>3, <1>4 DEF ScanSkip

\* So do the steps of a start-up scan.
LEMMA TypeScan == ASSUME TypeOK, ScanInv, NEW n \in Nodes, Scan(n) PROVE TypeOK'
  <1>a. scan' \in [Nodes -> ScanState] => TypeOK'
    <2> USE InfoTypes DEF TypeOK, dbVars, reqVars, histVars, ChargeUser, ChargeToken,
            Fails, DeleteRecord
    <2> SUFFICES ASSUME scan' \in [Nodes -> ScanState] PROVE TypeOK' OBVIOUS
    <2>1. CASE ScanList(n) BY <2>1 DEF ScanList
    <2>2. CASE ScanRefundToken(n)
      <3>1. PICK r \in Requests : r = scan[n].cur BY <2>2 DEF ScanRefundToken, ScanInv
      <3>2. info[r].user \in Users /\ hold[r] \in Nat BY InfoTypes
      <3>3. tokenQuota' \in [Users -> Int] /\ netToken' \in [Requests -> Int]
        BY <2>2, <3>1, <3>2 DEF ScanRefundToken
      <3> QED BY <2>2, <3>3 DEF ScanRefundToken
    <2>3. CASE ScanDelete(n) BY <2>3 DEF ScanDelete
    <2>4. ASSUME NEW r \in Requests, ScanSkip(n, r) PROVE TypeOK'
      BY <2>4 DEF ScanSkip
    <2>5. ASSUME NEW r \in Requests, ScanGet(n, r) PROVE TypeOK'
      BY <2>5 DEF ScanGet
    <2>6. CASE ScanRefundUser(n)
      <3>1. PICK r \in Requests : r = scan[n].cur BY <2>6 DEF ScanRefundUser, ScanInv
      <3>2. info[r].user \in Users /\ hold[r] \in Nat BY InfoTypes
      <3> QED BY <2>6, <3>1, <3>2, SMTT(30) DEF ScanRefundUser
    <2>7. CASE ScanRefundFails(n)
      <3>1. scan[n].cur \in Requests BY <2>7 DEF ScanRefundFails, ScanInv
      <3> QED BY <2>7, <3>1 DEF ScanRefundFails
    <2> QED BY <2>1, <2>2, <2>3, <2>4, <2>5, <2>6, <2>7 DEF Scan
  <1>b. inflight \in SUBSET Requests BY DEF TypeOK
  <1> USE ScanStateType, ScanTypes DEF ScanStep
  <1>1. CASE ScanList(n)
    <2>1. scan' = [scan EXCEPT ![n].keys = inflight, ![n].step = "next"]
      BY <1>1 DEF ScanList
    <2> QED BY <1>a, <1>b, <2>1
  <1>2. CASE ScanRefundToken(n)
    <2>1. scan' = [scan EXCEPT ![n].step = "delete"] BY <1>2 DEF ScanRefundToken
    <2> QED BY <1>a, <2>1
  <1>3. CASE ScanDelete(n) \/ ScanRefundFails(n)
    <2>1. scan' = [scan EXCEPT ![n].cur = NoRequest, ![n].step = "next"]
      BY <1>3 DEF ScanDelete, ScanRefundFails
    <2> QED BY <1>a, <2>1
  <1>4. ASSUME NEW r \in Requests, ScanSkip(n, r) PROVE TypeOK'
    BY <1>a, <1>4, SkipFrame
  <1>5. ASSUME NEW r \in Requests, ScanGet(n, r) PROVE TypeOK'
    <2>1. PICK keys \in SUBSET Requests : keys = scan[n].keys \ {r} OBVIOUS
    <2>2. scan' = [scan EXCEPT ![n].keys = keys, ![n].cur = r, ![n].step = "user"]
      BY <1>5, <2>1 DEF ScanGet, TypeOK
    <2> QED BY <1>a, <2>2
  <1>6. CASE ScanRefundUser(n)
    <2>1. scan' = [scan EXCEPT ![n].step = "token"] BY <1>6 DEF ScanRefundUser
    <2> QED BY <1>a, <2>1
  <1> QED BY <1>1, <1>2, <1>3, <1>4, <1>5, <1>6 DEF Scan

LEMMA TypeNext == ASSUME TypeOK, ScanInv, [Next]_vars PROVE TypeOK'
  <1>1. ASSUME NEW r \in Requests, Handle(r) PROVE TypeOK' BY <1>1, TypeHandle
  <1>2. ASSUME NEW r \in Requests, Expire(r) PROVE TypeOK'
    BY <1>2 DEF Expire, TypeOK, dbVars, reqVars, nodeVars, histVars
  <1>3. ASSUME NEW n \in Nodes, Crash(n) PROVE TypeOK'
    BY <1>3 DEF Crash, TypeOK, dbVars, histVars, PC, Ended, ScanIdle, ScanState,
       ScanStep
  <1>4. ASSUME NEW n \in Nodes, Start(n) PROVE TypeOK'
    <2>1. scan' = [scan EXCEPT ![n].step = "list"] BY <1>4 DEF Start
    <2>2. scan' \in [Nodes -> ScanState]
      BY <2>1, ScanStateType, ScanTypes DEF ScanStep
    <2> QED BY <1>4, <2>2, ModeAssumption DEF Start, TypeOK, dbVars, reqVars, histVars
  <1>5. ASSUME NEW n \in Nodes, Scan(n) PROVE TypeOK' BY <1>5, TypeScan
  <1>6. CASE UNCHANGED vars
    BY <1>6 DEF vars, TypeOK, dbVars, reqVars, nodeVars, histVars
  <1> QED BY <1>1, <1>2, <1>3, <1>4, <1>5, <1>6 DEF Next
(***************************************************************************)
(* The inductive invariant                                                 *)
(***************************************************************************)
\* A step of one handler changes nothing of another request.
SameRequest(q) ==
    /\ pc'[q] = pc[q] /\ hold'[q] = hold[q] /\ cost'[q] = cost[q]
    /\ net'[q] = net[q] /\ netToken'[q] = netToken[q] /\ info'[q] = info[q]
    /\ orphanRefunds'[q] = orphanRefunds[q]
    /\ (q \in inflight' <=> q \in inflight) /\ (q \in failed' <=> q \in failed)

LEMMA SameRequestInv ==
  ASSUME NEW q \in Requests, RequestInv(q), SameRequest(q) PROVE RequestInv(q)'
  BY DEF RequestInv, SameRequest, PreparedInv, BackedInv, BoundInv, ExactInv,
         Untouched, TokenPart

LEMMA HandleFrame ==
  ASSUME TypeOK, NEW r \in Requests, Handle(r)
  PROVE  /\ \A q \in Requests \ {r} : SameRequest(q)
         /\ scan' = scan /\ orphanRefunds' = orphanRefunds /\ info' = info
  <1> USE DEF TypeOK, GoTo, dbVars, nodeVars, histVars, ChargeUser, ChargeToken,
          Fails, DeleteRecord, SameRequest
  <1>1. CASE SkipPreConsume(r)
    BY <1>1 DEF SkipPreConsume
  <1>2. CASE PreConsumeNoQuota(r)
    BY <1>2 DEF PreConsumeNoQuota
  <1>3. CASE PreConsumeCheck(r)
    BY <1>3 DEF PreConsumeCheck
  <1>4. CASE PreConsumeTokenRefused(r)
    BY <1>4 DEF PreConsumeTokenRefused
  <1>5. CASE PreConsumeToken(r)
    BY <1>5 DEF PreConsumeToken
  <1>6. CASE PreConsumeUser(r)
    BY <1>6 DEF PreConsumeUser
  <1>7. CASE PreConsumeUserFails(r)
    BY <1>7 DEF PreConsumeUserFails
  <1>8. CASE RegisterInflight(r)
    BY <1>8 DEF RegisterInflight
  <1>9. CASE \E quota \in Amounts, path \in AllPaths : Consume(r, path, quota)
    BY <1>9 DEF Consume
  <1>10. CASE UpstreamFails(r)
    BY <1>10 DEF UpstreamFails
  <1>11. CASE HandlerPanics(r)
    BY <1>11 DEF HandlerPanics
  <1>12. CASE SettleUser(r)
    BY <1>12 DEF SettleUser
  <1>13. CASE SettleToken(r)
    BY <1>13 DEF SettleToken, AfterSettlement
  <1>14. CASE SettleFails(r)
    BY <1>14 DEF SettleFails, AfterSettlement
  <1>15. CASE ClearInflight(r)
    BY <1>15 DEF ClearInflight
  <1>16. CASE NothingToReturn(r)
    BY <1>16 DEF NothingToReturn
  <1>17. CASE ReturnPreConsumedQuota(r)
    BY <1>17 DEF ReturnPreConsumedQuota
  <1>18. CASE RefundUser(r)
    BY <1>18 DEF RefundUser
  <1>19. CASE RefundToken(r)
    BY <1>19 DEF RefundToken
  <1>20. CASE RefundFails(r)
    BY <1>20 DEF RefundFails
  <1> QED
    BY <1>1, <1>2, <1>3, <1>4, <1>5, <1>6, <1>7, <1>8, <1>9, <1>10, <1>11,
       <1>12, <1>13, <1>14, <1>15, <1>16, <1>17, <1>18, <1>19, <1>20
       DEF Handle, ConsumeText, ConsumeClaude, ConsumeAudio, AllPaths

LEMMA HandleInv ==
  ASSUME IInv, NEW r \in Requests, Handle(r) PROVE RequestInv(r)'
  <1> USE InfoTypes DEF IInv, TypeOK, GoTo, dbVars, nodeVars, histVars,
          ChargeUser, ChargeToken, Fails, DeleteRecord, RequestInv, PreparedInv,
          BackedInv, BoundInv, ExactInv, Untouched, TokenPart, BeforeHold, Holding
  <1>1. CASE SkipPreConsume(r)
    BY <1>1 DEF SkipPreConsume
  <1>2. CASE PreConsumeNoQuota(r)
    BY <1>2 DEF PreConsumeNoQuota
  <1>3. CASE PreConsumeCheck(r)
    BY <1>3 DEF PreConsumeCheck
  <1>4. CASE PreConsumeTokenRefused(r)
    BY <1>4 DEF PreConsumeTokenRefused
  <1>5. CASE PreConsumeToken(r)
    BY <1>5 DEF PreConsumeToken
  <1>6. CASE PreConsumeUser(r)
    BY <1>6 DEF PreConsumeUser
  <1>7. CASE PreConsumeUserFails(r)
    BY <1>7 DEF PreConsumeUserFails
  <1>8. CASE RegisterInflight(r)
    BY <1>8 DEF RegisterInflight
  <1>9. CASE \E quota \in Amounts, path \in AllPaths : Consume(r, path, quota)
    BY <1>9 DEF Consume
  <1>10. CASE UpstreamFails(r)
    BY <1>10 DEF UpstreamFails
  <1>11. CASE HandlerPanics(r)
    BY <1>11 DEF HandlerPanics
  <1>12. CASE SettleUser(r)
    BY <1>12 DEF SettleUser
  <1>13. CASE SettleToken(r)
    BY <1>13 DEF SettleToken, AfterSettlement
  <1>14. CASE SettleFails(r)
    BY <1>14 DEF SettleFails, AfterSettlement
  <1>15. CASE ClearInflight(r)
    BY <1>15 DEF ClearInflight
  <1>16. CASE NothingToReturn(r)
    BY <1>16 DEF NothingToReturn
  <1>17. CASE ReturnPreConsumedQuota(r)
    BY <1>17 DEF ReturnPreConsumedQuota
  <1>18. CASE RefundUser(r)
    BY <1>18 DEF RefundUser
  <1>19. CASE RefundToken(r)
    BY <1>19 DEF RefundToken
  <1>20. CASE RefundFails(r)
    BY <1>20 DEF RefundFails
  <1> QED
    BY <1>1, <1>2, <1>3, <1>4, <1>5, <1>6, <1>7, <1>8, <1>9, <1>10, <1>11,
       <1>12, <1>13, <1>14, <1>15, <1>16, <1>17, <1>18, <1>19, <1>20
       DEF Handle, ConsumeText, ConsumeClaude, ConsumeAudio, AllPaths
\* A scan refunds a request that is recorded, hence holds the amount; it
\* touches the payments of no other request.
LEMMA ScanStepInv ==
  ASSUME IInv, NEW n \in Nodes, Scan(n), NEW q \in Requests PROVE RequestInv(q)'
  <1> USE InfoTypes DEF IInv, TypeOK, dbVars, reqVars, histVars, ChargeUser,
          ChargeToken, Fails, DeleteRecord, RequestInv, PreparedInv, BackedInv,
          BoundInv, ExactInv, Untouched, TokenPart, BeforeHold, Holding
  <1>1. CASE ScanList(n) BY <1>1 DEF ScanList
  <1>2. CASE ScanRefundToken(n)
    <2>1. scan[n].cur \in Requests /\ orphanRefunds[scan[n].cur] > 0
      BY <1>2 DEF ScanRefundToken, ScanInv
    <2> QED BY <1>2, <2>1, SMTT(30) DEF ScanRefundToken
  <1>3. CASE ScanDelete(n) BY <1>3 DEF ScanDelete
  <1>4. ASSUME NEW r \in Requests, ScanSkip(n, r) PROVE RequestInv(q)'
    BY <1>4 DEF ScanSkip
  <1>5. ASSUME NEW r \in Requests, ScanGet(n, r) PROVE RequestInv(q)'
    BY <1>5 DEF ScanGet
  <1>6. CASE ScanRefundUser(n)
    <2>1. /\ scan[n].cur \in Requests
          /\ hold[scan[n].cur] = info[scan[n].cur].pre /\ hold[scan[n].cur] > 0
      BY <1>6 DEF ScanRefundUser, ScanInv
    <2> QED BY <1>6, <2>1, SMTT(30) DEF ScanRefundUser
  <1>7. CASE ScanRefundFails(n)
    <2>1. scan[n].cur \in Requests BY <1>7 DEF ScanRefundFails, ScanInv
    <2> QED BY <1>7, <2>1, SMTT(30) DEF ScanRefundFails
  <1> QED BY <1>1, <1>2, <1>3, <1>4, <1>5, <1>6, <1>7 DEF Scan

LEMMA ScanScanInv ==
  ASSUME IInv, NEW n \in Nodes, Scan(n) PROVE ScanInv'
  <1> USE DEF IInv, TypeOK, ScanInv, reqVars, histVars
  <1>1. CASE ScanList(n) BY <1>1 DEF ScanList
  <1>2. CASE ScanRefundToken(n) BY <1>2 DEF ScanRefundToken
  <1>3. CASE ScanDelete(n) BY <1>3 DEF ScanDelete
  <1>4. ASSUME NEW r \in Requests, ScanSkip(n, r) PROVE ScanInv'
    BY <1>4, SkipFrame
  <1>5. ASSUME NEW r \in Requests, ScanGet(n, r) PROVE ScanInv'
    BY <1>5 DEF ScanGet, RequestInv, BackedInv
  <1>6. CASE ScanRefundUser(n)
    <2>1. scan[n].cur \in Requests BY <1>6 DEF ScanRefundUser
    <2> QED BY <1>6, <2>1 DEF ScanRefundUser
  <1>7. CASE ScanRefundFails(n) BY <1>7 DEF ScanRefundFails
  <1> QED BY <1>1, <1>2, <1>3, <1>4, <1>5, <1>6, <1>7 DEF Scan

\* A handler sets the hold of its request once, to the estimate.
LEMMA HandleHold ==
  ASSUME IInv, NEW r \in Requests, Handle(r)
  PROVE  hold'[r] = hold[r] \/ (hold[r] = 0 /\ hold'[r] = info[r].pre)
  <1> USE DEF IInv, TypeOK, GoTo, RequestInv, PreparedInv, BeforeHold
  <1>1. CASE PreConsumeUser(r) BY <1>1 DEF PreConsumeUser
  <1>2. CASE ~PreConsumeUser(r)
    BY <1>2 DEF Handle, ConsumeText, ConsumeClaude, ConsumeAudio,
       SkipPreConsume, PreConsumeNoQuota, PreConsumeCheck,
       PreConsumeTokenRefused, PreConsumeToken,
       PreConsumeUserFails, RegisterInflight, Consume, UpstreamFails,
       HandlerPanics, SettleUser, SettleToken, SettleFails, ClearInflight,
       NothingToReturn, ReturnPreConsumedQuota, RefundUser, RefundToken,
       RefundFails
  <1> QED BY <1>1, <1>2

LEMMA IInvInit == Init => IInv
  BY TypeInit DEF Init, IInv, ScanInv, ScanIdle, RequestInv, PreparedInv,
     BackedInv, BoundInv, ExactInv, Untouched, TokenPart, BeforeHold, Holding

LEMMA IInvNext == IInv /\ [Next]_vars => IInv'
  <1> SUFFICES ASSUME IInv, [Next]_vars
               PROVE  ScanInv' /\ \A q \in Requests : RequestInv(q)'
    BY TypeNext DEF IInv
  <1>1. ASSUME NEW r \in Requests, Handle(r)
        PROVE  ScanInv' /\ \A q \in Requests : RequestInv(q)'
    <2>1. ScanInv'
      BY <1>1, HandleFrame, HandleHold DEF IInv, TypeOK, ScanInv, SameRequest
    <2>2. RequestInv(r)' BY <1>1, HandleInv
    <2>3. \A q \in Requests \ {r} : RequestInv(q)'
      BY <1>1, HandleFrame, SameRequestInv DEF IInv
    <2> QED BY <2>1, <2>2, <2>3
  <1>2. ASSUME NEW r \in Requests, Expire(r)
        PROVE  ScanInv' /\ \A q \in Requests : RequestInv(q)'
    BY <1>2 DEF Expire, IInv, ScanInv, dbVars, reqVars, nodeVars, histVars,
       RequestInv, PreparedInv, BackedInv, BoundInv, ExactInv, Untouched, TokenPart
  <1>3. ASSUME NEW n \in Nodes, Crash(n)
        PROVE  ScanInv' /\ \A q \in Requests : RequestInv(q)'
    <2>1. ScanInv'
      BY <1>3 DEF Crash, IInv, TypeOK, ScanInv, ScanIdle, histVars
    <2>2. ASSUME NEW q \in Requests PROVE RequestInv(q)'
      BY <1>3 DEF Crash, IInv, TypeOK, histVars, RequestInv, PreparedInv,
         BackedInv, BoundInv, ExactInv, Untouched, TokenPart, BeforeHold, Holding
    <2> QED BY <2>1, <2>2
  <1>4. ASSUME NEW n \in Nodes, Start(n)
        PROVE  ScanInv' /\ \A q \in Requests : RequestInv(q)'
    <2>1. ScanInv'
      BY <1>4 DEF Start, IInv, TypeOK, ScanInv, reqVars, histVars
    <2>2. \A q \in Requests : RequestInv(q)'
      BY <1>4, SameRequestInv DEF Start, IInv, SameRequest, reqVars, histVars
    <2> QED BY <2>1, <2>2
  <1>5. ASSUME NEW n \in Nodes, Scan(n)
        PROVE  ScanInv' /\ \A q \in Requests : RequestInv(q)'
    BY <1>5, ScanStepInv, ScanScanInv DEF IInv
  <1>6. CASE UNCHANGED vars
    <2>1. ScanInv' BY <1>6 DEF vars, IInv, ScanInv, reqVars, nodeVars, histVars
    <2>2. \A q \in Requests : RequestInv(q)'
      BY <1>6, SameRequestInv DEF vars, IInv, SameRequest, reqVars, histVars
    <2> QED BY <2>1, <2>2
  <1> QED BY <1>1, <1>2, <1>3, <1>4, <1>5, <1>6 DEF Next

(***************************************************************************)
(* The theorems                                                            *)
(***************************************************************************)
LEMMA Invariance == Spec => []IInv
  BY IInvInit, IInvNext, PTL DEF Spec

\* The variables of billing keep their types under every fault.
THEOREM TypeCorrect == Spec => []TypeOK
  <1>1. IInv => TypeOK BY DEF IInv
  <1> QED BY <1>1, Invariance, PTL

\* No user pays more for a request than its estimate or its final quota, in
\* any interleaving of handlers, refund goroutines, scans, crashes and errors.
THEOREM NeverOverchargedThm == Spec => []NeverOvercharged
  <1>1. IInv => NeverOvercharged
    BY DEF IInv, RequestInv, BoundInv, NeverOvercharged
  <1> QED BY <1>1, Invariance, PTL

\* A request that no failed update and no scan touched is settled exactly.
THEOREM SettledExactlyThm == Spec => []SettledExactly
  <1>1. IInv => SettledExactly
    BY DEF IInv, RequestInv, PreparedInv, ExactInv, SettledExactly, Untouched,
       TokenPart, BeforeHold
  <1> QED BY <1>1, Invariance, PTL

(***************************************************************************)
(* The refunds of starting nodes                                           *)
(*                                                                         *)
(* OneRefundPerStart is not inductive: a scan that has listed the records  *)
(* will refund later.  The scans that may still refund a request are       *)
(* counted with the refunds already made, and a start adds at most one.    *)
(***************************************************************************)
\* The nodes whose scan may still refund the request.
Pending(r) == {n \in Nodes : \/ scan[n].step = "list" \/ r \in scan[n].keys
                             \/ scan[n].step = "user" /\ scan[n].cur = r}

\* The record a scan works on is no longer in its list.
KeysInv ==
    \A n \in Nodes : scan[n].step = "user" => scan[n].cur \notin scan[n].keys

StartInv ==
    /\ KeysInv
    /\ \A r \in Requests : /\ IsFiniteSet(Pending(r))
                           /\ orphanRefunds[r] + Cardinality(Pending(r)) <= starts

\* A step after which no more scans are pending, and that refunds nothing.
LEMMA FewerPending ==
  ASSUME TypeOK, StartInv, NEW q \in Requests, Pending(q)' \subseteq Pending(q),
         orphanRefunds'[q] = orphanRefunds[q], starts' = starts
  PROVE  /\ IsFiniteSet(Pending(q))'
         /\ (orphanRefunds[q] + Cardinality(Pending(q)) <= starts)'
  <1>1. PICK S : S = Pending(q)' OBVIOUS
  <1>2. /\ IsFiniteSet(Pending(q))
        /\ orphanRefunds[q] + Cardinality(Pending(q)) <= starts
    BY DEF StartInv
  <1>3. IsFiniteSet(S) /\ Cardinality(S) <= Cardinality(Pending(q))
    BY <1>1, <1>2, FS_Subset
  <1>4. Cardinality(S) \in Nat /\ Cardinality(Pending(q)) \in Nat
    BY <1>2, <1>3, FS_CardinalityType
  <1>5. orphanRefunds[q] \in Nat /\ starts \in Nat BY ModeAssumption DEF TypeOK
  <1> QED BY <1>1, <1>2, <1>3, <1>4, <1>5

\* A start adds one scan.
LEMMA OneMorePending ==
  ASSUME TypeOK, StartInv, NEW n \in Nodes, Start(n), NEW q \in Requests
  PROVE  /\ IsFiniteSet(Pending(q))'
         /\ (orphanRefunds[q] + Cardinality(Pending(q)) <= starts)'
  <1>1. PICK S : S = Pending(q)' OBVIOUS
  <1>2. /\ IsFiniteSet(Pending(q))
        /\ orphanRefunds[q] + Cardinality(Pending(q)) <= starts
    BY DEF StartInv
  <1>3. S = Pending(q) \cup {n} BY <1>1 DEF Start, Pending, TypeOK
  <1>4. IsFiniteSet(S) /\ Cardinality(S) <= Cardinality(Pending(q)) + 1
    <2>1. Cardinality(Pending(q)) \in Nat BY <1>2, FS_CardinalityType
    <2>2. /\ IsFiniteSet(S)
          /\ Cardinality(S) = IF n \in Pending(q) THEN Cardinality(Pending(q))
                              ELSE Cardinality(Pending(q)) + 1
      BY <1>2, <1>3, FS_AddElement
    <2> QED BY <2>1, <2>2
  <1>5. Cardinality(S) \in Nat /\ Cardinality(Pending(q)) \in Nat
    BY <1>2, <1>4, FS_CardinalityType
  <1>6. orphanRefunds[q] \in Nat /\ starts \in Nat BY ModeAssumption DEF TypeOK
  <1>7. orphanRefunds'[q] = orphanRefunds[q] /\ starts' = starts + 1
    BY DEF Start, histVars
  <1> QED BY <1>1, <1>2, <1>4, <1>5, <1>6, <1>7

\* A refund is made by a scan that was pending and no longer is.
LEMMA RefundIsPending ==
  ASSUME TypeOK, StartInv, NEW n \in Nodes, NEW r \in Requests, ScanRefundUser(n),
         scan[n].cur = r
  PROVE  /\ IsFiniteSet(Pending(r))'
         /\ (orphanRefunds[r] + Cardinality(Pending(r)) <= starts)'
  <1>1. PICK S : S = Pending(r)' OBVIOUS
  <1>2. /\ IsFiniteSet(Pending(r))
        /\ orphanRefunds[r] + Cardinality(Pending(r)) <= starts
    BY DEF StartInv
  <1>3. S = Pending(r) \ {n} /\ n \in Pending(r)
    BY <1>1 DEF ScanRefundUser, StartInv, KeysInv, Pending, TypeOK
  <1>4. IsFiniteSet(S) /\ Cardinality(S) = Cardinality(Pending(r)) - 1
    BY <1>2, <1>3, FS_RemoveElement
  <1>5. Cardinality(S) \in Nat /\ Cardinality(Pending(r)) \in Nat
    BY <1>2, <1>4, FS_CardinalityType
  <1>6. orphanRefunds[r] \in Nat /\ starts \in Nat BY ModeAssumption DEF TypeOK
  <1>7. orphanRefunds'[r] = orphanRefunds[r] + 1 /\ starts' = starts
    BY DEF ScanRefundUser, TypeOK
  <1> QED BY <1>1, <1>2, <1>4, <1>5, <1>6, <1>7

LEMMA KeysNext == ASSUME TypeOK, KeysInv, [Next]_vars PROVE KeysInv'
  <1> USE DEF TypeOK, KeysInv
  <1>1. ASSUME NEW r \in Requests, Handle(r) PROVE KeysInv' BY <1>1, HandleFrame
  <1>2. ASSUME NEW r \in Requests, Expire(r) PROVE KeysInv'
    BY <1>2 DEF Expire, nodeVars
  <1>3. ASSUME NEW n \in Nodes, Crash(n) PROVE KeysInv' BY <1>3 DEF Crash, ScanIdle
  <1>4. ASSUME NEW n \in Nodes, Start(n) PROVE KeysInv' BY <1>4 DEF Start
  <1>5. ASSUME NEW n \in Nodes, Scan(n) PROVE KeysInv'
    <2>1. CASE ScanList(n) BY <2>1 DEF ScanList
    <2>2. CASE ScanRefundToken(n) BY <2>2 DEF ScanRefundToken
    <2>3. CASE ScanDelete(n) BY <2>3 DEF ScanDelete
    <2>4. ASSUME NEW r \in Requests, ScanSkip(n, r) PROVE KeysInv'
      BY <2>4, SkipFrame
    <2>5. ASSUME NEW r \in Requests, ScanGet(n, r) PROVE KeysInv'
      BY <2>5 DEF ScanGet
    <2>6. CASE ScanRefundUser(n) BY <2>6 DEF ScanRefundUser
    <2>7. CASE ScanRefundFails(n) BY <2>7 DEF ScanRefundFails
    <2> QED BY <1>5, <2>1, <2>2, <2>3, <2>4, <2>5, <2>6, <2>7 DEF Scan
  <1>6. CASE UNCHANGED vars BY <1>6 DEF vars, nodeVars
  <1> QED BY <1>1, <1>2, <1>3, <1>4, <1>5, <1>6 DEF Next

LEMMA StartInit == Init => StartInv
  <1> SUFFICES ASSUME Init, NEW r \in Requests
               PROVE  /\ IsFiniteSet(Pending(r))
                      /\ orphanRefunds[r] + Cardinality(Pending(r)) <= starts
    BY DEF StartInv, KeysInv, Init, ScanIdle
  <1>1. Pending(r) = {} BY DEF Init, Pending, ScanIdle
  <1> QED BY <1>1, FS_EmptySet DEF Init

LEMMA StartNext == IInv /\ StartInv /\ [Next]_vars => StartInv'
  <1> SUFFICES ASSUME TypeOK, ScanInv, StartInv, [Next]_vars, NEW q \in Requests
               PROVE  /\ IsFiniteSet(Pending(q))'
                      /\ (orphanRefunds[q] + Cardinality(Pending(q)) <= starts)'
    BY KeysNext DEF StartInv, IInv
  <1> USE DEF TypeOK, Pending, nodeVars, histVars
  <1>1. ASSUME NEW r \in Requests, Handle(r)
        PROVE  Pending(q)' \subseteq Pending(q) /\ starts' = starts
               /\ orphanRefunds'[q] = orphanRefunds[q]
    <2>1. scan' = scan /\ orphanRefunds' = orphanRefunds BY <1>1, HandleFrame
    <2>2. starts' = starts
      BY <1>1 DEF Handle, ConsumeText, ConsumeClaude, ConsumeAudio,
         SkipPreConsume, PreConsumeNoQuota, PreConsumeCheck,
         PreConsumeTokenRefused, PreConsumeToken, PreConsumeUser,
         PreConsumeUserFails, RegisterInflight, Consume, UpstreamFails,
         HandlerPanics, SettleUser, SettleToken, SettleFails, ClearInflight,
         NothingToReturn, ReturnPreConsumedQuota, RefundUser, RefundToken,
         RefundFails
    <2> QED BY <2>1, <2>2
  <1>2. ASSUME NEW r \in Requests, Expire(r)
        PROVE  Pending(q)' \subseteq Pending(q) /\ starts' = starts
               /\ orphanRefunds'[q] = orphanRefunds[q]
    BY <1>2 DEF Expire
  <1>3. ASSUME NEW n \in Nodes, Crash(n)
        PROVE  Pending(q)' \subseteq Pending(q) /\ starts' = starts
               /\ orphanRefunds'[q] = orphanRefunds[q]
    BY <1>3 DEF Crash, ScanIdle
  <1>4. ASSUME NEW n \in Nodes,
               \/ ScanList(n) \/ ScanRefundToken(n) \/ ScanDelete(n)
               \/ \E r \in Requests : ScanSkip(n, r) \/ ScanGet(n, r)
               \/ ScanRefundFails(n)
               \/ ScanRefundUser(n) /\ scan[n].cur # q
        PROVE  Pending(q)' \subseteq Pending(q) /\ starts' = starts
               /\ orphanRefunds'[q] = orphanRefunds[q]
    <2>1. CASE ScanList(n) BY <2>1 DEF ScanList
    <2>2. CASE ScanRefundToken(n) BY <2>2 DEF ScanRefundToken
    <2>3. CASE ScanDelete(n) BY <2>3 DEF ScanDelete
    <2>4. ASSUME NEW r \in Requests, ScanSkip(n, r)
          PROVE  Pending(q)' \subseteq Pending(q) /\ starts' = starts
                 /\ orphanRefunds'[q] = orphanRefunds[q]
      BY <2>4, SkipFrame DEF Pending
    <2>5. ASSUME NEW r \in Requests, ScanGet(n, r)
          PROVE  Pending(q)' \subseteq Pending(q) /\ starts' = starts
                 /\ orphanRefunds'[q] = orphanRefunds[q]
      BY <2>5 DEF ScanGet
    <2>6. CASE ScanRefundUser(n) /\ scan[n].cur # q
      <3>1. scan[n].cur \in Requests BY <2>6 DEF ScanRefundUser, ScanInv
      <3> QED BY <2>6, <3>1 DEF ScanRefundUser
    <2>7. CASE ScanRefundFails(n) BY <2>7 DEF ScanRefundFails
    <2> QED BY <1>4, <2>1, <2>2, <2>3, <2>4, <2>5, <2>6, <2>7
  <1>5. CASE UNCHANGED vars
    <2>1. Pending(q)' \subseteq Pending(q) /\ starts' = starts
          /\ orphanRefunds'[q] = orphanRefunds[q]
      BY <1>5 DEF vars
    <2> QED BY <2>1, FewerPending
  <1> HIDE DEF TypeOK, Pending, nodeVars, histVars
  <1>6. ASSUME NEW n \in Nodes, Start(n)
        PROVE  /\ IsFiniteSet(Pending(q))'
               /\ (orphanRefunds[q] + Cardinality(Pending(q)) <= starts)'
    BY <1>6, OneMorePending
  <1>7. ASSUME NEW n \in Nodes, ScanRefundUser(n), scan[n].cur = q
        PROVE  /\ IsFiniteSet(Pending(q))'
               /\ (orphanRefunds[q] + Cardinality(Pending(q)) <= starts)'
    BY <1>7, RefundIsPending
  <1> QED BY <1>1, <1>2, <1>3, <1>4, <1>5, <1>6, <1>7, FewerPending DEF Next, Scan

\* Every start of a node refunds a request at most once, in any number of
\* overlapping, repeated and interrupted scans.
THEOREM OneRefundPerStartThm == Spec => []OneRefundPerStart
  <1>1. TypeOK /\ StartInv => OneRefundPerStart
    <2> SUFFICES ASSUME TypeOK, StartInv, NEW r \in Requests
                 PROVE  orphanRefunds[r] <= starts
      BY DEF OneRefundPerStart
    <2>1. Cardinality(Pending(r)) \in Nat BY FS_CardinalityType DEF StartInv
    <2>2. orphanRefunds[r] + Cardinality(Pending(r)) <= starts BY DEF StartInv
    <2>3. orphanRefunds[r] \in Nat /\ starts \in Nat BY ModeAssumption DEF TypeOK
    <2> QED BY <2>1, <2>2, <2>3
  <1>2. IInv => TypeOK BY DEF IInv
  <1> QED BY <1>1, <1>2, StartInit, StartNext, Invariance, PTL DEF Spec
(***************************************************************************)
(* Without faults, billing implements the ledger                           *)
(***************************************************************************)
\* No node ever stops, no scan runs, no update fails.
CalmInv ==
    /\ up = Nodes /\ failed = {}
    /\ \A r \in Requests : orphanRefunds[r] = 0
    /\ \A n \in Nodes : scan[n] = ScanIdle
    /\ \A r \in Requests : pc[r] = "settleUser" => cost[r] \in Amounts

LEMMA CalmInit == Init => CalmInv
  BY DEF Init, CalmInv

LEMMA CalmNoNodeStep ==
  ASSUME Faults = {}, CalmInv, NEW n \in Nodes PROVE ~(Crash(n) \/ Start(n) \/ Scan(n))
  <1>1. scan[n].step = "next" /\ scan[n].keys = {} BY DEF CalmInv, ScanIdle
  <1> QED BY <1>1 DEF CalmInv, Crash, Start, Scan, ScanList, ScanRefundToken, ScanDelete,
     ScanSkip, ScanGet, ScanRefundUser, ScanRefundFails, ScanIdle

LEMMA CalmNext ==
  ASSUME Faults = {}, TypeOK, CalmInv, [Next]_vars PROVE CalmInv'
  <1>1. ASSUME NEW r \in Requests, Handle(r) PROVE CalmInv'
    <2>1. up' = up /\ failed' = failed
      BY <1>1 DEF Handle, ConsumeText, ConsumeClaude, ConsumeAudio,
         SkipPreConsume, PreConsumeNoQuota, PreConsumeCheck,
         PreConsumeTokenRefused, PreConsumeToken, PreConsumeUser,
         PreConsumeUserFails, RegisterInflight, Consume, UpstreamFails,
         HandlerPanics, SettleUser, SettleToken, SettleFails, ClearInflight,
         NothingToReturn, ReturnPreConsumedQuota, RefundUser, RefundToken,
         RefundFails, nodeVars, histVars, Fails
    <2>2. \A q \in Requests : pc'[q] = "settleUser" => cost'[q] \in Amounts
      <3>1. ASSUME NEW quota \in Amounts, NEW path \in AllPaths, Consume(r, path, quota)
            PROVE  \A q \in Requests : pc'[q] = "settleUser" => cost'[q] \in Amounts
        BY <3>1 DEF Consume, GoTo, TypeOK, CalmInv
      <3>2. CASE ~\E quota \in Amounts, path \in AllPaths : Consume(r, path, quota)
        BY <1>1, <3>2 DEF Handle, ConsumeText, ConsumeClaude, ConsumeAudio,
           AllPaths, SkipPreConsume, PreConsumeNoQuota,
           PreConsumeCheck, PreConsumeTokenRefused, PreConsumeToken,
           PreConsumeUser, PreConsumeUserFails, RegisterInflight, UpstreamFails,
           HandlerPanics, SettleUser, SettleToken, SettleFails, ClearInflight,
           NothingToReturn, ReturnPreConsumedQuota, RefundUser, RefundToken,
           RefundFails, AfterSettlement, GoTo, TypeOK, CalmInv
      <3> QED BY <3>1, <3>2
    <2> QED BY <1>1, <2>1, <2>2, HandleFrame DEF CalmInv
  <1>2. ASSUME NEW r \in Requests, Expire(r) PROVE CalmInv' BY <1>2 DEF Expire
  <1>3. CASE UNCHANGED vars
    BY <1>3 DEF vars, CalmInv, reqVars, nodeVars, histVars
  <1> QED BY <1>1, <1>2, <1>3, CalmNoNodeStep DEF Next

\* A change of one entry, of what was paid for it and of its owner's account
\* is a move of the ledger.
LEMMA BookStep ==
  ASSUME TypeOK, NEW r \in Requests, NEW e, NEW a \in Nat, info' = info,
         \A q \in Requests \ {r} : Entry(q)' = Entry(q), Entry(r)' = e,
         net' = [net EXCEPT ![r] = a],
         userQuota' = [userQuota EXCEPT ![info[r].user] = @ - (a - net[r])]
  PROVE  Ledger!Book(r, e, a)
  BY DEF Ledger!Book

\* What ChargeUser books.
LEMMA ChargeStep ==
  ASSUME TypeOK, NEW r \in Requests, NEW amount \in Int, NEW a \in Nat,
         ChargeUser(r, amount), net[r] + amount = a
  PROVE  /\ net' = [net EXCEPT ![r] = a]
         /\ userQuota' = [userQuota EXCEPT ![info[r].user] = @ - (a - net[r])]
  <1>1. amount = a - net[r] BY DEF TypeOK
  <1> QED BY <1>1 DEF ChargeUser

\* Holding and settling are moves of the ledger.
LEMMA LedgerMove ==
  ASSUME NEW r \in Requests, NEW a \in Amounts
  PROVE  /\ Entry(r) = "none" /\ Ledger!Book(r, "held", a) => Ledger!LedgerNext
         /\ Entry(r) # "closed" /\ Ledger!Book(r, "closed", a) => Ledger!LedgerNext
  BY DEF Ledger!LedgerNext, Ledger!Hold, Ledger!Settle

LEMMA PreAmount == ASSUME TypeOK, NEW r \in Requests PROVE info[r].pre \in Amounts
  <1>1. info[r] \in Info BY DEF TypeOK
  <1> QED BY <1>1 DEF Info

\* A step of a handler is a move of the ledger or leaves the ledger alone.
LEMMA HandleLedger ==
  ASSUME Faults = {}, IInv, CalmInv, NEW r \in Requests, Handle(r)
  PROVE  [Ledger!LedgerNext]_(Ledger!ledgerVars)
  <1> USE InfoTypes DEF IInv, TypeOK, CalmInv, GoTo, dbVars, nodeVars, histVars,
          RequestInv, PreparedInv, ExactInv, Untouched, BeforeHold, Holding,
          Entry, Closed
  <1>0. info' = info /\ \A q \in Requests \ {r} : Entry(q)' = Entry(q)
    BY HandleFrame DEF SameRequest
  <1>a. TypeOK /\ info[r].pre \in Nat /\ cost[r] \in Nat /\ hold[r] \in Nat
    OBVIOUS
  <1>1. CASE SkipPreConsume(r)
    BY <1>1 DEF SkipPreConsume, Ledger!ledgerVars
  <1>2. CASE PreConsumeNoQuota(r)
    <2>1. userQuota' = [userQuota EXCEPT ![info[r].user] = @ - (0 - net[r])]
      BY <1>2 DEF PreConsumeNoQuota
    <2>2. net' = [net EXCEPT ![r] = 0] BY <1>2 DEF PreConsumeNoQuota
    <2>3. Entry(r)' = "closed" BY <1>2 DEF PreConsumeNoQuota
    <2>4. Ledger!Book(r, "closed", 0) BY <2>1, <2>2, <2>3, <1>0, BookStep
    <2>5. Entry(r) # "closed" BY <1>2 DEF PreConsumeNoQuota
    <2> QED BY <2>4, <2>5 DEF Ledger!LedgerNext, Ledger!Cancel
  <1>3. CASE PreConsumeCheck(r)
    BY <1>3 DEF PreConsumeCheck, Ledger!ledgerVars
  <1>4. CASE PreConsumeTokenRefused(r)
    <2>1. userQuota' = [userQuota EXCEPT ![info[r].user] = @ - (0 - net[r])]
      BY <1>4 DEF PreConsumeTokenRefused
    <2>2. net' = [net EXCEPT ![r] = 0] BY <1>4 DEF PreConsumeTokenRefused
    <2>3. Entry(r)' = "closed" BY <1>4 DEF PreConsumeTokenRefused
    <2>4. Ledger!Book(r, "closed", 0) BY <2>1, <2>2, <2>3, <1>0, BookStep
    <2>5. Entry(r) # "closed" BY <1>4 DEF PreConsumeTokenRefused
    <2> QED BY <2>4, <2>5 DEF Ledger!LedgerNext, Ledger!Cancel
  <1>5. CASE PreConsumeToken(r)
    BY <1>5 DEF PreConsumeToken, Ledger!ledgerVars
  <1>6. CASE PreConsumeUser(r)
    <2>1. ChargeUser(r, info[r].pre) /\ net[r] = 0 /\ info[r].pre \in Amounts
      BY <1>6, PreAmount DEF PreConsumeUser
    <2>2. PICK a \in Amounts : a = info[r].pre BY <2>1
    <2>3. a \in Nat /\ (info[r].pre) \in Int /\ net[r] + (info[r].pre) = a
      BY <2>1, <2>2, <1>a, AmountsAssumption
    <2>4. Entry(r) = "none" /\ Entry(r)' = "held" BY <1>6, <1>0 DEF PreConsumeUser
    <2>5. /\ net' = [net EXCEPT ![r] = a]
          /\ userQuota' = [userQuota EXCEPT ![info[r].user] = @ - (a - net[r])]
      BY <2>1, <2>3, <1>a, ChargeStep
    <2>6. Ledger!Book(r, "held", a) BY <2>3, <2>4, <2>5, <1>0, <1>a, BookStep
    <2> QED BY <2>2, <2>4, <2>6, LedgerMove
  <1>7. CASE RegisterInflight(r)
    BY <1>7 DEF RegisterInflight, Ledger!ledgerVars
  <1>8. CASE \E quota \in Amounts, path \in AllPaths : Consume(r, path, quota)
    BY <1>8 DEF Consume, Ledger!ledgerVars
  <1>9. CASE UpstreamFails(r)
    BY <1>9 DEF UpstreamFails, Ledger!ledgerVars
  <1>10. CASE SettleUser(r)
    <2>1. ChargeUser(r, cost[r] - hold[r]) /\ net[r] = hold[r] /\ cost[r] \in Amounts
      BY <1>10 DEF SettleUser
    <2>2. PICK a \in Amounts : a = cost[r] BY <2>1
    <2>3. a \in Nat /\ (cost[r] - hold[r]) \in Int /\ net[r] + (cost[r] - hold[r]) = a
      BY <2>1, <2>2, <1>a, AmountsAssumption
    <2>4. Entry(r) # "closed" /\ Entry(r)' = "closed" BY <1>10, <1>0 DEF SettleUser
    <2>5. /\ net' = [net EXCEPT ![r] = a]
          /\ userQuota' = [userQuota EXCEPT ![info[r].user] = @ - (a - net[r])]
      BY <2>1, <2>3, <1>a, ChargeStep
    <2>6. Ledger!Book(r, "closed", a) BY <2>3, <2>4, <2>5, <1>0, <1>a, BookStep
    <2> QED BY <2>2, <2>4, <2>6, LedgerMove
  <1>11. CASE SettleToken(r)
    BY <1>11 DEF SettleToken, AfterSettlement, Ledger!ledgerVars
  <1>12. CASE ClearInflight(r)
    BY <1>12 DEF ClearInflight, Ledger!ledgerVars
  <1>13. CASE NothingToReturn(r)
    <2>1. userQuota' = [userQuota EXCEPT ![info[r].user] = @ - (0 - net[r])]
      BY <1>13 DEF NothingToReturn
    <2>2. net' = [net EXCEPT ![r] = 0] BY <1>13 DEF NothingToReturn
    <2>3. Entry(r)' = "closed" BY <1>13 DEF NothingToReturn
    <2>4. Ledger!Book(r, "closed", 0) BY <2>1, <2>2, <2>3, <1>0, BookStep
    <2>5. Entry(r) # "closed" BY <1>13 DEF NothingToReturn
    <2> QED BY <2>4, <2>5 DEF Ledger!LedgerNext, Ledger!Cancel
  <1>14. CASE ReturnPreConsumedQuota(r)
    BY <1>14 DEF ReturnPreConsumedQuota, Ledger!ledgerVars
  <1>15. CASE RefundUser(r)
    <2>1. ChargeUser(r, -hold[r]) BY <1>15 DEF RefundUser
    <2>2. net[r] = hold[r] BY <1>15 DEF RefundUser
    <2>3. Entry(r)' = "closed" BY <1>15, <1>0 DEF RefundUser
    <2>4. Ledger!Book(r, "closed", 0)
      <3>1. (-hold[r]) \in Int /\ net[r] + (-hold[r]) = 0 BY <2>2, <1>a
      <3>2. /\ net' = [net EXCEPT ![r] = 0]
            /\ userQuota' = [userQuota EXCEPT ![info[r].user] = @ - (0 - net[r])]
        BY <2>1, <3>1, <1>a, ChargeStep
      <3> QED BY <2>3, <3>2, <1>0, <1>a, BookStep
    <2>5. Entry(r) # "closed" BY <1>15 DEF RefundUser
    <2> QED BY <2>4, <2>5 DEF Ledger!LedgerNext, Ledger!Cancel
  <1>16. CASE RefundToken(r)
    BY <1>16 DEF RefundToken, Ledger!ledgerVars
  <1>17. CASE \/ PreConsumeUserFails(r) \/ HandlerPanics(r)
              \/ SettleFails(r) \/ RefundFails(r)
    BY <1>17 DEF PreConsumeUserFails, HandlerPanics, SettleFails, RefundFails, Fails
  <1> QED
    BY <1>1, <1>2, <1>3, <1>4, <1>5, <1>6, <1>7, <1>8, <1>9, <1>10, <1>11,
       <1>12, <1>13, <1>14, <1>15, <1>16, <1>17
       DEF Handle, ConsumeText, ConsumeClaude, ConsumeAudio, AllPaths

\* The specification without faults implements QuotaLedger.
THEOREM BillingImplementsLedger == ASSUME Faults = {} PROVE Spec => LedgerSpec
  <1>1. Init => Ledger!LedgerInit
    <2> SUFFICES ASSUME Init PROVE Ledger!LedgerInit OBVIOUS
    <2>1. TypeOK BY TypeInit
    <2> QED BY <2>1, InfoTypes DEF Init, Ledger!LedgerInit, Entry, Closed
  <1>2. IInv /\ CalmInv /\ [Next]_vars => [Ledger!LedgerNext]_(Ledger!ledgerVars)
    <2> SUFFICES ASSUME IInv, CalmInv, [Next]_vars
                 PROVE  [Ledger!LedgerNext]_(Ledger!ledgerVars)
      OBVIOUS
    <2>1. ASSUME NEW r \in Requests, Expire(r) PROVE FALSE BY <2>1 DEF Expire
    <2>2. CASE UNCHANGED vars
      BY <2>2 DEF vars, dbVars, reqVars, histVars, Ledger!ledgerVars, Entry
    <2> QED BY <2>1, <2>2, HandleLedger, CalmNoNodeStep DEF Next
  <1>3. TypeOK /\ CalmInv /\ [Next]_vars => CalmInv' BY CalmNext
  <1>4. IInv => TypeOK BY DEF IInv
  <1> QED
    BY <1>1, <1>2, <1>3, <1>4, Invariance, CalmInit, PTL
       DEF Spec, LedgerSpec, Ledger!LedgerSpec
=============================================================================
