---------------------------- MODULE RelayBilling ----------------------------
(***************************************************************************)
(* The life of the quota of a relayed request: PreConsumeQuota takes a     *)
(* hold, the upstream call succeeds or fails, and the hold is settled      *)
(* against the real cost or returned.  A Redis "inflight" record stands    *)
(* for every hold, so that a node that starts can refund the holds of      *)
(* requests that a crash cut short.                                        *)
(*                                                                         *)
(* Every access to the database or to Redis is a step of its own; the      *)
(* steps of the requests, of the refund goroutines and of the start-up     *)
(* scans interleave freely, nodes crash and start again, and database      *)
(* updates and Redis writes may fail.  The database counters are           *)
(* incremented by the statement itself (quota = quota + ?), hence exact;   *)
(* the value GetUserQuota answers comes from a cache and may be stale.     *)
(* The channel retries between the hold and its settlement touch no quota  *)
(* and are one outcome here (see ChannelRetry).                            *)
(***************************************************************************)
EXTENDS Integers, FiniteSets

CONSTANTS
    Requests,        \* request ids
    Nodes,           \* processes that share the database and Redis
    Users,           \* users; each owns one API token, and its plaintext key
                     \* is represented by the user
    UnlimitedUsers,  \* the users whose token has UnlimitedQuota
    Amounts,         \* QuotaToPreConsume and final quota of a request
    InitialQuota,    \* quota of every user and every limited token at first
    TrustQuota,      \* common.GetTrustQuota()
    StaleReads,      \* other values a stale cache may answer
    RedisEnabled,    \* common.RedisEnabled
    Paths,           \* the consumption functions in use: postConsumeQuota
                     \* ("text"), PostClaude- and PostAudioConsumeQuota
    Faults,          \* what the environment may do: "crash" a node, fail a "db"
                     \* update or a "redis" command, "expire" a record, "panic"
    MaxStarts,       \* bound: node starts after the first
    NoRequest        \* the scan is not working on a record

ASSUME AmountsAssumption == Amounts \subseteq Nat
ASSUME QuotaAssumption == /\ InitialQuota \in Int /\ TrustQuota \in Int
                          /\ StaleReads \subseteq Int
ASSUME ModeAssumption == /\ RedisEnabled \in BOOLEAN /\ MaxStarts \in Nat
                         /\ Paths \subseteq {"text", "claude", "audio"}
                         /\ Faults \subseteq {"crash", "db", "redis", "expire", "panic"}
ASSUME NoRequestAssumption == NoRequest \notin Requests

VARIABLES
    userQuota,       \* users.quota
    tokenQuota,      \* tokens.remain_quota of the user's token
    inflight,        \* requests with an "inflight:" record in Redis
    pc,              \* where the request's handler is
    info,            \* the RelayInfo fields chosen when the request arrives
    hold,            \* RelayInfo.FinalPreConsumedQuota
    cost,            \* the quota computed from the usage
    up,              \* the nodes that are running
    scan,            \* RefundOrphanedInflightQuota on each node; its field
                     \* unread is history
    starts,          \* node starts after the first (bounded by MaxStarts)
    \* history, read by no guard:
    net,             \* what the user has paid for the request so far
    netToken,        \* what the token has paid for the request so far
    orphanRefunds,   \* how often a start-up scan refunded the request
    failed           \* requests for which an update failed

dbVars    == <<userQuota, tokenQuota>>
reqVars   == <<pc, info, hold, cost>>
nodeVars  == <<up, scan, starts>>
histVars  == <<net, netToken, orphanRefunds, failed>>
vars      == <<dbVars, inflight, reqVars, nodeVars, histVars>>

(***************************************************************************)
(* Types                                                                   *)
(***************************************************************************)
\* playground: the session-authenticated /pg route, whose requests carry a
\* temporary token and have the OpenAI format; free: PriceData.FreeModel,
\* which also sets pre to 0.
Info == {i \in [user: Users, node: Nodes, playground: BOOLEAN, free: BOOLEAN,
                path: Paths, pre: Amounts] :
           /\ i.free => i.pre = 0
           /\ i.playground => i.path # "claude"}

\* The handler is running on its node, or its refund goroutine is.
Running == {"token", "deduct", "register", "sent", "settleUser",
            "settleToken", "clear", "failed", "refundUser", "refundToken"}
Ended   == {"noQuota", "noToken", "noUpdate", "done", "dead", "returned",
            "panicked", "crashed"}
PC      == {"idle"} \cup Running \cup Ended

ScanStep == {"list", "next", "user", "token", "delete"}
ScanState == [keys: SUBSET Requests, cur: Requests \cup {NoRequest},
              step: ScanStep, unread: SUBSET Requests]
ScanIdle == [keys |-> {}, cur |-> NoRequest, step |-> "next", unread |-> {}]

TypeOK ==
    /\ userQuota \in [Users -> Int]
    /\ tokenQuota \in [Users -> Int]
    /\ inflight \subseteq Requests
    /\ pc \in [Requests -> PC]
    /\ info \in [Requests -> Info]
    /\ hold \in [Requests -> Nat]
    /\ cost \in [Requests -> Nat]
    /\ up \subseteq Nodes
    /\ scan \in [Nodes -> ScanState]
    /\ starts \in 0..MaxStarts
    /\ net \in [Requests -> Int]
    /\ netToken \in [Requests -> Int]
    /\ orphanRefunds \in [Requests -> Nat]
    /\ failed \subseteq Requests

Init ==
    /\ userQuota = [u \in Users |-> InitialQuota]
    /\ tokenQuota = [u \in Users |-> InitialQuota]
    /\ inflight = {}
    /\ pc = [r \in Requests |-> "idle"]
    /\ info \in [Requests -> Info]
    /\ hold = [r \in Requests |-> 0]
    /\ cost = [r \in Requests |-> 0]
    /\ up = Nodes
    /\ scan = [n \in Nodes |-> ScanIdle]
    /\ starts = 0
    /\ net = [r \in Requests |-> 0]
    /\ netToken = [r \in Requests |-> 0]
    /\ orphanRefunds = [r \in Requests |-> 0]
    /\ failed = {}

(***************************************************************************)
(* Operators shared by the steps                                           *)
(***************************************************************************)
\* HMAC-SHA256 of a key: a one-way, collision-free function of its argument.
GenerateHMAC(x) == <<"hmac", x>>

\* tokens.key holds the hash of the plaintext key.
TokenRows == {GenerateHMAC(u) : u \in Users}

\* GetTokenByKey hashes its argument before it looks the row up.
TokenFound(key) == GenerateHMAC(key) \in TokenRows

\* TokenAuth puts token.Key, the stored hash, in the context.
TokenKey(r) == GenerateHMAC(info[r].user)

UserQuotaRead(u) == {userQuota[u]} \cup (IF RedisEnabled THEN StaleReads ELSE {})

\* The temporary token of the playground has no quota and is not unlimited.
TokenQuotaRead(r) ==
    IF info[r].playground THEN {0}
    ELSE {tokenQuota[info[r].user]} \cup (IF RedisEnabled THEN StaleReads ELSE {})

TokenUnlimited(r) == ~info[r].playground /\ info[r].user \in UnlimitedUsers

Trusted(r, quota, tokenQ) ==
    quota > TrustQuota /\ (TokenUnlimited(r) \/ tokenQ > TrustQuota)

\* DecreaseUserQuota, or IncreaseUserQuota when the amount is negative.
ChargeUser(r, amount) ==
    /\ userQuota' = [userQuota EXCEPT ![info[r].user] = @ - amount]
    /\ net' = [net EXCEPT ![r] = @ + amount]

\* Decrease- or IncreaseTokenQuota; the playground skips it.
ChargeToken(r, amount) ==
    IF info[r].playground THEN UNCHANGED <<tokenQuota, netToken>>
    ELSE /\ tokenQuota' = [tokenQuota EXCEPT ![info[r].user] = @ - amount]
         /\ netToken' = [netToken EXCEPT ![r] = @ + amount]

\* RedisDel of the record; its error is ignored.
DeleteRecord(r) ==
    \/ inflight' = inflight \ {r}
    \/ "redis" \in Faults /\ UNCHANGED inflight

GoTo(r, from, to) == pc[r] = from /\ pc' = [pc EXCEPT ![r] = to]

\* A database update for the request fails.
Fails(r) == "db" \in Faults /\ failed' = failed \cup {r}

(***************************************************************************)
(* Relay: pricing and PreConsumeQuota                                      *)
(***************************************************************************)
\* A free model skips PreConsumeQuota.
SkipPreConsume(r) ==
    /\ info[r].node \in up
    /\ info[r].free
    /\ GoTo(r, "idle", "sent")
    /\ UNCHANGED <<dbVars, inflight, info, hold, cost, nodeVars, histVars>>

\* The quota read is not positive, or smaller than the amount to hold.
PreConsumeNoQuota(r) ==
    /\ info[r].node \in up
    /\ ~info[r].free
    /\ \E quota \in UserQuotaRead(info[r].user) :
          quota <= 0 \/ quota - info[r].pre < 0
    /\ GoTo(r, "idle", "noQuota")
    /\ UNCHANGED <<dbVars, inflight, info, hold, cost, nodeVars, histVars>>

\* A trusted user (or a zero estimate) goes on without a hold; any other
\* request goes on to take one.
PreConsumeCheck(r) ==
    /\ info[r].node \in up
    /\ ~info[r].free
    /\ \E quota \in UserQuotaRead(info[r].user), tokenQ \in TokenQuotaRead(r) :
          /\ quota > 0 /\ quota - info[r].pre >= 0
          /\ \/ /\ Trusted(r, quota, tokenQ) \/ info[r].pre = 0
                /\ GoTo(r, "idle", "sent")
             \/ /\ ~Trusted(r, quota, tokenQ) /\ info[r].pre > 0
                /\ GoTo(r, "idle", "token")
    /\ UNCHANGED <<dbVars, inflight, info, hold, cost, nodeVars, histVars>>

\* PreConsumeTokenQuota answers nil: at once for the playground, else when
\* the token is found and is unlimited or has the amount.
TokenAccepts(r) ==
    \/ info[r].playground
    \/ /\ TokenFound(TokenKey(r))
       /\ TokenUnlimited(r) \/ tokenQuota[info[r].user] >= info[r].pre

PreConsumeTokenRefused(r) ==
    /\ ~TokenAccepts(r)
    /\ GoTo(r, "token", "noToken")
    /\ UNCHANGED <<dbVars, inflight, info, hold, cost, nodeVars, histVars>>

\* The check and DecreaseTokenQuota are one step, and the update does not fail:
\* with the key that TokenAuth passes on no token is found, and the playground
\* has returned before, so no request gets as far as the update.
PreConsumeToken(r) ==
    /\ TokenAccepts(r)
    /\ GoTo(r, "token", "deduct")
    /\ ChargeToken(r, info[r].pre)
    /\ UNCHANGED <<userQuota, inflight, info, hold, cost, nodeVars, net,
                   orphanRefunds, failed>>

\* DecreaseUserQuota, then FinalPreConsumedQuota is set at the end of
\* PreConsumeQuota; the field is read only after it, so it is set here.
PreConsumeUser(r) ==
    /\ GoTo(r, "deduct", "register")
    /\ ChargeUser(r, info[r].pre)
    /\ hold' = [hold EXCEPT ![r] = info[r].pre]
    /\ UNCHANGED <<tokenQuota, inflight, info, cost, nodeVars, netToken,
                   orphanRefunds, failed>>

\* The update of the user fails; the token keeps its deduction.
PreConsumeUserFails(r) ==
    /\ GoTo(r, "deduct", "noUpdate")
    /\ Fails(r)
    /\ UNCHANGED <<dbVars, inflight, info, hold, cost, nodeVars, net,
                   netToken, orphanRefunds>>

\* registerInflightRequest, after the deduction; a Redis error is logged.
RegisterInflight(r) ==
    /\ GoTo(r, "register", "sent")
    /\ \/ RedisEnabled /\ inflight' = inflight \cup {r}
       \/ (~RedisEnabled \/ "redis" \in Faults) /\ UNCHANGED inflight
    /\ UNCHANGED <<dbVars, info, hold, cost, nodeVars, histVars>>

(***************************************************************************)
(* Relay: the upstream call and what follows it                            *)
(***************************************************************************)
\* A channel answered and the consumption function computes the quota from
\* the usage and the ratios.  A free model costs nothing.
Consume(r, path, quota) ==
    /\ info[r].path = path
    /\ GoTo(r, "sent", "settleUser")
    /\ info[r].free => quota = 0
    /\ cost' = [cost EXCEPT ![r] = quota]
    /\ UNCHANGED <<dbVars, inflight, info, hold, nodeVars, histVars>>

ConsumeText(r, quota)   == Consume(r, "text", quota)
ConsumeClaude(r, quota) == Consume(r, "claude", quota)
ConsumeAudio(r, quota)  == Consume(r, "audio", quota)

\* Seeded fault: a failed relay leaves as a failed PreConsumeQuota does, before
\* the function that returns the hold is deferred.
UpstreamFails_NoReturn(r) ==
    /\ GoTo(r, "sent", "noUpdate")
    /\ UNCHANGED <<dbVars, inflight, info, hold, cost, nodeVars, histVars>>

\* No channel answered: newAPIError is set when the handler returns.
UpstreamFails(r) ==
    /\ GoTo(r, "sent", "failed")
    /\ UNCHANGED <<dbVars, inflight, info, hold, cost, nodeVars, histVars>>

\* The handler panics.  In the first try newAPIError is nil in the deferred
\* function, which returns nothing; in a retry it is the error of the try
\* before, and the hold is returned.  The recovery middleware answers.
HandlerPanics(r) ==
    /\ "panic" \in Faults
    /\ GoTo(r, "sent", "panicked") \/ GoTo(r, "sent", "failed")
    /\ UNCHANGED <<dbVars, inflight, info, hold, cost, nodeVars, histVars>>

\* Only postConsumeQuota goes on to clear the inflight record.
AfterSettlement(r) == IF info[r].path = "text" THEN "clear" ELSE "done"

\* Seeded fault: the final quota is charged on top of the hold.
SettleUser_InFull(r) ==
    /\ GoTo(r, "settleUser", "settleToken")
    /\ ChargeUser(r, cost[r])
    /\ UNCHANGED <<tokenQuota, inflight, info, hold, cost, nodeVars, netToken,
                   orphanRefunds, failed>>

\* Seeded fault: a negative difference is not given back.
SettleUser_NoGiveBack(r) ==
    /\ GoTo(r, "settleUser", "settleToken")
    /\ ChargeUser(r, IF cost[r] > hold[r] THEN cost[r] - hold[r] ELSE 0)
    /\ UNCHANGED <<tokenQuota, inflight, info, hold, cost, nodeVars, netToken,
                   orphanRefunds, failed>>

\* PostConsumeQuota(quotaDelta), first half: the user.  No call is made for a
\* zero difference, which is the same as charging 0.
SettleUser(r) ==
    /\ GoTo(r, "settleUser", "settleToken")
    /\ ChargeUser(r, cost[r] - hold[r])
    /\ UNCHANGED <<tokenQuota, inflight, info, hold, cost, nodeVars, netToken,
                   orphanRefunds, failed>>

\* Second half: the token.
SettleToken(r) ==
    /\ GoTo(r, "settleToken", AfterSettlement(r))
    /\ ChargeToken(r, cost[r] - hold[r])
    /\ UNCHANGED <<userQuota, inflight, info, hold, cost, nodeVars, net,
                   orphanRefunds, failed>>

\* Either update fails: the error is logged and the request goes on.
SettleFails(r) ==
    /\ cost[r] # hold[r]
    /\ pc[r] = "settleUser" \/ (pc[r] = "settleToken" /\ ~info[r].playground)
    /\ pc' = [pc EXCEPT ![r] = AfterSettlement(r)]
    /\ Fails(r)
    /\ UNCHANGED <<dbVars, inflight, info, hold, cost, nodeVars, net,
                   netToken, orphanRefunds>>

\* ClearInflightRequest at the end of postConsumeQuota; a Redis error is
\* ignored and leaves the record.
ClearInflight(r) ==
    /\ GoTo(r, "clear", "done")
    /\ DeleteRecord(r)
    /\ UNCHANGED <<dbVars, info, hold, cost, nodeVars, histVars>>

\* The deferred function has nothing to return.
NothingToReturn(r) ==
    /\ hold[r] = 0
    /\ GoTo(r, "failed", "dead")
    /\ UNCHANGED <<dbVars, inflight, info, hold, cost, nodeVars, histVars>>

\* ReturnPreConsumedQuota clears the record, then starts a goroutine.
ReturnPreConsumedQuota(r) ==
    /\ hold[r] # 0
    /\ GoTo(r, "failed", "refundUser")
    /\ DeleteRecord(r)
    /\ UNCHANGED <<dbVars, info, hold, cost, nodeVars, histVars>>

\* The goroutine: PostConsumeQuota(-FinalPreConsumedQuota).
RefundUser(r) ==
    /\ GoTo(r, "refundUser", "refundToken")
    /\ ChargeUser(r, -hold[r])
    /\ UNCHANGED <<tokenQuota, inflight, info, hold, cost, nodeVars, netToken,
                   orphanRefunds, failed>>

\* Seeded fault: the second half refunds the user again.
RefundToken_UserAgain(r) ==
    /\ GoTo(r, "refundToken", "returned")
    /\ ChargeUser(r, -hold[r])
    /\ UNCHANGED <<tokenQuota, inflight, info, hold, cost, nodeVars, netToken,
                   orphanRefunds, failed>>

RefundToken(r) ==
    /\ GoTo(r, "refundToken", "returned")
    /\ ChargeToken(r, -hold[r])
    /\ UNCHANGED <<userQuota, inflight, info, hold, cost, nodeVars, net,
                   orphanRefunds, failed>>

RefundFails(r) ==
    /\ pc[r] = "refundUser" \/ (pc[r] = "refundToken" /\ ~info[r].playground)
    /\ pc' = [pc EXCEPT ![r] = "returned"]
    /\ Fails(r)
    /\ UNCHANGED <<dbVars, inflight, info, hold, cost, nodeVars, net,
                   netToken, orphanRefunds>>

(***************************************************************************)
(* Nodes: crashes, starts and RefundOrphanedInflightQuota                  *)
(***************************************************************************)
\* A node dies with its handlers, its refund goroutines and its scan.
Crash(n) ==
    /\ "crash" \in Faults
    /\ n \in up
    /\ up' = up \ {n}
    /\ pc' = [r \in Requests |->
                IF info[r].node = n /\ pc[r] \in Running THEN "crashed"
                                                         ELSE pc[r]]
    /\ scan' = [scan EXCEPT ![n] = ScanIdle]
    /\ UNCHANGED <<dbVars, inflight, info, hold, cost, starts, histVars>>

\* InitResources starts RefundOrphanedInflightQuota in a goroutine, so the
\* node serves requests before the scan is over.
Start(n) ==
    /\ n \notin up
    /\ starts < MaxStarts
    /\ starts' = starts + 1
    /\ up' = up \cup {n}
    /\ scan' = [scan EXCEPT ![n].step = "list"]
    /\ UNCHANGED <<dbVars, inflight, reqVars, histVars>>


\* RedisScan lists every record there is, whichever node wrote it.
ScanList(n) ==
    /\ scan[n].step = "list"
    /\ scan' = [scan EXCEPT ![n].keys = inflight, ![n].step = "next"]
    /\ UNCHANGED <<dbVars, inflight, reqVars, up, starts, histVars>>

\* RedisGet finds no record any more, or fails.
ScanSkip(n, r) ==
    /\ scan[n].step = "next"
    /\ r \in scan[n].keys
    /\ \/ /\ r \notin inflight
          /\ scan' = [scan EXCEPT ![n].keys = @ \ {r}]
       \/ /\ "redis" \in Faults
          /\ scan' = [scan EXCEPT ![n].keys = @ \ {r}, ![n].unread = @ \cup {r}]
    /\ UNCHANGED <<dbVars, inflight, reqVars, up, starts, histVars>>

\* Seeded fault: the loop does not advance past the record.
ScanGet_Repeats(n, r) ==
    /\ scan[n].step = "next"
    /\ r \in scan[n].keys \cap inflight
    /\ scan' = [scan EXCEPT ![n].cur = r, ![n].step = "user"]
    /\ UNCHANGED <<dbVars, inflight, reqVars, up, starts, histVars>>

\* RedisGet: the record holds the user, the token and the held amount.
ScanGet(n, r) ==
    /\ scan[n].step = "next"
    /\ r \in scan[n].keys \cap inflight
    /\ scan' = [scan EXCEPT ![n].keys = @ \ {r}, ![n].cur = r, ![n].step = "user"]
    /\ UNCHANGED <<dbVars, inflight, reqVars, up, starts, histVars>>

\* The first half of PostConsumeQuota(-preConsumedQuota), whatever has become
\* of the record since.
ScanRefundUser(n) ==
    /\ scan[n].step = "user"
    /\ scan' = [scan EXCEPT ![n].step = "token"]
    /\ ChargeUser(scan[n].cur, -hold[scan[n].cur])
    /\ orphanRefunds' = [orphanRefunds EXCEPT ![scan[n].cur] = @ + 1]
    /\ UNCHANGED <<tokenQuota, inflight, reqVars, up, starts, netToken, failed>>

ScanRefundToken(n) ==
    /\ scan[n].step = "token"
    /\ scan' = [scan EXCEPT ![n].step = "delete"]
    /\ ChargeToken(scan[n].cur, -hold[scan[n].cur])
    /\ UNCHANGED <<userQuota, inflight, reqVars, up, starts, net,
                   orphanRefunds, failed>>

\* One of the two updates fails; the playground has only one.  The loop
\* continues with the next record, and this one stays in Redis.
ScanRefundFails(n) ==
    /\ \/ scan[n].step = "user"
       \/ scan[n].step = "token" /\ ~info[scan[n].cur].playground
    /\ scan' = [scan EXCEPT ![n].cur = NoRequest, ![n].step = "next"]
    /\ Fails(scan[n].cur)
    /\ UNCHANGED <<dbVars, inflight, reqVars, up, starts, net, netToken,
                   orphanRefunds>>

\* RedisDel, after the refund; its error is ignored.
ScanDelete(n) ==
    /\ scan[n].step = "delete"
    /\ scan' = [scan EXCEPT ![n].cur = NoRequest, ![n].step = "next"]
    /\ DeleteRecord(scan[n].cur)
    /\ UNCHANGED <<dbVars, reqVars, up, starts, histVars>>

\* A record outlives inflightTTL (15 minutes).
Expire(r) ==
    /\ "expire" \in Faults
    /\ r \in inflight
    /\ inflight' = inflight \ {r}
    /\ UNCHANGED <<dbVars, reqVars, nodeVars, histVars>>

(***************************************************************************)
(* The specification                                                       *)
(***************************************************************************)
\* The steps of a request's handler and of its refund goroutine.
Handle(r) ==
    \/ SkipPreConsume(r) \/ PreConsumeNoQuota(r) \/ PreConsumeCheck(r)
    \/ PreConsumeTokenRefused(r) \/ PreConsumeToken(r)
    \/ PreConsumeUser(r) \/ PreConsumeUserFails(r) \/ RegisterInflight(r)
    \/ \E quota \in Amounts : \/ ConsumeText(r, quota) \/ ConsumeClaude(r, quota)
                             \/ ConsumeAudio(r, quota)
    \/ UpstreamFails(r) \/ HandlerPanics(r)
    \/ SettleUser(r) \/ SettleToken(r) \/ SettleFails(r) \/ ClearInflight(r)
    \/ NothingToReturn(r) \/ ReturnPreConsumedQuota(r)
    \/ RefundUser(r) \/ RefundToken(r) \/ RefundFails(r)

\* The steps of a start-up scan.
Scan(n) ==
    \/ ScanList(n) \/ ScanRefundUser(n) \/ ScanRefundToken(n)
    \/ ScanRefundFails(n) \/ ScanDelete(n)
    \/ \E r \in Requests : ScanSkip(n, r) \/ ScanGet(n, r)

Next ==
    \/ \E r \in Requests : Handle(r) \/ Expire(r)
    \/ \E n \in Nodes : Crash(n) \/ Start(n) \/ Scan(n)

Spec == Init /\ [][Next]_vars

\* A handler that runs goes on, and so does a scan: the relay has timeouts on
\* the upstream call, and the Go scheduler runs every goroutine.
FairSpec ==
    /\ Spec
    /\ \A r \in Requests : WF_vars(pc[r] # "idle" /\ Handle(r))
    /\ \A n \in Nodes : WF_vars(Scan(n))

(***************************************************************************)
(* The abstract ledger, as the database rows show it: an entry is held     *)
(* from DecreaseUserQuota on and closed by the first update that settles   *)
(* or returns it, or by the refusal or failure of a request without hold.  *)
(***************************************************************************)
Closed == {"noQuota", "noToken", "noUpdate", "dead", "settleToken", "clear",
           "done", "refundToken", "returned"}

Entry(r) == IF pc[r] \in Closed THEN "closed"
            ELSE IF hold[r] > 0 THEN "held" ELSE "none"

Ledger == INSTANCE QuotaLedger WITH
    quota <- userQuota,
    owner <- [r \in Requests |-> info[r].user],
    entry <- [r \in Requests |-> Entry(r)],
    paid  <- net

\* Without faults, billing implements the ledger.
LedgerSpec == Ledger!LedgerSpec

(***************************************************************************)
(* Properties                                                              *)
(***************************************************************************)
\* Whatever crashes, fails or is repeated, a user never pays more for a
\* request than the larger of its estimate and its final quota (the hold is
\* settled by the difference, quotaDelta, and only once).
NeverOvercharged ==
    \A r \in Requests : net[r] <= hold[r] \/ net[r] <= cost[r]

\* A request that no failed update and no start-up scan touched ends with the
\* exact amount on both accounts: its final quota when it was served, nothing
\* when it was refused, failed, or was returned by the refund goroutine.
SettledExactly ==
    \A r \in Requests : r \notin failed /\ orphanRefunds[r] = 0 =>
        /\ pc[r] = "done" => /\ net[r] = cost[r]
                             /\ netToken[r] = IF info[r].playground THEN 0
                                                                   ELSE cost[r]
        /\ pc[r] \in {"noQuota", "noToken", "dead", "returned"} =>
              net[r] = 0 /\ netToken[r] = 0

\* Starting nodes refund a request at most once each, although the scan
\* refunds first and deletes the record afterwards.
OneRefundPerStart == \A r \in Requests : orphanRefunds[r] <= starts

\* pre_consume_quota.go: the scan is for "leftover inflight records (from
\* crashed nodes)".
OnlyCrashedRefunded ==
    \A r \in Requests : orphanRefunds[r] > 0 => pc[r] = "crashed"

\* pre_consume_quota.go: "We write a Redis record before deducting quota", so
\* that quota taken for a request cut short by a crash is never stuck.
CrashedHoldRecorded ==
    \A r \in Requests :
        pc[r] = "crashed" /\ net[r] > 0 /\ cost[r] = 0 => r \in inflight

\* pre_consume_quota.go: the record is written before the deduction "and
\* clear it on normal finish".
ClearedOnFinish == \A r \in Requests : pc[r] = "done" => r \notin inflight

\* quota.go: PreConsumeTokenQuota refuses a valid token with "token quota is
\* not enough", that is, when its remaining quota is below the amount.
RefusedOnlyWhenShort ==
    [][\A r \in Requests : pc[r] = "token" /\ pc'[r] = "noToken" =>
          info[r].user \notin UnlimitedUsers
          /\ tokenQuota[info[r].user] < info[r].pre]_vars

\* A hold does not outlive its request: when the handler has ended, the user
\* has paid the final quota, or nothing, whichever exit the handler took and
\* although the return runs in a goroutine after it.  Left out are a node that
\* dies, a panic in the first try, and requests an update failed for or a scan
\* refunded.
HoldEnds ==
    \A r \in Requests : hold[r] > 0 /\ pc[r] \in Running ~>
        \/ pc[r] \in {"done", "returned"} /\ net[r] = cost[r]
        \/ pc[r] \in {"crashed", "panicked"} \/ r \in failed \/ orphanRefunds[r] > 0

=============================================================================
