------------------------- MODULE OptionPagesProofs -------------------------
(***************************************************************************)
(* Proofs about the settings pages, for any sections, keys and values and  *)
(* any number of edits, saves and faults.                                  *)
(***************************************************************************)
EXTENDS OptionPages, TLAPS

(***************************************************************************)
(* The inductive invariant                                                 *)
(***************************************************************************)
\* SystemSetting writes back a snapshot, and never reads the options again.
PageInv == /\ page \in UNION {[Sections -> ps] : ps \in Parents}
           /\ \A s \in Sections : page[s].after = "local" => fetch.st = "none"

\* The keys of a save are those of its section, and a save has a number.
JobInv == \A s \in Sections : job[s].on => /\ job[s].now \cup job[s].left \subseteq Owned(s)
                                          /\ job[s].try \in 1..MaxSubmits

\* What the state of a request says of the server, and, as long as nothing was
\* lost, that the save it belongs to is still at work.
PutFine(p) ==
    /\ p.sec = Owner[p.key]
    /\ p.st = "ok" => <<p.try, p.key>> \in applied
    /\ p.st = "refused" => "refused" \in causes
    /\ "lost" \notin causes => p.st # "lost" /\ Awaited(p) /\ ~job[p.sec].waits

PutsInv == \A p \in puts : PutFine(p)

\* What a strict save has been asked for and the server has not stored is not
\* sent yet, or on its way.
OnItsWay(s, k) == \E p \in puts : /\ p.sec = s /\ p.key = k /\ p.try = job[s].try
                                  /\ p.st # "ok"

AskedFine(s) ==
    page[s].judge = "strict" /\ job[s].on /\ ~job[s].waits =>
        \A a \in asked[s] \ applied :
            a[1] = job[s].try /\ (a[2] \in job[s].left \/ OnItsWay(s, a[2]))

AskedInv == \A s \in Sections : AskedFine(s)

\* A key that may be stored by a page that sends what was changed is one that
\* was edited.
Untouched(k) == page[Owner[k]].sends = "changed" /\ k \notin mine

FormInv == \A k \in Keys : Untouched(k) => form[k] = base[k]

SendsEdited == \A p \in puts : ~Untouched(p.key)

SavesEdited(s) ==
    job[s].on => /\ \A k \in job[s].left : ~Untouched(k)
                 /\ page[s].after = "local" =>
                      \A k \in Keys : Untouched(k) => job[s].snap[k] = base[k]

EditedInv == FormInv /\ SendsEdited /\ \A s \in Sections : SavesEdited(s)

\* The values a page compares with are the server's, or will be: its save will
\* ask for a reload, a reload has not been answered, or has the new values.
Clean == causes \cap {"shared", "outside", "lost"} = {}

Follows(k) ==
    /\ Reloads(Owner[k])
    /\ "refused" \in causes => page[Owner[k]].judge = "blind"

Saving(k) == \E l \in Twins(k) : job[Owner[l]].on /\ ~job[Owner[l]].waits

Fresh(k) ==
    \/ Saving(k)
    \/ fetch.st = "sent"
    \/ fetch.st = "read" /\ fetch.val[k] = store[k]
    \/ fetch.st = "none" /\ base[k] = store[k]

FreshInv == Clean => \A k \in Keys : (\A l \in Twins(k) : Follows(l)) => Fresh(k)

IInv == /\ TypeOK /\ PageInv /\ JobInv /\ PutsInv /\ AskedInv /\ EditedInv
        /\ FreshInv /\ SavedMeansAccepted /\ NoBlindOverwrite

(***************************************************************************)
(* Facts about the pages and about one step                                *)
(***************************************************************************)
Wellformed(p) ==
    /\ p.sends \in {"changed", "all", "mixed"}
    /\ p.spin \in BOOLEAN /\ p.list \in BOOLEAN
    /\ p.after = "echo" => p.sends = "all"
    /\ p.after = "origin" => p.sends # "changed"
    /\ p.after \in {"refresh", "await", "origin"} => p.order = "parallel"

Wellmixed(ps) ==
    \A p, q \in ps : Wellformed(p) /\ (p.after = "local" => q.after = "local")

\* What the pages have in common, and those of one parent, as far as the
\* proofs need it.
LEMMA PageKinds ==
    /\ \A p \in {Blind, Strict, Whole, List, Editor, SettingsHeaderNavModules,
                 SettingsSidebarModulesAdmin, SettingsPaymentGateway,
                 SettingsPaymentGatewayStripe, SettingsPaymentGatewayCreem,
                 SettingsPaymentBankAccount, updateOption} :
         Wellformed(p) /\ p.after # "local"
    /\ \A sends \in {"changed", "all"} :
         Wellformed(updateOptions(sends)) /\ updateOptions(sends).after = "local"
<1> USE DEF Page, Wellformed
<1>1. Wellformed(Blind) /\ Blind.after # "local"
  BY DEF Blind
<1>2. Wellformed(Strict) /\ Strict.after # "local"
  BY DEF Strict
<1>3. Wellformed(Whole) /\ Whole.after # "local"
  BY DEF Whole
<1>4. Wellformed(List) /\ List.after # "local"
  BY DEF List
<1>5. Wellformed(Editor) /\ Editor.after # "local"
  BY DEF Editor
<1>6. Wellformed(SettingsHeaderNavModules) /\ SettingsHeaderNavModules.after # "local"
  BY DEF SettingsHeaderNavModules
<1>7. Wellformed(SettingsSidebarModulesAdmin) /\ SettingsSidebarModulesAdmin.after # "local"
  BY DEF SettingsSidebarModulesAdmin
<1>8. Wellformed(SettingsPaymentBankAccount) /\ SettingsPaymentBankAccount.after # "local"
  BY DEF SettingsPaymentBankAccount
<1>9. Wellformed(updateOption) /\ updateOption.after # "local"
  BY DEF updateOption
<1>10. ASSUME NEW sends \in {"changed", "all"}
       PROVE  Wellformed(updateOptions(sends)) /\ updateOptions(sends).after = "local"
  BY DEF updateOptions
<1>11. Wellformed(SettingsPaymentGateway) /\ SettingsPaymentGateway.after # "local"
  BY DEF SettingsPaymentGateway
<1>12. Wellformed(SettingsPaymentGatewayStripe) /\ SettingsPaymentGatewayStripe.after # "local"
  BY DEF SettingsPaymentGatewayStripe
<1>13. Wellformed(SettingsPaymentGatewayCreem) /\ SettingsPaymentGatewayCreem.after # "local"
  BY DEF SettingsPaymentGatewayCreem
<1> HIDE DEF Wellformed
<1> QED BY <1>1, <1>2, <1>3, <1>4, <1>5, <1>6, <1>7, <1>8, <1>9, <1>10, <1>11, <1>12, <1>13

LEMMA PageFacts == \A ps \in Parents : Wellmixed(ps)
<1>1. ASSUME NEW ps, \A p \in ps : Wellformed(p) /\ p.after # "local" PROVE Wellmixed(ps)
  BY <1>1 DEF Wellmixed
<1>2. Wellmixed(OperationSetting)
  BY <1>1, PageKinds
     DEF OperationSetting, SettingsGeneral, SettingsSensitiveWords, SettingsLog,
         SettingsMonitoring, SettingsCreditLimit
<1>3. Wellmixed(DrawingSetting) /\ Wellmixed(ChatsSetting)
  BY <1>1, PageKinds DEF DrawingSetting, SettingsDrawing, ChatsSetting, SettingsChats
<1>4. Wellmixed(DashboardSetting)
  BY <1>1, PageKinds
     DEF DashboardSetting, DataDashboard, SettingsAnnouncements, SettingsAPIInfo,
         SettingsFAQ, SettingsUptimeKuma
<1>5. Wellmixed(ModelSetting)
  BY <1>1, PageKinds
     DEF ModelSetting, SettingGlobalModel, SettingGeminiModel, SettingClaudeModel
<1>6. Wellmixed(RateLimitSetting)
  BY <1>1, PageKinds DEF RateLimitSetting, RequestRateLimit
<1>7. Wellmixed(RatioSetting)
  BY <1>1, PageKinds
     DEF RatioSetting, GroupSettings, ModelRatioSettings, GroupRatioSettings,
         ModelSettingsVisualEditor, ModelRatioNotSetEditor, UpstreamRatioSync
<1>8. Wellmixed(PaymentSetting)
  BY <1>1, PageKinds
     DEF PaymentSetting, SettingsGeneralPayment
<1>9. Wellmixed(OtherSetting)
  BY <1>1, PageKinds
     DEF OtherSetting, submitNotice, submitUserAgreement, submitPrivacyPolicy,
         submitSystemName, submitLogo, submitHomePage, submitAbout, submitFooter
<1>10. Wellmixed(SystemSetting)
  <2>1. \A p \in SystemSetting : p = updateOptions("all") \/ p = updateOptions("changed")
    BY DEF SystemSetting, submitWorker, submitServerAddress, submitSMTP,
           submitEmailDomainWhitelist, submitSSRF, submitWeChat, submitGitHubOAuth,
           submitDiscordOAuth, submitOIDCSettings, submitTelegramSettings,
           submitTurnstile, submitLinuxDOOAuth
  <2> QED BY <2>1, PageKinds DEF Wellmixed
<1> QED BY <1>2, <1>3, <1>4, <1>5, <1>6, <1>7, <1>8, <1>9, <1>10 DEF Parents

LEMMA ShownPages ==
    ASSUME PageInv
    PROVE  /\ page \in [Sections -> AllPages]
           /\ \A s, t \in Sections : /\ Wellformed(page[s])
                                     /\ page[s].after = "local" => page[t].after = "local"
<1>1. PICK ps \in Parents : page \in [Sections -> ps]
  BY DEF PageInv
<1>2. Wellmixed(ps)
  BY PageFacts
<1>3. ps \subseteq AllPages
  BY DEF AllPages
<1> QED BY <1>1, <1>2, <1>3 DEF Wellmixed

\* The keys that are sent next are some of those that are left.
LEMMA BatchFacts == \A p, left : \A now \in Batches(p, left) : now \subseteq left
BY DEF Batches

Tries == 1..MaxSubmits
Values == [Keys -> Vals]
PutType == [sec : Sections, key : Keys, val : Vals, try : Tries,
            st : {"sent", "ok", "refused", "lost"}]
JobType == [on : BOOLEAN, try : 0..MaxSubmits, now : SUBSET Keys, left : SUBSET Keys,
            bad : BOOLEAN, snap : Values, waits : BOOLEAN]
FetchType == [st : {"none", "sent", "read"}, val : Values]

\* TypeOK in the words of the types above.
LEMMA Types ==
    TypeOK => /\ store \in Values /\ base \in Values /\ form \in Values /\ theirs \in Values
              /\ puts \subseteq PutType /\ job \in [Sections -> JobType]
              /\ fetch \in FetchType /\ dirty \in [Sections -> BOOLEAN]
              /\ told \in [Sections -> Messages]
              /\ tries \in 0..MaxSubmits /\ causes \subseteq Causes /\ mine \subseteq Keys
              /\ asked \in [Sections -> SUBSET (Tries \X Keys)]
              /\ applied \subseteq Tries \X Keys
BY DEF TypeOK, Values, PutType, JobType, FetchType, Tries

LEMMA Defaults == NoValues \in Values /\ Idle \in JobType /\ NoFetch \in FetchType
<1>1. NoValues \in Values
  BY OptionAssumption DEF NoValues, Values
<1> QED BY <1>1, OptionAssumption DEF Idle, NoFetch, JobType, FetchType

LEMMA PutChanges ==
    ASSUME NEW p \in PutType, NEW st \in {"ok", "refused", "lost"}
    PROVE  /\ [p EXCEPT !.st = st] \in PutType /\ [p EXCEPT !.st = st].st = st
           /\ [p EXCEPT !.st = st].sec = p.sec /\ [p EXCEPT !.st = st].key = p.key
           /\ [p EXCEPT !.st = st].try = p.try
BY DEF PutType

\* The requests a save sends.
LEMMA RequestFacts ==
    ASSUME NEW s \in Sections, NEW try \in Tries, NEW ks \in SUBSET Keys, NEW vals \in Values
    PROVE  /\ Requests(s, try, ks, vals) \subseteq PutType
           /\ \A p \in Requests(s, try, ks, vals) :
                p.sec = s /\ p.try = try /\ p.key \in ks /\ p.st = "sent"
           /\ \A k \in ks : \E p \in Requests(s, try, ks, vals) :
                p.sec = s /\ p.try = try /\ p.key = k /\ p.st = "sent"
<1> DEFINE R(k) == [sec |-> s, key |-> k, val |-> vals[k], try |-> try, st |-> "sent"]
<1>1. \A k \in ks : /\ R(k) \in PutType
                    /\ R(k).sec = s /\ R(k).try = try /\ R(k).key = k /\ R(k).st = "sent"
  BY DEF PutType, Values
<1>2. Requests(s, try, ks, vals) = {R(k) : k \in ks}
  BY DEF Requests
<1> HIDE DEF R
<1> QED BY <1>1, <1>2

\* What becomes of a request that is answered or lost.
LEMMA BecomeFacts ==
    ASSUME TypeOK, NEW p \in puts, NEW st \in {"ok", "refused", "lost"}
    PROVE  /\ Become(p, st) \subseteq PutType
           /\ \A n \in Become(p, st) :
                \/ n \in puts
                \/ /\ Awaited(p) /\ n.st = st
                   /\ n.sec = p.sec /\ n.key = p.key /\ n.try = p.try
           /\ \A n \in puts : n # p => n \in Become(p, st)
           /\ Awaited(p) => \E n \in Become(p, st) :
                n.st = st /\ n.sec = p.sec /\ n.key = p.key /\ n.try = p.try
<1>1. p \in PutType /\ puts \subseteq PutType
  BY Types
<1>2. PICK n : n = [p EXCEPT !.st = st]
  OBVIOUS
<1>3. n \in PutType /\ n.st = st /\ n.sec = p.sec /\ n.key = p.key /\ n.try = p.try
  BY <1>1, <1>2, PutChanges
<1>4. Become(p, st) = IF Awaited(p) THEN (puts \ {p}) \cup {n} ELSE puts \ {p}
  BY <1>2 DEF Become
<1> QED BY <1>1, <1>3, <1>4

Serves(p) == Accept(p) \/ Refuse(p) \/ Lose(p)

LEMMA ServesFacts ==
    ASSUME NEW p \in puts, Serves(p)
    PROVE  /\ UNCHANGED <<page, base, form, dirty, job, fetch, told, tries, edits, mine,
                          theirs, asked>>
           /\ p.st = "sent" /\ causes \subseteq causes'
           /\ Store(p) \/ UNCHANGED <<store, applied>>
           /\ \E st \in {"ok", "refused", "lost"} :
                /\ puts' = Become(p, st)
                /\ st = "ok" => Store(p)
                /\ st # "ok" => st \in causes'
<1> USE DEF Serves, hist, Fault
<1>1. CASE Accept(p)
  BY <1>1 DEF Accept
<1>2. CASE Refuse(p)
  BY <1>2 DEF Refuse
<1>3. CASE Lose(p)
  BY <1>3 DEF Lose
<1> QED BY <1>1, <1>2, <1>3

\* A save that goes on has a number.
LEMMA SentIsKeys == ASSUME TypeOK, NEW s \in Sections PROVE Sent(s) \subseteq Owned(s) /\ Owned(s) \subseteq Keys
BY DEF Sent, Changed, Owned

\* What a save the user starts does, whether with the button or a checkbox.
Starts(s) == Submit(s) \/ \E k \in Keys, v \in Vals : Check(s, k, v)

Started(s, ks, now, n) ==
    /\ now \subseteq ks
    /\ ks \subseteq Sent(s) \/ ks \subseteq mine'
    /\ asked' = [asked EXCEPT ![s] = {<<tries + 1, k>> : k \in ks}]
    /\ n.on /\ n.try = tries + 1 /\ ~n.waits /\ n.now = now
    /\ n.left = ks \ now /\ n.snap = form'
    /\ job' = [job EXCEPT ![s] = n]
    /\ puts' = puts \cup Requests(s, tries + 1, now, form')
    /\ tries + 1 \in Tries

LEMMA BeginFacts ==
    ASSUME TypeOK, NEW s \in Sections, NEW ks, ks \subseteq Owned(s), NEW vals \in Values,
           Begin(s, ks, vals)
    PROVE  \E now \in SUBSET ks :
             LET n == [on |-> TRUE, try |-> tries + 1, now |-> now,
                       left |-> ks \ now, bad |-> FALSE, snap |-> vals,
                       waits |-> FALSE]
             IN  /\ job' = [job EXCEPT ![s] = n] /\ n \in JobType
                 /\ puts' = puts \cup Requests(s, tries + 1, now, vals)
                 /\ tries + 1 \in Tries /\ now \in SUBSET Keys
<1>1. tries + 1 \in Tries /\ tries + 1 \in 0..MaxSubmits
  BY Types, OptionAssumption DEF Begin, Tries
<1>2. PICK now \in Batches(page[s], ks) :
        /\ job' = [job EXCEPT ![s] =
                     [on |-> TRUE, try |-> tries + 1, now |-> now,
                      left |-> ks \ now, bad |-> FALSE, snap |-> vals,
                      waits |-> FALSE]]
        /\ puts' = puts \cup Requests(s, tries + 1, now, vals)
  BY DEF Begin
<1>3. now \subseteq ks /\ now \subseteq Keys /\ ks \subseteq Keys
  BY BatchFacts DEF Owned
<1>4. [on |-> TRUE, try |-> tries + 1, now |-> now, left |-> ks \ now, bad |-> FALSE,
       snap |-> vals, waits |-> FALSE] \in JobType
  BY <1>1, <1>3 DEF JobType
<1> QED BY <1>1, <1>2, <1>3, <1>4

LEMMA StartFacts ==
    ASSUME TypeOK, NEW s \in Sections, Starts(s)
    PROVE  /\ UNCHANGED <<page, store, base, dirty, fetch, faults, causes, applied, theirs>>
           /\ ~job[s].on /\ form' \in Values /\ mine \subseteq mine' /\ mine' \subseteq Keys
           /\ tries' = tries + 1 /\ edits' \in 0..MaxEdits
           /\ told' = [told EXCEPT ![s] = "none"]
           /\ \E ks \in SUBSET Owned(s), now \in SUBSET Keys, n \in JobType :
                Started(s, ks, now, n)
<1>0. form \in Values /\ mine \subseteq Keys /\ edits \in 0..MaxEdits /\ Sent(s) \subseteq Owned(s)
  BY Types, SentIsKeys DEF TypeOK
<1>1. /\ ~job[s].on /\ form' \in Values /\ mine \subseteq mine' /\ mine' \subseteq Keys
      /\ edits' \in 0..MaxEdits
      /\ \E ks \in SUBSET Owned(s) :
           Begin(s, ks, form') /\ (ks \subseteq Sent(s) \/ ks \subseteq mine')
  <2>1. CASE Submit(s)
    BY <1>0, <2>1 DEF Submit, CanSubmit
  <2>2. ASSUME NEW k \in Keys, NEW v \in Vals, Check(s, k, v)
        PROVE  /\ ~job[s].on /\ form' \in Values /\ mine \subseteq mine' /\ mine' \subseteq Keys
               /\ edits' \in 0..MaxEdits
               /\ \E ks \in SUBSET Owned(s) :
                    Begin(s, ks, form') /\ (ks \subseteq Sent(s) \/ ks \subseteq mine')
    <3>1. ~job[s].on /\ {k} \in SUBSET Owned(s) /\ {k} \subseteq mine' /\ Begin(s, {k}, form')
      BY <2>2 DEF Check, CanSubmit
    <3>2. form' \in Values /\ mine \subseteq mine' /\ mine' \subseteq Keys /\ edits' \in 0..MaxEdits
      BY <1>0, <2>2, OptionAssumption DEF Check, Values
    <3> QED BY <3>1, <3>2
  <2> QED BY <2>1, <2>2 DEF Starts
<1>2. PICK ks \in SUBSET Owned(s), vals \in Values :
        Begin(s, ks, vals) /\ vals = form' /\ (ks \subseteq Sent(s) \/ ks \subseteq mine')
  BY <1>1
<1>3. PICK now \in SUBSET ks :
        LET n == [on |-> TRUE, try |-> tries + 1, now |-> now,
                  left |-> ks \ now, bad |-> FALSE, snap |-> vals,
                  waits |-> FALSE]
        IN  /\ job' = [job EXCEPT ![s] = n] /\ n \in JobType
            /\ puts' = puts \cup Requests(s, tries + 1, now, vals)
            /\ tries + 1 \in Tries /\ now \in SUBSET Keys
  BY <1>2, BeginFacts
<1>4. PICK n : n = [on |-> TRUE, try |-> tries + 1, now |-> now, left |-> ks \ now,
                    bad |-> FALSE, snap |-> vals, waits |-> FALSE]
  OBVIOUS
<1>5. /\ n \in JobType /\ n.on /\ n.try = tries + 1 /\ ~n.waits /\ n.now = now
      /\ n.left = ks \ now /\ n.snap = form'
  BY <1>2, <1>3, <1>4
<1>6. /\ job' = [job EXCEPT ![s] = n]
      /\ puts' = puts \cup Requests(s, tries + 1, now, form')
      /\ tries + 1 \in Tries /\ now \in SUBSET Keys
  BY <1>2, <1>3, <1>4
<1>7. /\ UNCHANGED <<page, store, base, dirty, fetch, faults, causes, applied, theirs>>
      /\ tries' = tries + 1 /\ told' = [told EXCEPT ![s] = "none"]
      /\ asked' = [asked EXCEPT ![s] = {<<tries + 1, k>> : k \in ks}]
  BY <1>2 DEF Begin
<1>8. Started(s, ks, now, n)
  BY <1>2, <1>5, <1>6, <1>7 DEF Started
<1> QED BY <1>1, <1>3, <1>5, <1>6, <1>7, <1>8

\* How a save that goes on changes its requests: those of its own that were
\* answered are forgotten.
LEMMA UnreadFacts ==
    ASSUME NEW s \in Sections
    PROVE  /\ Unread(s) \subseteq puts
           /\ \A p \in puts : p \notin Unread(s) =>
                p.sec = s /\ p.try = job[s].try /\ p.st # "sent"
           /\ \A p \in Unread(s) : p.sec = s /\ p.try = job[s].try => p.st = "sent"
BY DEF Unread, Mine

LEMMA StatesFacts ==
    ASSUME NEW s \in Sections, NEW p \in puts, p.sec = s, p.try = job[s].try
    PROVE  p.st \in States(s)
BY DEF States, Mine

LEMMA NextBatchFacts ==
    ASSUME TypeOK, NEW s \in Sections, NextBatch(s)
    PROVE  \E now \in SUBSET job[s].left :
             /\ job[s].try \in 0..MaxSubmits /\ job[s].snap \in Values /\ now \in SUBSET Keys
             /\ puts' = Unread(s) \cup Requests(s, job[s].try, now, job[s].snap)
             /\ job'[s] \in JobType /\ job' = [job EXCEPT ![s] = job'[s]]
             /\ job'[s].on = job[s].on /\ job'[s].try = job[s].try
             /\ job'[s].snap = job[s].snap /\ job'[s].waits = job[s].waits
             /\ job'[s].now = now /\ job'[s].left = job[s].left \ now
<1>1. PICK now \in Batches(page[s], job[s].left) :
        /\ job' = [job EXCEPT ![s].now = now,
                              ![s].left = job[s].left \ now,
                              ![s].bad = Refused(s)]
        /\ puts' = Unread(s) \cup Requests(s, job[s].try, now, job[s].snap)
  BY DEF NextBatch
<1>2. job \in [Sections -> JobType] /\ job[s] \in JobType
  BY Types
<1>3. now \subseteq job[s].left /\ now \subseteq Keys
  BY <1>2, BatchFacts DEF JobType
<1>4. PICK n : n = [job[s] EXCEPT !.now = now, !.left = job[s].left \ now, !.bad = Refused(s)]
  OBVIOUS
<1>5. Refused(s) \in BOOLEAN
  BY <1>2 DEF Refused, JobType
<1>6. /\ n \in JobType /\ n.on = job[s].on /\ n.try = job[s].try /\ n.snap = job[s].snap
      /\ n.waits = job[s].waits /\ n.now = now /\ n.left = job[s].left \ now
  BY <1>2, <1>3, <1>4, <1>5 DEF JobType
<1>7. job' = [job EXCEPT ![s] = n]
  BY <1>1, <1>2, <1>4
<1>8. job'[s] = n
  BY <1>2, <1>7
<1> QED BY <1>1, <1>2, <1>3, <1>6, <1>7, <1>8 DEF JobType

\* The end of a save.
LEMMA FinishFacts ==
    ASSUME TypeOK, NEW s \in Sections, Finish(s)
    PROVE  /\ Written(s) \in Values /\ Rebased(s) \in Values /\ Verdict(s) \in Messages
           /\ job'[s] \in JobType /\ job' = [job EXCEPT ![s] = job'[s]]
           /\ job'[s].on => job'[s].waits /\ job'[s].try = job[s].try
                            /\ job'[s].now = job[s].now /\ job'[s].left = job[s].left
                            /\ job'[s].snap = job[s].snap /\ page[s].after = "await"
           /\ fetch' \in FetchType /\ causes \subseteq causes' /\ causes' \subseteq Causes
<1>1. job \in [Sections -> JobType] /\ job[s] \in JobType /\ fetch \in FetchType
        /\ causes \subseteq Causes /\ form \in Values /\ base \in Values
  BY Types
<1>2. Written(s) \in Values /\ Rebased(s) \in Values
  BY <1>1 DEF Written, Rebased, Values, JobType
<1>3. Verdict(s) \in Messages
  BY DEF Verdict, Messages
<1>4. PICK n : n = IF page[s].after = "await" THEN [job[s] EXCEPT !.waits = TRUE] ELSE Idle
  OBVIOUS
<1>5. job' = [job EXCEPT ![s] = n] /\ job'[s] = n
  BY <1>1, <1>4 DEF Finish
<1>6. n \in JobType /\ (n.on => n.waits /\ n.try = job[s].try /\ n.now = job[s].now
                                /\ n.left = job[s].left /\ n.snap = job[s].snap
                                /\ page[s].after = "await")
  <2>1. CASE page[s].after = "await"
    BY <1>1, <1>4, <2>1 DEF JobType
  <2>2. CASE page[s].after # "await"
    BY <1>4, <2>2, Defaults DEF Idle
  <2> QED BY <2>1, <2>2
<1>7. fetch' \in FetchType
  <2>1. [st |-> "sent", val |-> NoValues] \in FetchType
    BY Defaults DEF FetchType
  <2> QED BY <1>1, <2>1 DEF Finish, StartFetch
<1>8. causes \subseteq causes' /\ causes' \subseteq Causes
  BY <1>1 DEF Finish, StartFetch, Causes
<1> QED BY <1>2, <1>3, <1>5, <1>6, <1>7, <1>8

\* The saves that have waited for the reload are over.
LEMMA ReleasedFacts ==
    ASSUME TypeOK
    PROVE  /\ Released \in [Sections -> JobType]
           /\ \A s \in Sections : \/ Released[s] = job[s]
                                  \/ job[s].waits /\ Released[s] = Idle
           /\ \A s \in Sections : ~job[s].waits => Released[s] = job[s]
BY Types, Defaults DEF Released

LEMMA TypeInit == Init => TypeOK
<1> SUFFICES ASSUME Init PROVE TypeOK
  OBVIOUS
<1>1. page \in [Sections -> AllPages]
  BY DEF Init, AllPages
<1>2. job \in [Sections -> JobType] /\ fetch \in FetchType
  BY Defaults DEF Init
<1>3. store \in Values /\ base \in Values /\ form \in Values /\ theirs \in Values
  BY OptionAssumption DEF Init, Values
<1>4. /\ dirty \in [Sections -> BOOLEAN] /\ told \in [Sections -> Messages]
      /\ asked \in [Sections -> SUBSET (Tries \X Keys)]
  BY DEF Init, Messages
<1>5. edits \in 0..MaxEdits /\ tries \in 0..MaxSubmits /\ faults \in 0..MaxFaults
  BY OptionAssumption DEF Init
<1>6. puts = {} /\ causes = {} /\ mine = {} /\ applied = {}
  BY DEF Init
<1> QED BY <1>1, <1>2, <1>3, <1>4, <1>5, <1>6
        DEF TypeOK, JobType, FetchType, Values, Tries

LEMMA TypeUser ==
    ASSUME TypeOK, PageInv, NEW s \in Sections,
           \/ \E k \in Keys, v \in Vals : Edit(s, k, v)
           \/ SubmitNothing(s) \/ Starts(s)
    PROVE  TypeOK'
<1> USE OptionAssumption
<1>1. ASSUME NEW k \in Keys, NEW v \in Vals, Edit(s, k, v) PROVE TypeOK'
  <2>1. page[s].list \in BOOLEAN
    BY ShownPages DEF Wellformed
  <2>2. dirty' \in [Sections -> BOOLEAN]
    BY <1>1, <2>1 DEF Edit, TypeOK
  <2>3. form' \in Values /\ mine' \subseteq Keys /\ edits' \in 0..MaxEdits
    BY <1>1 DEF Edit, TypeOK, Values
  <2> QED BY <1>1, <2>2, <2>3 DEF Edit, TypeOK, Values
<1>2. CASE SubmitNothing(s)
  <2>1. told' \in [Sections -> Messages]
    BY <1>2 DEF SubmitNothing, TypeOK, Messages
  <2> QED BY <1>2, <2>1 DEF SubmitNothing, TypeOK, hist
<1>3. CASE Starts(s)
  <2>0. PICK ks \in SUBSET Owned(s), now \in SUBSET Keys, n \in JobType : Started(s, ks, now, n)
    BY <1>3, StartFacts
  <2>1. /\ now \subseteq ks
        /\ asked' = [asked EXCEPT ![s] = {<<tries + 1, k>> : k \in ks}]
        /\ job' = [job EXCEPT ![s] = n]
        /\ puts' = puts \cup Requests(s, tries + 1, now, form')
        /\ tries + 1 \in Tries
    BY <2>0 DEF Started
  <2>2. job' \in [Sections -> JobType]
    BY <2>1, Types
  <2>3. puts' \subseteq PutType
    <3>1. PICK tr \in Tries, v \in Values : tr = tries + 1 /\ v = form'
      BY <1>3, <2>1, StartFacts
    <3> QED BY <2>1, <3>1, Types, RequestFacts
  <2>4. asked' \in [Sections -> SUBSET (Tries \X Keys)]
    BY <2>1, Types DEF Owned
  <2>5. told' \in [Sections -> Messages]
    BY <1>3, StartFacts DEF TypeOK, Messages
  <2>6. tries' \in 0..MaxSubmits
    BY <1>3, <2>1, StartFacts DEF Tries
  <2>7. /\ UNCHANGED <<page, store, base, dirty, fetch, faults, causes, applied, theirs>>
        /\ form' \in Values /\ mine' \subseteq Keys /\ edits' \in 0..MaxEdits
    BY <1>3, StartFacts
  <2> QED BY <2>2, <2>3, <2>4, <2>5, <2>6, <2>7 DEF TypeOK, JobType, PutType, Values, Tries
<1> QED BY <1>1, <1>2, <1>3

LEMMA TypeServer ==
    ASSUME TypeOK, \/ \E p \in puts : Serves(p)
                   \/ \E k \in Keys, v \in Vals : WriteOutside(k, v)
                   \/ ReadOptions \/ TakeOptions \/ LoseOptions
    PROVE  TypeOK'
<1> USE OptionAssumption
<1>1. ASSUME NEW p \in puts, Serves(p) PROVE TypeOK'
  <2>1. UNCHANGED <<page, base, form, dirty, job, fetch, told, tries, edits, mine,
                    theirs, asked>>
    BY <1>1, ServesFacts
  <2>2. puts' \subseteq PutType
    BY <1>1, ServesFacts, BecomeFacts
  <2>3. store' \in Values /\ applied' \subseteq Tries \X Keys
    <3>1. p.key \in Keys /\ p.val \in Vals /\ p.try \in Tries
      BY Types DEF PutType
    <3> QED BY <1>1, <3>1, ServesFacts, Types DEF Store, Put, Values
  <2>4. causes' \subseteq Causes /\ faults' \in 0..MaxFaults
    <3>1. CASE Accept(p)
      BY <3>1 DEF Accept, TypeOK, Causes
    <3>2. CASE Refuse(p)
      BY <3>2 DEF Refuse, Fault, TypeOK, Causes
    <3>3. CASE Lose(p)
      BY <3>3 DEF Lose, Fault, TypeOK, Causes
    <3> QED BY <1>1, <3>1, <3>2, <3>3 DEF Serves
  <2> QED BY <2>1, <2>2, <2>3, <2>4 DEF TypeOK, PutType, Values, Tries
<1>2. ASSUME NEW k \in Keys, NEW v \in Vals, WriteOutside(k, v) PROVE TypeOK'
  <2>1. store' \in Values /\ theirs' \in Values
    BY <1>2, Types DEF WriteOutside, Put, Values
  <2>2. causes' \subseteq Causes /\ faults' \in 0..MaxFaults
    BY <1>2 DEF WriteOutside, Fault, TypeOK, Causes
  <2> QED BY <1>2, <2>1, <2>2 DEF WriteOutside, TypeOK, Values
<1>3. CASE ReadOptions
  <2>1. fetch' \in FetchType
    BY <1>3, Types DEF ReadOptions, FetchType
  <2> QED BY <1>3, <2>1 DEF ReadOptions, TypeOK, FetchType, Values, hist
<1>4. CASE TakeOptions
  <2>1. form' \in Values /\ base' \in Values
    BY <1>4, Types DEF TakeOptions, FetchType, Values
  <2>2. job' \in [Sections -> JobType] /\ fetch' \in FetchType
    BY <1>4, ReleasedFacts, Defaults DEF TakeOptions
  <2> QED BY <1>4, <2>1, <2>2 DEF TakeOptions, TypeOK, FetchType, JobType, Values, hist
<1>5. CASE LoseOptions
  <2>1. job' \in [Sections -> JobType] /\ fetch' \in FetchType
    BY <1>5, ReleasedFacts, Defaults DEF LoseOptions
  <2>2. causes' \subseteq Causes /\ faults' \in 0..MaxFaults
    BY <1>5 DEF LoseOptions, Fault, TypeOK, Causes
  <2> QED BY <1>5, <2>1, <2>2 DEF LoseOptions, TypeOK, FetchType, JobType, Values, hist
<1> QED BY <1>1, <1>2, <1>3, <1>4, <1>5

LEMMA TypeSaves ==
    ASSUME TypeOK, JobInv, NEW s \in Sections, Goes(s)
    PROVE  TypeOK'
<1>0. /\ job \in [Sections -> JobType] /\ puts \subseteq PutType
      /\ Unread(s) \subseteq puts /\ Idle \in JobType
  BY Types, UnreadFacts, Defaults
<1>1. CASE Rejected(s)
  <2>1. told' \in [Sections -> Messages]
    BY <1>1 DEF Rejected, TypeOK, Messages
  <2>2. job' \in [Sections -> JobType] /\ puts' \subseteq PutType
    BY <1>0, <1>1 DEF Rejected
  <2> QED BY <1>1, <2>1, <2>2 DEF Rejected, TypeOK, JobType, PutType, Values, Tries, hist
<1>2. CASE StopRefused(s)
  <2>1. told' \in [Sections -> Messages] /\ dirty' \in [Sections -> BOOLEAN]
    BY <1>2 DEF StopRefused, TypeOK, Messages
  <2>2. job' \in [Sections -> JobType] /\ puts' \subseteq PutType
    BY <1>0, <1>2 DEF StopRefused
  <2> QED BY <1>2, <2>1, <2>2 DEF StopRefused, TypeOK, JobType, PutType, Values, Tries, hist
<1>3. CASE NextBatch(s)
  <2>1. job[s].try \in Tries
    BY <1>3 DEF NextBatch, Answered, JobInv, Tries
  <2>2. job' \in [Sections -> JobType]
    BY <1>0, <1>3, NextBatchFacts
  <2>3. puts' \subseteq PutType
    <3>1. PICK now \in SUBSET Keys :
            /\ job[s].snap \in Values
            /\ puts' = Unread(s) \cup Requests(s, job[s].try, now, job[s].snap)
      BY <1>3, NextBatchFacts
    <3>2. PICK t \in Tries, v \in Values : t = job[s].try /\ v = job[s].snap
      BY <2>1, <3>1
    <3> QED BY <1>0, <3>1, <3>2, RequestFacts
  <2> QED BY <1>3, <2>2, <2>3 DEF NextBatch, TypeOK, JobType, PutType, Values, Tries, hist
<1>4. CASE Finish(s)
  <2>1. /\ form' \in Values /\ base' \in Values /\ job' \in [Sections -> JobType]
        /\ fetch' \in FetchType /\ causes' \subseteq Causes
    BY <1>0, <1>4, FinishFacts DEF Finish
  <2>2. told' \in [Sections -> Messages] /\ dirty' \in [Sections -> BOOLEAN]
    <3>1. Verdict(s) \in Messages
      BY <1>4, FinishFacts
    <3> QED BY <1>4, <3>1 DEF Finish, TypeOK
  <2>3. puts' \subseteq PutType
    BY <1>0, <1>4 DEF Finish
  <2>4. UNCHANGED <<page, store, tries, faults, applied, edits, mine, theirs, asked>>
    BY <1>4 DEF Finish, hist
  <2> QED BY <2>1, <2>2, <2>3, <2>4 DEF TypeOK, JobType, PutType, FetchType, Values, Tries
<1> QED BY <1>1, <1>2, <1>3, <1>4 DEF Goes

LEMMA TypeNext == TypeOK /\ PageInv /\ JobInv /\ [Next]_vars => TypeOK'
<1> SUFFICES ASSUME TypeOK, PageInv, JobInv, [Next]_vars PROVE TypeOK'
  OBVIOUS
<1>1. CASE UNCHANGED vars
  BY <1>1 DEF vars, TypeOK
<1> QED BY <1>1, TypeUser, TypeServer, TypeSaves DEF Next, Serves, Starts

(***************************************************************************)
(* The other parts of the invariant                                        *)
(***************************************************************************)
\* A cause is never taken back, nor is what was stored or edited.
LEMMA HistoryGrows ==
    ASSUME TypeOK, [Next]_vars
    PROVE  causes \subseteq causes' /\ applied \subseteq applied' /\ mine \subseteq mine'
             /\ page' = page
<1> USE DEF hist, Fault
<1>1. ASSUME NEW s \in Sections, NEW k \in Keys, NEW v \in Vals, Edit(s, k, v)
      PROVE  causes' = causes /\ applied' = applied /\ mine \subseteq mine' /\ page' = page
  BY <1>1 DEF Edit
<1>2. ASSUME NEW s \in Sections, SubmitNothing(s) \/ Starts(s)
      PROVE  causes' = causes /\ applied' = applied /\ mine \subseteq mine' /\ page' = page
  BY <1>2, StartFacts DEF SubmitNothing
<1>3. ASSUME NEW p \in puts, Serves(p)
      PROVE  causes \subseteq causes' /\ applied \subseteq applied' /\ mine' = mine /\ page' = page
  BY <1>3, ServesFacts DEF Store
<1>4. ASSUME NEW k \in Keys, NEW v \in Vals, WriteOutside(k, v)
      PROVE  causes \subseteq causes' /\ applied' = applied /\ mine' = mine /\ page' = page
  BY <1>4 DEF WriteOutside
<1>5. ReadOptions \/ TakeOptions \/ LoseOptions =>
        causes \subseteq causes' /\ applied' = applied /\ mine' = mine /\ page' = page
  BY DEF ReadOptions, TakeOptions, LoseOptions
<1>6. ASSUME NEW s \in Sections, Rejected(s) \/ StopRefused(s) \/ NextBatch(s)
      PROVE  causes' = causes /\ applied' = applied /\ mine' = mine /\ page' = page
  BY <1>6 DEF Rejected, StopRefused, NextBatch
<1>7. ASSUME NEW s \in Sections, Finish(s)
      PROVE  causes \subseteq causes' /\ applied' = applied /\ mine' = mine /\ page' = page
  BY <1>7, FinishFacts DEF Finish
<1>8. CASE UNCHANGED vars
  BY <1>8 DEF vars
<1> QED BY <1>1, <1>2, <1>3, <1>4, <1>5, <1>6, <1>7, <1>8 DEF Next, Goes, Serves, Starts

\* Only the end of a save on a page that reloads starts to read the options.
LEMMA FetchSteps ==
    ASSUME TypeOK, [Next]_vars
    PROVE  \/ fetch' = fetch \/ fetch' = NoFetch \/ ReadOptions
           \/ \E s \in Sections : Finish(s) /\ Reloads(s)
<1>1. ASSUME NEW s \in Sections, NEW k \in Keys, NEW v \in Vals, Edit(s, k, v)
      PROVE  fetch' = fetch
  BY <1>1 DEF Edit
<1>2. ASSUME NEW s \in Sections, SubmitNothing(s) \/ Starts(s) PROVE fetch' = fetch
  BY <1>2, StartFacts DEF SubmitNothing
<1>3. ASSUME NEW p \in puts, Accept(p) \/ Refuse(p) \/ Lose(p) PROVE fetch' = fetch
  BY <1>3 DEF Accept, Refuse, Lose
<1>4. ASSUME NEW k \in Keys, NEW v \in Vals, WriteOutside(k, v) PROVE fetch' = fetch
  BY <1>4 DEF WriteOutside
<1>5. TakeOptions \/ LoseOptions => fetch' = NoFetch
  BY DEF TakeOptions, LoseOptions
<1>6. ASSUME NEW s \in Sections, Rejected(s) \/ StopRefused(s) \/ NextBatch(s)
      PROVE  fetch' = fetch
  BY <1>6 DEF Rejected, StopRefused, NextBatch
<1>7. ASSUME NEW s \in Sections, Finish(s), ~Reloads(s) PROVE fetch' = fetch
  BY <1>7 DEF Finish, Reloads
<1>8. UNCHANGED vars => fetch' = fetch
  BY DEF vars
<1> QED BY <1>1, <1>2, <1>3, <1>4, <1>5, <1>6, <1>7, <1>8 DEF Next, Goes, Starts

LEMMA PageNext == TypeOK /\ PageInv /\ [Next]_vars => PageInv'
<1> SUFFICES ASSUME TypeOK, PageInv, [Next]_vars PROVE PageInv'
  OBVIOUS
<1>0. page' = page
  BY HistoryGrows
<1>1. ASSUME NEW s \in Sections, page[s].after = "local" PROVE fetch'.st = "none"
  <2>1. fetch.st = "none"
    BY <1>1 DEF PageInv
  <2>2. NoFetch.st = "none"
    BY DEF NoFetch
  <2>3. ~ReadOptions
    BY <2>1 DEF ReadOptions
  <2>4. ASSUME NEW t \in Sections, Reloads(t) PROVE FALSE
    BY <1>1, <2>4, ShownPages DEF Reloads
  <2> QED BY <2>1, <2>2, <2>3, <2>4, FetchSteps
<1> QED BY <1>0, <1>1 DEF PageInv

\* How the saves change: they begin, send their next keys, or end; a save that
\* has asked for the reload it waits for does nothing else.
LEMMA JobSteps ==
    ASSUME TypeOK, [Next]_vars
    PROVE  \/ job' = job
           \/ \E s \in Sections : Starts(s) \/ NextBatch(s) \/ Finish(s)
           \/ \E s \in Sections : (Rejected(s) \/ StopRefused(s)) /\ job' = [job EXCEPT ![s] = Idle]
           \/ (TakeOptions \/ LoseOptions) /\ job' = Released
<1>1. ASSUME NEW s \in Sections, NEW k \in Keys, NEW v \in Vals, Edit(s, k, v)
      PROVE  job' = job
  BY <1>1 DEF Edit
<1>2. ASSUME NEW s \in Sections, SubmitNothing(s) PROVE job' = job
  BY <1>2 DEF SubmitNothing
<1>3. ASSUME NEW p \in puts, Accept(p) \/ Refuse(p) \/ Lose(p) PROVE job' = job
  BY <1>3 DEF Accept, Refuse, Lose
<1>4. ASSUME NEW k \in Keys, NEW v \in Vals, WriteOutside(k, v) PROVE job' = job
  BY <1>4 DEF WriteOutside
<1>5. TakeOptions \/ LoseOptions => job' = Released
  BY DEF TakeOptions, LoseOptions
<1>6. ASSUME NEW s \in Sections, Rejected(s) \/ StopRefused(s)
      PROVE  job' = [job EXCEPT ![s] = Idle]
  BY <1>6 DEF Rejected, StopRefused
<1>7. ReadOptions \/ UNCHANGED vars => job' = job
  BY DEF ReadOptions, vars
<1> QED BY <1>1, <1>2, <1>3, <1>4, <1>5, <1>6, <1>7 DEF Next, Goes, Starts

LEMMA JobNext == TypeOK /\ JobInv /\ [Next]_vars => JobInv'
<1> SUFFICES ASSUME TypeOK, JobInv, [Next]_vars, NEW s \in Sections, job'[s].on
             PROVE  /\ job'[s].now \cup job'[s].left \subseteq Owned(s)
                    /\ job'[s].try \in 1..MaxSubmits
  BY DEF JobInv, Owned
<1>0. job \in [Sections -> JobType]
  BY Types
<1>1. ASSUME job'[s] = job[s]
      PROVE  /\ job'[s].now \cup job'[s].left \subseteq Owned(s)
             /\ job'[s].try \in 1..MaxSubmits
  BY <1>1 DEF JobInv
<1>2. ASSUME NEW t \in Sections, Starts(t)
      PROVE  /\ job'[s].now \cup job'[s].left \subseteq Owned(s)
             /\ job'[s].try \in 1..MaxSubmits
  <2>0. PICK ks \in SUBSET Owned(t), now \in SUBSET Keys, n \in JobType : Started(t, ks, now, n)
    BY <1>2, StartFacts
  <2>1. /\ now \subseteq ks
        /\ n.try = tries + 1 /\ n.now = now /\ n.left = ks \ now
        /\ job' = [job EXCEPT ![t] = n] /\ tries + 1 \in Tries
    BY <2>0 DEF Started
  <2>2. CASE s = t
    BY <1>0, <2>1, <2>2 DEF Tries
  <2>3. CASE s # t
    BY <1>0, <1>1, <2>1, <2>3
  <2> QED BY <2>2, <2>3
<1>3. ASSUME NEW t \in Sections, NextBatch(t) \/ Finish(t)
      PROVE  /\ job'[s].now \cup job'[s].left \subseteq Owned(s)
             /\ job'[s].try \in 1..MaxSubmits
  <2>0. job' = [job EXCEPT ![t] = job'[t]]
    BY <1>3, NextBatchFacts, FinishFacts
  <2>1. CASE s # t
    BY <1>0, <1>1, <2>0, <2>1
  <2>2. CASE s = t /\ NextBatch(t)
    <3>1. PICK now \in SUBSET job[t].left :
            /\ job'[t].try = job[t].try /\ job'[t].now = now
            /\ job'[t].left = job[t].left \ now
      BY <2>2, NextBatchFacts
    <3>2. job[t].on
      BY <2>2 DEF NextBatch, Answered
    <3> QED BY <2>2, <3>1, <3>2 DEF JobInv
  <2>3. CASE s = t /\ Finish(t)
    BY <2>3, FinishFacts DEF JobInv, Finish, Answered
  <2> QED BY <1>3, <2>1, <2>2, <2>3
<1>4. ~Idle.on
  BY DEF Idle
<1>5. ASSUME NEW t \in Sections, job' = [job EXCEPT ![t] = Idle] PROVE job'[s] = job[s]
  BY <1>0, <1>4, <1>5
<1>6. ASSUME job' = Released PROVE job'[s] = job[s]
  BY <1>4, <1>6, ReleasedFacts
<1> QED BY <1>1, <1>2, <1>3, <1>5, <1>6, JobSteps

\* The steps that change the requests or the saves.
LEMMA PutSteps ==
    ASSUME [Next]_vars
    PROVE  \/ UNCHANGED <<puts, job, applied>>
           \/ \E p \in puts : Serves(p)
           \/ \E s \in Sections : Starts(s) \/ Goes(s)
           \/ (TakeOptions \/ LoseOptions) /\ UNCHANGED <<puts, applied>> /\ job' = Released
<1>1. ASSUME NEW s \in Sections, NEW k \in Keys, NEW v \in Vals, Edit(s, k, v)
      PROVE  UNCHANGED <<puts, job, applied>>
  BY <1>1 DEF Edit
<1>2. ASSUME NEW s \in Sections, SubmitNothing(s) PROVE UNCHANGED <<puts, job, applied>>
  BY <1>2 DEF SubmitNothing
<1>3. ASSUME NEW k \in Keys, NEW v \in Vals, WriteOutside(k, v)
      PROVE  UNCHANGED <<puts, job, applied>>
  BY <1>3 DEF WriteOutside
<1>4. TakeOptions \/ LoseOptions => UNCHANGED <<puts, applied>> /\ job' = Released
  BY DEF TakeOptions, LoseOptions
<1>5. ReadOptions \/ UNCHANGED vars => UNCHANGED <<puts, job, applied>>
  BY DEF ReadOptions, vars
<1> QED BY <1>1, <1>2, <1>3, <1>4, <1>5 DEF Next, Serves, Starts

\* Unless something was lost, the requests of an answered save are all read.
LEMMA AllRead ==
    ASSUME PutsInv, "lost" \notin causes, NEW s \in Sections, Answered(s),
           NEW p \in Unread(s)
    PROVE  p.sec # s
<1> SUFFICES ASSUME p.sec = s PROVE FALSE
  OBVIOUS
<1>1. p \in puts
  BY UnreadFacts
<1>2. p.try = job[s].try
  BY <1>1 DEF PutsInv, PutFine, Awaited
<1>3. p.st = "sent"
  BY <1>2, UnreadFacts
<1>4. p.st \in States(s)
  BY <1>1, <1>2, StatesFacts
<1> QED BY <1>3, <1>4 DEF Answered

\* A request that is left alone is fine as long as its save is.
LEMMA PutKept ==
    ASSUME TypeOK, [Next]_vars, NEW p, PutFine(p),
           "lost" \in causes' \/ job'[p.sec] = job[p.sec]
    PROVE  PutFine(p)'
<1>1. causes \subseteq causes' /\ applied \subseteq applied'
  BY HistoryGrows
<1> QED BY <1>1 DEF PutFine, Awaited

\* The requests of a new batch are fine.
LEMMA PutNew ==
    ASSUME NEW s \in Sections, NEW try \in Tries, NEW ks \in SUBSET Keys, NEW vals \in Values,
           ks \subseteq Owned(s), NEW p \in Requests(s, try, ks, vals),
           job'[s].on, job'[s].try = try, ~job'[s].waits
    PROVE  PutFine(p)'
<1>1. p.sec = s /\ p.try = try /\ p.key \in ks /\ p.st = "sent"
  BY RequestFacts
<1> QED BY <1>1 DEF PutFine, Awaited, Owned

LEMMA PutsNext == TypeOK /\ JobInv /\ PutsInv /\ [Next]_vars => PutsInv'
<1> SUFFICES ASSUME TypeOK, JobInv, PutsInv, [Next]_vars, NEW p \in puts'
             PROVE  PutFine(p)'
  BY DEF PutsInv
<1>0. job \in [Sections -> JobType] /\ puts \subseteq PutType
  BY Types
<1>1. ASSUME p \in puts, "lost" \in causes' \/ job'[p.sec] = job[p.sec] PROVE PutFine(p)'
  BY <1>1, PutKept DEF PutsInv
<1>2. p \in puts => p.sec \in Sections
  BY <1>0 DEF PutType
<1>3. CASE UNCHANGED <<puts, job, applied>>
  BY <1>1, <1>3
<1>4. ASSUME NEW q \in puts, Serves(q) PROVE PutFine(p)'
  <2>1. PICK st \in {"ok", "refused", "lost"} :
          /\ puts' = Become(q, st)
          /\ st = "ok" => Store(q)
          /\ st # "ok" => st \in causes'
    BY <1>4, ServesFacts
  <2>2. causes \subseteq causes' /\ job' = job
    BY <1>4, ServesFacts
  <2>3. CASE p \in puts
    BY <1>1, <2>2, <2>3
  <2>4. CASE p \notin puts
    <3>1. Awaited(q) /\ p.st = st /\ p.sec = q.sec /\ p.key = q.key /\ p.try = q.try
      BY <2>1, <2>4, BecomeFacts
    <3>2. PutFine(q)
      BY DEF PutsInv
    <3>3. st = "ok" => <<q.try, q.key>> \in applied'
      BY <2>1 DEF Store
    <3> QED BY <2>1, <2>2, <3>1, <3>2, <3>3 DEF PutFine, Awaited
  <2> QED BY <2>3, <2>4
<1>5. ASSUME NEW s \in Sections, Starts(s) PROVE PutFine(p)'
  <2>0. PICK ks \in SUBSET Owned(s), now \in SUBSET Keys, n \in JobType : Started(s, ks, now, n)
    BY <1>5, StartFacts
  <2>1. /\ now \subseteq ks
        /\ job' = [job EXCEPT ![s] = n] /\ n.on /\ n.try = tries + 1 /\ ~n.waits
        /\ puts' = puts \cup Requests(s, tries + 1, now, form')
        /\ tries + 1 \in Tries
    BY <2>0 DEF Started
  <2>2. CASE p \in puts
    <3>1. ~job[s].on
      BY <1>5, StartFacts
    <3>2. "lost" \in causes \/ p.sec # s
      BY <2>2, <3>1 DEF PutsInv, PutFine, Awaited
    <3>3. causes \subseteq causes'
      BY HistoryGrows
    <3> QED BY <1>0, <1>1, <1>2, <2>1, <2>2, <3>2, <3>3
  <2>3. CASE p \notin puts
    <3>1. now \subseteq Owned(s)
      BY <2>1
    <3>2. job'[s] = n /\ form' \in Values
      BY <1>0, <1>5, <2>1, StartFacts
    <3>3. PICK t \in Tries, v \in Values : t = tries + 1 /\ v = form'
      BY <2>1, <3>2
    <3> QED BY <2>1, <2>3, <3>1, <3>2, <3>3, PutNew
  <2> QED BY <2>2, <2>3
<1>6. ASSUME NEW s \in Sections, Answered(s), job' = [job EXCEPT ![s] = job'[s]],
             p \in Unread(s)
      PROVE  PutFine(p)'
  <2>1. p \in puts
    BY <1>6, UnreadFacts
  <2>2. "lost" \in causes \/ p.sec # s
    BY <1>6, AllRead
  <2>3. causes \subseteq causes'
    BY HistoryGrows
  <2> QED BY <1>0, <1>1, <1>2, <1>6, <2>1, <2>2, <2>3
<1>7. ASSUME NEW s \in Sections, Rejected(s) PROVE PutFine(p)'
  <2>1. "lost" \in causes
    BY <1>7 DEF Rejected, States, Mine, PutsInv, PutFine
  <2>2. causes' = causes /\ p \in puts
    BY <1>7, UnreadFacts DEF Rejected
  <2> QED BY <1>1, <2>1, <2>2
<1>8. ASSUME NEW s \in Sections, StopRefused(s) PROVE PutFine(p)'
  <2>1. Answered(s) /\ job' = [job EXCEPT ![s] = Idle] /\ p \in Unread(s)
    BY <1>8 DEF StopRefused
  <2>2. job' = [job EXCEPT ![s] = job'[s]]
    BY <1>0, <2>1
  <2> QED BY <1>6, <2>1, <2>2
<1>9. ASSUME NEW s \in Sections, Finish(s) PROVE PutFine(p)'
  <2>1. Answered(s) /\ p \in Unread(s)
    BY <1>9 DEF Finish
  <2>2. job' = [job EXCEPT ![s] = job'[s]]
    BY <1>9, FinishFacts
  <2> QED BY <1>6, <2>1, <2>2
<1>10. ASSUME NEW s \in Sections, NextBatch(s) PROVE PutFine(p)'
  <2>1. PICK now \in SUBSET job[s].left :
          /\ job[s].snap \in Values /\ now \in SUBSET Keys
          /\ puts' = Unread(s) \cup Requests(s, job[s].try, now, job[s].snap)
          /\ job' = [job EXCEPT ![s] = job'[s]]
          /\ job'[s].on = job[s].on /\ job'[s].try = job[s].try
          /\ job'[s].waits = job[s].waits
    BY <1>10, NextBatchFacts
  <2>2. Answered(s) /\ job[s].on /\ ~job[s].waits
    BY <1>10 DEF NextBatch, Answered
  <2>3. CASE p \in Unread(s)
    BY <1>6, <2>1, <2>2, <2>3
  <2>4. CASE p \notin Unread(s)
    <3>1. now \subseteq Owned(s) /\ job[s].try \in Tries
      BY <2>1, <2>2 DEF JobInv, Tries
    <3>2. PICK t \in Tries, v \in Values : t = job[s].try /\ v = job[s].snap
      BY <2>1, <3>1
    <3>3. p \in Requests(s, t, now, v) /\ job'[s].on /\ job'[s].try = t /\ ~job'[s].waits
      BY <2>1, <2>2, <2>4, <3>2
    <3> QED BY <2>1, <3>1, <3>3, PutNew
  <2> QED BY <2>3, <2>4
<1>11. ASSUME UNCHANGED <<puts, applied>>, job' = Released PROVE PutFine(p)'
  <2>1. "lost" \in causes \/ ~job[p.sec].waits
    BY <1>11 DEF PutsInv, PutFine
  <2>2. causes \subseteq causes'
    BY HistoryGrows
  <2> QED BY <1>1, <1>2, <1>11, <2>1, <2>2, ReleasedFacts
<1> QED BY <1>3, <1>4, <1>5, <1>7, <1>8, <1>9, <1>10, <1>11, PutSteps DEF Goes

\* Only a save changes what it was asked for, and only its end says "saved".
LEMMA ToldSteps ==
    ASSUME TypeOK, [Next]_vars
    PROVE  \/ UNCHANGED <<asked, told>>
           \/ \E s \in Sections : Starts(s) \/ Finish(s)
           \/ /\ asked' = asked
              /\ \E s \in Sections, m \in Messages \ {"saved"} : told' = [told EXCEPT ![s] = m]
<1> USE DEF hist
<1>1. ASSUME NEW s \in Sections, NEW k \in Keys, NEW v \in Vals, Edit(s, k, v)
      PROVE  UNCHANGED <<asked, told>>
  BY <1>1 DEF Edit
<1>2. ASSUME NEW s \in Sections, SubmitNothing(s)
      PROVE  asked' = asked /\ \E m \in Messages \ {"saved"} : told' = [told EXCEPT ![s] = m]
  BY <1>2 DEF SubmitNothing, Messages
<1>3. ASSUME NEW s \in Sections, Rejected(s) \/ StopRefused(s)
      PROVE  asked' = asked /\ \E m \in Messages \ {"saved"} : told' = [told EXCEPT ![s] = m]
  BY <1>3 DEF Rejected, StopRefused, Messages
<1>4. ASSUME NEW s \in Sections, NextBatch(s) PROVE UNCHANGED <<asked, told>>
  BY <1>4 DEF NextBatch
<1>5. ASSUME NEW p \in puts, Serves(p) PROVE UNCHANGED <<asked, told>>
  BY <1>5, ServesFacts
<1>6. ASSUME NEW k \in Keys, NEW v \in Vals, WriteOutside(k, v) PROVE UNCHANGED <<asked, told>>
  BY <1>6 DEF WriteOutside
<1>7. ReadOptions \/ TakeOptions \/ LoseOptions \/ UNCHANGED vars => UNCHANGED <<asked, told>>
  BY DEF ReadOptions, TakeOptions, LoseOptions, vars
<1> QED BY <1>1, <1>2, <1>3, <1>4, <1>5, <1>6, <1>7 DEF Next, Goes, Serves, Starts

\* A strict save whose answers are all good has stored what it has sent.
LEMMA GoodAnswers ==
    ASSUME AskedInv, NEW s \in Sections, page[s].judge = "strict", Answered(s), ~Stops(s),
           NEW a \in asked[s] \ applied
    PROVE  a[1] = job[s].try /\ a[2] \in job[s].left
<1>1. a[1] = job[s].try /\ (a[2] \in job[s].left \/ OnItsWay(s, a[2]))
  BY DEF AskedInv, AskedFine, Answered
<1>2. ASSUME OnItsWay(s, a[2]) PROVE FALSE
  <2>1. PICK p \in puts : p.sec = s /\ p.try = job[s].try /\ p.st # "ok"
    BY <1>2 DEF OnItsWay
  <2>2. p.st \in States(s)
    BY <2>1, StatesFacts
  <2> QED BY <2>1, <2>2 DEF Answered, Stops
<1> QED BY <1>1, <1>2

\* What remains on its way when a save, or another one, goes on.
LEMMA AskedKept ==
    ASSUME AskedInv, NEW s \in Sections, page' = page, asked'[s] = asked[s],
           applied \subseteq applied', job'[s] = job[s],
           \A p \in puts : p.sec = s => p \in puts'
    PROVE  AskedFine(s)'
<1> SUFFICES ASSUME page[s].judge = "strict", job[s].on, ~job[s].waits,
                    NEW a \in asked[s] \ applied
             PROVE  a[1] = job[s].try /\ (a[2] \in job[s].left \/ OnItsWay(s, a[2])')
  BY DEF AskedFine
<1>1. a[1] = job[s].try /\ (a[2] \in job[s].left \/ OnItsWay(s, a[2]))
  BY DEF AskedInv, AskedFine
<1>2. OnItsWay(s, a[2]) => OnItsWay(s, a[2])'
  BY DEF OnItsWay
<1> QED BY <1>1, <1>2

\* A request is answered.
LEMMA AskedServed ==
    ASSUME TypeOK, AskedInv, [Next]_vars, NEW s \in Sections, NEW q \in puts, Serves(q)
    PROVE  AskedFine(s)'
<1>1. PICK st \in {"ok", "refused", "lost"} :
        /\ puts' = Become(q, st)
        /\ st = "ok" => Store(q)
  BY ServesFacts
<1>2. applied \subseteq applied' /\ UNCHANGED <<page, job, asked>>
  BY ServesFacts, HistoryGrows
<1> SUFFICES ASSUME page[s].judge = "strict", job[s].on, ~job[s].waits,
                    NEW a \in asked[s] \ applied'
             PROVE  a[1] = job[s].try /\ (a[2] \in job[s].left \/ OnItsWay(s, a[2])')
  BY <1>2 DEF AskedFine
<1>3. a[1] = job[s].try /\ (a[2] \in job[s].left \/ OnItsWay(s, a[2]))
  BY <1>2 DEF AskedInv, AskedFine
<1>4. ASSUME OnItsWay(s, a[2]) PROVE OnItsWay(s, a[2])'
  <2>1. PICK p \in puts : p.sec = s /\ p.key = a[2] /\ p.try = job[s].try /\ p.st # "ok"
    BY <1>4 DEF OnItsWay
  <2>2. CASE p # q
    <3>1. p \in puts'
      BY <1>1, <2>2, BecomeFacts
    <3> QED BY <1>2, <2>1, <3>1 DEF OnItsWay
  <2>3. CASE p = q
    <3>1. Awaited(q)
      BY <2>1, <2>3 DEF Awaited
    <3>2. PICK n \in puts' : n.st = st /\ n.sec = q.sec /\ n.key = q.key /\ n.try = q.try
      BY <1>1, <3>1, BecomeFacts
    <3>3. st # "ok"
      <4>1. a \in Tries \X Keys
        BY Types
      <4>2. a = <<q.try, q.key>>
        BY <1>3, <2>1, <2>3, <4>1
      <4> QED BY <1>1, <4>2 DEF Store
    <3> QED BY <1>2, <2>1, <2>3, <3>2, <3>3 DEF OnItsWay
  <2> QED BY <2>2, <2>3
<1> QED BY <1>3, <1>4

\* A save begins, and everything it was asked for is in its first batch or left.
LEMMA AskedSubmitted ==
    ASSUME TypeOK, AskedInv, [Next]_vars, NEW s \in Sections, NEW t \in Sections, Starts(t)
    PROVE  AskedFine(s)'
<1>0. job \in [Sections -> JobType] /\ asked \in [Sections -> SUBSET (Tries \X Keys)]
  BY Types
<1>started. PICK ks \in SUBSET Owned(t), now \in SUBSET Keys, n \in JobType : Started(t, ks, now, n)
  BY StartFacts
<1>1. /\ now \subseteq ks
      /\ asked' = [asked EXCEPT ![t] = {<<tries + 1, k>> : k \in ks}]
      /\ job' = [job EXCEPT ![t] = n] /\ n.try = tries + 1 /\ n.left = ks \ now
      /\ puts' = puts \cup Requests(t, tries + 1, now, form')
      /\ tries + 1 \in Tries
  BY <1>started DEF Started
<1>2. UNCHANGED <<page, applied>> /\ form' \in Values
  BY StartFacts
<1>3. CASE s # t
  BY <1>0, <1>1, <1>2, <1>3, AskedKept
<1>4. CASE s = t
  <2> SUFFICES ASSUME NEW k \in ks
               PROVE  k \in ks \ now \/ OnItsWay(s, k)'
    <3>1. job'[s] = n /\ asked'[s] = {<<tries + 1, k>> : k \in ks}
      BY <1>0, <1>1, <1>2, <1>4
    <3>2. \A a \in asked'[s] : a[1] = tries + 1 /\ a[2] \in ks
      BY <3>1
    <3> QED BY <1>1, <1>4, <3>1, <3>2 DEF AskedFine
  <2>1. CASE k \in now
    <3>1. PICK tr \in Tries, v \in Values : tr = tries + 1 /\ v = form'
      BY <1>1, <1>2
    <3>2. PICK p \in Requests(s, tr, now, v) :
            p.sec = s /\ p.try = tr /\ p.key = k /\ p.st = "sent"
      BY <1>1, <2>1, RequestFacts
    <3>3. p \in puts' /\ job'[s].try = tr
      BY <1>0, <1>1, <1>4, <3>1
    <3> QED BY <3>2, <3>3 DEF OnItsWay
  <2> QED BY <2>1
<1> QED BY <1>3, <1>4

\* A save sends its next batch.
LEMMA AskedBatch ==
    ASSUME TypeOK, JobInv, AskedInv, [Next]_vars, NEW s \in Sections, NextBatch(s)
    PROVE  AskedFine(s)'
<1>1. PICK now \in SUBSET job[s].left :
        /\ job[s].snap \in Values /\ now \in SUBSET Keys
        /\ puts' = Unread(s) \cup Requests(s, job[s].try, now, job[s].snap)
        /\ job'[s].try = job[s].try /\ job'[s].left = job[s].left \ now
  BY NextBatchFacts
<1>2. UNCHANGED <<page, asked, applied>> /\ Answered(s) /\ ~Stops(s) /\ job[s].on
  BY DEF NextBatch, Answered, hist
<1> SUFFICES ASSUME page[s].judge = "strict", NEW a \in asked[s] \ applied
             PROVE  a[1] = job[s].try /\ (a[2] \in job[s].left \ now \/ OnItsWay(s, a[2])')
  BY <1>1, <1>2 DEF AskedFine
<1>3. a[1] = job[s].try /\ a[2] \in job[s].left
  BY <1>2, GoodAnswers
<1>4. CASE a[2] \in now
  <2>1. PICK t \in Tries, v \in Values : t = job[s].try /\ v = job[s].snap
    BY <1>1, <1>2 DEF JobInv, Tries
  <2>2. PICK k \in now : k = a[2]
    BY <1>4
  <2>3. PICK p \in Requests(s, t, now, v) :
          p.sec = s /\ p.try = t /\ p.key = k /\ p.st = "sent"
    BY <1>1, RequestFacts
  <2>4. p \in puts'
    BY <1>1, <2>1
  <2> QED BY <1>1, <1>3, <2>1, <2>2, <2>3, <2>4 DEF OnItsWay
<1> QED BY <1>3, <1>4

LEMMA AskedNext == TypeOK /\ JobInv /\ AskedInv /\ [Next]_vars => AskedInv'
<1> SUFFICES ASSUME TypeOK, JobInv, AskedInv, [Next]_vars, NEW s \in Sections
             PROVE  AskedFine(s)'
  BY DEF AskedInv
<1>0. /\ job \in [Sections -> JobType] /\ page' = page /\ applied \subseteq applied'
      /\ ~Idle.on
  BY Types, HistoryGrows DEF Idle
<1>1. ASSUME ~job'[s].on \/ job'[s].waits PROVE AskedFine(s)'
  BY <1>1 DEF AskedFine
<1>2. ASSUME NEW t \in Sections, Goes(t)
      PROVE  /\ asked' = asked /\ job' = [job EXCEPT ![t] = job'[t]]
             /\ \A p \in puts : p.sec # t => p \in puts'
  <2>1. asked' = asked /\ Unread(t) \subseteq puts'
    <3>1. Rejected(t) \/ StopRefused(t) \/ Finish(t) => asked' = asked /\ puts' = Unread(t)
      BY DEF Rejected, StopRefused, Finish, hist
    <3>2. NextBatch(t) => asked' = asked
      BY DEF NextBatch, hist
    <3>3. NextBatch(t) => Unread(t) \subseteq puts'
      BY NextBatchFacts
    <3> QED BY <1>2, <3>1, <3>2, <3>3 DEF Goes
  <2>2. job' = [job EXCEPT ![t] = job'[t]]
    <3>1. CASE Rejected(t) \/ StopRefused(t)
      BY <1>0, <3>1 DEF Rejected, StopRefused
    <3> QED BY <1>2, <3>1, NextBatchFacts, FinishFacts DEF Goes
  <2> QED BY <2>1, <2>2, UnreadFacts
<1>3. ASSUME NEW t \in Sections, Goes(t) PROVE AskedFine(s)'
  <2>1. CASE s # t
    <3>1. job'[s] = job[s]
      BY <1>0, <1>2, <1>3, <2>1
    <3> QED BY <1>0, <1>2, <1>3, <2>1, <3>1, AskedKept
  <2>2. CASE s = t /\ (Rejected(t) \/ StopRefused(t))
    <3>1. job'[s] = Idle
      BY <1>0, <2>2 DEF Rejected, StopRefused
    <3> QED BY <1>0, <1>1, <3>1
  <2>3. CASE s = t /\ Finish(t)
    BY <1>1, <2>3, FinishFacts
  <2>4. CASE s = t /\ NextBatch(t)
    BY <2>4, AskedBatch
  <2> QED BY <1>3, <2>1, <2>2, <2>3, <2>4 DEF Goes
<1>4. ASSUME asked' = asked, puts' = puts, job'[s] = job[s] PROVE AskedFine(s)'
  BY <1>0, <1>4, AskedKept
<1>5. ASSUME TakeOptions \/ LoseOptions, puts' = puts, job' = Released PROVE AskedFine(s)'
  <2>1. asked' = asked
    BY <1>5 DEF TakeOptions, LoseOptions, hist
  <2> QED BY <1>0, <1>1, <1>4, <1>5, <2>1, ReleasedFacts
<1>6. ASSUME UNCHANGED <<puts, job, applied>> PROVE AskedFine(s)'
  <2>1. asked' = asked \/ \E t \in Sections : Starts(t) \/ Goes(t)
    BY ToldSteps DEF Goes
  <2> QED BY <1>3, <1>4, <1>6, <2>1, AskedSubmitted
<1> QED BY <1>3, <1>5, <1>6, PutSteps, AskedServed, AskedSubmitted

LEMMA SavedNext ==
    TypeOK /\ AskedInv /\ SavedMeansAccepted /\ [Next]_vars => SavedMeansAccepted'
<1> SUFFICES ASSUME TypeOK, AskedInv, SavedMeansAccepted, [Next]_vars, NEW s \in Sections,
                    told'[s] = "saved", page[s].judge = "strict"
             PROVE  asked'[s] \subseteq applied'
  BY HistoryGrows DEF SavedMeansAccepted
<1>0. told \in [Sections -> Messages] /\ asked \in [Sections -> SUBSET (Tries \X Keys)]
        /\ applied \subseteq applied'
  BY Types, HistoryGrows
<1>1. ASSUME told[s] = "saved", asked'[s] = asked[s] PROVE asked'[s] \subseteq applied'
  BY <1>0, <1>1 DEF SavedMeansAccepted
<1>2. ASSUME NEW t \in Sections, Starts(t) PROVE told[s] = "saved" /\ asked'[s] = asked[s]
  <2>1. PICK ks : /\ told' = [told EXCEPT ![t] = "none"]
                  /\ asked' = [asked EXCEPT ![t] = {<<tries + 1, k>> : k \in ks}]
    BY <1>2, StartFacts DEF Started
  <2> QED BY <1>0, <2>1
<1>3. ASSUME NEW t \in Sections, Finish(t) PROVE asked'[s] \subseteq applied'
  <2>1. asked' = asked /\ told' = [told EXCEPT ![t] = Verdict(t)] /\ Answered(t) /\ ~Stops(t)
          /\ job[t].left = {}
    BY <1>3 DEF Finish, hist
  <2>2. CASE s # t
    BY <1>0, <1>1, <2>1, <2>2
  <2>3. CASE s = t
    BY <1>0, <2>1, <2>3, GoodAnswers
  <2> QED BY <2>2, <2>3
<1>4. ASSUME asked' = asked,
             NEW t \in Sections, NEW m \in Messages \ {"saved"}, told' = [told EXCEPT ![t] = m]
      PROVE  told[s] = "saved"
  BY <1>0, <1>4
<1> QED BY <1>1, <1>2, <1>3, <1>4, ToldSteps

LEMMA UntouchedBefore ==
    ASSUME TypeOK, [Next]_vars
    PROVE  \A k : Untouched(k)' => Untouched(k)
BY HistoryGrows DEF Untouched

LEMMA SentIsEdited ==
    ASSUME FormInv, NEW s \in Sections, NEW k \in Sent(s)
    PROVE  ~Untouched(k)
BY DEF FormInv, Sent, Changed, Owned, Untouched

\* Only an edit, the end of a save and the options that were read change a form.
LEMMA FormSteps ==
    ASSUME [Next]_vars
    PROVE  \/ UNCHANGED <<form, base>>
           \/ \E s \in Sections, k \in Keys, v \in Vals : Edit(s, k, v) \/ Check(s, k, v)
           \/ \E s \in Sections : Finish(s)
           \/ TakeOptions
<1>1. ASSUME NEW s \in Sections, SubmitNothing(s) \/ Submit(s) PROVE UNCHANGED <<form, base>>
  BY <1>1 DEF SubmitNothing, Submit, Begin
<1>2. ASSUME NEW s \in Sections, Rejected(s) \/ StopRefused(s) \/ NextBatch(s)
      PROVE  UNCHANGED <<form, base>>
  BY <1>2 DEF Rejected, StopRefused, NextBatch
<1>3. ASSUME NEW p \in puts, Accept(p) \/ Refuse(p) \/ Lose(p) PROVE UNCHANGED <<form, base>>
  BY <1>3 DEF Accept, Refuse, Lose
<1>4. ASSUME NEW k \in Keys, NEW v \in Vals, WriteOutside(k, v) PROVE UNCHANGED <<form, base>>
  BY <1>4 DEF WriteOutside
<1>5. ReadOptions \/ LoseOptions \/ UNCHANGED vars => UNCHANGED <<form, base>>
  BY DEF ReadOptions, LoseOptions, vars
<1> QED BY <1>1, <1>2, <1>3, <1>4, <1>5 DEF Next, Goes

\* The end of a save writes back only keys that were edited, or what was loaded.
LEMMA WrittenBack ==
    ASSUME TypeOK, PageInv, JobInv, EditedInv, NEW s \in Sections, job[s].on,
           NEW k \in Keys, Untouched(k)
    PROVE  Written(s)[k] = base[k]
<1>1. form[k] = base[k]
  BY DEF EditedInv, FormInv
<1>2. CASE page[s].after = "local"
  BY <1>2 DEF EditedInv, SavesEdited, Written
<1>3. CASE page[s].after = "echo"
  <2>1. page[s].sends = "all"
    BY <1>3, ShownPages DEF Wellformed
  <2>2. k \notin job[s].now
    BY <2>1 DEF JobInv, Owned, Untouched
  <2> QED BY <1>1, <1>3, <2>2 DEF Written
<1>4. CASE page[s].after \notin {"local", "echo"}
  BY <1>1, <1>4 DEF Written
<1> QED BY <1>2, <1>3, <1>4

LEMMA FormNext ==
    TypeOK /\ PageInv /\ JobInv /\ EditedInv /\ [Next]_vars => FormInv'
<1> SUFFICES ASSUME TypeOK, PageInv, JobInv, EditedInv, [Next]_vars, NEW k \in Keys,
                    Untouched(k)'
             PROVE  form'[k] = base'[k]
  BY DEF FormInv
<1>0. form[k] = base[k] /\ Untouched(k)
  BY UntouchedBefore DEF EditedInv, FormInv
<1>1. ASSUME NEW s \in Sections, NEW l \in Keys, NEW v \in Vals, Edit(s, l, v) \/ Check(s, l, v)
      PROVE  form'[k] = base'[k]
  <2>1. form' = [form EXCEPT ![l] = v] /\ mine' = mine \cup {l} /\ base' = base
    BY <1>1 DEF Edit, Check, Begin
  <2>2. k # l
    BY <2>1 DEF Untouched
  <2> QED BY <1>0, <2>1, <2>2, Types DEF Values
<1>2. ASSUME NEW s \in Sections, Finish(s) PROVE form'[k] = base'[k]
  <2>1. form'[k] = base[k]
    BY <1>0, <1>2, WrittenBack DEF Finish, Answered
  <2>2. ~(page[s].after = "origin" /\ k \in Owned(s))
    BY <1>0, ShownPages DEF Wellformed, Owned, Untouched
  <2> QED BY <1>2, <2>1, <2>2 DEF Finish, Rebased
<1>3. CASE TakeOptions
  BY <1>0, <1>3 DEF TakeOptions
<1> QED BY <1>0, <1>1, <1>2, <1>3, FormSteps

LEMMA SendsEditedNext == TypeOK /\ JobInv /\ EditedInv /\ [Next]_vars => SendsEdited'
<1> SUFFICES ASSUME TypeOK, JobInv, EditedInv, [Next]_vars, NEW p \in puts'
             PROVE  ~Untouched(p.key)'
  BY DEF SendsEdited
<1>1. ~Untouched(p.key) => ~Untouched(p.key)'
  BY UntouchedBefore
<1>2. p \in puts => ~Untouched(p.key)
  BY DEF EditedInv, SendsEdited
<1>3. ASSUME NEW q \in puts, Serves(q) PROVE ~Untouched(p.key)
  <2>1. PICK st \in {"ok", "refused", "lost"} : puts' = Become(q, st)
    BY <1>3, ServesFacts
  <2>2. p \in puts \/ p.key = q.key
    BY <2>1, BecomeFacts
  <2> QED BY <1>2, <2>2 DEF EditedInv, SendsEdited
<1>4. ASSUME NEW s \in Sections, Starts(s) PROVE ~Untouched(p.key)'
  <2>1. PICK ks \in SUBSET Owned(s), now \in SUBSET Keys, tr \in Tries, v \in Values :
          /\ now \subseteq ks
          /\ ks \subseteq Sent(s) \/ ks \subseteq mine'
          /\ puts' = puts \cup Requests(s, tr, now, v) /\ now \in SUBSET Keys
    <3>1. form' \in Values
      BY <1>4, StartFacts
    <3> QED BY <1>4, <3>1, StartFacts DEF Started
  <2>2. p \in puts \/ p.key \in ks
    BY <2>1, RequestFacts
  <2>3. FormInv
    BY DEF EditedInv
  <2>4. \A k \in Sent(s) : ~Untouched(k)
    BY <2>3, SentIsEdited
  <2>5. \A k \in mine' : ~Untouched(k)'
    BY DEF Untouched
  <2> QED BY <1>1, <1>2, <2>1, <2>2, <2>4, <2>5
<1>5. ASSUME NEW s \in Sections, NextBatch(s) PROVE ~Untouched(p.key)
  <2>0. job[s].try \in Tries /\ job[s].on
    BY <1>5 DEF NextBatch, Answered, JobInv, Tries
  <2>1. PICK now \in SUBSET job[s].left, tr \in Tries, v \in Values :
          puts' = Unread(s) \cup Requests(s, tr, now, v) /\ now \in SUBSET Keys
    BY <1>5, <2>0, NextBatchFacts
  <2>2. p \in puts \/ p.key \in now
    BY <2>1, RequestFacts, UnreadFacts
  <2> QED BY <1>2, <2>0, <2>1, <2>2 DEF EditedInv, SavesEdited
<1>6. ASSUME NEW s \in Sections, Rejected(s) \/ StopRefused(s) \/ Finish(s) PROVE p \in puts
  BY <1>6, UnreadFacts DEF Rejected, StopRefused, Finish
<1> QED BY <1>1, <1>2, <1>3, <1>4, <1>5, <1>6, PutSteps DEF Goes

\* What a page that writes back its snapshot compares with is never loaded again.
LEMMA LocalBase ==
    ASSUME TypeOK, PageInv, [Next]_vars, NEW s \in Sections, page[s].after = "local"
    PROVE  base' = base
<1>1. ~TakeOptions
  BY DEF PageInv, TakeOptions
<1>2. \A t \in Sections, k \in Keys, v \in Vals : Edit(t, k, v) \/ Check(t, k, v) => base' = base
  BY DEF Edit, Check, Begin
<1>3. ASSUME NEW t \in Sections, Finish(t) PROVE base' = base
  <2>1. page[t].after = "local"
    BY ShownPages
  <2>2. base \in Values
    BY Types
  <2> QED BY <1>3, <2>1, <2>2 DEF Finish, Rebased, Values
<1> QED BY <1>1, <1>2, <1>3, FormSteps

LEMMA SavesEditedNext ==
    ASSUME TypeOK, PageInv, EditedInv, FormInv', [Next]_vars, NEW s \in Sections
    PROVE  SavesEdited(s)'
<1>0. job \in [Sections -> JobType] /\ page' = page /\ ~Idle.on
  BY Types, HistoryGrows DEF Idle
<1>1. ASSUME job'[s].on => /\ job'[s].left \subseteq job[s].left
                           /\ job[s].on /\ job'[s].snap = job[s].snap
      PROVE  SavesEdited(s)'
  <2> SUFFICES ASSUME job'[s].on
               PROVE  /\ \A k \in job'[s].left : ~Untouched(k)'
                      /\ page[s].after = "local" =>
                           \A k \in Keys : Untouched(k)' => job'[s].snap[k] = base'[k]
    BY <1>0 DEF SavesEdited
  <2>1. /\ \A k \in job[s].left : ~Untouched(k)
        /\ page[s].after = "local" => \A k \in Keys : Untouched(k) => job[s].snap[k] = base[k]
    BY <1>1 DEF EditedInv, SavesEdited
  <2> QED BY <1>1, <2>1, UntouchedBefore, LocalBase
<1>2. ASSUME NEW t \in Sections, Starts(t) PROVE SavesEdited(s)'
  <2>0. PICK ks \in SUBSET Owned(t), now \in SUBSET Keys, n \in JobType : Started(t, ks, now, n)
    BY <1>2, StartFacts
  <2>1. /\ now \subseteq ks
        /\ ks \subseteq Sent(t) \/ ks \subseteq mine'
        /\ job' = [job EXCEPT ![t] = n] /\ n.left = ks \ now /\ n.snap = form'
    BY <2>0 DEF Started
  <2>2. CASE s # t
    BY <1>0, <1>1, <2>1, <2>2
  <2>3. CASE s = t
    <3>1. job'[s].left \subseteq ks /\ job'[s].snap = form'
      BY <1>0, <2>1, <2>3
    <3>2. FormInv
      BY DEF EditedInv
    <3>3. \A k \in ks : ~Untouched(k)'
      <4>1. \A k \in Sent(s) : ~Untouched(k)'
        BY <3>2, SentIsEdited, UntouchedBefore
      <4>2. \A k \in mine' : ~Untouched(k)'
        BY DEF Untouched
      <4> QED BY <2>1, <2>3, <4>1, <4>2
    <3>4. \A k \in Keys : Untouched(k)' => form'[k] = base'[k]
      BY DEF FormInv
    <3> QED BY <3>1, <3>3, <3>4 DEF SavesEdited
  <2> QED BY <2>2, <2>3
<1>3. ASSUME NEW t \in Sections, NextBatch(t) PROVE SavesEdited(s)'
  <2>1. PICK now \in SUBSET job[t].left :
          /\ job' = [job EXCEPT ![t] = job'[t]] /\ job'[t].on = job[t].on
          /\ job'[t].snap = job[t].snap /\ job'[t].left = job[t].left \ now
    BY <1>3, NextBatchFacts
  <2>2. s # t => job'[s] = job[s]
    BY <1>0, <2>1
  <2> QED BY <1>1, <2>1, <2>2
<1>4. ASSUME NEW t \in Sections, Finish(t) PROVE SavesEdited(s)'
  <2>1. /\ job' = [job EXCEPT ![t] = job'[t]]
        /\ job'[t].on => job'[t].left = job[t].left /\ job'[t].snap = job[t].snap
    BY <1>4, FinishFacts
  <2>2. job[t].on
    BY <1>4 DEF Finish, Answered
  <2>3. s # t => job'[s] = job[s]
    BY <1>0, <2>1
  <2> QED BY <1>1, <2>1, <2>2, <2>3
<1>5. ASSUME NEW t \in Sections, job' = [job EXCEPT ![t] = Idle] PROVE SavesEdited(s)'
  <2>1. job'[s] = Idle \/ job'[s] = job[s]
    BY <1>0, <1>5
  <2> QED BY <1>0, <1>1, <2>1
<1>6. ASSUME job' = Released PROVE SavesEdited(s)'
  <2>1. job'[s] = Idle \/ job'[s] = job[s]
    BY <1>6, ReleasedFacts
  <2> QED BY <1>0, <1>1, <2>1
<1>7. job' = job => SavesEdited(s)'
  BY <1>1
<1> QED BY <1>2, <1>3, <1>4, <1>5, <1>6, <1>7, JobSteps

\* Only a request that is stored and a write of others change the store.
LEMMA StoreSteps ==
    ASSUME TypeOK, [Next]_vars
    PROVE  \/ UNCHANGED <<store, theirs>>
           \/ \E p \in puts : Serves(p)
           \/ \E k \in Keys, v \in Vals : WriteOutside(k, v)
<1> USE DEF hist
<1>1. ASSUME NEW s \in Sections, NEW k \in Keys, NEW v \in Vals, Edit(s, k, v)
      PROVE  UNCHANGED <<store, theirs>>
  BY <1>1 DEF Edit
<1>2. ASSUME NEW s \in Sections, SubmitNothing(s) \/ Starts(s) PROVE UNCHANGED <<store, theirs>>
  BY <1>2, StartFacts DEF SubmitNothing
<1>3. ASSUME NEW s \in Sections, Rejected(s) \/ StopRefused(s) \/ NextBatch(s) \/ Finish(s)
      PROVE  UNCHANGED <<store, theirs>>
  BY <1>3 DEF Rejected, StopRefused, NextBatch, Finish
<1>4. ReadOptions \/ TakeOptions \/ LoseOptions \/ UNCHANGED vars => UNCHANGED <<store, theirs>>
  BY DEF ReadOptions, TakeOptions, LoseOptions, vars
<1> QED BY <1>1, <1>2, <1>3, <1>4 DEF Next, Goes, Serves, Starts

LEMMA TwinFacts ==
    ASSUME NEW k \in Keys
    PROVE  k \in Twins(k) /\ \A l \in Keys : l \in Twins(k) <=> k \in Twins(l)
BY DEF Twins

LEMMA OverwriteNext ==
    TypeOK /\ EditedInv /\ NoBlindOverwrite /\ [Next]_vars => NoBlindOverwrite'
<1> SUFFICES ASSUME TypeOK, EditedInv, NoBlindOverwrite, [Next]_vars, NEW k \in Keys,
                    \A l \in Twins(k) : Untouched(l)'
             PROVE  store'[k] = theirs'[k]
  BY DEF NoBlindOverwrite, Untouched, Twins
<1>0. /\ store[k] = theirs[k] /\ \A l \in Twins(k) : Untouched(l)
      /\ store \in Values /\ theirs \in Values
  <2>1. \A l \in Twins(k) : Untouched(l)
    BY UntouchedBefore
  <2> QED BY <2>1, Types DEF NoBlindOverwrite, Untouched
<1>1. ASSUME NEW p \in puts, Serves(p) PROVE store'[k] = theirs'[k]
  <2>1. theirs' = theirs /\ (Store(p) \/ store' = store)
    BY <1>1, ServesFacts
  <2>2. p.key \in Keys
    BY Types DEF PutType
  <2>3. k \notin Twins(p.key)
    BY <1>0, <2>2, TwinFacts DEF EditedInv, SendsEdited
  <2> QED BY <1>0, <2>1, <2>3 DEF Store, Put
<1>2. ASSUME NEW l \in Keys, NEW v \in Vals, WriteOutside(l, v) PROVE store'[k] = theirs'[k]
  BY <1>0, <1>2 DEF WriteOutside, Put
<1> QED BY <1>0, <1>1, <1>2, StoreSteps

\* A save that reloads asks for the options, unless an older answer is shared.
LEMMA ReloadAsked ==
    ASSUME TypeOK, NEW s \in Sections, Finish(s), "shared" \notin causes'
    PROVE  IF Reloads(s) THEN fetch'.st = "sent" ELSE fetch' = fetch
<1>1. fetch.st \in {"none", "sent", "read"}
  BY Types DEF FetchType
<1> QED BY <1>1 DEF Finish, Reloads, StartFetch

\* The save of a page that follows the server does not end half way.
LEMMA FollowerGoesOn ==
    ASSUME PageInv, PutsInv, NEW k \in Keys, NEW s \in Sections, s = Owner[k], Clean, Follows(k)
    PROVE  ~Rejected(s) /\ ~StopRefused(s)
<1>1. ASSUME Rejected(s) PROVE FALSE
  BY <1>1 DEF Rejected, States, Mine, PutsInv, PutFine, Clean
<1>2. ASSUME StopRefused(s) PROVE FALSE
  <2>1. "refused" \in States(s) /\ (page[s].judge = "strict" \/ page[s].order = "flagsFirst")
    BY <1>2 DEF StopRefused, Stops
  <2>2. "refused" \in causes
    BY <2>1 DEF States, Mine, PutsInv, PutFine
  <2>3. page[s].order = "parallel"
    BY ShownPages DEF Follows, Reloads, Wellformed
  <2> QED BY <2>1, <2>2, <2>3 DEF Follows
<1> QED BY <1>1, <1>2

\* A save that goes on keeps what it has to reload.
LEMMA SavingKept ==
    ASSUME NEW k \in Keys, Saving(k),
           \A l \in Twins(k) : job[Owner[l]].on /\ ~job[Owner[l]].waits =>
                                 job'[Owner[l]].on /\ ~job'[Owner[l]].waits
    PROVE  Saving(k)'
BY DEF Saving, Twins

LEMMA FreshGoes ==
    ASSUME TypeOK, PageInv, PutsInv, NEW k \in Keys, Clean, Clean',
           \A l \in Twins(k) : Follows(l), Fresh(k), NEW t \in Sections, Goes(t)
    PROVE  Fresh(k)'
<1>0. /\ \A l \in Twins(k) : l \in Keys /\ Owner[l] \in Sections /\ Reloads(Owner[l])
      /\ job \in [Sections -> JobType] /\ base \in Values
  BY OptionAssumption, Types DEF Follows, Twins
<1>1. UNCHANGED store /\ job' = [job EXCEPT ![t] = job'[t]] /\ (~Reloads(t) => base' = base)
  <2>1. Rejected(t) \/ StopRefused(t) \/ NextBatch(t) => UNCHANGED <<store, base>>
    BY DEF Rejected, StopRefused, NextBatch
  <2>2. Rejected(t) \/ StopRefused(t) => job' = [job EXCEPT ![t] = job'[t]]
    BY <1>0 DEF Rejected, StopRefused
  <2>3. Finish(t) => UNCHANGED store /\ (~Reloads(t) => base' = base)
    BY <1>0 DEF Finish, Rebased, Reloads, Values
  <2> QED BY <2>1, <2>2, <2>3, NextBatchFacts, FinishFacts DEF Goes
<1>2. CASE Finish(t)
  <2>1. IF Reloads(t) THEN fetch'.st = "sent" ELSE fetch' = fetch
    BY <1>2, ReloadAsked DEF Clean
  <2>2. CASE Reloads(t)
    BY <2>1, <2>2 DEF Fresh
  <2>3. CASE ~Reloads(t)
    <3>1. \A l \in Twins(k) : job'[Owner[l]] = job[Owner[l]]
      BY <1>0, <1>1, <2>3
    <3>2. Saving(k) => Saving(k)'
      BY <3>1, SavingKept
    <3> QED BY <1>1, <2>1, <2>3, <3>2 DEF Fresh
  <2> QED BY <2>2, <2>3
<1>3. CASE ~Finish(t)
  <2>1. fetch' = fetch /\ base' = base
    BY <1>3 DEF Goes, Rejected, StopRefused, NextBatch
  <2>2. ASSUME NEW l \in Twins(k), job[Owner[l]].on, ~job[Owner[l]].waits
        PROVE  job'[Owner[l]].on /\ ~job'[Owner[l]].waits
    <3>1. CASE Owner[l] = t
      <4>1. NextBatch(t)
        BY <1>0, <1>3, <3>1, FollowerGoesOn DEF Goes
      <4> QED BY <2>2, <3>1, <4>1, NextBatchFacts
    <3>2. CASE Owner[l] # t
      BY <1>0, <1>1, <2>2, <3>2
    <3> QED BY <3>1, <3>2
  <2>3. Saving(k) => Saving(k)'
    BY <2>2, SavingKept
  <2> QED BY <1>1, <2>1, <2>3 DEF Fresh
<1> QED BY <1>2, <1>3

LEMMA FreshNext ==
    TypeOK /\ PageInv /\ PutsInv /\ FreshInv /\ [Next]_vars => FreshInv'
<1> SUFFICES ASSUME TypeOK, PageInv, PutsInv, FreshInv, [Next]_vars, Clean', NEW k \in Keys,
                    \A l \in Twins(k) : Follows(l)'
             PROVE  Fresh(k)'
  BY DEF FreshInv, Twins
<1>0. /\ \A l \in Twins(k) : l \in Keys /\ Owner[l] \in Sections
      /\ job \in [Sections -> JobType] /\ puts \subseteq PutType
      /\ store \in Values /\ fetch \in FetchType
  BY OptionAssumption, Types DEF Twins
<1>1. Clean /\ (\A l \in Twins(k) : Follows(l)) /\ Fresh(k)
  <2>1. causes \subseteq causes' /\ page' = page
    BY HistoryGrows
  <2>2. Clean /\ \A l \in Twins(k) : Follows(l)
    BY <2>1 DEF Clean, Follows, Reloads
  <2> QED BY <2>2 DEF FreshInv
<1>2. ASSUME UNCHANGED <<job, fetch, base, store>> PROVE Fresh(k)'
  <2>1. Saving(k) => Saving(k)'
    BY <1>2, SavingKept
  <2> QED BY <1>1, <1>2, <2>1 DEF Fresh
<1>3. ASSUME NEW t \in Sections, NEW l \in Keys, NEW v \in Vals, Edit(t, l, v)
      PROVE  UNCHANGED <<job, fetch, base, store>>
  BY <1>3 DEF Edit
<1>4. ASSUME NEW t \in Sections, SubmitNothing(t) PROVE UNCHANGED <<job, fetch, base, store>>
  BY <1>4 DEF SubmitNothing
<1>5. ASSUME NEW t \in Sections, Starts(t) PROVE Fresh(k)'
  <2>1. PICK n \in JobType : job' = [job EXCEPT ![t] = n] /\ n.on /\ ~n.waits
    BY <1>5, StartFacts DEF Started
  <2>2. \A l \in Twins(k) : job'[Owner[l]] = job[Owner[l]] \/ job'[Owner[l]] = n
    BY <1>0, <2>1
  <2>3. Saving(k) => Saving(k)'
    BY <2>1, <2>2, SavingKept
  <2>4. UNCHANGED <<fetch, base, store>>
    BY <1>5, StartFacts
  <2> QED BY <1>1, <2>3, <2>4 DEF Fresh
<1>6. ASSUME NEW p \in puts, Serves(p) PROVE Fresh(k)'
  <2>1. UNCHANGED <<job, fetch, base>> /\ (Store(p) \/ store' = store)
    BY <1>6, ServesFacts
  <2>2. Saving(k) => Saving(k)'
    BY <2>1, SavingKept
  <2>3. p.key \in Keys
    BY <1>0 DEF PutType
  <2>4. CASE k \in Twins(p.key)
    <3>1. p.key \in Twins(k)
      BY <2>3, <2>4, TwinFacts
    <3>2. job[Owner[p.key]].on /\ ~job[Owner[p.key]].waits
      BY <1>1 DEF PutsInv, PutFine, Awaited, Clean
    <3>3. Saving(k)
      BY <3>1, <3>2 DEF Saving
    <3> QED BY <2>2, <3>3 DEF Fresh
  <2>5. CASE k \notin Twins(p.key)
    <3>1. store'[k] = store[k]
      BY <1>0, <2>1, <2>5 DEF Store, Put
    <3> QED BY <1>1, <2>1, <2>2, <3>1 DEF Fresh
  <2> QED BY <2>4, <2>5
<1>7. ASSUME NEW l \in Keys, NEW v \in Vals, WriteOutside(l, v) PROVE FALSE
  BY <1>7 DEF WriteOutside, Fault, Clean
<1>8. CASE ReadOptions
  BY <1>8 DEF ReadOptions, Fresh
<1>9. CASE TakeOptions
  <2>1. /\ fetch.st = "read" /\ base' = fetch.val /\ fetch'.st = "none" /\ store' = store
        /\ job' = Released
    BY <1>9 DEF TakeOptions, NoFetch
  <2>2. \A l \in Twins(k) : ~job[Owner[l]].waits => job'[Owner[l]] = job[Owner[l]]
    BY <1>0, <2>1, ReleasedFacts
  <2>3. Saving(k) => Saving(k)'
    BY <2>2, SavingKept
  <2> QED BY <1>1, <2>1, <2>3 DEF Fresh
<1>10. ~LoseOptions
  BY DEF LoseOptions, Fault, Clean
<1>11. UNCHANGED vars => UNCHANGED <<job, fetch, base, store>>
  BY DEF vars
<1>12. ASSUME NEW t \in Sections, Goes(t) PROVE Fresh(k)'
  BY <1>1, <1>12, FreshGoes
<1> QED BY <1>2, <1>3, <1>4, <1>5, <1>6, <1>7, <1>8, <1>9, <1>10, <1>11, <1>12
        DEF Next, Serves, Starts

(***************************************************************************)
(* The theorems                                                            *)
(***************************************************************************)
LEMMA InvariantInit == Init => IInv
<1> SUFFICES ASSUME Init PROVE IInv
  OBVIOUS
<1>0. TypeOK /\ ~Idle.on /\ NoFetch.st = "none"
  BY TypeInit DEF Idle, NoFetch
<1>1. \A s \in Sections : ~job[s].on
  BY <1>0 DEF Init
<1>2. puts = {} /\ fetch.st = "none"
  BY <1>0 DEF Init
<1>3. PageInv
  BY <1>2 DEF PageInv, Init
<1>4. JobInv /\ PutsInv /\ AskedInv
  BY <1>1, <1>2 DEF JobInv, PutsInv, AskedInv, AskedFine
<1>5. EditedInv /\ NoBlindOverwrite
  BY <1>1, <1>2 DEF EditedInv, FormInv, SendsEdited, SavesEdited, NoBlindOverwrite, Init
<1>6. FreshInv
  BY <1>2 DEF FreshInv, Fresh, Init
<1>7. SavedMeansAccepted
  BY DEF SavedMeansAccepted, Init
<1> QED BY <1>0, <1>3, <1>4, <1>5, <1>6, <1>7 DEF IInv

LEMMA InvariantNext == IInv /\ [Next]_vars => IInv'
<1> SUFFICES ASSUME IInv, [Next]_vars PROVE IInv'
  OBVIOUS
<1> USE DEF IInv
<1>1. TypeOK' /\ PageInv' /\ JobInv' /\ PutsInv'
  BY TypeNext, PageNext, JobNext, PutsNext
<1>2. AskedInv' /\ SavedMeansAccepted'
  BY AskedNext, SavedNext
<1>3. EditedInv' /\ NoBlindOverwrite'
  BY FormNext, SendsEditedNext, SavesEditedNext, OverwriteNext DEF EditedInv
<1>4. FreshInv'
  BY FreshNext
<1> QED BY <1>1, <1>2, <1>3, <1>4

LEMMA Invariance == Spec => []IInv
BY InvariantInit, InvariantNext, PTL DEF Spec

\* The variables of the settings pages keep their types.
THEOREM TypeCorrect == Spec => []TypeOK
BY Invariance, PTL DEF IInv

\* A page that looks at its answers (judge "strict") says "saved" only when the
\* server has stored every value of the save: whatever the batches, the order
\* of the answers, and what other sections save at the same time.
THEOREM SavedMeansAcceptedThm == Spec => []SavedMeansAccepted
BY Invariance, PTL DEF IInv

\* The server's value of an option that is only edited on pages that send what
\* was changed (compareObjects), in any number of sections, and that nobody
\* edited on this console, is the one others gave it, also when reloads and the
\* saves of other sections pass in between.
THEOREM NoBlindOverwriteThm == Spec => []NoBlindOverwrite
BY Invariance, PTL DEF IInv

\* When nothing is on its way, the values a reloading page compares with are
\* the server's, unless something happened that it cannot see.
THEOREM SettledShowsStoreThm == Spec => []SettledShowsStore
<1>1. IInv => SettledShowsStore
  <2> SUFFICES ASSUME IInv, Quiet, Clean, NEW k \in Keys, \A l \in Twins(k) : Follows(l)
               PROVE  base[k] = store[k]
    BY DEF SettledShowsStore, Clean, Follows
  <2>1. Fresh(k) /\ \A l \in Twins(k) : Owner[l] \in Sections
    BY OptionAssumption DEF IInv, FreshInv, Twins
  <2> QED BY <2>1 DEF Fresh, Saving, Quiet
<1> QED BY <1>1, Invariance, PTL
=============================================================================
