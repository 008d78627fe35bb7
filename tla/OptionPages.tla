---------------------------- MODULE OptionPages ----------------------------
(***************************************************************************)
(* The settings pages of the web console (web/src/pages/Setting and        *)
(* web/src/components/settings).  An administrator edits a form, presses   *)
(* save, and the page sends one PUT /api/option/ per key; a parent         *)
(* component reads every option again with GET /api/option/ and hands the  *)
(* answer to all of its sections.  The pages repeat one protocol with       *)
(* small differences (what is sent, in which order, how the answers are    *)
(* judged, what happens next); a page is a record of these differences,    *)
(* and the behaviour below is run for every pair of pages that share a     *)
(* parent.  A key stands for one field of one section; fields of different *)
(* sections may edit the same option (the group and model ratios of        *)
(* RatioSetting are edited on several of its tabs).  An option's value is  *)
(* an element of Vals; the text of a field, its layout and the wording of  *)
(* the messages are left out.                                              *)
(***************************************************************************)
EXTENDS Naturals, FiniteSets, OptionPageTable

CONSTANTS
    Sections,    \* two or more sections on one parent component
    Keys,        \* the fields of the sections
    Owner,       \* the section a field belongs to
    Option,      \* the option a field edits
    Flags,       \* the fields of the options whose name ends in "enabled"
    Always,      \* the fields a "mixed" page sends with every save
    Vals,        \* option values
    Stores,      \* the option tables a behaviour may start with
    MaxEdits,    \* bound on the edits of a behaviour
    MaxSubmits,  \* bound on the saves of a behaviour
    MaxFaults    \* bound on the writes of others and on the requests refused
                 \* or lost, together

ASSUME OptionAssumption ==
    /\ Owner \in [Keys -> Sections]
    /\ DOMAIN Option = Keys
    /\ Flags \subseteq Keys
    /\ Always \subseteq Keys
    /\ Vals # {}
    /\ Stores \subseteq [Keys -> Vals]
    /\ \A st \in Stores, k, l \in Keys : Option[k] = Option[l] => st[k] = st[l]
    /\ MaxEdits \in Nat
    /\ MaxSubmits \in Nat
    /\ MaxFaults \in Nat

VARIABLES
    page,      \* the page shown in each section
    store,     \* the server's option table, as the fields see it
    base,      \* inputsRow / originInputs: the values last loaded
    form,      \* inputs: the values in the form
    dirty,     \* hasChanges of the list pages
    puts,      \* PUT requests on their way, with what became of them
    job,       \* the save a section is carrying out
    fetch,     \* the GET /api/option/ under way, if any
    told,      \* the last message a section showed
    edits,     \* edits so far
    tries,     \* saves started so far
    faults,    \* writes of others, refused and lost requests so far
    causes,    \* history: what has happened that a page cannot see
    mine,      \* history: the fields edited on this console
    theirs,    \* history: the initial values and what others wrote
    asked,     \* history: the <<try, key>> pairs of a section's last save
    applied    \* history: the <<try, key>> pairs the server has stored

vars == <<page, store, base, form, dirty, puts, job, fetch, told, edits, tries,
          faults, causes, mine, theirs, asked, applied>>

hist == <<edits, mine, theirs, asked>>

Owned(s) == {k \in Keys : Owner[k] = s}

(* The fields that edit the same option.                                   *)
Twins(k) == {l \in Keys : Option[l] = Option[k]}

NoValues == [k \in Keys |-> CHOOSE v \in Vals : TRUE]

Idle == [on |-> FALSE, try |-> 0, now |-> {}, left |-> {}, bad |-> FALSE,
         snap |-> NoValues, waits |-> FALSE]

NoFetch == [st |-> "none", val |-> NoValues]

Messages == {"none", "nothing", "saved", "failed", "both"}

Causes == {"shared", "outside", "lost", "refused"}

Init ==
    /\ page \in UNION {[Sections -> ps] : ps \in Parents}
    /\ store \in Stores
    /\ base = store
    /\ form = store
    /\ dirty = [s \in Sections |-> FALSE]
    /\ puts = {}
    /\ job = [s \in Sections |-> Idle]
    /\ fetch = NoFetch
    /\ told = [s \in Sections |-> "none"]
    /\ edits = 0
    /\ tries = 0
    /\ faults = 0
    /\ causes = {}
    /\ mine = {}
    /\ theirs = store
    /\ asked = [s \in Sections |-> {}]
    /\ applied = {}

(* compareObjects: the keys whose value differs from the loaded one.       *)
Changed(s) == {k \in Owned(s) : form[k] # base[k]}

(* Mutant: every key of the section is sent. *)
SentWhole(s) == Owned(s)

(* What a save sends: the changed keys, every key of the section, or the   *)
(* changed ones and some that are sent in any case.                        *)
Sent(s) ==
    CASE page[s].sends = "changed" -> Changed(s)
      [] page[s].sends = "mixed" -> Changed(s) \cup (Owned(s) \cap Always)
      [] OTHER -> Owned(s)

(* The keys that may be sent next, together.                               *)
Batches(p, left) ==
    CASE p.order = "parallel" -> {left}
      [] p.order = "serial" -> {{k} : k \in left}
      [] OTHER -> IF left \cap Flags # {} THEN {{k} : k \in left \cap Flags}
                                           ELSE {left}

(* The user can reach the controls of a section: the parent's spinner      *)
(* covers every section while the options are read, and most sections are  *)
(* covered by one of their own while they save.                            *)
Reachable(s) == fetch.st = "none" /\ (page[s].spin => ~job[s].on)

Requests(s, try, ks, vals) ==
    {[sec |-> s, key |-> k, val |-> vals[k], try |-> try, st |-> "sent"] :
        k \in ks}

Edit(s, k, v) ==
    /\ Reachable(s)
    /\ Owner[k] = s
    /\ form[k] # v
    /\ edits < MaxEdits
    /\ edits' = edits + 1
    /\ form' = [form EXCEPT ![k] = v]
    /\ dirty' = [dirty EXCEPT ![s] = page[s].list]
    /\ mine' = mine \cup {k}
    /\ UNCHANGED <<page, store, base, puts, job, fetch, told, tries, faults,
                   causes, theirs, asked, applied>>

(* The save button is disabled by a list page without changes, and does    *)
(* nothing while it shows that the page is saving.  The buttons of         *)
(* SystemSetting show nothing: that a block is not saved again before its  *)
(* save is over is a bound of the model there.                             *)
CanSubmit(s) ==
    /\ Reachable(s)
    /\ ~job[s].on
    /\ page[s].list => dirty[s]

SubmitNothing(s) ==
    /\ CanSubmit(s)
    /\ Sent(s) = {}
    /\ told' = [told EXCEPT ![s] = "nothing"]
    /\ UNCHANGED <<page, store, base, form, dirty, puts, job, fetch, tries,
                   faults, causes, applied, hist>>

(* A save of the keys ks begins with the values vals.                      *)
Begin(s, ks, vals) ==
    /\ tries < MaxSubmits
    /\ tries' = tries + 1
    /\ \E now \in Batches(page[s], ks) :
        /\ job' = [job EXCEPT ![s] =
                     [on |-> TRUE, try |-> tries + 1, now |-> now,
                      left |-> ks \ now, bad |-> FALSE, snap |-> vals,
                      waits |-> FALSE]]
        /\ puts' = puts \cup Requests(s, tries + 1, now, vals)
    /\ asked' = [asked EXCEPT ![s] = {<<tries + 1, k>> : k \in ks}]
    /\ told' = [told EXCEPT ![s] = "none"]
    /\ UNCHANGED <<page, store, base, dirty, fetch, faults, causes, applied,
                   theirs>>

Submit(s) ==
    /\ CanSubmit(s)
    /\ Sent(s) # {}
    /\ Begin(s, Sent(s), form)
    /\ UNCHANGED <<form, edits, mine>>

(* A checkbox of SystemSetting saves itself when it is ticked.             *)
Check(s, k, v) ==
    /\ page[s].order = "flagsFirst"
    /\ CanSubmit(s)
    /\ k \in Owned(s) \cap Flags
    /\ form[k] # v
    /\ edits < MaxEdits
    /\ edits' = edits + 1
    /\ form' = [form EXCEPT ![k] = v]
    /\ mine' = mine \cup {k}
    /\ Begin(s, {k}, form')

(***************************************************************************)
(* The server and the network.                                             *)
(***************************************************************************)
(* A request whose save is over is forgotten with its answer.              *)
Awaited(p) == job[p.sec].on /\ job[p.sec].try = p.try

Become(p, st) ==
    IF Awaited(p) THEN (puts \ {p}) \cup {[p EXCEPT !.st = st]}
                  ELSE puts \ {p}

Fault(c) ==
    /\ faults < MaxFaults
    /\ faults' = faults + 1
    /\ causes' = causes \cup {c}

Put(values, k, v) == [l \in Keys |-> IF l \in Twins(k) THEN v ELSE values[l]]

Store(p) ==
    /\ store' = Put(store, p.key, p.val)
    /\ applied' = applied \cup {<<p.try, p.key>>}

Accept(p) ==
    /\ p.st = "sent"
    /\ Store(p)
    /\ puts' = Become(p, "ok")
    /\ UNCHANGED <<page, base, form, dirty, job, fetch, told, tries, faults,
                   causes, hist>>

(* A value is refused by a check before it is stored, or by the parser     *)
(* that updateOptionMap gives it to after it was.                          *)
Refuse(p) ==
    /\ p.st = "sent"
    /\ Store(p) \/ UNCHANGED <<store, applied>>
    /\ puts' = Become(p, "refused")
    /\ Fault("refused")
    /\ UNCHANGED <<page, base, form, dirty, job, fetch, told, tries, hist>>

(* The request, or the answer after the server has stored the value, is    *)
(* lost, and the promise of the request is rejected.                       *)
Lose(p) ==
    /\ p.st = "sent"
    /\ Store(p) \/ UNCHANGED <<store, applied>>
    /\ puts' = Become(p, "lost")
    /\ Fault("lost")
    /\ UNCHANGED <<page, base, form, dirty, job, fetch, told, tries, hist>>

WriteOutside(k, v) ==
    /\ v # store[k]
    /\ store' = Put(store, k, v)
    /\ theirs' = Put(theirs, k, v)
    /\ Fault("outside")
    /\ UNCHANGED <<page, base, form, dirty, puts, job, fetch, told, tries,
                   edits, mine, asked, applied>>

(***************************************************************************)
(* How a save goes on.                                                     *)
(***************************************************************************)
Mine(s) == {p \in puts : p.sec = s /\ p.try = job[s].try}

States(s) == {p.st : p \in Mine(s)}

Answered(s) == job[s].on /\ ~job[s].waits /\ States(s) \subseteq {"ok", "refused"}

Refused(s) == "refused" \in States(s) \/ job[s].bad

(* The rest of the requests of a save that is over stays on its way.       *)
Unread(s) == puts \ {p \in Mine(s) : p.st # "sent"}

(* In the catch of a page, or at its first rejected request.               *)
Rejected(s) ==
    /\ job[s].on
    /\ "lost" \in States(s)
    /\ told' = [told EXCEPT ![s] = "failed"]
    /\ job' = [job EXCEPT ![s] = Idle]
    /\ puts' = Unread(s)
    /\ UNCHANGED <<page, store, base, form, dirty, fetch, tries, faults, causes,
                   applied, hist>>

(* Mutant: the answers are not looked at. *)
StopsNever(s) == FALSE

(* A refused request ends the save where the page looks at each answer.    *)
Stops(s) ==
    /\ "refused" \in States(s)
    /\ \/ page[s].judge = "strict"
       \/ page[s].order = "flagsFirst" /\ job[s].now \subseteq Flags

StopRefused(s) ==
    /\ Answered(s)
    /\ Stops(s)
    /\ told' = [told EXCEPT ![s] = "failed"]
    /\ job' = [job EXCEPT ![s] = Idle]
    /\ puts' = Unread(s)
    /\ dirty' = [dirty EXCEPT ![s] = FALSE]
    /\ UNCHANGED <<page, store, base, form, fetch, tries, faults, causes,
                   applied, hist>>

NextBatch(s) ==
    /\ Answered(s)
    /\ ~Stops(s)
    /\ job[s].left # {}
    /\ \E now \in Batches(page[s], job[s].left) :
        /\ job' = [job EXCEPT ![s].now = now,
                              ![s].left = job[s].left \ now,
                              ![s].bad = Refused(s)]
        /\ puts' = Unread(s) \cup Requests(s, job[s].try, now, job[s].snap)
    /\ UNCHANGED <<page, store, base, form, dirty, fetch, told, tries, faults,
                   causes, applied, hist>>

(* Mutant: the save does not ask the parent to reload. *)
StartNoFetch == UNCHANGED <<fetch, causes>>

(* GET /api/option/ shares the promise of the same request in flight       *)
(* (patchAPIInstance): one that the server has already answered is old.    *)
StartFetch ==
    /\ fetch' = IF fetch.st = "none" THEN [st |-> "sent", val |-> NoValues]
                                     ELSE fetch
    /\ causes' = IF fetch.st = "read" THEN causes \cup {"shared"} ELSE causes

(* What the form shows after a save that needs no reload: SystemSetting    *)
(* writes back the inputs it captured when the save began, OtherSetting    *)
(* the value it has sent.                                                  *)
Written(s) ==
    [k \in Keys |->
        CASE page[s].after = "local" -> job[s].snap[k]
          [] page[s].after = "echo" /\ k \in job[s].now /\ ~Refused(s) ->
               job[s].snap[k]
          [] OTHER -> form[k]]

(* What the page compares with then: setOriginInputs takes the values that *)
(* were sent for loaded.                                                   *)
Rebased(s) ==
    [k \in Keys |-> IF page[s].after = "origin" /\ k \in Owned(s)
                    THEN job[s].snap[k] ELSE base[k]]

Reloads(s) == page[s].after \in {"refresh", "await", "origin"}

Verdict(s) == IF Refused(s) /\ page[s].judge = "both" THEN "both" ELSE "saved"

Finish(s) ==
    /\ Answered(s)
    /\ ~Stops(s)
    /\ job[s].left = {}
    /\ told' = [told EXCEPT ![s] = Verdict(s)]
    /\ puts' = Unread(s)
    /\ dirty' = [dirty EXCEPT ![s] = FALSE]
    /\ form' = Written(s)
    /\ base' = Rebased(s)
    /\ job' = [job EXCEPT ![s] =
                 IF page[s].after = "await" THEN [@ EXCEPT !.waits = TRUE]
                                            ELSE Idle]
    /\ IF Reloads(s) THEN StartFetch ELSE UNCHANGED <<fetch, causes>>
    /\ UNCHANGED <<page, store, tries, faults, applied, hist>>

(***************************************************************************)
(* The parent reads the options.                                           *)
(***************************************************************************)
ReadOptions ==
    /\ fetch.st = "sent"
    /\ fetch' = [st |-> "read", val |-> store]
    /\ UNCHANGED <<page, store, base, form, dirty, puts, job, told, tries,
                   faults, causes, applied, hist>>

(* Mutant: a save that awaits the reload is not ended by it. *)
ReleasedNone == job

(* The saves that await the refresh end with it.                           *)
Released == [s \in Sections |-> IF job[s].waits THEN Idle ELSE job[s]]

(* Every section takes the new options; a list page only when its option   *)
(* has changed.                                                            *)
TakeOptions ==
    /\ fetch.st = "read"
    /\ form' = [k \in Keys |->
                  IF page[Owner[k]].list /\ fetch.val[k] = base[k]
                  THEN form[k] ELSE fetch.val[k]]
    /\ base' = fetch.val
    /\ fetch' = NoFetch
    /\ job' = Released
    /\ UNCHANGED <<page, store, dirty, puts, told, tries, faults, causes,
                   applied, hist>>

LoseOptions ==
    /\ fetch.st # "none"
    /\ fetch' = NoFetch
    /\ job' = Released
    /\ Fault("lost")
    /\ UNCHANGED <<page, store, base, form, dirty, puts, told, tries,
                   applied, hist>>

Server == \E p \in puts : Accept(p) \/ Refuse(p) \/ Lose(p)

Goes(s) == Rejected(s) \/ StopRefused(s) \/ NextBatch(s) \/ Finish(s)

Next ==
    \/ \E s \in Sections, k \in Keys, v \in Vals : Edit(s, k, v) \/ Check(s, k, v)
    \/ \E s \in Sections : SubmitNothing(s) \/ Submit(s) \/ Goes(s)
    \/ \E p \in puts : Accept(p) \/ Refuse(p) \/ Lose(p)
    \/ \E k \in Keys, v \in Vals : WriteOutside(k, v)
    \/ ReadOptions \/ TakeOptions \/ LoseOptions

(* A request is answered or fails, and the browser runs the handlers of a  *)
(* settled promise; nobody is obliged to edit or to save.                  *)
Fairness ==
    /\ WF_vars(Server)
    /\ \A s \in Sections : WF_vars(Goes(s))
    /\ WF_vars(ReadOptions \/ TakeOptions \/ LoseOptions)

Spec == Init /\ [][Next]_vars /\ Fairness

-----------------------------------------------------------------------------
(* The types of the variables.                                             *)
TypeOK ==
    /\ page \in [Sections -> AllPages]
    /\ store \in [Keys -> Vals]
    /\ base \in [Keys -> Vals]
    /\ form \in [Keys -> Vals]
    /\ dirty \in [Sections -> BOOLEAN]
    /\ puts \subseteq [sec : Sections, key : Keys, val : Vals,
                       try : 1..MaxSubmits,
                       st : {"sent", "ok", "refused", "lost"}]
    /\ job \in [Sections -> [on : BOOLEAN, try : 0..MaxSubmits,
                             now : SUBSET Keys, left : SUBSET Keys,
                             bad : BOOLEAN, snap : [Keys -> Vals],
                             waits : BOOLEAN]]
    /\ fetch \in [st : {"none", "sent", "read"}, val : [Keys -> Vals]]
    /\ told \in [Sections -> Messages]
    /\ edits \in 0..MaxEdits
    /\ tries \in 0..MaxSubmits
    /\ faults \in 0..MaxFaults
    /\ causes \subseteq Causes
    /\ mine \subseteq Keys
    /\ theirs \in [Keys -> Vals]
    /\ asked \in [Sections -> SUBSET ((1..MaxSubmits) \X Keys)]
    /\ applied \subseteq (1..MaxSubmits) \X Keys

(* A page that judges its answers says that it has saved only when the     *)
(* server has stored every value of the save.                              *)
SavedMeansAccepted ==
    \A s \in Sections :
        told[s] = "saved" /\ page[s].judge = "strict" =>
            asked[s] \subseteq applied

(* An option that is only edited on pages that send what was changed       *)
(* (compareObjects), and that nobody edited on this console, keeps what    *)
(* others gave it: a save never writes back a stale value the user has not *)
(* touched, also when several sections edit the option, the form was       *)
(* filled by an older reload, or another section was saved in between.     *)
NoBlindOverwrite ==
    \A k \in Keys :
        (\A l \in Twins(k) : page[Owner[l]].sends = "changed" /\ l \notin mine)
            => store[k] = theirs[k]

Quiet ==
    /\ puts = {}
    /\ fetch.st = "none"
    /\ \A s \in Sections : ~job[s].on

(* Once everything has settled, the values a page compares with (inputsRow)*)
(* are the server's, for an option edited on pages that reload after a     *)
(* save, unless something happened that they cannot see: a lost message, a *)
(* write of another administrator, an answer shared with an older reload,  *)
(* or, on a page that then does not reload, a partly refused save.         *)
SettledShowsStore ==
    Quiet /\ causes \cap {"shared", "outside", "lost"} = {} =>
        \A k \in Keys :
            (\A l \in Twins(k) :
                /\ Reloads(Owner[l])
                /\ "refused" \in causes => page[Owner[l]].judge = "blind")
                => base[k] = store[k]

(* A save that has begun ends: the spinner that covers the page goes away, *)
(* whatever is refused or lost.                                            *)
SavingEnds == \A s \in Sections : job[s].on ~> ~job[s].on

=============================================================================
