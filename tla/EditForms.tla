----------------------------- MODULE EditForms -----------------------------
(***************************************************************************)
(* The dialogs that create or edit a record (EditTokenModal and the others *)
(* of EditFormKinds).  The page keeps one dialog for all its rows: which   *)
(* record it edits is a property, set by a click on a row and cleared when *)
(* the dialog is closed, for some dialogs 500 ms later by a timer.  The    *)
(* dialog reads its record when it is opened, and the answers of reads and *)
(* saves arrive in any order, also after the dialog was closed or opened   *)
(* again for another row.  The form is mounted when the dialog is opened   *)
(* (SideSheet and Modal of the component library destroy it when they are  *)
(* closed).  Of the values in the form the model keeps whose record they   *)
(* were read from, and whether the user has changed them.                  *)
(***************************************************************************)
EXTENDS Naturals, EditFormKinds

CONSTANTS
    Records,    \* the rows
    New,        \* no record: the dialog creates one
    Self,       \* the user's own account
    Init0,      \* the default values of a form
    MaxOpens,   \* bound on how often the dialog is opened
    MaxSaves,   \* bound on the saves
    MaxFaults   \* bound on refused and lost requests

ASSUME FormAssumption ==
    /\ New # Self /\ New # Init0 /\ Self # Init0
    /\ {New, Self, Init0} \cap Records = {}
    /\ MaxOpens \in Nat
    /\ MaxSaves \in Nat
    /\ MaxFaults \in Nat

VARIABLES
    kind,      \* the dialog
    shown,     \* it is visible
    editing,   \* the record it edits
    timers,    \* the timers that will clear the record
    form,      \* whose values are in the form, and whether they were changed
    loading,   \* the flag behind the spinner and the save button
    reads,     \* the records whose GET is in flight
    saves,     \* the saves in flight
    stored,    \* whose values each record holds at the server
    created,   \* the number of records created
    opens,     \* how often the dialog was opened
    tries,     \* saves so far
    faults,    \* refused and lost requests so far
    asked,     \* history: the record the user clicked on
    quiet,     \* history: nothing was on its way when the dialog was opened
    causes     \* history: what the dialogs do not defend themselves against

vars == <<kind, shown, editing, timers, form, loading, reads, saves, stored,
          created, opens, tries, faults, asked, quiet, causes>>

Blank == [of |-> Init0, edited |-> FALSE]

(* A dialog without a record may read the user's own account at once.      *)
Init ==
    /\ kind \in Kinds
    /\ shown = FALSE
    /\ editing = New
    /\ timers = 0
    /\ form = Blank
    /\ loading = kind.self
    /\ reads = IF kind.self THEN {Self} ELSE {}
    /\ saves = {}
    /\ stored = [r \in Records |-> r]
    /\ created = 0
    /\ opens = 0
    /\ tries = 0
    /\ faults = 0
    /\ asked = New
    /\ quiet = TRUE
    /\ causes = {}

(***************************************************************************)
(* The effects that run when the dialog or its record has changed.         *)
(***************************************************************************)
Moved(sh, ed) == sh # shown \/ ed # editing

Fetches(sh, ed) ==
    CASE kind.loads = "shown" -> Moved(sh, ed) /\ sh /\ ed # New
      [] kind.loads = "id" -> ed # editing /\ (ed # New \/ kind.self)
      [] kind.loads = "tag" -> Moved(sh, ed) /\ ed # New
      [] OTHER -> FALSE

Source(ed) == IF ed = New THEN Self ELSE ed

Rendered(sh, ed) ==
    IF sh /\ ~shown /\ kind.loads = "passed"
    THEN [of |-> IF ed = New THEN Init0 ELSE ed, edited |-> FALSE]
    ELSE IF \/ ~sh \/ ~shown
            \/ kind.loads # "passed" /\ ed # editing /\ ed = New
         THEN Blank ELSE form

(* Mutant: a read that is started does not set loading. *)
FlaggedNot(sh, ed, flag) == flag

Flagged(sh, ed, flag) == flag \/ Fetches(sh, ed)

Render(sh, ed, flag) ==
    /\ shown' = sh
    /\ editing' = ed
    /\ form' = Rendered(sh, ed)
    /\ reads' = IF Fetches(sh, ed) THEN reads \cup {Source(ed)} ELSE reads
    /\ loading' = Flagged(sh, ed, flag)

Targets ==
    CASE kind.opens = "old" -> Records
      [] kind.opens = "new" -> {New}
      [] OTHER -> Records \cup {New}

(* A question about the values of a save covers the page.                  *)
Asking == \E s \in saves : s.st = "confirm"

(* Mutant: the click does not set the record. *)
OpenForgets(r) ==
    /\ ~shown /\ ~Asking
    /\ opens < MaxOpens
    /\ opens' = opens + 1
    /\ asked' = r
    /\ quiet' = (reads = {} /\ saves = {} /\ timers = 0)
    /\ Render(TRUE, editing, loading)
    /\ UNCHANGED <<kind, timers, saves, stored, created, tries, faults, causes>>

(* The dialog covers the rows, so that it is closed when one is clicked.   *)
Open(r) ==
    /\ ~shown /\ ~Asking
    /\ opens < MaxOpens
    /\ opens' = opens + 1
    /\ asked' = r
    /\ quiet' = (reads = {} /\ saves = {} /\ timers = 0)
    /\ Render(TRUE, r, loading)
    /\ causes' = causes \cup (IF timers > 0 /\ r # New THEN {"timer"} ELSE {})
    /\ UNCHANGED <<kind, timers, saves, stored, created, tries, faults>>

(* What the edited record is once the dialog is closed.                    *)
Kept == IF kind.close = "now" THEN New ELSE editing

(* handleClose of the page, also called by a save that has succeeded.      *)
Closing(flag) ==
    /\ Render(FALSE, Kept, flag)
    /\ timers' = IF kind.close = "timer" THEN timers + 1 ELSE timers

Cancel ==
    /\ shown /\ ~Asking
    /\ Closing(loading)
    /\ UNCHANGED <<kind, saves, stored, created, opens, tries, faults, asked,
                   quiet, causes>>

TimerFires ==
    /\ timers > 0
    /\ timers' = timers - 1
    /\ Render(shown, New, loading)
    /\ UNCHANGED <<kind, saves, stored, created, opens, tries, faults, asked,
                   quiet, causes>>

Edit ==
    /\ shown /\ ~Asking
    /\ kind.covers => ~loading
    /\ ~form.edited
    /\ form' = [form EXCEPT !.edited = TRUE]
    /\ UNCHANGED <<kind, shown, editing, timers, loading, reads, saves, stored,
                   created, opens, tries, faults, asked, quiet, causes>>

(***************************************************************************)
(* The answer to a read.                                                   *)
(***************************************************************************)
Filled(r) ==
    IF ~shown THEN form
    ELSE IF kind.merges THEN [form EXCEPT !.of = r] ELSE [of |-> r, edited |-> FALSE]

Loaded(r) ==
    /\ reads' = reads \ {r}
    /\ form' = Filled(r)
    /\ loading' = FALSE
    /\ causes' = causes \cup
         (IF shown /\ (r # Source(editing) \/ (form.edited /\ ~kind.merges))
          THEN {"crossed"} ELSE {})
    /\ UNCHANGED <<kind, shown, editing, timers, saves, stored, created, opens,
                   tries, faults, asked, quiet>>

Fault(c) ==
    /\ faults < MaxFaults
    /\ faults' = faults + 1
    /\ causes' = causes \cup {c}

LoadRefused(r) ==
    /\ reads' = reads \ {r}
    /\ loading' = FALSE
    /\ Fault("unloaded")
    /\ UNCHANGED <<kind, shown, editing, timers, form, saves, stored, created,
                   opens, tries, asked, quiet>>

(* Mutant: a failed read leaves loading set. *)
FreedNever(what) == loading

(* Where nothing catches the rejection the flag stays set.                 *)
Freed(what) == IF what \in kind.caught THEN FALSE ELSE loading

LoadLost(r) ==
    /\ reads' = reads \ {r}
    /\ loading' = Freed("load")
    /\ Fault(IF "load" \in kind.caught THEN "unloaded" ELSE "stuck")
    /\ UNCHANGED <<kind, shown, editing, timers, form, saves, stored, created,
                   opens, tries, asked, quiet>>

(***************************************************************************)
(* A save.                                                                 *)
(***************************************************************************)
CanSave ==
    /\ shown /\ ~Asking
    /\ kind.blocks => ~loading
    /\ kind.needs => form.of # Init0 \/ form.edited

(* What is sent is fixed by the click, also if a question comes first.     *)
Submit(n) ==
    /\ CanSave
    /\ tries < MaxSaves
    /\ n \in (IF editing = New THEN kind.counts ELSE {1})
    /\ tries' = tries + 1
    /\ \E st \in (IF kind.confirms THEN {"confirm", "sent"} ELSE {"sent"}) :
         saves' = saves \cup
           {[try |-> tries + 1, dialog |-> opens, rec |-> editing, of |-> form.of,
             left |-> n, got |-> FALSE, st |-> st, asked |-> asked, quiet |-> quiet]}
    /\ loading' = (loading \/ kind.blocks)
    /\ UNCHANGED <<kind, shown, editing, timers, form, reads, stored, created,
                   opens, faults, asked, quiet, causes>>

(* A value that the dialog itself refuses: a new record loses what was     *)
(* typed, the other exits change nothing.                                  *)
Invalid ==
    /\ CanSave
    /\ kind.checks
    /\ editing = New /\ form.edited
    /\ form' = Blank
    /\ UNCHANGED <<kind, shown, editing, timers, loading, reads, saves, stored,
                   created, opens, tries, faults, asked, quiet, causes>>

(* An empty field of the form of tags is not sent.                         *)
Store(s) ==
    /\ stored' = IF s.rec = New \/ (kind.merges /\ s.of = Init0)
                 THEN stored ELSE [stored EXCEPT ![s.rec] = s.of]
    /\ created' = IF s.rec = New THEN created + 1 ELSE created

Become(s, st) == (saves \ {s}) \cup {[s EXCEPT !.st = st]}

(* The user goes on, may have the missing values added to the form, ...    *)
Confirm(s) ==
    /\ s.st = "confirm"
    /\ saves' = Become(s, "sent")
    /\ form' = form \/ (shown /\ form' = [form EXCEPT !.edited = TRUE])
    /\ UNCHANGED <<kind, shown, editing, timers, loading, reads, stored, created,
                   opens, tries, faults, asked, quiet, causes>>

(* ... or goes back to the form.                                           *)
Dismiss(s) ==
    /\ s.st = "confirm"
    /\ saves' = saves \ {s}
    /\ UNCHANGED <<kind, shown, editing, timers, form, loading, reads, stored,
                   created, opens, tries, faults, asked, quiet, causes>>

Accept(s) ==
    /\ s.st = "sent"
    /\ Store(s)
    /\ saves' = Become(s, "ok")
    /\ UNCHANGED <<kind, shown, editing, timers, form, loading, reads, opens,
                   tries, faults, asked, quiet, causes>>

Refuse(s) ==
    /\ s.st = "sent"
    /\ saves' = Become(s, "refused")
    /\ Fault("refused")
    /\ UNCHANGED <<kind, shown, editing, timers, form, loading, reads, stored,
                   created, opens, tries, asked, quiet>>

Lose(s) ==
    /\ s.st = "sent"
    /\ Store(s) \/ UNCHANGED <<stored, created>>
    /\ saves' = Become(s, "lost")
    /\ Fault("lost")
    /\ UNCHANGED <<kind, shown, editing, timers, form, loading, reads, opens,
                   tries, asked, quiet>>

(* A token is created after the other.                                     *)
SaveNext(s) ==
    /\ s.st = "ok"
    /\ s.left > 1
    /\ saves' = (saves \ {s}) \cup
                  {[s EXCEPT !.left = s.left - 1, !.got = TRUE, !.st = "sent"]}
    /\ UNCHANGED <<kind, shown, editing, timers, form, loading, reads, stored,
                   created, opens, tries, faults, asked, quiet, causes>>

(* A refused creation of a second token is still a success of the first.   *)
Succeeded(s) ==
    \/ s.st = "ok" /\ s.left = 1
    \/ s.st = "refused" /\ s.got

Uncovered == loading /\ ~kind.blocks

(* Mutant: every dialog clears its form. *)
ClearedAlways == Blank

Cleared == IF kind.wipes THEN Blank ELSE form

(* The answer of a save meets a dialog that was opened since.              *)
Late(s) == IF shown /\ s.dialog # opens THEN {"crossed"} ELSE {}

(* refresh and handleClose: a dialog that was opened since is closed too.  *)
SaveDone(s) ==
    /\ Succeeded(s)
    /\ saves' = saves \ {s}
    /\ Closing(Uncovered)
    /\ UNCHANGED <<kind, stored, created, opens, tries, faults, asked, quiet, causes>>

SaveRefused(s) ==
    /\ s.st = "refused"
    /\ ~Succeeded(s)
    /\ saves' = saves \ {s}
    /\ loading' = Uncovered
    /\ form' = Cleared
    /\ causes' = causes \cup Late(s) \cup (IF kind.wipes THEN {"wiped"} ELSE {})
    /\ UNCHANGED <<kind, shown, editing, timers, reads, stored, created, opens,
                   tries, faults, asked, quiet>>

SaveLost(s) ==
    /\ s.st = "lost"
    /\ saves' = saves \ {s}
    /\ loading' = Freed("save")
    /\ form' = IF "save" \in kind.caught THEN Cleared ELSE form
    /\ causes' = causes \cup Late(s) \cup
         (IF "save" \notin kind.caught /\ kind.blocks THEN {"stuck"}
          ELSE IF kind.wipes THEN {"wiped"} ELSE {})
    /\ UNCHANGED <<kind, shown, editing, timers, reads, stored, created, opens,
                   tries, faults, asked, quiet>>

Answers ==
    \/ \E r \in reads : Loaded(r) \/ LoadRefused(r) \/ LoadLost(r)
    \/ \E s \in saves :
         \/ Accept(s) \/ Refuse(s) \/ Lose(s)
         \/ SaveNext(s) \/ SaveDone(s) \/ SaveRefused(s) \/ SaveLost(s)

Next ==
    \/ \E r \in Targets : Open(r)
    \/ Cancel
    \/ TimerFires
    \/ Edit
    \/ \E n \in {1, 2} : Submit(n)
    \/ Invalid
    \/ \E r \in reads : Loaded(r) \/ LoadRefused(r) \/ LoadLost(r)
    \/ \E s \in saves :
         \/ Confirm(s) \/ Dismiss(s)
         \/ Accept(s) \/ Refuse(s) \/ Lose(s)
         \/ SaveNext(s) \/ SaveDone(s) \/ SaveRefused(s) \/ SaveLost(s)

(* Requests are answered or fail, and timers fire.                         *)
Spec == Init /\ [][Next]_vars /\ WF_vars(Answers) /\ WF_vars(TimerFires)

-----------------------------------------------------------------------------
(* The types of the variables.                                             *)
TypeOK ==
    /\ kind \in Kinds
    /\ shown \in BOOLEAN
    /\ editing \in Records \cup {New}
    /\ timers \in Nat
    /\ form \in [of : Records \cup {Init0, Self}, edited : BOOLEAN]
    /\ loading \in BOOLEAN
    /\ reads \subseteq Records \cup {Self}
    /\ saves \subseteq [try : 1..MaxSaves, dialog : 0..MaxOpens,
                        rec : Records \cup {New},
                        of : Records \cup {Init0, Self}, left : {1, 2},
                        got : BOOLEAN,
                        st : {"confirm", "sent", "ok", "refused", "lost"},
                        asked : Records \cup {New}, quiet : BOOLEAN]
    /\ stored \in [Records -> Records \cup {Init0, Self}]
    /\ created \in Nat
    /\ opens \in 0..MaxOpens
    /\ tries \in 0..MaxSaves
    /\ faults \in 0..MaxFaults
    /\ asked \in Records \cup {New}
    /\ quiet \in BOOLEAN
    /\ causes \subseteq {"timer", "crossed", "unloaded", "stuck", "refused",
                         "lost", "wiped"}

(* What a record may get other values from: reads of two records crossed,  *)
(* a read failed, or a failed save has cleared the form; and for a dialog  *)
(* that reads only when its record changes, the timer of the last closing  *)
(* that still ran when it was opened.                                      *)
Spoiling ==
    {"crossed", "unloaded", "wiped"} \cup (IF kind.loads = "id" THEN {"timer"} ELSE {})

(* A record holds the values it had, as changed by the user, never those   *)
(* of another record, of the administrator's account or of an empty form,  *)
(* also where the timer of the last closing empties an open dialog.        *)
OwnValuesStored ==
    causes \cap Spoiling = {} => \A r \in Records : stored[r] = r

(* A dialog that was opened when no request and no timer of an earlier     *)
(* opening was left saves to the record that was clicked, and saves the    *)
(* values read from it, whatever is refused, lost or asked in between; but *)
(* not once a read has failed or a failed save has cleared a form.         *)
QuietSaves ==
    \A s \in saves :
        s.quiet /\ causes \cap {"unloaded", "wiped"} = {} =>
            /\ s.rec = s.asked
            /\ s.rec = New \/ s.of = s.rec \/ (kind.merges /\ s.of = Init0)

(* In such a dialog nothing takes away what was typed while it is open: a  *)
(* dialog that covers its fields while it loads is filled by its read      *)
(* before the user can type, and a failed save leaves the form alone.      *)
TypedKept ==
    [][quiet /\ kind.covers /\ ~kind.wipes /\ shown /\ shown' /\ form.edited =>
         form'.edited]_vars

(* The dialog does not stay blocked, unless a rejected request was not     *)
(* caught.                                                                 *)
Unblocked == loading ~> (~loading \/ "stuck" \in causes)

=============================================================================
