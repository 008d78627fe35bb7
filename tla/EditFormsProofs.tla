-------------------------- MODULE EditFormsProofs --------------------------
(***************************************************************************)
(* Proofs about the dialogs that create or edit a record, for any records  *)
(* and any number of openings, saves and failed requests.                  *)
(***************************************************************************)
EXTENDS EditForms, TLAPS

(***************************************************************************)
(* The inductive invariant                                                 *)
(***************************************************************************)
\* None of the causes for which a record may get other values has happened.
Good == causes \cap Spoiling = {}

\* A closed dialog has no record, or a timer that will clear it, unless it
\* keeps its record.
TimerInv == ~shown /\ kind.close # "keep" => editing = New \/ timers > 0

\* A question about a save belongs to the dialog that is open.
AskInv == \A s \in saves : s.st = "confirm" /\ shown => s.dialog = opens

\* The dialog waits for its record: no value of it is in the form, the save
\* button does nothing, and no save of this opening is on its way.
Waiting ==
    /\ form.of = Init0
    /\ loading
    /\ form.edited => kind.blocks
    /\ \A s \in saves : s.dialog # opens

\* The values in the dialog of a record are those of the record.
FormInv ==
    Good /\ shown /\ editing # New =>
        \/ form.of = editing
        \/ IF kind.merges THEN form.of = Init0 ELSE Waiting

\* And so are the values that are saved.
SavesInv ==
    /\ \A s \in saves : s.dialog <= opens
    /\ Good => \A s \in saves :
                  s.rec = New \/ s.of = s.rec \/ (kind.merges /\ s.of = Init0)

\* A dialog that has no record to edit creates one.
TargetInv == kind.opens = "new" => editing = New

\* In a dialog that was opened when nothing was on its way: no timer runs,
\* the dialog is on its record, only its own read is on its way, and then
\* the flag is set, the form is empty and no save was sent.
QuietDialog ==
    /\ timers = 0 /\ editing = asked
    /\ reads \subseteq {Source(editing)}
    /\ reads # {} => loading /\ saves = {}
    /\ reads # {} /\ ~kind.merges => form.of = Init0 /\ (kind.covers => ~form.edited)

QuietInv == quiet /\ shown => QuietDialog

\* No read has failed, and no failed save has cleared a form.
Unfailed == causes \cap {"unloaded", "wiped"} = {}

\* The form of such a dialog has the values of its record, or waits for them.
QuietForm ==
    quiet /\ shown /\ editing # New /\ Unfailed =>
        \/ form.of = editing
        \/ IF kind.merges THEN form.of = Init0
           ELSE form.of = Init0 /\ loading /\ (form.edited => kind.blocks) /\ saves = {}

IInv == /\ TypeOK /\ TargetInv /\ TimerInv /\ AskInv
        /\ FormInv /\ SavesInv /\ OwnValuesStored
        /\ QuietInv /\ QuietForm /\ QuietSaves

(***************************************************************************)
(* Facts about the dialogs and about one step                              *)
(***************************************************************************)
Wellformed(k) ==
    /\ k.opens \in {"old", "new", "both"}
    /\ k.loads \in {"shown", "id", "tag", "passed", "none"}
    /\ k.close \in {"timer", "now", "keep"}
    /\ k.self \in BOOLEAN /\ k.merges \in BOOLEAN /\ k.blocks \in BOOLEAN
    /\ k.covers \in BOOLEAN /\ k.wipes \in BOOLEAN /\ k.needs \in BOOLEAN
    /\ k.confirms \in BOOLEAN /\ k.checks \in BOOLEAN
    /\ k.counts \subseteq {1, 2}
    /\ k.loads = "none" => k.opens = "new"
    /\ k.merges <=> k.loads = "tag"
    /\ ~k.merges => k.needs
    /\ k.covers \/ k.blocks
    /\ ~k.blocks => ~k.merges
    /\ k.checks => k.wipes
    /\ k.loads = "id" => k.close # "keep"

\* What the ten dialogs have in common, as far as the proofs need it.
LEMMA KindFacts == \A k \in Kinds : Wellformed(k)
<1> USE DEF Sheet, Wellformed
<1>1. Wellformed(EditTokenModal)
  BY DEF EditTokenModal
<1>2. Wellformed(EditUserModal)
  BY DEF EditUserModal
<1>3. Wellformed(AddUserModal)
  BY DEF AddUserModal
<1>4. Wellformed(EditRedemptionModal)
  BY DEF EditRedemptionModal
<1>5. Wellformed(EditModelModal)
  BY DEF EditModelModal
<1>6. Wellformed(EditVendorModal)
  BY DEF EditVendorModal
<1>7. Wellformed(EditPrefillGroupModal)
  BY DEF EditPrefillGroupModal
<1>8. Wellformed(EditTagModal)
  BY DEF EditTagModal
<1>9. Wellformed(EditChannelModal)
  BY DEF EditChannelModal
<1>10. Wellformed(ContractForm)
  BY DEF ContractForm
<1> HIDE DEF Wellformed
<1> QED BY <1>1, <1>2, <1>3, <1>4, <1>5, <1>6, <1>7, <1>8, <1>9, <1>10 DEF Kinds

\* What the answer to a request can add to causes.
Causes == {"timer", "crossed", "unloaded", "stuck", "refused", "lost", "wiped"}
Values == Records \cup {Init0, Self}
FormType == [of : Values, edited : BOOLEAN]
SaveType == [try : 1..MaxSaves, dialog : 0..MaxOpens, rec : Records \cup {New},
             of : Values, left : {1, 2}, got : BOOLEAN,
             st : {"confirm", "sent", "ok", "refused", "lost"},
             asked : Records \cup {New}, quiet : BOOLEAN]

LEMMA FormChanges ==
    ASSUME NEW f \in FormType, NEW v \in Values, NEW b \in BOOLEAN
    PROVE  /\ Blank \in FormType /\ Blank.of = Init0 /\ ~Blank.edited
           /\ [of |-> v, edited |-> b] \in FormType
           /\ [f EXCEPT !.of = v] \in FormType
           /\ [f EXCEPT !.of = v].of = v /\ [f EXCEPT !.of = v].edited = f.edited
           /\ [f EXCEPT !.edited = b] \in FormType
           /\ [f EXCEPT !.edited = b].of = f.of /\ [f EXCEPT !.edited = b].edited = b
BY DEF Blank, FormType, Values

\* A save that has moved on is the same save.
Same(n, s) ==
    /\ n.dialog = s.dialog /\ n.rec = s.rec /\ n.of = s.of
    /\ n.asked = s.asked /\ n.quiet = s.quiet

LEMMA SaveChanges ==
    ASSUME NEW s \in SaveType
    PROVE  /\ s.rec \in Records \cup {New} /\ s.of \in Values /\ s.dialog \in 0..MaxOpens
           /\ \A st \in {"sent", "ok", "refused", "lost"} :
                /\ [s EXCEPT !.st = st] \in SaveType
                /\ [s EXCEPT !.st = st].st = st
                /\ Same([s EXCEPT !.st = st], s)
           /\ s.left > 1 =>
                LET n == [s EXCEPT !.left = s.left - 1, !.got = TRUE, !.st = "sent"]
                IN  n \in SaveType /\ Same(n, s) /\ n.st = "sent"
<1>1. /\ s.rec \in Records \cup {New} /\ s.of \in Values /\ s.dialog \in 0..MaxOpens
      /\ \A st \in {"sent", "ok", "refused", "lost"} :
           /\ [s EXCEPT !.st = st] \in SaveType
           /\ [s EXCEPT !.st = st].st = st
           /\ Same([s EXCEPT !.st = st], s)
  BY DEF SaveType, Same
<1>2. ASSUME s.left > 1
      PROVE  LET n == [s EXCEPT !.left = s.left - 1, !.got = TRUE, !.st = "sent"]
             IN  n \in SaveType /\ Same(n, s) /\ n.st = "sent"
  <2>1. s.left - 1 \in {1, 2}
    BY <1>2 DEF SaveType
  <2> QED BY <2>1 DEF SaveType, Same
<1> QED BY <1>1, <1>2

\* TypeOK in the words of the types above.
LEMMA Types ==
    TypeOK => /\ form \in FormType /\ saves \subseteq SaveType /\ causes \subseteq Causes
              /\ stored \in [Records -> Values] /\ reads \subseteq Records \cup {Self}
              /\ editing \in Records \cup {New} /\ shown \in BOOLEAN /\ loading \in BOOLEAN
              /\ opens \in 0..MaxOpens /\ tries \in 0..MaxSaves /\ timers \in Nat
              /\ created \in Nat /\ asked \in Records \cup {New} /\ kind \in Kinds
              /\ quiet \in BOOLEAN /\ Wellformed(kind)
BY KindFacts DEF TypeOK, FormType, SaveType, Causes, Values

\* The targets of a click.
LEMMA TargetFacts ==
    ASSUME TypeOK, NEW r \in Targets
    PROVE  r \in Records \cup {New} /\ (kind.opens = "new" => r = New)
BY Types DEF Targets, Wellformed

\* A rendering keeps the types.
LEMMA RenderTypes ==
    ASSUME TypeOK, NEW sh \in BOOLEAN, NEW ed \in Records \cup {New},
           NEW flag \in BOOLEAN, Render(sh, ed, flag)
    PROVE  /\ shown' \in BOOLEAN /\ editing' \in Records \cup {New}
           /\ form' \in FormType /\ reads' \subseteq Records \cup {Self}
           /\ loading' \in BOOLEAN
<1>1. shown' \in BOOLEAN /\ editing' \in Records \cup {New}
  BY DEF Render
<1>2. Source(ed) \in Records \cup {Self}
  BY DEF Source
<1>3. Rendered(sh, ed) \in FormType
  <2>1. (IF ed = New THEN Init0 ELSE ed) \in Values
    BY DEF Values
  <2>2. form \in FormType
    BY Types
  <2>3. Blank \in FormType /\ \A v \in Values : [of |-> v, edited |-> FALSE] \in FormType
    BY DEF Blank, FormType, Values
  <2> QED BY <2>1, <2>2, <2>3 DEF Rendered
<1>4. form' \in FormType
  BY <1>3 DEF Render
<1>5. reads' \subseteq Records \cup {Self}
  BY <1>2, Types DEF Render
<1>6. loading' \in BOOLEAN
  BY Zenon DEF Render, Flagged
<1> QED BY <1>1, <1>4, <1>5, <1>6

\* A save that is stored changes at most its own record.
LEMMA StoreTypes ==
    ASSUME TypeOK, NEW s \in saves, Store(s)
    PROVE  stored' \in [Records -> Values] /\ created' \in Nat
<1>1. s.rec \in Records \cup {New} /\ s.of \in Values
  BY Types, SaveChanges
<1> QED BY <1>1, Types DEF Store

(***************************************************************************)
(* The types                                                               *)
(***************************************************************************)
LEMMA TypeInit == Init => TypeOK
<1> SUFFICES ASSUME Init PROVE TypeOK
  OBVIOUS
<1>1. form \in [of : Records \cup {Init0, Self}, edited : BOOLEAN]
  BY DEF Init, Blank
<1>2. shown \in BOOLEAN /\ loading \in BOOLEAN
  <2>1. kind.self \in BOOLEAN
    BY KindFacts DEF Init, Wellformed
  <2> QED BY <2>1 DEF Init
<1>3. stored \in [Records -> Records \cup {Init0, Self}]
  BY DEF Init
<1> QED BY <1>1, <1>2, <1>3, FormAssumption DEF Init, TypeOK

\* What a click, a closing and a timer leave alone.
LEMMA TypeRendered ==
    ASSUME TypeOK, NEW sh \in BOOLEAN, NEW ed \in Records \cup {New},
           NEW flag \in BOOLEAN, Render(sh, ed, flag),
           UNCHANGED <<kind, stored, created, tries, faults>>, timers' \in Nat,
           saves' \subseteq saves, opens' \in 0..MaxOpens,
           asked' \in Records \cup {New}, quiet' \in BOOLEAN, causes' \subseteq Causes
    PROVE  TypeOK'
<1>1. /\ shown' \in BOOLEAN /\ editing' \in Records \cup {New}
      /\ form' \in FormType /\ reads' \subseteq Records \cup {Self}
      /\ loading' \in BOOLEAN
  BY RenderTypes
<1> QED BY <1>1 DEF TypeOK, FormType, Causes, Values

\* The save that a click adds.
LEMMA SubmitSave ==
    ASSUME TypeOK, NEW n \in {1, 2}, Submit(n)
    PROVE  \E new : /\ new \in SaveType /\ saves' = saves \cup {new}
                    /\ new.dialog = opens /\ new.rec = editing /\ new.of = form.of
                    /\ new.asked = asked /\ new.quiet = quiet
<1>1. PICK st \in {"confirm", "sent"} : saves' = saves \cup
           {[try |-> tries + 1, dialog |-> opens, rec |-> editing, of |-> form.of,
             left |-> n, got |-> FALSE, st |-> st, asked |-> asked, quiet |-> quiet]}
  BY DEF Submit
<1>2. PICK new : new = [try |-> tries + 1, dialog |-> opens, rec |-> editing,
                        of |-> form.of, left |-> n, got |-> FALSE, st |-> st,
                        asked |-> asked, quiet |-> quiet]
  OBVIOUS
<1>3. tries + 1 \in 1..MaxSaves /\ form.of \in Values
  BY Types, FormAssumption DEF Submit, FormType
<1>4. new \in SaveType
  BY <1>2, <1>3, Types DEF SaveType
<1>5. /\ new.dialog = opens /\ new.rec = editing /\ new.of = form.of
      /\ new.asked = asked /\ new.quiet = quiet
  BY <1>2
<1> QED BY <1>1, <1>2, <1>4, <1>5

LEMMA TypeDialog ==
    ASSUME TypeOK,
           \/ \E r \in Targets : Open(r)
           \/ Cancel \/ TimerFires \/ Edit
           \/ Invalid
           \/ \E n \in {1, 2} : Submit(n)
    PROVE  TypeOK'
<1> USE FormAssumption
<1>1. ASSUME NEW r \in Targets, Open(r) PROVE TypeOK'
  <2>1. r \in Records \cup {New} /\ TRUE \in BOOLEAN /\ loading \in BOOLEAN
    BY TargetFacts, Types
  <2>2. /\ Render(TRUE, r, loading) /\ UNCHANGED <<kind, stored, created, tries, faults>>
        /\ timers' \in Nat /\ saves' \subseteq saves /\ opens' \in 0..MaxOpens
        /\ asked' \in Records \cup {New} /\ quiet' \in BOOLEAN /\ causes' \subseteq Causes
    <3>1. /\ Render(TRUE, r, loading)
          /\ UNCHANGED <<kind, stored, created, tries, faults, timers, saves>>
          /\ opens' = opens + 1 /\ opens < MaxOpens /\ asked' = r
          /\ quiet' = (reads = {} /\ saves = {} /\ timers = 0)
      BY <1>1 DEF Open
    <3>2. causes' \subseteq Causes
      BY <1>1, Types DEF Open, Causes
    <3>3. timers \in Nat /\ opens \in 0..MaxOpens
      BY Types
    <3>4. opens' \in 0..MaxOpens
      BY <3>1, <3>3
    <3> QED BY <2>1, <3>1, <3>2, <3>3, <3>4
  <2> QED BY <2>1, <2>2, TypeRendered
<1>2. Kept \in Records \cup {New}
  BY Types DEF Kept
<1>3. CASE Cancel
  <2>1. /\ Render(FALSE, Kept, loading) /\ UNCHANGED <<kind, stored, created, tries, faults>>
        /\ timers' \in Nat /\ saves' \subseteq saves /\ opens' \in 0..MaxOpens
        /\ asked' \in Records \cup {New} /\ quiet' \in BOOLEAN /\ causes' \subseteq Causes
    <3>1. /\ Render(FALSE, Kept, loading)
          /\ UNCHANGED <<kind, stored, created, tries, faults, opens, asked, quiet, causes>>
          /\ saves' \subseteq saves
          /\ timers' = IF kind.close = "timer" THEN timers + 1 ELSE timers
      BY <1>3 DEF Cancel, Closing
    <3>2. /\ timers \in Nat /\ opens \in 0..MaxOpens
          /\ asked \in Records \cup {New} /\ quiet \in BOOLEAN /\ causes \subseteq Causes
      BY Types
    <3>3. timers' \in Nat
      BY <3>1, <3>2
    <3> QED BY <3>1, <3>2, <3>3
  <2> QED BY <1>2, <2>1, TypeRendered, Types
<1>4. CASE TimerFires
  <2>1. /\ Render(shown, New, loading) /\ UNCHANGED <<kind, stored, created, tries, faults>>
        /\ timers' \in Nat /\ saves' \subseteq saves /\ opens' \in 0..MaxOpens
        /\ asked' \in Records \cup {New} /\ quiet' \in BOOLEAN /\ causes' \subseteq Causes
    BY <1>4, Types DEF TimerFires
  <2>2. shown \in BOOLEAN /\ New \in Records \cup {New} /\ loading \in BOOLEAN
    BY Types
  <2> QED BY <2>1, <2>2, TypeRendered
<1>5. CASE Edit
  <2>1. form' \in FormType
    BY <1>5, Types DEF Edit, FormType
  <2> QED BY <1>5, <2>1 DEF Edit, TypeOK, FormType, Values
<1>6. ASSUME NEW n \in {1, 2}, Submit(n) PROVE TypeOK'
  <2>1. PICK new : new \in SaveType /\ saves' = saves \cup {new}
    BY <1>6, SubmitSave
  <2>2. loading' \in BOOLEAN
    BY <1>6, Zenon DEF Submit
  <2>3. saves' \subseteq SaveType /\ tries' \in 0..MaxSaves
    <3>1. tries \in 0..MaxSaves /\ saves \subseteq SaveType
      BY Types
    <3>2. tries' = tries + 1 /\ tries < MaxSaves
      BY <1>6 DEF Submit
    <3>3. saves' \subseteq SaveType
      BY <2>1, <3>1
    <3> QED BY <3>1, <3>2, <3>3
  <2> QED BY <1>6, <2>2, <2>3 DEF Submit, TypeOK, SaveType, Values
<1>7. CASE Invalid
  <2>1. form' \in FormType
    BY <1>7 DEF Invalid, Blank, FormType, Values
  <2> QED BY <1>7, <2>1 DEF Invalid, TypeOK, FormType, Values
<1> QED BY <1>1, <1>3, <1>4, <1>5, <1>6, <1>7

LEMMA TypeRead ==
    ASSUME TypeOK, NEW r \in reads, Loaded(r) \/ LoadRefused(r) \/ LoadLost(r)
    PROVE  TypeOK'
<1> USE FormAssumption
<1>0. r \in Values
  BY Types DEF Values
<1>1. CASE Loaded(r)
  <2>1. form' \in FormType
    <3>1. form \in FormType /\ FALSE \in BOOLEAN
      BY Types
    <3>2. [form EXCEPT !.of = r] \in FormType /\ [of |-> r, edited |-> FALSE] \in FormType
      BY <1>0, <3>1, FormChanges
    <3> QED BY <1>1, <3>1, <3>2 DEF Loaded, Filled
  <2>2. causes' \subseteq Causes
    BY <1>1, Types DEF Loaded, Causes
  <2> QED BY <1>1, <2>1, <2>2 DEF Loaded, TypeOK, FormType, Causes, Values
<1>2. CASE LoadRefused(r)
  <2>1. loading' \in BOOLEAN
    BY <1>2, Zenon DEF LoadRefused
  <2>2. causes' \subseteq Causes /\ faults' \in 0..MaxFaults
    BY <1>2 DEF LoadRefused, Fault, TypeOK, Causes
  <2> QED BY <1>2, <2>1, <2>2 DEF LoadRefused, TypeOK, Causes
<1>3. CASE LoadLost(r)
  <2>1. loading' \in BOOLEAN
    BY <1>3 DEF LoadLost, Freed, TypeOK
  <2> QED BY <1>3, <2>1 DEF LoadLost, Fault, TypeOK
<1> QED BY <1>1, <1>2, <1>3

LEMMA TypeSave ==
    ASSUME TypeOK, NEW s \in saves,
           \/ Confirm(s) \/ Dismiss(s)
           \/ Accept(s) \/ Refuse(s) \/ Lose(s)
           \/ SaveNext(s) \/ SaveDone(s) \/ SaveRefused(s) \/ SaveLost(s)
    PROVE  TypeOK'
<1> USE FormAssumption
<1>0. s \in SaveType
  BY Types
<1>1. \A st \in {"sent", "ok", "refused", "lost"} : Become(s, st) \subseteq SaveType
  <2>1. \A st \in {"sent", "ok", "refused", "lost"} : [s EXCEPT !.st = st] \in SaveType
    BY <1>0, SaveChanges
  <2>2. saves \subseteq SaveType
    BY Types
  <2> QED BY <2>1, <2>2 DEF Become
<1>2. CASE Accept(s)
  <2>1. stored' \in [Records -> Values] /\ created' \in Nat
    BY <1>2, StoreTypes DEF Accept
  <2> QED BY <1>1, <1>2, <2>1 DEF Accept, TypeOK, SaveType, Values
<1>3. CASE Refuse(s)
  BY <1>1, <1>3 DEF Refuse, Fault, TypeOK, SaveType, Values
<1>4. CASE Lose(s)
  <2>1. stored' \in [Records -> Values] /\ created' \in Nat
    BY <1>4, StoreTypes, Types DEF Lose
  <2> QED BY <1>1, <1>4, <2>1 DEF Lose, Fault, TypeOK, SaveType, Values
<1>5. CASE SaveNext(s)
  <2>1. [s EXCEPT !.left = s.left - 1, !.got = TRUE, !.st = "sent"] \in SaveType
    BY <1>0, <1>5, SaveChanges DEF SaveNext
  <2>2. saves' \subseteq SaveType
    BY <1>5, <2>1, Types DEF SaveNext
  <2> QED BY <1>5, <2>2 DEF SaveNext, TypeOK, SaveType, Values
<1>6. CASE SaveDone(s)
  <2>1. Kept \in Records \cup {New} /\ FALSE \in BOOLEAN
    BY Types DEF Kept
  <2>2. Uncovered \in BOOLEAN
    BY Zenon DEF Uncovered
  <2>3. /\ Render(FALSE, Kept, Uncovered) /\ UNCHANGED <<kind, stored, created, tries, faults>>
        /\ timers' \in Nat /\ saves' \subseteq saves /\ opens' \in 0..MaxOpens
        /\ asked' \in Records \cup {New} /\ quiet' \in BOOLEAN /\ causes' \subseteq Causes
    <3>1. /\ Render(FALSE, Kept, Uncovered)
          /\ UNCHANGED <<kind, stored, created, tries, faults, opens, asked, quiet, causes>>
          /\ saves' \subseteq saves
          /\ timers' = IF kind.close = "timer" THEN timers + 1 ELSE timers
      BY <1>6 DEF SaveDone, Closing
    <3>2. /\ timers \in Nat /\ opens \in 0..MaxOpens
          /\ asked \in Records \cup {New} /\ quiet \in BOOLEAN /\ causes \subseteq Causes
      BY Types
    <3>3. timers' \in Nat
      BY <3>1, <3>2
    <3> QED BY <3>1, <3>2, <3>3
  <2> QED BY <2>1, <2>2, <2>3, TypeRendered
<1>7. Cleared \in FormType
  BY Types DEF Cleared, Blank, FormType, Values
<1>8. CASE SaveRefused(s)
  <2>1. loading' \in BOOLEAN
    BY <1>8, Zenon DEF SaveRefused, Uncovered
  <2>2. causes' \subseteq Causes
    BY <1>8, Types DEF SaveRefused, Late, Causes
  <2>3. form' \in FormType
    BY <1>7, <1>8 DEF SaveRefused
  <2> QED BY <1>8, <2>1, <2>2, <2>3 DEF SaveRefused, TypeOK, FormType, Causes, Values
<1>9. CASE SaveLost(s)
  <2>1. loading' \in BOOLEAN
    BY <1>9, Types DEF SaveLost, Freed
  <2>2. causes' \subseteq Causes
    BY <1>9, Types DEF SaveLost, Late, Causes
  <2>3. form' \in FormType
    BY <1>7, <1>9, Types DEF SaveLost
  <2> QED BY <1>9, <2>1, <2>2, <2>3 DEF SaveLost, TypeOK, FormType, Causes, Values
<1>10. CASE Confirm(s)
  <2>1. form' \in FormType
    <3>1. form \in FormType /\ TRUE \in BOOLEAN
      BY Types
    <3>2. [form EXCEPT !.edited = TRUE] \in FormType
      BY <3>1 DEF FormType
    <3> QED BY <1>10, <3>1, <3>2 DEF Confirm
  <2> QED BY <1>1, <1>10, <2>1 DEF Confirm, TypeOK, FormType, SaveType, Values
<1>11. CASE Dismiss(s)
  BY <1>11 DEF Dismiss, TypeOK
<1> QED BY <1>2, <1>3, <1>4, <1>5, <1>6, <1>8, <1>9, <1>10, <1>11

LEMMA TypeNext == TypeOK /\ [Next]_vars => TypeOK'
<1> SUFFICES ASSUME TypeOK, [Next]_vars PROVE TypeOK'
  OBVIOUS
<1>1. CASE UNCHANGED vars
  BY <1>1 DEF vars, TypeOK
<1> QED BY <1>1, TypeDialog, TypeRead, TypeSave DEF Next

(***************************************************************************)
(* The other parts of the invariant                                        *)
(***************************************************************************)
\* A cause is never taken back.
LEMMA CausesGrow == [Next]_vars => causes \subseteq causes' /\ kind' = kind
<1> SUFFICES ASSUME [Next]_vars PROVE causes \subseteq causes' /\ kind' = kind
  OBVIOUS
<1> USE DEF Next, vars, Fault
<1>1. ASSUME NEW r \in Targets, Open(r) PROVE causes \subseteq causes' /\ kind' = kind
  BY <1>1 DEF Open
<1>2. CASE Cancel \/ TimerFires \/ Edit \/ Invalid \/ \E n \in {1, 2} : Submit(n)
  BY <1>2 DEF Cancel, TimerFires, Edit, Invalid, Submit
<1>3. ASSUME NEW r \in reads, Loaded(r) \/ LoadRefused(r) \/ LoadLost(r)
      PROVE causes \subseteq causes' /\ kind' = kind
  BY <1>3 DEF Loaded, LoadRefused, LoadLost
<1>4. ASSUME NEW s \in saves,
             \/ Confirm(s) \/ Dismiss(s)
             \/ Accept(s) \/ Refuse(s) \/ Lose(s) \/ SaveNext(s) \/ SaveDone(s)
      PROVE causes \subseteq causes' /\ kind' = kind
  BY <1>4 DEF Confirm, Dismiss, Accept, Refuse, Lose, SaveNext, SaveDone
<1>5. ASSUME NEW s \in saves, SaveRefused(s) \/ SaveLost(s)
      PROVE causes \subseteq causes' /\ kind' = kind
  BY <1>5 DEF SaveRefused, SaveLost
<1>6. CASE UNCHANGED vars
  BY <1>6
<1> QED BY <1>1, <1>2, <1>3, <1>4, <1>5, <1>6

LEMMA GoodBefore == ASSUME [Next]_vars, Good' PROVE Good
BY CausesGrow DEF Good, Spoiling

\* Which steps open, close or clear the dialog; the others leave it alone.
Stays == UNCHANGED <<kind, shown, editing, timers, opens, asked, quiet>>
Shuts == /\ shown' = FALSE /\ editing' = Kept
         /\ UNCHANGED <<kind, opens, asked, quiet, causes>>
         /\ timers' = IF kind.close = "timer" THEN timers + 1 ELSE timers
         /\ saves' \subseteq saves /\ stored' = stored

LEMMA DialogSteps ==
    ASSUME [Next]_vars
    PROVE  \/ \E r \in Targets : Open(r)
           \/ TimerFires
           \/ Shuts
           \/ Stays
<1> USE DEF Fault, Stays, Shuts
<1>1. Cancel => Shuts
  BY DEF Cancel, Closing, Render
<1>2. ASSUME NEW n \in {1, 2}, Edit \/ Invalid \/ Submit(n) PROVE Stays
  BY <1>2 DEF Edit, Invalid, Submit
<1>3. ASSUME NEW r \in reads, Loaded(r) \/ LoadRefused(r) \/ LoadLost(r) PROVE Stays
  BY <1>3 DEF Loaded, LoadRefused, LoadLost
<1>4. ASSUME NEW s \in saves,
             Confirm(s) \/ Dismiss(s) \/ Accept(s) \/ Refuse(s) \/ Lose(s) \/ SaveNext(s)
      PROVE  Stays
  BY <1>4 DEF Confirm, Dismiss, Accept, Refuse, Lose, SaveNext
<1>5. ASSUME NEW s \in saves, SaveRefused(s) \/ SaveLost(s) PROVE Stays
  BY <1>5 DEF SaveRefused, SaveLost
<1>6. ASSUME NEW s \in saves, SaveDone(s) PROVE Shuts
  BY <1>6 DEF SaveDone, Closing, Render
<1>7. UNCHANGED vars => Stays
  BY DEF vars
<1> HIDE DEF Stays, Shuts
<1> QED BY <1>1, <1>2, <1>3, <1>4, <1>5, <1>6, <1>7 DEF Next

LEMMA TargetNext == TypeOK /\ TargetInv /\ [Next]_vars => TargetInv'
<1> SUFFICES ASSUME TypeOK, TargetInv, [Next]_vars, kind.opens = "new" PROVE editing' = New
  BY CausesGrow DEF TargetInv
<1>0. editing = New
  BY DEF TargetInv
<1>1. ASSUME NEW r \in Targets, Open(r) PROVE editing' = New
  BY <1>1, TargetFacts DEF Open, Render
<1>2. CASE Shuts
  BY <1>0, <1>2 DEF Shuts, Kept
<1>3. CASE TimerFires
  BY <1>3 DEF TimerFires, Render
<1>4. CASE Stays
  BY <1>0, <1>4 DEF Stays
<1> QED BY <1>1, <1>2, <1>3, <1>4, DialogSteps

LEMMA TimerNext == TypeOK /\ TimerInv /\ [Next]_vars => TimerInv'
<1> SUFFICES ASSUME TypeOK, TimerInv, [Next]_vars PROVE TimerInv'
  OBVIOUS
<1>0. timers \in Nat /\ kind' = kind
  BY Types, CausesGrow
<1>1. ASSUME NEW r \in Targets, Open(r) PROVE TimerInv'
  BY <1>1 DEF Open, Render, TimerInv
<1>2. CASE Shuts
  <2>1. /\ shown' = FALSE /\ editing' = Kept
        /\ timers' = IF kind.close = "timer" THEN timers + 1 ELSE timers
    BY <1>2 DEF Shuts
  <2>2. CASE kind.close = "timer"
    BY <1>0, <2>1, <2>2 DEF TimerInv
  <2>3. CASE kind.close = "now"
    BY <2>1, <2>3 DEF Kept, TimerInv
  <2> QED BY <1>0, <2>2, <2>3, Types DEF Wellformed, TimerInv
<1>3. CASE TimerFires
  BY <1>3 DEF TimerFires, Render, TimerInv
<1>4. CASE Stays
  BY <1>4 DEF Stays, TimerInv
<1> QED BY <1>1, <1>2, <1>3, <1>4, DialogSteps

\* The form of a dialog that is opened has the record, or waits for it.
LEMMA FormOpen ==
    ASSUME TypeOK, TimerInv, SavesInv, NEW r \in Targets, Open(r), Good'
    PROVE  FormInv'
<1>0. /\ shown' = TRUE /\ editing' = r /\ form' = Rendered(TRUE, r)
      /\ loading' = (loading \/ Fetches(TRUE, r)) /\ ~shown
      /\ kind' = kind /\ saves' = saves /\ opens' = opens + 1
      /\ (timers > 0 /\ r # New => "timer" \in causes')
  BY DEF Open, Render, Flagged
<1> SUFFICES ASSUME r # New
             PROVE  form'.of = r \/ IF kind.merges THEN form'.of = Init0 ELSE Waiting'
  BY <1>0 DEF FormInv
<1>1. Wellformed(kind) /\ saves \subseteq SaveType /\ opens \in Nat
  BY Types
<1>2. CASE kind.loads = "passed"
  BY <1>0, <1>2 DEF Rendered
<1>3. CASE kind.loads # "passed"
  <2>1. form' = Blank /\ form'.of = Init0 /\ ~form'.edited
    BY <1>0, <1>3 DEF Rendered, Blank
  <2>2. ASSUME ~kind.merges PROVE Waiting'
    <3>1. kind.loads = "shown" \/ kind.loads = "id"
      BY <1>1, <1>3, <2>2, TargetFacts DEF Wellformed
    <3>2. kind.loads = "shown" => Fetches(TRUE, r)
      BY <1>0 DEF Fetches, Moved
    <3>3. ASSUME kind.loads = "id" PROVE Fetches(TRUE, r)
      <4>1. editing = New
        BY <1>0, <1>1, <3>3 DEF TimerInv, Wellformed, Good, Spoiling
      <4> QED BY <3>3, <4>1 DEF Fetches
    <3>4. loading'
      BY <1>0, <3>1, <3>2, <3>3
    <3>5. \A s \in saves : s.dialog # opens + 1
      BY <1>1 DEF SavesInv, SaveType
    <3> QED BY <1>0, <2>1, <3>4, <3>5 DEF Waiting
  <2> QED BY <2>1, <2>2
<1> QED BY <1>2, <1>3

\* A step that leaves the dialog, the form and the flag alone.
LEMMA FormKept ==
    ASSUME FormInv, Good, Stays, form' = form, loading' = loading,
           \A s \in saves' : \E t \in saves : s.dialog = t.dialog
    PROVE  FormInv'
BY DEF FormInv, Stays, Waiting, Good, Spoiling

LEMMA FormRead ==
    ASSUME TypeOK, FormInv, Good, Good', NEW r \in reads,
           Loaded(r) \/ LoadRefused(r) \/ LoadLost(r)
    PROVE  FormInv'
<1>0. r \in Values /\ form \in FormType
  BY Types DEF Values
<1>1. CASE Loaded(r)
  <2>1. Stays /\ form' = Filled(r)
    BY <1>1 DEF Loaded, Stays
  <2> SUFFICES ASSUME shown, editing # New PROVE form'.of = editing
    BY <2>1 DEF FormInv, Stays
  <2>2. r = editing
    BY <1>1 DEF Loaded, Good, Spoiling, Source
  <2> QED BY <1>0, <2>1, <2>2 DEF Filled, FormType
<1>2. CASE LoadRefused(r)
  BY <1>2 DEF LoadRefused, Fault, Good, Spoiling
<1>3. CASE LoadLost(r)
  <2>1. Stays /\ form' = form /\ saves' = saves
    BY <1>3 DEF LoadLost, Stays, Fault
  <2>2. loading' = loading
    BY <1>3 DEF LoadLost, Fault, Freed, Good, Spoiling
  <2> QED BY <2>1, <2>2, FormKept
<1> QED BY <1>1, <1>2, <1>3

\* Every save on its way was on its way before, and no question is new.
Derived == \A n \in saves' : \E t \in saves :
              Same(n, t) /\ (n.st = "confirm" => t.st = "confirm")

LEMMA DerivedSubset == saves' \subseteq saves => Derived
BY DEF Derived, Same

\* What a save that moves on leaves alone.
LEMMA SavesAfter ==
    ASSUME TypeOK, NEW s \in saves,
           Confirm(s) \/ Accept(s) \/ Refuse(s) \/ Lose(s) \/ SaveNext(s)
    PROVE  /\ Stays /\ loading' = loading /\ reads' = reads /\ Derived
           /\ form' = form \/ (shown /\ form'.of = form.of /\ form'.edited)
           /\ Confirm(s) \/ form' = form
<1>0. s \in SaveType /\ form \in FormType
  BY Types
<1>1. /\ Stays /\ loading' = loading /\ reads' = reads
      /\ Confirm(s) \/ form' = form
  BY DEF Confirm, Accept, Refuse, Lose, SaveNext, Fault, Stays
<1>2. form' = form \/ (shown /\ form'.of = form.of /\ form'.edited)
  <2>1. [form EXCEPT !.edited = TRUE].of = form.of /\ [form EXCEPT !.edited = TRUE].edited
    BY <1>0 DEF FormType
  <2> QED BY <1>1, <2>1 DEF Confirm
<1>3. ASSUME NEW n, saves' = (saves \ {s}) \cup {n}, Same(n, s), n.st # "confirm"
      PROVE  Derived
  BY <1>3 DEF Derived, Same
<1>4. ASSUME NEW st \in {"sent", "ok", "refused", "lost"}, saves' = Become(s, st)
      PROVE  Derived
  <2>1. PICK n : n = [s EXCEPT !.st = st]
    OBVIOUS
  <2>2. Same(n, s) /\ n.st # "confirm"
    BY <1>0, <2>1, SaveChanges
  <2> QED BY <1>3, <1>4, <2>1, <2>2 DEF Become
<1>5. CASE SaveNext(s)
  <2>1. PICK n : n = [s EXCEPT !.left = s.left - 1, !.got = TRUE, !.st = "sent"]
    OBVIOUS
  <2>2. Same(n, s) /\ n.st # "confirm"
    BY <1>0, <1>5, <2>1, SaveChanges DEF SaveNext
  <2>3. saves' = (saves \ {s}) \cup {n}
    BY <1>5, <2>1 DEF SaveNext
  <2> QED BY <1>1, <1>2, <1>3, <2>2, <2>3
<1>6. CASE Confirm(s) \/ Accept(s) \/ Refuse(s) \/ Lose(s)
  BY <1>1, <1>2, <1>4, <1>6 DEF Confirm, Accept, Refuse, Lose
<1> QED BY <1>5, <1>6

\* The step, as far as the invariants tell steps apart.
LEMMA Steps ==
    ASSUME TypeOK, [Next]_vars
    PROVE  \/ \E r \in Targets : Open(r)
           \/ shown' = FALSE /\ opens' = opens /\ saves' \subseteq saves
           \/ TimerFires
           \/ Edit
           \/ Invalid
           \/ \E n \in {1, 2} : Submit(n)
           \/ \E r \in reads : Loaded(r) \/ LoadRefused(r) \/ LoadLost(r)
           \/ \E s \in saves : Confirm(s) \/ Accept(s) \/ Refuse(s) \/ Lose(s) \/ SaveNext(s)
           \/ \E s \in saves : SaveRefused(s) \/ SaveLost(s)
           \/ /\ Stays /\ UNCHANGED <<form, loading, reads, causes>>
              /\ saves' \subseteq saves
<1>1. Cancel => shown' = FALSE /\ opens' = opens /\ saves' \subseteq saves
  BY DEF Cancel, Closing, Render
<1>2. ASSUME NEW s \in saves, SaveDone(s)
      PROVE  shown' = FALSE /\ opens' = opens /\ saves' \subseteq saves
  BY <1>2 DEF SaveDone, Closing, Render
<1>3. ASSUME NEW s \in saves, Dismiss(s)
      PROVE  Stays /\ UNCHANGED <<form, loading, reads, causes>> /\ saves' \subseteq saves
  BY <1>3 DEF Dismiss, Stays
<1>4. UNCHANGED vars =>
        Stays /\ UNCHANGED <<form, loading, reads, causes>> /\ saves' \subseteq saves
  BY DEF vars, Stays
<1> QED BY <1>1, <1>2, <1>3, <1>4 DEF Next

LEMMA AskNext == TypeOK /\ AskInv /\ [Next]_vars => AskInv'
<1> SUFFICES ASSUME TypeOK, AskInv, [Next]_vars PROVE AskInv'
  OBVIOUS
<1>1. ASSUME Derived, shown' => shown, opens' = opens PROVE AskInv'
  BY <1>1 DEF AskInv, Derived, Same
<1>2. ASSUME saves' \subseteq saves, shown' => shown, opens' = opens PROVE AskInv'
  BY <1>1, <1>2, DerivedSubset
<1>3. ASSUME NEW r \in Targets, Open(r) PROVE AskInv'
  BY <1>3 DEF Open, Asking, AskInv
<1>4. CASE TimerFires \/ Edit \/ Invalid
  BY <1>2, <1>4 DEF TimerFires, Render, Edit, Invalid
<1>5. ASSUME NEW n \in {1, 2}, Submit(n) PROVE AskInv'
  <2>1. PICK new : saves' = saves \cup {new} /\ new.dialog = opens
    BY <1>5, SubmitSave
  <2> QED BY <1>5, <2>1 DEF Submit, AskInv
<1>6. ASSUME NEW r \in reads, Loaded(r) \/ LoadRefused(r) \/ LoadLost(r) PROVE AskInv'
  BY <1>2, <1>6 DEF Loaded, LoadRefused, LoadLost
<1>7. ASSUME NEW s \in saves,
             Confirm(s) \/ Accept(s) \/ Refuse(s) \/ Lose(s) \/ SaveNext(s)
      PROVE  AskInv'
  BY <1>1, <1>7, SavesAfter DEF Stays
<1>8. ASSUME NEW s \in saves, SaveRefused(s) \/ SaveLost(s) PROVE AskInv'
  BY <1>2, <1>8 DEF SaveRefused, SaveLost
<1>9. ASSUME shown' = FALSE PROVE AskInv'
  BY <1>9 DEF AskInv
<1> QED BY <1>2, <1>3, <1>4, <1>5, <1>6, <1>7, <1>8, <1>9, Steps DEF Stays

\* The answer of a save that has failed meets the dialog that was saved.
LEMMA FormFailed ==
    ASSUME TypeOK, FormInv, Good, Good', NEW s \in saves, SaveRefused(s) \/ SaveLost(s)
    PROVE  FormInv'
<1>0. Stays /\ saves' = saves \ {s}
  BY DEF SaveRefused, SaveLost, Stays
<1> SUFFICES ASSUME shown, editing # New
             PROVE  form'.of = editing \/ (kind.merges /\ form'.of = Init0)
  BY <1>0 DEF FormInv, Stays
<1>1. s.dialog = opens
  BY DEF SaveRefused, SaveLost, Late, Good, Spoiling
<1>2. form.of = editing \/ (kind.merges /\ form.of = Init0)
  BY <1>1 DEF FormInv, Waiting
<1>3. CASE SaveRefused(s)
  <2>1. ~kind.wipes /\ form' = Cleared
    BY <1>3 DEF SaveRefused, Good, Spoiling
  <2> QED BY <1>2, <2>1 DEF Cleared
<1>4. CASE SaveLost(s)
  <2>1. "save" \in kind.caught => ~kind.wipes
    BY <1>4 DEF SaveLost, Good, Spoiling
  <2>2. form' = IF "save" \in kind.caught THEN Cleared ELSE form
    BY <1>4 DEF SaveLost
  <2> QED BY <1>2, <2>1, <2>2 DEF Cleared
<1> QED BY <1>3, <1>4

\* A save is sent only from a form that has the values of the record.
LEMMA SubmitFacts ==
    ASSUME TypeOK, FormInv, Good, NEW n \in {1, 2}, Submit(n)
    PROVE  editing = New \/ form.of = editing \/ (kind.merges /\ form.of = Init0)
<1> SUFFICES ASSUME editing # New, ~kind.merges PROVE form.of = editing
  BY DEF FormInv, Submit, CanSave
<1>1. CanSave
  BY DEF Submit
<1>2. Wellformed(kind)
  BY Types
<1>3. ~Waiting
  BY <1>1, <1>2 DEF Waiting, CanSave, Wellformed
<1> QED BY <1>1, <1>3 DEF FormInv, CanSave

LEMMA FormNext ==
    TypeOK /\ TimerInv /\ AskInv /\ SavesInv /\ FormInv /\ [Next]_vars => FormInv'
<1> SUFFICES ASSUME TypeOK, TimerInv, AskInv, SavesInv, FormInv, [Next]_vars, Good'
             PROVE  FormInv'
  BY DEF FormInv
<1>0. Good /\ kind' = kind
  BY GoodBefore, CausesGrow
<1>1. ASSUME NEW r \in Targets, Open(r) PROVE FormInv'
  BY <1>1, FormOpen
<1>2. ASSUME shown' = FALSE \/ editing' = New PROVE FormInv'
  BY <1>2 DEF FormInv
<1>3. CASE TimerFires
  BY <1>2, <1>3 DEF TimerFires, Render
<1>4. CASE Edit
  <2>1. Stays /\ form'.of = form.of /\ UNCHANGED <<loading, saves>> /\ (kind.covers => ~loading)
    <3>1. form \in FormType
      BY Types
    <3> QED BY <1>4, <3>1 DEF Edit, Stays, FormType
  <2>2. Waiting => Waiting'
    <3>1. Wellformed(kind)
      BY Types
    <3> QED BY <2>1, <3>1 DEF Waiting, Stays, Wellformed
  <2> QED BY <1>0, <2>1, <2>2 DEF FormInv, Stays
<1>5. CASE Invalid
  BY <1>2, <1>5 DEF Invalid
<1>6. ASSUME NEW n \in {1, 2}, Submit(n) PROVE FormInv'
  <2>1. Stays /\ form' = form
    BY <1>6 DEF Submit, Stays
  <2> QED BY <1>0, <1>6, <2>1, SubmitFacts DEF FormInv, Stays
<1>7. ASSUME NEW r \in reads, Loaded(r) \/ LoadRefused(r) \/ LoadLost(r) PROVE FormInv'
  BY <1>0, <1>7, FormRead
<1>8. ASSUME NEW s \in saves,
             Confirm(s) \/ Accept(s) \/ Refuse(s) \/ Lose(s) \/ SaveNext(s)
      PROVE  FormInv'
  <2>1. /\ Stays /\ loading' = loading /\ Derived
        /\ form' = form \/ (shown /\ form'.of = form.of /\ form'.edited)
        /\ Confirm(s) \/ form' = form
    BY <1>8, SavesAfter
  <2>2. CASE form' = form
    BY <1>0, <2>1, <2>2, FormKept DEF Derived, Same
  <2>3. CASE Confirm(s) /\ shown /\ form'.of = form.of
    <3>1. s.dialog = opens
      BY <2>3 DEF Confirm, AskInv
    <3>2. ~Waiting
      BY <3>1 DEF Waiting
    <3> QED BY <1>0, <2>1, <2>3, <3>2 DEF FormInv, Stays
  <2> QED BY <2>1, <2>2, <2>3
<1>9. ASSUME NEW s \in saves, SaveRefused(s) \/ SaveLost(s) PROVE FormInv'
  BY <1>0, <1>9, FormFailed
<1>10. ASSUME Stays, UNCHANGED <<form, loading, reads, causes>>, saves' \subseteq saves
       PROVE  FormInv'
  BY <1>0, <1>10, FormKept
<1> QED BY <1>1, <1>2, <1>3, <1>4, <1>5, <1>6, <1>7, <1>8, <1>9, <1>10, Steps

\* The values of a save are those of its record.
Owned(s) == s.rec = New \/ s.of = s.rec \/ (kind.merges /\ s.of = Init0)

LEMMA SavesNext == TypeOK /\ FormInv /\ SavesInv /\ [Next]_vars => SavesInv'
<1> SUFFICES ASSUME TypeOK, FormInv, SavesInv, [Next]_vars PROVE SavesInv'
  OBVIOUS
<1>0. /\ opens \in Nat /\ saves \subseteq SaveType /\ kind' = kind /\ (Good' => Good)
      /\ \A s \in saves : s.dialog \in Nat /\ s.dialog <= opens /\ (Good => Owned(s))
  BY Types, CausesGrow, GoodBefore DEF SavesInv, SaveType, Owned
<1>1. ASSUME opens' \in Nat, opens <= opens', Derived PROVE SavesInv'
  <2> SUFFICES ASSUME NEW n \in saves'
               PROVE  /\ n.dialog <= opens'
                      /\ Good' => n.rec = New \/ n.of = n.rec \/ (kind.merges /\ n.of = Init0)
    BY <1>0 DEF SavesInv
  <2>1. PICK t \in saves : n.dialog = t.dialog /\ n.rec = t.rec /\ n.of = t.of
    BY <1>1 DEF Derived, Same
  <2> QED BY <1>0, <1>1, <2>1 DEF Owned
<1>2. ASSUME saves' \subseteq saves, opens' = opens PROVE SavesInv'
  BY <1>0, <1>1, <1>2, DerivedSubset
<1>3. ASSUME NEW r \in Targets, Open(r) PROVE SavesInv'
  BY <1>0, <1>1, <1>3, DerivedSubset DEF Open
<1>4. CASE TimerFires \/ Edit \/ Invalid
  BY <1>2, <1>4 DEF TimerFires, Edit, Invalid
<1>5. ASSUME NEW n \in {1, 2}, Submit(n) PROVE SavesInv'
  <2>1. PICK new : /\ saves' = saves \cup {new}
                   /\ new.dialog = opens /\ new.rec = editing /\ new.of = form.of
    BY <1>5, SubmitSave
  <2>2. opens' = opens
    BY <1>5 DEF Submit
  <2>3. Good => Owned(new)
    BY <1>5, <2>1, SubmitFacts DEF Owned
  <2> QED BY <1>0, <2>1, <2>2, <2>3 DEF SavesInv, Owned
<1>6. ASSUME NEW r \in reads, Loaded(r) \/ LoadRefused(r) \/ LoadLost(r) PROVE SavesInv'
  BY <1>2, <1>6 DEF Loaded, LoadRefused, LoadLost, Fault
<1>7. ASSUME NEW s \in saves,
             Confirm(s) \/ Accept(s) \/ Refuse(s) \/ Lose(s) \/ SaveNext(s)
      PROVE  SavesInv'
  BY <1>0, <1>1, <1>7, SavesAfter DEF Stays
<1>8. ASSUME NEW s \in saves, SaveRefused(s) \/ SaveLost(s) PROVE SavesInv'
  BY <1>2, <1>8 DEF SaveRefused, SaveLost
<1> QED BY <1>2, <1>3, <1>4, <1>5, <1>6, <1>7, <1>8, Steps DEF Stays

LEMMA OwnNext == TypeOK /\ SavesInv /\ OwnValuesStored /\ [Next]_vars => OwnValuesStored'
<1> SUFFICES ASSUME TypeOK, SavesInv, OwnValuesStored, [Next]_vars, Good'
             PROVE  \A r \in Records : stored'[r] = r
  BY DEF OwnValuesStored, Good
<1>0. Good /\ (\A r \in Records : stored[r] = r) /\ stored \in [Records -> Values]
  BY GoodBefore, Types DEF OwnValuesStored, Good
<1>1. ASSUME NEW s \in saves, Store(s) PROVE \A r \in Records : stored'[r] = r
  <2>1. s.rec = New \/ s.of = s.rec \/ (kind.merges /\ s.of = Init0)
    BY <1>0 DEF SavesInv
  <2> QED BY <1>0, <1>1, <2>1 DEF Store
<1>2. ASSUME NEW s \in saves, Accept(s) \/ Lose(s) PROVE \A r \in Records : stored'[r] = r
  BY <1>0, <1>1, <1>2 DEF Accept, Lose
<1>3. ASSUME stored' = stored PROVE \A r \in Records : stored'[r] = r
  BY <1>0, <1>3
<1> USE <1>3 DEF Fault
<1>4. CASE \E r \in Targets : Open(r)
  BY <1>4 DEF Open
<1>5. CASE Cancel \/ TimerFires \/ Edit \/ Invalid
  BY <1>5 DEF Cancel, TimerFires, Edit, Invalid
<1>6. ASSUME NEW n \in {1, 2}, Submit(n) PROVE stored' = stored
  BY <1>6 DEF Submit
<1>7. ASSUME NEW r \in reads, Loaded(r) \/ LoadRefused(r) \/ LoadLost(r) PROVE stored' = stored
  BY <1>7 DEF Loaded, LoadRefused, LoadLost
<1>8. ASSUME NEW s \in saves,
             Confirm(s) \/ Dismiss(s) \/ Refuse(s) \/ SaveNext(s) \/ SaveDone(s)
      PROVE  stored' = stored
  BY <1>8 DEF Confirm, Dismiss, Refuse, SaveNext, SaveDone
<1>9. ASSUME NEW s \in saves, SaveRefused(s) \/ SaveLost(s) PROVE stored' = stored
  BY <1>9 DEF SaveRefused, SaveLost
<1>10. CASE UNCHANGED vars
  BY <1>10 DEF vars
<1> QED BY <1>2, <1>4, <1>5, <1>6, <1>7, <1>8, <1>9, <1>10 DEF Next

(***************************************************************************)
(* A dialog that was opened when nothing was on its way                    *)
(***************************************************************************)
\* The record is read when such a dialog is opened.
LEMMA QuietOpen ==
    ASSUME TypeOK, TimerInv, NEW r \in Targets, Open(r), quiet'
    PROVE  QuietDialog' /\ QuietForm'
<1>0. /\ shown' = TRUE /\ editing' = r /\ asked' = r /\ form' = Rendered(TRUE, r)
      /\ loading' = (loading \/ Fetches(TRUE, r)) /\ ~shown
      /\ kind' = kind /\ saves' = {} /\ timers = 0 /\ timers' = 0
      /\ reads' = IF Fetches(TRUE, r) THEN {Source(r)} ELSE {}
  BY DEF Open, Render, Flagged
<1>1. Wellformed(kind)
  BY Types
<1>2. kind.loads # "passed" => form' = Blank /\ form'.of = Init0 /\ ~form'.edited
  BY <1>0 DEF Rendered, Blank
<1>3. kind.loads = "passed" => ~Fetches(TRUE, r) /\ (r # New => form'.of = r)
  BY <1>0 DEF Fetches, Rendered
<1>4. Source(r) = Source(editing')
  BY <1>0
<1>5. QuietDialog'
  BY <1>0, <1>2, <1>3, <1>4 DEF QuietDialog, Source
<1>6. ASSUME r # New, ~kind.merges, kind.loads # "passed" PROVE loading'
  <2>1. kind.loads = "shown" \/ kind.loads = "id"
    BY <1>1, <1>6, TargetFacts DEF Wellformed
  <2>2. kind.loads = "shown" => Fetches(TRUE, r)
    BY <1>0, <1>6 DEF Fetches, Moved
  <2>3. kind.loads = "id" => Fetches(TRUE, r)
    BY <1>0, <1>1, <1>6 DEF Fetches, TimerInv, Wellformed
  <2> QED BY <1>0, <2>1, <2>2, <2>3
<1>7. QuietForm'
  BY <1>0, <1>2, <1>3, <1>6 DEF QuietForm
<1> QED BY <1>5, <1>7

\* While its read is on its way such a dialog sends nothing.
LEMMA QuietSubmit ==
    ASSUME TypeOK, QuietInv, quiet, NEW n \in {1, 2}, Submit(n)
    PROVE  reads = {}
<1>1. CanSave /\ Wellformed(kind)
  BY Types DEF Submit
<1> QED BY <1>1 DEF QuietInv, QuietDialog, CanSave, Wellformed

LEMMA QuietNext == TypeOK /\ TimerInv /\ QuietInv /\ [Next]_vars => QuietInv'
<1> SUFFICES ASSUME TypeOK, TimerInv, QuietInv, [Next]_vars, quiet', shown'
             PROVE  QuietDialog'
  BY DEF QuietInv
<1>0. kind' = kind /\ form \in FormType
  BY Types, CausesGrow
<1>1. ASSUME NEW r \in Targets, Open(r) PROVE QuietDialog'
  BY <1>1, QuietOpen
<1>2. CASE TimerFires
  BY <1>2 DEF TimerFires, Render, QuietInv, QuietDialog
<1>3. ASSUME Stays PROVE QuietDialog /\ timers' = 0 /\ editing' = asked' /\ Source(editing') = Source(editing)
  BY <1>3 DEF Stays, QuietInv, QuietDialog
<1>4. ASSUME Stays, reads' = {} PROVE QuietDialog'
  BY <1>3, <1>4 DEF QuietDialog
<1>5. CASE Edit
  <2>1. /\ Stays /\ form'.of = form.of /\ UNCHANGED <<loading, saves, reads>>
        /\ (kind.covers => ~loading)
    BY <1>0, <1>5 DEF Edit, Stays, FormType
  <2>2. Source(editing)' = Source(editing)
    BY <2>1 DEF Stays, Source
  <2> QED BY <1>0, <1>3, <2>1, <2>2 DEF QuietDialog
<1>6. CASE Invalid
  <2>1. Stays /\ form' = Blank /\ UNCHANGED <<loading, saves, reads>>
    BY <1>6 DEF Invalid, Stays
  <2>2. form'.of = Init0 /\ ~form'.edited
    BY <2>1 DEF Blank
  <2>3. Source(editing)' = Source(editing)
    BY <2>1 DEF Stays, Source
  <2> QED BY <1>0, <1>3, <2>1, <2>2, <2>3 DEF QuietDialog
<1>7. ASSUME NEW n \in {1, 2}, Submit(n) PROVE QuietDialog'
  <2>1. Stays /\ reads' = reads /\ quiet
    BY <1>7 DEF Submit, Stays
  <2> QED BY <1>4, <1>7, <2>1, QuietSubmit
<1>8. ASSUME NEW r \in reads, Loaded(r) \/ LoadRefused(r) \/ LoadLost(r) PROVE QuietDialog'
  <2>1. Stays /\ reads' = reads \ {r}
    BY <1>8 DEF Loaded, LoadRefused, LoadLost, Stays
  <2>2. reads' = {}
    BY <1>3, <2>1 DEF QuietDialog
  <2> QED BY <1>4, <2>1, <2>2
<1>9. ASSUME NEW s \in saves, Stays, reads' = reads PROVE QuietDialog'
  BY <1>3, <1>4, <1>9 DEF QuietDialog
<1>10. ASSUME NEW s \in saves,
              Confirm(s) \/ Accept(s) \/ Refuse(s) \/ Lose(s) \/ SaveNext(s)
       PROVE  QuietDialog'
  BY <1>9, <1>10, SavesAfter
<1>11. ASSUME NEW s \in saves, SaveRefused(s) \/ SaveLost(s) PROVE QuietDialog'
  BY <1>9, <1>11 DEF SaveRefused, SaveLost, Stays
<1>12. ASSUME Stays, UNCHANGED <<form, loading, reads, causes>>, saves' \subseteq saves
       PROVE  QuietDialog'
  <2>1. Source(editing)' = Source(editing)
    BY <1>12 DEF Stays, Source
  <2> QED BY <1>0, <1>3, <1>12, <2>1 DEF QuietDialog
<1> QED BY <1>1, <1>2, <1>5, <1>6, <1>7, <1>8, <1>10, <1>11, <1>12, Steps

\* What a save of such a dialog was taken from.
LEMMA QuietValues ==
    ASSUME TypeOK, QuietForm, quiet, Unfailed, NEW n \in {1, 2}, Submit(n)
    PROVE  editing = New \/ form.of = editing \/ (kind.merges /\ form.of = Init0)
<1>1. CanSave /\ Wellformed(kind)
  BY Types DEF Submit
<1> QED BY <1>1 DEF QuietForm, CanSave, Wellformed

LEMMA QuietFormNext ==
    TypeOK /\ TimerInv /\ QuietInv /\ QuietForm /\ [Next]_vars => QuietForm'
<1> SUFFICES ASSUME TypeOK, TimerInv, QuietInv, QuietForm, [Next]_vars,
                    quiet', shown', editing' # New, Unfailed'
             PROVE  QuietForm'
  BY DEF QuietForm
<1>0. kind' = kind /\ form \in FormType /\ Unfailed /\ Wellformed(kind)
  BY Types, CausesGrow DEF Unfailed
<1>1. ASSUME NEW r \in Targets, Open(r) PROVE QuietForm'
  BY <1>1, QuietOpen
<1>2. CASE TimerFires
  BY <1>2 DEF TimerFires, Render
<1>3. ASSUME Stays PROVE quiet /\ shown /\ editing # New /\ editing' = editing /\ QuietDialog
  BY <1>3 DEF Stays, QuietInv
<1>4. ASSUME Stays, form'.of = form.of,
             form.of = editing \/ (kind.merges /\ form.of = Init0)
      PROVE  QuietForm'
  BY <1>0, <1>3, <1>4 DEF QuietForm
<1>5. CASE Edit
  <2>1. /\ Stays /\ form'.of = form.of /\ UNCHANGED <<loading, saves>>
        /\ (kind.covers => ~loading)
    BY <1>0, <1>5 DEF Edit, Stays, FormType
  <2> QED BY <1>0, <1>3, <2>1 DEF QuietForm, Wellformed
<1>6. CASE Invalid
  BY <1>3, <1>6 DEF Invalid, Stays
<1>7. ASSUME NEW n \in {1, 2}, Submit(n) PROVE QuietForm'
  <2>1. Stays /\ form' = form
    BY <1>7 DEF Submit, Stays
  <2> QED BY <1>0, <1>3, <1>4, <1>7, <2>1, QuietValues
<1>8. ASSUME NEW r \in reads, Loaded(r) PROVE QuietForm'
  <2>1. Stays /\ form' = Filled(r)
    BY <1>8 DEF Loaded, Stays
  <2>2. r = editing
    BY <1>3, <2>1 DEF QuietDialog, Source
  <2>3. form'.of = editing'
    BY <1>0, <1>3, <2>1, <2>2 DEF Filled, FormType
  <2> QED BY <2>3 DEF QuietForm
<1>9. ASSUME NEW r \in reads, LoadRefused(r) \/ LoadLost(r) PROVE QuietForm'
  <2>1. Stays /\ form' = form /\ saves' = saves
    BY <1>9 DEF LoadRefused, LoadLost, Stays
  <2>2. loading' = loading
    BY <1>9 DEF LoadRefused, LoadLost, Fault, Freed, Unfailed
  <2> QED BY <1>0, <1>3, <2>1, <2>2 DEF QuietForm
<1>10. ASSUME NEW s \in saves, Stays
       PROVE  form.of = editing \/ (kind.merges /\ form.of = Init0)
  BY <1>0, <1>3, <1>10 DEF QuietForm
<1>11. ASSUME NEW s \in saves,
              Confirm(s) \/ Accept(s) \/ Refuse(s) \/ Lose(s) \/ SaveNext(s)
       PROVE  QuietForm'
  BY <1>4, <1>10, <1>11, SavesAfter
<1>12. ASSUME NEW s \in saves, SaveRefused(s) \/ SaveLost(s) PROVE QuietForm'
  <2>1. Stays
    BY <1>12 DEF SaveRefused, SaveLost, Stays
  <2>2. form' = form
    BY <1>12 DEF SaveRefused, SaveLost, Cleared, Unfailed
  <2> QED BY <1>4, <1>10, <2>1, <2>2
<1>13. ASSUME Stays, UNCHANGED <<form, loading, reads, causes>>, saves' \subseteq saves
       PROVE  QuietForm'
  BY <1>0, <1>3, <1>13 DEF QuietForm
<1> QED BY <1>1, <1>2, <1>5, <1>6, <1>7, <1>8, <1>9, <1>11, <1>12, <1>13, Steps

LEMMA QuietSavesNext ==
    TypeOK /\ QuietInv /\ QuietForm /\ QuietSaves /\ [Next]_vars => QuietSaves'
<1> SUFFICES ASSUME TypeOK, QuietInv, QuietForm, QuietSaves, [Next]_vars, Unfailed'
             PROVE  QuietSaves'
  BY DEF QuietSaves, Unfailed
<1>0. kind' = kind /\ Unfailed
  BY CausesGrow DEF Unfailed
<1>1. \A s \in saves : s.quiet => s.rec = s.asked /\ Owned(s)
  BY <1>0 DEF QuietSaves, Unfailed, Owned
<1>2. ASSUME \A s \in saves' : s.quiet => s.rec = s.asked /\ Owned(s) PROVE QuietSaves'
  BY <1>0, <1>2 DEF QuietSaves, Owned
<1>3. ASSUME Derived PROVE QuietSaves'
  BY <1>1, <1>2, <1>3 DEF Derived, Same, Owned
<1>4. ASSUME saves' \subseteq saves PROVE QuietSaves'
  BY <1>3, <1>4, DerivedSubset
<1>5. CASE (\E r \in Targets : Open(r)) \/ TimerFires \/ Edit \/ Invalid
  BY <1>4, <1>5 DEF Open, TimerFires, Edit, Invalid
<1>6. ASSUME NEW n \in {1, 2}, Submit(n) PROVE QuietSaves'
  <2>1. PICK new : /\ saves' = saves \cup {new}
                   /\ new.rec = editing /\ new.of = form.of
                   /\ new.asked = asked /\ new.quiet = quiet
    BY <1>6, SubmitSave
  <2>2. quiet => editing = asked
    BY <1>6 DEF Submit, CanSave, QuietInv, QuietDialog
  <2>3. quiet => Owned(new)
    BY <1>0, <1>6, <2>1, QuietValues DEF Owned
  <2> QED BY <1>1, <1>2, <2>1, <2>2, <2>3
<1>7. ASSUME NEW r \in reads, Loaded(r) \/ LoadRefused(r) \/ LoadLost(r) PROVE QuietSaves'
  BY <1>4, <1>7 DEF Loaded, LoadRefused, LoadLost
<1>8. ASSUME NEW s \in saves,
             Confirm(s) \/ Accept(s) \/ Refuse(s) \/ Lose(s) \/ SaveNext(s)
      PROVE  QuietSaves'
  BY <1>3, <1>8, SavesAfter
<1>9. ASSUME NEW s \in saves, SaveRefused(s) \/ SaveLost(s) PROVE QuietSaves'
  BY <1>4, <1>9 DEF SaveRefused, SaveLost
<1> QED BY <1>4, <1>5, <1>6, <1>7, <1>8, <1>9, Steps

LEMMA InvariantInit == Init => IInv
<1> SUFFICES ASSUME Init PROVE IInv
  OBVIOUS
<1>1. TypeOK
  BY TypeInit
<1>2. TargetInv /\ TimerInv /\ AskInv
  BY DEF Init, TargetInv, TimerInv, AskInv
<1>3. FormInv /\ SavesInv
  BY DEF Init, FormInv, SavesInv
<1>4. OwnValuesStored
  BY DEF Init, OwnValuesStored
<1>5. QuietInv /\ QuietForm /\ QuietSaves
  BY DEF Init, QuietInv, QuietForm, QuietSaves
<1> QED BY <1>1, <1>2, <1>3, <1>4, <1>5 DEF IInv

LEMMA InvariantNext == IInv /\ [Next]_vars => IInv'
BY TypeNext, TargetNext, TimerNext, AskNext, FormNext, SavesNext, OwnNext,
   QuietNext, QuietFormNext, QuietSavesNext DEF IInv

(***************************************************************************)
(* The theorems                                                            *)
(***************************************************************************)
\* In every reachable state of any dialog the variables have their types.
THEOREM TypeCorrect == Spec => []TypeOK
BY TypeInit, TypeNext, PTL DEF Spec

\* A record keeps its own values, as the user changed them, through any
\* openings, reads and saves that cross none of the causes named.
THEOREM OwnValuesStoredThm == Spec => []OwnValuesStored
<1>1. IInv => OwnValuesStored
  BY DEF IInv
<1> QED BY InvariantInit, InvariantNext, <1>1, PTL DEF Spec

\* A dialog that was opened when nothing was on its way saves to the record
\* that was clicked, and saves the values that were read from it.
THEOREM QuietSavesThm == Spec => []QuietSaves
<1>1. IInv => QuietSaves
  BY DEF IInv
<1> QED BY InvariantInit, InvariantNext, <1>1, PTL DEF Spec

\* No step takes away what was typed in such a dialog, if it covers its
\* fields while it loads and does not clear its form after a save.
THEOREM TypedKeptThm == Spec => TypedKept
<1>1. ASSUME IInv, [Next]_vars
      PROVE  [quiet /\ kind.covers /\ ~kind.wipes /\ shown /\ shown' /\ form.edited =>
                form'.edited]_vars
  <2> SUFFICES ASSUME quiet, kind.covers, ~kind.wipes, shown, shown', form.edited
               PROVE  form'.edited
    OBVIOUS
  <2>0. form \in FormType /\ TypeOK /\ QuietDialog /\ Wellformed(kind)
    BY <1>1, Types DEF IInv, QuietInv
  <2>1. ASSUME form' = form PROVE form'.edited
    BY <2>1
  <2>2. CASE (\E r \in Targets : Open(r)) \/ TimerFires \/ Invalid
    BY <2>0, <2>2 DEF Open, TimerFires, QuietDialog, Invalid, Wellformed
  <2>3. ASSUME NEW r \in reads, Loaded(r) PROVE form'.edited
    <3>1. kind.merges /\ form' = Filled(r)
      BY <2>0, <2>3 DEF Loaded, QuietDialog
    <3>2. form' = [form EXCEPT !.of = r]
      BY <3>1 DEF Filled
    <3> QED BY <2>0, <3>2 DEF FormType
  <2>4. ASSUME NEW r \in reads, LoadRefused(r) \/ LoadLost(r) PROVE form'.edited
    BY <2>1, <2>4 DEF LoadRefused, LoadLost
  <2>5. ASSUME NEW s \in saves, SaveRefused(s) \/ SaveLost(s) PROVE form'.edited
    BY <2>1, <2>5 DEF SaveRefused, SaveLost, Cleared
  <2>6. ASSUME NEW s \in saves,
               Confirm(s) \/ Accept(s) \/ Refuse(s) \/ Lose(s) \/ SaveNext(s)
        PROVE  form'.edited
    BY <2>0, <2>1, <2>6, SavesAfter
  <2>7. CASE Edit
    BY <2>7 DEF Edit
  <2>8. ASSUME NEW n \in {1, 2}, Submit(n) PROVE form'.edited
    BY <2>1, <2>8 DEF Submit
  <2> QED BY <1>1, <2>0, <2>1, <2>2, <2>3, <2>4, <2>5, <2>6, <2>7, <2>8, Steps
<1> QED BY InvariantInit, InvariantNext, <1>1, PTL DEF Spec, TypedKept
=============================================================================
