--------------------------- MODULE EditFormKinds ---------------------------
(***************************************************************************)
(* The dialogs of the web console that create or edit one record, as       *)
(* records of what they do differently.                                    *)
(*   opens   the dialog edits records ("old"), creates them ("new"), both  *)
(*   loads   when the record is read: when the dialog or its record changes*)
(*           and it is shown ("shown"), when the record changes ("id"),    *)
(*           at every change, also when it is closed ("tag"), never: the   *)
(*           row is passed to the form ("passed") or there is none ("none")*)
(*   self    with no record the dialog reads the user's own account        *)
(*   merges  the answer fills one field and keeps what was typed           *)
(*   close   what becomes of the edited record: cleared by a timer, now,   *)
(*           or kept                                                       *)
(*   caught  the requests ("load", "save") whose rejection is caught       *)
(*   blocks  the save button is blocked while loading                      *)
(*   covers  the fields are covered while loading                          *)
(*   wipes   the form is cleared after every save, refused or not          *)
(*   checks  a value the dialog refuses clears the form of a new record    *)
(*   confirms  the user may be asked before the save is sent               *)
(*   needs   a required field keeps an empty form from being saved         *)
(*   counts  how many records one save may create                          *)
(***************************************************************************)
EXTENDS Naturals

Sheet(opens, loads, close, caught) ==
    [opens |-> opens, loads |-> loads, self |-> FALSE, merges |-> FALSE,
     close |-> close, caught |-> caught, blocks |-> TRUE, covers |-> TRUE,
     wipes |-> FALSE, checks |-> FALSE, confirms |-> FALSE, needs |-> TRUE,
     counts |-> {1}]

EditTokenModal ==
    [Sheet("both", "shown", "timer", {}) EXCEPT !.wipes = TRUE, !.checks = TRUE,
                                            !.counts = {1, 2}]

(* The record is passed as a property, and without one the account of the  *)
(* administrator is read.                                                  *)
EditUserModal == [Sheet("old", "id", "now", {}) EXCEPT !.self = TRUE]

AddUserModal == Sheet("new", "none", "now", {})

EditRedemptionModal == Sheet("both", "id", "timer", {})

EditModelModal ==
    [Sheet("both", "shown", "timer", {"load", "save"}) EXCEPT !.wipes = TRUE]

EditVendorModal ==
    [Sheet("both", "shown", "now", {"load", "save"}) EXCEPT !.covers = FALSE]

EditPrefillGroupModal == Sheet("both", "passed", "timer", {"save"})

EditTagModal ==
    [Sheet("old", "tag", "keep", {"load", "save"})
       EXCEPT !.merges = TRUE, !.needs = FALSE]

(* submit does not touch loading, and nothing blocks the save button.      *)
EditChannelModal ==
    [Sheet("both", "shown", "keep", {}) EXCEPT !.blocks = FALSE, !.confirms = TRUE]

ContractForm == [Sheet("new", "none", "now", {"save"}) EXCEPT !.covers = FALSE]

Kinds ==
    {EditTokenModal, EditUserModal, AddUserModal, EditRedemptionModal,
     EditModelModal, EditVendorModal, EditPrefillGroupModal, EditTagModal,
     EditChannelModal, ContractForm}

=============================================================================
