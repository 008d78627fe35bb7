----------------------------- MODULE Playground -----------------------------
(***************************************************************************)
(* The conversation of the playground page: useApiRequest.jsx,             *)
(* useMessageActions.jsx, useMessageEdit.jsx, usePlaygroundState.js and    *)
(* onMessageSend of pages/Playground/index.jsx.  Answers, streamed or      *)
(* whole, are written into the LAST message of the list: nothing ties an   *)
(* answer to the message made for it.  Saves to localStorage and           *)
(* regenerations are timers; a page load repairs what it finds and starts  *)
(* the ids at 4 again.                                                     *)
(*                                                                         *)
(* Text is abstracted to its origin: 0 for what was typed (or came with    *)
(* the page), r for what request r answered.  The custom request body, the *)
(* reasoning panel, the debug panel and images are left out.  So is a      *)
(* change to another page of the console and back: what an update of a     *)
(* list that is no longer shown does is up to React.                       *)
(***************************************************************************)
EXTENDS PlaygroundState, FiniteSets

CONSTANTS
    MaxRequests,  \* bound on the requests of a behaviour
    MaxLoads,     \* bound on the loads of the page
    MaxSaves,     \* bound on the saves whose timer has not fired
    MaxActs       \* bound on the clicks on messages and on the page

ASSUME PlaygroundAssumption ==
    /\ MaxRequests \in Nat
    /\ MaxLoads \in Nat \ {0}
    /\ MaxSaves \in Nat \ {0}
    /\ MaxActs \in Nat

Requests == 1..MaxRequests

vars == <<message, stored, saves, pending, whole, sent, source, resends, regens,
          editing, dialog, emptied, fresh, nextId, loads, broken, parted,
          acts>>

wire == <<pending, whole, sent, source>>
clocks == <<resends, regens, emptied>>
session == <<fresh, loads>>

(***************************************************************************)
(* Messages.                                                               *)
(***************************************************************************)
\* createMessage: "of" is the request a loading message was made for.
NewMessage(id, role, status, of, from) ==
    [load |-> loads, id |-> id, role |-> role, status |-> status,
     of |-> of, from |-> from]

\* getDefaultMessages: they carry no status.
Defaults ==
    << [load |-> 0, id |-> 2, role |-> "user", status |-> "none",
        of |-> 0, from |-> {0}],
       [load |-> 0, id |-> 3, role |-> "assistant", status |-> "none",
        of |-> 0, from |-> {0}] >>

Generating(ms) == \E i \in DOMAIN ms : Ongoing(ms[i])

LastOngoing(ms) == ms # <<>> /\ Ongoing(Last(ms))

\* The first message that is the very object, else the first with its id.
FindIndex(ms, m) ==
    LET same == {i \in DOMAIN ms : ms[i] = m}
        alike == {i \in DOMAIN ms : ms[i].id = m.id}
        First(S) == CHOOSE i \in S : \A j \in S : i <= j
    IN  CASE same # {} -> First(same)
          [] same = {} /\ alike # {} -> First(alike)
          [] OTHER -> 0

\* streamMessageUpdate
StreamMessageUpdate(ms, r) ==
    IF LastOngoing(ms) /\ Last(ms).role = "assistant"
    THEN SetLast(ms, [Last(ms) EXCEPT !.status = "incomplete",
                                      !.from = @ \cup {r}])
    ELSE ms

\* completeMessage: the list after it, when it is not empty.
Completes(ms) == ms # <<>> /\ Last(ms).status \notin {"complete", "error"}

CompleteMessage(ms, status) ==
    IF Completes(ms) THEN SetLast(ms, [Last(ms) EXCEPT !.status = status])
                     ELSE ms

\* Mutant: a failed request leaves its message as it is.
WholeUpdateAnswered(ms, r, status) ==
    IF ms # <<>> /\ Last(ms).status = "loading" /\ status = "complete"
    THEN SetLast(ms, [Last(ms) EXCEPT !.status = status, !.from = {r}])
    ELSE ms

\* The answer, or the error, of a request that is not streamed.
WholeUpdate(ms, r, status) ==
    IF ms # <<>> /\ Last(ms).status = "loading"
    THEN SetLast(ms, [Last(ms) EXCEPT !.status = status, !.from = {r}])
    ELSE ms

\* What stopping, and loading the page, make of an unfinished message.
Finished(ms) ==
    IF LastOngoing(ms)
    THEN SetLast(ms, [Last(ms) EXCEPT !.status = "complete"])
    ELSE ms

\* saveMessages by a timer: appended to the saves that wait.
Saving(ms) == saves' = Append(saves, ms)

\* A step that may part the list from the requests, when it does.
Parts(happens) == parted' = (parted \/ happens)

\* A click that the bound counts.
Click == acts < MaxActs /\ acts' = acts + 1

Room == Len(saves) < MaxSaves

Idle == ~broken /\ dialog = Nothing

Init ==
    /\ message = Defaults
    /\ stored = Nothing
    /\ saves = <<>>
    /\ pending = {}
    /\ whole = {}
    /\ sent = 0
    /\ source = 0
    /\ resends = 0
    /\ regens = 0
    /\ editing = Nothing
    /\ dialog = Nothing
    /\ emptied = FALSE
    /\ fresh = TRUE
    /\ nextId = 4
    /\ loads = 1
    /\ broken = FALSE
    /\ parted = FALSE
    /\ acts = 0

-----------------------------------------------------------------------------
(***************************************************************************)
(* Requests.                                                               *)
(***************************************************************************)
\* sendRequest: handleSSE replaces the ref without closing the old stream.
SendRequest(streamed) ==
    /\ sent < MaxRequests
    /\ sent' = sent + 1
    /\ pending' = pending \cup {sent + 1}
    /\ IF streamed THEN source' = sent + 1 /\ UNCHANGED whole
                   ELSE whole' = whole \cup {sent + 1} /\ UNCHANGED source

\* onMessageSend makes three messages and shows the third and the second.
Sends(streamed) ==
    /\ Room
    /\ LET ms == message \o
                  << NewMessage(nextId + 2, "user", "none", 0, {0}),
                     NewMessage(nextId + 1, "assistant", "loading",
                                sent + 1, {}) >>
       IN  message' = ms /\ Saving(ms)
    /\ nextId' = nextId + 3
    /\ SendRequest(streamed)

\* The input box sends unless the last message is being generated.
Send ==
    /\ Idle
    /\ ~LastOngoing(message)
    /\ \E streamed \in BOOLEAN : Sends(streamed)
    /\ Parts(resends + regens > 0)
    /\ UNCHANGED <<stored, clocks, editing, dialog, session, broken, acts>>

\* A 'message' event that carries a piece of the answer.
Piece(r) ==
    /\ ~broken
    /\ r \in pending \ whole
    /\ message' = StreamMessageUpdate(message, r)
    /\ UNCHANGED <<stored, saves, wire, clocks, editing, dialog, nextId,
                   session, broken, parted, acts>>

\* Mutant: the completed list is not saved.
CompleteUnsaved(ms, status) ==
    IF ms = <<>>
    THEN broken' = TRUE /\ UNCHANGED <<message, saves>>
    ELSE /\ message' = CompleteMessage(ms, status)
         /\ UNCHANGED <<saves, broken>>

\* completeMessage at the end of a list ms, and the save it leaves behind;
\* on an empty list it reads the status of undefined.
Complete(ms, status) ==
    IF ms = <<>>
    THEN broken' = TRUE /\ UNCHANGED <<message, saves>>
    ELSE /\ message' = CompleteMessage(ms, status)
         /\ IF Completes(ms) THEN Saving(message') ELSE UNCHANGED saves
         /\ UNCHANGED broken

\* The '[DONE]' event: it clears the ref whatever stream the ref holds.
Done(r) ==
    /\ ~broken /\ Room
    /\ r \in pending \ whole
    /\ pending' = pending \ {r}
    /\ source' = 0
    /\ Complete(message, "complete")
    /\ UNCHANGED <<stored, whole, sent, clocks, editing, dialog, nextId,
                   session, parted, acts>>

\* The 'error' event, which clears the ref; or a status that is not 200, or a
\* stream that cannot be started, which leave it as it is.
StreamError(r, event) ==
    /\ ~broken /\ Room
    /\ r \in pending \ whole
    /\ pending' = pending \ {r}
    /\ source' = IF event THEN 0 ELSE source
    /\ Complete(StreamMessageUpdate(message, r), "error")
    /\ UNCHANGED <<stored, whole, sent, clocks, editing, dialog, nextId,
                   session, parted, acts>>

\* An event that is not JSON ends the message and not the stream.
Unparsed(r) ==
    /\ ~broken /\ Room
    /\ r \in pending \ whole
    /\ Complete(StreamMessageUpdate(message, r), "error")
    /\ Parts(TRUE)
    /\ UNCHANGED <<stored, wire, clocks, editing, dialog, nextId, session,
                   acts>>

\* A stream that ends without [DONE], an error of a stream that is closed
\* already (readyState 2), an answer without choices: no handler does anything.
Silence(r) ==
    /\ ~broken
    /\ r \in pending
    /\ pending' = pending \ {r}
    /\ Parts(TRUE)
    /\ UNCHANGED <<message, stored, saves, whole, sent, source, clocks,
                   editing, dialog, nextId, session, broken, acts>>

\* handleNonStreamRequest goes on: the message is shown and not saved.
Whole(r) ==
    /\ ~broken
    /\ r \in pending \cap whole
    /\ pending' = pending \ {r}
    /\ \E status \in {"complete", "error"} :
          message' = WholeUpdate(message, r, status)
    /\ UNCHANGED <<stored, saves, whole, sent, source, clocks, editing, dialog,
                   nextId, session, broken, parted, acts>>

\* Mutant: stopping ends the message and leaves the stream open.
ClosedNot == pending

\* Stopping closes the stream of the ref, if there is one; nothing else.
Closed == pending \ {source}

\* onStopGenerator: the button is shown while the last message is generated.
Stop ==
    /\ Idle /\ Room
    /\ LastOngoing(message)
    /\ pending' = Closed
    /\ source' = 0
    /\ message' = Finished(message)
    /\ Saving(message')
    /\ Parts(pending \ {source} # {})
    /\ UNCHANGED <<stored, whole, sent, clocks, editing, dialog, nextId,
                   session, broken, acts>>

-----------------------------------------------------------------------------
(***************************************************************************)
(* The messages' buttons, disabled while a message is generated.           *)
(***************************************************************************)
Action(m) ==
    /\ Idle /\ ~Generating(message)
    /\ editing # Nothing => editing.id # m.id

\* Where handleMessageReset cuts the list: before the target, or before the
\* last message of the user ahead of it.
ResetAt(i) ==
    LET users == {j \in 1..i : message[j].role = "user"}
    IN  IF users = {} THEN 0 ELSE CHOOSE j \in users : \A k \in users : k <= j

Reset ==
    /\ Click
    /\ \E i \in DOMAIN message :
          /\ Action(message[i])
          /\ ResetAt(i) > 0
          /\ message' = SubSeq(message, 1, ResetAt(i) - 1)
    /\ resends + regens + sent < MaxRequests
    /\ resends' = resends + 1
    /\ Parts(pending # {} \/ resends + regens > 0)
    /\ UNCHANGED <<stored, saves, wire, regens, emptied, editing, dialog,
                   nextId, session, broken>>

\* The timer of handleMessageReset: onMessageSend, 100 ms later.
Resend ==
    /\ ~broken /\ resends > 0
    /\ resends' = resends - 1
    /\ \E streamed \in BOOLEAN : Sends(streamed)
    /\ UNCHANGED <<stored, regens, emptied, editing, dialog, session, broken,
                   parted, acts>>

\* handleMessageDelete asks first.
AskDelete ==
    /\ Click
    /\ \E i \in DOMAIN message :
          /\ Action(message[i])
          /\ dialog' = [kind |-> "delete", target |-> message[i]]
    /\ UNCHANGED <<message, stored, saves, wire, clocks, editing, nextId,
                   session, broken, parted>>

\* The n-th smallest index of S.
Nth(S, n) == CHOOSE i \in S : Cardinality({j \in S : j <= i}) = n

\* The list without the target: by place when its reply goes with it, by id
\* otherwise.
Without(ms, m) ==
    LET i == FindIndex(ms, m)
        gone == IF m.role = "user" /\ i < Len(ms) /\ ms[i + 1].role = "assistant"
                THEN {i, i + 1}
                ELSE {j \in DOMAIN ms : ms[j].id = m.id}
        left == DOMAIN ms \ gone
    IN  [n \in 1..Cardinality(left) |-> ms[Nth(left, n)]]

Delete ==
    /\ ~broken /\ dialog # Nothing
    /\ dialog.kind = "delete"
    /\ dialog' = Nothing
    /\ IF FindIndex(message, dialog.target) = 0
       THEN UNCHANGED <<message, saves>>
       ELSE /\ Room
            /\ message' = Without(message, dialog.target)
            /\ Saving(message')
    /\ Parts(pending # {} \/ resends + regens > 0)
    /\ UNCHANGED <<stored, wire, clocks, editing, nextId, session, broken,
                   acts>>

\* handleRoleToggle: assistant and system messages of the target's id.
Toggled(m) ==
    LET role == IF m.role = "assistant" THEN "system" ELSE "assistant"
    IN  [j \in DOMAIN message |->
            IF message[j].id = m.id /\ message[j].role # "user"
            THEN [message[j] EXCEPT !.role = role] ELSE message[j]]

Toggle ==
    /\ Click
    /\ Room
    /\ \E i \in DOMAIN message :
          /\ Action(message[i])
          /\ message[i].role # "user"
          /\ message' = Toggled(message[i])
    /\ Saving(message')
    /\ Parts(pending # {} \/ resends + regens > 0)
    /\ UNCHANGED <<stored, wire, clocks, editing, dialog, nextId, session,
                   broken>>

-----------------------------------------------------------------------------
(***************************************************************************)
(* Editing: the list is replaced from a snapshot taken before the question *)
(* whether to regenerate is answered.                                      *)
(***************************************************************************)
Edit ==
    /\ Click
    /\ \E i \in DOMAIN message :
          /\ Action(message[i])
          /\ message[i].from # {}
          /\ editing' = message[i]
    /\ UNCHANGED <<message, stored, saves, wire, clocks, dialog, nextId,
                   session, broken, parted>>

CancelEdit ==
    /\ Idle
    /\ editing # Nothing
    /\ editing' = Nothing
    /\ UNCHANGED <<message, stored, saves, wire, clocks, dialog, nextId,
                   session, broken, parted, acts>>

\* Every message with the id of the edited one has its text replaced.
Edited ==
    [j \in DOMAIN message |->
        IF message[j].id = editing.id
        THEN [message[j] EXCEPT !.from = {0}] ELSE message[j]]

HasReply(i) == i < Len(message) /\ message[i + 1].role = "assistant"

\* handleEditSave: a message that is gone makes the updater throw.
SaveEdit ==
    /\ Idle /\ Room
    /\ editing # Nothing
    /\ editing' = Nothing
    /\ LET i == FindIndex(message, editing)
       IN  CASE i = 0 ->
                  /\ broken' = TRUE
                  /\ UNCHANGED <<message, saves, dialog>>
             [] i > 0 /\ message[i].role = "user" /\ HasReply(i) ->
                  /\ dialog' = [kind |-> "regenerate", list |-> Edited,
                              at |-> i]
                  /\ UNCHANGED <<message, saves, broken>>
             [] OTHER ->
                  /\ message' = Edited
                  /\ Saving(message')
                  /\ UNCHANGED <<dialog, broken>>
    /\ Parts(pending # {} \/ resends + regens > 0)
    /\ UNCHANGED <<stored, wire, clocks, nextId, session, acts>>

\* Regenerate: the snapshot up to the message, and a timer for the request.
Regenerate ==
    /\ ~broken /\ Room /\ dialog # Nothing
    /\ dialog.kind = "regenerate"
    /\ resends + regens + sent < MaxRequests
    /\ dialog' = Nothing
    /\ message' = SubSeq(dialog.list, 1, dialog.at)
    /\ Saving(message')
    /\ regens' = regens + 1
    /\ UNCHANGED <<stored, wire, resends, emptied, editing, nextId, session,
                   broken, parted, acts>>

\* The timer of Regenerate: a loading message and the request.  The list
\* with the loading message is not saved.
Regen ==
    /\ ~broken /\ regens > 0
    /\ regens' = regens - 1
    /\ message' = Append(message, NewMessage(nextId, "assistant", "loading",
                                             sent + 1, {}))
    /\ nextId' = nextId + 1
    /\ \E streamed \in BOOLEAN : SendRequest(streamed)
    /\ UNCHANGED <<stored, saves, resends, emptied, editing, dialog, session,
                   broken, parted, acts>>

\* Only save: the whole snapshot is put back.
KeepEdit ==
    /\ ~broken /\ Room /\ dialog # Nothing
    /\ dialog.kind = "regenerate"
    /\ dialog' = Nothing
    /\ message' = dialog.list
    /\ Saving(message')
    /\ UNCHANGED <<stored, wire, clocks, editing, nextId, session, broken,
                   parted, acts>>

-----------------------------------------------------------------------------
(***************************************************************************)
(* The list as a whole.                                                    *)
(***************************************************************************)
Clear ==
    /\ Click
    /\ Idle /\ Room
    /\ message' = <<>>
    /\ Saving(<<>>)
    /\ Parts(pending # {} \/ resends + regens > 0)
    /\ UNCHANGED <<stored, wire, clocks, editing, dialog, nextId, session,
                   broken>>

\* The effect on [t, initialMessages]: a change of language replaces the
\* conversation of a page that found nothing stored.
ChangeLanguage ==
    /\ Click
    /\ Idle
    /\ fresh
    /\ message # Defaults
    /\ message' = Defaults
    /\ Parts(TRUE)
    /\ UNCHANGED <<stored, saves, wire, clocks, editing, dialog, nextId,
                   session, broken>>

\* importConfig writes the storage before the user confirms.
ChooseImport ==
    /\ Click
    /\ Idle
    /\ stored' = Defaults
    /\ dialog' = [kind |-> "import"]
    /\ Parts(TRUE)
    /\ UNCHANGED <<message, saves, wire, clocks, editing, nextId, session,
                   broken>>

\* handleConfigImport
Import ==
    /\ ~broken /\ dialog # Nothing
    /\ dialog.kind = "import"
    /\ dialog' = Nothing
    /\ message' = Defaults
    /\ UNCHANGED <<stored, saves, wire, clocks, editing, nextId, session,
                   broken, parted, acts>>

\* handleReset: the storage is cleared, the messages with it if asked.
ResetConfig ==
    /\ Click
    /\ Idle
    /\ stored # Nothing
    /\ stored' = Nothing
    /\ \/ message' = <<>> /\ emptied' = TRUE
       \/ UNCHANGED <<message, emptied>>
    /\ Parts(TRUE)
    /\ UNCHANGED <<saves, wire, resends, regens, editing, dialog, nextId,
                   session, broken>>

\* The timer of handleConfigReset.
ShowDefaults ==
    /\ ~broken
    /\ emptied
    /\ emptied' = FALSE
    /\ message' = Defaults
    /\ UNCHANGED <<stored, saves, wire, resends, regens, editing, dialog,
                   nextId, session, broken, parted, acts>>

Dismiss ==
    /\ ~broken /\ dialog # Nothing
    /\ dialog.kind \in {"delete", "import"}
    /\ dialog' = Nothing
    /\ UNCHANGED <<message, stored, saves, wire, clocks, editing, nextId,
                   session, broken, parted, acts>>

\* The timer of a save.
Save ==
    /\ saves # <<>>
    /\ stored' = Head(saves)
    /\ saves' = Tail(saves)
    /\ UNCHANGED <<message, wire, clocks, editing, dialog, nextId, session,
                   broken, parted, acts>>

\* Mutant: the page shows what was stored as it is.
RepairedNot(ms) == <<>>

\* The effect on mount: the list with its last message repaired, if it was
\* being generated, to be shown and saved.
Repaired(ms) == IF LastOngoing(ms) THEN <<Finished(ms)>> ELSE <<>>

\* The first two messages by their ids, of which the page forgets the texts of
\* an earlier version.
Outdated(ms) == Len(ms) = 2 /\ ms[1].id = 2 /\ ms[2].id = 3

Loaded(old) ==
    IF old /\ stored # Nothing /\ Outdated(stored) THEN Nothing ELSE stored

\* The page is left and loaded again: requests and timers are gone, and the
\* ids start again.
Reload ==
    /\ loads < MaxLoads
    /\ loads' = loads + 1
    /\ \E old \in BOOLEAN : stored' = Loaded(old)
    /\ message' = IF stored' = Nothing THEN Defaults
                  ELSE IF Repaired(stored') # <<>> THEN Head(Repaired(stored'))
                  ELSE stored'
    /\ fresh' = (stored' = Nothing)
    /\ saves' = IF stored' = Nothing THEN <<>> ELSE Repaired(stored')
    /\ pending' = {}
    /\ source' = 0
    /\ resends' = 0
    /\ regens' = 0
    /\ emptied' = FALSE
    /\ editing' = Nothing
    /\ dialog' = Nothing
    /\ nextId' = 4
    /\ broken' = FALSE
    /\ UNCHANGED <<whole, sent, parted, acts>>

Ends(r) ==
    Done(r) \/ Silence(r) \/ Whole(r) \/ \E event \in BOOLEAN : StreamError(r, event)

Next ==
    \/ Send \/ Stop \/ Reset \/ Resend
    \/ \E r \in Requests : Piece(r) \/ Unparsed(r) \/ Ends(r)
    \/ AskDelete \/ Delete \/ Toggle
    \/ Edit \/ CancelEdit \/ SaveEdit \/ Regenerate \/ Regen \/ KeepEdit
    \/ Clear \/ ChangeLanguage \/ ChooseImport \/ Import \/ ResetConfig
    \/ ShowDefaults \/ Dismiss \/ Save \/ Reload

\* The relay ends every request, and the browser fires every timer.
Fairness ==
    /\ \A r \in Requests : WF_vars(Ends(r))
    /\ WF_vars(Save)

Spec == Init /\ [][Next]_vars /\ Fairness

-----------------------------------------------------------------------------
(***************************************************************************)
(* Properties.                                                             *)
(***************************************************************************)
\* A message that is being generated ends as complete or as an error, unless
\* one of the recorded steps intervenes or the page breaks.
GenerationEnds ==
    LastOngoing(message) ~> (~LastOngoing(message) \/ parted \/ broken)

\* Deleting a message takes that message away and, for one of the user, the
\* reply after it: nothing else.
DeletesOnlyTarget ==
    [][ Delete =>
          \A m \in Range(message) \ Range(message') :
              \/ m = dialog.target
              \/ \E i \in 1..(Len(message) - 1) :
                    message[i] = dialog.target /\ message[i + 1] = m ]_vars
=============================================================================
