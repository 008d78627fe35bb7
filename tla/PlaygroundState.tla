-------------------------- MODULE PlaygroundState --------------------------
(***************************************************************************)
(* The state of the playground page and what is to be true of it; the      *)
(* steps are in Playground.  Of a message, load is the page load that made *)
(* it, of the request it was made for, from the origins of its text.       *)
(***************************************************************************)
EXTENDS Integers, Sequences, SequencesExt

CONSTANT Nothing  \* nothing stored, no dialog, nothing edited

VARIABLES
    message,   \* the list of messages shown
    stored,    \* playground_messages in localStorage
    saves,     \* saves waiting for their timer, oldest first
    pending,   \* requests not ended
    whole,     \* requests that are not streamed
    sent,      \* number of requests so far
    source,    \* sseSourceRef: the stream that can be closed, 0 for none
    resends,   \* waiting timers of handleMessageReset
    regens,    \* waiting timers of handleEditSave
    editing,   \* the message that is edited
    dialog,    \* the confirmation shown
    emptied,   \* handleConfigReset has yet to show the default messages
    fresh,     \* the page found no messages when it was loaded
    nextId,    \* messageId of helpers/utils.jsx
    loads,     \* number of page loads
    broken,    \* an updater has thrown: React has taken the page down
    parted,    \* history: a step has parted the list from the requests
    acts       \* number of clicks other than sending and stopping

Ongoing(m) == m.status \in {"loading", "incomplete"}

SetLast(ms, m) == [ms EXCEPT ![Len(ms)] = m]

-----------------------------------------------------------------------------
\* While no recorded step has parted the list from the requests, a message
\* shows what was typed and the answer to its own request, never the answer
\* to another one, through any sending, stopping, regenerating, editing,
\* deleting and reloading (useApiRequest.jsx writes into the last message).
OwnAnswer ==
    ~parted =>
        \A i \in DOMAIN message : message[i].from \subseteq {0, message[i].of}

\* Without such a step only the last message is being generated, and it was
\* made by this load of the page: no spinner is left over by regenerating or
\* by a reload in the middle of an answer (usePlaygroundState.js repairs it).
SpinnerIsCurrent ==
    ~parted =>
        \A i \in DOMAIN message :
            Ongoing(message[i]) =>
                i = Len(message) /\ message[i].load = loads

\* Without such a step, and once the timers have fired, localStorage holds
\* the messages shown; only an answer that was not streamed, and one still
\* coming, may be stored as the loading message it began as.
SavedAsShown ==
    (/\ ~parted /\ ~broken
     /\ saves = <<>> /\ stored # Nothing
     /\ resends = 0 /\ regens = 0) =>
        \/ stored = message
        \/ /\ message # <<>>
           /\ Last(message).of \in whole \cup pending
           /\ stored \in {Front(message),
                          SetLast(message, [Last(message) EXCEPT
                              !.status = "loading", !.from = {}])}
=============================================================================
