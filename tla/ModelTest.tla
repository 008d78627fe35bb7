----------------------------- MODULE ModelTest -----------------------------
(***************************************************************************)
(* The model test of a channel in the web console: testChannel and         *)
(* batchTestModels of useChannelsData.jsx under ModelTestModal.jsx.  A     *)
(* batch tests the models of a channel a few at a time; closing the dialog *)
(* stops it through a shared ref, and the dialog can be opened again, on   *)
(* the same or another channel, while tests of before are still on their   *)
(* way.  A test is one GET, and equal GETs in flight share one answer      *)
(* (patchAPIInstance).  The state a closure captured is kept in its call.  *)
(* The search keyword, the endpoint type and the selection are left out: a *)
(* batch is over all the models of the channel.                            *)
(***************************************************************************)
EXTENDS Integers, FiniteSets

CONSTANTS
    Channels,    \* channels that can be tested
    NModels,     \* number of models of a channel
    Limit,       \* concurrencyLimit
    MaxBatches,  \* bound on the batches of a behaviour
    MaxSingles,  \* bound on the tests of single rows
    None         \* the dialog is closed

ASSUME TestAssumption ==
    /\ NModels \in Nat \ {0}
    /\ Limit \in Nat \ {0}
    /\ MaxBatches \in Nat
    /\ MaxSingles \in Nat
    /\ None \notin Channels

Models == 1..NModels

(* What a test may ask for: 0 is the model '', the test button of a        *)
(* channel's row in the table, for which the server takes a model.         *)
Asked == 0..NModels

Loops == 1..MaxBatches

VARIABLES
    open,      \* currentTestChannel while the dialog is shown
    batching,  \* isBatchTesting
    stop,      \* shouldStopBatchTestingRef
    testing,   \* testingModels
    results,   \* modelTestResults
    calls,     \* the calls of testChannel in flight
    loops,     \* the calls of batchTestModels
    batches,   \* number of batches so far
    singles,   \* number of single tests so far
    told,      \* history: the loops whose end was announced to the user
    revived,   \* history: a batch began while an older one was still alive
    cleared    \* history: a result was deleted while its batch was alive

vars == <<open, batching, stop, testing, results, calls, loops, batches,
          singles, told, revived, cleared>>

Alive(l) == loops[l].st \in {"wait", "pause", "sum"}

NoLoop == [st |-> "new", ch |-> None, next |-> 1]

Init ==
    /\ open = None
    /\ batching = FALSE
    /\ stop = FALSE
    /\ testing = {}
    /\ results = [c \in Channels |-> [m \in Asked |-> "none"]]
    /\ calls = {}
    /\ loops = [l \in Loops |-> NoLoop]
    /\ batches = 0
    /\ singles = 0
    /\ told = {}
    /\ revived = FALSE
    /\ cleared = FALSE

Open(c) ==
    /\ open = None
    /\ open' = c
    /\ UNCHANGED <<batching, stop, testing, results, calls, loops, batches,
                   singles, told, revived, cleared>>

(* Mutant: closing does not stop the batch. *)
StopsOnClose == stop

StopOnClose == batching \/ stop

(* handleCloseModal, also the stop button.  The results are kept.          *)
Close ==
    /\ open # None
    /\ stop' = StopOnClose
    /\ told' = IF batching THEN told \cup {l \in Loops : Alive(l)} ELSE told
    /\ open' = None
    /\ batching' = FALSE
    /\ testing' = {}
    /\ UNCHANGED <<results, calls, loops, batches, singles, revived, cleared>>

(* A call of testChannel from loop l (0: from a row).  A row's handler is  *)
(* of the latest rendering and sees isBatchTesting; the calls of a loop    *)
(* see the value of the moment its button was pressed, when it was FALSE.  *)
Call(l, c, m) == [loop |-> l, ch |-> c, model |-> m, seen |-> l = 0 /\ batching]

(* The row button does nothing while it shows that its model is tested.    *)
(* testChannel returns at once when a batch is being stopped.              *)
TestRow(m) ==
    /\ open # None
    /\ m \notin testing
    /\ singles < MaxSingles
    /\ singles' = singles + 1
    /\ IF stop /\ batching
       THEN UNCHANGED <<calls, testing>>
       ELSE /\ calls' = calls \cup {Call(0, open, m)}
            /\ testing' = testing \cup {m}
    /\ UNCHANGED <<open, batching, stop, results, loops, batches, told,
                   revived, cleared>>

(* The test button in the table of channels: to be reached when the dialog *)
(* is closed, and not blocked by a test that is on its way.                *)
TestChannel(c) ==
    /\ open = None
    /\ singles < MaxSingles
    /\ singles' = singles + 1
    /\ IF stop /\ batching
       THEN UNCHANGED <<calls, testing>>
       ELSE /\ calls' = calls \cup {Call(0, c, 0)}
            /\ testing' = testing \cup {0}
    /\ UNCHANGED <<open, batching, stop, results, loops, batches, told,
                   revived, cleared>>

(* Mutant: the next slice begins one model too late. *)
SliceLate(i) == {m \in Models : i < m /\ m < i + Limit}

Slice(i) == {m \in Models : i <= m /\ m < i + Limit}

(* The body of the loop up to Promise.allSettled.                          *)
Launch(l, c, i) ==
    /\ calls' = calls \cup {Call(l, c, m) : m \in Slice(i)}
    /\ testing' = testing \cup Slice(i)
    /\ loops' = [loops EXCEPT ![l] = [st |-> "wait", ch |-> c, next |-> i + Limit]]

(* The results of the models of the list; not that of the model ''.        *)
Cleaned(c) ==
    [results EXCEPT ![c] = [m \in Asked |-> IF m \in Models THEN "none" ELSE results[c][m]]]

(* batchTestModels: an older loop that still waits for its tests sees the  *)
(* stop flag cleared.                                                      *)
StartBatch ==
    /\ open # None
    /\ ~batching
    /\ batches < MaxBatches
    /\ batches' = batches + 1
    /\ batching' = TRUE
    /\ stop' = FALSE
    /\ results' = Cleaned(open)
    /\ Launch(batches + 1, open, 1)
    /\ revived' = (revived \/ \E l \in Loops : Alive(l))
    /\ cleared' = (cleared \/ \E l \in Loops : Alive(l) /\ loops[l].ch = open)
    /\ UNCHANGED <<open, singles, told>>

(* The calls that wait for the same request.                               *)
Sharing(c, m) == {k \in calls : k.ch = c /\ k.model = m}

Settled(l, left) == loops[l].st = "wait" /\ \A k \in left : k.loop # l

(* Mutant: the loop does not end with the list. *)
AfterSliceNoEnd(l) == IF stop THEN "over" ELSE "pause"

(* What a loop does when the last test of its slice is over.               *)
AfterSlice(l) ==
    IF stop THEN "over" ELSE IF loops[l].next <= NModels THEN "pause" ELSE "sum"

Tested(m) == testing \ {m}

(* The answer of a test, or its failure.  The handlers of all the calls    *)
(* that share the answer run, and then the loops whose slice is complete   *)
(* go on, before the browser takes the next event.  updateChannelProperty  *)
(* changes only the two times shown in the channel's row.                  *)
Answer(c, m, verdict) ==
    LET left == calls \ Sharing(c, m)
        ended == {l \in Loops : Settled(l, left)}
        heard == {k \in Sharing(c, m) : ~(stop /\ k.seen)}
    IN  /\ Sharing(c, m) # {}
        /\ calls' = left
        /\ results' = IF heard # {} THEN [results EXCEPT ![c][m] = verdict]
                                    ELSE results
        /\ testing' = Tested(m)
        /\ loops' = [l \in Loops |->
                       IF l \in ended THEN [loops[l] EXCEPT !.st = AfterSlice(l)]
                                      ELSE loops[l]]
        /\ batching' = (batching /\ ~\E l \in ended : AfterSlice(l) = "over")
        /\ UNCHANGED <<open, stop, batches, singles, told, revived, cleared>>

(* After the delay of 100 ms.                                              *)
NextSlice(l) ==
    /\ loops[l].st = "pause"
    /\ IF stop
       THEN /\ loops' = [loops EXCEPT ![l].st = "over"]
            /\ batching' = FALSE
            /\ UNCHANGED <<calls, testing>>
       ELSE /\ Launch(l, loops[l].ch, loops[l].next)
            /\ UNCHANGED batching
    /\ UNCHANGED <<open, stop, results, batches, singles, told, revived, cleared>>

(* Mutant: the flag of the dialog is not cleared at the end. *)
FlagKept == batching

(* The finally of batchTestModels.                                         *)
FlagCleared == FALSE

(* After 300 ms: the summary counts the results; a missing one is a        *)
(* failure.                                                                *)
Summarise(l) ==
    /\ loops[l].st = "sum"
    /\ loops' = [loops EXCEPT ![l].st = "over"]
    /\ batching' = FlagCleared
    /\ UNCHANGED <<open, stop, testing, results, calls, batches, singles, told,
                   revived, cleared>>

Answered == \E c \in Channels, m \in Asked, v \in {"ok", "bad"} : Answer(c, m, v)

Goes == \E l \in Loops : NextSlice(l) \/ Summarise(l)

Next ==
    \/ \E c \in Channels : Open(c) \/ TestChannel(c)
    \/ Close
    \/ \E m \in Models : TestRow(m)
    \/ StartBatch
    \/ \E c \in Channels, m \in Asked, v \in {"ok", "bad"} : Answer(c, m, v)
    \/ \E l \in Loops : NextSlice(l) \/ Summarise(l)

(* A request is answered or fails, and timers fire.                        *)
Spec == Init /\ [][Next]_vars /\ WF_vars(Answered) /\ WF_vars(Goes)

-----------------------------------------------------------------------------
(* The types of the variables.                                             *)
TypeOK ==
    /\ open \in Channels \cup {None}
    /\ batching \in BOOLEAN
    /\ stop \in BOOLEAN
    /\ testing \subseteq Asked
    /\ results \in [Channels -> [Asked -> {"none", "ok", "bad"}]]
    /\ calls \subseteq [loop : 0..MaxBatches, ch : Channels, model : Asked,
                        seen : BOOLEAN]
    /\ loops \in [Loops -> [st : {"new", "wait", "pause", "sum", "over"},
                            ch : Channels \cup {None}, next : Nat]]
    /\ batches \in 0..MaxBatches
    /\ singles \in 0..MaxSingles
    /\ told \subseteq Loops
    /\ revived \in BOOLEAN
    /\ cleared \in BOOLEAN

(* The dialog says that a batch is running only while the latest batch is, *)
(* for the channel of the dialog: opened on another channel it never shows *)
(* the progress of the batch of before, and a batch being stopped is not   *)
(* shown as running.                                                       *)
FlagHasBatch ==
    batching => /\ ~stop
                /\ batches > 0
                /\ Alive(batches)
                /\ loops[batches].ch = open

(* When a batch counts its results every model has one of its own: none is *)
(* counted as a failure because its test was skipped, dropped by the stop  *)
(* flag or lost, and none is left from before.  The exception is a second  *)
(* batch of the channel, which clears the results under the first.         *)
SummaryComplete ==
    \A l \in Loops :
        loops[l].st = "sum" /\ ~cleared =>
            \A m \in Models : results[loops[l].ch][m] # "none"

(* A batch whose stop was announced begins no test again, unless a later   *)
(* batch has cleared the stop flag while it was waiting.                   *)
StoppedStaysStopped ==
    [][\A l \in told : loops'[l].st = "wait" /\ loops'[l].next # loops[l].next
           => revived]_vars

(* Every batch comes to an end.                                            *)
BatchEnds == \A l \in Loops : Alive(l) ~> loops[l].st = "over"

=============================================================================
