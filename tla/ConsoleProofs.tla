--------------------------- MODULE ConsoleProofs ---------------------------
(***************************************************************************)
(* Proofs about two pages of the console.  The model test of a channel,    *)
(* for any number of channels, models and batches and any concurrency      *)
(* limit; and the playground (the instance P), for any number of requests, *)
(* loads of the page, waiting saves and clicks.                            *)
(***************************************************************************)
EXTENDS ModelTest, PlaygroundState, FiniteSetTheorems, WellFoundedInduction, TLAPS

(***************************************************************************)
(* The inductive invariant                                                 *)
(***************************************************************************)
\* The loops are begun in the order of their numbers, each on a channel.
BegunInv ==
    \A l \in Loops : /\ l > batches <=> loops[l].st = "new"
                     /\ l <= batches => loops[l].ch \in Channels

\* The models a live batch has come to have a result, or their test is on its
\* way and will be heard whatever the stop flag is.
OnItsWay(l, m) ==
    \E k \in calls : /\ k.loop = l /\ k.ch = loops[l].ch /\ k.model = m
                     /\ ~k.seen

ReachedInv ==
    ~cleared => \A l \in Loops : Alive(l) =>
        \A m \in Models : m < loops[l].next =>
            results[loops[l].ch][m] # "none" \/ OnItsWay(l, m)

\* Promise.allSettled: a loop past its slice has no test on its way, and one
\* that counts has come to the end of the list.
SettledInv ==
    \A l \in Loops :
        /\ loops[l].st \in {"pause", "sum"} => \A k \in calls : k.loop # l
        /\ loops[l].st = "sum" => loops[l].next > NModels

\* A batch whose stop was announced still sees the stop flag.
ToldInv ==
    \A l \in told : l <= batches /\ (Alive(l) /\ ~revived => stop)

IInv == TypeOK /\ BegunInv /\ FlagHasBatch /\ ReachedInv /\ SettledInv /\ ToldInv

CallType == [loop : 0..MaxBatches, ch : Channels, model : Asked, seen : BOOLEAN]
LoopType == [st : {"new", "wait", "pause", "sum", "over"},
             ch : Channels \cup {None}, next : Nat]

(***************************************************************************)
(* Facts about one step                                                    *)
(***************************************************************************)
\* The models are numbered from 1; 0 stands for the model ''.
LEMMA ModelsAsked == Models \subseteq Asked /\ 0 \in Asked /\ 0 \notin Models
BY TestAssumption DEF Models, Asked

\* The call of a loop is heard always.
LEMMA CallFacts ==
    ASSUME TypeOK, NEW l \in 0..MaxBatches, NEW c \in Channels, NEW m \in Asked
    PROVE  /\ Call(l, c, m) \in CallType
           /\ Call(l, c, m).loop = l /\ Call(l, c, m).ch = c /\ Call(l, c, m).model = m
           /\ l # 0 => ~Call(l, c, m).seen
BY TestAssumption DEF Call, CallType, TypeOK

\* What the start of a slice changes: one loop, and calls of that loop.
LEMMA LaunchFacts ==
    ASSUME TypeOK, NEW l \in Loops, NEW c \in Channels, NEW i \in Nat, Launch(l, c, i)
    PROVE  /\ calls \subseteq calls' /\ calls' \subseteq CallType
           /\ \A k \in calls' \ calls : k.loop = l
           /\ \A m \in Models : i <= m /\ m < i + Limit =>
                \E k \in calls' : k.loop = l /\ k.ch = c /\ k.model = m /\ ~k.seen
           /\ testing' \subseteq Asked
           /\ loops' \in [Loops -> LoopType]
           /\ loops'[l] = [st |-> "wait", ch |-> c, next |-> i + Limit]
           /\ \A n \in Loops : n # l => loops'[n] = loops[n]
<1>0. l \in 0..MaxBatches /\ l # 0
  BY TestAssumption DEF Loops
<1>1. \A m \in Models : /\ Call(l, c, m) \in CallType
                        /\ Call(l, c, m).loop = l /\ Call(l, c, m).ch = c
                        /\ Call(l, c, m).model = m /\ ~Call(l, c, m).seen
  BY <1>0, CallFacts, ModelsAsked
<1>2. Slice(i) \subseteq Models /\ Models \subseteq Asked
  BY ModelsAsked DEF Slice
<1>3. \A m \in Models : i <= m /\ m < i + Limit => m \in Slice(i)
  BY DEF Slice
<1>4. calls \subseteq CallType
  BY DEF TypeOK, CallType
<1>5. calls' = calls \cup {Call(l, c, m) : m \in Slice(i)}
  BY DEF Launch
<1>6. loops' = [loops EXCEPT ![l] = [st |-> "wait", ch |-> c, next |-> i + Limit]]
  BY DEF Launch
<1>7. loops \in [Loops -> LoopType] /\ i + Limit \in Nat
  BY TestAssumption DEF TypeOK, LoopType
<1>8. testing' \subseteq Asked
  BY <1>2 DEF Launch, TypeOK
<1>9. \A m \in Models : i <= m /\ m < i + Limit =>
        \E k \in calls' : k.loop = l /\ k.ch = c /\ k.model = m /\ ~k.seen
  <2> SUFFICES ASSUME NEW m \in Models, i <= m, m < i + Limit
               PROVE  \E k \in calls' : k.loop = l /\ k.ch = c /\ k.model = m /\ ~k.seen
    OBVIOUS
  <2>1. Call(l, c, m) \in calls'
    BY <1>3, <1>5
  <2> QED BY <1>1, <2>1
<1>10. calls \subseteq calls' /\ calls' \subseteq CallType /\ \A k \in calls' \ calls : k.loop = l
  BY <1>1, <1>2, <1>4, <1>5
<1>11. loops' \in [Loops -> LoopType]
         /\ loops'[l] = [st |-> "wait", ch |-> c, next |-> i + Limit]
         /\ \A n \in Loops : n # l => loops'[n] = loops[n]
  BY <1>6, <1>7 DEF LoopType
<1> QED BY <1>8, <1>9, <1>10, <1>11

\* What an answer does to a loop.
LEMMA AnswerFacts ==
    ASSUME TypeOK, NEW c \in Channels, NEW m \in Asked, NEW v \in {"ok", "bad"},
           Answer(c, m, v), NEW l \in Loops
    PROVE  /\ loops'[l] \in LoopType
           /\ loops'[l].ch = loops[l].ch /\ loops'[l].next = loops[l].next
           /\ \/ loops'[l].st = loops[l].st
              \/ /\ loops[l].st = "wait"
                 /\ loops'[l].st \in {"over", "pause", "sum"}
                 /\ \A k \in calls' : k.loop # l
                 /\ loops'[l].st = "sum" => loops[l].next > NModels
                 /\ stop <=> loops'[l].st = "over"
                 /\ stop => ~batching'
<1> DEFINE left == calls \ Sharing(c, m)
           ended == {n \in Loops : Settled(n, left)}
<1>1. loops'[l] = IF l \in ended THEN [loops[l] EXCEPT !.st = AfterSlice(l)]
                                 ELSE loops[l]
  BY DEF Answer
<1>2. loops[l] \in LoopType
  BY DEF TypeOK, LoopType
<1>3. /\ AfterSlice(l) \in {"over", "pause", "sum"}
      /\ stop <=> AfterSlice(l) = "over"
      /\ AfterSlice(l) = "sum" => loops[l].next > NModels
  <2>1. CASE stop
    BY <2>1 DEF AfterSlice
  <2>2. CASE ~stop
    <3>1. AfterSlice(l) = IF loops[l].next <= NModels THEN "pause" ELSE "sum"
      BY <2>2 DEF AfterSlice
    <3>2. loops[l].next \in Nat /\ NModels \in Nat
      BY <1>2, TestAssumption DEF LoopType
    <3> QED BY <2>2, <3>1, <3>2
  <2> QED BY <2>1, <2>2
<1>4. calls' = left /\ (batching' = (batching /\ ~\E n \in ended : AfterSlice(n) = "over"))
  BY DEF Answer
<1>5. l \in ended => loops[l].st = "wait" /\ \A k \in calls' : k.loop # l
  BY <1>4 DEF Settled
<1>6. CASE l \in ended
  <2>1. loops'[l] = [loops[l] EXCEPT !.st = AfterSlice(l)]
    BY <1>1, <1>6
  <2>2. /\ loops'[l] \in LoopType /\ loops'[l].st = AfterSlice(l)
        /\ loops'[l].ch = loops[l].ch /\ loops'[l].next = loops[l].next
    BY <2>1, <1>2, <1>3 DEF LoopType
  <2>3. stop => ~batching'
    BY <1>3, <1>4, <1>6, Zenon
  <2> QED BY <2>2, <2>3, <1>3, <1>5, <1>6
<1>7. CASE l \notin ended
  BY <1>1, <1>2, <1>7
<1> QED BY <1>6, <1>7

(***************************************************************************)
(* Each part of the invariant is kept by every step                        *)
(***************************************************************************)
LEMMA Initially == Init => IInv
<1> SUFFICES ASSUME Init PROVE IInv
  OBVIOUS
<1> USE TestAssumption DEF Init, NoLoop, Loops, Models, Asked
<1>1. TypeOK
  <2>1. loops \in [Loops -> LoopType]
    BY DEF LoopType
  <2>2. results \in [Channels -> [Asked -> {"none", "ok", "bad"}]]
    OBVIOUS
  <2>3. batches \in 0..MaxBatches /\ singles \in 0..MaxSingles
    OBVIOUS
  <2>4. batching \in BOOLEAN /\ stop \in BOOLEAN /\ revived \in BOOLEAN /\ cleared \in BOOLEAN
    BY Zenon
  <2> QED BY <2>1, <2>2, <2>3, <2>4 DEF TypeOK, LoopType
<1>2. BegunInv
  BY DEF BegunInv
<1>3. FlagHasBatch
  BY Zenon DEF FlagHasBatch
<1>4. ReachedInv
  BY DEF ReachedInv, Alive
<1>5. SettledInv
  BY DEF SettledInv
<1>6. ToldInv
  BY DEF ToldInv
<1> QED BY <1>1, <1>2, <1>3, <1>4, <1>5, <1>6 DEF IInv

\* The start of a batch: the next loop begins on the channel of the dialog.
LEMMA StartFacts ==
    ASSUME TypeOK, StartBatch
    PROVE  /\ batches + 1 \in Loops /\ batches \in Nat /\ batches' = batches + 1
           /\ open \in Channels /\ 1 \in Nat
           /\ Launch(batches + 1, open, 1)
BY TestAssumption DEF StartBatch, TypeOK, Loops

\* A loop that goes on has a channel.
LEMMA GoesFacts ==
    ASSUME TypeOK, BegunInv, NEW l \in Loops, loops[l].st # "new"
    PROVE  /\ loops[l].ch \in Channels /\ loops[l].next \in Nat
           /\ l \in Nat /\ l <= batches /\ batches \in Nat
<1>1. l \in Nat /\ batches \in Nat /\ loops[l] \in LoopType
  BY TestAssumption DEF TypeOK, Loops, LoopType
<1> QED BY <1>1 DEF BegunInv, LoopType

\* A loop after its pause: it ends, or it starts the next slice.
LEMMA NextSliceFacts ==
    ASSUME TypeOK, BegunInv, NEW l \in Loops, NextSlice(l), ~stop
    PROVE  /\ loops[l].st = "pause" /\ loops[l].ch \in Channels /\ loops[l].next \in Nat
           /\ loops'[l] = [st |-> "wait", ch |-> loops[l].ch,
                           next |-> loops[l].next + Limit]
           /\ \A n \in Loops : n # l => loops'[n] = loops[n]
           /\ calls \subseteq calls' /\ \A k \in calls' \ calls : k.loop = l
           /\ \A m \in Models : loops[l].next <= m /\ m < loops[l].next + Limit =>
                \E k \in calls' : k.loop = l /\ k.ch = loops[l].ch /\ k.model = m /\ ~k.seen
           /\ calls' \subseteq CallType /\ testing' \subseteq Asked
           /\ loops' \in [Loops -> LoopType]
<1>1. loops[l].st = "pause" /\ loops[l].ch \in Channels /\ loops[l].next \in Nat
  BY GoesFacts DEF NextSlice
<1>2. PICK c \in Channels, i \in Nat : c = loops[l].ch /\ i = loops[l].next
  BY <1>1
<1>3. Launch(l, c, i)
  BY <1>2 DEF NextSlice
<1>4. /\ loops'[l] = [st |-> "wait", ch |-> c, next |-> i + Limit]
      /\ \A n \in Loops : n # l => loops'[n] = loops[n]
      /\ calls \subseteq calls' /\ \A k \in calls' \ calls : k.loop = l
      /\ \A m \in Models : i <= m /\ m < i + Limit =>
           \E k \in calls' : k.loop = l /\ k.ch = c /\ k.model = m /\ ~k.seen
      /\ calls' \subseteq CallType /\ testing' \subseteq Asked
      /\ loops' \in [Loops -> LoopType]
  BY <1>3, LaunchFacts
<1> QED BY <1>1, <1>2, <1>4

LEMMA TypeNext == TypeOK /\ BegunInv /\ [Next]_vars => TypeOK'
<1> SUFFICES ASSUME TypeOK, BegunInv, [Next]_vars PROVE TypeOK'
  OBVIOUS
<1>1. ASSUME NEW c \in Channels, Open(c) PROVE TypeOK'
  BY <1>1 DEF Open, TypeOK
<1>2. CASE Close
  BY <1>2 DEF Close, StopOnClose, TypeOK
<1>3. ASSUME NEW m \in Models, TestRow(m) PROVE TypeOK'
  <2>1. Call(0, open, m) \in CallType
    BY <1>3, CallFacts, ModelsAsked, TestAssumption DEF TestRow, TypeOK
  <2>2. singles' \in 0..MaxSingles
    BY <1>3, TestAssumption DEF TestRow, TypeOK
  <2> QED BY <1>3, <2>1, <2>2, ModelsAsked DEF TestRow, TypeOK, CallType
<1>9. ASSUME NEW c \in Channels, TestChannel(c) PROVE TypeOK'
  <2>1. Call(0, c, 0) \in CallType
    BY <1>9, CallFacts, ModelsAsked, TestAssumption DEF TypeOK
  <2>2. singles' \in 0..MaxSingles
    BY <1>9, TestAssumption DEF TestChannel, TypeOK
  <2> QED BY <1>9, <2>1, <2>2, ModelsAsked DEF TestChannel, TypeOK, CallType
<1>4. CASE StartBatch
  <2>1. /\ calls' \subseteq CallType /\ testing' \subseteq Asked
        /\ loops' \in [Loops -> LoopType]
    BY <1>4, StartFacts, LaunchFacts
  <2>2. batches' \in 0..MaxBatches
    BY <1>4, TestAssumption DEF StartBatch, TypeOK
  <2>3. results' \in [Channels -> [Asked -> {"none", "ok", "bad"}]]
    BY <1>4 DEF StartBatch, Cleaned, TypeOK
  <2>4. revived' \in BOOLEAN /\ cleared' \in BOOLEAN
    BY <1>4, Zenon DEF StartBatch
  <2> QED BY <1>4, <2>1, <2>2, <2>3, <2>4 DEF StartBatch, TypeOK, CallType, LoopType
<1>5. ASSUME NEW c \in Channels, NEW m \in Asked, NEW v \in {"ok", "bad"},
             Answer(c, m, v)
      PROVE TypeOK'
  <2>1. results' \in [Channels -> [Asked -> {"none", "ok", "bad"}]]
    BY <1>5 DEF Answer, TypeOK
  <2>2. \A l \in Loops : loops'[l] \in LoopType
    BY <1>5, AnswerFacts
  <2>3. loops' \in [Loops -> LoopType]
    BY <1>5, <2>2 DEF Answer
  <2>4. batching' \in BOOLEAN
    BY <1>5, Zenon DEF Answer
  <2>5. calls' \subseteq calls /\ testing' \subseteq testing
    BY <1>5 DEF Answer, Tested
  <2>6. UNCHANGED <<open, stop, batches, singles, told, revived, cleared>>
    BY <1>5 DEF Answer
  <2> QED BY <2>1, <2>3, <2>4, <2>5, <2>6 DEF TypeOK, LoopType
<1>6. ASSUME NEW l \in Loops, NextSlice(l) PROVE TypeOK'
  <2>1. CASE stop
    <3>1. loops' = [loops EXCEPT ![l].st = "over"] /\ ~batching' /\ batching' \in BOOLEAN
            /\ UNCHANGED <<open, stop, results, batches, singles, told, revived, cleared,
                           calls, testing>>
      BY <1>6, <2>1 DEF NextSlice
    <3>2. loops' \in [Loops -> LoopType]
      BY <3>1 DEF TypeOK, LoopType
    <3> QED BY <3>1, <3>2 DEF TypeOK, LoopType
  <2>2. CASE ~stop
    <3>1. /\ calls' \subseteq CallType /\ testing' \subseteq Asked
          /\ loops' \in [Loops -> LoopType]
      BY <1>6, <2>2, NextSliceFacts
    <3> QED BY <1>6, <2>2, <3>1 DEF NextSlice, TypeOK, CallType, LoopType
  <2> QED BY <2>1, <2>2
<1>7. ASSUME NEW l \in Loops, Summarise(l) PROVE TypeOK'
  <2>1. loops' \in [Loops -> LoopType]
    BY <1>7 DEF Summarise, TypeOK, LoopType
  <2> QED BY <1>7, <2>1 DEF Summarise, FlagCleared, TypeOK, LoopType
<1>8. CASE UNCHANGED vars
  BY <1>8 DEF vars, TypeOK
<1> QED BY <1>1, <1>2, <1>3, <1>4, <1>5, <1>6, <1>7, <1>8, <1>9 DEF Next

LEMMA BegunNext == TypeOK /\ BegunInv /\ [Next]_vars => BegunInv'
<1> SUFFICES ASSUME TypeOK, BegunInv, [Next]_vars PROVE BegunInv'
  OBVIOUS
<1>0. batches \in Nat /\ Loops \subseteq Nat
  BY TestAssumption DEF TypeOK, Loops
<1>1. ASSUME UNCHANGED <<loops, batches>> PROVE BegunInv'
  BY <1>1 DEF BegunInv
<1>2. CASE StartBatch
  <2>1. /\ loops'[batches + 1] = [st |-> "wait", ch |-> open, next |-> 1 + Limit]
        /\ \A n \in Loops : n # batches + 1 => loops'[n] = loops[n]
    BY <1>2, StartFacts, LaunchFacts
  <2> QED BY <1>0, <1>2, <2>1, StartFacts DEF BegunInv
<1>3. ASSUME NEW l \in Loops, NEW n \in Loops, batches' = batches, loops[n].st # "new",
             \A k \in Loops : k # n => loops'[k] = loops[k],
             loops'[n].st # "new", loops'[n].ch = loops[n].ch
      PROVE BegunInv'
  BY <1>3 DEF BegunInv
<1>4. ASSUME NEW c \in Channels, NEW m \in Asked, NEW v \in {"ok", "bad"},
             Answer(c, m, v)
      PROVE BegunInv'
  <2>1. \A l \in Loops : /\ loops'[l].st = "new" <=> loops[l].st = "new"
                         /\ loops'[l].ch = loops[l].ch
    BY <1>4, AnswerFacts
  <2>2. batches' = batches
    BY <1>4 DEF Answer
  <2> QED BY <1>0, <2>1, <2>2 DEF BegunInv
<1>5. ASSUME NEW l \in Loops, NextSlice(l) PROVE BegunInv'
  <2>1. loops[l].st # "new" /\ batches' = batches
    BY <1>5 DEF NextSlice
  <2>2. CASE stop
    <3>1. loops'[l].st = "over" /\ loops'[l].ch = loops[l].ch
            /\ \A k \in Loops : k # l => loops'[k] = loops[k]
      BY <1>5, <2>2 DEF NextSlice, TypeOK
    <3> QED BY <2>1, <3>1, <1>3
  <2>3. CASE ~stop
    <3>1. loops'[l].st = "wait" /\ loops'[l].ch = loops[l].ch
            /\ \A k \in Loops : k # l => loops'[k] = loops[k]
      <4>1. /\ loops'[l] = [st |-> "wait", ch |-> loops[l].ch,
                            next |-> loops[l].next + Limit]
            /\ \A k \in Loops : k # l => loops'[k] = loops[k]
        BY <1>5, <2>3, NextSliceFacts, Zenon
      <4> QED BY <4>1
    <3> QED BY <2>1, <3>1, <1>3
  <2> QED BY <2>2, <2>3
<1>6. ASSUME NEW l \in Loops, Summarise(l) PROVE BegunInv'
  <2>1. loops[l].st # "new" /\ batches' = batches
          /\ loops'[l].st = "over" /\ loops'[l].ch = loops[l].ch
          /\ \A k \in Loops : k # l => loops'[k] = loops[k]
    BY <1>6 DEF Summarise, TypeOK
  <2> QED BY <2>1, <1>3
<1> QED BY <1>1, <1>2, <1>4, <1>5, <1>6
        DEF Next, Open, Close, TestRow, TestChannel, vars

LEMMA FlagNext ==
    TypeOK /\ BegunInv /\ FlagHasBatch /\ [Next]_vars => FlagHasBatch'
<1> SUFFICES ASSUME TypeOK, BegunInv, FlagHasBatch, [Next]_vars, batching'
             PROVE  ~stop' /\ batches' > 0 /\ Alive(batches)' /\ loops'[batches'].ch = open'
  BY DEF FlagHasBatch
<1>0. batches \in Nat /\ batches \in 0..MaxBatches /\ MaxBatches \in Nat
  BY TestAssumption DEF TypeOK
<1>1. ASSUME batching
      PROVE  /\ ~stop /\ batches > 0 /\ Alive(batches) /\ loops[batches].ch = open
             /\ batches \in Loops /\ open \in Channels
  <2>1. ~stop /\ batches > 0 /\ Alive(batches) /\ loops[batches].ch = open
    BY <1>1 DEF FlagHasBatch
  <2>2. batches \in Loops
    BY <1>0, <2>1 DEF Loops
  <2> QED BY <1>0, <2>1, <2>2 DEF BegunInv
<1>2. ASSUME NEW c \in Channels, Open(c) PROVE FALSE
  BY <1>1, <1>2, TestAssumption DEF Open
<1>3. CASE Close
  BY <1>3 DEF Close
<1>4. CASE StartBatch
  <2>1. batches' = batches + 1 /\ batches + 1 \in Loops /\ open' = open /\ ~stop'
    BY <1>4, StartFacts DEF StartBatch
  <2>2. loops'[batches + 1] = [st |-> "wait", ch |-> open, next |-> 1 + Limit]
    BY <1>4, StartFacts, LaunchFacts
  <2> QED BY <1>0, <2>1, <2>2 DEF Alive
<1>5. ASSUME NEW c \in Channels, NEW m \in Asked, NEW v \in {"ok", "bad"},
             Answer(c, m, v)
      PROVE ~stop' /\ batches' > 0 /\ Alive(batches)' /\ loops'[batches'].ch = open'
  <2>1. batching /\ UNCHANGED <<open, stop, batches>>
    BY <1>5 DEF Answer
  <2>2. /\ loops'[batches].ch = loops[batches].ch
        /\ loops'[batches].st = loops[batches].st \/ loops'[batches].st \in {"pause", "sum"}
    BY <1>1, <1>5, <2>1, AnswerFacts
  <2> QED BY <1>1, <2>1, <2>2 DEF Alive
<1>6. ASSUME NEW l \in Loops, NextSlice(l)
      PROVE ~stop' /\ batches' > 0 /\ Alive(batches)' /\ loops'[batches'].ch = open'
  <2>1. batching /\ ~stop /\ UNCHANGED <<open, stop, batches>>
    BY <1>6 DEF NextSlice
  <2>2. /\ loops'[l] = [st |-> "wait", ch |-> loops[l].ch, next |-> loops[l].next + Limit]
        /\ \A n \in Loops : n # l => loops'[n] = loops[n]
    BY <1>6, <2>1, NextSliceFacts
  <2> QED BY <1>1, <2>1, <2>2 DEF Alive
<1>7. ASSUME NEW l \in Loops, Summarise(l) PROVE FALSE
  BY <1>7 DEF Summarise, FlagCleared
<1>8. ASSUME NEW m \in Models, TestRow(m)
      PROVE ~stop' /\ batches' > 0 /\ Alive(batches)' /\ loops'[batches'].ch = open'
  BY <1>1, <1>8 DEF TestRow, Alive
<1>10. ASSUME NEW c \in Channels, TestChannel(c) PROVE FALSE
  BY <1>1, <1>10, TestAssumption DEF TestChannel
<1>9. CASE UNCHANGED vars
  BY <1>1, <1>9 DEF vars, Alive
<1> QED BY <1>2, <1>3, <1>4, <1>5, <1>6, <1>7, <1>8, <1>9, <1>10 DEF Next

LEMMA SettledNext ==
    TypeOK /\ BegunInv /\ SettledInv /\ [Next]_vars => SettledInv'
<1> SUFFICES ASSUME TypeOK, BegunInv, SettledInv, [Next]_vars PROVE SettledInv'
  OBVIOUS
<1>1. ASSUME UNCHANGED loops, \A k \in calls' : k \in calls \/ k.loop = 0
      PROVE  SettledInv'
  BY <1>1 DEF SettledInv, Loops
<1>2. ASSUME NEW m \in Models, TestRow(m) PROVE SettledInv'
  <2>1. Call(0, open, m).loop = 0
    BY DEF Call
  <2> QED BY <1>1, <1>2, <2>1 DEF TestRow
<1>8. ASSUME NEW c \in Channels, TestChannel(c) PROVE SettledInv'
  <2>1. Call(0, c, 0).loop = 0
    BY DEF Call
  <2> QED BY <1>1, <1>8, <2>1 DEF TestChannel
<1>3. ASSUME NEW l \in Loops, loops'[l].st \notin {"pause", "sum"},
             \A n \in Loops : n # l => loops'[n] = loops[n],
             \A k \in calls' : k \in calls \/ k.loop = l
      PROVE  SettledInv'
  BY <1>3 DEF SettledInv
<1>4. CASE StartBatch
  <2>1. /\ loops'[batches + 1] = [st |-> "wait", ch |-> open, next |-> 1 + Limit]
        /\ \A n \in Loops : n # batches + 1 => loops'[n] = loops[n]
        /\ \A k \in calls' \ calls : k.loop = batches + 1
    BY <1>4, StartFacts, LaunchFacts
  <2> QED BY <1>3, <1>4, <2>1, StartFacts
<1>5. ASSUME NEW c \in Channels, NEW m \in Asked, NEW v \in {"ok", "bad"},
             Answer(c, m, v)
      PROVE SettledInv'
  <2>1. calls' \subseteq calls
    BY <1>5 DEF Answer
  <2>2. \A l \in Loops :
          /\ loops'[l].next = loops[l].next
          /\ \/ loops'[l].st = loops[l].st
             \/ /\ \A k \in calls' : k.loop # l
                /\ loops'[l].st = "sum" => loops[l].next > NModels
    BY <1>5, AnswerFacts
  <2> QED BY <2>1, <2>2 DEF SettledInv
<1>6. ASSUME NEW l \in Loops, NextSlice(l) PROVE SettledInv'
  <2>1. CASE stop
    <3>1. /\ loops'[l].st = "over" /\ \A n \in Loops : n # l => loops'[n] = loops[n]
          /\ calls' = calls
      BY <1>6, <2>1 DEF NextSlice, TypeOK
    <3> QED BY <3>1, <1>3
  <2>2. CASE ~stop
    <3>1. /\ loops'[l] = [st |-> "wait", ch |-> loops[l].ch,
                          next |-> loops[l].next + Limit]
          /\ \A n \in Loops : n # l => loops'[n] = loops[n]
          /\ \A k \in calls' \ calls : k.loop = l
      BY <1>6, <2>2, NextSliceFacts, Zenon
    <3>2. loops'[l].st = "wait"
      BY <3>1
    <3> QED BY <3>1, <3>2, <1>3
  <2> QED BY <2>1, <2>2
<1>7. ASSUME NEW l \in Loops, Summarise(l) PROVE SettledInv'
  <2>1. /\ loops'[l].st = "over" /\ \A n \in Loops : n # l => loops'[n] = loops[n]
        /\ calls' = calls
    BY <1>7 DEF Summarise, TypeOK
  <2> QED BY <2>1, <1>3
<1> QED BY <1>1, <1>2, <1>4, <1>5, <1>6, <1>7, <1>8 DEF Next, Open, Close, vars

LEMMA ReachedNext ==
    TypeOK /\ BegunInv /\ SettledInv /\ ReachedInv /\ [Next]_vars => ReachedInv'
<1> SUFFICES ASSUME TypeOK, BegunInv, SettledInv, ReachedInv, [Next]_vars, ~cleared',
                    NEW l \in Loops, Alive(l)', NEW m \in Models, m < loops'[l].next
             PROVE  results'[loops'[l].ch][m] # "none" \/ OnItsWay(l, m)'
  BY DEF ReachedInv
<1> DEFINE Has == results[loops[l].ch][m] # "none" \/ OnItsWay(l, m)
           Goal == results'[loops'[l].ch][m] # "none" \/ OnItsWay(l, m)'
<1>1. ASSUME ~cleared, Alive(l), m < loops[l].next PROVE Has
  BY <1>1 DEF ReachedInv
<1>2. ASSUME ~cleared, loops'[l] = loops[l], calls \subseteq calls',
             results'[loops[l].ch] = results[loops[l].ch]
      PROVE  Goal
  <2>1. Has
    BY <1>1, <1>2 DEF Alive
  <2> QED BY <1>2, <2>1 DEF OnItsWay
<1>3. ASSUME NEW n \in Loops, NextSlice(n) PROVE Goal
  <2>0. ~cleared /\ results' = results
    BY <1>3 DEF NextSlice
  <2>1. CASE stop
    <3>1. calls' = calls /\ loops'[n].st = "over" /\ (n # l => loops'[l] = loops[l])
      BY <1>3, <2>1 DEF NextSlice, TypeOK
    <3> QED BY <1>2, <2>0, <3>1 DEF Alive
  <2>2. CASE ~stop
    <3>1. loops[n].st = "pause" /\ loops[n].next \in Nat
      BY <1>3, <2>2, NextSliceFacts
    <3>2. CASE n # l
      <4>1. loops'[l] = loops[l] /\ calls \subseteq calls'
        <5>1. calls \subseteq calls' /\ \A k \in Loops : k # n => loops'[k] = loops[k]
          BY <1>3, <2>2, NextSliceFacts, Zenon
        <5> QED BY <3>2, <5>1
      <4> QED BY <1>2, <2>0, <4>1
    <3>3. CASE n = l
      <4>1. /\ loops'[l] = [st |-> "wait", ch |-> loops[l].ch, next |-> loops[l].next + Limit]
            /\ \A j \in Models : loops[l].next <= j /\ j < loops[l].next + Limit =>
                 \E k \in calls' : k.loop = l /\ k.ch = loops[l].ch /\ k.model = j /\ ~k.seen
            /\ calls \subseteq calls'
        BY <1>3, <2>2, <3>3, NextSliceFacts
      <4>2. CASE m < loops[l].next
        <5>1. Has
          BY <1>1, <2>0, <3>1, <3>3, <4>2 DEF Alive
        <5> QED BY <2>0, <4>1, <5>1 DEF OnItsWay
      <4>3. CASE ~(m < loops[l].next)
        <5>1. loops[l].next <= m /\ m < loops[l].next + Limit
          BY <3>1, <3>3, <4>1, <4>3, TestAssumption DEF Models
        <5> QED BY <4>1, <5>1 DEF OnItsWay
      <4> QED BY <4>2, <4>3
    <3> QED BY <3>2, <3>3
  <2> QED BY <2>1, <2>2
<1>4. CASE StartBatch
  <2>1. /\ loops'[batches + 1] = [st |-> "wait", ch |-> open, next |-> 1 + Limit]
        /\ \A n \in Loops : n # batches + 1 => loops'[n] = loops[n]
        /\ \A j \in Models : 1 <= j /\ j < 1 + Limit =>
              \E k \in calls' : k.loop = batches + 1 /\ k.ch = open /\ k.model = j /\ ~k.seen
        /\ calls \subseteq calls'
    BY <1>4, StartFacts, LaunchFacts
  <2>2. CASE l = batches + 1
    <3>1. 1 <= m /\ m < 1 + Limit
      BY <2>1, <2>2, TestAssumption DEF Models
    <3> QED BY <2>1, <2>2, <3>1 DEF OnItsWay
  <2>3. CASE l # batches + 1
    <3>1. loops'[l] = loops[l] /\ Alive(l)
      BY <2>1, <2>3 DEF Alive
    <3>2. ~cleared /\ loops[l].ch # open
      BY <1>4, <3>1 DEF StartBatch
    <3>3. loops[l].ch \in Channels
      BY <3>1, GoesFacts DEF Alive
    <3>4. results'[loops[l].ch] = results[loops[l].ch]
      BY <1>4, <3>2, <3>3 DEF StartBatch, Cleaned, TypeOK
    <3> QED BY <1>2, <2>1, <3>1, <3>2, <3>4
  <2> QED BY <2>2, <2>3
<1>5. ASSUME NEW c \in Channels, NEW x \in Asked, NEW v \in {"ok", "bad"},
             Answer(c, x, v)
      PROVE Goal
  <2>1. ~cleared /\ loops'[l].ch = loops[l].ch /\ loops'[l].next = loops[l].next /\ Alive(l)
    BY <1>5, AnswerFacts DEF Answer, Alive
  <2>2. Has
    BY <1>1, <2>1
  <2>3. loops[l].ch \in Channels
    BY <2>1, GoesFacts DEF Alive
  <2>4. results[loops[l].ch][m] # "none" => results'[loops[l].ch][m] # "none"
    BY <1>5, <2>3, ModelsAsked DEF Answer, TypeOK
  <2>5. ASSUME OnItsWay(l, m), ~OnItsWay(l, m)' PROVE results'[loops[l].ch][m] # "none"
    <3>1. PICK k \in calls : k.loop = l /\ k.ch = loops[l].ch /\ k.model = m /\ ~k.seen
      BY <2>5 DEF OnItsWay
    <3>2. k \notin calls'
      BY <2>1, <2>5, <3>1 DEF OnItsWay
    <3>3. k \in Sharing(c, x)
      BY <1>5, <3>2 DEF Answer
    <3>4. k.ch = c /\ k.model = x
      BY <3>3 DEF Sharing
    <3>5. results' = [results EXCEPT ![c][x] = v]
      BY <1>5, <3>1, <3>3 DEF Answer
    <3> QED BY <2>3, <3>1, <3>4, <3>5, ModelsAsked DEF TypeOK
  <2> QED BY <2>1, <2>2, <2>4, <2>5
<1>6. ASSUME NEW n \in Loops, Summarise(n) PROVE Goal
  <2>1. /\ calls' = calls /\ results' = results /\ ~cleared
        /\ loops'[n].st = "over" /\ (n # l => loops'[l] = loops[l])
    BY <1>6 DEF Summarise, TypeOK
  <2> QED BY <1>2, <2>1 DEF Alive
<1>7. ASSUME NEW x \in Models, TestRow(x) PROVE Goal
  <2>1. UNCHANGED <<loops, results, cleared>> /\ calls \subseteq calls'
    BY <1>7 DEF TestRow
  <2> QED BY <1>2, <2>1
<1>9. ASSUME NEW c \in Channels, TestChannel(c) PROVE Goal
  <2>1. UNCHANGED <<loops, results, cleared>> /\ calls \subseteq calls'
    BY <1>9 DEF TestChannel
  <2> QED BY <1>2, <2>1
<1>8. CASE UNCHANGED <<loops, results, cleared, calls>>
  BY <1>2, <1>8
<1> QED BY <1>3, <1>4, <1>5, <1>6, <1>7, <1>8, <1>9 DEF Next, Open, Close, vars

LEMMA ToldNext == TypeOK /\ BegunInv /\ FlagHasBatch /\ ToldInv /\ [Next]_vars => ToldInv'
<1> SUFFICES ASSUME TypeOK, BegunInv, FlagHasBatch, ToldInv, [Next]_vars,
                    NEW l \in told'
             PROVE  l <= batches' /\ (Alive(l)' /\ ~revived' => stop')
  BY DEF ToldInv
<1>0. batches \in Nat /\ l \in Loops /\ l \in Nat
  <2>1. TypeOK'
    BY TypeNext
  <2> QED BY <2>1, TestAssumption DEF TypeOK, Loops
<1>1. ASSUME l \in told PROVE l <= batches /\ (Alive(l) /\ ~revived => stop)
  BY <1>1 DEF ToldInv
<1>2. CASE Close
  <2>1. ASSUME Alive(l) PROVE l <= batches
    BY <2>1, <1>0, GoesFacts DEF Alive
  <2>2. batches' = batches /\ loops' = loops /\ revived' = revived /\ stop' = (batching \/ stop)
    BY <1>2 DEF Close, StopOnClose
  <2>3. l \in told \/ (batching /\ Alive(l))
    BY <1>2 DEF Close
  <2> QED BY <1>1, <2>1, <2>2, <2>3 DEF Alive
<1>3. ASSUME told' = told, batches' = batches, revived' = revived, stop' = stop,
             Alive(l)' => Alive(l)
      PROVE  l <= batches' /\ (Alive(l)' /\ ~revived' => stop')
  BY <1>1, <1>3
<1>4. CASE StartBatch
  <2>1. /\ \A n \in Loops : n # batches + 1 => loops'[n] = loops[n]
        /\ batches' = batches + 1 /\ batches + 1 \in Loops
    BY <1>4, StartFacts, LaunchFacts
  <2>2. l <= batches
    BY <1>1, <1>4 DEF StartBatch
  <2>3. Alive(l)' => Alive(l)
    BY <1>0, <2>1, <2>2 DEF Alive
  <2>4. Alive(l) => revived'
    BY <1>0, <1>4 DEF StartBatch
  <2> QED BY <1>0, <2>1, <2>2, <2>3, <2>4
<1>5. ASSUME NEW c \in Channels, NEW m \in Asked, NEW v \in {"ok", "bad"}, Answer(c, m, v)
      PROVE  l <= batches' /\ (Alive(l)' /\ ~revived' => stop')
  <2>1. Alive(l)' => Alive(l)
    BY <1>0, <1>5, AnswerFacts DEF Alive
  <2> QED BY <1>3, <1>5, <2>1 DEF Answer
<1>6. ASSUME NEW n \in Loops, NextSlice(n)
      PROVE  l <= batches' /\ (Alive(l)' /\ ~revived' => stop')
  <2>1. UNCHANGED <<told, batches, revived, stop>> /\ loops[n].st = "pause"
    BY <1>6 DEF NextSlice
  <2>2. n # l => loops'[l] = loops[l]
    <3>1. CASE stop
      BY <1>0, <1>6, <3>1 DEF NextSlice, TypeOK
    <3>2. CASE ~stop
      <4>1. \A k \in Loops : k # n => loops'[k] = loops[k]
        BY <1>6, <3>2, NextSliceFacts, Zenon
      <4> QED BY <1>0, <4>1
    <3> QED BY <3>1, <3>2
  <2> QED BY <1>3, <2>1, <2>2 DEF Alive
<1>7. ASSUME NEW n \in Loops, Summarise(n)
      PROVE  l <= batches' /\ (Alive(l)' /\ ~revived' => stop')
  <2>1. Alive(l)' => Alive(l)
    BY <1>0, <1>7 DEF Summarise, TypeOK, Alive
  <2> QED BY <1>3, <1>7, <2>1 DEF Summarise
<1>8. CASE UNCHANGED <<told, batches, revived, stop, loops>>
  BY <1>3, <1>8 DEF Alive
<1> QED BY <1>2, <1>4, <1>5, <1>6, <1>7, <1>8 DEF Next, Open, TestRow, TestChannel, vars

LEMMA InvariantNext == IInv /\ [Next]_vars => IInv'
BY TypeNext, BegunNext, FlagNext, SettledNext, ReachedNext, ToldNext DEF IInv

(***************************************************************************)
(* The theorems                                                            *)
(***************************************************************************)
\* In every reachable state of the dialog, its batches and its tests in flight
\* the variables have their types.
THEOREM TypeCorrect == Spec => []TypeOK
<1>1. IInv => TypeOK
  BY DEF IInv
<1> QED BY Initially, InvariantNext, <1>1, PTL DEF Spec

\* isBatchTesting is set only while the latest batch runs, unstopped, on the
\* channel of the dialog, however often the dialog was closed and opened again.
THEOREM FlagHasBatchThm == Spec => []FlagHasBatch
<1>1. IInv => FlagHasBatch
  BY DEF IInv
<1> QED BY Initially, InvariantNext, <1>1, PTL DEF Spec

\* When batchTestModels counts its results every model of the channel has one,
\* unless a second batch of the channel has cleared them.
THEOREM SummaryCompleteThm == Spec => []SummaryComplete
<1>1. IInv => SummaryComplete
  <2> SUFFICES ASSUME IInv, NEW l \in Loops, loops[l].st = "sum", ~cleared,
                      NEW m \in Models
               PROVE  results[loops[l].ch][m] # "none"
    BY DEF SummaryComplete
  <2>1. Alive(l) /\ loops[l].next > NModels /\ \A k \in calls : k.loop # l
    BY DEF IInv, SettledInv, Alive
  <2>2. m < loops[l].next
    BY <2>1, TestAssumption DEF IInv, TypeOK, Models
  <2>3. ~OnItsWay(l, m)
    BY <2>1 DEF OnItsWay
  <2> QED BY <2>1, <2>2, <2>3 DEF IInv, ReachedInv
<1> QED BY Initially, InvariantNext, <1>1, PTL DEF Spec

\* A batch whose stop was announced starts no slice any more, unless a later
\* batch has cleared shouldStopBatchTestingRef under it.
THEOREM StoppedStaysStoppedThm == Spec => StoppedStaysStopped
<1>1. ASSUME IInv, [Next]_vars
      PROVE  [\A l \in told : loops'[l].st = "wait" /\ loops'[l].next # loops[l].next
                => revived]_vars
  <2> SUFFICES ASSUME NEW l \in told, loops'[l].next # loops[l].next, ~revived PROVE FALSE
    OBVIOUS
  <2> USE <1>1 DEF IInv
  <2>0. l \in Loops /\ l \in Nat /\ batches \in Nat /\ l <= batches /\ (Alive(l) => stop)
    BY TestAssumption DEF TypeOK, Loops, ToldInv
  <2>1. ASSUME NEW n \in Loops, NextSlice(n) PROVE FALSE
    <3>1. CASE stop
      BY <2>0, <2>1, <3>1 DEF NextSlice, TypeOK
    <3>2. CASE ~stop
      BY <2>0, <2>1, <3>2, NextSliceFacts DEF Alive
    <3> QED BY <3>1, <3>2
  <2>2. ASSUME NEW n \in Loops, Summarise(n) PROVE FALSE
    BY <2>0, <2>2 DEF Summarise, TypeOK
  <2>3. ASSUME NEW c \in Channels, NEW m \in Asked, NEW v \in {"ok", "bad"},
               Answer(c, m, v)
        PROVE FALSE
    BY <2>0, <2>3, AnswerFacts
  <2>4. CASE StartBatch
    <3>1. batches + 1 \in Loops /\ \A n \in Loops : n # batches + 1 => loops'[n] = loops[n]
      BY <2>4, StartFacts, LaunchFacts
    <3> QED BY <2>0, <3>1
  <2>5. CASE UNCHANGED loops
    BY <2>5
  <2> QED BY <2>1, <2>2, <2>3, <2>4, <2>5 DEF Next, Open, Close, TestRow, TestChannel, vars
<1> QED BY Initially, InvariantNext, <1>1, PTL DEF Spec, StoppedStaysStopped

-----------------------------------------------------------------------------
(***************************************************************************)
(* The playground                                                          *)
(***************************************************************************)
CONSTANTS MaxRequests, MaxLoads, MaxSaves, MaxActs

P == INSTANCE Playground

Roles == {"user", "assistant", "system"}
Statuses == {"none", "loading", "incomplete", "complete", "error"}
Msgs == [load : Nat, id : Nat, role : Roles, status : Statuses, of : Nat,
         from : SUBSET Nat]
Lists == Seq(Msgs)

\* Something is to be found in localStorage, now or when the timers have
\* fired, and what it is.
Kept == saves # << >> \/ stored # Nothing
Newest == IF saves # << >> THEN saves[Len(saves)] ELSE stored

Regenerating == dialog # Nothing /\ dialog.kind = "regenerate"
Timers == resends + regens

PlayType ==
    /\ message \in Lists
    /\ stored # Nothing => stored \in Lists
    /\ saves \in Seq(Lists)
    /\ sent \in Nat /\ resends \in Nat /\ regens \in Nat
    /\ nextId \in Nat /\ loads \in Nat
    /\ pending \subseteq 1..sent
    /\ whole \subseteq 1..sent
    /\ Regenerating => dialog.list \in Lists /\ dialog.at \in 0..Len(dialog.list)

\* A list whose messages show their own answers, and of which only the last
\* message may be unfinished; in a calm one none is.
Own(m) == m.from \subseteq {0, m.of}
Tidy(ms) == \A i \in DOMAIN ms : Own(ms[i]) /\ (P!Ongoing(ms[i]) => i = Len(ms))
Calm(ms) == \A i \in DOMAIN ms : Own(ms[i]) /\ ~P!Ongoing(ms[i])

TidyInv ==
    /\ Tidy(message)
    /\ stored # Nothing => Tidy(stored)
    /\ \A i \in DOMAIN saves : Tidy(saves[i])

\* The request under way is that of the last message, and the last message is
\* unfinished only while its request is under way.
Awaits(r) ==
    /\ message # << >>
    /\ message[Len(message)].of = r
    /\ message[Len(message)].role = "assistant"
    /\ P!Ongoing(message[Len(message)])
    /\ r \in whole => message[Len(message)].status = "loading"
LinkInv ==
    /\ \A r \in pending : Awaits(r)
    /\ P!LastOngoing(message) => /\ message[Len(message)].of \in pending
                                 /\ message[Len(message)].load = loads

\* One timer at a time, and none while a request is under way or the user is
\* asked whether to regenerate.
QuietInv ==
    /\ ~emptied
    /\ Timers <= 1
    /\ Timers > 0 => pending = {}
    /\ dialog # Nothing => dialog.kind # "import"
    /\ Regenerating => pending = {} /\ Timers = 0 /\ Calm(dialog.list)

\* What localStorage will hold follows the list shown.
Unanswered(ms) ==
    [ms EXCEPT ![Len(ms)] =
        [ms[Len(ms)] EXCEPT !.status = "loading", !.from = {}]]
Follows(n) ==
    \/ n = message /\ ~P!LastOngoing(message)
    \/ /\ message # << >>
       /\ message[Len(message)].of \in whole \cup pending
       /\ n \in {SubSeq(message, 1, Len(message) - 1), Unanswered(message)}
StoreInv ==
    ~broken /\ Kept => /\ regens > 0 => Newest = message
                       /\ Timers = 0 => Follows(Newest)

PlayInv == PlayType /\ (~parted => TidyInv /\ LinkInv /\ QuietInv /\ StoreInv)

\* A list that differs from another at most in the state of its last message.
Relast(ms, s) ==
    /\ s \in Lists /\ Len(s) = Len(ms)
    /\ \A i \in DOMAIN ms : i # Len(ms) => s[i] = ms[i]
    /\ ms # << >> => /\ s[Len(ms)].load = ms[Len(ms)].load
                     /\ s[Len(ms)].id = ms[Len(ms)].id
                     /\ s[Len(ms)].role = ms[Len(ms)].role
                     /\ s[Len(ms)].of = ms[Len(ms)].of

LEMMA ListFacts ==
    ASSUME NEW ms \in Lists
    PROVE  /\ Len(ms) \in Nat /\ DOMAIN ms = 1..Len(ms)
           /\ ms = << >> <=> Len(ms) = 0
           /\ ms # << >> => Len(ms) \in DOMAIN ms /\ Len(ms) >= 1
           /\ \A i \in DOMAIN ms : ms[i] \in Msgs /\ i \in Nat /\ i <= Len(ms)
  BY DEF Lists

\* Two lists of the same messages are the same list.
LEMMA SameLists ==
    ASSUME NEW s \in Lists, NEW t \in Lists, Len(s) = Len(t),
           \A i \in 1..Len(s) : s[i] = t[i]
    PROVE  s = t
  BY DEF Lists

LEMMA SetLastFacts ==
    ASSUME NEW ms \in Lists, ms # << >>, NEW m \in Msgs
    PROVE  /\ P!SetLast(ms, m) \in Lists
           /\ Len(P!SetLast(ms, m)) = Len(ms)
           /\ P!SetLast(ms, m)[Len(ms)] = m
           /\ \A i \in DOMAIN ms : i # Len(ms) => P!SetLast(ms, m)[i] = ms[i]
  BY DEF Lists, P!SetLast

LEMMA FieldFacts ==
    ASSUME NEW m \in Msgs, NEW st \in Statuses, NEW fr \in SUBSET Nat
    PROVE  /\ [m EXCEPT !.status = st] \in Msgs
           /\ [m EXCEPT !.status = st, !.from = fr] \in Msgs
           /\ [m EXCEPT !.status = st].load = m.load
           /\ [m EXCEPT !.status = st].id = m.id
           /\ [m EXCEPT !.status = st].role = m.role
           /\ [m EXCEPT !.status = st].of = m.of
           /\ [m EXCEPT !.status = st].from = m.from
           /\ [m EXCEPT !.status = st].status = st
  BY DEF Msgs

\* Two messages that differ only in their state.
LEMMA AlikeMsgs ==
    ASSUME NEW m \in Msgs, NEW n \in Msgs,
           m.load = n.load, m.id = n.id, m.role = n.role, m.of = n.of,
           m.status = n.status, m.from = n.from
    PROVE  m = n
  BY DEF Msgs

LEMMA RelastFacts ==
    ASSUME NEW ms \in Lists, NEW s, Relast(ms, s)
    PROVE  /\ s = << >> <=> ms = << >>
           /\ DOMAIN s = DOMAIN ms
           /\ ms # << >> => SubSeq(s, 1, Len(s) - 1) = SubSeq(ms, 1, Len(ms) - 1)
           /\ ms # << >> => Unanswered(s) = Unanswered(ms)
<1>1. s \in Lists /\ Len(s) = Len(ms)
  BY DEF Relast
<1>2. (s = << >> <=> ms = << >>) /\ DOMAIN s = DOMAIN ms
  BY <1>1, ListFacts
<1>3. ASSUME ms # << >>
      PROVE  SubSeq(s, 1, Len(s) - 1) = SubSeq(ms, 1, Len(ms) - 1)
  <2>1. Len(ms) \in Nat /\ DOMAIN ms = 1..Len(ms) /\ Len(ms) >= 1
    BY <1>3, ListFacts
  <2>2. \A i \in 1..(Len(ms) - 1) : s[i] = ms[i]
    BY <2>1 DEF Relast
  <2> QED BY <1>1, <2>1, <2>2 DEF Lists
<1>4. ASSUME ms # << >> PROVE Unanswered(s) = Unanswered(ms)
  <2> DEFINE m == ms[Len(ms)]  n == s[Len(ms)]
  <2>1. /\ Len(ms) \in Nat /\ DOMAIN ms = 1..Len(ms) /\ Len(ms) \in DOMAIN ms
        /\ m \in Msgs /\ n \in Msgs
    BY <1>1, <1>2, <1>3, <1>4, ListFacts
  <2>2. m.load = n.load /\ m.id = n.id /\ m.role = n.role /\ m.of = n.of
    BY <1>4 DEF Relast
  <2> HIDE DEF m, n
  <2>3. "loading" \in Statuses /\ {} \in SUBSET Nat
    BY DEF Statuses
  <2>4. /\ [m EXCEPT !.status = "loading", !.from = {}] \in Msgs
        /\ [n EXCEPT !.status = "loading", !.from = {}] \in Msgs
    BY <2>1, <2>3, FieldFacts
  <2>5. [n EXCEPT !.status = "loading", !.from = {}]
            = [m EXCEPT !.status = "loading", !.from = {}]
    <3> DEFINE x == [m EXCEPT !.status = "loading", !.from = {}]
               y == [n EXCEPT !.status = "loading", !.from = {}]
    <3>1. /\ x.load = m.load /\ x.id = m.id /\ x.role = m.role /\ x.of = m.of
          /\ x.status = "loading" /\ x.from = {}
      BY <2>1, <2>3 DEF Msgs
    <3>2. /\ y.load = n.load /\ y.id = n.id /\ y.role = n.role /\ y.of = n.of
          /\ y.status = "loading" /\ y.from = {}
      BY <2>1, <2>3 DEF Msgs
    <3>3. x \in Msgs /\ y \in Msgs
      BY <2>4
    <3> HIDE DEF x, y
    <3>4. y = x
      BY <2>2, <3>1, <3>2, <3>3, AlikeMsgs
    <3> QED BY <3>4 DEF x, y
  <2> DEFINE x == [m EXCEPT !.status = "loading", !.from = {}]
  <2>6. Unanswered(s) = P!SetLast(s, x) /\ Unanswered(ms) = P!SetLast(ms, x)
    BY <1>1, <2>5 DEF Unanswered, P!SetLast, m, n
  <2>7. x \in Msgs /\ s # << >>
    BY <1>2, <1>4, <2>4
  <2> HIDE DEF x
  <2>8. /\ P!SetLast(s, x) \in Lists /\ P!SetLast(ms, x) \in Lists
        /\ Len(P!SetLast(s, x)) = Len(ms) /\ Len(P!SetLast(ms, x)) = Len(ms)
    BY <1>1, <1>4, <2>7, SetLastFacts
  <2>9. \A i \in 1..Len(ms) : P!SetLast(s, x)[i] = P!SetLast(ms, x)[i]
    <3>1. P!SetLast(s, x)[Len(ms)] = x /\ P!SetLast(ms, x)[Len(ms)] = x
      BY <1>1, <1>4, <2>7, SetLastFacts
    <3>2. \A i \in DOMAIN ms : i # Len(ms) =>
             P!SetLast(s, x)[i] = s[i] /\ P!SetLast(ms, x)[i] = ms[i]
      BY <1>1, <1>2, <1>4, <2>7, SetLastFacts
    <3>3. \A i \in DOMAIN ms : i # Len(ms) => s[i] = ms[i]
      BY DEF Relast
    <3> QED BY <2>1, <3>1, <3>2, <3>3
  <2> QED BY <2>6, <2>8, <2>9, SameLists
<1> QED BY <1>2, <1>3, <1>4

\* Replacing the last message by one that differs only in its state.
LEMMA SetLastRelast ==
    ASSUME NEW ms \in Lists, ms # << >>, NEW m \in Msgs,
           m.load = ms[Len(ms)].load, m.id = ms[Len(ms)].id,
           m.role = ms[Len(ms)].role, m.of = ms[Len(ms)].of
    PROVE  Relast(ms, P!SetLast(ms, m))
  BY SetLastFacts DEF Relast

LEMMA SameRelast == ASSUME NEW ms \in Lists PROVE Relast(ms, ms)
  BY DEF Relast

\* streamMessageUpdate goes on with a message of the assistant.
LEMMA StreamFacts ==
    ASSUME NEW ms \in Lists, NEW r \in Nat
    PROVE  LET s == P!StreamMessageUpdate(ms, r)  n == Len(ms) IN
           /\ Relast(ms, s)
           /\ ms # << >> => /\ P!Ongoing(s[n]) <=> P!Ongoing(ms[n])
                            /\ s[n].from \subseteq ms[n].from \cup {r}
<1> DEFINE s == P!StreamMessageUpdate(ms, r)  n == Len(ms)  m == ms[n]
           x == [m EXCEPT !.status = "incomplete", !.from = m.from \cup {r}]
<1>1. CASE ~(P!LastOngoing(ms) /\ m.role = "assistant")
  <2>1. s = ms
    BY <1>1 DEF P!StreamMessageUpdate, P!Last
  <2> QED BY <2>1, SameRelast
<1>2. CASE P!LastOngoing(ms) /\ m.role = "assistant"
  <2>1. ms # << >> /\ P!Ongoing(m)
    BY <1>2 DEF P!LastOngoing, P!Last
  <2>2. s = P!SetLast(ms, x)
    BY <1>2 DEF P!StreamMessageUpdate, P!Last
  <2>3. m \in Msgs /\ m.from \cup {r} \in SUBSET Nat /\ "incomplete" \in Statuses
    BY <2>1, ListFacts DEF Statuses, Msgs
  <2>4. x \in Msgs /\ x.load = m.load /\ x.id = m.id /\ x.role = m.role
        /\ x.of = m.of /\ x.from = m.from \cup {r} /\ x.status = "incomplete"
    BY <2>3 DEF Msgs
  <2> HIDE DEF x, s
  <2>5. Relast(ms, s) /\ s[n] = x
    BY <2>1, <2>2, <2>4, SetLastRelast, SetLastFacts
  <2>6. P!Ongoing(x)
    BY <2>4 DEF P!Ongoing
  <2> QED BY <2>1, <2>4, <2>5, <2>6 DEF s
<1> QED BY <1>1, <1>2

\* completeMessage ends the last message if it has not ended.
LEMMA CompleteFacts ==
    ASSUME NEW ms \in Lists, ms # << >>, NEW st \in {"complete", "error"}
    PROVE  LET s == P!CompleteMessage(ms, st)  n == Len(ms) IN
           /\ Relast(ms, s)
           /\ ~P!Ongoing(s[n]) /\ s[n].from = ms[n].from
           /\ P!Ongoing(ms[n]) => P!Completes(ms)
<1> DEFINE s == P!CompleteMessage(ms, st)  n == Len(ms)  m == ms[n]
           x == [m EXCEPT !.status = st]
<1>1. CASE ~P!Completes(ms)
  <2>1. s = ms
    BY <1>1 DEF P!CompleteMessage
  <2>2. m.status \in {"complete", "error"}
    BY <1>1 DEF P!Completes, P!Last
  <2> QED BY <1>1, <2>1, <2>2, SameRelast DEF P!Ongoing
<1>2. CASE P!Completes(ms)
  <2>2. s = P!SetLast(ms, x)
    BY <1>2 DEF P!CompleteMessage, P!Last
  <2>3. m \in Msgs /\ st \in Statuses
    BY ListFacts DEF Statuses
  <2>4. x \in Msgs /\ x.load = m.load /\ x.id = m.id /\ x.role = m.role
        /\ x.of = m.of /\ x.from = m.from /\ x.status = st
    BY <2>3, FieldFacts
  <2> HIDE DEF x, s
  <2>5. Relast(ms, s) /\ s[n] = x
    BY <2>2, <2>4, SetLastRelast, SetLastFacts
  <2>6. ~P!Ongoing(x)
    BY <2>4 DEF P!Ongoing
  <2> QED BY <1>2, <2>4, <2>5, <2>6 DEF s
<1> QED BY <1>1, <1>2

\* handleNonStreamRequest ends a message that is loading.
LEMMA WholeFacts ==
    ASSUME NEW ms \in Lists, NEW r \in Nat, NEW st \in {"complete", "error"}
    PROVE  LET s == P!WholeUpdate(ms, r, st)  n == Len(ms) IN
           /\ Relast(ms, s)
           /\ ms # << >> /\ ms[n].status = "loading" =>
                 ~P!Ongoing(s[n]) /\ s[n].from = {r}
           /\ ~(ms # << >> /\ ms[n].status = "loading") => s = ms
<1> DEFINE s == P!WholeUpdate(ms, r, st)  n == Len(ms)  m == ms[n]
           x == [m EXCEPT !.status = st, !.from = {r}]
<1>1. CASE ~(ms # << >> /\ m.status = "loading")
  <2>1. s = ms
    BY <1>1 DEF P!WholeUpdate, P!Last
  <2> QED BY <1>1, <2>1, SameRelast
<1>2. CASE ms # << >> /\ m.status = "loading"
  <2>2. s = P!SetLast(ms, x)
    BY <1>2 DEF P!WholeUpdate, P!Last
  <2>3. m \in Msgs /\ {r} \in SUBSET Nat /\ st \in Statuses
    BY <1>2, ListFacts DEF Statuses
  <2>4. x \in Msgs /\ x.load = m.load /\ x.id = m.id /\ x.role = m.role
        /\ x.of = m.of /\ x.from = {r} /\ x.status = st
    BY <2>3 DEF Msgs
  <2> HIDE DEF x, s
  <2>5. Relast(ms, s) /\ s[n] = x
    BY <1>2, <2>2, <2>4, SetLastRelast, SetLastFacts
  <2>6. ~P!Ongoing(x)
    BY <2>4 DEF P!Ongoing
  <2> QED BY <1>2, <2>4, <2>5, <2>6 DEF s
<1> QED BY <1>1, <1>2

\* Stopping, and loading the page, end the last message.
LEMMA FinishedFacts ==
    ASSUME NEW ms \in Lists
    PROVE  LET s == P!Finished(ms)  n == Len(ms) IN
           /\ Relast(ms, s)
           /\ ms # << >> => ~P!Ongoing(s[n]) /\ s[n].from = ms[n].from
<1> DEFINE s == P!Finished(ms)  n == Len(ms)  m == ms[n]
           x == [m EXCEPT !.status = "complete"]
<1>1. CASE ~P!LastOngoing(ms)
  <2>1. s = ms
    BY <1>1 DEF P!Finished
  <2> QED BY <1>1, <2>1, SameRelast DEF P!LastOngoing, P!Last
<1>2. CASE P!LastOngoing(ms)
  <2>1. ms # << >>
    BY <1>2 DEF P!LastOngoing
  <2>2. s = P!SetLast(ms, x)
    BY <1>2 DEF P!Finished, P!Last
  <2>3. m \in Msgs /\ "complete" \in Statuses
    BY <2>1, ListFacts DEF Statuses
  <2>4. x \in Msgs /\ x.load = m.load /\ x.id = m.id /\ x.role = m.role
        /\ x.of = m.of /\ x.from = m.from /\ x.status = "complete"
    BY <2>3, FieldFacts
  <2> HIDE DEF x, s
  <2>5. Relast(ms, s) /\ s[n] = x
    BY <2>1, <2>2, <2>4, SetLastRelast, SetLastFacts
  <2>6. ~P!Ongoing(x)
    BY <2>4 DEF P!Ongoing
  <2> QED BY <2>1, <2>4, <2>5, <2>6 DEF s
<1> QED BY <1>1, <1>2

\* A list that was tidy is calm once its last message has ended.
LEMMA TidyEnds ==
    ASSUME NEW ms \in Lists, Tidy(ms), NEW s, Relast(ms, s),
           ms # << >> => Own(s[Len(ms)]) /\ ~P!Ongoing(s[Len(ms)])
    PROVE  Calm(s)
<1>1. DOMAIN s = DOMAIN ms /\ Len(s) = Len(ms)
  BY RelastFacts DEF Relast
<1> SUFFICES ASSUME NEW i \in DOMAIN ms PROVE Own(s[i]) /\ ~P!Ongoing(s[i])
  BY <1>1 DEF Calm
<1>2. CASE i = Len(ms)
  <2>1. ms # << >>
    BY ListFacts
  <2> QED BY <1>2, <2>1
<1>3. CASE i # Len(ms)
  <2>1. s[i] = ms[i]
    BY <1>3 DEF Relast
  <2> QED BY <1>3, <2>1 DEF Tidy
<1> QED BY <1>2, <1>3

LEMMA CalmIsTidy == ASSUME NEW ms, Calm(ms) PROVE Tidy(ms)
  BY DEF Calm, Tidy

LEMMA OwnGrows ==
    ASSUME NEW m, NEW n, Own(m), n.of = m.of, n.from \subseteq m.from \cup {m.of}
    PROVE  Own(n)
  BY DEF Own

\* With no request under way no message is unfinished.
LEMMA CalmNow ==
    ASSUME PlayInv, ~parted, pending = {}
    PROVE  Calm(message)
<1>1. message \in Lists /\ Tidy(message) /\ LinkInv
  BY DEF PlayInv, PlayType, TidyInv
<1>2. ~P!LastOngoing(message)
  BY <1>1 DEF LinkInv
<1>3. ASSUME NEW i \in DOMAIN message, P!Ongoing(message[i]) PROVE FALSE
  <2>1. i = Len(message) /\ message # << >>
    BY <1>1, <1>3, ListFacts DEF Tidy
  <2> QED BY <1>2, <1>3, <2>1 DEF P!LastOngoing, P!Last
<1> QED BY <1>1, <1>3 DEF Calm, Tidy

LEMMA CalmLast == ASSUME NEW ms \in Lists, Calm(ms) PROVE ~P!LastOngoing(ms)
  BY ListFacts DEF Calm, P!LastOngoing, P!Last

LEMMA PartsFacts ==
    ASSUME NEW h \in BOOLEAN, P!Parts(h), ~parted'
    PROVE  ~parted /\ ~h
  BY Zenon DEF P!Parts

LEMMA SavingFacts ==
    ASSUME PlayType, NEW ms \in Lists, saves' = Append(saves, ms)
    PROVE  /\ saves' \in Seq(Lists)
           /\ Kept' /\ Newest' = ms
           /\ Tidy(ms) /\ (\A i \in DOMAIN saves : Tidy(saves[i]))
                 => \A i \in DOMAIN saves' : Tidy(saves'[i])
<1>1. saves \in Seq(Lists)
  BY DEF PlayType
<1>2. saves' \in Seq(Lists) /\ saves' # << >> /\ saves'[Len(saves')] = ms
  BY <1>1
<1>3. ASSUME Tidy(ms), \A i \in DOMAIN saves : Tidy(saves[i]), NEW i \in DOMAIN saves'
      PROVE  Tidy(saves'[i])
  <2>1. saves'[i] = ms \/ (i \in DOMAIN saves /\ saves'[i] = saves[i])
    BY <1>1
  <2> QED BY <1>3, <2>1
<1> QED BY <1>2, <1>3 DEF Kept, Newest

\* A step that leaves the list calm, with no request under way, and saves it.
LEMMA CalmStep ==
    ASSUME PlayInv, ~parted, message' \in Lists, Calm(message'), pending' = {},
           stored' = stored, saves' = Append(saves, message')
    PROVE  TidyInv' /\ LinkInv' /\ StoreInv'
<1>1. Tidy(message') /\ ~P!LastOngoing(message')
  BY CalmIsTidy, CalmLast
<1>2. PlayType /\ TidyInv
  BY DEF PlayInv
<1>3. Newest' = message' /\ \A i \in DOMAIN saves' : Tidy(saves'[i])
  BY <1>1, <1>2, SavingFacts DEF TidyInv
<1>4. TidyInv'
  BY <1>1, <1>2, <1>3 DEF TidyInv
<1>5. LinkInv'
  BY <1>1 DEF LinkInv
<1>6. StoreInv'
  BY <1>1, <1>3 DEF StoreInv, Follows
<1> QED BY <1>4, <1>5, <1>6

\* The same for a step that leaves the list and the requests alone.
LEMMA SameList ==
    ASSUME PlayInv, ~parted,
           UNCHANGED <<message, stored, saves, pending, whole, loads, broken,
                       resends, regens>>
    PROVE  TidyInv' /\ LinkInv' /\ StoreInv'
<1>1. TidyInv /\ LinkInv /\ StoreInv
  BY DEF PlayInv
<1>2. TidyInv'
  BY <1>1 DEF TidyInv
<1>3. LinkInv'
  BY <1>1 DEF LinkInv, Awaits
<1>4. StoreInv'
  BY <1>1 DEF StoreInv, Follows, Kept, Newest, Timers
<1> QED BY <1>2, <1>3, <1>4

LEMMA DefaultFacts ==
    P!Defaults \in Lists /\ Calm(P!Defaults)
<1>1. P!Defaults[1] \in Msgs /\ P!Defaults[2] \in Msgs
  BY DEF P!Defaults, Msgs, Roles, Statuses
<1>2. P!Defaults \in Lists /\ DOMAIN P!Defaults = {1, 2}
  BY <1>1 DEF P!Defaults, Lists
<1>3. /\ Own(P!Defaults[1]) /\ ~P!Ongoing(P!Defaults[1])
      /\ Own(P!Defaults[2]) /\ ~P!Ongoing(P!Defaults[2])
  BY DEF P!Defaults, Own, P!Ongoing
<1> QED BY <1>2, <1>3 DEF Calm

LEMMA PlayInitially == P!Init => PlayInv
<1> SUFFICES ASSUME P!Init PROVE PlayInv
  OBVIOUS
<1>1. message \in Lists /\ Calm(message)
  BY DefaultFacts DEF P!Init
<1>2. Tidy(message) /\ ~P!LastOngoing(message)
  BY <1>1, CalmIsTidy, CalmLast
<1>3. saves = << >> /\ stored = Nothing /\ pending = {} /\ dialog = Nothing
  BY DEF P!Init
<1>4. PlayType
  BY <1>1, <1>3 DEF P!Init, PlayType, Regenerating
<1>5. TidyInv
  BY <1>2, <1>3 DEF TidyInv
<1>6. LinkInv
  BY <1>2, <1>3 DEF LinkInv
<1>7. QuietInv
  BY <1>3 DEF P!Init, QuietInv, Regenerating, Timers
<1>8. StoreInv
  BY <1>3 DEF StoreInv, Kept
<1> QED BY <1>4, <1>5, <1>6, <1>7, <1>8 DEF PlayInv

\* A click that only opens or closes something.
LEMMA AskDeletePlay == ASSUME PlayInv, P!AskDelete PROVE PlayInv'
<1>1. /\ UNCHANGED <<message, stored, saves, pending, whole, sent, resends, regens,
                     emptied, nextId, loads, broken, parted>>
      /\ \E m : dialog' = [kind |-> "delete", target |-> m]
  BY DEF P!AskDelete, P!wire, P!clocks, P!session
<1>2. dialog'.kind = "delete"
  BY <1>1
<1>3. PlayType'
  BY <1>1, <1>2 DEF PlayInv, PlayType, Regenerating
<1>4. ~parted => TidyInv' /\ LinkInv' /\ StoreInv'
  BY <1>1, SameList
<1>5. ~parted => QuietInv'
  BY <1>1, <1>2 DEF PlayInv, QuietInv, Regenerating, Timers
<1> QED BY <1>1, <1>3, <1>4, <1>5 DEF PlayInv

LEMMA EditPlay == ASSUME PlayInv, P!Edit \/ P!CancelEdit PROVE PlayInv'
<1>1. UNCHANGED <<message, stored, saves, pending, whole, sent, resends, regens,
                  emptied, dialog, nextId, loads, broken, parted>>
  BY DEF P!Edit, P!CancelEdit, P!wire, P!clocks, P!session
<1>3. PlayType'
  BY <1>1 DEF PlayInv, PlayType, Regenerating
<1>4. ~parted => TidyInv' /\ LinkInv' /\ StoreInv'
  BY <1>1, SameList
<1>5. ~parted => QuietInv'
  BY <1>1 DEF PlayInv, QuietInv, Regenerating, Timers
<1> QED BY <1>1, <1>3, <1>4, <1>5 DEF PlayInv

LEMMA DismissPlay == ASSUME PlayInv, P!Dismiss PROVE PlayInv'
<1>1. /\ UNCHANGED <<message, stored, saves, pending, whole, sent, resends, regens,
                     emptied, nextId, loads, broken, parted>>
      /\ dialog' = Nothing
  BY DEF P!Dismiss, P!wire, P!clocks, P!session
<1>3. PlayType'
  BY <1>1 DEF PlayInv, PlayType, Regenerating
<1>4. ~parted => TidyInv' /\ LinkInv' /\ StoreInv'
  BY <1>1, SameList
<1>5. ~parted => QuietInv'
  BY <1>1 DEF PlayInv, QuietInv, Regenerating, Timers
<1> QED BY <1>1, <1>3, <1>4, <1>5 DEF PlayInv

\* The steps that part the list from the requests, and those that follow one.
LEMMA PartingPlay ==
    ASSUME PlayInv,
           P!ChangeLanguage \/ P!ChooseImport \/ P!ResetConfig
    PROVE  PlayInv'
<1>1. P!Parts(TRUE)
  BY DEF P!ChangeLanguage, P!ChooseImport, P!ResetConfig
<1>2. parted'
  BY <1>1, Zenon DEF P!Parts
<1>3. /\ UNCHANGED <<saves, sent, pending, whole, resends, regens, nextId, loads>>
      /\ message' \in {message, P!Defaults, << >>}
      /\ stored' \in {stored, P!Defaults, Nothing}
      /\ dialog' \in {dialog, [kind |-> "import"]}
  BY DEF P!ChangeLanguage, P!ChooseImport, P!ResetConfig, P!wire, P!clocks, P!session
<1>4. message' \in Lists /\ (stored' # Nothing => stored' \in Lists)
  <2>1. << >> \in Lists
    BY DEF Lists
  <2> QED BY <1>3, <2>1, DefaultFacts DEF PlayInv, PlayType
<1>5. Regenerating' => Regenerating /\ dialog' = dialog
  BY <1>3 DEF Regenerating
<1>6. PlayType'
  BY <1>3, <1>4, <1>5 DEF PlayInv, PlayType
<1> QED BY <1>2, <1>6 DEF PlayInv

LEMMA ImportPlay == ASSUME PlayInv, P!Import \/ P!ShowDefaults PROVE PlayInv'
<1>1. /\ UNCHANGED <<stored, saves, sent, pending, whole, resends, regens, nextId,
                     loads, parted>>
      /\ message' = P!Defaults
      /\ dialog' \in {dialog, Nothing}
  BY DEF P!Import, P!ShowDefaults, P!wire, P!clocks, P!session
<1>2. parted
  BY DEF PlayInv, QuietInv, P!Import, P!ShowDefaults
<1>3. Regenerating' => Regenerating /\ dialog' = dialog
  BY <1>1 DEF Regenerating
<1>4. PlayType'
  BY <1>1, <1>3, DefaultFacts DEF PlayInv, PlayType
<1> QED BY <1>1, <1>2, <1>4 DEF PlayInv

\* The timer of a save moves the newest list on.
LEMMA SavePlay == ASSUME PlayInv, P!Save PROVE PlayInv'
<1>1. /\ UNCHANGED <<message, pending, whole, sent, resends, regens,
                     emptied, dialog, nextId, loads, broken, parted>>
      /\ saves # << >> /\ stored' = Head(saves) /\ saves' = Tail(saves)
  BY DEF P!Save, P!wire, P!clocks, P!session
<1>2. saves \in Seq(Lists)
  BY DEF PlayInv, PlayType
<1>3. /\ stored' \in Lists /\ stored' = saves[1] /\ 1 \in DOMAIN saves
      /\ saves' \in Seq(Lists)
      /\ \A i \in DOMAIN saves' : i + 1 \in DOMAIN saves /\ saves'[i] = saves[i + 1]
  BY <1>1, <1>2
<1>4. PlayType'
  BY <1>1, <1>3 DEF PlayInv, PlayType, Regenerating
<1>5. Kept' => Newest' = Newest /\ Kept
  <2>1. CASE saves' # << >>
    <3>0. Len(saves') \in DOMAIN saves' /\ Len(saves') + 1 = Len(saves)
      BY <1>1, <1>2, <1>3, <2>1
    <3>1. saves'[Len(saves')] = saves[Len(saves') + 1]
      BY <1>3, <3>0
    <3> QED BY <1>1, <2>1, <3>0, <3>1 DEF Newest, Kept
  <2>2. CASE saves' = << >>
    <3>0. Len(saves') = Len(saves) - 1 /\ Len(saves) \in Nat
      BY <1>1, <1>2
    <3>1. Len(saves) = 1
      BY <2>2, <3>0
    <3> QED BY <1>1, <1>3, <2>2, <3>1 DEF Newest, Kept
  <2> QED BY <2>1, <2>2
<1>6. ASSUME ~parted PROVE TidyInv' /\ LinkInv' /\ QuietInv' /\ StoreInv'
  <2>1. TidyInv /\ LinkInv /\ QuietInv /\ StoreInv
    BY <1>6 DEF PlayInv
  <2>2. TidyInv'
    BY <1>1, <1>3, <2>1 DEF TidyInv
  <2>3. LinkInv'
    BY <1>1, <2>1 DEF LinkInv, Awaits
  <2>4. QuietInv'
    BY <1>1, <2>1 DEF QuietInv, Regenerating, Timers
  <2>5. StoreInv'
    BY <1>1, <1>5, <2>1 DEF StoreInv, Follows, Timers
  <2> QED BY <2>2, <2>3, <2>4, <2>5
<1> QED BY <1>1, <1>4, <1>6 DEF PlayInv

\* The buttons that change a calm list and save it.
LEMMA TogglePlay == ASSUME PlayInv, P!Toggle PROVE PlayInv'
<1>1. PICK i \in DOMAIN message : message' = P!Toggled(message[i])
  BY DEF P!Toggle
<1>2. /\ saves' = Append(saves, message')
      /\ P!Parts(pending # {} \/ resends + regens > 0)
      /\ UNCHANGED <<stored, pending, whole, sent, resends, regens, emptied, dialog,
                     nextId, loads, broken>>
  BY DEF P!Toggle, P!Saving, P!wire, P!clocks, P!session
<1>3. message \in Lists /\ PlayType
  BY DEF PlayInv, PlayType
<1>4. \A j \in DOMAIN message :
         /\ message'[j] \in Msgs
         /\ message'[j].from = message[j].from /\ message'[j].of = message[j].of
         /\ message'[j].status = message[j].status
  <2> SUFFICES ASSUME NEW j \in DOMAIN message
               PROVE  /\ message'[j] \in Msgs
                      /\ message'[j].from = message[j].from
                      /\ message'[j].of = message[j].of
                      /\ message'[j].status = message[j].status
    OBVIOUS
  <2>1. message[j] \in Msgs
    BY <1>3, ListFacts
  <2>2. message'[j] = message[j]
        \/ \E x \in Roles : message'[j] = [message[j] EXCEPT !.role = x]
    BY <1>1 DEF P!Toggled, Roles
  <2> QED BY <2>1, <2>2 DEF Msgs
<1>5. message' \in Lists /\ DOMAIN message' = DOMAIN message /\ Len(message') = Len(message)
  <2>1. DOMAIN message' = DOMAIN message /\ message' = [j \in DOMAIN message |-> message'[j]]
    BY <1>1 DEF P!Toggled
  <2> QED BY <1>3, <1>4, <2>1 DEF Lists
<1>6. PlayType'
  BY <1>2, <1>3, <1>5, SavingFacts DEF PlayType, Regenerating
<1>7. ASSUME ~parted' PROVE TidyInv' /\ LinkInv' /\ QuietInv' /\ StoreInv'
  <2>1. ~parted /\ pending = {} /\ ~(resends + regens > 0)
    BY <1>2, <1>7, PartsFacts
  <2>2. Calm(message)
    BY <2>1, CalmNow
  <2>3. Calm(message')
    BY <1>4, <1>5, <2>2 DEF Calm, Own, P!Ongoing
  <2>4. TidyInv' /\ LinkInv' /\ StoreInv'
    BY <1>2, <1>5, <2>1, <2>3, CalmStep
  <2>5. QuietInv'
    BY <1>2, <2>1 DEF PlayInv, QuietInv, Regenerating, Timers
  <2> QED BY <2>4, <2>5
<1> QED BY <1>6, <1>7 DEF PlayInv

LEMMA ClearPlay == ASSUME PlayInv, P!Clear PROVE PlayInv'
<1>2. /\ message' = << >>
      /\ saves' = Append(saves, message')
      /\ P!Parts(pending # {} \/ resends + regens > 0)
      /\ UNCHANGED <<stored, pending, whole, sent, resends, regens, emptied, dialog,
                     nextId, loads, broken>>
  BY DEF P!Clear, P!Saving, P!wire, P!clocks, P!session
<1>3. PlayType
  BY DEF PlayInv
<1>5. message' \in Lists /\ Calm(message')
  BY <1>2 DEF Lists, Calm
<1>6. PlayType'
  BY <1>2, <1>3, <1>5, SavingFacts DEF PlayType, Regenerating
<1>7. ASSUME ~parted' PROVE TidyInv' /\ LinkInv' /\ QuietInv' /\ StoreInv'
  <2>1. ~parted /\ pending = {} /\ ~(resends + regens > 0)
    BY <1>2, <1>7, PartsFacts
  <2>4. TidyInv' /\ LinkInv' /\ StoreInv'
    BY <1>2, <1>5, <2>1, CalmStep
  <2>5. QuietInv'
    BY <1>2, <2>1 DEF PlayInv, QuietInv, Regenerating, Timers
  <2> QED BY <2>4, <2>5
<1> QED BY <1>6, <1>7 DEF PlayInv

LEMMA StopPlay == ASSUME PlayInv, P!Stop PROVE PlayInv'
<1>2. /\ message' = P!Finished(message)
      /\ pending' = pending \ {source}
      /\ saves' = Append(saves, message')
      /\ P!Parts(pending \ {source} # {})
      /\ UNCHANGED <<stored, whole, sent, resends, regens, emptied, dialog,
                     nextId, loads, broken>>
  BY DEF P!Stop, P!Closed, P!Saving, P!clocks, P!session
<1>3. PlayType /\ message \in Lists
  BY DEF PlayInv, PlayType
<1>5. Relast(message, message')
  BY <1>2, <1>3, FinishedFacts
<1>6. message' \in Lists
  BY <1>5 DEF Relast
<1>7. PlayType'
  BY <1>2, <1>3, <1>6, SavingFacts DEF PlayType, Regenerating
<1>8. ASSUME ~parted' PROVE TidyInv' /\ LinkInv' /\ QuietInv' /\ StoreInv'
  <2>1. ~parted /\ pending' = {}
    BY <1>2, <1>8, PartsFacts
  <2>2. Tidy(message)
    BY <2>1 DEF PlayInv, TidyInv
  <2>3. message # << >> => Own(message'[Len(message)]) /\ ~P!Ongoing(message'[Len(message)])
    <3> SUFFICES ASSUME message # << >>
                 PROVE  Own(message'[Len(message)]) /\ ~P!Ongoing(message'[Len(message)])
      OBVIOUS
    <3>1. Own(message[Len(message)])
      BY <1>3, <2>2, ListFacts DEF Tidy
    <3>2. /\ ~P!Ongoing(message'[Len(message)])
          /\ message'[Len(message)].from = message[Len(message)].from
      BY <1>2, <1>3, FinishedFacts
    <3>3. message'[Len(message)].of = message[Len(message)].of
      BY <1>5 DEF Relast
    <3> QED BY <3>1, <3>2, <3>3 DEF Own
  <2>4. Calm(message')
    BY <1>3, <1>5, <2>2, <2>3, TidyEnds
  <2>5. TidyInv' /\ LinkInv' /\ StoreInv'
    BY <1>2, <1>6, <2>1, <2>4, CalmStep
  <2>6. QuietInv'
    BY <1>2, <2>1 DEF PlayInv, QuietInv, Regenerating, Timers
  <2> QED BY <2>5, <2>6
<1> QED BY <1>7, <1>8 DEF PlayInv

\* Every set of natural numbers that is not empty has a least element.
LEMMA Least ==
    ASSUME NEW T, T \subseteq Nat, T # {}
    PROVE  \E x \in T : \A y \in T : x <= y
<1> DEFINE R == OpToRel(<, Nat)
<1>1. IsWellFoundedOn(R, Nat)
  BY NatLessThanWellFounded
<1>2. \A x, y \in Nat : <<y, x>> \in R <=> y < x
  BY DEF OpToRel
<1> HIDE DEF R
<1>3. PICK x \in T : \A y \in T : ~(<<y, x>> \in R)
  BY <1>1, WFMin
<1>4. x \in Nat /\ \A y \in T : y \in Nat
  OBVIOUS
<1>5. \A y \in T : ~(y < x)
  BY <1>2, <1>3, <1>4
<1>6. \A y \in T : x <= y
  BY <1>4, <1>5
<1> QED BY <1>6

\* The instance counts as FiniteSetTheorems does.
LEMMA SameCount ==
    /\ \A S : P!Cardinality(S) = Cardinality(S)
    /\ \A S : P!IsFiniteSet(S) <=> IsFiniteSet(S)
<1>1. ASSUME NEW S PROVE P!Cardinality(S) = Cardinality(S)
  BY Zenon DEF P!Cardinality, Cardinality
<1>2. ASSUME NEW S PROVE P!IsFiniteSet(S) <=> IsFiniteSet(S)
  BY DEF P!IsFiniteSet, IsFiniteSet
<1> QED BY <1>1, <1>2

\* A set of m indexes or less has an n-th element, for every n up to the
\* number of its elements: the first index up to which there are n of them.
LEMMA NthFacts ==
    ASSUME NEW m \in Nat, NEW S \in SUBSET (1..m), NEW n \in 1..Cardinality(S)
    PROVE  P!Nth(S, n) \in S /\ Cardinality({j \in S : j <= P!Nth(S, n)}) = n
<1> DEFINE F(x) == {j \in S : j <= x}
           T == {x \in 0..m : Cardinality(F(x)) >= n}
<1>1. IsFiniteSet(S) /\ Cardinality(S) \in Nat
  <2>1. IsFiniteSet(1..m)
    BY FS_Interval
  <2> QED BY <2>1, FS_Subset, FS_CardinalityType
<1>2. \A x : IsFiniteSet(F(x)) /\ Cardinality(F(x)) \in Nat
  <2> SUFFICES ASSUME NEW x PROVE IsFiniteSet(F(x)) /\ Cardinality(F(x)) \in Nat
    OBVIOUS
  <2>1. F(x) \in SUBSET S
    OBVIOUS
  <2> HIDE DEF F
  <2> QED BY <1>1, <2>1, FS_Subset, FS_CardinalityType
<1>3. F(m) = S /\ F(0) = {}
  <2>1. \A j \in S : j \in Nat /\ j <= m /\ ~(j <= 0)
    OBVIOUS
  <2> QED BY <2>1
<1>4. m \in T
  <2>1. Cardinality(F(m)) >= n
    BY <1>1, <1>3
  <2> QED BY <2>1
<1>5. PICK x \in T : \A y \in T : x <= y
  <2>1. T \subseteq Nat
    OBVIOUS
  <2> HIDE DEF T
  <2> QED BY <1>4, <2>1, Least
<1>6. x \in 0..m /\ Cardinality(F(x)) >= n
  BY <1>5
<1>7. x # 0
  <2>1. Cardinality(F(0)) = 0
    BY <1>3, FS_EmptySet
  <2> HIDE DEF F
  <2> QED BY <1>1, <1>6, <2>1
<1>8. Cardinality(F(x - 1)) < n
  <2>1. x - 1 \in 0..m /\ ~(x <= x - 1)
    BY <1>6, <1>7
  <2>2. x - 1 \notin T
    BY <1>5, <2>1
  <2>3. ~(Cardinality(F(x - 1)) >= n)
    BY <2>1, <2>2
  <2>4. Cardinality(F(x - 1)) \in Nat
    BY <1>2
  <2> HIDE DEF F, T
  <2> QED BY <1>1, <2>3, <2>4
<1>9. x \in S
  <2> SUFFICES ASSUME x \notin S PROVE FALSE
    OBVIOUS
  <2>1. F(x) = F(x - 1)
    <3>1. \A j \in S : j <= x <=> j <= x - 1
      BY <1>6
    <3> QED BY <3>1
  <2>2. Cardinality(F(x - 1)) \in Nat
    BY <1>2
  <2> HIDE DEF F, T
  <2> QED BY <1>1, <1>6, <1>8, <2>1, <2>2
<1>10. Cardinality(F(x)) = n
  <2>1. F(x) = F(x - 1) \cup {x} /\ x \notin F(x - 1)
    <3>1. \A j \in S : j <= x <=> j <= x - 1 \/ j = x
      BY <1>6
    <3>2. ~(x <= x - 1) /\ x <= x
      BY <1>6
    <3> QED BY <1>9, <3>1, <3>2
  <2>2. IsFiniteSet(F(x - 1)) /\ Cardinality(F(x - 1)) \in Nat
    BY <1>2
  <2> HIDE DEF F, T
  <2>3. Cardinality(F(x)) = Cardinality(F(x - 1)) + 1
    BY <2>1, <2>2, FS_AddElement
  <2> QED BY <1>1, <1>6, <1>8, <2>2, <2>3
<1>11. \E i \in S : P!Cardinality({j \in S : j <= i}) = n
  BY <1>9, <1>10, SameCount
<1> HIDE DEF F, T
<1>12. P!Nth(S, n) \in S /\ P!Cardinality({j \in S : j <= P!Nth(S, n)}) = n
  BY <1>11, Zenon DEF P!Nth
<1> QED BY <1>12, SameCount

\* And every set of the numbers up to n has a greatest.
LEMMA Greatest ==
    ASSUME NEW n \in Nat, NEW T \in SUBSET (1..n), T # {}
    PROVE  \E x \in T : \A y \in T : y <= x
<1> DEFINE U == {x \in 0..n : n - x \in T}
<1>1. U \subseteq Nat
  OBVIOUS
<1>2. U # {}
  <2>1. PICK y \in T : TRUE
    OBVIOUS
  <2>2. y \in 1..n /\ n - y \in 0..n /\ n - (n - y) = y
    OBVIOUS
  <2>3. n - y \in U
    BY <2>1, <2>2
  <2> QED BY <2>3
<1>3. PICK x \in U : \A y \in U : x <= y
  <2> HIDE DEF U
  <2> QED BY <1>1, <1>2, Least
<1>4. x \in 0..n /\ n - x \in T
  BY <1>3
<1>5. ASSUME NEW y \in T PROVE y <= n - x
  <2>1. y \in 1..n /\ n - y \in 0..n /\ n - (n - y) = y
    OBVIOUS
  <2>2. x <= n - y
    BY <1>3, <1>5, <2>1
  <2> QED BY <1>4, <2>1, <2>2
<1> QED BY <1>4, <1>5

\* findIndex finds a place of the list, or none.
LEMMA FindFacts ==
    ASSUME NEW ms \in Lists, NEW m
    PROVE  P!FindIndex(ms, m) \in 0..Len(ms)
<1> DEFINE same == {i \in DOMAIN ms : ms[i] = m}
           alike == {i \in DOMAIN ms : ms[i].id = m.id}
           First(S) == CHOOSE i \in S : \A j \in S : i <= j
<1>1. Len(ms) \in Nat /\ DOMAIN ms = 1..Len(ms)
  BY ListFacts
<1>2. ASSUME NEW S \in SUBSET (DOMAIN ms), S # {} PROVE First(S) \in 1..Len(ms)
  <2>1. S \subseteq Nat
    BY <1>1
  <2>2. \E i \in S : \A j \in S : i <= j
    BY <1>2, <2>1, Least
  <2>3. First(S) \in S
    BY <2>2
  <2> QED BY <1>1, <2>3
<1>3. CASE same # {}
  <2>1. P!FindIndex(ms, m) = First(same)
    BY <1>3 DEF P!FindIndex
  <2>2. First(same) \in 1..Len(ms)
    <3> HIDE DEF First
    <3> QED BY <1>2, <1>3
  <2> HIDE DEF First, same
  <2> QED BY <1>1, <2>1, <2>2
<1>4. CASE same = {} /\ alike # {}
  <2>1. P!FindIndex(ms, m) = First(alike)
    BY <1>4 DEF P!FindIndex
  <2>2. First(alike) \in 1..Len(ms)
    <3> HIDE DEF First
    <3> QED BY <1>2, <1>4
  <2> HIDE DEF First, alike
  <2> QED BY <1>1, <2>1, <2>2
<1>5. CASE same = {} /\ alike = {}
  <2>1. P!FindIndex(ms, m) = 0
    BY <1>5 DEF P!FindIndex
  <2> QED BY <1>1, <2>1
<1> QED BY <1>3, <1>4, <1>5

\* Deleting leaves messages of the list, and only those.
LEMMA WithoutFacts ==
    ASSUME NEW ms \in Lists, NEW m
    PROVE  /\ P!Without(ms, m) \in Lists
           /\ Calm(ms) => Calm(P!Without(ms, m))
<1> DEFINE i == P!FindIndex(ms, m)
           gone == IF m.role = "user" /\ i < Len(ms) /\ ms[i + 1].role = "assistant"
                   THEN {i, i + 1}
                   ELSE {j \in DOMAIN ms : ms[j].id = m.id}
           left == DOMAIN ms \ gone
           w == P!Without(ms, m)
           c == Cardinality(left)
<1>1. w = [n \in 1..c |-> ms[P!Nth(left, n)]]
  BY SameCount DEF P!Without
<1>2. left \subseteq DOMAIN ms
  OBVIOUS
<1> HIDE DEF w, left, gone, i
<1>3. Len(ms) \in Nat /\ DOMAIN ms = 1..Len(ms)
  BY ListFacts
<1>4. c \in Nat
  <2>1. IsFiniteSet(1..Len(ms))
    BY <1>3, FS_Interval
  <2> QED BY <1>2, <1>3, <2>1, FS_Subset, FS_CardinalityType
<1>5. \A n \in 1..c : P!Nth(left, n) \in DOMAIN ms
  <2>1. left \in SUBSET (1..Len(ms))
    BY <1>2, <1>3
  <2> QED BY <1>2, <1>3, <2>1, NthFacts
<1> HIDE DEF c
<1>6. \A n \in 1..c : \E j \in DOMAIN ms : w[n] = ms[j]
  BY <1>1, <1>5
<1>7. DOMAIN w = 1..c /\ w \in Lists
  BY <1>1, <1>3, <1>4, <1>5, ListFacts DEF Lists
<1>8. ASSUME Calm(ms) PROVE Calm(w)
  BY <1>6, <1>7, <1>8 DEF Calm
<1> QED BY <1>7, <1>8 DEF w

LEMMA CutFacts ==
    ASSUME NEW ms \in Lists, NEW k \in 0..Len(ms)
    PROVE  /\ SubSeq(ms, 1, k) \in Lists
           /\ Calm(ms) => Calm(SubSeq(ms, 1, k))
<1>1. Len(ms) \in Nat /\ DOMAIN ms = 1..Len(ms)
  BY ListFacts
<1>2. /\ SubSeq(ms, 1, k) \in Lists
      /\ DOMAIN SubSeq(ms, 1, k) = 1..k
      /\ \A j \in 1..k : SubSeq(ms, 1, k)[j] = ms[j] /\ j \in DOMAIN ms
  BY <1>1 DEF Lists
<1> QED BY <1>2 DEF Calm

LEMMA DeletePlay == ASSUME PlayInv, P!Delete PROVE PlayInv'
<1>1. /\ dialog' = Nothing
      /\ P!Parts(pending # {} \/ resends + regens > 0)
      /\ UNCHANGED <<stored, pending, whole, sent, resends, regens, emptied,
                     nextId, loads, broken>>
  BY DEF P!Delete, P!wire, P!clocks, P!session
<1>2. PlayType /\ message \in Lists
  BY DEF PlayInv, PlayType
<1>3. ASSUME ~parted' PROVE ~parted /\ pending = {} /\ ~(resends + regens > 0) /\ QuietInv'
  <2>1. ~parted /\ pending = {} /\ ~(resends + regens > 0)
    BY <1>1, <1>3, PartsFacts
  <2> QED BY <1>1, <2>1 DEF PlayInv, QuietInv, Regenerating, Timers
<1>4. CASE UNCHANGED <<message, saves>>
  <2>1. PlayType'
    BY <1>1, <1>2, <1>4 DEF PlayType, Regenerating
  <2>2. ~parted' => TidyInv' /\ LinkInv' /\ StoreInv'
    BY <1>1, <1>3, <1>4, SameList
  <2> QED BY <1>3, <2>1, <2>2 DEF PlayInv
<1>5. CASE message' = P!Without(message, dialog.target) /\ saves' = Append(saves, message')
  <2>1. message' \in Lists /\ (Calm(message) => Calm(message'))
    BY <1>2, <1>5, WithoutFacts
  <2>2. PlayType'
    BY <1>1, <1>2, <1>5, <2>1, SavingFacts DEF PlayType, Regenerating
  <2>3. ASSUME ~parted' PROVE TidyInv' /\ LinkInv' /\ StoreInv'
    <3>1. Calm(message')
      BY <1>3, <2>1, <2>3, CalmNow
    <3> QED BY <1>1, <1>3, <1>5, <2>1, <2>3, <3>1, CalmStep
  <2> QED BY <1>3, <2>2, <2>3 DEF PlayInv
<1> QED BY <1>4, <1>5 DEF P!Delete, P!Saving

\* What handleEditSave makes of the list.
LEMMA EditedFacts ==
    ASSUME PlayType
    PROVE  /\ P!Edited \in Lists /\ Len(P!Edited) = Len(message)
           /\ Calm(message) => Calm(P!Edited)
<1>1. message \in Lists
  BY DEF PlayType
<1>2. \A j \in DOMAIN message :
         /\ P!Edited[j] \in Msgs
         /\ P!Edited[j].from \in {{0}, message[j].from}
         /\ P!Edited[j].of = message[j].of
         /\ P!Edited[j].status = message[j].status
  <2> SUFFICES ASSUME NEW j \in DOMAIN message
               PROVE  /\ P!Edited[j] \in Msgs
                      /\ P!Edited[j].from \in {{0}, message[j].from}
                      /\ P!Edited[j].of = message[j].of
                      /\ P!Edited[j].status = message[j].status
    OBVIOUS
  <2>1. message[j] \in Msgs
    BY <1>1, ListFacts
  <2>2. P!Edited[j] = message[j] \/ P!Edited[j] = [message[j] EXCEPT !.from = {0}]
    BY DEF P!Edited
  <2> QED BY <2>1, <2>2 DEF Msgs
<1>3. DOMAIN P!Edited = DOMAIN message /\ P!Edited = [j \in DOMAIN message |-> P!Edited[j]]
  BY DEF P!Edited
<1> DEFINE s == P!Edited
<1> HIDE DEF s
<1>4. \A j \in DOMAIN message : s[j] \in Msgs
  BY <1>2 DEF s
<1>5. DOMAIN s = DOMAIN message /\ s = [j \in DOMAIN message |-> s[j]]
  BY <1>3 DEF s
<1>6. s \in Lists /\ Len(s) = Len(message)
  BY <1>1, <1>4, <1>5 DEF Lists
<1>7. ASSUME Calm(message) PROVE Calm(P!Edited)
  BY <1>2, <1>3, <1>7 DEF Calm, Own, P!Ongoing
<1> QED BY <1>6, <1>7 DEF s

LEMMA SaveEditPlay == ASSUME PlayInv, P!SaveEdit PROVE PlayInv'
<1> DEFINE i == P!FindIndex(message, editing)
<1>1. /\ P!Parts(pending # {} \/ resends + regens > 0)
      /\ ~broken /\ dialog = Nothing
      /\ UNCHANGED <<stored, pending, whole, sent, resends, regens, emptied,
                     nextId, loads>>
  BY DEF P!SaveEdit, P!Idle, P!wire, P!clocks, P!session
<1>2. \/ broken' = TRUE /\ UNCHANGED <<message, saves, dialog>>
      \/ /\ dialog' = [kind |-> "regenerate", list |-> P!Edited, at |-> i]
         /\ UNCHANGED <<message, saves, broken>>
      \/ /\ message' = P!Edited /\ saves' = Append(saves, message')
         /\ UNCHANGED <<dialog, broken>>
  BY Zenon DEF P!SaveEdit, P!Saving
<1>3. PlayType /\ message \in Lists
  BY DEF PlayInv, PlayType
<1>4. i \in 0..Len(message)
  BY <1>3, FindFacts
<1>5. /\ P!Edited \in Lists /\ Len(P!Edited) = Len(message)
      /\ Calm(message) => Calm(P!Edited)
  BY <1>3, EditedFacts
<1> HIDE DEF i
<1>6. ASSUME ~parted'
      PROVE  /\ ~parted /\ pending = {} /\ ~(resends + regens > 0) /\ Calm(message)
             /\ Calm(P!Edited)
  <2>1. ~parted /\ pending = {} /\ ~(resends + regens > 0)
    BY <1>1, <1>6, PartsFacts
  <2> QED BY <1>5, <2>1, CalmNow
<1>7. CASE broken' = TRUE /\ UNCHANGED <<message, saves, dialog>>
  <2>1. PlayType'
    BY <1>1, <1>3, <1>7 DEF PlayType, Regenerating
  <2>2. ASSUME ~parted' PROVE TidyInv' /\ LinkInv' /\ QuietInv' /\ StoreInv'
    <3>1. TidyInv /\ LinkInv /\ QuietInv
      BY <1>6, <2>2 DEF PlayInv
    <3>2. TidyInv'
      BY <1>1, <1>7, <3>1 DEF TidyInv
    <3>3. LinkInv'
      BY <1>1, <1>7, <3>1 DEF LinkInv, Awaits
    <3>4. QuietInv'
      BY <1>1, <1>7, <3>1 DEF QuietInv, Regenerating, Timers
    <3>5. StoreInv'
      BY <1>7 DEF StoreInv
    <3> QED BY <3>2, <3>3, <3>4, <3>5
  <2> QED BY <2>1, <2>2 DEF PlayInv
<1>8. CASE /\ dialog' = [kind |-> "regenerate", list |-> P!Edited, at |-> i]
           /\ UNCHANGED <<message, saves, broken>>
  <2>1. dialog'.kind = "regenerate" /\ dialog'.list = P!Edited /\ dialog'.at = i
    BY <1>8
  <2>2. PlayType'
    BY <1>1, <1>3, <1>4, <1>5, <1>8, <2>1 DEF PlayType, Regenerating
  <2>3. ASSUME ~parted' PROVE TidyInv' /\ LinkInv' /\ QuietInv' /\ StoreInv'
    <3>1. TidyInv' /\ LinkInv' /\ StoreInv'
      BY <1>1, <1>6, <1>8, <2>3, SameList
    <3>2. Timers = 0
      BY <1>3, <1>6, <2>3 DEF PlayType, Timers
    <3>3. QuietInv'
      BY <1>1, <1>6, <2>1, <2>3, <3>2 DEF PlayInv, QuietInv, Timers
    <3> QED BY <3>1, <3>3
  <2> QED BY <2>2, <2>3 DEF PlayInv
<1>9. CASE /\ message' = P!Edited /\ saves' = Append(saves, message')
           /\ UNCHANGED <<dialog, broken>>
  <2>1. message' \in Lists
    BY <1>5, <1>9
  <2>2. PlayType'
    BY <1>1, <1>3, <1>9, <2>1, SavingFacts DEF PlayType, Regenerating
  <2>3. ASSUME ~parted' PROVE TidyInv' /\ LinkInv' /\ QuietInv' /\ StoreInv'
    <3>0. Calm(message')
      BY <1>6, <1>9, <2>3
    <3>1. TidyInv' /\ LinkInv' /\ StoreInv'
      BY <1>1, <1>6, <1>9, <2>1, <2>3, <3>0, CalmStep
    <3>2. QuietInv'
      BY <1>1, <1>6, <1>9, <2>3 DEF PlayInv, QuietInv, Regenerating, Timers
    <3> QED BY <3>1, <3>2
  <2> QED BY <2>2, <2>3 DEF PlayInv
<1> QED BY <1>2, <1>7, <1>8, <1>9

LEMMA KeepEditPlay == ASSUME PlayInv, P!KeepEdit PROVE PlayInv'
<1>1. /\ Regenerating /\ dialog' = Nothing
      /\ message' = dialog.list /\ saves' = Append(saves, message')
      /\ UNCHANGED <<stored, pending, whole, sent, resends, regens, emptied,
                     nextId, loads, broken, parted>>
  BY DEF P!KeepEdit, P!Saving, Regenerating, P!wire, P!clocks, P!session
<1>2. PlayType /\ message' \in Lists
  BY <1>1 DEF PlayInv, PlayType
<1>3. PlayType'
  BY <1>1, <1>2, SavingFacts DEF PlayType, Regenerating
<1>4. ASSUME ~parted PROVE TidyInv' /\ LinkInv' /\ QuietInv' /\ StoreInv'
  <2>1. QuietInv
    BY <1>4 DEF PlayInv
  <2>2. pending = {} /\ Calm(message')
    BY <1>1, <2>1 DEF QuietInv
  <2>3. TidyInv' /\ LinkInv' /\ StoreInv'
    BY <1>1, <1>2, <1>4, <2>2, CalmStep
  <2>4. QuietInv'
    BY <1>1, <2>1 DEF QuietInv, Regenerating, Timers
  <2> QED BY <2>3, <2>4
<1> QED BY <1>1, <1>3, <1>4 DEF PlayInv

LEMMA RegeneratePlay == ASSUME PlayInv, P!Regenerate PROVE PlayInv'
<1>1. /\ Regenerating /\ dialog' = Nothing
      /\ message' = SubSeq(dialog.list, 1, dialog.at)
      /\ saves' = Append(saves, message')
      /\ regens' = regens + 1
      /\ UNCHANGED <<stored, pending, whole, sent, resends, emptied,
                     nextId, loads, broken, parted>>
  BY DEF P!Regenerate, P!Saving, Regenerating, P!wire, P!session
<1>2. PlayType /\ message' \in Lists
  BY <1>1, CutFacts DEF PlayInv, PlayType
<1>3. PlayType'
  BY <1>1, <1>2, SavingFacts DEF PlayType, Regenerating
<1>4. ASSUME ~parted PROVE TidyInv' /\ LinkInv' /\ QuietInv' /\ StoreInv'
  <2>1. QuietInv
    BY <1>4 DEF PlayInv
  <2>2. pending = {} /\ Timers = 0 /\ Calm(dialog.list)
    BY <1>1, <2>1 DEF QuietInv
  <2>3. Calm(message')
    BY <1>1, <1>2, <2>2, CutFacts DEF PlayType
  <2>4. TidyInv' /\ LinkInv' /\ StoreInv'
    BY <1>1, <1>2, <1>4, <2>2, <2>3, CalmStep
  <2>5. Timers' = 1
    BY <1>1, <1>2, <2>2 DEF PlayType, Timers
  <2>6. QuietInv'
    BY <1>1, <2>1, <2>2, <2>5 DEF QuietInv, Regenerating
  <2> QED BY <2>4, <2>6
<1> QED BY <1>1, <1>3, <1>4 DEF PlayInv

\* handleMessageReset cuts the list before a message of it.
LEMMA ResetAtFacts ==
    ASSUME message \in Lists, NEW i \in DOMAIN message, P!ResetAt(i) > 0
    PROVE  P!ResetAt(i) - 1 \in 0..Len(message)
<1> DEFINE users == {j \in 1..i : message[j].role = "user"}
           last == CHOOSE j \in users : \A k \in users : k <= j
<1>1. Len(message) \in Nat /\ i \in Nat /\ i <= Len(message)
  BY ListFacts
<1>2. P!ResetAt(i) = IF users = {} THEN 0 ELSE last
  BY DEF P!ResetAt
<1>3. users # {} /\ P!ResetAt(i) = last
  BY <1>2
<1>4. users \in SUBSET (1..i)
  OBVIOUS
<1>5. last \in users
  <2>1. \E j \in users : \A k \in users : k <= j
    <3> HIDE DEF users
    <3> QED BY <1>1, <1>3, <1>4, Greatest
  <2> QED BY <2>1
<1> HIDE DEF users, last
<1>6. last \in 1..i
  BY <1>4, <1>5
<1> QED BY <1>1, <1>3, <1>6

LEMMA ResetPlay == ASSUME PlayInv, P!Reset PROVE PlayInv'
<1>1. /\ P!Parts(pending # {} \/ resends + regens > 0)
      /\ resends' = resends + 1
      /\ UNCHANGED <<stored, saves, pending, whole, sent, regens, emptied, dialog,
                     nextId, loads, broken>>
  BY DEF P!Reset, P!wire, P!session
<1>2. PlayType /\ message \in Lists
  BY DEF PlayInv, PlayType
<1>3. PICK i \in DOMAIN message :
         /\ P!ResetAt(i) > 0 /\ message' = SubSeq(message, 1, P!ResetAt(i) - 1)
         /\ P!Action(message[i])
  BY DEF P!Reset
<1>4. message' \in Lists /\ (Calm(message) => Calm(message'))
  BY <1>2, <1>3, ResetAtFacts, CutFacts
<1>5. PlayType'
  BY <1>1, <1>2, <1>4 DEF PlayType, Regenerating
<1>6. ASSUME ~parted' PROVE TidyInv' /\ LinkInv' /\ QuietInv' /\ StoreInv'
  <2>1. ~parted /\ pending = {} /\ ~(resends + regens > 0)
    BY <1>1, <1>6, PartsFacts
  <2>2. Calm(message')
    BY <1>4, <2>1, CalmNow
  <2>3. Tidy(message') /\ ~P!LastOngoing(message')
    BY <1>4, <2>2, CalmIsTidy, CalmLast
  <2>4. TidyInv'
    BY <1>1, <2>1, <2>3 DEF PlayInv, TidyInv
  <2>5. LinkInv'
    BY <1>1, <2>1, <2>3 DEF LinkInv
  <2>6. Timers' = 1 /\ ~(regens' > 0)
    BY <1>1, <1>2, <2>1 DEF PlayType, Timers
  <2>7. StoreInv'
    BY <2>6 DEF StoreInv
  <2>8. dialog = Nothing
    BY <1>3 DEF P!Action, P!Idle
  <2>9. QuietInv'
    BY <1>1, <2>1, <2>6, <2>8 DEF PlayInv, QuietInv, Regenerating
  <2> QED BY <2>4, <2>5, <2>7, <2>9
<1> QED BY <1>5, <1>6 DEF PlayInv

\* A list whose last message has just been made is its own beginning.
LEMMA FreshFacts ==
    ASSUME NEW ms \in Lists, ms # << >>, ms[Len(ms)].status = "loading",
           ms[Len(ms)].from = {}
    PROVE  Unanswered(ms) = ms
<1> DEFINE m == ms[Len(ms)]
           x == [m EXCEPT !.status = "loading", !.from = {}]
<1>1. m \in Msgs /\ Len(ms) \in DOMAIN ms
  BY ListFacts
<1>2. x = m
  BY <1>1 DEF Msgs
<1>3. Unanswered(ms) = [ms EXCEPT ![Len(ms)] = x]
  BY DEF Unanswered
<1>4. Unanswered(ms) = [ms EXCEPT ![Len(ms)] = m]
  BY <1>2, <1>3
<1> QED BY <1>1, <1>4 DEF Lists

\* A new message, made for the request that is sent with it.
Begun(m) ==
    /\ m \in Msgs
    /\ m.of = sent + 1 /\ m.role = "assistant" /\ m.status = "loading"
    /\ m.from = {} /\ m.load = loads

\* With it a calm list is linked to the new request.
LEMMA BegunStep ==
    ASSUME PlayType, message' \in Lists, message' # << >>,
           Begun(message'[Len(message')]),
           \A i \in DOMAIN message' : i # Len(message') =>
               Own(message'[i]) /\ ~P!Ongoing(message'[i]),
           pending' = {sent + 1}, loads' = loads
    PROVE  /\ Tidy(message') /\ LinkInv'
           /\ Unanswered(message') = message'
           /\ message'[Len(message')].of \in whole' \cup pending'
<1> DEFINE m == message'[Len(message')]
<1>1. Own(m) /\ P!Ongoing(m)
  BY DEF Begun, Own, P!Ongoing
<1>2. Tidy(message')
  BY <1>1 DEF Tidy
<1>3. \A r \in pending' : Awaits(r)'
  BY <1>1 DEF Awaits, Begun
<1>4. LinkInv'
  BY <1>3 DEF LinkInv, Begun
<1>5. Unanswered(message') = message'
  BY FreshFacts DEF Begun
<1>6. m.of \in whole' \cup pending'
  BY DEF Begun
<1> QED BY <1>2, <1>4, <1>5, <1>6

LEMMA RequestFacts ==
    ASSUME PlayType, NEW streamed \in BOOLEAN, P!SendRequest(streamed)
    PROVE  /\ sent' = sent + 1 /\ pending' = pending \cup {sent + 1}
           /\ sent' \in Nat /\ pending' \subseteq 1..sent' /\ whole' \subseteq 1..sent'
<1>1. /\ sent' = sent + 1 /\ pending' = pending \cup {sent + 1}
      /\ whole' = whole \/ whole' = whole \cup {sent + 1}
  BY DEF P!SendRequest
<1>2. sent \in Nat /\ pending \subseteq 1..sent /\ whole \subseteq 1..sent
  BY DEF PlayType
<1> DEFINE after == 1..(sent + 1)
<1>3. 1..sent \subseteq after /\ sent + 1 \in after
  BY <1>2
<1>4. sent' \in Nat /\ 1..sent' = after
  BY <1>1, <1>2
<1> HIDE DEF after
<1>5. pending' \subseteq after
  BY <1>1, <1>2, <1>3
<1>6. whole' \subseteq after
  BY <1>1, <1>2, <1>3
<1> QED BY <1>1, <1>4, <1>5, <1>6

LEMMA NewFacts ==
    ASSUME PlayType, NEW id \in Nat
    PROVE  /\ P!NewMessage(id, "user", "none", 0, {0}) \in Msgs
           /\ Own(P!NewMessage(id, "user", "none", 0, {0}))
           /\ ~P!Ongoing(P!NewMessage(id, "user", "none", 0, {0}))
           /\ Begun(P!NewMessage(id, "assistant", "loading", sent + 1, {}))
<1>1. loads \in Nat /\ sent + 1 \in Nat
  BY DEF PlayType
<1>2. P!NewMessage(id, "user", "none", 0, {0}) \in Msgs
  BY <1>1 DEF P!NewMessage, Msgs, Roles, Statuses
<1>3. /\ Own(P!NewMessage(id, "user", "none", 0, {0}))
      /\ ~P!Ongoing(P!NewMessage(id, "user", "none", 0, {0}))
  BY DEF P!NewMessage, Own, P!Ongoing
<1>4. Begun(P!NewMessage(id, "assistant", "loading", sent + 1, {}))
  BY <1>1 DEF P!NewMessage, Begun, Msgs, Roles, Statuses
<1> QED BY <1>2, <1>3, <1>4

\* onMessageSend, from a calm list with no request under way.
LEMMA SendsPlay ==
    ASSUME PlayType, NEW streamed \in BOOLEAN, P!Sends(streamed),
           loads' = loads, stored' = stored
    PROVE  /\ message' \in Lists /\ saves' \in Seq(Lists)
           /\ sent' = sent + 1 /\ pending' = pending \cup {sent + 1}
           /\ sent' \in Nat /\ pending' \subseteq 1..sent' /\ whole' \subseteq 1..sent'
           /\ nextId' \in Nat
           /\ Calm(message) /\ pending = {} /\ TidyInv =>
                 TidyInv' /\ LinkInv' /\ (~(regens' > 0) => StoreInv')
<1> DEFINE a == P!NewMessage(nextId + 2, "user", "none", 0, {0})
           b == P!NewMessage(nextId + 1, "assistant", "loading", sent + 1, {})
           n == Len(message)
<1>1. /\ message' = message \o <<a, b>>
      /\ saves' = Append(saves, message')
      /\ nextId' = nextId + 3 /\ P!SendRequest(streamed)
  BY DEF P!Sends, P!Saving
<1>2. message \in Lists /\ nextId \in Nat
  BY DEF PlayType
<1>3. a \in Msgs /\ Own(a) /\ ~P!Ongoing(a) /\ Begun(b) /\ b \in Msgs
  BY <1>2, NewFacts DEF Begun
<1> HIDE DEF a, b
<1>4. /\ message' \in Lists /\ Len(message') = n + 2 /\ n \in Nat
      /\ message'[n + 1] = a /\ message'[n + 2] = b
      /\ \A i \in 1..n : message'[i] = message[i]
  BY <1>1, <1>2, <1>3 DEF Lists
<1>5. /\ saves' \in Seq(Lists) /\ Newest' = message'
      /\ Tidy(message') /\ (\A i \in DOMAIN saves : Tidy(saves[i]))
            => \A i \in DOMAIN saves' : Tidy(saves'[i])
  BY <1>1, <1>4, SavingFacts
<1>6. /\ sent' = sent + 1 /\ pending' = pending \cup {sent + 1}
      /\ sent' \in Nat /\ pending' \subseteq 1..sent' /\ whole' \subseteq 1..sent'
  BY <1>1, RequestFacts
<1>7. ASSUME Calm(message), pending = {}, TidyInv
      PROVE  TidyInv' /\ LinkInv' /\ (~(regens' > 0) => StoreInv')
  <2>1. message' # << >> /\ Begun(message'[Len(message')])
    BY <1>3, <1>4, ListFacts
  <2>2. \A i \in DOMAIN message' : i # Len(message') =>
               Own(message'[i]) /\ ~P!Ongoing(message'[i])
    <3>1. DOMAIN message' = 1..(n + 2) /\ DOMAIN message = 1..n
      BY <1>2, <1>4, ListFacts
    <3>2. \A i \in DOMAIN message' : i # Len(message') => i = n + 1 \/ i \in 1..n
      BY <1>4, <3>1
    <3> QED BY <1>3, <1>4, <1>7, <3>1, <3>2 DEF Calm
  <2>3. pending' = {sent + 1}
    BY <1>6, <1>7
  <2>4. /\ Tidy(message') /\ LinkInv' /\ Unanswered(message') = message'
        /\ message'[Len(message')].of \in whole' \cup pending'
    BY <1>4, <2>1, <2>2, <2>3, BegunStep
  <2>5. TidyInv'
    BY <1>5, <1>7, <2>4 DEF TidyInv
  <2>6. Follows(Newest)'
    BY <1>5, <2>1, <2>4 DEF Follows
  <2> QED BY <1>5, <2>4, <2>5, <2>6 DEF StoreInv
<1>8. nextId' \in Nat
  BY <1>1, <1>2
<1> QED BY <1>4, <1>5, <1>6, <1>7, <1>8

LEMMA SendPlay == ASSUME PlayInv, P!Send PROVE PlayInv'
<1>1. PICK streamed \in BOOLEAN : P!Sends(streamed)
  BY DEF P!Send
<1>2. /\ P!Parts(resends + regens > 0) /\ dialog = Nothing
      /\ ~P!LastOngoing(message)
      /\ UNCHANGED <<stored, resends, regens, emptied, dialog, loads, broken>>
  BY DEF P!Send, P!Idle, P!clocks, P!session
<1>3. PlayType
  BY DEF PlayInv
<1>4. /\ message' \in Lists /\ saves' \in Seq(Lists)
      /\ sent' \in Nat /\ pending' \subseteq 1..sent' /\ whole' \subseteq 1..sent'
      /\ nextId' \in Nat
      /\ Calm(message) /\ pending = {} /\ TidyInv =>
            TidyInv' /\ LinkInv' /\ (~(regens' > 0) => StoreInv')
  BY <1>1, <1>2, <1>3, SendsPlay
<1>5. PlayType'
  BY <1>2, <1>3, <1>4 DEF PlayType, Regenerating
<1>6. ASSUME ~parted' PROVE TidyInv' /\ LinkInv' /\ QuietInv' /\ StoreInv'
  <2>1. ~parted /\ ~(resends + regens > 0)
    <3>1. (resends + regens > 0) \in BOOLEAN
      BY <1>3 DEF PlayType
    <3>2. P!Parts(resends + regens > 0)
      BY <1>2
    <3> QED BY <1>6, <3>1, <3>2, PartsFacts, Zenon
  <2>2. pending = {}
    BY <1>2, <2>1 DEF PlayInv, LinkInv, Awaits, P!LastOngoing, P!Last
  <2>3. Calm(message) /\ TidyInv
    BY <2>1, <2>2, CalmNow DEF PlayInv
  <2>4. ~(regens' > 0) /\ Timers' = 0
    BY <1>2, <1>3, <2>1 DEF PlayType, Timers
  <2>5. QuietInv'
    BY <1>2, <2>1, <2>4 DEF PlayInv, QuietInv, Regenerating
  <2> QED BY <1>4, <2>2, <2>3, <2>4, <2>5
<1> QED BY <1>5, <1>6 DEF PlayInv

LEMMA ResendPlay == ASSUME PlayInv, P!Resend PROVE PlayInv'
<1>1. PICK streamed \in BOOLEAN : P!Sends(streamed)
  BY DEF P!Resend
<1>2. /\ resends > 0 /\ resends' = resends - 1
      /\ UNCHANGED <<stored, regens, emptied, dialog, loads, broken, parted>>
  BY DEF P!Resend, P!session
<1>3. PlayType
  BY DEF PlayInv
<1>4. /\ message' \in Lists /\ saves' \in Seq(Lists)
      /\ sent' \in Nat /\ pending' \subseteq 1..sent' /\ whole' \subseteq 1..sent'
      /\ nextId' \in Nat
      /\ Calm(message) /\ pending = {} /\ TidyInv =>
            TidyInv' /\ LinkInv' /\ (~(regens' > 0) => StoreInv')
  BY <1>1, <1>2, <1>3, SendsPlay
<1>5. PlayType'
  BY <1>2, <1>3, <1>4 DEF PlayType, Regenerating
<1>6. ASSUME ~parted PROVE TidyInv' /\ LinkInv' /\ QuietInv' /\ StoreInv'
  <2>1. QuietInv /\ TidyInv
    BY <1>6 DEF PlayInv
  <2>2. Timers > 0 /\ ~(regens' > 0) /\ Timers' = 0
    <3>1. resends \in Nat /\ regens \in Nat /\ resends + regens <= 1
      BY <1>3, <2>1 DEF QuietInv, PlayType, Timers
    <3> QED BY <1>2, <3>1 DEF Timers
  <2>3. pending = {} /\ ~Regenerating
    BY <2>1, <2>2 DEF QuietInv
  <2>4. Calm(message)
    BY <1>6, <2>3, CalmNow
  <2>5. QuietInv'
    BY <1>2, <2>1, <2>2, <2>3 DEF QuietInv, Regenerating
  <2> QED BY <1>4, <2>1, <2>2, <2>3, <2>4, <2>5
<1> QED BY <1>2, <1>5, <1>6 DEF PlayInv

LEMMA RegenPlay == ASSUME PlayInv, P!Regen PROVE PlayInv'
<1> DEFINE b == P!NewMessage(nextId, "assistant", "loading", sent + 1, {})
           n == Len(message)
<1>1. PICK streamed \in BOOLEAN : P!SendRequest(streamed)
  BY DEF P!Regen
<1>2. /\ regens > 0 /\ regens' = regens - 1 /\ ~broken
      /\ message' = Append(message, b) /\ nextId' = nextId + 1
      /\ UNCHANGED <<stored, saves, resends, emptied, dialog, loads, broken, parted>>
  BY DEF P!Regen, P!session
<1>3. PlayType /\ message \in Lists /\ nextId \in Nat
  BY DEF PlayInv, PlayType
<1>4. Begun(b) /\ b \in Msgs
  BY <1>3, NewFacts DEF Begun
<1> HIDE DEF b
<1>5. /\ message' \in Lists /\ Len(message') = n + 1 /\ n \in Nat
      /\ message'[n + 1] = b
      /\ \A i \in 1..n : message'[i] = message[i]
      /\ SubSeq(message', 1, n) = message
  BY <1>2, <1>3, <1>4 DEF Lists
<1>6. /\ sent' = sent + 1 /\ pending' = pending \cup {sent + 1}
      /\ sent' \in Nat /\ pending' \subseteq 1..sent' /\ whole' \subseteq 1..sent'
  BY <1>1, <1>3, RequestFacts
<1>7. PlayType'
  <2>1. regens' \in Nat /\ nextId' \in Nat
    BY <1>2, <1>3 DEF PlayType
  <2>2. Regenerating' => dialog'.list \in Lists /\ dialog'.at \in 0..Len(dialog'.list)
    BY <1>2, <1>3 DEF PlayType, Regenerating
  <2> QED BY <1>2, <1>3, <1>5, <1>6, <2>1, <2>2 DEF PlayType
<1>8. ASSUME ~parted PROVE TidyInv' /\ LinkInv' /\ QuietInv' /\ StoreInv'
  <2>1. QuietInv /\ TidyInv /\ StoreInv
    BY <1>8 DEF PlayInv
  <2>2. Timers > 0 /\ Timers' = 0 /\ ~(regens' > 0)
    BY <1>2, <1>3, <2>1 DEF QuietInv, PlayType, Timers
  <2>3. pending = {} /\ ~Regenerating
    BY <2>1, <2>2 DEF QuietInv
  <2>4. Calm(message)
    BY <1>8, <2>3, CalmNow
  <2>5. message' # << >> /\ Begun(message'[Len(message')])
    BY <1>4, <1>5, ListFacts
  <2>6. \A i \in DOMAIN message' : i # Len(message') =>
               Own(message'[i]) /\ ~P!Ongoing(message'[i])
    <3>1. DOMAIN message' = 1..(n + 1) /\ DOMAIN message = 1..n
      BY <1>3, <1>5, ListFacts
    <3>2. \A i \in DOMAIN message' : i # Len(message') => i \in 1..n
      BY <1>5, <3>1
    <3> QED BY <1>5, <2>4, <3>1, <3>2 DEF Calm
  <2>7. pending' = {sent + 1}
    BY <1>6, <2>3
  <2>8. /\ Tidy(message') /\ LinkInv'
        /\ message'[Len(message')].of \in whole' \cup pending'
    BY <1>2, <1>3, <1>5, <2>5, <2>6, <2>7, BegunStep
  <2>9. TidyInv'
    BY <1>2, <2>1, <2>8 DEF TidyInv
  <2>10. QuietInv'
    BY <1>2, <2>1, <2>2, <2>3 DEF QuietInv, Regenerating
  <2>11. ASSUME Kept' PROVE Follows(Newest)'
    <3>1. Newest' = Newest /\ Kept
      BY <1>2, <2>11 DEF Newest, Kept
    <3>2. Newest = message
      BY <1>2, <2>1, <3>1 DEF StoreInv
    <3>3. Len(message') - 1 = n
      BY <1>5
    <3> QED BY <1>5, <2>5, <2>8, <3>1, <3>2, <3>3 DEF Follows
  <2>12. StoreInv'
    BY <2>2, <2>11 DEF StoreInv
  <2> QED BY <2>8, <2>9, <2>10, <2>12
<1> QED BY <1>2, <1>7, <1>8 DEF PlayInv

\* While the list and the requests are linked only one request is under way,
\* no timer runs, and the last message is its own.
LEMMA OneRequest ==
    ASSUME PlayInv, ~parted, NEW r \in pending
    PROVE  /\ Awaits(r) /\ pending = {r} /\ Timers = 0 /\ ~Regenerating
           /\ Own(message[Len(message)]) /\ P!LastOngoing(message)
<1>1. TidyInv /\ LinkInv /\ QuietInv /\ PlayType
  BY DEF PlayInv
<1>2. \A x \in pending : Awaits(x)
  BY <1>1 DEF LinkInv
<1>3. Awaits(r)
  BY <1>2
<1>4. \A x \in pending : x = r
  BY <1>2, <1>3 DEF Awaits
<1>5. Timers \in Nat
  BY <1>1 DEF PlayType, Timers
<1>6. Timers = 0 /\ ~Regenerating
  BY <1>1, <1>5 DEF QuietInv
<1>7. Own(message[Len(message)])
  BY <1>1, <1>3, ListFacts DEF Awaits, TidyInv, Tidy, PlayType
<1>8. P!LastOngoing(message)
  BY <1>3 DEF Awaits, P!LastOngoing, P!Last
<1> QED BY <1>3, <1>4, <1>6, <1>7, <1>8

\* An answer that goes on, or comes whole, leaves what is stored where it was.
LEMMA StillFollows ==
    ASSUME PlayInv, ~parted, NEW r \in pending, Relast(message, message'),
           r \in whole' \cup pending',
           UNCHANGED <<stored, saves, broken, resends, regens>>
    PROVE  StoreInv'
<1>1. /\ Awaits(r) /\ Timers = 0 /\ P!LastOngoing(message)
      /\ message \in Lists /\ message # << >> /\ StoreInv
  BY OneRequest DEF Awaits, PlayInv, PlayType
<1>2. /\ message' # << >> /\ Len(message') = Len(message)
      /\ SubSeq(message', 1, Len(message') - 1) = SubSeq(message, 1, Len(message) - 1)
      /\ Unanswered(message') = Unanswered(message)
  BY <1>1, RelastFacts DEF Relast
<1>3. message'[Len(message')].of = r
  BY <1>1, <1>2 DEF Awaits, Relast
<1>4. Newest' = Newest /\ (Kept' <=> Kept) /\ Timers' = Timers
  BY DEF Newest, Kept, Timers
<1>5. ~(regens > 0)
  BY <1>1 DEF PlayInv, PlayType, Timers
<1>6. ASSUME ~broken, Kept PROVE Follows(Newest)'
  <2>1. Follows(Newest)
    BY <1>1, <1>6 DEF StoreInv
  <2>2. Newest \in {SubSeq(message, 1, Len(message) - 1), Unanswered(message)}
    BY <1>1, <2>1 DEF Follows
  <2> QED BY <1>2, <1>3, <1>4, <2>2 DEF Follows
<1> QED BY <1>4, <1>5, <1>6 DEF StoreInv

LEMMA PiecePlay == ASSUME PlayInv, NEW r \in P!Requests, P!Piece(r) PROVE PlayInv'
<1>1. /\ r \in pending \ whole
      /\ message' = P!StreamMessageUpdate(message, r)
      /\ UNCHANGED <<stored, saves, pending, whole, sent, resends, regens, emptied,
                     dialog, nextId, loads, broken, parted>>
  BY DEF P!Piece, P!wire, P!clocks, P!session
<1>2. PlayType /\ message \in Lists /\ r \in Nat
  BY <1>1 DEF PlayInv, PlayType
<1>3. /\ Relast(message, message') /\ message' \in Lists
      /\ message # << >> =>
            /\ P!Ongoing(message'[Len(message)]) <=> P!Ongoing(message[Len(message)])
            /\ message'[Len(message)].from \subseteq message[Len(message)].from \cup {r}
  BY <1>1, <1>2, StreamFacts DEF Relast
<1>4. PlayType'
  BY <1>1, <1>2, <1>3 DEF PlayType, Regenerating
<1>5. ASSUME ~parted PROVE TidyInv' /\ LinkInv' /\ QuietInv' /\ StoreInv'
  <2> DEFINE n == Len(message)
  <2>1. /\ Awaits(r) /\ pending = {r} /\ Own(message[n]) /\ message # << >>
        /\ message[n].of = r
    BY <1>1, <1>5, OneRequest DEF Awaits
  <2>2. TidyInv /\ LinkInv /\ QuietInv
    BY <1>5 DEF PlayInv
  <2>3. DOMAIN message' = DOMAIN message /\ Len(message') = n /\ message' # << >>
    BY <1>2, <1>3, <2>1, RelastFacts DEF Relast
  <2>4. /\ message'[n].of = r /\ message'[n].load = message[n].load
        /\ message'[n].role = message[n].role
    BY <1>3, <2>1 DEF Relast
  <2>5. Own(message'[n])
    BY <1>3, <2>1, <2>4, OwnGrows
  <2>6. Tidy(message')
    <3> SUFFICES ASSUME NEW i \in DOMAIN message
                 PROVE  Own(message'[i]) /\ (P!Ongoing(message'[i]) => i = n)
      BY <2>3 DEF Tidy
    <3>1. CASE i = n
      BY <2>5, <3>1
    <3>2. CASE i # n
      <4>1. message'[i] = message[i]
        BY <1>3, <3>2 DEF Relast
      <4> QED BY <2>2, <4>1 DEF TidyInv, Tidy
    <3> QED BY <3>1, <3>2
  <2>7. TidyInv'
    BY <1>1, <2>2, <2>6 DEF TidyInv
  <2>8. P!Ongoing(message'[n]) /\ r \notin whole /\ message[n].load = loads
    BY <1>1, <1>3, <2>1, <2>2 DEF Awaits, LinkInv, P!LastOngoing, P!Last
  <2>9. LinkInv'
    <3>1. Awaits(r)'
      BY <1>1, <2>1, <2>3, <2>4, <2>8 DEF Awaits
    <3> QED BY <1>1, <2>1, <2>3, <2>4, <2>8, <3>1 DEF LinkInv
  <2>10. QuietInv'
    BY <1>1, <2>2 DEF QuietInv, Regenerating, Timers
  <2>11. StoreInv'
    BY <1>1, <1>3, <1>5, StillFollows
  <2> QED BY <2>7, <2>9, <2>10, <2>11
<1> QED BY <1>1, <1>4, <1>5 DEF PlayInv

LEMMA WholePlay == ASSUME PlayInv, NEW r \in P!Requests, P!Whole(r) PROVE PlayInv'
<1>1. /\ r \in pending \cap whole /\ pending' = pending \ {r}
      /\ UNCHANGED <<stored, saves, whole, sent, resends, regens, emptied,
                     dialog, nextId, loads, broken, parted>>
  BY DEF P!Whole, P!clocks, P!session
<1>2. PICK st \in {"complete", "error"} : message' = P!WholeUpdate(message, r, st)
  BY DEF P!Whole
<1>3. PlayType /\ message \in Lists /\ r \in Nat
  BY <1>1 DEF PlayInv, PlayType
<1>4. /\ Relast(message, message') /\ message' \in Lists
      /\ message # << >> /\ message[Len(message)].status = "loading" =>
            ~P!Ongoing(message'[Len(message)]) /\ message'[Len(message)].from = {r}
  BY <1>2, <1>3, WholeFacts DEF Relast
<1>5. PlayType'
  BY <1>1, <1>3, <1>4 DEF PlayType, Regenerating
<1>6. ASSUME ~parted PROVE TidyInv' /\ LinkInv' /\ QuietInv' /\ StoreInv'
  <2> DEFINE n == Len(message)
  <2>1. /\ Awaits(r) /\ pending = {r} /\ message # << >>
        /\ message[n].of = r /\ message[n].status = "loading"
    BY <1>1, <1>6, OneRequest DEF Awaits
  <2>2. TidyInv /\ QuietInv
    BY <1>6 DEF PlayInv
  <2>3. Own(message'[n]) /\ ~P!Ongoing(message'[n])
    BY <1>4, <2>1 DEF Relast, Own
  <2>4. Calm(message')
    BY <1>3, <1>4, <2>2, <2>3, TidyEnds DEF TidyInv
  <2>5. Tidy(message') /\ ~P!LastOngoing(message') /\ pending' = {}
    BY <1>1, <1>4, <2>1, <2>4, CalmIsTidy, CalmLast
  <2>6. TidyInv'
    BY <1>1, <2>2, <2>5 DEF TidyInv
  <2>7. LinkInv'
    BY <2>5 DEF LinkInv
  <2>8. QuietInv'
    BY <1>1, <2>2, <2>5 DEF QuietInv, Regenerating, Timers
  <2>9. StoreInv'
    BY <1>1, <1>4, <1>6, StillFollows
  <2> QED BY <2>6, <2>7, <2>8, <2>9
<1> QED BY <1>1, <1>5, <1>6 DEF PlayInv

\* completeMessage keeps the types.
LEMMA CompletedTypes ==
    ASSUME PlayType, NEW ms \in Lists, NEW st \in {"complete", "error"},
           P!Complete(ms, st)
    PROVE  message' \in Lists /\ saves' \in Seq(Lists)
<1>1. CASE ms = << >>
  BY <1>1 DEF P!Complete, PlayType
<1>2. CASE ms # << >>
  <2>1. message' = P!CompleteMessage(ms, st)
    BY <1>2 DEF P!Complete
  <2>2. message' \in Lists
    BY <1>2, <2>1, CompleteFacts DEF Relast
  <2>3. saves' = saves \/ saves' = Append(saves, message')
    BY <1>2 DEF P!Complete, P!Saving
  <2> QED BY <2>2, <2>3, SavingFacts DEF PlayType
<1> QED BY <1>1, <1>2

\* The end of a stream, with an answer or with an error.
LEMMA StreamEnds ==
    ASSUME PlayInv, NEW r \in pending, NEW ms, Relast(message, ms),
           message # << >> =>
               /\ P!Ongoing(ms[Len(message)]) <=> P!Ongoing(message[Len(message)])
               /\ ms[Len(message)].from \subseteq message[Len(message)].from \cup {r},
           NEW st \in {"complete", "error"}, P!Complete(ms, st),
           pending' = pending \ {r},
           UNCHANGED <<stored, whole, sent, resends, regens, emptied, dialog, nextId,
                       loads, parted>>
    PROVE  PlayInv'
<1>1. PlayType /\ message \in Lists /\ ms \in Lists
  BY DEF PlayInv, PlayType, Relast
<1>2. message' \in Lists /\ saves' \in Seq(Lists)
  BY <1>1, CompletedTypes
<1>3. PlayType'
  BY <1>1, <1>2 DEF PlayType, Regenerating
<1>4. ASSUME ~parted PROVE TidyInv' /\ LinkInv' /\ QuietInv' /\ StoreInv'
  <2> DEFINE n == Len(message)
  <2>1. /\ pending = {r} /\ Own(message[n]) /\ message # << >>
        /\ message[n].of = r /\ P!Ongoing(message[n])
    BY <1>4, OneRequest DEF Awaits
  <2>2. Tidy(message) /\ QuietInv
    BY <1>4 DEF PlayInv, TidyInv
  <2>3. ms # << >> /\ Len(ms) = n /\ ms[n].of = r /\ P!Ongoing(ms[n])
    BY <1>1, <2>1, RelastFacts DEF Relast
  <2>4. Own(ms[n])
    BY <2>1, <2>3, OwnGrows
  <2>5. message' = P!CompleteMessage(ms, st) /\ P!Completes(ms)
    BY <1>1, <2>3, CompleteFacts DEF P!Complete
  <2>6. saves' = Append(saves, message')
    BY <2>3, <2>5 DEF P!Complete, P!Saving
  <2>7. Relast(ms, message') /\ ~P!Ongoing(message'[n]) /\ message'[n].from = ms[n].from
    BY <1>1, <2>3, <2>5, CompleteFacts
  <2>8. Own(message'[n])
    BY <2>3, <2>4, <2>7 DEF Own, Relast
  <2>9. Relast(message, message')
    <3>1. DOMAIN ms = DOMAIN message
      BY <1>1, RelastFacts
    <3> QED BY <2>3, <2>7, <3>1 DEF Relast
  <2>10. Calm(message')
    BY <1>1, <2>2, <2>7, <2>8, <2>9, TidyEnds
  <2>11. pending' = {}
    BY <2>1
  <2>12. TidyInv' /\ LinkInv' /\ StoreInv'
    BY <1>2, <1>4, <2>6, <2>10, <2>11, CalmStep
  <2>13. QuietInv'
    BY <2>2, <2>11 DEF QuietInv, Regenerating, Timers
  <2> QED BY <2>12, <2>13
<1> QED BY <1>3, <1>4 DEF PlayInv

LEMMA DonePlay ==
    ASSUME PlayInv, NEW r \in P!Requests, NEW event \in BOOLEAN,
           P!Done(r) \/ P!StreamError(r, event)
    PROVE  PlayInv'
<1>1. /\ r \in pending /\ pending' = pending \ {r}
      /\ UNCHANGED <<stored, whole, sent, resends, regens, emptied, dialog, nextId,
                     loads, parted>>
  BY DEF P!Done, P!StreamError, P!clocks, P!session
<1>2. message \in Lists /\ r \in Nat
  BY <1>1 DEF PlayInv, PlayType
<1>3. CASE P!Done(r)
  <2>1. P!Complete(message, "complete")
    BY <1>3 DEF P!Done
  <2>2. Relast(message, message)
    BY <1>2, SameRelast
  <2> QED BY <1>1, <2>1, <2>2, StreamEnds
<1>4. CASE P!StreamError(r, event)
  <2> DEFINE ms == P!StreamMessageUpdate(message, r)
  <2>1. P!Complete(ms, "error")
    BY <1>4 DEF P!StreamError
  <2>2. /\ Relast(message, ms)
        /\ message # << >> =>
            /\ P!Ongoing(ms[Len(message)]) <=> P!Ongoing(message[Len(message)])
            /\ ms[Len(message)].from \subseteq message[Len(message)].from \cup {r}
    BY <1>2, StreamFacts
  <2> HIDE DEF ms
  <2> QED BY <1>1, <2>1, <2>2, StreamEnds
<1> QED BY <1>3, <1>4

LEMMA UnparsedPlay ==
    ASSUME PlayInv, NEW r \in P!Requests, P!Unparsed(r) \/ P!Silence(r) PROVE PlayInv'
<1>1. /\ P!Parts(TRUE) /\ r \in pending /\ pending' \subseteq pending
      /\ UNCHANGED <<stored, whole, sent, resends, regens, dialog, nextId, loads>>
  BY DEF P!Unparsed, P!Silence, P!wire, P!clocks, P!session
<1>2. parted'
  BY <1>1, Zenon DEF P!Parts
<1>3. PlayType /\ message \in Lists /\ r \in Nat
  BY <1>1 DEF PlayInv, PlayType
<1>4. message' \in Lists /\ saves' \in Seq(Lists)
  <2>1. CASE P!Unparsed(r)
    <3> DEFINE ms == P!StreamMessageUpdate(message, r)
    <3>1. P!Complete(ms, "error")
      BY <2>1 DEF P!Unparsed
    <3>2. ms \in Lists
      BY <1>3, StreamFacts DEF Relast
    <3> HIDE DEF ms
    <3> QED BY <1>3, <3>1, <3>2, CompletedTypes
  <2>2. CASE P!Silence(r)
    BY <1>3, <2>2 DEF P!Silence, PlayType
  <2> QED BY <2>1, <2>2
<1>5. PlayType'
  BY <1>1, <1>3, <1>4 DEF PlayType, Regenerating
<1> QED BY <1>2, <1>5 DEF PlayInv

\* Loading the page repairs the last message of what is stored.
LEMMA ReloadPlay == ASSUME PlayInv, P!Reload PROVE PlayInv'
<1>1. /\ loads' = loads + 1 /\ pending' = {} /\ resends' = 0 /\ regens' = 0
      /\ emptied' = FALSE /\ dialog' = Nothing /\ nextId' = 4
      /\ UNCHANGED <<whole, sent, parted>>
      /\ stored' = Nothing \/ stored' = stored
      /\ message' = IF stored' = Nothing THEN P!Defaults
                    ELSE IF P!Repaired(stored') # << >> THEN Head(P!Repaired(stored'))
                    ELSE stored'
      /\ saves' = IF stored' = Nothing THEN << >> ELSE P!Repaired(stored')
  BY DEF P!Reload, P!Loaded
<1>2. PlayType
  BY DEF PlayInv
<1>3. /\ message' \in Lists /\ saves' \in Seq(Lists)
      /\ ~parted => Calm(message')
      /\ Kept' => Newest' = message'
      /\ saves' = << >> \/ saves' = << message' >>
  <2>1. CASE stored' = Nothing
    <3>1. message' = P!Defaults /\ saves' = << >> /\ ~Kept'
      BY <1>1, <2>1 DEF Kept
    <3>2. << >> \in Seq(Lists)
      OBVIOUS
    <3> QED BY <3>1, <3>2, DefaultFacts
  <2>2. CASE stored' = stored /\ stored # Nothing /\ P!LastOngoing(stored)
    <3>1. P!Repaired(stored) = << P!Finished(stored) >>
      BY <2>2 DEF P!Repaired
    <3>2. message' = P!Finished(stored) /\ saves' = << message' >>
      BY <1>1, <2>2, <3>1
    <3>3. stored \in Lists
      BY <1>2, <2>2 DEF PlayType
    <3>4. Relast(stored, message') /\ message' \in Lists
      BY <3>2, <3>3, FinishedFacts DEF Relast
    <3>5. saves' \in Seq(Lists) /\ Newest' = message'
      BY <3>2, <3>4 DEF Newest
    <3>6. ASSUME ~parted PROVE Calm(message')
      <4>1. Tidy(stored)
        BY <2>2, <3>6 DEF PlayInv, TidyInv
      <4>2. stored # << >> =>
               Own(message'[Len(stored)]) /\ ~P!Ongoing(message'[Len(stored)])
        <5> SUFFICES ASSUME stored # << >>
                     PROVE  /\ Own(message'[Len(stored)])
                            /\ ~P!Ongoing(message'[Len(stored)])
          OBVIOUS
        <5>1. Own(stored[Len(stored)])
          BY <3>3, <4>1, ListFacts DEF Tidy
        <5>2. /\ ~P!Ongoing(message'[Len(stored)])
              /\ message'[Len(stored)].from = stored[Len(stored)].from
          BY <3>2, <3>3, FinishedFacts
        <5>3. message'[Len(stored)].of = stored[Len(stored)].of
          BY <3>4 DEF Relast
        <5> QED BY <5>1, <5>2, <5>3 DEF Own
      <4> QED BY <3>3, <3>4, <4>1, <4>2, TidyEnds
    <3> QED BY <3>2, <3>4, <3>5, <3>6
  <2>3. CASE stored' = stored /\ stored # Nothing /\ ~P!LastOngoing(stored)
    <3>1. P!Repaired(stored) = << >>
      BY <2>3 DEF P!Repaired
    <3>2. message' = stored /\ saves' = << >> /\ stored' = stored
      BY <1>1, <2>3, <3>1
    <3>3. stored \in Lists
      BY <1>2, <2>3 DEF PlayType
    <3>4. saves' \in Seq(Lists) /\ Newest' = message'
      BY <3>2 DEF Newest
    <3>5. ASSUME ~parted PROVE Calm(stored)
      <4>1. Tidy(stored)
        BY <2>3, <3>5 DEF PlayInv, TidyInv
      <4>2. ASSUME NEW i \in DOMAIN stored, P!Ongoing(stored[i]) PROVE FALSE
        <5>1. i = Len(stored) /\ stored # << >>
          BY <3>3, <4>1, <4>2, ListFacts DEF Tidy
        <5> QED BY <2>3, <4>2, <5>1 DEF P!LastOngoing, P!Last
      <4> QED BY <4>1, <4>2 DEF Calm, Tidy
    <3> QED BY <3>2, <3>3, <3>4, <3>5
  <2> QED BY <1>1, <2>1, <2>2, <2>3
<1>4. PlayType'
  BY <1>1, <1>2, <1>3 DEF PlayType, Regenerating
<1>5. ASSUME ~parted PROVE TidyInv' /\ LinkInv' /\ QuietInv' /\ StoreInv'
  <2>1. Tidy(message') /\ ~P!LastOngoing(message')
    BY <1>3, <1>5, CalmIsTidy, CalmLast
  <2>2. \A i \in DOMAIN saves' : saves'[i] = message'
    BY <1>3
  <2>3. TidyInv'
    BY <1>1, <1>5, <2>1, <2>2 DEF PlayInv, TidyInv
  <2>4. LinkInv'
    BY <1>1, <2>1 DEF LinkInv
  <2>5. QuietInv'
    BY <1>1 DEF QuietInv, Regenerating, Timers
  <2>6. StoreInv'
    BY <1>3, <2>1 DEF StoreInv, Follows
  <2> QED BY <2>3, <2>4, <2>5, <2>6
<1> QED BY <1>1, <1>4, <1>5 DEF PlayInv

LEMMA PlayNext == PlayInv /\ [P!Next]_(P!vars) => PlayInv'
<1> SUFFICES ASSUME PlayInv, [P!Next]_(P!vars) PROVE PlayInv'
  OBVIOUS
<1>1. CASE UNCHANGED P!vars
  <2>1. UNCHANGED <<message, stored, saves, pending, whole, sent, resends, regens,
                    emptied, dialog, nextId, loads, broken, parted>>
    BY <1>1 DEF P!vars
  <2>2. PlayType'
    BY <2>1 DEF PlayInv, PlayType, Regenerating
  <2>3. ~parted => TidyInv' /\ LinkInv' /\ StoreInv'
    BY <2>1, SameList
  <2>4. ~parted => QuietInv'
    BY <2>1 DEF PlayInv, QuietInv, Regenerating, Timers
  <2> QED BY <2>1, <2>2, <2>3, <2>4 DEF PlayInv
<1>2. CASE P!Send \/ P!Stop \/ P!Reset \/ P!Resend
  BY <1>2, SendPlay, StopPlay, ResetPlay, ResendPlay
<1>3. ASSUME NEW r \in P!Requests, P!Piece(r) \/ P!Unparsed(r) \/ P!Ends(r)
      PROVE  PlayInv'
  BY <1>3, PiecePlay, UnparsedPlay, DonePlay, WholePlay DEF P!Ends
<1>4. CASE P!AskDelete \/ P!Delete \/ P!Toggle
  BY <1>4, AskDeletePlay, DeletePlay, TogglePlay
<1>5. CASE \/ P!Edit \/ P!CancelEdit \/ P!SaveEdit \/ P!Regenerate \/ P!Regen
           \/ P!KeepEdit
  BY <1>5, EditPlay, SaveEditPlay, RegeneratePlay, RegenPlay, KeepEditPlay
<1>6. CASE P!Clear \/ P!ChangeLanguage \/ P!ChooseImport \/ P!Import \/ P!ResetConfig
  BY <1>6, ClearPlay, PartingPlay, ImportPlay
<1>7. CASE P!ShowDefaults \/ P!Dismiss \/ P!Save \/ P!Reload
  BY <1>7, ImportPlay, DismissPlay, SavePlay, ReloadPlay
<1> QED BY <1>1, <1>2, <1>3, <1>4, <1>5, <1>6, <1>7 DEF P!Next

LEMMA PlayInvariance == P!Spec => []PlayInv
<1> QED BY PlayInitially, PlayNext, PTL DEF P!Spec

\* For any number of requests, loads, waiting saves and clicks a message of
\* the playground shows what was typed and the answer of its own request,
\* although useApiRequest.jsx writes every answer into the last message: as
\* long as none of the recorded steps has parted the list from the requests.
THEOREM OwnAnswerThm == P!Spec => []OwnAnswer
<1>1. PlayInv => OwnAnswer
  BY DEF PlayInv, TidyInv, Tidy, Own, OwnAnswer
<1> QED BY <1>1, PlayInvariance, PTL

\* Only the last message is being generated, and this load of the page made
\* it: neither regenerating nor a reload in the middle of an answer leaves a
\* spinner over (usePlaygroundState.js).
THEOREM SpinnerIsCurrentThm == P!Spec => []SpinnerIsCurrent
<1>1. ASSUME PlayInv, ~parted, NEW i \in DOMAIN message, P!Ongoing(message[i])
      PROVE  i = Len(message) /\ message[i].load = loads
  <2>1. i = Len(message) /\ LinkInv /\ message \in Lists
    BY <1>1 DEF PlayInv, PlayType, TidyInv, Tidy
  <2>2. message # << >>
    BY <1>1, <2>1, ListFacts
  <2>3. P!LastOngoing(message)
    BY <1>1, <2>1, <2>2 DEF P!LastOngoing, P!Last
  <2> QED BY <2>1, <2>3 DEF LinkInv
<1>2. PlayInv => SpinnerIsCurrent
  BY <1>1 DEF SpinnerIsCurrent, Ongoing, P!Ongoing
<1> QED BY <1>2, PlayInvariance, PTL

\* Once the timers have fired localStorage holds the messages shown, but for
\* an answer that was not streamed or is still coming: saveMessages is called
\* wherever it has to be, and in an order that lets the newest list win.
THEOREM SavedAsShownThm == P!Spec => []SavedAsShown
<1>1. ASSUME PlayInv, ~parted, ~broken, saves = << >>, stored # Nothing,
             resends = 0, regens = 0
      PROVE  Follows(stored)
  <2>1. StoreInv /\ Kept /\ Newest = stored /\ Timers = 0
    BY <1>1 DEF PlayInv, Kept, Newest, Timers
  <2> QED BY <1>1, <2>1 DEF StoreInv
<1>2. Follows(stored) =>
        \/ stored = message
        \/ /\ message # << >>
           /\ Last(message).of \in whole \cup pending
           /\ stored \in {Front(message),
                          SetLast(message, [Last(message) EXCEPT
                              !.status = "loading", !.from = {}])}
  BY DEF Follows, Unanswered, Last, Front, SetLast
<1>3. PlayInv => SavedAsShown
  BY <1>1, <1>2 DEF SavedAsShown
<1> QED BY <1>3, PlayInvariance, PTL
=============================================================================
