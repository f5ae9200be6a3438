-------------------------- MODULE SinkSafety_proofs --------------------------
(***************************************************************************)
(* SinkInv is inductive, for all values of the constants: the types, the   *)
(* accounts, the numbering of the items, and what the service knows, one   *)
(* lemma for each.  The safety properties of the sink follow.              *)
(***************************************************************************)
EXTENDS LangSmithSink, TLAPS

LEMMA RunOf ==
  ASSUME NEW e \in Event
  PROVE  /\ e.workflow \in Workflows /\ e.step \in Steps
         /\ Root(e) \in Runs /\ Child(e) \in Runs
  BY DEF Event, Root, Child, Runs

\* What taking and putting an item do to the queue.
LEMMA TailFacts ==
  ASSUME NEW S, NEW q \in Seq(S), q # <<>>
  PROVE  /\ Head(q) \in S /\ Head(q) = q[1]
         /\ Tail(q) \in Seq(S) /\ Len(Tail(q)) = Len(q) - 1 /\ Len(q) \in Nat \ {0}
         /\ \A i \in 1 .. Len(Tail(q)) : Tail(q)[i] = q[i + 1]
  OBVIOUS

LEMMA AppendFacts ==
  ASSUME NEW S, NEW q \in Seq(S), NEW x \in S
  PROVE  /\ Append(q, x) \in Seq(S) /\ Len(Append(q, x)) = Len(q) + 1 /\ Len(q) \in Nat
         /\ \A i \in 1 .. Len(q) : Append(q, x)[i] = q[i]
         /\ Append(q, x)[Len(q) + 1] = x
  OBVIOUS
LEMMA QueueIds ==
  ASSUME TypeOK, NEW i \in 1 .. Len(queue)
  PROVE  queue[i].id \in Nat
<1>1. queue \in Seq(Item)
  BY DEF TypeOK
<1>2. queue[i] \in Item
  BY <1>1
<1>3. QED
  BY <1>2 DEF Item
-----------------------------------------------------------------------------
(***************************************************************************)
(* Types.                                                                  *)
(***************************************************************************)
LEMMA MoveTypes ==
  ASSUME TypeOK, NEW at \in WorkerAt \ {"map"}, To(at)
  PROVE  worker' \in Worker /\ worker'.at # "map"
  BY DEF TypeOK, To, Worker

LEMMA GotoTypes ==
  ASSUME TypeOK, NEW t \in Threads, NEW at \in ThreadAt, Goto(t, at)
  PROVE  pc' \in [Threads -> ThreadAt]
  BY DEF TypeOK, Goto

LEMMA EnqueueTypes ==
  ASSUME TypeOK, NEW x \in Events \cup {None}, ~Full, Enqueue(x)
  PROVE  /\ queue' \in Seq(Item) /\ Len(queue') <= MaxItems
         /\ unfinished' \in Nat /\ puts' \in Nat
<1>1. [id |-> puts + 1, event |-> x] \in Item
  BY DEF TypeOK, Item
<1>2. QED
  BY <1>1, AppendFacts, SinkAssumption DEF TypeOK, Full, Enqueue

LEMMA RaisedTypes ==
  ASSUME TypeOK, worker.at = "map", Raised
  PROVE  /\ worker' \in Worker /\ failed' \in Nat /\ queue' = queue
         /\ worker'.at = "map" => worker'.item = worker.item
<1>1. CASE TryAgain
  <2>1. worker.attempt + 1 \in 0 .. MaxAttempts
    BY <1>1, SinkAssumption DEF TypeOK, TryAgain, Worker
  <2>2. QED
    BY <1>1, <2>1 DEF TypeOK, TryAgain, Worker
<1>2. CASE GiveUp
  BY <1>2, MoveTypes DEF TypeOK, GiveUp, WorkerAt
<1>3. QED
  BY <1>1, <1>2 DEF Raised

LEMMA HeardTypes ==
  ASSUME TypeOK, worker.at = "map", Heard
  PROVE  latest' \in Nat /\ noted' \in SUBSET Workflows
<1>1. worker.item.id \in Nat /\ ItemEvent \in Event
  BY SinkAssumption DEF TypeOK, Worker, Item, ItemEvent
<1>2. QED
  BY <1>1, RunOf DEF TypeOK, Heard

LEMMA InitTypes == Init => TypeOK
<1> SUFFICES ASSUME Init PROVE TypeOK
  OBVIOUS
<1>1. <<>> \in Seq(Item) /\ Len(<<>>) = 0 /\ NoItem \in Item
  BY DEF NoItem, Item
<1>2. worker \in Worker /\ worker.at # "map"
  BY <1>1, SinkAssumption DEF Init, Worker, WorkerAt
<1>3. queue \in Seq(Item) /\ Len(queue) <= MaxItems
  BY <1>1, SinkAssumption DEF Init
<1>4. /\ pc \in [Threads -> ThreadAt] /\ mark \in [Threads -> Nat]
      /\ created \in [Runs -> Nat] /\ lost \in [Runs -> Nat]
  BY DEF Init, ThreadAt
<1>5. /\ unfinished \in Nat /\ stop \in BOOLEAN /\ disabled \in BOOLEAN
      /\ dropped \in Nat /\ failed \in Nat /\ exported \in Nat /\ authFailures \in Nat
      /\ known \in SUBSET Runs /\ noted \in SUBSET Workflows
      /\ latest \in Nat /\ puts \in Nat /\ skipped \in Nat /\ emits \in Nat
  BY DEF Init
<1>6. QED
  BY <1>2, <1>3, <1>4, <1>5 DEF TypeOK

LEMMA StepTypes == TypeOK /\ Unfinished /\ [Next]_vars => TypeOK'
<1> SUFFICES ASSUME TypeOK, Unfinished, [Next]_vars PROVE TypeOK'
  OBVIOUS
<1> USE DEF counters, service
<1>1. CASE UNCHANGED vars
  BY <1>1 DEF TypeOK, vars
<1>2. ASSUME NEW t \in Threads, Emit(t) PROVE TypeOK'
  BY <1>2, GotoTypes DEF TypeOK, Emit, ThreadAt
<1>3. ASSUME NEW t \in Threads, NEW e \in Events, Put(t, e) PROVE TypeOK'
  BY <1>3, GotoTypes, EnqueueTypes DEF TypeOK, Put, ThreadAt
<1>4. ASSUME NEW t \in Threads, Drop(t) PROVE TypeOK'
  BY <1>4, GotoTypes DEF TypeOK, Drop, ThreadAt
<1>5. ASSUME NEW t \in Threads, Flush(t) PROVE TypeOK'
  BY <1>5, GotoTypes DEF TypeOK, Flush, ThreadAt
<1>6. ASSUME NEW t \in Threads, Join(t) PROVE TypeOK'
  BY <1>6, GotoTypes DEF TypeOK, Join, ThreadAt
<1>7. ASSUME NEW t \in Threads, FlushReturn(t) PROVE TypeOK'
  BY <1>7, GotoTypes DEF TypeOK, FlushReturn, ThreadAt
<1>8. ASSUME NEW t \in Threads, Close(t) PROVE TypeOK'
  BY <1>8, GotoTypes DEF TypeOK, Close, ThreadAt
<1>9. ASSUME NEW t \in Threads, PutNone(t) PROVE TypeOK'
  BY <1>9, GotoTypes, EnqueueTypes DEF TypeOK, PutNone, ThreadAt
<1>10. CASE LoopTest
  BY <1>10, MoveTypes DEF TypeOK, LoopTest, WorkerAt, Worker
<1>11. CASE Get
  <2>1. /\ Head(queue) \in Item /\ Tail(queue) \in Seq(Item)
        /\ Len(Tail(queue)) <= MaxItems
    BY <1>11, TailFacts, SinkAssumption DEF TypeOK, Get, Take
  <2>2. worker' \in Worker /\ (worker'.at = "map" => worker'.item.event \in Events)
    BY <1>11, <2>1, SinkAssumption DEF Get, Take, Worker, WorkerAt, Item
  <2>3. skipped' \in Nat
    BY <1>11 DEF TypeOK, Get, Take
  <2>4. QED
    BY <1>11, <2>1, <2>2, <2>3 DEF TypeOK, Get, Take, Worker
<1>12. CASE TaskDone
  <2>1. worker' \in Worker /\ worker'.at # "map"
    BY <1>12, SinkAssumption DEF TaskDone, Worker, WorkerAt, NoItem, Item
  <2>2. unfinished' \in Nat
    BY <1>12 DEF TypeOK, Unfinished, TaskDone
  <2>3. QED
    BY <1>12, <2>1, <2>2 DEF TypeOK, TaskDone
<1> DEFINE e == worker.item.event
<1>13. ASSUME Mapping
       PROVE  e \in Event /\ ItemEvent = e /\ Root(e) \in Runs /\ Child(e) \in Runs
  BY <1>13, RunOf, SinkAssumption DEF TypeOK, Mapping, ItemEvent
<1>14. ASSUME NEW r \in Runs, Mapping, CreateRun(r)
       PROVE  /\ latest' \in Nat /\ noted' \in SUBSET Workflows
              /\ created' \in [Runs -> Nat] /\ known' \in SUBSET Runs
  BY <1>14, HeardTypes DEF TypeOK, Mapping, CreateRun, Creates
<1>15. ASSUME Exported
       PROVE  worker' \in Worker /\ worker'.at # "map" /\ exported' \in Nat
  BY <1>15, MoveTypes DEF TypeOK, Exported, WorkerAt
<1>16. CASE CreateRoot
  BY <1>16, <1>13, <1>14 DEF TypeOK, CreateRoot, CreateRun
<1>17. CASE CreateChild
  BY <1>17, <1>13, <1>14, <1>15 DEF TypeOK, CreateChild, CreateRun, Exported
<1>18. CASE Note
  BY <1>18, <1>15, HeardTypes DEF TypeOK, Note, Exported, Mapping
<1>19. CASE NothingToCall
  BY <1>19, <1>15 DEF TypeOK, NothingToCall, Exported
<1>20. CASE CallFails
  BY <1>20, RaisedTypes DEF TypeOK, CallFails, Calling, Mapping, Raised
<1>21. CASE ReplyLost
  <2>1. Needed \in Runs
    BY <1>21, <1>13 DEF ReplyLost, Calling, Needed
  <2>2. created' \in [Runs -> Nat] /\ lost' \in [Runs -> Nat]
    <3>1. CASE NeedsRoot \/ NeedsChild
      <4>1. /\ created' = [created EXCEPT ![Needed] = @ + 1]
            /\ lost' = [lost EXCEPT ![Needed] = @ + 1]
        BY <1>21, <3>1 DEF ReplyLost, Creates
      <4>2. QED
        BY <2>1, <4>1 DEF TypeOK
    <3>2. CASE ~(NeedsRoot \/ NeedsChild)
      BY <1>21, <3>2 DEF TypeOK, ReplyLost
    <3>3. QED
      BY <3>1, <3>2
  <2>3. QED
    BY <1>21, <2>2, RaisedTypes, HeardTypes DEF TypeOK, ReplyLost, Calling, Mapping, Raised
<1>22. CASE AuthFails
  BY <1>22, MoveTypes DEF TypeOK, AuthFails, WorkerAt
<1>23. QED
  BY <1>1, <1>2, <1>3, <1>4, <1>5, <1>6, <1>7, <1>8, <1>9, <1>10, <1>11, <1>12,
     <1>16, <1>17, <1>18, <1>19, <1>20, <1>21, <1>22
     DEF Next, Drain, Export, Logging, Flushing, Closing
-----------------------------------------------------------------------------
(***************************************************************************)
(* The accounts: unfinished tasks, and what became of every item.          *)
(***************************************************************************)
Accounts == Unfinished /\ EveryItemCountedOnce

\* Putting counts the item as unfinished and as waiting.
LEMMA EnqueueAccounts ==
  ASSUME TypeOK, Accounts, NEW x \in Events \cup {None}, Enqueue(x),
         UNCHANGED <<worker, counters, skipped>>
  PROVE  Accounts'
<1>1. [id |-> puts + 1, event |-> x] \in Item
  BY DEF TypeOK, Item
<1>2. Len(queue') = Len(queue) + 1 /\ Len(queue) \in Nat
  BY <1>1, AppendFacts DEF TypeOK, Enqueue
<1>3. puts' = puts + 1 /\ unfinished' = unfinished + 1 /\ puts \in Nat /\ unfinished \in Nat
  BY DEF TypeOK, Enqueue
<1>4. Unfinished'
  BY <1>2, <1>3 DEF Accounts, Unfinished
<1>5. EveryItemCountedOnce'
  <2>1. Held' = Held /\ Held \in Nat
    BY DEF Held
  <2>2. QED
    BY <1>2, <1>3, <2>1 DEF TypeOK, Accounts, EveryItemCountedOnce, counters
<1>6. QED
  BY <1>4, <1>5 DEF Accounts

\* An export that ends moves the item to one counter.
LEMMA EndAccounts ==
  ASSUME TypeOK, Accounts, worker.at = "map", To("done"),
         UNCHANGED <<queue, unfinished, puts, skipped>>,
         \/ exported' = exported + 1 /\ UNCHANGED <<failed, authFailures>>
         \/ failed' = failed + 1 /\ UNCHANGED <<exported, authFailures>>
         \/ authFailures' = authFailures + 1 /\ UNCHANGED <<exported, failed>>
  PROVE  Accounts'
<1>1. worker'.at = "done" /\ Len(queue) \in Nat
  BY DEF TypeOK, To, Worker
<1>2. Unfinished'
  BY <1>1 DEF Accounts, Unfinished
<1>3. EveryItemCountedOnce'
  <2>1. Held = 1 /\ Held' = 0
    BY <1>1 DEF Held
  <2>2. QED
    BY <1>1, <2>1 DEF TypeOK, Accounts, EveryItemCountedOnce
<1>4. QED
  BY <1>2, <1>3 DEF Accounts

LEMMA SameAccounts ==
  ASSUME Accounts, worker'.at = worker.at, UNCHANGED <<queue, unfinished, puts, skipped>>,
         UNCHANGED <<exported, failed, authFailures>>
  PROVE  Accounts'
  BY DEF Accounts, Unfinished, EveryItemCountedOnce, Held

LEMMA RaisedAccounts ==
  ASSUME TypeOK, Accounts, Calling, Raised
  PROVE  Accounts'
<1>1. CASE TryAgain
  <2>1. worker'.at = worker.at
    BY <1>1 DEF TypeOK, Worker, TryAgain
  <2>2. QED
    BY <1>1, <2>1, SameAccounts DEF TryAgain, Raised
<1>2. CASE GiveUp
  BY <1>2, EndAccounts DEF Calling, Mapping, GiveUp, Raised
<1>3. QED
  BY <1>1, <1>2 DEF Raised

LEMMA StepAccounts == TypeOK /\ Accounts /\ [Next]_vars => Accounts'
<1> SUFFICES ASSUME TypeOK, Accounts, [Next]_vars PROVE Accounts'
  OBVIOUS
<1> USE DEF counters, service
<1>1. CASE UNCHANGED vars
  BY <1>1, SameAccounts DEF vars
<1>2. ASSUME NEW t \in Threads,
             \/ Emit(t) \/ Drop(t) \/ Flush(t) \/ Join(t) \/ FlushReturn(t) \/ Close(t)
      PROVE  Accounts'
  BY <1>2, SameAccounts DEF Emit, Drop, Flush, Join, FlushReturn, Close
<1>3. ASSUME NEW t \in Threads, NEW e \in Events, Put(t, e) PROVE Accounts'
  BY <1>3, EnqueueAccounts DEF Put
<1>4. ASSUME NEW t \in Threads, PutNone(t) PROVE Accounts'
  BY <1>4, EnqueueAccounts DEF PutNone
<1>5. CASE LoopTest
  <2>1. worker.at = "test" /\ worker'.at \in {"exited", "get"}
    BY <1>5 DEF TypeOK, Worker, LoopTest, To
  <2>2. QED
    BY <1>5, <2>1 DEF LoopTest, Accounts, Unfinished, EveryItemCountedOnce, Held
<1>6. CASE Get
  <2>1. Len(queue') = Len(queue) - 1 /\ Len(queue) \in Nat
    BY <1>6, TailFacts DEF TypeOK, Get, Take
  <2>2. /\ worker.at = "get" /\ worker'.at \in {"map", "done", "return"}
        /\ skipped' = skipped + (IF worker'.at = "map" THEN 0 ELSE 1)
    BY <1>6 DEF TypeOK, Get, Take
  <2>3. Unfinished'
    BY <1>6, <2>1, <2>2 DEF TypeOK, Get, Take, Accounts, Unfinished
  <2>4. EveryItemCountedOnce'
    <3>1. Held = 0 /\ Held' = (IF worker'.at = "map" THEN 1 ELSE 0)
      BY <2>2 DEF Held
    <3>2. puts' = puts /\ UNCHANGED <<exported, failed, authFailures>>
      BY <1>6 DEF Get, Take
    <3>3. QED
      BY <2>1, <2>2, <3>1, <3>2 DEF TypeOK, Accounts, EveryItemCountedOnce
  <2>5. QED
    BY <2>3, <2>4 DEF Accounts
<1>7. CASE TaskDone
  <2>1. worker.at \in {"done", "return"} /\ worker'.at \in {"exited", "test"}
    BY <1>7 DEF TaskDone
  <2>2. QED
    BY <1>7, <2>1 DEF TypeOK, TaskDone, Accounts, Unfinished, EveryItemCountedOnce, Held
<1>8. CASE CreateRoot
  BY <1>8, SameAccounts DEF CreateRoot
<1>9. CASE CreateChild \/ Note \/ NothingToCall
  BY <1>9, EndAccounts DEF CreateChild, Note, NothingToCall, Exported, Mapping
<1>10. CASE CallFails \/ ReplyLost
  BY <1>10, RaisedAccounts DEF CallFails, ReplyLost
<1>11. CASE AuthFails
  BY <1>11, EndAccounts DEF AuthFails, Calling, Mapping
<1>12. QED
  BY <1>1, <1>2, <1>3, <1>4, <1>5, <1>6, <1>7, <1>8, <1>9, <1>10, <1>11
     DEF Next, Drain, Export, Logging, Flushing, Closing
-----------------------------------------------------------------------------
(***************************************************************************)
(* The numbering: first in, first out, and what a flush has waited for.    *)
(***************************************************************************)
InOrder == Numbered /\ FlushMeansDone

LEMMA EnqueueInOrder ==
  ASSUME TypeOK, InOrder, NEW x \in Events \cup {None}, NEW t \in Threads,
         Enqueue(x), Goto(t, "idle"), UNCHANGED <<worker, latest, mark>>
  PROVE  InOrder'
<1> DEFINE n == Len(queue)
<1>1. [id |-> puts + 1, event |-> x] \in Item
  BY DEF TypeOK, Item
<1>2. /\ Len(queue') = n + 1 /\ n \in Nat
      /\ \A i \in 1 .. n : queue'[i] = queue[i]
      /\ queue'[n + 1].id = puts + 1
  BY <1>1, AppendFacts DEF TypeOK, Enqueue
<1>3. \A i \in 1 .. n : queue[i].id \in Nat
  BY QueueIds
<1>4. puts' = puts + 1 /\ puts \in Nat /\ latest \in Nat
      /\ (\A u \in Threads : mark[u] \in Nat) /\ worker.item.id \in Nat
  BY DEF TypeOK, Enqueue, Worker, Item
<1> HIDE DEF n
<1>5. Numbered'
  <2>1. \A i \in 1 .. n + 1 : latest < queue'[i].id /\ queue'[i].id <= puts + 1
    BY <1>2, <1>3, <1>4 DEF InOrder, Numbered, n
  <2>2. \A i, j \in 1 .. n + 1 : i < j => queue'[i].id < queue'[j].id
    <3> SUFFICES ASSUME NEW i \in 1 .. n + 1, NEW j \in 1 .. n + 1, i < j
                 PROVE  queue'[i].id < queue'[j].id
      OBVIOUS
    <3>1. i \in 1 .. n /\ queue[i].id <= puts
      BY <1>2 DEF InOrder, Numbered, n
    <3>2. CASE j \in 1 .. n
      BY <3>1, <3>2, <1>2 DEF InOrder, Numbered, n
    <3>3. CASE j = n + 1
      BY <3>1, <3>3, <1>2, <1>3, <1>4
    <3>4. QED
      BY <3>2, <3>3, <1>2
  <2>3. worker.at = "map" =>
          /\ latest <= worker.item.id /\ worker.item.id <= puts + 1
          /\ \A i \in 1 .. n + 1 : worker.item.id < queue'[i].id
    BY <1>2, <1>3, <1>4 DEF InOrder, Numbered, n
  <2>4. latest <= puts + 1 /\ \A u \in Threads : mark[u] <= puts + 1
    BY <1>4 DEF InOrder, Numbered
  <2>5. QED
    BY <1>2, <1>4, <2>1, <2>2, <2>3, <2>4 DEF Numbered
<1>6. FlushMeansDone'
  <2> SUFFICES ASSUME NEW u \in Threads, pc'[u] = "joined"
               PROVE  /\ \A i \in 1 .. n + 1 : queue'[i].id > mark[u]
                      /\ Held = 1 => worker.item.id > mark[u]
    BY <1>2 DEF FlushMeansDone, Held
  <2>1. pc[u] = "joined"
    BY DEF TypeOK, Goto
  <2>2. (\A i \in 1 .. n : queue[i].id > mark[u]) /\ (Held = 1 => worker.item.id > mark[u])
    BY <2>1 DEF InOrder, FlushMeansDone, n
  <2>3. puts + 1 > mark[u]
    BY <1>4 DEF InOrder, Numbered
  <2>4. QED
    BY <1>2, <2>2, <2>3
<1>7. QED
  BY <1>5, <1>6 DEF InOrder

\* Steps that leave the items alone, or take the worker's from its hands, and
\* let the service hear of it at most.
LEMMA QuietInOrder ==
  ASSUME TypeOK, InOrder, UNCHANGED <<queue, puts, mark, pc>>,
         worker'.at = "map" => worker.at = "map" /\ worker'.item = worker.item,
         \/ latest' = latest
         \/ worker.at = "map" /\ latest' = worker.item.id
  PROVE  InOrder'
<1>1. latest' <= puts /\ \A i \in 1 .. Len(queue) : latest' < queue[i].id
  BY DEF InOrder, Numbered
<1>2. worker'.at = "map" => latest' <= worker'.item.id
  BY DEF TypeOK, Worker, Item, InOrder, Numbered
<1>3. Numbered'
  BY <1>1, <1>2 DEF InOrder, Numbered
<1>4. Held' = 1 => Held = 1 /\ worker'.item = worker.item
  BY DEF Held
<1>5. FlushMeansDone'
  BY <1>4 DEF InOrder, FlushMeansDone
<1>6. QED
  BY <1>3, <1>5 DEF InOrder

LEMMA RaisedWorker ==
  ASSUME TypeOK, Calling, Raised
  PROVE  /\ worker'.at = "map" => worker.at = "map" /\ worker'.item = worker.item
         /\ UNCHANGED queue
  BY DEF TypeOK, Worker, Calling, Mapping, Raised, TryAgain, GiveUp, To

LEMMA TakeInOrder ==
  ASSUME TypeOK, InOrder, Get
  PROVE  InOrder'
<1> DEFINE n == Len(queue)
<1>1. /\ queue' = Tail(queue) /\ UNCHANGED <<puts, mark, pc, latest>>
      /\ worker'.item = queue[1] /\ n \in Nat \ {0} /\ Len(queue') = n - 1
      /\ \A i \in 1 .. n - 1 : queue'[i] = queue[i + 1]
  BY TailFacts DEF TypeOK, Get, Take, service
<1>2. 1 \in 1 .. n /\ \A i \in 1 .. n - 1 : i + 1 \in 1 .. n /\ 1 < i + 1
  BY <1>1
<1>3. Numbered'
  <2>1. /\ latest <= queue[1].id /\ queue[1].id <= puts
        /\ \A i \in 1 .. n - 1 : queue[1].id < queue'[i].id
    <3>1. queue[1].id \in Nat /\ latest \in Nat
      BY <1>2, QueueIds DEF TypeOK
    <3>2. latest < queue[1].id /\ queue[1].id <= puts
      BY <1>2 DEF InOrder, Numbered
    <3>3. \A i \in 1 .. n - 1 : queue[1].id < queue[i + 1].id
      BY <1>2 DEF InOrder, Numbered
    <3>4. QED
      BY <1>1, <3>1, <3>2, <3>3
  <2>2. \A i \in 1 .. n - 1 : latest < queue'[i].id /\ queue'[i].id <= puts
    BY <1>1, <1>2 DEF InOrder, Numbered
  <2>3. \A i, j \in 1 .. n - 1 : i < j => queue'[i].id < queue'[j].id
    <3> SUFFICES ASSUME NEW i \in 1 .. n - 1, NEW j \in 1 .. n - 1, i < j
                 PROVE  queue[i + 1].id < queue[j + 1].id
      BY <1>1
    <3>1. i + 1 \in 1 .. n /\ j + 1 \in 1 .. n /\ i + 1 < j + 1
      BY <1>1
    <3>2. QED
      BY <3>1 DEF InOrder, Numbered
  <2>4. QED
    BY <1>1, <2>1, <2>2, <2>3 DEF InOrder, Numbered
<1>4. FlushMeansDone'
  <2> SUFFICES ASSUME NEW t \in Threads, pc[t] = "joined"
               PROVE  /\ \A i \in 1 .. n - 1 : queue'[i].id > mark[t]
                      /\ queue[1].id > mark[t]
    BY <1>1 DEF FlushMeansDone
  <2>1. \A i \in 1 .. n : queue[i].id > mark[t]
    BY DEF InOrder, FlushMeansDone
  <2>2. QED
    BY <1>1, <1>2, <2>1
<1>5. QED
  BY <1>3, <1>4 DEF InOrder

LEMMA StepInOrder == TypeOK /\ InOrder /\ Accounts /\ [Next]_vars => InOrder'
<1> SUFFICES ASSUME TypeOK, InOrder, Accounts, [Next]_vars PROVE InOrder'
  OBVIOUS
<1> USE DEF counters, service
<1>1. CASE UNCHANGED vars
  BY <1>1, QuietInOrder DEF vars
<1>2. ASSUME NEW t \in Threads, Emit(t) \/ Drop(t) \/ Close(t) PROVE InOrder'
  <2>1. /\ UNCHANGED <<queue, puts, mark, worker, latest>>
        /\ \A u \in Threads : pc'[u] = "joined" => pc[u] = "joined"
    BY <1>2 DEF TypeOK, Emit, Drop, Close, Goto
  <2>2. QED
    BY <2>1 DEF InOrder, Numbered, FlushMeansDone, Held
<1>3. ASSUME NEW t \in Threads, Flush(t) \/ FlushReturn(t) PROVE InOrder'
  <2>1. /\ UNCHANGED <<queue, puts, worker, latest>>
        /\ \A u \in Threads :
             /\ mark'[u] <= puts
             /\ pc'[u] = "joined" => pc[u] = "joined" /\ mark'[u] = mark[u]
    BY <1>3 DEF TypeOK, InOrder, Numbered, Flush, FlushReturn, Goto
  <2>2. QED
    BY <2>1 DEF InOrder, Numbered, FlushMeansDone, Held
\* At the join nothing is waiting or held.
<1>4. ASSUME NEW t \in Threads, Join(t) PROVE InOrder'
  <2>1. Len(queue) = 0 /\ Held = 0
    BY <1>4 DEF TypeOK, Join, Accounts, Unfinished, Held
  <2>2. UNCHANGED <<queue, puts, mark, worker, latest>>
    BY <1>4 DEF Join
  <2>3. QED
    BY <2>1, <2>2 DEF InOrder, Numbered, FlushMeansDone, Held
<1>5. ASSUME NEW t \in Threads, NEW e \in Events, Put(t, e) PROVE InOrder'
  BY <1>5, EnqueueInOrder DEF Put
<1>6. ASSUME NEW t \in Threads, PutNone(t) PROVE InOrder'
  BY <1>6, EnqueueInOrder DEF PutNone
<1>7. CASE Get
  BY <1>7, TakeInOrder
<1>8. CASE LoopTest \/ TaskDone \/ AuthFails
  <2>1. worker'.at # "map"
    BY <1>8 DEF TypeOK, Worker, LoopTest, TaskDone, AuthFails, To
  <2>2. QED
    BY <1>8, <2>1, QuietInOrder DEF LoopTest, TaskDone, AuthFails
<1>9. CASE CreateRoot
  BY <1>9, QuietInOrder DEF CreateRoot, CreateRun, Heard, Mapping
<1>10. CASE CreateChild \/ Note \/ NothingToCall
  <2>1. worker'.at # "map"
    BY <1>10 DEF TypeOK, Worker, CreateChild, Note, NothingToCall, Exported, To
  <2>2. QED
    BY <1>10, <2>1, QuietInOrder
       DEF CreateChild, Note, NothingToCall, Exported, CreateRun, Heard, Mapping
<1>11. CASE CallFails \/ ReplyLost
  <2>1. latest' = latest \/ (worker.at = "map" /\ latest' = worker.item.id)
    BY <1>11 DEF CallFails, ReplyLost, Heard, Calling, Mapping
  <2>2. QED
    BY <1>11, <2>1, RaisedWorker, QuietInOrder DEF CallFails, ReplyLost, Raised
<1>12. QED
  BY <1>1, <1>2, <1>3, <1>4, <1>5, <1>6, <1>7, <1>8, <1>9, <1>10, <1>11
     DEF Next, Drain, Export, Logging, Flushing, Closing
-----------------------------------------------------------------------------
(***************************************************************************)
(* What the service knows.                                                 *)
(***************************************************************************)
LEMMA RunsDiffer ==
  /\ \A w \in Workflows : <<w>> \in Runs
  /\ \A w \in Workflows, s \in Steps : <<w, s>> \in Runs
  /\ \A w, v, s : <<w>> # <<v, s>>
  BY DEF Runs

\* One more creation of a run the mapping may create now.
LEMMA CreatesKnown ==
  ASSUME TypeOK, Known, Mapping, NEW r \in Runs, Creates(r),
         known \subseteq known', known' \subseteq known \cup {r},
         \/ r \in known' /\ r \notin known /\ lost' = lost
         \/ known' = known /\ lost' = [lost EXCEPT ![r] = @ + 1],
         \A w \in noted' : <<w>> \in known',
         \A w \in Workflows, s \in Steps : r = <<w, s>> => <<w>> \in known
  PROVE  Known'
<1>1. \A q \in Runs : created'[q] = created[q] + (IF q = r THEN 1 ELSE 0) /\ created[q] \in Nat
  BY DEF TypeOK, Creates
<1>2. \A q \in known' : created'[q] > 0
  <2> SUFFICES ASSUME NEW q \in known' PROVE created'[q] > 0
    OBVIOUS
  <2>1. q \in Runs
    BY DEF TypeOK
  <2>2. CASE q = r
    BY <1>1, <2>2
  <2>3. CASE q # r
    <3>1. created[q] > 0
      BY <2>3 DEF Known
    <3>2. QED
      BY <1>1, <2>1, <3>1
  <2>4. QED
    BY <2>2, <2>3
<1>3. \A q \in Runs : created'[q] <= lost'[q] + (IF q \in known' THEN 1 ELSE 0)
  <2> SUFFICES ASSUME NEW q \in Runs
               PROVE  created'[q] <= lost'[q] + (IF q \in known' THEN 1 ELSE 0)
    OBVIOUS
  <2>1. created[q] <= lost[q] + (IF q \in known THEN 1 ELSE 0)
    BY DEF Known
  <2>2. lost[q] \in Nat /\ lost'[q] \in Nat
    BY DEF TypeOK
  <2>3. CASE q = r
    BY <1>1, <2>1, <2>2, <2>3 DEF TypeOK
  <2>4. CASE q # r
    BY <1>1, <2>1, <2>2, <2>4 DEF TypeOK
  <2>5. QED
    BY <2>3, <2>4
<1>4. \A w \in Workflows, s \in Steps : created'[<<w, s>>] > 0 => <<w>> \in known'
  BY <1>1, RunsDiffer DEF Known
<1>5. QED
  BY <1>2, <1>3, <1>4 DEF Known

\* What a call of the client needs created and finds created.
LEMMA NeedsKnown ==
  ASSUME TypeOK, Mapping
  PROVE  /\ Root(ItemEvent) \in Runs /\ Child(ItemEvent) \in Runs
         /\ Root(ItemEvent) = <<ItemEvent.workflow>>
         /\ \A w, s : Root(ItemEvent) # <<w, s>>
         /\ ~NeedsRoot /\ (NeedsChild \/ NeedsNote) =>
              /\ <<ItemEvent.workflow>> \in known
              /\ \A w, s : Child(ItemEvent) = <<w, s>> => <<w>> \in known
         /\ NeedsRoot => Root(ItemEvent) \notin known
         /\ NeedsChild => Child(ItemEvent) \notin known
<1>1. ItemEvent \in Event
  BY SinkAssumption DEF TypeOK, Mapping, ItemEvent
<1>2. QED
  BY <1>1, RunOf DEF NeedsRoot, NeedsChild, NeedsNote, Root, Child

LEMMA StepKnownRuns == TypeOK /\ Known /\ [Next]_vars => Known'
<1> SUFFICES ASSUME TypeOK, Known, [Next]_vars PROVE Known'
  OBVIOUS
<1> USE DEF counters, service
<1>1. ASSUME UNCHANGED <<created, lost, noted, known>> PROVE Known'
  BY <1>1 DEF Known
<1>2. CASE UNCHANGED vars
  BY <1>1, <1>2 DEF vars
<1>3. ASSUME NEW t \in Threads, Logging(t) \/ Flushing(t) \/ Closing(t) PROVE Known'
  BY <1>1, <1>3 DEF Logging, Flushing, Closing, Emit, Put, Drop, Flush, Join, FlushReturn,
                    Close, PutNone
<1>4. CASE LoopTest \/ Get \/ TaskDone \/ NothingToCall \/ CallFails \/ AuthFails
  BY <1>1, <1>4 DEF LoopTest, Get, Take, TaskDone, NothingToCall, CallFails, AuthFails
<1>5. CASE CreateRoot
  <2>1. noted' = noted
    BY <1>5 DEF CreateRoot, CreateRun, Heard
  <2>2. QED
    BY <1>5, <2>1, NeedsKnown, CreatesKnown DEF CreateRoot, CreateRun, Known
<1>6. CASE CreateChild
  <2>1. noted' = noted \cup {ItemEvent.workflow}
    BY <1>6 DEF CreateChild, CreateRun, Heard
  <2>2. \A w \in noted' : <<w>> \in known
    BY <1>6, <2>1, NeedsKnown DEF CreateChild, Known
  <2>3. QED
    BY <1>6, <2>2, NeedsKnown, CreatesKnown DEF CreateChild, CreateRun
<1>7. CASE Note
  <2>1. \A w \in noted' : <<w>> \in known
    BY <1>7, NeedsKnown DEF Note, Heard, Known
  <2>2. UNCHANGED <<created, lost, known>>
    BY <1>7 DEF Note
  <2>3. QED
    BY <2>1, <2>2 DEF Known
<1>8. CASE ReplyLost
  <2>1. \A w \in noted' : <<w>> \in known
    BY <1>8, NeedsKnown DEF ReplyLost, Calling, Heard, Known
  <2>2. CASE NeedsRoot \/ NeedsChild
    <3>1. Needed \in Runs /\ \A w, s : Needed = <<w, s>> => <<w>> \in known
      BY <1>8, <2>2, NeedsKnown DEF ReplyLost, Calling, Needed
    <3>2. QED
      BY <1>8, <2>1, <2>2, <3>1, CreatesKnown DEF ReplyLost, Calling
  <2>3. CASE ~(NeedsRoot \/ NeedsChild)
    BY <1>8, <2>1, <2>3 DEF ReplyLost, Known
  <2>4. QED
    BY <2>2, <2>3
<1>9. QED
  BY <1>2, <1>3, <1>4, <1>5, <1>6, <1>7, <1>8 DEF Next, Drain, Export
-----------------------------------------------------------------------------
(***************************************************************************)
(* The theorems.                                                           *)
(***************************************************************************)
Parts == TypeOK /\ Accounts /\ InOrder /\ Known /\ (disabled => worker.at # "map")

LEMMA PartsAreTheInvariant == Parts <=> SinkInv
  BY DEF Parts, SinkInv, Accounts, InOrder

LEMMA InitParts == Init => Parts
<1> SUFFICES ASSUME Init PROVE Parts
  OBVIOUS
<1>1. TypeOK
  BY InitTypes
<1>2. Len(queue) = 0 /\ worker.at = "test"
  BY DEF Init
<1>3. Accounts
  BY <1>2 DEF Init, Accounts, Unfinished, EveryItemCountedOnce, Held
<1>4. InOrder
  BY <1>2 DEF Init, InOrder, Numbered, FlushMeansDone
<1>5. Known
  BY RunsDiffer DEF Init, Known
<1>6. QED
  BY <1>1, <1>2, <1>3, <1>4, <1>5 DEF Init, Parts

\* Only the worker sets _disabled, when its call has failed for good, and it
\* maps no event afterwards.
LEMMA StepDisabled ==
  ASSUME TypeOK, disabled => worker.at # "map", [Next]_vars
  PROVE  (disabled => worker.at # "map")'
<1> USE DEF counters, service
<1>1. CASE UNCHANGED <<worker, disabled>>
  BY <1>1
<1>2. CASE LoopTest \/ Get \/ TaskDone \/ AuthFails
  <2>1. CASE LoopTest \/ AuthFails
    BY <2>1 DEF TypeOK, Worker, LoopTest, AuthFails, To
  <2>2. CASE Get
    BY <2>2 DEF Get, Take
  <2>3. CASE TaskDone
    BY <2>3 DEF TaskDone
  <2>4. QED
    BY <1>2, <2>1, <2>2, <2>3
<1>3. CASE CreateRoot
  BY <1>3 DEF CreateRoot
<1>4. CASE CreateChild \/ Note \/ NothingToCall
  BY <1>4 DEF TypeOK, Worker, CreateChild, Note, NothingToCall, Exported, To
<1>5. CASE CallFails \/ ReplyLost
  <2>1. worker.at = "map" /\ disabled' = disabled
    BY <1>5 DEF CallFails, ReplyLost, Calling, Mapping, Raised
  <2>2. QED
    BY <2>1
<1>6. ASSUME NEW t \in Threads, Logging(t) \/ Flushing(t) \/ Closing(t)
      PROVE  UNCHANGED <<worker, disabled>>
  BY <1>6 DEF Logging, Flushing, Closing, Emit, Put, Drop, Flush, Join, FlushReturn,
              Close, PutNone
<1>7. CASE UNCHANGED vars
  BY <1>1, <1>7 DEF vars
<1>8. QED
  BY <1>1, <1>2, <1>3, <1>4, <1>5, <1>6, <1>7 DEF Next, Drain, Export

\* The types of the sink, and what its threads rely on: SinkInv holds of every
\* state of the sink.
THEOREM SinkSafe == Spec => []SinkInv
<1>1. Init => Parts
  BY InitParts
<1>2. Parts /\ [Next]_vars => Parts'
  BY StepTypes, StepAccounts, StepInOrder, StepKnownRuns, StepDisabled DEF Parts, Accounts
<1>3. QED
  BY <1>1, <1>2, PartsAreTheInvariant, PTL DEF Spec

\* No event is counted twice and none is lost without being waiting, held or
\* skipped, for any number of threads, any capacity and any client.
THEOREM Accounted == Spec => []EveryItemCountedOnce
<1>1. SinkInv => EveryItemCountedOnce
  BY DEF SinkInv
<1>2. QED
  BY <1>1, SinkSafe, PTL

\* What flush() returns after has been dealt with.
THEOREM FlushedIsDone == Spec => []FlushMeansDone
<1>1. SinkInv => FlushMeansDone
  BY DEF SinkInv
<1>2. QED
  BY <1>1, SinkSafe, PTL

\* The bookkeeping of runs: no run is created again without a lost reply, and
\* nothing reaches the service before the root run it belongs to.
THEOREM RunsBookkept == Spec => []RunsKept
<1>1. SinkInv => CreatedOncePerReply
  <2> SUFFICES ASSUME SinkInv, NEW r \in Runs PROVE created[r] <= 1 + lost[r]
    BY DEF CreatedOncePerReply
  <2>1. created[r] \in Nat /\ lost[r] \in Nat
    BY DEF SinkInv, TypeOK
  <2>2. QED
    BY <2>1 DEF SinkInv, Known
<1>2. SinkInv => RootFirst
  BY DEF SinkInv, Known, RootFirst
<1>3. SinkInv => RunsKept
  BY <1>1, <1>2 DEF RunsKept
<1>4. QED
  BY <1>3, SinkSafe, PTL

LEMMA ServiceMoves ==
  ASSUME [Next]_vars
  PROVE  UNCHANGED service \/ (worker.at = "map" /\ (latest' = latest \/ latest' = worker.item.id))
<1> USE DEF counters, service
<1>1. CASE UNCHANGED vars
  BY <1>1 DEF vars
<1>2. CASE LoopTest \/ Get \/ TaskDone
  BY <1>2 DEF LoopTest, Get, Take, TaskDone
<1>3. CASE Export
  BY <1>3 DEF Export, CreateRoot, CreateChild, Note, NothingToCall, CallFails, ReplyLost,
              AuthFails, Calling, CreateRun, Heard, Mapping
<1>4. ASSUME NEW t \in Threads, Logging(t) \/ Flushing(t) \/ Closing(t)
      PROVE  UNCHANGED service
  BY <1>4 DEF Logging, Flushing, Closing, Emit, Put, Drop, Flush, Join, FlushReturn,
              Close, PutNone
<1>5. QED
  BY <1>1, <1>2, <1>3, <1>4 DEF Next, Drain

\* Whatever is retried, the service hears of events in the order of the queue.
THEOREM InQueueOrder == Spec => HeardInOrder
<1>1. SinkInv /\ [Next]_vars => [latest' >= latest]_vars
  <2> SUFFICES ASSUME SinkInv, [Next]_vars PROVE latest' >= latest
    OBVIOUS
  <2>1. latest \in Nat /\ (worker.at = "map" => latest <= worker.item.id)
    BY DEF SinkInv, TypeOK, Numbered
  <2>2. worker.item.id \in Nat
    BY DEF SinkInv, TypeOK, Worker, Item
  <2>3. QED
    BY <2>1, <2>2, ServiceMoves DEF service
<1>2. QED
  BY <1>1, SinkSafe, PTL DEF Spec, HeardInOrder

\* Once authentication has failed the service hears nothing more.
THEOREM AuthSilences == Spec => SilentAfterAuthFailure
<1>1. SinkInv /\ [Next]_vars => [disabled => UNCHANGED service]_vars
  BY ServiceMoves DEF SinkInv
<1>2. QED
  BY <1>1, SinkSafe, PTL DEF Spec, SilentAfterAuthFailure
=============================================================================
