--------------------------- MODULE LangSmithSink ---------------------------
(***************************************************************************)
(* The LangSmith telemetry sink (src/integrations/langsmith_adapter.py):   *)
(* program threads put events into a bounded queue, one worker thread      *)
(* takes them out and turns each into calls of the client, with retries.   *)
(*                                                                         *)
(* An action is what one thread does between two points where another can  *)
(* be seen: an operation of the queue (each holds its mutex), a read of    *)
(* _stop or _disabled, a call of the client.  The increment of a counter   *)
(* goes with the step before it (CPython switches threads only at calls    *)
(* and backward jumps).  Redaction and payloads are left out, the size     *)
(* check may reject any event, and back-off takes no time.                 *)
(***************************************************************************)
EXTENDS Integers, Sequences, FiniteSets

CONSTANTS
  Threads,      \* the program's threads that log, flush or close
  Workflows, Steps,
  Events,       \* the events they log
  None,         \* what close() puts
  MaxItems,     \* capacity of the queue
  MaxAttempts,  \* RETRY_MAX_ATTEMPTS
  MaxEmits,     \* bound: how many calls of emit() are explored
  MaxLost       \* bound: how often a create_run takes effect but raises, per run

\* "note": one log_event or update_run; "start": step_start; "bare": a step
\* event without a step name; "foreign": an event without a workflow id.
Event == [workflow: Workflows, step: Steps, kind: {"note", "start", "bare", "foreign"}]

ASSUME SinkAssumption ==
  /\ Events \subseteq Event /\ None \notin Event
  /\ MaxItems \in Nat \ {0}
  /\ MaxAttempts \in Nat \ {0}
  /\ MaxEmits \in Nat
  /\ MaxLost \in Nat

\* A run of the service: the root of a workflow, or the child of a step.
Root(e) == <<e.workflow>>
Child(e) == <<e.workflow, e.step>>
Runs == {<<w>> : w \in Workflows} \cup (Workflows \X Steps)

VARIABLES
  queue,        \* what _queue holds: [id, event], the id counting the puts
  unfinished,   \* _queue.unfinished_tasks
  stop,         \* _stop
  disabled,     \* _disabled
  dropped, failed, exported, authFailures,   \* the counters
  known,        \* _ExportState: root_created and child_created
  worker,       \* where the worker is, the item it holds, which attempt
  pc,           \* where each program thread is in emit, flush or close
  created,      \* service: how often it created each run
  noted,        \* service: the workflows with a child, an event or an update
  latest,       \* service: the id of the item it last heard of
  puts,         \* history: how many items were put
  skipped,      \* history: how many the worker took and counted nowhere
  emits,        \* history: calls of emit() that got past the first check
  lost,         \* history: how often create_run raised after creating, per run
  mark          \* history: puts when the thread's flush() began

counters == <<dropped, failed, exported, authFailures>>
service == <<created, noted, latest, lost>>
vars == <<queue, unfinished, stop, disabled, counters, known, worker, pc,
          service, puts, skipped, emits, mark>>

Item == [id: Nat, event: Events \cup {None}]
NoItem == [id |-> 0, event |-> None]

WorkerAt == {"test", "get", "map", "done", "return", "exited"}
Worker == [at: WorkerAt, item: Item, attempt: 0 .. MaxAttempts]
ThreadAt == {"idle", "emit", "join", "joined", "close"}
Idle(t) == pc[t] = "idle"

TypeOK ==
  /\ queue \in Seq(Item) /\ Len(queue) <= MaxItems
  /\ unfinished \in Nat
  /\ stop \in BOOLEAN /\ disabled \in BOOLEAN
  /\ dropped \in Nat /\ failed \in Nat /\ exported \in Nat /\ authFailures \in Nat
  /\ known \in SUBSET Runs
  /\ worker \in Worker
  /\ worker.at = "map" => worker.item.event \in Events
  /\ pc \in [Threads -> ThreadAt]
  /\ created \in [Runs -> Nat] /\ lost \in [Runs -> Nat]
  /\ noted \in SUBSET Workflows
  /\ latest \in Nat /\ puts \in Nat /\ skipped \in Nat /\ emits \in Nat
  /\ mark \in [Threads -> Nat]

Init ==
  /\ queue = <<>> /\ unfinished = 0
  /\ stop = FALSE /\ disabled = FALSE
  /\ dropped = 0 /\ failed = 0 /\ exported = 0 /\ authFailures = 0
  /\ known = {}
  /\ worker = [at |-> "test", item |-> NoItem, attempt |-> 0]
  /\ pc = [t \in Threads |-> "idle"]
  /\ created = [r \in Runs |-> 0] /\ lost = [r \in Runs |-> 0]
  /\ noted = {} /\ latest = 0
  /\ puts = 0 /\ skipped = 0 /\ emits = 0
  /\ mark = [t \in Threads |-> 0]

(***************************************************************************)
(* Program threads.                                                        *)
(***************************************************************************)
Goto(t, at) == pc' = [pc EXCEPT ![t] = at]

Full == Len(queue) >= MaxItems
Enqueue(x) ==
  /\ queue' = Append(queue, [id |-> puts + 1, event |-> x])
  /\ unfinished' = unfinished + 1
  /\ puts' = puts + 1

\* emit() returns at once when _disabled is set; otherwise it goes on to
\* redact, and the worker may set _disabled meanwhile.
Emit(t) ==
  /\ Idle(t) /\ ~disabled /\ emits < MaxEmits
  /\ Goto(t, "emit")
  /\ emits' = emits + 1
  /\ UNCHANGED <<queue, unfinished, stop, disabled, counters, known, worker,
                 service, puts, skipped, mark>>

Put(t, e) ==
  /\ pc[t] = "emit" /\ Goto(t, "idle")
  /\ ~Full /\ Enqueue(e)
  /\ UNCHANGED <<stop, disabled, counters, known, worker, service, skipped, emits, mark>>

\* An event that is too big, or for which there is no room.
Drop(t) ==
  /\ pc[t] = "emit" /\ Goto(t, "idle")
  /\ dropped' = dropped + 1
  /\ UNCHANGED <<queue, unfinished, stop, disabled, failed, exported, authFailures,
                 known, worker, service, puts, skipped, emits, mark>>

\* flush(): join() waits for no unfinished task, whatever its timeout.
Flush(t) ==
  /\ Idle(t) /\ Goto(t, "join")
  /\ mark' = [mark EXCEPT ![t] = puts]
  /\ UNCHANGED <<queue, unfinished, stop, disabled, counters, known, worker,
                 service, puts, skipped, emits>>

SlipJoin(t) ==
  /\ pc[t] = "join" /\ queue = <<>>
  /\ Goto(t, "joined")
  /\ UNCHANGED <<queue, unfinished, stop, disabled, counters, known, worker,
                 service, puts, skipped, emits, mark>>

Join(t) ==
  /\ pc[t] = "join" /\ unfinished = 0
  /\ Goto(t, "joined")
  /\ UNCHANGED <<queue, unfinished, stop, disabled, counters, known, worker,
                 service, puts, skipped, emits, mark>>

\* It returns whether there is an unfinished task by now, which changes
\* nothing.
FlushReturn(t) ==
  /\ pc[t] = "joined" /\ Goto(t, "idle")
  /\ mark' = [mark EXCEPT ![t] = 0]
  /\ UNCHANGED <<queue, unfinished, stop, disabled, counters, known, worker,
                 service, puts, skipped, emits>>

\* close(): sets _stop, then a put() that waits for room.
Close(t) ==
  /\ Idle(t) /\ Goto(t, "close")
  /\ stop' = TRUE
  /\ UNCHANGED <<queue, unfinished, disabled, counters, known, worker,
                 service, puts, skipped, emits, mark>>

SlipPutNone(t) ==
  /\ pc[t] = "close" /\ Goto(t, "idle")
  /\ UNCHANGED <<queue, unfinished, stop, disabled, counters, known, worker,
                 service, puts, skipped, emits, mark>>

PutNone(t) ==
  /\ pc[t] = "close" /\ Goto(t, "idle")
  /\ ~Full /\ Enqueue(None)
  /\ UNCHANGED <<stop, disabled, counters, known, worker, service, skipped, emits, mark>>

(***************************************************************************)
(* The worker thread: _drain and _export_with_retry.                       *)
(***************************************************************************)
To(at) == worker' = [worker EXCEPT !.at = at]

LoopTest ==
  /\ worker.at = "test"
  /\ To(IF stop THEN "exited" ELSE "get")
  /\ UNCHANGED <<queue, unfinished, stop, disabled, counters, known, pc,
                 service, puts, skipped, emits, mark>>

\* get() and the tests on what it returned.  None and, once disabled, any
\* event pass without a count.
Take(tested, then) ==
  /\ worker.at = "get" /\ queue # <<>>
  /\ queue' = Tail(queue)
  /\ worker' = [at |-> IF Head(queue).event = None THEN "return"
                       ELSE IF tested THEN then ELSE "map",
                item |-> Head(queue), attempt |-> 1]
  /\ skipped' = IF Head(queue).event = None \/ tested THEN skipped + 1 ELSE skipped
  /\ UNCHANGED <<unfinished, stop, disabled, counters, known, pc,
                 service, puts, emits, mark>>

SlipGetContinue == Take(disabled, "test")
Get == Take(disabled, "done")

\* task_done(), which the finally clause reaches from every exit.
TaskDone ==
  /\ worker.at \in {"done", "return"}
  /\ worker' = [at |-> IF worker.at = "return" THEN "exited" ELSE "test",
                item |-> NoItem, attempt |-> 0]
  /\ unfinished' = unfinished - 1
  /\ UNCHANGED <<queue, stop, disabled, counters, known, pc,
                 service, puts, skipped, emits, mark>>

(***************************************************************************)
(* _map_event_to_client_calls, one call of the client at a time.  A retry  *)
(* maps the event again and finds in `known` what was created before.      *)
(***************************************************************************)
ItemEvent == worker.item.event
NeedsRoot == ItemEvent.kind # "foreign" /\ Root(ItemEvent) \notin known
NeedsChild == ItemEvent.kind = "start" /\ Child(ItemEvent) \notin known
NeedsNote == ItemEvent.kind = "note"

Mapping == worker.at = "map"

\* The call reached the service: it hears of the item.
Heard ==
  /\ latest' = worker.item.id
  /\ noted' = IF NeedsRoot THEN noted ELSE noted \cup {ItemEvent.workflow}
Creates(r) == created' = [created EXCEPT ![r] = @ + 1]

\* What create_run(r) does when it returns.
SlipCreateRun(r) ==
  /\ Heard /\ Creates(r) /\ UNCHANGED <<known, lost>>
CreateRun(r) ==
  /\ Heard /\ Creates(r) /\ UNCHANGED lost
  /\ known' = known \cup {r}

CreateRoot ==
  /\ Mapping /\ NeedsRoot
  /\ CreateRun(Root(ItemEvent))
  /\ UNCHANGED <<queue, unfinished, stop, disabled, counters, worker, pc,
                 puts, skipped, emits, mark>>

Exported ==
  /\ To("done")
  /\ exported' = exported + 1
  /\ UNCHANGED <<queue, unfinished, stop, disabled, dropped, failed, authFailures,
                 pc, puts, skipped, emits, mark>>

CreateChild ==
  /\ Mapping /\ ~NeedsRoot /\ NeedsChild
  /\ CreateRun(Child(ItemEvent))
  /\ Exported

Note ==
  /\ Mapping /\ ~NeedsRoot /\ NeedsNote
  /\ Heard /\ UNCHANGED <<created, lost, known>>
  /\ Exported

NothingToCall ==
  /\ Mapping /\ ~NeedsRoot /\ ~NeedsChild /\ ~NeedsNote
  /\ Exported
  /\ UNCHANGED <<known, service>>

(***************************************************************************)
(* A call of the client raises.                                            *)
(***************************************************************************)
Calling == Mapping /\ (NeedsRoot \/ NeedsChild \/ NeedsNote)
Needed == IF NeedsRoot THEN Root(ItemEvent) ELSE Child(ItemEvent)

\* Putting the event back instead of trying again at once.
SlipTryAgain ==
  /\ worker.attempt < MaxAttempts
  /\ queue' = Append(queue, worker.item)
  /\ To("done")
  /\ UNCHANGED failed

TryAgain ==
  /\ worker.attempt < MaxAttempts
  /\ worker' = [worker EXCEPT !.attempt = @ + 1]
  /\ UNCHANGED <<queue, failed>>

\* The loop that ends without counting.
SlipGiveUp ==
  /\ worker.attempt = MaxAttempts
  /\ To("done")
  /\ UNCHANGED <<queue, failed>>

GiveUp ==
  /\ worker.attempt = MaxAttempts
  /\ To("done")
  /\ failed' = failed + 1
  /\ UNCHANGED queue

Raised ==
  /\ TryAgain \/ GiveUp
  /\ UNCHANGED <<unfinished, stop, disabled, dropped, exported, authFailures, pc,
                 puts, skipped, emits, mark>>

CallFails ==
  /\ Calling /\ Raised
  /\ UNCHANGED <<known, service>>

\* After it took effect.
ReplyLost ==
  /\ Calling /\ Raised /\ Heard
  /\ IF NeedsRoot \/ NeedsChild
     THEN /\ lost[Needed] < MaxLost
          /\ Creates(Needed)
          /\ lost' = [lost EXCEPT ![Needed] = @ + 1]
     ELSE UNCHANGED <<created, lost>>
  /\ UNCHANGED known

\* With an authentication error: export ends for the process.
AuthFails ==
  /\ Calling
  /\ To("done")
  /\ disabled' = TRUE
  /\ authFailures' = authFailures + 1
  /\ UNCHANGED <<queue, unfinished, stop, dropped, failed, exported, known, pc,
                 service, puts, skipped, emits, mark>>

(***************************************************************************)
(* The specification.  Fairness: no thread is starved, the client's calls  *)
(* return, and a call of emit, flush or close in progress goes on.  Nobody *)
(* has to call close.                                                      *)
(***************************************************************************)
Logging(t) == Emit(t) \/ Drop(t) \/ \E e \in Events : Put(t, e)
Flushing(t) == Flush(t) \/ Join(t) \/ FlushReturn(t)
Closing(t) == Close(t) \/ PutNone(t)
Export == CreateRoot \/ CreateChild \/ Note \/ NothingToCall
            \/ CallFails \/ ReplyLost \/ AuthFails
Drain == LoopTest \/ Get \/ Export \/ TaskDone

Next == Drain \/ \E t \in Threads : Logging(t) \/ Flushing(t) \/ Closing(t)

Spec == Init /\ [][Next]_vars

FairSpec ==
  /\ Spec
  /\ WF_vars(Drain)
  /\ \A t \in Threads : /\ WF_vars(Drop(t) \/ \E e \in Events : Put(t, e))
                        /\ WF_vars(Join(t)) /\ WF_vars(FlushReturn(t))
                        /\ WF_vars(PutNone(t))

(***************************************************************************)
(* Properties.                                                             *)
(***************************************************************************)
Held == IF worker.at = "map" THEN 1 ELSE 0

\* Whatever was put is still in the queue, in the worker's hands, or counted
\* exactly once: exported, failed, refused for authentication, or (None, and
\* events after an authentication failure) taken without a count.  The
\* counters and the queue are moved by different threads and by every exit of
\* the retry loop.
EveryItemCountedOnce ==
  puts = Len(queue) + Held + exported + failed + authFailures + skipped

\* When flush() is past its join, nothing that was put before it was called
\* is waiting or being exported, even if more was put meanwhile and it is
\* about to return False.
FlushMeansDone ==
  \A t \in Threads :
    pc[t] = "joined" =>
      /\ \A i \in 1 .. Len(queue) : queue[i].id > mark[t]
      /\ Held = 1 => worker.item.id > mark[t]

\* A run is created again only when a creation took effect and raised: the
\* bookkeeping survives retries, events of other workflows in between and
\* dropped step_start events ("exactly once per workflow" of the mapping).
CreatedOncePerReply == \A r \in Runs : created[r] <= 1 + lost[r]

\* The service never hears of a child run, an event or an update of a
\* workflow whose root run it has not created, whatever failed before.
RootFirst ==
  /\ \A w \in noted : created[<<w>>] > 0
  /\ \A w \in Workflows, s \in Steps : created[<<w, s>>] > 0 => created[<<w>>] > 0

\* What _ensure_root_run, _create_run and _known_runs are for, over retries.
RunsKept == CreatedOncePerReply /\ RootFirst

\* The service hears of events in the order they were put, retries included.
HeardInOrder == [][latest' >= latest]_vars

\* After an authentication failure nothing more is sent, however much is
\* queued.
SilentAfterAuthFailure == [][disabled => UNCHANGED service]_vars

\* A flush returns unless the sink is closed.
FlushReturnsIfOpen ==
  \A t \in Threads : pc[t] = "join" ~> (pc[t] # "join" \/ stop)

\* After close() the worker ends, whether it was waiting for an item, in
\* the middle of an export or out of attempts, and whatever is queued.
WorkerEnds == stop ~> worker.at = "exited"

(***************************************************************************)
(* The inductive invariant behind the safety properties.                   *)
(***************************************************************************)

\* Every item put and not yet done is an unfinished task.
Unfinished ==
  unfinished = Len(queue) + (IF worker.at \in {"map", "done", "return"} THEN 1 ELSE 0)

\* What is behind in the queue was put later, and all of it later than what
\* the worker holds, the service has heard of, or a finished flush covers.
Numbered ==
  /\ latest <= puts
  /\ \A t \in Threads : mark[t] <= puts
  /\ \A i \in 1 .. Len(queue) : latest < queue[i].id /\ queue[i].id <= puts
  /\ \A i, j \in 1 .. Len(queue) : i < j => queue[i].id < queue[j].id
  /\ worker.at = "map" =>
       /\ latest <= worker.item.id /\ worker.item.id <= puts
       /\ \A i \in 1 .. Len(queue) : worker.item.id < queue[i].id

\* _ExportState knows no more than the service.
Known ==
  /\ \A r \in known : created[r] > 0
  /\ \A r \in Runs : created[r] <= lost[r] + (IF r \in known THEN 1 ELSE 0)
  /\ \A w \in noted : <<w>> \in known
  /\ \A w \in Workflows, s \in Steps : created[<<w, s>>] > 0 => <<w>> \in known

SinkInv ==
  /\ TypeOK
  /\ Unfinished /\ EveryItemCountedOnce
  /\ Numbered /\ FlushMeansDone
  /\ Known
  /\ disabled => worker.at # "map"
=============================================================================
