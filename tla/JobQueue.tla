------------------------------ MODULE JobQueue ------------------------------
(***************************************************************************)
(* The cloud deployment (infra/, worker.py): a Lambda function answers     *)
(* POST /workflows and POST /workflows/{id}/approve by writing the         *)
(* database and then sending a message, and workers poll the queue.  SQS   *)
(* is external: a FIFO queue with one message group, so that a message in  *)
(* flight holds up all the others, with a visibility time-out, a dead      *)
(* letter queue, and deduplication for five minutes.                       *)
(*                                                                         *)
(* The worker builds InboxTriageWorkflow without the store it requires:    *)
(* every message raises TypeError before the engine is asked (worker.py    *)
(* line 62), and the rest of process_message is never reached.             *)
(***************************************************************************)
EXTENDS Integers, FiniteSets, SequencesExt

CONSTANTS
  Workflows,    \* workflow ids clients send or the Lambda function draws
  Calls,        \* concurrent invocations of the Lambda function
  Workers,      \* ECS tasks
  MaxReceive,   \* max_receive_count of the queue
  MaxResumes,   \* bound: resume messages, told apart by a random suffix
  MaxCrashes    \* bound on LambdaDies

ASSUME QueueAssumption ==
  /\ IsFiniteSet(Workflows) /\ Calls # {} /\ Workers # {}
  /\ MaxReceive \in Nat \ {0} /\ MaxResumes \in Nat /\ MaxCrashes \in Nat

VARIABLES
  row,         \* the workflow rows: "none", "pending" or "paused"
  gate,        \* approval_queue, one gate for each workflow
  call,        \* what each invocation has left to do
  queue,       \* messages, oldest first, with the times each was received
  visible,     \* no message of the group is in flight
  recent,      \* deduplication ids of the last five minutes
  dead,        \* the dead letter queue
  worker,      \* the message each worker works on
  answered,    \* history: workflows whose creation was answered with 201
  resumes, crashes

tables == <<row, gate>>
sqs == <<queue, visible, recent, dead>>
past == <<answered, resumes, crashes>>
vars == <<tables, call, sqs, worker, past>>

NoCall == [to |-> "nothing", of |-> "none"]
NoMessage == "none"
SlipResume(w, n) == [id |-> <<w, 1>>, of |-> w, received |-> 0]
\* MessageDeduplicationId = workflow_id, "resume" and a random suffix
Resume(w, n) == [id |-> <<w, n>>, of |-> w, received |-> 0]
SlipExecute(w) == [id |-> <<"inbox_triage", 0>>, of |-> w, received |-> 0]
\* MessageDeduplicationId = workflow_id
Execute(w) == [id |-> <<w, 0>>, of |-> w, received |-> 0]

Init ==
  /\ row = [w \in Workflows |-> "none"] /\ gate = [w \in Workflows |-> "none"]
  /\ call = [c \in Calls |-> NoCall]
  /\ queue = <<>> /\ visible = TRUE /\ recent = {} /\ dead = {}
  /\ worker = [k \in Workers |-> NoMessage]
  /\ answered = {} /\ resumes = 0 /\ crashes = 0
-----------------------------------------------------------------------------
(* SQS, as the code uses it.                                               *)

\* A message with an id sent in the last five minutes is accepted and dropped.
Enqueue(message) ==
  /\ queue' = IF message.id \in recent THEN queue ELSE Append(queue, message)
  /\ recent' = recent \cup {message.id}

FiveMinutesPass == recent # {} /\ recent' = {}
                   /\ UNCHANGED <<tables, call, queue, visible, dead, worker, past>>

\* The visibility time-out: the message in flight can be received again.
Reappear ==
  /\ ~visible /\ visible' = TRUE
  /\ UNCHANGED <<tables, call, queue, recent, dead, worker, past>>

Spent(message) == message.received >= MaxReceive

Redrive ==
  /\ visible /\ queue # <<>> /\ Spent(Head(queue))
  /\ queue' = Tail(queue) /\ dead' = dead \cup {Head(queue)}
  /\ UNCHANGED <<tables, call, visible, recent, worker, past>>
-----------------------------------------------------------------------------
(* The Lambda function: infra/lambda/handler.py.                           *)

\* The row is committed first.  The id is taken: the INSERT raises, and main answers 500.
InsertWorkflow(c, w) ==
  /\ call[c] = NoCall /\ row[w] = "none"
  /\ row' = [row EXCEPT ![w] = "pending"]
  /\ call' = [call EXCEPT ![c] = [to |-> "execute", of |-> w]]
  /\ UNCHANGED <<gate, sqs, worker, past>>

SendExecute(c) ==
  /\ call[c].to = "execute" /\ Enqueue(Execute(call[c].of))
  /\ answered' = answered \cup {call[c].of}
  /\ call' = [call EXCEPT ![c] = NoCall]
  /\ UNCHANGED <<tables, visible, dead, worker, resumes, crashes>>

\* The decision is committed first, whatever the gate held; without a gate the answer is 404.
ApproveGate(c, w) ==
  /\ call[c] = NoCall /\ gate[w] # "none"
  /\ gate' = [gate EXCEPT ![w] = "approved"]
  /\ call' = [call EXCEPT ![c] = [to |-> "resume", of |-> w]]
  /\ UNCHANGED <<row, sqs, worker, past>>

SendResume(c) ==
  /\ call[c].to = "resume" /\ resumes < MaxResumes
  /\ Enqueue(Resume(call[c].of, resumes + 1))
  /\ resumes' = resumes + 1
  /\ call' = [call EXCEPT ![c] = NoCall]
  /\ UNCHANGED <<tables, visible, dead, worker, answered, crashes>>

\* The invocation times out or dies, or send_message raises: the answer is a 500 or none.
LambdaDies(c) ==
  /\ call[c] # NoCall /\ crashes < MaxCrashes
  /\ call' = [call EXCEPT ![c] = NoCall] /\ crashes' = crashes + 1
  /\ UNCHANGED <<tables, sqs, worker, answered, resumes>>
-----------------------------------------------------------------------------
(* The worker: worker.py.                                                  *)

SlipReceive(k) ==
  /\ worker[k] = NoMessage /\ visible /\ queue # <<>> /\ ~Spent(Head(queue))
  /\ visible' = FALSE
  /\ worker' = [worker EXCEPT ![k] = Head(queue).of]
  /\ UNCHANGED <<tables, call, queue, recent, dead, past>>
Receive(k) ==
  /\ worker[k] = NoMessage /\ visible /\ queue # <<>> /\ ~Spent(Head(queue))
  /\ queue' = <<[Head(queue) EXCEPT !.received = @ + 1]>> \o Tail(queue)
  /\ visible' = FALSE
  /\ worker' = [worker EXCEPT ![k] = Head(queue).of]
  /\ UNCHANGED <<tables, call, recent, dead, past>>

\* process_message raises, main() reports it and sleeps: the message is not deleted.  A task
\* whose spot instance is taken away leaves the same behind.
ProcessRaises(k) ==
  /\ worker[k] # NoMessage
  /\ worker' = [worker EXCEPT ![k] = NoMessage]
  /\ UNCHANGED <<tables, call, sqs, past>>
-----------------------------------------------------------------------------
\* Environment: an engine run by hand over the same database takes a workflow to its gate.
RunElsewhere(w) ==
  /\ row[w] = "pending"
  /\ row' = [row EXCEPT ![w] = "paused"] /\ gate' = [gate EXCEPT ![w] = "pending"]
  /\ UNCHANGED <<call, sqs, worker, past>>

Lambda(c) ==
  \/ \E w \in Workflows : InsertWorkflow(c, w) \/ ApproveGate(c, w)
  \/ SendExecute(c) \/ SendResume(c) \/ LambdaDies(c)
Worker(k) == Receive(k) \/ ProcessRaises(k)

Next ==
  \/ \E c \in Calls : Lambda(c)
  \/ \E k \in Workers : Worker(k)
  \/ FiveMinutesPass \/ Reappear \/ Redrive
  \/ \E w \in Workflows : RunElsewhere(w)

Spec == Init /\ [][Next]_vars

\* The workers poll for ever, time-outs expire, and SQS moves spent messages.
FairSpec ==
  /\ Spec /\ WF_vars(Reappear) /\ WF_vars(Redrive)
  /\ \A k \in Workers : WF_vars(ProcessRaises(k))
  /\ WF_vars(\E k \in Workers : Receive(k))
-----------------------------------------------------------------------------
Sent(w) == {<<w, 0>>} \cap ({m.id : m \in ToSet(queue) \cup dead})
Sending(w) == \E c \in Calls : call[c] = [to |-> "execute", of |-> w]

\* A workflow that is in the database without ever having had a message, because a retried
\* request finds its id taken, is paid for by an invocation that died between its commit and
\* its send; as long as nothing dies every committed workflow reaches the queue
\* (handle_create_workflow).
StrandedPaidByCrashes ==
  Cardinality({w \in Workflows : row[w] # "none" /\ ~Sending(w) /\ Sent(w) = {}}) <= crashes

\* Every answer that promised something has a message of its own: a created workflow has its
\* execute message and each approval answered with 200 its resume message, in the queue or in
\* the dead letter queue, whatever was sent in the same five minutes (main of handler.py).
EveryAnswerIsQueued ==
  LET messages == ToSet(queue) \cup dead IN
  /\ \A w \in answered : Sent(w) # {}
  /\ Cardinality({m.id : m \in {x \in messages : x.id[2] # 0}}) = resumes

\* Every message leaves the queue, though the message before it holds up the whole group until
\* it is spent (durableflow_stack.py, main of worker.py).
QueueDrains == \A w \in Workflows : (\E i \in DOMAIN queue : queue[i].of = w /\ queue[i].id[2] = 0)
                 ~> (\A i \in DOMAIN queue : queue[i].of = w => queue[i].id[2] # 0)
=============================================================================
