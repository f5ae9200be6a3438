------------------------ MODULE JobQueueSafety_proofs ------------------------
(***************************************************************************)
(* Two safety properties of the cloud deployment, for any workflows,       *)
(* invocations, workers, receive limit and number of crashes: what is      *)
(* stranded was paid for, and every answer has its message.                *)
(*                                                                         *)
(* The argument is about Ids, the ids of all messages that were ever       *)
(* accepted: nothing is deleted, because no worker gets to the end of a    *)
(* message, so that an id is fresh as long as no call carried it out.      *)
(***************************************************************************)
EXTENDS JobQueue, FiniteSetTheorems, TLAPS

Id == Workflows \X Nat
Message == [id : Id, of : Workflows, received : Nat]
Pending == [to : {"nothing", "execute", "resume"}, of : Workflows \cup {"none"}]
Ids == {m.id : m \in ToSet(queue) \cup dead}

Types ==
  /\ row \in [Workflows -> {"none", "pending", "paused"}]
  /\ call \in [Calls -> Pending]
  /\ \A c \in Calls : call[c].to # "nothing" => call[c].of \in Workflows
  /\ gate \in [Workflows -> {"none", "pending", "approved"}]
  /\ queue \in Seq(Message) /\ dead \in SUBSET Message
  /\ recent \in SUBSET Id /\ answered \in SUBSET Workflows
  /\ resumes \in Nat /\ crashes \in Nat

\* What was sent lately was accepted once, and an invocation that has still to send the execute
\* message of a workflow is the only one that ever will.
Fresh ==
  /\ recent \subseteq Ids
  /\ \A c \in Calls : call[c].to = "execute" =>
       row[call[c].of] # "none" /\ <<call[c].of, 0>> \notin Ids
  /\ \A c, d \in Calls : call[c].to = "execute" /\ call[d].to = "execute"
                           /\ call[c].of = call[d].of => c = d
  /\ \A id \in Ids : id[2] <= resumes /\ (id[2] = 0 => row[id[1]] # "none")
  /\ \A w \in answered : <<w, 0>> \in Ids

ResumeIds == {id \in Ids : id[2] # 0}
Counted == IsFiniteSet(ResumeIds) /\ Cardinality(ResumeIds) = resumes

Stranded == {w \in Workflows : row[w] # "none" /\ ~Sending(w) /\ <<w, 0>> \notin Ids}
Paid == IsFiniteSet(Stranded) /\ Cardinality(Stranded) <= crashes

IInv == Types /\ Fresh /\ Counted /\ Paid
-----------------------------------------------------------------------------
(* What taking and putting a message do to the ids.                        *)

LEMMA IdType ==
  ASSUME Types
  PROVE  Ids \subseteq Id
<1>1. DOMAIN queue = 1 .. Len(queue) /\ \A i \in 1 .. Len(queue) : queue[i] \in Message
  BY DEF Types
<1>2. ToSet(queue) \subseteq Message
  BY <1>1 DEF ToSet
<1>3. \A m \in ToSet(queue) \cup dead : m.id \in Id
  BY <1>2 DEF Types, Message
<1>4. QED
  BY <1>3 DEF Ids

LEMMA AppendSet ==
  ASSUME NEW S, NEW q \in Seq(S), NEW x \in S
  PROVE  ToSet(Append(q, x)) = ToSet(q) \cup {x}
<1>1. /\ Len(q) \in Nat /\ DOMAIN q = 1 .. Len(q) /\ DOMAIN Append(q, x) = 1 .. Len(q) + 1
      /\ \A i \in 1 .. Len(q) : Append(q, x)[i] = q[i]
      /\ Append(q, x)[Len(q) + 1] = x
  OBVIOUS
<1>2. 1 .. Len(q) + 1 = (1 .. Len(q)) \cup {Len(q) + 1}
  BY <1>1
<1>3. ToSet(Append(q, x)) = {Append(q, x)[i] : i \in (1 .. Len(q)) \cup {Len(q) + 1}}
  BY <1>1, <1>2 DEF ToSet
<1>4. ToSet(q) = {q[i] : i \in 1 .. Len(q)}
  BY <1>1 DEF ToSet
<1>5. QED
  BY <1>1, <1>3, <1>4

LEMMA IdsOfEnqueue ==
  ASSUME Types, NEW m \in Message, Enqueue(m), dead' = dead, recent \subseteq Ids
  PROVE  /\ queue' \in Seq(Message) /\ recent' \in SUBSET Id
         /\ Ids' = Ids \cup {m.id} /\ recent' \subseteq Ids'
<1>1. m.id \in Id
  BY DEF Message
<1>2. CASE m.id \in recent
  BY <1>1, <1>2 DEF Types, Enqueue, Ids
<1>3. CASE m.id \notin recent
  <2>1. queue' = Append(queue, m) /\ recent' = recent \cup {m.id}
    BY <1>3 DEF Enqueue
  <2>2. queue' \in Seq(Message)
    BY <2>1 DEF Types
  <2>3. ToSet(queue') = ToSet(queue) \cup {m}
    <3>1. queue \in Seq(Message)
      BY DEF Types
    <3>2. ToSet(Append(queue, m)) = ToSet(queue) \cup {m}
      BY <3>1, AppendSet
    <3>3. QED
      BY <2>1, <3>2
  <2>4. Ids' = Ids \cup {m.id}
    BY <2>3 DEF Ids
  <2>5. QED
    BY <1>1, <2>1, <2>2, <2>4 DEF Types
<1>4. QED
  BY <1>2, <1>3

LEMMA HeadAndTail ==
  ASSUME NEW S, NEW q \in Seq(S), q # <<>>
  PROVE  ToSet(q) = ToSet(Tail(q)) \cup {Head(q)}
<1>1. /\ Len(q) \in Nat \ {0} /\ DOMAIN q = 1 .. Len(q) /\ Head(q) = q[1]
      /\ DOMAIN Tail(q) = 1 .. Len(q) - 1
      /\ \A i \in 1 .. Len(q) - 1 : Tail(q)[i] = q[i + 1]
  OBVIOUS
<1>2. ASSUME NEW x \in ToSet(q), x # Head(q)
      PROVE  x \in ToSet(Tail(q))
  <2>1. PICK i \in 1 .. Len(q) : x = q[i]
    BY <1>1 DEF ToSet
  <2>2. i - 1 \in 1 .. Len(q) - 1 /\ Tail(q)[i - 1] = q[i]
    BY <1>1, <1>2, <2>1
  <2>3. QED
    BY <1>1, <2>1, <2>2 DEF ToSet
<1>3. ASSUME NEW x \in ToSet(Tail(q))
      PROVE  x \in ToSet(q)
  <2>1. PICK i \in 1 .. Len(q) - 1 : x = Tail(q)[i]
    BY <1>1 DEF ToSet
  <2>2. i + 1 \in 1 .. Len(q) /\ x = q[i + 1]
    BY <1>1, <2>1
  <2>3. QED
    BY <1>1, <2>2 DEF ToSet
<1>4. Head(q) \in ToSet(q)
  BY <1>1 DEF ToSet
<1>5. QED
  BY <1>2, <1>3, <1>4

LEMMA IdsOfRedrive ==
  ASSUME Types, queue # <<>>, queue' = Tail(queue), dead' = dead \cup {Head(queue)}
  PROVE  queue' \in Seq(Message) /\ dead' \in SUBSET Message /\ Ids' = Ids
<1>1. Head(queue) \in Message /\ queue' \in Seq(Message)
  BY DEF Types
<1>2. ToSet(queue) = ToSet(Tail(queue)) \cup {Head(queue)}
  BY HeadAndTail DEF Types
<1>3. ToSet(queue') \cup dead' = ToSet(queue) \cup dead
  BY <1>2
<1>4. QED
  BY <1>1, <1>3 DEF Ids, Types


LEMMA NewHead ==
  ASSUME NEW S, NEW q \in Seq(S), q # <<>>, NEW x \in S
  PROVE  /\ <<x>> \o Tail(q) \in Seq(S) /\ Len(<<x>> \o Tail(q)) = Len(q) /\ Len(q) \in Nat \ {0}
         /\ (<<x>> \o Tail(q))[1] = x /\ Head(q) = q[1]
         /\ \A i \in 2 .. Len(q) : (<<x>> \o Tail(q))[i] = q[i]
  OBVIOUS

LEMMA SameIds ==
  ASSUME NEW S, NEW p \in Seq(S), NEW q \in Seq(S), Len(p) = Len(q),
         \A i \in 1 .. Len(q) : p[i].id = q[i].id
  PROVE  {m.id : m \in ToSet(p)} = {m.id : m \in ToSet(q)}
<1>1. DOMAIN p = 1 .. Len(q) /\ DOMAIN q = 1 .. Len(q)
  OBVIOUS
<1>2. {m.id : m \in ToSet(p)} = {p[i].id : i \in 1 .. Len(q)}
  BY <1>1 DEF ToSet
<1>3. {m.id : m \in ToSet(q)} = {q[i].id : i \in 1 .. Len(q)}
  BY <1>1 DEF ToSet
<1>4. QED
  BY <1>2, <1>3

LEMMA IdsOfReceive ==
  ASSUME Types, queue # <<>>, dead' = dead,
         queue' = <<[Head(queue) EXCEPT !.received = @ + 1]>> \o Tail(queue)
  PROVE  queue' \in Seq(Message) /\ Ids' = Ids
<1>1. queue \in Seq(Message) /\ Head(queue) \in Message
  BY DEF Types
<1>2. \A m \in Message : [m EXCEPT !.received = @ + 1] \in Message
                         /\ [m EXCEPT !.received = @ + 1].id = m.id
  BY DEF Message
<1>3. PICK head \in Message : head.id = Head(queue).id /\ queue' = <<head>> \o Tail(queue)
  BY <1>1, <1>2
<1>4. /\ <<head>> \o Tail(queue) \in Seq(Message)
      /\ Len(<<head>> \o Tail(queue)) = Len(queue) /\ Len(queue) \in Nat \ {0}
      /\ (<<head>> \o Tail(queue))[1] = head /\ Head(queue) = queue[1]
      /\ \A i \in 2 .. Len(queue) : (<<head>> \o Tail(queue))[i] = queue[i]
  BY <1>1, NewHead
<1>5. \A i \in 1 .. Len(queue) : (<<head>> \o Tail(queue))[i].id = queue[i].id
  BY <1>3, <1>4
<1>6. {m.id : m \in ToSet(<<head>> \o Tail(queue))} = {m.id : m \in ToSet(queue)}
  BY <1>1, <1>4, <1>5, SameIds
<1>7. Ids = {m.id : m \in ToSet(queue)} \cup {m.id : m \in dead}
  BY DEF Ids
<1>8. Ids' = {m.id : m \in ToSet(queue')} \cup {m.id : m \in dead}
  BY DEF Ids
<1>9. QED
  BY <1>3, <1>4, <1>6, <1>7, <1>8
-----------------------------------------------------------------------------
LEMMA InitInv == Init => IInv
<1> SUFFICES ASSUME Init PROVE IInv
  OBVIOUS
<1>1. Types
  BY DEF Init, Types, NoCall, Pending, Message, Id
<1>2. Ids = {}
  BY DEF Init, Ids, ToSet
<1>3. Fresh
  BY <1>2 DEF Init, Fresh, NoCall
<1>4. Counted
  BY <1>2, FS_EmptySet DEF Init, Counted, ResumeIds
<1>5. Paid
  <2>1. Stranded = {}
    BY DEF Init, Stranded
  <2>2. QED
    BY <2>1, FS_EmptySet DEF Init, Paid
<1>6. QED
  BY <1>1, <1>3, <1>4, <1>5 DEF IInv
-----------------------------------------------------------------------------
(* One lemma for each action that changes what the invariant is about.     *)

LEMMA StrandedShrinks ==
  ASSUME Paid, crashes \in Nat, Stranded' \subseteq Stranded, crashes' = crashes
  PROVE  Paid'
<1>1. IsFiniteSet(Stranded') /\ Cardinality(Stranded') <= Cardinality(Stranded)
  BY FS_Subset DEF Paid
<1>2. Cardinality(Stranded) \in Nat /\ Cardinality(Stranded') \in Nat
  BY <1>1, FS_CardinalityType DEF Paid
<1>3. QED
  BY <1>1, <1>2 DEF Paid

LEMMA InsertKeeps ==
  ASSUME IInv, NEW c \in Calls, NEW w \in Workflows, InsertWorkflow(c, w)
  PROVE  IInv'
<1> USE DEF InsertWorkflow
<1>1. Ids' = Ids
  BY DEF sqs, Ids
<1>2. Types'
  BY DEF IInv, Types, sqs, past, NoCall, Pending
<1>3. \A d \in Calls : call'[d] = IF d = c THEN [to |-> "execute", of |-> w] ELSE call[d]
  BY DEF IInv, Types
<1>4. \A v \in Workflows : row'[v] = IF v = w THEN "pending" ELSE row[v]
  BY DEF IInv, Types
<1>5. <<w, 0>> \notin Ids
  BY DEF IInv, Fresh
<1>6. Fresh'
  <2>1. recent' \subseteq Ids' /\ \A v \in answered' : <<v, 0>> \in Ids'
    BY <1>1 DEF IInv, Fresh, sqs, past
  <2>2. \A d \in Calls : call'[d].to = "execute" =>
          row'[call'[d].of] # "none" /\ <<call'[d].of, 0>> \notin Ids'
    BY <1>1, <1>3, <1>4, <1>5 DEF IInv, Fresh, Types
  <2>3. \A d, e \in Calls : call'[d].to = "execute" /\ call'[e].to = "execute"
          /\ call'[d].of = call'[e].of => d = e
    <3>1. \A d \in Calls : call[d].to = "execute" => call[d].of # w
      BY DEF IInv, Fresh
    <3>2. \A d, e \in Calls : call[d].to = "execute" /\ call[e].to = "execute"
            /\ call[d].of = call[e].of => d = e
      BY DEF IInv, Fresh
    <3>3. QED
      BY <1>3, <3>1, <3>2
  <2>4. \A id \in Ids' : id[2] <= resumes' /\ (id[2] = 0 => row'[id[1]] # "none")
    BY <1>1, <1>4, <1>2 DEF IInv, Fresh, past, Types
  <2>5. QED
    BY <2>1, <2>2, <2>3, <2>4 DEF Fresh
<1>7. Counted'
  BY <1>1 DEF IInv, Counted, ResumeIds, past
<1>8. Stranded' \subseteq Stranded
  <2>1. SUFFICES ASSUME NEW v \in Stranded' PROVE v \in Stranded
    OBVIOUS
  <2>2. v # w
    BY <1>3 DEF Stranded, Sending
  <2>3. v \in Workflows /\ row[v] # "none" /\ <<v, 0>> \notin Ids
    BY <1>1, <1>4, <2>2 DEF Stranded
  <2>4. ASSUME NEW d \in Calls, call[d] = [to |-> "execute", of |-> v]
        PROVE  FALSE
    <3>1. d # c
      BY <2>4 DEF NoCall
    <3>2. call'[d] = [to |-> "execute", of |-> v]
      BY <1>3, <2>4, <3>1
    <3>3. QED
      BY <3>2 DEF Stranded, Sending
  <2>5. QED
    BY <2>3, <2>4 DEF Stranded, Sending
<1>9. Paid'
  BY <1>8, StrandedShrinks DEF IInv, Types, past
<1>10. QED
  BY <1>2, <1>6, <1>7, <1>9 DEF IInv

\* Gates, decisions and the messages in flight concern none of the ids.
LEMMA QuietKeeps ==
  ASSUME IInv, Types', Ids' = Ids, UNCHANGED <<answered, resumes, crashes>>,
         recent' \subseteq recent,
         \A w \in Workflows : row'[w] = "none" <=> row[w] = "none",
         \A c \in Calls : call'[c].to = "execute" \/ call[c].to = "execute" => call'[c] = call[c]
  PROVE  IInv'
<1>1. Fresh'
  <2>1. recent' \subseteq Ids' /\ \A w \in answered' : <<w, 0>> \in Ids'
    BY DEF IInv, Fresh
  <2>2. \A c \in Calls : call'[c].to = "execute" =>
          row'[call'[c].of] # "none" /\ <<call'[c].of, 0>> \notin Ids'
    BY DEF IInv, Fresh, Types
  <2>3. \A c, d \in Calls : call'[c].to = "execute" /\ call'[d].to = "execute"
          /\ call'[c].of = call'[d].of => c = d
    BY DEF IInv, Fresh
  <2>4. \A id \in Ids : id[1] \in Workflows
    BY IdType DEF IInv, Id
  <2>5. \A id \in Ids' : id[2] <= resumes' /\ (id[2] = 0 => row'[id[1]] # "none")
    BY <2>4 DEF IInv, Fresh
  <2>6. QED
    BY <2>1, <2>2, <2>3, <2>5 DEF Fresh
<1>2. Counted'
  BY DEF IInv, Counted, ResumeIds
<1>3. Stranded' \subseteq Stranded
  BY DEF Stranded, Sending
<1>4. Paid'
  BY <1>3, StrandedShrinks DEF IInv, Types
<1>5. QED
  BY <1>1, <1>2, <1>4 DEF IInv

LEMMA SendExecuteKeeps ==
  ASSUME IInv, NEW c \in Calls, SendExecute(c)
  PROVE  IInv'
<1> DEFINE w == call[c].of
<1>1. w \in Workflows /\ <<w, 0>> \notin Ids /\ row[w] # "none"
  BY DEF IInv, Types, Fresh, SendExecute
<1>2. Execute(w) \in Message /\ Execute(w).id = <<w, 0>>
  BY <1>1 DEF Execute, Message, Id
<1>3. /\ queue' \in Seq(Message) /\ recent' \in SUBSET Id
      /\ Ids' = Ids \cup {<<w, 0>>} /\ recent' \subseteq Ids'
  BY <1>2, IdsOfEnqueue DEF IInv, Fresh, SendExecute
<1>4. Types'
  BY <1>1, <1>3 DEF IInv, Types, SendExecute, tables, NoCall, Pending
<1>5. \A d \in Calls : call'[d] = IF d = c THEN NoCall ELSE call[d]
  BY DEF IInv, Types, SendExecute
<1>6. Fresh'
  <2>1. recent' \subseteq Ids' /\ \A v \in answered' : <<v, 0>> \in Ids'
    BY <1>3 DEF IInv, Fresh, SendExecute
  <2>2. \A d \in Calls : call'[d].to = "execute" =>
          d # c /\ call[d].to = "execute" /\ call'[d] = call[d]
    BY <1>5 DEF NoCall
  <2>3. \A d \in Calls : d # c /\ call[d].to = "execute" => call[d].of # w
    BY DEF IInv, Fresh, SendExecute
  <2>4. \A d \in Calls : call'[d].to = "execute" =>
          row'[call'[d].of] # "none" /\ <<call'[d].of, 0>> \notin Ids'
    BY <1>3, <2>2, <2>3 DEF IInv, Fresh, SendExecute, tables
  <2>5. \A d, e \in Calls : call'[d].to = "execute" /\ call'[e].to = "execute"
          /\ call'[d].of = call'[e].of => d = e
    BY <2>2 DEF IInv, Fresh
  <2>6. \A id \in Ids' : id[2] <= resumes' /\ (id[2] = 0 => row'[id[1]] # "none")
    BY <1>1, <1>3 DEF IInv, Fresh, Types, SendExecute, tables
  <2>7. QED
    BY <2>1, <2>4, <2>5, <2>6 DEF Fresh
<1>7. Counted'
  <2>1. ResumeIds' = ResumeIds
    BY <1>3 DEF ResumeIds
  <2>2. QED
    BY <2>1 DEF IInv, Counted, SendExecute
<1>8. Stranded' \subseteq Stranded
  <2>1. SUFFICES ASSUME NEW v \in Stranded' PROVE v \in Stranded
    OBVIOUS
  <2>2. v \in Workflows /\ row[v] # "none" /\ <<v, 0>> \notin Ids /\ v # w
    BY <1>3 DEF Stranded, SendExecute, tables
  <2>3. ASSUME NEW d \in Calls, call[d] = [to |-> "execute", of |-> v]
        PROVE  FALSE
    <3>1. d # c
      BY <2>2, <2>3
    <3>2. call'[d] = [to |-> "execute", of |-> v]
      BY <1>5, <2>3, <3>1
    <3>3. QED
      BY <3>2 DEF Stranded, Sending
  <2>4. QED
    BY <2>2, <2>3 DEF Stranded, Sending
<1>9. Paid'
  BY <1>8, StrandedShrinks DEF IInv, Types, SendExecute
<1>10. QED
  BY <1>4, <1>6, <1>7, <1>9 DEF IInv

LEMMA SendResumeKeeps ==
  ASSUME IInv, NEW c \in Calls, SendResume(c)
  PROVE  IInv'
<1> DEFINE id == <<call[c].of, resumes + 1>>
<1>1. call[c].of \in Workflows /\ resumes \in Nat /\ id \in Id
  BY DEF IInv, Types, SendResume, Id
<1>2. Resume(call[c].of, resumes + 1) \in Message /\ Resume(call[c].of, resumes + 1).id = id
  BY <1>1 DEF Resume, Message
<1>3. /\ queue' \in Seq(Message) /\ recent' \in SUBSET Id
      /\ Ids' = Ids \cup {id} /\ recent' \subseteq Ids'
  BY <1>2, IdsOfEnqueue DEF IInv, Fresh, SendResume
<1>4. Types'
  BY <1>1, <1>3 DEF IInv, Types, SendResume, tables, NoCall, Pending
<1>5. \A d \in Calls : call'[d] = IF d = c THEN NoCall ELSE call[d]
  BY DEF IInv, Types, SendResume
<1>6. id \notin Ids /\ id[2] # 0 /\ \A v : <<v, 0>> # id
  <2>1. \A i \in Ids : i[2] <= resumes
    BY DEF IInv, Fresh
  <2>2. id[2] = resumes + 1
    OBVIOUS
  <2>3. QED
    BY <1>1, <2>1, <2>2
<1>7. Fresh'
  <2>1. recent' \subseteq Ids' /\ \A v \in answered' : <<v, 0>> \in Ids'
    BY <1>3 DEF IInv, Fresh, SendResume
  <2>2. \A d \in Calls : call'[d].to = "execute" => call'[d] = call[d]
    BY <1>5 DEF NoCall
  <2>3. \A d \in Calls : call'[d].to = "execute" =>
          row'[call'[d].of] # "none" /\ <<call'[d].of, 0>> \notin Ids'
    BY <1>3, <1>6, <2>2 DEF IInv, Fresh, SendResume, tables
  <2>4. \A d, e \in Calls : call'[d].to = "execute" /\ call'[e].to = "execute"
          /\ call'[d].of = call'[e].of => d = e
    BY <2>2 DEF IInv, Fresh
  <2>5. \A i \in Ids : i[2] \in Nat /\ i[2] <= resumes /\ (i[2] = 0 => row[i[1]] # "none")
    BY IdType DEF IInv, Fresh, Id
  <2>6. \A i \in Ids' : i[2] <= resumes' /\ (i[2] = 0 => row'[i[1]] # "none")
    BY <1>1, <1>3, <1>6, <2>5 DEF SendResume, tables
  <2>7. QED
    BY <2>1, <2>3, <2>4, <2>6 DEF Fresh
<1>8. Counted'
  <2>1. ResumeIds' = ResumeIds \cup {id} /\ id \notin ResumeIds
    BY <1>3, <1>6 DEF ResumeIds
  <2>2. IsFiniteSet(ResumeIds) /\ Cardinality(ResumeIds) = resumes
    BY DEF IInv, Counted
  <2>3. IsFiniteSet(ResumeIds \cup {id})
        /\ Cardinality(ResumeIds \cup {id}) = Cardinality(ResumeIds) + 1
    BY <2>1, <2>2, FS_AddElement
  <2>4. QED
    BY <2>1, <2>2, <2>3 DEF Counted, SendResume
<1>9. Stranded' \subseteq Stranded
  <2>1. SUFFICES ASSUME NEW v \in Stranded' PROVE v \in Stranded
    OBVIOUS
  <2>2. v \in Workflows /\ row[v] # "none" /\ <<v, 0>> \notin Ids
    BY <1>3 DEF Stranded, SendResume, tables
  <2>3. ASSUME NEW d \in Calls, call[d] = [to |-> "execute", of |-> v]
        PROVE  FALSE
    <3>1. d # c
      BY <2>3 DEF SendResume
    <3>2. call'[d] = [to |-> "execute", of |-> v]
      BY <1>5, <2>3, <3>1
    <3>3. QED
      BY <3>2 DEF Stranded, Sending
  <2>4. QED
    BY <2>2, <2>3 DEF Stranded, Sending
<1>10. Paid'
  BY <1>9, StrandedShrinks DEF IInv, Types, SendResume
<1>11. QED
  BY <1>4, <1>7, <1>8, <1>10 DEF IInv

\* An invocation that dies strands at most the workflow it had to send.
LEMMA LambdaDiesKeeps ==
  ASSUME IInv, NEW c \in Calls, LambdaDies(c)
  PROVE  IInv'
<1> DEFINE w == call[c].of
<1>1. Ids' = Ids
  BY DEF LambdaDies, sqs, Ids
<1>2. Types'
  BY DEF IInv, Types, LambdaDies, sqs, tables, NoCall, Pending
<1>3. \A d \in Calls : call'[d] = IF d = c THEN NoCall ELSE call[d]
  BY DEF IInv, Types, LambdaDies
<1>4. Fresh'
  <2>1. recent' \subseteq Ids' /\ \A v \in answered' : <<v, 0>> \in Ids'
    BY <1>1 DEF IInv, Fresh, LambdaDies, sqs
  <2>2. \A d \in Calls : call'[d].to = "execute" => call'[d] = call[d]
    BY <1>3 DEF NoCall
  <2>3. \A d \in Calls : call'[d].to = "execute" =>
          row'[call'[d].of] # "none" /\ <<call'[d].of, 0>> \notin Ids'
    BY <1>1, <2>2 DEF IInv, Fresh, LambdaDies, tables
  <2>4. \A d, e \in Calls : call'[d].to = "execute" /\ call'[e].to = "execute"
          /\ call'[d].of = call'[e].of => d = e
    BY <2>2 DEF IInv, Fresh
  <2>5. \A i \in Ids' : i[2] <= resumes' /\ (i[2] = 0 => row'[i[1]] # "none")
    BY <1>1 DEF IInv, Fresh, LambdaDies, tables
  <2>6. QED
    BY <2>1, <2>3, <2>4, <2>5 DEF Fresh
<1>5. Counted'
  BY <1>1 DEF IInv, Counted, ResumeIds, LambdaDies
<1>6. Paid'
  <2>1. Stranded' \subseteq Stranded \cup {w}
    <3>1. SUFFICES ASSUME NEW v \in Stranded', v # w PROVE v \in Stranded
      OBVIOUS
    <3>2. v \in Workflows /\ row[v] # "none" /\ <<v, 0>> \notin Ids
      BY <1>1 DEF Stranded, LambdaDies, tables
    <3>3. ASSUME NEW d \in Calls, call[d] = [to |-> "execute", of |-> v]
          PROVE  FALSE
      <4>1. d # c
        BY <3>1, <3>3
      <4>2. call'[d] = [to |-> "execute", of |-> v]
        BY <1>3, <3>3, <4>1
      <4>3. QED
        BY <4>2 DEF Stranded, Sending
    <3>4. QED
      BY <3>2, <3>3 DEF Stranded, Sending
  <2>2. IsFiniteSet(Stranded) /\ Cardinality(Stranded) <= crashes /\ crashes \in Nat
    BY DEF IInv, Paid, Types
  <2>3. IsFiniteSet(Stranded \cup {w}) /\ Cardinality(Stranded) \in Nat
        /\ Cardinality(Stranded \cup {w}) <= Cardinality(Stranded) + 1
    <3>1. Cardinality(Stranded) \in Nat
      BY <2>2, FS_CardinalityType
    <3>2. /\ IsFiniteSet(Stranded \cup {w})
          /\ Cardinality(Stranded \cup {w})
               = IF w \in Stranded THEN Cardinality(Stranded) ELSE Cardinality(Stranded) + 1
      BY <2>2, FS_AddElement
    <3>3. QED
      BY <3>1, <3>2
  <2>4. IsFiniteSet(Stranded') /\ Cardinality(Stranded') <= Cardinality(Stranded \cup {w})
    BY <2>1, <2>3, FS_Subset
  <2>5. Cardinality(Stranded') \in Nat /\ Cardinality(Stranded \cup {w}) \in Nat
    BY <2>3, <2>4, FS_CardinalityType
  <2>6. QED
    BY <2>2, <2>3, <2>4, <2>5 DEF Paid, LambdaDies
<1>7. QED
  BY <1>2, <1>4, <1>5, <1>6 DEF IInv
-----------------------------------------------------------------------------
LEMMA StepKeeps ==
  ASSUME IInv, [Next]_vars
  PROVE  IInv'
<1> USE DEF IInv, Types
<1>1. ASSUME NEW c \in Calls, NEW w \in Workflows, InsertWorkflow(c, w)
      PROVE  IInv'
  BY <1>1, InsertKeeps
<1>2. ASSUME NEW c \in Calls, NEW w \in Workflows, ApproveGate(c, w)
      PROVE  IInv'
  <2>1. Types'
    BY <1>2 DEF ApproveGate, sqs, past, Pending
  <2>2. \A d \in Calls : call'[d] = IF d = c THEN [to |-> "resume", of |-> w] ELSE call[d]
    BY <1>2 DEF ApproveGate
  <2>3. Ids' = Ids /\ recent' = recent /\ row' = row
        /\ UNCHANGED <<answered, resumes, crashes>>
    BY <1>2 DEF ApproveGate, sqs, past, Ids
  <2>4. call[c].to # "execute"
    BY <1>2 DEF ApproveGate, NoCall
  <2>5. QED
    BY <2>1, <2>2, <2>3, <2>4, QuietKeeps
<1>3. ASSUME NEW c \in Calls, SendExecute(c)
      PROVE  IInv'
  BY <1>3, SendExecuteKeeps
<1>4. ASSUME NEW c \in Calls, SendResume(c)
      PROVE  IInv'
  BY <1>4, SendResumeKeeps
<1>5. ASSUME NEW c \in Calls, LambdaDies(c)
      PROVE  IInv'
  BY <1>5, LambdaDiesKeeps
<1>6. ASSUME NEW k \in Workers, Receive(k)
      PROVE  IInv'
  <2>1. queue' \in Seq(Message) /\ Ids' = Ids
    BY <1>6, IdsOfReceive DEF Receive
  <2>2. Types'
    BY <1>6, <2>1 DEF Receive, tables, past
  <2>3. QED
    BY <1>6, <2>1, <2>2, QuietKeeps DEF Receive, tables, past
<1>7. ASSUME NEW k \in Workers, ProcessRaises(k)
      PROVE  IInv'
  <2>1. UNCHANGED <<tables, call, sqs, past>> /\ Ids' = Ids
    BY <1>7 DEF ProcessRaises, sqs, Ids
  <2>2. Types'
    BY <2>1 DEF tables, sqs, past
  <2>3. QED
    BY <2>1, <2>2, QuietKeeps DEF tables, sqs, past
<1>8. CASE FiveMinutesPass
  <2>1. Ids' = Ids /\ recent' \subseteq recent
    BY <1>8 DEF FiveMinutesPass, Ids
  <2>2. Types'
    BY <1>8 DEF FiveMinutesPass, tables, past
  <2>3. QED
    BY <1>8, <2>1, <2>2, QuietKeeps DEF FiveMinutesPass, tables, past
<1>9. CASE Reappear
  <2>1. Ids' = Ids
    BY <1>9 DEF Reappear, Ids
  <2>2. Types'
    BY <1>9 DEF Reappear, tables, past
  <2>3. QED
    BY <1>9, <2>1, <2>2, QuietKeeps DEF Reappear, tables, past
<1>10. CASE Redrive
  <2>1. queue' \in Seq(Message) /\ dead' \in SUBSET Message /\ Ids' = Ids
    BY <1>10, IdsOfRedrive DEF Redrive
  <2>2. Types'
    BY <1>10, <2>1 DEF Redrive, tables, past
  <2>3. QED
    BY <1>10, <2>1, <2>2, QuietKeeps DEF Redrive, tables, past
<1>11. ASSUME NEW w \in Workflows, RunElsewhere(w)
       PROVE  IInv'
  <2>1. Ids' = Ids /\ UNCHANGED <<call, sqs, past>>
    BY <1>11 DEF RunElsewhere, sqs, Ids
  <2>2. Types'
    BY <1>11, <2>1 DEF RunElsewhere, sqs, past
  <2>3. \A v \in Workflows : row'[v] = "none" <=> row[v] = "none"
    BY <1>11 DEF RunElsewhere
  <2>4. QED
    BY <2>1, <2>2, <2>3, QuietKeeps DEF sqs, past
<1>12. CASE UNCHANGED vars
  <2>1. UNCHANGED <<tables, call, sqs, past>> /\ Ids' = Ids
    BY <1>12 DEF vars, sqs, Ids
  <2>2. Types'
    BY <2>1 DEF tables, sqs, past
  <2>3. QED
    BY <2>1, <2>2, QuietKeeps DEF tables, sqs, past
<1>13. QED
  BY <1>1, <1>2, <1>3, <1>4, <1>5, <1>6, <1>7, <1>8, <1>9, <1>10, <1>11, <1>12
     DEF Next, Lambda, Worker

LEMMA Inductive == Spec => []IInv
<1>1. Init => IInv
  BY InitInv
<1>2. IInv /\ [Next]_vars => IInv'
  BY StepKeeps
<1>3. QED
  BY <1>1, <1>2, PTL DEF Spec

\* A workflow without a message was paid for by an invocation that died between its commit and
\* its send: so many crashes, so many workflows, for any number of either
\* (handle_create_workflow).
THEOREM StrandedBounded == Spec => []StrandedPaidByCrashes
<1>1. IInv => StrandedPaidByCrashes
  <2>1. \A w \in Workflows : Sent(w) = {} <=> <<w, 0>> \notin Ids
    BY DEF Sent, Ids
  <2>2. Stranded = {w \in Workflows : row[w] # "none" /\ ~Sending(w) /\ Sent(w) = {}}
    BY <2>1 DEF Stranded
  <2>3. QED
    BY <2>2 DEF IInv, Paid, StrandedPaidByCrashes
<1>2. QED
  BY <1>1, Inductive, PTL

\* Each answer that promised a message has one of its own, however many invocations run at
\* once and whatever SQS takes for a duplicate (handle_create_workflow, handle_approve_workflow).
THEOREM AnswersQueued == Spec => []EveryAnswerIsQueued
<1>1. IInv => EveryAnswerIsQueued
  <2> SUFFICES ASSUME IInv PROVE EveryAnswerIsQueued
    OBVIOUS
  <2>1. \A w \in answered : Sent(w) # {}
    <3>1. \A w \in answered : <<w, 0>> \in Ids
      BY DEF IInv, Fresh
    <3>2. QED
      BY <3>1 DEF Sent, Ids
  <2>2. {m.id : m \in {x \in ToSet(queue) \cup dead : x.id[2] # 0}} = ResumeIds
    BY DEF ResumeIds, Ids
  <2>3. QED
    BY <2>1, <2>2 DEF IInv, Counted, EveryAnswerIsQueued
<1>2. QED
  BY <1>1, Inductive, PTL
=============================================================================
