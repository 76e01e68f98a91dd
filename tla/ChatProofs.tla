----------------------------- MODULE ChatProofs -----------------------------
(***************************************************************************)
(* Proofs about Chat, for all numbers of questions, connections and chats  *)
(* over HTTP and for all lengths of the writer's queue.                    *)
(***************************************************************************)
EXTENDS Chat, TLAPS

\* Tuples of variables, expanded in every step proof.
USE DEF vars, sessVars, connVars, memVars, taskVars, noteVars, serverVars, ServerRest

-----------------------------------------------------------------------------
(***************************************************************************)
(* The numbers of questions and of chats over HTTP.                        *)
(***************************************************************************)
LEMMA Numbers ==
    /\ 0 \notin Tasks /\ 0 \notin Conns
    /\ Questions \cap Rest = {} /\ Tasks = Questions \cup Rest
    /\ Conns \subseteq 0 .. MaxConns /\ Questions \subseteq 0 .. MaxAsks
    /\ 0 .. MaxAsks \subseteq {0} \cup Tasks
    /\ \A n \in 0 .. MaxConns : n # 0 => n \in Conns
    /\ \A n \in 0 .. MaxAsks : n < MaxAsks => n + 1 \in Questions
    /\ \A n \in 0 .. MaxConns : n < MaxConns => n + 1 \in Conns
  BY BoundsAssumption DEF Tasks, Questions, Rest, Conns

(***************************************************************************)
(* The rounds that pair a question with its reply, or are excused by the   *)
(* tasks o that were overtaken; and the messages that carry them.          *)
(***************************************************************************)
GoodRound(o) == {r \in Round : r.user = r.to \/ r.task \in o}
GoodDown(o) ==
    [type : {"get"}, task : Tasks]
    \cup [type : {"update"}, content : SUBSET Round]
    \cup [type : {"done"}, round : GoodRound(o)]
GoodItem(o) ==
    [op : {"append"}, round : GoodRound(o)]
    \cup [op : {"read"}, task : Tasks]
    \cup [op : {"overwrite"}, content : SUBSET Round]

\* A task in one of these steps has read the question.
Answering == {"llm", "memory", "compact", "save"}

\* A connection that is lost has no messages.
Silent == conn = 0 => up = <<>> /\ down = <<>>

\* A task that was not overtaken reads its own question.
OwnQuestion ==
    /\ \A q \in Questions :
          /\ task[q].pc \notin {"none", "done"} =>
                task[q].conn \in Conns /\ (q \in overtaken \/ text[task[q].conn] = q)
          /\ task[q].pc \in Answering => q \in overtaken \/ task[q].heard = q
    /\ \A t \in Rest :
          /\ task[t].pc \notin {"queued", "begun"}
          /\ task[t].pc \in Answering => task[t].heard = t

\* Every round on its way to the memory or the table, or there, is a good one.
GoodOnTheWay ==
    /\ down \in Seq(GoodDown(overtaken))
    /\ writeQ \in Seq(GoodItem(overtaken))
    /\ written \subseteq GoodRound(overtaken) /\ rows \subseteq GoodRound(overtaken)

IInv == TypeOK /\ Silent /\ OwnQuestion /\ GoodOnTheWay

LEMMA GoodSuffices == IInv => PairedRounds
  BY DEF IInv, GoodOnTheWay, GoodRound, PairedRounds

\* What is good remains so when further tasks are overtaken.
LEMMA GoodGrows ==
    ASSUME NEW o, NEW p, o \subseteq p
    PROVE  /\ GoodRound(o) \subseteq GoodRound(p)
           /\ GoodDown(o) \subseteq GoodDown(p)
           /\ GoodItem(o) \subseteq GoodItem(p)
<1>1. GoodRound(o) \subseteq GoodRound(p)
  BY DEF GoodRound
<1> QED
  BY <1>1 DEF GoodDown, GoodItem

\* The round of a task that answers is good.
LEMMA RoundIsGood ==
    ASSUME IInv, NEW t \in Tasks, task[t].pc \in Answering
    PROVE  RoundOf(t) \in GoodRound(overtaken)
<1>1. task[t].heard \in {0} \cup Tasks
  BY DEF IInv, TypeOK, TaskState
<1>2. CASE t \in Rest
  BY <1>1, <1>2, Numbers DEF IInv, OwnQuestion, RoundOf, Round, GoodRound
<1>3. CASE t \notin Rest
  <2>1. t \in Questions /\ task[t].conn \in Conns
    BY <1>3, Numbers DEF IInv, OwnQuestion, Answering
  <2>2. text[task[t].conn] \in {0} \cup Tasks
    BY <2>1, Numbers DEF IInv, TypeOK
  <2>3. t \in overtaken \/ (text[task[t].conn] = t /\ task[t].heard = t)
    BY <2>1 DEF IInv, OwnQuestion, Answering
  <2> QED
    BY <1>1, <1>3, <2>2, <2>3 DEF RoundOf, Round, GoodRound
<1> QED
  BY <1>2, <1>3

\* What a good message or item is.
LEMMA GoodIsTyped ==
    ASSUME NEW o
    PROVE  GoodDown(o) \subseteq DownMessage /\ GoodItem(o) \subseteq WriteItem
<1>1. GoodRound(o) \subseteq Round
  BY DEF GoodRound
<1> QED
  BY <1>1 DEF GoodDown, GoodItem, DownMessage, WriteItem

LEMMA ReplyIsGood ==
    ASSUME IInv, NEW c, NEW m \in GoodDown(overtaken), Reply(c, m)
    PROVE  /\ down' \in Seq(GoodDown(overtaken)) /\ down' \in Seq(DownMessage)
           /\ conn = 0 => down' = down
<1>1. down \in Seq(GoodDown(overtaken)) /\ down \in Seq(DownMessage)
  BY DEF IInv, GoodOnTheWay, TypeOK
<1> QED
  BY <1>1, GoodIsTyped DEF Reply

LEMMA EnqueueIsGood ==
    ASSUME IInv, NEW item \in GoodItem(overtaken), Enqueue(item)
    PROVE  /\ writeQ' \in Seq(GoodItem(overtaken)) /\ writeQ' \in Seq(WriteItem)
           /\ Len(writeQ') <= WriteQLen + 1
<1>1. /\ writeQ \in Seq(GoodItem(overtaken)) /\ writeQ \in Seq(WriteItem)
      /\ Len(writeQ) <= WriteQLen + 1
  BY DEF IInv, GoodOnTheWay, TypeOK
<1>2. CASE UNCHANGED writeQ
  BY <1>1, <1>2
<1>3. CASE Room /\ writeQ' = Append(writeQ, item)
  <2>1. writeQ' \in Seq(GoodItem(overtaken)) /\ writeQ' \in Seq(WriteItem)
    BY <1>1, <1>3, GoodIsTyped
  <2>2. Len(writeQ') = Len(writeQ) + 1
    BY <1>1, <1>3
  <2> QED
    BY <1>1, <1>3, <2>1, <2>2, BoundsAssumption DEF Room
<1> QED
  BY <1>2, <1>3 DEF Enqueue

\* The message that the device takes and the item that the writer takes.
LEMMA Received ==
    ASSUME IInv, NEW type, Incoming(type)
    PROVE  /\ Head(down) \in GoodDown(overtaken) /\ Head(down).type = type
           /\ down' \in Seq(GoodDown(overtaken)) /\ down' \in Seq(DownMessage)
           /\ conn # 0
  BY DEF IInv, GoodOnTheWay, TypeOK, Incoming, Silent

LEMMA Taken ==
    ASSUME IInv, NEW op, Item(op)
    PROVE  /\ Head(writeQ) \in GoodItem(overtaken) /\ Head(writeQ).op = op
           /\ writeQ' \in Seq(GoodItem(overtaken)) /\ writeQ' \in Seq(WriteItem)
           /\ Len(writeQ') <= WriteQLen + 1
<1>1. /\ writeQ \in Seq(GoodItem(overtaken)) /\ writeQ \in Seq(WriteItem)
      /\ Len(writeQ) <= WriteQLen + 1 /\ writeQ # <<>>
  BY DEF IInv, GoodOnTheWay, TypeOK, Item
<1>2. Len(Tail(writeQ)) = Len(writeQ) - 1 /\ Len(writeQ) \in Nat
  BY <1>1
<1> QED
  BY <1>1, <1>2, BoundsAssumption DEF Item

-----------------------------------------------------------------------------
(***************************************************************************)
(* The steps of the device and of the connection.                          *)
(***************************************************************************)

\* They leave the server's tasks alone.
LEMMA OwnQuestionKept ==
    ASSUME IInv, UNCHANGED <<task, text, overtaken>>
    PROVE  OwnQuestion'
  BY DEF IInv, OwnQuestion

LEMMA SessionKeeps ==
    ASSUME IInv, Ask \/ EndWait
    PROVE  IInv'
<1>1. CASE Ask
  <2>1. asked + 1 \in Questions /\ asked + 1 \in 0 .. MaxAsks
    BY <1>1, Numbers DEF Ask, IInv, TypeOK
  <2> DEFINE m == [type |-> "chat", q |-> asked + 1]
  <2>4. m \in UpMessage /\ up \in Seq(UpMessage)
    BY <2>1 DEF UpMessage, IInv, TypeOK
  <2>5. up' = up \/ up' = Append(up, m)
    BY <1>1 DEF Ask
  <2> HIDE DEF m
  <2>2. up' \in Seq(UpMessage) /\ conn' # 0
    BY <1>1, <2>4, <2>5 DEF Ask
  <2>3. TypeOK' /\ Silent'
    BY <1>1, <2>1, <2>2 DEF Ask, IInv, TypeOK, Silent
  <2> QED
    BY <1>1, <2>3, OwnQuestionKept DEF Ask, IInv, GoodOnTheWay
<1>2. CASE EndWait
  <2>1. wait' \in 0 .. MaxAsks /\ counted' \in {0} \cup Tasks /\ givenUp' \in BOOLEAN
    BY <1>2, BoundsAssumption DEF EndWait
  <2>2. TypeOK' /\ Silent'
    BY <1>2, <2>1 DEF EndWait, IInv, TypeOK, Silent
  <2> QED
    BY <1>2, <2>2, OwnQuestionKept DEF EndWait, IInv, GoodOnTheWay
<1> QED
  BY <1>1, <1>2

LEMMA ConnectionKeeps ==
    ASSUME IInv, Connect \/ Lose \/ Notice
    PROVE  IInv'
<1>1. CASE Connect
  <2>1. opened + 1 \in 0 .. MaxConns
    BY <1>1, Numbers DEF Connect, IInv, TypeOK
  <2>2. TypeOK' /\ Silent'
    BY <1>1, <2>1 DEF Connect, IInv, TypeOK, Silent
  <2> QED
    BY <1>1, <2>2, OwnQuestionKept DEF Connect, IInv, GoodOnTheWay
<1>2. CASE Lose
  <2>1. 0 \in 0 .. MaxAsks /\ 0 \in 0 .. MaxConns
    BY BoundsAssumption
  <2>2. up' \in Seq(UpMessage) /\ down' \in Seq(DownMessage)
    BY <1>2 DEF Lose
  <2>3. TypeOK' /\ Silent'
    BY <1>2, <2>1, <2>2 DEF Lose, IInv, TypeOK, Silent
  <2> QED
    BY <1>2, <2>3, OwnQuestionKept DEF Lose, IInv, GoodOnTheWay
<1>3. CASE Notice
  <2>1. TypeOK' /\ Silent'
    BY <1>3, BoundsAssumption DEF Notice, IInv, TypeOK, Silent
  <2> QED
    BY <1>3, <2>1, OwnQuestionKept DEF Notice, IInv, GoodOnTheWay
<1> QED
  BY <1>1, <1>2, <1>3

LEMMA ChatDoneKeeps ==
    ASSUME IInv, ChatDone
    PROVE  IInv'
<1>1. Incoming("done") /\ Enqueue([op |-> "append", round |-> Head(down).round])
  BY DEF ChatDone
<1>2. Head(down).round \in GoodRound(overtaken)
  BY <1>1, Received DEF GoodDown
<1>3. [op |-> "append", round |-> Head(down).round] \in GoodItem(overtaken)
  BY <1>2 DEF GoodItem
<1>4. counted' \in {0} \cup Tasks
  BY <1>2 DEF ChatDone, IInv, TypeOK, GoodRound, Round
<1>5. TypeOK' /\ Silent' /\ GoodOnTheWay'
  BY <1>1, <1>3, <1>4, Received, EnqueueIsGood
     DEF ChatDone, IInv, TypeOK, Silent, GoodOnTheWay
<1> QED
  BY <1>5, OwnQuestionKept DEF ChatDone, IInv

LEMMA GetMemoryKeeps ==
    ASSUME IInv, GetMemory
    PROVE  IInv'
<1>1. Incoming("get") /\ Head(down).task \in Tasks
  BY Received DEF GetMemory, GoodDown
<1>2. [op |-> "read", task |-> Head(down).task] \in GoodItem(overtaken)
  BY <1>1 DEF GoodItem
<1>3. [type |-> "data", task |-> Head(down).task, content |-> {}] \in UpMessage
  BY <1>1 DEF UpMessage
<1>4. Enqueue([op |-> "read", task |-> Head(down).task])
  BY DEF GetMemory, Enqueue
<1> DEFINE m == [type |-> "data", task |-> Head(down).task, content |-> {}]
<1>5. (up' = up \/ up' = Append(up, m)) /\ conn' = conn /\ up \in Seq(UpMessage)
  BY DEF GetMemory, IInv, TypeOK
<1>6. m \in UpMessage
  BY <1>3
<1> HIDE DEF m
<1>7. up' \in Seq(UpMessage) /\ conn' # 0
  BY <1>1, <1>5, <1>6, Received
<1>8. TypeOK' /\ Silent' /\ GoodOnTheWay'
  BY <1>1, <1>2, <1>4, <1>7, Received, EnqueueIsGood
     DEF GetMemory, IInv, TypeOK, Silent, GoodOnTheWay
<1> QED
  BY <1>8, OwnQuestionKept DEF GetMemory, IInv

LEMMA MemoryUpdateKeeps ==
    ASSUME IInv, MemoryUpdate
    PROVE  IInv'
<1>1. Incoming("update") /\ Head(down).content \in SUBSET Round
  BY Received DEF MemoryUpdate, GoodDown
<1>2. [op |-> "overwrite", content |-> Head(down).content] \in GoodItem(overtaken)
  BY <1>1 DEF GoodItem
<1>3. TypeOK' /\ Silent' /\ GoodOnTheWay'
  BY <1>1, <1>2, Received, EnqueueIsGood
     DEF MemoryUpdate, IInv, TypeOK, Silent, GoodOnTheWay
<1> QED
  BY <1>3, OwnQuestionKept DEF MemoryUpdate, IInv

LEMMA WriterKeeps ==
    ASSUME IInv, Writer
    PROVE  IInv'
<1>1. CASE WriteAppend
  <2>1. Item("append") /\ Head(writeQ).round \in GoodRound(overtaken)
    BY <1>1, Taken DEF WriteAppend, GoodItem
  <2>2. Head(writeQ).round \in Round
    BY <2>1 DEF GoodRound
  <2>3. TypeOK' /\ Silent' /\ GoodOnTheWay'
    BY <1>1, <2>1, <2>2, Taken DEF WriteAppend, IInv, TypeOK, Silent, GoodOnTheWay
  <2> QED
    BY <1>1, <2>3, OwnQuestionKept DEF WriteAppend, IInv
<1>2. CASE WriteOver
  <2>1. Item("overwrite") /\ Head(writeQ).content \in SUBSET Round
    BY <1>2, Taken DEF WriteOver, GoodItem
  <2>2. TypeOK' /\ Silent' /\ GoodOnTheWay'
    BY <1>2, <2>1, Taken DEF WriteOver, IInv, TypeOK, Silent, GoodOnTheWay
  <2> QED
    BY <1>2, <2>2, OwnQuestionKept DEF WriteOver, IInv
<1>3. CASE Read
  <2>1. Item("read") /\ Head(writeQ).task \in Tasks
    BY <1>3, Taken DEF Read, GoodItem
  <2>2. [type |-> "data", task |-> Head(writeQ).task, content |-> file] \in UpMessage
    BY <2>1 DEF UpMessage, IInv, TypeOK
  <2>3. up' \in Seq(UpMessage) /\ (conn = 0 => up' = up)
    BY <1>3, <2>2 DEF Read, IInv, TypeOK
  <2>4. TypeOK' /\ Silent' /\ GoodOnTheWay'
    BY <1>3, <2>1, <2>3, Taken DEF Read, IInv, TypeOK, Silent, GoodOnTheWay
  <2> QED
    BY <1>3, <2>4, OwnQuestionKept DEF Read, IInv
<1> QED
  BY <1>1, <1>2, <1>3 DEF Writer

-----------------------------------------------------------------------------
(***************************************************************************)
(* The steps of the server.                                                *)
(***************************************************************************)

\* The message that the server takes.
LEMMA Arrived ==
    ASSUME IInv, NEW type, Arriving(type)
    PROVE  /\ Head(up) \in UpMessage /\ Head(up).type = type
           /\ up' \in Seq(UpMessage) /\ conn \in Conns
  BY Numbers DEF IInv, TypeOK, Arriving, Silent

LEMMA ReceiveChatKeeps ==
    ASSUME IInv, ReceiveChat
    PROVE  IInv'
<1> DEFINE q == Head(up).q
           new == [NoTask EXCEPT !.pc = "queued", !.conn = conn]
           late == {t \in Questions : task[t].conn = conn}
<1>1. /\ q \in Questions /\ conn \in Conns /\ up' \in Seq(UpMessage)
      /\ text' = [text EXCEPT ![conn] = q] /\ task' = [task EXCEPT ![q] = new]
      /\ overtaken' = overtaken \cup late /\ fifo' = Append(fifo, q)
  BY Arrived DEF ReceiveChat, UpMessage
<1>2. new \in TaskState /\ new.pc = "queued" /\ new.conn = conn
  BY <1>1, Numbers DEF NoTask, TaskState, Steps
<1> HIDE DEF q, new
<1>3. TypeOK'
  <2>1. q \in Tasks /\ q \in 0 .. MaxAsks
    BY <1>1, Numbers
  <2>2. text' \in [Conns -> 0 .. MaxAsks] /\ task' \in [Tasks -> TaskState]
    BY <1>1, <1>2, <2>1 DEF IInv, TypeOK
  <2>3. fifo' \in Seq(Questions) /\ overtaken' \in SUBSET Questions
    BY <1>1 DEF IInv, TypeOK
  <2> QED
    BY <1>1, <2>2, <2>3 DEF ReceiveChat, IInv, TypeOK
<1>4. Silent'
  BY <1>1, Numbers DEF ReceiveChat, IInv, Silent
<1>5. OwnQuestion'
  <2>1. /\ \A t \in Tasks : task'[t] = IF t = q THEN new ELSE task[t]
        /\ \A c \in Conns : text'[c] = IF c = conn THEN q ELSE text[c]
    BY <1>1 DEF IInv, TypeOK
  <2>2. ASSUME NEW t \in Questions
        PROVE  /\ task'[t].pc \notin {"none", "done"} =>
                    task'[t].conn \in Conns
                    /\ (t \in overtaken' \/ text'[task'[t].conn] = t)
               /\ task'[t].pc \in Answering => t \in overtaken' \/ task'[t].heard = t
    <3>1. CASE t = q
      BY <1>1, <1>2, <2>1, <3>1, Numbers DEF Answering
    <3>2. CASE t # q
      BY <1>1, <2>1, <3>2, Numbers DEF IInv, OwnQuestion
    <3> QED
      BY <3>1, <3>2
  <2>3. \A t \in Rest : task'[t] = task[t]
    BY <1>1, <2>1, Numbers
  <2> QED
    BY <2>2, <2>3 DEF IInv, OwnQuestion
<1>6. GoodOnTheWay'
  <2>1. /\ GoodRound(overtaken) \subseteq GoodRound(overtaken')
        /\ GoodDown(overtaken) \subseteq GoodDown(overtaken')
        /\ GoodItem(overtaken) \subseteq GoodItem(overtaken')
    BY <1>1, GoodGrows
  <2>2. UNCHANGED <<down, writeQ, written, rows>>
    BY DEF ReceiveChat
  <2> QED
    BY <2>1, <2>2 DEF IInv, GoodOnTheWay
<1> QED
  BY <1>3, <1>4, <1>5, <1>6 DEF IInv

\* A task that takes a step keeps its connection and the question it has read.
LEMMA TaskSteps ==
    ASSUME TypeOK, NEW t \in Tasks, NEW s \in Steps, NEW g \in SUBSET Round,
           \/ task' = [task EXCEPT ![t].pc = s]
           \/ task' = [task EXCEPT ![t].pc = s, ![t].got = g]
           \/ task' = [task EXCEPT ![t].pc = s, ![t].read = TRUE]
    PROVE  /\ task' \in [Tasks -> TaskState] /\ task'[t].pc = s
           /\ \A u \in Tasks : u # t => task'[u] = task[u]
           /\ \A u \in Tasks : /\ task'[u].conn = task[u].conn
                               /\ task'[u].heard = task[u].heard
<1>1. task \in [Tasks -> TaskState] /\ task[t] \in TaskState
  BY DEF TypeOK
<1> DEFINE r1 == [task[t] EXCEPT !.pc = s]
           r2 == [task[t] EXCEPT !.pc = s, !.got = g]
           r3 == [task[t] EXCEPT !.pc = s, !.read = TRUE]
<1>2. \A r \in {r1, r2, r3} :
         /\ r \in TaskState /\ r.pc = s
         /\ r.conn = task[t].conn /\ r.heard = task[t].heard
  BY <1>1 DEF TaskState
<1>3. \E r \in {r1, r2, r3} : task' = [task EXCEPT ![t] = r]
  BY <1>1
<1> HIDE DEF r1, r2, r3
<1> QED
  BY <1>1, <1>2, <1>3

LEMMA ReceiveMemoryKeeps ==
    ASSUME IInv, ReceiveMemory
    PROVE  IInv'
<1> DEFINE t == Head(up).task
           c == Head(up).content
<1>1. t \in Tasks /\ c \in SUBSET Round /\ conn \in Conns /\ up' \in Seq(UpMessage)
  BY Arrived DEF ReceiveMemory, UpMessage
<1>2. \/ UNCHANGED task
      \/ /\ task[t].pc = "memory"
         /\ \/ task' = [task EXCEPT ![t].pc = "llm"]
            \/ task' = [task EXCEPT ![t].pc = "compact", ![t].got = c]
  BY DEF ReceiveMemory, GoTo
<1> HIDE DEF t, c
<1>3. /\ task' \in [Tasks -> TaskState]
      /\ \A u \in Tasks :
           /\ task'[u].conn = task[u].conn /\ task'[u].heard = task[u].heard
           /\ \/ task'[u].pc = task[u].pc
              \/ task[u].pc = "memory" /\ task'[u].pc \in {"llm", "compact"}
  <2>1. CASE UNCHANGED task
    BY <2>1 DEF IInv, TypeOK
  <2>2. CASE task[t].pc = "memory" /\ task' = [task EXCEPT ![t].pc = "llm"]
    BY <1>1, <2>2, TaskSteps DEF IInv, Steps
  <2>3. CASE /\ task[t].pc = "memory"
             /\ task' = [task EXCEPT ![t].pc = "compact", ![t].got = c]
    BY <1>1, <2>3, TaskSteps DEF IInv, Steps
  <2> QED
    BY <1>2, <2>1, <2>2, <2>3
<1>4. TypeOK'
  BY <1>1, <1>3 DEF ReceiveMemory, IInv, TypeOK
<1>5. OwnQuestion'
  <2>1. UNCHANGED <<text, overtaken>>
    BY DEF ReceiveMemory
  <2> QED
    BY <1>3, <2>1, Numbers DEF IInv, OwnQuestion, Answering
<1> QED
  BY <1>1, <1>4, <1>5, Numbers DEF ReceiveMemory, IInv, Silent, GoodOnTheWay

\* A task whose step keeps what it has read, and does not begin to answer with it,
\* leaves the invariant on the questions as it is.
LEMMA OwnQuestionStays ==
    ASSUME IInv, NEW t \in Tasks, NEW s \in Steps, UNCHANGED <<text, overtaken>>,
           task[t].pc # "none", task[t].pc # "done", s # "none",
           s \in Answering <=> task[t].pc \in Answering,
           t \in Rest => s \notin {"queued", "begun"},
           task'[t].pc = s,
           \A u \in Tasks : u # t => task'[u] = task[u],
           \A u \in Tasks : /\ task'[u].conn = task[u].conn
                            /\ task'[u].heard = task[u].heard
    PROVE  OwnQuestion'
  BY Numbers DEF IInv, OwnQuestion

LEMMA BeginKeeps ==
    ASSUME IInv, NEW t \in Tasks, Begin(t)
    PROVE  IInv'
<1>1. /\ t \in Questions /\ fifo' \in Seq(Questions) /\ task[t].pc = "queued"
      /\ task' = [task EXCEPT ![t].pc = "begun"]
  BY DEF Begin, GoTo, IInv, TypeOK
<1>2. /\ task' \in [Tasks -> TaskState] /\ task'[t].pc = "begun"
      /\ \A u \in Tasks : u # t => task'[u] = task[u]
      /\ \A u \in Tasks : /\ task'[u].conn = task[u].conn
                          /\ task'[u].heard = task[u].heard
  BY <1>1, TaskSteps DEF IInv, Steps
<1>3. OwnQuestion'
  BY <1>1, <1>2, OwnQuestionStays, Numbers DEF Begin, Steps, Answering
<1>4. TypeOK'
  BY <1>1, <1>2 DEF Begin, IInv, TypeOK
<1> QED
  BY <1>3, <1>4 DEF Begin, IInv, Silent, GoodOnTheWay

LEMMA CallModelKeeps ==
    ASSUME IInv, NEW t \in Tasks, CallModel(t)
    PROVE  IInv'
<1> DEFINE q == text[task[t].conn]
           r == [task[t] EXCEPT !.pc = "llm", !.heard = q]
<1>1. t \in Questions /\ task[t].pc = "begun" /\ task[t].conn \in Conns
  BY Numbers DEF CallModel, IInv, OwnQuestion
<1>2. q \in {0} \cup Tasks
  BY <1>1, Numbers DEF IInv, TypeOK
<1>3. t \in overtaken \/ q = t
  BY <1>1 DEF IInv, OwnQuestion
<1> HIDE DEF q
<1>4. r \in TaskState /\ r.pc = "llm" /\ r.conn = task[t].conn /\ r.heard = q
  <2>1. task[t] \in TaskState /\ "llm" \in Steps
    BY DEF IInv, TypeOK, Steps
  <2> QED
    BY <1>2, <2>1 DEF TaskState
<1>5. task' = [task EXCEPT ![t] = r]
  BY DEF CallModel, q
<1> HIDE DEF r
<1>6. task' \in [Tasks -> TaskState] /\ \A u \in Tasks : task'[u] = IF u = t THEN r ELSE task[u]
  BY <1>4, <1>5 DEF IInv, TypeOK
<1>7. TypeOK'
  BY <1>6 DEF CallModel, IInv, TypeOK
<1>8. OwnQuestion'
  <2>1. UNCHANGED <<text, overtaken>>
    BY DEF CallModel
  <2>2. t \in overtaken \/ text[task[t].conn] = t
    BY <1>3 DEF q
  <2>3. \A u \in Rest : task'[u] = task[u]
    BY <1>1, <1>6, Numbers
  <2> QED
    BY <1>1, <1>3, <1>4, <1>6, <2>1, <2>2, <2>3, Numbers DEF IInv, OwnQuestion
<1> QED
  BY <1>7, <1>8 DEF CallModel, IInv, Silent, GoodOnTheWay

LEMMA RestChatKeeps ==
    ASSUME IInv, NEW t \in Rest, RestChat(t)
    PROVE  IInv'
<1> DEFINE r == [task[t] EXCEPT !.pc = "llm", !.heard = t]
<1>1. t \in Tasks /\ t \notin Questions
  BY Numbers
<1>2. r \in TaskState /\ r.pc = "llm" /\ r.heard = t
  <2>1. task[t] \in TaskState /\ "llm" \in Steps
    BY <1>1 DEF IInv, TypeOK, Steps
  <2> QED
    BY <1>1, <2>1 DEF TaskState
<1>3. task' = [task EXCEPT ![t] = r]
  BY DEF RestChat
<1> HIDE DEF r
<1>4. task' \in [Tasks -> TaskState] /\ \A u \in Tasks : task'[u] = IF u = t THEN r ELSE task[u]
  BY <1>1, <1>2, <1>3 DEF IInv, TypeOK
<1>5. TypeOK'
  BY <1>4 DEF RestChat, IInv, TypeOK
<1>6. OwnQuestion'
  <2>1. UNCHANGED <<text, overtaken>>
    BY DEF RestChat
  <2> QED
    BY <1>1, <1>2, <1>4, <2>1, Numbers DEF IInv, OwnQuestion
<1> QED
  BY <1>5, <1>6 DEF RestChat, IInv, Silent, GoodOnTheWay

LEMMA AskMemoryKeeps ==
    ASSUME IInv, NEW t \in Tasks, AskMemory(t)
    PROVE  IInv'
<1>1. /\ task[t].pc = "llm" /\ Reply(devConn, [type |-> "get", task |-> t])
      /\ task' = [task EXCEPT ![t].pc = "memory", ![t].read = TRUE]
  BY DEF AskMemory
<1>2. [type |-> "get", task |-> t] \in GoodDown(overtaken)
  BY DEF GoodDown
<1>3. /\ task' \in [Tasks -> TaskState] /\ task'[t].pc = "memory"
      /\ \A u \in Tasks : u # t => task'[u] = task[u]
      /\ \A u \in Tasks : /\ task'[u].conn = task[u].conn
                          /\ task'[u].heard = task[u].heard
  BY <1>1, TaskSteps DEF IInv, Steps
<1>4. OwnQuestion'
  BY <1>1, <1>3, OwnQuestionStays DEF AskMemory, Steps, Answering
<1>5. TypeOK' /\ Silent' /\ GoodOnTheWay'
  BY <1>1, <1>2, <1>3, ReplyIsGood DEF AskMemory, IInv, TypeOK, Silent, GoodOnTheWay
<1> QED
  BY <1>4, <1>5 DEF IInv

LEMMA NoMemoryKeeps ==
    ASSUME IInv, NEW t \in Tasks, NoMemory(t)
    PROVE  IInv'
<1>1. task[t].pc = "memory" /\ task' = [task EXCEPT ![t].pc = "llm"]
  BY DEF NoMemory, GoTo
<1>2. /\ task' \in [Tasks -> TaskState] /\ task'[t].pc = "llm"
      /\ \A u \in Tasks : u # t => task'[u] = task[u]
      /\ \A u \in Tasks : /\ task'[u].conn = task[u].conn
                          /\ task'[u].heard = task[u].heard
  BY <1>1, TaskSteps DEF IInv, Steps
<1>3. OwnQuestion'
  BY <1>1, <1>2, OwnQuestionStays DEF NoMemory, Steps, Answering
<1>4. TypeOK'
  BY <1>2 DEF NoMemory, IInv, TypeOK
<1> QED
  BY <1>3, <1>4 DEF NoMemory, IInv, Silent, GoodOnTheWay

LEMMA CompactKeeps ==
    ASSUME IInv, NEW t \in Tasks, Compact(t)
    PROVE  IInv'
<1>1. /\ task[t].pc = "compact" /\ task' = [task EXCEPT ![t].pc = "llm", ![t].got = {}]
      /\ {} \in SUBSET Round /\ "llm" \in Steps
  BY DEF Compact, Steps
<1>2. /\ task' \in [Tasks -> TaskState] /\ task'[t].pc = "llm"
      /\ \A u \in Tasks : u # t => task'[u] = task[u]
      /\ \A u \in Tasks : /\ task'[u].conn = task[u].conn
                          /\ task'[u].heard = task[u].heard
  BY <1>1, TaskSteps DEF IInv
<1>3. OwnQuestion'
  BY <1>1, <1>2, OwnQuestionStays DEF Compact, Steps, Answering
<1>4. \A c \in {task[t].got, {}} : [type |-> "update", content |-> c] \in GoodDown(overtaken)
  BY DEF IInv, TypeOK, TaskState, GoodDown
<1>5. /\ down' \in Seq(GoodDown(overtaken)) /\ down' \in Seq(DownMessage)
      /\ conn = 0 => down' = down
  <2>1. CASE UNCHANGED down
    BY <2>1 DEF IInv, TypeOK, GoodOnTheWay
  <2>2. CASE \E c \in {task[t].got, {}} : Reply(devConn, [type |-> "update", content |-> c])
    BY <1>4, <2>2, ReplyIsGood
  <2> QED
    BY <2>1, <2>2 DEF Compact
<1>6. blanked' \in BOOLEAN /\ unlocked' \in BOOLEAN
  BY DEF Compact, IInv, TypeOK
<1>7. TypeOK' /\ Silent' /\ GoodOnTheWay'
  BY <1>2, <1>5, <1>6 DEF Compact, IInv, TypeOK, Silent, GoodOnTheWay
<1> QED
  BY <1>3, <1>7 DEF IInv

LEMMA FinishKeeps ==
    ASSUME IInv, NEW t \in Tasks, Finish(t)
    PROVE  IInv'
<1>1. task[t].pc = "llm" /\ task' = [task EXCEPT ![t].pc = "save"]
  BY DEF Finish, GoTo
<1>2. /\ task' \in [Tasks -> TaskState] /\ task'[t].pc = "save"
      /\ \A u \in Tasks : u # t => task'[u] = task[u]
      /\ \A u \in Tasks : /\ task'[u].conn = task[u].conn
                          /\ task'[u].heard = task[u].heard
  BY <1>1, TaskSteps DEF IInv, Steps
<1>3. OwnQuestion'
  BY <1>1, <1>2, OwnQuestionStays DEF Finish, Steps, Answering
<1>4. [type |-> "done", round |-> RoundOf(t)] \in GoodDown(overtaken)
  BY <1>1, RoundIsGood DEF GoodDown, Answering
<1>5. /\ down' \in Seq(GoodDown(overtaken)) /\ down' \in Seq(DownMessage)
      /\ conn = 0 => down' = down
  <2>1. CASE UNCHANGED down
    BY <2>1 DEF IInv, TypeOK, GoodOnTheWay
  <2>2. CASE Reply(task[t].conn, [type |-> "done", round |-> RoundOf(t)])
    BY <1>4, <2>2, ReplyIsGood
  <2> QED
    BY <2>1, <2>2 DEF Finish
<1>6. TypeOK' /\ Silent' /\ GoodOnTheWay'
  BY <1>2, <1>5 DEF Finish, IInv, TypeOK, Silent, GoodOnTheWay
<1> QED
  BY <1>3, <1>6 DEF IInv

\* The states of a task before its start and after its end.
LEMMA NoTaskIsTask == NoTask \in TaskState /\ NoTask.pc = "none"
  BY BoundsAssumption DEF NoTask, TaskState, Steps

LEMMA SaveKeeps ==
    ASSUME IInv, NEW t \in Tasks, Save(t)
    PROVE  IInv'
<1>1. task[t].pc = "save" /\ task' = [task EXCEPT ![t] = Done]
  BY DEF Save
<1>2. Done \in TaskState /\ Done.pc = "done"
  BY NoTaskIsTask DEF Done, TaskState, Steps
<1>3. /\ task' \in [Tasks -> TaskState]
      /\ \A u \in Tasks : task'[u] = IF u = t THEN Done ELSE task[u]
  BY <1>1, <1>2 DEF IInv, TypeOK
<1>4. OwnQuestion'
  <2>1. UNCHANGED <<text, overtaken>>
    BY DEF Save
  <2> QED
    BY <1>2, <1>3, <2>1, Numbers DEF IInv, OwnQuestion, Answering
<1>5. RoundOf(t) \in GoodRound(overtaken) /\ RoundOf(t) \in Round
  BY <1>1, RoundIsGood DEF Answering, GoodRound
<1>6. TypeOK' /\ GoodOnTheWay'
  BY <1>3, <1>5 DEF Save, IInv, TypeOK, GoodOnTheWay
<1> QED
  BY <1>4, <1>6 DEF Save, IInv, Silent

-----------------------------------------------------------------------------
(***************************************************************************)
(* The invariant and what follows from it.                                 *)
(***************************************************************************)
LEMMA InitGood == Init => IInv
<1> SUFFICES ASSUME Init PROVE IInv
  OBVIOUS
<1>1. NoTask \in TaskState /\ NoTask.pc = "none"
  BY NoTaskIsTask
<1>2. Earlier \in GoodRound(overtaken) /\ Earlier \in Round
  BY DEF Earlier, GoodRound, Round
<1>3. TypeOK
  <2>1. 0 \in 0 .. MaxAsks /\ 0 \in 0 .. MaxConns
    BY BoundsAssumption
  <2>2. /\ up \in Seq(UpMessage) /\ down \in Seq(DownMessage)
        /\ writeQ \in Seq(WriteItem) /\ Len(writeQ) <= WriteQLen + 1
        /\ fifo \in Seq(Questions)
    BY BoundsAssumption DEF Init
  <2>3. task \in [Tasks -> TaskState] /\ text \in [Conns -> 0 .. MaxAsks]
    BY <1>1, <2>1 DEF Init
  <2> QED
    BY <1>2, <2>1, <2>2, <2>3 DEF Init, TypeOK
<1>4. Silent
  BY DEF Init, Silent
<1>5. OwnQuestion
  BY <1>1, Numbers DEF Init, OwnQuestion, Answering
<1>6. GoodOnTheWay
  BY <1>2 DEF Init, GoodOnTheWay
<1> QED
  BY <1>3, <1>4, <1>5, <1>6 DEF IInv

LEMMA StepKeeps == IInv /\ [Next]_vars => IInv'
<1> SUFFICES ASSUME IInv, [Next]_vars PROVE IInv'
  OBVIOUS
<1>1. CASE UNCHANGED vars
  BY <1>1 DEF IInv, TypeOK, Silent, OwnQuestion, GoodOnTheWay
<1>2. CASE Ask \/ EndWait \/ Connect \/ Lose \/ Notice
  BY <1>2, SessionKeeps, ConnectionKeeps
<1>3. CASE Device \/ Writer
  BY <1>3, ChatDoneKeeps, GetMemoryKeeps, MemoryUpdateKeeps, WriterKeeps DEF Device
<1>4. CASE Handler
  BY <1>4, ReceiveChatKeeps, ReceiveMemoryKeeps DEF Handler
<1>5. ASSUME NEW t \in Rest, RestChat(t) PROVE IInv'
  BY <1>5, RestChatKeeps
<1>6. ASSUME NEW t \in Tasks, ServerStep(t) PROVE IInv'
  BY <1>6, BeginKeeps, CallModelKeeps, AskMemoryKeeps, NoMemoryKeeps, CompactKeeps,
     FinishKeeps, SaveKeeps DEF ServerStep
<1> QED
  BY <1>1, <1>2, <1>3, <1>4, <1>5, <1>6 DEF Next

LEMMA Invariance == Spec => []IInv
  BY InitGood, StepKeeps, PTL DEF Spec

\* Every variable of the chat keeps its type, and the queue of the writer its length.
THEOREM TypeCorrect == Spec => []TypeOK
<1>1. IInv => TypeOK
  BY DEF IInv
<1> QED
  BY <1>1, Invariance, PTL

\* Memory and table pair a question with its own reply, unless a newer question came
\* on its connection: for any number of questions, connections and lost messages.
THEOREM RoundsPaired == Spec => []PairedRounds
  BY Invariance, GoodSuffices, PTL

=============================================================================
