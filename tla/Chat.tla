-------------------------------- MODULE Chat --------------------------------
(***************************************************************************)
(* A chat from the question to the memory: the voice session that asks and *)
(* waits (src/main/ai/session_mgr.c), the WebSocket task                   *)
(* (src/main/app/message_handler.c), the writer of the memory file         *)
(* (src/main/system/memory_store.c), and on the server the socket of the   *)
(* device (src/server/app/api/ws/router.py), the tool that reads and       *)
(* compacts the memory (services/tool_registry.py) and the chat over HTTP  *)
(* (api/v1/chat.py).                                                       *)
(*                                                                         *)
(* The server runs a task per question.  The tasks of a device take turns  *)
(* under its lock; a chat over HTTP takes no lock.  A task answers on the  *)
(* connection of its question; what its tools send goes to the device's    *)
(* present connection.  A connection that is lost takes its messages with  *)
(* it, and the server may notice late.  Every wait of the server has a     *)
(* time limit; the limits are steps that may come at any time.             *)
(*                                                                         *)
(* A question and the task that answers it have the same number.  What a   *)
(* text says is the number of the question it belongs to; the file holds   *)
(* the rounds it still tells of, and a compaction by the language model    *)
(* keeps all of them, fails, or returns what cannot be read.  A task asks  *)
(* for the memory at most once.                                            *)
(***************************************************************************)
EXTENDS Integers, Sequences

CONSTANTS
    MaxAsks,    \* bound: questions asked by voice
    MaxConns,   \* bound: connections of the device
    MaxRest,    \* bound: chats over HTTP
    WriteQLen   \* MEM_WRITE_Q_LEN

ASSUME BoundsAssumption ==
    /\ MaxAsks \in Nat /\ MaxConns \in Nat /\ MaxRest \in Nat
    /\ WriteQLen \in Nat

Questions == 1 .. MaxAsks
Rest == MaxAsks + 1 .. MaxAsks + MaxRest
Tasks == Questions \cup Rest
Conns == 1 .. MaxConns

VARIABLES
    \* the session
    asked,      \* questions so far
    wait,       \* the question it waits for, or 0
    counted,    \* the question whose reply moved s_chat_seq since then, or 0
    givenUp,    \* the 45 s of a question of this connection were over
    \* the connection
    conn,       \* its number, or 0
    opened,     \* connections so far
    up,         \* messages to the server
    down,       \* messages to the device
    \* the memory
    writeQ,     \* s_write_q, with the item in the writer's hands as its head
    file,       \* the rounds that MEM_FILE tells of
    written,    \* the rounds that were ever appended to it
    \* the server
    devConn,    \* device_connections of the device: a number, or 0
    text,       \* user_text of the handler of each connection
    task,       \* the tasks of handle_chat and send_message
    lock,       \* who holds the lock of the device, or 0
    fifo,       \* who waits for it
    rows,       \* the rounds in the table conversations
    \* history
    overtaken,  \* tasks that saw a newer question on their connection
    blanked,    \* a compaction returned what cannot be read
    unlocked    \* a chat over HTTP compacted the memory

sessVars == <<asked, wait, counted, givenUp>>
connVars == <<conn, opened, up, down>>
memVars == <<writeQ, file, written>>
taskVars == <<task, lock, fifo>>
noteVars == <<overtaken, blanked, unlocked>>
serverVars == <<devConn, text, taskVars, rows, noteVars>>
vars == <<sessVars, connVars, memVars, serverVars>>

\* Task 0 stands for the rounds that the memory holds from the beginning.
Round == [task : {0} \cup Tasks, user : {0} \cup Tasks, to : {0} \cup Tasks]
Earlier == [task |-> 0, user |-> 0, to |-> 0]
NoTask == [pc |-> "none", conn |-> 0, heard |-> 0, read |-> FALSE, got |-> {}]
Done == [NoTask EXCEPT !.pc = "done"]
Steps == {"none", "queued", "begun", "llm", "memory", "compact", "save", "done"}

TaskState == [pc : Steps, conn : 0 .. MaxConns, heard : {0} \cup Tasks,
              read : BOOLEAN, got : SUBSET Round]
UpMessage == [type : {"chat"}, q : Questions]
    \cup [type : {"data"}, task : Tasks, content : SUBSET Round]
DownMessage == [type : {"get"}, task : Tasks]
    \cup [type : {"update"}, content : SUBSET Round]
    \cup [type : {"done"}, round : Round]
WriteItem == [op : {"append"}, round : Round]
    \cup [op : {"read"}, task : Tasks]
    \cup [op : {"overwrite"}, content : SUBSET Round]

-----------------------------------------------------------------------------
(* The session *)

\* The sequence number is read and the question sent, which may fail.
Ask ==
    /\ wait = 0 /\ conn # 0 /\ asked < MaxAsks
    /\ asked' = asked + 1 /\ wait' = asked + 1 /\ counted' = 0
    /\ up' \in {up, Append(up, [type |-> "chat", q |-> asked + 1])}
    /\ UNCHANGED <<givenUp, conn, opened, down, memVars, serverVars>>

\* The waiting ends with a reply or after 45 s.
EndWait ==
    /\ wait # 0 /\ wait' = 0 /\ counted' = 0
    /\ givenUp' = (givenUp \/ counted = 0)
    /\ UNCHANGED <<asked, connVars, memVars, serverVars>>

-----------------------------------------------------------------------------
(* The connection *)

\* The server registers the connection in the place of any other.
Connect ==
    /\ conn = 0 /\ opened < MaxConns
    /\ opened' = opened + 1 /\ conn' = opened + 1 /\ devConn' = opened + 1
    /\ up' = <<>> /\ down' = <<>>
    /\ UNCHANGED <<sessVars, memVars, text, taskVars, rows, noteVars>>

\* A session that waits looks for the connection every 100 ms and ends with it; the
\* device connects again after 10 s.
Lose ==
    /\ conn # 0 /\ conn' = 0 /\ up' = <<>> /\ down' = <<>>
    /\ wait' = 0 /\ counted' = 0 /\ givenUp' = FALSE
    /\ UNCHANGED <<asked, opened, memVars, serverVars>>

\* The handler of a lost connection ends and removes its own entry.
Notice ==
    /\ devConn # 0 /\ devConn # conn /\ devConn' = 0
    /\ UNCHANGED <<sessVars, connVars, memVars, text, taskVars, rows, noteVars>>

\* A message to the device on connection c: lost when c is.
Reply(c, m) == down' = IF c = conn /\ c # 0 THEN Append(down, m) ELSE down

-----------------------------------------------------------------------------
(* The memory *)

\* Room in the queue of the writer, who holds one item more.
Room == Len(writeQ) <= WriteQLen

\* A full queue is waited for, at last in vain.
Enqueue(item) ==
    \/ Room /\ writeQ' = Append(writeQ, item)
    \/ ~Room /\ UNCHANGED writeQ

Incoming(type) == down # <<>> /\ Head(down).type = type /\ down' = Tail(down)

\* chat_done: the sequence number moves, the round goes to the memory.
ChatDone ==
    /\ Incoming("done")
    /\ LET m == Head(down)
       IN  /\ counted' = IF wait # 0 /\ counted = 0 THEN m.round.to ELSE counted
           /\ Enqueue([op |-> "append", round |-> m.round])
    /\ UNCHANGED <<asked, wait, givenUp, conn, opened, up, file, written, serverVars>>

\* A request that finds no room is answered at once, with nothing.
GetMemory ==
    /\ Incoming("get")
    /\ LET t == Head(down).task
       IN  \/ /\ Room /\ writeQ' = Append(writeQ, [op |-> "read", task |-> t])
              /\ UNCHANGED up
           \/ /\ ~Room /\ up' = Append(up, [type |-> "data", task |-> t, content |-> {}])
              /\ UNCHANGED writeQ
    /\ UNCHANGED <<sessVars, conn, opened, file, written, serverVars>>

MemoryUpdate ==
    /\ Incoming("update")
    /\ Enqueue([op |-> "overwrite", content |-> Head(down).content])
    /\ UNCHANGED <<sessVars, conn, opened, up, file, written, serverVars>>

Device == ChatDone \/ GetMemory \/ MemoryUpdate

Item(op) == writeQ # <<>> /\ Head(writeQ).op = op /\ writeQ' = Tail(writeQ)

WriteAppend ==
    /\ Item("append")
    /\ file' = file \cup {Head(writeQ).round}
    /\ written' = written \cup {Head(writeQ).round}
    /\ UNCHANGED <<sessVars, connVars, serverVars>>

WriteOver ==
    /\ Item("overwrite") /\ file' = Head(writeQ).content
    /\ UNCHANGED <<sessVars, connVars, written, serverVars>>

\* The answer goes to the present connection, if there is one.
Read ==
    /\ Item("read")
    /\ up' = IF conn = 0 THEN up
             ELSE Append(up, [type |-> "data", task |-> Head(writeQ).task,
                            content |-> file])
    /\ UNCHANGED <<sessVars, conn, opened, down, file, written, serverVars>>

Writer == WriteAppend \/ WriteOver \/ Read

-----------------------------------------------------------------------------
(* The server's handler of the connection *)

GoTo(t, pc) == task' = [task EXCEPT ![t].pc = pc]

Arriving(type) == up # <<>> /\ Head(up).type = type /\ up' = Tail(up)

\* user_text is kept for the device, not for the connection.
ReceiveChat_Mutant ==
    /\ Arriving("chat")
    /\ LET q == Head(up).q
       IN  /\ text' = [c \in Conns |-> q]
           /\ task' = [task EXCEPT ![q] = [NoTask EXCEPT !.pc = "queued", !.conn = conn]]
           /\ fifo' = Append(fifo, q)
           /\ overtaken' = overtaken \cup {t \in Questions : task[t].conn = conn}
    /\ UNCHANGED <<sessVars, conn, opened, down, memVars, devConn, lock, rows, blanked,
                   unlocked>>

\* user_text is one variable of the connection's handler, read by all its tasks.
ReceiveChat ==
    /\ Arriving("chat")
    /\ LET q == Head(up).q
       IN  /\ text' = [text EXCEPT ![conn] = q]
           /\ task' = [task EXCEPT ![q] = [NoTask EXCEPT !.pc = "queued", !.conn = conn]]
           /\ fifo' = Append(fifo, q)
           /\ overtaken' = overtaken \cup
                {t \in Questions : task[t].conn = conn}
    /\ UNCHANGED <<sessVars, conn, opened, down, memVars, devConn, lock, rows, blanked,
                   unlocked>>

\* The memory of a task that still waits for it.  It is compacted when it is large.
ReceiveMemory ==
    /\ Arriving("data")
    /\ LET m == Head(up)
       IN  IF task[m.task].pc = "memory"
           THEN \/ GoTo(m.task, "llm")
                \/ /\ m.content # {}
                   /\ task' = [task EXCEPT ![m.task].pc = "compact",
                                           ![m.task].got = m.content]
           ELSE UNCHANGED task
    /\ UNCHANGED <<sessVars, conn, opened, down, memVars, devConn, text, lock, fifo, rows,
                   noteVars>>

Handler == ReceiveChat \/ ReceiveMemory

-----------------------------------------------------------------------------
(* The tasks of the server *)

ServerRest == <<sessVars, conn, opened, up, memVars, devConn, text>>

\* The lock is not waited for.
Begin_Mutant(t) ==
    /\ task[t].pc = "queued" /\ fifo # <<>> /\ Head(fifo) = t
    /\ lock' = t /\ fifo' = Tail(fifo) /\ GoTo(t, "begun")
    /\ UNCHANGED <<ServerRest, down, rows, noteVars>>

\* The lock is given to those who wait in the order in which they came.
Begin(t) ==
    /\ task[t].pc = "queued" /\ fifo # <<>> /\ Head(fifo) = t /\ lock = 0
    /\ lock' = t /\ fifo' = Tail(fifo) /\ GoTo(t, "begun")
    /\ UNCHANGED <<ServerRest, down, rows, noteVars>>

\* The call of chat_with_tools, after the pet and the history have been fetched.
CallModel(t) ==
    /\ task[t].pc = "begun"
    /\ task' = [task EXCEPT ![t].pc = "llm", ![t].heard = text[task[t].conn]]
    /\ UNCHANGED <<ServerRest, down, lock, fifo, rows, noteVars>>

\* send_message of the HTTP interface.
RestChat(t) ==
    /\ task[t].pc = "none" /\ task' = [task EXCEPT ![t].pc = "llm", ![t].heard = t]
    /\ UNCHANGED <<ServerRest, down, lock, fifo, rows, noteVars>>

\* The model calls tool_history: at the device's present connection.
AskMemory(t) ==
    /\ task[t].pc = "llm" /\ ~task[t].read /\ devConn # 0
    /\ task' = [task EXCEPT ![t].pc = "memory", ![t].read = TRUE]
    /\ Reply(devConn, [type |-> "get", task |-> t])
    /\ UNCHANGED <<ServerRest, lock, fifo, rows, noteVars>>

\* The waiting ends only when the device is known to be gone.
NoMemory_Mutant(t) ==
    /\ task[t].pc = "memory" /\ devConn = 0 /\ GoTo(t, "llm")
    /\ UNCHANGED <<ServerRest, down, lock, fifo, rows, noteVars>>

\* 15 s are over.
NoMemory(t) ==
    /\ task[t].pc = "memory" /\ GoTo(t, "llm")
    /\ UNCHANGED <<ServerRest, down, lock, fifo, rows, noteVars>>

\* compact_memory keeps what it was given, fails, or, when the model's answer is not
\* the JSON it should be, returns a form without content.
Compact(t) ==
    /\ task[t].pc = "compact"
    /\ task' = [task EXCEPT ![t].pc = "llm", ![t].got = {}]
    /\ \/ /\ Reply(devConn, [type |-> "update", content |-> task[t].got])
          /\ unlocked' = (unlocked \/ t \in Rest) /\ UNCHANGED blanked
       \/ /\ Reply(devConn, [type |-> "update", content |-> {}])
          /\ blanked' = TRUE /\ UNCHANGED unlocked
       \/ UNCHANGED <<down, blanked, unlocked>>
    /\ UNCHANGED <<ServerRest, lock, fifo, rows, overtaken>>

\* The round as the task sees it now.
RoundOf(t) ==
    [task |-> t, to |-> task[t].heard,
     user |-> IF t \in Rest THEN t ELSE text[task[t].conn]]

\* chat_done on the present connection.
Finish_Mutant(t) ==
    /\ task[t].pc = "llm" /\ GoTo(t, "save")
    /\ IF t \in Rest THEN UNCHANGED down
       ELSE Reply(devConn, [type |-> "done", round |-> RoundOf(t)])
    /\ UNCHANGED <<ServerRest, lock, fifo, rows, noteVars>>

\* chat_done, on the connection of the question.
Finish(t) ==
    /\ task[t].pc = "llm" /\ GoTo(t, "save")
    /\ IF t \in Rest THEN UNCHANGED down
       ELSE Reply(task[t].conn, [type |-> "done", round |-> RoundOf(t)])
    /\ UNCHANGED <<ServerRest, lock, fifo, rows, noteVars>>

Save(t) ==
    /\ task[t].pc = "save" /\ task' = [task EXCEPT ![t] = Done]
    /\ rows' = rows \cup {RoundOf(t)}
    /\ lock' = IF t \in Rest THEN lock ELSE 0
    /\ UNCHANGED <<ServerRest, down, fifo, noteVars>>

\* What the server's scheduler carries on with.
ServerStep(t) ==
    \/ Begin(t) \/ CallModel(t) \/ AskMemory(t) \/ NoMemory(t) \/ Compact(t)
    \/ Finish(t) \/ Save(t)

-----------------------------------------------------------------------------

Init ==
    /\ asked = 0 /\ wait = 0 /\ counted = 0 /\ givenUp = FALSE
    /\ conn = 0 /\ opened = 0 /\ up = <<>> /\ down = <<>>
    /\ writeQ = <<>> /\ file = {Earlier} /\ written = {Earlier}
    /\ devConn = 0 /\ text = [c \in Conns |-> 0]
    /\ task = [t \in Tasks |-> NoTask] /\ lock = 0 /\ fifo = <<>> /\ rows = {}
    /\ overtaken = {} /\ blanked = FALSE /\ unlocked = FALSE

Next ==
    \/ Ask \/ EndWait
    \/ Connect \/ Lose \/ Notice
    \/ Device \/ Writer \/ Handler
    \/ \E t \in Rest : RestChat(t)
    \/ \E t \in Tasks : ServerStep(t)

\* The server goes on with one of its tasks: all that they wait for has a time limit.
\* Its tasks are finite, so this is fair to each of them.
Fairness == WF_vars(\E t \in Tasks : ServerStep(t))

Spec == Init /\ [][Next]_vars /\ Fairness

-----------------------------------------------------------------------------
(* Properties *)

\* The type of every variable; the queue of the writer is never longer than it is.
TypeOK ==
    /\ asked \in 0 .. MaxAsks /\ wait \in 0 .. MaxAsks
    /\ counted \in {0} \cup Tasks /\ givenUp \in BOOLEAN
    /\ conn \in 0 .. MaxConns /\ opened \in 0 .. MaxConns /\ devConn \in 0 .. MaxConns
    /\ up \in Seq(UpMessage) /\ down \in Seq(DownMessage)
    /\ writeQ \in Seq(WriteItem) /\ Len(writeQ) <= WriteQLen + 1
    /\ file \in SUBSET Round /\ written \in SUBSET Round /\ rows \in SUBSET Round
    /\ text \in [Conns -> 0 .. MaxAsks]
    /\ task \in [Tasks -> TaskState]
    /\ lock \in {0} \cup Questions /\ fifo \in Seq(Questions)
    /\ overtaken \in SUBSET Questions /\ blanked \in BOOLEAN /\ unlocked \in BOOLEAN

\* The reply that ends the waiting for a question is the reply to this question.
\* Excepted is a session that gave up on an earlier question of its connection: from
\* then on the replies may be counted one too late.
ReplyIsMine ==
    wait # 0 /\ counted # 0 => counted = wait \/ givenUp

\* The device's memory and the server's table pair a question with the reply that was
\* given to it, whatever connections are lost and replaced in the meantime.  Excepted
\* is a question that was overtaken on its own connection by a newer one: the tasks of
\* a connection share the variable that holds the text.
PairedRounds ==
    \A r \in written \cup rows : r.user = r.to \/ r.task \in overtaken

\* What was written to the memory stays in it: a compaction never overwrites a round
\* appended after it was read.  Excepted are compactions for a chat over HTTP, which
\* does not take the lock, and those whose result could not be read.
NothingForgotten == written \subseteq file \/ unlocked \/ blanked

\* A question that reaches the server is answered and saved, and gives the lock to
\* the next one, whatever is lost between server and device.
EveryQuestionEnds ==
    \A q \in Questions : task[q].pc = "queued" ~> task[q].pc = "done"
=============================================================================
