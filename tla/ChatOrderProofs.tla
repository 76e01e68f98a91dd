-------------------------- MODULE ChatOrderProofs --------------------------
(***************************************************************************)
(* Further theorems about Chat, for all numbers of questions, connections  *)
(* and chats over HTTP and for all lengths of the writer's queue: what is  *)
(* written to the memory stays in it, and a session hears the reply to its *)
(* own question.                                                           *)
(*                                                                         *)
(* Both follow from the order in which things are on their way: the        *)
(* messages to the device, the queue of its writer and the messages to the *)
(* server.  What is sent to overwrite the memory holds every round that is *)
(* ahead of it; behind a request to read the memory no round comes as long *)
(* as its task has the lock and waits; and a session has one question on   *)
(* its way at a time.                                                      *)
(***************************************************************************)
EXTENDS ChatProofs

\* Tuples of variables, expanded in every step proof.
USE DEF vars, sessVars, connVars, memVars, taskVars, noteVars, serverVars, ServerRest

-----------------------------------------------------------------------------
(* What is on its way to the memory *)

\* A question whose task has the lock.
Working == {"begun", "llm", "memory", "compact", "save"}

\* One task at a time has the lock of the device.
OneAtATime == \A q \in Questions : task[q].pc \in Working => lock = q

\* The task has asked for the memory.
Used(t) == task[t].read \/ task[t].pc = "done"

\* A question is asked once.
ChatsAreNew ==
    \A i \in DOMAIN up : up[i].type = "chat" =>
        /\ task[up[i].q].pc = "none" /\ up[i].q <= asked
        /\ \A j \in DOMAIN up : up[j].type = "chat" /\ up[j].q = up[i].q => j = i

\* Its task asks for the memory once.
RequestsAreUsed ==
    /\ \A i \in DOMAIN down : down[i].type = "get" => Used(down[i].task)
    /\ \A i \in DOMAIN writeQ : writeQ[i].op = "read" => Used(writeQ[i].task)
    /\ \A i \in DOMAIN up : up[i].type = "data" => Used(up[i].task)

AskedOnce ==
    /\ ChatsAreNew /\ RequestsAreUsed
    /\ \A q \in Questions : task[q].pc # "none" => q <= asked
    /\ \A t \in Tasks : task[t].pc = "none" => ~task[t].read

\* The rounds in c are all that have been written and all that are on their way.
Covers(c) ==
    /\ written \subseteq c
    /\ \A i \in DOMAIN writeQ : writeQ[i].op = "append" => writeQ[i].round \in c
    /\ \A i \in DOMAIN down : down[i].type = "done" => down[i].round \in c

\* The task of a question waits for the memory.
Waits(t) == t \in Questions /\ task[t].pc = "memory"

\* What will overwrite the file holds the rounds that are written before it.
OverSafe ==
    \A i \in DOMAIN writeQ : writeQ[i].op = "overwrite" =>
        /\ written \subseteq writeQ[i].content
        /\ \A j \in DOMAIN writeQ : j < i /\ writeQ[j].op = "append" =>
             writeQ[j].round \in writeQ[i].content

UpdateSafe ==
    \A i \in DOMAIN down : down[i].type = "update" =>
        /\ written \subseteq down[i].content
        /\ \A j \in DOMAIN writeQ : writeQ[j].op = "append" =>
             writeQ[j].round \in down[i].content
        /\ \A j \in DOMAIN down : j < i /\ down[j].type = "done" =>
             down[j].round \in down[i].content

\* Behind a request of a task that waits no round is on its way.
ReadSafe ==
    \A i \in DOMAIN writeQ : writeQ[i].op = "read" /\ Waits(writeQ[i].task) =>
        /\ \A j \in DOMAIN writeQ : j > i => writeQ[j].op # "append"
        /\ \A j \in DOMAIN down : down[j].type # "done"

GetSafe ==
    \A i \in DOMAIN down : down[i].type = "get" /\ Waits(down[i].task) =>
        \A j \in DOMAIN down : j > i => down[j].type # "done"

\* What such a task is given or has been given is all there is.
DataSafe ==
    \A i \in DOMAIN up : up[i].type = "data" /\ Waits(up[i].task) =>
        up[i].content = {} \/ Covers(up[i].content)

GotSafe == \A q \in Questions : task[q].pc = "compact" => Covers(task[q].got)

Safe ==
    /\ written \subseteq file /\ OverSafe /\ UpdateSafe /\ ReadSafe /\ GetSafe
    /\ DataSafe /\ GotSafe

Kept == ~unlocked /\ ~blanked => Safe

MInv == IInv /\ OneAtATime /\ AskedOnce /\ Kept

-----------------------------------------------------------------------------
(* Sequences *)

\* t is s without its first element, or with m behind its last.
IsTail(s, t) ==
    /\ 1 \in DOMAIN s /\ DOMAIN s \subseteq Nat /\ DOMAIN t \subseteq Nat
    /\ \A i \in DOMAIN t : i > 0 /\ i + 1 \in DOMAIN s /\ t[i] = s[i + 1]

IsAppend(s, t, m) ==
    /\ DOMAIN s \subseteq Nat /\ Len(s) + 1 \in Nat
    /\ DOMAIN t = DOMAIN s \cup {Len(s) + 1} /\ t[Len(s) + 1] = m
    /\ \A i \in DOMAIN s : i < Len(s) + 1 /\ t[i] = s[i]

\* Taking the first element of a sequence and adding one behind its last.
LEMMA Sequence ==
    ASSUME NEW T, NEW s \in Seq(T)
    PROVE  /\ s # <<>> => IsTail(s, Tail(s)) /\ s[1] = Head(s)
           /\ \A m \in T : IsAppend(s, Append(s, m), m)
<1>1. DOMAIN s = 1 .. Len(s) /\ Len(s) \in Nat
  OBVIOUS
<1>2. ASSUME s # <<>>
      PROVE  IsTail(s, Tail(s)) /\ s[1] = Head(s)
  <2>1. Tail(s) \in Seq(T) /\ Len(Tail(s)) = Len(s) - 1 /\ Len(s) >= 1
    BY <1>1, <1>2
  <2>2. DOMAIN Tail(s) = 1 .. Len(s) - 1
    BY <2>1
  <2>3. \A i \in 1 .. Len(s) - 1 : Tail(s)[i] = s[i + 1]
    BY <1>2, <2>1
  <2>4. 1 \in 1 .. Len(s) /\ \A i \in 1 .. Len(s) - 1 : i > 0 /\ i + 1 \in 1 .. Len(s)
    BY <1>1, <2>1
  <2>5. IsTail(s, Tail(s))
    BY <1>1, <2>2, <2>3, <2>4 DEF IsTail
  <2> QED
    BY <1>2, <2>5
<1>3. ASSUME NEW m \in T
      PROVE  IsAppend(s, Append(s, m), m)
  <2> DEFINE t == Append(s, m)
  <2>1. Len(t) = Len(s) + 1 /\ t[Len(s) + 1] = m /\ \A i \in 1 .. Len(s) : t[i] = s[i]
    BY <1>1
  <2>2. DOMAIN t = 1 .. Len(s) + 1
    BY <2>1
  <2> HIDE DEF t
  <2>3. 1 .. Len(s) + 1 = (1 .. Len(s)) \cup {Len(s) + 1}
    BY <1>1
  <2>4. IsAppend(s, t, m)
    BY <1>1, <2>1, <2>2, <2>3 DEF IsAppend
  <2> QED
    BY <2>4 DEF t
<1> QED
  BY <1>2, <1>3

\* What the steps do to the three sequences.
LEMMA Arrivals ==
    ASSUME IInv
    PROVE  /\ \A type : Incoming(type) =>
                IsTail(down, down') /\ down[1] = Head(down) /\ down[1].type = type
           /\ \A op : Item(op) =>
                IsTail(writeQ, writeQ') /\ writeQ[1] = Head(writeQ) /\ writeQ[1].op = op
           /\ \A type : Arriving(type) =>
                IsTail(up, up') /\ up[1] = Head(up) /\ up[1].type = type
<1>1. down \in Seq(DownMessage) /\ writeQ \in Seq(WriteItem) /\ up \in Seq(UpMessage)
  BY DEF IInv, TypeOK
<1> QED
  BY <1>1, Sequence DEF Incoming, Item, Arriving

\* What is sent goes behind everything that is on its way.
LEMMA Departures ==
    ASSUME IInv
    PROVE  /\ \A c, m : Reply(c, m) /\ m \in DownMessage =>
                down' = down \/ IsAppend(down, down', m)
           /\ \A item : Enqueue(item) /\ item \in WriteItem =>
                writeQ' = writeQ \/ IsAppend(writeQ, writeQ', item)
           /\ \A m : up' = Append(up, m) /\ m \in UpMessage => IsAppend(up, up', m)
<1>1. down \in Seq(DownMessage) /\ writeQ \in Seq(WriteItem) /\ up \in Seq(UpMessage)
  BY DEF IInv, TypeOK
<1> QED
  BY <1>1, Sequence DEF Reply, Enqueue

\* The messages the steps send.
LEMMA Messages ==
    /\ \A t \in Tasks : [type |-> "get", task |-> t] \in DownMessage
    /\ \A c \in SUBSET Round : [type |-> "update", content |-> c] \in DownMessage
    /\ \A r \in Round : [type |-> "done", round |-> r] \in DownMessage
                        /\ [op |-> "append", round |-> r] \in WriteItem
    /\ \A t \in Tasks : [op |-> "read", task |-> t] \in WriteItem
    /\ \A c \in SUBSET Round : [op |-> "overwrite", content |-> c] \in WriteItem
    /\ \A q \in Questions : [type |-> "chat", q |-> q] \in UpMessage
    /\ \A t \in Tasks, c \in SUBSET Round :
         [type |-> "data", task |-> t, content |-> c] \in UpMessage
  BY DEF DownMessage, WriteItem, UpMessage

\* The messages that arrive.
LEMMA Contents ==
    ASSUME IInv
    PROVE  /\ Incoming("get") => Head(down).task \in Tasks
           /\ Incoming("update") => Head(down).content \in SUBSET Round
           /\ Incoming("done") => Head(down).round \in Round
           /\ Arriving("chat") => Head(up).q \in Questions
           /\ Arriving("data") => Head(up).task \in Tasks /\ Head(up).content \in SUBSET Round
           /\ Item("append") => Head(writeQ).round \in Round
           /\ Item("overwrite") => Head(writeQ).content \in SUBSET Round
           /\ Item("read") => Head(writeQ).task \in Tasks
<1>1. down \in Seq(DownMessage) /\ writeQ \in Seq(WriteItem) /\ up \in Seq(UpMessage)
  BY DEF IInv, TypeOK
<1>2. \A type : Incoming(type) => Head(down) \in DownMessage /\ Head(down).type = type
  BY <1>1 DEF Incoming
<1>3. \A op : Item(op) => Head(writeQ) \in WriteItem /\ Head(writeQ).op = op
  BY <1>1 DEF Item
<1>4. \A type : Arriving(type) => Head(up) \in UpMessage /\ Head(up).type = type
  BY <1>1 DEF Arriving
<1>5. /\ Incoming("get") => Head(down).task \in Tasks
      /\ Incoming("update") => Head(down).content \in SUBSET Round
      /\ Incoming("done") => Head(down).round \in Round
  BY <1>2 DEF DownMessage
<1>6. /\ Arriving("chat") => Head(up).q \in Questions
      /\ Arriving("data") => Head(up).task \in Tasks /\ Head(up).content \in SUBSET Round
  BY <1>4 DEF UpMessage
<1>7. /\ Item("append") => Head(writeQ).round \in Round
      /\ Item("overwrite") => Head(writeQ).content \in SUBSET Round
      /\ Item("read") => Head(writeQ).task \in Tasks
  BY <1>3 DEF WriteItem
<1> QED
  BY <1>5, <1>6, <1>7

-----------------------------------------------------------------------------
(* Tasks *)

\* The steps of a task: it changes only itself.
OwnStep(t, s) ==
    /\ task'[t].pc = s /\ task'[t].conn = task[t].conn
    /\ \A u \in Tasks \ {t} : task'[u] = task[u]

\* What each step of the server does to its task.
LEMMA TaskMoves ==
    ASSUME IInv, NEW t \in Tasks
    PROVE  /\ Begin(t) => /\ OwnStep(t, "begun") /\ task[t].pc = "queued"
                          /\ task'[t].read = task[t].read
           /\ CallModel(t) => /\ OwnStep(t, "llm") /\ task[t].pc = "begun"
                              /\ task'[t].heard = text[task[t].conn]
                              /\ task'[t].read = task[t].read
           /\ RestChat(t) => /\ OwnStep(t, "llm") /\ task[t].pc = "none"
                             /\ task'[t].read = task[t].read
           /\ AskMemory(t) => /\ OwnStep(t, "memory") /\ task[t].pc = "llm"
                              /\ task'[t].heard = task[t].heard
                              /\ ~task[t].read /\ task'[t].read
           /\ NoMemory(t) => /\ OwnStep(t, "llm") /\ task[t].pc = "memory"
                             /\ task'[t].heard = task[t].heard
                             /\ task'[t].read = task[t].read
           /\ Compact(t) => /\ OwnStep(t, "llm") /\ task[t].pc = "compact"
                            /\ task'[t].heard = task[t].heard
                            /\ task'[t].read = task[t].read
           /\ Finish(t) => /\ OwnStep(t, "save") /\ task[t].pc = "llm"
                           /\ task'[t].heard = task[t].heard
                           /\ task'[t].read = task[t].read
           /\ Save(t) => /\ task'[t].pc = "done" /\ task'[t].conn = 0 /\ task[t].pc = "save"
                         /\ \A u \in Tasks \ {t} : task'[u] = task[u]
<1>1. task \in [Tasks -> TaskState] /\ task[t] \in TaskState
  BY DEF IInv, TypeOK
<1>2. task[t] = [pc |-> task[t].pc, conn |-> task[t].conn, heard |-> task[t].heard,
                 read |-> task[t].read, got |-> task[t].got]
  BY <1>1 DEF TaskState
<1>3. Begin(t) => /\ OwnStep(t, "begun") /\ task[t].pc = "queued"
                  /\ task'[t].read = task[t].read
  BY <1>1 DEF Begin, GoTo, OwnStep, TaskState
<1>4. CallModel(t) => /\ OwnStep(t, "llm") /\ task[t].pc = "begun"
                      /\ task'[t].heard = text[task[t].conn]
                      /\ task'[t].read = task[t].read
  BY <1>1 DEF CallModel, OwnStep, TaskState
<1>5. RestChat(t) => /\ OwnStep(t, "llm") /\ task[t].pc = "none"
                     /\ task'[t].read = task[t].read
  BY <1>1 DEF RestChat, OwnStep, TaskState
<1>6. AskMemory(t) => /\ OwnStep(t, "memory") /\ task[t].pc = "llm"
                      /\ task'[t].heard = task[t].heard
                      /\ ~task[t].read /\ task'[t].read
  BY <1>1 DEF AskMemory, OwnStep, TaskState
<1>7. NoMemory(t) => /\ OwnStep(t, "llm") /\ task[t].pc = "memory"
                     /\ task'[t].heard = task[t].heard
                     /\ task'[t].read = task[t].read
  BY <1>1 DEF NoMemory, GoTo, OwnStep, TaskState
<1>8. Compact(t) => /\ OwnStep(t, "llm") /\ task[t].pc = "compact"
                    /\ task'[t].heard = task[t].heard
                    /\ task'[t].read = task[t].read
  BY <1>1 DEF Compact, OwnStep, TaskState
<1>9. Finish(t) => /\ OwnStep(t, "save") /\ task[t].pc = "llm"
                   /\ task'[t].heard = task[t].heard
                   /\ task'[t].read = task[t].read
  BY <1>1 DEF Finish, GoTo, OwnStep, TaskState
<1>10. Save(t) => /\ task'[t].pc = "done" /\ task'[t].conn = 0 /\ task[t].pc = "save"
                  /\ \A u \in Tasks \ {t} : task'[u] = task[u]
  BY <1>1 DEF Save, Done, NoTask
<1> QED
  BY <1>3, <1>4, <1>5, <1>6, <1>7, <1>8, <1>9, <1>10

\* What the handler of the connection does to a task.
LEMMA HandlerMoves ==
    ASSUME IInv
    PROVE  /\ ReceiveChat =>
                LET q == Head(up).q
                IN  /\ q \in Questions /\ task'[q].pc = "queued" /\ task'[q].conn = conn
                    /\ \A u \in Tasks \ {q} : task'[u] = task[u]
           /\ ReceiveMemory =>
                LET t == Head(up).task
                IN  /\ t \in Tasks
                    /\ \/ task' = task
                       \/ /\ task[t].pc = "memory" /\ task'[t].heard = task[t].heard
                          /\ task'[t].read = task[t].read
                          /\ \/ OwnStep(t, "llm")
                             \/ /\ OwnStep(t, "compact") /\ Head(up).content # {}
                                /\ task'[t].got = Head(up).content
<1>1. task \in [Tasks -> TaskState]
  BY DEF IInv, TypeOK
<1>2. CASE ReceiveChat
  <2>1. Head(up).q \in Questions /\ Head(up).q \in Tasks
    BY <1>2, Contents, Numbers DEF ReceiveChat
  <2>2. ~ReceiveMemory
    BY <1>2 DEF ReceiveChat, ReceiveMemory, Arriving
  <2> QED
    BY <1>1, <1>2, <2>1, <2>2 DEF ReceiveChat, NoTask
<1>3. CASE ReceiveMemory
  <2> DEFINE t == Head(up).task
             c == Head(up).content
  <2>1. t \in Tasks
    BY <1>3, Contents DEF ReceiveMemory
  <2>2. ~ReceiveChat
    BY <1>3 DEF ReceiveChat, ReceiveMemory, Arriving
  <2>3. \/ task' = task
        \/ /\ task[t].pc = "memory"
           /\ \/ task' = [task EXCEPT ![t].pc = "llm"]
              \/ c # {} /\ task' = [task EXCEPT ![t].pc = "compact", ![t].got = c]
    BY <1>3 DEF ReceiveMemory, GoTo
  <2> HIDE DEF t, c
  <2>4. task[t] \in TaskState
    BY <1>1, <2>1
  <2>5. task' = [task EXCEPT ![t].pc = "llm"] =>
          OwnStep(t, "llm") /\ task'[t].heard = task[t].heard /\ task'[t].read = task[t].read
    BY <1>1, <2>1, <2>4 DEF OwnStep, TaskState
  <2>6. task' = [task EXCEPT ![t].pc = "compact", ![t].got = c] =>
          /\ OwnStep(t, "compact") /\ task'[t].heard = task[t].heard
          /\ task'[t].read = task[t].read /\ task'[t].got = c
    BY <1>1, <2>1, <2>4 DEF OwnStep, TaskState
  <2> QED
    BY <2>1, <2>2, <2>3, <2>5, <2>6 DEF t, c
<1> QED
  BY <1>2, <1>3

\* The steps of the device and of the connection change no task.
LEMMA OtherMoves ==
    ASSUME Ask \/ EndWait \/ Connect \/ Lose \/ Notice \/ Device \/ Writer
           \/ UNCHANGED vars
    PROVE  task' = task /\ lock' = lock
<1>1. CASE Ask
  BY <1>1 DEF Ask
<1>2. CASE EndWait
  BY <1>2 DEF EndWait
<1>3. CASE Connect
  BY <1>3 DEF Connect
<1>4. CASE Lose
  BY <1>4 DEF Lose
<1>5. CASE Notice
  BY <1>5 DEF Notice
<1>6. CASE UNCHANGED vars
  BY <1>6
<1>7. CASE Device
  <2>1. CASE ChatDone
    BY <2>1 DEF ChatDone
  <2>2. CASE GetMemory
    BY <2>2 DEF GetMemory
  <2>3. CASE MemoryUpdate
    BY <2>3 DEF MemoryUpdate
  <2> QED
    BY <1>7, <2>1, <2>2, <2>3 DEF Device
<1>8. CASE Writer
  <2>1. CASE WriteAppend
    BY <2>1 DEF WriteAppend
  <2>2. CASE WriteOver
    BY <2>2 DEF WriteOver
  <2>3. CASE Read
    BY <2>3 DEF Read
  <2> QED
    BY <1>8, <2>1, <2>2, <2>3 DEF Writer
<1> QED
  BY <1>1, <1>2, <1>3, <1>4, <1>5, <1>6, <1>7, <1>8

-----------------------------------------------------------------------------
(* One task at a time *)

\* No step gives the lock to a second task.
LEMMA OneAtATimeKept ==
    ASSUME IInv, OneAtATime, [Next]_vars
    PROVE  OneAtATime'
<1>1. CASE task' = task /\ lock' = lock
  BY <1>1 DEF OneAtATime
<1>2. CASE ReceiveChat
  BY <1>2, HandlerMoves, Numbers DEF OneAtATime, ReceiveChat, Working
<1>3. CASE ReceiveMemory
  BY <1>3, HandlerMoves, Numbers DEF OneAtATime, ReceiveMemory, Working, OwnStep
<1>4. ASSUME NEW t \in Rest, RestChat(t)
      PROVE  OneAtATime'
  <2>1. t \in Tasks /\ t \notin Questions /\ lock' = lock
    BY <1>4, Numbers DEF RestChat
  <2> QED
    BY <1>4, <2>1, TaskMoves, Numbers DEF OneAtATime, OwnStep
<1>5. ASSUME NEW t \in Tasks, ServerStep(t)
      PROVE  OneAtATime'
  <2>1. CASE Begin(t)
    <3>1. \A q \in Questions : task[q].pc \notin Working
      BY <2>1, Numbers DEF Begin, OneAtATime
    <3> QED
      BY <2>1, <3>1, TaskMoves, Numbers DEF OneAtATime, OwnStep, Begin
  <2>2. CASE CallModel(t) \/ AskMemory(t) \/ NoMemory(t) \/ Compact(t) \/ Finish(t)
    <3>1. /\ task[t].pc \in Working /\ lock' = lock
          /\ \A u \in Tasks \ {t} : task'[u] = task[u]
      BY <2>2, TaskMoves
         DEF Working, OwnStep, CallModel, AskMemory, NoMemory, Compact, Finish
    <3> QED
      BY <3>1, Numbers DEF OneAtATime
  <2>3. CASE Save(t)
    <3>1. /\ task'[t].pc \notin Working /\ task[t].pc \in Working
          /\ \A u \in Tasks \ {t} : task'[u] = task[u]
      BY <2>3, TaskMoves DEF Working
    <3>2. t \in Rest => lock' = lock
      BY <2>3 DEF Save
    <3> QED
      BY <3>1, <3>2, Numbers DEF OneAtATime
  <2> QED
    BY <1>5, <2>1, <2>2, <2>3 DEF ServerStep
<1>6. CASE \/ Ask \/ EndWait \/ Connect \/ Lose \/ Notice \/ Device \/ Writer
           \/ UNCHANGED vars
  BY <1>1, <1>6, OtherMoves
<1> QED
  BY <1>2, <1>3, <1>4, <1>5, <1>6 DEF Next, Handler

-----------------------------------------------------------------------------
(* Questions and requests are asked once *)

\* A task does not start again, and does not forget that it asked for the memory; only
\* its question starts the task of a session.
LEMMA TasksGoOn ==
    ASSUME IInv, AskedOnce, [Next]_vars
    PROVE  /\ \A t \in Tasks : Used(t) => Used(t)'
           /\ \A t \in Tasks : task'[t].pc = "none" => task[t].pc = "none" /\ ~task'[t].read
           /\ \A t \in Tasks : task[t].pc = "none" /\ task'[t].pc # "none" =>
                t \in Rest \/ (ReceiveChat /\ t = Head(up).q)
<1> DEFINE GoesOn(t) ==
             /\ Used(t) => Used(t)'
             /\ task'[t].pc = "none" => task[t].pc = "none" /\ ~task'[t].read
             /\ task[t].pc = "none" /\ task'[t].pc # "none" =>
                  t \in Rest \/ (ReceiveChat /\ t = Head(up).q)
<1> SUFFICES \A t \in Tasks : GoesOn(t)
  OBVIOUS
<1> HIDE DEF GoesOn
<1>1. ASSUME NEW u \in Tasks, task'[u] = task[u]
      PROVE  GoesOn(u)
  BY <1>1 DEF AskedOnce, Used, GoesOn
<1>2. CASE task' = task
  BY <1>1, <1>2
<1>3. CASE ReceiveChat
  <2> DEFINE q == Head(up).q
  <2>1. /\ q \in Questions /\ q \in Tasks /\ task'[q].pc = "queued"
        /\ \A u \in Tasks \ {q} : task'[u] = task[u]
    BY <1>3, HandlerMoves, Numbers
  <2>2. 1 \in DOMAIN up /\ up[1] = Head(up) /\ up[1].type = "chat"
    BY <1>3, Arrivals DEF ReceiveChat, IsTail
  <2>3. task[q].pc = "none" /\ ~Used(q)
    BY <2>1, <2>2 DEF AskedOnce, ChatsAreNew, Used
  <2>4. GoesOn(q)
    BY <1>3, <2>1, <2>3 DEF GoesOn
  <2> QED
    BY <1>1, <2>1, <2>4
<1>4. CASE ReceiveMemory
  <2>1. PICK t \in Tasks : t = Head(up).task
    BY <1>4, HandlerMoves
  <2>2. \/ task' = task
        \/ /\ task[t].pc = "memory" /\ task'[t].read = task[t].read
           /\ OwnStep(t, "llm") \/ OwnStep(t, "compact")
    BY <1>4, <2>1, HandlerMoves
  <2>3. ASSUME task[t].pc = "memory", task'[t].read = task[t].read,
               OwnStep(t, "llm") \/ OwnStep(t, "compact")
        PROVE  GoesOn(t) /\ \A u \in Tasks \ {t} : task'[u] = task[u]
    BY <2>1, <2>3 DEF OwnStep, Used, GoesOn
  <2> QED
    BY <1>1, <1>2, <2>2, <2>3
<1>5. ASSUME NEW t \in Rest, RestChat(t)
      PROVE  \A u \in Tasks : GoesOn(u)
  <2>1. t \in Tasks
    BY Numbers
  <2>2. OwnStep(t, "llm") /\ task[t].pc = "none" /\ task'[t].read = task[t].read
    BY <1>5, <2>1, TaskMoves
  <2>3. GoesOn(t) /\ \A u \in Tasks \ {t} : task'[u] = task[u]
    BY <2>1, <2>2 DEF OwnStep, Used, GoesOn
  <2> QED
    BY <1>1, <2>3
<1>6. ASSUME NEW t \in Tasks, ServerStep(t)
      PROVE  \A u \in Tasks : GoesOn(u)
  <2>1. CASE Begin(t) \/ CallModel(t) \/ NoMemory(t) \/ Compact(t) \/ Finish(t)
    <3>1. /\ OwnStep(t, "begun") \/ OwnStep(t, "llm") \/ OwnStep(t, "save")
          /\ task[t].pc \in {"queued", "begun", "llm", "memory", "compact"}
          /\ task'[t].read = task[t].read
      BY <2>1, TaskMoves
    <3>2. GoesOn(t) /\ \A u \in Tasks \ {t} : task'[u] = task[u]
      BY <3>1 DEF OwnStep, Used, GoesOn
    <3> QED
      BY <1>1, <3>2
  <2>2. CASE AskMemory(t) \/ Save(t)
    <3>1. /\ (task'[t].pc = "memory" /\ task'[t].read) \/ task'[t].pc = "done"
          /\ task[t].pc # "none"
          /\ \A u \in Tasks \ {t} : task'[u] = task[u]
      BY <2>2, TaskMoves DEF OwnStep
    <3>2. GoesOn(t)
      BY <3>1 DEF Used, GoesOn
    <3> QED
      BY <1>1, <3>1, <3>2
  <2> QED
    BY <1>6, <2>1, <2>2 DEF ServerStep
<1> QED
  BY <1>2, <1>3, <1>4, <1>5, <1>6, OtherMoves DEF Next, Handler

\* The tasks whose requests and answers are on their way.
LEMMA Named ==
    ASSUME IInv
    PROVE  /\ \A i \in DOMAIN down : down[i].type = "get" => down[i].task \in Tasks
           /\ \A i \in DOMAIN writeQ : writeQ[i].op = "read" => writeQ[i].task \in Tasks
           /\ \A i \in DOMAIN up : up[i].type = "data" => up[i].task \in Tasks
           /\ \A i \in DOMAIN up : up[i].type = "chat" => up[i].q \in Questions
<1>1. down \in Seq(DownMessage) /\ writeQ \in Seq(WriteItem) /\ up \in Seq(UpMessage)
  BY DEF IInv, TypeOK
<1>2. /\ \A i \in DOMAIN down : down[i] \in DownMessage
      /\ \A i \in DOMAIN writeQ : writeQ[i] \in WriteItem
      /\ \A i \in DOMAIN up : up[i] \in UpMessage
  BY <1>1
<1>3. \A m \in DownMessage : m.type = "get" => m.task \in Tasks
  BY DEF DownMessage
<1>4. \A m \in WriteItem : m.op = "read" => m.task \in Tasks
  BY DEF WriteItem
<1>5. \A m \in UpMessage : /\ m.type = "data" => m.task \in Tasks
                           /\ m.type = "chat" => m.q \in Questions
  BY DEF UpMessage
<1> QED
  BY <1>2, <1>3, <1>4, <1>5

\* How a step changes the messages to the device,
DownMoves ==
    \/ down' = down \/ down' = <<>>
    \/ Device /\ IsTail(down, down')
    \/ \E t \in Tasks :
         \/ AskMemory(t) /\ IsAppend(down, down', [type |-> "get", task |-> t])
         \/ /\ Compact(t) /\ (t \in Rest => unlocked')
            /\ IsAppend(down, down', [type |-> "update", content |-> task[t].got])
         \/ /\ Compact(t) /\ blanked'
            /\ IsAppend(down, down', [type |-> "update", content |-> {}])
         \/ /\ Finish(t) /\ t \in Questions
            /\ IsAppend(down, down', [type |-> "done", round |-> RoundOf(t)])

\* the queue of the writer,
WriteMoves ==
    \/ writeQ' = writeQ
    \/ Writer /\ IsTail(writeQ, writeQ')
    \/ ChatDone /\ IsAppend(writeQ, writeQ', [op |-> "append", round |-> Head(down).round])
    \/ GetMemory /\ IsAppend(writeQ, writeQ', [op |-> "read", task |-> Head(down).task])
    \/ /\ MemoryUpdate
       /\ IsAppend(writeQ, writeQ', [op |-> "overwrite", content |-> Head(down).content])

\* and the messages to the server.
UpMoves ==
    \/ up' = up \/ up' = <<>>
    \/ Handler /\ IsTail(up, up')
    \/ Ask /\ IsAppend(up, up', [type |-> "chat", q |-> asked + 1])
    \/ GetMemory /\ IsAppend(up, up', [type |-> "data", task |-> Head(down).task,
                                       content |-> {}])
    \/ Read /\ IsAppend(up, up', [type |-> "data", task |-> Head(writeQ).task,
                                  content |-> file])

\* The messages to the device change as said.
LEMMA DownMovesSo ==
    ASSUME IInv, [Next]_vars
    PROVE  DownMoves
<1>1. CASE Ask \/ EndWait \/ Notice
  BY <1>1 DEF Ask, EndWait, Notice, DownMoves
<1>2. CASE Connect \/ Lose
  BY <1>2 DEF Connect, Lose, DownMoves
<1>3. CASE Device
  BY <1>3, Arrivals DEF Device, ChatDone, GetMemory, MemoryUpdate, DownMoves
<1>4. CASE Writer
  BY <1>4 DEF Writer, WriteAppend, WriteOver, Read, DownMoves
<1>5. CASE Handler
  BY <1>5 DEF Handler, ReceiveChat, ReceiveMemory, DownMoves
<1>6. ASSUME NEW t \in Rest, RestChat(t)
      PROVE  DownMoves
  BY <1>6 DEF RestChat, DownMoves
<1>7. ASSUME NEW t \in Tasks, ServerStep(t)
      PROVE  DownMoves
  <2>1. CASE Begin(t) \/ CallModel(t) \/ NoMemory(t) \/ Save(t)
    BY <2>1 DEF Begin, CallModel, NoMemory, Save, DownMoves
  <2>2. CASE AskMemory(t)
    <3>1. Reply(devConn, [type |-> "get", task |-> t])
      BY <2>2 DEF AskMemory
    <3>2. [type |-> "get", task |-> t] \in DownMessage
      BY Messages
    <3> QED
      BY <2>2, <3>1, <3>2, Departures DEF DownMoves
  <2>3. CASE Compact(t)
    <3>1. task[t].got \in SUBSET Round
      BY DEF IInv, TypeOK, TaskState
    <3>2. /\ [type |-> "update", content |-> task[t].got] \in DownMessage
          /\ [type |-> "update", content |-> {}] \in DownMessage
      BY <3>1 DEF DownMessage
    <3>3. CASE down' = down
      BY <3>3 DEF DownMoves
    <3>4. CASE /\ Reply(devConn, [type |-> "update", content |-> task[t].got])
               /\ t \in Rest => unlocked'
      BY <2>3, <3>2, <3>4, Departures DEF DownMoves
    <3>5. CASE Reply(devConn, [type |-> "update", content |-> {}]) /\ blanked'
      BY <2>3, <3>2, <3>5, Departures DEF DownMoves
    <3>6. \/ Reply(devConn, [type |-> "update", content |-> task[t].got]) /\ (t \in Rest => unlocked')
          \/ Reply(devConn, [type |-> "update", content |-> {}]) /\ blanked'
          \/ down' = down
      BY <2>3 DEF Compact
    <3> QED
      BY <3>3, <3>4, <3>5, <3>6
  <2>4. CASE Finish(t)
    <3>1. \/ down' = down
          \/ /\ t \in Questions
             /\ Reply(task[t].conn, [type |-> "done", round |-> RoundOf(t)])
      BY <2>4 DEF Finish, Tasks
    <3>2. RoundOf(t) \in Round
      BY <2>4, RoundIsGood DEF Finish, GoodRound, Answering
    <3>3. [type |-> "done", round |-> RoundOf(t)] \in DownMessage
      BY <3>2, Messages
    <3>4. \/ down' = down
          \/ /\ t \in Questions
             /\ IsAppend(down, down', [type |-> "done", round |-> RoundOf(t)])
      BY <3>1, <3>3, Departures
    <3> QED
      BY <2>4, <3>2, <3>4 DEF DownMoves
  <2> QED
    BY <1>7, <2>1, <2>2, <2>3, <2>4 DEF ServerStep
<1>8. CASE UNCHANGED vars
  BY <1>8 DEF DownMoves
<1> QED
  BY <1>1, <1>2, <1>3, <1>4, <1>5, <1>6, <1>7, <1>8 DEF Next

\* The queue of the writer changes as said.
LEMMA WriteMovesSo ==
    ASSUME IInv, [Next]_vars
    PROVE  WriteMoves
<1>1. CASE Ask \/ EndWait \/ Connect \/ Lose \/ Notice
  BY <1>1 DEF Ask, EndWait, Connect, Lose, Notice, WriteMoves
<1>2. CASE ChatDone
  <2>1. Head(down).round \in Round
    BY <1>2, Contents DEF ChatDone
  <2>2. Enqueue([op |-> "append", round |-> Head(down).round])
    BY <1>2 DEF ChatDone
  <2>3. [op |-> "append", round |-> Head(down).round] \in WriteItem
    BY <2>1, Messages
  <2>4. \/ writeQ' = writeQ
        \/ IsAppend(writeQ, writeQ', [op |-> "append", round |-> Head(down).round])
    BY <2>2, <2>3, Departures
  <2> QED
    BY <1>2, <2>1, <2>4 DEF WriteMoves
<1>3. CASE GetMemory
  <2>1. Head(down).task \in Tasks
    BY <1>3, Contents DEF GetMemory
  <2>2. Enqueue([op |-> "read", task |-> Head(down).task])
    BY <1>3 DEF GetMemory, Enqueue
  <2>3. [op |-> "read", task |-> Head(down).task] \in WriteItem
    BY <2>1, Messages
  <2>4. \/ writeQ' = writeQ
        \/ IsAppend(writeQ, writeQ', [op |-> "read", task |-> Head(down).task])
    BY <2>2, <2>3, Departures
  <2> QED
    BY <1>3, <2>4 DEF WriteMoves
<1>4. CASE MemoryUpdate
  <2>1. Head(down).content \in SUBSET Round
    BY <1>4, Contents DEF MemoryUpdate
  <2>2. Enqueue([op |-> "overwrite", content |-> Head(down).content])
    BY <1>4 DEF MemoryUpdate
  <2>3. [op |-> "overwrite", content |-> Head(down).content] \in WriteItem
    BY <2>1 DEF WriteItem
  <2>4. \/ writeQ' = writeQ
        \/ IsAppend(writeQ, writeQ', [op |-> "overwrite", content |-> Head(down).content])
    BY <2>2, <2>3, Departures
  <2> QED
    BY <1>4, <2>1, <2>4 DEF WriteMoves
<1>5. CASE Writer
  BY <1>5, Arrivals DEF Writer, WriteAppend, WriteOver, Read, WriteMoves
<1>6. CASE Handler
  BY <1>6 DEF Handler, ReceiveChat, ReceiveMemory, WriteMoves
<1>7. ASSUME NEW t \in Rest, RestChat(t)
      PROVE  WriteMoves
  BY <1>7 DEF RestChat, WriteMoves
<1>8. ASSUME NEW t \in Tasks, ServerStep(t)
      PROVE  WriteMoves
  <2>1. CASE Begin(t) \/ CallModel(t) \/ AskMemory(t) \/ NoMemory(t)
    BY <2>1 DEF Begin, CallModel, AskMemory, NoMemory, WriteMoves
  <2>2. CASE Compact(t) \/ Finish(t) \/ Save(t)
    BY <2>2 DEF Compact, Finish, Save, WriteMoves
  <2> QED
    BY <1>8, <2>1, <2>2 DEF ServerStep
<1>9. CASE UNCHANGED vars
  BY <1>9 DEF WriteMoves
<1> QED
  BY <1>1, <1>2, <1>3, <1>4, <1>5, <1>6, <1>7, <1>8, <1>9 DEF Next, Device

\* The messages to the server change as said.
LEMMA UpMovesSo ==
    ASSUME IInv, [Next]_vars
    PROVE  UpMoves
<1>1. CASE Ask
  <2>1. asked + 1 \in Questions
    BY <1>1, Numbers DEF Ask, IInv, TypeOK
  <2>2. [type |-> "chat", q |-> asked + 1] \in UpMessage
    BY <2>1, Messages
  <2>3. up' = up \/ up' = Append(up, [type |-> "chat", q |-> asked + 1])
    BY <1>1 DEF Ask
  <2>4. up' = up \/ IsAppend(up, up', [type |-> "chat", q |-> asked + 1])
    BY <2>2, <2>3, Departures
  <2> QED
    BY <1>1, <2>4 DEF UpMoves
<1>2. CASE EndWait \/ Connect \/ Lose \/ Notice
  BY <1>2 DEF EndWait, Connect, Lose, Notice, UpMoves
<1>3. CASE GetMemory
  <2> DEFINE m == [type |-> "data", task |-> Head(down).task, content |-> {}]
  <2>1. Head(down).task \in Tasks
    BY <1>3, Contents DEF GetMemory
  <2>2. m \in UpMessage
    BY <2>1 DEF UpMessage
  <2>3. up' = up \/ up' = Append(up, m)
    BY <1>3 DEF GetMemory
  <2>4. up' = up \/ IsAppend(up, up', m)
    BY <2>2, <2>3, Departures
  <2> QED
    BY <1>3, <2>4 DEF UpMoves
<1>4. CASE Read
  <2> DEFINE m == [type |-> "data", task |-> Head(writeQ).task, content |-> file]
  <2>1. Head(writeQ).task \in Tasks /\ file \in SUBSET Round
    BY <1>4, Contents DEF Read, IInv, TypeOK
  <2>2. m \in UpMessage
    BY <2>1 DEF UpMessage
  <2>3. up' = up \/ up' = Append(up, m)
    BY <1>4 DEF Read
  <2>4. up' = up \/ IsAppend(up, up', m)
    BY <2>2, <2>3, Departures
  <2> QED
    BY <1>4, <2>4 DEF UpMoves
<1>5. CASE ChatDone \/ MemoryUpdate \/ WriteAppend \/ WriteOver
  BY <1>5 DEF ChatDone, MemoryUpdate, WriteAppend, WriteOver, UpMoves
<1>6. CASE Handler
  BY <1>6, Arrivals DEF Handler, ReceiveChat, ReceiveMemory, UpMoves
<1>7. ASSUME NEW t \in Rest, RestChat(t)
      PROVE  UpMoves
  BY <1>7 DEF RestChat, UpMoves
<1>8. ASSUME NEW t \in Tasks, ServerStep(t)
      PROVE  UpMoves
  <2>1. CASE Begin(t) \/ CallModel(t) \/ AskMemory(t) \/ NoMemory(t)
    BY <2>1 DEF Begin, CallModel, AskMemory, NoMemory, UpMoves
  <2>2. CASE Compact(t) \/ Finish(t) \/ Save(t)
    BY <2>2 DEF Compact, Finish, Save, UpMoves
  <2> QED
    BY <1>8, <2>1, <2>2 DEF ServerStep
<1>9. CASE UNCHANGED vars
  BY <1>9 DEF UpMoves
<1> QED
  BY <1>1, <1>2, <1>3, <1>4, <1>5, <1>6, <1>7, <1>8, <1>9 DEF Next, Device, Writer

\* Only asking changes the number of questions.
LEMMA AskedMoves ==
    ASSUME [Next]_vars
    PROVE  asked' = asked \/ (Ask /\ asked' = asked + 1)
<1>1. CASE Ask
  BY <1>1 DEF Ask
<1>2. CASE EndWait \/ Connect \/ Lose \/ Notice
  BY <1>2 DEF EndWait, Connect, Lose, Notice
<1>3. CASE Device
  BY <1>3 DEF Device, ChatDone, GetMemory, MemoryUpdate
<1>4. CASE Writer
  BY <1>4 DEF Writer, WriteAppend, WriteOver, Read
<1>5. CASE Handler
  BY <1>5 DEF Handler, ReceiveChat, ReceiveMemory
<1>6. ASSUME NEW t \in Rest, RestChat(t)
      PROVE  asked' = asked
  BY <1>6 DEF RestChat
<1>7. ASSUME NEW t \in Tasks, ServerStep(t)
      PROVE  asked' = asked
  BY <1>7 DEF ServerStep, Begin, CallModel, AskMemory, NoMemory, Compact, Finish, Save
<1>8. CASE UNCHANGED vars
  BY <1>8
<1> QED
  BY <1>1, <1>2, <1>3, <1>4, <1>5, <1>6, <1>7, <1>8 DEF Next

\* A question on its way has no task yet, and is on its way once.
LEMMA ChatsStayNew ==
    ASSUME IInv, AskedOnce, [Next]_vars
    PROVE  ChatsAreNew'
<1>1. asked \in Nat /\ asked' \in Nat /\ asked <= asked'
  BY AskedMoves, BoundsAssumption DEF IInv, TypeOK
<1>2. \A i \in DOMAIN up : up[i].type = "chat" => up[i].q \in Questions /\ up[i].q <= asked'
  <2>1. \A i \in DOMAIN up : up[i].type = "chat" => up[i].q \in Questions /\ up[i].q <= asked
    BY Named DEF AskedOnce, ChatsAreNew
  <2>2. \A q \in Questions : q \in Int
    BY BoundsAssumption DEF Questions
  <2> QED
    BY <1>1, <2>1, <2>2
<1>3. CASE ReceiveChat
  <2>1. IsTail(up, up') /\ up[1] = Head(up) /\ up[1].type = "chat"
    BY <1>3, Arrivals DEF ReceiveChat
  <2>2. Head(up).q \in Questions
        /\ \A u \in Tasks \ {Head(up).q} : task'[u] = task[u]
    BY <1>3, HandlerMoves
  <2>3. \A i \in DOMAIN up : up[i].type = "chat" /\ i # 1 => up[i].q # Head(up).q
    BY <2>1 DEF AskedOnce, ChatsAreNew, IsTail
  <2>4. \A i \in DOMAIN up' : up'[i].type = "chat" =>
          task'[up'[i].q].pc = "none" /\ up'[i].q <= asked'
    <3> SUFFICES ASSUME NEW i \in DOMAIN up', up'[i].type = "chat"
                 PROVE  task'[up'[i].q].pc = "none" /\ up'[i].q <= asked'
      OBVIOUS
    <3>1. i + 1 \in DOMAIN up /\ up'[i] = up[i + 1] /\ i + 1 # 1
      BY <2>1 DEF IsTail
    <3>2. up[i + 1].q # Head(up).q /\ up[i + 1].q \in Tasks
      BY <1>2, <2>3, <3>1, Numbers
    <3> QED
      BY <1>2, <2>2, <3>1, <3>2 DEF AskedOnce, ChatsAreNew
  <2>5. \A i, j \in DOMAIN up' :
          /\ up'[i].type = "chat" /\ up'[j].type = "chat" /\ up'[j].q = up'[i].q
          => j = i
    <3> SUFFICES ASSUME NEW i \in DOMAIN up', NEW j \in DOMAIN up', up'[i].type = "chat",
                        up'[j].type = "chat", up'[j].q = up'[i].q
                 PROVE  j = i
      OBVIOUS
    <3>1. i + 1 \in DOMAIN up /\ up'[i] = up[i + 1] /\ i \in Nat
      BY <2>1 DEF IsTail
    <3>2. j + 1 \in DOMAIN up /\ up'[j] = up[j + 1] /\ j \in Nat
      BY <2>1 DEF IsTail
    <3>3. j + 1 = i + 1
      BY <3>1, <3>2 DEF AskedOnce, ChatsAreNew
    <3> QED
      BY <3>1, <3>2, <3>3
  <2> QED
    BY <2>4, <2>5 DEF ChatsAreNew
<1>4. CASE ~ReceiveChat
  <2>1. \A i \in DOMAIN up : up[i].type = "chat" => task'[up[i].q].pc = "none"
    BY <1>2, <1>4, TasksGoOn, Numbers DEF AskedOnce, ChatsAreNew
  <2>2. CASE up' = up
    BY <1>2, <2>1, <2>2 DEF AskedOnce, ChatsAreNew
  <2>3. CASE up' = <<>>
    BY <2>3 DEF ChatsAreNew
  <2>4. CASE IsTail(up, up')
    <3>1. \A i \in DOMAIN up' : i \in Nat /\ i + 1 \in DOMAIN up /\ up'[i] = up[i + 1]
      BY <2>4 DEF IsTail
    <3>2. \A i, j \in DOMAIN up' :
            /\ up'[i].type = "chat" /\ up'[j].type = "chat" /\ up'[j].q = up'[i].q
            => j + 1 = i + 1
      BY <3>1 DEF AskedOnce, ChatsAreNew
    <3>3. \A i, j \in DOMAIN up' : j + 1 = i + 1 => j = i
      BY <3>1
    <3> QED
      BY <1>2, <2>1, <3>1, <3>2, <3>3 DEF ChatsAreNew
  <2>5. ASSUME NEW m, IsAppend(up, up', m), m.type # "chat"
        PROVE  ChatsAreNew'
    <3>1. \A i \in DOMAIN up' : up'[i].type = "chat" => i \in DOMAIN up /\ up'[i] = up[i]
      BY <2>5 DEF IsAppend
    <3> QED
      BY <1>2, <2>1, <3>1 DEF ChatsAreNew, AskedOnce
  <2>6. ASSUME Ask, IsAppend(up, up', [type |-> "chat", q |-> asked + 1])
        PROVE  ChatsAreNew'
    <3>1. asked' = asked + 1 /\ asked + 1 \in Questions
      BY <2>6, Numbers DEF Ask, IInv, TypeOK
    <3>2. task'[asked + 1].pc = "none"
      BY <1>1, <2>6, <3>1, OtherMoves DEF AskedOnce
    <3>3. \A i \in DOMAIN up : up[i].type = "chat" => up[i].q <= asked /\ up[i].q # asked + 1
      BY <1>1 DEF AskedOnce, ChatsAreNew
    <3>4. \A i \in DOMAIN up' :
            \/ i \in DOMAIN up /\ up'[i] = up[i]
            \/ i = Len(up) + 1 /\ up'[i].type = "chat" /\ up'[i].q = asked + 1
      BY <2>6 DEF IsAppend
    <3> QED
      BY <1>1, <1>2, <2>1, <3>1, <3>2, <3>3, <3>4 DEF ChatsAreNew, AskedOnce
  <2> QED
    BY <2>2, <2>3, <2>4, <2>5, <2>6, UpMovesSo DEF UpMoves
<1> QED
  BY <1>3, <1>4

\* The task of a request, or of its answer, has asked for the memory.
LEMMA RequestsStayUsed ==
    ASSUME IInv, AskedOnce, [Next]_vars
    PROVE  RequestsAreUsed'
<1>1. \A t \in Tasks : Used(t) => Used(t)'
  BY TasksGoOn
<1>2. \A i \in DOMAIN down : down[i].type = "get" =>
        down[i].task \in Tasks /\ Used(down[i].task)
  BY Named DEF AskedOnce, RequestsAreUsed
<1>3. \A i \in DOMAIN writeQ : writeQ[i].op = "read" =>
        writeQ[i].task \in Tasks /\ Used(writeQ[i].task)
  BY Named DEF AskedOnce, RequestsAreUsed
<1>4. \A i \in DOMAIN up : up[i].type = "data" =>
        up[i].task \in Tasks /\ Used(up[i].task)
  BY Named DEF AskedOnce, RequestsAreUsed
<1>5. \A t \in Tasks : AskMemory(t) => task'[t].read
  BY TaskMoves
<1>6. GetMemory => 1 \in DOMAIN down /\ down[1] = Head(down) /\ down[1].type = "get"
  BY Arrivals DEF GetMemory, IsTail
<1>7. Read => 1 \in DOMAIN writeQ /\ writeQ[1] = Head(writeQ) /\ writeQ[1].op = "read"
  BY Arrivals DEF Read, IsTail
<1>8. \A i \in DOMAIN down' : down'[i].type = "get" =>
        \E t \in Tasks : down'[i].task = t /\ (Used(t) \/ task'[t].read)
  <2>1. CASE down' = down \/ down' = <<>> \/ IsTail(down, down')
    BY <1>2, <2>1 DEF IsTail
  <2>2. ASSUME NEW t \in Tasks, AskMemory(t),
               IsAppend(down, down', [type |-> "get", task |-> t])
        PROVE  \A i \in DOMAIN down' : down'[i].type = "get" =>
                 \E u \in Tasks : down'[i].task = u /\ (Used(u) \/ task'[u].read)
    BY <1>2, <1>5, <2>2 DEF IsAppend
  <2>3. ASSUME NEW m, m.type # "get", IsAppend(down, down', m)
        PROVE  \A i \in DOMAIN down' : down'[i].type = "get" =>
                 \E u \in Tasks : down'[i].task = u /\ (Used(u) \/ task'[u].read)
    BY <1>2, <2>3 DEF IsAppend
  <2> QED
    BY <2>1, <2>2, <2>3, DownMovesSo DEF DownMoves
<1>9. \A i \in DOMAIN writeQ' : writeQ'[i].op = "read" =>
        \E t \in Tasks : writeQ'[i].task = t /\ Used(t)
  <2>1. CASE writeQ' = writeQ \/ IsTail(writeQ, writeQ')
    BY <1>3, <2>1 DEF IsTail
  <2>2. ASSUME GetMemory,
               IsAppend(writeQ, writeQ', [op |-> "read", task |-> Head(down).task])
        PROVE  \A i \in DOMAIN writeQ' : writeQ'[i].op = "read" =>
                 \E t \in Tasks : writeQ'[i].task = t /\ Used(t)
    BY <1>2, <1>3, <1>6, <2>2 DEF IsAppend
  <2>3. ASSUME NEW m, m.op # "read", IsAppend(writeQ, writeQ', m)
        PROVE  \A i \in DOMAIN writeQ' : writeQ'[i].op = "read" =>
                 \E t \in Tasks : writeQ'[i].task = t /\ Used(t)
    BY <1>3, <2>3 DEF IsAppend
  <2> QED
    BY <2>1, <2>2, <2>3, WriteMovesSo DEF WriteMoves
<1>10. \A i \in DOMAIN up' : up'[i].type = "data" =>
         \E t \in Tasks : up'[i].task = t /\ Used(t)
  <2>1. CASE up' = up \/ up' = <<>> \/ IsTail(up, up')
    BY <1>4, <2>1 DEF IsTail
  <2>2. ASSUME NEW m, IsAppend(up, up', m),
               m.type = "data" => m.task \in Tasks /\ Used(m.task)
        PROVE  \A i \in DOMAIN up' : up'[i].type = "data" =>
                 \E t \in Tasks : up'[i].task = t /\ Used(t)
    BY <1>4, <2>2 DEF IsAppend
  <2>3. GetMemory => Head(down).task \in Tasks /\ Used(Head(down).task)
    BY <1>2, <1>6
  <2>4. Read => Head(writeQ).task \in Tasks /\ Used(Head(writeQ).task)
    BY <1>3, <1>7
  <2> QED
    BY <2>1, <2>2, <2>3, <2>4, UpMovesSo DEF UpMoves
<1>11. \A t \in Tasks : Used(t) \/ task'[t].read => Used(t)'
  BY <1>1 DEF Used
<1> QED
  BY <1>8, <1>9, <1>10, <1>11 DEF RequestsAreUsed

\* No step asks a question, or for the memory, twice.
LEMMA AskedOnceKept ==
    ASSUME IInv, AskedOnce, [Next]_vars
    PROVE  AskedOnce'
<1>1. asked \in Nat /\ asked' \in Nat /\ asked <= asked'
  BY AskedMoves, BoundsAssumption DEF IInv, TypeOK
<1>2. ASSUME NEW q \in Questions, task'[q].pc # "none"
      PROVE  q <= asked'
  <2>1. q \in Tasks /\ q \notin Rest /\ q \in Int
    BY Numbers, BoundsAssumption DEF Questions
  <2>2. CASE task[q].pc # "none"
    BY <1>1, <2>1, <2>2 DEF AskedOnce
  <2>3. CASE task[q].pc = "none"
    <3>1. ReceiveChat /\ q = Head(up).q
      BY <1>2, <2>1, <2>3, TasksGoOn
    <3>2. 1 \in DOMAIN up /\ up[1] = Head(up) /\ up[1].type = "chat"
      BY <3>1, Arrivals DEF ReceiveChat, IsTail
    <3> QED
      BY <1>1, <2>1, <3>1, <3>2 DEF AskedOnce, ChatsAreNew
  <2> QED
    BY <2>2, <2>3
<1> QED
  BY <1>2, ChatsStayNew, RequestsStayUsed, TasksGoOn DEF AskedOnce

-----------------------------------------------------------------------------
(* What is written stays *)

\* How a step changes the file and what is noted of the compactions.
LEMMA FileMoves ==
    ASSUME [Next]_vars
    PROVE  /\ WriteAppend \/ WriteOver \/ (written' = written /\ file' = file)
           /\ unlocked => unlocked'
           /\ blanked => blanked'
<1>1. CASE Ask \/ EndWait \/ Connect \/ Lose \/ Notice
  BY <1>1 DEF Ask, EndWait, Connect, Lose, Notice
<1>2. CASE Device
  BY <1>2 DEF Device, ChatDone, GetMemory, MemoryUpdate
<1>3. CASE Writer
  BY <1>3 DEF Writer, WriteAppend, WriteOver, Read
<1>4. CASE Handler
  BY <1>4 DEF Handler, ReceiveChat, ReceiveMemory
<1>5. ASSUME NEW t \in Rest, RestChat(t)
      PROVE  written' = written /\ file' = file /\ unlocked' = unlocked /\ blanked' = blanked
  BY <1>5 DEF RestChat
<1>6. ASSUME NEW t \in Tasks, ServerStep(t)
      PROVE  /\ written' = written /\ file' = file
             /\ unlocked => unlocked'
             /\ blanked => blanked'
  <2>1. CASE Begin(t) \/ CallModel(t) \/ AskMemory(t) \/ NoMemory(t)
    BY <2>1 DEF Begin, CallModel, AskMemory, NoMemory
  <2>2. CASE Compact(t)
    <3>1. written' = written /\ file' = file
      BY <2>2 DEF Compact
    <3>2. \/ unlocked' = (unlocked \/ t \in Rest) /\ blanked' = blanked
          \/ blanked' = TRUE /\ unlocked' = unlocked
          \/ blanked' = blanked /\ unlocked' = unlocked
      BY <2>2 DEF Compact
    <3>3. (unlocked => unlocked') /\ (blanked => blanked')
      <4>1. (unlocked \/ t \in Rest) \in BOOLEAN
        OBVIOUS
      <4>2. CASE unlocked' = (unlocked \/ t \in Rest) /\ blanked' = blanked
        BY <4>2, Zenon
      <4>3. CASE blanked' = TRUE /\ unlocked' = unlocked
        BY <4>3, Zenon
      <4>4. CASE blanked' = blanked /\ unlocked' = unlocked
        BY <4>4, Zenon
      <4> QED
        BY <3>2, <4>2, <4>3, <4>4
    <3> QED
      BY <3>1, <3>3
  <2>3. CASE Finish(t) \/ Save(t)
    BY <2>3 DEF Finish, Save
  <2> QED
    BY <1>6, <2>1, <2>2, <2>3 DEF ServerStep
<1>7. CASE UNCHANGED vars
  BY <1>7
<1> QED
  BY <1>1, <1>2, <1>3, <1>4, <1>5, <1>6, <1>7 DEF Next

\* A task waits for the memory from when it asks for it, and compacts what it is given.
LEMMA WaitingMoves ==
    ASSUME IInv, [Next]_vars
    PROVE  /\ \A t \in Tasks : Waits(t)' => Waits(t) \/ AskMemory(t)
           /\ \A q \in Questions : task'[q].pc = "compact" =>
                \/ task[q].pc = "compact" /\ task'[q] = task[q]
                \/ /\ ReceiveMemory /\ q = Head(up).task /\ Waits(q)
                   /\ task'[q].got = Head(up).content /\ Head(up).content # {}
<1> DEFINE Moves(t) ==
             /\ task'[t].pc = "memory" => task[t].pc = "memory" \/ AskMemory(t)
             /\ task'[t].pc = "compact" =>
                  \/ task[t].pc = "compact" /\ task'[t] = task[t]
                  \/ /\ ReceiveMemory /\ t = Head(up).task /\ task[t].pc = "memory"
                     /\ task'[t].got = Head(up).content /\ Head(up).content # {}
<1> SUFFICES \A t \in Tasks : Moves(t)
  BY Numbers DEF Waits
<1> HIDE DEF Moves
<1>1. ASSUME NEW u \in Tasks, task'[u] = task[u]
      PROVE  Moves(u)
  BY <1>1 DEF Moves
<1>2. CASE task' = task
  BY <1>1, <1>2
<1>3. CASE ReceiveChat
  <2>1. PICK q \in Tasks : /\ task'[q].pc = "queued"
                           /\ \A u \in Tasks \ {q} : task'[u] = task[u]
    BY <1>3, HandlerMoves, Numbers
  <2>2. Moves(q)
    BY <2>1 DEF Moves
  <2> QED
    BY <1>1, <2>1, <2>2
<1>4. CASE ReceiveMemory
  <2>1. PICK t \in Tasks : t = Head(up).task
    BY <1>4, HandlerMoves
  <2>2. \/ task' = task
        \/ OwnStep(t, "llm")
        \/ /\ OwnStep(t, "compact") /\ task[t].pc = "memory"
           /\ task'[t].got = Head(up).content /\ Head(up).content # {}
    BY <1>4, <2>1, HandlerMoves
  <2>3. ASSUME OwnStep(t, "llm")
        PROVE  Moves(t) /\ \A u \in Tasks \ {t} : task'[u] = task[u]
    BY <2>3 DEF OwnStep, Moves
  <2>4. ASSUME OwnStep(t, "compact"), task[t].pc = "memory",
               task'[t].got = Head(up).content, Head(up).content # {}
        PROVE  Moves(t) /\ \A u \in Tasks \ {t} : task'[u] = task[u]
    BY <1>4, <2>1, <2>4 DEF OwnStep, Moves
  <2> QED
    BY <1>1, <1>2, <2>2, <2>3, <2>4
<1>5. ASSUME NEW t \in Rest, RestChat(t)
      PROVE  \A u \in Tasks : Moves(u)
  <2>1. t \in Tasks
    BY Numbers
  <2>2. Moves(t) /\ \A u \in Tasks \ {t} : task'[u] = task[u]
    BY <1>5, <2>1, TaskMoves DEF OwnStep, Moves
  <2> QED
    BY <1>1, <2>2
<1>6. ASSUME NEW t \in Tasks, ServerStep(t)
      PROVE  \A u \in Tasks : Moves(u)
  <2>1. /\ \A u \in Tasks \ {t} : task'[u] = task[u]
        /\ task'[t].pc \in {"begun", "llm", "save", "done"} \/ AskMemory(t)
    BY <1>6, TaskMoves DEF ServerStep, OwnStep
  <2>2. AskMemory(t) => task'[t].pc = "memory"
    BY TaskMoves DEF OwnStep
  <2>3. Moves(t)
    BY <2>1, <2>2 DEF Moves
  <2> QED
    BY <1>1, <2>1, <2>3
<1> QED
  BY <1>2, <1>3, <1>4, <1>5, <1>6, OtherMoves DEF Next, Handler

\* Who finishes has the lock, so nobody else waits for the memory or compacts it.
LEMMA FinishesAlone ==
    ASSUME IInv, OneAtATime, NEW t \in Questions, Finish(t), NEW q \in Questions
    PROVE  /\ task[q].pc \notin {"memory", "compact"}
           /\ task'[q].pc \notin {"memory", "compact"}
<1>1. t \in Tasks /\ q \in Tasks
  BY Numbers
<1>2. /\ task[t].pc = "llm" /\ task'[t].pc = "save"
      /\ \A u \in Tasks \ {t} : task'[u] = task[u]
  BY <1>1, TaskMoves DEF OwnStep
<1>3. lock = t
  BY <1>2 DEF OneAtATime, Working
<1>4. q # t => task[q].pc \notin Working
  BY <1>3 DEF OneAtATime
<1> QED
  BY <1>1, <1>2, <1>4 DEF Working

\* Who asks for the memory has no request on its way yet.
LEMMA AsksFirst ==
    ASSUME IInv, AskedOnce, NEW t \in Tasks, AskMemory(t)
    PROVE  /\ \A i \in DOMAIN down : down[i].type = "get" => down[i].task # t
           /\ \A i \in DOMAIN writeQ : writeQ[i].op = "read" => writeQ[i].task # t
           /\ \A i \in DOMAIN up : up[i].type = "data" => up[i].task # t
<1>1. ~Used(t)
  BY TaskMoves DEF Used
<1> QED
  BY <1>1 DEF AskedOnce, RequestsAreUsed

\* Only a question that is answered adds a round to those that are on their way.
LEMMA CoversKept ==
    ASSUME IInv, [Next]_vars, NEW c, Covers(c), \A t \in Questions : ~Finish(t)
    PROVE  Covers(c)'
<1>1. written' \subseteq c
  <2>1. CASE WriteAppend
    <3>1. 1 \in DOMAIN writeQ /\ writeQ[1] = Head(writeQ) /\ writeQ[1].op = "append"
      BY <2>1, Arrivals DEF WriteAppend, IsTail
    <3> QED
      BY <2>1, <3>1 DEF WriteAppend, Covers
  <2>2. CASE WriteOver
    BY <2>2 DEF WriteOver, Covers
  <2> QED
    BY <2>1, <2>2, FileMoves DEF Covers
<1>2. \A i \in DOMAIN writeQ' : writeQ'[i].op = "append" => writeQ'[i].round \in c
  <2>1. CASE writeQ' = writeQ \/ IsTail(writeQ, writeQ')
    BY <2>1 DEF Covers, IsTail
  <2>2. ASSUME NEW m, IsAppend(writeQ, writeQ', m), m.op = "append" => m.round \in c
        PROVE  \A i \in DOMAIN writeQ' : writeQ'[i].op = "append" => writeQ'[i].round \in c
    BY <2>2 DEF Covers, IsAppend
  <2>3. ChatDone => Head(down).round \in c
    BY Arrivals DEF ChatDone, IsTail, Covers
  <2> QED
    BY <2>1, <2>2, <2>3, WriteMovesSo DEF WriteMoves
<1>3. \A i \in DOMAIN down' : down'[i].type = "done" => down'[i].round \in c
  <2>1. CASE down' = down \/ down' = <<>> \/ IsTail(down, down')
    BY <2>1 DEF Covers, IsTail
  <2>2. ASSUME NEW m, IsAppend(down, down', m), m.type # "done"
        PROVE  \A i \in DOMAIN down' : down'[i].type = "done" => down'[i].round \in c
    BY <2>2 DEF Covers, IsAppend
  <2> QED
    BY <2>1, <2>2, DownMovesSo DEF DownMoves
<1> QED
  BY <1>1, <1>2, <1>3 DEF Covers

\* The file and what will overwrite it.
LEMMA OverKept ==
    ASSUME IInv, Safe, [Next]_vars
    PROVE  written' \subseteq file' /\ OverSafe'
<1>1. written' \subseteq file'
  <2>1. CASE WriteAppend
    BY <2>1 DEF WriteAppend, Safe
  <2>2. CASE WriteOver
    BY <2>2, Arrivals DEF WriteOver, Safe, OverSafe, IsTail
  <2> QED
    BY <2>1, <2>2, FileMoves DEF Safe
<1> SUFFICES OverSafe'
  BY <1>1
<1>2. ASSUME NEW i \in DOMAIN writeQ, writeQ[i].op = "overwrite",
             written' = written \/ WriteAppend, i # 1 \/ written' = written
      PROVE  written' \subseteq writeQ[i].content
  <2>1. CASE written' = written
    BY <1>2, <2>1 DEF Safe, OverSafe
  <2>2. CASE WriteAppend /\ i # 1
    <3>1. /\ 1 \in DOMAIN writeQ /\ writeQ[1] = Head(writeQ) /\ writeQ[1].op = "append"
          /\ DOMAIN writeQ \subseteq Nat
      BY <2>2, Arrivals DEF WriteAppend, IsTail
    <3>2. DOMAIN writeQ = 1 .. Len(writeQ)
      BY DEF IInv, TypeOK
    <3>3. 1 < i
      BY <2>2, <3>1, <3>2
    <3> QED
      BY <1>2, <2>2, <3>1, <3>3 DEF WriteAppend, Safe, OverSafe
  <2> QED
    BY <1>2, <2>1, <2>2
<1>3. CASE Writer
  <2>1. IsTail(writeQ, writeQ')
    BY <1>3, Arrivals DEF Writer, WriteAppend, WriteOver, Read
  <2>2. written' = written \/ WriteAppend
    BY <1>3 DEF Writer, WriteOver, Read
  <2>3. ASSUME NEW i \in DOMAIN writeQ', writeQ'[i].op = "overwrite"
        PROVE  /\ written' \subseteq writeQ'[i].content
               /\ \A j \in DOMAIN writeQ' : j < i /\ writeQ'[j].op = "append" =>
                    writeQ'[j].round \in writeQ'[i].content
    <3>1. i \in Nat /\ i > 0 /\ i + 1 \in DOMAIN writeQ /\ writeQ'[i] = writeQ[i + 1]
      BY <2>1 DEF IsTail
    <3>2. written' \subseteq writeQ'[i].content
      BY <1>2, <2>2, <2>3, <3>1
    <3>3. ASSUME NEW j \in DOMAIN writeQ', j < i, writeQ'[j].op = "append"
          PROVE  writeQ'[j].round \in writeQ'[i].content
      <4>1. j \in Nat /\ j + 1 \in DOMAIN writeQ /\ writeQ'[j] = writeQ[j + 1] /\ j + 1 < i + 1
        BY <2>1, <3>1, <3>3 DEF IsTail
      <4> QED
        BY <2>3, <3>1, <3>3, <4>1 DEF Safe, OverSafe
    <3> QED
      BY <3>2, <3>3
  <2> QED
    BY <2>3 DEF OverSafe
<1>4. CASE ~Writer
  <2>1. written' = written
    BY <1>4, FileMoves DEF Writer
  <2>2. CASE writeQ' = writeQ
    <3>1. OverSafe
      BY DEF Safe
    <3> QED
      BY <2>1, <2>2, <3>1 DEF OverSafe
  <2>3. ASSUME NEW m, IsAppend(writeQ, writeQ', m),
               m.op = "overwrite" =>
                 /\ written \subseteq m.content
                 /\ \A j \in DOMAIN writeQ : writeQ[j].op = "append" =>
                      writeQ[j].round \in m.content
        PROVE  OverSafe'
    <3>1. ASSUME NEW i \in DOMAIN writeQ', writeQ'[i].op = "overwrite"
          PROVE  /\ written' \subseteq writeQ'[i].content
                 /\ \A j \in DOMAIN writeQ' : j < i /\ writeQ'[j].op = "append" =>
                      writeQ'[j].round \in writeQ'[i].content
      <4>1. CASE i \in DOMAIN writeQ
        <5>1. \A j \in DOMAIN writeQ' : j < i => j \in DOMAIN writeQ /\ writeQ'[j] = writeQ[j]
          BY <2>3, <4>1 DEF IsAppend
        <5>2. writeQ'[i] = writeQ[i]
          BY <2>3, <4>1 DEF IsAppend
        <5> QED
          BY <2>1, <3>1, <4>1, <5>1, <5>2 DEF Safe, OverSafe
      <4>2. CASE i = Len(writeQ) + 1
        <5>1. writeQ'[i] = m
          BY <2>3, <4>2 DEF IsAppend
        <5>2. i \in Nat
          BY <2>3, <4>2 DEF IsAppend
        <5>3. \A j \in DOMAIN writeQ' : j < i => j \in DOMAIN writeQ /\ writeQ'[j] = writeQ[j]
          BY <2>3, <4>2, <5>2 DEF IsAppend
        <5> QED
          BY <2>1, <2>3, <3>1, <5>1, <5>3
      <4> QED
        BY <2>3, <4>1, <4>2 DEF IsAppend
    <3> QED
      BY <3>1 DEF OverSafe
  <2>4. MemoryUpdate =>
          /\ written \subseteq Head(down).content
          /\ \A j \in DOMAIN writeQ : writeQ[j].op = "append" =>
               writeQ[j].round \in Head(down).content
    BY Arrivals DEF MemoryUpdate, IsTail, Safe, UpdateSafe
  <2>5. CASE MemoryUpdate /\ IsAppend(writeQ, writeQ', [op |-> "overwrite",
                                                        content |-> Head(down).content])
    <3> DEFINE m == [op |-> "overwrite", content |-> Head(down).content]
    <3>1. m.content = Head(down).content /\ IsAppend(writeQ, writeQ', m)
      BY <2>5
    <3> HIDE DEF m
    <3> QED
      BY <2>3, <2>4, <2>5, <3>1
  <2>6. ASSUME NEW m, IsAppend(writeQ, writeQ', m), m.op # "overwrite"
        PROVE  OverSafe'
    BY <2>3, <2>6
  <2> QED
    BY <1>4, <2>2, <2>5, <2>6, WriteMovesSo DEF WriteMoves
<1> QED
  BY <1>3, <1>4

\* What is on its way to overwrite the file.
LEMMA UpdateKept ==
    ASSUME IInv, Safe, [Next]_vars, ~unlocked', ~blanked'
    PROVE  UpdateSafe'
<1> DEFINE Holds(c) ==
             /\ written' \subseteq c
             /\ \A j \in DOMAIN writeQ' : writeQ'[j].op = "append" => writeQ'[j].round \in c
<1>1. ASSUME NEW i \in DOMAIN down, down[i].type = "update"
      PROVE  Holds(down[i].content)
  <2> DEFINE c == down[i].content
  <2>1. written \subseteq c /\ \A j \in DOMAIN writeQ : writeQ[j].op = "append" =>
          writeQ[j].round \in c
    BY <1>1 DEF Safe, UpdateSafe
  <2>2. \A j \in DOMAIN down : j < i /\ down[j].type = "done" => down[j].round \in c
    BY <1>1 DEF Safe, UpdateSafe
  <2> HIDE DEF c
  <2>3. written' \subseteq c
    <3>1. CASE WriteAppend
      BY <2>1, <3>1, Arrivals DEF WriteAppend, IsTail
    <3>2. CASE WriteOver
      BY <2>1, <3>2 DEF WriteOver
    <3> QED
      BY <2>1, <3>1, <3>2, FileMoves
  <2>4. CASE writeQ' = writeQ \/ IsTail(writeQ, writeQ')
    BY <2>1, <2>3, <2>4 DEF IsTail, c
  <2>5. ASSUME NEW m, IsAppend(writeQ, writeQ', m), m.op = "append" => m.round \in c
        PROVE  Holds(c)
    BY <2>1, <2>3, <2>5 DEF IsAppend
  <2>6. ChatDone => Head(down).round \in c
    <3> SUFFICES ASSUME ChatDone
                 PROVE  Head(down).round \in c
      OBVIOUS
    <3>1. 1 \in DOMAIN down /\ down[1] = Head(down) /\ down[1].type = "done"
      BY Arrivals DEF ChatDone, IsTail
    <3>2. i \in 1 .. Len(down) /\ Len(down) \in Nat
      BY DEF IInv, TypeOK
    <3>3. 1 < i
      BY <1>1, <3>1, <3>2
    <3> QED
      BY <2>2, <3>1, <3>3
  <2>7. CASE ChatDone /\ IsAppend(writeQ, writeQ', [op |-> "append",
                                                    round |-> Head(down).round])
    BY <2>5, <2>6, <2>7 DEF c
  <2>8. ASSUME NEW m, IsAppend(writeQ, writeQ', m), m.op # "append"
        PROVE  Holds(c)
    BY <2>5, <2>8
  <2> QED
    BY <2>4, <2>7, <2>8, WriteMovesSo DEF WriteMoves, c
<1>2. \A i, j \in DOMAIN down :
        /\ down[i].type = "update" /\ down[j].type = "done" /\ j < i
        => down[j].round \in down[i].content
  BY DEF Safe, UpdateSafe
<1> HIDE DEF Holds
<1>3. ASSUME \A i \in DOMAIN down' : down'[i].type = "update" =>
               /\ Holds(down'[i].content)
               /\ \A j \in DOMAIN down' : j < i /\ down'[j].type = "done" =>
                    down'[j].round \in down'[i].content
      PROVE  UpdateSafe'
  BY <1>3 DEF UpdateSafe, Holds
<1>4. CASE down' = down \/ down' = <<>>
  BY <1>1, <1>2, <1>3, <1>4
<1>5. CASE IsTail(down, down')
  <2>1. \A i \in DOMAIN down' : i \in Nat /\ i + 1 \in DOMAIN down /\ down'[i] = down[i + 1]
    BY <1>5 DEF IsTail
  <2>2. \A i, j \in DOMAIN down' : j < i => j + 1 < i + 1
    BY <2>1
  <2> QED
    BY <1>1, <1>2, <1>3, <2>1, <2>2
<1>6. ASSUME NEW m, IsAppend(down, down', m),
             m.type = "update" =>
               /\ Holds(m.content)
               /\ \A j \in DOMAIN down : down[j].type = "done" =>
                    down[j].round \in m.content
      PROVE  UpdateSafe'
  <2>1. ASSUME NEW i \in DOMAIN down', down'[i].type = "update"
        PROVE  /\ Holds(down'[i].content)
               /\ \A j \in DOMAIN down' : j < i /\ down'[j].type = "done" =>
                    down'[j].round \in down'[i].content
    <3>1. i \in Nat /\ Len(down) + 1 \in Nat
      BY <1>6 DEF IsAppend
    <3>2. \A j \in DOMAIN down' : j < i => j \in DOMAIN down /\ down'[j] = down[j]
      BY <1>6, <3>1 DEF IsAppend
    <3>3. CASE i \in DOMAIN down
      <4>1. down'[i] = down[i]
        BY <1>6, <3>3 DEF IsAppend
      <4> QED
        BY <1>1, <1>2, <2>1, <3>2, <3>3, <4>1
    <3>4. CASE i = Len(down) + 1
      <4>1. down'[i] = m
        BY <1>6, <3>4 DEF IsAppend
      <4> QED
        BY <1>6, <2>1, <3>2, <4>1
    <3> QED
      BY <1>6, <3>3, <3>4 DEF IsAppend
  <2> QED
    BY <1>3, <2>1
<1>7. ASSUME NEW m, IsAppend(down, down', m), m.type # "update"
      PROVE  UpdateSafe'
  BY <1>6, <1>7
<1>8. ASSUME NEW t \in Tasks, Compact(t), t \in Rest => unlocked',
             IsAppend(down, down', [type |-> "update", content |-> task[t].got])
      PROVE  UpdateSafe'
  <2>1. t \in Questions /\ task[t].pc = "compact"
    BY <1>8, Numbers DEF Compact
  <2>2. Covers(task[t].got)
    BY <2>1 DEF Safe, GotSafe
  <2>3. written' = written /\ writeQ' = writeQ
    BY <1>8 DEF Compact
  <2> DEFINE m == [type |-> "update", content |-> task[t].got]
  <2>4. m.content = task[t].got /\ IsAppend(down, down', m)
    BY <1>8
  <2> HIDE DEF m
  <2>5. Holds(m.content)
    BY <2>2, <2>3, <2>4 DEF Covers, Holds
  <2>6. \A j \in DOMAIN down : down[j].type = "done" => down[j].round \in m.content
    BY <2>2, <2>4 DEF Covers
  <2> QED
    BY <1>6, <2>4, <2>5, <2>6
<1> QED
  BY <1>4, <1>5, <1>7, <1>8, DownMovesSo DEF DownMoves

\* Whoever has a request or an answer on its way waits since before this step.
LEMMA WaitersStay ==
    ASSUME IInv, AskedOnce, [Next]_vars, NEW t \in Questions, Waits(t)'
    PROVE  /\ \A i \in DOMAIN down : down[i].type = "get" /\ down[i].task = t => Waits(t)
           /\ \A i \in DOMAIN writeQ : writeQ[i].op = "read" /\ writeQ[i].task = t => Waits(t)
           /\ \A i \in DOMAIN up : up[i].type = "data" /\ up[i].task = t => Waits(t)
<1>1. t \in Tasks
  BY Numbers
<1> QED
  BY <1>1, WaitingMoves, AsksFirst

\* While a task of a question waits no round is sent.
LEMMA NoRoundSent ==
    ASSUME IInv, OneAtATime, [Next]_vars, NEW t \in Questions, Waits(t)'
    PROVE  \/ down' = down \/ down' = <<>> \/ IsTail(down, down')
           \/ \E m : m.type # "done" /\ IsAppend(down, down', m)
<1>1. ASSUME NEW q \in Questions, Finish(q)
      PROVE  FALSE
  BY <1>1, FinishesAlone DEF Waits
<1>2. ASSUME NEW q \in Tasks, AskMemory(q),
             IsAppend(down, down', [type |-> "get", task |-> q])
      PROVE  \E m : m.type # "done" /\ IsAppend(down, down', m)
  <2>1. [type |-> "get", task |-> q].type # "done"
    OBVIOUS
  <2> QED
    BY <1>2, <2>1
<1>3. ASSUME NEW c, IsAppend(down, down', [type |-> "update", content |-> c])
      PROVE  \E m : m.type # "done" /\ IsAppend(down, down', m)
  <2>1. [type |-> "update", content |-> c].type # "done"
    OBVIOUS
  <2> QED
    BY <1>3, <2>1
<1> QED
  BY <1>1, <1>2, <1>3, DownMovesSo DEF DownMoves

\* Behind the requests for the memory.
LEMMA ReadKept ==
    ASSUME IInv, OneAtATime, AskedOnce, Safe, [Next]_vars
    PROVE  ReadSafe'
<1> SUFFICES ASSUME NEW i \in DOMAIN writeQ', writeQ'[i].op = "read",
                    NEW t \in Questions, t = writeQ'[i].task, Waits(t)'
             PROVE  /\ \A j \in DOMAIN writeQ' : j > i => writeQ'[j].op # "append"
                    /\ \A j \in DOMAIN down' : down'[j].type # "done"
  BY DEF ReadSafe, Waits
<1>1. ASSUME \A j \in DOMAIN down : down[j].type # "done"
      PROVE  \A j \in DOMAIN down' : down'[j].type # "done"
  <2>1. CASE down' = down \/ down' = <<>> \/ IsTail(down, down')
    BY <1>1, <2>1 DEF IsTail
  <2>2. ASSUME NEW m, m.type # "done", IsAppend(down, down', m)
        PROVE  \A j \in DOMAIN down' : down'[j].type # "done"
    BY <1>1, <2>2 DEF IsAppend
  <2> QED
    BY <2>1, <2>2, NoRoundSent
<1>2. ASSUME NEW k \in DOMAIN writeQ, writeQ[k].op = "read", writeQ[k].task = t
      PROVE  /\ \A j \in DOMAIN writeQ : j > k => writeQ[j].op # "append"
             /\ \A j \in DOMAIN down : down[j].type # "done"
  BY <1>2, WaitersStay DEF Safe, ReadSafe
<1>3. CASE writeQ' = writeQ
  BY <1>1, <1>2, <1>3
<1>4. CASE IsTail(writeQ, writeQ')
  <2>1. \A j \in DOMAIN writeQ' :
          j \in Nat /\ j + 1 \in DOMAIN writeQ /\ writeQ'[j] = writeQ[j + 1]
    BY <1>4 DEF IsTail
  <2>2. \A j \in DOMAIN writeQ' : j > i => j + 1 > i + 1
    BY <2>1
  <2> QED
    BY <1>1, <1>2, <2>1, <2>2
<1>5. ASSUME NEW m, IsAppend(writeQ, writeQ', m), m.op # "append", i \in DOMAIN writeQ
      PROVE  /\ \A j \in DOMAIN writeQ' : j > i => writeQ'[j].op # "append"
             /\ \A j \in DOMAIN down' : down'[j].type # "done"
  <2>1. writeQ'[i] = writeQ[i]
    BY <1>5 DEF IsAppend
  <2>2. \A j \in DOMAIN writeQ' : (j \in DOMAIN writeQ /\ writeQ'[j] = writeQ[j]) \/ writeQ'[j] = m
    BY <1>5 DEF IsAppend
  <2> QED
    BY <1>1, <1>2, <1>5, <2>1, <2>2
<1>6. CASE ChatDone /\ IsAppend(writeQ, writeQ', [op |-> "append",
                                                  round |-> Head(down).round])
  <2>1. 1 \in DOMAIN down /\ down[1].type = "done"
    BY <1>6, Arrivals DEF ChatDone, IsTail
  <2>2. i \in DOMAIN writeQ /\ writeQ'[i] = writeQ[i]
    BY <1>6 DEF IsAppend
  <2> QED
    BY <1>2, <2>1, <2>2
<1>7. CASE GetMemory /\ IsAppend(writeQ, writeQ', [op |-> "read", task |-> Head(down).task])
  <2> DEFINE m == [op |-> "read", task |-> Head(down).task]
  <2>1. m.op = "read" /\ m.task = Head(down).task /\ IsAppend(writeQ, writeQ', m)
    BY <1>7
  <2> HIDE DEF m
  <2>2. CASE i \in DOMAIN writeQ
    BY <1>5, <2>1, <2>2
  <2>3. CASE i = Len(writeQ) + 1
    <3>1. writeQ'[i].task = Head(down).task
      BY <2>1, <2>3 DEF IsAppend
    <3>2. 1 \in DOMAIN down /\ down[1].task = t /\ down[1].type = "get"
      BY <1>7, <3>1, Arrivals DEF GetMemory, IsTail
    <3>3. \A j \in DOMAIN down : j > 1 => down[j].type # "done"
      BY <3>2, WaitersStay DEF Safe, GetSafe
    <3>4. \A j \in DOMAIN down : j = 1 \/ j > 1
      BY DEF IInv, TypeOK
    <3>5. \A j \in DOMAIN down : down[j].type # "done"
      BY <3>2, <3>3, <3>4
    <3>6. \A j \in DOMAIN writeQ' : ~(j > i)
      BY <2>1, <2>3 DEF IsAppend
    <3> QED
      BY <1>1, <3>5, <3>6
  <2> QED
    BY <2>1, <2>2, <2>3 DEF IsAppend
<1>8. CASE MemoryUpdate /\ IsAppend(writeQ, writeQ', [op |-> "overwrite",
                                                      content |-> Head(down).content])
  <2> DEFINE m == [op |-> "overwrite", content |-> Head(down).content]
  <2>1. m.op = "overwrite" /\ IsAppend(writeQ, writeQ', m)
    BY <1>8
  <2> HIDE DEF m
  <2>2. i \in DOMAIN writeQ
    BY <2>1 DEF IsAppend
  <2> QED
    BY <1>5, <2>1, <2>2
<1> QED
  BY <1>3, <1>4, <1>6, <1>7, <1>8, WriteMovesSo DEF WriteMoves

\* No round is sent behind a request whose task waits.
LEMMA GetKept ==
    ASSUME IInv, OneAtATime, AskedOnce, Safe, [Next]_vars
    PROVE  GetSafe'
<1> SUFFICES ASSUME NEW i \in DOMAIN down', down'[i].type = "get",
                    NEW t \in Questions, t = down'[i].task, Waits(t)'
             PROVE  \A j \in DOMAIN down' : j > i => down'[j].type # "done"
  BY DEF GetSafe, Waits
<1>1. ASSUME NEW k \in DOMAIN down, down[k].type = "get", down[k].task = t
      PROVE  \A j \in DOMAIN down : j > k => down[j].type # "done"
  BY <1>1, WaitersStay DEF Safe, GetSafe
<1>2. CASE down' = down
  BY <1>1, <1>2
<1>3. CASE down' = <<>>
  BY <1>3
<1>4. CASE IsTail(down, down')
  <2>1. \A j \in DOMAIN down' :
          j \in Nat /\ j + 1 \in DOMAIN down /\ down'[j] = down[j + 1]
    BY <1>4 DEF IsTail
  <2>2. \A j \in DOMAIN down' : j > i => j + 1 > i + 1
    BY <2>1
  <2> QED
    BY <1>1, <2>1, <2>2
<1>5. ASSUME NEW m, m.type # "done", IsAppend(down, down', m)
      PROVE  \A j \in DOMAIN down' : j > i => down'[j].type # "done"
  <2>1. \A j \in DOMAIN down' : (j \in DOMAIN down /\ down'[j] = down[j]) \/ down'[j] = m
    BY <1>5 DEF IsAppend
  <2>2. CASE i \in DOMAIN down
    <3>1. down'[i] = down[i]
      BY <1>5, <2>2 DEF IsAppend
    <3> QED
      BY <1>1, <1>5, <2>1, <2>2, <3>1
  <2>3. CASE i = Len(down) + 1
    <3>1. \A j \in DOMAIN down' : ~(j > i)
      BY <1>5, <2>3 DEF IsAppend
    <3> QED
      BY <3>1
  <2> QED
    BY <1>5, <2>2, <2>3 DEF IsAppend
<1> QED
  BY <1>2, <1>3, <1>4, <1>5, NoRoundSent

\* What the tasks are given.
LEMMA DataKept ==
    ASSUME IInv, OneAtATime, AskedOnce, Safe, [Next]_vars
    PROVE  DataSafe'
<1> SUFFICES ASSUME NEW i \in DOMAIN up', up'[i].type = "data",
                    NEW t \in Questions, t = up'[i].task, Waits(t)',
                    NEW c, c = up'[i].content
             PROVE  c = {} \/ Covers(c)'
  BY DEF DataSafe, Waits, Covers
<1>1. \A q \in Questions : ~Finish(q)
  BY FinishesAlone DEF Waits
<1>2. Covers(c) => Covers(c)'
  BY <1>1, CoversKept
<1>3. ASSUME NEW k \in DOMAIN up, up'[i] = up[k]
      PROVE  c = {} \/ Covers(c)'
  <2>1. up[k].type = "data" /\ up[k].task = t /\ up[k].content = c
    BY <1>3
  <2>2. c = {} \/ Covers(c)
    BY <2>1, WaitersStay DEF Safe, DataSafe
  <2> QED
    BY <1>2, <2>2
<1>4. CASE up' = up \/ up' = <<>> \/ IsTail(up, up')
  BY <1>3, <1>4 DEF IsTail
<1>5. ASSUME NEW m, IsAppend(up, up', m), m.type = "data" => m.content = {}
      PROVE  c = {} \/ Covers(c)'
  <2>1. \/ i \in DOMAIN up /\ up'[i] = up[i]
        \/ up'[i] = m
    BY <1>5 DEF IsAppend
  <2> QED
    BY <1>3, <1>5, <2>1
<1>6. CASE Read /\ IsAppend(up, up', [type |-> "data", task |-> Head(writeQ).task,
                                      content |-> file])
  <2> DEFINE m == [type |-> "data", task |-> Head(writeQ).task, content |-> file]
  <2>1. m.task = Head(writeQ).task /\ m.content = file /\ IsAppend(up, up', m)
    BY <1>6
  <2> HIDE DEF m
  <2>2. \/ i \in DOMAIN up /\ up'[i] = up[i]
        \/ up'[i] = m
    BY <2>1 DEF IsAppend
  <2>3. CASE up'[i] = m
    <3>1. 1 \in DOMAIN writeQ /\ writeQ[1].op = "read" /\ writeQ[1].task = t
      BY <1>6, <2>1, <2>3, Arrivals DEF Read, IsTail
    <3>2. /\ \A j \in DOMAIN writeQ : j > 1 => writeQ[j].op # "append"
          /\ \A j \in DOMAIN down : down[j].type # "done"
      BY <3>1, WaitersStay DEF Safe, ReadSafe
    <3>3. \A j \in DOMAIN writeQ : j = 1 \/ j > 1
      BY DEF IInv, TypeOK
    <3>4. Covers(file)
      BY <3>1, <3>2, <3>3 DEF Covers, Safe
    <3>5. c = file
      BY <2>1, <2>3
    <3>6. Covers(c)
      BY <3>4, <3>5
    <3> QED
      BY <1>2, <3>6
  <2> QED
    BY <1>3, <2>2, <2>3
<1>7. CASE Ask /\ IsAppend(up, up', [type |-> "chat", q |-> asked + 1])
  <2> DEFINE m == [type |-> "chat", q |-> asked + 1]
  <2>1. m.type = "chat" /\ IsAppend(up, up', m)
    BY <1>7
  <2> HIDE DEF m
  <2> QED
    BY <1>5, <2>1
<1>8. CASE GetMemory /\ IsAppend(up, up', [type |-> "data", task |-> Head(down).task,
                                           content |-> {}])
  <2> DEFINE m == [type |-> "data", task |-> Head(down).task, content |-> {}]
  <2>1. m.content = {} /\ IsAppend(up, up', m)
    BY <1>8
  <2> HIDE DEF m
  <2> QED
    BY <1>5, <2>1
<1> QED
  BY <1>4, <1>6, <1>7, <1>8, UpMovesSo DEF UpMoves

\* What they compact.
LEMMA GotKept ==
    ASSUME IInv, OneAtATime, AskedOnce, Safe, [Next]_vars
    PROVE  GotSafe'
<1> SUFFICES ASSUME NEW q \in Questions, task'[q].pc = "compact", NEW c, c = task'[q].got
             PROVE  Covers(c)'
  BY DEF GotSafe, Covers
<1>1. \A t \in Questions : ~Finish(t)
  BY FinishesAlone
<1>2. Covers(c)
  <2>1. CASE task[q].pc = "compact" /\ task'[q] = task[q]
    BY <2>1 DEF Safe, GotSafe
  <2>2. CASE /\ ReceiveMemory /\ q = Head(up).task /\ Waits(q)
             /\ task'[q].got = Head(up).content /\ Head(up).content # {}
    <3>1. /\ 1 \in DOMAIN up /\ up[1] = Head(up) /\ up[1].type = "data"
      BY <2>2, Arrivals DEF ReceiveMemory, IsTail
    <3>2. Covers(up[1].content)
      BY <2>2, <3>1 DEF Safe, DataSafe
    <3>3. c = up[1].content
      BY <2>2, <3>1
    <3> QED
      BY <3>2, <3>3
  <2> QED
    BY <2>1, <2>2, WaitingMoves
<1> QED
  BY <1>1, <1>2, CoversKept

\* The file and all that is on its way to it stay safe.
LEMMA SafeKept ==
    ASSUME IInv, OneAtATime, AskedOnce, Kept, [Next]_vars
    PROVE  Kept'
<1> SUFFICES ASSUME ~unlocked', ~blanked'
             PROVE  Safe'
  BY DEF Kept
<1>1. ~unlocked /\ ~blanked
  BY FileMoves
<1>2. Safe
  BY <1>1 DEF Kept
<1> QED
  BY <1>2, OverKept, UpdateKept, ReadKept, GetKept, DataKept, GotKept DEF Safe

\* In the beginning nothing is on its way.
LEMMA OrderInit == Init => OneAtATime /\ AskedOnce /\ Kept
<1> SUFFICES ASSUME Init
             PROVE  OneAtATime /\ AskedOnce /\ Kept
  OBVIOUS
<1>1. /\ up = <<>> /\ down = <<>> /\ writeQ = <<>> /\ written = file
      /\ \A t \in Tasks : task[t] = NoTask
  BY DEF Init
<1>2. NoTask.pc = "none" /\ NoTask.read = FALSE
  BY DEF NoTask
<1>3. OneAtATime /\ GotSafe
  BY <1>1, <1>2, Numbers DEF OneAtATime, GotSafe, Working
<1>4. AskedOnce
  BY <1>1, <1>2, Numbers DEF AskedOnce, ChatsAreNew, RequestsAreUsed
<1>5. Kept
  BY <1>1, <1>3 DEF Kept, Safe, OverSafe, UpdateSafe, ReadSafe, GetSafe, DataSafe
<1> QED
  BY <1>3, <1>4, <1>5

\* Every step preserves the invariant.
LEMMA OrderKept == MInv /\ [Next]_vars => MInv'
  BY StepKeeps, OneAtATimeKept, AskedOnceKept, SafeKept DEF MInv

\* The invariant holds in every reachable state.
LEMMA OrderInvariance == Spec => []MInv
<1>1. Init => MInv
  BY InitGood, OrderInit DEF MInv
<1> QED
  BY <1>1, OrderKept, PTL DEF Spec

\* What was written to the memory stays in it, unless a compaction for a chat over HTTP
\* or one whose result could not be read came in between.
THEOREM MemoryKept == Spec => []NothingForgotten
<1>1. MInv => NothingForgotten
  BY DEF MInv, Kept, Safe, NothingForgotten
<1> QED
  BY <1>1, OrderInvariance, PTL

-----------------------------------------------------------------------------
(* A session hears the reply to its own question *)

\* A task that will answer on the present connection.
Active(t) ==
    /\ conn # 0 /\ task[t].conn = conn
    /\ task[t].pc \notin {"none", "save", "done"}

NoDone == \A i \in DOMAIN down : down[i].type # "done"

\* The question that is waited for is not answered yet.
NoReply == counted = 0 /\ NoDone

\* Numbers of questions and connections.
Waited ==
    /\ conn = 0 => wait = 0
    /\ wait = 0 => counted = 0
    /\ wait <= asked /\ conn <= opened
    /\ \A t \in Tasks : task[t].conn <= opened

OneChat ==
    \A i, j \in DOMAIN up : up[i].type = "chat" /\ up[j].type = "chat" => i = j

OneDone ==
    \A i, j \in DOMAIN down : down[i].type = "done" /\ down[j].type = "done" => i = j

\* The question on its way, the task that answers it and its answer on its way: of the
\* present connection there is one of them at most, of the question waited for.
ChatInTurn ==
    \A i \in DOMAIN up : up[i].type = "chat" =>
        up[i].q = wait /\ NoReply /\ \A t \in Questions : ~Active(t)

TaskInTurn ==
    \A t \in Questions : Active(t) =>
        /\ t = wait /\ NoReply /\ text[conn] = t
        /\ task[t].pc \in Answering => task[t].heard = t

DoneInTurn ==
    \A i \in DOMAIN down : down[i].type = "done" =>
        wait # 0 /\ down[i].round.to = wait /\ counted = 0

InTurn ==
    /\ counted # 0 => counted = wait
    /\ OneChat /\ OneDone /\ ChatInTurn /\ TaskInTurn /\ DoneInTurn

\* A session that gave up on a question of its connection may hear that reply later.
Turns == ~givenUp => InTurn

TInv == IInv /\ Waited /\ Turns

\* A step that sends no question, or no reply.
NoChatSent ==
    \/ up' = up \/ up' = <<>> \/ IsTail(up, up')
    \/ \E m : m.type # "chat" /\ IsAppend(up, up', m)

NoDoneSent ==
    \/ down' = down \/ down' = <<>> \/ IsTail(down, down')
    \/ \E m : m.type # "done" /\ IsAppend(down, down', m)

\* Where no question is sent, none is on its way that was not.
LEMMA NoNewChat ==
    ASSUME NoChatSent
    PROVE  /\ \A i \in DOMAIN up' : up'[i].type = "chat" =>
                \E k \in DOMAIN up : up[k] = up'[i]
           /\ OneChat => OneChat'
<1>1. CASE up' = up \/ up' = <<>>
  BY <1>1 DEF OneChat
<1>2. CASE IsTail(up, up')
  <2>1. \A i \in DOMAIN up' : i \in Nat /\ i + 1 \in DOMAIN up /\ up'[i] = up[i + 1]
    BY <1>2 DEF IsTail
  <2>2. \A i, j \in DOMAIN up' : i + 1 = j + 1 => i = j
    BY <2>1
  <2> QED
    BY <2>1, <2>2 DEF OneChat
<1>3. ASSUME NEW m, m.type # "chat", IsAppend(up, up', m)
      PROVE  \A i \in DOMAIN up' : up'[i].type = "chat" => i \in DOMAIN up /\ up[i] = up'[i]
  BY <1>3 DEF IsAppend
<1> QED
  BY <1>1, <1>2, <1>3 DEF NoChatSent, OneChat

\* Where no reply is sent, none is on its way that was not.
LEMMA NoNewDone ==
    ASSUME NoDoneSent
    PROVE  /\ \A i \in DOMAIN down' : down'[i].type = "done" =>
                \E k \in DOMAIN down : down[k] = down'[i]
           /\ OneDone => OneDone'
           /\ NoDone => NoDone'
<1>1. CASE down' = down \/ down' = <<>>
  BY <1>1 DEF OneDone, NoDone
<1>2. CASE IsTail(down, down')
  <2>1. \A i \in DOMAIN down' : i \in Nat /\ i + 1 \in DOMAIN down /\ down'[i] = down[i + 1]
    BY <1>2 DEF IsTail
  <2>2. \A i, j \in DOMAIN down' : i + 1 = j + 1 => i = j
    BY <2>1
  <2> QED
    BY <2>1, <2>2 DEF OneDone, NoDone
<1>3. ASSUME NEW m, m.type # "done", IsAppend(down, down', m)
      PROVE  \A i \in DOMAIN down' : down'[i].type = "done" =>
               i \in DOMAIN down /\ down[i] = down'[i]
  BY <1>3 DEF IsAppend
<1> QED
  BY <1>1, <1>2, <1>3 DEF NoDoneSent, OneDone, NoDone

\* A step that sends neither, and makes no task answer here that did not, or something
\* else than it did.
LEMMA InTurnStays ==
    ASSUME InTurn, NoChatSent, NoDoneSent,
           conn' = conn, wait' = wait, counted' = counted, text' = text,
           \A t \in Questions : Active(t)' =>
             Active(t) /\ (task'[t].pc \in Answering =>
                             \/ task[t].pc \in Answering /\ task'[t].heard = task[t].heard
                             \/ task'[t].heard = text[conn])
    PROVE  InTurn'
<1>1. OneChat' /\ OneDone'
  BY NoNewChat, NoNewDone DEF InTurn
<1>2. NoReply => NoReply'
  BY NoNewDone DEF NoReply
<1>3. ChatInTurn'
  BY <1>2, NoNewChat DEF InTurn, ChatInTurn
<1>4. TaskInTurn'
  BY <1>2 DEF InTurn, TaskInTurn
<1>5. DoneInTurn'
  BY NoNewDone DEF InTurn, DoneInTurn
<1> QED
  BY <1>1, <1>3, <1>4, <1>5 DEF InTurn

\* The steps that leave the session and the connection alone.
LEMMA SessionMoves ==
    ASSUME [Next]_vars, ~Ask, ~EndWait, ~Connect, ~Lose, ~ReceiveChat
    PROVE  /\ conn' = conn /\ wait' = wait /\ givenUp' = givenUp /\ text' = text
           /\ opened' = opened
           /\ ~ChatDone => counted' = counted
<1>1. CASE Notice
  BY <1>1 DEF Notice
<1>2. CASE Device
  BY <1>2 DEF Device, ChatDone, GetMemory, MemoryUpdate
<1>3. CASE Writer
  BY <1>3 DEF Writer, WriteAppend, WriteOver, Read
<1>4. CASE ReceiveMemory
  BY <1>4 DEF ReceiveMemory
<1>5. ASSUME NEW t \in Rest, RestChat(t)
      PROVE  /\ conn' = conn /\ wait' = wait /\ givenUp' = givenUp /\ text' = text
             /\ opened' = opened /\ counted' = counted
  BY <1>5 DEF RestChat
<1>6. ASSUME NEW t \in Tasks, ServerStep(t)
      PROVE  /\ conn' = conn /\ wait' = wait /\ givenUp' = givenUp /\ text' = text
             /\ opened' = opened /\ counted' = counted
  BY <1>6 DEF ServerStep, Begin, CallModel, AskMemory, NoMemory, Compact, Finish, Save
<1>7. CASE UNCHANGED vars
  BY <1>7
<1> QED
  BY <1>1, <1>2, <1>3, <1>4, <1>5, <1>6, <1>7 DEF Next, Handler

\* Only the handler of the connection makes a task of a session answer on it.
LEMMA ActiveMoves ==
    ASSUME IInv, [Next]_vars, conn' = conn, ~ReceiveChat
    PROVE  \A t \in Questions : Active(t)' =>
             Active(t) /\ (task'[t].pc \in Answering =>
                             \/ task[t].pc \in Answering /\ task'[t].heard = task[t].heard
                             \/ task'[t].heard = text[conn])
<1> DEFINE Stays(t) ==
             Active(t)' =>
               Active(t) /\ (task'[t].pc \in Answering =>
                               \/ task[t].pc \in Answering /\ task'[t].heard = task[t].heard
                               \/ task'[t].heard = text[conn])
<1> SUFFICES \A t \in Questions : Stays(t)
  OBVIOUS
<1> HIDE DEF Stays
<1>1. ASSUME NEW u \in Tasks, task'[u] = task[u]
      PROVE  Stays(u)
  BY <1>1 DEF Stays, Active
<1>2. CASE task' = task
  BY <1>1, <1>2, Numbers
<1>3. CASE ReceiveMemory
  <2>1. PICK t \in Tasks : t = Head(up).task
    BY <1>3, HandlerMoves
  <2>2. \/ task' = task
        \/ /\ task[t].pc = "memory" /\ task'[t].heard = task[t].heard
           /\ OwnStep(t, "llm") \/ OwnStep(t, "compact")
    BY <1>3, <2>1, HandlerMoves
  <2>3. ASSUME task[t].pc = "memory", task'[t].heard = task[t].heard,
               OwnStep(t, "llm") \/ OwnStep(t, "compact")
        PROVE  Stays(t) /\ \A u \in Tasks \ {t} : task'[u] = task[u]
    BY <2>3 DEF OwnStep, Stays, Active, Answering
  <2> QED
    BY <1>1, <1>2, <2>2, <2>3, Numbers
<1>4. ASSUME NEW t \in Rest, RestChat(t)
      PROVE  \A u \in Questions : Stays(u)
  <2>1. t \in Tasks /\ t \notin Questions
    BY Numbers
  <2>2. \A u \in Tasks \ {t} : task'[u] = task[u]
    BY <1>4, <2>1, TaskMoves DEF OwnStep
  <2> QED
    BY <1>1, <2>1, <2>2, Numbers
<1>5. ASSUME NEW t \in Tasks, ServerStep(t)
      PROVE  \A u \in Questions : Stays(u)
  <2>1. \A u \in Tasks \ {t} : task'[u] = task[u]
    BY <1>5, TaskMoves DEF ServerStep, OwnStep
  <2>2. CASE Begin(t)
    BY <1>1, <2>1, <2>2, TaskMoves, Numbers DEF OwnStep, Stays, Active, Answering
  <2>3. CASE CallModel(t)
    BY <1>1, <2>1, <2>3, TaskMoves, Numbers DEF OwnStep, Stays, Active, Answering
  <2>4. CASE AskMemory(t) \/ NoMemory(t) \/ Compact(t)
    <3>1. /\ OwnStep(t, "memory") \/ OwnStep(t, "llm")
          /\ task[t].pc \in {"llm", "memory", "compact"}
          /\ task'[t].heard = task[t].heard
      BY <2>4, TaskMoves
    <3>2. Stays(t)
      BY <3>1 DEF OwnStep, Stays, Active, Answering
    <3> QED
      BY <1>1, <2>1, <3>2, Numbers
  <2>5. CASE Finish(t) \/ Save(t)
    <3>1. task'[t].pc \in {"save", "done"}
      BY <2>5, TaskMoves DEF OwnStep
    <3>2. Stays(t)
      BY <3>1 DEF Stays, Active
    <3> QED
      BY <1>1, <2>1, <3>2, Numbers
  <2> QED
    BY <1>5, <2>2, <2>3, <2>4, <2>5 DEF ServerStep
<1> QED
  BY <1>2, <1>3, <1>4, <1>5, OtherMoves DEF Next, Handler

\* The connections of the tasks have been opened.
LEMMA WaitedKept ==
    ASSUME IInv, Waited, [Next]_vars
    PROVE  Waited'
<1>1. /\ asked \in Nat /\ wait \in Nat /\ conn \in Nat /\ opened \in Nat
      /\ \A t \in Tasks : task[t].conn \in Nat
  BY BoundsAssumption DEF IInv, TypeOK, TaskState
<1>2. CASE Ask
  BY <1>1, <1>2 DEF Ask, Waited
<1>3. CASE EndWait
  BY <1>1, <1>3 DEF EndWait, Waited
<1>4. CASE Connect
  BY <1>1, <1>4 DEF Connect, Waited
<1>5. CASE Lose
  BY <1>1, <1>5 DEF Lose, Waited
<1>6. CASE ReceiveChat
  <2>1. PICK q \in Tasks : task'[q].conn = conn /\ \A u \in Tasks \ {q} : task'[u] = task[u]
    BY <1>6, HandlerMoves, Numbers
  <2>2. \A t \in Tasks : task'[t].conn <= opened
    BY <2>1 DEF Waited
  <2> QED
    BY <1>6, <2>2 DEF ReceiveChat, Waited
<1>7. CASE ChatDone
  BY <1>7 DEF ChatDone, Waited
<1>8. CASE /\ ~Ask /\ ~EndWait /\ ~Connect /\ ~Lose /\ ~ReceiveChat /\ ~ChatDone
  <2>1. \A t \in Tasks : task'[t].conn = task[t].conn \/ task'[t].conn = 0
    <3>1. CASE task' = task
      BY <3>1
    <3>2. CASE ReceiveMemory
      BY <3>2, HandlerMoves DEF OwnStep
    <3>3. ASSUME NEW t \in Rest, RestChat(t)
          PROVE  \A u \in Tasks : task'[u].conn = task[u].conn \/ task'[u].conn = 0
      BY <3>3, TaskMoves, Numbers DEF OwnStep
    <3>4. ASSUME NEW t \in Tasks, ServerStep(t)
          PROVE  \A u \in Tasks : task'[u].conn = task[u].conn \/ task'[u].conn = 0
      <4>1. /\ \A u \in Tasks \ {t} : task'[u] = task[u]
            /\ task'[t].conn = task[t].conn \/ task'[t].conn = 0
        BY <3>4, TaskMoves DEF ServerStep, OwnStep
      <4> QED
        BY <4>1
    <3> QED
      BY <1>8, <3>1, <3>2, <3>3, <3>4, OtherMoves DEF Next, Handler
  <2>2. conn' = conn /\ wait' = wait /\ opened' = opened /\ counted' = counted
    BY <1>8, SessionMoves
  <2>3. asked' = asked
    BY <1>8, AskedMoves
  <2>4. \A t \in Tasks : task'[t].conn <= opened
    BY <1>1, <2>1 DEF Waited
  <2> QED
    BY <2>2, <2>3, <2>4 DEF Waited
<1> QED
  BY <1>2, <1>3, <1>4, <1>5, <1>6, <1>7, <1>8

\* A question is asked when no other is open.
LEMMA AskInTurn ==
    ASSUME IInv, Waited, Turns, Ask
    PROVE  Turns'
<1> SUFFICES ASSUME ~givenUp'
             PROVE  InTurn'
  BY DEF Turns
<1>1. /\ wait = 0 /\ conn' = conn /\ task' = task /\ down' = down
      /\ wait' = asked + 1 /\ counted' = 0 /\ ~givenUp
  BY DEF Ask
<1>2. InTurn
  BY <1>1 DEF Turns
<1>3. asked + 1 \in Questions
  BY Numbers DEF Ask, IInv, TypeOK
<1>4. \A i \in DOMAIN up : up[i].type # "chat"
  BY <1>1, <1>2, Named, Numbers DEF InTurn, ChatInTurn
<1>5. \A t \in Questions : ~Active(t) /\ ~Active(t)'
  BY <1>1, <1>2, Numbers DEF InTurn, TaskInTurn, Active
<1>6. NoDone /\ NoDone'
  BY <1>1, <1>2 DEF InTurn, DoneInTurn, NoDone
<1>7. [type |-> "chat", q |-> asked + 1] \in UpMessage
  BY <1>3, Messages
<1>8. up' = up \/ IsAppend(up, up', [type |-> "chat", q |-> asked + 1])
  BY <1>7, Departures DEF Ask
<1>9. \A i \in DOMAIN up' : up'[i].type = "chat" => i = Len(up) + 1 /\ up'[i].q = asked + 1
  BY <1>4, <1>8 DEF IsAppend
<1>10. OneChat' /\ ChatInTurn'
  BY <1>1, <1>5, <1>6, <1>9 DEF OneChat, ChatInTurn, NoReply
<1>11. TaskInTurn'
  BY <1>5 DEF TaskInTurn
<1>12. OneDone' /\ DoneInTurn'
  BY <1>6 DEF OneDone, DoneInTurn, NoDone
<1> QED
  BY <1>1, <1>10, <1>11, <1>12 DEF InTurn

\* The waiting ends with the reply, or the session has given up.
LEMMA EndInTurn ==
    ASSUME Waited, Turns, EndWait
    PROVE  Turns'
<1> SUFFICES ASSUME ~givenUp'
             PROVE  InTurn'
  BY DEF Turns
<1>1. givenUp' = (givenUp \/ counted = 0)
  BY DEF EndWait
<1>2. ~givenUp /\ counted # 0
  BY <1>1, Zenon
<1>3. InTurn
  BY <1>2 DEF Turns
<1>4. \A i \in DOMAIN up : up[i].type # "chat"
  BY <1>2, <1>3 DEF InTurn, ChatInTurn, NoReply
<1>5. \A t \in Questions : ~Active(t)
  BY <1>2, <1>3 DEF InTurn, TaskInTurn, NoReply
<1>6. NoDone
  BY <1>2, <1>3 DEF InTurn, DoneInTurn, NoDone
<1>7. conn' = conn /\ up' = up /\ down' = down /\ task' = task /\ wait' = 0 /\ counted' = 0
  BY DEF EndWait
<1>8. OneChat' /\ ChatInTurn'
  BY <1>4, <1>7 DEF OneChat, ChatInTurn
<1>9. TaskInTurn'
  BY <1>5, <1>7 DEF TaskInTurn, Active
<1>10. OneDone' /\ DoneInTurn'
  BY <1>6, <1>7 DEF OneDone, DoneInTurn, NoDone
<1> QED
  BY <1>7, <1>8, <1>9, <1>10 DEF InTurn

\* On a new connection, and on none, nothing is on its way.
LEMMA ConnectInTurn ==
    ASSUME IInv, Waited, Connect \/ Lose
    PROVE  InTurn'
<1>1. up' = <<>> /\ down' = <<>> /\ task' = task /\ counted' = 0
  BY DEF Connect, Lose, Waited
<1>2. \A t \in Questions : ~Active(t)'
  <2>1. CASE Connect
    <3>1. \A t \in Questions : task'[t].conn \in Nat /\ task'[t].conn <= opened
      BY <1>1, Numbers, BoundsAssumption DEF Waited, IInv, TypeOK, TaskState
    <3>2. opened \in Nat /\ conn' = opened + 1
      BY <2>1, BoundsAssumption DEF Connect, IInv, TypeOK
    <3> QED
      BY <3>1, <3>2 DEF Active
  <2>2. CASE Lose
    BY <2>2 DEF Lose, Active
  <2> QED
    BY <2>1, <2>2
<1>3. OneChat' /\ ChatInTurn' /\ OneDone' /\ DoneInTurn'
  BY <1>1 DEF OneChat, ChatInTurn, OneDone, DoneInTurn
<1> QED
  BY <1>1, <1>2, <1>3 DEF InTurn, TaskInTurn

\* The reply that arrives is the one to the question.
LEMMA ReplyInTurn ==
    ASSUME IInv, Waited, InTurn, ChatDone
    PROVE  InTurn'
<1>1. /\ IsTail(down, down') /\ down[1] = Head(down) /\ down[1].type = "done"
      /\ 1 \in DOMAIN down
  BY Arrivals DEF ChatDone, IsTail
<1>2. wait # 0 /\ down[1].round.to = wait /\ counted = 0
  BY <1>1 DEF InTurn, DoneInTurn
<1>3. conn' = conn /\ up' = up /\ task' = task /\ wait' = wait /\ counted' = wait
  BY <1>1, <1>2 DEF ChatDone
<1>4. ~NoReply
  BY <1>1 DEF NoReply, NoDone
<1>5. \A i \in DOMAIN up : up[i].type # "chat"
  BY <1>4 DEF InTurn, ChatInTurn
<1>6. \A t \in Questions : ~Active(t)
  BY <1>4 DEF InTurn, TaskInTurn
<1>7. NoDone'
  <2> SUFFICES ASSUME NEW i \in DOMAIN down', down'[i].type = "done"
               PROVE  FALSE
    BY DEF NoDone
  <2>1. i \in Nat /\ i > 0 /\ i + 1 \in DOMAIN down /\ down'[i] = down[i + 1]
    BY <1>1 DEF IsTail
  <2>2. i + 1 = 1
    BY <1>1, <2>1 DEF InTurn, OneDone
  <2> QED
    BY <2>1, <2>2
<1>8. OneChat' /\ ChatInTurn'
  BY <1>3, <1>5 DEF OneChat, ChatInTurn
<1>9. TaskInTurn'
  BY <1>3, <1>6 DEF TaskInTurn, Active
<1>10. OneDone' /\ DoneInTurn'
  BY <1>7 DEF OneDone, DoneInTurn, NoDone
<1> QED
  BY <1>3, <1>8, <1>9, <1>10 DEF InTurn

\* The task of the question takes its place.
LEMMA ChatArrivesInTurn ==
    ASSUME IInv, InTurn, ReceiveChat
    PROVE  InTurn'
<1> DEFINE q == Head(up).q
<1>1. /\ IsTail(up, up') /\ 1 \in DOMAIN up /\ up[1].type = "chat" /\ up[1].q = q
  BY Arrivals DEF ReceiveChat, IsTail
<1>2. /\ q \in Questions /\ q \in Tasks /\ task'[q].pc = "queued"
      /\ \A u \in Tasks \ {q} : task'[u] = task[u]
  BY HandlerMoves, Numbers
<1>3. /\ conn' = conn /\ down' = down /\ wait' = wait /\ counted' = counted
      /\ text' = [text EXCEPT ![conn] = q]
  BY DEF ReceiveChat
<1>4. conn \in Conns
  BY Arrived DEF ReceiveChat
<1>5. text'[conn] = q
  BY <1>3, <1>4 DEF IInv, TypeOK
<1> HIDE DEF q
<1>6. q = wait /\ NoReply /\ \A t \in Questions : ~Active(t)
  BY <1>1 DEF InTurn, ChatInTurn
<1>7. \A i \in DOMAIN up' : up'[i].type # "chat"
  <2> SUFFICES ASSUME NEW i \in DOMAIN up', up'[i].type = "chat"
               PROVE  FALSE
    OBVIOUS
  <2>1. i \in Nat /\ i > 0 /\ i + 1 \in DOMAIN up /\ up'[i] = up[i + 1]
    BY <1>1 DEF IsTail
  <2>2. i + 1 = 1
    BY <1>1, <2>1 DEF InTurn, OneChat
  <2> QED
    BY <2>1, <2>2
<1>8. \A t \in Questions : Active(t)' => t = q
  BY <1>2, <1>3, <1>6, Numbers DEF Active
<1>9. NoReply'
  BY <1>3, <1>6 DEF NoReply, NoDone
<1>10. TaskInTurn'
  BY <1>2, <1>3, <1>5, <1>6, <1>8, <1>9 DEF TaskInTurn, Answering
<1>11. OneDone' /\ DoneInTurn'
  BY <1>3 DEF InTurn, OneDone, DoneInTurn
<1>12. OneChat' /\ ChatInTurn'
  BY <1>7 DEF OneChat, ChatInTurn
<1> QED
  BY <1>3, <1>10, <1>11, <1>12 DEF InTurn

\* The task of the question hands in its reply.
LEMMA FinishInTurn ==
    ASSUME IInv, Waited, InTurn, NEW t \in Questions, Finish(t),
           IsAppend(down, down', [type |-> "done", round |-> RoundOf(t)]),
           task[t].conn = conn, conn # 0
    PROVE  InTurn'
<1>1. /\ t \in Tasks /\ task[t].pc = "llm" /\ task'[t].pc = "save"
      /\ \A u \in Tasks \ {t} : task'[u] = task[u]
  BY TaskMoves, Numbers DEF OwnStep
<1>2. Active(t) /\ task[t].pc \in Answering
  BY <1>1 DEF Active, Answering
<1>3. t = wait /\ NoReply /\ task[t].heard = t
  BY <1>2 DEF InTurn, TaskInTurn
<1>4. conn' = conn /\ up' = up /\ wait' = wait /\ counted' = counted
  BY DEF Finish
<1> DEFINE m == [type |-> "done", round |-> RoundOf(t)]
<1>5. m.round.to = t /\ IsAppend(down, down', m)
  BY <1>3 DEF RoundOf
<1> HIDE DEF m
<1>6. \A i \in DOMAIN down' : down'[i].type = "done" => i = Len(down) + 1 /\ down'[i] = m
  BY <1>3, <1>5 DEF IsAppend, NoReply, NoDone
<1>7. t # 0
  BY <1>1, Numbers
<1>8. OneDone' /\ DoneInTurn'
  BY <1>3, <1>4, <1>5, <1>6, <1>7 DEF OneDone, DoneInTurn, NoReply
<1>9. \A i \in DOMAIN up : up[i].type # "chat"
  BY <1>2 DEF InTurn, ChatInTurn
<1>10. OneChat' /\ ChatInTurn'
  BY <1>4, <1>9 DEF OneChat, ChatInTurn
<1>11. \A u \in Questions : Active(u) => u = t
  BY <1>3 DEF InTurn, TaskInTurn
<1>12. \A u \in Questions : ~Active(u)'
  BY <1>1, <1>4, <1>11, Numbers DEF Active
<1> QED
  BY <1>4, <1>8, <1>10, <1>12 DEF InTurn, TaskInTurn

\* Every step keeps the questions of a session in turn.
LEMMA TurnsKept ==
    ASSUME IInv, Waited, Turns, [Next]_vars
    PROVE  Turns'
<1>1. CASE Ask
  BY <1>1, AskInTurn
<1>2. CASE EndWait
  BY <1>2, EndInTurn
<1>3. CASE Connect \/ Lose
  BY <1>3, ConnectInTurn DEF Turns
<1>4. CASE ReceiveChat
  <2>1. givenUp' = givenUp
    BY <1>4 DEF ReceiveChat
  <2> QED
    BY <1>4, <2>1, ChatArrivesInTurn DEF Turns
<1>5. CASE ~Ask /\ ~EndWait /\ ~Connect /\ ~Lose /\ ~ReceiveChat
  <2>1. conn' = conn /\ wait' = wait /\ text' = text /\ (~ChatDone => counted' = counted)
    BY <1>5, SessionMoves
  <2>2. givenUp' = givenUp
    BY <1>5, SessionMoves
  <2> SUFFICES ASSUME InTurn
               PROVE  InTurn'
    BY <2>2 DEF Turns
  <2>3. CASE ChatDone
    BY <2>3, ReplyInTurn
  <2>4. ASSUME NEW t \in Questions, Finish(t), task[t].conn = conn, conn # 0
        PROVE  InTurn'
    <3>1. RoundOf(t) \in Round
      BY <2>4, RoundIsGood, Numbers DEF Finish, GoodRound, Answering
    <3>2. [type |-> "done", round |-> RoundOf(t)] \in DownMessage
      BY <3>1, Messages
    <3>3. t \notin Rest
      BY Numbers
    <3>4. down' = Append(down, [type |-> "done", round |-> RoundOf(t)])
      BY <2>4, <3>3 DEF Finish, Reply
    <3>5. IsAppend(down, down', [type |-> "done", round |-> RoundOf(t)])
      BY <3>2, <3>4, Sequence DEF IInv, TypeOK
    <3> QED
      BY <2>4, <3>5, FinishInTurn
  <2>5. CASE /\ ~ChatDone
             /\ \A t \in Questions : ~(Finish(t) /\ task[t].conn = conn /\ conn # 0)
    <3>1. NoChatSent
      <4>1. ASSUME NEW t, NEW c, IsAppend(up, up', [type |-> "data", task |-> t, content |-> c])
            PROVE  NoChatSent
        <5>1. [type |-> "data", task |-> t, content |-> c].type # "chat"
          OBVIOUS
        <5> QED
          BY <4>1, <5>1 DEF NoChatSent
      <4> QED
        BY <1>5, <4>1, UpMovesSo DEF UpMoves, NoChatSent
    <3>2. NoDoneSent
      <4>1. ASSUME NEW t \in Questions, Finish(t)
            PROVE  down' = down
        <5>1. t \notin Rest
          BY Numbers
        <5> QED
          BY <2>5, <4>1, <5>1 DEF Finish, Reply
      <4>2. ASSUME NEW t, IsAppend(down, down', [type |-> "get", task |-> t])
            PROVE  NoDoneSent
        <5>1. [type |-> "get", task |-> t].type # "done"
          OBVIOUS
        <5> QED
          BY <4>2, <5>1 DEF NoDoneSent
      <4>3. ASSUME NEW c, IsAppend(down, down', [type |-> "update", content |-> c])
            PROVE  NoDoneSent
        <5>1. [type |-> "update", content |-> c].type # "done"
          OBVIOUS
        <5> QED
          BY <4>3, <5>1 DEF NoDoneSent
      <4> QED
        BY <4>1, <4>2, <4>3, DownMovesSo DEF DownMoves, NoDoneSent
    <3> QED
      BY <1>5, <2>1, <2>5, <3>1, <3>2, InTurnStays, ActiveMoves
  <2> QED
    BY <2>3, <2>4, <2>5
<1> QED
  BY <1>1, <1>2, <1>3, <1>4, <1>5

\* In the beginning no question is open.
LEMMA TurnsInit == Init => Waited /\ Turns
<1> SUFFICES ASSUME Init
             PROVE  Waited /\ Turns
  OBVIOUS
<1>1. /\ up = <<>> /\ down = <<>> /\ wait = 0 /\ counted = 0 /\ conn = 0 /\ asked = 0
      /\ opened = 0 /\ \A t \in Tasks : task[t] = NoTask
  BY DEF Init
<1>2. Waited
  BY <1>1 DEF Waited, NoTask
<1>3. InTurn
  BY <1>1 DEF InTurn, OneChat, OneDone, ChatInTurn, TaskInTurn, DoneInTurn, Active
<1> QED
  BY <1>2, <1>3 DEF Turns

\* The reply that ends the waiting for a question is the reply to this question, unless
\* the session gave up on an earlier one of its connection.
THEOREM OwnReply == Spec => []ReplyIsMine
<1>1. Init => TInv
  BY InitGood, TurnsInit DEF TInv
<1>2. TInv /\ [Next]_vars => TInv'
  BY StepKeeps, WaitedKept, TurnsKept DEF TInv
<1>3. TInv => ReplyIsMine
  BY DEF TInv, Turns, InTurn, ReplyIsMine
<1> QED
  BY <1>1, <1>2, <1>3, PTL DEF Spec

=============================================================================
