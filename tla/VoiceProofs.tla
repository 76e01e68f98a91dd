---------------------------- MODULE VoiceProofs ----------------------------
(***************************************************************************)
(* Theorems about Voice, for all numbers of replies, frames and upsets, and *)
(* all sizes of the ring, of the two queues and of the relay's load.       *)
(*                                                                         *)
(* What the properties need is that the flags of the speech output follow  *)
(* its tasks: s_busy and s_playback_task say where the one chain of the    *)
(* current generation is, all older tasks have left the ring.  Who writes  *)
(* into the ring is of that generation or was waiting when it was handed   *)
(* over.  A stream's queue is closed before its chain ends by itself, and  *)
(* the relay of a stream that is over has nothing left to carry.           *)
(***************************************************************************)
EXTENDS Voice, FiniteSetTheorems, SequenceTheorems, TLAPS

\* A reply that has been counted and has no session of the speech output yet.
Pending ==
    \/ ws \in {"wait", "kill", "delete", "reset", "start"}
    \/ ws = "chat" /\ reply = "bare"

Interrupting == ws \in {"wait", "kill", "delete"}

\* A playback task that has begun and has not reported its end.
Playing == {"top", "slot", "feed", "flush", "done"}

Holders == {g \in Sessions : task[g].pc \in Holding}

\* The generations are no more than the replies.
Counted ==
    /\ gen <= talks
    /\ Pending => gen < talks
    /\ reply # "none" => talks > 0
    /\ ws = "chat" => reply \in {"bare", "ended", "hush"}
    /\ ws \in {"wait", "kill", "delete", "reset"} => reply = "audio"
    /\ ws = "start" => reply = "none"

\* The flags follow the one chain that is not over.
Chains ==
    /\ \A g \in Sessions : g > gen => task[g].pc = "none"
    /\ \A g \in Sessions : g < gen => task[g].pc \in {"none", "release"}
    /\ busy => gen > 0 /\ task[gen].pc \in {"new"} \cup Playing
    /\ ~busy /\ gen > 0 => task[gen].pc \in {"none", "release"}
    /\ gen > 0 /\ task[gen].pc \in Playing => play = gen
    /\ ~(gen > 0 /\ task[gen].pc \in Playing) => play = 0
    /\ wsMode => busy
    /\ ws \in {"kill", "delete"} /\ busy => play # 0
    /\ ws \in {"reset", "dead"} => ~busy

Recording == sess \notin {"idle", "stop"}
Sampling == noise \in {"sample", "blind"}

\* The codec's clock runs for its users, and its receiver for session and sampling.
Received ==
    /\ codec.txOn = ~Unused(codec)
    /\ codec.rx = (IF Recording THEN 1 ELSE 0) + (IF Sampling THEN 1 ELSE 0)
    /\ Recording => codec.rxOn \/ deaf
    /\ noise = "sample" => codec.rxOn

\* Its count of players follows the tasks, also while one is being deleted.
Clocked ==
    /\ ws \notin {"delete", "dead"} => codec.full = Cardinality(Holders)
    /\ ws = "delete" /\ play # 0 => codec.full + 1 = Cardinality(Holders)

\* Who writes into the ring.
Writers ==
    /\ dl.pc # "none" => dl.gen \in 1 .. gen
    /\ dl.pc = "put" => (dl.gen = gen \/ dl.late) /\ dl.left > 0
    /\ relay.pc # "none" => relay.gen \in 1 .. gen
    /\ relay.pc = "put" => (relay.gen = gen \/ relay.late) /\ relay.left > 0

\* A stream and its queue of frames.
Streamed ==
    /\ IsWsActive /\ done => framesDone
    /\ IsWsActive /\ framesDone /\ ws = "idle" => reply # "audio"
    /\ IsWsActive /\ dl.pc # "none" => dl.gen # gen
    /\ IsWsActive => task[gen].pc # "slot"
    /\ IsWsActive /\ ~stop /\ task[gen].pc \in {"flush", "done"} => framesDone

\* The relay of a stream that is over.
Relays ==
    /\ busy /\ ~wsMode /\ relay.pc # "none" => relay.stuck
    /\ ~busy /\ ws \in {"idle", "chat", "start"} /\ relay.pc # "none" =>
         relay.stuck \/ RelayLeaves

\* ws_audio_stream_take_seen: the flag of a stream and the reply it belongs to.
Flagged ==
    /\ seen /\ reply \in {"none", "bare"} => leftover
    /\ ws \in {"idle", "chat"} /\ reply \in {"audio", "ended"} => seen

IInv ==
    /\ TypeOK /\ Counted /\ Chains /\ Received /\ Clocked /\ Writers
    /\ RingIsOurs /\ Streamed /\ AtMostOneLoadLost /\ Relays /\ FramesReachRing /\ Flagged

-----------------------------------------------------------------------------
(***************************************************************************)
(* Tasks and sequences.                                                    *)
(***************************************************************************)

Tasks == [Sessions -> [pc : TaskStates, heard : BOOLEAN]]

\* Only the task of session g has moved, to pc.
Moves(g, pc) ==
    /\ task' \in Tasks /\ task'[g].pc = pc
    /\ \A h \in Sessions \ {g} : task'[h].pc = task[h].pc

\* No task has moved.
Stays == task' \in Tasks /\ \A h \in Sessions : task'[h].pc = task[h].pc

\* The noise detector leaves all but the codec and a bound alone.
LEMMA NoiseSteps ==
    ASSUME Noise
    PROVE  UNCHANGED <<chainVars, playVars, queue, ringVars, dl, feedVars, ws, asked,
                       reply, sent, talks, news, link, noteVars, sess, deaf>>
  BY DEF Noise, NoiseLook, NoiseHold, NoiseRelease, codecLess, serverVars

\* What the assignments to the tasks do.
LEMMA TaskMoves ==
    ASSUME task \in Tasks, NEW g \in Sessions
    PROVE  /\ \A pc \in TaskStates : GoTo(g, pc) => Moves(g, pc)
           /\ Leave(g) => Moves(g, "flush") \/ Moves(g, "done")
           /\ task' = [task EXCEPT ![g] = NoTask] => Moves(g, "none")
           /\ task' = [task EXCEPT ![g] = [pc |-> "new", heard |-> FALSE]] => Moves(g, "new")
           /\ task' = [task EXCEPT ![g].heard = TRUE] => Stays
           /\ task' = task => Stays
<1>1. ASSUME NEW pc \in TaskStates, GoTo(g, pc)
      PROVE  Moves(g, pc)
  BY <1>1 DEF GoTo, Moves, Tasks
<1>2. Leave(g) => GoTo(g, "flush") \/ GoTo(g, "done")
  BY DEF Leave
<1>3. {"flush", "done", "none", "new"} \subseteq TaskStates
  BY DEF TaskStates
<1>4. ASSUME task' = [task EXCEPT ![g] = NoTask]
      PROVE  Moves(g, "none")
  <2>1. NoTask \in [pc : TaskStates, heard : BOOLEAN] /\ NoTask.pc = "none"
    BY <1>3 DEF NoTask
  <2> QED
    BY <1>4, <2>1 DEF Moves, Tasks
<1>5. ASSUME task' = [task EXCEPT ![g] = [pc |-> "new", heard |-> FALSE]]
      PROVE  Moves(g, "new")
  BY <1>3, <1>5 DEF Moves, Tasks
<1>6. ASSUME task' = [task EXCEPT ![g].heard = TRUE]
      PROVE  Stays
  BY <1>6 DEF Stays, Tasks
<1>7. task' = task => Stays
  BY DEF Stays
<1> QED
  BY <1>1, <1>2, <1>3, <1>4, <1>5, <1>6, <1>7

\* A block at the end of the ring.
LEMMA Appended ==
    ASSUME ring \in Seq(Block), NEW b \in Block, HasRoom, ring' = Append(ring, b),
           Len(ring) <= RingBlocks
    PROVE  /\ ring' \in Seq(Block) /\ Len(ring') = Len(ring) + 1 /\ Len(ring') <= RingBlocks
           /\ ring'[Len(ring) + 1] = b
           /\ \A i \in 1 .. Len(ring) : ring'[i] = ring[i]
BY BoundsAssumption DEF HasRoom

\* A block less at its head.
LEMMA Consumed ==
    ASSUME ring \in Seq(Block), ring # <<>>, ring' = Tail(ring), Len(ring) <= RingBlocks
    PROVE  /\ ring' \in Seq(Block) /\ Len(ring') = Len(ring) - 1 /\ Len(ring') <= RingBlocks
           /\ \A i \in 1 .. Len(ring') : ring'[i] = ring[i + 1] /\ i + 1 \in 1 .. Len(ring)
BY BoundsAssumption

-----------------------------------------------------------------------------
(***************************************************************************)
(* Types.                                                                  *)
(***************************************************************************)

\* What a new session of the speech output needs: it has a reply of its own.
LEMMA TakeOverTypes ==
    ASSUME IInv, NEW mode \in BOOLEAN, TakeOver(mode), gen < MaxTalks
    PROVE  /\ busy' \in BOOLEAN /\ stop' \in BOOLEAN /\ wsMode' \in BOOLEAN
           /\ gen' = gen + 1 /\ gen' \in 0 .. MaxTalks /\ gen' \in Sessions /\ play' = 0
           /\ Moves(gen', "new")
<1>1. busy' \in BOOLEAN /\ stop' \in BOOLEAN /\ wsMode' \in BOOLEAN
  BY DEF TakeOver
<1>2. gen \in 0 .. MaxTalks /\ MaxTalks \in Nat /\ gen < MaxTalks
  BY BoundsAssumption DEF IInv, TypeOK, ChainTypes
<1>3. gen' = gen + 1 /\ play' = 0
  BY DEF TakeOver
<1>4. gen' \in 0 .. MaxTalks /\ gen' \in Sessions
  BY <1>2, <1>3 DEF Sessions
<1>5. task \in Tasks
  BY DEF IInv, TypeOK, ChainTypes, Tasks
<1>6. Moves(gen', "new")
  BY <1>3, <1>4, <1>5, TaskMoves DEF TakeOver
<1> QED
  BY <1>1, <1>3, <1>4, <1>6

\* The types of the chain where it is not taken over.
LEMMA ChainTyped ==
    ASSUME ChainTypes, busy' \in BOOLEAN, stop' \in BOOLEAN, wsMode' \in BOOLEAN,
           gen' = gen, play' \in 0 .. MaxTalks, task' \in Tasks,
           queue' \in {queue, <<>>} \/ (queue # <<>> /\ queue' = Tail(queue))
    PROVE  ChainTypes'
<1>1. queue \in Seq(Sessions) /\ Len(queue) <= QueueLen /\ QueueLen \in Nat
  BY BoundsAssumption DEF ChainTypes
<1>2. queue' \in Seq(Sessions) /\ Len(queue') <= QueueLen
  <2>1. CASE queue' = queue
    BY <1>1, <2>1
  <2>2. CASE queue' = <<>>
    BY <1>1, <2>2
  <2>3. CASE queue # <<>> /\ queue' = Tail(queue)
    <3>1. queue' \in Seq(Sessions) /\ Len(queue') = Len(queue) - 1 /\ Len(queue) \in Nat
      BY <1>1, <2>3
    <3> QED
      BY <1>1, <3>1
  <2> QED
    BY <2>1, <2>2, <2>3
<1> QED
  BY <1>2 DEF ChainTypes, Tasks

\* A playback task keeps the types of the chain.
LEMMA PlaybackChainTypes ==
    ASSUME IInv, NEW g \in Sessions, Playback(g)
    PROVE  ChainTypes'
<1>1. /\ ChainTypes /\ task \in Tasks /\ busy \in BOOLEAN /\ stop \in BOOLEAN
      /\ wsMode \in BOOLEAN
  BY DEF IInv, TypeOK, ChainTypes, Tasks
<1>2. play \in 0 .. MaxTalks /\ 0 \in 0 .. MaxTalks /\ g \in 0 .. MaxTalks
  BY BoundsAssumption DEF IInv, TypeOK, ChainTypes, Sessions
<1>3. {"top", "slot", "feed", "flush", "done", "release"} \subseteq TaskStates
  BY DEF TaskStates
<1>4. \A pc \in TaskStates \cup {"none"} : Moves(g, pc) => task' \in Tasks
  BY DEF Moves
<1>5. Stays => task' \in Tasks
  BY DEF Stays
<1>6. CASE PlayStart(g)
  BY <1>1, <1>2, <1>3, <1>4, <1>6, TaskMoves, ChainTyped DEF PlayStart, chainVars
<1>7. CASE PlayStop(g)
  BY <1>1, <1>2, <1>3, <1>4, <1>7, TaskMoves, ChainTyped DEF PlayStop, chainVars
<1>8. CASE PlayTop(g)
  <2>1. /\ UNCHANGED <<busy, stop, gen, wsMode, play>>
        /\ queue' = queue \/ (queue # <<>> /\ queue' = Tail(queue))
        /\ GoTo(g, "feed") \/ GoTo(g, "slot") \/ Leave(g)
    BY <1>8 DEF PlayTop, Spawn, chainVars
  <2> QED
    BY <1>1, <1>2, <1>3, <1>4, <2>1, TaskMoves, ChainTyped
<1>9. CASE PlaySlot(g)
  <2>1. /\ UNCHANGED <<busy, stop, gen, wsMode, play, queue>>
        /\ GoTo(g, "feed") \/ GoTo(g, "top")
    BY <1>9 DEF PlaySlot, Spawn, chainVars
  <2> QED
    BY <1>1, <1>2, <1>3, <1>4, <2>1, TaskMoves, ChainTyped
<1>10. CASE PlayFeed(g)
  <2>1. /\ UNCHANGED <<busy, stop, gen, wsMode, play, queue>>
        /\ task' = [task EXCEPT ![g].heard = TRUE] \/ GoTo(g, "top")
    BY <1>10 DEF PlayFeed, chainVars
  <2> QED
    BY <1>1, <1>2, <1>3, <1>4, <1>5, <2>1, TaskMoves, ChainTyped
<1>11. CASE PlayFlush(g)
  BY <1>1, <1>2, <1>3, <1>4, <1>11, TaskMoves, ChainTyped DEF PlayFlush, chainVars
<1>12. CASE PlayDone(g)
  <2>1. /\ UNCHANGED <<stop, gen, queue>> /\ GoTo(g, "release")
        /\ play' = 0 \/ play' = play
    BY <1>12 DEF PlayDone
  <2>2. busy' \in BOOLEAN /\ wsMode' \in BOOLEAN
    BY <1>1, <1>12 DEF PlayDone
  <2> QED
    BY <1>1, <1>2, <1>3, <1>4, <2>1, <2>2, TaskMoves, ChainTyped
<1>13. CASE PlayRelease(g)
  BY <1>1, <1>2, <1>4, <1>13, TaskMoves, ChainTyped DEF PlayRelease, chainVars, TaskStates
<1> QED
  BY <1>6, <1>7, <1>8, <1>9, <1>10, <1>11, <1>12, <1>13 DEF Playback

\* The other tasks and the WebSocket events keep the types of the chain.
LEMMA OtherChainTypes ==
    ASSUME IInv, Next, ~ \E g \in Sessions : Playback(g)
    PROVE  ChainTypes'
<1>1. /\ ChainTypes /\ task \in Tasks /\ busy \in BOOLEAN /\ stop \in BOOLEAN
      /\ wsMode \in BOOLEAN /\ queue \in Seq(Sessions) /\ Len(queue) <= QueueLen
  BY DEF IInv, TypeOK, ChainTypes, Tasks
<1>2. play \in 0 .. MaxTalks /\ 0 \in 0 .. MaxTalks
  BY BoundsAssumption DEF IInv, TypeOK, ChainTypes
<1>3. CASE UNCHANGED <<chainVars, playVars, queue>>
  BY <1>1, <1>2, <1>3, ChainTyped DEF chainVars, playVars
<1>4. ASSUME NEW mode \in BOOLEAN, TakeOver(mode), gen < MaxTalks, queue' = queue
      PROVE  ChainTypes'
  <2>1. /\ busy' \in BOOLEAN /\ stop' \in BOOLEAN /\ wsMode' \in BOOLEAN
        /\ gen' \in 0 .. MaxTalks /\ play' = 0 /\ Moves(gen', "new")
    BY <1>4, TakeOverTypes
  <2>2. task' \in Tasks
    BY <2>1 DEF Moves
  <2> QED
    BY <1>1, <1>2, <1>4, <2>1, <2>2 DEF ChainTypes, Tasks
<1>5. MaxTalks \in Nat /\ gen \in 0 .. MaxTalks /\ talks \in 0 .. MaxTalks
      /\ gen <= talks /\ (Pending => gen < talks)
  BY BoundsAssumption DEF IInv, TypeOK, ChainTypes, ServerTypes, Counted
<1>6. ASSUME Pending
      PROVE  gen < MaxTalks
  BY <1>5, <1>6
<1>7. CASE Waited \/ Kill \/ Frame \/ AudioEnd \/ ChatDone \/ Disconnect \/ Reconnect
  BY <1>3, <1>7 DEF Waited, Kill, Frame, AudioEnd, ChatDone, Disconnect, Reconnect
<1>8. CASE Delete
  <2>1. UNCHANGED <<stop, gen, queue>>
    BY <1>8 DEF Delete
  <2>2. CASE play = 0
    BY <1>1, <1>2, <1>8, <2>1, <2>2, ChainTyped DEF Delete, playVars
  <2>3. CASE play # 0
    <3>1. /\ busy' = FALSE /\ wsMode' = FALSE
          /\ play' = 0 /\ task' = [task EXCEPT ![play] = NoTask]
      BY <1>8, <2>3 DEF Delete
    <3>2. busy' \in BOOLEAN /\ wsMode' \in BOOLEAN
      BY <3>1
    <3>3. play \in Sessions
      BY <1>2, <2>3 DEF Sessions
    <3>4. task' \in Tasks
      BY <1>1, <3>1, <3>3, TaskMoves DEF Moves
    <3> QED
      BY <1>1, <1>2, <2>1, <3>1, <3>2, <3>4, ChainTyped
  <2> QED
    BY <2>2, <2>3
<1>9. CASE Reset
  BY <1>4, <1>6, <1>9 DEF Reset, StartStream, Pending
<1>10. CASE Say
  <2>1. UNCHANGED <<chainVars, playVars>>
    BY <1>10 DEF Say
  <2>2. CASE queue' = queue
    BY <1>3, <2>1, <2>2
  <2>3. CASE Len(queue) < QueueLen /\ queue' = Append(queue, talks)
    <3>1. talks \in Sessions
      <4>1. ws = "chat" /\ talks > 0
        BY <1>10 DEF Say, IInv, Counted
      <4> QED
        BY <1>5, <4>1 DEF Sessions
    <3>2. queue' \in Seq(Sessions) /\ Len(queue') = Len(queue) + 1
      BY <1>1, <2>3, <3>1
    <3>3. Len(queue') <= QueueLen
      BY <1>1, <2>3, <3>2, BoundsAssumption
    <3> QED
      BY <1>1, <2>1, <3>2, <3>3 DEF ChainTypes, chainVars, playVars
  <2> QED
    BY <1>10, <2>2, <2>3 DEF Say
<1>11. CASE Speak
  <2>1. CASE busy
    BY <1>3, <1>11, <2>1 DEF Speak
  <2>2. CASE ~busy
    BY <1>4, <1>6, <1>11, <2>2 DEF Speak, Pending
  <2> QED
    BY <2>1, <2>2
<1>12. CASE AudioStart
  <2>1. talks < MaxTalks
    BY <1>12 DEF AudioStart
  <2>2. gen < MaxTalks
    BY <1>5, <2>1
  <2>3. CASE busy \/ play # 0
    <3>1. UNCHANGED <<busy, gen, wsMode, play, task, queue>> /\ stop' = TRUE
      BY <1>12, <2>3 DEF AudioStart, playVars
    <3>2. stop' \in BOOLEAN
      BY <3>1
    <3> QED
      BY <1>1, <1>2, <3>1, <3>2, ChainTyped
  <2>4. CASE ~(busy \/ play # 0)
    BY <1>4, <1>12, <2>2, <2>4 DEF AudioStart, StartStream
  <2> QED
    BY <2>3, <2>4
<1>13. CASE Download
  BY <1>3, <1>13 DEF Download
<1>14. CASE Relay
  BY <1>3, <1>14 DEF Relay
<1>15. CASE Press \/ WifiLost
  <2>1. UNCHANGED <<busy, gen, wsMode, play, task>> /\ TtsStop
    BY <1>15 DEF Press, WifiLost, stopLess, playVars
  <2>2. stop' \in BOOLEAN
    BY <1>1, <2>1 DEF TtsStop
  <2>3. queue' \in {queue, <<>>}
    BY <2>1 DEF TtsStop
  <2> QED
    BY <1>1, <1>2, <2>1, <2>2, <2>3, ChainTyped
<1>16. CASE Session
  BY <1>3, <1>16 DEF Session, Open, LateReply, Silence, Speech, Answered, Drain, codecLess, ttsVars
<1>17. CASE Noise
  BY <1>3, <1>17, NoiseSteps
<1> QED
  BY <1>7, <1>8, <1>9, <1>10, <1>11, <1>12, <1>13, <1>14, <1>15, <1>16, <1>17
     DEF Next, TtsNext, WsStep, Event

DlType ==
    [pc : {"none", "net", "put"}, gen : 0 .. MaxTalks, try : 0 .. 2,
     left : 0 .. SentenceBlocks, late : BOOLEAN]
RelayType ==
    [pc : {"none", "look", "put"}, gen : 0 .. MaxTalks, left : 0 .. RelayBlocks,
     late : BOOLEAN, stuck : BOOLEAN]

\* What the download task and its callers make of its record.
LEMMA DlTyped ==
    ASSUME dl \in DlType
    PROVE  /\ NoDownload \in DlType
           /\ [dl EXCEPT !.late = dl.pc = "put"] \in DlType
           /\ [dl EXCEPT !.pc = "put"] \in DlType
           /\ dl.left > 0 => [dl EXCEPT !.left = @ - 1] \in DlType
           /\ dl.left > 0 =>
                [dl EXCEPT !.pc = "net", !.left = @ - 1, !.late = FALSE] \in DlType
           /\ [dl EXCEPT !.try = 2, !.left = SentenceBlocks] \in DlType
           /\ \A g \in Sessions :
                [pc |-> "net", gen |-> g, left |-> SentenceBlocks, try |-> 1, late |-> FALSE]
                  \in DlType
<1>1. SentenceBlocks \in Nat /\ MaxTalks \in Nat
  BY BoundsAssumption
<1>2. NoDownload \in DlType
  BY <1>1 DEF NoDownload, DlType
<1>3. [dl EXCEPT !.late = dl.pc = "put"] \in DlType
  <2>1. (dl.pc = "put") \in BOOLEAN
    OBVIOUS
  <2> QED
    BY <2>1 DEF DlType
<1>4. [dl EXCEPT !.pc = "put"] \in DlType
  BY DEF DlType
<1>5. dl.left > 0 => dl.left - 1 \in 0 .. SentenceBlocks
  BY <1>1 DEF DlType
<1>6. dl.left > 0 => [dl EXCEPT !.left = @ - 1] \in DlType
  BY <1>5 DEF DlType
<1>7. dl.left > 0 => [dl EXCEPT !.pc = "net", !.left = @ - 1, !.late = FALSE] \in DlType
  BY <1>5 DEF DlType
<1>8. [dl EXCEPT !.try = 2, !.left = SentenceBlocks] \in DlType
  <2>1. 2 \in 0 .. 2 /\ SentenceBlocks \in 0 .. SentenceBlocks
    BY <1>1
  <2>2. ASSUME NEW r \in DlType
        PROVE  [r EXCEPT !.try = 2] \in DlType /\ [r EXCEPT !.left = SentenceBlocks] \in DlType
    BY <2>1 DEF DlType
  <2> QED
    BY <2>2
<1>9. ASSUME NEW g \in Sessions
      PROVE  [pc |-> "net", gen |-> g, left |-> SentenceBlocks, try |-> 1, late |-> FALSE]
               \in DlType
  <2>1. g \in 0 .. MaxTalks /\ 1 \in 0 .. 2 /\ SentenceBlocks \in 0 .. SentenceBlocks
    BY <1>1 DEF Sessions
  <2> QED
    BY <2>1 DEF DlType
<1> QED
  BY <1>2, <1>3, <1>4, <1>6, <1>7, <1>8, <1>9

\* What the relay takes at once is something, and no more than there is.
LEMMA LoadSize ==
    ASSUME frames \in 0 .. WsQueueBlocks, frames > 0
    PROVE  /\ Load \in 1 .. RelayBlocks /\ Load <= frames
           /\ frames - Load \in 0 .. WsQueueBlocks
  BY BoundsAssumption DEF Load

\* What the relay makes of its record when it takes a load and puts it.
LEMMA LoadTyped ==
    ASSUME relay \in RelayType
    PROVE  /\ \A n \in 0 .. RelayBlocks : [relay EXCEPT !.pc = "put", !.left = n] \in RelayType
           /\ [relay EXCEPT !.pc = "look", !.left = 0, !.late = FALSE] \in RelayType
           /\ relay.left > 0 => [relay EXCEPT !.left = @ - 1] \in RelayType
<1>1. /\ relay.left > 0 => relay.left - 1 \in 0 .. RelayBlocks
      /\ 0 \in 0 .. RelayBlocks
  BY BoundsAssumption DEF RelayType
<1>2. ASSUME NEW r \in RelayType, NEW n \in 0 .. RelayBlocks
      PROVE  [r EXCEPT !.left = n] \in RelayType
  BY DEF RelayType
<1>3. ASSUME NEW r \in RelayType, NEW n \in 0 .. RelayBlocks
      PROVE  [r EXCEPT !.pc = "put", !.left = n] \in RelayType
  BY DEF RelayType
<1>4. ASSUME NEW r \in RelayType, NEW n \in 0 .. RelayBlocks
      PROVE  [r EXCEPT !.pc = "look", !.left = n, !.late = FALSE] \in RelayType
  BY DEF RelayType
<1>5. \A n \in 0 .. RelayBlocks : [relay EXCEPT !.pc = "put", !.left = n] \in RelayType
  BY <1>3, Zenon
<1>6. [relay EXCEPT !.pc = "look", !.left = 0, !.late = FALSE] \in RelayType
  BY <1>1, <1>4, Zenon
<1>7. relay.left > 0 => [relay EXCEPT !.left = @ - 1] \in RelayType
  BY <1>1, <1>2
<1> QED
  BY <1>5, <1>6, <1>7, Zenon

\* What its callers make of it.
LEMMA RelayTyped ==
    ASSUME relay \in RelayType
    PROVE  /\ NoRelay \in RelayType
           /\ [relay EXCEPT !.late = relay.pc = "put"] \in RelayType
           /\ [relay EXCEPT !.stuck = @ \/ relay.pc = "put"] \in RelayType
           /\ \A g \in Sessions :
                [pc |-> "look", gen |-> g, left |-> 0, late |-> FALSE, stuck |-> FALSE]
                  \in RelayType
<1>1. NoRelay \in RelayType
  BY BoundsAssumption DEF NoRelay, RelayType
<1>2. (relay.pc = "put") \in BOOLEAN /\ (relay.stuck \/ relay.pc = "put") \in BOOLEAN
  OBVIOUS
<1>3. ASSUME NEW g \in Sessions
      PROVE  [pc |-> "look", gen |-> g, left |-> 0, late |-> FALSE, stuck |-> FALSE]
               \in RelayType
  BY <1>3, BoundsAssumption DEF RelayType, Sessions
<1> QED
  BY <1>1, <1>2, <1>3 DEF RelayType

\* The ring with one block more, written by w for a session that has begun.
LEMMA PutTypes ==
    ASSUME IInv, HasRoom, NEW w, Put(w), w.gen \in 1 .. gen, w.late \in BOOLEAN
    PROVE  ring' \in Seq(Block) /\ Len(ring') <= RingBlocks
<1>1. [gen |-> w.gen, late |-> w.late] \in Block
  <2>1. w.gen \in Sessions
    BY BoundsAssumption DEF IInv, TypeOK, ChainTypes, Sessions
  <2> QED
    BY <2>1 DEF Block
<1> QED
  BY <1>1, Appended DEF IInv, TypeOK, RingTypes, Put

\* The types of the ring and its writers.
LEMMA RingTypesKept ==
    ASSUME IInv, Next
    PROVE  RingTypes'
<1>1. /\ ring \in Seq(Block) /\ Len(ring) <= RingBlocks /\ dl \in DlType
      /\ relay \in RelayType /\ frames \in 0 .. WsQueueBlocks
      /\ done \in BOOLEAN /\ framesDone \in BOOLEAN
  BY DEF IInv, TypeOK, RingTypes, DlType, RelayType
<1>2. <<>> \in Seq(Block) /\ Len(<<>>) <= RingBlocks /\ 0 \in 0 .. WsQueueBlocks
  BY BoundsAssumption
<1>3. ASSUME ring' \in Seq(Block), Len(ring') <= RingBlocks, done' \in BOOLEAN,
             dl' \in DlType, frames' \in 0 .. WsQueueBlocks, framesDone' \in BOOLEAN,
             relay' \in RelayType
      PROVE  RingTypes'
  BY <1>3 DEF RingTypes, DlType, RelayType
<1>4. CASE UNCHANGED <<ringVars, dl, feedVars>>
  BY <1>1, <1>3, <1>4 DEF ringVars, feedVars
<1>5. ASSUME NEW g \in Sessions, Spawn(g)
      PROVE  /\ ring' \in Seq(Block) /\ Len(ring') <= RingBlocks /\ dl' \in DlType
             /\ done' \in BOOLEAN
  BY <1>1, <1>2, <1>5, DlTyped DEF Spawn
<1>6. ASSUME NEW g \in Sessions, Playback(g)
      PROVE  RingTypes'
  <2>1. CASE PlayStart(g) \/ PlayStop(g) \/ PlayFlush(g) \/ PlayRelease(g)
    BY <1>4, <2>1 DEF PlayStart, PlayStop, PlayFlush, PlayRelease
  <2>2. CASE PlayTop(g)
    <3>1. UNCHANGED feedVars /\ (UNCHANGED <<ringVars, dl>> \/ Spawn(g))
      BY <2>2 DEF PlayTop
    <3> QED
      BY <1>1, <1>3, <1>4, <1>5, <3>1 DEF feedVars
  <2>3. CASE PlaySlot(g)
    <3>1. UNCHANGED feedVars /\ (UNCHANGED <<ringVars, dl>> \/ Spawn(g))
      BY <2>3 DEF PlaySlot
    <3> QED
      BY <1>1, <1>3, <1>4, <1>5, <3>1 DEF feedVars
  <2>4. CASE PlayFeed(g)
    <3>1. UNCHANGED <<dl, frames, framesDone, relay>>
      BY <2>4 DEF PlayFeed, feedVars
    <3>2. done' \in BOOLEAN
      BY <1>1, <2>4 DEF PlayFeed, ringVars
    <3>3. ring' = ring \/ (ring # <<>> /\ ring' = Tail(ring))
      BY <2>4 DEF PlayFeed, ringVars
    <3>4. ring' \in Seq(Block) /\ Len(ring') <= RingBlocks
      BY <1>1, <3>3, Consumed
    <3> QED
      BY <1>1, <1>3, <3>1, <3>2, <3>4
  <2>5. CASE PlayDone(g)
    <3>1. UNCHANGED <<ring, done, dl, frames, framesDone>>
      BY <2>5 DEF PlayDone, ringVars
    <3>2. relay' = relay \/ relay' = [relay EXCEPT !.stuck = @ \/ relay.pc = "put"]
      BY <2>5 DEF PlayDone
    <3>3. relay' \in RelayType
      BY <1>1, <3>2, RelayTyped
    <3> QED
      BY <1>1, <1>3, <3>1, <3>3
  <2> QED
    BY <1>6, <2>1, <2>2, <2>3, <2>4, <2>5 DEF Playback
<1>7. CASE Download
  <2>1. UNCHANGED <<frames, framesDone, relay>>
    BY <1>7 DEF Download, feedVars
  <2>2. CASE DlReceive
    <3>1. dl.pc = "net" /\ dl.left > 0 /\ done' = done
      BY <2>2 DEF DlReceive
    <3>2. dl' \in DlType
      BY <1>1, <2>2, <3>1, DlTyped DEF DlReceive
    <3>3. ring' = ring \/ (HasRoom /\ Put(dl))
      BY <2>2 DEF DlReceive
    <3>4. dl.gen \in 1 .. gen /\ dl.late \in BOOLEAN
      BY <1>1, <3>1 DEF IInv, Writers, DlType
    <3>5. ring' \in Seq(Block) /\ Len(ring') <= RingBlocks
      BY <1>1, <3>3, <3>4, PutTypes
    <3> QED
      BY <1>1, <1>3, <2>1, <3>1, <3>2, <3>5
  <2>3. CASE DlPut
    <3>1. dl.pc = "put" /\ HasRoom /\ Put(dl) /\ done' = done
      BY <2>3 DEF DlPut
    <3>2. dl.gen \in 1 .. gen /\ dl.late \in BOOLEAN /\ dl.left > 0
      BY <1>1, <3>1 DEF IInv, Writers, DlType
    <3>3. dl' \in DlType
      BY <1>1, <2>3, <3>2, DlTyped DEF DlPut
    <3>4. ring' \in Seq(Block) /\ Len(ring') <= RingBlocks
      BY <3>1, <3>2, PutTypes
    <3> QED
      BY <1>1, <1>3, <2>1, <3>1, <3>3, <3>4
  <2>4. CASE DlEnd \/ DlGiveUp
    <3>1. ring' = ring
      BY <2>4 DEF DlEnd, DlGiveUp
    <3>2. dl' = NoDownload \/ dl' = [dl EXCEPT !.try = 2, !.left = SentenceBlocks]
      BY <2>4 DEF DlEnd, DlExit, DlGiveUp
    <3>3. done' = done \/ done' = TRUE \/ done' = (done \/ dl.gen = gen)
      BY <2>4 DEF DlEnd, DlExit, DlGiveUp
    <3>4. done' \in BOOLEAN
      BY <1>1, <3>3
    <3>5. dl' \in DlType
      BY <1>1, <3>2, DlTyped
    <3> QED
      BY <1>1, <1>3, <2>1, <3>1, <3>4, <3>5
  <2> QED
    BY <1>7, <2>2, <2>3, <2>4 DEF Download
<1>8. CASE Relay
  <2>1. UNCHANGED <<dl, framesDone>>
    BY <1>8 DEF Relay
  <2>2. CASE RelayTake
    <3>1. frames > 0 /\ frames' = frames - Load /\ ring' = ring /\ done' = done
      BY <2>2 DEF RelayTake, ringVars
    <3>2. relay' = relay \/ relay' = [relay EXCEPT !.pc = "put", !.left = Load]
      BY <2>2 DEF RelayTake
    <3>3. Load \in 0 .. RelayBlocks /\ frames' \in 0 .. WsQueueBlocks
      BY <1>1, <3>1, LoadSize, BoundsAssumption
    <3>4. relay' \in RelayType
      BY <1>1, <3>2, <3>3, LoadTyped, Zenon
    <3> QED
      BY <1>1, <1>3, <2>1, <3>1, <3>3, <3>4
  <2>3. CASE RelayPut
    <3>1. /\ relay.pc = "put" /\ HasRoom /\ Put(relay) /\ done' = done /\ frames' = frames
          /\ \/ relay' = [relay EXCEPT !.pc = "look", !.left = 0, !.late = FALSE]
             \/ relay' = [relay EXCEPT !.left = @ - 1]
      BY <2>3 DEF RelayPut
    <3>2. relay.gen \in 1 .. gen /\ relay.late \in BOOLEAN /\ relay.left > 0
      BY <1>1, <3>1 DEF IInv, Writers, RelayType
    <3>3. ring' \in Seq(Block) /\ Len(ring') <= RingBlocks
      BY <3>1, <3>2, PutTypes
    <3>4. relay' \in RelayType
      BY <1>1, <3>1, <3>2, LoadTyped, Zenon
    <3> QED
      BY <1>1, <1>3, <2>1, <3>1, <3>3, <3>4
  <2>4. CASE RelayExit \/ RelayGiveUp
    <3>1. relay' = NoRelay /\ ring' = ring /\ frames' = frames
      BY <2>4 DEF RelayExit, RelayGiveUp, ringVars
    <3>2. done' \in BOOLEAN
      BY <1>1, <2>4 DEF RelayExit, RelayGiveUp, ringVars
    <3> QED
      BY <1>1, <1>3, <2>1, <3>1, <3>2, RelayTyped
  <2> QED
    BY <1>8, <2>2, <2>3, <2>4 DEF Relay
<1>9. ASSUME NEW d \in BOOLEAN, HandOver(d)
      PROVE  /\ ring' \in Seq(Block) /\ Len(ring') <= RingBlocks /\ done' \in BOOLEAN
             /\ dl' \in DlType
  BY <1>1, <1>2, <1>9, DlTyped DEF HandOver
<1>10. MaxTalks \in Nat /\ gen \in 0 .. MaxTalks /\ talks \in 0 .. MaxTalks
       /\ gen <= talks /\ (Pending => gen < talks)
  BY BoundsAssumption DEF IInv, TypeOK, ChainTypes, ServerTypes, Counted
<1>11. ASSUME NEW r \in {relay, NoRelay}, StartStream(r), gen < MaxTalks
       PROVE  RingTypes'
  <2>1. /\ ring' \in Seq(Block) /\ Len(ring') <= RingBlocks /\ done' \in BOOLEAN
        /\ dl' \in DlType
    BY <1>9, <1>11 DEF StartStream
  <2>2. frames' \in 0 .. WsQueueBlocks /\ framesDone' \in BOOLEAN
    <3>1. framesDone' \in BOOLEAN
      BY <1>11 DEF StartStream
    <3>2. frames' = 0
      BY <1>11 DEF StartStream
    <3> QED
      BY <1>2, <3>1, <3>2
  <2>3. gen + 1 \in Sessions
    BY <1>10, <1>11 DEF Sessions
  <2>4. r.pc # "none" => r = relay
    BY DEF NoRelay
  <2>5. relay' = (IF r.pc = "none"
                  THEN [pc |-> "look", gen |-> gen + 1, left |-> 0, late |-> FALSE, stuck |-> FALSE]
                  ELSE [r EXCEPT !.late = r.pc = "put"])
    BY <1>11 DEF StartStream
  <2>6. relay' \in RelayType
    <3>1. CASE r.pc = "none"
      BY <1>1, <2>3, <2>5, <3>1, RelayTyped
    <3>2. CASE r.pc # "none"
      BY <1>1, <2>4, <2>5, <3>2, RelayTyped
    <3> QED
      BY <3>1, <3>2
  <2> QED
    BY <1>3, <2>1, <2>2, <2>6
<1>12. CASE Reset
  <2>1. gen < MaxTalks
    BY <1>10, <1>12 DEF Reset, Pending
  <2> QED
    BY <1>11, <1>12, <2>1 DEF Reset
<1>13. CASE AudioStart
  <2>1. gen < MaxTalks
    BY <1>10, <1>13 DEF AudioStart
  <2>2. CASE busy \/ play # 0
    BY <1>4, <1>13, <2>2 DEF AudioStart
  <2>3. CASE ~(busy \/ play # 0)
    BY <1>11, <1>13, <2>1, <2>3 DEF AudioStart
  <2> QED
    BY <2>2, <2>3
<1>14. CASE Speak
  <2>1. CASE busy
    BY <1>4, <1>14, <2>1 DEF Speak, feedVars
  <2>2. CASE ~busy
    <3>1. /\ HandOver(TRUE) /\ frames' = frames /\ framesDone' = framesDone
          /\ relay' = [relay EXCEPT !.late = relay.pc = "put"]
      BY <1>14, <2>2 DEF Speak
    <3> QED
      BY <1>1, <1>3, <1>9, <3>1, RelayTyped
  <2> QED
    BY <2>1, <2>2
<1>15. CASE Frame
  <2>1. UNCHANGED <<done, dl, framesDone, relay>>
    BY <1>15 DEF Frame
  <2>2. CASE frames < WsQueueBlocks /\ frames' = frames + 1 /\ ring' = ring
    <3>1. frames' \in 0 .. WsQueueBlocks
      BY <1>1, <2>2, BoundsAssumption
    <3> QED
      BY <1>1, <1>3, <2>1, <2>2, <3>1
  <2>3. CASE /\ IsWsActive /\ HasRoom /\ ring' = Append(ring, [gen |-> gen, late |-> FALSE])
             /\ frames' = frames
    <3>1. gen \in Sessions
      BY <1>10, <2>3 DEF IsWsActive, IInv, Chains, Sessions
    <3>2. [gen |-> gen, late |-> FALSE] \in Block
      BY <3>1 DEF Block
    <3>3. ring' \in Seq(Block) /\ Len(ring') <= RingBlocks
      BY <1>1, <2>3, <3>2, Appended
    <3> QED
      BY <1>1, <1>3, <2>1, <2>3, <3>3
  <2>4. CASE ring' = ring /\ frames' = frames
    BY <1>1, <1>3, <2>1, <2>4
  <2> QED
    BY <1>15, <2>2, <2>3, <2>4 DEF Frame
<1>16. CASE AudioEnd \/ Disconnect
  <2>1. UNCHANGED <<ring, dl, frames, relay>> /\ EndStream
    BY <1>16 DEF AudioEnd, Disconnect
  <2>2. done' \in BOOLEAN /\ framesDone' \in BOOLEAN
    BY <1>1, <2>1 DEF EndStream
  <2> QED
    BY <1>1, <1>3, <2>1, <2>2
<1>17. CASE Waited \/ Kill \/ Delete \/ Say \/ ChatDone \/ Reconnect
  BY <1>4, <1>17 DEF Waited, Kill, Delete, Say, ChatDone, Reconnect
<1>18. CASE Press \/ WifiLost
  <2>1. UNCHANGED <<ringVars, dl, frames, framesDone>> /\ TtsStop
    BY <1>18 DEF Press, WifiLost, stopLess
  <2>2. relay' = relay \/ relay' = [relay EXCEPT !.stuck = @ \/ relay.pc = "put"]
    BY <2>1 DEF TtsStop
  <2>3. relay' \in RelayType
    BY <1>1, <2>2, RelayTyped
  <2> QED
    BY <1>1, <1>3, <2>1, <2>3 DEF ringVars
<1>19. CASE Session
  BY <1>4, <1>19
     DEF Session, Open, LateReply, Silence, Speech, Answered, Drain, codecLess, ttsVars
<1>20. CASE Noise
  BY <1>4, <1>20, NoiseSteps
<1> QED
  BY <1>6, <1>7, <1>8, <1>12, <1>13, <1>14, <1>15, <1>16, <1>17, <1>18, <1>19, <1>20
     DEF Next, TtsNext, WsStep, Event

\* The types of the server, the connection and the WebSocket task.
LEMMA ServerTypesKept ==
    ASSUME IInv, Next
    PROVE  ServerTypes'
<1>1. /\ ServerTypes /\ MaxTalks \in Nat /\ MaxFrames \in Nat /\ MaxUpsets \in Nat
      /\ asked \in 0 .. MaxTalks /\ talks \in 0 .. MaxTalks /\ asked + talks <= MaxTalks
      /\ sent \in 0 .. MaxFrames /\ upsets \in 0 .. MaxUpsets /\ stranded \subseteq Sessions
      /\ link \in BOOLEAN /\ news \in BOOLEAN /\ seen \in BOOLEAN /\ leftover \in BOOLEAN
      /\ Queued \subseteq Sessions
  <2>1. Queued \subseteq Sessions
    BY DEF Queued, IInv, TypeOK, ChainTypes
  <2> QED
    BY <2>1, BoundsAssumption DEF IInv, TypeOK, ServerTypes
<1>2. CASE UNCHANGED <<ws, serverVars, noteVars>>
  BY <1>1, <1>2 DEF ServerTypes, serverVars, noteVars
<1>3. ASSUME NEW g \in Sessions, Playback(g)
      PROVE  UNCHANGED <<ws, serverVars, noteVars>>
  BY <1>3 DEF Playback, PlayStart, PlayStop, PlayTop, PlaySlot, PlayFeed, PlayFlush, PlayDone,
              PlayRelease
<1>4. CASE Download \/ Relay
  BY <1>2, <1>4 DEF Download, Relay
<1>5. CASE Waited \/ Kill \/ Delete
  <2>1. UNCHANGED <<serverVars, noteVars>> /\ ws' \in {"reset", "kill", "delete", "dead"}
    BY <1>5 DEF Waited, Kill, Delete
  <2> QED
    BY <1>1, <2>1 DEF ServerTypes, serverVars, noteVars
<1>6. ASSUME NEW r, StartStream(r), asked' \in 0 .. MaxTalks, talks' \in 0 .. MaxTalks,
             asked' + talks' <= MaxTalks, reply' \in {"none", "audio", "ended", "bare", "hush"},
             sent' \in 0 .. MaxFrames, UNCHANGED <<news, link, upsets>>
      PROVE  ServerTypes'
  <2>1. seen' \in BOOLEAN /\ ws' = "idle" /\ leftover' = leftover /\ stranded' = stranded
    BY <1>6 DEF StartStream
  <2> QED
    BY <1>1, <1>6, <2>1 DEF ServerTypes
<1>7. CASE Reset
  <2>1. StartStream(NoRelay) /\ UNCHANGED <<asked, talks, reply, sent, news, link, upsets>>
    BY <1>7 DEF Reset, serverVars
  <2> QED
    BY <1>1, <1>6, <2>1 DEF ServerTypes
<1>8. CASE AudioStart
  <2>1. /\ asked' = asked - 1 /\ talks' = talks + 1 /\ reply' = "audio" /\ sent' = 0
        /\ asked > 0 /\ talks < MaxTalks /\ UNCHANGED <<news, link, upsets>>
    BY <1>8 DEF AudioStart
  <2>2. /\ asked' \in 0 .. MaxTalks /\ talks' \in 0 .. MaxTalks /\ asked' + talks' <= MaxTalks
        /\ sent' \in 0 .. MaxFrames
    BY <1>1, <2>1
  <2>3. CASE busy \/ play # 0
    <3>1. ws' = "wait" /\ stranded' = stranded \cup Queued /\ UNCHANGED <<seen, leftover>>
      BY <1>8, <2>3 DEF AudioStart
    <3> QED
      BY <1>1, <2>1, <2>2, <3>1 DEF ServerTypes
  <2>4. CASE ~(busy \/ play # 0)
    BY <1>6, <1>8, <2>1, <2>2, <2>4 DEF AudioStart
  <2> QED
    BY <2>3, <2>4
<1>9. CASE Say
  <2>1. /\ ws' \in {"idle", "start"} /\ reply' = "none"
        /\ UNCHANGED <<stranded, asked, sent, talks, news, link, upsets>>
    BY <1>9 DEF Say
  <2>2. seen' \in BOOLEAN /\ leftover' \in BOOLEAN
    BY <1>1, <1>9 DEF Say
  <2> QED
    BY <1>1, <2>1, <2>2 DEF ServerTypes
<1>10. CASE Speak
  <2>1. ws' = "idle" /\ UNCHANGED <<serverVars, seen, leftover>>
    BY <1>10 DEF Speak
  <2>2. stranded' \subseteq stranded \cup Queued
    BY <1>10 DEF Speak
  <2> QED
    BY <1>1, <2>1, <2>2 DEF ServerTypes, serverVars
<1>11. CASE Frame
  <2>1. sent < MaxFrames /\ sent' = sent + 1
        /\ UNCHANGED <<ws, asked, reply, talks, news, link, upsets, seen, leftover, stranded>>
    BY <1>11 DEF Frame, noteVars
  <2>2. sent' \in 0 .. MaxFrames
    BY <1>1, <2>1
  <2> QED
    BY <1>1, <2>1, <2>2 DEF ServerTypes
<1>12. CASE AudioEnd
  <2>1. sent' = 0 /\ reply' = "ended"
        /\ UNCHANGED <<ws, asked, talks, news, link, upsets, seen, leftover, stranded>>
    BY <1>12 DEF AudioEnd, noteVars
  <2> QED
    BY <1>1, <2>1 DEF ServerTypes
<1>13. CASE ChatDone
  <2>1. ws' = "chat" /\ news' = TRUE /\ UNCHANGED <<sent, link, seen, leftover, stranded>>
    BY <1>13 DEF ChatDone, noteVars
  <2>2. asked' \in 0 .. MaxTalks /\ talks' \in 0 .. MaxTalks /\ asked' + talks' <= MaxTalks
    <3>1. CASE UNCHANGED <<asked, talks>>
      BY <1>1, <3>1
    <3>2. CASE asked > 0 /\ talks < MaxTalks /\ asked' = asked - 1 /\ talks' = talks + 1
      BY <1>1, <3>2
    <3> QED
      BY <1>13, <3>1, <3>2 DEF ChatDone
  <2>3. reply' \in {"none", "audio", "ended", "bare", "hush"}
    BY <1>13 DEF ChatDone
  <2>4. upsets' \in 0 .. MaxUpsets
    <3>1. upsets' = upsets \/ (upsets < MaxUpsets /\ upsets' = upsets + 1)
      BY <1>13 DEF ChatDone
    <3> QED
      BY <1>1, <3>1
  <2> QED
    BY <1>1, <2>1, <2>2, <2>3, <2>4 DEF ServerTypes
<1>14. CASE Disconnect
  <2>1. /\ upsets < MaxUpsets /\ upsets' = upsets + 1 /\ asked' = 0 /\ reply' = "none"
        /\ sent' = 0 /\ UNCHANGED <<ws, talks, news, seen, stranded>>
    BY <1>14 DEF Disconnect
  <2>2. link' \in BOOLEAN /\ leftover' \in BOOLEAN
    BY <1>1, <1>14 DEF Disconnect
  <2>3. /\ upsets' \in 0 .. MaxUpsets /\ asked' \in 0 .. MaxTalks /\ sent' \in 0 .. MaxFrames
        /\ asked' + talks' <= MaxTalks
    BY <1>1, <2>1
  <2> QED
    BY <1>1, <2>1, <2>2, <2>3 DEF ServerTypes
<1>15. CASE Reconnect
  <2>1. UNCHANGED <<ws, asked, reply, sent, talks, news, upsets, seen, leftover, stranded>>
    BY <1>15 DEF Reconnect, noteVars
  <2>2. link' \in BOOLEAN
    BY <1>15 DEF Reconnect
  <2> QED
    BY <1>1, <2>1, <2>2 DEF ServerTypes
<1>16. CASE Press \/ WifiLost
  <2>1. /\ upsets < MaxUpsets /\ upsets' = upsets + 1
        /\ UNCHANGED <<ws, asked, reply, sent, talks, news, link, seen, leftover, stranded>>
    BY <1>16 DEF Press, WifiLost, stopLess, noteVars
  <2>2. upsets' \in 0 .. MaxUpsets
    BY <1>1, <2>1
  <2> QED
    BY <1>1, <2>1, <2>2 DEF ServerTypes
<1>17. CASE Speech
  <2>1. /\ asked + talks < MaxTalks /\ asked' = asked + 1
        /\ UNCHANGED <<ws, reply, sent, talks, link, upsets, seen, leftover, stranded>>
    BY <1>17 DEF Speech, noteVars
  <2>2. news' \in BOOLEAN
    BY <1>17 DEF Speech
  <2>3. asked' \in 0 .. MaxTalks /\ asked' + talks <= MaxTalks
    BY <1>1, <2>1
  <2> QED
    BY <1>1, <2>1, <2>2, <2>3 DEF ServerTypes
<1>18. CASE Open \/ LateReply \/ Silence \/ Answered \/ Drain
  BY <1>2, <1>18 DEF Open, LateReply, Silence, Answered, Drain, codecLess, ttsVars
<1>19. CASE Noise
  <2>1. upsets' = upsets \/ (upsets < MaxUpsets /\ upsets' = upsets + 1)
    BY <1>19 DEF Noise, NoiseLook, NoiseHold, NoiseRelease, codecLess, serverVars
  <2>2. upsets' \in 0 .. MaxUpsets
    BY <1>1, <2>1
  <2> QED
    BY <1>1, <1>19, <2>2, NoiseSteps DEF ServerTypes, noteVars
<1> QED
  BY <1>2, <1>3, <1>4, <1>5, <1>7, <1>8, <1>9, <1>10, <1>11, <1>12, <1>13, <1>14, <1>15,
     <1>16, <1>17, <1>18, <1>19
     DEF Next, TtsNext, WsStep, Event, Session

\* A call of the driver gives a state of the driver.
LEMMA CodecTyped ==
    ASSUME NEW c \in Codec
    PROVE  /\ Hold(c) \in Codec /\ Release(c) \in Codec
           /\ HoldRx(c) \in Codec /\ ReleaseRx(c) \in Codec
<1>1. Unused(c) \in BOOLEAN /\ (c.txOn \/ Unused(c)) \in BOOLEAN
      /\ (c.rxOn \/ Unused(c)) \in BOOLEAN
  BY DEF Unused
<1>2. c.full + 1 \in Nat /\ c.rx + 1 \in Nat
  BY DEF Codec
<1>3. Stopped \in Codec
  BY DEF Stopped, Codec
<1>4. Hold(c) \in Codec
  BY <1>1, <1>2 DEF Hold, Codec
<1>5. HoldRx(c) \in Codec
  BY <1>1, <1>2 DEF HoldRx, Codec
<1>6. \A d \in Codec : StopIfUnused(d) \in Codec
  BY <1>3 DEF StopIfUnused
<1>7. Release(c) \in Codec
  <2>1. c.full # 0 => c.full - 1 \in Nat
    BY DEF Codec
  <2>2. c.full # 0 => [c EXCEPT !.full = @ - 1] \in Codec
    BY <2>1 DEF Codec
  <2> QED
    BY <1>6, <2>2 DEF Release
<1>8. ReleaseRx(c) \in Codec
  <2>1. c.rx # 0 => c.rx - 1 \in Nat
    BY DEF Codec
  <2>2. c.rx # 0 => [c EXCEPT !.rx = @ - 1] \in Codec
    BY <2>1 DEF Codec
  <2> QED
    BY <1>6, <2>2 DEF ReleaseRx
<1> QED
  BY <1>4, <1>5, <1>7, <1>8

\* What the playback tasks leave to the session and the detector, and the other way
\* round.
LEMMA CodecSteps ==
    ASSUME Next
    PROVE  \/ UNCHANGED codec /\ UNCHANGED sessVars
           \/ (codec' = Hold(codec) \/ codec' = Release(codec)) /\ UNCHANGED sessVars
           \/ Session
           \/ Press
           \/ Noise
<1>1. ASSUME NEW g \in Sessions, Playback(g)
      PROVE  UNCHANGED codec \/ codec' = Hold(codec) \/ codec' = Release(codec)
  BY <1>1 DEF Playback, PlayStart, PlayStop, PlayTop, PlaySlot, PlayFeed, PlayFlush, PlayDone,
              PlayRelease
<1>2. Download \/ Relay => UNCHANGED codec
  BY DEF Download, Relay
<1>3. WsStep => UNCHANGED codec \/ codec' = Release(codec)
  BY DEF WsStep, Waited, Kill, Delete, Reset, StartStream, Say, Speak
<1>4. Event => UNCHANGED codec
  BY DEF Event, AudioStart, StartStream, Frame, AudioEnd, ChatDone, Disconnect, Reconnect
<1>5. WifiLost => UNCHANGED codec /\ UNCHANGED sessVars
  BY DEF WifiLost, stopLess, sessVars
<1> QED
  BY <1>1, <1>2, <1>3, <1>4, <1>5 DEF Next, TtsNext

\* The types of the session and of the codec.
LEMMA SessionTypesKept ==
    ASSUME IInv, Next
    PROVE  SessionTypes'
<1>1. /\ codec \in Codec /\ deaf \in BOOLEAN
      /\ sess \in {"idle", "stop", "listen", "wait", "drain"}
      /\ noise \in {"idle", "go", "sample", "blind"}
  BY DEF IInv, TypeOK, SessionTypes
<1>2. CASE UNCHANGED sessVars /\ codec' \in {codec, Hold(codec), Release(codec)}
  BY <1>1, <1>2, CodecTyped DEF SessionTypes, sessVars, micVars
<1>3. CASE Press
  BY <1>1, <1>3 DEF Press, stopLess, micVars, SessionTypes
<1>4. CASE Session
  <2>1. deaf' \in BOOLEAN
    <3>1. (codec.full > 0 \/ noise = "blind") \in BOOLEAN
      OBVIOUS
    <3>2. CASE Open
      BY <3>1, <3>2 DEF Open
    <3>3. CASE LateReply \/ Silence \/ Speech \/ Answered \/ Drain
      BY <1>1, <3>3 DEF LateReply, Silence, Speech, Answered, Drain, End, micVars
    <3> QED
      BY <1>4, <3>2, <3>3 DEF Session
  <2>2. sess' \in {"idle", "stop", "listen", "wait", "drain"}
    BY <1>4 DEF Session, Open, LateReply, Silence, Speech, Answered, Drain, End
  <2>3. codec' \in {codec, HoldRx(codec), ReleaseRx(codec)}
    BY <1>4 DEF Session, Open, LateReply, Silence, Speech, Answered, Drain, End, ttsVars
  <2>4. noise' = noise
    BY <1>4
       DEF Session, Open, LateReply, Silence, Speech, Answered, Drain, End, micVars
  <2> QED
    BY <1>1, <2>1, <2>2, <2>3, <2>4, CodecTyped DEF SessionTypes
<1>5. CASE Noise
  <2>1. sess' = sess /\ deaf' = deaf
    BY <1>5, NoiseSteps
  <2>2. noise' \in {"idle", "go", "sample", "blind"}
    BY <1>5 DEF Noise, NoiseLook, NoiseHold, NoiseRelease
  <2>3. codec' \in {codec, HoldRx(codec), ReleaseRx(codec)}
    BY <1>5 DEF Noise, NoiseLook, NoiseHold, NoiseRelease
  <2> QED
    BY <1>1, <2>1, <2>2, <2>3, CodecTyped DEF SessionTypes
<1> QED
  BY <1>2, <1>3, <1>4, <1>5, CodecSteps

\* The starting state has its types.
LEMMA InitTypes ==
    ASSUME Init
    PROVE  TypeOK
<1>1. busy \in BOOLEAN /\ stop \in BOOLEAN /\ wsMode \in BOOLEAN /\ done \in BOOLEAN
      /\ framesDone \in BOOLEAN /\ link \in BOOLEAN /\ news \in BOOLEAN /\ seen \in BOOLEAN
      /\ leftover \in BOOLEAN /\ deaf \in BOOLEAN /\ noise = "idle"
  BY DEF Init, TtsInit
<1>2. MaxTalks \in Nat /\ MaxFrames \in Nat /\ MaxUpsets \in Nat /\ QueueLen \in Nat
      /\ RingBlocks \in Nat /\ SentenceBlocks \in Nat /\ WsQueueBlocks \in Nat
      /\ RelayBlocks \in Nat
  BY BoundsAssumption
<1>3. gen = 0 /\ play = 0 /\ frames = 0 /\ asked = 0 /\ sent = 0 /\ talks = 0 /\ upsets = 0
      /\ queue = <<>> /\ ring = <<>> /\ stranded = {} /\ ws = "idle" /\ reply = "none"
      /\ sess = "idle"
  BY DEF Init, TtsInit
<1>4. task \in [Sessions -> [pc : TaskStates, heard : BOOLEAN]]
  BY DEF Init, TtsInit, NoTask, TaskStates
<1>5. ChainTypes
  BY <1>1, <1>2, <1>3, <1>4 DEF ChainTypes
<1>6. dl \in DlType /\ relay \in RelayType
  BY <1>2 DEF Init, TtsInit, NoDownload, NoRelay, DlType, RelayType
<1>7. RingTypes
  BY <1>1, <1>2, <1>3, <1>6 DEF RingTypes, DlType, RelayType
<1>8. ServerTypes
  BY <1>1, <1>2, <1>3 DEF ServerTypes
<1>9. codec \in Codec
  BY DEF Init, TtsInit, Stopped, Codec
<1> QED
  BY <1>1, <1>3, <1>5, <1>7, <1>8, <1>9 DEF TypeOK, SessionTypes

\* Every step keeps the types.
LEMMA TypesKept ==
    ASSUME IInv, Next
    PROVE  TypeOK'
<1>1. ChainTypes'
  BY PlaybackChainTypes, OtherChainTypes
<1> QED
  BY <1>1, RingTypesKept, ServerTypesKept, SessionTypesKept DEF TypeOK

-----------------------------------------------------------------------------
(***************************************************************************)
(* Replies and generations.                                                *)
(***************************************************************************)

\* Only the WebSocket task begins sessions and moves between replies.
LEMMA QuietSteps ==
    ASSUME Next, ~WsStep, ~Event
    PROVE  UNCHANGED <<gen, ws, talks, reply, sent, seen, leftover>>
<1>1. ASSUME NEW g \in Sessions, Playback(g)
      PROVE  UNCHANGED <<gen, ws, serverVars, noteVars>>
  BY <1>1 DEF Playback, PlayStart, PlayStop, PlayTop, PlaySlot, PlayFeed, PlayFlush, PlayDone,
              PlayRelease, chainVars
<1>2. CASE Download \/ Relay
  BY <1>2 DEF Download, Relay, chainVars, serverVars, noteVars
<1>3. CASE Press \/ WifiLost
  BY <1>3 DEF Press, WifiLost, stopLess, noteVars
<1>4. CASE Session
  BY <1>4 DEF Session, Open, LateReply, Silence, Speech, Answered, Drain, codecLess, ttsVars,
              chainVars, serverVars, noteVars
<1>5. CASE Noise
  BY <1>5, NoiseSteps DEF chainVars, noteVars
<1> QED
  BY <1>1, <1>2, <1>3, <1>4, <1>5 DEF Next, TtsNext, serverVars, noteVars

\* A session of the speech output is begun for a reply, and no reply has two.
LEMMA CountedKept ==
    ASSUME IInv, Next
    PROVE  Counted' /\ Flagged'
<1>1. /\ gen \in Nat /\ talks \in Nat /\ gen <= talks /\ (Pending => gen < talks)
      /\ Counted /\ Flagged
      /\ ws \in {"idle", "wait", "kill", "delete", "reset", "dead", "chat", "start"}
  BY DEF IInv, TypeOK, ChainTypes, ServerTypes, Counted
<1>2. CASE ~WsStep /\ ~Event
  BY <1>1, <1>2, QuietSteps DEF Counted, Flagged, Pending
<1>3. CASE Waited \/ Kill
  <2>1. /\ ws \in {"wait", "kill"} /\ ws' \in {"reset", "kill", "delete"}
        /\ UNCHANGED <<gen, talks, reply, seen, leftover>>
    BY <1>3 DEF Waited, Kill, chainVars, serverVars, noteVars
  <2> QED
    BY <1>1, <2>1 DEF Counted, Flagged, Pending
<1>4. CASE Delete
  <2>1. /\ ws = "delete" /\ ws' \in {"reset", "dead"}
        /\ UNCHANGED <<gen, talks, reply, seen, leftover>>
    BY <1>4 DEF Delete, serverVars, noteVars
  <2> QED
    BY <1>1, <2>1 DEF Counted, Flagged, Pending
<1>5. CASE Reset
  <2>1. /\ ws = "reset" /\ ws' = "idle" /\ gen' = gen + 1 /\ UNCHANGED <<talks, reply, leftover>>
        /\ seen' = TRUE
    BY <1>5 DEF Reset, StartStream, TakeOver, serverVars
  <2>2. gen < talks
    BY <1>1, <2>1 DEF Pending
  <2>3. Counted'
    BY <1>1, <2>1, <2>2 DEF Counted, Pending
  <2>4. reply' = "audio"
    BY <1>1, <2>1 DEF Counted
  <2> QED
    BY <2>1, <2>3, <2>4 DEF Flagged
<1>6. CASE Say
  <2>1. /\ ws = "chat" /\ reply' = "none" /\ (seen' => leftover')
        /\ UNCHANGED <<gen, talks>>
        /\ ws' = "idle" \/ (~seen /\ reply # "hush" /\ ws' = "start")
    <3>1. ws = "chat" /\ reply' = "none" /\ UNCHANGED <<gen, talks>>
      BY <1>6 DEF Say, chainVars
    <3>2. seen' => leftover'
      <4>1. CASE reply = "hush"
        <5>1. leftover' = (leftover \/ seen) /\ seen' = seen
          BY <1>6, <4>1 DEF Say
        <5> QED
          BY <5>1, Zenon
      <4>2. CASE reply # "hush"
        BY <1>6, <4>2 DEF Say
      <4> QED
        BY <4>1, <4>2
    <3>3. ws' = "idle" \/ (~seen /\ reply # "hush" /\ ws' = "start")
      BY <1>6 DEF Say
    <3> QED
      BY <3>1, <3>2, <3>3
  <2>2. ~seen /\ reply # "hush" => reply = "bare"
    BY <1>1, <2>1 DEF Counted, Flagged
  <2> QED
    BY <1>1, <2>1, <2>2 DEF Counted, Flagged, Pending
<1>7. CASE Speak
  <2>1. /\ ws = "start" /\ ws' = "idle" /\ UNCHANGED <<talks, reply, seen, leftover>>
        /\ gen' = gen \/ gen' = gen + 1
    BY <1>7 DEF Speak, chainVars, TakeOver, serverVars
  <2>2. gen < talks
    BY <1>1, <2>1 DEF Pending
  <2>3. gen' <= talks'
    BY <1>1, <2>1, <2>2
  <2>4. ~Pending'
    BY <2>1 DEF Pending
  <2> QED
    BY <1>1, <2>1, <2>3, <2>4 DEF Counted, Flagged
<1>8. CASE AudioStart
  <2>1. ws = "idle" /\ reply' = "audio" /\ talks' = talks + 1
    BY <1>8 DEF AudioStart
  <2>2. CASE ws' = "wait" /\ gen' = gen
    BY <1>1, <2>1, <2>2 DEF Counted, Flagged
  <2>3. CASE ws' = "idle" /\ gen' = gen + 1 /\ seen' = TRUE
    BY <1>1, <2>1, <2>3 DEF Counted, Flagged, Pending
  <2> QED
    BY <1>8, <2>2, <2>3 DEF AudioStart, StartStream, TakeOver
<1>9. CASE Frame \/ Reconnect
  <2>1. UNCHANGED <<gen, ws, talks, reply, seen, leftover>>
    BY <1>9 DEF Frame, Reconnect, chainVars, noteVars
  <2> QED
    BY <1>1, <2>1 DEF Counted, Flagged, Pending
<1>10. CASE AudioEnd
  <2>1. /\ ws = "idle" /\ reply = "audio" /\ reply' = "ended"
        /\ UNCHANGED <<gen, ws, talks, seen, leftover>>
    BY <1>10 DEF AudioEnd, chainVars, noteVars
  <2> QED
    BY <1>1, <2>1 DEF Counted, Flagged, Pending
<1>11. CASE ChatDone
  <2>1. ws = "idle" /\ ws' = "chat" /\ UNCHANGED <<gen, seen, leftover>>
    BY <1>11 DEF ChatDone, chainVars, noteVars
  <2>2. CASE reply = "ended" /\ reply' \in {"ended", "hush"} /\ talks' = talks
    BY <1>1, <2>1, <2>2 DEF Counted, Flagged, Pending
  <2>3. CASE reply = "none" /\ talks' = talks + 1 /\ reply' \in {"bare", "hush"}
    BY <1>1, <2>1, <2>3 DEF Counted, Flagged, Pending
  <2> QED
    BY <1>11, <2>2, <2>3 DEF ChatDone
<1>12. CASE Disconnect
  <2>1. /\ ws = "idle" /\ reply' = "none" /\ leftover' = (leftover \/ seen)
        /\ UNCHANGED <<gen, ws, talks, seen>>
    BY <1>12 DEF Disconnect, chainVars
  <2> QED
    BY <1>1, <2>1 DEF Counted, Flagged, Pending
<1> QED
  BY <1>2, <1>3, <1>4, <1>5, <1>6, <1>7, <1>8, <1>9, <1>10, <1>11, <1>12 DEF WsStep, Event

-----------------------------------------------------------------------------
(***************************************************************************)
(* The one chain and the flags.                                            *)
(***************************************************************************)

\* Nothing of the chain has changed but the WebSocket task.
LEMMA ChainsSame ==
    ASSUME IInv, Stays, UNCHANGED <<busy, gen, wsMode, play>>,
           ws' \in {"kill", "delete"} => ws \in {"kill", "delete"} \/ play # 0,
           ws' \in {"reset", "dead"} => ~busy
    PROVE  Chains'
<1>1. Chains /\ gen \in 0 .. MaxTalks /\ MaxTalks \in Nat
  BY BoundsAssumption DEF IInv, TypeOK, ChainTypes
<1>2. gen > 0 => task'[gen].pc = task[gen].pc
  BY <1>1 DEF Stays, Sessions
<1> QED
  BY <1>1, <1>2 DEF Chains, Stays

\* The chain under way moves on in its loop, and nobody else.
LEMMA ChainsMove ==
    ASSUME IInv, NEW g \in Sessions, task[g].pc \in Playing, NEW pc \in Playing, Moves(g, pc),
           UNCHANGED <<busy, gen, wsMode, play, ws>>
    PROVE  Chains' /\ g = gen
<1>1. Chains /\ gen \in 0 .. MaxTalks /\ MaxTalks \in Nat /\ g \in 1 .. MaxTalks
  BY BoundsAssumption DEF IInv, TypeOK, ChainTypes, Sessions
<1>2. g = gen
  BY <1>1 DEF Chains, Playing
<1>3. busy
  BY <1>1, <1>2 DEF Chains, Playing
<1> QED
  BY <1>1, <1>2, <1>3 DEF Chains, Moves, Playing

\* A session takes over while the speech output is idle.
LEMMA ChainsTakeOver ==
    ASSUME IInv, ~busy, NEW mode \in BOOLEAN, TakeOver(mode), gen < MaxTalks,
           ws' = "idle"
    PROVE  Chains'
<1>1. /\ busy' = TRUE /\ gen' = gen + 1 /\ play' = 0 /\ gen' \in Sessions
      /\ Moves(gen', "new")
  BY TakeOverTypes DEF TakeOver
<1>2. Chains /\ gen \in 0 .. MaxTalks /\ MaxTalks \in Nat
  BY BoundsAssumption DEF IInv, TypeOK, ChainTypes
<1>3. \A g \in Sessions : g < gen' => task'[g].pc \in {"none", "release"}
  <2> SUFFICES ASSUME NEW g \in Sessions, g < gen'
               PROVE  task'[g].pc \in {"none", "release"}
    OBVIOUS
  <2>1. g # gen' /\ (g < gen \/ (g = gen /\ gen > 0))
    BY <1>1, <1>2 DEF Sessions
  <2>2. task'[g].pc = task[g].pc
    BY <1>1, <2>1 DEF Moves
  <2> QED
    BY <1>2, <2>1, <2>2 DEF Chains
<1>4. \A g \in Sessions : g > gen' => task'[g].pc = "none"
  <2> SUFFICES ASSUME NEW g \in Sessions, g > gen'
               PROVE  task'[g].pc = "none"
    OBVIOUS
  <2>1. g # gen' /\ g > gen
    BY <1>1, <1>2 DEF Sessions
  <2>2. task'[g].pc = task[g].pc
    BY <1>1, <2>1 DEF Moves
  <2> QED
    BY <1>2, <2>1, <2>2 DEF Chains
<1>5. gen' > 0 /\ task'[gen'].pc = "new"
  BY <1>1, <1>2 DEF Moves
<1> QED
  BY <1>1, <1>3, <1>4, <1>5 DEF Chains, Playing

\* A playback task keeps the flags in step with it.
LEMMA PlaybackChains ==
    ASSUME IInv, NEW g \in Sessions, Playback(g)
    PROVE  Chains'
<1>1. /\ Chains /\ task \in Tasks /\ gen \in 0 .. MaxTalks /\ MaxTalks \in Nat
      /\ g \in 1 .. MaxTalks
  BY BoundsAssumption DEF IInv, TypeOK, ChainTypes, Sessions, Tasks
<1>2. {"top", "slot", "feed", "flush", "done"} \subseteq Playing
      /\ {"top", "slot", "feed", "flush", "done", "release"} \subseteq TaskStates
  BY DEF Playing, TaskStates
<1>3. CASE PlayStart(g)
  <2>1. task[g].pc = "new" /\ Moves(g, "top") /\ play' = g /\ UNCHANGED <<busy, gen, wsMode, ws>>
    BY <1>1, <1>2, <1>3, TaskMoves DEF PlayStart, At, chainVars
  <2>2. g = gen /\ gen > 0 /\ busy
    BY <1>1, <2>1 DEF Chains
  <2> QED
    BY <1>1, <2>1, <2>2 DEF Chains, Moves, Playing
<1>4. CASE PlayStop(g) \/ PlayTop(g) \/ PlaySlot(g) \/ PlayFlush(g)
  <2>1. /\ task[g].pc \in Playing /\ UNCHANGED <<busy, gen, wsMode, play, ws>>
        /\ \/ Leave(g) \/ GoTo(g, "feed") \/ GoTo(g, "slot")
           \/ GoTo(g, "top") \/ GoTo(g, "done")
    BY <1>4 DEF PlayStop, PlayTop, PlaySlot, PlayFlush, Spawn, At, Playing, chainVars
  <2>2. \E pc \in Playing : Moves(g, pc)
    BY <1>1, <1>2, <2>1, TaskMoves
  <2> QED
    BY <2>1, <2>2, ChainsMove
<1>5. CASE PlayFeed(g)
  <2>1. /\ task[g].pc \in Playing /\ UNCHANGED <<busy, gen, wsMode, play, ws>>
        /\ task' = [task EXCEPT ![g].heard = TRUE] \/ GoTo(g, "top")
    BY <1>5 DEF PlayFeed, At, Playing, chainVars
  <2>2. Stays \/ Moves(g, "top")
    BY <1>1, <1>2, <2>1, TaskMoves
  <2>3. ASSUME Stays
        PROVE  Chains'
    BY <1>1, <2>1, <2>3, ChainsSame DEF Chains
  <2> QED
    BY <1>2, <2>1, <2>2, <2>3, ChainsMove
<1>6. CASE PlayDone(g)
  <2>1. task[g].pc = "done" /\ Moves(g, "release") /\ UNCHANGED <<gen, ws>>
    BY <1>1, <1>2, <1>6, TaskMoves DEF PlayDone, At
  <2>2. g = gen
    BY <1>1, <2>1 DEF Chains
  <2>3. play' = 0 /\ busy' = FALSE /\ wsMode' = FALSE
    BY <1>6, <2>2 DEF PlayDone
  <2> QED
    BY <1>1, <2>1, <2>2, <2>3 DEF Chains, Moves, Playing
<1>7. CASE PlayRelease(g)
  <2>1. /\ task[g].pc = "release" /\ Moves(g, "none")
        /\ UNCHANGED <<busy, gen, wsMode, play, ws>>
    BY <1>1, <1>7, TaskMoves DEF PlayRelease, At, chainVars
  <2>2. g <= gen /\ (g = gen => ~busy)
    BY <1>1, <2>1 DEF Chains, Playing
  <2>3. \A h \in Sessions : task'[h].pc = task[h].pc \/ (h = g /\ task'[h].pc = "none")
    BY <2>1 DEF Moves
  <2>4. /\ \A h \in Sessions : h > gen' => task'[h].pc = "none"
        /\ \A h \in Sessions : h < gen' => task'[h].pc \in {"none", "release"}
    BY <1>1, <2>1, <2>3 DEF Chains
  <2>5. gen > 0 => task'[gen].pc = task[gen].pc \/ (~busy /\ task'[gen].pc = "none")
    BY <1>1, <2>2, <2>3 DEF Sessions
  <2>6. gen > 0 /\ task'[gen].pc \in Playing => task[gen].pc \in Playing
    BY <2>5 DEF Playing
  <2>7. gen > 0 /\ task[gen].pc \in Playing => task'[gen].pc \in Playing
    BY <1>1, <2>5 DEF Playing, Chains
  <2> QED
    BY <1>1, <2>1, <2>4, <2>5, <2>6, <2>7 DEF Chains
<1> QED
  BY <1>3, <1>4, <1>5, <1>6, <1>7 DEF Playback

\* So do all other steps.
LEMMA ChainsKept ==
    ASSUME IInv, Next
    PROVE  Chains'
<1>1. /\ Chains /\ Counted /\ task \in Tasks /\ gen \in 0 .. MaxTalks /\ MaxTalks \in Nat
      /\ talks \in 0 .. MaxTalks
  BY BoundsAssumption DEF IInv, TypeOK, ChainTypes, ServerTypes, Tasks
<1>2. task' = task => Stays
  BY <1>1 DEF Stays
<1>3. Pending => gen < MaxTalks
  BY <1>1 DEF Counted
<1>4. ASSUME UNCHANGED <<busy, gen, wsMode, play, task>>,
             ws' = ws \/ ws' \in {"idle", "chat", "start", "wait"}
      PROVE  Chains'
  BY <1>1, <1>2, <1>4, ChainsSame DEF Chains
<1>5. CASE Waited
  <2>1. /\ UNCHANGED <<busy, gen, wsMode, play, task>>
        /\ (play = 0 /\ ~busy /\ ws' = "reset") \/ (play # 0 /\ ws' = "kill")
    BY <1>5 DEF Waited, Slow, chainVars, playVars
  <2> QED
    BY <1>1, <1>2, <2>1, ChainsSame DEF Chains
<1>6. CASE Kill
  <2>1. UNCHANGED <<busy, gen, wsMode, play, task>> /\ ws = "kill" /\ ws' = "delete"
    BY <1>6 DEF Kill, chainVars, playVars
  <2> QED
    BY <1>1, <1>2, <2>1, ChainsSame DEF Chains
<1>7. CASE Delete
  <2>1. ws = "delete" /\ gen' = gen
    BY <1>7 DEF Delete
  <2>2. CASE play = 0
    <3>1. UNCHANGED <<busy, gen, wsMode, play, task>> /\ ws' = "dead"
      BY <1>7, <2>2 DEF Delete, playVars
    <3>2. ~busy
      BY <1>1, <2>1, <2>2 DEF Chains
    <3> QED
      BY <1>1, <1>2, <3>1, <3>2, ChainsSame DEF Chains
  <2>3. CASE play # 0
    <3>1. /\ ws' = "reset" /\ busy' = FALSE /\ wsMode' = FALSE /\ play' = 0
          /\ task' = [task EXCEPT ![play] = NoTask]
      BY <1>7, <2>3 DEF Delete
    <3>2. play = gen /\ gen > 0
      BY <1>1, <2>3 DEF Chains
    <3>3. Moves(gen, "none")
      <4>1. gen \in Sessions
        BY <1>1, <3>2 DEF Sessions
      <4> QED
        BY <1>1, <3>1, <3>2, <4>1, TaskMoves
    <3> QED
      BY <1>1, <2>1, <3>1, <3>2, <3>3 DEF Chains, Moves, Playing
  <2> QED
    BY <2>2, <2>3
<1>8. CASE Reset
  <2>1. ws = "reset" /\ ws' = "idle" /\ TakeOver(TRUE)
    BY <1>8 DEF Reset, StartStream
  <2> QED
    BY <1>1, <1>3, <2>1, ChainsTakeOver DEF Pending, Chains
<1>9. CASE Say
  BY <1>4, <1>9 DEF Say, chainVars, playVars
<1>10. CASE Speak
  <2>1. ws = "start" /\ ws' = "idle"
    BY <1>10 DEF Speak
  <2>2. CASE busy
    BY <1>4, <1>10, <2>1, <2>2 DEF Speak, chainVars, playVars
  <2>3. CASE ~busy
    <3>1. TakeOver(FALSE)
      BY <1>10, <2>3 DEF Speak
    <3> QED
      BY <1>3, <2>1, <2>3, <3>1, ChainsTakeOver DEF Pending
  <2> QED
    BY <2>2, <2>3
<1>11. CASE AudioStart
  <2>1. CASE busy \/ play # 0
    <3>1. UNCHANGED <<busy, gen, wsMode, play, task>> /\ ws' = "wait"
      BY <1>11, <2>1 DEF AudioStart, playVars
    <3> QED
      BY <1>4, <3>1
  <2>2. CASE ~(busy \/ play # 0)
    <3>1. TakeOver(TRUE) /\ ws' = "idle" /\ talks < MaxTalks
      BY <1>11, <2>2 DEF AudioStart, StartStream
    <3>2. gen < MaxTalks
      BY <1>1, <3>1 DEF Counted
    <3> QED
      BY <2>2, <3>1, <3>2, ChainsTakeOver
  <2> QED
    BY <2>1, <2>2
<1>12. CASE Frame \/ AudioEnd \/ ChatDone \/ Disconnect \/ Reconnect
  BY <1>4, <1>12 DEF Frame, AudioEnd, ChatDone, Disconnect, Reconnect, chainVars, playVars
<1>13. CASE Download \/ Relay
  BY <1>4, <1>13 DEF Download, Relay, chainVars, playVars
<1>14. CASE Press \/ WifiLost
  BY <1>4, <1>14 DEF Press, WifiLost, stopLess, playVars
<1>15. CASE Session
  BY <1>4, <1>15 DEF Session, Open, LateReply, Silence, Speech, Answered, Drain, codecLess,
                     ttsVars, chainVars, playVars
<1>16. CASE Noise
  BY <1>4, <1>16, NoiseSteps DEF chainVars, playVars
<1> QED
  BY <1>5, <1>6, <1>7, <1>8, <1>9, <1>10, <1>11, <1>12, <1>13, <1>14, <1>15, <1>16,
     PlaybackChains
     DEF Next, TtsNext, WsStep, Event

-----------------------------------------------------------------------------
(***************************************************************************)
(* The codec.                                                              *)
(***************************************************************************)

\* A call of the driver: what it does to the counts, and that the clock runs while
\* there is a user.
LEMMA CodecCalls ==
    ASSUME NEW c \in Codec, c.txOn = ~Unused(c)
    PROVE  /\ Hold(c).full = c.full + 1 /\ Hold(c).rx = c.rx /\ Hold(c).rxOn = c.rxOn
           /\ Hold(c).txOn = ~Unused(Hold(c))
           /\ Release(c).rx = c.rx /\ (c.rx # 0 => Release(c).rxOn = c.rxOn)
           /\ Release(c).txOn = ~Unused(Release(c))
           /\ c.full # 0 => Release(c).full = c.full - 1
           /\ HoldRx(c).full = c.full /\ HoldRx(c).rx = c.rx + 1
           /\ HoldRx(c).txOn = ~Unused(HoldRx(c))
           /\ c.rxOn => HoldRx(c).rxOn
           /\ c.rx = 0 /\ ~(c.full > 0) => HoldRx(c).rxOn
           /\ ReleaseRx(c).full = c.full
           /\ c.rx # 0 => ReleaseRx(c).rx = c.rx - 1
           /\ c.rx > 1 => ReleaseRx(c).rxOn = c.rxOn
           /\ ReleaseRx(c).txOn = ~Unused(ReleaseRx(c))
<1>1. c.full \in Nat /\ c.rx \in Nat /\ c.txOn \in BOOLEAN /\ c.rxOn \in BOOLEAN
  BY DEF Codec
<1>2. /\ Hold(c).full = c.full + 1 /\ Hold(c).rx = c.rx /\ Hold(c).rxOn = c.rxOn
      /\ Hold(c).txOn = TRUE
  <2>1. (c.txOn \/ Unused(c)) = TRUE
    OBVIOUS
  <2> QED
    BY <2>1 DEF Hold, Codec
<1>3. /\ HoldRx(c).full = c.full /\ HoldRx(c).rx = c.rx + 1
      /\ HoldRx(c).txOn = TRUE /\ HoldRx(c).rxOn = (c.rxOn \/ Unused(c))
  <2>1. (c.txOn \/ Unused(c)) = TRUE
    OBVIOUS
  <2> QED
    BY <2>1 DEF HoldRx, Codec
<1>4. ~Unused(Hold(c)) /\ ~Unused(HoldRx(c))
  BY <1>1, <1>2, <1>3 DEF Unused
<1>5. ASSUME c.rx = 0, ~(c.full > 0)
      PROVE  HoldRx(c).rxOn
  <2>1. Unused(c)
    BY <1>1, <1>5 DEF Unused
  <2>2. (c.rxOn \/ Unused(c)) = TRUE
    BY <2>1
  <2> QED
    BY <1>3, <2>2
<1>6. ASSUME NEW d \in Codec, ~Unused(d) => d.txOn
      PROVE  /\ StopIfUnused(d).full = d.full /\ StopIfUnused(d).rx = d.rx
             /\ ~Unused(d) => StopIfUnused(d).rxOn = d.rxOn
             /\ StopIfUnused(d).txOn = ~Unused(StopIfUnused(d))
  <2>1. CASE Unused(d)
    BY <2>1 DEF StopIfUnused, Stopped, Unused
  <2>2. CASE ~Unused(d)
    <3>1. d.txOn = TRUE
      BY <1>6, <2>2 DEF Codec
    <3> QED
      BY <2>2, <3>1 DEF StopIfUnused
  <2> QED
    BY <2>1, <2>2
<1>7. ASSUME c.full # 0
      PROVE  /\ Release(c).rx = c.rx /\ (c.rx # 0 => Release(c).rxOn = c.rxOn)
             /\ Release(c).txOn = ~Unused(Release(c))
             /\ Release(c).full = c.full - 1
  <2> DEFINE d == [c EXCEPT !.full = @ - 1]
  <2>1. /\ d \in Codec /\ d.full = c.full - 1 /\ d.rx = c.rx
        /\ d.rxOn = c.rxOn /\ d.txOn = c.txOn
    BY <1>1, <1>7 DEF Codec
  <2>2. c.txOn = TRUE
    BY <1>7 DEF Unused
  <2>3. Release(c) = StopIfUnused(d)
    BY <1>7 DEF Release
  <2>4. c.rx # 0 => ~Unused(d)
    BY <2>1 DEF Unused
  <2>5. ~Unused(d) => d.txOn
    BY <2>1, <2>2
  <2> HIDE DEF d
  <2> QED
    BY <2>1, <2>3, <2>4, <2>5, <1>6
<1>8. c.full = 0 => Release(c) = c
  BY DEF Release
<1>9. ASSUME c.rx # 0
      PROVE  /\ ReleaseRx(c).full = c.full /\ ReleaseRx(c).rx = c.rx - 1
             /\ ReleaseRx(c).txOn = ~Unused(ReleaseRx(c))
             /\ c.rx > 1 => ReleaseRx(c).rxOn = c.rxOn
  <2> DEFINE d == [c EXCEPT !.rx = @ - 1]
  <2>1. /\ d \in Codec /\ d.full = c.full /\ d.rx = c.rx - 1 /\ d.txOn = c.txOn
        /\ d.rxOn = c.rxOn
    BY <1>1, <1>9 DEF Codec
  <2>2. c.txOn = TRUE
    BY <1>9 DEF Unused
  <2>3. ReleaseRx(c) = StopIfUnused(d)
    BY <1>9 DEF ReleaseRx
  <2>4. ~Unused(d) => d.txOn
    BY <2>1, <2>2
  <2>5. c.rx > 1 => ~Unused(d)
    BY <1>1, <2>1 DEF Unused
  <2> HIDE DEF d
  <2> QED
    BY <2>1, <2>3, <2>4, <2>5, <1>6
<1>10. c.rx = 0 => ReleaseRx(c) = c
  BY DEF ReleaseRx
<1>11. /\ Hold(c).txOn = ~Unused(Hold(c)) /\ HoldRx(c).txOn = ~Unused(HoldRx(c))
  BY <1>2, <1>3, <1>4
<1>12. /\ Release(c).rx = c.rx /\ (c.rx # 0 => Release(c).rxOn = c.rxOn)
       /\ Release(c).txOn = ~Unused(Release(c))
       /\ c.full # 0 => Release(c).full = c.full - 1
  BY <1>7, <1>8
<1>13. /\ ReleaseRx(c).full = c.full
       /\ c.rx # 0 => ReleaseRx(c).rx = c.rx - 1
       /\ c.rx > 1 => ReleaseRx(c).rxOn = c.rxOn
       /\ ReleaseRx(c).txOn = ~Unused(ReleaseRx(c))
  BY <1>1, <1>9, <1>10
<1>14. c.rxOn => HoldRx(c).rxOn
  BY <1>3
<1> QED
  BY <1>2, <1>3, <1>5, <1>11, <1>12, <1>13, <1>14

\* What an end or a beginning leaves of the claim about the receiver.
LEMMA ReceivedFrom ==
    ASSUME codec'.txOn = ~Unused(codec'),
           codec'.rx = (IF Recording' THEN 1 ELSE 0) + (IF Sampling' THEN 1 ELSE 0),
           Recording' => codec'.rxOn \/ deaf', noise' = "sample" => codec'.rxOn
    PROVE  Received'
  BY DEF Received

\* The receiver belongs to the session and to the sampling.
LEMMA ReceivedKept ==
    ASSUME IInv, Next
    PROVE  Received'
<1>1. /\ Received /\ codec \in Codec /\ codec.full \in Nat /\ codec.rx \in Nat
      /\ sess \in {"idle", "stop", "listen", "wait", "drain"}
      /\ noise \in {"idle", "go", "sample", "blind"}
  BY DEF IInv, TypeOK, SessionTypes, Codec
<1>2. codec.txOn = ~Unused(codec)
  BY <1>1 DEF Received
<1>3. /\ codec.rx = (IF Recording THEN 1 ELSE 0) + (IF Sampling THEN 1 ELSE 0)
      /\ Recording => codec.rxOn \/ deaf
      /\ noise = "sample" => codec.rxOn
  BY <1>1 DEF Received
<1>4. CASE UNCHANGED <<sess, noise, deaf>> /\ codec' \in {codec, Hold(codec), Release(codec)}
  <2>1. Recording' = Recording /\ Sampling' = Sampling
    BY <1>4 DEF Recording, Sampling
  <2>2. /\ codec'.txOn = ~Unused(codec') /\ codec'.rx = codec.rx
        /\ codec.rx # 0 => codec'.rxOn = codec.rxOn
    BY <1>1, <1>2, <1>4, CodecCalls
  <2>3. Recording \/ noise = "sample" => codec.rx # 0
    BY <1>3 DEF Sampling
  <2> QED
    BY <1>3, <1>4, <2>1, <2>2, <2>3, ReceivedFrom
<1>5. CASE Press
  <2>1. UNCHANGED <<codec, noise, deaf>> /\ sess = "idle" /\ sess' = "stop"
    BY <1>5 DEF Press, stopLess, micVars
  <2>2. ~Recording /\ ~Recording' /\ Sampling' = Sampling
    BY <2>1 DEF Recording, Sampling
  <2> QED
    BY <1>2, <1>3, <2>1, <2>2, ReceivedFrom
<1>6. CASE Open
  <2>1. /\ sess = "stop" /\ sess' = "listen" /\ codec' = HoldRx(codec) /\ noise' = noise
        /\ deaf' = (codec.full > 0 \/ noise = "blind")
    BY <1>6 DEF Open
  <2>2. ~Recording /\ Recording' /\ Sampling' = Sampling
    BY <2>1 DEF Recording, Sampling
  <2>3. codec'.rx = codec.rx + 1 /\ codec'.txOn = ~Unused(codec')
    BY <1>1, <1>2, <2>1, CodecCalls
  <2>4. codec.rxOn => codec'.rxOn
    BY <1>1, <1>2, <2>1, CodecCalls
  <2>5. codec'.rx = (IF Recording' THEN 1 ELSE 0) + (IF Sampling' THEN 1 ELSE 0)
    BY <1>3, <2>2, <2>3
  <2>6. codec'.rxOn \/ deaf'
    <3>1. CASE noise = "sample"
      BY <1>3, <2>4, <3>1
    <3>2. CASE noise = "blind" \/ codec.full > 0
      BY <2>1, <3>2
    <3>3. CASE noise \notin {"sample", "blind"} /\ ~(codec.full > 0)
      <4>1. codec.rx = 0
        BY <1>3, <2>2, <3>3 DEF Sampling
      <4> QED
        BY <1>1, <1>2, <2>1, <3>3, <4>1, CodecCalls
    <3> QED
      BY <3>1, <3>2, <3>3
  <2> QED
    BY <1>3, <2>1, <2>3, <2>4, <2>5, <2>6, ReceivedFrom
<1>7. ASSUME sess \in {"listen", "wait"}, End
      PROVE  Received'
  <2>1. sess' = "idle" /\ codec' = ReleaseRx(codec) /\ noise' = noise
    BY <1>7 DEF End
  <2>2. Recording /\ ~Recording' /\ Sampling' = Sampling
    BY <1>7, <2>1 DEF Recording, Sampling
  <2>3. codec.rx # 0 /\ (noise = "sample" => codec.rx > 1)
    BY <1>3, <2>2 DEF Sampling
  <2>4. /\ codec'.rx = codec.rx - 1 /\ codec'.txOn = ~Unused(codec')
        /\ codec.rx > 1 => codec'.rxOn = codec.rxOn
    BY <1>1, <1>2, <2>1, <2>3, CodecCalls
  <2>5. codec'.rx = (IF Recording' THEN 1 ELSE 0) + (IF Sampling' THEN 1 ELSE 0)
    BY <1>3, <2>2, <2>4
  <2> QED
    BY <1>3, <2>1, <2>2, <2>3, <2>4, <2>5, ReceivedFrom
<1>8. ASSUME UNCHANGED <<codec, noise, deaf>>, sess \in {"listen", "wait", "drain"},
             sess' \in {"listen", "wait", "drain"}
      PROVE  Received'
  <2>1. Recording /\ Recording' /\ Sampling' = Sampling
    BY <1>8 DEF Recording, Sampling
  <2> QED
    BY <1>2, <1>3, <1>8, <2>1, ReceivedFrom
<1>9. CASE LateReply \/ Silence \/ Speech \/ Answered \/ Drain
  <2>1. CASE Silence
    BY <1>7, <2>1 DEF Silence
  <2>2. CASE Answered
    BY <1>7, <1>8, <2>2 DEF Answered, micVars
  <2>3. CASE LateReply \/ Speech \/ Drain
    BY <1>8, <2>3 DEF LateReply, Speech, Drain, ttsVars, micVars
  <2> QED
    BY <1>9, <2>1, <2>2, <2>3
<1>10. CASE NoiseLook
  <2>1. noise = "idle" /\ noise' = "go" /\ UNCHANGED <<codec, sess, deaf>>
    BY <1>10 DEF NoiseLook
  <2>2. Recording' = Recording /\ ~Sampling /\ ~Sampling'
    BY <2>1 DEF Recording, Sampling
  <2> QED
    BY <1>2, <1>3, <2>1, <2>2, ReceivedFrom
<1>11. CASE NoiseHold
  <2>1. /\ noise = "go" /\ codec' = HoldRx(codec) /\ UNCHANGED <<sess, deaf>>
        /\ noise' = IF codec.full > 0 \/ deaf THEN "blind" ELSE "sample"
    BY <1>11 DEF NoiseHold
  <2>2. Recording' = Recording /\ ~Sampling /\ Sampling'
    BY <2>1 DEF Recording, Sampling
  <2>3. codec'.rx = codec.rx + 1 /\ codec'.txOn = ~Unused(codec')
    BY <1>1, <1>2, <2>1, CodecCalls
  <2>4. codec.rxOn => codec'.rxOn
    BY <1>1, <1>2, <2>1, CodecCalls
  <2>5. codec'.rx = (IF Recording' THEN 1 ELSE 0) + (IF Sampling' THEN 1 ELSE 0)
    BY <1>3, <2>2, <2>3
  <2>6. ~(codec.full > 0) /\ ~deaf => codec'.rxOn
    <3>1. CASE Recording
      BY <1>3, <2>4, <3>1
    <3>2. CASE ~Recording
      BY <1>1, <1>2, <1>3, <2>1, <2>2, <3>2, CodecCalls
    <3> QED
      BY <3>1, <3>2
  <2> QED
    BY <1>3, <2>1, <2>2, <2>3, <2>4, <2>5, <2>6, ReceivedFrom
<1>12. CASE NoiseRelease
  <2>1. /\ noise \in {"sample", "blind"} /\ noise' = "idle" /\ codec' = ReleaseRx(codec)
        /\ UNCHANGED <<sess, deaf>>
    BY <1>12 DEF NoiseRelease
  <2>2. Recording' = Recording /\ Sampling /\ ~Sampling'
    BY <2>1 DEF Recording, Sampling
  <2>3. codec.rx # 0 /\ (Recording => codec.rx > 1)
    BY <1>3, <2>2
  <2>4. /\ codec'.rx = codec.rx - 1 /\ codec'.txOn = ~Unused(codec')
        /\ codec.rx > 1 => codec'.rxOn = codec.rxOn
    BY <1>1, <1>2, <2>1, <2>3, CodecCalls
  <2>5. codec'.rx = (IF Recording' THEN 1 ELSE 0) + (IF Sampling' THEN 1 ELSE 0)
    BY <1>3, <2>2, <2>4
  <2> QED
    BY <1>3, <2>1, <2>2, <2>3, <2>4, <2>5, ReceivedFrom
<1>13. CASE Session
  BY <1>6, <1>9, <1>13 DEF Session
<1>14. CASE Noise
  BY <1>10, <1>11, <1>12, <1>14 DEF Noise
<1> QED
  BY <1>4, <1>5, <1>13, <1>14, CodecSteps DEF sessVars, micVars

\* What the move of one task does to the number of those that hold the codec.
LEMMA HoldersMove ==
    ASSUME MaxTalks \in Nat, NEW g \in Sessions, NEW pc, Moves(g, pc)
    PROVE  /\ IsFiniteSet(Holders) /\ Cardinality(Holders) \in Nat
           /\ (task[g].pc \in Holding <=> pc \in Holding)
                => Cardinality(Holders') = Cardinality(Holders)
           /\ task[g].pc \notin Holding /\ pc \in Holding
                => Cardinality(Holders') = Cardinality(Holders) + 1
           /\ task[g].pc \in Holding /\ pc \notin Holding
                => Cardinality(Holders') = Cardinality(Holders) - 1
<1>1. IsFiniteSet(Holders) /\ Cardinality(Holders) \in Nat
  <2>1. IsFiniteSet(Sessions)
    BY FS_Interval DEF Sessions
  <2>2. Holders \in SUBSET Sessions
    BY DEF Holders
  <2> QED
    BY <2>1, <2>2, FS_Subset, FS_CardinalityType
<1>2. task'[g].pc = pc /\ \A h \in Sessions \ {g} : task'[h].pc = task[h].pc
  BY DEF Moves
<1>3. ASSUME task[g].pc \in Holding <=> pc \in Holding
      PROVE  Cardinality(Holders') = Cardinality(Holders)
  <2>1. Holders' = Holders
    BY <1>2, <1>3 DEF Holders
  <2> QED
    BY <2>1
<1>4. ASSUME task[g].pc \notin Holding, pc \in Holding
      PROVE  Cardinality(Holders') = Cardinality(Holders) + 1
  <2>1. Holders' = Holders \cup {g} /\ g \notin Holders
    BY <1>2, <1>4 DEF Holders
  <2> QED
    BY <1>1, <2>1, FS_AddElement
<1>5. ASSUME task[g].pc \in Holding, pc \notin Holding
      PROVE  Cardinality(Holders') = Cardinality(Holders) - 1
  <2>1. Holders' = Holders \ {g} /\ g \in Holders
    BY <1>2, <1>5 DEF Holders
  <2> QED
    BY <1>1, <2>1, FS_RemoveElement
<1> QED
  BY <1>1, <1>3, <1>4, <1>5

\* The number stays while no task moves, and is not zero while one holds the codec.
LEMMA HoldersStay ==
    ASSUME MaxTalks \in Nat
    PROVE  /\ Stays => Holders' = Holders
           /\ Cardinality(Holders) \in Nat
           /\ \A g \in Sessions : task[g].pc \in Holding => Cardinality(Holders) >= 1
<1>1. IsFiniteSet(Sessions) /\ Holders \in SUBSET Sessions
  BY FS_Interval DEF Sessions, Holders
<1>2. IsFiniteSet(Holders) /\ Cardinality(Holders) \in Nat
  BY <1>1, FS_Subset, FS_CardinalityType
<1>3. Stays => Holders' = Holders
  BY DEF Stays, Holders
<1>4. ASSUME NEW g \in Sessions, task[g].pc \in Holding
      PROVE  Cardinality(Holders) >= 1
  <2>1. Holders # {}
    BY <1>4 DEF Holders
  <2>2. Cardinality(Holders) # 0
    BY <1>2, <2>1, FS_EmptySet
  <2> QED
    BY <1>2, <2>2
<1> QED
  BY <1>2, <1>3, <1>4

\* The count of players: a playback task.
LEMMA PlaybackClocked ==
    ASSUME IInv, NEW g \in Sessions, Playback(g)
    PROVE  Clocked'
<1>1. /\ Chains /\ Clocked /\ Received /\ task \in Tasks /\ MaxTalks \in Nat
      /\ codec \in Codec /\ codec.full \in Nat /\ gen \in 0 .. MaxTalks /\ g \in 1 .. MaxTalks
  BY BoundsAssumption
     DEF IInv, TypeOK, ChainTypes, SessionTypes, Codec, Sessions, Tasks
<1>2. codec.txOn = ~Unused(codec)
  BY <1>1 DEF Received
<1>3. {"top", "slot", "feed", "flush", "done", "release"} \subseteq TaskStates
      /\ Holding = {"top", "slot", "feed", "flush", "done", "release"}
  BY DEF TaskStates, Holding, Loop
<1>4. ASSUME UNCHANGED <<codec, ws>>, play' \in {play, 0},
             Cardinality(Holders') = Cardinality(Holders)
      PROVE  Clocked'
  BY <1>1, <1>4 DEF Clocked
<1>5. ASSUME task[g].pc \in Holding, NEW pc \in Holding, Moves(g, pc)
      PROVE  Cardinality(Holders') = Cardinality(Holders)
  BY <1>1, <1>5, HoldersMove
<1>6. Stays => Cardinality(Holders') = Cardinality(Holders)
  BY <1>1, HoldersStay
<1>7. CASE PlayStart(g)
  <2>1. /\ task[g].pc = "new" /\ Moves(g, "top") /\ play' = g /\ codec' = Hold(codec)
        /\ ws' = ws
    BY <1>1, <1>3, <1>7, TaskMoves DEF PlayStart, At
  <2>2. Cardinality(Holders') = Cardinality(Holders) + 1
    BY <1>1, <1>3, <2>1, HoldersMove
  <2>3. codec'.full = codec.full + 1
    BY <1>1, <1>2, <2>1, CodecCalls
  <2>4. ws # "delete"
    BY <1>1, <2>1 DEF Chains, Playing
  <2> QED
    BY <1>1, <2>1, <2>2, <2>3, <2>4 DEF Clocked
<1>8. CASE PlayStop(g) \/ PlayTop(g) \/ PlaySlot(g) \/ PlayFlush(g) \/ PlayDone(g)
  <2>1. /\ task[g].pc \in Holding /\ UNCHANGED <<codec, ws>> /\ play' \in {play, 0}
        /\ \/ Leave(g) \/ GoTo(g, "feed") \/ GoTo(g, "slot")
           \/ GoTo(g, "top") \/ GoTo(g, "done") \/ GoTo(g, "release")
    BY <1>3, <1>8 DEF PlayStop, PlayTop, PlaySlot, PlayFlush, PlayDone, Spawn, At
  <2>2. \E pc \in Holding : Moves(g, pc)
    BY <1>1, <1>3, <2>1, TaskMoves
  <2> QED
    BY <1>4, <1>5, <2>1, <2>2
<1>9. CASE PlayFeed(g)
  <2>1. /\ task[g].pc \in Holding /\ UNCHANGED <<codec, ws, play>>
        /\ task' = [task EXCEPT ![g].heard = TRUE] \/ GoTo(g, "top")
    BY <1>3, <1>9 DEF PlayFeed, At
  <2>2. Stays \/ Moves(g, "top")
    BY <1>1, <1>3, <2>1, TaskMoves
  <2> QED
    BY <1>3, <1>4, <1>5, <1>6, <2>1, <2>2
<1>10. CASE PlayRelease(g)
  <2>1. /\ task[g].pc = "release" /\ Moves(g, "none") /\ codec' = Release(codec)
        /\ UNCHANGED <<ws, play>>
    BY <1>1, <1>10, TaskMoves DEF PlayRelease, At
  <2>2. /\ IsFiniteSet(Holders) /\ Cardinality(Holders) \in Nat
        /\ Cardinality(Holders') = Cardinality(Holders) - 1
    BY <1>1, <1>3, <2>1, HoldersMove
  <2>3. Cardinality(Holders) >= 1
    BY <1>1, <1>3, <2>1, HoldersStay
  <2>4. codec.full # 0 => codec'.full = codec.full - 1
    BY <1>1, <1>2, <2>1, CodecCalls
  <2>5. ASSUME ws = "delete", play # 0
        PROVE  Cardinality(Holders) >= 2
    <3>1. gen > 0 /\ task[gen].pc \in Playing /\ gen \in Sessions
      BY <1>1, <2>5 DEF Chains, Sessions
    <3>2. gen \in Holders \ {g}
      BY <1>3, <2>1, <3>1 DEF Holders, Playing
    <3>3. IsFiniteSet(Holders \ {g}) /\ Cardinality(Holders \ {g}) = Cardinality(Holders) - 1
      <4>1. g \in Holders
        BY <1>3, <2>1 DEF Holders
      <4> QED
        BY <2>2, <4>1, FS_RemoveElement
    <3>4. Cardinality(Holders \ {g}) # 0
      BY <3>2, <3>3, FS_EmptySet
    <3> QED
      BY <2>2, <2>3, <3>3, <3>4
  <2>6. CASE ws \notin {"delete", "dead"}
    BY <1>1, <2>1, <2>2, <2>3, <2>4, <2>6 DEF Clocked
  <2>7. CASE ws = "delete"
    BY <1>1, <2>1, <2>2, <2>4, <2>5, <2>7 DEF Clocked
  <2>8. CASE ws = "dead"
    BY <2>1, <2>8 DEF Clocked
  <2> QED
    BY <2>6, <2>7, <2>8
<1> QED
  BY <1>7, <1>8, <1>9, <1>10 DEF Playback

\* The count of players: all other steps.
LEMMA ClockedKept ==
    ASSUME IInv, Next
    PROVE  Clocked'
<1>1. /\ Chains /\ Clocked /\ Received /\ Counted /\ task \in Tasks /\ MaxTalks \in Nat
      /\ codec \in Codec /\ codec.full \in Nat /\ gen \in 0 .. MaxTalks
      /\ talks \in 0 .. MaxTalks
  BY BoundsAssumption
     DEF IInv, TypeOK, ChainTypes, ServerTypes, SessionTypes, Codec, Tasks
<1>2. /\ codec.txOn = ~Unused(codec) /\ Cardinality(Holders) \in Nat
      /\ {"none", "new"} \cap Holding = {}
  BY <1>1, HoldersStay DEF Received, Holding, Loop
<1>3. ASSUME codec'.full = codec.full, play' \in {play, 0},
             Cardinality(Holders') = Cardinality(Holders),
             ws' = ws \/ {ws, ws'} \cap {"delete", "dead"} = {}
      PROVE  Clocked'
  BY <1>1, <1>3 DEF Clocked
<1>4. task' = task => Cardinality(Holders') = Cardinality(Holders)
  BY DEF Holders
<1>5. ASSUME NEW mode \in BOOLEAN, TakeOver(mode), gen < MaxTalks, UNCHANGED codec,
             {ws, ws'} \cap {"delete", "dead"} = {}
      PROVE  Clocked'
  <2>1. gen + 1 \in Sessions /\ Moves(gen + 1, "new") /\ play' = 0
    BY <1>5, TakeOverTypes DEF TakeOver
  <2>2. task[gen + 1].pc = "none"
    BY <1>1, <2>1 DEF Chains
  <2>3. Cardinality(Holders') = Cardinality(Holders)
    BY <1>1, <1>2, <2>1, <2>2, HoldersMove
  <2> QED
    BY <1>3, <1>5, <2>1, <2>3
<1>6. CASE Waited
  BY <1>3, <1>4, <1>6 DEF Waited, playVars
<1>7. CASE Kill
  <2>1. /\ UNCHANGED <<task, play>> /\ ws = "kill" /\ ws' = "delete" /\ codec' = Release(codec)
    BY <1>7 DEF Kill, playVars
  <2>2. codec.full = Cardinality(Holders) /\ Cardinality(Holders') = Cardinality(Holders)
    BY <1>1, <1>4, <2>1 DEF Clocked
  <2>3. ASSUME play # 0
        PROVE  codec.full # 0
    <3>1. gen > 0 /\ task[gen].pc \in Playing /\ gen \in Sessions
      BY <1>1, <2>3 DEF Chains, Sessions
    <3>2. task[gen].pc \in Holding
      BY <3>1 DEF Playing, Holding, Loop
    <3> QED
      BY <1>1, <2>2, <3>1, <3>2, HoldersStay
  <2>4. play # 0 => codec'.full = codec.full - 1
    BY <1>1, <1>2, <2>1, <2>3, CodecCalls
  <2> QED
    BY <1>1, <2>1, <2>2, <2>4 DEF Clocked
<1>8. CASE Delete
  <2>1. ws = "delete" /\ codec' = codec
    BY <1>8 DEF Delete
  <2>2. CASE play = 0
    BY <1>8, <2>2 DEF Delete, Clocked
  <2>3. CASE play # 0
    <3>1. ws' = "reset" /\ task' = [task EXCEPT ![play] = NoTask]
      BY <1>8, <2>3 DEF Delete
    <3>2. play = gen /\ gen \in Sessions /\ task[gen].pc \in Playing
      BY <1>1, <2>3 DEF Chains, Sessions
    <3>3. Moves(gen, "none")
      BY <1>1, <3>1, <3>2, TaskMoves
    <3>4. task[gen].pc \in Holding
      BY <3>2 DEF Playing, Holding, Loop
    <3>5. Cardinality(Holders') = Cardinality(Holders) - 1
      BY <1>1, <1>2, <3>2, <3>3, <3>4, HoldersMove
    <3> QED
      BY <1>1, <1>2, <2>1, <2>3, <3>1, <3>5 DEF Clocked
  <2> QED
    BY <2>2, <2>3
<1>9. CASE Reset
  <2>1. gen < MaxTalks
    BY <1>1, <1>9 DEF Reset, Counted, Pending
  <2> QED
    BY <1>5, <1>9, <2>1 DEF Reset, StartStream
<1>10. CASE Say
  BY <1>3, <1>4, <1>10 DEF Say, playVars
<1>11. CASE Speak
  <2>1. gen < MaxTalks
    BY <1>1, <1>11 DEF Speak, Counted, Pending
  <2>2. CASE busy
    BY <1>3, <1>4, <1>11, <2>2 DEF Speak, playVars
  <2>3. CASE ~busy
    BY <1>5, <1>11, <2>1, <2>3 DEF Speak
  <2> QED
    BY <2>2, <2>3
<1>12. CASE AudioStart
  <2>1. gen < MaxTalks
    BY <1>1, <1>12 DEF AudioStart, Counted
  <2>2. CASE busy \/ play # 0
    BY <1>3, <1>4, <1>12, <2>2 DEF AudioStart, playVars
  <2>3. CASE ~(busy \/ play # 0)
    BY <1>5, <1>12, <2>1, <2>3 DEF AudioStart, StartStream
  <2> QED
    BY <2>2, <2>3
<1>13. CASE Frame \/ AudioEnd \/ ChatDone \/ Disconnect \/ Reconnect
  BY <1>3, <1>4, <1>13 DEF Frame, AudioEnd, ChatDone, Disconnect, Reconnect, playVars
<1>14. CASE Download \/ Relay
  BY <1>3, <1>4, <1>14 DEF Download, Relay, playVars
<1>15. CASE Press \/ WifiLost
  BY <1>3, <1>4, <1>15 DEF Press, WifiLost, stopLess, playVars
<1>16. CASE Session
  <2>1. UNCHANGED <<ws, playVars>>
    BY <1>16 DEF Session, Open, LateReply, Silence, Speech, Answered, Drain, codecLess, ttsVars
  <2>2. codec' \in {codec, HoldRx(codec), ReleaseRx(codec)}
    BY <1>16 DEF Session, Open, LateReply, Silence, Speech, Answered, Drain, End, ttsVars
  <2>3. codec'.full = codec.full
    BY <1>1, <1>2, <2>2, CodecCalls
  <2> QED
    BY <1>3, <1>4, <2>1, <2>3 DEF playVars
<1>17. CASE Noise
  <2>1. UNCHANGED <<ws, play, task>>
    BY <1>17, NoiseSteps DEF playVars
  <2>2. codec' \in {codec, HoldRx(codec), ReleaseRx(codec)}
    BY <1>17 DEF Noise, NoiseLook, NoiseHold, NoiseRelease
  <2>3. codec'.full = codec.full
    BY <1>1, <1>2, <2>2, CodecCalls
  <2> QED
    BY <1>3, <1>4, <2>1, <2>3
<1> QED
  BY <1>6, <1>7, <1>8, <1>9, <1>10, <1>11, <1>12, <1>13, <1>14, <1>15, <1>16, <1>17,
     PlaybackClocked
     DEF Next, TtsNext, WsStep, Event

-----------------------------------------------------------------------------
(***************************************************************************)
(* Who writes into the ring, and what is in it.                            *)
(***************************************************************************)

\* What the download is allowed to do while no session takes over.
DlKeeps ==
    \/ dl' \in {dl, NoDownload}
    \/ dl'.pc = "net" /\ dl'.gen \in 1 .. gen
    \/ dl'.pc = "put" /\ dl'.gen = gen /\ gen > 0 /\ dl'.left > 0

\* The same of the relay.
RelayKeeps ==
    \/ relay' \in {relay, NoRelay}
    \/ relay'.pc = "look" /\ relay'.gen \in 1 .. gen
    \/ relay'.pc = "put" /\ relay'.gen = gen /\ gen > 0 /\ relay'.left > 0
    \/ /\ relay'.pc = relay.pc /\ relay'.gen = relay.gen /\ relay'.late = relay.late
       /\ relay.left > 0 => relay'.left > 0

\* No session takes over.
LEMMA WritersSame ==
    ASSUME Writers, gen \in Nat, gen' = gen, DlKeeps, RelayKeeps
    PROVE  Writers'
BY DEF Writers, DlKeeps, RelayKeeps, NoDownload, NoRelay

\* The writers of an earlier session that wait for room now write late.
LEMMA WritersTakeOver ==
    ASSUME Writers, gen \in Nat, dl \in DlType, relay \in RelayType,
           NEW mode \in BOOLEAN, TakeOver(mode), NEW d \in BOOLEAN, HandOver(d),
           \/ relay' = [pc |-> "look", gen |-> gen + 1, left |-> 0, late |-> FALSE, stuck |-> FALSE]
           \/ relay' = [relay EXCEPT !.late = relay.pc = "put"]
    PROVE  Writers' /\ RingIsOurs'
<1>1. gen' = gen + 1 /\ dl' = [dl EXCEPT !.late = dl.pc = "put"] /\ ring' = <<>>
  BY DEF TakeOver, HandOver
<1>2. /\ dl'.pc = dl.pc /\ dl'.gen = dl.gen /\ dl'.left = dl.left
      /\ dl'.late = (dl.pc = "put")
  BY <1>1 DEF DlType
<1>3. \/ relay'.pc = "look" /\ relay'.gen = gen'
      \/ /\ relay'.pc = relay.pc /\ relay'.gen = relay.gen /\ relay'.left = relay.left
         /\ relay'.late = (relay.pc = "put")
  BY <1>1 DEF RelayType
<1>4. RingIsOurs'
  BY <1>1 DEF RingIsOurs
<1>5. dl'.pc # "none" => dl'.gen \in 1 .. gen'
  BY <1>1, <1>2 DEF Writers
<1>6. dl'.pc = "put" => dl'.late /\ dl'.left > 0
  BY <1>2 DEF Writers
<1>7. relay'.pc # "none" => relay'.gen \in 1 .. gen'
  BY <1>1, <1>3 DEF Writers
<1>8. relay'.pc = "put" => relay'.late /\ relay'.left > 0
  BY <1>3 DEF Writers
<1> QED
  BY <1>4, <1>5, <1>6, <1>7, <1>8 DEF Writers

\* A new download is of the session that begins it.
LEMMA SpawnKeeps ==
    ASSUME IInv, NEW g \in Sessions, task[g].pc \in {"top", "slot"}, Spawn(g)
    PROVE  DlKeeps /\ ring' = <<>>
<1>1. g \in 1 .. gen
  BY BoundsAssumption DEF IInv, TypeOK, ChainTypes, Chains, Sessions
<1> QED
  BY <1>1 DEF Spawn, DlKeeps

\* A block more that is the session's own, or late.
LEMMA OursPut ==
    ASSUME IInv, HasRoom, NEW w, Put(w), w.gen \in 1 .. gen, w.late \in BOOLEAN,
           w.gen = gen \/ w.late, gen' = gen
    PROVE  RingIsOurs'
<1>1. /\ ring \in Seq(Block) /\ Len(ring) <= RingBlocks /\ RingIsOurs
      /\ MaxTalks \in Nat /\ gen \in 0 .. MaxTalks
  BY BoundsAssumption DEF IInv, TypeOK, RingTypes, ChainTypes
<1> DEFINE b == [gen |-> w.gen, late |-> w.late]
<1>2. b \in Block /\ ring' = Append(ring, b) /\ (b.gen = gen \/ b.late)
  BY <1>1 DEF Block, Sessions, Put
<1> HIDE DEF b
<1>3. /\ Len(ring') = Len(ring) + 1 /\ ring'[Len(ring) + 1] = b
      /\ \A i \in 1 .. Len(ring) : ring'[i] = ring[i]
  BY <1>1, <1>2, Appended
<1>4. DOMAIN ring' = 1 .. Len(ring) + 1 /\ DOMAIN ring = 1 .. Len(ring) /\ Len(ring) \in Nat
  BY <1>1, <1>2
<1> QED
  BY <1>1, <1>2, <1>3, <1>4 DEF RingIsOurs

\* The ring unchanged, emptied or without its first block.
LEMMA OursLess ==
    ASSUME IInv, gen' = gen, ring' \in {ring, <<>>} \/ (ring # <<>> /\ ring' = Tail(ring))
    PROVE  RingIsOurs'
<1>1. ring \in Seq(Block) /\ Len(ring) <= RingBlocks /\ RingIsOurs
  BY DEF IInv, TypeOK, RingTypes
<1>2. CASE ring' \in {ring, <<>>}
  BY <1>1, <1>2 DEF RingIsOurs
<1>3. CASE ring # <<>> /\ ring' = Tail(ring)
  <2>1. \A i \in 1 .. Len(ring') : ring'[i] = ring[i + 1] /\ i + 1 \in 1 .. Len(ring)
    BY <1>1, <1>3, Consumed, Zenon
  <2>2. DOMAIN ring' = 1 .. Len(ring') /\ DOMAIN ring = 1 .. Len(ring)
    BY <1>1, <1>3
  <2>3. \A i \in 1 .. Len(ring) : ring[i].gen = gen \/ ring[i].late
    BY <1>1, <2>2, Zenon DEF RingIsOurs
  <2>4. \A i \in 1 .. Len(ring') : ring'[i].gen = gen \/ ring'[i].late
    BY <2>1, <2>3, Zenon
  <2> QED
    BY <2>2, <2>4, Zenon DEF RingIsOurs
<1> QED
  BY <1>2, <1>3

\* A playback task.
LEMMA PlaybackWriters ==
    ASSUME IInv, NEW g \in Sessions, Playback(g)
    PROVE  Writers' /\ RingIsOurs'
<1>1. Writers /\ gen \in Nat
  BY DEF IInv, TypeOK, ChainTypes
<1>2. gen' = gen
  BY DEF Playback, PlayStart, PlayStop, PlayTop, PlaySlot, PlayFeed, PlayFlush, PlayDone,
         PlayRelease, chainVars
<1>3. dl' = dl => DlKeeps
  BY DEF DlKeeps
<1>4. relay' = relay => RelayKeeps
  BY DEF RelayKeeps
<1>5. CASE PlayStart(g) \/ PlayStop(g) \/ PlayFlush(g) \/ PlayRelease(g)
  <2>1. UNCHANGED <<ring, dl, relay>>
    BY <1>5 DEF PlayStart, PlayStop, PlayFlush, PlayRelease, ringVars, feedVars
  <2> QED
    BY <1>1, <1>2, <1>3, <1>4, <2>1, WritersSame, OursLess
<1>6. CASE PlayTop(g) \/ PlaySlot(g)
  <2>1. relay' = relay /\ task[g].pc \in {"top", "slot"} /\ (UNCHANGED <<ring, dl>> \/ Spawn(g))
    BY <1>6 DEF PlayTop, PlaySlot, At, ringVars, feedVars
  <2>2. DlKeeps /\ ring' \in {ring, <<>>}
    BY <1>3, <2>1, SpawnKeeps
  <2> QED
    BY <1>1, <1>2, <1>4, <2>1, <2>2, WritersSame, OursLess
<1>7. CASE PlayFeed(g)
  <2>1. UNCHANGED <<dl, relay>> /\ (ring' = ring \/ (ring # <<>> /\ ring' = Tail(ring)))
    BY <1>7 DEF PlayFeed, ringVars, feedVars
  <2> QED
    BY <1>1, <1>2, <1>3, <1>4, <2>1, WritersSame, OursLess
<1>8. CASE PlayDone(g)
  <2>1. /\ UNCHANGED <<ring, dl>>
        /\ relay' = relay \/ relay' = [relay EXCEPT !.stuck = @ \/ relay.pc = "put"]
    BY <1>8 DEF PlayDone, ringVars
  <2>2. RelayKeeps
    BY <2>1 DEF RelayKeeps, IInv, TypeOK, RingTypes
  <2> QED
    BY <1>1, <1>2, <1>3, <2>1, <2>2, WritersSame, OursLess
<1> QED
  BY <1>5, <1>6, <1>7, <1>8 DEF Playback

\* The download and the relay.
LEMMA FeedWriters ==
    ASSUME IInv, Download \/ Relay
    PROVE  Writers' /\ RingIsOurs'
<1>1. /\ Writers /\ gen \in Nat /\ dl \in DlType /\ relay \in RelayType
  BY DEF IInv, TypeOK, ChainTypes, RingTypes, DlType, RelayType
<1>2. gen' = gen
  BY DEF Download, Relay, chainVars
<1>3. dl' = dl => DlKeeps
  BY DEF DlKeeps
<1>4. relay' = relay => RelayKeeps
  BY DEF RelayKeeps
<1>5. CASE Download
  <2>1. relay' = relay
    BY <1>5 DEF Download, feedVars
  <2>2. CASE DlReceive
    <3>1. dl.pc = "net" /\ dl.gen \in 1 .. gen /\ dl.left > 0 /\ dl.late \in BOOLEAN
      BY <1>1, <2>2 DEF DlReceive, Writers, DlType
    <3>2. \/ dl'.pc = "net" /\ dl'.gen = dl.gen
          \/ dl'.pc = "put" /\ dl'.gen = dl.gen /\ dl.gen = gen /\ dl'.left = dl.left
      BY <1>1, <2>2 DEF DlReceive, DlType
    <3>3. DlKeeps
      BY <1>1, <3>1, <3>2 DEF DlKeeps
    <3>4. ring' = ring \/ (dl.gen = gen /\ HasRoom /\ Put(dl))
      BY <2>2 DEF DlReceive
    <3>5. RingIsOurs'
      BY <1>2, <3>1, <3>4, OursPut, OursLess
    <3> QED
      BY <1>1, <1>2, <1>4, <2>1, <3>3, <3>5, WritersSame
  <2>3. CASE DlPut
    <3>1. /\ dl.gen \in 1 .. gen /\ (dl.gen = gen \/ dl.late) /\ dl.late \in BOOLEAN
          /\ HasRoom /\ Put(dl)
      BY <1>1, <2>3 DEF DlPut, Writers, DlType
    <3>2. dl'.pc = "net" /\ dl'.gen = dl.gen
      BY <1>1, <2>3 DEF DlPut, DlType
    <3>3. DlKeeps
      BY <3>1, <3>2 DEF DlKeeps
    <3>4. RingIsOurs'
      BY <1>2, <3>1, OursPut
    <3> QED
      BY <1>1, <1>2, <1>4, <2>1, <3>3, <3>4, WritersSame
  <2>4. CASE DlEnd \/ DlGiveUp
    <3>1. ring' = ring
      BY <2>4 DEF DlEnd, DlGiveUp
    <3>2. \/ dl' = NoDownload
          \/ dl.pc = "net" /\ dl' = [dl EXCEPT !.try = 2, !.left = SentenceBlocks]
      BY <2>4 DEF DlEnd, DlExit, DlGiveUp
    <3>3. DlKeeps
      BY <1>1, <3>2 DEF DlKeeps, Writers, DlType
    <3> QED
      BY <1>1, <1>2, <1>4, <2>1, <3>1, <3>3, WritersSame, OursLess
  <2> QED
    BY <1>5, <2>2, <2>3, <2>4 DEF Download
<1>6. CASE Relay
  <2>1. dl' = dl
    BY <1>6 DEF Relay
  <2>2. CASE RelayTake
    <3>1. ring' = ring /\ relay.gen \in 1 .. gen
      BY <1>1, <2>2 DEF RelayTake, Writers, ringVars
    <3>2. Load > 0
      <4>1. frames \in 0 .. WsQueueBlocks /\ frames > 0
        BY <2>2 DEF RelayTake, IInv, TypeOK, RingTypes
      <4> QED
        BY <4>1, LoadSize, BoundsAssumption
    <3>3. RelayKeeps
      <4>1. CASE relay.gen = gen
        <5>1. relay' = [relay EXCEPT !.pc = "put", !.left = Load]
          BY <2>2, <4>1 DEF RelayTake
        <5>2. relay'.pc = "put" /\ relay'.gen = gen /\ relay'.left = Load
          BY <1>1, <4>1, <5>1 DEF RelayType
        <5> QED
          BY <1>1, <3>1, <3>2, <4>1, <5>2 DEF RelayKeeps
      <4>2. CASE relay.gen # gen
        BY <1>4, <2>2, <4>2 DEF RelayTake
      <4> QED
        BY <4>1, <4>2
    <3> QED
      BY <1>1, <1>2, <1>3, <2>1, <3>1, <3>3, WritersSame, OursLess
  <2>3. CASE RelayPut
    <3>1. /\ relay.gen \in 1 .. gen /\ (relay.gen = gen \/ relay.late)
          /\ relay.late \in BOOLEAN /\ HasRoom /\ Put(relay)
      BY <1>1, <2>3 DEF RelayPut, Writers, RelayType
    <3>2. /\ relay'.gen = relay.gen
          /\ \/ relay'.pc = "look"
             \/ relay'.pc = relay.pc /\ relay'.late = relay.late /\ relay'.left > 0
      <4>1. relay.left \in Nat /\ relay.left > 0
        BY <1>1, <2>3, BoundsAssumption DEF RelayPut, Writers, RelayType
      <4> QED
        BY <1>1, <2>3, <4>1 DEF RelayPut, RelayType
    <3>3. RelayKeeps
      BY <3>1, <3>2 DEF RelayKeeps
    <3>4. RingIsOurs'
      BY <1>2, <3>1, OursPut
    <3> QED
      BY <1>1, <1>2, <1>3, <2>1, <3>3, <3>4, WritersSame
  <2>4. CASE RelayExit \/ RelayGiveUp
    <3>1. ring' = ring /\ relay' = NoRelay
      BY <2>4 DEF RelayExit, RelayGiveUp, ringVars
    <3>2. RelayKeeps
      BY <3>1 DEF RelayKeeps
    <3> QED
      BY <1>1, <1>2, <1>3, <2>1, <3>1, <3>2, WritersSame, OursLess
  <2> QED
    BY <1>6, <2>2, <2>3, <2>4 DEF Relay
<1> QED
  BY <1>5, <1>6

\* All steps.
LEMMA WritersKept ==
    ASSUME IInv, Next
    PROVE  Writers' /\ RingIsOurs'
<1>1. /\ Writers /\ gen \in Nat /\ dl \in DlType /\ relay \in RelayType
  BY DEF IInv, TypeOK, ChainTypes, RingTypes, DlType, RelayType
<1>2. dl' = dl => DlKeeps
  BY DEF DlKeeps
<1>3. relay' = relay => RelayKeeps
  BY DEF RelayKeeps
<1>4. ASSUME UNCHANGED <<gen, ring, dl, relay>>
      PROVE  Writers' /\ RingIsOurs'
  BY <1>1, <1>2, <1>3, <1>4, WritersSame, OursLess
<1>5. CASE Waited \/ Kill
  BY <1>4, <1>5 DEF Waited, Kill, chainVars, ringVars, feedVars
<1>6. CASE Delete
  BY <1>4, <1>6 DEF Delete, ringVars, feedVars
<1>7. ASSUME NEW r \in {relay, NoRelay}, StartStream(r)
      PROVE  Writers' /\ RingIsOurs'
  <2>1. TakeOver(TRUE) /\ HandOver(FALSE)
    BY <1>7 DEF StartStream
  <2>2. \/ relay' = [pc |-> "look", gen |-> gen + 1, left |-> 0, late |-> FALSE, stuck |-> FALSE]
        \/ relay' = [relay EXCEPT !.late = relay.pc = "put"]
    BY <1>7 DEF StartStream, NoRelay
  <2> QED
    BY <1>1, <2>1, <2>2, WritersTakeOver
<1>8. CASE Reset
  BY <1>7, <1>8 DEF Reset
<1>9. CASE Say
  BY <1>4, <1>9 DEF Say, chainVars, ringVars, feedVars
<1>10. CASE Speak
  <2>1. CASE busy
    BY <1>4, <1>10, <2>1 DEF Speak, chainVars, ringVars
  <2>2. CASE ~busy
    BY <1>1, <1>10, <2>2, WritersTakeOver DEF Speak
  <2> QED
    BY <2>1, <2>2
<1>11. CASE AudioStart
  BY <1>4, <1>7, <1>11 DEF AudioStart, ringVars, feedVars
<1>12. CASE Frame
  <2>1. UNCHANGED <<gen, dl, relay>>
    BY <1>12 DEF Frame, chainVars
  <2>2. \/ ring' = ring
        \/ IsWsActive /\ HasRoom /\ ring' = Append(ring, [gen |-> gen, late |-> FALSE])
    BY <1>12 DEF Frame
  <2>3. ASSUME IsWsActive, HasRoom, ring' = Append(ring, [gen |-> gen, late |-> FALSE])
        PROVE  RingIsOurs'
    <3> DEFINE w == [gen |-> gen, late |-> FALSE]
    <3>1. Put(w) /\ w.gen = gen /\ w.late \in BOOLEAN
      BY <2>3 DEF Put
    <3>2. gen > 0
      BY <2>3 DEF IInv, Chains, IsWsActive
    <3>3. w.gen \in 1 .. gen
      BY <1>1, <3>1, <3>2
    <3> HIDE DEF w
    <3> QED
      BY <2>1, <2>3, <3>1, <3>3, OursPut
  <2> QED
    BY <1>1, <1>2, <1>3, <2>1, <2>2, <2>3, WritersSame, OursLess
<1>13. CASE AudioEnd \/ ChatDone \/ Disconnect \/ Reconnect
  BY <1>4, <1>13 DEF AudioEnd, ChatDone, Disconnect, Reconnect, chainVars, ringVars, feedVars
<1>14. CASE Press \/ WifiLost
  <2>1. /\ UNCHANGED <<gen, ring, dl>>
        /\ relay' = relay \/ relay' = [relay EXCEPT !.stuck = @ \/ relay.pc = "put"]
    BY <1>14 DEF Press, WifiLost, stopLess, TtsStop, ringVars
  <2>2. RelayKeeps
    BY <1>1, <2>1 DEF RelayKeeps, RelayType
  <2> QED
    BY <1>1, <1>2, <2>1, <2>2, WritersSame, OursLess
<1>15. CASE Session
  BY <1>4, <1>15 DEF Session, Open, LateReply, Silence, Speech, Answered, Drain, codecLess,
                     ttsVars, chainVars, ringVars, feedVars
<1>16. CASE Noise
  BY <1>4, <1>16, NoiseSteps DEF chainVars, ringVars, feedVars
<1> QED
  BY <1>5, <1>6, <1>8, <1>9, <1>10, <1>11, <1>12, <1>13, <1>14, <1>15, <1>16,
     PlaybackWriters, FeedWriters
     DEF Next, TtsNext, WsStep, Event

-----------------------------------------------------------------------------
(***************************************************************************)
(* Streams and their frames.                                               *)
(***************************************************************************)

Flow == Streamed /\ AtMostOneLoadLost /\ Relays /\ FramesReachRing

\* A stream that has ended without being stopped, and its blocks in the ring.
Ended == gen > 0 /\ task[gen].pc \in {"flush", "done"} /\ wsMode /\ ~stop
Left == {i \in DOMAIN ring : ring[i].gen = gen}

Few == frames = 0 /\ Cardinality(Left) + relay.left <= RelayBlocks

\* AtMostOneLoadLost is about the present session only.
LEMMA LostAlone ==
    ASSUME IInv, Next
    PROVE  (AtMostOneLoadLost <=> (Ended => Few)) /\ (AtMostOneLoadLost' <=> (Ended => Few)')
<1>1. gen \in 0 .. MaxTalks /\ gen' \in 0 .. MaxTalks /\ MaxTalks \in Nat
  BY TypesKept, BoundsAssumption DEF IInv, TypeOK, ChainTypes
<1>2. (gen > 0 <=> gen \in Sessions) /\ (gen' > 0 <=> gen' \in Sessions)
  BY <1>1 DEF Sessions
<1>3. AtMostOneLoadLost <=> (Ended => Few)
  BY <1>2 DEF AtMostOneLoadLost, Ended, Few, Left
<1>4. AtMostOneLoadLost' <=> (Ended => Few)'
  BY <1>2 DEF AtMostOneLoadLost, Ended, Few, Left
<1> QED
  BY <1>3, <1>4

\* A step that leaves stream, queue of frames and relay as they are, or stops them.
Undisturbed ==
    /\ UNCHANGED <<busy, gen, wsMode, frames>>
    /\ stop' = stop \/ (stop' /\ busy)
    /\ framesDone' = framesDone \/ (framesDone' /\ busy /\ reply' # "audio")
    /\ done' => done \/ framesDone' \/ ~IsWsActive
    /\ ws' = "idle" /\ reply' = "audio" => ws = "idle" /\ reply = "audio" /\ sent' = sent
    /\ relay'.pc = relay.pc /\ relay'.gen = relay.gen /\ (relay.stuck => relay'.stuck)
    /\ relay'.left = relay.left
    /\ dl'.pc # "none" => ~IsWsActive \/ (dl.pc # "none" /\ dl'.gen = dl.gen)
    /\ gen > 0 /\ task'[gen].pc = "slot" => task[gen].pc = "slot" \/ ~wsMode
    /\ gen > 0 /\ task'[gen].pc \in {"flush", "done"} =>
         task[gen].pc \in {"flush", "done"} \/ stop' \/ ~wsMode \/ framesDone
    /\ Ended' => (Ended /\ Left' = Left) \/ (frames = 0 /\ Left' = {})
    /\ ws' \in {"idle", "chat", "start"} => ws \in {"idle", "chat", "start"}
    /\ ws' \notin {"wait", "kill", "delete"} => ws \notin {"wait", "kill", "delete"} \/ ~busy

\* Such a step.
LEMMA FlowSame ==
    ASSUME IInv, Next, Undisturbed
    PROVE  Flow'
<1>1. /\ Streamed /\ Relays /\ FramesReachRing /\ (Ended => Few) /\ Chains
      /\ gen \in Nat
  BY LostAlone DEF IInv, TypeOK, ChainTypes
<1>2. UNCHANGED <<busy, gen, wsMode, frames>> /\ (IsWsActive' <=> IsWsActive)
  BY DEF Undisturbed, IsWsActive
<1>3. IsWsActive => gen > 0
  BY <1>1 DEF IsWsActive, Chains
<1>4. Streamed'
  <2>1. (IsWsActive /\ done => framesDone)'
    BY <1>1, <1>2 DEF Streamed, Undisturbed
  <2>2. (IsWsActive /\ framesDone /\ ws = "idle" => reply # "audio")'
    BY <1>1, <1>2 DEF Streamed, Undisturbed
  <2>3. (IsWsActive /\ dl.pc # "none" => dl.gen # gen)'
    BY <1>1, <1>2 DEF Streamed, Undisturbed
  <2>4. (IsWsActive => task[gen].pc # "slot")'
    BY <1>1, <1>2, <1>3 DEF Streamed, Undisturbed, IsWsActive
  <2>5. (IsWsActive /\ ~stop /\ task[gen].pc \in {"flush", "done"} => framesDone)'
    BY <1>1, <1>2, <1>3 DEF Streamed, Undisturbed, IsWsActive
  <2> QED
    BY <2>1, <2>2, <2>3, <2>4, <2>5 DEF Streamed
<1>5. AtMostOneLoadLost'
  <2> SUFFICES ASSUME Ended'
               PROVE  Few'
    BY LostAlone
  <2>1. CASE Ended /\ Left' = Left
    BY <1>1, <2>1 DEF Few, Undisturbed
  <2>2. CASE frames = 0 /\ Left' = {}
    <3>1. frames' = 0 /\ Cardinality(Left') = 0
      BY <1>2, <2>2, FS_EmptySet
    <3>2. relay'.left <= RelayBlocks /\ relay'.left \in Nat
      BY TypesKept, BoundsAssumption DEF TypeOK, RingTypes
    <3> QED
      BY <3>1, <3>2 DEF Few
  <2> QED
    BY <2>1, <2>2 DEF Undisturbed
<1>6. Relays'
  <2>1. (busy /\ ~wsMode /\ relay.pc # "none" => relay.stuck)'
    BY <1>1, <1>2 DEF Relays, Undisturbed
  <2>2. ASSUME ~busy', ws' \in {"idle", "chat", "start"}, relay'.pc # "none"
        PROVE  relay'.stuck \/ RelayLeaves'
    <3>1. relay.stuck \/ RelayLeaves
      BY <1>1, <1>2, <2>2 DEF Relays, Undisturbed
    <3>2. UNCHANGED <<stop, framesDone, frames>> /\ relay'.pc = relay.pc
      BY <1>2, <2>2 DEF Undisturbed
    <3>3. RelayLeaves => RelayLeaves'
      BY <3>2 DEF RelayLeaves
    <3>4. relay.stuck => relay'.stuck
      BY DEF Undisturbed
    <3> QED
      BY <3>1, <3>3, <3>4
  <2> QED
    BY <2>1, <2>2 DEF Relays
<1>7. FramesReachRing'
  <2>1. ASSUME IsWsActive', ws' \notin {"wait", "kill", "delete"}, relay'.pc # "none"
        PROVE  relay'.gen = gen' \/ relay'.stuck
    <3>1. IsWsActive /\ ws \notin {"wait", "kill", "delete"} /\ relay.pc # "none"
      BY <1>2, <2>1 DEF Undisturbed, IsWsActive
    <3>2. relay.gen = gen \/ relay.stuck
      BY <1>1, <3>1 DEF FramesReachRing
    <3> QED
      BY <1>2, <3>2 DEF Undisturbed
  <2> QED
    BY <2>1 DEF FramesReachRing
<1> QED
  BY <1>4, <1>5, <1>6, <1>7 DEF Flow

\* A step of the chain that is under way, up to the end of its flush.
LEMMA PlaybackFlow ==
    ASSUME IInv, Next, NEW g \in Sessions, Playback(g), ~PlayDone(g)
    PROVE  Undisturbed
<1>1. /\ Chains /\ Streamed /\ task \in Tasks /\ gen \in 0 .. MaxTalks /\ MaxTalks \in Nat
      /\ g \in 1 .. MaxTalks /\ (gen > 0 => gen \in Sessions)
  BY BoundsAssumption DEF IInv, TypeOK, ChainTypes, Tasks, Sessions
<1>2. /\ UNCHANGED <<busy, stop, gen, wsMode, frames, framesDone, relay, ws, reply, sent>>
  BY DEF Playback, PlayStart, PlayStop, PlayTop, PlaySlot, PlayFeed, PlayFlush, PlayRelease,
         chainVars, feedVars, serverVars
<1>3. {"none", "top", "slot", "feed", "flush", "done"} \subseteq TaskStates
  BY DEF TaskStates
<1>4. IsWsActive <=> wsMode
  BY <1>1 DEF IsWsActive, Chains
<1>5. ASSUME dl'.pc # "none" => ~wsMode \/ (dl.pc # "none" /\ dl'.gen = dl.gen),
             done' => done \/ ~wsMode,
             gen > 0 /\ task'[gen].pc = "slot" => task[gen].pc = "slot" \/ ~wsMode,
             gen > 0 /\ task'[gen].pc \in {"flush", "done"} =>
               task[gen].pc \in {"flush", "done"} \/ stop' \/ ~wsMode \/ framesDone,
             Ended' => (Ended /\ ring' = ring) \/ (frames = 0 /\ ring' = <<>>)
      PROVE  Undisturbed
  <2>1. Ended' => (Ended /\ Left' = Left) \/ (frames = 0 /\ Left' = {})
    BY <1>2, <1>5 DEF Left
  <2> QED
    BY <1>2, <1>4, <1>5, <2>1 DEF Undisturbed
<1>6. ASSUME NEW pc, Moves(g, pc)
      PROVE  task'[gen].pc \in {pc, task[gen].pc} \/ gen = 0
  BY <1>1, <1>6 DEF Moves
<1>7. ASSUME task[g].pc \in {"new"} \cup Playing
      PROVE  g = gen /\ gen > 0
  BY <1>1, <1>7 DEF Chains, Playing
<1>8. CASE PlayStart(g)
  <2>1. Moves(g, "top") /\ UNCHANGED <<ring, done, dl>>
    BY <1>1, <1>3, <1>8, TaskMoves DEF PlayStart, ringVars
  <2>2. task'[gen].pc \in {"top", task[gen].pc} \/ gen = 0
    BY <1>6, <2>1
  <2> QED
    BY <1>2, <1>5, <2>1, <2>2 DEF Ended
<1>9. CASE PlayStop(g)
  <2>1. Moves(g, "flush") \/ Moves(g, "done")
    BY <1>1, <1>9, TaskMoves DEF PlayStop
  <2>2. stop' /\ UNCHANGED <<ring, done, dl>>
    BY <1>2, <1>9 DEF PlayStop, ringVars
  <2>3. task'[gen].pc \in {"flush", "done", task[gen].pc} \/ gen = 0
    BY <1>6, <2>1
  <2> QED
    BY <1>5, <2>2, <2>3 DEF Ended
<1>10. CASE PlayFlush(g)
  <2>1. task[g].pc = "flush" /\ Moves(g, "done") /\ UNCHANGED <<ring, done, dl>>
    BY <1>1, <1>3, <1>10, TaskMoves DEF PlayFlush, ringVars, At
  <2>2. g = gen /\ task'[gen].pc = "done"
    BY <1>7, <2>1 DEF Playing, Moves
  <2>3. Ended' => Ended
    BY <1>2, <2>1, <2>2 DEF Ended
  <2> QED
    BY <1>5, <2>1, <2>2, <2>3
<1>11. CASE PlayRelease(g)
  <2>1. Moves(g, "none") /\ UNCHANGED <<ring, done, dl>>
    BY <1>1, <1>11, TaskMoves DEF PlayRelease, ringVars
  <2>2. task'[gen].pc \in {"none", task[gen].pc} \/ gen = 0
    BY <1>6, <2>1
  <2> QED
    BY <1>2, <1>5, <2>1, <2>2 DEF Ended
<1>12. CASE PlayTop(g)
  <2>1. task[g].pc = "top" /\ g = gen /\ gen > 0
    BY <1>7, <1>12 DEF PlayTop, At, Playing
  <2>2. CASE ~Drained /\ GoTo(g, "feed") /\ UNCHANGED <<ringVars, dl>>
    <3>1. task'[gen].pc = "feed" /\ UNCHANGED <<ring, done, dl>>
      BY <1>1, <1>3, <2>1, <2>2, TaskMoves DEF Moves, ringVars
    <3> QED
      BY <1>2, <1>5, <3>1 DEF Ended
  <2>3. CASE Drained /\ (wsMode => frames = 0) /\ Leave(g) /\ UNCHANGED <<ringVars, dl>>
    <3>1. task'[gen].pc \in {"flush", "done"} /\ UNCHANGED <<ring, done, dl>>
      BY <1>1, <2>1, <2>3, TaskMoves DEF Moves, ringVars
    <3>2. done /\ ring = <<>>
      BY <2>3 DEF Drained
    <3>3. wsMode => framesDone
      BY <1>1, <1>4, <3>2 DEF Streamed
    <3>4. Ended' => frames = 0 /\ ring' = <<>>
      BY <1>2, <2>3, <3>1, <3>2 DEF Ended
    <3> QED
      BY <1>5, <3>1, <3>3, <3>4
  <2>4. CASE ~wsMode /\ (Spawn(g) \/ (GoTo(g, "slot") /\ UNCHANGED <<ringVars, dl>>))
    <3>1. ~wsMode' /\ ~Ended'
      BY <1>2, <2>4 DEF Ended
    <3> QED
      BY <1>5, <2>4, <3>1
  <2> QED
    BY <1>12, <2>2, <2>3, <2>4 DEF PlayTop
<1>13. CASE PlaySlot(g)
  <2>1. task[g].pc = "slot" /\ g = gen /\ gen > 0
    BY <1>7, <1>13 DEF PlaySlot, At, Playing
  <2>2. ~wsMode
    BY <1>1, <1>4, <2>1 DEF Streamed
  <2> QED
    BY <1>2, <1>5, <2>2 DEF Ended
<1>14. CASE PlayFeed(g)
  <2>1. task[g].pc = "feed" /\ g = gen /\ gen > 0 /\ dl' = dl
    BY <1>7, <1>14 DEF PlayFeed, At, Playing
  <2>2. task' = [task EXCEPT ![g].heard = TRUE] \/ GoTo(g, "top")
    BY <1>14 DEF PlayFeed
  <2>3. task'[gen].pc \in {"feed", "top"}
    BY <1>1, <1>3, <2>1, <2>2, TaskMoves DEF Moves, Stays
  <2>4. done' => done \/ ~wsMode
    BY <1>14 DEF PlayFeed, ringVars
  <2> QED
    BY <1>2, <1>5, <2>1, <2>3, <2>4 DEF Ended
<1> QED
  BY <1>8, <1>9, <1>10, <1>11, <1>12, <1>13, <1>14 DEF Playback

\* The chain reports its end: its relay has left, or is about to, or waits for room.
LEMMA DoneFlow ==
    ASSUME IInv, Next, NEW g \in Sessions, PlayDone(g)
    PROVE  Flow'
<1>1. /\ Chains /\ Streamed /\ Relays /\ (Ended => Few) /\ relay \in RelayType
      /\ gen \in 0 .. MaxTalks /\ g \in 1 .. MaxTalks /\ MaxTalks \in Nat
  BY LostAlone, BoundsAssumption
     DEF IInv, TypeOK, ChainTypes, RingTypes, RelayType, Sessions
<1>2. g = gen /\ gen > 0 /\ task[gen].pc = "done" /\ busy
  BY <1>1 DEF PlayDone, At, Chains, Playing
<1>3. /\ busy' = FALSE /\ wsMode' = FALSE
      /\ relay' = [relay EXCEPT !.stuck = @ \/ relay.pc = "put"]
      /\ UNCHANGED <<stop, gen, frames, framesDone, ws>>
  BY <1>2 DEF PlayDone
<1>4. Streamed' /\ FramesReachRing' /\ AtMostOneLoadLost'
  BY <1>3 DEF Streamed, FramesReachRing, AtMostOneLoadLost, IsWsActive
<1>5. ASSUME relay.pc # "none", ~relay.stuck, relay.pc # "put"
      PROVE  RelayLeaves
  <2>1. relay.pc = "look"
    BY <1>1, <1>5 DEF RelayType
  <2>2. wsMode
    BY <1>1, <1>2, <1>5 DEF Relays
  <2>3. ~stop => framesDone /\ frames = 0
    BY <1>1, <1>2, <2>2 DEF Streamed, IsWsActive, Ended, Few
  <2> QED
    BY <2>1, <2>3 DEF RelayLeaves
<1>6. relay'.pc = relay.pc /\ relay'.stuck = (relay.stuck \/ relay.pc = "put")
  BY <1>1, <1>3 DEF RelayType
<1>7. RelayLeaves' <=> RelayLeaves
  BY <1>3, <1>6 DEF RelayLeaves
<1>8. Relays'
  BY <1>3, <1>5, <1>6, <1>7 DEF Relays
<1> QED
  BY <1>4, <1>8 DEF Flow

\* A block more is one that is left when it is of the present session.
LEMMA LeftPut ==
    ASSUME IInv, HasRoom, NEW w, Put(w), w.gen \in 1 .. gen, w.late \in BOOLEAN, gen' = gen
    PROVE  Left' = Left \cup (IF w.gen = gen THEN {Len(ring) + 1} ELSE {})
<1>1. /\ ring \in Seq(Block) /\ Len(ring) <= RingBlocks
      /\ MaxTalks \in Nat /\ gen \in 0 .. MaxTalks
  BY BoundsAssumption DEF IInv, TypeOK, RingTypes, ChainTypes
<1> DEFINE b == [gen |-> w.gen, late |-> w.late]
<1>2. b \in Block /\ ring' = Append(ring, b) /\ b.gen = w.gen
  BY <1>1 DEF Block, Sessions, Put
<1> HIDE DEF b
<1>3. /\ Len(ring') = Len(ring) + 1 /\ ring'[Len(ring) + 1] = b
      /\ \A i \in 1 .. Len(ring) : ring'[i] = ring[i]
  BY <1>1, <1>2, Appended
<1>4. /\ DOMAIN ring' = DOMAIN ring \cup {Len(ring) + 1}
      /\ DOMAIN ring = 1 .. Len(ring)
  BY <1>1, <1>2
<1> QED
  BY <1>2, <1>3, <1>4 DEF Left

\* The download of an earlier session leaves a stream alone.
LEMMA DownloadFlow ==
    ASSUME IInv, Next, Download
    PROVE  Undisturbed
<1>1. /\ Writers /\ Streamed /\ Chains /\ dl \in DlType
  BY DEF IInv, TypeOK, RingTypes, DlType
<1>2. UNCHANGED <<busy, stop, gen, wsMode, task, frames, framesDone, relay, ws, reply, sent>>
  BY DEF Download, chainVars, playVars, feedVars, serverVars
<1>3. Ended => IsWsActive
  BY <1>1 DEF Ended, IsWsActive, Chains
<1>4. ASSUME dl'.pc # "none" => dl.pc # "none" /\ dl'.gen = dl.gen,
             done' => done \/ ~IsWsActive,
             ring' = ring \/ (IsWsActive => Left' = Left)
      PROVE  Undisturbed
  <2>1. Ended' => Ended
    BY <1>2 DEF Ended
  <2>2. Ended' => Left' = Left
    BY <1>2, <1>3, <1>4, <2>1 DEF Left
  <2> QED
    BY <1>2, <1>4, <2>1, <2>2 DEF Undisturbed
<1>5. CASE DlReceive \/ DlPut
  <2>1. dl.pc # "none" /\ dl'.gen = dl.gen /\ done' = done
    BY <1>1, <1>5 DEF DlReceive, DlPut, DlType
  <2>2. ring' = ring \/ (HasRoom /\ Put(dl))
    BY <1>5 DEF DlReceive, DlPut
  <2>3. dl.gen \in 1 .. gen /\ dl.late \in BOOLEAN /\ (IsWsActive => dl.gen # gen)
    BY <1>1, <2>1 DEF Writers, Streamed, DlType
  <2>4. ASSUME HasRoom, Put(dl), IsWsActive
        PROVE  Left' = Left
    BY <1>2, <2>3, <2>4, LeftPut
  <2> QED
    BY <1>4, <2>1, <2>2, <2>4
<1>6. CASE DlEnd
  <2>1. dl.pc = "net" /\ ring' = ring
    BY <1>6 DEF DlEnd
  <2>2. \/ dl' = NoDownload /\ done' = (done \/ dl.gen = gen)
        \/ dl'.gen = dl.gen /\ done' = done
    BY <1>1, <1>6 DEF DlEnd, DlExit, DlType
  <2>3. IsWsActive => dl.gen # gen
    BY <1>1, <2>1 DEF Streamed
  <2>4. done' => done \/ ~IsWsActive
    BY <2>2, <2>3
  <2>5. dl'.pc # "none" => dl'.gen = dl.gen
    BY <2>2 DEF NoDownload
  <2> QED
    BY <1>4, <2>1, <2>4, <2>5
<1>7. CASE DlGiveUp
  BY <1>4, <1>7 DEF DlGiveUp, NoDownload, IsWsActive
<1> QED
  BY <1>5, <1>6, <1>7 DEF Download

\* The relay carries a frame, or leaves.
LEMMA RelayFlow ==
    ASSUME IInv, Next, Relay
    PROVE  Flow'
<1>1. /\ Writers /\ Streamed /\ Chains /\ Relays /\ FramesReachRing /\ (Ended => Few)
      /\ relay \in RelayType /\ frames \in Nat /\ sent \in Nat
      /\ ring \in Seq(Block) /\ gen \in Nat
  BY LostAlone, BoundsAssumption
     DEF IInv, TypeOK, ChainTypes, RingTypes, ServerTypes, RelayType
<1>2. UNCHANGED <<busy, stop, gen, wsMode, task, dl, framesDone, ws, reply, sent>>
  BY DEF Relay, chainVars, playVars, serverVars
<1>3. (IsWsActive' <=> IsWsActive) /\ (Ended' <=> Ended) /\ (Ended => IsWsActive)
  BY <1>1, <1>2 DEF Ended, IsWsActive, Chains
<1>4. relay.pc # "none" /\ (done' => done \/ ~IsWsActive)
  BY <1>1 DEF Relay, RelayTake, RelayPut, RelayExit, RelayGiveUp, RelayLeaves, ringVars,
              IsWsActive
<1>5. \/ relay'.pc = "none"
      \/ relay'.gen = relay.gen /\ relay'.stuck = relay.stuck
  <2>1. RelayExit \/ RelayGiveUp => relay'.pc = "none"
    BY DEF RelayExit, RelayGiveUp, NoRelay
  <2>2. RelayTake => relay'.gen = relay.gen /\ relay'.stuck = relay.stuck
    BY <1>1 DEF RelayTake, RelayType
  <2>3. RelayPut => relay'.gen = relay.gen /\ relay'.stuck = relay.stuck
    BY <1>1 DEF RelayPut, RelayType
  <2> QED
    BY <2>1, <2>2, <2>3 DEF Relay
<1>6. Streamed'
  <2>1. (IsWsActive /\ done => framesDone)'
    BY <1>1, <1>2, <1>3, <1>4 DEF Streamed
  <2> QED
    BY <1>1, <1>2, <1>3, <2>1 DEF Streamed
<1>7. Relays'
  <2>1. (busy /\ ~wsMode /\ relay.pc # "none" => relay.stuck)'
    BY <1>1, <1>2, <1>4, <1>5 DEF Relays
  <2>2. ASSUME ~busy, ws \in {"idle", "chat", "start"}, relay'.pc # "none"
        PROVE  relay'.stuck
    <3>1. relay.stuck \/ RelayLeaves
      BY <1>1, <1>4, <2>2 DEF Relays
    <3>2. ~RelayLeaves
      BY <1>1, <2>2 DEF Relay, RelayTake, RelayPut, RelayExit, RelayGiveUp, RelayLeaves, NoRelay
    <3> QED
      BY <1>5, <2>2, <3>1, <3>2
  <2> QED
    BY <1>2, <2>1, <2>2 DEF Relays
<1>8. FramesReachRing'
  BY <1>1, <1>2, <1>3, <1>4, <1>5 DEF FramesReachRing
<1>9. AtMostOneLoadLost'
  <2> SUFFICES ASSUME Ended
               PROVE  Few'
    BY <1>3, LostAlone
  <2>1. frames = 0 /\ Cardinality(Left) + relay.left <= RelayBlocks /\ busy
    BY <1>1, <1>3 DEF Few, IsWsActive
  <2>2. /\ IsFiniteSet(Left) /\ Cardinality(Left) \in Nat
        /\ relay.left \in Nat /\ RelayBlocks \in Nat
    <3>1. Left \in SUBSET (1 .. Len(ring)) /\ Len(ring) \in Nat
      BY <1>1 DEF Left
    <3>2. IsFiniteSet(1 .. Len(ring))
      BY <3>1, FS_Interval
    <3>3. IsFiniteSet(Left) /\ Cardinality(Left) \in Nat
      BY <3>1, <3>2, FS_Subset, FS_CardinalityType
    <3> QED
      BY <1>1, <3>3, BoundsAssumption DEF RelayType
  <2>3. CASE RelayPut
    <3>1. /\ HasRoom /\ Put(relay) /\ frames' = frames
          /\ relay.gen \in 1 .. gen /\ relay.late \in BOOLEAN /\ relay.left > 0
      BY <1>1, <2>3 DEF RelayPut, Writers, RelayType
    <3>2. relay'.left = relay.left - 1
      BY <1>1, <2>2, <2>3 DEF RelayPut, RelayType
    <3>3. Left' \in {Left, Left \cup {Len(ring) + 1}}
      BY <1>2, <3>1, LeftPut
    <3>4. Cardinality(Left') \in Nat /\ Cardinality(Left') <= Cardinality(Left) + 1
      <4>1. CASE Left' = Left
        BY <2>2, <4>1
      <4>2. CASE Left' = Left \cup {Len(ring) + 1}
        <5>1. Cardinality(Left') \in {Cardinality(Left), Cardinality(Left) + 1}
          BY <2>2, <4>2, FS_AddElement
        <5> QED
          BY <2>2, <5>1
      <4> QED
        BY <3>3, <4>1, <4>2
    <3> QED
      BY <2>1, <2>2, <3>1, <3>2, <3>4 DEF Few
  <2>4. CASE RelayExit
    <3>1. Left' = Left /\ frames' = 0 /\ relay'.left = 0
      BY <1>2, <2>1, <2>4 DEF RelayExit, NoRelay, ringVars, Left
    <3> QED
      BY <2>1, <2>2, <3>1 DEF Few
  <2> QED
    BY <1>1, <2>1, <2>3, <2>4 DEF Relay, RelayTake, RelayGiveUp
<1> QED
  BY <1>6, <1>7, <1>8, <1>9 DEF Flow

\* A stream begins: its relay is its own, or one that still waits for room.
LEMMA StreamFlow ==
    ASSUME IInv, Next, NEW r, StartStream(r), gen < MaxTalks,
           r = NoRelay \/ (r = relay /\ (relay.pc # "none" => relay.stuck))
    PROVE  Flow'
<1>1. /\ Writers /\ relay \in RelayType /\ dl \in DlType /\ gen \in Nat
  BY DEF IInv, TypeOK, ChainTypes, RingTypes, DlType, RelayType
<1>2. /\ busy' = TRUE /\ wsMode' = TRUE /\ gen' = gen + 1 /\ task'[gen'].pc = "new"
  <2>1. TakeOver(TRUE)
    BY DEF StartStream
  <2> QED
    BY <2>1, TakeOverTypes DEF TakeOver, Moves
<1>3. frames' = 0 /\ framesDone' = FALSE /\ done' = FALSE
  BY DEF StartStream, HandOver
<1>4. dl'.pc # "none" => dl'.gen # gen'
  <2>1. dl' = [dl EXCEPT !.late = dl.pc = "put"]
    BY DEF StartStream, HandOver
  <2>2. dl'.pc = dl.pc /\ dl'.gen = dl.gen
    BY <1>1, <2>1 DEF DlType
  <2> QED
    BY <1>1, <1>2, <2>2 DEF Writers
<1>5. Streamed'
  BY <1>2, <1>3, <1>4 DEF Streamed
<1>6. AtMostOneLoadLost'
  <2>1. ~Ended'
    BY <1>2 DEF Ended
  <2> QED
    BY <2>1, LostAlone
<1>7. Relays'
  BY <1>2 DEF Relays
<1>8. relay'.pc # "none" => relay'.gen = gen' \/ relay'.stuck
  <2>1. CASE r.pc = "none"
    BY <1>2, <2>1 DEF StartStream
  <2>2. CASE r.pc # "none"
    <3>1. relay' = [relay EXCEPT !.late = relay.pc = "put"] /\ relay.stuck
      BY <2>2 DEF StartStream, NoRelay
    <3>2. relay'.stuck = relay.stuck
      BY <1>1, <3>1 DEF RelayType
    <3> QED
      BY <3>1, <3>2
  <2> QED
    BY <2>1, <2>2
<1>9. FramesReachRing'
  BY <1>8 DEF FramesReachRing
<1> QED
  BY <1>5, <1>6, <1>7, <1>9 DEF Flow

\* A chain of sentences begins beside a relay that still waits for room, or none.
LEMMA SpeakFlow ==
    ASSUME IInv, Next, Speak
    PROVE  Flow'
<1>1. /\ Relays /\ Counted /\ relay \in RelayType /\ gen \in Nat /\ talks \in 0 .. MaxTalks
      /\ MaxTalks \in Nat
  BY BoundsAssumption DEF IInv, TypeOK, ChainTypes, RingTypes, ServerTypes, RelayType
<1>2. ws = "start" /\ ws' = "idle" /\ reply = "none" /\ reply' = "none" /\ gen < talks
      /\ UNCHANGED <<frames, framesDone, sent>>
  BY <1>1 DEF Speak, serverVars, Counted, Pending
<1>3. CASE busy
  <2>1. UNCHANGED <<busy, stop, gen, wsMode, task, ring, done, dl, relay>>
    BY <1>3 DEF Speak, chainVars, playVars, ringVars
  <2>2. Ended' => Ended /\ Left' = Left
    BY <2>1 DEF Ended, Left
  <2>3. Undisturbed
    BY <1>2, <2>1, <2>2 DEF Undisturbed
  <2> QED
    BY <2>3, FlowSame
<1>4. CASE ~busy
  <2>1. /\ wsMode' = FALSE /\ RelayRests
        /\ relay' = [relay EXCEPT !.late = relay.pc = "put"]
    BY <1>4 DEF Speak, TakeOver
  <2>2. Streamed' /\ FramesReachRing' /\ AtMostOneLoadLost'
    BY <2>1 DEF Streamed, FramesReachRing, AtMostOneLoadLost, IsWsActive
  <2>3. relay'.pc = relay.pc /\ relay'.stuck = relay.stuck
    BY <1>1, <2>1 DEF RelayType
  <2>4. relay.pc # "none" => relay.stuck
    BY <1>1, <1>2, <1>4, <2>1 DEF Relays, RelayRests
  <2>5. busy' = TRUE
    BY <1>4 DEF Speak, TakeOver
  <2>6. Relays'
    BY <2>3, <2>4, <2>5 DEF Relays
  <2> QED
    BY <2>2, <2>6 DEF Flow
<1> QED
  BY <1>3, <1>4

\* A frame arrives: its stream has not ended.
LEMMA FrameFlow ==
    ASSUME IInv, Next, Frame
    PROVE  Flow'
<1>1. /\ Streamed /\ Relays /\ FramesReachRing /\ Chains
  BY DEF IInv
<1>2. /\ UNCHANGED <<busy, stop, gen, wsMode, task, done, dl, framesDone, relay, ws, reply>>
      /\ ws = "idle" /\ reply = "audio"
  BY DEF Frame, chainVars, playVars
<1>3. CASE ~IsWsActive
  <2>1. frames' = frames /\ ~IsWsActive'
    BY <1>2, <1>3 DEF Frame, IsWsActive
  <2>2. ~Ended'
    BY <1>1, <1>2, <1>3 DEF Ended, IsWsActive, Chains
  <2>3. AtMostOneLoadLost'
    BY <2>2, LostAlone
  <2>4. RelayLeaves' <=> RelayLeaves
    BY <1>2, <2>1 DEF RelayLeaves
  <2>5. Streamed' /\ FramesReachRing'
    BY <2>1 DEF Streamed, FramesReachRing
  <2>6. Relays'
    BY <1>1, <1>2, <2>4 DEF Relays
  <2> QED
    BY <2>3, <2>5, <2>6 DEF Flow
<1>4. CASE IsWsActive
  <2>1. ~framesDone /\ IsWsActive'
    BY <1>1, <1>2, <1>4 DEF Streamed, IsWsActive
  <2>2. ~Ended'
    BY <1>1, <1>2, <1>4, <2>1 DEF Ended, Streamed
  <2>3. AtMostOneLoadLost'
    BY <2>2, LostAlone
  <2>4. Streamed'
    BY <1>1, <1>2, <1>4, <2>1 DEF Streamed
  <2>5. Relays' /\ FramesReachRing'
    BY <1>1, <1>2, <1>4 DEF Relays, FramesReachRing, IsWsActive
  <2> QED
    BY <2>3, <2>4, <2>5 DEF Flow
<1> QED
  BY <1>3, <1>4

\* The other events and the other tasks leave a stream alone.
LEMMA OtherFlow ==
    ASSUME IInv, Next,
           \/ Waited \/ Kill \/ (Delete /\ play = 0) \/ Say \/ AudioEnd \/ ChatDone
           \/ Disconnect \/ Reconnect \/ Press \/ WifiLost \/ Session \/ Noise
           \/ AudioStart /\ (busy \/ play # 0)
    PROVE  Undisturbed
<1>1. /\ relay \in RelayType /\ Chains /\ Counted
      /\ ws \in {"idle", "wait", "kill", "delete", "reset", "dead", "chat", "start"}
  BY DEF IInv, TypeOK, RingTypes, ServerTypes, RelayType
<1>2. ASSUME UNCHANGED <<gen, wsMode, task, ring>>, stop => stop'
      PROVE  Ended' => (Ended /\ Left' = Left)
  BY <1>2 DEF Ended, Left
<1>3. ASSUME UNCHANGED <<busy, stop, gen, wsMode, task, ring, done, dl, frames, framesDone,
                         relay>>,
             ws' = "idle" /\ reply' = "audio" => ws = "idle" /\ reply = "audio" /\ sent' = sent,
             ws' \in {"idle", "chat", "start"} => ws \in {"idle", "chat", "start"},
             ws' \notin {"wait", "kill", "delete"} =>
               ws \notin {"wait", "kill", "delete"} \/ ~busy
      PROVE  Undisturbed
  BY <1>2, <1>3 DEF Undisturbed
<1>4. CASE Waited \/ Kill
  <2>1. UNCHANGED <<busy, stop, gen, wsMode, task, ring, done, dl, frames, framesDone, relay>>
    BY <1>4 DEF Waited, Kill, chainVars, playVars, ringVars, feedVars
  <2>2. /\ ws \in {"wait", "kill"} /\ ws' \in {"reset", "kill", "delete"}
        /\ ws' = "reset" => ~busy
    BY <1>4 DEF Waited, Kill
  <2> QED
    BY <1>3, <2>1, <2>2
<1>5. CASE Delete /\ play = 0
  <2>1. UNCHANGED <<busy, stop, gen, wsMode, task, ring, done, dl, frames, framesDone, relay>>
    BY <1>5 DEF Delete, playVars, ringVars, feedVars
  <2>2. ws = "delete" /\ ws' = "dead" /\ ~busy
    BY <1>1, <1>5 DEF Delete, Chains
  <2> QED
    BY <1>3, <2>1, <2>2
<1>6. CASE Say
  <2>1. UNCHANGED <<busy, stop, gen, wsMode, task, ring, done, dl, frames, framesDone, relay>>
    BY <1>6 DEF Say, chainVars, playVars, ringVars, feedVars
  <2>2. ws = "chat" /\ ws' \in {"idle", "start"} /\ reply' = "none"
    BY <1>6 DEF Say
  <2> QED
    BY <1>3, <2>1, <2>2
<1>7. CASE ChatDone \/ Reconnect
  <2>1. UNCHANGED <<busy, stop, gen, wsMode, task, ring, done, dl, frames, framesDone, relay,
                    sent>>
    BY <1>7 DEF ChatDone, Reconnect, chainVars, playVars, ringVars, feedVars
  <2>2. ws = "idle" /\ ws' \in {"idle", "chat"} /\ (ws' = "idle" => reply' = reply)
    BY <1>7 DEF ChatDone, Reconnect
  <2> QED
    BY <1>3, <2>1, <2>2
<1>8. CASE AudioEnd \/ Disconnect
  <2>1. /\ UNCHANGED <<busy, stop, gen, wsMode, task, ring, dl, frames, relay, ws>>
        /\ ws = "idle" /\ reply' # "audio" /\ EndStream
    BY <1>8 DEF AudioEnd, Disconnect, chainVars, playVars
  <2>2. /\ framesDone' = framesDone \/ (framesDone' /\ busy)
        /\ done' => done \/ framesDone'
    BY <2>1 DEF EndStream, IsWsActive
  <2> QED
    BY <1>2, <2>1, <2>2 DEF Undisturbed
<1>9. CASE Press \/ WifiLost
  <2>1. /\ UNCHANGED <<busy, gen, wsMode, task, ring, done, dl, frames, framesDone, ws, reply,
                       sent>>
        /\ TtsStop
    BY <1>9 DEF Press, WifiLost, stopLess, playVars, ringVars
  <2>2. stop' = stop \/ (stop' /\ busy)
    BY <2>1 DEF TtsStop
  <2>3. /\ relay'.pc = relay.pc /\ relay'.gen = relay.gen /\ (relay.stuck => relay'.stuck)
        /\ relay'.left = relay.left
    <3>1. relay' = relay \/ relay' = [relay EXCEPT !.stuck = @ \/ relay.pc = "put"]
      BY <2>1 DEF TtsStop
    <3> QED
      BY <1>1, <3>1 DEF RelayType
  <2> QED
    BY <1>2, <2>1, <2>2, <2>3 DEF Undisturbed
<1>10. CASE Session
  <2>1. UNCHANGED <<busy, stop, gen, wsMode, task, ring, done, dl, frames, framesDone, relay,
                    ws, reply, sent>>
    BY <1>10 DEF Session, Open, LateReply, Silence, Speech, Answered, Drain, codecLess,
                 ttsVars, chainVars, playVars, ringVars, feedVars, serverVars
  <2> QED
    BY <1>3, <2>1
<1>11. CASE AudioStart /\ (busy \/ play # 0)
  <2>1. /\ UNCHANGED <<busy, gen, wsMode, task, ring, done, dl, frames, framesDone, relay>>
        /\ stop' = TRUE /\ ws' = "wait" /\ ws = "idle"
    BY <1>11 DEF AudioStart, playVars, ringVars, feedVars
  <2>2. busy
    BY <1>1, <1>11 DEF Chains, Playing
  <2> QED
    BY <1>2, <2>1, <2>2 DEF Undisturbed
<1>12. CASE Noise
  <2>1. UNCHANGED <<busy, stop, gen, wsMode, task, ring, done, dl, frames, framesDone, relay,
                    ws, reply, sent>>
    BY <1>12, NoiseSteps DEF chainVars, playVars, ringVars, feedVars
  <2> QED
    BY <1>3, <2>1
<1> QED
  BY <1>4, <1>5, <1>6, <1>7, <1>8, <1>9, <1>10, <1>11, <1>12

\* All steps.
LEMMA FlowKept ==
    ASSUME IInv, Next
    PROVE  Flow'
<1>1. /\ Chains /\ Counted /\ Relays /\ gen \in Nat /\ talks \in 0 .. MaxTalks
      /\ MaxTalks \in Nat
  BY BoundsAssumption DEF IInv, TypeOK, ChainTypes, ServerTypes
<1>2. ASSUME NEW g \in Sessions, Playback(g)
      PROVE  Flow'
  BY <1>2, PlaybackFlow, DoneFlow, FlowSame
<1>3. CASE Download
  BY <1>3, DownloadFlow, FlowSame
<1>4. CASE Relay
  BY <1>4, RelayFlow
<1>5. CASE Delete /\ play # 0
  <2>1. busy' = FALSE /\ wsMode' = FALSE /\ ws' = "reset"
    BY <1>5 DEF Delete
  <2> QED
    BY <2>1 DEF Flow, Streamed, AtMostOneLoadLost, Relays, FramesReachRing, IsWsActive
<1>6. CASE Reset
  <2>1. StartStream(NoRelay) /\ gen < MaxTalks
    BY <1>1, <1>6 DEF Reset, Counted, Pending
  <2> QED
    BY <2>1, StreamFlow
<1>7. CASE AudioStart /\ ~(busy \/ play # 0)
  <2>1. StartStream(relay) /\ RelayRests /\ talks < MaxTalks /\ ws = "idle"
    BY <1>7 DEF AudioStart
  <2>2. gen < MaxTalks
    BY <1>1, <2>1 DEF Counted
  <2>3. relay.pc # "none" => relay.stuck
    BY <1>1, <1>7, <2>1 DEF Relays, RelayRests
  <2> QED
    BY <2>1, <2>2, <2>3, StreamFlow
<1>8. CASE Frame
  BY <1>8, FrameFlow
<1>9. CASE Speak
  BY <1>9, SpeakFlow
<1>10. CASE \/ Waited \/ Kill \/ (Delete /\ play = 0) \/ Say \/ AudioEnd \/ ChatDone
            \/ Disconnect \/ Reconnect \/ Press \/ WifiLost \/ Session \/ Noise
            \/ AudioStart /\ (busy \/ play # 0)
  BY <1>10, OtherFlow, FlowSame
<1> QED
  BY <1>2, <1>3, <1>4, <1>5, <1>6, <1>7, <1>8, <1>9, <1>10 DEF Next, TtsNext, WsStep, Event

-----------------------------------------------------------------------------
(***************************************************************************)
(* The theorems.                                                           *)
(***************************************************************************)

\* The invariant holds at the start.
LEMMA InitHolds ==
    ASSUME Init
    PROVE  IInv
<1>1. TypeOK
  BY InitTypes
<1>2. /\ busy = FALSE /\ gen = 0 /\ wsMode = FALSE /\ play = 0 /\ ring = <<>> /\ dl = NoDownload
      /\ relay = NoRelay /\ codec = Stopped /\ ws = "idle" /\ seen = FALSE /\ reply = "none"
      /\ talks = 0 /\ sess = "idle" /\ noise = "idle" /\ task = [g \in Sessions |-> NoTask]
  BY DEF Init, TtsInit
<1>3. \A g \in Sessions : task[g].pc = "none"
  BY <1>2 DEF NoTask
<1>4. Chains
  BY <1>2, <1>3 DEF Chains, Sessions
<1>5. Received
  <2>1. ~Recording /\ ~Sampling
    BY <1>2 DEF Recording, Sampling
  <2>2. codec.rx = 0 /\ codec.txOn = ~Unused(codec)
    BY <1>2 DEF Stopped, Unused
  <2> QED
    BY <1>2, <2>1, <2>2 DEF Received
<1>6. Clocked
  <2>1. Holders = {}
    BY <1>3 DEF Holders, Holding, Loop
  <2> QED
    BY <1>2, <2>1, FS_EmptySet DEF Clocked, Stopped
<1>7. Writers /\ RingIsOurs
  BY <1>2 DEF Writers, NoDownload, NoRelay, RingIsOurs
<1>8. Counted /\ Flagged
  BY <1>2 DEF Counted, Pending, Flagged
<1>9. Streamed /\ AtMostOneLoadLost /\ Relays /\ FramesReachRing
  BY <1>2 DEF Streamed, AtMostOneLoadLost, Relays, FramesReachRing, IsWsActive, NoRelay
<1> QED
  BY <1>1, <1>4, <1>5, <1>6, <1>7, <1>8, <1>9 DEF IInv

\* A step that changes nothing.
LEMMA Stutter ==
    ASSUME IInv, UNCHANGED vars
    PROVE  IInv'
<1> USE DEF vars, ttsVars, chainVars, playVars, ringVars, feedVars, serverVars, noteVars,
            sessVars, micVars
<1>1. TypeOK'
  BY DEF IInv, TypeOK, ChainTypes, RingTypes, ServerTypes, SessionTypes
<1>2. Counted' /\ Flagged'
  BY DEF IInv, Counted, Flagged, Pending
<1>3. Chains'
  BY DEF IInv, Chains
<1>4. Received' /\ Clocked'
  BY DEF IInv, Received, Recording, Sampling, Clocked, Holders
<1>5. Writers' /\ RingIsOurs'
  BY DEF IInv, Writers, RingIsOurs
<1>6. Streamed' /\ Relays' /\ FramesReachRing'
  BY DEF IInv, Streamed, Relays, FramesReachRing, IsWsActive, RelayLeaves
<1>7. AtMostOneLoadLost'
  BY DEF IInv, AtMostOneLoadLost
<1> QED
  BY <1>1, <1>2, <1>3, <1>4, <1>5, <1>6, <1>7 DEF IInv

\* The flags, the tasks, the codec, the ring and the streams fit together at all times.
THEOREM Invariance == Spec => []IInv
<1>1. Init => IInv
  BY InitHolds
<1>2. IInv /\ [Next]_vars => IInv'
  <2> SUFFICES ASSUME IInv, [Next]_vars
               PROVE  IInv'
    OBVIOUS
  <2>1. CASE Next
    BY <2>1, TypesKept, CountedKept, ChainsKept, ReceivedKept, ClockedKept, WritersKept,
       FlowKept
       DEF IInv, Flow
  <2>2. CASE UNCHANGED vars
    BY <2>2, Stutter
  <2> QED
    BY <2>1, <2>2
<1> QED
  BY <1>1, <1>2, PTL DEF Spec

\* Every variable keeps to the values its C type and the code allow.
THEOREM TypeCorrect == Spec => []TypeOK
<1>1. IInv => TypeOK
  BY DEF IInv
<1> QED
  BY <1>1, Invariance, PTL

\* At most one playback task reads the ring (tts_playback_task), for any number of
\* sessions and interruptions: a task that is not the present session's has left it.
THEOREM OneVoiceOnly == Spec => []OneVoice
<1>1. ASSUME IInv
      PROVE  OneVoice
  <2> DEFINE reading == {g \in Sessions : task[g].pc \in Loop}
  <2>1. Chains /\ gen \in Nat
    BY <1>1 DEF IInv, TypeOK, ChainTypes
  <2>2. reading \in SUBSET {gen}
    BY <2>1 DEF Chains, Loop, Sessions
  <2>3. IsFiniteSet({gen}) /\ Cardinality({gen}) = 1
    BY FS_Singleton
  <2>4. Cardinality(reading) <= 1
    BY <2>2, <2>3, FS_Subset
  <2> QED
    BY <2>4 DEF OneVoice
<1> QED
  BY <1>1, Invariance, PTL

\* The driver's counts (s_i2s_full_refs, s_i2s_rx_refs) are the tasks that use the
\* codec: players, the session and the noise detector; its clock runs exactly while
\* there are some.
THEOREM CodecIsFollowed == Spec => []CodecFollows
<1>1. IInv => CodecFollows
  BY DEF IInv, Received, Recording, Sampling, Clocked, CodecFollows, Holders
<1> QED
  BY <1>1, Invariance, PTL

\* What is in the ring is the present session's, or its writer was waiting for room
\* when the ring was handed over (rb_put, rb_reset).
THEOREM RingKept == Spec => []RingIsOurs
<1>1. IInv => RingIsOurs
  BY DEF IInv
<1> QED
  BY <1>1, Invariance, PTL

\* The frames of a stream are carried by its own relay (ws_relay_task), or by one that
\* waited for room when its own stream was stopped or came to its end.
THEOREM FramesCarried == Spec => []FramesReachRing
<1>1. IInv => FramesReachRing
  BY DEF IInv
<1> QED
  BY <1>1, Invariance, PTL

\* A stream that ends by itself (tts_playback_task, its end of the ws queue) has been
\* played but for one load of the relay at most, whatever fits into the queue of frames
\* and into a load.
THEOREM OneLoadAtMost == Spec => []AtMostOneLoadLost
<1>1. IInv => AtMostOneLoadLost
  BY DEF IInv
<1> QED
  BY <1>1, Invariance, PTL

\* A reply without audio is given to the speech output by the chat_done that brings it
\* (ws_audio_stream_take_seen), unless the flag of an earlier stream was left over.
THEOREM BareReplySpoken == Spec => FallbackSpoken
<1>1. ASSUME IInv, Next, ws = "chat", reply = "bare", ws' # ws
      PROVE  ws' = "start" \/ leftover
  <2>1. WsStep \/ Event
    BY <1>1, QuietSteps
  <2>2. Say
    BY <1>1, <2>1
       DEF WsStep, Event, Waited, Kill, Delete, Reset, Speak, AudioStart, Frame, AudioEnd,
           ChatDone, Disconnect, Reconnect
  <2>3. seen => leftover
    BY <1>1 DEF IInv, Flagged
  <2>4. ~seen => ws' = "start"
    BY <1>1, <2>2 DEF Say
  <2>5. seen => ws' = "idle" /\ leftover
    BY <1>1, <2>2, <2>3 DEF Say
  <2> QED
    BY <2>4, <2>5
<1>2. ASSUME IInv, [Next]_vars
      PROVE  [ws = "chat" /\ reply = "bare" /\ ws' # ws => ws' = "start" \/ leftover]_vars
  BY <1>1, <1>2
<1> QED
  BY <1>2, Invariance, PTL DEF Spec, FallbackSpoken

=============================================================================
