----------------------------- MODULE TtsClient -----------------------------
(***************************************************************************)
(* The speech output of the device (src/main/ai/tts_client.c) and the part *)
(* of the WebSocket task that drives it (src/main/network/ws_client.c and  *)
(* the chat_done branch of src/main/app/message_handler.c).                *)
(*                                                                         *)
(* A reply reaches the loudspeaker as a chain: either the server streams   *)
(* its audio over the WebSocket (audio_start, frames, audio_end), and a    *)
(* relay task carries the frames from a queue into the ring; or the reply  *)
(* comes as text only, is queued, and a download task fetches its audio    *)
(* into the same ring.  A playback task empties the ring, and flushes the  *)
(* codec before it reports that it is gone.  A new stream interrupts the   *)
(* chain that is under way: it waits 600 ms and then deletes the tasks.    *)
(*                                                                         *)
(* The ring and the queue of frames hold blocks; a block carries the       *)
(* session it was received for and whether its writer was already waiting  *)
(* for room when the ring was given to a later session.  The waits of the  *)
(* code that end within some 200 ms of a request are steps; what takes     *)
(* longer than the 600 ms a caller waits is in Slow.  Creating a task and  *)
(* allocating memory succeed.  Frames and loads are counted in blocks; a   *)
(* frame is one.                                                           *)
(***************************************************************************)
EXTENDS Es8311, Sequences, FiniteSets

CONSTANTS
    MaxTalks,       \* bound: replies, and thus sessions of the speech output
    MaxFrames,      \* bound: frames of one stream
    WsQueueBlocks,  \* WS_Q_BYTES, in blocks
    RelayBlocks,    \* WS_RELAY_BUF, in blocks: what the relay takes at once
    RingBlocks,     \* RB_SLOT_BYTES, in blocks
    SentenceBlocks, \* blocks of a downloaded sentence
    QueueLen,       \* sentences the queue takes: TTS_Q_LEN - 1
    MaxUpsets       \* bound: presses, samplings, silent replies, losses of a link

ASSUME BoundsAssumption ==
    /\ MaxTalks \in Nat /\ MaxFrames \in Nat /\ MaxUpsets \in Nat
    /\ WsQueueBlocks \in Nat \ {0} /\ RelayBlocks \in Nat \ {0}
    /\ RingBlocks \in Nat \ {0} /\ SentenceBlocks \in Nat \ {0}
    /\ QueueLen \in Nat \ {0}

VARIABLES
    busy,       \* s_busy
    stop,       \* s_stop_req
    gen,        \* s_gen
    wsMode,     \* s_ws_mode
    play,       \* s_playback_task: the session whose task it is, or 0
    task,       \* the playback tasks by session: where they are, heard: played
    queue,      \* s_q: the sentences, named by the reply they come from
    ring,       \* the blocks between rb_rd and rb_wr
    done,       \* rb_done
    dl,         \* the download task; alive while s_slot_busy
    frames,     \* blocks between s_ws_q_rd and s_ws_q_wr
    framesDone, \* s_ws_q_done
    relay,      \* the task ws_relay; gone while s_ws_relay is NULL
    codec,      \* the driver of the codec
    ws,         \* where the WebSocket task is
    link,       \* s_connected
    seen,       \* s_ws_audio_seen
    \* the server
    asked,      \* chats it has received and not begun to answer
    reply,      \* the answer under way: "none", "audio", "ended", "bare" or "hush"
    sent,       \* frames of it so far
    talks,      \* replies begun so far
    news,       \* s_chat_seq has moved since the session last read it
    upsets,     \* so far
    \* history
    leftover,   \* seen is that of a stream whose chat_done was lost or silent
    stranded    \* sentences queued behind a chain that no longer looks

chainVars == <<busy, stop, gen, wsMode>>
playVars == <<play, task>>
ringVars == <<ring, done>>
feedVars == <<frames, framesDone, relay>>
serverVars == <<asked, reply, sent, talks, news, link, upsets>>
noteVars == <<seen, leftover, stranded>>
ttsVars == <<chainVars, playVars, queue, ringVars, dl, feedVars, codec, ws,
             serverVars, noteVars>>

Sessions == 1 .. MaxTalks
Block == [gen : Sessions, late : BOOLEAN]
TaskStates == {"none", "new", "top", "slot", "feed", "flush", "done", "release"}
NoTask == [pc |-> "none", heard |-> FALSE]
NoDownload == [pc |-> "none", gen |-> 0, left |-> 0, try |-> 0, late |-> FALSE]
NoRelay == [pc |-> "none", gen |-> 0, left |-> 0, late |-> FALSE, stuck |-> FALSE]

-----------------------------------------------------------------------------
(* The state of a session *)

\* The task takes more than 600 ms before it looks at the stop request again: the
\* flush is 1.3 s of silence, the wait for an earlier download is up to 3 s.
Slow == play # 0 /\ task[play].pc \in {"flush", "slot"}

IsWsActive == busy /\ wsMode

\* The ring is handed to a new session: who waits for room in it now writes late.
HandOver(d) ==
    /\ ring' = <<>> /\ done' = d
    /\ dl' = [dl EXCEPT !.late = dl.pc = "put"]

Queued == {queue[i] : i \in DOMAIN queue}

\* tts_client_stop.  A relay that waits for room does not look at the request.
TtsStop ==
    IF busy
    THEN /\ stop' = TRUE /\ queue' = <<>>
         /\ relay' = [relay EXCEPT !.stuck = @ \/ relay.pc = "put"]
    ELSE UNCHANGED <<stop, queue, relay>>

\* The relay sees that it is stopped or that all is carried.
RelayLeaves == relay.pc = "look" /\ (stop \/ (framesDone /\ frames = 0))

HasRoom == Len(ring) < RingBlocks

\* The relay looks every 2 ms: by the time an idle speech output is started again it
\* has left, unless it waits for room.
RelayRests == ~RelayLeaves /\ ~(relay.pc = "put" /\ HasRoom)

\* A session takes over: a new generation, and its playback task.
TakeOver(mode) ==
    /\ busy' = TRUE /\ stop' = FALSE /\ wsMode' = mode
    /\ gen' = gen + 1 /\ play' = 0
    /\ task' = [task EXCEPT ![gen + 1] = [pc |-> "new", heard |-> FALSE]]

-----------------------------------------------------------------------------
(* The playback task of session g *)

At(g, pc) == task[g].pc = pc
GoTo(g, pc) == task' = [task EXCEPT ![g].pc = pc]

\* The loop is left: what was heard is flushed.
Leave(g) == GoTo(g, IF task[g].heard THEN "flush" ELSE "done")

PlayStart(g) ==
    /\ At(g, "new") /\ GoTo(g, "top")
    /\ play' = g /\ codec' = Hold(codec)
    /\ UNCHANGED <<chainVars, queue, ringVars, dl, feedVars, ws, serverVars, noteVars>>

PlayStop(g) ==
    /\ task[g].pc \in {"top", "feed"} /\ stop
    /\ Leave(g)
    /\ UNCHANGED <<chainVars, play, queue, ringVars, dl, feedVars, codec, ws,
                   serverVars, noteVars>>

\* Nothing in the ring and nothing on its way.
Drained == done /\ ring = <<>>

\* dl_spawn with no download in the way.
Spawn(g) ==
    /\ dl' = [pc |-> "net", gen |-> g, left |-> SentenceBlocks, try |-> 1,
              late |-> FALSE]
    /\ ring' = <<>> /\ done' = FALSE /\ GoTo(g, "feed")

\* The mode is not looked at: the end of the frames ends a chain of sentences too.
PlayTop_AnyMode(g) ==
    /\ At(g, "top") /\ ~stop
    /\ \/ ~Drained /\ GoTo(g, "feed") /\ UNCHANGED <<queue, ringVars, dl>>
       \/ /\ Drained /\ frames = 0
          /\ Leave(g) /\ UNCHANGED <<queue, ringVars, dl>>
    /\ UNCHANGED <<chainVars, play, feedVars, codec, ws, serverVars, noteVars>>

\* A stream is over when its ring is empty, whatever is still queued.
PlayTop_Mutant(g) ==
    /\ At(g, "top") /\ ~stop
    /\ \/ ~Drained /\ GoTo(g, "feed") /\ UNCHANGED <<queue, ringVars, dl>>
       \/ /\ Drained /\ (wsMode \/ queue = <<>>)
          /\ Leave(g) /\ UNCHANGED <<queue, ringVars, dl>>
       \/ /\ Drained /\ ~wsMode /\ queue # <<>> /\ queue' = Tail(queue)
          /\ IF dl.pc = "none"
             THEN Spawn(g)
             ELSE GoTo(g, "slot") /\ UNCHANGED <<ringVars, dl>>
    /\ UNCHANGED <<chainVars, play, feedVars, codec, ws, serverVars, noteVars>>

\* The top of the loop: go on with what comes, end, or take a sentence.
PlayTop(g) ==
    /\ At(g, "top") /\ ~stop
    /\ \/ ~Drained /\ GoTo(g, "feed") /\ UNCHANGED <<queue, ringVars, dl>>
       \/ /\ Drained /\ IF wsMode THEN frames = 0 ELSE queue = <<>>
          /\ Leave(g) /\ UNCHANGED <<queue, ringVars, dl>>
       \/ /\ Drained /\ ~wsMode /\ queue # <<>> /\ queue' = Tail(queue)
          /\ IF dl.pc = "none"
             THEN Spawn(g)
             ELSE GoTo(g, "slot") /\ UNCHANGED <<ringVars, dl>>
    /\ UNCHANGED <<chainVars, play, feedVars, codec, ws, serverVars, noteVars>>

\* dl_spawn waits for the download of an earlier session, at last in vain: then the
\* sentence is given up.
PlaySlot(g) ==
    /\ At(g, "slot")
    /\ IF dl.pc = "none" THEN Spawn(g) ELSE GoTo(g, "top") /\ UNCHANGED <<ringVars, dl>>
    /\ UNCHANGED <<chainVars, play, queue, feedVars, codec, ws, serverVars, noteVars>>

\* Prefill and drain: a block is played, the end of the audio is noticed, or a
\* download that brings nothing is given up.
PlayFeed(g) ==
    /\ At(g, "feed") /\ ~stop
    /\ \/ /\ ring # <<>> /\ ring' = Tail(ring)
          /\ task' = [task EXCEPT ![g].heard = TRUE] /\ UNCHANGED done
       \/ /\ Drained /\ (wsMode => frames = 0)
          /\ GoTo(g, "top") /\ UNCHANGED ringVars
       \/ /\ ~wsMode /\ ring = <<>> /\ ~done
          /\ done' = TRUE /\ GoTo(g, "top") /\ UNCHANGED ring
    /\ UNCHANGED <<chainVars, play, queue, dl, feedVars, codec, ws, serverVars, noteVars>>

PlayFlush(g) ==
    /\ At(g, "flush") /\ GoTo(g, "done")
    /\ UNCHANGED <<chainVars, play, queue, ringVars, dl, feedVars, codec, ws,
                   serverVars, noteVars>>

\* The flags are the session's own only while no later one has taken over.
PlayDone(g) ==
    /\ At(g, "done") /\ GoTo(g, "release")
    /\ IF gen = g
       THEN /\ play' = 0 /\ busy' = FALSE /\ wsMode' = FALSE
            /\ relay' = [relay EXCEPT !.stuck = @ \/ relay.pc = "put"]
       ELSE UNCHANGED <<play, busy, wsMode, relay>>
    /\ UNCHANGED <<stop, gen, queue, ringVars, dl, frames, framesDone, codec, ws,
                   serverVars, noteVars>>

PlayRelease(g) ==
    /\ At(g, "release") /\ task' = [task EXCEPT ![g] = NoTask]
    /\ codec' = Release(codec)
    /\ UNCHANGED <<chainVars, play, queue, ringVars, dl, feedVars, ws, serverVars,
                   noteVars>>

Playback(g) ==
    \/ PlayStart(g) \/ PlayStop(g) \/ PlayTop(g) \/ PlaySlot(g) \/ PlayFeed(g)
    \/ PlayFlush(g) \/ PlayDone(g) \/ PlayRelease(g)

-----------------------------------------------------------------------------
(* The download task *)

Put(w) == ring' = Append(ring, [gen |-> w.gen, late |-> w.late])

\* dl_exit: the end is reported to the session it worked for.
DlExit ==
    /\ dl' = NoDownload
    /\ done' = (done \/ dl.gen = gen)

\* The generation is not looked at.
DlReceive_Mutant ==
    /\ dl.pc = "net" /\ dl.left > 0 /\ UNCHANGED done
    /\ \/ HasRoom /\ dl' = [dl EXCEPT !.left = @ - 1] /\ Put(dl)
       \/ ~HasRoom /\ dl' = [dl EXCEPT !.pc = "put"] /\ UNCHANGED ring

\* Data arrives.  rb_put throws it away when it is of an earlier session, writes it,
\* or waits for room.
DlReceive ==
    /\ dl.pc = "net" /\ dl.left > 0 /\ UNCHANGED done
    /\ \/ dl.gen # gen /\ dl' = [dl EXCEPT !.left = @ - 1] /\ UNCHANGED ring
       \/ dl.gen = gen /\ HasRoom /\ dl' = [dl EXCEPT !.left = @ - 1] /\ Put(dl)
       \/ dl.gen = gen /\ ~HasRoom /\ dl' = [dl EXCEPT !.pc = "put"] /\ UNCHANGED ring

\* The ring is written whether there is room or not.
DlPut_Mutant ==
    /\ dl.pc = "put" /\ Put(dl) /\ UNCHANGED done
    /\ dl' = [dl EXCEPT !.pc = "net", !.left = @ - 1, !.late = FALSE]

\* Having looked at the session, rb_put goes on as soon as there is room.
DlPut ==
    /\ dl.pc = "put" /\ HasRoom /\ Put(dl) /\ UNCHANGED done
    /\ dl' = [dl EXCEPT !.pc = "net", !.left = @ - 1, !.late = FALSE]

\* The transfer is over, refused by the stop request, or has failed twice.  The
\* second attempt fetches the whole sentence again.
DlEnd ==
    /\ dl.pc = "net" /\ UNCHANGED ring
    /\ \/ (dl.left = 0 \/ stop \/ dl.try = 2) /\ DlExit
       \/ /\ ~stop /\ dl.try = 1 /\ UNCHANGED done
          /\ dl' = [dl EXCEPT !.try = 2, !.left = SentenceBlocks]

\* No room for 120 s: nobody empties the ring.
DlGiveUp ==
    /\ dl.pc = "put" /\ ~HasRoom /\ play = 0 /\ ~busy
    /\ dl' = NoDownload /\ done' = TRUE /\ UNCHANGED ring

Download ==
    /\ DlReceive \/ DlPut \/ DlEnd \/ DlGiveUp
    /\ UNCHANGED <<chainVars, playVars, queue, feedVars, codec, ws, serverVars, noteVars>>

-----------------------------------------------------------------------------
(* The relay task *)

\* What the relay takes off the queue at once.
Load == IF frames < RelayBlocks THEN frames ELSE RelayBlocks

\* A load is taken off the queue before rb_put looks at the session it is offered
\* to: another one's is thrown away.
RelayTake ==
    /\ relay.pc = "look" /\ ~stop /\ frames > 0
    /\ frames' = frames - Load
    /\ relay' = IF relay.gen = gen THEN [relay EXCEPT !.pc = "put", !.left = Load] ELSE relay
    /\ UNCHANGED ringVars

\* rb_put writes the load as there is room for it, and does not look again.
RelayPut ==
    /\ relay.pc = "put" /\ HasRoom /\ Put(relay) /\ UNCHANGED <<done, frames>>
    /\ relay' = IF relay.left = 1
                THEN [relay EXCEPT !.pc = "look", !.left = 0, !.late = FALSE]
                ELSE [relay EXCEPT !.left = @ - 1]

RelayExit ==
    /\ RelayLeaves
    /\ relay' = NoRelay /\ UNCHANGED <<ringVars, frames>>

RelayGiveUp ==
    /\ relay.pc = "put" /\ ~HasRoom /\ play = 0 /\ ~busy
    /\ relay' = NoRelay /\ done' = TRUE /\ UNCHANGED <<ring, frames>>

Relay ==
    /\ RelayTake \/ RelayPut \/ RelayExit \/ RelayGiveUp
    /\ UNCHANGED <<chainVars, playVars, queue, dl, framesDone, codec, ws, serverVars,
                   noteVars>>

-----------------------------------------------------------------------------
(* The WebSocket task: one event after the other *)

\* tts_client_ws_start, once no chain is in the way.  A relay that still exists,
\* r, is kept as it is.
StartStream(r) ==
    /\ TakeOver(TRUE) /\ HandOver(FALSE)
    /\ frames' = 0 /\ framesDone' = FALSE
    /\ relay' = IF r.pc = "none"
                THEN [pc |-> "look", gen |-> gen + 1, left |-> 0, late |-> FALSE, stuck |-> FALSE]
                ELSE [r EXCEPT !.late = r.pc = "put"]
    /\ seen' = TRUE /\ ws' = "idle"
    /\ UNCHANGED <<queue, codec, leftover, stranded>>

\* The server begins to answer and streams: audio_start.
AudioStart ==
    /\ ws = "idle" /\ link /\ reply = "none" /\ asked > 0 /\ talks < MaxTalks
    /\ asked' = asked - 1 /\ talks' = talks + 1 /\ reply' = "audio" /\ sent' = 0
    /\ IF busy \/ play # 0
       THEN /\ stop' = TRUE /\ ws' = "wait" /\ stranded' = stranded \cup Queued
            /\ UNCHANGED <<busy, gen, wsMode, playVars, queue, ringVars, dl, feedVars,
                           codec, seen, leftover>>
       ELSE RelayRests /\ StartStream(relay)
    /\ UNCHANGED <<news, link, upsets>>

\* The chain under way is stopped and not waited for.
Waited_Mutant ==
    /\ ws = "wait" /\ ws' = "reset"
    /\ UNCHANGED <<chainVars, playVars, queue, ringVars, dl, feedVars, codec,
                   serverVars, noteVars>>

\* _interrupt_chain has waited: the chain is gone, or its task is to be deleted.
Waited ==
    /\ ws = "wait"
    /\ \/ play = 0 /\ ~busy /\ ws' = "reset"
       \/ Slow /\ ws' = "kill"
    /\ UNCHANGED <<chainVars, playVars, queue, ringVars, dl, feedVars, codec,
                   serverVars, noteVars>>

\* What the deleted task held is kept.
Kill_Mutant ==
    /\ ws = "kill" /\ ws' = "delete" /\ UNCHANGED codec
    /\ UNCHANGED <<chainVars, playVars, queue, ringVars, dl, feedVars, serverVars,
                   noteVars>>

\* What the task holds is released for it; the codec may flush for 320 ms.
Kill ==
    /\ ws = "kill" /\ ws' = "delete" /\ codec' = Release(codec)
    /\ UNCHANGED <<chainVars, playVars, queue, ringVars, dl, feedVars, serverVars,
                   noteVars>>

\* vTaskDelete(s_playback_task): had the task ended meanwhile, the handle is NULL
\* and the caller deletes itself.
Delete ==
    /\ ws = "delete"
    /\ IF play = 0
       THEN ws' = "dead" /\ UNCHANGED <<busy, wsMode, playVars>>
       ELSE /\ ws' = "reset" /\ busy' = FALSE /\ wsMode' = FALSE
            /\ play' = 0 /\ task' = [task EXCEPT ![play] = NoTask]
    /\ UNCHANGED <<stop, gen, queue, ringVars, dl, feedVars, codec, serverVars, noteVars>>

\* The relay of the stream before is left running.
Reset_Mutant ==
    /\ ws = "reset" /\ StartStream(relay) /\ UNCHANGED serverVars

\* The relay is deleted wherever it is, and the stream begins.
Reset ==
    /\ ws = "reset" /\ StartStream(NoRelay) /\ UNCHANGED serverVars

\* tts_client_ws_feed: into the queue while there is a relay, else into the ring.  A
\* frame there is no room for is dropped.
Frame ==
    /\ ws = "idle" /\ link /\ reply = "audio" /\ sent < MaxFrames
    /\ sent' = sent + 1
    /\ \/ IsWsActive /\ relay.pc # "none" /\ UNCHANGED ring
          /\ frames' = IF frames < WsQueueBlocks THEN frames + 1 ELSE frames
       \/ /\ IsWsActive /\ relay.pc = "none" /\ UNCHANGED frames
          /\ ring' = IF HasRoom THEN Append(ring, [gen |-> gen, late |-> FALSE]) ELSE ring
       \/ ~IsWsActive /\ UNCHANGED <<frames, ring>>
    /\ UNCHANGED <<chainVars, playVars, queue, done, dl, framesDone, relay, codec, ws,
                   asked, reply, talks, news, link, upsets, noteVars>>

\* tts_client_ws_end
EndStream ==
    IF IsWsActive
    THEN framesDone' = TRUE /\ done' = TRUE
    ELSE UNCHANGED <<framesDone, done>>

AudioEnd ==
    /\ ws = "idle" /\ link /\ reply = "audio" /\ reply' = "ended" /\ sent' = 0
    /\ EndStream
    /\ UNCHANGED <<chainVars, playVars, queue, ring, dl, frames, relay, codec, ws,
                   asked, talks, news, link, upsets, noteVars>>

\* chat_done: after a stream, or alone when the server's speech synthesis failed.
\* Its text may hold nothing to be said.
ChatDone ==
    /\ ws = "idle" /\ link /\ ws' = "chat" /\ news' = TRUE
    /\ \/ reply = "ended" /\ UNCHANGED <<asked, talks>>
       \/ /\ reply = "none" /\ asked > 0 /\ talks < MaxTalks
          /\ asked' = asked - 1 /\ talks' = talks + 1
    /\ \/ reply' = (IF reply = "none" THEN "bare" ELSE reply) /\ UNCHANGED upsets
       \/ reply' = "hush" /\ upsets < MaxUpsets /\ upsets' = upsets + 1
    /\ UNCHANGED <<chainVars, playVars, queue, ringVars, dl, feedVars, codec, sent,
                   link, noteVars>>

\* The flag of a stream is read and not cleared.
Say_Mutant ==
    /\ ws = "chat" /\ reply' = "none" /\ UNCHANGED <<seen, leftover>>
    /\ IF reply = "hush" \/ seen
       THEN ws' = "idle" /\ UNCHANGED queue
       ELSE /\ ws' = "start"
            /\ queue' = IF Len(queue) < QueueLen THEN Append(queue, talks) ELSE queue
    /\ UNCHANGED <<chainVars, playVars, ringVars, dl, feedVars, codec, stranded,
                   asked, sent, talks, news, link, upsets>>

\* The memory and the log are written, then ws_audio_stream_take_seen decides
\* whether the text is to be spoken; with nothing to be said it is not called.  A full
\* queue drops the text.
Say ==
    /\ ws = "chat" /\ reply' = "none"
    /\ \/ reply = "hush" /\ leftover' = (leftover \/ seen) /\ UNCHANGED seen
       \/ reply # "hush" /\ seen' = FALSE /\ leftover' = FALSE
    /\ IF reply = "hush" \/ seen
       THEN ws' = "idle" /\ UNCHANGED queue
       ELSE /\ ws' = "start"
            /\ queue' = IF Len(queue) < QueueLen THEN Append(queue, talks) ELSE queue
    /\ UNCHANGED <<chainVars, playVars, ringVars, dl, feedVars, codec, stranded,
                   asked, sent, talks, news, link, upsets>>

\* The chain under way will not take another sentence: it is streamed, or it has
\* left its loop.
PastTaking == wsMode \/ stop \/ (play # 0 /\ task[play].pc \in {"flush", "done"})

\* tts_speak_queue, second half: an idle speech output gets a chain, of a busy one
\* it is expected that it takes the sentence.
Speak ==
    /\ ws = "start" /\ ws' = "idle"
    /\ IF busy
       THEN /\ stranded' = stranded \cup
                    (IF PastTaking THEN Queued ELSE {})
            /\ UNCHANGED <<chainVars, playVars, ringVars, dl, relay>>
       ELSE /\ RelayRests /\ TakeOver(FALSE) /\ HandOver(TRUE)
            /\ relay' = [relay EXCEPT !.late = relay.pc = "put"]
            /\ stranded' = stranded \ Queued
    /\ UNCHANGED <<queue, frames, framesDone, codec, serverVars, seen, leftover>>

\* WEBSOCKET_EVENT_DISCONNECTED: no audio_end will come any more.  The answers to
\* what was asked go to the connection that is lost.
Disconnect ==
    /\ ws = "idle" /\ link /\ upsets < MaxUpsets
    /\ link' = FALSE /\ upsets' = upsets + 1
    /\ asked' = 0 /\ reply' = "none" /\ sent' = 0 /\ leftover' = (leftover \/ seen)
    /\ EndStream
    /\ UNCHANGED <<chainVars, playVars, queue, ring, dl, frames, relay, codec, ws,
                   talks, news, seen, stranded>>

Reconnect ==
    /\ ws = "idle" /\ ~link /\ link' = TRUE
    /\ UNCHANGED <<chainVars, playVars, queue, ringVars, dl, feedVars, codec, ws,
                   asked, reply, sent, talks, news, upsets, noteVars>>

WsStep == Waited \/ Kill \/ Delete \/ Reset \/ Say \/ Speak

Event == AudioStart \/ Frame \/ AudioEnd \/ ChatDone \/ Disconnect \/ Reconnect

-----------------------------------------------------------------------------

TtsInit ==
    /\ busy = FALSE /\ stop = FALSE /\ gen = 0 /\ wsMode = FALSE
    /\ play = 0 /\ task = [g \in Sessions |-> NoTask]
    /\ queue = <<>> /\ ring = <<>> /\ done = FALSE /\ dl = NoDownload
    /\ frames = 0 /\ framesDone = FALSE /\ relay = NoRelay /\ codec = Stopped
    /\ ws = "idle" /\ link = TRUE /\ seen = FALSE
    /\ asked = 0 /\ reply = "none" /\ sent = 0 /\ talks = 0 /\ news = FALSE
    /\ upsets = 0 /\ leftover = FALSE /\ stranded = {}

TtsNext == WsStep \/ Event \/ Download \/ Relay \/ \E g \in Sessions : Playback(g)

\* What goes on by itself: the tasks run; the server goes on with an answer it has
\* begun, and sends the end of a stream whatever happens to its speech synthesis.
TtsGoesOn ==
    \/ WsStep \/ Download \/ Relay \/ \E g \in Sessions : Playback(g)
    \/ AudioEnd
    \/ reply = "ended" /\ ChatDone

=============================================================================
