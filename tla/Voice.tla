------------------------------- MODULE Voice -------------------------------
(***************************************************************************)
(* The voice session (src/main/ai/session_mgr.c) and the sampling of the   *)
(* noise (src/main/services/noise_detector.c) beside the speech output,    *)
(* and the codec they share.                                               *)
(*                                                                         *)
(* A session stops what is being spoken, for at most 600 ms, holds the     *)
(* receiver, and then listens, sends what was said and waits for the       *)
(* answer to be spoken, until nothing more is said.  Loudness thresholds,  *)
(* recording and recognition are the choice between speech, no speech and  *)
(* a failed recognition.                                                   *)
(***************************************************************************)
EXTENDS TtsClient

VARIABLES
    sess,       \* where the session task is; s_state is SESS_IDLE in "idle" and "stop"
    noise,      \* where the noise detector is; "blind" is a sampling that may be deaf
    deaf        \* history: the session held the receiver beside a player

micVars == <<noise, deaf>>
sessVars == <<sess, micVars>>
vars == <<ttsVars, sessVars>>

\* What a stop of the speech leaves alone, what a user of the codec leaves alone.
stopLess == <<busy, gen, wsMode, playVars, ringVars, dl, frames, framesDone, codec, ws,
              asked, reply, sent, talks, news, link, noteVars>>
codecLess == <<chainVars, playVars, queue, ringVars, dl, feedVars, ws, serverVars,
               noteVars>>

-----------------------------------------------------------------------------

\* session_mgr_enter wakes the task, which begins with stop_tts_and_silence.  The
\* button has a cool-down of 10 s, longer than it takes from here to listening.
Press ==
    /\ sess = "idle" /\ sess' = "stop"
    /\ upsets < MaxUpsets /\ upsets' = upsets + 1
    /\ TtsStop /\ UNCHANGED <<stopLess, micVars>>

\* The speech output is idle, or 600 ms are over.
Open ==
    /\ sess = "stop" /\ (~busy \/ Slow)
    /\ sess' = "listen" /\ codec' = HoldRx(codec)
    /\ deaf' = (codec.full > 0 \/ noise = "blind")
    /\ UNCHANGED <<codecLess, noise>>

\* The session is over: s_state is SESS_IDLE, the receiver is released.
End ==
    /\ sess' = "idle" /\ codec' = ReleaseRx(codec) /\ deaf' = FALSE
    /\ UNCHANGED noise

\* An answer that comes late is spoken first.
LateReply ==
    /\ sess = "listen" /\ busy /\ sess' = "drain"
    /\ UNCHANGED <<ttsVars, micVars>>

\* Nothing is said, or what is said is not recognised for the third time, or there
\* is no connection.
Silence ==
    /\ sess = "listen" /\ End /\ UNCHANGED codecLess

\* What is said is recognised and sent.
Speech ==
    /\ sess = "listen" /\ codec.rxOn /\ link /\ asked + talks < MaxTalks
    /\ asked' = asked + 1 /\ news' = FALSE /\ sess' = "wait"
    /\ UNCHANGED <<chainVars, playVars, queue, ringVars, dl, feedVars, codec, ws,
                   reply, sent, talks, link, upsets, noteVars, micVars>>

\* The answer is waited for without a limit.
Answered_Mutant ==
    /\ sess = "wait" /\ (news \/ ~link)
    /\ IF link
       THEN sess' = "drain" /\ UNCHANGED <<codec, micVars>>
       ELSE End
    /\ UNCHANGED codecLess

\* 45 s, the answer or the loss of the connection end the waiting.
Answered ==
    /\ sess = "wait"
    /\ IF link
       THEN sess' = (IF news THEN "drain" ELSE "listen") /\ UNCHANGED <<codec, micVars>>
       ELSE End
    /\ UNCHANGED codecLess

\* wait_playback: for a second until the speech begins, then until it has ended.
Drain ==
    /\ sess = "drain" /\ ~busy /\ sess' = "listen"
    /\ UNCHANGED <<ttsVars, micVars>>

Session == Open \/ LateReply \/ Silence \/ Speech \/ Answered \/ Drain

\* WIFI_EVENT_STA_DISCONNECTED on a link that was up stops the speech.
WifiLost ==
    /\ upsets < MaxUpsets /\ upsets' = upsets + 1
    /\ TtsStop /\ UNCHANGED <<stopLess, sessVars>>

-----------------------------------------------------------------------------
(* The noise detector samples every two seconds *)

\* It looks whether somebody plays or records.
NoiseLook ==
    /\ noise = "idle" /\ play = 0 /\ sess # "listen"
    /\ upsets < MaxUpsets /\ upsets' = upsets + 1
    /\ noise' = "go"
    /\ UNCHANGED <<chainVars, playVars, queue, ringVars, dl, feedVars, codec, ws, asked,
                   reply, sent, talks, news, link, noteVars, sess, deaf>>

\* It holds the receiver and does not look again.
NoiseHold ==
    /\ noise = "go" /\ codec' = HoldRx(codec)
    /\ noise' = IF codec.full > 0 \/ deaf THEN "blind" ELSE "sample"
    /\ UNCHANGED <<codecLess, sess, deaf>>

\* All frames are read, reading fails, or somebody plays or records.
NoiseRelease ==
    /\ noise \in {"sample", "blind"} /\ noise' = "idle"
    /\ codec' = ReleaseRx(codec)
    /\ UNCHANGED <<codecLess, sess, deaf>>

Noise == NoiseLook \/ NoiseHold \/ NoiseRelease

-----------------------------------------------------------------------------

Init ==
    /\ TtsInit
    /\ sess = "idle" /\ noise = "idle" /\ deaf = FALSE

Next ==
    \/ TtsNext /\ UNCHANGED sessVars
    \/ Press \/ Session \/ WifiLost \/ Noise

\* No task is kept from running for ever.  The numbers of chats, frames and upsets are
\* bounded, and no task moves in circles: it is enough that some task runs.
GoesOn == (TtsGoesOn /\ UNCHANGED sessVars) \/ Session

Fairness == WF_vars(GoesOn)

Spec == Init /\ [][Next]_vars /\ Fairness

ChainTypes ==
    /\ busy \in BOOLEAN /\ stop \in BOOLEAN /\ wsMode \in BOOLEAN
    /\ gen \in 0 .. MaxTalks /\ play \in 0 .. MaxTalks
    /\ task \in [Sessions -> [pc : TaskStates, heard : BOOLEAN]]
    /\ queue \in Seq(Sessions) /\ Len(queue) <= QueueLen
RingTypes ==
    /\ ring \in Seq(Block) /\ Len(ring) <= RingBlocks /\ done \in BOOLEAN
    /\ dl \in [pc : {"none", "net", "put"}, gen : 0 .. MaxTalks, try : 0 .. 2,
               left : 0 .. SentenceBlocks, late : BOOLEAN]
    /\ frames \in 0 .. WsQueueBlocks /\ framesDone \in BOOLEAN
    /\ relay \in [pc : {"none", "look", "put"}, gen : 0 .. MaxTalks,
                  left : 0 .. RelayBlocks, late : BOOLEAN, stuck : BOOLEAN]
ServerTypes ==
    /\ ws \in {"idle", "wait", "kill", "delete", "reset", "dead", "chat", "start"}
    /\ link \in BOOLEAN /\ news \in BOOLEAN /\ seen \in BOOLEAN /\ leftover \in BOOLEAN
    /\ reply \in {"none", "audio", "ended", "bare", "hush"}
    /\ asked \in 0 .. MaxTalks /\ talks \in 0 .. MaxTalks /\ asked + talks <= MaxTalks
    /\ sent \in 0 .. MaxFrames /\ upsets \in 0 .. MaxUpsets /\ stranded \subseteq Sessions
SessionTypes ==
    /\ codec \in Codec /\ deaf \in BOOLEAN
    /\ sess \in {"idle", "stop", "listen", "wait", "drain"}
    /\ noise \in {"idle", "go", "sample", "blind"}

TypeOK == ChainTypes /\ RingTypes /\ ServerTypes /\ SessionTypes

-----------------------------------------------------------------------------
(* Safety *)

Loop == {"top", "slot", "feed"}
Holding == Loop \cup {"flush", "done", "release"}

(***************************************************************************)
(* The ring is emptied by one playback task at a time (its indices have no *)
(* lock): a chain that is interrupted, waited for and deleted has stopped  *)
(* reading before the next one begins.                                     *)
(***************************************************************************)
OneVoice == Cardinality({g \in Sessions : task[g].pc \in Loop}) <= 1

(***************************************************************************)
(* The codec's counts are the tasks that use it: neither a session, nor a  *)
(* sampling, nor an interrupted or deleted playback task leaves the clocks *)
(* running, or stops them under another user.  Excepted is a caller that   *)
(* is about to delete a task, or has by then deleted itself.  The receiver *)
(* is on for a session, but for one that opened while speech held the      *)
(* codec, or while a sampling did that began beside speech or beside such  *)
(* a session: only the first user enables it.                              *)
(***************************************************************************)
CodecFollows ==
    ws \notin {"delete", "dead"} =>
        /\ codec.full = Cardinality({g \in Sessions : task[g].pc \in Holding})
        /\ codec.rx = (IF sess \in {"idle", "stop"} THEN 0 ELSE 1)
                       + (IF noise \in {"sample", "blind"} THEN 1 ELSE 0)
        /\ codec.txOn = ~Unused(codec)
        /\ sess \notin {"idle", "stop"} => codec.rxOn \/ deaf

(***************************************************************************)
(* The generation guards keep the audio of an interrupted session out of   *)
(* the ring of the next one.  They are looked at on entry to rb_put only:  *)
(* excepted is the block whose writer was waiting for room at the time.    *)
(***************************************************************************)
RingIsOurs == \A i \in DOMAIN ring : ring[i].gen = gen \/ ring[i].late

(***************************************************************************)
(* A stream's frames are carried into the ring, not thrown away as those   *)
(* of an earlier session: the relay is the stream's own.  Excepted is a    *)
(* relay that was waiting for room when the speech was stopped or came to  *)
(* its end: it sees neither, outlives its stream and is taken for the next *)
(* one's.                                                                  *)
(***************************************************************************)
FramesReachRing ==
    IsWsActive /\ ws \notin {"wait", "kill", "delete"} /\ relay.pc # "none" =>
        relay.gen = gen \/ relay.stuck

(***************************************************************************)
(* A stream that ended without being stopped has been played: the queue is *)
(* empty, and of what the relay took from it, what is not yet in the ring  *)
(* or left there when playback ends is at most one load.  The relay takes  *)
(* a load off the queue before it is in the ring, and playback sees both   *)
(* empty meanwhile.  (A frame that finds the queue full is never in it.)   *)
(***************************************************************************)
AtMostOneLoadLost ==
    \A g \in Sessions :
        /\ g = gen /\ task[g].pc \in {"flush", "done"} /\ wsMode /\ ~stop
        => /\ frames = 0
           /\ LET left == {i \in DOMAIN ring : ring[i].gen = g}
              IN  Cardinality(left) + relay.left <= RelayBlocks

-----------------------------------------------------------------------------
(* Steps and progress *)

(***************************************************************************)
(* A reply that came without a stream is given to the speech output by     *)
(* chat_done.  Excepted is one after a stream whose own chat_done was lost *)
(* with the connection, or held nothing to be said and so did not take the *)
(* flag: it finds the flag of that stream.                                 *)
(***************************************************************************)
FallbackSpoken ==
    [][ws = "chat" /\ reply = "bare" /\ ws' # ws => ws' = "start" \/ leftover]_vars

(***************************************************************************)
(* A queued sentence is taken by a chain or dropped by a stop; it does not *)
(* stay behind.  Excepted are those queued behind a chain that will not    *)
(* look at the queue again, or interrupted by a stream.                    *)
(***************************************************************************)
SentenceTaken ==
    (Queued \ stranded # {}) ~> (Queued \subseteq stranded)

(***************************************************************************)
(* A session comes to its end: whatever is lost, deleted or late, it is    *)
(* left waiting neither for an answer nor for the end of the speech.       *)
(***************************************************************************)
SessionEnds == (sess # "idle") ~> (sess = "idle")

=============================================================================
