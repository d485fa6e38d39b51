---------------------------- MODULE AgentPlayer ----------------------------
(***************************************************************************)
(* The application callbacks of ai_agent.c composed with the playback      *)
(* engine of ai_audio.c.  The transport's receive thread R runs           *)
(* __ai_agent_event_recv, __ai_agent_audio_recv and the callbacks they     *)
(* call (__ai_audio_agent_event_cb, __ai_audio_agent_msg_cb), which call   *)
(* the player API of AudioPlayer while its task and stall timer run.      *)
(*                                                                         *)
(* A callback that calls more than one API function, or reads is_playing  *)
(* without the mutex and then acts on it, is split where the mutex is     *)
(* released: apc says which call R makes next.  The cloud opens events in *)
(* turn and delivers the packets of its current event: an AUDIO_START,    *)
(* AUDIO_DATA and an END, and a chat break at any point, also before      *)
(* audio it had already sent (barge-in while packets are in flight).  The *)
(* AUDIO_START payload of event k is the id k.  The IoT thread A runs    *)
(* user_event_handler_on: on the first MQTT connection it initialises the *)
(* AI client and plays the network-connected alert, a second writer; the  *)
(* cloud sends nothing before that connection.                            *)
(***************************************************************************)
EXTENDS AudioPlayer

CONSTANTS
  R,             \* the transport's receive thread
  A,             \* the IoT thread (tuya_iot_yield's event handler)
  AlertLen,      \* units of the network-connected alert MP3
  NoReply,       \* the empty sg_ai.stream_event_id
  MaxPkts        \* bound: packets delivered

ASSUME /\ R \in Writers /\ A \in Writers \ {R} /\ WriterIds[A] # {}
       /\ NoReply \notin Ids /\ MaxPkts \in Nat /\ AlertLen \in 1..MaxLen

\* The events of the cloud; WriterIds[R] may add NULL and BadId, the ids
\* R's event_id copy can be besides the event's own.
Replies == WriterIds[R] \ {NULL, BadId}

VARIABLES
  apc,           \* R's next call: "idle" (waits for a packet), "stop" and
                 \* "start" (inside AUDIO_START), "bstop" (inside a break),
                 \* "eof" (AUDIO_STOP after the END packet's data)
  sev,           \* sg_ai.stream_event_id
  cur,           \* the cloud's current event, NoReply before the first
  used,          \* events the cloud has opened
  audio,         \* audio stage of the current event: "none", "on", "off"
  broken,        \* events whose chat break callback has returned
  epId,          \* ghost: the id each playback session was started with
  nPkts,
  ipc            \* A: "connect" (before the first MQTT connection), "write"
                 \* (inside play_alert, after its start), "done"

agentVars == <<apc, sev, cur, used, audio, broken, epId, nPkts, ipc>>
allVars == <<vars, agentVars>>

AgentInit ==
  /\ Init
  /\ apc = "idle" /\ sev = NoReply /\ cur = NoReply /\ used = {}
  /\ audio = "none" /\ broken = {}
  /\ epId = [k \in 0..MaxStarts |-> NoReply] /\ nPkts = 0
  /\ ipc = "connect"

\* R takes the next packet: the AI client is up, R is idle, and not inside
\* a player call.
Deliver ==
  /\ ipc # "connect" /\ apc = "idle" /\ cpc[R] = "idle" /\ nPkts < MaxPkts
  /\ nPkts' = nPkts + 1

\* ai_audio_player_data_write's checks, which R's call passes.
WriteAccepted ==
  stat \in {START, PLAY} /\ cid[R] \in WriterIds[R] /\ CompareId(cid[R], id)

\* ai_audio_player_stop as the callbacks call it: the full stop when a
\* session is on, else the early return under the mutex.
AppStopCall ==
  \/ Stop(R)
  \/ ~is_playing /\ UNCHANGED vars

-----------------------------------------------------------------------------
(* Packets and the callbacks they run.                                     *)

\* AI_EVENT_START of event k: the stream id is recorded; the event
\* callback ignores START.
RecvEventStart(k) ==
  /\ Deliver /\ k \notin used
  /\ cur' = k /\ used' = used \cup {k} /\ audio' = "none" /\ sev' = k
  /\ UNCHANGED <<apc, broken, epId, ipc>> /\ UNCHANGED vars

\* Fault variant: a matched break copies the message callback's event_id
\* into the stream id instead of clearing it.
RecvBreakCopyId ==
  /\ Deliver /\ cur # NoReply
  /\ IF sev = cur
       THEN /\ sev' = cid[R]
            /\ IF is_playing THEN apc' = "bstop" /\ UNCHANGED broken
                             ELSE broken' = broken \cup {cur} /\ UNCHANGED apc
       ELSE UNCHANGED <<sev, apc, broken>>
  /\ UNCHANGED <<cur, used, audio, epId, ipc>> /\ UNCHANGED vars

\* CHAT_BREAK of the current event: ignored unless it is the recorded
\* stream id, which it then clears; __ai_audio_agent_event_cb reads
\* is_playing without the mutex and calls stop when it saw true.
RecvBreak ==
  /\ Deliver /\ cur # NoReply
  /\ IF sev = cur
       THEN /\ sev' = NoReply
            /\ IF is_playing THEN apc' = "bstop" /\ UNCHANGED broken
                             ELSE broken' = broken \cup {cur} /\ UNCHANGED apc
       ELSE UNCHANGED <<sev, apc, broken>>
  /\ UNCHANGED <<cur, used, audio, epId, ipc>> /\ UNCHANGED vars

\* The break callback's stop; the callback then returns.
AppBreakStop ==
  /\ apc = "bstop" /\ AppStopCall
  /\ apc' = "idle" /\ broken' = broken \cup {cur}
  /\ UNCHANGED <<sev, cur, used, audio, epId, nPkts, ipc>>

\* Flag START: AUDIO_START.  __ai_audio_agent_msg_cb reads is_playing
\* without the mutex: stop first when it saw true.
RecvAudioStart ==
  /\ Deliver /\ cur # NoReply /\ audio = "none"
  /\ audio' = "on"
  /\ apc' = IF is_playing THEN "stop" ELSE "start"
  /\ UNCHANGED <<sev, cur, used, broken, epId, ipc>> /\ UNCHANGED vars

\* Fault variant: the message callback does not stop a playing session.
AppAudioStopFirstSkip ==
  /\ apc = "stop" /\ apc' = "start" /\ UNCHANGED vars
  /\ UNCHANGED <<sev, cur, used, audio, broken, epId, nPkts, ipc>>

\* The stop of AUDIO_START.
AppAudioStopFirst ==
  /\ apc = "stop" /\ AppStopCall /\ apc' = "start"
  /\ UNCHANGED <<sev, cur, used, audio, broken, epId, nPkts, ipc>>

\* The event_id copy of the payload and ai_audio_player_start(event_id):
\* the copy is the event's id, NULL when its malloc fails, or an id start
\* rejects when the payload is empty or longer than 256 bytes.
AppAudioStart ==
  /\ apc = "start"
  /\ \E x \in {cur} \cup (WriterIds[R] \cap {NULL, BadId}) : Start(R, x)
  /\ apc' = "idle"
  /\ epId' = IF epoch' # epoch THEN [epId EXCEPT ![epoch'] = cur] ELSE epId
  /\ UNCHANGED <<sev, cur, used, audio, broken, nPkts, ipc>>

\* Flag ING or END with len units: AUDIO_DATA, a write under event_id
\* (refused without effect when the checks fail); END then AUDIO_STOP.
RecvAudioData(len, end) ==
  /\ Deliver /\ cur # NoReply /\ audio = "on"
  /\ cn[R] + len <= MaxUnits
  /\ IF len > 0
       THEN IF WriteAccepted THEN Write(R, len, 0) ELSE UNCHANGED vars
       ELSE UNCHANGED vars
  /\ IF end THEN audio' = "off" /\ apc' = "eof" ELSE UNCHANGED <<audio, apc>>
  /\ UNCHANGED <<sev, cur, used, broken, epId, ipc>>

\* AUDIO_STOP: an eof write of no data, then event_id is freed.
AppAudioEof ==
  /\ apc = "eof" /\ cpc[R] = "idle"
  /\ IF WriteAccepted THEN is_eof' = 1 /\ eofEp' = epoch
                      ELSE UNCHANGED <<is_eof, eofEp>>
  /\ cid' = [cid EXCEPT ![R] = NULL]
  /\ apc' = "idle"
  /\ UNCHANGED <<stat, is_playing, is_writing, id, rb, raw, decAlloc, timerOn,
                 sleepMs, cpc, cn, crem, ceof, cep, epoch, out, played, stopEp,
                 stopped, nStarts, nStops>>
  /\ UNCHANGED <<sev, cur, used, audio, broken, epId, nPkts, ipc>>

-----------------------------------------------------------------------------
(* The IoT thread: user_event_handler_on and play_alert.                   *)

\* The head of ai_audio_player_play_alert: the type is in range and
\* "alert_%d" fits alert_id, so it calls ai_audio_player_start(alert_id).
PlayAlertStart(x) ==
  /\ Start(A, x)
  /\ epId' = IF epoch' # epoch THEN [epId EXCEPT ![epoch'] = x] ELSE epId

\* TUYA_EVENT_MQTT_CONNECTED while the static first is set: the event is
\* published (__ai_agent_init starts the AI client), then play_alert.
MqttConnected ==
  /\ ipc = "connect"
  /\ \E x \in WriterIds[A] : PlayAlertStart(x)
  /\ ipc' = "write"
  /\ UNCHANGED <<apc, sev, cur, used, audio, broken, nPkts>>

\* The rest of play_alert: the alert MP3 in one data_write with is_eof = 1,
\* refused when a reply's AUDIO_START has stopped the alert in between.
AlertWrite ==
  /\ ipc = "write" /\ cpc[A] = "idle"
  /\ IF stat \in {START, PLAY} /\ CompareId(cid[A], id)
       THEN Write(A, AlertLen, 1) ELSE UNCHANGED vars
  /\ ipc' = "done"
  /\ UNCHANGED <<apc, sev, cur, used, audio, broken, epId, nPkts>>

-----------------------------------------------------------------------------

\* The receive thread continuing inside a callback.
Callback == AppBreakStop \/ AppAudioStopFirst \/ AppAudioStart \/ AppAudioEof

\* The player's own threads, and R waking inside a player call.
TaskStep == Task /\ UNCHANGED agentVars
TimerStep == TimerFire /\ UNCHANGED agentVars
WakeStep ==
  (\E c \in {R, A} : WriteWake(c) \/ StopWake(c)) /\ UNCHANGED agentVars
PlayerStep == TaskStep \/ TimerStep \/ WakeStep

AgentNext ==
  \/ PlayerStep
  \/ Callback
  \/ MqttConnected \/ AlertWrite
  \/ \E k \in Replies : RecvEventStart(k)
  \/ RecvBreak
  \/ RecvAudioStart
  \/ \E len \in 0..MaxLen, end \in BOOLEAN : RecvAudioData(len, end)

\* The task, R inside a callback and A inside play_alert all keep running;
\* the stall timer (restarted on every empty PLAY cycle), the MQTT
\* connection and packets are not assumed to happen.
AgentFairness ==
  /\ WF_allVars(TaskStep) /\ WF_allVars(WakeStep)
  /\ WF_allVars(Callback) /\ WF_allVars(AlertWrite)

AgentSpec == AgentInit /\ [][AgentNext]_allVars
AgentFairSpec == AgentSpec /\ AgentFairness

-----------------------------------------------------------------------------
(* Properties.                                                             *)

AgentTypeOK ==
  /\ TypeOK
  /\ apc \in {"idle", "stop", "start", "bstop", "eof"}
  /\ sev \in Replies \cup {NoReply} /\ cur \in Replies \cup {NoReply}
  /\ used \subseteq Replies /\ audio \in {"none", "on", "off"}
  /\ broken \subseteq used
  /\ epId \in [0..MaxStarts -> Ids \cup {NoReply}]
  /\ nPkts \in 0..MaxPkts /\ ipc \in {"connect", "write", "done"}

\* AUDIO_START takes effect: when __ai_audio_agent_msg_cb's start returns
\* with an id start accepts (the event's, or NULL after a failed copy), the
\* player is in a new session whose id the reply's writes match, although
\* the callback decided to stop on an is_playing it read without the mutex
\* and the task or the stall timer may have ended the old session since.
StartTakesEffect ==
  [][apc = "start" /\ apc' = "idle" /\ cid'[R] # BadId
        => is_playing' /\ epoch' # epoch /\ CompareId(cid'[R], id')]_allVars

\* The receive thread is never stuck in the player: a callback that
\* blocks in a write on a full ring buffer or in stop's wait for
\* is_writing returns, so later packets are delivered.
ReceiverReturns ==
  (apc # "idle" \/ cpc[R] # "idle") ~> (apc = "idle" /\ cpc[R] = "idle")

\* Barge-in (spec.md: a chat break interrupts the reply): once the break
\* callback of an event has returned, no frame of that event's reply is
\* sent to ALSA any more.
NoAudioAfterBreak ==
  [][played' # played => epId[out'.ep] \notin broken]_allVars

\* A reply is ended by its own end of stream: when the task's PLAY case
\* finishes a session on an empty ring buffer and window with is_eof set
\* (the only step that sets sleep_ms to 10 in PLAY; the timer does not),
\* that is_eof was written in this session, not left over from the alert
\* or the previous reply that AUDIO_START's stop interrupted.
ReplyEndsOnOwnEof ==
  [][stat = PLAY /\ stat' = FINISH /\ sleepMs' = 10 => eofEp = epoch]_allVars
=============================================================================
