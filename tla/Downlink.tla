------------------------------ MODULE Downlink ------------------------------
(***************************************************************************)
(* The downlink path of src/demos/ai_demo: the receive callbacks of        *)
(* ai_agent.c (__ai_agent_event_recv, __ai_agent_txt_recv with its         *)
(* _parse_* helpers, __ai_agent_audio_recv) and the application callbacks  *)
(* they call (__ai_audio_agent_msg_cb, __ai_audio_agent_event_cb), which   *)
(* drive the player API.                                                   *)
(*                                                                         *)
(* All callbacks run on the transport's receive thread, one packet at a    *)
(* time, so one action is the delivery of one packet and every handler it  *)
(* runs.  The cloud is modelled per event: it opens an event, sends text,  *)
(* audio and lifecycle packets of its current event in any order, and may  *)
(* still deliver packets of an event after its chat break (those it sent   *)
(* before it processed the barge-in).  The player is reduced to what the  *)
(* callbacks see of it (AudioPlayer models it in full): start, write and  *)
(* stop under its id rules, and a session that may end on its own (drained *)
(* or stalled).  Audio payloads are abstracted to the id the message       *)
(* callback makes of an AUDIO_START payload: HdrId, a non-empty string, or *)
(* EmptyId, a payload whose strlen is 0.                                   *)
(***************************************************************************)
EXTENDS Naturals, Sequences, FiniteSets

CONSTANTS
  EventIds,      \* event ids the cloud uses
  NoId,          \* the empty stream_event_id
  NULL,          \* a NULL char *
  HdrId,         \* id made of a non-empty AUDIO_START payload
  EmptyId,       \* id made of an AUDIO_START payload of strlen 0
  MaxPkts        \* bound: packets delivered

ASSUME NoId \notin EventIds /\ MaxPkts \in Nat

\* AI_AGENT_CHAT_STREAM_E
SStart == "START"
SData == "DATA"
SStop == "STOP"
SAbort == "ABORT"

\* AI_AGENT_MSG_TYPE_E, the messages handed to ai_agent_msg_cb
MsgTypes == {"ASR", "NLG_START", "NLG_DATA", "NLG_STOP", "AUDIO_START",
             "AUDIO_DATA", "AUDIO_STOP", "EMOTION"}

\* AI_EVENT_TYPE values the dispatcher handles
EvStart == "START"
EvPayloadsEnd == "PAYLOADS_END"
EvEnd == "END"
BreakTypes == {"CHAT_BREAK", "SERVER_VAD"}

Payloads == {HdrId, EmptyId}

VARIABLES
  stream_event_id, \* sg_ai.stream_event_id
  stream_status,   \* sg_ai.stream_status
  event_id,        \* the static event_id of __ai_audio_agent_msg_cb
  plPlaying,       \* sg_player.is_playing
  plId,            \* sg_player.id
  cur,             \* the cloud's current event, NoId before the first
  used,            \* events the cloud has opened
  audio,           \* audio stage of the current event: "none", "on", "off"
  broken,          \* events whose chat break reached the application
  emitted,         \* messages the last delivery handed to the msg callback
  wrote,           \* result of the last write: "none", "ok", "rejected"
  nlgOpen,         \* the application has seen NLG_START and no NLG_STOP
  nPkts            \* packets delivered

vars == <<stream_event_id, stream_status, event_id, plPlaying, plId, cur, used,
          audio, broken, emitted, wrote, nlgOpen, nPkts>>

dispatcherVars == <<stream_event_id, stream_status>>
playerVars == <<event_id, plPlaying, plId>>

\* sg_ai = {0}: an empty stream id and stream_status 0, which is START.
Init ==
  /\ stream_event_id = NoId /\ stream_status = SStart
  /\ event_id = NULL /\ plPlaying = FALSE /\ plId = NULL
  /\ cur = NoId /\ used = {} /\ audio = "none" /\ broken = {}
  /\ emitted = <<>> /\ wrote = "none"
  /\ nlgOpen = FALSE /\ nPkts = 0

\* The message sequence s holds a message m.
Emits(s, m) == \E i \in DOMAIN s : s[i] = m

\* A delivery: counts the packet and replaces the last step's observations.
Deliver == nPkts < MaxPkts /\ cur # NoId /\ nPkts' = nPkts + 1

-----------------------------------------------------------------------------
(* The player API as the callbacks see it (ai_audio.c).                    *)

\* ai_audio_player_stop, called only when ai_audio_player_is_playing().
PlayerStopIfPlaying ==
  IF plPlaying THEN plPlaying' = FALSE /\ plId' = NULL
               ELSE UNCHANGED <<plPlaying, plId>>

\* ai_audio_player_start(x) on a stopped player (the callback stops a
\* playing one first): the old id is freed, then an empty id is rejected.
PlayerStart(x) ==
  IF x = EmptyId THEN plPlaying' = FALSE /\ plId' = NULL
                 ELSE plPlaying' = TRUE /\ plId' = x

\* ai_audio_player_data_write(x, ...): rejected unless a session is on and
\* x matches its id (two NULLs match).
WriteResult(x) == IF plPlaying /\ x = plId THEN "ok" ELSE "rejected"

-----------------------------------------------------------------------------
(* The application callbacks of ai_agent.c (ai_audio_init registers them). *)

\* __ai_audio_agent_msg_cb, AUDIO_START: stop a playing session, copy the
\* payload into event_id (malloc may fail, leaving NULL) and start on it.
AppAudioStart(x) ==
  /\ \E e \in {x, NULL} : event_id' = e /\ PlayerStart(e)
  /\ wrote' = "none"

\* AUDIO_DATA: write under event_id.  AUDIO_STOP: write with eof, free
\* event_id.
AppAudioData == wrote' = WriteResult(event_id)
                /\ UNCHANGED <<event_id, plPlaying, plId>>
AppAudioStop == wrote' = WriteResult(event_id) /\ event_id' = NULL
                /\ UNCHANGED <<plPlaying, plId>>

-----------------------------------------------------------------------------
(* Packet deliveries.                                                      *)

\* The cloud opens event e: __ai_agent_event_recv records e as the stream
\* id and resets stream_status; the event callback ignores START.
RecvEventStart(e) ==
  /\ nPkts < MaxPkts /\ nPkts' = nPkts + 1
  /\ e \notin used
  /\ cur' = e /\ used' = used \cup {e} /\ audio' = "none"
  /\ stream_event_id' = e /\ stream_status' = SStart
  /\ emitted' = <<>> /\ wrote' = "none"
  /\ UNCHANGED <<playerVars, broken, nlgOpen>>

\* PAYLOADS_END and END change nothing but are forwarded (END clears
\* sg_is_chating, which nothing reads).
RecvEventOther(t) ==
  /\ Deliver /\ t \in {EvPayloadsEnd, EvEnd}
  /\ emitted' = <<>> /\ wrote' = "none"
  /\ UNCHANGED <<dispatcherVars, playerVars, cur, used, audio, broken, nlgOpen>>

\* RecvBreak that resets the stream id from the msg callback's event_id,
\* the other variable of that name, instead of clearing it.
RecvBreakClearToPayload(e, t) ==
  /\ Deliver /\ e \in used /\ t \in BreakTypes
  /\ emitted' = <<>> /\ wrote' = "none"
  /\ IF e = stream_event_id
       THEN /\ stream_event_id' = event_id
            /\ PlayerStopIfPlaying
            /\ broken' = broken \cup {e}
       ELSE UNCHANGED <<stream_event_id, plPlaying, plId, broken>>
  /\ UNCHANGED <<stream_status, event_id, cur, used, audio,
                 nlgOpen>>

\* CHAT_BREAK / SERVER_VAD for event e: ignored unless e is the recorded
\* stream id; on a match the id is cleared (stream_status is left as it
\* is) and the event callback stops a playing session.
RecvBreak(e, t) ==
  /\ Deliver /\ e \in used /\ t \in BreakTypes
  /\ emitted' = <<>> /\ wrote' = "none"
  /\ IF e = stream_event_id
       THEN /\ stream_event_id' = NoId
            /\ PlayerStopIfPlaying
            /\ broken' = broken \cup {e}
       ELSE UNCHANGED <<stream_event_id, plPlaying, plId, broken>>
  /\ UNCHANGED <<stream_status, event_id, cur, used, audio,
                 nlgOpen>>

\* _parse_nlg: NLG_START (carrying the stream id) on the first chunk of a
\* stream, then NLG_DATA or, with eof, NLG_STOP while the stream is on.
NlgOut(eof) ==
  LET startNow == stream_status = SStart
      on == stream_status \in {SStart, SData}
  IN  (IF startNow THEN <<"NLG_START">> ELSE <<>>)
        \o (IF on THEN <<IF eof = 1 THEN "NLG_STOP" ELSE "NLG_DATA">> ELSE <<>>)

\* NlgStatus without the move to STOP on eof.
NlgStatusKeepStream(eof) ==
  IF stream_status = SStart THEN SData ELSE stream_status

NlgStatus(eof) ==
  IF stream_status \in {SStart, SData}
    THEN IF eof = 1 THEN SStop ELSE SData
    ELSE stream_status

\* _parse_asr, reached only for an eof ASR packet: one ASR message, with an
\* empty payload when the text is missing or empty.
AsrOut(biz, eof) == IF eof = 1 /\ biz = "ASR" THEN <<"ASR">> ELSE <<>>

\* _parse_skill / _parse_skill_emo, reached only for an eof SKILL packet:
\* an emotion message when data.code is "emo" (emo), nothing otherwise.
SkillOut(biz, eof, emo) ==
  IF eof = 1 /\ biz = "SKILL" /\ emo THEN <<"EMOTION">> ELSE <<>>

\* __ai_agent_txt_recv: a JSON document of bizType biz.  The msg callback
\* turns NLG messages into inform events, which change no state.
RecvText(biz, eof, emo) ==
  /\ Deliver
  /\ biz \in {"ASR", "NLG", "SKILL", "OTHER"} /\ eof \in {0, 1}
  /\ emo \in BOOLEAN /\ (emo => biz = "SKILL")
  /\ IF biz = "NLG"
       THEN /\ emitted' = NlgOut(eof) /\ stream_status' = NlgStatus(eof)
       ELSE /\ emitted' = AsrOut(biz, eof) \o SkillOut(biz, eof, emo)
            /\ UNCHANGED stream_status
  /\ nlgOpen' = IF Emits(emitted', "NLG_STOP") THEN FALSE
                ELSE nlgOpen \/ Emits(emitted', "NLG_START")
  /\ wrote' = "none"
  /\ UNCHANGED <<stream_event_id, playerVars, cur, used, audio, broken>>

\* __ai_agent_audio_recv, stream flag START: AUDIO_START is emitted with the
\* payload whatever its length.
RecvAudioStart(x) ==
  /\ Deliver /\ audio = "none" /\ x \in Payloads
  /\ audio' = "on" /\ emitted' = <<"AUDIO_START">>
  /\ AppAudioStart(x)
  /\ UNCHANGED <<dispatcherVars, cur, used, broken, nlgOpen>>

\* Flag ING or END with a payload: AUDIO_DATA; END then AUDIO_STOP.
RecvAudioData(end) ==
  /\ Deliver /\ audio = "on" /\ end \in BOOLEAN
  /\ IF end
       THEN /\ emitted' = <<"AUDIO_DATA", "AUDIO_STOP">> /\ audio' = "off"
            /\ AppAudioStop
       ELSE /\ emitted' = <<"AUDIO_DATA">> /\ UNCHANGED audio
            /\ AppAudioData
  /\ UNCHANGED <<dispatcherVars, cur, used, broken, nlgOpen>>

\* Flag END with no payload: only AUDIO_STOP (an eof write of no data).
RecvAudioEnd ==
  /\ Deliver /\ audio = "on"
  /\ emitted' = <<"AUDIO_STOP">> /\ audio' = "off"
  /\ AppAudioStop
  /\ UNCHANGED <<dispatcherVars, cur, used, broken, nlgOpen>>

\* The player task ends the session by itself: the buffer drained after
\* eof, or the stall timer fired.
PlayerEnds ==
  /\ plPlaying
  /\ plPlaying' = FALSE
  /\ emitted' = <<>> /\ wrote' = "none"
  /\ UNCHANGED <<dispatcherVars, event_id, plId, cur, used, audio, broken,
                 nlgOpen, nPkts>>

-----------------------------------------------------------------------------

Next ==
  \/ \E e \in EventIds : RecvEventStart(e)
  \/ \E t \in {EvPayloadsEnd, EvEnd} : RecvEventOther(t)
  \/ \E e \in EventIds, t \in BreakTypes : RecvBreak(e, t)
  \/ \E biz \in {"ASR", "NLG", "SKILL", "OTHER"}, eof \in {0, 1},
        emo \in BOOLEAN : RecvText(biz, eof, emo)
  \/ \E x \in Payloads : RecvAudioStart(x)
  \/ \E end \in BOOLEAN : RecvAudioData(end)
  \/ RecvAudioEnd
  \/ PlayerEnds

Spec == Init /\ [][Next]_vars

-----------------------------------------------------------------------------
(* Properties.                                                             *)

TypeOK ==
  /\ stream_event_id \in EventIds \cup {NoId}
  /\ stream_status \in {SStart, SData, SStop, SAbort}
  /\ event_id \in Payloads \cup {NULL}
  /\ plPlaying \in BOOLEAN /\ plId \in Payloads \cup {NULL}
  /\ cur \in EventIds \cup {NoId} /\ used \subseteq EventIds
  /\ audio \in {"none", "on", "off"} /\ broken \subseteq used
  /\ emitted \in Seq(MsgTypes)
  /\ wrote \in {"none", "ok", "rejected"} /\ nlgOpen \in BOOLEAN
  /\ nPkts \in 0..MaxPkts

\* _parse_nlg frames the reply text for the application: an NLG_DATA or
\* NLG_STOP reaches the msg callback only inside a stream it has seen
\* opened by NLG_START and not yet closed, across new events and breaks.
NlgFramed ==
  [][(Emits(emitted', "NLG_DATA") \/ Emits(emitted', "NLG_STOP"))
       => nlgOpen \/ Emits(emitted', "NLG_START")]_vars

\* spec.md 3 (any state -> ABORT on session interruption): once a chat
\* break of the current event has been forwarded, _parse_nlg hands the
\* application no more NLG_DATA or NLG_STOP of that event.
NoNlgAfterBreak ==
  (Emits(emitted, "NLG_DATA") \/ Emits(emitted, "NLG_STOP")) => cur \notin broken
====
