------------------------------ MODULE AlsaSink ------------------------------
(***************************************************************************)
(* The playback side of the audio output sink: the tail of                *)
(* __ai_audio_player_mp3_playing in ai_audio.c (open the device on the    *)
(* first decoded frame, guarded by the function-static alsa_init, then    *)
(* hand every frame to it) and alsa_device_open / alsa_device_write of    *)
(* audio/alsa.c with its XRUN check and underrun retry loop.               *)
(*                                                                         *)
(* The player task is the only caller.  A frame's PCM format (channels    *)
(* and rate from mp3_frame_info) is abstracted to a member of Formats; a  *)
(* playback session (ai_audio_player_start, then START) brings a stream   *)
(* of one format.  The device may underrun at any time between writes,    *)
(* and snd_pcm_writei answers each call with all frames, fewer frames,   *)
(* -EPIPE or another error.  alsa_device_close is never called by the     *)
(* demo, so the handle is never closed on purpose.                         *)
(***************************************************************************)
EXTENDS Naturals, Sequences, FiniteSets, FiniteSetsExt

CONSTANTS
  Formats,       \* PCM formats (channels, rate) a stream may have
  NoFmt,         \* no format: before the first session / device opened
  MaxSessions,   \* bound: playback sessions started
  MaxFrames,     \* bound: frames handed to the sink
  MayFail        \* whether snd_pcm_open/prepare and writei may fail

ASSUME NoFmt \notin Formats /\ MaxFrames \in Nat /\ MayFail \in BOOLEAN

\* What one snd_pcm_writei call returns: every frame, a short count,
\* -EPIPE (underrun), or another negative error.
WriteiResults == {"all", "short", "epipe"} \cup (IF MayFail THEN {"err"} ELSE {})

\* The answers of the (at most three) writei calls of one write.
Answers == [1..3 -> WriteiResults]

VARIABLES
  alsa_init,     \* the static alsa_init of __ai_audio_player_mp3_playing
  pcm,           \* pcm_handle: "null", "open", or "freed" (closed, not NULLed)
  devFmt,        \* format the device was configured with
  xrun,          \* snd_pcm_state(pcm_handle) == SND_PCM_STATE_XRUN
  sessFmt,       \* format of the current session's stream
  ret,           \* what the last alsa_device_write returned, "none" before
  answers,       \* what writei answered in it, <<>> if it never got there
  nSessions,
  nFrames        \* frames handed to alsa_device_write

vars == <<alsa_init, pcm, devFmt, xrun, sessFmt, ret, answers, nSessions,
          nFrames>>

Init ==
  /\ alsa_init = FALSE /\ pcm = "null" /\ devFmt = NoFmt /\ xrun = FALSE
  /\ sessFmt = NoFmt /\ ret = "none" /\ answers = <<>>
  /\ nSessions = 0 /\ nFrames = 0

-----------------------------------------------------------------------------
(* alsa_device_write's underrun handling.                                  *)

\* Fault variant: the loop gives up after one retry.
RetryLoopOnce(rs, n) == Head(rs)

\* The retry loop after an underrun, with retry_count = n and rs the answers
\* writei has left: a count or another error breaks out; -EPIPE prepares
\* and retries while retry_count < 2; the loop ends holding the last answer.
RECURSIVE RetryLoop(_, _)
RetryLoop(rs, n) ==
  IF n >= 2 THEN "epipe"
  ELSE IF Head(rs) = "epipe" THEN RetryLoop(Tail(rs), n + 1)
  ELSE Head(rs)

\* The value of written after the first writei and, on -EPIPE, the loop.
Written(rs) == IF Head(rs) = "epipe" THEN RetryLoop(Tail(rs), 0) ELSE Head(rs)

\* Fault variant: the negative writei value is returned as it is.
ReturnedRaw(w) == w

\* What alsa_device_write returns for that value: written (all or short),
\* or -1.
Returned(w) == IF w \in {"all", "short"} THEN w ELSE "error"

\* alsa_device_write(pcm, samples) on handle p.  A NULL handle returns -1.
\* A freed handle is passed to snd_pcm_hw_params_current: undefined
\* behaviour.  An open device in XRUN is prepared first (-1 if that fails);
\* after an underrun the device is prepared before the retries (-1 if
\* that fails).  Every path that reaches writei leaves the device prepared.
DeviceWrite(p) ==
  CASE p = "null"  -> ret' = "error" /\ answers' = <<>> /\ UNCHANGED xrun
    [] p = "freed" -> ret' = "ub" /\ answers' = <<>> /\ UNCHANGED xrun
    [] OTHER ->
         \/ /\ MayFail /\ ret' = "error" /\ answers' = <<>>
            /\ UNCHANGED xrun
         \/ /\ \E rs \in Answers : answers' = rs /\ ret' = Returned(Written(rs))
            /\ xrun' = FALSE

-----------------------------------------------------------------------------
(* Actions.                                                                *)

\* ai_audio_player_start and the START case: a new stream begins.  Nothing
\* of the sink is reset.
NewSession(f) ==
  /\ nSessions < MaxSessions
  /\ sessFmt' = f /\ nSessions' = nSessions + 1
  /\ UNCHANGED <<alsa_init, pcm, devFmt, xrun, ret, answers, nFrames>>

\* alsa_device_open(channels, hz, 16) for format f: success configures the
\* device; a failing snd_pcm_open leaves pcm_handle as it was; a later
\* failing step closes the handle and leaves pcm_handle pointing at it.
OpenResults(f) ==
  {[pcm |-> "open", fmt |-> f]}
  \cup (IF MayFail THEN {[pcm |-> pcm, fmt |-> devFmt], [pcm |-> "freed", fmt |-> devFmt]}
                   ELSE {})

\* A decoded frame of the session goes to the sink: on the first frame ever
\* the device is opened and alsa_init set, whatever the open returned; then
\* alsa_device_write, whose result is only logged.
RenderFrame ==
  /\ sessFmt # NoFmt /\ nFrames < MaxFrames
  /\ nFrames' = nFrames + 1
  /\ alsa_init' = TRUE
  /\ \E d \in IF alsa_init THEN {[pcm |-> pcm, fmt |-> devFmt]}
                           ELSE OpenResults(sessFmt) :
       /\ pcm' = d.pcm /\ devFmt' = d.fmt
       /\ DeviceWrite(d.pcm)
  /\ UNCHANGED <<sessFmt, nSessions>>

\* The device underruns between two writes (the stream stalled).
Underrun ==
  /\ pcm = "open" /\ ~xrun
  /\ xrun' = TRUE
  /\ UNCHANGED <<alsa_init, pcm, devFmt, sessFmt, ret, answers, nSessions,
                 nFrames>>

\* The task loops with nothing to decode.
Idle == UNCHANGED vars

Next ==
  \/ \E f \in Formats : NewSession(f)
  \/ RenderFrame
  \/ Underrun
  \/ Idle

Spec == Init /\ [][Next]_vars

-----------------------------------------------------------------------------
(* Properties.                                                             *)

TypeOK ==
  /\ alsa_init \in BOOLEAN /\ pcm \in {"null", "open", "freed"}
  /\ devFmt \in Formats \cup {NoFmt} /\ sessFmt \in Formats \cup {NoFmt}
  /\ xrun \in BOOLEAN /\ ret \in {"none", "all", "short", "error", "ub"}
  /\ answers \in Answers \cup {<<>>}
  /\ nSessions \in 0..MaxSessions /\ nFrames \in 0..MaxFrames

\* Reference for the underrun recovery of alsa_device_write: the value it
\* ends with is the first answer of writei that is not -EPIPE among the
\* first three calls (the first and two retries), -EPIPE when all three are.
RetryReference(rs) ==
  LET ok == {i \in 1..3 : rs[i] # "epipe"}
  IN  IF ok = {} THEN "epipe" ELSE rs[Min(ok)]

\* A write that reached snd_pcm_writei returned what the reference says for
\* the answers the device gave: the frame is reported written (in full or
\* short) exactly when the device took it within the two retries the spec
\* allows (spec.md 6, Audio Output Sink), and -1 otherwise.
RetryAgreesWithReference ==
  answers # <<>> => ret = Returned(RetryReference(answers))

\* Every frame the player task hands to alsa_device_write goes to an open
\* device configured for its own session's format (spec.md 4, decode-and-
\* render cycle: the sink is initialised on the first frame of the
\* session).
SinkFollowsSession ==
  [][nFrames' # nFrames => pcm' = "open" /\ devFmt' = sessFmt]_vars
=============================================================================
