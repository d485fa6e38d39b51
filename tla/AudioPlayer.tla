---------------------------- MODULE AudioPlayer ----------------------------
(***************************************************************************)
(* The MP3 playback engine of src/demos/ai_demo/ai_audio.c (sg_player).   *)
(*                                                                         *)
(* Actors:                                                                 *)
(*   - the player task __ai_audio_player_task: one action per case of its *)
(*     switch, each a whole loop iteration under sg_player.mutex;          *)
(*   - the stall timer callback __app_playing_tm_cb (software timer);     *)
(*   - caller threads that call ai_audio_player_start / _data_write /     *)
(*     _stop.  write and stop release the mutex while they sleep, so each *)
(*     is split at that point into a call step and a wake-up step.         *)
(*                                                                         *)
(* Data is abstracted to units.  A unit is [ep, n]: ep is the playback    *)
(* session (count of successful starts) whose id check the write passed,  *)
(* n the position of the unit in its caller's byte stream.  F consecutive *)
(* units of one stream, starting at a multiple of F, form one MP3 frame.  *)
(* The ring buffer rb and the decoder window raw (mp3_raw from its head,  *)
(* mp3_raw_used_len long) are sequences of units; the decoder decodes the *)
(* first complete frame in the window and skips what precedes it, and     *)
(* returns 0 samples when the window holds no complete frame.             *)
(***************************************************************************)
EXTENDS Naturals, Sequences, FiniteSets, FiniteSetsExt

CONSTANTS
  Callers,       \* threads calling the player API
  Writers,       \* callers that start sessions and write data
  WriterIds,     \* WriterIds[w]: the ids writer w passes to start/write
  NULL,          \* the NULL id
  BadId,         \* an id start rejects: empty or longer than 256 bytes
  Cap,           \* ring buffer capacity (MP3_STREAM_BUFF_MAX_LEN), in units
  Window,        \* decoder window (MAINBUF_SIZE), in units
  F,             \* units per MP3 frame
  MaxUnits,      \* bound: units one caller streams in total
  MaxLen,        \* bound: units passed to one write call
  MaxStarts,     \* bound: start calls
  MaxStops,      \* bound: stop calls
  DecAllocMayFail \* whether malloc of the mp3 decoder may fail

ASSUME /\ Writers \subseteq Callers
       /\ Cap \in Nat \ {0} /\ F \in Nat \ {0} /\ Window >= F
       /\ MaxLen \in Nat \ {0}
       /\ DecAllocMayFail \in BOOLEAN

\* AI_AUDIO_PLAYER_STATE_E
IDLE == "IDLE"
START == "START"
PLAY == "PLAY"
FINISH == "FINISH"
PAUSE == "PAUSE"

Ids == UNION {WriterIds[w] : w \in Writers}
Unit == [ep : 0..MaxStarts, n : 0..MaxUnits]
NoUnit == [ep |-> 0, n |-> 0]

VARIABLES
  stat, is_playing, is_writing, id, is_eof,   \* fields of sg_player
  rb,            \* ring buffer contents
  raw,           \* undecoded residue in mp3_raw
  decAlloc,      \* sg_player.mp3_dec # NULL
  timerOn,       \* the stall timer tm_id is running
  sleepMs,       \* the task's sleep_ms
  cpc,           \* caller program counter: "idle", "write" (sleeping in the
                 \* copy loop), "stop" (sleeping in stop's wait loop)
  cid,           \* the id the caller passes to write (its last start's id)
  cn,            \* next unit position of the caller's stream
  crem, ceof, cep, \* remaining units, is_eof and session of a sleeping write
  epoch,         \* ghost: number of successful starts (current session)
  eofEp,         \* ghost: session of the write that last assigned is_eof
  out, played,   \* ghost: last unit of the last frame sent to ALSA, frames sent
  stopEp, stopped, \* ghost: session a stop call began in; sessions stop ended
  nStarts, nStops

vars == <<stat, is_playing, is_writing, id, is_eof, rb, raw, decAlloc, timerOn,
          sleepMs, cpc, cid, cn, crem, ceof, cep, epoch, eofEp, out, played,
          stopEp, stopped, nStarts, nStops>>

callerVars == <<cpc, cid, cn, crem, ceof, cep, stopEp, nStarts, nStops>>
decodeVars == <<raw, decAlloc, out, played>>

Init ==
  /\ stat = IDLE /\ is_playing = FALSE /\ is_writing = FALSE /\ id = NULL
  /\ is_eof = 0 /\ rb = <<>> /\ raw = <<>> /\ decAlloc = FALSE
  /\ timerOn = FALSE /\ sleepMs = 10
  /\ cpc = [c \in Callers |-> "idle"] /\ cid = [c \in Callers |-> NULL]
  /\ cn = [c \in Callers |-> 0] /\ crem = [c \in Callers |-> 0]
  /\ ceof = [c \in Callers |-> 0] /\ cep = [c \in Callers |-> 0]
  /\ epoch = 0 /\ eofEp = 0 /\ out = NoUnit /\ played = 0
  /\ stopEp = [c \in Callers |-> 0] /\ stopped = {}
  /\ nStarts = 0 /\ nStops = 0

-----------------------------------------------------------------------------
(* Ring buffer and decoder helpers.                                        *)

\* Fault variant: free size computed one past the capacity.
RbFreeOverCap == Cap + 1 - Len(rb)

\* tuya_ring_buff_free_size_get
RbFree == Cap - Len(rb)

\* The k units caller c writes next, starting at its stream position.
Units(c, ep, k) == [j \in 1..k |-> [ep |-> ep, n |-> cn[c] + j - 1]]

\* A complete frame begins at position i of window w.
FrameAt(w, i) ==
  /\ i + F - 1 <= Len(w)
  /\ w[i].n % F = 0
  /\ \A j \in 1..(F - 1) : w[i + j].ep = w[i].ep /\ w[i + j].n = w[i].n + j

\* mp3dec_decode_frame: end of the first complete frame, 0 if none.
FrameEnd(w) ==
  LET S == {i \in 1..Len(w) : FrameAt(w, i)}
  IN  IF S = {} THEN 0 ELSE Min(S) + F - 1

\* Fault variant: the head advances one byte short of the frame.
ConsumeShort(w, e) == SubSeq(w, e, Len(w))

\* Advance mp3_raw_head and mp3_raw_used_len past the frame's bytes.
Consume(w, e) == SubSeq(w, e + 1, Len(w))

\* __app_player_compare_id: both NULL, or equal strings.
CompareId(a, b) == a = b

-----------------------------------------------------------------------------
(* The player task: one action per case of the switch on ctx->stat.        *)

\* case IDLE: stop the stall timer, clear is_eof.
TaskIdle ==
  /\ stat = IDLE
  /\ timerOn' = FALSE /\ is_eof' = 0
  /\ UNCHANGED <<stat, is_playing, is_writing, id, rb, sleepMs, epoch, eofEp,
                 stopped>> /\ UNCHANGED decodeVars /\ UNCHANGED callerVars

\* case START: __ai_audio_player_mp3_start allocates the decoder once and
\* resets mp3_raw_used_len; on failure back to IDLE (is_playing untouched).
TaskStart ==
  /\ stat = START
  /\ \/ /\ decAlloc' = TRUE
        /\ raw' = <<>> /\ stat' = PLAY /\ sleepMs' = 0
     \/ /\ DecAllocMayFail /\ ~decAlloc
        /\ stat' = IDLE
        /\ UNCHANGED <<decAlloc, raw, sleepMs>>
  /\ UNCHANGED <<is_playing, is_writing, id, is_eof, rb, timerOn, epoch, eofEp,
                 out, played, stopped>> /\ UNCHANGED callerVars

\* case PLAY: one __ai_audio_player_mp3_playing cycle, then the end check.
TaskPlay ==
  /\ stat = PLAY
  /\ IF rb = <<>> /\ raw = <<>>
     THEN \* OPRT_RECV_DA_NOT_ENOUGH: (re)start the stall timer
          /\ timerOn' = TRUE
          /\ UNCHANGED <<rb, raw, out, played>>
     ELSE LET take == IF Len(raw) < Window THEN Min({Window - Len(raw), Len(rb)})
                                            ELSE 0
              w    == raw \o SubSeq(rb, 1, take)
              e    == FrameEnd(w)
          IN /\ rb' = SubSeq(rb, take + 1, Len(rb))
             /\ IF e = 0
                THEN \* samples == 0: drop the window, OPRT_COM_ERROR
                     /\ raw' = <<>>
                     /\ UNCHANGED <<timerOn, out, played>>
                ELSE \* frame decoded and written to ALSA: stop the timer
                     /\ raw' = Consume(w, e)
                     /\ out' = w[e] /\ played' = played + 1
                     /\ timerOn' = FALSE
  /\ IF rb' = <<>> /\ raw' = <<>> /\ is_eof = 1
     THEN stat' = FINISH /\ sleepMs' = 10
     ELSE UNCHANGED <<stat, sleepMs>>
  /\ UNCHANGED <<is_playing, is_writing, id, is_eof, decAlloc, epoch, eofEp,
                 stopped>> /\ UNCHANGED callerVars

\* case FINISH: stop the timer, leave the session; the ring buffer is kept.
TaskFinish ==
  /\ stat = FINISH
  /\ timerOn' = FALSE /\ is_playing' = FALSE /\ stat' = IDLE /\ is_eof' = 0
  /\ UNCHANGED <<is_writing, id, rb, sleepMs, epoch, eofEp, stopped>>
  /\ UNCHANGED decodeVars /\ UNCHANGED callerVars

\* case PAUSE: the task does nothing and keeps looping while stop() waits.
TaskPause ==
  /\ stat = PAUSE
  /\ UNCHANGED vars

\* __app_playing_tm_cb: the stall timer expires and forces FINISH,
\* whatever the state.
TimerFire ==
  /\ timerOn
  /\ timerOn' = FALSE /\ stat' = FINISH
  /\ UNCHANGED <<is_playing, is_writing, id, is_eof, rb, sleepMs, epoch, eofEp,
                 stopped>> /\ UNCHANGED decodeVars /\ UNCHANGED callerVars

-----------------------------------------------------------------------------
(* The API called by caller threads.                                       *)

\* ai_audio_player_start(x).  The caller keeps x as the id of its writes
\* whatever start returns (the message callback ignores the result); its
\* stream resumes at a frame boundary.
Start(c, x) ==
  /\ cpc[c] = "idle" /\ nStarts < MaxStarts
  /\ nStarts' = nStarts + 1
  /\ cid' = [cid EXCEPT ![c] = x]
  /\ cn' = [cn EXCEPT ![c] = ((@ + F - 1) \div F) * F]
  /\ IF is_playing
     THEN UNCHANGED <<stat, is_playing, id, epoch>>   \* already started
     ELSE IF x = BadId
     THEN /\ id' = NULL                                \* freed, then rejected
          /\ UNCHANGED <<stat, is_playing, epoch>>
     ELSE /\ id' = x /\ is_playing' = TRUE /\ stat' = START
          /\ epoch' = epoch + 1
  /\ UNCHANGED <<is_writing, is_eof, rb, timerOn, sleepMs, eofEp, stopped,
                 cpc, crem, ceof, cep, stopEp, nStops>> /\ UNCHANGED decodeVars

\* Fault variant: the loop exit leaves is_writing set.
CopyLoopKeepFlag(c, rem, eof, ep) ==
  LET k == Min({RbFree, rem}) IN
  /\ cn' = [cn EXCEPT ![c] = @ + k]
  /\ rb' = rb \o Units(c, ep, k)
  /\ is_writing' = TRUE
  /\ IF rem - k > 0
     THEN /\ cpc' = [cpc EXCEPT ![c] = "write"]
          /\ crem' = [crem EXCEPT ![c] = rem - k]
          /\ ceof' = [ceof EXCEPT ![c] = eof]
          /\ UNCHANGED <<is_eof, eofEp>>
     ELSE /\ cpc' = [cpc EXCEPT ![c] = "idle"]
          /\ crem' = [crem EXCEPT ![c] = 0]
          /\ is_eof' = eof /\ eofEp' = ep
          /\ UNCHANGED ceof

\* Copy loop of ai_audio_player_data_write, from the current caller state:
\* write what fits; if units remain the buffer is full and the caller sleeps
\* with the mutex released; otherwise leave the loop and assign is_eof.
CopyLoop(c, rem, eof, ep) ==
  LET k == Min({RbFree, rem}) IN
  /\ cn' = [cn EXCEPT ![c] = @ + k]
  /\ rb' = rb \o Units(c, ep, k)
  /\ IF rem - k > 0
     THEN /\ is_writing' = TRUE /\ cpc' = [cpc EXCEPT ![c] = "write"]
          /\ crem' = [crem EXCEPT ![c] = rem - k]
          /\ ceof' = [ceof EXCEPT ![c] = eof]
          /\ UNCHANGED <<is_eof, eofEp>>
     ELSE /\ is_writing' = FALSE /\ cpc' = [cpc EXCEPT ![c] = "idle"]
          /\ crem' = [crem EXCEPT ![c] = 0]
          /\ is_eof' = eof /\ eofEp' = ep
          /\ UNCHANGED ceof

\* ai_audio_player_data_write(cid[c], data, len, eof), up to the first sleep.
Write(c, len, eof) ==
  /\ cpc[c] = "idle" /\ c \in Writers /\ cid[c] \in WriterIds[c]
  /\ cn[c] + len <= MaxUnits
  /\ stat \in {START, PLAY}                    \* else OPRT_COM_ERROR
  /\ CompareId(cid[c], id)                     \* else OPRT_INVALID_PARM
  /\ cep' = [cep EXCEPT ![c] = epoch]
  /\ IF len > 0
     THEN CopyLoop(c, len, eof, epoch)
     ELSE /\ is_eof' = eof /\ eofEp' = epoch
          /\ UNCHANGED <<rb, is_writing, cpc, cn, crem, ceof>>
  /\ UNCHANGED <<stat, is_playing, id, timerOn, sleepMs, epoch, stopped, cid,
                 stopEp, nStarts, nStops>> /\ UNCHANGED decodeVars

\* A sleeping writer retakes the mutex and re-evaluates the loop condition.
WriteWake(c) ==
  /\ cpc[c] = "write"
  /\ IF stat \in {START, PLAY}
     THEN /\ RbFree > 0                         \* a full buffer: sleep again
          /\ CopyLoop(c, crem[c], ceof[c], cep[c])
     ELSE /\ is_writing' = FALSE /\ cpc' = [cpc EXCEPT ![c] = "idle"]
          /\ crem' = [crem EXCEPT ![c] = 0]
          /\ is_eof' = ceof[c] /\ eofEp' = cep[c]
          /\ UNCHANGED <<rb, cn, ceof>>
  /\ UNCHANGED <<stat, is_playing, id, timerOn, sleepMs, epoch, stopped, cid,
                 cep, stopEp, nStarts, nStops>> /\ UNCHANGED decodeVars

\* Fault variant: stop does not reset the ring buffer.
StopFinishKeepBuffer(c, ep) ==
  /\ rb' = rb /\ is_playing' = FALSE /\ stat' = IDLE
  /\ cpc' = [cpc EXCEPT ![c] = "idle"]
  /\ stopped' = stopped \cup {ep}

\* End of ai_audio_player_stop: reset the ring buffer, stop the device.
StopFinish(c, ep) ==
  /\ rb' = <<>> /\ is_playing' = FALSE /\ stat' = IDLE
  /\ cpc' = [cpc EXCEPT ![c] = "idle"]
  /\ stopped' = stopped \cup {ep}

\* ai_audio_player_stop, up to its wait for is_writing.
Stop(c) ==
  /\ cpc[c] = "idle" /\ nStops < MaxStops /\ is_playing
  /\ nStops' = nStops + 1
  /\ id' = NULL
  /\ stopEp' = [stopEp EXCEPT ![c] = epoch]
  /\ IF is_writing
     THEN /\ stat' = PAUSE /\ cpc' = [cpc EXCEPT ![c] = "stop"]
          /\ UNCHANGED <<rb, is_playing, stopped>>
     ELSE StopFinish(c, epoch)
  /\ UNCHANGED <<is_writing, is_eof, timerOn, sleepMs, epoch, eofEp, cid, cn,
                 crem, ceof, cep, nStarts>> /\ UNCHANGED decodeVars

\* The stopping caller retakes the mutex and finds is_writing cleared.
StopWake(c) ==
  /\ cpc[c] = "stop" /\ ~is_writing
  /\ StopFinish(c, stopEp[c])
  /\ UNCHANGED <<is_writing, id, is_eof, timerOn, sleepMs, epoch, eofEp, cid,
                 cn, crem, ceof, cep, stopEp, nStarts, nStops>>
  /\ UNCHANGED decodeVars

-----------------------------------------------------------------------------
Task == TaskIdle \/ TaskStart \/ TaskPlay \/ TaskFinish \/ TaskPause

Next ==
  \/ Task
  \/ TimerFire
  \/ \E c \in Callers :
       \/ \E x \in IF c \in Writers THEN WriterIds[c] ELSE {} : Start(c, x)
       \/ \E len \in 0..MaxLen, eof \in {0, 1} : Write(c, len, eof)
       \/ WriteWake(c)
       \/ Stop(c)
       \/ StopWake(c)

\* The task loops forever; a thread sleeping in write or stop retakes the
\* mutex after its 3 ms sleep.  The stall timer is not assumed to fire: the
\* PLAY case restarts it on every empty cycle (sleep_ms 0), and whether
\* that pushes its 5 s deadline back is the SDK's.  New API calls are the
\* environment's and are not assumed to happen.
Fairness ==
  /\ WF_vars(Task)
  /\ \A c \in Callers : WF_vars(WriteWake(c)) /\ WF_vars(StopWake(c))

Spec == Init /\ [][Next]_vars
FairSpec == Spec /\ Fairness

-----------------------------------------------------------------------------
(* Refinement of PlaybackFifo.  The abstract queue is the data the engine  *)
(* can still render: the window residue while the task is in PLAY (it is  *)
(* dead in every other state, since only START leads back to PLAY and     *)
(* START resets it), followed by the ring buffer.                          *)

pending == (IF stat = PLAY THEN raw ELSE <<>>) \o rb

Fifo == INSTANCE PlaybackFifo WITH q <- pending, NoOut <- NoUnit

-----------------------------------------------------------------------------
(* Properties.                                                             *)

TypeOK ==
  /\ stat \in {IDLE, START, PLAY, FINISH, PAUSE}
  /\ is_playing \in BOOLEAN /\ is_writing \in BOOLEAN /\ decAlloc \in BOOLEAN
  /\ id \in Ids \cup {NULL} /\ is_eof \in {0, 1} /\ timerOn \in BOOLEAN
  /\ rb \in Seq(Unit) /\ Len(rb) <= Cap /\ raw \in Seq(Unit) /\ Len(raw) <= Window
  /\ sleepMs \in {0, 10}
  /\ cpc \in [Callers -> {"idle", "write", "stop"}]
  /\ cid \in [Callers -> Ids \cup {NULL, BadId}]
  /\ cn \in [Callers -> 0..MaxUnits] /\ crem \in [Callers -> 0..MaxLen]
  /\ out \in Unit /\ stopped \subseteq 0..MaxStarts

\* Barge-in: once ai_audio_player_stop has returned, no frame of the
\* session it stopped is ever decoded and sent to ALSA, even when a write
\* of that session was sleeping on a full buffer while stop ran.
StopPurgesSession ==
  [][played' # played => out'.ep \notin stopped]_<<played, stopped>>

\* The engine implements PlaybackFifo: whatever the writer, stop, timer and
\* task interleavings, ALSA receives a subsequence of the data that
\* ai_audio_player_data_write accepted, in the order accepted, each unit at
\* most once; the ring buffer, the window compaction and the resets in
\* START, stop and a decode error only ever drop data from the head.
FifoRefinement == Fifo!Spec

\* Every call into the player returns: a write sleeping on a full ring
\* buffer and a stop waiting for is_writing eventually retake the mutex
\* and leave.
CallsReturn ==
  \A c \in Callers : cpc[c] # "idle" ~> cpc[c] = "idle"

\* Every frame sent to ALSA belongs to the playback session started last:
\* no audio written for an earlier session is played in a later one.
NoStaleAudio ==
  [][played' # played => out'.ep = epoch']_<<played>>

\* While a session is starting or playing, an end-of-stream flag that is set
\* was set by a write of that session.
EofBelongsToSession ==
  stat \in {START, PLAY} /\ is_eof = 1 => eofEp = epoch
=============================================================================
