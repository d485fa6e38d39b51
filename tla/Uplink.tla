------------------------------- MODULE Uplink -------------------------------
(***************************************************************************)
(* Microphone upload in src/demos/ai_demo: the keyboard commands of       *)
(* main.c ('s' start_recording, 'p' stop_recording) on the main thread,   *)
(* the record threads they spawn (record_thread_func), and the uplink     *)
(* framer of ai_agent.c they call (ai_audio_agent_upload_start/_data/     *)
(* _stop) with its shared state sg_ai.event_id and                         *)
(* sg_ai.is_audio_upload_first_frame.                                      *)
(*                                                                         *)
(* The transport is abstracted to what it is told: which uplink events     *)
(* are open (event_start sent, event_end not yet) and, per event, the      *)
(* stream flags of the audio packets sent while it was sg_ai.event_id.    *)
(* A record thread's steps are: "open" (malloc, WAV file and ALSA device,  *)
(* then upload_start), "mark" (record_thread_running = true), "loop" (one *)
(* 100 ms read and upload per step), "done".                               *)
(***************************************************************************)
EXTENDS Naturals, Sequences, FiniteSets

CONSTANTS
  Threads,       \* thread handles pthread_create may return
  NoThread,      \* record_thread before any start
  MaxEvents,     \* bound: upload events started
  MaxFrames,     \* bound: frames one record thread uploads
  MayFail        \* whether device open, event start and sends may fail

ASSUME /\ NoThread \notin Threads
       /\ MaxEvents \in Nat \ {0} /\ MaxFrames \in Nat
       /\ MayFail \in BOOLEAN

\* AI_STREAM_START / AI_STREAM_ING / AI_STREAM_END
FlagStart == "START"
FlagIng == "ING"
FlagEnd == "END"

Events == 1..MaxEvents

VARIABLES
  recording,     \* main.c recording
  running,       \* main.c record_thread_running
  record_thread, \* main.c record_thread: handle of the last thread created
  mainPc,        \* "idle", or "join": blocked in pthread_join
  tpc,           \* tpc[t]: "unborn", "open", "mark", "loop", "done"
  joined,        \* threads some pthread_join has returned for
  frames,        \* frames[t]: frames thread t has read and uploaded
  first,         \* sg_ai.is_audio_upload_first_frame
  evt,           \* sg_ai.event_id: index of the event, 0 when cleared
  nEvents,       \* events started so far
  open,          \* events the transport holds open
  flags,         \* flags[k]: stream flags sent while k was sg_ai.event_id
  rec,           \* alsa.c record_handle: the thread whose capture device it
                 \* is, NoThread for NULL
  capOpen,       \* threads whose capture device is open
  wav,           \* main.c wav_writer: the thread whose WAV file it is
  wavOpen        \* threads whose WAV file is open (header not yet final)

vars == <<recording, running, record_thread, mainPc, tpc, joined, frames,
          first, evt, nEvents, open, flags, rec, capOpen, wav, wavOpen>>

devVars == <<rec, capOpen, wav, wavOpen>>

Init ==
  /\ recording = FALSE /\ running = FALSE /\ record_thread = NoThread
  /\ mainPc = "idle" /\ tpc = [t \in Threads |-> "unborn"] /\ joined = {}
  /\ frames = [t \in Threads |-> 0]
  /\ first = FALSE /\ evt = 0 /\ nEvents = 0 /\ open = {}
  /\ flags = [k \in Events |-> <<>>]
  /\ rec = NoThread /\ capOpen = {} /\ wav = NoThread /\ wavOpen = {}

-----------------------------------------------------------------------------
(* The uplink framer of ai_agent.c.                                        *)

\* ai_audio_agent_upload_data's flag choice: the first packet after
\* upload_start is START, a NULL-data packet otherwise END, the rest ING.
FlagOf(isNull) ==
  IF first THEN FlagStart ELSE IF isNull THEN FlagEnd ELSE FlagIng

FirstAfter(isNull) ==
  IF first THEN FALSE ELSE IF isNull THEN TRUE ELSE first

\* UploadStart numbering the new event one past the next free id.
UploadStartSkipId ==
  /\ nEvents < MaxEvents
  /\ nEvents' = nEvents + 1 /\ evt' = nEvents + 2
  /\ open' = open \cup {nEvents + 2} /\ first' = TRUE

\* ai_audio_agent_upload_start: a fresh event id, event_start, and the
\* next packet flagged START.
UploadStart ==
  /\ nEvents < MaxEvents
  /\ nEvents' = nEvents + 1 /\ evt' = nEvents + 1
  /\ open' = open \cup {nEvents + 1} /\ first' = TRUE

\* tuya_ai_send_biz_pkt: the packet is filed under the current event id.
SendPkt(f) ==
  flags' = IF evt \in Events THEN [flags EXCEPT ![evt] = Append(@, f)]
                             ELSE flags

-----------------------------------------------------------------------------
(* The main thread: handle_user_input.                                     *)

\* 's': start_recording.  pthread_create may fail, which clears recording.
StartRecording ==
  /\ mainPc = "idle" /\ ~recording
  /\ \E t \in Threads :
       /\ tpc[t] = "unborn"
       /\ \/ /\ recording' = TRUE /\ record_thread' = t
             /\ tpc' = [tpc EXCEPT ![t] = "open"]
          \/ /\ MayFail
             /\ UNCHANGED <<recording, record_thread, tpc>>
  /\ UNCHANGED <<running, mainPc, joined, frames, first, evt, nEvents, open,
                 flags>> /\ UNCHANGED devVars

\* ai_audio_agent_upload_stop: upload_data(NULL, 0), which flips
\* is_audio_upload_first_frame before its send, then payloads_end and
\* event_end on sg_ai.event_id.  A failing call returns before the rest: a
\* failed packet send is not filed, a failed payloads_end or event_end
\* leaves the event open after the packet was sent.
UploadStop ==
  /\ first' = FirstAfter(TRUE)
  /\ \/ SendPkt(FlagOf(TRUE)) /\ open' = open \ {evt}
     \/ MayFail /\ UNCHANGED <<flags, open>>
     \/ MayFail /\ SendPkt(FlagOf(TRUE)) /\ UNCHANGED open

\* 'p': stop_recording.  It joins the record thread only when
\* record_thread_running is already set; otherwise it stops the upload at
\* once.
StopRecording ==
  /\ mainPc = "idle" /\ recording
  /\ recording' = FALSE
  /\ IF running
       THEN /\ mainPc' = "join"
            /\ UNCHANGED <<flags, first, open>>
       ELSE /\ UploadStop
            /\ UNCHANGED mainPc
  /\ UNCHANGED <<running, record_thread, tpc, joined, frames, evt, nEvents>>
  /\ UNCHANGED devVars

\* pthread_join returns once record_thread has finished; then upload_stop.
JoinReturn ==
  /\ mainPc = "join" /\ tpc[record_thread] = "done"
  /\ mainPc' = "idle" /\ joined' = joined \cup {record_thread}
  /\ UploadStop
  /\ UNCHANGED <<recording, running, record_thread, tpc, frames, evt, nEvents>>
  /\ UNCHANGED devVars

-----------------------------------------------------------------------------
(* A record thread: record_thread_func.                                    *)

\* wav_writer_open(filename, 16000, 1, 16) stored in the global wav_writer:
\* the new writer holds t's file, open with a provisional header.  (Its
\* malloc, fopen and header fwrite failures free what was made and return
\* NULL; they are the failing prologue of ThreadOpen.)
WavOpen(t) == wav' = t /\ wavOpen' = wavOpen \cup {t}

\* wav_writer_close(wav_writer); wav_writer = NULL: the header of the file
\* the global holds gets its sizes and the file is closed; nothing when it
\* is NULL.
WavClose == wav' = NoThread /\ wavOpen' = wavOpen \ {wav}

\* What alsa_record_open(1, 16000, 16) can leave in the global
\* record_handle: t's open device; on a failing snd_pcm_open, the handle as
\* it was; on a later failing step, NULL (the err path closes t's new
\* handle).  A handle it overwrites stays open.
RecordOpenResults(t) ==
  {[ok |-> TRUE, rec |-> t, cap |-> capOpen \cup {t}]}
  \cup (IF MayFail THEN {[ok |-> FALSE, rec |-> rec, cap |-> capOpen],
                         [ok |-> FALSE, rec |-> NoThread, cap |-> capOpen]}
                   ELSE {})

\* alsa_record_close: the device record_handle holds, if any, is dropped
\* and closed, and record_handle is NULLed.
RecordClose == rec' = NoThread /\ capOpen' = capOpen \ {rec}

\* alsa_record_read on the global record_handle: -1 at once when it is
\* NULL; otherwise (after XRUN and overrun recovery) some frames or none.
\* A failing device is ThreadReadError.
ReadResults == IF rec = NoThread THEN {"error"} ELSE {"frames", "none"}

\* The prologue of record_thread_func: the buffer is allocated, the WAV
\* file created into wav_writer, the capture device opened into
\* record_handle, then upload_start clears sg_ai.event_id and starts a new
\* event.  Each failure unwinds what the thread opened through the same
\* globals and ends the thread without touching recording or
\* record_thread_running.
ThreadOpen(t) ==
  /\ tpc[t] = "open"
  /\ \/ /\ MayFail                       \* the buffer malloc fails
        /\ tpc' = [tpc EXCEPT ![t] = "done"]
        /\ UNCHANGED <<nEvents, evt, open, first>> /\ UNCHANGED devVars
     \/ /\ MayFail                       \* wav_writer_open's NULL is stored
        /\ wav' = NoThread                \* into the global wav_writer
        /\ tpc' = [tpc EXCEPT ![t] = "done"]
        /\ UNCHANGED <<nEvents, evt, open, first, rec, capOpen, wavOpen>>
     \/ \E d \in RecordOpenResults(t) :
          \/ /\ ~d.ok                    \* t's own file closed, global NULL
             /\ rec' = d.rec /\ capOpen' = d.cap
             /\ wav' = NoThread /\ UNCHANGED wavOpen
             /\ tpc' = [tpc EXCEPT ![t] = "done"]
             /\ UNCHANGED <<nEvents, evt, open, first>>
          \/ /\ d.ok /\ UploadStart
             /\ rec' = d.rec /\ capOpen' = d.cap /\ WavOpen(t)
             /\ tpc' = [tpc EXCEPT ![t] = "mark"]
          \/ /\ d.ok /\ MayFail          \* upload_start fails after clearing
             /\ evt' = 0                  \* sg_ai.event_id; t's device and
             /\ rec' = NoThread /\ wav' = NoThread \* file are closed again
             /\ UNCHANGED <<capOpen, wavOpen>>
             /\ tpc' = [tpc EXCEPT ![t] = "done"]
             /\ UNCHANGED <<nEvents, open, first>>
  /\ UNCHANGED <<recording, running, record_thread, mainPc, joined, frames,
                 flags>>

\* record_thread_running = true.
ThreadMark(t) ==
  /\ tpc[t] = "mark"
  /\ running' = TRUE /\ tpc' = [tpc EXCEPT ![t] = "loop"]
  /\ UNCHANGED <<recording, record_thread, mainPc, joined, frames, first, evt,
                 nEvents, open, flags>> /\ UNCHANGED devVars

\* Leaving the loop: alsa_record_close closes whatever record_handle holds
\* and NULLs it; the WAV file in wav_writer, if any, gets its header
\* written and is closed; record_thread_running = false.
ThreadExit(t) ==
  /\ running' = FALSE /\ tpc' = [tpc EXCEPT ![t] = "done"]
  /\ RecordClose /\ WavClose
  /\ UNCHANGED <<first, flags, frames>>

\* ThreadLoop with the recording check dropped: a loop that never ends.
ThreadLoopIgnoreStop(t) ==
  /\ tpc[t] = "loop"
  /\ \/ /\ frames[t] < MaxFrames
        /\ frames' = [frames EXCEPT ![t] = @ + 1]
        /\ SendPkt(FlagOf(FALSE)) /\ first' = FirstAfter(FALSE)
        /\ UNCHANGED <<running, tpc>> /\ UNCHANGED devVars
     \/ UNCHANGED <<running, tpc, frames, first, flags>> /\ UNCHANGED devVars
  /\ UNCHANGED <<recording, record_thread, mainPc, joined, evt, nEvents, open>>

\* One iteration of while (recording): alsa_record_read's -1 breaks the
\* loop; frames are uploaded as one packet and appended to the WAV file in
\* wav_writer; 0 frames change nothing.
ThreadLoop(t) ==
  /\ tpc[t] = "loop"
  /\ IF ~recording
       THEN ThreadExit(t)
       ELSE \E r \in ReadResults :
              \/ r = "error" /\ ThreadExit(t)
              \/ /\ r = "frames" /\ frames[t] < MaxFrames
                 /\ frames' = [frames EXCEPT ![t] = @ + 1]
                 /\ SendPkt(FlagOf(FALSE)) /\ first' = FirstAfter(FALSE)
                 /\ UNCHANGED <<running, tpc>> /\ UNCHANGED devVars
              \/ /\ r = "none"
                 /\ UNCHANGED <<running, tpc, frames, first, flags>>
                 /\ UNCHANGED devVars
  /\ UNCHANGED <<recording, record_thread, mainPc, joined, evt, nEvents, open>>

\* alsa_record_read returns an error from the device: the loop breaks.
ThreadReadError(t) ==
  /\ tpc[t] = "loop" /\ recording /\ rec # NoThread /\ MayFail
  /\ ThreadExit(t)
  /\ UNCHANGED <<recording, record_thread, mainPc, joined, evt, nEvents, open>>

-----------------------------------------------------------------------------

\* The main loop polls the keyboard with no key pressed.
MainPoll ==
  /\ mainPc = "idle"
  /\ UNCHANGED vars

Next ==
  \/ MainPoll
  \/ StartRecording \/ StopRecording \/ JoinReturn
  \/ \E t \in Threads : \/ ThreadOpen(t) \/ ThreadMark(t) \/ ThreadLoop(t)
                       \/ ThreadReadError(t)

\* Every thread runs: the scheduler gives each runnable thread steps.  A
\* read error is possible, never forced.
Fairness ==
  /\ WF_vars(JoinReturn)
  /\ \A t \in Threads : WF_vars(ThreadOpen(t) \/ ThreadMark(t) \/ ThreadLoop(t))

Spec == Init /\ [][Next]_vars
FairSpec == Spec /\ Fairness

-----------------------------------------------------------------------------
(* Properties.                                                             *)

TypeOK ==
  /\ recording \in BOOLEAN /\ running \in BOOLEAN
  /\ record_thread \in Threads \cup {NoThread}
  /\ mainPc \in {"idle", "join"}
  /\ tpc \in [Threads -> {"unborn", "open", "mark", "loop", "done"}]
  /\ joined \subseteq Threads /\ frames \in [Threads -> 0..MaxFrames]
  /\ first \in BOOLEAN /\ evt \in 0..MaxEvents /\ nEvents \in 0..MaxEvents
  /\ open \subseteq Events
  /\ flags \in [Events -> Seq({FlagStart, FlagIng, FlagEnd})]
  /\ rec \in Threads \cup {NoThread} /\ capOpen \subseteq Threads
  /\ wav \in Threads \cup {NoThread} /\ wavOpen \subseteq Threads

\* stop_recording returns: once 'p' blocks in pthread_join, the record
\* thread it joins sees recording == false and finishes, whatever the
\* other threads do.
StopReturns == mainPc = "join" ~> mainPc = "idle"

\* The framing contract (spec.md, Uplink Event: "Exactly one uplink event may be open at
\* a time"): record_thread_func's upload_start never opens an event while
\* another one is still open.
AtMostOneUplinkEvent == Cardinality(open) <= 1

\* A finished record thread has released what it opened: the WAV file it
\* created has been closed by wav_writer_close, which writes the data and
\* RIFF sizes into its header, and its capture device has been closed.
RecordingReleased ==
  \A t \in Threads : tpc[t] = "done" => t \notin wavOpen \cup capOpen
====
