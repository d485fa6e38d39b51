---------------------------- MODULE PlaybackFifo ----------------------------
(***************************************************************************)
(* What the playback engine of ai_audio.c promises about the audio handed  *)
(* to it, without its threads, ring buffer, decoder window or timer: it    *)
(* holds one queue of accepted data that is not yet rendered.  Writes     *)
(* append at the tail.  The decoder renders a frame taken from the head,  *)
(* skipping what precedes it.  A decode error, the stall timer or stop    *)
(* throws away a prefix (stop: all of it).  So the sink receives a        *)
(* subsequence of what was accepted, in the order accepted, and nothing    *)
(* twice.                                                                  *)
(***************************************************************************)
EXTENDS Naturals, Sequences, SequencesExt

CONSTANT NoOut          \* out before anything is rendered

VARIABLES
  q,                    \* data accepted and not yet rendered or discarded
  out,                  \* the last unit of the last frame rendered
  played                \* frames rendered

fifoVars == <<q, out, played>>

Init == q = <<>> /\ out = NoOut /\ played = 0

\* A write copies data into the buffer behind what is already there.
Accept == IsPrefix(q, q') /\ UNCHANGED <<out, played>>

\* One frame, ending at position e of the queue, goes to the sink; what
\* precedes it is skipped.
Render ==
  \E e \in 1..Len(q) :
    /\ q' = SubSeq(q, e + 1, Len(q))
    /\ out' = q[e] /\ played' = played + 1

\* The first k units are thrown away.
Discard ==
  \E k \in 1..Len(q) :
    /\ q' = SubSeq(q, k + 1, Len(q))
    /\ UNCHANGED <<out, played>>

Next == Accept \/ Render \/ Discard

Spec == Init /\ [][Next]_fifoVars
=============================================================================
