--------------------------- MODULE MCAudioPlayer ---------------------------
(* Instantiation of AudioPlayer for TLC.  The stream thread s delivers the *)
(* agent's audio (start/write/stop from the message callback), the event   *)
(* thread e calls stop on a chat break, and the main thread m plays alerts *)
(* with its own ids.                                                       *)
EXTENDS AudioPlayer

CONSTANTS s, e, m, idA, idB, alertId

\* One writer and one stopper.
MCCallers1 == {s, e}
MCWriters1 == {s}
MCWriterIds1 == [w \in {s} |-> {idA, idB}]

\* The same writer, whose ids include NULL (event_id malloc failure) and a
\* rejected id (audio-start payload empty or longer than 256 bytes).
MCWriterIdsOdd == [w \in {s} |-> {idA, NULL, BadId}]

\* Stream writer, alert writer and stopper.
MCCallers2 == {s, e, m}
MCWriters2 == {s, m}
MCWriterIds2 == [w \in {s, m} |-> IF w = s THEN {idA, idB} ELSE {alertId}]
=============================================================================
