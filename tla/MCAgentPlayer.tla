--------------------------- MODULE MCAgentPlayer ---------------------------
(* AgentPlayer instantiated for TLC: the receive thread r and the IoT      *)
(* thread a call the player; the cloud has two events, k1 and k2, and the  *)
(* alert has the id alert.                                                 *)
EXTENDS AgentPlayer

CONSTANTS r, a, k1, k2, alert

MCCallersRA == {r, a}
MCIdsRA == [w \in {r, a} |-> IF w = r THEN {k1, k2} ELSE {alert}]

\* R's event_id may also be NULL (failed copy) or rejected by start (an
\* empty or oversize AUDIO_START payload).
MCIdsOddRA == [w \in {r, a} |-> IF w = r THEN {k1, k2, NULL, BadId} ELSE {alert}]
=============================================================================
