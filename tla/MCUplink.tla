------------------------------ MODULE MCUplink ------------------------------
(* Uplink instantiated for TLC: three thread handles, so that a thread the *)
(* stop did not join can still be recording when the next one starts.      *)
EXTENDS Uplink

CONSTANTS t1, t2, t3

MCThreads == {t1, t2, t3}

====
