----------------------------- MODULE MCDownlink -----------------------------
(* Downlink instantiated for TLC: two cloud events, so that a break of the *)
(* first can meet packets of the first after it and the start of the      *)
(* second.                                                                 *)
EXTENDS Downlink

CONSTANTS e1, e2

MCEventIds == {e1, e2}
====
