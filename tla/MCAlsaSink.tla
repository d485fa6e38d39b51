----------------------------- MODULE MCAlsaSink -----------------------------
(* Instantiation of AlsaSink for TLC: streams of a mono 16 kHz format fA *)
(* and, where it matters, a second format fB.                           *)
EXTENDS AlsaSink

CONSTANTS fA, fB

MCFormats1 == {fA}
MCFormats2 == {fA, fB}
=============================================================================
