-------------------------- MODULE MCRequestCache --------------------------
(* A small instance of RequestCache for TLC.  Tasks are alike, but there   *)
(* is no symmetry here: EveryCallEnds is a liveness property.              *)
EXTENDS RequestCache
===========================================================================
