---------------------------- MODULE MCLiveLinks ----------------------------
(***************************************************************************)
(* LiveLinks for TLC.  WebSocket threads are interchangeable.              *)
(***************************************************************************)
EXTENDS LiveLinks, TLC

WsSymmetry == Permutations(WsThreads)
=============================================================================
