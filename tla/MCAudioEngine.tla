---------------------------- MODULE MCAudioEngine ----------------------------
(* An instance of AudioEngine and its jitter buffer for TLC. *)
EXTENDS AudioEngine
=============================================================================
