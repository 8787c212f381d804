---------------------------- MODULE MCVoiceSession ----------------------------
(* Model checking of VoiceSession; the constants are in the .cfg files.    *)
EXTENDS VoiceSession
===============================================================================
