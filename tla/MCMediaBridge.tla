---------------------------- MODULE MCMediaBridge -----------------------------
(* Model checking of MediaBridge; the constants are in the .cfg file.      *)
EXTENDS MediaBridge
===============================================================================
