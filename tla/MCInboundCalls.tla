---------------------------- MODULE MCInboundCalls ----------------------------
(* Model checking of InboundCalls; the constants are in the .cfg file.     *)
EXTENDS InboundCalls
===============================================================================
