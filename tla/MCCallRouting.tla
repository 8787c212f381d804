---------------------------- MODULE MCCallRouting ----------------------------
(* Model checking of CallRouting; the constants are in the .cfg files.     *)
EXTENDS CallRouting
===============================================================================
