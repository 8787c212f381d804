---------------------------- MODULE MCConversation ----------------------------
(* Model checking of Conversation; the constants are in the .cfg files.    *)
EXTENDS Conversation
===============================================================================
