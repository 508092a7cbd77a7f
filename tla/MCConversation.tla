--------------------------- MODULE MCConversation ---------------------------
(***************************************************************************)
(* Small instances of Conversation: Asks bounds the thread.                *)
(***************************************************************************)
EXTENDS Conversation
=============================================================================
