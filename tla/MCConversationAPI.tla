------------------------- MODULE MCConversationAPI -------------------------
(* ConversationAPI instantiated for TLC.                                   *)
EXTENDS ConversationAPI, TLC

Symmetry == Permutations(Requests)

===========================================================================
