--------------------------- MODULE MCConversation ---------------------------
(* Instances of Conversation for TLC: every name is resolved to the same    *)
(* model, and ann's conversation is longer than the others.                *)
EXTENDS Conversation

MCServed == [m \in Models |-> "glm"]
MCMaxItems == [c \in Clients |-> IF c = "ann" THEN 4 ELSE 2]
=============================================================================
