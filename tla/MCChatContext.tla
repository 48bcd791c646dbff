--------------------------- MODULE MCChatContext ----------------------------
(***************************************************************************)
(* Root of the TLC run of the chat context.                                *)
(***************************************************************************)
EXTENDS ChatContextProperties

(* A user's message, a longer answer, and an answer that a follow-up       *)
(* message superseded.                                                     *)
Kinds ==
    {[tokens |-> 1, prompt |-> TRUE, user |-> TRUE],
     [tokens |-> 2, prompt |-> TRUE, user |-> FALSE],
     [tokens |-> 1, prompt |-> FALSE, user |-> FALSE]}
=============================================================================
