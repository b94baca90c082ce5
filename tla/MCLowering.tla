----------------------------- MODULE MCLowering -----------------------------
(* Instance of Lowering for TLC: the role policies of the repository's      *)
(* README for GLM, Qwen and Gemma, the merging one of the tests of          *)
(* responses_to_chat.rs, and one that drops a role.                         *)
EXTENDS Lowering

Roles(user, tool, system, developer) ==
    [user |-> user, assistant |-> <<Accepts>>, tool |-> tool,
     system |-> system, developer |-> developer]
As(role) == Rule("always", "rewrite", role, FALSE)
Inline(role) == Rule("inline", "rewrite", role, FALSE)
Tagged(rule) == [rule EXCEPT !.tagged = TRUE]
Policy(merge, rules) == [merge |-> merge, rules |-> rules]

Glm == Policy({}, Roles(<<Accepts>>, <<Accepts>>, <<Accepts>>, <<Tagged(As("system"))>>))
Qwen == Policy({}, Roles(<<Accepts>>, <<Accepts>>, <<Inline("user"), Accepts>>,
                         <<Inline("user"), As("system")>>))
Gemma == Policy({"user"}, Roles(<<Accepts>>, <<Tagged(As("user"))>>, <<As("user")>>, <<>>))
Developers ==
    Policy({"developer"}, Roles(<<Accepts>>, <<Accepts>>,
                                <<Rule("leading", "accept", "", FALSE), Inline("developer")>>,
                                <<Tagged(Accepts)>>))
Mute == Policy({"user", "system"}, Roles(<<Accepts>>, <<Accepts>>, <<Inline("user"), Accepts>>,
                                         <<Rule("always", "drop", "", FALSE)>>))
MCRolePolicies == {NoPolicy, Glm, Qwen, Gemma, Developers, Mute}

MCShapes == {<<"text">>, <<"think", "text">>, <<"think", "call">>, <<"call", "call">>}
MCOtherShapes == {<<"think">>, <<"call", "think">>, <<"search", "text">>,
                  <<"text", "think", "call">>}
=============================================================================
