---------------------------- MODULE MCAgentChat ----------------------------
(* Instances of AgentChat.                                                 *)
EXTENDS AgentChat, TLC

MCBatches == {<<"shell">>, <<"unknown">>, <<"free", "shell">>}
=============================================================================
