----------------------------- MODULE MCProvider -----------------------------
(* Small instances of Provider. *)
EXTENDS Provider

CONSTANTS r1, r2

TwoRequests == {r1, r2}
SomeConfigs == {<<"openai", 1, "none">>, <<"openai", 2, "foreground">>,
                <<"anthropic", 1, "background">>, <<"anthropic", 2, "none">>}
OpenAI == {<<"openai", 1, "none">>}
RateLimits == [foreground |-> 2, background |-> 0]
Connections == [foreground |-> 1, background |-> 1]
Overloads == [foreground |-> 2, background |-> 1]
=============================================================================
