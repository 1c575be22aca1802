----------------------------- MODULE RequestsMC -----------------------------
\* Instances of Requests for TLC.
EXTENDS Requests, TLC

CONSTANTS c1, c2, c3, m1, m2, m3

SomeChars == {"a", "u", "n", "s", "r", "1", "2", Slash}
ThreeCallers == {c1, c2, c3}
TwoIds == {m1, m2}
ThreeIds == {m1, m2, m3}
SomeTools ==
    {"mem0_add", "mem0_get_all", "mem0_delete", "mem0_doctor", "memory_search", "memory_read"}
ClientOps == {"add", "search", "get", "get_all", "update", "delete", "history", "list_entities"}
TwoLatencies == {1, 2}

\* The service could give its ids in any order.
IdSymmetry == Permutations(Ids)

RunKey(run) ==
    [AppID |-> <<"a">>, UserID |-> <<"u">>, Namespace |-> <<"n", "s">>, RunID |-> run]

\* Two runs whose ids hold a slash, and one with a slash in its namespace and
\* the text of the first.
ThreeKeys ==
    (c1 :> RunKey(<<"r", "/", "1">>)) @@ (c2 :> RunKey(<<"r", "/", "2">>)) @@
    (c3 :> [AppID |-> <<"a">>, UserID |-> <<"u">>,
            Namespace |-> <<"n", "s", "/", "r">>, RunID |-> <<"1">>])
=============================================================================
