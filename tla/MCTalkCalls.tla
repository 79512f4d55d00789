---------------------------- MODULE MCTalkCalls ----------------------------
(* TalkCalls for TLC: two people and two calls, which meet in every order; *)
(* and TalkLines over every script of five keys and lines said, with lines *)
(* cut at three: a line said may be short, just as long as a line can be,  *)
(* one longer, or cut more than once.                                      *)
EXTENDS TalkCalls

MCTexts == {<<"x">>, <<"x", "space", "x">>, <<"space", "x", "x", "space">>,
            <<"x", "x", "x", "space", "x", "x", "x">>}
=============================================================================
