---------------------------- MODULE MCCommentSync ----------------------------
(* Values for the constants of CommentSync: three top-level comments, the   *)
(* first with two replies.                                                  *)
EXTENDS CommentSync

Threads     == <<0, 1, 0, 1, 0>>
Both        == {"instagram", "youtube"}
NoneOrTwo   == {0, 2}
CutShort    == {"fetch", "worker_dies"}
Emptied     == {"empty"}
=============================================================================
