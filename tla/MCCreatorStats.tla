---------------------------- MODULE MCCreatorStats ----------------------------
(* Values for the constants of CreatorStats.                                *)
EXTENDS CreatorStats

(* A profile for the charts and milestones; a post with all kinds of rows;  *)
(* two posts; and posts that are scored.                                    *)
Kinds     == {"profile", "post", "two", "scores"}
DaysFor   == [profile |-> 5, post |-> 4, two |-> 3, scores |-> 1]
PostsFor  == [profile |-> 0, post |-> 1, two |-> 2, scores |-> 5]
ValuesFor == [profile |-> 0 .. 3, post |-> {1}, two |-> {1}, scores |-> {1}]
ChartsFor == [profile |-> {2, 4}, post |-> {1, 2}, two |-> {1}, scores |-> {1}]

(* Videos, photos, hidden likes, and what the Graph API reads of a video;   *)
(* for scores, posts with likes alone do.                                   *)
ReadingsFor ==
  [profile |-> {},
   post |-> [views : {1, 3}, likes : {1}]
              \union {[views |-> 0, likes |-> 1], [views |-> Null, likes |-> 2], Blank},
   two |-> {[views |-> 1, likes |-> 2], [views |-> 3, likes |-> Null], [views |-> Null, likes |-> 2]},
   scores |-> [views : {0}, likes : {0, 2}]]
=============================================================================
