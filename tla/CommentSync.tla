----------------------------- MODULE CommentSync -----------------------------
(***************************************************************************)
(* The comments of one post: the walk over its top-level pages, the reply  *)
(* threads walked on the way, the rows that remain, and the cursor and the *)
(* count that a later sync starts from.  Both platforms' walks are here;   *)
(* they differ in what they resume, delete and count.                      *)
(*                                                                         *)
(* Comments are numbered in the order the platform lists them, which is    *)
(* stable; a cursor is the number of the last comment shown, 0 for none.   *)
(* One sync of the post runs at a time, and an action is what one commits. *)
(***************************************************************************)
EXTENDS Naturals, FiniteSets, FiniteSetsExt

CONSTANTS
  N,               (* bound: comments and replies the post ever gets        *)
  Parent,          (* Parent[c]: the comment c replies to, 0 at top level   *)
  Platforms,       (* of {"instagram", "youtube"}                           *)
  Caps,            (* values of max_comments_per_post, 0 for no limit       *)
  PageSize,        (* top-level comments on a page, at most                 *)
  InlineReplies,   (* replies YouTube lists with their comment, at most     *)
  ReplyPageSize,   (* replies on a page, at most                            *)
  MaxPages,        (* MAX_COMMENT_PAGES                                     *)
  MaxReplyPages,   (* MAX_REPLY_PAGES                                       *)
  Faults           (* what goes wrong, see FaultKinds                       *)

(* "fetch": a request fails for good.  "empty": an answer lacks its list   *)
(* of comments, which reads as a list without any.                         *)
FaultKinds == {"fetch", "empty", "worker_dies"}

Ids == 1 .. N

ASSUME ConstantsAssumption ==
  /\ N \in Nat
  /\ Parent \in [Ids -> 0 .. N]
  /\ \A c \in Ids : Parent[c] < c /\ (Parent[c] # 0 => Parent[Parent[c]] = 0)
  /\ Platforms \subseteq {"instagram", "youtube"}
  /\ Caps \subseteq Nat
  /\ PageSize \in Nat \ {0}
  /\ ReplyPageSize \in Nat \ {0}
  /\ InlineReplies \in Nat
  /\ MaxPages \in Nat
  /\ MaxReplyPages \in Nat
  /\ Faults \subseteq FaultKinds

VARIABLES
  platform,      (* the influencer's platform                               *)
  cap,           (* max_comments                                            *)
  born,          (* comments 1 .. born have been written                    *)
  gone,          (* those of them removed from the platform                 *)
  stored,        (* rows of comments                                        *)
  childCount,    (* childCount[c]: child_comment_count of its row           *)
  cursor,        (* post.comment_sync_cursor, as committed                  *)
  count,         (* post.comments_synced_count, as committed                *)
  news,          (* the post's reported number of comments is not the one   *)
                 (* of its last snapshot, or it has none                    *)
  pc,            (* what the sync is at                                     *)
  startedFresh,  (* started_fresh                                           *)
  after,         (* after, page_token                                       *)
  pages,         (* iterations of the top-level loop                        *)
  hasMore,       (* has_more of the last page                               *)
  seen,          (* seen_ids                                                *)
  threads,       (* comments of the page whose replies are still to walk    *)
  thread,        (* parent                                                  *)
  rAfter, rPages, rSeen,   (* the same locals of the walk of one thread     *)
  nextCursor, nextCount,   (* set on the attempt's object, not committed    *)
  torn           (* history: the last sync of the post was cut short        *)

world  == <<platform, cap, born, gone>>
rows   == <<stored, childCount>>
saved  == <<cursor, count, news>>
top    == <<startedFresh, after, pages, hasMore, seen, threads>>
reply  == <<thread, rAfter, rPages, rSeen>>
unsaved == <<nextCursor, nextCount>>
vars   == <<world, rows, saved, pc, top, reply, unsaved, torn>>

(* No reply outlives the row of the comment it answers, although           *)
(* the link is a plain column without a foreign key.                       *)
TypeOK ==
  /\ platform \in Platforms
  /\ cap \in Caps
  /\ born \in 0 .. N
  /\ gone \subseteq 1 .. born
  /\ stored \subseteq 1 .. born
  /\ \A c \in stored : Parent[c] # 0 => Parent[c] \in stored
  /\ childCount \in [Ids -> 0 .. N]
  /\ cursor \in 0 .. N
  /\ count \in 0 .. N
  /\ news \in BOOLEAN
  /\ pc \in {"idle", "top", "threads", "thread", "missing", "closing", "done"}
  /\ startedFresh \in BOOLEAN
  /\ after \in 0 .. N
  /\ pages \in 0 .. MaxPages
  /\ hasMore \in BOOLEAN
  /\ seen \subseteq Ids
  /\ threads \subseteq seen
  /\ thread \in 0 .. N
  /\ rAfter \in 0 .. N
  /\ rPages \in 0 .. MaxReplyPages
  /\ rSeen \subseteq Ids
  /\ nextCursor \in 0 .. N
  /\ nextCount \in 0 .. N
  /\ torn \in BOOLEAN

Init ==
  /\ platform \in Platforms
  /\ cap \in Caps
  /\ born = 0
  /\ gone = {}
  /\ stored = {}
  /\ childCount = [c \in Ids |-> 0]
  /\ cursor = 0
  /\ count = 0
  /\ news = TRUE
  /\ pc = "idle"
  /\ startedFresh = FALSE
  /\ after = 0
  /\ pages = 0
  /\ hasMore = FALSE
  /\ seen = {}
  /\ threads = {}
  /\ thread = 0
  /\ rAfter = 0
  /\ rPages = 0
  /\ rSeen = {}
  /\ nextCursor = 0
  /\ nextCount = 0
  /\ torn = FALSE

-----------------------------------------------------------------------------
(* The platform.                                                           *)

Live       == (1 .. born) \ gone
RepliesOf(p) == {c \in Live : Parent[c] = p}
TopLevel   == RepliesOf(0)

Appear ==
  /\ born < N
  /\ Parent[born + 1] \notin gone
  /\ born' = born + 1
  /\ UNCHANGED <<platform, cap, gone, rows, saved, pc, top, reply, unsaved, torn>>

(* A comment is never written because what it answers has been removed.    *)
NeverWritten ==
  /\ born < N
  /\ Parent[born + 1] \in gone
  /\ born' = born + 1
  /\ gone' = gone \union {born + 1}
  /\ UNCHANGED <<platform, cap, rows, saved, pc, top, reply, unsaved, torn>>

(* Deleted by its author or by moderation, its replies with it.            *)
Vanish(c) ==
  /\ c \in Live
  /\ gone' = gone \union {c} \union RepliesOf(c)
  /\ UNCHANGED <<platform, cap, born, rows, saved, pc, top, reply, unsaved, torn>>

(* An operator raises the influencer's limit; an attempt has read it when  *)
(* it began.                                                               *)
RaiseCap ==
  /\ pc = "idle"
  /\ cap' \in {k \in Caps : cap > 0 /\ (k = 0 \/ k > cap)}
  /\ UNCHANGED <<platform, born, gone, rows, saved, pc, top, reply, unsaved, torn>>

(* The reported number moves away from that of the last snapshot, or back  *)
(* to it, when it will: it counts what no list shows, and it lags.         *)
Report ==
  /\ news' = ~news
  /\ UNCHANGED <<world, rows, cursor, count, pc, top, reply, unsaved, torn>>

(* The page of the list S that follows cursor c and ends at last.          *)
Page(S, c, last) == {d \in S : c < d /\ d <= last}
More(S, c)       == \E d \in S : c < d
Ends(S, c, size) == {d \in S : c < d /\ Cardinality(Page(S, c, d)) <= size}

-----------------------------------------------------------------------------
(* The walk over the top-level comments.                                   *)

(* count_stored_comments(post) >= max_comments                             *)
Capped == cap > 0 /\ Cardinality(stored) >= cap

AlreadyCapped == cap > 0 /\ count >= cap

(* The post is a candidate if its number has changed, and on Instagram,    *)
(* for the enrich job, as long as it has no comments at all; one whose     *)
(* committed count has reached the cap is none.                            *)
IsCandidate ==
  /\ ~AlreadyCapped
  /\ news \/ (platform = "instagram" /\ count = 0)

(* A scrape takes a snapshot and does not sync: the post is no candidate,  *)
(* or others with more backlog use up MAX_POSTS_PER_SCRAPE.                *)
PassedOver ==
  /\ pc = "idle"
  /\ news
  /\ news' = FALSE
  /\ UNCHANGED <<world, rows, cursor, count, pc, top, reply, unsaved, torn>>

(* Faulty variant: every walk begins at the first page.                    *)
Begin_FromTop ==
  /\ pc = "idle"
  /\ IsCandidate
  /\ news' = FALSE
  /\ pc' = "top"
  /\ startedFresh' = TRUE
  /\ after' = 0
  /\ pages' = 0
  /\ seen' = {}
  /\ UNCHANGED <<world, rows, cursor, count, hasMore, threads, reply, unsaved, torn>>

(* The snapshot is committed before the comments are asked for.  Only      *)
(* Instagram's walk resumes.                                               *)
Begin ==
  /\ pc = "idle"
  /\ IsCandidate
  /\ news' = FALSE
  /\ pc' = "top"
  /\ startedFresh' = (platform = "instagram" /\ cursor = 0)
  /\ after' = IF platform = "instagram" THEN cursor ELSE 0
  /\ pages' = 0
  /\ seen' = {}
  /\ UNCHANGED <<world, rows, cursor, count, hasMore, threads, reply, unsaved, torn>>

(* A thread is walked only when its reported size is not what its row says *)
(* (a new comment has no row), and on YouTube only when not all of it came *)
(* with the page.                                                          *)
Changed(c, inline) ==
  LET reported == Cardinality(RepliesOf(c)) IN
  /\ reported > 0
  /\ c \notin stored \/ childCount[c] # reported
  /\ platform = "youtube" => reported > Cardinality(RepliesOf(c) \cap inline)

(* The replies listed with the comments of a page.                         *)
Inline(page) ==
  IF platform = "instagram" THEN {}
  ELSE UNION {{r \in RepliesOf(c) : Cardinality(Page(RepliesOf(c), 0, r)) <= InlineReplies} : c \in page}

Upsert(cs) ==
  /\ stored' = stored \union cs
  /\ childCount' = [c \in Ids |-> IF c \in cs THEN Cardinality(RepliesOf(c)) ELSE childCount[c]]

(* One page is stored, reply counts included, before its threads are       *)
(* walked.                                                                 *)
TopPage(last) ==
  LET page == Page(TopLevel, after, last) IN
  /\ pc = "top"
  /\ pages < MaxPages
  /\ ~Capped
  /\ last \in Ends(TopLevel, after, PageSize)
  /\ Upsert(page \union Inline(page))
  /\ seen' = seen \union page
  /\ threads' = {c \in page : Changed(c, Inline(page))}
  /\ hasMore' = More(TopLevel, last)
  /\ after' = IF hasMore' THEN last ELSE after
  /\ pages' = pages + 1
  /\ pc' = "threads"
  /\ UNCHANGED <<world, saved, startedFresh, reply, unsaved, torn>>

PageDone ==
  /\ pc = "threads"
  /\ threads = {}
  /\ pc' = IF hasMore THEN "top" ELSE "closing"
  /\ UNCHANGED <<world, rows, saved, top, reply, unsaved, torn>>

(* A page without comments is the natural end as well.                     *)
NoComments ==
  /\ pc = "top"
  /\ pages < MaxPages
  /\ ~Capped
  /\ ~More(TopLevel, after) \/ "empty" \in Faults
  /\ hasMore' = FALSE
  /\ pc' = "closing"
  /\ UNCHANGED <<world, rows, saved, startedFresh, after, pages, seen, threads, reply, unsaved, torn>>

Refresh(n) == nextCount' = n

(* MAX_COMMENT_PAGES or the cap: the walk is to go on from here.           *)
Truncated ==
  /\ pc = "top"
  /\ pages = MaxPages \/ Capped
  /\ nextCursor' = IF platform = "instagram" THEN after ELSE 0
  /\ Refresh(Cardinality(stored))
  /\ torn' = FALSE
  /\ pc' = "done"
  /\ UNCHANGED <<world, rows, saved, top, reply>>

(* Faulty variant: the replies of removed comments stay.                   *)
Missing_TopOnly(p, ids) == {c \in stored : Parent[c] = p /\ c \notin ids}

(* The rows of a parent's comments that a walk has not seen, and the       *)
(* replies to them.                                                        *)
Missing(p, ids) ==
  LET removed == {c \in stored : Parent[c] = p /\ c \notin ids}
  IN  removed \union {c \in stored : p = 0 /\ Parent[c] \in removed}

(* Faulty variant: a walk that resumed deletes what it has not seen.       *)
Deletes_Resumed == platform = "instagram"

Deletes == startedFresh

(* Faulty variant: the rows are counted before the missing ones are gone.  *)
Close_CountsFirst ==
  /\ pc = "closing"
  /\ stored' = stored \ (IF Deletes THEN Missing(0, seen) ELSE {})
  /\ nextCursor' = 0
  /\ Refresh(Cardinality(stored))
  /\ torn' = FALSE
  /\ pc' = "done"
  /\ UNCHANGED <<world, childCount, saved, top, reply>>

(* The natural end.  Only a walk from the first page deletes.              *)
Close ==
  /\ pc = "closing"
  /\ stored' = stored \ (IF Deletes THEN Missing(0, seen) ELSE {})
  /\ nextCursor' = 0
  /\ Refresh(Cardinality(stored'))
  /\ torn' = FALSE
  /\ pc' = "done"
  /\ UNCHANGED <<world, childCount, saved, top, reply>>

-----------------------------------------------------------------------------
(* The walk over one thread, always from its first page.                   *)

BeginThread(c) ==
  /\ pc = "threads"
  /\ c \in threads
  /\ \A d \in threads : c <= d
  /\ threads' = threads \ {c}
  /\ thread' = c
  /\ rAfter' = 0
  /\ rPages' = 0
  /\ rSeen' = {}
  /\ pc' = "thread"
  /\ UNCHANGED <<world, rows, saved, startedFresh, after, pages, hasMore, seen, unsaved, torn>>

(* What follows the end of a thread: only Instagram's walk deletes.        *)
ThreadEnd == IF platform = "instagram" THEN "missing" ELSE "threads"

(* Faulty variant: the cap is looked at between top-level pages only.      *)
ThreadCapped_Never == FALSE

ThreadCapped == Capped

ReplyPage(last) ==
  LET S == RepliesOf(thread)
      page == Page(S, rAfter, last)
  IN
  /\ pc = "thread"
  /\ rPages < MaxReplyPages
  /\ ~ThreadCapped
  /\ last \in Ends(S, rAfter, ReplyPageSize)
  /\ Upsert(page)
  /\ rSeen' = rSeen \union page
  /\ rPages' = rPages + 1
  /\ rAfter' = last
  /\ pc' = IF More(S, last) THEN "thread" ELSE ThreadEnd
  /\ UNCHANGED <<world, saved, top, thread, unsaved, torn>>

NoReplies ==
  /\ pc = "thread"
  /\ rPages < MaxReplyPages
  /\ ~ThreadCapped
  /\ ~More(RepliesOf(thread), rAfter) \/ "empty" \in Faults
  /\ pc' = ThreadEnd
  /\ UNCHANGED <<world, rows, saved, top, reply, unsaved, torn>>

(* A walk cut by MAX_REPLY_PAGES or by the cap deletes nothing.            *)
ThreadTruncated ==
  /\ pc = "thread"
  /\ rPages = MaxReplyPages \/ ThreadCapped
  /\ pc' = "threads"
  /\ UNCHANGED <<world, rows, saved, top, reply, unsaved, torn>>

DeleteMissingReplies ==
  /\ pc = "missing"
  /\ stored' = stored \ Missing(thread, rSeen)
  /\ pc' = "threads"
  /\ UNCHANGED <<world, childCount, saved, top, reply, unsaved, torn>>

-----------------------------------------------------------------------------
(* The end of the sync and of the attempt it is part of.                   *)

(* A request fails for good and the sync raises.  YouTube's still counts   *)
(* the rows ("finally"); Instagram's leaves cursor and count as they are.  *)
FetchFails ==
  /\ "fetch" \in Faults
  /\ pc \in {"top", "thread"}
  /\ nextCursor' = cursor
  /\ nextCount' = IF platform = "youtube" THEN Cardinality(stored) ELSE count
  /\ torn' = (platform = "instagram")
  /\ pc' = "done"
  /\ UNCHANGED <<world, rows, saved, top, reply>>

Forget ==
  /\ startedFresh' = FALSE
  /\ after' = 0
  /\ pages' = 0
  /\ hasMore' = FALSE
  /\ seen' = {}
  /\ threads' = {}
  /\ thread' = 0
  /\ rAfter' = 0
  /\ rPages' = 0
  /\ rSeen' = {}
  /\ nextCursor' = 0
  /\ nextCount' = 0

(* The post is an object of the attempt's session, so cursor and count     *)
(* wait for the attempt's next commit, which a failed sync waits for too.  *)
CommitAttempt ==
  /\ pc = "done"
  /\ cursor' = nextCursor
  /\ count' = nextCount
  /\ pc' = "idle"
  /\ Forget
  /\ UNCHANGED <<world, rows, news, torn>>

WorkerDies ==
  /\ "worker_dies" \in Faults
  /\ pc # "idle"
  /\ torn' = TRUE
  /\ pc' = "idle"
  /\ Forget
  /\ UNCHANGED <<world, rows, saved>>

-----------------------------------------------------------------------------
WorldStep == Appear \/ NeverWritten \/ RaiseCap \/ Report \/ \E c \in Ids : Vanish(c)

WalkStep == PageDone \/ NoComments \/ Truncated \/ Close \/ \E last \in Ids : TopPage(last)

TopStep == PassedOver \/ Begin \/ WalkStep

ReplyStep ==
  \/ NoReplies \/ ThreadTruncated \/ DeleteMissingReplies
  \/ \E c \in Ids : BeginThread(c) \/ ReplyPage(c)

Next ==
  \/ WorldStep \/ TopStep \/ ReplyStep
  \/ FetchFails \/ CommitAttempt \/ WorkerDies

Spec == Init /\ [][Next]_vars

(* A sync under way goes on.  That the post is picked again nothing        *)
(* guarantees: its number may stand still, or others be picked.            *)
FairSpec == Spec /\ WF_vars(WalkStep \/ ReplyStep \/ CommitAttempt)

-----------------------------------------------------------------------------
(* Properties.                                                             *)

(* Tombstones only meet comments that are really gone, however the walk    *)
(* was cut, resumed or capped and whatever changed under it.               *)
OnlyTheGoneAreDeleted == [][\A c \in stored \ stored' : c \in gone]_vars

(* The committed count, which the cap and the ranking by backlog read, is  *)
(* the number of rows whenever the last sync was not cut short.            *)
CountIsTrue == pc = "idle" /\ ~torn => count = Cardinality(stored)

(* A post goes past its cap by less than one answer of the platform, with  *)
(* top-level comments and replies together.                                *)
LargestAnswer ==
  Max({ReplyPageSize, IF platform = "instagram" THEN PageSize ELSE PageSize * (1 + InlineReplies)})
CapHolds == cap > 0 => Cardinality(stored) < cap + LargestAnswer

(* However many pages there are, each top-level comment that stays on      *)
(* Instagram is stored in the end, if the post is picked again and again:  *)
(* a truncated walk goes on where it stopped.  Failures and deaths must    *)
(* come to an end.                                                         *)
Calm == <>[][~FetchFails /\ ~WorkerDies]_vars
PickedAgain == []<><<Begin>>_vars
EveryCommentArrives ==
  Calm /\ PickedAgain => \A c \in {d \in Ids : Parent[d] = 0} :
    platform = "instagram" /\ cap = 0 /\ c \in Live ~> c \in stored \/ c \notin Live
=============================================================================
