------------------------------- MODULE FeedScan -------------------------------
(***************************************************************************)
(* One influencer's feed and the scrapes that walk it, the cookie          *)
(* processor's on Instagram or the API processor's on YouTube: which posts *)
(* get saved, how an interrupted backfill resumes, where a later walk may  *)
(* stop, and whose comments are fetched.                                   *)
(*                                                                         *)
(* Posts are numbered in the order they were published.  The feed shows    *)
(* pinned posts first and the others newest first, and its pages may be    *)
(* cut anywhere.  A cursor is the number of the last post it has shown.    *)
(* One attempt runs at a time, and an action is what one commits.          *)
(***************************************************************************)
EXTENDS Naturals, FiniteSets

CONSTANTS
  Platforms,     (* where the influencer may be                             *)
  N,             (* bound: posts that are ever published                    *)
  Pinned,        (* the posts pinned to the top of an Instagram feed        *)
  Disabled,      (* the videos whose comments are turned off on YouTube     *)
  Since,         (* the first post that is not before scrape_posts_since    *)
  Windowed,      (* settings.COMMENT_SYNC_WINDOW_DAYS is not 0              *)
  Cap,           (* the influencer's comments per post, 0 for no limit      *)
  MaxSync,       (* settings.MAX_POSTS_PER_SCRAPE                           *)
  MaxComments,   (* bound: comments a post ever gets                        *)
  Faults         (* what goes wrong, see FaultKinds                         *)

(* "fetch": a page cannot be fetched.  "empty": a page comes without items *)
(* though more were announced.  "sync": one post's comments cannot be      *)
(* fetched.  "blocked": the session is blocked or throttled meanwhile.     *)
(* "token_expires": YouTube no longer takes the cursor (invalidPageToken). *)
FaultKinds ==
  {"fetch", "empty", "sync", "blocked", "token_expires", "cancel", "worker_dies"}

Posts == 1 .. N
Top   == N + 1        (* no cursor: the walk begins at the top              *)

ASSUME ConstantsAssumption ==
  /\ Platforms \subseteq {"instagram", "youtube"}
  /\ N \in Nat
  /\ Pinned \subseteq Posts
  /\ Disabled \subseteq Posts
  /\ Since \in Nat
  /\ Windowed \in BOOLEAN
  /\ Cap \in Nat
  /\ MaxSync \in Nat
  /\ MaxComments \in Nat
  /\ Faults \subseteq FaultKinds

VARIABLES
  platform,      (* the influencer's                                        *)
  published,     (* the newest post there is, 0 before the first            *)
  inWindow,      (* the first post inside the comment window                *)
  comments,      (* comments[p]: comment_count as the platform reports it   *)
  stored,        (* posts that have a row                                   *)
  recorded,      (* recorded[p]: comments of its latest metrics snapshot    *)
  fetched,       (* fetched[p]: its rows in comments                        *)
  synced,        (* synced[p]: its comments_synced_count                    *)
  cursor,        (* influencer.backfill_cursor                              *)
  completed,     (* influencer.backfill_completed                           *)
  pc,            (* what the attempt is at                                  *)
  backfilling,   (* is_backfilling                                          *)
  at,            (* max_id, page_token                                      *)
  restarted,     (* restarted_after_invalid_token                           *)
  progress,      (* posts_processed is not 0                                *)
  candidates,    (* sync_candidates                                         *)
  todo,          (* what is left of posts_to_sync                           *)
  done,          (* those counted again, the count not yet committed        *)
  began,         (* history: the newest post when the walk left the top     *)
  horizon        (* history: began of the walk that committed the cursor    *)

world   == <<platform, published, inWindow, comments>>
saved   == <<stored, recorded, fetched, synced>>
resume  == <<cursor, completed>>
attempt == <<pc, backfilling, at, restarted, progress, candidates, todo, done, began>>
vars    == <<world, saved, resume, attempt, horizon>>

Places == {"idle", "paging", "advancing", "closing", "ranking", "syncing"}

TypeOK ==
  /\ platform \in Platforms
  /\ published \in 0 .. N
  /\ inWindow \in 1 .. N + 1
  /\ comments \in [Posts -> 0 .. MaxComments]
  /\ stored \subseteq 1 .. published
  /\ recorded \in [Posts -> 0 .. MaxComments]
  /\ fetched \in [Posts -> 0 .. MaxComments]
  /\ synced \in [Posts -> 0 .. MaxComments]
  /\ cursor \in 1 .. Top
  /\ completed \in BOOLEAN
  /\ pc \in Places
  /\ backfilling \in BOOLEAN
  /\ at \in 1 .. Top
  /\ restarted \in BOOLEAN
  /\ progress \in BOOLEAN
  /\ candidates \subseteq stored
  /\ todo \subseteq candidates
  /\ done \subseteq candidates
  /\ began \in 0 .. published
  /\ horizon \in 0 .. published

Init ==
  /\ platform \in Platforms
  /\ published = 0
  /\ inWindow = 1
  /\ comments = [p \in Posts |-> 0]
  /\ stored = {}
  /\ recorded = [p \in Posts |-> 0]
  /\ fetched = [p \in Posts |-> 0]
  /\ synced = [p \in Posts |-> 0]
  /\ cursor = Top
  /\ completed = FALSE
  /\ pc = "idle"
  /\ backfilling = FALSE
  /\ at = Top
  /\ restarted = FALSE
  /\ progress = FALSE
  /\ candidates = {}
  /\ todo = {}
  /\ done = {}
  /\ began = 0
  /\ horizon = 0

-----------------------------------------------------------------------------
(* The platform.                                                           *)

Publish ==
  /\ published < N
  /\ published' = published + 1
  /\ UNCHANGED <<platform, inWindow, comments, saved, resume, attempt, horizon>>

(* An attempt computes its cutoff once, when it starts: a post that leaves *)
(* the window meanwhile is old to the next one.                            *)
Age ==
  /\ pc = "idle"
  /\ inWindow <= published
  /\ inWindow' = inWindow + 1
  /\ UNCHANGED <<platform, published, comments, saved, resume, attempt, horizon>>

Comment(p) ==
  /\ p <= published
  /\ comments[p] < MaxComments
  /\ comments' = [comments EXCEPT ![p] = @ + 1]
  /\ UNCHANGED <<platform, published, inWindow, saved, resume, attempt, horizon>>

(* The uploads playlist has no pinned videos.                              *)
Pins == IF platform = "instagram" THEN Pinned ELSE {}

Chronological == (1 .. published) \ Pins
More(c)       == \E p \in Chronological : p < c

(* The page that follows cursor c and shows posts down to last.            *)
Page(c, last) ==
  {p \in Chronological : last <= p /\ p < c}
    \union (IF c = Top THEN Pins \cap (1 .. published) ELSE {})

-----------------------------------------------------------------------------
(* The walk.                                                               *)

(* The attempt is over and its locals with it.                             *)
Over ==
  /\ pc' = "idle"
  /\ backfilling' = FALSE
  /\ at' = Top
  /\ restarted' = FALSE
  /\ progress' = FALSE
  /\ candidates' = {}
  /\ todo' = {}
  /\ done' = {}
  /\ began' = 0

(* Faulty variant: every backfill begins at the top.                       *)
Start_FromTop ==
  /\ pc = "idle"
  /\ pc' = "paging"
  /\ backfilling' = ~completed
  /\ at' = Top
  /\ began' = published
  /\ UNCHANGED <<world, saved, resume, restarted, progress, candidates, todo, done, horizon>>

Start ==
  /\ pc = "idle"
  /\ pc' = "paging"
  /\ backfilling' = ~completed
  /\ at' = IF completed THEN Top ELSE cursor
  /\ began' = IF completed \/ cursor = Top THEN published ELSE horizon
  /\ UNCHANGED <<world, saved, resume, restarted, progress, candidates, todo, done, horizon>>

WithinWindow(p) == ~Windowed \/ p >= inWindow

(* Faulty variant: pinned posts count as "everything further back is old". *)
EndsFeed_PinnedToo(p) ==
  \/ p < Since /\ p \notin Pinned
  \/ ~backfilling /\ p \in stored /\ ~(Windowed /\ p >= inWindow)

(* The item of an Instagram page ends the walk: it is before               *)
(* scrape_posts_since, or a known post that is not worth refreshing.       *)
EndsFeed(p) ==
  /\ p \notin Pinned
  /\ \/ p < Since
     \/ ~backfilling /\ p \in stored /\ ~(Windowed /\ p >= inWindow)

(* The same of a page of uploads, where nothing is pinned.                 *)
EndsUploads(p) ==
  \/ p < Since
  \/ ~backfilling /\ p \in stored /\ ~(Windowed /\ p >= inWindow)

Stops(p) == IF platform = "instagram" THEN EndsFeed(p) ELSE EndsUploads(p)

(* The items of a page that are looked at before one ends the walk.        *)
LookedAt(page) == {p \in page : p \in Pins \/ \A q \in page : Stops(q) => q < p}

(* Known posts whose metrics are taken again.                              *)
Refreshed(page) ==
  {p \in LookedAt(page) \cap stored : ~backfilling /\ Windowed /\ p >= inWindow}

AlreadyCapped(p) == Cap > 0 /\ synced[p] >= Cap

(* Posts whose comments this run should fetch: new ones, and known ones    *)
(* whose reported count is not what their last snapshot recorded.          *)
ChosenPosts(page) ==
  {p \in LookedAt(page) \ stored : WithinWindow(p)}
    \union {p \in Refreshed(page) : ~AlreadyCapped(p) /\ recorded[p] # comments[p]}

(* Of the videos, those without comments are left out.                     *)
ChosenVideos(page) ==
  {p \in LookedAt(page) \ (stored \union Disabled) : WithinWindow(p)}
    \union {p \in Refreshed(page) \ Disabled :
             ~AlreadyCapped(p) /\ recorded[p] # comments[p]}

(* One page: its posts and snapshots are committed together.               *)
Save(page, chosen, last) ==
  LET new == LookedAt(page) \ stored
  IN  /\ pc = "paging"
      /\ \/ last \in Chronological /\ last < at
         \/ last = 1 /\ ~More(at)
      /\ page # {}
      /\ stored' = stored \union new
      /\ recorded' = [p \in Posts |->
           IF p \in new \union Refreshed(page) THEN comments[p] ELSE recorded[p]]
      /\ candidates' = candidates \union chosen
      /\ progress' = (progress \/ new # {})
      /\ at' = last
      /\ pc' = IF More(last) /\ ~\E p \in page : Stops(p) THEN "advancing" ELSE "closing"
      /\ UNCHANGED <<world, fetched, synced, resume, backfilling, restarted, todo, done,
                     began, horizon>>

SaveFeedPage(last) ==
  /\ platform = "instagram"
  /\ Save(Page(at, last), ChosenPosts(Page(at, last)), last)

(* A page of uploads is hydrated by one videos.list first.                 *)
SaveUploadsPage(last) ==
  /\ platform = "youtube"
  /\ Save(Page(at, last), ChosenVideos(Page(at, last)), last)

SavePage(last) == SaveFeedPage(last) \/ SaveUploadsPage(last)

(* The cursor is committed once the page it follows is.                    *)
Advance ==
  /\ pc = "advancing"
  /\ pc' = "paging"
  /\ cursor' = IF backfilling THEN at ELSE cursor
  /\ horizon' = IF backfilling THEN began ELSE horizon
  /\ UNCHANGED <<world, saved, completed, backfilling, at, restarted, progress, candidates, todo,
                 done, began>>

(* Nothing is left to walk.                                                *)
Close ==
  /\ pc = "closing"
  /\ pc' = "ranking"
  /\ completed' = (completed \/ backfilling)
  /\ cursor' = IF backfilling THEN Top ELSE cursor
  /\ UNCHANGED <<world, saved, backfilling, at, restarted, progress, candidates, todo, done, began,
                 horizon>>

(* A page without items ends the walk, but not the backfill.               *)
EmptyPage ==
  /\ pc = "paging"
  /\ \/ "empty" \in Faults
     \/ ~More(at) /\ Page(at, 1) = {}
  /\ pc' = "ranking"
  /\ UNCHANGED <<world, saved, resume, backfilling, at, restarted, progress, candidates, todo, done,
                 began, horizon>>

(* Without progress the attempt fails, to be retried; with some it makes   *)
(* do with the pages it has.                                               *)
FetchFails ==
  /\ "fetch" \in Faults
  /\ pc = "paging"
  /\ IF progress
     THEN /\ pc' = "ranking"
          /\ UNCHANGED <<backfilling, at, restarted, progress, candidates, todo, done, began>>
     ELSE Over
  /\ UNCHANGED <<world, saved, resume, horizon>>

(* The cursor of a backfill is no longer taken: once per attempt, the walk *)
(* begins again at the top.                                                *)
Restart ==
  /\ "token_expires" \in Faults
  /\ platform = "youtube"
  /\ pc = "paging"
  /\ at # Top
  /\ ~restarted
  /\ restarted' = TRUE
  /\ at' = Top
  /\ began' = published
  /\ UNCHANGED <<world, saved, resume, pc, backfilling, progress, candidates, todo, done, horizon>>

(* The page is there but videos.list fails: nothing catches that.          *)
HydrationFails ==
  /\ "fetch" \in Faults
  /\ platform = "youtube"
  /\ pc = "paging"
  /\ Over
  /\ UNCHANGED <<world, saved, resume, horizon>>

-----------------------------------------------------------------------------
(* The comments.                                                           *)

(* reported - comments_synced_count, not below 0                           *)
Backlog(p) == IF recorded[p] > synced[p] THEN recorded[p] - synced[p] ELSE 0

(* ranked_candidates[: MAX_POSTS_PER_SCRAPE]: the largest backlogs.        *)
Rank ==
  /\ pc = "ranking"
  /\ pc' = "syncing"
  /\ todo' \in SUBSET candidates
  /\ Cardinality(todo') = IF Cardinality(candidates) < MaxSync
                          THEN Cardinality(candidates) ELSE MaxSync
  /\ \A p \in todo', q \in candidates \ todo' : Backlog(p) >= Backlog(q)
  /\ UNCHANGED <<world, saved, resume, backfilling, at, restarted, progress, candidates, done, began,
                 horizon>>

(* Faulty variant: a comment is stored as often as it is seen.             *)
Fetched_Twice(p) == {comments[p] + fetched[p]}

(* The rows a complete fetch leaves.  The cap is looked at before a page   *)
(* of comments is asked for, and a page may take the count past it.        *)
Fetched(p) ==
  IF Cap > 0 /\ fetched[p] >= Cap THEN {fetched[p]}
  ELSE IF Cap > 0 /\ comments[p] > Cap THEN Cap .. comments[p] ELSE {comments[p]}

(* The rows are committed page by page in a session of their own; the      *)
(* count is set on an object of the attempt's session and waits for its    *)
(* next commit.                                                            *)
Sync(p) ==
  /\ pc = "syncing"
  /\ p \in todo
  /\ todo' = todo \ {p}
  /\ \E n \in Fetched(p) : fetched' = [fetched EXCEPT ![p] = n]
  /\ done' = done \union {p}
  /\ UNCHANGED <<world, stored, recorded, synced, resume, pc, backfilling, at, restarted, progress,
                 candidates, began, horizon>>

(* _sync_one logs any other exception and goes on: some rows may be there. *)
(* YouTube's walk counts them all the same, in a finally clause.           *)
SyncFails(p) ==
  /\ "sync" \in Faults
  /\ pc = "syncing"
  /\ p \in todo
  /\ todo' = todo \ {p}
  /\ \E n \in fetched[p] .. comments[p] : fetched' = [fetched EXCEPT ![p] = n]
  /\ done' = IF platform = "youtube" THEN done \union {p} ELSE done
  /\ UNCHANGED <<world, stored, recorded, synced, resume, pc, backfilling, at, restarted, progress,
                 candidates, began, horizon>>

CommitCounts == synced' = [p \in Posts |-> IF p \in done THEN fetched[p] ELSE synced[p]]

Finish ==
  /\ pc = "syncing"
  /\ todo = {}
  /\ CommitCounts
  /\ Over
  /\ UNCHANGED <<world, stored, recorded, fetched, resume, horizon>>

(* The attempt ends early: a block or throttle while comments are fetched, *)
(* which YouTube's _sync_one takes for one post's failure, or a cancel     *)
(* noticed at the top of the loop or between two posts.  What process()    *)
(* commits of that includes the counts.                                    *)
Interrupted ==
  /\ \/ "blocked" \in Faults /\ platform = "instagram" /\ pc = "syncing" /\ todo # {}
     \/ "cancel" \in Faults /\ pc \in {"paging", "syncing"}
  /\ CommitCounts
  /\ Over
  /\ UNCHANGED <<world, stored, recorded, fetched, resume, horizon>>

(* A worker's death between any two commits.                               *)
WorkerDies ==
  /\ "worker_dies" \in Faults
  /\ pc # "idle"
  /\ Over
  /\ UNCHANGED <<world, saved, resume, horizon>>

-----------------------------------------------------------------------------
WorldStep == Publish \/ Age \/ \E p \in Posts : Comment(p)

WalkStep ==
  \/ Start \/ Advance \/ Close \/ EmptyPage \/ FetchFails \/ Restart \/ HydrationFails
  \/ \E last \in Posts : SavePage(last)

SyncStep == Rank \/ Finish \/ \E p \in Posts : Sync(p) \/ SyncFails(p)

Next == WorldStep \/ WalkStep \/ SyncStep \/ Interrupted \/ WorkerDies

Spec == Init /\ [][Next]_vars

-----------------------------------------------------------------------------
(* Safety.                                                                 *)

InScope(p) == p >= Since \/ p \in Pins

(* A walk that ends by itself has missed nothing: a backfill, however      *)
(* often it was interrupted and resumed, has saved every post in scope     *)
(* that was there when it began, and a later walk every such post that is  *)
(* within the comment window.                                              *)
WalkMissesNothing ==
  pc = "closing" =>
    \A p \in 1 .. began :
      InScope(p) /\ (backfilling \/ (Windowed /\ p >= inWindow)) => p \in stored

-----------------------------------------------------------------------------
(* Liveness.  Attempts are dispatched again and again; a page is not lost  *)
(* to a failure or a death each time it is asked for, and a commit is not  *)
(* cut off each time it is due.                                            *)

Fairness ==
  /\ WF_vars(Start)
  /\ SF_vars(\E last \in Posts : SavePage(last))
  /\ SF_vars(Advance)
  /\ SF_vars(Close)
  /\ WF_vars(Rank)
  /\ SF_vars(\E p \in Posts : Sync(p))
  /\ WF_vars(Finish)

FairSpec == Spec /\ Fairness

(* A backfill gets to its end although every attempt at it may be          *)
(* interrupted: each resumes where the last one left off, unless YouTube   *)
(* turns the cursor of one after the other down for ever.                  *)
BackfillEnds == <>[][~Restart]_vars => (published > 0 ~> completed)
=============================================================================
