------------------------------ MODULE HybridScan ------------------------------
(***************************************************************************)
(* One Instagram influencer on the hybrid backend.  The Graph job finds    *)
(* posts and keeps their likes and comment counts, the enrich job reads    *)
(* the cookie feed and adds views, the cookie API's media id and comments. *)
(* They share the posts and, per post and day, one metrics snapshot; each  *)
(* looks for today's row before it inserts one.                            *)
(*                                                                         *)
(* Posts are numbered in the order they were published.  A position is the *)
(* number of the last post shown, Top before the first page.  The two jobs *)
(* interleave: a page is read in one step and committed in a later one.    *)
(* The influencer has no comment limit; CommentSync has one.               *)
(***************************************************************************)
EXTENDS Integers, FiniteSets

CONSTANTS
  N,               (* bound: posts that are ever published                  *)
  Pinned,          (* posts pinned to the top of the cookie feed            *)
  Since,           (* the first post not before scrape_posts_since          *)
  MaxSync,         (* settings.MAX_POSTS_PER_SCRAPE                         *)
  MaxComments,     (* bound: comments a post ever gets                      *)
  MaxMediaPages,   (* _MAX_MEDIA_PAGES                                      *)
  FeedPages,       (* settings.INSTAGRAM_ENRICH_FEED_PAGES                  *)
  Faults           (* what goes wrong, see FaultKinds                       *)

(* "fails": an attempt ends early (a request that fails, a cancel, a       *)
(* death).  "sync": a post's comments cannot be fetched.  "null_views": a  *)
(* reel comes without its play count.                                      *)
FaultKinds == {"fails", "sync", "null_views"}

Posts == 1 .. N
Top   == N + 1
None  == 0 - 1
Nothing == [p \in {} |-> 0]

ASSUME ConstantsAssumption ==
  /\ N \in Nat
  /\ Pinned \subseteq Posts
  /\ Since \in Nat
  /\ MaxSync \in Nat
  /\ MaxComments \in Nat
  /\ MaxMediaPages \in Nat
  /\ FeedPages \in Nat
  /\ Faults \subseteq FaultKinds

VARIABLES
  published,     (* the newest post there is                                *)
  inWindow,      (* the first post inside COMMENT_SYNC_WINDOW_DAYS          *)
  comments,      (* comments[p]: comment_count as both APIs report it       *)
  stored,        (* posts that have a row                                   *)
  linked,        (* those whose media_pk is the cookie API's                *)
  dayRows,       (* dayRows[p]: its metrics snapshots of today              *)
  recorded,      (* recorded[p]: comments of its latest snapshot, or None   *)
  views,         (* views[p]: of today's snapshot: "none", "zero", "real"   *)
  synced,        (* synced[p]: comments_synced_count                        *)
  gpc, gat, gpages,      (* the Graph job                                   *)
  gitems,        (* the comment counts of the page at hand                  *)
  gsaw,          (* its posts that had a snapshot of today                  *)
  horizon,       (* history: the newest post when it began                  *)
  calm,          (* enrich attempts fail no more                            *)
  epc, eat, epages, eitems, esaw,        (* the enrich job, likewise        *)
  candidates,    (* sync_candidates                                         *)
  reported       (* reported[p]: candidate_reported_counts                  *)

world  == <<published, inWindow, comments>>
posts  == <<stored, linked>>
metrics == <<dayRows, recorded, views>>
graph  == <<gpc, gat, gpages, gitems, gsaw, horizon>>
enrich == <<epc, eat, epages, eitems, esaw, candidates, reported>>
vars   == <<world, posts, metrics, synced, graph, enrich, calm>>

TypeOK ==
  /\ published \in 0 .. N
  /\ inWindow \in 1 .. N + 1
  /\ comments \in [Posts -> 0 .. MaxComments]
  /\ stored \subseteq 1 .. published
  /\ linked \subseteq stored
  /\ dayRows \in [Posts -> 0 .. 2]
  /\ recorded \in [Posts -> None .. MaxComments]
  /\ views \in [Posts -> {"none", "zero", "real"}]
  /\ synced \in [Posts -> 0 .. MaxComments]
  /\ gpc \in {"idle", "reading", "writing"}
  /\ gat \in 1 .. Top
  /\ gpages \in 0 .. MaxMediaPages
  /\ \E S \in SUBSET Posts : gitems \in [S -> 0 .. MaxComments]
  /\ gsaw \subseteq DOMAIN gitems
  /\ horizon \in 0 .. published
  /\ calm \in BOOLEAN
  /\ epc \in {"idle", "reading", "writing", "syncing"}
  /\ eat \in 1 .. Top
  /\ epages \in 0 .. FeedPages
  /\ \E S \in SUBSET stored : eitems \in [S -> 0 .. MaxComments]
  /\ esaw \subseteq DOMAIN eitems
  /\ candidates \subseteq stored
  /\ reported \in [Posts -> 0 .. MaxComments]

GraphOver ==
  /\ gpc' = "idle"
  /\ gat' = Top
  /\ gpages' = 0
  /\ gitems' = Nothing
  /\ gsaw' = {}

EnrichOver ==
  /\ epc' = "idle"
  /\ eat' = Top
  /\ epages' = 0
  /\ eitems' = Nothing
  /\ esaw' = {}
  /\ candidates' = {}
  /\ reported' = [p \in Posts |-> 0]

Init ==
  /\ published = 0
  /\ inWindow = 1
  /\ comments = [p \in Posts |-> 0]
  /\ stored = {}
  /\ linked = {}
  /\ dayRows = [p \in Posts |-> 0]
  /\ recorded = [p \in Posts |-> None]
  /\ views = [p \in Posts |-> "none"]
  /\ synced = [p \in Posts |-> 0]
  /\ gpc = "idle" /\ gat = Top /\ gpages = 0 /\ gitems = Nothing /\ gsaw = {}
  /\ horizon = 0
  /\ calm = FALSE
  /\ epc = "idle" /\ eat = Top /\ epages = 0 /\ eitems = Nothing /\ esaw = {}
  /\ candidates = {} /\ reported = [p \in Posts |-> 0]

-----------------------------------------------------------------------------
(* Instagram and the calendar.                                             *)

Publish ==
  /\ published < N
  /\ published' = published + 1
  /\ UNCHANGED <<inWindow, comments, posts, metrics, synced, graph, enrich, calm>>

(* Comments on posts that are out of scope are never looked at.            *)
Comment(p) ==
  /\ p \in Since .. published
  /\ comments[p] < MaxComments
  /\ comments' = [comments EXCEPT ![p] = @ + 1]
  /\ UNCHANGED <<published, inWindow, posts, metrics, synced, graph, enrich, calm>>

(* Midnight UTC: no row of today yet.  An attempt computes its cutoffs     *)
(* once, so a post leaves the window between attempts.                     *)
NewDay ==
  /\ gpc = "idle" /\ epc = "idle"
  /\ dayRows' = [p \in Posts |-> 0]
  /\ views' = [p \in Posts |-> "none"]
  /\ inWindow' \in {inWindow} \union {w \in {inWindow + 1} : inWindow <= published}
  /\ UNCHANGED <<published, comments, posts, recorded, synced, graph, enrich, calm>>

More(S, c) == \E p \in S : p < c

(* The posts of S that follow position c, down to last.                    *)
Page(S, c, last) == {p \in S : last <= p /\ p < c}

-----------------------------------------------------------------------------
(* The Graph job.  Its media edge is newest first, pins or not.            *)

Feed == 1 .. published

GraphStart ==
  /\ gpc = "idle"
  /\ gpc' = "reading"
  /\ gat' = Top
  /\ gpages' = 0
  /\ horizon' = published
  /\ UNCHANGED <<gitems, gsaw, world, posts, metrics, synced, enrich, calm>>

(* Faulty variant: any known post ends the walk.                           *)
GraphStops_Known(p) == p < Since \/ p \in stored

GraphStops(p) == p < Since \/ (p \in stored /\ p < inWindow)

(* The items that are dealt with before one ends the walk.                 *)
Until(page, stops) == {p \in page : \A q \in page \cap stops : q < p}

Twice(ps) == \E p \in ps : dayRows[p] > 1

(* A page is looked up item by item: the post, and today's snapshot of it. *)
GraphRead(last) ==
  LET page  == Page(Feed, gat, last)
      stops == {p \in page : GraphStops(p)}
  IN
  /\ gpc = "reading"
  /\ last \in Feed /\ last < gat
  /\ gitems' = [p \in Until(page, stops) |-> comments[p]]
  /\ ~Twice(DOMAIN gitems')
  /\ gsaw' = {p \in DOMAIN gitems' : dayRows[p] = 1}
  /\ gat' = IF stops # {} THEN 1 ELSE last
  /\ gpc' = "writing"
  /\ UNCHANGED <<gpages, horizon, world, posts, metrics, synced, enrich, calm>>

SavePosts == stored' = stored \union DOMAIN gitems

(* A snapshot for each post without one today, and the counts the page     *)
(* came with.                                                              *)
InsertMissing(items, saw) ==
  dayRows' = [p \in Posts |-> IF p \in DOMAIN items \ saw THEN dayRows[p] + 1 ELSE dayRows[p]]

(* New posts, and every post's snapshot of today, in one commit.  Views    *)
(* are left alone.  gat is 1 once nothing is to follow.                    *)
GraphWrite ==
  /\ gpc = "writing"
  /\ SavePosts
  /\ InsertMissing(gitems, gsaw)
  /\ recorded' = [p \in Posts |-> IF p \in DOMAIN gitems THEN gitems[p] ELSE recorded[p]]
  /\ IF More(Feed, gat) /\ gpages + 1 < MaxMediaPages
     THEN /\ gpc' = "reading"
          /\ gpages' = gpages + 1
          /\ gitems' = Nothing
          /\ gsaw' = {}
          /\ UNCHANGED gat
     ELSE GraphOver
  /\ UNCHANGED <<linked, views, horizon, world, synced, enrich, calm>>

(* A page without items; the first one comes with the profile.             *)
GraphEmpty ==
  /\ gpc = "reading"
  /\ ~More(Feed, gat)
  /\ GraphOver
  /\ UNCHANGED <<horizon, world, posts, metrics, synced, enrich, calm>>

GraphFails ==
  /\ "fails" \in Faults
  /\ gpc # "idle"
  /\ GraphOver
  /\ UNCHANGED <<horizon, world, posts, metrics, synced, enrich, calm>>

(* scalar_one_or_none() raises on two rows, for the rest of the day.       *)
GraphRaises ==
  /\ gpc = "reading" /\ Twice(stored)
  /\ GraphOver
  /\ UNCHANGED <<horizon, world, posts, metrics, synced, enrich, calm>>

-----------------------------------------------------------------------------
(* The enrich job.  The cookie feed shows pinned posts first.              *)

CookieFeed == (1 .. published) \ Pinned

CookiePage(c, last) ==
  Page(CookieFeed, c, last) \union (IF c = Top THEN Pinned \cap (1 .. published) ELSE {})

EnrichStart ==
  /\ epc = "idle"
  /\ FeedPages > 0
  /\ epc' = "reading"
  /\ UNCHANGED <<eat, epages, eitems, esaw, candidates, reported, world, posts, metrics, synced, graph, calm>>

EnrichStops(p) == p \notin Pinned /\ (p < Since \/ p < inWindow)

(* Faulty variant: the reported count decides alone, as it does in the     *)
(* cookie scrape.                                                          *)
IsCandidate_DiffOnly(syncedCount, previous, current) == previous # current

(* _is_comment_sync_candidate                                              *)
IsCandidate(syncedCount, previous, current) == syncedCount = 0 \/ previous # current

(* Faulty variant: an item without a post row is dealt with as well.      *)
Matched_All(items) == items

(* existing_by_code: posts that are new since the last Graph job are left  *)
(* to the next one.                                                        *)
Matched(items) == items \cap stored

(* The previous count is read when today's snapshot has been merged: one   *)
(* just inserted shows the current count, one of today's Graph job its.    *)
EnrichRead(last) ==
  LET page  == CookiePage(eat, last)
      stops == {p \in page : EnrichStops(p)}
      dealt == (page \cap Pinned) \union Until(page \ Pinned, stops)
      previous(p) == IF dayRows[p] = 0 THEN comments[p] ELSE recorded[p]
  IN
  /\ epc = "reading"
  /\ \/ last \in CookieFeed /\ last < eat
     \/ last = 1 /\ ~More(CookieFeed, eat)
  /\ page # {}
  /\ eitems' = [p \in Matched(dealt) |-> comments[p]]
  /\ ~Twice(DOMAIN eitems')
  /\ esaw' = {p \in DOMAIN eitems' : dayRows[p] = 1}
  /\ candidates' = candidates \union
       {p \in DOMAIN eitems' : IsCandidate(synced[p], previous(p), comments[p])}
  /\ reported' = [p \in Posts |-> IF p \in candidates' \cap DOMAIN eitems' THEN comments[p] ELSE reported[p]]
  /\ eat' = IF stops # {} THEN 1 ELSE last
  /\ epc' = "writing"
  /\ UNCHANGED <<epages, world, posts, metrics, synced, graph, calm>>

(* Faulty variant: only a post that has no media id gets one.              *)
Link_Kept == linked' = linked

(* _apply_cookie_only_fields: comments are asked for with this media id.   *)
Link == linked' = linked \union DOMAIN eitems

(* An item without a play count is parsed to 0, which is not None.         *)
EnrichWrite ==
  /\ epc = "writing"
  /\ Link
  /\ InsertMissing(eitems, esaw)
  /\ recorded' = [p \in Posts |-> IF p \in DOMAIN eitems \ esaw THEN eitems[p] ELSE recorded[p]]
  /\ \E nulls \in SUBSET (IF "null_views" \in Faults THEN DOMAIN eitems ELSE {}) :
       views' = [p \in Posts |-> IF p \in nulls THEN "zero"
                                 ELSE IF p \in DOMAIN eitems THEN "real" ELSE views[p]]
  /\ epc' = IF More(CookieFeed, eat) /\ epages + 1 < FeedPages THEN "reading" ELSE "syncing"
  /\ epages' = epages + 1
  /\ eitems' = Nothing
  /\ esaw' = {}
  /\ UNCHANGED <<eat, candidates, reported, stored, world, synced, graph, calm>>

EnrichEmpty ==
  /\ epc = "reading"
  /\ CookiePage(eat, 1) = {}
  /\ epc' = "syncing"
  /\ UNCHANGED <<eat, epages, eitems, esaw, candidates, reported, world, posts, metrics, synced, graph, calm>>

EnrichFails ==
  /\ "fails" \in Faults
  /\ ~calm
  /\ epc # "idle"
  /\ EnrichOver
  /\ UNCHANGED <<world, posts, metrics, synced, graph, calm>>

EnrichRaises ==
  /\ epc = "reading" /\ Twice(stored)
  /\ EnrichOver
  /\ UNCHANGED <<world, posts, metrics, synced, graph, calm>>

Backlog(p) == IF reported[p] > synced[p] THEN reported[p] - synced[p] ELSE 0

(* ranked_candidates[: MAX_POSTS_PER_SCRAPE], the furthest behind first.   *)
Ranked(chosen) ==
  /\ chosen \subseteq candidates
  /\ Cardinality(chosen) = IF Cardinality(candidates) < MaxSync THEN Cardinality(candidates) ELSE MaxSync
  /\ \A p \in chosen, q \in candidates \ chosen : Backlog(p) >= Backlog(q)

(* The comments of the chosen posts are fetched, except of those that      *)
(* fail, and the counts committed with the attempt.  What is asked for     *)
(* with another media id comes back empty.                                 *)
EnrichSync(chosen, ok) ==
  /\ epc = "syncing"
  /\ Ranked(chosen)
  /\ ok \subseteq chosen
  /\ synced' = [p \in Posts |-> IF p \in ok \cap linked THEN comments[p] ELSE synced[p]]
  /\ EnrichOver
  /\ UNCHANGED <<world, posts, metrics, graph, calm>>

-----------------------------------------------------------------------------
WorldStep == Publish \/ NewDay \/ \E p \in Posts : Comment(p)

GraphStep == GraphStart \/ GraphWrite \/ GraphEmpty \/ \E last \in Posts : GraphRead(last)

EnrichStep ==
  \/ EnrichStart \/ EnrichWrite \/ EnrichEmpty \/ EnrichRaises
  \/ \E last \in Posts : EnrichRead(last)
  \/ \E chosen \in SUBSET candidates : EnrichSync(chosen, chosen)

SyncFails ==
  /\ "sync" \in Faults
  /\ ~calm
  /\ \E chosen \in SUBSET candidates : \E ok \in SUBSET chosen : EnrichSync(chosen, ok)

CalmDown ==
  /\ calm' = TRUE
  /\ UNCHANGED <<world, posts, metrics, synced, graph, enrich>>

Next ==
  \/ WorldStep \/ GraphStep \/ GraphFails \/ GraphRaises
  \/ EnrichStep \/ EnrichFails \/ SyncFails \/ CalmDown

Spec == Init /\ [][Next]_vars

(* Enrich jobs are dispatched again and again, and each goes on.           *)
FairSpec == Spec /\ WF_vars(EnrichStep)

-----------------------------------------------------------------------------
(* Properties.                                                             *)

(* A Graph walk that its page limit does not cut has found every post that *)
(* was there when it began and is still in the window, whatever gaps       *)
(* failed walks before it have left.                                       *)
WindowIsFound ==
  gpc = "writing" /\ ~More(Feed, gat) =>
    \A p \in 1 .. horizon : p >= Since /\ p >= inWindow => p \in stored \union DOMAIN gitems

(* Comments are asked for with the cookie API's media id only: with the    *)
(* Graph's, which belongs to another namespace, none would come back and   *)
(* the post would look synced.                                             *)
CommentsOfTheRightMedia == epc = "syncing" => candidates \subseteq linked

(* A post's first comments are fetched although the Graph job refreshes    *)
(* the count the enrich job compares with all day long.  Its own failures  *)
(* must come to an end.                                                    *)
FirstSyncHappens ==
  \A p \in Posts :
    calm /\ p \in stored /\ comments[p] > 0 /\ synced[p] = 0
      ~> synced[p] > 0 \/ EnrichStops(p) \/ Twice(stored)
=============================================================================
