---------------------------- MODULE FeedScan_proofs ----------------------------
(***************************************************************************)
(* What holds of FeedScan for any feed, any cut of it into pages and any   *)
(* sequence of interrupted attempts.                                       *)
(***************************************************************************)
EXTENDS FeedScan, TLAPS

(* The pages before cursor c have shown p.                                 *)
Passed(p, c) == c # Top /\ (p \in Pins \/ c <= p)

(* The walk under way is to save p.                                        *)
Wanted(p) == InScope(p) /\ (backfilling \/ (Windowed /\ p >= inWindow))

(* A walk that is no backfill only follows a completed one.                *)
FollowsBackfill == pc # "idle" /\ ~backfilling => completed

(* What was passed on the way to the committed cursor is saved.            *)
CursorIsSafe ==
  ~completed => \A p \in 1 .. horizon : InScope(p) /\ Passed(p, cursor) => p \in stored

(* What the attempt has passed and wants is saved.                         *)
WalkIsSafe ==
  pc \in {"paging", "advancing"} =>
    \A p \in 1 .. began : Wanted(p) /\ Passed(p, at) => p \in stored

WalkInv ==
  /\ TypeOK
  /\ FollowsBackfill
  /\ CursorIsSafe
  /\ WalkIsSafe
  /\ WalkMissesNothing

-----------------------------------------------------------------------------
(* Types.                                                                  *)

LEMMA TopIsACursor == N \in Nat /\ Top = N + 1 /\ Top \in 1 .. Top
  BY ConstantsAssumption DEF Top

(* Before the first scan nothing is saved.                                 *)
LEMMA TypeHoldsInitially == Init => TypeOK
<1> SUFFICES ASSUME Init PROVE TypeOK
  OBVIOUS
<1>1. /\ platform \in Platforms
      /\ published \in 0 .. N
      /\ began \in 0 .. published
      /\ inWindow \in 1 .. N + 1
      /\ cursor \in 1 .. Top
      /\ at \in 1 .. Top
      /\ horizon \in 0 .. published
  BY TopIsACursor DEF Init
<1>2. /\ comments \in [Posts -> 0 .. MaxComments]
      /\ recorded \in [Posts -> 0 .. MaxComments]
      /\ fetched \in [Posts -> 0 .. MaxComments]
      /\ synced \in [Posts -> 0 .. MaxComments]
  BY ConstantsAssumption DEF Init
<1> QED
  BY <1>1, <1>2 DEF Init, TypeOK, Places

(* The locals of an attempt that is over.                                  *)
LEMMA OverKeepsLocals ==
  ASSUME Over, TypeOK
  PROVE  /\ pc' \in Places
         /\ backfilling' \in BOOLEAN
         /\ at' \in 1 .. Top
         /\ restarted' \in BOOLEAN
         /\ began' = 0
         /\ progress' \in BOOLEAN
         /\ candidates' = {} /\ todo' = {} /\ done' = {}
  BY TopIsACursor DEF Over, Places

(* A page, and what is taken from it, holds published posts only.          *)
LEMMA PageIsPublished ==
  ASSUME NEW c, NEW last
  PROVE  /\ Page(c, last) \subseteq 1 .. published
         /\ LookedAt(Page(c, last)) \subseteq Page(c, last)
         /\ ChosenPosts(Page(c, last)) \subseteq LookedAt(Page(c, last))
         /\ ChosenVideos(Page(c, last)) \subseteq LookedAt(Page(c, last))
  BY DEF Page, Chronological, LookedAt, ChosenPosts, ChosenVideos, Refreshed

(* Both processors save a page and what they choose of it.                 *)
LEMMA PageIsSaved ==
  ASSUME NEW last, SavePage(last)
  PROVE  \E chosen \in SUBSET LookedAt(Page(at, last)) : Save(Page(at, last), chosen, last)
  BY PageIsPublished DEF SavePage, SaveFeedPage, SaveUploadsPage

(* A page is saved, with a choice of posts to sync.                        *)
LEMMA SavePageKeepsType ==
  ASSUME TypeOK, NEW last \in Posts, SavePage(last)
  PROVE  TypeOK'
<1> DEFINE page == Page(at, last)
           new  == LookedAt(page) \ stored
<1>0. PICK chosen \in SUBSET LookedAt(page) : Save(page, chosen, last)
  BY PageIsSaved
<1>1. /\ new \subseteq 1 .. published
      /\ chosen \subseteq stored \union new
  BY PageIsPublished
<1>2. stored' \subseteq 1 .. published /\ candidates' \subseteq stored'
  BY <1>0, <1>1 DEF Save, TypeOK
<1>3. recorded' \in [Posts -> 0 .. MaxComments]
  BY <1>0 DEF Save, TypeOK
<1>4. at' \in 1 .. Top /\ progress' \in BOOLEAN /\ pc' \in Places
  BY <1>0, ConstantsAssumption DEF Save, TypeOK, Posts, Top, Places
<1>6. /\ UNCHANGED <<world, fetched, synced, resume, backfilling, restarted, todo, done,
                      began, horizon>>
      /\ todo \subseteq candidates' /\ done \subseteq candidates'
  BY <1>0 DEF Save, TypeOK
<1> QED
  BY <1>2, <1>3, <1>4, <1>6 DEF TypeOK, world, resume

(* The comments of a post are fetched, or some of them.                    *)
LEMMA SyncKeepsType ==
  ASSUME TypeOK, NEW p \in Posts, Sync(p) \/ SyncFails(p)
  PROVE  TypeOK'
<1>1. PICK n \in 0 .. MaxComments : fetched' = [fetched EXCEPT ![p] = n]
  <2>1. Fetched(p) \subseteq 0 .. MaxComments
    BY ConstantsAssumption DEF Fetched, TypeOK
  <2>2. fetched[p] .. comments[p] \subseteq 0 .. MaxComments
    BY ConstantsAssumption DEF TypeOK
  <2> QED
    BY <2>1, <2>2 DEF Sync, SyncFails
<1> QED
  BY <1>1 DEF TypeOK, Sync, SyncFails, world, resume

(* Every action, and the steps that change nothing.                        *)
LEMMA TypeIsPreserved == TypeOK /\ [Next]_vars => TypeOK'
<1> SUFFICES ASSUME TypeOK, [Next]_vars
             PROVE  TypeOK'
  OBVIOUS
<1> USE ConstantsAssumption
<1>1. CASE Publish
  BY <1>1 DEF TypeOK, Publish, saved, resume, attempt, Posts
<1>2. CASE Age
  BY <1>2 DEF TypeOK, Age, saved, resume, attempt, Posts
<1>3. ASSUME NEW p \in Posts, Comment(p) PROVE TypeOK'
  BY <1>3 DEF TypeOK, Comment, saved, resume, attempt
<1>4. CASE Start
  BY <1>4 DEF TypeOK, Start, world, saved, resume, Top, Places
<1>5. CASE Advance \/ Close
  BY <1>5, TopIsACursor DEF TypeOK, Advance, Close, world, saved, Places
<1>6. CASE EmptyPage \/ Rank
  <2>1. todo' \subseteq candidates /\ pc' \in Places
    BY <1>6 DEF TypeOK, EmptyPage, Rank, Places
  <2>2. UNCHANGED <<world, saved, resume, backfilling, at, restarted, progress, candidates, done,
                    began, horizon>>
    BY <1>6 DEF EmptyPage, Rank
  <2> QED
    BY <2>1, <2>2 DEF TypeOK, world, saved, resume
<1>7. CASE FetchFails
  <2>1. CASE progress
    BY <1>7, <2>1 DEF TypeOK, FetchFails, Places, world, saved, resume
  <2>2. CASE ~progress
    BY <1>7, <2>2, OverKeepsLocals DEF TypeOK, FetchFails, world, saved, resume
  <2> QED
    BY <2>1, <2>2
<1>8. ASSUME NEW last \in Posts, SavePage(last) PROVE TypeOK'
  BY <1>8, SavePageKeepsType
<1>9. ASSUME NEW p \in Posts, Sync(p) \/ SyncFails(p) PROVE TypeOK'
  BY <1>9, SyncKeepsType
<1>10. CASE Finish \/ Interrupted
  <2>1. synced' \in [Posts -> 0 .. MaxComments]
    BY <1>10 DEF TypeOK, Finish, Interrupted, CommitCounts
  <2>2. Over /\ UNCHANGED <<world, stored, recorded, fetched, resume, horizon>>
    BY <1>10 DEF Finish, Interrupted
  <2> QED
    BY <2>1, <2>2, OverKeepsLocals DEF TypeOK, world, resume
<1>11. CASE WorkerDies
  BY <1>11, OverKeepsLocals DEF TypeOK, WorkerDies, world, saved, resume
<1>12. CASE Restart
  BY <1>12, TopIsACursor DEF TypeOK, Restart, world, saved, resume
<1>13. CASE HydrationFails
  BY <1>13, OverKeepsLocals DEF TypeOK, HydrationFails, world, saved, resume
<1>14. CASE UNCHANGED vars
  BY <1>14 DEF TypeOK, vars, world, saved, resume, attempt
<1> QED
  BY <1>1, <1>2, <1>3, <1>4, <1>5, <1>6, <1>7, <1>8, <1>9, <1>10, <1>11, <1>12,
     <1>13, <1>14
  DEF Next, WorldStep, WalkStep, SyncStep

(* Every variable keeps its type: what a page, a fetch or a failure writes *)
(* is a published post's or a count within bounds.                         *)
THEOREM TypeCorrect == Spec => []TypeOK
  BY TypeHoldsInitially, TypeIsPreserved, PTL DEF Spec

-----------------------------------------------------------------------------
(* The walk.                                                               *)

LEMMA WalkHoldsInitially == Init => WalkInv
<1> SUFFICES ASSUME Init PROVE WalkInv
  OBVIOUS
<1>1. TypeOK
  BY TypeHoldsInitially
<1>2. FollowsBackfill /\ WalkIsSafe /\ WalkMissesNothing
  BY DEF Init, FollowsBackfill, WalkIsSafe, WalkMissesNothing
<1>3. CursorIsSafe
  BY DEF Init, CursorIsSafe, Passed
<1> QED
  BY <1>1, <1>2, <1>3 DEF WalkInv

(* A post of the part of the feed that the new page completes, wanted by   *)
(* the walk, is saved with the page unless it lies beyond one that ends    *)
(* the walk; and such a post is not wanted.                                *)
LEMMA PageSavesWhatIsWanted ==
  ASSUME WalkInv, NEW last \in Posts, SavePage(last),
         NEW p \in 1 .. began, Wanted(p), Passed(p, last)
  PROVE  p \in stored'
<1> DEFINE page == Page(at, last)
<1> USE DEF WalkInv
<1>1. /\ stored' = stored \union (LookedAt(page) \ stored)
      /\ pc = "paging"
  BY PageIsSaved DEF Save
<1>2. /\ p \in Nat /\ last \in Nat /\ at \in 1 .. Top /\ Since \in Nat
      /\ inWindow \in Nat /\ published \in Nat /\ began \in Nat
      /\ began <= published /\ published <= N
      /\ N \in Nat /\ Top = N + 1
  BY TopIsACursor, ConstantsAssumption, <1>1 DEF TypeOK, Posts
<1>3. p \in 1 .. published
  BY <1>2
<1>4. CASE at # Top /\ Passed(p, at)
  BY <1>1, <1>4 DEF WalkIsSafe
<1>5. CASE ~(at # Top /\ Passed(p, at))
  <2>1. p \in page
    <3>1. CASE p \in Pins
      <4>1. at = Top
        BY <1>5, <3>1 DEF Passed
      <4> QED
        BY <4>1, <3>1, <1>3 DEF Page
    <3>2. CASE p \notin Pins
      <4>1. last <= p /\ p < at
        BY <1>2, <1>3, <1>5, <3>2 DEF Passed
      <4> QED
        BY <4>1, <3>2, <1>3 DEF Page, Chronological
    <3> QED
      BY <3>1, <3>2
  <2>2. ASSUME NEW q \in page, Stops(q), p \notin Pins
        PROVE  q < p
    <3>1. /\ q < Since \/ (~backfilling /\ ~(Windowed /\ q >= inWindow))
          /\ q \in Nat
      BY <1>2, <2>2, PageIsPublished DEF Stops, EndsFeed, EndsUploads
    <3>2. CASE q < Since
      BY <1>2, <2>2, <3>1, <3>2 DEF Wanted, InScope
    <3>3. CASE ~backfilling /\ ~(Windowed /\ q >= inWindow)
      BY <1>2, <3>1, <3>3 DEF Wanted
    <3> QED
      BY <3>1, <3>2, <3>3
  <2>3. p \in LookedAt(page)
    BY <2>1, <2>2 DEF LookedAt
  <2> QED
    BY <1>1, <2>3
<1> QED
  BY <1>4, <1>5

(* A page that is saved, as the walk goes down the feed.                   *)
LEMMA SavePageKeepsWalk ==
  ASSUME WalkInv, NEW last \in Posts, SavePage(last)
  PROVE  WalkInv'
<1> USE DEF WalkInv
<1> DEFINE page == Page(at, last)
<1>1. TypeOK'
  BY SavePageKeepsType
<1>2. /\ pc = "paging" /\ pc' \in {"advancing", "closing"} /\ at' = last
      /\ stored \subseteq stored'
      /\ pc' = "closing" => ~More(last) \/ \E q \in page : Stops(q)
      /\ UNCHANGED <<platform, published, inWindow, cursor, completed, backfilling, began, horizon>>
  BY PageIsSaved DEF Save, world, resume
<1>3. ASSUME NEW p \in 1 .. began, Wanted(p), Passed(p, last)
      PROVE  p \in stored'
  BY <1>3, PageSavesWhatIsWanted
<1>4. FollowsBackfill'
  BY <1>2 DEF FollowsBackfill
<1>5. CursorIsSafe'
  BY <1>2 DEF CursorIsSafe, Passed, InScope, Pins
<1>6. WalkIsSafe'
  BY <1>2, <1>3 DEF WalkIsSafe, Wanted, InScope, Passed, Pins
<1>7. WalkMissesNothing'
  <2> SUFFICES ASSUME pc' = "closing", NEW p \in 1 .. began, Wanted(p)
               PROVE  p \in stored'
    BY <1>2 DEF WalkMissesNothing, Wanted, InScope, Pins
  <2>1. /\ p \in 1 .. published /\ p \in Nat /\ last \in Nat /\ last # Top
        /\ Since \in Nat /\ inWindow \in Nat
    BY <1>2, TopIsACursor, ConstantsAssumption DEF TypeOK, Posts
  <2>2. CASE Passed(p, last)
    BY <1>3, <2>2
  <2>3. CASE ~Passed(p, last)
    <3>1. p \in Chronological /\ p < last
      BY <2>1, <2>3 DEF Passed, Chronological
    <3>2. PICK q \in page : Stops(q)
      BY <1>2, <3>1 DEF More
    <3>3. q \in Nat /\ last <= q
      BY <2>1, <3>2 DEF Page, Chronological, Stops, EndsFeed, EndsUploads, Pins
    <3>4. CASE q < Since
      BY <2>1, <2>3, <3>1, <3>3, <3>4 DEF Wanted, InScope, Chronological
    <3>5. CASE ~backfilling /\ ~(Windowed /\ q >= inWindow)
      BY <2>1, <3>1, <3>3, <3>5 DEF Wanted
    <3> QED
      BY <3>2, <3>4, <3>5 DEF Stops, EndsFeed, EndsUploads
  <2> QED
    BY <2>2, <2>3
<1> QED
  BY <1>1, <1>4, <1>5, <1>6, <1>7

(* Over drops the walk under way and leaves what a resumed one relies on. *)
LEMMA OverKeepsWalk ==
  ASSUME WalkInv, TypeOK', Over, UNCHANGED <<platform, stored, cursor, completed, horizon>>
  PROVE  WalkInv'
  BY DEF WalkInv, Over, FollowsBackfill, CursorIsSafe, WalkIsSafe, WalkMissesNothing,
         InScope, Passed, Pins

(* One case for each action.                                               *)
LEMMA WalkIsPreserved == WalkInv /\ [Next]_vars => WalkInv'
<1> SUFFICES ASSUME WalkInv, [Next]_vars
             PROVE  WalkInv'
  OBVIOUS
<1>1. TypeOK /\ TypeOK'
  BY TypeIsPreserved DEF WalkInv
<1> USE DEF FollowsBackfill, CursorIsSafe, WalkIsSafe, WalkMissesNothing, Wanted, InScope, Passed, Pins
<1>2. CASE Publish
  BY <1>1, <1>2 DEF WalkInv, Publish, saved, resume, attempt
<1>3. CASE Age
  BY <1>1, <1>3 DEF WalkInv, Age, saved, resume, attempt
<1>4. ASSUME NEW p \in Posts, Comment(p) PROVE WalkInv'
  BY <1>1, <1>4 DEF WalkInv, Comment, saved, resume, attempt
<1>5. CASE Start
  BY <1>1, <1>5 DEF WalkInv, Start, world, saved, resume
<1>6. CASE Advance
  BY <1>1, <1>6 DEF WalkInv, Advance, world, saved
<1>7. CASE Close
  BY <1>1, <1>7 DEF WalkInv, Close, world, saved
<1>8. CASE EmptyPage \/ Rank
  <2>1. /\ UNCHANGED <<world, saved, resume, backfilling, at, began, horizon>>
        /\ pc' \in {"ranking", "syncing"} /\ pc # "idle"
    BY <1>8 DEF EmptyPage, Rank
  <2> QED
    BY <1>1, <2>1 DEF WalkInv, world, saved, resume
<1>9. CASE FetchFails
  <2>1. CASE progress
    BY <1>1, <1>9, <2>1 DEF WalkInv, FetchFails, world, saved, resume
  <2>2. CASE ~progress
    BY <1>1, <1>9, <2>2, OverKeepsWalk DEF FetchFails, world, saved, resume
  <2> QED
    BY <2>1, <2>2
<1>10. ASSUME NEW last \in Posts, SavePage(last) PROVE WalkInv'
  BY <1>10, SavePageKeepsWalk
<1>11. ASSUME NEW p \in Posts, Sync(p) \/ SyncFails(p) PROVE WalkInv'
  BY <1>1, <1>11 DEF WalkInv, Sync, SyncFails, world, resume
<1>12. CASE Finish \/ Interrupted \/ WorkerDies
  BY <1>1, <1>12, OverKeepsWalk DEF Finish, Interrupted, WorkerDies, world, saved, resume
<1>13. CASE Restart
  BY <1>1, <1>13 DEF WalkInv, Restart, world, saved, resume
<1>14. CASE HydrationFails
  BY <1>1, <1>14, OverKeepsWalk DEF HydrationFails, world, saved, resume
<1>15. CASE UNCHANGED vars
  BY <1>1, <1>15 DEF WalkInv, vars, world, saved, resume, attempt
<1> QED
  BY <1>2, <1>3, <1>4, <1>5, <1>6, <1>7, <1>8, <1>9, <1>10, <1>11, <1>12, <1>13,
     <1>14, <1>15
  DEF Next, WorldStep, WalkStep, SyncStep

(* A walk that ends by itself has saved every post it was to save, for any *)
(* feed, pinned posts and pages, and however often a backfill was cut off  *)
(* and resumed at its cursor.                                              *)
THEOREM WalkCorrect == Spec => []WalkMissesNothing
<1>1. WalkInv => WalkMissesNothing
  BY DEF WalkInv
<1> QED
  BY <1>1, WalkHoldsInitially, WalkIsPreserved, PTL DEF Spec
=============================================================================
