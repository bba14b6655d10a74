--------------------------- MODULE CommentSync_proofs ---------------------------
(***************************************************************************)
(* What holds of the sync of a post for any comments and threads, any cut  *)
(* of them into pages, any limits and any sequence of syncs that are cut   *)
(* short, capped, resumed or lost, while comments come and go.             *)
(***************************************************************************)
EXTENDS CommentSync, FiniteSetTheorems, TLAPS

(* The threads that are left of a page are those of stored top-level       *)
(* comments, and there are none between two pages.                         *)
ThreadsAreStored ==
  /\ \A c \in threads : c \in stored /\ Parent[c] = 0
  /\ pc \in {"thread", "missing"} => thread \in stored /\ Parent[thread] = 0
  /\ pc \in {"idle", "top", "closing"} => threads = {}

(* The replies of what is gone are gone.                                   *)
GoneTogether == \A c \in 1 .. born : Parent[c] \in gone => c \in gone

(* A walk from the first page has seen what the platform lists up to its   *)
(* cursor, and after the last page every row of a comment that stays.      *)
WalkHasSeen ==
  startedFresh =>
    /\ after <= born
    /\ \A c \in TopLevel : c <= after => c \in seen
    /\ pc = "closing" \/ (pc \in {"threads", "thread", "missing"} /\ ~hasMore)
         => TopLevel \cap stored \subseteq seen

(* The same of the replies of the thread that is walked.                   *)
ThreadHasSeen ==
  /\ pc = "thread" => rAfter <= born /\ \A c \in RepliesOf(thread) : c <= rAfter => c \in rSeen
  /\ pc = "missing" => RepliesOf(thread) \cap stored \subseteq rSeen

(* What an attempt is about to commit is the number of rows.               *)
CountIsReady ==
  ~torn => /\ pc = "idle" => count = Cardinality(stored)
           /\ pc = "done" => nextCount = Cardinality(stored)

-----------------------------------------------------------------------------
(* Types.                                                                  *)

LEMMA ZeroIsInRange == N \in Nat /\ 0 \in 0 .. N /\ 0 \in 0 .. MaxPages /\ 0 \in 0 .. MaxReplyPages
  BY ConstantsAssumption

(* There are N ids, so that every set of them can be counted.              *)
LEMMA IdsAreCountable ==
  ASSUME NEW S, S \subseteq Ids
  PROVE  IsFiniteSet(S) /\ Cardinality(S) \in 0 .. N
<1>1. IsFiniteSet(Ids) /\ Cardinality(Ids) = N
  BY FS_Interval, ConstantsAssumption DEF Ids
<1>2. IsFiniteSet(S) /\ Cardinality(S) <= N
  BY <1>1, FS_Subset
<1> QED
  BY <1>2, FS_CardinalityType, ConstantsAssumption

(* What is stored and what is listed are comments that have been written.  *)
LEMMA BornAreIds ==
  ASSUME TypeOK
  PROVE  /\ 1 .. born \subseteq Ids
         /\ stored \subseteq Ids
         /\ \A p : RepliesOf(p) \subseteq 1 .. born
         /\ \A p : Cardinality(RepliesOf(p)) \in 0 .. N
<1>1. 1 .. born \subseteq Ids /\ stored \subseteq 1 .. born
  BY ConstantsAssumption DEF TypeOK, Ids
<1>2. \A p : RepliesOf(p) \subseteq 1 .. born
  BY DEF RepliesOf, Live
<1> QED
  BY <1>1, <1>2, IdsAreCountable

(* Before the first sync nothing is stored.                                *)
LEMMA TypeHoldsInitially == Init => TypeOK /\ ThreadsAreStored
<1> SUFFICES ASSUME Init PROVE TypeOK /\ ThreadsAreStored
  OBVIOUS
<1>1. childCount \in [Ids -> 0 .. N]
  BY ConstantsAssumption DEF Init
<1> QED
  BY <1>1, ZeroIsInRange DEF Init, TypeOK, ThreadsAreStored

(* The platform.                                                           *)
LEMMA WorldIsTyped ==
  ASSUME TypeOK, ThreadsAreStored, WorldStep
  PROVE  TypeOK' /\ ThreadsAreStored'
<1>1. UNCHANGED <<rows, cursor, count, pc, top, reply, unsaved, torn>> /\ news' \in BOOLEAN
  BY DEF WorldStep, Appear, NeverWritten, RaiseCap, Report, Vanish, saved, TypeOK
<1>2. ThreadsAreStored'
  BY <1>1 DEF ThreadsAreStored, rows, top, reply
<1>3. platform' \in Platforms /\ cap' \in Caps
  BY DEF WorldStep, Appear, NeverWritten, RaiseCap, Report, Vanish, TypeOK, world
<1>4. born' \in 0 .. N /\ born <= born' /\ gone' \subseteq 1 .. born'
  <2>1. \A c : RepliesOf(c) \subseteq 1 .. born
    BY BornAreIds
  <2>2. N \in Nat /\ born \in 0 .. N /\ gone \subseteq 1 .. born
    BY ZeroIsInRange DEF TypeOK
  <2>3. CASE Appear \/ NeverWritten
    <3>1. born' = born + 1 /\ born < N /\ gone' \subseteq gone \union {born + 1}
      BY <2>3 DEF Appear, NeverWritten
    <3>2. \A c \in gone : c \in 1 .. born + 1
      BY <2>2
    <3> QED
      BY <2>2, <3>1, <3>2
  <2>4. CASE RaiseCap \/ Report
    <3>1. born' = born /\ gone' = gone
      BY <2>4 DEF RaiseCap, Report, world
    <3> QED
      BY <2>2, <3>1
  <2>5. ASSUME NEW c \in Ids, Vanish(c) PROVE born' \in 0 .. N /\ born <= born' /\ gone' \subseteq 1 .. born'
    <3>1. born' = born /\ c \in 1 .. born /\ gone' = gone \union {c} \union RepliesOf(c)
      BY <2>5 DEF Vanish, Live
    <3>2. RepliesOf(c) \subseteq 1 .. born
      BY <2>1
    <3>3. gone' \subseteq 1 .. born
      BY <2>2, <3>1, <3>2
    <3> QED
      BY <2>2, <3>1, <3>3
  <2> QED
    BY <2>3, <2>4, <2>5 DEF WorldStep
<1>5. stored' \subseteq 1 .. born'
  BY <1>1, <1>4 DEF TypeOK, rows
<1> QED
  BY <1>1, <1>2, <1>3, <1>4, <1>5 DEF TypeOK, rows, saved, top, reply, unsaved

(* Rows are written with their parents.                                    *)
LEMMA UpsertIsTyped ==
  ASSUME TypeOK, NEW cs, cs \subseteq 1 .. born, Upsert(cs),
         \A c \in cs : Parent[c] # 0 => Parent[c] \in stored \union cs
  PROVE  /\ stored' \subseteq 1 .. born
         /\ \A c \in stored' : Parent[c] # 0 => Parent[c] \in stored'
         /\ childCount' \in [Ids -> 0 .. N]
<1>1. childCount' \in [Ids -> 0 .. N]
  BY BornAreIds DEF Upsert, TypeOK
<1> QED
  BY <1>1 DEF Upsert, TypeOK

(* Rows are deleted with their children.                                   *)
LEMMA MissingIsTyped ==
  ASSUME TypeOK, NEW p \in 0 .. N, p = 0 \/ Parent[p] = 0, NEW ids
  PROVE  \A c \in stored \ Missing(p, ids) : Parent[c] # 0 => Parent[c] \in stored \ Missing(p, ids)
<1> SUFFICES ASSUME NEW c \in stored, c \notin Missing(p, ids), Parent[c] # 0
             PROVE  Parent[c] \in stored \ Missing(p, ids)
  OBVIOUS
<1>1. Parent[c] \in stored /\ c \in Ids /\ 0 \notin stored
  BY BornAreIds DEF TypeOK, Ids
<1>2. Parent[Parent[c]] = 0
  BY <1>1, ConstantsAssumption
<1> QED
  BY <1>1, <1>2 DEF Missing

(* The walk over the comments of the post.                                 *)
LEMMA TopIsTyped ==
  ASSUME TypeOK, ThreadsAreStored, TopStep
  PROVE  TypeOK' /\ ThreadsAreStored'
<1>1. CASE PassedOver
  BY <1>1 DEF PassedOver, TypeOK, ThreadsAreStored, world, rows, top, reply, unsaved
<1>7. CASE Begin
  <2>1. pages' \in 0 .. MaxPages /\ after' \in 0 .. N /\ startedFresh' \in BOOLEAN
    BY <1>7, ConstantsAssumption, ZeroIsInRange DEF Begin, TypeOK
  <2> QED
    BY <1>7, <2>1 DEF Begin, TypeOK, ThreadsAreStored, world, rows, reply, unsaved
<1>2. CASE PageDone
  BY <1>2 DEF PageDone, TypeOK, ThreadsAreStored, world, rows, saved, top, reply, unsaved
<1>3. CASE NoComments
  BY <1>3 DEF NoComments, TypeOK, ThreadsAreStored, world, rows, saved, reply, unsaved
<1>4. CASE Truncated
  <2>1. nextCount' \in 0 .. N
    BY <1>4, BornAreIds, IdsAreCountable DEF Truncated, Refresh
  <2>2. nextCursor' \in 0 .. N
    BY <1>4, ZeroIsInRange DEF Truncated, TypeOK
  <2> QED
    BY <1>4, <2>1, <2>2 DEF Truncated, TypeOK, ThreadsAreStored, world, rows, saved, top, reply
<1>5. CASE Close
  <2>1. stored' \subseteq stored
    BY <1>5 DEF Close
  <2>2. \A c \in stored' : Parent[c] # 0 => Parent[c] \in stored'
    BY <1>5, MissingIsTyped, ConstantsAssumption DEF Close, TypeOK
  <2>3. nextCount' \in 0 .. N
    BY <1>5, <2>1, BornAreIds, IdsAreCountable DEF Close, Refresh
  <2>4. ThreadsAreStored'
    BY <1>5 DEF Close, ThreadsAreStored, top
  <2> QED
    BY <1>5, <2>1, <2>2, <2>3, <2>4, ZeroIsInRange DEF Close, TypeOK, world, saved, top, reply
<1>6. ASSUME NEW last \in Ids, TopPage(last) PROVE TypeOK' /\ ThreadsAreStored'
  <2> DEFINE page == Page(TopLevel, after, last)
  <2>1. page \subseteq 1 .. born /\ \A c \in page : Parent[c] = 0
    BY BornAreIds DEF Page, TopLevel, RepliesOf
  <2>2. Inline(page) \subseteq 1 .. born /\ \A c \in Inline(page) : Parent[c] \in page
    BY BornAreIds DEF Inline, RepliesOf
  <2>3. Upsert(page \union Inline(page))
    BY <1>6 DEF TopPage
  <2>4. /\ stored' \subseteq 1 .. born
        /\ \A c \in stored' : Parent[c] # 0 => Parent[c] \in stored'
        /\ childCount' \in [Ids -> 0 .. N]
    BY <2>1, <2>2, <2>3, UpsertIsTyped
  <2>5. seen' = seen \union page /\ threads' \subseteq page /\ page \subseteq stored'
    BY <1>6, <2>3 DEF TopPage, Upsert
  <2>6. after' \in 0 .. N /\ pages' \in 0 .. MaxPages /\ hasMore' \in BOOLEAN
    BY <1>6, ConstantsAssumption DEF TopPage, TypeOK, Ids, More
  <2>7. ThreadsAreStored'
    BY <1>6, <2>1, <2>5 DEF TopPage, ThreadsAreStored
  <2>8. seen' \subseteq Ids /\ threads' \subseteq seen'
    BY <2>1, <2>5, BornAreIds DEF TypeOK
  <2> QED
    BY <1>6, <2>4, <2>6, <2>7, <2>8 DEF TopPage, TypeOK, world, saved, reply, unsaved
<1> QED
  BY <1>1, <1>2, <1>3, <1>4, <1>5, <1>6, <1>7 DEF TopStep, WalkStep

(* The walk over the replies of one comment.                               *)
LEMMA ReplyIsTyped ==
  ASSUME TypeOK, ThreadsAreStored, ReplyStep
  PROVE  TypeOK' /\ ThreadsAreStored'
<1>1. ThreadEnd \in {"missing", "threads"}
  BY DEF ThreadEnd
<1>2. CASE NoReplies
  BY <1>1, <1>2 DEF NoReplies, TypeOK, ThreadsAreStored, world, rows, saved, top, reply, unsaved
<1>3. CASE ThreadTruncated
  BY <1>3 DEF ThreadTruncated, TypeOK, ThreadsAreStored, world, rows, saved, top, reply, unsaved
<1>4. CASE DeleteMissingReplies
  <2>1. thread \in stored /\ thread \in 1 .. N /\ Parent[thread] = 0
    BY <1>4, BornAreIds DEF DeleteMissingReplies, ThreadsAreStored, Ids
  <2>2. \A c \in stored' : Parent[c] # 0 => Parent[c] \in stored'
    BY <1>4, <2>1, MissingIsTyped DEF DeleteMissingReplies
  <2>3. \A c \in stored : Parent[c] = 0 => c \in stored'
    BY <1>4, <2>1 DEF DeleteMissingReplies, Missing
  <2> QED
    BY <1>4, <2>2, <2>3
       DEF DeleteMissingReplies, TypeOK, ThreadsAreStored, world, saved, top, reply, unsaved
<1>5. ASSUME NEW c \in Ids, BeginThread(c) PROVE TypeOK' /\ ThreadsAreStored'
  BY <1>5, ConstantsAssumption
     DEF BeginThread, TypeOK, ThreadsAreStored, Ids, world, rows, saved, unsaved
<1>6. ASSUME NEW last \in Ids, ReplyPage(last) PROVE TypeOK' /\ ThreadsAreStored'
  <2> DEFINE page == Page(RepliesOf(thread), rAfter, last)
  <2>1. page \subseteq 1 .. born /\ \A c \in page : Parent[c] = thread
    BY BornAreIds DEF Page, RepliesOf
  <2>2. Upsert(page) /\ thread \in stored
    BY <1>6 DEF ReplyPage, ThreadsAreStored
  <2>3. /\ stored' \subseteq 1 .. born
        /\ \A c \in stored' : Parent[c] # 0 => Parent[c] \in stored'
        /\ childCount' \in [Ids -> 0 .. N]
    BY <2>1, <2>2, UpsertIsTyped
  <2>4. rSeen' \subseteq Ids /\ rPages' \in 0 .. MaxReplyPages /\ rAfter' \in 0 .. N
    <3>1. rSeen' \subseteq Ids
      BY <1>6, <2>1, BornAreIds DEF ReplyPage, TypeOK
    <3>2. rPages' \in 0 .. MaxReplyPages
      BY <1>6, ConstantsAssumption DEF ReplyPage, TypeOK
    <3>3. rAfter' \in 0 .. N
      BY <1>6, ZeroIsInRange DEF ReplyPage, Ids
    <3> QED
      BY <3>1, <3>2, <3>3
  <2>5. ThreadsAreStored' /\ pc' \in {"thread", "missing", "threads"}
    BY <1>1, <1>6, <2>2 DEF ReplyPage, ThreadsAreStored, Upsert, top
  <2> QED
    BY <1>6, <2>3, <2>4, <2>5 DEF ReplyPage, TypeOK, world, saved, top, unsaved
<1> QED
  BY <1>2, <1>3, <1>4, <1>5, <1>6 DEF ReplyStep

(* Every action, and the steps that change nothing.                        *)
LEMMA TypeIsPreserved == TypeOK /\ ThreadsAreStored /\ [Next]_vars => TypeOK' /\ ThreadsAreStored'
<1> SUFFICES ASSUME TypeOK, ThreadsAreStored, [Next]_vars
             PROVE  TypeOK' /\ ThreadsAreStored'
  OBVIOUS
<1>1. CASE FetchFails
  <2>1. nextCount' \in 0 .. N
    BY <1>1, BornAreIds, IdsAreCountable DEF FetchFails, TypeOK
  <2> QED
    BY <1>1, <2>1 DEF FetchFails, TypeOK, ThreadsAreStored, world, rows, saved, top, reply
<1>2. CASE CommitAttempt \/ WorkerDies
  BY <1>2, ZeroIsInRange
     DEF CommitAttempt, WorkerDies, Forget, TypeOK, ThreadsAreStored, world, rows, saved
<1>3. CASE UNCHANGED vars
  BY <1>3 DEF vars, TypeOK, ThreadsAreStored, world, rows, saved, top, reply, unsaved
<1> QED
  BY <1>1, <1>2, <1>3, WorldIsTyped, TopIsTyped, ReplyIsTyped DEF Next

(* The typing in all reachable states, for the proofs that follow.         *)
LEMMA SyncIsTyped == Spec => [](TypeOK /\ ThreadsAreStored)
<1>1. Init => TypeOK /\ ThreadsAreStored
  BY TypeHoldsInitially
<1> QED
  BY <1>1, TypeIsPreserved, PTL DEF Spec

(* TypeOK, which says that no reply outlives the row of the comment it     *)
(* answers, though threads are walked steps after their page is stored and *)
(* two kinds of deletions run in between.                                  *)
THEOREM TypeCorrect == Spec => []TypeOK
  BY SyncIsTyped, PTL

-----------------------------------------------------------------------------
(* The committed count.                                                    *)

LEMMA CountIsPreserved == TypeOK /\ CountIsReady /\ [Next]_vars => CountIsReady'
<1> SUFFICES ASSUME TypeOK, CountIsReady, [Next]_vars
             PROVE  CountIsReady'
  OBVIOUS
<1>1. CASE WorldStep
  BY <1>1 DEF CountIsReady, WorldStep, Appear, NeverWritten, RaiseCap, Report, Vanish, rows, saved, unsaved
<1>2. CASE TopStep \/ ReplyStep
  <2>1. \/ pc' \notin {"idle", "done"}
        \/ Truncated \/ Close \/ PassedOver
    BY <1>2
       DEF TopStep, WalkStep, ReplyStep, PassedOver, Begin, PageDone, NoComments, TopPage, NoReplies, ThreadTruncated,
           DeleteMissingReplies, BeginThread, ReplyPage, ThreadEnd
  <2> QED
    BY <2>1 DEF CountIsReady, Truncated, Close, PassedOver, Refresh, rows, unsaved
<1>3. CASE FetchFails
  <2>1. platform = "instagram" \/ platform = "youtube"
    BY ConstantsAssumption DEF TypeOK
  <2> QED
    BY <1>3, <2>1 DEF CountIsReady, FetchFails, rows
<1>4. CASE CommitAttempt \/ WorkerDies
  BY <1>4 DEF CountIsReady, CommitAttempt, WorkerDies, rows
<1>5. CASE UNCHANGED vars
  BY <1>5 DEF CountIsReady, vars, rows, saved, unsaved
<1> QED
  BY <1>1, <1>2, <1>3, <1>4, <1>5 DEF Next

(* CountIsTrue, from CountIsReady: whatever end a sync comes to, deletions *)
(* included, the count that is committed steps later is that of the rows,  *)
(* unless the sync was cut short.                                          *)
THEOREM CountStaysTrue == Spec => []CountIsTrue
<1>1. Init => CountIsReady
  BY FS_EmptySet DEF Init, CountIsReady
<1>2. CountIsReady => CountIsTrue
  BY DEF CountIsReady, CountIsTrue
<1> QED
  BY <1>1, <1>2, TypeCorrect, CountIsPreserved, PTL DEF Spec

-----------------------------------------------------------------------------
(* Tombstones.                                                             *)

(* Who answers a comment that is gone is gone before it is written, and    *)
(* goes when it goes.                                                      *)
LEMMA GoneGoTogether ==
  ASSUME TypeOK, GoneTogether, [Next]_vars
  PROVE  GoneTogether'
<1>1. CASE UNCHANGED <<born, gone>>
  BY <1>1 DEF GoneTogether
<1>2. CASE Appear \/ NeverWritten
  <2>1. /\ born' = born + 1
        /\ gone' = gone \/ gone' = gone \union {born + 1}
        /\ Parent[born + 1] \in gone => born + 1 \in gone'
    BY <1>2 DEF Appear, NeverWritten
  <2>2. \A c \in 1 .. born + 1 : Parent[c] < c /\ c \in Ids
    BY <1>2, ConstantsAssumption DEF Appear, NeverWritten, TypeOK, Ids
  <2>3. gone \subseteq 1 .. born /\ born \in Nat
    BY DEF TypeOK
  <2>4. \A c \in 1 .. born + 1 : Parent[c] \in gone' => Parent[c] \in gone
    BY <2>1, <2>2, <2>3
  <2> QED
    BY <2>1, <2>3, <2>4 DEF GoneTogether
<1>3. ASSUME NEW c \in Ids, Vanish(c) PROVE GoneTogether'
  <2>1. c \in 1 .. born /\ c \notin gone /\ born' = born /\ gone' = gone \union {c} \union RepliesOf(c)
    BY <1>3 DEF Vanish, Live
  <2>2. ASSUME NEW d \in 1 .. born, Parent[d] \in gone' PROVE d \in gone'
    <3>1. CASE Parent[d] \in gone
      BY <2>1, <3>1 DEF GoneTogether
    <3>2. CASE Parent[d] = c
      BY <2>1, <3>2 DEF RepliesOf, Live
    <3>3. CASE Parent[d] \in RepliesOf(c)
      <4>1. d \in Ids /\ Parent[d] \in Ids /\ Parent[Parent[d]] = c /\ c # 0
        BY <1>3, <3>3, BornAreIds DEF RepliesOf, Ids
      <4>2. Parent[d] # 0
        BY <4>1 DEF Ids
      <4> QED
        BY <4>1, <4>2, ConstantsAssumption
    <3> QED
      BY <2>1, <2>2, <3>1, <3>2, <3>3
  <2> QED
    BY <2>1, <2>2 DEF GoneTogether
<1>4. Appear \/ NeverWritten \/ (\E c \in Ids : Vanish(c)) \/ UNCHANGED <<born, gone>>
  BY DEF Next, WorldStep, RaiseCap, Report, TopStep, WalkStep, ReplyStep, PassedOver, Begin, PageDone, NoComments, Truncated, Close, TopPage,
         NoReplies, ThreadTruncated, DeleteMissingReplies, BeginThread, ReplyPage, FetchFails,
         CommitAttempt, WorkerDies, vars, world
<1> QED
  BY <1>1, <1>2, <1>3, <1>4

(* Who comes while a walk is under way is listed last.                     *)
LEMMA NewcomersAreLast ==
  ASSUME TypeOK, WorldStep, NEW p
  PROVE  /\ UNCHANGED <<rows, pc, top, reply>>
         /\ born \in Nat /\ born' \in Nat /\ born <= born'
         /\ \A c \in RepliesOf(p)' : c \in RepliesOf(p) \/ c = born + 1
<1>1. /\ born \in Nat
      /\ \/ born' = born /\ Live' \subseteq Live
         \/ born' = born + 1 /\ Live' \subseteq Live \union {born + 1}
  <2>1. born \in Nat
    BY DEF TypeOK
  <2>2. CASE Appear \/ NeverWritten
    <3>1. born' = born + 1 /\ gone \subseteq gone'
      BY <2>2 DEF Appear, NeverWritten
    <3> QED
      BY <2>1, <3>1 DEF Live
  <2>3. CASE RaiseCap \/ Report
    BY <2>1, <2>3 DEF RaiseCap, Report, Live, world
  <2>4. ASSUME NEW c \in Ids, Vanish(c) PROVE born' = born /\ Live' \subseteq Live
    BY <2>4 DEF Vanish, Live
  <2> QED
    BY <2>1, <2>2, <2>3, <2>4 DEF WorldStep
<1>2. UNCHANGED <<rows, pc, top, reply>>
  BY DEF WorldStep, Appear, NeverWritten, RaiseCap, Report, Vanish
<1> QED
  BY <1>1, <1>2 DEF RepliesOf

(* A comment that appears or vanishes is nothing a walk has passed.        *)
LEMMA WorldIsSeen ==
  ASSUME TypeOK, WalkHasSeen, ThreadHasSeen, WorldStep
  PROVE  WalkHasSeen' /\ ThreadHasSeen'
<1>1. UNCHANGED <<rows, pc, top, reply>> /\ born \in Nat /\ born' \in Nat /\ born <= born'
  BY NewcomersAreLast
<1>2. \A c \in stored : c <= born
  BY DEF TypeOK
<1>3. after \in Nat /\ rAfter \in Nat
  BY DEF TypeOK
<1>4. WalkHasSeen'
  <2>1. \A c \in TopLevel' : c \in TopLevel \/ c = born + 1
    BY NewcomersAreLast DEF TopLevel
  <2> QED
    BY <1>1, <1>2, <1>3, <2>1 DEF WalkHasSeen, rows, top
<1>5. ThreadHasSeen'
  <2>1. \A c \in RepliesOf(thread)' : c \in RepliesOf(thread) \/ c = born + 1
    <3>1. thread' = thread
      BY <1>1 DEF reply
    <3>2. \A p : \A c \in RepliesOf(p)' : c \in RepliesOf(p) \/ c = born + 1
      BY NewcomersAreLast
    <3> QED
      BY <3>1, <3>2 DEF RepliesOf
  <2> QED
    BY <1>1, <1>2, <1>3, <2>1 DEF ThreadHasSeen, rows, reply
<1> QED
  BY <1>4, <1>5

(* The pages of the post: a page continues at the cursor, and the last one *)
(* leaves nothing behind it.                                               *)
LEMMA TopIsSeen ==
  ASSUME TypeOK, WalkHasSeen, TopStep, "empty" \notin Faults
  PROVE  WalkHasSeen' /\ ThreadHasSeen'
<1>1. world' = world /\ TopLevel' = TopLevel /\ born' = born
  BY DEF TopStep, WalkStep, PassedOver, Begin, PageDone, NoComments, Truncated, Close, TopPage, world, TopLevel, RepliesOf, Live
<1>2. pc' \notin {"thread", "missing"}
  BY DEF TopStep, WalkStep, PassedOver, Begin, PageDone, NoComments, Truncated, Close, TopPage
<1>3. ThreadHasSeen'
  BY <1>2 DEF ThreadHasSeen
<1> SUFFICES WalkHasSeen'
  BY <1>3
<1>4. \A c \in TopLevel : c \in Nat /\ c > 0 /\ c <= born
  BY BornAreIds DEF TopLevel
<1>5. after \in Nat /\ born \in Nat
  BY DEF TypeOK
<1>6. CASE Begin
  <2>1. startedFresh' => after' = 0
    BY <1>6, Zenon DEF Begin
  <2>2. pc' = "top"
    BY <1>6 DEF Begin
  <2> QED
    BY <1>1, <1>4, <1>5, <2>1, <2>2 DEF WalkHasSeen
<1>7. CASE PageDone \/ Truncated
  <2>1. UNCHANGED <<stored, startedFresh, after, seen, hasMore>>
    BY <1>7 DEF PageDone, Truncated, rows, top
  <2>2. pc' = "closing" => pc = "threads" /\ ~hasMore
    BY <1>7 DEF PageDone, Truncated
  <2>3. pc' \notin {"threads", "thread", "missing"}
    BY <1>7 DEF PageDone, Truncated
  <2> QED
    BY <1>1, <2>1, <2>2, <2>3 DEF WalkHasSeen
<1>8. CASE Close \/ PassedOver
  BY <1>1, <1>8 DEF Close, PassedOver, WalkHasSeen, rows, top
<1>9. CASE NoComments
  BY <1>1, <1>4, <1>5, <1>9 DEF NoComments, More, WalkHasSeen, rows
<1>10. ASSUME NEW last \in Ids, TopPage(last) PROVE WalkHasSeen'
  <2>1. last \in TopLevel
    BY <1>10 DEF TopPage, Ends
  <2>2. seen' = seen \union Page(TopLevel, after, last) /\ startedFresh' = startedFresh /\ pc' = "threads"
    BY <1>10 DEF TopPage
  <2>3. startedFresh => \A c \in TopLevel : c <= last => c \in seen'
    BY <1>4, <1>5, <2>1, <2>2 DEF WalkHasSeen, Page
  <2>4. CASE hasMore'
    BY <1>1, <1>4, <1>10, <2>1, <2>2, <2>3, <2>4 DEF TopPage, WalkHasSeen
  <2>5. CASE ~hasMore'
    <3>1. after' = after /\ \A c \in TopLevel : c <= last
      BY <1>4, <1>10, <2>1, <2>5 DEF TopPage, More
    <3> QED
      BY <1>1, <2>2, <2>3, <3>1 DEF WalkHasSeen
  <2> QED
    BY <2>4, <2>5
<1> QED
  BY <1>6, <1>7, <1>8, <1>9, <1>10 DEF TopStep, WalkStep

(* The pages of a thread, likewise.                                        *)
LEMMA RepliesAreSeen ==
  ASSUME TypeOK, ThreadsAreStored, WalkHasSeen, ThreadHasSeen, ReplyStep, "empty" \notin Faults
  PROVE  WalkHasSeen' /\ ThreadHasSeen'
<1>1. /\ world' = world /\ born' = born
      /\ TopLevel' = TopLevel /\ \A p : RepliesOf(p)' = RepliesOf(p)
  BY DEF ReplyStep, NoReplies, ThreadTruncated, DeleteMissingReplies, BeginThread, ReplyPage, world, TopLevel,
         RepliesOf, Live
<1>2. /\ UNCHANGED <<startedFresh, after, seen, hasMore>>
      /\ pc \in {"threads", "thread", "missing"} /\ pc' \in {"threads", "thread", "missing"}
  BY DEF ReplyStep, NoReplies, ThreadTruncated, DeleteMissingReplies, BeginThread, ReplyPage, ThreadEnd, top
<1>3. \A p : \A c \in RepliesOf(p) : c \in Nat /\ c > 0 /\ c <= born
  BY BornAreIds
<1>4. rAfter \in Nat /\ born \in Nat
  BY DEF TypeOK
<1>5. ASSUME NEW last \in Ids, ReplyPage(last) PROVE WalkHasSeen' /\ ThreadHasSeen'
  <2> DEFINE page == Page(RepliesOf(thread), rAfter, last)
  <2>1. thread \in Ids /\ thread # 0
    BY <1>5, BornAreIds DEF ReplyPage, ThreadsAreStored, Ids
  <2>2. stored' = stored \union page /\ rSeen' = rSeen \union page /\ thread' = thread
    BY <1>5 DEF ReplyPage, Upsert
  <2>3. TopLevel \cap page = {}
    BY <2>1 DEF TopLevel, RepliesOf, Page
  <2>4. WalkHasSeen'
    BY <1>1, <1>2, <2>2, <2>3 DEF WalkHasSeen
  <2>5. last \in RepliesOf(thread) /\ \A c \in RepliesOf(thread) : c <= last => c \in rSeen'
    BY <1>3, <1>4, <1>5, <2>2 DEF ReplyPage, Ends, Page, ThreadHasSeen
  <2>6. pc' = "thread" => rAfter' = last
    BY <1>5 DEF ReplyPage
  <2>7. pc' = "missing" => \A c \in RepliesOf(thread) : c <= last
    BY <1>3, <1>5, <2>5 DEF ReplyPage, More
  <2>8. ThreadHasSeen'
    BY <1>1, <1>3, <2>2, <2>5, <2>6, <2>7 DEF ThreadHasSeen
  <2> QED
    BY <2>4, <2>8
<1>6. ASSUME NEW c \in Ids, BeginThread(c) PROVE WalkHasSeen' /\ ThreadHasSeen'
  BY <1>1, <1>2, <1>3, <1>4, <1>6 DEF BeginThread, WalkHasSeen, ThreadHasSeen, rows
<1>7. CASE NoReplies
  BY <1>1, <1>2, <1>3, <1>4, <1>7 DEF NoReplies, ThreadEnd, More, WalkHasSeen, ThreadHasSeen, rows, reply
<1>8. CASE ThreadTruncated \/ DeleteMissingReplies
  BY <1>1, <1>2, <1>8 DEF ThreadTruncated, DeleteMissingReplies, WalkHasSeen, ThreadHasSeen, rows
<1> QED
  BY <1>5, <1>6, <1>7, <1>8 DEF ReplyStep

(* What is deleted at the end of a walk has been looked for.               *)
LEMMA DeletedAreGone ==
  ASSUME TypeOK, ThreadsAreStored, GoneTogether, WalkHasSeen, ThreadHasSeen, Close \/ DeleteMissingReplies
  PROVE  \A c \in stored \ stored' : c \in gone
<1> SUFFICES ASSUME NEW c \in stored, c \notin stored' PROVE c \in gone
  OBVIOUS
<1>1. c \in 1 .. born /\ \A d \in stored : d \notin gone => d \in Live
  BY DEF TypeOK, Live
<1>2. CASE Close
  <2>1. startedFresh /\ c \in Missing(0, seen)
    BY <1>2 DEF Close, Deletes
  <2>2. \A d \in stored : Parent[d] = 0 /\ d \notin seen => d \in gone
    BY <1>1, <1>2, <2>1 DEF Close, WalkHasSeen, TopLevel, RepliesOf
  <2> QED
    BY <1>1, <2>1, <2>2 DEF Missing, GoneTogether
<1>3. CASE DeleteMissingReplies
  <2>1. c \in Missing(thread, rSeen) /\ thread # 0
    BY <1>3, BornAreIds DEF DeleteMissingReplies, ThreadsAreStored, Ids
  <2>2. Parent[c] = thread /\ c \notin rSeen
    BY <2>1 DEF Missing
  <2> QED
    BY <1>1, <1>3, <2>2 DEF DeleteMissingReplies, ThreadHasSeen, RepliesOf
<1> QED
  BY <1>2, <1>3

(* Rows leave the stored ones at the end of a walk only.                   *)
LEMMA DeletingIsRare ==
  ASSUME [Next]_vars
  PROVE  stored \subseteq stored' \/ Close \/ DeleteMissingReplies
  BY DEF Next, WorldStep, TopStep, WalkStep, ReplyStep, Appear, NeverWritten, RaiseCap, Report, Vanish, PassedOver, Begin, PageDone, NoComments,
         Truncated, TopPage, NoReplies, ThreadTruncated, BeginThread, ReplyPage, FetchFails, CommitAttempt,
         WorkerDies, Upsert, vars, rows

SyncSees == TypeOK /\ ThreadsAreStored /\ GoneTogether /\ WalkHasSeen /\ ThreadHasSeen

(* One case for each action; a page that is wrongly empty is excluded.     *)
LEMMA SeeingIsPreserved ==
  ASSUME "empty" \notin Faults
  PROVE  SyncSees /\ [Next]_vars => SyncSees'
<1> SUFFICES ASSUME SyncSees, [Next]_vars PROVE SyncSees'
  OBVIOUS
<1> USE DEF SyncSees
<1>1. TypeOK' /\ ThreadsAreStored' /\ GoneTogether'
  BY TypeIsPreserved, GoneGoTogether
<1>2. CASE WorldStep \/ TopStep \/ ReplyStep
  BY <1>1, <1>2, WorldIsSeen, TopIsSeen, RepliesAreSeen
<1>3. CASE FetchFails
  BY <1>1, <1>3 DEF FetchFails, WalkHasSeen, ThreadHasSeen, TopLevel, RepliesOf, Live, world, top
<1>4. CASE CommitAttempt \/ WorkerDies
  <2>1. startedFresh' = FALSE /\ pc' = "idle"
    BY <1>4 DEF CommitAttempt, WorkerDies, Forget
  <2> QED
    BY <1>1, <2>1 DEF WalkHasSeen, ThreadHasSeen
<1>5. CASE UNCHANGED vars
  BY <1>1, <1>5
     DEF WalkHasSeen, ThreadHasSeen, TopLevel, RepliesOf, Live, vars, world, rows, top, reply
<1> QED
  BY <1>2, <1>3, <1>4, <1>5 DEF Next

(* OnlyTheGoneAreDeleted, from what a walk has seen: resumed, capped, cut  *)
(* by its page limit or overtaken by new comments, a sync deletes no row   *)
(* of a comment that is still there, provided that an answer without a     *)
(* list of comments is not taken for the end of the list.                  *)
THEOREM TombstonesAreTrue ==
  ASSUME "empty" \notin Faults
  PROVE  Spec => OnlyTheGoneAreDeleted
<1>1. Init => SyncSees
  BY TypeHoldsInitially DEF Init, SyncSees, GoneTogether, WalkHasSeen, ThreadHasSeen
<1>2. SyncSees /\ [Next]_vars => SyncSees'
  BY SeeingIsPreserved
<1>3. SyncSees /\ [Next]_vars => [\A c \in stored \ stored' : c \in gone]_vars
  BY DeletingIsRare, DeletedAreGone DEF SyncSees
<1> QED
  BY <1>1, <1>2, <1>3, PTL DEF Spec, OnlyTheGoneAreDeleted

-----------------------------------------------------------------------------
(* The cap.                                                                *)

(* Where a comment is in the list S that is read from cursor c.            *)
RankIn(S, c, d) == Cardinality(Page(S, c, d))

(* Later in the list is higher in rank.                                    *)
LEMMA RanksGrow ==
  ASSUME NEW S, S \subseteq Ids, NEW c \in Nat, NEW d \in S, NEW e \in S, c < d, d < e
  PROVE  /\ RankIn(S, c, d) \in Nat /\ RankIn(S, c, d) >= 1
         /\ RankIn(S, c, d) < RankIn(S, c, e)
<1>1. d \in Nat /\ e \in Nat
  BY DEF Ids
<1>2. Page(S, c, d) \subseteq Ids /\ Page(S, c, e) \subseteq Ids
  BY DEF Page
<1>3. d \in Page(S, c, d) /\ e \in Page(S, c, e) /\ e \notin Page(S, c, d)
  BY <1>1 DEF Page
<1>4. Page(S, c, d) \subseteq Page(S, c, e)
  <2> SUFFICES ASSUME NEW x \in Page(S, c, d) PROVE x \in Page(S, c, e)
    OBVIOUS
  <2>1. x \in S /\ c < x /\ x <= d /\ x \in Nat
    BY DEF Page, Ids
  <2>2. x <= e
    BY <1>1, <2>1
  <2> QED
    BY <2>1, <2>2 DEF Page
<1>5. IsFiniteSet(Page(S, c, d)) /\ IsFiniteSet(Page(S, c, e))
  BY <1>2, IdsAreCountable
<1>6. RankIn(S, c, d) \in Nat /\ RankIn(S, c, e) \in Nat
  BY <1>5, FS_CardinalityType DEF RankIn
<1>7. RankIn(S, c, d) <= RankIn(S, c, e) /\ RankIn(S, c, d) # RankIn(S, c, e)
  <2>1. Page(S, c, d) # Page(S, c, e)
    BY <1>3
  <2> QED
    BY <1>4, <1>5, <2>1, FS_Subset DEF RankIn
<1>8. RankIn(S, c, d) # 0
  BY <1>3, <1>5, FS_EmptySet DEF RankIn
<1> QED
  BY <1>6, <1>7, <1>8

(* No two members of a set that follow c are the same number of places     *)
(* behind it.                                                              *)
LEMMA RanksAreDistinct ==
  ASSUME NEW S, S \subseteq Ids, NEW c \in Nat, NEW d \in S, NEW e \in S, c < d, c < e,
         RankIn(S, c, d) = RankIn(S, c, e)
  PROVE  d = e
<1>1. d \in Nat /\ e \in Nat
  BY DEF Ids
<1>2. CASE d < e
  BY <1>2, RanksGrow
<1>3. CASE e < d
  BY <1>3, RanksGrow
<1> QED
  BY <1>1, <1>2, <1>3

(* No answer is larger than LargestAnswer: a comment has its rank on the   *)
(* page, a reply that comes with it that of its comment and its own.       *)
LEMMA TopAnswerFits ==
  ASSUME TypeOK, NEW last \in Ends(TopLevel, after, PageSize)
  PROVE  LET page == Page(TopLevel, after, last)
         IN  /\ Cardinality(page) <= PageSize
             /\ Cardinality(page \union Inline(page)) <= PageSize * (1 + InlineReplies)
<1> DEFINE page == Page(TopLevel, after, last)
           X == page \union Inline(page)
           place(c) == IF Parent[c] = 0 THEN <<RankIn(TopLevel, after, c), 0>>
                       ELSE <<RankIn(TopLevel, after, Parent[c]), RankIn(RepliesOf(Parent[c]), 0, c)>>
           T == (1 .. PageSize) \X (0 .. InlineReplies)
           f == [c \in X |-> place(c)]
<1>1. TopLevel \subseteq Ids /\ (\A p : RepliesOf(p) \subseteq Ids) /\ after \in Nat
  BY BornAreIds DEF TopLevel, TypeOK
<1>2. Cardinality(page) <= PageSize
  BY DEF Ends
<1>3. ASSUME NEW c \in page
      PROVE  c \in TopLevel /\ after < c /\ Parent[c] = 0 /\ RankIn(TopLevel, after, c) \in 1 .. PageSize
  <2>1. c \in TopLevel /\ after < c /\ c <= last /\ Parent[c] = 0
    BY DEF Page, TopLevel, RepliesOf
  <2>2. last \in TopLevel /\ after < last /\ c \in Nat /\ last \in Nat
    BY <1>1, <2>1 DEF Ends, Ids
  <2>3. RankIn(TopLevel, after, last) <= PageSize
    BY <1>2 DEF RankIn
  <2>4. CASE c = last
    <3>1. page \subseteq Ids
      BY <1>1 DEF Page
    <3>2. last \in page
      BY <2>2 DEF Page
    <3>3. RankIn(TopLevel, after, c) \in Nat /\ RankIn(TopLevel, after, c) # 0
      BY <2>4, <3>1, <3>2, IdsAreCountable, FS_EmptySet DEF RankIn
    <3> QED
      BY <2>1, <2>3, <2>4, <3>3, ConstantsAssumption
  <2>5. CASE c < last
    <3>1. RankIn(TopLevel, after, c) < RankIn(TopLevel, after, last) /\ RankIn(TopLevel, after, c) >= 1
      BY <1>1, <2>1, <2>2, <2>5, RanksGrow
    <3>2. RankIn(TopLevel, after, c) \in Nat /\ RankIn(TopLevel, after, last) \in Nat
      <4>1. Page(TopLevel, after, c) \subseteq Ids /\ page \subseteq Ids
        BY <1>1 DEF Page
      <4> QED
        BY <4>1, IdsAreCountable DEF RankIn
    <3> QED
      BY <2>1, <2>3, <3>1, <3>2, ConstantsAssumption
  <2> QED
    BY <2>1, <2>2, <2>4, <2>5
<1>4. ASSUME NEW r \in Inline(page)
      PROVE  /\ Parent[r] \in page /\ Parent[r] # 0
             /\ r \in RepliesOf(Parent[r]) /\ 0 < r
             /\ RankIn(RepliesOf(Parent[r]), 0, r) \in 1 .. InlineReplies
  <2>1. PICK c \in page : r \in RepliesOf(c) /\ Cardinality(Page(RepliesOf(c), 0, r)) <= InlineReplies
    BY DEF Inline
  <2>2. Parent[r] = c /\ r \in Ids /\ c \in Ids
    BY <1>1, <1>3, <2>1 DEF RepliesOf
  <2>3. RankIn(RepliesOf(c), 0, r) <= InlineReplies
    BY <2>1 DEF RankIn
  <2>4. Page(RepliesOf(c), 0, r) \subseteq Ids /\ r \in Page(RepliesOf(c), 0, r)
    BY <1>1, <2>1, <2>2 DEF Page, Ids
  <2>5. RankIn(RepliesOf(c), 0, r) \in Nat /\ RankIn(RepliesOf(c), 0, r) # 0
    BY <2>4, IdsAreCountable, FS_EmptySet DEF RankIn
  <2> QED
    BY <2>1, <2>2, <2>3, <2>5, ConstantsAssumption DEF Ids
<1>5. ASSUME NEW x \in X PROVE place(x) \in T
  BY <1>3, <1>4, <1>5, ConstantsAssumption
<1>6. ASSUME NEW x \in X, NEW y \in X, place(x) = place(y) PROVE x = y
  <2>1. CASE x \in page /\ y \in page
    BY <1>1, <1>3, <1>6, <2>1, RanksAreDistinct
  <2>2. CASE x \in page /\ y \in Inline(page)
    BY <1>3, <1>4, <1>6, <2>2
  <2>3. CASE x \in Inline(page) /\ y \in page
    BY <1>3, <1>4, <1>6, <2>3
  <2>4. CASE x \in Inline(page) /\ y \in Inline(page)
    <3>1. Parent[x] = Parent[y]
      BY <1>1, <1>3, <1>4, <1>6, <2>4, RanksAreDistinct
    <3>2. RankIn(RepliesOf(Parent[x]), 0, x) = RankIn(RepliesOf(Parent[x]), 0, y)
      BY <1>4, <1>6, <2>4, <3>1
    <3> QED
      BY <1>1, <1>4, <2>4, <3>1, <3>2, RanksAreDistinct
  <2> QED
    BY <2>1, <2>2, <2>3, <2>4
<1>7. f \in Injection(X, T)
  <2> HIDE DEF place
  <2>1. f \in [X -> T]
    BY <1>5
  <2>2. \A x, y \in X : f[x] = f[y] => x = y
    BY <1>6
  <2> QED
    BY <2>1, <2>2 DEF Injection, IsInjective
<1>8. IsFiniteSet(T) /\ Cardinality(T) = PageSize * (1 + InlineReplies)
  <2>1. IsFiniteSet(1 .. PageSize) /\ Cardinality(1 .. PageSize) = PageSize
    BY FS_Interval, ConstantsAssumption
  <2>2. IsFiniteSet(0 .. InlineReplies) /\ Cardinality(0 .. InlineReplies) = 1 + InlineReplies
    BY FS_Interval, ConstantsAssumption
  <2> QED
    BY <2>1, <2>2, FS_Product
<1>9. Cardinality(X) <= PageSize * (1 + InlineReplies)
  BY <1>7, <1>8, FS_Injection
<1> QED
  BY <1>2, <1>9

(* The larger of two numbers.                                              *)
LEMMA MaxOfTwo ==
  ASSUME NEW a \in Nat, NEW b \in Nat
  PROVE  Max({a, b}) \in Nat /\ Max({a, b}) >= a /\ Max({a, b}) >= b
<1>1. \E x \in {a, b} : \A y \in {a, b} : x >= y
  <2>1. CASE a >= b
    BY <2>1
  <2>2. CASE b >= a
    BY <2>2
  <2> QED
    BY <2>1, <2>2
<1> QED
  BY <1>1 DEF Max

(* No page, of either list and with what comes along, is larger than       *)
(* LargestAnswer.                                                          *)
LEMMA AnswersFit ==
  ASSUME TypeOK
  PROVE  /\ LargestAnswer \in Nat /\ LargestAnswer > 0
         /\ \A last \in Ends(TopLevel, after, PageSize) :
              LET page == Page(TopLevel, after, last)
              IN  Cardinality(page \union Inline(page)) <= LargestAnswer
         /\ \A last \in Ends(RepliesOf(thread), rAfter, ReplyPageSize) :
              Cardinality(Page(RepliesOf(thread), rAfter, last)) <= LargestAnswer
<1> DEFINE largest == IF platform = "instagram" THEN PageSize ELSE PageSize * (1 + InlineReplies)
<1>1. PageSize \in Nat /\ PageSize * (1 + InlineReplies) \in Nat /\ ReplyPageSize \in Nat /\ ReplyPageSize > 0
  BY ConstantsAssumption
<1>2. largest \in Nat
  BY <1>1
<1> HIDE DEF largest
<1>3. LargestAnswer = Max({ReplyPageSize, largest})
  BY DEF LargestAnswer, largest
<1>4. LargestAnswer \in Nat /\ LargestAnswer >= ReplyPageSize /\ LargestAnswer >= largest
  BY <1>1, <1>2, <1>3, MaxOfTwo
<1>5. ASSUME NEW last \in Ends(TopLevel, after, PageSize)
      PROVE  LET page == Page(TopLevel, after, last)
             IN  Cardinality(page \union Inline(page)) <= LargestAnswer
  <2> DEFINE page == Page(TopLevel, after, last)
  <2>1. Cardinality(page) <= PageSize /\ Cardinality(page \union Inline(page)) <= PageSize * (1 + InlineReplies)
    BY TopAnswerFits
  <2>2. platform = "instagram" => page \union Inline(page) = page
    BY DEF Inline
  <2>3. Cardinality(page \union Inline(page)) <= largest
    BY <2>1, <2>2 DEF largest
  <2>4. Cardinality(page \union Inline(page)) \in Nat
    <3>1. page \union Inline(page) \subseteq Ids
      BY BornAreIds DEF Page, TopLevel, Inline
    <3> QED
      BY <3>1, IdsAreCountable
  <2> QED
    BY <1>2, <1>4, <2>3, <2>4
<1>6. ASSUME NEW last \in Ends(RepliesOf(thread), rAfter, ReplyPageSize)
      PROVE  Cardinality(Page(RepliesOf(thread), rAfter, last)) <= LargestAnswer
  <2>1. Cardinality(Page(RepliesOf(thread), rAfter, last)) <= ReplyPageSize
    BY DEF Ends
  <2>2. Page(RepliesOf(thread), rAfter, last) \subseteq Ids
    BY BornAreIds DEF Page
  <2>3. Cardinality(Page(RepliesOf(thread), rAfter, last)) \in Nat
    BY <2>2, IdsAreCountable
  <2> QED
    BY <1>1, <1>4, <2>1, <2>3
<1> QED
  BY <1>1, <1>4, <1>5, <1>6

(* An answer that arrives below the cap.                                   *)
LEMMA UpsertKeepsCap ==
  ASSUME TypeOK, ~Capped, NEW cs, cs \subseteq Ids, Cardinality(cs) <= LargestAnswer, stored' = stored \union cs,
         cap' = cap, LargestAnswer' = LargestAnswer
  PROVE  CapHolds'
<1>1. /\ IsFiniteSet(stored) /\ Cardinality(stored) \in Nat
      /\ IsFiniteSet(cs) /\ Cardinality(cs) \in Nat
      /\ Cardinality(stored \cap cs) \in Nat
  BY BornAreIds, IdsAreCountable
<1>2. Cardinality(stored \union cs) <= Cardinality(stored) + Cardinality(cs)
  <2>1. Cardinality(stored \union cs) = Cardinality(stored) + Cardinality(cs) - Cardinality(stored \cap cs)
    BY <1>1, FS_Union
  <2> QED
    BY <1>1, <2>1
<1>3. Cardinality(stored \union cs) \in Nat
  BY BornAreIds, IdsAreCountable
<1>4. cap \in Nat /\ LargestAnswer \in Nat
  BY AnswersFit, ConstantsAssumption DEF TypeOK
<1>5. cap > 0 => Cardinality(stored) < cap
  BY <1>1, <1>4 DEF Capped
<1> QED
  BY <1>1, <1>2, <1>3, <1>4, <1>5 DEF CapHolds

(* A step that stores nothing.                                             *)
LEMMA FewerRowsKeepCap ==
  ASSUME TypeOK, CapHolds, stored' \subseteq stored, LargestAnswer' = LargestAnswer,
         cap' = cap \/ (cap > 0 /\ cap' \in Caps /\ (cap' = 0 \/ cap' > cap))
  PROVE  CapHolds'
<1>1. IsFiniteSet(stored) /\ Cardinality(stored) \in Nat /\ Cardinality(stored') \in Nat
  BY BornAreIds, IdsAreCountable
<1>2. Cardinality(stored') <= Cardinality(stored)
  BY <1>1, FS_Subset
<1>3. cap \in Nat /\ cap' \in Nat /\ LargestAnswer \in Nat
  BY AnswersFit, ConstantsAssumption DEF TypeOK
<1> QED
  BY <1>1, <1>2, <1>3 DEF CapHolds

(* CapHolds: pages and threads that are fetched one after the other go     *)
(* past the cap with the last answer only, whichever list it is of and     *)
(* however the operator raises the cap between two syncs.                  *)
THEOREM CapIsKept == Spec => []CapHolds
<1>1. Init => CapHolds
  <2> SUFFICES ASSUME Init PROVE CapHolds
    OBVIOUS
  <2>1. Cardinality(stored) = 0 /\ cap \in Nat /\ LargestAnswer \in Nat
    BY TypeHoldsInitially, AnswersFit, FS_EmptySet, ConstantsAssumption DEF Init
  <2> QED
    BY <2>1 DEF CapHolds
<1>2. TypeOK /\ CapHolds /\ [Next]_vars => CapHolds'
  <2> SUFFICES ASSUME TypeOK, CapHolds, [Next]_vars PROVE CapHolds'
    OBVIOUS
  <2>1. LargestAnswer' = LargestAnswer
    <3>1. platform' = platform
      BY DEF Next, WorldStep, TopStep, WalkStep, ReplyStep, Appear, NeverWritten, RaiseCap, Report, Vanish, PassedOver, Begin, PageDone, NoComments,
             Truncated, TopPage, Close, NoReplies, ThreadTruncated, BeginThread, ReplyPage,
             DeleteMissingReplies, FetchFails, CommitAttempt, WorkerDies, vars, world
    <3> QED
      BY <3>1 DEF LargestAnswer
  <2>2. ASSUME NEW last \in Ids, TopPage(last) PROVE CapHolds'
    <3> DEFINE page == Page(TopLevel, after, last)
    <3>1. page \union Inline(page) \subseteq Ids
      BY BornAreIds DEF Page, TopLevel, Inline
    <3>2. Cardinality(page \union Inline(page)) <= LargestAnswer
      BY <2>2, AnswersFit DEF TopPage
    <3>3. ~Capped /\ stored' = stored \union (page \union Inline(page)) /\ cap' = cap
      BY <2>2 DEF TopPage, Upsert, world
    <3> QED
      BY <2>1, <3>1, <3>2, <3>3, UpsertKeepsCap
  <2>3. ASSUME NEW last \in Ids, ReplyPage(last) PROVE CapHolds'
    <3> DEFINE page == Page(RepliesOf(thread), rAfter, last)
    <3>1. page \subseteq Ids /\ Cardinality(page) <= LargestAnswer
      BY <2>3, BornAreIds, AnswersFit DEF ReplyPage, Page
    <3>2. ~Capped /\ stored' = stored \union page /\ cap' = cap
      BY <2>3 DEF ReplyPage, ThreadCapped, Upsert, world
    <3> QED
      BY <2>1, <3>1, <3>2, UpsertKeepsCap
  <2>4. CASE ~(\E last \in Ids : TopPage(last) \/ ReplyPage(last))
    <3>1. stored' \subseteq stored
      BY <2>4
         DEF Next, WorldStep, TopStep, WalkStep, ReplyStep, Appear, NeverWritten, RaiseCap, Report, Vanish, PassedOver, Begin, PageDone, NoComments,
             Truncated, Close, NoReplies, ThreadTruncated, BeginThread, DeleteMissingReplies, FetchFails,
             CommitAttempt, WorkerDies, vars, rows
    <3>2. cap' = cap \/ (cap > 0 /\ cap' \in Caps /\ (cap' = 0 \/ cap' > cap))
      BY <2>4
         DEF Next, WorldStep, TopStep, WalkStep, ReplyStep, Appear, NeverWritten, RaiseCap, Report, Vanish, PassedOver, Begin, PageDone, NoComments,
             Truncated, Close, NoReplies, ThreadTruncated, BeginThread, DeleteMissingReplies, FetchFails,
             CommitAttempt, WorkerDies, vars, world
    <3> QED
      BY <2>1, <3>1, <3>2, FewerRowsKeepCap
  <2> QED
    BY <2>2, <2>3, <2>4
<1> QED
  BY <1>1, <1>2, TypeCorrect, PTL DEF Spec
=============================================================================
