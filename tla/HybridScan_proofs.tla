---------------------------- MODULE HybridScan_proofs ----------------------------
(***************************************************************************)
(* What holds of HybridScan for any posts, pins, pages and limits, and any *)
(* interleaving of the Graph job with the enrich job.                      *)
(***************************************************************************)
EXTENDS HybridScan, TLAPS

(* A job has a page in hand, of posts that there are, from its reading to  *)
(* its writing and at no other time.                                       *)
PagesInHand ==
  /\ gpc # "writing" => gitems = Nothing
  /\ epc # "writing" => eitems = Nothing
  /\ DOMAIN gitems \subseteq 1 .. published
  /\ epc \in {"reading", "writing"} => epages < FeedPages
  /\ epc = "idle" => epages = 0

(* Posts whose snapshot of today a job is about to insert.                 *)
GraphInserts  == DOMAIN gitems \ gsaw
EnrichInserts == DOMAIN eitems \ esaw

(* A post gets a second snapshot at most: each job has seen that there is  *)
(* none before it inserts its own.                                         *)
SnapshotsAreFew ==
  \A p \in Posts :
    /\ p \in GraphInserts \union EnrichInserts => dayRows[p] < 2
    /\ p \in GraphInserts \cap EnrichInserts => dayRows[p] = 0

(* What the walk has passed is found, or on the page at hand.              *)
PassedIsFound ==
  gpc # "idle" =>
    \A p \in gat .. horizon : p >= Since /\ p >= inWindow => p \in stored \union DOMAIN gitems

(* A candidate has its media id when its page is written.                  *)
CandidatesGetLinked == candidates \subseteq linked \union DOMAIN eitems

-----------------------------------------------------------------------------
(* Types.                                                                  *)

Counts == 0 .. MaxComments

(* The items of a page, of posts in P.                                     *)
LEMMA ItemsHaveCounts ==
  ASSUME NEW P, NEW items
  PROVE  (\E S \in SUBSET P : items \in [S -> Counts]) <=> DOMAIN items \subseteq P /\ items \in [DOMAIN items -> Counts]
  OBVIOUS

(* No page, no counts.                                                     *)
LEMMA NothingHasCounts == Nothing \in [{} -> Counts] /\ DOMAIN Nothing = {}
  BY DEF Nothing

(* Positions and bounds, as the provers need them.                         *)
LEMMA PositionsAreNumbers ==
  /\ N \in Nat /\ Top = N + 1 /\ Top \in 1 .. Top /\ 1 \in 1 .. Top /\ 0 \in 0 .. N
  /\ Posts \subseteq 1 .. Top
  /\ MaxComments \in Nat /\ MaxMediaPages \in Nat /\ FeedPages \in Nat
  /\ None = -1
  BY ConstantsAssumption DEF Top, Posts, None

Typed == TypeOK /\ PagesInHand /\ SnapshotsAreFew

(* Before the first post both jobs are idle.                               *)
LEMMA TypeHoldsInitially == Init => Typed
<1> SUFFICES ASSUME Init PROVE Typed
  OBVIOUS
<1>1. comments \in [Posts -> Counts] /\ synced \in [Posts -> Counts] /\ reported \in [Posts -> Counts]
  BY PositionsAreNumbers DEF Init, Counts
<1>2. dayRows \in [Posts -> 0 .. 2] /\ recorded \in [Posts -> None .. MaxComments]
  BY PositionsAreNumbers DEF Init
<1>3. views \in [Posts -> {"none", "zero", "real"}]
  BY DEF Init
<1>4. DOMAIN gitems = {} /\ DOMAIN eitems = {} /\ gitems \in [{} -> Counts] /\ eitems \in [{} -> Counts]
  BY NothingHasCounts DEF Init
<1>5. /\ \E S \in SUBSET Posts : gitems \in [S -> 0 .. MaxComments]
      /\ \E S \in SUBSET stored : eitems \in [S -> 0 .. MaxComments]
  BY <1>4 DEF Counts
<1>6. 0 .. published = {0} /\ 1 .. published = {} /\ inWindow \in 1 .. N + 1
  BY PositionsAreNumbers DEF Init
<1>7. gat \in 1 .. Top /\ eat \in 1 .. Top /\ gpages \in 0 .. MaxMediaPages /\ epages \in 0 .. FeedPages
  BY PositionsAreNumbers DEF Init
<1>8. TypeOK
  <2> USE <1>1, <1>2, <1>3, <1>4, <1>5, <1>6, <1>7 DEF Counts
  <2>1. published \in 0 .. N /\ stored \subseteq 1 .. published /\ linked \subseteq stored /\ horizon \in 0 .. published
    BY PositionsAreNumbers DEF Init
  <2> QED
    BY <2>1 DEF Init, TypeOK
<1>9. PagesInHand /\ SnapshotsAreFew
  BY <1>4, PositionsAreNumbers DEF Init, PagesInHand, SnapshotsAreFew, GraphInserts, EnrichInserts
<1> QED
  BY <1>8, <1>9 DEF Typed

(* Instagram and the calendar; midnight comes when no page is in hand.     *)
LEMMA WorldIsTyped ==
  ASSUME Typed, WorldStep
  PROVE  Typed'
<1> USE DEF Typed
<1>1. published \in Nat /\ N \in Nat /\ published \in 0 .. N
  BY PositionsAreNumbers DEF TypeOK
<1>2. CASE Publish
  <2>1. published' = published + 1 /\ published' \in 0 .. N
    BY <1>1, <1>2 DEF Publish
  <2>2. stored \subseteq 1 .. published' /\ DOMAIN gitems \subseteq 1 .. published' /\ horizon \in 0 .. published'
    BY <1>1, <2>1 DEF TypeOK, PagesInHand
  <2> QED
    BY <1>2, <2>1, <2>2
       DEF Publish, TypeOK, PagesInHand, SnapshotsAreFew, GraphInserts, EnrichInserts, posts, metrics, graph, enrich
<1>3. ASSUME NEW p \in Posts, Comment(p) PROVE Typed'
  <2>1. comments' \in [Posts -> 0 .. MaxComments]
    BY <1>3, PositionsAreNumbers DEF Comment, TypeOK
  <2> QED
    BY <1>3, <2>1
       DEF Comment, TypeOK, PagesInHand, SnapshotsAreFew, GraphInserts, EnrichInserts, posts, metrics, graph, enrich
<1>4. CASE NewDay
  <2>1. dayRows' \in [Posts -> 0 .. 2] /\ views' \in [Posts -> {"none", "zero", "real"}]
    BY <1>4 DEF NewDay
  <2>2. inWindow' \in 1 .. N + 1
    BY <1>1, <1>4 DEF NewDay, TypeOK
  <2>3. SnapshotsAreFew'
    BY <1>4 DEF NewDay, SnapshotsAreFew
  <2> QED
    BY <1>4, <2>1, <2>2, <2>3 DEF NewDay, TypeOK, PagesInHand, posts, graph, enrich
<1> QED
  BY <1>2, <1>3, <1>4 DEF WorldStep

(* Snapshots are inserted of posts that have none, or the other job's.     *)
LEMMA InsertIsTyped ==
  ASSUME TypeOK, NEW items, NEW saw, \A p \in Posts : p \in DOMAIN items \ saw => dayRows[p] < 2,
         InsertMissing(items, saw)
  PROVE  dayRows' \in [Posts -> 0 .. 2]
  BY DEF TypeOK, InsertMissing

(* The Graph job.                                                          *)
LEMMA GraphIsTyped ==
  ASSUME Typed, GraphStep \/ GraphFails \/ GraphRaises
  PROVE  Typed'
<1> USE DEF Typed
<1>1. CASE GraphStart
  <2>1. horizon' \in 0 .. published
    BY <1>1 DEF GraphStart, TypeOK
  <2> QED
    BY <1>1, <2>1, PositionsAreNumbers
       DEF GraphStart, TypeOK, PagesInHand, SnapshotsAreFew, GraphInserts, EnrichInserts, world, posts, metrics, enrich
<1>2. CASE GraphWrite
  <2>1. stored' \subseteq 1 .. published /\ stored \subseteq stored'
    BY <1>2 DEF GraphWrite, SavePosts, TypeOK, PagesInHand
  <2>2. dayRows' \in [Posts -> 0 .. 2]
    BY <1>2, InsertIsTyped DEF GraphWrite, SnapshotsAreFew, GraphInserts
  <2>3. recorded' \in [Posts -> None .. MaxComments]
    <3>1. gitems \in [DOMAIN gitems -> Counts]
      BY ItemsHaveCounts DEF TypeOK, Counts
    <3>2. \A p \in DOMAIN gitems : gitems[p] \in None .. MaxComments
      BY <3>1, PositionsAreNumbers DEF Counts
    <3> QED
      BY <1>2, <3>2 DEF GraphWrite, TypeOK
  <2>4. /\ gpc' \in {"idle", "reading"} /\ gat' \in 1 .. Top /\ gpages' \in 0 .. MaxMediaPages
        /\ gitems' = Nothing /\ gsaw' = {}
    BY <1>2, PositionsAreNumbers DEF GraphWrite, GraphOver, TypeOK
  <2>5. gitems' \in [{} -> 0 .. MaxComments] /\ DOMAIN gitems' = {}
    BY <2>4, NothingHasCounts DEF Counts
  <2>6. PagesInHand' /\ \E S \in SUBSET stored' : eitems' \in [S -> 0 .. MaxComments]
    BY <1>2, <2>1, <2>4, <2>5 DEF GraphWrite, PagesInHand, TypeOK, enrich, world
  <2>7. SnapshotsAreFew'
    <3>1. \A p \in Posts : dayRows'[p] = IF p \in GraphInserts THEN dayRows[p] + 1 ELSE dayRows[p]
      BY <1>2 DEF GraphWrite, InsertMissing, GraphInserts
    <3>2. GraphInserts' = {} /\ EnrichInserts' = EnrichInserts
      BY <1>2, <2>5 DEF GraphWrite, GraphInserts, EnrichInserts, enrich
    <3> QED
      BY <3>1, <3>2 DEF SnapshotsAreFew
  <2> QED
    BY <1>2, <2>1, <2>2, <2>3, <2>4, <2>5, <2>6, <2>7 DEF GraphWrite, TypeOK, enrich, world
<1>3. CASE GraphEmpty \/ GraphFails \/ GraphRaises
  <2>1. GraphOver /\ UNCHANGED <<horizon, world, posts, metrics, synced, enrich, calm>>
    BY <1>3 DEF GraphEmpty, GraphFails, GraphRaises
  <2>2. gitems' \in [{} -> 0 .. MaxComments] /\ DOMAIN gitems' = {} /\ gitems' = Nothing
    BY <2>1, NothingHasCounts DEF GraphOver, Counts
  <2>3. PagesInHand' /\ SnapshotsAreFew'
    BY <2>1, <2>2
       DEF PagesInHand, SnapshotsAreFew, GraphInserts, EnrichInserts, metrics, enrich, world, GraphOver
  <2>4. gpc' \in {"idle", "reading", "writing"} /\ gat' \in 1 .. Top /\ gpages' \in 0 .. MaxMediaPages /\ gsaw' = {}
    BY <2>1, PositionsAreNumbers DEF GraphOver
  <2>5. \E S \in SUBSET Posts : gitems' \in [S -> 0 .. MaxComments]
    BY <2>2
  <2> QED
    BY <2>1, <2>3, <2>4, <2>5 DEF TypeOK, world, posts, metrics, enrich
<1>4. ASSUME NEW last \in Posts, GraphRead(last) PROVE Typed'
  <2>1. DOMAIN gitems' \subseteq 1 .. published /\ gitems' \in [DOMAIN gitems' -> Counts]
    <3> DEFINE page == Page(Feed, gat, last)
               stops == {p \in page : GraphStops(p)}
    <3>1. gitems' = [p \in Until(page, stops) |-> comments[p]]
      BY <1>4 DEF GraphRead
    <3>2. Until(page, stops) \subseteq 1 .. published
      BY DEF Until, Page, Feed
    <3>3. \A p \in 1 .. published : comments[p] \in Counts
      BY PositionsAreNumbers DEF TypeOK, Counts, Posts
    <3> QED
      BY <3>1, <3>2, <3>3
  <2>2. 1 .. published \subseteq Posts
    BY PositionsAreNumbers DEF TypeOK, Posts
  <2>3. \A p \in DOMAIN gitems' \ gsaw' : p \in Posts /\ dayRows[p] = 0
    <3>1. /\ \A p \in DOMAIN gitems' : ~(dayRows[p] > 1)
          /\ gsaw' = {p \in DOMAIN gitems' : dayRows[p] = 1}
      BY <1>4 DEF GraphRead, Twice
    <3>2. \A p \in DOMAIN gitems' : p \in Posts /\ dayRows[p] \in 0 .. 2
      BY <2>1, <2>2 DEF TypeOK
    <3> QED
      BY <3>1, <3>2
  <2>4. gat' \in 1 .. Top /\ gsaw' \subseteq DOMAIN gitems'
    BY <1>4, PositionsAreNumbers DEF GraphRead
  <2>5. SnapshotsAreFew'
    BY <1>4, <2>3 DEF GraphRead, SnapshotsAreFew, GraphInserts, EnrichInserts, metrics, enrich
  <2>6. PagesInHand' /\ \E S \in SUBSET Posts : gitems' \in [S -> 0 .. MaxComments]
    BY <1>4, <2>1, <2>2 DEF GraphRead, PagesInHand, Counts, world, enrich
  <2> QED
    BY <1>4, <2>4, <2>5, <2>6 DEF GraphRead, TypeOK, world, posts, metrics, enrich
<1> QED
  BY <1>1, <1>2, <1>3, <1>4 DEF GraphStep

(* The enrich job.                                                         *)
LEMMA EnrichOverIsTyped ==
  ASSUME Typed, EnrichOver, UNCHANGED <<world, posts, metrics, graph, calm>>,
         synced' \in [Posts -> 0 .. MaxComments]
  PROVE  Typed'
<1> USE DEF Typed
<1>1. eitems' \in [{} -> 0 .. MaxComments] /\ DOMAIN eitems' = {} /\ eitems' = Nothing
  BY NothingHasCounts DEF EnrichOver, Counts
<1>2. /\ epc' = "idle" /\ eat' \in 1 .. Top /\ epages' = 0 /\ epages' \in 0 .. FeedPages /\ esaw' = {}
      /\ candidates' = {}
  BY PositionsAreNumbers DEF EnrichOver
<1>3. \E S \in SUBSET stored : eitems' \in [S -> 0 .. MaxComments]
  BY <1>1
<1>4. reported' \in [Posts -> 0 .. MaxComments]
  BY PositionsAreNumbers DEF EnrichOver
<1>5. PagesInHand' /\ SnapshotsAreFew'
  BY <1>1, <1>2
     DEF PagesInHand, SnapshotsAreFew, GraphInserts, EnrichInserts, metrics, graph, world
<1> QED
  BY <1>2, <1>3, <1>4, <1>5 DEF TypeOK, world, posts, metrics, graph

(* A page is read: only of posts that have a row, and never of one with    *)
(* two snapshots.                                                          *)
LEMMA EnrichReadIsTyped ==
  ASSUME Typed, NEW last \in Posts, EnrichRead(last)
  PROVE  Typed'
<1> USE DEF Typed
<1>1. 1 .. published \subseteq Posts /\ stored \subseteq Posts
  BY PositionsAreNumbers DEF TypeOK, Posts
<1>2. DOMAIN eitems' \subseteq stored /\ eitems' \in [DOMAIN eitems' -> Counts]
  <2> DEFINE page  == CookiePage(eat, last)
             stops == {p \in page : EnrichStops(p)}
             dealt == (page \cap Pinned) \union Until(page \ Pinned, stops)
  <2>1. eitems' = [p \in Matched(dealt) |-> comments[p]]
    BY DEF EnrichRead
  <2>2. Matched(dealt) \subseteq stored
    BY DEF Matched
  <2>3. \A p \in stored : comments[p] \in Counts
    BY <1>1 DEF TypeOK, Counts
  <2> QED
    BY <2>1, <2>2, <2>3
<1>3. \A p \in DOMAIN eitems' \ esaw' : p \in Posts /\ dayRows[p] = 0
  <2>1. /\ \A p \in DOMAIN eitems' : ~(dayRows[p] > 1)
        /\ esaw' = {p \in DOMAIN eitems' : dayRows[p] = 1}
    BY DEF EnrichRead, Twice
  <2>2. \A p \in DOMAIN eitems' : p \in Posts /\ dayRows[p] \in 0 .. 2
    BY <1>1, <1>2 DEF TypeOK
  <2> QED
    BY <2>1, <2>2
<1>4. eat' \in 1 .. Top /\ esaw' \subseteq DOMAIN eitems'
  BY PositionsAreNumbers DEF EnrichRead
<1>5. candidates' \subseteq candidates \union DOMAIN eitems'
  BY DEF EnrichRead
<1>6. reported' \in [Posts -> 0 .. MaxComments]
  BY DEF EnrichRead, TypeOK
<1>7. SnapshotsAreFew'
  <2>1. dayRows' = dayRows /\ GraphInserts' = GraphInserts
    BY DEF EnrichRead, GraphInserts, metrics, graph
  <2>2. \A p \in EnrichInserts' : p \in Posts /\ dayRows[p] = 0
    BY <1>3 DEF EnrichInserts
  <2> QED
    BY <2>1, <2>2 DEF SnapshotsAreFew
<1>8. PagesInHand'
  BY DEF EnrichRead, PagesInHand, world, graph
<1>9. candidates' \subseteq stored /\ \E S \in SUBSET stored : eitems' \in [S -> 0 .. MaxComments]
  BY <1>2, <1>5 DEF TypeOK, Counts
<1> QED
  BY <1>4, <1>6, <1>7, <1>8, <1>9 DEF EnrichRead, TypeOK, world, posts, metrics, graph

(* The page is written, with the snapshots it lacked when it was read.     *)
LEMMA EnrichWriteIsTyped ==
  ASSUME Typed, EnrichWrite
  PROVE  Typed'
<1> USE DEF Typed
<1>1. DOMAIN eitems \subseteq stored /\ eitems \in [DOMAIN eitems -> Counts]
  BY ItemsHaveCounts DEF TypeOK, Counts
<1>2. linked' \subseteq stored
  BY <1>1 DEF EnrichWrite, Link, TypeOK
<1>3. dayRows' \in [Posts -> 0 .. 2]
  BY InsertIsTyped DEF EnrichWrite, SnapshotsAreFew, EnrichInserts
<1>4. recorded' \in [Posts -> None .. MaxComments]
  <2>1. \A p \in DOMAIN eitems : eitems[p] \in None .. MaxComments
    BY <1>1, PositionsAreNumbers DEF Counts
  <2> QED
    BY <2>1 DEF EnrichWrite, TypeOK
<1>5. views' \in [Posts -> {"none", "zero", "real"}]
  BY DEF EnrichWrite, TypeOK
<1>6. eitems' \in [{} -> 0 .. MaxComments] /\ DOMAIN eitems' = {} /\ eitems' = Nothing /\ esaw' = {}
  BY NothingHasCounts DEF EnrichWrite, Counts
<1>7. epc' \in {"reading", "syncing"} /\ epages' \in 0 .. FeedPages /\ (epc' = "reading" => epages' < FeedPages)
  BY PositionsAreNumbers DEF EnrichWrite, TypeOK, PagesInHand
<1>8. SnapshotsAreFew'
  <2>1. \A p \in Posts : dayRows'[p] = IF p \in EnrichInserts THEN dayRows[p] + 1 ELSE dayRows[p]
    BY DEF EnrichWrite, InsertMissing, EnrichInserts
  <2>2. EnrichInserts' = {} /\ GraphInserts' = GraphInserts
    BY <1>6 DEF EnrichWrite, GraphInserts, EnrichInserts, graph
  <2> QED
    BY <2>1, <2>2 DEF SnapshotsAreFew
<1>9. PagesInHand'
  BY <1>6, <1>7 DEF EnrichWrite, PagesInHand, graph, world
<1>10. \E S \in SUBSET stored : eitems' \in [S -> 0 .. MaxComments]
  BY <1>6
<1> QED
  BY <1>2, <1>3, <1>4, <1>5, <1>6, <1>7, <1>8, <1>9, <1>10 DEF EnrichWrite, TypeOK, graph, world

(* All steps of the job, its ends among them.                              *)
LEMMA EnrichIsTyped ==
  ASSUME Typed, EnrichStep \/ EnrichFails \/ SyncFails
  PROVE  Typed'
<1>1. CASE EnrichStart
  <2>1. epages = 0 /\ 0 < FeedPages
    BY <1>1, PositionsAreNumbers DEF EnrichStart, Typed, PagesInHand
  <2> QED
    BY <1>1, <2>1
       DEF EnrichStart, Typed, TypeOK, PagesInHand, SnapshotsAreFew, GraphInserts, EnrichInserts,
           world, posts, metrics, graph
<1>2. CASE EnrichEmpty
  BY <1>2
     DEF EnrichEmpty, Typed, TypeOK, PagesInHand, SnapshotsAreFew, GraphInserts, EnrichInserts,
         world, posts, metrics, graph
<1>3. CASE EnrichFails \/ EnrichRaises
  BY <1>3, EnrichOverIsTyped DEF EnrichFails, EnrichRaises, Typed, TypeOK
<1>4. ASSUME NEW chosen, NEW ok, EnrichSync(chosen, ok) PROVE Typed'
  <2>1. synced' \in [Posts -> 0 .. MaxComments]
    BY <1>4 DEF EnrichSync, Typed, TypeOK
  <2> QED
    BY <1>4, <2>1, EnrichOverIsTyped DEF EnrichSync
<1> QED
  BY <1>1, <1>2, <1>3, <1>4, EnrichReadIsTyped, EnrichWriteIsTyped DEF EnrichStep, SyncFails

(* Every variable has its type, and a post has two snapshots of a day at   *)
(* most, although two jobs look and insert in turns.                       *)
LEMMA TypeIsPreserved == Typed /\ [Next]_vars => Typed'
<1> SUFFICES ASSUME Typed, [Next]_vars PROVE Typed'
  OBVIOUS
<1>1. CASE CalmDown
  BY <1>1
     DEF CalmDown, Typed, TypeOK, PagesInHand, SnapshotsAreFew, GraphInserts, EnrichInserts,
         world, posts, metrics, graph, enrich
<1>2. CASE UNCHANGED vars
  BY <1>2
     DEF vars, Typed, TypeOK, PagesInHand, SnapshotsAreFew, GraphInserts, EnrichInserts,
         world, posts, metrics, graph, enrich
<1> QED
  BY <1>1, <1>2, WorldIsTyped, GraphIsTyped, EnrichIsTyped DEF Next

(* Every variable has its type; a day has at most two snapshots of a post. *)
THEOREM TypeCorrect == Spec => []TypeOK
<1>1. Spec => []Typed
  BY TypeHoldsInitially, TypeIsPreserved, PTL DEF Spec
<1>2. Typed => TypeOK
  BY DEF Typed
<1> QED
  BY <1>1, <1>2, PTL

-----------------------------------------------------------------------------
(* What the Graph walk finds.                                              *)

(* A page that is read: what it passes over lies below a post that stops   *)
(* the walk, so out of scope or out of the window itself.                  *)
LEMMA ReadingPassesTheFound ==
  ASSUME Typed, PassedIsFound, NEW last \in Posts, GraphRead(last)
  PROVE  PassedIsFound'
<1> DEFINE page  == Page(Feed, gat, last)
           stops == {p \in page : GraphStops(p)}
<1> SUFFICES ASSUME NEW p \in gat' .. horizon', p >= Since, p >= inWindow
             PROVE  p \in stored \union DOMAIN gitems'
  BY DEF PassedIsFound, GraphRead, world, posts
<1>1. /\ gpc = "reading" /\ last \in Feed /\ last < gat
      /\ DOMAIN gitems' = Until(page, stops)
      /\ gat' = IF stops # {} THEN 1 ELSE last
      /\ horizon' = horizon
  BY DEF GraphRead
<1>2. /\ gat \in Int /\ published \in Int /\ horizon \in 0 .. published /\ inWindow \in Int /\ Since \in Int
      /\ last \in 1 .. published
  BY <1>1, PositionsAreNumbers, ConstantsAssumption DEF Typed, TypeOK, Feed
<1>3. p \in 1 .. published /\ p <= horizon
  BY <1>1, <1>2
<1>4. CASE p >= gat
  <2>1. p \in stored \union DOMAIN gitems
    BY <1>1, <1>2, <1>3, <1>4 DEF PassedIsFound
  <2>2. DOMAIN gitems = {}
    BY <1>1, NothingHasCounts DEF Typed, PagesInHand
  <2> QED
    BY <2>1, <2>2
<1>5. CASE p < gat /\ stops = {}
  <2>1. p \in page
    BY <1>1, <1>2, <1>3, <1>5 DEF Page, Feed
  <2> QED
    BY <1>1, <1>5, <2>1 DEF Until
<1>6. CASE p < gat /\ stops # {}
  <2>1. \A q \in stops : q \in Int /\ q < p
    <3> TAKE q \in stops
    <3>1. q \in 1 .. published /\ (q < Since \/ q < inWindow)
      BY DEF Page, Feed, GraphStops
    <3> QED
      BY <1>2, <1>3, <3>1
  <2>2. PICK q \in stops : q >= last
    BY <1>2, <1>6 DEF Page
  <2>3. p \in page
    BY <1>2, <1>3, <1>6, <2>1, <2>2 DEF Page, Feed
  <2> QED
    BY <1>1, <2>1, <2>3 DEF Until
<1> QED
  BY <1>2, <1>3, <1>4, <1>5, <1>6

(* One case for each action; midnight and new starts find no walk going.   *)
LEMMA PassedIsPreserved == Typed /\ PassedIsFound /\ [Next]_vars => PassedIsFound'
<1> SUFFICES ASSUME Typed, PassedIsFound, [Next]_vars PROVE PassedIsFound'
  OBVIOUS
<1>1. CASE UNCHANGED <<gpc, gat, gitems, horizon, inWindow, stored>>
  BY <1>1 DEF PassedIsFound
<1>2. CASE NewDay
  BY <1>2 DEF NewDay, PassedIsFound, graph
<1>3. CASE GraphStart
  <2>1. horizon' < gat' /\ horizon' \in Int /\ gat' \in Int
    BY <1>3, PositionsAreNumbers DEF GraphStart, Typed, TypeOK
  <2> QED
    BY <2>1 DEF PassedIsFound
<1>4. CASE GraphWrite
  <2>1. CASE gpc' = "idle"
    BY <2>1 DEF PassedIsFound
  <2>2. CASE gpc' # "idle"
    BY <1>4, <2>2 DEF GraphWrite, GraphOver, SavePosts, PassedIsFound, world
  <2> QED
    BY <2>1, <2>2
<1>5. CASE GraphEmpty \/ GraphFails \/ GraphRaises
  BY <1>5 DEF GraphEmpty, GraphFails, GraphRaises, GraphOver, PassedIsFound
<1>6. CASE Publish \/ \E p \in Posts : Comment(p)
  BY <1>1, <1>6 DEF Publish, Comment, posts, graph
<1>7. CASE EnrichStep \/ EnrichFails \/ SyncFails
  BY <1>1, <1>7
     DEF EnrichStep, EnrichFails, SyncFails, EnrichStart, EnrichRead, EnrichWrite, EnrichEmpty, EnrichRaises,
         EnrichSync, world, posts, graph
<1>8. CASE CalmDown \/ UNCHANGED vars
  BY <1>1, <1>8 DEF CalmDown, vars, world, posts, graph
<1> QED
  BY <1>2, <1>3, <1>4, <1>5, <1>6, <1>7, <1>8, ReadingPassesTheFound DEF Next, WorldStep, GraphStep

(* A Graph walk that its page limit does not cut has found every post that *)
(* was there when it began and is still in the window.                     *)
THEOREM WindowStaysFound == Spec => []WindowIsFound
<1>1. Init => Typed /\ PassedIsFound
  BY TypeHoldsInitially DEF Init, PassedIsFound
<1>2. Spec => [](Typed /\ PassedIsFound)
  BY <1>1, TypeIsPreserved, PassedIsPreserved, PTL DEF Spec
<1>3. Typed /\ PassedIsFound => WindowIsFound
  <2> SUFFICES ASSUME Typed, PassedIsFound, gpc = "writing", ~More(Feed, gat),
                      NEW p \in 1 .. horizon, p >= Since, p >= inWindow
               PROVE  p \in stored \union DOMAIN gitems
    BY DEF WindowIsFound
  <2>1. gat \in Int /\ published \in Int /\ horizon \in 0 .. published
    BY PositionsAreNumbers DEF Typed, TypeOK
  <2>2. ~(p < gat)
    BY <2>1 DEF More, Feed
  <2> QED
    BY <2>1, <2>2 DEF PassedIsFound
<1> QED
  BY <1>2, <1>3, PTL

-----------------------------------------------------------------------------
(* What the enrich job asks for.                                           *)

LEMMA LinkingIsPreserved == Typed /\ CandidatesGetLinked /\ [Next]_vars => CandidatesGetLinked'
<1> SUFFICES ASSUME Typed, CandidatesGetLinked, [Next]_vars PROVE CandidatesGetLinked'
  OBVIOUS
<1>1. CASE UNCHANGED <<linked, eitems, candidates>>
  BY <1>1 DEF CandidatesGetLinked
<1>2. ASSUME NEW last \in Posts, EnrichRead(last) PROVE CandidatesGetLinked'
  <2>1. /\ epc = "reading" /\ linked' = linked
        /\ candidates' \subseteq candidates \union DOMAIN eitems'
    BY <1>2 DEF EnrichRead, posts
  <2>2. DOMAIN eitems = {}
    BY <2>1, NothingHasCounts DEF Typed, PagesInHand
  <2> QED
    BY <2>1, <2>2 DEF CandidatesGetLinked
<1>3. CASE EnrichWrite
  BY <1>3 DEF EnrichWrite, Link, CandidatesGetLinked
<1>4. CASE EnrichOver
  BY <1>4 DEF EnrichOver, CandidatesGetLinked
<1>5. CASE EnrichStart \/ EnrichEmpty \/ CalmDown \/ UNCHANGED vars
  BY <1>1, <1>5 DEF EnrichStart, EnrichEmpty, CalmDown, vars, posts, enrich
<1>6. CASE EnrichFails \/ EnrichRaises \/ SyncFails \/ \E chosen, ok : EnrichSync(chosen, ok)
  BY <1>4, <1>6 DEF EnrichFails, EnrichRaises, SyncFails, EnrichSync
<1>7. CASE WorldStep
  BY <1>1, <1>7 DEF WorldStep, Publish, Comment, NewDay, posts, enrich
<1>8. CASE GraphStep \/ GraphFails \/ GraphRaises
  BY <1>1, <1>8
     DEF GraphStep, GraphFails, GraphRaises, GraphStart, GraphRead, GraphWrite, GraphEmpty, posts, enrich
<1> QED
  BY <1>2, <1>3, <1>5, <1>6, <1>7, <1>8 DEF Next, EnrichStep

(* Comments are asked for with the cookie API's media id only.             *)
THEOREM MediaStayRight == Spec => []CommentsOfTheRightMedia
<1>1. Init => Typed /\ CandidatesGetLinked
  BY TypeHoldsInitially DEF Init, CandidatesGetLinked
<1>2. Spec => [](Typed /\ CandidatesGetLinked)
  BY <1>1, TypeIsPreserved, LinkingIsPreserved, PTL DEF Spec
<1>3. Typed /\ CandidatesGetLinked => CommentsOfTheRightMedia
  BY NothingHasCounts DEF Typed, PagesInHand, CandidatesGetLinked, CommentsOfTheRightMedia
<1> QED
  BY <1>2, <1>3, PTL
=============================================================================
