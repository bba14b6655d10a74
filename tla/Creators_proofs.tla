---------------------------- MODULE Creators_proofs ----------------------------
(***************************************************************************)
(* What holds of Registry for any number of requests, handles, names and   *)
(* rows, wherever a request is refused, rolled back or dies; and what      *)
(* holds of the reports of CreatorStats after any history of scrapes, for  *)
(* any number of days and posts, any readings, thresholds and windows.     *)
(***************************************************************************)
EXTENDS Registry, CreatorStats, SequenceTheorems, FiniteSetTheorems, TLAPS

-----------------------------------------------------------------------------
(* Registry.                                                               *)

(* What a request may have to do.                                          *)
Served ==
  [at    : {"idle", "flush", "look", "group", "save"},
   edits : Rows \union {None},
   seen  : Ids \union {None},
   to    : {"name", "none", "same"},
   todo  : Seq(Items),
   found : Ids \union {None},
   fresh : Ids \union {None},
   held  : Handles \union {None}]

(* It has an item until it is done, looks for a creator only to link to it,*)
(* and flushes one, not that which it has read, as the last thing before   *)
(* it saves.                                                               *)
InOrder(x) ==
  /\ x.at # "idle" => x.todo # << >>
  /\ x.at \in {"look", "group"} => x.to = "name"
  /\ x.fresh # None => x.at = "save" /\ x.to = "name" /\ x.fresh # x.seen

(* A request in good order, and one that seeks no creator.                 *)
Well(x)  == x \in Served /\ InOrder(x)
Quiet(x) == Well(x) /\ x.fresh = None /\ x.at # "group"

(* A row of influencers.                                                   *)
RowsOf == [handle : Handles, group : Ids \union {None}]

(* What the tables and the requests hold.                                  *)
Typed ==
  /\ creators \in [Ids -> Names \union {None}]
  /\ rows \in [Rows -> RowsOf \union {None}]
  /\ \A w \in Rows : Present(w) /\ rows[w].group # None => Exists(rows[w].group)
  /\ category \in BOOLEAN
  /\ req \in [Requests -> Served] /\ \A r \in Requests : InOrder(req[r])
  /\ asked \in 0 .. MaxAsked
  /\ given \in [Rows -> Names \union {None}]
  /\ deserted \subseteq Ids

(* The unique key of creators.                                             *)
NamesAreOne == \A c, d \in Ids : Exists(c) /\ creators[c] = creators[d] => c = d

(* A creator that is flushed has a row of its own and, for as long as its  *)
(* lock keeps the others off, a name of its own.                           *)
FreshIsNew ==
  \A r \in Requests : req[r].fresh # None =>
    /\ ~Exists(req[r].fresh)
    /\ \A c \in Ids : creators[c] # Name(r)
    /\ \A q \in Others(r) : req[q].fresh # None => req[q].fresh # req[r].fresh /\ Name(q) # Name(r)

(* Who was put under a name is in a group that has it, in some capitals.   *)
GivenIsTheName ==
  \A w \in Rows : given[w] # None =>
    Present(w) /\ rows[w].group # None /\ Fold(creators[rows[w].group]) = Fold(given[w])

(* The inductive invariant of NoGroupLeftBehind.                           *)
Grouped == Typed /\ NamesAreOne /\ FreshIsNew /\ GivenIsTheName /\ NoGroupLeftBehind

(* Of creators of one name all but one have come by it late or by a rename,*)
(* and a request that is not late has none of its name beside it.          *)
ApartAreKnown ==
  \A c, d \in Ids : Exists(c) /\ Exists(d) /\ c # d /\ Fold(creators[c]) = Fold(creators[d])
                   => {c, d} \intersect apart # {}

LateAreKnown == \A n \in Names : \A r \in Missing(n) \ late : Called(n) = {}

(* With Grouped, the inductive invariant of SameNameSameGroup.             *)
Parted == apart \subseteq Ids /\ late \subseteq Requests /\ ApartAreKnown /\ LateAreKnown

-----------------------------------------------------------------------------
(* Requests.                                                               *)

(* What is none of these.                                                  *)
LEMMA NoneIsNone ==
  /\ None \notin Requests /\ None \notin Handles /\ None \notin Ids /\ None \notin Rows
  /\ None \notin Names /\ None \notin RowsOf
  BY ConstantsAssumption DEF Names, RowsOf

(* A request that is done.                                                 *)
LEMMA IdleIsWell == Quiet(Idle)
<1>1. << >> \in Seq(Items)
  BY EmptySeq
<1> QED
  BY <1>1 DEF Idle, Quiet, Well, InOrder, Served

(* An item and its name.                                                   *)
LEMMA ItemIsTyped ==
  ASSUME NEW x \in Served, InOrder(x), x.at # "idle"
  PROVE  /\ Head(x.todo) \in Items /\ Head(x.todo).name \in Names /\ Head(x.todo).handle \in Handles
         /\ Tail(x.todo) \in Seq(Items)
<1>1. x.todo \in Seq(Items) /\ x.todo # << >>
  BY DEF Served, InOrder
<1>2. Head(x.todo) \in Items /\ Tail(x.todo) \in Seq(Items)
  BY <1>1, HeadTailProperties
<1> QED
  BY <1>2 DEF Items

(* What an import has left.                                                *)
LEMMA RestIsTyped ==
  ASSUME NEW todo \in Seq(Items), NEW m \in {2, 3}
  PROVE  SubSeq(todo, m, Len(todo)) \in Seq(Items)
<1>1. Len(todo) \in Nat
  BY LenProperties
<1>2. \A i \in m .. Len(todo) : todo[i] \in Items
  BY <1>1, ElementOfSeq
<1> QED
  BY <1>1, <1>2, SubSeqProperties

(* On to the next item.                                                    *)
LEMMA TurningIsWell ==
  ASSUME NEW r, NEW todo \in Seq(Items), Turns(r, todo)
  PROVE  \E x : Quiet(x) /\ req' = [req EXCEPT ![r] = x]
<1>1. CASE todo = << >>
  BY <1>1, IdleIsWell DEF Turns
<1>2. CASE todo # << >>
  <2> DEFINE x == [Idle EXCEPT !.at = "look", !.todo = todo]
  <2>1. Quiet(x)
    BY <1>2 DEF Idle, Quiet, Well, InOrder, Served
  <2>2. req' = [req EXCEPT ![r] = x]
    BY <1>2 DEF Turns
  <2> QED
    BY <2>1, <2>2
<1> QED
  BY <1>1, <1>2

(* A request that ends, or is rolled back.                                 *)
LEMMA EndingIsWell ==
  ASSUME NEW r, Ended(r)
  PROVE  \E x : Quiet(x) /\ req' = [req EXCEPT ![r] = x]
  BY IdleIsWell DEF Ended

(* A step of a request that touches no data and flushes no creator.        *)
LEMMA MovingKeepsGroups ==
  ASSUME Grouped, NEW r \in Requests,
         \E x : Well(x) /\ x.fresh = None /\ req' = [req EXCEPT ![r] = x],
         asked' \in 0 .. MaxAsked, UNCHANGED database
  PROVE  Grouped'
<1> PICK x : Well(x) /\ x.fresh = None /\ req' = [req EXCEPT ![r] = x]
  OBVIOUS
<1>1. /\ req \in [Requests -> Served] /\ req' \in [Requests -> Served] /\ req'[r] = x
      /\ \A q \in Requests \ {r} : req'[q] = req[q]
  BY DEF Grouped, Typed, Well
<1>2. \A q \in Requests : InOrder(req'[q])
  BY <1>1 DEF Grouped, Typed, Well
<1>3. Typed'
  BY <1>1, <1>2 DEF Grouped, Typed, database, Present, Exists
<1>4. FreshIsNew'
  BY <1>1 DEF Grouped, FreshIsNew, database, Exists, Name, Item, Others
<1> QED
  BY <1>3, <1>4 DEF Grouped, database, NamesAreOne, GivenIsTheName, NoGroupLeftBehind, Exists, Present

(* The bound on requests.                                                  *)
LEMMA AskingIsCounted == Typed /\ Asked => asked' \in 0 .. MaxAsked
  BY ConstantsAssumption DEF Typed, Asked

(* Requests come in.                                                       *)
LEMMA AskingKeepsGroups ==
  ASSUME Grouped, NEW r \in Requests, Register(r) \/ Edit(r)
  PROVE  Grouped' /\ \E x : Quiet(x) /\ req' = [req EXCEPT ![r] = x]
<1>1. asked' \in 0 .. MaxAsked /\ UNCHANGED database
  <2>1. Asked /\ UNCHANGED database
    BY DEF Register, Edit, data
  <2> QED
    BY <2>1, AskingIsCounted DEF Grouped
<1> SUFFICES \E x : Quiet(x) /\ req' = [req EXCEPT ![r] = x]
  BY <1>1, MovingKeepsGroups DEF Quiet
<1>2. \A h \in Handles, n \in Names : Single(h, n) \in Seq(Items) /\ Single(h, n) # << >>
  BY DEF Single, Items
<1>3. \A h, k \in Handles, n \in Names : BothOf(h, k, n) \in Seq(Items)
  BY DEF BothOf, Items
<1>4. CASE Register(r)
  <2>1. PICK h \in Handles, n \in Names :
          \/ Turns(r, Single(h, n))
          \/ \E k \in Handles \ {h} : Turns(r, BothOf(h, k, n))
          \/ \E k \in Handles, m \in Names : Turns(r, Single(h, n) \o Single(k, m))
    BY <1>4 DEF Register
  <2>2. \A k \in Handles, m \in Names : Single(h, n) \o Single(k, m) \in Seq(Items)
    BY <1>2, ConcatProperties
  <2> QED
    BY <1>2, <1>3, <2>1, <2>2, TurningIsWell
<1>5. CASE Edit(r)
  <2>1. PICK w \in Rows, h \in Handles, n \in Names, to \in {"name", "none", "same"} :
          /\ Present(w)
          /\ req' = [req EXCEPT ![r] =
            [Idle EXCEPT !.at = IF h = rows[w].handle THEN Onward(to) ELSE "flush", !.edits = w,
                         !.seen = rows[w].group, !.to = to, !.todo = Single(h, n)]]
    BY <1>5 DEF Edit
  <2> DEFINE x == [Idle EXCEPT !.at = IF h = rows[w].handle THEN Onward(to) ELSE "flush", !.edits = w,
                               !.seen = rows[w].group, !.to = to, !.todo = Single(h, n)]
  <2>2. rows[w].group \in Ids \union {None}
    BY <2>1 DEF Grouped, Typed, Present, RowsOf
  <2>3. Quiet(x)
    BY <1>2, <2>2 DEF Idle, Quiet, Well, InOrder, Served, Onward
  <2> QED
    BY <2>1, <2>3
<1> QED
  BY <1>4, <1>5

(* Steps of a request that commit nothing.                                 *)
LEMMA ReadingKeepsGroups ==
  ASSUME Grouped, NEW r \in Requests,
         Flush(r) \/ Look(r) \/ Refuse(r) \/ DeadlockFound(r) \/ Dies(r)
  PROVE  /\ Grouped'
         /\ ~(Look(r) /\ req' = [req EXCEPT ![r].at = "group"]) => \E x : Quiet(x) /\ req' = [req EXCEPT ![r] = x]
<1>1. asked' \in 0 .. MaxAsked /\ UNCHANGED database
  BY DEF Flush, Look, Refuse, DeadlockFound, Dies, Grouped, Typed, data
<1>2. req[r] \in Served /\ InOrder(req[r]) /\ Well(req[r])
  BY DEF Grouped, Typed, Well
<1>3. SUFFICES \E x : /\ Well(x) /\ x.fresh = None /\ req' = [req EXCEPT ![r] = x]
                      /\ x.at # "group" \/ (Look(r) /\ req' = [req EXCEPT ![r].at = "group"])
  <2>1. PICK x : /\ Well(x) /\ x.fresh = None /\ req' = [req EXCEPT ![r] = x]
                 /\ x.at # "group" \/ (Look(r) /\ req' = [req EXCEPT ![r].at = "group"])
    OBVIOUS
  <2>2. Grouped'
    BY <1>1, <2>1, MovingKeepsGroups
  <2> QED
    BY <2>1, <2>2 DEF Quiet
<1>4. CASE Ended(r)
  BY <1>4, EndingIsWell DEF Quiet
<1>5. CASE Flush(r)
  <2> DEFINE x == [req[r] EXCEPT !.at = Onward(req[r].to), !.held = Item(r).handle]
  <2>1. CASE req' = [req EXCEPT ![r].at = Onward(req[r].to), ![r].held = Item(r).handle]
    <3>1. req' = [req EXCEPT ![r] = x]
      BY <2>1 DEF Grouped, Typed
    <3>2. req[r].at = "flush" /\ req[r].fresh = None /\ Item(r).handle \in Handles
      BY <1>2, <1>5, ItemIsTyped DEF Flush, At, InOrder, Item
    <3>3. Well(x) /\ x.fresh = None /\ x.at # "group"
      BY <1>2, <3>2 DEF Well, InOrder, Served, Onward
    <3> QED
      BY <3>1, <3>3
  <2> QED
    BY <1>4, <1>5, <2>1 DEF Flush
<1>6. CASE Look(r)
  <2>1. req[r].at = "look" /\ req[r].fresh = None
    BY <1>2, <1>6 DEF Look, At, InOrder
  <2>2. CASE \E m \in {2, 3} : Turns(r, SubSeq(req[r].todo, m, Len(req[r].todo)))
    BY <1>2, <2>2, RestIsTyped, TurningIsWell DEF Served, Quiet
  <2>3. CASE req' = [req EXCEPT ![r].at = "group"]
    <3> DEFINE x == [req[r] EXCEPT !.at = "group"]
    <3>1. req' = [req EXCEPT ![r] = x]
      BY <2>3 DEF Grouped, Typed
    <3>2. Well(x) /\ x.fresh = None
      BY <1>2, <2>1 DEF Well, InOrder, Served
    <3> QED
      BY <1>6, <2>3, <3>1, <3>2
  <2>4. ASSUME NEW c \in Ids, req' = [req EXCEPT ![r].at = "save", ![r].found = c]
        PROVE  \E x : Well(x) /\ x.fresh = None /\ req' = [req EXCEPT ![r] = x] /\ x.at # "group"
    <3> DEFINE x == [req[r] EXCEPT !.at = "save", !.found = c]
    <3>1. req' = [req EXCEPT ![r] = x]
      BY <2>4 DEF Grouped, Typed
    <3>2. Well(x) /\ x.fresh = None /\ x.at # "group"
      BY <1>2, <2>1, NoneIsNone DEF Well, InOrder, Served
    <3> QED
      BY <3>1, <3>2
  <2> QED
    BY <1>4, <1>6, <2>2, <2>3, <2>4 DEF Look
<1>7. CASE Refuse(r)
  <2>1. Tail(req[r].todo) \in Seq(Items)
    BY <1>2, <1>7, ItemIsTyped DEF Refuse, At
  <2> QED
    BY <1>4, <1>7, <2>1, TurningIsWell DEF Refuse, Quiet
<1> QED
  BY <1>4, <1>5, <1>6, <1>7 DEF DeadlockFound, Dies

(* A creator is flushed: of a name that is neither there nor locked.       *)
LEMMA FlushingKeepsGroups ==
  ASSUME Grouped, NEW r \in Requests, Group(r)
  PROVE  Grouped'
<1>1. req[r] \in Served /\ InOrder(req[r]) /\ req[r].at = "group" /\ req[r].fresh = None
  BY DEF Grouped, Typed, Group, At, InOrder
<1>2. asked' \in 0 .. MaxAsked /\ UNCHANGED database
  BY DEF Group, Grouped, Typed, data
<1>3. CASE Ended(r)
  BY <1>2, <1>3, EndingIsWell, MovingKeepsGroups DEF Quiet
<1>4. CASE ~ \E c \in Ids : creators[c] = Name(r)
  <2>1. PICK c \in Ids : ~Used(c) /\ req' = [req EXCEPT ![r].at = "save", ![r].fresh = c]
    BY <1>4 DEF Group
  <2> DEFINE x == [req[r] EXCEPT !.at = "save", !.fresh = c]
  <2>2. /\ req' = [req EXCEPT ![r] = x] /\ x \in Served /\ x.fresh = c /\ x.todo = req[r].todo
        /\ x.to = req[r].to /\ x.seen = req[r].seen /\ x.at = "save" /\ c # None
    BY <1>1, <2>1, NoneIsNone DEF Grouped, Typed, Served
  <2>3. InOrder(x)
    BY <1>1, <2>1, <2>2 DEF InOrder, Used
  <2> HIDE DEF x
  <2>4. /\ req \in [Requests -> Served] /\ req' \in [Requests -> Served] /\ req'[r] = x
        /\ \A q \in Requests \ {r} : req'[q] = req[q]
    BY <2>2 DEF Grouped, Typed
  <2>5. \A q \in Requests : InOrder(req'[q])
    BY <2>3, <2>4 DEF Grouped, Typed
  <2>6. Typed'
    BY <1>2, <2>4, <2>5 DEF Grouped, Typed, database, Present, Exists
  <2>7. /\ ~Exists(c) /\ \A q \in Requests : req[q].fresh # c
        /\ \A q \in Others(r) : req[q].fresh # None => Name(q) # Name(r)
    BY <2>1 DEF Used, Group, NameIsLocked
  <2>8. /\ \A q \in Requests : Name(q)' = Name(q)
        /\ \A q \in Requests : Others(q)' = Others(q) /\ Others(q) = Requests \ {q}
        /\ \A d : Exists(d)' = Exists(d)
        /\ creators' = creators
    BY <1>2, <2>2, <2>4 DEF Name, Item, Others, Exists, database
  <2>9. FreshIsNew'
    <3> SUFFICES ASSUME NEW q \in Requests, req'[q].fresh # None
                 PROVE  /\ ~Exists(req'[q].fresh)
                        /\ \A d \in Ids : creators[d] # Name(q)
                        /\ \A p \in Others(q) : req'[p].fresh # None =>
                             req'[p].fresh # req'[q].fresh /\ Name(p) # Name(q)
      BY <2>8 DEF FreshIsNew
    <3>1. CASE q = r
      BY <1>4, <2>2, <2>4, <2>7, <2>8, <3>1
    <3>2. CASE q # r
      <4>1. /\ ~Exists(req[q].fresh) /\ req[q].fresh # None /\ \A d \in Ids : creators[d] # Name(q)
            /\ \A p \in Others(q) : req[p].fresh # None => req[p].fresh # req[q].fresh /\ Name(p) # Name(q)
        BY <2>4, <3>2 DEF Grouped, FreshIsNew
      <4>2. Name(r) # Name(q) /\ req[q].fresh # c
        BY <2>7, <2>8, <3>2, <4>1
      <4> QED
        BY <2>2, <2>4, <2>8, <3>2, <4>1, <4>2
    <3> QED
      BY <3>1, <3>2
  <2> QED
    BY <1>2, <2>6, <2>9 DEF Grouped, database, NamesAreOne, GivenIsTheName, NoGroupLeftBehind, Exists, Present
<1> QED
  BY <1>3, <1>4 DEF Group

-----------------------------------------------------------------------------
(* Commits of a request.                                                   *)

(* An influencer is put into a group that is there, or that the            *)
(* transaction brings along.                                               *)
SavedTo(r, w, h, group) ==
  /\ Saved(r, w, h, group)
  /\ group \in Ids \union {None}
  /\ group # None => Exists(group) \/ group = req[r].fresh
  /\ req[r].fresh # None => group = req[r].fresh /\ req[r].to = "name"

LEMMA SavingIsRight ==
  ASSUME Grouped, NEW r \in Requests, NEW w \in Rows, NEW h \in Handles, NEW group, At(r, "save"), SavedTo(r, w, h, group)
  PROVE  /\ creators' \in [Ids -> Names \union {None}]
         /\ \A c \in Ids : creators'[c] = IF c = req[r].fresh THEN Name(r) ELSE creators[c]
         /\ \A c \in Ids : creators'[c] # None <=> Exists(c) \/ c = req[r].fresh
         /\ group # None => creators'[group] # None
         /\ rows' \in [Rows -> RowsOf \union {None}]
         /\ Present(w)' /\ rows'[w].group = group /\ \A v \in Rows \ {w} : rows'[v] = rows[v]
         /\ given' \in [Rows -> Names \union {None}]
         /\ given'[w] # None => group # None /\ Fold(creators'[group]) = Fold(given'[w])
         /\ \A v \in Rows \ {w} : given'[v] = given[v]
<1>1. /\ req[r] \in Served /\ InOrder(req[r]) /\ req[r].at # "idle" /\ req[r].fresh \in Ids \union {None}
      /\ group \in Ids \union {None}
  BY DEF Grouped, Typed, At, Served, SavedTo
<1>2. Name(r) \in Names /\ Name(r) # None
  BY <1>1, ItemIsTyped, NoneIsNone DEF Name, Item
<1>3. (req[r].fresh # None => group = req[r].fresh) /\ (req[r].fresh = None /\ group # None => Exists(group))
  BY <1>1 DEF SavedTo
<1>4. /\ creators' \in [Ids -> Names \union {None}]
      /\ \A c \in Ids : creators'[c] = IF c = req[r].fresh THEN Name(r) ELSE creators[c]
  BY <1>1, <1>2, NoneIsNone DEF SavedTo, Saved, Grouped, Typed
<1>5. /\ \A c \in Ids : creators'[c] # None <=> Exists(c) \/ c = req[r].fresh
      /\ group # None => creators'[group] # None
  BY <1>1, <1>2, <1>3, <1>4 DEF Exists
<1>6. /\ rows' \in [Rows -> RowsOf \union {None}]
      /\ Present(w)' /\ rows'[w].group = group /\ \A v \in Rows \ {w} : rows'[v] = rows[v]
  <2> DEFINE x == [handle |-> h, group |-> group]
  <2>1. x \in RowsOf /\ x # None /\ x.group = group
    BY <1>1, NoneIsNone DEF RowsOf
  <2>2. rows' = [rows EXCEPT ![w] = x]
    BY DEF SavedTo, Saved
  <2> HIDE DEF x
  <2> QED
    BY <2>1, <2>2 DEF Grouped, Typed, Present
<1>7. /\ given' \in [Rows -> Names \union {None}]
      /\ \A v \in Rows \ {w} : given'[v] = given[v]
      /\ \/ given'[w] = None
         \/ given'[w] = Name(r) /\ group = GroupOf(r) /\ (req[r].fresh # None \/ group \in Called(Name(r)))
         \/ given'[w] = given[w] /\ group = IF Present(w) THEN rows[w].group ELSE None
  BY <1>2 DEF SavedTo, Saved, Grouped, Typed
<1>8. given'[w] # None => group # None /\ Fold(creators'[group]) = Fold(given'[w])
  <2> SUFFICES ASSUME given'[w] # None PROVE group # None /\ Fold(creators'[group]) = Fold(given'[w])
    OBVIOUS
  <2>1. CASE given'[w] = Name(r) /\ req[r].fresh # None
    BY <1>1, <1>3, <1>4, <2>1
  <2>2. CASE given'[w] = Name(r) /\ req[r].fresh = None /\ group \in Called(Name(r))
    BY <1>4, <2>2, NoneIsNone DEF Called
  <2>3. CASE given'[w] = given[w] /\ group = IF Present(w) THEN rows[w].group ELSE None
    <3>1. Present(w) /\ rows[w].group # None /\ Fold(creators[rows[w].group]) = Fold(given[w])
      BY <2>3 DEF Grouped, GivenIsTheName
    <3>2. group \in Ids /\ Exists(group)
      BY <1>1, <2>3, <3>1 DEF Grouped, Typed
    <3>3. group # req[r].fresh
      BY <3>2, NoneIsNone DEF Grouped, FreshIsNew, Exists
    <3> QED
      BY <1>4, <2>3, <3>1, <3>2, <3>3
  <2> QED
    BY <1>7, <2>1, <2>2, <2>3
<1> QED
  BY <1>4, <1>5, <1>6, <1>7, <1>8

(* Whoever links an influencer is done with the item; whom it takes it     *)
(* from is left on record.                                                 *)
LEMMA SavingKeepsGroups ==
  ASSUME Grouped, NEW r \in Requests, NEW w \in Rows, NEW h \in Handles, NEW group, At(r, "save"),
         SavedTo(r, w, h, group),
         \E x : Well(x) /\ x.fresh = None /\ req' = [req EXCEPT ![r] = x],
         UNCHANGED <<category, asked>>
  PROVE  Grouped'
<1> PICK x : Well(x) /\ x.fresh = None /\ req' = [req EXCEPT ![r] = x]
  OBVIOUS
<1>1. /\ req \in [Requests -> Served] /\ req' \in [Requests -> Served] /\ req'[r] = x
      /\ \A q \in Requests \ {r} : req'[q] = req[q]
  BY DEF Grouped, Typed, Well
<1>2. \A q \in Requests : InOrder(req'[q])
  BY <1>1 DEF Grouped, Typed, Well
<1>3. \A v \in Rows : Present(v) /\ v # w <=> Present(v)' /\ v # w
  BY SavingIsRight DEF Present
<1>4. \A v \in Rows : Present(v)' /\ rows'[v].group # None => creators'[rows'[v].group] # None
  <2> SUFFICES ASSUME NEW v \in Rows, Present(v)', rows'[v].group # None PROVE creators'[rows'[v].group] # None
    OBVIOUS
  <2>1. CASE v = w
    BY <2>1, SavingIsRight
  <2>2. CASE v # w
    <3>1. Present(v) /\ rows'[v] = rows[v]
      BY <1>3, <2>2, SavingIsRight
    <3>2. Exists(rows[v].group) /\ rows[v].group \in Ids
      BY <3>1 DEF Grouped, Typed, Present, RowsOf
    <3> QED
      BY <3>1, <3>2, SavingIsRight
  <2> QED
    BY <2>1, <2>2
<1>5. /\ deserted' \subseteq Ids
      /\ \A c \in Ids : c # req[r].fresh /\ c # group =>
           (c \in deserted' <=> c \in deserted \/ (Present(w) /\ rows[w].group = c))
  <2> DEFINE before == IF Present(w) THEN rows[w].group ELSE None
  <2>1. before \in Ids \union {None}
    BY DEF Grouped, Typed, RowsOf, Present
  <2>2. deserted' = (deserted \union ({before} \ {None, group})) \ {req[r].fresh}
    BY DEF SavedTo, Saved
  <2> QED
    BY <2>1, <2>2, NoneIsNone DEF Grouped, Typed
<1>6. Typed'
  BY <1>1, <1>2, <1>4, <1>5, SavingIsRight DEF Grouped, Typed, Exists
<1>7. \A q \in Others(r) : req[q].fresh # None =>
        req[r].fresh # req[q].fresh /\ (req[r].fresh # None => Name(q) # Name(r))
  BY DEF Grouped, FreshIsNew, Others
<1>8. NamesAreOne'
  <2> SUFFICES ASSUME NEW c \in Ids, NEW d \in Ids, creators'[c] # None, creators'[c] = creators'[d] PROVE c = d
    BY DEF NamesAreOne, Exists
  <2>1. req[r].fresh # None => \A e \in Ids : creators[e] # Name(r)
    BY DEF Grouped, FreshIsNew
  <2>2. c = req[r].fresh \/ d = req[r].fresh => req[r].fresh # None
    BY NoneIsNone
  <2> QED
    BY <2>1, <2>2, SavingIsRight DEF Grouped, NamesAreOne
<1>9. FreshIsNew'
  <2> SUFFICES ASSUME NEW q \in Requests, req'[q].fresh # None
               PROVE  /\ creators'[req'[q].fresh] = None
                      /\ \A c \in Ids : creators'[c] # Name(q)'
                      /\ \A p \in Others(q) : req'[p].fresh # None =>
                           req'[p].fresh # req'[q].fresh /\ Name(p)' # Name(q)'
    BY DEF FreshIsNew, Others, Exists
  <2>1. /\ q # r /\ req'[q] = req[q] /\ q \in Others(r) /\ req[q].fresh \in Ids
        /\ Name(q)' = Name(q)
    BY <1>1 DEF Others, Name, Item, Served
  <2>2. /\ ~Exists(req[q].fresh) /\ \A c \in Ids : creators[c] # Name(q)
        /\ \A p \in Others(q) : req[p].fresh # None => req[p].fresh # req[q].fresh /\ Name(p) # Name(q)
    BY <2>1 DEF Grouped, FreshIsNew
  <2>3. creators'[req'[q].fresh] = None /\ \A c \in Ids : creators'[c] # Name(q)'
    <3>1. req[q].fresh # req[r].fresh /\ (req[r].fresh # None => Name(q) # Name(r))
      BY <1>7, <2>1
    <3>2. \A c \in Ids : creators'[c] = IF c = req[r].fresh THEN Name(r) ELSE creators[c]
      BY SavingIsRight
    <3> QED
      BY <2>1, <2>2, <3>1, <3>2, NoneIsNone DEF Exists
  <2>4. \A p \in Others(q) : req'[p].fresh # None => p # r /\ req'[p] = req[p] /\ Name(p)' = Name(p)
    BY <1>1 DEF Others, Name, Item
  <2> QED
    BY <2>1, <2>2, <2>3, <2>4
<1>10. GivenIsTheName'
  <2> SUFFICES ASSUME NEW v \in Rows, given'[v] # None
               PROVE  Present(v)' /\ rows'[v].group # None /\ Fold(creators'[rows'[v].group]) = Fold(given'[v])
    BY DEF GivenIsTheName
  <2>1. CASE v = w
    BY <2>1, SavingIsRight
  <2>2. CASE v # w
    <3>1. rows'[v] = rows[v] /\ given'[v] = given[v]
      BY <2>2, SavingIsRight
    <3>2. /\ Present(v) /\ rows[v].group # None /\ rows[v].group \in Ids /\ Exists(rows[v].group)
          /\ Fold(creators[rows[v].group]) = Fold(given[v])
      BY <3>1 DEF Grouped, GivenIsTheName, Typed, Present, RowsOf
    <3>3. rows[v].group # req[r].fresh
      BY <3>1, <3>2 DEF Grouped, FreshIsNew, Exists
    <3>4. Present(v)'
      BY <2>2, <3>2, <1>3
    <3> QED
      BY <3>1, <3>2, <3>3, <3>4, SavingIsRight
  <2> QED
    BY <2>1, <2>2
<1>11. NoGroupLeftBehind'
  <2> SUFFICES ASSUME NEW c \in Ids, creators'[c] # None, c # group
               PROVE  c \in deserted' \/ \E v \in Rows : Present(v)' /\ rows'[v].group = c
    BY SavingIsRight DEF NoGroupLeftBehind, Exists
  <2>1. c # req[r].fresh /\ Exists(c)
    BY NoneIsNone, SavingIsRight DEF SavedTo
  <2>2. CASE c \in deserted
    BY <1>5, <2>1, <2>2
  <2>3. ASSUME NEW v \in Rows, Present(v), rows[v].group = c
        PROVE  c \in deserted' \/ \E u \in Rows : Present(u)' /\ rows'[u].group = c
    <3>1. CASE v = w
      BY <1>5, <2>1, <2>3, <3>1
    <3>2. CASE v # w
      BY <1>3, <2>3, <3>2, SavingIsRight
    <3> QED
      BY <3>1, <3>2
  <2> QED
    BY <2>1, <2>2, <2>3 DEF Grouped, NoGroupLeftBehind
<1> QED
  BY <1>6, <1>8, <1>9, <1>10, <1>11 DEF Grouped

(* How a new influencer is saved, and a known one.                         *)
LEMMA InsertingSaves ==
  ASSUME Grouped, NEW r \in Requests, Insert(r)
  PROVE  /\ \E w \in Rows, h \in Handles : \E group : SavedTo(r, w, h, group)
         /\ At(r, "save") /\ UNCHANGED <<category, asked>>
         /\ \E x : Quiet(x) /\ req' = [req EXCEPT ![r] = x]
<1>1. req[r] \in Served /\ InOrder(req[r]) /\ req[r].at # "idle"
  BY DEF Grouped, Typed, Insert, At
<1>2. Item(r).handle \in Handles /\ Tail(req[r].todo) \in Seq(Items)
  BY <1>1, ItemIsTyped DEF Item
<1>3. PICK w \in Rows : Saved(r, w, Item(r).handle, GroupOf(r))
  BY DEF Insert
<1>4. SavedTo(r, w, Item(r).handle, GroupOf(r))
  BY <1>1, <1>3 DEF SavedTo, Insert, Linkable, GroupOf, Served, InOrder
<1>5. \E x : Quiet(x) /\ req' = [req EXCEPT ![r] = x]
  BY <1>2, TurningIsWell DEF Insert
<1> QED
  BY <1>2, <1>4, <1>5 DEF Insert

LEMMA UpdatingSaves ==
  ASSUME Grouped, NEW r \in Requests, Update(r)
  PROVE  /\ \/ \E w \in Rows, h \in Handles : \E group : SavedTo(r, w, h, group)
            \/ UNCHANGED <<creators, rows, given, deserted, apart, late>>
         /\ At(r, "save") /\ UNCHANGED <<category, asked>>
         /\ \E x : Quiet(x) /\ req' = [req EXCEPT ![r] = x]
<1>1. req[r] \in Served /\ InOrder(req[r])
  BY DEF Grouped, Typed
<1>2. \E x : Quiet(x) /\ req' = [req EXCEPT ![r] = x]
  BY EndingIsWell DEF Update
<1> DEFINE w == req[r].edits
           wanted == IF req[r].to = "same" THEN req[r].seen ELSE GroupOf(r)
           h == IF req[r].held = None THEN rows[w].handle ELSE req[r].held
           group == IF wanted = req[r].seen THEN rows[w].group ELSE wanted
<1>3. CASE Present(w) /\ (wanted = req[r].seen \/ Linkable(r))
  <2>1. w \in Rows
    BY <1>1 DEF Update, Served
  <2>2. h \in Handles /\ rows[w].group \in Ids \union {None} /\ (rows[w].group # None => Exists(rows[w].group))
    BY <1>1, <1>3, <2>1 DEF Served, Grouped, Typed, Present, RowsOf
  <2>3. Saved(r, w, h, group)
    BY <1>3 DEF Update
  <2>4. req[r].fresh # None => group = req[r].fresh /\ req[r].to = "name"
    BY <1>1 DEF InOrder, GroupOf
  <2>5. group \in Ids \union {None} /\ (group # None => Exists(group) \/ group = req[r].fresh)
    BY <1>1, <1>3, <2>2 DEF Linkable, GroupOf, Served
  <2>6. SavedTo(r, w, h, group)
    BY <2>3, <2>4, <2>5 DEF SavedTo
  <2> HIDE DEF w, h, group
  <2> QED
    BY <1>2, <2>1, <2>2, <2>6 DEF Update
<1>4. CASE ~(Present(w) /\ (wanted = req[r].seen \/ Linkable(r)))
  BY <1>2, <1>4 DEF Update
<1> QED
  BY <1>3, <1>4

LEMMA CommittingKeepsGroups ==
  ASSUME Grouped, NEW r \in Requests, Insert(r) \/ Update(r)
  PROVE  Grouped'
<1>1. CASE \E w \in Rows, h \in Handles : \E group : SavedTo(r, w, h, group)
  BY <1>1, InsertingSaves, UpdatingSaves, SavingKeepsGroups DEF Quiet
<1>2. CASE UNCHANGED <<creators, rows, given, deserted, apart, late>>
  BY <1>2, InsertingSaves, UpdatingSaves, MovingKeepsGroups DEF Quiet, database, Grouped, Typed
<1> QED
  BY <1>1, <1>2, InsertingSaves, UpdatingSaves

-----------------------------------------------------------------------------
(* What is done in a single statement.                                     *)

(* Renaming a creator keeps the groups.                                    *)
LEMMA RenamingKeepsGroups ==
  ASSUME Grouped, NEW c \in Ids, NEW n \in Names, Rename(c, n)
  PROVE  Grouped'
<1>1. /\ creators' \in [Ids -> Names \union {None}]
      /\ \A d \in Ids : creators'[d] = IF d = c THEN n ELSE creators[d]
      /\ \A d \in Ids : creators[d] # n
      /\ Exists(c) /\ n # None
      /\ UNCHANGED <<rows, category, req, deserted>>
  BY NoneIsNone DEF Rename, Grouped, Typed
<1>2. /\ given' \in [Rows -> Names \union {None}]
      /\ \A w \in Rows : given'[w] = IF Present(w) /\ rows[w].group = c THEN None ELSE given[w]
  BY DEF Rename, Grouped, Typed
<1>3. \A d \in Ids : creators'[d] # None <=> Exists(d)
  BY <1>1 DEF Exists
<1>4. \A w \in Rows : Present(w) /\ rows[w].group # None => rows[w].group \in Ids
  BY DEF Grouped, Typed, Present, RowsOf
<1>5. Typed'
  <2>1. asked' \in 0 .. MaxAsked
    BY AskingIsCounted DEF Grouped, Rename
  <2> QED
    BY <1>1, <1>2, <1>3, <1>4, <2>1 DEF Grouped, Typed, Present, Exists
<1>6. NamesAreOne'
  BY <1>1 DEF Grouped, NamesAreOne, Exists
<1>7. FreshIsNew'
  <2>1. \A r \in Requests : req[r].fresh # None => Name(r) # n
    BY NoneIsNone DEF Rename, NameIsLocked, Others
  <2>2. \A r \in Requests : Name(r)' = Name(r) /\ Others(r)' = Others(r) /\ req[r].fresh \in Ids \union {None}
    BY <1>1 DEF Name, Item, Others, Grouped, Typed, Served
  <2> SUFFICES ASSUME NEW r \in Requests, req[r].fresh # None
               PROVE  /\ creators'[req[r].fresh] = None
                      /\ \A d \in Ids : creators'[d] # Name(r)
                      /\ \A q \in Others(r) : req[q].fresh # None => req[q].fresh # req[r].fresh /\ Name(q) # Name(r)
    BY <1>1, <2>2 DEF FreshIsNew, Exists, Others
  <2> QED
    BY <1>1, <2>1, <2>2 DEF Grouped, FreshIsNew, Exists
<1>8. GivenIsTheName'
  <2> SUFFICES ASSUME NEW w \in Rows, given'[w] # None
               PROVE  Present(w) /\ rows[w].group # None /\ Fold(creators'[rows[w].group]) = Fold(given'[w])
    BY <1>1 DEF GivenIsTheName, Present
  <2>1. given'[w] = given[w] /\ ~(Present(w) /\ rows[w].group = c)
    BY <1>2
  <2> QED
    BY <1>1, <1>4, <2>1 DEF Grouped, GivenIsTheName
<1>9. NoGroupLeftBehind'
  BY <1>1, <1>3 DEF Grouped, NoGroupLeftBehind, Present, Exists
<1> QED
  BY <1>5, <1>6, <1>7, <1>8, <1>9 DEF Grouped

(* Creators or influencers that go.                                        *)
LEMMA DeletingKeepsFresh ==
  ASSUME Grouped, \A d \in Ids : creators'[d] \in {creators[d], None}, req' = req
  PROVE  NamesAreOne' /\ FreshIsNew'
<1>1. NamesAreOne'
  BY DEF Grouped, NamesAreOne, Exists
<1>2. \A r \in Requests : /\ Name(r)' = Name(r) /\ Others(r)' = Others(r)
                          /\ req[r].fresh \in Ids \union {None} /\ (req[r].fresh # None => Name(r) # None)
  <2> TAKE r \in Requests
  <2>1. req[r] \in Served /\ InOrder(req[r])
    BY DEF Grouped, Typed
  <2>2. req[r].fresh # None => Name(r) # None
    BY <2>1, ItemIsTyped, NoneIsNone DEF InOrder, Name, Item
  <2> QED
    BY <2>1, <2>2 DEF Served, Name, Item, Others
<1>3. FreshIsNew'
  <2> SUFFICES ASSUME NEW r \in Requests, req[r].fresh # None
               PROVE  /\ creators'[req[r].fresh] = None
                      /\ \A d \in Ids : creators'[d] # Name(r)
                      /\ \A q \in Others(r) : req[q].fresh # None => req[q].fresh # req[r].fresh /\ Name(q) # Name(r)
    BY <1>2 DEF FreshIsNew, Exists, Others
  <2> QED
    BY <1>2 DEF Grouped, FreshIsNew, Exists
<1> QED
  BY <1>1, <1>3

(* A creator goes, and its members stay without one.                       *)
LEMMA DeletingCreatorKeepsGroups ==
  ASSUME Grouped, NEW c \in Ids, DeleteCreator(c)
  PROVE  Grouped'
<1> DEFINE members == {w \in Rows : Present(w) /\ rows[w].group = c}
<1>1. /\ creators' \in [Ids -> Names \union {None}]
      /\ \A d \in Ids : creators'[d] = IF d = c THEN None ELSE creators[d]
      /\ UNCHANGED <<category, req>>
      /\ deserted' = deserted \ {c}
  BY DEF DeleteCreator, Grouped, Typed
<1>2. /\ given' \in [Rows -> Names \union {None}]
      /\ \A w \in Rows : given'[w] = IF w \in members THEN None ELSE given[w]
  BY DEF DeleteCreator, Grouped, Typed
<1>3. /\ rows' \in [Rows -> RowsOf \union {None}]
      /\ \A w \in members : rows'[w].group = None
      /\ \A w \in Rows \ members : rows'[w] = rows[w]
      /\ \A w \in Rows : rows'[w] # None <=> Present(w)
  <2>1. \A w \in members : /\ rows[w] \in RowsOf /\ [rows[w] EXCEPT !.group = None] \in RowsOf
                           /\ [rows[w] EXCEPT !.group = None].group = None
    BY DEF Grouped, Typed, Present, RowsOf
  <2>2. rows' = [w \in Rows |-> IF w \in members THEN [rows[w] EXCEPT !.group = None] ELSE rows[w]]
    BY DEF DeleteCreator
  <2> QED
    BY <2>1, <2>2, NoneIsNone DEF Grouped, Typed, Present
<1>4. \A w \in Rows : Present(w) /\ rows[w].group # None => rows[w].group \in Ids
  BY DEF Grouped, Typed, Present, RowsOf
<1>5. Typed'
  <2>1. asked' \in 0 .. MaxAsked
    BY AskingIsCounted DEF Grouped, DeleteCreator
  <2>2. \A w \in Rows : Present(w)' /\ rows'[w].group # None => creators'[rows'[w].group] # None
    BY <1>1, <1>3, <1>4 DEF Grouped, Typed, Present, Exists
  <2> QED
    BY <1>1, <1>2, <1>3, <2>1, <2>2 DEF Grouped, Typed, Exists
<1>6. NamesAreOne' /\ FreshIsNew'
  BY <1>1, DeletingKeepsFresh
<1>7. GivenIsTheName'
  <2> SUFFICES ASSUME NEW w \in Rows, given'[w] # None
               PROVE  Present(w)' /\ rows'[w].group # None /\ Fold(creators'[rows'[w].group]) = Fold(given'[w])
    BY DEF GivenIsTheName
  <2>1. given'[w] = given[w] /\ w \notin members /\ rows'[w] = rows[w]
    BY <1>2, <1>3
  <2> QED
    BY <1>1, <1>3, <1>4, <2>1 DEF Grouped, GivenIsTheName, Present
<1>8. NoGroupLeftBehind'
  <2> SUFFICES ASSUME NEW d \in Ids, creators'[d] # None
               PROVE  d \in deserted' \/ \E w \in Rows : Present(w)' /\ rows'[w].group = d
    BY DEF NoGroupLeftBehind, Exists
  <2>1. d # c /\ Exists(d)
    BY <1>1 DEF Exists
  <2> QED
    BY <1>1, <1>3, <2>1 DEF Grouped, NoGroupLeftBehind, Present
<1> QED
  BY <1>5, <1>6, <1>7, <1>8 DEF Grouped

(* Influencers go, and the groups they leave are on record.                *)
LEMMA DeletingRowsKeepsGroups ==
  ASSUME Grouped, NEW ws \in SUBSET Rows, DeleteRows(ws), category' \in BOOLEAN
  PROVE  Grouped'
<1>1. /\ rows' \in [Rows -> RowsOf \union {None}]
      /\ \A w \in Rows : rows'[w] = IF w \in ws THEN None ELSE rows[w]
      /\ \A w \in ws : Present(w)
      /\ creators' = creators /\ req' = req
  BY DEF DeleteRows, Grouped, Typed
<1>2. /\ given' \in [Rows -> Names \union {None}]
      /\ \A w \in Rows : given'[w] = IF w \in ws THEN None ELSE given[w]
  BY DEF DeleteRows, Left, Grouped, Typed
<1>3. /\ deserted' \subseteq Ids /\ deserted \subseteq deserted'
      /\ \A w \in ws : rows[w].group # None => rows[w].group \in deserted'
  <2>1. \A w \in ws : rows[w].group \in Ids \union {None}
    BY <1>1 DEF Grouped, Typed, Present, RowsOf
  <2>2. deserted' = deserted \union ({rows[w].group : w \in ws} \ {None})
    BY <1>1 DEF DeleteRows, Left
  <2> QED
    BY <2>1, <2>2 DEF Grouped, Typed
<1>4. Typed'
  <2>1. asked' \in 0 .. MaxAsked
    BY AskingIsCounted DEF Grouped, DeleteRows
  <2> QED
    BY <1>1, <1>2, <1>3, <2>1 DEF Grouped, Typed, Present, Exists
<1>5. NamesAreOne' /\ FreshIsNew'
  BY <1>1, DeletingKeepsFresh
<1>6. GivenIsTheName'
  BY <1>1, <1>2 DEF Grouped, GivenIsTheName, Present
<1>7. NoGroupLeftBehind'
  <2> SUFFICES ASSUME NEW d \in Ids, Exists(d)
               PROVE  d \in deserted' \/ \E w \in Rows : Present(w)' /\ rows'[w].group = d
    BY <1>1 DEF NoGroupLeftBehind, Exists
  <2>1. CASE d \in deserted
    BY <1>3, <2>1
  <2>2. ASSUME NEW w \in Rows, Present(w), rows[w].group = d
        PROVE  d \in deserted' \/ \E v \in Rows : Present(v)' /\ rows'[v].group = d
    <3>1. d # None
      BY NoneIsNone
    <3>2. CASE w \in ws
      BY <1>3, <2>2, <3>1, <3>2
    <3>3. CASE w \notin ws
      BY <1>1, <2>2, <3>3 DEF Present
    <3> QED
      BY <3>2, <3>3
  <2> QED
    BY <2>1, <2>2 DEF Grouped, NoGroupLeftBehind
<1> QED
  BY <1>4, <1>5, <1>6, <1>7 DEF Grouped

-----------------------------------------------------------------------------
(* There are no creators and no requests.                                  *)
LEMMA GroupedInitially == Init => Grouped
<1> SUFFICES ASSUME Init PROVE Grouped
  OBVIOUS
<1>1. Idle \in Served /\ InOrder(Idle) /\ Idle.fresh = None
  BY IdleIsWell DEF Quiet, Well
<1>2. 0 \in 0 .. MaxAsked
  BY ConstantsAssumption
<1> HIDE DEF Idle
<1>3. Typed
  BY <1>1, <1>2 DEF Init, Typed, Present
<1> QED
  BY <1>1, <1>3
     DEF Init, Grouped, NamesAreOne, FreshIsNew, GivenIsTheName, NoGroupLeftBehind, Exists, Present

(* One case for each action.                                               *)
LEMMA GroupedIsPreserved == Grouped /\ [Next]_vars => Grouped'
<1> SUFFICES ASSUME Grouped, [Next]_vars PROVE Grouped'
  OBVIOUS
<1>1. ASSUME NEW r \in Requests, Register(r) \/ Edit(r) \/ Serve(r) \/ Dies(r) PROVE Grouped'
  BY <1>1, AskingKeepsGroups, ReadingKeepsGroups, FlushingKeepsGroups, CommittingKeepsGroups
     DEF Serve
<1>2. ASSUME NEW w \in Rows, DeleteInfluencer(w) PROVE Grouped'
  BY <1>2, DeletingRowsKeepsGroups DEF DeleteInfluencer, Grouped, Typed
<1>3. CASE DeleteCategory
  BY <1>3, DeletingRowsKeepsGroups DEF DeleteCategory
<1>4. CASE UNCHANGED vars
  BY <1>4
     DEF vars, data, database, Grouped, Typed, NamesAreOne, FreshIsNew, GivenIsTheName, NoGroupLeftBehind, Exists, Present,
         Name, Item, Others
<1> QED
  BY <1>1, <1>2, <1>3, <1>4, DeletingCreatorKeepsGroups, RenamingKeepsGroups DEF Next

-----------------------------------------------------------------------------
(* Names in several capitals.                                              *)

(* Whoever seeks a creator has an item, and its name.                      *)
LEMMA SeekersHaveNames ==
  ASSUME Grouped, NEW r \in Requests, At(r, "group") \/ req[r].fresh # None
  PROVE  Name(r) \in Names
<1>1. req[r] \in Served /\ InOrder(req[r]) /\ req[r].at # "idle"
  BY DEF Grouped, Typed, At, InOrder
<1> QED
  BY <1>1, ItemIsTyped DEF Name, Item

(* A step of a request that seeks no creator afterwards, of creators that  *)
(* stay.                                                                   *)
LEMMA QuietKeepsApart ==
  ASSUME Grouped, Parted, NEW r \in Requests,
         \E x : Quiet(x) /\ req' = [req EXCEPT ![r] = x],
         UNCHANGED <<creators, apart>>, late' \in {late, late \ {r}}
  PROVE  Parted'
<1> PICK x : Quiet(x) /\ req' = [req EXCEPT ![r] = x]
  OBVIOUS
<1>1. req'[r] = x /\ \A q \in Requests \ {r} : req'[q] = req[q]
  BY DEF Grouped, Typed
<1>2. \A n : Missing(n)' \subseteq Missing(n) \ {r}
  BY <1>1 DEF Missing, Quiet, At, Name, Item
<1>3. \A n : Called(n)' = Called(n)
  BY DEF Called, Exists
<1>4. LateAreKnown'
  BY <1>2, <1>3 DEF Parted, LateAreKnown
<1> QED
  BY <1>4 DEF Parted, ApartAreKnown, Exists

(* A look in vain: there is none.                                          *)
LEMMA LookingKeepsApart ==
  ASSUME Grouped, Parted, NEW r \in Requests, Look(r), req' = [req EXCEPT ![r].at = "group"]
  PROVE  Parted'
<1>1. req[r] \in Served /\ req[r].at = "look"
  BY DEF Grouped, Typed, Look, At
<1>2. /\ UNCHANGED <<creators, apart>> /\ late' = late \ {r}
  BY DEF Look, database
<1>3. /\ \A q \in Requests \ {r} : req'[q] = req[q]
      /\ req'[r].at = "group" /\ req'[r].todo = req[r].todo
  BY <1>1 DEF Grouped, Typed, Served
<1>4. Called(Name(r)) = {}
  <2>1. ~ \E x : Quiet(x) /\ req' = [req EXCEPT ![r] = x]
    BY <1>3 DEF Quiet, Grouped, Typed
  <2>2. ~Ended(r) /\ \A m \in {2, 3} : ~Turns(r, SubSeq(req[r].todo, m, Len(req[r].todo)))
    BY <1>1, <2>1, EndingIsWell, RestIsTyped, TurningIsWell DEF Served
  <2>3. \A c : req' = [req EXCEPT ![r].at = "save", ![r].found = c] => req'[r].at # "group"
    BY <1>1 DEF Grouped, Typed, Served
  <2> QED
    BY <1>3, <2>2, <2>3 DEF Look
<1>5. \A n : Called(n)' = Called(n)
  BY <1>2 DEF Called, Exists
<1>6. \A n : Missing(n)' \subseteq Missing(n) \union {r} /\ (r \in Missing(n)' => Fold(n) = Fold(Name(r)))
  BY <1>3 DEF Missing, At, Name, Item
<1>7. LateAreKnown'
  <2> SUFFICES ASSUME NEW n \in Names, NEW q \in Missing(n)', q \notin late' PROVE Called(n) = {}
    BY <1>5 DEF LateAreKnown
  <2>1. CASE q = r
    BY <1>4, <1>6, <2>1 DEF Called
  <2>2. CASE q # r
    BY <1>2, <1>6, <2>2 DEF Parted, LateAreKnown
  <2> QED
    BY <2>1, <2>2
<1> QED
  BY <1>2, <1>7 DEF Parted, ApartAreKnown, Exists

(* A creator is flushed: it is sought as before.                           *)
LEMMA FlushingKeepsApart ==
  ASSUME Grouped, Parted, NEW r \in Requests, Group(r)
  PROVE  Parted'
<1>1. UNCHANGED <<creators, apart, late>>
  BY DEF Group, data, database
<1>2. CASE Ended(r)
  BY <1>1, <1>2, EndingIsWell, QuietKeepsApart
<1>3. CASE \E c : req' = [req EXCEPT ![r].at = "save", ![r].fresh = c]
  <2> PICK c : req' = [req EXCEPT ![r].at = "save", ![r].fresh = c]
    BY <1>3
  <2>1. req[r] \in Served /\ req[r].at = "group"
    BY DEF Grouped, Typed, Group, At
  <2>2. (\A q \in Requests \ {r} : req'[q] = req[q]) /\ req'[r].todo = req[r].todo
    BY <2>1 DEF Grouped, Typed, Served
  <2>3. \A n : Missing(n)' \subseteq Missing(n) /\ Called(n)' = Called(n)
    BY <1>1, <2>1, <2>2 DEF Missing, Called, Exists, At, Name, Item
  <2> QED
    BY <1>1, <2>3 DEF Parted, ApartAreKnown, LateAreKnown, Exists
<1> QED
  BY <1>2, <1>3 DEF Group

(* A request commits: the creator it brings along is known to be apart, or *)
(* the only one; who seeks one of that name is late.                       *)
LEMMA SavingKeepsApart ==
  ASSUME Grouped, Parted, NEW r \in Requests, NEW w \in Rows, NEW h \in Handles, NEW group, At(r, "save"),
         SavedTo(r, w, h, group), \E x : Quiet(x) /\ req' = [req EXCEPT ![r] = x]
  PROVE  Parted'
<1>1. CASE req[r].fresh = None
  <2>1. UNCHANGED <<creators, apart, late>>
    BY <1>1 DEF SavedTo, Saved
  <2> QED
    BY <2>1, QuietKeepsApart
<1>2. CASE req[r].fresh # None
  <2> DEFINE new == req[r].fresh
             n == Name(r)
  <2>1. /\ new \in Ids /\ n \in Names /\ ~Exists(new) /\ r \in Missing(n)
    BY <1>2, SeekersHaveNames DEF Grouped, Typed, Served, FreshIsNew, Missing
  <2>2. /\ \A c \in Ids : creators'[c] = IF c = new THEN n ELSE creators[c]
        /\ \A c \in Ids : creators'[c] # None <=> Exists(c) \/ c = new
        /\ \A c \in Ids : creators[c] # n
    BY <1>2, SavingIsRight DEF Grouped, FreshIsNew
  <2>3. /\ apart' = IF r \in late THEN apart \union {new} ELSE apart
        /\ late' = late \union Missing(n)
    BY <1>2 DEF SavedTo, Saved
  <2>4. Missing(n) \subseteq Requests
    BY DEF Missing
  <2>5. r \notin late => Called(n) = {}
    BY <2>1 DEF Parted, LateAreKnown
  <2>6. ApartAreKnown'
    <3> SUFFICES ASSUME NEW c \in Ids, NEW d \in Ids, creators'[c] # None, creators'[d] # None, c # d,
                        Fold(creators'[c]) = Fold(creators'[d])
                 PROVE  {c, d} \intersect apart' # {}
      BY DEF ApartAreKnown, Exists
    <3>1. CASE c # new /\ d # new
      <4>1. Exists(c) /\ Exists(d) /\ Fold(creators[c]) = Fold(creators[d])
        BY <2>2, <3>1
      <4>2. {c, d} \intersect apart # {}
        BY <4>1 DEF Parted, ApartAreKnown
      <4> QED
        BY <2>3, <4>2
    <3>2. CASE c = new \/ d = new
      <4>1. PICK e \in {c, d} : e # new
        OBVIOUS
      <4>2. e \in Called(n)
        BY <2>1, <2>2, <3>2, <4>1 DEF Called
      <4> QED
        BY <2>3, <2>5, <3>2, <4>2
    <3> QED
      BY <3>1, <3>2
  <2>7. LateAreKnown'
    <3> PICK x : Quiet(x) /\ req' = [req EXCEPT ![r] = x]
      OBVIOUS
    <3>1. req'[r] = x /\ \A q \in Requests \ {r} : req'[q] = req[q]
      BY DEF Grouped, Typed
    <3>2. \A m : Missing(m)' \subseteq Missing(m)
      BY <3>1 DEF Missing, Quiet, At, Name, Item
    <3> SUFFICES ASSUME NEW m \in Names, NEW q \in Missing(m)', q \notin late' PROVE Called(m)' = {}
      BY DEF LateAreKnown
    <3>3. q \in Missing(m) /\ q \notin late /\ q \notin Missing(n)
      BY <2>3, <3>2
    <3>4. Called(m) = {} /\ Fold(m) # Fold(n)
      BY <3>3 DEF Parted, LateAreKnown, Missing
    <3> QED
      BY <2>2, <3>4 DEF Called, Exists
  <2> QED
    BY <2>1, <2>3, <2>4, <2>6, <2>7 DEF Parted
<1> QED
  BY <1>1, <1>2

(* A creator is renamed: apart if another has the name.                    *)
LEMMA RenamingKeepsApart ==
  ASSUME Grouped, Parted, NEW c \in Ids, NEW n \in Names, Rename(c, n)
  PROVE  Parted'
<1>1. /\ \A d \in Ids : creators'[d] = IF d = c THEN n ELSE creators[d]
      /\ req' = req /\ late' = late \union Missing(n)
      /\ apart' = IF Called(n) \subseteq {c} THEN apart \ {c} ELSE apart \union {c}
      /\ Exists(c) /\ n # None
  BY NoneIsNone DEF Rename, Grouped, Typed
<1>2. \A m : Missing(m)' = Missing(m) /\ Missing(m) \subseteq Requests
  BY <1>1 DEF Missing, At, Name, Item
<1>3. ApartAreKnown'
  <2> SUFFICES ASSUME NEW d \in Ids, NEW e \in Ids, creators'[d] # None, creators'[e] # None, d # e,
                      Fold(creators'[d]) = Fold(creators'[e])
               PROVE  {d, e} \intersect apart' # {}
    BY DEF ApartAreKnown, Exists
  <2>1. CASE d # c /\ e # c
    <3>1. Exists(d) /\ Exists(e) /\ Fold(creators[d]) = Fold(creators[e])
      BY <1>1, <2>1 DEF Exists
    <3>2. {d, e} \intersect apart # {}
      BY <3>1 DEF Parted, ApartAreKnown
    <3> QED
      BY <1>1, <2>1, <3>2
  <2>2. CASE d = c \/ e = c
    <3>1. PICK f \in {d, e} : f # c
      OBVIOUS
    <3>2. f \in Called(n)
      BY <1>1, <2>2, <3>1 DEF Called, Exists
    <3> QED
      BY <1>1, <2>2, <3>1, <3>2
  <2> QED
    BY <2>1, <2>2
<1>4. LateAreKnown'
  <2> SUFFICES ASSUME NEW m \in Names, NEW q \in Missing(m), q \notin late' PROVE Called(m)' = {}
    BY <1>2 DEF LateAreKnown
  <2>1. Called(m) = {} /\ Fold(m) # Fold(n)
    BY <1>1 DEF Parted, LateAreKnown, Missing
  <2> QED
    BY <1>1, <2>1 DEF Called, Exists
<1> QED
  BY <1>1, <1>2, <1>3, <1>4 DEF Parted

(* Creators that go leave the others as they are.                          *)
LEMMA DeletingKeepsApart ==
  ASSUME Grouped, Parted, NEW gone \in SUBSET Ids,
         \A d \in Ids : creators'[d] = IF d \in gone THEN None ELSE creators[d],
         apart' = apart \ gone, UNCHANGED <<req, late>>
  PROVE  Parted'
<1>1. \A m : Missing(m)' = Missing(m)
  BY DEF Missing, At, Name, Item
<1>2. \A m : Called(m)' \subseteq Called(m)
  BY DEF Called, Exists
<1>3. LateAreKnown'
  BY <1>1, <1>2 DEF Parted, LateAreKnown
<1>4. ApartAreKnown'
  BY DEF Parted, ApartAreKnown, Exists
<1> QED
  BY <1>3, <1>4 DEF Parted

(* One case for each action.                                               *)
LEMMA PartedIsPreserved == Grouped /\ Parted /\ [Next]_vars => Parted'
<1> SUFFICES ASSUME Grouped, Parted, [Next]_vars PROVE Parted'
  OBVIOUS
<1>1. ASSUME NEW r \in Requests, Register(r) \/ Edit(r) PROVE Parted'
  BY <1>1, AskingKeepsGroups, QuietKeepsApart DEF Register, Edit, data, database
<1>2. ASSUME NEW r \in Requests, Flush(r) \/ Look(r) \/ Refuse(r) \/ DeadlockFound(r) \/ Dies(r) PROVE Parted'
  <2>1. UNCHANGED <<creators, apart>> /\ late' \in {late, late \ {r}}
    BY <1>2 DEF Flush, Look, Refuse, DeadlockFound, Dies, data, database
  <2> QED
    BY <1>2, <2>1, ReadingKeepsGroups, QuietKeepsApart, LookingKeepsApart
<1>3. ASSUME NEW r \in Requests, Insert(r) \/ Update(r) PROVE Parted'
  BY <1>3, InsertingSaves, UpdatingSaves, SavingKeepsApart, QuietKeepsApart
<1>4. ASSUME NEW c \in Ids, DeleteCreator(c) PROVE Parted'
  <2>1. /\ \A d \in Ids : creators'[d] = IF d \in {c} THEN None ELSE creators[d]
        /\ apart' = apart \ {c} /\ UNCHANGED <<req, late>>
    BY <1>4 DEF DeleteCreator, Grouped, Typed
  <2> QED
    BY <2>1, DeletingKeepsApart
<1>5. CASE UNCHANGED <<creators, apart, late, req>>
  <2>1. \A m : Missing(m)' = Missing(m) /\ Called(m)' = Called(m)
    BY <1>5 DEF Missing, Called, Exists, At, Name, Item
  <2> QED
    BY <1>5, <2>1 DEF Parted, ApartAreKnown, LateAreKnown, Exists
<1>6. ASSUME \/ \E w \in Rows : DeleteInfluencer(w)
             \/ DeleteCategory
             \/ UNCHANGED vars
      PROVE  UNCHANGED <<creators, apart, late, req>>
  BY <1>6 DEF DeleteInfluencer, DeleteCategory, DeleteRows, vars, data, database
<1> QED
  BY <1>1, <1>2, <1>3, <1>4, <1>5, <1>6, FlushingKeepsApart, RenamingKeepsApart
     DEF Next, Serve

LEMMA PartedInitially == Init => Parted
  BY DEF Init, Parted, ApartAreKnown, LateAreKnown, Exists, Called

-----------------------------------------------------------------------------
(* What holds of Registry.                                                 *)

LEMMA GroupedAndParted == Spec => [](Grouped /\ Parted)
  BY GroupedInitially, GroupedIsPreserved, PartedInitially, PartedIsPreserved, PTL DEF Spec

(* Every variable has its type; in particular the group of an influencer   *)
(* is there.                                                               *)
THEOREM TypeCorrect == Spec => []TypeOK
<1>1. Grouped /\ Parted => TypeOK
  <2> SUFFICES ASSUME Grouped, Parted PROVE TypeOK
    OBVIOUS
  <2>1. \A w \in Rows : Present(w) =>
          rows[w].handle \in Handles /\ (rows[w].group # None => rows[w].group \in Ids)
    BY DEF Grouped, Typed, Present, RowsOf
  <2>2. \A r \in Requests :
          /\ req[r].at \in {"idle", "flush", "look", "group", "save"}
          /\ req[r].edits \in Rows \union {None} /\ req[r].todo \in Seq(Items)
          /\ req[r].to \in {"name", "none", "same"}
          /\ {req[r].seen, req[r].found, req[r].fresh} \subseteq Ids \union {None}
          /\ req[r].held \in Handles \union {None}
    BY DEF Grouped, Typed, Served
  <2> QED
    BY <2>1, <2>2 DEF Grouped, Typed, TypeOK, Exists, Parted
<1> QED
  BY <1>1, GroupedAndParted, PTL

(* A registration that fails leaves no creator behind.                     *)
THEOREM NoGroupStaysBehind == Spec => []NoGroupLeftBehind
<1>1. Grouped /\ Parted => NoGroupLeftBehind
  BY DEF Grouped
<1> QED
  BY <1>1, GroupedAndParted, PTL

(* A spelling is one creator, and a name in several capitals one group but *)
(* for creators that have come by it in time for neither to know of the    *)
(* other, or by a rename.                                                  *)
THEOREM GroupsStayRight == Spec => []SameNameSameGroup
<1>1. Grouped /\ Parted => SameNameSameGroup
  <2> SUFFICES ASSUME Grouped, Parted PROVE SameNameSameGroup
    OBVIOUS
  <2>1. \A c, d \in Ids : Exists(c) /\ Exists(d) /\ c # d /\ Fold(creators[c]) = Fold(creators[d])
          => creators[c] # creators[d] /\ {c, d} \intersect apart # {}
    BY DEF Grouped, NamesAreOne, Parted, ApartAreKnown
  <2>2. ASSUME NEW v \in Rows, NEW w \in Rows, given[v] # None, given[w] # None, Fold(given[v]) = Fold(given[w])
        PROVE  rows[v].group = rows[w].group \/ {rows[v].group, rows[w].group} \intersect apart # {}
    <3>1. /\ rows[v].group \in Ids /\ rows[w].group \in Ids /\ Exists(rows[v].group) /\ Exists(rows[w].group)
          /\ Fold(creators[rows[v].group]) = Fold(creators[rows[w].group])
      BY <2>2 DEF Grouped, GivenIsTheName, Typed, Present, RowsOf
    <3> QED
      BY <2>1, <3>1
  <2> QED
    BY <2>1, <2>2 DEF SameNameSameGroup
<1> QED
  BY <1>1, GroupedAndParted, PTL

-----------------------------------------------------------------------------
(* CreatorStats: numbers.                                                  *)

(* A set of numbers has a least one.                                       *)
LEMMA LeastNumber ==
  ASSUME NEW T, T \subseteq Nat, T # {}
  PROVE  \E m \in T : \A n \in T : m <= n
<1>1. IsWellFoundedOn(OpToRel(<, Nat), Nat)
  BY NatLessThanWellFounded
<1>2. PICK m \in T : ~(\E y \in T : <<y, m>> \in OpToRel(<, Nat))
  BY <1>1, WFMin
<1> QED
  BY <1>2 DEF OpToRel

(* Min of a set that is bounded below is its least element.                *)
LEMMA LeastOf ==
  ASSUME NEW m \in Int, NEW S, S # {}, \A x \in S : x \in Int /\ m <= x
  PROVE  Min(S) \in S /\ \A x \in S : Min(S) <= x
<1> DEFINE T == {k \in Nat : m + k \in S}
<1>1. PICK x \in S : TRUE
  OBVIOUS
<1>2. x - m \in T
  OBVIOUS
<1>3. PICK k \in T : \A j \in T : k <= j
  BY <1>2, LeastNumber
<1>4. m + k \in S /\ \A y \in S : m + k <= y
  <2>1. ASSUME NEW y \in S PROVE m + k <= y
    <3>1. y - m \in T
      OBVIOUS
    <3> QED
      BY <3>1, <1>3
  <2> QED
    BY <2>1
<1> QED
  BY <1>4 DEF Min

(* Max of a set that is bounded above is its largest element.              *)
LEMMA LargestIn ==
  ASSUME NEW m \in Int, NEW S, S # {}, \A x \in S : x \in Int /\ x <= m
  PROVE  Max(S) \in S /\ \A x \in S : x <= Max(S)
<1> DEFINE T == {k \in Nat : m - k \in S}
<1>1. PICK x \in S : TRUE
  OBVIOUS
<1>2. m - x \in T
  OBVIOUS
<1>3. PICK k \in T : \A j \in T : k <= j
  BY <1>2, LeastNumber
<1>4. m - k \in S /\ \A y \in S : m - k >= y
  <2>1. ASSUME NEW y \in S PROVE m - k >= y
    <3>1. m - y \in T
      OBVIOUS
    <3> QED
      BY <3>1, <1>3
  <2> QED
    BY <2>1
<1>5. Max(S) \in S /\ \A y \in S : Max(S) >= y
  BY <1>4 DEF Max
<1> QED
  BY <1>5

(* Products with a number grow with the other factor.                      *)
LEMMA ProductsGrow ==
  ASSUME NEW a \in Int, NEW b \in Int, NEW d \in Nat, a <= b
  PROVE  d * a \in Int /\ d * b \in Int /\ d * a <= d * b
  OBVIOUS

(* What a division leaves.                                                 *)
LEMMA Remainder ==
  ASSUME NEW n \in Int, NEW d \in Int, d > 0
  PROVE  n % d = n - d * (n \div d)
  BY Z3

(* Quotient and remainder are the ones of the dividend.                    *)
LEMMA Division ==
  ASSUME NEW n \in Int, NEW d \in Nat \ {0}
  PROVE  /\ n \div d \in Int /\ n % d \in 0 .. d - 1
         /\ n = d * (n \div d) + (n % d)
<1> DEFINE q == n \div d
           r == n % d
<1>1. q \in Int /\ r \in 0 .. d - 1
  OBVIOUS
<1>2. d \in Int /\ d > 0
  OBVIOUS
<1>3. r = n - d * q
  BY <1>2, Remainder, Zenon
<1> HIDE DEF q, r
<1>4. d * q \in Int
  BY <1>1, <1>2
<1>5. n = d * q + r
  BY <1>1, <1>3, <1>4
<1> QED
  BY <1>1, <1>5 DEF q, r

(* Rounding yields an integer.                                             *)
LEMMA RoundedIsInteger ==
  ASSUME NEW n \in Int, NEW d \in Nat \ {0}
  PROVE  Rounded(n, d) \in Int
  BY Division DEF Rounded

(* A quotient without remainder is rounded to itself.                      *)
LEMMA RoundedExactly ==
  ASSUME NEW v \in Int, NEW d \in Nat \ {0}
  PROVE  Rounded(v * d, d) = v
<1> DEFINE q == (v * d) \div d
<1>1. v * d \in Int /\ d * v \in Int /\ v * d = d * v
  OBVIOUS
<1>2. q \in Int /\ (v * d) % d \in 0 .. d - 1 /\ v * d = d * q + ((v * d) % d)
  BY <1>1, Division
<1>3. d * q \in Int /\ d * (q + 1) \in Int /\ d * (q + 1) = d * q + d /\ d * (v + 1) = d * v + d
  BY <1>2
<1>4. ~ v < q
  <2>1. SUFFICES ASSUME v < q PROVE FALSE
    OBVIOUS
  <2>2. d * (v + 1) <= d * q
    BY <2>1, <1>2, ProductsGrow
  <2> QED
    BY <2>2, <1>1, <1>2, <1>3
<1>5. ~ q < v
  <2>1. SUFFICES ASSUME q < v PROVE FALSE
    OBVIOUS
  <2>2. d * (q + 1) <= d * v
    BY <2>1, <1>2, ProductsGrow
  <2> QED
    BY <2>2, <1>1, <1>2, <1>3
<1>6. q = v /\ (v * d) % d = 0
  BY <1>1, <1>2, <1>3, <1>4, <1>5
<1> QED
  BY <1>6 DEF Rounded

(* Rounding keeps the order of what is rounded.                            *)
LEMMA RoundedKeepsOrder ==
  ASSUME NEW n \in Int, NEW m \in Int, NEW d \in Nat \ {0}, n <= m
  PROVE  Rounded(n, d) <= Rounded(m, d)
<1> DEFINE q == n \div d
           k == m \div d
<1>1. q \in Int /\ n % d \in 0 .. d - 1 /\ n = d * q + (n % d)
  BY Division
<1>2. k \in Int /\ m % d \in 0 .. d - 1 /\ m = d * k + (m % d)
  BY Division
<1>3. d * q \in Int /\ d * k \in Int /\ d * (k + 1) = d * k + d
  BY <1>1, <1>2
<1>4. q <= k
  <2>1. SUFFICES ASSUME k < q PROVE FALSE
    BY <1>1, <1>2
  <2>2. d * (k + 1) <= d * q
    BY <2>1, <1>1, <1>2, ProductsGrow
  <2> QED
    BY <2>2, <1>1, <1>2, <1>3
<1>5. CASE q < k
  BY <1>5, <1>1, <1>2 DEF Rounded
<1>6. CASE q = k
  <2>1. n % d <= m % d
    BY <1>6, <1>1, <1>2, <1>3
  <2> HIDE DEF q
  <2>2. Rounded(n, d) = IF 2 * (n % d) < d \/ (2 * (n % d) = d /\ q % 2 = 0) THEN q ELSE q + 1
    BY DEF Rounded, q
  <2>3. Rounded(m, d) = IF 2 * (m % d) < d \/ (2 * (m % d) = d /\ q % 2 = 0) THEN q ELSE q + 1
    BY <1>6 DEF Rounded
  <2> QED
    BY <2>1, <2>2, <2>3, <1>1, <1>2
<1> QED
  BY <1>4, <1>5, <1>6, <1>1, <1>2

-----------------------------------------------------------------------------
(* CreatorStats: sums.                                                     *)

(* The first n partial sums of f are right in h.                           *)
Sums(f, h, n) == h[0] = 0 /\ \A i \in 1 .. n : h[i] = h[i - 1] + f[i]

(* Every function on the first n numbers has its sums.                     *)
LEMMA SumsExist ==
  ASSUME NEW f, NEW n \in Nat
  PROVE  \E h : Sums(f, h, n)
<1> DEFINE T == {m \in Nat : ~ \E h : Sums(f, h, m)}
<1>1. SUFFICES ASSUME T # {} PROVE FALSE
  OBVIOUS
<1>2. PICK m \in T : \A j \in T : m <= j
  BY <1>1, LeastNumber
<1>3. m # 0
  <2>1. Sums(f, [i \in Nat |-> 0], 0)
    BY DEF Sums
  <2> QED
    BY <2>1, <1>2
<1>4. m - 1 \in Nat /\ m - 1 \notin T
  BY <1>2, <1>3
<1>5. PICK h : Sums(f, h, m - 1)
  BY <1>4
<1> DEFINE k == [i \in Nat |-> IF i = m THEN h[m - 1] + f[m] ELSE h[i]]
<1>6. Sums(f, k, m)
  <2>1. k[0] = 0
    BY <1>2, <1>3, <1>5 DEF Sums
  <2>2. ASSUME NEW i \in 1 .. m PROVE k[i] = k[i - 1] + f[i]
    <3>1. i \in Nat /\ i - 1 \in Nat /\ i - 1 # m
      BY <1>2
    <3>2. i # m => i \in 1 .. m - 1
      BY <1>2
    <3> QED
      BY <3>1, <3>2, <1>5 DEF Sums
  <2> QED
    BY <2>1, <2>2 DEF Sums
<1> QED
  BY <1>6, <1>2

(* A function has its sums once.                                           *)
LEMMA SumsAgree ==
  ASSUME NEW f, NEW h, NEW k, NEW n \in Nat, NEW m \in Nat,
         Sums(f, h, n), Sums(f, k, m), NEW j \in 0 .. n, j <= m
  PROVE  h[j] = k[j]
<1> DEFINE T == {i \in 0 .. j : h[i] # k[i]}
<1>1. SUFFICES ASSUME T # {} PROVE FALSE
  OBVIOUS
<1>2. T \subseteq Nat
  OBVIOUS
<1>3. PICK i \in T : \A l \in T : i <= l
  BY <1>1, <1>2, LeastNumber
<1>4. i # 0
  BY <1>3 DEF Sums
<1>5. i - 1 \in 0 .. j /\ i \in 1 .. n /\ i \in 1 .. m
  BY <1>3, <1>4
<1>6. h[i - 1] = k[i - 1]
  BY <1>3, <1>5
<1> QED
  BY <1>3, <1>5, <1>6 DEF Sums

(* The defining equation of a total.                                       *)
LEMMA TotalIsSum ==
  ASSUME NEW f
  PROVE  /\ Total(f, 0) = 0
         /\ \A n \in Nat \ {0} : Total(f, n) = Total(f, n - 1) + f[n]
<1> DEFINE rec(g) == [i \in Nat |-> IF i = 0 THEN 0 ELSE g[i - 1] + f[i]]
           some(i) == CHOOSE h : Sums(f, h, i)
           g0 == [i \in Nat |-> some(i)[i]]
           upTo == CHOOSE g : g = rec(g)
<1>1. \A i \in Nat : Sums(f, some(i), i)
  BY SumsExist
<1> HIDE DEF some
<1>2. g0 = rec(g0)
  <2>1. ASSUME NEW i \in Nat PROVE g0[i] = IF i = 0 THEN 0 ELSE g0[i - 1] + f[i]
    <3>1. CASE i = 0
      BY <3>1, <1>1 DEF Sums
    <3>2. CASE i # 0
      <4>1. i - 1 \in Nat /\ i - 1 \in 0 .. i - 1 /\ i - 1 <= i /\ i \in 1 .. i
        BY <3>2
      <4>2. some(i - 1)[i - 1] = some(i)[i - 1]
        BY <4>1, <1>1, SumsAgree
      <4>3. some(i)[i] = some(i)[i - 1] + f[i]
        BY <4>1, <1>1 DEF Sums
      <4> QED
        BY <3>2, <4>1, <4>2, <4>3
    <3> QED
      BY <3>1, <3>2
  <2> QED
    BY <2>1
<1> HIDE DEF g0
<1>3. upTo = rec(upTo)
  BY <1>2
<1>4. \A n : Total(f, n) = upTo[n]
  BY DEF Total
<1> HIDE DEF upTo
<1>5. \A i \in Nat : upTo[i] = IF i = 0 THEN 0 ELSE upTo[i - 1] + f[i]
  BY <1>3
<1> QED
  BY <1>4, <1>5

(* A total of differences is the difference of the ends.                   *)
LEMMA TotalOfSteps ==
  ASSUME NEW n \in Nat, NEW F, \A i \in 0 .. n : F[i] \in Int,
         NEW f, \A i \in 1 .. n : f[i] = F[i] - F[i - 1]
  PROVE  Total(f, n) = F[n] - F[0]
<1> DEFINE T == {i \in 0 .. n : Total(f, i) # F[i] - F[0]}
<1>1. SUFFICES ASSUME T # {} PROVE FALSE
  OBVIOUS
<1>2. T \subseteq Nat
  OBVIOUS
<1>3. PICK i \in T : \A j \in T : i <= j
  BY <1>1, <1>2, LeastNumber
<1>4. i # 0
  BY <1>3, TotalIsSum
<1>5. i - 1 \in 0 .. n /\ i \in 1 .. n /\ i \in Nat \ {0}
  BY <1>3, <1>4
<1>6. Total(f, i - 1) = F[i - 1] - F[0]
  BY <1>3, <1>5
<1>7. Total(f, i) = Total(f, i - 1) + f[i]
  BY <1>5, TotalIsSum
<1> QED
  BY <1>3, <1>5, <1>6, <1>7

(* The total of integers is an integer.                                    *)
LEMMA TotalIsInteger ==
  ASSUME NEW n \in Nat, NEW f, \A i \in 1 .. n : f[i] \in Int
  PROVE  \A i \in 0 .. n : Total(f, i) \in Int
<1> DEFINE T == {i \in 0 .. n : Total(f, i) \notin Int}
<1>1. SUFFICES ASSUME T # {} PROVE FALSE
  OBVIOUS
<1>2. T \subseteq Nat
  OBVIOUS
<1>3. PICK i \in T : \A j \in T : i <= j
  BY <1>1, <1>2, LeastNumber
<1>4. i # 0
  BY <1>3, TotalIsSum
<1>5. i - 1 \in 0 .. n /\ i \in 1 .. n /\ i \in Nat \ {0}
  BY <1>3, <1>4
<1>6. Total(f, i - 1) \in Int
  BY <1>3, <1>5
<1>7. Total(f, i) = Total(f, i - 1) + f[i]
  BY <1>5, TotalIsSum
<1> QED
  BY <1>3, <1>5, <1>6, <1>7

(* The larger the terms, the larger the total.                             *)
LEMMA TotalGrows ==
  ASSUME NEW n \in Nat, NEW f, NEW g,
         \A i \in 1 .. n : f[i] \in Int /\ g[i] \in Int /\ f[i] <= g[i]
  PROVE  Total(f, n) <= Total(g, n)
<1> DEFINE T == {i \in 0 .. n : ~ Total(f, i) <= Total(g, i)}
<1>1. SUFFICES ASSUME T # {} PROVE FALSE
  OBVIOUS
<1>2. T \subseteq Nat
  OBVIOUS
<1>3. PICK i \in T : \A j \in T : i <= j
  BY <1>1, <1>2, LeastNumber
<1>4. i # 0
  BY <1>3, TotalIsSum
<1>5. i - 1 \in 0 .. n /\ i \in 1 .. n /\ i \in Nat \ {0}
  BY <1>3, <1>4
<1>6. Total(f, i - 1) <= Total(g, i - 1)
  BY <1>3, <1>5
<1>7. Total(f, i) = Total(f, i - 1) + f[i] /\ Total(g, i) = Total(g, i - 1) + g[i]
  BY <1>5, TotalIsSum
<1>8. Total(f, i - 1) \in Int /\ Total(g, i - 1) \in Int
  BY <1>5, TotalIsInteger
<1> QED
  BY <1>3, <1>5, <1>6, <1>7, <1>8

(* A total of differences is the difference of the totals.                 *)
LEMMA TotalOfDifferences ==
  ASSUME NEW n \in Nat, NEW f, NEW g, NEW h,
         \A i \in 1 .. n : f[i] \in Int /\ g[i] \in Int /\ h[i] = f[i] - g[i]
  PROVE  Total(h, n) = Total(f, n) - Total(g, n)
<1> DEFINE F == [i \in 0 .. n |-> Total(f, i) - Total(g, i)]
<1>1. \A i \in 0 .. n : Total(f, i) \in Int /\ Total(g, i) \in Int
  BY TotalIsInteger
<1>2. ASSUME NEW i \in 1 .. n PROVE h[i] = F[i] - F[i - 1]
  <2>1. i \in Nat \ {0} /\ i \in 0 .. n /\ i - 1 \in 0 .. n
    OBVIOUS
  <2>2. Total(f, i) = Total(f, i - 1) + f[i] /\ Total(g, i) = Total(g, i - 1) + g[i]
    BY <2>1, TotalIsSum
  <2> QED
    BY <2>1, <2>2, <1>1
<1>3. \A i \in 0 .. n : F[i] \in Int
  BY <1>1
<1>4. F[0] = 0
  BY TotalIsSum
<1>5. n \in 0 .. n
  OBVIOUS
<1>6. F[n] = Total(f, n) - Total(g, n)
  BY <1>5
<1> HIDE DEF F
<1>7. Total(h, n) = F[n] - F[0]
  BY <1>2, <1>3, TotalOfSteps
<1> QED
  BY <1>1, <1>4, <1>5, <1>6, <1>7

(* Of finitely many posts one has the largest metric.                      *)
LEMMA OneIsLargest ==
  ASSUME NEW S, IsFiniteSet(S), S # {}, NEW metrics, \A q \in S : metrics[q] \in Int
  PROVE  \E x \in S : \A q \in S : metrics[q] <= metrics[x]
<1> DEFINE good(R) == \E x \in R : \A q \in R : metrics[q] <= metrics[x]
           bad == {k \in Nat : \E R \in SUBSET S : R # {} /\ Cardinality(R) = k /\ ~ good(R)}
<1>1. SUFFICES ASSUME ~ good(S) PROVE FALSE
  OBVIOUS
<1>2. Cardinality(S) \in bad
  BY <1>1, FS_CardinalityType
<1>3. bad \subseteq Nat /\ bad # {}
  BY <1>2
<1>4. PICK k \in bad : \A j \in bad : k <= j
  <2> HIDE DEF bad
  <2> QED
    BY <1>3, LeastNumber
<1>5. PICK R \in SUBSET S : R # {} /\ Cardinality(R) = k /\ ~ good(R)
  BY <1>4
<1>6. PICK y \in R : TRUE
  BY <1>5
<1>7. IsFiniteSet(R)
  BY FS_Subset
<1>8. IsFiniteSet(R \ {y}) /\ Cardinality(R \ {y}) = k - 1 /\ k \in Nat /\ k - 1 \in Nat
  <2>1. IsFiniteSet(R \ {y}) /\ Cardinality(R \ {y}) = k - 1
    BY <1>5, <1>6, <1>7, FS_RemoveElement
  <2> QED
    BY <2>1, <1>3, FS_CardinalityType
<1>9. CASE R \ {y} = {}
  <2>1. \A q \in R : q = y
    BY <1>9
  <2>2. metrics[y] <= metrics[y]
    BY <1>6
  <2> QED
    BY <2>1, <2>2, <1>5, <1>6
<1>10. CASE R \ {y} # {}
  <2>1. good(R \ {y})
    <3>1. ASSUME ~ good(R \ {y}) PROVE FALSE
      <4>1. k - 1 \in bad
        BY <3>1, <1>8, <1>10
      <4> QED
        BY <4>1, <1>4, <1>8
    <3> QED
      BY <3>1
  <2>2. PICK x \in R \ {y} : \A q \in R \ {y} : metrics[q] <= metrics[x]
    BY <2>1
  <2>3. metrics[x] \in Int /\ metrics[y] \in Int
    BY <1>6
  <2>4. CASE metrics[x] <= metrics[y]
    <3>1. ASSUME NEW q \in R PROVE metrics[q] <= metrics[y]
      <4>1. metrics[q] \in Int
        OBVIOUS
      <4>2. q = y \/ metrics[q] <= metrics[x]
        BY <2>2
      <4> QED
        BY <4>1, <4>2, <2>3, <2>4
    <3> QED
      BY <3>1, <1>5, <1>6
  <2>5. CASE ~ metrics[x] <= metrics[y]
    <3>1. ASSUME NEW q \in R PROVE metrics[q] <= metrics[x]
      <4>2. q = y \/ metrics[q] <= metrics[x]
        BY <2>2
      <4> QED
        BY <4>2, <2>3, <2>5
    <3> QED
      BY <3>1, <1>5
  <2> QED
    BY <2>4, <2>5
<1> QED
  BY <1>9, <1>10

(* The largest of the values that a function has on finitely many.         *)
LEMMA LargestValue ==
  ASSUME NEW S, IsFiniteSet(S), S # {}, NEW f, \A q \in S : f[q] \in Int
  PROVE  LET V == {f[q] : q \in S} IN Max(V) \in V /\ \A q \in S : f[q] <= Max(V)
<1> DEFINE V == {f[q] : q \in S}
<1>1. PICK x \in S : \A q \in S : f[q] <= f[x]
  BY OneIsLargest
<1>2. f[x] \in Int /\ V # {} /\ \A v \in V : v \in Int /\ v <= f[x]
  BY <1>1
<1>3. \A q \in S : f[q] \in V
  OBVIOUS
<1> HIDE DEF V
<1>4. Max(V) \in V /\ \A v \in V : v <= Max(V)
  BY <1>2, LargestIn
<1>5. Max(V) \in V /\ \A q \in S : f[q] <= Max(V)
  BY <1>3, <1>4
<1> QED
  BY <1>5 DEF V

(* The larger of zero and a number.                                        *)
LEMMA AtLeastZero ==
  ASSUME NEW x \in Int
  PROVE  Max({0, x}) = IF x > 0 THEN x ELSE 0
<1> DEFINE m == IF x > 0 THEN x ELSE 0
<1>1. m \in Int /\ m \in {0, x} /\ \A y \in {0, x} : y \in Int /\ y <= m
  OBVIOUS
<1> HIDE DEF m
<1>2. Max({0, x}) \in {0, x} /\ \A y \in {0, x} : y <= Max({0, x})
  BY <1>1, LargestIn
<1>3. Max({0, x}) \in Int /\ Max({0, x}) <= m /\ m <= Max({0, x})
  BY <1>1, <1>2
<1>4. Max({0, x}) = m
  BY <1>1, <1>3
<1> QED
  BY <1>4 DEF m

-----------------------------------------------------------------------------
(* CreatorStats: the history of the tables.                                *)

(* What the tables hold.                                                   *)
Recorded ==
  /\ subject \in Subjects
  /\ days \in Charts[subject]
  /\ today \in Days
  /\ profile \in [Days -> Values[subject] \union {Null}]
  /\ posted \in Seq(Nat) /\ Len(posted) <= MaxPosts[subject]
  /\ snaps \in [Numbers -> [Days -> Readings[subject] \union {NoRow}]]

(* No reading is of a day to come.                                         *)
NothingAhead ==
  /\ \A d \in Days : profile[d] # Null => d <= today
  /\ \A p \in Numbers : \A d \in DaysOf(p) : d <= today

(* The inductive invariant: what the tables are after any scrapes.         *)
History == Recorded /\ NothingAhead

(* The bounds of a behaviour are numbers.                                  *)
LEMMA BoundsAreNumbers ==
  ASSUME subject \in Subjects
  PROVE  MaxDays[subject] \in Nat \ {0} /\ MaxPosts[subject] \in Nat
  BY StatsAssumption

(* A reading of a post is a row with numbers or NULL.                      *)
LEMMA RowsAreRows ==
  ASSUME subject \in Subjects, NEW row \in Readings[subject]
  PROVE  row # NoRow /\ row.views \in Nat \union {Null} /\ row.likes \in Nat \union {Null}
<1>1. row \in [views : Nat \union {Null}, likes : Nat \union {Null}]
  BY StatsAssumption
<1>2. row.views \in Nat \union {Null} /\ row.likes \in Nat \union {Null}
  BY <1>1
<1>3. row.views # NoRow.views
  BY <1>2 DEF NoRow, Null
<1> QED
  BY <1>2, <1>3

(* Posts that are found have numbers within the bound.                     *)
LEMMA PostsAreNumbers == Recorded => Posts \subseteq Numbers
<1> SUFFICES ASSUME Recorded PROVE Posts \subseteq Numbers
  OBVIOUS
<1>1. Len(posted) \in Nat /\ MaxPosts[subject] \in Nat /\ Len(posted) <= MaxPosts[subject]
  BY BoundsAreNumbers, LenProperties DEF Recorded
<1> QED
  BY <1>1 DEF Posts, Numbers

(* Empty tables are a history.                                             *)
LEMMA HistoryInitially == StatsInit => History
<1> SUFFICES ASSUME StatsInit PROVE History
  OBVIOUS
<1> USE DEF StatsInit
<1>1. MaxDays[subject] \in Nat \ {0} /\ MaxPosts[subject] \in Nat
  BY BoundsAreNumbers
<1>2. Recorded
  <2>1. today \in Days
    BY <1>1 DEF Days
  <2>2. posted \in Seq(Nat) /\ Len(posted) = 0
    OBVIOUS
  <2> QED
    BY <1>1, <2>1, <2>2 DEF Recorded
<1>3. \A p \in Numbers : DaysOf(p) = {}
  BY DEF DaysOf
<1>4. NothingAhead
  BY <1>3 DEF NothingAhead
<1> QED
  BY <1>2, <1>4 DEF History

(* Whatever is scraped, it remains one.                                    *)
LEMMA HistoryIsPreserved == History /\ [StatsNext]_tables => History'
<1> SUFFICES ASSUME History, [StatsNext]_tables PROVE History'
  OBVIOUS
<1>0. /\ subject' = subject /\ days' = days
      /\ MaxDays[subject] \in Nat \ {0} /\ MaxPosts[subject] \in Nat
  <2>1. subject' = subject /\ days' = days
    BY DEF StatsNext, tables, NextDay, ReadProfile, Publish, Scrape
  <2> QED
    BY <2>1, BoundsAreNumbers DEF History, Recorded
<1>01. Days' = Days /\ Numbers' = Numbers
  BY <1>0 DEF Days, Numbers
<1>1. CASE UNCHANGED tables
  <2>1. \A p : DaysOf(p)' = DaysOf(p)
    BY <1>1, <1>01 DEF tables, DaysOf
  <2> QED
    BY <1>1, <1>01, <2>1 DEF tables, History, Recorded, NothingAhead
<1>2. CASE NextDay
  <2>1. today' \in Days /\ today' = today + 1 /\ today \in Nat
    BY <1>2, <1>0 DEF NextDay, History, Recorded, Days
  <2>2. \A p : DaysOf(p)' = DaysOf(p) /\ DaysOf(p) \subseteq Days
    BY <1>2, <1>01 DEF NextDay, DaysOf
  <2>3. Recorded'
    BY <1>2, <1>0, <1>01, <2>1 DEF NextDay, History, Recorded
  <2>4. NothingAhead'
    BY <1>2, <1>0, <1>01, <2>1, <2>2 DEF NextDay, History, NothingAhead, Days
  <2> QED
    BY <2>3, <2>4 DEF History
<1>3. ASSUME NEW v \in Values[subject], ReadProfile(v) PROVE History'
  <2>1. \A p : DaysOf(p)' = DaysOf(p)
    BY <1>3, <1>01 DEF ReadProfile, DaysOf
  <2>2. Recorded'
    BY <1>3, <1>0, <1>01 DEF ReadProfile, History, Recorded
  <2>3. NothingAhead'
    <3>1. today \in Nat /\ today' = today /\ \A d \in Days : d # today => profile'[d] = profile[d]
      BY <1>3, <1>0 DEF ReadProfile, History, Recorded, Days
    <3> QED
      BY <3>1, <1>01, <2>1 DEF History, NothingAhead
  <2> QED
    BY <2>2, <2>3 DEF History
<1>4. ASSUME NEW d \in {0, today}, Publish(d) PROVE History'
  <2>1. \A p : DaysOf(p)' = DaysOf(p)
    BY <1>4, <1>01 DEF Publish, DaysOf
  <2>2. d \in Nat
    BY DEF History, Recorded, Days
  <2>3. posted' \in Seq(Nat) /\ Len(posted') <= MaxPosts[subject]
    BY <1>4, <2>2, <1>0, AppendProperties, LenProperties DEF Publish, History, Recorded
  <2>4. Recorded'
    BY <1>4, <1>0, <1>01, <2>3 DEF Publish, History, Recorded
  <2>5. NothingAhead'
    BY <1>4, <1>01, <2>1 DEF Publish, History, NothingAhead
  <2> QED
    BY <2>4, <2>5 DEF History
<1>5. ASSUME NEW p \in Posts, NEW row \in Readings[subject], Scrape(p, row) PROVE History'
  <2>1. p \in Numbers /\ today \in Days /\ today \in Nat
    BY PostsAreNumbers DEF History, Recorded, Days
  <2>2. row # NoRow
    BY RowsAreRows DEF History, Recorded
  <2>3. snaps' = [snaps EXCEPT ![p][today] = row]
    BY <1>5 DEF Scrape
  <2>4. DaysOf(p)' = DaysOf(p) \union {today}
    BY <2>1, <2>2, <2>3, <1>01 DEF DaysOf, History, Recorded
  <2>5. \A q \in Numbers \ {p} : DaysOf(q)' = DaysOf(q)
    BY <2>1, <2>3, <1>01 DEF DaysOf, History, Recorded
  <2>6. Recorded'
    BY <1>5, <1>0, <1>01, <2>1, <2>3 DEF Scrape, History, Recorded
  <2>7. NothingAhead'
    <3>1. \A d \in DaysOf(p)' : d <= today
      BY <2>1, <2>4 DEF History, NothingAhead
    <3> QED
      BY <1>5, <1>01, <2>5, <3>1 DEF Scrape, History, NothingAhead
  <2> QED
    BY <2>6, <2>7 DEF History
<1> QED
  BY <1>1, <1>2, <1>3, <1>4, <1>5 DEF StatsNext

-----------------------------------------------------------------------------
(* CreatorStats: the series of growth.                                     *)

(* What is stripped is a zero in front of everything, before a positive    *)
(* value.                                                                  *)
LEMMA StrippingIsRight ==
  ASSUME NEW series, \A d \in DOMAIN series : d \in Nat
  PROVE  LET D == DOMAIN series
             S == DOMAIN Stripped(series)
         IN /\ S \subseteq D
            /\ \A d \in S : Stripped(series)[d] = series[d]
            /\ \A d \in D : d \notin S <=>
                 /\ series[d] = 0
                 /\ \A e \in D : d <= e
                 /\ \E e \in D : d < e /\ series[e] > 0 /\ \A c \in D : d < c => e <= c
<1> DEFINE D == DOMAIN series
           S == DOMAIN Stripped(series)
           later(d) == {e \in D : d < e}
           phantom  == {d \in D : /\ series[d] = 0
                                  /\ \A e \in D : d <= e
                                  /\ later(d) # {}
                                  /\ series[Min(later(d))] > 0}
<1>1. Stripped(series) = [d \in D \ phantom |-> series[d]]
  BY DEF Stripped
<1>2. S = D \ phantom /\ \A d \in S : Stripped(series)[d] = series[d]
  BY <1>1
<1>3. ASSUME NEW d \in D, later(d) # {}
      PROVE  Min(later(d)) \in later(d) /\ \A e \in later(d) : Min(later(d)) <= e
  <2>1. \A e \in later(d) : e \in Int /\ 0 <= e
    OBVIOUS
  <2> HIDE DEF later
  <2> QED
    BY <2>1, <1>3, LeastOf
<1>4. ASSUME NEW d \in D
      PROVE  (later(d) # {} /\ series[Min(later(d))] > 0)
               <=> \E e \in D : d < e /\ series[e] > 0 /\ \A c \in D : d < c => e <= c
  <2>1. ASSUME later(d) # {} /\ series[Min(later(d))] > 0
        PROVE  \E e \in D : d < e /\ series[e] > 0 /\ \A c \in D : d < c => e <= c
    BY <2>1, <1>3
  <2>2. ASSUME NEW e \in D, d < e, series[e] > 0, \A c \in D : d < c => e <= c
        PROVE  later(d) # {} /\ series[Min(later(d))] > 0
    <3>1. e \in later(d)
      BY <2>2
    <3>2. Min(later(d)) = e
      <4> DEFINE m == Min(later(d))
      <4>1. later(d) # {}
        BY <3>1
      <4>2. m \in later(d) /\ \A c \in later(d) : m <= c
        BY <4>1, <1>3
      <4> HIDE DEF m
      <4>3. m \in Nat /\ e \in Nat /\ m <= e /\ e <= m
        BY <2>2, <3>1, <4>2
      <4> QED
        BY <4>3 DEF m
    <3>3. series[Min(later(d))] > 0
      BY <2>2, <3>2, Zenon
    <3> QED
      BY <3>1, <3>3
  <2> QED
    BY <2>1, <2>2
<1>5. \A d \in D : d \in phantom <=>
        /\ series[d] = 0
        /\ \A e \in D : d <= e
        /\ \E e \in D : d < e /\ series[e] > 0 /\ \A c \in D : d < c => e <= c
  BY <1>4
<1> HIDE DEF phantom
<1> QED
  BY <1>2, <1>5

(* The readings of a profile are integers, at least zero where there are   *)
(* any.                                                                    *)
LEMMA ReadingsAreNumbers ==
  ASSUME Recorded
  PROVE  /\ MaxDays[subject] \in Nat \ {0}
         /\ \A d \in Days : d \in Nat /\ 1 <= d /\ d <= MaxDays[subject]
         /\ \A d \in Days : profile[d] \in Int /\ (profile[d] # Null <=> profile[d] >= 0)
         /\ Charted \subseteq Days /\ Real \subseteq Charted /\ Broken \subseteq Charted
         /\ \A d \in Charted : d \in Nat /\ d <= MaxDays[subject] /\ profile[d] \in Nat
         /\ IsFiniteSet(Charted)
         /\ today \in Nat /\ days \in Nat /\ ChartStart \in Int
<1>1. MaxDays[subject] \in Nat \ {0}
  BY BoundsAreNumbers DEF Recorded
<1>2. \A d \in Days : profile[d] \in Nat \union {0 - 1}
  BY StatsAssumption DEF Recorded, Null
<1>3. days \in Nat
  BY StatsAssumption DEF Recorded
<1>4. today \in Nat
  BY <1>1 DEF Recorded, Days
<1>5. \A d \in Days : profile[d] \in Int /\ (profile[d] # Null <=> profile[d] >= 0)
  BY <1>2 DEF Null
<1>6. \A d \in Days : d \in Nat /\ 1 <= d /\ d <= MaxDays[subject]
  BY <1>1 DEF Days
<1>7. Charted \subseteq Days /\ Real \subseteq Charted /\ Broken \subseteq Charted
  BY DEF Charted, Real, Broken
<1>8. \A d \in Charted : d \in Nat /\ d <= MaxDays[subject] /\ profile[d] \in Nat
  BY <1>5, <1>6 DEF Charted
<1>9. IsFiniteSet(Charted)
  <2>1. IsFiniteSet(1 .. MaxDays[subject])
    BY <1>1, FS_Interval
  <2> QED
    BY <2>1, <1>7, FS_Subset DEF Days
<1> QED
  BY <1>1, <1>3, <1>4, <1>5, <1>6, <1>7, <1>8, <1>9 DEF ChartStart

(* One broken reading before genuine ones is told from them.               *)
Stripping == Real # {} /\ \E d : Broken = {d}

(* The readings before the first genuine one are zeros, and all there is   *)
(* before it; and whether there are several.                               *)
LEMMA BrokenReadings ==
  ASSUME Recorded
  PROVE  /\ Real # {} => /\ Min(Real) \in Real
                         /\ \A d \in Real : Min(Real) <= d
                         /\ \A d \in Charted : d \in Broken <=> d < Min(Real)
         /\ \A d \in Broken : profile[d] = 0
         /\ Cardinality(Broken) = 1 <=> \E d : Broken = {d}
         /\ Cardinality(Broken) > 1 <=> Broken # {} /\ ~ \E d : Broken = {d}
<1>1. \A d \in Charted : d \in Nat /\ profile[d] \in Nat
  BY ReadingsAreNumbers
<1>2. Real \subseteq Charted /\ Broken \subseteq Charted
  BY ReadingsAreNumbers
<1>3. ASSUME Real # {}
      PROVE  /\ Min(Real) \in Real
             /\ \A d \in Real : Min(Real) <= d
             /\ \A d \in Charted : d \in Broken <=> d < Min(Real)
  <2>1. \A d \in Real : d \in Int /\ 0 <= d
    BY <1>1, <1>2
  <2>2. Min(Real) \in Real /\ \A d \in Real : Min(Real) <= d
    BY <2>1, <1>3, LeastOf
  <2>3. \A d \in Charted : d \in Broken <=> \A e \in Real : d < e
    BY DEF Broken
  <2>4. ASSUME NEW d \in Charted, d < Min(Real) PROVE d \in Broken
    BY <2>1, <2>2, <2>3, <2>4, <1>1
  <2> QED
    BY <2>2, <2>3, <2>4
<1>4. ASSUME NEW d \in Broken PROVE profile[d] = 0
  <2>1. d \in Charted /\ d \in Nat /\ profile[d] \in Nat /\ (d \in Real => d < d)
    BY <1>1, <1>2 DEF Broken
  <2> QED
    BY <2>1 DEF Real
<1>5. IsFiniteSet(Broken)
  BY <1>2, ReadingsAreNumbers, FS_Subset
<1>6. Cardinality(Broken) = 1 <=> \E d : Broken = {d}
  BY <1>5, FS_Singleton
<1>7. Cardinality(Broken) \in Nat /\ (Cardinality(Broken) = 0 <=> Broken = {})
  BY <1>5, FS_CardinalityType, FS_EmptySet
<1>8. Cardinality(Broken) > 1 <=> Broken # {} /\ ~ \E d : Broken = {d}
  BY <1>6, <1>7
<1> QED
  BY <1>3, <1>4, <1>6, <1>8

(* The series of growth has the readings of the chart, less a broken one   *)
(* that is alone.                                                          *)
LEMMA GrowthSeriesIsCharted ==
  ASSUME Recorded
  PROVE  /\ DOMAIN GrowthSeries = IF Stripping THEN Charted \ Broken ELSE Charted
         /\ \A d \in DOMAIN GrowthSeries : GrowthSeries[d] = profile[d]
<1> DEFINE phantom(d) == /\ profile[d] = 0
                         /\ \A e \in Charted : d <= e
                         /\ \E e \in Charted : d < e /\ profile[e] > 0 /\ \A c \in Charted : d < c => e <= c
<1>1. DOMAIN RawSeries = Charted /\ \A d \in Charted : RawSeries[d] = profile[d]
  BY DEF RawSeries, Charted
<1>2. \A d \in Charted : d \in Nat /\ profile[d] \in Nat
  BY ReadingsAreNumbers
<1>3. /\ DOMAIN GrowthSeries \subseteq Charted
      /\ \A d \in DOMAIN GrowthSeries : GrowthSeries[d] = profile[d]
      /\ \A d \in Charted : d \notin DOMAIN GrowthSeries <=> phantom(d)
  <2> HIDE DEF RawSeries
  <2>1. LET D == DOMAIN RawSeries
            S == DOMAIN GrowthSeries
        IN /\ S \subseteq D
           /\ \A d \in S : GrowthSeries[d] = RawSeries[d]
           /\ \A d \in D : d \notin S <=>
                /\ RawSeries[d] = 0
                /\ \A e \in D : d <= e
                /\ \E e \in D : d < e /\ RawSeries[e] > 0 /\ \A c \in D : d < c => e <= c
    BY <1>1, <1>2, StrippingIsRight DEF GrowthSeries
  <2> HIDE DEF GrowthSeries
  <2> QED
    BY <2>1, <1>1
<1>4. Real \subseteq Charted /\ Broken \subseteq Charted /\ \A d \in Charted : d \in Real <=> profile[d] > 0
  BY ReadingsAreNumbers DEF Real
<1>5. ASSUME NEW d \in Charted, phantom(d) PROVE Stripping /\ Broken = {d}
  <2>1. PICK e \in Charted : d < e /\ profile[e] > 0 /\ \A c \in Charted : d < c => e <= c
    BY <1>5
  <2>2. e \in Real /\ d \notin Real
    BY <2>1, <1>4, <1>5
  <2>3. d \in Broken
    <3>1. ASSUME NEW r \in Real PROVE d < r
      BY <2>2, <1>2, <1>4, <1>5
    <3> QED
      BY <3>1 DEF Broken
  <2>4. ASSUME NEW x \in Broken PROVE x = d
    <3>1. x \in Charted /\ x < e
      BY <2>2 DEF Broken
    <3> QED
      BY <3>1, <2>1, <1>2, <1>5
  <2> QED
    BY <2>2, <2>3, <2>4 DEF Stripping
<1>6. ASSUME NEW d, Stripping, Broken = {d} PROVE phantom(d)
  <2>1. /\ Real # {} /\ Min(Real) \in Real
        /\ \A c \in Charted : c \in Broken <=> c < Min(Real)
        /\ profile[d] = 0
    BY <1>6, BrokenReadings DEF Stripping
  <2> DEFINE r == Min(Real)
  <2>2. r \in Charted /\ profile[r] > 0 /\ d \in Charted /\ d < r
    BY <2>1, <1>4, <1>6
  <2>3. \A c \in Charted : c < r <=> c = d
    BY <2>1, <1>6
  <2> HIDE DEF r
  <2>4. \A c \in Charted : d <= c /\ (d < c => r <= c)
    BY <2>2, <2>3, <1>2
  <2> QED
    BY <2>1, <2>2, <2>4
<1> HIDE DEF phantom
<1>7. CASE Stripping
  <2>1. PICK d : Broken = {d}
    BY <1>7 DEF Stripping
  <2>2. \A c \in Charted : c \notin DOMAIN GrowthSeries <=> c = d
    BY <2>1, <1>3, <1>5, <1>6, <1>7
  <2> QED
    BY <2>1, <2>2, <1>3, <1>7
<1>8. CASE ~ Stripping
  BY <1>3, <1>5, <1>8
<1> QED
  BY <1>3, <1>7, <1>8

-----------------------------------------------------------------------------
(* CreatorStats: milestones.                                               *)

(* All readings before day d are below t if the highest is.                *)
LEMMA HighWaterIsHighest ==
  ASSUME Recorded, NEW d \in DOMAIN GrowthSeries, NEW t \in Nat,
         \E c \in DOMAIN GrowthSeries : c < d
  PROVE  HighWater(GrowthSeries, d) < t <=> \A c \in DOMAIN GrowthSeries : c < d => GrowthSeries[c] < t
<1> DEFINE s == GrowthSeries
           E == {c \in DOMAIN s : c < d}
           V == {s[e] : e \in E}
<1>1. DOMAIN s \subseteq Charted /\ \A c \in DOMAIN s : s[c] = profile[c]
  BY GrowthSeriesIsCharted
<1>2. \A c \in DOMAIN s : s[c] \in Int
  BY <1>1, ReadingsAreNumbers
<1>3. IsFiniteSet(E)
  BY <1>1, ReadingsAreNumbers, FS_Subset
<1>4. HighWater(s, d) = Max(V)
  BY DEF HighWater
<1> HIDE DEF s
<1>5. E # {} /\ \A c \in E : s[c] \in Int
  BY <1>2 DEF s
<1>6. \A c : c \in E <=> c \in DOMAIN s /\ c < d
  OBVIOUS
<1> HIDE DEF E
<1>7. Max(V) \in V /\ \A c \in E : s[c] <= Max(V)
  BY <1>3, <1>5, LargestValue
<1>8. Max(V) \in Int /\ \E c \in E : s[c] = Max(V)
  BY <1>5, <1>7
<1> HIDE DEF V
<1>9. Max(V) < t <=> \A c \in E : s[c] < t
  BY <1>5, <1>7, <1>8
<1>10. HighWater(s, d) < t <=> \A c \in DOMAIN s : c < d => s[c] < t
  BY <1>4, <1>6, <1>9
<1> QED
  BY <1>10 DEF s

(* Milestones are those that the whole history shows.                      *)
LEMMA MilestonesHold ==
  ASSUME Recorded
  PROVE  MilestonesAreReal
<1> DEFINE s == GrowthSeries
           right(d, t) == /\ profile[d] >= t
                          /\ \A e \in Real : profile[e] >= t => d <= e
                          /\ profile[Min(Real)] < t \/ Cardinality(Broken) > 1
<1>1. /\ DOMAIN s = IF Stripping THEN Charted \ Broken ELSE Charted
      /\ \A d \in DOMAIN s : s[d] = profile[d]
  BY GrowthSeriesIsCharted
<1>2. \A d \in Charted : d \in Nat /\ profile[d] \in Nat /\ (d \in Real <=> profile[d] > 0)
  BY ReadingsAreNumbers DEF Real
<1>3. \A t \in Thresholds : t \in Nat /\ t > 0
  BY StatsAssumption
<1>4. Real # {} => /\ Min(Real) \in Real
                   /\ \A d \in Real : Min(Real) <= d
                   /\ \A d \in Charted : d \in Broken <=> d < Min(Real)
  BY BrokenReadings
<1>5. /\ Cardinality(Broken) > 1 <=> Broken # {} /\ ~ \E d : Broken = {d}
      /\ Stripping => Cardinality(Broken) = 1
      /\ Stripping <=> Real # {} /\ \E d : Broken = {d}
  BY BrokenReadings DEF Stripping
<1>6. DOMAIN s \subseteq Charted /\ Real \subseteq Charted /\ Real \subseteq DOMAIN s
  <2>1. Real \subseteq Charted
    BY ReadingsAreNumbers
  <2>2. \A d \in Real : d \notin Broken
    BY <2>1, <1>2 DEF Broken
  <2> QED
    BY <2>1, <2>2, <1>1
<1> HIDE DEF s
<1>7. ASSUME NEW d \in DOMAIN s, NEW t \in Thresholds, NEW c \in DOMAIN s, c < d,
             HighWater(s, d) < t, t <= s[d]
      PROVE  d \in Real /\ right(d, t)
  <2>1. \A e \in DOMAIN s : e < d => s[e] < t
    BY <1>3, <1>7, HighWaterIsHighest DEF s
  <2>2. d \in Real /\ profile[d] >= t /\ d \in Nat
    <3>1. d \in Charted /\ s[d] = profile[d]
      BY <1>1, <1>6
    <3> QED
      BY <3>1, <1>2, <1>3, <1>7
  <2>3. ASSUME NEW e \in Real, profile[e] >= t PROVE d <= e
    BY <2>1, <2>2, <2>3, <1>1, <1>2, <1>3, <1>6
  <2>4. ASSUME ~ Cardinality(Broken) > 1 PROVE profile[Min(Real)] < t
    <3>1. Real # {} /\ Min(Real) \in Real /\ Min(Real) <= d /\ Min(Real) \in Charted
      BY <2>2, <1>4, <1>6
    <3>2. Min(Real) # d
      <4>1. ASSUME Min(Real) = d PROVE FALSE
        <5>1. c \in Broken /\ c \in Charted
          BY <4>1, <1>4, <1>6, <1>7, <3>1
        <5>2. Stripping
          BY <5>1, <2>4, <3>1, <1>5
        <5> QED
          BY <5>1, <5>2, <1>1
      <4> QED
        BY <4>1
    <3>3. Min(Real) < d /\ Min(Real) \in DOMAIN s
      BY <3>1, <3>2, <2>2, <1>2, <1>6
    <3> QED
      BY <3>3, <2>1, <1>1
  <2> QED
    BY <2>2, <2>3, <2>4
<1>8. ASSUME NEW d \in Real, NEW t \in Thresholds, right(d, t)
      PROVE  /\ d \in DOMAIN s
             /\ \E c \in DOMAIN s : c < d
             /\ HighWater(s, d) < t
             /\ t <= s[d]
  <2>1. d \in DOMAIN s /\ t <= s[d] /\ d \in Nat
    BY <1>1, <1>2, <1>3, <1>6, <1>8
  <2>2. Min(Real) \in Real /\ Min(Real) <= d /\ Min(Real) \in Nat
    BY <1>2, <1>4, <1>6
  <2>3. \E c \in DOMAIN s : c < d
    <3>1. CASE profile[Min(Real)] < t
      <4>1. Min(Real) # d
        BY <3>1, <1>2, <1>3, <1>6, <1>8
      <4> QED
        BY <4>1, <2>1, <2>2, <1>6
    <3>2. CASE Cardinality(Broken) > 1
      <4>1. PICK c \in Broken : TRUE
        BY <3>2, <1>5
      <4>2. c \in Charted /\ c < d
        BY <4>1 DEF Broken
      <4>3. c \in DOMAIN s
        BY <3>2, <4>2, <1>1, <1>5
      <4> QED
        BY <4>2, <4>3
    <3> QED
      BY <3>1, <3>2, <1>8
  <2>4. ASSUME NEW e \in DOMAIN s, e < d PROVE s[e] < t
    <3>1. profile[e] \in Nat /\ s[e] = profile[e] /\ e \in Nat /\ t \in Nat /\ t > 0
      BY <1>1, <1>2, <1>3, <1>6
    <3>2. profile[e] >= t => e \in Real
      BY <3>1, <1>2, <1>6
    <3> QED
      BY <3>1, <3>2, <2>1, <2>4, <1>8
  <2>5. HighWater(s, d) < t
    BY <2>1, <2>3, <2>4, <1>3, HighWaterIsHighest DEF s
  <2> QED
    BY <2>1, <2>3, <2>5
<1>9. Milestones =
        {e \in (DOMAIN s) \X Thresholds :
           /\ \E d \in DOMAIN s : d < e[1]
           /\ HighWater(s, e[1]) < e[2]
           /\ e[2] <= s[e[1]]}
  BY DEF Milestones, s
<1> HIDE DEF right
<1>10. Milestones = {e \in Real \X Thresholds : right(e[1], e[2])}
  <2>1. ASSUME NEW e \in Milestones PROVE e \in Real \X Thresholds /\ right(e[1], e[2])
    <3>1. PICK d \in DOMAIN s, t \in Thresholds : e = <<d, t>>
      BY <2>1, <1>9
    <3>2. d \in Real /\ right(d, t)
      BY <2>1, <3>1, <1>7, <1>9
    <3> QED
      BY <3>1, <3>2
  <2>2. ASSUME NEW e \in Real \X Thresholds, right(e[1], e[2]) PROVE e \in Milestones
    <3>1. PICK d \in Real, t \in Thresholds : e = <<d, t>>
      OBVIOUS
    <3>2. right(d, t)
      BY <2>2, <3>1
    <3> QED
      BY <3>1, <3>2, <1>8, <1>9
  <2> QED
    BY <2>1, <2>2
<1> QED
  BY <1>10 DEF MilestonesAreReal, right

-----------------------------------------------------------------------------
(* CreatorStats: interpolation.                                            *)

(* The rounded point of day c on the line from x on day a to y on day b.   *)
Line(x, y, a, b, c) == Rounded(x * (b - a) + (y - x) * (c - a), b - a)

(* A line goes through its ends.                                           *)
LEMMA LineEnds ==
  ASSUME NEW x \in Int, NEW y \in Int, NEW a \in Int, NEW b \in Int, a < b
  PROVE  Line(x, y, a, b, a) = x /\ Line(x, y, a, b, b) = y
<1> DEFINE k == b - a
<1>1. k \in Nat \ {0}
  OBVIOUS
<1>2. x * k + (y - x) * (a - a) = x * k /\ x * k + (y - x) * (b - a) = y * k
  OBVIOUS
<1>3. Rounded(x * k, k) = x /\ Rounded(y * k, k) = y
  BY <1>1, RoundedExactly
<1> QED
  BY <1>2, <1>3 DEF Line

(* Its points are integers.                                                *)
LEMMA LineIsInteger ==
  ASSUME NEW x \in Int, NEW y \in Int, NEW a \in Int, NEW b \in Int, a < b, NEW c \in Int
  PROVE  Line(x, y, a, b, c) \in Int
<1>1. b - a \in Nat \ {0} /\ x * (b - a) \in Int /\ (y - x) * (c - a) \in Int
  OBVIOUS
<1>2. x * (b - a) + (y - x) * (c - a) \in Int
  BY <1>1
<1> QED
  BY <1>1, <1>2, RoundedIsInteger DEF Line

(* The points of a line that rises are in order, also when rounded.        *)
LEMMA LinesRise ==
  ASSUME NEW x \in Int, NEW y \in Int, x <= y,
         NEW a \in Int, NEW b \in Int, a < b,
         NEW d \in Int, NEW e \in Int, a <= d, d <= e
  PROVE  Line(x, y, a, b, d) \in Int /\ Line(x, y, a, b, d) <= Line(x, y, a, b, e)
<1> DEFINE k == b - a
           num(c) == x * k + (y - x) * (c - a)
<1>1. k \in Nat \ {0} /\ y - x \in Nat /\ d - a \in Int /\ e - a \in Int /\ d - a <= e - a
  OBVIOUS
<1>2. (y - x) * (d - a) <= (y - x) * (e - a)
  BY <1>1, ProductsGrow
<1>3. num(d) \in Int /\ num(e) \in Int /\ num(d) <= num(e)
  <2>1. x * k \in Int /\ (y - x) * (d - a) \in Int /\ (y - x) * (e - a) \in Int
    OBVIOUS
  <2> QED
    BY <2>1, <1>2
<1> QED
  BY <1>1, <1>3, RoundedIsInteger, RoundedKeepsOrder DEF Line

(* So are those of a line that falls.                                      *)
LEMMA LinesFall ==
  ASSUME NEW x \in Int, NEW y \in Int, y <= x,
         NEW a \in Int, NEW b \in Int, a < b,
         NEW d \in Int, NEW e \in Int, a <= d, d <= e
  PROVE  Line(x, y, a, b, e) <= Line(x, y, a, b, d)
<1> DEFINE k == b - a
           num(c) == x * k + (y - x) * (c - a)
<1>1. k \in Nat \ {0} /\ x - y \in Nat /\ d - a \in Int /\ e - a \in Int /\ d - a <= e - a
  OBVIOUS
<1>2. (x - y) * (d - a) <= (x - y) * (e - a)
  BY <1>1, ProductsGrow
<1>3. /\ (y - x) * (d - a) = 0 - (x - y) * (d - a)
      /\ (y - x) * (e - a) = 0 - (x - y) * (e - a)
  OBVIOUS
<1>4. num(d) \in Int /\ num(e) \in Int /\ num(e) <= num(d)
  <2>1. x * k \in Int /\ (x - y) * (d - a) \in Int /\ (x - y) * (e - a) \in Int
    OBVIOUS
  <2> QED
    BY <2>1, <1>2, <1>3
<1> QED
  BY <1>1, <1>4, RoundedKeepsOrder DEF Line

(* The ends of a series, and the dates around a day in it.                 *)
LEMMA DatesAround ==
  ASSUME NEW D, D # {}, NEW m \in Nat, \A d \in D : d \in Nat /\ d <= m
  PROVE  /\ Min(D) \in D /\ Max(D) \in D /\ \A d \in D : Min(D) <= d /\ d <= Max(D)
         /\ \A d \in Min(D) .. Max(D) :
              LET b == Max({e \in D : e <= d})
              IN b \in D /\ b <= d /\ \A e \in D : e <= d => e <= b
         /\ \A d \in Min(D) .. Max(D) : d # Max(D) =>
              LET a == Min({e \in D : d < e})
              IN a \in D /\ d < a /\ \A e \in D : d < e => a <= e
<1>1. /\ \A d \in D : d \in Int /\ 0 <= d /\ d <= m
      /\ m \in Int
  OBVIOUS
<1>2. Min(D) \in D /\ Max(D) \in D /\ \A d \in D : Min(D) <= d /\ d <= Max(D)
  BY <1>1, LeastOf, LargestIn
<1>3. ASSUME NEW d \in Min(D) .. Max(D)
      PROVE  LET b == Max({e \in D : e <= d})
             IN b \in D /\ b <= d /\ \A e \in D : e <= d => e <= b
  <2> DEFINE E == {e \in D : e <= d}
  <2>1. E # {} /\ \A e \in E : e \in Int /\ e <= m
    BY <1>1, <1>2
  <2>2. \A e \in D : e \in E <=> e <= d
    OBVIOUS
  <2>3. E \subseteq D
    OBVIOUS
  <2> HIDE DEF E
  <2>4. Max(E) \in E /\ \A e \in E : e <= Max(E)
    BY <1>1, <2>1, LargestIn
  <2>5. Max(E) \in D /\ Max(E) <= d /\ \A e \in D : e <= d => e <= Max(E)
    BY <2>2, <2>3, <2>4
  <2> QED
    BY <2>5 DEF E
<1>4. ASSUME NEW d \in Min(D) .. Max(D), d # Max(D)
      PROVE  LET a == Min({e \in D : d < e})
             IN a \in D /\ d < a /\ \A e \in D : d < e => a <= e
  <2> DEFINE E == {e \in D : d < e}
  <2>1. E # {} /\ \A e \in E : e \in Int /\ 0 <= e
    BY <1>1, <1>2, <1>4
  <2>2. \A e \in D : e \in E <=> d < e
    OBVIOUS
  <2>3. E \subseteq D
    OBVIOUS
  <2> HIDE DEF E
  <2>4. Min(E) \in E /\ \A e \in E : Min(E) <= e
    BY <1>1, <2>1, LeastOf
  <2>5. Min(E) \in D /\ d < Min(E) /\ \A e \in D : d < e => Min(E) <= e
    BY <2>2, <2>3, <2>4
  <2> QED
    BY <2>5 DEF E
<1> QED
  BY <1>2, <1>3, <1>4

(* A series is interpolated along the lines between its readings.          *)
LEMMA InterpolationRuns ==
  ASSUME NEW s, NEW m \in Nat, DOMAIN s # {},
         \A d \in DOMAIN s : d \in Nat /\ d <= m /\ s[d] \in Int
  PROVE  LET F == Interpolated(s)
             first == Min(DOMAIN s)
             last == Max(DOMAIN s)
         IN /\ DOMAIN F = first .. last
            /\ \A d \in DOMAIN s : F[d] = s[d]
            /\ \A d \in first .. last : F[d] \in Int
            /\ \A d \in first + 1 .. last : \E a, b \in DOMAIN s :
                 /\ a <= d - 1 /\ d <= b /\ \A e \in DOMAIN s : e < b => e <= a
                 /\ F[d - 1] = Line(s[a], s[b], a, b, d - 1)
                 /\ F[d] = Line(s[a], s[b], a, b, d)
<1> DEFINE D == DOMAIN s
           F == Interpolated(s)
           first == Min(D)
           last == Max(D)
           before(d) == Max({e \in D : e <= d})
           after(d)  == Min({e \in D : d < e})
           at(a, b, d) == Line(s[a], s[b], a, b, d)
<1>1. F = [d \in first .. last |-> IF d = last THEN s[d] ELSE at(before(d), after(d), d)]
  BY DEF Interpolated, Between, Line
<1>2. /\ first \in D /\ last \in D /\ \A d \in D : first <= d /\ d <= last
      /\ \A d \in first .. last : before(d) \in D /\ before(d) <= d /\ \A e \in D : e <= d => e <= before(d)
      /\ \A d \in first .. last : d # last => after(d) \in D /\ d < after(d) /\ \A e \in D : d < e => after(d) <= e
  BY DatesAround
<1>3. \A d \in D : d \in Nat /\ s[d] \in Int
  OBVIOUS
<1>4. ASSUME NEW a \in D, NEW b \in D, a < b
      PROVE  at(a, b, a) = s[a] /\ at(a, b, b) = s[b] /\ \A d \in Int : at(a, b, d) \in Int
  BY <1>3, <1>4, LineEnds, LineIsInteger
<1> HIDE DEF F, first, last, before, after, at
<1>5. ASSUME NEW d \in first .. last, d # last
      PROVE  /\ F[d] = at(before(d), after(d), d)
             /\ before(d) \in D /\ after(d) \in D
             /\ before(d) <= d /\ d < after(d) /\ before(d) < after(d)
             /\ d \in Int
  BY <1>1, <1>2, <1>3, <1>5
<1>6. F[last] = s[last] /\ DOMAIN F = first .. last
  BY <1>1, <1>2, <1>3
<1>7. ASSUME NEW d \in first .. last PROVE F[d] \in Int
  <2>1. CASE d = last
    <3>1. s[last] \in Int
      BY <1>2, <1>3
    <3> QED
      BY <2>1, <3>1, <1>6
  <2>2. CASE d # last
    BY <2>2, <1>4, <1>5
  <2> QED
    BY <2>1, <2>2
<1>8. ASSUME NEW d \in D PROVE F[d] = s[d]
  <2>1. d \in first .. last
    BY <1>2, <1>3
  <2>2. CASE d = last
    BY <2>2, <1>6
  <2>3. CASE d # last
    <3>1. before(d) = d
      <4>1. before(d) \in D /\ before(d) <= d /\ d <= before(d)
        BY <2>1, <1>2, <1>3
      <4> QED
        BY <4>1, <1>3
    <3>2. at(d, after(d), d) = s[d]
      BY <2>1, <2>3, <1>2, <1>4
    <3> QED
      BY <2>1, <2>3, <3>1, <3>2, <1>5
  <2> QED
    BY <2>2, <2>3
<1>9. ASSUME NEW d \in first + 1 .. last
      PROVE  \E a, b \in D : /\ a <= d - 1 /\ d <= b /\ \A e \in D : e < b => e <= a
                             /\ F[d - 1] = at(a, b, d - 1)
                             /\ F[d] = at(a, b, d)
  <2>1. d \in first .. last /\ d - 1 \in first .. last /\ d - 1 # last /\ d \in Int
    BY <1>2, <1>3
  <2> DEFINE a == before(d - 1)
             b == after(d - 1)
  <2>2. /\ F[d - 1] = at(a, b, d - 1) /\ a \in D /\ b \in D /\ a < b
        /\ a <= d - 1 /\ d - 1 < b /\ d <= b /\ a <= d
        /\ a \in Int /\ b \in Int /\ d - 1 \in Int
    BY <2>1, <1>3, <1>5
  <2>3. (\A e \in D : e <= d - 1 => e <= a) /\ (\A e \in D : d - 1 < e => b <= e)
    BY <2>1, <1>2
  <2> HIDE DEF a, b
  <2>4. \A e \in D : e < b => e <= a
    BY <2>1, <2>2, <2>3, <1>3
  <2>5. CASE d \in D
    <3>1. b = d
      BY <2>1, <2>2, <2>3, <2>5
    <3>2. at(a, b, b) = s[b]
      BY <2>2, <1>4
    <3> QED
      BY <2>2, <2>4, <2>5, <3>1, <3>2, <1>8
  <2>6. CASE d \notin D
    <3>1. d # last
      BY <2>6, <1>2
    <3>2. before(d) = a
      <4>1. before(d) \in D /\ before(d) <= d /\ \A e \in D : e <= d => e <= before(d)
        BY <2>1, <1>2
      <4>2. before(d) # d
        BY <2>6, <4>1
      <4>3. before(d) \in Int /\ before(d) <= a /\ a <= before(d)
        BY <4>1, <4>2, <2>1, <2>2, <2>3, <1>3
      <4> QED
        BY <4>3, <2>2
    <3>3. after(d) = b
      <4>1. after(d) \in D /\ d < after(d) /\ \A e \in D : d < e => after(d) <= e
        BY <2>1, <3>1, <1>2
      <4>2. b # d
        BY <2>2, <2>6
      <4>3. after(d) \in Int /\ b <= after(d) /\ after(d) <= b
        BY <4>1, <4>2, <2>1, <2>2, <2>3, <1>3
      <4> QED
        BY <4>3, <2>2
    <3>4. F[d] = at(a, b, d)
      BY <2>1, <3>1, <3>2, <3>3, <1>5
    <3> QED
      BY <2>2, <2>4, <3>4
  <2> QED
    BY <2>5, <2>6
<1>10. /\ DOMAIN F = first .. last
       /\ \A d \in D : F[d] = s[d]
       /\ \A d \in first .. last : F[d] \in Int
       /\ \A d \in first + 1 .. last : \E a, b \in D :
            /\ a <= d - 1 /\ d <= b /\ \A e \in D : e < b => e <= a
            /\ F[d - 1] = Line(s[a], s[b], a, b, d - 1)
            /\ F[d] = Line(s[a], s[b], a, b, d)
  BY <1>6, <1>7, <1>8, <1>9 DEF at
<1> QED
  BY <1>10 DEF F, first, last

-----------------------------------------------------------------------------
(* CreatorStats: what is paid for.                                         *)

(* The last of the days that are no later than i, and of those before it.  *)
LEMMA DatesBefore ==
  ASSUME NEW D, \A d \in D : d \in Nat, NEW i \in Int
  PROVE  /\ (\E e \in D : e <= i) =>
              LET k == Max({e \in D : e <= i})
              IN k \in D /\ k <= i /\ \A e \in D : e <= i => e <= k
         /\ (\E e \in D : e < i) =>
              LET k == Max({e \in D : e < i})
              IN k \in D /\ k < i /\ \A e \in D : e < i => e <= k
<1>1. ASSUME NEW E, E \subseteq D, E # {}, \A e \in E : e <= i
      PROVE  Max(E) \in E /\ \A e \in E : e <= Max(E)
  <2>1. \A e \in E : e \in Int /\ e <= i
    BY <1>1
  <2> QED
    BY <2>1, <1>1, LargestIn
<1>2. ASSUME \E e \in D : e <= i
      PROVE  LET k == Max({e \in D : e <= i})
             IN k \in D /\ k <= i /\ \A e \in D : e <= i => e <= k
  <2> DEFINE E == {e \in D : e <= i}
  <2>1. E \subseteq D /\ E # {} /\ \A e \in E : e <= i
    BY <1>2
  <2>2. \A e \in D : e <= i => e \in E
    OBVIOUS
  <2> HIDE DEF E
  <2>3. Max(E) \in D /\ Max(E) <= i /\ \A e \in D : e <= i => e <= Max(E)
    BY <2>1, <2>2, <1>1
  <2> QED
    BY <2>3 DEF E
<1>3. ASSUME \E e \in D : e < i
      PROVE  LET k == Max({e \in D : e < i})
             IN k \in D /\ k < i /\ \A e \in D : e < i => e <= k
  <2> DEFINE E == {e \in D : e < i}
  <2>1. E \subseteq D /\ E # {} /\ \A e \in E : e <= i /\ e < i
    BY <1>3
  <2>2. \A e \in D : e < i => e \in E
    OBVIOUS
  <2> HIDE DEF E
  <2>3. Max(E) \in D /\ Max(E) < i /\ \A e \in D : e < i => e <= Max(E)
    BY <2>1, <2>2, <1>1
  <2> QED
    BY <2>3 DEF E
<1> QED
  BY <1>2, <1>3

(* A number, if it is positive.                                            *)
Gain(x) == IF x > 0 THEN x ELSE 0

(* What series s rose on day d from the reading before.                    *)
RiseOf(s, d) ==
  IF d \in DOMAIN s /\ \E e \in DOMAIN s : e < d
  THEN Gain(s[d] - s[Max({e \in DOMAIN s : e < d})]) ELSE 0

(* Day by day, what is paid for is what the series rose; between readings  *)
(* some of the next rise is paid for ahead.                                *)
LEMMA PaymentsAddUp ==
  ASSUME NEW s, NEW n \in Nat, DOMAIN s # {}, DOMAIN s \subseteq 1 .. n,
         \A d \in DOMAIN s : s[d] \in Int,
         NEW paid,
         \A i \in 1 .. n :
           paid[i] = LET F == Interpolated(s)
                     IN IF i \in DOMAIN F /\ i - 1 \in DOMAIN F /\ F[i] >= F[i - 1]
                        THEN F[i] - F[i - 1] ELSE 0,
         NEW risen, \A i \in 1 .. n : risen[i] = RiseOf(s, i)
  PROVE  Total(paid, n) = Total(risen, n)
<1> DEFINE D == DOMAIN s
           F == Interpolated(s)
           first == Min(D)
           last == Max(D)
           known(i) == Max({e \in D : e <= i})
           P == [i \in 0 .. n |-> IF first <= i /\ i <= last THEN Gain(F[i] - s[known(i)]) ELSE 0]
<1>1. \A d \in D : d \in Nat /\ 1 <= d /\ d <= n /\ s[d] \in Int
  OBVIOUS
<1>2. /\ DOMAIN F = first .. last
      /\ \A d \in D : F[d] = s[d]
      /\ \A d \in first .. last : F[d] \in Int
      /\ \A d \in first + 1 .. last : \E a, b \in D :
           /\ a <= d - 1 /\ d <= b /\ \A e \in D : e < b => e <= a
           /\ F[d - 1] = Line(s[a], s[b], a, b, d - 1)
           /\ F[d] = Line(s[a], s[b], a, b, d)
  BY <1>1, InterpolationRuns
<1>3. first \in D /\ last \in D /\ \A d \in D : first <= d /\ d <= last
  BY <1>1, DatesAround
<1>4. first \in Int /\ last \in Int /\ 1 <= first /\ first <= last /\ last <= n
  BY <1>1, <1>3
<1>5. ASSUME NEW i \in Int, first <= i
      PROVE  known(i) \in D /\ known(i) <= i /\ \A e \in D : e <= i => e <= known(i)
  BY <1>1, <1>3, <1>5, DatesBefore
<1>6. \A i \in 1 .. n :
        paid[i] = IF i \in DOMAIN F /\ i - 1 \in DOMAIN F /\ F[i] >= F[i - 1] THEN F[i] - F[i - 1] ELSE 0
  OBVIOUS
<1> HIDE DEF D, F, first, last, known
<1>7. ASSUME NEW d \in D PROVE known(d) = d
  <2>1. d \in Int /\ first <= d
    BY <1>1, <1>3
  <2>2. known(d) \in D /\ known(d) <= d /\ d <= known(d)
    BY <2>1, <1>5
  <2>3. known(d) \in Int
    BY <2>2, <1>1
  <2> QED
    BY <2>1, <2>2, <2>3
<1>8. \A i \in 0 .. n : P[i] \in Int
  <2>1. ASSUME NEW i \in 0 .. n, first <= i, i <= last PROVE F[i] - s[known(i)] \in Int
    <3>1. F[i] \in Int /\ s[known(i)] \in Int
      BY <2>1, <1>1, <1>2, <1>4, <1>5
    <3> QED
      BY <3>1
  <2> QED
    BY <2>1 DEF Gain
<1>9. \A d \in D : d \in 0 .. n /\ P[d] = 0
  <2>1. ASSUME NEW d \in D PROVE d \in 0 .. n /\ P[d] = 0
    <3>1. d \in 0 .. n /\ F[d] - s[known(d)] = 0
      BY <1>1, <1>2, <1>7
    <3> QED
      BY <3>1 DEF Gain
  <2> QED
    BY <2>1
<1>10. \A i \in 0 .. n : P[i] = IF first <= i /\ i <= last THEN Gain(F[i] - s[known(i)]) ELSE 0
  OBVIOUS
<1> HIDE DEF P
<1>11. ASSUME NEW i \in 1 .. n PROVE paid[i] - risen[i] = P[i] - P[i - 1] /\ paid[i] \in Int /\ risen[i] \in Int
  <2>1. i \in 0 .. n /\ i - 1 \in 0 .. n /\ i \in Int /\ i - 1 \in Int
    OBVIOUS
  <2>2. risen[i] = IF i \in D /\ \E e \in D : e < i
                   THEN Gain(s[i] - s[Max({e \in D : e < i})]) ELSE 0
    BY DEF RiseOf, D
  <2>3. CASE i <= first
    <3>1. paid[i] = 0
      <4>1. i - 1 \notin DOMAIN F
        BY <2>1, <2>3, <1>2, <1>4
      <4> QED
        BY <4>1, <1>6
    <3>2. risen[i] = 0
      <4>1. \A e \in D : ~ e < i
        BY <2>1, <2>3, <1>1, <1>3, <1>4
      <4> QED
        BY <4>1, <2>2
    <3>3. P[i] = 0
      <4>1. CASE i = first
        BY <4>1, <1>3, <1>9
      <4>2. CASE i # first
        BY <4>2, <2>1, <2>3, <1>4, <1>10
      <4> QED
        BY <4>1, <4>2
    <3>4. P[i - 1] = 0
      BY <2>1, <2>3, <1>4, <1>10
    <3> QED
      BY <3>1, <3>2, <3>3, <3>4
  <2>4. CASE last < i
    <3>1. paid[i] = 0
      <4>1. i \notin DOMAIN F
        BY <2>1, <2>4, <1>2, <1>4
      <4> QED
        BY <4>1, <1>6
    <3>2. risen[i] = 0
      <4>1. i \notin D
        BY <2>1, <2>4, <1>3, <1>4
      <4> QED
        BY <4>1, <2>2
    <3>3. P[i] = 0
      BY <2>1, <2>4, <1>4, <1>10
    <3>4. P[i - 1] = 0
      <4>1. CASE i - 1 = last
        BY <4>1, <1>3, <1>9
      <4>2. CASE i - 1 # last
        BY <4>2, <2>1, <2>4, <1>4, <1>10
      <4> QED
        BY <4>1, <4>2
    <3> QED
      BY <3>1, <3>2, <3>3, <3>4
  <2>5. CASE first < i /\ i <= last
    <3>1. i \in first + 1 .. last /\ i \in first .. last /\ i - 1 \in first .. last
      BY <2>1, <2>5, <1>4
    <3>2. PICK a \in D, b \in D : /\ a <= i - 1 /\ i <= b /\ \A e \in D : e < b => e <= a
                                  /\ F[i - 1] = Line(s[a], s[b], a, b, i - 1)
                                  /\ F[i] = Line(s[a], s[b], a, b, i)
      BY <3>1, <1>2
    <3>3. a \in Int /\ b \in Int /\ a < b /\ s[a] \in Int /\ s[b] \in Int
      BY <3>2, <2>1, <1>1
    <3>4. F[i] \in Int /\ F[i - 1] \in Int
      BY <3>1, <1>2
    <3>5. paid[i] = IF F[i] >= F[i - 1] THEN F[i] - F[i - 1] ELSE 0
      BY <3>1, <1>2, <1>6
    <3>6. known(i - 1) = a
      <4>1. /\ known(i - 1) \in D /\ known(i - 1) <= i - 1
            /\ \A e \in D : e <= i - 1 => e <= known(i - 1)
        BY <2>1, <2>5, <1>4, <1>5
      <4>2. known(i - 1) \in Int /\ a <= known(i - 1) /\ known(i - 1) < b
        <5>1. known(i - 1) \in Int /\ a <= known(i - 1)
          BY <4>1, <3>2, <1>1
        <5> QED
          BY <5>1, <4>1, <3>2, <3>3, <2>1
      <4>3. known(i - 1) <= a
        BY <4>1, <4>2, <3>2
      <4> QED
        BY <4>2, <4>3, <3>3
    <3>7. P[i - 1] = Gain(F[i - 1] - s[a])
      BY <2>1, <2>5, <3>6, <1>4, <1>10
    <3>8. /\ s[a] <= s[b] => s[a] <= F[i - 1] /\ F[i - 1] <= F[i]
          /\ s[b] <= s[a] => F[i - 1] <= s[a] /\ F[i] <= F[i - 1]
      <4>1. Line(s[a], s[b], a, b, a) = s[a]
        BY <3>3, LineEnds
      <4>2. a <= i - 1 /\ i - 1 <= i /\ a <= a
        BY <3>2, <3>3, <2>1
      <4>3. ASSUME s[a] <= s[b] PROVE s[a] <= F[i - 1] /\ F[i - 1] <= F[i]
        <5>1. Line(s[a], s[b], a, b, a) <= Line(s[a], s[b], a, b, i - 1)
          BY <4>2, <4>3, <3>3, <2>1, LinesRise
        <5>2. Line(s[a], s[b], a, b, i - 1) <= Line(s[a], s[b], a, b, i)
          BY <4>2, <4>3, <3>3, <2>1, LinesRise
        <5> QED
          BY <5>1, <5>2, <4>1, <3>2
      <4>4. ASSUME s[b] <= s[a] PROVE F[i - 1] <= s[a] /\ F[i] <= F[i - 1]
        <5>1. Line(s[a], s[b], a, b, i - 1) <= Line(s[a], s[b], a, b, a)
          BY <4>2, <4>4, <3>3, <2>1, LinesFall
        <5>2. Line(s[a], s[b], a, b, i) <= Line(s[a], s[b], a, b, i - 1)
          BY <4>2, <4>4, <3>3, <2>1, LinesFall
        <5> QED
          BY <5>1, <5>2, <4>1, <3>2
      <4> QED
        BY <4>3, <4>4
    <3>9. CASE i = b
      <4>1. P[i] = 0 /\ F[i] = s[b]
        BY <3>9, <1>2, <1>9
      <4>2. risen[i] = Gain(s[b] - s[a])
        <5> DEFINE k == Max({e \in D : e < i})
        <5>1. \E e \in D : e < i
          BY <3>2, <3>3, <3>9
        <5>2. k \in D /\ k < i /\ \A e \in D : e < i => e <= k
          BY <5>1, <2>1, <1>1, DatesBefore
        <5>3. risen[i] = Gain(s[i] - s[k])
          BY <5>1, <3>9, <2>2
        <5> HIDE DEF k
        <5>4. k = a
          BY <5>2, <3>2, <3>3, <3>9, <1>1
        <5> QED
          BY <5>3, <5>4, <3>9
      <4> QED
        BY <4>1, <4>2, <3>3, <3>4, <3>5, <3>7, <3>8 DEF Gain
    <3>10. CASE i # b
      <4>1. i \notin D
        BY <3>2, <3>3, <3>10, <2>1
      <4>2. risen[i] = 0
        BY <4>1, <2>2
      <4>3. known(i) = a
        <5>1. /\ known(i) \in D /\ known(i) <= i
              /\ \A e \in D : e <= i => e <= known(i)
          BY <2>1, <2>5, <1>4, <1>5
        <5>2. known(i) \in Int /\ a <= known(i) /\ known(i) < b
          <6>1. a <= i
            BY <3>2, <3>3, <2>1
          <6>2. known(i) \in Int /\ a <= known(i)
            BY <5>1, <6>1, <1>1
          <6> QED
            BY <6>2, <5>1, <3>2, <3>3, <3>10, <2>1
        <5>3. known(i) <= a
          BY <5>1, <5>2, <3>2
        <5> QED
          BY <5>2, <5>3, <3>3
      <4>4. P[i] = Gain(F[i] - s[a])
        BY <2>1, <2>5, <4>3, <1>4, <1>10
      <4> QED
        BY <4>2, <4>4, <3>3, <3>4, <3>5, <3>7, <3>8 DEF Gain
    <3> QED
      BY <3>9, <3>10
  <2> QED
    BY <2>1, <2>3, <2>4, <2>5, <1>4
<1> DEFINE ahead == [i \in 1 .. n |-> P[i] - P[i - 1]]
<1>12. P[0] = 0 /\ P[n] = 0
  <2>1. P[0] = 0
    BY <1>4, <1>10
  <2>2. P[n] = 0
    <3>1. CASE n = last
      BY <3>1, <1>3, <1>9
    <3>2. CASE n # last
      BY <3>2, <1>4, <1>10
    <3> QED
      BY <3>1, <3>2
  <2> QED
    BY <2>1, <2>2
<1>13. \A i \in 1 .. n : ahead[i] = P[i] - P[i - 1] /\ ahead[i] = paid[i] - risen[i]
  BY <1>11
<1> HIDE DEF ahead
<1>14. Total(ahead, n) = 0
  <2>1. Total(ahead, n) = P[n] - P[0]
    BY <1>8, <1>13, TotalOfSteps
  <2> QED
    BY <2>1, <1>12
<1>15. Total(ahead, n) = Total(paid, n) - Total(risen, n)
  BY <1>11, <1>13, TotalOfDifferences
<1>16. Total(paid, n) \in Int /\ Total(risen, n) \in Int
  <2>1. n \in 0 .. n
    OBVIOUS
  <2> QED
    BY <2>1, <1>11, TotalIsInteger
<1> QED
  BY <1>14, <1>15, <1>16

(* A channel is paid for its rises.                                        *)
LEMMA PaymentsHold ==
  ASSUME Recorded
  PROVE  PaidForRises
<1> DEFINE s == GrowthSeries
           n == MaxDays[subject]
           F == Interpolated(s)
           grown == {d \in Days : d \in DOMAIN F /\ d - 1 \in DOMAIN F /\ F[d] >= F[d - 1]}
           paid == [d \in Days |-> IF d \in grown THEN F[d] - F[d - 1] ELSE 0]
           before(d) == {e \in Charted : e < d}
           rise(d) == Max({0, profile[d] - profile[Max(before(d))]})
           alone(d) == before(d) = Broken /\ Cardinality(Broken) = 1
           risen == [d \in Days |-> IF d \notin Charted THEN 0
                                    ELSE IF before(d) = {} \/ alone(d) THEN 0 ELSE rise(d)]
<1>1. n \in Nat /\ Days = 1 .. n
  BY ReadingsAreNumbers DEF Days
<1>2. /\ DOMAIN s = IF Stripping THEN Charted \ Broken ELSE Charted
      /\ \A d \in DOMAIN s : s[d] = profile[d]
  BY GrowthSeriesIsCharted
<1>3. \A d \in Charted : d \in Nat /\ d \in Days /\ profile[d] \in Nat
  BY ReadingsAreNumbers
<1>4. /\ Real # {} => /\ Min(Real) \in Real
                      /\ \A d \in Real : Min(Real) <= d
                      /\ \A d \in Charted : d \in Broken <=> d < Min(Real)
      /\ Cardinality(Broken) = 1 <=> \E d : Broken = {d}
      /\ Real \subseteq Charted /\ Broken \subseteq Charted
      /\ Stripping <=> Real # {} /\ \E d : Broken = {d}
  BY BrokenReadings, ReadingsAreNumbers DEF Stripping
<1>5. PaidViews = IF DOMAIN s = {} THEN 0 ELSE Total(paid, n)
  BY DEF PaidViews
<1>6. PaidForRises <=> PaidViews = Total(risen, n)
  <2>1. risen = [d \in Days |-> IF d \in Charted THEN IF before(d) = {} \/ alone(d) THEN 0 ELSE rise(d) ELSE 0]
    OBVIOUS
  <2> QED
    BY <2>1 DEF PaidForRises
<1>7. \A d \in Days : risen[d] = IF d \notin Charted THEN 0
                                 ELSE IF before(d) = {} \/ alone(d) THEN 0 ELSE rise(d)
  OBVIOUS
<1>8. \A d \in Days : paid[d] = IF d \in DOMAIN F /\ d - 1 \in DOMAIN F /\ F[d] >= F[d - 1]
                                THEN F[d] - F[d - 1] ELSE 0
  OBVIOUS
<1> HIDE DEF s, n, paid, risen
<1>9. DOMAIN s \subseteq Charted /\ \A d \in DOMAIN s : d \in Nat /\ s[d] \in Int
  BY <1>2, <1>3
<1>10. ASSUME NEW d \in Days PROVE risen[d] = RiseOf(s, d)
  <2> DEFINE known == {e \in DOMAIN s : e < d}
  <2>1. d \in Int
    BY <1>1
  <2>2. RiseOf(s, d) = IF d \in DOMAIN s /\ known # {} THEN Gain(s[d] - s[Max(known)]) ELSE 0
    <3>1. (\E e \in DOMAIN s : e < d) <=> known # {}
      OBVIOUS
    <3> QED
      BY <3>1 DEF RiseOf
  <2>3. known \subseteq before(d)
    BY <1>9
  <2>4. CASE d \notin Charted
    BY <2>2, <2>4, <1>7, <1>9
  <2>5. CASE d \in Charted /\ before(d) = {}
    BY <2>2, <2>3, <2>5, <1>7
  <2>6. CASE d \in Charted /\ alone(d)
    <3>1. PICK b : Broken = {b}
      BY <2>6, <1>4
    <3>2. b \in Charted /\ b < d
      BY <2>6, <3>1
    <3>3. Real # {}
      <4>1. ASSUME Real = {} PROVE FALSE
        <5>1. d \in Broken
          BY <4>1, <2>6 DEF Broken
        <5> QED
          BY <5>1, <3>1, <3>2, <1>3
      <4> QED
        BY <4>1
    <3>4. known = {}
      <4>1. DOMAIN s = Charted \ {b}
        BY <3>1, <3>3, <1>2, <1>4
      <4>2. before(d) = {b}
        BY <2>6, <3>1
      <4> QED
        BY <4>1, <4>2
    <3>5. risen[d] = 0
      BY <2>6, <1>7
    <3> QED
      BY <2>2, <3>4, <3>5
  <2>7. CASE d \in Charted /\ before(d) # {} /\ ~ alone(d)
    <3> DEFINE m == Max(before(d))
    <3>1. risen[d] = Max({0, profile[d] - profile[m]})
      BY <2>7, <1>7
    <3>2. m \in Charted /\ m < d /\ \A e \in Charted : e < d => e <= m
      <4>1. \E e \in Charted : e < d
        BY <2>7
      <4> QED
        BY <4>1, <2>1, <1>3, DatesBefore
    <3> HIDE DEF m
    <3>3. risen[d] = Gain(profile[d] - profile[m])
      <4>1. profile[d] - profile[m] \in Int
        BY <2>7, <3>2, <1>3
      <4> QED
        BY <4>1, <3>1, AtLeastZero DEF Gain
    <3>4. d \in DOMAIN s /\ m \in DOMAIN s
      <4>1. CASE ~ Stripping
        BY <4>1, <2>7, <3>2, <1>2
      <4>2. CASE Stripping
        <5>1. PICK b : Broken = {b}
          BY <4>2, <1>4
        <5>2. /\ DOMAIN s = Charted \ {b} /\ b \in Charted /\ Real # {}
              /\ \A c \in Charted : c = b <=> c < Min(Real)
              /\ Min(Real) \in Nat /\ Cardinality(Broken) = 1
          BY <4>2, <5>1, <1>2, <1>3, <1>4
        <5>3. d # b
          <6>1. ASSUME d = b PROVE FALSE
            <7>1. m = b
              BY <6>1, <5>2, <3>2, <1>3
            <7> QED
              BY <7>1, <6>1, <3>2, <1>3
          <6> QED
            BY <6>1
        <5>4. m # b
          <6>1. ASSUME m = b PROVE FALSE
            <7>1. ASSUME NEW e \in Charted, e < d PROVE e = b
              BY <7>1, <6>1, <5>2, <3>2, <1>3
            <7>2. before(d) = {b}
              BY <7>1, <6>1, <3>2
            <7> QED
              BY <7>2, <5>1, <5>2, <2>7
          <6> QED
            BY <6>1
        <5> QED
          BY <5>2, <5>3, <5>4, <2>7, <3>2
      <4> QED
        BY <4>1, <4>2
    <3>5. known # {} /\ Max(known) = m
      <4> DEFINE k == Max(known)
      <4>1. m \in known
        BY <3>2, <3>4
      <4>2. k \in DOMAIN s /\ k < d /\ \A e \in DOMAIN s : e < d => e <= k
        BY <4>1, <2>1, <1>9, DatesBefore
      <4> HIDE DEF k, known
      <4>3. m <= k /\ k <= m /\ k \in Int /\ m \in Int
        BY <4>2, <3>2, <3>4, <1>9
      <4>4. k = m
        BY <4>3
      <4> QED
        BY <4>1, <4>4 DEF k
    <3> QED
      BY <2>2, <3>3, <3>4, <3>5, <1>2
  <2> HIDE DEF before, alone
  <2> QED
    BY <2>4, <2>5, <2>6, <2>7
<1> HIDE DEF before, alone, rise
<1>11. CASE DOMAIN s = {}
  <2> DEFINE zero == [i \in 0 .. n |-> 0]
  <2>1. \A i \in 1 .. n : risen[i] = 0
    BY <1>1, <1>10, <1>11 DEF RiseOf
  <2>2. \A i \in 1 .. n : risen[i] = zero[i] - zero[i - 1]
    BY <2>1, <1>1
  <2>3. Total(risen, n) = zero[n] - zero[0]
    <3>1. \A i \in 0 .. n : zero[i] \in Int
      OBVIOUS
    <3> HIDE DEF zero
    <3> QED
      BY <2>2, <3>1, <1>1, TotalOfSteps
  <2>4. zero[n] - zero[0] = 0
    BY <1>1
  <2> QED
    BY <2>3, <2>4, <1>5, <1>6, <1>11
<1>12. CASE DOMAIN s # {}
  <2>1. DOMAIN s \subseteq 1 .. n
    BY <1>1, <1>3, <1>9
  <2>2. Total(paid, n) = Total(risen, n)
    <3>1. \A i \in 1 .. n :
           paid[i] = LET f == Interpolated(s)
                     IN IF i \in DOMAIN f /\ i - 1 \in DOMAIN f /\ f[i] >= f[i - 1]
                        THEN f[i] - f[i - 1] ELSE 0
      BY <1>1, <1>8
    <3>2. \A i \in 1 .. n : risen[i] = RiseOf(s, i)
      BY <1>1, <1>10
    <3> HIDE DEF F
    <3> QED
      BY <3>1, <3>2, <2>1, <1>1, <1>9, <1>12, PaymentsAddUp
  <2> QED
    BY <2>2, <1>5, <1>6, <1>12
<1> QED
  BY <1>11, <1>12

-----------------------------------------------------------------------------
(* CreatorStats: the summary.                                              *)

(* The gain that the summary shows is that of the chart.                   *)
LEMMA SummaryHolds ==
  ASSUME Recorded, NothingAhead
  PROVE  SummaryMatchesChart
<1> DEFINE s == GrowthSeries
           n == MaxDays[subject]
           base == SummaryBase
           last == ClosestSnapshot(today)
           previous(d) == Max({e \in DOMAIN s : e < d})
           between == {d \in DOMAIN s : base < d}
           delta == [d \in Days |-> IF d \in between THEN s[d] - s[previous(d)] ELSE 0]
           known(i) == Max({e \in DOMAIN s : e <= i})
           G == [i \in 0 .. n |-> IF i < base THEN s[base] ELSE s[known(i)]]
<1>1. SUFFICES ASSUME base \in DOMAIN s, base # last
               PROVE  profile[last] - profile[base] = Total(delta, n)
  BY DEF SummaryMatchesChart
<1>2. /\ n \in Nat /\ Days = 1 .. n
      /\ \A d \in Days : d \in Nat /\ 1 <= d /\ d <= n
      /\ today \in Nat /\ ChartStart \in Int
      /\ \A d \in Charted : d \in Nat /\ d <= n /\ profile[d] \in Nat
      /\ Charted \subseteq Days
  BY ReadingsAreNumbers DEF Days
<1>3. /\ DOMAIN s = IF Stripping THEN Charted \ Broken ELSE Charted
      /\ \A d \in DOMAIN s : s[d] = profile[d]
  BY GrowthSeriesIsCharted
<1>4. \A d \in Charted : d <= today /\ d >= ChartStart /\ profile[d] # Null
  BY <1>2 DEF NothingAhead, Charted
<1>5. last \in Days /\ profile[last] # Null /\ \A d \in Charted : d <= last
  <2> DEFINE S == {e \in Days : e <= today /\ profile[e] # Null}
  <2>1. Charted \subseteq S
    BY <1>2, <1>4
  <2>2. last = LargestOf(S)
    BY DEF ClosestSnapshot
  <2>3. \A e \in S : e \in Nat /\ e <= n
    BY <1>2
  <2>4. \A e \in S : e \in Days /\ profile[e] # Null
    OBVIOUS
  <2>5. base \in Charted
    BY <1>1, <1>3
  <2> HIDE DEF S, last, base
  <2>6. S # {}
    BY <2>1, <2>5
  <2>7. LargestOf(S) \in S /\ \A e \in S : e <= LargestOf(S)
    <3>1. n \in Int
      BY <1>2
    <3>2. Max(S) \in S /\ \A e \in S : e <= Max(S)
      BY <2>3, <2>6, <3>1, LargestIn
    <3> QED
      BY <3>2, <2>6 DEF LargestOf
  <2> QED
    BY <2>1, <2>2, <2>4, <2>7
<1> HIDE DEF s, n, base, last
<1>6. /\ base \in Charted /\ last \in Charted /\ base < last
      /\ base \in Nat /\ last \in Nat /\ 0 < base /\ last <= n
  <2>1. base \in Charted
    BY <1>1, <1>3
  <2>2. base \in Nat /\ base >= ChartStart /\ base <= last /\ last \in Nat
    BY <2>1, <1>2, <1>4, <1>5
  <2>3. last \in Charted
    BY <2>2, <1>2, <1>5 DEF Charted
  <2>4. base < last /\ 0 < base
    BY <2>1, <2>2, <1>1, <1>2
  <2> QED
    BY <2>1, <2>2, <2>3, <2>4, <1>2
<1>7. last \in DOMAIN s
  <2>1. CASE ~ Stripping
    BY <2>1, <1>3, <1>6
  <2>2. CASE Stripping
    <3>1. ASSUME last \in Broken PROVE FALSE
      <4>1. \A d \in Charted : d \in Broken <=> \A e \in Real : d < e
        BY DEF Broken
      <4>2. \A e \in Real : e \in Nat
        BY <1>2, ReadingsAreNumbers
      <4>3. base \in Broken
        BY <3>1, <4>1, <4>2, <1>6
      <4> QED
        BY <4>3, <2>2, <1>1, <1>3
    <3> QED
      BY <3>1, <2>2, <1>3, <1>6
  <2> QED
    BY <2>1, <2>2
<1>8. \A d \in DOMAIN s : s[d] = profile[d] /\ s[d] \in Int /\ d \in Nat /\ d <= n /\ d <= last
  <2>1. DOMAIN s \subseteq Charted
    BY <1>3
  <2>2. \A d \in Charted : profile[d] \in Int /\ d \in Nat /\ d <= n /\ d <= last
    BY <1>2, <1>5
  <2> QED
    BY <2>1, <2>2, <1>3
<1>9. ASSUME NEW i \in 0 .. n, base <= i
      PROVE  /\ known(i) \in DOMAIN s /\ known(i) <= i
             /\ \A e \in DOMAIN s : e <= i => e <= known(i)
  <2>1. i \in Int /\ \E e \in DOMAIN s : e <= i
    BY <1>1, <1>9
  <2>2. \A d \in DOMAIN s : d \in Nat
    BY <1>8
  <2> QED
    BY <2>1, <2>2, DatesBefore
<1>10. ASSUME NEW i \in 1 .. n, base < i PROVE previous(i) = known(i - 1)
  <2>1. \A e \in DOMAIN s : e < i <=> e <= i - 1
    BY <1>8
  <2>2. {e \in DOMAIN s : e < i} = {e \in DOMAIN s : e <= i - 1}
    BY <2>1
  <2> QED
    BY <2>2
<1> HIDE DEF known, previous
<1>11. \A i \in 0 .. n : G[i] \in Int
  BY <1>1, <1>6, <1>8, <1>9
<1>12. ASSUME NEW i \in 1 .. n PROVE delta[i] = G[i] - G[i - 1]
  <2>1. i \in Days /\ i \in Nat /\ i \in 0 .. n /\ i - 1 \in 0 .. n
    BY <1>2
  <2>2. CASE i < base
    <3>1. G[i] = s[base] /\ G[i - 1] = s[base] /\ i \notin between
      BY <2>1, <2>2, <1>6
    <3> QED
      BY <2>1, <3>1, <1>1, <1>8
  <2>3. CASE i = base
    <3>1. known(i) = base
      BY <2>1, <2>3, <1>1, <1>6, <1>8, <1>9
    <3>2. G[i] = s[base] /\ G[i - 1] = s[base] /\ i \notin between
      BY <2>1, <2>3, <3>1, <1>6
    <3> QED
      BY <2>1, <3>2, <1>1, <1>8
  <2>4. CASE base < i
    <3>1. G[i] = s[known(i)] /\ G[i - 1] = s[known(i - 1)]
      BY <2>1, <2>4, <1>6
    <3>2. CASE i \in DOMAIN s
      <4>1. known(i) = i
        BY <2>1, <2>4, <3>2, <1>6, <1>8, <1>9
      <4> QED
        BY <2>1, <2>4, <3>1, <3>2, <4>1, <1>10
    <3>3. CASE i \notin DOMAIN s
      <4>1. /\ known(i) \in DOMAIN s /\ known(i) <= i /\ \A e \in DOMAIN s : e <= i => e <= known(i)
            /\ known(i - 1) \in DOMAIN s /\ known(i - 1) <= i - 1
            /\ \A e \in DOMAIN s : e <= i - 1 => e <= known(i - 1)
        BY <2>1, <2>4, <1>6, <1>9
      <4>2. known(i) = known(i - 1)
        <5>1. known(i) \in Nat /\ known(i - 1) \in Nat /\ known(i) # i
          BY <4>1, <3>3, <1>8
        <5> QED
          BY <5>1, <4>1, <2>1
      <4>3. i \notin between
        BY <3>3
      <4> QED
        BY <2>1, <3>1, <4>1, <4>2, <4>3, <1>8
    <3> QED
      BY <3>2, <3>3
  <2> QED
    BY <2>1, <2>2, <2>3, <2>4, <1>6
<1>13. G[0] = s[base] /\ G[n] = s[last]
  <2>1. 0 < base /\ base \in Int /\ n \in 0 .. n /\ 0 \in 0 .. n /\ base <= n
    BY <1>2, <1>6
  <2>2. known(n) = last
    <3>1. known(n) \in DOMAIN s /\ last <= known(n)
      BY <2>1, <1>6, <1>7, <1>9
    <3> QED
      BY <3>1, <1>6, <1>8
  <2> QED
    BY <2>1, <2>2
<1> HIDE DEF G, delta
<1>14. Total(delta, n) = G[n] - G[0]
  BY <1>2, <1>11, <1>12, TotalOfSteps
<1> QED
  BY <1>1, <1>7, <1>8, <1>13, <1>14
-----------------------------------------------------------------------------
(* CreatorStats: the metrics of posts.                                     *)

(* The total of natural numbers is one.                                    *)
LEMMA TotalOfNaturals ==
  ASSUME NEW n \in Nat, NEW f, \A i \in 1 .. n : f[i] \in Nat
  PROVE  Total(f, n) \in Nat
<1> DEFINE zero == [i \in 0 .. n |-> 0]
<1>1. Total(zero, n) = zero[n] - zero[0]
  BY TotalOfSteps
<1>2. Total(zero, n) <= Total(f, n)
  BY TotalGrows
<1>3. Total(f, n) \in Int
  BY TotalIsInteger
<1> QED
  BY <1>1, <1>2, <1>3

(* The last of some days, or NULL where there are none.                    *)
LEMMA LargestOrNull ==
  ASSUME NEW m \in Int, NEW S, \A x \in S : x \in Nat /\ x <= m
  PROVE  /\ LargestOf(S) = Null <=> S = {}
         /\ S # {} => LargestOf(S) \in S /\ \A x \in S : x <= LargestOf(S)
<1>1. S # {} => Max(S) \in S /\ \A x \in S : x <= Max(S)
  BY LargestIn
<1> QED
  BY <1>1 DEF LargestOf, Null

(* What the rows of a post are, which of them is the last, and which the   *)
(* last before the window.                                                 *)
(* What the rows of a post are, and which of them is the last.             *)
LEMMA RowsOfPost ==
  ASSUME Recorded, NothingAhead, NEW p \in Posts
  PROVE  /\ \A d \in DaysOf(p) : /\ d \in Nat /\ d <= today /\ d \in Days
                                 /\ snaps[p][d] \in Readings[subject]
                                 /\ snaps[p][d].views \in Nat \union {Null}
                                 /\ snaps[p][d].likes \in Nat \union {Null}
         /\ IsFiniteSet(DaysOf(p))
         /\ DaysOf(p) # {} => /\ LastDay(p) \in DaysOf(p)
                              /\ \A d \in DaysOf(p) : d <= LastDay(p)
                              /\ Latest(p) = snaps[p][LastDay(p)]
         /\ today \in Nat
<1>1. p \in Numbers
  BY PostsAreNumbers
<1>2. today \in Nat
  BY ReadingsAreNumbers
<1>3. ASSUME NEW d \in DaysOf(p)
      PROVE  /\ d \in Nat /\ d <= today /\ d \in Days
             /\ snaps[p][d] \in Readings[subject]
             /\ snaps[p][d] # NoRow
  BY <1>1, ReadingsAreNumbers DEF Recorded, NothingAhead, DaysOf
<1>4. \A d \in DaysOf(p) : snaps[p][d].views \in Nat \union {Null} /\ snaps[p][d].likes \in Nat \union {Null}
  BY <1>3, RowsAreRows DEF Recorded
<1>5. DaysOf(p) # {} => /\ LastDay(p) \in DaysOf(p)
                        /\ \A d \in DaysOf(p) : d <= LastDay(p)
                        /\ Latest(p) = snaps[p][LastDay(p)]
  BY <1>2, <1>3, LargestOrNull DEF LastDay, Latest
<1>6. IsFiniteSet(DaysOf(p))
  <2>1. IsFiniteSet(1 .. MaxDays[subject])
    <3>1. MaxDays[subject] \in Nat
      BY ReadingsAreNumbers
    <3> QED
      BY <3>1, FS_Interval
  <2>2. DaysOf(p) \subseteq 1 .. MaxDays[subject]
    BY DEF DaysOf, Days
  <2> QED
    BY <2>1, <2>2, FS_Subset
<1> QED
  BY <1>2, <1>3, <1>4, <1>5, <1>6

(* The baseline of a post is its last row before a day, if it has one.     *)
LEMMA BaselineIsLast ==
  ASSUME Recorded, NothingAhead, NEW p \in Posts, NEW start \in Int
  PROVE  LET b == LastBefore(p, start)
         IN \/ Baseline(p, start) = Blank /\ \A d \in DaysOf(p) : ~ d < start
            \/ /\ b \in DaysOf(p) /\ Baseline(p, start) = snaps[p][b]
               /\ \A d \in DaysOf(p) : d < start => d <= b
<1> DEFINE S == {e \in DaysOf(p) : e < start}
           b == LastBefore(p, start)
<1>1. \A e \in DaysOf(p) : e \in Nat /\ e <= today
  BY RowsOfPost
<1>2. today \in Int
  BY RowsOfPost
<1>3. \A e : e \in S <=> e \in DaysOf(p) /\ e < start
  OBVIOUS
<1>4. b = LargestOf(S)
  BY DEF LastBefore
<1> HIDE DEF S, b
<1>5. \A e \in S : e \in Nat /\ e <= today
  BY <1>1, <1>3
<1>6. /\ b = Null <=> S = {}
      /\ S # {} => b \in S /\ \A x \in S : x <= b
  BY <1>2, <1>4, <1>5, LargestOrNull
<1>7. Baseline(p, start) = IF b = Null THEN Blank ELSE snaps[p][b]
  BY DEF Baseline, b
<1>8. CASE S = {}
  BY <1>3, <1>6, <1>7, <1>8
<1>9. CASE S # {}
  <2>1. b \in DaysOf(p) /\ \A d \in DaysOf(p) : d < start => d <= b
    BY <1>3, <1>6, <1>9
  <2> QED
    BY <2>1, <1>6, <1>7, <1>9 DEF b
<1> QED
  BY <1>8, <1>9

(* The first days of the reports are numbers.                              *)
LEMMA StartsAreNumbers ==
  ASSUME Recorded
  PROVE  SummaryStart \in Int /\ ChartStart \in Int
<1> DEFINE S == {e \in Days : e <= today /\ profile[e] # Null}
<1>1. MaxDays[subject] \in Int /\ \A e \in S : e \in Nat /\ e <= MaxDays[subject]
  BY ReadingsAreNumbers
<1>2. ClosestSnapshot(today) = LargestOf(S)
  BY DEF ClosestSnapshot
<1> HIDE DEF S
<1>3. LargestOf(S) \in Int
  <2>1. LargestOf(S) = Null \/ LargestOf(S) \in S
    BY <1>1, LargestOrNull
  <2> QED
    BY <2>1, <1>1 DEF Null
<1> QED
  BY <1>2, <1>3, StatsAssumption, ReadingsAreNumbers DEF SummaryStart

-----------------------------------------------------------------------------
(* CreatorStats: views in the window.                                      *)

(* The number that a post is counted by.                                   *)
NumberOf(p, row) == IF Latest(p).views # Null THEN row.views ELSE row.likes

(* A post gained its latest number, less the one before the window.        *)
LEMMA GainedIsDifference ==
  ASSUME Recorded, NothingAhead, NEW p \in Posts, DaysOf(p) # {}
  PROVE  LET latest == NumberOf(p, Latest(p))
             base == NumberOf(p, Baseline(p, SummaryStart))
         IN /\ latest \in Nat \union {Null} /\ base \in Nat \union {Null}
            /\ Gained(p) = IF latest = Null THEN 0 ELSE latest - OrZero(base)
<1> DEFINE row == Latest(p)
           base == Baseline(p, SummaryStart)
<1>1. row.views \in Nat \union {Null} /\ row.likes \in Nat \union {Null}
  BY RowsOfPost
<1>2. base.views \in Nat \union {Null} /\ base.likes \in Nat \union {Null}
  <2>1. base = Blank \/ \E d \in DaysOf(p) : base = snaps[p][d]
    BY BaselineIsLast, StartsAreNumbers
  <2>2. Blank.views = Null /\ Blank.likes = Null
    BY DEF Blank
  <2> QED
    BY <2>1, <2>2, RowsOfPost
<1>3. Gained(p) = IF row.views # Null THEN row.views - OrZero(base.views)
                  ELSE IF row.likes # Null THEN row.likes - OrZero(base.likes) ELSE 0
  <2>1. CASE row.views # Null
    BY <2>1 DEF Gained
  <2>2. CASE row.views = Null /\ row.likes # Null
    BY <2>2 DEF Gained
  <2>3. CASE row.views = Null /\ row.likes = Null
    BY <2>3 DEF Gained
  <2> QED
    BY <2>1, <2>2, <2>3
<1> QED
  BY <1>1, <1>2, <1>3 DEF NumberOf

(* No post gains more in the window than was seen to be gained.            *)
LEMMA GainsHold ==
  ASSUME Recorded, NothingAhead
  PROVE  GainsWereSeen
<1> DEFINE n == Len(posted)
           numbers(p) == {NumberOf(p, snaps[p][d]) : d \in DaysOf(p)} \ {Null}
           base(p) == Baseline(p, SummaryStart)
           whole(p) == posted[p] >= SummaryStart \/ (base(p) # Blank /\ NumberOf(p, base(p)) = Null)
           seen(p) == IF numbers(p) = {} THEN 0
                      ELSE IF whole(p) THEN Max(numbers(p)) ELSE Max(numbers(p)) - Min(numbers(p))
           f == [p \in Posts |-> IF p \in Counted THEN Gained(p) ELSE 0]
           g == [p \in Posts |-> seen(p)]
<1>1. n \in Nat /\ Posts = 1 .. n
  BY LenProperties DEF Recorded, Posts
<1>2. GainsWereSeen <=> (ClosestSnapshot(today) # Null => ViewsInWindow <= Total(g, n))
  BY DEF GainsWereSeen, NumberOf
<1>3. ViewsInWindow = IF Total(f, n) < 0 THEN 0 ELSE Total(f, n)
  BY DEF ViewsInWindow
<1>4. ASSUME NEW p \in Posts
      PROVE  /\ \A d \in DaysOf(p) : NumberOf(p, snaps[p][d]) # Null => NumberOf(p, snaps[p][d]) \in numbers(p)
             /\ numbers(p) # {} =>
                  /\ Max(numbers(p)) \in Nat /\ Min(numbers(p)) \in Nat
                  /\ \A x \in numbers(p) : x \in Nat /\ Min(numbers(p)) <= x /\ x <= Max(numbers(p))
  <2> DEFINE num(d) == NumberOf(p, snaps[p][d])
             V == numbers(p)
             S == {d \in DaysOf(p) : num(d) # Null}
             h == [d \in S |-> num(d)]
  <2>1. \A d \in DaysOf(p) : num(d) \in Nat \union {Null}
    BY RowsOfPost DEF NumberOf
  <2>2. V = {h[d] : d \in S}
    OBVIOUS
  <2>3. \A d \in S : h[d] \in Nat
    BY <2>1
  <2>4. IsFiniteSet(S)
    <3>1. IsFiniteSet(DaysOf(p)) /\ S \subseteq DaysOf(p)
      BY RowsOfPost
    <3> QED
      BY <3>1, FS_Subset
  <2>5. \A d \in DaysOf(p) : num(d) # Null => num(d) \in V
    OBVIOUS
  <2> HIDE DEF V, S, h
  <2>6. ASSUME V # {}
        PROVE  /\ Max(V) \in Nat /\ Min(V) \in Nat
               /\ \A x \in V : x \in Nat /\ Min(V) <= x /\ x <= Max(V)
    <3>1. S # {} /\ \A x \in V : x \in Nat
      BY <2>2, <2>3, <2>6
    <3>2. Max(V) \in V /\ \A d \in S : h[d] <= Max(V)
      <4>1. \A d \in S : h[d] \in Int
        BY <2>3
      <4> QED
        BY <4>1, <3>1, <2>2, <2>4, LargestValue
    <3>3. Min(V) \in V /\ \A x \in V : Min(V) <= x
      <4>1. \A x \in V : x \in Int /\ 0 <= x
        BY <3>1
      <4> QED
        BY <4>1, <2>6, LeastOf
    <3> QED
      BY <3>1, <3>2, <3>3, <2>2
  <2> QED
    BY <2>5, <2>6 DEF V
<1>5. \A p \in Posts : g[p] = IF numbers(p) = {} THEN 0
                              ELSE IF whole(p) THEN Max(numbers(p)) ELSE Max(numbers(p)) - Min(numbers(p))
  OBVIOUS
<1>6. \A p \in Posts : f[p] = IF p \in Counted THEN Gained(p) ELSE 0
  OBVIOUS
<1>7. \A p \in Posts : whole(p) <=> posted[p] >= SummaryStart \/ (base(p) # Blank /\ NumberOf(p, base(p)) = Null)
  OBVIOUS
<1>8. \A p \in Posts : base(p) = Baseline(p, SummaryStart)
  OBVIOUS
<1> HIDE DEF n, numbers, base, whole, seen, f, g
<1>9. ASSUME NEW p \in Posts PROVE f[p] \in Int /\ g[p] \in Nat /\ f[p] <= g[p]
  <2>1. g[p] \in Nat
    <3>1. CASE numbers(p) = {}
      BY <3>1, <1>5
    <3>2. CASE numbers(p) # {}
      <4>1. PICK x \in numbers(p) : TRUE
        BY <3>2
      <4>2. Max(numbers(p)) \in Nat /\ Min(numbers(p)) \in Nat /\ Min(numbers(p)) <= Max(numbers(p))
        BY <4>1, <1>4
      <4> QED
        BY <3>2, <4>2, <1>5
    <3> QED
      BY <3>1, <3>2
  <2>2. CASE p \notin Counted
    BY <2>1, <2>2, <1>6
  <2>3. CASE p \in Counted
    <3> DEFINE latest == NumberOf(p, Latest(p))
               old == NumberOf(p, base(p))
    <3>1. DaysOf(p) # {} /\ (base(p) # Blank \/ posted[p] >= SummaryStart)
      BY <2>3, <1>8 DEF Counted
    <3>2. f[p] = Gained(p)
      BY <2>3, <1>6
    <3>3. /\ latest \in Nat \union {Null} /\ old \in Nat \union {Null}
          /\ Gained(p) = IF latest = Null THEN 0 ELSE latest - OrZero(old)
      BY <3>1, <1>8, GainedIsDifference
    <3>4. LastDay(p) \in DaysOf(p) /\ Latest(p) = snaps[p][LastDay(p)]
      BY <3>1, RowsOfPost
    <3>5. latest # Null => latest \in numbers(p)
      BY <3>4, <1>4
    <3>6. old # Null => old \in numbers(p)
      <4>1. base(p) = Blank \/ \E d \in DaysOf(p) : base(p) = snaps[p][d]
        <5>1. LET b == LastBefore(p, SummaryStart)
              IN base(p) = Blank \/ (b \in DaysOf(p) /\ base(p) = snaps[p][b])
          BY <1>8, BaselineIsLast, StartsAreNumbers
        <5> QED
          BY <5>1
      <4>2. CASE base(p) = Blank
        <5>1. Blank.views = Null /\ Blank.likes = Null
          BY DEF Blank
        <5> QED
          BY <4>2, <5>1 DEF NumberOf, old
      <4>3. ASSUME NEW d \in DaysOf(p), base(p) = snaps[p][d] PROVE old # Null => old \in numbers(p)
        BY <4>3, <1>4
      <4> QED
        BY <4>1, <4>2, <4>3
    <3>7. old = Null => whole(p)
      BY <3>1, <1>7
    <3> HIDE DEF latest, old
    <3>8. CASE latest = Null
      BY <3>2, <3>3, <3>8, <2>1
    <3>9. CASE latest # Null
      <4>1. /\ latest \in Nat /\ latest <= Max(numbers(p)) /\ numbers(p) # {}
            /\ Max(numbers(p)) \in Nat /\ Min(numbers(p)) \in Nat
        BY <3>5, <3>9, <1>4
      <4>2. Gained(p) = latest - OrZero(old)
        BY <3>3, <3>9
      <4>3. CASE old = Null
        <5>1. g[p] = Max(numbers(p)) /\ Gained(p) = latest
          BY <4>1, <4>2, <4>3, <3>7, <1>5 DEF OrZero
        <5> QED
          BY <5>1, <4>1, <3>2, <2>1
      <4>4. CASE old # Null
        <5>1. old \in Nat /\ Min(numbers(p)) <= old
          BY <4>4, <3>6, <1>4
        <5>2. Gained(p) = latest - old
          BY <4>2, <4>4 DEF OrZero
        <5>3. g[p] = Max(numbers(p)) \/ g[p] = Max(numbers(p)) - Min(numbers(p))
          BY <4>1, <1>5
        <5> QED
          BY <5>1, <5>2, <5>3, <4>1, <3>2, <2>1
      <4> QED
        BY <4>3, <4>4
    <3> QED
      BY <3>8, <3>9
  <2> QED
    BY <2>2, <2>3
<1>10. Total(f, n) <= Total(g, n)
  BY <1>1, <1>9, TotalGrows
<1>11. Total(g, n) \in Nat
  BY <1>1, <1>9, TotalOfNaturals
<1> QED
  BY <1>2, <1>3, <1>10, <1>11

(* The days and the last day of the series of views.                       *)
LEMMA ViewsSeriesEnds ==
  ASSUME Recorded, DOMAIN ViewsSeries # {}
  PROVE  LET L == Max(DOMAIN ViewsSeries)
         IN /\ L \in Days
            /\ \A p \in Posts : \A d \in DaysOf(p) : ChartStart <= d => d <= L
            /\ ViewsSeries[L] = Total([p \in Posts |-> Known(p, L)], Len(posted))
<1> DEFINE R == {d \in Days : d >= ChartStart /\ \E p \in Posts : d \in DaysOf(p)}
           T == [d \in R |-> Total([p \in Posts |-> Known(p, d)], Len(posted))]
           S == DOMAIN ViewsSeries
           L == Max(S)
           last == Max(R)
<1>1. ViewsSeries = Stripped(T)
  BY DEF ViewsSeries
<1>2. DOMAIN T = R /\ \A d \in R : T[d] = Total([p \in Posts |-> Known(p, d)], Len(posted))
  OBVIOUS
<1>3. \A d \in R : d \in Nat /\ d <= MaxDays[subject] /\ d \in Days
  BY ReadingsAreNumbers
<1>4. ChartStart \in Int /\ MaxDays[subject] \in Nat
  BY ReadingsAreNumbers, StatsAssumption DEF Recorded, ChartStart
<1>5. \A p \in Posts : \A d \in DaysOf(p) : ChartStart <= d => d \in R
  BY <1>4, ReadingsAreNumbers DEF DaysOf
<1> HIDE DEF T, R
<1>6. \A d \in DOMAIN T : d \in Nat
  BY <1>2, <1>3
<1>7. /\ S \subseteq DOMAIN T
      /\ \A d \in S : Stripped(T)[d] = T[d]
      /\ \A d \in DOMAIN T : d \notin S <=>
           /\ T[d] = 0
           /\ \A e \in DOMAIN T : d <= e
           /\ \E e \in DOMAIN T : d < e /\ T[e] > 0 /\ \A c \in DOMAIN T : d < c => e <= c
  BY <1>1, <1>6, StrippingIsRight
<1>8. R # {}
  BY <1>2, <1>7
<1>9. last \in R /\ \A d \in R : d <= last
  BY <1>3, <1>4, <1>8, LargestIn
<1>10. last \in S
  <2>1. \A e \in R : ~ last < e
    BY <1>3, <1>9
  <2> QED
    BY <2>1, <1>2, <1>7, <1>9
<1>11. L \in S /\ \A d \in S : d <= L
  <2>1. \A d \in S : d \in Int /\ d <= MaxDays[subject]
    BY <1>2, <1>3, <1>7
  <2> QED
    BY <2>1, <1>4, <1>10, LargestIn
<1>12. L = last
  <2>1. L \in R /\ L <= last /\ last <= L
    BY <1>2, <1>7, <1>9, <1>10, <1>11
  <2> QED
    BY <2>1, <1>3, <1>9
<1>13. L \in R /\ L \in Days /\ ViewsSeries[L] = T[L]
  BY <1>1, <1>2, <1>3, <1>7, <1>11
<1>14. \A p \in Posts : \A d \in DaysOf(p) : ChartStart <= d => d <= L
  BY <1>5, <1>9, <1>12
<1> QED
  BY <1>2, <1>13, <1>14

(* What the chart knows of a post in the end is its latest number, if that *)
(* is of views.                                                            *)
LEMMA KnownInTheEnd ==
  ASSUME Recorded, NothingAhead, NEW p \in Posts, DaysOf(p) # {}, HasViews(Latest(p)),
         NEW L \in Days, \A d \in DaysOf(p) : ChartStart <= d => d <= L
  PROVE  Known(p, L) = Latest(p).views /\ Latest(p).views \in Nat /\ Latest(p).views # Null
<1> DEFINE last == LastDay(p)
           base == Baseline(p, ChartStart)
           b == LastBefore(p, ChartStart)
           read == Measured(p, L)
<1>1. /\ last \in DaysOf(p) /\ \A d \in DaysOf(p) : d \in Nat /\ d <= last /\ d <= today
      /\ Latest(p) = snaps[p][last] /\ today \in Nat
      /\ ChartStart \in Int
  BY RowsOfPost, StartsAreNumbers
<1>2. /\ Latest(p).views \in Nat /\ Latest(p).views # Null
      /\ Usable(Latest(p)) = Latest(p).views
  BY <1>1, RowsOfPost DEF HasViews, Usable
<1>3. Known(p, L) = IF read # {} THEN Usable(snaps[p][Max(read)]) ELSE OrZero(Usable(base))
  BY DEF Known
<1>4. \A e \in read : e \in DaysOf(p) /\ ChartStart <= e
  BY DEF Measured
<1>5. ChartStart <= last => last \in read
  BY <1>1, <1>2 DEF Measured
<1>6. \/ base = Blank /\ \A d \in DaysOf(p) : ~ d < ChartStart
      \/ b \in DaysOf(p) /\ base = snaps[p][b] /\ \A d \in DaysOf(p) : d < ChartStart => d <= b
  BY <1>1, BaselineIsLast
<1> HIDE DEF last, base, b, read
<1>7. CASE ChartStart <= last
  <2>1. last \in read
    BY <1>5, <1>7
  <2>2. Max(read) \in read /\ \A e \in read : e <= Max(read)
    <3>1. \A e \in read : e \in Int /\ e <= last
      BY <1>1, <1>4
    <3>2. last \in Int
      BY <1>1
    <3> QED
      BY <2>1, <3>1, <3>2, LargestIn
  <2>3. Max(read) = last
    <3>1. Max(read) \in Nat /\ last \in Nat /\ Max(read) <= last /\ last <= Max(read)
      BY <2>1, <2>2, <1>1, <1>4
    <3> QED
      BY <3>1
  <2> QED
    BY <2>1, <2>3, <1>1, <1>2, <1>3
<1>8. CASE ~ ChartStart <= last
  <2>1. read = {}
    <3>1. ASSUME NEW e \in read PROVE FALSE
      <4>1. e \in Nat /\ e <= last /\ ChartStart <= e /\ last \in Nat
        BY <1>1, <1>4
      <4> QED
        BY <4>1, <1>1, <1>8
    <3> QED
      BY <3>1
  <2>2. last < ChartStart
    BY <1>1, <1>8
  <2>3. b \in DaysOf(p) /\ base = snaps[p][b] /\ last <= b
    BY <2>2, <1>1, <1>6
  <2>4. b = last
    BY <2>3, <1>1
  <2>5. Known(p, L) = OrZero(Usable(Latest(p)))
    BY <2>1, <2>3, <2>4, <1>1, <1>3
  <2> QED
    BY <2>5, <1>2 DEF OrZero
<1> QED
  BY <1>2, <1>7, <1>8

(* The chart ends where the summary says.                                  *)
LEMMA ChartHolds ==
  ASSUME Recorded, NothingAhead
  PROVE  ChartMatchesWindow
<1> DEFINE n == Len(posted)
           L == Max(DOMAIN ViewsSeries)
           base(p) == Baseline(p, SummaryStart)
           videos == {p \in Counted : HasViews(Latest(p))}
           stood == [p \in Posts |-> OrZero(base(p).views)]
           known == [p \in Posts |-> Known(p, L)]
           gained == [p \in Posts |-> IF p \in Counted THEN Gained(p) ELSE 0]
<1>1. SUFFICES ASSUME DOMAIN ViewsSeries # {},
                      \A p \in Posts : DaysOf(p) # {} => p \in videos
               PROVE  ViewsInWindow = Max({0, ViewsSeries[L] - Total(stood, n)})
  BY DEF ChartMatchesWindow
<1>2. n \in Nat /\ Posts = 1 .. n
  BY LenProperties DEF Recorded, Posts
<1>3. /\ L \in Days
      /\ \A p \in Posts : \A d \in DaysOf(p) : ChartStart <= d => d <= L
      /\ ViewsSeries[L] = Total(known, n)
  BY <1>1, ViewsSeriesEnds
<1>4. ViewsInWindow = IF Total(gained, n) < 0 THEN 0 ELSE Total(gained, n)
  BY DEF ViewsInWindow
<1> HIDE DEF L
<1>5. ASSUME NEW p \in Posts
      PROVE  known[p] \in Int /\ stood[p] \in Int /\ gained[p] = known[p] - stood[p]
  <2>1. CASE DaysOf(p) # {}
    <3>1. p \in Counted /\ HasViews(Latest(p))
      BY <2>1, <1>1
    <3>2. /\ Known(p, L) = Latest(p).views
          /\ Latest(p).views \in Nat /\ Latest(p).views # Null
      BY <2>1, <3>1, <1>3, KnownInTheEnd
    <3>3. Gained(p) = Latest(p).views - OrZero(base(p).views)
      BY <3>2 DEF Gained
    <3>4. OrZero(base(p).views) \in Nat
      <4>1. LET b == LastBefore(p, SummaryStart)
            IN base(p) = Blank \/ (b \in DaysOf(p) /\ base(p) = snaps[p][b])
        BY BaselineIsLast, StartsAreNumbers
      <4>2. base(p) = Blank \/ \E d \in DaysOf(p) : base(p) = snaps[p][d]
        BY <4>1
      <4>3. Blank.views = Null
        BY DEF Blank
      <4>4. base(p).views \in Nat \union {Null}
        BY <4>2, <4>3, RowsOfPost
      <4> HIDE DEF base
      <4> QED
        BY <4>4 DEF OrZero
    <3>5. /\ known[p] = Latest(p).views /\ stood[p] = OrZero(base(p).views)
          /\ gained[p] = Latest(p).views - OrZero(base(p).views)
      BY <3>1, <3>2, <3>3
    <3> HIDE DEF known, stood, gained, base
    <3> QED
      BY <3>2, <3>4, <3>5
  <2>2. CASE DaysOf(p) = {}
    <3>1. p \notin Counted
      BY <2>2 DEF Counted
    <3>2. \A start : Baseline(p, start) = Blank
      BY <2>2 DEF Baseline, LastBefore, LargestOf
    <3>3. Blank.views = Null /\ Blank.likes = Null /\ Usable(Blank) = Null
      BY DEF Blank, Usable, HasViews
    <3>4. Known(p, L) = 0
      BY <2>2, <3>2, <3>3 DEF Known, Measured, OrZero
    <3>5. known[p] = 0 /\ stood[p] = 0 /\ gained[p] = 0
      BY <3>1, <3>2, <3>3, <3>4 DEF OrZero
    <3> QED
      BY <3>5
  <2> QED
    BY <2>1, <2>2
<1> HIDE DEF known, stood, gained
<1>6. Total(gained, n) = Total(known, n) - Total(stood, n)
  BY <1>2, <1>5, TotalOfDifferences
<1>7. Total(known, n) \in Int /\ Total(stood, n) \in Int
  <2>1. n \in 0 .. n
    BY <1>2
  <2> QED
    BY <2>1, <1>2, <1>5, TotalIsInteger
<1> DEFINE rise == Total(known, n) - Total(stood, n)
<1>8. rise \in Int
  BY <1>7
<1>9. Max({0, rise}) = IF rise > 0 THEN rise ELSE 0
  BY <1>8, AtLeastZero
<1>10. ViewsInWindow = IF rise > 0 THEN rise ELSE 0
  BY <1>4, <1>6, <1>8
<1> QED
  BY <1>3, <1>9, <1>10
-----------------------------------------------------------------------------
(* CreatorStats: posts in order of their metrics.                          *)

(* The orders in which the metrics of some posts do not go down.            *)
Sortings(metrics, S) ==
  {order \in Bijection(1 .. Cardinality(S), S) :
     \A i, j \in 1 .. Cardinality(S) : i <= j => metrics[order[i]] <= metrics[order[j]]}

(* What Nth chooses.                                                       *)
IsNth(metrics, S, k, v) ==
  /\ v \in {metrics[q] : q \in S}
  /\ Cardinality({q \in S : metrics[q] < v}) < k
  /\ Cardinality({q \in S : metrics[q] <= v}) >= k

(* One more post, with the largest metric, goes to the end of an order.    *)
LEMMA LargestGoesLast ==
  ASSUME NEW R, IsFiniteSet(R), NEW x \in R, NEW metrics,
         \A q \in R : metrics[q] \in Int /\ metrics[q] <= metrics[x],
         NEW g \in Sortings(metrics, R \ {x})
  PROVE  Sortings(metrics, R) # {}
<1> DEFINE n == Cardinality(R)
           h == [i \in 1 .. n |-> IF i = n THEN x ELSE g[i]]
<1>1. n \in Nat /\ n >= 1 /\ Cardinality(R \ {x}) = n - 1
  <2>1. n \in Nat /\ Cardinality(R \ {x}) = n - 1
    BY FS_CardinalityType, FS_RemoveElement
  <2>2. n # 0
    BY FS_EmptySet
  <2> QED
    BY <2>1, <2>2
<1>2. /\ g \in [1 .. n - 1 -> R \ {x}]
      /\ \A i, j \in 1 .. n - 1 : g[i] = g[j] => i = j
      /\ \A q \in R \ {x} : \E i \in 1 .. n - 1 : g[i] = q
      /\ \A i, j \in 1 .. n - 1 : i <= j => metrics[g[i]] <= metrics[g[j]]
  BY <1>1 DEF Sortings, Bijection, Injection, Surjection, IsInjective
<1> HIDE DEF n
<1>3. \A i \in 1 .. n : i # n => i \in 1 .. n - 1
  BY <1>1
<1>4. h \in [1 .. n -> R]
  BY <1>2, <1>3
<1>5. \A i, j \in 1 .. n : h[i] = h[j] => i = j
  BY <1>2, <1>3
<1>6. \A q \in R : \E i \in 1 .. n : h[i] = q
  <2>1. ASSUME NEW q \in R, q # x PROVE \E i \in 1 .. n : h[i] = q
    <3>1. PICK i \in 1 .. n - 1 : g[i] = q
      BY <2>1, <1>2
    <3>2. i \in 1 .. n /\ i # n
      BY <1>1
    <3> QED
      BY <3>1, <3>2
  <2>2. n \in 1 .. n /\ h[n] = x
    BY <1>1
  <2> QED
    BY <2>1, <2>2
<1>7. ASSUME NEW i \in 1 .. n, NEW j \in 1 .. n, i <= j
      PROVE  metrics[h[i]] <= metrics[h[j]]
  <2>1. CASE j = n
    BY <2>1, <1>4
  <2>2. CASE j # n
    <3>1. i # n
      BY <2>2, <1>7, <1>1
    <3> QED
      BY <2>2, <3>1, <1>7, <1>3, <1>2
  <2> QED
    BY <2>1, <2>2
<1>8. h \in Bijection(1 .. n, R)
  <2> HIDE DEF h
  <2> QED
    BY <1>4, <1>5, <1>6 DEF Bijection, Injection, Surjection, IsInjective
<1>9. h \in Sortings(metrics, R)
  <2> HIDE DEF h
  <2> QED
    BY <1>8, <1>7 DEF Sortings, n
<1> QED
  BY <1>9

(* Finitely many posts can be sorted.                                      *)
LEMMA PostsCanBeSorted ==
  ASSUME NEW S, IsFiniteSet(S), NEW metrics, \A q \in S : metrics[q] \in Int
  PROVE  Sortings(metrics, S) # {}
<1> DEFINE bad == {k \in Nat : \E R \in SUBSET S : Cardinality(R) = k /\ Sortings(metrics, R) = {}}
<1>1. SUFFICES ASSUME Sortings(metrics, S) = {} PROVE FALSE
  OBVIOUS
<1>2. Cardinality(S) \in bad
  BY <1>1, FS_CardinalityType
<1>3. bad \subseteq Nat /\ bad # {}
  BY <1>2
<1>4. PICK k \in bad : \A j \in bad : k <= j
  <2> HIDE DEF bad
  <2> QED
    BY <1>3, LeastNumber
<1>5. PICK R \in SUBSET S : Cardinality(R) = k /\ Sortings(metrics, R) = {}
  BY <1>4
<1>6. IsFiniteSet(R)
  BY FS_Subset
<1>7. R # {}
  <2>1. ASSUME R = {} PROVE FALSE
    <3> DEFINE none == [i \in {} |-> i]
    <3>1. Cardinality(R) = 0 /\ 1 .. 0 = {}
      BY <2>1, FS_EmptySet
    <3>2. none \in Bijection(1 .. Cardinality(R), R)
      BY <3>1, <2>1 DEF Bijection, Injection, Surjection, IsInjective
    <3>3. none \in Sortings(metrics, R)
      BY <3>1, <3>2 DEF Sortings
    <3> QED
      BY <3>3, <1>5
  <2> QED
    BY <2>1
<1>8. PICK x \in R : \A q \in R : metrics[q] <= metrics[x]
  BY <1>6, <1>7, OneIsLargest
<1>9. Cardinality(R \ {x}) = k - 1 /\ k \in Nat /\ k - 1 \in Nat
  <2>1. IsFiniteSet(R \ {x}) /\ Cardinality(R \ {x}) = k - 1
    BY <1>5, <1>6, FS_RemoveElement
  <2> QED
    BY <2>1, <1>3, FS_CardinalityType
<1>10. Sortings(metrics, R \ {x}) # {}
  <2>1. ASSUME Sortings(metrics, R \ {x}) = {} PROVE FALSE
    <3>1. k - 1 \in bad
      BY <2>1, <1>9
    <3> QED
      BY <3>1, <1>4, <1>9
  <2> QED
    BY <2>1
<1>11. PICK g \in Sortings(metrics, R \ {x}) : TRUE
  BY <1>10
<1>12. \A q \in R : metrics[q] \in Int /\ metrics[q] <= metrics[x]
  BY <1>8
<1> QED
  BY <1>5, <1>6, <1>11, <1>12, LargestGoesLast

(* There is one k-th metric.                                               *)
LEMMA NthIsOne ==
  ASSUME NEW S, IsFiniteSet(S), NEW metrics, \A q \in S : metrics[q] \in Int,
         NEW k \in Nat, NEW v, IsNth(metrics, S, k, v)
  PROVE  Nth(metrics, S, k) = v
<1>1. ASSUME NEW u, NEW w, IsNth(metrics, S, k, u), IsNth(metrics, S, k, w), u < w
      PROVE  FALSE
  <2> DEFINE below == {q \in S : metrics[q] < w}
             upTo  == {q \in S : metrics[q] <= u}
  <2>1. u \in Int /\ w \in Int
    BY <1>1 DEF IsNth
  <2>2. upTo \subseteq below
    BY <1>1, <2>1
  <2>3. IsFiniteSet(below) /\ below \subseteq S
    BY FS_Subset
  <2>4. Cardinality(upTo) <= Cardinality(below) /\ Cardinality(upTo) \in Nat /\ Cardinality(below) \in Nat
    <3>1. IsFiniteSet(upTo) /\ Cardinality(upTo) <= Cardinality(below)
      BY <2>2, <2>3, FS_Subset
    <3> QED
      BY <3>1, <2>3, FS_CardinalityType
  <2>5. Cardinality(below) < k /\ Cardinality(upTo) >= k
    BY <1>1 DEF IsNth
  <2> QED
    BY <2>4, <2>5
<1>2. IsNth(metrics, S, k, Nth(metrics, S, k))
  BY Zenon DEF IsNth, Nth
<1>3. v \in Int /\ Nth(metrics, S, k) \in Int
  BY <1>2 DEF IsNth
<1>4. ~ v < Nth(metrics, S, k) /\ ~ Nth(metrics, S, k) < v
  BY <1>1, <1>2
<1> QED
  BY <1>3, <1>4

(* The k-th of an order is the k-th metric.                                *)
LEMMA NthOfSorting ==
  ASSUME NEW S, IsFiniteSet(S), NEW metrics, \A q \in S : metrics[q] \in Int,
         NEW order \in Sortings(metrics, S), NEW k \in 1 .. Cardinality(S)
  PROVE  Nth(metrics, S, k) = metrics[order[k]]
<1> DEFINE n == Cardinality(S)
           v == metrics[order[k]]
           below == {q \in S : metrics[q] < v}
           upTo  == {q \in S : metrics[q] <= v}
<1>1. n \in Nat /\ k \in Nat /\ 1 <= k /\ k <= n /\ k \in 1 .. n
  BY FS_CardinalityType
<1>2. /\ order \in [1 .. n -> S]
      /\ \A i, j \in 1 .. n : order[i] = order[j] => i = j
      /\ \A q \in S : \E i \in 1 .. n : order[i] = q
      /\ \A i, j \in 1 .. n : i <= j => metrics[order[i]] <= metrics[order[j]]
  BY DEF Sortings, Bijection, Injection, Surjection, IsInjective
<1> HIDE DEF n
<1>3. order[k] \in S /\ v \in Int
  BY <1>1, <1>2
<1>4. Cardinality(below) < k
  <2> DEFINE first == {order[i] : i \in 1 .. k - 1}
  <2>1. below \subseteq first
    <3>1. ASSUME NEW q \in below PROVE q \in first
      <4>1. PICK i \in 1 .. n : order[i] = q
        BY <1>2
      <4>2. ~ k <= i
        <5>1. ASSUME k <= i PROVE FALSE
          <6>1. v <= metrics[q]
            BY <5>1, <4>1, <1>1, <1>2
          <6>2. metrics[q] < v /\ metrics[q] \in Int
            OBVIOUS
          <6> QED
            BY <6>1, <6>2, <1>3
        <5> QED
          BY <5>1
      <4>3. i \in 1 .. k - 1
        BY <4>2, <1>1
      <4> QED
        BY <4>1, <4>3
    <3> QED
      BY <3>1
  <2>2. IsFiniteSet(1 .. k - 1) /\ Cardinality(1 .. k - 1) = k - 1
    BY <1>1, FS_Interval
  <2>3. IsFiniteSet(first) /\ Cardinality(first) <= k - 1
    <3> DEFINE f == [i \in 1 .. k - 1 |-> order[i]]
    <3>1. f \in Surjection(1 .. k - 1, first)
      BY DEF Surjection
    <3> HIDE DEF f, first
    <3> QED
      BY <3>1, <2>2, FS_Surjection
  <2>4. IsFiniteSet(below) /\ Cardinality(below) <= Cardinality(first)
    BY <2>1, <2>3, FS_Subset
  <2>5. Cardinality(below) \in Nat /\ Cardinality(first) \in Nat
    BY <2>3, <2>4, FS_CardinalityType
  <2> QED
    BY <2>3, <2>4, <2>5, <1>1
<1>5. Cardinality(upTo) >= k
  <2> DEFINE f == [i \in 1 .. k |-> order[i]]
  <2>1. \A i \in 1 .. k : i \in 1 .. n /\ i <= k
    BY <1>1
  <2>2. \A i \in 1 .. k : order[i] \in upTo
    BY <2>1, <1>1, <1>2
  <2>3. f \in [1 .. k -> upTo]
    BY <2>2
  <2>4. \A i, j \in 1 .. k : f[i] = f[j] => i = j
    BY <2>1, <1>2
  <2>5. f \in Injection(1 .. k, upTo)
    <3> HIDE DEF f
    <3> QED
      BY <2>3, <2>4 DEF Injection, IsInjective
  <2>6. IsFiniteSet(upTo)
    BY FS_Subset
  <2>7. Cardinality(1 .. k) <= Cardinality(upTo) /\ Cardinality(1 .. k) = k
    <3>1. Cardinality(1 .. k) = k
      BY <1>1, FS_Interval
    <3> HIDE DEF f, upTo
    <3>2. Cardinality(1 .. k) <= Cardinality(upTo)
      BY <2>5, <2>6, FS_Injection
    <3> QED
      BY <3>1, <3>2
  <2> QED
    BY <2>7
<1>6. IsNth(metrics, S, k, v)
  BY <1>3, <1>4, <1>5 DEF IsNth
<1> QED
  BY <1>6, <1>1, NthIsOne

(* R are the posts S, with their metrics, numbered from another one on.    *)
Moved(S, some, R, all, older) ==
  /\ S \subseteq Int /\ IsFiniteSet(S) /\ older \in Int
  /\ \A q \in S : q + older \in R /\ all[q + older] = some[q]
  /\ \A r \in R : \E q \in S : r = q + older

(* Such posts have the same orders.                                        *)
LEMMA SortingsMove ==
  ASSUME NEW S, NEW some, NEW R, NEW all, NEW older, Moved(S, some, R, all, older),
         NEW order \in Sortings(some, S)
  PROVE  /\ IsFiniteSet(R) /\ Cardinality(R) = Cardinality(S)
         /\ \E h \in Sortings(all, R) : \A i \in 1 .. Cardinality(S) : h[i] = order[i] + older
<1> DEFINE n == Cardinality(S)
           h == [i \in 1 .. n |-> order[i] + older]
           move == [q \in S |-> q + older]
<1> USE DEF Moved
<1>1. move \in [S -> R] /\ (\A p, q \in S : move[p] = move[q] => p = q) /\ \A r \in R : \E q \in S : move[q] = r
  <2>1. ASSUME NEW p \in S, NEW q \in S, p + older = q + older PROVE p = q
    <3>1. p \in Int /\ q \in Int
      OBVIOUS
    <3> QED
      BY <2>1, <3>1
  <2> QED
    BY <2>1
<1>2. move \in Bijection(S, R)
  <2> HIDE DEF move
  <2> QED
    BY <1>1 DEF Bijection, Injection, Surjection, IsInjective
<1>3. IsFiniteSet(R) /\ Cardinality(R) = n
  BY <1>2, FS_Bijection DEF ExistsBijection
<1>4. /\ order \in [1 .. n -> S]
      /\ \A i, j \in 1 .. n : order[i] = order[j] => i = j
      /\ \A q \in S : \E i \in 1 .. n : order[i] = q
      /\ \A i, j \in 1 .. n : i <= j => some[order[i]] <= some[order[j]]
  BY DEF Sortings, Bijection, Injection, Surjection, IsInjective
<1> HIDE DEF n
<1>5. h \in [1 .. n -> R] /\ \A i \in 1 .. n : h[i] = move[order[i]] /\ all[h[i]] = some[order[i]]
  BY <1>4
<1>6. \A i, j \in 1 .. n : h[i] = h[j] => i = j
  <2> HIDE DEF h, move
  <2>1. ASSUME NEW i \in 1 .. n, NEW j \in 1 .. n, h[i] = h[j] PROVE i = j
    <3>1. move[order[i]] = move[order[j]] /\ order[i] \in S /\ order[j] \in S
      BY <2>1, <1>4, <1>5
    <3>2. order[i] = order[j]
      BY <3>1, <1>1
    <3> QED
      BY <3>2, <1>4
  <2> QED
    BY <2>1
<1>7. \A r \in R : \E i \in 1 .. n : h[i] = r
  <2> HIDE DEF h, move
  <2>1. ASSUME NEW r \in R PROVE \E i \in 1 .. n : h[i] = r
    <3>1. PICK q \in S : move[q] = r
      BY <1>1
    <3>2. PICK i \in 1 .. n : order[i] = q
      BY <1>4
    <3> QED
      BY <3>1, <3>2, <1>5
  <2> QED
    BY <2>1
<1>8. \A i, j \in 1 .. n : i <= j => all[h[i]] <= all[h[j]]
  BY <1>4, <1>5
<1>9. h \in Sortings(all, R)
  <2> HIDE DEF h
  <2>1. h \in Bijection(1 .. n, R)
    BY <1>5, <1>6, <1>7 DEF Bijection, Injection, Surjection, IsInjective
  <2> QED
    BY <2>1, <1>8, <1>3 DEF Sortings
<1>10. \A i \in 1 .. n : h[i] = order[i] + older
  OBVIOUS
<1> HIDE DEF h
<1> QED
  BY <1>3, <1>9, <1>10 DEF n

-----------------------------------------------------------------------------
(* CreatorStats: scores.                                                   *)

(* Of some posts, those from the a-th on.                                  *)
LEMMA PoolIsTheEnd ==
  ASSUME NEW len \in Nat, NEW all, NEW a \in 1 .. len, NEW pool, pool = SubSeq(all, a, len)
  PROVE  /\ Len(pool) = len - a + 1
         /\ \A j \in 1 .. len - a + 1 : pool[j] = all[j + (a - 1)]
<1> DEFINE values == {all[j] : j \in a .. len}
<1>1. \A j \in a .. len : all[j] \in values
  OBVIOUS
<1> HIDE DEF values
<1>2. len \in Int /\ a \in Int /\ a <= len
  OBVIOUS
<1>3. /\ Len(SubSeq(all, a, len)) = IF a <= len THEN len - a + 1 ELSE 0
      /\ \A j \in 1 .. len - a + 1 : SubSeq(all, a, len)[j] = all[a + j - 1]
  BY <1>1, <1>2, SubSeqProperties
<1>4. \A j \in 1 .. len - a + 1 : a + j - 1 = j + (a - 1)
  BY <1>2
<1> QED
  BY <1>2, <1>3, <1>4

(* A score does not depend on how many posts are fetched, if those are that*)
(* the last k scored posts are measured against.                           *)
LEMMA ScoresMove ==
  ASSUME Len(posted) \in Nat, NEW all, \A q \in Posts : all[q] \in Nat \union {Null},
         NEW pool, NEW older \in Nat, older < Len(posted),
         \A j \in 1 .. Len(posted) - older : pool[j] = all[j + older],
         NEW p \in Posts, p > older, older = 0 \/ p - Lookback > older
  PROVE  Score(pool, p - older) = Reference(all, p)
<1> DEFINE len == Len(posted)
           i == p - older
<1>1. /\ len \in Nat /\ Lookback \in Nat /\ MinPosts \in Nat \ {0} /\ Posts = 1 .. len /\ p \in 1 .. len
      /\ older \in Int /\ older >= 0 /\ older < len
  BY StatsAssumption DEF Posts
<1>2. \A j \in 1 .. len - older : pool[j] = all[j + older]
  OBVIOUS
<1> HIDE DEF len
<1>3. i \in 1 .. len - older /\ i + older = p /\ (older = 0 \/ i - Lookback > 0)
  BY <1>1
<1>4. pool[i] = all[p]
  BY <1>2, <1>3
<1> HIDE DEF i
<1> DEFINE S == Prior(pool, i)
           R == {q \in Posts : q < p /\ q >= p - Lookback /\ all[q] # Null}
           n == Cardinality(R)
<1>5. \A q \in S : q \in 1 .. len - older /\ q \in Int
  BY <1>2, <1>3, <1>1 DEF Prior
<1>6. \A q \in S : pool[q] = all[q + older] /\ all[q + older] # Null /\ q + older \in Posts
  <2>1. ASSUME NEW q \in S PROVE pool[q] = all[q + older] /\ pool[q] # Null /\ q + older \in 1 .. len
    <3>1. q \in 1 .. len - older /\ pool[q] # Null
      BY <1>5 DEF Prior
    <3>2. pool[q] = all[q + older]
      BY <3>1, <1>2
    <3>3. q + older \in 1 .. len
      BY <3>1, <1>1, <1>2
    <3> QED
      BY <3>1, <3>2, <3>3
  <2> QED
    BY <2>1, <1>1
<1>7. (\A q \in S : q + older \in R) /\ (\A r \in R : \E q \in S : r = q + older)
  <2>1. ASSUME NEW q \in S PROVE q + older \in R
    <3>1. q >= i - Lookback /\ q < i /\ q \in Int
      BY <1>5, <1>3, <1>1, <1>2 DEF Prior
    <3>2. q + older < p /\ q + older >= p - Lookback
      BY <3>1, <1>3, <1>1, <1>2
    <3> QED
      BY <3>2, <1>6
  <2>2. ASSUME NEW r \in R PROVE r - older \in S /\ r = (r - older) + older
    <3>1. r \in 1 .. len /\ r < p /\ r >= p - Lookback /\ all[r] # Null
      BY <1>1
    <3>2. r - older >= 1
      BY <3>1, <1>1, <1>2, <1>3
    <3>3. r - older \in 1 .. i - 1 /\ r - older >= i - Lookback /\ r - older \in 1 .. len - older
      BY <3>1, <3>2, <1>1, <1>2, <1>3
    <3>4. pool[r - older] = all[r]
      BY <3>3, <3>1, <1>2, <1>1
    <3>5. r - older \in S
      BY <3>1, <3>3, <3>4 DEF Prior
    <3>6. r = (r - older) + older
      BY <3>1, <1>1, <1>2
    <3> QED
      BY <3>5, <3>6
  <2> QED
    BY <2>1, <2>2
<1>8. IsFiniteSet(S) /\ IsFiniteSet(R) /\ S \subseteq Int
  <2>1. IsFiniteSet(1 .. len - older) /\ IsFiniteSet(1 .. len)
    BY <1>1, <1>2, FS_Interval
  <2>2. S \subseteq 1 .. len - older /\ R \subseteq 1 .. len
    BY <1>5, <1>1
  <2> QED
    BY <2>1, <2>2, <1>5, FS_Subset
<1>9. (\A q \in S : pool[q] \in Int) /\ (\A q \in R : all[q] \in Int)
  <2>1. \A q \in Posts : all[q] = Null \/ all[q] \in Int
    OBVIOUS
  <2>2. \A q \in S : pool[q] \in Int
    BY <2>1, <1>6
  <2> QED
    BY <2>1, <2>2
<1>10. PICK order \in Sortings(pool, S) : order = Ascending(pool, S)
  <2>1. Sortings(pool, S) # {}
    BY <1>8, <1>9, PostsCanBeSorted
  <2> QED
    BY <2>1 DEF Sortings, Ascending
<1>11. Cardinality(S) = n /\ n \in Nat
      /\ \E h \in Sortings(all, R) : \A j \in 1 .. n : h[j] = order[j] + older
  <2>1. \A q \in S : all[q + older] = pool[q]
    BY <1>6
  <2>2. older \in Int
    BY <1>1
  <2> HIDE DEF S, R
  <2>3. /\ Cardinality(R) = Cardinality(S)
        /\ \E h \in Sortings(all, R) : \A j \in 1 .. Cardinality(S) : h[j] = order[j] + older
    <3>1. Moved(S, pool, R, all, older)
      BY <2>1, <2>2, <1>7, <1>8 DEF Moved
    <3> QED
      BY <3>1, SortingsMove
  <2> QED
    BY <2>3, <1>8, FS_CardinalityType
<1>12. ASSUME NEW j \in 1 .. n PROVE Nth(all, R, j) = pool[order[j]]
  <2>1. order[j] \in S
    BY <1>10, <1>11 DEF Sortings, Bijection, Injection
  <2>2. PICK h \in Sortings(all, R) : \A l \in 1 .. n : h[l] = order[l] + older
    BY <1>11
  <2>3. Nth(all, R, j) = all[h[j]]
    <3>1. j \in 1 .. Cardinality(R)
      OBVIOUS
    <3> HIDE DEF R
    <3> QED
      BY <3>1, <1>8, <1>9, NthOfSorting
  <2> QED
    BY <2>1, <2>2, <2>3, <1>6
<1> DEFINE middle == Nth(all, R, (n + 1) \div 2) + Nth(all, R, (n \div 2) + 1)
<1>13. n >= MinPosts => TwiceMedian(pool, S) = middle
  <2> SUFFICES ASSUME n >= MinPosts PROVE TwiceMedian(pool, S) = middle
    OBVIOUS
  <2> HIDE DEF R
  <2>1. n >= 1
    BY <1>1, <1>11
  <2> HIDE DEF n
  <2>2. (n + 1) \div 2 \in 1 .. n /\ (n \div 2) + 1 \in 1 .. n
    BY <2>1, <1>11
  <2> HIDE DEF S
  <2>3. TwiceMedian(pool, S) = pool[order[(n + 1) \div 2]] + pool[order[(n \div 2) + 1]]
    BY <1>10, <1>11 DEF TwiceMedian
  <2> QED
    BY <2>2, <2>3, <1>12
<1>14. n \in Nat /\ (n < MinPosts \/ n >= MinPosts)
  <2> HIDE DEF n
  <2> QED
    BY <1>11, <1>1
<1>15. Score(pool, i) = IF n < MinPosts \/ all[p] = Null \/ TwiceMedian(pool, S) = 0
                       THEN Null ELSE Rounded(200 * all[p], TwiceMedian(pool, S))
  <2> HIDE DEF n
  <2> QED
    BY <1>4, <1>11 DEF Score
<1>16. Reference(all, p) = IF n < MinPosts \/ all[p] = Null \/ middle = 0
                          THEN Null ELSE Rounded(200 * all[p], middle)
  BY DEF Reference
<1>17. Score(pool, i) = Reference(all, p)
  <2> HIDE DEF n, middle, S
  <2> QED
    BY <1>13, <1>14, <1>15, <1>16, Zenon
<1> QED
  BY <1>17 DEF i

(* What is fetched if the last n posts are asked for.                      *)
IsPool(pool, all, n) ==
  pool = SubSeq(all, IF n < Len(posted) THEN Len(posted) - n + 1 ELSE 1, Len(posted))

(* The scores of the last k posts are right if Lookback more are fetched.  *)
LEMMA ScoresAreReference ==
  ASSUME Len(posted) \in Nat, NEW all, \A q \in Posts : all[q] \in Nat \union {Null},
         NEW k \in Nat, NEW n, n = k + Lookback, NEW pool,
         IsPool(pool, all, n),
         NEW p \in Posts, p > Len(posted) - k
  PROVE  p \in DOMAIN Scores(pool, k) /\ Scores(pool, k)[p] = Reference(all, p)
<1> DEFINE len == Len(posted)
           a == IF n < len THEN len - n + 1 ELSE 1
           older == a - 1
<1>1. len \in Nat /\ Lookback \in Nat /\ n \in Nat /\ p \in 1 .. len /\ k >= 1 /\ p > len - k
  BY StatsAssumption DEF Posts
<1>2. a \in 1 .. len /\ older \in Nat /\ older < len /\ p > older /\ (older = 0 \/ p - Lookback > older)
  <2> HIDE DEF len
  <2>1. CASE n < len
    BY <2>1, <1>1
  <2>2. CASE ~ n < len
    BY <2>2, <1>1
  <2> QED
    BY <2>1, <2>2
<1>3. pool = SubSeq(all, a, len)
  BY DEF IsPool
<1> HIDE DEF a
<1>4. Len(pool) = len - a + 1 /\ \A j \in 1 .. len - a + 1 : pool[j] = all[j + (a - 1)]
  <2> HIDE DEF len
  <2>1. len \in Nat /\ a \in 1 .. len
    BY <1>1, <1>2
  <2> QED
    BY <2>1, <1>3, PoolIsTheEnd
<1> DEFINE L == Len(pool)
<1>5. L = len - a + 1
  BY <1>4
<1> HIDE DEF L, len
<1>6. len - a + 1 = len - older /\ len - L = older
  BY <1>1, <1>2, <1>5
<1>7. \A j \in 1 .. len - older : pool[j] = all[j + older]
  BY <1>4, <1>6
<1> HIDE DEF older
<1>8. Score(pool, p - older) = Reference(all, p)
  BY <1>2, <1>7, ScoresMove DEF len
<1>9. Scores(pool, k) = [q \in {r \in Posts : r > len - k} |-> Score(pool, q - older)]
  BY <1>6 DEF Scores, L, len
<1> QED
  BY <1>1, <1>8, <1>9

(* The latest metric of a post is a number, or NULL.                       *)
MetricsTyped == Len(posted) \in Nat /\ \A q \in Posts : Metrics[q] \in Nat \union {Null}

(* So it is after any history.                                             *)
LEMMA MetricsAreNumbers == Recorded /\ NothingAhead => MetricsTyped
<1> SUFFICES ASSUME Recorded, NothingAhead PROVE MetricsTyped
  OBVIOUS
<1>1. Len(posted) \in Nat
  BY LenProperties DEF Recorded
<1>2. ASSUME NEW q \in Posts PROVE Metrics[q] \in Nat \union {Null}
  <2>1. CASE DaysOf(q) = {}
    <3>1. Metrics[q] = Blank.likes
      BY <2>1 DEF Metrics, Latest, Blank, Usable, HasViews
    <3> QED
      BY <3>1 DEF Blank
  <2>2. CASE DaysOf(q) # {}
    <3>1. LastDay(q) \in DaysOf(q) /\ Latest(q) = snaps[q][LastDay(q)]
      BY <2>2, RowsOfPost
    <3>2. Latest(q).views \in Nat \union {Null} /\ Latest(q).likes \in Nat \union {Null}
      BY <3>1, RowsOfPost
    <3> QED
      BY <3>2 DEF Metrics, Usable
  <2> QED
    BY <2>1, <2>2
<1> QED
  BY <1>1, <1>2 DEF MetricsTyped

(* The same after a step.                                                  *)
LEMMA MetricsStayNumbers == Recorded' /\ NothingAhead' => MetricsTyped'
BY MetricsAreNumbers, PTL

(* What is fetched if the last n posts are asked for is enough for those   *)
(* that are not cut.                                                       *)
LEMMA UncutIsReference ==
  ASSUME Len(posted) \in Nat, NEW all, \A q \in Posts : all[q] \in Nat \union {Null},
         NEW n \in Nat, NEW pool, IsPool(pool, all, n),
         NEW p \in Posts, p > Len(posted) - n, ~ Cut(p, n)
  PROVE  Scores(pool, n)[p] = Reference(all, p)
<1> DEFINE len == Len(posted)
           a == IF n < len THEN len - n + 1 ELSE 1
           older == a - 1
<1>1. len \in Nat /\ Lookback \in Nat /\ p \in 1 .. len /\ n >= 1 /\ p > len - n
  BY StatsAssumption DEF Posts
<1>2. ~ (n < len /\ p - Lookback <= len - n)
  BY DEF Cut
<1>3. a \in 1 .. len /\ older \in Nat /\ older < len /\ p > older /\ (older = 0 \/ p - Lookback > older)
  <2> HIDE DEF len
  <2>1. CASE n < len
    BY <2>1, <1>1, <1>2
  <2>2. CASE ~ n < len
    BY <2>2, <1>1
  <2> QED
    BY <2>1, <2>2
<1>4. pool = SubSeq(all, a, len)
  BY DEF IsPool
<1> HIDE DEF a
<1>5. Len(pool) = len - a + 1 /\ \A j \in 1 .. len - a + 1 : pool[j] = all[j + (a - 1)]
  <2> HIDE DEF len
  <2>1. len \in Nat /\ a \in 1 .. len
    BY <1>1, <1>3
  <2> QED
    BY <2>1, <1>4, PoolIsTheEnd
<1> DEFINE L == Len(pool)
<1>6. L = len - a + 1
  BY <1>5
<1> HIDE DEF L, len
<1>7. len - a + 1 = len - older /\ len - L = older
  BY <1>1, <1>3, <1>6
<1>8. \A j \in 1 .. len - older : pool[j] = all[j + older]
  BY <1>5, <1>7
<1> HIDE DEF older
<1>9. Score(pool, p - older) = Reference(all, p)
  BY <1>3, <1>8, ScoresMove DEF len
<1>10. Scores(pool, n) = [q \in {r \in Posts : r > len - n} |-> Score(pool, q - older)]
  BY <1>7 DEF Scores, L, len
<1> QED
  BY <1>1, <1>9, <1>10

(* The latest posts, of all formats, are not cut.                          *)
LEMMA LatestAreUncut ==
  ASSUME Len(posted) \in Nat, NEW p \in Posts,
         Cardinality({q \in {r \in Posts : r > Len(posted) - (Limit + Lookback)} : q > p}) < Limit,
         p > Len(posted) - (Limit + Lookback)
  PROVE  ~ Cut(p, Limit + Lookback)
<1> DEFINE len == Len(posted)
<1>1. len \in Nat /\ Limit \in Nat /\ Lookback \in Nat /\ p \in 1 .. len /\ Posts = 1 .. len
  BY StatsAssumption DEF Posts
<1>2. {q \in {r \in Posts : r > len - (Limit + Lookback)} : q > p} = p + 1 .. len
  <2> HIDE DEF len
  <2>1. p > len - (Limit + Lookback)
    BY DEF len
  <2> QED
    BY <2>1, <1>1
<1>3. Cardinality(p + 1 .. len) = len - p
  <2> HIDE DEF len
  <2>1. p + 1 \in Int /\ len \in Int
    BY <1>1
  <2>2. Cardinality(p + 1 .. len) = IF p + 1 > len THEN 0 ELSE len - (p + 1) + 1
    BY <2>1, FS_Interval
  <2> QED
    BY <2>2, <1>1
<1>4. len - p < Limit
  BY <1>2, <1>3
<1> HIDE DEF len
<1>5. p - Lookback > len - (Limit + Lookback)
  BY <1>1, <1>4
<1> QED
  BY <1>1, <1>5 DEF Cut, len

(* A page shows what the whole history gives a post that is not cut.       *)
LEMMA ShownIsReference ==
  History =>
    \A best, filtered \in BOOLEAN : \A p \in DOMAIN Shown(best, filtered) :
      \/ Shown(best, filtered)[p] = Reference(Metrics, p)
      \/ (best \/ filtered) /\ Cut(p, Fetched(best, filtered))
<1> SUFFICES ASSUME History, NEW best \in BOOLEAN, NEW filtered \in BOOLEAN,
                    NEW p \in DOMAIN Shown(best, filtered)
             PROVE  \/ Shown(best, filtered)[p] = Reference(Metrics, p)
                    \/ (best \/ filtered) /\ Cut(p, Fetched(best, filtered))
  OBVIOUS
<1> DEFINE n == Fetched(best, filtered)
           pool == LastPosts(n)
           scores == Scores(pool, n)
<1>1. Len(posted) \in Nat /\ \A q \in Posts : Metrics[q] \in Nat \union {Null}
  BY MetricsAreNumbers DEF History, MetricsTyped
<1>2. n \in Nat /\ (~ best /\ ~ filtered => n = Limit + Lookback)
  BY StatsAssumption DEF Fetched
<1>3. IsPool(pool, Metrics, n)
  BY DEF LastPosts, IsPool
<1>4. DOMAIN scores = {q \in Posts : q > Len(posted) - n}
  BY DEF Scores
<1>5. /\ p \in DOMAIN scores /\ Shown(best, filtered)[p] = scores[p]
      /\ ~ best /\ ~ filtered => Cardinality({q \in DOMAIN scores : q > p}) < Limit
  <2> HIDE DEF n
  <2> DEFINE listed == {q \in DOMAIN scores : filtered => q \in Shorts}
             alike(q, r) == scores[q] = scores[r] /\ OrZero(Metrics[q]) = OrZero(Metrics[r])
             better(q, r) == \/ scores[q] > scores[r]
                             \/ scores[q] = scores[r] /\ OrZero(Metrics[q]) > OrZero(Metrics[r])
             ahead(q, r) == (best /\ better(q, r)) \/ ((best => alike(q, r)) /\ q > r)
  <2>1. Shown(best, filtered) =
          [q \in {r \in listed : Cardinality({u \in listed : ahead(u, r)}) < Limit} |-> scores[q]]
    BY DEF Shown, n
  <2> HIDE DEF scores
  <2>2. p \in listed /\ Cardinality({u \in listed : ahead(u, p)}) < Limit /\ Shown(best, filtered)[p] = scores[p]
    BY <2>1
  <2>3. ASSUME ~ best, ~ filtered PROVE Cardinality({q \in DOMAIN scores : q > p}) < Limit
    <3>1. {u \in listed : ahead(u, p)} = {q \in DOMAIN scores : q > p}
      BY <2>3
    <3> QED
      BY <3>1, <2>2
  <2> QED
    BY <2>2, <2>3
<1>6. p \in Posts /\ p > Len(posted) - n
  BY <1>4, <1>5
<1> HIDE DEF n, pool
<1>7. ~ Cut(p, n) => scores[p] = Reference(Metrics, p)
  BY <1>1, <1>2, <1>3, <1>6, UncutIsReference
<1>8. ASSUME ~ best, ~ filtered PROVE ~ Cut(p, n)
  <2>1. Cardinality({q \in {r \in Posts : r > Len(posted) - (Limit + Lookback)} : q > p}) < Limit
    BY <1>2, <1>4, <1>5, <1>8
  <2> QED
    BY <2>1, <1>1, <1>2, <1>6, <1>8, LatestAreUncut
<1> QED
  BY <1>5, <1>7, <1>8 DEF n

(* What a recomputation stores is the score of the whole history.          *)
LEMMA StoredIsReference ==
  History /\ History' /\ [StatsNext]_tables
  => [stored' # stored =>
        \A metrics \in {Metrics'}, p \in Posts :
           p > Len(posted) - Rescored => stored'[p] = Reference(metrics, p)]_tables
<1> SUFFICES ASSUME History, History', [StatsNext]_tables, stored' # stored,
                    NEW p \in Posts, p > Len(posted) - Rescored
             PROVE  stored'[p] = Reference(Metrics', p)
  BY DEF tables
<1>1. PICK q \in Posts, row \in Readings[subject] : Scrape(q, row)
  BY DEF StatsNext, NextDay, ReadProfile, Publish, tables
<1>2. posted' = posted /\ Recompute
  BY <1>1 DEF Scrape
<1>3. Posts' = Posts
  BY <1>2 DEF Posts
<1>4. Len(posted) \in Nat /\ \A r \in Posts : Metrics'[r] \in Nat \union {Null}
  BY <1>2, <1>3, MetricsStayNumbers DEF History, MetricsTyped
<1>5. Rescored \in Nat /\ Posts \subseteq Numbers
  BY StatsAssumption, PostsAreNumbers DEF History
<1>6. PICK pool : IsPool(pool, Metrics', Rescored + Lookback) /\ stored' = WithScores(Scores(pool, Rescored))
  BY <1>2 DEF Recompute, LastPosts, IsPool
<1>7. /\ p \in DOMAIN Scores(pool, Rescored)
      /\ Scores(pool, Rescored)[p] = Reference(Metrics', p)
  BY <1>4, <1>5, <1>6, ScoresAreReference
<1> QED
  BY <1>5, <1>6, <1>7 DEF WithScores

(* In every state the tables are a history of scrapes.                     *)
THEOREM HistoryKept == StatsSpec => []History
<1>1. StatsInit => History
  BY HistoryInitially
<1>2. History /\ [StatsNext]_tables => History'
  BY HistoryIsPreserved
<1> QED
  BY <1>1, <1>2, PTL DEF StatsSpec

(* recompute_outlier_metrics gives a post the score that all posts before  *)
(* it give it, however few of them it fetches; so does get_post_performance*)
(* on the page of the latest posts, and on the others but for the posts at *)
(* the end of what it fetches.                                             *)
THEOREM ScoresStayRight == StatsSpec => ScoresAgree
<1>1. History =>
        \A best, filtered \in BOOLEAN : \A p \in DOMAIN Shown(best, filtered) :
          \/ Shown(best, filtered)[p] = Reference(Metrics, p)
          \/ (best \/ filtered) /\ Cut(p, Fetched(best, filtered))
  BY ShownIsReference
<1>2. History /\ History' /\ [StatsNext]_tables
      => [stored' # stored =>
            \A metrics \in {Metrics'}, p \in Posts :
               p > Len(posted) - Rescored => stored'[p] = Reference(metrics, p)]_tables
  BY StoredIsReference
<1> QED
  BY <1>1, <1>2, HistoryKept, PTL DEF StatsSpec, ScoresAgree

(* _detect_milestones announces a threshold on the first day that reaches  *)
(* it, and _get_earnings_series pays for the rises between readings, those *)
(* over days without one included, and for nothing else; both tell one     *)
(* broken reading at the start from growth, and only one.                  *)
THEOREM GrowthStaysReal == StatsSpec => []GrowthIsReal
<1>1. History => GrowthIsReal
  BY MilestonesHold, PaymentsHold DEF History, GrowthIsReal
<1> QED
  BY <1>1, HistoryKept, PTL

(* _instagram_views_in_window counts no views that a post had when it was  *)
(* first read, whatever is read of it and when, but for the posts whose row*)
(* before the window lacks the number that the latest one has.             *)
THEOREM GainsStaySeen == StatsSpec => []GainsWereSeen
<1>1. History => GainsWereSeen
  BY GainsHold DEF History
<1> QED
  BY <1>1, HistoryKept, PTL

(* get_summary and the charts tell the same gains when they look back to   *)
(* the same day: the growth of the profile from reading to reading, and the*)
(* views of posts that have them at both ends.                             *)
THEOREM WindowsStayEqual == StatsSpec => []WindowsAgree
<1>1. History => WindowsAgree
  BY SummaryHolds, ChartHolds DEF History, WindowsAgree
<1> QED
  BY <1>1, HistoryKept, PTL
=============================================================================
