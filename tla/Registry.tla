------------------------------- MODULE Registry -------------------------------
(***************************************************************************)
(* The registration of influencers and their grouping into creators:       *)
(* requests of the admin API that register one handle or import a          *)
(* spreadsheet, that correct a handle and link it to a creator by name,    *)
(* that rename and delete.                                                 *)
(*                                                                         *)
(* Requests run side by side, each in a session of its own.  A SELECT sees *)
(* what is committed; an INSERT or UPDATE that has been flushed is seen by *)
(* the others as a lock: whoever writes the same key or row waits for its  *)
(* commit or rollback, and of two who wait for each other the database     *)
(* ends one.                                                               *)
(***************************************************************************)
EXTENDS Naturals, Sequences, FiniteSets

CONSTANTS
  Requests,   (* requests that are served at a time                          *)
  Handles,    (* platform and handle, normalised                             *)
  Keys,       (* names of creators, but for their capitals                   *)
  Ids, Rows,  (* bound: rows of creators and of influencers                  *)
  None,       (* none of these                                               *)
  MaxAsked    (* bound: requests                                             *)

ASSUME ConstantsAssumption ==
  /\ None \notin Requests \union Handles \union Ids \union Rows \union (Keys \X {"plain", "capital"})
  /\ None \notin [handle : Handles, group : Ids \union {None}]
  /\ MaxAsked \in Nat

Names   == Keys \X {"plain", "capital"}
Fold(n) == n[1]

VARIABLES
  creators,   (* creators[c]: the name in a row of creators, or None         *)
  rows,       (* rows[w]: handle and creator_id of an influencer, or None    *)
  category,   (* whether the category of all of them is there                *)
  req,        (* req[r]: what request r has still to do, and its transaction *)
  asked,      (* requests so far; bound                                      *)
  given,      (* given[w]: the name that w was put under, until its group is *)
              (* renamed or left                                             *)
  deserted,   (* the creators that have lost a member                        *)
  late,       (* the requests during which, after they had looked for a      *)
              (* creator in vain, one has come by the name in some capitals  *)
  apart       (* the creators that such requests have made, and those that   *)
              (* were renamed to what another is called in other capitals    *)

database == <<creators, rows, category, given, deserted, apart>>
data   == <<database, late>>
vars   == <<data, req, asked>>

(* A handle to register under a name: alone in its row of the spreadsheet, *)
(* as in a single request, or one of the two of a row.                     *)
Items == [handle : Handles, name : Names, place : {"only", "first", "second"}]

(* at: what is next; edits, seen: the influencer to update, and its group  *)
(* as it was read; to: whether the group is to be that of a name, none, or *)
(* as it is; todo: what to register; found, fresh: the creator that was    *)
(* found, or inserted; held: the handle that was flushed.                  *)
Idle == [at |-> "idle", edits |-> None, seen |-> None, to |-> "name", todo |-> << >>,
         found |-> None, fresh |-> None, held |-> None]

Present(w) == rows[w] # None
Exists(c)  == creators[c] # None

TypeOK ==
  /\ \A c \in Ids : Exists(c) => creators[c] \in Names
  /\ \A w \in Rows : Present(w) =>
       /\ rows[w].handle \in Handles
       /\ rows[w].group # None => rows[w].group \in Ids /\ Exists(rows[w].group)
  /\ category \in BOOLEAN
  /\ \A r \in Requests :
       /\ req[r].at \in {"idle", "flush", "look", "group", "save"}
       /\ req[r].edits \in Rows \union {None} /\ req[r].todo \in Seq(Items)
       /\ req[r].to \in {"name", "none", "same"}
       /\ {req[r].seen, req[r].found, req[r].fresh} \subseteq Ids \union {None}
       /\ req[r].held \in Handles \union {None}
  /\ asked \in 0 .. MaxAsked
  /\ given \in [Rows -> Names \union {None}]
  /\ deserted \subseteq Ids /\ apart \subseteq Ids
  /\ late \subseteq Requests

Init ==
  /\ creators = [c \in Ids |-> None]
  /\ rows = [w \in Rows |-> None]
  /\ category = TRUE
  /\ req = [r \in Requests |-> Idle]
  /\ asked = 0
  /\ given = [w \in Rows |-> None]
  /\ deserted = {} /\ apart = {}
  /\ late = {}

-----------------------------------------------------------------------------
(* Transactions.                                                           *)

Item(r) == Head(req[r].todo)
Name(r) == Item(r).name
At(r, place) == req[r].at = place

Others(r) == Requests \ {r}
NameIsLocked(r, n)   == \E q \in Others(r) : req[q].fresh # None /\ Name(q) = n
HandleIsLocked(r, h) == \E q \in Others(r) : req[q].held = h
RowIsLocked(r, w)    == \E q \in Others(r) : req[q].held # None /\ req[q].edits = w

(* Keys are never given twice.                                             *)
Used(c)  == Exists(c) \/ \E r \in Requests : c \in {req[r].fresh, req[r].found, req[r].seen}
IsNew(w) == ~Present(w) /\ \A r \in Requests : req[r].edits # w
Taken(h) == \E w \in Rows : Present(w) /\ rows[w].handle = h
Others2(w, h) == \E v \in Rows \ {w} : Present(v) /\ rows[v].handle = h

(* Whatever was flushed is rolled back.                                    *)
Ended(r) == req' = [req EXCEPT ![r] = Idle]

(* On to what is left of the import, if anything is.                       *)
Turns(r, todo) ==
  req' = [req EXCEPT ![r] = IF todo = << >> THEN Idle
                            ELSE [Idle EXCEPT !.at = "look", !.todo = todo]]

(* delete of a creator or of an influencer, and leaving a group.           *)
Left(ws) ==
  /\ deserted' = deserted \union ({rows[w].group : w \in {v \in ws : Present(v)}} \ {None})
  /\ given' = [w \in Rows |-> IF w \in ws THEN None ELSE given[w]]

-----------------------------------------------------------------------------
(* Registering and importing.                                              *)

Asked == asked < MaxAsked /\ asked' = asked + 1

Single(h, n)    == <<[handle |-> h, name |-> n, place |-> "only"]>>
BothOf(h, k, n) == <<[handle |-> h, name |-> n, place |-> "first"], [handle |-> k, name |-> n, place |-> "second"]>>

(* register_influencer, or the import of a row of both or of two rows.     *)
Register(r) ==
  /\ Asked /\ At(r, "idle")
  /\ \E h \in Handles, n \in Names :
       \/ Turns(r, Single(h, n))
       \/ \E k \in Handles \ {h} : Turns(r, BothOf(h, k, n))
       \/ \E k \in Handles, m \in Names : Turns(r, Single(h, n) \o Single(k, m))
  /\ UNCHANGED data

(* Where an update goes on behind the handle.                              *)
Onward(to) == IF to = "name" THEN "look" ELSE "save"

(* update_details: another handle, or the same, and a name to link to, a   *)
(* blank one to unlink, or none.                                           *)
Edit(r) ==
  /\ Asked /\ At(r, "idle")
  /\ \E w \in Rows, h \in Handles, n \in Names, to \in {"name", "none", "same"} :
       /\ Present(w)
       /\ req' = [req EXCEPT ![r] =
            [Idle EXCEPT !.at = IF h = rows[w].handle THEN Onward(to) ELSE "flush", !.edits = w,
                         !.seen = rows[w].group, !.to = to, !.todo = Single(h, n)]]
  /\ UNCHANGED data

(* The new handle is flushed in front of the first statement that follows: *)
(* outside of the handler for duplicates.                                  *)
Flush(r) ==
  LET h == Item(r).handle IN
  /\ At(r, "flush")
  /\ ~HandleIsLocked(r, h) /\ ~RowIsLocked(r, req[r].edits)
  /\ IF Present(req[r].edits) /\ ~Others2(req[r].edits, h)
     THEN req' = [req EXCEPT ![r].at = Onward(req[r].to), ![r].held = h]
     ELSE Ended(r)
  /\ UNCHANGED <<data, asked>>

(* The creators of a name, whatever the capitals.                          *)
Called(n) == {c \in Ids : Exists(c) /\ Fold(creators[c]) = Fold(n)}

(* Those who have looked for it in vain.                                   *)
Missing(n) == {r \in Requests : (At(r, "group") \/ req[r].fresh # None) /\ Fold(Name(r)) = Fold(n)}

(* Faulty variant: compares to the letter.                                 *)
Look_Exactly(r) ==
  LET same == {c \in Ids : Exists(c) /\ creators[c] = Name(r)} IN
  /\ At(r, "look")
  /\ \/ same = {} /\ req' = [req EXCEPT ![r].at = "group"]
     \/ \E c \in Ids : same = {c} /\ req' = [req EXCEPT ![r].at = "save", ![r].found = c]
  /\ late' = late \ {r}
  /\ UNCHANGED <<database, asked>>

(* get_or_create_by_name; two are one too many.                            *)
Look(r) ==
  LET same == Called(Name(r)) IN
  /\ At(r, "look")
  /\ IF req[r].edits = None /\ ~category /\ Item(r).place # "second"
     THEN Turns(r, SubSeq(req[r].todo, IF Item(r).place = "first" THEN 3 ELSE 2, Len(req[r].todo)))
     ELSE \/ same = {} /\ req' = [req EXCEPT ![r].at = "group"]
          \/ Cardinality(same) > 1 /\ Ended(r)
          \/ \E c \in Ids : same = {c} /\ req' = [req EXCEPT ![r].at = "save", ![r].found = c]
  /\ late' = late \ {r}
  /\ UNCHANGED <<database, asked>>

(* Faulty variant: commits the creator ahead of its influencer.            *)
Group_Committed(r) ==
  /\ At(r, "group")
  /\ ~NameIsLocked(r, Name(r))
  /\ IF \E c \in Ids : creators[c] = Name(r) THEN Ended(r) /\ UNCHANGED creators
     ELSE LET c == CHOOSE c \in Ids : ~Used(c)
          IN /\ creators' = [creators EXCEPT ![c] = Name(r)]
             /\ req' = [req EXCEPT ![r].at = "save", ![r].found = c]
  /\ (\E c \in Ids : ~Used(c)) /\ UNCHANGED <<rows, category, asked, given, deserted, late, apart>>

(* There was none: a new one is flushed.  The name, to the letter, is      *)
(* unique.                                                                 *)
Group(r) ==
  /\ At(r, "group")
  /\ ~NameIsLocked(r, Name(r))
  /\ IF \E c \in Ids : creators[c] = Name(r) THEN Ended(r)
     ELSE \E c \in Ids :
            /\ ~Used(c) /\ c = CHOOSE d \in Ids : ~Used(d)
            /\ req' = [req EXCEPT ![r].at = "save", ![r].fresh = c]
  /\ UNCHANGED <<data, asked>>

(* The group of the transaction, if it is still there.                     *)
GroupOf(r) == IF req[r].fresh # None THEN req[r].fresh ELSE req[r].found

(* Faulty variant: the column is no foreign key.                           *)
Linkable_Any(r) == TRUE

Linkable(r) == req[r].found \in {None} \union {c \in Ids : Exists(c)}

(* w is committed with this handle and group, and the creator with it.     *)
Saved(r, w, h, group) ==
  LET made   == req[r].fresh # None
      before == IF Present(w) THEN rows[w].group ELSE None
      named  == req[r].to = "name" /\ group = GroupOf(r) /\ (made \/ group \in Called(Name(r))) IN
  /\ creators' = IF made THEN [creators EXCEPT ![req[r].fresh] = Name(r)] ELSE creators
  /\ rows' = [rows EXCEPT ![w] = [handle |-> h, group |-> group]]
  /\ given' = [given EXCEPT ![w] = IF named THEN Name(r) ELSE IF before = group THEN @ ELSE None]
  /\ deserted' = (deserted \union ({before} \ {None, group})) \ {req[r].fresh}
  /\ apart' = IF made /\ r \in late THEN apart \union {req[r].fresh} ELSE apart
  /\ late' = IF made THEN late \union Missing(Name(r)) ELSE late

(* InfluencerRepo.create commits.                                          *)
Insert(r) ==
  LET h == Item(r).handle IN
  /\ At(r, "save") /\ req[r].edits = None
  /\ ~HandleIsLocked(r, h)
  /\ ~Taken(h) /\ category /\ Linkable(r)
  /\ \E w \in Rows : IsNew(w) /\ w = (CHOOSE v \in Rows : IsNew(v)) /\ Saved(r, w, h, GroupOf(r))
  /\ Turns(r, Tail(req[r].todo))
  /\ UNCHANGED <<category, asked>>

(* Faulty variant: without the rollback.                                   *)
Refuse_NoRollback(r) ==
  LET h == Item(r).handle IN
  /\ At(r, "save") /\ req[r].edits = None
  /\ ~HandleIsLocked(r, h)
  /\ Taken(h) \/ ~category \/ ~Linkable(r)
  /\ req' = [req EXCEPT ![r].at = "idle"]
  /\ UNCHANGED <<data, asked>>

(* ... or, for any constraint, rolls back and reports a duplicate.  The    *)
(* rollback expires the category that run_bulk_import goes on to read for  *)
(* the second handle of the row: the import ends with an error.            *)
Refuse(r) ==
  LET h == Item(r).handle IN
  /\ At(r, "save") /\ req[r].edits = None
  /\ ~HandleIsLocked(r, h)
  /\ Taken(h) \/ ~category \/ ~Linkable(r)
  /\ IF Item(r).place = "first" THEN Ended(r) ELSE Turns(r, Tail(req[r].todo))
  /\ UNCHANGED <<data, asked>>

(* update_details commits.  A group that is the one it has read is not     *)
(* written; a row that is gone, or a group, is an error.                   *)
Update(r) ==
  LET w      == req[r].edits
      wanted == IF req[r].to = "same" THEN req[r].seen ELSE GroupOf(r) IN
  /\ At(r, "save") /\ w # None
  /\ ~RowIsLocked(r, w)
  /\ IF Present(w) /\ (wanted = req[r].seen \/ Linkable(r))
     THEN Saved(r, w, IF req[r].held = None THEN rows[w].handle ELSE req[r].held,
                IF wanted = req[r].seen THEN rows[w].group ELSE wanted)
     ELSE UNCHANGED <<creators, rows, given, deserted, apart, late>>
  /\ Ended(r)
  /\ UNCHANGED <<category, asked>>

-----------------------------------------------------------------------------
(* What is done in a single statement.                                     *)

(* CreatorRepo.rename.                                                     *)
Rename(c, n) ==
  /\ Asked /\ Exists(c)
  /\ ~NameIsLocked(None, n)
  /\ \A d \in Ids : creators[d] # n
  /\ creators' = [creators EXCEPT ![c] = n]
  /\ given' = [w \in Rows |-> IF Present(w) /\ rows[w].group = c THEN None ELSE given[w]]
  /\ apart' = IF Called(n) \subseteq {c} THEN apart \ {c} ELSE apart \union {c}
  /\ late' = late \union Missing(n)
  /\ UNCHANGED <<rows, category, req, deserted>>

(* CreatorRepo.delete: its influencers stay, on their own.                 *)
DeleteCreator(c) ==
  LET members == {w \in Rows : Present(w) /\ rows[w].group = c} IN
  /\ Asked /\ Exists(c)
  /\ \A w \in members : ~RowIsLocked(None, w)
  /\ creators' = [creators EXCEPT ![c] = None]
  /\ rows' = [w \in Rows |-> IF w \in members THEN [rows[w] EXCEPT !.group = None] ELSE rows[w]]
  /\ given' = [w \in Rows |-> IF w \in members THEN None ELSE given[w]]
  /\ deserted' = deserted \ {c} /\ apart' = apart \ {c}
  /\ UNCHANGED <<category, req, late>>

(* InfluencerRepo.delete of one, and CategoryRepo.delete of all with the   *)
(* category.                                                               *)
DeleteRows(ws) ==
  /\ Asked /\ ws # {}
  /\ \A w \in ws : Present(w) /\ ~RowIsLocked(None, w)
  /\ rows' = [w \in Rows |-> IF w \in ws THEN None ELSE rows[w]]
  /\ Left(ws)
  /\ UNCHANGED <<creators, req, apart, late>>

DeleteInfluencer(w) == DeleteRows({w}) /\ UNCHANGED category

DeleteCategory ==
  /\ category
  /\ DeleteRows({w \in Rows : Present(w)})
  /\ category' = FALSE

(* Who waits for whom.                                                     *)
WaitsFor(r, q) ==
  \/ At(r, "group") /\ req[q].fresh # None /\ Name(q) = Name(r)
  \/ At(r, "save") /\ req[r].edits = None /\ req[q].held = Item(r).handle
  \/ At(r, "save") /\ req[r].edits # None /\ req[q].held # None /\ req[q].edits = req[r].edits

(* The database ends one of two; a process ends with all it serves.        *)
DeadlockFound(r) ==
  /\ \E q \in Others(r) : WaitsFor(r, q) /\ WaitsFor(q, r)
  /\ Ended(r) /\ UNCHANGED <<data, asked>>

Dies(r) == ~At(r, "idle") /\ Ended(r) /\ UNCHANGED <<data, asked>>

-----------------------------------------------------------------------------
Serve(r) == Flush(r) \/ Look(r) \/ Group(r) \/ Insert(r) \/ Refuse(r) \/ Update(r) \/ DeadlockFound(r)

Next ==
  \/ \E r \in Requests : Register(r) \/ Edit(r) \/ Serve(r) \/ Dies(r)
  \/ \E c \in Ids : DeleteCreator(c) \/ \E n \in Names : Rename(c, n)
  \/ \E w \in Rows : DeleteInfluencer(w)
  \/ DeleteCategory

(* A request that can go on does.                                          *)
Spec == Init /\ [][Next]_vars /\ \A r \in Requests : WF_vars(Serve(r))

-----------------------------------------------------------------------------
(* Properties.                                                             *)

(* A registration that fails at its last step leaves no creator behind:    *)
(* whichever has no influencer has lost one.                               *)
NoGroupLeftBehind ==
  \A c \in Ids : Exists(c) => c \in deserted \/ \E w \in Rows : Present(w) /\ rows[w].group = c

(* What get_or_create_by_name is for, so far as it goes: of one spelling   *)
(* there is one creator; of one name in several capitals there is one, and *)
(* influencers put under the name are in one group, unless a creator has   *)
(* come by it while a request that had looked for it was under way, or was *)
(* renamed to it.                                                          *)
SameNameSameGroup ==
  /\ \A c, d \in Ids : Exists(c) /\ Exists(d) /\ c # d /\ Fold(creators[c]) = Fold(creators[d])
                       => creators[c] # creators[d] /\ {c, d} \intersect apart # {}
  /\ \A v, w \in Rows : Present(v) /\ Present(w) /\ given[v] # None /\ given[w] # None
                        /\ Fold(given[v]) = Fold(given[w])
                        => rows[v].group = rows[w].group \/ {rows[v].group, rows[w].group} \intersect apart # {}

(* Locks, deadlocks and refusals keep no request from its end.             *)
RequestsEnd == \A r \in Requests : []<>At(r, "idle")
=============================================================================
