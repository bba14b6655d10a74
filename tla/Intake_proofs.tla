----------------------------- MODULE Intake_proofs -----------------------------
(***************************************************************************)
(* What holds of Intake for any influencers and categories, any number of  *)
(* jobs at a time, of retries, and of acts of the operator.                *)
(***************************************************************************)
EXTENDS Intake, FiniteSetTheorems, TLAPS

-----------------------------------------------------------------------------
(* Types.                                                                  *)

(* A message that is sent is the row of a job that waits.                  *)
LEMMA DispatchMakesAJob ==
  ASSUME TypeOK, NEW i \in Influencers, NEW type \in Types
  PROVE  /\ Dispatched(i, type) \in Jobs
         /\ Dispatched(i, type).of = i /\ ~Dispatched(i, type).ticked
         /\ \A b \in Backends : Message(i, type, b, handle[i]) \in Jobs /\ Message(i, type, b, handle[i]).of = i
<1>1. handle[i] \in Handles /\ 0 \in 0 .. MaxRetries
  BY ConstantsAssumption DEF TypeOK
<1>2. ASSUME NEW b \in Backends
      PROVE  Message(i, type, b, handle[i]) \in Jobs /\ Message(i, type, b, handle[i]).of = i
  BY <1>1, <1>2 DEF Message, Jobs, Statuses, Stages
<1>3. BackendFor(row[i]) \in Backends
  BY DEF BackendFor, Backends
<1>4. ~Message(i, type, "graph", handle[i]).ticked /\ ~Message(i, type, "cookies", handle[i]).ticked
  BY DEF Message
<1> QED
  BY <1>2, <1>3, <1>4 DEF Dispatched, Backends

(* Where it comes from makes no difference to its type.                    *)
LEMMA TickedIsTyped ==
  ASSUME NEW j \in Jobs, NEW b \in BOOLEAN
  PROVE  [j EXCEPT !.ticked = b] \in Jobs /\ [j EXCEPT !.ticked = b].of = j.of
  BY DEF Jobs

(* Free is no job.                                                         *)
LEMMA JobsAreNotFree == \A j \in Jobs : j # Free
  BY DEF Jobs, Free

(* Before the first job nobody has been scraped.                           *)
LEMMA TypeHoldsInitially == Init => TypeOK
<1> SUFFICES ASSUME Init PROVE TypeOK
  OBVIOUS
<1>1. row \in [Influencers -> Rows]
  BY DEF Init, Rows
<1>2. jobs \in [Slots -> Jobs \union {Free}]
  BY DEF Init
<1> QED
  BY <1>1, <1>2, ConstantsAssumption DEF Init, TypeOK

(* A job that is put into a free place leaves the others as they are.      *)
LEMMA PutIsTyped ==
  ASSUME NEW fs \in [Slots -> Jobs \union {Free}], NEW s \in Slots, NEW m \in Jobs, Put(fs, s, m)
  PROVE  jobs' \in [Slots -> Jobs \union {Free}]
  BY DEF Put

(* A failed attempt leaves a job that waits, or none.                      *)
LEMMA EndedIsTyped ==
  ASSUME TypeOK, NEW s \in Slots, jobs[s] # Free
  PROVE  /\ Over(s) \in [Slots -> Jobs \union {Free}]
         /\ Counted(s) \in [Slots -> Jobs \union {Free}]
         /\ Reclaimed(s) \in [Slots -> Jobs \union {Free}]
<1>1. jobs \in [Slots -> Jobs \union {Free}] /\ jobs[s] \in Jobs
  BY DEF TypeOK
<1>2. Over(s) \in [Slots -> Jobs \union {Free}]
  BY <1>1 DEF Over
<1>3. ASSUME NEW again, again => jobs[s].tries < MaxRetries
      PROVE  Ended(s, again) \in [Slots -> Jobs \union {Free}]
  <2>1. CASE again
    <3> DEFINE j == [jobs[s] EXCEPT !.tries = @ + 1, !.status = "retry_pending", !.at = "start", !.seen = Free]
    <3>1. jobs[s].tries + 1 \in 0 .. MaxRetries
      BY <1>1, <1>3, <2>1, ConstantsAssumption DEF Jobs
    <3>2. j \in Jobs
      BY <1>1, <3>1 DEF Jobs, Statuses, Stages
    <3>3. Ended(s, again) = [jobs EXCEPT ![s] = j]
      BY <1>1, <2>1 DEF Ended
    <3> QED
      BY <1>1, <3>2, <3>3
  <2>2. CASE ~again
    BY <1>2, <2>2 DEF Ended
  <2> QED
    BY <2>1, <2>2
<1>4. jobs[s].tries + 1 < MaxRetries => jobs[s].tries < MaxRetries
  BY <1>1, ConstantsAssumption DEF Jobs
<1> QED
  BY <1>2, <1>3, <1>4 DEF Counted, Reclaimed

(* The scheduler and the clock.                                            *)
LEMMA SchedulingIsTyped ==
  ASSUME TypeOK, Scheduling
  PROVE  TypeOK'
<1>1. ASSUME NEW i \in Influencers, FallsDue(i) \/ PassOver(i) \/ Clear(i) PROVE TypeOK'
  BY <1>1 DEF TypeOK, FallsDue, PassOver, Clear, tick, groups
<1>2. CASE Tick
  BY <1>2 DEF TypeOK, Tick, groups
<1>3. ASSUME NEW s \in Slots, DispatchDue(s) PROVE TypeOK'
  <2>1. cleared \in Influencers /\ jobs \in [Slots -> Jobs \union {Free}]
    BY <1>3 DEF DispatchDue, TypeOK, groups
  <2>2. [Dispatched(cleared, "scrape") EXCEPT !.ticked = TRUE] \in Jobs
    BY <2>1, DispatchMakesAJob, TickedIsTyped DEF Types
  <2>3. jobs' \in [Slots -> Jobs \union {Free}]
    BY <1>3, <2>1, <2>2, PutIsTyped DEF DispatchDue
  <2> QED
    BY <1>3, <2>1, <2>3 DEF DispatchDue, TypeOK, groups
<1>4. ASSUME NEW s \in Slots, Retry(s) PROVE TypeOK'
  <2> DEFINE i == jobs[s].of
             sent == [Dispatched(i, jobs[s].type) EXCEPT !.tries = jobs[s].tries, !.ticked = jobs[s].ticked,
                        !.backend = IF jobs[s].type = "enrich" THEN "cookies" ELSE BackendFor(row[i])]
  <2>1. jobs \in [Slots -> Jobs \union {Free}] /\ jobs[s] \in Jobs
    BY <1>4 DEF Retry, TypeOK, groups
  <2>2. i \in Influencers /\ jobs[s].type \in Types /\ jobs[s].tries \in 0 .. MaxRetries /\ jobs[s].ticked \in BOOLEAN
    BY <2>1 DEF Jobs
  <2>3. Dispatched(i, jobs[s].type) \in Jobs /\ BackendFor(row[i]) \in Backends
    BY <2>2, DispatchMakesAJob DEF BackendFor, Backends
  <2>4. sent \in Jobs
    BY <2>2, <2>3 DEF Jobs, Backends
  <2>5. jobs' = [jobs EXCEPT ![s] = sent]
    BY <1>4 DEF Retry
  <2>6. jobs' \in [Slots -> Jobs \union {Free}]
    BY <2>1, <2>4, <2>5
  <2> QED
    BY <1>4, <2>6 DEF Retry, TypeOK, tick, groups
<1> QED
  BY <1>1, <1>2, <1>3, <1>4 DEF Scheduling

(* There is work where there is a job.                                     *)
LEMMA WorkIsOnAJob ==
  ASSUME NEW s \in Slots, Unserved(s) \/ Start(s) \/ Ends(s) \/ Reaped(s)
  PROVE  jobs[s] # Free /\ UNCHANGED <<handle, kind, category, open, backend, cleared, todo, acts>>
  BY DEF Unserved, Start, Ends, GraphEnds, Reaped, Running, Told, Fails, Succeeds, GraphReads, GraphSucceeds,
         EnrichFollows, NotProfessional, FallBack, GivesWay, NotFound, tick, groups

(* The jobs.                                                               *)
LEMMA WorkingIsTyped ==
  ASSUME TypeOK, Working
  PROVE  TypeOK'
<1> PICK s \in Slots : Unserved(s) \/ Start(s) \/ Ends(s) \/ Reaped(s)
  BY DEF Working
<1>1. /\ jobs \in [Slots -> Jobs \union {Free}] /\ jobs[s] \in Jobs
      /\ jobs[s].of \in Influencers
      /\ row \in [Influencers -> Rows]
  BY WorkIsOnAJob DEF TypeOK, Jobs, groups
<1>2. jobs[s] # Free
  BY <1>1, JobsAreNotFree
<1>3. \A fs \in {Over(s), Counted(s), Reclaimed(s)} : fs \in [Slots -> Jobs \union {Free}]
  BY <1>2, EndedIsTyped
<1>4. row[jobs[s].of] \in Rows
  BY <1>1
<1>5. CASE Unserved(s)
  <2>1. [jobs[s] EXCEPT !.status = "retry_pending"] \in Jobs
    BY <1>1 DEF Jobs, Statuses
  <2> QED
    BY <1>1, <1>3, <1>5, <2>1 DEF Unserved, TypeOK, tick, groups
<1>6. CASE Start(s)
  <2> DEFINE loaded == IF Writes(jobs[s]) THEN [row[jobs[s].of] EXCEPT !.byCategory = FALSE] ELSE jobs[s].seen
             j == [jobs[s] EXCEPT !.status = "running", !.seen = loaded]
  <2>1. [row[jobs[s].of] EXCEPT !.byCategory = FALSE] \in Rows
    BY <1>4 DEF Rows
  <2>2. loaded \in Rows \union {Free}
    BY <1>1, <2>1 DEF Jobs
  <2>3. j \in Jobs
    <3> HIDE DEF loaded
    <3> QED
      BY <1>1, <2>2 DEF Jobs, Statuses
  <2>4. jobs' = [jobs EXCEPT ![s] = j]
    BY <1>1, <1>6 DEF Start
  <2>5. jobs' \in [Slots -> Jobs \union {Free}]
    BY <1>1, <2>3, <2>4
  <2> QED
    BY <1>6, <2>5 DEF Start, TypeOK, tick, groups
<1>7. CASE Fails(s) \/ Succeeds(s) \/ Reaped(s) \/ GivesWay(s)
  <2>1. jobs' \in [Slots -> Jobs \union {Free}]
    BY <1>3, <1>7 DEF Fails, Succeeds, Reaped, GivesWay
  <2> QED
    BY <1>7, <2>1 DEF Fails, Succeeds, Reaped, GivesWay, TypeOK, tick, groups
<1>8. CASE GraphEnds(s) /\ ~GivesWay(s)
  <2> DEFINE i == jobs[s].of
  <2>1. ASSUME NEW at \in Stages PROVE [jobs EXCEPT ![s].at = at] \in [Slots -> Jobs \union {Free}]
    BY <1>1, <2>1 DEF Jobs
  <2>2. ASSUME NEW at \in Stages
        PROVE  [jobs EXCEPT ![s].at = at, ![s].seen = Free] \in [Slots -> Jobs \union {Free}]
    BY <1>1, <2>2 DEF Jobs
  <2>3. ASSUME NEW value \in {"yes", "no"} PROVE [row EXCEPT ![i].api = Written(s, "api", value)] \in [Influencers -> Rows]
    <3>1. Written(s, "api", value) \in {"untried", "yes", "no"}
      BY <1>4 DEF Written, Rows
    <3>2. [row[i] EXCEPT !.api = Written(s, "api", value)] \in Rows
      BY <1>4, <3>1 DEF Rows
    <3> QED
      BY <1>1, <3>2
  <2>4. CASE GraphReads(s) \/ NotProfessional(s)
    BY <2>2, <2>3, <2>4 DEF GraphReads, NotProfessional, TypeOK, tick, groups, Stages
  <2>5. CASE GraphSucceeds(s)
    <3>1. [jobs EXCEPT ![s].status = "completed"] \in [Slots -> Jobs \union {Free}]
      BY <1>1 DEF Jobs, Statuses
    <3>2. jobs' \in [Slots -> Jobs \union {Free}]
      BY <2>1, <2>5, <3>1 DEF GraphSucceeds, Stages
    <3> QED
      BY <2>5, <3>2 DEF GraphSucceeds, TypeOK, tick, groups
  <2>6. CASE EnrichFollows(s)
    <3>1. jobs' \in [Slots -> Jobs \union {Free}]
      BY <1>1, <1>3, <2>1, <2>6, DispatchMakesAJob, PutIsTyped DEF EnrichFollows, Types, Stages
    <3> QED
      BY <2>6, <3>1 DEF EnrichFollows, TypeOK, tick, groups
  <2>7. CASE FallBack(s)
    <3>1. jobs[s].ticked \in BOOLEAN
      BY <1>1 DEF Jobs
    <3>2. [Message(i, "scrape", "cookies", handle[i]) EXCEPT !.ticked = jobs[s].ticked] \in Jobs
      BY <1>1, <3>1, DispatchMakesAJob, TickedIsTyped DEF Types, Backends
    <3>3. jobs' \in [Slots -> Jobs \union {Free}]
      BY <2>1, <2>7, <3>2, PutIsTyped DEF FallBack, Stages
    <3> QED
      BY <1>1, <2>7, <3>3 DEF FallBack, TypeOK, tick, groups
  <2> QED
    BY <1>8, <2>4, <2>5, <2>6, <2>7 DEF GraphEnds
<1>9. CASE NotFound(s)
  <2> DEFINE i == jobs[s].of
  <2>1. Written(s, "active", FALSE) \in BOOLEAN /\ Written(s, "missing", TRUE) \in BOOLEAN
    BY <1>4 DEF Written, Rows
  <2>2. [row[i] EXCEPT !.active = Written(s, "active", FALSE), !.missing = Written(s, "missing", TRUE)] \in Rows
    BY <1>4, <2>1 DEF Rows
  <2>3. row' \in [Influencers -> Rows]
    BY <1>1, <1>9, <2>2 DEF NotFound
  <2>4. jobs' \in [Slots -> Jobs \union {Free}] /\ offBy' \in [Influencers -> {"operator", "job", "move", NoOne}]
    BY <1>1, <1>3, <1>9 DEF NotFound, TypeOK, groups
  <2> QED
    BY <1>9, <2>3, <2>4 DEF NotFound, TypeOK, tick, groups
<1> QED
  BY <1>5, <1>6, <1>7, <1>8, <1>9 DEF Ends

(* The operator.                                                           *)
LEMMA OperatingIsTyped ==
  ASSUME TypeOK, Operating
  PROVE  TypeOK'
<1>1. Act => acts' \in 0 .. MaxActs
  BY ConstantsAssumption DEF Act, TypeOK, groups
<1>2. ASSUME NEW i \in Influencers, NEW fix \in BOOLEAN, NEW c \in Categories, UpdateDetails(i, fix, c) PROVE TypeOK'
  <2>1. [row[i] EXCEPT !.missing = @ /\ ~fix] \in Rows /\ "right" \in Handles
    BY DEF TypeOK, Rows, Handles, groups
  <2>2. row' \in [Influencers -> Rows] /\ handle' \in [Influencers -> Handles]
    BY <1>2, <2>1 DEF UpdateDetails, TypeOK, groups
  <2>3. category' \in [Influencers -> Categories] /\ offBy' \in [Influencers -> {"operator", "job", "move", NoOne}]
    BY <1>2 DEF UpdateDetails, TypeOK, groups
  <2> QED
    BY <1>1, <1>2, <2>2, <2>3 DEF UpdateDetails, TypeOK, tick, groups
<1>3. ASSUME NEW i \in Influencers, NEW on \in BOOLEAN, SetActive(i, on) PROVE TypeOK'
  <2>1. [row[i] EXCEPT !.active = on, !.byCategory = FALSE, !.missing = FALSE] \in Rows
    BY DEF TypeOK, Rows, groups
  <2> QED
    BY <1>1, <1>3, <2>1 DEF SetActive, TypeOK, tick, groups
<1>4. ASSUME NEW c \in Categories, SwitchCategory(c) PROVE TypeOK'
  <2>1. \A r \in Rows : ClosedRow(r) \in Rows /\ OpenedRow(r) \in Rows
    BY DEF Rows, ClosedRow, OpenedRow
  <2>2. row' \in [Influencers -> Rows]
    BY <1>4, <2>1 DEF SwitchCategory, TypeOK, groups
  <2>3. open' \in [Categories -> BOOLEAN] /\ offBy' \in [Influencers -> {"operator", "job", "move", NoOne}]
    BY <1>4 DEF SwitchCategory, TypeOK, groups
  <2> QED
    BY <1>4, <2>2, <2>3 DEF SwitchCategory, TypeOK, tick, groups
<1>5. CASE SwitchBackend
  BY <1>1, <1>5 DEF SwitchBackend, TypeOK, tick, groups
<1>6. ASSUME NEW i \in Influencers, NEW type \in Types, Trigger(i, type) PROVE TypeOK'
  <2>1. jobs' \in [Slots -> Jobs \union {Free}]
    BY <1>6, DispatchMakesAJob, PutIsTyped DEF Trigger, TypeOK, groups
  <2> QED
    BY <1>1, <1>6, <2>1 DEF Trigger, TypeOK, tick, groups
<1>7. CASE VerifyAll
  <2> DEFINE them == {i \in Influencers : row[i].active /\ ~HasActive(i)}
  <2>1. PICK f \in [them -> {s \in Slots : jobs[s] = Free}] :
          jobs' = [s \in Slots |-> IF \E i \in them : f[i] = s
                                   THEN Dispatched(CHOOSE i \in them : f[i] = s, "verify") ELSE jobs[s]]
    BY <1>7 DEF VerifyAll
  <2>2. ASSUME NEW s \in Slots, \E i \in them : f[i] = s
        PROVE  Dispatched(CHOOSE i \in them : f[i] = s, "verify") \in Jobs
    <3>1. (CHOOSE i \in them : f[i] = s) \in Influencers
      BY <2>2
    <3> QED
      BY <3>1, DispatchMakesAJob DEF Types
  <2>3. jobs' \in [Slots -> Jobs \union {Free}]
    BY <2>1, <2>2 DEF TypeOK, groups
  <2> QED
    BY <1>1, <1>7, <2>3 DEF VerifyAll, TypeOK, tick, groups
<1>8. CASE SchedulerRestarts
  BY <1>1, <1>8 DEF SchedulerRestarts, TypeOK, groups
<1> QED
  BY <1>2, <1>3, <1>4, <1>5, <1>6, <1>7, <1>8 DEF Operating

(* TypeOK: every action keeps the types of the influencers' rows, the      *)
(* jobs and the tick's list.                                               *)
THEOREM TypeCorrect == Spec => []TypeOK
<1>1. Init => TypeOK
  BY TypeHoldsInitially
<1>2. TypeOK /\ [Next]_vars => TypeOK'
  <2>1. TypeOK /\ UNCHANGED vars => TypeOK'
    BY DEF TypeOK, vars, tick, groups
  <2> QED
    BY <2>1, SchedulingIsTyped, WorkingIsTyped, OperatingIsTyped DEF Next
<1> QED
  BY <1>1, <1>2, PTL DEF Spec

-----------------------------------------------------------------------------
(* Who is off.                                                             *)

(* The notes about an influencer agree: a category's note stands while it  *)
(* is closed, or has moved with the influencer, and never next to the      *)
(* operator's word, so that opening a category brings back only whom the   *)
(* closing of one has paused.                                              *)
NotesAgree ==
  \A i \in Influencers :
    /\ offBy[i] = "operator" => ~row[i].active /\ ~row[i].byCategory
    /\ row[i].byCategory => ~open[category[i]] \/ offBy[i] # NoOne
    /\ ~row[i].active => offBy[i] # NoOne \/ row[i].byCategory

(* A step that leaves the notes of everyone alone.                         *)
LEMMA NotesAreKept ==
  ASSUME NotesAgree, UNCHANGED <<groups, offBy>>,
         \A i \in Influencers : row'[i].active = row[i].active /\ row'[i].byCategory = row[i].byCategory
  PROVE  NotesAgree'
  BY DEF NotesAgree, groups

(* The api column has nothing to do with it.                               *)
LEMMA NotesIgnoreTheApi ==
  ASSUME TypeOK, NEW i, NEW value, NEW k \in Influencers
  PROVE  /\ [row EXCEPT ![i].api = value][k].active = row[k].active
         /\ [row EXCEPT ![i].api = value][k].byCategory = row[k].byCategory
  BY DEF TypeOK, Rows

(* A profile that is not found is noted together with being switched off.  *)
LEMMA NotFoundKeepsNotes ==
  ASSUME TypeOK, NotesAgree, NEW s \in Slots, NotFound(s)
  PROVE  NotesAgree'
<1> DEFINE i == jobs[s].of
<1>1. i \in Influencers
  BY DEF NotFound, Running, TypeOK, Jobs
<1>2. CASE jobs[s].type = "verify"
  BY <1>2, NotesAreKept DEF NotFound
<1>3. CASE jobs[s].type # "verify"
  <2>1. \A k \in Influencers : k # i => row'[k] = row[k] /\ offBy'[k] = offBy[k]
    BY <1>1, <1>3 DEF NotFound, TypeOK
  <2>2. row'[i].byCategory = row[i].byCategory
    BY <1>1, <1>3 DEF NotFound, TypeOK, Rows
  <2>3. row'[i].active = row[i].active \/ row'[i].active = FALSE
    <3>1. Written(s, "active", FALSE) \in {row[i].active, FALSE}
      BY DEF Written
    <3>2. row'[i] = [row[i] EXCEPT !.active = Written(s, "active", FALSE), !.missing = Written(s, "missing", TRUE)]
      BY <1>1, <1>3 DEF NotFound, TypeOK
    <3>3. row[i] \in Rows
      BY <1>1 DEF TypeOK
    <3> QED
      BY <3>1, <3>2, <3>3 DEF Rows
  <2>4. offBy' = IF row[i].active /\ ~row'[i].active THEN [offBy EXCEPT ![i] = "job"] ELSE offBy
    BY <1>3 DEF NotFound
  <2>5. row[i].active \in BOOLEAN /\ row'[i].active \in BOOLEAN
    BY <1>1, <2>3 DEF TypeOK, Rows
  <2>6. CASE row[i].active /\ ~row'[i].active
    <3>1. offBy'[i] = "job" /\ offBy[i] # "operator"
      BY <1>1, <2>4, <2>6 DEF TypeOK, NotesAgree
    <3>2. "job" # NoOne
      BY ConstantsAssumption
    <3> QED
      BY <2>1, <2>2, <3>1, <3>2 DEF NotesAgree, NotFound, groups
  <2>7. CASE ~(row[i].active /\ ~row'[i].active)
    BY <2>1, <2>2, <2>3, <2>4, <2>5, <2>7 DEF NotesAgree, NotFound, groups
  <2> QED
    BY <2>6, <2>7
<1> QED
  BY <1>2, <1>3

(* The operator's word clears the notes of others; closing a category      *)
(* notes whom it pauses, opening it takes the notes back.                  *)
LEMMA OperatingKeepsNotes ==
  ASSUME TypeOK, NotesAgree, Operating
  PROVE  NotesAgree'
<1>1. ASSUME NEW i \in Influencers, NEW fix \in BOOLEAN, NEW c \in Categories, UpdateDetails(i, fix, c)
      PROVE  NotesAgree'
  <2>1. \A k \in Influencers : row'[k].active = row[k].active /\ row'[k].byCategory = row[k].byCategory
    BY <1>1 DEF UpdateDetails, TypeOK, Rows
  <2>2. \A k \in Influencers : k # i => category'[k] = category[k] /\ offBy'[k] = offBy[k]
    BY <1>1 DEF UpdateDetails, TypeOK
  <2>3. /\ open' = open /\ category'[i] = c
        /\ offBy'[i] = IF c # category[i] /\ row[i].byCategory THEN "move" ELSE offBy[i]
    BY <1>1 DEF UpdateDetails, TypeOK
  <2> QED
    BY <2>1, <2>2, <2>3, ConstantsAssumption DEF NotesAgree
<1>2. ASSUME NEW i \in Influencers, NEW on \in BOOLEAN, SetActive(i, on) PROVE NotesAgree'
  <2>1. \A k \in Influencers : k # i => row'[k] = row[k] /\ offBy'[k] = offBy[k]
    BY <1>2 DEF SetActive, TypeOK
  <2>2. row'[i].active = on /\ row'[i].byCategory = FALSE
    BY <1>2 DEF SetActive, TypeOK, Rows
  <2>3. offBy'[i] = IF on THEN NoOne ELSE "operator"
    BY <1>2 DEF SetActive, TypeOK
  <2> QED
    BY <1>2, <2>1, <2>2, <2>3, ConstantsAssumption DEF SetActive, NotesAgree, groups
<1>3. ASSUME NEW c \in Categories, SwitchCategory(c) PROVE NotesAgree'
  <2> SUFFICES ASSUME NEW i \in Influencers
               PROVE  /\ offBy'[i] = "operator" => ~row'[i].active /\ ~row'[i].byCategory
                      /\ row'[i].byCategory => ~open'[category'[i]] \/ offBy'[i] # NoOne
                      /\ ~row'[i].active => offBy'[i] # NoOne \/ row'[i].byCategory
    BY DEF NotesAgree
  <2>1. /\ category' = category /\ category[i] \in Categories /\ row[i] \in Rows
        /\ \A d \in Categories : open'[d] = IF d = c THEN ~open[c] ELSE open[d]
    BY <1>3 DEF SwitchCategory, TypeOK
  <2>2. /\ offBy[i] = "operator" => ~row[i].active /\ ~row[i].byCategory
        /\ row[i].byCategory => ~open[category[i]] \/ offBy[i] # NoOne
        /\ ~row[i].active => offBy[i] # NoOne \/ row[i].byCategory
    BY DEF NotesAgree
  <2>3. CASE category[i] # c
    BY <1>3, <2>1, <2>2, <2>3 DEF SwitchCategory
  <2>4. CASE category[i] = c /\ open[c]
    <3>1. row'[i] = ClosedRow(row[i]) /\ offBy'[i] = offBy[i]
      BY <1>3, <2>4 DEF SwitchCategory
    <3>2. ~row'[i].active /\ (row'[i].byCategory <=> row[i].active \/ row[i].byCategory)
      BY <2>1, <3>1 DEF ClosedRow, Rows
    <3> QED
      BY <2>1, <2>2, <2>4, <3>1, <3>2
  <2>5. CASE category[i] = c /\ ~open[c]
    <3>1. row'[i] = OpenedRow(row[i]) /\ offBy'[i] = IF row[i].byCategory THEN NoOne ELSE offBy[i]
      BY <1>3, <2>5 DEF SwitchCategory
    <3>2. ~row'[i].byCategory /\ (row'[i].active <=> row[i].active \/ row[i].byCategory)
      BY <2>1, <3>1 DEF OpenedRow, Rows
    <3> QED
      BY <2>1, <2>2, <3>1, <3>2, ConstantsAssumption
  <2> QED
    BY <2>3, <2>4, <2>5
<1>4. CASE SwitchBackend \/ VerifyAll \/ SchedulerRestarts
  BY <1>4, NotesAreKept DEF SwitchBackend, VerifyAll, SchedulerRestarts
<1>5. ASSUME NEW i \in Influencers, NEW type \in Types, Trigger(i, type) PROVE NotesAgree'
  BY <1>5, NotesAreKept DEF Trigger
<1> QED
  BY <1>1, <1>2, <1>3, <1>4, <1>5 DEF Operating

(* OffForAReason, from NotesAgree: no cycle of a category, no job and no   *)
(* tick turns on whom the operator has turned off, and nobody is off       *)
(* without somebody's word.                                                *)
THEOREM ReasonsStand == Spec => []OffForAReason
<1>1. Init => NotesAgree
  BY ConstantsAssumption DEF Init, NotesAgree
<1>2. TypeOK /\ NotesAgree /\ [Next]_vars => NotesAgree'
  <2> SUFFICES ASSUME TypeOK, NotesAgree, [Next]_vars PROVE NotesAgree'
    OBVIOUS
  <2>1. CASE Scheduling
    BY <2>1, NotesAreKept
       DEF Scheduling, Tick, FallsDue, PassOver, Clear, DispatchDue, Retry
  <2>2. CASE Working
    <3> PICK s \in Slots : Unserved(s) \/ Start(s) \/ Ends(s) \/ Reaped(s)
      BY <2>2 DEF Working
    <3>1. CASE UNCHANGED row /\ UNCHANGED offBy
      BY <3>1, WorkIsOnAJob, NotesAreKept DEF groups
    <3>2. CASE GraphReads(s) \/ NotProfessional(s)
      <4>1. \E value : row' = [row EXCEPT ![jobs[s].of].api = value]
        BY <3>2 DEF GraphReads, NotProfessional
      <4>2. \A k \in Influencers : row'[k].active = row[k].active /\ row'[k].byCategory = row[k].byCategory
        BY <4>1, NotesIgnoreTheApi
      <4> QED
        BY <3>2, <4>2, NotesAreKept DEF GraphReads, NotProfessional
    <3>3. CASE Unserved(s) \/ Start(s) \/ Fails(s) \/ Succeeds(s) \/ GraphSucceeds(s) \/ EnrichFollows(s)
               \/ FallBack(s) \/ GivesWay(s) \/ Reaped(s)
      BY <3>1, <3>3 DEF Unserved, Start, Fails, Succeeds, GraphSucceeds, EnrichFollows, FallBack, GivesWay, Reaped
    <3> QED
      BY <3>2, <3>3, NotFoundKeepsNotes DEF Ends, GraphEnds
  <2>3. CASE UNCHANGED vars
    BY <2>3, NotesAreKept DEF vars, groups
  <2> QED
    BY <2>1, <2>2, <2>3, OperatingKeepsNotes DEF Next
<1>3. NotesAgree => OffForAReason
  BY DEF NotesAgree, OffForAReason
<1> QED
  BY <1>1, <1>2, <1>3, TypeCorrect, PTL DEF Spec

-----------------------------------------------------------------------------
(* How many scrapes the ticks make.                                        *)

(* What a task knows of the api column agrees with it: a message that      *)
(* waits is untouched, and whoever has met an account that is not          *)
(* professional has noted it.                                              *)
Agrees(s) ==
  jobs[s] # Free =>
    /\ jobs[s].status = "queued" => jobs[s].at = "start"
    /\ jobs[s].at = "noted" => row[jobs[s].of].api = "no"
    /\ Running(s) /\ jobs[s].at = "start" /\ OnGraph(jobs[s]) => jobs[s].seen # Free
    /\ jobs[s].seen # Free => (jobs[s].seen.api = "no" => row[jobs[s].of].api = "no")

TasksAgree == \A s \in Slots : Agrees(s)

(* Only of personal accounts is it noted.                                  *)
KindsAgree == \A i \in Influencers : row[i].api = "no" => kind[i] = "personal"

(* A job that may still send another scrape.                               *)
CanSend(s) ==
  \/ jobs[s].status = "queued" /\ OnGraph(jobs[s])
  \/ Running(s) /\ (jobs[s].at = "noted" \/ (jobs[s].at = "start" /\ OnGraph(jobs[s])))

(* One scrape, or two of which none sends another.                         *)
IsSingle(i) ==
  \/ \A s, t \in OfTicks(i) : s = t
  \/ /\ row[i].api = "no"
     /\ \E s, t \in Slots : OfTicks(i) \subseteq {s, t}
     /\ \A s \in OfTicks(i) : ~CanSend(s)

(* Whom the tick has found without a job has none of the ticks' before it  *)
(* dispatches one.                                                         *)
TicksAreSingle == \A i \in Influencers : IsSingle(i) /\ (cleared = i => OfTicks(i) = {})

(* The note is never taken back.                                           *)
NoteStays == \A i \in Influencers : row[i].api = "no" => row'[i].api = "no"

(* The steps that leave the api column alone.                              *)
ApiStays == \A i \in Influencers : row'[i].api = row[i].api

(* A step adds nothing of the ticks at s, nor a way to send.               *)
Tame(s) ==
  Active(s)' /\ jobs'[s].ticked =>
    /\ Active(s) /\ jobs[s].ticked /\ jobs'[s].of = jobs[s].of
    /\ row[jobs[s].of].api = "no" /\ CanSend(s)' => CanSend(s)

(* Where every slot is tame, the ticks' scrapes grow no more.              *)
LEMMA TameStepsAreSingle ==
  ASSUME TypeOK, TicksAreSingle, NoteStays, \A s \in Slots : Tame(s),
         \/ cleared' \in {cleared, NoOne}
         \/ cleared' \in Influencers /\ OfTicks(cleared') = {}
  PROVE  TicksAreSingle'
<1> SUFFICES ASSUME NEW i \in Influencers
             PROVE  IsSingle(i)' /\ (cleared' = i => OfTicks(i)' = {})
  BY DEF TicksAreSingle
<1>1. OfTicks(i)' \subseteq OfTicks(i)
  BY DEF OfTicks, Has, Tame
<1>2. ASSUME row[i].api = "no", NEW s \in OfTicks(i)', CanSend(s)'
      PROVE  CanSend(s)
  BY <1>2 DEF OfTicks, Has, Tame
<1>3. IsSingle(i)'
  <2>1. CASE \A s, t \in OfTicks(i) : s = t
    BY <1>1, <2>1 DEF IsSingle
  <2>2. CASE /\ row[i].api = "no"
             /\ \E s, t \in Slots : OfTicks(i) \subseteq {s, t}
             /\ \A s \in OfTicks(i) : ~CanSend(s)
    <3>1. row'[i].api = "no"
      BY <2>2 DEF NoteStays
    <3>2. \E s, t \in Slots : OfTicks(i)' \subseteq {s, t}
      BY <1>1, <2>2
    <3>3. \A s \in OfTicks(i)' : ~CanSend(s)'
      BY <1>1, <1>2, <2>2
    <3> QED
      BY <3>1, <3>2, <3>3 DEF IsSingle
  <2> QED
    BY <2>1, <2>2 DEF TicksAreSingle, IsSingle
<1>4. cleared' = i => OfTicks(i)' = {}
  <2>1. i # NoOne
    BY ConstantsAssumption
  <2> QED
    BY <1>1, <2>1 DEF TicksAreSingle
<1> QED
  BY <1>3, <1>4

(* A place where nothing happens is tame, and so is one that gets a job    *)
(* that is not of the ticks, or is left or freed by its job.               *)
LEMMA WhatIsTame ==
  ASSUME TypeOK, NEW s \in Slots,
         \/ jobs'[s] = jobs[s]
         \/ jobs'[s] = Free
         \/ jobs'[s] \in Jobs /\ ~jobs'[s].ticked
         \/ /\ Active(s) /\ jobs'[s].of = jobs[s].of /\ jobs'[s].ticked = jobs[s].ticked
            /\ jobs'[s].status = "completed" \/ (CanSend(s)' => CanSend(s))
  PROVE  Tame(s)
  BY DEF Tame, Active, CanSend, Running, OnGraph

(* The scheduler: who was cleared has nothing of the ticks; a retry of one *)
(* that is noted goes by cookies.                                          *)
LEMMA SchedulingKeepsSingle ==
  ASSUME TypeOK, TicksAreSingle, Scheduling
  PROVE  TicksAreSingle'
<1>1. NoteStays
  BY DEF Scheduling, Tick, FallsDue, PassOver, Clear, DispatchDue, Retry, NoteStays
<1>2. CASE Tick \/ \E k \in Influencers : FallsDue(k) \/ PassOver(k)
  <2>1. UNCHANGED <<jobs, cleared>>
    BY <1>2 DEF Tick, FallsDue, PassOver, tick
  <2>2. \A s \in Slots : Tame(s)
    BY <2>1, WhatIsTame
  <2> QED
    BY <1>1, <2>1, <2>2, TameStepsAreSingle
<1>3. ASSUME NEW k \in Influencers, Clear(k) PROVE TicksAreSingle'
  <2>1. UNCHANGED jobs /\ cleared' = k /\ ~HasActive(k)
    BY <1>3 DEF Clear
  <2>2. OfTicks(k) = {}
    BY <2>1 DEF HasActive, OfTicks
  <2>3. \A s \in Slots : Tame(s)
    BY <2>1, WhatIsTame
  <2> QED
    BY <1>1, <2>1, <2>2, <2>3, TameStepsAreSingle
<1>4. ASSUME NEW s \in Slots, Retry(s) PROVE TicksAreSingle'
  <2> DEFINE i == jobs[s].of
             b == IF jobs[s].type = "enrich" THEN "cookies" ELSE BackendFor(row[i])
             sent == [Dispatched(i, jobs[s].type) EXCEPT !.tries = jobs[s].tries, !.ticked = jobs[s].ticked,
                        !.backend = b]
  <2>1. jobs[s] \in Jobs /\ Active(s) /\ i \in Influencers /\ jobs[s].type \in Types
    BY <1>4 DEF Retry, TypeOK, Active, Jobs
  <2>2. jobs' = [jobs EXCEPT ![s] = sent]
    BY <1>4 DEF Retry
  <2>3. Dispatched(i, jobs[s].type) \in Jobs
    BY <2>1, DispatchMakesAJob
  <2>4. sent.of = i /\ sent.ticked = jobs[s].ticked /\ sent.backend = b /\ sent.status = "queued"
    <3>1. Dispatched(i, jobs[s].type).of = i /\ Dispatched(i, jobs[s].type).status = "queued"
      BY DEF Dispatched, Message
    <3> HIDE DEF b
    <3> QED
      BY <2>3, <3>1 DEF Jobs
  <2>5. row[i].api = "no" => b = "cookies"
    BY DEF BackendFor
  <2>6. jobs'[s] = sent
    BY <2>2 DEF TypeOK
  <2>7. row[i].api = "no" => ~CanSend(s)'
    <3> HIDE DEF sent, b, i
    <3> QED
      BY <2>4, <2>5, <2>6 DEF CanSend, OnGraph, Running
  <2>8. Tame(s)
    <3> HIDE DEF sent, b
    <3> QED
      BY <2>1, <2>4, <2>6, <2>7 DEF Tame
  <2>9. \A t \in Slots : t # s => Tame(t)
    BY <2>2, WhatIsTame DEF TypeOK
  <2>10. cleared' = cleared
    BY <1>4 DEF Retry, tick
  <2> QED
    BY <1>1, <2>8, <2>9, <2>10, TameStepsAreSingle
<1>5. ASSUME NEW s \in Slots, DispatchDue(s) PROVE TicksAreSingle'
  <2> DEFINE sent == [Dispatched(cleared, "scrape") EXCEPT !.ticked = TRUE]
  <2>1. cleared \in Influencers /\ Put(jobs, s, sent) /\ cleared' = NoOne
    BY <1>5 DEF DispatchDue, TypeOK
  <2>2. sent.of = cleared
    BY <2>1, DispatchMakesAJob, TickedIsTyped DEF Types
  <2>3. OfTicks(cleared) = {}
    BY <2>1 DEF TicksAreSingle
  <2>4. jobs'[s] = sent /\ \A t \in Slots : t # s => jobs'[t] = jobs[t]
    BY <2>1 DEF Put, TypeOK
  <2>5. ASSUME NEW i \in Influencers PROVE IsSingle(i)'
    <3>1. CASE i = cleared
      <4>1. OfTicks(i)' \subseteq {s}
        BY <2>3, <2>4, <3>1 DEF OfTicks, Has, Active
      <4> QED
        BY <4>1 DEF IsSingle
    <3>2. CASE i # cleared
      <4>1. OfTicks(i)' \subseteq OfTicks(i) \ {s}
        <5> HIDE DEF sent
        <5> QED
          BY <2>2, <2>4, <3>2 DEF OfTicks, Has, Active
      <4>2. \A t \in OfTicks(i)' : CanSend(t)' => CanSend(t)
        BY <2>4, <4>1 DEF OfTicks, CanSend, Running
      <4>3. row' = row
        BY <1>5 DEF DispatchDue
      <4> QED
        BY <4>1, <4>2, <4>3 DEF TicksAreSingle, IsSingle
    <3> QED
      BY <3>1, <3>2
  <2> QED
    BY <2>1, <2>5, ConstantsAssumption DEF TicksAreSingle
<1> QED
  BY <1>2, <1>3, <1>4, <1>5 DEF Scheduling

(* The operator's jobs are not of the ticks.                               *)
LEMMA OperatingKeepsSingle ==
  ASSUME TypeOK, TicksAreSingle, Operating
  PROVE  TicksAreSingle' /\ ApiStays
<1>1. ApiStays
  <2>1. ASSUME NEW i \in Influencers, NEW fix \in BOOLEAN, NEW c \in Categories, UpdateDetails(i, fix, c) PROVE ApiStays
    BY <2>1 DEF UpdateDetails, ApiStays, TypeOK, Rows
  <2>2. ASSUME NEW i \in Influencers, NEW on \in BOOLEAN, SetActive(i, on) PROVE ApiStays
    BY <2>2 DEF SetActive, ApiStays, TypeOK, Rows
  <2>3. ASSUME NEW c \in Categories, SwitchCategory(c) PROVE ApiStays
    <3>1. \A r \in Rows : ClosedRow(r).api = r.api /\ OpenedRow(r).api = r.api
      BY DEF Rows, ClosedRow, OpenedRow
    <3>2. \A i \in Influencers : row[i] \in Rows /\ row'[i] \in {row[i], ClosedRow(row[i]), OpenedRow(row[i])}
      BY <2>3 DEF SwitchCategory, TypeOK
    <3> QED
      BY <3>1, <3>2 DEF ApiStays
  <2>4. CASE UNCHANGED row
    BY <2>4 DEF ApiStays
  <2> QED
    BY <2>1, <2>2, <2>3, <2>4 DEF Operating, SwitchBackend, Trigger, VerifyAll, SchedulerRestarts
<1>2. NoteStays
  BY <1>1 DEF ApiStays, NoteStays
<1>3. cleared' \in {cleared, NoOne}
  BY DEF Operating, UpdateDetails, SetActive, SwitchCategory, SwitchBackend, Trigger, VerifyAll, SchedulerRestarts, tick
<1>4. ASSUME NEW s \in Slots PROVE jobs'[s] = jobs[s] \/ (jobs'[s] \in Jobs /\ ~jobs'[s].ticked)
  <2>1. CASE UNCHANGED jobs
    BY <2>1
  <2>2. ASSUME NEW i \in Influencers, NEW type \in Types, Trigger(i, type)
        PROVE  jobs'[s] = jobs[s] \/ (jobs'[s] \in Jobs /\ ~jobs'[s].ticked)
    <3>1. PICK t \in Slots : Put(jobs, t, Dispatched(i, type))
      BY <2>2 DEF Trigger
    <3>2. jobs'[s] = jobs[s] \/ jobs'[s] = Dispatched(i, type)
      BY <3>1 DEF Put, TypeOK
    <3> QED
      BY <3>2, DispatchMakesAJob
  <2>3. CASE VerifyAll
    <3> DEFINE them == {i \in Influencers : row[i].active /\ ~HasActive(i)}
    <3>1. PICK f \in [them -> {t \in Slots : jobs[t] = Free}] :
            jobs' = [t \in Slots |-> IF \E i \in them : f[i] = t
                                     THEN Dispatched(CHOOSE i \in them : f[i] = t, "verify") ELSE jobs[t]]
      BY <2>3 DEF VerifyAll
    <3>2. CASE \E i \in them : f[i] = s
      <4>1. (CHOOSE i \in them : f[i] = s) \in Influencers
        BY <3>2
      <4> QED
        BY <3>1, <3>2, <4>1, DispatchMakesAJob DEF Types
    <3>3. CASE ~\E i \in them : f[i] = s
      BY <3>1, <3>3
    <3> QED
      BY <3>2, <3>3
  <2> QED
    BY <2>1, <2>2, <2>3 DEF Operating, UpdateDetails, SetActive, SwitchCategory, SwitchBackend, SchedulerRestarts
<1>5. \A s \in Slots : Tame(s)
  BY <1>4, WhatIsTame
<1> QED
  BY <1>1, <1>2, <1>3, <1>5, TameStepsAreSingle

(* A place where the task and the row agree after the step: nothing has    *)
(* happened, or the job is over or fresh, or has nothing noted.            *)
LEMMA WhatAgrees ==
  ASSUME TypeOK, TasksAgree, NoteStays, NEW s \in Slots,
         \/ jobs'[s] = jobs[s]
         \/ jobs'[s] = Free
         \/ jobs'[s].at = "start" /\ jobs'[s].seen = Free /\ jobs'[s].status # "running"
  PROVE  Agrees(s)'
<1>1. jobs[s] # Free => jobs[s].of \in Influencers
  BY DEF TypeOK, Jobs
<1> QED
  BY <1>1 DEF TasksAgree, Agrees, NoteStays, Running, OnGraph

(* What is dispatched is fresh.                                            *)
LEMMA DispatchedIsFresh ==
  ASSUME NEW i, NEW type
  PROVE  /\ Dispatched(i, type).at = "start" /\ Dispatched(i, type).seen = Free
         /\ Dispatched(i, type).status = "queued"
         /\ LET m == Message(i, type, "cookies", handle[i])
            IN m.at = "start" /\ m.seen = Free /\ m.status = "queued" /\ m.backend = "cookies"
  BY DEF Dispatched, Message

(* The scheduler and the operator send fresh messages only.                *)
LEMMA MessagesAgree ==
  ASSUME TypeOK, TasksAgree, NoteStays, Scheduling \/ Operating
  PROVE  TasksAgree'
<1> SUFFICES ASSUME NEW s \in Slots
             PROVE  \/ jobs'[s] = jobs[s]
                    \/ jobs'[s].at = "start" /\ jobs'[s].seen = Free /\ jobs'[s].status # "running"
  BY WhatAgrees DEF TasksAgree
<1>1. CASE UNCHANGED jobs
  BY <1>1
<1>2. ASSUME NEW t \in Slots, DispatchDue(t)
      PROVE  jobs'[s] = jobs[s] \/ (jobs'[s].at = "start" /\ jobs'[s].seen = Free /\ jobs'[s].status # "running")
  <2> DEFINE sent == [Dispatched(cleared, "scrape") EXCEPT !.ticked = TRUE]
  <2>1. Dispatched(cleared, "scrape") \in Jobs
    BY <1>2, DispatchMakesAJob DEF DispatchDue, TypeOK, Types
  <2>2. sent.at = "start" /\ sent.seen = Free /\ sent.status = "queued"
    BY <2>1, DispatchedIsFresh DEF Jobs
  <2>3. jobs'[s] \in {jobs[s], sent}
    BY <1>2 DEF DispatchDue, Put, TypeOK
  <2> QED
    BY <2>2, <2>3
<1>3. ASSUME NEW t \in Slots, Retry(t)
      PROVE  jobs'[s] = jobs[s] \/ (jobs'[s].at = "start" /\ jobs'[s].seen = Free /\ jobs'[s].status # "running")
  <2> DEFINE i == jobs[t].of
             b == IF jobs[t].type = "enrich" THEN "cookies" ELSE BackendFor(row[i])
             sent == [Dispatched(i, jobs[t].type) EXCEPT !.tries = jobs[t].tries, !.ticked = jobs[t].ticked,
                        !.backend = b]
  <2>1. Dispatched(i, jobs[t].type) \in Jobs
    BY <1>3, DispatchMakesAJob DEF Retry, TypeOK, Jobs
  <2>2. sent.at = "start" /\ sent.seen = Free /\ sent.status = "queued"
    <3>1. Dispatched(i, jobs[t].type).at = "start" /\ Dispatched(i, jobs[t].type).seen = Free
          /\ Dispatched(i, jobs[t].type).status = "queued"
      BY DispatchedIsFresh
    <3> HIDE DEF b
    <3> QED
      BY <2>1, <3>1 DEF Jobs
  <2>3. jobs' = [jobs EXCEPT ![t] = sent]
    BY <1>3 DEF Retry
  <2>4. jobs'[s] \in {jobs[s], sent}
    BY <2>3 DEF TypeOK
  <2> QED
    BY <2>2, <2>4
<1>4. ASSUME NEW i \in Influencers, NEW type \in Types, Trigger(i, type)
      PROVE  jobs'[s] = jobs[s] \/ (jobs'[s].at = "start" /\ jobs'[s].seen = Free /\ jobs'[s].status # "running")
  <2>1. jobs'[s] \in {jobs[s], Dispatched(i, type)}
    BY <1>4 DEF Trigger, Put, TypeOK
  <2> QED
    BY <2>1, DispatchedIsFresh
<1>5. CASE VerifyAll
  <2> DEFINE them == {i \in Influencers : row[i].active /\ ~HasActive(i)}
  <2>1. \E i : jobs'[s] \in {jobs[s], Dispatched(i, "verify")}
    BY <1>5 DEF VerifyAll
  <2> QED
    BY <2>1, DispatchedIsFresh
<1> QED
  BY <1>1, <1>2, <1>3, <1>4, <1>5
     DEF Scheduling, Operating, Tick, FallsDue, PassOver, Clear, UpdateDetails, SetActive, SwitchCategory,
         SwitchBackend, SchedulerRestarts

(* The API tells the same of an account every time.                        *)
LEMMA WorkingKeepsTheNote ==
  ASSUME TypeOK, TasksAgree, KindsAgree, Working
  PROVE  NoteStays /\ KindsAgree'
<1> PICK s \in Slots : Unserved(s) \/ Start(s) \/ Ends(s) \/ Reaped(s)
  BY DEF Working
<1> DEFINE i == jobs[s].of
<1>1. jobs[s] # Free /\ i \in Influencers /\ row[i] \in Rows /\ kind' = kind
  BY WorkIsOnAJob DEF TypeOK, Jobs
<1>2. CASE ApiStays
  BY <1>1, <1>2 DEF ApiStays, NoteStays, KindsAgree
<1>3. CASE GraphReads(s) \/ NotProfessional(s)
  <2> PICK value \in {"yes", "no"} :
             /\ row' = [row EXCEPT ![i].api = Written(s, "api", value)]
             /\ kind[i] = IF value = "yes" THEN "professional" ELSE "personal"
    BY <1>3 DEF GraphReads, NotProfessional, Told
  <2>1. \A k \in Influencers : k # i => row'[k].api = row[k].api
    BY DEF TypeOK
  <2>2. row'[i].api = Written(s, "api", value)
    BY <1>1 DEF TypeOK, Rows
  <2>3. value = "yes" => row[i].api # "no" /\ row'[i].api # "no"
    BY <1>1, <2>2 DEF KindsAgree, Written
  <2>4. value = "no" => Written(s, "api", value) \in {row[i].api, "no"} /\ kind[i] = "personal"
    BY DEF Written
  <2>5. row[i].api = "no" => row'[i].api = "no"
    BY <2>2, <2>3, <2>4
  <2>6. row'[i].api = "no" => kind[i] = "personal"
    BY <1>1, <2>2, <2>3, <2>4 DEF KindsAgree
  <2>7. ASSUME NEW k \in Influencers
        PROVE  (row[k].api = "no" => row'[k].api = "no") /\ (row'[k].api = "no" => kind[k] = "personal")
    BY <2>1, <2>5, <2>6 DEF KindsAgree
  <2> QED
    BY <1>1, <2>7 DEF NoteStays, KindsAgree
<1>4. CASE UNCHANGED row
  BY <1>2, <1>4 DEF ApiStays
<1>5. CASE NotFound(s)
  <2>1. CASE jobs[s].type = "verify"
    BY <1>4, <1>5, <2>1 DEF NotFound
  <2>2. CASE jobs[s].type # "verify"
    <3>1. \A k \in Influencers : k # i => row'[k] = row[k]
      BY <1>1, <1>5, <2>2 DEF NotFound, TypeOK
    <3>2. row'[i] = [row[i] EXCEPT !.active = Written(s, "active", FALSE), !.missing = Written(s, "missing", TRUE)]
      BY <1>1, <1>5, <2>2 DEF NotFound, TypeOK
    <3>3. row'[i].api = row[i].api
      BY <1>1, <3>2 DEF Rows
    <3> QED
      BY <1>2, <3>1, <3>3 DEF ApiStays
  <2> QED
    BY <2>1, <2>2
<1> QED
  BY <1>3, <1>4, <1>5
     DEF Unserved, Start, Ends, GraphEnds, Fails, Succeeds, GraphSucceeds, EnrichFollows, FallBack, GivesWay, Reaped

(* How a failed attempt leaves its place, and the others.                  *)
LEMMA EndedPlaces ==
  ASSUME TypeOK, NEW s \in Slots, jobs[s] # Free, NEW fs \in {Over(s), Counted(s), Reclaimed(s)}
  PROVE  /\ \A t \in Slots : t # s => fs[t] = jobs[t]
         /\ \/ fs[s] = Free
            \/ /\ fs[s].of = jobs[s].of /\ fs[s].ticked = jobs[s].ticked
               /\ fs[s].status = "retry_pending" /\ fs[s].at = "start" /\ fs[s].seen = Free
<1>1. jobs[s] \in Jobs
  BY DEF TypeOK
<1>2. ASSUME NEW again
      PROVE  /\ \A t \in Slots : t # s => Ended(s, again)[t] = jobs[t]
             /\ \/ Ended(s, again)[s] = Free
                \/ /\ Ended(s, again)[s].of = jobs[s].of /\ Ended(s, again)[s].ticked = jobs[s].ticked
                   /\ Ended(s, again)[s].status = "retry_pending" /\ Ended(s, again)[s].at = "start"
                   /\ Ended(s, again)[s].seen = Free
  BY <1>1, <1>2 DEF Ended, Over, TypeOK, Jobs
<1>3. (\A t \in Slots : t # s => Over(s)[t] = jobs[t]) /\ Over(s)[s] = Free
  BY DEF Over, TypeOK
<1> QED
  BY <1>2, <1>3 DEF Counted, Reclaimed

(* What a task does to its own place and to one more, but for the scrape   *)
(* that a fallback sends.                                                  *)
LEMMA WorkIsTame ==
  ASSUME TypeOK, TasksAgree, NoteStays, NEW s \in Slots,
         Unserved(s) \/ Start(s) \/ Ends(s) \/ Reaped(s)
  PROVE  /\ TasksAgree'
         /\ ~FallBack(s) => \A t \in Slots : Tame(t)
<1>1. jobs[s] # Free /\ jobs[s] \in Jobs /\ jobs[s].of \in Influencers
  BY WorkIsOnAJob DEF TypeOK, Jobs
<1> SUFFICES ASSUME NEW t \in Slots
             PROVE  Agrees(t)' /\ (~FallBack(s) => Tame(t))
  BY DEF TasksAgree
<1>2. CASE jobs'[t] = jobs[t]
  BY <1>2, WhatAgrees, WhatIsTame
<1>3. CASE Active(s) /\ jobs' \in {Over(s), Counted(s), Reclaimed(s)}
  <2>1. CASE t # s
    BY <1>1, <1>2, <1>3, <2>1, EndedPlaces
  <2>2. CASE t = s /\ jobs'[s] = Free
    BY <2>2, WhatAgrees, WhatIsTame
  <2>3. CASE t = s /\ jobs'[s] # Free
    <3>1. /\ jobs'[s].of = jobs[s].of /\ jobs'[s].ticked = jobs[s].ticked
          /\ jobs'[s].status = "retry_pending" /\ jobs'[s].at = "start" /\ jobs'[s].seen = Free
      BY <1>1, <1>3, <2>3, EndedPlaces
    <3> QED
      BY <1>3, <2>3, <3>1, WhatAgrees DEF Tame, CanSend, Running, OnGraph
  <2> QED
    BY <2>1, <2>2, <2>3
<1>4. CASE Unserved(s) \/ Start(s)
  <2>1. CASE jobs' # Counted(s) /\ t = s
    <3>1. Active(s) /\ jobs[s].status = "queued" /\ jobs[s].at = "start"
      BY <1>1, <1>4 DEF Unserved, Start, Active, TasksAgree, Agrees
    <3>2. jobs'[s].of = jobs[s].of /\ jobs'[s].ticked = jobs[s].ticked /\ jobs'[s].at = "start"
      BY <1>1, <1>4, <2>1, <3>1 DEF Unserved, Start, TypeOK, Jobs
    <3>3. /\ row' = row /\ jobs'[s].type = jobs[s].type /\ jobs'[s].backend = jobs[s].backend
          /\ \/ jobs'[s].status = "retry_pending" /\ jobs'[s].seen = jobs[s].seen
             \/ /\ jobs'[s].status = "running"
                /\ jobs'[s].seen = IF Writes(jobs[s]) THEN [row[jobs[s].of] EXCEPT !.byCategory = FALSE] ELSE jobs[s].seen
      <4>1. CASE Unserved(s)
        <5>1. jobs' = [jobs EXCEPT ![s].status = "retry_pending"] /\ row' = row
          BY <2>1, <4>1 DEF Unserved
        <5> QED
          BY <1>1, <5>1 DEF TypeOK, Jobs
      <4>2. CASE Start(s)
        <5> DEFINE j == jobs[s]
                   loaded == IF Writes(j) THEN [row[j.of] EXCEPT !.byCategory = FALSE] ELSE j.seen
        <5>1. jobs' = [jobs EXCEPT ![s].status = "running", ![s].seen = loaded] /\ row' = row
          BY <4>2 DEF Start
        <5> HIDE DEF loaded
        <5>2. jobs'[s].type = j.type /\ jobs'[s].backend = j.backend /\ jobs'[s].status = "running" /\ jobs'[s].seen = loaded
          BY <1>1, <5>1 DEF TypeOK, Jobs
        <5> QED
          BY <5>1, <5>2 DEF loaded
      <4> QED
        BY <1>4, <4>1, <4>2
    <3>4. ~ (jobs'[s].status = "queued") /\ (OnGraph(jobs[s]) => Writes(jobs[s]))
      BY <3>3 DEF Writes, OnGraph
    <3>5. LET r == [row[jobs[s].of] EXCEPT !.byCategory = FALSE] IN r # Free /\ r.api = row[jobs[s].of].api
      BY <1>1 DEF TypeOK, Rows, Free
    <3>6. Agrees(s)'
      BY <1>1, <3>1, <3>2, <3>3, <3>4, <3>5 DEF TasksAgree, Agrees, Running, OnGraph
    <3>7. CanSend(s)' => CanSend(s)
      <4>1. OnGraph(jobs[s])' <=> OnGraph(jobs[s])
        BY <3>3 DEF OnGraph
      <4>2. ~ (jobs'[s].status = "queued") /\ (Running(s)' => jobs'[s].at = "start")
        BY <3>2, <3>4
      <4> QED
        BY <3>1, <4>1, <4>2 DEF CanSend
    <3> QED
      BY <2>1, <3>1, <3>2, <3>6, <3>7, WhatIsTame
  <2>2. CASE jobs' # Counted(s) /\ t # s
    BY <1>2, <1>4, <2>2 DEF Unserved, Start, TypeOK
  <2>3. Active(s)
    BY <1>1, <1>4 DEF Unserved, Start, Active
  <2> QED
    BY <1>3, <2>1, <2>2, <2>3
<1>5. CASE GraphReads(s) \/ NotProfessional(s) \/ GraphSucceeds(s)
  <2>1. CASE t # s
    BY <1>2, <1>5, <2>1 DEF GraphReads, NotProfessional, GraphSucceeds, TypeOK
  <2>2. CASE t = s
    <3>1. Active(s) /\ jobs'[s].of = jobs[s].of /\ jobs'[s].ticked = jobs[s].ticked
      BY <1>1, <1>5 DEF GraphReads, NotProfessional, GraphSucceeds, Told, Running, Active, TypeOK, Jobs
    <3>2. CASE GraphSucceeds(s)
      <4>1. /\ jobs[s].at = "read" /\ jobs'[s].seen = jobs[s].seen
            /\ \/ jobs'[s].status = "completed" /\ jobs'[s].at = "read"
               \/ jobs'[s].status = "running" /\ jobs'[s].at = "stuck"
        BY <1>1, <3>2 DEF GraphSucceeds, Running, TypeOK, Jobs
      <4> QED
        BY <1>1, <2>2, <3>1, <4>1, WhatIsTame DEF TasksAgree, Agrees, NoteStays, CanSend, Running, OnGraph
    <3>3. CASE GraphReads(s)
      <4>1. jobs'[s].status = "running" /\ jobs'[s].at = "read" /\ jobs'[s].seen = Free
        BY <1>1, <3>3 DEF GraphReads, Told, Running, TypeOK, Jobs
      <4> QED
        BY <2>2, <3>1, <4>1, WhatIsTame DEF Agrees, CanSend, Running, OnGraph
    <3>4. CASE NotProfessional(s)
      <4>1. jobs'[s].status = "running" /\ jobs'[s].at = "noted" /\ jobs'[s].seen = Free
        BY <1>1, <3>4 DEF NotProfessional, Told, Running, TypeOK, Jobs
      <4>2. CanSend(s) /\ jobs[s].seen # Free
        BY <1>1, <3>4 DEF NotProfessional, Told, Running, CanSend, TasksAgree, Agrees
      <4>3. row'[jobs[s].of].api = Written(s, "api", "no")
        BY <1>1, <3>4 DEF NotProfessional, TypeOK, Rows
      <4>4. row'[jobs[s].of].api = "no"
        BY <1>1, <4>2, <4>3 DEF Written, TasksAgree, Agrees
      <4> QED
        BY <2>2, <3>1, <4>1, <4>2, <4>4, WhatIsTame DEF Agrees, Running
    <3> QED
      BY <1>5, <3>2, <3>3, <3>4
  <2> QED
    BY <2>1, <2>2
<1>6. CASE EnrichFollows(s)
  <2> DEFINE sent == Dispatched(jobs[s].of, "enrich")
             others == IF jobs[s].status = "completed" THEN Over(s) ELSE [jobs EXCEPT ![s].at = "gone"]
  <2>1. sent \in Jobs /\ ~sent.ticked /\ sent.at = "start" /\ sent.seen = Free /\ sent.status = "queued"
    BY <1>1, DispatchMakesAJob, DispatchedIsFresh DEF Types
  <2>2. jobs'[t] = sent \/ jobs'[t] = others[t]
    <3>1. others \in [Slots -> Jobs \union {Free}]
      BY <1>1 DEF Over, TypeOK, Jobs, Stages
    <3> QED
      BY <1>6, <3>1 DEF EnrichFollows, Put
  <2>3. CASE jobs'[t] = sent
    <3> HIDE DEF sent
    <3> QED
      BY <2>1, <2>3, WhatAgrees, WhatIsTame
  <2>4. CASE jobs'[t] = others[t] /\ (t # s \/ jobs[s].status = "completed")
    <3>1. jobs'[t] = jobs[t] \/ jobs'[t] = Free
      BY <2>4 DEF Over, TypeOK
    <3> QED
      BY <3>1, WhatAgrees, WhatIsTame
  <2>5. CASE jobs'[t] = others[t] /\ t = s /\ jobs[s].status # "completed"
    <3>1. /\ Active(s) /\ jobs'[s].of = jobs[s].of /\ jobs'[s].ticked = jobs[s].ticked
          /\ jobs'[s].status = "running" /\ jobs'[s].at = "gone" /\ jobs'[s].seen = jobs[s].seen
      BY <1>1, <1>6, <2>5 DEF EnrichFollows, Running, Active, TypeOK, Jobs
    <3> QED
      BY <1>1, <2>5, <3>1, WhatIsTame DEF TasksAgree, Agrees, NoteStays, CanSend, Running, OnGraph
  <2> QED
    BY <2>2, <2>3, <2>4, <2>5
<1>7. CASE FallBack(s)
  <2> DEFINE m == Message(jobs[s].of, "scrape", "cookies", handle[jobs[s].of])
             sent == [m EXCEPT !.ticked = jobs[s].ticked]
             others == [jobs EXCEPT ![s].at = "sent"]
  <2>1. sent.at = "start" /\ sent.seen = Free /\ sent.status = "queued"
    <3>1. m \in Jobs /\ m.at = "start" /\ m.seen = Free /\ m.status = "queued"
      BY <1>1, DispatchMakesAJob, DispatchedIsFresh DEF Types, Backends
    <3> HIDE DEF m
    <3> QED
      BY <3>1 DEF Jobs
  <2>2. jobs'[t] = sent \/ jobs'[t] = others[t]
    <3>1. others \in [Slots -> Jobs \union {Free}]
      BY <1>1 DEF TypeOK, Jobs, Stages
    <3> QED
      BY <1>7, <3>1 DEF FallBack, Put
  <2>3. CASE jobs'[t] = sent
    <3> HIDE DEF sent
    <3> QED
      BY <1>7, <2>1, <2>3, WhatAgrees
  <2>4. CASE jobs'[t] = others[t] /\ t # s
    BY <1>2, <2>4 DEF TypeOK
  <2>5. CASE jobs'[t] = others[t] /\ t = s
    <3>1. /\ jobs'[s].of = jobs[s].of /\ jobs'[s].status = "running" /\ jobs'[s].at = "sent"
          /\ jobs'[s].seen = jobs[s].seen
      BY <1>1, <1>7, <2>5 DEF FallBack, Running, TypeOK, Jobs
    <3> QED
      BY <1>1, <1>7, <2>5, <3>1 DEF TasksAgree, Agrees, NoteStays, Running
  <2> QED
    BY <2>2, <2>3, <2>4, <2>5
<1> QED
  BY <1>3, <1>4, <1>5, <1>6, <1>7 DEF Ends, GraphEnds, Fails, Succeeds, GivesWay, NotFound, Reaped, Running, Active

(* A fallback of the one scrape that the ticks have made adds the second,  *)
(* and neither sends another.                                              *)
LEMMA FallBackIsSingle ==
  ASSUME TypeOK, TasksAgree, TicksAreSingle, NEW s \in Slots, FallBack(s)
  PROVE  TicksAreSingle'
<1>0. jobs[s] # Free /\ jobs[s] \in Jobs
  BY DEF FallBack, Running, TypeOK
<1> PICK i \in Influencers : i = jobs[s].of
  BY <1>0 DEF Jobs
<1> DEFINE m == Message(i, "scrape", "cookies", handle[i])
           sent == [m EXCEPT !.ticked = jobs[s].ticked]
           others == [jobs EXCEPT ![s].at = "sent"]
<1>1. jobs[s] # Free /\ jobs[s] \in Jobs /\ Running(s) /\ jobs[s].at = "noted"
  BY <1>0 DEF FallBack, Running, TypeOK, Jobs
<1>2. row' = row /\ cleared' = cleared
  BY DEF FallBack, tick
<1>3. sent.of = i /\ sent.ticked = jobs[s].ticked /\ sent.backend = "cookies" /\ sent.status = "queued"
  <2>1. m \in Jobs /\ m.of = i /\ m.backend = "cookies" /\ m.status = "queued"
    BY <1>1, DispatchMakesAJob, DispatchedIsFresh DEF Types, Backends
  <2> HIDE DEF m
  <2> QED
    BY <2>1 DEF Jobs
<1>4. /\ others \in [Slots -> Jobs \union {Free}] /\ others[s] \in Jobs
      /\ others[s].of = i /\ others[s].ticked = jobs[s].ticked
      /\ others[s].status = "running" /\ others[s].at = "sent"
      /\ \A u \in Slots : u # s => others[u] = jobs[u]
  BY <1>1 DEF TypeOK, Jobs, Stages, Running
<1>5. PICK t \in Slots : Put(others, t, sent)
  BY DEF FallBack
<1>6. t # s
  BY <1>4, <1>5, JobsAreNotFree DEF Put
<1>7. /\ jobs'[t] = sent /\ jobs'[s] = others[s]
      /\ \A u \in Slots : u \notin {s, t} => jobs'[u] = jobs[u]
  <2> HIDE DEF sent, others
  <2> QED
    BY <1>4, <1>5, <1>6 DEF Put
<1> HIDE DEF sent, others, m
<1>8. CASE jobs[s].ticked
  <2>1. s \in OfTicks(i) /\ CanSend(s)
    BY <1>1, <1>8 DEF OfTicks, Has, Active, CanSend, Running
  <2>2. \A u \in OfTicks(i) : u = s
    BY <1>1, <2>1 DEF TicksAreSingle, IsSingle
  <2>3. OfTicks(i)' \subseteq {s, t}
    BY <1>7, <2>2 DEF OfTicks, Has, Active
  <2>4. ~CanSend(s)' /\ ~CanSend(t)'
    BY <1>3, <1>4, <1>7 DEF CanSend, Running, OnGraph
  <2>5. row'[i].api = "no"
    BY <1>1, <1>2 DEF TasksAgree, Agrees
  <2>6. IsSingle(i)' /\ cleared' # i
    <3>1. cleared # i
      BY <1>1, <2>1 DEF TicksAreSingle
    <3> QED
      BY <1>2, <2>3, <2>4, <2>5, <3>1 DEF IsSingle
  <2>7. ASSUME NEW k \in Influencers, k # i
        PROVE  IsSingle(k)' /\ (cleared' = k => OfTicks(k)' = {})
    <3>1. OfTicks(k)' \subseteq OfTicks(k) /\ \A u \in OfTicks(k)' : u \notin {s, t}
      BY <1>3, <1>4, <1>7, <2>7 DEF OfTicks, Has, Active
    <3>2. \A u \in OfTicks(k)' : CanSend(u)' => CanSend(u)
      BY <1>7, <3>1 DEF CanSend, Running, OfTicks
    <3> QED
      BY <1>2, <3>1, <3>2 DEF TicksAreSingle, IsSingle
  <2> QED
    BY <1>2, <2>6, <2>7 DEF TicksAreSingle
<1>9. CASE ~jobs[s].ticked
  <2>1. \A u \in Slots : Tame(u)
    BY <1>3, <1>4, <1>7, <1>9 DEF Tame, Active, CanSend, Running
  <2>2. NoteStays
    BY <1>2 DEF NoteStays
  <2> QED
    BY <1>2, <2>1, <2>2, TameStepsAreSingle
<1> QED
  BY <1>1, <1>8, <1>9 DEF Jobs

(* TicksDoNotPile, from TicksAreSingle: the tick looks for active jobs and *)
(* dispatches in two transactions, triggers ask nothing, and a job that    *)
(* falls back sends its successor before it ends and may be reaped in      *)
(* between, yet an influencer has one scrape of the ticks at a time, or    *)
(* two of which none can fall back again.                                  *)
THEOREM TicksStaySingle == Spec => []TicksDoNotPile
<1> DEFINE IInv == TasksAgree /\ KindsAgree /\ TicksAreSingle
<1>1. Init => IInv
  <2> SUFFICES ASSUME Init PROVE IInv
    OBVIOUS
  <2>1. \A s \in Slots : jobs[s] = Free
    BY DEF Init
  <2>2. \A i \in Influencers : row[i].api = "untried" /\ OfTicks(i) = {}
    BY <2>1 DEF Init, OfTicks, Has, Active
  <2> QED
    BY <2>1, <2>2 DEF TasksAgree, Agrees, KindsAgree, TicksAreSingle, IsSingle
<1>2. TypeOK /\ IInv /\ [Next]_vars => IInv'
  <2> SUFFICES ASSUME TypeOK, TasksAgree, KindsAgree, TicksAreSingle, [Next]_vars PROVE IInv'
    OBVIOUS
  <2>1. CASE UNCHANGED vars
    BY <2>1 DEF vars, tick, TasksAgree, Agrees, KindsAgree, TicksAreSingle, IsSingle, OfTicks, Has, Active, CanSend, Running
  <2>2. CASE Scheduling
    <3>1. row' = row /\ kind' = kind
      BY <2>2 DEF Scheduling, Tick, FallsDue, PassOver, Clear, DispatchDue, Retry
    <3>2. NoteStays
      BY <3>1 DEF NoteStays
    <3> QED
      BY <2>2, <3>1, <3>2, SchedulingKeepsSingle, MessagesAgree DEF KindsAgree
  <2>3. CASE Operating
    <3>1. ApiStays /\ TicksAreSingle'
      BY <2>3, OperatingKeepsSingle
    <3>2. kind' = kind
      BY <2>3 DEF Operating, UpdateDetails, SetActive, SwitchCategory, SwitchBackend, Trigger, VerifyAll, SchedulerRestarts
    <3>3. NoteStays /\ KindsAgree'
      BY <3>1, <3>2 DEF ApiStays, NoteStays, KindsAgree
    <3> QED
      BY <2>3, <3>1, <3>3, MessagesAgree
  <2>4. CASE Working
    <3>1. NoteStays /\ KindsAgree'
      BY <2>4, WorkingKeepsTheNote
    <3> PICK s \in Slots : Unserved(s) \/ Start(s) \/ Ends(s) \/ Reaped(s)
      BY <2>4 DEF Working
    <3>2. TasksAgree' /\ (~FallBack(s) => \A t \in Slots : Tame(t))
      BY <3>1, WorkIsTame
    <3>3. CASE FallBack(s)
      BY <3>1, <3>2, <3>3, FallBackIsSingle
    <3>4. CASE ~FallBack(s)
      BY <3>1, <3>2, <3>4, WorkIsOnAJob, TameStepsAreSingle
    <3> QED
      BY <3>3, <3>4
  <2> QED
    BY <2>1, <2>2, <2>3, <2>4 DEF Next
<1>3. TypeOK /\ IInv => TicksDoNotPile
  <2> SUFFICES ASSUME TypeOK, TicksAreSingle, NEW i \in Influencers
               PROVE  Cardinality(OfTicks(i)) <= (IF row[i].api = "no" THEN 2 ELSE 1)
    BY DEF TicksDoNotPile
  <2>1. ASSUME NEW s, NEW t
        PROVE  IsFiniteSet({s, t}) /\ Cardinality({s, t}) \in {1, 2}
    <3>1. IsFiniteSet({s}) /\ Cardinality({s}) = 1 /\ {s, t} = {s} \union {t}
      BY FS_Singleton
    <3>2. IsFiniteSet({s} \union {t}) /\ Cardinality({s} \union {t}) \in {1, 1 + 1}
      BY <3>1, FS_AddElement
    <3> QED
      BY <3>1, <3>2
  <2>2. CASE \A s, t \in OfTicks(i) : s = t
    <3>1. Cardinality(OfTicks(i)) <= 1
      <4>1. CASE OfTicks(i) = {}
        BY <4>1, FS_EmptySet
      <4>2. CASE OfTicks(i) # {}
        <5>1. PICK s \in OfTicks(i) : OfTicks(i) = {s}
          BY <2>2, <4>2
        <5>2. Cardinality({s}) = 1
          BY FS_Singleton
        <5> QED
          BY <5>1, <5>2
      <4> QED
        BY <4>1, <4>2
    <3>2. Cardinality(OfTicks(i)) \in Nat
      <4>1. IsFiniteSet(Slots) /\ OfTicks(i) \subseteq Slots
        BY FS_Interval, ConstantsAssumption DEF OfTicks, Slots
      <4> QED
        BY <4>1, FS_Subset, FS_CardinalityType
    <3> QED
      BY <3>1, <3>2
  <2>3. CASE row[i].api = "no" /\ \E s, t \in Slots : OfTicks(i) \subseteq {s, t}
    <3>1. PICK s, t \in Slots : OfTicks(i) \subseteq {s, t}
      BY <2>3
    <3>2. IsFiniteSet({s, t}) /\ Cardinality({s, t}) \in {1, 2}
      BY <2>1
    <3>3. Cardinality(OfTicks(i)) <= Cardinality({s, t}) /\ Cardinality(OfTicks(i)) \in Nat
      BY <3>1, <3>2, FS_Subset, FS_CardinalityType
    <3>4. Cardinality(OfTicks(i)) <= 2
      <4> HIDE DEF OfTicks
      <4> QED
        BY <3>2, <3>3
    <3> QED
      BY <2>3, <3>4
  <2> QED
    BY <2>2, <2>3 DEF TicksAreSingle, IsSingle
<1> QED
  BY <1>1, <1>2, <1>3, TypeCorrect, PTL DEF Spec
=============================================================================
