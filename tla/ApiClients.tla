------------------------------ MODULE ApiClients ------------------------------
(***************************************************************************)
(* The three clients that talk to the platforms and the credentials they   *)
(* do it with: InstagramClient with the cookies of one leased account,     *)
(* InstagramGraphClient with the token pool, YouTubeClient with the key    *)
(* pool.  What is at stake is whom a failed request is blamed on, that     *)
(* every request comes to an end, and that a spent credential is not lost. *)
(*                                                                         *)
(* A client lives as long as a job and keeps the credential it was handed; *)
(* its tasks share it.  A pool row is rewritten in place when an operator  *)
(* registers a new value under its label, so a value is the row and a      *)
(* generation.  The rate limiter only delays and is left out.              *)
(***************************************************************************)
EXTENDS Naturals, FiniteSets

CONSTANTS
  Apis,        (* of {"cookies", "graph", "youtube"}                        *)
  Creds,       (* the rows of the pool; for cookies, the accounts           *)
  Tasks,       (* the concurrent requests; a client is named by one of them *)
  Retries,     (* SCRAPER_MAX_RETRIES                                       *)
  Rotations,   (* _MAX_KEY_ROTATIONS, _MAX_TOKEN_ROTATIONS                  *)
  Limit,       (* YOUTUBE_DAILY_QUOTA_PER_KEY - YOUTUBE_QUOTA_SOFT_STOP     *)
  MaxActs,     (* bound: interventions of the platform or an operator       *)
  Frail,       (* bound: the rows in which they intervene                   *)
  Operated,    (* bound: the APIs in whose pools an operator acts           *)
  Rekeyed      (* values are replaced while clients hold the old one        *)

NoCred == "none"

(* No age is greater, and none is as great before all have been used.      *)
Never == Cardinality(Creds) - 1

ASSUME ConstantsAssumption ==
  /\ Apis \subseteq {"cookies", "graph", "youtube"}
  /\ IsFiniteSet(Creds) /\ Creds # {} /\ NoCred \notin Creds
  /\ IsFiniteSet(Tasks)
  /\ Retries \in Nat /\ Rotations \in Nat \ {0} /\ Limit \in Nat \ {0} /\ MaxActs \in Nat
  /\ Frail \subseteq Creds
  /\ Operated \subseteq Apis
  /\ Rekeyed \in BOOLEAN

VARIABLES
  api,
  acts,        (* how often the platform or the operator has intervened     *)
  bad,         (* <<k, g>>: values that the platform no longer accepts      *)
  gen,         (* gen[k]: the value the row holds                           *)
  status,      (* status[k]                                                 *)
  used,        (* used[k]: quota_used_today, up to Limit                    *)
  until,       (* until[k]: quota_reset_at, cooldown_until                  *)
  age,         (* age[k]: how many others were used since its last_used_at, *)
               (* Never if it has none                                      *)
  current,     (* current[c]: _current, a credential and its value          *)
  csrf,        (* csrf[c]: _fb_dtsg and _lsd are there                      *)
  pc, kind, cred, attempt, looks, rotation,  (* a task's locals             *)
  pick,        (* pick[t]: the value that a task is about to be handed      *)
  resets       (* resets[t][k]: the columns it is about to reset in a row   *)

pool    == <<gen, status, used, until, age>>
clients == <<current, csrf>>
task    == <<pc, kind, cred, attempt, looks, rotation>>
choice  == <<pick, resets>>
world   == <<acts, bad>>
vars    == <<api, world, pool, clients, task, choice>>

Values   == Creds \X (0 .. MaxActs)
NoValue  == <<NoCred, 0>>
Columns  == {"status", "used", "until"}
NoResets == [k \in Creds |-> {}]
Kinds    == IF api = "cookies" THEN {"profile", "feed", "comments"} ELSE {"any"}

TypeOK ==
  /\ api \in Apis
  /\ acts \in 0 .. MaxActs
  /\ bad \subseteq Values
  /\ gen \in [Creds -> 0 .. MaxActs]
  /\ status \in [Creds -> {"active", "spent", "invalid", "disabled"}]
  /\ used \in [Creds -> 0 .. Limit]
  /\ until \in [Creds -> {"none", "later", "due"}]
  /\ age \in [Creds -> 0 .. Never]
  /\ current \in [Tasks -> Values \union {NoValue}]
  /\ csrf \in [Tasks -> BOOLEAN]
  /\ pc \in [Tasks -> {"idle", "asking", "choosing", "calling", "posting"}]
  /\ kind \in [Tasks -> {"none", "any", "profile", "feed", "comments"}]
  /\ cred \in [Tasks -> Values \union {NoValue}]
  /\ attempt \in [Tasks -> 0 .. Retries]
  /\ looks \in [Tasks -> 0 .. Retries]
  /\ rotation \in [Tasks -> 0 .. Rotations]
  /\ pick \in [Tasks -> Values \union {NoValue}]
  /\ resets \in [Tasks -> [Creds -> SUBSET Columns]]

Init ==
  /\ api \in Apis
  /\ acts = 0
  /\ bad = {}
  /\ gen = [k \in Creds |-> 0]
  /\ status = [k \in Creds |-> "active"]
  /\ used = [k \in Creds |-> 0]
  /\ until = [k \in Creds |-> "none"]
  /\ age = [k \in Creds |-> Never]
  /\ current = [c \in Tasks |-> NoValue]
  /\ csrf = [c \in Tasks |-> FALSE]
  /\ pc = [t \in Tasks |-> "idle"]
  /\ kind = [t \in Tasks |-> "none"]
  /\ cred = [t \in Tasks |-> NoValue]
  /\ attempt = [t \in Tasks |-> 0]
  /\ looks = [t \in Tasks |-> 0]
  /\ rotation = [t \in Tasks |-> 0]
  /\ pick = [t \in Tasks |-> NoValue]
  /\ resets = [t \in Tasks |-> NoResets]

(* The posts of a cookie job or of a YouTube job share its client; a Graph  *)
(* job has one task, so that with Graph every task is a job of its own.    *)
Of(t) == IF api = "graph" THEN t ELSE CHOOSE u \in Tasks : TRUE

-----------------------------------------------------------------------------
(* The platforms, time and the operator.                                   *)

(* A session ends, a token expires, a key is deleted at its origin.        *)
Revoke(k) ==
  /\ k \in Frail
  /\ acts < MaxActs
  /\ acts' = acts + 1
  /\ \E g \in 0 .. gen[k] : <<k, g>> \notin bad /\ bad' = bad \union {<<k, g>>}
  /\ UNCHANGED <<api, choice, pool, clients, task>>

(* Midnight in California passes for every key at once, the end of an      *)
(* hour of cooldown for a token.                                           *)
TimePasses(k) ==
  /\ until[k] = "later"
  /\ until' = [j \in Creds |-> IF j = k \/ (api = "youtube" /\ until[j] = "later")
                               THEN "due" ELSE until[j]]
  /\ UNCHANGED <<api, choice, world, gen, status, used, age, clients, task>>

(* By a client, by a request, or on its way to one.                        *)
Held(k) == \E t \in Tasks : k \in {current[t][1], cred[t][1], pick[t][1]}

(* A new value under the label of a row, which becomes as good as new.     *)
Register(k) ==
  /\ api \in Operated /\ k \in Frail
  /\ acts < MaxActs
  /\ acts' = acts + 1
  /\ Rekeyed \/ ~Held(k)
  /\ gen' = [gen EXCEPT ![k] = @ + 1]
  /\ status' = [status EXCEPT ![k] = "active"]
  /\ used' = [used EXCEPT ![k] = 0]
  /\ until' = [until EXCEPT ![k] = "none"]
  /\ UNCHANGED <<api, choice, bad, age, clients, task>>

SetStatus(k, s) ==
  /\ api \in Operated /\ k \in Frail
  /\ acts < MaxActs
  /\ acts' = acts + 1
  /\ status[k] # s
  /\ status' = [status EXCEPT ![k] = s]
  /\ UNCHANGED <<api, choice, bad, gen, used, until, age, clients, task>>

-----------------------------------------------------------------------------
(* The pools.                                                              *)

(* The rows that _reset_if_due finds due, and what it leaves of them.      *)
Due(k)      == until[k] = "due" /\ status[k] \in {"active", "spent"}
StatusOf(k) == IF Due(k) THEN "active" ELSE status[k]
UsedOf(k)   == IF Due(k) THEN 0 ELSE used[k]

(* get_usable_key: the active key with the most headroom.                  *)
UsableKeys  == {k \in Creds : StatusOf(k) = "active" /\ UsedOf(k) < Limit}
BestKeys    == {k \in UsableKeys : \A j \in UsableKeys : UsedOf(k) <= UsedOf(j)}

(* get_usable_token: the active token that was not used for longest, or    *)
(* one of those that never were.                                           *)
UsableTokens == {k \in Creds : StatusOf(k) = "active"}
OldestTokens == {k \in UsableTokens : \A j \in UsableTokens : age[j] <= age[k]}

Best == IF api = "youtube" THEN BestKeys ELSE OldestTokens

(* Of a row that is due, the columns that differ from what was loaded.     *)
ResetsOf(k) ==
  IF ~Due(k) THEN {}
  ELSE {"until"} \union (IF used[k] # 0 THEN {"used"} ELSE {})
                 \union (IF status[k] = "spent" THEN {"status"} ELSE {})

(* They are written over whatever the row has become.                      *)
WriteResets(R) ==
  /\ until' = [k \in Creds |-> IF "until" \in R[k] THEN "none" ELSE until[k]]
  /\ used' = [k \in Creds |-> IF "used" \in R[k] THEN 0 ELSE used[k]]
  /\ status' = [k \in Creds |-> IF "status" \in R[k] THEN "active" ELSE status[k]]
  /\ UNCHANGED <<gen, age>>

(* add_usage.  Faulty variant: only a key that is exhausted gets a date.   *)
AddKeyUsage_NoDate(k) ==
  /\ used' = [used EXCEPT ![k] = IF @ < Limit THEN @ + 1 ELSE @]
  /\ UNCHANGED <<gen, status, until, age>>

AddKeyUsage(k) ==
  /\ used' = [used EXCEPT ![k] = IF @ < Limit THEN @ + 1 ELSE @]
  /\ until' = [until EXCEPT ![k] = IF @ = "none" THEN "later" ELSE @]
  /\ UNCHANGED <<gen, status, age>>

JustUsed(k) ==
  age' = [j \in Creds |-> IF j = k THEN 0 ELSE IF age[j] < age[k] THEN age[j] + 1 ELSE age[j]]

AddTokenUsage(k) ==
  /\ JustUsed(k)
  /\ UNCHANGED <<gen, status, used, until>>

(* mark_exhausted, mark_invalid: whatever the row's status was meanwhile.   *)
MarkSpent(k) ==
  /\ status' = [status EXCEPT ![k] = "spent"]
  /\ until' = [until EXCEPT ![k] = "later"]
  /\ UNCHANGED <<gen, used, age>>

MarkInvalid(k) ==
  /\ status' = [status EXCEPT ![k] = "invalid"]
  /\ UNCHANGED <<gen, used, until, age>>

-----------------------------------------------------------------------------
(* A request.                                                              *)

(* A new job, and its client.                                              *)
NewClient(c) ==
  /\ \A t \in Tasks : Of(t) = c => pc[t] = "idle"
  /\ current[c] # NoValue \/ csrf[c]
  /\ current' = [current EXCEPT ![c] = NoValue]
  /\ csrf' = [csrf EXCEPT ![c] = FALSE]
  /\ UNCHANGED <<api, choice, world, pool, task>>

(* _ensure_key, _ensure_token: a request takes what the client has, or     *)
(* else asks the pool.  Nothing keeps two tasks from asking at once.       *)
Request(t) ==
  /\ pc[t] = "idle"
  /\ \E x \in Kinds : kind' = [kind EXCEPT ![t] = x]
  /\ cred' = [cred EXCEPT ![t] = current[Of(t)]]
  /\ pc' = [pc EXCEPT ![t] = IF current[Of(t)] # NoValue THEN "calling" ELSE "asking"]
  /\ UNCHANGED <<api, choice, world, pool, clients, attempt, looks, rotation>>

(* The request ends, and its locals with it.                               *)
Ends(t) ==
  /\ pc' = [pc EXCEPT ![t] = "idle"]
  /\ kind' = [kind EXCEPT ![t] = "none"]
  /\ cred' = [cred EXCEPT ![t] = NoValue]
  /\ attempt' = [attempt EXCEPT ![t] = 0]
  /\ looks' = [looks EXCEPT ![t] = 0]
  /\ rotation' = [rotation EXCEPT ![t] = 0]

HandOut(t, v) ==
  /\ current' = [current EXCEPT ![Of(t)] = v]
  /\ cred' = [cred EXCEPT ![t] = v]
  /\ pc' = [pc EXCEPT ![t] = "calling"]
  /\ UNCHANGED <<kind, attempt, looks, rotation>>

(* The rows are loaded and reset as objects.  The choice is among these,   *)
(* so that it is settled here.                                             *)
LoadRows(t) ==
  /\ api # "cookies"
  /\ pc[t] = "asking"
  /\ \E v \in {<<k, gen[k]>> : k \in Best} \union {NoValue} :
       /\ v = NoValue => Best = {}
       /\ pick' = [pick EXCEPT ![t] = v]
  /\ resets' = [resets EXCEPT ![t] = [k \in Creds |-> ResetsOf(k)]]
  /\ pc' = [pc EXCEPT ![t] = "choosing"]
  /\ UNCHANGED <<api, world, pool, clients, kind, cred, attempt, looks, rotation>>

(* The resets are committed, and the credential is handed over.            *)
TakePick(t) ==
  /\ pc[t] = "choosing"
  /\ WriteResets(resets[t])
  /\ IF pick[t] = NoValue THEN Ends(t) /\ UNCHANGED current ELSE HandOut(t, pick[t])
  /\ pick' = [pick EXCEPT ![t] = NoValue]
  /\ resets' = [resets EXCEPT ![t] = NoResets]
  /\ UNCHANGED <<api, world, csrf>>

(* An account is leased in one statement, before the client is made.       *)
LeaseAccount(t) ==
  /\ api = "cookies"
  /\ pc[t] = "asking"
  /\ IF current[Of(t)] # NoValue THEN HandOut(t, current[Of(t)])
     ELSE \/ (\A k \in Creds : status[k] # "active") /\ Ends(t) /\ UNCHANGED current
          \/ \E k \in Creds : status[k] = "active" /\ HandOut(t, <<k, gen[k]>>)
  /\ UNCHANGED <<api, choice, world, pool, csrf>>

Accepted(t) == cred[t] \notin bad

(* Faulty variant: counts from one where the limit counts from zero.       *)
Retry_OneMore(t) ==
  /\ IF attempt[t] <= Retries
     THEN /\ attempt' = [attempt EXCEPT ![t] = @ + 1]
          /\ pc' = [pc EXCEPT ![t] = "calling"]
          /\ UNCHANGED <<kind, cred, looks, rotation>>
     ELSE Ends(t)
  /\ UNCHANGED pool

(* Waits and tries again, while there are attempts left.                   *)
Retry(t) ==
  /\ IF attempt[t] < Retries
     THEN /\ attempt' = [attempt EXCEPT ![t] = @ + 1]
          /\ pc' = [pc EXCEPT ![t] = "calling"]
          /\ UNCHANGED <<kind, cred, looks, rotation>>
     ELSE Ends(t)
  /\ UNCHANGED pool

(* Faulty variant: rotation goes on for as long as there is a credential.  *)
Rotate_Endless(t) ==
  /\ current' = [current EXCEPT ![Of(t)] = NoValue]
  /\ attempt' = [attempt EXCEPT ![t] = 0]
  /\ cred' = [cred EXCEPT ![t] = NoValue]
  /\ pc' = [pc EXCEPT ![t] = "asking"]
  /\ UNCHANGED <<kind, looks, rotation>>

(* The client lets go of the credential and takes the next.                *)
Rotate(t) ==
  /\ current' = [current EXCEPT ![Of(t)] = NoValue]
  /\ IF rotation[t] + 1 < Rotations
     THEN /\ rotation' = [rotation EXCEPT ![t] = @ + 1]
          /\ attempt' = [attempt EXCEPT ![t] = 0]
          /\ cred' = [cred EXCEPT ![t] = NoValue]
          /\ pc' = [pc EXCEPT ![t] = "asking"]
          /\ UNCHANGED <<kind, looks>>
     ELSE Ends(t)

(* A request for comments needs CSRF tokens first.                         *)
Asked(t) == IF kind[t] = "comments" THEN pc[t] = "posting" ELSE pc[t] = "calling"

(* The network, a 429 or a 5xx.                                            *)
Stalls(t) ==
  /\ Asked(t)
  /\ Retry(t)
  /\ UNCHANGED <<api, choice, world, clients>>

YouTubeAnswers(t) ==
  LET k == cred[t][1] IN
  /\ api = "youtube"
  /\ pc[t] = "calling"
  /\ \/ Accepted(t) /\ AddKeyUsage(k) /\ Ends(t) /\ UNCHANGED current
     \/ Accepted(t) /\ Ends(t) /\ UNCHANGED <<pool, current>>
     \/ Accepted(t) /\ MarkSpent(k) /\ Rotate(t)
     \/ ~Accepted(t) /\ MarkInvalid(k) /\ Rotate(t)
     \/ Ends(t) /\ UNCHANGED <<pool, current>>
  /\ UNCHANGED <<api, choice, world, csrf>>

(* "badRequest", "forbidden" and "accessNotConfigured" are taken for the    *)
(* key's fault too, whatever the request or the project was.               *)
BadRequest(t) ==
  LET k == cred[t][1] IN
  /\ api = "youtube"
  /\ pc[t] = "calling"
  /\ Accepted(t)
  /\ MarkInvalid(k)
  /\ Rotate(t)
  /\ UNCHANGED <<api, choice, world, csrf>>

(* A token near its cap is cooled as well, and let go of.                  *)
NearCap(t) ==
  LET k == cred[t][1] IN
  /\ api = "graph"
  /\ pc[t] = "calling"
  /\ Accepted(t)
  /\ JustUsed(k)
  /\ status' = [status EXCEPT ![k] = "spent"]
  /\ until' = [until EXCEPT ![k] = "later"]
  /\ current' = [current EXCEPT ![Of(t)] = NoValue]
  /\ Ends(t)
  /\ UNCHANGED <<api, choice, world, gen, used, csrf>>

(* An answer nobody has a handler for rotates too, and marks nothing.      *)
GraphAnswers(t) ==
  LET k == cred[t][1] IN
  /\ api = "graph"
  /\ pc[t] = "calling"
  /\ \/ Accepted(t) /\ AddTokenUsage(k) /\ Ends(t) /\ UNCHANGED current
     \/ Accepted(t) /\ Ends(t) /\ UNCHANGED <<pool, current>>
     \/ Accepted(t) /\ MarkSpent(k) /\ Rotate(t)
     \/ ~Accepted(t) /\ MarkInvalid(k) /\ Rotate(t)
     \/ Rotate(t) /\ UNCHANGED pool
  /\ UNCHANGED <<api, choice, world, csrf>>

-----------------------------------------------------------------------------
(* InstagramClient.                                                        *)

(* The bodies of a 401 or 403, and of a 200 with a status other than ok.   *)
Bodies(t) == IF Accepted(t) THEN {"wait"} ELSE {"wait", "checkpoint", "html"}

(* Faulty variant: the status code alone decides.                          *)
MeansBlocked_ByCode(body) == TRUE

MeansBlocked(body) == body \in {"checkpoint", "html"}

(* "blocked": the job that leases the account takes it out of the pool.    *)
EndsBlocked(t) == MarkInvalid(cred[t][1]) /\ Ends(t)

Refused(t) ==
  /\ api = "cookies"
  /\ Asked(t)
  /\ \E body \in Bodies(t) : IF MeansBlocked(body) THEN EndsBlocked(t) ELSE Retry(t)
  /\ UNCHANGED <<api, choice, world, clients>>

(* A session that can no longer load a page is sent round in circles.      *)
Redirected(t) ==
  /\ api = "cookies"
  /\ Asked(t) \/ (pc[t] = "calling" /\ ~csrf[Of(t)])
  /\ ~Accepted(t)
  /\ EndsBlocked(t)
  /\ UNCHANGED <<api, choice, world, clients>>

(* _get: the items, or an unexpected status or body, which is not retried. *)
(* get_user_info looks again a few times before it believes in no user.    *)
Gets(t) ==
  /\ api = "cookies"
  /\ pc[t] = "calling"
  /\ kind[t] \in {"profile", "feed"}
  /\ \/ Accepted(t) /\ Ends(t)
     \/ Ends(t)
     \/ /\ Accepted(t)
        /\ kind[t] = "profile"
        /\ IF looks[t] < Retries
           THEN /\ looks' = [looks EXCEPT ![t] = @ + 1]
                /\ attempt' = [attempt EXCEPT ![t] = 0]
                /\ UNCHANGED <<pc, kind, cred, rotation>>
           ELSE Ends(t)
  /\ UNCHANGED <<api, choice, world, pool, clients>>

(* _ensure_csrf_tokens: the tokens the client has, or those of a page it   *)
(* loads.  A page without them raises "blocked" inside the try that takes  *)
(* everything but a redirect for a stall.                                  *)
LoadsPage(t) ==
  /\ api = "cookies"
  /\ pc[t] = "calling"
  /\ kind[t] = "comments"
  /\ \/ /\ csrf[Of(t)] \/ Accepted(t)
        /\ csrf' = [csrf EXCEPT ![Of(t)] = TRUE]
        /\ pc' = [pc EXCEPT ![t] = "posting"]
        /\ UNCHANGED <<pool, kind, cred, attempt, looks, rotation>>
     \/ ~csrf[Of(t)] /\ ~Accepted(t) /\ Retry(t) /\ UNCHANGED csrf
  /\ UNCHANGED <<api, choice, world, current>>

(* A page instead of JSON: the tokens are fetched anew, now outside of the *)
(* try, so that what goes wrong there is what the caller gets.             *)
Posts(t) ==
  /\ api = "cookies"
  /\ pc[t] = "posting"
  /\ \/ Accepted(t) /\ Ends(t) /\ UNCHANGED pool
     \/ Accepted(t) /\ Retry(t)
     \/ ~Accepted(t) /\ EndsBlocked(t)
     \/ ~Accepted(t) /\ Ends(t) /\ UNCHANGED pool
  /\ UNCHANGED <<api, choice, world, clients>>

(* A stall of a post drops the tokens, which other tasks share.            *)
PostStalls(t) ==
  /\ api = "cookies"
  /\ \/ pc[t] = "posting"
     \/ pc[t] = "calling" /\ kind[t] = "comments" /\ ~csrf[Of(t)]
  /\ Retry(t)
  /\ csrf' = [csrf EXCEPT ![Of(t)] = @ /\ attempt[t] = Retries]
  /\ UNCHANGED <<api, choice, world, current>>

-----------------------------------------------------------------------------
WorldStep ==
  \E k \in Creds :
    \/ TimePasses(k) \/ Revoke(k) \/ Register(k)
    \/ \E s \in {"active", "disabled"} : SetStatus(k, s)

Answered(t) ==
  \/ Stalls(t) \/ YouTubeAnswers(t) \/ BadRequest(t) \/ NearCap(t) \/ GraphAnswers(t)
  \/ Refused(t) \/ Redirected(t) \/ Gets(t) \/ LoadsPage(t) \/ Posts(t) \/ PostStalls(t)

Chooses(t) == LoadRows(t) \/ TakePick(t) \/ LeaseAccount(t)

TaskStep(t) == Request(t) \/ Chooses(t) \/ Answered(t)

Next ==
  \/ WorldStep
  \/ \E c \in Tasks : NewClient(c)
  \/ \E t \in Tasks : TaskStep(t)

(* A request that is under way gets an answer, or a timeout takes its      *)
(* place, and the database answers.                                        *)
Fairness == \A t \in Tasks : WF_vars(pc[t] # "idle" /\ TaskStep(t))

Spec == Init /\ [][Next]_vars /\ Fairness

-----------------------------------------------------------------------------
(* Properties.                                                             *)

(* Neither a pooled credential nor a leased session is put out of service  *)
(* for answers that a good one gets: what a step marks invalid, or reports *)
(* as blocked, is no longer accepted by its platform.  The one exception   *)
(* are YouTube's answers that blame the request.                           *)
HealthyIsNotBlamed ==
  [][\A k \in Creds :
       status[k] # "invalid" /\ status'[k] = "invalid" =>
         <<k, gen[k]>> \in bad \/ \E t \in Tasks : BadRequest(t)]_vars

(* A credential that runs out, by an answer or by its count, has a date on *)
(* which it is reset and picked again.  Only a reset committed over what   *)
(* the row has become since it was loaded can take the date away.          *)
HasRunOut(k)  == api = "youtube" /\ used[k] = Limit
IsStranded(k) == (status[k] = "spent" \/ HasRunOut(k)) /\ until[k] = "none"
IsOutdated(t, k) ==
  /\ "until" \in resets[t][k]
  /\ \/ status[k] = "spent" /\ "status" \notin resets[t][k]
     \/ used[k] # 0 /\ "used" \notin resets[t][k]

DatesAreKept ==
  [][\A k \in Creds :
       ~IsStranded(k) /\ IsStranded(k)' => \E t \in Tasks : TakePick(t) /\ IsOutdated(t, k)]_vars

(* However the answers go, no request is retried and rotated without end.  *)
RequestsEnd == \A t \in Tasks : pc[t] # "idle" ~> pc[t] = "idle"
=============================================================================
