--------------------------- MODULE ApiClients_proofs ---------------------------
(***************************************************************************)
(* What holds of ApiClients for any number of credentials and requests,    *)
(* any limits and any mix of answers.                                      *)
(***************************************************************************)
EXTENDS ApiClients, FiniteSetTheorems, TLAPS

WorldTyped ==
  /\ api \in Apis
  /\ acts \in 0 .. MaxActs
  /\ bad \subseteq Values

(* A value is counted from the operator's acts.                            *)
PoolTyped ==
  /\ gen \in [Creds -> 0 .. MaxActs] /\ \A k \in Creds : gen[k] <= acts
  /\ status \in [Creds -> {"active", "spent", "invalid", "disabled"}]
  /\ used \in [Creds -> 0 .. Limit]
  /\ until \in [Creds -> {"none", "later", "due"}]
  /\ age \in [Creds -> 0 .. Never]

ClientsTyped ==
  /\ current \in [Tasks -> Values \union {NoValue}]
  /\ csrf \in [Tasks -> BOOLEAN]

(* What calls or posts has something to do it with.                        *)
Calling(t) == pc[t] \in {"calling", "posting"}

TasksTyped ==
  /\ pc \in [Tasks -> {"idle", "asking", "choosing", "calling", "posting"}]
  /\ kind \in [Tasks -> {"none", "any", "profile", "feed", "comments"}]
  /\ cred \in [Tasks -> Values \union {NoValue}] /\ \A t \in Tasks : Calling(t) => cred[t] \in Values
  /\ attempt \in [Tasks -> 0 .. Retries]
  /\ looks \in [Tasks -> 0 .. Retries]
  /\ rotation \in [Tasks -> 0 .. Rotations]

ChoiceTyped ==
  /\ pick \in [Tasks -> Values \union {NoValue}]
  /\ resets \in [Tasks -> [Creds -> SUBSET Columns]]

Typed == WorldTyped /\ PoolTyped /\ ClientsTyped /\ TasksTyped /\ ChoiceTyped

(* What a client or a request holds is the value of its row.               *)
HeldIsCurrent ==
  /\ \A c \in Tasks : current[c] # NoValue => current[c][2] = gen[current[c][1]]
  /\ \A t \in Tasks : cred[t] # NoValue => cred[t][2] = gen[cred[t][1]]
  /\ \A t \in Tasks : pick[t] # NoValue => pick[t][2] = gen[pick[t][1]]

-----------------------------------------------------------------------------
(* Types.                                                                  *)

LEMMA BoundsAreNumbers ==
  /\ Retries \in Nat /\ Rotations \in Nat \ {0} /\ Limit \in Nat \ {0} /\ MaxActs \in Nat
  /\ Never \in Nat
  /\ NoValue \notin Values /\ NoCred \notin Creds
<1>1. Cardinality(Creds) \in Nat /\ Cardinality(Creds) # 0
  BY ConstantsAssumption, FS_CardinalityType, FS_EmptySet
<1>2. Never \in Nat
  BY <1>1 DEF Never
<1> QED
  BY <1>2, ConstantsAssumption DEF NoValue, Values

(* Clients without credentials, over a pool of active rows.                *)
LEMMA TypeHoldsInitially == Init => Typed
<1> SUFFICES ASSUME Init PROVE Typed
  OBVIOUS
<1>1. WorldTyped
  BY BoundsAreNumbers DEF Init, WorldTyped
<1>2. PoolTyped
  BY BoundsAreNumbers DEF Init, PoolTyped
<1>3. ClientsTyped
  BY DEF Init, ClientsTyped
<1>4. TasksTyped
  BY BoundsAreNumbers DEF Init, TasksTyped, Calling
<1>5. ChoiceTyped
  BY DEF Init, ChoiceTyped, NoResets
<1> QED
  BY <1>1, <1>2, <1>3, <1>4, <1>5 DEF Typed

(* What the pools do to a row.                                             *)
LEMMA MarkingIsTyped ==
  ASSUME Typed, NEW k \in Creds,
         MarkSpent(k) \/ MarkInvalid(k) \/ AddKeyUsage(k) \/ AddTokenUsage(k) \/ UNCHANGED pool,
         acts' = acts
  PROVE  PoolTyped'
<1>1. CASE MarkSpent(k) \/ MarkInvalid(k) \/ UNCHANGED pool
  BY <1>1 DEF Typed, PoolTyped, MarkSpent, MarkInvalid, pool
<1>2. CASE AddKeyUsage(k)
  <2>1. used' \in [Creds -> 0 .. Limit]
    <3>1. used \in [Creds -> 0 .. Limit] /\ used' = [used EXCEPT ![k] = IF @ < Limit THEN @ + 1 ELSE @]
      BY <1>2 DEF AddKeyUsage, Typed, PoolTyped
    <3> QED
      BY <3>1, BoundsAreNumbers
  <2>2. until' \in [Creds -> {"none", "later", "due"}]
    BY <1>2 DEF AddKeyUsage, Typed, PoolTyped
  <2> QED
    BY <1>2, <2>1, <2>2 DEF AddKeyUsage, Typed, PoolTyped
<1>3. CASE AddTokenUsage(k)
  <2>1. age' \in [Creds -> 0 .. Never]
    BY <1>3, BoundsAreNumbers DEF AddTokenUsage, JustUsed, Typed, PoolTyped
  <2> QED
    BY <1>3, <2>1 DEF AddTokenUsage, Typed, PoolTyped
<1> QED
  BY <1>1, <1>2, <1>3

(* The end of a request, another attempt, another credential.              *)
LEMMA EndingIsTyped ==
  ASSUME Typed, NEW t \in Tasks, Ends(t)
  PROVE  TasksTyped'
<1>1. /\ pc' \in [Tasks -> {"idle", "asking", "choosing", "calling", "posting"}]
      /\ kind' \in [Tasks -> {"none", "any", "profile", "feed", "comments"}]
      /\ cred' \in [Tasks -> Values \union {NoValue}]
  BY DEF Ends, Typed, TasksTyped
<1>2. attempt' \in [Tasks -> 0 .. Retries] /\ looks' \in [Tasks -> 0 .. Retries] /\ rotation' \in [Tasks -> 0 .. Rotations]
  BY BoundsAreNumbers DEF Ends, Typed, TasksTyped
<1>3. \A u \in Tasks : Calling(u)' => cred'[u] \in Values
  BY DEF Ends, Typed, TasksTyped, Calling
<1> QED
  BY <1>1, <1>2, <1>3 DEF TasksTyped

(* A further attempt stays within the limit, and marks no row.             *)
LEMMA RetryingIsTyped ==
  ASSUME Typed, NEW t \in Tasks, Calling(t), Retry(t)
  PROVE  TasksTyped' /\ UNCHANGED pool
<1>1. CASE Ends(t)
  BY <1>1, EndingIsTyped DEF Retry
<1>2. CASE attempt[t] < Retries
  <2>1. attempt' \in [Tasks -> 0 .. Retries]
    <3>1. attempt \in [Tasks -> 0 .. Retries] /\ attempt' = [attempt EXCEPT ![t] = @ + 1]
      BY <1>2 DEF Retry, Typed, TasksTyped
    <3> QED
      BY <1>2, <3>1, BoundsAreNumbers
  <2>2. pc' \in [Tasks -> {"idle", "asking", "choosing", "calling", "posting"}]
    BY <1>2 DEF Retry, Typed, TasksTyped
  <2>3. \A u \in Tasks : Calling(u)' => cred'[u] \in Values
    BY <1>2 DEF Retry, Typed, TasksTyped, Calling
  <2> QED
    BY <1>2, <2>1, <2>2, <2>3 DEF Retry, Typed, TasksTyped
<1> QED
  BY <1>1, <1>2 DEF Retry

(* So does a further credential; the client lets go of the old one.        *)
LEMMA RotatingIsTyped ==
  ASSUME Typed, NEW t \in Tasks, Rotate(t)
  PROVE  TasksTyped' /\ current' \in [Tasks -> Values \union {NoValue}]
<1>1. current' \in [Tasks -> Values \union {NoValue}]
  BY DEF Rotate, Typed, ClientsTyped
<1>2. CASE Ends(t)
  BY <1>1, <1>2, EndingIsTyped
<1>3. CASE rotation[t] + 1 < Rotations
  <2>1. rotation' \in [Tasks -> 0 .. Rotations]
    <3>1. rotation \in [Tasks -> 0 .. Rotations] /\ rotation' = [rotation EXCEPT ![t] = @ + 1]
      BY <1>3 DEF Rotate, Typed, TasksTyped
    <3> QED
      BY <1>3, <3>1, BoundsAreNumbers
  <2>2. attempt' \in [Tasks -> 0 .. Retries]
    BY <1>3, BoundsAreNumbers DEF Rotate, Typed, TasksTyped
  <2>3. pc' \in [Tasks -> {"idle", "asking", "choosing", "calling", "posting"}] /\ cred' \in [Tasks -> Values \union {NoValue}]
    BY <1>3 DEF Rotate, Typed, TasksTyped
  <2>4. \A u \in Tasks : Calling(u)' => cred'[u] \in Values
    BY <1>3 DEF Rotate, Typed, TasksTyped, Calling
  <2> QED
    BY <1>1, <1>3, <2>1, <2>2, <2>3, <2>4 DEF Rotate, Typed, TasksTyped
<1> QED
  BY <1>2, <1>3 DEF Rotate

(* The platforms, time and the operator.                                   *)
LEMMA WorldIsTyped ==
  ASSUME Typed, WorldStep
  PROVE  Typed'
<1> PICK k \in Creds : TimePasses(k) \/ Revoke(k) \/ Register(k) \/ \E s \in {"active", "disabled"} : SetStatus(k, s)
  BY DEF WorldStep
<1>1. acts \in 0 .. MaxActs /\ MaxActs \in Nat /\ gen \in [Creds -> 0 .. MaxActs] /\ \A j \in Creds : gen[j] <= acts
  BY BoundsAreNumbers DEF Typed, WorldTyped, PoolTyped
<1>2. CASE TimePasses(k)
  BY <1>2
     DEF TimePasses, Typed, WorldTyped, PoolTyped, ClientsTyped, TasksTyped, ChoiceTyped, Calling, world, clients, task, choice
<1>3. CASE Revoke(k)
  <2>1. bad' \subseteq Values /\ acts' = acts + 1 /\ acts' \in 0 .. MaxActs
    BY <1>1, <1>3 DEF Revoke, Typed, WorldTyped, Values
  <2>2. gen' = gen /\ \A j \in Creds : gen[j] <= acts'
    BY <1>1, <1>3, <2>1 DEF Revoke, pool
  <2> QED
    BY <1>3, <2>1, <2>2
       DEF Revoke, Typed, WorldTyped, PoolTyped, ClientsTyped, TasksTyped, ChoiceTyped, Calling, pool, clients, task, choice
<1>4. CASE Register(k)
  <2>1. acts' = acts + 1 /\ acts' \in 0 .. MaxActs
    BY <1>1, <1>4 DEF Register
  <2>2. gen' \in [Creds -> 0 .. MaxActs] /\ \A j \in Creds : gen'[j] <= acts'
    <3>1. gen' = [gen EXCEPT ![k] = @ + 1]
      BY <1>4 DEF Register
    <3>2. \A j \in Creds : gen'[j] \in {gen[j], gen[j] + 1}
      BY <1>1, <3>1
    <3>3. \A j \in Creds : gen'[j] \in 0 .. MaxActs /\ gen'[j] <= acts'
      BY <1>1, <2>1, <3>2
    <3> QED
      BY <1>1, <3>1, <3>3
  <2>3. /\ status' \in [Creds -> {"active", "spent", "invalid", "disabled"}]
        /\ until' \in [Creds -> {"none", "later", "due"}]
    BY <1>4 DEF Register, Typed, PoolTyped
  <2>4. used' \in [Creds -> 0 .. Limit]
    BY <1>4, BoundsAreNumbers DEF Register, Typed, PoolTyped
  <2> QED
    BY <1>4, <2>1, <2>2, <2>3, <2>4
       DEF Register, Typed, WorldTyped, PoolTyped, ClientsTyped, TasksTyped, ChoiceTyped, Calling, clients, task, choice
<1>5. ASSUME NEW s \in {"active", "disabled"}, SetStatus(k, s) PROVE Typed'
  <2>1. acts' = acts + 1 /\ acts' \in 0 .. MaxActs
    BY <1>1, <1>5 DEF SetStatus
  <2>2. status' \in [Creds -> {"active", "spent", "invalid", "disabled"}]
    BY <1>5 DEF SetStatus, Typed, PoolTyped
  <2>3. gen' = gen /\ \A j \in Creds : gen[j] <= acts'
    BY <1>1, <1>5, <2>1 DEF SetStatus
  <2> QED
    BY <1>5, <2>1, <2>2, <2>3
       DEF SetStatus, Typed, WorldTyped, PoolTyped, ClientsTyped, TasksTyped, ChoiceTyped, Calling, clients, task, choice
<1> QED
  BY <1>2, <1>3, <1>4, <1>5

(* Clients and the beginning of a request.                                 *)
LEMMA BeginningIsTyped ==
  ASSUME Typed, (\E c \in Tasks : NewClient(c)) \/ (\E t \in Tasks : Request(t))
  PROVE  Typed'
<1>1. ASSUME NEW c \in Tasks, NewClient(c) PROVE Typed'
  <2>1. ClientsTyped'
    BY <1>1 DEF NewClient, Typed, ClientsTyped
  <2> QED
    BY <1>1, <2>1
       DEF NewClient, Typed, WorldTyped, PoolTyped, TasksTyped, ChoiceTyped, Calling, world, pool, task, choice
<1>2. ASSUME NEW t \in Tasks, Request(t) PROVE Typed'
  <2>1. current[Of(t)] \in Values \union {NoValue}
    BY DEF Typed, ClientsTyped, Of
  <2>2. kind' \in [Tasks -> {"none", "any", "profile", "feed", "comments"}]
    BY <1>2 DEF Request, Kinds, Typed, TasksTyped
  <2>3. /\ cred' = [cred EXCEPT ![t] = current[Of(t)]]
        /\ pc' = [pc EXCEPT ![t] = IF current[Of(t)] # NoValue THEN "calling" ELSE "asking"]
    BY <1>2 DEF Request
  <2>4. /\ pc' \in [Tasks -> {"idle", "asking", "choosing", "calling", "posting"}]
        /\ cred' \in [Tasks -> Values \union {NoValue}]
        /\ \A u \in Tasks : Calling(u)' => cred'[u] \in Values
    BY <2>1, <2>3 DEF Typed, TasksTyped, Calling
  <2> QED
    BY <1>2, <2>2, <2>4
       DEF Request, Typed, WorldTyped, PoolTyped, ClientsTyped, TasksTyped, ChoiceTyped, world, pool, clients, choice
<1> QED
  BY <1>1, <1>2

(* A value is handed to a client and to the request that asked for it.     *)
LEMMA HandingOutIsTyped ==
  ASSUME Typed, NEW t \in Tasks, NEW v \in Values, HandOut(t, v)
  PROVE  TasksTyped' /\ current' \in [Tasks -> Values \union {NoValue}]
<1>1. current' \in [Tasks -> Values \union {NoValue}] /\ cred' \in [Tasks -> Values \union {NoValue}]
  BY DEF HandOut, Typed, ClientsTyped, TasksTyped
<1>2. pc' \in [Tasks -> {"idle", "asking", "choosing", "calling", "posting"}]
  BY DEF HandOut, Typed, TasksTyped
<1>3. \A u \in Tasks : Calling(u)' => cred'[u] \in Values
  BY DEF HandOut, Typed, TasksTyped, Calling
<1> QED
  BY <1>1, <1>2, <1>3 DEF HandOut, Typed, TasksTyped

(* A credential is asked for.                                              *)
LEMMA ChoosingIsTyped ==
  ASSUME Typed, NEW t \in Tasks, Chooses(t)
  PROVE  Typed'
<1>1. CASE LoadRows(t)
  <2>1. \A k \in Best : k \in Creds /\ <<k, gen[k]>> \in Values
    BY DEF Best, BestKeys, UsableKeys, OldestTokens, UsableTokens, Typed, PoolTyped, Values
  <2>2. pick' \in [Tasks -> Values \union {NoValue}]
    BY <1>1, <2>1 DEF LoadRows, Typed, ChoiceTyped
  <2>3. \A k \in Creds : ResetsOf(k) \in SUBSET Columns
    BY DEF ResetsOf, Columns
  <2>4. resets' \in [Tasks -> [Creds -> SUBSET Columns]]
    <3>1. [k \in Creds |-> ResetsOf(k)] \in [Creds -> SUBSET Columns]
      BY <2>3
    <3> QED
      BY <1>1, <3>1 DEF LoadRows, Typed, ChoiceTyped
  <2>5. pc' \in [Tasks -> {"idle", "asking", "choosing", "calling", "posting"}]
    BY <1>1 DEF LoadRows, Typed, TasksTyped
  <2>6. \A u \in Tasks : Calling(u)' => cred'[u] \in Values
    BY <1>1 DEF LoadRows, Typed, TasksTyped, Calling
  <2> QED
    BY <1>1, <2>2, <2>4, <2>5, <2>6
       DEF LoadRows, Typed, WorldTyped, PoolTyped, ClientsTyped, TasksTyped, ChoiceTyped, world, pool, clients
<1>2. CASE TakePick(t)
  <2>1. PoolTyped'
    <3>1. acts' = acts /\ UNCHANGED <<gen, age>>
      BY <1>2 DEF TakePick, WriteResets, world
    <3>2. used' \in [Creds -> 0 .. Limit]
      BY <1>2, BoundsAreNumbers DEF TakePick, WriteResets, Typed, PoolTyped
    <3>3. /\ status' \in [Creds -> {"active", "spent", "invalid", "disabled"}]
          /\ until' \in [Creds -> {"none", "later", "due"}]
      BY <1>2 DEF TakePick, WriteResets, Typed, PoolTyped
    <3> QED
      BY <3>1, <3>2, <3>3 DEF Typed, PoolTyped
  <2>2. ChoiceTyped'
    <3>1. NoResets \in [Creds -> SUBSET Columns]
      BY DEF NoResets
    <3> QED
      BY <1>2, <3>1 DEF TakePick, Typed, ChoiceTyped
  <2>3. CASE Ends(t) /\ UNCHANGED current
    BY <1>2, <2>1, <2>2, <2>3, EndingIsTyped DEF TakePick, Typed, WorldTyped, ClientsTyped, world
  <2>4. CASE pick[t] # NoValue /\ HandOut(t, pick[t])
    <3>1. pick[t] \in Values
      BY <2>4 DEF Typed, ChoiceTyped
    <3> QED
      BY <1>2, <2>1, <2>2, <2>4, <3>1, HandingOutIsTyped DEF TakePick, Typed, WorldTyped, ClientsTyped, world
  <2> QED
    BY <1>2, <2>3, <2>4 DEF TakePick
<1>3. CASE LeaseAccount(t)
  <2>1. ASSUME NEW v \in Values, HandOut(t, v) PROVE Typed'
    BY <1>3, <2>1, HandingOutIsTyped
       DEF LeaseAccount, Typed, WorldTyped, PoolTyped, ClientsTyped, ChoiceTyped, world, pool, choice
  <2>2. CASE Ends(t) /\ UNCHANGED current
    BY <1>3, <2>2, EndingIsTyped
       DEF LeaseAccount, Typed, WorldTyped, PoolTyped, ClientsTyped, ChoiceTyped, world, pool, choice
  <2>3. current[Of(t)] # NoValue => current[Of(t)] \in Values
    BY DEF Typed, ClientsTyped, Of
  <2>4. \A k \in Creds : <<k, gen[k]>> \in Values
    BY DEF Typed, PoolTyped, Values
  <2> QED
    BY <1>3, <2>1, <2>2, <2>3, <2>4 DEF LeaseAccount
<1> QED
  BY <1>1, <1>2, <1>3 DEF Chooses

(* An answer moves the task on, and the credential's row and the client's  *)
(* hold of it as one of these does.                                        *)
LEMMA AnswerIsTyped ==
  ASSUME Typed, NEW t \in Tasks, Calling(t), UNCHANGED <<api, choice, world>>,
         csrf' \in [Tasks -> BOOLEAN],
         \/ /\ Ends(t) \/ Retry(t) \/ UNCHANGED task
            /\ UNCHANGED current
         \/ Rotate(t),
         LET k == cred[t][1]
         IN  MarkSpent(k) \/ MarkInvalid(k) \/ AddKeyUsage(k) \/ AddTokenUsage(k) \/ UNCHANGED pool
  PROVE  Typed'
<1>1. cred[t][1] \in Creds
  BY DEF Typed, TasksTyped, Values
<1>2. PoolTyped'
  BY <1>1, MarkingIsTyped DEF world
<1>3. TasksTyped' /\ current' \in [Tasks -> Values \union {NoValue}]
  <2>1. CASE UNCHANGED task /\ UNCHANGED current
    BY <2>1 DEF Typed, TasksTyped, ClientsTyped, Calling, task
  <2> QED
    BY <2>1, EndingIsTyped, RetryingIsTyped, RotatingIsTyped DEF Typed, ClientsTyped
<1> QED
  BY <1>2, <1>3 DEF Typed, WorldTyped, ClientsTyped, ChoiceTyped, world, choice

(* One case for each way to be answered.                                   *)
LEMMA AnsweringIsTyped ==
  ASSUME Typed, NEW t \in Tasks, Answered(t)
  PROVE  Typed'
<1>1. csrf \in [Tasks -> BOOLEAN]
  BY DEF Typed, ClientsTyped
<1>2. CASE Stalls(t)
  BY <1>1, <1>2, AnswerIsTyped, RetryingIsTyped DEF Stalls, Asked, Calling, clients
<1>3. CASE YouTubeAnswers(t)
  BY <1>1, <1>3, AnswerIsTyped DEF YouTubeAnswers, Calling
<1>12. CASE BadRequest(t)
  BY <1>1, <1>12, AnswerIsTyped DEF BadRequest, Calling
<1>4. CASE GraphAnswers(t)
  BY <1>1, <1>4, AnswerIsTyped DEF GraphAnswers, Calling
<1>5. CASE Refused(t)
  BY <1>1, <1>5, AnswerIsTyped, RetryingIsTyped DEF Refused, EndsBlocked, Asked, Calling, clients
<1>6. CASE Redirected(t)
  BY <1>1, <1>6, AnswerIsTyped DEF Redirected, EndsBlocked, Asked, Calling, clients
<1>7. CASE Posts(t)
  BY <1>1, <1>7, AnswerIsTyped, RetryingIsTyped DEF Posts, EndsBlocked, Calling, clients
<1>8. CASE PostStalls(t)
  <2>1. csrf' \in [Tasks -> BOOLEAN]
    <3>1. (csrf[Of(t)] /\ attempt[t] = Retries) \in BOOLEAN
      OBVIOUS
    <3> QED
      BY <1>1, <1>8, <3>1 DEF PostStalls
  <2> QED
    BY <1>8, <2>1, AnswerIsTyped, RetryingIsTyped DEF PostStalls, Calling
<1>9. CASE NearCap(t)
  <2> DEFINE k == cred[t][1]
  <2>1. k \in Creds
    BY <1>9 DEF NearCap, Typed, TasksTyped, Calling, Values
  <2>2. age' \in [Creds -> 0 .. Never]
    BY <1>9, <2>1, BoundsAreNumbers DEF NearCap, JustUsed, Typed, PoolTyped
  <2>3. PoolTyped'
    BY <1>9, <2>2 DEF NearCap, Typed, PoolTyped, world
  <2>4. ClientsTyped'
    BY <1>9 DEF NearCap, Typed, ClientsTyped
  <2>5. TasksTyped'
    BY <1>9, EndingIsTyped DEF NearCap
  <2> QED
    BY <1>9, <2>3, <2>4, <2>5 DEF NearCap, Typed, WorldTyped, ChoiceTyped, world, choice
<1>10. CASE Gets(t)
  <2>1. CASE Ends(t)
    BY <1>1, <1>10, <2>1, AnswerIsTyped DEF Gets, Calling, clients
  <2>2. CASE /\ looks[t] < Retries /\ looks' = [looks EXCEPT ![t] = @ + 1]
             /\ attempt' = [attempt EXCEPT ![t] = 0]
             /\ UNCHANGED <<pc, kind, cred, rotation>>
    <3>1. looks' \in [Tasks -> 0 .. Retries] /\ attempt' \in [Tasks -> 0 .. Retries]
      BY <2>2, BoundsAreNumbers DEF Typed, TasksTyped
    <3> QED
      BY <1>10, <2>2, <3>1
         DEF Gets, Typed, WorldTyped, PoolTyped, ClientsTyped, TasksTyped, ChoiceTyped, Calling, world, pool, clients, choice
  <2> QED
    BY <1>10, <2>1, <2>2 DEF Gets
<1>11. CASE LoadsPage(t)
  <2>1. csrf' \in [Tasks -> BOOLEAN]
    BY <1>1, <1>11 DEF LoadsPage
  <2>2. CASE Retry(t)
    BY <1>11, <2>1, <2>2, AnswerIsTyped, RetryingIsTyped DEF LoadsPage, Calling
  <2>3. CASE pc' = [pc EXCEPT ![t] = "posting"] /\ UNCHANGED <<pool, kind, cred, attempt, looks, rotation>>
    <3>1. pc' \in [Tasks -> {"idle", "asking", "choosing", "calling", "posting"}]
      BY <2>3 DEF Typed, TasksTyped
    <3>2. \A u \in Tasks : Calling(u)' => cred'[u] \in Values
      BY <1>11, <2>3 DEF LoadsPage, Typed, TasksTyped, Calling
    <3> QED
      BY <1>11, <2>1, <2>3, <3>1, <3>2
         DEF LoadsPage, Typed, WorldTyped, PoolTyped, ClientsTyped, TasksTyped, ChoiceTyped, world, pool, choice
  <2> QED
    BY <1>11, <2>2, <2>3 DEF LoadsPage
<1> QED
  BY <1>2, <1>3, <1>4, <1>5, <1>6, <1>7, <1>8, <1>9, <1>10, <1>11, <1>12 DEF Answered

(* Every action, and the steps that change nothing.                        *)
LEMMA TypeIsPreserved == Typed /\ [Next]_vars => Typed'
<1> SUFFICES ASSUME Typed, [Next]_vars PROVE Typed'
  OBVIOUS
<1>1. CASE UNCHANGED vars
  BY <1>1
     DEF vars, Typed, WorldTyped, PoolTyped, ClientsTyped, TasksTyped, ChoiceTyped, Calling, world, pool, clients, task, choice
<1> QED
  BY <1>1, WorldIsTyped, BeginningIsTyped, ChoosingIsTyped, AnsweringIsTyped DEF Next, TaskStep

(* Every variable has its type; in particular no attempt, no further look  *)
(* and no rotation is beyond its limit.                                    *)
THEOREM TypeCorrect == Spec => []TypeOK
<1>1. Spec => []Typed
  BY TypeHoldsInitially, TypeIsPreserved, PTL DEF Spec
<1>2. Typed => TypeOK
  BY DEF Typed, WorldTyped, PoolTyped, ClientsTyped, TasksTyped, ChoiceTyped, TypeOK
<1> QED
  BY <1>1, <1>2, PTL

-----------------------------------------------------------------------------
(* Blame.                                                                  *)

(* Whatever of these holds a value, holds the one of its row.              *)
LEMMA HeldStaysCurrent ==
  ASSUME Typed, HeldIsCurrent, gen' = gen,
         \A c \in Tasks : current'[c] \in {current[c], NoValue} \union {<<k, gen[k]>> : k \in Creds},
         \A t \in Tasks : cred'[t] \in {cred[t], NoValue} \union {<<k, gen[k]>> : k \in Creds},
         \A t \in Tasks : pick'[t] \in {pick[t], NoValue} \union {<<k, gen[k]>> : k \in Creds}
  PROVE  HeldIsCurrent'
BY DEF HeldIsCurrent

(* No value is replaced while it is held.                                  *)
LEMMA WorldKeepsHeld ==
  ASSUME Rekeyed = FALSE, Typed, HeldIsCurrent, WorldStep
  PROVE  HeldIsCurrent'
<1> PICK k \in Creds : TimePasses(k) \/ Revoke(k) \/ Register(k) \/ \E s \in {"active", "disabled"} : SetStatus(k, s)
  BY DEF WorldStep
<1>1. CASE TimePasses(k) \/ Revoke(k) \/ \E s \in {"active", "disabled"} : SetStatus(k, s)
  BY <1>1, HeldStaysCurrent DEF TimePasses, Revoke, SetStatus, pool, clients, task, choice
<1>2. CASE Register(k)
  <2>1. /\ ~Held(k) /\ current' = current /\ cred' = cred /\ pick' = pick
        /\ \A j \in Creds \ {k} : gen'[j] = gen[j]
    BY <1>2 DEF Register, clients, task, choice, Typed, PoolTyped
  <2>2. \A t \in Tasks : /\ current[t] # NoValue => current[t][1] \in Creds \ {k}
                         /\ cred[t] # NoValue => cred[t][1] \in Creds \ {k}
                         /\ pick[t] # NoValue => pick[t][1] \in Creds \ {k}
    BY <2>1 DEF Held, Typed, ClientsTyped, TasksTyped, ChoiceTyped, Values
  <2> QED
    BY <2>1, <2>2 DEF HeldIsCurrent
<1> QED
  BY <1>1, <1>2

(* What a request takes is what its client or the pool holds.              *)
LEMMA RequestKeepsHeld ==
  ASSUME Typed, HeldIsCurrent, NEW t \in Tasks, Request(t) \/ Chooses(t)
  PROVE  HeldIsCurrent'
<1>1. gen' = gen
  BY DEF Request, Chooses, LoadRows, TakePick, WriteResets, LeaseAccount, pool
<1>2. Of(t) \in Tasks
  BY DEF Of
<1>3. /\ current \in [Tasks -> Values \union {NoValue}] /\ cred \in [Tasks -> Values \union {NoValue}]
      /\ pick \in [Tasks -> Values \union {NoValue}]
  BY DEF Typed, ClientsTyped, TasksTyped, ChoiceTyped
<1>4. \A v \in Values \union {NoValue} :
        v # NoValue /\ v[2] = gen[v[1]] => v \in {<<k, gen[k]>> : k \in Creds}
  BY DEF Values
<1>5. /\ current[Of(t)] \in {NoValue} \union {<<k, gen[k]>> : k \in Creds}
      /\ pick[t] \in {NoValue} \union {<<k, gen[k]>> : k \in Creds}
  BY <1>2, <1>3, <1>4 DEF HeldIsCurrent
<1>6. CASE Request(t)
  BY <1>1, <1>3, <1>5, <1>6, HeldStaysCurrent DEF Request, clients, choice
<1>7. CASE LoadRows(t)
  <2>1. \A k \in Best : k \in Creds
    BY DEF Best, BestKeys, UsableKeys, OldestTokens, UsableTokens
  <2>2. pick' \in [Tasks -> Values \union {NoValue}]
        /\ \A u \in Tasks : pick'[u] \in {pick[u], NoValue} \union {<<k, gen[k]>> : k \in Creds}
    BY <1>3, <1>7, <2>1, ChoosingIsTyped DEF LoadRows, Chooses, Typed, ChoiceTyped
  <2> QED
    BY <1>1, <1>7, <2>2, HeldStaysCurrent DEF LoadRows, clients
<1>8. CASE TakePick(t)
  <2>1. \A u \in Tasks : pick'[u] \in {pick[u], NoValue}
    BY <1>3, <1>8 DEF TakePick
  <2>2. \A u \in Tasks : /\ current'[u] \in {current[u], NoValue, pick[t]}
                         /\ cred'[u] \in {cred[u], NoValue, pick[t]}
    BY <1>3, <1>8 DEF TakePick, HandOut, Ends
  <2> QED
    BY <1>1, <1>5, <2>1, <2>2, HeldStaysCurrent
<1>9. CASE LeaseAccount(t)
  <2>1. \A u \in Tasks :
          /\ current'[u] \in {current[u], NoValue} \union {<<k, gen[k]>> : k \in Creds}
          /\ cred'[u] \in {cred[u], NoValue} \union {<<k, gen[k]>> : k \in Creds}
    BY <1>3, <1>5, <1>9 DEF LeaseAccount, HandOut, Ends
  <2> QED
    BY <1>1, <1>9, <2>1, HeldStaysCurrent DEF LeaseAccount, choice
<1> QED
  BY <1>6, <1>7, <1>8, <1>9 DEF Chooses

(* An answer hands out nothing.                                            *)
LEMMA AnswerKeepsHeld ==
  ASSUME Typed, HeldIsCurrent, NEW t \in Tasks, Answered(t)
  PROVE  HeldIsCurrent'
<1>1. gen' = gen /\ pick' = pick
  BY DEF Answered, Stalls, YouTubeAnswers, BadRequest, NearCap, GraphAnswers, Refused, Redirected, Gets, LoadsPage, Posts,
         PostStalls, EndsBlocked, Retry, MarkSpent, MarkInvalid, AddKeyUsage, AddTokenUsage, pool, choice
<1>2. \A c \in Tasks : current'[c] \in {current[c], NoValue}
  BY DEF Answered, Stalls, YouTubeAnswers, BadRequest, NearCap, GraphAnswers, Refused, Redirected, Gets, LoadsPage, Posts,
         PostStalls, Rotate, clients, Typed, ClientsTyped
<1>3. \A u \in Tasks : cred'[u] \in {cred[u], NoValue}
  BY DEF Answered, Stalls, YouTubeAnswers, BadRequest, NearCap, GraphAnswers, Refused, Redirected, Gets, LoadsPage, Posts,
         PostStalls, EndsBlocked, Retry, Rotate, Ends, Typed, TasksTyped
<1> QED
  BY <1>1, <1>2, <1>3, HeldStaysCurrent

(* What a refused value is blamed for is its own row's.                    *)
LEMMA AnswerBlamesRightly ==
  ASSUME Typed, HeldIsCurrent, NEW t \in Tasks, Answered(t), NEW j \in Creds,
         status[j] # "invalid", status'[j] = "invalid"
  PROVE  <<j, gen[j]>> \in bad \/ BadRequest(t)
<1> DEFINE k == cred[t][1]
<1>1. Calling(t) /\ cred[t] \in Values /\ k \in Creds
  BY DEF Answered, Stalls, YouTubeAnswers, BadRequest, NearCap, GraphAnswers, Refused, Redirected, Gets, LoadsPage, Posts,
         PostStalls, Asked, Calling, Typed, TasksTyped, Values
<1>2. ~Accepted(t) => <<k, gen[k]>> \in bad
  <2>1. cred[t] = <<k, gen[k]>>
    BY <1>1, BoundsAreNumbers DEF HeldIsCurrent, Values
  <2> QED
    BY <2>1 DEF Accepted
<1>3. \/ BadRequest(t)
      \/ status' = status
      \/ status' = [status EXCEPT ![k] = "spent"]
      \/ ~Accepted(t) /\ status' = [status EXCEPT ![k] = "invalid"]
  <2>1. CASE Refused(t)
    BY <2>1 DEF Refused, Bodies, MeansBlocked, EndsBlocked, MarkInvalid, Retry, pool
  <2>2. CASE YouTubeAnswers(t) \/ GraphAnswers(t)
    BY <2>2 DEF YouTubeAnswers, GraphAnswers, MarkSpent, MarkInvalid, AddKeyUsage, AddTokenUsage, pool
  <2>3. CASE Redirected(t) \/ Posts(t) \/ NearCap(t)
    BY <2>3 DEF Redirected, Posts, NearCap, EndsBlocked, MarkInvalid, Retry, pool
  <2>4. CASE Stalls(t) \/ Gets(t) \/ LoadsPage(t) \/ PostStalls(t)
    BY <2>4 DEF Stalls, Gets, LoadsPage, PostStalls, Retry, pool
  <2> QED
    BY <2>1, <2>2, <2>3, <2>4 DEF Answered
<1> QED
  BY <1>1, <1>2, <1>3 DEF Typed, PoolTyped

(* Provided that no value is replaced while a client holds it: whatever is *)
(* marked invalid, or reported as blocked, is no longer accepted, except   *)
(* for YouTube's answers that blame the request.                           *)
THEOREM HealthyStaysInService ==
  ASSUME Rekeyed = FALSE
  PROVE  Spec => HealthyIsNotBlamed
<1>1. Init => Typed /\ HeldIsCurrent
  BY TypeHoldsInitially DEF Init, HeldIsCurrent
<1>2. Typed /\ HeldIsCurrent /\ [Next]_vars => HeldIsCurrent'
  <2> SUFFICES ASSUME Typed, HeldIsCurrent, [Next]_vars PROVE HeldIsCurrent'
    OBVIOUS
  <2>1. CASE UNCHANGED vars
    BY <2>1, HeldStaysCurrent DEF vars, pool, clients, task, choice
  <2>2. ASSUME NEW c \in Tasks, NewClient(c) PROVE HeldIsCurrent'
    BY <2>2, HeldStaysCurrent DEF NewClient, pool, task, choice, Typed, ClientsTyped
  <2> QED
    BY <2>1, <2>2, WorldKeepsHeld, RequestKeepsHeld, AnswerKeepsHeld DEF Next, TaskStep
<1> DEFINE Rightly == \A k \in Creds :
             status[k] # "invalid" /\ status'[k] = "invalid" =>
               <<k, gen[k]>> \in bad \/ \E t \in Tasks : BadRequest(t)
<1>3. Typed /\ HeldIsCurrent /\ [Next]_vars => [Rightly]_vars
  <2> SUFFICES ASSUME Typed, HeldIsCurrent, Next, NEW k \in Creds,
                      status[k] # "invalid", status'[k] = "invalid"
               PROVE  <<k, gen[k]>> \in bad \/ \E t \in Tasks : BadRequest(t)
    OBVIOUS
  <2>1. ~WorldStep
    BY DEF WorldStep, TimePasses, Revoke, Register, SetStatus, pool, Typed, PoolTyped
  <2>2. \A c \in Tasks : ~NewClient(c)
    BY DEF NewClient, pool
  <2>3. \A t \in Tasks : ~Request(t) /\ ~Chooses(t)
    BY DEF Request, Chooses, LoadRows, TakePick, WriteResets, LeaseAccount, pool
  <2> QED
    BY <2>1, <2>2, <2>3, AnswerBlamesRightly DEF Next, TaskStep
<1>4. Spec => [](Typed /\ HeldIsCurrent)
  BY <1>1, <1>2, TypeIsPreserved, PTL DEF Spec
<1> QED
  BY <1>3, <1>4, PTL DEF Spec, HealthyIsNotBlamed

-----------------------------------------------------------------------------
(* Dates.                                                                  *)

(* A row that is written in answer to a request keeps or gets a date.      *)
LEMMA AnswerKeepsDates ==
  ASSUME Typed, NEW t \in Tasks, Answered(t), NEW k \in Creds, ~IsStranded(k)
  PROVE  ~IsStranded(k)'
<1> DEFINE j == cred[t][1]
<1>1. api' = api /\ Limit # 0 /\ until[k] \in {"none", "later", "due"}
  BY BoundsAreNumbers
     DEF Answered, Stalls, YouTubeAnswers, BadRequest, NearCap, GraphAnswers, Refused, Redirected, Gets, LoadsPage, Posts,
         PostStalls, Typed, PoolTyped
<1>2. \/ UNCHANGED <<status, used, until>>
      \/ MarkSpent(j) \/ MarkInvalid(j) \/ AddKeyUsage(j) \/ NearCap(t)
  BY DEF Answered, Stalls, YouTubeAnswers, BadRequest, GraphAnswers, Refused, Redirected, Gets, LoadsPage, Posts,
         PostStalls, EndsBlocked, Retry, AddTokenUsage, pool
<1>3. CASE UNCHANGED <<status, used, until>>
  BY <1>1, <1>3 DEF IsStranded, HasRunOut
<1>4. CASE MarkSpent(j) \/ NearCap(t)
  BY <1>1, <1>4 DEF MarkSpent, NearCap, IsStranded, HasRunOut, Typed, PoolTyped
<1>5. CASE MarkInvalid(j)
  BY <1>1, <1>5 DEF MarkInvalid, IsStranded, HasRunOut, Typed, PoolTyped
<1>6. CASE AddKeyUsage(j)
  BY <1>1, <1>6 DEF AddKeyUsage, IsStranded, HasRunOut, Typed, PoolTyped
<1> QED
  BY <1>2, <1>3, <1>4, <1>5, <1>6

(* A key or token that runs out has a date, unless a reset loaded before    *)
(* its row was written is committed after.                                 *)
THEOREM DatesStay == Spec => DatesAreKept
<1>1. Spec => []Typed
  BY TypeHoldsInitially, TypeIsPreserved, PTL DEF Spec
<1> DEFINE Kept == \A k \in Creds :
             ~IsStranded(k) /\ IsStranded(k)' => \E t \in Tasks : TakePick(t) /\ IsOutdated(t, k)
<1>2. Typed /\ [Next]_vars => [Kept]_vars
  <2> SUFFICES ASSUME Typed, Next, NEW k \in Creds, ~IsStranded(k), IsStranded(k)'
               PROVE  \E t \in Tasks : TakePick(t) /\ IsOutdated(t, k)
    OBVIOUS
  <2>1. Limit # 0 /\ status \in [Creds -> {"active", "spent", "invalid", "disabled"}]
    BY BoundsAreNumbers DEF Typed, PoolTyped
  <2>2. ~WorldStep
    <3>1. ASSUME NEW j \in Creds PROVE ~TimePasses(j) /\ ~Revoke(j)
      BY DEF TimePasses, Revoke, IsStranded, HasRunOut, pool, Typed, PoolTyped
    <3>2. ASSUME NEW j \in Creds PROVE ~Register(j)
      BY <2>1 DEF Register, IsStranded, HasRunOut, Typed, PoolTyped
    <3>3. ASSUME NEW j \in Creds, NEW s \in {"active", "disabled"} PROVE ~SetStatus(j, s)
      BY <2>1 DEF SetStatus, IsStranded, HasRunOut
    <3> QED
      BY <3>1, <3>2, <3>3 DEF WorldStep
  <2>3. \A c \in Tasks : ~NewClient(c)
    BY DEF NewClient, IsStranded, HasRunOut, pool
  <2>4. \A t \in Tasks : ~Request(t) /\ ~LoadRows(t) /\ ~LeaseAccount(t)
    BY DEF Request, LoadRows, LeaseAccount, IsStranded, HasRunOut, pool
  <2>5. \A t \in Tasks : ~Answered(t)
    BY AnswerKeepsDates
  <2>6. ASSUME NEW t \in Tasks, TakePick(t) PROVE IsOutdated(t, k)
    BY <2>1, <2>6 DEF TakePick, WriteResets, IsOutdated, IsStranded, HasRunOut
  <2> QED
    BY <2>2, <2>3, <2>4, <2>5, <2>6 DEF Next, TaskStep, Chooses
<1> QED
  BY <1>1, <1>2, PTL DEF Spec, DatesAreKept
=============================================================================
