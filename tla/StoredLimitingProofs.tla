------------------------ MODULE StoredLimitingProofs ------------------------
(***************************************************************************)
(* Rate limiting with a store, proved for any number of requests, handlers *)
(* and clients, any settings and any delays: the types, the row locks, and *)
(* the agreement of the table of the service, the store and the cache.     *)
(***************************************************************************)
EXTENDS StoredLimiting, TLAPS

-----------------------------------------------------------------------------
(* Arithmetic.                                                             *)

LEMMA DivBound ==
    ASSUME NEW n \in Nat \ {0}, NEW a \in Nat
    PROVE  a \div n \in Nat /\ n * (a \div n) <= a /\ a < n * (a \div n) + n
OBVIOUS

LEMMA ProductInNat ==
    ASSUME NEW m \in Nat, NEW n \in Nat
    PROVE  m * n \in Nat
OBVIOUS

LEMMA ProductInInt ==
    ASSUME NEW m \in Int, NEW n \in Int
    PROVE  m * n \in Int /\ m * n = n * m
OBVIOUS

LEMMA ProductMonotone ==
    ASSUME NEW m \in Int, NEW n \in Int, NEW k \in Nat, m <= n
    PROVE  m * k <= n * k /\ k * m <= k * n
OBVIOUS

LEMMA Distributes ==
    ASSUME NEW k \in Int, NEW m \in Int, NEW n \in Int
    PROVE  k * (m + n) = k * m + k * n /\ (m + n) * k = m * k + n * k
OBVIOUS

LEMMA SettingsFields ==
    ASSUME NEW s \in Settings
    PROVE  /\ s \in Requested /\ s # None
           /\ s.capacity \in Nat /\ s.capacity >= 1 /\ s.rate \in Nat /\ s.rate >= 1
BY SettingsAssumption, NoneAssumption, WidthAssumption DEF Settings, Service!Valid

LEMMA NoneIsNothing ==
    /\ None \notin Settings /\ None \notin Askers /\ None \notin Nat
    /\ None \notin [tokens : Nat, age : 0 .. MaxAge]
    /\ None \notin [limit : Settings, tokens : Nat, age : 0 .. MaxAge]
BY NoneAssumption DEF Settings

-----------------------------------------------------------------------------
(* Types and locks.                                                        *)

\* A transaction that is about to write has locked a row that exists.
Locking ==
    \A r \in Askers : ask[r].at = "update" =>
       row[ask[r].client] # None /\ lock[ask[r].client] = r

\* Only the handlers of the hybrid limiter are between two stores.
Halfway ==
    \A h \in Handlers : written[h] => call[h] # Service!NoChange

TypeInv == TypeOK /\ LocksAreInUse /\ Locking /\ Halfway

USE TimeAssumption, StorageAssumption

AskType == IF storage = "hybrid" THEN Hybrid!Asks ELSE Postgres!Asks

LEMMA TypeInit == Init => TypeInv
<1> SUFFICES ASSUME Init PROVE TypeInv
  OBVIOUS
<1>1. ask \in [Askers -> AskType]
  BY DEF Init, AskType, Hybrid!Ended, Hybrid!Asks, Postgres!Asks
<1>2. Hybrid!LimiterTypeOK /\ Postgres!LimiterTypeOK
  BY DEF Init, Hybrid!LimiterInit, Hybrid!LimiterTypeOK, Postgres!LimiterInit,
         Postgres!LimiterTypeOK
<1>3. Service!ServiceTypeOK
  BY DEF Init, Service!ServiceInit, Service!ServiceTypeOK
<1>4. TypeOK
  BY <1>1, <1>2, <1>3 DEF Init, TypeOK, AskType, NoWindow
<1>5. LocksAreInUse /\ Locking /\ Halfway
  BY DEF Init, LocksAreInUse, Locking, Halfway, Postgres!LimiterInit, Hybrid!Ended
<1> QED
  BY <1>4, <1>5 DEF TypeInv

\* What a frame is in each place of Allow.
LEMMA HybridFrames ==
    ASSUME TypeOK, NEW r \in Askers, storage = "hybrid"
    PROVE  /\ ask[r] \in Hybrid!Asks
           /\ ask[r].at # "idle" => ask[r].client \in Clients
           /\ ask[r].at \in {"fill", "eval"} =>
                 ask[r].limit \in Settings /\ ask[r].lag \in 0 .. MaxLag
           /\ ask[r].at \notin {"begin", "select", "update"}
BY DEF TypeOK, Hybrid!Asks

LEMMA PostgresFrames ==
    ASSUME TypeOK, NEW r \in Askers, storage # "hybrid"
    PROVE  /\ ask[r] \in Postgres!Asks
           /\ ask[r].at # "idle" => ask[r].client \in Clients
           /\ ask[r].at = "update" => ask[r].tokens \in Nat /\ ask[r].lag \in 0 .. MaxLag
           /\ ask[r].at \notin {"get", "query", "fill", "eval"}
BY DEF TypeOK, Postgres!Asks

\* A step that moves one request and nothing but its frame.
LEMMA FrameStep ==
    ASSUME TypeOK, NEW r \in Askers, NEW f \in AskType, Hybrid!Goto(r, f),
           UNCHANGED storage
    PROVE  /\ ask' \in [Askers -> AskType]
           /\ ask' \in [Askers -> AskType']
           /\ ask'[r] = f /\ \A q \in Askers \ {r} : ask'[q] = ask[q]
BY DEF TypeOK, AskType, Hybrid!Goto

LEMMA EndedFrame ==
    ASSUME NEW v \in {"passed", "refused", "panicked"}
    PROVE  Hybrid!Ended(v) \in AskType /\ Hybrid!Ended(v) = Postgres!Ended(v)
           /\ Hybrid!Ended(v).at = "idle"
BY DEF AskType, Hybrid!Ended, Postgres!Ended, Hybrid!Asks, Postgres!Asks

LEMMA HybridAskTypes ==
    ASSUME TypeInv, NEW r \in Askers, HybridAsk(r)
    PROVE  TypeInv'
<1> USE DEF TypeInv
<1>1. /\ storage = "hybrid" /\ UNCHANGED <<storage, postgresVars, serviceVars, history>>
      /\ ask[r] \in Hybrid!Asks
  BY HybridFrames DEF HybridAsk
<1>2. /\ ask' \in [Askers -> AskType]
      /\ Hybrid!LimiterTypeOK'
  <2>1. CASE Hybrid!GetCached(r)
    <3> DEFINE c == ask[r].client
    <3>1. c \in Clients /\ ask[r].at = "get"
      BY <2>1, <1>1, HybridFrames DEF Hybrid!GetCached
    <3>2. cached[c] # None => Hybrid!With("eval", r, cached[c]) \in AskType
      BY <3>1, <1>1 DEF Hybrid!With, AskType, Hybrid!Asks, TypeOK, Hybrid!LimiterTypeOK
    <3>3. [ask[r] EXCEPT !.at = "query"] \in AskType
      BY <3>1, <1>1 DEF AskType, Hybrid!Asks
    <3>4. PICK f \in AskType : Hybrid!Goto(r, f)
      BY <2>1, <3>2, <3>3 DEF Hybrid!GetCached
    <3> QED
      BY <3>4, <2>1, <1>1, FrameStep
         DEF Hybrid!GetCached, Hybrid!limiterVars, TypeOK, Hybrid!LimiterTypeOK
  <2>2. CASE Hybrid!QuerySettings(r)
    <3>1. PICK f \in AskType : Hybrid!Goto(r, f)
      BY <2>2, <1>1, HybridFrames, EndedFrame
         DEF Hybrid!QuerySettings, Hybrid!With, Hybrid!Finish, AskType, Hybrid!Asks, TypeOK,
             Hybrid!LimiterTypeOK
    <3> QED
      BY <3>1, <2>2, <1>1, FrameStep
         DEF Hybrid!QuerySettings, Hybrid!limiterVars, TypeOK, Hybrid!LimiterTypeOK
  <2>3. CASE Hybrid!FillCache(r)
    <3>1. PICK f \in AskType : Hybrid!Goto(r, f)
      BY <2>3, <1>1, HybridFrames DEF Hybrid!FillCache, Hybrid!With, AskType, Hybrid!Asks
    <3>2. Hybrid!LimiterTypeOK'
      BY <2>3, <1>1, HybridFrames DEF Hybrid!FillCache, TypeOK, Hybrid!LimiterTypeOK
    <3> QED
      BY <3>1, <3>2, <1>1, FrameStep
  <2>4. CASE (\E lag \in 0 .. MaxLag : Hybrid!EvalRefuses(r, lag)) \/ Hybrid!EvalFails(r)
    <3>1. PICK f \in AskType : Hybrid!Goto(r, f)
      BY <2>4, EndedFrame DEF Hybrid!EvalRefuses, Hybrid!EvalFails, Hybrid!Finish
    <3> QED
      BY <3>1, <2>4, <1>1, FrameStep
         DEF Hybrid!EvalRefuses, Hybrid!EvalFails, Hybrid!limiterVars, TypeOK, Hybrid!LimiterTypeOK
  <2> QED
    BY <2>1, <2>2, <2>3, <2>4 DEF HybridAsk
<1>3. TypeOK'
  BY <1>1, <1>2 DEF TypeOK, AskType, Postgres!LimiterTypeOK, postgresVars, serviceVars,
     history, Service!ServiceTypeOK
<1>4. \A q \in Askers : ask'[q].at # "update"
  BY <1>1, <1>3, HybridFrames DEF TypeOK, Hybrid!Asks
<1>5. \A c \in Clients : lock[c] = None
  BY <1>1, HybridFrames DEF TypeOK, LocksAreInUse, Postgres!LimiterTypeOK
<1> QED
  BY <1>1, <1>3, <1>4, <1>5 DEF LocksAreInUse, Locking, Halfway, postgresVars, serviceVars

LEMMA RefilledInInt ==
    ASSUME TypeOK, NEW c \in Clients, NEW s \in Settings, NEW lag \in 0 .. MaxLag
    PROVE  Hybrid!Refilled(c, s, lag) \in Int
<1>1. CASE bucket[c] = None
  BY <1>1, SettingsFields DEF Hybrid!Refilled
<1>2. CASE bucket[c] # None
  <2>1. bucket[c].tokens \in Nat /\ bucket[c].age \in Nat /\ lag \in Nat
    BY <1>2 DEF TypeOK, Hybrid!LimiterTypeOK
  <2>2. s.capacity \in Nat /\ (bucket[c].age - lag) * s.rate \in Int
    BY <2>1, SettingsFields, ProductInInt
  <2> QED
    BY <1>2, <2>1, <2>2 DEF Hybrid!Refilled, Hybrid!Least
<1> QED
  BY <1>1, <1>2

LEMMA CountedTypes ==
    ASSUME TypeOK, NEW c \in Clients, NEW s \in Settings, NEW lag \in 0 .. MaxLag,
           Counted(c, s, lag)
    PROVE  /\ window' \in [Clients -> [limit : Settings \cup {None}, granted : Nat,
                                       length : 0 .. MaxWindow, lag : 0 .. MaxLag]]
           /\ since' \in [Clients -> 0 .. MaxAge \cup {None}]
<1>1. window[c].granted \in Nat /\ window[c].length \in 0 .. MaxWindow
      /\ window[c].lag \in 0 .. MaxLag
  BY DEF TypeOK
<1> DEFINE w == IF window[c].limit = s THEN [window[c] EXCEPT !.granted = @ + 1]
                ELSE [limit |-> s, granted |-> 1, length |-> 0, lag |-> lag]
<1>2. w \in [limit : Settings \cup {None}, granted : Nat, length : 0 .. MaxWindow, lag : 0 .. MaxLag]
  BY <1>1 DEF TypeOK
<1>3. window' = [window EXCEPT ![c] = w] /\ since' = [since EXCEPT ![c] = 0]
  BY DEF Counted
<1>4. 0 \in 0 .. MaxAge
  OBVIOUS
<1> HIDE DEF w
<1> QED
  BY <1>2, <1>3, <1>4 DEF TypeOK

LEMMA HybridGrantTypes ==
    ASSUME TypeInv, NEW r \in Askers, HybridGrant(r)
    PROVE  TypeInv'
<1> USE DEF TypeInv
<1>1. storage = "hybrid" /\ UNCHANGED <<storage, postgresVars, serviceVars>>
  BY DEF HybridGrant
<1>2. PICK lag \in 0 .. MaxLag :
         Hybrid!EvalGrants(r, lag) /\ Counted(ask[r].client, ask[r].limit, lag)
  BY DEF HybridGrant
<1> DEFINE c == ask[r].client
           tokens == Hybrid!Refilled(c, ask[r].limit, lag)
<1>3. c \in Clients /\ ask[r].limit \in Settings /\ tokens \in Int
  BY <1>1, <1>2, HybridFrames, RefilledInInt DEF Hybrid!EvalGrants
<1>4. tokens - 1 \in Nat
      /\ bucket' = [bucket EXCEPT ![c] = [tokens |-> tokens - 1, age |-> lag]]
      /\ UNCHANGED <<stored, cached>>
  BY <1>2, <1>3 DEF Hybrid!EvalGrants
<1>5. Hybrid!LimiterTypeOK'
  <2>1. [tokens |-> tokens - 1, age |-> lag] \in [tokens : Nat, age : 0 .. MaxAge]
    BY <1>4
  <2> QED
    BY <2>1, <1>4 DEF TypeOK, Hybrid!LimiterTypeOK
<1>6. ask' \in [Askers -> AskType]
  BY <1>2, EndedFrame, FrameStep, <1>1 DEF Hybrid!EvalGrants, Hybrid!Finish
<1>7. TypeOK'
  BY <1>1, <1>2, <1>3, <1>5, <1>6, CountedTypes
     DEF TypeOK, AskType, Postgres!LimiterTypeOK, postgresVars, serviceVars, Counted,
         Service!ServiceTypeOK
<1>8. \A q \in Askers : ask'[q].at # "update"
  BY <1>1, <1>6 DEF Hybrid!Asks, AskType
<1>9. \A d \in Clients : lock[d] = None
  BY <1>1, HybridFrames DEF TypeOK, LocksAreInUse, Postgres!LimiterTypeOK
<1> QED
  BY <1>1, <1>7, <1>8, <1>9 DEF LocksAreInUse, Locking, Halfway, postgresVars, serviceVars

\* The sum of the tokens may overflow, but only downwards.
LEMMA NewTokensInInt ==
    ASSUME TypeOK, NEW c \in Clients, row[c] # None
    PROVE  /\ Postgres!NewTokens(c) \in Int
           /\ Postgres!NewTokens(c) <= row[c].limit.capacity
           /\ Postgres!NewTokens(c)
                <= row[c].tokens + (row[c].age * row[c].limit.rate) \div Second
           /\ row[c].limit \in Settings /\ row[c].tokens \in Nat /\ row[c].age \in 0 .. MaxAge
           /\ row[c].age * row[c].limit.rate \in Nat
           /\ (row[c].age * row[c].limit.rate) \div Second \in Nat
<1>1. row[c].limit \in Settings /\ row[c].tokens \in Nat /\ row[c].age \in 0 .. MaxAge
  BY DEF TypeOK, Postgres!LimiterTypeOK
<1>2. row[c].age * row[c].limit.rate \in Nat
  BY <1>1, SettingsFields, ProductInNat
<1>3. (row[c].age * row[c].limit.rate) \div Second \in Nat
  BY <1>2, DivBound
<1> DEFINE whole == (row[c].age * row[c].limit.rate) \div Second
<1>4. Postgres!NewTokens(c)
        = Postgres!Least(row[c].limit.capacity, Postgres!Wrap(row[c].tokens + whole))
  BY DEF Postgres!NewTokens
<1>5. row[c].limit.capacity \in Nat /\ whole \in Nat
  BY <1>1, <1>3, SettingsFields
<1> HIDE DEF whole
<1>6. /\ Postgres!NewTokens(c) \in Int
      /\ Postgres!NewTokens(c) <= row[c].limit.capacity
      /\ Postgres!NewTokens(c) <= row[c].tokens + whole
  BY <1>1, <1>4, <1>5, WidthAssumption DEF Postgres!Least, Postgres!Wrap
<1> QED
  BY <1>1, <1>2, <1>3, <1>6 DEF whole

\* What is left unchanged by the steps of the PostgreSQL limiter.
LEMMA PostgresKeepsTypes ==
    ASSUME TypeInv, storage # "hybrid", UNCHANGED <<storage, hybridVars, serviceVars>>,
           ask' \in [Askers -> AskType], Postgres!LimiterTypeOK',
           \/ UNCHANGED history
           \/ \E c \in Clients, s \in Settings, lag \in 0 .. MaxLag : Counted(c, s, lag)
    PROVE  TypeOK' /\ Halfway'
<1>1. CASE UNCHANGED history
  BY <1>1 DEF TypeInv, TypeOK, AskType, hybridVars, serviceVars, history, Hybrid!LimiterTypeOK,
     Service!ServiceTypeOK, Halfway
<1>2. ASSUME NEW c \in Clients, NEW s \in Settings, NEW lag \in 0 .. MaxLag, Counted(c, s, lag)
      PROVE TypeOK' /\ Halfway'
  BY <1>2, CountedTypes DEF TypeInv, TypeOK, AskType, hybridVars, serviceVars,
     Hybrid!LimiterTypeOK, Service!ServiceTypeOK, Halfway, Counted
<1> QED
  BY <1>1, <1>2

LEMMA PostgresAskTypes ==
    ASSUME TypeInv, NEW r \in Askers, PostgresAsk(r)
    PROVE  TypeInv'
<1> USE DEF TypeInv
<1>1. storage # "hybrid" /\ UNCHANGED <<storage, hybridVars, serviceVars, history>>
  BY DEF PostgresAsk
<1> DEFINE c == ask[r].client
<1>2. CASE Postgres!BeginTx(r) \/ Postgres!SelectRefuses(r) \/ Postgres!SelectPasses(r)
  <2>1. PICK f \in AskType : Hybrid!Goto(r, f) /\ f.at # "update"
    BY <1>2, <1>1, PostgresFrames, EndedFrame
       DEF Postgres!BeginTx, Postgres!SelectRefuses, Postgres!SelectPasses, Postgres!Finish,
           Postgres!Goto, Hybrid!Goto, AskType, Postgres!Asks
  <2>2. /\ ask' \in [Askers -> AskType] /\ ask'[r] = f
        /\ \A q \in Askers \ {r} : ask'[q] = ask[q]
    BY <2>1, <1>1, FrameStep
  <2>3. UNCHANGED <<row, lock>> /\ ask[r].at # "update"
    BY <1>2 DEF Postgres!BeginTx, Postgres!SelectRefuses, Postgres!SelectPasses,
       Postgres!limiterVars
  <2>4. Postgres!LimiterTypeOK'
    BY <2>3 DEF TypeOK, Postgres!LimiterTypeOK
  <2>5. TypeOK' /\ Halfway'
    BY <1>1, <2>2, <2>4, PostgresKeepsTypes
  <2>6. Locking'
    BY <2>1, <2>2, <2>3 DEF Locking
  <2>7. LocksAreInUse'
    BY <2>2, <2>3 DEF LocksAreInUse, TypeOK, Postgres!LimiterTypeOK
  <2> QED
    BY <2>5, <2>6, <2>7
<1>3. CASE Postgres!SelectForUpdate(r)
  <2>1. c \in Clients /\ row[c] # None /\ lock[c] = None
    BY <1>1, <1>3, PostgresFrames DEF Postgres!SelectForUpdate
  <2> DEFINE f == [at |-> "update", client |-> c, tokens |-> Postgres!NewTokens(c) - 1, lag |-> 0]
  <2>2. f \in AskType
    <3>1. Postgres!NewTokens(c) \in Int /\ Postgres!NewTokens(c) > 0
      BY <1>3, <2>1, NewTokensInInt DEF Postgres!SelectForUpdate
    <3>2. Postgres!NewTokens(c) - 1 \in Nat
      BY <3>1
    <3> QED
      BY <1>1, <2>1, <3>2 DEF AskType, Postgres!Asks
  <2>3. Hybrid!Goto(r, f) /\ lock' = [lock EXCEPT ![c] = r] /\ row' = row
    BY <1>3 DEF Postgres!SelectForUpdate, Postgres!Goto, Hybrid!Goto
  <2> HIDE DEF f
  <2>4. /\ ask' \in [Askers -> AskType] /\ ask'[r] = f
        /\ \A q \in Askers \ {r} : ask'[q] = ask[q]
    BY <2>2, <2>3, <1>1, FrameStep
  <2>5. Postgres!LimiterTypeOK'
    BY <2>1, <2>3 DEF TypeOK, Postgres!LimiterTypeOK
  <2>6. TypeOK' /\ Halfway'
    BY <1>1, <2>4, <2>5, PostgresKeepsTypes
  <2>7. f.at = "update" /\ f.client = c
    BY DEF f
  <2>8. \A q \in Askers \ {r} : ask[q].at = "update" => ask[q].client # c
    BY <2>1, NoneIsNothing DEF Locking, TypeOK, Postgres!LimiterTypeOK
  <2>9. Locking'
    BY <2>1, <2>3, <2>4, <2>7, <2>8, <1>1, PostgresFrames
       DEF Locking, TypeOK, Postgres!LimiterTypeOK
  <2>10. ask[r].at # "update"
    BY <1>3 DEF Postgres!SelectForUpdate
  <2>11. LocksAreInUse'
    <3> SUFFICES ASSUME NEW d \in Clients, lock'[d] # None
                 PROVE  ask'[lock'[d]].at = "update" /\ ask'[lock'[d]].client = d
      BY DEF LocksAreInUse
    <3>1. CASE d = c
      BY <2>3, <2>4, <2>7, <3>1 DEF TypeOK, Postgres!LimiterTypeOK
    <3>2. CASE d # c
      <4>1. lock'[d] = lock[d] /\ lock[d] \in Askers \ {r}
        BY <2>3, <2>10, <3>2 DEF LocksAreInUse, TypeOK, Postgres!LimiterTypeOK
      <4> QED
        BY <2>4, <4>1 DEF LocksAreInUse
    <3> QED
      BY <3>1, <3>2
  <2> QED
    BY <2>6, <2>9, <2>11
<1>4. CASE Postgres!CommitFails(r)
  <2>1. c \in Clients /\ ask[r].at = "update"
    BY <1>1, <1>4, PostgresFrames DEF Postgres!CommitFails
  <2>2. /\ Hybrid!Goto(r, Hybrid!Ended("passed")) /\ lock' = [lock EXCEPT ![c] = None]
        /\ row' = row
    BY <1>4 DEF Postgres!CommitFails, Postgres!Finish, Postgres!Unlock, Postgres!Goto,
       Hybrid!Goto, Hybrid!Ended, Postgres!Ended
  <2>3. /\ ask' \in [Askers -> AskType] /\ ask'[r].at = "idle"
        /\ \A q \in Askers \ {r} : ask'[q] = ask[q]
    BY <2>2, <1>1, FrameStep, EndedFrame
  <2>4. Postgres!LimiterTypeOK'
    BY <2>2 DEF TypeOK, Postgres!LimiterTypeOK
  <2>5. TypeOK' /\ Halfway'
    BY <1>1, <2>3, <2>4, PostgresKeepsTypes
  <2>6. lock[c] = r
    BY <2>1 DEF Locking
  <2>7. \A q \in Askers \ {r} : ask[q].at = "update" => ask[q].client # c /\ ask[q].client \in Clients
    BY <1>1, <2>6, PostgresFrames DEF Locking
  <2>8. Locking'
    BY <2>2, <2>3, <2>7 DEF Locking, TypeOK, Postgres!LimiterTypeOK
  <2>9. LocksAreInUse'
    BY <2>1, <2>2, <2>3, <2>6 DEF LocksAreInUse, TypeOK, Postgres!LimiterTypeOK
  <2> QED
    BY <2>5, <2>8, <2>9
<1> QED
  BY <1>2, <1>3, <1>4 DEF PostgresAsk

LEMMA PostgresGrantTypes ==
    ASSUME TypeInv, NEW r \in Askers, PostgresGrant(r)
    PROVE  TypeInv'
<1> USE DEF TypeInv
<1> DEFINE c == ask[r].client
<1>1. /\ storage # "hybrid" /\ UNCHANGED <<storage, hybridVars, serviceVars>>
      /\ ask[r].at = "update" /\ Counted(c, row[c].limit, ask[r].lag)
  BY DEF PostgresGrant, Postgres!Commit
<1>2. /\ c \in Clients /\ ask[r].tokens \in Nat /\ ask[r].lag \in 0 .. MaxLag
      /\ row[c] # None /\ lock[c] = r
  BY <1>1, PostgresFrames DEF Locking
<1>3. row[c] \in [limit : Settings, tokens : Nat, age : 0 .. MaxAge]
  BY <1>2 DEF TypeOK, Postgres!LimiterTypeOK
<1> DEFINE new == [row[c] EXCEPT !.tokens = ask[r].tokens, !.age = ask[r].lag]
<1>4. new \in [limit : Settings, tokens : Nat, age : 0 .. MaxAge]
  <2>1. ask[r].lag \in 0 .. MaxAge
    BY <1>2
  <2> QED
    BY <1>2, <1>3, <2>1
<1>5. /\ row' = [row EXCEPT ![c] = new] /\ lock' = [lock EXCEPT ![c] = None]
      /\ Hybrid!Goto(r, Hybrid!Ended("passed"))
  BY DEF PostgresGrant, Postgres!Commit, Postgres!Unlock, Postgres!Finish, Postgres!Goto,
     Hybrid!Goto, Hybrid!Ended, Postgres!Ended
<1> HIDE DEF new
<1>6. Postgres!LimiterTypeOK'
  BY <1>2, <1>4, <1>5 DEF TypeOK, Postgres!LimiterTypeOK
<1>7. /\ ask' \in [Askers -> AskType] /\ ask'[r].at = "idle"
      /\ \A q \in Askers \ {r} : ask'[q] = ask[q]
  BY <1>1, <1>5, FrameStep, EndedFrame
<1>8. TypeOK' /\ Halfway'
  <2>1. row[c].limit \in Settings
    BY <1>3
  <2> QED
    BY <1>1, <1>2, <1>6, <1>7, <2>1, PostgresKeepsTypes
<1>9. Locking' /\ LocksAreInUse'
  <2>1. new # None
    BY <1>4, NoneIsNothing
  <2>2. \A q \in Askers \ {r} : ask[q].at = "update" => ask[q].client # c /\ ask[q].client \in Clients
    BY <1>1, <1>2, PostgresFrames DEF Locking
  <2>3. Locking'
    BY <1>2, <1>5, <1>7, <2>1, <2>2 DEF Locking, TypeOK, Postgres!LimiterTypeOK
  <2>4. LocksAreInUse'
    BY <1>1, <1>2, <1>5, <1>7 DEF LocksAreInUse, TypeOK, Postgres!LimiterTypeOK
  <2> QED
    BY <2>3, <2>4
<1> QED
  BY <1>8, <1>9

LEMMA RequestTypes ==
    ASSUME TypeInv, NEW r \in Askers, NEW c \in Clients, Request(r, c)
    PROVE  TypeInv'
<1> USE DEF TypeInv
<1>1. UNCHANGED <<storage, hybridVars, postgresVars, serviceVars, history>>
      /\ ask[r].at = "idle"
  BY DEF Request, Hybrid!Allow, Postgres!Allow, Hybrid!limiterVars, Postgres!limiterVars,
     hybridVars, postgresVars
<1>2. PICK f \in AskType : Hybrid!Goto(r, f) /\ f.at # "update"
  BY DEF Request, Hybrid!Allow, Postgres!Allow, Hybrid!Goto, Postgres!Goto, AskType,
     Hybrid!Asks, Postgres!Asks
<1>3. /\ ask' \in [Askers -> AskType] /\ ask'[r] = f
      /\ \A q \in Askers \ {r} : ask'[q] = ask[q]
  BY <1>1, <1>2, FrameStep
<1>4. TypeOK' /\ Halfway'
  BY <1>1, <1>3 DEF TypeOK, AskType, Halfway, Hybrid!LimiterTypeOK, Postgres!LimiterTypeOK,
     Service!ServiceTypeOK, hybridVars, postgresVars, serviceVars, history
<1>5. Locking'
  BY <1>1, <1>2, <1>3 DEF Locking, postgresVars
<1>6. LocksAreInUse'
  BY <1>1, <1>3 DEF LocksAreInUse, TypeOK, Postgres!LimiterTypeOK, postgresVars
<1> QED
  BY <1>4, <1>5, <1>6

\* A step of the API that leaves the limiters and the requests alone.
LEMMA ServiceKeepsTypes ==
    ASSUME TypeInv, UNCHANGED <<storage, hybridVars, postgresVars, ask, written, history>>,
           Service!ServiceTypeOK',
           \A h \in Handlers : call'[h] = Service!NoChange => call[h] = Service!NoChange
    PROVE  TypeInv'
<1> USE DEF TypeInv
<1>1. TypeOK'
  BY DEF TypeOK, Hybrid!LimiterTypeOK, Postgres!LimiterTypeOK, hybridVars, postgresVars, history
<1> QED
  BY <1>1 DEF LocksAreInUse, Locking, Halfway, postgresVars

LEMMA PostTypes ==
    ASSUME TypeInv, NEW h \in Handlers, NEW c \in Clients, NEW s \in Requested, PostClient(h, c, s)
    PROVE  TypeInv'
<1> DEFINE change == [op |-> "set", client |-> c, settings |-> s]
<1>1. change \in Service!Change /\ change # Service!NoChange
  BY DEF PostClient, Service!CreateOrUpdateClient, Service!Change, Service!NoChange
<1>2. call' = [call EXCEPT ![h] = change]
  BY DEF PostClient, Service!CreateOrUpdateClient
<1> HIDE DEF change
<1>3. Service!ServiceTypeOK'
  BY <1>1, <1>2 DEF TypeInv, TypeOK, PostClient, Service!CreateOrUpdateClient, Service!ServiceTypeOK
<1>4. \A g \in Handlers : call'[g] = Service!NoChange => call[g] = Service!NoChange
  BY <1>1, <1>2 DEF TypeInv, TypeOK, Service!ServiceTypeOK
<1> QED
  BY <1>3, <1>4, ServiceKeepsTypes DEF PostClient

LEMMA DeleteTypes ==
    ASSUME TypeInv, NEW h \in Handlers, NEW c \in Clients, DeleteClient(h, c)
    PROVE  TypeInv'
<1> DEFINE change == [op |-> "remove", client |-> c]
<1>1. change \in Service!Change /\ change # Service!NoChange
  BY DEF Service!Change, Service!NoChange
<1>2. call' = [call EXCEPT ![h] = change]
  BY DEF DeleteClient, Service!RemoveClient
<1> HIDE DEF change
<1>3. Service!ServiceTypeOK'
  BY <1>1, <1>2 DEF TypeInv, TypeOK, DeleteClient, Service!RemoveClient, Service!ServiceTypeOK
<1>4. \A g \in Handlers : call'[g] = Service!NoChange => call[g] = Service!NoChange
  BY <1>1, <1>2 DEF TypeInv, TypeOK, Service!ServiceTypeOK
<1> QED
  BY <1>3, <1>4, ServiceKeepsTypes DEF DeleteClient

\* What a handler asks the limiter.
LEMMA Changes ==
    ASSUME TypeOK, NEW h \in Handlers, call[h] # Service!NoChange
    PROVE  /\ call[h].client \in Clients /\ call[h].op \in {"set", "remove"}
           /\ call[h].op = "set" => call[h].settings \in Settings
BY DEF TypeOK, Service!ServiceTypeOK, Service!Change, Settings

\* A change that reaches the store touches no row that is locked.
LEMMA AppliedTypes ==
    ASSUME TypeInv, NEW h \in Handlers, call[h] # Service!NoChange, Applied(h)
    PROVE  /\ Hybrid!LimiterTypeOK' /\ Postgres!LimiterTypeOK' /\ lock' = lock
           /\ \A c \in Clients : lock[c] # None => row'[c] = row[c]
<1> DEFINE c == call[h].client
<1>1. TypeOK /\ c \in Clients /\ (call[h].op = "set" => call[h].settings \in Settings)
  BY Changes DEF TypeInv
<1>2. CASE UNCHANGED postgresVars
  BY <1>1, <1>2 DEF Applied, Hybrid!Upsert, Hybrid!DeleteRow, TypeOK, Hybrid!LimiterTypeOK,
     Postgres!LimiterTypeOK, postgresVars, hybridVars
<1>3. CASE UNCHANGED hybridVars /\ Postgres!DeleteRow(c)
  BY <1>1, <1>3 DEF Postgres!DeleteRow, TypeOK, Hybrid!LimiterTypeOK,
     Postgres!LimiterTypeOK, hybridVars
<1>4. ASSUME UNCHANGED hybridVars, NEW lag \in 0 .. MaxLag,
             call[h].op = "set", Postgres!Upsert(c, call[h].settings, lag)
      PROVE  /\ Hybrid!LimiterTypeOK' /\ Postgres!LimiterTypeOK' /\ lock' = lock
             /\ \A d \in Clients : lock[d] # None => row'[d] = row[d]
  <2> DEFINE new == [limit |-> call[h].settings, tokens |-> call[h].settings.capacity, age |-> lag]
  <2>1. new \in [limit : Settings, tokens : Nat, age : 0 .. MaxAge]
    BY <1>1, <1>4, SettingsFields
  <2>2. row' = [row EXCEPT ![c] = new] /\ lock' = lock /\ lock[c] = None
    BY <1>4 DEF Postgres!Upsert
  <2> HIDE DEF new
  <2> QED
    BY <2>1, <2>2, <1>1, <1>4 DEF TypeOK, Hybrid!LimiterTypeOK, Postgres!LimiterTypeOK, hybridVars
<1> QED
  BY <1>2, <1>3, <1>4 DEF Applied

LEMMA WindowTypes ==
    ASSUME TypeOK, NEW c \in Clients
    PROVE  [window EXCEPT ![c] = NoWindow] \in
             [Clients -> [limit : Settings \cup {None}, granted : Nat,
                          length : 0 .. MaxWindow, lag : 0 .. MaxLag]]
<1>1. NoWindow \in [limit : Settings \cup {None}, granted : Nat,
                    length : 0 .. MaxWindow, lag : 0 .. MaxLag]
  BY DEF NoWindow
<1> QED
  BY <1>1 DEF TypeOK

\* What is left of the types in the steps of the handlers.
LEMMA HandlerKeepsTypes ==
    ASSUME TypeInv, NEW h \in Handlers, call[h] # Service!NoChange,
           UNCHANGED <<storage, ask, since>>,
           Hybrid!LimiterTypeOK', Postgres!LimiterTypeOK', lock' = lock,
           \A c \in Clients : lock[c] # None => row'[c] = row[c],
           window' \in {window, [window EXCEPT ![call[h].client] = NoWindow]},
           \/ UNCHANGED <<settings, call>> /\ written' \in {written, [written EXCEPT ![h] = TRUE]}
           \/ Service!ChangeReturns(h) /\ written' = [written EXCEPT ![h] = FALSE]
           \/ Service!ChangeReturns(h) /\ written' = written /\ ~written[h],
           faulted' \in [Clients -> BOOLEAN], raced' \in [Clients -> BOOLEAN],
           outlived' \in [Clients -> BOOLEAN]
    PROVE  TypeInv'
<1> USE DEF TypeInv
<1>1. call[h].client \in Clients
  BY Changes
<1>2. Service!ServiceTypeOK' /\ written' \in [Handlers -> BOOLEAN]
  BY DEF TypeOK, Service!ServiceTypeOK, Service!ChangeReturns
<1>3. TypeOK'
  <2>1. window' \in [Clients -> [limit : Settings \cup {None}, granted : Nat,
                                 length : 0 .. MaxWindow, lag : 0 .. MaxLag]]
    <3>1. [window EXCEPT ![call[h].client] = NoWindow]
            \in [Clients -> [limit : Settings \cup {None}, granted : Nat,
                             length : 0 .. MaxWindow, lag : 0 .. MaxLag]]
      BY <1>1, WindowTypes
    <3> QED
      BY <3>1 DEF TypeOK
  <2>2. /\ storage' \in Storages
        /\ ask' \in [Askers -> IF storage' = "hybrid" THEN Hybrid!Asks ELSE Postgres!Asks]
        /\ since' \in [Clients -> 0 .. MaxAge \cup {None}]
    BY DEF TypeOK
  <2> QED
    BY <1>2, <2>1, <2>2 DEF TypeOK
<1>4. Halfway'
  BY DEF Halfway, TypeOK, Service!ServiceTypeOK, Service!ChangeReturns
<1>5. LocksAreInUse'
  BY DEF LocksAreInUse
<1>6. \A r \in Askers : ask[r].at = "update" => ask[r].client \in Clients
  BY HybridFrames, PostgresFrames
<1>7. Locking'
  BY <1>6, NoneIsNothing DEF Locking
<1> QED
  BY <1>3, <1>4, <1>5, <1>7

LEMMA HandlerTypes ==
    ASSUME TypeInv, NEW h \in Handlers, HandlerStep(h)
    PROVE  TypeInv'
<1> USE DEF TypeInv
<1>1. call[h] # Service!NoChange
  BY DEF HandlerStep, Write, WriteFails, Drop, DropFails, Halfway
<1>2. call[h].client \in Clients
  BY <1>1, Changes
<1> DEFINE Frame ==
      /\ Hybrid!LimiterTypeOK' /\ Postgres!LimiterTypeOK' /\ lock' = lock
      /\ \A c \in Clients : lock[c] # None => row'[c] = row[c]
<1>3. ASSUME Hybrid!LimiterTypeOK', UNCHANGED postgresVars
      PROVE  Frame
  BY <1>3 DEF TypeOK, Postgres!LimiterTypeOK, postgresVars
<1>4. CASE Write(h)
  <2>1. Frame
    BY <1>1, <1>4, AppliedTypes DEF Write
  <2>2. /\ faulted' \in [Clients -> BOOLEAN] /\ raced' \in [Clients -> BOOLEAN]
        /\ outlived' \in [Clients -> BOOLEAN]
    BY <1>2, <1>4 DEF Write, TypeOK
  <2>3. window' \in {window, [window EXCEPT ![call[h].client] = NoWindow]}
    BY <1>4 DEF Write, WindowsAfterChange
  <2> QED
    BY <1>1, <1>4, <2>1, <2>2, <2>3, HandlerKeepsTypes DEF Write, WritesNext
<1>5. CASE WriteFails(h)
  <2>1. Frame
    <3>1. CASE Applied(h)
      BY <1>1, <3>1, AppliedTypes
    <3>2. CASE UNCHANGED <<hybridVars, postgresVars>>
      BY <3>2, <1>3 DEF TypeOK, Hybrid!LimiterTypeOK, hybridVars
    <3> QED
      BY <1>5, <3>1, <3>2 DEF WriteFails
  <2>2. /\ faulted' \in [Clients -> BOOLEAN] /\ raced' \in [Clients -> BOOLEAN]
        /\ outlived' \in [Clients -> BOOLEAN]
    BY <1>2, <1>5 DEF WriteFails, TypeOK
  <2>3. window' \in {window, [window EXCEPT ![call[h].client] = NoWindow]}
    BY <1>5 DEF WriteFails, WindowsAfterChange
  <2> QED
    BY <1>1, <1>5, <2>1, <2>2, <2>3, HandlerKeepsTypes DEF WriteFails, WritesNext
<1>6. CASE Drop(h)
  <2>1. Hybrid!LimiterTypeOK'
    BY <1>2, <1>6 DEF Drop, Hybrid!DropSettings, Hybrid!DropKeys, TypeOK, Hybrid!LimiterTypeOK
  <2>2. Frame
    BY <2>1, <1>3, <1>6 DEF Drop
  <2>3. window' \in {window, [window EXCEPT ![call[h].client] = NoWindow]}
    BY <1>6 DEF Drop
  <2>4. outlived' \in [Clients -> BOOLEAN]
    BY <1>2, <1>6 DEF Drop, TypeOK
  <2> QED
    BY <1>1, <1>6, <2>2, <2>3, <2>4, HandlerKeepsTypes DEF Drop, TypeOK
<1>7. CASE DropFails(h)
  <2>1. Frame
    BY <1>3, <1>7 DEF DropFails, TypeOK, Hybrid!LimiterTypeOK, hybridVars
  <2>2. raced' \in [Clients -> BOOLEAN]
    BY <1>2, <1>7 DEF DropFails, TypeOK
  <2> QED
    BY <1>1, <1>7, <2>1, <2>2, HandlerKeepsTypes DEF DropFails, TypeOK
<1> QED
  BY <1>4, <1>5, <1>6, <1>7 DEF HandlerStep

LEMMA RestartTypes == TypeInv /\ Restart => TypeInv'
<1> SUFFICES ASSUME TypeInv, Restart PROVE TypeInv'
  OBVIOUS
<1> USE DEF TypeInv
<1>1. ask' \in [Askers -> AskType] /\ \A r \in Askers : ask'[r].at = "idle"
  BY EndedFrame DEF Restart
<1>2. Hybrid!LimiterTypeOK' /\ Postgres!LimiterTypeOK' /\ \A c \in Clients : lock'[c] = None
  BY DEF Restart, Postgres!ConnectionsLost, TypeOK, Hybrid!LimiterTypeOK,
     Postgres!LimiterTypeOK, hybridVars
<1>3. Service!ServiceTypeOK'
  BY DEF Restart, Service!ServiceTypeOK
<1>4. TypeOK'
  BY <1>1, <1>2, <1>3 DEF Restart, TypeOK, AskType
<1>5. Halfway'
  BY DEF Restart, Halfway
<1> QED
  BY <1>1, <1>2, <1>4, <1>5 DEF LocksAreInUse, Locking

\* Steps of the stores and of the observer alone.
LEMMA StoreTypes ==
    ASSUME TypeInv, \/ RedisRestarts \/ \E c \in Clients : Expire(c) \/ CloseWindow(c)
    PROVE  TypeInv'
<1> USE DEF TypeInv
<1>1. UNCHANGED <<storage, postgresVars, ask, serviceVars, faulted, raced, outlived, since>>
  BY DEF RedisRestarts, Expire, CloseWindow, history
<1>2. Hybrid!LimiterTypeOK'
  BY DEF RedisRestarts, Expire, CloseWindow, Hybrid!RedisRestarts, Hybrid!Expire,
     Hybrid!DropSettings, hybridVars, TypeOK, Hybrid!LimiterTypeOK
<1>3. window' \in [Clients -> [limit : Settings \cup {None}, granted : Nat,
                               length : 0 .. MaxWindow, lag : 0 .. MaxLag]]
  <2>1. CASE RedisRestarts
    BY <2>1 DEF RedisRestarts, NoWindow
  <2>2. ASSUME NEW c \in Clients, Expire(c) \/ CloseWindow(c)
        PROVE  window' \in {window, [window EXCEPT ![c] = NoWindow]}
    BY <2>2 DEF Expire, CloseWindow, history
  <2> QED
    BY <2>1, <2>2, WindowTypes DEF TypeOK
<1>4. TypeOK'
  BY <1>1, <1>2, <1>3 DEF TypeOK, Postgres!LimiterTypeOK, Service!ServiceTypeOK, postgresVars,
     serviceVars
<1> QED
  BY <1>1, <1>4 DEF LocksAreInUse, Locking, Halfway, postgresVars, serviceVars

LEMMA OlderAge ==
    ASSUME NEW age \in 0 .. MaxAge
    PROVE  /\ Hybrid!Older(age) \in 0 .. MaxAge /\ Postgres!Older(age) = Hybrid!Older(age)
           /\ age <= Hybrid!Older(age) /\ Hybrid!Older(age) <= age + 1
BY DEF Hybrid!Older, Postgres!Older, Hybrid!Least, Postgres!Least

\* What a unit of time does to the requests.
LEMMA ClockFrames ==
    ASSUME TypeInv, Clock
    PROVE  /\ ask' \in [Askers -> AskType]
           /\ \A r \in Askers : ask[r].at \in {"eval", "update"} =>
                ask[r].lag + 1 \in 0 .. MaxLag /\ ask'[r] = [ask[r] EXCEPT !.lag = @ + 1]
           /\ \A r \in Askers : ask[r].at \notin {"eval", "update"} => ask'[r] = ask[r]
           /\ \A r \in Askers : ask'[r].at = ask[r].at /\ ask'[r].client = ask[r].client
<1> USE DEF TypeInv
<1>1. ASSUME NEW r \in Askers, ask[r].at \in {"eval", "update"}
      PROVE  /\ ask[r].lag \in 0 .. MaxLag /\ ask[r].lag < MaxLag
             /\ ask'[r] = [ask[r] EXCEPT !.lag = @ + 1]
  BY <1>1, HybridFrames, PostgresFrames DEF Clock, Slow
<1>2. ASSUME NEW r \in Askers, ask[r].at \notin {"eval", "update"}
      PROVE  ask'[r] = ask[r]
  BY <1>2 DEF Clock, Slow
<1>3. ASSUME NEW r \in Askers, ask[r].at = "eval"
      PROVE  ask'[r] \in AskType /\ ask'[r].at = "eval" /\ ask'[r].client = ask[r].client
  <2>1. ask[r] \in [at : {"eval"}, client : Clients, limit : Settings, lag : 0 .. MaxLag]
        /\ storage = "hybrid"
    BY <1>3, HybridFrames, PostgresFrames DEF Hybrid!Asks
  <2>2. /\ ask'[r] = [ask[r] EXCEPT !.lag = @ + 1]
        /\ ask[r].lag + 1 \in 0 .. MaxLag
    BY <1>1, <1>3
  <2>3. ask'[r] \in [at : {"eval"}, client : Clients, limit : Settings, lag : 0 .. MaxLag]
        /\ ask'[r].client = ask[r].client
    BY <2>1, <2>2
  <2>4. ask'[r] \in Hybrid!Asks
    BY <2>3 DEF Hybrid!Asks
  <2> QED
    BY <2>1, <2>3, <2>4 DEF AskType
<1>4. ASSUME NEW r \in Askers, ask[r].at = "update"
      PROVE  ask'[r] \in AskType /\ ask'[r].at = "update" /\ ask'[r].client = ask[r].client
  <2>1. ask[r] \in [at : {"update"}, client : Clients, tokens : Nat, lag : 0 .. MaxLag]
        /\ storage # "hybrid"
    BY <1>4, HybridFrames, PostgresFrames DEF Postgres!Asks
  <2>2. /\ ask'[r] = [ask[r] EXCEPT !.lag = @ + 1]
        /\ ask[r].lag + 1 \in 0 .. MaxLag
    BY <1>1, <1>4
  <2>3. ask'[r] \in [at : {"update"}, client : Clients, tokens : Nat, lag : 0 .. MaxLag]
        /\ ask'[r].client = ask[r].client
    BY <2>1, <2>2
  <2>4. ask'[r] \in Postgres!Asks
    BY <2>3 DEF Postgres!Asks
  <2> QED
    BY <2>1, <2>3, <2>4 DEF AskType
<1>5. ask' \in [Askers -> AskType]
  BY <1>2, <1>3, <1>4 DEF TypeOK, AskType, Clock
<1> QED
  BY <1>1, <1>2, <1>3, <1>4, <1>5

LEMMA ClockTypes == TypeInv /\ Clock => TypeInv'
<1> SUFFICES ASSUME TypeInv, Clock PROVE TypeInv'
  OBVIOUS
<1> USE DEF TypeInv
<1>1. ask' \in [Askers -> AskType]
      /\ \A r \in Askers : ask'[r].at = ask[r].at /\ ask'[r].client = ask[r].client
  BY ClockFrames
<1>2. Hybrid!LimiterTypeOK'
  <2>1. ASSUME NEW c \in Clients, bucket[c] # None
        PROVE  [bucket[c] EXCEPT !.age = Hybrid!Older(@)] \in [tokens : Nat, age : 0 .. MaxAge]
    BY <2>1, OlderAge DEF TypeOK, Hybrid!LimiterTypeOK
  <2> QED
    BY <2>1 DEF Clock, Hybrid!LimiterAges, TypeOK, Hybrid!LimiterTypeOK
<1>3. \A c \in Clients : row[c] # None =>
        /\ row'[c] = [row[c] EXCEPT !.age = Hybrid!Older(@)]
        /\ row'[c] \in [limit : Settings, tokens : Nat, age : 0 .. MaxAge]
  <2> SUFFICES ASSUME NEW c \in Clients, row[c] # None
               PROVE  /\ row'[c] = [row[c] EXCEPT !.age = Hybrid!Older(@)]
                      /\ row'[c] \in [limit : Settings, tokens : Nat, age : 0 .. MaxAge]
    OBVIOUS
  <2>1. row[c] \in [limit : Settings, tokens : Nat, age : 0 .. MaxAge]
    BY DEF TypeOK, Postgres!LimiterTypeOK
  <2>2. row'[c] = [row[c] EXCEPT !.age = Postgres!Older(@)]
    BY DEF Clock, Postgres!LimiterAges
  <2> QED
    BY <2>1, <2>2, OlderAge
<1>4. Postgres!LimiterTypeOK' /\ lock' = lock
  BY <1>3 DEF Clock, Postgres!LimiterAges, TypeOK, Postgres!LimiterTypeOK
<1>5. window' \in [Clients -> [limit : Settings \cup {None}, granted : Nat,
                               length : 0 .. MaxWindow, lag : 0 .. MaxLag]]
  <2>1. NoWindow \in [limit : Settings \cup {None}, granted : Nat,
                      length : 0 .. MaxWindow, lag : 0 .. MaxLag]
    BY DEF NoWindow
  <2>2. ASSUME NEW c \in Clients, window[c].length < MaxWindow
        PROVE  [window[c] EXCEPT !.length = @ + 1] \in
                 [limit : Settings \cup {None}, granted : Nat, length : 0 .. MaxWindow, lag : 0 .. MaxLag]
    BY <2>2 DEF TypeOK
  <2> QED
    BY <2>1, <2>2 DEF Clock
<1>6. since' \in [Clients -> 0 .. MaxAge \cup {None}]
  <2>1. \A c \in Clients : since[c] # None => Hybrid!Older(since[c]) \in 0 .. MaxAge
    BY OlderAge DEF TypeOK
  <2> QED
    BY <2>1 DEF Clock
<1>7. TypeOK' /\ Halfway'
  BY <1>1, <1>2, <1>4, <1>5, <1>6 DEF TypeOK, Halfway, AskType, Clock, serviceVars,
     Service!ServiceTypeOK
<1>8. LocksAreInUse'
  BY <1>1, <1>4 DEF LocksAreInUse, TypeOK, Postgres!LimiterTypeOK
<1>9. \A r \in Askers : ask[r].at = "update" => ask[r].client \in Clients
  BY HybridFrames, PostgresFrames
<1>10. Locking'
  <2> SUFFICES ASSUME NEW r \in Askers, ask'[r].at = "update"
               PROVE  row'[ask'[r].client] # None /\ lock'[ask'[r].client] = r
    BY DEF Locking
  <2>1. /\ ask[r].at = "update" /\ ask'[r].client = ask[r].client /\ ask[r].client \in Clients
        /\ row[ask[r].client] # None /\ lock[ask[r].client] = r
    BY <1>1, <1>9 DEF Locking
  <2>2. row'[ask[r].client] # None
    BY <1>3, <2>1, NoneIsNothing
  <2> QED
    BY <1>4, <2>1, <2>2
<1> QED
  BY <1>7, <1>8, <1>10

LEMMA TypeStep == TypeInv /\ [Next]_vars => TypeInv'
<1> SUFFICES ASSUME TypeInv, [Next]_vars PROVE TypeInv'
  OBVIOUS
<1>1. ASSUME NEW r \in Askers, AskStep(r) PROVE TypeInv'
  BY <1>1, HybridAskTypes, HybridGrantTypes, PostgresAskTypes, PostgresGrantTypes DEF AskStep
<1>2. ASSUME NEW r \in Askers, NEW c \in Clients, Request(r, c) PROVE TypeInv'
  BY <1>2, RequestTypes
<1>3. ASSUME NEW h \in Handlers, HandlerStep(h) PROVE TypeInv'
  BY <1>3, HandlerTypes
<1>4. ASSUME NEW h \in Handlers, NEW c \in Clients, NEW s \in Requested, PostClient(h, c, s)
      PROVE  TypeInv'
  BY <1>4, PostTypes
<1>5. ASSUME NEW h \in Handlers, NEW c \in Clients, DeleteClient(h, c) PROVE TypeInv'
  BY <1>5, DeleteTypes
<1>6. CASE RedisRestarts \/ \E c \in Clients : Expire(c) \/ CloseWindow(c)
  BY <1>6, StoreTypes
<1>7. CASE Restart \/ Clock
  BY <1>7, RestartTypes, ClockTypes
<1>8. CASE UNCHANGED vars
  BY <1>8 DEF TypeInv, TypeOK, LocksAreInUse, Locking, Halfway, Hybrid!LimiterTypeOK,
     Postgres!LimiterTypeOK, Service!ServiceTypeOK, vars, hybridVars, postgresVars,
     serviceVars, history
<1> QED
  BY <1>1, <1>2, <1>3, <1>4, <1>5, <1>6, <1>7, <1>8 DEF Next

LEMMA TypeInvHolds == Spec => []TypeInv
BY TypeInit, TypeStep, PTL DEF Spec

\* The stores, the requests and the service are of the right types; no
\* counter of tokens falls below zero.
THEOREM TypeCorrect == Spec => []TypeOK
<1>1. TypeInv => TypeOK
  BY DEF TypeInv
<1> QED
  BY <1>1, TypeInvHolds, PTL

\* No way out of the PostgreSQL limiter's Allow leaves a row locked.
THEOREM LocksAreInUseHolds == Spec => []LocksAreInUse
<1>1. TypeInv => LocksAreInUse
  BY DEF TypeInv
<1> QED
  BY <1>1, TypeInvHolds, PTL

-----------------------------------------------------------------------------
(* The tables and the cache.                                               *)

\* The limit the change of h asks for.
Wanted(h) == IF call[h].op = "set" THEN call[h].settings ELSE None

\* The service changes one client at a time, and its table first.
OneCall ==
    /\ \A g, h \in Handlers :
         (call[g] # Service!NoChange /\ call[h] # Service!NoChange) => g = h
    /\ \A h \in Handlers :
         call[h] # Service!NoChange => settings[call[h].client] = Wanted(h)

\* The table and the store agree but for the change that is under way.
Listing ==
    \A c \in Clients :
       \/ faulted[c] \/ settings[c] = Kept(c)
       \/ \E h \in Handlers :
            call[h] # Service!NoChange /\ ~written[h] /\ call[h].client = c

\* What is on its way into the cache is in the store, too.
Filling ==
    \A r \in Askers : ask[r].at = "fill" =>
       ask[r].limit = stored[ask[r].client] \/ raced[ask[r].client]

CacheUsed == storage = "hybrid" \/ \A c \in Clients : cached[c] = None

TablesInv == TypeInv /\ OneCall /\ Listing /\ StaleOnlyByRace /\ Filling /\ CacheUsed

LEMMA TablesInit == Init => TablesInv
<1> SUFFICES ASSUME Init PROVE TablesInv
  OBVIOUS
<1>1. OneCall /\ Listing
  BY DEF Init, OneCall, Listing, Kept, Service!ServiceInit, Hybrid!LimiterInit,
     Postgres!LimiterInit
<1>2. StaleOnlyByRace /\ Filling /\ CacheUsed
  BY DEF Init, StaleOnlyByRace, Filling, CacheUsed, Hybrid!LimiterInit, Hybrid!Ended
<1> QED
  BY <1>1, <1>2, TypeInit DEF TablesInv

\* A step that changes neither a table nor a store.
LEMMA ListingKept ==
    ASSUME TablesInv, UNCHANGED <<storage, stored, serviceVars, faulted>>,
           \A c \in Clients : Kept(c)' = Kept(c)
    PROVE  OneCall' /\ Listing'
BY DEF TablesInv, OneCall, Listing, Wanted, serviceVars

LEMMA CacheKept ==
    ASSUME TablesInv, UNCHANGED <<storage, stored, serviceVars, raced>>,
           \A c \in Clients : cached'[c] \in {None, cached[c]},
           \A r \in Askers : ask'[r].at = "fill" =>
              ask'[r] = ask[r] \/ ask'[r].limit = stored[ask'[r].client]
    PROVE  StaleOnlyByRace' /\ Filling' /\ CacheUsed'
BY DEF TablesInv, StaleOnlyByRace, Filling, CacheUsed, serviceVars

LEMMA HybridTables ==
    ASSUME TablesInv, NEW r \in Askers, HybridAsk(r) \/ HybridGrant(r)
    PROVE  OneCall' /\ Listing' /\ StaleOnlyByRace' /\ Filling' /\ CacheUsed'
<1>1. /\ TypeOK /\ storage = "hybrid" /\ ask[r] \in Hybrid!Asks
      /\ UNCHANGED <<storage, stored, postgresVars, serviceVars, faulted, raced>>
  BY HybridFrames DEF HybridAsk, HybridGrant, TablesInv, TypeInv, Hybrid!GetCached,
     Hybrid!QuerySettings, Hybrid!FillCache, Hybrid!EvalRefuses, Hybrid!EvalFails,
     Hybrid!EvalGrants, Hybrid!limiterVars, history, Counted
<1>2. OneCall' /\ Listing'
  BY <1>1, ListingKept DEF Kept, postgresVars
<1>3. CASE Hybrid!FillCache(r)
  <2> DEFINE c == ask[r].client
  <2>1. /\ c \in Clients /\ ask[r].at = "fill"
        /\ ask[r].limit = stored[c] \/ raced[c]
    BY <1>1, <1>3, HybridFrames DEF Hybrid!FillCache, TablesInv, Filling
  <2>2. \A d \in Clients : cached'[d] = cached[d] \/ (d = c /\ cached'[d] = ask[r].limit)
    BY <1>1, <1>3 DEF Hybrid!FillCache, TypeOK, Hybrid!LimiterTypeOK
  <2>3. StaleOnlyByRace'
    BY <1>1, <2>1, <2>2 DEF TablesInv, StaleOnlyByRace, serviceVars
  <2>4. \A q \in Askers : ask'[q].at = "fill" => ask'[q] = ask[q]
    BY <1>1, <1>3 DEF Hybrid!FillCache, Hybrid!Goto, Hybrid!With, TypeOK
  <2> QED
    BY <1>1, <1>2, <2>3, <2>4 DEF TablesInv, Filling, CacheUsed
<1>4. CASE Hybrid!QuerySettings(r)
  <2>1. \A q \in Askers : ask'[q].at = "fill" =>
           ask'[q] = ask[q] \/ ask'[q].limit = stored[ask'[q].client]
    BY <1>1, <1>4 DEF Hybrid!QuerySettings, Hybrid!Finish, Hybrid!Goto, Hybrid!With,
       Hybrid!Ended, TypeOK
  <2> QED
    BY <1>1, <1>2, <1>4, <2>1, CacheKept DEF Hybrid!QuerySettings, Hybrid!limiterVars
<1>5. CASE Hybrid!GetCached(r)
  <2>1. \A q \in Askers : ask'[q].at = "fill" => ask'[q] = ask[q]
    BY <1>1, <1>5 DEF Hybrid!GetCached, Hybrid!Goto, Hybrid!With, TypeOK, Hybrid!Asks
  <2> QED
    BY <1>1, <1>2, <1>5, <2>1, CacheKept DEF Hybrid!GetCached, Hybrid!limiterVars
<1>6. CASE \/ \E lag \in 0 .. MaxLag : Hybrid!EvalRefuses(r, lag) \/ Hybrid!EvalGrants(r, lag)
           \/ Hybrid!EvalFails(r)
  <2>1. cached' = cached /\ \E v \in {"passed", "refused"} : Hybrid!Finish(r, v)
    BY <1>6 DEF Hybrid!EvalRefuses, Hybrid!EvalGrants, Hybrid!EvalFails, Hybrid!limiterVars
  <2>2. \A q \in Askers : ask'[q].at = "fill" => ask'[q] = ask[q]
    BY <1>1, <2>1 DEF Hybrid!Finish, Hybrid!Goto, Hybrid!Ended, TypeOK
  <2> QED
    BY <1>1, <1>2, <2>1, <2>2, CacheKept
<1> QED
  BY <1>3, <1>4, <1>5, <1>6 DEF HybridAsk, HybridGrant

LEMMA PostgresTables ==
    ASSUME TablesInv, NEW r \in Askers, PostgresAsk(r) \/ PostgresGrant(r)
    PROVE  OneCall' /\ Listing' /\ StaleOnlyByRace' /\ Filling' /\ CacheUsed'
<1>1. /\ TypeInv /\ TypeOK /\ storage # "hybrid"
      /\ UNCHANGED <<storage, hybridVars, serviceVars, faulted, raced>>
  BY DEF PostgresAsk, PostgresGrant, TablesInv, TypeInv, history, Counted
<1>2. \A c \in Clients : Kept(c)' = Kept(c)
  <2>1. CASE PostgresAsk(r)
    BY <1>1, <2>1 DEF PostgresAsk, Postgres!BeginTx, Postgres!SelectForUpdate,
       Postgres!SelectRefuses, Postgres!SelectPasses, Postgres!CommitFails,
       Postgres!limiterVars, Kept
  <2>2. CASE PostgresGrant(r)
    <3> DEFINE c == ask[r].client
               new == [row[c] EXCEPT !.tokens = ask[r].tokens, !.age = ask[r].lag]
    <3>1. /\ c \in Clients /\ row[c] # None /\ ask[r].tokens \in Nat /\ ask[r].lag \in 0 .. MaxLag
          /\ row' = [row EXCEPT ![c] = new]
      BY <1>1, <2>2, PostgresFrames DEF PostgresGrant, Postgres!Commit, TypeInv, Locking
    <3>2. row[c] \in [limit : Settings, tokens : Nat, age : 0 .. MaxAge]
      BY <1>1, <3>1 DEF TypeOK, Postgres!LimiterTypeOK
    <3>3. ask[r].lag \in 0 .. MaxAge
      BY <3>1
    <3>4. new \in [limit : Settings, tokens : Nat, age : 0 .. MaxAge] /\ new.limit = row[c].limit
      BY <3>1, <3>2, <3>3
    <3>5. new # None
      BY <3>4, NoneIsNothing
    <3> HIDE DEF new
    <3> QED
      BY <1>1, <3>1, <3>4, <3>5 DEF Kept, TypeOK, Postgres!LimiterTypeOK
  <2> QED
    BY <2>1, <2>2
<1>3. \A q \in Askers : ask'[q].at # "fill"
  <2>1. TypeInv'
    BY <1>1, PostgresAskTypes, PostgresGrantTypes
  <2> QED
    BY <1>1, <2>1 DEF TypeInv, TypeOK, Postgres!Asks
<1> QED
  BY <1>1, <1>2, <1>3, ListingKept, CacheKept DEF hybridVars

\* What a change that reaches the store leaves there.
LEMMA AppliedKeeps ==
    ASSUME TypeInv, NEW h \in Handlers, call[h] # Service!NoChange, Applied(h),
           UNCHANGED storage
    PROVE  /\ \A c \in Clients : c = call[h].client => Kept(c)' = Wanted(h)
           /\ \A c \in Clients \ {call[h].client} : Kept(c)' = Kept(c)
           /\ \A c \in Clients \ {call[h].client} : stored'[c] = stored[c]
           /\ cached' = cached
           /\ storage # "hybrid" => stored' = stored
<1> DEFINE c == call[h].client
<1>1. /\ TypeOK /\ c \in Clients /\ call[h].op \in {"set", "remove"}
      /\ call[h].op = "set" => call[h].settings \in Settings
  BY Changes DEF TypeInv
<1>2. CASE storage = "hybrid"
  BY <1>1, <1>2 DEF Applied, Hybrid!Upsert, Hybrid!DeleteRow, Kept, Wanted, TypeOK,
     Hybrid!LimiterTypeOK
<1>3. CASE storage # "hybrid" /\ Postgres!DeleteRow(c) /\ call[h].op = "remove" /\ UNCHANGED hybridVars
  BY <1>1, <1>3 DEF Postgres!DeleteRow, Kept, Wanted, TypeOK, Postgres!LimiterTypeOK, hybridVars
<1>4. ASSUME storage # "hybrid", UNCHANGED hybridVars, NEW lag \in 0 .. MaxLag,
             call[h].op = "set", Postgres!Upsert(c, call[h].settings, lag)
      PROVE  /\ \A d \in Clients : d = c => Kept(d)' = Wanted(h)
             /\ UNCHANGED <<stored, cached>>
             /\ \A d \in Clients \ {c} : Kept(d)' = Kept(d)
  <2> DEFINE new == [limit |-> call[h].settings, tokens |-> call[h].settings.capacity, age |-> lag]
  <2>1. new \in [limit : Settings, tokens : Nat, age : 0 .. MaxAge] /\ new.limit = call[h].settings
    BY <1>1, <1>4, SettingsFields
  <2>2. new # None
    BY <2>1, NoneIsNothing
  <2>3. row' = [row EXCEPT ![c] = new]
    BY <1>4 DEF Postgres!Upsert
  <2> HIDE DEF new
  <2> QED
    BY <2>1, <2>2, <2>3, <1>1, <1>4 DEF Kept, Wanted, TypeOK, Postgres!LimiterTypeOK, hybridVars
<1> QED
  BY <1>2, <1>3, <1>4 DEF Applied

LEMMA ServiceTables ==
    ASSUME TablesInv, NEW h \in Handlers, NEW c \in Clients,
           DeleteClient(h, c) \/ \E s \in Requested : PostClient(h, c, s)
    PROVE  OneCall' /\ Listing' /\ StaleOnlyByRace' /\ Filling' /\ CacheUsed'
<1>1. /\ TypeOK /\ Service!Unlocked
      /\ UNCHANGED <<storage, hybridVars, postgresVars, ask, written, history>>
  BY DEF TablesInv, TypeInv, PostClient, DeleteClient, Service!CreateOrUpdateClient,
     Service!RemoveClient
<1>2. PICK change :
        /\ change # Service!NoChange /\ change.client = c
        /\ call' = [call EXCEPT ![h] = change]
        /\ settings' = [settings EXCEPT ![c] =
              IF change.op = "set" THEN change.settings ELSE None]
  <2>1. CASE DeleteClient(h, c)
    <3> WITNESS [op |-> "remove", client |-> c]
    <3> QED
      BY <2>1 DEF DeleteClient, Service!RemoveClient, Service!NoChange
  <2>2. ASSUME NEW s \in Requested, PostClient(h, c, s)
        PROVE  \E change :
                 /\ change # Service!NoChange /\ change.client = c
                 /\ call' = [call EXCEPT ![h] = change]
                 /\ settings' = [settings EXCEPT ![c] =
                       IF change.op = "set" THEN change.settings ELSE None]
    <3> WITNESS [op |-> "set", client |-> c, settings |-> s]
    <3> QED
      BY <2>2 DEF PostClient, Service!CreateOrUpdateClient, Service!NoChange
  <2> QED
    BY <2>1, <2>2
<1>3. /\ call'[h] = change /\ \A g \in Handlers \ {h} : call'[g] = Service!NoChange
      /\ \A g \in Handlers : ~written[g]
  BY <1>1, <1>2 DEF TypeOK, Service!ServiceTypeOK, Service!Unlocked, TablesInv, TypeInv, Halfway
<1>4. /\ settings'[c] = IF change.op = "set" THEN change.settings ELSE None
      /\ \A d \in Clients \ {c} : settings'[d] = settings[d]
  BY <1>1, <1>2 DEF TypeOK, Service!ServiceTypeOK
<1>5. OneCall'
  BY <1>2, <1>3, <1>4 DEF OneCall, Wanted
<1>6. Listing'
  <2>1. \A d \in Clients : Kept(d)' = Kept(d)
    BY <1>1 DEF Kept, hybridVars, postgresVars
  <2>2. \A d \in Clients : faulted[d] \/ settings[d] = Kept(d)
    BY <1>1 DEF TablesInv, Listing, Service!Unlocked
  <2>3. \A d \in Clients \ {c} : faulted'[d] \/ settings'[d] = Kept(d)'
    BY <1>1, <1>4, <2>1, <2>2 DEF history
  <2>4. call'[h] # Service!NoChange /\ ~written'[h] /\ call'[h].client = c
    BY <1>1, <1>2, <1>3
  <2> QED
    BY <2>3, <2>4 DEF Listing
<1>7. StaleOnlyByRace' /\ Filling' /\ CacheUsed'
  BY <1>1, <1>3 DEF TablesInv, StaleOnlyByRace, Filling, CacheUsed, hybridVars, history
<1> QED
  BY <1>5, <1>6, <1>7

\* The handler goes on to Redis or returns.
LEMMA WritesNextStep ==
    ASSUME TablesInv, NEW h \in Handlers, call[h] # Service!NoChange, ~written[h],
           \/ WritesNext(h)
           \/ Service!ChangeReturns(h) /\ UNCHANGED written
    PROVE  /\ settings' = settings
           /\ \A g \in Handlers : call'[g] # Service!NoChange => g = h /\ call'[g] = call[g]
           /\ \A g \in Handlers : g # h => ~written[g] /\ ~written'[g]
           /\ OneCall'
           /\ WritesNext(h) /\ storage = "hybrid" => written'[h] /\ call'[h] = call[h]
           /\ written'[h] => call'[h] = call[h]
<1>1. TypeOK /\ OneCall /\ Halfway
  BY DEF TablesInv, TypeInv
<1>2. \A g \in Handlers : g # h => call[g] = Service!NoChange /\ ~written[g]
  BY <1>1 DEF OneCall, Halfway
<1>3. CASE UNCHANGED <<settings, call>> /\ written' = [written EXCEPT ![h] = TRUE]
  BY <1>1, <1>2, <1>3 DEF OneCall, Wanted, TypeOK
<1>4. CASE Service!ChangeReturns(h) /\ UNCHANGED written
            /\ ~(WritesNext(h) /\ storage = "hybrid")
  BY <1>1, <1>2, <1>4 DEF OneCall, Wanted, TypeOK, Service!ChangeReturns, Service!ServiceTypeOK
<1>5. ~(Service!ChangeReturns(h) /\ UNCHANGED <<settings, call>>)
  BY <1>1 DEF Service!ChangeReturns, TypeOK, Service!ServiceTypeOK
<1> QED
  BY <1>3, <1>4, <1>5 DEF WritesNext

LEMMA WriteTables ==
    ASSUME TablesInv, NEW h \in Handlers, Write(h)
    PROVE  OneCall' /\ Listing' /\ StaleOnlyByRace' /\ Filling' /\ CacheUsed'
<1> DEFINE c == call[h].client
<1>1. /\ TypeInv /\ TypeOK /\ call[h] # Service!NoChange /\ ~written[h] /\ Applied(h)
      /\ WritesNext(h) /\ UNCHANGED <<storage, ask>>
  BY DEF Write, TablesInv, TypeInv
<1>2. c \in Clients /\ settings[c] = Wanted(h)
  BY <1>1, Changes DEF TablesInv, OneCall
<1>3. /\ \A d \in Clients \ {c} : faulted'[d] = faulted[d] /\ raced'[d] = raced[d]
      /\ raced'[c] <=> Racers(c) # {}
  BY <1>1, <1>2 DEF Write, TypeOK
<1>4. /\ settings' = settings /\ OneCall'
      /\ \A g \in Handlers : g # h => ~written[g] /\ ~written'[g]
      /\ storage = "hybrid" => written'[h] /\ call'[h] = call[h]
  BY <1>1, WritesNextStep
<1>5. /\ \A d \in Clients : d = c => Kept(d)' = Wanted(h)
      /\ \A d \in Clients \ {c} : Kept(d)' = Kept(d) /\ stored'[d] = stored[d]
      /\ cached' = cached
      /\ storage # "hybrid" => stored' = stored
  BY <1>1, AppliedKeeps
<1>6. Listing'
  <2>1. ASSUME NEW d \in Clients \ {c}
        PROVE  faulted'[d] \/ settings'[d] = Kept(d)'
    <3>1. \A g \in Handlers : call[g] # Service!NoChange => call[g].client # d
      BY <1>1 DEF TablesInv, OneCall
    <3> QED
      BY <1>3, <1>4, <1>5, <3>1 DEF TablesInv, Listing
  <2>2. \A d \in Clients : d = c => settings'[d] = Kept(d)'
    BY <1>2, <1>4, <1>5
  <2> QED
    BY <2>1, <2>2 DEF Listing
<1>7. StaleOnlyByRace'
  <2>1. ASSUME NEW d \in Clients \ {c}
        PROVE  cached'[d] \in {None, stored'[d]} \/ raced'[d]
    BY <1>1, <1>3, <1>4, <1>5 DEF TablesInv, StaleOnlyByRace
  <2>2. \/ cached'[c] \in {None, stored'[c]}
        \/ \E g \in Handlers : written'[g] /\ call'[g].client = c
    BY <1>2, <1>4, <1>5 DEF TablesInv, CacheUsed
  <2> QED
    BY <2>1, <2>2 DEF StaleOnlyByRace
<1>8. Filling'
  <2> SUFFICES ASSUME NEW q \in Askers, ask[q].at = "fill"
               PROVE  ask[q].limit = stored'[ask[q].client] \/ raced'[ask[q].client]
    BY <1>1 DEF Filling
  <2>1. CASE ask[q].client = c
    <3>1. ask[q].limit # stored'[c] => q \in Racers(c)
      BY <2>1 DEF Racers
    <3> QED
      BY <1>3, <2>1, <3>1
  <2>2. CASE ask[q].client # c
    <3>1. ask[q].client \in Clients
      BY <1>1, HybridFrames, PostgresFrames
    <3> QED
      BY <1>3, <1>5, <2>2, <3>1 DEF TablesInv, Filling
  <2> QED
    BY <2>1, <2>2
<1> QED
  BY <1>1, <1>4, <1>5, <1>6, <1>7, <1>8 DEF TablesInv, CacheUsed

LEMMA WriteFailsTables ==
    ASSUME TablesInv, NEW h \in Handlers, WriteFails(h)
    PROVE  OneCall' /\ Listing' /\ StaleOnlyByRace' /\ Filling' /\ CacheUsed'
<1> DEFINE c == call[h].client
<1>1. /\ TypeInv /\ TypeOK /\ call[h] # Service!NoChange /\ ~written[h]
      /\ UNCHANGED <<storage, ask>>
  BY DEF WriteFails, TablesInv, TypeInv
<1>2. c \in Clients
  BY <1>1, Changes
<1>3. /\ \A d \in Clients \ {c} : faulted'[d] = faulted[d] /\ raced'[d] = raced[d]
      /\ faulted'[c] /\ raced'[c]
  BY <1>1, <1>2 DEF WriteFails, TypeOK
<1>4. /\ settings' = settings /\ OneCall'
      /\ \A g \in Handlers : g # h => ~written[g] /\ ~written'[g]
  BY <1>1, WritesNextStep DEF WriteFails
<1>5. /\ \A d \in Clients \ {c} : Kept(d)' = Kept(d) /\ stored'[d] = stored[d]
      /\ cached' = cached
  <2>1. CASE Applied(h)
    BY <1>1, <2>1, AppliedKeeps
  <2>2. CASE UNCHANGED <<hybridVars, postgresVars>>
    BY <1>1, <2>2 DEF Kept, hybridVars, postgresVars
  <2> QED
    BY <2>1, <2>2 DEF WriteFails
<1>6. Listing'
  <2>1. ASSUME NEW d \in Clients \ {c}
        PROVE  faulted'[d] \/ settings'[d] = Kept(d)'
    <3>1. \A g \in Handlers : call[g] # Service!NoChange => call[g].client # d
      BY <1>1 DEF TablesInv, OneCall
    <3> QED
      BY <1>3, <1>4, <1>5, <3>1 DEF TablesInv, Listing
  <2> QED
    BY <1>3, <2>1 DEF Listing
<1>7. StaleOnlyByRace'
  <2>1. ASSUME NEW d \in Clients \ {c}
        PROVE  cached'[d] \in {None, stored'[d]} \/ raced'[d]
    BY <1>1, <1>3, <1>4, <1>5 DEF TablesInv, StaleOnlyByRace
  <2> QED
    BY <1>3, <2>1 DEF StaleOnlyByRace
<1>8. \A q \in Askers : ask[q].at = "fill" => ask[q].client \in Clients
  BY <1>1, HybridFrames, PostgresFrames
<1>9. Filling'
  BY <1>1, <1>3, <1>5, <1>8 DEF TablesInv, Filling
<1> QED
  BY <1>1, <1>4, <1>5, <1>6, <1>7, <1>9 DEF TablesInv, CacheUsed

LEMMA DropTables ==
    ASSUME TablesInv, NEW h \in Handlers, Drop(h) \/ DropFails(h)
    PROVE  OneCall' /\ Listing' /\ StaleOnlyByRace' /\ Filling' /\ CacheUsed'
<1> DEFINE c == call[h].client
<1>1. /\ TypeInv /\ TypeOK /\ written[h] /\ call[h] # Service!NoChange
      /\ Service!ChangeReturns(h)
      /\ written' = [written EXCEPT ![h] = FALSE]
      /\ UNCHANGED <<storage, stored, postgresVars, ask, faulted>>
  BY DEF Drop, DropFails, TablesInv, TypeInv, Halfway, Hybrid!DropSettings, Hybrid!DropKeys,
     hybridVars
<1>2. c \in Clients
  BY <1>1, Changes
<1>3. /\ settings' = settings
      /\ \A g \in Handlers : call'[g] = Service!NoChange
      /\ \A g \in Handlers : ~written'[g] /\ (g # h => ~written[g])
      /\ \A g \in Handlers : call[g] # Service!NoChange => g = h
  BY <1>1 DEF TypeOK, Service!ServiceTypeOK, Service!ChangeReturns, TablesInv, TypeInv,
     OneCall, Halfway
<1>4. OneCall' /\ Listing'
  BY <1>1, <1>3 DEF OneCall, Listing, TablesInv, Kept, postgresVars
<1>5. /\ \A d \in Clients : raced[d] => raced'[d]
      /\ \A d \in Clients \ {c} : cached'[d] = cached[d]
      /\ cached'[c] = None \/ raced'[c]
      /\ \A d \in Clients : cached'[d] \in {None, cached[d]}
  <2>1. CASE Drop(h)
    BY <1>2, <2>1 DEF Drop, Hybrid!DropSettings, Hybrid!DropKeys, TypeOK, TablesInv, TypeInv,
       Hybrid!LimiterTypeOK
  <2>2. CASE DropFails(h)
    BY <1>2, <2>2 DEF DropFails, TypeOK, TablesInv, TypeInv, hybridVars
  <2> QED
    BY <2>1, <2>2
<1>6. StaleOnlyByRace'
  BY <1>1, <1>3, <1>5 DEF TablesInv, StaleOnlyByRace
<1>7. \A q \in Askers : ask[q].at = "fill" => ask[q].client \in Clients
  BY <1>1, HybridFrames, PostgresFrames
<1> QED
  BY <1>1, <1>4, <1>5, <1>6, <1>7 DEF TablesInv, Filling, CacheUsed

LEMMA RestartTables ==
    ASSUME TablesInv, Restart
    PROVE  OneCall' /\ Listing' /\ StaleOnlyByRace' /\ Filling' /\ CacheUsed'
<1>1. OneCall' /\ Listing'
  BY DEF Restart, OneCall, Listing
<1> QED
  BY <1>1 DEF TablesInv, Restart, StaleOnlyByRace, Filling, CacheUsed, hybridVars, Hybrid!Ended

LEMMA StoreTables ==
    ASSUME TablesInv,
           \/ RedisRestarts \/ Clock
           \/ \E c \in Clients : Expire(c) \/ CloseWindow(c) \/ \E r \in Askers : Request(r, c)
    PROVE  OneCall' /\ Listing' /\ StaleOnlyByRace' /\ Filling' /\ CacheUsed'
<1>1. /\ TypeInv /\ TypeOK
      /\ UNCHANGED <<storage, stored, serviceVars, faulted, raced>>
  BY DEF RedisRestarts, Clock, Expire, CloseWindow, Request, TablesInv, TypeInv, history,
     hybridVars, Hybrid!RedisRestarts, Hybrid!Expire, Hybrid!DropSettings, Hybrid!LimiterAges,
     Hybrid!Allow, Hybrid!limiterVars
<1>2. \A c \in Clients : cached'[c] \in {None, cached[c]}
  BY <1>1 DEF RedisRestarts, Clock, Expire, CloseWindow, Request, TypeOK, Hybrid!LimiterTypeOK,
     hybridVars, Hybrid!RedisRestarts, Hybrid!Expire, Hybrid!DropSettings, Hybrid!LimiterAges,
     Hybrid!Allow, Hybrid!limiterVars
<1>3. \A c \in Clients : Kept(c)' = Kept(c)
  <2>1. CASE Clock
    <3>1. ASSUME NEW c \in Clients, row[c] # None
          PROVE  row'[c] # None /\ row'[c].limit = row[c].limit
      <4> DEFINE new == [row[c] EXCEPT !.age = Postgres!Older(@)]
      <4>1. row[c] \in [limit : Settings, tokens : Nat, age : 0 .. MaxAge]
        BY <1>1, <3>1 DEF TypeOK, Postgres!LimiterTypeOK
      <4>2. new \in [limit : Settings, tokens : Nat, age : 0 .. MaxAge] /\ new.limit = row[c].limit
        BY <4>1, OlderAge
      <4>3. row'[c] = new
        BY <2>1, <3>1 DEF Clock, Postgres!LimiterAges
      <4> QED
        BY <4>2, <4>3, NoneIsNothing
    <3>2. ASSUME NEW c \in Clients, row[c] = None
          PROVE  row'[c] = None
      BY <2>1, <3>2 DEF Clock, Postgres!LimiterAges
    <3> QED
      BY <1>1, <3>1, <3>2 DEF Kept
  <2>2. CASE ~Clock
    BY <1>1, <2>2 DEF Kept, RedisRestarts, Expire, CloseWindow, Request, postgresVars,
       Postgres!Allow, Postgres!limiterVars
  <2> QED
    BY <2>1, <2>2
<1>4. \A q \in Askers : ask'[q].at = "fill" => ask'[q] = ask[q]
  <2>1. CASE Clock
    BY <1>1, <2>1, ClockFrames
  <2>2. ASSUME NEW r \in Askers, NEW c \in Clients, Request(r, c)
        PROVE  \A q \in Askers : ask'[q].at = "fill" => ask'[q] = ask[q]
    BY <1>1, <2>2 DEF Request, Hybrid!Allow, Postgres!Allow, Hybrid!Goto, Postgres!Goto, TypeOK
  <2>3. CASE UNCHANGED ask
    BY <2>3
  <2> QED
    BY <2>1, <2>2, <2>3 DEF RedisRestarts, Expire, CloseWindow
<1> QED
  BY <1>1, <1>2, <1>3, <1>4, ListingKept, CacheKept

LEMMA TablesStep == TablesInv /\ [Next]_vars => TablesInv'
<1> SUFFICES ASSUME TablesInv, [Next]_vars PROVE TablesInv'
  OBVIOUS
<1> DEFINE Goal == OneCall' /\ Listing' /\ StaleOnlyByRace' /\ Filling' /\ CacheUsed'
<1>1. ASSUME NEW r \in Askers, AskStep(r) PROVE Goal
  BY <1>1, HybridTables, PostgresTables DEF AskStep
<1>2. ASSUME NEW h \in Handlers, HandlerStep(h) PROVE Goal
  BY <1>2, WriteTables, WriteFailsTables, DropTables DEF HandlerStep
<1>3. ASSUME NEW h \in Handlers, NEW c \in Clients,
             DeleteClient(h, c) \/ \E s \in Requested : PostClient(h, c, s)
      PROVE  Goal
  BY <1>3, ServiceTables
<1>4. ASSUME Restart PROVE Goal
  BY <1>4, RestartTables
<1>5. ASSUME \/ RedisRestarts \/ Clock
             \/ \E c \in Clients : Expire(c) \/ CloseWindow(c) \/ \E r \in Askers : Request(r, c)
      PROVE  Goal
  BY <1>5, StoreTables
<1>6. ASSUME UNCHANGED vars PROVE Goal
  BY <1>6 DEF vars, TablesInv, OneCall, Listing, StaleOnlyByRace, Filling, CacheUsed, Kept,
     Wanted, hybridVars, postgresVars, serviceVars, history
<1>7. Goal
  BY <1>1, <1>2, <1>3, <1>4, <1>5, <1>6 DEF Next
<1> QED
  BY <1>7, TypeStep DEF TablesInv

LEMMA TablesInvHolds == Spec => []TablesInv
BY TablesInit, TablesStep, PTL DEF Spec

\* For each client whose last change succeeded and was made since the last
\* restart, the API lists what the store keeps, whatever happened before that
\* change and whatever happens to other clients.
THEOREM ListedIsKeptHolds == Spec => []ListedIsKept
<1>1. TablesInv => ListedIsKept
  BY DEF TablesInv, Listing, ListedIsKept, Service!Unlocked
<1> QED
  BY <1>1, TablesInvHolds, PTL

\* Between changes the cache differs from the store only where a late reader
\* or a lost change has left it behind.
THEOREM StaleOnlyByRaceHolds == Spec => []StaleOnlyByRace
<1>1. TablesInv => StaleOnlyByRace
  BY DEF TablesInv
<1> QED
  BY <1>1, TablesInvHolds, PTL

-----------------------------------------------------------------------------
(* The tokens of a client whose limits are gone.                           *)

\* A change of c is between the two stores.
Between(c) == \E h \in Handlers : written[h] /\ call[h].client = c

\* A client without limits, none of whose requests or changes went astray,
\* has no tokens, and no request knows a limit of it.
Cleared(c) ==
    (stored[c] = None /\ ~raced[c] /\ ~outlived[c] /\ ~Between(c)) =>
       bucket[c] = None /\ Knowing(c) = {}

\* A limit is in PostgreSQL before its handler goes on to Redis, and only the
\* hybrid limiter does.
Reached ==
    \A h \in Handlers : written[h] =>
       storage = "hybrid" /\ (call[h].op = "set" => stored[call[h].client] # None)

BucketsUsed == storage = "hybrid" \/ \A c \in Clients : bucket[c] = None

LeftoverInv == TablesInv /\ Reached /\ BucketsUsed /\ \A c \in Clients : Cleared(c)

LEMMA LeftoverInit == Init => LeftoverInv
<1> SUFFICES ASSUME Init PROVE LeftoverInv
  OBVIOUS
<1>1. Reached /\ BucketsUsed /\ \A c \in Clients : Cleared(c)
  BY DEF Init, Reached, BucketsUsed, Cleared, Knowing, Hybrid!LimiterInit, Hybrid!Ended
<1> QED
  BY <1>1, TablesInit DEF LeftoverInv

LEMMA CacheCleared ==
    ASSUME LeftoverInv, NEW c \in Clients, stored[c] = None, ~raced[c], ~outlived[c],
           ~Between(c)
    PROVE  bucket[c] = None /\ Knowing(c) = {} /\ cached[c] = None
BY DEF LeftoverInv, Cleared, TablesInv, StaleOnlyByRace, Between

\* A request of another client, or of one that does not know a limit.
LEMMA NobodyKnows ==
    ASSUME NEW r \in Askers, NEW c \in Clients, Knowing(c) = {},
           \A q \in Askers \ {r} : ask'[q] = ask[q],
           ask'[r].at \notin {"fill", "eval"} \/ ask'[r].client # c
    PROVE  Knowing(c)' = {}
BY DEF Knowing

\* A request comes to know a limit only from a cache or a row that has one,
\* and only a request that knows one takes a token.
LEMMA HybridLeftover ==
    ASSUME LeftoverInv, NEW r \in Askers, HybridAsk(r) \/ HybridGrant(r),
           NEW c \in Clients, stored[c] = None, bucket[c] = None, Knowing(c) = {},
           cached[c] = None
    PROVE  bucket'[c] = None /\ Knowing(c)' = {}
<1>1. TypeOK /\ storage = "hybrid" /\ ask[r] \in Hybrid!Asks
  BY HybridFrames DEF HybridAsk, HybridGrant, LeftoverInv, TablesInv, TypeInv
<1>2. ask[r].at \in {"fill", "eval"} => ask[r].client # c
  BY DEF Knowing
<1> DEFINE Moves(f) == Hybrid!Goto(r, f) /\ (f.at \notin {"fill", "eval"} \/ f.client # c)
<1>3. ASSUME NEW f, Moves(f) PROVE Knowing(c)' = {}
  <2>1. ask'[r] = f /\ \A q \in Askers \ {r} : ask'[q] = ask[q]
    BY <1>1, <1>3 DEF Hybrid!Goto, TypeOK
  <2> QED
    BY <1>3, <2>1, NobodyKnows
<1>4. ASSUME NEW v, Hybrid!Finish(r, v) PROVE Knowing(c)' = {}
  BY <1>3, <1>4 DEF Hybrid!Finish, Hybrid!Ended
<1>5. CASE Hybrid!GetCached(r)
  <2>1. CASE Hybrid!Goto(r, [ask[r] EXCEPT !.at = "query"])
    <3>1. [ask[r] EXCEPT !.at = "query"].at = "query"
      BY <1>1, <1>5 DEF Hybrid!GetCached, Hybrid!Asks
    <3> QED
      BY <1>3, <1>5, <2>1, <3>1 DEF Hybrid!GetCached, Hybrid!limiterVars
  <2>2. CASE /\ cached[ask[r].client] # None
             /\ Hybrid!Goto(r, Hybrid!With("eval", r, cached[ask[r].client]))
    BY <1>3, <1>5, <2>2 DEF Hybrid!GetCached, Hybrid!With, Hybrid!limiterVars
  <2> QED
    BY <1>5, <2>1, <2>2 DEF Hybrid!GetCached
<1>6. CASE Hybrid!QuerySettings(r)
  <2>1. CASE \E v \in {"panicked", "passed"} : Hybrid!Finish(r, v)
    BY <1>4, <1>6, <2>1 DEF Hybrid!QuerySettings, Hybrid!limiterVars
  <2>2. CASE /\ stored[ask[r].client] # None
             /\ Hybrid!Goto(r, Hybrid!With("fill", r, stored[ask[r].client]))
    BY <1>3, <1>6, <2>2 DEF Hybrid!QuerySettings, Hybrid!With, Hybrid!limiterVars
  <2> QED
    BY <1>6, <2>1, <2>2 DEF Hybrid!QuerySettings
<1>7. CASE Hybrid!FillCache(r)
  BY <1>2, <1>3, <1>7 DEF Hybrid!FillCache, Hybrid!With
<1>8. CASE Hybrid!EvalFails(r) \/ \E lag \in 0 .. MaxLag : Hybrid!EvalRefuses(r, lag)
  BY <1>4, <1>8 DEF Hybrid!EvalFails, Hybrid!EvalRefuses, Hybrid!limiterVars
<1>9. ASSUME NEW lag \in 0 .. MaxLag, Hybrid!EvalGrants(r, lag)
      PROVE  bucket'[c] = None /\ Knowing(c)' = {}
  <2>1. ask[r].client # c
    BY <1>2, <1>9 DEF Hybrid!EvalGrants
  <2>2. bucket'[c] = bucket[c]
    BY <1>1, <1>9, <2>1 DEF Hybrid!EvalGrants, TypeOK, Hybrid!LimiterTypeOK
  <2> QED
    BY <1>4, <1>9, <2>2 DEF Hybrid!EvalGrants
<1> QED
  BY <1>5, <1>6, <1>7, <1>8, <1>9 DEF HybridAsk, HybridGrant

LEMMA AskLeftover ==
    ASSUME LeftoverInv, NEW r \in Askers, AskStep(r)
    PROVE  Reached' /\ BucketsUsed' /\ \A c \in Clients : Cleared(c)'
<1>1. UNCHANGED <<storage, stored, serviceVars, raced, outlived>>
  BY DEF AskStep, HybridAsk, HybridGrant, PostgresAsk, PostgresGrant, Counted, history,
     hybridVars, Hybrid!GetCached, Hybrid!QuerySettings, Hybrid!FillCache, Hybrid!EvalRefuses,
     Hybrid!EvalFails, Hybrid!EvalGrants, Hybrid!limiterVars
<1>2. storage # "hybrid" => bucket' = bucket
  BY DEF AskStep, HybridAsk, HybridGrant, PostgresAsk, PostgresGrant, hybridVars
<1>3. Reached' /\ BucketsUsed'
  BY <1>1, <1>2 DEF LeftoverInv, Reached, BucketsUsed, serviceVars
<1>4. ASSUME NEW c \in Clients, stored'[c] = None, ~raced'[c], ~outlived'[c], ~Between(c)'
      PROVE  bucket'[c] = None /\ Knowing(c)' = {}
  <2>1. bucket[c] = None /\ Knowing(c) = {} /\ cached[c] = None /\ stored[c] = None
    BY <1>1, <1>4, CacheCleared DEF Between, serviceVars
  <2>2. CASE HybridAsk(r) \/ HybridGrant(r)
    BY <2>1, <2>2, HybridLeftover
  <2>3. CASE PostgresAsk(r) \/ PostgresGrant(r)
    <3>1. storage # "hybrid" /\ TypeInv'
      BY <2>3, PostgresAskTypes, PostgresGrantTypes
         DEF PostgresAsk, PostgresGrant, LeftoverInv, TablesInv
    <3>2. \A q \in Askers : ask'[q].at \notin {"fill", "eval"}
      BY <1>1, <3>1 DEF TypeInv, TypeOK, Postgres!Asks
    <3> QED
      BY <1>2, <2>1, <3>1, <3>2 DEF Knowing
  <2> QED
    BY <2>2, <2>3 DEF AskStep
<1> QED
  BY <1>3, <1>4 DEF Cleared

\* A change that reaches PostgreSQL concerns its own client.
LEMMA WriteLeftover ==
    ASSUME LeftoverInv, NEW h \in Handlers, Write(h) \/ WriteFails(h)
    PROVE  Reached' /\ BucketsUsed' /\ \A c \in Clients : Cleared(c)'
<1> DEFINE c == call[h].client
<1>1. /\ TablesInv /\ TypeInv /\ TypeOK /\ call[h] # Service!NoChange /\ ~written[h]
      /\ UNCHANGED <<storage, ask>>
  BY DEF Write, WriteFails, LeftoverInv, TablesInv, TypeInv
<1>2. c \in Clients /\ call[h].op \in {"set", "remove"}
      /\ (call[h].op = "set" => call[h].settings \in Settings)
  BY <1>1, Changes
<1>3. bucket' = bucket
  BY DEF Write, WriteFails, Applied, Hybrid!Upsert, Hybrid!DeleteRow, hybridVars
<1>4. /\ \A d \in Clients \ {c} : stored'[d] = stored[d] /\ raced'[d] = raced[d]
                                  /\ outlived'[d] = outlived[d]
      /\ storage # "hybrid" => stored' = stored
  <2>1. /\ \A d \in Clients \ {c} : stored'[d] = stored[d]
        /\ storage # "hybrid" => stored' = stored
    BY <1>1, AppliedKeeps DEF Write, WriteFails, hybridVars
  <2>2. \A d \in Clients \ {c} : raced'[d] = raced[d] /\ outlived'[d] = outlived[d]
    BY <1>1, <1>2 DEF Write, WriteFails, TypeOK
  <2> QED
    BY <2>1, <2>2
<1>5. /\ \A g \in Handlers : g # h => ~written[g] /\ ~written'[g]
      /\ written'[h] => call'[h] = call[h]
      /\ WritesNext(h) /\ storage = "hybrid" => written'[h]
  BY <1>1, WritesNextStep DEF Write, WriteFails
<1>6. Reached'
  <2>1. written'[h] => storage = "hybrid" /\ WritesNext(h)
    BY <1>1 DEF Write, WriteFails, WritesNext, TypeOK
  <2>2. ASSUME call[h].op = "set", written'[h] PROVE stored'[c] # None
    <3>1. Write(h) /\ storage = "hybrid"
      BY <1>1, <2>1, <2>2 DEF Write, WriteFails
    <3>2. stored'[c] = call[h].settings
      BY <1>1, <1>2, <2>2, <3>1 DEF Write, Applied, Hybrid!Upsert, TypeOK, Hybrid!LimiterTypeOK
    <3> QED
      BY <1>2, <2>2, <3>2, NoneIsNothing
  <2> QED
    BY <1>1, <1>5, <2>1, <2>2 DEF Reached
<1>7. BucketsUsed'
  BY <1>1, <1>3 DEF LeftoverInv, BucketsUsed
<1>8. \A d \in Clients : Knowing(d)' = Knowing(d)
  BY <1>1 DEF Knowing
<1>9. ASSUME NEW d \in Clients \ {c} PROVE Cleared(d)'
  <2>1. ~Between(d) \/ Between(d)'
    BY <1>1, <1>5 DEF Between
  <2> QED
    BY <1>3, <1>4, <1>8, <2>1 DEF LeftoverInv, Cleared
<1>10. ASSUME NEW d \in Clients, d = c PROVE Cleared(d)'
  <2>1. CASE storage = "hybrid" /\ Write(h)
    <3>1. Between(d)'
      BY <1>5, <1>10, <2>1 DEF Write, Between
    <3> QED
      BY <3>1 DEF Cleared
  <2>2. CASE storage # "hybrid"
    <3>1. \A q \in Askers : ask[q].at \notin {"fill", "eval"}
      BY <1>1, <2>2, PostgresFrames
    <3>2. bucket'[d] = None /\ Knowing(d)' = {}
      BY <1>3, <1>8, <2>2, <3>1 DEF LeftoverInv, BucketsUsed, Knowing
    <3> QED
      BY <3>2 DEF Cleared
  <2>3. CASE WriteFails(h)
    <3>1. raced'[d]
      BY <1>1, <1>10, <2>3 DEF WriteFails, TypeOK
    <3> QED
      BY <3>1 DEF Cleared
  <2> QED
    BY <2>1, <2>2, <2>3
<1> QED
  BY <1>6, <1>7, <1>9, <1>10

\* A removal deletes the tokens, and the requests that know the limit are
\* noted.
LEMMA DropLeftover ==
    ASSUME LeftoverInv, NEW h \in Handlers, Drop(h) \/ DropFails(h)
    PROVE  Reached' /\ BucketsUsed' /\ \A c \in Clients : Cleared(c)'
<1> DEFINE c == call[h].client
<1>1. /\ TablesInv /\ TypeInv /\ TypeOK /\ written[h] /\ call[h] # Service!NoChange
      /\ written' = [written EXCEPT ![h] = FALSE]
      /\ UNCHANGED <<storage, stored, ask>>
  BY DEF Drop, DropFails, LeftoverInv, TablesInv, TypeInv, Halfway, Hybrid!DropSettings,
     Hybrid!DropKeys, hybridVars
<1>2. c \in Clients /\ call[h].op \in {"set", "remove"}
      /\ storage = "hybrid" /\ (call[h].op = "set" => stored[c] # None)
  BY <1>1, Changes DEF LeftoverInv, Reached
<1>3. \A g \in Handlers : ~written'[g] /\ (g # h => ~written[g])
  BY <1>1 DEF TypeOK, TablesInv, TypeInv, OneCall, Halfway
<1>4. Reached' /\ BucketsUsed'
  BY <1>1, <1>2, <1>3 DEF Reached, BucketsUsed
<1>5. \A d \in Clients : Knowing(d)' = Knowing(d)
  BY <1>1 DEF Knowing
<1>6. \A d \in Clients \ {c} :
        bucket'[d] = bucket[d] /\ raced'[d] = raced[d] /\ outlived'[d] = outlived[d]
  BY <1>1, <1>2 DEF Drop, DropFails, Hybrid!DropSettings, Hybrid!DropKeys, hybridVars, TypeOK,
     Hybrid!LimiterTypeOK
<1>7. ASSUME NEW d \in Clients \ {c} PROVE Cleared(d)'
  <2>1. ~Between(d)
    BY <1>3 DEF Between
  <2> QED
    BY <1>1, <1>5, <1>6, <2>1 DEF LeftoverInv, Cleared
<1>8. ASSUME NEW d \in Clients, d = c PROVE Cleared(d)'
  <2>1. CASE Drop(h) /\ call[h].op = "remove"
    <3>1. bucket'[d] = None /\ (outlived'[d] <=> Knowing(d) # {})
      BY <1>1, <1>8, <2>1 DEF Drop, Hybrid!DropKeys, TypeOK, Hybrid!LimiterTypeOK
    <3> QED
      BY <1>5, <3>1 DEF Cleared
  <2>2. CASE call[h].op = "set"
    BY <1>1, <1>2, <1>8, <2>2 DEF Cleared
  <2>3. CASE DropFails(h)
    <3>1. raced'[d]
      BY <1>1, <1>8, <2>3 DEF DropFails, TypeOK
    <3> QED
      BY <3>1 DEF Cleared
  <2> QED
    BY <1>2, <2>1, <2>2, <2>3
<1> QED
  BY <1>4, <1>7, <1>8

LEMMA RestartLeftover ==
    ASSUME LeftoverInv, Restart
    PROVE  Reached' /\ BucketsUsed' /\ \A c \in Clients : Cleared(c)'
<1>1. /\ UNCHANGED <<storage, stored, bucket, outlived>>
      /\ \A q \in Askers : ask'[q].at = "idle"
      /\ \A h \in Handlers : ~written'[h]
      /\ \A c \in Clients : raced'[c] <=> (raced[c] \/ Between(c))
  BY DEF Restart, hybridVars, Hybrid!Ended, Between
<1>2. \A c \in Clients : Knowing(c)' = {}
  BY <1>1 DEF Knowing
<1> QED
  BY <1>1, <1>2 DEF LeftoverInv, Reached, BucketsUsed, Cleared

\* Service, stores and time: no tokens appear, and nobody comes to know a limit.
LEMMA OthersLeftover ==
    ASSUME LeftoverInv,
           \/ RedisRestarts \/ Clock
           \/ \E c \in Clients : Expire(c) \/ CloseWindow(c) \/ \E r \in Askers : Request(r, c)
           \/ \E h \in Handlers, c \in Clients :
                 DeleteClient(h, c) \/ \E s \in Requested : PostClient(h, c, s)
           \/ UNCHANGED vars
    PROVE  Reached' /\ BucketsUsed' /\ \A c \in Clients : Cleared(c)'
<1>1. /\ TypeInv /\ TypeOK
      /\ UNCHANGED <<storage, stored, written, raced, outlived>>
  BY DEF RedisRestarts, Clock, Expire, CloseWindow, Request, DeleteClient, PostClient,
     LeftoverInv, TablesInv, TypeInv, history, hybridVars, serviceVars, vars,
     Hybrid!RedisRestarts, Hybrid!Expire, Hybrid!DropSettings, Hybrid!LimiterAges,
     Hybrid!Allow, Hybrid!limiterVars
<1>2. \A h \in Handlers : written[h] => call'[h] = call[h]
  BY <1>1 DEF RedisRestarts, Clock, Expire, CloseWindow, Request, DeleteClient, PostClient,
     serviceVars, vars, Service!CreateOrUpdateClient, Service!RemoveClient, Service!Unlocked,
     TypeInv, Halfway
<1>3. ASSUME NEW c \in Clients, bucket[c] = None
      PROVE  bucket'[c] = None
  <2>1. CASE Clock
    BY <1>1, <1>3, <2>1 DEF Clock, Hybrid!LimiterAges, TypeOK, Hybrid!LimiterTypeOK
  <2>2. CASE RedisRestarts
    BY <1>3, <2>2 DEF RedisRestarts, Hybrid!RedisRestarts
  <2>3. CASE ~Clock /\ ~RedisRestarts
    <3>1. UNCHANGED bucket
      BY <2>3 DEF Expire, CloseWindow, Request, DeleteClient, PostClient, hybridVars, vars,
         Hybrid!Expire, Hybrid!DropSettings, Hybrid!Allow, Hybrid!limiterVars
    <3> QED
      BY <1>3, <3>1
  <2> QED
    BY <2>1, <2>2, <2>3
<1>4. \A q \in Askers : ask'[q].at \in {"fill", "eval"} =>
        ask'[q].at = ask[q].at /\ ask'[q].client = ask[q].client
  <2>1. CASE Clock
    BY <1>1, <2>1, ClockFrames
  <2>2. ASSUME NEW r \in Askers, NEW c \in Clients, Request(r, c)
        PROVE  \A q \in Askers : ask'[q].at \in {"fill", "eval"} => ask'[q] = ask[q]
    BY <1>1, <2>2 DEF Request, Hybrid!Allow, Postgres!Allow, Hybrid!Goto, Postgres!Goto, TypeOK
  <2>3. CASE UNCHANGED ask
    BY <2>3
  <2> QED
    BY <2>1, <2>2, <2>3 DEF RedisRestarts, Expire, CloseWindow, DeleteClient, PostClient, vars
<1>5. \A c \in Clients : Knowing(c) = {} => Knowing(c)' = {}
  BY <1>4 DEF Knowing
<1>6. \A c \in Clients : Between(c)' <=> Between(c)
  BY <1>1, <1>2 DEF Between
<1> QED
  BY <1>1, <1>2, <1>3, <1>5, <1>6 DEF LeftoverInv, Reached, BucketsUsed, Cleared

LEMMA LeftoverStep == LeftoverInv /\ [Next]_vars => LeftoverInv'
<1> SUFFICES ASSUME LeftoverInv, [Next]_vars PROVE LeftoverInv'
  OBVIOUS
<1>1. TablesInv'
  BY TablesStep DEF LeftoverInv
<1>2. Reached' /\ BucketsUsed' /\ \A c \in Clients : Cleared(c)'
  BY AskLeftover, WriteLeftover, DropLeftover, RestartLeftover, OthersLeftover
     DEF Next, HandlerStep
<1> QED
  BY <1>1, <1>2 DEF LeftoverInv

\* The hybrid limiter keeps no tokens of a client whose limits are gone, but
\* those that a request wrote which knew the limits and outlived their removal,
\* and those that a lost removal has left.
THEOREM LeftoverOnlyByRaceHolds == Spec => []LeftoverOnlyByRace
<1>1. LeftoverInv => LeftoverOnlyByRace
  BY DEF LeftoverInv, Cleared, LeftoverOnlyByRace, Between
<1>2. Spec => []LeftoverInv
  BY LeftoverInit, LeftoverStep, PTL DEF Spec
<1> QED
  BY <1>1, <1>2, PTL
=============================================================================
