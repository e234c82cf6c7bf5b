------------------------- MODULE StoredTokensProofs -------------------------
(***************************************************************************)
(* What the limiters that keep their state in a store grant and refuse,    *)
(* proved for any settings, delays and windows: no burst above the capacity*)
(* and the flow, no refusal when a token has flowed since the last grant.  *)
(***************************************************************************)
EXTENDS StoredLimitingProofs

USE TimeAssumption, StorageAssumption

-----------------------------------------------------------------------------
(* The invariant.                                                          *)

WindowType == [limit : Settings, granted : Nat, length : 0 .. MaxWindow, lag : 0 .. MaxLag]

\* A bucket of the age that holds some tokens, and the tokens granted in the
\* window, are together no more than the capacity and what has flowed from
\* the start of the window to the last refill.
Covered(unit, held, w, age) ==
    unit * (held + w.granted)
      <= unit * w.limit.capacity + w.limit.rate * ((w.length + w.lag) - age)

\* The last grant is not older than the last refill.
Recent(c, age) == since[c] # None /\ since[c] <= age

HybridTokens ==
    storage = "hybrid" => \A c \in Clients :
       /\ bucket[c] # None => Recent(c, bucket[c].age)
       /\ window[c].limit # None =>
             bucket[c] # None /\ Covered(1, bucket[c].tokens, window[c], bucket[c].age)

PostgresTokens ==
    storage # "hybrid" => \A c \in Clients :
       /\ row[c] # None =>
             /\ row[c].tokens <= row[c].limit.capacity
             /\ row[c].tokens >= 1 \/ Recent(c, row[c].age)
       /\ window[c].limit # None =>
             /\ row[c] # None /\ row[c].limit = window[c].limit
             /\ Covered(Second, row[c].tokens, window[c], row[c].age)

\* What a transaction is about to write, and the token it is about to grant.
PendingTokens ==
    \A r \in Askers : ask[r].at = "update" =>
       LET c == ask[r].client IN
       /\ ask[r].tokens + 1 <= row[c].limit.capacity
       /\ window[c].limit # None => Covered(Second, ask[r].tokens + 1, window[c], ask[r].lag)

TokensInv == TypeInv /\ HybridTokens /\ PostgresTokens /\ PendingTokens

-----------------------------------------------------------------------------
(* Arithmetic.                                                             *)

LEMMA WindowFields ==
    ASSUME NEW w \in WindowType
    PROVE  /\ w.granted \in Nat /\ w.length \in Nat /\ w.lag \in Nat
           /\ w.limit.capacity \in Nat /\ w.limit.rate \in Nat
BY SettingsFields DEF WindowType

LEMMA DivMonotone ==
    ASSUME NEW n \in Nat \ {0}, NEW a \in Nat, NEW b \in Nat, a <= b
    PROVE  a \div n <= b \div n
OBVIOUS

LEMMA CoveredGivesBound ==
    ASSUME NEW unit \in Nat, NEW held \in Nat, NEW w \in WindowType, NEW age \in Nat,
           Covered(unit, held, w, age)
    PROVE  unit * w.granted <= unit * w.limit.capacity + w.limit.rate * (w.length + w.lag)
<1> DEFINE t == w.length + w.lag
<1>1. /\ w.granted \in Nat /\ t \in Nat /\ w.limit.capacity \in Nat /\ w.limit.rate \in Nat
      /\ t - age \in Int /\ t - age <= t /\ held + w.granted \in Nat
      /\ w.granted <= held + w.granted
  BY WindowFields
<1>2. unit * w.granted <= unit * (held + w.granted)
  BY <1>1, ProductMonotone
<1>3. w.limit.rate * (t - age) <= w.limit.rate * t
  BY <1>1, ProductMonotone
<1>4. /\ unit * w.granted \in Int /\ unit * (held + w.granted) \in Int
      /\ unit * w.limit.capacity \in Int
      /\ w.limit.rate * (t - age) \in Int /\ w.limit.rate * t \in Int
  BY <1>1, ProductInInt
<1>5. unit * (held + w.granted) <= unit * w.limit.capacity + w.limit.rate * (t - age)
  BY DEF Covered
<1> HIDE DEF t
<1>6. unit * w.granted <= unit * w.limit.capacity + w.limit.rate * t
  BY <1>2, <1>3, <1>4, <1>5
<1> QED
  BY <1>6 DEF t

\* More time covers as much.
LEMMA CoveredAges ==
    ASSUME NEW unit \in Nat, NEW held \in Nat, NEW w \in WindowType, NEW age \in Nat,
           NEW older \in Nat, older <= age + 1, Covered(unit, held, w, age)
    PROVE  Covered(unit, held, [w EXCEPT !.length = @ + 1], older)
<1> DEFINE v == [w EXCEPT !.length = @ + 1]
<1>1. /\ v.granted = w.granted /\ v.limit = w.limit /\ v.lag = w.lag /\ v.length = w.length + 1
  BY DEF WindowType
<1>2. /\ (w.length + w.lag) - age <= (v.length + v.lag) - older
      /\ (w.length + w.lag) - age \in Int /\ (v.length + v.lag) - older \in Int
      /\ w.limit.rate \in Nat /\ w.limit.capacity \in Nat /\ held + w.granted \in Nat
  BY <1>1, WindowFields
<1> HIDE DEF v
<1>3. w.limit.rate * ((w.length + w.lag) - age) <= w.limit.rate * ((v.length + v.lag) - older)
  BY <1>2, ProductMonotone
<1>4. /\ unit * (held + w.granted) \in Int /\ unit * w.limit.capacity \in Int
      /\ w.limit.rate * ((w.length + w.lag) - age) \in Int
      /\ w.limit.rate * ((v.length + v.lag) - older) \in Int
  BY <1>2, ProductInInt
<1>5. Covered(unit, held, v, older)
  BY <1>1, <1>3, <1>4 DEF Covered
<1> QED
  BY <1>5 DEF v

\* What flows in between two refills covers as many tokens.
LEMMA CoveredRefills ==
    ASSUME NEW unit \in Nat, NEW held \in Nat, NEW w \in WindowType, NEW age \in Nat,
           NEW lag \in Nat, NEW more \in Int, Covered(unit, held, w, age),
           unit * more <= unit * held + w.limit.rate * (age - lag)
    PROVE  Covered(unit, more, w, lag)
<1> DEFINE t == w.length + w.lag
<1>1. /\ w.granted \in Nat /\ t \in Nat /\ w.limit.capacity \in Nat /\ w.limit.rate \in Nat
      /\ t - age \in Int /\ age - lag \in Int /\ (t - age) + (age - lag) = t - lag
  BY WindowFields
<1>2. /\ unit * (more + w.granted) = unit * more + unit * w.granted
      /\ unit * (held + w.granted) = unit * held + unit * w.granted
      /\ w.limit.rate * (t - lag) = w.limit.rate * (t - age) + w.limit.rate * (age - lag)
  BY <1>1, Distributes
<1>3. /\ unit * more \in Int /\ unit * held \in Int /\ unit * w.granted \in Int
      /\ unit * w.limit.capacity \in Int
      /\ w.limit.rate * (t - age) \in Int /\ w.limit.rate * (age - lag) \in Int
  BY <1>1, ProductInInt
<1>4. unit * (held + w.granted) <= unit * w.limit.capacity + w.limit.rate * (t - age)
  BY DEF Covered
<1> HIDE DEF t
<1>5. unit * (more + w.granted) <= unit * w.limit.capacity + w.limit.rate * (t - lag)
  BY <1>2, <1>3, <1>4
<1> QED
  BY <1>5 DEF Covered, t

\* A grant moves a token from the bucket to the window.
LEMMA CoveredGrants ==
    ASSUME NEW unit \in Nat, NEW held \in Int, NEW w \in WindowType, NEW age \in Nat,
           Covered(unit, held + 1, w, age)
    PROVE  Covered(unit, held, [w EXCEPT !.granted = w.granted + 1], age)
<1> DEFINE v == [w EXCEPT !.granted = w.granted + 1]
<1>1. v.limit = w.limit /\ v.lag = w.lag /\ v.length = w.length /\ v.granted = w.granted + 1
  BY DEF WindowType
<1>2. held + v.granted = held + 1 + w.granted
  BY <1>1, WindowFields
<1> HIDE DEF v
<1>3. Covered(unit, held, v, age)
  BY <1>1, <1>2 DEF Covered
<1> QED
  BY <1>3 DEF v

\* The first grant of a window.
LEMMA CoveredOpens ==
    ASSUME NEW unit \in Nat, NEW held \in Int, NEW s \in Settings, NEW lag \in Nat,
           held + 1 <= s.capacity
    PROVE  Covered(unit, held, [limit |-> s, granted |-> 1, length |-> 0, lag |-> lag], lag)
<1>1. s.capacity \in Nat /\ s.rate \in Nat /\ held + 1 \in Int
  BY SettingsFields
<1>2. unit * (held + 1) <= unit * s.capacity
  BY <1>1, ProductMonotone
<1>3. s.rate * ((0 + lag) - lag) = 0
  <2>1. (0 + lag) - lag = 0
    OBVIOUS
  <2>2. s.rate * 0 = 0
    BY <1>1
  <2> QED
    BY <2>1, <2>2
<1>4. unit * s.capacity \in Int
  BY <1>1, ProductInInt
<1> QED
  BY <1>2, <1>3, <1>4 DEF Covered

-----------------------------------------------------------------------------
(* The steps.                                                              *)

LEMMA TokensInit == Init => TokensInv
<1> SUFFICES ASSUME Init PROVE TokensInv
  OBVIOUS
<1>1. HybridTokens /\ PostgresTokens
  BY DEF Init, HybridTokens, PostgresTokens, NoWindow, Hybrid!LimiterInit, Postgres!LimiterInit
<1>2. PendingTokens
  BY DEF Init, PendingTokens, Hybrid!Ended
<1> QED
  BY <1>1, <1>2, TypeInit DEF TokensInv

\* An open window.
LEMMA OpenWindow ==
    ASSUME TypeOK, NEW c \in Clients, window[c].limit # None
    PROVE  window[c] \in WindowType
BY DEF TypeOK, WindowType

LEMMA Buckets ==
    ASSUME TypeOK, NEW c \in Clients, bucket[c] # None
    PROVE  bucket[c] \in [tokens : Nat, age : 0 .. MaxAge]
BY DEF TypeOK, Hybrid!LimiterTypeOK

LEMMA Rows ==
    ASSUME TypeOK, NEW c \in Clients, row[c] # None
    PROVE  row[c] \in [limit : Settings, tokens : Nat, age : 0 .. MaxAge]
BY DEF TypeOK, Postgres!LimiterTypeOK

\* A step that grants nothing and starts no time anew.
LEMMA TokensKept ==
    ASSUME TokensInv, UNCHANGED <<storage, bucket, row, since>>,
           \A c \in Clients : window'[c] = window[c] \/ window'[c].limit = None,
           \A r \in Askers : ask'[r].at = "update" =>
              ask'[r] = ask[r] /\ ask[r].client \in Clients
    PROVE  HybridTokens' /\ PostgresTokens' /\ PendingTokens'
<1>1. HybridTokens'
  BY DEF TokensInv, HybridTokens, Recent
<1>2. PostgresTokens'
  BY DEF TokensInv, PostgresTokens, Recent
<1>3. PendingTokens'
  BY DEF TokensInv, PendingTokens
<1> QED
  BY <1>1, <1>2, <1>3

LEMMA AskTokens ==
    ASSUME TokensInv, NEW r \in Askers, HybridAsk(r) \/ PostgresAsk(r)
    PROVE  HybridTokens' /\ PostgresTokens' /\ PendingTokens'
<1>1. /\ TypeInv /\ TypeOK /\ UNCHANGED <<storage, window, since>>
  BY DEF TokensInv, TypeInv, HybridAsk, PostgresAsk, history
<1>2. UNCHANGED <<bucket, row>>
  BY DEF HybridAsk, PostgresAsk, hybridVars, postgresVars, Hybrid!GetCached,
     Hybrid!QuerySettings, Hybrid!FillCache, Hybrid!EvalRefuses, Hybrid!EvalFails,
     Hybrid!limiterVars, Postgres!BeginTx, Postgres!SelectForUpdate, Postgres!SelectRefuses,
     Postgres!SelectPasses, Postgres!CommitFails, Postgres!limiterVars
<1>3. \A q \in Askers : ask[q].at = "update" => ask[q].client \in Clients
  BY <1>1, HybridFrames, PostgresFrames
<1>4. CASE HybridAsk(r)
  <2>1. TypeOK'
    BY <1>1, <1>4, HybridAskTypes DEF TypeInv
  <2>2. \A q \in Askers : ask'[q].at # "update"
    BY <2>1, <1>1, <1>4 DEF HybridAsk, TypeOK, Hybrid!Asks
  <2> QED
    BY <1>1, <1>2, <2>2, TokensKept
<1>5. CASE PostgresAsk(r) /\ ~Postgres!SelectForUpdate(r)
  <2>1. storage # "hybrid" /\ ask[r] \in Postgres!Asks
    BY <1>1, <1>5, PostgresFrames DEF PostgresAsk
  <2>2. \A q \in Askers : ask'[q].at = "update" => ask'[q] = ask[q]
    <3>1. CASE Postgres!BeginTx(r)
      <4>1. [ask[r] EXCEPT !.at = "select"].at = "select"
        BY <2>1, <3>1 DEF Postgres!BeginTx, Postgres!Asks
      <4> DEFINE next == [ask[r] EXCEPT !.at = "select"]
                 last == [at |-> "idle", verdict |-> "passed"]
      <4>2. ask' = [ask EXCEPT ![r] = next] \/ ask' = [ask EXCEPT ![r] = last]
        BY <3>1 DEF Postgres!BeginTx, Postgres!Finish, Postgres!Goto, Postgres!Ended
      <4>3. next.at = "select" /\ last.at = "idle"
        BY <4>1
      <4> HIDE DEF next, last
      <4> QED
        BY <1>1, <4>2, <4>3 DEF TypeOK
    <3>2. CASE Postgres!SelectRefuses(r) \/ Postgres!SelectPasses(r) \/ Postgres!CommitFails(r)
      BY <1>1, <3>2 DEF Postgres!SelectRefuses, Postgres!SelectPasses, Postgres!CommitFails,
         Postgres!Finish, Postgres!Goto, Postgres!Ended, TypeOK
    <3> QED
      BY <1>5, <3>1, <3>2 DEF PostgresAsk
  <2> QED
    BY <1>1, <1>2, <1>3, <2>2, TokensKept
<1>6. CASE PostgresAsk(r) /\ Postgres!SelectForUpdate(r)
  <2> DEFINE c == ask[r].client
             more == Postgres!NewTokens(c)
             flow == row[c].age * row[c].limit.rate
             whole == flow \div Second
  <2>1. storage # "hybrid" /\ c \in Clients /\ row[c] # None
    BY <1>1, <1>6, PostgresFrames DEF PostgresAsk, Postgres!SelectForUpdate
  <2>2. /\ row[c].limit \in Settings /\ row[c].tokens \in Nat /\ row[c].age \in 0 .. MaxAge
        /\ more \in Int /\ flow \in Nat /\ whole \in Nat /\ Second \in Nat
    BY <1>1, <2>1, NewTokensInInt
  <2>3. more <= row[c].limit.capacity /\ more <= row[c].tokens + whole
    BY <1>1, <2>1, NewTokensInInt
  <2>4. ask' = [ask EXCEPT ![r] = [at |-> "update", client |-> c, tokens |-> more - 1, lag |-> 0]]
    BY <1>6 DEF Postgres!SelectForUpdate, Postgres!Goto
  <2> HIDE DEF more
  <2>5. ASSUME window[c].limit # None
        PROVE  Covered(Second, more, window[c], 0)
    <3>1. /\ window[c] \in WindowType /\ row[c].limit = window[c].limit
          /\ Covered(Second, row[c].tokens, window[c], row[c].age)
      BY <1>1, <2>1, <2>5, OpenWindow DEF TokensInv, PostgresTokens
    <3>2. flow = window[c].limit.rate * (row[c].age - 0)
      <4>1. window[c].limit.rate \in Nat /\ row[c].age \in Nat
        BY <2>2, <3>1, WindowFields
      <4> QED
        BY <3>1, <4>1, ProductInInt
    <3> HIDE DEF flow
    <3>3. Second * whole <= flow
      BY <2>2, DivBound
    <3> HIDE DEF whole
    <3>4. Second * more <= Second * (row[c].tokens + whole)
      BY <2>2, <2>3, ProductMonotone
    <3>5. Second * (row[c].tokens + whole) = Second * row[c].tokens + Second * whole
      BY <2>2, Distributes
    <3>6. /\ Second * more \in Int /\ Second * row[c].tokens \in Int
          /\ Second * whole \in Int
      BY <2>2, ProductInInt
    <3>7. Second * more <= Second * row[c].tokens + flow
      BY <2>2, <3>3, <3>4, <3>5, <3>6
    <3>8. Second * more <= Second * row[c].tokens + window[c].limit.rate * (row[c].age - 0)
      BY <3>2, <3>7
    <3>9. row[c].age \in Nat /\ 0 \in Nat /\ more \in Int /\ row[c].tokens \in Nat /\ Second \in Nat
      BY <2>2
    <3> HIDE DEF c
    <3> QED
      BY <3>1, <3>8, <3>9, CoveredRefills, Zenon
  <2>6. PendingTokens'
    <3>1. ask'[r] = [at |-> "update", client |-> c, tokens |-> more - 1, lag |-> 0]
          /\ \A q \in Askers \ {r} : ask'[q] = ask[q]
      BY <1>1, <2>4 DEF TypeOK
    <3>2. more - 1 + 1 = more
      BY <2>2
    <3> QED
      BY <1>1, <1>2, <2>3, <2>5, <3>1, <3>2 DEF TokensInv, PendingTokens
  <2>7. PostgresTokens' /\ HybridTokens'
    BY <1>1, <1>2, <2>1 DEF TokensInv, PostgresTokens, HybridTokens, Recent
  <2> QED
    BY <2>6, <2>7
<1> QED
  BY <1>4, <1>5, <1>6

\* The window after a grant.
LEMMA CountedCovers ==
    ASSUME TypeOK, NEW c \in Clients, NEW s \in Settings, NEW lag \in 0 .. MaxLag,
           Counted(c, s, lag), NEW unit \in Nat, NEW held \in Int, held + 1 <= s.capacity,
           window[c].limit = s => Covered(unit, held + 1, window[c], lag)
    PROVE  /\ Covered(unit, held, window'[c], lag) /\ window'[c].limit = s
           /\ \A d \in Clients \ {c} : window'[d] = window[d] /\ since'[d] = since[d]
           /\ since'[c] = 0
<1>1. /\ \A d \in Clients \ {c} : window'[d] = window[d] /\ since'[d] = since[d]
      /\ since'[c] = 0
      /\ window'[c] = IF window[c].limit = s THEN [window[c] EXCEPT !.granted = window[c].granted + 1]
                      ELSE [limit |-> s, granted |-> 1, length |-> 0, lag |-> lag]
  BY DEF Counted, TypeOK
<1>2. CASE window[c].limit = s
  <2>1. window[c] \in WindowType
    BY <1>2, OpenWindow, NoneIsNothing
  <2>2. Covered(unit, held, [window[c] EXCEPT !.granted = window[c].granted + 1], lag)
    BY <1>2, <2>1, CoveredGrants
  <2>3. [window[c] EXCEPT !.granted = window[c].granted + 1].limit = window[c].limit
    BY <2>1 DEF WindowType
  <2> QED
    BY <1>1, <1>2, <2>2, <2>3
<1>3. CASE window[c].limit # s
  BY <1>1, <1>3, CoveredOpens
<1> QED
  BY <1>2, <1>3

LEMMA HybridGrantTokens ==
    ASSUME TokensInv, NEW r \in Askers, HybridGrant(r)
    PROVE  HybridTokens' /\ PostgresTokens' /\ PendingTokens'
<1>1. storage = "hybrid" /\ storage' = storage /\ TypeInv /\ TypeOK /\ TypeOK'
  BY HybridGrantTypes DEF HybridGrant, TokensInv, TypeInv
<1>2. PICK lag \in 0 .. MaxLag :
         Hybrid!EvalGrants(r, lag) /\ Counted(ask[r].client, ask[r].limit, lag)
  BY DEF HybridGrant
<1> DEFINE c == ask[r].client
           s == ask[r].limit
           tokens == Hybrid!Refilled(c, s, lag)
           held == tokens - 1
<1>3. c \in Clients /\ s \in Settings /\ tokens \in Int /\ held \in Nat /\ held + 1 = tokens
  BY <1>1, <1>2, HybridFrames, RefilledInInt DEF Hybrid!EvalGrants
<1>4. s.capacity \in Nat /\ s.rate \in Nat
  BY <1>3, SettingsFields
<1>5. tokens <= s.capacity
  <2>1. CASE bucket[c] = None
    BY <1>4, <2>1 DEF Hybrid!Refilled
  <2>2. CASE bucket[c] # None
    <3>1. bucket[c].tokens + (bucket[c].age - lag) * s.rate \in Int
      <4>1. bucket[c].tokens \in Nat /\ bucket[c].age - lag \in Int
        BY <1>1, <1>3, <2>2, Buckets
      <4> QED
        BY <1>4, <4>1, ProductInInt
    <3> QED
      BY <1>4, <2>2, <3>1 DEF Hybrid!Refilled, Hybrid!Least
  <2> QED
    BY <2>1, <2>2
<1>6. ASSUME window[c].limit = s
      PROVE  Covered(1, tokens, window[c], lag)
  <2>1. /\ window[c] \in WindowType /\ bucket[c] # None
        /\ Covered(1, bucket[c].tokens, window[c], bucket[c].age)
    BY <1>1, <1>3, <1>6, OpenWindow, NoneIsNothing DEF TokensInv, HybridTokens
  <2>2. bucket[c].tokens \in Nat /\ bucket[c].age \in Nat /\ bucket[c].age - lag \in Int
    BY <1>1, <1>3, <2>1, Buckets
  <2>3. s.rate * (bucket[c].age - lag) = (bucket[c].age - lag) * s.rate
        /\ s.rate * (bucket[c].age - lag) \in Int
    BY <1>4, <2>2, ProductInInt
  <2>4. tokens <= bucket[c].tokens + s.rate * (bucket[c].age - lag)
    BY <1>4, <2>1, <2>2, <2>3 DEF Hybrid!Refilled, Hybrid!Least
  <2> HIDE DEF tokens, s
  <2>5. 1 * tokens = tokens /\ 1 * bucket[c].tokens = bucket[c].tokens
    BY <1>3, <2>2
  <2>6. 1 * tokens <= 1 * bucket[c].tokens + window[c].limit.rate * (bucket[c].age - lag)
    BY <1>6, <2>4, <2>5
  <2>7. 1 \in Nat /\ lag \in Nat
    OBVIOUS
  <2>8. tokens \in Int
    BY <1>3
  <2> HIDE DEF c
  <2> QED
    BY <2>1, <2>2, <2>6, <2>7, <2>8, CoveredRefills, Zenon
<1>7. bucket' = [bucket EXCEPT ![c] = [tokens |-> held, age |-> lag]]
  BY <1>2 DEF Hybrid!EvalGrants
<1> HIDE DEF c, s, tokens, held
<1>8. /\ Covered(1, held, window'[c], lag)
      /\ \A d \in Clients \ {c} : window'[d] = window[d] /\ since'[d] = since[d]
      /\ since'[c] = 0
  BY <1>1, <1>2, <1>3, <1>5, <1>6, CountedCovers DEF c, s
<1>9. /\ bucket'[c] = [tokens |-> held, age |-> lag]
      /\ \A d \in Clients \ {c} : bucket'[d] = bucket[d]
      /\ bucket'[c] # None
  <2>1. [tokens |-> held, age |-> lag] \in [tokens : Nat, age : 0 .. MaxAge]
    BY <1>3
  <2> QED
    BY <1>1, <1>3, <1>7, <2>1, NoneIsNothing DEF TypeOK, Hybrid!LimiterTypeOK
<1>10. since'[c] # None /\ since'[c] <= lag
  BY <1>8, NoneIsNothing
<1>11. HybridTokens'
  BY <1>1, <1>8, <1>9, <1>10 DEF TokensInv, HybridTokens, Recent
<1>12. PostgresTokens' /\ PendingTokens'
  BY <1>1 DEF PostgresTokens, PendingTokens, TypeOK, Hybrid!Asks
<1> QED
  BY <1>11, <1>12

LEMMA PostgresGrantTokens ==
    ASSUME TokensInv, NEW r \in Askers, PostgresGrant(r)
    PROVE  HybridTokens' /\ PostgresTokens' /\ PendingTokens'
<1> DEFINE c == ask[r].client
           held == ask[r].tokens
           lag == ask[r].lag
           s == row[c].limit
<1>1. /\ storage # "hybrid" /\ storage' = storage /\ TypeInv /\ TypeOK /\ ask[r].at = "update"
      /\ Counted(c, s, lag)
  BY DEF PostgresGrant, Postgres!Commit, TokensInv, TypeInv
<1>2. c \in Clients /\ held \in Nat /\ lag \in 0 .. MaxLag /\ row[c] # None /\ lock[c] = r
  BY <1>1, PostgresFrames DEF TypeInv, Locking
<1>3. row[c] \in [limit : Settings, tokens : Nat, age : 0 .. MaxAge] /\ s \in Settings
  BY <1>1, <1>2, Rows
<1>4. held + 1 <= s.capacity
      /\ (window[c].limit = s => Covered(Second, held + 1, window[c], lag))
  BY <1>1, <1>3, NoneIsNothing DEF TokensInv, PendingTokens
<1> DEFINE new == [row[c] EXCEPT !.tokens = held, !.age = lag]
<1>5. row' = [row EXCEPT ![c] = new]
  BY DEF PostgresGrant, Postgres!Commit
<1>6. new \in [limit : Settings, tokens : Nat, age : 0 .. MaxAge]
      /\ new.limit = s /\ new.tokens = held /\ new.age = lag
  <2>1. lag \in 0 .. MaxAge
    BY <1>2
  <2> QED
    BY <1>2, <1>3, <2>1
<1>7. /\ row'[c] = new /\ new # None
      /\ \A d \in Clients \ {c} : row'[d] = row[d]
  BY <1>1, <1>2, <1>5, <1>6, NoneIsNothing DEF TypeOK, Postgres!LimiterTypeOK
<1> HIDE DEF new
<1>8. /\ ask'[r].at = "idle" /\ \A q \in Askers \ {r} : ask'[q] = ask[q]
  BY <1>1 DEF PostgresGrant, Postgres!Commit, Postgres!Finish, Postgres!Goto, Postgres!Ended, TypeOK
<1>9. \A q \in Askers \ {r} : ask[q].at = "update" =>
        ask[q].client \in Clients \ {c}
  BY <1>1, <1>2, PostgresFrames DEF TypeInv, Locking
<1>10. /\ Second \in Nat /\ held \in Int
       /\ held <= s.capacity
  BY <1>2, <1>3, <1>4, SettingsFields
<1> HIDE DEF c, held, lag, s
<1>11. /\ Covered(Second, held, window'[c], lag) /\ window'[c].limit = s
       /\ \A d \in Clients \ {c} : window'[d] = window[d] /\ since'[d] = since[d]
       /\ since'[c] = 0
  BY <1>1, <1>2, <1>3, <1>4, <1>10, CountedCovers
<1>12. since'[c] # None /\ since'[c] <= lag
  BY <1>2, <1>11, NoneIsNothing
<1>13. PostgresTokens'
  BY <1>1, <1>6, <1>7, <1>10, <1>11, <1>12 DEF TokensInv, PostgresTokens, Recent
<1>14. PendingTokens'
  BY <1>7, <1>8, <1>9, <1>11 DEF TokensInv, PendingTokens
<1> QED
  BY <1>1, <1>13, <1>14 DEF HybridTokens

LEMMA HandlerTokens ==
    ASSUME TokensInv, NEW h \in Handlers, HandlerStep(h)
    PROVE  HybridTokens' /\ PostgresTokens' /\ PendingTokens'
<1> DEFINE c == call[h].client
<1>1. /\ TypeInv /\ TypeOK /\ call[h] # Service!NoChange
      /\ UNCHANGED <<storage, ask, since>>
  BY DEF TokensInv, TypeInv, HandlerStep, Write, WriteFails, Drop, DropFails, Halfway
<1>2. /\ c \in Clients /\ call[h].op \in {"set", "remove"}
      /\ call[h].op = "set" => call[h].settings \in Settings
  BY <1>1, Changes
<1>3. \A r \in Askers : ask[r].at = "update" => ask[r].client \in Clients
  BY <1>1, HybridFrames, PostgresFrames
<1>4. window' \in {window, [window EXCEPT ![c] = NoWindow]}
  BY DEF HandlerStep, Write, WriteFails, Drop, DropFails, WindowsAfterChange
<1>5. /\ \A d \in Clients \ {c} : window'[d] = window[d]
      /\ window'[c] = window[c] \/ window'[c] = NoWindow
  BY <1>1, <1>2, <1>4 DEF TypeOK
<1>6. NoWindow.limit = None
  BY DEF NoWindow
<1>7. CASE UNCHANGED <<bucket, row>>
  BY <1>1, <1>3, <1>5, <1>6, <1>7, TokensKept
<1>8. CASE Drop(h) /\ Hybrid!DropKeys(c) /\ window' = [window EXCEPT ![c] = NoWindow]
  <2>1. /\ UNCHANGED row /\ bucket'[c] = None /\ window'[c] = NoWindow
        /\ \A d \in Clients \ {c} : bucket'[d] = bucket[d]
    BY <1>1, <1>2, <1>8 DEF Drop, postgresVars, Hybrid!DropKeys, TypeOK, Hybrid!LimiterTypeOK
  <2>2. HybridTokens'
    BY <1>1, <1>5, <1>6, <2>1 DEF TokensInv, HybridTokens, Recent
  <2>3. PostgresTokens' /\ PendingTokens'
    BY <1>1, <1>3, <1>5, <1>6, <2>1 DEF TokensInv, PostgresTokens, PendingTokens, Recent
  <2> QED
    BY <2>2, <2>3
<1>9. CASE storage # "hybrid" /\ window'[c] = NoWindow /\ Postgres!DeleteRow(c)
  <2>1. /\ lock[c] = None /\ row'[c] = None /\ \A d \in Clients \ {c} : row'[d] = row[d]
    BY <1>1, <1>2, <1>9 DEF Postgres!DeleteRow, TypeOK, Postgres!LimiterTypeOK
  <2>2. PostgresTokens'
    BY <1>1, <1>5, <1>6, <1>9, <2>1 DEF TokensInv, PostgresTokens, Recent
  <2>3. \A r \in Askers : ask[r].at = "update" => ask[r].client # c
    BY <1>1, <1>9, <2>1, NoneIsNothing DEF TypeInv, Locking
  <2>4. PendingTokens'
    BY <1>1, <1>3, <1>5, <2>1, <2>3 DEF TokensInv, PendingTokens
  <2> QED
    BY <1>1, <1>9, <2>2, <2>4 DEF HybridTokens
<1>10. ASSUME storage # "hybrid", window'[c] = NoWindow, call[h].op = "set",
              NEW lag \in 0 .. MaxLag, Postgres!Upsert(c, call[h].settings, lag)
       PROVE  HybridTokens' /\ PostgresTokens' /\ PendingTokens'
  <2> DEFINE s == call[h].settings
             new == [limit |-> s, tokens |-> s.capacity, age |-> lag]
  <2>1. /\ new \in [limit : Settings, tokens : Nat, age : 0 .. MaxAge]
        /\ new.tokens >= 1 /\ new.tokens <= new.limit.capacity
    BY <1>2, <1>10, SettingsFields
  <2>2. row' = [row EXCEPT ![c] = new] /\ lock[c] = None
    BY <1>10 DEF Postgres!Upsert
  <2> HIDE DEF new
  <2>3. row'[c] = new /\ \A d \in Clients \ {c} : row'[d] = row[d]
    BY <1>1, <1>2, <2>2 DEF TypeOK, Postgres!LimiterTypeOK
  <2>4. PostgresTokens'
    BY <1>1, <1>5, <1>6, <1>10, <2>1, <2>3 DEF TokensInv, PostgresTokens, Recent
  <2>5. \A r \in Askers : ask[r].at = "update" => ask[r].client # c
    BY <1>1, <1>10, <2>2, NoneIsNothing DEF TypeInv, Locking
  <2>6. PendingTokens'
    BY <1>1, <1>3, <1>5, <2>3, <2>5 DEF TokensInv, PendingTokens
  <2> QED
    BY <1>1, <1>10, <2>4, <2>6 DEF HybridTokens
<1>11. CASE Applied(h) /\ window' = WindowsAfterChange(c)
  <2>1. CASE storage = "hybrid"
    BY <1>7, <1>11, <2>1 DEF Applied, Hybrid!Upsert, Hybrid!DeleteRow, postgresVars
  <2>2. CASE storage # "hybrid"
    <3>1. window'[c] = NoWindow
      BY <1>1, <1>2, <1>11, <2>2 DEF Applied, WindowsAfterChange, TypeOK
    <3> QED
      BY <1>9, <1>10, <1>11, <2>2, <3>1 DEF Applied
  <2> QED
    BY <2>1, <2>2
<1>12. CASE Write(h)
  BY <1>11, <1>12 DEF Write
<1>13. CASE WriteFails(h)
  BY <1>7, <1>11, <1>13 DEF WriteFails, hybridVars, postgresVars
<1>14. CASE Drop(h)
  BY <1>7, <1>8, <1>14 DEF Drop, Hybrid!DropSettings, postgresVars
<1>15. CASE DropFails(h)
  BY <1>7, <1>15 DEF DropFails, hybridVars, postgresVars
<1> QED
  BY <1>12, <1>13, <1>14, <1>15 DEF HandlerStep

\* The steps that touch neither tokens nor ages.
LEMMA QuietTokens ==
    ASSUME TokensInv,
           \/ Restart
           \/ \E c \in Clients : Expire(c) \/ CloseWindow(c) \/ \E r \in Askers : Request(r, c)
           \/ \E h \in Handlers, c \in Clients :
                DeleteClient(h, c) \/ \E s \in Requested : PostClient(h, c, s)
    PROVE  HybridTokens' /\ PostgresTokens' /\ PendingTokens'
<1>1. /\ TypeInv /\ TypeOK /\ UNCHANGED <<storage, bucket, row, since>>
  BY DEF TokensInv, TypeInv, Restart, Expire, CloseWindow, Request, DeleteClient, PostClient,
     hybridVars, postgresVars, history, Hybrid!Expire, Hybrid!DropSettings, Hybrid!Allow,
     Hybrid!limiterVars, Postgres!Allow, Postgres!limiterVars, Postgres!ConnectionsLost
<1>2. \A r \in Askers : ask[r].at = "update" => ask[r].client \in Clients
  BY <1>1, HybridFrames, PostgresFrames
<1>3. \A c \in Clients : window'[c] = window[c] \/ window'[c].limit = None
  <2>1. ASSUME NEW c \in Clients, CloseWindow(c)
        PROVE  \A d \in Clients : window'[d] = window[d] \/ window'[d].limit = None
    BY <1>1, <2>1 DEF CloseWindow, NoWindow, TypeOK
  <2> QED
    BY <2>1 DEF Restart, Expire, Request, DeleteClient, PostClient, history
<1>4. \A q \in Askers : ask'[q].at = "update" => ask'[q] = ask[q]
  <2>1. ASSUME NEW r \in Askers, NEW c \in Clients, Request(r, c)
        PROVE  \A q \in Askers : ask'[q].at = "update" => ask'[q] = ask[q]
    BY <1>1, <2>1 DEF Request, Hybrid!Allow, Postgres!Allow, Hybrid!Goto, Postgres!Goto, TypeOK
  <2>2. CASE Restart
    BY <2>2 DEF Restart, Hybrid!Ended
  <2> QED
    BY <2>1, <2>2 DEF Expire, CloseWindow, DeleteClient, PostClient
<1> QED
  BY <1>1, <1>2, <1>3, <1>4, TokensKept

LEMMA RedisRestartsTokens ==
    ASSUME TokensInv, RedisRestarts
    PROVE  HybridTokens' /\ PostgresTokens' /\ PendingTokens'
<1>1. /\ storage = "hybrid" /\ storage' = storage /\ TypeOK /\ ask' = ask
      /\ \A c \in Clients : bucket'[c] = None /\ window'[c].limit = None
  BY DEF TokensInv, TypeInv, RedisRestarts, Hybrid!RedisRestarts, NoWindow
<1>2. \A r \in Askers : ask[r].at # "update"
  BY <1>1, HybridFrames
<1> QED
  BY <1>1, <1>2 DEF HybridTokens, PostgresTokens, PendingTokens

\* Ages that are capped keep their order.
LEMMA RecentAges ==
    ASSUME TypeOK, Clock, NEW c \in Clients, NEW age \in 0 .. MaxAge, Recent(c, age)
    PROVE  since'[c] # None /\ since'[c] <= Hybrid!Older(age)
<1>1. since[c] \in 0 .. MaxAge /\ since'[c] = Hybrid!Older(since[c])
  BY DEF TypeOK, Clock, Recent
<1>2. Hybrid!Older(since[c]) \in Nat /\ Hybrid!Older(since[c]) <= Hybrid!Older(age)
  BY <1>1 DEF Recent, Hybrid!Older, Hybrid!Least
<1> QED
  BY <1>1, <1>2, NoneIsNothing

\* A window that stays open is a unit longer.
LEMMA WindowAges ==
    ASSUME TypeOK, Clock, NEW c \in Clients, window'[c].limit # None
    PROVE  /\ window[c].limit # None /\ window[c] \in WindowType
           /\ window'[c] = [window[c] EXCEPT !.length = @ + 1]
           /\ window'[c].limit = window[c].limit
<1>1. /\ window[c].limit # None
      /\ window'[c] = [window[c] EXCEPT !.length = @ + 1]
  BY DEF Clock, NoWindow
<1>2. window[c] \in WindowType
  BY <1>1, OpenWindow
<1>3. [window[c] EXCEPT !.length = @ + 1].limit = window[c].limit
  BY <1>2 DEF WindowType
<1> QED
  BY <1>1, <1>2, <1>3

LEMMA ClockTokens ==
    ASSUME TokensInv, Clock
    PROVE  HybridTokens' /\ PostgresTokens' /\ PendingTokens'
<1>1. TypeInv /\ TypeOK /\ storage' = storage
  BY DEF TokensInv, TypeInv, Clock
<1>2. HybridTokens'
  <2> SUFFICES ASSUME storage = "hybrid", NEW c \in Clients
               PROVE  /\ bucket'[c] # None =>
                            since'[c] # None /\ since'[c] <= bucket'[c].age
                      /\ window'[c].limit # None =>
                            /\ bucket'[c] # None
                            /\ Covered(1, bucket'[c].tokens, window'[c], bucket'[c].age)
    BY <1>1 DEF HybridTokens, Recent
  <2>1. CASE bucket[c] = None
    <3>1. bucket'[c] = None /\ window[c].limit = None
      BY <1>1, <2>1 DEF Clock, Hybrid!LimiterAges, TokensInv, HybridTokens
    <3> QED
      BY <1>1, <3>1, WindowAges
  <2>2. CASE bucket[c] # None
    <3> DEFINE age == bucket[c].age
               held == bucket[c].tokens
               older == Hybrid!Older(age)
    <3>1. held \in Nat /\ age \in 0 .. MaxAge /\ age \in Nat
      BY <1>1, <2>2, Buckets
    <3>2. older \in 0 .. MaxAge /\ older <= age + 1 /\ older \in Nat
      BY <3>1, OlderAge
    <3>3. bucket'[c] = [bucket[c] EXCEPT !.age = older]
      BY <2>2 DEF Clock, Hybrid!LimiterAges
    <3>4. bucket'[c] \in [tokens : Nat, age : 0 .. MaxAge]
          /\ bucket'[c].tokens = held /\ bucket'[c].age = older
      BY <1>1, <2>2, <3>2, <3>3, Buckets
    <3>5. Recent(c, age) /\ (window[c].limit # None => Covered(1, held, window[c], age))
      BY <2>2 DEF TokensInv, HybridTokens
    <3> HIDE DEF age, held, older
    <3>6. since'[c] # None /\ since'[c] <= older
      BY <1>1, <3>1, <3>5, RecentAges DEF older
    <3>7. ASSUME window'[c].limit # None
          PROVE  Covered(1, held, window'[c], older)
      <4>1. /\ window[c] \in WindowType /\ Covered(1, held, window[c], age)
            /\ window'[c] = [window[c] EXCEPT !.length = @ + 1]
        BY <1>1, <3>5, <3>7, WindowAges
      <4>2. 1 \in Nat
        OBVIOUS
      <4>3. Covered(1, held, [window[c] EXCEPT !.length = @ + 1], older)
        BY <3>1, <3>2, <4>1, <4>2, CoveredAges, Zenon
      <4> QED
        BY <4>1, <4>3
    <3> QED
      BY <3>4, <3>6, <3>7, NoneIsNothing
  <2> QED
    BY <2>1, <2>2
<1>3. PostgresTokens'
  <2> SUFFICES ASSUME storage # "hybrid", NEW c \in Clients
               PROVE  /\ row'[c] # None =>
                            /\ row'[c].tokens <= row'[c].limit.capacity
                            /\ \/ row'[c].tokens >= 1
                               \/ since'[c] # None /\ since'[c] <= row'[c].age
                      /\ window'[c].limit # None =>
                            /\ row'[c] # None /\ row'[c].limit = window'[c].limit
                            /\ Covered(Second, row'[c].tokens, window'[c], row'[c].age)
    BY <1>1 DEF PostgresTokens, Recent
  <2>1. CASE row[c] = None
    <3>1. row'[c] = None /\ window[c].limit = None
      BY <1>1, <2>1 DEF Clock, Postgres!LimiterAges, TokensInv, PostgresTokens
    <3> QED
      BY <1>1, <3>1, WindowAges
  <2>2. CASE row[c] # None
    <3> DEFINE age == row[c].age
               held == row[c].tokens
               older == Hybrid!Older(age)
    <3>1. held \in Nat /\ age \in 0 .. MaxAge /\ age \in Nat
      BY <1>1, <2>2, Rows
    <3>2. older \in 0 .. MaxAge /\ older <= age + 1 /\ older \in Nat
          /\ older = Postgres!Older(age)
      BY <3>1, OlderAge
    <3>3. row'[c] = [row[c] EXCEPT !.age = Postgres!Older(age)]
      BY <2>2 DEF Clock, Postgres!LimiterAges
    <3>4. row'[c] \in [limit : Settings, tokens : Nat, age : 0 .. MaxAge]
          /\ row'[c].tokens = held /\ row'[c].age = older /\ row'[c].limit = row[c].limit
      BY <1>1, <2>2, <3>2, <3>3, Rows
    <3>5. /\ held <= row[c].limit.capacity
          /\ held >= 1 \/ Recent(c, age)
          /\ window[c].limit # None =>
               row[c].limit = window[c].limit /\ Covered(Second, held, window[c], age)
      BY <2>2 DEF TokensInv, PostgresTokens
    <3> HIDE DEF age, held, older
    <3>6. held >= 1 \/ (since'[c] # None /\ since'[c] <= older)
      BY <1>1, <3>1, <3>5, RecentAges DEF older
    <3>7. ASSUME window'[c].limit # None
          PROVE  Covered(Second, held, window'[c], older) /\ row[c].limit = window'[c].limit
      <4>1. /\ window[c] \in WindowType /\ Covered(Second, held, window[c], age)
            /\ window'[c] = [window[c] EXCEPT !.length = @ + 1]
            /\ row[c].limit = window'[c].limit
        BY <1>1, <3>5, <3>7, WindowAges
      <4>2. Second \in Nat
        OBVIOUS
      <4>3. Covered(Second, held, [window[c] EXCEPT !.length = @ + 1], older)
        BY <3>1, <3>2, <4>1, <4>2, CoveredAges, Zenon
      <4> QED
        BY <4>1, <4>3
    <3> QED
      BY <3>4, <3>5, <3>6, <3>7, NoneIsNothing
  <2> QED
    BY <2>1, <2>2
<1>4. PendingTokens'
  <2> SUFFICES ASSUME NEW r \in Askers, ask'[r].at = "update"
               PROVE  /\ ask'[r].tokens + 1 <= row'[ask'[r].client].limit.capacity
                      /\ window'[ask'[r].client].limit # None =>
                           Covered(Second, ask'[r].tokens + 1, window'[ask'[r].client], ask'[r].lag)
    BY DEF PendingTokens
  <2> DEFINE c == ask[r].client
             held == ask[r].tokens
             lag == ask[r].lag
  <2>1. ask[r].at = "update" /\ ask'[r].client = c /\ ask'[r] = [ask[r] EXCEPT !.lag = @ + 1]
    BY <1>1, ClockFrames
  <2>2. /\ storage # "hybrid" /\ c \in Clients /\ held \in Nat /\ lag \in 0 .. MaxLag
        /\ ask[r] \in Postgres!Asks /\ row[c] # None
    BY <1>1, <2>1, HybridFrames, PostgresFrames DEF TypeInv, Locking
  <2>3. ask'[r].tokens = held /\ ask'[r].lag = lag + 1
    BY <2>1, <2>2 DEF Postgres!Asks
  <2>4. row'[c].limit = row[c].limit
    <3>1. row'[c] = [row[c] EXCEPT !.age = Postgres!Older(@)]
      BY <2>2 DEF Clock, Postgres!LimiterAges
    <3> QED
      BY <1>1, <2>2, <3>1, Rows
  <2>5. /\ held + 1 <= row[c].limit.capacity
        /\ window[c].limit # None => Covered(Second, held + 1, window[c], lag)
    BY <2>1 DEF TokensInv, PendingTokens
  <2> HIDE DEF c, held, lag
  <2>6. ASSUME window'[c].limit # None
        PROVE  Covered(Second, held + 1, window'[c], lag + 1)
    <3>1. /\ window[c] \in WindowType /\ Covered(Second, held + 1, window[c], lag)
          /\ window'[c] = [window[c] EXCEPT !.length = @ + 1]
      BY <1>1, <2>2, <2>5, <2>6, WindowAges
    <3>2. Second \in Nat /\ held + 1 \in Nat /\ lag \in Nat /\ lag + 1 \in Nat /\ lag + 1 <= lag + 1
      BY <2>2
    <3>3. Covered(Second, held + 1, [window[c] EXCEPT !.length = @ + 1], lag + 1)
      BY <3>1, <3>2, CoveredAges, Zenon
    <3> QED
      BY <3>1, <3>3
  <2> QED
    BY <2>1, <2>3, <2>4, <2>5, <2>6
<1> QED
  BY <1>2, <1>3, <1>4

LEMMA TokensStep == TokensInv /\ [Next]_vars => TokensInv'
<1> SUFFICES ASSUME TokensInv, [Next]_vars PROVE TokensInv'
  OBVIOUS
<1> DEFINE Goal == HybridTokens' /\ PostgresTokens' /\ PendingTokens'
<1>1. ASSUME NEW r \in Askers, AskStep(r) PROVE Goal
  BY <1>1, AskTokens, HybridGrantTokens, PostgresGrantTokens DEF AskStep
<1>2. ASSUME NEW h \in Handlers, HandlerStep(h) PROVE Goal
  BY <1>2, HandlerTokens
<1>3. ASSUME \/ Restart
             \/ \E c \in Clients : Expire(c) \/ CloseWindow(c) \/ \E r \in Askers : Request(r, c)
             \/ \E h \in Handlers, c \in Clients :
                  DeleteClient(h, c) \/ \E s \in Requested : PostClient(h, c, s)
      PROVE  Goal
  BY <1>3, QuietTokens
<1>4. ASSUME RedisRestarts PROVE Goal
  BY <1>4, RedisRestartsTokens
<1>5. ASSUME Clock PROVE Goal
  BY <1>5, ClockTokens
<1>6. ASSUME UNCHANGED vars PROVE Goal
  BY <1>6 DEF vars, TokensInv, HybridTokens, PostgresTokens, PendingTokens, Recent, hybridVars,
     postgresVars, serviceVars, history
<1>7. Goal
  BY <1>1, <1>2, <1>3, <1>4, <1>5, <1>6 DEF Next
<1> QED
  BY <1>7, TypeStep DEF TokensInv

LEMMA TokensInvHolds == Spec => []TokensInv
BY TokensInit, TokensStep, PTL DEF Spec

-----------------------------------------------------------------------------
(* The theorems.                                                           *)

\* In no window under one limit is a client granted more than its capacity
\* and the flow, whatever the delays of its requests and whatever fails.
THEOREM BurstBoundHolds == Spec => []BurstBound
<1>1. TokensInv => BurstBound
  <2> SUFFICES ASSUME TokensInv, NEW c \in Clients, window[c].limit # None
               PROVE  Unit * window[c].granted
                        <= Unit * window[c].limit.capacity
                             + window[c].limit.rate * (window[c].length + window[c].lag)
    BY DEF BurstBound
  <2>1. TypeOK /\ window[c] \in WindowType
    BY OpenWindow DEF TokensInv, TypeInv
  <2>2. CASE storage = "hybrid"
    <3>1. bucket[c] # None /\ Covered(1, bucket[c].tokens, window[c], bucket[c].age)
      BY <2>2 DEF TokensInv, HybridTokens
    <3>2. bucket[c].tokens \in Nat /\ bucket[c].age \in Nat /\ 1 \in Nat
      BY <2>1, <3>1, Buckets
    <3>3. 1 * window[c].granted
            <= 1 * window[c].limit.capacity
                 + window[c].limit.rate * (window[c].length + window[c].lag)
      BY <2>1, <3>1, <3>2, CoveredGivesBound, Zenon
    <3> QED
      BY <2>2, <3>3 DEF Unit
  <2>3. CASE storage # "hybrid"
    <3>1. row[c] # None /\ Covered(Second, row[c].tokens, window[c], row[c].age)
      BY <2>3 DEF TokensInv, PostgresTokens
    <3>2. row[c].tokens \in Nat /\ row[c].age \in Nat /\ Second \in Nat
      BY <2>1, <3>1, Rows
    <3>3. Second * window[c].granted
            <= Second * window[c].limit.capacity
                 + window[c].limit.rate * (window[c].length + window[c].lag)
      BY <2>1, <3>1, <3>2, CoveredGivesBound, Zenon
    <3> QED
      BY <2>3, <3>3 DEF Unit
  <2> QED
    BY <2>2, <2>3
<1> QED
  BY <1>1, TokensInvHolds, PTL

\* Which steps refuse a request.
LEMMA Refusals ==
    ASSUME TokensInv, Next, NEW r \in Askers, ask[r].at \in {"eval", "select"},
           ask'[r] = Hybrid!Ended("refused")
    PROVE  \/ storage = "hybrid" /\ \E lag \in 0 .. MaxLag : Hybrid!EvalRefuses(r, lag)
           \/ storage # "hybrid" /\ Postgres!SelectRefuses(r)
<1>1. TypeInv /\ TypeOK
  BY DEF TokensInv, TypeInv
<1>2. /\ ask'[r] # ask[r] /\ ask'[r].at = "idle"
      /\ ask'[r] # Hybrid!Ended("passed") /\ ask'[r] # Postgres!Ended("passed")
  BY DEF Hybrid!Ended, Postgres!Ended
<1>3. ASSUME NEW q \in Askers, NEW f, ask' = [ask EXCEPT ![q] = f]
      PROVE  q = r /\ f = ask'[r]
  BY <1>1, <1>2, <1>3 DEF TypeOK
<1>4. ASSUME NEW q \in Askers, HybridAsk(q)
      PROVE  storage = "hybrid" /\ \E lag \in 0 .. MaxLag : Hybrid!EvalRefuses(r, lag)
  <2>1. /\ ~Hybrid!EvalFails(q)
        /\ ~Hybrid!FillCache(q)
    BY <1>2, <1>3 DEF Hybrid!EvalFails, Hybrid!FillCache, Hybrid!Finish, Hybrid!Goto, Hybrid!With
  <2>2. ~Hybrid!GetCached(q) /\ ~Hybrid!QuerySettings(q)
    <3>1. CASE Hybrid!GetCached(q)
      <4>1. ask[q].at = "get" /\ \E f : ask' = [ask EXCEPT ![q] = f]
        BY <3>1 DEF Hybrid!GetCached, Hybrid!Goto
      <4> QED
        BY <1>3, <4>1
    <3>2. CASE Hybrid!QuerySettings(q)
      <4>1. ask[q].at = "query" /\ \E f : ask' = [ask EXCEPT ![q] = f]
        BY <3>2 DEF Hybrid!QuerySettings, Hybrid!Finish, Hybrid!Goto
      <4> QED
        BY <1>3, <4>1
    <3> QED
      BY <3>1, <3>2
  <2>3. ASSUME NEW lag \in 0 .. MaxLag, Hybrid!EvalRefuses(q, lag)
        PROVE  q = r
    BY <1>3, <2>3 DEF Hybrid!EvalRefuses, Hybrid!Finish, Hybrid!Goto
  <2> QED
    BY <1>4, <2>1, <2>2, <2>3 DEF HybridAsk
<1>5. ASSUME NEW q \in Askers, PostgresAsk(q)
      PROVE  storage # "hybrid" /\ Postgres!SelectRefuses(r)
  <2>1. /\ ~Postgres!SelectPasses(q) /\ ~Postgres!CommitFails(q)
    BY <1>2, <1>3 DEF Postgres!SelectPasses, Postgres!CommitFails, Postgres!Finish, Postgres!Goto
  <2>2. ~Postgres!SelectForUpdate(q)
    BY <1>2, <1>3 DEF Postgres!SelectForUpdate, Postgres!Goto
  <2>3. ~Postgres!BeginTx(q)
    <3>1. CASE Postgres!BeginTx(q)
      <4>1. ask[q].at = "begin" /\ \E f : ask' = [ask EXCEPT ![q] = f]
        BY <3>1 DEF Postgres!BeginTx, Postgres!Finish, Postgres!Goto
      <4> QED
        BY <1>3, <4>1
    <3> QED
      BY <3>1
  <2>4. Postgres!SelectRefuses(q) => q = r
    BY <1>3 DEF Postgres!SelectRefuses, Postgres!Finish, Postgres!Goto
  <2> QED
    BY <1>5, <2>1, <2>2, <2>3, <2>4 DEF PostgresAsk
<1>6. \A q \in Askers : ~HybridGrant(q) /\ ~PostgresGrant(q)
  BY <1>2, <1>3 DEF HybridGrant, PostgresGrant, Hybrid!EvalGrants, Postgres!Commit,
     Hybrid!Finish, Hybrid!Goto, Postgres!Finish, Postgres!Goto
<1>7. \A q \in Askers, c \in Clients : ~Request(q, c)
  <2> SUFFICES ASSUME NEW q \in Askers, NEW c \in Clients, Request(q, c) PROVE FALSE
    OBVIOUS
  <2>1. ask[q].at = "idle" /\ \E f : ask' = [ask EXCEPT ![q] = f]
    BY DEF Request, Hybrid!Allow, Postgres!Allow, Hybrid!Goto, Postgres!Goto
  <2> QED
    BY <1>3, <2>1
<1>8. ~Restart
  BY <1>2 DEF Restart
<1>9. ~Clock
  BY <1>1, <1>2, ClockFrames
<1>10. \A h \in Handlers : ~HandlerStep(h)
  BY <1>2 DEF HandlerStep, Write, WriteFails, Drop, DropFails
<1>11. /\ ~RedisRestarts
       /\ \A c \in Clients : ~Expire(c) /\ ~CloseWindow(c)
       /\ \A h \in Handlers, c \in Clients :
            ~DeleteClient(h, c) /\ \A s \in Requested : ~PostClient(h, c, s)
  BY <1>2 DEF RedisRestarts, Expire, CloseWindow, DeleteClient, PostClient
<1> QED
  BY <1>4, <1>5, <1>6, <1>7, <1>8, <1>9, <1>10, <1>11 DEF Next, AskStep

\* No client is refused when a token has flowed since its last grant; in
\* PostgreSQL no client with a roomy limit.
THEOREM RefusedSoonAfterGrantHolds == Spec => RefusedSoonAfterGrant
<1> DEFINE Soon(r) ==
      LET c == ask[r].client
          rate == IF storage = "hybrid" THEN ask[r].limit.rate ELSE row[c].limit.rate
          lag == IF storage = "hybrid" THEN ask[r].lag ELSE 0
      IN  since[c] # None /\ (since[c] - lag) * rate < Unit
<1>1. ASSUME TokensInv, NEW r \in Askers, NEW lag \in 0 .. MaxLag, storage = "hybrid",
             Hybrid!EvalRefuses(r, lag)
      PROVE  Soon(r)
  <2> DEFINE c == ask[r].client
             s == ask[r].limit
  <2>1. TypeOK /\ ask[r].at = "eval" /\ c \in Clients /\ s \in Settings
        /\ ask[r].lag \in Nat /\ lag <= ask[r].lag
    BY <1>1, HybridFrames DEF TokensInv, TypeInv, Hybrid!EvalRefuses
  <2>2. s.capacity \in Nat /\ s.capacity >= 1 /\ s.rate \in Nat
    BY <2>1, SettingsFields
  <2>3. bucket[c] # None /\ bucket[c].tokens \in Nat /\ bucket[c].age \in Nat
    BY <1>1, <2>1, <2>2, Buckets DEF Hybrid!EvalRefuses, Hybrid!Refilled
  <2> DEFINE flow == (bucket[c].age - lag) * s.rate
  <2>4. flow \in Int
    BY <2>2, <2>3, ProductInInt
  <2>5. flow <= 0
    <3>1. Hybrid!Refilled(c, s, lag) = Hybrid!Least(s.capacity, bucket[c].tokens + flow)
      BY <2>3 DEF Hybrid!Refilled
    <3>2. Hybrid!Refilled(c, s, lag) <= 0
      BY <1>1 DEF Hybrid!EvalRefuses
    <3> HIDE DEF flow
    <3> QED
      BY <2>2, <2>3, <2>4, <3>1, <3>2 DEF Hybrid!Least
  <2>6. since[c] # None /\ since[c] \in Nat /\ since[c] <= bucket[c].age
    BY <1>1, <2>1, <2>3 DEF TokensInv, HybridTokens, Recent, TypeOK
  <2>7. (since[c] - ask[r].lag) * s.rate <= flow /\ (since[c] - ask[r].lag) * s.rate \in Int
    <3>1. /\ since[c] - ask[r].lag \in Int /\ bucket[c].age - lag \in Int
          /\ since[c] - ask[r].lag <= bucket[c].age - lag
      BY <2>1, <2>3, <2>6
    <3>2. (since[c] - ask[r].lag) * s.rate <= (bucket[c].age - lag) * s.rate
      <4> HIDE DEF c, s
      <4> QED
        BY <2>2, <3>1, ProductMonotone, Zenon
    <3>3. (since[c] - ask[r].lag) * s.rate \in Int
      BY <2>2, <3>1, ProductInInt
    <3> QED
      BY <3>2, <3>3
  <2> HIDE DEF flow
  <2> QED
    BY <1>1, <2>4, <2>5, <2>6, <2>7 DEF Unit
<1>2. ASSUME TokensInv, NEW r \in Askers, storage # "hybrid", Postgres!SelectRefuses(r),
             Roomy(row[ask[r].client].limit)
      PROVE  Soon(r)
  <2> DEFINE c == ask[r].client
             s == row[c].limit
             flow == row[c].age * s.rate
             whole == flow \div Second
  <2>1. TypeOK /\ c \in Clients /\ row[c] # None /\ Postgres!NewTokens(c) <= 0
    BY <1>2, PostgresFrames DEF TokensInv, TypeInv, Postgres!SelectRefuses
  <2>2. /\ s \in Settings /\ row[c].tokens \in Nat /\ row[c].age \in 0 .. MaxAge
        /\ flow \in Nat /\ whole \in Nat
    BY <2>1, NewTokensInInt
  <2>3. s.capacity \in Nat /\ s.capacity >= 1 /\ s.rate \in Nat
    BY <2>2, SettingsFields
  <2>4. Postgres!NewTokens(c) = Postgres!Least(s.capacity, row[c].tokens + whole)
    <3>1. row[c].tokens <= s.capacity
      BY <1>2, <2>1 DEF TokensInv, PostgresTokens
    <3>2. whole <= (MaxAge * s.rate) \div Second
      <4>1. row[c].age \in Int /\ MaxAge \in Int /\ row[c].age <= MaxAge
        BY <2>2
      <4>2. flow <= MaxAge * s.rate /\ MaxAge * s.rate \in Nat
        BY <2>3, <4>1, ProductMonotone, ProductInNat
      <4> HIDE DEF flow
      <4> QED
        BY <2>2, <4>2, DivMonotone
    <3>3. Postgres!NewTokens(c)
            = Postgres!Least(s.capacity, Postgres!Wrap(row[c].tokens + whole))
      BY DEF Postgres!NewTokens
    <3>4. (MaxAge * s.rate) \div Second \in Nat
      BY <2>3, ProductInNat, DivBound
    <3> HIDE DEF whole
    <3>5. row[c].tokens + whole <= MaxInt
      BY <1>2, <2>2, <2>3, <3>1, <3>2, <3>4, WidthAssumption DEF Roomy
    <3>6. Postgres!Wrap(row[c].tokens + whole) = row[c].tokens + whole
      BY <2>2, <3>5, WidthAssumption DEF Postgres!Wrap
    <3> QED
      BY <3>3, <3>6
  <2>5. flow < Second * whole + Second
    <3> HIDE DEF flow
    <3> QED
      BY <2>2, DivBound
  <2> HIDE DEF whole
  <2>6. row[c].tokens = 0 /\ whole = 0
    <3>1. Postgres!Least(s.capacity, row[c].tokens + whole) <= 0
      BY <2>1, <2>4
    <3>2. row[c].tokens \in Nat /\ whole \in Nat /\ s.capacity \in Nat /\ s.capacity >= 1
      BY <2>2, <2>3
    <3> QED
      BY <3>1, <3>2 DEF Postgres!Least
  <2>7. flow < Second
    <3> HIDE DEF flow
    <3> QED
      BY <2>2, <2>5, <2>6
  <2>8. since[c] # None /\ since[c] \in Nat /\ since[c] <= row[c].age
    BY <1>2, <2>1, <2>2, <2>6 DEF TokensInv, PostgresTokens, Recent, TypeOK
  <2>9. (since[c] - 0) * s.rate <= flow /\ (since[c] - 0) * s.rate \in Int
    <3>1. since[c] - 0 \in Int /\ row[c].age \in Int /\ since[c] - 0 <= row[c].age
      BY <2>2, <2>8
    <3> QED
      BY <2>3, <3>1, ProductMonotone, ProductInInt
  <2> HIDE DEF flow
  <2> QED
    BY <1>2, <2>2, <2>7, <2>8, <2>9 DEF Unit
<1> HIDE DEF Soon
<1>3. TokensInv /\ [Next]_vars =>
        [\A r \in Askers :
           (ask[r].at \in {"eval", "select"} /\ ask'[r] = Hybrid!Ended("refused")
              /\ (storage = "hybrid" \/ Roomy(row[ask[r].client].limit))) => Soon(r)]_vars
  BY <1>1, <1>2, Refusals
<1>4. TokensInv /\ [Next]_vars =>
        [\A r \in Askers :
           (ask[r].at \in {"eval", "select"} /\ ask'[r] = Hybrid!Ended("refused")
              /\ (storage = "hybrid" \/ Roomy(row[ask[r].client].limit))) =>
              LET c == ask[r].client
                  rate == IF storage = "hybrid" THEN ask[r].limit.rate ELSE row[c].limit.rate
                  lag == IF storage = "hybrid" THEN ask[r].lag ELSE 0
              IN  since[c] # None /\ (since[c] - lag) * rate < Unit]_vars
  BY <1>3 DEF Soon
<1> QED
  BY <1>4, TokensInvHolds, PTL DEF Spec, RefusedSoonAfterGrant
=============================================================================
