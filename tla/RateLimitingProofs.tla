------------------------- MODULE RateLimitingProofs -------------------------
(***************************************************************************)
(* What the token buckets promise, for any number of clients and handlers, *)
(* any settings that fit an integer and any lateness of the refills.       *)
(***************************************************************************)
EXTENDS RateLimiting, TLAPS

-----------------------------------------------------------------------------
(* Arithmetic.                                                             *)

LEMMA DivBound ==
    ASSUME NEW n \in Nat \ {0}, NEW a \in Nat
    PROVE  a \div n \in Nat /\ n * (a \div n) <= a
OBVIOUS

LEMMA ProductInNat ==
    ASSUME NEW m \in Nat, NEW n \in Nat
    PROVE  m * n \in Nat
OBVIOUS

LEMMA ProductMonotone ==
    ASSUME NEW m \in Nat, NEW n \in Nat, NEW k \in Nat, m <= n
    PROVE  m * k <= n * k /\ k * m <= k * n
OBVIOUS

LEMMA DivMonotone ==
    ASSUME NEW n \in Nat \ {0}, NEW a \in Nat, NEW b \in Nat, a <= b
    PROVE  a \div n <= b \div n
OBVIOUS

-----------------------------------------------------------------------------
(* One refill of one bucket.                                               *)

\* The tokens that can be taken: an overflow leaves a negative number.
Usable(b) == IF b.tokens > 0 THEN b.tokens ELSE 0

LEMMA RefillGoverned ==
    ASSUME NEW b \in BucketType, b.tokens <= b.capacity
    PROVE  /\ Refilled(b) \in BucketType
           /\ Refilled(b).tokens <= Refilled(b).capacity
           /\ Refilled(b).capacity = b.capacity /\ Refilled(b).rate = b.rate
           /\ Refilled(b).age \in {0, b.age}
           /\ Second * Usable(Refilled(b)) + b.rate * Refilled(b).age
                 <= Second * Usable(b) + b.rate * b.age
           /\ (Roomy(b) /\ b.tokens >= 0) => Refilled(b).tokens >= b.tokens
<1> DEFINE add == TokensToAdd(b)
           new == Minimum(b.capacity, Wrap(b.tokens + add))
<1>1. /\ Second \in Nat \ {0} /\ MaxAge \in Nat /\ MaxInt \in Nat /\ 0 \in 0 .. MaxAge
      /\ b.tokens \in Int /\ b.tokens >= -(MaxInt + 1) /\ b.tokens <= MaxInt
      /\ b.capacity \in Nat /\ b.capacity >= 1 /\ b.capacity <= MaxInt
      /\ b.rate \in 1 .. MaxInt /\ b.rate \in Nat /\ b.age \in Nat /\ b.age <= MaxAge
  BY TimeAssumption, WidthAssumption DEF BucketType
<1>2. b.age * b.rate \in Nat /\ MaxAge * b.rate \in Nat
  BY <1>1, ProductInNat
<1>3. add \in Nat /\ Second * add <= b.age * b.rate
  BY <1>1, <1>2, DivBound DEF TokensToAdd
<1>4. add <= (MaxAge * b.rate) \div Second
  BY <1>1, <1>2, ProductMonotone, DivMonotone DEF TokensToAdd
<1>5. (MaxAge * b.rate) \div Second \in Nat
  BY <1>1, <1>2, DivBound
<1>6. CASE add > 0
  <2>1. /\ Refilled(b) = [b EXCEPT !.tokens = new, !.age = 0]
        /\ Refilled(b).tokens = new /\ Refilled(b).age = 0
        /\ Refilled(b).capacity = b.capacity /\ Refilled(b).rate = b.rate
    BY <1>6 DEF Refilled, BucketType
  <2> HIDE DEF add
  <2>2. /\ new \in -(MaxInt + 1) .. MaxInt /\ new <= b.capacity
        /\ new <= b.tokens + add
    BY <1>1, <1>3 DEF Minimum, Wrap
  <2> HIDE DEF new
  <2>3. Refilled(b) \in BucketType
    BY <2>1, <2>2, <1>1 DEF BucketType
  <2>4. (Roomy(b) /\ b.tokens >= 0) => new >= b.tokens
    BY <1>1, <1>3, <1>4, <1>5 DEF new, Roomy, Minimum, Wrap
  <2>5. Usable(Refilled(b)) <= Usable(b) + add /\ Usable(Refilled(b)) \in Nat
        /\ Usable(b) \in Nat
    BY <1>1, <1>3, <2>1, <2>2 DEF Usable
  <2>6. Second * Usable(Refilled(b)) <= Second * (Usable(b) + add)
    BY <1>1, <1>3, <2>5, ProductMonotone
  <2>7. Second * (Usable(b) + add) = Second * Usable(b) + Second * add
    BY <1>1, <1>3, <2>5
  <2>8. b.rate * Refilled(b).age = 0 /\ b.age * b.rate = b.rate * b.age
    BY <1>1, <2>1
  <2>9. Second * Usable(Refilled(b)) + b.rate * Refilled(b).age
           <= Second * Usable(b) + b.rate * b.age
    <3>1. /\ Second * Usable(Refilled(b)) \in Nat /\ Second * Usable(b) \in Nat
          /\ Second * add \in Nat /\ b.rate * b.age \in Nat
      BY <1>1, <1>3, <2>5, ProductInNat
    <3> QED
      BY <3>1, <2>6, <2>7, <2>8, <1>3
  <2> QED
    BY <2>1, <2>2, <2>3, <2>4, <2>9
<1>7. CASE ~(add > 0)
  <2>1. Refilled(b) = b
    BY <1>7 DEF Refilled
  <2>2. Second * Usable(b) + b.rate * b.age \in Nat
    BY <1>1, ProductInNat DEF Usable
  <2> QED
    BY <1>1, <2>1, <2>2
<1> QED
  BY <1>6, <1>7

-----------------------------------------------------------------------------
(* A bucket and its window, through every step that touches them.          *)

WindowType == [granted : Nat, length : Nat, age : Nat, tokens : Int]

Flow(b, w) ==
    Second * (Usable(b) + w.granted) + b.rate * b.age
       <= Second * b.capacity + b.rate * (w.age + w.length)

Kept(b, w) ==
    Roomy(b) => b.tokens >= 0 /\ b.tokens + w.granted >= w.tokens

Sound(b, w) ==
    /\ b \in BucketType /\ w \in WindowType
    /\ b.tokens <= b.capacity
    /\ Flow(b, w)
    /\ Kept(b, w)

LEMMA Fields ==
    ASSUME NEW b \in BucketType
    PROVE  /\ Second \in Nat \ {0} /\ MaxAge \in Nat /\ MaxInt \in Nat
           /\ b.tokens \in Int /\ b.tokens >= -(MaxInt + 1)
           /\ b.capacity \in Nat /\ b.rate \in Nat /\ b.age \in Nat
           /\ Usable(b) \in Nat
BY TimeAssumption, WidthAssumption DEF BucketType, Usable

LEMMA SoundWhenOpened ==
    ASSUME NEW b \in BucketType, b.tokens <= b.capacity, Roomy(b) => b.tokens >= 0
    PROVE  Sound(b, Opened(b))
<1>1. Opened(b) \in WindowType
  BY Fields DEF Opened, WindowType
<1>2. Flow(b, Opened(b))
  <2>1. Usable(b) <= b.capacity
    BY Fields DEF Usable
  <2>2. Second * Usable(b) <= Second * b.capacity
    BY <2>1, Fields, ProductMonotone
  <2>3. /\ Second * Usable(b) \in Nat /\ Second * b.capacity \in Nat
        /\ b.rate * b.age \in Nat
    BY Fields, ProductInNat
  <2>4. /\ Opened(b).granted = 0 /\ Opened(b).age = b.age /\ Opened(b).length = 0
        /\ Usable(b) + 0 = Usable(b) /\ b.age + 0 = b.age
    BY Fields DEF Opened
  <2> QED
    BY <2>2, <2>3, <2>4 DEF Flow
<1>3. Kept(b, Opened(b))
  BY Fields DEF Kept, Opened
<1> QED
  BY <1>1, <1>2, <1>3 DEF Sound

LEMMA SoundWhenGranted ==
    ASSUME NEW b, NEW w, Sound(b, w), b.tokens > 0
    PROVE  Sound([b EXCEPT !.tokens = @ - 1], [w EXCEPT !.granted = @ + 1])
<1> DEFINE b2 == [b EXCEPT !.tokens = @ - 1]
           w2 == [w EXCEPT !.granted = @ + 1]
<1>1. b \in BucketType /\ w \in WindowType /\ b.tokens <= b.capacity
  BY DEF Sound
<1>2. /\ b2 \in BucketType /\ b2.tokens = b.tokens - 1 /\ b2.capacity = b.capacity
      /\ b2.rate = b.rate /\ b2.age = b.age
  BY <1>1, WidthAssumption DEF BucketType
<1>3. /\ w2 \in WindowType /\ w2.granted = w.granted + 1 /\ w2.length = w.length
      /\ w2.age = w.age /\ w2.tokens = w.tokens
  BY <1>1 DEF WindowType
<1> HIDE DEF b2, w2
<1>4. Usable(b2) + w2.granted = Usable(b) + w.granted
  BY <1>1, <1>2, <1>3, Fields DEF Usable, WindowType
<1>5. Flow(b2, w2)
  BY <1>2, <1>3, <1>4 DEF Sound, Flow
<1>6. Kept(b2, w2)
  BY <1>1, <1>2, <1>3, Fields DEF Sound, Kept, Roomy, WindowType
<1>7. Sound(b2, w2)
  BY <1>1, <1>2, <1>3, <1>5, <1>6, Fields DEF Sound
<1> QED
  BY <1>7 DEF b2, w2

LEMMA SoundWhenRefilled ==
    ASSUME NEW b, NEW w, Sound(b, w)
    PROVE  Sound(Refilled(b), w)
<1> DEFINE b2 == Refilled(b)
<1>1. b \in BucketType /\ w \in WindowType /\ b.tokens <= b.capacity
  BY DEF Sound
<1>2. /\ b2 \in BucketType /\ b2.tokens <= b2.capacity
      /\ b2.capacity = b.capacity /\ b2.rate = b.rate
      /\ Second * Usable(b2) + b.rate * b2.age <= Second * Usable(b) + b.rate * b.age
      /\ (Roomy(b) /\ b.tokens >= 0) => b2.tokens >= b.tokens
  BY <1>1, RefillGoverned
<1> HIDE DEF b2
<1>3. Kept(b2, w)
  BY <1>1, <1>2, Fields DEF Sound, Kept, Roomy, WindowType
<1>4. Flow(b2, w)
  <2>1. w.granted \in Nat /\ w.age + w.length \in Nat
    BY <1>1 DEF WindowType
  <2>2. /\ Second * (Usable(b2) + w.granted) = Second * Usable(b2) + Second * w.granted
        /\ Second * (Usable(b) + w.granted) = Second * Usable(b) + Second * w.granted
    BY <1>1, <1>2, <2>1, Fields
  <2>3. /\ Second * Usable(b2) \in Nat /\ Second * Usable(b) \in Nat
        /\ Second * w.granted \in Nat
        /\ b.rate * b2.age \in Nat /\ b.rate * b.age \in Nat
        /\ Second * b.capacity \in Nat /\ b.rate * (w.age + w.length) \in Nat
    BY <1>1, <1>2, <2>1, Fields, ProductInNat
  <2>4. Second * (Usable(b) + w.granted) + b.rate * b.age
           <= Second * b.capacity + b.rate * (w.age + w.length)
    BY DEF Sound, Flow
  <2> QED
    BY <1>2, <2>2, <2>3, <2>4 DEF Flow
<1> QED
  BY <1>1, <1>2, <1>3, <1>4 DEF Sound, b2

LEMMA SoundWhenOlder ==
    ASSUME NEW b, NEW w, Sound(b, w), b.age < MaxAge
    PROVE  /\ Sound([b EXCEPT !.age = @ + 1], [w EXCEPT !.length = @ + 1])
           /\ Sound([b EXCEPT !.age = @ + 1], Opened([b EXCEPT !.age = @ + 1]))
<1> DEFINE b2 == [b EXCEPT !.age = @ + 1]
           w2 == [w EXCEPT !.length = @ + 1]
<1>1. b \in BucketType /\ w \in WindowType /\ b.tokens <= b.capacity
  BY DEF Sound
<1>2. /\ b2 \in BucketType /\ b2.tokens = b.tokens /\ b2.capacity = b.capacity
      /\ b2.rate = b.rate /\ b2.age = b.age + 1
  BY <1>1, TimeAssumption DEF BucketType
<1>3. /\ w2 \in WindowType /\ w2.granted = w.granted /\ w2.length = w.length + 1
      /\ w2.age = w.age /\ w2.tokens = w.tokens
  BY <1>1 DEF WindowType
<1> HIDE DEF b2, w2
<1>4. Usable(b2) = Usable(b)
  BY <1>2 DEF Usable
<1>5. Flow(b2, w2)
  <2>1. w.age \in Nat /\ w.length \in Nat /\ w.granted \in Nat
    BY <1>1 DEF WindowType
  <2>2. /\ b.rate * (b.age + 1) = b.rate * b.age + b.rate
        /\ b.rate * (w.age + (w.length + 1)) = b.rate * (w.age + w.length) + b.rate
    BY <1>1, <2>1, Fields
  <2>3. /\ b.rate * b.age \in Nat /\ b.rate * (w.age + w.length) \in Nat
        /\ Second * (Usable(b) + w.granted) \in Nat /\ Second * b.capacity \in Nat
        /\ b.rate \in Nat
    BY <1>1, <2>1, Fields, ProductInNat
  <2>4. Second * (Usable(b) + w.granted) + b.rate * b.age
           <= Second * b.capacity + b.rate * (w.age + w.length)
    BY DEF Sound, Flow
  <2>5. Second * (Usable(b) + w.granted) + b.rate * (b.age + 1)
           <= Second * b.capacity + b.rate * (w.age + (w.length + 1))
    BY <2>2, <2>3, <2>4
  <2> QED
    BY <1>2, <1>3, <1>4, <2>5 DEF Flow
<1>6. Kept(b2, w2) /\ (Roomy(b2) => b2.tokens >= 0)
  BY <1>1, <1>2, <1>3 DEF Sound, Kept, Roomy
<1>7. Sound(b2, w2)
  BY <1>1, <1>2, <1>3, <1>5, <1>6 DEF Sound
<1>8. Sound(b2, Opened(b2))
  BY <1>1, <1>2, <1>6, SoundWhenOpened
<1> QED
  BY <1>7, <1>8 DEF b2, w2

-----------------------------------------------------------------------------
(* The inductive invariant.  It has one part for the limiter and its       *)
(* windows, and one for the two tables that have to agree.                 *)

BucketsInv ==
    /\ LimiterTypeOK
    /\ window \in [Clients -> WindowType]
    /\ \A c \in Clients : Limited(c) => Sound(bucket[c], window[c])

Changing(h, c) == call[h] # Service!NoChange /\ call[h].client = c

TablesInv ==
    /\ Service!ServiceTypeOK
    /\ \A h, g \in Handlers :
          call[h] # Service!NoChange /\ call[g] # Service!NoChange => h = g
    /\ \A h \in Handlers :
          /\ call[h].op = "set" => settings[call[h].client] = call[h].settings
          /\ call[h].op = "remove" => settings[call[h].client] = None
    /\ \A c \in Clients : (\A h \in Handlers : ~Changing(h, c)) => settings[c] = Limits(c)

LEMMA InitHolds == Init => BucketsInv /\ TablesInv
<1> SUFFICES ASSUME Init PROVE BucketsInv /\ TablesInv
  OBVIOUS
<1>1. bucket = [c \in Clients |-> None] /\ bucket \in [Clients -> BucketType \cup {None}]
  BY DEF Init, LimiterInit
<1>2. \A c \in Clients : ~Limited(c)
  BY <1>1 DEF Limited
<1>3. phase \in 0 .. Second - 1
  BY TimeAssumption DEF Init, LimiterInit
<1>4. LimiterTypeOK
  BY <1>1, <1>2, <1>3 DEF Init, LimiterInit, LimiterTypeOK
<1>5. window \in [Clients -> WindowType]
  BY DEF Init, Closed, WindowType
<1>6. BucketsInv
  BY <1>2, <1>4, <1>5 DEF BucketsInv
<1>7. Service!ServiceTypeOK
  BY DEF Init, Service!ServiceInit, Service!ServiceTypeOK
<1>8. \A h \in Handlers : call[h] = Service!NoChange /\ call[h].op = "none"
  BY DEF Init, Service!ServiceInit, Service!NoChange
<1>9. \A c \in Clients : settings[c] = Limits(c)
  BY <1>2 DEF Init, Service!ServiceInit, Limits
<1> QED
  BY <1>6, <1>7, <1>8, <1>9 DEF TablesInv, Changing

-----------------------------------------------------------------------------
(* The buckets.                                                            *)

LEMMA BucketStep ==
    ASSUME BucketsInv, Service!ServiceTypeOK, [Next]_vars
    PROVE  BucketsInv'
<1> USE DEF Limited
<1>0. /\ bucket \in [Clients -> BucketType \cup {None}]
      /\ window \in [Clients -> WindowType]
      /\ phase \in 0 .. Second - 1 /\ tick \in BOOLEAN
      /\ refillLoop \in {"running", "stopped"} /\ stopCh \in BOOLEAN
      /\ None \notin BucketType
      /\ \A c \in Clients : bucket[c] # None => Sound(bucket[c], window[c])
  BY NoneAssumption DEF BucketsInv, LimiterTypeOK
<1>a. ASSUME bucket' \in [Clients -> BucketType \cup {None}],
             window' \in [Clients -> WindowType],
             \A c \in Clients : bucket'[c] # None => Sound(bucket'[c], window'[c]),
             UNCHANGED <<phase, tick>>,
             refillLoop' \in {"running", "stopped"}, stopCh' \in BOOLEAN
      PROVE  BucketsInv'
  BY <1>0, <1>a DEF BucketsInv, LimiterTypeOK, Sound
<1>1. ASSUME NEW c \in Clients, Request(c) PROVE BucketsInv'
  <2>1. CASE bucket[c] = None
    BY <1>0, <1>1, <1>a, <2>1 DEF Request, Allow
  <2>2. CASE bucket[c] # None
    <3>1. /\ bucket[c].tokens > 0
          /\ bucket' = [bucket EXCEPT ![c] = [bucket[c] EXCEPT !.tokens = @ - 1]]
          /\ window' = [window EXCEPT ![c] = [window[c] EXCEPT !.granted = @ + 1]]
      BY <1>1, <2>2 DEF Request, Allow
    <3>2. Sound([bucket[c] EXCEPT !.tokens = @ - 1], [window[c] EXCEPT !.granted = @ + 1])
      BY <1>0, <2>2, <3>1, SoundWhenGranted
    <3>3. /\ [bucket[c] EXCEPT !.tokens = @ - 1] \in BucketType
          /\ [window[c] EXCEPT !.granted = @ + 1] \in WindowType
      BY <3>2 DEF Sound
    <3>4. /\ bucket' \in [Clients -> BucketType \cup {None}]
          /\ window' \in [Clients -> WindowType]
          /\ bucket'[c] = [bucket[c] EXCEPT !.tokens = @ - 1]
          /\ window'[c] = [window[c] EXCEPT !.granted = @ + 1]
          /\ \A d \in Clients \ {c} : bucket'[d] = bucket[d] /\ window'[d] = window[d]
      BY <1>0, <3>1, <3>3
    <3>5. \A d \in Clients : bucket'[d] # None => Sound(bucket'[d], window'[d])
      BY <1>0, <3>2, <3>4
    <3> QED
      BY <1>0, <1>1, <1>a, <3>4, <3>5 DEF Request, Allow
  <2> QED
    BY <2>1, <2>2
<1>2. ASSUME NEW c \in Clients, OpenWindow(c) PROVE BucketsInv'
  <2>1. /\ bucket[c] # None /\ UNCHANGED limiterVars
        /\ window' = [window EXCEPT ![c] = Opened(bucket[c])]
    BY <1>2 DEF OpenWindow
  <2>2. Sound(bucket[c], Opened(bucket[c]))
    BY <1>0, <2>1, SoundWhenOpened DEF Sound, Kept
  <2>3. Opened(bucket[c]) \in WindowType
    BY <2>2 DEF Sound
  <2>4. /\ window' \in [Clients -> WindowType] /\ window'[c] = Opened(bucket[c])
        /\ \A d \in Clients \ {c} : window'[d] = window[d]
    BY <1>0, <2>1, <2>3
  <2>5. \A d \in Clients : bucket'[d] # None => Sound(bucket'[d], window'[d])
    BY <1>0, <2>1, <2>2, <2>4 DEF limiterVars
  <2> QED
    BY <1>0, <1>a, <2>1, <2>4, <2>5 DEF limiterVars
<1>3. ASSUME NEW h \in Handlers, NEW c \in Clients,
             (\E s \in Requested : PostClient(h, c, s)) \/ DeleteClient(h, c)
      PROVE  BucketsInv'
  BY <1>0, <1>3, <1>a DEF PostClient, DeleteClient, limiterVars
<1>4. ASSUME NEW h \in Handlers, LimiterIsSet(h) PROVE BucketsInv'
  <2> DEFINE c == call[h].client
             s == call[h].settings
             b == [tokens |-> s.capacity, capacity |-> s.capacity,
                   rate |-> s.rate, age |-> 0]
  <2>1. c \in Clients /\ s \in Requested /\ Service!Valid(s)
    BY <1>4 DEF LimiterIsSet, Service!ServiceTypeOK, Service!Change, Service!NoChange
  <2>2. b \in BucketType /\ b.tokens = b.capacity /\ b.tokens >= 0
    BY <2>1, SettingsAssumption, TimeAssumption, WidthAssumption
       DEF Service!Valid, BucketType
  <2>3. Sound(b, Opened(b))
    <3>1. b.tokens <= b.capacity
      BY <2>2, Fields
    <3> QED
      BY <2>2, <3>1, SoundWhenOpened
  <2>4. bucket' = [bucket EXCEPT ![c] = b] /\ window' = [window EXCEPT ![c] = Opened(bucket'[c])]
    BY <1>4 DEF LimiterIsSet, SetRateLimit
  <2> HIDE DEF b, c
  <2>5. /\ bucket' \in [Clients -> BucketType \cup {None}] /\ bucket'[c] = b
        /\ \A d \in Clients \ {c} : bucket'[d] = bucket[d]
    BY <1>0, <2>1, <2>2, <2>4
  <2>6. Opened(b) \in WindowType
    BY <2>3 DEF Sound
  <2>7. /\ window' \in [Clients -> WindowType] /\ window'[c] = Opened(b)
        /\ \A d \in Clients \ {c} : window'[d] = window[d]
    BY <1>0, <2>1, <2>4, <2>5, <2>6
  <2>8. \A d \in Clients : bucket'[d] # None => Sound(bucket'[d], window'[d])
    BY <1>0, <2>3, <2>5, <2>7
  <2> QED
    BY <1>0, <1>4, <1>a, <2>5, <2>7, <2>8 DEF LimiterIsSet, SetRateLimit
<1>5. ASSUME NEW h \in Handlers, LimiterIsRemoved(h) PROVE BucketsInv'
  <2> DEFINE c == call[h].client
  <2>1. /\ bucket' = [bucket EXCEPT ![c] = None] /\ window' = [window EXCEPT ![c] = Closed]
        /\ Closed \in WindowType
    BY <1>5 DEF LimiterIsRemoved, RemoveRateLimit, Closed, WindowType
  <2> HIDE DEF c
  <2>2. /\ bucket' \in [Clients -> BucketType \cup {None}]
        /\ window' \in [Clients -> WindowType]
        /\ \A d \in Clients : bucket'[d] # None => bucket'[d] = bucket[d] /\ window'[d] = window[d]
    BY <1>0, <2>1
  <2> QED
    BY <1>0, <1>5, <1>a, <2>2 DEF LimiterIsRemoved, RemoveRateLimit
<1>6. CASE Refill
  <2>1. \A c \in Clients : bucket[c] # None =>
           Sound(Refilled(bucket[c]), window[c]) /\ Refilled(bucket[c]) \in BucketType
    BY <1>0, SoundWhenRefilled DEF Sound
  <2>2. bucket' = [c \in Clients |-> IF bucket[c] # None THEN Refilled(bucket[c]) ELSE None]
    BY <1>6 DEF Refill, RefillAll
  <2>3. /\ bucket' \in [Clients -> BucketType \cup {None}]
        /\ \A c \in Clients : bucket'[c] # None => Sound(bucket'[c], window[c])
    BY <1>0, <2>1, <2>2
  <2> QED
    BY <1>0, <1>6, <2>3 DEF Refill, RefillAll, BucketsInv, LimiterTypeOK, Sound
<1>7. CASE Clock
  <2> DEFINE Older(c) == [bucket[c] EXCEPT !.age = @ + 1]
             Longer(c) == [window[c] EXCEPT !.length = @ + 1]
  <2>1. \A c \in Clients : bucket[c] # None =>
           /\ Sound(Older(c), Longer(c)) /\ Sound(Older(c), Opened(Older(c)))
           /\ Older(c) \in BucketType /\ Longer(c) \in WindowType
           /\ Opened(Older(c)) \in WindowType
    BY <1>0, <1>7, SoundWhenOlder DEF Clock, PassTime, Sound
  <2>2. /\ bucket' = [c \in Clients |-> IF bucket[c] # None THEN Older(c) ELSE None]
        /\ window' = [c \in Clients |->
                        IF ~(bucket[c] # None) THEN Closed
                        ELSE IF window[c].length < MaxWindow
                             THEN Longer(c) ELSE Opened(bucket'[c])]
    BY <1>7 DEF Clock, PassTime
  <2>3. Closed \in WindowType
    BY DEF Closed, WindowType
  <2> HIDE DEF Older, Longer
  <2>4. /\ bucket' \in [Clients -> BucketType \cup {None}]
        /\ \A c \in Clients : bucket[c] # None => bucket'[c] = Older(c)
        /\ \A c \in Clients : bucket'[c] # None => bucket[c] # None
    BY <1>0, <2>1, <2>2
  <2>5. \A c \in Clients :
           window'[c] = IF ~(bucket[c] # None) THEN Closed
                        ELSE IF window[c].length < MaxWindow
                             THEN Longer(c) ELSE Opened(bucket'[c])
    BY <2>2
  <2>6. \A c \in Clients : window'[c] \in WindowType
    BY <2>1, <2>3, <2>4, <2>5
  <2>7. window' \in [Clients -> WindowType]
    BY <2>2, <2>6
  <2>8. \A c \in Clients : bucket'[c] # None => Sound(bucket'[c], window'[c])
    BY <2>1, <2>4, <2>5
  <2>9. phase' \in 0 .. Second - 1 /\ tick' \in BOOLEAN
    BY <1>0, <1>7, TimeAssumption DEF Clock, PassTime
  <2> QED
    BY <1>0, <1>7, <2>4, <2>7, <2>8, <2>9
       DEF Clock, PassTime, BucketsInv, LimiterTypeOK, Sound
<1>8. CASE Stop
  BY <1>0, <1>8, <1>a DEF Stop, StopLimiter, RefillStops
<1>9. CASE UNCHANGED vars
  BY <1>0, <1>9, <1>a DEF vars, limiterVars
<1> QED
  BY <1>1, <1>2, <1>3, <1>4, <1>5, <1>6, <1>7, <1>8, <1>9 DEF Next

-----------------------------------------------------------------------------
(* The two tables.                                                         *)

\* Most steps change no limit.
LEMMA SameLimits ==
    ASSUME TablesInv, UNCHANGED <<settings, call>>,
           \A c \in Clients : Limits(c)' = Limits(c)
    PROVE  TablesInv'
BY DEF TablesInv, Changing, Service!ServiceTypeOK, Service!NoChange

LEMMA TablesStep ==
    ASSUME BucketsInv, TablesInv, [Next]_vars
    PROVE  TablesInv'
<1>0. /\ bucket \in [Clients -> BucketType \cup {None}]
      /\ settings \in [Clients -> {s \in Requested : Service!Valid(s)} \cup {None}]
      /\ call \in [Handlers -> Service!Change \cup {Service!NoChange}]
      /\ None \notin BucketType /\ None \notin Requested
  BY NoneAssumption DEF BucketsInv, LimiterTypeOK, TablesInv, Service!ServiceTypeOK
<1>1. \A c \in Clients : bucket[c] # None => Sound(bucket[c], window[c])
  BY DEF BucketsInv, Limited
<1>2. ASSUME NEW c \in Clients, Request(c) PROVE TablesInv'
  <2>1. ASSUME bucket[c] # None PROVE \A d \in Clients : Limits(d)' = Limits(d)
    <3>1. /\ bucket[c].tokens > 0
          /\ bucket' = [bucket EXCEPT ![c] = [bucket[c] EXCEPT !.tokens = @ - 1]]
      BY <1>2, <2>1 DEF Request, Allow, Limited
    <3>2. /\ [bucket[c] EXCEPT !.tokens = @ - 1] \in BucketType
          /\ [bucket[c] EXCEPT !.tokens = @ - 1].capacity = bucket[c].capacity
          /\ [bucket[c] EXCEPT !.tokens = @ - 1].rate = bucket[c].rate
      BY <1>0, <2>1, <3>1, WidthAssumption DEF BucketType
    <3>3. /\ bucket'[c] = [bucket[c] EXCEPT !.tokens = @ - 1]
          /\ \A d \in Clients \ {c} : bucket'[d] = bucket[d]
      BY <1>0, <3>1
    <3> QED
      BY <1>0, <2>1, <3>2, <3>3 DEF Limits, Limited
  <2>2. bucket[c] = None => \A d \in Clients : Limits(d)' = Limits(d)
    BY <1>2 DEF Request, Allow, Limits, Limited
  <2> QED
    BY <1>2, <2>1, <2>2, SameLimits DEF Request, serviceVars
<1>3. ASSUME NEW c \in Clients, OpenWindow(c) PROVE TablesInv'
  BY <1>3, SameLimits DEF OpenWindow, limiterVars, serviceVars, Limits, Limited
<1>4. ASSUME NEW h \in Handlers, NEW c \in Clients, NEW s \in Requested, PostClient(h, c, s)
      PROVE  TablesInv'
  <2> DEFINE change == [op |-> "set", client |-> c, settings |-> s]
  <2>1. /\ Service!Valid(s)
        /\ \A g \in Handlers : call[g] = Service!NoChange
        /\ settings' = [settings EXCEPT ![c] = s]
        /\ call' = [call EXCEPT ![h] = change]
        /\ UNCHANGED bucket
    BY <1>4 DEF PostClient, Service!CreateOrUpdateClient, Service!Unlocked, limiterVars
  <2>2. /\ change \in Service!Change /\ change # Service!NoChange
        /\ change.op = "set" /\ change.client = c /\ change.settings = s
    BY <2>1 DEF Service!Change, Service!NoChange
  <2>a. Service!NoChange.op = "none"
    BY DEF Service!NoChange
  <2> HIDE DEF change
  <2>3. Service!ServiceTypeOK'
    BY <1>0, <2>1, <2>2 DEF Service!ServiceTypeOK
  <2>4. /\ call'[h] = change /\ \A g \in Handlers \ {h} : call'[g] = Service!NoChange
        /\ settings'[c] = s /\ \A d \in Clients \ {c} : settings'[d] = settings[d]
        /\ \A d \in Clients : Limits(d)' = Limits(d)
    BY <1>0, <2>1 DEF Limits, Limited
  <2>5. \A d \in Clients : settings[d] = Limits(d)
    BY <2>1 DEF TablesInv, Changing
  <2> QED
    BY <2>a, <2>2, <2>3, <2>4, <2>5 DEF TablesInv, Changing
<1>5. ASSUME NEW h \in Handlers, NEW c \in Clients, DeleteClient(h, c)
      PROVE  TablesInv'
  <2> DEFINE change == [op |-> "remove", client |-> c]
  <2>1. /\ \A g \in Handlers : call[g] = Service!NoChange
        /\ settings' = [settings EXCEPT ![c] = None]
        /\ call' = [call EXCEPT ![h] = change]
        /\ UNCHANGED bucket
    BY <1>5 DEF DeleteClient, Service!RemoveClient, Service!Unlocked, limiterVars
  <2>2. /\ change \in Service!Change /\ change # Service!NoChange
        /\ change.op = "remove" /\ change.client = c
    BY DEF Service!Change, Service!NoChange
  <2>a. Service!NoChange.op = "none"
    BY DEF Service!NoChange
  <2> HIDE DEF change
  <2>3. Service!ServiceTypeOK'
    BY <1>0, <2>1, <2>2 DEF Service!ServiceTypeOK
  <2>4. /\ call'[h] = change /\ \A g \in Handlers \ {h} : call'[g] = Service!NoChange
        /\ settings'[c] = None /\ \A d \in Clients \ {c} : settings'[d] = settings[d]
        /\ \A d \in Clients : Limits(d)' = Limits(d)
    BY <1>0, <2>1 DEF Limits, Limited
  <2>5. \A d \in Clients : settings[d] = Limits(d)
    BY <2>1 DEF TablesInv, Changing
  <2> QED
    BY <2>a, <2>2, <2>3, <2>4, <2>5 DEF TablesInv, Changing
<1>6. ASSUME NEW h \in Handlers, LimiterIsSet(h) \/ LimiterIsRemoved(h) PROVE TablesInv'
  <2>0. call[h] \in Service!Change
    BY <1>0, <1>6 DEF LimiterIsSet, LimiterIsRemoved, Service!ChangeReturns
  <2> PICK c \in Clients : c = call[h].client
    BY <2>0 DEF Service!Change
  <2>1. /\ call[h] \in Service!Change /\ call[h] # Service!NoChange /\ c \in Clients
        /\ call' = [call EXCEPT ![h] = Service!NoChange]
        /\ UNCHANGED settings
    BY <1>0, <1>6 DEF LimiterIsSet, LimiterIsRemoved, Service!ChangeReturns, Service!Change
  <2>2. \A g \in Handlers \ {h} : call[g] = Service!NoChange
    BY <2>1 DEF TablesInv
  <2>3. \A g \in Handlers : call'[g] = Service!NoChange
    BY <1>0, <2>1, <2>2
  <2>4. \A d \in Clients \ {c} : settings[d] = Limits(d)
    BY <2>1, <2>2 DEF TablesInv, Changing
  <2>5. \A d \in Clients \ {c} : Limits(d)' = Limits(d)
    BY <1>0, <1>6, <2>1 DEF LimiterIsSet, LimiterIsRemoved, SetRateLimit,
       RemoveRateLimit, Limits, Limited
  <2>6. settings[c] = Limits(c)'
    <3>1. CASE LimiterIsSet(h)
      <4> DEFINE s == call[h].settings
                 b == [tokens |-> s.capacity, capacity |-> s.capacity,
                       rate |-> s.rate, age |-> 0]
      <4>1. s \in Requested /\ Service!Valid(s) /\ settings[c] = s
        BY <2>1, <3>1 DEF LimiterIsSet, TablesInv, Service!Change
      <4>2. b \in BucketType
        BY <4>1, SettingsAssumption, TimeAssumption, WidthAssumption
           DEF Service!Valid, BucketType
      <4>3. bucket'[c] = b
        BY <1>0, <2>1, <3>1 DEF LimiterIsSet, SetRateLimit
      <4>4. b.capacity = s.capacity /\ b.rate = s.rate
        OBVIOUS
      <4>5. s = [capacity |-> s.capacity, rate |-> s.rate]
        BY <4>1, SettingsAssumption
      <4> HIDE DEF b, s
      <4> QED
        BY <1>0, <4>1, <4>2, <4>3, <4>4, <4>5 DEF Limits, Limited
    <3>2. CASE LimiterIsRemoved(h)
      <4>1. bucket'[c] = None
        BY <1>0, <2>1, <3>2 DEF LimiterIsRemoved, RemoveRateLimit
      <4>2. settings[c] = None
        BY <3>2 DEF LimiterIsRemoved, TablesInv
      <4> QED
        BY <4>1, <4>2 DEF Limits, Limited
    <3> QED
      BY <1>6, <3>1, <3>2
  <2>7. \A d \in Clients : settings'[d] = Limits(d)'
    BY <2>1, <2>4, <2>5, <2>6
  <2>8. Service!ServiceTypeOK'
    BY <1>0, <2>1 DEF Service!ServiceTypeOK
  <2>9. Service!NoChange.op = "none"
    BY DEF Service!NoChange
  <2> QED
    BY <2>3, <2>7, <2>8, <2>9 DEF TablesInv, Changing
<1>7. CASE Refill
  <2>1. bucket' = [c \in Clients |-> IF bucket[c] # None THEN Refilled(bucket[c]) ELSE None]
    BY <1>7 DEF Refill, RefillAll, Limited
  <2>2. \A c \in Clients : bucket[c] # None =>
           /\ Refilled(bucket[c]) \in BucketType
           /\ Refilled(bucket[c]).capacity = bucket[c].capacity
           /\ Refilled(bucket[c]).rate = bucket[c].rate
    BY <1>1, RefillGoverned DEF Sound
  <2>3. \A c \in Clients : Limits(c)' = Limits(c)
    BY <1>0, <2>1, <2>2 DEF Limits, Limited
  <2> QED
    BY <1>7, <2>3, SameLimits DEF Refill, serviceVars
<1>8. CASE Clock
  <2> DEFINE Older(c) == [bucket[c] EXCEPT !.age = @ + 1]
  <2>1. bucket' = [c \in Clients |-> IF bucket[c] # None THEN Older(c) ELSE None]
    BY <1>8 DEF Clock, PassTime, Limited
  <2>2. \A c \in Clients : bucket[c] # None =>
           /\ Older(c) \in BucketType
           /\ Older(c).capacity = bucket[c].capacity /\ Older(c).rate = bucket[c].rate
    BY <1>0, <1>8, TimeAssumption DEF Clock, PassTime, Limited, BucketType
  <2> HIDE DEF Older
  <2>3. \A c \in Clients : Limits(c)' = Limits(c)
    BY <1>0, <2>1, <2>2 DEF Limits, Limited
  <2> QED
    BY <1>8, <2>3, SameLimits DEF Clock, serviceVars
<1>9. CASE Stop
  BY <1>9, SameLimits DEF Stop, StopLimiter, RefillStops, serviceVars, Limits, Limited
<1>10. CASE UNCHANGED vars
  BY <1>10, SameLimits DEF vars, limiterVars, serviceVars, Limits, Limited
<1> QED
  BY <1>2, <1>3, <1>4, <1>5, <1>6, <1>7, <1>8, <1>9, <1>10 DEF Next

-----------------------------------------------------------------------------
LEMMA Inductive == Spec => [](BucketsInv /\ TablesInv)
<1>1. BucketsInv /\ TablesInv /\ [Next]_vars => BucketsInv' /\ TablesInv'
  BY BucketStep, TablesStep DEF TablesInv
<1> QED
  BY <1>1, InitHolds, PTL DEF Spec

\* The tables, the buckets and their refills are of the right types, and no
\* bucket is fuller than its capacity, even after an overflow.
THEOREM TypeCorrect == Spec => []TypeOK
<1>1. BucketsInv /\ TablesInv => TypeOK
  BY DEF BucketsInv, TablesInv, TypeOK
<1> QED
  BY <1>1, Inductive, PTL

\* Token buckets limit bursts: in no window of time, however late or early the
\* refills in it, is a client granted more than its capacity and the flow.
THEOREM BurstBoundHolds == Spec => []BurstBound
<1>1. BucketsInv => BurstBound
  <2> SUFFICES ASSUME BucketsInv, NEW c \in Clients, Limited(c)
               PROVE  Second * window[c].granted
                        <= Second * bucket[c].capacity
                             + bucket[c].rate * (window[c].age + window[c].length)
    BY DEF BurstBound
  <2> DEFINE b == bucket[c]
             w == window[c]
  <2>1. Sound(b, w)
    BY DEF BucketsInv
  <2> HIDE DEF b, w
  <2>2. b \in BucketType /\ w.granted \in Nat /\ w.age + w.length \in Nat
    BY <2>1 DEF Sound, WindowType
  <2>3. Second * w.granted <= Second * (Usable(b) + w.granted)
    BY <2>2, Fields, ProductMonotone
  <2>4. /\ Second * w.granted \in Nat /\ Second * (Usable(b) + w.granted) \in Nat
        /\ b.rate * b.age \in Nat /\ Second * b.capacity \in Nat
        /\ b.rate * (w.age + w.length) \in Nat
    BY <2>2, Fields, ProductInNat
  <2>5. Second * (Usable(b) + w.granted) + b.rate * b.age
           <= Second * b.capacity + b.rate * (w.age + w.length)
    BY <2>1 DEF Sound, Flow
  <2>6. Second * w.granted <= Second * b.capacity + b.rate * (w.age + w.length)
    BY <2>3, <2>4, <2>5
  <2> QED
    BY <2>6 DEF b, w
<1> QED
  BY <1>1, Inductive, PTL

\* No token is lost but by a grant, if a full bucket and the largest refill
\* fit an integer together.
THEOREM NothingLostHolds == Spec => []NothingLost
<1>1. BucketsInv => NothingLost
  BY DEF BucketsInv, Sound, Kept, NothingLost
<1> QED
  BY <1>1, Inductive, PTL

\* Whatever changes of the limits run at the same time, the settings the API
\* shows are the ones the middleware enforces.
THEOREM ListedIsEnforcedHolds == Spec => []ListedIsEnforced
<1>1. TablesInv => ListedIsEnforced
  BY DEF TablesInv, ListedIsEnforced, Service!Unlocked, Changing
<1> QED
  BY <1>1, Inductive, PTL
=============================================================================
