----------------------------- MODULE RingLemmas -----------------------------
(***************************************************************************)
(* The arithmetic of the round-robin ring: n entries, and a counter that   *)
(* wraps at m.  The pool and the load balancer both rest on it.            *)
(***************************************************************************)
EXTENDS Integers, TLAPS

LEMMA DivMod ==
    ASSUME NEW n \in Nat \ {0}, NEW a \in Int
    PROVE  a = n * (a \div n) + (a % n) /\ a % n \in 0 .. n - 1 /\ a \div n \in Int
OBVIOUS

LEMMA ModUnique ==
    ASSUME NEW n \in Nat \ {0}, NEW q \in Int, NEW r \in 0 .. n - 1
    PROVE  (n * q + r) % n = r
OBVIOUS

\* Going once around the ring from any position reaches every entry.
LEMMA FullTurn ==
    ASSUME NEW n \in Nat \ {0}, NEW t \in Nat, NEW j \in 0 .. n - 1
    PROVE  \E i \in 0 .. n - 1 : (t + i) % n = j
<1> DEFINE q == t \div n
           r == t % n
<1>1. t = n * q + r /\ r \in 0 .. n - 1 /\ q \in Int
  BY DivMod
<1> HIDE DEF q, r
<1>2. CASE r <= j
  <2>1. j - r \in 0 .. n - 1 /\ t + (j - r) = n * q + j
    BY <1>1, <1>2
  <2> QED
    BY <1>1, <2>1, ModUnique
<1>3. CASE r > j
  <2>1. j - r + n \in 0 .. n - 1
    BY <1>1, <1>3
  <2>2. t + (j - r + n) = n * (q + 1) + j
    BY <1>1
  <2>3. (n * (q + 1) + j) % n = j
    BY <1>1, q + 1 \in Int, ModUnique
  <2> QED
    BY <2>1, <2>2, <2>3
<1> QED
  BY <1>1, <1>2, <1>3

\* A counter that wraps at m does not disturb the ring of n entries if it
\* does not wrap within the turn, or if n divides m.
LEMMA WrapIsHarmless ==
    ASSUME NEW n \in Nat \ {0}, NEW m \in Nat, n <= m,
           NEW t \in 0 .. m - 1, NEW k \in 0 .. n - 1,
           t + n <= m \/ m % n = 0
    PROVE  ((t + k) % m) % n = (t + k) % n
<1>1. CASE t + k < m
  <2>1. (t + k) % m = t + k
    BY <1>1, ModUnique, m \in Nat \ {0}, t + k \in 0 .. m - 1, m * 0 + (t + k) = t + k
  <2> QED
    BY <2>1
<1>2. CASE t + k >= m
  <2>1. m % n = 0
    BY <1>2
  <2> DEFINE p == m \div n
             x == t + k - m
  <2>2. m = n * p /\ p \in Int
    BY <2>1, DivMod
  <2>3. x \in 0 .. m - 1 /\ t + k = m * 1 + x
    BY <1>2
  <2>4. (t + k) % m = x
    BY <2>3, ModUnique, m \in Nat \ {0}
  <2> DEFINE q == x \div n
             r == x % n
  <2>5. x = n * q + r /\ r \in 0 .. n - 1 /\ q \in Int
    BY <2>3, DivMod
  <2> HIDE DEF p, q, r
  <2>6. t + k = n * p + (n * q + r)
    BY <2>2, <2>3, <2>5
  <2>7. n * p + (n * q + r) = n * (p + q) + r
    BY <2>2, <2>5
  <2>8. (n * (p + q) + r) % n = r
    BY <2>2, <2>5, p + q \in Int, ModUnique
  <2>9. (t + k) % n = r
    BY <2>6, <2>7, <2>8
  <2> QED
    BY <2>4, <2>9 DEF r
<1> QED
  BY <1>1, <1>2

Divides(n, m) == m % n = 0

\* If n divides m, the turn goes on from the next value of the counter, also
\* where that one is 0 again.
LEMMA NextTicket ==
    ASSUME NEW n \in Nat \ {0}, NEW m \in Nat, Divides(n, m),
           NEW t \in 0 .. m - 1, NEW k \in Nat \ {0}
    PROVE  (((t + 1) % m) + (k - 1)) % n = (t + k) % n
<1> DEFINE c == (t + 1) % m
<1>1. CASE t + 1 < m
  <2>1. c = t + 1
    BY <1>1, ModUnique, m \in Nat \ {0}, t + 1 \in 0 .. m - 1, m * 0 + (t + 1) = t + 1
  <2>2. c + (k - 1) = t + k
    BY <2>1
  <2> QED
    BY <2>2
<1>2. CASE t + 1 = m
  <2>1. c = 0
    BY <1>2, ModUnique, m \in Nat \ {0}, 0 \in 0 .. m - 1, m * 1 + 0 = t + 1
  <2> HIDE DEF c
  <2> DEFINE p == m \div n
             x == k - 1
             q == x \div n
             r == x % n
  <2>2. m = n * p /\ p \in Int
    BY DivMod DEF Divides
  <2>3. x \in Int
    OBVIOUS
  <2>4. t + k = m + x
    BY <1>2
  <2> HIDE DEF x
  <2>5. x = n * q + r /\ r \in 0 .. n - 1 /\ q \in Int
    BY <2>3, DivMod
  <2>6. c + x = x
    BY <2>1, <2>3
  <2>7. c + x = n * q + r
    BY <2>5, <2>6
  <2> HIDE DEF p, q, r
  <2>8. t + k = n * p + (n * q + r)
    BY <2>2, <2>5, <2>4
  <2>9. n * p + (n * q + r) = n * (p + q) + r
    BY <2>2, <2>5
  <2>10. (n * (p + q) + r) % n = r
    BY <2>2, <2>5, p + q \in Int, ModUnique
  <2>11. (n * q + r) % n = r
    BY <2>5, ModUnique
  <2>12. (c + x) % n = (t + k) % n
    BY <2>7, <2>8, <2>9, <2>10, <2>11
  <2> QED
    BY <2>12 DEF c, x
<1> QED
  BY <1>1, <1>2
=============================================================================
