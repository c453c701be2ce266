----------------------------- MODULE PaceProofs -----------------------------
(***************************************************************************)
(* The pace at which the workers of a process send to a limited service,   *)
(* for any rate, any number of workers and ticks, however many of them     *)
(* make a second, while the rate stays what it is and the workers are few  *)
(* enough for lim.Wait not to refuse.                                      *)
(***************************************************************************)
EXTENDS GatewayProofs

\* Workers that wait for a token, and those that do for more than j ticks.
Waiting == {w \in Workers : worker[w] = "pacing"}
Late(j) == {w \in Waiting : delay[w] > j}

\* l tokens, and no fewer, are enough for the parts x that are missing.
Covers(l, x) == x <= l * TicksPerSecond /\ (l > 0 => (l - 1) * TicksPerSecond < x)

\* Requests of the last n ticks that have gone or hold a promise.
Granted(n) == sends[n] + Cardinality(Waiting)

\* What a service may be sent within n ticks, in parts.
Allowed(n) == Pace!Burst(rps) + rps * (n - 1)

Limited == edits = 0 /\ rps > 0 /\ Pace!WaitsSuffice

\* The workers that wait longer than j ticks are those whose tokens j ticks will
\* not fill; and what was granted and what the bucket still holds are together no
\* more than the burst and what has accrued.
Books ==
  /\ \A w \in Workers : worker[w] # "idle" => carried[w] = rps
  /\ built \in {0, rps}
  /\ \A j \in Nat : Covers(Cardinality(Late(j)), 0 - Pace!Filled(rps) - j * rps)
  /\ \A n \in Pace!Past : Granted(n) * TicksPerSecond + Pace!Filled(rps) <= Allowed(n)

PaceInv == Pace!TypeOK /\ (Limited => Books)

-----------------------------------------------------------------------------
(* The cardinality Sender uses is that of the library's theorems. *)
LEMMA PaceFinite ==
  /\ IsFiniteSet(Workers)
  /\ Pace!WaitsSuffice <=> Cardinality(Workers) < rps * MaxWait
<1>1. \A S : Pace!IsFiniteSet(S) <=> IsFiniteSet(S)
  BY DEF Pace!IsFiniteSet, IsFiniteSet
<1>2. \A S : Pace!Cardinality(S) = Cardinality(S)
  BY DEF Pace!Cardinality, Cardinality
<1> QED BY <1>1, <1>2, GatewayAssumption DEF Pace!SenderAssumption, Pace!WaitsSuffice

(* The workers that wait are finitely many. *)
LEMMA Waits ==
  /\ IsFiniteSet(Waiting) /\ Cardinality(Waiting) \in Nat
  /\ \A j : /\ IsFiniteSet(Late(j)) /\ Cardinality(Late(j)) \in Nat
            /\ Cardinality(Late(j)) <= Cardinality(Waiting)
<1>1. \A S \in SUBSET Workers : IsFiniteSet(S) /\ Cardinality(S) \in Nat
  BY PaceFinite, FS_Subset, FS_CardinalityType
<1>2. Waiting \subseteq Workers /\ \A j : Late(j) \subseteq Waiting
  BY DEF Late, Waiting
<1>3. IsFiniteSet(Waiting) /\ Cardinality(Waiting) \in Nat
  BY <1>1, <1>2
<1>4. ASSUME NEW j
      PROVE  /\ IsFiniteSet(Late(j)) /\ Cardinality(Late(j)) \in Nat
             /\ Cardinality(Late(j)) <= Cardinality(Waiting)
  <2>1. Late(j) \subseteq Workers /\ Late(j) \subseteq Waiting
    BY <1>2
  <2> QED BY <1>1, <1>3, <2>1, FS_Subset
<1> QED BY <1>3, <1>4

(* The numbers the books are about. *)
LEMMA PaceNumbers ==
  ASSUME Pace!TypeOK
  PROVE  /\ rps \in Nat /\ rps \in Rates /\ Window \in Nat \ {0}
         /\ Pace!Filled(rps) \in Int /\ Pace!Filled(rps) <= rps * TicksPerSecond
         /\ Pace!Burst(rps) = rps * TicksPerSecond
         /\ \A n \in Pace!Past : /\ n \in Nat \ {0} /\ sends[n] \in Nat
                                 /\ Granted(n) \in Nat /\ Allowed(n) \in Int
<1>1. rps \in Rates /\ rps \in Nat /\ Window \in Nat \ {0} /\ Pace!Burst(rps) \in Nat
  BY PaceConstants, BurstType DEF Pace!TypeOK
<1>2. ASSUME NEW n \in Pace!Past
      PROVE  n \in Nat \ {0} /\ sends[n] \in Nat /\ Granted(n) \in Nat /\ Allowed(n) \in Int
  <2>1. n \in Nat \ {0} /\ sends[n] \in Nat
    BY <1>1 DEF Pace!Past, Pace!TypeOK
  <2>2. rps * (n - 1) \in Int
    BY <1>1, <2>1
  <2> QED BY <1>1, <2>1, <2>2, Waits DEF Granted, Allowed
<1> QED BY <1>1, <1>2, Bucket DEF Pace!Burst

-----------------------------------------------------------------------------
(***************************************************************************)
(* Arithmetic of tokens and their parts.                                   *)
(***************************************************************************)

(* Products grow with their factors. *)
LEMMA Grows ==
  ASSUME NEW r \in Nat, NEW a \in Nat, NEW b \in Nat, a <= b
  PROVE  a * r <= b * r /\ a * r \in Nat /\ b * r \in Nat
<1>1. PICK k \in Nat : b = a + k
  <2>1. b - a \in Nat /\ b = a + (b - a)
    OBVIOUS
  <2> QED BY <2>1
<1>2. b * r = a * r + k * r
  BY <1>1
<1>3. k * r \in Nat /\ a * r \in Nat
  OBVIOUS
<1> QED BY <1>2, <1>3

(* How many ticks the parts that are owed are off. *)
LEMMA Turn ==
  ASSUME NEW r \in Nat \ {0}, NEW owed \in Nat \ {0}, NEW j \in Nat
  PROVE  /\ (owed + (r - 1)) \div r > j <=> owed > j * r
         /\ (owed + (r - 1)) \div r \in Nat \ {0}
<1> DEFINE n == (owed + (r - 1)) \div r
<1>1. n \in Nat /\ n * r <= owed + (r - 1) /\ owed + (r - 1) < (n + 1) * r
  OBVIOUS
<1> HIDE DEF n
<1>2. ASSUME n > j PROVE owed > j * r
  <2>1. (j + 1) * r <= n * r /\ (j + 1) * r = j * r + r /\ n * r \in Nat /\ j * r \in Nat
    BY <1>1, <1>2, Grows
  <2> QED BY <1>1, <2>1
<1>3. ASSUME ~(n > j) PROVE ~(owed > j * r)
  <2>1. (n + 1) * r <= (j + 1) * r /\ (j + 1) * r = j * r + r /\ (n + 1) * r \in Nat /\ j * r \in Nat
    BY <1>1, <1>3, Grows
  <2> QED BY <1>1, <2>1
<1>4. n > 0
  <2>1. n = 0 => (n + 1) * r = r
    BY <1>1
  <2> QED BY <1>1, <2>1
<1> QED BY <1>1, <1>2, <1>3, <1>4 DEF n

(* One token more, in parts. *)
LEMMA OneMore ==
  ASSUME NEW l \in Nat, NEW u \in Nat
  PROVE  (l + 1) * u = l * u + u /\ (l - 1) * u = l * u - u /\ l * u \in Nat
OBVIOUS

(* One more token that is promised is one more to wait for, if it is missing, and
   none is missing of a token that is there. *)
LEMMA CoversMore ==
  ASSUME NEW l \in Nat, NEW x \in Int, Covers(l, x)
  PROVE  /\ x + TicksPerSecond > 0 => Covers(l + 1, x + TicksPerSecond)
         /\ x + TicksPerSecond <= 0 => Covers(l, x + TicksPerSecond)
<1> DEFINE u == TicksPerSecond
           m == l * u
<1>1. u \in Nat \ {0} /\ m \in Nat /\ (l + 1) * u = m + u /\ (l - 1) * u = m - u
  BY PaceConstants, OneMore
<1>2. x <= m /\ (l > 0 => m - u < x) /\ (l = 0 => m = 0) /\ (l + 1) - 1 = l
  BY <1>1 DEF Covers
<1>3. l > 0 => u <= m
  <2>1. ASSUME l > 0 PROVE 1 * u <= l * u
    BY <1>1, <2>1, Grows
  <2> QED BY <1>1, <2>1
<1> HIDE DEF m, u
<1>4. ASSUME x + u > 0 PROVE x + u <= m + u /\ m < x + u
  BY <1>1, <1>2, <1>4
<1>5. ASSUME x + u <= 0 PROVE l = 0 /\ x + u <= m
  BY <1>1, <1>2, <1>3, <1>5
<1> QED BY <1>1, <1>2, <1>4, <1>5 DEF Covers, m, u

(* Nothing is missing exactly when nobody need wait. *)
LEMMA CoversNone ==
  ASSUME NEW l \in Nat, NEW x \in Int, NEW y \in Int, Covers(l, x), x <= 0, y <= 0
  PROVE  Covers(l, y)
<1>1. TicksPerSecond \in Nat \ {0}
  BY PaceConstants
<1>2. l = 0
  <2> SUFFICES ASSUME l > 0 PROVE FALSE
    OBVIOUS
  <2>1. l - 1 \in Nat /\ (l - 1) * TicksPerSecond < x
    BY DEF Covers
  <2>2. (l - 1) * TicksPerSecond \in Nat
    BY <1>1, <2>1
  <2> QED BY <2>1, <2>2
<1>3. 0 * TicksPerSecond = 0
  BY <1>1
<1> QED BY <1>2, <1>3 DEF Covers

(* What a tick adds takes the place of what was missing for one more. *)
LEMMA CoversTick ==
  ASSUME NEW l \in Nat, NEW t \in Int, NEW r \in Nat \ {0}, NEW j \in Nat,
         Covers(l, 0 - t - (j + 1) * r)
  PROVE  Covers(l, 0 - Pace!LeastOf(t + r, r * TicksPerSecond) - j * r)
<1> DEFINE b == r * TicksPerSecond
           m == j * r
<1>1. m \in Nat /\ (j + 1) * r = m + r
  BY OneMore
<1>2. b \in Nat /\ r <= b
  <2>1. 1 * r <= TicksPerSecond * r /\ TicksPerSecond * r \in Nat /\ TicksPerSecond * r = b /\ 1 * r = r
    BY PaceConstants, Grows
  <2> QED BY <2>1
<1> HIDE DEF b, m
<1>3. Covers(l, 0 - t - (m + r))
  BY <1>1
<1>4. CASE t + r < b
  <2>1. 0 - Pace!LeastOf(t + r, b) - m = 0 - t - (m + r)
    BY <1>1, <1>4 DEF Pace!LeastOf
  <2> QED BY <1>3, <2>1 DEF b, m
<1>5. CASE ~(t + r < b)
  <2>1. /\ 0 - t - (m + r) \in Int /\ 0 - t - (m + r) <= 0
        /\ 0 - Pace!LeastOf(t + r, b) - m \in Int /\ 0 - Pace!LeastOf(t + r, b) - m <= 0
    BY <1>1, <1>2, <1>5 DEF Pace!LeastOf
  <2>2. Covers(l, 0 - Pace!LeastOf(t + r, b) - m)
    BY <1>3, <2>1, CoversNone
  <2> QED BY <2>2 DEF b, m
<1> QED BY <1>4, <1>5

(* What waits and what a tick brings is no more than the burst. *)
LEMMA TickBurst ==
  ASSUME NEW l \in Nat, NEW t \in Int, NEW r \in Nat \ {0}, Covers(l, 0 - t - 0 * r)
  PROVE  l * TicksPerSecond + Pace!LeastOf(t + r, r * TicksPerSecond) <= r * TicksPerSecond
<1> DEFINE u == TicksPerSecond
           b == r * u
           m == l * u
<1>1. u \in Nat \ {0} /\ m \in Nat /\ (l - 1) * u = m - u /\ 0 * r = 0 /\ b \in Nat
  BY PaceConstants, OneMore
<1>2. u - 1 + r <= b
  <2>1. (r - 1) * u = b - u /\ r - 1 \in Nat /\ (r - 1) * 1 = r - 1 /\ u * (r - 1) = (r - 1) * u
    BY <1>1
  <2>2. 1 * (r - 1) <= u * (r - 1)
    BY <1>1, <2>1, Grows
  <2>3. 1 * (r - 1) = r - 1
    BY <2>1
  <2> HIDE DEF b, u
  <2> QED BY <1>1, <2>1, <2>2, <2>3
<1>3. l > 0 => m - u < 0 - t
  BY <1>1 DEF Covers
<1>4. l = 0 => m = 0
  BY <1>1
<1> HIDE DEF b, m, u
<1>5. Pace!LeastOf(t + r, b) \in Int /\ Pace!LeastOf(t + r, b) <= b /\ Pace!LeastOf(t + r, b) <= t + r
  BY <1>1 DEF Pace!LeastOf
<1>6. m + Pace!LeastOf(t + r, b) <= b
  BY <1>1, <1>2, <1>3, <1>4, <1>5
<1> QED BY <1>6 DEF b, m, u

-----------------------------------------------------------------------------
(***************************************************************************)
(* Every step keeps the books.                                             *)
(***************************************************************************)

(* A step by which no worker begins or ends to wait, no request goes and the
   bucket stays as it is. *)
LEMMA BooksKept ==
  ASSUME Books, UNCHANGED <<rps, built, tokens, sends, delay>>,
         \A w \in Workers : /\ worker'[w] = "pacing" <=> worker[w] = "pacing"
                            /\ worker'[w] # "idle" => carried'[w] = rps
  PROVE  Books'
<1>1. /\ \A j : Late(j)' = Late(j)
      /\ Waiting' = Waiting /\ Pace!Filled(rps)' = Pace!Filled(rps)
  BY DEF Late, Waiting, Pace!Filled, Pace!Burst
<1>2. \A n : Granted(n)' = Granted(n) /\ Allowed(n)' = Allowed(n)
  BY <1>1 DEF Granted, Allowed, Pace!Burst
<1> QED BY <1>1, <1>2 DEF Books, Covers

(* A worker whose token is there lets its request go. *)
LEMMA ReleaseBooks ==
  ASSUME Pace!TypeOK, Books, NEW w \in Workers, Pace!Release(w)
  PROVE  Books'
<1>1. /\ worker[w] = "pacing" /\ delay[w] = 0 /\ worker' = [worker EXCEPT ![w] = "sending"]
      /\ sends' = [n \in Pace!Past |-> sends[n] + 1]
      /\ UNCHANGED <<rps, built, tokens, carried, delay>>
      /\ worker \in [Workers -> {"idle", "ready", "pacing", "sending"}]
  BY DEF Pace!Release, Pace!Goes, Pace!bucket, Pace!TypeOK
<1>2. /\ \A j \in Nat : Late(j)' = Late(j)
      /\ Waiting' = Waiting \ {w} /\ w \in Waiting /\ Pace!Filled(rps)' = Pace!Filled(rps)
  BY <1>1 DEF Late, Waiting, Pace!Filled, Pace!Burst
<1>3. Cardinality(Waiting \ {w}) = Cardinality(Waiting) - 1
  BY <1>2, Waits, FS_RemoveElement
<1>4. ASSUME NEW n \in Pace!Past
      PROVE  Granted(n)' = Granted(n) /\ Allowed(n)' = Allowed(n)
  <2>1. sends'[n] = sends[n] + 1 /\ Cardinality(Waiting)' = Cardinality(Waiting) - 1
    BY <1>1, <1>2, <1>3
  <2>2. sends[n] \in Nat /\ Cardinality(Waiting) \in Nat
    BY PaceNumbers, Waits
  <2> QED BY <1>1, <2>1, <2>2 DEF Granted, Allowed, Pace!Burst
<1>5. \A j \in Nat : Covers(Cardinality(Late(j)), 0 - Pace!Filled(rps) - j * rps)'
  BY <1>1, <1>2 DEF Books, Covers
<1>6. \A n \in Pace!Past : Granted(n)' * TicksPerSecond + Pace!Filled(rps)' <= Allowed(n)'
  BY <1>2, <1>4 DEF Books
<1>7. built' \in {0, rps'} /\ \A v \in Workers : worker'[v] # "idle" => carried'[v] = rps'
  BY <1>1 DEF Books
<1> QED BY <1>5, <1>6, <1>7 DEF Books

(* How long the next in line has to wait, and that it is not too long. *)
LEMMA NeverRefused ==
  ASSUME Pace!TypeOK, Limited, Books, NEW w \in Workers, worker[w] = "ready"
  PROVE  /\ carried[w] = rps /\ Pace!InReach(rps) /\ Pace!Until(rps) \in Nat
         /\ \A j \in Nat : Pace!Until(rps) > j <=>
                             0 - Pace!Filled(rps) - j * rps + TicksPerSecond > 0
<1> DEFINE T == Pace!Filled(rps)
           u == TicksPerSecond
           owed == u - T
           c == Cardinality(Workers)
           l == Cardinality(Late(0))
<1>1. /\ rps \in Nat \ {0} /\ T \in Int /\ MaxWait \in Nat /\ u \in Nat \ {0}
      /\ MaxWait * u \in Nat
  BY PaceNumbers, PaceConstants DEF Limited
<1>2. carried[w] = rps
  BY DEF Books
<1>3. c \in Nat /\ l \in Nat /\ l + 1 <= c /\ c <= rps * MaxWait /\ rps * MaxWait \in Nat
  <2>1. Late(0) \subseteq Workers /\ w \notin Late(0)
    BY DEF Late, Waiting
  <2>2. l <= c /\ l # c
    BY <2>1, PaceFinite, FS_Subset
  <2>3. c \in Nat /\ l \in Nat
    BY PaceFinite, Waits, FS_CardinalityType
  <2>4. c < rps * MaxWait /\ rps * MaxWait \in Nat
    BY <1>1, PaceFinite DEF Limited
  <2> HIDE DEF c, l
  <2> QED BY <2>2, <2>3, <2>4
<1>4. owed <= MaxWait * u * rps
  <2>1. 0 - T - 0 * rps <= l * u
    BY DEF Books, Covers
  <2>2. (l + 1) * u <= c * u /\ c * u <= (rps * MaxWait) * u /\ c * u \in Int /\ l * u \in Int
    <3> HIDE DEF l, c, u
    <3> QED BY <1>1, <1>3, Grows
  <2>3. (l + 1) * u = l * u + u /\ (rps * MaxWait) * u = MaxWait * u * rps /\ 0 * rps = 0
    <3> HIDE DEF l, u
    <3> QED BY <1>1, <1>3
  <2> HIDE DEF T, u, l, c
  <2> QED BY <1>1, <2>1, <2>2, <2>3
<1>5. Pace!Until(rps) = IF owed <= 0 THEN 0 ELSE (owed + (rps - 1)) \div rps
  BY DEF Pace!Until
<1>6. owed \in Int
  BY <1>1
<1>7. /\ Pace!Until(rps) \in Nat
      /\ \A j \in Nat : Pace!Until(rps) > j <=> owed > j * rps
  <2> HIDE DEF owed
  <2>1. CASE owed <= 0
    <3>1. ASSUME NEW j \in Nat PROVE j * rps \in Nat
      BY <1>1
    <3> QED BY <1>5, <1>6, <2>1, <3>1
  <2>2. CASE ~(owed <= 0)
    <3>1. owed \in Nat \ {0}
      BY <1>6, <2>2
    <3> QED BY <1>1, <1>5, <2>2, <3>1, Turn
  <2> QED BY <2>1, <2>2
<1>8. Pace!InReach(rps)
  <2> HIDE DEF owed
  <2>1. ~(Pace!Until(rps) > MaxWait * u)
    <3>1. MaxWait * u \in Nat /\ MaxWait * u * rps \in Nat
      BY <1>1
    <3> HIDE DEF u
    <3> QED BY <1>4, <1>6, <1>7, <3>1
  <2>2. MaxWait * u \in Nat /\ Pace!Until(rps) \in Nat
    BY <1>1, <1>7
  <2>3. Pace!Until(rps) <= MaxWait * u
    <3> HIDE DEF u
    <3> QED BY <2>1, <2>2
  <2> QED BY <2>3 DEF Pace!InReach
<1>9. ASSUME NEW j \in Nat PROVE owed > j * rps <=> 0 - T - j * rps + u > 0
  <2>1. j * rps \in Nat
    BY <1>1
  <2> HIDE DEF T, u
  <2> QED BY <1>1, <2>1
<1> QED BY <1>2, <1>7, <1>8, <1>9

(* A token is taken, or promised to one more worker. *)
LEMMA ReserveBooks ==
  ASSUME Pace!TypeOK, Limited, Books, NEW w \in Workers, Pace!Reserve(w)
  PROVE  Books'
<1> DEFINE T == Pace!Filled(rps)
           u == TicksPerSecond
           k == Pace!Until(rps)
<1>1. /\ worker[w] = "ready" /\ carried[w] = rps /\ k \in Nat
      /\ \A j \in Nat : k > j <=> 0 - T - j * rps + u > 0
  <2>1. worker[w] = "ready"
    BY DEF Pace!Reserve
  <2> QED BY <2>1, NeverRefused
<1>2. /\ rps \in Nat \ {0} /\ T \in Int /\ u \in Nat \ {0}
      /\ worker \in [Workers -> {"idle", "ready", "pacing", "sending"}]
      /\ delay \in [Workers -> Int]
  <2>1. delay \in [Workers -> 0..(MaxWait * TicksPerSecond)]
    BY DEF Pace!TypeOK
  <2>2. 0..(MaxWait * TicksPerSecond) \subseteq Int
    OBVIOUS
  <2>3. worker \in [Workers -> {"idle", "ready", "pacing", "sending"}]
    BY DEF Pace!TypeOK
  <2>4. delay \in [Workers -> Int]
    BY <2>1, <2>2
  <2> QED BY <2>3, <2>4, PaceNumbers, PaceConstants DEF Limited
<1>3. built' = rps /\ tokens' = T - u /\ rps' = rps /\ carried' = carried
  BY <1>1 DEF Pace!Reserve
<1>4. Pace!Filled(rps)' = T - u
  BY <1>3 DEF Pace!Filled
<1>5. /\ \A j \in Nat : /\ Covers(Cardinality(Late(j)), 0 - T - j * rps)
                        /\ Cardinality(Late(j)) \in Nat /\ 0 - T - j * rps \in Int
      /\ \A n \in Pace!Past : /\ Granted(n) * u + T <= Allowed(n)
                              /\ Granted(n) \in Nat /\ Allowed(n) \in Int
                              /\ sends[n] \in Nat
      /\ Cardinality(Waiting) \in Nat
  <2>1. \A j \in Nat : 0 - T - j * rps \in Int
    <3> HIDE DEF T
    <3> QED BY <1>2
  <2> QED BY <2>1, PaceNumbers, Waits DEF Books
<1>6. \A v \in Workers : worker'[v] # "idle" => carried'[v] = rps'
  BY <1>2, <1>3, <1>1 DEF Books, Pace!Reserve, Pace!Goes
<1>7. \A n \in Pace!Past : Allowed(n)' = Allowed(n)
  BY <1>3 DEF Allowed, Pace!Burst
<1>8. \A j \in Nat : (0 - Pace!Filled(rps) - j * rps)' = 0 - T - j * rps + u
  <2>1. \A j \in Nat : (0 - Pace!Filled(rps) - j * rps)' = 0 - (T - u) - j * rps
    BY <1>3, <1>4
  <2>2. ASSUME NEW j \in Nat PROVE 0 - (T - u) - j * rps = 0 - T - j * rps + u
    <3>1. j * rps \in Int
      BY <1>2
    <3> HIDE DEF T, u
    <3> QED BY <1>2, <3>1
  <2> HIDE DEF T, u
  <2> QED BY <2>1, <2>2
(* One more is granted and as much taken out of the bucket. *)
<1>9. ASSUME NEW n \in Pace!Past, Granted(n)' = Granted(n) + 1
      PROVE  Granted(n)' * TicksPerSecond + Pace!Filled(rps)' <= Allowed(n)'
  <2>1. (Granted(n) + 1) * u = Granted(n) * u + u /\ Granted(n) * u \in Nat
    <3> HIDE DEF u
    <3> QED BY <1>2, <1>5, OneMore
  <2>2. Granted(n) * u + T <= Allowed(n) /\ Allowed(n) \in Int
    BY <1>5
  <2> HIDE DEF T, u
  <2>3. (Granted(n) * u + u) + (T - u) <= Allowed(n)
    BY <1>2, <2>1, <2>2
  <2> QED BY <1>4, <1>7, <1>9, <2>1, <2>3 DEF u
<1>10. CASE k = 0
  <2>1. /\ worker' = [worker EXCEPT ![w] = "sending"] /\ delay' = delay
        /\ sends' = [n \in Pace!Past |-> sends[n] + 1]
    BY <1>1, <1>10 DEF Pace!Reserve, Pace!Goes
  <2>2. /\ \A j \in Nat : Late(j)' = Late(j)
        /\ Waiting' = Waiting
    BY <1>1, <1>2, <2>1 DEF Late, Waiting
  <2>3. ASSUME NEW n \in Pace!Past PROVE Granted(n)' = Granted(n) + 1
    <3>1. sends'[n] = sends[n] + 1 /\ Cardinality(Waiting)' = Cardinality(Waiting)
      BY <2>1, <2>2
    <3> QED BY <1>5, <3>1 DEF Granted
  <2>4. ASSUME NEW j \in Nat PROVE Covers(Cardinality(Late(j)), 0 - Pace!Filled(rps) - j * rps)'
    <3> DEFINE x == 0 - T - j * rps
               l == Cardinality(Late(j))
    <3>1. Covers(l, x) /\ l \in Nat /\ x \in Int /\ ~(x + u > 0)
      BY <1>1, <1>5, <1>10
    <3>2. Cardinality(Late(j))' = l /\ (0 - Pace!Filled(rps) - j * rps)' = x + u
      BY <1>8, <2>2
    <3> HIDE DEF x, l
    <3>3. x + u <= 0
      BY <1>2, <3>1
    <3>4. Covers(l, x + u)
      BY <3>1, <3>3, CoversMore
    <3> QED BY <3>2, <3>4 DEF Covers
  <2> QED BY <1>3, <1>6, <1>9, <2>3, <2>4 DEF Books
<1>11. CASE k # 0
  <2>1. /\ worker' = [worker EXCEPT ![w] = "pacing"] /\ delay' = [delay EXCEPT ![w] = k]
        /\ sends' = sends
    BY <1>1, <1>11 DEF Pace!Reserve
  <2> HIDE DEF k
  <2>2. ASSUME NEW j \in Nat
        PROVE  /\ Late(j)' = IF k > j THEN Late(j) \union {w} ELSE Late(j)
               /\ w \notin Late(j)
    BY <1>1, <1>2, <2>1 DEF Late, Waiting
  <2>3. Waiting' = Waiting \union {w} /\ w \notin Waiting
    BY <1>1, <1>2, <2>1 DEF Waiting
  <2>4. Cardinality(Waiting)' = Cardinality(Waiting) + 1
    BY <2>3, Waits, FS_AddElement
  <2>5. ASSUME NEW n \in Pace!Past PROVE Granted(n)' = Granted(n) + 1
    BY <1>5, <2>1, <2>4 DEF Granted
  <2>6. ASSUME NEW j \in Nat PROVE Covers(Cardinality(Late(j)), 0 - Pace!Filled(rps) - j * rps)'
    <3> DEFINE x == 0 - T - j * rps
               l == Cardinality(Late(j))
    <3>1. Covers(l, x) /\ l \in Nat /\ x \in Int /\ (k > j <=> x + u > 0)
      BY <1>1, <1>5
    <3>2. (0 - Pace!Filled(rps) - j * rps)' = x + u
      BY <1>8
    <3>3. Cardinality(Late(j))' = IF k > j THEN l + 1 ELSE l
      BY <2>2, Waits, FS_AddElement
    <3> HIDE DEF x, l
    <3>4. ~(x + u > 0) => x + u <= 0
      BY <1>2, <3>1
    <3>5. /\ x + TicksPerSecond > 0 => Covers(l + 1, x + TicksPerSecond)
          /\ x + TicksPerSecond <= 0 => Covers(l, x + TicksPerSecond)
      BY <3>1, CoversMore
    <3>6. Covers(IF k > j THEN l + 1 ELSE l, x + u)
      BY <3>1, <3>4, <3>5
    <3> QED BY <3>2, <3>3, <3>6 DEF Covers
  <2> QED BY <1>3, <1>6, <1>9, <2>5, <2>6 DEF Books
<1> QED BY <1>10, <1>11

(* A tick passes: what it adds is there, or missing no longer. *)
LEMMA TickBooks ==
  ASSUME Pace!TypeOK, Limited, Books, Pace!Tick
  PROVE  Books'
<1> DEFINE T == Pace!Filled(rps)
           b == rps * TicksPerSecond
           F == Pace!LeastOf(T + rps, b)
<1>1. /\ rps \in Nat \ {0} /\ T \in Int /\ T <= b /\ b \in Nat /\ Pace!Burst(rps) = b
      /\ TicksPerSecond \in Nat \ {0} /\ built \in {0, rps}
  BY PaceNumbers, PaceConstants DEF Limited, Books
<1>2. delay \in [Workers -> Nat]
  <2>1. delay \in [Workers -> 0..(MaxWait * TicksPerSecond)]
    BY DEF Pace!TypeOK
  <2>2. 0..(MaxWait * TicksPerSecond) \subseteq Nat
    OBVIOUS
  <2> QED BY <2>1, <2>2
<1>3. /\ \A w \in Workers : worker[w] = "pacing" => delay[w] > 0
      /\ tokens' = Pace!LeastOf(tokens + built, Pace!Burst(built))
      /\ delay' = [w \in Workers |-> IF delay[w] > 0 THEN delay[w] - 1 ELSE 0]
      /\ sends' = [n \in Pace!Past |-> IF n = 1 THEN 0 ELSE sends[n - 1]]
      /\ UNCHANGED <<rps, built, worker, carried>>
  BY DEF Pace!Tick
<1>4. Pace!Filled(rps)' = F
  <2>1. CASE built = rps
    BY <1>1, <1>3, <2>1 DEF Pace!Filled
  <2>2. CASE built # rps
    <3>1. T = b /\ Pace!Filled(rps)' = b
      BY <1>1, <1>3, <2>2 DEF Pace!Filled, Pace!Burst
    <3> HIDE DEF T, b
    <3> QED BY <1>1, <3>1 DEF Pace!LeastOf
  <2> QED BY <2>1, <2>2
<1>5. /\ Waiting = Late(0) /\ Waiting' = Waiting
      /\ \A j \in Nat : Late(j)' = Late(j + 1)
  BY <1>2, <1>3 DEF Late, Waiting
<1>6. /\ \A j \in Nat : Covers(Cardinality(Late(j)), 0 - T - j * rps)
      /\ \A n \in Pace!Past : Granted(n) * TicksPerSecond + T <= Allowed(n)
  BY DEF Books
<1> HIDE DEF T
<1>7. ASSUME NEW j \in Nat
      PROVE  Covers(Cardinality(Late(j)), 0 - Pace!Filled(rps) - j * rps)'
  <2> DEFINE l == Cardinality(Late(j + 1))
  <2>1. l \in Nat /\ Covers(l, 0 - T - (j + 1) * rps)
    BY <1>6, Waits
  <2>2. Cardinality(Late(j))' = l
    BY <1>5
  <2>3. (0 - Pace!Filled(rps) - j * rps)' = 0 - F - j * rps
    BY <1>3, <1>4
  <2> HIDE DEF l, F
  <2>4. Covers(l, 0 - F - j * rps)
    BY <1>1, <2>1, CoversTick DEF F
  <2> QED BY <2>2, <2>3, <2>4 DEF Covers
<1>8. ASSUME NEW n \in Pace!Past
      PROVE  Granted(n)' * TicksPerSecond + Pace!Filled(rps)' <= Allowed(n)'
  <2> DEFINE l == Cardinality(Waiting)
  <2>0. l \in Nat /\ Cardinality(Waiting)' = l /\ n \in Nat \ {0}
    BY <1>5, Waits, PaceNumbers
  <2>1. CASE n = 1
    <3>1. Granted(n)' = l
      BY <1>3, <2>0, <2>1 DEF Granted
    <3>2. Allowed(n)' = b
      <4>1. rps' * (n - 1) = 0 /\ Pace!Burst(rps)' = b
        BY <1>1, <1>3, <2>1 DEF Pace!Burst
      <4> QED BY <1>1, <4>1 DEF Allowed
    <3>3. Covers(l, 0 - T - 0 * rps)
      BY <1>5, <1>6
    <3> HIDE DEF l, F
    <3>4. l * TicksPerSecond + F <= b
      BY <1>1, <2>0, <3>3, TickBurst DEF F
    <3> QED BY <1>4, <3>1, <3>2, <3>4
  <2>2. CASE n # 1
    <3>1. n - 1 \in Pace!Past /\ sends'[n] = sends[n - 1]
      BY <1>3, <2>0, <2>2, PaceNumbers DEF Pace!Past
    <3>2. Granted(n)' = Granted(n - 1)
      BY <2>0, <3>1 DEF Granted
    <3>3. Allowed(n)' = Allowed(n - 1) + rps /\ Allowed(n - 1) \in Int
      <4>1. Allowed(n)' = b + rps * (n - 1)
        BY <1>1, <1>3 DEF Allowed, Pace!Burst
      <4>2. Allowed(n - 1) = b + rps * ((n - 1) - 1)
        BY <1>1 DEF Allowed
      <4>3. rps * (n - 1) = rps * ((n - 1) - 1) + rps /\ rps * ((n - 1) - 1) \in Int
        BY <1>1, <2>0
      <4> HIDE DEF b
      <4> QED BY <1>1, <4>1, <4>2, <4>3
    <3>4. Granted(n - 1) * TicksPerSecond + T <= Allowed(n - 1) /\ Granted(n - 1) \in Nat
      BY <1>6, <3>1, PaceNumbers
    <3>5. F <= T + rps /\ F \in Int
      <4> HIDE DEF b
      <4> QED BY <1>1 DEF Pace!LeastOf
    <3>6. Granted(n - 1) * TicksPerSecond \in Int
      BY <1>1, <3>4
    <3> HIDE DEF F
    <3>7. Granted(n - 1) * TicksPerSecond + F <= Allowed(n - 1) + rps
      BY <1>1, <3>3, <3>4, <3>5, <3>6
    <3> QED BY <1>4, <3>2, <3>3, <3>7
  <2> QED BY <2>1, <2>2
<1>9. built' \in {0, rps'} /\ \A w \in Workers : worker'[w] # "idle" => carried'[w] = rps'
  BY <1>3 DEF Books
<1> QED BY <1>7, <1>8, <1>9 DEF Books

(* With the first edit of the rate the books end; before it, it stands still. *)
LEMMA StillLimited ==
  ASSUME Pace!TypeOK, [Pace!Next]_paceVars, Limited'
  PROVE  Limited /\ rps' = rps /\ \A rate \in Rates : ~ Pace!Edit(rate)
<1>1. edits \in Nat /\ edits' = 0
  BY PaceConstants DEF Pace!TypeOK, Limited
<1>2. ASSUME NEW rate \in Rates, Pace!Edit(rate) PROVE FALSE
  BY <1>1, <1>2 DEF Pace!Edit
<1>3. UNCHANGED <<rps, edits>>
  BY <1>2 DEF Pace!Next, Pace!Deliver, Pace!Take, Pace!PassUnlimited, Pace!Reserve,
              Pace!SendAnyway, Pace!Release, Pace!Answer, Pace!Tick, paceVars
<1>4. Limited
  BY <1>3, PaceFinite DEF Limited, Pace!WaitsSuffice
<1> QED BY <1>2, <1>3, <1>4

(* Every step of a worker and every tick keep the books. *)
LEMMA BooksStep ==
  ASSUME PaceInv, [Pace!Next]_paceVars
  PROVE  PaceInv'
<1>t. Pace!TypeOK /\ Pace!TypeOK'
  BY PaceKept DEF PaceInv
<1> SUFFICES ASSUME Limited' PROVE Books'
  BY <1>t DEF PaceInv
<1>l. Limited /\ Books /\ rps' = rps /\ \A rate \in Rates : ~ Pace!Edit(rate)
  BY <1>t, StillLimited DEF PaceInv
<1>w. /\ worker \in [Workers -> {"idle", "ready", "pacing", "sending"}]
      /\ carried \in [Workers -> Rates \union {0}]
      /\ \A w \in Workers : worker[w] # "idle" => carried[w] = rps
      /\ rps > 0
  BY <1>l, <1>t DEF Pace!TypeOK, Books, Limited
<1>1. ASSUME NEW w \in Workers, Pace!Take(w) PROVE Books'
  <2>1. /\ UNCHANGED <<rps, built, tokens, sends, delay>>
        /\ \A v \in Workers : /\ worker'[v] = "pacing" <=> worker[v] = "pacing"
                              /\ worker'[v] # "idle" => carried'[v] = rps
    BY <1>1, <1>w DEF Pace!Take, Pace!bucket
  <2> QED BY <1>l, <2>1, BooksKept
<1>2. ASSUME NEW w \in Workers, Pace!Answer(w) PROVE Books'
  <2>1. /\ UNCHANGED <<rps, built, tokens, sends, delay>>
        /\ \A v \in Workers : /\ worker'[v] = "pacing" <=> worker[v] = "pacing"
                              /\ worker'[v] # "idle" => carried'[v] = rps
    BY <1>2, <1>w DEF Pace!Answer, Pace!bucket
  <2> QED BY <1>l, <2>1, BooksKept
<1>3. ASSUME NEW w \in Workers, Pace!PassUnlimited(w) PROVE Books'
  BY <1>3, <1>w DEF Pace!PassUnlimited
<1>4. ASSUME NEW w \in Workers, Pace!Reserve(w) PROVE Books'
  BY <1>4, <1>l, <1>t, ReserveBooks
<1>5. ASSUME NEW w \in Workers, Pace!SendAnyway(w) PROVE Books'
  BY <1>5, <1>l, <1>t, NeverRefused DEF Pace!SendAnyway
<1>6. ASSUME NEW w \in Workers, Pace!Release(w) PROVE Books'
  BY <1>6, <1>l, <1>t, ReleaseBooks
<1>7. CASE Pace!Tick
  BY <1>7, <1>l, <1>t, TickBooks
<1>8. CASE UNCHANGED paceVars
  <2>1. /\ UNCHANGED <<rps, built, tokens, sends, delay>>
        /\ \A v \in Workers : /\ worker'[v] = "pacing" <=> worker[v] = "pacing"
                              /\ worker'[v] # "idle" => carried'[v] = rps
    BY <1>8, <1>w DEF paceVars
  <2> QED BY <1>l, <2>1, BooksKept
<1> QED BY <1>l, <1>1, <1>2, <1>3, <1>4, <1>5, <1>6, <1>7, <1>8 DEF Pace!Next, Pace!Deliver

(* Nobody waits and nothing was sent at first. *)
LEMMA BooksInit == GatewayInit => PaceInv
<1> SUFFICES ASSUME GatewayInit, Limited PROVE Books
  BY PaceInit DEF PaceInv
<1>1. /\ built = 0 /\ tokens = 0 /\ sends = [n \in Pace!Past |-> 0]
      /\ worker = [w \in Workers |-> "idle"]
  BY DEF GatewayInit, Pace!Init
<1> DEFINE b == rps * TicksPerSecond
<1>2. rps \in Nat \ {0} /\ Pace!TypeOK /\ b \in Nat
  BY PaceInit, PaceNumbers, PaceConstants DEF Limited
<1>3. Pace!Filled(rps) = b
  BY <1>1, <1>2 DEF Pace!Filled, Pace!Burst
<1>4. Waiting = {} /\ \A j : Late(j) = {}
  BY <1>1 DEF Waiting, Late
<1>5. ASSUME NEW j \in Nat PROVE Covers(Cardinality(Late(j)), 0 - b - j * rps)
  <2>1. j * rps \in Nat
    BY <1>2
  <2>2. Cardinality(Late(j)) = 0 /\ 0 * TicksPerSecond = 0
    BY <1>4, FS_EmptySet, PaceConstants
  <2>3. 0 - b - j * rps <= 0
    <3> HIDE DEF b
    <3> QED BY <1>2, <2>1
  <2> QED BY <2>2, <2>3 DEF Covers
<1>6. ASSUME NEW n \in Pace!Past PROVE Granted(n) * TicksPerSecond + b <= Allowed(n)
  <2>1. n \in Nat \ {0}
    BY <1>2, PaceNumbers
  <2>2. Granted(n) = 0
    BY <1>1, <1>4, FS_EmptySet DEF Granted
  <2>3. 0 * TicksPerSecond = 0 /\ rps * (n - 1) \in Nat
    BY <1>2, <2>1, PaceConstants
  <2>4. Allowed(n) = b + rps * (n - 1)
    BY DEF Allowed, Pace!Burst
  <2> HIDE DEF b
  <2> QED BY <1>2, <2>2, <2>3, <2>4
<1> QED BY <1>1, <1>3, <1>5, <1>6 DEF Books

(* What is granted covers what the bucket has promised. *)
LEMMA BooksPace ==
  ASSUME Pace!TypeOK, Limited, Books, NEW n \in Pace!Past
  PROVE  sends[n] * TicksPerSecond <= Allowed(n)
<1> DEFINE u == TicksPerSecond
           T == Pace!Filled(rps)
           p == Cardinality(Waiting)
           l == Cardinality(Late(0))
<1>1. /\ u \in Nat \ {0} /\ rps \in Nat /\ T \in Int /\ p \in Nat /\ l \in Nat /\ l <= p
      /\ sends[n] \in Nat /\ Allowed(n) \in Int
  BY PaceConstants, PaceNumbers, Waits
<1>2. 0 - T - 0 * rps <= l * u /\ (sends[n] + p) * u + T <= Allowed(n)
  BY DEF Books, Covers, Granted
<1> HIDE DEF u, T, p, l
<1>3. /\ (sends[n] + p) * u = sends[n] * u + p * u /\ l * u <= p * u /\ 0 * rps = 0
      /\ sends[n] * u \in Int /\ p * u \in Int /\ l * u \in Int
  BY <1>1, Grows
<1>4. sends[n] * u <= Allowed(n)
  BY <1>1, <1>2, <1>3
<1> QED BY <1>4 DEF u

-----------------------------------------------------------------------------
(* As long as the workers are few enough, the error of lim.Wait that       *)
(* deliver logs before it sends without a token (SendAnyway) never occurs. *)
InTime ==
  Limited => \A w \in Workers : worker[w] = "ready" => Pace!InReach(carried[w])

(* Every worker that asks for a token is promised one within MaxWait.      *)
THEOREM TokensComeInTime == GatewaySpec => []InTime
<1>1. PaceInv /\ [GatewayNext]_allVars => PaceInv'
  BY Parts, BooksStep
<1>2. PaceInv => InTime
  BY NeverRefused DEF PaceInv, InTime
<1> QED BY BooksInit, <1>1, <1>2, PTL DEF GatewaySpec

(* A limited service is sent no more than the burst of its limiter and     *)
(* what accrues meanwhile, rps * (k + 1) requests in any k seconds, by any *)
(* number of workers that are not too many for lim.Wait.                   *)
THEOREM RequestsArePaced == GatewaySpec => []Paced
<1>1. PaceInv /\ [GatewayNext]_allVars => PaceInv'
  BY Parts, BooksStep
<1>2. PaceInv => Paced
  BY BooksPace DEF PaceInv, Paced, Pace!Paced, Limited, Allowed
<1> QED BY BooksInit, <1>1, <1>2, PTL DEF GatewaySpec

=============================================================================
