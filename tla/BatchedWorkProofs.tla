-------------------------- MODULE BatchedWorkProofs --------------------------
(***************************************************************************)
(* For every set of workers, every size of a batch and every number of     *)
(* faults and lives of the gateway: a number stands for one work, which    *)
(* has one result; the reports are true; and unless something was lost,    *)
(* all work is counted.                                                    *)
(*                                                                         *)
(* Two inductive invariants: WorkInv follows a work from its number to its *)
(* result, TruthInv the counts from a worker to the collector.             *)
(***************************************************************************)
EXTENDS BatchedWork, FiniteSetTheorems, SequenceTheorems, TLAPS

-----------------------------------------------------------------------------
(* Arithmetic of the router's rounds.                                      *)

\* A place in the list and a round are known from their sum.
LEMMA Rounds ==
    ASSUME NEW n \in Nat \ {0}, NEW p \in 1 .. n, NEW q \in 1 .. n
    PROVE  \A a, b \in Nat : p + a * n = q + b * n => p = q /\ a = b
<1>1. ASSUME NEW c \in Nat, NEW d \in Nat, c < d PROVE c * n + n <= d * n
  <2>1. PICK e \in Nat : d = c + 1 + e
    <3>1. d - c - 1 \in Nat /\ d = c + 1 + (d - c - 1)
      BY <1>1
    <3>2. QED
      BY <3>1
  <2>2. d * n = c * n + n + e * n
    BY <2>1
  <2>3. e * n \in Nat /\ c * n \in Nat
    OBVIOUS
  <2>4. QED
    BY <2>2, <2>3
<1> SUFFICES ASSUME NEW a \in Nat, NEW b \in Nat, p + a * n = q + b * n
             PROVE  p = q /\ a = b
  OBVIOUS
<1>2. a * n \in Nat /\ b * n \in Nat
  OBVIOUS
<1>3. ~(a < b) /\ ~(b < a)
  BY <1>1, <1>2
<1>4. QED
  BY <1>3

\* A worker's works in a batch are of the batch.
LEMMA RoundBound ==
    ASSUME NEW n \in Nat \ {0}, NEW p \in 1 .. n, NEW m \in Nat \ {0},
           NEW j \in 1 .. (m + n - p) \div n
    PROVE  p + (j - 1) * n \in 1 .. m
<1> DEFINE d == (m + n - p) \div n
<1>1. d \in Nat /\ d * n <= m + n - p
  OBVIOUS
<1>2. j \in Nat /\ j <= d /\ 1 <= j
  BY <1>1
<1>3. (j - 1) * n \in Nat /\ (j - 1) * n = j * n - n /\ j * n <= d * n
  BY <1>1, <1>2
<1>4. QED
  BY <1>1, <1>3

LEMMA Remainder ==
    ASSUME NEW n \in Nat \ {0}, NEW q \in Nat, NEW r \in 0 .. n - 1
    PROVE  (r + q * n) % n = r
<1> DEFINE x == r + q * n
           s == (x % n) + 1
           t == x \div n
           p == r + 1
<1>1. x \in Nat
  OBVIOUS
<1>2. x % n \in 0 .. n - 1 /\ t \in Nat /\ x = (x % n) + t * n
  BY <1>1
<1>3. s \in 1 .. n /\ p \in 1 .. n /\ p + q * n = s + t * n
  BY <1>2
<1> HIDE DEF s, t, p
<1>4. \A a, b \in Nat : p + a * n = s + b * n => p = s /\ a = b
  BY <1>3, Rounds
<1>5. p = s
  BY <1>2, <1>3, <1>4
<1>6. QED
  BY <1>2, <1>5 DEF s, p

\* Turning a list of n by m places puts one element in each place.
LEMMA Turning ==
    ASSUME NEW n \in Nat \ {0}, NEW m \in Nat, NEW k \in 1 .. n
    PROVE  /\ 1 + ((k - 1 + m) % n) \in 1 .. n
           /\ \E j \in 1 .. n : 1 + ((j - 1 + m) % n) = k
           /\ \A j \in 1 .. n : 1 + ((j - 1 + m) % n) = 1 + ((k - 1 + m) % n) => j = k
<1> DEFINE r == m % n
           q == m \div n
<1>1. r \in 0 .. n - 1 /\ q \in Nat /\ m = r + q * n /\ q * n \in Nat
  OBVIOUS
<1>2. ASSUME NEW j \in 1 .. n
      PROVE  (j - 1 + m) % n = IF j - 1 + r < n THEN j - 1 + r ELSE j - 1 + r - n
  <2>1. CASE j - 1 + r < n
    <3>1. j - 1 + m = (j - 1 + r) + q * n /\ j - 1 + r \in 0 .. n - 1
      BY <1>1, <2>1
    <3>2. QED
      BY <1>1, <2>1, <3>1, Remainder
  <2>2. CASE ~(j - 1 + r < n)
    <3>1. /\ j - 1 + m = (j - 1 + r - n) + (q + 1) * n
          /\ j - 1 + r - n \in 0 .. n - 1 /\ q + 1 \in Nat
      BY <1>1, <2>2
    <3>2. QED
      BY <2>2, <3>1, Remainder
  <2>3. QED
    BY <2>1, <2>2
<1>3. r \in 0 .. n - 1
  BY <1>1
<1> HIDE DEF r, q
<1>4. 1 + ((k - 1 + m) % n) \in 1 .. n
  BY <1>2, <1>3
<1>5. \E j \in 1 .. n : 1 + ((j - 1 + m) % n) = k
  <2> DEFINE j == IF r <= k - 1 THEN k - r ELSE k - r + n
  <2>1. j \in 1 .. n /\ k - 1 = IF j - 1 + r < n THEN j - 1 + r ELSE j - 1 + r - n
    BY <1>3
  <2> HIDE DEF j
  <2>2. 1 + ((j - 1 + m) % n) = k
    BY <1>2, <2>1
  <2>3. QED
    BY <2>1, <2>2
<1>6. ASSUME NEW j \in 1 .. n, 1 + ((j - 1 + m) % n) = 1 + ((k - 1 + m) % n)
      PROVE  j = k
  BY <1>2, <1>3, <1>6
<1>7. QED
  BY <1>4, <1>5, <1>6

-----------------------------------------------------------------------------
(* The works.                                                              *)

\* The router has a worker once, and only workers that were deployed.
RouterInv ==
    /\ routees \in Seq(Workers)
    /\ \A j, k \in DOMAIN routees : routees[j] = routees[k] => j = k
    /\ \A k \in DOMAIN routees : routees[k] \in joined

\* The works whose results are on their way or were received.
Arrived == results \union {x \in Work : received[x] > 0}

\* Every number that is in use was given.
NumberInv ==
    /\ \A w \in Workers : \A k \in DOMAIN mailbox[w] : mailbox[w][k] < nextId
    /\ \A x \in Arrived : x < nextId

\* A work is in one place of one mailbox, and has no result before it is done.
PlaceInv ==
    /\ \A v, w \in Workers : \A j \in DOMAIN mailbox[v], k \in DOMAIN mailbox[w] :
          mailbox[v][j] = mailbox[w][k] => v = w /\ j = k
    /\ \A w \in Workers : \A k \in DOMAIN mailbox[w] :
          k # 1 \/ w \notin told => mailbox[w][k] \notin Arrived
    /\ \A x \in Work : received[x] <= IF x \in results THEN 0 ELSE 1

\* Before the first fault, a work that is done is counted or about to be, and has arrived
\* or is about to.
AccountInv ==
    faults = 0 =>
        /\ \A w \in Workers :
              counts[w] + completes[w] + (IF w \in told THEN 1 ELSE 0) = worked[w]
        /\ IsFiniteSet(Units(worked))
        /\ Cardinality(Units(worked)) = Cardinality(Arrived)

Typed   == TypeOK /\ RouterInv
WorkInv == Typed /\ NumberInv /\ PlaceInv /\ AccountInv

\* No unit is counted where all counts are 0.
LEMMA NoUnits == Units(None) = {}
BY DEF Units, None

\* One more unit.
LEMMA UnitsGrow ==
    ASSUME NEW c \in [Workers -> Nat], NEW w \in Workers
    PROVE  /\ Units([c EXCEPT ![w] = @ + 1]) = Units(c) \union {<< w, c[w] + 1 >>}
           /\ << w, c[w] + 1 >> \notin Units(c)
<1> DEFINE d == [c EXCEPT ![w] = @ + 1]
<1>1. \A v \in Workers : c[v] \in Nat /\ d[v] = IF v = w THEN c[v] + 1 ELSE c[v]
  OBVIOUS
<1> HIDE DEF d
<1>2. \A v, k : v \in Workers => (k \in 1 .. d[v] <=> k \in 1 .. c[v] \/ (v = w /\ k = c[w] + 1))
  BY <1>1
<1>3. \A e : /\ \A u \in [Workers -> Nat] :
                 e \in Units(u) <=> \E v \in Workers : \E k \in 1 .. u[v] : e = << v, k >>
  BY DEF Units
<1>4. d \in [Workers -> Nat]
  BY DEF d
<1>5. \A e : e \in Units(d) <=> e \in Units(c) \/ e = << w, c[w] + 1 >>
  BY <1>2, <1>3, <1>4
<1>6. Units(d) = Units(c) \union {<< w, c[w] + 1 >>}
  BY <1>5
<1>7. << w, c[w] + 1 >> \notin Units(c)
  <2>1. c[w] + 1 \notin 1 .. c[w]
    BY <1>1
  <2>2. QED
    BY <1>3, <2>1
<1>8. QED
  BY <1>6, <1>7 DEF d

\* There are finitely many works.
LEMMA ArrivedFinite == ASSUME TypeOK PROVE IsFiniteSet(Arrived)
<1>1. MaxBatches * BatchSize \in Int
  BY BoundsAssumption
<1>2. IsFiniteSet(Work)
  BY <1>1, FS_Interval DEF Work
<1>3. Arrived \subseteq Work
  BY DEF Arrived, TypeOK
<1>4. QED
  BY <1>2, <1>3, FS_Subset

-----------------------------------------------------------------------------
(* The router's list.                                                      *)

\* The list is turned: the same workers, each once.
LEMMA TurnedList ==
    ASSUME RouterInv, routees # << >>
    PROVE  /\ Turned \in Seq(Workers)
           /\ \A j, k \in DOMAIN Turned : Turned[j] = Turned[k] => j = k
           /\ {Turned[k] : k \in DOMAIN Turned} = {routees[k] : k \in DOMAIN routees}
<1> DEFINE n == Len(routees)
           at(k) == 1 + ((k - 1 + BatchSize) % n)
<1>1. n \in Nat \ {0} /\ DOMAIN routees = 1 .. n /\ BatchSize \in Nat
  BY BoundsAssumption DEF RouterInv
<1>2. \A k \in 1 .. n : /\ at(k) \in 1 .. n
                        /\ \E j \in 1 .. n : at(j) = k
                        /\ \A j \in 1 .. n : at(j) = at(k) => j = k
  BY <1>1, Turning
<1>3. DOMAIN Turned = 1 .. n /\ \A k \in 1 .. n : Turned[k] = routees[at(k)]
  BY <1>1 DEF Turned, Pieces
<1> HIDE DEF at
<1>4. Turned \in Seq(Workers)
  <2>1. Turned = [k \in 1 .. n |-> Turned[k]]
    BY <1>3 DEF Turned
  <2>2. \A k \in 1 .. n : Turned[k] \in Workers
    BY <1>1, <1>2, <1>3 DEF RouterInv
  <2>3. QED
    BY <1>1, <2>1, <2>2
<1>5. QED
  BY <1>1, <1>2, <1>3, <1>4 DEF RouterInv

\* A worker's place.
LEMMA PlaceIs ==
    ASSUME NEW w, \E p \in DOMAIN routees : routees[p] = w
    PROVE  Place(w) \in DOMAIN routees /\ routees[Place(w)] = w
BY DEF Place

\* The list without a worker: the others, each once.
LEMMA RemovedList ==
    ASSUME RouterInv, NEW w \in {routees[k] : k \in DOMAIN routees}, NodeRemoved(w)
    PROVE  /\ routees' \in Seq(Workers)
           /\ \A j, k \in DOMAIN routees' : routees'[j] = routees'[k] => j = k
           /\ {routees'[k] : k \in DOMAIN routees'} = {routees[k] : k \in DOMAIN routees} \ {w}
<1> DEFINE n == Len(routees)
           p == Place(w)
           at(k) == IF k < p THEN k ELSE k + 1
<1>1. n \in Nat \ {0} /\ DOMAIN routees = 1 .. n /\ p \in 1 .. n /\ routees[p] = w
  BY PlaceIs DEF RouterInv
<1>2. DOMAIN routees' = 1 .. n - 1 /\ \A k \in 1 .. n - 1 : routees'[k] = routees[at(k)]
  BY <1>1 DEF NodeRemoved
<1>3. /\ \A k \in 1 .. n - 1 : /\ at(k) \in 1 .. n /\ at(k) # p
                               /\ \A j \in 1 .. n - 1 : at(j) = at(k) => j = k
      /\ \A k \in 1 .. n : k # p => \E j \in 1 .. n - 1 : at(j) = k
  <2>1. ASSUME NEW k \in 1 .. n, k # p PROVE \E j \in 1 .. n - 1 : at(j) = k
    <3>1. CASE k < p
      BY <1>1, <2>1, <3>1
    <3>2. CASE k > p
      <4>1. k - 1 \in 1 .. n - 1 /\ at(k - 1) = k
        BY <1>1, <3>2
      <4>2. QED
        BY <4>1
    <3>3. QED
      BY <1>1, <2>1, <3>1, <3>2
  <2>2. QED
    BY <1>1, <2>1
<1> HIDE DEF at, p
<1>4. routees' \in Seq(Workers)
  <2>1. routees' = [k \in 1 .. n - 1 |-> routees'[k]]
    BY <1>2 DEF NodeRemoved
  <2>2. \A k \in 1 .. n - 1 : routees'[k] \in Workers
    BY <1>1, <1>2, <1>3 DEF RouterInv
  <2>3. n - 1 \in Nat
    BY <1>1
  <2>4. QED
    BY <2>1, <2>2, <2>3
<1>5. \A j, k \in DOMAIN routees' : routees'[j] = routees'[k] => j = k
  BY <1>1, <1>2, <1>3 DEF RouterInv
<1>6. \A k \in DOMAIN routees' : routees'[k] \in {routees[j] : j \in DOMAIN routees} \ {w}
  <2> SUFFICES ASSUME NEW k \in 1 .. n - 1
               PROVE  routees'[k] \in {routees[j] : j \in DOMAIN routees} \ {w}
    BY <1>2
  <2>1. at(k) \in DOMAIN routees /\ at(k) # p /\ p \in DOMAIN routees
    BY <1>1, <1>3
  <2>2. routees[at(k)] # w
    BY <1>1, <2>1 DEF RouterInv
  <2>3. QED
    BY <1>2, <2>1, <2>2
<1>7. \A k \in DOMAIN routees :
          routees[k] # w => \E j \in DOMAIN routees' : routees'[j] = routees[k]
  BY <1>1, <1>2, <1>3
<1>8. QED
  BY <1>4, <1>5, <1>6, <1>7

\* The next number is a number.
LEMMA NextNumber == ASSUME TypeOK PROVE nextId \in Nat \ {0}
<1>1. nextId \in 1 .. (batches - toManager) * BatchSize + 1
  BY DEF TypeOK
<1>2. QED
  BY <1>1

\* What a worker gets of a batch: numbers of the batch.
LEMMA ShareIs ==
    ASSUME TypeOK, RouterInv, NEW w \in alive
    PROVE  /\ Share(w) \in Seq(nextId .. nextId + BatchSize - 1)
           /\ \A j \in DOMAIN Share(w) :
                 /\ j - 1 \in Nat
                 /\ Share(w)[j] = nextId + (Place(w) + (j - 1) * Len(routees)) - 1
<1> DEFINE n == Len(routees)
           p == Place(w)
           l == (BatchSize + n - p) \div n
<1>1. \E k \in DOMAIN routees : routees[k] = w
  BY DEF TypeOK
<1>2. n \in Nat \ {0} /\ p \in 1 .. n /\ BatchSize \in Nat \ {0} /\ nextId \in Nat
  <2>1. nextId \in Nat /\ BatchSize \in Nat \ {0}
    BY NextNumber, BoundsAssumption
  <2>2. n \in Nat /\ DOMAIN routees = 1 .. n
    BY DEF RouterInv
  <2>3. QED
    BY <1>1, <2>1, <2>2, PlaceIs
<1>3. l \in Nat
  BY <1>2
<1>4. \A j \in 1 .. l : p + (j - 1) * n \in 1 .. BatchSize
  BY <1>2, RoundBound
<1>5. Share(w) = [j \in 1 .. l |-> nextId + (p + (j - 1) * n) - 1]
  BY DEF Share, Number, Pieces
<1> HIDE DEF l, p, n
<1>6. \A j \in 1 .. l : nextId + (p + (j - 1) * n) - 1 \in nextId .. nextId + BatchSize - 1
  BY <1>2, <1>4
<1>7. Share(w) \in Seq(nextId .. nextId + BatchSize - 1)
  BY <1>3, <1>5, <1>6
<1>8. \A j \in DOMAIN Share(w) : j - 1 \in Nat /\ Share(w)[j] = nextId + (p + (j - 1) * n) - 1
  BY <1>3, <1>5
<1>9. QED
  BY <1>7, <1>8 DEF p, n

\* No number is in two places of the shares of a batch.
LEMMA SharesApart ==
    ASSUME TypeOK, RouterInv, NEW v \in alive, NEW w \in alive,
           NEW j \in DOMAIN Share(v), NEW k \in DOMAIN Share(w), Share(v)[j] = Share(w)[k]
    PROVE  v = w /\ j = k
<1> DEFINE n == Len(routees)
           p == Place(v)
           q == Place(w)
<1>1. /\ \E i \in DOMAIN routees : routees[i] = v
      /\ \E i \in DOMAIN routees : routees[i] = w
  BY DEF TypeOK
<1>2. /\ n \in Nat \ {0} /\ p \in 1 .. n /\ q \in 1 .. n /\ nextId \in Nat
      /\ routees[p] = v /\ routees[q] = w
  <2>1. nextId \in Nat /\ BatchSize \in Nat \ {0}
    BY NextNumber, BoundsAssumption
  <2>2. n \in Nat /\ DOMAIN routees = 1 .. n
    BY DEF RouterInv
  <2>3. QED
    BY <1>1, <2>1, <2>2, PlaceIs
<1>3. /\ j - 1 \in Nat /\ Share(v)[j] = nextId + (p + (j - 1) * n) - 1
      /\ k - 1 \in Nat /\ Share(w)[k] = nextId + (q + (k - 1) * n) - 1
  BY ShareIs
<1> HIDE DEF n, p, q
<1> DEFINE a == j - 1
           b == k - 1
<1>4. (a * n) \in Nat /\ (b * n) \in Nat /\ a \in Nat /\ b \in Nat
  BY <1>2, <1>3
<1>5. p + a * n = q + b * n
  <2> DEFINE y == p + a * n
             z == q + b * n
  <2>1. nextId + y - 1 = nextId + z - 1
    BY <1>3
  <2>2. y \in Int /\ z \in Int
    BY <1>2, <1>4
  <2> HIDE DEF y, z
  <2>3. y = z
    BY <1>2, <2>1, <2>2
  <2>4. QED
    BY <2>3 DEF y, z
<1>6. \A c, d \in Nat : p + c * n = q + d * n => p = q /\ c = d
  BY <1>2, Rounds
<1> HIDE DEF a, b
<1>7. p = q /\ a = b
  BY <1>4, <1>5, <1>6
<1>8. j \in Int /\ k \in Int
  BY ShareIs
<1>9. QED
  BY <1>2, <1>7, <1>8 DEF a, b

-----------------------------------------------------------------------------
(* The steps and the works.                                                *)

LEMMA InitWork == Init => WorkInv
<1> SUFFICES ASSUME Init PROVE WorkInv
  OBVIOUS
<1>1. MaxBatches * BatchSize \in Nat /\ 0 * BatchSize = 0
  BY BoundsAssumption
<1>2. TypeOK /\ RouterInv
  BY <1>1, BoundsAssumption DEF Init, TypeOK, RouterInv, None, Report
<1>3. Arrived = {} /\ \A w \in Workers : DOMAIN mailbox[w] = {}
  BY DEF Init, Arrived
<1>4. AccountInv
  <2>1. worked = None /\ counts = None /\ completes = None /\ told = {}
    BY DEF Init
  <2>2. \A w \in Workers : None[w] = 0
    BY DEF None
  <2>3. QED
    BY <1>3, <2>1, <2>2, NoUnits, FS_EmptySet DEF AccountInv
<1>5. QED
  BY <1>2, <1>3, <1>4 DEF Init, WorkInv, Typed, NumberInv, PlaceInv

\* A batch: new numbers, and the turned list.
LEMMA BatchTyped ==
    ASSUME Typed, HandleBatch
    PROVE  Typed'
<1> USE DEF Typed
<1> DEFINE m == batches - toManager
<1>1. /\ toManager > 0 /\ toManager' = toManager - 1 /\ nextId' = nextId + BatchSize
      /\ UNCHANGED << batches, received, report, life, counts, asked, reports, joined, alive,
                      told, worked, results, completes, faults >>
      /\ \/ UNCHANGED << mailbox, routees >>
         \/ routees # << >> /\ mailbox' = Forward /\ routees' = Turned
  BY DEF HandleBatch, Pieces, client, counter
<1>2. /\ MaxBatches \in Nat /\ BatchSize \in Nat \ {0} /\ toManager \in 0 .. batches
      /\ batches \in 0 .. MaxBatches /\ nextId \in 1 .. m * BatchSize + 1
  BY BoundsAssumption DEF TypeOK
<1>3. /\ nextId' \in 1 .. (batches' - toManager') * BatchSize + 1
      /\ nextId + BatchSize - 1 <= MaxBatches * BatchSize /\ nextId \in Nat \ {0}
  <2>1. m \in Nat /\ m + 1 \in Nat /\ m + 1 <= MaxBatches /\ batches - (toManager - 1) = m + 1
    BY <1>1, <1>2
  <2> HIDE DEF m
  <2>2. (m + 1) * BatchSize = m * BatchSize + BatchSize /\ m * BatchSize \in Nat
    BY <1>2, <2>1
  <2>3. (m + 1) * BatchSize <= MaxBatches * BatchSize
    <3>1. MaxBatches - (m + 1) \in Nat
      BY <1>2, <2>1
    <3>2. (MaxBatches - (m + 1)) * BatchSize \in Nat
      BY <1>2, <3>1
    <3>3. (MaxBatches - (m + 1)) * BatchSize = MaxBatches * BatchSize - (m + 1) * BatchSize
      BY <1>2, <2>1
    <3>4. MaxBatches * BatchSize \in Int /\ (m + 1) * BatchSize \in Int
      BY <1>2, <2>1
    <3>5. QED
      BY <3>2, <3>3, <3>4
  <2>4. batches' - toManager' = m + 1
    BY <1>1, <2>1
  <2>5. QED
    BY <1>1, <1>2, <2>2, <2>3, <2>4
<1>4. /\ routees' \in Seq(Workers)
      /\ \A j, k \in DOMAIN routees' : routees'[j] = routees'[k] => j = k
      /\ {routees'[k] : k \in DOMAIN routees'} = {routees[k] : k \in DOMAIN routees}
  BY <1>1, TurnedList DEF RouterInv
<1>5. RouterInv'
  <2>1. \A k \in DOMAIN routees' : \E j \in DOMAIN routees : routees'[k] = routees[j]
    BY <1>4
  <2>2. QED
    BY <1>1, <1>4, <2>1 DEF RouterInv
<1>6. /\ mailbox' \in [Workers -> Seq(Work)]
      /\ \A w \in Workers : mailbox[w] # << >> => mailbox'[w] # << >>
  <2>1. mailbox \in [Workers -> Seq(Work)]
    BY DEF TypeOK
  <2>2. CASE UNCHANGED mailbox
    BY <2>1, <2>2
  <2>3. CASE mailbox' = Forward
    <3>1. ASSUME NEW w \in alive PROVE Share(w) \in Seq(Work)
      <4>1. Share(w) \in Seq(nextId .. nextId + BatchSize - 1)
        BY ShareIs
      <4>2. nextId .. nextId + BatchSize - 1 \subseteq Work
        BY <1>2, <1>3 DEF Work
      <4>3. QED
        BY <4>1, <4>2, SeqMonotonic
    <3>2. ASSUME NEW w \in Workers
          PROVE  mailbox'[w] \in Seq(Work) /\ (mailbox[w] # << >> => mailbox'[w] # << >>)
      <4> DEFINE s == IF w \in alive THEN Share(w) ELSE << >>
      <4>1. s \in Seq(Work) /\ mailbox[w] \in Seq(Work)
        BY <2>1, <3>1
      <4>2. mailbox'[w] = mailbox[w] \o s
        BY <2>3 DEF Forward
      <4> HIDE DEF s
      <4>3. QED
        BY <4>1, <4>2
    <3>3. mailbox' = [w \in Workers |-> mailbox'[w]]
      BY <2>3 DEF Forward
    <3>4. QED
      BY <3>2, <3>3
  <2>4. QED
    BY <1>1, <2>2, <2>3
<1>7. TypeOK'
  <2>1. toManager' \in 0 .. batches'
    BY <1>1, <1>2
  <2>2. told' \subseteq {w \in alive' : mailbox'[w] # << >>}
    BY <1>1, <1>6 DEF TypeOK
  <2>3. alive' \subseteq {routees'[k] : k \in DOMAIN routees'}
    BY <1>1, <1>4 DEF TypeOK
  <2>4. QED
    BY <1>1, <1>3, <1>6, <2>1, <2>2, <2>3 DEF TypeOK
<1>8. QED
  BY <1>5, <1>7

LEMMA BatchStep ==
    ASSUME WorkInv, HandleBatch
    PROVE  WorkInv'
<1> USE DEF WorkInv
<1>1. /\ nextId' = nextId + BatchSize
      /\ UNCHANGED << received, counts, told, worked, results, completes, faults >>
      /\ UNCHANGED mailbox \/ mailbox' = Forward
  BY DEF HandleBatch, Pieces, client, counter
<1>2. /\ nextId \in Nat \ {0} /\ BatchSize \in Nat \ {0} /\ mailbox \in [Workers -> Seq(Work)]
      /\ told \subseteq Workers /\ alive \subseteq Workers
  BY BoundsAssumption DEF Typed, TypeOK
<1>3. Arrived' = Arrived
  BY <1>1 DEF Arrived
<1> DEFINE s(w) == IF w \in alive THEN Share(w) ELSE << >>
           new(w) == IF mailbox' = mailbox THEN << >> ELSE s(w)
<1>4. ASSUME NEW w \in Workers
      PROVE  new(w) \in Seq(nextId .. nextId + BatchSize - 1) /\ mailbox'[w] = mailbox[w] \o new(w)
  <2>1. s(w) \in Seq(nextId .. nextId + BatchSize - 1)
    <3>1. CASE w \in alive
      BY <3>1, ShareIs DEF Typed
    <3>2. CASE w \notin alive
      BY <3>2
    <3>3. QED
      BY <3>1, <3>2
  <2>2. CASE mailbox' = mailbox
    BY <1>2, <2>2
  <2>3. CASE mailbox' # mailbox
    BY <1>1, <2>1, <2>3 DEF Forward
  <2>4. QED
    BY <2>2, <2>3
<1>5. \A v, w \in Workers : \A j \in DOMAIN new(v), k \in DOMAIN new(w) :
          new(v)[j] = new(w)[k] => v = w /\ j = k
  <2> SUFFICES ASSUME NEW v \in Workers, NEW w \in Workers, NEW j \in DOMAIN new(v),
                      NEW k \in DOMAIN new(w), new(v)[j] = new(w)[k]
               PROVE  v = w /\ j = k
    OBVIOUS
  <2>1. v \in alive /\ w \in alive /\ new(v) = Share(v) /\ new(w) = Share(w)
    OBVIOUS
  <2> HIDE DEF new
  <2>2. QED
    BY <2>1, SharesApart DEF Typed
<1> HIDE DEF new
<1>6. ASSUME NEW w \in Workers, NEW k \in DOMAIN mailbox'[w]
      PROVE  \/ k \in DOMAIN mailbox[w] /\ mailbox'[w][k] = mailbox[w][k]
             \/ /\ k - Len(mailbox[w]) \in DOMAIN new(w) /\ k > Len(mailbox[w])
                /\ mailbox'[w][k] = new(w)[k - Len(mailbox[w])]
                /\ mailbox'[w][k] \in nextId .. nextId + BatchSize - 1
  <2> DEFINE a == mailbox[w]
             b == new(w)
             R == nextId .. nextId + BatchSize - 1
  <2>1. a \in Seq(Work) /\ b \in Seq(R) /\ mailbox'[w] = a \o b
    BY <1>2, <1>4
  <2> HIDE DEF a, b, R
  <2>2. /\ k \in 1 .. Len(a) + Len(b) /\ Len(a) \in Nat /\ Len(b) \in Nat
        /\ DOMAIN a = 1 .. Len(a) /\ DOMAIN b = 1 .. Len(b)
    BY <2>1
  <2>3. CASE k <= Len(a)
    <3>1. k \in DOMAIN a /\ mailbox'[w][k] = a[k]
      BY <2>1, <2>2, <2>3
    <3>2. QED
      BY <3>1 DEF a
  <2>4. CASE k > Len(a)
    <3>1. k - Len(a) \in DOMAIN b
      BY <2>2, <2>4
    <3>2. mailbox'[w][k] = b[k - Len(a)]
      BY <2>1, <2>2, <2>4
    <3>3. b[k - Len(a)] \in R
      BY <2>1, <3>1
    <3>4. QED
      BY <2>4, <3>1, <3>2, <3>3 DEF a, b, R
  <2>5. QED
    BY <2>2, <2>3, <2>4
<1>7. \A w \in Workers :
          /\ Len(mailbox[w]) \in Nat
          /\ \A k \in DOMAIN mailbox[w] :
                mailbox[w][k] \in Nat /\ k \in Nat /\ mailbox[w][k] < nextId
  <2>1. ASSUME NEW w \in Workers PROVE mailbox[w] \in Seq(Work)
    BY <1>2
  <2>2. \A x \in Work : x \in Nat
    BY DEF Work
  <2>3. QED
    BY <2>1, <2>2 DEF NumberInv
<1>8. \A x \in Arrived : x \in Nat /\ x < nextId
  <2>1. Arrived \subseteq Work
    BY DEF Arrived, Typed, TypeOK
  <2>2. QED
    BY <2>1 DEF NumberInv, Work
<1>9. NumberInv'
  <2>1. ASSUME NEW w \in Workers, NEW k \in DOMAIN mailbox'[w] PROVE mailbox'[w][k] < nextId'
    <3>1. mailbox'[w][k] < nextId \/ mailbox'[w][k] \in nextId .. nextId + BatchSize - 1
      BY <1>6, <1>7
    <3>2. mailbox'[w][k] \in Int
      BY <1>6, <1>7
    <3>3. QED
      BY <1>1, <1>2, <3>1, <3>2
  <2>2. \A x \in Arrived' : x < nextId'
    BY <1>1, <1>2, <1>3, <1>8
  <2>3. QED
    BY <2>1, <2>2 DEF NumberInv
<1>10. PlaceInv'
  <2>1. ASSUME NEW v \in Workers, NEW w \in Workers, NEW j \in DOMAIN mailbox'[v],
               NEW k \in DOMAIN mailbox'[w], mailbox'[v][j] = mailbox'[w][k]
        PROVE  v = w /\ j = k
    <3>1. CASE j \in DOMAIN mailbox[v] /\ mailbox'[v][j] = mailbox[v][j]
      <4>1. mailbox'[w][k] < nextId /\ mailbox'[w][k] \in Nat
        BY <1>7, <2>1, <3>1
      <4>2. k \in DOMAIN mailbox[w] /\ mailbox'[w][k] = mailbox[w][k]
        BY <1>2, <1>6, <4>1
      <4>3. QED
        <5>1. mailbox[v][j] = mailbox[w][k]
          BY <2>1, <3>1, <4>2
        <5>2. QED
          BY <3>1, <4>2, <5>1 DEF PlaceInv
    <3>2. CASE /\ j - Len(mailbox[v]) \in DOMAIN new(v) /\ j > Len(mailbox[v])
               /\ mailbox'[v][j] = new(v)[j - Len(mailbox[v])]
               /\ mailbox'[v][j] \in nextId .. nextId + BatchSize - 1
      <4>1. ~(mailbox'[w][k] < nextId)
        BY <1>2, <2>1, <3>2
      <4>2. /\ k - Len(mailbox[w]) \in DOMAIN new(w)
            /\ mailbox'[w][k] = new(w)[k - Len(mailbox[w])]
        BY <1>6, <1>7, <4>1
      <4> DEFINE d == j - Len(mailbox[v])
                 e == k - Len(mailbox[w])
      <4>3. d \in DOMAIN new(v) /\ e \in DOMAIN new(w) /\ new(v)[d] = new(w)[e]
        BY <2>1, <3>2, <4>2
      <4> HIDE DEF d, e
      <4>4. v = w /\ d = e
        BY <1>5, <4>3
      <4>5. \A x \in Workers : \A i \in DOMAIN mailbox'[x] : i \in Nat
        <5> SUFFICES ASSUME NEW x \in Workers PROVE \A i \in DOMAIN mailbox'[x] : i \in Nat
          OBVIOUS
        <5> DEFINE R == nextId .. nextId + BatchSize - 1
        <5>1. /\ mailbox[x] \in Seq(Work) /\ new(x) \in Seq(R)
              /\ mailbox'[x] = mailbox[x] \o new(x)
          BY <1>2, <1>4
        <5> HIDE DEF R
        <5>2. QED
          BY <5>1
      <4>6. QED
        BY <1>7, <4>4, <4>5 DEF d, e
    <3>3. QED
      BY <1>6, <3>1, <3>2
  <2>2. ASSUME NEW w \in Workers, NEW k \in DOMAIN mailbox'[w], k # 1 \/ w \notin told
        PROVE  mailbox'[w][k] \notin Arrived
    <3>1. CASE k \in DOMAIN mailbox[w] /\ mailbox'[w][k] = mailbox[w][k]
      BY <2>2, <3>1 DEF PlaceInv
    <3>2. CASE mailbox'[w][k] \in nextId .. nextId + BatchSize - 1
      BY <1>2, <1>8, <3>2
    <3>3. QED
      BY <1>6, <3>1, <3>2
  <2>3. \A x \in Work : received'[x] <= IF x \in results' THEN 0 ELSE 1
    BY <1>1 DEF PlaceInv
  <2>4. QED
    BY <1>1, <1>3, <2>1, <2>2, <2>3 DEF PlaceInv
<1>11. AccountInv'
  BY <1>1, <1>3 DEF AccountInv
<1>12. QED
  BY <1>9, <1>10, <1>11, BatchTyped

\* A step that neither gives nor moves a work, and no count.
LEMMA WorksUnmoved ==
    ASSUME WorkInv, Typed',
           UNCHANGED << nextId, mailbox, told, results, received, counts, completes, worked,
                        faults >>
    PROVE  WorkInv'
<1> USE DEF WorkInv
<1>1. Arrived' = Arrived
  BY DEF Arrived
<1>2. NumberInv' /\ AccountInv'
  BY <1>1 DEF NumberInv, AccountInv
<1>3. PlaceInv'
  BY <1>1 DEF PlaceInv
<1>4. QED
  BY <1>2, <1>3

\* A node joins, with an address of its own.
LEMMA JoinTyped ==
    ASSUME Typed, NEW w \in Workers, NodeJoins(w)
    PROVE  Typed'
<1> USE DEF Typed
<1>1. /\ w \notin joined /\ joined' = joined \union {w} /\ alive' = alive \union {w}
      /\ routees' = Append(routees, w)
      /\ UNCHANGED << batches, received, report, life, nextId, counts, asked, reports,
                      toManager, mailbox, told, worked, results, completes, faults >>
  BY DEF NodeJoins, client, counter
<1> DEFINE n == Len(routees)
<1>2. /\ routees' \in Seq(Workers) /\ DOMAIN routees' = 1 .. n + 1 /\ DOMAIN routees = 1 .. n
      /\ n \in Nat /\ routees'[n + 1] = w /\ \A k \in 1 .. n : routees'[k] = routees[k]
  BY <1>1 DEF RouterInv
<1>3. \A k \in 1 .. n : routees[k] # w
  BY <1>1, <1>2 DEF RouterInv
<1> HIDE DEF n
<1>4. \A k \in 1 .. n + 1 : k = n + 1 \/ k \in 1 .. n
  BY <1>2
<1>5. RouterInv'
  BY <1>1, <1>2, <1>3, <1>4 DEF RouterInv
<1>6. alive' \subseteq {routees'[k] : k \in DOMAIN routees'}
  <2>1. n + 1 \in DOMAIN routees' /\ \A k \in DOMAIN routees : k \in DOMAIN routees'
    BY <1>2
  <2>2. w \in {routees'[k] : k \in DOMAIN routees'}
    BY <1>2, <2>1
  <2>3. \A v \in alive : \E k \in DOMAIN routees : v = routees[k]
    BY DEF TypeOK
  <2>4. \A v \in alive : \E k \in DOMAIN routees' : v = routees'[k]
    BY <1>2, <2>1, <2>3
  <2>5. QED
    BY <1>1, <2>2, <2>4
<1>7. TypeOK'
  BY <1>1, <1>6 DEF TypeOK
<1>8. QED
  BY <1>5, <1>7

\* A node is removed from the list.
LEMMA RemovalTyped ==
    ASSUME Typed, NEW w \in Workers, NodeRemoved(w)
    PROVE  Typed'
<1> USE DEF Typed
<1>1. /\ w \in {routees[k] : k \in DOMAIN routees} /\ w \notin alive
      /\ UNCHANGED << batches, received, report, life, nextId, counts, asked, reports, joined,
                      alive, toManager, mailbox, told, worked, results, completes, faults >>
  BY DEF NodeRemoved, client, counter, workers
<1>2. /\ routees' \in Seq(Workers)
      /\ \A j, k \in DOMAIN routees' : routees'[j] = routees'[k] => j = k
      /\ {routees'[k] : k \in DOMAIN routees'} = {routees[k] : k \in DOMAIN routees} \ {w}
  BY <1>1, RemovedList
<1>3. RouterInv'
  <2>1. \A k \in DOMAIN routees' : \E j \in DOMAIN routees : routees'[k] = routees[j]
    BY <1>2
  <2>2. QED
    BY <1>1, <1>2, <2>1 DEF RouterInv
<1>4. alive' \subseteq {routees'[k] : k \in DOMAIN routees'}
  BY <1>1, <1>2 DEF TypeOK
<1>5. TypeOK'
  BY <1>1, <1>4 DEF TypeOK
<1>6. QED
  BY <1>3, <1>5

\* A new gateway begins with nothing.
LEMMA RestartWork ==
    ASSUME WorkInv, RestartGateway
    PROVE  WorkInv'
<1> USE DEF WorkInv, Typed
<1>1. /\ life < MaxLife /\ life' = life + 1 /\ nextId' = 1 /\ routees' = << >>
      /\ counts' = None /\ reports' = << >> /\ joined' = {} /\ alive' = {} /\ told' = {}
      /\ worked' = None /\ mailbox' = [w \in Workers |-> << >>] /\ toManager' = 0
      /\ results' = {} /\ completes' = None /\ received' = [x \in Work |-> 0]
      /\ UNCHANGED << asked, batches, report, faults >>
  BY DEF RestartGateway
<1>2. batches \in Nat /\ batches * BatchSize \in Nat /\ batches - 0 = batches
  BY BoundsAssumption DEF TypeOK
<1>3. /\ life' \in 1 .. MaxLife /\ nextId' \in 1 .. (batches' - toManager') * BatchSize + 1
      /\ toManager' \in 0 .. batches'
  BY <1>1, <1>2, BoundsAssumption DEF TypeOK
<1>4. None \in [Workers -> Nat] /\ \A w \in Workers : None[w] = 0
  BY DEF None
<1>5. TypeOK'
  <2>1. mailbox' \in [Workers -> Seq(Work)] /\ received' \in [Work -> Nat]
    BY <1>1
  <2>2. QED
    BY <1>1, <1>3, <1>4, <2>1 DEF TypeOK
<1>6. RouterInv'
  BY <1>1 DEF RouterInv
<1>7. Arrived' = {} /\ \A w \in Workers : DOMAIN mailbox'[w] = {}
  BY <1>1 DEF Arrived
<1>8. NumberInv' /\ PlaceInv'
  BY <1>1, <1>7 DEF NumberInv, PlaceInv
<1>9. AccountInv'
  BY <1>1, <1>4, <1>7, NoUnits, FS_EmptySet DEF AccountInv
<1>10. QED
  BY <1>5, <1>6, <1>8, <1>9

\* A result arrives, which has been sent before.
LEMMA ReceiveResultStep ==
    ASSUME WorkInv, NEW x \in Work, ReceiveResult(x)
    PROVE  WorkInv'
<1> USE DEF WorkInv, Typed
<1>1. /\ x \in results /\ results' = results \ {x}
      /\ received' = [received EXCEPT ![x] = received[x] + 1]
      /\ UNCHANGED << batches, report, life, nextId, routees, counts, asked, reports, joined,
                      alive, mailbox, told, worked, toManager, completes, faults >>
  BY DEF ReceiveResult, manager, counter, workers
<1>2. received \in [Work -> Nat] /\ results \subseteq Work
  BY DEF TypeOK
<1>3. received[x] = 0
  BY <1>1, <1>2 DEF PlaceInv
<1>4. /\ received' \in [Work -> Nat] /\ results' \subseteq Work
      /\ \A y \in Work : received'[y] = IF y = x THEN 1 ELSE received[y]
  BY <1>1, <1>2, <1>3
<1>5. TypeOK'
  BY <1>1, <1>4 DEF TypeOK
<1>6. RouterInv'
  BY <1>1 DEF RouterInv
<1>7. Arrived' = Arrived
  BY <1>1, <1>2, <1>4 DEF Arrived
<1>8. NumberInv' /\ AccountInv'
  BY <1>1, <1>7 DEF NumberInv, AccountInv
<1>9. PlaceInv'
  <2>1. \A y \in Work : received'[y] <= IF y \in results' THEN 0 ELSE 1
    BY <1>1, <1>4 DEF PlaceInv
  <2>2. QED
    BY <1>1, <1>7, <2>1 DEF PlaceInv
<1>10. QED
  BY <1>5, <1>6, <1>8, <1>9

\* A work is done: the first of the mailbox, which has no result yet.
LEMMA SendResultStep ==
    ASSUME WorkInv, NEW w \in Workers, SendResult(w)
    PROVE  WorkInv'
<1> USE DEF WorkInv, Typed
<1> DEFINE x == mailbox[w][1]
<1>1. /\ w \in alive \ told /\ mailbox[w] # << >> /\ told' = told \union {w}
      /\ results' = results \union {x}
      /\ worked' = [worked EXCEPT ![w] = worked[w] + 1]
      /\ UNCHANGED << batches, received, report, life, nextId, routees, counts, asked, reports,
                      joined, alive, mailbox, toManager, completes, faults >>
  BY DEF SendResult, client, manager, counter, TypeOK
<1>2. mailbox \in [Workers -> Seq(Work)] /\ worked \in [Workers -> Nat]
  BY DEF TypeOK
<1>3. x \in Work /\ 1 \in DOMAIN mailbox[w]
  BY <1>1, <1>2
<1> HIDE DEF x
<1>4. x = mailbox[w][1]
  BY DEF x
<1>5. TypeOK'
  <2>1. worked' \in [Workers -> Nat] /\ results' \subseteq Work
    BY <1>1, <1>2, <1>3 DEF TypeOK
  <2>2. told' \subseteq {v \in alive' : mailbox'[v] # << >>}
    BY <1>1 DEF TypeOK
  <2>3. alive' \subseteq {routees'[k] : k \in DOMAIN routees'}
    BY <1>1 DEF TypeOK
  <2>4. QED
    BY <1>1, <2>1, <2>2, <2>3 DEF TypeOK
<1>6. RouterInv'
  BY <1>1 DEF RouterInv
<1>7. Arrived' = Arrived \union {x} /\ x \notin Arrived
  <2>1. x \notin Arrived
    BY <1>1, <1>3, <1>4 DEF PlaceInv
  <2>2. QED
    BY <1>1, <2>1 DEF Arrived
<1>8. NumberInv'
  BY <1>1, <1>3, <1>4, <1>7 DEF NumberInv
<1>9. PlaceInv'
  <2>1. ASSUME NEW v \in Workers, NEW k \in DOMAIN mailbox'[v], k # 1 \/ v \notin told'
        PROVE  mailbox'[v][k] \notin Arrived'
    <3>1. mailbox[v][k] # x
      BY <1>1, <1>3, <1>4, <2>1 DEF PlaceInv
    <3>2. mailbox[v][k] \notin Arrived
      BY <1>1, <2>1 DEF PlaceInv
    <3>3. QED
      BY <1>1, <1>7, <3>1, <3>2
  <2>2. \A y \in Work : received'[y] <= IF y \in results' THEN 0 ELSE 1
    <3>1. ~(received[x] > 0) /\ received[x] \in Nat
      BY <1>3, <1>7 DEF Arrived, TypeOK
    <3>2. received[x] = 0
      BY <3>1
    <3>3. QED
      BY <1>1, <3>2 DEF PlaceInv
  <2>3. QED
    BY <1>1, <2>1, <2>2 DEF PlaceInv
<1>10. AccountInv'
  <2> SUFFICES ASSUME faults = 0
               PROVE  /\ \A v \in Workers : counts[v] + completes[v]
                             + (IF v \in told' THEN 1 ELSE 0) = worked'[v]
                      /\ IsFiniteSet(Units(worked'))
                      /\ Cardinality(Units(worked')) = Cardinality(Arrived')
    BY <1>1 DEF AccountInv
  <2>1. ASSUME NEW v \in Workers
        PROVE  counts[v] + completes[v] + (IF v \in told' THEN 1 ELSE 0) = worked'[v]
    <3>1. counts[v] \in Nat /\ completes[v] \in Nat /\ worked[v] \in Nat
      BY DEF TypeOK
    <3>2. counts[v] + completes[v] + (IF v \in told THEN 1 ELSE 0) = worked[v]
      BY DEF AccountInv
    <3>3. QED
      BY <1>1, <1>2, <3>1, <3>2
  <2>2. /\ Units(worked') = Units(worked) \union {<< w, worked[w] + 1 >>}
        /\ << w, worked[w] + 1 >> \notin Units(worked)
    BY <1>1, <1>2, UnitsGrow
  <2>3. IsFiniteSet(Units(worked)) /\ Cardinality(Units(worked)) = Cardinality(Arrived)
    BY DEF AccountInv
  <2>4. /\ IsFiniteSet(Units(worked'))
        /\ Cardinality(Units(worked')) = Cardinality(Units(worked)) + 1
    BY <2>2, <2>3, FS_AddElement
  <2>5. Cardinality(Arrived') = Cardinality(Arrived) + 1
    BY <1>7, ArrivedFinite, FS_AddElement
  <2>6. QED
    BY <2>1, <2>3, <2>4, <2>5
<1>11. QED
  BY <1>5, <1>6, <1>8, <1>9, <1>10

\* What stays in the mailboxes when some lose their first work, or all of theirs.
LEMMA FewerWorks ==
    ASSUME WorkInv, NEW w \in Workers, told' = told \ {w},
           \A v \in Workers \ {w} : mailbox'[v] = mailbox[v],
           UNCHANGED << nextId, results, received >>,
           \/ mailbox'[w] = << >>
           \/ mailbox[w] # << >> /\ mailbox'[w] = Tail(mailbox[w])
    PROVE  NumberInv' /\ PlaceInv'
<1> USE DEF WorkInv, Typed
<1>1. Arrived' = Arrived
  BY DEF Arrived
<1>2. mailbox[w] \in Seq(Work)
  BY DEF TypeOK
<1> DEFINE old(v, k) == IF v = w THEN k + 1 ELSE k
<1>3. ASSUME NEW v \in Workers, NEW k \in DOMAIN mailbox'[v]
      PROVE  /\ old(v, k) \in DOMAIN mailbox[v] /\ mailbox'[v][k] = mailbox[v][old(v, k)]
             /\ v = w => k \in Nat /\ old(v, k) # 1
  <2>1. CASE v # w
    BY <2>1
  <2>2. CASE v = w
    <3>1. mailbox[w] # << >> /\ mailbox'[w] = Tail(mailbox[w])
      BY <2>2
    <3>2. DOMAIN mailbox'[w] = 1 .. Len(mailbox[w]) - 1 /\ Len(mailbox[w]) \in Nat
          /\ DOMAIN mailbox[w] = 1 .. Len(mailbox[w])
      BY <1>2, <3>1
    <3>3. mailbox'[w][k] = mailbox[w][k + 1]
      BY <1>2, <2>2, <3>1
    <3>4. QED
      BY <2>2, <3>2, <3>3
  <2>3. QED
    BY <2>1, <2>2
<1>4. \A v \in Workers : \A j, k \in DOMAIN mailbox'[v] : old(v, j) = old(v, k) => j = k
  BY <1>3
<1> HIDE DEF old
<1>5. NumberInv'
  BY <1>1, <1>3 DEF NumberInv
<1>6. PlaceInv'
  <2>1. ASSUME NEW u \in Workers, NEW v \in Workers, NEW j \in DOMAIN mailbox'[u],
               NEW k \in DOMAIN mailbox'[v], mailbox'[u][j] = mailbox'[v][k]
        PROVE  u = v /\ j = k
    <3>1. u = v /\ old(u, j) = old(v, k)
      BY <1>3, <2>1 DEF PlaceInv
    <3>2. QED
      BY <1>4, <3>1
  <2>2. ASSUME NEW v \in Workers, NEW k \in DOMAIN mailbox'[v], k # 1 \/ v \notin told'
        PROVE  mailbox'[v][k] \notin Arrived'
    <3>1. CASE v = w
      BY <1>1, <1>3, <3>1 DEF PlaceInv
    <3>2. CASE v # w
      BY <1>1, <2>2, <3>2 DEF PlaceInv
    <3>3. QED
      BY <3>1, <3>2
  <2>3. \A y \in Work : received'[y] <= IF y \in results' THEN 0 ELSE 1
    BY DEF PlaceInv
  <2>4. QED
    BY <2>1, <2>2, <2>3 DEF PlaceInv
<1>7. QED
  BY <1>5, <1>6

\* The second message of a work, which leaves the mailbox.
LEMMA SendCompleteStep ==
    ASSUME WorkInv, NEW w \in Workers, SendComplete(w)
    PROVE  WorkInv'
<1> USE DEF WorkInv, Typed
<1>1. /\ w \in told /\ told' = told \ {w}
      /\ completes' = [completes EXCEPT ![w] = completes[w] + 1]
      /\ mailbox' = [mailbox EXCEPT ![w] = Tail(mailbox[w])]
      /\ UNCHANGED << batches, received, report, life, nextId, routees, counts, asked, reports,
                      joined, alive, worked, toManager, results, faults >>
  BY DEF SendComplete, Completed, client, manager, counter
<1>2. mailbox \in [Workers -> Seq(Work)] /\ completes \in [Workers -> Nat] /\ mailbox[w] # << >>
  BY <1>1 DEF TypeOK
<1>3. /\ \A v \in Workers \ {w} : mailbox'[v] = mailbox[v]
      /\ mailbox'[w] = Tail(mailbox[w])
  BY <1>1, <1>2
<1>4. TypeOK'
  <2>1. mailbox' \in [Workers -> Seq(Work)]
    <3>1. Tail(mailbox[w]) \in Seq(Work)
      BY <1>2
    <3>2. QED
      BY <1>1, <1>2, <3>1
  <2>2. told' \subseteq {v \in alive' : mailbox'[v] # << >>}
    BY <1>1, <1>3 DEF TypeOK
  <2>3. completes' \in [Workers -> Nat]
    BY <1>1, <1>2
  <2>4. QED
    BY <1>1, <2>1, <2>2, <2>3 DEF TypeOK
<1>5. RouterInv'
  BY <1>1 DEF RouterInv
<1>6. NumberInv' /\ PlaceInv'
  BY <1>1, <1>2, <1>3, FewerWorks
<1>7. AccountInv'
  <2>1. Arrived' = Arrived
    BY <1>1 DEF Arrived
  <2>2. ASSUME faults = 0, NEW v \in Workers
        PROVE  counts[v] + completes'[v] + (IF v \in told' THEN 1 ELSE 0) = worked[v]
    <3>1. counts[v] \in Nat /\ completes[v] \in Nat /\ worked[v] \in Nat
      BY DEF TypeOK
    <3>2. counts[v] + completes[v] + (IF v \in told THEN 1 ELSE 0) = worked[v]
      BY <2>2 DEF AccountInv
    <3>3. CASE v = w
      <4>1. completes'[v] = completes[v] + 1 /\ v \in told /\ v \notin told'
        BY <1>1, <1>2, <3>3
      <4>2. QED
        BY <3>1, <3>2, <4>1
    <3>4. CASE v # w
      <4>1. completes'[v] = completes[v] /\ (v \in told' <=> v \in told)
        BY <1>1, <1>2, <3>4
      <4>2. QED
        BY <3>2, <4>1
    <3>5. QED
      BY <3>3, <3>4
  <2>3. QED
    BY <1>1, <2>1, <2>2 DEF AccountInv
<1>8. QED
  BY <1>4, <1>5, <1>6, <1>7

\* Work that is counted.
LEMMA CountedStep ==
    ASSUME WorkInv, NEW w \in Workers, CountWork(w)
    PROVE  WorkInv'
<1> USE DEF WorkInv, Typed
<1>1. /\ completes[w] > 0
      /\ completes' = [completes EXCEPT ![w] = completes[w] - 1]
      /\ counts' = [counts EXCEPT ![w] = counts[w] + 1]
      /\ UNCHANGED << batches, received, report, life, nextId, routees, asked, reports, joined,
                      alive, mailbox, told, worked, toManager, results, faults >>
  BY DEF CountWork, Counted, client, manager, workers
<1>2. \A v \in Workers : counts[v] \in Nat /\ completes[v] \in Nat /\ worked[v] \in Nat
  BY DEF TypeOK
<1>3. TypeOK'
  <2>1. counts' \in [Workers -> Nat] /\ completes' \in [Workers -> Nat]
    BY <1>1, <1>2 DEF TypeOK
  <2>2. QED
    BY <1>1, <2>1 DEF TypeOK
<1>4. Arrived' = Arrived
  BY <1>1 DEF Arrived
<1>5. RouterInv' /\ NumberInv'
  BY <1>1, <1>4 DEF RouterInv, NumberInv
<1>6. PlaceInv'
  BY <1>1, <1>4 DEF PlaceInv
<1>7. AccountInv'
  <2>1. ASSUME NEW v \in Workers PROVE counts'[v] + completes'[v] = counts[v] + completes[v]
    BY <1>1, <1>2 DEF TypeOK
  <2>2. ASSUME faults = 0, NEW v \in Workers
        PROVE  counts'[v] + completes'[v] + (IF v \in told THEN 1 ELSE 0) = worked[v]
    BY <2>1, <2>2 DEF AccountInv
  <2>3. QED
    BY <1>1, <1>4, <2>2 DEF AccountInv
<1>8. QED
  BY <1>3, <1>5, <1>6, <1>7

\* A node goes down with the works of its mailbox.
LEMMA NodeDownStep ==
    ASSUME WorkInv, NEW w \in Workers, NodeGoesDown(w)
    PROVE  WorkInv'
<1> USE DEF WorkInv, Typed
<1>1. /\ w \in alive /\ faults < MaxFaults /\ faults' = faults + 1
      /\ alive' = alive \ {w} /\ told' = told \ {w}
      /\ mailbox' = [mailbox EXCEPT ![w] = << >>]
      /\ UNCHANGED << batches, received, report, life, nextId, routees, counts, asked, reports,
                      joined, worked, toManager, results, completes >>
  BY DEF NodeGoesDown, client, manager, counter
<1>2. mailbox \in [Workers -> Seq(Work)] /\ faults \in Nat /\ MaxFaults \in Nat
  BY BoundsAssumption DEF TypeOK
<1>3. (\A v \in Workers \ {w} : mailbox'[v] = mailbox[v]) /\ mailbox'[w] = << >>
  BY <1>1, <1>2
<1>4. TypeOK'
  <2>1. mailbox' \in [Workers -> Seq(Work)] /\ faults' \in 0 .. MaxFaults
    BY <1>1, <1>2
  <2>2. told' \subseteq {v \in alive' : mailbox'[v] # << >>}
    BY <1>1, <1>3 DEF TypeOK
  <2>3. alive' \subseteq {routees'[k] : k \in DOMAIN routees'} /\ alive' \subseteq joined
    BY <1>1 DEF TypeOK
  <2>4. QED
    BY <1>1, <2>1, <2>2, <2>3 DEF TypeOK
<1>5. RouterInv'
  BY <1>1 DEF RouterInv
<1>6. NumberInv' /\ PlaceInv'
  BY <1>1, <1>3, FewerWorks
<1>7. AccountInv'
  BY <1>1, <1>2 DEF AccountInv
<1>8. QED
  BY <1>4, <1>5, <1>6, <1>7

\* A message is lost.
LEMMA LossStep ==
    ASSUME WorkInv, LoseMessage
    PROVE  WorkInv'
<1> USE DEF WorkInv, Typed
<1>1. /\ faults < MaxFaults /\ faults' = faults + 1
      /\ UNCHANGED << batches, received, report, life, nextId, routees, counts, asked, reports,
                      joined, alive, mailbox, told, worked, toManager >>
  BY DEF LoseMessage, client, manager, counter, workers
<1>2. results' \subseteq results /\ completes' \in [Workers -> Nat]
  <2>1. completes \in [Workers -> Nat]
    BY DEF TypeOK
  <2>2. \/ \E x \in results : results' = results \ {x} /\ completes' = completes
        \/ \E w \in Workers : /\ completes[w] > 0 /\ results' = results
                              /\ completes' = [completes EXCEPT ![w] = completes[w] - 1]
    BY DEF LoseMessage
  <2>3. CASE \E x \in results : results' = results \ {x} /\ completes' = completes
    BY <2>1, <2>3
  <2>4. ASSUME NEW w \in Workers, completes[w] > 0, results' = results,
               completes' = [completes EXCEPT ![w] = completes[w] - 1]
        PROVE  results' \subseteq results /\ completes' \in [Workers -> Nat]
    BY <2>1, <2>4
  <2>5. QED
    BY <2>2, <2>3, <2>4
<1>3. faults \in Nat /\ MaxFaults \in Nat
  BY BoundsAssumption DEF TypeOK
<1>4. TypeOK'
  <2>1. faults' \in 0 .. MaxFaults
    BY <1>1, <1>3
  <2>2. QED
    BY <1>1, <1>2, <2>1 DEF TypeOK
<1>5. Arrived' \subseteq Arrived
  BY <1>1, <1>2 DEF Arrived
<1>6. RouterInv' /\ NumberInv'
  BY <1>1, <1>5 DEF RouterInv, NumberInv
<1>7. PlaceInv'
  <2>1. \A y \in Work : received'[y] <= IF y \in results' THEN 0 ELSE 1
    <3>1. \A y \in Work : received[y] \in Nat
      BY DEF TypeOK
    <3>2. QED
      BY <1>1, <1>2, <3>1 DEF PlaceInv
  <2>2. QED
    BY <1>1, <1>5, <2>1 DEF PlaceInv
<1>8. AccountInv'
  BY <1>1, <1>3 DEF AccountInv
<1>9. QED
  BY <1>4, <1>6, <1>7, <1>8

\* The front end and its reports do not touch the works.
LEMMA FrontEndStep ==
    ASSUME WorkInv, RequestBatch \/ SendReport \/ ReceiveReport
    PROVE  WorkInv'
<1> USE DEF WorkInv, Typed
<1>1. UNCHANGED << nextId, mailbox, told, results, received, worked, faults, counts, completes,
                   routees, joined, alive, life >>
  BY DEF RequestBatch, SendReport, ReceiveReport, client, manager, counter, workers
<1>2. RouterInv'
  BY <1>1 DEF RouterInv
<1>3. TypeOK'
  <2>1. CASE RequestBatch
    <3>1. /\ batches < MaxBatches /\ batches' = batches + 1 /\ toManager' = toManager + 1
          /\ UNCHANGED << report, asked, reports >>
      BY <2>1 DEF RequestBatch, counter
    <3>2. batches \in 0 .. MaxBatches /\ MaxBatches \in Nat /\ toManager \in 0 .. batches
      BY BoundsAssumption DEF TypeOK
    <3>3. /\ batches' \in 0 .. MaxBatches /\ toManager' \in 0 .. batches'
          /\ batches' - toManager' = batches - toManager
      BY <3>1, <3>2
    <3>4. QED
      BY <1>1, <3>1, <3>3 DEF TypeOK
  <2>2. CASE SendReport
    <3>1. /\ asked < MaxReports /\ asked' = asked + 1
          /\ reports' = Append(reports, [life |-> life, counts |-> counts])
          /\ UNCHANGED << batches, report, toManager >>
      BY <2>2 DEF SendReport, client
    <3>2. asked' \in 0 .. MaxReports
      BY <3>1, BoundsAssumption DEF TypeOK
    <3>3. reports' \in Seq(Report)
      <4> DEFINE new == [life |-> life, counts |-> counts]
      <4>1. new \in Report /\ reports \in Seq(Report)
        BY DEF TypeOK, Report
      <4> HIDE DEF new
      <4>2. Append(reports, new) \in Seq(Report)
        BY <4>1
      <4>3. QED
        BY <3>1, <4>2 DEF new
    <3>4. QED
      BY <1>1, <3>1, <3>2, <3>3 DEF TypeOK
  <2>3. CASE ReceiveReport
    <3>1. /\ reports # << >> /\ report' = Head(reports) /\ reports' = Tail(reports)
          /\ UNCHANGED << batches, asked, toManager >>
      BY <2>3 DEF ReceiveReport
    <3>2. reports \in Seq(Report)
      BY DEF TypeOK
    <3>3. report' \in Report /\ reports' \in Seq(Report)
      BY <3>1, <3>2
    <3>4. QED
      BY <1>1, <3>1, <3>3 DEF TypeOK
  <2>4. QED
    BY <2>1, <2>2, <2>3
<1>4. QED
  BY <1>1, <1>2, <1>3, WorksUnmoved

-----------------------------------------------------------------------------
\* Every step preserves the invariant of the works.
THEOREM WorkInvariance == Spec => []WorkInv
<1>1. WorkInv /\ [Next]_vars => WorkInv'
  <2> SUFFICES ASSUME WorkInv, [Next]_vars PROVE WorkInv'
    OBVIOUS
  <2>1. CASE RequestBatch \/ SendReport \/ ReceiveReport
    BY <2>1, FrontEndStep
  <2>2. CASE HandleBatch
    BY <2>2, BatchStep
  <2>3. ASSUME NEW x \in Work, ReceiveResult(x) PROVE WorkInv'
    BY <2>3, ReceiveResultStep
  <2>4. ASSUME NEW w \in Workers, NodeJoins(w) PROVE WorkInv'
    <3>1. Typed'
      BY <2>4, JoinTyped DEF WorkInv
    <3>2. QED
      BY <2>4, <3>1, WorksUnmoved DEF NodeJoins, client, counter
  <2>5. ASSUME NEW w \in Workers, WorkOf(w) PROVE WorkInv'
    BY <2>5, SendResultStep, SendCompleteStep DEF WorkOf
  <2>6. ASSUME NEW w \in Workers, CountWork(w) PROVE WorkInv'
    BY <2>6, CountedStep
  <2>7. ASSUME NEW w \in Workers, NodeGoesDown(w) PROVE WorkInv'
    BY <2>7, NodeDownStep
  <2>8. ASSUME NEW w \in Workers, NodeRemoved(w) PROVE WorkInv'
    <3>1. Typed'
      BY <2>8, RemovalTyped DEF WorkInv
    <3>2. QED
      BY <2>8, <3>1, WorksUnmoved DEF NodeRemoved, client, counter, workers
  <2>9. CASE RestartGateway
    BY <2>9, RestartWork
  <2>10. CASE LoseMessage
    BY <2>10, LossStep
  <2>11. CASE UNCHANGED vars
    <3>1. UNCHANGED << batches, received, report, life, nextId, routees, counts, asked, reports,
                       joined, alive, mailbox, told, worked, toManager, results, completes,
                       faults >>
      BY <2>11 DEF vars, client, manager, counter, workers
    <3>2. Typed'
      BY <3>1 DEF WorkInv, Typed, TypeOK, RouterInv
    <3>3. QED
      BY <3>1, <3>2, WorksUnmoved
  <2>12. QED
    BY <2>1, <2>2, <2>3, <2>4, <2>5, <2>6, <2>7, <2>8, <2>9, <2>10, <2>11 DEF Next
<1>2. QED
  BY <1>1, InitWork, PTL DEF Spec

\* Every variable keeps its type, and the numbers that were given are those of the batches
\* that this gateway handled (WorkerManagerActor, _nextId).
THEOREM TypeCorrect == Spec => []TypeOK
<1>1. WorkInv => TypeOK
  BY DEF WorkInv, Typed
<1>2. QED
  BY <1>1, WorkInvariance, PTL

\* A number stands for one work, in one place of one mailbox or on its way to the front end
\* or received there (WorkerManagerActor, WorkerActor, BatchedWorkRequester).
THEOREM NumbersAreUnique == Spec => []OneResultPerWork
<1>1. WorkInv => OneResultPerWork
  <2> SUFFICES ASSUME WorkInv PROVE OneResultPerWork
    OBVIOUS
  <2> USE DEF WorkInv, Typed
  <2>1. ASSUME NEW x \in Work
        PROVE  Cardinality(Places(x)) + Cardinality(results \intersect {x}) + received[x] <= 1
    <3>1. \A v, w \in Places(x) : v = w
      BY DEF Places, PlaceInv
    <3>2. Places(x) = {} \/ \E v : Places(x) = {v}
      BY <3>1
    <3>3. received[x] \in Nat /\ received[x] <= IF x \in results THEN 0 ELSE 1
      BY DEF TypeOK, PlaceInv
    <3>4. results \intersect {x} = IF x \in results THEN {x} ELSE {}
      OBVIOUS
    <3>5. Cardinality(results \intersect {x}) = IF x \in results THEN 1 ELSE 0
      BY <3>4, FS_EmptySet, FS_Singleton
    <3>6. Cardinality(Places(x)) = IF Places(x) = {} THEN 0 ELSE 1
      BY <3>2, FS_EmptySet, FS_Singleton
    <3>7. CASE Places(x) = {}
      BY <3>3, <3>5, <3>6, <3>7
    <3>8. CASE Places(x) # {}
      <4>1. x \notin Arrived
        BY <3>8 DEF Places, PlaceInv
      <4>2. x \notin results /\ ~(received[x] > 0)
        BY <4>1 DEF Arrived
      <4>3. QED
        BY <3>3, <3>5, <3>6, <3>8, <4>2
    <3>9. QED
      BY <3>7, <3>8
  <2>2. \A w \in Workers : \A j, k \in DOMAIN mailbox[w] :
            mailbox[w][j] = mailbox[w][k] => j = k
    BY DEF PlaceInv
  <2>3. QED
    BY <2>1, <2>2 DEF OneResultPerWork
<1>2. QED
  BY <1>1, WorkInvariance, PTL

\* When nothing was lost and nothing is under way, the counter has counted what was done, and
\* as much as the front end got (MetricCounterActor, WorkerActor, BatchedWorkRequester).
THEOREM AccountsAgree == Spec => []EverythingIsCounted
<1>1. WorkInv => EverythingIsCounted
  <2> SUFFICES ASSUME WorkInv, Quiet, faults = 0
               PROVE  /\ counts = worked
                      /\ Cardinality(Units(counts)) = Cardinality({x \in Work : received[x] > 0})
    BY DEF EverythingIsCounted
  <2>1. told = {} /\ completes = None /\ results = {}
    BY DEF Quiet
  <2>2. counts \in [Workers -> Nat] /\ worked \in [Workers -> Nat]
    BY DEF WorkInv, Typed, TypeOK
  <2>3. ASSUME NEW w \in Workers PROVE counts[w] = worked[w]
    <3>1. counts[w] + completes[w] + (IF w \in told THEN 1 ELSE 0) = worked[w]
      BY DEF WorkInv, AccountInv
    <3>2. QED
      BY <2>1, <2>2, <3>1 DEF None
  <2>4. counts = worked
    BY <2>2, <2>3
  <2>5. Arrived = {x \in Work : received[x] > 0}
    BY <2>1 DEF Arrived
  <2>6. QED
    BY <2>4, <2>5 DEF WorkInv, AccountInv
<1>2. QED
  BY <1>1, WorkInvariance, PTL

-----------------------------------------------------------------------------
(* The reports.                                                            *)

\* The types of what the reports depend on.
Types ==
    /\ report \in Report /\ reports \in Seq(Report)
    /\ life \in 1 .. MaxLife
    /\ counts \in [Workers -> Nat] /\ completes \in [Workers -> Nat]
    /\ worked \in [Workers -> Nat]
    /\ told \subseteq alive /\ alive \subseteq Workers

\* A work that is counted, or about to be, has sent its result.
CountInv ==
    \A w \in Workers :
        counts[w] + completes[w] + (IF w \in told THEN 1 ELSE 0) <= worked[w]

Below(c, d) == \A w \in Workers : c[w] <= d[w]

\* Reports on their way are of this life; the one that arrived may be of an earlier one.
ReportInv ==
    /\ report.life <= life
    /\ report.life = life => Below(report.counts, counts)
    /\ \A k \in DOMAIN reports :
        /\ reports[k].life = life
        /\ Below(reports[k].counts, counts)
        /\ report.life = life => Below(report.counts, reports[k].counts)
        /\ \A j \in DOMAIN reports : j <= k => Below(reports[j].counts, reports[k].counts)

TruthInv == Types /\ CountInv /\ ReportInv

-----------------------------------------------------------------------------
\* Nothing has been counted at the beginning.
LEMMA InitTruth == Init => TruthInv
BY BoundsAssumption DEF Init, TruthInv, Types, CountInv, ReportInv, Below, Report, None

\* A step that changes nothing that a report depends on.
LEMMA Unconcerned ==
    ASSUME TruthInv,
           UNCHANGED << report, reports, life, counts, completes, worked, told, alive >>
    PROVE  TruthInv'
BY DEF TruthInv, Types, CountInv, ReportInv, Below

\* The collector takes the oldest report, which is below all those behind it.
LEMMA ReceiveReportStep ==
    ASSUME TruthInv, ReceiveReport
    PROVE  TruthInv'
<1> USE DEF TruthInv
<1>1. /\ reports # << >> /\ report' = reports[1] /\ reports' = Tail(reports)
      /\ UNCHANGED << life, counts, completes, worked, told, alive >>
  BY DEF ReceiveReport, manager, workers
<1>2. /\ reports' \in Seq(Report) /\ 1 \in DOMAIN reports
      /\ \A k \in DOMAIN reports' : k + 1 \in DOMAIN reports /\ reports'[k] = reports[k + 1]
                                    /\ k \in Nat /\ 1 <= k + 1
  BY <1>1 DEF Types
<1>3. Types'
  BY <1>1, <1>2 DEF Types
<1>4. CountInv'
  BY <1>1 DEF CountInv
<1>5. ReportInv'
  <2>1. report'.life = life' /\ Below(report'.counts, counts')
    BY <1>1, <1>2 DEF ReportInv
  <2>2. life' \in Nat
    BY <1>1 DEF Types
  <2>3. ASSUME NEW k \in DOMAIN reports'
        PROVE  /\ reports'[k].life = life' /\ Below(reports'[k].counts, counts')
               /\ Below(report'.counts, reports'[k].counts)
    BY <1>1, <1>2 DEF ReportInv
  <2>4. ASSUME NEW k \in DOMAIN reports', NEW j \in DOMAIN reports', j <= k
        PROVE  Below(reports'[j].counts, reports'[k].counts)
    <3>1. j + 1 <= k + 1
      BY <1>2, <2>4
    <3>2. QED
      BY <1>2, <3>1 DEF ReportInv
  <2>5. QED
    BY <2>1, <2>2, <2>3, <2>4 DEF ReportInv, Below
<1>6. QED
  BY <1>3, <1>4, <1>5

\* A new report is the last one, and a copy of the counts.
LEMMA SendReportStep ==
    ASSUME TruthInv, SendReport
    PROVE  TruthInv'
<1> USE DEF TruthInv
<1> DEFINE new == [life |-> life, counts |-> counts]
<1>1. /\ reports' = Append(reports, new)
      /\ UNCHANGED << report, life, counts, completes, worked, told, alive >>
  BY DEF SendReport, client, manager, workers
<1>2. new \in Report
  BY DEF Types, Report
<1>3. /\ reports' \in Seq(Report)
      /\ \A k \in DOMAIN reports' :
            \/ k = Len(reports) + 1 /\ reports'[k] = new
            \/ k \in DOMAIN reports /\ reports'[k] = reports[k] /\ k <= Len(reports)
      /\ Len(reports) \in Nat
  BY <1>1, <1>2 DEF Types
<1>4. new.life = life /\ new.counts = counts
  OBVIOUS
<1> HIDE DEF new
<1>5. Types'
  BY <1>1, <1>3 DEF Types
<1>6. CountInv'
  BY <1>1 DEF CountInv
<1>7. Below(counts, counts)
  BY DEF Below, Types
<1>8. ReportInv'
  <2>1. ASSUME NEW k \in DOMAIN reports'
        PROVE  /\ reports'[k].life = life' /\ Below(reports'[k].counts, counts')
               /\ report'.life = life' => Below(report'.counts, reports'[k].counts)
    BY <1>1, <1>3, <1>4, <1>7 DEF ReportInv
  <2>2. ASSUME NEW k \in DOMAIN reports', NEW j \in DOMAIN reports', j <= k
        PROVE  Below(reports'[j].counts, reports'[k].counts)
    <3>1. CASE k = Len(reports) + 1
      BY <1>1, <1>3, <1>4, <2>1, <3>1 DEF Below
    <3>2. CASE k \in DOMAIN reports /\ reports'[k] = reports[k] /\ k <= Len(reports)
      <4>1. j \in DOMAIN reports /\ reports'[j] = reports[j]
        BY <1>3, <2>2, <3>2
      <4>2. QED
        BY <2>2, <3>2, <4>1 DEF ReportInv
    <3>3. QED
      BY <1>3, <3>1, <3>2
  <2>3. QED
    BY <1>1, <2>1, <2>2 DEF ReportInv, Below
<1>9. QED
  BY <1>5, <1>6, <1>8

\* Counts only grow, and stay below what the worker has done.
LEMMA CountWorkStep ==
    ASSUME TruthInv, NEW w \in Workers, CountWork(w)
    PROVE  TruthInv'
<1> USE DEF TruthInv
<1>1. /\ completes[w] > 0
      /\ completes' = [completes EXCEPT ![w] = completes[w] - 1]
      /\ counts' = [counts EXCEPT ![w] = counts[w] + 1]
      /\ UNCHANGED << report, reports, life, worked, told, alive >>
  BY DEF CountWork, Counted, client, manager, workers
<1>2. Types'
  BY <1>1 DEF Types
<1>3. CountInv'
  <2> SUFFICES ASSUME NEW v \in Workers
               PROVE  counts'[v] + completes'[v] + (IF v \in told THEN 1 ELSE 0) <= worked[v]
    BY <1>1 DEF CountInv
  <2>1. counts[v] \in Nat /\ completes[v] \in Nat /\ worked[v] \in Nat
    BY DEF Types
  <2>2. counts'[v] + completes'[v] = counts[v] + completes[v]
    BY <1>1, <2>1 DEF Types
  <2>3. QED
    BY <2>2 DEF CountInv
<1>4. Below(counts, counts')
  BY <1>1 DEF Below, Types
<1>5. ASSUME NEW c \in [Workers -> Nat], Below(c, counts) PROVE Below(c, counts')
  BY <1>2, <1>4, <1>5 DEF Below, Types
<1>6. report.counts \in [Workers -> Nat]
      /\ \A k \in DOMAIN reports : reports[k].counts \in [Workers -> Nat]
  <2>1. report \in Report /\ \A k \in DOMAIN reports : reports[k] \in Report
    BY DEF Types
  <2>2. QED
    BY <2>1 DEF Report
<1>7. ReportInv'
  BY <1>1, <1>5, <1>6 DEF ReportInv, Below
<1>8. QED
  BY <1>2, <1>3, <1>7

\* The messages of the workers: sent, lost, or gone with their node.
LEMMA WorkerSteps ==
    ASSUME TruthInv,
           \/ \E w \in Workers : SendResult(w) \/ SendComplete(w) \/ NodeGoesDown(w)
           \/ LoseMessage
    PROVE  TruthInv'
<1> USE DEF TruthInv
<1>1. UNCHANGED << report, reports, life, counts >>
  BY DEF SendResult, SendComplete, NodeGoesDown, LoseMessage, client, manager, counter
<1>2. ReportInv'
  BY <1>1 DEF ReportInv, Below
<1>3. ASSUME NEW w \in Workers, SendResult(w) PROVE Types' /\ CountInv'
  <2>1. /\ w \in alive \ told /\ told' = told \union {w}
        /\ worked' = [worked EXCEPT ![w] = worked[w] + 1] /\ UNCHANGED << completes, alive >>
    BY <1>3 DEF SendResult
  <2>2. QED
    BY <1>1, <2>1 DEF Types, CountInv
<1>4. ASSUME NEW w \in Workers, SendComplete(w) PROVE Types' /\ CountInv'
  <2>1. /\ w \in told /\ told' = told \ {w}
        /\ completes' = [completes EXCEPT ![w] = completes[w] + 1]
        /\ UNCHANGED << worked, alive >>
    BY <1>4 DEF SendComplete, Completed
  <2>2. QED
    BY <1>1, <2>1 DEF Types, CountInv
<1>5. ASSUME NEW w \in Workers, NodeGoesDown(w) PROVE Types' /\ CountInv'
  <2>1. /\ told' = told \ {w} /\ alive' = alive \ {w} /\ UNCHANGED << completes, worked >>
    BY <1>5 DEF NodeGoesDown
  <2>2. QED
    BY <1>1, <2>1 DEF Types, CountInv
<1>6. ASSUME LoseMessage PROVE Types' /\ CountInv'
  <2>1. UNCHANGED << worked, told, alive >>
    BY <1>6 DEF LoseMessage, workers
  <2>2. \/ UNCHANGED completes
        \/ \E w \in Workers : completes[w] > 0
                              /\ completes' = [completes EXCEPT ![w] = completes[w] - 1]
    BY <1>6 DEF LoseMessage
  <2>3. Types'
    <3>1. completes' \in [Workers -> Nat]
      BY <2>2 DEF Types
    <3>2. QED
      BY <1>1, <2>1, <3>1 DEF Types
  <2>4. CountInv'
    <3> SUFFICES ASSUME NEW w \in Workers
                 PROVE  counts[w] + completes'[w] + (IF w \in told THEN 1 ELSE 0)
                            <= worked[w]
      BY <1>1, <2>1 DEF CountInv
    <3>1. counts[w] \in Nat /\ completes[w] \in Nat /\ worked[w] \in Nat
      BY DEF Types
    <3>2. completes'[w] \in Nat /\ completes'[w] <= completes[w]
      BY <2>2, <3>1 DEF Types
    <3>3. QED
      BY <3>1, <3>2 DEF CountInv
  <2>5. QED
    BY <2>3, <2>4
<1>7. QED
  BY <1>2, <1>3, <1>4, <1>5, <1>6

\* A new gateway counts from nothing, and the report that arrived is of another life.
LEMMA RestartStep ==
    ASSUME TruthInv, RestartGateway
    PROVE  TruthInv'
<1> USE DEF TruthInv
<1>1. /\ life < MaxLife /\ life' = life + 1 /\ counts' = None /\ reports' = << >>
      /\ told' = {} /\ alive' = {} /\ worked' = None /\ completes' = None
      /\ UNCHANGED report
  BY DEF RestartGateway
<1>2. life \in Nat /\ MaxLife \in Nat /\ 1 <= life
  BY BoundsAssumption DEF Types
<1>3. Types'
  BY <1>1, <1>2, BoundsAssumption DEF Types, None
<1>4. CountInv'
  BY <1>1 DEF CountInv, None
<1>5. report.life \in Nat /\ report.life <= life
  BY BoundsAssumption DEF Types, Report, ReportInv
<1>6. ReportInv'
  BY <1>1, <1>2, <1>5 DEF ReportInv
<1>7. QED
  BY <1>3, <1>4, <1>6

-----------------------------------------------------------------------------
\* Every step preserves the invariant.
THEOREM ReportInvariance == Spec => []TruthInv
<1>1. TruthInv /\ [Next]_vars => TruthInv'
  <2> SUFFICES ASSUME TruthInv, [Next]_vars PROVE TruthInv'
    OBVIOUS
  <2>1. CASE RequestBatch
    BY <2>1, Unconcerned DEF RequestBatch, manager, counter, workers
  <2>2. CASE HandleBatch
    BY <2>2, Unconcerned DEF HandleBatch, client, counter
  <2>3. CASE SendReport
    BY <2>3, SendReportStep
  <2>4. CASE ReceiveReport
    BY <2>4, ReceiveReportStep
  <2>5. ASSUME NEW x \in Work, ReceiveResult(x) PROVE TruthInv'
    BY <2>5, Unconcerned DEF ReceiveResult, manager, counter, workers
  <2>6. ASSUME NEW w \in Workers, NodeJoins(w) PROVE TruthInv'
    <3>1. /\ alive' = alive \union {w}
          /\ UNCHANGED << report, reports, life, counts, completes, worked, told >>
      BY <2>6 DEF NodeJoins, client, counter
    <3>2. QED
      BY <3>1 DEF TruthInv, Types, CountInv, ReportInv, Below
  <2>7. ASSUME NEW w \in Workers, WorkOf(w) PROVE TruthInv'
    BY <2>7, WorkerSteps DEF WorkOf
  <2>8. ASSUME NEW w \in Workers, CountWork(w) PROVE TruthInv'
    BY <2>8, CountWorkStep
  <2>9. ASSUME NEW w \in Workers, NodeGoesDown(w) PROVE TruthInv'
    BY <2>9, WorkerSteps
  <2>10. ASSUME NEW w \in Workers, NodeRemoved(w) PROVE TruthInv'
    BY <2>10, Unconcerned DEF NodeRemoved, client, counter, workers
  <2>11. CASE RestartGateway
    BY <2>11, RestartStep
  <2>12. CASE LoseMessage
    BY <2>12, WorkerSteps
  <2>13. CASE UNCHANGED vars
    BY <2>13, Unconcerned DEF vars, client, manager, counter, workers
  <2>14. QED
    BY <2>1, <2>2, <2>3, <2>4, <2>5, <2>6, <2>7, <2>8, <2>9, <2>10, <2>11, <2>12, <2>13
    DEF Next
<1>2. QED
  BY <1>1, InitTruth, PTL DEF Spec

\* Of the report that arrived, those on their way and the counts, a later one never counts
\* less within a life of the gateway, and none counts work that was not done
\* (MetricCounterActor, WorkerActor).
THEOREM TrueReports == Spec => []ReportsAreTrue
<1>1. TruthInv => ReportsAreTrue
  <2> SUFFICES ASSUME TruthInv, NEW j \in DOMAIN Reports, NEW k \in DOMAIN Reports, j <= k,
                      Reports[j].life = life, NEW w \in Workers
               PROVE  /\ Reports[j].counts[w] <= Reports[k].counts[w]
                      /\ Reports[k].counts[w] <= worked[w]
    BY DEF ReportsAreTrue
  <2> USE DEF TruthInv
  <2> DEFINE current == [life |-> life, counts |-> counts]
             n == Len(reports)
  <2>1. current \in Report /\ current.counts = counts
    BY DEF Types, Report
  <2> HIDE DEF current
  <2>2. /\ n \in Nat /\ DOMAIN Reports = 1 .. n + 2
        /\ Reports[1] = report /\ Reports[n + 2] = current
        /\ \A i \in 2 .. n + 1 : i - 1 \in DOMAIN reports /\ Reports[i] = reports[i - 1]
    BY <2>1 DEF Reports, Types, current
  <2>3. counts[w] \in Nat /\ worked[w] \in Nat /\ counts[w] <= worked[w]
    <3>1. counts[w] \in Nat /\ completes[w] \in Nat /\ worked[w] \in Nat
      BY DEF Types
    <3>2. QED
      BY <3>1 DEF CountInv
  <2>4. ASSUME NEW i \in DOMAIN Reports
        PROVE  Reports[i].counts[w] \in Nat
    <3>1. report \in Report /\ \A l \in DOMAIN reports : reports[l] \in Report
      BY DEF Types
    <3>2. i = 1 \/ i \in 2 .. n + 1 \/ i = n + 2
      BY <2>2
    <3>3. Reports[i] \in Report
      BY <2>1, <2>2, <3>1, <3>2
    <3>4. QED
      BY <3>3 DEF Report
  <2>5. Reports[k].counts[w] <= counts[w]
    <3>1. CASE k = 1
      <4>1. j = 1
        BY <2>2, <3>1
      <4>2. QED
        BY <2>2, <3>1, <4>1 DEF ReportInv, Below
    <3>2. CASE k \in 2 .. n + 1
      BY <2>2, <3>2 DEF ReportInv, Below
    <3>3. CASE k = n + 2
      BY <2>1, <2>2, <2>3, <3>3
    <3>4. QED
      BY <2>2, <3>1, <3>2, <3>3
  <2>6. Reports[j].counts[w] <= Reports[k].counts[w]
    <3>1. CASE j = k
      BY <2>4, <3>1
    <3>2. CASE j = 1 /\ k \in 2 .. n + 1
      BY <2>2, <3>2 DEF ReportInv, Below
    <3>3. CASE j \in 2 .. n + 1 /\ k \in 2 .. n + 1
      <4>1. /\ j - 1 \in DOMAIN reports /\ k - 1 \in DOMAIN reports /\ j - 1 <= k - 1
            /\ Reports[j] = reports[j - 1] /\ Reports[k] = reports[k - 1]
        BY <2>2, <3>3
      <4>2. QED
        BY <4>1 DEF ReportInv, Below
    <3>4. CASE j # k /\ k = n + 2
      <4>1. j = 1 \/ j \in 2 .. n + 1
        BY <2>2, <3>4
      <4>2. QED
        BY <2>1, <2>2, <3>4, <4>1 DEF ReportInv, Below
    <3>5. QED
      BY <2>2, <3>1, <3>2, <3>3, <3>4
  <2>7. QED
    BY <2>3, <2>4, <2>5, <2>6
<1>2. QED
  BY <1>1, ReportInvariance, PTL

=============================================================================
