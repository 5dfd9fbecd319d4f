-------------------------- MODULE PortTable_proofs --------------------------
(***************************************************************************)
(* Proofs about PortTable, for any number of entries and keys: until the   *)
(* last of several entries is removed the linked list is a queue.          *)
(***************************************************************************)
EXTENDS PortTable, FiniteSetTheorems, WellFoundedInduction, TLAPS

-----------------------------------------------------------------------------
(* Numbers *)

Less == OpToRel(<, Nat)

LEMMA LessIs == \A x, y \in Nat : <<x, y>> \in Less <=> x < y
  BY DEF Less, OpToRel

LEMMA Least ==
    ASSUME NEW S \in SUBSET Nat, S # {}
    PROVE  \E x \in S : \A y \in S : x <= y
<1>1. IsWellFoundedOn(Less, Nat)
  BY NatLessThanWellFounded DEF Less
<1>2. \E x \in S : \A y \in S : <<y, x>> \notin Less
  BY <1>1, WFMin, Zenon
<1>3. PICK x \in S : \A y \in S : <<y, x>> \notin Less
  BY <1>2
<1>4. ASSUME NEW y \in S PROVE x <= y
  <2>1. ~(y < x)
    BY <1>3, LessIs
  <2> QED
    BY <2>1
<1> QED
  BY <1>4

Size == Cardinality(Entries)

LEMMA SizeIsNat == Size \in Nat
  BY EntriesAssumption, FS_CardinalityType DEF Size

-----------------------------------------------------------------------------
(* The loop of remove_port_sk and get_port_sk *)

Follow(p) == IF p = Null THEN Null ELSE next[p]

LEMMA FollowType == TypeOK => \A p \in Pointers : Follow(p) \in Pointers
  BY DEF TypeOK, Follow, Pointers

\* The first k turns of the loop.
IsWalk(f, k) ==
    /\ f \in [0 .. k -> Pointers]
    /\ f[0] = head
    /\ \A n \in 0 .. k : n # 0 => f[n] = Follow(f[n - 1])

LEMMA WalkExists ==
    ASSUME TypeOK
    PROVE  \A k \in Nat : \E f : IsWalk(f, k)
<1> DEFINE S == {k \in Nat : ~\E f : IsWalk(f, k)}
<1>1. SUFFICES ASSUME S # {} PROVE FALSE
  OBVIOUS
<1>2. PICK k \in S : \A j \in S : k <= j
  BY <1>1, Least
<1>3. k \in Nat /\ ~\E f : IsWalk(f, k)
  OBVIOUS
<1>4. CASE k = 0
  <2> DEFINE f == [n \in 0 .. 0 |-> head]
  <2>1. f \in [0 .. 0 -> Pointers] /\ f[0] = head
    BY DEF TypeOK
  <2>2. IsWalk(f, 0)
    BY <2>1 DEF IsWalk
  <2> QED
    BY <1>3, <1>4, <2>2
<1>5. CASE k # 0
  <2>1. k - 1 \in Nat /\ k - 1 \notin S
    BY <1>2, <1>3, <1>5
  <2>2. PICK g : IsWalk(g, k - 1)
    BY <2>1
  <2> DEFINE f == [n \in 0 .. k |-> IF n = k THEN Follow(g[k - 1]) ELSE g[n]]
  <2>3. \A n \in 0 .. k : n # k => n \in 0 .. k - 1
    BY <1>3
  <2>4. \A n \in 0 .. k : n # 0 => n - 1 \in 0 .. k - 1 /\ n - 1 \in 0 .. k /\ n - 1 # k
    BY <1>3
  <2>5. k - 1 \in 0 .. k - 1 /\ 0 \in 0 .. k
    BY <1>3, <2>1
  <2>6. f \in [0 .. k -> Pointers]
    BY <2>2, <2>3, <2>5, FollowType DEF IsWalk
  <2>7. f[0] = head
    BY <1>5, <2>2, <2>5 DEF IsWalk
  <2>8. ASSUME NEW n \in 0 .. k, n # 0 PROVE f[n] = Follow(f[n - 1])
    <3>1. f[n - 1] = g[n - 1]
      BY <2>4, <2>8
    <3>2. CASE n = k
      BY <3>1, <3>2
    <3>3. CASE n # k
      BY <2>2, <2>3, <2>8, <3>1, <3>3 DEF IsWalk
    <3> QED
      BY <3>2, <3>3
  <2>9. IsWalk(f, k)
    BY <2>6, <2>7, <2>8 DEF IsWalk
  <2> QED
    BY <1>3, <2>9
<1> QED
  BY <1>4, <1>5

LEMMA WalkRecursion ==
    ASSUME TypeOK
    PROVE  Walk = [n \in 0 .. Size |-> IF n = 0 THEN head ELSE Follow(Walk[n - 1])]
<1>1. PICK f : IsWalk(f, Size)
  BY SizeIsNat, WalkExists
<1>2. f = [n \in 0 .. Size |-> IF n = 0 THEN head
                               ELSE IF f[n - 1] = Null THEN Null ELSE next[f[n - 1]]]
  BY <1>1, SizeIsNat DEF IsWalk, Follow
<1> QED
  BY <1>2, Zenon DEF Walk, Size, Follow

LEMMA WalkTurns ==
    ASSUME TypeOK
    PROVE  /\ DOMAIN Walk = 0 .. Size /\ Walk[0] = head
           /\ \A n \in 0 .. Size : n # 0 => n - 1 \in 0 .. Size /\ Walk[n] = Follow(Walk[n - 1])
<1>1. Walk = [n \in 0 .. Size |-> IF n = 0 THEN head ELSE Follow(Walk[n - 1])]
  BY WalkRecursion
<1>2. \A n \in 0 .. Size : Walk[n] = IF n = 0 THEN head ELSE Follow(Walk[n - 1])
  BY <1>1, Zenon
<1>3. 0 \in 0 .. Size /\ \A n \in 0 .. Size : n # 0 => n - 1 \in 0 .. Size
  BY SizeIsNat
<1> QED
  BY <1>1, <1>2, <1>3

LEMMA WalkType ==
    ASSUME TypeOK
    PROVE  \A n \in 0 .. Size : Walk[n] \in Pointers
<1> DEFINE S == {n \in 0 .. Size : Walk[n] \notin Pointers}
<1>1. SUFFICES ASSUME S # {} PROVE FALSE
  OBVIOUS
<1>2. S \in SUBSET Nat
  BY SizeIsNat
<1>3. PICK n \in S : \A m \in S : n <= m
  BY <1>1, <1>2, Least
<1>4. n \in 0 .. Size /\ Walk[n] \notin Pointers /\ n \in Nat
  BY SizeIsNat
<1>5. n # 0
  BY <1>4, WalkTurns DEF TypeOK
<1>6. n - 1 \in 0 .. Size /\ Walk[n] = Follow(Walk[n - 1])
  BY <1>4, <1>5, WalkTurns
<1>7. Walk[n - 1] \in Pointers
  <2>1. n - 1 \notin S
    BY <1>3, <1>4
  <2> QED
    BY <1>6, <2>1
<1> QED
  BY <1>4, <1>6, <1>7, FollowType

\* The loop stops at a pointer of its list, or nowhere.
LEMMA FoundType == ASSUME TypeOK, NEW key PROVE Found(key) \in Pointers
<1>1. CASE Stops(key) = {}
  BY <1>1 DEF Found, Pointers
<1>2. CASE Stops(key) # {}
  <2>1. Stops(key) \in SUBSET Nat
    BY SizeIsNat, WalkTurns DEF Stops
  <2>2. \E n \in Stops(key) : \A m \in Stops(key) : n <= m
    BY <1>2, <2>1, Least
  <2> DEFINE n == CHOOSE n \in Stops(key) : \A m \in Stops(key) : n <= m
  <2>3. n \in Stops(key)
    BY <2>2
  <2>4. Walk[n] \in Pointers
    BY <2>3, WalkTurns, WalkType DEF Stops
  <2> QED
    BY <1>2, <2>4 DEF Found
<1> QED
  BY <1>1, <1>2

-----------------------------------------------------------------------------
(* A list that is a queue *)

\* The conjuncts of ListIsQueue.
IsQueue ==
    /\ IsInjective(queue)
    /\ head = IF queue = << >> THEN Null ELSE queue[1]
    /\ tail = IF queue = << >> THEN Null ELSE queue[Len(queue)]
    /\ \A n \in DOMAIN queue :
          /\ next[queue[n]] = IF n = Len(queue) THEN Null ELSE queue[n + 1]
          /\ previous[queue[n]] = IF n = 1 THEN Null ELSE queue[n - 1]

LEMMA QueueType ==
    ASSUME TypeOK
    PROVE  /\ Len(queue) \in Nat /\ DOMAIN queue = 1 .. Len(queue)
           /\ \A n \in 1 .. Len(queue) : queue[n] \in Entries /\ queue[n] # Null
           /\ queue = << >> <=> Len(queue) = 0
  BY EntriesAssumption DEF TypeOK

LEMMA QueueFits ==
    ASSUME TypeOK, IsQueue
    PROVE  Len(queue) <= Size
<1>1. queue \in Injection(1 .. Len(queue), Entries)
  BY QueueType DEF Injection, IsQueue, TypeOK
<1>2. Cardinality(1 .. Len(queue)) <= Size
  BY <1>1, FS_Injection, EntriesAssumption DEF Size
<1>3. Cardinality(1 .. Len(queue)) = Len(queue)
  BY QueueType, FS_Interval
<1> QED
  BY <1>2, <1>3

\* The loop goes from one entry of the queue to the next.
LEMMA WalkIsQueue ==
    ASSUME TypeOK, IsQueue
    PROVE  \A n \in 0 .. Size : Walk[n] = IF n < Len(queue) THEN queue[n + 1] ELSE Null
<1> DEFINE At(n) == IF n < Len(queue) THEN queue[n + 1] ELSE Null
           S == {n \in 0 .. Size : Walk[n] # At(n)}
<1>1. SUFFICES ASSUME S # {} PROVE FALSE
  OBVIOUS
<1>2. S \in SUBSET Nat
  BY SizeIsNat
<1>3. PICK n \in S : \A m \in S : n <= m
  BY <1>1, <1>2, Least
<1>4. n \in 0 .. Size /\ Walk[n] # At(n) /\ n \in Nat
  BY SizeIsNat
<1>5. n # 0
  <2>1. Walk[0] = At(0)
    BY WalkTurns, QueueType DEF IsQueue
  <2> QED
    BY <1>4, <2>1
<1>6. n - 1 \in 0 .. Size /\ Walk[n] = Follow(Walk[n - 1])
  BY <1>4, <1>5, WalkTurns
<1>7. Walk[n - 1] = At(n - 1)
  <2>1. n - 1 \notin S
    BY <1>3, <1>4
  <2> QED
    BY <1>6, <2>1
<1>8. Follow(At(n - 1)) = At(n)
  <2>1. CASE n - 1 < Len(queue)
    <3>1. n \in 1 .. Len(queue) /\ At(n - 1) = queue[n]
      BY <1>4, <1>5, <2>1, QueueType
    <3>2. Follow(queue[n]) = IF n = Len(queue) THEN Null ELSE queue[n + 1]
      BY <3>1, QueueType DEF IsQueue, Follow
    <3>3. Len(queue) \in Nat /\ n \in Nat /\ n <= Len(queue)
      BY <3>1, QueueType
    <3>4. CASE n = Len(queue)
      <4>1. ~(n < Len(queue))
        BY <3>3, <3>4
      <4> QED
        BY <3>1, <3>2, <3>4, <4>1
    <3>5. CASE n # Len(queue)
      <4>1. n < Len(queue)
        BY <3>3, <3>5
      <4> QED
        BY <3>1, <3>2, <3>5, <4>1
    <3> QED
      BY <3>4, <3>5
  <2>2. CASE ~(n - 1 < Len(queue))
    <3>1. ~(n < Len(queue))
      BY <1>4, <2>2, QueueType
    <3> QED
      BY <2>2, <3>1 DEF Follow
  <2> QED
    BY <2>1, <2>2
<1> QED
  BY <1>4, <1>6, <1>7, <1>8

\* The places of the entries with a key.
PlacesOf(key) == {n \in DOMAIN queue : keyOf[queue[n]] = key}

\* A look-up finds the entry that comes first in the queue, and comes to an end.
LEMMA FoundIsFirst ==
    ASSUME TypeOK, IsQueue, NEW key
    PROVE  /\ Found(key) = FirstOf(key) /\ ~Endless(key)
           /\ Found(key) # Null => \E i \in PlacesOf(key) :
                 Found(key) = queue[i] /\ \A j \in PlacesOf(key) : i <= j
<1>1. \A n \in 0 .. Size : n \in Stops(key) <=> n + 1 \in PlacesOf(key)
  <2> SUFFICES ASSUME NEW n \in 0 .. Size PROVE n \in Stops(key) <=> n + 1 \in PlacesOf(key)
    OBVIOUS
  <2>1. n \in Nat
    BY SizeIsNat
  <2>2. CASE n < Len(queue)
    <3>1. Walk[n] = queue[n + 1] /\ n + 1 \in 1 .. Len(queue)
      BY <2>1, <2>2, WalkIsQueue, QueueType
    <3>2. queue[n + 1] # Null
      BY <3>1, QueueType
    <3> QED
      BY <3>1, <3>2, WalkTurns, QueueType DEF Stops, PlacesOf
  <2>3. CASE ~(n < Len(queue))
    <3>1. Walk[n] = Null
      BY <2>3, WalkIsQueue
    <3>2. n + 1 \notin 1 .. Len(queue)
      BY <2>1, <2>3, QueueType
    <3> QED
      BY <3>1, <3>2, QueueType DEF Stops, PlacesOf
  <2> QED
    BY <2>2, <2>3
<1>2. Stops(key) \in SUBSET Nat /\ \A n \in Stops(key) : n \in 0 .. Size
  BY SizeIsNat, WalkTurns DEF Stops
<1>3. \A i \in PlacesOf(key) : i \in Nat /\ i - 1 \in 0 .. Size /\ (i - 1) + 1 = i
  BY QueueType, QueueFits, SizeIsNat DEF PlacesOf
<1>4. ~Endless(key)
  <2>1. Size \in 0 .. Size /\ ~(Size < Len(queue))
    BY SizeIsNat, QueueFits, QueueType
  <2>2. Walk[Size] = Null
    BY <2>1, WalkIsQueue
  <2> QED
    BY <2>2 DEF Endless, Size
<1>5. CASE Stops(key) = {}
  <2>1. PlacesOf(key) = {}
    BY <1>1, <1>3, <1>5
  <2> QED
    BY <1>4, <1>5, <2>1 DEF Found, FirstOf, PlacesOf
<1>6. CASE Stops(key) # {}
  <2> DEFINE n == CHOOSE n \in Stops(key) : \A m \in Stops(key) : n <= m
             i == CHOOSE i \in PlacesOf(key) : \A j \in PlacesOf(key) : i <= j
  <2>1. n \in Stops(key) /\ \A m \in Stops(key) : n <= m
    <3>1. \E x \in Stops(key) : \A m \in Stops(key) : x <= m
      BY <1>2, <1>6, Least
    <3> QED
      BY <3>1
  <2>2. PlacesOf(key) # {} /\ PlacesOf(key) \in SUBSET Nat
    BY <1>1, <1>2, <1>3, <1>6
  <2>3. i \in PlacesOf(key) /\ \A j \in PlacesOf(key) : i <= j
    <3>1. \E x \in PlacesOf(key) : \A j \in PlacesOf(key) : x <= j
      BY <2>2, Least
    <3> QED
      BY <3>1
  <2>4. Found(key) = Walk[n]
    BY <1>6 DEF Found
  <2>5. FirstOf(key) = queue[i]
    BY <2>2 DEF FirstOf, PlacesOf
  <2> HIDE DEF n, i
  <2>6. i = n + 1
    <3>1. n \in Nat /\ n + 1 \in PlacesOf(key)
      BY <1>1, <1>2, <2>1
    <3>2. i - 1 \in Stops(key) /\ i \in Nat
      BY <1>1, <1>3, <2>3
    <3>3. n <= i - 1 /\ i <= n + 1
      BY <2>1, <2>3, <3>1, <3>2
    <3> QED
      BY <3>1, <3>2, <3>3
  <2>7. Walk[n] = queue[i]
    <3>1. n \in 0 .. Size /\ n \in Nat
      BY <1>2, <2>1
    <3>2. n < Len(queue)
      BY <2>3, <2>6, <3>1, QueueType DEF PlacesOf
    <3> QED
      BY <2>6, <3>1, <3>2, WalkIsQueue
  <2> QED
    BY <1>4, <2>3, <2>4, <2>5, <2>7
<1> QED
  BY <1>5, <1>6

-----------------------------------------------------------------------------
(* An entry leaves the queue *)

LEMMA WithoutType ==
    ASSUME NEW S, NEW s \in Seq(S), NEW x
    PROVE  Without(s, x) \in Seq(S)
<1>1. CASE Contains(s, x)
  <2> DEFINE i == CHOOSE i \in DOMAIN s : s[i] = x
  <2>1. DOMAIN s = 1 .. Len(s) /\ Len(s) \in Nat
    OBVIOUS
  <2>2. i \in 1 .. Len(s)
    BY <1>1, <2>1 DEF Contains
  <2>3. Without(s, x) = SubSeq(s, 1, i - 1) \o SubSeq(s, i + 1, Len(s))
    BY <1>1 DEF Without, RemoveAt
  <2> HIDE DEF i
  <2>4. SubSeq(s, 1, i - 1) \in Seq(S)
    BY <2>1, <2>2
  <2>5. SubSeq(s, i + 1, Len(s)) \in Seq(S)
    BY <2>1, <2>2
  <2> QED
    BY <2>3, <2>4, <2>5
<1>2. CASE ~Contains(s, x)
  BY <1>2 DEF Without
<1> QED
  BY <1>1, <1>2

\* The entries behind the one that leaves move up by one place.
LEMMA WithoutPlaces ==
    ASSUME NEW S, NEW s \in Seq(S), IsInjective(s), NEW i \in DOMAIN s
    PROVE  /\ Len(Without(s, s[i])) = Len(s) - 1
           /\ Without(s, s[i]) \in Seq(S)
           /\ \A j \in 1 .. i - 1 : Without(s, s[i])[j] = s[j]
           /\ \A j \in i .. Len(s) - 1 : Without(s, s[i])[j] = s[j + 1]
<1> DEFINE L == Len(s)
<1>1. DOMAIN s = 1 .. L /\ L \in Nat /\ i \in 1 .. L /\ i \in Nat
  OBVIOUS
<1>2. (CHOOSE j \in DOMAIN s : s[j] = s[i]) = i
  BY <1>1 DEF IsInjective
<1>3. Contains(s, s[i])
  BY <1>1 DEF Contains
<1>4. Without(s, s[i]) = SubSeq(s, 1, i - 1) \o SubSeq(s, i + 1, L)
  BY <1>2, <1>3 DEF Without, RemoveAt
<1> DEFINE a == SubSeq(s, 1, i - 1)
           b == SubSeq(s, i + 1, L)
<1>5. a \in Seq(S) /\ Len(a) = i - 1 /\ \A j \in 1 .. i - 1 : a[j] = s[j]
  BY <1>1
<1>6. b \in Seq(S) /\ Len(b) = L - i /\ \A j \in 1 .. L - i : b[j] = s[i + j]
  BY <1>1
<1> HIDE DEF a, b, L
<1>7. a \o b \in Seq(S) /\ Len(a \o b) = Len(a) + Len(b)
  <2>1. a \in Seq(S) /\ b \in Seq(S)
    BY <1>5, <1>6
  <2> QED
    BY <2>1
<1>8. Len(a \o b) = L - 1
  BY <1>1, <1>5, <1>6, <1>7
<1>9. ASSUME NEW j \in 1 .. i - 1 PROVE (a \o b)[j] = s[j]
  <2>1. j \in 1 .. Len(a)
    BY <1>5
  <2>2. (a \o b)[j] = a[j]
    BY <1>5, <1>6, <2>1
  <2> QED
    BY <1>5, <2>2
<1>10. ASSUME NEW j \in i .. L - 1 PROVE (a \o b)[j] = s[j + 1]
  <2>1. j \in Nat /\ j - (i - 1) \in 1 .. L - i /\ i + (j - (i - 1)) = j + 1
    BY <1>1
  <2>2. j \in Len(a) + 1 .. Len(a) + Len(b) /\ j - Len(a) = j - (i - 1)
    BY <1>1, <1>5, <1>6
  <2>3. (a \o b)[j] = b[j - Len(a)]
    BY <1>5, <1>6, <2>2
  <2> QED
    BY <1>6, <2>1, <2>2, <2>3
<1> QED
  BY <1>4, <1>7, <1>8, <1>9, <1>10 DEF a, b, L

\* The queue after the entry at place i has left.
LeftFrom(i) ==
    /\ Len(queue') = Len(queue) - 1 /\ queue' \in Seq(Entries)
    /\ DOMAIN queue' = 1 .. Len(queue) - 1
    /\ \A j \in 1 .. i - 1 : queue'[j] = queue[j]
    /\ \A j \in i .. Len(queue) - 1 : queue'[j] = queue[j + 1]

LEMMA Leaves ==
    ASSUME TypeOK, IsQueue, NEW i \in DOMAIN queue, queue' = Without(queue, queue[i])
    PROVE  LeftFrom(i) /\ IsInjective(queue')
<1>1. queue \in Seq(Entries) /\ IsInjective(queue)
  BY DEF TypeOK, IsQueue
<1>2. /\ Len(queue') = Len(queue) - 1 /\ queue' \in Seq(Entries)
      /\ \A j \in 1 .. i - 1 : queue'[j] = queue[j]
      /\ \A j \in i .. Len(queue) - 1 : queue'[j] = queue[j + 1]
  BY <1>1, WithoutPlaces
<1>3. DOMAIN queue' = 1 .. Len(queue')
  BY <1>2
<1> DEFINE L == Len(queue)
<1>4. DOMAIN queue = 1 .. L /\ L \in Nat /\ i \in 1 .. L
  BY <1>1
<1> HIDE DEF L
<1> DEFINE old(j) == IF j < i THEN j ELSE j + 1
<1>5. ASSUME NEW j \in 1 .. L - 1 PROVE queue'[j] = queue[old(j)] /\ old(j) \in 1 .. L
  <2>1. CASE j < i
    <3>1. j \in 1 .. i - 1 /\ j \in 1 .. L
      BY <1>4, <2>1
    <3> QED
      BY <1>2, <2>1, <3>1 DEF L
  <2>2. CASE ~(j < i)
    <3>1. j \in i .. L - 1 /\ j + 1 \in 1 .. L
      BY <1>4, <2>2
    <3> QED
      BY <1>2, <2>2, <3>1 DEF L
  <2> QED
    BY <2>1, <2>2
<1>6. ASSUME NEW j \in 1 .. L - 1, NEW k \in 1 .. L - 1, old(j) = old(k) PROVE j = k
  BY <1>4, <1>6
<1> HIDE DEF old
<1>7. IsInjective(queue')
  <2>1. DOMAIN queue' = 1 .. L - 1
    BY <1>2, <1>3 DEF L
  <2>2. \A j, k \in 1 .. L : queue[j] = queue[k] => j = k
    BY <1>1, <1>4 DEF IsInjective
  <2> QED
    BY <1>5, <1>6, <2>1, <2>2 DEF IsInjective
<1> QED
  BY <1>2, <1>3, <1>7 DEF LeftFrom

\* The facts about a queue, place by place.
LEMMA Places ==
    ASSUME TypeOK, IsQueue, NEW L, L = Len(queue)
    PROVE  /\ L \in Nat /\ DOMAIN queue = 1 .. L /\ (queue = << >> <=> L = 0)
           /\ \A n \in 1 .. L : queue[n] \in Entries /\ queue[n] # Null
           /\ \A m, n \in 1 .. L : queue[m] = queue[n] => m = n
           /\ \A n \in 1 .. L : n # L => next[queue[n]] = queue[n + 1]
           /\ \A n \in 1 .. L : n # 1 => previous[queue[n]] = queue[n - 1]
           /\ L # 0 => /\ head = queue[1] /\ tail = queue[L]
                       /\ next[queue[L]] = Null /\ previous[queue[1]] = Null
           /\ L = 0 => head = Null /\ tail = Null
<1>1. /\ L \in Nat /\ DOMAIN queue = 1 .. L /\ (queue = << >> <=> L = 0)
      /\ \A n \in 1 .. L : queue[n] \in Entries /\ queue[n] # Null
  BY QueueType
<1>2. L # 0 => 1 \in 1 .. L /\ L \in 1 .. L
  BY <1>1
<1> QED
  BY <1>1, <1>2 DEF IsQueue, IsInjective

\* Facts place by place make a queue.
LEMMA MakesQueue ==
    ASSUME queue' \in Seq(Entries), NEW L, L = Len(queue'), IsInjective(queue'),
           \A n \in 1 .. L : n # L => next'[queue'[n]] = queue'[n + 1],
           \A n \in 1 .. L : n # 1 => previous'[queue'[n]] = queue'[n - 1],
           L # 0 => /\ head' = queue'[1] /\ tail' = queue'[L]
                    /\ next'[queue'[L]] = Null /\ previous'[queue'[1]] = Null,
           L = 0 => head' = Null /\ tail' = Null
    PROVE  IsQueue'
<1>1. L \in Nat /\ DOMAIN queue' = 1 .. L /\ (queue' = << >> <=> L = 0)
  OBVIOUS
<1> QED
  BY <1>1 DEF IsQueue

\* The head leaves: remove_port_sk and put_port_sk.
LEMMA HeadLeaves ==
    ASSUME TypeOK, IsQueue, queue # << >>, UnlinkHead(head), queue' = Without(queue, head)
    PROVE  IsQueue'
<1>1. PICK L : L = Len(queue)
  OBVIOUS
<1>2. /\ L \in Nat /\ L >= 1 /\ DOMAIN queue = 1 .. L /\ 1 \in 1 .. L /\ L # 0
      /\ \A n \in 1 .. L : queue[n] \in Entries /\ queue[n] # Null
      /\ \A m, n \in 1 .. L : queue[m] = queue[n] => m = n
      /\ \A n \in 1 .. L : n # L => next[queue[n]] = queue[n + 1]
      /\ \A n \in 1 .. L : n # 1 => previous[queue[n]] = queue[n - 1]
      /\ head = queue[1] /\ tail = queue[L]
      /\ next[queue[L]] = Null /\ previous[queue[1]] = Null
  BY <1>1, Places
<1>3. LeftFrom(1) /\ IsInjective(queue')
  BY <1>2, Leaves
<1>4. /\ Len(queue') = L - 1 /\ queue' \in Seq(Entries)
      /\ \A j \in 1 .. L - 1 : queue'[j] = queue[j + 1]
  BY <1>1, <1>3 DEF LeftFrom
<1>5. /\ head' = next[queue[1]] /\ next' = next
      /\ next[queue[1]] = Null => tail' = Null
      /\ next[queue[1]] # Null =>
            tail' = tail /\ previous' = [previous EXCEPT ![next[queue[1]]] = Null]
  BY <1>2 DEF UnlinkHead
<1>6. CASE L = 1
  <2>1. L - 1 = 0 /\ head' = Null /\ tail' = Null /\ \A n \in 1 .. 0 : FALSE
    BY <1>2, <1>5, <1>6
  <2> QED
    BY <1>3, <1>4, <2>1, MakesQueue
<1>7. CASE L # 1
  <2>1. /\ 2 \in 1 .. L /\ L - 1 \in 1 .. L - 1 /\ 1 \in 1 .. L - 1 /\ (L - 1) + 1 = L
        /\ L - 1 # 0 /\ 1 + 1 = 2
    BY <1>2, <1>7
  <2>2. next[queue[1]] = queue[2] /\ queue[2] # Null /\ queue[2] \in Entries
    BY <1>2, <1>7, <2>1
  <2>3. /\ previous'[queue[2]] = Null
        /\ \A n \in 1 .. L : n # 2 => previous'[queue[n]] = previous[queue[n]]
    BY <1>2, <1>5, <2>1, <2>2 DEF TypeOK
  <2>4. queue'[1] = queue[2] /\ queue'[L - 1] = queue[L]
    BY <1>4, <2>1
  <2>5. /\ head' = queue'[1] /\ tail' = queue'[L - 1]
        /\ next'[queue'[L - 1]] = Null /\ previous'[queue'[1]] = Null
    BY <1>2, <1>5, <2>2, <2>3, <2>4
  <2>6. ASSUME NEW n \in 1 .. L - 1, n # L - 1 PROVE next'[queue'[n]] = queue'[n + 1]
    <3>1. n + 1 \in 1 .. L - 1 /\ n + 1 # L /\ n + 1 \in 1 .. L
      BY <1>2, <2>6
    <3> QED
      BY <1>2, <1>4, <1>5, <3>1
  <2>7. ASSUME NEW n \in 1 .. L - 1, n # 1 PROVE previous'[queue'[n]] = queue'[n - 1]
    <3>1. /\ n + 1 \in 1 .. L /\ n + 1 # 2 /\ n + 1 # 1 /\ n - 1 \in 1 .. L - 1
          /\ (n + 1) - 1 = n /\ (n - 1) + 1 = n
      BY <1>2, <2>7
    <3>2. previous'[queue[n + 1]] = queue[n]
      BY <1>2, <2>3, <3>1
    <3> QED
      BY <1>4, <3>1, <3>2
  <2> QED
    BY <1>3, <1>4, <2>1, <2>5, <2>6, <2>7, MakesQueue
<1> QED
  BY <1>6, <1>7

\* An entry between two others leaves.
LEMMA MiddleLeaves ==
    ASSUME TypeOK, IsQueue, NEW i \in DOMAIN queue, UnlinkMiddle(queue[i]),
           queue' = Without(queue, queue[i])
    PROVE  IsQueue' /\ fault' = fault
<1>1. PICK L : L = Len(queue)
  OBVIOUS
<1>2. /\ L \in Nat /\ i \in 1 .. L /\ L >= 1 /\ DOMAIN queue = 1 .. L /\ L # 0 /\ i \in Nat
      /\ \A n \in 1 .. L : queue[n] \in Entries /\ queue[n] # Null
      /\ \A m, n \in 1 .. L : queue[m] = queue[n] => m = n
      /\ \A n \in 1 .. L : n # L => next[queue[n]] = queue[n + 1]
      /\ \A n \in 1 .. L : n # 1 => previous[queue[n]] = queue[n - 1]
      /\ head = queue[1] /\ tail = queue[L]
      /\ next[queue[L]] = Null /\ previous[queue[1]] = Null
  BY <1>1, Places
<1>3. LeftFrom(i) /\ IsInjective(queue')
  BY <1>2, Leaves
<1>4. /\ Len(queue') = L - 1 /\ queue' \in Seq(Entries)
      /\ \A j \in 1 .. i - 1 : queue'[j] = queue[j]
      /\ \A j \in i .. L - 1 : queue'[j] = queue[j + 1]
  BY <1>1, <1>3 DEF LeftFrom
<1>5. i # 1 /\ i # L
  BY <1>2 DEF UnlinkMiddle
<1>6. /\ i - 1 \in 1 .. L /\ i + 1 \in 1 .. L /\ i - 1 \in 1 .. i - 1 /\ i \in i .. L - 1
      /\ 1 \in 1 .. i - 1 /\ L - 1 \in i .. L - 1 /\ (L - 1) + 1 = L /\ L - 1 # 0
      /\ L \in 1 .. L /\ 1 \in 1 .. L /\ L # i - 1 /\ 1 # i + 1
  BY <1>2, <1>5
<1>7. next[queue[i]] = queue[i + 1] /\ previous[queue[i]] = queue[i - 1]
  BY <1>2, <1>5
<1>8. /\ next' = [next EXCEPT ![queue[i - 1]] = queue[i + 1]]
      /\ previous' = [previous EXCEPT ![queue[i + 1]] = queue[i - 1]]
      /\ head' = head /\ tail' = tail /\ fault' = fault
  BY <1>2, <1>6, <1>7 DEF UnlinkMiddle
<1>9. /\ next'[queue[i - 1]] = queue[i + 1]
      /\ \A n \in 1 .. L : n # i - 1 => next'[queue[n]] = next[queue[n]]
  BY <1>2, <1>6, <1>8 DEF TypeOK
<1>10. /\ previous'[queue[i + 1]] = queue[i - 1]
       /\ \A n \in 1 .. L : n # i + 1 => previous'[queue[n]] = previous[queue[n]]
  BY <1>2, <1>6, <1>8 DEF TypeOK
<1>11. /\ queue'[1] = queue[1] /\ queue'[L - 1] = queue[L]
       /\ queue'[i - 1] = queue[i - 1] /\ queue'[i] = queue[i + 1]
  BY <1>4, <1>6
<1>12. /\ head' = queue'[1] /\ tail' = queue'[L - 1]
       /\ next'[queue'[L - 1]] = Null /\ previous'[queue'[1]] = Null
  BY <1>2, <1>6, <1>8, <1>9, <1>10, <1>11
<1>13. ASSUME NEW n \in 1 .. L - 1, n # L - 1 PROVE next'[queue'[n]] = queue'[n + 1]
  <2>1. CASE n < i - 1
    <3>1. /\ n \in 1 .. i - 1 /\ n + 1 \in 1 .. i - 1 /\ n # i - 1 /\ n # L /\ n \in 1 .. L
      BY <1>2, <2>1
    <3>2. next'[queue[n]] = next[queue[n]]
      BY <1>9, <3>1
    <3>3. next[queue[n]] = queue[n + 1]
      BY <1>2, <3>1
    <3>4. queue'[n] = queue[n] /\ queue'[n + 1] = queue[n + 1]
      BY <1>4, <3>1
    <3> QED
      BY <3>2, <3>3, <3>4
  <2>2. CASE n = i - 1
    <3>1. n + 1 = i
      BY <1>2, <2>2
    <3> QED
      BY <1>9, <1>11, <2>2, <3>1
  <2>3. CASE n >= i
    <3>1. /\ n \in i .. L - 1 /\ n + 1 \in i .. L - 1 /\ n + 1 \in 1 .. L
          /\ n + 1 # i - 1 /\ n + 1 # L
      BY <1>2, <1>13, <2>3
    <3>2. next'[queue[n + 1]] = queue[(n + 1) + 1]
      BY <1>2, <1>9, <3>1
    <3>3. queue'[n] = queue[n + 1] /\ queue'[n + 1] = queue[(n + 1) + 1]
      BY <1>4, <3>1
    <3> QED
      BY <3>2, <3>3
  <2>4. n < i - 1 \/ n = i - 1 \/ n >= i
    BY <1>2
  <2> QED
    BY <2>1, <2>2, <2>3, <2>4
<1>14. ASSUME NEW n \in 1 .. L - 1, n # 1 PROVE previous'[queue'[n]] = queue'[n - 1]
  <2>1. CASE n < i
    <3>1. n \in 1 .. i - 1 /\ n - 1 \in 1 .. i - 1 /\ n # i + 1 /\ n \in 1 .. L
      BY <1>2, <1>14, <2>1
    <3>2. previous'[queue[n]] = previous[queue[n]]
      BY <1>10, <3>1
    <3>3. previous[queue[n]] = queue[n - 1]
      BY <1>2, <1>14, <3>1
    <3>4. queue'[n] = queue[n] /\ queue'[n - 1] = queue[n - 1]
      BY <1>4, <3>1
    <3> QED
      BY <3>2, <3>3, <3>4
  <2>2. CASE n = i
    BY <1>10, <1>11, <2>2
  <2>3. CASE n > i
    <3>1. /\ n \in i .. L - 1 /\ n - 1 \in i .. L - 1 /\ n + 1 \in 1 .. L
          /\ n + 1 # i + 1 /\ n + 1 # 1 /\ (n + 1) - 1 = n /\ (n - 1) + 1 = n
      BY <1>2, <2>3
    <3>2. previous'[queue[n + 1]] = queue[n]
      BY <1>2, <1>10, <3>1
    <3> QED
      BY <1>4, <3>1, <3>2
  <2>4. n < i \/ n = i \/ n > i
    BY <1>2
  <2> QED
    BY <2>1, <2>2, <2>3, <2>4
<1>15. IsQueue'
  BY <1>3, <1>4, <1>6, <1>12, <1>13, <1>14, MakesQueue
<1> QED
  BY <1>8, <1>15

-----------------------------------------------------------------------------
(* The operations *)

\* All four properties together are inductive.
TableInv == TypeOK /\ ListIsQueue /\ AnswersRight /\ OneKeyIsSafe

LEMMA QueueIs == ListIsQueue <=> (~wasCut => IsQueue)
  BY DEF ListIsQueue, IsQueue

\* add_port_sk: behind the last entry, which the tail pointer points to.
LEMMA AddedBehind ==
    ASSUME TypeOK, IsQueue, NEW e \in Entries, ~Contains(queue, e), AddBehindTail(e)
    PROVE  IsQueue'
<1>1. PICK L : L = Len(queue)
  OBVIOUS
<1>2. /\ L \in Nat /\ DOMAIN queue = 1 .. L
      /\ \A n \in 1 .. L : queue[n] \in Entries /\ queue[n] # Null
      /\ \A m, n \in 1 .. L : queue[m] = queue[n] => m = n
      /\ \A n \in 1 .. L : n # L => next[queue[n]] = queue[n + 1]
      /\ \A n \in 1 .. L : n # 1 => previous[queue[n]] = queue[n - 1]
      /\ L # 0 => /\ head = queue[1] /\ tail = queue[L]
                  /\ next[queue[L]] = Null /\ previous[queue[1]] = Null
      /\ L = 0 => head = Null /\ tail = Null
  BY <1>1, Places
<1>3. /\ L + 1 = Len(queue') /\ queue' \in Seq(Entries) /\ queue'[L + 1] = e
      /\ \A n \in 1 .. L : queue'[n] = queue[n]
      /\ DOMAIN queue' = 1 .. L + 1
  BY <1>1 DEF AddBehindTail, TypeOK
<1>4. e # Null /\ \A n \in 1 .. L : queue[n] # e
  BY <1>2, EntriesAssumption DEF Contains
<1>5. IsInjective(queue')
  <2>1. \A n \in 1 .. L + 1 : n \in 1 .. L \/ n = L + 1
    BY <1>2
  <2> QED
    BY <1>2, <1>3, <1>4, <2>1 DEF IsInjective
<1>6. L + 1 # 0 /\ L + 1 \in 1 .. L + 1 /\ 1 \in 1 .. L + 1
  BY <1>2
<1>7. CASE L = 0
  <2>1. tail = Null /\ head' = e /\ tail' = e /\ next'[e] = Null /\ previous'[e] = Null
    BY <1>2, <1>7 DEF AddBehindTail, TypeOK
  <2>2. /\ queue'[1] = e /\ queue'[L + 1] = e
        /\ \A n \in 1 .. L + 1 : n = 1
        /\ \A n \in 1 .. L + 1 : n = L + 1
    BY <1>3, <1>7
  <2>3. /\ head' = queue'[1] /\ tail' = queue'[L + 1]
        /\ next'[queue'[L + 1]] = Null /\ previous'[queue'[1]] = Null
    BY <2>1, <2>2
  <2>4. \A n \in 1 .. L + 1 : n # L + 1 => next'[queue'[n]] = queue'[n + 1]
    BY <2>2
  <2>5. \A n \in 1 .. L + 1 : n # 1 => previous'[queue'[n]] = queue'[n - 1]
    BY <2>2
  <2> QED
    BY <1>3, <1>5, <1>6, <2>3, <2>4, <2>5, MakesQueue
<1>8. CASE L # 0
  <2>1. L \in 1 .. L /\ 1 \in 1 .. L /\ L + 1 # 1 /\ (L + 1) - 1 = L
    BY <1>2, <1>8
  <2>2. tail = queue[L] /\ tail \in Entries /\ tail # Null /\ tail # e
    BY <1>2, <1>4, <1>8, <2>1
  <2>3. /\ next' = [next EXCEPT ![e] = Null, ![tail] = e]
        /\ previous' = [previous EXCEPT ![e] = tail] /\ head' = head /\ tail' = e
    BY <2>2 DEF AddBehindTail
  <2>4. /\ next'[e] = Null /\ next'[queue[L]] = e /\ previous'[e] = queue[L]
        /\ \A n \in 1 .. L : previous'[queue[n]] = previous[queue[n]]
        /\ \A n \in 1 .. L : n # L => next'[queue[n]] = next[queue[n]]
    BY <1>2, <1>4, <2>1, <2>2, <2>3 DEF TypeOK
  <2>5. /\ head' = queue'[1] /\ tail' = queue'[L + 1]
        /\ next'[queue'[L + 1]] = Null /\ previous'[queue'[1]] = Null
    BY <1>2, <1>3, <1>8, <2>1, <2>3, <2>4
  <2>6. ASSUME NEW n \in 1 .. L + 1, n # L + 1 PROVE next'[queue'[n]] = queue'[n + 1]
    <3>1. n \in 1 .. L /\ n + 1 \in 1 .. L + 1
      BY <1>2, <2>6
    <3>2. CASE n = L
      BY <1>3, <2>1, <2>4, <3>2
    <3>3. CASE n # L
      <4>1. n + 1 \in 1 .. L
        BY <1>2, <3>1, <3>3
      <4> QED
        BY <1>2, <1>3, <2>4, <3>1, <3>3, <4>1
    <3> QED
      BY <3>2, <3>3
  <2>7. ASSUME NEW n \in 1 .. L + 1, n # 1 PROVE previous'[queue'[n]] = queue'[n - 1]
    <3>1. n - 1 \in 1 .. L
      BY <1>2, <2>7
    <3>2. CASE n = L + 1
      BY <1>3, <2>1, <2>4, <3>2
    <3>3. CASE n # L + 1
      <4>1. n \in 1 .. L
        BY <1>2, <3>3
      <4> QED
        BY <1>2, <1>3, <2>4, <2>7, <3>1, <4>1
    <3> QED
      BY <3>2, <3>3
  <2> QED
    BY <1>3, <1>5, <1>6, <2>5, <2>6, <2>7, MakesQueue
<1> QED
  BY <1>7, <1>8

LEMMA AddSafe ==
    ASSUME TableInv, NEW e \in Pointers, Add(e)
    PROVE  TableInv'
<1>1. CASE e = Null
  BY <1>1 DEF Add, vars, links, TableInv, TypeOK, ListIsQueue, AnswersRight, OneKeyIsSafe
<1>2. CASE e # Null
  <2>1. e \in Entries /\ ~Contains(queue, e) /\ AddBehindTail(e)
    BY <1>2 DEF Add, Pointers
  <2>2. UNCHANGED <<keyOf, answer, fault, wasCut, expected>>
    BY <2>1 DEF AddBehindTail
  <2>3. TypeOK'
    <3>1. queue' \in Seq(Entries)
      BY <2>1 DEF AddBehindTail, TableInv, TypeOK
    <3>2. e \in Pointers /\ Null \in Pointers
      BY DEF Pointers
    <3>3. next' \in [Entries -> Pointers] /\ previous' \in [Entries -> Pointers]
      BY <2>1, <3>2 DEF AddBehindTail, TableInv, TypeOK
    <3>4. head' \in Pointers /\ tail' \in Pointers
      BY <2>1, <3>2 DEF AddBehindTail, TableInv, TypeOK
    <3> QED
      BY <2>2, <3>1, <3>3, <3>4 DEF TableInv, TypeOK
  <2>4. ListIsQueue'
    BY <2>1, <2>2, AddedBehind, QueueIs DEF TableInv, ListIsQueue, IsQueue
  <2> QED
    BY <2>2, <2>3, <2>4 DEF TableInv, AnswersRight, OneKeyIsSafe
<1> QED
  BY <1>1, <1>2

\* The links of an entry that is in no list do not matter.
LEMMA ReuseSafe ==
    ASSUME TableInv, NEW e \in Entries, Reuse(e)
    PROVE  TableInv'
<1>1. PICK p \in Pointers : next' = [next EXCEPT ![e] = p]
  BY DEF Reuse
<1>2. PICK q \in Pointers : previous' = [previous EXCEPT ![e] = q]
  BY DEF Reuse
<1>3. /\ ~Contains(queue, e)
      /\ UNCHANGED <<keyOf, head, tail, answer, fault, queue, wasCut, expected>>
  BY DEF Reuse
<1>4. TypeOK'
  BY <1>1, <1>2, <1>3 DEF TableInv, TypeOK
<1>5. \A n \in DOMAIN queue : queue[n] \in Entries /\ queue[n] # e
  BY <1>3, QueueType DEF TableInv, Contains
<1>6. \A n \in DOMAIN queue : /\ next'[queue[n]] = next[queue[n]]
                              /\ previous'[queue[n]] = previous[queue[n]]
  BY <1>1, <1>2, <1>5 DEF TableInv, TypeOK
<1>7. ListIsQueue'
  BY <1>3, <1>6 DEF TableInv, ListIsQueue
<1> QED
  BY <1>3, <1>4, <1>7 DEF TableInv, AnswersRight, OneKeyIsSafe

LEMMA UnlinkType ==
    ASSUME TypeOK, NEW e \in Entries, UnlinkHead(e) \/ UnlinkTail(e) \/ UnlinkMiddle(e)
    PROVE  /\ head' \in Pointers /\ tail' \in Pointers /\ fault' \in BOOLEAN
           /\ next' \in [Entries -> Pointers] /\ previous' \in [Entries -> Pointers]
<1>1. next[e] \in Pointers /\ previous[e] \in Pointers /\ Null \in Pointers
  BY DEF TypeOK, Pointers
<1>2. CASE UnlinkHead(e)
  BY <1>1, <1>2 DEF UnlinkHead, TypeOK
<1>3. CASE UnlinkTail(e)
  BY <1>1, <1>3 DEF UnlinkTail, TypeOK
<1>4. CASE UnlinkMiddle(e)
  BY <1>1, <1>4 DEF UnlinkMiddle, TypeOK, links
<1> QED
  BY <1>2, <1>3, <1>4

LEMMA FirstType == ASSUME TypeOK, NEW key PROVE FirstOf(key) \in Pointers
<1>1. CASE PlacesOf(key) = {}
  BY <1>1 DEF FirstOf, PlacesOf, Pointers
<1>2. CASE PlacesOf(key) # {}
  <2>1. PlacesOf(key) \in SUBSET Nat
    BY QueueType DEF PlacesOf
  <2>2. \E i \in PlacesOf(key) : \A j \in PlacesOf(key) : i <= j
    BY <1>2, <2>1, Least
  <2> DEFINE i == CHOOSE i \in PlacesOf(key) : \A j \in PlacesOf(key) : i <= j
  <2>3. i \in PlacesOf(key)
    BY <2>2
  <2>4. FirstOf(key) = queue[i]
    BY <1>2 DEF FirstOf, PlacesOf
  <2> QED
    BY <2>3, <2>4, QueueType DEF PlacesOf, Pointers
<1> QED
  BY <1>1, <1>2

\* What an operation that leaves the entries' keys alone must establish.
LEMMA StillSafe ==
    ASSUME TableInv, TypeOK', UNCHANGED keyOf,
           ~wasCut' => IsQueue' /\ answer' = expected' /\ ~fault',
           (\A e, f \in Entries : keyOf[e] = keyOf[f]) => wasCut' = wasCut
    PROVE  TableInv'
<1>1. ListIsQueue' /\ AnswersRight'
  BY DEF ListIsQueue, IsQueue, AnswersRight
<1>2. OneKeyIsSafe'
  BY DEF TableInv, OneKeyIsSafe
<1> QED
  BY <1>1, <1>2 DEF TableInv

LEMMA EndlessType == \A key : Endless(key) \in BOOLEAN
  BY DEF Endless

\* get_port_sk changes no list.
LEMMA GetKeySafe ==
    ASSUME TableInv, NEW key \in Keys, GetKey(key)
    PROVE  TableInv'
<1>1. /\ answer' = Found(key) /\ expected' = FirstOf(key) /\ fault' = Endless(key)
      /\ UNCHANGED <<keyOf, head, tail, next, previous, queue, wasCut>>
  BY DEF GetKey, Answer, links
<1>2. TypeOK
  BY DEF TableInv
<1>3. TypeOK'
  <2>1. answer' \in Pointers /\ expected' \in Pointers /\ fault' \in BOOLEAN
    BY <1>1, <1>2, FoundType, FirstType, EndlessType
  <2> QED
    BY <1>1, <1>2, <2>1 DEF TypeOK
<1>4. ASSUME ~wasCut' PROVE IsQueue' /\ answer' = expected' /\ ~fault'
  <2>1. IsQueue
    BY <1>1, <1>4, QueueIs DEF TableInv
  <2>2. Found(key) = FirstOf(key) /\ ~Endless(key)
    BY <1>2, <2>1, FoundIsFirst
  <2>3. IsQueue'
    BY <1>1, <2>1 DEF IsQueue
  <2> QED
    BY <1>1, <2>2, <2>3
<1> QED
  BY <1>1, <1>3, <1>4, StillSafe

\* put_port_sk takes the head, which is the oldest entry.
LEMMA PutSafe ==
    ASSUME TableInv, Put
    PROVE  TableInv'
<1>1. /\ answer' = head /\ expected' = IF queue = << >> THEN Null ELSE queue[1]
      /\ UNCHANGED <<keyOf, wasCut>>
  BY DEF Put, Answer
<1>2. TypeOK
  BY DEF TableInv
<1>3. expected' \in Pointers
  BY <1>1, <1>2, QueueType DEF Pointers
<1>4. CASE head = Null
  <2>1. UNCHANGED <<head, tail, next, previous, queue, fault>>
    BY <1>4 DEF Put, links
  <2>2. TypeOK'
    BY <1>1, <1>2, <1>3, <2>1 DEF TypeOK
  <2>3. ASSUME ~wasCut' PROVE IsQueue' /\ answer' = expected' /\ ~fault'
    <3>1. IsQueue
      BY <1>1, <2>3, QueueIs DEF TableInv
    <3>2. IsQueue'
      BY <2>1, <3>1 DEF IsQueue
    <3>3. ~fault'
      BY <2>1 DEF Put
    <3> QED
      BY <1>1, <3>1, <3>2, <3>3 DEF IsQueue
  <2> QED
    BY <1>1, <2>2, <2>3, StillSafe
<1>5. CASE head # Null
  <2>1. UnlinkHead(head) /\ queue' = Without(queue, head) /\ head \in Entries
    BY <1>2, <1>5 DEF Put, TypeOK, Pointers
  <2>2. TypeOK'
    <3>1. queue' \in Seq(Entries)
      BY <1>2, <2>1, WithoutType DEF TypeOK
    <3>2. answer' \in Pointers
      BY <1>1, <1>2 DEF TypeOK
    <3> QED
      BY <1>1, <1>2, <1>3, <2>1, <3>1, <3>2, UnlinkType DEF TypeOK
  <2>3. ASSUME ~wasCut' PROVE IsQueue' /\ answer' = expected' /\ ~fault'
    <3>1. IsQueue
      BY <1>1, <2>3, QueueIs DEF TableInv
    <3>2. queue # << >> /\ head = queue[1]
      BY <1>5, <3>1 DEF IsQueue
    <3>3. IsQueue'
      BY <1>2, <2>1, <3>1, <3>2, HeadLeaves
    <3>4. ~fault'
      BY <2>1 DEF Put, UnlinkHead
    <3> QED
      BY <1>1, <3>2, <3>3, <3>4
  <2> QED
    BY <1>1, <2>2, <2>3, StillSafe
<1> QED
  BY <1>4, <1>5

\* remove_port_sk, when it finds an entry.
LEMMA RemoveFoundSafe ==
    ASSUME TableInv, NEW key \in Keys, RemoveKey(key), Found(key) # Null
    PROVE  TableInv'
<1>1. /\ answer' = Found(key) /\ expected' = FirstOf(key)
      /\ UNCHANGED keyOf /\ ~fault /\ RemoveFound(Found(key))
  BY DEF RemoveKey, Answer
<1>2. TypeOK
  BY DEF TableInv
<1>3. PICK e \in Entries : e = Found(key)
  BY <1>2, FoundType DEF Pointers
<1>4. /\ UnlinkHead(e) \/ UnlinkTail(e) \/ UnlinkMiddle(e)
      /\ queue' = Without(queue, e)
      /\ wasCut' = (wasCut \/ (e # head /\ e = tail))
  BY <1>1, <1>3 DEF RemoveFound
<1>5. TypeOK'
  <2>1. queue' \in Seq(Entries)
    BY <1>2, <1>4, WithoutType DEF TypeOK
  <2>2. answer' \in Pointers /\ expected' \in Pointers
    BY <1>1, <1>2, FoundType, FirstType
  <2>3. wasCut' \in BOOLEAN
    BY <1>4, Zenon
  <2> QED
    BY <1>1, <1>2, <1>4, <2>1, <2>2, <2>3, UnlinkType DEF TypeOK
<1>6. IsQueue => /\ e = FirstOf(key)
                 /\ \E i \in PlacesOf(key) : e = queue[i] /\ \A j \in PlacesOf(key) : i <= j
  BY <1>2, <1>3, FoundIsFirst
<1>7. ASSUME ~wasCut' PROVE IsQueue' /\ answer' = expected' /\ ~fault'
  <2>1. ~wasCut /\ ~(e # head /\ e = tail)
    BY <1>4, <1>7
  <2>2. IsQueue
    BY <2>1, QueueIs DEF TableInv
  <2>3. PICK i \in DOMAIN queue : e = queue[i]
    BY <1>6, <2>2 DEF PlacesOf
  <2>4. IsQueue' /\ ~fault'
    <3>1. CASE UnlinkHead(e)
      <4>1. e = head /\ queue # << >> /\ ~fault'
        BY <1>1, <1>2, <2>3, <3>1, QueueType DEF UnlinkHead
      <4> QED
        BY <1>2, <1>4, <2>2, <3>1, <4>1, HeadLeaves
    <3>2. CASE UnlinkTail(e)
      BY <2>1, <3>2 DEF UnlinkTail
    <3>3. CASE UnlinkMiddle(e)
      BY <1>1, <1>2, <1>4, <2>2, <2>3, <3>3, MiddleLeaves
    <3> QED
      BY <1>4, <3>1, <3>2, <3>3
  <2> QED
    BY <1>1, <1>3, <1>6, <2>2, <2>4
<1>8. ASSUME \A d, f \in Entries : keyOf[d] = keyOf[f] PROVE wasCut' = wasCut
  <2>1. ~wasCut /\ IsQueue
    BY <1>8, QueueIs DEF TableInv, OneKeyIsSafe
  <2>2. PICK i \in PlacesOf(key) : e = queue[i] /\ \A j \in PlacesOf(key) : i <= j
    BY <1>6, <2>1
  <2>3. /\ i \in Nat /\ i >= 1 /\ i \in 1 .. Len(queue) /\ 1 \in 1 .. Len(queue)
        /\ DOMAIN queue = 1 .. Len(queue) /\ queue # << >>
    BY <1>2, QueueType DEF PlacesOf
  <2>4. 1 \in PlacesOf(key)
    BY <1>2, <1>8, <2>3, QueueType DEF PlacesOf
  <2>5. i = 1
    BY <2>2, <2>3, <2>4
  <2>6. e = head
    BY <2>1, <2>2, <2>3, <2>5 DEF IsQueue
  <2> QED
    BY <1>2, <1>4, <2>1, <2>6, Zenon DEF TypeOK
<1> QED
  BY <1>1, <1>5, <1>7, <1>8, StillSafe

LEMMA RemoveKeySafe ==
    ASSUME TableInv, NEW key \in Keys, RemoveKey(key)
    PROVE  TableInv'
<1>1. CASE Found(key) # Null
  BY <1>1, RemoveFoundSafe
<1>2. CASE Found(key) = Null
  <2>1. /\ answer' = Found(key) /\ expected' = FirstOf(key) /\ fault' = Endless(key)
        /\ UNCHANGED <<keyOf, head, tail, next, previous, queue, wasCut>> /\ ~fault
    BY <1>2 DEF RemoveKey, Answer, links
  <2>2. GetKey(key)
    BY <2>1 DEF GetKey, Answer, links
  <2> QED
    BY <2>2, GetKeySafe
<1> QED
  BY <1>1, <1>2

-----------------------------------------------------------------------------
(* The theorems *)

LEMMA InitSafe == Init => TableInv
<1> SUFFICES ASSUME Init PROVE TableInv
  OBVIOUS
<1>1. queue = << >> /\ DOMAIN queue = {} /\ Len(queue) = 0 /\ queue \in Seq(Entries)
  BY DEF Init
<1>2. TypeOK
  BY <1>1 DEF Init, TypeOK, Pointers
<1>3. ListIsQueue
  BY <1>1 DEF Init, ListIsQueue, IsInjective
<1> QED
  BY <1>2, <1>3 DEF Init, TableInv, AnswersRight, OneKeyIsSafe

LEMMA StutterSafe == TableInv /\ UNCHANGED vars => TableInv'
  BY DEF vars, links, TableInv, TypeOK, ListIsQueue, AnswersRight, OneKeyIsSafe

LEMMA StepSafe == TableInv /\ [Next]_vars => TableInv'
<1> SUFFICES ASSUME TableInv, [Next]_vars PROVE TableInv'
  OBVIOUS
<1>1. ASSUME NEW e \in Pointers, Add(e) PROVE TableInv'
  BY <1>1, AddSafe
<1>2. ASSUME NEW e \in Entries, Reuse(e) PROVE TableInv'
  BY <1>2, ReuseSafe
<1>3. ASSUME NEW key \in Keys, RemoveKey(key) PROVE TableInv'
  BY <1>3, RemoveKeySafe
<1>4. ASSUME NEW key \in Keys, GetKey(key) PROVE TableInv'
  BY <1>4, GetKeySafe
<1>5. CASE Put
  BY <1>5, PutSafe
<1>6. CASE UNCHANGED vars
  BY <1>6, StutterSafe
<1> QED
  BY <1>1, <1>2, <1>3, <1>4, <1>5, <1>6 DEF Next

\* In every reachable state of a table of port_functions.c the four properties
\* hold together.
THEOREM TableInvariant == Spec => []TableInv
  BY InitSafe, StepSafe, PTL DEF Spec

\* Every pointer of a list of port_functions.c is null or the address of a
\* struct port_sk, whatever is added, removed or freed.
THEOREM PointersAreValid == Spec => []TypeOK
<1>1. TableInv => TypeOK
  BY DEF TableInv
<1> QED
  BY <1>1, TableInvariant, PTL

\* Until remove_port_sk takes the last of several entries, add_port_sk,
\* remove_port_sk and put_port_sk keep head, tail and the links of both
\* directions those of one queue, for any number of entries and keys.
THEOREM LinksMakeAQueue == Spec => []ListIsQueue
<1>1. TableInv => ListIsQueue
  BY DEF TableInv
<1> QED
  BY <1>1, TableInvariant, PTL

\* As long, every look-up, removal and take answers with the oldest entry it
\* could mean, follows no null pointer and comes to an end.
THEOREM OldestIsAnswered == Spec => []AnswersRight
<1>1. TableInv => AnswersRight
  BY DEF TableInv
<1> QED
  BY <1>1, TableInvariant, PTL

\* A list whose entries all have one key never loses its tail: what is found is
\* always the head, so the branch of remove_port_sk that leaves the tail pointer
\* behind is never taken.
THEOREM OneKeyNeverCuts == Spec => []OneKeyIsSafe
<1>1. TableInv => OneKeyIsSafe
  BY DEF TableInv
<1> QED
  BY <1>1, TableInvariant, PTL

=============================================================================
