------------------------- MODULE LiveMonitorProofs -------------------------
(***************************************************************************)
(* Proofs about LiveMonitor, for any number of events, viewers, losses and *)
(* faults and any size of the ring and the buffers.                        *)
(***************************************************************************)
EXTENDS LiveMonitor, FiniteSetTheorems, SequenceTheorems, TLAPS

-----------------------------------------------------------------------------
(* Sets of numbers.                                                        *)

(* A set of numbers is a finite set of naturals. *)
LEMMA NumbersFinite ==
    ASSUME NEW R, \A n \in R : n \in Numbers
    PROVE  (\A n \in R : n \in Nat) /\ IsFiniteSet(R)
<1>1. N \in Nat /\ IsFiniteSet(1..N)
  BY SessionOfAssumption, FS_Interval
<1>2. R \in SUBSET (1..N)
  BY DEF Numbers
<1>3. IsFiniteSet(R)
  BY <1>1, <1>2, FS_Subset
<1> QED
  BY <1>1, <1>3 DEF Numbers

(* A set of naturals that is not empty has a least member. *)
LEMMA LeastMember ==
    ASSUME NEW R, \A n \in R : n \in Nat, R # {}
    PROVE  \E n \in R : \A m \in R : n <= m
<1> DEFINE Less == OpToRel(<, Nat)
<1>1. IsWellFoundedOn(Less, Nat)
  BY NatLessThanWellFounded
<1>2. \A x, y \in Nat : <<y, x>> \in Less <=> y < x
  BY DEF OpToRel
<1> HIDE DEF Less
<1>3. PICK x \in R : \A y \in R : ~(<<y, x>> \in Less)
  BY <1>1, WFMin
<1>4. ASSUME NEW y \in R PROVE x <= y
  <2>1. x \in Nat /\ y \in Nat
    OBVIOUS
  <2>2. ~(<<y, x>> \in Less)
    BY <1>3
  <2>3. ~(y < x)
    BY <1>2, <2>1, <2>2, Zenon
  <2> QED
    BY <2>1, <2>3
<1> QED
  BY <1>4

(* The newer part of a set is a smaller set. *)
LEMMA AfterFinite ==
    ASSUME NEW R, \A r \in R : r \in Nat, IsFiniteSet(R), NEW n \in Nat
    PROVE  /\ After(R, n) \subseteq R \ {n}
           /\ IsFiniteSet(After(R, n))
           /\ Cardinality(After(R, n)) \in Nat /\ Cardinality(R) \in Nat
           /\ Cardinality(After(R, n)) <= Cardinality(R)
<1>1. After(R, n) \subseteq R \ {n}
  BY DEF After
<1> QED
  BY <1>1, FS_Subset, FS_CardinalityType

(* What Publish leaves of the ring with one more event: everything, or all *)
(* but the oldest.                                                         *)
LEMMA TrimCases ==
    ASSUME NEW Q, \A q \in Q : q \in Nat, IsFiniteSet(Q), Cardinality(Q) <= Capacity + 1
    PROVE  \/ Cardinality(Q) <= Capacity /\ Trim(Q) = Q
           \/ /\ Cardinality(Q) = Capacity + 1
              /\ \E x \in Q : (\A y \in Q : x <= y) /\ Trim(Q) = Q \ {x}
<1>0. Cardinality(Q) \in Nat /\ Capacity \in Nat \ {0}
  BY FS_CardinalityType, CapacityAssumption
<1>a. Trim(Q) = {z \in Q : Cardinality(After(Q, z)) < Capacity}
  BY DEF Trim, After
<1>1. CASE Cardinality(Q) <= Capacity
  <2>1. ASSUME NEW z \in Q PROVE Cardinality(After(Q, z)) < Capacity
    <3>1. After(Q, z) \subseteq Q \ {z} /\ Cardinality(After(Q, z)) \in Nat
      BY AfterFinite
    <3>2. IsFiniteSet(Q \ {z}) /\ Cardinality(Q \ {z}) = Cardinality(Q) - 1
      BY FS_RemoveElement
    <3> QED
      BY <3>1, <3>2, <1>0, <1>1, FS_Subset
  <2> QED
    BY <2>1, <1>1, <1>a
<1>2. CASE Cardinality(Q) = Capacity + 1
  <2>1. PICK x \in Q : \A y \in Q : x <= y
    <3>1. Q # {}
      BY <1>0, <1>2, FS_EmptySet
    <3> QED
      BY <3>1, LeastMember
  <2>2. ~(Cardinality(After(Q, x)) < Capacity)
    <3>1. After(Q, x) = Q \ {x}
      BY <2>1 DEF After
    <3> QED
      BY <3>1, <1>0, <1>2, FS_RemoveElement
  <2>3. ASSUME NEW z \in Q, z # x PROVE Cardinality(After(Q, z)) < Capacity
    <3>1. After(Q, z) \subseteq (Q \ {z}) \ {x} /\ Cardinality(After(Q, z)) \in Nat
      BY <2>1, <2>3, AfterFinite DEF After
    <3>2. IsFiniteSet(Q \ {z}) /\ Cardinality(Q \ {z}) = Capacity
      BY <1>0, <1>2, FS_RemoveElement
    <3>3. IsFiniteSet((Q \ {z}) \ {x}) /\ Cardinality((Q \ {z}) \ {x}) = Capacity - 1
      BY <2>3, <3>2, FS_RemoveElement
    <3> QED
      BY <3>1, <3>3, <1>0, FS_Subset
  <2> QED
    BY <2>1, <2>2, <2>3, <1>a, <1>2
<1> QED
  BY <1>0, <1>1, <1>2

(* A ring to which an event was published: an event that it no longer      *)
(* holds is older than all of it, and it is full; what was so stays so.    *)
LEMMA TrimAdd ==
    ASSUME NEW R, \A r \in R : r \in Nat, IsFiniteSet(R), Cardinality(R) <= Capacity, NEW n \in Nat, n \notin R
    PROVE  LET Q == R \cup {n} IN
           /\ Trim(Q) \subseteq Q /\ IsFiniteSet(Trim(Q)) /\ Cardinality(Trim(Q)) <= Capacity
           /\ \A x \in Q : x \in Trim(Q) \/ Cardinality(After(Trim(Q), x)) = Capacity
           /\ \A x \in Nat : Cardinality(After(R, x)) = Capacity =>
                 x \notin Trim(Q) /\ Cardinality(After(Trim(Q), x)) = Capacity
<1> DEFINE Q == R \cup {n}
<1>0. Cardinality(R) \in Nat /\ Capacity \in Nat \ {0}
  BY FS_CardinalityType, CapacityAssumption
<1>1. (\A q \in Q : q \in Nat) /\ IsFiniteSet(Q) /\ Cardinality(Q) = Cardinality(R) + 1
  BY FS_AddElement
<1> HIDE DEF Q
<1>2. Trim(Q) \subseteq Q
  BY DEF Trim
<1>3. \/ Cardinality(Q) <= Capacity /\ Trim(Q) = Q
      \/ /\ Cardinality(Q) = Capacity + 1
         /\ \E x \in Q : (\A y \in Q : x <= y) /\ Trim(Q) = Q \ {x}
  BY <1>0, <1>1, TrimCases
<1>4. ASSUME NEW x \in Nat, Cardinality(After(R, x)) = Capacity
      PROVE  /\ x \notin R /\ \A y \in R : y > x
             /\ Cardinality(R) = Capacity
  <2>1. After(R, x) \in SUBSET R
    BY DEF After
  <2>2. After(R, x) = R
    BY <2>1, <1>0, <1>4, FS_Subset
  <2> QED
    BY <2>2, <1>4 DEF After
<1>5. CASE Cardinality(Q) <= Capacity /\ Trim(Q) = Q
  BY <1>0, <1>1, <1>4, <1>5 DEF Q
<1>6. CASE /\ Cardinality(Q) = Capacity + 1
           /\ \E x \in Q : (\A y \in Q : x <= y) /\ Trim(Q) = Q \ {x}
  <2>1. PICK z \in Q : (\A y \in Q : z <= y) /\ Trim(Q) = Q \ {z}
    BY <1>6
  <2>2. IsFiniteSet(Trim(Q)) /\ Cardinality(Trim(Q)) = Capacity
    <3>1. IsFiniteSet(Q \ {z}) /\ Cardinality(Q \ {z}) = Cardinality(Q) - 1
      BY <2>1, <1>1, FS_RemoveElement
    <3> QED
      BY <3>1, <2>1, <1>0, <1>6
  <2>3. After(Trim(Q), z) = Trim(Q)
    BY <2>1, <1>1 DEF After
  <2>4. \A x \in Q : x \in Trim(Q) \/ Cardinality(After(Trim(Q), x)) = Capacity
    BY <2>1, <2>2, <2>3
  <2>5. ASSUME NEW x \in Nat, Cardinality(After(R, x)) = Capacity
        PROVE  x \notin Trim(Q) /\ Cardinality(After(Trim(Q), x)) = Capacity
    <3>1. \A y \in R : y > x
      BY <1>4, <2>5
    <3>2. \A y \in Trim(Q) : y > x
      BY <3>1, <2>1, <1>1 DEF Q
    <3>3. After(Trim(Q), x) = Trim(Q)
      BY <3>2 DEF After
    <3> QED
      BY <3>2, <3>3, <2>2, <1>1, <1>2
  <2> QED
    BY <2>2, <2>4, <2>5, <1>0, <1>2 DEF Q
<1> QED
  BY <1>3, <1>5, <1>6
-----------------------------------------------------------------------------
(* Sequences in order.                                                     *)

InOrder(s) == \A j, k \in DOMAIN s : j < k => s[j] < s[k]

(* Two members of a set have different places in it, the lower the first.  *)
LEMMA RankOrder ==
    ASSUME NEW R, \A r \in R : r \in Nat, IsFiniteSet(R), NEW m \in R, NEW n \in R
    PROVE  /\ Rank(R, n) \in 1..Cardinality(R)
           /\ m < n => Rank(R, m) < Rank(R, n)
<1> DEFINE UpTo(x) == {r \in R : r <= x}
<1>1. \A x \in R : UpTo(x) \in SUBSET R /\ x \in UpTo(x) /\ Rank(R, x) = Cardinality(UpTo(x))
  BY DEF Rank
<1>2. ASSUME NEW x \in R
      PROVE  IsFiniteSet(UpTo(x)) /\ Rank(R, x) \in Nat \ {0} /\ Rank(R, x) <= Cardinality(R)
  <2>1. UpTo(x) \in SUBSET R /\ UpTo(x) # {} /\ Rank(R, x) = Cardinality(UpTo(x))
    BY <1>1
  <2> HIDE DEF UpTo
  <2>2. IsFiniteSet(UpTo(x)) /\ Cardinality(UpTo(x)) <= Cardinality(R)
    BY <2>1, FS_Subset
  <2>3. Cardinality(UpTo(x)) \in Nat /\ Cardinality(UpTo(x)) # 0
    BY <2>1, <2>2, FS_CardinalityType, FS_EmptySet
  <2> QED
    BY <2>1, <2>2, <2>3
<1>3. ASSUME m < n PROVE Rank(R, m) < Rank(R, n)
  <2>1. UpTo(m) \in SUBSET UpTo(n) /\ UpTo(m) # UpTo(n)
    <3>1. m \in Nat /\ n \in Nat
      OBVIOUS
    <3>2. n \in UpTo(n) /\ n \notin UpTo(m)
      BY <3>1, <1>3
    <3>3. ASSUME NEW r \in UpTo(m) PROVE r \in UpTo(n)
      <4>1. r \in R /\ r \in Nat /\ r <= m
        OBVIOUS
      <4>2. r <= n
        BY <4>1, <3>1, <1>3
      <4> QED
        BY <4>1, <4>2
    <3> HIDE DEF UpTo
    <3> QED
      BY <3>2, <3>3
  <2>2. Rank(R, m) = Cardinality(UpTo(m)) /\ Rank(R, n) = Cardinality(UpTo(n)) /\ IsFiniteSet(UpTo(n))
    BY <1>1, <1>2
  <2> HIDE DEF UpTo
  <2>3. Cardinality(UpTo(m)) <= Cardinality(UpTo(n)) /\ Cardinality(UpTo(m)) # Cardinality(UpTo(n))
    BY <2>1, <2>2, FS_Subset
  <2> QED
    BY <2>2, <2>3, <1>2
<1>4. Cardinality(R) \in Nat
  BY FS_CardinalityType
<1>5. Rank(R, n) \in Nat \ {0} /\ Rank(R, n) <= Cardinality(R)
  BY <1>2
<1> QED
  BY <1>3, <1>4, <1>5

(* Ascending lists a set in order. *)
LEMMA AscendingLists ==
    ASSUME NEW R, \A r \in R : r \in Nat, IsFiniteSet(R)
    PROVE  LET s == Ascending(R) IN
           /\ s \in Seq(R) /\ Range(s) = R /\ InOrder(s)
           /\ s = << >> <=> R = {}
           /\ R # {} => Last(s) \in R /\ \A r \in R : r <= Last(s)
<1> DEFINE c == Cardinality(R)
           s == Ascending(R)
<1>1. c \in Nat
  BY FS_CardinalityType
<1>2. \A k \in 1..c : \E n \in R : Rank(R, n) = k
  <2> DEFINE f == [n \in R |-> Rank(R, n)]
  <2>1. f \in [R -> 1..c]
    BY RankOrder
  <2>2. \A m, n \in R : f[m] = f[n] => m = n
    <3>1. ASSUME NEW m \in R, NEW n \in R, f[m] = f[n] PROVE m = n
      <4>1. Rank(R, m) = Rank(R, n) /\ m \in Nat /\ n \in Nat /\ Rank(R, m) \in 1..c
        BY <3>1, RankOrder
      <4>2. (m < n => Rank(R, m) < Rank(R, n)) /\ (n < m => Rank(R, n) < Rank(R, m))
        BY RankOrder
      <4>3. Rank(R, m) \in Int
        BY <4>1, <1>1
      <4> QED
        BY <4>1, <4>2, <4>3
    <3> QED
      BY <3>1
  <2>3. f \in Injection(R, 1..c)
    BY <2>1, <2>2 DEF Injection, IsInjective
  <2>4. IsFiniteSet(1..c) /\ Cardinality(1..c) = c
    BY <1>1, FS_Interval
  <2>5. f \in Surjection(R, 1..c)
    BY <2>3, <2>4, FS_Injection
  <2> QED
    BY <2>5 DEF Surjection
<1>3. /\ DOMAIN s = 1..c
      /\ \A k \in 1..c : s[k] \in R /\ Rank(R, s[k]) = k
  BY <1>2 DEF Ascending
<1>4. s \in Seq(R) /\ Len(s) = c
  <2>1. s = [k \in 1..c |-> s[k]] /\ \A k \in 1..c : s[k] \in R
    BY <1>3 DEF Ascending
  <2> HIDE DEF s, c
  <2> QED
    BY <1>1, <2>1
<1>5. ASSUME NEW n \in R PROVE Rank(R, n) \in 1..c /\ s[Rank(R, n)] = n
  <2>1. Rank(R, n) \in 1..c
    BY RankOrder
  <2> DEFINE m == s[Rank(R, n)]
  <2>2. m \in R /\ Rank(R, m) = Rank(R, n)
    BY <1>3, <2>1
  <2>3. m \in Nat /\ n \in Nat
    BY <2>2
  <2>4. ~(m < n) /\ ~(n < m)
    <3> HIDE DEF m
    <3> QED
      BY <2>1, <2>2, RankOrder, <1>1
  <2> QED
    BY <2>1, <2>3, <2>4
<1>6. InOrder(s)
  <2>1. ASSUME NEW j \in 1..c, NEW k \in 1..c, j < k PROVE s[j] < s[k]
    <3>1. s[j] \in R /\ s[k] \in R /\ Rank(R, s[j]) = j /\ Rank(R, s[k]) = k
      BY <1>3
    <3>2. ~(s[k] < s[j]) /\ s[k] # s[j]
      <4> HIDE DEF s, c
      <4> QED
        BY <3>1, <2>1, <1>1, RankOrder
    <3> QED
      BY <3>1, <3>2
  <2> QED
    BY <2>1, <1>3 DEF InOrder
<1>7. Range(s) = R
  BY <1>3, <1>5 DEF Range
<1>8. s = << >> <=> R = {}
  <2>1. c = 0 <=> R = {}
    BY FS_EmptySet
  <2> HIDE DEF s, c
  <2> QED
    BY <2>1, <1>1, <1>4, EmptySeq
<1>9. ASSUME R # {} PROVE Last(s) \in R /\ \A r \in R : r <= Last(s)
  <2>1. c \in 1..c
    <3>1. c # 0
      BY <1>9, FS_EmptySet
    <3> HIDE DEF c
    <3> QED
      BY <1>1, <3>1
  <2>2. Last(s) = s[c] /\ s[c] \in R
    BY <1>3, <1>4, <2>1 DEF Last
  <2>3. ASSUME NEW r \in R PROVE r <= s[c]
    <3>1. Rank(R, r) \in 1..c /\ s[Rank(R, r)] = r
      BY <1>5
    <3>2. Rank(R, r) < c => s[Rank(R, r)] < s[c]
      BY <3>1, <2>1, <1>3, <1>6 DEF InOrder
    <3>3. Rank(R, r) < c \/ Rank(R, r) = c
      BY <3>1, <1>1
    <3>4. s[c] \in Nat /\ r \in Nat
      BY <2>2
    <3> HIDE DEF s, c
    <3> QED
      BY <3>1, <3>2, <3>3, <3>4
  <2> QED
    BY <2>2, <2>3
<1> QED
  BY <1>4, <1>6, <1>7, <1>8, <1>9

(* What is sent after a sequence in order, and is above it, extends it. *)
LEMMA ConcatOrder ==
    ASSUME NEW s \in Seq(Numbers), NEW t \in Seq(Numbers)
    PROVE  /\ s \o t \in Seq(Numbers)
           /\ Range(s \o t) = Range(s) \cup Range(t)
           /\ InOrder(s) /\ InOrder(t) /\ (\A m \in Range(s) : \A n \in Range(t) : m < n) =>
                 InOrder(s \o t)
<1>1. /\ s \o t \in Seq(Numbers) /\ Len(s \o t) = Len(s) + Len(t)
      /\ Len(s) \in Nat /\ Len(t) \in Nat
      /\ \A i \in 1..(Len(s) + Len(t)) : (s \o t)[i] = IF i <= Len(s) THEN s[i] ELSE t[i - Len(s)]
  OBVIOUS
<1>2. DOMAIN s = 1..Len(s) /\ DOMAIN t = 1..Len(t) /\ DOMAIN (s \o t) = 1..(Len(s) + Len(t))
  OBVIOUS
<1>a. \A i \in 1..Len(s) : i \in 1..(Len(s) + Len(t)) /\ (s \o t)[i] = s[i]
  BY <1>1
<1>b. \A i \in 1..Len(t) : Len(s) + i \in 1..(Len(s) + Len(t)) /\ (s \o t)[Len(s) + i] = t[i]
  BY <1>1
<1>c. \A i \in 1..(Len(s) + Len(t)) :
         \/ i \in 1..Len(s) /\ (s \o t)[i] = s[i]
         \/ i - Len(s) \in 1..Len(t) /\ (s \o t)[i] = t[i - Len(s)]
  BY <1>1
<1>3. Range(s \o t) \subseteq Range(s) \cup Range(t)
  BY <1>2, <1>c DEF Range
<1>4. Range(s) \subseteq Range(s \o t)
  BY <1>2, <1>a DEF Range
<1>5. Range(t) \subseteq Range(s \o t)
  BY <1>2, <1>b DEF Range
<1>6. ASSUME InOrder(s), InOrder(t), \A m \in Range(s) : \A n \in Range(t) : m < n
      PROVE  InOrder(s \o t)
  <2>1. ASSUME NEW j \in 1..(Len(s) + Len(t)), NEW k \in 1..(Len(s) + Len(t)), j < k
        PROVE  (s \o t)[j] < (s \o t)[k]
    <3>1. CASE j \in 1..Len(s) /\ k \in 1..Len(s)
      BY <3>1, <2>1, <1>2, <1>a, <1>6 DEF InOrder
    <3>2. CASE j \in 1..Len(s) /\ k \notin 1..Len(s)
      <4>1. (s \o t)[j] = s[j] /\ s[j] \in Range(s)
        BY <3>2, <1>a, <1>2 DEF Range
      <4>2. (s \o t)[k] = t[k - Len(s)] /\ t[k - Len(s)] \in Range(t)
        BY <3>2, <1>c, <1>2 DEF Range
      <4> QED
        BY <4>1, <4>2, <1>6
    <3>3. CASE j \notin 1..Len(s)
      <4>1. k \notin 1..Len(s)
        BY <3>3, <2>1, <1>1
      <4>2. /\ (s \o t)[j] = t[j - Len(s)] /\ j - Len(s) \in 1..Len(t)
            /\ (s \o t)[k] = t[k - Len(s)] /\ k - Len(s) \in 1..Len(t)
        BY <3>3, <4>1, <1>c
      <4>3. j - Len(s) < k - Len(s)
        BY <2>1, <1>1
      <4>4. t[j - Len(s)] < t[k - Len(s)]
        BY <4>2, <4>3, <1>2, <1>6 DEF InOrder
      <4> QED
        BY <4>2, <4>4
    <3> QED
      BY <3>1, <3>2, <3>3
  <2> QED
    BY <2>1, <1>2 DEF InOrder
<1> QED
  BY <1>1, <1>3, <1>4, <1>5, <1>6

-----------------------------------------------------------------------------
(* A Handler and its client.                                               *)

ViewRecord == [pc : {"off", "oldest", "recent", "history", "live"},
               lastSent : Numbers \cup {0}, ch : Seq(Numbers),
               oldest : Numbers \cup {0}, recent : SUBSET Numbers, wire : Seq(Numbers)]

(* OrderInv and ShownInOrder of a client that has shown c, served by h. *)
Ahead(c, h) ==
    /\ InOrder(c)
    /\ InOrder(h.wire)
    /\ \A m \in Range(c) : \A n \in Range(h.wire) : m < n
    /\ h.pc = "off" => h.wire = << >>
    /\ h.pc # "off" =>
          /\ \A n \in Range(c) \cup Range(h.wire) : n <= h.lastSent
          /\ h.lastSent = 0 \/ h.lastSent \in Range(c) \cup Range(h.wire)

LEMMA AheadIsOrder == (OrderInv /\ ShownInOrder) <=> \A v \in Viewers : Ahead(client[v], view[v])
  BY DEF OrderInv, ShownInOrder, Ahead, InOrder, Sent, Shown

(* The events above a number are numbers. *)
LEMMA AfterNumbers ==
    ASSUME NEW R \in SUBSET Numbers, NEW l \in Numbers \cup {0}
    PROVE  /\ (\A n \in After(R, l) : n \in Numbers /\ n \in Nat /\ n > l /\ n \in R)
           /\ IsFiniteSet(After(R, l))
           /\ l \in Nat
<1>1. \A n \in After(R, l) : n \in Numbers /\ n > l /\ n \in R
  BY DEF After
<1>2. l \in Nat
  BY SessionOfAssumption DEF Numbers
<1> QED
  BY <1>1, <1>2, NumbersFinite

(* From h to g the wire grew by what is new of R, and the rest is kept. *)
Extends(c, h, g, R) ==
    /\ g \in ViewRecord /\ Ahead(c, g)
    /\ g.pc = h.pc /\ g.ch = h.ch /\ g.oldest = h.oldest /\ g.recent = h.recent
    /\ Range(g.wire) = Range(h.wire) \cup After(R, h.lastSent)
    /\ g.lastSent = h.lastSent \/ g.lastSent \in After(R, h.lastSent)
    /\ g.lastSent >= h.lastSent

LEMMA SendExtends ==
    ASSUME NEW c \in Seq(Numbers), NEW h \in ViewRecord, h.pc # "off", Ahead(c, h),
           NEW R \in SUBSET Numbers
    PROVE  Extends(c, h, Send(h, R), R)
<1> DEFINE A == After(R, h.lastSent)
           new == Ascending(A)
           g == Send(h, R)
<1>1. h.lastSent \in Numbers \cup {0} /\ h.wire \in Seq(Numbers)
  BY DEF ViewRecord
<1>2. (\A n \in A : n \in Numbers /\ n \in Nat /\ n > h.lastSent) /\ IsFiniteSet(A) /\ h.lastSent \in Nat
  BY <1>1, AfterNumbers
<1> HIDE DEF A
<1>3. /\ new \in Seq(A) /\ Range(new) = A /\ InOrder(new)
      /\ new = << >> <=> A = {}
      /\ A # {} => Last(new) \in A /\ \A r \in A : r <= Last(new)
  BY <1>2, AscendingLists
<1>4. new \in Seq(Numbers)
  <2> HIDE DEF new
  <2> QED
    BY <1>2, <1>3
<1>5. g = IF new = << >> THEN h ELSE [h EXCEPT !.wire = @ \o new, !.lastSent = Last(new)]
  BY DEF Send, A
<1> HIDE DEF new, g
<1>6. CASE new = << >>
  <2>1. A = {} /\ g = h
    BY <1>6, <1>3, <1>5
  <2> QED
    BY <2>1, <1>2 DEF A, g, Extends
<1>7. CASE new # << >>
  <2>1. Last(new) \in A /\ (\A r \in A : r <= Last(new)) /\ Last(new) \in Numbers /\ Last(new) \in Nat
    BY <1>2, <1>3, <1>7
  <2>2. /\ g.wire = h.wire \o new /\ g.lastSent = Last(new)
        /\ g.pc = h.pc /\ g.ch = h.ch /\ g.oldest = h.oldest /\ g.recent = h.recent
    BY <1>5, <1>7 DEF ViewRecord
  <2>3. \A n \in Range(c) \cup Range(h.wire) : n <= h.lastSent /\ n \in Nat
    <3>1. \A n \in Range(c) \cup Range(h.wire) : n <= h.lastSent
      BY DEF Ahead
    <3>2. \A n \in Range(c) \cup Range(h.wire) : n \in Numbers
      BY <1>1 DEF Range
    <3> QED
      BY <3>1, <3>2, NumbersFinite
  <2>4. /\ g.wire \in Seq(Numbers)
        /\ Range(g.wire) = Range(h.wire) \cup A
    BY <2>2, <1>1, <1>3, <1>4, ConcatOrder
  <2>5. InOrder(g.wire)
    <3>1. \A m \in Range(h.wire) : \A n \in Range(new) : m < n
      BY <2>3, <1>2, <1>3
    <3>2. InOrder(h.wire)
      BY DEF Ahead
    <3> QED
      BY <3>1, <3>2, <2>2, <1>1, <1>3, <1>4, ConcatOrder
  <2>6. \A m \in Range(c) : \A n \in Range(g.wire) : m < n
    <3>1. \A m \in Range(c) : \A n \in Range(h.wire) : m < n
      BY DEF Ahead
    <3>2. \A m \in Range(c) : \A n \in A : m < n
      BY <2>3, <1>2
    <3> QED
      BY <3>1, <3>2, <2>4
  <2>7. h.lastSent <= Last(new)
    BY <2>1, <1>2
  <2>8. \A n \in Range(c) \cup Range(g.wire) : n <= g.lastSent
    BY <2>1, <2>2, <2>3, <2>4, <2>7, <1>2
  <2>9. Ahead(c, g)
    BY <2>1, <2>2, <2>4, <2>5, <2>6, <2>8 DEF Ahead
  <2>10. g \in ViewRecord
    BY <2>1, <2>2, <2>4, <1>5, <1>7 DEF ViewRecord
  <2> QED
    BY <2>1, <2>2, <2>4, <2>7, <2>9, <2>10 DEF A, g, Extends
<1> QED
  BY <1>6, <1>7

-----------------------------------------------------------------------------
(* Types, offsets and order.                                               *)

BaseInv == TypeOK /\ OffsetInv /\ \A v \in Viewers : Ahead(client[v], view[v])

(* What TypeOK says of one viewer. *)
LEMMA ViewTyped ==
    ASSUME BaseInv, NEW v \in Viewers
    PROVE  view[v] \in ViewRecord /\ client[v] \in Seq(Numbers) /\ Ahead(client[v], view[v])
  BY DEF BaseInv, TypeOK, ViewRecord

(* The log of a session holds numbers. *)
LEMMA LogTyped ==
    ASSUME BaseInv, NEW s \in Sessions
    PROVE  /\ log[s] \in Seq(Numbers) /\ Len(log[s]) \in Nat
           /\ DOMAIN log[s] = 1..Len(log[s])
           /\ \A k \in 1..Len(log[s]) : log[s][k] \in Numbers /\ log[s][k] \in Nat
           /\ committed[s] \in Nat /\ stored[s] \in Nat
           /\ committed[s] <= Len(log[s]) /\ stored[s] <= Len(log[s])
<1>1. /\ log[s] \in Seq(Numbers) /\ committed[s] \in Nat /\ stored[s] \in Nat
      /\ committed[s] <= Len(log[s]) /\ stored[s] <= Len(log[s])
  BY DEF BaseInv, TypeOK, OffsetInv
<1>2. \A k \in 1..Len(log[s]) : log[s][k] \in Numbers
  BY <1>1
<1>3. \A n \in Numbers : n \in Nat
  BY SessionOfAssumption DEF Numbers
<1> QED
  BY <1>1, <1>2, <1>3

(* The ring is a finite set. *)
LEMMA RingTyped ==
    ASSUME BaseInv
    PROVE  /\ ring \in SUBSET Numbers /\ (\A n \in ring : n \in Nat) /\ IsFiniteSet(ring)
           /\ Cardinality(ring) \in Nat /\ Cardinality(ring) <= Capacity
<1>1. ring \in SUBSET Numbers /\ Cardinality(ring) <= Capacity
  BY DEF BaseInv, TypeOK
<1> QED
  BY <1>1, NumbersFinite, FS_CardinalityType

(* The history holds numbers of the logs. *)
LEMMA HistoryTyped ==
    ASSUME BaseInv
    PROVE  History \in SUBSET Numbers
  BY LogTyped DEF History

(* The oldest event of the ring. *)
LEMMA OldestTyped == ASSUME BaseInv PROVE Oldest(ring) \in Numbers \cup {0}
<1>1. ring # {} => \E n \in ring : \A m \in ring : n <= m
  BY RingTyped, LeastMember
<1> QED
  BY <1>1, RingTyped DEF Oldest

(* A step of the Handler of one viewer. *)
LEMMA ViewStep ==
    ASSUME BaseInv, NEW v \in Viewers, NEW g \in ViewRecord, Ahead(client[v], g),
           SetView(v, g), faults' \in 0..MaxFaults
    PROVE  BaseInv'
<1>1. view' = [view EXCEPT ![v] = g] /\ UNCHANGED <<log, committed, handled, stored, ring, client, drops, expiries>>
  BY DEF SetView
<1>2. view \in [Viewers -> ViewRecord]
  BY DEF BaseInv, TypeOK, ViewRecord
<1>3. view' \in [Viewers -> ViewRecord]
  BY <1>1, <1>2
<1>4. TypeOK'
  BY <1>1, <1>3 DEF BaseInv, TypeOK, ViewRecord
<1>5. OffsetInv'
  BY <1>1 DEF BaseInv, OffsetInv
<1>6. ASSUME NEW u \in Viewers PROVE Ahead(client'[u], view'[u])
  <2>1. view'[u] = IF u = v THEN g ELSE view[u]
    BY <1>1, <1>2
  <2> QED
    BY <2>1, <1>1 DEF BaseInv
<1> QED
  BY <1>4, <1>5, <1>6 DEF BaseInv

LEMMA FaultsTyped == ASSUME BaseInv PROVE faults \in 0..MaxFaults /\ (faults < MaxFaults => faults + 1 \in 0..MaxFaults)
<1>1. faults \in 0..MaxFaults /\ MaxFaults \in Nat
  BY BoundsAssumption DEF BaseInv, TypeOK
<1> QED
  BY <1>1

(* A client that connects resumes after what it has shown. *)
LEMMA ResumesAhead ==
    ASSUME BaseInv, NEW v \in Viewers
    PROVE  /\ LastSeen(v) \in Numbers \cup {0}
           /\ LastSeen(v) = 0 \/ LastSeen(v) \in Shown(v)
           /\ \A n \in Shown(v) : n <= LastSeen(v)
<1> PICK c : c = client[v]
  OBVIOUS
<1>1. c \in Seq(Numbers) /\ InOrder(c)
  BY ViewTyped DEF Ahead
<1>2. CASE c = << >>
  <2>1. Shown(v) = {} /\ LastSeen(v) = 0
    BY <1>2 DEF Shown, Range, LastSeen
  <2> QED
    BY <2>1
<1>3. CASE c # << >>
  <2>1. Len(c) \in Nat \ {0} /\ DOMAIN c = 1..Len(c)
    BY <1>1, <1>3, EmptySeq
  <2>2. LastSeen(v) = c[Len(c)] /\ Shown(v) = Range(c)
    BY <1>3 DEF LastSeen, Last, Shown
  <2>3. Len(c) \in 1..Len(c) /\ c[Len(c)] \in Numbers /\ c[Len(c)] \in Range(c)
    BY <2>1, <1>1 DEF Range
  <2>4. ASSUME NEW k \in 1..Len(c) PROVE c[k] <= c[Len(c)]
    <3>1. k < Len(c) => c[k] < c[Len(c)]
      BY <2>1, <2>3, <1>1 DEF InOrder
    <3>2. k < Len(c) \/ k = Len(c)
      BY <2>1
    <3>3. c[k] \in Nat /\ c[Len(c)] \in Nat
      BY <1>1, <2>3, SessionOfAssumption DEF Numbers
    <3> QED
      BY <3>1, <3>2, <3>3
  <2>5. \A n \in Range(c) : n <= c[Len(c)]
    BY <2>1, <2>4 DEF Range
  <2> QED
    BY <2>2, <2>3, <2>5
<1> QED
  BY <1>2, <1>3

(* What Connect starts the Handler with. *)
Fresh(l) == [Off EXCEPT !.pc = "oldest", !.lastSent = l]

LEMMA FreshView ==
    ASSUME NEW l \in Numbers \cup {0}
    PROVE  /\ Fresh(l) \in ViewRecord /\ Fresh(l).pc = "oldest" /\ Fresh(l).lastSent = l
           /\ Fresh(l).wire = << >> /\ Fresh(l).ch = << >> /\ Fresh(l).recent = {}
<1> PICK o : o = Off
  OBVIOUS
<1>1. o \in ViewRecord /\ o.ch = << >> /\ o.recent = {} /\ o.wire = << >>
  BY DEF Off, ViewRecord
<1>2. Fresh(l) = [o EXCEPT !.pc = "oldest", !.lastSent = l]
  BY DEF Fresh
<1> QED
  BY <1>1, <1>2 DEF ViewRecord

LEMMA EmptyRange == Range(<< >>) = {} /\ InOrder(<< >>) /\ << >> \in Seq(Numbers)
  BY DEF Range, InOrder

LEMMA ConnectBase == ASSUME BaseInv, NEW v \in Viewers, Connect(v) PROVE BaseInv'
<1> DEFINE l == LastSeen(v)
<1>1. /\ l \in Numbers \cup {0}
      /\ l = 0 \/ l \in Range(client[v])
      /\ \A n \in Range(client[v]) : n <= l
  BY ResumesAhead DEF Shown
<1> HIDE DEF l
<1>2. Ahead(client[v], Fresh(l))
  <2>1. InOrder(client[v])
    BY ViewTyped DEF Ahead
  <2> QED
    BY <2>1, <1>1, FreshView, EmptyRange DEF Ahead
<1>3. SetView(v, Fresh(l)) /\ faults' = faults
  BY DEF Connect, Fresh, l
<1> QED
  BY <1>1, <1>2, <1>3, FreshView, FaultsTyped, ViewStep

LEMMA ReadOldestBase == ASSUME BaseInv, NEW v \in Viewers, ReadOldest(v) PROVE BaseInv'
<1> PICK g : g = [view[v] EXCEPT !.pc = "recent", !.oldest = Oldest(ring)]
  OBVIOUS
<1>1. SetView(v, g) /\ faults' = faults /\ view[v].pc = "oldest"
  BY DEF ReadOldest
<1>2. /\ g \in ViewRecord /\ g.wire = view[v].wire /\ g.lastSent = view[v].lastSent
      /\ g.pc = "recent"
  BY ViewTyped, OldestTyped DEF ViewRecord
<1>3. Ahead(client[v], g)
  <2>1. Ahead(client[v], view[v]) /\ view[v].pc # "off" /\ g.pc # "off"
    BY <1>1, <1>2, ViewTyped
  <2> QED
    BY <1>2, <2>1 DEF Ahead
<1> QED
  BY <1>1, <1>2, <1>3, FaultsTyped, ViewStep

LEMMA DisconnectBase == ASSUME BaseInv, NEW v \in Viewers, Disconnect(v) PROVE BaseInv'
<1>1. SetView(v, Off) /\ faults < MaxFaults /\ faults' = faults + 1
  BY DEF Disconnect
<1>2. Off \in ViewRecord /\ Off.pc = "off" /\ Off.wire = << >>
  BY DEF Off, ViewRecord
<1>3. Ahead(client[v], Off)
  BY <1>2, ViewTyped, EmptyRange DEF Ahead
<1> QED
  BY <1>1, <1>2, <1>3, FaultsTyped, ViewStep

(* What the Handler has after the ring was read: a request for the history *)
(* or everything the ring held above its place.                            *)
LEMMA ReadRecentEffect ==
    ASSUME BaseInv, NEW v \in Viewers, ReadRecent(v)
    PROVE  \E g \in ViewRecord :
              /\ Ahead(client[v], g) /\ SetView(v, g) /\ faults' = faults
              /\ view[v].pc # "off" /\ g.pc # "off" /\ g.ch = view[v].ch
              /\ \/ /\ g.pc = "history" /\ g.recent = After(ring, view[v].lastSent)
                    /\ g.lastSent = view[v].lastSent /\ g.wire = view[v].wire
                 \/ /\ g.pc = "live" /\ g.recent = {}
                    /\ Range(g.wire) = Range(view[v].wire) \cup After(ring, view[v].lastSent)
<1> PICK w : w = view[v]
  OBVIOUS
<1>1. w \in ViewRecord /\ client[v] \in Seq(Numbers) /\ Ahead(client[v], w) /\ w.pc = "recent" /\ faults' = faults
  BY ViewTyped DEF ReadRecent
<1>2. After(ring, w.lastSent) \in SUBSET Numbers
  BY RingTyped DEF After
<1> PICK h : h = [w EXCEPT !.recent = After(ring, w.lastSent)]
  OBVIOUS
<1>3. /\ h \in ViewRecord /\ h.pc = "recent" /\ h.ch = w.ch /\ h.wire = w.wire /\ h.lastSent = w.lastSent
      /\ h.recent = After(ring, w.lastSent)
  BY <1>1, <1>2 DEF ViewRecord
<1>4. Ahead(client[v], h) /\ h.pc # "off" /\ h.recent \in SUBSET Numbers
  BY <1>1, <1>2, <1>3 DEF Ahead
<1>5. \/ SetView(v, [h EXCEPT !.pc = "history"])
      \/ SetView(v, [Send(h, h.recent) EXCEPT !.pc = "live", !.oldest = 0, !.recent = {}])
  BY DEF ReadRecent
<1>6. CASE SetView(v, [h EXCEPT !.pc = "history"])
  <2> PICK g : g = [h EXCEPT !.pc = "history"]
    OBVIOUS
  <2>1. /\ g \in ViewRecord /\ g.pc = "history" /\ g.ch = h.ch /\ g.wire = h.wire
        /\ g.lastSent = h.lastSent /\ g.recent = h.recent
    BY <1>3 DEF ViewRecord
  <2>2. Ahead(client[v], g)
    BY <2>1, <1>3, <1>4 DEF Ahead
  <2> QED
    BY <2>1, <2>2, <1>1, <1>3, <1>6
<1>7. CASE SetView(v, [Send(h, h.recent) EXCEPT !.pc = "live", !.oldest = 0, !.recent = {}])
  <2> PICK f : f = Send(h, h.recent)
    OBVIOUS
  <2>a. Extends(client[v], h, f, h.recent)
    BY <1>1, <1>3, <1>4, SendExtends
  <2>1. /\ f \in ViewRecord /\ Ahead(client[v], f) /\ f.pc = "recent" /\ f.ch = h.ch
        /\ Range(f.wire) = Range(h.wire) \cup After(h.recent, h.lastSent)
    BY <2>a, <1>3 DEF Extends
  <2> PICK g : g = [f EXCEPT !.pc = "live", !.oldest = 0, !.recent = {}]
    OBVIOUS
  <2>2. /\ g \in ViewRecord /\ g.pc = "live" /\ g.ch = f.ch /\ g.wire = f.wire
        /\ g.lastSent = f.lastSent /\ g.recent = {}
    BY <2>1 DEF ViewRecord
  <2>3. Ahead(client[v], g)
    BY <2>1, <2>2 DEF Ahead
  <2>4. After(h.recent, h.lastSent) = After(ring, w.lastSent)
    BY <1>3 DEF After
  <2>5. Range(g.wire) = Range(w.wire) \cup After(ring, w.lastSent)
    BY <2>1, <2>2, <2>4, <1>3
  <2>6. SetView(v, g) /\ g.ch = w.ch /\ g.pc # "off" /\ w.pc # "off"
    BY <2>1, <2>2, <1>1, <1>3, <1>7
  <2> g \in ViewRecord
    BY <2>2
  <2> WITNESS g \in ViewRecord
  <2> QED
    BY <2>2, <2>3, <2>5, <2>6, <1>1
<1> QED
  BY <1>5, <1>6, <1>7

LEMMA ReadRecentBase == ASSUME BaseInv, NEW v \in Viewers, ReadRecent(v) PROVE BaseInv'
  BY ReadRecentEffect, FaultsTyped, ViewStep

(* What the Handler has caught up with: the past above its place, and what *)
(* was read of the ring above the past.                                    *)
LEMMA CatchUpEffect ==
    ASSUME BaseInv, NEW v \in Viewers, NEW past \in SUBSET Numbers,
           view[v].pc = "history", SendCatchUp(v, past)
    PROVE  \E g \in ViewRecord, l \in Numbers \cup {0} :
              /\ Ahead(client[v], g) /\ SetView(v, g)
              /\ g.pc = "live" /\ g.ch = view[v].ch /\ g.recent = {}
              /\ l = view[v].lastSent \/ l \in After(past, view[v].lastSent)
              /\ l >= view[v].lastSent
              /\ Range(g.wire) = Range(view[v].wire) \cup After(past, view[v].lastSent)
                                    \cup After(view[v].recent, l)
<1> PICK h : h = view[v]
  OBVIOUS
<1>1. /\ h \in ViewRecord /\ client[v] \in Seq(Numbers) /\ Ahead(client[v], h) /\ h.pc = "history"
      /\ h.recent \in SUBSET Numbers /\ h.pc # "off"
  BY ViewTyped DEF ViewRecord
<1> PICK e : e = Send(h, past)
  OBVIOUS
<1>a. Extends(client[v], h, e, past)
  BY <1>1, SendExtends
<1>2. /\ e \in ViewRecord /\ Ahead(client[v], e) /\ e.pc = h.pc /\ e.ch = h.ch
      /\ Range(e.wire) = Range(h.wire) \cup After(past, h.lastSent)
      /\ e.lastSent = h.lastSent \/ e.lastSent \in After(past, h.lastSent)
      /\ e.lastSent >= h.lastSent
  BY <1>a DEF Extends
<1>3. e.lastSent \in Numbers \cup {0} /\ e.pc # "off"
  BY <1>1, <1>2 DEF ViewRecord
<1> PICK f : f = Send(e, h.recent)
  OBVIOUS
<1>b. Extends(client[v], e, f, h.recent)
  BY <1>1, <1>2, <1>3, SendExtends
<1>4. /\ f \in ViewRecord /\ Ahead(client[v], f) /\ f.pc = h.pc /\ f.ch = h.ch
      /\ Range(f.wire) = Range(e.wire) \cup After(h.recent, e.lastSent)
  BY <1>b, <1>2 DEF Extends
<1> PICK g : g = [f EXCEPT !.pc = "live", !.oldest = 0, !.recent = {}]
  OBVIOUS
<1>5. /\ g \in ViewRecord /\ g.pc = "live" /\ g.ch = f.ch /\ g.wire = f.wire
      /\ g.lastSent = f.lastSent /\ g.recent = {}
  BY <1>4 DEF ViewRecord
<1>6. Ahead(client[v], g)
  BY <1>1, <1>4, <1>5 DEF Ahead
<1>7. SetView(v, g)
  BY DEF SendCatchUp
<1>8. Range(g.wire) = Range(h.wire) \cup After(past, h.lastSent) \cup After(h.recent, e.lastSent)
  BY <1>2, <1>4, <1>5
<1> g \in ViewRecord /\ e.lastSent \in Numbers \cup {0}
  BY <1>3, <1>5
<1> WITNESS g \in ViewRecord, e.lastSent \in Numbers \cup {0}
<1> QED
  BY <1>2, <1>4, <1>5, <1>6, <1>7, <1>8

Past(v) == {n \in After(History, view[v].lastSent) : view[v].oldest = 0 \/ n < view[v].oldest}

LEMMA PastTyped == ASSUME BaseInv, NEW v \in Viewers PROVE Past(v) \in SUBSET Numbers
  BY HistoryTyped DEF Past, After

LEMMA ReadHistoryBase == ASSUME BaseInv, NEW v \in Viewers, ReadHistory(v) PROVE BaseInv'
<1>1. view[v].pc = "history" /\ SendCatchUp(v, Past(v)) /\ faults' = faults
  BY DEF ReadHistory, Past
<1> QED
  BY <1>1, PastTyped, CatchUpEffect, FaultsTyped, ViewStep

LEMMA HistoryFailsBase == ASSUME BaseInv, NEW v \in Viewers, HistoryFails(v) PROVE BaseInv'
<1>1. /\ view[v].pc = "history" /\ SendCatchUp(v, {})
      /\ faults < MaxFaults /\ faults' = faults + 1
  BY DEF HistoryFails
<1> QED
  BY <1>1, CatchUpEffect, FaultsTyped, ViewStep

(* What the loop of Live sends: the repair, then the event. *)
LEMMA ForwardEffect ==
    ASSUME BaseInv, NEW v \in Viewers, Forward(v)
    PROVE  \E g \in ViewRecord, l \in Numbers \cup {0} :
              /\ Ahead(client[v], g) /\ SetView(v, g) /\ faults' = faults
              /\ view[v].pc = "live" /\ view[v].ch # << >> /\ Repair(view[v]) \in SUBSET ring
              /\ g.pc = "live" /\ g.ch = Tail(view[v].ch) /\ g.recent = view[v].recent
              /\ l = view[v].lastSent \/ l \in After(Repair(view[v]), view[v].lastSent)
              /\ l >= view[v].lastSent
              /\ Range(g.wire) = Range(view[v].wire) \cup After(Repair(view[v]), view[v].lastSent)
                                    \cup After({view[v].ch[1]}, l)
<1> PICK h : h = view[v]
  OBVIOUS
<1>1. /\ h \in ViewRecord /\ client[v] \in Seq(Numbers) /\ Ahead(client[v], h) /\ h.pc = "live"
      /\ h.ch # << >> /\ h.ch \in Seq(Numbers) /\ faults' = faults /\ h.pc # "off"
  BY ViewTyped DEF ViewRecord, Forward
<1>2. Repair(h) \in SUBSET ring /\ Repair(h) \in SUBSET Numbers
  BY RingTyped DEF Repair, After
<1>3. h.ch[1] \in Numbers /\ Tail(h.ch) \in Seq(Numbers)
  BY <1>1, EmptySeq
<1> PICK e : e = Send(h, Repair(h))
  OBVIOUS
<1>a. Extends(client[v], h, e, Repair(h))
  BY <1>1, <1>2, SendExtends
<1>4. /\ e \in ViewRecord /\ Ahead(client[v], e) /\ e.pc = h.pc /\ e.ch = h.ch /\ e.recent = h.recent
      /\ Range(e.wire) = Range(h.wire) \cup After(Repair(h), h.lastSent)
      /\ e.lastSent = h.lastSent \/ e.lastSent \in After(Repair(h), h.lastSent)
      /\ e.lastSent >= h.lastSent
  BY <1>a DEF Extends
<1> PICK f : f = [e EXCEPT !.ch = Tail(@)]
  OBVIOUS
<1>5. /\ f \in ViewRecord /\ f.pc = h.pc /\ f.ch = Tail(h.ch) /\ f.wire = e.wire
      /\ f.lastSent = e.lastSent /\ f.recent = h.recent /\ f.lastSent \in Numbers \cup {0}
  BY <1>3, <1>4 DEF ViewRecord
<1>6. Ahead(client[v], f) /\ f.pc # "off"
  BY <1>1, <1>4, <1>5 DEF Ahead
<1> PICK g : g = Send(f, {h.ch[1]})
  OBVIOUS
<1>7. /\ g \in ViewRecord /\ Ahead(client[v], g) /\ g.pc = h.pc /\ g.ch = Tail(h.ch) /\ g.recent = h.recent
      /\ Range(g.wire) = Range(f.wire) \cup After({h.ch[1]}, f.lastSent)
  <2>1. {h.ch[1]} \in SUBSET Numbers
    BY <1>3
  <2>2. Extends(client[v], f, g, {h.ch[1]})
    BY <2>1, <1>1, <1>5, <1>6, SendExtends
  <2> QED
    BY <2>2, <1>5 DEF Extends
<1>8. SetView(v, g)
  BY DEF Forward
<1>9. Range(g.wire) = Range(h.wire) \cup After(Repair(h), h.lastSent) \cup After({h.ch[1]}, f.lastSent)
  BY <1>4, <1>5, <1>7
<1> g \in ViewRecord /\ f.lastSent \in Numbers \cup {0}
  BY <1>5, <1>7
<1> WITNESS g \in ViewRecord, f.lastSent \in Numbers \cup {0}
<1> QED
  BY <1>1, <1>2, <1>4, <1>5, <1>7, <1>8, <1>9

LEMMA ForwardBase == ASSUME BaseInv, NEW v \in Viewers, Forward(v) PROVE BaseInv'
  BY ForwardEffect, FaultsTyped, ViewStep

(* The client appends the head of the wire, which is above what it shows. *)
LEMMA ReceiveEffect ==
    ASSUME BaseInv, NEW v \in Viewers, Receive(v)
    PROVE  \E g \in ViewRecord, d \in Seq(Numbers) :
              /\ view' = [view EXCEPT ![v] = g] /\ client' = [client EXCEPT ![v] = d]
              /\ Ahead(d, g)
              /\ view[v].pc # "off" /\ g.pc = view[v].pc /\ g.ch = view[v].ch /\ g.recent = view[v].recent
              /\ g.lastSent = view[v].lastSent
              /\ Range(d) \cup Range(g.wire) = Range(client[v]) \cup Range(view[v].wire)
<1> PICK h, c, w : h = view[v] /\ c = client[v] /\ w = view[v].wire
  OBVIOUS
<1>1. h \in ViewRecord /\ c \in Seq(Numbers) /\ Ahead(c, h) /\ w \in Seq(Numbers) /\ w # << >> /\ h.wire = w
  BY ViewTyped DEF ViewRecord, Receive
<1>2. h.pc # "off"
  BY <1>1 DEF Ahead
<1>3. /\ Len(w) \in Nat \ {0} /\ Head(w) = w[1] /\ Head(w) \in Numbers /\ Tail(w) \in Seq(Numbers)
      /\ Len(Tail(w)) = Len(w) - 1 /\ DOMAIN Tail(w) = 1..(Len(w) - 1) /\ DOMAIN w = 1..Len(w)
      /\ \A i \in 1..(Len(w) - 1) : Tail(w)[i] = w[i + 1]
  BY <1>1, EmptySeq, HeadTailProperties
<1>4. 1 \in DOMAIN w /\ Head(w) \in Range(w)
  BY <1>3 DEF Range
<1>5. \A m \in Range(c) : m < Head(w)
  BY <1>1, <1>4 DEF Ahead
<1>6. ~(Head(w) <= LastSeen(v))
  <2>1. LastSeen(v) = 0 \/ LastSeen(v) \in Range(c)
    BY ResumesAhead DEF Shown
  <2>2. Head(w) \in Nat \ {0} /\ \A m \in Range(c) : m \in Nat
    <3>1. \A m \in Range(c) : m \in Numbers
      BY <1>1 DEF Range
    <3> QED
      BY <3>1, <1>3, SessionOfAssumption DEF Numbers
  <2> QED
    BY <2>1, <2>2, <1>5
<1> PICK d : d = Append(c, Head(w))
  OBVIOUS
<1> PICK g : g = [h EXCEPT !.wire = Tail(w)]
  OBVIOUS
<1>7. /\ g \in ViewRecord /\ g.pc = h.pc /\ g.ch = h.ch /\ g.recent = h.recent
      /\ g.lastSent = h.lastSent /\ g.wire = Tail(w)
  BY <1>1, <1>3 DEF ViewRecord
<1>8. /\ d \in Seq(Numbers) /\ Len(d) = Len(c) + 1 /\ d[Len(c) + 1] = Head(w)
      /\ \A i \in 1..Len(c) : d[i] = c[i]
      /\ DOMAIN d = 1..(Len(c) + 1) /\ DOMAIN c = 1..Len(c) /\ Len(c) \in Nat
  BY <1>1, <1>3, AppendProperties
<1>9. view' = [view EXCEPT ![v] = g] /\ client' = [client EXCEPT ![v] = d]
  <2>1. view' = [view EXCEPT ![v].wire = Tail(@)]
    BY DEF Receive
  <2>2. client' = [client EXCEPT ![v] = Append(@, Head(view[v].wire))]
    BY <1>6 DEF Receive
  <2> QED
    BY <2>1, <2>2
<1>10. Range(d) = Range(c) \cup {Head(w)}
  <2>1. Range(d) \subseteq Range(c) \cup {Head(w)}
    <3>1. ASSUME NEW i \in 1..(Len(c) + 1) PROVE d[i] \in Range(c) \cup {Head(w)}
      <4>1. i \in 1..Len(c) \/ i = Len(c) + 1
        BY <1>8
      <4> QED
        BY <4>1, <1>8 DEF Range
    <3> QED
      BY <3>1, <1>8 DEF Range
  <2>2. Range(c) \subseteq Range(d)
    <3>1. \A i \in 1..Len(c) : i \in DOMAIN d /\ c[i] = d[i]
      BY <1>8
    <3> QED
      BY <3>1, <1>8 DEF Range
  <2>3. Head(w) \in Range(d)
    <3>1. Len(c) + 1 \in DOMAIN d
      BY <1>8
    <3> QED
      BY <3>1, <1>8 DEF Range
  <2> QED
    BY <2>1, <2>2, <2>3
<1>11. Range(w) = {Head(w)} \cup Range(Tail(w))
  <2>1. \A i \in DOMAIN w : i = 1 \/ (i - 1 \in DOMAIN Tail(w) /\ Tail(w)[i - 1] = w[i])
    BY <1>3
  <2>2. \A i \in DOMAIN Tail(w) : i + 1 \in DOMAIN w /\ Tail(w)[i] = w[i + 1]
    BY <1>3
  <2>3. Range(Tail(w)) \subseteq Range(w)
    BY <2>2 DEF Range
  <2>4. Range(w) \subseteq {Head(w)} \cup Range(Tail(w))
    BY <2>1, <1>3 DEF Range
  <2> QED
    BY <2>3, <2>4, <1>4
<1>12. InOrder(d)
  <2>1. ASSUME NEW j \in 1..(Len(c) + 1), NEW k \in 1..(Len(c) + 1), j < k PROVE d[j] < d[k]
    <3>1. j \in 1..Len(c)
      BY <2>1, <1>8
    <3>2. d[j] = c[j] /\ c[j] \in Range(c)
      BY <3>1, <1>8 DEF Range
    <3>3. CASE k \in 1..Len(c)
      <4>1. c[j] < c[k]
        BY <3>1, <3>3, <2>1, <1>1, <1>8 DEF Ahead, InOrder
      <4> QED
        BY <4>1, <3>2, <3>3, <1>8
    <3>4. CASE k = Len(c) + 1
      BY <3>2, <3>4, <1>5, <1>8
    <3> QED
      BY <3>3, <3>4, <1>8
  <2> QED
    BY <2>1, <1>8 DEF InOrder
<1>13. InOrder(Tail(w)) /\ \A n \in Range(Tail(w)) : Head(w) < n
  <2>1. \A j, k \in DOMAIN w : j < k => w[j] < w[k]
    BY <1>1 DEF Ahead, InOrder
  <2>2. \A i \in DOMAIN Tail(w) : i \in Int /\ i + 1 \in DOMAIN w /\ 1 < i + 1 /\ Tail(w)[i] = w[i + 1]
    BY <1>3
  <2>3. ASSUME NEW j \in DOMAIN Tail(w), NEW k \in DOMAIN Tail(w), j < k PROVE Tail(w)[j] < Tail(w)[k]
    <3>1. j + 1 < k + 1
      BY <2>2, <2>3
    <3>2. w[j + 1] < w[k + 1]
      BY <2>1, <2>2, <3>1
    <3> QED
      BY <3>2, <2>2
  <2>4. ASSUME NEW i \in DOMAIN Tail(w) PROVE Head(w) < Tail(w)[i]
    <3>1. w[1] < w[i + 1]
      BY <2>1, <2>2, <1>4
    <3> QED
      BY <3>1, <2>2, <1>3
  <2> QED
    BY <2>3, <2>4 DEF InOrder, Range
<1>14. Ahead(d, g)
  <2>1. \A m \in Range(d) : \A n \in Range(g.wire) : m < n
    <3>1. \A m \in Range(c) : \A n \in Range(w) : m < n
      BY <1>1 DEF Ahead
    <3> QED
      BY <3>1, <1>7, <1>10, <1>11, <1>13
  <2>2. Range(d) \cup Range(g.wire) = Range(c) \cup Range(w)
    BY <1>7, <1>10, <1>11
  <2>3. /\ \A n \in Range(c) \cup Range(w) : n <= h.lastSent
        /\ h.lastSent = 0 \/ h.lastSent \in Range(c) \cup Range(w)
    BY <1>1, <1>2 DEF Ahead
  <2> QED
    BY <2>1, <2>2, <2>3, <1>2, <1>7, <1>12, <1>13 DEF Ahead
<1> g \in ViewRecord /\ d \in Seq(Numbers)
  BY <1>7, <1>8
<1> WITNESS g \in ViewRecord, d \in Seq(Numbers)
<1> QED
  BY <1>2, <1>7, <1>9, <1>10, <1>11, <1>14

LEMMA ReceiveBase == ASSUME BaseInv, NEW v \in Viewers, Receive(v) PROVE BaseInv'
<1>1. PICK g \in ViewRecord, d \in Seq(Numbers) :
         view' = [view EXCEPT ![v] = g] /\ client' = [client EXCEPT ![v] = d] /\ Ahead(d, g)
  BY ReceiveEffect
<1>2. UNCHANGED <<log, committed, handled, stored, ring, faults, drops, expiries>>
  BY DEF Receive
<1>3. view \in [Viewers -> ViewRecord] /\ client \in [Viewers -> Seq(Numbers)]
  BY DEF BaseInv, TypeOK, ViewRecord
<1>4. view' \in [Viewers -> ViewRecord] /\ client' \in [Viewers -> Seq(Numbers)]
  BY <1>1, <1>3
<1>5. TypeOK' /\ OffsetInv'
  BY <1>2, <1>4 DEF BaseInv, TypeOK, ViewRecord, OffsetInv
<1>6. ASSUME NEW u \in Viewers PROVE Ahead(client'[u], view'[u])
  <2>1. view'[u] = (IF u = v THEN g ELSE view[u]) /\ client'[u] = (IF u = v THEN d ELSE client[u])
    BY <1>1, <1>3
  <2> QED
    BY <2>1, <1>1 DEF BaseInv
<1> QED
  BY <1>5, <1>6 DEF BaseInv

(* What a publication does: nothing, or one event more in the ring and in  *)
(* some subscriptions.                                                     *)
LEMMA PublishEffect ==
    ASSUME BaseInv, NEW n \in Numbers, Publish(n)
    PROVE  /\ view' \in [Viewers -> ViewRecord] /\ drops' \in Nat
           /\ \/ n \in ring /\ ring' = ring
              \/ n \notin ring /\ ring' = Trim(ring \cup {n})
           /\ \A v \in Viewers :
                 /\ view'[v].pc = view[v].pc /\ view'[v].lastSent = view[v].lastSent
                 /\ view'[v].wire = view[v].wire /\ view'[v].recent = view[v].recent
                 /\ Range(view'[v].ch) \subseteq Range(view[v].ch) \cup {n}
<1>1. view \in [Viewers -> ViewRecord] /\ drops \in Nat
  BY DEF BaseInv, TypeOK, ViewRecord
<1>2. CASE n \in ring /\ UNCHANGED <<ring, view, drops>>
  BY <1>1, <1>2
<1>3. CASE n \notin ring
  <2>0. PICK lost \in SUBSET {v \in Viewers : Subscribed(v)} :
           LET subscribers == {v \in Viewers : Subscribed(v)}
               receivers == {v \in subscribers \ lost : HasRoom(v)}
           IN  /\ drops' = IF receivers = subscribers THEN drops ELSE drops + 1
               /\ ring' = Trim(ring \cup {n})
               /\ view' = [v \in Viewers |->
                             IF v \in receivers
                             THEN [view[v] EXCEPT !.ch = Append(@, n)] ELSE view[v]]
    BY <1>3 DEF Publish
  <2> DEFINE T == {v \in {u \in Viewers : Subscribed(u)} \ lost : HasRoom(v)}
  <2>1. /\ drops' \in {drops, drops + 1}
        /\ ring' = Trim(ring \cup {n})
        /\ view' = [v \in Viewers |-> IF v \in T THEN [view[v] EXCEPT !.ch = Append(@, n)] ELSE view[v]]
    BY <2>0
  <2> HIDE DEF T
  <2>2. ASSUME NEW v \in Viewers
        PROVE  /\ view'[v] \in ViewRecord
               /\ view'[v].pc = view[v].pc /\ view'[v].lastSent = view[v].lastSent
               /\ view'[v].wire = view[v].wire /\ view'[v].recent = view[v].recent
               /\ Range(view'[v].ch) \subseteq Range(view[v].ch) \cup {n}
    <3> PICK h, g : h = view[v] /\ g = view'[v]
      OBVIOUS
    <3>1. h \in ViewRecord /\ h.ch \in Seq(Numbers)
      BY <1>1 DEF ViewRecord
    <3>2. CASE v \notin T
      BY <3>1, <3>2, <2>1
    <3>3. CASE v \in T
      <4>0. Append(h.ch, n) \in Seq(Numbers)
        BY <3>1, AppendProperties
      <4>1. g = [h EXCEPT !.ch = Append(h.ch, n)]
        BY <3>3, <2>1
      <4>2. /\ g \in ViewRecord /\ g.pc = h.pc /\ g.lastSent = h.lastSent /\ g.wire = h.wire
            /\ g.recent = h.recent /\ g.ch = Append(h.ch, n)
        BY <4>0, <4>1, <3>1 DEF ViewRecord
      <4>3. /\ DOMAIN g.ch = 1..(Len(h.ch) + 1) /\ DOMAIN h.ch = 1..Len(h.ch) /\ Len(h.ch) \in Nat
            /\ g.ch[Len(h.ch) + 1] = n /\ \A i \in 1..Len(h.ch) : g.ch[i] = h.ch[i]
        BY <4>2, <3>1, AppendProperties
      <4>4. ASSUME NEW i \in DOMAIN g.ch PROVE g.ch[i] \in Range(h.ch) \cup {n}
        <5>1. i \in 1..Len(h.ch) \/ i = Len(h.ch) + 1
          BY <4>3
        <5> QED
          BY <5>1, <4>3 DEF Range
      <4>5. Range(g.ch) \subseteq Range(h.ch) \cup {n}
        BY <4>4 DEF Range
      <4> QED
        BY <4>2, <4>5
    <3> QED
      BY <3>2, <3>3
  <2>3. view' \in [Viewers -> ViewRecord]
    <3>1. view' = [v \in Viewers |-> view'[v]]
      BY <2>1
    <3> QED
      BY <3>1, <2>2
  <2>4. drops' \in Nat
    BY <2>1, <1>1
  <2> QED
    BY <2>1, <2>2, <2>3, <2>4, <1>3
<1> QED
  BY <1>2, <1>3 DEF Publish

LEMMA IngestBase == ASSUME BaseInv, NEW s \in Sessions, Ingest(s) PROVE BaseInv'
<1> PICK n : n = log[s][committed[s] + 1]
  OBVIOUS
<1>1. /\ s \notin handled /\ committed[s] < Len(log[s]) /\ Publish(n) /\ handled' = handled \cup {s}
      /\ UNCHANGED <<log, committed, stored, client, faults, expiries>>
  BY DEF Ingest
<1>2. n \in Numbers
  <2>1. committed[s] + 1 \in 1..Len(log[s])
    BY <1>1, LogTyped
  <2> QED
    BY <2>1, LogTyped
<1>3. /\ view' \in [Viewers -> ViewRecord] /\ drops' \in Nat
      /\ \/ n \in ring /\ ring' = ring
         \/ n \notin ring /\ ring' = Trim(ring \cup {n})
      /\ \A v \in Viewers : /\ view'[v].pc = view[v].pc /\ view'[v].lastSent = view[v].lastSent
                            /\ view'[v].wire = view[v].wire
  BY <1>1, <1>2, PublishEffect
<1>4. ring' \subseteq Numbers /\ Cardinality(ring') <= Capacity
  <2>1. CASE ring' = ring
    BY <2>1, RingTyped
  <2>2. CASE n \notin ring /\ ring' = Trim(ring \cup {n})
    <3>1. n \in Nat
      BY <1>2, SessionOfAssumption DEF Numbers
    <3>2. Trim(ring \cup {n}) \subseteq ring \cup {n} /\ Cardinality(Trim(ring \cup {n})) <= Capacity
      BY <3>1, <2>2, RingTyped, TrimAdd
    <3> QED
      BY <3>2, <2>2, <1>2, RingTyped
  <2> QED
    BY <2>1, <2>2, <1>3
<1>5. TypeOK'
  BY <1>1, <1>3, <1>4 DEF BaseInv, TypeOK, ViewRecord
<1>6. OffsetInv'
  BY <1>1 DEF BaseInv, OffsetInv
<1>7. ASSUME NEW v \in Viewers PROVE Ahead(client'[v], view'[v])
  BY <1>1, <1>3, ViewTyped DEF Ahead
<1> QED
  BY <1>5, <1>6, <1>7 DEF BaseInv

(* A log to which an event is appended. *)
LEMMA LogGrows ==
    ASSUME BaseInv, NEW n \in Numbers, Produce(n)
    PROVE  /\ log' \in [Sessions -> Seq(Numbers)]
           /\ \A s \in Sessions :
                 /\ Len(log'[s]) \in Nat /\ Len(log[s]) <= Len(log'[s])
                 /\ DOMAIN log'[s] = 1..Len(log'[s])
                 /\ \A k \in 1..Len(log[s]) : k \in 1..Len(log'[s]) /\ log'[s][k] = log[s][k]
<1>1. log \in [Sessions -> Seq(Numbers)] /\ SessionOf[n] \in Sessions
  BY SessionOfAssumption DEF BaseInv, TypeOK
<1>2. log' = [log EXCEPT ![SessionOf[n]] = Append(@, n)]
  BY DEF Produce, AppendEvent
<1>3. ASSUME NEW s \in Sessions
      PROVE  /\ log'[s] \in Seq(Numbers) /\ Len(log'[s]) \in Nat /\ Len(log[s]) <= Len(log'[s])
             /\ DOMAIN log'[s] = 1..Len(log'[s])
             /\ \A k \in 1..Len(log[s]) : k \in 1..Len(log'[s]) /\ log'[s][k] = log[s][k]
  <2>1. log[s] \in Seq(Numbers) /\ Len(log[s]) \in Nat
    BY <1>1
  <2>2. log'[s] = log[s] \/ log'[s] = Append(log[s], n)
    BY <1>1, <1>2
  <2> QED
    BY <2>1, <2>2, AppendProperties
<1> QED
  BY <1>1, <1>2, <1>3

LEMMA ProduceBase == ASSUME BaseInv, NEW n \in Numbers, Produce(n) PROVE BaseInv'
<1>1. UNCHANGED <<committed, handled, stored, ring, view, client, faults, drops, expiries>>
  BY DEF Produce
<1>2. TypeOK'
  BY <1>1, LogGrows DEF BaseInv, TypeOK
<1>3. ASSUME NEW s \in Sessions
      PROVE  /\ committed[s] <= Len(log'[s]) /\ stored[s] <= Len(log'[s])
             /\ s \in handled => committed[s] < Len(log'[s])
  <2>1. s \in handled => committed[s] < Len(log[s])
    BY DEF BaseInv, OffsetInv
  <2> QED
    BY <2>1, LogTyped, LogGrows
<1>4. OffsetInv'
  BY <1>1, <1>3 DEF OffsetInv
<1> QED
  BY <1>1, <1>2, <1>4 DEF BaseInv

LEMMA StoreBase == ASSUME BaseInv, NEW s \in Sessions, Store(s) PROVE BaseInv'
<1>1. /\ stored[s] < Len(log[s]) /\ stored' = [stored EXCEPT ![s] = @ + 1]
      /\ UNCHANGED <<log, committed, handled, ring, view, client, faults, drops, expiries>>
  BY DEF Store
<1>2. TypeOK'
  BY <1>1 DEF BaseInv, TypeOK
<1>3. ASSUME NEW t \in Sessions PROVE stored'[t] <= Len(log[t])
  <2>1. stored'[t] = IF t = s THEN stored[t] + 1 ELSE stored[t]
    BY <1>1 DEF BaseInv, TypeOK
  <2> QED
    BY <2>1, <1>1, LogTyped
<1>4. OffsetInv'
  BY <1>1, <1>3 DEF BaseInv, OffsetInv
<1> QED
  BY <1>1, <1>2, <1>4 DEF BaseInv

LEMMA CommitBase == ASSUME BaseInv, NEW s \in Sessions, CommitOffset(s) PROVE BaseInv'
<1>1. /\ s \in handled /\ committed' = [committed EXCEPT ![s] = @ + 1] /\ handled' = handled \ {s}
      /\ UNCHANGED <<log, stored, ring, view, client, faults, drops, expiries>>
  BY DEF CommitOffset
<1>2. TypeOK'
  BY <1>1 DEF BaseInv, TypeOK
<1>3. ASSUME NEW t \in Sessions
      PROVE  committed'[t] <= Len(log[t]) /\ (t \in handled' => committed'[t] < Len(log[t]))
  <2>1. committed'[t] = IF t = s THEN committed[t] + 1 ELSE committed[t]
    BY <1>1 DEF BaseInv, TypeOK
  <2>2. t \in handled => committed[t] < Len(log[t])
    BY DEF BaseInv, OffsetInv
  <2> QED
    BY <2>1, <2>2, <1>1, LogTyped
<1>4. OffsetInv'
  BY <1>1, <1>3 DEF BaseInv, OffsetInv
<1> QED
  BY <1>1, <1>2, <1>4 DEF BaseInv

LEMMA IngestFailBase == ASSUME BaseInv, NEW s \in Sessions, IngestFail(s) PROVE BaseInv'
<1>1. /\ faults < MaxFaults /\ faults' = faults + 1 /\ handled' = handled \ {s}
      /\ UNCHANGED <<log, committed, stored, ring, view, client, drops, expiries>>
  BY DEF IngestFail
<1>2. faults' \in 0..MaxFaults
  BY <1>1, FaultsTyped
<1>3. TypeOK'
  BY <1>1, <1>2 DEF BaseInv, TypeOK
<1>4. OffsetInv'
  BY <1>1 DEF BaseInv, OffsetInv
<1> QED
  BY <1>1, <1>3, <1>4 DEF BaseInv

LEMMA ExpireBase == ASSUME BaseInv, Expire PROVE BaseInv'
<1>1. /\ expiries < MaxExpiries /\ expiries' = expiries + 1 /\ ring' = {}
      /\ UNCHANGED <<log, committed, handled, stored, view, client, faults, drops>>
  BY DEF Expire
<1>2. expiries' \in 0..MaxExpiries
  BY <1>1, BoundsAssumption DEF BaseInv, TypeOK
<1>3. Cardinality(ring') <= Capacity
  BY <1>1, FS_EmptySet, CapacityAssumption
<1>4. TypeOK'
  BY <1>1, <1>2, <1>3 DEF BaseInv, TypeOK
<1>5. OffsetInv'
  BY <1>1 DEF BaseInv, OffsetInv
<1> QED
  BY <1>1, <1>4, <1>5 DEF BaseInv

LEMMA BaseInit == ASSUME Init PROVE BaseInv
<1>1. TypeOK
  <2>1. /\ log = [s \in Sessions |-> << >>] /\ committed = [s \in Sessions |-> 0] /\ handled = {}
        /\ stored = [s \in Sessions |-> 0] /\ ring = {} /\ client = [v \in Viewers |-> << >>]
        /\ faults = 0 /\ drops = 0 /\ expiries = 0
    BY DEF Init, EmptyLog
  <2>2. view \in [Viewers -> ViewRecord]
    BY DEF Init, Off, ViewRecord
  <2>3. Cardinality(ring) <= Capacity
    BY <2>1, FS_EmptySet, CapacityAssumption
  <2> QED
    BY <2>1, <2>2, <2>3, BoundsAssumption DEF TypeOK, ViewRecord
<1>2. OffsetInv
  BY DEF Init, EmptyLog, OffsetInv
<1>3. ASSUME NEW v \in Viewers PROVE Ahead(client[v], view[v])
  <2>1. client[v] = << >> /\ view[v].pc = "off" /\ view[v].wire = << >>
    BY DEF Init, Off
  <2> QED
    BY <2>1, EmptyRange DEF Ahead
<1> QED
  BY <1>1, <1>2, <1>3 DEF BaseInv

LEMMA BaseStep == ASSUME BaseInv, [Next]_vars PROVE BaseInv'
<1>1. CASE UNCHANGED vars
  BY <1>1 DEF vars, BaseInv, TypeOK, OffsetInv
<1>2. CASE Next
  BY <1>2, ProduceBase, StoreBase, IngestBase, CommitBase, IngestFailBase, ExpireBase, ConnectBase,
     ReadOldestBase, ReadRecentBase, ReadHistoryBase, ForwardBase, ReceiveBase, HistoryFailsBase,
     DisconnectBase DEF Next, Serve
<1> QED
  BY <1>1, <1>2

-----------------------------------------------------------------------------
(* What a Handler passes over, in an interview with one session.           *)

Single == \A s, t \in Sessions : s = t

Lost(n) == Late(n) \/ Gone(n)

(* SkipInv and SourceInv of a viewer to whom the events of sent were sent  *)
(* and whom h serves.                                                      *)
SkipOK(sent, h) ==
    \A n \in Numbers :
        /\ \A m \in sent : n < m /\ n \notin sent => Lost(n)
        /\ h.pc = "history" /\ n > h.lastSent /\ n \notin h.recent =>
              \A m \in h.recent : n < m => Lost(n)

SourceOK(s, sent, h) == Range(h.ch) \cup h.recent \subseteq Ingested(s) /\ sent \subseteq Range(log[s])

IInv == BaseInv /\ SourceInv /\ RingInv /\ SkipInv

(* IInv, viewer by viewer. *)
EachViewer ==
    /\ BaseInv /\ RingInv
    /\ \A s \in Sessions : ring \subseteq Ingested(s)
    /\ \A s \in Sessions, v \in Viewers : SourceOK(s, Sent(v), view[v])
    /\ expiries = 0 => \A v \in Viewers : SkipOK(Sent(v), view[v])

LEMMA EachViewerIsAll == IInv <=> EachViewer
  BY DEF IInv, EachViewer, SourceInv, SkipInv, SkipOK, SourceOK, Lost

LEMMA ByViewer ==
    ASSUME IInv
    PROVE  /\ BaseInv /\ RingInv
           /\ \A s \in Sessions : ring \subseteq Ingested(s)
           /\ \A s \in Sessions, v \in Viewers : SourceOK(s, Sent(v), view[v])
           /\ expiries = 0 => \A v \in Viewers : SkipOK(Sent(v), view[v])
  BY EachViewerIsAll DEF EachViewer

(* The session of every event. *)
LEMMA TheSession == ASSUME Single, NEW s \in Sessions, NEW n \in Numbers PROVE SessionOf[n] = s
  BY SessionOfAssumption DEF Single

(* What is ingested is in the log. *)
LEMMA IngestedInLog == ASSUME BaseInv, NEW s \in Sessions PROVE Ingested(s) \subseteq Range(log[s])
  BY DEF Ingested, Range

(* Everything in a log is a number. *)
LEMMA LogRange ==
    ASSUME BaseInv, NEW s \in Sessions
    PROVE  \A n \in Range(log[s]) : n \in Numbers /\ n \in Nat
  BY LogTyped DEF Range

(* An event that is not late precedes every later one in the log. *)
LEMMA NotLate ==
    ASSUME BaseInv, Single, NEW s \in Sessions, NEW n \in Numbers, ~Late(n),
           NEW j \in 1..Len(log[s]), n < log[s][j]
    PROVE  \E k \in 1..(j - 1) : log[s][k] = n
<1>1. PICK k \in DOMAIN log[s] : log[s][k] = n /\ ~\E i \in 1..(k - 1) : log[s][i] > n
  BY TheSession DEF Late
<1>2. k \in 1..Len(log[s]) /\ Len(log[s]) \in Nat /\ n \in Nat /\ log[s][j] \in Nat
  BY LogTyped, <1>1
<1>3. log[s][j] > n
  BY <1>2
<1>4. ~(j \in 1..(k - 1))
  BY <1>1, <1>3
<1>5. j # k
  BY <1>1, <1>2
<1>6. k \in 1..(j - 1)
  BY <1>2, <1>4, <1>5
<1> QED
  BY <1>1, <1>6

(* An event that a later one has overtaken on the Bus is late, in the ring *)
(* or gone.                                                                *)
LEMMA Overtaken ==
    ASSUME BaseInv, Single, NEW s \in Sessions, NEW n \in Numbers, n \notin ring,
           NEW m \in Ingested(s), n < m
    PROVE  Lost(n)
<1> SUFFICES ASSUME ~Late(n) PROVE Gone(n)
  BY DEF Lost
<1>1. PICK j \in DOMAIN log[s] \cap 1..(committed[s] + 1) : m = log[s][j]
  BY DEF Ingested
<1>2. j \in 1..Len(log[s]) /\ committed[s] \in Nat
  BY <1>1, LogTyped
<1>3. PICK k \in 1..(j - 1) : log[s][k] = n
  BY <1>1, <1>2, NotLate
<1>4. k \in 1..committed[s]
  BY <1>1, <1>2
<1> QED
  BY <1>3, <1>4, TheSession DEF Gone

(* An event that was stored before a later one can be read with it. *)
LEMMA StoredBefore ==
    ASSUME BaseInv, Single, NEW n \in Numbers, ~Late(n), NEW m \in History, n < m
    PROVE  n \in History
<1>0. PICK s \in Sessions : m \in {log[s][k] : k \in 1..stored[s]}
  BY DEF History
<1>1. PICK j \in 1..stored[s] : m = log[s][j]
  BY <1>0
<1>2. j \in 1..Len(log[s]) /\ stored[s] \in Nat
  BY <1>1, LogTyped
<1>3. PICK k \in 1..(j - 1) : log[s][k] = n
  BY <1>1, <1>2, NotLate
<1>4. k \in 1..stored[s]
  BY <1>1, <1>2
<1> QED
  BY <1>3, <1>4 DEF History

(* The history is part of the log. *)
LEMMA HistoryInLog ==
    ASSUME BaseInv, Single, NEW s \in Sessions
    PROVE  History \subseteq Range(log[s])
<1>1. ASSUME NEW t \in Sessions, NEW k \in 1..stored[t] PROVE log[t][k] \in Range(log[s])
  <2>1. t = s
    BY DEF Single
  <2>2. k \in DOMAIN log[s]
    BY <2>1, LogTyped
  <2> QED
    BY <2>1, <2>2 DEF Range
<1> QED
  BY <1>1 DEF History

(* A step of one Handler and its client. *)
LEMMA SkipView ==
    ASSUME IInv, Single, BaseInv', NEW v \in Viewers, NEW g,
           view' = [view EXCEPT ![v] = g], \A u \in Viewers : u # v => client'[u] = client[u],
           UNCHANGED <<log, committed, handled, stored, ring, expiries>>,
           NEW sent, sent = Range(client'[v]) \cup Range(g.wire),
           \A s \in Sessions : SourceOK(s, sent, g),
           expiries = 0 => SkipOK(sent, g)
    PROVE  IInv'
<1>1. view \in [Viewers -> ViewRecord]
  BY DEF IInv, BaseInv, TypeOK, ViewRecord
<1>2. /\ view'[v] = g /\ Sent(v)' = sent
      /\ \A u \in Viewers : u # v => view'[u] = view[u] /\ Sent(u)' = Sent(u)
  BY <1>1 DEF Sent, Shown
<1>3. /\ \A n \in Numbers : Lost(n)' <=> Lost(n)
      /\ \A s \in Sessions : Ingested(s)' = Ingested(s)
  BY DEF Lost, Late, Gone, Ingested
<1>4. RingInv'
  BY DEF IInv, RingInv, After
<1>5. \A s \in Sessions : ring' \subseteq Ingested(s)'
  BY <1>3, ByViewer
<1>6. ASSUME NEW s \in Sessions, NEW u \in Viewers PROVE SourceOK(s, Sent(u), view[u])'
  <2>1. CASE u = v
    BY <2>1, <1>2, <1>3 DEF SourceOK
  <2>2. CASE u # v
    <3>1. SourceOK(s, Sent(u), view[u])
      BY ByViewer
    <3> QED
      BY <3>1, <2>2, <1>2, <1>3 DEF SourceOK
  <2> QED
    BY <2>1, <2>2
<1>7. ASSUME expiries' = 0, NEW u \in Viewers PROVE SkipOK(Sent(u), view[u])'
  <2>1. CASE u = v
    BY <2>1, <1>2, <1>3, <1>7 DEF SkipOK
  <2>2. CASE u # v
    <3>1. SkipOK(Sent(u), view[u])
      BY <1>7, ByViewer
    <3> QED
      BY <3>1, <2>2, <1>2, <1>3 DEF SkipOK
  <2> QED
    BY <2>1, <2>2
<1>8. EachViewer'
  BY <1>4, <1>5, <1>6, <1>7 DEF EachViewer
<1> QED
  BY <1>8, EachViewerIsAll, PTL

(* Where a Handler stands: below its place everything was sent or lost. *)
LEMMA BelowPlace ==
    ASSUME IInv, expiries = 0, NEW v \in Viewers, view[v].pc # "off",
           NEW n \in Numbers, n <= view[v].lastSent, n \notin Sent(v)
    PROVE  Lost(n)
<1>1. SkipOK(Sent(v), view[v])
  BY ByViewer
<1>2. view[v].lastSent = 0 \/ view[v].lastSent \in Sent(v)
  BY ViewTyped DEF IInv, Ahead, Sent, Shown
<1>3. n \in Nat \ {0} /\ view[v].lastSent \in Nat
  BY ViewTyped, SessionOfAssumption DEF IInv, Numbers, ViewRecord
<1>4. view[v].lastSent \in Sent(v) /\ n < view[v].lastSent
  BY <1>2, <1>3
<1> QED
  BY <1>1, <1>4 DEF SkipOK

LEMMA ConnectSkip == ASSUME IInv, Single, NEW v \in Viewers, Connect(v) PROVE IInv'
<1> DEFINE g == Fresh(LastSeen(v))
           sent == Range(client'[v]) \cup Range(g.wire)
<1>1. /\ view' = [view EXCEPT ![v] = g] /\ view[v].pc = "off"
      /\ UNCHANGED <<log, committed, handled, stored, ring, client, expiries>>
  BY DEF Connect, SetView, Fresh
<1>2. g.wire = << >> /\ g.ch = << >> /\ g.recent = {} /\ g.pc = "oldest"
  BY ResumesAhead, FreshView DEF IInv
<1>3. sent = Sent(v)
  <2>1. view[v].wire = << >>
    BY <1>1, ViewTyped DEF IInv, Ahead
  <2> QED
    BY <2>1, <1>1, <1>2 DEF Sent, Shown
<1>4. \A s \in Sessions : SourceOK(s, sent, g)
  BY <1>2, <1>3, ByViewer, EmptyRange DEF SourceOK
<1>5. expiries = 0 => SkipOK(sent, g)
  BY <1>2, <1>3, ByViewer DEF SkipOK
<1>6. BaseInv'
  BY ConnectBase DEF IInv
<1> HIDE DEF g, sent
<1> QED
  BY <1>1, <1>4, <1>5, <1>6, SkipView DEF sent

LEMMA ReadOldestSkip == ASSUME IInv, Single, NEW v \in Viewers, ReadOldest(v) PROVE IInv'
<1> PICK g : g = [view[v] EXCEPT !.pc = "recent", !.oldest = Oldest(ring)]
  OBVIOUS
<1> PICK sent : sent = Range(client'[v]) \cup Range(g.wire)
  OBVIOUS
<1>1. /\ view' = [view EXCEPT ![v] = g] /\ view[v].pc = "oldest"
      /\ UNCHANGED <<log, committed, handled, stored, ring, client, expiries>>
  BY DEF ReadOldest, SetView
<1>2. /\ g.wire = view[v].wire /\ g.ch = view[v].ch /\ g.recent = view[v].recent
      /\ g.pc = "recent"
  BY ViewTyped DEF IInv, ViewRecord
<1>3. sent = Sent(v)
  BY <1>1, <1>2 DEF Sent, Shown
<1>4. \A s \in Sessions : SourceOK(s, sent, g)
  BY <1>2, <1>3, ByViewer DEF SourceOK
<1>5. expiries = 0 => SkipOK(sent, g)
  BY <1>2, <1>3, ByViewer DEF SkipOK
<1>6. BaseInv'
  BY ReadOldestBase DEF IInv
<1> QED
  BY <1>1, <1>4, <1>5, <1>6, SkipView

(* What was on the wire is lost, but it was above what is shown. *)
LEMMA DisconnectSkip == ASSUME IInv, Single, NEW v \in Viewers, Disconnect(v) PROVE IInv'
<1> PICK g : g = Off
  OBVIOUS
<1> PICK sent : sent = Range(client'[v]) \cup Range(g.wire)
  OBVIOUS
<1>1. /\ view' = [view EXCEPT ![v] = g]
      /\ UNCHANGED <<log, committed, handled, stored, ring, client, expiries>>
  BY DEF Disconnect, SetView
<1>2. g.wire = << >> /\ g.ch = << >> /\ g.recent = {} /\ g.pc = "off"
  BY DEF Off
<1>3. sent = Shown(v) /\ sent \subseteq Sent(v)
  BY <1>1, <1>2, EmptyRange DEF Sent, Shown
<1>4. \A s \in Sessions : SourceOK(s, sent, g)
  BY <1>2, <1>3, ByViewer, EmptyRange DEF SourceOK
<1>5. ASSUME expiries = 0 PROVE SkipOK(sent, g)
  <2>1. ASSUME NEW n \in Numbers, NEW m \in sent, n < m, n \notin sent PROVE Lost(n)
    <3>1. n \notin Range(view[v].wire)
      <4>1. \A k \in Range(view[v].wire) : m < k
        BY <1>3, ViewTyped DEF IInv, Ahead, Shown
      <4>2. m \in Nat /\ n \in Nat
        <5>1. m \in Range(client[v]) /\ client[v] \in Seq(Numbers)
          BY <1>3, ViewTyped DEF Shown, IInv
        <5>2. m \in Numbers
          BY <5>1 DEF Range
        <5> QED
          BY <5>2, SessionOfAssumption DEF Numbers
      <4>3. ~(m < n)
        BY <4>2, <2>1
      <4> QED
        BY <4>1, <4>3
    <3>2. n \notin Sent(v) /\ m \in Sent(v)
      BY <3>1, <2>1, <1>3 DEF Sent
    <3>3. SkipOK(Sent(v), view[v])
      BY <1>5, ByViewer
    <3> QED
      BY <3>2, <3>3, <2>1 DEF SkipOK
  <2> QED
    BY <2>1, <1>2 DEF SkipOK
<1>6. BaseInv'
  BY DisconnectBase DEF IInv
<1> QED
  BY <1>1, <1>4, <1>5, <1>6, SkipView

LEMMA ReceiveSkip == ASSUME IInv, Single, NEW v \in Viewers, Receive(v) PROVE IInv'
<1>1. PICK g \in ViewRecord, d \in Seq(Numbers) :
              /\ view' = [view EXCEPT ![v] = g] /\ client' = [client EXCEPT ![v] = d]
              /\ g.pc = view[v].pc /\ g.ch = view[v].ch /\ g.recent = view[v].recent
              /\ g.lastSent = view[v].lastSent
              /\ Range(d) \cup Range(g.wire) = Range(client[v]) \cup Range(view[v].wire)
  BY ReceiveEffect DEF IInv
<1> PICK sent : sent = Range(client'[v]) \cup Range(g.wire)
  OBVIOUS
<1>2. UNCHANGED <<log, committed, handled, stored, ring, expiries>>
  BY DEF Receive
<1>3. client \in [Viewers -> Seq(Numbers)]
  BY DEF IInv, BaseInv, TypeOK
<1>4. client'[v] = d /\ \A u \in Viewers : u # v => client'[u] = client[u]
  BY <1>1, <1>3
<1>5. sent = Sent(v)
  BY <1>1, <1>4 DEF Sent, Shown
<1>6. \A s \in Sessions : SourceOK(s, sent, g)
  BY <1>1, <1>5, ByViewer DEF SourceOK
<1>7. expiries = 0 => SkipOK(sent, g)
  BY <1>1, <1>5, ByViewer DEF SkipOK
<1>8. BaseInv'
  BY ReceiveBase DEF IInv
<1> QED
  BY <1>1, <1>2, <1>4, <1>6, <1>7, <1>8, SkipView

LEMMA PlaceTyped ==
    ASSUME IInv, NEW v \in Viewers
    PROVE  view[v].lastSent \in Numbers \cup {0} /\ view[v].lastSent \in Nat /\ \A n \in Numbers : n \in Nat
  BY ViewTyped, SessionOfAssumption DEF IInv, Numbers, ViewRecord

(* A Handler that has the ring above its place passes over nothing else. *)
LEMMA RingTaken ==
    ASSUME IInv, Single, expiries = 0, NEW v \in Viewers, view[v].pc # "off",
           NEW n \in Numbers, NEW s \in Sessions, NEW m \in Ingested(s), n < m,
           n \notin Sent(v), n \notin After(ring, view[v].lastSent)
    PROVE  Lost(n)
<1>1. CASE n <= view[v].lastSent
  BY <1>1, BelowPlace
<1>2. CASE ~(n <= view[v].lastSent)
  <2>1. n > view[v].lastSent
    BY <1>2, PlaceTyped
  <2>2. n \notin ring
    BY <2>1 DEF After
  <2> QED
    BY <2>2, Overtaken DEF IInv
<1> QED
  BY <1>1, <1>2

(* Nothing above the place of a Handler was sent. *)
LEMMA SentBelow ==
    ASSUME IInv, NEW v \in Viewers, view[v].pc # "off", NEW m \in Sent(v)
    PROVE  m <= view[v].lastSent /\ m \in Numbers
<1>1. /\ \A k \in Range(client[v]) \cup Range(view[v].wire) : k <= view[v].lastSent
      /\ client[v] \in Seq(Numbers) /\ view[v].wire \in Seq(Numbers)
  BY ViewTyped DEF IInv, Ahead, ViewRecord
<1>2. \A k \in Range(client[v]) \cup Range(view[v].wire) : k \in Numbers
  BY <1>1 DEF Range
<1> QED
  BY <1>1, <1>2 DEF Sent, Shown

LEMMA ReadRecentSkip == ASSUME IInv, Single, NEW v \in Viewers, ReadRecent(v) PROVE IInv'
<1> DEFINE A == After(ring, view[v].lastSent)
<1>1. PICK g \in ViewRecord :
              /\ SetView(v, g) /\ view[v].pc # "off" /\ g.ch = view[v].ch
              /\ \/ /\ g.pc = "history" /\ g.recent = A
                    /\ g.lastSent = view[v].lastSent /\ g.wire = view[v].wire
                 \/ /\ g.pc = "live" /\ g.recent = {}
                    /\ Range(g.wire) = Range(view[v].wire) \cup A
  BY ReadRecentEffect DEF IInv
<1>2. A \subseteq ring
  BY DEF After
<1>a. \A s \in Sessions : A \subseteq Ingested(s) /\ A \subseteq Range(log[s])
  BY <1>2, ByViewer, IngestedInLog
<1> PICK sent : sent = Range(client'[v]) \cup Range(g.wire)
  OBVIOUS
<1>3. /\ view' = [view EXCEPT ![v] = g]
      /\ UNCHANGED <<log, committed, handled, stored, ring, client, expiries>>
  BY <1>1 DEF SetView
<1>4. BaseInv'
  BY ReadRecentBase DEF IInv
<1>5. \/ sent = Sent(v) /\ g.pc = "history" /\ g.recent = A /\ g.lastSent = view[v].lastSent
      \/ sent = Sent(v) \cup A /\ g.pc = "live" /\ g.recent = {}
  BY <1>1, <1>3 DEF Sent, Shown
<1>6. ASSUME NEW s \in Sessions PROVE SourceOK(s, sent, g)
  <2>1. SourceOK(s, Sent(v), view[v])
    BY ByViewer
  <2> HIDE DEF A
  <2> QED
    BY <2>1, <1>1, <1>5, <1>a DEF SourceOK
<1>7. ASSUME expiries = 0 PROVE SkipOK(sent, g)
  <2>1. SkipOK(Sent(v), view[v])
    BY <1>7, ByViewer
  <2>2. ASSUME NEW n \in Numbers, NEW m \in A, n < m, n \notin A, n \notin Sent(v) PROVE Lost(n)
    <3>1. SessionOf[n] \in Sessions
      BY SessionOfAssumption
    <3>2. m \in Ingested(SessionOf[n])
      BY <3>1, <1>a
    <3> QED
      BY <3>1, <3>2, <2>2, <1>1, <1>7, RingTaken
  <2> HIDE DEF A
  <2>3. ASSUME NEW n \in Numbers, NEW m \in sent, n < m, n \notin sent PROVE Lost(n)
    BY <2>1, <2>2, <2>3, <1>5 DEF SkipOK
  <2>4. ASSUME NEW n \in Numbers, g.pc = "history", n > g.lastSent, n \notin g.recent, NEW m \in g.recent, n < m
        PROVE  Lost(n)
    <3>1. g.recent = A /\ g.lastSent = view[v].lastSent
      BY <2>4, <1>5
    <3>2. n \notin Sent(v)
      <4>1. n \in Nat /\ view[v].lastSent \in Nat
        BY PlaceTyped
      <4>2. ~(n <= view[v].lastSent)
        BY <4>1, <3>1, <2>4
      <4> QED
        BY <4>2, <1>1, SentBelow
    <3> QED
      BY <3>1, <3>2, <2>2, <2>4
  <2> QED
    BY <2>3, <2>4 DEF SkipOK
<1> HIDE DEF A
<1> QED
  BY <1>3, <1>4, <1>6, <1>7, SkipView

(* Catching up with a past that leaves nothing out below its last event. *)
LEMMA CatchUpSkip ==
    ASSUME IInv, Single, BaseInv', NEW v \in Viewers, NEW past \in SUBSET Numbers,
           view[v].pc = "history", SendCatchUp(v, past), past \subseteq History,
           \A n \in Numbers : \A m \in past :
               n < m /\ n > view[v].lastSent /\ ~Late(n) => n \in past
    PROVE  IInv'
<1> PICK h : h = view[v]
  OBVIOUS
<1> DEFINE P == After(past, h.lastSent)
<1>1. PICK g \in ViewRecord, l \in Numbers \cup {0} :
              /\ SetView(v, g)
              /\ g.pc = "live" /\ g.ch = h.ch /\ g.recent = {}
              /\ l = h.lastSent \/ l \in P
              /\ Range(g.wire) = Range(h.wire) \cup P \cup After(h.recent, l)
  BY CatchUpEffect DEF IInv
<1> DEFINE Q == After(h.recent, l)
<1>2. P \subseteq past /\ Q \subseteq h.recent
  BY DEF After
<1>3. \A n \in Numbers : /\ n \in past /\ n > h.lastSent => n \in P
                         /\ n \in h.recent /\ n > l => n \in Q
  BY DEF After
<1> PICK sent : sent = Range(client'[v]) \cup Range(g.wire)
  OBVIOUS
<1>4. /\ view' = [view EXCEPT ![v] = g]
      /\ UNCHANGED <<log, committed, handled, stored, ring, client, expiries>>
  BY <1>1 DEF SetView
<1>5. sent = Sent(v) \cup P \cup Q
  BY <1>1, <1>4 DEF Sent, Shown
<1>6. h.lastSent \in Nat /\ l \in Nat /\ h.pc # "off" /\ (\A n \in Numbers : n \in Nat)
  BY PlaceTyped
<1> HIDE DEF P, Q
<1>7. ASSUME NEW s \in Sessions PROVE SourceOK(s, sent, g)
  <2>1. SourceOK(s, Sent(v), h)
    BY ByViewer
  <2>2. P \subseteq Range(log[s])
    BY <1>2, HistoryInLog DEF IInv
  <2>3. Q \subseteq Range(log[s])
    BY <2>1, <1>2, IngestedInLog DEF SourceOK, IInv
  <2> QED
    BY <2>1, <2>2, <2>3, <1>1, <1>5 DEF SourceOK
<1>8. ASSUME expiries = 0 PROVE SkipOK(sent, g)
  <2>1. SkipOK(Sent(v), h)
    BY <1>8, ByViewer
  <2>2. ASSUME NEW n \in Numbers, NEW m \in sent, n < m, n \notin sent PROVE Lost(n)
    <3>1. CASE n <= h.lastSent
      BY <3>1, <2>2, <1>5, <1>6, <1>8, BelowPlace
    <3>2. CASE ~(n <= h.lastSent)
      <4>1. n > h.lastSent /\ n \in Nat
        BY <3>2, <1>6
      <4>2. m \notin Sent(v)
        <5>1. ASSUME m \in Sent(v) PROVE FALSE
          <6>1. m <= h.lastSent /\ m \in Nat
            BY <5>1, <1>6, SentBelow
          <6> QED
            BY <6>1, <4>1, <2>2, <1>6
        <5> QED
          BY <5>1
      <4>3. ASSUME ~Late(n), NEW k \in P, n < k PROVE FALSE
        <5>1. n \in past
          BY <4>1, <4>3, <1>2
        <5> QED
          BY <5>1, <4>1, <2>2, <1>3, <1>5
      <4>4. CASE m \in P
        BY <4>3, <4>4, <2>2 DEF Lost
      <4>5. CASE m \in Q /\ n \notin h.recent
        BY <4>1, <4>5, <2>1, <2>2, <1>2 DEF SkipOK
      <4>6. CASE n \in h.recent
        <5>1. ~(n > l)
          BY <4>6, <2>2, <1>3, <1>5
        <5>2. l \in P
          BY <5>1, <4>1, <1>1
        <5>3. n # l
          BY <5>2, <2>2, <1>5
        <5>4. n < l
          BY <5>1, <5>3, <4>1, <1>6
        <5> QED
          BY <5>2, <5>4, <4>3 DEF Lost
      <4> QED
        BY <4>2, <4>4, <4>5, <4>6, <2>2, <1>5
    <3> QED
      BY <3>1, <3>2
  <2> QED
    BY <2>2, <1>1 DEF SkipOK
<1> QED
  BY <1>4, <1>7, <1>8, SkipView

LEMMA ReadHistorySkip == ASSUME IInv, Single, NEW v \in Viewers, ReadHistory(v) PROVE IInv'
<1>1. view[v].pc = "history" /\ SendCatchUp(v, Past(v))
  BY DEF ReadHistory, Past
<1>2. Past(v) \subseteq History /\ Past(v) \in SUBSET Numbers
  BY PastTyped DEF Past, After, IInv
<1>3. ASSUME NEW n \in Numbers, NEW m \in Past(v), n < m, n > view[v].lastSent, ~Late(n)
      PROVE  n \in Past(v)
  <2>1. n \in History
    BY <1>2, <1>3, StoredBefore DEF IInv
  <2>2. view[v].oldest = 0 \/ m < view[v].oldest
    BY DEF Past
  <2>3. n \in Nat /\ m \in Nat /\ view[v].oldest \in Nat
    BY <1>2, ViewTyped, SessionOfAssumption DEF IInv, ViewRecord, Numbers
  <2>4. view[v].oldest = 0 \/ n < view[v].oldest
    BY <2>2, <2>3, <1>3
  <2> QED
    BY <2>1, <2>4, <1>3 DEF Past, After
<1>4. BaseInv'
  BY ReadHistoryBase DEF IInv
<1> QED
  BY <1>1, <1>2, <1>3, <1>4, CatchUpSkip

LEMMA HistoryFailsSkip == ASSUME IInv, Single, NEW v \in Viewers, HistoryFails(v) PROVE IInv'
<1>1. view[v].pc = "history" /\ SendCatchUp(v, {})
  BY DEF HistoryFails
<1>2. BaseInv'
  BY HistoryFailsBase DEF IInv
<1> QED
  BY <1>1, <1>2, CatchUpSkip

LEMMA ForwardSkip == ASSUME IInv, Single, NEW v \in Viewers, Forward(v) PROVE IInv'
<1> PICK h, x : h = view[v] /\ x = view[v].ch[1]
  OBVIOUS
<1> DEFINE P == After(Repair(h), h.lastSent)
<1>1. PICK g \in ViewRecord, l \in Numbers \cup {0} :
              /\ SetView(v, g)
              /\ h.pc = "live" /\ h.ch # << >> /\ Repair(h) \in SUBSET ring
              /\ g.pc = "live" /\ g.ch = Tail(h.ch) /\ g.recent = h.recent
              /\ l >= h.lastSent
              /\ Range(g.wire) = Range(h.wire) \cup P \cup After({x}, l)
  BY ForwardEffect DEF IInv
<1> DEFINE Q == After({x}, l)
<1>2. P \subseteq ring /\ \A m \in Q : m = x /\ x > l
  BY <1>1 DEF After
<1>3. P # {} \/ x > h.lastSent + 1 => P = After(ring, h.lastSent)
  BY DEF After, Repair
<1> PICK sent : sent = Range(client'[v]) \cup Range(g.wire)
  OBVIOUS
<1>4. /\ view' = [view EXCEPT ![v] = g]
      /\ UNCHANGED <<log, committed, handled, stored, ring, client, expiries>>
  BY <1>1 DEF SetView
<1>5. sent = Sent(v) \cup P \cup Q
  BY <1>1, <1>4 DEF Sent, Shown
<1>6. h.lastSent \in Nat /\ l \in Nat /\ h.pc # "off" /\ (\A n \in Numbers : n \in Nat)
  BY <1>1, PlaceTyped
<1>7. h.ch \in Seq(Numbers) /\ x \in Range(h.ch) /\ x \in Numbers /\ Range(Tail(h.ch)) \subseteq Range(h.ch)
  <2>1. h.ch \in Seq(Numbers)
    BY ViewTyped DEF IInv, ViewRecord
  <2>2. /\ Len(h.ch) \in Nat \ {0} /\ DOMAIN h.ch = 1..Len(h.ch)
        /\ DOMAIN Tail(h.ch) = 1..(Len(h.ch) - 1)
        /\ \A i \in 1..(Len(h.ch) - 1) : Tail(h.ch)[i] = h.ch[i + 1]
    BY <2>1, <1>1, EmptySeq, HeadTailProperties
  <2>3. 1 \in DOMAIN h.ch /\ \A i \in DOMAIN Tail(h.ch) : i + 1 \in DOMAIN h.ch /\ Tail(h.ch)[i] = h.ch[i + 1]
    BY <2>2
  <2> QED
    BY <2>1, <2>3 DEF Range
<1> HIDE DEF P, Q
<1>8. ASSUME NEW s \in Sessions
      PROVE  SourceOK(s, sent, g) /\ x \in Ingested(s) /\ P \subseteq Ingested(s)
  <2>1. SourceOK(s, Sent(v), h)
    BY ByViewer
  <2>2. x \in Ingested(s) /\ P \subseteq Ingested(s)
    BY <2>1, <1>2, <1>7, ByViewer DEF SourceOK
  <2>3. P \cup Q \subseteq Range(log[s])
    BY <2>2, <1>2, IngestedInLog DEF IInv
  <2> QED
    BY <2>1, <2>2, <2>3, <1>1, <1>5, <1>7 DEF SourceOK
<1>9. ASSUME expiries = 0 PROVE SkipOK(sent, g)
  <2>1. ASSUME NEW n \in Numbers, NEW m \in sent, n < m, n \notin sent PROVE Lost(n)
    <3>1. CASE n <= h.lastSent
      BY <3>1, <2>1, <1>5, <1>6, <1>9, BelowPlace
    <3>2. CASE ~(n <= h.lastSent)
      <4>1. n > h.lastSent /\ n \in Nat
        BY <3>2, <1>6
      <4>2. m \notin Sent(v)
        <5>1. ASSUME m \in Sent(v) PROVE FALSE
          <6>1. m <= h.lastSent /\ m \in Nat
            BY <5>1, <1>6, SentBelow
          <6> QED
            BY <6>1, <4>1, <2>1, <1>6
        <5> QED
          BY <5>1
      <4>3. m \in P \/ m = x
        BY <4>2, <2>1, <1>2, <1>5
      <4>4. m = x => x > h.lastSent + 1
        BY <4>1, <2>1, <1>6, <1>7
      <4>5. P = After(ring, h.lastSent)
        BY <4>3, <4>4, <1>3
      <4>6. SessionOf[n] \in Sessions
        BY SessionOfAssumption
      <4>7. m \in Ingested(SessionOf[n])
        BY <4>3, <4>6, <1>8
      <4> QED
        BY <4>5, <4>6, <4>7, <2>1, <1>5, <1>6, <1>9, RingTaken
    <3> QED
      BY <3>1, <3>2
  <2> QED
    BY <2>1, <1>1 DEF SkipOK
<1>10. BaseInv'
  BY ForwardBase DEF IInv
<1> QED
  BY <1>4, <1>8, <1>9, <1>10, SkipView

(* A step that is not a Handler's: logs and what is ingested grow, and     *)
(* what is lost stays so.                                                  *)
LEMMA SkipFrame ==
    ASSUME IInv, Single, BaseInv', RingInv', UNCHANGED <<client, expiries>>,
           \A v \in Viewers :
               /\ view'[v].pc = view[v].pc /\ view'[v].lastSent = view[v].lastSent
               /\ view'[v].wire = view[v].wire /\ view'[v].recent = view[v].recent,
           \A s \in Sessions :
               /\ ring' \subseteq Ingested(s)' /\ Ingested(s) \subseteq Ingested(s)'
               /\ Range(log[s]) \subseteq Range(log'[s])
               /\ \A v \in Viewers : Range(view'[v].ch) \subseteq Ingested(s)',
           expiries = 0 => \A s \in Sessions, n \in Numbers : \A m \in Range(log[s]) :
                              n < m /\ Lost(n) => Lost(n)'
    PROVE  IInv'
<1>1. ASSUME NEW v \in Viewers PROVE Sent(v)' = Sent(v)
  BY DEF Sent, Shown
<1>2. ASSUME NEW s \in Sessions, NEW v \in Viewers PROVE SourceOK(s, Sent(v), view[v])'
  <2>1. SourceOK(s, Sent(v), view[v])
    BY ByViewer
  <2> QED
    BY <2>1, <1>1 DEF SourceOK
<1>3. ASSUME expiries' = 0, NEW v \in Viewers PROVE SkipOK(Sent(v), view[v])'
  <2>1. SkipOK(Sent(v), view[v]) /\ expiries = 0
    BY <1>3, ByViewer
  <2>2. ASSUME NEW n \in Numbers, NEW m \in Sent(v) \cup view[v].recent, n < m, Lost(n) PROVE Lost(n)'
    <3>1. SessionOf[n] \in Sessions
      BY SessionOfAssumption
    <3>2. m \in Range(log[SessionOf[n]])
      <4>1. SourceOK(SessionOf[n], Sent(v), view[v])
        BY <3>1, ByViewer
      <4> QED
        BY <4>1, <3>1, IngestedInLog DEF SourceOK, IInv
    <3> QED
      BY <3>1, <3>2, <2>1, <2>2
  <2>3. ASSUME NEW n \in Numbers, NEW m \in Sent(v), n < m, n \notin Sent(v) PROVE Lost(n)'
    BY <2>1, <2>2, <2>3 DEF SkipOK
  <2>4. ASSUME NEW n \in Numbers, view[v].pc = "history", n > view[v].lastSent, n \notin view[v].recent,
               NEW m \in view[v].recent, n < m
        PROVE  Lost(n)'
    BY <2>1, <2>2, <2>4 DEF SkipOK
  <2> QED
    BY <2>3, <2>4, <1>1 DEF SkipOK
<1>4. EachViewer'
  BY <1>2, <1>3 DEF EachViewer
<1> QED
  BY <1>4, EachViewerIsAll, PTL

LEMMA ProduceSkip == ASSUME IInv, Single, NEW p \in Numbers, Produce(p) PROVE IInv'
<1>1. UNCHANGED <<committed, handled, stored, ring, view, client, faults, drops, expiries>>
  BY DEF Produce
<1>2. BaseInv' /\ BaseInv
  BY ProduceBase DEF IInv
<1>3. ASSUME NEW s \in Sessions
      PROVE  /\ Len(log'[s]) \in Nat /\ Len(log[s]) \in Nat /\ Len(log[s]) <= Len(log'[s])
             /\ DOMAIN log'[s] = 1..Len(log'[s]) /\ DOMAIN log[s] = 1..Len(log[s])
             /\ \A k \in 1..Len(log[s]) : k \in 1..Len(log'[s]) /\ log'[s][k] = log[s][k]
             /\ committed[s] \in Nat /\ committed[s] <= Len(log[s])
             /\ s \in handled => committed[s] < Len(log[s])
  BY <1>2, LogGrows, LogTyped DEF BaseInv, OffsetInv
<1>4. RingInv'
  <2> SUFFICES ASSUME expiries = 0, NEW s \in Sessions, NEW k \in DOMAIN log'[s],
                      k <= committed[s] \/ (s \in handled /\ k = committed[s] + 1)
               PROVE  log'[s][k] \in ring \/ Cardinality(After(ring, log'[s][k])) = Capacity
    BY <1>1 DEF RingInv, After
  <2>1. k \in 1..Len(log[s])
    BY <1>3
  <2>2. log'[s][k] = log[s][k] /\ k \in DOMAIN log[s]
    BY <2>1, <1>3
  <2> QED
    BY <2>2 DEF IInv, RingInv
<1>5. ASSUME NEW s \in Sessions
      PROVE  Ingested(s) \subseteq Ingested(s)' /\ Range(log[s]) \subseteq Range(log'[s])
  <2>1. \A k \in DOMAIN log[s] : k \in DOMAIN log'[s] /\ log[s][k] = log'[s][k]
    BY <1>3
  <2> QED
    BY <2>1, <1>1 DEF Ingested, Range
<1>6. ASSUME NEW s \in Sessions, NEW n \in Numbers, NEW m \in Range(log[s]), n < m, Lost(n)
      PROVE  Lost(n)'
  <2>0. SessionOf[n] = s
    BY TheSession
  <2>1. CASE Gone(n)
    <3>1. PICK k \in 1..committed[s] : log[s][k] = n
      BY <2>0, <2>1 DEF Gone
    <3>2. log'[s][k] = n
      BY <3>1, <1>3
    <3>3. n \notin ring
      BY <2>1 DEF Gone
    <3>4. Gone(n)'
      BY <3>1, <3>2, <3>3, <2>0, <1>1 DEF Gone
    <3> QED
      BY <3>4 DEF Lost
  <2>2. CASE Late(n)
    <3>1. PICK j \in 1..Len(log[s]) : m = log[s][j]
      BY <1>3 DEF Range
    <3>2. n \in Nat /\ m \in Nat
      BY <1>2, LogRange, SessionOfAssumption DEF Numbers
    <3>3. ASSUME NEW k \in 1..Len(log'[s]), log'[s][k] = n
          PROVE  \E i \in 1..(k - 1) : log'[s][i] > n
      <4>1. CASE k \in 1..Len(log[s])
        <5>1. log[s][k] = n /\ k \in DOMAIN log[s]
          BY <4>1, <3>3, <1>3
        <5>2. PICK i \in 1..(k - 1) : log[s][i] > n
          BY <5>1, <2>0, <2>2 DEF Late
        <5>3. i \in 1..Len(log[s])
          BY <4>1, <1>3
        <5> QED
          BY <5>2, <5>3, <1>3
      <4>2. CASE k \notin 1..Len(log[s])
        <5>1. j \in 1..(k - 1)
          BY <4>2, <1>3
        <5>2. log'[s][j] > n
          BY <3>1, <3>2, <1>3, <1>6
        <5> QED
          BY <5>1, <5>2
      <4> QED
        BY <4>1, <4>2
    <3>4. Late(n)'
      BY <3>3, <2>0, <1>3 DEF Late
    <3> QED
      BY <3>4 DEF Lost
  <2> QED
    BY <2>1, <2>2, <1>6 DEF Lost
<1>7. ASSUME NEW s \in Sessions
      PROVE  ring' \subseteq Ingested(s)' /\ \A v \in Viewers : Range(view'[v].ch) \subseteq Ingested(s)'
  <2>1. ring \subseteq Ingested(s) /\ \A v \in Viewers : SourceOK(s, Sent(v), view[v])
    BY ByViewer
  <2> QED
    BY <2>1, <1>1, <1>5 DEF SourceOK
<1> QED
  BY <1>1, <1>2, <1>4, <1>5, <1>6, <1>7, SkipFrame

(* What is gone stays gone, and what is ingested is accounted for: the     *)
(* event is the oldest of a full ring, or the ring keeps it.               *)
LEMMA IngestSkip == ASSUME IInv, Single, NEW s \in Sessions, Ingest(s) PROVE IInv'
<1> PICK n : n = log[s][committed[s] + 1]
  OBVIOUS
<1>1. /\ s \notin handled /\ committed[s] < Len(log[s]) /\ Publish(n) /\ handled' = handled \cup {s}
      /\ UNCHANGED <<log, committed, stored, client, faults, expiries>>
  BY DEF Ingest
<1>2. BaseInv /\ BaseInv'
  BY IngestBase DEF IInv
<1>3. /\ committed[s] + 1 \in DOMAIN log[s] /\ committed[s] + 1 \in 1..(committed[s] + 1)
      /\ n \in Numbers /\ n \in Nat
  <2>1. committed[s] + 1 \in 1..Len(log[s]) /\ committed[s] \in Nat
    BY <1>1, <1>2, LogTyped
  <2> QED
    BY <2>1, <1>2, LogTyped
<1>4. n \in Ingested(s)
  BY <1>3 DEF Ingested
<1>5. /\ \/ n \in ring /\ ring' = ring
         \/ n \notin ring /\ ring' = Trim(ring \cup {n})
      /\ \A v \in Viewers :
            /\ view'[v].pc = view[v].pc /\ view'[v].lastSent = view[v].lastSent
            /\ view'[v].wire = view[v].wire /\ view'[v].recent = view[v].recent
            /\ Range(view'[v].ch) \subseteq Range(view[v].ch) \cup {n}
  BY <1>1, <1>2, <1>3, PublishEffect
<1>6. /\ ring' \subseteq ring \cup {n}
      /\ \A x \in ring \cup {n} : x \in ring' \/ Cardinality(After(ring', x)) = Capacity
      /\ \A x \in Nat : x \notin ring /\ Cardinality(After(ring, x)) = Capacity =>
            x \notin ring' /\ Cardinality(After(ring', x)) = Capacity
  <2>1. CASE n \in ring /\ ring' = ring
    BY <2>1
  <2>2. CASE n \notin ring /\ ring' = Trim(ring \cup {n})
    BY <2>2, <1>2, <1>3, RingTyped, TrimAdd
  <2> QED
    BY <2>1, <2>2, <1>5
<1>7. ASSUME NEW t \in Sessions PROVE t = s /\ Ingested(t)' = Ingested(s) /\ Ingested(t) = Ingested(s)
  BY <1>1 DEF Single, Ingested
<1>8. RingInv'
  <2> SUFFICES ASSUME expiries = 0, NEW k \in DOMAIN log[s],
                      k <= committed[s] \/ k = committed[s] + 1
               PROVE  log[s][k] \in ring' \/ Cardinality(After(ring', log[s][k])) = Capacity
    BY <1>1, <1>7 DEF RingInv
  <2>1. CASE k <= committed[s]
    <3>1. log[s][k] \in ring \/ Cardinality(After(ring, log[s][k])) = Capacity
      BY <2>1 DEF IInv, RingInv
    <3>2. log[s][k] \in Nat
      BY <1>2, LogTyped
    <3> QED
      BY <3>1, <3>2, <1>6
  <2>2. CASE k = committed[s] + 1
    BY <2>2, <1>6
  <2> QED
    BY <2>1, <2>2
<1>9. ASSUME expiries = 0, NEW x \in Numbers, Lost(x) PROVE Lost(x)'
  <2>1. CASE Late(x)
    BY <2>1, <1>1 DEF Late, Lost
  <2>2. CASE Gone(x)
    <3>1. SessionOf[x] = s /\ x \in Nat /\ x \notin ring
      BY <2>2, TheSession, SessionOfAssumption DEF Gone, Numbers
    <3>2. PICK k \in 1..committed[s] : log[s][k] = x
      BY <2>2, <3>1 DEF Gone
    <3>3. k \in DOMAIN log[s] /\ k <= committed[s]
      BY <1>2, LogTyped
    <3>4. Cardinality(After(ring, x)) = Capacity
      BY <3>1, <3>2, <3>3, <1>9 DEF IInv, RingInv
    <3>5. x \notin ring'
      BY <3>1, <3>4, <1>6
    <3> QED
      BY <3>1, <3>2, <3>5, <1>1 DEF Gone, Lost
  <2> QED
    BY <2>1, <2>2, <1>9 DEF Lost
<1>10. ASSUME NEW t \in Sessions
       PROVE  ring' \subseteq Ingested(t)' /\ \A v \in Viewers : Range(view'[v].ch) \subseteq Ingested(t)'
  <2>1. ring \subseteq Ingested(s) /\ \A v \in Viewers : SourceOK(s, Sent(v), view[v])
    BY ByViewer
  <2>2. Ingested(t)' = Ingested(s)
    BY <1>7
  <2> QED
    BY <2>1, <2>2, <1>4, <1>5, <1>6 DEF SourceOK
<1> QED
  BY <1>1, <1>2, <1>5, <1>7, <1>8, <1>9, <1>10, SkipFrame

LEMMA CommitSkip == ASSUME IInv, Single, NEW s \in Sessions, CommitOffset(s) PROVE IInv'
<1>1. /\ s \in handled /\ committed' = [committed EXCEPT ![s] = @ + 1] /\ handled' = handled \ {s}
      /\ UNCHANGED <<log, stored, ring, view, client, faults, drops, expiries>>
  BY DEF CommitOffset
<1>2. BaseInv /\ BaseInv'
  BY CommitBase DEF IInv
<1>3. committed'[s] = committed[s] + 1 /\ committed[s] \in Nat
  BY <1>1, <1>2 DEF BaseInv, TypeOK
<1>4. \A t \in Sessions : t = s
  BY DEF Single
<1>5. RingInv'
  <2> SUFFICES ASSUME expiries = 0, NEW k \in DOMAIN log[s], k <= committed[s] + 1
               PROVE  log[s][k] \in ring \/ Cardinality(After(ring, log[s][k])) = Capacity
    BY <1>1, <1>3, <1>4 DEF RingInv, After
  <2>1. k <= committed[s] \/ k = committed[s] + 1
    BY <1>2, <1>3, LogTyped
  <2> QED
    BY <2>1, <1>1 DEF IInv, RingInv
<1>6. Ingested(s) \subseteq Ingested(s)'
  <2>1. 1..(committed[s] + 1) \subseteq 1..(committed'[s] + 1)
    BY <1>3
  <2> QED
    BY <2>1, <1>1 DEF Ingested
<1>7. ASSUME NEW x \in Numbers, Lost(x) PROVE Lost(x)'
  <2>1. CASE Late(x)
    BY <2>1, <1>1 DEF Late, Lost
  <2>2. CASE Gone(x)
    <3>1. SessionOf[x] = s
      BY TheSession
    <3>2. 1..committed[s] \subseteq 1..committed'[s]
      BY <1>3
    <3>3. Gone(x)'
      BY <3>1, <3>2, <2>2, <1>1 DEF Gone
    <3> QED
      BY <3>3 DEF Lost
  <2> QED
    BY <2>1, <2>2, <1>7 DEF Lost
<1>8. ASSUME NEW t \in Sessions
      PROVE  /\ ring' \subseteq Ingested(t)' /\ Ingested(t) \subseteq Ingested(t)'
             /\ \A v \in Viewers : Range(view'[v].ch) \subseteq Ingested(t)'
  <2>1. ring \subseteq Ingested(s) /\ \A v \in Viewers : SourceOK(s, Sent(v), view[v])
    BY ByViewer
  <2>2. t = s
    BY <1>4
  <2> QED
    BY <2>1, <2>2, <1>1, <1>6 DEF SourceOK
<1> QED
  BY <1>1, <1>2, <1>5, <1>7, <1>8, SkipFrame

(* Steps that touch nothing of this. *)
LEMMA QuietSkip ==
    ASSUME IInv, Single, BaseInv', handled' \subseteq handled,
           UNCHANGED <<log, committed, ring, view, client, expiries>>
    PROVE  IInv'
<1>1. RingInv'
  BY DEF IInv, RingInv, After
<1>2. /\ \A n \in Numbers : Lost(n) => Lost(n)'
      /\ \A s \in Sessions : Ingested(s)' = Ingested(s)
  BY DEF Lost, Late, Gone, Ingested
<1>3. \A s \in Sessions : ring \subseteq Ingested(s) /\ \A v \in Viewers : Range(view[v].ch) \subseteq Ingested(s)
  BY ByViewer DEF SourceOK
<1> QED
  BY <1>1, <1>2, <1>3, SkipFrame

(* An expired ring promises nothing any more. *)
LEMMA ExpireSkip == ASSUME IInv, Single, Expire PROVE IInv'
<1>1. /\ expiries' = expiries + 1 /\ ring' = {}
      /\ UNCHANGED <<log, committed, handled, stored, view, client, faults, drops>>
  BY DEF Expire
<1>2. BaseInv'
  BY ExpireBase DEF IInv
<1>3. ~(expiries' = 0)
  BY <1>1 DEF IInv, BaseInv, TypeOK
<1>4. SourceInv'
  BY <1>1 DEF IInv, SourceInv, Ingested, Sent, Shown
<1> QED
  BY <1>2, <1>3, <1>4 DEF IInv, RingInv, SkipInv

LEMMA SkipInit == ASSUME Init PROVE IInv
<1>1. BaseInv
  BY BaseInit
<1>2. /\ ring = {} /\ \A v \in Viewers : client[v] = << >> /\ view[v] = Off
      /\ \A s \in Sessions : log[s] = << >>
  BY DEF Init, EmptyLog
<1>3. \A v \in Viewers : /\ view[v].ch = << >> /\ view[v].recent = {} /\ view[v].wire = << >>
                         /\ view[v].pc = "off"
  BY <1>2 DEF Off
<1>4. SourceInv
  BY <1>2, <1>3, EmptyRange DEF SourceInv, Sent, Shown
<1>5. RingInv
  BY <1>2 DEF RingInv
<1>6. SkipInv
  BY <1>2, <1>3, EmptyRange DEF SkipInv, Sent, Shown
<1> QED
  BY <1>1, <1>4, <1>5, <1>6 DEF IInv

LEMMA SkipStep == ASSUME IInv, Single, [Next]_vars PROVE IInv'
<1>1. CASE UNCHANGED vars
  <2>1. BaseInv'
    BY BaseStep DEF IInv
  <2> QED
    BY <2>1, <1>1, QuietSkip DEF vars
<1>2. ASSUME NEW s \in Sessions, Store(s) PROVE IInv'
  BY <1>2, StoreBase, QuietSkip DEF Store, IInv
<1>3. ASSUME NEW s \in Sessions, IngestFail(s) PROVE IInv'
  BY <1>3, IngestFailBase, QuietSkip DEF IngestFail, IInv
<1>4. CASE Next
  BY <1>4, <1>2, <1>3, ProduceSkip, IngestSkip, CommitSkip, ExpireSkip, ConnectSkip, ReadOldestSkip,
     ReadRecentSkip, ReadHistorySkip, ForwardSkip, ReceiveSkip, HistoryFailsSkip, DisconnectSkip
     DEF Next, Serve
<1> QED
  BY <1>1, <1>4

(* What SkipInv says of the ring. *)
LEMMA SkippedFollows == ASSUME IInv PROVE SkippedIsGone
<1> SUFFICES ASSUME NEW v \in Viewers, view[v].pc = "live", expiries = 0,
                    NEW n \in ring, n <= view[v].lastSent, n \notin Sent(v)
             PROVE  Late(n)
  BY DEF SkippedIsGone
<1>1. n \in Numbers
  BY RingTyped DEF IInv
<1>2. Lost(n)
  BY <1>1, BelowPlace
<1> QED
  BY <1>2 DEF Lost, Gone

-----------------------------------------------------------------------------
(* The variables of the live monitor keep their types, in particular the   *)
(* ring its capacity and a Handler's wire numbers of events.               *)
THEOREM TypeCorrect == Spec => []TypeOK
<1>1. BaseInv => TypeOK
  BY DEF BaseInv
<1> QED
  BY BaseInit, BaseStep, <1>1, PTL DEF Spec

(* However a viewer is cut off, served again from ring, history and        *)
(* subscription, and sent what was redelivered, the client shows no event  *)
(* twice and none out of order, and whatever was put on its wire is above  *)
(* what it has shown: it never has to drop an event that it was sent.      *)
THEOREM OrderKept == Spec => [](ShownInOrder /\ OrderInv)
<1>1. BaseInv => ShownInOrder /\ OrderInv
  BY AheadIsOrder DEF BaseInv
<1> QED
  BY BaseInit, BaseStep, <1>1, PTL DEF Spec

(* In an interview with one session, whatever publish/subscribe drops,     *)
(* however far the event log runs ahead of the ring or lags behind it and  *)
(* however often the viewer is cut off: an event a live Handler has passed *)
(* over without sending it was late or has left the ring.                  *)
THEOREM NothingAvoidablySkipped == Single => (Spec => []SkippedIsGone)
<1> SUFFICES ASSUME Single PROVE Spec => []SkippedIsGone
  OBVIOUS
<1>1. Init => IInv
  BY SkipInit
<1>2. IInv /\ [Next]_vars => IInv'
  BY SkipStep
<1>3. IInv => SkippedIsGone
  BY SkippedFollows
<1> QED
  BY <1>1, <1>2, <1>3, PTL DEF Spec

=============================================================================
