---------------------------- MODULE HeapProofs ----------------------------
(***************************************************************************)
(* The allocator and the collector are correct for every segment size,     *)
(* every placement of segments, every set of registers and every length of *)
(* vector: HeapInv is inductive, and a cell in reach is never free.  First *)
(* the facts about the operators of module Heap that this rests on: the    *)
(* free list as a list in address order, segments, what is reachable, and  *)
(* the recent list.  Last, that the heap implements the abstract memory.   *)
(***************************************************************************)
EXTENDS Heap, FiniteSetTheorems, WellFoundedInduction, TLAPS

---------------------------------------------------------------------------
(* Least and greatest elements.                                            *)

(* A set of natural numbers has a least element: the intervals 0..m are    *)
(* well-founded under strict inclusion.                                    *)
LEMMA Least ==
  ASSUME NEW S, S \subseteq Nat, S # {}
  PROVE  \E m \in S : \A k \in S : m <= k
<1> DEFINE Below == {0 .. m : m \in S}
<1>1. Below \subseteq FiniteSubsetsOf(Nat) /\ Below # {}
  <2>1. ASSUME NEW m \in S  PROVE 0 .. m \in FiniteSubsetsOf(Nat)
    <3>1. IsFiniteSet(0 .. m)
      BY FS_Interval
    <3> QED BY <3>1 DEF FiniteSubsetsOf
  <2> QED BY <2>1
<1>2. \E x \in Below : \A y \in Below : ~ (<<y, x>> \in StrictSubsetOrdering(Nat))
  <2> HIDE DEF Below
  <2> QED BY <1>1, WFMin, FS_StrictSubsetOrderingWellFounded
<1>3. PICK m \in S : \A y \in Below : ~ (<<y, 0 .. m>> \in StrictSubsetOrdering(Nat))
  BY <1>2
<1>4. ASSUME NEW k \in S, ~ (m <= k)  PROVE FALSE
  <2>1. /\ 0 .. k \subseteq 0 .. m
        /\ m \in 0 .. m /\ m \notin 0 .. k
    BY <1>4
  <2>2. <<0 .. k, 0 .. m>> \in (SUBSET Nat) \X (SUBSET Nat)
    OBVIOUS
  <2>3. <<0 .. k, 0 .. m>> \in StrictSubsetOrdering(Nat)
    BY <2>1, <2>2 DEF StrictSubsetOrdering
  <2> QED BY <1>3, <2>3
<1> QED BY <1>4

(* A finite set of natural numbers has a greatest element.                 *)
LEMMA Greatest ==
  ASSUME NEW S, S \subseteq Nat, S # {}, IsFiniteSet(S)
  PROVE  \E m \in S : \A k \in S : k <= m
<1> DEFINE Above(m) == {d \in S : m < d}
           All == {Above(m) : m \in S}
<1>1. All \subseteq FiniteSubsetsOf(S) /\ All # {}
  <2>1. ASSUME NEW m \in S  PROVE Above(m) \in FiniteSubsetsOf(S)
    <3>1. IsFiniteSet(Above(m))
      BY FS_Subset
    <3> QED BY <3>1 DEF FiniteSubsetsOf
  <2> QED BY <2>1
<1>2. \E x \in All : \A y \in All : ~ (<<y, x>> \in StrictSubsetOrdering(S))
  <2> HIDE DEF All
  <2> QED BY <1>1, WFMin, FS_StrictSubsetOrderingWellFounded
<1>3. PICK m \in S : \A y \in All : ~ (<<y, Above(m)>> \in StrictSubsetOrdering(S))
  BY <1>2
<1>4. ASSUME NEW k \in S, ~ (k <= m)  PROVE FALSE
  <2>1. \A d \in S : d \in Nat
    OBVIOUS
  <2>2. m < k /\ \A d \in S : k < d => m < d
    BY <1>4, <2>1
  <2>3. k \in Above(m) /\ k \notin Above(k) /\ Above(k) \subseteq Above(m)
    <3>1. ~ (k < k)
      BY <2>1
    <3> QED BY <2>2, <3>1
  <2>4. <<Above(k), Above(m)>> \in (SUBSET S) \X (SUBSET S)
    OBVIOUS
  <2>5. <<Above(k), Above(m)>> \in StrictSubsetOrdering(S)
    <3> HIDE DEF Above
    <3> QED BY <2>3, <2>4 DEF StrictSubsetOrdering
  <2> QED BY <1>3, <2>5
<1> QED BY <1>4

(* Lowest picks the least element.                                         *)
LEMMA LowestIs ==
  ASSUME NEW S, S \subseteq Nat, S # {}
  PROVE  Lowest(S) \in S /\ \A d \in S : Lowest(S) <= d
<1>1. \E m \in S : \A d \in S : m <= d
  BY Least
<1> QED BY <1>1 DEF Lowest

(* First(S) is determined by being the least element of S, or NIL.         *)
LEMMA FirstIs ==
  ASSUME NEW S, S \subseteq Nat \ {0}
  PROVE  /\ S = {} => First(S) = NIL
         /\ S # {} => First(S) \in S /\ \A d \in S : First(S) <= d
         /\ First(S) = NIL => S = {}
         /\ \A m \in S : (\A d \in S : m <= d) => First(S) = m
<1>1. S # {} => Lowest(S) \in S /\ \A d \in S : Lowest(S) <= d
  BY LowestIs
<1>2. \A d \in S : d \in Nat /\ d # 0
  OBVIOUS
<1>3. CASE S = {}
  BY <1>3 DEF First, NIL
<1>4. CASE S # {}
  <2>1. First(S) \in S /\ \A d \in S : First(S) <= d
    BY <1>1, <1>4 DEF First
  <2>2. ASSUME NEW m \in S, \A d \in S : m <= d  PROVE First(S) = m
    <3>1. First(S) <= m /\ m <= First(S) /\ First(S) \in Nat /\ m \in Nat
      BY <2>1, <2>2, <1>2
    <3> QED BY <3>1
  <2> QED BY <1>2, <1>4, <2>1, <2>2 DEF NIL
<1> QED BY <1>3, <1>4

---------------------------------------------------------------------------
(* The least element of a set is its first.                                *)
LEMMA LeastIsFirst ==
  ASSUME NEW S \in SUBSET (Nat \ {0}), NEW m \in S, \A d \in S : m <= d
  PROVE  First(S) = m
BY FirstIs

(* The free list as a relation between a set of cells and its links.       *)

FreeList(F, next, head, n) ==
  /\ head = First(F)
  /\ \A c \in F : next[c] = First({d \in F : d > c})
  /\ n = Cardinality(F)

(* Taking the first cell off a free list leaves a free list.               *)
LEMMA PopList ==
  ASSUME NEW F, F \subseteq Nat \ {0}, IsFiniteSet(F), F # {},
         NEW next, NEW head, NEW n, FreeList(F, next, head, n),
         NEW next2, \A c \in F \ {head} : next2[c] = next[c]
  PROVE  /\ head \in F
         /\ next[head] \in F \cup {NIL}
         /\ FreeList(F \ {head}, next2, next[head], n - 1)
         /\ n - 1 \in Nat
<1>1. head \in F /\ \A d \in F : head <= d
  BY FirstIs DEF FreeList
<1>2. F \ {head} = {d \in F : d > head}
  <2>1. \A d \in F : d \in Nat /\ head \in Nat /\ head <= d
    BY <1>1
  <2>2. \A d \in F : d > head <=> d # head
    BY <2>1
  <2> QED BY <2>2
<1>3. \A c \in F \ {head} : {d \in F \ {head} : d > c} = {d \in F : d > c}
  BY <1>1
<1>4. next[head] = First(F \ {head})
  BY <1>1, <1>2 DEF FreeList
<1>5. \A c \in F \ {head} : next2[c] = First({d \in F \ {head} : d > c})
  BY <1>3 DEF FreeList
<1>6. n - 1 = Cardinality(F \ {head}) /\ n - 1 \in Nat
  <2>1. /\ IsFiniteSet(F \ {head})
        /\ Cardinality(F \ {head}) = Cardinality(F) - 1
    BY <1>1, FS_RemoveElement
  <2>2. Cardinality(F \ {head}) \in Nat
    BY <2>1, FS_CardinalityType
  <2> QED BY <2>1, <2>2 DEF FreeList
<1>7. next[head] \in F \cup {NIL}
  BY <1>4, FirstIs
<1> QED BY <1>1, <1>4, <1>5, <1>6, <1>7 DEF FreeList

(* Taking all cells between x and last off a free list leaves a free list. *)
LEMMA RunList ==
  ASSUME NEW F, NEW x \in F, NEW last \in F, NEW R, NEW next, NEW head, NEW m,
         NEW rest, NEW next2, NEW head2, NEW m2,
         F \subseteq Nat \ {0}, IsFiniteSet(F), x <= last,
         R \subseteq F, \A d \in F : d \in R <=> x <= d /\ d <= last,
         FreeList(F, next, head, m),
         rest = next[last],
         \A c \in F \ R : next2[c] = IF next[c] = x THEN rest ELSE next[c],
         head2 = IF x = head THEN rest ELSE head,
         m2 = m - Cardinality(R)
  PROVE  FreeList(F \ R, next2, head2, m2)
<1> DEFINE After(c) == {d \in F : d > c}
<1>1. /\ \A d \in F : d \in Nat /\ d # 0
      /\ x \in Nat /\ last \in Nat /\ last \in F /\ x <= last
      /\ \A d \in F : d \in R <=> x <= d /\ d <= last
  OBVIOUS
<1>2. rest = First(After(last)) /\ \A c \in F : next[c] = First(After(c))
  BY <1>1 DEF FreeList
<1>a. ASSUME NEW c \in F
      PROVE  /\ After(c) \subseteq F
             /\ After(c) # {} => /\ next[c] \in After(c)
                                /\ \A d \in After(c) : next[c] <= d
             /\ After(c) = {} => next[c] = NIL
  <2>1. After(c) \subseteq Nat \ {0}
    OBVIOUS
  <2>2. next[c] = First(After(c))
    BY <1>2
  <2> HIDE DEF After
  <2>3. After(c) # {} => next[c] \in After(c) /\ \A d \in After(c) : next[c] <= d
    BY <2>1, <2>2, FirstIs
  <2>4. After(c) = {} => next[c] = NIL
    BY <2>1, <2>2, FirstIs
  <2> QED BY <2>3, <2>4 DEF After
<1>3. ASSUME NEW c \in F \ R  PROVE next2[c] = First({d \in F \ R : d > c})
  <2>1. CASE c > last
    <3>1. {d \in F \ R : d > c} = After(c)
      <4>1. \A d \in F : d > c => d \notin R
        BY <2>1, <1>1
      <4> QED BY <4>1
    <3>2. next[c] # x
      <4>1. x \notin After(c)
        BY <2>1, <1>1
      <4>2. next[c] \in After(c) \/ next[c] = NIL
        BY <1>a
      <4> QED BY <4>1, <4>2, <1>1 DEF NIL
    <3> QED BY <3>1, <3>2, <1>2
  <2>2. CASE c < x /\ next[c] = x
    <3>1. \A d \in After(c) : x <= d
      BY <2>2, <1>a
    <3>2. \A d \in F : (d \notin R /\ d > c) <=> d > last
      <4>1. ASSUME NEW d \in F  PROVE (d \notin R /\ d > c) <=> d > last
        <5>1. d > c => x <= d
          BY <3>1
        <5>2. /\ d \in Nat /\ c \in Nat /\ x \in Nat /\ last \in Nat /\ x <= last
              /\ d \in R <=> x <= d /\ d <= last
          BY <1>1
        <5> QED BY <5>1, <5>2, <2>2
      <4> QED BY <4>1
    <3>3. {d \in F \ R : d > c} = After(last)
      BY <3>2
    <3> QED BY <3>3, <2>2, <1>2
  <2>3. CASE c < x /\ next[c] # x
    <3>1. x \in After(c)
      BY <2>3
    <3>2. next[c] \in After(c) /\ \A d \in After(c) : next[c] <= d
      BY <3>1, <1>a
    <3>3. next[c] < x
      <4>1. next[c] <= x /\ next[c] \in Nat /\ x \in Nat
        BY <3>1, <3>2, <1>1
      <4> QED BY <4>1, <2>3
    <3>4. /\ next[c] \in {d \in F \ R : d > c}
          /\ \A d \in {d \in F \ R : d > c} : next[c] <= d
      <4>1. next[c] \in F /\ next[c] > c
        BY <3>2
      <4>2. next[c] \notin R
        <5>1. next[c] \in Nat /\ x \in Nat /\ (next[c] \in R => x <= next[c])
          BY <4>1, <1>1
        <5> QED BY <5>1, <3>3
      <4> QED BY <3>2, <4>1, <4>2
    <3>5. {d \in F \ R : d > c} \subseteq Nat \ {0}
      OBVIOUS
    <3>6. First({d \in F \ R : d > c}) = next[c]
      BY <3>4, <3>5, FirstIs
    <3> QED BY <3>6, <2>3
  <2> QED BY <2>1, <2>2, <2>3, <1>1
<1>4. head2 = First(F \ R)
  <2>1. head \in F /\ \A d \in F : head <= d
    BY FirstIs DEF FreeList
  <2>2. CASE x = head
    <3>1. \A d \in F : d \notin R <=> d > last
      <4>1. ASSUME NEW d \in F  PROVE d \notin R <=> d > last
        <5>1. /\ d \in Nat /\ x \in Nat /\ last \in Nat /\ x <= last /\ x <= d
              /\ d \in R <=> x <= d /\ d <= last
          BY <2>1, <2>2, <1>1
        <5> QED BY <5>1
      <4> QED BY <4>1
    <3>2. F \ R = After(last)
      BY <3>1
    <3> QED BY <3>2, <2>2, <1>2
  <2>3. CASE x # head
    <3>1. head \in F \ R
      BY <2>1, <2>3, <1>1
    <3> QED BY <3>1, <2>1, <2>3, FirstIs
  <2> QED BY <2>2, <2>3
<1>5. m2 = Cardinality(F \ R)
  <2>1. F \cap R = R /\ IsFiniteSet(R)
    BY FS_Subset
  <2>2. /\ IsFiniteSet(F \ R)
        /\ Cardinality(F \ R) = Cardinality(F) - Cardinality(R)
    BY <2>1, FS_Difference
  <2> QED BY <2>2 DEF FreeList
<1> QED BY <1>3, <1>4, <1>5 DEF FreeList
(* Threading a new segment b..b+k-1 in front of a free list ...            *)
LEMMA AddInFront ==
  ASSUME NEW F, F \subseteq Nat \ {0}, IsFiniteSet(F),
         NEW b \in Nat \ {0}, NEW k \in Nat \ {0},
         NEW next, NEW head, NEW m, FreeList(F, next, head, m),
         \A d \in F : b + k - 1 < d,
         NEW next2,
         next2[b + k - 1] = head,
         \A c \in b .. (b + k - 1) : c # b + k - 1 => next2[c] = c + 1,
         \A c \in F : next2[c] = next[c]
  PROVE  FreeList(F \cup (b .. (b + k - 1)), next2, b, m + k)
<1> DEFINE S == b .. (b + k - 1)
           All == F \cup S
           last == b + k - 1
<1>1. /\ \A d \in F : d \in Nat /\ d # 0 /\ last < d
      /\ last \in Nat /\ b <= last
      /\ \A d \in S : d \in Nat /\ d # 0 /\ b <= d /\ d <= last
      /\ All \subseteq Nat \ {0}
  OBVIOUS
<1>2. b = First(All)
  <2>1. b \in All /\ \A d \in All : b <= d
    BY <1>1
  <2> QED BY <2>1, <1>1, FirstIs
<1>3. ASSUME NEW c \in All  PROVE next2[c] = First({d \in All : d > c})
  <2>1. CASE c \in F
    <3>1. {d \in All : d > c} = {d \in F : d > c}
      BY <2>1, <1>1
    <3> QED BY <2>1, <3>1 DEF FreeList
  <2>2. CASE c = last
    <3>1. \A d \in All : d > c <=> d \in F
      <4>1. ASSUME NEW d \in F  PROVE d > last
        BY <1>1
      <4>2. ASSUME NEW d \in S  PROVE ~ (d > last)
        BY <1>1
      <4> QED BY <4>1, <4>2, <2>2
    <3>2. {d \in All : d > c} = F
      BY <3>1
    <3> QED BY <2>2, <3>2 DEF FreeList
  <2>3. CASE c \in S /\ c # last
    <3>1. c + 1 \in {d \in All : d > c} /\ \A d \in {e \in All : e > c} : c + 1 <= d
      BY <2>3, <1>1
    <3>2. First({d \in All : d > c}) = c + 1
      BY <3>1, <1>1, FirstIs
    <3> QED BY <3>2, <2>3
  <2> QED BY <2>1, <2>2, <2>3
<1>4. m + k = Cardinality(All)
  <2>1. IsFiniteSet(S) /\ Cardinality(S) = k
    <3>1. ~ (b > last) /\ b \in Int /\ last \in Int /\ last - b + 1 = k
      OBVIOUS
    <3>2. IsFiniteSet(b .. last) /\ Cardinality(b .. last) = last - b + 1
      <4> HIDE DEF last
      <4> QED BY <3>1, FS_Interval
    <3> QED BY <3>1, <3>2
  <2>2. F \cap S = {}
    BY <1>1
  <2>3. Cardinality(All) = Cardinality(F) + Cardinality(S) - Cardinality(F \cap S)
    BY <2>1, FS_Union
  <2>4. Cardinality(F) \in Nat /\ Cardinality(F \cap S) = 0
    BY <2>2, FS_EmptySet, FS_CardinalityType
  <2> QED BY <2>1, <2>3, <2>4 DEF FreeList
<1> QED BY <1>2, <1>3, <1>4 DEF FreeList

(* next2 is next with the k cells from b spliced in behind pred, which is  *)
(* the last of F below them.                                               *)
Spliced(F, b, k, next, pred, next2) ==
  /\ pred \in F /\ pred < b
  /\ \A d \in F : d > pred => b + k - 1 < d
  /\ next2[pred] = b
  /\ next2[b + k - 1] = next[pred]
  /\ \A c \in b .. (b + k - 1) : c # b + k - 1 => next2[c] = c + 1
  /\ \A c \in F \ {pred} : next2[c] = next[c]

(* ... or behind the last free cell below it gives a free list.            *)
LEMMA AddBehind ==
  ASSUME NEW F, F \subseteq Nat \ {0}, IsFiniteSet(F),
         NEW b \in Nat \ {0}, NEW k \in Nat \ {0},
         NEW next, NEW head, NEW m, FreeList(F, next, head, m),
         NEW pred, NEW next2, Spliced(F, b, k, next, pred, next2)
  PROVE  FreeList(F \cup (b .. (b + k - 1)), next2, head, m + k)
<1>0. /\ pred \in F /\ pred < b
      /\ \A d \in F : d > pred => b + k - 1 < d
      /\ next2[pred] = b
      /\ next2[b + k - 1] = next[pred]
      /\ \A c \in b .. (b + k - 1) : c # b + k - 1 => next2[c] = c + 1
      /\ \A c \in F \ {pred} : next2[c] = next[c]
  BY DEF Spliced
<1> USE <1>0
<1> DEFINE S == b .. (b + k - 1)
           All == F \cup S
           last == b + k - 1
<1>1. /\ \A d \in F : d \in Nat /\ d # 0 /\ (d <= pred \/ last < d)
      /\ pred \in Nat /\ last \in Nat /\ b <= last /\ pred < b /\ last \in S
      /\ \A d \in S : d \in Nat /\ d # 0 /\ b <= d /\ d <= last
      /\ All \subseteq Nat \ {0}
  OBVIOUS
<1>2. head = First(All)
  <2>1. head \in F /\ \A d \in F : head <= d
    BY FirstIs DEF FreeList
  <2>2. head \in All /\ \A d \in All : head <= d
    BY <2>1, <1>1
  <2> QED BY <2>2, <1>1, LeastIsFirst
<1>3. ASSUME NEW c \in All  PROVE next2[c] = First({d \in All : d > c})
  <2>1. CASE c \in F /\ c > pred
    <3>1. {d \in All : d > c} = {d \in F : d > c}
      BY <2>1, <1>1
    <3> QED BY <2>1, <3>1, <1>1 DEF FreeList
  <2>2. CASE c = last
    <3>1. \A d \in All : d > c <=> d \in F /\ d > pred
      <4>1. ASSUME NEW d \in F  PROVE d > last <=> d > pred
        <5>1. d \in Nat /\ last \in Nat /\ pred < b /\ b <= last /\ (d <= pred \/ last < d)
              /\ pred \in Nat
          BY <1>1
        <5> QED BY <5>1
      <4>2. ASSUME NEW d \in S  PROVE ~ (d > last)
        BY <1>1
      <4> QED BY <4>1, <4>2, <2>2
    <3>2. {d \in All : d > c} = {d \in F : d > pred}
      BY <3>1
    <3> QED BY <2>2, <3>2 DEF FreeList
  <2>3. CASE c \in S /\ c # last
    <3>1. c + 1 \in {d \in All : d > c} /\ \A d \in {e \in All : e > c} : c + 1 <= d
      BY <2>3, <1>1
    <3>2. First({d \in All : d > c}) = c + 1
      <4>1. PICK G \in SUBSET (Nat \ {0}) : G = {d \in All : d > c}
        BY <1>1
      <4> QED BY <3>1, <4>1, LeastIsFirst
    <3> QED BY <3>2, <2>3
  <2>4. CASE c = pred
    <3>1. b \in {d \in All : d > c} /\ \A d \in {e \in All : e > c} : b <= d
      BY <2>4, <1>1
    <3>2. First({d \in All : d > c}) = b
      <4>1. PICK G \in SUBSET (Nat \ {0}) : G = {d \in All : d > c}
        BY <1>1
      <4> QED BY <3>1, <4>1, LeastIsFirst
    <3> QED BY <3>2, <2>4
  <2>5. CASE c \in F /\ c < pred
    <3>1. pred \in {d \in F : d > c} /\ {d \in F : d > c} \subseteq Nat \ {0}
      BY <2>5
    <3>2. /\ next[c] \in {d \in F : d > c}
          /\ \A d \in {e \in F : e > c} : next[c] <= d
      <4>1. next[c] = First({d \in F : d > c})
        BY <2>5 DEF FreeList
      <4>2. {d \in F : d > c} # {}
        BY <3>1
      <4> QED BY <3>1, <4>1, <4>2, FirstIs
    <3>3. /\ next[c] \in {d \in All : d > c}
          /\ \A d \in {e \in All : e > c} : next[c] <= d
      BY <3>1, <3>2, <1>1
    <3>4. First({d \in All : d > c}) = next[c]
      <4>1. PICK G \in SUBSET (Nat \ {0}) : G = {d \in All : d > c}
        BY <1>1
      <4> QED BY <3>3, <4>1, LeastIsFirst
    <3> QED BY <3>4, <2>5, <1>1
  <2> QED BY <2>1, <2>2, <2>3, <2>4, <2>5, <1>1
<1>4. m + k = Cardinality(All)
  <2>1. IsFiniteSet(S) /\ Cardinality(S) = k
    <3>1. ~ (b > last) /\ b \in Int /\ last \in Int /\ last - b + 1 = k
      OBVIOUS
    <3>2. IsFiniteSet(b .. last) /\ Cardinality(b .. last) = last - b + 1
      <4> HIDE DEF last
      <4> QED BY <3>1, FS_Interval
    <3> QED BY <3>1, <3>2
  <2>2. F \cap S = {}
    BY <1>1
  <2>3. Cardinality(All) = Cardinality(F) + Cardinality(S) - Cardinality(F \cap S)
    BY <2>1, FS_Union
  <2>4. Cardinality(F) \in Nat /\ Cardinality(F \cap S) = 0
    BY <2>2, FS_EmptySet, FS_CardinalityType
  <2> QED BY <2>1, <2>3, <2>4 DEF FreeList
<1> QED BY <1>2, <1>3, <1>4 DEF FreeList

---------------------------------------------------------------------------
(* Cells and segments.                                                     *)

(* Segments are finite, positive and apart from each other.                *)
LEMMA CellFacts ==
  /\ Cell \subseteq Nat \ {0}
  /\ IsFiniteSet(Cell)
  /\ SINK \notin Cell /\ NIL \notin Cell /\ SINK # NIL
  /\ \A b \in SegBase : /\ b \in Nat \ {0}
                        /\ Segment(b) \subseteq Cell
                        /\ Segment(b) = b .. (b + SegSize - 1)
                        /\ IsFiniteSet(Segment(b))
                        /\ Cardinality(Segment(b)) = SegSize
  /\ \A b1, b2 \in SegBase : b1 # b2 => Segment(b1) \cap Segment(b2) = {}
<1>1. \A b \in SegBase : b \in Nat \ {0} /\ Segment(b) \subseteq Cell
  BY HeapAssumption DEF Cell
<1>2. SegSize \in Nat \ {0}
  BY HeapAssumption
<1>3. Cell \subseteq Nat \ {0}
  BY <1>1, <1>2 DEF Cell, Segment
<1>4. \A b \in SegBase : IsFiniteSet(Segment(b)) /\ Cardinality(Segment(b)) = SegSize
  <2>1. ASSUME NEW b \in SegBase
        PROVE  IsFiniteSet(Segment(b)) /\ Cardinality(Segment(b)) = SegSize
    <3>1. /\ b \in Int /\ b + SegSize - 1 \in Int
          /\ ~ (b > b + SegSize - 1) /\ (b + SegSize - 1) - b + 1 = SegSize
      BY <1>1, <1>2
    <3> QED BY <3>1, FS_Interval DEF Segment
  <2> QED BY <2>1
<1>5. IsFiniteSet(Cell)
  <2>1. IsFiniteSet({Segment(b) : b \in SegBase})
    <3> DEFINE f == [b \in SegBase |-> Segment(b)]
               T == {Segment(b) : b \in SegBase}
    <3>1. f \in Surjection(SegBase, T)
      BY DEF Surjection
    <3>2. IsFiniteSet(SegBase)
      BY HeapAssumption
    <3> HIDE DEF f, T
    <3>3. IsFiniteSet(T)
      BY <3>1, <3>2, FS_Surjection
    <3> QED BY <3>3 DEF T
  <2>2. \A T \in {Segment(b) : b \in SegBase} : IsFiniteSet(T)
    BY <1>4
  <2> QED BY <2>1, <2>2, FS_UNION DEF Cell
<1>6. \A b1, b2 \in SegBase : b1 # b2 => Segment(b1) \cap Segment(b2) = {}
  BY <1>1, <1>2, HeapAssumption DEF Segment
<1> QED BY <1>1, <1>3, <1>4, <1>5, <1>6 DEF Segment, NIL, SINK

(* What the invariant says of the free list, in the terms of the lemmas.   *)
LEMMA FreeFacts ==
  ASSUME FreeListExact
  PROVE  /\ Free \subseteq Nat \ {0} /\ Free \subseteq Cell /\ IsFiniteSet(Free)
         /\ FreeList(Free, cdr, free_cell, fcells)
<1>1. Free \subseteq Cell
  BY DEF Free
<1>2. IsFiniteSet(Free)
  BY <1>1, CellFacts, FS_Subset
<1> QED BY <1>1, <1>2, CellFacts DEF FreeList, FreeListExact

---------------------------------------------------------------------------
(* The recent list.                                                        *)

(* The recent list runs from Recent through cdr to NIL.                    *)
LEMMA HoldersFacts ==
  ASSUME LinksInUse
  PROVE  /\ Recent \in Holders \cup {NIL}
         /\ Holders \subseteq InUse \ {NIL}
         /\ \A h \in Holders : IsPair(h) => cdr[h] \in Holders \cup {NIL}
<1>1. Recent \in InUse /\ NIL \in InUse
  BY DEF LinksInUse, Roots, InUse
<1>2. Recent \in Holders \cup {NIL}
  BY <1>1 DEF Holders
<1>3. ASSUME NEW h \in Holders, IsPair(h)  PROVE cdr[h] \in Holders \cup {NIL}
  <2>1. h \in InUse /\ h # NIL
    BY DEF Holders
  <2>2. cdr[h] \in InUse
    BY <1>3, <2>1 DEF LinksInUse, Succ, IsPair
  <2>3. ASSUME NEW S \in SUBSET InUse, Recent \in S,
               \A q \in S : IsPair(q) => cdr[q] \in S
        PROVE  cdr[h] \in S
    BY <2>3, <1>3 DEF Holders
  <2> QED BY <2>2, <2>3 DEF Holders
<1> QED BY <1>2, <1>3 DEF Holders

(* A step that leaves the holders alone leaves the recent list alone.      *)
LEMMA HoldersStable ==
  ASSUME LinksInUse, Recent' = Recent, Holders \subseteq InUse',
         \A h \in Holders : IsPair(h) /\ IsPair(h)' /\ cdr'[h] = cdr[h]
  PROVE  Holders' = Holders
<1> DEFINE H == Holders \cup {NIL}
<1>1. /\ Recent \in H /\ H \subseteq InUse /\ H \subseteq InUse'
      /\ \A q \in H : IsPair(q) => cdr[q] \in H
      /\ \A q \in H : IsPair(q)' => cdr'[q] \in H
  <2>1. ~ IsPair(NIL) /\ ~ IsPair(NIL)'
    BY CellFacts DEF IsPair
  <2>2. NIL \in InUse /\ NIL \in InUse'
    BY DEF InUse
  <2> QED BY <2>1, <2>2, HoldersFacts
<1>2. ASSUME NEW p \in Holders'  PROVE p \in Holders
  <2>1. p # NIL /\ \A S \in SUBSET InUse' :
          (Recent' \in S /\ \A q \in S : IsPair(q)' => cdr'[q] \in S) => p \in S
    BY <1>2 DEF Holders
  <2> HIDE DEF H
  <2>2. p \in H
    BY <1>1, <2>1
  <2> QED BY <2>1, <2>2 DEF H
<1>3. ASSUME NEW p \in Holders  PROVE p \in Holders'
  <2>1. ASSUME NEW S \in SUBSET InUse', Recent' \in S,
               \A q \in S : IsPair(q)' => cdr'[q] \in S
        PROVE  p \in S
    <3> DEFINE T == S \cap H
    <3>1. T \in SUBSET InUse /\ Recent \in T
      BY <1>1, <2>1
    <3>2. \A q \in T : IsPair(q) => cdr[q] \in T
      <4>1. ASSUME NEW q \in T, IsPair(q)  PROVE cdr[q] \in T
        <5>1. q \in Holders
          BY <4>1, CellFacts DEF IsPair
        <5>2. IsPair(q)' /\ cdr'[q] = cdr[q]
          BY <5>1
        <5> QED BY <1>1, <2>1, <4>1, <5>2
      <4> QED BY <4>1
    <3> HIDE DEF T
    <3>3. p \in T
      BY <1>3, <3>1, <3>2 DEF Holders
    <3> QED BY <3>3 DEF T
  <2>2. p \in InUse' \ {NIL}
    BY <1>3, HoldersFacts
  <2> QED BY <2>1, <2>2 DEF Holders
<1> QED BY <1>2, <1>3

(* A new cell in front of the list is one more holder.                     *)
LEMMA HoldersPush ==
  ASSUME LinksInUse, NEW h, h \notin InUse, h \in Cell, InUse' = InUse \cup {h},
         Recent' = h, IsPair(h)', cdr'[h] = Recent,
         \A q \in InUse : /\ IsPair(q)' <=> IsPair(q)
                          /\ IsPair(q) => cdr'[q] = cdr[q]
  PROVE  Holders' = Holders \cup {h}
<1>1. Recent \in InUse
  BY DEF LinksInUse, Roots
<1>2. ASSUME NEW p \in Holders', p # h  PROVE p \in Holders
  <2>1. p \in InUse \ {NIL}
    BY <1>2 DEF Holders
  <2>2. ASSUME NEW S \in SUBSET InUse, Recent \in S,
               \A q \in S : IsPair(q) => cdr[q] \in S
        PROVE  p \in S
    <3> DEFINE T == S \cup {h}
    <3>1. T \in SUBSET InUse' /\ Recent' \in T
      OBVIOUS
    <3>2. \A q \in T : IsPair(q)' => cdr'[q] \in T
      <4>1. ASSUME NEW q \in S, IsPair(q)'  PROVE cdr'[q] \in S
        BY <2>2, <4>1
      <4> QED BY <4>1, <2>2
    <3> HIDE DEF T
    <3>3. p \in T
      BY <1>2, <3>1, <3>2 DEF Holders
    <3> QED BY <1>2, <3>3 DEF T
  <2> QED BY <2>1, <2>2 DEF Holders
<1>3. ASSUME NEW p \in Holders \cup {h}  PROVE p \in Holders'
  <2>1. p \in InUse' \ {NIL}
    BY <1>3, CellFacts DEF Holders
  <2>2. ASSUME NEW S \in SUBSET InUse', Recent' \in S,
               \A q \in S : IsPair(q)' => cdr'[q] \in S
        PROVE  p \in S
    <3> DEFINE T == S \ {h}
    <3>1. T \in SUBSET InUse /\ Recent \in T
      BY <2>2, <1>1
    <3>2. ASSUME NEW q \in T, IsPair(q)  PROVE cdr[q] \in T
      <4>1. q \in S /\ q \in InUse /\ q # NIL
        BY <3>1, <3>2, CellFacts DEF IsPair
      <4>2. cdr[q] \in S
        BY <2>2, <3>2, <4>1
      <4>3. cdr[q] \in InUse
        BY <3>2, <4>1 DEF LinksInUse, Succ, IsPair
      <4> QED BY <4>2, <4>3
    <3> HIDE DEF T
    <3>3. CASE p \in Holders
      <4>1. p \in T
        BY <3>1, <3>2, <3>3 DEF Holders
      <4> QED BY <4>1 DEF T
    <3> QED BY <3>3, <1>3, <2>2
  <2> QED BY <2>1, <2>2 DEF Holders
<1> QED BY <1>2, <1>3

---------------------------------------------------------------------------
(* What is reachable, and steps that leave the memory alone.               *)

(* What the collector marks contains its roots, consists of cells in use   *)
(* and is closed under the pointers mark follows.                          *)
LEMMA ReachFacts ==
  ASSUME LinksInUse, NEW R, R \subseteq InUse
  PROVE  R \subseteq Reach(R) /\ Reach(R) \subseteq InUse /\ Closed(Reach(R))
<1>1. ASSUME NEW p \in Reach(R), NEW q \in Succ(p)  PROVE q \in Reach(R)
  <2>1. p \in InUse /\ \A S \in SUBSET InUse : R \subseteq S /\ Closed(S) => p \in S
    BY DEF Reach
  <2>2. q \in InUse
    BY <2>1 DEF LinksInUse
  <2>3. ASSUME NEW S \in SUBSET InUse, R \subseteq S, Closed(S)  PROVE q \in S
    BY <2>1, <2>3 DEF Closed
  <2> QED BY <2>2, <2>3 DEF Reach
<1> QED BY <1>1 DEF Reach, Closed

(* The recent list lies in every closed set of cells that has its first.   *)
LEMMA HoldersReached ==
  ASSUME NEW S \in SUBSET InUse, Closed(S), Recent \in S
  PROVE  Holders \subseteq S
<1>1. ASSUME NEW q \in S, IsPair(q)  PROVE cdr[q] \in S
  <2>1. cdr[q] \in Succ(q)
    BY <1>1, CellFacts DEF Succ, IsPair
  <2> QED BY <2>1 DEF Closed
<1> QED BY <1>1 DEF Holders

(* A step that leaves the memory alone leaves what is read off it alone.   *)
LEMMA SameMemory ==
  ASSUME UNCHANGED memory
  PROVE  /\ Free' = Free /\ InUse' = InUse /\ Recent' = Recent
         /\ Holders' = Holders
         /\ \A p : Succ(p)' = Succ(p) /\ IsPair(p)' = IsPair(p)
<1>1. kind' = kind /\ len' = len /\ car' = car /\ cdr' = cdr
  BY DEF memory
<1>2. Free' = Free /\ InUse' = InUse /\ Recent' = Recent
  BY <1>1 DEF Free, InUse, Recent
<1>3. \A p : Succ(p)' = Succ(p) /\ IsPair(p)' = IsPair(p)
  BY <1>1 DEF Succ, IsPair
<1>4. Holders' = Holders
  BY <1>1, <1>2, <1>3 DEF Holders
<1> QED BY <1>2, <1>3, <1>4

(* A step of the opcode or the allocator that leaves memory and free list  *)
(* alone keeps the invariant when the roots it leaves are cells in use and *)
(* not holders, and what it holds it held before.                          *)
LEMMA SameMemoryInv ==
  ASSUME HeapInv, UNCHANGED <<memory, segs, freeList, no_memory>>,
         reg' \in [Regs -> Ptr], local' \subseteq local, call' \in Call,
         Registers' \cup {call'.a, call'.b, call'.x}
           \subseteq Registers \cup local \cup {call.a, call.b, call.x, NIL}
                    \cup (InUse \ (Holders \cup {SINK}))
                    \cup (IF no_memory THEN InUse ELSE {}),
         PendingOperands'
  PROVE  HeapInv'
<1> DEFINE Old == Registers \cup local \cup {call.a, call.b, call.x, NIL}
           More == InUse \ (Holders \cup {SINK})
           Any == IF no_memory THEN InUse ELSE {}
           New == Registers' \cup {call'.a, call'.b, call'.x}
<1>1. /\ kind' = kind /\ len' = len /\ car' = car /\ cdr' = cdr /\ segs' = segs
      /\ free_cell' = free_cell /\ fcells' = fcells /\ no_memory' = no_memory
  BY DEF memory, freeList
<1>2. /\ Free' = Free /\ InUse' = InUse /\ Recent' = Recent
      /\ Holders' = Holders
      /\ \A p : Succ(p)' = Succ(p) /\ IsPair(p)' = IsPair(p)
  BY SameMemory
<1>3. TypeOK'
  BY <1>1 DEF HeapInv, TypeOK, Ptr, Mem
<1>4. FreeListExact'
  BY <1>1, <1>2 DEF HeapInv, FreeListExact
<1>5. ElementCells'
  BY <1>1, <1>2 DEF HeapInv, ElementCells
<1>6. Old \subseteq Roots \cup {NIL} /\ NIL \in InUse /\ NIL \notin Holders
  BY DEF Roots, InUse, Holders
<1>7. New \subseteq Old \cup More \cup Any
  OBVIOUS
<1> HIDE DEF Old, More, Any, New
<1>8. LinksInUse'
  <2>1. Roots' \subseteq Roots \cup New
    BY <1>2 DEF Roots, New
  <2>2. Roots \subseteq InUse /\ \A p \in InUse : Succ(p) \subseteq InUse
    BY DEF HeapInv, LinksInUse
  <2>3. New \subseteq InUse
    BY <1>6, <1>7, <2>2 DEF More, Any
  <2>4. ASSUME ~no_memory  PROVE SINK \notin Roots'
    <3>1. SINK \notin Roots
      BY <2>4 DEF HeapInv, LinksInUse
    <3>2. SINK \notin New
      BY <1>6, <1>7, <2>4, <3>1, CellFacts DEF More, Any
    <3> QED BY <2>1, <3>1, <3>2
  <2> QED BY <1>1, <1>2, <2>1, <2>2, <2>3, <2>4 DEF HeapInv, LinksInUse
<1>9. RecentKeepsLocal'
  <2> SUFFICES ASSUME ~no_memory  PROVE RecentKeepsLocal'
    BY <1>1 DEF RecentKeepsLocal
  <2>1. (Registers \cup local \cup {call.a, call.b, call.x}) \cap Holders = {}
    BY DEF HeapInv, RecentKeepsLocal
  <2>2. New \cap Holders = {} /\ local' \cap Holders = {}
    BY <1>6, <1>7, <2>1 DEF Old, More, Any
  <2> QED BY <1>1, <1>2, <2>2 DEF HeapInv, RecentKeepsLocal, New
<1> QED BY <1>3, <1>4, <1>5, <1>8, <1>9 DEF HeapInv
---------------------------------------------------------------------------
(* HeapInv is inductive: the initial state and one lemma for each action.  *)

LEMMA InitInv == Init => HeapInv
<1> SUFFICES ASSUME Init PROVE HeapInv
  OBVIOUS
<1> DEFINE heap == UNION {Segment(b) : b \in FirstSegs}
<1>1. FirstSegs \subseteq SegBase /\ FirstSegs # {} /\ heap \subseteq Cell
  BY HeapAssumption DEF Cell
<1>2. heap \subseteq Nat \ {0} /\ IsFiniteSet(heap)
  BY <1>1, CellFacts, FS_Subset
<1>3. /\ kind = [c \in Cell |-> IF c \in heap THEN "free" ELSE "absent"]
      /\ cdr = [p \in Mem |-> IF p \in heap THEN First({d \in heap : d > p}) ELSE NIL]
      /\ free_cell = Lowest(heap)
      /\ fcells = Cardinality(heap)
      /\ segs = FirstSegs
  BY DEF Init
<1> HIDE DEF heap
<1>4. Free = heap
  BY <1>1, <1>3 DEF Free
<1>5. FreeListExact
  <2>1. heap # {}
    <3>1. PICK b \in FirstSegs : b \in SegBase
      BY <1>1
    <3>2. b \in Segment(b)
      BY <3>1, HeapAssumption DEF Segment
    <3> QED BY <3>2 DEF heap
  <2>2. \A c \in heap : c \in Mem
    BY <1>1 DEF Mem
  <2> QED BY <1>3, <1>4, <2>1, <2>2 DEF FreeListExact, First
<1>6. TypeOK
  <2>1. \A p \in Mem : cdr[p] \in Ptr
    <3>1. ASSUME NEW p \in Mem  PROVE First({d \in heap : d > p}) \in heap \cup {NIL}
      <4>1. {d \in heap : d > p} \subseteq Nat \ {0}
        BY <1>2
      <4> QED BY <4>1, FirstIs
    <3> QED BY <3>1, <1>1, <1>3 DEF Ptr, Mem
  <2>2. cdr \in [Mem -> Ptr]
    BY <2>1, <1>3
  <2>3. free_cell \in Cell \cup {NIL} /\ fcells \in Nat
    <3>1. free_cell = First(heap)
      BY <1>4, <1>5 DEF FreeListExact
    <3>2. free_cell \in Cell \cup {NIL}
      BY <3>1, <1>1, <1>2, FirstIs
    <3> QED BY <3>2, <1>2, <1>3, FS_CardinalityType
  <2>4. \A c \in Cell : kind[c] = "absent" <=> \A b \in segs : c \notin Segment(b)
    BY <1>3 DEF heap
  <2>5. kind \in [Cell -> {"absent", "free", "pair", "vector"}]
    BY <1>3
  <2> QED BY <1>1, <1>3, <2>2, <2>3, <2>4, <2>5
          DEF Init, TypeOK, Ptr, Call, Idle
<1>7. LinksInUse /\ Roots \subseteq {NIL} /\ Recent = NIL
  <2>1. InUse = {SINK, NIL}
    BY <1>3 DEF InUse
  <2>2. SINK \in Mem /\ SINK \notin heap
    BY <1>1, CellFacts DEF Mem
  <2>3. car[SINK] = NIL /\ cdr[SINK] = NIL
    BY <1>3, <2>2 DEF Init
  <2>4. Roots \subseteq {NIL}
    BY <2>3 DEF Init, Roots, Registers, Recent, Idle
  <2> QED BY <2>1, <2>3, <2>4 DEF LinksInUse, Succ, NIL, SINK, Recent
<1>8. RecentKeepsLocal
  <2>1. Holders = {}
    <3>1. {NIL} \subseteq InUse /\ ~ IsPair(NIL)
      BY CellFacts DEF InUse, IsPair
    <3>2. ASSUME NEW p \in Holders  PROVE p \in {NIL}
      BY <1>7, <3>1 DEF Holders
    <3> QED BY <3>2 DEF Holders
  <2>2. local = {}
    BY DEF Init
  <2> QED BY <2>1, <2>2 DEF RecentKeepsLocal
<1>9. ElementCells /\ PendingOperands
  BY <1>3 DEF Init, ElementCells, PendingOperands, Idle
<1> QED BY <1>5, <1>6, <1>7, <1>8, <1>9 DEF HeapInv

LEMMA PopFreeInv == HeapInv /\ PopFree => HeapInv'
<1> SUFFICES ASSUME HeapInv, PopFree PROVE HeapInv'
  OBVIOUS
<1>0. PICK h : h = free_cell
  OBVIOUS
<1>1. TypeOK /\ FreeListExact /\ LinksInUse
  BY DEF HeapInv
<1>2. /\ WantsCell /\ h # NIL
      /\ free_cell' = cdr[h] /\ fcells' = fcells - 1
      /\ Deliver(h, cdr)
      /\ UNCHANGED <<segs, no_memory, reg>>
  BY <1>0 DEF PopFree
<1>3. /\ Free \subseteq Nat \ {0} /\ Free \subseteq Cell /\ IsFiniteSet(Free)
      /\ FreeList(Free, cdr, h, fcells)
  BY <1>0, <1>1, FreeFacts
<1>4. Free # {}
  BY <1>2, <1>3, FirstIs DEF FreeList
<1>5. /\ h \in Free /\ cdr[h] \in Free \cup {NIL} /\ fcells - 1 \in Nat
  BY <1>3, <1>4, PopList
<1>6. h \in Cell /\ h # SINK /\ h \in Mem /\ SINK \in Mem /\ h \notin InUse
  BY <1>3, <1>5, CellFacts DEF Mem, Free, InUse
<1>7. kind' = [kind EXCEPT ![h] = "pair"] /\ len' = len
  BY <1>2, <1>6 DEF Deliver
<1>8. Free' = Free \ {h} /\ InUse' = InUse \cup {h}
  BY <1>1, <1>6, <1>7 DEF Free, InUse, TypeOK
<1>9. call.a \in InUse /\ call.b \in InUse /\ call.x \in InUse /\ Recent \in InUse
  BY <1>1 DEF LinksInUse, Roots
<1>10. /\ car' \in [Mem -> Ptr] /\ cdr' \in [Mem -> Ptr]
       /\ \A c \in Free \ {h} : cdr'[c] = cdr[c]
  <2>1. /\ call.a \in Ptr /\ call.b \in Ptr /\ call.x \in Ptr /\ h \in Ptr
        /\ car \in [Mem -> Ptr] /\ cdr \in [Mem -> Ptr] /\ Recent \in Ptr
    BY <1>1, <1>6 DEF TypeOK, Call, Ptr, Recent
  <2>2. call.x \notin Free
    BY <1>9, CellFacts DEF InUse, Free
  <2>3. \A c \in Free : c \in Mem /\ c # SINK
    BY <1>3, CellFacts DEF Mem
  <2>4. CASE call.fn = "get_cell"
    <3>1. /\ car' = [car EXCEPT ![h] = call.a]
          /\ cdr' = [cdr EXCEPT ![h] = call.b]
      BY <1>2, <2>4 DEF Deliver
    <3> QED BY <3>1, <2>1, <2>3
  <2>5. CASE call.fn # "get_cell"
    <3> DEFINE cars == [car EXCEPT ![h] = call.x, ![SINK] = h]
               cdrs == [cdr EXCEPT ![h] = Recent]
    <3>1. /\ car' = cars \/ car' = [cars EXCEPT ![call.x] = call.a]
          /\ cdr' = cdrs \/ cdr' = [cdrs EXCEPT ![call.x] = call.b]
      BY <1>2, <1>6, <2>5 DEF Deliver
    <3>2. /\ cars \in [Mem -> Ptr] /\ cdrs \in [Mem -> Ptr]
          /\ \A c \in Free \ {h} : cdrs[c] = cdr[c]
      BY <2>1, <2>3
    <3> HIDE DEF cars, cdrs
    <3> QED BY <3>1, <3>2, <2>1, <2>2, <2>3
  <2> QED BY <2>4, <2>5
<1>11. FreeListExact'
  <2>1. FreeList(Free \ {h}, cdr', cdr[h], fcells - 1)
    BY <1>3, <1>4, <1>10, PopList
  <2> QED BY <2>1, <1>2, <1>8 DEF FreeList, FreeListExact
<1>12. TypeOK'
  <2>1. free_cell' \in Cell \cup {NIL} /\ fcells' \in Nat
    BY <1>2, <1>3, <1>5
  <2>2. kind' \in [Cell -> {"absent", "free", "pair", "vector"}]
    BY <1>1, <1>7 DEF TypeOK
  <2>3. local' \subseteq Ptr /\ call' \in Call
    <3>1. call \in Call /\ call.x \in Ptr /\ local \subseteq Ptr /\ h \in Ptr
      BY <1>1, <1>6 DEF TypeOK, Call, Ptr
    <3>2. CASE call.fn = "get_cell"
      BY <1>2, <3>1, <3>2 DEF Deliver, Call
    <3>3. CASE call.fn # "get_cell"
      BY <1>2, <3>1, <3>3 DEF Deliver, Call, Idle, Ptr
    <3> QED BY <3>2, <3>3
  <2>4. \A c \in Cell : kind'[c] = "absent" <=> \A b \in segs' : c \notin Segment(b)
    BY <1>1, <1>2, <1>5, <1>7 DEF TypeOK, Free
  <2> QED BY <1>1, <1>2, <1>7, <1>10, <2>1, <2>2, <2>3, <2>4 DEF TypeOK
<1>13. LinksInUse'
  <2> DEFINE New == {h, call.a, call.b, call.x, Recent}
  <2>1. /\ h \notin {NIL, SINK}
        /\ \A p \in Mem : /\ p # SINK => car'[p] \in New \cup {car[p]}
                          /\ p = SINK => car'[p] \in New \cup {car[p]}
                          /\ cdr'[p] \in New \cup {cdr[p]}
        /\ car'[h] \in New /\ cdr'[h] \in New
    BY <1>1, <1>2, <1>6 DEF Deliver, TypeOK, Recent, NIL, SINK
  <2>2. ASSUME NEW p \in InUse  PROVE Succ(p)' \subseteq New \cup Succ(p)
    <3>1. p # h
      BY <1>6
    <3>2. p # NIL => p \in Mem
      BY DEF InUse, Mem
    <3>3. p \in Cell => kind'[p] = kind[p] /\ len'[p] = len[p]
      BY <1>1, <1>7, <3>1 DEF TypeOK
    <3> HIDE DEF New
    <3>4. CASE p = NIL
      BY <3>4 DEF Succ
    <3>5. CASE p = SINK
      BY <3>2, <3>5, <2>1 DEF Succ, NIL, SINK
    <3>6. CASE p \in Cell
      BY <3>2, <3>3, <3>6, <2>1 DEF Succ
    <3> QED BY <3>4, <3>5, <3>6 DEF InUse
  <2>3. Succ(h)' \subseteq New
    BY <1>1, <1>6, <1>7, <2>1 DEF Succ, TypeOK
  <2>4. Roots' \subseteq Roots \cup {h, NIL}
    <3>1. Recent' \in {Recent, h, call.a}
      BY <1>1, <1>2, <1>6 DEF Deliver, TypeOK, Recent
    <3>2. Registers' = Registers
      BY <1>2 DEF Registers
    <3>3. local' \subseteq local \cup {call.x}
      BY <1>2 DEF Deliver
    <3>4. call'.a \in {call.a, NIL} /\ call'.b \in {call.b, NIL} /\ call'.x \in {call.x, h, NIL}
      <4>1. call \in Call
        BY <1>1 DEF TypeOK
      <4>2. CASE call.fn = "get_cell"
        BY <1>2, <4>1, <4>2 DEF Deliver, Call
      <4>3. CASE call.fn # "get_cell"
        BY <1>2, <4>3 DEF Deliver, Idle
      <4> QED BY <4>2, <4>3
    <3> QED BY <3>1, <3>2, <3>3, <3>4 DEF Roots
  <2>5. New \subseteq Roots \cup {h}
    BY DEF Roots
  <2>6. Roots \subseteq InUse /\ NIL \in InUse
    BY <1>1 DEF LinksInUse, InUse
  <2>7. ~no_memory' => /\ cdr'[SINK] = NIL
                       /\ SINK \notin Roots'
                       /\ \A p \in InUse' : SINK \notin Succ(p)'
    <3> SUFFICES ASSUME ~no_memory'
                 PROVE  /\ cdr'[SINK] = NIL
                        /\ SINK \notin Roots'
                        /\ \A p \in InUse' : SINK \notin Succ(p)'
      OBVIOUS
    <3>1. /\ cdr[SINK] = NIL /\ SINK \notin Roots
          /\ \A p \in InUse : SINK \notin Succ(p)
      BY <1>1, <1>2 DEF LinksInUse
    <3>2. call.x # SINK
      BY <3>1 DEF Roots
    <3>3. cdr'[SINK] = NIL
      BY <1>1, <1>2, <1>6, <3>1, <3>2 DEF Deliver, TypeOK
    <3>4. SINK \notin Roots' /\ SINK \notin New
      <4>1. SINK \notin {h, NIL}
        BY <2>1, CellFacts
      <4> HIDE DEF New
      <4> QED BY <4>1, <2>4, <2>5, <3>1
    <3>5. \A p \in InUse' : SINK \notin Succ(p)'
      <4> HIDE DEF New
      <4>1. ASSUME NEW p \in InUse  PROVE SINK \notin Succ(p)'
        BY <2>2, <3>1, <3>4
      <4>2. SINK \notin Succ(h)'
        BY <2>3, <3>4
      <4> QED BY <1>8, <4>1, <4>2
    <3> QED BY <3>3, <3>4, <3>5
  <2>8. \A p \in InUse' : Succ(p)' \subseteq InUse'
    <3>1. \A p \in InUse : Succ(p) \subseteq InUse
      BY <1>1 DEF LinksInUse
    <3>2. New \subseteq InUse'
      BY <1>8, <2>5, <2>6
    <3> HIDE DEF New
    <3>3. ASSUME NEW p \in InUse  PROVE Succ(p)' \subseteq InUse'
      BY <1>8, <2>2, <3>1, <3>2
    <3>4. Succ(h)' \subseteq InUse'
      BY <2>3, <3>2
    <3> QED BY <1>8, <3>3, <3>4
  <2>9. Roots' \subseteq InUse'
    BY <1>8, <2>4, <2>6
  <2> QED BY <2>7, <2>8, <2>9 DEF LinksInUse
<1>14. ElementCells'
  <2>1. ASSUME NEW v \in Cell, kind'[v] = "vector", NEW c \in Succ(v)'
        PROVE  c \in Cell /\ kind'[c] = "pair"
    <3>1. kind[v] = "vector" /\ v # NIL /\ v # SINK
      BY <1>1, <1>7, <2>1, CellFacts DEF TypeOK
    <3>2. c \in Succ(v)
      BY <1>7, <2>1, <3>1 DEF Succ
    <3>3. c \in Cell /\ kind[c] = "pair"
      BY <3>1, <3>2 DEF HeapInv, ElementCells
    <3> QED BY <1>1, <1>7, <3>3 DEF TypeOK
  <2> QED BY <2>1 DEF ElementCells
<1>15. PendingOperands'
  <2>1. CASE call.fn = "get_cell"
    <3>1. /\ call' = [call EXCEPT !.fn = "hold_cons", !.x = h, !.stage = "take"]
          /\ car' = [car EXCEPT ![h] = call.a] /\ cdr' = [cdr EXCEPT ![h] = call.b]
      BY <1>2, <2>1 DEF Deliver
    <3>2. /\ call'.fn = "hold_cons" /\ call'.x = h /\ call'.a = call.a
          /\ call'.b = call.b /\ car'[h] = call.a /\ cdr'[h] = call.b
          /\ kind'[h] = "pair"
      BY <1>1, <1>6, <1>7, <3>1 DEF TypeOK, Call
    <3> QED BY <1>6, <3>2 DEF PendingOperands, IsPair
  <2>2. CASE call.fn # "get_cell"
    <3>1. call' = Idle
      BY <1>2, <2>2 DEF Deliver
    <3> QED BY <3>1 DEF PendingOperands, Idle
  <2> QED BY <2>1, <2>2
<1>16. RecentKeepsLocal'
  <2> SUFFICES ASSUME ~no_memory  PROVE RecentKeepsLocal'
    BY <1>2 DEF RecentKeepsLocal
  <2>1. /\ \A p \in local : p = NIL \/ \E g \in Holders : car[g] = p
        /\ \A g \in Holders : g # SINK /\ IsPair(g) /\ car[g] \notin Holders
        /\ \A p \in InUse \ (Holders \cup {SINK}) : Succ(p) \cap Holders = {}
        /\ (Registers \cup local \cup {call.a, call.b, call.x}) \cap Holders = {}
    BY DEF HeapInv, RecentKeepsLocal
  <2>2. /\ Holders \subseteq InUse \ {NIL} /\ h \notin Holders
        /\ \A g \in Holders : g \in Mem /\ g \in Cell /\ g # h /\ car[g] \in InUse
    <3>1. Holders \subseteq InUse \ {NIL} /\ h \notin Holders
      BY <1>1, <1>6, HoldersFacts
    <3>2. \A g \in Holders : g \in Mem /\ g \in Cell
      BY <2>1, <3>1 DEF InUse, Mem
    <3>3. \A g \in Holders : car[g] \in InUse
      <4>1. \A g \in Holders : car[g] \in Succ(g)
        BY <2>1, <3>1, CellFacts DEF Succ, IsPair
      <4> QED BY <1>1, <3>1, <4>1 DEF LinksInUse
    <3> QED BY <3>1, <3>2, <3>3
  <2>3. \A p : p # h => IsPair(p)' = IsPair(p)
    BY <1>1, <1>7 DEF IsPair, TypeOK
  <2>4. Registers' = Registers /\ call.x # SINK
    BY <1>1, <1>2 DEF Registers, LinksInUse, Roots
  <2>5. CASE call.fn = "get_cell"
    <3>1. /\ car' = [car EXCEPT ![h] = call.a] /\ cdr' = [cdr EXCEPT ![h] = call.b]
          /\ local' = local /\ call'.a = call.a /\ call'.b = call.b /\ call'.x = h
      <4>1. call' = [call EXCEPT !.fn = "hold_cons", !.x = h, !.stage = "take"]
        BY <1>2, <2>5 DEF Deliver
      <4> QED BY <1>1, <1>2, <2>5, <4>1 DEF Deliver, TypeOK, Call
    <3>2. /\ \A p \in Mem : p # h => car'[p] = car[p] /\ cdr'[p] = cdr[p]
          /\ car'[h] = call.a /\ cdr'[h] = call.b
      BY <1>1, <1>6, <3>1 DEF TypeOK
    <3>3. Holders' = Holders
      <4>1. Recent' = Recent
        BY <1>6, <3>2 DEF Recent
      <4>2. \A g \in Holders : IsPair(g) /\ IsPair(g)' /\ cdr'[g] = cdr[g]
        BY <2>1, <2>2, <2>3, <3>2
      <4> QED BY <1>1, <1>8, <2>2, <4>1, <4>2, HoldersStable
    <3>4. ASSUME NEW p \in InUse' \ (Holders \cup {SINK})
          PROVE  Succ(p)' \cap Holders = {}
      <4>1. CASE p = h
        <5>1. Succ(h)' = {call.a, call.b}
          BY <1>1, <1>6, <1>7, <3>2, CellFacts DEF Succ, TypeOK
        <5> QED BY <2>1, <4>1, <5>1
      <4>2. CASE p # h
        <5>1. p \in InUse \ (Holders \cup {SINK})
          BY <1>8, <3>4, <4>2
        <5>2. p \in Cell \/ p = NIL
          BY <5>1 DEF InUse
        <5>3. Succ(p)' = Succ(p)
          BY <1>1, <1>7, <3>2, <4>2, <5>2 DEF Succ, TypeOK, Mem
        <5> QED BY <2>1, <5>1, <5>3
      <4> QED BY <4>1, <4>2
    <3>5. \A g \in Holders : car'[g] = car[g]
      BY <2>2, <3>2
    <3>6. \A p \in local' : p = NIL \/ \E g \in Holders' : car'[g] = p
      BY <2>1, <3>1, <3>3, <3>5
    <3>7. \A g \in Holders' : g # SINK /\ IsPair(g)' /\ car'[g] \notin Holders'
      BY <2>1, <2>2, <2>3, <3>3, <3>5
    <3>8. (Registers' \cup local' \cup {call'.a, call'.b, call'.x}) \cap Holders' = {}
      BY <2>1, <2>2, <2>4, <3>1, <3>3
    <3> QED BY <3>3, <3>4, <3>6, <3>7, <3>8 DEF RecentKeepsLocal
  <2>6. CASE call.fn # "get_cell"
    <3> DEFINE cars == [car EXCEPT ![h] = call.x, ![SINK] = h]
               cdrs == [cdr EXCEPT ![h] = Recent]
    <3>1. /\ \/ car' = cars /\ cdr' = cdrs
             \/ /\ call.fn = "hold_cons"
                /\ car' = [cars EXCEPT ![call.x] = call.a]
                /\ cdr' = [cdrs EXCEPT ![call.x] = call.b]
          /\ local' = local \cup {call.x} /\ call' = Idle
      BY <1>2, <1>6, <2>6 DEF Deliver
    <3>2. call.fn = "hold_cons" => car[call.x] = call.a /\ cdr[call.x] = call.b
      BY <2>4 DEF HeapInv, PendingOperands
    <3>3. call.x # h
      BY <1>6, <1>9
    <3>4. /\ \A p \in Mem : p # h => cdr'[p] = cdr[p]
          /\ \A p \in Mem : p # h /\ p # SINK => car'[p] = car[p]
          /\ car'[h] = call.x /\ cdr'[h] = Recent /\ car'[SINK] = h
      <4>1. /\ \A p \in Mem : p # h => cdrs[p] = cdr[p]
            /\ \A p \in Mem : p # h /\ p # SINK => cars[p] = car[p]
            /\ cars[h] = call.x /\ cdrs[h] = Recent /\ cars[SINK] = h
            /\ cars \in [Mem -> Ptr] /\ cdrs \in [Mem -> Ptr]
        <5>1. h \in Ptr /\ Recent \in Ptr /\ call.x \in Ptr
          BY <1>1, <1>6 DEF TypeOK, Ptr, Recent, Call
        <5> QED BY <1>1, <1>6, <5>1 DEF TypeOK
      <4> HIDE DEF cars, cdrs
      <4> QED BY <2>4, <3>1, <3>2, <3>3, <4>1
    <3>5. Holders' = Holders \cup {h}
      <4>1. Recent' = h
        BY <3>4 DEF Recent
      <4>2. IsPair(h)'
        BY <1>1, <1>6, <1>7 DEF IsPair, TypeOK
      <4>3. ASSUME NEW q \in InUse
            PROVE  (IsPair(q)' <=> IsPair(q)) /\ (IsPair(q) => cdr'[q] = cdr[q])
        BY <1>6, <2>3, <3>4 DEF IsPair, Mem
      <4> QED BY <1>1, <1>6, <1>8, <3>4, <4>1, <4>2, <4>3, HoldersPush
    <3>6. \A g \in Holders : car'[g] = car[g]
      BY <2>1, <2>2, <3>4
    <3>7. \A p \in local' : p = NIL \/ \E g \in Holders' : car'[g] = p
      BY <2>1, <3>1, <3>4, <3>5, <3>6
    <3>8. \A g \in Holders' : g # SINK /\ IsPair(g)' /\ car'[g] \notin Holders'
      <4>1. ASSUME NEW g \in Holders
            PROVE  g # SINK /\ IsPair(g)' /\ car'[g] \notin Holders \cup {h}
        BY <1>6, <2>1, <2>2, <2>3, <3>6
      <4>2. h # SINK /\ IsPair(h)' /\ car'[h] \notin Holders \cup {h}
        BY <1>1, <1>6, <1>7, <2>1, <3>3, <3>4 DEF IsPair, TypeOK
      <4> QED BY <3>5, <4>1, <4>2
    <3>9. ASSUME NEW p \in InUse' \ (Holders' \cup {SINK})
          PROVE  Succ(p)' \cap Holders' = {}
      <4>1. p \in InUse \ (Holders \cup {SINK}) /\ p # h
        BY <1>8, <3>5, <3>9
      <4>2. p \in Cell \/ p = NIL
        BY <4>1 DEF InUse
      <4>3. Succ(p)' = Succ(p)
        BY <1>1, <1>7, <3>4, <4>1, <4>2 DEF Succ, TypeOK, Mem
      <4>4. Succ(p) \subseteq InUse
        BY <1>1, <4>1 DEF LinksInUse
      <4> QED BY <1>6, <2>1, <3>5, <4>1, <4>3, <4>4
    <3>10. (Registers' \cup local' \cup {call'.a, call'.b, call'.x}) \cap Holders' = {}
      <4>1. call'.a = NIL /\ call'.b = NIL /\ call'.x = NIL
        BY <3>1 DEF Idle
      <4>2. (Registers \cup local \cup {call.x}) \subseteq InUse
        BY <1>1 DEF LinksInUse, Roots
      <4>3. NIL \notin Holders \cup {h}
        BY <1>2, <2>2
      <4> QED BY <1>6, <2>1, <2>4, <3>1, <3>5, <4>1, <4>2, <4>3
    <3> QED BY <3>5, <3>7, <3>8, <3>9, <3>10 DEF RecentKeepsLocal
  <2> QED BY <2>5, <2>6
<1> QED BY <1>11, <1>12, <1>13, <1>14, <1>15, <1>16 DEF HeapInv

LEMMA GrowFailsInv == HeapInv /\ GrowFails => HeapInv'
<1> SUFFICES ASSUME HeapInv, GrowFails PROVE HeapInv'
  OBVIOUS
<1>1. /\ UNCHANGED <<memory, segs, freeList, no_memory, reg, local>>
      /\ call' = [call EXCEPT !.stage = "ready"] /\ WantsCell
  BY DEF GrowFails
<1>2. TypeOK /\ call \in Call
  BY DEF HeapInv, TypeOK
<1>3. /\ call' \in Call /\ call'.fn = call.fn /\ call'.n = call.n
      /\ call'.a = call.a /\ call'.b = call.b /\ call'.x = call.x
  BY <1>1, <1>2 DEF Call
<1>4. PendingOperands'
  <2>1. car' = car /\ cdr' = cdr /\ kind' = kind
    BY <1>1 DEF memory
  <2> QED BY <1>1, <1>3, <2>1 DEF HeapInv, PendingOperands, WantsCell, IsPair
<1>5. Registers' = Registers
  BY <1>1 DEF Registers
<1> QED BY <1>1, <1>2, <1>3, <1>4, <1>5, SameMemoryInv DEF TypeOK

(* The opcode's own calls: the operands are values it holds.               *)
LEMMA CallsInv ==
  ASSUME HeapInv,
         \/ \E a \in local \cup {NIL}, b \in Registers : cons(a, b)
         \/ \E n \in 0 .. MaxVec : mk_vector(n)
         \/ \E r \in Regs : push_recent_alloc(r)
  PROVE  HeapInv'
<1>1. /\ UNCHANGED <<memory, segs, freeList, no_memory, reg, local>>
      /\ \/ \E a \in local \cup {NIL}, b \in Registers :
              call' = [Idle EXCEPT !.fn = "get_cell", !.a = a, !.b = b]
         \/ \E n \in 0 .. MaxVec :
              call' = [Idle EXCEPT !.fn = "get_vector_object", !.n = n + 1]
         \/ \E r \in Regs : call' = [Idle EXCEPT !.fn = "hold", !.x = reg[r]]
  BY DEF cons, mk_vector, push_recent_alloc
<1>2. /\ reg \in [Regs -> Ptr] /\ local \subseteq Ptr /\ NIL \in Ptr
      /\ Registers \subseteq Ptr /\ MaxVec \in Nat
  BY HeapAssumption DEF HeapInv, TypeOK, Ptr, Registers
<1>3. Registers' = Registers
  BY <1>1 DEF Registers
<1>4. /\ call' \in Call /\ PendingOperands'
      /\ {call'.a, call'.b, call'.x} \subseteq Registers \cup local \cup {NIL}
  <2>1. CASE \E a \in local \cup {NIL}, b \in Registers :
               call' = [Idle EXCEPT !.fn = "get_cell", !.a = a, !.b = b]
    <3>1. PICK a \in local \cup {NIL}, b \in Registers :
            call' = [Idle EXCEPT !.fn = "get_cell", !.a = a, !.b = b]
      BY <2>1
    <3>2. /\ call'.fn = "get_cell" /\ call'.a = a /\ call'.b = b /\ call'.x = NIL
          /\ call' = [fn |-> "get_cell", a |-> a, b |-> b, n |-> 0, x |-> NIL,
                      stage |-> "take"]
      BY <3>1 DEF Idle
    <3>3. call' \in Call
      BY <1>2, <3>2 DEF Call
    <3> QED BY <3>2, <3>3 DEF PendingOperands
  <2>2. CASE \E n \in 0 .. MaxVec :
               call' = [Idle EXCEPT !.fn = "get_vector_object", !.n = n + 1]
    <3>1. PICK n \in 0 .. MaxVec :
            call' = [Idle EXCEPT !.fn = "get_vector_object", !.n = n + 1]
      BY <2>2
    <3>2. /\ call'.fn = "get_vector_object" /\ call'.n = n + 1
          /\ call'.a = NIL /\ call'.b = NIL /\ call'.x = NIL
          /\ call' = [fn |-> "get_vector_object", a |-> NIL, b |-> NIL, n |-> n + 1,
                      x |-> NIL, stage |-> "take"]
      BY <3>1 DEF Idle
    <3>3. n \in Nat /\ n + 1 \in Nat /\ n + 1 # 0
      BY <1>2
    <3>4. call' \in Call
      BY <1>2, <3>2, <3>3 DEF Call
    <3> QED BY <3>2, <3>3, <3>4 DEF PendingOperands
  <2>3. CASE \E r \in Regs : call' = [Idle EXCEPT !.fn = "hold", !.x = reg[r]]
    <3>1. PICK r \in Regs : call' = [Idle EXCEPT !.fn = "hold", !.x = reg[r]]
      BY <2>3
    <3>2. /\ call'.fn = "hold" /\ call'.x = reg[r] /\ call'.a = NIL /\ call'.b = NIL
          /\ call' = [fn |-> "hold", a |-> NIL, b |-> NIL, n |-> 0, x |-> reg[r],
                      stage |-> "take"]
      BY <3>1 DEF Idle
    <3>3. reg[r] \in Registers
      BY DEF Registers
    <3>4. call' \in Call
      BY <1>2, <3>2, <3>3 DEF Call
    <3> QED BY <3>2, <3>3, <3>4 DEF PendingOperands
  <2> QED BY <1>1, <2>1, <2>2, <2>3
<1> QED BY <1>1, <1>2, <1>3, <1>4, SameMemoryInv

LEMMA SetRegisterInv ==
  ASSUME HeapInv, NEW r \in Regs,
         NEW p \in Held \cup UNION {Elements(h) : h \in Held}, SetRegister(r, p)
  PROVE  HeapInv'
<1>1. /\ UNCHANGED <<memory, segs, freeList, no_memory, local, call>>
      /\ reg' = [reg EXCEPT ![r] = p]
  BY DEF SetRegister
<1>2. /\ reg \in [Regs -> Ptr] /\ call \in Call
  BY DEF HeapInv, TypeOK
<1>3. Held \subseteq Roots \cup {NIL} /\ Roots \subseteq InUse /\ NIL \in InUse
  BY DEF Held, Roots, HeapInv, LinksInUse, InUse
<1>4. \A q \in InUse : Succ(q) \subseteq InUse
  BY DEF HeapInv, LinksInUse
<1>5. ASSUME NEW h \in Held, p \in Elements(h)
      PROVE  p \in InUse /\ (~no_memory => p \notin Holders \cup {SINK})
  <2>1. h \in InUse /\ Succ(h) \subseteq InUse
    BY <1>3, <1>4
  <2>2. ~no_memory => /\ h \notin Holders \cup {SINK}
                      /\ Succ(h) \cap (Holders \cup {SINK}) = {}
    <3>1. SUFFICES ASSUME ~no_memory
          PROVE /\ h \notin Holders \cup {SINK}
                /\ Succ(h) \cap (Holders \cup {SINK}) = {}
      OBVIOUS
    <3>2. SINK \notin Roots /\ SINK \notin Succ(h)
      BY <2>1, <3>1 DEF HeapInv, LinksInUse
    <3>3. h \notin Holders /\ h # SINK
      BY <1>3, <3>1, <3>2, CellFacts DEF HeapInv, RecentKeepsLocal, Held, Holders
    <3>4. Succ(h) \cap Holders = {}
      BY <2>1, <3>1, <3>3 DEF HeapInv, RecentKeepsLocal
    <3> QED BY <3>2, <3>3, <3>4
  <2>3. CASE h \in Cell /\ kind[h] = "vector"
    <3>1. PICK c \in Succ(h) : p = car[c] \/ p = cdr[c]
      BY <1>5, <2>3 DEF Elements
    <3>2. c \in Cell /\ kind[c] = "pair"
      BY <2>3 DEF HeapInv, ElementCells
    <3>3. p \in Succ(c)
      BY <3>1, <3>2, CellFacts DEF Succ
    <3>4. c \in InUse /\ (~no_memory => c \notin Holders \cup {SINK})
      BY <2>1, <2>2
    <3>5. ~no_memory => Succ(c) \cap Holders = {} /\ SINK \notin Succ(c)
      BY <3>4 DEF HeapInv, LinksInUse, RecentKeepsLocal
    <3> QED BY <1>4, <3>3, <3>4, <3>5
  <2>4. CASE ~ (h \in Cell /\ kind[h] = "vector")
    <3>1. p \in Succ(h)
      BY <1>5, <2>4 DEF Elements
    <3> QED BY <2>1, <2>2, <3>1
  <2> QED BY <2>3, <2>4
<1>6. p \in Held \/ (p \in InUse /\ (~no_memory => p \notin Holders \cup {SINK}))
  BY <1>5
<1>7. Registers' \subseteq Registers \cup {p}
  BY <1>1, <1>2 DEF Registers
<1>8. p \in Ptr
  BY <1>3, <1>6 DEF InUse, Ptr, Mem
<1>9. PendingOperands'
  <2>1. call' = call /\ call.fn = "none"
    BY <1>1 DEF SetRegister, Quiet
  <2> QED BY <2>1 DEF HeapInv, PendingOperands, Idle
<1>10. Registers' \cup {call'.a, call'.b, call'.x}
           \subseteq Registers \cup local \cup {call.a, call.b, call.x, NIL}
                    \cup (InUse \ (Holders \cup {SINK}))
                    \cup (IF no_memory THEN InUse ELSE {})
  BY <1>1, <1>6, <1>7 DEF Held
<1>11. reg' \in [Regs -> Ptr] /\ call' \in Call /\ local' \subseteq local
  BY <1>1, <1>2, <1>8
<1> QED BY <1>1, <1>9, <1>10, <1>11, SameMemoryInv

LEMMA SetFieldInv ==
  ASSUME HeapInv, NEW h \in Registers, NEW c \in Fields(h), NEW p \in Held,
         SetField(c, p)
  PROVE  HeapInv'
<1>1. TypeOK /\ FreeListExact /\ LinksInUse
  BY DEF HeapInv
<1>2. /\ UNCHANGED <<kind, len, segs, freeList, no_memory, reg, local, call>>
      /\ \/ car' = [car EXCEPT ![c] = p] /\ cdr' = cdr
         \/ cdr' = [cdr EXCEPT ![c] = p] /\ car' = car
      /\ Quiet
  BY DEF SetField
<1>3. kind' = kind /\ len' = len /\ free_cell' = free_cell /\ fcells' = fcells
      /\ segs' = segs
  BY <1>2 DEF freeList
<1>4. /\ Free' = Free /\ InUse' = InUse /\ \A q : IsPair(q)' = IsPair(q)
  BY <1>3 DEF Free, InUse, IsPair
<1>5. /\ h \in InUse /\ p \in InUse /\ Held \subseteq Roots \cup {NIL}
      /\ \A q \in InUse : Succ(q) \subseteq InUse
  BY <1>1 DEF LinksInUse, Held, Roots, InUse
<1>6. /\ IsPair(c) /\ c \in InUse /\ c \in Mem /\ c \notin Free
      /\ ~no_memory => c # SINK /\ c \notin Holders
      /\ ~no_memory => p # SINK /\ p \notin Holders
  <2>0. ~no_memory => p # SINK /\ p \notin Holders
    BY <1>1, <1>5, CellFacts DEF HeapInv, LinksInUse, RecentKeepsLocal, Held, Holders
  <2>1. CASE IsPair(h)
    <3>1. c = h
      BY <2>1 DEF Fields
    <3>2. ~no_memory => c # SINK /\ c \notin Holders
      BY <1>1, <3>1 DEF HeapInv, LinksInUse, Roots, RecentKeepsLocal
    <3> QED BY <1>5, <2>0, <2>1, <3>1, <3>2, CellFacts DEF IsPair, Mem, Free
  <2>2. CASE ~IsPair(h)
    <3>1. h \in Cell /\ c \in Succ(h)
      BY <2>2 DEF Fields
    <3>2. kind[h] = "vector"
      BY <2>2, <3>1, CellFacts DEF Succ, IsPair
    <3>3. c \in Cell /\ kind[c] = "pair"
      BY <3>1, <3>2 DEF HeapInv, ElementCells
    <3>4. ~no_memory => h \notin Holders /\ h # SINK
      BY <3>1, CellFacts DEF HeapInv, RecentKeepsLocal
    <3>5. ~no_memory => c \notin Holders
      BY <1>5, <3>1, <3>4 DEF HeapInv, RecentKeepsLocal
    <3> QED BY <1>5, <2>0, <3>1, <3>3, <3>5, CellFacts DEF IsPair, Mem, Free
  <2> QED BY <2>1, <2>2
<1>7. /\ \A q \in Mem : q # c => car'[q] = car[q] /\ cdr'[q] = cdr[q]
      /\ car'[c] \in {p, car[c]} /\ cdr'[c] \in {p, cdr[c]}
      /\ car' \in [Mem -> Ptr] /\ cdr' \in [Mem -> Ptr]
  <2>1. p \in Ptr /\ car \in [Mem -> Ptr] /\ cdr \in [Mem -> Ptr]
    BY <1>1, <1>5 DEF InUse, Ptr, Mem, TypeOK
  <2> QED BY <1>2, <1>6, <2>1
<1>8. TypeOK'
  BY <1>1, <1>2, <1>3, <1>7 DEF TypeOK
<1>9. FreeListExact'
  <2>1. \A d \in Free : cdr'[d] = cdr[d]
    BY <1>6, <1>7 DEF Free, Mem
  <2> QED BY <1>1, <1>3, <1>4, <2>1 DEF FreeListExact
<1>10. ASSUME NEW q \in InUse
       PROVE  /\ Succ(q)' \subseteq Succ(q) \cup {p}
              /\ q # c => Succ(q)' = Succ(q)
  <2>1. CASE q = NIL
    BY <1>6, <2>1, CellFacts DEF Succ, IsPair
  <2>2. CASE q # NIL /\ IsPair(q)
    <3>1. Succ(q) = {car[q], cdr[q]} /\ Succ(q)' = {car'[q], cdr'[q]} /\ q \in Mem
      BY <1>3, <2>2 DEF Succ, IsPair, Mem
    <3> QED BY <1>7, <3>1
  <2>3. CASE q # NIL /\ ~IsPair(q)
    <3>1. q # SINK /\ q # c /\ kind[q] # "pair"
      BY <1>6, <2>3 DEF IsPair, InUse
    <3> QED BY <1>3, <2>3, <3>1 DEF Succ
  <2> QED BY <2>1, <2>2, <2>3
<1>11. Roots' \subseteq Roots \cup {p} /\ (~no_memory => Recent' = Recent /\ Roots' = Roots)
  <2>1. SINK \in Mem
    BY DEF Mem
  <2>2. Recent' \in {Recent, p} /\ (~no_memory => Recent' = Recent)
    BY <1>6, <1>7, <2>1 DEF Recent
  <2> QED BY <1>2, <2>2 DEF Roots, Registers
<1>12. LinksInUse'
  <2>1. \A q \in InUse : Succ(q)' \subseteq InUse
    BY <1>5, <1>10
  <2>2. Roots' \subseteq InUse
    BY <1>1, <1>5, <1>11 DEF LinksInUse
  <2>3. ASSUME ~no_memory
        PROVE  /\ cdr'[SINK] = NIL /\ SINK \notin Roots'
               /\ \A q \in InUse : SINK \notin Succ(q)'
    BY <1>1, <1>6, <1>7, <1>10, <1>11, <2>3 DEF LinksInUse, Mem
  <2> QED BY <1>2, <1>4, <2>1, <2>2, <2>3 DEF LinksInUse
<1>13. ElementCells'
  <2>1. \A v \in Cell : kind[v] = "vector" => Succ(v)' = Succ(v)
    BY <1>3, CellFacts DEF Succ
  <2> QED BY <1>3, <2>1 DEF HeapInv, ElementCells
<1>14. PendingOperands'
  BY <1>2 DEF HeapInv, PendingOperands, Quiet, Idle
<1>15. RecentKeepsLocal'
  <2> SUFFICES ASSUME ~no_memory  PROVE RecentKeepsLocal'
    BY <1>2 DEF RecentKeepsLocal
  <2>1. /\ \A q \in local : q = NIL \/ \E g \in Holders : car[g] = q
        /\ \A g \in Holders : g # SINK /\ IsPair(g) /\ car[g] \notin Holders
        /\ \A q \in InUse \ (Holders \cup {SINK}) : Succ(q) \cap Holders = {}
        /\ (Registers \cup local \cup {call.a, call.b, call.x}) \cap Holders = {}
    BY DEF HeapInv, RecentKeepsLocal
  <2>2. \A g \in Holders : g \in Mem /\ g # c /\ car'[g] = car[g] /\ cdr'[g] = cdr[g]
    BY <1>1, <1>6, <1>7, HoldersFacts DEF InUse, Mem
  <2>3. Holders' = Holders
    BY <1>1, <1>4, <1>11, <2>1, <2>2, HoldersFacts, HoldersStable
  <2>4. \A q \in InUse \ (Holders \cup {SINK}) : Succ(q)' \cap Holders = {}
    BY <1>6, <1>10, <2>1
  <2>5. Registers' = Registers /\ local' = local /\ call' = call
    BY <1>2 DEF Registers
  <2> QED BY <1>4, <2>1, <2>2, <2>3, <2>4, <2>5 DEF RecentKeepsLocal
<1> QED BY <1>8, <1>9, <1>12, <1>13, <1>14, <1>15 DEF HeapInv

LEMMA ok_to_freely_gcInv == HeapInv /\ ok_to_freely_gc => HeapInv'
<1> SUFFICES ASSUME HeapInv, ok_to_freely_gc PROVE HeapInv'
  OBVIOUS
<1>1. TypeOK /\ FreeListExact /\ LinksInUse
  BY DEF HeapInv
<1>2. /\ UNCHANGED <<kind, len, cdr, segs, freeList, no_memory, reg, call>>
      /\ car' = [car EXCEPT ![SINK] = NIL] /\ local' = {} /\ Quiet
  BY DEF ok_to_freely_gc
<1>3. /\ kind' = kind /\ len' = len /\ free_cell' = free_cell /\ fcells' = fcells
      /\ cdr' = cdr /\ call' = call /\ reg' = reg /\ segs' = segs
  BY <1>2 DEF freeList
<1>4. /\ Free' = Free /\ InUse' = InUse /\ \A q : IsPair(q)' = IsPair(q)
  BY <1>3 DEF Free, InUse, IsPair
<1>5. /\ car' \in [Mem -> Ptr] /\ car'[SINK] = NIL
      /\ \A q \in Mem : q # SINK => car'[q] = car[q]
  BY <1>1, <1>2 DEF TypeOK, Mem, Ptr
<1>6. TypeOK'
  BY <1>1, <1>2, <1>3, <1>5 DEF TypeOK
<1>7. FreeListExact'
  BY <1>1, <1>3, <1>4 DEF FreeListExact
<1>8. \A q \in InUse : Succ(q)' \subseteq Succ(q) \cup {NIL}
  <2>1. ASSUME NEW q \in InUse  PROVE Succ(q)' \subseteq Succ(q) \cup {NIL}
    <3>1. CASE q = SINK
      BY <1>3, <1>5, <3>1 DEF Succ, NIL, SINK
    <3>2. CASE q # SINK
      BY <1>3, <1>5, <3>2 DEF Succ, InUse, Mem
    <3> QED BY <3>1, <3>2
  <2> QED BY <2>1
<1>9. LinksInUse'
  <2>1. Roots' \subseteq Roots \cup {NIL}
    BY <1>2, <1>3, <1>5 DEF Roots, Registers, Recent
  <2>2. NIL \in InUse /\ SINK # NIL
    BY CellFacts DEF InUse
  <2> QED BY <1>1, <1>2, <1>3, <1>4, <1>8, <2>1, <2>2 DEF LinksInUse
<1>10. ElementCells'
  <2>1. \A v \in Cell : kind[v] = "vector" => Succ(v)' = Succ(v)
    BY <1>3, CellFacts DEF Succ
  <2> QED BY <1>3, <2>1 DEF HeapInv, ElementCells
<1>11. PendingOperands'
  BY <1>2 DEF HeapInv, PendingOperands, Quiet, Idle
<1>12. Holders' = {}
  <2>1. {NIL} \subseteq InUse' /\ ~ IsPair(NIL)'
    BY CellFacts DEF InUse, IsPair
  <2>2. Recent' = NIL
    BY <1>5 DEF Recent
  <2>3. ASSUME NEW p \in Holders'  PROVE p \in {NIL}
    BY <2>1, <2>2, <2>3 DEF Holders
  <2> QED BY <2>3 DEF Holders
<1>13. RecentKeepsLocal'
  BY <1>2, <1>12 DEF RecentKeepsLocal
<1> QED BY <1>6, <1>7, <1>9, <1>10, <1>11, <1>13 DEF HeapInv

(* NoRun hands out the sink for want of a run of cells.                    *)
LEMMA NoRunInv == HeapInv /\ NoRun => HeapInv'
<1> SUFFICES ASSUME HeapInv, NoRun PROVE HeapInv'
  OBVIOUS
<1>1. /\ UNCHANGED <<memory, segs, freeList, reg>>
      /\ no_memory' = TRUE /\ local' = local \cup {SINK} /\ call' = Idle
  BY DEF NoRun
<1>2. /\ kind' = kind /\ len' = len /\ car' = car /\ cdr' = cdr
      /\ free_cell' = free_cell /\ fcells' = fcells
  BY <1>1 DEF memory, freeList
<1>3. /\ Free' = Free /\ InUse' = InUse /\ Recent' = Recent
      /\ \A p : Succ(p)' = Succ(p)
  BY <1>1, SameMemory
<1>4. TypeOK'
  <2>1. SINK \in Ptr /\ NIL \in Ptr
    BY DEF Ptr, Mem
  <2>2. Idle \in Call
    BY <2>1 DEF Idle, Call
  <2> QED BY <1>1, <1>2, <2>1, <2>2 DEF HeapInv, TypeOK
<1>5. FreeListExact' /\ ElementCells'
  BY <1>2, <1>3 DEF HeapInv, FreeListExact, ElementCells
<1>6. LinksInUse'
  <2>1. Roots' \subseteq Roots \cup {SINK, NIL}
    BY <1>1, <1>3 DEF Roots, Registers, Idle
  <2>2. {SINK, NIL} \subseteq InUse
    BY DEF InUse
  <2> QED BY <1>1, <1>3, <2>1, <2>2 DEF HeapInv, LinksInUse
<1>7. RecentKeepsLocal' /\ PendingOperands'
  BY <1>1 DEF RecentKeepsLocal, PendingOperands, Idle
<1> QED BY <1>4, <1>5, <1>6, <1>7 DEF HeapInv

(* get_cell_x hands out the sink: no free cell is left.                    *)
LEMMA DeliverSinkInv == HeapInv /\ DeliverSink => HeapInv'
<1> SUFFICES ASSUME HeapInv, DeliverSink PROVE HeapInv'
  OBVIOUS
<1>1. TypeOK /\ FreeListExact /\ LinksInUse
  BY DEF HeapInv
<1>2. /\ no_memory' = TRUE /\ UNCHANGED <<segs, freeList, reg>>
      /\ Deliver(SINK, cdr) /\ WantsCell
  BY DEF DeliverSink
<1>3. kind' = kind /\ len' = len /\ free_cell' = free_cell /\ fcells' = fcells
      /\ segs' = segs /\ reg' = reg
  BY <1>2 DEF Deliver, freeList
<1>4. Free' = Free /\ InUse' = InUse
  BY <1>3 DEF Free, InUse
<1> DEFINE New == {SINK, call.a, call.b, call.x, Recent}
<1>5. New \subseteq InUse /\ New \subseteq Ptr /\ NIL \in InUse
  BY <1>1 DEF LinksInUse, Roots, InUse, Ptr, Mem
<1>6. /\ car' \in [Mem -> Ptr] /\ cdr' \in [Mem -> Ptr]
      /\ \A q \in Mem : car'[q] \in New \cup {car[q]} /\ cdr'[q] \in New \cup {cdr[q]}
      /\ \A q \in Free : cdr'[q] = cdr[q]
  <2>1. car \in [Mem -> Ptr] /\ cdr \in [Mem -> Ptr] /\ SINK \in Mem
    BY <1>1 DEF TypeOK, Mem
  <2>2. call.x \notin Free /\ SINK \notin Free /\ Free \subseteq Mem
    BY <1>5, CellFacts DEF InUse, Free, Mem
  <2>3. CASE call.fn = "get_cell"
    <3>1. car' = [car EXCEPT ![SINK] = call.a] /\ cdr' = [cdr EXCEPT ![SINK] = call.b]
      BY <1>2, <2>3 DEF Deliver
    <3> QED BY <1>5, <2>1, <2>2, <3>1
  <2>4. CASE call.fn # "get_cell"
    <3> DEFINE cars == [car EXCEPT ![SINK] = call.x, ![SINK] = SINK]
               cdrs == [cdr EXCEPT ![SINK] = call.x]
    <3>1. \/ car' = cars /\ cdr' = cdrs
          \/ car' = [cars EXCEPT ![call.x] = call.a] /\ cdr' = [cdrs EXCEPT ![call.x] = call.b]
      BY <1>2, <2>4 DEF Deliver
    <3>2. /\ cars \in [Mem -> Ptr] /\ cdrs \in [Mem -> Ptr]
          /\ \A q \in Mem : cars[q] \in New \cup {car[q]} /\ cdrs[q] \in New \cup {cdr[q]}
          /\ \A q \in Free : cdrs[q] = cdr[q]
      BY <1>5, <2>1, <2>2
    <3>3. call.a \in New \cap Ptr /\ call.b \in New \cap Ptr
      BY <1>5
    <3> HIDE DEF cars, cdrs, New
    <3> QED BY <2>2, <3>1, <3>2, <3>3
  <2> QED BY <2>3, <2>4
<1>7. /\ local' \subseteq local \cup New /\ call' \in Call
      /\ {call'.a, call'.b, call'.x} \subseteq New \cup {NIL}
  <2>1. call \in Call /\ SINK \in Ptr /\ NIL \in Ptr
    BY <1>1 DEF TypeOK, Ptr, Mem
  <2>2. CASE call.fn = "get_cell"
    BY <1>2, <2>1, <2>2 DEF Deliver, Call
  <2>3. CASE call.fn # "get_cell"
    BY <1>2, <2>1, <2>3 DEF Deliver, Call, Idle
  <2> QED BY <2>2, <2>3
<1>8. Recent' \in New /\ Registers' = Registers
  BY <1>3, <1>6 DEF Recent, Registers, Mem
<1> HIDE DEF New
<1>9. TypeOK'
  BY <1>1, <1>2, <1>3, <1>5, <1>6, <1>7 DEF TypeOK
<1>10. FreeListExact'
  BY <1>1, <1>3, <1>4, <1>6 DEF FreeListExact
<1>11. LinksInUse'
  <2>1. ASSUME NEW q \in InUse  PROVE Succ(q)' \subseteq New \cup Succ(q)
    <3>1. CASE q = NIL
      BY <3>1 DEF Succ
    <3>2. CASE q = SINK
      <4>1. /\ Succ(q) = {car[q], cdr[q]} /\ Succ(q)' = {car'[q], cdr'[q]}
            /\ q \in Mem
        BY <3>2 DEF Succ, NIL, SINK, Mem
      <4> QED BY <1>6, <4>1
    <3>3. CASE q \in Cell
      BY <1>3, <1>6, <3>3 DEF Succ, Mem
    <3> QED BY <3>1, <3>2, <3>3 DEF InUse
  <2>2. \A q \in InUse : Succ(q)' \subseteq InUse
    BY <1>1, <1>5, <2>1 DEF LinksInUse
  <2>3. Roots' \subseteq Roots \cup New \cup {NIL}
    BY <1>7, <1>8 DEF Roots
  <2> QED BY <1>1, <1>2, <1>4, <1>5, <2>2, <2>3 DEF LinksInUse
<1>12. ElementCells'
  <2>1. \A v \in Cell : kind[v] = "vector" => Succ(v)' = Succ(v)
    BY <1>3, CellFacts DEF Succ
  <2> QED BY <1>3, <2>1 DEF HeapInv, ElementCells
<1>13. RecentKeepsLocal'
  BY <1>2 DEF RecentKeepsLocal
<1>14. PendingOperands'
  <2>1. CASE call.fn = "get_cell"
    <3>1. call' = [call EXCEPT !.fn = "hold_cons", !.x = SINK, !.stage = "take"]
      BY <1>2, <2>1 DEF Deliver
    <3>2. call'.fn = "hold_cons" /\ call'.x = SINK
      BY <1>1, <3>1 DEF TypeOK, Call
    <3> QED BY <3>2 DEF PendingOperands
  <2>2. CASE call.fn # "get_cell"
    <3>1. call' = Idle
      BY <1>2, <2>2 DEF Deliver
    <3> QED BY <3>1 DEF PendingOperands, Idle
  <2> QED BY <2>1, <2>2
<1> QED BY <1>9, <1>10, <1>11, <1>12, <1>13, <1>14 DEF HeapInv

(* A collection keeps what the roots, the recent list and the operands of  *)
(* the pending call lead to, and threads all other cells of the segments.  *)
LEMMA GcInv ==
  ASSUME HeapInv, ~no_memory, gc, UNCHANGED <<segs, no_memory, reg, local>>,
         call' \in Call, call'.fn = call.fn, call'.n = call.n,
         call'.a = call.a, call'.b = call.b, call'.x = call.x,
         call.fn = "none" => call' = call
  PROVE  HeapInv'
<1>1. TypeOK /\ FreeListExact /\ LinksInUse /\ ElementCells
  BY DEF HeapInv
<1> DEFINE heap == UNION {Segment(b) : b \in segs}
           dead == heap \ Marked
<1>2. /\ kind' = [c \in Cell |-> IF c \in dead THEN "free" ELSE kind[c]]
      /\ len' = [c \in Cell |-> IF c \in dead THEN 0 ELSE len[c]]
      /\ car' = [p \in Mem |-> IF p \in dead THEN NIL ELSE car[p]]
      /\ cdr' = [p \in Mem |-> IF p \in dead THEN First({d \in dead : d > p}) ELSE cdr[p]]
      /\ free_cell' = First(dead) /\ fcells' = Cardinality(dead)
  BY DEF gc, Sweep
<1>3. /\ heap \subseteq Cell /\ Free \subseteq heap
      /\ \A c \in Cell : c \in InUse => c \in heap
  <2>1. segs \subseteq SegBase
    BY <1>1 DEF TypeOK
  <2>2. \A c \in Cell : kind[c] # "absent" => c \in heap
    BY <1>1 DEF TypeOK
  <2> QED BY <2>1, <2>2, CellFacts DEF InUse, Free
<1>4. /\ Registers \cup {Recent} \cup Extra \subseteq Roots
      /\ Registers \cup {Recent} \cup Extra \subseteq Marked
      /\ Marked \subseteq InUse /\ Closed(Marked)
  <2>1. Registers \cup {Recent} \cup Extra \subseteq Roots
    BY DEF Extra, Roots
  <2>2. Registers \cup {Recent} \cup Extra \subseteq InUse
    BY <1>1, <2>1 DEF LinksInUse
  <2> QED BY <1>1, <2>1, <2>2, ReachFacts DEF Marked
<1> HIDE DEF heap, dead
<1>5. /\ dead \subseteq heap /\ Free \subseteq dead /\ dead \subseteq Cell
      /\ \A p \in Marked : p \notin dead
      /\ SINK \notin dead /\ NIL \notin dead
  BY <1>3, <1>4, CellFacts DEF dead, Free, InUse
<1>6. Free' = dead
  BY <1>1, <1>2, <1>5 DEF Free, TypeOK
<1>7. /\ InUse' \subseteq InUse
      /\ \A p \in InUse' : p \in Marked \/ p = SINK \/ p = NIL
      /\ Marked \cup {SINK, NIL} \subseteq InUse'
  <2>1. ASSUME NEW p \in Cell  PROVE p \in InUse' <=> p \in InUse /\ p \notin dead
    BY <1>1, <1>2, <2>1, <1>5, CellFacts DEF InUse, TypeOK
  <2>2. \A p \in Cell : p \in InUse /\ p \notin dead => p \in Marked
    BY <1>3 DEF dead
  <2>3. /\ \A p \in InUse : p \in Cell \/ p = SINK \/ p = NIL
        /\ \A p \in InUse' : p \in Cell \/ p = SINK \/ p = NIL
        /\ {SINK, NIL} \subseteq InUse /\ {SINK, NIL} \subseteq InUse'
    BY DEF InUse
  <2> QED BY <1>4, <1>5, <2>1, <2>2, <2>3
<1>8. \A p \in Mem \ dead : car'[p] = car[p] /\ cdr'[p] = cdr[p]
  BY <1>2
<1>9. \A p \in Cell \ dead : kind'[p] = kind[p] /\ len'[p] = len[p]
  BY <1>2
<1>10. \A p \in InUse' : Succ(p)' = Succ(p) /\ IsPair(p)' = IsPair(p) /\ p \notin dead
  <2>1. ASSUME NEW p \in InUse'
        PROVE  Succ(p)' = Succ(p) /\ IsPair(p)' = IsPair(p) /\ p \notin dead
    <3>0. p \in Cell \/ p = SINK \/ p = NIL
      BY DEF InUse
    <3>1. p \notin dead /\ (p \in Cell \/ p = SINK \/ p = NIL)
      BY <1>5, <1>7, <3>0
    <3>2. CASE p = NIL
      BY <3>1, <3>2, CellFacts DEF Succ, IsPair
    <3>3. CASE p = SINK
      BY <1>8, <3>1, <3>3, CellFacts DEF Succ, IsPair, Mem
    <3>4. CASE p \in Cell
      BY <1>8, <1>9, <3>1, <3>4 DEF Succ, IsPair, Mem
    <3> QED BY <3>1, <3>2, <3>3, <3>4
  <2> QED BY <2>1
<1>11. /\ Recent' = Recent /\ Registers' = Registers /\ local' = local
       /\ cdr'[SINK] = cdr[SINK]
  <2>1. SINK \in Mem \ dead
    BY <1>5 DEF Mem
  <2>2. Recent' = Recent /\ cdr'[SINK] = cdr[SINK]
    BY <1>8, <2>1 DEF Recent
  <2> QED BY <2>2 DEF Registers
<1>12. /\ Holders \subseteq Marked
       /\ \A g \in Holders : g # SINK /\ IsPair(g) /\ g \in Cell /\ g \notin dead
  <2>1. Holders \subseteq Marked
    BY <1>4, HoldersReached
  <2>2. \A g \in Holders : g # SINK /\ IsPair(g)
    BY DEF HeapInv, RecentKeepsLocal
  <2> QED BY <1>5, <2>1, <2>2 DEF IsPair
<1>13. Roots \subseteq Marked \cup {NIL}
  <2>1. local \subseteq Marked \cup {NIL}
    <3>1. ASSUME NEW p \in local, p # NIL  PROVE p \in Marked
      <4>1. PICK g \in Holders : car[g] = p
        BY <3>1 DEF HeapInv, RecentKeepsLocal
      <4>2. p \in Succ(g)
        BY <1>12, <4>1, CellFacts DEF Succ, IsPair
      <4> QED BY <1>4, <1>12, <4>2 DEF Closed
    <3> QED BY <3>1
  <2>2. {call.a, call.b, call.x} \subseteq Marked \cup {NIL}
    <3>1. PendingOperands /\ call \in Call
      BY <1>1 DEF HeapInv, TypeOK
    <3>2. CASE call.fn = "get_cell"
      BY <1>4, <3>1, <3>2 DEF PendingOperands, Extra
    <3>3. CASE call.fn = "hold_cons"
      <4>1. call.x \in Marked
        BY <1>4, <3>3 DEF Extra
      <4>2. call.x # SINK
        BY <1>1 DEF LinksInUse, Roots
      <4>3. IsPair(call.x) /\ car[call.x] = call.a /\ cdr[call.x] = call.b
        BY <3>1, <3>3, <4>2 DEF PendingOperands
      <4>4. {call.a, call.b} \subseteq Succ(call.x)
        BY <4>2, <4>3, CellFacts DEF IsPair, Succ
      <4> QED BY <1>4, <4>1, <4>4 DEF Closed
    <3>4. CASE call.fn = "hold"
      BY <1>4, <3>1, <3>4 DEF PendingOperands, Extra
    <3>5. CASE call.fn = "get_vector_object"
      BY <3>1, <3>5 DEF PendingOperands
    <3>6. CASE call.fn = "none"
      BY <3>1, <3>6 DEF PendingOperands, Idle
    <3> QED BY <3>1, <3>2, <3>3, <3>4, <3>5, <3>6 DEF Call
  <2> QED BY <1>4, <2>1, <2>2 DEF Roots
<1>14. TypeOK'
  <2>1. dead \subseteq Nat \ {0} /\ IsFiniteSet(dead)
    BY <1>5, CellFacts, FS_Subset
  <2>2. \A p : First({d \in dead : d > p}) \in dead \cup {NIL}
    <3>1. ASSUME NEW p  PROVE First({d \in dead : d > p}) \in dead \cup {NIL}
      <4>1. {d \in dead : d > p} \subseteq Nat \ {0}
        BY <2>1
      <4> QED BY <4>1, FirstIs
    <3> QED BY <3>1
  <2>3. dead \cup {NIL} \subseteq Ptr /\ NIL \in Ptr
    BY <1>5 DEF Ptr, Mem
  <2>4. car' \in [Mem -> Ptr] /\ cdr' \in [Mem -> Ptr]
    BY <1>1, <1>2, <2>2, <2>3 DEF TypeOK
  <2>5. free_cell' \in Cell \cup {NIL} /\ fcells' \in Nat
    BY <1>2, <1>5, <2>1, FirstIs, FS_CardinalityType
  <2>6. /\ kind' \in [Cell -> {"absent", "free", "pair", "vector"}]
        /\ len' \in [Cell -> Nat]
    BY <1>1, <1>2 DEF TypeOK
  <2>7. ASSUME NEW c \in Cell
        PROVE  kind'[c] = "absent" <=> \A b \in segs : c \notin Segment(b)
    BY <1>1, <1>2, <1>5 DEF TypeOK, heap
  <2> QED BY <1>1, <2>4, <2>5, <2>6, <2>7 DEF TypeOK
<1>15. FreeListExact'
  <2>1. \A c \in dead : cdr'[c] = First({d \in dead : d > c})
    BY <1>2, <1>5 DEF Mem
  <2> QED BY <1>2, <1>6, <2>1 DEF FreeListExact
<1>16. Roots' = Roots
  BY <1>11 DEF Roots
<1>17. LinksInUse'
  <2>1. ASSUME NEW p \in InUse'  PROVE Succ(p)' \subseteq InUse' /\ SINK \notin Succ(p)'
    <3>1. SINK \notin Succ(p)
      BY <1>1, <1>7 DEF LinksInUse
    <3>2. CASE p \in Marked
      BY <1>4, <1>7, <1>10, <3>1, <3>2 DEF Closed
    <3>3. CASE p = SINK
      <4>1. Succ(p) = {Recent, NIL}
        BY <1>1, <3>3, CellFacts DEF LinksInUse, Succ, Recent
      <4> QED BY <1>4, <1>7, <1>10, <3>1, <4>1
    <3>4. CASE p = NIL
      BY <3>4 DEF Succ
    <3> QED BY <1>7, <3>2, <3>3, <3>4
  <2>2. Roots' \subseteq InUse'
    BY <1>7, <1>13, <1>16
  <2>3. cdr'[SINK] = NIL /\ SINK \notin Roots'
    BY <1>1, <1>11, <1>16 DEF LinksInUse
  <2> QED BY <2>1, <2>2, <2>3 DEF LinksInUse
<1>18. ElementCells'
  <2>1. ASSUME NEW v \in Cell, kind'[v] = "vector", NEW c \in Succ(v)'
        PROVE  c \in Cell /\ kind'[c] = "pair"
    <3>1. v \in InUse' /\ v \in Marked
      BY <1>7, <2>1, CellFacts DEF InUse
    <3>2. kind[v] = "vector" /\ c \in Succ(v)
      BY <1>9, <1>10, <2>1, <3>1
    <3>3. c \in Cell /\ kind[c] = "pair" /\ c \in Marked
      BY <1>1, <1>4, <3>1, <3>2 DEF ElementCells, Closed
    <3> QED BY <1>5, <1>9, <3>3
  <2> QED BY <2>1 DEF ElementCells
<1>19. PendingOperands'
  <2>1. CASE call.fn = "hold_cons"
    <3>1. call.x \in Marked /\ call.x # SINK
      BY <1>1, <1>4, <2>1 DEF Extra, LinksInUse, Roots
    <3>2. IsPair(call.x) /\ car[call.x] = call.a /\ cdr[call.x] = call.b
      BY <2>1, <3>1 DEF HeapInv, PendingOperands
    <3>3. call.x \in Mem \ dead /\ call.x \in InUse'
      BY <1>5, <1>7, <3>1, <3>2 DEF IsPair, Mem
    <3>4. IsPair(call.x)' /\ car'[call.x] = call.a /\ cdr'[call.x] = call.b
      BY <1>8, <1>10, <3>2, <3>3
    <3> QED BY <2>1, <3>4 DEF PendingOperands, IsPair
  <2>2. CASE call.fn # "hold_cons"
    BY <1>1, <2>2 DEF HeapInv, PendingOperands, TypeOK, Call
  <2> QED BY <2>1, <2>2
<1>20. RecentKeepsLocal'
  <2>1. /\ \A p \in local : p = NIL \/ \E g \in Holders : car[g] = p
        /\ \A g \in Holders : g # SINK /\ IsPair(g) /\ car[g] \notin Holders
        /\ \A p \in InUse \ (Holders \cup {SINK}) : Succ(p) \cap Holders = {}
        /\ (Registers \cup local \cup {call.a, call.b, call.x}) \cap Holders = {}
    BY DEF HeapInv, RecentKeepsLocal
  <2>2. \A g \in Holders : /\ g \in InUse' /\ IsPair(g)'
                           /\ car'[g] = car[g] /\ cdr'[g] = cdr[g]
    BY <1>7, <1>8, <1>10, <1>12 DEF Mem
  <2>3. Holders' = Holders
    BY <1>1, <1>11, <2>1, <2>2, HoldersStable
  <2>4. \A p \in InUse' \ (Holders \cup {SINK}) : Succ(p)' \cap Holders = {}
    BY <1>7, <1>10, <2>1
  <2>5. \A p \in local' : p = NIL \/ \E g \in Holders' : car'[g] = p
    BY <2>1, <2>2, <2>3
  <2>6. \A g \in Holders' : g # SINK /\ IsPair(g)' /\ car'[g] \notin Holders'
    BY <2>1, <2>2, <2>3
  <2>7. (Registers' \cup local' \cup {call'.a, call'.b, call'.x}) \cap Holders' = {}
    BY <1>11, <2>1, <2>3
  <2> QED BY <2>3, <2>4, <2>5, <2>6, <2>7 DEF RecentKeepsLocal
<1> QED BY <1>14, <1>15, <1>17, <1>18, <1>19, <1>20 DEF HeapInv

LEMMA CollectInv == HeapInv /\ (Collect \/ OP_GC) => HeapInv'
<1> SUFFICES ASSUME HeapInv, Collect \/ OP_GC PROVE HeapInv'
  OBVIOUS
<1>1. call \in Call /\ PendingOperands
  BY DEF HeapInv, TypeOK
<1>2. CASE Collect
  <2>1. /\ ~no_memory /\ gc /\ UNCHANGED <<segs, no_memory, reg, local>>
        /\ call' = [call EXCEPT !.stage = "collected"] /\ call.fn # "none"
    BY <1>2 DEF Collect, WantsCell
  <2>2. /\ call' \in Call /\ call'.fn = call.fn /\ call'.n = call.n
        /\ call'.a = call.a /\ call'.b = call.b /\ call'.x = call.x
    BY <1>1, <2>1 DEF Call
  <2> QED BY <2>1, <2>2, GcInv
<1>3. CASE OP_GC
  BY <1>1, <1>3, GcInv DEF OP_GC
<1> QED BY <1>2, <1>3

(* A new segment is threaded into the free list at its place.              *)
LEMMA GrowInv == HeapInv /\ Grow => HeapInv'
<1> SUFFICES ASSUME HeapInv, Grow PROVE HeapInv'
  OBVIOUS
<1>1. TypeOK /\ FreeListExact /\ LinksInUse /\ ElementCells
  BY DEF HeapInv
<1>2. PICK b \in SegBase : alloc_cellseg(b)
  BY DEF Grow
<1>3. /\ UNCHANGED <<no_memory, reg, local>> /\ call.stage = "collected"
      /\ call' = [call EXCEPT !.stage = "ready"] /\ StillShort
  BY DEF Grow
<1> DEFINE last == b + SegSize - 1
           atFront == InFront(b)
           pred == Behind(b)
<1>4. /\ b \notin segs /\ segs' = segs \cup {b}
      /\ fcells' = fcells + SegSize
      /\ kind' = [c \in Cell |-> IF c \in Segment(b) THEN "free" ELSE kind[c]]
      /\ car' = [p \in Mem |-> IF p \in Segment(b) THEN NIL ELSE car[p]]
      /\ cdr' = [p \in Mem |->
                    IF p = last
                      THEN IF atFront THEN free_cell ELSE cdr[pred]
                    ELSE IF p \in Segment(b) THEN p + 1
                    ELSE IF ~atFront /\ p = pred THEN b
                    ELSE cdr[p]]
      /\ free_cell' = (IF atFront THEN b ELSE free_cell)
      /\ len' = len
  BY <1>2 DEF alloc_cellseg
<1>5. /\ b \in Nat \ {0} /\ SegSize \in Nat \ {0} /\ Segment(b) \subseteq Cell
      /\ Segment(b) = b .. last /\ last \in Segment(b) /\ b \in Segment(b)
      /\ Segment(b) \subseteq Nat \ {0} /\ last \in Nat /\ b <= last
      /\ last + 1 = b + SegSize
  <2>1. b \in Nat \ {0} /\ SegSize \in Nat \ {0} /\ Segment(b) = b .. last
    BY HeapAssumption, CellFacts
  <2> QED BY <2>1, CellFacts
<1>6. /\ Free \subseteq Nat \ {0} /\ Free \subseteq Cell /\ IsFiniteSet(Free)
      /\ FreeList(Free, cdr, free_cell, fcells)
  BY <1>1, FreeFacts
<1> HIDE DEF last, atFront, pred
<1>7. \A c \in Segment(b) : c \notin Free /\ c \notin InUse /\ kind[c] = "absent"
  <2>1. \A c \in Segment(b) : kind[c] = "absent"
    <3>1. \A d \in segs : Segment(d) \cap Segment(b) = {}
      <4>1. segs \subseteq SegBase /\ b \notin segs
        BY <1>1, <1>4 DEF TypeOK
      <4>2. \A d \in segs : d \in SegBase /\ d # b
        BY <4>1
      <4> QED BY <4>2, CellFacts
    <3>2. \A c \in Cell : kind[c] = "absent" <=> \A d \in segs : c \notin Segment(d)
      BY <1>1 DEF TypeOK
    <3>3. Segment(b) \subseteq Cell
      BY <1>5
    <3> QED BY ONLY <3>1, <3>2, <3>3
  <2> QED BY <1>5, <2>1, CellFacts DEF Free, InUse
(* A free cell not below the segment is above its last cell. *)
<1>8. \A d \in Free : d < b \/ last + 1 < d
  <2>1. ASSUME NEW d \in Free  PROVE d < b \/ last + 1 < d
    <3>1. PICK b2 \in SegBase : d \in Segment(b2)
      BY <1>6 DEF Cell
    <3>2. b2 # b
      BY <1>7, <3>1
    <3>3. b2 \in Nat /\ b2 <= d /\ d < b2 + SegSize
      BY <1>5, <3>1, CellFacts
    <3>4. (b2 < b => b2 + SegSize < b) /\ (b < b2 => b + SegSize < b2)
      BY HeapAssumption
    <3> QED BY <1>5, <1>6, <3>2, <3>3, <3>4
  <2> QED BY <2>1
<1>9. atFront => \A d \in Free : last < d
  <2>1. ASSUME atFront, NEW d \in Free  PROVE last < d
    <3>1. free_cell \in Free /\ free_cell <= d
      BY <1>6, FirstIs DEF FreeList
    <3>2. free_cell # NIL
      BY <1>6, <3>1 DEF NIL
    <3> QED BY <1>5, <1>6, <2>1, <3>1, <3>2 DEF atFront, InFront
  <2> QED BY <2>1
<1>10. ~atFront => /\ pred \in Free /\ pred < b
                   /\ \A d \in Free : d > pred => last < d
                   /\ cdr[pred] \in Free \cup {NIL}
  <2> SUFFICES ASSUME ~atFront
               PROVE  /\ pred \in Free /\ pred < b
                      /\ \A d \in Free : d > pred => last < d
                      /\ cdr[pred] \in Free \cup {NIL}
    OBVIOUS
  <2> DEFINE P == {d \in Free : d < b}
             Q == {p \in Free : cdr[p] = NIL \/ ~(b > cdr[p])}
             After(c) == {d \in Free : d > c}
  <2>1. ASSUME NEW c \in Free
        PROVE  /\ After(c) = {} => cdr[c] = NIL
               /\ After(c) # {} => /\ cdr[c] \in After(c)
                                  /\ \A d \in After(c) : cdr[c] <= d
    <3>1. After(c) \subseteq Nat \ {0} /\ cdr[c] = First(After(c))
      BY <1>6 DEF FreeList
    <3> HIDE DEF After
    <3> QED BY <3>1, FirstIs
  <2>2. free_cell \in P
    <3>1. Free # {}
      BY <1>6, FirstIs DEF FreeList, atFront, InFront
    <3>2. free_cell \in Free
      BY <1>6, <3>1, FirstIs DEF FreeList
    <3> QED BY <1>5, <1>6, <1>8, <3>2 DEF atFront, InFront
  <2>3. PICK m \in P : \A k \in P : k <= m
    <3>1. P \subseteq Nat /\ IsFiniteSet(P)
      BY <1>6, FS_Subset
    <3> HIDE DEF P
    <3> QED BY <2>2, <3>1, Greatest
  <2>4. m \in Q
    <3>1. CASE After(m) = {}
      BY <2>1, <2>3, <3>1
    <3>2. CASE After(m) # {}
      <4>1. cdr[m] \in Free /\ cdr[m] > m
        BY <2>1, <2>3, <3>2
      <4>2. cdr[m] \notin P
        <5>1. m \in Nat /\ cdr[m] \in Nat
          BY <1>6, <2>3, <4>1
        <5> QED BY <2>3, <4>1, <5>1
      <4>3. ~ (cdr[m] < b)
        BY <4>1, <4>2
      <4>4. cdr[m] \in Nat /\ b \in Nat
        BY <1>5, <1>6, <4>1
      <4> QED BY <2>3, <4>3, <4>4
    <3> QED BY <3>1, <3>2
  <2>5. pred \in Q /\ pred <= m
    <3>1. Q \subseteq Nat /\ Q # {}
      BY <1>6, <2>4
    <3>2. pred = Lowest(Q)
      BY DEF pred, Behind
    <3> HIDE DEF Q
    <3> QED BY <2>4, <3>1, <3>2, LowestIs
  <2>6. pred < b
    <3>1. pred \in Nat /\ m \in Nat /\ m < b /\ b \in Nat
      BY <1>5, <1>6, <2>3, <2>5
    <3> QED BY <2>5, <3>1
  <2>7. ASSUME NEW d \in Free, d > pred  PROVE last < d
    <3>1. cdr[pred] \in After(pred) /\ cdr[pred] <= d
      BY <2>1, <2>5, <2>7
    <3>2. cdr[pred] # NIL /\ cdr[pred] \in Nat /\ d \in Nat
      BY <1>6, <3>1 DEF NIL
    <3>3. ~ (b > cdr[pred])
      BY <2>5, <3>2
    <3>4. ~ (d < b)
      BY <1>5, <3>1, <3>2, <3>3
    <3> QED BY <1>5, <1>8, <3>2, <3>4
  <2> QED BY <2>1, <2>5, <2>6, <2>7
<1>11. /\ cdr'[last] = (IF atFront THEN free_cell ELSE cdr[pred])
       /\ \A c \in Segment(b) : c # last => cdr'[c] = c + 1
       /\ \A p \in Mem \ Segment(b) : atFront \/ p # pred => cdr'[p] = cdr[p]
       /\ ~atFront => cdr'[pred] = b
       /\ \A p \in Mem \ Segment(b) : car'[p] = car[p]
  BY <1>4, <1>5, <1>6, <1>7, <1>10 DEF Mem
<1>12. Free' = Free \cup Segment(b) /\ InUse' = InUse
  <2>1. \A c \in Cell : c \in Free' <=> c \in Free \/ c \in Segment(b)
    BY <1>4, <1>5 DEF Free
  <2>2. \A c \in Cell : kind'[c] \in {"pair", "vector"} <=> kind[c] \in {"pair", "vector"}
    BY <1>4, <1>7
  <2>3. Free' \subseteq Cell
    BY DEF Free
  <2>4. InUse' = InUse
    BY <2>2 DEF InUse
  <2> QED BY <1>5, <1>6, <2>1, <2>3, <2>4
<1>13. FreeList(Free', cdr', free_cell', fcells')
  <2>1. Free' = Free \cup (b .. (b + SegSize - 1))
    BY <1>5, <1>12 DEF last
  <2>2. \A c \in b .. (b + SegSize - 1) : c # b + SegSize - 1 => cdr'[c] = c + 1
    BY <1>5, <1>11 DEF last
  <2>3. CASE atFront
    <3>1. \A c \in Free : cdr'[c] = cdr[c]
      BY <1>6, <1>7, <1>11, <2>3 DEF Mem
    <3>2. cdr'[b + SegSize - 1] = free_cell
      BY <1>11, <2>3 DEF last
    <3>3. \A d \in Free : b + SegSize - 1 < d
      BY <1>9, <2>3 DEF last
    <3>4. FreeList(Free \cup (b .. (b + SegSize - 1)), cdr', b, fcells + SegSize)
      BY <1>5, <1>6, <2>2, <3>1, <3>2, <3>3, AddInFront
    <3> QED BY <1>4, <2>1, <2>3, <3>4
  <2>4. CASE ~atFront
    <3>1. \A c \in Free \ {pred} : cdr'[c] = cdr[c]
      BY <1>6, <1>7, <1>11, <2>4 DEF Mem
    <3>2. cdr'[b + SegSize - 1] = cdr[pred] /\ cdr'[pred] = b
      BY <1>11, <2>4 DEF last
    <3>3. /\ pred \in Free /\ pred < b
          /\ \A d \in Free : d > pred => b + SegSize - 1 < d
      BY <1>10, <2>4 DEF last
    <3>4. FreeList(Free \cup (b .. (b + SegSize - 1)), cdr', free_cell, fcells + SegSize)
      <4>1. /\ Free \subseteq Nat \ {0} /\ IsFiniteSet(Free)
            /\ FreeList(Free, cdr, free_cell, fcells)
        BY <1>6
      <4>2. b \in Nat \ {0} /\ SegSize \in Nat \ {0}
        BY <1>5
      <4>3. Spliced(Free, b, SegSize, cdr, pred, cdr')
        BY ONLY <2>2, <3>1, <3>2, <3>3 DEF Spliced
      <4> QED BY ONLY <4>1, <4>2, <4>3, AddBehind
    <3> QED BY <1>4, <2>1, <2>4, <3>4
  <2> QED BY <2>3, <2>4
<1>14. FreeListExact'
  BY <1>13 DEF FreeList, FreeListExact
<1>15. TypeOK'
  <2>1. fcells' \in Nat /\ segs' \subseteq SegBase
    <3>1. fcells \in Nat /\ SegSize \in Nat /\ segs \subseteq SegBase
      BY <1>1, <1>5 DEF TypeOK
    <3>2. fcells + SegSize \in Nat
      BY <3>1
    <3> QED BY <1>4, <3>1, <3>2
  <2>2. free_cell' \in Cell \cup {NIL}
    BY <1>1, <1>4, <1>5 DEF TypeOK
  <2>3. /\ kind' \in [Cell -> {"absent", "free", "pair", "vector"}]
        /\ len' \in [Cell -> Nat]
    BY <1>1, <1>4 DEF TypeOK
  <2>4. car' \in [Mem -> Ptr]
    BY <1>1, <1>4 DEF TypeOK, Ptr
  <2>5. cdr' \in [Mem -> Ptr]
    <3>1. ASSUME NEW p \in Mem  PROVE cdr'[p] \in Ptr
      <4>1. /\ free_cell \in Ptr /\ b \in Ptr /\ cdr[p] \in Ptr
            /\ ~atFront => cdr[pred] \in Ptr
        BY <1>1, <1>5, <1>6, <1>10 DEF TypeOK, Ptr, Mem
      <4>2. p \in Segment(b) /\ p # last => p + 1 \in Ptr
        <5>1. p \in b .. last /\ p # last => p + 1 \in b .. last
          BY <1>5
        <5> QED BY <1>5, <5>1 DEF Ptr, Mem
      <4> QED BY <1>4, <4>1, <4>2
    <3> QED BY <1>4, <3>1
  <2>6. call' \in Call
    BY <1>1, <1>3 DEF TypeOK, Call
  <2>7. \A c \in Cell : kind'[c] = "absent" <=> \A b2 \in segs' : c \notin Segment(b2)
    BY <1>1, <1>4 DEF TypeOK
  <2> QED BY <1>1, <1>3, <2>1, <2>2, <2>3, <2>4, <2>5, <2>6, <2>7 DEF TypeOK
<1>16. /\ call'.fn = call.fn /\ call'.n = call.n
       /\ call'.a = call.a /\ call'.b = call.b /\ call'.x = call.x
       /\ call.fn # "none"
  BY <1>1, <1>3 DEF TypeOK, Call, StillShort, WantsCell
<1>17. ASSUME NEW p \in InUse
       PROVE  /\ Succ(p)' = Succ(p) /\ IsPair(p)' = IsPair(p)
              /\ p # NIL => car'[p] = car[p] /\ cdr'[p] = cdr[p]
  <2>1. p \notin Segment(b) /\ p \notin Free
    BY <1>7, CellFacts DEF InUse, Free
  <2>2. p # NIL => p \in Mem /\ car'[p] = car[p] /\ cdr'[p] = cdr[p]
    BY <1>10, <1>11, <2>1 DEF InUse, Mem
  <2>3. p \in Cell => kind'[p] = kind[p]
    BY <1>4, <2>1
  <2>4. IsPair(p)' = IsPair(p)
    BY <2>3 DEF IsPair
  <2>5. CASE p = NIL
    BY <2>4, <2>5 DEF Succ
  <2>6. CASE p = SINK
    BY <2>2, <2>4, <2>6, CellFacts DEF Succ
  <2>7. CASE p \in Cell
    BY <1>4, <2>2, <2>3, <2>4, <2>7 DEF Succ
  <2> QED BY <2>5, <2>6, <2>7 DEF InUse
<1>18. Recent' = Recent /\ Registers' = Registers /\ cdr'[SINK] = cdr[SINK]
  <2>1. SINK \in InUse /\ SINK # NIL
    BY CellFacts DEF InUse
  <2>2. car'[SINK] = car[SINK] /\ cdr'[SINK] = cdr[SINK]
    BY <1>17, <2>1
  <2> QED BY <1>3, <2>2 DEF Recent, Registers
<1>19. Roots' = Roots
  BY <1>3, <1>16, <1>18 DEF Roots
<1>20. LinksInUse'
  BY <1>1, <1>3, <1>12, <1>17, <1>18, <1>19 DEF LinksInUse
<1>21. ElementCells'
  <2>1. ASSUME NEW v \in Cell, kind'[v] = "vector", NEW c \in Succ(v)'
        PROVE  c \in Cell /\ kind'[c] = "pair"
    <3>1. kind[v] = "vector" /\ v \in InUse
      BY <1>4, <2>1 DEF InUse
    <3>2. c \in Cell /\ kind[c] = "pair"
      BY <1>1, <1>17, <2>1, <3>1 DEF ElementCells
    <3> QED BY <1>4, <1>7, <3>2
  <2> QED BY <2>1 DEF ElementCells
<1>22. PendingOperands'
  <2>1. PICK x \in InUse : x = call.x
    BY <1>1 DEF LinksInUse, Roots
  <2>2. IsPair(x) => x # NIL
    BY CellFacts DEF IsPair
  <2>3. /\ IsPair(x)' = IsPair(x)
        /\ IsPair(x) => car'[x] = car[x] /\ cdr'[x] = cdr[x]
    BY <1>17, <2>2
  <2>4. PendingOperands
    BY DEF HeapInv
  <2>5. call \in Call
    BY <1>1 DEF TypeOK
  <2>6. CASE call.fn = "hold_cons"
    <3>1. x = SINK \/ (IsPair(x)' /\ car'[x] = call.a /\ cdr'[x] = call.b)
      BY <2>1, <2>3, <2>4, <2>6 DEF PendingOperands
    <3> QED BY <1>16, <2>1, <2>6, <3>1 DEF PendingOperands, IsPair
  <2>7. CASE call.fn # "hold_cons"
    BY <1>16, <2>4, <2>5, <2>7 DEF PendingOperands, Call
  <2> QED BY <2>6, <2>7
<1>23. RecentKeepsLocal'
  <2> SUFFICES ASSUME ~no_memory  PROVE RecentKeepsLocal'
    BY <1>3 DEF RecentKeepsLocal
  <2>1. /\ \A p \in local : p = NIL \/ \E g \in Holders : car[g] = p
        /\ \A g \in Holders : g # SINK /\ IsPair(g) /\ car[g] \notin Holders
        /\ \A p \in InUse \ (Holders \cup {SINK}) : Succ(p) \cap Holders = {}
        /\ (Registers \cup local \cup {call.a, call.b, call.x}) \cap Holders = {}
    BY DEF HeapInv, RecentKeepsLocal
  <2>2. \A g \in Holders : /\ g \in InUse' /\ IsPair(g)'
                           /\ car'[g] = car[g] /\ cdr'[g] = cdr[g]
    BY <1>1, <1>12, <1>17, <2>1, HoldersFacts
  <2>3. Holders' = Holders
    BY <1>1, <1>18, <2>1, <2>2, HoldersStable
  <2>4. \A p \in InUse' \ (Holders \cup {SINK}) : Succ(p)' \cap Holders = {}
    BY <1>12, <1>17, <2>1
  <2>5. \A p \in local' : p = NIL \/ \E g \in Holders' : car'[g] = p
    BY <1>3, <2>1, <2>2, <2>3
  <2>6. \A g \in Holders' : g # SINK /\ IsPair(g)' /\ car'[g] \notin Holders'
    BY <2>1, <2>2, <2>3
  <2>7. (Registers' \cup local' \cup {call'.a, call'.b, call'.x}) \cap Holders' = {}
    BY <1>3, <1>16, <1>18, <2>1, <2>3
  <2> QED BY <2>3, <2>4, <2>5, <2>6, <2>7 DEF RecentKeepsLocal
<1> QED BY <1>14, <1>15, <1>20, <1>21, <1>22, <1>23 DEF HeapInv

(* A vector takes the first run of free cells that is long enough.         *)
LEMMA FindRunInv == HeapInv /\ FindRun => HeapInv'
<1> SUFFICES ASSUME HeapInv, FindRun PROVE HeapInv'
  OBVIOUS
<1>1. TypeOK /\ FreeListExact /\ LinksInUse /\ ElementCells
  BY DEF HeapInv
<1>2. /\ Free \subseteq Nat \ {0} /\ Free \subseteq Cell /\ IsFiniteSet(Free)
      /\ FreeList(Free, cdr, free_cell, fcells)
  BY <1>1, FreeFacts
<1>3. PICK n : n = call.n
  OBVIOUS
<1>4. n \in Nat \ {0}
  BY <1>1, <1>3 DEF HeapInv, PendingOperands, TypeOK, Call, FindRun
<1>5. PICK x \in Free : Fits(x, n) /\ TakeRun(x, n)
  <2>1. Runs(n) \subseteq Nat /\ Runs(n) # {} /\ TakeRun(Lowest(Runs(n)), n)
    BY <1>2, <1>3 DEF Runs, FindRun
  <2>2. Lowest(Runs(n)) \in Runs(n)
    BY <2>1, LowestIs
  <2> QED BY <2>1, <2>2 DEF Runs
<1> DEFINE run == x .. (x + n - 1)
           body == (x + 1) .. (x + n - 1)
           rest == Rest(x, n)
<1>6. /\ free_cell' = (IF x = free_cell THEN rest ELSE free_cell)
      /\ fcells' = fcells - n
      /\ kind' = [c \in Cell |-> IF c = x THEN "vector"
                                 ELSE IF c \in body THEN "pair" ELSE kind[c]]
      /\ len' = [len EXCEPT ![x] = n - 1]
      /\ car' = [p \in Mem |-> IF p \in body THEN NIL ELSE car[p]]
      /\ cdr' = [p \in Mem |-> IF p \in body \cup {x} THEN NIL
                               ELSE IF p \in Free /\ cdr[p] = x THEN rest
                               ELSE cdr[p]]
      /\ call' = [Idle EXCEPT !.fn = "hold", !.x = x]
      /\ UNCHANGED <<segs, no_memory, reg, local>>
  BY <1>5 DEF TakeRun
<1>7. /\ x \in Nat \ {0} /\ run \subseteq Free /\ x \in run
      /\ body \subseteq run /\ x \notin body /\ run = body \cup {x}
  BY <1>2, <1>4, <1>5 DEF Fits
<1> HIDE DEF run, body
<1>8. /\ run \subseteq Cell /\ run \cap InUse = {} /\ SINK \notin run /\ NIL \notin run
      /\ \A c \in run : kind[c] = "free"
  BY <1>2, <1>7, CellFacts DEF Free, InUse
<1>9. Free' = Free \ run /\ InUse' = InUse \cup run
  <2>1. \A c \in Cell : /\ c \in run => kind'[c] \in {"pair", "vector"}
                        /\ c \notin run => kind'[c] = kind[c]
    BY <1>6, <1>7
  <2> QED BY <1>8, <2>1 DEF Free, InUse
<1>10. /\ \A p \in Mem \ Free : car'[p] = car[p] /\ cdr'[p] = cdr[p]
       /\ \A c \in Free \ run : cdr'[c] = IF cdr[c] = x THEN rest ELSE cdr[c]
       /\ \A c \in body : car'[c] = NIL /\ cdr'[c] = NIL
  BY <1>2, <1>6, <1>7, <1>8 DEF Mem
<1>11. /\ FreeList(Free \ run, cdr', free_cell', fcells')
       /\ rest \in Free \cup {NIL} /\ fcells' \in Nat
  <2>1. PICK last : last = x + n - 1
    OBVIOUS
  <2>2. /\ x <= last /\ last \in Free /\ rest = cdr[last] /\ run \subseteq Free
        /\ \A d \in Free : d \in run <=> x <= d /\ d <= last
    BY <1>2, <1>4, <1>5, <1>7, <2>1 DEF run, Rest
  <2>3. Cardinality(run) = n
    <3>1. /\ x \in Int /\ last \in Int /\ ~ (x > last) /\ last - x + 1 = n
          /\ run = x .. last
      BY <1>4, <1>7, <2>1 DEF run
    <3> QED BY <3>1, FS_Interval
  <2>4. \A c \in Free \ run : cdr'[c] = IF cdr[c] = x THEN rest ELSE cdr[c]
    BY <1>10
  <2>5. /\ free_cell' = (IF x = free_cell THEN rest ELSE free_cell)
        /\ fcells' = fcells - Cardinality(run)
    BY <1>6, <2>3
  <2> HIDE DEF rest
  <2>6. FreeList(Free \ run, cdr', free_cell', fcells')
    BY <1>2, <1>5, <2>2, <2>4, <2>5, RunList
  <2>7. rest \in Free \cup {NIL}
    <3>1. rest = First({d \in Free : d > last})
      BY <1>2, <2>2 DEF FreeList
    <3>2. {d \in Free : d > last} \subseteq Nat \ {0}
      BY <1>2
    <3> QED BY <3>1, <3>2, FirstIs
  <2>8. fcells' \in Nat
    <3>1. IsFiniteSet(Free \ run)
      BY <1>2, FS_Subset
    <3> QED BY <2>6, <3>1, FS_CardinalityType DEF FreeList
  <2> QED BY <2>6, <2>7, <2>8
<1>12. FreeListExact'
  BY <1>6, <1>9, <1>11 DEF FreeList, FreeListExact
<1>13. /\ call' = [fn |-> "hold", a |-> NIL, b |-> NIL, n |-> 0, x |-> x,
                   stage |-> "take"]
       /\ call'.a = NIL /\ call'.b = NIL /\ call'.x = x
       /\ local' = local /\ reg' = reg /\ no_memory' = no_memory
  BY <1>6 DEF Idle
<1>14. TypeOK'
  <2>1. x \in Ptr /\ NIL \in Ptr /\ rest \in Ptr /\ n - 1 \in Nat
    <3>1. n - 1 \in Nat
      BY <1>4
    <3>2. Free \cup {NIL} \subseteq Ptr
      BY <1>2 DEF Ptr, Mem
    <3> QED BY <1>5, <1>11, <3>1, <3>2
  <2>2. free_cell' \in Cell \cup {NIL} /\ fcells' \in Nat
    BY <1>1, <1>2, <1>6, <1>11 DEF TypeOK
  <2>3. kind' \in [Cell -> {"absent", "free", "pair", "vector"}]
    BY <1>1, <1>6 DEF TypeOK
  <2>4. len' \in [Cell -> Nat]
    BY <1>1, <1>6, <2>1 DEF TypeOK
  <2>5. car' \in [Mem -> Ptr] /\ cdr' \in [Mem -> Ptr]
    BY <1>1, <1>6, <2>1 DEF TypeOK
  <2>6. call' \in Call
    BY <1>13, <2>1 DEF Call
  <2>7. ASSUME NEW c \in Cell
        PROVE  kind'[c] = "absent" <=> \A b \in segs' : c \notin Segment(b)
    <3>1. kind'[c] = "absent" <=> kind[c] = "absent"
      BY <1>6, <1>7, <1>8
    <3> QED BY <1>1, <1>6, <3>1 DEF TypeOK
  <2> QED BY <1>1, <1>6, <2>2, <2>3, <2>4, <2>5, <2>6, <2>7 DEF TypeOK
<1>15. ASSUME NEW p \in InUse
       PROVE  Succ(p)' = Succ(p) /\ IsPair(p)' = IsPair(p)
  <2>1. p \notin Free /\ p \notin run
    BY <1>8, CellFacts DEF InUse, Free
  <2>2. p # NIL => p \in Mem /\ car'[p] = car[p] /\ cdr'[p] = cdr[p]
    BY <1>10, <2>1 DEF InUse, Mem
  <2>3. p \in Cell => kind'[p] = kind[p] /\ len'[p] = len[p]
    BY <1>1, <1>6, <1>7, <2>1 DEF TypeOK
  <2>4. IsPair(p)' = IsPair(p)
    BY <2>3 DEF IsPair
  <2>5. CASE p = NIL
    BY <2>4, <2>5 DEF Succ
  <2>6. CASE p = SINK
    BY <2>2, <2>4, <2>6, CellFacts DEF Succ
  <2>7. CASE p \in Cell
    BY <2>2, <2>3, <2>4, <2>7 DEF Succ
  <2> QED BY <2>4, <2>5, <2>6, <2>7 DEF InUse
<1>16. /\ Succ(x)' = body
       /\ \A c \in body : Succ(c)' = {NIL}
  <2>1. kind'[x] = "vector" /\ len'[x] = n - 1 /\ x \in Cell /\ x # NIL /\ x # SINK
    BY <1>1, <1>6, <1>7, <1>8 DEF TypeOK
  <2>2. Succ(x)' = body
    <3>1. Succ(x)' = (x + 1) .. (x + (n - 1))
      BY <2>1 DEF Succ
    <3>2. x + (n - 1) = x + n - 1
      BY <1>4, <1>7
    <3> QED BY <3>1, <3>2 DEF body
  <2>3. ASSUME NEW c \in body  PROVE Succ(c)' = {NIL}
    <3>1. kind'[c] = "pair" /\ c # NIL /\ car'[c] = NIL /\ cdr'[c] = NIL
      BY <1>6, <1>7, <1>8, <1>10
    <3> QED BY <3>1 DEF Succ
  <2> QED BY <2>2, <2>3
<1>17. /\ Recent' = Recent /\ Registers' = Registers /\ cdr'[SINK] = cdr[SINK]
       /\ Roots' \subseteq Roots \cup {x, NIL}
  <2>1. SINK \in Mem \ Free
    BY CellFacts DEF Mem, Free
  <2>2. Recent' = Recent /\ Registers' = Registers /\ cdr'[SINK] = cdr[SINK]
    BY <1>6, <1>10, <2>1 DEF Recent, Registers
  <2> QED BY <1>13, <2>2 DEF Roots
<1>18. LinksInUse'
  <2>1. ASSUME NEW p \in InUse'
        PROVE  /\ Succ(p)' \subseteq InUse'
               /\ ~no_memory => SINK \notin Succ(p)'
    <3>1. CASE p \in InUse
      BY <1>1, <1>9, <1>15, <3>1 DEF LinksInUse
    <3>2. CASE p = x
      BY <1>7, <1>8, <1>9, <1>16, <3>2
    <3>3. CASE p \in body
      BY <1>9, <1>16, <3>3, CellFacts DEF InUse
    <3> QED BY <1>7, <1>9, <3>1, <3>2, <3>3
  <2>2. Roots' \subseteq InUse'
    BY <1>1, <1>7, <1>9, <1>17 DEF LinksInUse, InUse
  <2>3. ~no_memory => SINK \notin Roots'
    BY <1>1, <1>7, <1>8, <1>17, CellFacts DEF LinksInUse
  <2> QED BY <1>1, <1>6, <1>17, <2>1, <2>2, <2>3 DEF LinksInUse
<1>19. ElementCells'
  <2>1. ASSUME NEW v \in Cell, kind'[v] = "vector", NEW c \in Succ(v)'
        PROVE  c \in Cell /\ kind'[c] = "pair"
    <3>1. CASE v = x
      BY <1>6, <1>7, <1>8, <1>16, <2>1, <3>1
    <3>2. CASE v # x
      <4>1. kind[v] = "vector" /\ v \in InUse
        BY <1>6, <2>1, <3>2 DEF InUse
      <4>2. c \in Cell /\ kind[c] = "pair"
        BY <1>1, <1>15, <2>1, <4>1 DEF ElementCells
      <4> QED BY <1>6, <1>7, <1>8, <4>2
    <3> QED BY <3>1, <3>2
  <2> QED BY <2>1 DEF ElementCells
<1>20. PendingOperands'
  BY <1>13 DEF PendingOperands
<1>21. RecentKeepsLocal'
  <2> SUFFICES ASSUME ~no_memory  PROVE RecentKeepsLocal'
    BY <1>6 DEF RecentKeepsLocal
  <2>1. /\ \A p \in local : p = NIL \/ \E g \in Holders : car[g] = p
        /\ \A g \in Holders : g # SINK /\ IsPair(g) /\ car[g] \notin Holders
        /\ \A p \in InUse \ (Holders \cup {SINK}) : Succ(p) \cap Holders = {}
        /\ (Registers \cup local \cup {call.a, call.b, call.x}) \cap Holders = {}
    BY DEF HeapInv, RecentKeepsLocal
  <2>2. \A g \in Holders : /\ g \in InUse /\ g # NIL /\ g \in Mem \ Free
    BY <1>1, HoldersFacts, CellFacts DEF InUse, Mem, Free
  <2>3. \A g \in Holders : /\ g \in InUse' /\ IsPair(g)'
                           /\ car'[g] = car[g] /\ cdr'[g] = cdr[g]
    BY <1>9, <1>10, <1>15, <2>1, <2>2
  <2>4. Holders' = Holders /\ run \cap Holders = {} /\ NIL \notin Holders
    BY <1>1, <1>8, <1>17, <2>1, <2>2, <2>3, HoldersStable
  <2>5. ASSUME NEW p \in InUse' \ (Holders \cup {SINK})
        PROVE  Succ(p)' \cap Holders = {}
    <3>1. CASE p \in InUse
      BY <1>15, <2>1, <2>5, <3>1
    <3>2. CASE p = x
      BY <1>7, <1>16, <2>4, <3>2
    <3>3. CASE p \in body
      BY <1>16, <2>4, <3>3
    <3> QED BY <1>7, <1>9, <2>5, <3>1, <3>2, <3>3
  <2>6. \A p \in local' : p = NIL \/ \E g \in Holders' : car'[g] = p
    BY <1>13, <2>1, <2>3, <2>4
  <2>7. \A g \in Holders' : g # SINK /\ IsPair(g)' /\ car'[g] \notin Holders'
    BY <2>1, <2>3, <2>4
  <2>8. (Registers' \cup local' \cup {call'.a, call'.b, call'.x}) \cap Holders' = {}
    BY <1>7, <1>13, <1>17, <2>1, <2>4
  <2> QED BY <2>4, <2>5, <2>6, <2>7, <2>8 DEF RecentKeepsLocal
<1> QED BY <1>12, <1>14, <1>18, <1>19, <1>20, <1>21 DEF HeapInv

---------------------------------------------------------------------------
(* The theorems.                                                           *)

LEMMA StepInv == HeapInv /\ [Next]_vars => HeapInv'
<1> SUFFICES ASSUME HeapInv, [Next]_vars PROVE HeapInv'
  OBVIOUS
<1>1. CASE Allocator
  BY <1>1, PopFreeInv, DeliverSinkInv, CollectInv, GrowInv, GrowFailsInv,
     FindRunInv, NoRunInv DEF Allocator
<1>2. CASE Opcode
  <2>1. CASE \/ \E a \in local \cup {NIL}, b \in Registers : cons(a, b)
             \/ \E n \in 0 .. MaxVec : mk_vector(n)
             \/ \E r \in Regs : push_recent_alloc(r)
    BY <2>1, CallsInv
  <2>2. CASE \E r \in Regs : \E p \in Held \cup UNION {Elements(h) : h \in Held} :
               SetRegister(r, p)
    BY <2>2, SetRegisterInv
  <2>3. CASE \E h \in Registers : \E c \in Fields(h), p \in Held : SetField(c, p)
    BY <2>3, SetFieldInv
  <2>4. CASE ok_to_freely_gc \/ OP_GC
    BY <2>4, ok_to_freely_gcInv, CollectInv
  <2> QED BY <1>2, <2>1, <2>2, <2>3, <2>4 DEF Opcode
<1>3. CASE UNCHANGED vars
  <2>1. /\ UNCHANGED <<memory, segs, freeList, no_memory>>
        /\ reg' = reg /\ local' = local /\ call' = call
    BY <1>3 DEF vars, memory, freeList
  <2>2. PendingOperands'
    BY <1>3 DEF vars, HeapInv, PendingOperands, IsPair
  <2>3. Registers' = Registers
    BY <2>1 DEF Registers
  <2> QED BY <2>1, <2>2, <2>3, SameMemoryInv DEF HeapInv, TypeOK
<1> QED BY <1>1, <1>2, <1>3 DEF Next

(* HeapInv holds in every state, for every heap.                           *)
THEOREM HeapInvariant == Spec => []HeapInv
<1>1. Init => HeapInv
  BY InitInv
<1>2. HeapInv /\ [Next]_vars => HeapInv'
  BY StepInv
<1> QED BY <1>1, <1>2, PTL DEF Spec

(* Type correctness of the allocator, the collector and their operations.  *)
THEOREM HeapTypeOK == Spec => []TypeOK
<1>1. HeapInv => TypeOK
  BY DEF HeapInv
<1> QED BY <1>1, HeapInvariant, PTL

(* The free list always threads exactly the free cells, in address order,  *)
(* each once, and fcells counts them.                                      *)
THEOREM FreeListTheorem == Spec => []FreeListExact
<1>1. HeapInv => FreeListExact
  BY DEF HeapInv
<1> QED BY <1>1, HeapInvariant, PTL

(* No cell in reach of the interpreter or of a pending allocation is free. *)
THEOREM NoDanglingTheorem == Spec => []NoDangling
<1>1. HeapInv => NoDangling
  <2> SUFFICES ASSUME HeapInv PROVE NoDangling
    OBVIOUS
  <2>1. LinksInUse /\ Roots \subseteq InUse
    BY DEF HeapInv, LinksInUse
  <2>2. Reach(Roots) \subseteq InUse
    BY <2>1, ReachFacts
  <2>3. \A p \in InUse : p \notin Free
    BY CellFacts DEF InUse, Free
  <2> QED BY <2>1, <2>2, <2>3 DEF NoDangling
<1> QED BY <1>1, HeapInvariant, PTL

(* What C variables of the running opcode hold hangs off the recent list,  *)
(* until memory has run out; the holders are in reach of nothing else.     *)
THEOREM RecentKeepsLocalTheorem == Spec => []RecentKeepsLocal
<1>1. HeapInv => RecentKeepsLocal
  BY DEF HeapInv
<1> QED BY <1>1, HeapInvariant, PTL

(* The allocator gives up only when it has to: at the step that sets       *)
(* no_memory nothing free is left that would do.                           *)
THEOREM GivesUpLastTheorem == Spec => GivesUpLast
<1> DEFINE Last == no_memory' /\ ~no_memory =>
                     IF call.fn = "get_vector_object" THEN Runs(call.n) = {}
                     ELSE Free = {}
<1>1. HeapInv /\ [Next]_vars => [Last]_vars
  <2> SUFFICES ASSUME HeapInv, Next, no_memory', ~no_memory
               PROVE  IF call.fn = "get_vector_object" THEN Runs(call.n) = {}
                      ELSE Free = {}
    BY DEF vars
  <2>1. DeliverSink \/ NoRun
    BY DEF Next, Allocator, Opcode, PopFree, Collect, Grow, GrowFails, FindRun,
           TakeRun, cons, mk_vector, push_recent_alloc, SetRegister, SetField,
           ok_to_freely_gc, OP_GC, alloc_cellseg
  <2>2. CASE DeliverSink
    <3>1. Free \subseteq Nat \ {0}
      BY FreeFacts DEF HeapInv
    <3>2. First(Free) = NIL
      BY <2>2 DEF DeliverSink, HeapInv, FreeListExact
    <3> QED BY <2>2, <3>1, <3>2, FirstIs DEF DeliverSink, WantsCell
  <2>3. CASE NoRun
    BY <2>3 DEF NoRun
  <2> QED BY <2>1, <2>2, <2>3
<1>2. Spec => [][Last]_vars
  BY <1>1, HeapInvariant, PTL DEF Spec
<1> QED BY <1>2 DEF GivesUpLast
---------------------------------------------------------------------------
(* Vectors are heads with their elements in the cells behind them, with no *)
(* pointer from the one to the others: every cell behind a head stays that *)
(* vector's own.                                                           *)

Vectors == {v \in Cell : kind[v] = "vector"}

Body(v) == (v + 1) .. (v + len[v])

(* The cells that hold elements.                                           *)
Behinds == {c \in Cell : \E v \in Vectors : c \in Body(v)}

(* Of all vectors, in reach or not: no pair and no root leads into one, no *)
(* two overlap, and each lies within a segment.                            *)
VecInv ==
  /\ \A v \in Vectors : \E b \in segs : v \in Segment(b) /\ v + len[v] \in Segment(b)
  /\ \A v, w \in Vectors : v # w => Body(v) \cap Body(w) = {}
  /\ Roots \cap Behinds = {}
  /\ \A p \in Mem : IsPair(p) => car[p] \notin Behinds /\ cdr[p] \notin Behinds

(* Elements are in pairs of their own, so never in cells that are free, or *)
(* in no segment, or the sink or NIL.                                      *)
LEMMA BehindsArePairs ==
  ASSUME HeapInv
  PROVE  /\ \A c \in Behinds : c \in Cell /\ kind[c] = "pair"
         /\ NIL \notin Behinds /\ SINK \notin Behinds
<1>1. \A v \in Vectors : v \in Cell /\ v # NIL /\ v # SINK /\ Succ(v) = Body(v)
  BY CellFacts DEF Vectors, Body, Succ
<1>2. ASSUME NEW c \in Behinds  PROVE c \in Cell /\ kind[c] = "pair"
  <2>1. PICK v \in Vectors : c \in Body(v)
    BY DEF Behinds
  <2> QED BY <1>1, <2>1 DEF HeapInv, ElementCells, Vectors
<1> QED BY <1>2, CellFacts

(* A step that makes no vector, and no pointer into one.                   *)
LEMMA VectorsStay ==
  ASSUME VecInv, segs \subseteq segs',
         \A v \in Cell : kind'[v] = "vector" => kind[v] = "vector" /\ len'[v] = len[v],
         Roots' \cap Behinds = {},
         \A p \in Mem : IsPair(p)' => car'[p] \notin Behinds /\ cdr'[p] \notin Behinds
  PROVE  VecInv'
<1>1. Vectors' \subseteq Vectors /\ \A v \in Vectors' : Body(v)' = Body(v)
  BY DEF Vectors, Body
<1>2. Behinds' \subseteq Behinds
  BY <1>1 DEF Behinds
<1>3. \A v \in Vectors' : \E b \in segs' : v \in Segment(b) /\ v + len'[v] \in Segment(b)
  BY <1>1 DEF VecInv, Vectors
<1>4. \A v, w \in Vectors' : v # w => Body(v)' \cap Body(w)' = {}
  BY <1>1 DEF VecInv
<1> QED BY <1>2, <1>3, <1>4 DEF VecInv

(* In particular one that leaves the memory alone.                         *)
LEMMA VectorsSame ==
  ASSUME VecInv, HeapInv, UNCHANGED <<kind, len, car, cdr, segs>>,
         \A p \in Roots' : p \in Roots \cup {NIL, SINK} \/ p \notin Behinds
  PROVE  VecInv'
<1>1. Roots' \cap Behinds = {}
  BY BehindsArePairs DEF VecInv
<1>2. \A p \in Mem : IsPair(p)' => car'[p] \notin Behinds /\ cdr'[p] \notin Behinds
  BY DEF VecInv, IsPair
<1> QED BY <1>1, <1>2, VectorsStay

LEMMA InitVec == Init => VecInv
<1> SUFFICES ASSUME Init PROVE VecInv
  OBVIOUS
<1>1. \A c \in Cell : kind[c] # "vector"
  BY DEF Init
<1>2. Vectors = {} /\ Behinds = {}
  BY <1>1 DEF Vectors, Behinds
<1> QED BY <1>2 DEF VecInv

(* A cell is delivered: it was free, or it is the sink.                    *)
LEMMA DeliverVec ==
  ASSUME HeapInv, VecInv, NEW x \in Free \cup {SINK}, Deliver(x, cdr), WantsCell,
         UNCHANGED <<segs, reg>>
  PROVE  VecInv'
<1>1. TypeOK /\ LinksInUse /\ PendingOperands
  BY DEF HeapInv
<1>2. x \in Mem /\ x \notin Behinds
  BY BehindsArePairs DEF Free, Mem
<1> DEFINE New == {x, call.a, call.b, call.x, Recent}
<1>3. New \cap Behinds = {}
  BY <1>2 DEF VecInv, Roots
<1>4. car \in [Mem -> Ptr] /\ cdr \in [Mem -> Ptr] /\ kind \in [Cell -> {"absent", "free", "pair", "vector"}]
      /\ SINK \in Mem
  BY <1>1 DEF TypeOK, Mem
<1>5. len' = len /\ \A c \in Cell : kind'[c] = IF c = x THEN "pair" ELSE kind[c]
  BY <1>4, CellFacts DEF Deliver, Free
<1>6. /\ \A p \in Mem : p # x => car'[p] \in New \cup {car[p]}
                              /\ cdr'[p] \in New \cup {cdr[p]}
      /\ car'[x] \in New /\ cdr'[x] \in New
  <2>1. CASE call.fn = "get_cell"
    BY <1>2, <1>4, <2>1 DEF Deliver
  <2>2. CASE call.fn # "get_cell"
    <3> DEFINE cars == [car EXCEPT ![x] = call.x, ![SINK] = x]
               cdrs == [cdr EXCEPT ![x] = IF x = SINK THEN call.x ELSE Recent]
    <3>1. \/ car' = cars /\ cdr' = cdrs
          \/ car' = [cars EXCEPT ![call.x] = call.a] /\ cdr' = [cdrs EXCEPT ![call.x] = call.b]
      BY <2>2 DEF Deliver
    <3>2. /\ DOMAIN cars = Mem /\ DOMAIN cdrs = Mem
          /\ \A p \in Mem : p # x => cars[p] \in New \cup {car[p]}
                                  /\ cdrs[p] \in New \cup {cdr[p]}
          /\ cars[x] \in New /\ cdrs[x] \in New
      BY <1>2, <1>4
    <3> HIDE DEF cars, cdrs
    <3> QED BY <1>2, <3>1, <3>2
  <2> QED BY <2>1, <2>2
<1>7. Roots' \subseteq Roots \cup New \cup {NIL, car'[SINK]}
  <2>1. CASE call.fn = "get_cell"
    <3>1. call' = [call EXCEPT !.fn = "hold_cons", !.x = x, !.stage = "take"] /\ local' = local
      BY <2>1 DEF Deliver
    <3>2. call'.a = call.a /\ call'.b = call.b /\ call'.x = x
      BY <1>1, <3>1 DEF TypeOK, Call
    <3> QED BY <3>1, <3>2 DEF Roots, Registers, Recent
  <2>2. CASE call.fn # "get_cell"
    <3>1. call' = Idle /\ local' = local \cup {call.x}
      BY <2>2 DEF Deliver
    <3> QED BY <3>1 DEF Roots, Registers, Recent, Idle
  <2> QED BY <2>1, <2>2
<1>8. Roots' \cap Behinds = {}
  <2>1. car'[SINK] \in New \cup {Recent}
    BY <1>4, <1>6 DEF Recent
  <2>2. NIL \notin Behinds
    BY BehindsArePairs
  <2> QED BY <1>3, <1>7, <2>1, <2>2 DEF VecInv
<1>9. \A p \in Mem : IsPair(p)' => car'[p] \notin Behinds /\ cdr'[p] \notin Behinds
  <2> SUFFICES ASSUME NEW p \in Mem, IsPair(p)'
               PROVE  car'[p] \notin Behinds /\ cdr'[p] \notin Behinds
    OBVIOUS
  <2>1. CASE p = x
    BY <1>3, <1>6, <2>1
  <2>2. CASE p # x
    <3>1. IsPair(p)
      BY <1>5, <2>2 DEF IsPair
    <3> QED BY <1>3, <1>6, <2>2, <3>1 DEF VecInv
  <2> QED BY <2>1, <2>2
<1>10. \A v \in Cell : kind'[v] = "vector" => kind[v] = "vector" /\ len'[v] = len[v]
  BY <1>5
<1> QED BY <1>8, <1>9, <1>10, VectorsStay

(* A collection frees cells and changes nothing else.                      *)
LEMMA GcVec ==
  ASSUME HeapInv, VecInv, gc, UNCHANGED <<segs, reg, local>>,
         call'.a = call.a, call'.b = call.b, call'.x = call.x
  PROVE  VecInv'
<1> DEFINE dead == (UNION {Segment(b) : b \in segs}) \ Marked
<1>1. dead \subseteq Cell
  BY CellFacts DEF HeapInv, TypeOK
<1>2. /\ kind' = [c \in Cell |-> IF c \in dead THEN "free" ELSE kind[c]]
      /\ len' = [c \in Cell |-> IF c \in dead THEN 0 ELSE len[c]]
      /\ \A p \in Mem \ dead : car'[p] = car[p] /\ cdr'[p] = cdr[p]
  BY DEF gc, Sweep
<1> HIDE DEF dead
<1>3. SINK \in Mem \ dead
  BY <1>1, CellFacts DEF Mem
<1>4. Roots' = Roots
  BY <1>2, <1>3 DEF Roots, Registers, Recent
<1>5. \A p \in Mem : IsPair(p)' => p \notin dead /\ IsPair(p)
  BY <1>1, <1>2, <1>3 DEF IsPair
<1> QED BY <1>2, <1>4, <1>5, VectorsStay DEF VecInv

(* A new segment: its cells are free, and so is the one in front of it.    *)
LEMMA GrowVec == HeapInv /\ VecInv /\ Grow => VecInv'
<1> SUFFICES ASSUME HeapInv, VecInv, Grow PROVE VecInv'
  OBVIOUS
<1>1. PICK b \in SegBase : alloc_cellseg(b)
  BY DEF Grow
<1>2. /\ b \notin segs /\ segs' = segs \cup {b} /\ len' = len
      /\ kind' = [c \in Cell |-> IF c \in Segment(b) THEN "free" ELSE kind[c]]
      /\ \A p \in Mem : p \notin Segment(b) => car'[p] = car[p]
      /\ \A p \in Mem : p \notin Segment(b) => cdr'[p] \in {cdr[p], b}
  <2>1. b + SegSize - 1 \in Segment(b)
    BY HeapAssumption DEF Segment
  <2> QED BY <1>1, <2>1 DEF alloc_cellseg
<1>3. Segment(b) \subseteq Cell /\ SINK \notin Segment(b) /\ b \in Segment(b)
  BY CellFacts, HeapAssumption DEF Segment
<1>4. kind[b] = "absent"
  <2>1. \A d \in segs : Segment(d) \cap Segment(b) = {}
    BY <1>2, CellFacts DEF HeapInv, TypeOK
  <2> QED BY <1>3, <2>1 DEF HeapInv, TypeOK
<1>5. b \notin Behinds
  BY <1>4, BehindsArePairs
<1>6. Roots' = Roots
  <2>1. call' = [call EXCEPT !.stage = "ready"] /\ UNCHANGED <<reg, local>>
    BY DEF Grow
  <2>2. call'.a = call.a /\ call'.b = call.b /\ call'.x = call.x
    BY <2>1 DEF HeapInv, TypeOK, Call
  <2> QED BY <1>2, <1>3, <2>1, <2>2 DEF Roots, Registers, Recent, Mem
<1>7. \A p \in Mem : IsPair(p)' => p \notin Segment(b) /\ IsPair(p)
  BY <1>2, <1>3 DEF IsPair
<1>8. \A p \in Mem : IsPair(p)' => car'[p] \notin Behinds /\ cdr'[p] \notin Behinds
  BY <1>2, <1>5, <1>7 DEF VecInv
<1> QED BY <1>2, <1>6, <1>8, VectorsStay DEF VecInv

(* A run of free cells lies within one segment, because segments do not    *)
(* touch.                                                                  *)
LEMMA RunInSegment ==
  ASSUME TypeOK, NEW x \in Cell, NEW n \in Nat \ {0}, x .. (x + n - 1) \subseteq Free
  PROVE  \E b \in segs : x \in Segment(b) /\ x + (n - 1) \in Segment(b)
<1>1. x \in Nat /\ x \in x .. (x + n - 1) /\ x + n - 1 \in x .. (x + n - 1)
  BY CellFacts
<1>2. \A c \in Free : c \in Cell /\ \E b \in segs : c \in Segment(b)
  BY DEF Free, TypeOK
<1>3. PICK b \in segs : x \in Segment(b)
  BY <1>1, <1>2
<1>4. b \in SegBase /\ b \in Nat /\ SegSize \in Nat \ {0}
  BY HeapAssumption DEF TypeOK
<1>5. b + SegSize \notin Cell
  <2> SUFFICES ASSUME NEW d \in SegBase, b + SegSize \in Segment(d)  PROVE FALSE
    BY DEF Cell
  <2>1. d \in Nat /\ d <= b + SegSize /\ b + SegSize < d + SegSize
    BY <1>4, HeapAssumption DEF Segment
  <2>2. b < d
    BY <1>4, <2>1
  <2> QED BY <1>4, <2>1, <2>2, HeapAssumption
<1>6. b <= x /\ x < b + SegSize
  BY <1>1, <1>3, <1>4 DEF Segment
<1>7. x + n - 1 < b + SegSize
  <2> SUFFICES ASSUME ~ (x + n - 1 < b + SegSize)  PROVE FALSE
    OBVIOUS
  <2>1. b + SegSize \in x .. (x + n - 1)
    BY <1>1, <1>4, <1>6
  <2> QED BY <1>2, <1>5, <2>1
<1>8. x + (n - 1) \in Segment(b)
  BY <1>1, <1>4, <1>6, <1>7 DEF Segment
<1> QED BY <1>3, <1>8

(* The one step that makes a vector makes it of free cells, to which       *)
(* nothing in use leads.                                                   *)
LEMMA FindRunVec == HeapInv /\ VecInv /\ FindRun => VecInv'
<1> SUFFICES ASSUME HeapInv, VecInv, FindRun PROVE VecInv'
  OBVIOUS
<1>1. TypeOK /\ FreeListExact /\ LinksInUse /\ PendingOperands
  BY DEF HeapInv
<1>2. PICK n \in Nat \ {0} : n = call.n
  BY <1>1 DEF FindRun, PendingOperands, TypeOK, Call
<1>3. PICK x \in Runs(n) : TakeRun(x, n)
  <2>1. Runs(n) \subseteq Nat /\ Runs(n) # {}
    BY <1>2, CellFacts DEF FindRun, Runs, Free
  <2>2. Lowest(Runs(n)) \in Runs(n)
    BY <2>1, LowestIs
  <2> QED BY <1>2, <2>2 DEF FindRun
<1> DEFINE run == x .. (x + n - 1)
           body == (x + 1) .. (x + n - 1)
<1>4. x \in Cell /\ x \in Nat /\ run \subseteq Free
  BY <1>3, CellFacts DEF Runs, Fits, Free
<1>6. body \subseteq Free /\ x \in Free /\ x \notin body /\ Free \subseteq Cell
  BY <1>2, <1>4 DEF Free
<1>7. /\ kind' = [c \in Cell |-> IF c = x THEN "vector"
                                 ELSE IF c \in body THEN "pair" ELSE kind[c]]
      /\ len' = [len EXCEPT ![x] = n - 1]
      /\ car' = [p \in Mem |-> IF p \in body THEN NIL ELSE car[p]]
      /\ cdr' = [p \in Mem |-> IF p \in body \cup {x} THEN NIL
                               ELSE IF p \in Free /\ cdr[p] = x THEN Rest(x, n)
                               ELSE cdr[p]]
      /\ call' = [Idle EXCEPT !.fn = "hold", !.x = x]
      /\ UNCHANGED <<segs, reg, local>>
  BY <1>3 DEF TakeRun
<1> HIDE DEF run
<1>8. Vectors' = Vectors \cup {x} /\ x \notin Vectors
  BY <1>4, <1>6, <1>7 DEF Vectors, Free
<1>9. /\ \A v \in Vectors : len'[v] = len[v] /\ Body(v)' = Body(v)
      /\ len'[x] = n - 1 /\ Body(x)' = body
  <2>1. len \in [Cell -> Nat]
    BY <1>1 DEF TypeOK
  <2>2. len'[x] = n - 1 /\ \A v \in Vectors : len'[v] = len[v]
    BY <1>4, <1>7, <1>8, <2>1 DEF Vectors
  <2>3. x + (n - 1) = x + n - 1
    BY <1>2, <1>4
  <2> QED BY <2>2, <2>3 DEF Body
<1>10. Behinds' \subseteq Behinds \cup body
  BY <1>8, <1>9 DEF Behinds
<1>11. \A v \in Vectors : Body(v) \subseteq Behinds
  <2> SUFFICES ASSUME NEW v \in Vectors, NEW c \in Body(v)  PROVE c \in Cell
    BY DEF Behinds
  <2>1. c \in Succ(v)
    BY CellFacts DEF Vectors, Body, Succ
  <2> QED BY <2>1 DEF HeapInv, ElementCells, Vectors
<1>12. Behinds \cap Free = {}
  BY BehindsArePairs DEF Free
<1>13. \A v \in Vectors' : \E b \in segs' : v \in Segment(b) /\ v + len'[v] \in Segment(b)
  <2>1. \E b \in segs : x \in Segment(b) /\ x + (n - 1) \in Segment(b)
    BY <1>1, <1>2, <1>4, RunInSegment DEF run
  <2> QED BY <1>7, <1>8, <1>9, <2>1 DEF VecInv
<1>14. \A v, w \in Vectors' : v # w => Body(v)' \cap Body(w)' = {}
  <2>1. \A v \in Vectors : Body(v) \cap body = {}
    BY <1>6, <1>11, <1>12
  <2>2. \A v, w \in Vectors : v # w => Body(v) \cap Body(w) = {}
    BY DEF VecInv
  <2> HIDE DEF body
  <2> SUFFICES ASSUME NEW v \in Vectors', NEW w \in Vectors', v # w
               PROVE  Body(v)' \cap Body(w)' = {}
    OBVIOUS
  <2>3. CASE v \in Vectors /\ w \in Vectors
    BY <1>9, <2>2, <2>3
  <2>4. CASE v \in Vectors /\ w = x
    BY <1>9, <2>1, <2>4
  <2>5. CASE v = x /\ w \in Vectors
    BY <1>9, <2>1, <2>5
  <2> QED BY <1>8, <2>3, <2>4, <2>5
<1>15. InUse \cap Free = {} /\ NIL \notin Free
  BY CellFacts DEF InUse, Free
<1>16. Roots' \cap Behinds' = {}
  <2>1. Roots' \subseteq Roots \cup {x, NIL}
    <3>1. SINK \in Mem /\ SINK \notin body
      BY <1>6, CellFacts DEF Mem
    <3> QED BY <1>7, <3>1 DEF Roots, Registers, Recent, Idle
  <2>2. Roots \cap body = {}
    BY <1>1, <1>6, <1>15 DEF LinksInUse
  <2>3. NIL \notin Behinds
    BY BehindsArePairs
  <2> QED BY <1>6, <1>10, <1>12, <1>15, <2>1, <2>2, <2>3 DEF VecInv
<1>17. \A p \in Mem : IsPair(p)' => car'[p] \notin Behinds' /\ cdr'[p] \notin Behinds'
  <2> SUFFICES ASSUME NEW p \in Mem, IsPair(p)'
               PROVE  {car'[p], cdr'[p]} \cap Behinds' = {}
    OBVIOUS
  <2>1. CASE p \in body
    <3>1. car'[p] = NIL /\ cdr'[p] = NIL
      BY <1>7, <2>1
    <3> QED BY <1>6, <1>10, <1>15, <3>1, BehindsArePairs
  <2>2. CASE p \notin body
    <3>1. p # x /\ IsPair(p)
      BY <1>4, <1>7, <2>2, CellFacts DEF IsPair
    <3>2. p \in InUse /\ p \notin Free /\ p # NIL
      BY <3>1, CellFacts DEF IsPair, InUse, Free
    <3>3. car'[p] = car[p] /\ cdr'[p] = cdr[p]
      BY <1>7, <2>2, <3>1, <3>2
    <3>4. {car[p], cdr[p]} \subseteq InUse
      BY <1>1, <3>1, <3>2 DEF LinksInUse, Succ, IsPair
    <3> QED BY <1>6, <1>10, <1>15, <3>1, <3>3, <3>4 DEF VecInv
  <2> QED BY <2>1, <2>2
<1> QED BY <1>13, <1>14, <1>16, <1>17 DEF VecInv

(* The opcode: what it finds in what it holds are never elements' cells.   *)
LEMMA OpcodeVec == HeapInv /\ VecInv /\ Opcode => VecInv'
<1> SUFFICES ASSUME HeapInv, VecInv, Opcode PROVE VecInv'
  OBVIOUS
<1>1. Held \cap Behinds = {}
  BY BehindsArePairs DEF Held, VecInv, Roots
<1>2. CASE \E a \in local \cup {NIL}, b \in Registers : cons(a, b)
  <2> PICK a \in local \cup {NIL}, b \in Registers : cons(a, b)
    BY <1>2
  <2>1. Roots' \subseteq Roots \cup {NIL}
    BY DEF cons, Roots, Registers, Recent, Idle, memory
  <2> QED BY <2>1, VectorsSame DEF cons, memory
<1>3. CASE \E n \in 0 .. MaxVec : mk_vector(n)
  <2> PICK n \in 0 .. MaxVec : mk_vector(n)
    BY <1>3
  <2>1. Roots' \subseteq Roots \cup {NIL}
    BY DEF mk_vector, Roots, Registers, Recent, Idle, memory
  <2> QED BY <2>1, VectorsSame DEF mk_vector, memory
<1>4. CASE \E r \in Regs : push_recent_alloc(r)
  <2> PICK r \in Regs : push_recent_alloc(r)
    BY <1>4
  <2>1. Roots' \subseteq Roots \cup {NIL}
    BY DEF push_recent_alloc, Roots, Registers, Recent, Idle, memory
  <2> QED BY <2>1, VectorsSame DEF push_recent_alloc, memory
<1>5. CASE \E r \in Regs : \E p \in Held \cup UNION {Elements(h) : h \in Held} :
             SetRegister(r, p)
  <2> PICK r \in Regs, p \in Held \cup UNION {Elements(h) : h \in Held} :
             SetRegister(r, p)
    BY <1>5
  <2>1. p \notin Behinds
    <3>1. CASE p \in Held
      BY <1>1, <3>1
    <3>2. CASE \E h \in Held : p \in Elements(h)
      <4> PICK h \in Held : p \in Elements(h)
        BY <3>2
      <4>1. CASE h \in Cell /\ kind[h] = "vector"
        <5>1. PICK c \in Succ(h) : p = car[c] \/ p = cdr[c]
          BY <4>1 DEF Elements
        <5>2. c \in Mem /\ IsPair(c)
          BY <4>1, <5>1 DEF HeapInv, ElementCells, IsPair, Mem
        <5> QED BY <5>1, <5>2 DEF VecInv
      <4>2. CASE ~ (h \in Cell /\ kind[h] = "vector")
        <5>1. h \in Ptr
          BY DEF Held, Registers, HeapInv, TypeOK, Ptr
        <5>2. p \in Succ(h)
          BY <4>2 DEF Elements
        <5>3. h \in Mem /\ IsPair(h) /\ p \in {car[h], cdr[h]}
          BY <4>2, <5>1, <5>2, CellFacts DEF Succ, IsPair, Ptr, Mem
        <5> QED BY <5>3 DEF VecInv
      <4> QED BY <4>1, <4>2
    <3> QED BY <3>1, <3>2
  <2>2. Roots' \subseteq Roots \cup {p}
    <3>1. reg' = [reg EXCEPT ![r] = p] /\ UNCHANGED <<memory, local, call>>
      BY DEF SetRegister
    <3>2. reg \in [Regs -> Ptr]
      BY DEF HeapInv, TypeOK
    <3>3. Registers' \subseteq Registers \cup {p}
      BY <3>1, <3>2 DEF Registers
    <3> QED BY <3>1, <3>3 DEF Roots, Recent, memory
  <2> QED BY <2>1, <2>2, VectorsSame DEF SetRegister, memory
<1>6. CASE \E h \in Registers : \E c \in Fields(h), p \in Held : SetField(c, p)
  <2> PICK h \in Registers : \E c \in Fields(h), p \in Held : SetField(c, p)
    BY <1>6
  <2> PICK c \in Fields(h), p \in Held : SetField(c, p)
    OBVIOUS
  <2>1. /\ UNCHANGED <<kind, len, segs, reg, local, call>>
        /\ \/ car' = [car EXCEPT ![c] = p] /\ cdr' = cdr
           \/ cdr' = [cdr EXCEPT ![c] = p] /\ car' = car
    BY DEF SetField
  <2>2. car \in [Mem -> Ptr] /\ cdr \in [Mem -> Ptr] /\ SINK \in Mem
    BY DEF HeapInv, TypeOK, Mem
  <2>3. \A q \in Mem : car'[q] \in {car[q], p} /\ cdr'[q] \in {cdr[q], p}
    BY <2>1, <2>2
  <2>4. Roots' \subseteq Roots \cup {p}
    BY <2>1, <2>2, <2>3 DEF Roots, Registers, Recent
  <2>5. \A q \in Mem : IsPair(q)' => car'[q] \notin Behinds /\ cdr'[q] \notin Behinds
    BY <1>1, <2>1, <2>3 DEF VecInv, IsPair
  <2> QED BY <1>1, <2>1, <2>4, <2>5, VectorsStay DEF VecInv
<1>7. CASE ok_to_freely_gc
  <2>1. /\ UNCHANGED <<kind, len, cdr, segs, reg, call>> /\ local' = {}
        /\ car' = [car EXCEPT ![SINK] = NIL]
    BY <1>7 DEF ok_to_freely_gc
  <2>2. car \in [Mem -> Ptr] /\ SINK \in Mem
    BY DEF HeapInv, TypeOK, Mem
  <2>3. \A q \in Mem : car'[q] \in {car[q], NIL}
    BY <2>1, <2>2
  <2>4. Roots' \subseteq Roots \cup {NIL}
    BY <2>1, <2>2, <2>3 DEF Roots, Registers, Recent
  <2>5. NIL \notin Behinds
    BY BehindsArePairs
  <2>6. \A q \in Mem : IsPair(q)' => car'[q] \notin Behinds /\ cdr'[q] \notin Behinds
    BY <2>1, <2>3, <2>5 DEF VecInv, IsPair
  <2> QED BY <2>1, <2>4, <2>5, <2>6, VectorsStay DEF VecInv
<1>8. CASE OP_GC
  BY <1>8, GcVec DEF OP_GC
<1> QED BY <1>2, <1>3, <1>4, <1>5, <1>6, <1>7, <1>8 DEF Opcode

LEMMA StepVec == HeapInv /\ VecInv /\ [Next]_vars => VecInv'
<1> SUFFICES ASSUME HeapInv, VecInv, [Next]_vars PROVE VecInv'
  OBVIOUS
<1>1. TypeOK /\ FreeListExact
  BY DEF HeapInv
<1>2. CASE PopFree
  <2>1. free_cell \in Free
    BY <1>1, <1>2, FreeFacts, FirstIs DEF PopFree, FreeListExact
  <2> QED BY <1>2, <2>1, DeliverVec DEF PopFree
<1>3. CASE DeliverSink
  BY <1>3, DeliverVec DEF DeliverSink
<1>4. CASE Collect
  <2>1. call' = [call EXCEPT !.stage = "collected"]
    BY <1>4 DEF Collect
  <2>2. call'.a = call.a /\ call'.b = call.b /\ call'.x = call.x
    BY <1>1, <2>1 DEF TypeOK, Call
  <2> QED BY <1>4, <2>2, GcVec DEF Collect
<1>5. CASE GrowFails
  <2>1. call' = [call EXCEPT !.stage = "ready"] /\ UNCHANGED <<memory, segs, reg, local>>
    BY <1>5 DEF GrowFails
  <2>2. call'.a = call.a /\ call'.b = call.b /\ call'.x = call.x
    BY <1>1, <2>1 DEF TypeOK, Call
  <2>3. Roots' = Roots
    BY <2>1, <2>2 DEF Roots, Registers, Recent, memory
  <2> QED BY <2>1, <2>3, VectorsSame DEF memory
<1>6. CASE NoRun
  <2>1. call' = Idle /\ local' = local \cup {SINK} /\ UNCHANGED <<memory, segs, reg>>
    BY <1>6 DEF NoRun
  <2>2. Roots' \subseteq Roots \cup {NIL, SINK}
    BY <2>1 DEF Roots, Registers, Recent, memory, Idle
  <2> QED BY <2>1, <2>2, VectorsSame DEF memory
<1>7. CASE UNCHANGED vars
  <2>1. Roots' = Roots
    BY <1>7 DEF vars, Roots, Registers, Recent
  <2> QED BY <1>7, <2>1, VectorsSame DEF vars
<1> QED BY <1>2, <1>3, <1>4, <1>5, <1>6, <1>7, GrowVec, FindRunVec, OpcodeVec
        DEF Next, Allocator

(* The cells of a vector in reach stay together, in use, and its own: for  *)
(* every heap and any sequence of operations.                              *)
THEOREM VectorsIntactTheorem == Spec => []VectorsIntact
<1>1. Init => HeapInv /\ VecInv
  BY InitInv, InitVec
<1>2. HeapInv /\ VecInv /\ [Next]_vars => (HeapInv /\ VecInv)'
  BY StepInv, StepVec
<1>3. HeapInv /\ VecInv => VectorsIntact
  <2> SUFFICES ASSUME HeapInv, VecInv,
                      NEW v \in Reach(Roots) \cap Cell, kind[v] = "vector"
               PROVE  /\ \E b \in segs : v \in Segment(b) /\ v + len[v] \in Segment(b)
                      /\ \A c \in Succ(v) : kind[c] = "pair" /\ c \notin Roots
                      /\ \A p \in Reach(Roots) \ {v} : Succ(p) \cap Succ(v) = {}
    BY DEF VectorsIntact
  <2>1. v \in Vectors /\ Succ(v) = Body(v)
    BY CellFacts DEF Vectors, Succ, Body
  <2>2. \A c \in Succ(v) : c \in Behinds /\ kind[c] = "pair"
    BY <2>1 DEF HeapInv, ElementCells, Behinds
  <2>3. ASSUME NEW p \in Reach(Roots) \ {v}  PROVE Succ(p) \cap Succ(v) = {}
    <3>1. p \in InUse
      BY <2>3 DEF Reach
    <3>2. CASE p = NIL
      BY <3>2 DEF Succ
    <3>3. CASE p # NIL /\ p \in Mem /\ IsPair(p)
      <4>1. Succ(p) = {car[p], cdr[p]}
        BY <3>3 DEF Succ, IsPair
      <4> QED BY <2>2, <3>3, <4>1 DEF VecInv
    <3>4. CASE p \in Vectors
      <4>1. Succ(p) = Body(p) /\ p # v
        BY <3>4, CellFacts DEF Vectors, Succ, Body
      <4> QED BY <2>1, <3>4, <4>1 DEF VecInv
    <3> QED BY <3>1, <3>2, <3>3, <3>4, CellFacts DEF InUse, IsPair, Vectors, Mem
  <2> QED BY <2>1, <2>2, <2>3 DEF VecInv
<1> QED BY <1>1, <1>2, <1>3, PTL DEF Spec
---------------------------------------------------------------------------
(* The heap implements the abstract memory of module Store: every step of *)
(* the allocator, of the collector and of an opcode is, to the program,    *)
(* the creation of objects that were not in reach, a write of its own, a   *)
(* move of values, or nothing at all.                                      *)

(* What a pending call works with.                                         *)

(* Nothing leads to the cell that the pending call has taken.              *)
Fresh ==
  /\ call.x \in Cell
  /\ call.x \notin Registers \cup local
  /\ \A p \in InUse : call.x \notin Succ(p)

NewVector ==
  /\ kind[call.x] = "vector"
  /\ \A c \in Succ(call.x) : car[c] = NIL /\ cdr[c] = NIL

(* The operands come from what the opcode holds; the cell on its way to    *)
(* the recent list is new, or it is a register's value.                    *)
CallInv ==
  ~no_memory =>
    /\ call.fn \in {"get_cell", "hold_cons"} =>
         call.a \in local \cup {NIL} /\ call.b \in Registers
    /\ call.fn = "hold_cons" => Fresh /\ IsPair(call.x)
    /\ call.fn = "hold" => call.x \in Registers \/ (Fresh /\ NewVector)

(* A step that goes on with the call, and changes no cell in use that is   *)
(* still in use.                                                           *)
LEMMA CallStays ==
  ASSUME HeapInv, CallInv, no_memory' = no_memory, UNCHANGED <<reg, local>>,
         call'.fn = call.fn, call'.a = call.a, call'.b = call.b, call'.x = call.x,
         InUse' \subseteq InUse,
         call.fn \in {"hold_cons", "hold"} => {call.x} \cup Succ(call.x) \subseteq InUse',
         \A p \in InUse' : Succ(p)' = Succ(p),
         \A p \in InUse' \cap Cell : kind'[p] = kind[p] /\ car'[p] = car[p] /\ cdr'[p] = cdr[p]
  PROVE  CallInv'
<1> SUFFICES ASSUME ~no_memory PROVE CallInv'
  BY DEF CallInv
<1>1. Registers' = Registers
  BY DEF Registers
<1>2. call.fn \in {"hold_cons", "hold"} /\ Fresh => Fresh'
  BY <1>1 DEF Fresh
<1> PICK y : y = call.x
  OBVIOUS
<1>3. call.fn = "hold_cons" /\ Fresh /\ IsPair(call.x) => IsPair(call.x)'
  BY DEF IsPair, Fresh
<1>4. call.fn = "hold" /\ Fresh /\ NewVector => NewVector'
  <2> SUFFICES ASSUME call.fn = "hold", Fresh, NewVector  PROVE NewVector'
    OBVIOUS
  <2>1. y \in Cell /\ y \in InUse' /\ Succ(y)' = Succ(y) /\ Succ(y) \subseteq InUse'
    BY DEF Fresh
  <2>2. \A c \in Succ(y) : c \in Cell
    BY <2>1 DEF NewVector, HeapInv, ElementCells
  <2>3. Succ(call.x)' = Succ(y)
    BY <2>1
  <2> QED BY <2>1, <2>2, <2>3 DEF NewVector
<1> QED BY <1>1, <1>2, <1>3, <1>4 DEF CallInv

(* A cell is taken from the free list for a pair.                          *)
LEMMA TakeCall ==
  ASSUME HeapInv, CallInv, ~no_memory, ~no_memory', PopFree, call.fn = "get_cell"
  PROVE  CallInv'
<1> DEFINE x == free_cell
<1>1. TypeOK /\ FreeListExact /\ LinksInUse
  BY DEF HeapInv
<1>2. free_cell \in Free /\ free_cell \in Cell /\ free_cell \in Mem
  BY <1>1, FreeFacts, FirstIs DEF PopFree, FreeListExact, Mem
<1>3. /\ kind' = [kind EXCEPT ![free_cell] = "pair"] /\ len' = len
      /\ car' = [car EXCEPT ![free_cell] = call.a]
      /\ cdr' = [cdr EXCEPT ![free_cell] = call.b]
      /\ call' = [call EXCEPT !.fn = "hold_cons", !.x = free_cell, !.stage = "take"]
      /\ reg' = reg /\ local' = local
  BY <1>2, CellFacts DEF PopFree, Deliver
<1>4. call'.fn = "hold_cons" /\ call'.a = call.a /\ call'.b = call.b /\ call'.x = free_cell
  BY <1>1, <1>3 DEF TypeOK, Call
<1>5. InUse \cap Free = {} /\ Roots \subseteq InUse
  BY <1>1, CellFacts DEF InUse, Free, LinksInUse
<1>6. \A p \in InUse' : free_cell \notin Succ(p)'
  <2> SUFFICES ASSUME NEW p \in InUse'  PROVE free_cell \notin Succ(p)'
    OBVIOUS
  <2>1. CASE p = free_cell
    <3>1. Succ(p)' = {call.a, call.b}
      BY <1>1, <1>2, <1>3, <2>1, CellFacts DEF Succ, TypeOK
    <3> QED BY <1>2, <1>5, <3>1 DEF Roots
  <2>2. CASE p # free_cell
    <3>1. p \in InUse
      BY <1>1, <1>2, <1>3, <2>2 DEF InUse, TypeOK
    <3>2. Succ(p)' = Succ(p)
      BY <1>1, <1>2, <1>3, <2>2, <3>1 DEF Succ, TypeOK, Mem, InUse
    <3> QED BY <1>1, <1>2, <1>5, <3>1, <3>2 DEF LinksInUse
  <2> QED BY <2>1, <2>2
<1>7. Fresh'
  BY <1>2, <1>3, <1>4, <1>5, <1>6 DEF Fresh, Roots, Registers
<1>8. IsPair(call.x)'
  BY <1>1, <1>2, <1>3, <1>4 DEF IsPair, TypeOK
<1>9. Registers' = Registers /\ (call.a \in local \cup {NIL} /\ call.b \in Registers)
  BY <1>3 DEF Registers, CallInv
<1> QED BY <1>3, <1>4, <1>7, <1>8, <1>9 DEF CallInv

(* What a step keeps of a cell in use.                                     *)
Kept(p) ==
  /\ p \in InUse'
  /\ p \in Cell => kind'[p] = kind[p] /\ len'[p] = len[p]
  /\ p \in Mem => car'[p] = car[p] /\ cdr'[p] = cdr[p]

(* What is kept leads where it led.                                        *)
LEMMA KeptSucc ==
  ASSUME HeapInv, NEW p \in InUse, Kept(p)
  PROVE  Succ(p)' = Succ(p) /\ IsPair(p)' = IsPair(p)
<1>1. p \in Mem \cup {NIL}
  BY DEF InUse, Mem
<1> QED BY <1>1, CellFacts DEF Kept, Succ, IsPair, InUse, Mem

(* A collection keeps what is marked: the registers, the recent list and   *)
(* what hangs off it, and the operands of the call.                        *)
LEMMA GcKeeps ==
  ASSUME HeapInv, gc
  PROVE  /\ Registers \cup {Recent} \cup Extra \subseteq Marked
         /\ Closed(Marked) /\ Marked \subseteq InUse
         /\ InUse' \subseteq InUse
         /\ \A p \in Marked \cup InUse' : Kept(p)
<1> DEFINE dead == (UNION {Segment(b) : b \in segs}) \ Marked
<1>1. TypeOK /\ LinksInUse
  BY DEF HeapInv
<1>2. Registers \cup {Recent} \cup Extra \subseteq InUse
  BY <1>1 DEF LinksInUse, Roots, Extra
<1>3. /\ Registers \cup {Recent} \cup Extra \subseteq Marked
      /\ Closed(Marked) /\ Marked \subseteq InUse
  BY <1>1, <1>2, ReachFacts DEF Marked
<1>4. dead \subseteq Cell /\ dead \cap Marked = {}
  BY <1>1, CellFacts DEF TypeOK
<1>5. /\ kind' = [c \in Cell |-> IF c \in dead THEN "free" ELSE kind[c]]
      /\ len' = [c \in Cell |-> IF c \in dead THEN 0 ELSE len[c]]
      /\ \A p \in Mem \ dead : car'[p] = car[p] /\ cdr'[p] = cdr[p]
  BY DEF gc, Sweep
<1> HIDE DEF dead
<1>6. InUse' \subseteq InUse /\ InUse' \cap dead = {}
  BY <1>4, <1>5, CellFacts DEF InUse
<1>7. ASSUME NEW p \in InUse, p \notin dead  PROVE Kept(p)
  BY <1>5, <1>7 DEF Kept, InUse
<1> QED BY <1>3, <1>4, <1>6, <1>7

(* So does a new segment: the cell it is linked behind is free.            *)
LEMMA GrowKeeps ==
  ASSUME HeapInv, Grow
  PROVE  InUse' = InUse /\ \A p \in InUse : Kept(p)
<1>1. TypeOK /\ FreeListExact
  BY DEF HeapInv
<1>2. PICK b \in SegBase : alloc_cellseg(b)
  BY DEF Grow
<1>3. /\ b \notin segs /\ len' = len
      /\ kind' = [c \in Cell |-> IF c \in Segment(b) THEN "free" ELSE kind[c]]
      /\ \A p \in Mem : p \notin Segment(b) => car'[p] = car[p]
      /\ \A p \in Mem : p \notin Segment(b) =>
           cdr'[p] = cdr[p] \/ (~InFront(b) /\ p = Behind(b))
  <2>1. b + SegSize - 1 \in Segment(b)
    BY HeapAssumption DEF Segment
  <2> QED BY <1>2, <2>1 DEF alloc_cellseg
<1>4. Segment(b) \subseteq Cell /\ \A c \in Segment(b) : kind[c] = "absent"
  <2>1. \A d \in segs : Segment(d) \cap Segment(b) = {}
    BY <1>1, <1>3, CellFacts DEF TypeOK
  <2> QED BY <1>1, <2>1, CellFacts DEF TypeOK
<1>5. ~InFront(b) => Behind(b) \in Free
  <2> SUFFICES ASSUME ~InFront(b)  PROVE Behind(b) \in Free
    OBVIOUS
  <2> DEFINE S == {p \in Free : cdr[p] = NIL \/ ~(b > cdr[p])}
  <2>1. Free # {} /\ Free \subseteq Nat /\ IsFiniteSet(Free)
    <3>1. free_cell # NIL
      BY DEF InFront
    <3> QED BY <1>1, <3>1, FreeFacts DEF FreeListExact, First
  <2>2. PICK m \in Free : \A k \in Free : k <= m
    BY <2>1, Greatest
  <2>3. {d \in Free : d > m} = {}
    <3>1. \A k \in Free : k \in Nat /\ m \in Nat /\ k <= m => ~(k > m)
      BY <2>1
    <3> QED BY <2>1, <2>2, <3>1
  <2>4. cdr[m] = NIL
    BY <1>1, <2>3 DEF FreeListExact, First
  <2>5. S \subseteq Nat /\ S # {}
    BY <2>1, <2>4
  <2>6. Lowest(S) \in S
    BY <2>5, LowestIs
  <2> QED BY <2>6 DEF Behind
<1>6. InUse' = InUse
  BY <1>3, <1>4 DEF InUse
<1>7. ASSUME NEW p \in InUse  PROVE Kept(p)
  <2>1. p \notin Segment(b) /\ p \notin Free
    BY <1>4, CellFacts DEF InUse, Free
  <2> QED BY <1>3, <1>5, <1>6, <2>1 DEF Kept
<1> QED BY <1>6, <1>7

(* A vector is made of free cells; its elements are empty.                 *)
LEMMA FindRunKeeps ==
  ASSUME HeapInv, FindRun
  PROVE  /\ \A p \in InUse : Kept(p)
         /\ UNCHANGED <<no_memory, reg, local>>
         /\ call'.fn = "hold" /\ call'.x \in Free /\ NewVector'
         /\ \A p \in InUse' \ InUse : Succ(p)' \subseteq {NIL} \cup (Free \ {call'.x})
<1>1. TypeOK /\ FreeListExact /\ LinksInUse /\ PendingOperands
  BY DEF HeapInv
<1>2. PICK n \in Nat \ {0} : n = call.n
  BY <1>1 DEF FindRun, PendingOperands, TypeOK, Call
<1>3. PICK x \in Runs(n) : TakeRun(x, n)
  <2>1. Runs(n) \subseteq Nat /\ Runs(n) # {}
    BY <1>2, CellFacts DEF FindRun, Runs, Free
  <2>2. Lowest(Runs(n)) \in Runs(n)
    BY <2>1, LowestIs
  <2> QED BY <1>2, <2>2 DEF FindRun
<1> DEFINE body == (x + 1) .. (x + n - 1)
<1>4. x \in Free /\ x \in Cell /\ x \in Nat /\ body \subseteq Free /\ x \notin body
  BY <1>3, CellFacts DEF Runs, Fits, Free
<1>5. /\ kind' = [c \in Cell |-> IF c = x THEN "vector"
                                 ELSE IF c \in body THEN "pair" ELSE kind[c]]
      /\ len' = [len EXCEPT ![x] = n - 1]
      /\ car' = [p \in Mem |-> IF p \in body THEN NIL ELSE car[p]]
      /\ cdr' = [p \in Mem |-> IF p \in body \cup {x} THEN NIL
                               ELSE IF p \in Free /\ cdr[p] = x THEN Rest(x, n)
                               ELSE cdr[p]]
      /\ call' = [Idle EXCEPT !.fn = "hold", !.x = x]
      /\ UNCHANGED <<no_memory, reg, local>>
  BY <1>3 DEF TakeRun
<1>6. call'.fn = "hold" /\ call'.x = x
  BY <1>5 DEF Idle
<1>7. len'[x] = n - 1 /\ (x + 1) .. (x + (n - 1)) = body
  <2>1. len'[x] = n - 1
    BY <1>1, <1>4, <1>5 DEF TypeOK
  <2>2. x + (n - 1) = x + n - 1
    BY <1>2, <1>4
  <2> QED BY <2>1, <2>2
<1> HIDE DEF body
<1>8. Succ(x)' = body
  <2>1. x # NIL /\ x # SINK /\ kind'[x] = "vector"
    BY <1>4, <1>5, CellFacts
  <2> QED BY <1>7, <2>1 DEF Succ
<1>9. \A c \in body : c \in Mem /\ car'[c] = NIL /\ cdr'[c] = NIL
  BY <1>4, <1>5 DEF Free, Mem
<1>10. ASSUME NEW p \in InUse  PROVE Kept(p)
  <2>1. p \notin Free /\ p # x /\ p \notin body
    BY <1>4, CellFacts DEF InUse, Free
  <2>2. p \in InUse'
    BY <1>5, <2>1 DEF InUse
  <2>3. p \in Mem => car'[p] = car[p] /\ cdr'[p] = cdr[p]
    BY <1>5, <2>1
  <2>4. p \in Cell => kind'[p] = kind[p] /\ len'[p] = len[p]
    BY <1>1, <1>5, <2>1 DEF TypeOK
  <2> QED BY <2>2, <2>3, <2>4 DEF Kept
<1>11. NewVector'
  BY <1>5, <1>6, <1>8, <1>9, <1>4 DEF NewVector
<1>12. ASSUME NEW p \in InUse' \ InUse
       PROVE  Succ(p)' \subseteq {NIL} \cup (Free \ {x})
  <2>1. p \in body \cup {x}
    BY <1>5 DEF InUse
  <2>2. CASE p = x
    BY <1>4, <1>8, <2>2
  <2>3. CASE p \in body
    <3>1. p # NIL /\ p # SINK /\ p \in Cell /\ kind'[p] = "pair"
      BY <1>4, <1>5, <2>3, CellFacts DEF Free
    <3>2. Succ(p)' = {NIL}
      BY <1>9, <2>3, <3>1 DEF Succ
    <3> QED BY <3>2
  <2> QED BY <2>1, <2>2, <2>3
<1> QED BY <1>4, <1>5, <1>6, <1>10, <1>11, <1>12

(* What the pending call works with stays so, whatever the step.           *)
LEMMA StepCall == HeapInv /\ CallInv /\ [Next]_vars => CallInv'
<1> SUFFICES ASSUME HeapInv, CallInv, [Next]_vars, ~no_memory'  PROVE CallInv'
  BY DEF CallInv
<1>1. TypeOK /\ LinksInUse
  BY DEF HeapInv
<1>2. CASE PopFree
  <2>1. CASE call.fn = "get_cell"
    <3>1. ~no_memory
      BY <1>2 DEF PopFree
    <3> QED BY <1>2, <2>1, <3>1, TakeCall
  <2>2. CASE call.fn # "get_cell"
    <3>1. call' = Idle
      BY <1>2, <2>2 DEF PopFree, Deliver
    <3> QED BY <3>1 DEF CallInv, Idle
  <2> QED BY <2>1, <2>2
<1>3. CASE DeliverSink \/ NoRun
  BY <1>3 DEF DeliverSink, NoRun
<1>4. CASE Collect
  <2>1. call' = [call EXCEPT !.stage = "collected"] /\ gc /\ UNCHANGED <<no_memory, reg, local>>
    BY <1>4 DEF Collect
  <2>2. call'.fn = call.fn /\ call'.a = call.a /\ call'.b = call.b /\ call'.x = call.x
    BY <1>1, <2>1 DEF TypeOK, Call
  <2>3. call.fn \in {"hold_cons", "hold"} => {call.x} \cup Succ(call.x) \subseteq InUse'
    BY <2>1, GcKeeps DEF Kept, Closed, Extra
  <2>4. \A p \in InUse' : Succ(p)' = Succ(p) /\ Kept(p)
    BY <2>1, GcKeeps, KeptSucc
  <2> QED BY <2>1, <2>2, <2>3, <2>4, GcKeeps, CallStays DEF Kept, Mem
<1>5. CASE Grow
  <2>1. call' = [call EXCEPT !.stage = "ready"] /\ UNCHANGED <<no_memory, reg, local>>
    BY <1>5 DEF Grow
  <2>2. call'.fn = call.fn /\ call'.a = call.a /\ call'.b = call.b /\ call'.x = call.x
    BY <1>1, <2>1 DEF TypeOK, Call
  <2>3. {call.x} \cup Succ(call.x) \subseteq InUse
    BY <1>1 DEF LinksInUse, Roots
  <2>4. InUse' = InUse /\ \A p \in InUse : Succ(p)' = Succ(p) /\ Kept(p)
    BY <1>5, GrowKeeps, KeptSucc
  <2> QED BY <2>1, <2>2, <2>3, <2>4, CallStays DEF Kept, Mem
<1>6. CASE GrowFails \/ UNCHANGED vars
  <2>1. UNCHANGED <<memory, no_memory, reg, local>>
    BY <1>6 DEF GrowFails, vars, memory
  <2>2. call'.fn = call.fn /\ call'.a = call.a /\ call'.b = call.b /\ call'.x = call.x
    BY <1>1, <1>6 DEF GrowFails, vars, TypeOK, Call
  <2>3. {call.x} \cup Succ(call.x) \subseteq InUse
    BY <1>1 DEF LinksInUse, Roots
  <2>4. InUse' = InUse /\ \A p : Succ(p)' = Succ(p)
    BY <2>1, SameMemory
  <2> QED BY <2>1, <2>2, <2>3, <2>4, CallStays DEF memory
<1>7. CASE FindRun
  <2>1. ~no_memory
    BY <1>7 DEF FindRun
  <2>2. /\ \A p \in InUse : Kept(p)
        /\ UNCHANGED <<no_memory, reg, local>>
        /\ call'.fn = "hold" /\ call'.x \in Free /\ NewVector'
        /\ \A p \in InUse' \ InUse : Succ(p)' \subseteq {NIL} \cup (Free \ {call'.x})
    BY <1>7, FindRunKeeps
  <2>3. InUse \cap Free = {} /\ NIL \notin Free /\ Free \subseteq Cell /\ Registers \cup local \subseteq InUse
    BY <1>1, CellFacts DEF InUse, Free, LinksInUse, Roots
  <2>4. \A p \in InUse' : call'.x \notin Succ(p)'
    <3>1. \A p \in InUse : Succ(p)' = Succ(p) /\ Succ(p) \subseteq InUse
      BY <1>1, <2>2, KeptSucc DEF LinksInUse
    <3> QED BY <2>2, <2>3, <3>1
  <2>5. Fresh'
    BY <2>2, <2>3, <2>4 DEF Fresh, Registers
  <2> QED BY <2>2, <2>5 DEF CallInv
<1>8. CASE Opcode
  <2>1. CASE \E a \in local \cup {NIL}, b \in Registers : cons(a, b)
    BY <2>1 DEF cons, CallInv, Idle, Registers
  <2>2. CASE \E n \in 0 .. MaxVec : mk_vector(n)
    BY <2>2 DEF mk_vector, CallInv, Idle
  <2>3. CASE \E r \in Regs : push_recent_alloc(r)
    BY <2>3 DEF push_recent_alloc, CallInv, Idle, Registers
  <2>4. CASE \/ \E r \in Regs : \E p \in Held \cup UNION {Elements(h) : h \in Held} :
                  SetRegister(r, p)
             \/ \E h \in Registers : \E c \in Fields(h), p \in Held : SetField(c, p)
             \/ ok_to_freely_gc
             \/ OP_GC
    <3>1. call' = call /\ call.fn = "none"
      BY <2>4 DEF SetRegister, SetField, ok_to_freely_gc, OP_GC, Quiet
    <3> QED BY <3>1 DEF CallInv
  <2> QED BY <1>8, <2>1, <2>2, <2>3, <2>4 DEF Opcode
<1> QED BY <1>2, <1>3, <1>4, <1>5, <1>6, <1>7, <1>8 DEF Next, Allocator

---------------------------------------------------------------------------
(* What the program sees.                                                  *)

(* It sees heap cells only, neither the sink nor a holder of the recent    *)
(* list, and these are the least that contain the registers and what the   *)
(* opcode holds and are closed.                                            *)
View ==
  /\ Visible \subseteq Cell \cap InUse
  /\ Visible \cap Holders = {}
  /\ Registers \cup local \subseteq Visible \cup {NIL}
  /\ \A p \in Visible : Succ(p) \subseteq Visible \cup {NIL}
  /\ \A S \in SUBSET InUse :
       /\ Registers \cup local \subseteq S \cup {NIL}
       /\ \A p \in S : Succ(p) \subseteq S \cup {NIL}
       => Visible \subseteq S
  /\ \A p \in Visible : Program!RefsOf(Objects, p) = Succ(p)

(* Until memory has run out, the invariant of the heap gives all of this.  *)
LEMMA ViewHolds == HeapInv /\ ~no_memory => View
<1> SUFFICES ASSUME HeapInv, ~no_memory  PROVE View
  OBVIOUS
<1> DEFINE R == Registers \cup local
<1>1. TypeOK /\ LinksInUse /\ RecentKeepsLocal
  BY DEF HeapInv
<1>2. R \subseteq InUse /\ R \cap Holders = {} /\ SINK \notin R
  BY <1>1 DEF LinksInUse, RecentKeepsLocal, Roots
<1>3. R \subseteq Reach(R) /\ Reach(R) \subseteq InUse /\ Closed(Reach(R))
  BY <1>1, <1>2, ReachFacts
<1>4. Visible = Reach(R) \ {NIL}
  BY DEF Visible
<1>5. ASSUME NEW S \in SUBSET InUse, R \subseteq S \cup {NIL},
             \A p \in S : Succ(p) \subseteq S \cup {NIL}
      PROVE  Visible \subseteq S
  <2> DEFINE T == S \cup {NIL}
  <2>1. T \in SUBSET InUse /\ R \subseteq T
    BY <1>5 DEF InUse
  <2>2. Succ(NIL) = {}
    BY DEF Succ
  <2>3. Closed(T)
    BY <1>5, <2>2 DEF Closed
  <2> HIDE DEF T
  <2>4. Reach(R) \subseteq T
    BY <2>1, <2>3 DEF Reach
  <2> QED BY <1>4, <2>4 DEF T
<1>6. Visible \cap (Holders \cup {SINK}) = {}
  <2> DEFINE S == InUse \ (Holders \cup {SINK})
  <2>1. \A p \in S : Succ(p) \subseteq S
    BY <1>1 DEF LinksInUse, RecentKeepsLocal
  <2>2. R \subseteq S
    BY <1>2
  <2>3. S \in SUBSET InUse
    OBVIOUS
  <2> HIDE DEF S, R
  <2>4. Visible \subseteq S
    BY <1>5, <2>1, <2>2, <2>3
  <2> QED BY <2>4 DEF S
<1>7. Visible \subseteq Cell \cap InUse
  BY <1>3, <1>4, <1>6 DEF InUse
<1>8. \A p \in Visible : Succ(p) \subseteq Visible \cup {NIL}
  BY <1>3, <1>4 DEF Closed
<1>9. ASSUME NEW p \in Visible  PROVE Program!RefsOf(Objects, p) = Succ(p)
  <2>1. p \in Cell /\ p # NIL /\ p # SINK /\ kind[p] \in {"pair", "vector"}
    BY <1>7, CellFacts DEF InUse
  <2>2. Objects[p] = Contents(p)
    BY DEF Objects
  <2>3. CASE kind[p] = "pair"
    <3>1. Contents(p).refs = <<car[p], cdr[p]>>
      BY <2>3 DEF Contents
    <3>2. DOMAIN <<car[p], cdr[p]>> = {1, 2}
      OBVIOUS
    <3>3. Succ(p) = {car[p], cdr[p]}
      BY <2>1, <2>3 DEF Succ
    <3>4. Program!RefsOf(Objects, p) = {<<car[p], cdr[p]>>[i] : i \in {1, 2}}
      BY <2>2, <3>1, <3>2 DEF Program!RefsOf
    <3> QED BY <3>3, <3>4
  <2>4. CASE kind[p] = "vector"
    <3>1. Contents(p).refs = [i \in 1 .. len[p] |-> p + i]
      BY <2>1, <2>4 DEF Contents
    <3>2. Program!RefsOf(Objects, p) = {p + i : i \in 1 .. len[p]}
      BY <2>2, <3>1 DEF Program!RefsOf
    <3>3. Succ(p) = (p + 1) .. (p + len[p])
      BY <2>1, <2>4 DEF Succ
    <3>4. p \in Nat /\ len[p] \in Nat
      BY <1>1, <2>1, CellFacts DEF TypeOK
    <3>5. ASSUME NEW q \in (p + 1) .. (p + len[p])
          PROVE  q \in {p + i : i \in 1 .. len[p]}
      <4>1. q - p \in 1 .. len[p] /\ q = p + (q - p)
        BY <3>4
      <4> QED BY <4>1
    <3>6. \A i \in 1 .. len[p] : p + i \in (p + 1) .. (p + len[p])
      BY <3>4
    <3> QED BY <3>2, <3>3, <3>5, <3>6
  <2> QED BY <2>1, <2>3, <2>4
<1> QED BY <1>3, <1>4, <1>5, <1>6, <1>7, <1>8, <1>9 DEF View

(* And it gives it of the state after a step.                              *)
LEMMA ViewNext == HeapInv' /\ ~no_memory' => View'
BY ViewHolds, PTL

(* The part of a graph that can be reached is the least closed part.       *)
LEMMA TrimIs ==
  ASSUME NEW g, NEW R, NEW V \in SUBSET DOMAIN g, R \ {NIL} \subseteq V,
         \A o \in V : Program!RefsOf(g, o) \subseteq V \cup {NIL},
         \A S \in SUBSET DOMAIN g :
           (/\ R \ {NIL} \subseteq S
            /\ \A o \in S : Program!RefsOf(g, o) \subseteq S \cup {NIL})
           => V \subseteq S
  PROVE  Program!Trim(g, R) = [o \in V |-> g[o]]
<1> DEFINE closures == {S \in SUBSET DOMAIN g :
                          /\ R \ {NIL} \subseteq S
                          /\ \A o \in S : Program!RefsOf(g, o) \subseteq S \cup {NIL}}
           W == {p \in DOMAIN g : \A S \in closures : p \in S}
<1>1. V \in closures
  OBVIOUS
<1>2. \A S \in closures : V \subseteq S
  OBVIOUS
<1>3. W = V
  <2> HIDE DEF closures
  <2> QED BY <1>1, <1>2
<1>4. Program!Trim(g, R) = [o \in W |-> g[o]]
  BY DEF Program!Trim
<1> QED BY <1>3, <1>4

---------------------------------------------------------------------------
(* How the steps look to the program.                                      *)

(* A collection keeps what the program sees: what the opcode holds is      *)
(* marked through the recent list.                                         *)
LEMMA GcKeepsVisible ==
  ASSUME HeapInv, ~no_memory, gc
  PROVE  \A p \in Visible : Kept(p)
<1>1. View /\ LinksInUse /\ RecentKeepsLocal
  BY ViewHolds DEF HeapInv
<1>2. /\ Registers \cup {Recent} \subseteq Marked /\ Closed(Marked)
      /\ Marked \subseteq InUse /\ \A p \in Marked : Kept(p)
  BY GcKeeps
<1> DEFINE S == Marked
<1> HIDE DEF S
<1>3. Holders \subseteq S
  BY <1>2, HoldersReached DEF S
<1>4. ASSUME NEW p \in local  PROVE p \in S \cup {NIL}
  <2>1. CASE \E h \in Holders : car[h] = p
    <3>1. PICK h \in Holders : car[h] = p
      BY <2>1
    <3>2. IsPair(h) /\ h # SINK /\ h # NIL /\ h \in S
      BY <1>1, <1>3, CellFacts DEF RecentKeepsLocal, IsPair
    <3>3. car[h] \in Succ(h)
      BY <3>2 DEF Succ, IsPair
    <3> QED BY <1>2, <3>1, <3>2, <3>3 DEF Closed, S
  <2> QED BY <1>1, <2>1 DEF RecentKeepsLocal
<1>5. S \in SUBSET InUse /\ \A p \in S : Succ(p) \subseteq S \cup {NIL}
  BY <1>2 DEF Closed, S
<1>6. Registers \cup local \subseteq S \cup {NIL}
  BY <1>2, <1>4 DEF S
<1>7. Visible \subseteq S
  BY <1>1, <1>5, <1>6 DEF View
<1> QED BY <1>2, <1>7 DEF S

(* What is kept has the contents it had.                                   *)
LEMMA KeptContents ==
  ASSUME NEW p \in InUse, p # NIL, Kept(p)
  PROVE  Contents(p)' = Contents(p)
<1>1. p \in Mem
  BY DEF InUse, Mem
<1> QED BY <1>1 DEF Kept, Contents

(* A step that keeps the roots and what the program sees is nothing to it. *)
LEMMA SameView ==
  ASSUME HeapInv, HeapInv', ~no_memory, ~no_memory', reg' = reg, local' = local,
         \A p \in Visible : Kept(p)
  PROVE  Objects' = Objects
<1>1. View /\ View'
  BY ViewHolds, ViewNext
<1>2. PICK V : V = Visible
  OBVIOUS
<1>3. PICK W : W = Visible'
  OBVIOUS
<1>4. Registers' = Registers
  BY DEF Registers
<1>5. V \subseteq InUse /\ V \subseteq InUse' /\ NIL \notin V
  BY <1>1, <1>2, CellFacts DEF View, Kept
<1>6. \A p \in V : Succ(p)' = Succ(p)
  BY <1>2, <1>5, KeptSucc
<1>7. W \subseteq V
  <2>1. \A p \in V : Succ(p)' \subseteq V \cup {NIL}
    BY <1>1, <1>2, <1>6 DEF View
  <2>2. Registers' \cup local' \subseteq V \cup {NIL}
    BY <1>1, <1>2, <1>4 DEF View
  <2> QED BY <1>1, <1>3, <1>5, <2>1, <2>2 DEF View
<1>8. V \subseteq W
  <2>1. W \subseteq InUse /\ \A p \in W : Succ(p) \subseteq W \cup {NIL}
    BY <1>1, <1>3, <1>5, <1>6, <1>7 DEF View
  <2>2. Registers \cup local \subseteq W \cup {NIL}
    BY <1>1, <1>3, <1>4 DEF View
  <2> QED BY <1>1, <1>2, <2>1, <2>2 DEF View
<1>9. \A p \in V : Contents(p)' = Contents(p)
  BY <1>2, <1>5, KeptContents
<1>10. Objects' = [p \in V |-> Contents(p)'] /\ Objects = [p \in V |-> Contents(p)]
  BY <1>2, <1>3, <1>7, <1>8 DEF Objects
<1> QED BY <1>9, <1>10

(* A step after which the program sees the part of graph g that its roots  *)
(* reach, where g is what it saw up to the contents.                       *)
LEMMA TrimView ==
  ASSUME HeapInv, HeapInv', ~no_memory, ~no_memory',
         NEW g, DOMAIN g = Visible, Visible \subseteq InUse',
         Registers' \cup local' \subseteq Visible \cup {NIL},
         \A o \in Visible : /\ g[o] = Contents(o)'
                            /\ Program!RefsOf(g, o) = Succ(o)'
                            /\ Program!RefsOf(g, o) \subseteq Visible \cup {NIL}
  PROVE  Program!Trim(g, Program!Roots(reg', local')) = Objects'
<1>1. View /\ View'
  BY ViewHolds, ViewNext
<1>2. PICK V : V = Visible
  OBVIOUS
<1>3. PICK W : W = Visible'
  OBVIOUS
<1>4. PICK R : R = Registers' \cup local'
  OBVIOUS
<1>5. Program!Roots(reg', local') = R
  BY <1>4 DEF Program!Roots, Registers
<1>6. \A o \in V : Succ(o)' = Program!RefsOf(g, o)
  BY <1>2
<1>7. /\ W \subseteq InUse' /\ R \subseteq W \cup {NIL}
      /\ \A o \in W : Succ(o)' \subseteq W \cup {NIL}
      /\ \A S \in SUBSET InUse' :
           R \subseteq S \cup {NIL} /\ (\A o \in S : Succ(o)' \subseteq S \cup {NIL})
           => W \subseteq S
  BY <1>1, <1>3, <1>4 DEF View
<1>8. W \subseteq V
  <2>1. V \subseteq InUse' /\ R \subseteq V \cup {NIL}
    BY <1>2, <1>4
  <2>2. \A o \in V : Succ(o)' \subseteq V \cup {NIL}
    BY <1>2, <1>6
  <2> QED BY <1>7, <2>1, <2>2
<1>9. \A o \in W : Program!RefsOf(g, o) \subseteq W \cup {NIL}
  BY <1>6, <1>7, <1>8
<1>10. ASSUME NEW S \in SUBSET V, R \ {NIL} \subseteq S,
              \A o \in S : Program!RefsOf(g, o) \subseteq S \cup {NIL}
       PROVE  W \subseteq S
  <2>1. S \subseteq InUse' /\ R \subseteq S \cup {NIL}
    BY <1>2, <1>10
  <2>2. \A o \in S : Succ(o)' \subseteq S \cup {NIL}
    BY <1>6, <1>10
  <2> QED BY <1>7, <2>1, <2>2
<1>11. Program!Trim(g, R) = [o \in W |-> g[o]]
  <2>1. W \in SUBSET DOMAIN g /\ R \ {NIL} \subseteq W /\ DOMAIN g = V
    BY <1>2, <1>7, <1>8
  <2>2. \A S \in SUBSET DOMAIN g :
          (/\ R \ {NIL} \subseteq S
           /\ \A o \in S : Program!RefsOf(g, o) \subseteq S \cup {NIL})
          => W \subseteq S
    BY <1>10, <2>1
  <2>3. PICK Z \in SUBSET DOMAIN g : Z = W
    BY <2>1
  <2> QED BY ONLY <1>9, <2>1, <2>2, <2>3, TrimIs
<1>12. \A o \in W : g[o] = Contents(o)'
  BY <1>2, <1>8
<1>13. Objects' = [o \in W |-> Contents(o)']
  BY <1>3 DEF Objects
<1> QED BY <1>5, <1>11, <1>12, <1>13

(* Values move between registers, or are forgotten.                        *)
LEMMA MoveView ==
  ASSUME HeapInv, HeapInv', ~no_memory, ~no_memory',
         reg' \in [Regs -> Visible \cup {NIL}], local' \subseteq Visible \cup {NIL},
         \A p \in Visible : Kept(p)
  PROVE  Program!Move
<1>1. View
  BY ViewHolds
<1>2. PICK V : V = Visible
  OBVIOUS
<1>3. PICK g : g = Objects
  OBVIOUS
<1>4. DOMAIN g = V /\ \A o \in V : g[o] = Contents(o)
  BY <1>2, <1>3 DEF Objects
<1>5. \A o \in V : Program!RefsOf(g, o) = Succ(o) /\ Succ(o) \subseteq V \cup {NIL}
  BY <1>1, <1>2, <1>3 DEF View
<1>6. \A o \in V : o \in InUse /\ o # NIL /\ Kept(o) /\ o \in InUse'
  BY <1>1, <1>2, CellFacts DEF View, Kept
<1>7. \A o \in V : Contents(o)' = Contents(o) /\ Succ(o)' = Succ(o)
  BY <1>6, KeptContents, KeptSucc
<1>8. Registers' \subseteq V \cup {NIL}
  BY <1>2 DEF Registers
<1>9. Program!Trim(g, Program!Roots(reg', local')) = Objects'
  <2>1. \A o \in Visible : /\ g[o] = Contents(o)'
                            /\ Program!RefsOf(g, o) = Succ(o)'
                            /\ Program!RefsOf(g, o) \subseteq Visible \cup {NIL}
    BY <1>2, <1>4, <1>5, <1>7
  <2> QED BY <1>2, <1>4, <1>6, <1>8, <2>1, TrimView
<1>10. Program!Value = Visible \cup {NIL}
  BY DEF Program!Value, Objects
<1> QED BY <1>3, <1>9, <1>10 DEF Program!Move

(* The cell that a call has made is out of the program's sight, and so are *)
(* the elements of the vector it has made, until the opcode holds it.      *)
LEMMA FreshUnseen ==
  ASSUME HeapInv, ~no_memory, Fresh
  PROVE  /\ call.x \notin Visible
         /\ VecInv /\ kind[call.x] = "vector" => Succ(call.x) \cap Visible = {}
<1>1. View
  BY ViewHolds
<1>2. PICK V : V = Visible
  OBVIOUS
<1>3. PICK x : x = call.x
  OBVIOUS
<1>4. x \notin V
  <2> DEFINE S == V \ {x}
  <2>1. S \in SUBSET InUse /\ Registers \cup local \subseteq S \cup {NIL}
    BY <1>1, <1>2, <1>3 DEF View, Fresh
  <2>2. \A p \in S : Succ(p) \subseteq S \cup {NIL}
    BY <1>1, <1>2, <1>3 DEF View, Fresh
  <2> HIDE DEF S
  <2>3. V \subseteq S
    BY <1>1, <1>2, <2>1, <2>2 DEF View
  <2> QED BY <2>3 DEF S
<1>5. ASSUME VecInv, kind[x] = "vector"  PROVE Succ(x) \cap V = {}
  <2> DEFINE S == V \ Succ(x)
  <2>1. x \in Vectors /\ Succ(x) = Body(x) /\ Succ(x) \subseteq Behinds
    <3>1. x \in Cell /\ x # NIL /\ x # SINK
      BY <1>3, CellFacts DEF Fresh
    <3>2. x \in Vectors /\ Succ(x) = Body(x)
      BY <1>5, <3>1 DEF Vectors, Succ, Body
    <3>3. \A c \in Succ(x) : c \in Cell
      BY <1>5, <3>1 DEF HeapInv, ElementCells
    <3> QED BY <3>2, <3>3 DEF Behinds
  <2>2. Registers \cup local \subseteq S \cup {NIL}
    BY <1>1, <1>2, <1>5, <2>1 DEF View, VecInv, Roots
  <2>3. ASSUME NEW p \in V  PROVE Succ(p) \cap Succ(x) = {}
    <3>1. p \in Cell /\ p # NIL /\ p # SINK /\ p # x /\ kind[p] \in {"pair", "vector"}
      BY <1>1, <1>2, <1>4, CellFacts DEF View, InUse
    <3>2. CASE kind[p] = "vector"
      <4>1. p \in Vectors /\ Succ(p) = Body(p)
        BY <3>1, <3>2 DEF Vectors, Succ, Body
      <4> QED BY <1>5, <2>1, <3>1, <4>1 DEF VecInv
    <3>3. CASE kind[p] = "pair"
      <4>1. Succ(p) = {car[p], cdr[p]} /\ IsPair(p) /\ p \in Mem
        BY <3>1, <3>3 DEF Succ, IsPair, Mem
      <4> QED BY <1>5, <2>1, <4>1 DEF VecInv
    <3> QED BY <3>1, <3>2, <3>3
  <2>4. S \in SUBSET InUse /\ \A p \in S : Succ(p) \subseteq S \cup {NIL}
    BY <1>1, <1>2, <2>3 DEF View
  <2> HIDE DEF S
  <2>5. V \subseteq S
    BY <1>1, <1>2, <2>2, <2>4 DEF View
  <2> QED BY <2>5 DEF S
<1> QED BY <1>2, <1>3, <1>4, <1>5

(* The opcode gets hold of it: a new object.                               *)
LEMMA CreateView ==
  ASSUME HeapInv, HeapInv', VecInv, CallInv, ~no_memory, ~no_memory', Fresh,
         call.fn = "hold_cons" \/ (call.fn = "hold" /\ NewVector),
         reg' = reg, local' = local \cup {call.x},
         \A p \in Visible \cup {call.x} \cup (Succ(call.x) \ {NIL}) : Kept(p)
  PROVE  Program!Create
<1>1. View /\ View' /\ TypeOK /\ LinksInUse /\ PendingOperands /\ ElementCells
  BY ViewHolds, ViewNext DEF HeapInv
<1>2. PICK V : V = Visible
  OBVIOUS
<1>3. PICK W : W = Visible'
  OBVIOUS
<1>4. PICK x : x = call.x
  OBVIOUS
<1>5. PICK N : N = IF kind[x] = "vector" THEN Succ(x) ELSE {}
  OBVIOUS
<1>6. /\ x \in Cell /\ x \in InUse /\ x # NIL /\ x # SINK
      /\ x \notin Succ(x) /\ x \notin V /\ N \cap V = {}
  <2>1. x \in Cell /\ x \in InUse /\ x # NIL /\ x # SINK
    BY <1>1, <1>4, CellFacts DEF Fresh, LinksInUse, Roots
  <2>2. x \notin V /\ (kind[x] = "vector" => Succ(x) \cap V = {})
    BY <1>2, <1>4, FreshUnseen
  <2> QED BY <1>4, <1>5, <2>1, <2>2 DEF Fresh
<1>7. /\ kind[x] \in {"pair", "vector"}
      /\ kind[x] = "pair" => N = {} /\ Succ(x) \subseteq V \cup {NIL}
      /\ kind[x] = "vector" => N = Succ(x)
      /\ \A e \in N : e \in Cell /\ e \in InUse /\ e # NIL /\ Succ(e) = {NIL}
  <2>1. CASE call.fn = "hold_cons"
    <3>1. kind[x] = "pair" /\ N = {}
      BY <1>4, <1>5, <1>6, <2>1 DEF CallInv, IsPair
    <3>2. Succ(x) = {call.a, call.b}
      BY <1>1, <1>4, <1>6, <2>1, <3>1 DEF PendingOperands, Succ
    <3>3. {call.a, call.b} \subseteq V \cup {NIL}
      BY <1>1, <1>2, <2>1 DEF CallInv, View
    <3> QED BY <3>1, <3>2, <3>3
  <2>2. CASE call.fn = "hold" /\ NewVector
    <3>1. kind[x] = "vector" /\ N = Succ(x)
      BY <1>4, <1>5, <2>2 DEF NewVector
    <3>2. ASSUME NEW e \in N
          PROVE  e \in Cell /\ e \in InUse /\ e # NIL /\ Succ(e) = {NIL}
      <4>1. e \in Cell /\ kind[e] = "pair" /\ e # NIL /\ e # SINK
        BY <1>1, <1>6, <3>1, CellFacts DEF ElementCells
      <4>2. car[e] = NIL /\ cdr[e] = NIL
        BY <1>4, <2>2, <3>1 DEF NewVector
      <4> QED BY <4>1, <4>2 DEF Succ, InUse
    <3> QED BY <3>1, <3>2
  <2> QED BY <2>1, <2>2
<1>8. \A p \in V \cup {x} \cup N : p \in InUse /\ p # NIL /\ p \in Cell /\ p \in InUse' /\ Kept(p)
  <2>1. \A p \in V \cup {x} \cup N : Kept(p)
    BY <1>2, <1>4, <1>5, <1>7
  <2>2. \A p \in V : p \in InUse /\ p # NIL /\ p \in Cell
    BY <1>1, <1>2, CellFacts DEF View
  <2> QED BY <1>6, <1>7, <2>1, <2>2 DEF Kept
<1>9. \A p \in V \cup {x} \cup N : Contents(p)' = Contents(p) /\ Succ(p)' = Succ(p)
  BY <1>8, KeptContents, KeptSucc
<1>10. Registers' = Registers /\ local' = local \cup {x}
  BY <1>4 DEF Registers
<1>11. /\ V \subseteq InUse /\ Registers \cup local \subseteq V \cup {NIL}
       /\ \A p \in V : Succ(p) \subseteq V \cup {NIL}
       /\ \A S \in SUBSET InUse :
            Registers \cup local \subseteq S \cup {NIL} /\ (\A p \in S : Succ(p) \subseteq S \cup {NIL})
            => V \subseteq S
  BY <1>1, <1>2 DEF View
<1>12. /\ W \subseteq InUse' \cap Cell /\ Registers' \cup local' \subseteq W \cup {NIL}
       /\ \A p \in W : Succ(p)' \subseteq W \cup {NIL}
       /\ \A S \in SUBSET InUse' :
            Registers' \cup local' \subseteq S \cup {NIL} /\ (\A p \in S : Succ(p)' \subseteq S \cup {NIL})
            => W \subseteq S
       /\ \A p \in W : Program!RefsOf(Objects', p) = Succ(p)'
  BY <1>1, <1>3 DEF View
<1>13. V \subseteq W
  <2> DEFINE S == V \cap W
  <2>1. S \in SUBSET InUse /\ Registers \cup local \subseteq S \cup {NIL}
    BY <1>10, <1>11, <1>12
  <2>2. \A p \in S : Succ(p) \subseteq S \cup {NIL}
    BY <1>9, <1>11, <1>12
  <2> HIDE DEF S
  <2>3. V \subseteq S
    BY <1>11, <2>1, <2>2
  <2> QED BY <2>3 DEF S
<1>14. x \in W /\ N \subseteq W
  <2>1. x \in W
    BY <1>6, <1>10, <1>12
  <2>2. N \subseteq Succ(x) /\ Succ(x) \subseteq W \cup {NIL}
    BY <1>5, <1>9, <1>12, <2>1
  <2> QED BY <1>7, <2>1, <2>2
<1>15. W \subseteq V \cup {x} \cup N
  <2> DEFINE S == V \cup {x} \cup N
  <2>1. S \in SUBSET InUse' /\ Registers' \cup local' \subseteq S \cup {NIL}
    BY <1>8, <1>10, <1>11
  <2>2. ASSUME NEW p \in S  PROVE Succ(p)' \subseteq S \cup {NIL}
    BY <1>7, <1>9, <1>11, <2>2
  <2> HIDE DEF S
  <2>3. W \subseteq S
    BY <1>12, <2>1, <2>2
  <2> QED BY <2>3 DEF S
<1>16. W \ V = {x} \cup N /\ x \notin N
  BY <1>5, <1>6, <1>13, <1>14, <1>15
<1>17. DOMAIN Objects = V /\ DOMAIN Objects' = W
  BY <1>2, <1>3 DEF Objects
<1>18. \A p \in V : Objects'[p] = Objects[p]
  BY <1>2, <1>3, <1>9, <1>13 DEF Objects
<1>19. Objects'[x].kind = kind[x]
  <2>1. Objects'[x] = Contents(x)'
    BY <1>3, <1>14 DEF Objects
  <2>2. Contents(x).kind = kind[x]
    BY <1>6, <1>7 DEF Contents
  <2> QED BY <1>9, <2>1, <2>2
<1>20. /\ Program!RefsOf(Objects', x) = Succ(x)
       /\ \A e \in N : Program!RefsOf(Objects', e) = {NIL}
  BY <1>7, <1>9, <1>12, <1>14
<1>21. Program!Value = V \cup {NIL}
  BY <1>17 DEF Program!Value
<1>22. {x} \cup N \subseteq Mem
  BY <1>6, <1>7 DEF Mem
<1>23. CASE kind[x] = "vector"
  <2>1. Succ(x) = (W \ V) \ {x}
    BY <1>7, <1>16, <1>23
  <2> QED BY <1>10, <1>13, <1>14, <1>16, <1>17, <1>18, <1>19, <1>20, <1>22, <1>23, <2>1
       DEF Program!Create
<1>24. CASE kind[x] = "pair"
  <2>1. W \ V = {x}
    BY <1>7, <1>16, <1>24
  <2> QED BY <1>7, <1>10, <1>13, <1>14, <1>16, <1>17, <1>18, <1>19, <1>20, <1>21, <1>22, <1>24, <2>1
       DEF Program!Create
<1> QED BY <1>7, <1>23, <1>24

(* A store into a pair, or into an element of a vector: both are pairs.    *)
LEMMA WriteView ==
  ASSUME HeapInv, HeapInv', ~no_memory, ~no_memory',
         NEW h \in Registers, NEW c \in Fields(h), NEW p \in Held, SetField(c, p)
  PROVE  Program!Write
<1>1. View /\ TypeOK /\ ElementCells
  BY ViewHolds DEF HeapInv
<1>2. PICK V : V = Visible
  OBVIOUS
<1>3. c \in V /\ c \in Cell /\ c # NIL /\ c # SINK /\ c \in Mem /\ kind[c] = "pair"
  <2>1. h \in V \cup {NIL} /\ V \subseteq Cell \cap InUse
    BY <1>1, <1>2 DEF View
  <2>2. CASE IsPair(h)
    <3>1. h \in V /\ h \in Cell /\ kind[h] = "pair"
      BY <2>1, <2>2, CellFacts DEF IsPair
    <3> QED BY <2>2, <3>1, CellFacts DEF Fields, Mem
  <2>3. CASE ~IsPair(h)
    <3>1. h \in Cell /\ c \in Succ(h)
      BY <2>3 DEF Fields
    <3>2. h \in V /\ h # SINK /\ h # NIL /\ kind[h] = "vector"
      BY <2>1, <2>3, <3>1, CellFacts DEF IsPair, InUse
    <3>3. c \in Cell /\ kind[c] = "pair"
      BY <1>1, <3>1, <3>2 DEF ElementCells
    <3>4. c \in V
      BY <1>1, <1>2, <3>1, <3>2, <3>3, CellFacts DEF View
    <3> QED BY <3>3, <3>4, CellFacts DEF Mem
  <2> QED BY <2>2, <2>3
<1>4. p \in V \cup {NIL}
  BY <1>1, <1>2 DEF Held, View
<1>5. /\ UNCHANGED <<kind, len, no_memory, reg, local>>
      /\ \/ car' = [car EXCEPT ![c] = p] /\ cdr' = cdr
         \/ cdr' = [cdr EXCEPT ![c] = p] /\ car' = car
  BY DEF SetField
<1>6. \A o \in V : o \in Cell /\ o \in InUse /\ o # NIL /\ o # SINK /\ o \in Mem /\ o \in InUse'
  BY <1>1, <1>2, <1>5, CellFacts DEF View, Mem, InUse
<1>7. \A o \in V : o # c => Contents(o)' = Contents(o) /\ Succ(o)' = Succ(o)
  <2>1. \A o \in V : o # c => car'[o] = car[o] /\ cdr'[o] = cdr[o]
    BY <1>1, <1>5, <1>6 DEF TypeOK
  <2> QED BY <1>5, <1>6, <2>1 DEF Contents, Succ
<1>8. Registers' \cup local' \subseteq V \cup {NIL}
  BY <1>1, <1>2, <1>5 DEF View, Registers
<1>9. PICK f : f = Objects
  OBVIOUS
<1>10. DOMAIN f = V /\ (\A o \in V : f[o] = Contents(o))
       /\ \A o \in V : Program!RefsOf(f, o) = Succ(o) /\ Succ(o) \subseteq V \cup {NIL}
  BY <1>1, <1>2, <1>9 DEF Objects, View
<1>11. PICK a : a = car[c]
  OBVIOUS
<1>12. PICK d : d = cdr[c]
  OBVIOUS
<1>13. Contents(c) = [kind |-> "pair", refs |-> <<a, d>>] /\ {a, d} \subseteq V \cup {NIL}
  <2>1. Succ(c) = {a, d}
    BY <1>3, <1>11, <1>12 DEF Succ
  <2> QED BY <1>3, <1>10, <1>11, <1>12, <2>1 DEF Contents
<1>14. ASSUME NEW i \in {1, 2}, NEW a1, NEW d1, a1 \in {a, p}, d1 \in {d, p},
              car'[c] = a1, cdr'[c] = d1,
              <<a1, d1>> = [<<a, d>> EXCEPT ![i] = p]
       PROVE  Program!Write
  <2>1. PICK g : g = [f EXCEPT ![c].refs[i] = p]
    OBVIOUS
  <2>2. DOMAIN g = V /\ \A o \in V : o # c => g[o] = f[o]
    BY <1>10, <2>1
  <2>3. g[c] = [kind |-> "pair", refs |-> <<a1, d1>>]
    <3>1. f[c] = [kind |-> "pair", refs |-> <<a, d>>]
      BY <1>3, <1>10, <1>13
    <3>2. g[c] = [f[c] EXCEPT !.refs = [f[c].refs EXCEPT ![i] = p]]
      BY <1>3, <1>10, <2>1
    <3> QED BY <1>14, <3>1, <3>2
  <2>4. Contents(c)' = [kind |-> "pair", refs |-> <<a1, d1>>] /\ Succ(c)' = {a1, d1}
    BY <1>3, <1>5, <1>14 DEF Contents, Succ
  <2>5. Program!RefsOf(g, c) = {a1, d1}
    <3>1. g[c].refs = <<a1, d1>> /\ DOMAIN <<a1, d1>> = {1, 2}
      BY <2>3
    <3>2. Program!RefsOf(g, c) = {<<a1, d1>>[j] : j \in {1, 2}}
      BY <3>1 DEF Program!RefsOf
    <3> QED BY <3>2
  <2>6. ASSUME NEW o \in V
        PROVE  /\ g[o] = Contents(o)' /\ Program!RefsOf(g, o) = Succ(o)'
               /\ Program!RefsOf(g, o) \subseteq V \cup {NIL}
    <3>1. CASE o = c
      <4>1. g[c] = Contents(c)' /\ Program!RefsOf(g, c) = Succ(c)'
        BY ONLY <2>3, <2>4, <2>5
      <4>2. {a1, d1} \subseteq V \cup {NIL}
        BY <1>4, <1>13, <1>14
      <4> QED BY ONLY <2>5, <3>1, <4>1, <4>2
    <3>2. CASE o # c
      <4>1. Program!RefsOf(g, o) = Program!RefsOf(f, o)
        BY <2>2, <3>2 DEF Program!RefsOf
      <4> QED BY <1>7, <1>10, <2>2, <3>2, <4>1
    <3> QED BY <3>1, <3>2
  <2>7. Program!Trim(g, Program!Roots(reg', local')) = Objects'
    BY <1>2, <1>6, <1>8, <2>2, <2>6, TrimView
  <2>8. Program!Trim([f EXCEPT ![c].refs[i] = p], Program!Roots(reg, local)) = Objects'
    BY <1>5, <2>1, <2>7
  <2>9. i \in 1 .. (IF MaxVec < 2 THEN 2 ELSE MaxVec)
    BY <1>14, HeapAssumption
  <2>10. f[c].kind = "pair" /\ i \in DOMAIN f[c].refs
    BY <1>3, <1>10, <1>13, <1>14
  <2>11. Program!Value = V \cup {NIL}
    BY <1>2 DEF Program!Value, Objects
  <2> QED BY <1>3, <1>4, <1>5, <1>9, <1>10, <2>8, <2>9, <2>10, <2>11 DEF Program!Write
<1>15. <<p, d>> = [<<a, d>> EXCEPT ![1] = p] /\ <<a, p>> = [<<a, d>> EXCEPT ![2] = p]
  OBVIOUS
<1>16. CASE car' = [car EXCEPT ![c] = p] /\ cdr' = cdr
  <2>1. car'[c] = p /\ cdr'[c] = d
    BY <1>1, <1>3, <1>12, <1>16 DEF TypeOK
  <2> QED BY <1>14, <1>15, <2>1
<1>17. CASE cdr' = [cdr EXCEPT ![c] = p] /\ car' = car
  <2>1. car'[c] = a /\ cdr'[c] = p
    BY <1>1, <1>3, <1>11, <1>17 DEF TypeOK
  <2> QED BY <1>14, <1>15, <2>1
<1> QED BY <1>5, <1>16, <1>17

---------------------------------------------------------------------------
(* Every step.                                                             *)

(* One that gives up is allowed whatever it does.                          *)
LEMMA GivesUp == no_memory' => Program!Next
BY DEF Program!Next

(* One that leaves the memory alone is nothing to the program.             *)
LEMMA SameStore ==
  ASSUME HeapInv, HeapInv', ~no_memory, ~no_memory',
         reg' = reg, local' = local, \A p \in InUse : Kept(p)
  PROVE  UNCHANGED Program!storeVars
<1>1. \A p \in Visible : Kept(p)
  BY ViewHolds DEF View
<1>2. Objects' = Objects
  BY <1>1, SameView
<1>3. no_memory' = no_memory
  BY DEF HeapInv, TypeOK
<1> QED BY <1>2, <1>3 DEF Program!storeVars

(* In particular one after which no cell has changed.                      *)
LEMMA MemoryKept ==
  ASSUME UNCHANGED memory
  PROVE  \A p \in InUse : Kept(p)
BY SameMemory DEF Kept, memory

(* A cell is taken from the free list and delivered.                       *)
LEMMA PopFreeStep ==
  ASSUME HeapInv, HeapInv', VecInv, CallInv, ~no_memory, ~no_memory', PopFree
  PROVE  [Program!Next]_Program!storeVars
<1>1. TypeOK /\ FreeListExact /\ LinksInUse /\ PendingOperands /\ View
  BY ViewHolds DEF HeapInv
<1>2. PICK x : x = free_cell
  OBVIOUS
<1>3. x \in Free /\ x \in Cell /\ x \in Mem /\ x # SINK /\ x \notin InUse
  BY <1>1, <1>2, FreeFacts, FirstIs, CellFacts DEF PopFree, FreeListExact, Mem, Free, InUse
<1>4. Deliver(x, cdr) /\ reg' = reg
  BY <1>2 DEF PopFree
<1>5. CASE call.fn = "get_cell"
  <2>1. /\ kind' = [kind EXCEPT ![x] = "pair"] /\ len' = len /\ local' = local
        /\ car' = [car EXCEPT ![x] = call.a] /\ cdr' = [cdr EXCEPT ![x] = call.b]
    BY <1>3, <1>4, <1>5 DEF Deliver
  <2>2. ASSUME NEW p \in InUse  PROVE Kept(p)
    BY <1>1, <1>3, <2>1 DEF Kept, InUse, TypeOK
  <2> QED BY <1>4, <2>1, <2>2, SameStore
<1>6. CASE call.fn \in {"hold_cons", "hold"}
  <2>1. PICK y : y = call.x
    OBVIOUS
  <2>2. y \in InUse /\ y # SINK /\ y # x
    BY <1>1, <1>3, <2>1 DEF LinksInUse, Roots
  <2>3. /\ kind' = [kind EXCEPT ![x] = "pair"] /\ len' = len /\ local' = local \cup {y}
        /\ \A p \in Mem : p \notin {x, y, SINK} => car'[p] = car[p] /\ cdr'[p] = cdr[p]
    BY <1>1, <1>3, <1>4, <1>6, <2>1 DEF Deliver, TypeOK
  <2>4. y \in Mem => car'[y] = car[y] /\ cdr'[y] = cdr[y]
    <3>1. CASE call.fn = "hold"
      BY <1>1, <1>3, <1>4, <2>1, <2>2, <3>1 DEF Deliver, TypeOK
    <3>2. CASE call.fn = "hold_cons"
      <4>1. car[y] = call.a /\ cdr[y] = call.b
        BY <1>1, <2>1, <2>2, <3>2 DEF PendingOperands
      <4> QED BY <1>1, <1>3, <1>4, <2>1, <2>2, <3>2, <4>1 DEF Deliver, TypeOK
    <3> QED BY <1>6, <3>1, <3>2
  <2>5. ASSUME NEW p \in InUse, p # SINK  PROVE Kept(p)
    <3>1. p # x /\ (p \in Cell => kind'[p] = kind[p] /\ len'[p] = len[p])
      BY <1>1, <1>3, <2>3 DEF TypeOK
    <3>2. p \in InUse'
      BY <3>1 DEF InUse
    <3> QED BY <2>3, <2>4, <2>5, <3>1, <3>2 DEF Kept
  <2>6. Visible \subseteq InUse /\ SINK \notin Visible
    BY <1>1, CellFacts DEF View
  <2>7. CASE y \in Registers
    <3>1. \A p \in Visible : Kept(p)
      BY <2>5, <2>6
    <3>2. Registers \cup local \subseteq Visible \cup {NIL}
      BY <1>1 DEF View
    <3>3. local' \subseteq Visible \cup {NIL}
      BY <2>3, <2>7, <3>2
    <3>4. reg' \in [Regs -> Visible \cup {NIL}]
      BY <1>1, <1>4, <3>2 DEF TypeOK, Registers
    <3>5. Program!Move
      BY <3>1, <3>3, <3>4, MoveView
    <3> QED BY <3>5 DEF Program!Next
  <2>8. CASE y \notin Registers
    <3>1. Fresh /\ (call.fn = "hold_cons" \/ (call.fn = "hold" /\ NewVector))
      BY <1>6, <2>1, <2>8 DEF CallInv
    <3>2. Succ(y) \subseteq InUse /\ SINK \notin Succ(y)
      BY <1>1, <2>2 DEF LinksInUse
    <3>3. \A p \in Visible \cup {call.x} \cup (Succ(call.x) \ {NIL}) : Kept(p)
      BY <2>1, <2>2, <2>5, <2>6, <3>2
    <3>4. Program!Create
      BY <1>4, <2>1, <2>3, <3>1, <3>3, CreateView
    <3> QED BY <3>4 DEF Program!Next
  <2> QED BY <2>7, <2>8
<1> QED BY <1>5, <1>6 DEF PopFree, WantsCell

(* A register gets a value that the program could see: a move.             *)
LEMMA SetRegisterStep ==
  ASSUME HeapInv, HeapInv', ~no_memory, ~no_memory', NEW r \in Regs,
         NEW p \in Held \cup UNION {Elements(h) : h \in Held}, SetRegister(r, p)
  PROVE  Program!Next
<1>1. View /\ TypeOK /\ ElementCells
  BY ViewHolds DEF HeapInv
<1>2. PICK V : V = Visible
  OBVIOUS
<1>3. /\ V \subseteq Cell \cap InUse /\ Held \subseteq V \cup {NIL}
      /\ \A q \in V : Succ(q) \subseteq V \cup {NIL}
  BY <1>1, <1>2 DEF View, Held
<1>4. p \in V \cup {NIL}
  <2>1. CASE p \in Held
    BY <1>3, <2>1
  <2>2. CASE p \notin Held
    <3>1. PICK h \in Held : p \in Elements(h)
      BY <2>2
    <3>2. CASE h \in Cell /\ kind[h] = "vector"
      <4>1. PICK c \in Succ(h) : p = car[c] \/ p = cdr[c]
        BY <3>1, <3>2 DEF Elements
      <4>2. h \in V /\ c \in Cell /\ kind[c] = "pair"
        BY <1>1, <1>3, <3>2, <4>1, CellFacts DEF ElementCells
      <4>3. c \in V /\ c # NIL /\ c # SINK
        BY <1>3, <4>1, <4>2, CellFacts
      <4>4. p \in Succ(c)
        BY <4>1, <4>2, <4>3 DEF Succ
      <4> QED BY <1>3, <4>3, <4>4
    <3>3. CASE ~(h \in Cell /\ kind[h] = "vector")
      <4>1. p \in Succ(h)
        BY <3>1, <3>3 DEF Elements
      <4>2. h # NIL
        BY <4>1 DEF Succ
      <4> QED BY <1>3, <4>1, <4>2
    <3> QED BY <3>2, <3>3
  <2> QED BY <2>1, <2>2
<1>5. reg' = [reg EXCEPT ![r] = p] /\ local' = local /\ UNCHANGED memory
  BY DEF SetRegister
<1>6. reg' \in [Regs -> V \cup {NIL}]
  BY <1>1, <1>3, <1>4, <1>5 DEF TypeOK, Held, Registers
<1>7. \A q \in Visible : Kept(q)
  BY <1>2, <1>3, <1>5, MemoryKept
<1>8. Program!Move
  BY <1>2, <1>3, <1>5, <1>6, <1>7, MoveView DEF Held
<1> QED BY <1>8 DEF Program!Next

(* The opcode ends, and forgets what it held: a move.                      *)
LEMMA EndOfOpcodeStep ==
  ASSUME HeapInv, HeapInv', ~no_memory, ~no_memory', ok_to_freely_gc
  PROVE  Program!Next
<1>1. View /\ TypeOK
  BY ViewHolds DEF HeapInv
<1>2. /\ kind' = kind /\ len' = len /\ cdr' = cdr /\ reg' = reg /\ local' = {}
      /\ car' = [car EXCEPT ![SINK] = NIL]
  BY DEF ok_to_freely_gc
<1>3. ASSUME NEW p \in Visible  PROVE Kept(p)
  <2>1. p \in Cell /\ p \in InUse /\ p # SINK
    BY <1>1, CellFacts DEF View
  <2>2. p \in InUse'
    BY <1>2, <2>1 DEF InUse
  <2> QED BY <1>1, <1>2, <2>1, <2>2 DEF Kept, TypeOK
<1>4. reg' \in [Regs -> Visible \cup {NIL}]
  BY <1>1, <1>2 DEF View, TypeOK, Registers
<1>5. Program!Move
  BY <1>2, <1>3, <1>4, MoveView
<1> QED BY <1>5 DEF Program!Next

(* To the program a step is one of the store's, or nothing.                *)
LEMMA StoreStep ==
  ASSUME HeapInv, HeapInv', VecInv, CallInv, [Next]_vars
  PROVE  [Program!Next]_Program!storeVars
<1>1. CASE no_memory'
  BY <1>1, GivesUp
<1>2. CASE ~no_memory'
  <2>1. ~no_memory
    BY <1>2 DEF Next, Allocator, Opcode, PopFree, DeliverSink, Collect, Grow, GrowFails,
                FindRun, NoRun, cons, mk_vector, push_recent_alloc, SetRegister, SetField,
                ok_to_freely_gc, OP_GC, vars
  <2>2. CASE PopFree
    BY <1>2, <2>1, <2>2, PopFreeStep
  <2>3. CASE DeliverSink \/ NoRun
    BY <1>2, <2>3 DEF DeliverSink, NoRun
  <2>4. CASE Collect \/ OP_GC
    <3>1. gc /\ reg' = reg /\ local' = local
      BY <2>4 DEF Collect, OP_GC
    <3>2. Objects' = Objects
      BY <1>2, <2>1, <3>1, GcKeepsVisible, SameView
    <3>3. no_memory' = no_memory
      BY <2>4 DEF Collect, OP_GC
    <3> QED BY <3>1, <3>2, <3>3 DEF Program!storeVars
  <2>5. CASE Grow
    <3>1. reg' = reg /\ local' = local /\ \A p \in InUse : Kept(p)
      BY <2>5, GrowKeeps DEF Grow
    <3> QED BY <1>2, <2>1, <3>1, SameStore
  <2>6. CASE FindRun
    <3>1. reg' = reg /\ local' = local /\ \A p \in InUse : Kept(p)
      BY <2>6, FindRunKeeps
    <3> QED BY <1>2, <2>1, <3>1, SameStore
  <2>7. CASE \/ GrowFails \/ UNCHANGED vars
             \/ \E a \in local \cup {NIL}, b \in Registers : cons(a, b)
             \/ \E n \in 0 .. MaxVec : mk_vector(n)
             \/ \E r \in Regs : push_recent_alloc(r)
    <3>1. reg' = reg /\ local' = local /\ UNCHANGED memory
      BY <2>7 DEF GrowFails, vars, memory, cons, mk_vector, push_recent_alloc
    <3> QED BY <1>2, <2>1, <3>1, MemoryKept, SameStore
  <2>8. CASE \E r \in Regs : \E p \in Held \cup UNION {Elements(h) : h \in Held} :
               SetRegister(r, p)
    BY <1>2, <2>1, <2>8, SetRegisterStep
  <2>9. CASE \E h \in Registers : \E c \in Fields(h), p \in Held : SetField(c, p)
    <3>1. Program!Write
      BY <1>2, <2>1, <2>9, WriteView
    <3> QED BY <1>2, <3>1 DEF Program!Next
  <2>10. CASE ok_to_freely_gc
    BY <1>2, <2>1, <2>10, EndOfOpcodeStep
  <2> QED BY <2>2, <2>3, <2>4, <2>5, <2>6, <2>7, <2>8, <2>9, <2>10 DEF Next, Allocator, Opcode
<1> QED BY <1>1, <1>2

(* At the start the program sees nothing.                                  *)
LEMMA StoreInit == Init => Program!Init /\ CallInv
<1> SUFFICES ASSUME Init  PROVE Program!Init /\ CallInv
  OBVIOUS
<1>1. View
  BY InitInv, ViewHolds DEF Init
<1>2. Registers \subseteq {NIL} /\ local = {}
  BY DEF Init, Registers
<1>3. Visible \subseteq {}
  BY <1>1, <1>2 DEF View
<1>4. Objects = [o \in {} |-> NIL]
  BY <1>3 DEF Objects
<1>5. CallInv
  BY DEF Init, CallInv, Idle
<1> QED BY <1>4, <1>5 DEF Program!Init, Init

(* Every behaviour of the allocator and the collector is, to the program,  *)
(* one of the plain memory of module Store.                                *)
THEOREM ImplementsStoreTheorem == Spec => ImplementsStore
<1>1. Init => Program!Init /\ CallInv /\ VecInv
  BY StoreInit, InitVec
<1>2. HeapInv /\ VecInv /\ [Next]_vars => VecInv'
  BY StepVec
<1>3. HeapInv /\ CallInv /\ [Next]_vars => CallInv'
  BY StepCall
<1>4. HeapInv /\ HeapInv' /\ VecInv /\ CallInv /\ [Next]_vars
      => [Program!Next]_Program!storeVars
  BY StoreStep
<1> QED BY <1>1, <1>2, <1>3, <1>4, HeapInvariant, PTL DEF Spec, ImplementsStore, Program!Spec
===========================================================================
