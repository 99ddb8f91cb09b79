--------------------------- MODULE CollectorProofs ---------------------------
(***************************************************************************)
(* One collection, for every heap, every number of roots and every shape   *)
(* of the graph: that the links mark has turned round can always be turned *)
(* back (Recoverable), that no vector is entered twice (EachVectorOnce)    *)
(* and that the whole is the one step gc of module Heap (ImplementsGc).    *)
(*                                                                         *)
(* The inductive invariant, CollectorInv, says what no variable of mark    *)
(* does: the cells mark has gone down through, from the root it was given  *)
(* to p, are a sequence S without repetition, and each of them differs     *)
(* from the start in the one field the way down led over, which now holds  *)
(* the cell above it in S.  Where S passes through an element of a vector, *)
(* mark has called itself: the n-th such place is what frames[n] waits     *)
(* for.  All other cells are as they were.  With that, the marks have the  *)
(* usual property: what a marked cell points to is marked, unless it is on *)
(* S or is p, whose remaining pointers are still to be followed.  Then S   *)
(* empty means that the marked cells are closed under pointers, so that    *)
(* they are exactly the live ones (LastStep).                              *)
(***************************************************************************)
EXTENDS Collector, FiniteSetTheorems, WellFoundedInduction, TLAPS

---------------------------------------------------------------------------
(* The heap at the start.                                                  *)

(* The elements of a sequence (Range is taken by the library).             *)
Range1(s) == {s[j] : j \in 1 .. Len(s)}

IsVector(c) == c \in Cell /\ start.kind[c] = "vector"
IsPair(c)   == c \in Cell /\ start.kind[c] = "pair"

Body(v) == (v + 1) .. (v + start.len[v])

(* What pointers lead to: never to a free cell, never into a vector.       *)
Object == {NIL} \cup {c \in Cell : /\ start.kind[c] # "free"
                                   /\ \A v \in Cell : IsVector(v) => c \notin Body(v)}

(* Where mark goes from c.                                                 *)
Succ(c) == IF IsPair(c) THEN {start.car[c], start.cdr[c]}
           ELSE IF IsVector(c) THEN Body(c)
           ELSE {}

(* What Init guarantees of the heap, which only LayoutAssumption is about. *)
StartOK ==
  /\ start.kind \in [Cell -> {"free", "pair", "vector"}]
  /\ start.len \in [Cell -> Nat]
  /\ start.car \in [Node -> Node] /\ start.cdr \in [Node -> Node]
  /\ start.roots \in [1 .. NRoots -> Object]
  /\ \A c \in Cell : IsPair(c) => start.car[c] \in Object /\ start.cdr[c] \in Object
  /\ \A c \in Cell : start.kind[c] = "free" => start.car[c] = NIL
  /\ \A v \in Cell : IsVector(v) => \A c \in Body(v) : IsPair(c)
  /\ \A v, w \in Cell : IsVector(v) /\ IsVector(w) =>
       \A c \in Body(v) : c \in Body(w) => v = w

(* The cells the roots reach.                                              *)
Live == {c \in Node : \A S \in SUBSET Node :
           /\ NIL \in S
           /\ \A j \in 1 .. NRoots : start.roots[j] \in S
           /\ \A d \in S : Succ(d) \subseteq S
           => c \in S}

---------------------------------------------------------------------------
(* The invariant of the marking.                                           *)

(* One place of the chain S: mark went down from the cell c over its car,  *)
(* its cdr or one of its elements; n calls of mark wait there.             *)
Entry == [c : Cell, link : {"car", "cdr", "element"}, n : Nat]

(* The pointer up from the j-th place: a call of mark begins with NULL.    *)
Up(S, j) == IF j = 1 THEN NULL
            ELSE IF S[j - 1].link = "element" THEN NULL
            ELSE S[j - 1].c

(* The cell below the j-th place.                                          *)
Child(S, j) == IF j = Len(S) THEN p ELSE S[j + 1].c

(* How many calls of mark wait at the j-th place or above it.              *)
Depth(S, j) == IF j = 0 THEN 0 ELSE S[j].n

On(S) == {S[j].c : j \in 1 .. Len(S)}

(* c is as the collection found it.                                        *)
Kept(c) == /\ car[c] = start.car[c]
           /\ cdr[c] = start.cdr[c]
           /\ atom[c] = (c = NIL \/ IsVector(c))

(* The j-th place of the chain: the field that led down points up, the     *)
(* atom flag says which field that is, the rest is as it was; an element's *)
(* vector is as it was, and the call that waits knows it and the place.    *)
LinkOK(S, j) ==
  LET d == S[j].c
  IN  /\ S[j].link = "car" =>
           /\ IsPair(d) /\ atom[d]
           /\ car[d] = Up(S, j) /\ start.car[d] = Child(S, j)
           /\ cdr[d] = start.cdr[d]
      /\ S[j].link = "cdr" =>
           /\ IsPair(d) /\ ~atom[d]
           /\ cdr[d] = Up(S, j) /\ start.cdr[d] = Child(S, j)
           /\ car[d] = start.car[d]
      /\ S[j].link = "element" =>
           /\ IsVector(d) /\ Kept(d) /\ Child(S, j) \in Body(d)
           /\ S[j].n \in 1 .. Len(frames)
           /\ frames[S[j].n] = [p |-> d, t |-> Up(S, j),
                                i |-> Child(S, j) - d - 1]

(* S is the chain from a root to p, and nothing outside it is changed.     *)
Chain(S) ==
  /\ S \in Seq(Entry)
  /\ p \in Node /\ p \notin On(S)
  /\ t = Up(S, Len(S) + 1)
  /\ \A j, k \in 1 .. Len(S) : S[j].c = S[k].c => j = k
  /\ Child(S, 0) \in Object
  /\ \A j \in 1 .. Len(S) : LinkOK(S, j)
  /\ \A c \in Node : c \in On(S) \/ Kept(c)

(* The calls of mark that wait are those of the elements on the chain.     *)
Nested(S) ==
  /\ \A j \in 1 .. Len(S) :
       S[j].n = Depth(S, j - 1) + (IF S[j].link = "element" THEN 1 ELSE 0)
  /\ \A j, k \in 1 .. Len(S) : j <= k => S[j].n <= S[k].n
  /\ Depth(S, Len(S)) = Len(frames)
  /\ \A m \in 1 .. Len(frames) : \E j \in 1 .. Len(S) : S[j].link = "element" /\ S[j].n = m

(* What each label of mark relies on.                                      *)
AtLabel ==
  /\ pc \in {"roots", "E2", "E4", "E5", "E6", "elements"}
  /\ pc \in {"E4", "E5", "E6", "elements"} => mark[p]
  /\ pc \in {"E4", "E5"} => IsPair(p)
  /\ pc = "elements" => IsVector(p) /\ i \in 0 .. start.len[p]

(* What is marked: the chain; what the chain has already followed; what    *)
(* any other marked cell leads to; the roots that are done with.           *)
Marks(S) ==
  /\ \A j \in 1 .. Len(S) : mark[S[j].c]
  /\ \A j \in 1 .. Len(S) : S[j].link = "cdr" => mark[start.car[S[j].c]]
  /\ \A j \in 1 .. Len(S) : S[j].link = "element" =>
       \A x \in (S[j].c + 1) .. (Child(S, j) - 1) : mark[x]
  /\ \A c \in Node : mark[c] => \/ c \in On(S)
                                \/ c = p /\ pc \notin {"roots", "E6"}
                                \/ \A x \in Succ(c) : mark[x]
  /\ pc = "E5" => mark[start.car[p]]
  /\ pc = "elements" => \A x \in (p + 1) .. (p + i) : mark[x]
  /\ \A j \in 1 .. NRoots :
       \/ mark[start.roots[j]]
       \/ start.roots[j] \in Range1(todo)
       \/ pc # "roots" /\ S = << >> /\ start.roots[j] = p

(* Nothing is marked, or on its way to be, that the roots do not reach.    *)
InLive(S) ==
  /\ p \in Live
  /\ On(S) \subseteq Live
  /\ \A c \in Node : mark[c] => c \in Live
  /\ \A j \in 1 .. Len(todo) : todo[j] \in Live

WaitingCall == [p : Cell, t : Cell \cup {NULL}, i : Nat]

(* Nothing is swept yet, and everything has its type.                      *)
Unswept ==
  /\ kind = start.kind /\ len = start.len
  /\ scan = Cell
  /\ mark \in [Node -> BOOLEAN] /\ atom \in [Node -> BOOLEAN]
  /\ car \in [Node -> Node \cup {NULL}] /\ cdr \in [Node -> Node \cup {NULL}]
  /\ todo \in Seq(Object)
  /\ frames \in Seq(WaitingCall)
  /\ i \in Nat

MarkingWith(S) ==
  /\ Chain(S) /\ Nested(S) /\ Marks(S) /\ InLive(S)
  /\ pc = "roots" => S = << >>

MarkingInv == Unswept /\ AtLabel /\ \E S \in Seq(Entry) : MarkingWith(S)

---------------------------------------------------------------------------
(* The invariant of the sweep.                                             *)

(* The cells the sweep has passed, and those it has freed.                 *)
Swept == Cell \ scan
Dead  == Swept \ Live

SweepingInv ==
  /\ scan \subseteq Cell /\ frames = << >>
  /\ pc = (IF scan = {} THEN "done" ELSE "sweep")
  /\ \A c \in Swept, d \in scan : c > d
  /\ mark \in [Node -> BOOLEAN]
  /\ \A c \in Node : mark[c] <=> c \in scan /\ c \in Live
  /\ kind = [c \in Cell |-> IF c \in Dead THEN "free" ELSE start.kind[c]]
  /\ len = [c \in Cell |-> IF c \in Dead THEN 0 ELSE start.len[c]]
  /\ car = [c \in Node |-> IF c \in Dead THEN NIL ELSE start.car[c]]
  /\ cdr = [c \in Node |-> IF c \in Dead THEN Low({d \in Dead : d > c})
                           ELSE start.cdr[c]]
  /\ free_cell = Low(Dead)
  /\ fcells = Cardinality(Dead)

CollectorInv ==
  /\ StartOK
  /\ Marking => MarkingInv
  /\ ~Marking => SweepingInv

---------------------------------------------------------------------------
(* Cells, and what the start gives.                                        *)

LEMMA NodeFacts ==
  /\ Cell \subseteq Nat \ {0}
  /\ Node = Cell \cup {NIL} /\ Node \subseteq Nat
  /\ NIL \notin Cell /\ NULL \notin Node
  /\ IsFiniteSet(Cell) /\ Cell # {}
<1>1. SegSize \in Nat \ {0} /\ SegBase \subseteq Nat \ {0}
  BY CollectorAssumption
<1>2. Cell \subseteq Nat \ {0}
  BY <1>1 DEF Cell
<1>3. IsFiniteSet(Cell)
  <2> DEFINE Seg(b) == b .. (b + SegSize - 1)
             f == [b \in SegBase |-> Seg(b)]
             T == {Seg(b) : b \in SegBase}
  <2>1. f \in Surjection(SegBase, T)
    BY DEF Surjection
  <2>2. IsFiniteSet(SegBase)
    BY CollectorAssumption
  <2>3. \A s \in T : IsFiniteSet(s)
    <3>1. ASSUME NEW b \in SegBase  PROVE IsFiniteSet(Seg(b))
      <4>1. b \in Int /\ b + SegSize - 1 \in Int
        BY <1>1
      <4> QED BY <4>1, FS_Interval
    <3> QED BY <3>1
  <2>4. Cell = UNION T
    BY DEF Cell
  <2> HIDE DEF f, T
  <2>5. IsFiniteSet(T)
    BY <2>1, <2>2, FS_Surjection
  <2> QED BY <2>3, <2>4, <2>5, FS_UNION
<1>4. Cell # {}
  <2>1. PICK b \in SegBase : TRUE
    BY CollectorAssumption
  <2>2. b \in b .. (b + SegSize - 1)
    BY <1>1
  <2> QED BY <2>2 DEF Cell
<1> QED BY <1>2, <1>3, <1>4 DEF Node, NIL, NULL

(* A set of natural numbers has a least element: the intervals 0..m are    *)
(* well-founded under strict inclusion.                                    *)
LEMMA Least ==
  ASSUME NEW S, S \subseteq Nat, S # {}
  PROVE  \E m \in S : \A k \in S : m <= k
<1> DEFINE Below == {0 .. m : m \in S}
<1>1. Below \subseteq FiniteSubsetsOf(Nat) /\ Below # {}
  <2>1. ASSUME NEW m \in S  PROVE 0 .. m \in FiniteSubsetsOf(Nat)
    <3>1. IsFiniteSet(0 .. m)
      BY FS_Interval
    <3> QED BY <3>1 DEF FiniteSubsetsOf
  <2> QED BY <2>1
<1>2. \E x \in Below : \A y \in Below : ~ (<<y, x>> \in StrictSubsetOrdering(Nat))
  <2> HIDE DEF Below
  <2> QED BY <1>1, WFMin, FS_StrictSubsetOrderingWellFounded
<1>3. PICK m \in S : \A y \in Below : ~ (<<y, 0 .. m>> \in StrictSubsetOrdering(Nat))
  BY <1>2
<1>4. ASSUME NEW k \in S, ~ (m <= k)  PROVE FALSE
  <2>1. /\ 0 .. k \subseteq 0 .. m
        /\ m \in 0 .. m /\ m \notin 0 .. k
    BY <1>4
  <2>2. <<0 .. k, 0 .. m>> \in (SUBSET Nat) \X (SUBSET Nat)
    OBVIOUS
  <2>3. <<0 .. k, 0 .. m>> \in StrictSubsetOrdering(Nat)
    BY <2>1, <2>2 DEF StrictSubsetOrdering
  <2> QED BY <1>3, <2>3
<1> QED BY <1>4

(* A finite set of natural numbers has a greatest element.                 *)
LEMMA Greatest ==
  ASSUME NEW S, S \subseteq Nat, S # {}, IsFiniteSet(S)
  PROVE  \E m \in S : \A k \in S : k <= m
<1> DEFINE Above(m) == {d \in S : m < d}
           All == {Above(m) : m \in S}
<1>1. All \subseteq FiniteSubsetsOf(S) /\ All # {}
  <2>1. ASSUME NEW m \in S  PROVE Above(m) \in FiniteSubsetsOf(S)
    <3>1. IsFiniteSet(Above(m))
      BY FS_Subset
    <3> QED BY <3>1 DEF FiniteSubsetsOf
  <2> QED BY <2>1
<1>2. \E x \in All : \A y \in All : ~ (<<y, x>> \in StrictSubsetOrdering(S))
  <2> HIDE DEF All
  <2> QED BY <1>1, WFMin, FS_StrictSubsetOrderingWellFounded
<1>3. PICK m \in S : \A y \in All : ~ (<<y, Above(m)>> \in StrictSubsetOrdering(S))
  BY <1>2
<1>4. ASSUME NEW k \in S, ~ (k <= m)  PROVE FALSE
  <2>1. \A d \in S : d \in Nat
    OBVIOUS
  <2>2. m < k /\ \A d \in S : k < d => m < d
    BY <1>4, <2>1
  <2>3. k \in Above(m) /\ k \notin Above(k) /\ Above(k) \subseteq Above(m)
    <3>1. ~ (k < k)
      BY <2>1
    <3> QED BY <2>2, <3>1
  <2>4. <<Above(k), Above(m)>> \in (SUBSET S) \X (SUBSET S)
    OBVIOUS
  <2>5. <<Above(k), Above(m)>> \in StrictSubsetOrdering(S)
    <3> HIDE DEF Above
    <3> QED BY <2>3, <2>4 DEF StrictSubsetOrdering
  <2> QED BY <1>3, <2>5
<1> QED BY <1>4

LEMMA TopIs ==
  ASSUME NEW S, S \subseteq Cell, S # {}
  PROVE  Top(S) \in S /\ \A d \in S : d <= Top(S)
<1>1. IsFiniteSet(S) /\ S \subseteq Nat
  BY NodeFacts, FS_Subset
<1>2. \E m \in S : \A d \in S : d <= m
  BY <1>1, Greatest
<1> QED BY <1>2 DEF Top

LEMMA LeastCell ==
  ASSUME NEW S, S \subseteq Nat, S # {}
  PROVE  Low(S) \in S /\ \A d \in S : Low(S) <= d
<1>1. \E m \in S : \A d \in S : m <= d
  BY Least
<1> QED BY <1>1 DEF Low

LEMMA LowIs ==
  ASSUME NEW S, S \subseteq Cell, NEW m \in S, \A d \in S : m <= d
  PROVE  Low(S) = m
<1>1. S \subseteq Nat /\ S # {}
  BY NodeFacts
<1>2. Low(S) \in S /\ \A d \in S : Low(S) <= d
  BY <1>1, LeastCell
<1>3. Low(S) <= m /\ m <= Low(S) /\ Low(S) \in Nat /\ m \in Nat
  BY <1>1, <1>2
<1> QED BY <1>3

(* Where pointers and elements lead.                                       *)
LEMMA StartFacts ==
  ASSUME StartOK
  PROVE  /\ Object \subseteq Node /\ NIL \in Object
         /\ \A c \in Object : c = NIL \/ IsPair(c) \/ IsVector(c)
         /\ \A c : IsPair(c) => ~IsVector(c) /\ c \in Cell
         /\ \A c : IsVector(c) => c \in Cell
         /\ \A v : IsVector(v) => \A c \in Body(v) : /\ c \notin Object
                                                    /\ IsPair(c)
                                                    /\ c \in Cell
                                                    /\ c \in Nat
         /\ \A c : Succ(c) \subseteq Node
<1>1. Object \subseteq Node /\ NIL \in Object
  BY NodeFacts DEF Object
<1>2. \A c \in Object : c = NIL \/ IsPair(c) \/ IsVector(c)
  BY DEF Object, StartOK, IsPair, IsVector
<1>3. \A c : IsPair(c) => ~IsVector(c) /\ c \in Cell
  BY DEF IsPair, IsVector
<1>4. \A c : IsVector(c) => c \in Cell
  BY DEF IsVector
<1>5. ASSUME NEW v, IsVector(v), NEW c \in Body(v)
      PROVE  c \notin Object /\ IsPair(c) /\ c \in Cell /\ c \in Nat
  <2>1. IsPair(c) /\ c \in Cell /\ c \in Nat
    BY <1>3, <1>4, <1>5, NodeFacts DEF StartOK
  <2>2. c # NIL
    BY <2>1, NodeFacts
  <2> QED BY <1>4, <1>5, <2>1, <2>2 DEF Object
<1>6. ASSUME NEW c  PROVE Succ(c) \subseteq Node
  <2>1. CASE IsPair(c)
    <3>1. c \in Cell /\ start.car[c] \in Object /\ start.cdr[c] \in Object
      BY <1>3, <2>1 DEF StartOK
    <3> QED BY <1>1, <2>1, <3>1 DEF Succ
  <2>2. CASE ~IsPair(c) /\ IsVector(c)
    <3>1. Body(c) \subseteq Cell
      BY <1>5, <2>2
    <3> QED BY <2>2, <3>1, NodeFacts DEF Succ
  <2>3. CASE ~IsPair(c) /\ ~IsVector(c)
    BY <2>3 DEF Succ
  <2> QED BY <2>1, <2>2, <2>3
<1> QED BY <1>1, <1>2, <1>3, <1>4, <1>5, <1>6

(* The live cells are the least set that holds the roots and is closed.    *)
LEMMA LiveFacts ==
  ASSUME StartOK
  PROVE  /\ Live \subseteq Node /\ NIL \in Live
         /\ \A j \in 1 .. NRoots : start.roots[j] \in Live
         /\ \A c \in Live : Succ(c) \subseteq Live
         /\ \A S \in SUBSET Node :
              /\ NIL \in S
              /\ \A j \in 1 .. NRoots : start.roots[j] \in S
              /\ \A d \in S : Succ(d) \subseteq S
              => Live \subseteq S
<1>1. Live \subseteq Node /\ NIL \in Live
  BY NodeFacts DEF Live
<1>2. ASSUME NEW j \in 1 .. NRoots  PROVE start.roots[j] \in Live
  <2>1. start.roots[j] \in Node
    BY StartFacts DEF StartOK
  <2> QED BY <2>1 DEF Live
<1>3. ASSUME NEW c \in Live, NEW x \in Succ(c)  PROVE x \in Live
  <2>1. x \in Node
    BY StartFacts
  <2>2. ASSUME NEW S \in SUBSET Node, NIL \in S,
               \A j \in 1 .. NRoots : start.roots[j] \in S,
               \A d \in S : Succ(d) \subseteq S
        PROVE  x \in S
    <3>1. c \in S
      BY <2>2 DEF Live
    <3> QED BY <2>2, <3>1
  <2> QED BY <2>1, <2>2 DEF Live
<1>4. ASSUME NEW S \in SUBSET Node, NIL \in S,
             \A j \in 1 .. NRoots : start.roots[j] \in S,
             \A d \in S : Succ(d) \subseteq S
      PROVE  Live \subseteq S
  BY <1>4 DEF Live
<1> QED BY <1>1, <1>2, <1>3, <1>4

(* Nothing of this changes.                                                *)
LEMMA StartSame ==
  ASSUME start' = start
  PROVE  /\ StartOK' = StartOK /\ Object' = Object /\ Live' = Live
         /\ \A c : /\ IsPair(c)' = IsPair(c) /\ IsVector(c)' = IsVector(c)
                   /\ Body(c)' = Body(c) /\ Succ(c)' = Succ(c)
<1>1. \A c : /\ IsPair(c)' = IsPair(c) /\ IsVector(c)' = IsVector(c)
             /\ Body(c)' = Body(c)
  BY DEF IsPair, IsVector, Body
<1>2. \A c : Succ(c)' = Succ(c)
  BY <1>1 DEF Succ
<1>3. Object' = Object
  BY <1>1 DEF Object
<1>4. Live' = Live
  BY <1>2 DEF Live
<1>5. StartOK' = StartOK
  BY <1>1, <1>3 DEF StartOK
<1> QED BY <1>1, <1>2, <1>3, <1>4, <1>5

---------------------------------------------------------------------------
(* Sequences of entries.                                                   *)

(* T is S with the entry e behind it.                                      *)
Pushed(S, e, T) ==
  /\ T \in Seq(Entry)
  /\ Len(T) = Len(S) + 1 /\ Len(S) \in Nat
  /\ \A j \in 1 .. Len(S) : T[j] = S[j]
  /\ T[Len(S) + 1] = e
  /\ On(T) = On(S) \cup {e.c}
  /\ \A j \in 1 .. (Len(S) + 1) : Up(T, j) = Up(S, j)
  /\ Up(T, Len(S) + 2) = IF e.link = "element" THEN NULL ELSE e.c
  /\ \A j \in 0 .. Len(S) : Depth(T, j) = Depth(S, j)
  /\ Depth(T, Len(S) + 1) = e.n

LEMMA PushEntry ==
  ASSUME NEW S \in Seq(Entry), NEW e \in Entry
  PROVE  Pushed(S, e, Append(S, e))
<1> DEFINE T == Append(S, e)
<1>1. T \in Seq(Entry) /\ Len(T) = Len(S) + 1 /\ Len(S) \in Nat
  OBVIOUS
<1>2. \A j \in 1 .. Len(S) : T[j] = S[j]
  OBVIOUS
<1>3. T[Len(S) + 1] = e
  OBVIOUS
<1>4. On(T) = On(S) \cup {e.c}
  <2>1. 1 .. Len(T) = 1 .. Len(S) \cup {Len(S) + 1}
    BY <1>1
  <2> QED BY <1>2, <1>3, <2>1 DEF On
<1>5. ASSUME NEW j \in 1 .. (Len(S) + 1)  PROVE Up(T, j) = Up(S, j)
  <2>1. CASE j = 1
    BY <2>1 DEF Up
  <2>2. CASE j # 1
    <3>1. j - 1 \in 1 .. Len(S)
      BY <1>1, <2>2
    <3> QED BY <1>2, <2>2, <3>1 DEF Up
  <2> QED BY <2>1, <2>2
<1>6. Up(T, Len(S) + 2) = IF e.link = "element" THEN NULL ELSE e.c
  <2>1. Len(S) + 2 # 1 /\ Len(S) + 2 - 1 = Len(S) + 1
    BY <1>1
  <2> QED BY <1>3, <2>1 DEF Up
<1>7. \A j \in 0 .. Len(S) : Depth(T, j) = Depth(S, j)
  BY <1>1, <1>2 DEF Depth
<1>8. Depth(T, Len(S) + 1) = e.n
  BY <1>1, <1>3 DEF Depth
<1> HIDE DEF T
<1>9. Pushed(S, e, T)
  BY <1>1, <1>2, <1>3, <1>4, <1>5, <1>6, <1>7, <1>8 DEF Pushed
<1> QED BY <1>9 DEF T

(* Every sequence but the empty one has been pushed.                       *)
LEMMA LastEntry ==
  ASSUME NEW S \in Seq(Entry), S # << >>
  PROVE  /\ Len(S) \in Nat \ {0}
         /\ S[Len(S)] \in Entry
         /\ \E T \in Seq(Entry) : S = Append(T, S[Len(S)])
<1>1. Len(S) \in Nat \ {0}
  OBVIOUS
<1>2. S[Len(S)] \in Entry
  BY <1>1
<1> DEFINE T == [j \in 1 .. (Len(S) - 1) |-> S[j]]
<1>3. T \in Seq(Entry) /\ Len(T) = Len(S) - 1
  <2>1. Len(S) - 1 \in Nat /\ \A j \in 1 .. (Len(S) - 1) : S[j] \in Entry
    BY <1>1
  <2> QED BY <2>1
<1>4. S = Append(T, S[Len(S)])
  <2> DEFINE A == Append(T, S[Len(S)])
  <2>1. A \in Seq(Entry) /\ Len(A) = Len(S)
    BY <1>1, <1>2, <1>3
  <2>2. ASSUME NEW j \in 1 .. Len(S)  PROVE A[j] = S[j]
    <3>1. CASE j = Len(S)
      BY <1>1, <1>3, <3>1
    <3>2. CASE j # Len(S)
      <4>1. j \in 1 .. Len(T)
        BY <1>1, <1>3, <3>2
      <4>2. A[j] = T[j]
        BY <1>3, <4>1
      <4> QED BY <1>3, <4>1, <4>2
    <3> QED BY <3>1, <3>2
  <2> HIDE DEF A
  <2>3. A = S
    BY <2>1, <2>2
  <2> QED BY <2>3 DEF A
<1> QED BY <1>1, <1>2, <1>3, <1>4

LEMMA FrontOf ==
  ASSUME NEW X, NEW s \in Seq(X), NEW m \in Nat, m <= Len(s)
  PROVE  /\ SubSeq(s, 1, m) \in Seq(X)
         /\ Len(SubSeq(s, 1, m)) = m
         /\ \A k \in 1 .. m : SubSeq(s, 1, m)[k] = s[k]
<1>1. Len(SubSeq(s, 1, m)) = m
  OBVIOUS
<1>2. \A k \in 1 .. m : SubSeq(s, 1, m)[k] = s[k]
  OBVIOUS
<1>3. \A k \in 1 .. m : s[k] \in X
  OBVIOUS
<1>4. SubSeq(s, 1, m) = [k \in 1 .. m |-> s[k]]
  OBVIOUS
<1>5. [k \in 1 .. m |-> s[k]] \in Seq(X)
  BY <1>3
<1> QED BY <1>1, <1>2, <1>4, <1>5

---------------------------------------------------------------------------
(* The chain of switched links.                                            *)

(* A step that touches neither the links nor the calls.                    *)
LEMMA SameChain ==
  ASSUME NEW S \in Seq(Entry), Chain(S), Nested(S),
         UNCHANGED <<car, cdr, atom, p, t, frames, start>>
  PROVE  Chain(S)' /\ Nested(S)'
<1>1. /\ \A c : IsPair(c)' = IsPair(c) /\ IsVector(c)' = IsVector(c)
      /\ \A c : Body(c)' = Body(c)
      /\ Object' = Object
  BY StartSame
<1>2. /\ \A j : Up(S, j)' = Up(S, j)
      /\ \A j : Child(S, j)' = Child(S, j)
      /\ \A j : Depth(S, j)' = Depth(S, j)
      /\ On(S)' = On(S)
  BY DEF Up, Child, Depth, On
<1>3. \A c : Kept(c)' = Kept(c)
  BY <1>1 DEF Kept
<1>4. \A j : LinkOK(S, j)' = LinkOK(S, j)
  BY <1>1, <1>2, <1>3 DEF LinkOK
<1>5. Chain(S)'
  BY <1>1, <1>2, <1>3, <1>4 DEF Chain
<1>6. Nested(S)'
  BY <1>2 DEF Nested
<1> QED BY <1>5, <1>6

(* The cells of the chain are pairs and vectors, and p is not among them.  *)
LEMMA ChainCells ==
  ASSUME StartOK, NEW S \in Seq(Entry), Chain(S)
  PROVE  /\ Len(S) \in Nat /\ On(S) \subseteq Cell
         /\ \A j \in 1 .. Len(S) : S[j] \in Entry /\ S[j].c \in On(S) /\ S[j].c # p
         /\ Kept(p)
         /\ p = NIL \/ IsPair(p) \/ IsVector(p)
<1>1. Len(S) \in Nat /\ \A j \in 1 .. Len(S) : S[j] \in Entry
  OBVIOUS
<1>2. On(S) \subseteq Cell
  BY <1>1 DEF On, Entry
<1>3. \A j \in 1 .. Len(S) : S[j].c \in On(S)
  BY DEF On
<1>4. p \in Node /\ p \notin On(S) /\ Kept(p)
  BY DEF Chain
<1>5. p = NIL \/ IsPair(p) \/ IsVector(p)
  <2>1. CASE Len(S) = 0
    <3>1. Child(S, 0) = p
      BY <2>1 DEF Child
    <3> QED BY <3>1, StartFacts DEF Chain
  <2>2. CASE Len(S) # 0
    <3>1. Len(S) \in 1 .. Len(S) /\ Child(S, Len(S)) = p
      BY <1>1, <2>2 DEF Child
    <3>2. LinkOK(S, Len(S)) /\ S[Len(S)] \in Entry
      BY <1>1, <3>1 DEF Chain
    <3> DEFINE d == S[Len(S)].c
    <3>3. CASE S[Len(S)].link = "car"
      <4>1. IsPair(d) /\ start.car[d] = p
        BY <3>1, <3>2, <3>3 DEF LinkOK
      <4>2. p \in Object
        BY <4>1, StartFacts DEF StartOK
      <4> QED BY <4>2, StartFacts
    <3>4. CASE S[Len(S)].link = "cdr"
      <4>1. IsPair(d) /\ start.cdr[d] = p
        BY <3>1, <3>2, <3>4 DEF LinkOK
      <4>2. p \in Object
        BY <4>1, StartFacts DEF StartOK
      <4> QED BY <4>2, StartFacts
    <3>5. CASE S[Len(S)].link = "element"
      <4>1. IsVector(d) /\ p \in Body(d)
        BY <3>1, <3>2, <3>5 DEF LinkOK
      <4> QED BY <4>1, StartFacts
    <3>6. S[Len(S)].link \in {"car", "cdr", "element"}
      BY <3>2 DEF Entry
    <3> QED BY <3>3, <3>4, <3>5, <3>6
  <2> QED BY <2>1, <2>2
<1> QED BY <1>1, <1>2, <1>3, <1>4, <1>5

(* On the way down the chain grows by the cell that is left.               *)
LEMMA PushChain ==
  ASSUME NEW S \in Seq(Entry), NEW e \in Entry, NEW T, T = Append(S, e),
         StartOK, start' = start, Chain(S), Nested(S), e.c = p,
         \A c \in Node \ {p} : car'[c] = car[c] /\ cdr'[c] = cdr[c] /\ atom'[c] = atom[c],
         p' \in Node, p' # p, p' \notin On(S),
         e.n = Len(frames) + (IF e.link = "element" THEN 1 ELSE 0),
         t' = IF e.link = "element" THEN NULL ELSE p,
         Len(frames) \in Nat, Len(frames') = e.n,
         \A k \in 1 .. Len(frames) : frames'[k] = frames[k],
         LinkOK(T, Len(T))'
  PROVE  Chain(T)' /\ Nested(T)'
<1>1. /\ \A c : IsPair(c)' = IsPair(c) /\ IsVector(c)' = IsVector(c)
      /\ \A c : Body(c)' = Body(c)
      /\ Object' = Object
  BY StartSame
<1>0. Pushed(S, e, T)
  BY PushEntry
<1>2. /\ T \in Seq(Entry)
      /\ Len(T) = Len(S) + 1 /\ Len(S) \in Nat
      /\ \A j \in 1 .. Len(S) : T[j] = S[j]
      /\ T[Len(S) + 1] = e
      /\ \A j \in 1 .. (Len(S) + 1) : Up(T, j) = Up(S, j)
      /\ Up(T, Len(S) + 2) = IF e.link = "element" THEN NULL ELSE e.c
      /\ \A j \in 0 .. Len(S) : Depth(T, j) = Depth(S, j)
      /\ Depth(T, Len(S) + 1) = e.n
  BY <1>0 DEF Pushed
<1>2a. On(T) = On(S) \cup {p}
  BY <1>0 DEF Pushed
<1>3. /\ \A j : Up(T, j)' = Up(T, j)
      /\ \A j : Depth(T, j)' = Depth(T, j)
      /\ On(T)' = On(T)
  BY DEF Up, Depth, On
<1>4. /\ On(S) \subseteq Cell
      /\ \A j \in 1 .. Len(S) : S[j] \in Entry /\ S[j].c \in On(S) /\ S[j].c # p
  BY ChainCells
<1>5. ASSUME NEW j \in 0 .. Len(S)  PROVE Child(T, j)' = Child(S, j)
  <2>1. CASE j = Len(S)
    BY <1>2, <2>1 DEF Child
  <2>2. CASE j # Len(S)
    <3>1. j + 1 \in 1 .. Len(S) /\ j # Len(T)
      BY <1>2, <2>2
    <3>2. T[j + 1] = S[j + 1]
      BY <1>2, <3>1
    <3> QED BY <2>2, <3>1, <3>2 DEF Child
  <2> QED BY <2>1, <2>2
<1>6. \A c \in Node \ {p} : Kept(c)' = Kept(c)
  BY <1>1 DEF Kept
<1>7. p' \notin On(T)' /\ p' \in Node
  BY <1>2a, <1>3
<1>8. t' = Up(T, Len(T) + 1)'
  <2>1. Len(T) + 1 = Len(S) + 2
    BY <1>2
  <2> QED BY <1>2, <1>3, <2>1
<1>9. \A j, k \in 1 .. Len(T) : T[j].c = T[k].c => j = k
  <2>1. \A j, k \in 1 .. Len(S) : S[j].c = S[k].c => j = k
    BY DEF Chain
  <2>2. \A j \in 1 .. Len(T) : j \in 1 .. Len(S) \/ j = Len(S) + 1
    BY <1>2
  <2> QED BY <1>2, <1>4, <2>1, <2>2
<1>10. Child(T, 0)' \in Object'
  BY <1>1, <1>2, <1>5 DEF Chain
<1>11. ASSUME NEW j \in 1 .. Len(T)  PROVE LinkOK(T, j)'
  <2>1. CASE j = Len(T)
    BY <2>1
  <2>2. CASE j # Len(T)
    <3>1. j \in 1 .. Len(S)
      BY <1>2, <2>2
    <3>2. LinkOK(S, j) /\ T[j] = S[j]
      BY <1>2, <3>1 DEF Chain
    <3>3. Up(T, j)' = Up(S, j) /\ Child(T, j)' = Child(S, j)
      BY <1>2, <1>3, <1>5, <3>1
    <3> DEFINE d == S[j].c
    <3>4. d \in Node /\ d # p /\ Kept(d)' = Kept(d)
      BY <1>4, <1>6, <3>1, NodeFacts
    <3>5. car'[d] = car[d] /\ cdr'[d] = cdr[d] /\ atom'[d] = atom[d]
      BY <3>4
    <3>6. S[j].link = "element" => S[j].n \in 1 .. Len(frames)
      BY <3>2 DEF LinkOK
    <3>7. S[j].link = "element" => /\ S[j].n \in 1 .. Len(frames')
                                   /\ frames'[S[j].n] = frames[S[j].n]
      BY <3>6
    <3> QED BY <1>1, <3>2, <3>3, <3>4, <3>5, <3>7 DEF LinkOK
  <2> QED BY <2>1, <2>2
<1>12. ASSUME NEW c \in Node  PROVE c \in On(T)' \/ Kept(c)'
  BY <1>2a, <1>3, <1>6 DEF Chain
<1>13. Chain(T)'
  BY <1>2, <1>7, <1>8, <1>9, <1>10, <1>11, <1>12 DEF Chain
<1>14. \A j \in 1 .. Len(T) :
         T[j].n = Depth(T, j - 1) + (IF T[j].link = "element" THEN 1 ELSE 0)
  <2>1. ASSUME NEW j \in 1 .. Len(S)
        PROVE T[j].n = Depth(T, j - 1) + (IF T[j].link = "element" THEN 1 ELSE 0)
    <3>1. j - 1 \in 0 .. Len(S)
      BY <1>2
    <3>2. T[j] = S[j] /\ Depth(T, j - 1) = Depth(S, j - 1)
      BY <1>2, <3>1
    <3> QED BY <3>2 DEF Nested
  <2>2. e.n = Depth(T, Len(S)) + (IF e.link = "element" THEN 1 ELSE 0)
    <3>1. Depth(T, Len(S)) = Depth(S, Len(S))
      BY <1>2
    <3> QED BY <3>1 DEF Nested
  <2>3. \A j \in 1 .. Len(T) : j \in 1 .. Len(S) \/ j = Len(S) + 1
    BY <1>2
  <2> QED BY <1>2, <2>1, <2>2, <2>3
<1>15. \A j, k \in 1 .. Len(T) : j <= k => T[j].n <= T[k].n
  <2>1. \A j, k \in 1 .. Len(S) : j <= k => S[j].n <= S[k].n
    BY DEF Nested
  <2>2. ASSUME NEW j \in 1 .. Len(S)  PROVE S[j].n <= e.n
    <3>1. S[j].n <= S[Len(S)].n /\ S[Len(S)].n = Len(frames)
      BY <1>2, <2>1 DEF Nested, Depth
    <3>2. S[j].n \in Nat /\ e.n \in Nat
      BY <1>4 DEF Entry
    <3> QED BY <3>1, <3>2
  <2>3. \A j \in 1 .. Len(T) : j \in 1 .. Len(S) \/ j = Len(S) + 1
    BY <1>2
  <2>4. e.n \in Nat
    BY DEF Entry
  <2> QED BY <1>2, <2>1, <2>2, <2>3, <2>4
<1>16. Depth(T, Len(T)) = Len(frames')
  BY <1>2
<1>17. ASSUME NEW m \in 1 .. Len(frames')
       PROVE  \E j \in 1 .. Len(T) : T[j].link = "element" /\ T[j].n = m
  <2>1. CASE m \in 1 .. Len(frames)
    <3>1. PICK j \in 1 .. Len(S) : S[j].link = "element" /\ S[j].n = m
      BY <2>1 DEF Nested
    <3>2. j \in 1 .. Len(T) /\ T[j] = S[j]
      BY <1>2
    <3> QED BY <3>1, <3>2
  <2>2. CASE m \notin 1 .. Len(frames)
    <3>1. e.link = "element" /\ m = e.n
      BY <2>2
    <3>2. Len(T) \in 1 .. Len(T) /\ T[Len(T)] = e
      BY <1>2
    <3> QED BY <3>1, <3>2
  <2> QED BY <2>1, <2>2
<1>18. Nested(T)'
  BY <1>3, <1>14, <1>15, <1>16, <1>17 DEF Nested
<1> QED BY <1>13, <1>18

(* On the way up it loses its last cell, whose links are then put back.    *)
LEMMA PopChain ==
  ASSUME NEW T \in Seq(Entry), NEW e \in Entry, NEW S, S = Append(T, e),
         StartOK, start' = start, Chain(S), Nested(S), p' = e.c,
         \A c \in Node \ {e.c} : car'[c] = car[c] /\ cdr'[c] = cdr[c] /\ atom'[c] = atom[c],
         Kept(e.c)', t' = Up(S, Len(S)),
         Len(frames) \in Nat, Len(frames') \in Nat,
         Len(frames) = Len(frames') + (IF e.link = "element" THEN 1 ELSE 0),
         \A k \in 1 .. Len(frames') : frames'[k] = frames[k]
  PROVE  Chain(T)' /\ Nested(T)'
<1>1. /\ \A c : IsPair(c)' = IsPair(c) /\ IsVector(c)' = IsVector(c)
      /\ \A c : Body(c)' = Body(c)
      /\ Object' = Object
  BY StartSame
<1>0. Pushed(T, e, S)
  BY PushEntry
<1>2. /\ S \in Seq(Entry)
      /\ Len(S) = Len(T) + 1 /\ Len(T) \in Nat
      /\ \A j \in 1 .. Len(T) : S[j] = T[j]
      /\ S[Len(T) + 1] = e
      /\ On(S) = On(T) \cup {e.c}
      /\ \A j \in 1 .. (Len(T) + 1) : Up(S, j) = Up(T, j)
      /\ \A j \in 0 .. Len(T) : Depth(S, j) = Depth(T, j)
      /\ Depth(S, Len(T) + 1) = e.n
  BY <1>0 DEF Pushed
<1>3. /\ \A j : Up(T, j)' = Up(T, j)
      /\ \A j : Depth(T, j)' = Depth(T, j)
      /\ On(T)' = On(T)
  BY DEF Up, Depth, On
<1>4. /\ On(S) \subseteq Cell
      /\ \A j \in 1 .. Len(S) : S[j] \in Entry /\ S[j].c \in On(S) /\ S[j].c # p
  BY <1>2, ChainCells
<1>5. ASSUME NEW j \in 0 .. Len(T)  PROVE Child(T, j)' = Child(S, j)
  <2>1. CASE j = Len(T)
    BY <1>2, <2>1 DEF Child
  <2>2. CASE j # Len(T)
    <3>1. j + 1 \in 1 .. Len(T) /\ j # Len(S)
      BY <1>2, <2>2
    <3>2. S[j + 1] = T[j + 1]
      BY <1>2, <3>1
    <3> QED BY <2>2, <3>1, <3>2 DEF Child
  <2> QED BY <2>1, <2>2
<1>6. \A c \in Node \ {e.c} : Kept(c)' = Kept(c)
  BY <1>1 DEF Kept
<1>9. \A j, k \in 1 .. Len(S) : S[j].c = S[k].c => j = k
  BY DEF Chain
<1>7. e.c \notin On(T) /\ e.c \in Node /\ e.c \in On(S)
  <2>1. ASSUME NEW j \in 1 .. Len(T), T[j].c = e.c  PROVE FALSE
    <3>1. j \in 1 .. Len(S) /\ Len(T) + 1 \in 1 .. Len(S) /\ j # Len(T) + 1
      BY <1>2
    <3> QED BY <1>2, <1>9, <2>1, <3>1
  <2>2. e.c \in On(S) /\ e.c \in Node
    BY <1>2, <1>4, NodeFacts
  <2> QED BY <2>1, <2>2 DEF On
<1>8. t' = Up(T, Len(T) + 1)'
  BY <1>2, <1>3
<1>10. Child(T, 0)' \in Object'
  <2>1. Child(S, 0) \in Object
    BY DEF Chain
  <2> QED BY <1>1, <1>2, <1>5, <2>1
<1>11. ASSUME NEW j \in 1 .. Len(T)  PROVE LinkOK(T, j)'
  <2>1. j \in 1 .. Len(S) /\ T[j] = S[j]
    BY <1>2
  <2>2. LinkOK(S, j)
    BY <2>1 DEF Chain
  <2>3. Up(T, j)' = Up(S, j) /\ Child(T, j)' = Child(S, j)
    BY <1>2, <1>3, <1>5
  <2> DEFINE d == S[j].c
  <2>4. d \in Node /\ d # e.c
    <3>1. d \in On(T)
      BY <2>1 DEF On
    <3> QED BY <1>4, <1>7, <2>1, <3>1, NodeFacts
  <2>5. /\ car'[d] = car[d] /\ cdr'[d] = cdr[d] /\ atom'[d] = atom[d]
        /\ Kept(d)' = Kept(d)
    BY <1>6, <2>4
  <2>6. S[j].link = "element" => S[j].n \in 1 .. Len(frames')
    <3>1. SUFFICES ASSUME S[j].link = "element" PROVE S[j].n \in 1 .. Len(frames')
      OBVIOUS
    <3>2. S[j].n \in 1 .. Len(frames) /\ S[j].n \in Nat
      BY <2>2, <3>1 DEF LinkOK
    <3>3. S[j].n <= S[Len(T)].n /\ S[Len(T)].n \in Nat
      <4>1. Len(T) \in 1 .. Len(S) /\ j <= Len(T)
        BY <1>2
      <4>2. S[Len(T)] \in Entry
        BY <1>4, <4>1
      <4> QED BY <2>1, <4>1, <4>2 DEF Nested, Entry
    <3>4. e.n = S[Len(T)].n + (IF e.link = "element" THEN 1 ELSE 0)
      <4>1. /\ Len(T) + 1 \in 1 .. Len(S) /\ Len(T) + 1 - 1 = Len(T) /\ Len(T) # 0
        BY <1>2
      <4>2. Depth(S, Len(T)) = S[Len(T)].n
        BY <4>1 DEF Depth
      <4>3. e.n = Depth(S, Len(T) + 1 - 1) + (IF e.link = "element" THEN 1 ELSE 0)
        BY <1>2, <4>1 DEF Nested
      <4> QED BY <4>1, <4>2, <4>3
    <3>5. e.n = Len(frames)
      BY <1>2 DEF Nested
    <3> QED BY <3>2, <3>3, <3>4, <3>5
  <2>7. S[j].link = "element" => frames'[S[j].n] = frames[S[j].n]
    BY <2>6
  <2> QED BY <1>1, <2>1, <2>2, <2>3, <2>5, <2>6, <2>7 DEF LinkOK
<1>12. ASSUME NEW c \in Node  PROVE c \in On(T)' \/ Kept(c)'
  <2>1. c \in On(S) \/ Kept(c)
    BY DEF Chain
  <2>2. CASE c = e.c
    BY <2>2
  <2>3. CASE c # e.c
    BY <1>2, <1>3, <1>6, <2>1, <2>3
  <2> QED BY <2>2, <2>3
<1>13. \A j, k \in 1 .. Len(T) : T[j].c = T[k].c => j = k
  <2>1. \A j \in 1 .. Len(T) : j \in 1 .. Len(S) /\ T[j] = S[j]
    BY <1>2
  <2> QED BY <1>9, <2>1
<1>14. Chain(T)'
  BY <1>3, <1>7, <1>8, <1>10, <1>11, <1>12, <1>13 DEF Chain
<1>15. ASSUME NEW j \in 1 .. Len(T)
       PROVE  T[j].n = Depth(T, j - 1) + (IF T[j].link = "element" THEN 1 ELSE 0)
  <2>1. j \in 1 .. Len(S) /\ j - 1 \in 0 .. Len(T)
    BY <1>2
  <2>2. S[j] = T[j] /\ Depth(S, j - 1) = Depth(T, j - 1)
    BY <1>2, <2>1
  <2> QED BY <2>1, <2>2 DEF Nested
<1>16. \A j, k \in 1 .. Len(T) : j <= k => T[j].n <= T[k].n
  <2>1. \A j \in 1 .. Len(T) : j \in 1 .. Len(S) /\ T[j] = S[j]
    BY <1>2
  <2> QED BY <2>1 DEF Nested
<1>17. e.n = Len(frames) /\ e.n = Depth(T, Len(T)) + (IF e.link = "element" THEN 1 ELSE 0)
  <2>1. e.n = Len(frames)
    BY <1>2 DEF Nested
  <2>2. Len(T) + 1 \in 1 .. Len(S) /\ Len(T) + 1 - 1 = Len(T)
    BY <1>2
  <2>3. Depth(S, Len(T)) = Depth(T, Len(T))
    BY <1>2
  <2> QED BY <1>2, <2>1, <2>2, <2>3 DEF Nested
<1>18. Depth(T, Len(T)) \in Nat
  <2>1. Len(T) # 0 => T[Len(T)] \in Entry
    BY <1>2
  <2> QED BY <2>1 DEF Depth, Entry
<1>19. Depth(T, Len(T)) = Len(frames')
  BY <1>17, <1>18
<1>20. ASSUME NEW m \in 1 .. Len(frames')
       PROVE  \E j \in 1 .. Len(T) : T[j].link = "element" /\ T[j].n = m
  <2>1. m \in 1 .. Len(frames) /\ (e.link = "element" => m # e.n)
    BY <1>17
  <2>2. PICK j \in 1 .. Len(S) : S[j].link = "element" /\ S[j].n = m
    BY <2>1 DEF Nested
  <2>3. j # Len(S)
    BY <1>2, <2>1, <2>2
  <2>4. j \in 1 .. Len(T) /\ T[j] = S[j]
    BY <1>2, <2>3
  <2> QED BY <2>2, <2>4
<1>21. Nested(T)'
  BY <1>3, <1>15, <1>16, <1>19, <1>20 DEF Nested
<1> QED BY <1>14, <1>21

---------------------------------------------------------------------------
(* What is marked.                                                         *)

(* Going down from p, which is marked, keeps what is known of the marks ... *)
LEMMA PushMarks ==
  ASSUME NEW S \in Seq(Entry), NEW e \in Entry, NEW T, T = Append(S, e),
         StartOK, start' = start, Chain(S), Marks(S), e.c = p, mark[p],
         mark' = mark, todo' = todo, pc' = "E2", pc # "roots",
         e.link = "cdr" => mark[start.car[p]],
         e.link = "element" => \A x \in (p + 1) .. (p' - 1) : mark[x]
  PROVE  Marks(T)'
<1>1. Pushed(S, e, T)
  BY PushEntry
<1>2. /\ Len(T) = Len(S) + 1 /\ Len(S) \in Nat
      /\ \A j \in 1 .. Len(S) : T[j] = S[j]
      /\ T[Len(S) + 1] = e
      /\ On(T) = On(S) \cup {p}
  BY <1>1 DEF Pushed
<1>3. \A j \in 1 .. Len(T) : j \in 1 .. Len(S) \/ j = Len(S) + 1
  BY <1>2
<1>4. \A j \in 1 .. Len(T) : mark[T[j].c]
  BY <1>2, <1>3 DEF Marks
<1>5. \A j \in 1 .. Len(T) : T[j].link = "cdr" => mark[start.car[T[j].c]]
  BY <1>2, <1>3 DEF Marks
<1>6. ASSUME NEW j \in 1 .. Len(T), T[j].link = "element",
             NEW x \in (T[j].c + 1) .. (Child(T, j)' - 1)
      PROVE  mark[x]
  <2>1. CASE j = Len(T)
    <3>1. T[j] = e /\ Child(T, j)' = p'
      BY <1>2, <2>1 DEF Child
    <3> QED BY <1>6, <3>1
  <2>2. CASE j # Len(T)
    <3>1. j \in 1 .. Len(S) /\ T[j] = S[j]
      BY <1>2, <1>3, <2>2
    <3>2. Child(T, j)' = Child(S, j)
      <4>1. CASE j = Len(S)
        BY <1>2, <4>1 DEF Child
      <4>2. CASE j # Len(S)
        <5>1. j + 1 \in 1 .. Len(S)
          BY <1>2, <3>1, <4>2
        <5> QED BY <1>2, <2>2, <4>2, <5>1 DEF Child
      <4> QED BY <4>1, <4>2
    <3> QED BY <1>6, <3>1, <3>2 DEF Marks
  <2> QED BY <2>1, <2>2
<1>7. ASSUME NEW c \in Node, mark[c]
      PROVE  c \in On(T) \/ \A x \in Succ(c) : mark[x]
  BY <1>2, <1>7 DEF Marks
<1>8. ASSUME NEW j \in 1 .. NRoots
      PROVE  mark[start.roots[j]] \/ start.roots[j] \in Range1(todo)
  BY DEF Marks
<1>9. On(T)' = On(T) /\ Range1(todo)' = Range1(todo)
  BY DEF On, Range1
<1>10. \A c : Succ(c)' = Succ(c)
  BY StartSame
<1> QED BY <1>4, <1>5, <1>6, <1>7, <1>8, <1>9, <1>10 DEF Marks

(* ... and so does coming up from it, when all it leads to is marked.      *)
LEMMA PopMarks ==
  ASSUME NEW T \in Seq(Entry), NEW e \in Entry, NEW S, S = Append(T, e),
         StartOK, start' = start, Chain(S), Marks(S), p' = e.c,
         mark' = mark, todo' = todo, pc = "E6",
         pc' \in {"E5", "E6", "elements"},
         pc' = "E5" => mark[start.car[e.c]],
         pc' = "E6" => \A x \in Succ(e.c) : mark[x],
         pc' = "elements" => \A x \in (e.c + 1) .. (e.c + i') : mark[x]
  PROVE  Marks(T)'
<1>1. Pushed(T, e, S)
  BY PushEntry
<1>2. /\ Len(S) = Len(T) + 1 /\ Len(T) \in Nat
      /\ \A j \in 1 .. Len(T) : S[j] = T[j]
      /\ S[Len(T) + 1] = e
      /\ On(S) = On(T) \cup {e.c}
  BY <1>1 DEF Pushed
<1>3. \A j \in 1 .. Len(T) : j \in 1 .. Len(S)
  BY <1>2
<1>4. \A j \in 1 .. Len(T) : mark[T[j].c]
  BY <1>2, <1>3 DEF Marks
<1>5. \A j \in 1 .. Len(T) : T[j].link = "cdr" => mark[start.car[T[j].c]]
  BY <1>2, <1>3 DEF Marks
<1>6. ASSUME NEW j \in 1 .. Len(T), T[j].link = "element",
             NEW x \in (T[j].c + 1) .. (Child(T, j)' - 1)
      PROVE  mark[x]
  <2>1. Child(T, j)' = Child(S, j)
    <3>1. CASE j = Len(T)
      BY <1>2, <3>1 DEF Child
    <3>2. CASE j # Len(T)
      <4>1. j + 1 \in 1 .. Len(T) /\ j # Len(S)
        BY <1>2, <3>2
      <4> QED BY <1>2, <3>2, <4>1 DEF Child
    <3> QED BY <3>1, <3>2
  <2>2. S[j] = T[j] /\ j \in 1 .. Len(S)
    BY <1>2, <1>3
  <2> QED BY <1>6, <2>1, <2>2 DEF Marks
<1>7. ASSUME NEW c \in Node, mark[c]
      PROVE  \/ c \in On(T)
             \/ c = p' /\ pc' \notin {"roots", "E6"}
             \/ \A x \in Succ(c) : mark[x]
  BY <1>2, <1>7 DEF Marks
<1>8. ASSUME NEW j \in 1 .. NRoots
      PROVE  mark[start.roots[j]] \/ start.roots[j] \in Range1(todo)
  <2>1. S # << >>
    BY <1>2
  <2> QED BY <2>1 DEF Marks
<1>9. On(T)' = On(T) /\ Range1(todo)' = Range1(todo)
  BY DEF On, Range1
<1>10. \A c : Succ(c)' = Succ(c)
  BY StartSame
<1> QED BY <1>4, <1>5, <1>6, <1>7, <1>8, <1>9, <1>10 DEF Marks

(* An element of the vector p is on no chain.                              *)
LEMMA ElementNotOn ==
  ASSUME StartOK, NEW S \in Seq(Entry), Chain(S), IsVector(p), NEW x \in Body(p)
  PROVE  x \notin On(S) /\ x # p /\ x \in Cell
<1>1. /\ x \notin Object /\ IsPair(x) /\ x \in Cell /\ x # p
      /\ p \in Cell
  BY StartFacts
<1>2. ASSUME NEW j \in 1 .. Len(S), S[j].c = x  PROVE FALSE
  <2>1. CASE j = 1
    <3>1. Child(S, 0) = x
      BY <1>2, <2>1 DEF Child
    <3> QED BY <1>1, <3>1 DEF Chain
  <2>2. CASE j # 1
    <3> DEFINE d == S[j - 1].c
    <3>1. /\ j - 1 \in 1 .. Len(S) /\ j - 1 # Len(S) /\ j - 1 + 1 = j
          /\ S[j - 1] \in Entry
      BY <2>2
    <3>2. LinkOK(S, j - 1) /\ d # p
      BY <3>1, ChainCells DEF Chain
    <3>3. Child(S, j - 1) = x
      BY <1>2, <3>1 DEF Child
    <3>4. CASE S[j - 1].link = "car"
      <4>1. IsPair(d) /\ start.car[d] = x
        BY <3>2, <3>3, <3>4 DEF LinkOK
      <4> QED BY <1>1, <4>1, StartFacts DEF StartOK
    <3>5. CASE S[j - 1].link = "cdr"
      <4>1. IsPair(d) /\ start.cdr[d] = x
        BY <3>2, <3>3, <3>5 DEF LinkOK
      <4> QED BY <1>1, <4>1, StartFacts DEF StartOK
    <3>6. CASE S[j - 1].link = "element"
      <4>1. IsVector(d) /\ x \in Body(d) /\ d \in Cell
        BY <3>2, <3>3, <3>6, StartFacts DEF LinkOK
      <4>2. d = p
        BY <1>1, <4>1 DEF StartOK
      <4> QED BY <3>2, <4>2
    <3> QED BY <3>1, <3>4, <3>5, <3>6 DEF Entry
  <2> QED BY <2>1, <2>2
<1> QED BY <1>1, <1>2 DEF On

---------------------------------------------------------------------------
(* The steps of the marking.                                               *)

(* What the invariant of the marking gives each of them.                   *)
LEMMA MarkingFacts ==
  ASSUME StartOK, Unswept, NEW S \in Seq(Entry), MarkingWith(S)
  PROVE  /\ p \in Node /\ p \in Live
         /\ p # NIL => p \in Cell
         /\ kind = start.kind /\ len = start.len
         /\ is_vector(p) = IsVector(p)
         /\ car[p] = start.car[p] /\ cdr[p] = start.cdr[p]
         /\ atom[p] = (p = NIL \/ IsVector(p))
         /\ p = NIL \/ IsPair(p) \/ IsVector(p)
         /\ Len(frames) \in Nat /\ Len(S) \in Nat
         /\ \A c \in On(S) : mark[c]
<1>1. Chain(S) /\ Nested(S) /\ Marks(S) /\ InLive(S)
  BY DEF MarkingWith
<1>2. p \in Node /\ p \in Live /\ (p # NIL => p \in Cell)
  BY <1>1, NodeFacts DEF Chain, InLive
<1>3. is_vector(p) = IsVector(p)
  BY <1>2, NodeFacts DEF is_vector, IsVector, Unswept
<1>4. Kept(p) /\ (p = NIL \/ IsPair(p) \/ IsVector(p))
  BY <1>1, ChainCells
<1>5. \A c \in On(S) : mark[c]
  BY <1>1 DEF Marks, On
<1>6. Len(frames) \in Nat
  BY DEF Unswept
<1> QED BY <1>2, <1>3, <1>4, <1>5, <1>6 DEF Kept, Unswept

(* Marking starts from the next root.                                      *)
LEMMA MarkRootInv == StartOK /\ MarkingInv /\ MarkRoot => MarkingInv'
<1> SUFFICES ASSUME StartOK, MarkingInv, MarkRoot PROVE MarkingInv'
  OBVIOUS
<1>1. PICK S \in Seq(Entry) : MarkingWith(S)
  BY DEF MarkingInv
<1>2. S = << >> /\ Chain(S) /\ Nested(S) /\ Marks(S) /\ InLive(S)
  BY <1>1 DEF MarkingWith, MarkRoot
<1>3. /\ pc = "roots" /\ pc' = "E2" /\ p' = Head(todo) /\ t' = NULL /\ i' = 0
      /\ todo # << >> /\ todo' = Tail(todo)
      /\ UNCHANGED <<car, cdr, atom, mark, frames, kind, len, scan, start>>
  BY DEF MarkRoot, CallMark, links, flags, sweeping
<1>4. todo \in Seq(Object) /\ Object \subseteq Node
  BY StartFacts DEF MarkingInv, Unswept
<1>5. p' = todo[1] /\ p' \in Object /\ p' \in Node /\ todo' \in Seq(Object)
  BY <1>3, <1>4
<1>6. /\ \A c : IsPair(c)' = IsPair(c) /\ IsVector(c)' = IsVector(c)
      /\ \A c : Body(c)' = Body(c) /\ Succ(c)' = Succ(c)
      /\ Object' = Object /\ Live' = Live
  BY <1>3, StartSame
<1>7. Unswept'
  BY <1>3, <1>5, <1>6 DEF MarkingInv, Unswept
<1>8. AtLabel'
  BY <1>3 DEF AtLabel
<1>9. Chain(S)'
  <2>1. Len(S) = 0 /\ On(S) = {} /\ On(S)' = {}
    BY <1>2 DEF On
  <2>2. t' = Up(S, Len(S) + 1)'
    BY <1>3, <2>1 DEF Up
  <2>3. Child(S, 0)' = p'
    BY <2>1 DEF Child
  <2>4. \A c \in Node : Kept(c)'
    BY <1>2, <1>3, <1>6, <2>1 DEF Chain, Kept
  <2> QED BY <1>5, <1>6, <2>1, <2>2, <2>3, <2>4 DEF Chain
<1>10. Nested(S)'
  BY <1>2, <1>3 DEF Nested, Depth
<1>11. Marks(S)'
  <2>1. Len(S) = 0 /\ On(S) = {}
    BY <1>2 DEF On
  <2>2. \A c \in Node : mark[c] => \A x \in Succ(c) : mark[x]
    BY <1>2, <1>3, <2>1 DEF Marks
  <2>3. ASSUME NEW j \in 1 .. NRoots
        PROVE  \/ mark[start.roots[j]]
               \/ start.roots[j] \in Range1(todo')
               \/ start.roots[j] = p'
    <3>1. CASE mark[start.roots[j]]
      BY <3>1
    <3>2. CASE start.roots[j] \in Range1(todo)
      <4>1. PICK k \in 1 .. Len(todo) : todo[k] = start.roots[j]
        BY <3>2 DEF Range1
      <4>2. CASE k = 1
        BY <1>5, <4>1, <4>2
      <4>3. CASE k # 1
        <5>1. k - 1 \in 1 .. Len(Tail(todo)) /\ Tail(todo)[k - 1] = todo[k]
          BY <1>3, <1>4, <4>3
        <5> QED BY <1>3, <4>1, <5>1 DEF Range1
      <4> QED BY <4>2, <4>3
    <3> QED BY <1>2, <1>3, <3>1, <3>2 DEF Marks
  <2>4. Range1(todo)' = Range1(todo')
    BY DEF Range1
  <2> QED BY <1>2, <1>3, <1>6, <2>1, <2>2, <2>3, <2>4 DEF Marks
<1>12. InLive(S)'
  <2>1. On(S)' = {}
    BY <1>2 DEF On
  <2>2. p' \in Live
    <3>1. 1 \in 1 .. Len(todo)
      BY <1>3, <1>4
    <3> QED BY <1>2, <1>5, <3>1 DEF InLive
  <2>3. \A j \in 1 .. Len(todo') : todo'[j] \in Live
    <3>1. ASSUME NEW j \in 1 .. Len(todo')  PROVE todo'[j] \in Live
      <4>1. j + 1 \in 1 .. Len(todo) /\ todo'[j] = todo[j + 1]
        BY <1>3, <1>4
      <4> QED BY <1>2, <4>1 DEF InLive
    <3> QED BY <3>1
  <2> QED BY <1>2, <1>3, <1>6, <2>1, <2>2, <2>3 DEF InLive
<1> QED BY <1>3, <1>7, <1>8, <1>9, <1>10, <1>11, <1>12 DEF MarkingInv, MarkingWith

(* A cell is marked.                                                       *)
LEMMA E2Inv == StartOK /\ MarkingInv /\ E2 => MarkingInv'
<1> SUFFICES ASSUME StartOK, MarkingInv, E2 PROVE MarkingInv'
  OBVIOUS
<1>1. PICK S \in Seq(Entry) : MarkingWith(S)
  BY DEF MarkingInv
<1>2. Chain(S) /\ Nested(S) /\ Marks(S) /\ InLive(S) /\ Unswept
  BY <1>1 DEF MarkingWith, MarkingInv
<1>3. /\ pc = "E2" /\ mark' = [mark EXCEPT ![p] = TRUE] /\ i' = 0
      /\ pc' = IF is_vector(p) THEN "elements" ELSE IF atom[p] THEN "E6" ELSE "E4"
      /\ UNCHANGED <<car, cdr, atom, p, t, frames, todo, kind, len, scan, start>>
  BY DEF E2, links, sweeping
<1>4. /\ p \in Node /\ p \in Live
      /\ is_vector(p) = IsVector(p)
      /\ atom[p] = (p = NIL \/ IsVector(p))
      /\ p = NIL \/ IsPair(p) \/ IsVector(p)
  BY <1>1, <1>2, MarkingFacts
<1>5. /\ \A c : IsPair(c)' = IsPair(c) /\ IsVector(c)' = IsVector(c)
      /\ \A c : Body(c)' = Body(c) /\ Succ(c)' = Succ(c)
      /\ Object' = Object /\ Live' = Live
  BY <1>3, StartSame
<1>6. /\ mark \in [Node -> BOOLEAN] /\ mark' \in [Node -> BOOLEAN]
      /\ mark'[p] /\ \A c \in Node : mark'[c] <=> mark[c] \/ c = p
  BY <1>2, <1>3, <1>4 DEF Unswept
<1>7. Unswept'
  BY <1>2, <1>3, <1>5, <1>6 DEF Unswept
<1>8. AtLabel'
  <2>1. pc' \in {"E6", "E4", "elements"}
    BY <1>3
  <2>2. pc' = "E4" => IsPair(p)
    BY <1>3, <1>4
  <2>3. pc' = "elements" => IsVector(p) /\ 0 \in 0 .. start.len[p]
    <3>1. pc' = "elements" => IsVector(p)
      BY <1>3, <1>4
    <3>2. IsVector(p) => start.len[p] \in Nat
      BY DEF StartOK, IsVector
    <3> QED BY <3>1, <3>2
  <2> QED BY <1>3, <1>5, <1>6, <2>1, <2>2, <2>3 DEF AtLabel
<1>9. Chain(S)' /\ Nested(S)'
  BY <1>2, <1>3, SameChain
<1>10. Marks(S)'
  <2>1. On(S)' = On(S) /\ Range1(todo)' = Range1(todo) /\ On(S) \subseteq Cell
    BY <1>2, <1>3, ChainCells DEF On, Range1
  <2>2. \A j : Child(S, j)' = Child(S, j)
    BY <1>3 DEF Child
  <2>3. /\ \A j \in 1 .. Len(S) : S[j].c \in Node
        /\ \A j \in 1 .. Len(S) : start.car[S[j].c] \in Node
        /\ \A j \in 1 .. NRoots : start.roots[j] \in Node
    <3>1. \A j \in 1 .. Len(S) : S[j].c \in Node
      <4>1. \A j \in 1 .. Len(S) : S[j].c \in On(S)
        BY DEF On
      <4> QED BY <2>1, <4>1, NodeFacts
    <3> QED BY <3>1, StartFacts DEF StartOK
  <2>4. \A j \in 1 .. Len(S) : S[j].link = "element" =>
          \A x \in (S[j].c + 1) .. (Child(S, j) - 1) : mark'[x]
    <3>1. ASSUME NEW j \in 1 .. Len(S), S[j].link = "element",
                 NEW x \in (S[j].c + 1) .. (Child(S, j) - 1)
          PROVE  mark'[x]
      <4>1. mark[x]
        BY <1>2, <3>1 DEF Marks
      <4>2. IsVector(S[j].c) /\ Child(S, j) \in Body(S[j].c)
        BY <1>2, <3>1 DEF Chain, LinkOK
      <4>3. S[j].c \in Nat /\ Child(S, j) \in Nat /\ start.len[S[j].c] \in Nat
        BY <4>2, StartFacts, NodeFacts DEF StartOK
      <4>4. x \in Body(S[j].c)
        BY <4>2, <4>3 DEF Body
      <4>5. x \in Node
        BY <4>2, <4>4, StartFacts, NodeFacts
      <4> QED BY <1>6, <4>1, <4>5
    <3> QED BY <3>1
  <2>5. ASSUME NEW c \in Node, mark'[c]
        PROVE  \/ c \in On(S)
               \/ c = p /\ pc' \notin {"roots", "E6"}
               \/ \A x \in Succ(c) : mark'[x]
    <3>1. CASE c # p
      <4>1. mark[c]
        BY <1>6, <2>5, <3>1
      <4>2. c \in On(S) \/ \A x \in Succ(c) : mark[x]
        BY <1>2, <3>1, <4>1 DEF Marks
      <4>3. Succ(c) \subseteq Node
        BY StartFacts
      <4> QED BY <1>6, <4>2, <4>3
    <3>2. CASE c = p /\ pc' = "E6"
      <4>1. c = NIL /\ ~IsPair(c) /\ ~IsVector(c)
        BY <1>3, <1>4, <3>2, NodeFacts DEF IsPair, IsVector
      <4> QED BY <4>1 DEF Succ
    <3>3. CASE c = p /\ pc' # "E6"
      <4>1. pc' # "roots"
        BY <1>3
      <4> QED BY <3>3, <4>1
    <3> QED BY <3>1, <3>2, <3>3
  <2>6. pc' # "E5"
    BY <1>3
  <2>7. \A x \in (p + 1) .. (p + 0) : mark'[x]
    BY <1>4, NodeFacts
  <2>8. ASSUME NEW j \in 1 .. NRoots
        PROVE  \/ mark'[start.roots[j]]
               \/ start.roots[j] \in Range1(todo)
               \/ pc' # "roots" /\ S = << >> /\ start.roots[j] = p
    <3>1. pc' # "roots"
      BY <1>3
    <3> QED BY <1>2, <1>6, <2>3, <3>1 DEF Marks
  <2>9. \A j \in 1 .. Len(S) : mark'[S[j].c]
    BY <1>2, <1>6, <2>3 DEF Marks
  <2>10. \A j \in 1 .. Len(S) : S[j].link = "cdr" => mark'[start.car[S[j].c]]
    BY <1>2, <1>6, <2>3 DEF Marks
  <2> QED BY <1>3, <1>5, <2>1, <2>2, <2>4, <2>5, <2>6, <2>7, <2>8, <2>9, <2>10 DEF Marks
<1>11. InLive(S)'
  <2>1. On(S)' = On(S)
    BY DEF On
  <2> QED BY <1>2, <1>3, <1>4, <1>5, <1>6, <2>1 DEF InLive
<1>12. pc' # "roots"
  BY <1>3
<1> QED BY <1>7, <1>8, <1>9, <1>10, <1>11, <1>12 DEF MarkingInv, MarkingWith

(* A cell that has nothing left to follow is done with.                    *)
LEMMA PassInv == StartOK /\ MarkingInv /\ (ElementsDone \/ Pass) => MarkingInv'
<1> SUFFICES ASSUME StartOK, MarkingInv, ElementsDone \/ Pass PROVE MarkingInv'
  OBVIOUS
<1>1. PICK S \in Seq(Entry) : MarkingWith(S)
  BY DEF MarkingInv
<1>2. Chain(S) /\ Nested(S) /\ Marks(S) /\ InLive(S) /\ Unswept /\ AtLabel
  BY <1>1 DEF MarkingWith, MarkingInv
<1>3. UNCHANGED <<car, cdr, atom, mark, p, t, i, frames, todo, kind, len, scan, start>>
  BY DEF ElementsDone, Pass, links, flags, mine, sweeping
<1>4. /\ p \in Node /\ len = start.len
      /\ car[p] = start.car[p] /\ cdr[p] = start.cdr[p]
      /\ atom[p] = (p = NIL \/ IsVector(p))
  BY <1>1, <1>2, MarkingFacts
<1>5. /\ \A c : IsPair(c)' = IsPair(c) /\ IsVector(c)' = IsVector(c)
      /\ \A c : Body(c)' = Body(c) /\ Succ(c)' = Succ(c)
      /\ Object' = Object /\ Live' = Live
  BY <1>3, StartSame
<1>6. \/ pc = "elements" /\ i = len[p] /\ pc' = "E6"
      \/ pc = "E4" /\ ~Follow(car[p]) /\ pc' = "E5"
      \/ pc = "E5" /\ ~Follow(cdr[p]) /\ pc' = "E6"
  BY <1>2, <1>4 DEF ElementsDone, Pass, AtLabel
<1>7. /\ pc' = "E5" => IsPair(p) /\ mark[start.car[p]]
      /\ pc' = "E6" => \A x \in Succ(p) : mark[x]
      /\ mark[p]
  <2>1. IsPair(p) => /\ start.car[p] \in Node /\ start.cdr[p] \in Node
                     /\ start.car[p] # NULL /\ start.cdr[p] # NULL
    BY <1>4, NodeFacts DEF StartOK
  <2>2. CASE pc = "elements"
    <3>1. IsVector(p) /\ ~IsPair(p) /\ \A x \in (p + 1) .. (p + i) : mark[x]
      BY <1>2, <2>2, StartFacts DEF Marks, AtLabel
    <3> QED BY <1>2, <1>4, <1>6, <2>2, <3>1 DEF Succ, Body, AtLabel
  <2>3. CASE pc = "E4"
    BY <1>2, <1>4, <1>6, <2>1, <2>3 DEF AtLabel, Follow
  <2>4. CASE pc = "E5"
    BY <1>2, <1>4, <1>6, <2>1, <2>4 DEF AtLabel, Follow, Marks, Succ
  <2> QED BY <1>6, <2>2, <2>3, <2>4
<1>8. Unswept'
  BY <1>2, <1>3, <1>5 DEF Unswept
<1>9. AtLabel'
  BY <1>3, <1>5, <1>6, <1>7 DEF AtLabel
<1>10. Chain(S)' /\ Nested(S)'
  BY <1>2, <1>3, SameChain
<1>11. Marks(S)'
  <2>1. On(S)' = On(S) /\ Range1(todo)' = Range1(todo)
    BY <1>3 DEF On, Range1
  <2>2. \A j : Child(S, j)' = Child(S, j)
    BY <1>3 DEF Child
  <2>3. ASSUME NEW c \in Node, mark[c]
        PROVE  \/ c \in On(S)
               \/ c = p /\ pc' \notin {"roots", "E6"}
               \/ \A x \in Succ(c) : mark[x]
    BY <1>2, <1>6, <1>7, <2>3 DEF Marks
  <2>4. pc' \notin {"roots", "elements"} /\ pc # "roots"
    BY <1>6
  <2>5. \A j \in 1 .. NRoots :
          \/ mark[start.roots[j]]
          \/ start.roots[j] \in Range1(todo)
          \/ pc' # "roots" /\ S = << >> /\ start.roots[j] = p
    BY <1>2, <2>4 DEF Marks
  <2>6. /\ \A j \in 1 .. Len(S) : mark[S[j].c]
        /\ \A j \in 1 .. Len(S) : S[j].link = "cdr" => mark[start.car[S[j].c]]
        /\ \A j \in 1 .. Len(S) : S[j].link = "element" =>
             \A x \in (S[j].c + 1) .. (Child(S, j) - 1) : mark[x]
    BY <1>2 DEF Marks
  <2> QED BY <1>3, <1>5, <1>7, <2>1, <2>2, <2>3, <2>4, <2>5, <2>6 DEF Marks
<1>12. InLive(S)'
  <2>1. On(S)' = On(S)
    BY DEF On
  <2> QED BY <1>2, <1>3, <1>5, <2>1 DEF InLive
<1>13. pc' # "roots"
  BY <1>6
<1> QED BY <1>8, <1>9, <1>10, <1>11, <1>12, <1>13 DEF MarkingInv, MarkingWith

(* A link that is followed down is switched to point up.                   *)
LEMMA DownInv == StartOK /\ MarkingInv /\ (E4down \/ E5down) => MarkingInv'
<1> SUFFICES ASSUME StartOK, MarkingInv, E4down \/ E5down PROVE MarkingInv'
  OBVIOUS
<1>1. PICK S \in Seq(Entry) : MarkingWith(S)
  BY DEF MarkingInv
<1>2. Chain(S) /\ Nested(S) /\ Marks(S) /\ InLive(S) /\ Unswept /\ AtLabel
  BY <1>1 DEF MarkingWith, MarkingInv
<1>3. /\ pc \in {"E4", "E5"} /\ pc' = "E2" /\ t' = p
      /\ UNCHANGED <<mark, i, frames, todo, kind, len, scan, start>>
  BY DEF E4down, E5down, flags, sweeping
<1>4. /\ p \in Node /\ p \in Live /\ (p # NIL => p \in Cell)
      /\ car[p] = start.car[p] /\ cdr[p] = start.cdr[p]
      /\ atom[p] = (p = NIL \/ IsVector(p))
      /\ Len(frames) \in Nat /\ Len(S) \in Nat
      /\ \A c \in On(S) : mark[c]
  BY <1>1, <1>2, MarkingFacts
<1>5. /\ \A c : IsPair(c)' = IsPair(c) /\ IsVector(c)' = IsVector(c)
      /\ \A c : Body(c)' = Body(c) /\ Succ(c)' = Succ(c)
      /\ Object' = Object /\ Live' = Live
  BY <1>3, StartSame
<1>6. IsPair(p) /\ p \in Cell /\ ~IsVector(p) /\ p # NIL /\ mark[p] /\ ~atom[p]
  BY <1>2, <1>3, <1>4, StartFacts, NodeFacts DEF AtLabel
<1>7. /\ start.car[p] \in Object /\ start.cdr[p] \in Object
      /\ {start.car[p], start.cdr[p]} = Succ(p)
      /\ Object \subseteq Node
  BY <1>6, StartFacts DEF StartOK, Succ
<1> DEFINE link == IF pc = "E4" THEN "car" ELSE "cdr"
<1>e. PICK e : e = [c |-> p, link |-> link, n |-> Len(frames)]
  OBVIOUS
<1>t. PICK T : T = Append(S, e)
  OBVIOUS
<1>8. e \in Entry /\ e.c = p /\ e.link = link /\ e.n = Len(frames)
  BY <1>4, <1>6, <1>e DEF Entry
<1>9. /\ p' = IF pc = "E4" THEN start.car[p] ELSE start.cdr[p]
      /\ p' \in Object /\ p' \in Node /\ p' # p /\ p' \notin On(S) /\ p' \in Live
      /\ pc = "E5" => mark[start.car[p]]
  <2>1. p' = IF pc = "E4" THEN start.car[p] ELSE start.cdr[p]
    BY <1>3, <1>4 DEF E4down, E5down
  <2>2. ~mark[p']
    BY <1>3, <1>4, <2>1 DEF E4down, E5down, Follow
  <2>3. p' \in Succ(p)
    BY <1>7, <2>1
  <2>4. p' \in Live
    BY <1>4, <2>3, LiveFacts
  <2> QED BY <1>2, <1>4, <1>6, <1>7, <2>1, <2>2, <2>4 DEF Marks
<1>10. /\ \A c \in Node \ {p} : car'[c] = car[c] /\ cdr'[c] = cdr[c] /\ atom'[c] = atom[c]
       /\ pc = "E4" => car'[p] = t /\ cdr'[p] = cdr[p] /\ atom'[p] = TRUE
       /\ pc = "E5" => cdr'[p] = t /\ car'[p] = car[p] /\ atom'[p] = FALSE
       /\ car' \in [Node -> Node \cup {NULL}] /\ cdr' \in [Node -> Node \cup {NULL}]
       /\ atom' \in [Node -> BOOLEAN]
  <2>1. t \in Node \cup {NULL}
    <3>1. t = Up(S, Len(S) + 1)
      BY <1>2 DEF Chain
    <3>2. Len(S) # 0 => S[Len(S)] \in Entry
      BY <1>4
    <3> QED BY <1>4, <3>1, <3>2, NodeFacts DEF Up, Entry
  <2>2. CASE E4down
    <3>1. /\ car' = [car EXCEPT ![p] = t] /\ atom' = [atom EXCEPT ![p] = TRUE]
          /\ cdr' = cdr /\ pc = "E4"
      BY <2>2 DEF E4down
    <3> QED BY <1>2, <1>4, <2>1, <3>1 DEF Unswept
  <2>3. CASE E5down
    <3>1. cdr' = [cdr EXCEPT ![p] = t] /\ car' = car /\ atom' = atom /\ pc = "E5"
      BY <2>3 DEF E5down, flags
    <3> QED BY <1>2, <1>4, <1>6, <2>1, <3>1 DEF Unswept
  <2> QED BY <2>2, <2>3
<1>11. Unswept'
  BY <1>2, <1>3, <1>5, <1>10 DEF Unswept
<1>12. AtLabel'
  BY <1>3 DEF AtLabel
<1>13. Pushed(S, e, T)
  BY <1>8, <1>t, PushEntry
<1>14. /\ Len(T) = Len(S) + 1 /\ T[Len(T)] = e /\ T \in Seq(Entry)
       /\ On(T) = On(S) \cup {p}
       /\ Up(T, Len(T)) = Up(S, Len(S) + 1)
  <2>1. Len(S) + 1 \in 1 .. (Len(S) + 1)
    BY <1>4
  <2> QED BY <1>8, <1>13, <2>1 DEF Pushed
<1>15. LinkOK(T, Len(T))'
  <2>1. Up(T, Len(T))' = t
    <3>1. t = Up(S, Len(S) + 1)
      BY <1>2 DEF Chain
    <3>2. Up(T, Len(T))' = Up(T, Len(T))
      BY DEF Up
    <3> QED BY <1>14, <3>1, <3>2
  <2>2. Child(T, Len(T))' = p'
    BY DEF Child
  <2>3. T[Len(T)].c = p /\ T[Len(T)].link = link
    BY <1>8, <1>14
  <2> QED BY <1>3, <1>4, <1>5, <1>6, <1>9, <1>10, <2>1, <2>2, <2>3 DEF LinkOK
<1>16. Chain(T)' /\ Nested(T)'
  <2>1. /\ e.n = Len(frames) + (IF e.link = "element" THEN 1 ELSE 0)
        /\ t' = IF e.link = "element" THEN NULL ELSE p
        /\ Len(frames') = e.n
        /\ \A k \in 1 .. Len(frames) : frames'[k] = frames[k]
        /\ T = Append(S, e)
    BY <1>3, <1>4, <1>8, <1>t
  <2> QED BY <1>2, <1>3, <1>4, <1>8, <1>9, <1>10, <1>15, <2>1, PushChain
<1>17. Marks(T)'
  <2>1. /\ e.link = "cdr" => mark[start.car[p]]
        /\ e.link # "element" /\ T = Append(S, e)
    BY <1>3, <1>8, <1>9, <1>t
  <2> QED BY <1>2, <1>3, <1>6, <1>8, <2>1, PushMarks
<1>18. InLive(T)'
  <2>1. On(T)' = On(T)
    BY DEF On
  <2> QED BY <1>2, <1>3, <1>4, <1>5, <1>9, <1>14, <2>1 DEF InLive
<1> QED BY <1>3, <1>11, <1>12, <1>14, <1>16, <1>17, <1>18 DEF MarkingInv, MarkingWith

(* mark calls itself for the next element of a vector.                     *)
LEMMA MarkElementInv == StartOK /\ MarkingInv /\ MarkElement => MarkingInv'
<1> SUFFICES ASSUME StartOK, MarkingInv, MarkElement PROVE MarkingInv'
  OBVIOUS
<1>1. PICK S \in Seq(Entry) : MarkingWith(S)
  BY DEF MarkingInv
<1>2. Chain(S) /\ Nested(S) /\ Marks(S) /\ InLive(S) /\ Unswept /\ AtLabel
  BY <1>1 DEF MarkingWith, MarkingInv
<1>3. /\ pc = "elements" /\ i < len[p]
      /\ frames' = Append(frames, [p |-> p, t |-> t, i |-> i])
      /\ p' = p + 1 + i /\ t' = NULL /\ i' = 0 /\ pc' = "E2"
      /\ UNCHANGED <<car, cdr, atom, mark, todo, kind, len, scan, start>>
  BY DEF MarkElement, CallMark, links, flags, sweeping
<1>4. /\ p \in Live /\ (p # NIL => p \in Cell) /\ len = start.len
      /\ Len(frames) \in Nat /\ Len(S) \in Nat
      /\ IsVector(p) /\ mark[p] /\ i \in Nat
  BY <1>1, <1>2, <1>3, MarkingFacts DEF AtLabel, Unswept
<1>5. /\ \A c : IsPair(c)' = IsPair(c) /\ IsVector(c)' = IsVector(c)
      /\ \A c : Body(c)' = Body(c) /\ Succ(c)' = Succ(c)
      /\ Object' = Object /\ Live' = Live
  BY <1>3, StartSame
<1>6. p \in Cell /\ p \in Node /\ p \in Nat /\ start.len[p] \in Nat
  BY <1>4, StartFacts, NodeFacts DEF StartOK
<1>7. p' \in Body(p)
  BY <1>3, <1>4, <1>6 DEF Body
<1>8. p' \notin On(S) /\ p' # p /\ p' \in Cell /\ p' \in Node /\ p' \in Nat /\ p' \in Live
  <2>1. p' \notin On(S) /\ p' # p /\ p' \in Cell
    BY <1>2, <1>4, <1>7, ElementNotOn
  <2>2. Succ(p) = Body(p)
    BY <1>4, StartFacts DEF Succ
  <2> QED BY <1>4, <1>7, <2>1, <2>2, LiveFacts, NodeFacts
<1>e. PICK e : e = [c |-> p, link |-> "element", n |-> Len(frames) + 1]
  OBVIOUS
<1>t. PICK T : T = Append(S, e)
  OBVIOUS
<1>9. e \in Entry /\ e.c = p /\ e.link = "element" /\ e.n = Len(frames) + 1
  BY <1>4, <1>6, <1>e DEF Entry
<1>10. t \in Cell \cup {NULL} /\ t = Up(S, Len(S) + 1)
  <2>1. t = Up(S, Len(S) + 1)
    BY <1>2 DEF Chain
  <2>2. Len(S) # 0 => S[Len(S)] \in Entry
    BY <1>4
  <2> QED BY <1>4, <2>1, <2>2 DEF Up, Entry
<1>11. /\ frames' \in Seq(WaitingCall) /\ Len(frames') = Len(frames) + 1
       /\ \A k \in 1 .. Len(frames) : frames'[k] = frames[k]
       /\ frames'[Len(frames) + 1] = [p |-> p, t |-> t, i |-> i]
  <2>1. [p |-> p, t |-> t, i |-> i] \in WaitingCall
    BY <1>4, <1>6, <1>10 DEF WaitingCall
  <2>2. frames \in Seq(WaitingCall)
    BY <1>2 DEF Unswept
  <2> QED BY <1>3, <2>1, <2>2
<1>12. Unswept'
  BY <1>2, <1>3, <1>5, <1>11 DEF Unswept
<1>13. AtLabel'
  BY <1>3 DEF AtLabel
<1>14. Pushed(S, e, T)
  BY <1>9, <1>t, PushEntry
<1>15. /\ Len(T) = Len(S) + 1 /\ T[Len(T)] = e /\ T \in Seq(Entry)
       /\ On(T) = On(S) \cup {p}
       /\ Up(T, Len(T)) = Up(S, Len(S) + 1)
  <2>1. Len(S) + 1 \in 1 .. (Len(S) + 1)
    BY <1>4
  <2> QED BY <1>9, <1>14, <2>1 DEF Pushed
<1>16. LinkOK(T, Len(T))'
  <2>1. Up(T, Len(T))' = t
    BY <1>10, <1>15 DEF Up
  <2>2. Child(T, Len(T))' = p'
    BY DEF Child
  <2>3. Kept(e.c)' /\ IsVector(e.c)' /\ p' \in Body(e.c)'
    <3>1. Kept(e.c)
      BY <1>2, <1>6, <1>9 DEF Chain
    <3> QED BY <1>3, <1>4, <1>5, <1>7, <1>9, <3>1 DEF Kept
  <2>4. i = p' - p - 1
    BY <1>3, <1>4, <1>6
  <2>5. Len(frames) + 1 \in 1 .. Len(frames')
    BY <1>4, <1>11
  <2>6. frames'[e.n] = [p |-> e.c, t |-> t, i |-> p' - e.c - 1]
    BY <1>9, <1>11, <2>4
  <2> QED BY <1>9, <1>15, <2>1, <2>2, <2>3, <2>5, <2>6 DEF LinkOK
<1>17. Chain(T)' /\ Nested(T)'
  <2>1. /\ e.n = Len(frames) + (IF e.link = "element" THEN 1 ELSE 0)
        /\ t' = IF e.link = "element" THEN NULL ELSE p
        /\ Len(frames') = e.n
    BY <1>3, <1>4, <1>9, <1>11
  <2>2. \A c \in Node \ {p} : car'[c] = car[c] /\ cdr'[c] = cdr[c] /\ atom'[c] = atom[c]
    BY <1>3
  <2> QED BY <1>2, <1>3, <1>4, <1>8, <1>9, <1>11, <1>16, <1>t, <2>1, <2>2, PushChain
<1>18. Marks(T)'
  <2>1. \A x \in (p + 1) .. (p' - 1) : mark[x]
    <3>1. p' - 1 = p + i
      BY <1>3, <1>4, <1>6
    <3> QED BY <1>2, <1>3, <3>1 DEF Marks
  <2>2. e.link # "cdr" /\ pc # "roots"
    BY <1>3, <1>9
  <2> QED BY <1>2, <1>3, <1>4, <1>9, <1>t, <2>1, <2>2, PushMarks
<1>19. InLive(T)'
  <2>1. On(T)' = On(T)
    BY DEF On
  <2> QED BY <1>2, <1>3, <1>4, <1>5, <1>8, <1>15, <2>1 DEF InLive
<1> QED BY <1>3, <1>12, <1>13, <1>15, <1>17, <1>18, <1>19 DEF MarkingInv, MarkingWith

(* A switched link is put back on the way up.                              *)
LEMMA UpInv == StartOK /\ MarkingInv /\ (E6fromCar \/ E6fromCdr) => MarkingInv'
<1> SUFFICES ASSUME StartOK, MarkingInv, E6fromCar \/ E6fromCdr PROVE MarkingInv'
  OBVIOUS
<1>1. PICK S \in Seq(Entry) : MarkingWith(S)
  BY DEF MarkingInv
<1>2. Chain(S) /\ Nested(S) /\ Marks(S) /\ InLive(S) /\ Unswept /\ AtLabel
  BY <1>1 DEF MarkingWith, MarkingInv
<1>3. /\ pc = "E6" /\ t # NULL /\ p' = t
      /\ UNCHANGED <<mark, i, frames, todo, kind, len, scan, start>>
  BY DEF E6fromCar, E6fromCdr, flags, sweeping
<1>4. /\ p \in Node /\ mark[p] /\ Len(frames) \in Nat /\ Len(S) \in Nat
      /\ \A c \in On(S) : mark[c]
  BY <1>1, <1>2, <1>3, MarkingFacts DEF AtLabel
<1>5. /\ \A c : IsPair(c)' = IsPair(c) /\ IsVector(c)' = IsVector(c)
      /\ \A c : Body(c)' = Body(c) /\ Succ(c)' = Succ(c)
      /\ Object' = Object /\ Live' = Live
  BY <1>3, StartSame
<1>6. t = Up(S, Len(S) + 1)
  BY <1>2 DEF Chain
<1>7. Len(S) # 0 /\ S # << >>
  BY <1>3, <1>4, <1>6 DEF Up
<1>8. PICK e : e = S[Len(S)]
  OBVIOUS
<1>9. e \in Entry /\ e.link # "element" /\ e.c = t /\ t \in Cell /\ t \in On(S)
  <2>1. Len(S) + 1 # 1 /\ Len(S) + 1 - 1 = Len(S) /\ Len(S) \in 1 .. Len(S)
    BY <1>4, <1>7
  <2>2. e \in Entry
    BY <1>8, <2>1
  <2>3. e.link # "element" /\ e.c = t
    BY <1>3, <1>6, <1>8, <2>1 DEF Up
  <2> QED BY <1>8, <2>1, <2>2, <2>3 DEF Entry, On
<1>10. PICK T \in Seq(Entry) : S = Append(T, e)
  BY <1>7, <1>8, LastEntry
<1>11. LinkOK(S, Len(S)) /\ Child(S, Len(S)) = p
  BY <1>2, <1>4, <1>7 DEF Chain, Child
<1>12. \/ /\ E6fromCar /\ e.link = "car" /\ IsPair(t) /\ atom[t]
          /\ car[t] = Up(S, Len(S)) /\ start.car[t] = p /\ cdr[t] = start.cdr[t]
       \/ /\ E6fromCdr /\ e.link = "cdr" /\ IsPair(t) /\ ~atom[t]
          /\ cdr[t] = Up(S, Len(S)) /\ start.cdr[t] = p /\ car[t] = start.car[t]
  <2>1. e.link \in {"car", "cdr", "element"}
    BY <1>9 DEF Entry
  <2> QED BY <1>8, <1>9, <1>11, <2>1 DEF LinkOK, E6fromCar, E6fromCdr
<1>13. /\ \A c \in Node \ {t} : car'[c] = car[c] /\ cdr'[c] = cdr[c] /\ atom'[c] = atom[c]
       /\ t' = Up(S, Len(S))
       /\ car'[t] = start.car[t] /\ cdr'[t] = start.cdr[t] /\ atom'[t] = FALSE
       /\ car' \in [Node -> Node \cup {NULL}] /\ cdr' \in [Node -> Node \cup {NULL}]
       /\ atom' \in [Node -> BOOLEAN]
       /\ pc' = IF e.link = "car" THEN "E5" ELSE "E6"
       /\ IsPair(t)
  <2>0. t \in Node
    BY <1>9, NodeFacts
  <2>1. CASE E6fromCar /\ e.link = "car"
    <3>1. /\ car' = [car EXCEPT ![t] = p] /\ atom' = [atom EXCEPT ![t] = FALSE]
          /\ cdr' = cdr /\ t' = car[t] /\ pc' = "E5" /\ atom[t]
      BY <2>1 DEF E6fromCar
    <3>2. /\ IsPair(t) /\ car[t] = Up(S, Len(S))
          /\ start.car[t] = p /\ cdr[t] = start.cdr[t]
      BY <1>12, <2>1
    <3> QED BY <1>2, <1>4, <2>0, <2>1, <3>1, <3>2 DEF Unswept
  <2>2. CASE E6fromCdr /\ e.link = "cdr"
    <3>1. /\ cdr' = [cdr EXCEPT ![t] = p] /\ atom' = atom
          /\ car' = car /\ t' = cdr[t] /\ pc' = pc /\ ~atom[t]
      BY <2>2 DEF E6fromCdr, flags
    <3>2. /\ IsPair(t) /\ cdr[t] = Up(S, Len(S))
          /\ start.cdr[t] = p /\ car[t] = start.car[t]
      BY <1>12, <2>2
    <3> QED BY <1>2, <1>3, <1>4, <2>0, <2>2, <3>1, <3>2 DEF Unswept
  <2> QED BY <1>12, <2>1, <2>2
<1>14. Unswept'
  BY <1>2, <1>3, <1>5, <1>13 DEF Unswept
<1>15. AtLabel'
  BY <1>3, <1>4, <1>5, <1>9, <1>13 DEF AtLabel
<1>16. Pushed(T, e, S)
  BY <1>9, <1>10, PushEntry
<1>17. On(S) = On(T) \cup {t}
  BY <1>9, <1>16 DEF Pushed
<1>18. Chain(T)' /\ Nested(T)'
  <2>1. Kept(e.c)'
    <3>1. t # NIL /\ ~IsVector(t)
      BY <1>9, <1>13, StartFacts, NodeFacts
    <3> QED BY <1>3, <1>5, <1>9, <1>13, <3>1 DEF Kept
  <2>2. Len(frames) = Len(frames') + (IF e.link = "element" THEN 1 ELSE 0)
    BY <1>3, <1>4, <1>9
  <2>3. Len(frames') \in Nat /\ \A k \in 1 .. Len(frames') : frames'[k] = frames[k]
    BY <1>3, <1>4
  <2> QED BY <1>2, <1>3, <1>4, <1>9, <1>10, <1>13, <2>1, <2>2, <2>3, PopChain
<1>19. Marks(T)'
  <2>1. Succ(t) = {start.car[t], start.cdr[t]}
    BY <1>13 DEF Succ
  <2>2. e.link = "car" => mark[start.car[t]]
    BY <1>4, <1>12
  <2>3. e.link = "cdr" => mark[start.car[t]] /\ mark[start.cdr[t]]
    <3>1. e.link = "cdr" => mark[start.car[S[Len(S)].c]]
      BY <1>2, <1>4, <1>7, <1>8 DEF Marks
    <3> QED BY <1>4, <1>8, <1>9, <1>12, <3>1
  <2>4. e.link \in {"car", "cdr"}
    BY <1>12
  <2>5. /\ pc' \in {"E5", "E6", "elements"} /\ pc' # "elements"
        /\ pc' = "E5" => mark[start.car[e.c]]
        /\ pc' = "E6" => \A x \in Succ(e.c) : mark[x]
    BY <1>9, <1>13, <2>1, <2>2, <2>3, <2>4
  <2> QED BY <1>2, <1>3, <1>9, <1>10, <2>5, PopMarks
<1>20. InLive(T)'
  <2>1. On(T)' = On(T)
    BY DEF On
  <2> QED BY <1>2, <1>3, <1>5, <1>9, <1>17, <2>1 DEF InLive
<1>21. pc' # "roots"
  BY <1>13
<1> QED BY <1>14, <1>15, <1>18, <1>19, <1>20, <1>21 DEF MarkingInv, MarkingWith

(* A call of mark returns: to gc, or to the vector whose element it was    *)
(* called for.                                                             *)
LEMMA ReturnInv == StartOK /\ MarkingInv /\ E6return => MarkingInv'
<1> SUFFICES ASSUME StartOK, MarkingInv, E6return PROVE MarkingInv'
  OBVIOUS
<1>1. PICK S \in Seq(Entry) : MarkingWith(S)
  BY DEF MarkingInv
<1>2. Chain(S) /\ Nested(S) /\ Marks(S) /\ InLive(S) /\ Unswept /\ AtLabel
  BY <1>1 DEF MarkingWith, MarkingInv
<1>3. /\ pc = "E6" /\ t = NULL
      /\ UNCHANGED <<car, cdr, atom, mark, todo, kind, len, scan, start>>
  BY DEF E6return, links, flags, sweeping
<1>4. /\ p \in Node /\ p \in Live /\ mark[p] /\ Len(frames) \in Nat /\ Len(S) \in Nat
      /\ frames \in Seq(WaitingCall)
  BY <1>1, <1>2, <1>3, MarkingFacts DEF AtLabel, Unswept
<1>5. /\ \A c : IsPair(c)' = IsPair(c) /\ IsVector(c)' = IsVector(c)
      /\ \A c : Body(c)' = Body(c) /\ Succ(c)' = Succ(c)
      /\ Object' = Object /\ Live' = Live
  BY <1>3, StartSame
<1>6. Len(S) # 0 => /\ S[Len(S)].link = "element" /\ S[Len(S)].n = Len(frames)
                    /\ S[Len(S)] \in Entry /\ S[Len(S)].n \in 1 .. Len(frames)
  <2>1. SUFFICES ASSUME Len(S) # 0
                 PROVE  /\ S[Len(S)].link = "element" /\ S[Len(S)].n = Len(frames)
                        /\ S[Len(S)] \in Entry /\ S[Len(S)].n \in 1 .. Len(frames)
    OBVIOUS
  <2>2. Len(S) + 1 # 1 /\ Len(S) + 1 - 1 = Len(S) /\ Len(S) \in 1 .. Len(S)
    BY <1>4, <2>1
  <2>3. S[Len(S)] \in Entry /\ S[Len(S)].c # NULL
    <3>1. S[Len(S)] \in Entry
      BY <2>2
    <3>2. S[Len(S)].c \in Cell
      BY <3>1 DEF Entry
    <3> QED BY <3>1, <3>2, NodeFacts
  <2>4. S[Len(S)].link = "element"
    BY <1>2, <1>3, <2>2, <2>3 DEF Chain, Up
  <2>5. S[Len(S)].n = Len(frames)
    BY <1>2, <2>1 DEF Nested, Depth
  <2>6. S[Len(S)].n \in 1 .. Len(frames)
    BY <1>2, <2>2, <2>4 DEF Chain, LinkOK
  <2> QED BY <2>3, <2>4, <2>5, <2>6
<1>7. CASE frames = << >>
  <2>1. pc' = "roots" /\ UNCHANGED <<p, t, i, frames>>
    BY <1>7 DEF E6return, mine
  <2>2. S = << >>
    BY <1>4, <1>6, <1>7
  <2>3. Unswept' /\ AtLabel'
    BY <1>2, <1>3, <1>5, <2>1 DEF Unswept, AtLabel
  <2>4. Chain(S)' /\ Nested(S)'
    BY <1>2, <1>3, <2>1, SameChain
  <2>5. Marks(S)'
    <3>1. Len(S) = 0 /\ On(S) = {} /\ On(S)' = {} /\ Range1(todo)' = Range1(todo)
      BY <1>3, <2>2 DEF On, Range1
    <3>2. \A c \in Node : mark[c] => \A x \in Succ(c) : mark[x]
      BY <1>2, <1>3, <3>1 DEF Marks
    <3>3. \A j \in 1 .. NRoots : mark[start.roots[j]] \/ start.roots[j] \in Range1(todo)
      BY <1>2, <1>4 DEF Marks
    <3> QED BY <1>3, <1>5, <2>1, <3>1, <3>2, <3>3 DEF Marks
  <2>6. InLive(S)'
    <3>1. On(S)' = On(S)
      BY DEF On
    <3> QED BY <1>2, <1>3, <1>5, <2>1, <3>1 DEF InLive
  <2> QED BY <2>2, <2>3, <2>4, <2>5, <2>6 DEF MarkingInv, MarkingWith
<1>8. CASE frames # << >>
  <2>1. Len(S) # 0 /\ S # << >> /\ Len(S) \in 1 .. Len(S)
    <3>1. 1 \in 1 .. Len(frames)
      BY <1>4, <1>8
    <3>2. \E j \in 1 .. Len(S) : S[j].n = 1
      BY <1>2, <3>1 DEF Nested
    <3> QED BY <1>4, <3>2
  <2>2. PICK e : e = S[Len(S)]
    OBVIOUS
  <2>3. e \in Entry /\ e.link = "element" /\ e.n = Len(frames) /\ e.c \in Cell
    BY <1>6, <2>1, <2>2 DEF Entry
  <2>4. PICK T \in Seq(Entry) : S = Append(T, e)
    BY <2>1, <2>2, LastEntry
  <2>5. /\ IsVector(e.c) /\ Kept(e.c) /\ p \in Body(e.c)
        /\ frames[Len(frames)] = [p |-> e.c, t |-> Up(S, Len(S)), i |-> p - e.c - 1]
    <3>1. LinkOK(S, Len(S)) /\ Child(S, Len(S)) = p
      BY <1>2, <2>1 DEF Chain, Child
    <3> QED BY <2>2, <2>3, <3>1 DEF LinkOK
  <2>6. e.c \in Nat /\ p \in Nat /\ start.len[e.c] \in Nat
    BY <1>4, <2>3, NodeFacts DEF StartOK
  <2>7. /\ p' = e.c /\ t' = Up(S, Len(S)) /\ i' = p - e.c /\ pc' = "elements"
        /\ frames' = SubSeq(frames, 1, Len(frames) - 1)
    <3>1. LET caller == frames[Len(frames)]
          IN  /\ p' = caller.p /\ t' = caller.t /\ i' = caller.i + 1
              /\ frames' = SubSeq(frames, 1, Len(frames) - 1) /\ pc' = "elements"
      BY <1>8 DEF E6return
    <3>2. p - e.c - 1 + 1 = p - e.c
      BY <2>6
    <3> QED BY <2>5, <3>1, <3>2
  <2>8. /\ frames' \in Seq(WaitingCall) /\ Len(frames') = Len(frames) - 1
        /\ Len(frames') \in Nat
        /\ \A k \in 1 .. Len(frames') : frames'[k] = frames[k]
    <3>1. PICK m \in Nat : m = Len(frames) - 1 /\ m <= Len(frames)
      <4>1. Len(frames) - 1 \in Nat /\ Len(frames) - 1 <= Len(frames)
        BY <1>4, <1>8
      <4> QED BY ONLY <4>1
    <3>2. frames \in Seq(WaitingCall)
      BY <1>4
    <3>3. /\ SubSeq(frames, 1, m) \in Seq(WaitingCall) /\ Len(SubSeq(frames, 1, m)) = m
          /\ \A k \in 1 .. m : SubSeq(frames, 1, m)[k] = frames[k]
      BY ONLY <3>1, <3>2, FrontOf
    <3> QED BY <2>7, <3>1, <3>3
  <2>9. i' \in 0 .. start.len[e.c] /\ i' \in Nat
    <3>1. p \in (e.c + 1) .. (e.c + start.len[e.c]) /\ i' = p - e.c
      BY <2>5, <2>7 DEF Body
    <3>2. PICK n \in Nat, l \in Nat, q \in Nat : n = e.c /\ l = start.len[e.c] /\ q = p
      BY <2>6
    <3>3. q \in (n + 1) .. (n + l) /\ i' = q - n /\ l = start.len[e.c]
      BY ONLY <3>1, <3>2
    <3>4. q - n \in 0 .. l /\ q - n \in Nat
      BY ONLY <3>3, n \in Nat, l \in Nat, q \in Nat
    <3> QED BY ONLY <3>3, <3>4
  <2>10. Unswept'
    BY <1>2, <1>3, <1>5, <2>8, <2>9 DEF Unswept
  <2>11. Pushed(T, e, S)
    BY <2>3, <2>4, PushEntry
  <2>12. On(S) = On(T) \cup {e.c} /\ e.c \in On(S)
    BY <2>11 DEF Pushed
  <2>13. AtLabel'
    <3>1. mark[p']
      BY <1>1, <1>2, <2>7, <2>12, MarkingFacts
    <3> QED BY <1>3, <1>5, <2>5, <2>7, <2>9, <3>1 DEF AtLabel
  <2>14. Chain(T)' /\ Nested(T)'
    <3>1. Kept(e.c)'
      BY <1>3, <1>5, <2>5 DEF Kept
    <3>2. Len(frames) = Len(frames') + (IF e.link = "element" THEN 1 ELSE 0)
      BY <1>4, <2>3, <2>8
    <3>3. \A c \in Node \ {e.c} : car'[c] = car[c] /\ cdr'[c] = cdr[c] /\ atom'[c] = atom[c]
      BY <1>3
    <3> QED BY <1>2, <1>3, <1>4, <2>3, <2>4, <2>7, <2>8, <3>1, <3>2, <3>3, PopChain
  <2>15. Marks(T)'
    <3>1. \A x \in (e.c + 1) .. (p - 1) : mark[x]
      <4>1. Child(S, Len(S)) = p
        BY DEF Child
      <4> QED BY <1>2, <2>1, <2>2, <2>3, <4>1 DEF Marks
    <3>2. \A x \in (e.c + 1) .. (e.c + i') : mark[x]
      <4>1. e.c + i' = p
        BY <2>6, <2>7
      <4>2. \A x \in (e.c + 1) .. p : x \in (e.c + 1) .. (p - 1) \/ x = p
        BY <2>6
      <4> QED BY <1>4, <3>1, <4>1, <4>2
    <3>3. pc' \in {"E5", "E6", "elements"} /\ pc' # "E5" /\ pc' # "E6"
      BY <2>7
    <3> QED BY <1>2, <1>3, <2>3, <2>4, <2>7, <3>2, <3>3, PopMarks
  <2>16. InLive(T)'
    <3>1. On(T)' = On(T)
      BY DEF On
    <3> QED BY <1>2, <1>3, <1>5, <2>7, <2>12, <3>1 DEF InLive
  <2>17. pc' # "roots"
    BY <2>7
  <2> QED BY <2>10, <2>13, <2>14, <2>15, <2>16, <2>17 DEF MarkingInv, MarkingWith
<1> QED BY <1>7, <1>8

---------------------------------------------------------------------------
(* The sweep.                                                              *)

(* When every root has been marked, the marked cells are the live ones.    *)
LEMMA StartSweepInv == StartOK /\ MarkingInv /\ StartSweep => SweepingInv'
<1> SUFFICES ASSUME StartOK, MarkingInv, StartSweep PROVE SweepingInv'
  OBVIOUS
<1>1. PICK S \in Seq(Entry) : MarkingWith(S)
  BY DEF MarkingInv
<1>2. /\ S = << >> /\ Chain(S) /\ Nested(S) /\ Marks(S) /\ InLive(S)
      /\ Unswept
  BY <1>1 DEF MarkingWith, MarkingInv, StartSweep
<1>3. /\ pc = "roots" /\ todo = << >> /\ mark' = [mark EXCEPT ![NIL] = FALSE]
      /\ fcells' = 0 /\ free_cell' = NIL /\ pc' = "sweep"
      /\ UNCHANGED <<kind, len, car, cdr, frames, scan, start>>
  BY DEF StartSweep, links, mine
<1>4. Live' = Live /\ frames = << >> /\ scan = Cell
  BY <1>2, <1>3, StartSame DEF Nested, Depth, Unswept
<1>5. On(S) = {} /\ Range1(todo) = {}
  BY <1>2, <1>3 DEF On, Range1
<1>6. Live \subseteq {c \in Node : mark[c]} \cup {NIL}
  <2> DEFINE M == {c \in Node : mark[c]} \cup {NIL}
  <2>1. M \subseteq Node /\ NIL \in M
    BY NodeFacts
  <2>2. \A j \in 1 .. NRoots : start.roots[j] \in M
    <3>1. \A j \in 1 .. NRoots : start.roots[j] \in Node
      BY StartFacts DEF StartOK
    <3>2. \A j \in 1 .. NRoots : mark[start.roots[j]]
      BY <1>2, <1>3, <1>5 DEF Marks
    <3> QED BY <3>1, <3>2
  <2>3. ASSUME NEW d \in M  PROVE Succ(d) \subseteq M
    <3>1. CASE d = NIL
      <4>1. ~IsPair(d) /\ ~IsVector(d)
        BY <3>1, NodeFacts DEF IsPair, IsVector
      <4> QED BY <4>1 DEF Succ
    <3>2. CASE d # NIL
      <4>1. \A x \in Succ(d) : mark[x]
        BY <1>2, <1>3, <1>5, <3>2 DEF Marks
      <4> QED BY <4>1, StartFacts
    <3> QED BY <3>1, <3>2
  <2> HIDE DEF M
  <2>4. Live \subseteq M
    BY <2>1, <2>2, <2>3, LiveFacts
  <2> QED BY <2>4 DEF M
<1>7. mark' \in [Node -> BOOLEAN] /\ \A c \in Node : mark'[c] <=> c \in Cell /\ c \in Live
  <2>1. mark \in [Node -> BOOLEAN] /\ NIL \in Node /\ NIL \notin Cell
    BY <1>2, NodeFacts DEF Unswept
  <2>2. \A c \in Node : mark[c] => c \in Live
    BY <1>2 DEF InLive
  <2>3. \A c \in Node : mark'[c] <=> mark[c] /\ c # NIL
    BY <1>3, <2>1
  <2>4. \A c \in Node : c \in Cell <=> c # NIL
    BY NodeFacts
  <2> QED BY <1>3, <1>6, <2>1, <2>2, <2>3, <2>4
<1>8. Swept' = {} /\ Dead' = {}
  BY <1>3, <1>4 DEF Swept, Dead
<1>9. kind' = [c \in Cell |-> start.kind[c]] /\ len' = [c \in Cell |-> start.len[c]]
  BY <1>2, <1>3 DEF Unswept, StartOK
<1>10. car' = [c \in Node |-> start.car[c]] /\ cdr' = [c \in Node |-> start.cdr[c]]
  <2>1. \A c \in Node : car[c] = start.car[c] /\ cdr[c] = start.cdr[c]
    BY <1>2, <1>5 DEF Chain, Kept
  <2>2. /\ car \in [Node -> Node \cup {NULL}] /\ cdr \in [Node -> Node \cup {NULL}]
    BY <1>2 DEF Unswept
  <2> QED BY <1>3, <2>1, <2>2
<1>11. Low({}) = NIL /\ Cardinality({}) = 0
  BY FS_EmptySet DEF Low
<1>12. pc' = IF scan' = {} THEN "done" ELSE "sweep"
  BY <1>3, <1>4, NodeFacts
<1> QED BY <1>3, <1>4, <1>7, <1>8, <1>9, <1>10, <1>11, <1>12 DEF SweepingInv

(* A dead cell comes in front of the dead cells above it; a live one only  *)
(* loses its mark.                                                         *)
LEMMA SweepCellInv == StartOK /\ SweepingInv /\ SweepCell => SweepingInv'
<1> SUFFICES ASSUME StartOK, SweepingInv, SweepCell PROVE SweepingInv'
  OBVIOUS
<1>1. scan \subseteq Cell /\ scan # {}
  <2>1. pc = "sweep"
    BY DEF SweepCell
  <2> QED BY <2>1 DEF SweepingInv
<1>2. PICK c : c = Top(scan)
  OBVIOUS
<1>3. c \in scan /\ c \in Cell /\ c \in Node /\ \A d \in scan : d <= c
  BY <1>1, <1>2, TopIs, NodeFacts
<1>4. /\ pc = "sweep" /\ scan' = scan \ {c}
      /\ pc' = IF scan = {c} THEN "done" ELSE "sweep"
      /\ frames' = frames /\ start' = start
  BY <1>2 DEF SweepCell, mine
<1>5. /\ Live' = Live /\ Live \subseteq Node
      /\ Swept' = Swept \cup {c} /\ c \notin Swept /\ c \notin Dead
  BY <1>1, <1>3, <1>4, StartSame, LiveFacts DEF Swept, Dead
<1>6. /\ mark \in [Node -> BOOLEAN]
      /\ \A d \in Node : mark[d] <=> d \in scan /\ d \in Live
      /\ mark[c] = (c \in Live)
  BY <1>3 DEF SweepingInv
<1>7. \A x \in Swept', d \in scan' : x > d
  <2>1. \A x \in Swept, d \in scan : x > d
    BY DEF SweepingInv
  <2>2. \A d \in scan' : c > d
    <3>1. \A d \in scan' : d <= c /\ d # c /\ d \in Nat /\ c \in Nat
      BY <1>1, <1>3, <1>4, NodeFacts
    <3> QED BY <3>1
  <2> QED BY <1>4, <1>5, <2>1, <2>2
<1>8. /\ scan' \subseteq Cell /\ frames' = << >>
      /\ pc' = IF scan' = {} THEN "done" ELSE "sweep"
  BY <1>1, <1>3, <1>4 DEF SweepingInv
<1>9. /\ kind = [x \in Cell |-> IF x \in Dead THEN "free" ELSE start.kind[x]]
      /\ len = [x \in Cell |-> IF x \in Dead THEN 0 ELSE start.len[x]]
      /\ car = [x \in Node |-> IF x \in Dead THEN NIL ELSE start.car[x]]
      /\ cdr = [x \in Node |-> IF x \in Dead THEN Low({d \in Dead : d > x})
                               ELSE start.cdr[x]]
      /\ free_cell = Low(Dead) /\ fcells = Cardinality(Dead)
  BY DEF SweepingInv
<1>10. CASE c \in Live
  <2>1. Dead' = Dead
    BY <1>5, <1>10 DEF Dead
  <2>2. /\ mark' = [mark EXCEPT ![c] = FALSE]
        /\ UNCHANGED <<kind, len, car, cdr, free_cell, fcells>>
    BY <1>2, <1>6, <1>10 DEF SweepCell, links
  <2>3. mark' \in [Node -> BOOLEAN] /\ \A d \in Node : mark'[d] <=> d \in scan' /\ d \in Live'
    BY <1>3, <1>4, <1>5, <1>6, <2>2
  <2> QED BY <1>4, <1>7, <1>8, <1>9, <2>1, <2>2, <2>3 DEF SweepingInv
<1>11. CASE c \notin Live
  <2>1. Dead' = Dead \cup {c} /\ Dead \subseteq Cell /\ IsFiniteSet(Dead)
    <3>1. Dead' = Dead \cup {c} /\ Dead \subseteq Cell
      BY <1>5, <1>11 DEF Dead, Swept
    <3> QED BY <3>1, NodeFacts, FS_Subset
  <2>2. /\ mark' = mark
        /\ kind' = [kind EXCEPT ![c] = "free"]
        /\ len' = [len EXCEPT ![c] = 0]
        /\ car' = IF kind[c] = "free" THEN car ELSE [car EXCEPT ![c] = NIL]
        /\ cdr' = [cdr EXCEPT ![c] = free_cell]
        /\ free_cell' = c
        /\ fcells' = fcells + 1
    BY <1>2, <1>6, <1>11 DEF SweepCell
  <2>3. mark' \in [Node -> BOOLEAN] /\ \A d \in Node : mark'[d] <=> d \in scan' /\ d \in Live'
    BY <1>4, <1>5, <1>6, <1>11, <2>2
  <2>4. \A d \in Dead : d > c /\ d \in Nat /\ c \in Nat /\ ~(c > d) /\ ~(c > c)
    <3>1. \A d \in Dead : d > c
      BY <1>3 DEF SweepingInv, Dead
    <3> QED BY <1>3, <2>1, <3>1, NodeFacts
  <2>5. {d \in Dead' : d > c} = Dead
    <3>1. ~(c > c)
      BY <1>3, NodeFacts
    <3> QED BY <2>1, <2>4, <3>1
  <2>6. \A x \in Dead : {d \in Dead' : d > x} = {d \in Dead : d > x}
    BY <2>1, <2>4
  <2>7. kind' = [x \in Cell |-> IF x \in Dead' THEN "free" ELSE start.kind[x]]
    BY <1>3, <1>9, <2>1, <2>2
  <2>8. len' = [x \in Cell |-> IF x \in Dead' THEN 0 ELSE start.len[x]]
    BY <1>3, <1>9, <2>1, <2>2
  <2>9. car' = [x \in Node |-> IF x \in Dead' THEN NIL ELSE start.car[x]]
    <3>1. kind[c] = "free" => car[c] = NIL
      BY <1>3, <1>5, <1>9 DEF StartOK
    <3>2. \A x \in Node : car'[x] = IF x \in Dead' THEN NIL ELSE start.car[x]
      <4>1. CASE kind[c] = "free"
        BY <1>3, <1>9, <2>1, <2>2, <3>1, <4>1
      <4>2. CASE kind[c] # "free"
        BY <1>3, <1>9, <2>1, <2>2, <4>2
      <4> QED BY <4>1, <4>2
    <3>3. car' = [x \in Node |-> car'[x]]
      <4>1. car = [x \in Node |-> car[x]]
        BY <1>9
      <4> QED BY <2>2, <4>1
    <3> QED BY <3>2, <3>3
  <2>10. cdr' = [x \in Node |-> IF x \in Dead' THEN Low({d \in Dead' : d > x})
                                ELSE start.cdr[x]]
    <3>1. \A x \in Node : cdr'[x] = IF x \in Dead' THEN Low({d \in Dead' : d > x})
                                    ELSE start.cdr[x]
      <4>1. ASSUME NEW x \in Node, x = c
            PROVE  cdr'[x] = Low({d \in Dead' : d > x}) /\ x \in Dead'
        BY <1>3, <1>9, <2>1, <2>2, <2>5, <4>1
      <4>2. ASSUME NEW x \in Dead, x # c
            PROVE  cdr'[x] = Low({d \in Dead' : d > x})
        <5>1. x \in Node
          BY <2>1, NodeFacts
        <5>2. cdr'[x] = cdr[x] /\ cdr[x] = Low({d \in Dead : d > x})
          BY <1>9, <2>2, <4>2, <5>1
        <5> QED BY <2>6, <5>2
      <4>3. ASSUME NEW x \in Node, x # c, x \notin Dead
            PROVE  cdr'[x] = start.cdr[x]
        BY <1>9, <2>2, <4>3
      <4> QED BY <2>1, <4>1, <4>2, <4>3
    <3>2. cdr' = [x \in Node |-> cdr'[x]]
      <4>1. cdr = [x \in Node |-> cdr[x]]
        BY <1>9
      <4> QED BY <2>2, <4>1
    <3> QED BY <3>1, <3>2
  <2>11. free_cell' = Low(Dead')
    <3>1. c \in Dead' /\ Dead' \subseteq Cell
      BY <1>3, <2>1
    <3>2. \A d \in Dead' : c <= d
      <4>1. c <= c
        BY <1>3, NodeFacts
      <4>2. \A d \in Dead : c <= d
        BY <2>4
      <4> QED BY <2>1, <4>1, <4>2
    <3>3. Low(Dead') = c
      BY <3>1, <3>2, LowIs
    <3> QED BY <2>2, <3>3
  <2>12. fcells' = Cardinality(Dead')
    <3>1. Cardinality(Dead \cup {c}) = Cardinality(Dead) + 1
      BY <1>5, <2>1, FS_AddElement
    <3> QED BY <1>9, <2>1, <2>2, <3>1
  <2>13. start' = start /\ Live' = Live
    BY <1>4, <1>5
  <2> QED BY <1>4, <1>7, <1>8, <2>3, <2>7, <2>8, <2>9, <2>10, <2>11, <2>12 DEF SweepingInv
<1> QED BY <1>10, <1>11

---------------------------------------------------------------------------
(* The invariant.                                                          *)

(* What a layout makes of the heap a collection starts from.               *)
LEMMA InitStart == Init => StartOK
<1> SUFFICES ASSUME Init PROVE StartOK
  OBVIOUS
<1> DEFINE Bodies(L) == UNION {(v + 1) .. (v + L.len[v]) : v \in L.vectors}
           Pairs(L) == Cell \ (L.vectors \cup L.free)
           Objects(L) == (Cell \ (L.free \cup Bodies(L))) \cup {NIL}
<1>1. PICK L \in Layouts :
        /\ kind = [c \in Cell |-> IF c \in L.free THEN "free"
                                  ELSE IF c \in L.vectors THEN "vector"
                                  ELSE "pair"]
        /\ len = L.len
        /\ \E a, d \in [Pairs(L) -> Objects(L)], r \in [1 .. L.roots -> Objects(L)] :
             /\ car = [c \in Node |-> IF c \in Pairs(L) THEN a[c] ELSE NIL]
             /\ cdr = [c \in Node |-> IF c \in Pairs(L) THEN d[c]
                                      ELSE IF c \in L.free
                                      THEN Low({e \in L.free : e > c})
                                      ELSE NIL]
             /\ todo = [j \in 1 .. NRoots |-> IF j <= L.roots THEN r[j] ELSE NIL]
        /\ start = [kind |-> kind, len |-> len, car |-> car, cdr |-> cdr,
                    roots |-> todo]
  BY DEF Init
<1>2. PICK a \in [Pairs(L) -> Objects(L)], d \in [Pairs(L) -> Objects(L)],
           r \in [1 .. L.roots -> Objects(L)] :
        /\ car = [c \in Node |-> IF c \in Pairs(L) THEN a[c] ELSE NIL]
        /\ cdr = [c \in Node |-> IF c \in Pairs(L) THEN d[c]
                                 ELSE IF c \in L.free
                                 THEN Low({e \in L.free : e > c})
                                 ELSE NIL]
        /\ todo = [j \in 1 .. NRoots |-> IF j <= L.roots THEN r[j] ELSE NIL]
  BY <1>1
<1>3. /\ start.kind = kind /\ start.len = L.len /\ start.car = car
      /\ start.cdr = cdr /\ start.roots = todo
  BY <1>1
<1>4. /\ L.len \in [Cell -> Nat] /\ L.vectors \subseteq Cell /\ L.free \subseteq Cell
      /\ L.roots \in 0 .. NRoots /\ NRoots \in Nat
  BY CollectorAssumption
<1>5. /\ L.vectors \cap L.free = {}
      /\ \A v \in L.vectors :
           (v + 1) .. (v + L.len[v]) \subseteq Cell \ (L.vectors \cup L.free)
      /\ \A v, w \in L.vectors : v # w =>
           ((v + 1) .. (v + L.len[v])) \cap ((w + 1) .. (w + L.len[w])) = {}
  BY LayoutAssumption
<1>6. /\ \A c : IsVector(c) <=> c \in L.vectors
      /\ \A c : IsPair(c) <=> c \in Pairs(L)
      /\ \A c : Body(c) = (c + 1) .. (c + L.len[c])
      /\ \A c \in Cell : start.kind[c] = "free" <=> c \in L.free
  <2>1. \A c \in Cell : start.kind[c] = IF c \in L.free THEN "free"
                                        ELSE IF c \in L.vectors THEN "vector"
                                        ELSE "pair"
    BY <1>1, <1>3
  <2>2. \A c \in L.vectors : c \in Cell /\ c \notin L.free
    BY <1>4, <1>5
  <2> QED BY <1>3, <2>1, <2>2 DEF IsVector, IsPair, Body
<1>7. Object = Objects(L)
  <2>1. \A c \in Cell :
          (\A v \in Cell : IsVector(v) => c \notin Body(v)) <=> c \notin Bodies(L)
    <3>1. \A v : v \in L.vectors <=> v \in Cell /\ IsVector(v)
      BY <1>4, <1>6
    <3>2. \A c : c \in Bodies(L) <=> \E v \in L.vectors : c \in Body(v)
      BY <1>3, Zenon DEF Body
    <3> HIDE DEF Bodies
    <3> QED BY <3>1, <3>2
  <2> QED BY <1>6, <2>1 DEF Object
<1>8. Object \subseteq Node /\ NIL \in Object /\ NIL \in Node
  BY NodeFacts DEF Object
<1> HIDE DEF Objects
<1>9. start.kind \in [Cell -> {"free", "pair", "vector"}] /\ start.len \in [Cell -> Nat]
  BY <1>1, <1>3, <1>4
<1>10. start.car \in [Node -> Node] /\ \A c \in Pairs(L) : start.car[c] \in Object
  <2>1. \A c \in Pairs(L) : a[c] \in Object
    BY <1>7
  <2>2. \A c \in Node : c \in Pairs(L) => a[c] \in Node
    BY <1>8, <2>1
  <2>3. start.car \in [Node -> Node]
    <3> HIDE DEF Pairs
    <3> QED BY <1>2, <1>3, <1>8, <2>2
  <2>4. \A c \in Pairs(L) : c \in Node
    BY NodeFacts
  <2> HIDE DEF Pairs
  <2> QED BY <1>2, <1>3, <2>1, <2>3, <2>4
<1>11. start.cdr \in [Node -> Node] /\ \A c \in Pairs(L) : start.cdr[c] \in Object
  <2>1. \A c \in Pairs(L) : d[c] \in Object
    BY <1>7
  <2>2. \A c \in Node : c \in Pairs(L) => d[c] \in Node
    BY <1>8, <2>1
  <2>3. ASSUME NEW c  PROVE Low({e \in L.free : e > c}) \in Node
    <3> DEFINE F == {e \in L.free : e > c}
    <3>1. CASE F = {}
      BY <1>8, <3>1 DEF Low
    <3>2. CASE F # {}
      <4>1. F \subseteq Nat /\ F \subseteq Node
        BY <1>4, NodeFacts
      <4> HIDE DEF F
      <4>2. Low(F) \in F
        BY <3>2, <4>1, LeastCell DEF Low
      <4> QED BY <4>1, <4>2 DEF F
    <3> QED BY <3>1, <3>2
  <2>4. start.cdr \in [Node -> Node]
    <3>1. ASSUME NEW c \in Node  PROVE cdr[c] \in Node
      <4>1. CASE c \in Pairs(L)
        <5>1. cdr[c] = d[c]
          BY <1>2, <4>1
        <5> QED BY <2>2, <4>1, <5>1
      <4>2. CASE c \notin Pairs(L) /\ c \in L.free
        <5>1. cdr[c] = Low({e \in L.free : e > c})
          BY <1>2, <4>2
        <5> QED BY <2>3, <5>1
      <4>3. CASE c \notin Pairs(L) /\ c \notin L.free
        BY <1>2, <1>8, <4>3
      <4> QED BY <4>1, <4>2, <4>3
    <3>2. cdr = [c \in Node |-> cdr[c]]
      BY <1>2
    <3> QED BY <1>3, <3>1, <3>2
  <2>5. \A c \in Pairs(L) : c \in Node
    BY NodeFacts
  <2> HIDE DEF Pairs
  <2> QED BY <1>2, <1>3, <2>1, <2>4, <2>5
<1>12. start.roots \in [1 .. NRoots -> Object]
  <2>1. \A j \in 1 .. NRoots : j <= L.roots => r[j] \in Object
    BY <1>4, <1>7
  <2> QED BY <1>2, <1>3, <1>8, <2>1
<1>13. \A c \in Cell : start.kind[c] = "free" => start.car[c] = NIL
  <2>1. \A c \in L.free : c \in Node /\ c \notin Pairs(L)
    BY <1>4, NodeFacts
  <2> HIDE DEF Pairs
  <2> QED BY <1>2, <1>3, <1>6, <2>1
<1>14. \A v \in Cell : IsVector(v) => \A c \in Body(v) : IsPair(c)
  BY <1>5, <1>6
<1>15. ASSUME NEW v \in Cell, NEW w \in Cell, IsVector(v), IsVector(w),
              NEW c \in Body(v), c \in Body(w)
       PROVE  v = w
  BY <1>5, <1>6, <1>15
<1>16. \A c \in Cell : IsPair(c) => start.car[c] \in Object /\ start.cdr[c] \in Object
  <2> HIDE DEF Pairs
  <2> QED BY <1>6, <1>10, <1>11
<1> QED BY <1>9, <1>10, <1>11, <1>12, <1>13, <1>14, <1>15, <1>16 DEF StartOK

LEMMA InitInv == Init => CollectorInv
<1> SUFFICES ASSUME Init PROVE CollectorInv
  OBVIOUS
<1>1. StartOK
  BY InitStart
<1>2. /\ pc = "roots" /\ p = NIL /\ t = NULL /\ i = 0 /\ frames = << >> /\ scan = Cell
      /\ start = [kind |-> kind, len |-> len, car |-> car, cdr |-> cdr, roots |-> todo]
      /\ \E nilMarked \in BOOLEAN : mark = [c \in Node |-> c = NIL /\ nilMarked]
      /\ \E L \in Layouts : atom = [c \in Node |-> c \in L.vectors \cup {NIL}]
      /\ \E L \in Layouts : /\ kind = [c \in Cell |-> IF c \in L.free THEN "free"
                                                     ELSE IF c \in L.vectors THEN "vector"
                                                     ELSE "pair"]
                            /\ atom = [c \in Node |-> c \in L.vectors \cup {NIL}]
  BY DEF Init
<1>3. /\ start.kind = kind /\ start.len = len /\ start.car = car
      /\ start.cdr = cdr /\ start.roots = todo
  BY <1>2
<1>4. todo \in Seq(Object) /\ Len(todo) = NRoots
  <2>1. todo \in [1 .. NRoots -> Object] /\ NRoots \in Nat
    BY <1>1, <1>3, CollectorAssumption DEF StartOK
  <2> QED BY <2>1
<1>5. mark \in [Node -> BOOLEAN] /\ \A c \in Node : mark[c] => c = NIL
  BY <1>2
<1>6. atom \in [Node -> BOOLEAN] /\ \A c \in Node : Kept(c)
  <2>1. PICK L \in Layouts :
          /\ kind = [c \in Cell |-> IF c \in L.free THEN "free"
                                    ELSE IF c \in L.vectors THEN "vector"
                                    ELSE "pair"]
          /\ atom = [c \in Node |-> c \in L.vectors \cup {NIL}]
    BY <1>2
  <2>2. L.vectors \subseteq Cell /\ L.vectors \cap L.free = {}
    BY CollectorAssumption, LayoutAssumption
  <2>3. \A c : c \in L.vectors <=> IsVector(c)
    BY <1>3, <2>1, <2>2 DEF IsVector
  <2>4. atom \in [Node -> BOOLEAN]
    BY <2>1
  <2>5. \A c \in Node : atom[c] = (c = NIL \/ IsVector(c))
    BY <2>1, <2>3
  <2> QED BY <1>3, <2>4, <2>5 DEF Kept
<1>7. Unswept
  <2>1. /\ car \in [Node -> Node \cup {NULL}] /\ cdr \in [Node -> Node \cup {NULL}]
    BY <1>1, <1>3 DEF StartOK
  <2>2. frames \in Seq(WaitingCall) /\ i \in Nat
    BY <1>2
  <2> QED BY <1>2, <1>3, <1>4, <1>5, <1>6, <2>1, <2>2 DEF Unswept
<1>8. AtLabel
  BY <1>2 DEF AtLabel
<1> DEFINE S == << >>
<1>9. S \in Seq(Entry) /\ Len(S) = 0 /\ On(S) = {}
  BY DEF On
<1>10. Chain(S)
  <2>1. t = Up(S, Len(S) + 1) /\ Child(S, 0) = p
    BY <1>2, <1>9 DEF Up, Child
  <2>2. p \in Node /\ p \in Object
    BY <1>1, <1>2, StartFacts, NodeFacts
  <2> QED BY <1>6, <1>9, <2>1, <2>2 DEF Chain
<1>11. Nested(S)
  BY <1>2, <1>9 DEF Nested, Depth
<1>12. Marks(S)
  <2>1. \A c \in Node : mark[c] => \A x \in Succ(c) : mark[x]
    <3>1. Succ(NIL) = {}
      BY NodeFacts DEF Succ, IsPair, IsVector
    <3> QED BY <1>5, <3>1
  <2>2. \A j \in 1 .. NRoots : start.roots[j] \in Range1(todo)
    BY <1>3, <1>4 DEF Range1
  <2> QED BY <1>2, <1>9, <2>1, <2>2 DEF Marks
<1>13. InLive(S)
  <2>1. NIL \in Live /\ \A j \in 1 .. NRoots : start.roots[j] \in Live
    BY <1>1, LiveFacts
  <2> QED BY <1>2, <1>3, <1>4, <1>5, <1>9, <2>1 DEF InLive
<1>14. MarkingWith(S) /\ S \in Seq(Entry)
  BY <1>9, <1>10, <1>11, <1>12, <1>13 DEF MarkingWith
<1> HIDE DEF S
<1>15. MarkingInv
  BY <1>7, <1>8, <1>14 DEF MarkingInv
<1> QED BY <1>1, <1>2, <1>15 DEF CollectorInv, Marking

(* Every step of the collection keeps the invariant.                       *)
LEMMA StepInv == CollectorInv /\ [Next]_vars => CollectorInv'
<1> SUFFICES ASSUME CollectorInv, [Next]_vars PROVE CollectorInv'
  OBVIOUS
<1>1. StartOK
  BY DEF CollectorInv
<1>2. start' = start
  BY DEF Next, vars, MarkRoot, E2, MarkElement, ElementsDone, E4down, E5down, Pass,
         E6fromCar, E6fromCdr, E6return, StartSweep, SweepCell
<1>3. StartOK'
  BY <1>1, <1>2, StartSame
<1>4. CASE Marking /\ Next
  <2>1. MarkingInv /\ AtLabel
    BY <1>4 DEF CollectorInv, MarkingInv
  <2>2. CASE StartSweep
    BY <1>1, <1>3, <2>1, <2>2, StartSweepInv DEF StartSweep, CollectorInv, Marking
  <2>3. CASE ~StartSweep
    <3>1. ~SweepCell
      BY <1>4 DEF Marking, SweepCell
    <3>2. MarkingInv'
      BY <1>1, <1>4, <2>1, <2>3, <3>1, MarkRootInv, E2Inv, MarkElementInv, PassInv,
         DownInv, UpInv, ReturnInv DEF Next
    <3>3. Marking'
      BY <3>2 DEF MarkingInv, AtLabel, Marking
    <3> QED BY <1>3, <3>2, <3>3 DEF CollectorInv
  <2> QED BY <2>2, <2>3
<1>5. CASE ~Marking /\ Next
  <2>1. SweepingInv
    BY <1>5 DEF CollectorInv
  <2>2. SweepCell
    BY <1>5 DEF Marking, Next, MarkRoot, E2, MarkElement, ElementsDone, E4down, E5down,
                Pass, E6fromCar, E6fromCdr, E6return, StartSweep
  <2>3. SweepingInv'
    BY <1>1, <2>1, <2>2, SweepCellInv
  <2>4. ~Marking'
    BY <2>3 DEF SweepingInv, Marking
  <2> QED BY <1>3, <2>3, <2>4 DEF CollectorInv
<1>6. CASE UNCHANGED vars
  <2>1. UNCHANGED <<kind, len, car, cdr, atom, mark, pc, p, t, i, frames, todo, scan,
                    free_cell, fcells, start>>
    BY <1>6 DEF vars, links, flags, mine
  <2>2. /\ \A c : IsPair(c)' = IsPair(c) /\ IsVector(c)' = IsVector(c)
        /\ \A c : Body(c)' = Body(c) /\ Succ(c)' = Succ(c)
        /\ Object' = Object /\ Live' = Live
    BY <1>2, StartSame
  <2>3. CASE Marking
    <3>1. MarkingInv
      BY <2>3 DEF CollectorInv
    <3>2. PICK S \in Seq(Entry) : MarkingWith(S)
      BY <3>1 DEF MarkingInv
    <3>3. Chain(S) /\ Nested(S) /\ Marks(S) /\ InLive(S) /\ (pc = "roots" => S = << >>)
      BY <3>2 DEF MarkingWith
    <3>4. Chain(S)' /\ Nested(S)'
      BY <2>1, <3>3, SameChain
    <3>5. /\ On(S)' = On(S) /\ Range1(todo)' = Range1(todo)
          /\ \A j : Child(S, j)' = Child(S, j)
      BY <2>1 DEF On, Range1, Child
    <3>6. Marks(S)'
      BY <2>1, <2>2, <3>3, <3>5 DEF Marks
    <3>7. InLive(S)'
      BY <2>1, <2>2, <3>3, <3>5 DEF InLive
    <3>8. Unswept' /\ AtLabel'
      BY <2>1, <2>2, <3>1 DEF MarkingInv, Unswept, AtLabel
    <3>9. MarkingInv'
      BY <2>1, <3>3, <3>4, <3>6, <3>7, <3>8 DEF MarkingInv, MarkingWith
    <3> QED BY <1>3, <2>1, <2>3, <3>9 DEF CollectorInv, Marking
  <2>4. CASE ~Marking
    <3>1. SweepingInv
      BY <2>4 DEF CollectorInv
    <3>2. Swept' = Swept /\ Dead' = Dead
      BY <2>1, <2>2 DEF Swept, Dead
    <3>3. SweepingInv'
      BY <2>1, <2>2, <3>1, <3>2 DEF SweepingInv
    <3> QED BY <1>3, <2>1, <2>4, <3>3 DEF CollectorInv, Marking
  <2> QED BY <2>3, <2>4
<1> QED BY <1>4, <1>5, <1>6

(* The invariant of the collection: the links that differ are a chain from *)
(* a root to the cell at hand, what is marked is live and complete but for *)
(* the chain, and what is swept is dead.                                   *)
THEOREM CollectorInvariant == Spec => []CollectorInv
<1> QED BY InitInv, StepInv, PTL DEF Spec

(* No vector's elements are being marked by two calls of mark at a time.   *)
THEOREM EachVectorOnceTheorem == Spec => []EachVectorOnce
<1>1. CollectorInv => EachVectorOnce
  <2> SUFFICES ASSUME CollectorInv, NEW m \in 1 .. Len(frames), NEW n \in 1 .. Len(frames),
                      frames[m].p = frames[n].p
               PROVE  m = n
    BY DEF EachVectorOnce
  <2>1. CASE ~Marking
    <3>1. frames = << >>
      BY <2>1 DEF CollectorInv, SweepingInv
    <3> QED BY <3>1
  <2>2. CASE Marking
    <3>1. PICK S \in Seq(Entry) : Chain(S) /\ Nested(S)
      BY <2>2 DEF CollectorInv, MarkingInv, MarkingWith
    <3>2. PICK j \in 1 .. Len(S) : S[j].link = "element" /\ S[j].n = m
      BY <3>1 DEF Nested
    <3>3. PICK k \in 1 .. Len(S) : S[k].link = "element" /\ S[k].n = n
      BY <3>1 DEF Nested
    <3>4. frames[m].p = S[j].c
      <4>1. LinkOK(S, j)
        BY <3>1 DEF Chain
      <4> QED BY <3>2, <4>1 DEF LinkOK
    <3>5. frames[n].p = S[k].c
      <4>1. LinkOK(S, k)
        BY <3>1 DEF Chain
      <4> QED BY <3>3, <4>1 DEF LinkOK
    <3>6. j = k
      BY <3>1, <3>4, <3>5 DEF Chain
    <3> QED BY <3>2, <3>3, <3>6
  <2> QED BY <2>1, <2>2
<1> QED BY <1>1, CollectorInvariant, PTL

---------------------------------------------------------------------------
(* The collection as module Heap sees it.                                  *)

(* Before the collection is over, what Heap has the collector mark is what *)
(* is live here.                                                           *)
LEMMA LiveIsMarked ==
  ASSUME StartOK, pc # "done"
  PROVE  \A c \in Cell : c \in H!Marked <=> c \in Live
<1> DEFINE Used == {c \in Cell : start.kind[c] # "free"} \cup {NIL}
           R == H!Registers \cup {H!Recent} \cup H!Extra
<1>1. H!Cell = Cell
  BY DEF H!Cell, H!Segment, Cell
<1>2. H!InUse = Used \cup {-1}
  <2>1. \A c \in Cell : start.kind[c] # "free" <=> start.kind[c] \in {"pair", "vector"}
    BY DEF StartOK
  <2> QED BY <1>1, <2>1 DEF H!InUse, H!SINK, H!NIL, NIL, Now
<1>3. R = {start.roots[j] : j \in 1 .. NRoots} \cup {NIL}
  <2>1. H!Registers = {start.roots[j] : j \in 1 .. NRoots}
    BY DEF H!Registers
  <2>2. H!Recent = NIL
    BY DEF H!Recent, H!SINK
  <2>3. H!Extra = {}
    BY DEF H!Extra
  <2> QED BY <2>1, <2>2, <2>3
<1>4. -1 \notin Node /\ -1 # NIL
  BY NodeFacts DEF NIL
<1>5. \A c \in Used : H!Succ(c) = Succ(c)
  <2>1. ASSUME NEW c \in Used  PROVE H!Succ(c) = Succ(c)
    <3>1. CASE c = NIL
      <4>1. ~IsPair(c) /\ ~IsVector(c)
        BY <3>1, NodeFacts DEF IsPair, IsVector
      <4> QED BY <3>1, <4>1 DEF H!Succ, H!NIL, NIL, Succ
    <3>2. CASE c # NIL /\ start.kind[c] = "pair"
      <4>1. IsPair(c) /\ c \in Cell /\ c # -1
        BY <1>4, <2>1, <3>2, NodeFacts DEF IsPair
      <4>2. Succ(c) = {start.car[c], start.cdr[c]}
        BY <4>1 DEF Succ
      <4> QED BY <3>2, <4>1, <4>2 DEF H!Succ, H!NIL, NIL, H!SINK, Now
    <3>3. CASE c # NIL /\ start.kind[c] = "vector"
      <4>1. IsVector(c) /\ ~IsPair(c) /\ c \in Cell /\ c # -1
        BY <1>4, <2>1, <3>3, NodeFacts DEF IsPair, IsVector
      <4>2. Succ(c) = (c + 1) .. (c + start.len[c])
        BY <4>1 DEF Succ, Body
      <4> QED BY <3>3, <4>1, <4>2 DEF H!Succ, H!NIL, NIL, H!SINK, Now
    <3> QED BY <2>1, <3>1, <3>2, <3>3 DEF StartOK
  <2> QED BY <2>1
<1>6. Used \subseteq Node /\ Object \subseteq Used /\ NIL \in Used
  BY NodeFacts DEF Object
<1>7. \A c \in Used : Succ(c) \subseteq Used
  <2>1. ASSUME NEW c \in Used  PROVE Succ(c) \subseteq Used
    <3>1. CASE IsPair(c)
      BY <1>6, <3>1 DEF Succ, StartOK, IsPair
    <3>2. CASE ~IsPair(c) /\ IsVector(c)
      <4>1. \A x \in Body(c) : x \in Cell /\ IsPair(x)
        BY <3>2, StartFacts
      <4>2. \A x \in Body(c) : x \in Used
        BY <4>1 DEF IsPair
      <4> QED BY <3>2, <4>2 DEF Succ
    <3>3. CASE ~IsPair(c) /\ ~IsVector(c)
      BY <3>3 DEF Succ
    <3> QED BY <3>1, <3>2, <3>3
  <2> QED BY <2>1
<1>8. \A j \in 1 .. NRoots : start.roots[j] \in Used
  BY <1>6 DEF StartOK
<1>9. H!Marked = {c \in H!InUse : \A S \in SUBSET H!InUse :
                                    R \subseteq S /\ (\A d \in S : H!Succ(d) \subseteq S)
                                    => c \in S}
  BY DEF H!Marked, H!Reach, H!Closed
<1> HIDE DEF Used, R
<1>10. ASSUME NEW c \in Cell, c \in H!Marked  PROVE c \in Live
  <2>1. ASSUME NEW S \in SUBSET Node, NIL \in S,
               \A j \in 1 .. NRoots : start.roots[j] \in S,
               \A d \in S : Succ(d) \subseteq S
        PROVE  c \in S
    <3>1. S \cap Used \in SUBSET H!InUse /\ R \subseteq S \cap Used
      BY <1>2, <1>3, <1>6, <1>8, <2>1
    <3>2. \A d \in S \cap Used : H!Succ(d) \subseteq S \cap Used
      BY <1>5, <1>7, <2>1
    <3> QED BY <1>9, <1>10, <3>1, <3>2
  <2>2. c \in Node
    BY NodeFacts
  <2> QED BY <2>1, <2>2 DEF Live
<1>11. ASSUME NEW c \in Cell, c \in Live  PROVE c \in H!Marked
  <2>1. c \in Used
    BY <1>6, <1>7, <1>8, <1>11, LiveFacts
  <2>2. ASSUME NEW S \in SUBSET H!InUse, R \subseteq S,
               \A d \in S : H!Succ(d) \subseteq S
        PROVE  c \in S
    <3>1. S \cap Used \in SUBSET Node /\ NIL \in S \cap Used
      BY <1>3, <1>6, <2>2
    <3>2. \A j \in 1 .. NRoots : start.roots[j] \in S \cap Used
      BY <1>3, <1>8, <2>2
    <3>3. \A d \in S \cap Used : Succ(d) \subseteq S \cap Used
      BY <1>5, <1>7, <2>2
    <3>4. Live \subseteq S \cap Used
      BY <3>1, <3>2, <3>3, LiveFacts
    <3> QED BY <1>11, <3>4
  <2> QED BY <1>2, <1>9, <2>1, <2>2
<1> QED BY <1>10, <1>11

(* The last step of the collection is Heap's gc, and leaves no mark.       *)
LEMMA LastStep ==
  CollectorInv /\ CollectorInv' /\ SweepCell /\ pc' = "done" =>
    H!gc /\ \A c \in Cell : ~mark'[c]
<1> SUFFICES ASSUME CollectorInv, CollectorInv', SweepCell, pc' = "done"
             PROVE  H!gc /\ \A c \in Cell : ~mark'[c]
  OBVIOUS
<1>1. StartOK /\ SweepingInv' /\ pc = "sweep"
  BY DEF CollectorInv, Marking, SweepCell
<1>2. scan' = {} /\ start' = start /\ Live' = Live
  <2>1. scan' = {}
    BY <1>1 DEF SweepingInv
  <2>2. start' = start
    BY DEF SweepCell
  <2> QED BY <2>1, <2>2, StartSame
<1> DEFINE dead == (UNION {H!Segment(b) : b \in SegBase}) \ H!Marked
<1>3. dead = Dead' /\ dead = Cell \ Live
  <2>1. UNION {H!Segment(b) : b \in SegBase} = Cell
    BY DEF H!Segment, Cell
  <2>2. \A c \in Cell : c \in H!Marked <=> c \in Live
    BY <1>1, LiveIsMarked
  <2>3. Dead' = Cell \ Live
    BY <1>2 DEF Dead, Swept
  <2> QED BY <2>1, <2>2, <2>3
<1>4. \A c \in Cell : ~mark'[c]
  BY <1>1, <1>2, NodeFacts DEF SweepingInv
<1>5. /\ kind' = [c \in Cell |-> IF c \in Dead' THEN "free" ELSE start.kind[c]]
      /\ len' = [c \in Cell |-> IF c \in Dead' THEN 0 ELSE start.len[c]]
      /\ car' = [c \in Node |-> IF c \in Dead' THEN NIL ELSE start.car[c]]
      /\ cdr' = [c \in Node |-> IF c \in Dead' THEN Low({d \in Dead' : d > c})
                                ELSE start.cdr[c]]
      /\ free_cell' = Low(Dead') /\ fcells' = Cardinality(Dead')
  BY <1>1, <1>2 DEF SweepingInv
<1>6. H!Cell = Cell /\ H!Mem = Cell \cup {-1} /\ -1 \notin Cell
  BY NodeFacts DEF H!Cell, H!Segment, Cell, H!Mem, H!SINK
<1>7. \A S : H!First(S) = Low(S)
  BY DEF H!First, Low, H!Lowest, H!NIL, NIL
<1> HIDE DEF dead
<1>8. -1 \notin dead
  BY <1>3, <1>6
<1>9. H!Sweep(dead)
  <2>1. Now(kind, start.kind)' = [c \in Cell |-> IF c \in dead THEN "free"
                                                 ELSE Now(kind, start.kind)[c]]
    BY <1>1, <1>3, <1>5 DEF Now
  <2>2. Now(len, start.len)' = [c \in Cell |-> IF c \in dead THEN 0
                                               ELSE Now(len, start.len)[c]]
    BY <1>1, <1>3, <1>5 DEF Now
  <2>3. \A c \in Cell : /\ c \in Node
                        /\ car'[c] = IF c \in dead THEN NIL ELSE start.car[c]
                        /\ cdr'[c] = IF c \in dead THEN Low({d \in dead : d > c})
                                     ELSE start.cdr[c]
    BY <1>3, <1>5, NodeFacts
  <2> DEFINE cars == [c \in Cell \cup {-1} |->
                       IF c = -1 THEN NIL ELSE Now(car[c], start.car[c])]
             cdrs == [c \in Cell \cup {-1} |->
                       IF c = -1 THEN NIL ELSE Now(cdr[c], start.cdr[c])]
  <2>4. cars' = [c \in Cell \cup {-1} |-> IF c \in dead THEN NIL ELSE cars[c]]
    BY <1>1, <1>8, <2>3 DEF Now
  <2>5. cdrs' = [c \in Cell \cup {-1} |->
                   IF c \in dead THEN Low({d \in dead : d > c}) ELSE cdrs[c]]
    BY <1>1, <1>8, <2>3 DEF Now
  <2>6. Now(free_cell, Low({c \in Cell : start.kind[c] = "free"}))' = Low(dead)
    BY <1>3, <1>5 DEF Now
  <2>7. Now(fcells, Cardinality({c \in Cell : start.kind[c] = "free"}))'
          = Cardinality(dead)
    BY <1>3, <1>5 DEF Now
  <2> HIDE DEF cars, cdrs
  <2>8. /\ cdrs' = [c \in H!Mem |->
                     IF c \in dead THEN H!First({d \in dead : d > c}) ELSE cdrs[c]]
        /\ cars' = [c \in H!Mem |-> IF c \in dead THEN H!NIL ELSE cars[c]]
        /\ H!Cell = Cell /\ H!First(dead) = Low(dead)
    BY <1>6, <1>7, <2>4, <2>5 DEF H!NIL, NIL
  <2>9. H!Cardinality(dead) = Cardinality(dead)
    BY DEF H!Cardinality, Cardinality
  <2> QED BY <2>1, <2>2, <2>6, <2>7, <2>8, <2>9 DEF H!Sweep, cars, cdrs
<1> QED BY <1>4, <1>9 DEF H!gc, dead

(* The whole collection is one gc of module Heap, whatever the graph, and  *)
(* leaves no mark behind: the step that ends it does what Heap's gc does,  *)
(* and until then Heap sees nothing move.                                  *)
THEOREM ImplementsGcTheorem == Spec => ImplementsGc
<1>1. CollectorInv /\ CollectorInv' /\ [Next]_vars =>
        [pc' = "done" => H!gc /\ \A c \in Cell : ~mark'[c]]_vars
  <2> SUFFICES ASSUME CollectorInv, CollectorInv', Next, pc' = "done"
               PROVE  H!gc /\ \A c \in Cell : ~mark'[c]
    OBVIOUS
  <2>1. SweepCell
    BY DEF Next, MarkRoot, CallMark, E2, MarkElement, ElementsDone, E4down, E5down,
           Pass, E6fromCar, E6fromCdr, E6return, StartSweep
  <2> QED BY <2>1, LastStep
<1> QED BY <1>1, CollectorInvariant, PTL DEF Spec, ImplementsGc

---------------------------------------------------------------------------
(* The paths of module Collector's Recoverable are the chain.              *)

Link == Node \cup {NULL}

(* From a cell and the one above it to that one and the one above that.    *)
Above(x) == <<x[2], IF x[2] = NULL THEN NULL
                    ELSE IF atom[x[2]] THEN car[x[2]] ELSE cdr[x[2]]>>

Walk(call) == CHOOSE f : f = [n \in 0 .. Cardinality(Node) |->
                                IF n = 0 THEN <<call.p, call.t>> ELSE Above(f[n - 1])]

Iterates(f, x, g, n) ==
  \A k \in 0 .. n : f[k] = IF k = 0 THEN x ELSE g[f[k - 1]]

(* A function defined from its value one step below exists.                *)
LEMMA Recursion ==
  ASSUME NEW X, NEW x \in X, NEW g \in [X -> X], NEW N \in Nat
  PROVE  \E f \in [0 .. N -> X] : Iterates(f, x, g, N)
<1> USE DEF Iterates
<1> DEFINE Good(f, n) == Iterates(f, x, g, n)
           Bad == {n \in Nat : ~ \E f \in [0 .. n -> X] : Good(f, n)}
<1>1. SUFFICES ASSUME Bad # {}  PROVE FALSE
  OBVIOUS
<1>2. PICK m \in Bad : \A n \in Bad : m <= n
  <2> HIDE DEF Bad
  <2>1. Bad \subseteq Nat
    BY DEF Bad
  <2> QED BY <1>1, <2>1, Least
<1>3. m \in Nat /\ ~ \E f \in [0 .. m -> X] : Good(f, m)
  OBVIOUS
<1>4. CASE m = 0
  <2> DEFINE f == [k \in 0 .. 0 |-> x]
  <2>1. f \in [0 .. m -> X] /\ Good(f, m)
    BY <1>4
  <2> QED BY <1>3, <2>1
<1>5. CASE m # 0
  <2>1. m - 1 \in Nat /\ m - 1 \notin Bad
    <3>1. m - 1 \in Nat /\ ~ (m <= m - 1)
      BY <1>3, <1>5
    <3> HIDE DEF Bad
    <3> QED BY <1>2, <3>1
  <2>2. PICK f \in [0 .. (m - 1) -> X] : Good(f, m - 1)
    BY <2>1
  <2> DEFINE h == [k \in 0 .. m |-> IF k = m THEN g[f[m - 1]] ELSE f[k]]
  <2>3. /\ \A k \in 0 .. (m - 1) : h[k] = f[k] /\ f[k] \in X
        /\ h[m] = g[f[m - 1]]
    BY <1>3, <2>1
  <2>4. h \in [0 .. m -> X]
    BY <1>3, <2>1, <2>3
  <2>5. ASSUME NEW k \in 0 .. m  PROVE h[k] = IF k = 0 THEN x ELSE g[h[k - 1]]
    <3>1. CASE k = m
      BY <1>3, <1>5, <2>1, <2>3, <3>1
    <3>2. CASE k # m
      <4>1. k \in 0 .. (m - 1) /\ (k # 0 => k - 1 \in 0 .. (m - 1))
        BY <1>3, <3>2 DEF Iterates
      <4>2. f[k] = IF k = 0 THEN x ELSE g[f[k - 1]]
        BY <2>2, <4>1
      <4> HIDE DEF h
      <4> QED BY <2>3, <4>1, <4>2
    <3> QED BY <3>1, <3>2
  <2> QED BY <1>3, <2>4, <2>5
<1> QED BY <1>4, <1>5

(* What the path upwards of a call is, one step after the other.           *)
LEMMA WalkFacts ==
  ASSUME Unswept, NEW call, call.p \in Node, call.t \in Link
  PROVE  /\ Walk(call)[0] = <<call.p, call.t>>
         /\ \A n \in 1 .. Cardinality(Node) : Walk(call)[n] = Above(Walk(call)[n - 1])
         /\ Path(call) = {Walk(call)[n] : n \in 0 .. Cardinality(Node)} \cap (Node \X Node)
<1> DEFINE M == Cardinality(Node)
           X == Link \X Link
           g == [x \in X |-> Above(x)]
           x0 == <<call.p, call.t>>
           Rec(f) == [n \in 0 .. M |-> IF n = 0 THEN x0 ELSE Above(f[n - 1])]
<1>1. M \in Nat
  <2>1. IsFiniteSet(Node)
    BY NodeFacts, FS_AddElement
  <2> QED BY <2>1, FS_CardinalityType
<1>2. x0 \in X /\ g \in [X -> X]
  <2>1. ASSUME NEW x \in X  PROVE Above(x) \in X
    <3>1. x[2] \in Link /\ NULL \in Link
      BY DEF Link
    <3>2. x[2] # NULL => x[2] \in Node
      BY <3>1 DEF Link
    <3>3. x[2] # NULL => car[x[2]] \in Link /\ cdr[x[2]] \in Link
      BY <3>2 DEF Unswept, Link
    <3> QED BY <3>1, <3>3 DEF Above
  <2> QED BY <2>1 DEF Link
<1> HIDE DEF M, X, x0
<1>3. PICK f \in [0 .. M -> X] : Iterates(f, x0, g, M)
  <2> HIDE DEF g
  <2> QED BY <1>1, <1>2, Recursion
<1>4. f = Rec(f)
  <2>1. ASSUME NEW k \in 0 .. M  PROVE f[k] = IF k = 0 THEN x0 ELSE Above(f[k - 1])
    <3>1. k # 0 => k - 1 \in 0 .. M
      BY <1>1
    <3>2. k # 0 => g[f[k - 1]] = Above(f[k - 1])
      BY <3>1
    <3> QED BY <1>3, <3>2 DEF Iterates
  <2> QED BY <2>1
<1>5. Walk(call) = Rec(Walk(call))
  <2>1. Walk(call) = CHOOSE w : w = Rec(w)
    BY DEF Walk, M, x0
  <2> HIDE DEF Rec
  <2> QED BY <1>4, <2>1
<1>6. Path(call) = {Walk(call)[n] : n \in 0 .. M} \cap (Node \X Node)
  BY DEF Path, Walk, Above, M
<1>7. Walk(call)[0] = x0
  <2>1. 0 \in 0 .. M
    BY <1>1
  <2> QED BY <1>5, <2>1
<1>8. \A n \in 1 .. M : Walk(call)[n] = Above(Walk(call)[n - 1])
  <2>1. \A n \in 1 .. M : n \in 0 .. M /\ n # 0
    BY <1>1
  <2> QED BY <1>5, <2>1
<1> QED BY <1>6, <1>7, <1>8 DEF M, x0

(* The links of the chain that are switched: what each led down to, and    *)
(* whose it is.                                                            *)
Turned(S) == {j \in 1 .. Len(S) : S[j].link # "element"}
Links(S)  == {<<Child(S, j), S[j].c>> : j \in Turned(S)}

(* Where the calls of mark stand on the chain, and what is there: the call *)
(* at h has come down to Child(S, h - 1) and has Up(S, h) above it.        *)
Stands(S) == {Len(S) + 1} \cup {j \in 1 .. Len(S) : S[j].link = "element"}
Stand(S, h) == <<Child(S, h - 1), Up(S, h)>>

LEMMA ChainLength ==
  ASSUME StartOK, NEW S \in Seq(Entry), Chain(S)
  PROVE  Len(S) < Cardinality(Node) /\ Cardinality(Node) \in Nat
<1> DEFINE D == 1 .. Len(S)
           f == [j \in D |-> S[j].c]
<1>1. Len(S) \in Nat /\ \A j \in D : S[j].c \in Cell
  <2>1. \A j \in D : S[j] \in Entry
    OBVIOUS
  <2> QED BY <2>1 DEF Entry
<1>2. f \in Injection(D, Cell)
  <2>1. f \in [D -> Cell]
    BY <1>1
  <2>2. \A j, k \in D : f[j] = f[k] => j = k
    BY DEF Chain
  <2> QED BY <2>1, <2>2 DEF Injection, IsInjective
<1>3. IsFiniteSet(D) /\ Cardinality(D) = Len(S)
  <2>1. 1 \in Int /\ Len(S) \in Int
    BY <1>1
  <2>2. /\ IsFiniteSet(1 .. Len(S))
        /\ Cardinality(1 .. Len(S)) = IF 1 > Len(S) THEN 0 ELSE Len(S) - 1 + 1
    BY ONLY <2>1, FS_Interval
  <2> QED BY <1>1, <2>2
<1>4. IsFiniteSet(Cell) /\ NIL \notin Cell /\ Node = Cell \cup {NIL}
  BY NodeFacts
<1>5. Cardinality(D) <= Cardinality(Cell)
  <2> HIDE DEF f
  <2> QED BY <1>2, <1>4, FS_Injection
<1>6. Cardinality(Node) = Cardinality(Cell) + 1 /\ Cardinality(Cell) \in Nat
  BY <1>4, FS_AddElement, FS_CardinalityType
<1> QED BY <1>1, <1>3, <1>5, <1>6

(* One step up a path is one step up the chain.                            *)
LEMMA StandAbove ==
  ASSUME StartOK, NEW S \in Seq(Entry), Chain(S),
         NEW h \in 2 .. (Len(S) + 1), S[h - 1].link # "element"
  PROVE  Above(Stand(S, h)) = Stand(S, h - 1) /\ Stand(S, h)[2] = S[h - 1].c
<1> DEFINE j == h - 1
           d == S[j].c
<1>1. Len(S) \in Nat /\ j \in 1 .. Len(S) /\ h = j + 1
  BY ChainCells
<1>2. S[j] \in Entry /\ d \in Cell /\ d # NULL
  <2>1. S[j] \in Entry
    BY <1>1
  <2> QED BY <2>1, NodeFacts DEF Entry
<1>3. Up(S, h) = d
  BY <1>1 DEF Up
<1>4. LinkOK(S, j)
  BY <1>1 DEF Chain
<1>5. Up(S, j) = IF atom[d] THEN car[d] ELSE cdr[d]
  BY <1>2, <1>4 DEF LinkOK, Entry
<1>6. Child(S, h - 2) = d
  BY <1>1 DEF Child
<1>7. Stand(S, h) = <<Child(S, j), d>> /\ Stand(S, h - 1) = <<d, Up(S, j)>>
  BY <1>1, <1>3, <1>6 DEF Stand
<1>8. Above(Stand(S, h)) = <<d, IF d = NULL THEN NULL
                                ELSE IF atom[d] THEN car[d] ELSE cdr[d]>>
  BY <1>7 DEF Above
<1> QED BY <1>2, <1>5, <1>7, <1>8

(* What the calls of mark have on the C stack is where they stand.         *)
LEMMA CallsStand ==
  ASSUME StartOK, Unswept, NEW S \in Seq(Entry), Chain(S), Nested(S), Running
  PROVE  /\ \A call \in Calls : \E h \in Stands(S) : <<call.p, call.t>> = Stand(S, h)
         /\ \A h \in Stands(S) : \E call \in Calls : <<call.p, call.t>> = Stand(S, h)
         /\ \A call \in Calls : call.p \in Node /\ call.t \in Link
<1> DEFINE Top1 == [p |-> p, t |-> t]
           Of(n) == [p |-> frames[n].p, t |-> frames[n].t]
<1>1. Calls = {Of(n) : n \in 1 .. Len(frames)} \cup {Top1}
  BY DEF Calls
<1>2. Len(S) \in Nat /\ Len(S) + 1 \in Stands(S)
  BY DEF Stands
<1>3. <<Top1.p, Top1.t>> = Stand(S, Len(S) + 1)
  BY <1>2 DEF Stand, Child, Chain
<1>4. ASSUME NEW j \in 1 .. Len(S), S[j].link = "element"
      PROVE  /\ S[j].n \in 1 .. Len(frames)
             /\ <<Of(S[j].n).p, Of(S[j].n).t>> = Stand(S, j)
  <2>1. LinkOK(S, j)
    BY DEF Chain
  <2>2. /\ S[j].n \in 1 .. Len(frames)
        /\ frames[S[j].n].p = S[j].c /\ frames[S[j].n].t = Up(S, j)
    BY <1>4, <2>1 DEF LinkOK
  <2>3. Child(S, j - 1) = S[j].c
    BY <1>2 DEF Child
  <2> QED BY <2>2, <2>3 DEF Stand
<1>5. Top1.p \in Node /\ Top1.t \in Link
  <2>1. p \in Node /\ t = Up(S, Len(S) + 1)
    BY DEF Chain
  <2>2. Up(S, Len(S) + 1) \in Link
    <3>1. \A j \in 1 .. Len(S) : S[j].c \in Cell
      BY ChainCells
    <3> QED BY <1>2, <3>1, NodeFacts DEF Up, Link
  <2> QED BY <2>1, <2>2
<1>6. ASSUME NEW n \in 1 .. Len(frames)  PROVE Of(n).p \in Node /\ Of(n).t \in Link
  <2>1. frames[n] \in WaitingCall
    BY DEF Unswept
  <2> QED BY <2>1, NodeFacts DEF WaitingCall, Link
<1>7. \A n \in 1 .. Len(frames) : \E j \in 1 .. Len(S) : S[j].link = "element" /\ S[j].n = n
  BY DEF Nested
<1>8. ASSUME NEW call \in Calls
      PROVE  \E h \in Stands(S) : <<call.p, call.t>> = Stand(S, h)
  <2>1. CASE call = Top1
    BY <1>2, <1>3, <2>1
  <2>2. CASE call # Top1
    <3>1. PICK n \in 1 .. Len(frames) : call = Of(n)
      BY <1>1, <2>2
    <3>2. PICK j \in 1 .. Len(S) : S[j].link = "element" /\ S[j].n = n
      BY <1>7
    <3>3. j \in Stands(S)
      BY <3>2 DEF Stands
    <3> HIDE DEF Of
    <3> QED BY <1>4, <3>1, <3>2, <3>3
  <2> QED BY <2>1, <2>2
<1>9. ASSUME NEW h \in Stands(S)
      PROVE  \E call \in Calls : <<call.p, call.t>> = Stand(S, h)
  <2>1. CASE h = Len(S) + 1
    BY <1>1, <1>3, <2>1
  <2>2. CASE h # Len(S) + 1
    <3>1. h \in 1 .. Len(S) /\ S[h].link = "element"
      BY <2>2 DEF Stands
    <3>2. /\ S[h].n \in 1 .. Len(frames)
          /\ <<Of(S[h].n).p, Of(S[h].n).t>> = Stand(S, h)
      BY <1>4, <3>1
    <3>3. Of(S[h].n) \in Calls
      BY <1>1, <3>2
    <3> HIDE DEF Of
    <3> QED BY <3>2, <3>3
  <2> QED BY <2>1, <2>2
<1>10. \A call \in Calls : call.p \in Node /\ call.t \in Link
  <2> HIDE DEF Of, Top1
  <2> QED BY <1>1, <1>5, <1>6
<1> QED BY <1>8, <1>9, <1>10

(* A path goes up the chain to the next element that waits, or to the root *)
(* of the graph, and no further.                                           *)
LEMMA WalkStays ==
  ASSUME StartOK, Unswept, NEW S \in Seq(Entry), Chain(S),
         NEW call, call.p \in Node, call.t \in Link,
         NEW h \in Stands(S), <<call.p, call.t>> = Stand(S, h)
  PROVE  \A n \in 0 .. Cardinality(Node) :
           \/ Walk(call)[n][2] = NULL
           \/ \E k \in 1 .. (Len(S) + 1) : Walk(call)[n] = Stand(S, k)
<1> DEFINE W == Walk(call)
           M == Cardinality(Node)
           Stays(n) == W[n][2] = NULL \/ \E k \in 1 .. (Len(S) + 1) : W[n] = Stand(S, k)
           Bad == {n \in 0 .. M : ~Stays(n)}
<1>1. /\ W[0] = Stand(S, h)
      /\ \A n \in 1 .. M : W[n] = Above(W[n - 1])
  BY WalkFacts
<1>2. M \in Nat /\ Len(S) \in Nat /\ Bad \subseteq Nat
  BY ChainLength
<1>3. SUFFICES ASSUME Bad # {}  PROVE FALSE
  OBVIOUS
<1> HIDE DEF W, M
<1>4. PICK m \in Bad : \A n \in Bad : m <= n
  <2> HIDE DEF Bad
  <2> QED BY <1>2, <1>3, Least
<1>5. m \in 0 .. M /\ m # 0
  <2>1. h \in 1 .. (Len(S) + 1)
    BY <1>2 DEF Stands
  <2> QED BY <1>1, <2>1
<1>6. m - 1 \in 0 .. M /\ Stays(m - 1) /\ m \in 1 .. M
  <2>1. m - 1 \in 0 .. M /\ m \in 1 .. M /\ ~ (m <= m - 1)
    BY <1>2, <1>5
  <2> QED BY <1>4, <2>1
<1>7. CASE W[m - 1][2] = NULL
  <2>1. Above(W[m - 1])[2] = NULL
    BY <1>7 DEF Above
  <2> QED BY <1>1, <1>6, <2>1
<1>8. CASE W[m - 1][2] # NULL
  <2>1. PICK k \in 1 .. (Len(S) + 1) : W[m - 1] = Stand(S, k)
    BY <1>6, <1>8
  <2>2. Up(S, k) # NULL
    BY <1>8, <2>1 DEF Stand
  <2>3. k \in 2 .. (Len(S) + 1) /\ S[k - 1].link # "element"
    BY <1>2, <2>2 DEF Up
  <2>4. W[m] = Stand(S, k - 1)
    BY <1>1, <1>6, <2>1, <2>3, StandAbove
  <2>5. k - 1 \in 1 .. (Len(S) + 1)
    BY <1>2, <2>3
  <2> QED BY <2>4, <2>5
<1> QED BY <1>7, <1>8

(* Each switched link is on the path of the call that came down over it.   *)
LEMMA WalkReaches ==
  ASSUME StartOK, Unswept, NEW S \in Seq(Entry), Chain(S),
         NEW call, call.p \in Node, call.t \in Link,
         NEW h \in Stands(S), <<call.p, call.t>> = Stand(S, h),
         NEW j \in Turned(S), j < h,
         \A k \in j .. (h - 1) : k \in Turned(S)
  PROVE  <<Child(S, j), S[j].c>> \in Path(call)
<1> DEFINE W == Walk(call)
           M == Cardinality(Node)
           Bad == {n \in 0 .. (h - j - 1) : W[n] # Stand(S, h - n)}
<1>1. /\ W[0] = Stand(S, h)
      /\ \A n \in 1 .. M : W[n] = Above(W[n - 1])
      /\ Path(call) = {W[n] : n \in 0 .. M} \cap (Node \X Node)
  BY WalkFacts
<1>2. /\ M \in Nat /\ Len(S) \in Nat /\ Len(S) < M
      /\ h \in 1 .. (Len(S) + 1) /\ j \in 1 .. Len(S)
      /\ h - j - 1 \in 0 .. M
  <2>1. M \in Nat /\ Len(S) \in Nat /\ Len(S) < M
    BY ChainLength
  <2>2. h \in 1 .. (Len(S) + 1) /\ j \in 1 .. Len(S)
    BY <2>1 DEF Stands, Turned
  <2> QED BY <2>1, <2>2
<1> HIDE DEF W, M
<1>3. ASSUME Bad # {}  PROVE FALSE
  <2>1. Bad \subseteq Nat
    BY <1>2
  <2>2. PICK m \in Bad : \A n \in Bad : m <= n
    <3> HIDE DEF Bad
    <3> QED BY <1>3, <2>1, Least
  <2>3. m \in 0 .. (h - j - 1) /\ m # 0
    BY <1>1, <1>2
  <2>4. m - 1 \in 0 .. (h - j - 1) /\ ~ (m <= m - 1)
    BY <1>2, <2>3
  <2>5. W[m - 1] = Stand(S, h - (m - 1))
    BY <2>2, <2>4
  <2> DEFINE k == h - (m - 1)
  <2>6. /\ k \in 2 .. (Len(S) + 1) /\ k - 1 \in j .. (h - 1) /\ k - 1 = h - m
        /\ m \in 1 .. M
    BY <1>2, <2>3
  <2>7. S[k - 1].link # "element"
    BY <2>6 DEF Turned
  <2> HIDE DEF k
  <2>8. Above(Stand(S, k)) = Stand(S, k - 1)
    BY <2>6, <2>7, StandAbove
  <2>9. W[m] = Stand(S, h - m)
    BY <1>1, <2>5, <2>6, <2>8 DEF k
  <2> QED BY <2>2, <2>9
<1>4. W[h - j - 1] = Stand(S, j + 1)
  <2>1. h - j - 1 \in 0 .. (h - j - 1) /\ h - (h - j - 1) = j + 1
    BY <1>2
  <2> QED BY <1>3, <2>1
<1>5. Stand(S, j + 1) = <<Child(S, j), S[j].c>>
  <2>1. j + 1 \in 2 .. (Len(S) + 1) /\ (j + 1) - 1 = j
    BY <1>2
  <2>2. S[j].link # "element"
    BY DEF Turned
  <2>3. Up(S, j + 1) = S[j].c
    <3>1. j \in Nat /\ j + 1 # 1
      BY <1>2
    <3> QED BY <2>1, <2>2, <3>1 DEF Up
  <2> QED BY <2>1, <2>3 DEF Stand
<1>6. Child(S, j) \in Node /\ S[j].c \in Node
  <2>1. \A k \in 1 .. Len(S) : S[k].c \in Node
    BY ChainCells, NodeFacts
  <2>2. p \in Node
    BY DEF Chain
  <2> QED BY <1>2, <2>1, <2>2 DEF Child
<1>7. W[h - j - 1] \in {W[n] : n \in 0 .. M}
  BY <1>2
<1>8. W[h - j - 1] \in Node \X Node
  BY <1>4, <1>5, <1>6
<1>9. W[h - j - 1] \in Path(call)
  BY <1>1, <1>7, <1>8
<1> QED BY <1>4, <1>5, <1>9

LEMMA SwitchedLinks ==
  ASSUME StartOK, Unswept, NEW S \in Seq(Entry), Chain(S), Nested(S), Running
  PROVE  Switched = Links(S)
<1>1. Len(S) \in Nat
  BY ChainCells
<1>2. ASSUME NEW s \in Switched  PROVE s \in Links(S)
  <2>1. PICK call \in Calls : s \in Path(call)
    BY DEF Switched
  <2>2. call.p \in Node /\ call.t \in Link
    BY CallsStand
  <2>3. PICK h \in Stands(S) : <<call.p, call.t>> = Stand(S, h)
    BY CallsStand
  <2>4. PICK n \in 0 .. Cardinality(Node) : s = Walk(call)[n] /\ s \in Node \X Node
    BY <2>1, <2>2, WalkFacts
  <2>5. s[2] # NULL
    BY <2>4, NodeFacts
  <2>6. PICK k \in 1 .. (Len(S) + 1) : s = Stand(S, k)
    BY <2>2, <2>3, <2>4, <2>5, WalkStays
  <2>7. Up(S, k) # NULL
    BY <2>5, <2>6 DEF Stand
  <2>8. k \in 2 .. (Len(S) + 1) /\ S[k - 1].link # "element" /\ Up(S, k) = S[k - 1].c
    BY <1>1, <2>7 DEF Up
  <2>9. k - 1 \in Turned(S)
    BY <1>1, <2>8 DEF Turned
  <2> QED BY <2>6, <2>8, <2>9 DEF Links, Stand
<1>3. ASSUME NEW j \in Turned(S)  PROVE <<Child(S, j), S[j].c>> \in Switched
  <2> DEFINE Later == {h \in Stands(S) : j < h}
  <2>1. j \in 1 .. Len(S)
    BY DEF Turned
  <2>2. Later \subseteq Nat /\ Len(S) + 1 \in Later
    BY <1>1, <2>1 DEF Stands
  <2>3. PICK h \in Later : \A k \in Later : h <= k
    <3> HIDE DEF Later
    <3> QED BY <2>2, Least
  <2>4. h \in Stands(S) /\ j < h /\ h \in 1 .. (Len(S) + 1)
    BY <1>1 DEF Stands
  <2>5. ASSUME NEW k \in j .. (h - 1)  PROVE k \in Turned(S)
    <3>1. k \in 1 .. Len(S) /\ ~ (h <= k)
      BY <1>1, <2>1, <2>4
    <3>2. k = j \/ k \notin Stands(S)
      <4>1. k # j => j < k
        BY <1>1, <2>1, <2>4, <3>1
      <4> QED BY <2>3, <3>1, <4>1
    <3> QED BY <3>1, <3>2 DEF Turned, Stands
  <2>6. PICK call \in Calls : <<call.p, call.t>> = Stand(S, h)
    BY <2>4, CallsStand
  <2>7. call.p \in Node /\ call.t \in Link
    BY CallsStand
  <2>8. <<Child(S, j), S[j].c>> \in Path(call)
    BY <2>4, <2>5, <2>6, <2>7, WalkReaches
  <2> QED BY <2>8 DEF Switched
<1>4. \A s \in Links(S) : s \in Switched
  BY <1>3 DEF Links
<1> QED BY <1>2, <1>4

(* At every step of the marking, whatever the graph: the links on the      *)
(* paths upwards are all that differs from the start, no cell is on two    *)
(* paths, and undoing them gives every field back.                         *)
THEOREM RecoverableTheorem == Spec => []Recoverable
<1>1. CollectorInv => Recoverable
  <2> SUFFICES ASSUME CollectorInv, Marking  PROVE Recoverable
    BY DEF Recoverable
  <2>1. StartOK /\ Unswept /\ AtLabel
    BY DEF CollectorInv, MarkingInv
  <2>2. PICK S \in Seq(Entry) : /\ Chain(S) /\ Nested(S)
                                /\ pc = "roots" => S = << >>
    BY DEF CollectorInv, MarkingInv, MarkingWith
  <2>3. Switched = Links(S)
    <3>1. CASE Running
      BY <2>1, <2>2, <3>1, SwitchedLinks
    <3>2. CASE ~Running
      <4>1. S = << >> /\ Len(S) = 0
        BY <2>2, <3>2 DEF Running, Marking
      <4>2. frames = << >>
        BY <2>1, <2>2, <4>1 DEF Nested, Depth, Unswept
      <4>3. Switched = {}
        BY <3>2, <4>2 DEF Switched, Calls
      <4>4. Links(S) = {}
        BY <4>1 DEF Links, Turned
      <4> QED BY <4>3, <4>4
    <3> QED BY <3>1, <3>2
  <2>4. \A j \in 1 .. Len(S) : S[j] \in Entry /\ LinkOK(S, j)
    BY <2>2 DEF Chain
  <2>5. \A j, k \in 1 .. Len(S) : S[j].c = S[k].c => j = k
    BY <2>2 DEF Chain
  <2>6. \A s \in Switched : \E j \in Turned(S) : s = <<Child(S, j), S[j].c>>
    BY <2>3 DEF Links
  <2>7. \A j \in Turned(S) : <<Child(S, j), S[j].c>> \in Switched
    BY <2>3 DEF Links
  <2>8. ASSUME NEW s1 \in Switched, NEW s2 \in Switched, s1[2] = s2[2]
        PROVE  s1 = s2
    <3>1. PICK j \in Turned(S) : s1 = <<Child(S, j), S[j].c>>
      BY <2>6
    <3>2. PICK k \in Turned(S) : s2 = <<Child(S, k), S[k].c>>
      BY <2>6
    <3>3. j = k
      BY <2>5, <2>8, <3>1, <3>2 DEF Turned
    <3> QED BY <3>1, <3>2, <3>3
  <2>9. ASSUME NEW j \in Turned(S), NEW b \in BOOLEAN, NEW field, atom[S[j].c] = b
        PROVE  Undone(S[j].c, b, field) = Child(S, j)
    <3>1. \A s \in Switched : s[2] = S[j].c <=> s = <<Child(S, j), S[j].c>>
      <4> DEFINE e == <<Child(S, j), S[j].c>>
      <4>1. e \in Switched /\ e[2] = S[j].c
        BY <2>7
      <4> HIDE DEF e
      <4>2. \A s \in Switched : s[2] = S[j].c <=> s = e
        BY <2>8, <4>1
      <4> QED BY <4>2 DEF e
    <3> DEFINE first == CHOOSE s \in Switched : s[2] = S[j].c
    <3>2. first = <<Child(S, j), S[j].c>>
      BY <2>7, <3>1
    <3>3. \E s \in Switched : s[2] = S[j].c /\ atom[S[j].c] = b
      BY <2>7, <2>9
    <3>4. Undone(S[j].c, b, field) = first[1]
      BY <3>3 DEF Undone
    <3> HIDE DEF first
    <3> QED BY <3>2, <3>4
  <2>10. ASSUME NEW c \in Node, NEW b \in BOOLEAN, NEW field,
                ~ \E j \in Turned(S) : S[j].c = c /\ atom[c] = b
         PROVE  Undone(c, b, field) = field
    <3>1. ~ \E s \in Switched : s[2] = c /\ atom[c] = b
      BY <2>6, <2>10
    <3> QED BY <3>1 DEF Undone
  <2>11. \A c \in Node : ~(\E j \in Turned(S) : S[j].c = c) => Kept(c)
    <3>1. \A c \in Node : c \in On(S) \/ Kept(c)
      BY <2>2 DEF Chain
    <3>2. \A j \in 1 .. Len(S) : j \in Turned(S) \/ Kept(S[j].c)
      BY <2>4 DEF LinkOK, Turned
    <3> QED BY <3>1, <3>2 DEF On
  <2>12. \A j \in Turned(S) :
           /\ S[j].c \in Node
           /\ \/ /\ atom[S[j].c] = TRUE
                 /\ start.car[S[j].c] = Child(S, j) /\ cdr[S[j].c] = start.cdr[S[j].c]
              \/ /\ atom[S[j].c] = FALSE
                 /\ start.cdr[S[j].c] = Child(S, j) /\ car[S[j].c] = start.car[S[j].c]
    <3> SUFFICES ASSUME NEW j \in Turned(S)
                 PROVE  /\ S[j].c \in Node
                        /\ \/ /\ atom[S[j].c] = TRUE
                              /\ start.car[S[j].c] = Child(S, j)
                              /\ cdr[S[j].c] = start.cdr[S[j].c]
                           \/ /\ atom[S[j].c] = FALSE
                              /\ start.cdr[S[j].c] = Child(S, j)
                              /\ car[S[j].c] = start.car[S[j].c]
      OBVIOUS
    <3>1. S[j] \in Entry /\ LinkOK(S, j) /\ S[j].link # "element"
      BY <2>4 DEF Turned
    <3>2. S[j].c \in Cell /\ S[j].link \in {"car", "cdr"}
      BY <3>1 DEF Entry
    <3>3. S[j].c \in Node /\ atom[S[j].c] \in BOOLEAN
      BY <2>1, <3>2, NodeFacts DEF Unswept
    <3> QED BY <3>1, <3>2, <3>3 DEF LinkOK
  <2>13. ASSUME NEW c \in Node
         PROVE  /\ Undone(c, TRUE, car[c]) = start.car[c]
                /\ Undone(c, FALSE, cdr[c]) = start.cdr[c]
    <3>1. CASE \E j \in Turned(S) : S[j].c = c
      <4>1. PICK j \in Turned(S) : S[j].c = c
        BY <3>1
      <4>2. \A k \in Turned(S) : S[k].c = c => k = j
        BY <2>5, <4>1 DEF Turned
      <4>3. CASE atom[c] = TRUE
        <5>1. start.car[c] = Child(S, j) /\ cdr[c] = start.cdr[c]
          BY <2>12, <4>1, <4>3
        <5>2. Undone(c, TRUE, car[c]) = Child(S, j)
          BY <2>9, <4>1, <4>3
        <5>3. Undone(c, FALSE, cdr[c]) = cdr[c]
          BY <2>10, <4>3
        <5> QED BY <5>1, <5>2, <5>3
      <4>4. CASE atom[c] = FALSE
        <5>1. start.cdr[c] = Child(S, j) /\ car[c] = start.car[c]
          BY <2>12, <4>1, <4>4
        <5>2. Undone(c, FALSE, cdr[c]) = Child(S, j)
          BY <2>9, <4>1, <4>4
        <5>3. Undone(c, TRUE, car[c]) = car[c]
          BY <2>10, <4>4
        <5> QED BY <5>1, <5>2, <5>3
      <4> QED BY <2>12, <4>1, <4>3, <4>4
    <3>2. CASE ~ \E j \in Turned(S) : S[j].c = c
      <4>1. Kept(c)
        BY <2>11, <3>2
      <4>2. Undone(c, TRUE, car[c]) = car[c] /\ Undone(c, FALSE, cdr[c]) = cdr[c]
        BY <2>10, <3>2
      <4> QED BY <4>1, <4>2 DEF Kept
    <3> QED BY <3>1, <3>2
  <2>14. ASSUME NEW c \in Node, atom[c] # (c = NIL \/ kind[c] = "vector")
         PROVE  \E s \in Switched : s[2] = c
    <3>1. CASE \E j \in Turned(S) : S[j].c = c
      BY <2>7, <3>1
    <3>2. CASE ~ \E j \in Turned(S) : S[j].c = c
      <4>1. atom[c] = (c = NIL \/ IsVector(c))
        BY <2>11, <3>2 DEF Kept
      <4>2. (c = NIL \/ IsVector(c)) <=> (c = NIL \/ kind[c] = "vector")
        BY <2>1, NodeFacts DEF Unswept, IsVector
      <4> QED BY <2>14, <4>1, <4>2
    <3> QED BY <3>1, <3>2
  <2> QED BY <2>8, <2>13, <2>14 DEF Recoverable
<1> QED BY <1>1, CollectorInvariant, PTL

=============================================================================
