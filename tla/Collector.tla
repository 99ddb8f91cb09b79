----------------------------- MODULE Collector -----------------------------
(***************************************************************************)
(* One collection of scheme.c, step by step: gc marks from each root with  *)
(* the link-inversion algorithm of mark, then sweeps the cells downwards.  *)
(* Module Heap takes the whole of it as one step, gc; here that step is    *)
(* implemented (ImplementsGc).                                             *)
(*                                                                         *)
(* On its way down mark keeps no stack: the car or the cdr it followed     *)
(* points back up to the cell it came from (t), and the atom flag of a     *)
(* pair says that it is the car.  Only for the elements of a vector does   *)
(* mark call itself, on the cells behind the vector's head; frames is the  *)
(* C stack of these calls.  The control points are the labels of the code. *)
(***************************************************************************)
EXTENDS Integers, FiniteSets, Sequences

CONSTANTS
  SegSize, SegBase,   \* the segments, as in Heap; all of them are in use
  NRoots,             \* bound: how many pointers gc marks from
  Layouts             \* bound: where vectors and free cells lie at the start,
                      \* and how many of the pointers may be other than NIL

NIL  == 0
NULL == -2            \* the null pointer of C, which ends a chain

Cell == UNION {b .. (b + SegSize - 1) : b \in SegBase}
Node == Cell \cup {NIL}

ASSUME CollectorAssumption ==
  /\ SegSize \in Nat \ {0}
  /\ SegBase \subseteq Nat \ {0} /\ SegBase # {}
  /\ IsFiniteSet(SegBase)
  /\ \A b1, b2 \in SegBase : b1 < b2 => b1 + SegSize < b2
  /\ NRoots \in Nat
  /\ Layouts \subseteq [len : [Cell -> Nat], vectors : SUBSET Cell,
                        free : SUBSET Cell, roots : 0 .. NRoots]

(* As the allocator leaves them (VectorsIntact of module Heap): the cells  *)
(* behind a vector look like pairs, and no two vectors share any.          *)
ASSUME LayoutAssumption ==
  \A L \in Layouts :
    LET Body(v) == (v + 1) .. (v + L.len[v])
    IN  /\ L.vectors \cap L.free = {}
        /\ \A v \in L.vectors : Body(v) \subseteq Cell \ (L.vectors \cup L.free)
        /\ \A v, w \in L.vectors : v # w => Body(v) \cap Body(w) = {}

VARIABLES
  kind,        \* kind[c]: "free", "pair" or "vector" (any atom is one of len 0)
  len,
  car, cdr,
  atom, mark,  \* the flags T_ATOM and MARK
  pc,          \* the label mark has reached, or where gc is
  p, t, i,     \* the variables of the running call of mark
  frames,      \* p, t and i of the calls of mark that wait for it
  todo,        \* the roots gc has still to mark
  scan,        \* the cells gc has still to sweep
  free_cell, fcells,
  start        \* kind, len, car, cdr and roots when the collection began

flags == <<atom, mark>>
links == <<car, cdr>>
mine  == <<p, t, i, frames>>
sweeping == <<kind, len, scan, free_cell, fcells>>
vars  == <<kind, len, links, flags, pc, mine, todo, scan, free_cell, fcells,
           start>>

Top(S) == CHOOSE c \in S : \A d \in S : d <= c
Low(S) == IF S = {} THEN NIL ELSE CHOOSE c \in S : \A d \in S : c <= d

---------------------------------------------------------------------------
(* The heap a collection starts from: any pointers between the objects of  *)
(* a layout, the free list in address order.                               *)
Init ==
  \E L \in Layouts, nilMarked \in BOOLEAN :
    LET Bodies  == UNION {(v + 1) .. (v + L.len[v]) : v \in L.vectors}
        Pairs   == Cell \ (L.vectors \cup L.free)
        Objects == (Cell \ (L.free \cup Bodies)) \cup {NIL}
    IN  /\ kind = [c \in Cell |-> IF c \in L.free THEN "free"
                                  ELSE IF c \in L.vectors THEN "vector"
                                  ELSE "pair"]
        /\ len = L.len
        /\ \E a, d \in [Pairs -> Objects], r \in [1 .. L.roots -> Objects] :
             /\ car = [c \in Node |-> IF c \in Pairs THEN a[c] ELSE NIL]
             /\ cdr = [c \in Node |-> IF c \in Pairs THEN d[c]
                                      ELSE IF c \in L.free
                                      THEN Low({e \in L.free : e > c})
                                      ELSE NIL]
             /\ todo = [j \in 1 .. NRoots |-> IF j <= L.roots THEN r[j] ELSE NIL]
        /\ free_cell = Low(L.free)
        /\ fcells = Cardinality(L.free)
        /\ atom = [c \in Node |-> c \in L.vectors \cup {NIL}]
        /\ mark = [c \in Node |-> c = NIL /\ nilMarked]
        /\ pc = "roots"
        /\ p = NIL /\ t = NULL /\ i = 0 /\ frames = << >>
        /\ scan = Cell
        /\ start = [kind |-> kind, len |-> len, car |-> car, cdr |-> cdr,
                    roots |-> todo]

---------------------------------------------------------------------------
(* mark.                                                                   *)

is_vector(c) == c # NIL /\ kind[c] = "vector"

CallMark(a) == /\ p' = a
               /\ t' = NULL
               /\ i' = 0
               /\ pc' = "E2"

MarkRoot ==
  /\ pc = "roots"
  /\ todo # << >>
  /\ CallMark(Head(todo))
  /\ todo' = Tail(todo)
  /\ UNCHANGED <<links, flags, frames, sweeping, start>>

(* Fault: a vector is not marked before its elements are.                 *)
E2MarksLate ==
  /\ pc = "E2"
  /\ mark' = [mark EXCEPT ![p] = ~is_vector(p)]
  /\ i' = 0
  /\ pc' = IF is_vector(p) THEN "elements" ELSE IF atom[p] THEN "E6" ELSE "E4"
  /\ UNCHANGED <<links, atom, p, t, frames, todo, sweeping, start>>

E2 ==
  /\ pc = "E2"
  /\ mark' = [mark EXCEPT ![p] = TRUE]
  /\ i' = 0
  /\ pc' = IF is_vector(p) THEN "elements" ELSE IF atom[p] THEN "E6" ELSE "E4"
  /\ UNCHANGED <<links, atom, p, t, frames, todo, sweeping, start>>

(* mark(p+1+i) for each cell that holds elements of the vector p.          *)
MarkElement ==
  /\ pc = "elements"
  /\ i < len[p]
  /\ frames' = Append(frames, [p |-> p, t |-> t, i |-> i])
  /\ CallMark(p + 1 + i)
  /\ UNCHANGED <<links, flags, todo, sweeping, start>>

ElementsDone ==
  /\ pc = "elements"
  /\ i = len[p]
  /\ pc' = IF atom[p] THEN "E6" ELSE "E4"
  /\ UNCHANGED <<links, flags, mine, todo, sweeping, start>>

Follow(q) == q # NULL /\ ~mark[q]

(* Fault: no note is made that the car has been switched.                 *)
E4downUnnoted ==
  /\ pc = "E4"
  /\ Follow(car[p])
  /\ car' = [car EXCEPT ![p] = t]
  /\ t' = p
  /\ p' = car[p]
  /\ pc' = "E2"
  /\ UNCHANGED <<cdr, flags, i, frames, todo, sweeping, start>>

E4down ==
  /\ pc = "E4"
  /\ Follow(car[p])
  /\ atom' = [atom EXCEPT ![p] = TRUE]
  /\ car' = [car EXCEPT ![p] = t]
  /\ t' = p
  /\ p' = car[p]
  /\ pc' = "E2"
  /\ UNCHANGED <<cdr, mark, i, frames, todo, sweeping, start>>

E5down ==
  /\ pc = "E5"
  /\ Follow(cdr[p])
  /\ cdr' = [cdr EXCEPT ![p] = t]
  /\ t' = p
  /\ p' = cdr[p]
  /\ pc' = "E2"
  /\ UNCHANGED <<car, flags, i, frames, todo, sweeping, start>>

Pass ==
  /\ \/ pc = "E4" /\ ~Follow(car[p]) /\ pc' = "E5"
     \/ pc = "E5" /\ ~Follow(cdr[p]) /\ pc' = "E6"
  /\ UNCHANGED <<links, flags, mine, todo, sweeping, start>>

E6fromCar ==
  /\ pc = "E6"
  /\ t # NULL
  /\ atom[t]
  /\ atom' = [atom EXCEPT ![t] = FALSE]
  /\ t' = car[t]
  /\ car' = [car EXCEPT ![t] = p]
  /\ p' = t
  /\ pc' = "E5"
  /\ UNCHANGED <<cdr, mark, i, frames, todo, sweeping, start>>

E6fromCdr ==
  /\ pc = "E6"
  /\ t # NULL
  /\ ~atom[t]
  /\ t' = cdr[t]
  /\ cdr' = [cdr EXCEPT ![t] = p]
  /\ p' = t
  /\ UNCHANGED <<car, flags, pc, i, frames, todo, sweeping, start>>

(* Fault: the caller goes on with the element it has just marked.         *)
E6returnSameElement ==
  /\ pc = "E6"
  /\ t = NULL
  /\ IF frames = << >>
     THEN pc' = "roots" /\ UNCHANGED mine
     ELSE LET caller == frames[Len(frames)]
          IN  /\ p' = caller.p
              /\ t' = caller.t
              /\ i' = caller.i
              /\ frames' = SubSeq(frames, 1, Len(frames) - 1)
              /\ pc' = "elements"
  /\ UNCHANGED <<links, flags, todo, sweeping, start>>

E6return ==
  /\ pc = "E6"
  /\ t = NULL
  /\ IF frames = << >>
     THEN pc' = "roots" /\ UNCHANGED mine
     ELSE LET caller == frames[Len(frames)]
          IN  /\ p' = caller.p
              /\ t' = caller.t
              /\ i' = caller.i + 1
              /\ frames' = SubSeq(frames, 1, Len(frames) - 1)
              /\ pc' = "elements"
  /\ UNCHANGED <<links, flags, todo, sweeping, start>>

---------------------------------------------------------------------------
(* The second half of gc.                                                  *)

(* Fault: the old free list is kept in front of the new one.              *)
StartSweepKeepsList ==
  /\ pc = "roots"
  /\ todo = << >>
  /\ mark' = [mark EXCEPT ![NIL] = FALSE]
  /\ fcells' = 0
  /\ pc' = "sweep"
  /\ UNCHANGED <<kind, len, links, atom, mine, todo, scan, free_cell, start>>

StartSweep ==
  /\ pc = "roots"
  /\ todo = << >>
  /\ mark' = [mark EXCEPT ![NIL] = FALSE]
  /\ fcells' = 0
  /\ free_cell' = NIL
  /\ pc' = "sweep"
  /\ UNCHANGED <<kind, len, links, atom, mine, todo, scan, start>>

SweepCell ==
  /\ pc = "sweep"
  /\ LET c == Top(scan)
     IN  /\ scan' = scan \ {c}
         /\ pc' = IF scan = {c} THEN "done" ELSE "sweep"
         /\ IF mark[c]
            THEN /\ mark' = [mark EXCEPT ![c] = FALSE]
                 /\ UNCHANGED <<kind, len, links, atom, free_cell, fcells>>
            ELSE /\ kind' = [kind EXCEPT ![c] = "free"]
                 /\ len' = [len EXCEPT ![c] = 0]
                 /\ atom' = [atom EXCEPT ![c] = FALSE]
                 /\ car' = IF kind[c] = "free" THEN car
                           ELSE [car EXCEPT ![c] = NIL]
                 /\ cdr' = [cdr EXCEPT ![c] = free_cell]
                 /\ free_cell' = c
                 /\ fcells' = fcells + 1
                 /\ UNCHANGED mark
  /\ UNCHANGED <<mine, todo, start>>

Next == \/ MarkRoot \/ E2 \/ MarkElement \/ ElementsDone
        \/ E4down \/ E5down \/ Pass
        \/ E6fromCar \/ E6fromCdr \/ E6return
        \/ StartSweep \/ SweepCell

Spec == Init /\ [][Next]_vars

(* The collector runs to its end before anything else does.                *)
FairSpec == Spec /\ WF_vars(Next)

---------------------------------------------------------------------------
(* Properties.                                                             *)

Marking == pc \notin {"sweep", "done"}
Running == pc \notin {"roots", "sweep", "done"}

Calls == {[p |-> frames[n].p, t |-> frames[n].t] : n \in 1 .. Len(frames)}
         \cup (IF Running THEN {[p |-> p, t |-> t]} ELSE {})

(* The path of a call upwards: <<c, d>> says that d's switched link led    *)
(* down to c.                                                              *)
Path(call) ==
  LET up[n \in 0 .. Cardinality(Node)] ==
        IF n = 0 THEN <<call.p, call.t>>
        ELSE LET above == up[n - 1][2]
             IN  <<above, IF above = NULL THEN NULL
                          ELSE IF atom[above] THEN car[above] ELSE cdr[above]>>
  IN  {up[n] : n \in 0 .. Cardinality(Node)} \cap (Node \X Node)

Switched == UNION {Path(call) : call \in Calls}

(* The cell d's switched link led to, or what the field holds.             *)
Undone(d, inCar, field) ==
  IF \E s \in Switched : s[2] = d /\ atom[d] = inCar
  THEN (CHOOSE s \in Switched : s[2] = d)[1]
  ELSE field

(* At every step of the marking the program's graph can be had back: the   *)
(* links that point upwards, of the running call and of those that wait,   *)
(* are all the links and atom flags that differ, no cell is on two paths,  *)
(* and undoing them gives the car, the cdr and the flag of every cell as   *)
(* they were.  Between two roots nothing differs at all.                   *)
Recoverable ==
  Marking =>
    /\ \A s1, s2 \in Switched : s1[2] = s2[2] => s1 = s2
    /\ \A c \in Node :
         /\ Undone(c, TRUE, car[c]) = start.car[c]
         /\ Undone(c, FALSE, cdr[c]) = start.cdr[c]
         /\ atom[c] # (c = NIL \/ kind[c] = "vector") =>
              \E s \in Switched : s[2] = c

(* mark calls itself for the elements of a vector at most once at a time:  *)
(* the C stack is bounded by the number of vectors.                        *)
EachVectorOnce ==
  \A m, n \in 1 .. Len(frames) : frames[m].p = frames[n].p => m = n

(* The collection in the terms of module Heap, which sees it in one step.  *)
Now(new, old) == IF pc = "done" THEN new ELSE old
H == INSTANCE Heap WITH
  NSegment <- Cardinality(SegBase), FirstSegs <- SegBase, MinYield <- 0,
  Regs <- 1 .. NRoots, MaxVec <- 0, MaxLocal <- 0, Edited <- {},
  kind <- Now(kind, start.kind),
  len <- Now(len, start.len),
  car <- [c \in Cell \cup {-1} |->
            IF c = -1 THEN NIL ELSE Now(car[c], start.car[c])],
  cdr <- [c \in Cell \cup {-1} |->
            IF c = -1 THEN NIL ELSE Now(cdr[c], start.cdr[c])],
  free_cell <- Now(free_cell, Low({c \in Cell : start.kind[c] = "free"})),
  fcells <- Now(fcells, Cardinality({c \in Cell : start.kind[c] = "free"})),
  segs <- SegBase,
  no_memory <- FALSE,
  reg <- start.roots,
  local <- {},
  call <- [fn |-> "none", a |-> NIL, b |-> NIL, n |-> 0, x |-> NIL,
           stage |-> "take"]

(* The collection has the effect of Heap's gc: it frees the cells the      *)
(* roots do not reach and no other, changes nothing of those they do, and  *)
(* leaves the free list in address order.  No mark is left behind, which   *)
(* the next collection relies on.                                          *)
ImplementsGc ==
  [][pc' = "done" => H!gc /\ \A c \in Cell : ~mark'[c]]_vars

(* The collection comes to its end, however the graph is wound.            *)
Terminates == <>(pc = "done")

===========================================================================
