------------------------------- MODULE Heap -------------------------------
(***************************************************************************)
(* The cell allocator and the garbage collector of scheme.c, driven by an  *)
(* interpreter that runs one opcode after another.                         *)
(*                                                                         *)
(* Memory is a set of addresses.  A segment is SegSize consecutive cells;  *)
(* malloc places a segment at any unused base address, or fails.  Free     *)
(* cells are threaded through cdr from free_cell.  Cells that an opcode    *)
(* has allocated and not yet stored anywhere are kept alive by a list that *)
(* hangs off the car of the static cell `sink', itself made of heap cells. *)
(*                                                                         *)
(* An allocation is modelled step by step (variable call is the C stack of *)
(* the allocator): each test of the free list, each collection and each    *)
(* attempt to get a segment is a step.  A collection is one step here;     *)
(* module Collector has its steps and implements this one.                 *)
(***************************************************************************)
EXTENDS Integers, FiniteSets

CONSTANTS
  SegSize,      \* CELL_SEGSIZE, cells in a segment
  SegBase,      \* the addresses at which malloc may place a segment
  NSegment,     \* CELL_NSEGMENT, the most segments there can be
  FirstSegs,    \* the bases of the FIRST_CELLSEGS segments made at start-up
  MinYield,     \* the 8 of min_to_be_recovered = last_cell_seg*8
  Regs,         \* the registers the collector marks: args, envir, code, ...
  MaxVec,       \* bound: the most cells a vector's elements take up
  MaxLocal,     \* bound: the most pointers an opcode's C variables keep
  Edited        \* bound: the fields, "car" or "cdr", that opcodes overwrite

NIL  == 0
SINK == -1

(* A segment is followed by at least one address that is not a cell: the   *)
(* allocation is adj bytes longer than its cells.                          *)
ASSUME HeapAssumption ==
  /\ SegSize \in Nat \ {0}
  /\ SegBase \subseteq Nat \ {0}
  /\ IsFiniteSet(SegBase)
  /\ \A b1, b2 \in SegBase : b1 < b2 => b1 + SegSize < b2
  /\ NSegment \in Nat
  /\ FirstSegs \subseteq SegBase
  /\ FirstSegs # {}
  /\ Cardinality(FirstSegs) <= NSegment
  /\ MinYield \in Nat
  /\ MaxVec \in Nat

Segment(b) == b .. (b + SegSize - 1)
Cell       == UNION {Segment(b) : b \in SegBase}
Mem        == Cell \cup {SINK}
Ptr        == Mem \cup {NIL}

VARIABLES
  kind,       \* kind[c]: "absent", "free" (typeflag 0), "pair" or "vector"
  len,        \* len[c]: how many cells after c hold the elements of vector c
  car, cdr,   \* the pointers of a cell, and of sink
  segs,       \* the bases of the segments in cell_seg
  free_cell,  \* first cell of the free list
  fcells,     \* number of free cells
  no_memory,
  reg,        \* the values of the registers
  local,      \* what the running opcode has allocated and holds in C variables
  call        \* the allocator call in progress

vars == <<kind, len, car, cdr, segs, free_cell, fcells, no_memory,
          reg, local, call>>

memory    == <<kind, len, car, cdr>>
freeList  == <<free_cell, fcells>>

Idle == [fn |-> "none", a |-> NIL, b |-> NIL, n |-> 0, x |-> NIL,
         stage |-> "take"]

Call == [fn : {"none", "get_cell", "hold_cons", "hold", "get_vector_object"},
         a : Ptr, b : Ptr, n : Nat, x : Ptr,
         stage : {"take", "collected", "ready"}]

---------------------------------------------------------------------------
(* Cells in use and what can be reached from them.                         *)

Free  == {c \in Cell : kind[c] = "free"}
InUse == {c \in Cell : kind[c] \in {"pair", "vector"}} \cup {SINK, NIL}

Lowest(S) == CHOOSE c \in S : \A d \in S : c <= d

IsPair(p) == p = SINK \/ (p \in Cell /\ kind[p] = "pair")

(* What mark(p) goes on to mark from p.                                    *)
Succ(p) ==
  IF p = NIL THEN {}
  ELSE IF p = SINK \/ kind[p] = "pair" THEN {car[p], cdr[p]}
  ELSE IF kind[p] = "vector" THEN (p + 1) .. (p + len[p])
  ELSE {}

Closed(S) == \A p \in S : Succ(p) \subseteq S

(* The cells mark reaches from the pointers R.                             *)
Reach(R) ==
  LET closures == {S \in SUBSET InUse : R \subseteq S /\ Closed(S)}
  IN  {p \in InUse : \A S \in closures : p \in S}

Recent == car[SINK]

Registers == {reg[r] : r \in Regs}

(* Fault: gc is called without the cells its caller still needs.           *)
ExtraForgotten == {}

(* The extra cells the allocator's caller asks the collector to mark.      *)
Extra == CASE call.fn = "get_cell"              -> {call.a, call.b}
           [] call.fn \in {"hold_cons", "hold"} -> {call.x}
           [] OTHER                             -> {}

(* Fault: gc does not mark car(sink), the recent list.                     *)
MarkedWithoutRecent == Reach(Registers \cup Extra)

Marked == Reach(Registers \cup {Recent} \cup Extra)

---------------------------------------------------------------------------
(* The sweep of gc: thread the dead cells on the free list, in address      *)
(* order, and leave the marked ones alone.                                 *)
First(S) == IF S = {} THEN NIL ELSE Lowest(S)

(* Fault: only cells that were in use are counted, not those already free. *)
SweepCountsReclaimed(dead) ==
  /\ kind' = [c \in Cell |-> IF c \in dead THEN "free" ELSE kind[c]]
  /\ len'  = [c \in Cell |-> IF c \in dead THEN 0 ELSE len[c]]
  /\ car'  = [p \in Mem |-> IF p \in dead THEN NIL ELSE car[p]]
  /\ cdr'  = [p \in Mem |-> IF p \in dead THEN First({d \in dead : d > p})
                            ELSE cdr[p]]
  /\ free_cell' = First(dead)
  /\ fcells' = Cardinality(dead \ Free)

Sweep(dead) ==
  /\ kind' = [c \in Cell |-> IF c \in dead THEN "free" ELSE kind[c]]
  /\ len'  = [c \in Cell |-> IF c \in dead THEN 0 ELSE len[c]]
  /\ car'  = [p \in Mem |-> IF p \in dead THEN NIL ELSE car[p]]
  /\ cdr'  = [p \in Mem |-> IF p \in dead THEN First({d \in dead : d > p})
                            ELSE cdr[p]]
  /\ free_cell' = First(dead)
  /\ fcells' = Cardinality(dead)

gc == Sweep((UNION {Segment(b) : b \in segs}) \ Marked)

(* alloc_cellseg(sc,1) when malloc places the segment at b: in front of    *)
(* the free list, or behind the first cell whose successor is not below b. *)
(* Fault: every new segment goes in front of the free list.                *)
InFrontAlways(b) == TRUE

(* Fault: a new segment goes behind the last free cell, wherever it lies.  *)
BehindLast(b) == Lowest({p \in Free : cdr[p] = NIL})

InFront(b) == free_cell = NIL \/ b + SegSize < free_cell
Behind(b)  == Lowest({p \in Free : cdr[p] = NIL \/ ~(b > cdr[p])})

alloc_cellseg(b) ==
  LET last == b + SegSize - 1
  IN  /\ Cardinality(segs) < NSegment
      /\ b \in SegBase \ segs
      /\ segs' = segs \cup {b}
      /\ fcells' = fcells + SegSize
      /\ kind' = [c \in Cell |-> IF c \in Segment(b) THEN "free" ELSE kind[c]]
      /\ car'  = [p \in Mem |-> IF p \in Segment(b) THEN NIL ELSE car[p]]
      /\ cdr'  = [p \in Mem |->
                    IF p = last
                      THEN IF InFront(b) THEN free_cell ELSE cdr[Behind(b)]
                    ELSE IF p \in Segment(b) THEN p + 1
                    ELSE IF ~InFront(b) /\ p = Behind(b) THEN b
                    ELSE cdr[p]]
      /\ free_cell' = IF InFront(b) THEN b ELSE free_cell
      /\ UNCHANGED len

---------------------------------------------------------------------------
(* get_cell_x and _get_cell.                                               *)

WantsCell == call.fn \in {"get_cell", "hold_cons", "hold"}

(* get_cell_x returns x: get_cell records it as a pair and goes on to      *)
(* push_recent_alloc, which links its holder x in front of the recent list *)
(* (and _cons then stores the two fields of the new pair once more).       *)
Deliver(x, cdr0) ==
  IF call.fn = "get_cell"
  THEN /\ kind' = IF x = SINK THEN kind ELSE [kind EXCEPT ![x] = "pair"]
       /\ car'  = [car EXCEPT ![x] = call.a]
       /\ cdr'  = [cdr0 EXCEPT ![x] = call.b]
       /\ call' = [call EXCEPT !.fn = "hold_cons", !.x = x, !.stage = "take"]
       /\ UNCHANGED <<len, local>>
  ELSE LET recent == call.x
           cars == [car EXCEPT ![x] = recent, ![SINK] = x]
           cdrs == [cdr0 EXCEPT ![x] = IF x = SINK THEN recent ELSE Recent]
       IN  /\ kind' = IF x = SINK THEN kind ELSE [kind EXCEPT ![x] = "pair"]
           /\ IF call.fn = "hold_cons"
              THEN /\ car' = [cars EXCEPT ![recent] = call.a]
                   /\ cdr' = [cdrs EXCEPT ![recent] = call.b]
              ELSE car' = cars /\ cdr' = cdrs
           /\ local' = local \cup {recent}
           /\ call' = Idle
           /\ UNCHANGED len

MinRecovered == (Cardinality(segs) - 1) * MinYield

Enough == free_cell # NIL /\ fcells >= MinRecovered

PopFree ==
  /\ WantsCell
  /\ free_cell # NIL
  /\ \/ call.stage \in {"take", "ready"}
     \/ call.stage = "collected" /\ Enough
  /\ free_cell' = cdr[free_cell]
  /\ fcells' = fcells - 1
  /\ Deliver(free_cell, cdr)
  /\ UNCHANGED <<segs, no_memory, reg>>

(* Fault: the sink is handed out when few cells, not none, were recovered. *)
DeliverSinkEarly ==
  /\ WantsCell
  /\ \/ call.stage = "take" /\ no_memory
     \/ call.stage = "collected" /\ ~Enough
  /\ no_memory' = TRUE
  /\ Deliver(SINK, cdr)
  /\ UNCHANGED <<segs, freeList, reg>>

DeliverSink ==
  /\ WantsCell
  /\ free_cell = NIL
  /\ \/ call.stage = "take" /\ no_memory
     \/ call.stage = "collected"
  /\ no_memory' = TRUE
  /\ Deliver(SINK, cdr)
  /\ UNCHANGED <<segs, freeList, reg>>

(* The collection that an exhausted free list, or a free list without a    *)
(* long enough run of cells, brings about.                                 *)
(* Fault: whether the last cell of the run is free is not looked at.       *)
FitsButLast(x, n) == x .. (x + n - 1) \subseteq Cell
                     /\ x .. (x + n - 2) \subseteq Free

Fits(x, n) == /\ x .. (x + n - 1) \subseteq Free
              /\ \A c \in x .. (x + n - 2) : cdr[c] = c + 1
Runs(n)    == {x \in Free : Fits(x, n)}

(* Fault: after the collection the search starts all over again.           *)
CollectAgain ==
  /\ call.stage = "take"
  /\ ~no_memory
  /\ \/ WantsCell /\ free_cell = NIL
     \/ call.fn = "get_vector_object" /\ Runs(call.n) = {}
  /\ gc
  /\ UNCHANGED <<segs, no_memory, reg, local, call>>

Collect ==
  /\ call.stage = "take"
  /\ ~no_memory
  /\ \/ WantsCell /\ free_cell = NIL
     \/ call.fn = "get_vector_object" /\ Runs(call.n) = {}
  /\ gc
  /\ call' = [call EXCEPT !.stage = "collected"]
  /\ UNCHANGED <<segs, no_memory, reg, local>>

StillShort == \/ WantsCell /\ ~Enough
              \/ call.fn = "get_vector_object" /\ Runs(call.n) = {}

Grow ==
  /\ call.stage = "collected"
  /\ StillShort
  /\ \E b \in SegBase : alloc_cellseg(b)
  /\ call' = [call EXCEPT !.stage = "ready"]
  /\ UNCHANGED <<no_memory, reg, local>>

(* alloc_cellseg returns 0, and the few cells the collection recovered     *)
(* have to do.                                                             *)
GrowFails ==
  /\ call.stage = "collected"
  /\ WantsCell
  /\ ~Enough
  /\ free_cell # NIL
  /\ call' = [call EXCEPT !.stage = "ready"]
  /\ UNCHANGED <<memory, segs, freeList, no_memory, reg, local>>

---------------------------------------------------------------------------
(* get_consecutive_cells and get_vector_object.                            *)

Rest(x, n) == cdr[x + n - 1]

TakeRun(x, n) ==
  LET body == (x + 1) .. (x + n - 1)
  IN  /\ free_cell' = IF x = free_cell THEN Rest(x, n) ELSE free_cell
      /\ fcells' = fcells - n
      /\ kind' = [c \in Cell |-> IF c = x THEN "vector"
                                 ELSE IF c \in body THEN "pair" ELSE kind[c]]
      /\ len' = [len EXCEPT ![x] = n - 1]
      /\ car' = [p \in Mem |-> IF p \in body THEN NIL ELSE car[p]]
      /\ cdr' = [p \in Mem |-> IF p \in body \cup {x} THEN NIL
                               ELSE IF p \in Free /\ cdr[p] = x THEN Rest(x, n)
                               ELSE cdr[p]]
      /\ call' = [Idle EXCEPT !.fn = "hold", !.x = x]
      /\ UNCHANGED <<segs, no_memory, reg, local>>

FindRun ==
  /\ call.fn = "get_vector_object"
  /\ ~no_memory
  /\ Runs(call.n) # {}
  /\ TakeRun(Lowest(Runs(call.n)), call.n)

NoRun ==
  /\ call.fn = "get_vector_object"
  /\ \/ call.stage = "take" /\ no_memory
     \/ call.stage \in {"collected", "ready"} /\ Runs(call.n) = {}
  /\ no_memory' = TRUE
  /\ local' = local \cup {SINK}
  /\ call' = Idle
  /\ UNCHANGED <<memory, segs, freeList, reg>>

---------------------------------------------------------------------------
(* The running opcode.                                                     *)

Held == Registers \cup local \cup {NIL}

(* car, cdr and vector_elem of what the opcode holds.                      *)
Elements(p) ==
  IF p \in Cell /\ kind[p] = "vector"
  THEN {car[c] : c \in Succ(p)} \cup {cdr[c] : c \in Succ(p)}
  ELSE Succ(p)

Quiet == call.fn = "none"

cons(a, b) ==
  /\ Quiet
  /\ Cardinality(local) < MaxLocal
  /\ call' = [Idle EXCEPT !.fn = "get_cell", !.a = a, !.b = b]
  /\ UNCHANGED <<memory, segs, freeList, no_memory, reg, local>>

mk_vector(n) ==
  /\ Quiet
  /\ Cardinality(local) < MaxLocal
  /\ call' = [Idle EXCEPT !.fn = "get_vector_object", !.n = n + 1]
  /\ UNCHANGED <<memory, segs, freeList, no_memory, reg, local>>

(* OP_APPLY of a foreign function records its arguments before the call.   *)
push_recent_alloc(r) ==
  /\ Quiet
  /\ Cardinality(local) < MaxLocal
  /\ reg[r] \notin local
  /\ call' = [Idle EXCEPT !.fn = "hold", !.x = reg[r]]
  /\ UNCHANGED <<memory, segs, freeList, no_memory, reg, local>>

(* A register is given a value the opcode holds or finds in one it holds.  *)
SetRegister(r, p) ==
  /\ Quiet
  /\ reg' = [reg EXCEPT ![r] = p]
  /\ UNCHANGED <<memory, segs, freeList, no_memory, local, call>>

(* set-car!, set-cdr! and vector-set!.                                     *)
SetField(c, p) ==
  /\ Quiet
  /\ \/ "car" \in Edited /\ car' = [car EXCEPT ![c] = p] /\ UNCHANGED cdr
     \/ "cdr" \in Edited /\ cdr' = [cdr EXCEPT ![c] = p] /\ UNCHANGED car
  /\ UNCHANGED <<kind, len, segs, freeList, no_memory, reg, local, call>>

(* Fault: the recent list is dropped while the opcode still runs.          *)
ok_to_freely_gcEarly ==
  /\ Quiet
  /\ car' = [car EXCEPT ![SINK] = NIL]
  /\ UNCHANGED <<kind, len, cdr, segs, freeList, no_memory, reg, local, call>>

(* The opcode ends; Eval_Cycle calls ok_to_freely_gc before the next one.  *)
ok_to_freely_gc ==
  /\ Quiet
  /\ car' = [car EXCEPT ![SINK] = NIL]
  /\ local' = {}
  /\ UNCHANGED <<kind, len, cdr, segs, freeList, no_memory, reg, call>>

(* The gc primitive (OP_GC), an opcode of its own.                         *)
OP_GC ==
  /\ Quiet
  /\ local = {}
  /\ ~no_memory
  /\ gc
  /\ UNCHANGED <<segs, no_memory, reg, local, call>>

---------------------------------------------------------------------------
(* The cells whose fields a set-car!, set-cdr! or vector-set! of p writes.  *)
Fields(p) == IF IsPair(p) THEN {p}
             ELSE IF p \in Cell THEN Succ(p)
             ELSE {}

Init ==
  /\ segs = FirstSegs
  /\ LET heap == UNION {Segment(b) : b \in FirstSegs}
         above(c) == {d \in heap : d > c}
     IN  /\ kind = [c \in Cell |-> IF c \in heap THEN "free" ELSE "absent"]
         /\ cdr = [p \in Mem |-> IF p \in heap THEN First(above(p)) ELSE NIL]
         /\ free_cell = Lowest(heap)
         /\ fcells = Cardinality(heap)
  /\ len = [c \in Cell |-> 0]
  /\ car = [p \in Mem |-> NIL]
  /\ no_memory = FALSE
  /\ reg = [r \in Regs |-> NIL]
  /\ local = {}
  /\ call = Idle

Allocator == PopFree \/ DeliverSink \/ Collect \/ Grow \/ GrowFails
             \/ FindRun \/ NoRun

Opcode ==
  \/ \E a \in local \cup {NIL}, b \in Registers : cons(a, b)
  \/ \E n \in 0 .. MaxVec : mk_vector(n)
  \/ \E r \in Regs : push_recent_alloc(r)
  \/ \E r \in Regs : \E p \in Held \cup UNION {Elements(h) : h \in Held} :
       SetRegister(r, p)
  \/ \E h \in Registers : \E c \in Fields(h), p \in Held : SetField(c, p)
  \/ ok_to_freely_gc
  \/ OP_GC

Next == Allocator \/ Opcode

Spec == Init /\ [][Next]_vars

FairSpec == Spec /\ WF_vars(Allocator)

---------------------------------------------------------------------------
(* Properties.                                                             *)

(* The variables have their types, and a cell outside every segment has    *)
(* never been touched.                                                     *)
TypeOK ==
  /\ kind \in [Cell -> {"absent", "free", "pair", "vector"}]
  /\ len \in [Cell -> Nat]
  /\ car \in [Mem -> Ptr]
  /\ cdr \in [Mem -> Ptr]
  /\ segs \subseteq SegBase
  /\ free_cell \in Cell \cup {NIL}
  /\ fcells \in Nat
  /\ no_memory \in BOOLEAN
  /\ reg \in [Regs -> Ptr]
  /\ local \subseteq Ptr
  /\ call \in Call
  /\ \A c \in Cell : kind[c] = "absent" <=> \A b \in segs : c \notin Segment(b)

(* The cells the free list threads, in list order, are the free cells in   *)
(* address order, each once, and fcells counts them.  get_cell_x trusts    *)
(* the list, and get_consecutive_cells trusts its order, without a check.  *)
FreeListExact ==
  /\ free_cell = First(Free)
  /\ \A c \in Free : cdr[c] = First({d \in Free : d > c})
  /\ fcells = Cardinality(Free)

(* What the interpreter and the pending allocation can still get at.       *)
Roots == Registers \cup local \cup {Recent, call.a, call.b, call.x}

(* No cell that a register, a C variable of the running opcode or a        *)
(* pending allocation can reach is on the free list, so none is handed     *)
(* out a second time while it is in use.                                   *)
NoDangling == \A p \in Reach(Roots) \cup Roots : p \notin Free

(* Every pointer of a cell in use, reachable or not, and every root leads  *)
(* to a cell in use; and until an allocation fails nothing leads to the    *)
(* sink, whose cdr is then still as scheme_init left it.  This is what     *)
(* makes NoDangling inductive: the collector of a later step starts from   *)
(* these roots and follows these pointers.                                 *)
LinksInUse ==
  /\ \A p \in InUse : Succ(p) \subseteq InUse
  /\ Roots \subseteq InUse
  /\ ~no_memory => /\ cdr[SINK] = NIL
                   /\ SINK \notin Roots
                   /\ \A p \in InUse : SINK \notin Succ(p)

(* The cells that make up the recent list.                                 *)
Holders ==
  {p \in InUse \ {NIL} : \A S \in SUBSET InUse :
     (Recent \in S /\ \A q \in S : IsPair(q) => cdr[q] \in S) => p \in S}

(* What an opcode holds in C variables hangs off the recent list, which    *)
(* the program cannot reach and so cannot break: this is why those cells   *)
(* outlive every collection the opcode brings about.                       *)
RecentKeepsLocal ==
  ~no_memory =>
    /\ \A p \in local : p = NIL \/ \E h \in Holders : car[h] = p
    /\ \A h \in Holders : h # SINK /\ IsPair(h) /\ car[h] \notin Holders
    /\ \A p \in InUse \ (Holders \cup {SINK}) : Succ(p) \cap Holders = {}
    /\ (Registers \cup local \cup {call.a, call.b, call.x}) \cap Holders = {}

(* The operands of a pending call stay in reach of the allocator's roots.  *)
PendingOperands ==
  CASE call.fn = "none"              -> call = Idle
    [] call.fn = "get_cell"          -> call.x = NIL
    [] call.fn = "hold_cons"         -> call.x = SINK \/ /\ IsPair(call.x)
                                                         /\ car[call.x] = call.a
                                                         /\ cdr[call.x] = call.b
    [] call.fn = "hold"              -> call.a = NIL /\ call.b = NIL
    [] call.fn = "get_vector_object" -> call.a = NIL /\ call.b = NIL
                                        /\ call.x = NIL /\ call.n # 0

(* The cells that hold a vector's elements look like pairs, so what is     *)
(* stored there is marked like the car and the cdr of a pair.              *)
ElementCells ==
  \A v \in Cell : kind[v] = "vector" =>
    \A c \in Succ(v) : c \in Cell /\ kind[c] = "pair"

HeapInv == /\ TypeOK
           /\ FreeListExact
           /\ LinksInUse
           /\ ElementCells
           /\ RecentKeepsLocal
           /\ PendingOperands

(* The cells of a reachable vector stay together: they follow its head in  *)
(* the head's own segment, they are in use, and no other vector and no     *)
(* pointer shares them.                                                    *)
VectorsIntact ==
  LET live == Reach(Roots)
  IN  \A v \in live \cap Cell : kind[v] = "vector" =>
        /\ \E b \in segs : v \in Segment(b) /\ v + len[v] \in Segment(b)
        /\ \A c \in Succ(v) : kind[c] = "pair" /\ c \notin Roots
        /\ \A p \in live \ {v} : Succ(p) \cap Succ(v) = {}

(* The allocator gives up only when it has to: at the step that sets       *)
(* no_memory there is no free cell, or for a vector no run of free cells   *)
(* long enough, left.                                                      *)
GivesUpLast ==
  [][no_memory' /\ ~no_memory =>
       IF call.fn = "get_vector_object" THEN Runs(call.n) = {} ELSE Free = {}]_vars

(* A request for cells is always answered, with a cell or with the sink.   *)
EveryRequestAnswered == call.fn # "none" ~> call.fn = "none"

(* The program sees the objects it can reach, and neither the free list    *)
(* nor the collector nor the list of recent cells.                         *)
Visible == Reach(Registers \cup local) \ {NIL}

Contents(p) ==
  IF p \in Cell /\ kind[p] = "vector"
  THEN [kind |-> "vector", refs |-> [i \in 1 .. len[p] |-> p + i]]
  ELSE [kind |-> "pair", refs |-> <<car[p], cdr[p]>>]

Objects == [p \in Visible |-> Contents(p)]

Program == INSTANCE Store WITH
  Object <- Mem,
  Nil <- NIL,
  MaxRefs <- IF MaxVec < 2 THEN 2 ELSE MaxVec,
  node <- Objects,
  oom <- no_memory

(* Allocation and collection implement the store: a cell handed out is one *)
(* the program could not reach, and no step but the program's own writes   *)
(* changes a cell it can reach.                                            *)
ImplementsStore == Program!Spec
===========================================================================
