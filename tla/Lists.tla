-------------------------------- MODULE Lists --------------------------------
(***************************************************************************)
(* The list algorithms of scheme.c, on a memory of cells.  A memory is a   *)
(* sequence of cells, a pointer an index in it; the first cell is NIL,     *)
(* which is its own car and cdr.  A new cell is put at the end: what Heap  *)
(* shows is that this is all a program can see of the allocator.           *)
(*                                                                         *)
(* An operator returns memory, or memory m and the pointer p that the      *)
(* function in C returns.                                                  *)
(***************************************************************************)
EXTENDS Integers, Sequences

NIL == 1

Cell(k, a, d) == [k |-> k, car |-> a, cdr |-> d]

is_pair(m, p) == m[p].k = "pair"

(* The new cell is m[Len(m) + 1].                                          *)
cons(m, a, d) == Append(m, Cell("pair", a, d))

Consed(m, a, d) == [m |-> cons(m, a, d), p |-> Len(m) + 1]

(* A step of the loop of list_length.  fast takes two for one of slow, and *)
(* after each second step they are compared.                               *)
ChaseEnds(m, s) == s.met \/ ~is_pair(m, s.fast)

Chase(m, s) ==
  IF ChaseEnds(m, s) THEN s
  ELSE IF s.i % 2 = 0 THEN [s EXCEPT !.fast = m[s.fast].cdr, !.i = @ + 1]
  ELSE [slow |-> m[s.slow].cdr, fast |-> m[s.fast].cdr, i |-> s.i + 1,
        met |-> m[s.fast].cdr = m[s.slow].cdr]

(* A loop is a function of the number of its steps, at most so many as the *)
(* number of cells allows; when it has ended they change nothing.          *)
Chasing(m, a) ==
  LET chase[n \in 0 .. 2 * Len(m)] ==
        IF n = 0 THEN [slow |-> a, fast |-> a, i |-> 0, met |-> FALSE]
        ELSE Chase(m, chase[n - 1])
  IN chase

Chased(m, a) ==
  LET chase == Chasing(m, a)
  IN chase[CHOOSE n \in 0 .. 2 * Len(m) : ChaseEnds(m, chase[n])]

(* Fault: dotted lists are counted from -1, as circular ones are.          *)
LengthFoundFromOne(s) == CASE s.met -> -1
                           [] ~s.met /\ s.fast = NIL -> s.i
                           [] OTHER -> -1 - s.i

LengthFound(s) == CASE s.met -> -1
                    [] ~s.met /\ s.fast = NIL -> s.i
                    [] OTHER -> -2 - s.i

(* The length of a proper list, -1 if it is circular, -2 less the length   *)
(* before the dot if it is neither.                                        *)
list_length(m, a) == LengthFound(Chased(m, a))

(* Where n steps along the list lead, and how many cells a loop that goes  *)
(* along the list comes to before it ends.                                 *)
Along(m, a) ==
  LET walk[n \in 0 .. Len(m)] == IF n = 0 THEN a ELSE m[walk[n - 1]].cdr
  IN walk

Passed(m, a) == CHOOSE n \in 0 .. Len(m) : ~is_pair(m, Along(m, a)[n])

(* Reverse puts a copy of each cell in front of what it has.               *)
Copy(s) ==
  IF ~is_pair(s.m, s.a) THEN s
  ELSE [m |-> cons(s.m, s.m[s.a].car, s.p), p |-> Len(s.m) + 1, a |-> s.m[s.a].cdr]

Copying(m, a) ==
  LET copy[n \in 0 .. Len(m)] ==
        IF n = 0 THEN [m |-> m, p |-> NIL, a |-> a] ELSE Copy(copy[n - 1])
  IN copy

(* A new list; the end of a dotted one is dropped.                         *)
reverse(m, a) ==
  LET end == Copying(m, a)[Passed(m, a)] IN [m |-> end.m, p |-> end.p]

(* The loop of reverse_in_place: result is what has been linked so far.    *)
Relink(s) ==
  IF s.p = NIL THEN s
  ELSE [m |-> [s.m EXCEPT ![s.p].cdr = s.result], result |-> s.p, p |-> s.m[s.p].cdr]

Relinking(m, term, list) ==
  LET relink[n \in 0 .. Len(m)] ==
        IF n = 0 THEN [m |-> m, result |-> term, p |-> list] ELSE Relink(relink[n - 1])
  IN relink

(* The cells of the list are linked the other way, in front of term.       *)
reverse_in_place(m, term, list) ==
  LET end == Relinking(m, term, list)[Passed(m, list)] IN [m |-> end.m, p |-> end.result]

(* Fault: no copy is made of the first list.                               *)
appendInPlace(m, a, b) ==
  IF a = NIL THEN [m |-> m, p |-> b]
  ELSE LET r == reverse_in_place(m, NIL, a)
       IN reverse_in_place(r.m, b, r.p)

(* The first list is copied, back to front, and the copy linked in front   *)
(* of the second, which is shared.                                         *)
append(m, a, b) ==
  IF a = NIL THEN [m |-> m, p |-> b]
  ELSE LET r == reverse(m, a)
       IN reverse_in_place(r.m, b, r.p)

(* The loop of list_star.  It makes a copy of each cell that it passes,    *)
(* and drops it.                                                           *)
Pass(s) ==
  IF s.m[s.m[s.p].cdr].cdr = NIL THEN s
  ELSE [m |-> cons(s.m, s.m[s.p].car, s.m[s.p].cdr), p |-> s.m[s.p].cdr]

Passing(m, p) ==
  LET pass[n \in 0 .. Len(m)] == IF n = 0 THEN [m |-> m, p |-> p] ELSE Pass(pass[n - 1])
  IN pass

LastButOne(m, p) == Passing(m, p)[Passed(m, p)]

(* list*, and the arguments of apply: the last element becomes the rest of *)
(* the list.  The first cell is copied and no other.                       *)
list_star(m, d) ==
  IF m[d].cdr = NIL THEN [m |-> m, p |-> m[d].car]
  ELSE LET q == Consed(m, m[d].car, m[d].cdr)
           r == LastButOne(q.m, q.p)
       IN [m |-> [r.m EXCEPT ![r.p].cdr = r.m[r.m[r.p].cdr].car], p |-> q.p]
==============================================================================
