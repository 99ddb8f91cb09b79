------------------------------- MODULE Ports -------------------------------
(***************************************************************************)
(* String ports: a text in memory, read and written through one pointer.   *)
(* A port made from scratch grows by a block when it is full, one made     *)
(* from a string of the program does not.                                  *)
(*                                                                         *)
(* A character is a string of one character, or a name where it has no     *)
(* graphic.  Memory for a block is taken to be there.                      *)
(***************************************************************************)
EXTENDS Integers, Sequences, TLC

CONSTANTS
  BLOCK_SIZE      \* a port from scratch has room for one less

ASSUME PortsAssumption == BLOCK_SIZE \in Nat \ {0, 1}

EOF == "EOF"

Blanks(n) == [x \in 1 .. n |-> " "]

(* The pointers are offsets from start.                                    *)
port_from_string(s, kind) ==
  [kind |-> kind, start |-> s, curr |-> 0, past_the_end |-> Len(s)]

port_from_scratch ==
  [kind |-> {"output", "srfi6"}, start |-> Blanks(BLOCK_SIZE - 1), curr |-> 0,
   past_the_end |-> BLOCK_SIZE - 1]

(* The character at an offset, as inchar finds it.                         *)
At(p, i) == IF i < p.past_the_end THEN p.start[i + 1] ELSE EOF

(* Fault: the pointer moves on past the end.                               *)
PastEnd(p, i) == i

(* Where inchar leaves the pointer: not past the end.                      *)
Past(p, i) == IF i > p.past_the_end THEN p.past_the_end ELSE i

realloc_port_string(p) ==
  [p EXCEPT !.start = @ \o Blanks(BLOCK_SIZE), !.past_the_end = @ + BLOCK_SIZE]

putcharacter(p, c) ==
  LET q == IF p.curr = p.past_the_end /\ "srfi6" \in p.kind
           THEN realloc_port_string(p) ELSE p
  IN  IF q.curr = q.past_the_end THEN q
      ELSE [q EXCEPT !.start[q.curr + 1] = c, !.curr = @ + 1]

putstr(p, s) ==
  LET put[k \in 0 .. Len(s)] == IF k = 0 THEN p ELSE putcharacter(put[k - 1], s[k])
  IN  put[Len(s)]

get_output_string(p) == SubSeq(p.start, 1, p.curr)
=============================================================================
