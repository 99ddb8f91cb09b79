------------------------------ MODULE Store -------------------------------
(***************************************************************************)
(* What the interpreter may assume of its memory: a graph of objects, in   *)
(* which a new object is new, an object changes only when the program      *)
(* writes to it, and what the program can still reach is still there.      *)
(* There is no free list and no collector.  Once an allocation has failed  *)
(* (oom) nothing is promised any more: the interpreter stops.              *)
(***************************************************************************)
EXTENDS Integers, Sequences

CONSTANTS
  Regs,      \* the registers
  Object,    \* every object there can be
  Nil,       \* the empty list, which is no object
  MaxRefs    \* the most references an object holds

VARIABLES
  node,      \* node[o]: kind and references of each object in reach
  reg,       \* the value of each register
  local,     \* what the running opcode holds
  oom        \* an allocation has failed

storeVars == <<node, reg, local, oom>>

Value == DOMAIN node \cup {Nil}

RefsOf(g, o) == {g[o].refs[i] : i \in DOMAIN g[o].refs}

(* The part of graph g that can be reached from R.                         *)
Trim(g, R) ==
  LET closures == {S \in SUBSET DOMAIN g :
                     /\ R \ {Nil} \subseteq S
                     /\ \A o \in S : RefsOf(g, o) \subseteq S \cup {Nil}}
  IN  [o \in {p \in DOMAIN g : \A S \in closures : p \in S} |-> g[o]]

Roots(r, l) == {r[x] : x \in Regs} \cup l

(* Object o appears, which was not in reach, and nothing that was changes. *)
(* A pair refers to what the program already had; a vector to elements     *)
(* that appear with it and are its own, and that hold the empty list.      *)
Create ==
  \E o \in DOMAIN node' \ DOMAIN node :
    LET new == DOMAIN node' \ DOMAIN node
    IN  /\ new \subseteq Object
        /\ reg' = reg
        /\ local' = local \cup {o}
        /\ \A p \in DOMAIN node : p \in DOMAIN node' /\ node'[p] = node[p]
        /\ IF node'[o].kind = "vector"
           THEN /\ RefsOf(node', o) = new \ {o}
                /\ \A e \in new \ {o} : RefsOf(node', e) = {Nil}
           ELSE new = {o} /\ RefsOf(node', o) \subseteq Value

(* The program changes one reference of an object.                         *)
Write ==
  \E o \in DOMAIN node : \E i \in 1 .. MaxRefs, v \in Value :
    /\ i \in DOMAIN node[o].refs
    /\ node[o].kind = "pair"
    /\ node' = Trim([node EXCEPT ![o].refs[i] = v], Roots(reg, local))
    /\ UNCHANGED <<reg, local>>

(* The program moves values between registers and forgets some.            *)
Move ==
  /\ reg' \in [Regs -> Value]
  /\ local' \subseteq Value
  /\ node' = Trim(node, Roots(reg', local'))

Init ==
  /\ node = [o \in {} |-> Nil]
  /\ reg = [r \in Regs |-> Nil]
  /\ local = {}
  /\ oom = FALSE

Next ==
  \/ ~oom' /\ (Create \/ Write \/ Move)
  \/ oom'

Spec == Init /\ [][Next]_storeVars
===========================================================================
