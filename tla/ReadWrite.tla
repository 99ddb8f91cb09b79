----------------------------- MODULE ReadWrite -----------------------------
(***************************************************************************)
(* A program that writes data to a string port, one after the other, and   *)
(* reads the text again; the text may have been cut off.  Or it begins     *)
(* with a text of its own, writes what it reads from it and reads that.    *)
(***************************************************************************)
EXTENDS Printer

CONSTANTS
  Data,        \* what may be written first
  Later,       \* what may be written after that
  MaxData,     \* bound: the most data in a text
  MaxDepth,    \* bound: the deepest datum that is written, in pairs and vectors
  Texts        \* the texts of the program's own

---------------------------------------------------------------------------
(* The data that can be read again.                                        *)

Children(v) ==
  CASE v.type = "pair"   -> {v.car, v.cdr}
    [] v.type = "vector" -> Range(v.elements)
    [] OTHER             -> {}

WithChildren(S) == S \cup UNION {Children(w) : w \in S}

(* A datum and all that is in it.                                          *)
Parts(v) ==
  LET part[k \in 0 .. MaxDepth] == IF k = 0 THEN {v} ELSE WithChildren(part[k - 1])
  IN  part[MaxDepth]

IsText(s) == s \in Seq(Range(s) \ {EOF})

(* A text that token and readstr_upto take for one atom: a symbol that was *)
(* made of a part of an atom may read as something else, and a dot that    *)
(* was read as a symbol is a dot when it is read again.                    *)
Atomic(q) ==
  /\ IsText(q) /\ Len(q) \in 1 .. STRBUFFSIZE - 1
  /\ q \notin {<<".">>, <<"\\">>}
  /\ q[1] \notin {"'", DOUBLEQUOTE, BACKQUOTE, ",", "#"}
  /\ Range(q) \cap Delimiters = {} \/ (Len(q) = 2 /\ q[1] = "\\")

(* A quasiquoted vector is read as a call of apply, and a symbol of which  *)
(* the name begins with an at changes the comma in front of it.            *)
Misread(v) ==
  /\ Abbreviated(v)
  /\ \/ v.car = QQUOTE /\ v.cdr.car.type = "vector"
     \/ v.car = UNQUOTE /\ v.cdr.car.type = "symbol" /\ v.cdr.car.name[1] = "@"

(* Each kind of datum has its own form in the text.                        *)
Spelled(v) ==
  \/ v \in {NIL, Bool(TRUE), Bool(FALSE)}
  \/ /\ v.type = "number" /\ v = Number(v.ivalue)
     /\ v.ivalue \in Int /\ Len(atom2str(v)) < STRBUFFSIZE
  \/ /\ v.type = "symbol" /\ v = Symbol(v.name)
     /\ Atomic(v.name) /\ mk_atom(v.name) = v
  \/ /\ v.type = "string" /\ v = String(v.svalue)
     /\ IsText(v.svalue) /\ Len(v.svalue) < STRBUFFSIZE
  \/ /\ v.type = "character" /\ v = Character(v.charvalue)
     /\ v.charvalue # EOF /\ NamedCharacter(v.charvalue) = {}
  \/ v.type = "pair" /\ v = Pair(v.car, v.cdr) /\ ~Misread(v)
  \/ v.type = "vector" /\ v = Vector(v.elements) /\ v.elements \in Seq(Range(v.elements))

(* All of a datum is there within the bound, and spelled.                  *)
Readable(v) ==
  /\ v \in Parts(v)
  /\ \A w \in Parts(v) : Spelled(w) /\ Children(w) \subseteq Parts(v)

ASSUME ReadWriteAssumption ==
  /\ MaxData \in Nat /\ MaxDepth \in Nat
  /\ \A s \in Texts : IsText(s)
  /\ \A v \in Data \cup Later : Readable(v)

---------------------------------------------------------------------------
VARIABLES
  mode,        \* "write" or "read"
  expect,      \* the data that were written
  got,         \* the data that have been read from the text
  cut,         \* the text is cut off before its end
  known        \* expect is what the text says

control == <<mode, expect, got, cut, known>>
vars == <<op, tok, args, value, dump, nesting, port, outport, control>>

Init ==
  /\ op = "idle" /\ tok = EOF /\ args = NIL /\ value = NIL /\ dump = << >>
  /\ nesting = 0
  /\ outport = port_from_scratch
  /\ expect = << >> /\ got = << >> /\ cut = FALSE
  /\ \/ mode = "write" /\ known = TRUE /\ port = port_from_string(<< >>, {"input"})
     \/ /\ mode = "read" /\ known = FALSE
        /\ port \in {port_from_string(s, {"input"}) : s \in Texts}

Write(v) ==
  /\ mode = "write" /\ op = "idle" /\ Len(expect) < MaxData
  /\ op' = "P0LIST" /\ args' = v
  /\ expect' = Append(expect, v)
  /\ UNCHANGED <<tok, value, dump, nesting, port, outport, mode, got, cut, known>>

(* What the program displays between two data.                             *)
Separators == {<<"\n">>, <<" ">>, <<";", "(", "\n">>}

Separate ==
  /\ mode = "write" /\ op = "returned" /\ Len(expect) < MaxData
  /\ op' = "idle"
  /\ \E s \in Separators : put(s)
  /\ UNCHANGED <<tok, args, value, dump, nesting, port, control>>

(* The text ends where it should; that of one datum may be cut off.        *)
Open ==
  /\ mode = "write" /\ op = "returned"
  /\ mode' = "read" /\ op' = "idle"
  /\ \E k \in IF Len(expect) = 1 THEN 0 .. outport.curr ELSE {outport.curr} :
       /\ port' = port_from_string(SubSeq(get_output_string(outport), 1, k), {"input"})
       /\ cut' = (k < outport.curr)
  /\ UNCHANGED <<tok, args, value, dump, nesting, outport, expect, got, known>>

Read ==
  /\ mode = "read" /\ op = "idle"
  /\ op' = "READ_INTERNAL"
  /\ UNCHANGED <<tok, args, value, dump, nesting, port, outport, control>>

(* What was read from a text of its own is written, and read again.        *)
Take ==
  /\ mode = "read" /\ op = "returned"
  /\ IF value = EOF_OBJ THEN op' = "end" /\ UNCHANGED <<args, nesting, outport, control>>
     ELSE IF known
     THEN op' = "idle" /\ got' = Append(got, value)
          /\ UNCHANGED <<args, nesting, outport, mode, expect, cut, known>>
     ELSE IF Readable(value)
     THEN /\ op' = "P0LIST" /\ args' = value
          /\ mode' = "write" /\ expect' = <<value>> /\ known' = TRUE
          /\ nesting' = 0
          /\ UNCHANGED <<outport, got, cut>>
     ELSE op' = "end" /\ UNCHANGED <<args, nesting, outport, control>>
  /\ UNCHANGED <<tok, value, dump, port>>

Next ==
  \/ \E v \in IF expect = << >> THEN Data ELSE Later : Write(v)
  \/ Separate \/ Open \/ Read \/ Take
  \/ Reading /\ UNCHANGED <<outport, control>>
  \/ Printing /\ UNCHANGED control

Spec == Init /\ [][Next]_vars

---------------------------------------------------------------------------
(* Registers, ports and the record of the program are what they should be. *)
TypeOK ==
  /\ op \in {"idle", "end", "returned", "error", "READ_INTERNAL", "RDSEXPR", "RDLIST",
             "RDDOT", "RDQUOTE", "RDQQUOTE", "RDQQUOTEVEC", "RDUNQUOTE", "RDUQTSP",
             "RDVEC", "P0LIST", "P1LIST", "PVECFROM"}
  /\ nesting \in Nat
  /\ \A p \in {port, outport} : p.curr \in 0 .. p.past_the_end /\ p.past_the_end = Len(p.start)
  /\ mode \in {"read", "write"} /\ cut \in BOOLEAN /\ known \in BOOLEAN

(* What write has put on a port that grows, read takes from it again: the  *)
(* same data in the same order, and then the end of the text.              *)
ReadsBack ==
  mode = "read" /\ known /\ ~cut =>
    IsPrefix(got, expect) /\ op # "error" /\ (op = "end" => got = expect)

Bracketed(v) == v.type \in {"vector", "string"} \/ (v.type = "pair" /\ ~Abbreviated(v))

(* A list, a vector or a string that is cut off is not taken for a datum:  *)
(* what is read from a truncated file is what was in it.                   *)
CutIsNoticed ==
  mode = "read" /\ cut /\ Bracketed(Last(expect)) => IsPrefix(got, expect) /\ got # expect

(* The only parentheses in the text are those of its lists and vectors.    *)
NoParens(v) ==
  \A w \in Parts(v) : w.type \in {"nil", "pair", "vector"}
                       \/ Range(atom2str(w)) \cap {"(", ")"} = {}

(* At each opcode of the reader and at the end of the text nesting is how  *)
(* many of the parentheses taken from the port are open: a file with a     *)
(* list that is not closed is known by it.                                 *)
NestingCounts ==
  mode = "read" /\ known /\ op # "error" /\ Len(expect) = 1 /\ NoParens(expect[1]) =>
    LET taken == SubSeq(port.start, 1, port.curr)
        Count(c) == Cardinality({k \in DOMAIN taken : taken[k] = c})
        begun == IF op = "RDSEXPR" /\ tok \in {"LPAREN", "VEC"} THEN 1 ELSE 0
    IN  nesting + begun = Count("(") - Count(")")
=============================================================================
