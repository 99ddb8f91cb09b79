---------------------------- MODULE MCReadWrite ----------------------------
(* Data of all the kinds that are written so that they can be read, nested *)
(* up to two levels, and all texts of some characters.                     *)
EXTENDS ReadWrite

List(s) == FoldRight(Pair, s, NIL)

a == Symbol(<<"a">>)

(* The longest atom and the longest string that the buffer takes.          *)
Longest == [k \in 1 .. STRBUFFSIZE - 1 |-> "a"]

MCAtoms ==
  {NIL, a, Symbol(<<".", "a">>), Symbol(Longest), Number(-10), Bool(FALSE),
   String(<< >>), String(Longest), String(<<DOUBLEQUOTE, "\\">>), String(<<"\n", Chr(7), "1">>),
   Character("("), Character("\n"), Character("x"), Character(DOUBLEQUOTE)}

MCSmall == {NIL, a, Number(1)}

MCPairs == {Pair(x, y) : x \in MCAtoms, y \in MCSmall} \cup {Pair(x, y) : x \in MCSmall, y \in MCAtoms}
MCLists ==
  {Pair(x, y) : x \in {a, QUOTE, Vector(<<a>>), List(<<a>>)},
                y \in {Vector(<< >>), Vector(<<a>>), List(<<a>>), Pair(a, a),
                       List(<<QUOTE, a>>), List(<<UNQUOTESP, List(<<a>>)>>)}}
  \cup {List(<<q, x>>) : q \in {QUOTE, QQUOTE, UNQUOTE, UNQUOTESP},
                         x \in {a, List(<<a, a>>), Vector(<<a>>), List(<<QUOTE, a>>)}}
  \cup {Vector(<<x, y>>) : x \in MCAtoms, y \in {a, List(<<a>>), Vector(<< >>)}}

MCData == MCAtoms \cup MCPairs \cup (MCLists \ {List(<<QQUOTE, Vector(<<a>>)>>)})

MCLater == {a, Pair(a, Number(1)), String(<<" ">>), Vector(<< >>), Character(" ")}

MCAlphabet == {"(", ")", ".", "'", DOUBLEQUOTE, "\\", "a", "1", "x", ":", " ", "\n", ";", "#"}
MCTexts ==
  UNION {[1 .. n -> MCAlphabet] : n \in 0 .. 3}
  \cup {<<c>> \o s : c \in {"(", DOUBLEQUOTE, "\\", "#", BACKQUOTE}, s \in [1 .. 3 -> MCAlphabet]}
=============================================================================
