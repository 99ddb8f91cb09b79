------------------------------ MODULE Printer ------------------------------
(***************************************************************************)
(* The printer: write puts a value on the port outport in the form that    *)
(* the reader reads.  It runs on the registers of the reader; args is the  *)
(* value to print.  Environments, procedures and reals are not printed     *)
(* here.                                                                   *)
(***************************************************************************)
EXTENDS Reader

VARIABLE outport

put(s) == outport' = putstr(outport, s)

ok_abbrev(x) == x.type = "pair" /\ x.cdr = NIL

HexPair(n) == <<HexDigits[n \div 16 + 1], HexDigits[(n % 16) + 1]>>
Code(c) == CHOOSE n \in 0 .. 255 : Chr(n) = c

(* How printslashstring writes one character.                              *)
NamedEscape == {DOUBLEQUOTE, "\\", "\n", "\t", "\r"}
HexEscape == ((Control \ {Chr(127)}) \cup {Chr(255)}) \ NamedEscape

Escaped(c) ==
  CASE c \in {DOUBLEQUOTE, "\\"} -> <<"\\", c>>
    [] c = "\n" -> <<"\\", "n">>
    [] c = "\t" -> <<"\\", "t">>
    [] c = "\r" -> <<"\\", "r">>
    [] c \in HexEscape -> <<"\\", "x">> \o HexPair(Code(c))
    [] c \notin NamedEscape \cup HexEscape -> <<c>>

printslashstring(s) ==
  LET escaped[k \in 0 .. Len(s)] ==
        IF k = 0 THEN << >> ELSE escaped[k - 1] \o Escaped(s[k])
  IN  <<DOUBLEQUOTE>> \o escaped[Len(s)] \o <<DOUBLEQUOTE>>

(* The names of the characters are names, and not two of them the same.    *)
ASSUME PrinterAssumption ==
  \A c \in Control \cup {" "} : charname(c) # EOF /\ NamedCharacter(charname(c)) = {c}

Decimal(n) ==
  LET size == IF n < 0 THEN -n ELSE n
      decimal[k \in 0 .. size] ==
        IF k < 10 THEN <<Digits[k + 1]>>
        ELSE decimal[k \div 10] \o <<Digits[(k % 10) + 1]>>
  IN  IF n < 0 THEN <<"-">> \o decimal[size] ELSE decimal[size]

atom2str(l) ==
  CASE l.type = "nil"       -> <<"(", ")">>
    [] l.type = "bool"      -> <<"#", IF l.is THEN "t" ELSE "f">>
    [] l.type = "eof"       -> <<"#", "<", "EOF", ">">>
    [] l.type = "number"    -> Decimal(l.ivalue)
    [] l.type = "string"    -> printslashstring(l.svalue)
    [] l.type = "character" ->
         <<"#", "\\", IF l.charvalue \in Control \cup {" "}
                      THEN charname(l.charvalue) ELSE l.charvalue>>
    [] l.type = "symbol"    -> l.name

---------------------------------------------------------------------------
(* The printing opcodes.                                                   *)

Prefix(x) ==
  CASE x = QUOTE     -> <<"'">>
    [] x = QQUOTE    -> <<BACKQUOTE>>
    [] x = UNQUOTE   -> <<",">>
    [] x = UNQUOTESP -> <<",", "@">>
Abbreviated(l) == l.type = "pair" /\ l.car \in {QUOTE, QQUOTE, UNQUOTE, UNQUOTESP}
                  /\ ok_abbrev(l.cdr)

(* A vector is printed from an element on.                                 *)
P0LISTvector ==
  /\ op = "P0LIST" /\ args.type = "vector"
  /\ put(<<"#", "(">>)
  /\ op' = "PVECFROM" /\ args' = [vec |-> args.elements, from |-> 0]
  /\ UNCHANGED <<value, dump>>

P0LISTatom ==
  /\ op = "P0LIST" /\ args.type \notin {"vector", "pair"}
  /\ put(atom2str(args))
  /\ s_return(Bool(TRUE))

P0LISTabbreviation ==
  /\ op = "P0LIST" /\ Abbreviated(args)
  /\ put(Prefix(args.car))
  /\ args' = args.cdr.car
  /\ UNCHANGED <<op, value, dump>>

P0LISTpair ==
  /\ op = "P0LIST" /\ args.type = "pair" /\ ~Abbreviated(args)
  /\ put(<<"(">>)
  /\ s_save("P1LIST", args.cdr)
  /\ args' = args.car
  /\ UNCHANGED <<op, value>>

P1LISTpair ==
  /\ op = "P1LIST" /\ args.type = "pair"
  /\ s_save("P1LIST", args.cdr)
  /\ put(<<" ">>)
  /\ op' = "P0LIST" /\ args' = args.car
  /\ UNCHANGED value

P1LISTvector ==
  /\ op = "P1LIST" /\ args.type = "vector"
  /\ s_save("P1LIST", NIL)
  /\ put(<<" ", ".", " ">>)
  /\ op' = "P0LIST"
  /\ UNCHANGED <<args, value>>

P1LISTend ==
  /\ op = "P1LIST" /\ args.type \notin {"pair", "vector"}
  /\ put((IF args = NIL THEN << >> ELSE <<" ", ".", " ">> \o atom2str(args)) \o <<")">>)
  /\ s_return(Bool(TRUE))

PVECFROM ==
  /\ op = "PVECFROM"
  /\ IF args.from = Len(args.vec)
     THEN put(<<")">>) /\ s_return(Bool(TRUE))
     ELSE /\ s_save("PVECFROM", [args EXCEPT !.from = @ + 1])
          /\ put(<<" ">>)
          /\ op' = "P0LIST" /\ args' = args.vec[args.from + 1]
          /\ UNCHANGED value

Printing ==
  /\ \/ P0LISTvector \/ P0LISTatom \/ P0LISTabbreviation \/ P0LISTpair
     \/ P1LISTpair \/ P1LISTvector \/ P1LISTend \/ PVECFROM
  /\ UNCHANGED <<tok, nesting, port>>
=============================================================================
