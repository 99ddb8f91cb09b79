------------------------------- MODULE Reader -------------------------------
(***************************************************************************)
(* The reader: token and its helpers take characters from the port, the    *)
(* reading opcodes of opexe_5 make a value of the tokens and keep what     *)
(* remains to be done on the dump.                                         *)
(*                                                                         *)
(* A number with a point or an exponent keeps its spelling for its value.  *)
(* The names that matter here (quote, newline, ...) are one character of   *)
(* the text each.  No sharp hook is defined.                               *)
(***************************************************************************)
EXTENDS Ports, SequencesExt, FiniteSetsExt

CONSTANTS
  STRBUFFSIZE,    \* the size of the buffer for an atom or a string
  Unset           \* what a variable may hold that was never set

ASSUME ReaderAssumption ==
  /\ STRBUFFSIZE \in Nat \ {0, 1, 2}
  /\ Unset \subseteq Int /\ Unset # {}

VARIABLES
  op,        \* the opcode to run next; "returned" or "error" at the end
  tok, args, value,
  dump,      \* frames [op, args], innermost first
  nesting,   \* nesting_stack[file_i]: the lists begun and not ended
  port       \* the port that is read

BACKQUOTE == "backquote"
DOUBLEQUOTE == "doublequote"

Space == {" ", "\t", "\n", "\r"}
Delimiters == {"(", ")", ";", "\t", "\n", "\r", " "}

Digits == <<"0", "1", "2", "3", "4", "5", "6", "7", "8", "9">>
Upper == <<"A", "B", "C", "D", "E", "F", "X">>
Lower == <<"a", "b", "c", "d", "e", "f", "x">>
IsDigit(c) == \E k \in DOMAIN Digits : Digits[k] = c
IsOctal(c) == IsDigit(c) /\ c \notin {"8", "9"}
DigitValue(c) == (CHOOSE k \in DOMAIN Digits : Digits[k] = c) - 1

(* The character of a code: those without a name here are "chr" and it.    *)
Chr(n) ==
  CASE n = 9          -> "\t"
    [] n = 10         -> "\n"
    [] n = 13         -> "\r"
    [] n = 32         -> " "
    [] n = 34         -> DOUBLEQUOTE
    [] n \in 48 .. 57 -> Digits[n - 47]
    [] n \in 65 .. 70 -> Upper[n - 64]
    [] n = 92         -> "\\"
    [] n \in 97 .. 102 -> Lower[n - 96]
    [] OTHER          -> "chr" \o ToString(n)

tolower(c) == IF \E k \in DOMAIN Upper : Upper[k] = c
              THEN Lower[CHOOSE k \in DOMAIN Upper : Upper[k] = c] ELSE c
Lowered(q) == [k \in DOMAIN q |-> tolower(q[k])]

---------------------------------------------------------------------------
(* Values.                                                                 *)

NIL == [type |-> "nil"]
EOF_OBJ == [type |-> "eof"]
Bool(b) == [type |-> "bool", is |-> b]
Number(n) == [type |-> "number", ivalue |-> n]
Real(q) == [type |-> "real", spelling |-> q]
String(s) == [type |-> "string", svalue |-> s]
Character(c) == [type |-> "character", charvalue |-> c]
Symbol(name) == [type |-> "symbol", name |-> name]
Pair(a, d) == [type |-> "pair", car |-> a, cdr |-> d]
Vector(s) == [type |-> "vector", elements |-> s]

(* The list of these values, the last one first, in front of term.         *)
reverse_in_place(term, s) ==
  LET link[k \in 0 .. Len(s)] == IF k = 0 THEN term ELSE Pair(s[k], link[k - 1])
  IN  link[Len(s)]

QUOTE == Symbol(<<"quote">>)
QQUOTE == Symbol(<<"quasiquote">>)
UNQUOTE == Symbol(<<"unquote">>)
UNQUOTESP == Symbol(<<"unquote-splicing">>)
COLON_HOOK == Symbol(<<"*colon-hook*">>)

Rest(l) == IF l.type = "pair" THEN l.cdr ELSE l

(* What is behind the first k pairs of a list, or behind all of them.  One *)
(* that was read has no more than the text has characters.                 *)
Behind(l) ==
  LET rest[k \in 0 .. Len(port.start)] == IF k = 0 THEN l ELSE Rest(rest[k - 1])
  IN  rest

is_list(l) == Behind(l)[Len(port.start)] = NIL

Members(l) ==
  [k \in 1 .. Min({n \in DOMAIN Behind(l) : Behind(l)[n] = NIL}) |-> Behind(l)[k - 1].car]

---------------------------------------------------------------------------
(* Tokens.  Each operator says what was found and the offset after it.     *)

(* The first offset from i on with one of these characters, or the end.    *)
Seek(p, i, S) == Min({j \in i .. p.past_the_end : At(p, j) \in S \cup {EOF}})

skipspace(p, i) ==
  Min({j \in i .. p.past_the_end : At(p, j) \notin Space})

(* A comment, and the offset after it and the newline that ends it.        *)
IsComment(p, j) == At(p, j) = ";" \/ (At(p, j) = "#" /\ At(p, j + 1) = "!")

AfterLine(p, j) == Past(p, Seek(p, j, {"\n"}) + 1)

(* Where the next token begins.                                            *)
Start(p, i) ==
  LET start[k \in 0 .. p.past_the_end] ==
        LET j == skipspace(p, k)
        IN  IF IsComment(p, j) THEN start[AfterLine(p, j)] ELSE j
  IN  start[i]

Found(p, t, i) == [tok |-> t, at |-> Past(p, i)]

TokenAt(p, j) ==
  LET c == At(p, j)
      d == At(p, j + 1)
  IN CASE c = EOF  -> Found(p, EOF, j)
       [] c = "("  -> Found(p, "LPAREN", j + 1)
       [] c = ")"  -> Found(p, "RPAREN", j + 1)
       [] c = "."  -> IF d \in {" ", "\n", "\t", EOF}
                      THEN Found(p, "DOT", j + 2) ELSE Found(p, "ATOM", j)
       [] c = "'"  -> Found(p, "QUOTE", j + 1)
       [] c = DOUBLEQUOTE -> Found(p, "DQUOTE", j + 1)
       [] c = BACKQUOTE -> Found(p, "BQUOTE", j + 1)
       [] c = ","  -> IF d = "@" THEN Found(p, "ATMARK", j + 2)
                      ELSE Found(p, "COMMA", j + 1)
       [] c = "#"  -> CASE d = "(" -> Found(p, "VEC", j + 2)
                        [] d \in {" ", "t", "f", "o", "d", "x", "b", "\\", EOF} ->
                             Found(p, "SHARP_CONST", j + 1)
                        [] OTHER -> Found(p, "SHARP", j + 1)
       [] OTHER    -> Found(p, "ATOM", j)

token(p, i) == TokenAt(p, Start(p, i))

(* Fault: a character after the backslash may be a delimiter as well.      *)
readstr_uptoPlain(p, i) ==
  LET k == Min({j \in i .. p.past_the_end :
                  At(p, j) \in Delimiters \cup {EOF} \/ j - i + 1 = STRBUFFSIZE})
  IN  [str |-> SubSeq(p.start, i + 1, k), at |-> k]

(* A delimiter that is the second character, after a backslash, is part of *)
(* the atom; the one that ends it goes back, and so does the last          *)
(* character that has filled the buffer.                                   *)
readstr_upto(p, i) ==
  LET k == Min({j \in i .. p.past_the_end :
                  At(p, j) \in Delimiters \cup {EOF} \/ j - i + 1 = STRBUFFSIZE})
  IN  IF k = i + 1 /\ At(p, i) = "\\"
      THEN [str |-> <<"\\", At(p, k)>>, at |-> Past(p, k + 1)]
      ELSE [str |-> SubSeq(p.start, i + 1, k), at |-> k]

(* What c >= '0' && c <= 'F' lets pass for a hexadecimal digit.            *)
HexDigits == Digits \o SubSeq(Upper, 1, 6)
Between9AndA == <<":", ";", "<", "=", ">", "?", "@">>
HexLike(c) == IsDigit(c) \/ c \in ToSet(Upper \o Lower) \ {"X", "x"} \/ c \in ToSet(Between9AndA)
HexValue(c) == IF IsDigit(c) THEN DigitValue(c)
               ELSE IF c \in ToSet(Between9AndA)
               THEN (CHOOSE k \in DOMAIN Between9AndA : Between9AndA[k] = c) + 2
               ELSE (CHOOSE k \in 1 .. 6 : c \in {Upper[k], Lower[k]}) + 9

(* The automaton of readstrexp: what one character does to the string, the *)
(* state and the code of an escape so far.  "closed" and "bad" end it.     *)
Put(r, c) == [r EXCEPT !.str = Append(@, c), !.state = "ok"]

InText(r, c) ==
  CASE c = "\\" -> [r EXCEPT !.state = "bsl"]
    [] c = DOUBLEQUOTE -> [r EXCEPT !.state = "closed"]
    [] OTHER    -> Put(r, c)

AfterBackslash(r, c) ==
  CASE IsOctal(c)         -> [r EXCEPT !.state = "oct1", !.c1 = DigitValue(c)]
    [] c \in {"x", "X"}   -> [r EXCEPT !.state = "x1", !.c1 = 0]
    [] c = "n"            -> Put(r, "\n")
    [] c = "t"            -> Put(r, "\t")
    [] c = "r"            -> Put(r, "\r")
    [] OTHER              -> Put(r, c)

InHex(r, c) ==
  IF ~HexLike(c) THEN [r EXCEPT !.state = "bad"]
  ELSE IF r.state = "x1" THEN [r EXCEPT !.state = "x2", !.c1 = HexValue(c)]
  ELSE Put(r, Chr((16 * r.c1 + HexValue(c)) % 256))

(* A character that is no octal digit ends the escape and goes back.       *)
InOctal(r, c) ==
  IF ~IsOctal(c) THEN [Put(r, Chr(r.c1)) EXCEPT !.at = @ - 1]
  ELSE IF r.state = "oct1" THEN [r EXCEPT !.state = "oct2", !.c1 = 8 * @ + DigitValue(c)]
  ELSE IF r.c1 >= 32 THEN [r EXCEPT !.state = "bad"]
  ELSE Put(r, Chr(8 * r.c1 + DigitValue(c)))

OneCharacter(r, c) ==
  IF c = EOF \/ Len(r.str) > STRBUFFSIZE - 1 THEN [r EXCEPT !.state = "bad"]
  ELSE CASE r.state = "ok"  -> InText(r, c)
         [] r.state = "bsl" -> AfterBackslash(r, c)
         [] r.state \in {"x1", "x2"} -> InHex(r, c)
         [] r.state \in {"oct1", "oct2"} -> InOctal(r, c)

StringStep(p, r) ==
  IF r.state \in {"closed", "bad"} THEN r
  ELSE OneCharacter([r EXCEPT !.at = Past(p, @ + 1)], At(p, r.at))

(* No character is looked at more than twice.                              *)
readstrexp(p, i) ==
  LET last == 2 * p.past_the_end + 2
      run[n \in 0 .. last] ==
        IF n = 0 THEN [state |-> "ok", c1 |-> 0, str |-> << >>, at |-> i]
        ELSE StringStep(p, run[n - 1])
  IN  run[last]

---------------------------------------------------------------------------
(* Atoms.                                                                  *)

(* From an offset on, a number goes on so: with or without more points.    *)
Numeral(q) ==
  LET goes[k \in 1 .. Len(q) + 1] ==
        [point \in BOOLEAN |->
           IF k > Len(q) THEN IF point THEN "real" ELSE "integer"
           ELSE CASE IsDigit(q[k]) -> goes[k + 1][point]
                  [] q[k] = "." /\ ~point -> goes[k + 1][TRUE]
                  [] /\ q[k] \in {"e", "E"} /\ k < Len(q)
                     /\ q[k + 1] \in {"+", "-"} \/ IsDigit(q[k + 1]) -> goes[k + 2][TRUE]
                  [] OTHER -> "symbol"]
  IN  goes

Sort(q) ==
  LET sign  == Len(q) > 0 /\ q[1] \in {"+", "-"}
      first == IF sign THEN 2 ELSE 1
      point == first <= Len(q) /\ q[first] = "."
      digit == IF point THEN first + 1 ELSE first
  IN  IF digit <= Len(q) /\ IsDigit(q[digit]) THEN Numeral(q)[digit + 1][point] ELSE "symbol"

atol(q) ==
  LET number[k \in 0 .. Len(q)] ==
        IF k = 0 THEN 0
        ELSE IF IsDigit(q[k]) THEN 10 * number[k - 1] + DigitValue(q[k]) ELSE number[k - 1]
  IN  IF q[1] = "-" THEN -number[Len(q)] ELSE number[Len(q)]

(* a::b is a call of the colon hook.                                       *)
ColonHook(a, v) ==
  Pair(COLON_HOOK, Pair(Pair(QUOTE, Pair(v, NIL)), Pair(Symbol(Lowered(a)), NIL)))

mk_atom(q) ==
  LET from[i \in 1 .. Len(q) + 1] ==
        LET colons == {k \in i .. Len(q) - 1 : q[k] = ":" /\ q[k + 1] = ":"}
            atom   == SubSeq(q, i, Len(q))
        IN CASE colons # {} -> ColonHook(SubSeq(q, i, Min(colons) - 1), from[Min(colons) + 2])
             [] colons = {} /\ Sort(atom) = "integer" -> Number(atol(atom))
             [] colons = {} /\ Sort(atom) = "real"    -> Real(atom)
             [] OTHER -> Symbol(Lowered(atom))
  IN  from[1]

(* The digits of a base that a text begins with.                           *)
RadixValue(q, base) ==
  LET digits == {k \in 0 .. Len(q) :
                   \A j \in 1 .. k : HexLike(q[j]) /\ q[j] \notin ToSet(Between9AndA)
                                     /\ HexValue(q[j]) < base}
  IN  FoldLeft(LAMBDA x, c : base * x + HexValue(c), 0, SubSeq(q, 1, Max(digits)))

(* sscanf sets nothing when there is no digit: any number.                 *)
Scanned(q, base) ==
  IF q # << >> /\ HexLike(q[1]) /\ q[1] \notin ToSet(Between9AndA) /\ HexValue(q[1]) < base
  THEN {Number(RadixValue(q, base))} ELSE {Number(n) : n \in Unset}

(* The names of the characters that are written by name: a name counts for *)
(* one character of the text.                                              *)
Control == {Chr(n) : n \in 0 .. 31 \cup {127}}
charname(c) == "name of " \o c
NamedCharacter(w) == {c \in Control \cup {" "} : charname(c) = w}

(* What mk_sharp_const can give for the text after the sharp; none: the    *)
(* expression is undefined.                                                *)
mk_sharp_const(q) ==
  LET rest == Tail(q)
  IN IF q = << >> THEN {}
     ELSE CASE q = <<"t">> -> {Bool(TRUE)}
       [] q = <<"f">>      -> {Bool(FALSE)}
       [] q[1] = "o"       -> {Number(RadixValue(rest, 8))}
       [] q[1] = "d"       -> Scanned(rest, 10)
       [] q[1] = "x"       -> Scanned(rest, 16)
       [] q[1] = "b"       -> {Number(RadixValue(rest, 2))}
       [] q[1] = "\\" /\ Len(rest) = 1 ->
            {Character(IF NamedCharacter(rest[1]) = {} THEN rest[1]
                       ELSE CHOOSE c \in NamedCharacter(rest[1]) : TRUE)}
       [] q[1] = "\\" /\ Len(rest) > 1 /\ rest[1] = "x" ->
            IF HexLike(rest[2]) /\ rest[2] \notin ToSet(Between9AndA)
               /\ RadixValue(Tail(rest), 16) < 255
            THEN {Character(Chr(RadixValue(Tail(rest), 16)))} ELSE {}
       [] OTHER            -> {}

---------------------------------------------------------------------------
(* The reading opcodes.                                                    *)

s_save(o, a) == dump' = <<[op |-> o, args |-> a]>> \o dump

(* s_return of a value to the first of these frames.                       *)
ReturnTo(frames, v) ==
  /\ value' = v
  /\ IF frames = << >> THEN op' = "returned" /\ UNCHANGED <<args, dump>>
     ELSE op' = Head(frames).op /\ args' = Head(frames).args /\ dump' = Tail(frames)

s_return(v) == ReturnTo(dump, v)

Advance(i) == port' = [port EXCEPT !.curr = i]

Error == op' = "error" /\ UNCHANGED <<args, value, dump>>

(* The next token is taken, and the reader goes on with an expression.     *)
NextExpression(t) ==
  /\ tok' = t.tok /\ Advance(t.at)
  /\ op' = "RDSEXPR"

NextToken == token(port, port.curr)

READ_INTERNAL ==
  /\ op = "READ_INTERNAL"
  /\ IF NextToken.tok = EOF
     THEN /\ tok' = EOF /\ Advance(NextToken.at)
          /\ s_return(EOF_OBJ)
     ELSE NextExpression(NextToken) /\ UNCHANGED <<args, value, dump>>
  /\ UNCHANGED nesting

Expression(t) == op = "RDSEXPR" /\ tok = t

RDSEXPR_EOF ==
  /\ Expression(EOF)
  /\ s_return(EOF_OBJ)
  /\ UNCHANGED <<tok, nesting, port>>

(* A vector is read as a list first.                                       *)
RDSEXPR_LPAREN ==
  /\ Expression("LPAREN") \/ Expression("VEC")
  /\ LET vec    == IF tok = "VEC" THEN <<[op |-> "RDVEC", args |-> << >>]>> ELSE << >>
         RDLIST == [op |-> "RDLIST", args |-> << >>]
     IN CASE NextToken.tok = "RPAREN" ->
               /\ tok' = "RPAREN" /\ Advance(NextToken.at)
               /\ ReturnTo(vec \o dump, NIL)
               /\ UNCHANGED nesting
          [] NextToken.tok = "DOT" ->
               /\ tok' = "DOT" /\ Advance(NextToken.at)
               /\ op' = "error" /\ dump' = vec \o dump
               /\ UNCHANGED <<args, value, nesting>>
          [] OTHER ->
               /\ dump' = <<RDLIST>> \o vec \o dump
               /\ nesting' = nesting + 1
               /\ NextExpression(NextToken)
               /\ UNCHANGED <<args, value>>

(* What follows a quote, a comma or a comma and an at.                     *)
RDSEXPR_QUOTE ==
  \E t \in {"QUOTE", "COMMA", "ATMARK"} :
    /\ Expression(t)
    /\ s_save(CASE t = "QUOTE" -> "RDQUOTE" [] t = "COMMA" -> "RDUNQUOTE"
                [] t = "ATMARK" -> "RDUQTSP", << >>)
    /\ NextExpression(NextToken)
    /\ UNCHANGED <<args, value, nesting>>

RDSEXPR_BQUOTE ==
  /\ Expression("BQUOTE")
  /\ IF NextToken.tok = "VEC"
     THEN s_save("RDQQUOTEVEC", << >>) /\ NextExpression([NextToken EXCEPT !.tok = "LPAREN"])
     ELSE s_save("RDQQUOTE", << >>) /\ NextExpression(NextToken)
  /\ UNCHANGED <<args, value, nesting>>

RDSEXPR_ATOM ==
  /\ Expression("ATOM")
  /\ LET a == readstr_upto(port, port.curr)
     IN  s_return(mk_atom(a.str)) /\ Advance(a.at)
  /\ UNCHANGED <<tok, nesting>>

RDSEXPR_DQUOTE ==
  /\ Expression("DQUOTE")
  /\ LET r == readstrexp(port, port.curr)
     IN  /\ IF r.state = "bad" THEN Error ELSE s_return(String(r.str))
         /\ Advance(r.at)
  /\ UNCHANGED <<tok, nesting>>

RDSEXPR_SHARP_CONST ==
  /\ Expression("SHARP_CONST")
  /\ LET a == readstr_upto(port, port.curr)
     IN  /\ Advance(a.at)
         /\ IF mk_sharp_const(a.str) = {} THEN Error
            ELSE \E v \in mk_sharp_const(a.str) : s_return(v)
  /\ UNCHANGED <<tok, nesting>>

(* A sharp without a hook, and a parenthesis or a dot out of place.        *)
RDSEXPR_illegal ==
  /\ \E t \in {"SHARP", "RPAREN", "DOT"} : Expression(t)
  /\ Error
  /\ UNCHANGED <<tok, nesting, port>>

(* Fault: the end of the text is the end of the list.                      *)
RDLISTends ==
  /\ op = "RDLIST"
  /\ LET list == <<value>> \o args
     IN  IF NextToken.tok \in {EOF, "RPAREN"}
         THEN /\ s_return(reverse_in_place(NIL, list))
              /\ tok' = NextToken.tok /\ Advance(NextToken.at)
              /\ nesting' = nesting - 1
         ELSE /\ s_save(IF NextToken.tok = "DOT" THEN "RDDOT" ELSE "RDLIST", list)
              /\ NextExpression(IF NextToken.tok = "DOT" THEN token(port, NextToken.at)
                                ELSE NextToken)
              /\ UNCHANGED <<args, value, nesting>>

(* A newline that follows the end of a list is swallowed.                  *)
RDLIST ==
  /\ op = "RDLIST"
  /\ LET list == <<value>> \o args
         at   == NextToken.at
     IN CASE NextToken.tok = EOF ->
               /\ s_return(EOF_OBJ)
               /\ tok' = EOF /\ Advance(at)
               /\ UNCHANGED nesting
          [] NextToken.tok = "RPAREN" ->
               /\ s_return(reverse_in_place(NIL, list))
               /\ tok' = "RPAREN"
               /\ Advance(IF At(port, at) = "\n" THEN at + 1 ELSE at)
               /\ nesting' = nesting - 1
          [] NextToken.tok = "DOT" ->
               /\ s_save("RDDOT", list)
               /\ NextExpression(token(port, at))
               /\ UNCHANGED <<args, value, nesting>>
          [] OTHER ->
               /\ s_save("RDLIST", list)
               /\ NextExpression(NextToken)
               /\ UNCHANGED <<args, value, nesting>>

(* Fault: the list that ends after a dot is not counted.                   *)
RDDOTuncounted ==
  /\ op = "RDDOT"
  /\ Advance(NextToken.at)
  /\ IF NextToken.tok = "RPAREN" THEN s_return(reverse_in_place(value, args)) ELSE Error
  /\ UNCHANGED <<tok, nesting>>

RDDOT ==
  /\ op = "RDDOT"
  /\ Advance(NextToken.at)
  /\ IF NextToken.tok = "RPAREN"
     THEN nesting' = nesting - 1 /\ s_return(reverse_in_place(value, args))
     ELSE Error /\ UNCHANGED nesting
  /\ UNCHANGED tok

RDABBREVIATION ==
  /\ \/ op = "RDQUOTE"   /\ s_return(Pair(QUOTE, Pair(value, NIL)))
     \/ op = "RDQQUOTE"  /\ s_return(Pair(QQUOTE, Pair(value, NIL)))
     \/ op = "RDUNQUOTE" /\ s_return(Pair(UNQUOTE, Pair(value, NIL)))
     \/ op = "RDUQTSP"   /\ s_return(Pair(UNQUOTESP, Pair(value, NIL)))
     \/ op = "RDQQUOTEVEC" /\ s_return(Pair(Symbol(<<"apply">>), Pair(Symbol(<<"vector">>),
                                        Pair(Pair(QQUOTE, Pair(value, NIL)), NIL))))
  /\ UNCHANGED <<tok, nesting, port>>

(* vector takes nothing but a proper list.                                 *)
RDVEC ==
  /\ op = "RDVEC"
  /\ IF is_list(value) THEN s_return(Vector(Members(value))) ELSE Error
  /\ UNCHANGED <<tok, nesting, port>>

Reading ==
  \/ READ_INTERNAL
  \/ RDSEXPR_EOF \/ RDSEXPR_LPAREN \/ RDSEXPR_QUOTE \/ RDSEXPR_BQUOTE
  \/ RDSEXPR_ATOM \/ RDSEXPR_DQUOTE \/ RDSEXPR_SHARP_CONST \/ RDSEXPR_illegal
  \/ RDLIST \/ RDDOT \/ RDABBREVIATION \/ RDVEC
=============================================================================
