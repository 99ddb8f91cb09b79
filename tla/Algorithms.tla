----------------------------- MODULE Algorithms -----------------------------
(***************************************************************************)
(* One call of each algorithm of modules Lists, Numbers and Base64 on      *)
(* every small input, and a few requests to the table of module Symbols,   *)
(* against a definition of what they promise.                              *)
(***************************************************************************)
EXTENDS Lists, Numbers, Base64, Symbols, FiniteSets

CONSTANTS
  NPairs,      \* bound: how many pairs a memory has
  Bytes,       \* bound: the bytes that are encoded
  NBytes,      \* bound: and how many of them
  Words,       \* bound: the names of the symbols that are asked for
  NRequests    \* bound: and how many of them

ASSUME AlgorithmsAssumption ==
  NPairs \in Nat /\ Bytes \subseteq 0 .. 255 /\ NBytes \in Nat /\ NRequests \in Nat

Atom == NPairs + 2

Pointer == 1 .. Atom

VARIABLES
  before,   \* the memory of lists
  call,     \* the call that was made, once one was
  after     \* the memory and the pointer, or the number, it has returned

vars == <<before, call, after>>

(* Elements that tell the pairs apart, and elements that end a list.       *)
Cars == {[p \in 2 .. NPairs + 1 |-> p], [p \in 2 .. NPairs + 1 |-> NIL],
         [p \in 2 .. NPairs + 1 |-> Atom]}

Memories ==
  { [p \in Pointer |->
       CASE p = NIL  -> Cell("nil", NIL, NIL)
         [] p = Atom -> Cell("atom", NIL, NIL)
         [] OTHER    -> Cell("pair", cars[p], cdrs[p])] :
    cars \in Cars, cdrs \in [2 .. NPairs + 1 -> Pointer] }

Straight == CHOOSE m \in Memories : \A p \in 2 .. NPairs + 1 : m[p].cdr = NIL

---------------------------------------------------------------------------
(* The definitions that the algorithms are compared with.                  *)

(* The number of pairs before the list ends, if it does.                   *)
Ends(m, a) == { n \in 0 .. Len(m) : ~is_pair(m, Along(m, a)[n]) }

Length(m, a) == CHOOSE n \in Ends(m, a) : \A k \in Ends(m, a) : n <= k

Proper(m, a) == Ends(m, a) # {} /\ Along(m, a)[Length(m, a)] = NIL

Elements(m, a) == [n \in 1 .. Length(m, a) |-> m[Along(m, a)[n - 1]].car]

CellsOf(m, a) == { Along(m, a)[n] : n \in 0 .. Length(m, a) - 1 }

Backwards(s) == [n \in 1 .. Len(s) |-> s[Len(s) + 1 - n]]

(* Three bytes are a number of 24 bits, written in four digits of base 64; *)
(* of the last group only the digits that its bytes reach.                 *)
Group(bytes, k) ==
  LET byte(i) == IF i <= Len(bytes) THEN bytes[i] ELSE 0
  IN  (65536 * byte(k)) + (256 * byte(k + 1)) + byte(k + 2)

Digit(bytes, k) ==
  (Group(bytes, (3 * ((k - 1) \div 4)) + 1)
     \div <<262144, 4096, 64, 1>>[((k - 1) % 4) + 1]) % 64

Used(n) == ((4 * n) + 2) \div 3

Encoded(bytes, padded) ==
  LET used == Used(Len(bytes))
      text == [k \in 1 .. used |-> Digit(bytes, k)]
  IN  IF padded THEN text \o [k \in 1 .. (4 - (used % 4)) % 4 |-> PAD] ELSE text

Unchanged(m, r, S) == \A p \in S : r.m[p] = m[p]

---------------------------------------------------------------------------
Init ==
  /\ before \in Memories
  /\ call = [f |-> "none"]
  /\ after = [m |-> before, p |-> NIL]

Call(f, a, b, r) ==
  /\ call' = [f |-> f, a |-> a, b |-> b]
  /\ after' = r
  /\ UNCHANGED before

ListCall ==
  \E a \in Pointer :
    \/ Call("list_length", a, NIL, [m |-> before, p |-> list_length(before, a)])
    \/ /\ Proper(before, a)
       /\ \E b \in Pointer \ CellsOf(before, a) :
            \/ /\ Ends(before, b) # {}
               /\ CellsOf(before, a) \cap CellsOf(before, b) = {}
               /\ Call("reverse_in_place", a, b, reverse_in_place(before, b, a))
            \/ Ends(before, b) # {} /\ Call("append", a, b, append(before, a, b))
    \/ Ends(before, a) # {} /\ Call("reverse", a, NIL, reverse(before, a))
    \/ /\ Proper(before, a)
       /\ Call("list_star", a, NIL, list_star(before, a))

(* The numbers need one memory only.                                       *)
NumberCall ==
  /\ before = Straight
  /\ \E x, y \in Long :
       \/ \E r \in OP_ADD(x, y) : Call("+", x, y, r)
       \/ \E r \in OP_SUB(x, y) : Call("-", x, y, r)
       \/ \E r \in OP_MUL(x, y) : Call("*", x, y, r)
       \/ \E r \in OP_DIV(x, y) : Call("/", x, y, r)
       \/ \E r \in OP_INTDIV(x, y) : Call("quotient", x, y, r)
       \/ \E r \in OP_REM(x, y) : Call("remainder", x, y, r)
       \/ \E r \in OP_MOD(x, y) : Call("modulo", x, y, r)

(* A text for the decoder, with or without its padding.                    *)
Base64Call ==
  /\ before = Straight
  /\ \E n \in 0 .. NBytes : \E bytes \in [1 .. n -> Bytes] : \E padded \in BOOLEAN :
       Call("base64-decode", bytes, padded, scheme_base64_decode(Encoded(bytes, padded)))

Names == {Name(<<word>>, upper) : word \in Words, upper \in BOOLEAN}
           \cup {GensymName(cnt) : cnt \in 0 .. NRequests - 1}

(* What is asked for when it is a gensym, of whatever name.                *)
Fresh == Name(<< >>, FALSE)

Answer(t, hash, x) ==
  IF x = Fresh THEN gensym(t, hash, NRequests - 1) ELSE mk_symbol(t, hash, x)

(* The table after each request.                                           *)
Answering(hash, asked) ==
  LET table[k \in 0 .. NRequests] ==
        IF k = 0 THEN Empty ELSE Answer(table[k - 1], hash, asked[k])
  IN table

(* Requests for the symbols of names, or for a fresh one, with any hash.   *)
SymbolCall ==
  /\ before = Straight
  /\ \E hash \in [Names -> Buckets], asked \in [1 .. NRequests -> Names \cup {Fresh}] :
       LET table == Answering(hash, asked)
       IN  Call("symbols", asked, hash, [k \in 1 .. NRequests |-> table[k].last])

Next == call.f = "none" /\ (ListCall \/ NumberCall \/ Base64Call \/ SymbolCall)

Spec == Init /\ [][Next]_vars

---------------------------------------------------------------------------
(* list_length tells proper, circular and dotted lists apart, whatever the *)
(* length of the part before the circle, as its comment promises.          *)
LengthOrShape ==
  call.f = "list_length" =>
    after.p = IF Ends(before, call.a) = {} THEN -1
              ELSE IF Proper(before, call.a) THEN Length(before, call.a)
              ELSE -2 - Length(before, call.a)

(* What of the caller's lists changes.  append and reverse "produce new    *)
(* list": the cells there were keep what they had, and the elements are    *)
(* all there.  reverse_in_place gives the elements in the other order and  *)
(* then those of the tail, in the cells of the list: none other is         *)
(* written.  list_star, which returns all elements but the last in front   *)
(* of the last one, writes one cell of its list at most, the last but one. *)
WritesOwnCells ==
  /\ call.f = "reverse_in_place" =>
       /\ Elements(after.m, after.p)
            = Backwards(Elements(before, call.a)) \o Elements(before, call.b)
       /\ CellsOf(after.m, after.p)
            = CellsOf(before, call.a) \cup CellsOf(before, call.b)
       /\ Unchanged(before, after, Pointer \ CellsOf(before, call.a))
  /\ call.f = "append" =>
       /\ Elements(after.m, after.p)
            = Elements(before, call.a) \o Elements(before, call.b)
       /\ Unchanged(before, after, Pointer)
  /\ call.f = "reverse" =>
       /\ Elements(after.m, after.p) = Backwards(Elements(before, call.a))
       /\ Unchanged(before, after, Pointer)
  /\ call.f = "list_star" =>
       LET n == Length(before, call.a)
           walk == Along(before, call.a)
       IN /\ \A i \in 1 .. n - 1 :
               /\ is_pair(after.m, Along(after.m, after.p)[i - 1])
               /\ after.m[Along(after.m, after.p)[i - 1]].car = before[walk[i - 1]].car
          /\ IF n = 0 THEN after.p = NIL
             ELSE Along(after.m, after.p)[n - 1] = before[walk[n - 1]].car
          /\ Unchanged(before, after, Pointer \ (IF n > 2 THEN {walk[n - 2]} ELSE {}))

(* Two operands for which C's division is defined.                         *)
Divided(f) == call.f = f /\ call.b # 0 /\ ~Refused(call.a, call.b)

IsExact == after.is = "exact"

(* quotient and remainder belong together: the remainder is smaller than   *)
(* the divisor and has the sign of the dividend, and with the quotient it  *)
(* gives the dividend back.  Of all pairs of numbers one is refused.       *)
RemainderOfQuotient ==
  Divided("remainder") =>
    /\ IsExact
    /\ after.v \in Long
    /\ Abs(after.v) < Abs(call.b)
    /\ Sign(after.v) \in {0, Sign(call.a)}
    /\ \E q \in OP_INTDIV(call.a, call.b) : q.v * call.b + after.v = call.a

(* The comment in num_mod: "modulo should have same sign as second         *)
(* operand".  As long as the product of remainder and divisor fits, modulo *)
(* is the number congruent to the dividend between 0 and the divisor.      *)
ModuloIfProductFits ==
  Divided("modulo") /\ CRem(call.a, call.b) * call.b \in Long =>
    /\ IsExact
    /\ (call.a - after.v) % Abs(call.b) = 0
    /\ Abs(after.v) < Abs(call.b)
    /\ Sign(after.v) \in {0, Sign(call.b)}

(* What was encoded comes back, up to the first zero byte, which ends a    *)
(* string made by mk_string; and the buffer, "3/4 the size of src", has    *)
(* room for all bytes and the zero after them, with padding or without.    *)
Decodes ==
  call.f = "base64-decode" =>
    /\ after.string = mk_string(call.a)
    /\ after.written <= after.size

(* Whatever the hash: a name has one symbol, names that differ in more     *)
(* than their case have two, and gensym gives one that nobody has, also    *)
(* when the program has made symbols of such names itself.                 *)
OneSymbolPerName ==
  call.f = "symbols" =>
    \A j \in 1 .. NRequests, i \in 1 .. NRequests :
      i < j =>
        /\ call.a[j] = Fresh => after[i] # after[j]
        /\ call.a[i] = call.a[j] /\ call.a[j] # Fresh => after[i] = after[j]
        /\ call.a[i].letters # call.a[j].letters /\ Fresh \notin {call.a[i], call.a[j]} =>
             after[i] # after[j]
=============================================================================
