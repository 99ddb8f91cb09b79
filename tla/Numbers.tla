------------------------------- MODULE Numbers -------------------------------
(***************************************************************************)
(* The arithmetic of scheme.c on exact numbers: C's long.                  *)
(* Two operands come in, an operation is applied to them, with the tests   *)
(* that its opcode makes first.  Inexact numbers are left out but for one  *)
(* thing: where / gives one.                                               *)
(***************************************************************************)
EXTENDS Integers

CONSTANT Half  \* half of the numbers that a long can be: 2 ^ 63 with 64 bits

ASSUME NumbersAssumption == Half \in Nat \ {0}

LongMin == -Half
LongMax == Half - 1
Long == LongMin .. LongMax

(* A result that does not fit loses its upper bits.                        *)
Wrap(x) == ((x - LongMin) % (2 * Half)) + LongMin

Abs(x) == IF x < 0 THEN -x ELSE x
Sign(x) == IF x < 0 THEN -1 ELSE IF x > 0 THEN 1 ELSE 0

(* The operators / and % of C, which round towards 0.                      *)
CDiv(a, b) == Sign(a) * Sign(b) * (Abs(a) \div Abs(b))
CRem(a, b) == a - b * CDiv(a, b)

exact(v) == [is |-> "exact", v |-> v]
inexact  == [is |-> "inexact", v |-> 0]
error    == [is |-> "error", v |-> 0]
trap     == [is |-> "trap", v |-> 0]     \* the processor refuses

---------------------------------------------------------------------------
num_add(x, y) == exact(Wrap(x + y))
num_sub(x, y) == exact(Wrap(x - y))
num_mul(x, y) == exact(Wrap(x * y))

(* The quotient of the least number and -1 is not a long.                  *)
Refused(x, y) == x = LongMin /\ y = -1

num_div(x, y) ==
  CASE Refused(x, y)   -> trap
    [] ~Refused(x, y) /\ CRem(x, y) = 0 -> exact(CDiv(x, y))
    [] OTHER           -> inexact

num_intdiv(x, y) == IF Refused(x, y) THEN trap ELSE exact(CDiv(x, y))

(* The correction of the sign, for compilers whose % rounds otherwise.     *)
Corrected(res, x, y) ==
  CASE res > 0 /\ x < 0 -> res - Abs(y)
    [] res < 0 /\ x > 0 -> res + Abs(y)
    [] OTHER            -> res

(* Fault: the sign of the second operand decides.                          *)
num_remBySecond(x, y) ==
  IF Refused(x, y) THEN trap ELSE exact(Corrected(CRem(x, y), y, y))

num_rem(x, y) == IF Refused(x, y) THEN trap ELSE exact(Corrected(CRem(x, y), x, y))

(* Whether res and y have different signs is asked of their product.  When *)
(* it is too large for a long the answer is the compiler's.                *)
OppositeSigns(res, y) == {res * y < 0, Wrap(res * y) < 0}

Towards(res, y) == IF res > 0 THEN res - Abs(y) ELSE res + Abs(y)

(* Fault: a negative remainder is corrected whatever the divisor.          *)
num_modPositive(x, y) ==
  IF Refused(x, y) THEN {trap}
  ELSE LET res == CRem(x, y)
       IN {exact(IF res < 0 THEN Towards(res, y) ELSE res)}

num_mod(x, y) ==
  IF Refused(x, y) THEN {trap}
  ELSE LET res == CRem(x, y)
       IN { exact(IF opposite THEN Towards(res, y) ELSE res) :
              opposite \in OppositeSigns(res, y) }

---------------------------------------------------------------------------
(* The opcodes: what they may return for two operands.                     *)
OP_ADD(x, y) == {num_add(x, y)}
OP_SUB(x, y) == {num_sub(x, y)}
OP_MUL(x, y) == {num_mul(x, y)}
OP_DIV(x, y) == IF y = 0 THEN {error} ELSE {num_div(x, y)}
OP_INTDIV(x, y) == IF y = 0 THEN {error} ELSE {num_intdiv(x, y)}
OP_REM(x, y) == IF y = 0 THEN {error} ELSE {num_rem(x, y)}
OP_MOD(x, y) == IF y = 0 THEN {error} ELSE num_mod(x, y)
==============================================================================
