-------------------------- MODULE AlgorithmsProofs --------------------------
(***************************************************************************)
(* What module Algorithms says of the list functions, the arithmetic, the  *)
(* table of symbols and the base64 decoder, for memories, numbers, texts   *)
(* and requests of any size.                                               *)
(*                                                                         *)
(* A loop is a function of the number of its steps.  Its equation has one  *)
(* solution at most (Determined), so it is enough to know one: what the    *)
(* loop has done after n steps.  Of the walk along a list nothing is known *)
(* beforehand but that there is one (Recursion).                           *)
(***************************************************************************)
EXTENDS Algorithms, FiniteSetTheorems, WellFoundedInduction, TLAPS

---------------------------------------------------------------------------
(* Induction, and functions that are defined by a step.                    *)

(* A set of natural numbers has a least element: the intervals 0..m are    *)
(* well-founded under strict inclusion.                                    *)
LEMMA Least ==
  ASSUME NEW S, S \subseteq Nat, S # {}
  PROVE  \E m \in S : \A k \in S : m <= k
<1> DEFINE Below == {0 .. m : m \in S}
<1>1. Below \subseteq FiniteSubsetsOf(Nat) /\ Below # {}
  <2>1. ASSUME NEW m \in S  PROVE 0 .. m \in FiniteSubsetsOf(Nat)
    <3>1. IsFiniteSet(0 .. m)
      BY FS_Interval
    <3> QED BY <3>1 DEF FiniteSubsetsOf
  <2> QED BY <2>1
<1>2. \E x \in Below : \A y \in Below : ~ (<<y, x>> \in StrictSubsetOrdering(Nat))
  <2> HIDE DEF Below
  <2> QED BY <1>1, WFMin, FS_StrictSubsetOrderingWellFounded
<1>3. PICK m \in S : \A y \in Below : ~ (<<y, 0 .. m>> \in StrictSubsetOrdering(Nat))
  BY <1>2
<1>4. ASSUME NEW k \in S, ~ (m <= k)  PROVE FALSE
  <2>1. /\ 0 .. k \subseteq 0 .. m
        /\ m \in 0 .. m /\ m \notin 0 .. k
    BY <1>4
  <2>2. <<0 .. k, 0 .. m>> \in (SUBSET Nat) \X (SUBSET Nat)
    OBVIOUS
  <2>3. <<0 .. k, 0 .. m>> \in StrictSubsetOrdering(Nat)
    BY <2>1, <2>2 DEF StrictSubsetOrdering
  <2> QED BY <1>3, <2>3
<1> QED BY <1>4

(* Induction, for a set instead of a predicate.                            *)
LEMMA UpTo ==
  ASSUME NEW N \in Nat, NEW S, 0 \in S, \A n \in 1 .. N : n - 1 \in S => n \in S
  PROVE  \A n \in 0 .. N : n \in S
<1> DEFINE Bad == {n \in 0 .. N : n \notin S}
<1>1. SUFFICES ASSUME Bad # {}  PROVE FALSE
  OBVIOUS
<1>2. PICK m \in Bad : \A n \in Bad : m <= n
  <2>1. Bad \subseteq Nat
    OBVIOUS
  <2> HIDE DEF Bad
  <2> QED BY <1>1, <2>1, Least
<1>3. m \in 1 .. N /\ m - 1 \in 0 .. N /\ ~(m <= m - 1)
  OBVIOUS
<1>4. m - 1 \in S
  BY <1>2, <1>3
<1> QED BY <1>3, <1>4

(* Two functions that begin and go on in the same way are the same.        *)
Alike(f, h, N) ==
  /\ N \in Nat
  /\ f[0] = h[0]
  /\ \A n \in 1 .. N : f[n - 1] = h[n - 1] => f[n] = h[n]

LEMMA Determined ==
  ASSUME NEW f, NEW h, NEW N, Alike(f, h, N)
  PROVE  \A n \in 0 .. N : f[n] = h[n]
<1>0. N \in Nat
  BY DEF Alike
<1> DEFINE S == {n \in 0 .. N : f[n] = h[n]}
<1>1. 0 \in S
  BY <1>0 DEF Alike
<1>2. \A n \in 1 .. N : n - 1 \in S => n \in S
  BY <1>0 DEF Alike
<1>3. \A n \in 0 .. N : n \in S
  <2> HIDE DEF S
  <2> QED BY ONLY <1>0, <1>1, <1>2, UpTo
<1> QED BY <1>3

(* f begins with x, and its k-th step is g[k].                             *)
Takes(f, x, g, n) ==
  \A k \in 0 .. n : f[k] = IF k = 0 THEN x ELSE g[k][f[k - 1]]

(* A function defined from its value one step below exists.                *)
LEMMA Steps ==
  ASSUME NEW X, NEW x \in X, NEW g \in [Nat -> [X -> X]], NEW N \in Nat
  PROVE  \E f \in [0 .. N -> X] : Takes(f, x, g, N)
<1> USE DEF Takes
<1> DEFINE Good(f, n) == Takes(f, x, g, n)
           Bad == {n \in Nat : ~ \E f \in [0 .. n -> X] : Good(f, n)}
<1>1. SUFFICES ASSUME Bad # {}  PROVE FALSE
  OBVIOUS
<1>2. PICK m \in Bad : \A n \in Bad : m <= n
  <2> HIDE DEF Bad
  <2>1. Bad \subseteq Nat
    BY DEF Bad
  <2> QED BY <1>1, <2>1, Least
<1>3. m \in Nat /\ ~ \E f \in [0 .. m -> X] : Good(f, m)
  OBVIOUS
<1>4. CASE m = 0
  <2> DEFINE f == [k \in 0 .. 0 |-> x]
  <2>1. f \in [0 .. m -> X] /\ Good(f, m)
    BY <1>4
  <2> QED BY <1>3, <2>1
<1>5. CASE m # 0
  <2>1. m - 1 \in Nat /\ m - 1 \notin Bad
    <3>1. m - 1 \in Nat /\ ~ (m <= m - 1)
      BY <1>3, <1>5
    <3> HIDE DEF Bad
    <3> QED BY <1>2, <3>1
  <2>2. PICK f \in [0 .. (m - 1) -> X] : Good(f, m - 1)
    BY <2>1
  <2> DEFINE h == [k \in 0 .. m |-> IF k = m THEN g[m][f[m - 1]] ELSE f[k]]
  <2>3. /\ \A k \in 0 .. (m - 1) : h[k] = f[k] /\ f[k] \in X
        /\ h[m] = g[m][f[m - 1]]
    BY <1>3, <2>1
  <2>4. h \in [0 .. m -> X]
    BY <1>3, <2>1, <2>3
  <2>5. ASSUME NEW k \in 0 .. m  PROVE h[k] = IF k = 0 THEN x ELSE g[k][h[k - 1]]
    <3>1. CASE k = m
      BY <1>3, <1>5, <2>1, <2>3, <3>1
    <3>2. CASE k # m
      <4>1. k \in 0 .. (m - 1) /\ (k # 0 => k - 1 \in 0 .. (m - 1))
        BY <1>3, <3>2 DEF Takes
      <4>2. f[k] = IF k = 0 THEN x ELSE g[k][f[k - 1]]
        BY <2>2, <4>1
      <4> HIDE DEF h
      <4> QED BY <2>3, <4>1, <4>2
    <3> QED BY <3>1, <3>2
  <2> QED BY <1>3, <2>4, <2>5
<1> QED BY <1>4, <1>5

(* The same, where all steps are alike.                                    *)
Iterates(f, x, g, n) ==
  \A k \in 0 .. n : f[k] = IF k = 0 THEN x ELSE g[f[k - 1]]

LEMMA Recursion ==
  ASSUME NEW X, NEW x \in X, NEW g \in [X -> X], NEW N \in Nat
  PROVE  \E f \in [0 .. N -> X] : Iterates(f, x, g, N)
<1>1. PICK h : h = [k \in Nat |-> g]
  OBVIOUS
<1>2. h \in [Nat -> [X -> X]] /\ \A k \in Nat : h[k] = g
  BY <1>1
<1>3. PICK f \in [0 .. N -> X] : Takes(f, x, h, N)
  BY <1>2, Steps
<1>4. Iterates(f, x, g, N)
  BY <1>2, <1>3 DEF Takes, Iterates
<1> QED BY <1>4
---------------------------------------------------------------------------
(* Numbers.                                                                *)

(* Division of natural numbers.                                            *)
LEMMA Division ==
  ASSUME NEW a \in Nat, NEW b \in Nat \ {0}
  PROVE  /\ a \div b \in Nat /\ a % b \in 0 .. (b - 1)
         /\ a = b * (a \div b) + (a % b)
OBVIOUS

(* C's remainder and quotient: the absolute values are divided, and the    *)
(* signs put back.                                                         *)
LEMMA Truncated ==
  ASSUME NEW x \in Int, NEW y \in Int \ {0}
  PROVE  /\ CDiv(x, y) \in Int /\ CRem(x, y) \in Int
         /\ y * CDiv(x, y) + CRem(x, y) = x
         /\ Abs(CRem(x, y)) < Abs(y) /\ Abs(CRem(x, y)) <= Abs(x)
         /\ Sign(CRem(x, y)) \in {0, Sign(x)}
<1> DEFINE a == Abs(x)
           b == Abs(y)
           q == a \div b
           r == a % b
<1>1. a \in Nat /\ b \in Nat \ {0}
  BY DEF Abs
<1> HIDE DEF a, b
<1>2. q \in Nat /\ r \in 0 .. (b - 1) /\ a = b * q + r
  BY <1>1, Division
<1>3. CDiv(x, y) = Sign(x) * Sign(y) * q
  BY DEF CDiv, a, b
<1> HIDE DEF q, r
<1>4. r \in Nat /\ r <= a /\ r < b
  <2>1. b * q \in Nat
    BY <1>1, <1>2
  <2>2. PICK n \in Nat : n = b * q
    BY <2>1
  <2> QED BY <1>1, <1>2, <2>2
<1>5. CDiv(x, y) \in Int /\ CRem(x, y) = Sign(x) * r
  <2>1. CASE x >= 0 /\ y > 0
    <3>1. a = x /\ b = y /\ Sign(y) = 1 /\ (x = 0 => Sign(x) = 0) /\ (x > 0 => Sign(x) = 1)
      BY <2>1 DEF a, b, Abs, Sign
    <3>2. x = 0 => q = 0
      BY <1>1, <1>2, <3>1
    <3>3. Sign(x) * Sign(y) * q = q
      BY <1>2, <2>1, <3>1, <3>2
    <3>4. CRem(x, y) = x - y * q
      BY <1>3, <3>3 DEF CRem
    <3>5. y * q \in Int
      BY <1>2
    <3>6. CRem(x, y) = r
      BY <1>2, <1>4, <3>1, <3>4, <3>5
    <3>7. x = 0 => r = 0
      BY <1>4, <3>1
    <3> QED BY <1>2, <1>3, <1>4, <2>1, <3>1, <3>3, <3>6, <3>7
  <2>2. CASE x >= 0 /\ y < 0
    <3>1. a = x /\ b = -y /\ Sign(y) = -1 /\ (x = 0 => Sign(x) = 0) /\ (x > 0 => Sign(x) = 1)
      BY <2>2 DEF a, b, Abs, Sign
    <3>2. x = 0 => q = 0
      BY <1>1, <1>2, <3>1
    <3>3. Sign(x) * Sign(y) * q = -q
      BY <1>2, <2>2, <3>1, <3>2
    <3>4. CRem(x, y) = x - y * (-q)
      BY <1>3, <3>3 DEF CRem
    <3>5. y * (-q) = b * q /\ b * q \in Int
      BY <1>2, <3>1
    <3>6. CRem(x, y) = r
      BY <1>2, <1>4, <3>1, <3>4, <3>5
    <3>7. x = 0 => r = 0
      BY <1>4, <3>1
    <3> QED BY <1>2, <1>3, <1>4, <2>2, <3>1, <3>3, <3>6, <3>7
  <2>3. CASE x < 0 /\ y > 0
    <3>1. a = -x /\ b = y /\ Sign(y) = 1 /\ Sign(x) = -1
      BY <2>3 DEF a, b, Abs, Sign
    <3>3. Sign(x) * Sign(y) * q = -q
      BY <1>2, <3>1
    <3>4. CRem(x, y) = x - y * (-q)
      BY <1>3, <3>3 DEF CRem
    <3>5. y * (-q) = -(b * q) /\ b * q \in Int
      BY <1>2, <3>1
    <3>6. CRem(x, y) = -r
      BY <1>2, <1>4, <3>1, <3>4, <3>5
    <3> QED BY <1>2, <1>3, <1>4, <3>1, <3>3, <3>6
  <2>4. CASE x < 0 /\ y < 0
    <3>1. a = -x /\ b = -y /\ Sign(y) = -1 /\ Sign(x) = -1
      BY <2>4 DEF a, b, Abs, Sign
    <3>3. Sign(x) * Sign(y) * q = q
      BY <1>2, <3>1
    <3>4. CRem(x, y) = x - y * q
      BY <1>3, <3>3 DEF CRem
    <3>5. y * q = -(b * q) /\ b * q \in Int
      BY <1>2, <3>1
    <3>6. CRem(x, y) = -r
      BY <1>2, <1>4, <3>1, <3>4, <3>5
    <3> QED BY <1>2, <1>3, <1>4, <3>1, <3>3, <3>6
  <2> QED BY <2>1, <2>2, <2>3, <2>4
<1>6. y * CDiv(x, y) + CRem(x, y) = x
  <2>1. PICK c \in Int : c = y * CDiv(x, y)
    BY <1>5
  <2> QED BY <2>1 DEF CRem
<1>7. /\ Abs(CRem(x, y)) = r \/ (x = 0 /\ Abs(CRem(x, y)) = 0)
      /\ Sign(CRem(x, y)) \in {0, Sign(x)} /\ CRem(x, y) \in Int
  BY <1>4, <1>5 DEF Abs, Sign
<1> QED BY <1>1, <1>4, <1>5, <1>6, <1>7 DEF a, b

(* A multiple of b leaves no remainder.                                    *)
LEMMA Multiple ==
  ASSUME NEW b \in Nat \ {0}, NEW k \in Int
  PROVE  (b * k) % b = 0
<1> DEFINE z == b * k
           d == z \div b
           r == z % b
<1>1. z \in Int /\ d \in Int /\ r \in 0 .. (b - 1) /\ z = b * d + r
  OBVIOUS
<1>2. PICK e \in Int : e = k - d
  BY <1>1
<1>3. b * e = r
  <2>0. \A i \in Int : b * (k - i) = b * k - b * i
    OBVIOUS
  <2> HIDE DEF r, d
  <2>1. b * e = b * k - b * d
    BY <1>1, <1>2, <2>0
  <2>2. PICK u \in Int : u = b * d
    BY <1>1
  <2> QED BY <1>1, <2>1, <2>2
<1> HIDE DEF z, d, r
<1>4. e = 0
  <2>1. CASE e >= 1
    <3>1. b * e >= b
      BY <2>1
    <3> QED BY <1>1, <1>3, <3>1
  <2>2. CASE e <= -1
    <3>1. b * e <= -b
      BY <2>2
    <3> QED BY <1>1, <1>3, <3>1
  <2> QED BY <2>1, <2>2
<1>5. r = 0
  BY <1>3, <1>4
<1> QED BY <1>5 DEF z, r

(* What fits is not changed.                                               *)
LEMMA Fits ==
  ASSUME NEW x \in Long
  PROVE  Wrap(x) = x
<1> DEFINE n == 2 * Half
           z == x - LongMin
           d == z \div n
           r == z % n
<1>1. /\ n \in Nat \ {0} /\ z \in Nat /\ z < n /\ x \in Int /\ LongMin \in Int
      /\ z + LongMin = x
  BY NumbersAssumption DEF Long, LongMin, LongMax
<1> HIDE DEF n, z
<1>2. d \in Nat /\ r \in 0 .. (n - 1) /\ z = n * d + r
  BY <1>1, Division
<1> HIDE DEF d, r
<1>3. d = 0
  <2>1. CASE d >= 1
    <3>1. n * d >= n
      BY <1>1, <1>2, <2>1
    <3>2. PICK u \in Nat : u = n * d
      BY <1>1, <1>2
    <3> QED BY <1>1, <1>2, <3>1, <3>2
  <2> QED BY <1>2, <2>1
<1>4. r = z
  BY <1>1, <1>2, <1>3
<1> QED BY <1>1, <1>4 DEF Wrap, r, n, z

LEMMA RemainderIs ==
  ASSUME NEW x \in Long, NEW y \in Long, y # 0, ~Refused(x, y),
         NEW r \in OP_REM(x, y)
  PROVE  /\ r.is = "exact" /\ r.v \in Long
         /\ Abs(r.v) < Abs(y) /\ Sign(r.v) \in {0, Sign(x)}
         /\ \E q \in OP_INTDIV(x, y) : q.v * y + r.v = x
<1>1. x \in Int /\ y \in Int \ {0} /\ x <= LongMax /\ LongMin <= x /\ LongMin \in Int /\ LongMax \in Int
      /\ LongMin <= 0 /\ LongMax >= 0
  BY NumbersAssumption DEF Long, LongMin, LongMax
<1>2. PICK c \in Int, d \in Int : c = CRem(x, y) /\ d = CDiv(x, y)
  BY <1>1, Truncated
<1>3. /\ y * d + c = x /\ Abs(c) < Abs(y) /\ Abs(c) <= Abs(x) /\ Sign(c) \in {0, Sign(x)}
  BY <1>1, <1>2, Truncated
<1>4. Corrected(c, x, y) = c
  BY <1>1, <1>3 DEF Corrected, Sign
<1>5. r = exact(c)
  BY <1>2, <1>4 DEF OP_REM, num_rem
<1>6. r.is = "exact" /\ r.v = c
  BY <1>5 DEF exact
<1>7. c \in Long
  <2>1. LongMin <= c /\ c <= LongMax
    BY <1>1, <1>3 DEF Abs, Sign
  <2> QED BY <1>1, <2>1 DEF Long
<1>8. exact(d) \in OP_INTDIV(x, y) /\ exact(d).v = d
  BY <1>2 DEF OP_INTDIV, num_intdiv, exact
<1>9. d * y + c = x
  BY <1>1, <1>3
<1> QED BY <1>3, <1>6, <1>7, <1>8, <1>9

(* When the product fits its sign is right, and a remainder of the wrong   *)
(* sign is moved to the other side of zero.                                *)
LEMMA ModuloIs ==
  ASSUME NEW x \in Long, NEW y \in Long, y # 0, ~Refused(x, y),
         CRem(x, y) * y \in Long, NEW r \in OP_MOD(x, y)
  PROVE  /\ r.is = "exact"
         /\ (x - r.v) % Abs(y) = 0
         /\ Abs(r.v) < Abs(y) /\ Sign(r.v) \in {0, Sign(y)}
<1>1. x \in Int /\ y \in Int \ {0}
  BY NumbersAssumption DEF Long, LongMin, LongMax
<1>2. PICK c \in Int, d \in Int : c = CRem(x, y) /\ d = CDiv(x, y)
  BY <1>1, Truncated
<1>3. /\ y * d + c = x /\ Abs(c) < Abs(y)
  BY <1>1, <1>2, Truncated
<1>4. OppositeSigns(c, y) = {c * y < 0}
  BY <1>2, Fits DEF OppositeSigns
<1>5. PICK v : v = IF c * y < 0 THEN Towards(c, y) ELSE c
  OBVIOUS
<1>6. r = exact(v)
  BY <1>2, <1>4, <1>5 DEF OP_MOD, num_mod
<1>7. r.is = "exact" /\ r.v = v
  BY <1>6 DEF exact
<1>8. /\ c * y < 0 <=> (c < 0 /\ y > 0) \/ (c > 0 /\ y < 0)
  <2>1. CASE c = 0
    BY <1>1, <2>1
  <2>2. CASE c > 0 /\ y > 0
    BY <1>1, <2>2
  <2>3. CASE c > 0 /\ y < 0
    BY <1>1, <2>3
  <2>4. CASE c < 0 /\ y > 0
    BY <1>1, <2>4
  <2>5. CASE c < 0 /\ y < 0
    BY <1>1, <2>5
  <2> QED BY <1>1, <2>1, <2>2, <2>3, <2>4, <2>5
<1>9. v \in Int /\ Abs(v) < Abs(y) /\ Sign(v) \in {0, Sign(y)} /\ (v = c \/ v = c + y)
  <2>1. CASE c < 0 /\ y > 0
    <3>1. v = c + y
      BY <1>1, <1>5, <1>8, <2>1 DEF Towards, Abs
    <3> QED BY <1>1, <1>3, <2>1, <3>1 DEF Abs, Sign
  <2>2. CASE c > 0 /\ y < 0
    <3>1. v = c + y
      BY <1>1, <1>5, <1>8, <2>2 DEF Towards, Abs
    <3> QED BY <1>1, <1>3, <2>2, <3>1 DEF Abs, Sign
  <2>3. CASE ~((c < 0 /\ y > 0) \/ (c > 0 /\ y < 0))
    <3>1. v = c
      BY <1>5, <1>8, <2>3
    <3> QED BY <1>1, <1>3, <2>3, <3>1 DEF Abs, Sign
  <2> QED BY <2>1, <2>2, <2>3
<1>10. PICK e \in Int : x - v = y * e
  <2>1. CASE v = c
    BY <1>1, <1>3, <2>1
  <2>2. CASE v = c + y
    <3>1. y * (d - 1) = y * d - y
      BY <1>1
    <3>2. x - v = y * (d - 1)
      <4>1. PICK u \in Int : u = y * d
        BY <1>1
      <4> QED BY <1>1, <1>3, <2>2, <3>1, <4>1
    <3> QED BY <3>2
  <2> QED BY <1>9, <2>1, <2>2
<1>11. (x - v) % Abs(y) = 0
  <2>1. CASE y > 0
    <3>1. Abs(y) = y /\ y \in Nat \ {0}
      BY <1>1, <2>1 DEF Abs
    <3> QED BY <1>10, <3>1, Multiple
  <2>2. CASE y < 0
    <3>1. Abs(y) = -y /\ -y \in Nat \ {0} /\ -e \in Int
      BY <1>1, <2>2 DEF Abs
    <3>2. (-y) * (-e) = y * e
      BY <1>1
    <3>3. ((-y) * (-e)) % (-y) = 0
      BY <3>1, Multiple
    <3> QED BY <1>10, <3>1, <3>2, <3>3
  <2> QED BY <1>1, <2>1, <2>2
<1> QED BY <1>7, <1>9, <1>11
---------------------------------------------------------------------------
(* Lists.                                                                  *)

CellRec == [k : {"nil", "atom", "pair"}, car : Nat, cdr : Nat]

(* A memory: what car and cdr lead to is in it, and the first cell is NIL. *)
MemOK(m) ==
  /\ m \in Seq(CellRec)
  /\ Len(m) \in Nat \ {0}
  /\ m[NIL] = Cell("nil", NIL, NIL)
  /\ \A p \in 1 .. Len(m) : m[p].car \in 1 .. Len(m) /\ m[p].cdr \in 1 .. Len(m)

(* w is where n steps from a lead, for n up to N.                          *)
Walks(w, m, a, N) ==
  /\ w[0] = a
  /\ \A n \in 0 .. N : w[n] \in 1 .. Len(m)
  /\ \A n \in 1 .. N : w[n] = m[w[n - 1]].cdr

LEMMA WalkExists ==
  ASSUME NEW m, MemOK(m), NEW a \in 1 .. Len(m), NEW N \in Nat
  PROVE  \E w \in [0 .. N -> 1 .. Len(m)] : Walks(w, m, a, N)
<1> DEFINE X == 1 .. Len(m)
           g == [p \in X |-> m[p].cdr]
<1>1. g \in [X -> X]
  BY DEF MemOK
<1>2. PICK w \in [0 .. N -> X] : Iterates(w, a, g, N)
  <2> HIDE DEF X, g
  <2>1. a \in X
    BY DEF X
  <2> QED BY <1>1, <2>1, Recursion
<1>3. w[0] = a
  <2>1. 0 \in 0 .. N
    OBVIOUS
  <2> HIDE DEF g
  <2> QED BY <1>2, <2>1 DEF Iterates
<1>4. \A n \in 1 .. N : n \in 0 .. N /\ n # 0 /\ n - 1 \in 0 .. N
  OBVIOUS
<1>5. \A n \in 1 .. N : w[n] = g[w[n - 1]] /\ w[n - 1] \in X
  BY <1>2, <1>4 DEF Iterates
<1> QED BY <1>3, <1>5 DEF Walks

LEMMA AlongWalks ==
  ASSUME NEW m, MemOK(m), NEW a \in 1 .. Len(m)
  PROVE  Walks(Along(m, a), m, a, Len(m))
<1> DEFINE N == Len(m)
           Rec(f) == [n \in 0 .. N |-> IF n = 0 THEN a ELSE m[f[n - 1]].cdr]
<1>1. N \in Nat
  BY DEF MemOK
<1>2. PICK w \in [0 .. N -> 1 .. Len(m)] : Walks(w, m, a, N)
  BY <1>1, WalkExists
<1>3. w = Rec(w)
  <2>1. ASSUME NEW n \in 0 .. N  PROVE w[n] = IF n = 0 THEN a ELSE m[w[n - 1]].cdr
    <3>1. n = 0 \/ n \in 1 .. N
      BY <1>1
    <3> QED BY <1>2, <3>1 DEF Walks
  <2> QED BY <2>1
<1>4. Along(m, a) = CHOOSE f : f = Rec(f)
  BY DEF Along
<1>5. Along(m, a) = Rec(Along(m, a))
  <2> HIDE DEF Rec
  <2> QED BY <1>3, <1>4
<1> DEFINE A == Along(m, a)
<1>6. A[0] = a /\ \A n \in 1 .. N : A[n] = m[A[n - 1]].cdr
  <2> HIDE DEF A
  <2>1. A = Rec(A)
    BY <1>5 DEF A
  <2>2. 0 \in 0 .. N /\ \A n \in 1 .. N : n \in 0 .. N /\ n # 0
    BY <1>1
  <2> QED BY <2>1, <2>2
<1> HIDE DEF A, N
<1>7. \A n \in 0 .. N : A[n] = w[n]
  <2>1. A[0] = w[0]
    BY <1>2, <1>6 DEF Walks
  <2>2. \A n \in 1 .. N : A[n - 1] = w[n - 1] => A[n] = w[n]
    BY <1>2, <1>6 DEF Walks
  <2>3. Alike(A, w, N)
    BY <1>1, <2>1, <2>2 DEF Alike
  <2> QED BY <2>3, Determined
<1> QED BY <1>2, <1>6, <1>7 DEF Walks, A, N

(* Two walks from the same place are the same.                             *)
LEMMA SameWalk ==
  ASSUME NEW m, NEW a, NEW N \in Nat, NEW M \in Nat, N <= M,
         NEW v, NEW w, Walks(v, m, a, N), Walks(w, m, a, M)
  PROVE  \A n \in 0 .. N : v[n] = w[n]
<1>1. v[0] = w[0]
  BY DEF Walks
<1>2. \A n \in 1 .. N : v[n - 1] = w[n - 1] => v[n] = w[n]
  <2>1. \A n \in 1 .. N : n \in 1 .. M
    OBVIOUS
  <2> QED BY <2>1 DEF Walks
<1>3. Alike(v, w, N)
  BY <1>1, <1>2 DEF Alike
<1> QED BY <1>3, Determined

(* Where a walk comes to the same place twice, it goes on in the same way. *)
LEMMA Repeats ==
  ASSUME NEW m, NEW a, NEW N \in Nat, NEW w, Walks(w, m, a, N),
         NEW j \in 0 .. N, NEW k \in 0 .. N, j <= k, w[j] = w[k]
  PROVE  \A i \in 0 .. (N - k) : w[j + i] = w[k + i]
<1> DEFINE S == {i \in 0 .. (N - k) : w[j + i] = w[k + i]}
<1>1. 0 \in S
  OBVIOUS
<1>2. ASSUME NEW i \in 1 .. (N - k), i - 1 \in S  PROVE i \in S
  <2>1. /\ j + i \in 1 .. N /\ k + i \in 1 .. N
        /\ (j + i) - 1 = j + (i - 1) /\ (k + i) - 1 = k + (i - 1)
    OBVIOUS
  <2>2. w[j + (i - 1)] = w[k + (i - 1)]
    BY <1>2
  <2>3. w[j + i] = m[w[j + (i - 1)]].cdr /\ w[k + i] = m[w[k + (i - 1)]].cdr
    BY <2>1 DEF Walks
  <2> QED BY <2>2, <2>3
<1>3. \A i \in 0 .. (N - k) : i \in S
  <2>1. N - k \in Nat
    OBVIOUS
  <2> HIDE DEF S
  <2> QED BY <1>1, <1>2, <2>1, UpTo
<1> QED BY <1>3

EndsAt(w, m, a, N, n) ==
  /\ N \in Nat /\ Walks(w, m, a, N)
  /\ n \in 0 .. N
  /\ ~is_pair(m, w[n]) /\ \A i \in 0 .. (n - 1) : is_pair(m, w[i])

(* A walk that ends comes to no place twice.                               *)
LEMMA NoRepeat ==
  ASSUME NEW m, NEW a, NEW N, NEW w, NEW n, EndsAt(w, m, a, N, n)
  PROVE  \A j, k \in 0 .. n : w[j] = w[k] => j = k
<1>0. /\ N \in Nat /\ Walks(w, m, a, N)
      /\ n \in 0 .. N /\ ~is_pair(m, w[n]) /\ \A i \in 0 .. (n - 1) : is_pair(m, w[i])
  BY DEF EndsAt
<1> USE <1>0
<1>1. ASSUME NEW j \in 0 .. n, NEW k \in 0 .. n, w[j] = w[k], j < k  PROVE FALSE
  <2>1. \A i \in 0 .. (N - k) : w[j + i] = w[k + i]
    BY <1>1, Repeats
  <2>2. n - k \in 0 .. (N - k) /\ k + (n - k) = n /\ j + (n - k) \in 0 .. (n - 1)
    BY <1>1
  <2>3. w[j + (n - k)] = w[n]
    BY <2>1, <2>2
  <2> QED BY <2>2, <2>3
<1>2. SUFFICES ASSUME NEW j \in 0 .. n, NEW k \in 0 .. n, w[j] = w[k]  PROVE j = k
  OBVIOUS
<1>3. j < k \/ k < j \/ j = k
  OBVIOUS
<1> QED BY <1>1, <1>2, <1>3

(* The number of pairs is the first step at which there is none.           *)
LEMMA LengthIs ==
  ASSUME NEW m, MemOK(m), NEW a, Ends(m, a) # {}
  PROVE  /\ Length(m, a) \in 0 .. Len(m)
         /\ ~is_pair(m, Along(m, a)[Length(m, a)])
         /\ \A n \in 0 .. (Length(m, a) - 1) : is_pair(m, Along(m, a)[n])
<1> DEFINE E == Ends(m, a)
<1>1. E \subseteq 0 .. Len(m) /\ E \subseteq Nat
  BY DEF Ends, MemOK
<1>2. PICK l \in E : \A k \in E : l <= k
  <2> HIDE DEF E
  <2>1. E # {}
    BY DEF E
  <2> QED BY <1>1, <2>1, Least
<1>3. Length(m, a) \in E /\ \A k \in E : Length(m, a) <= k
  BY <1>2 DEF Length
<1>4. PICK n \in Nat : n = Length(m, a)
  BY <1>1, <1>3
<1>5. n \in 0 .. Len(m) /\ \A k \in 0 .. (n - 1) : k \in 0 .. Len(m) /\ ~(n <= k)
  BY <1>1, <1>3, <1>4 DEF MemOK
<1>6. \A k \in 0 .. (n - 1) : k \notin E
  BY <1>3, <1>4, <1>5
<1> QED BY <1>3, <1>4, <1>5, <1>6 DEF Ends

LEMMA LengthIsThat ==
  ASSUME NEW m, MemOK(m), NEW a, NEW n \in 0 .. Len(m),
         ~is_pair(m, Along(m, a)[n]), \A k \in 0 .. (n - 1) : is_pair(m, Along(m, a)[k])
  PROVE  Ends(m, a) # {} /\ Length(m, a) = n
<1>1. n \in Ends(m, a)
  BY DEF Ends
<1>2. PICK l : l = Length(m, a)
  OBVIOUS
<1>3. l \in 0 .. Len(m) /\ ~is_pair(m, Along(m, a)[l])
      /\ \A k \in 0 .. (l - 1) : is_pair(m, Along(m, a)[k])
  BY <1>1, <1>2, LengthIs
<1>4. ~(l \in 0 .. (n - 1)) /\ ~(n \in 0 .. (l - 1))
  BY <1>3
<1>5. l = n
  BY <1>3, <1>4 DEF MemOK
<1> QED BY <1>1, <1>2, <1>5
---------------------------------------------------------------------------
(* list_length.                                                            *)

ChaseFrom(m, a, w, E, met) ==
  /\ MemOK(m) /\ Walks(w, m, a, 2 * Len(m))
  /\ E \in 0 .. 2 * Len(m) /\ met \in BOOLEAN
  /\ \A n \in 0 .. (E - 1) : is_pair(m, w[n])
  /\ \A t \in Nat : t # 0 /\ 2 * t < E => w[2 * t] # w[t]
  /\ met \/ ~is_pair(m, w[E])
  /\ \A t \in Nat : t # 0 /\ 2 * t = E => (met <=> w[2 * t] = w[t])
  /\ met => \E t \in Nat : t # 0 /\ 2 * t = E

(* slow and fast run along the list until step E, at which they meet or    *)
(* fast comes to the end.                                                  *)
LEMMA ChaseIs ==
  ASSUME NEW m, NEW a, NEW w, NEW E, NEW met, ChaseFrom(m, a, w, E, met)
  PROVE  Chased(m, a) = [slow |-> w[E \div 2], fast |-> w[E], i |-> E, met |-> met]
<1>0. /\ MemOK(m) /\ Walks(w, m, a, 2 * Len(m))
      /\ E \in 0 .. 2 * Len(m) /\ met \in BOOLEAN
      /\ \A n \in 0 .. (E - 1) : is_pair(m, w[n])
      /\ \A t \in Nat : t # 0 /\ 2 * t < E => w[2 * t] # w[t]
      /\ met \/ ~is_pair(m, w[E])
      /\ \A t \in Nat : t # 0 /\ 2 * t = E => (met <=> w[2 * t] = w[t])
      /\ met => \E t \in Nat : t # 0 /\ 2 * t = E
  BY DEF ChaseFrom
<1> USE <1>0
<1> DEFINE N == 2 * Len(m)
           Start == [slow |-> a, fast |-> a, i |-> 0, met |-> FALSE]
           At(k) == [slow |-> w[k \div 2], fast |-> w[k], i |-> k, met |-> met /\ k = E]
           h == [n \in 0 .. N |-> At(IF n < E THEN n ELSE E)]
           Rec(f) == [n \in 0 .. N |-> IF n = 0 THEN Start ELSE Chase(m, f[n - 1])]
<1>1. N \in Nat /\ E \in 0 .. N /\ E \in Nat
  BY DEF MemOK
<1>2. \A n \in 1 .. N : w[n] = m[w[n - 1]].cdr
  BY DEF Walks
<1>3. w[0] = a
  BY DEF Walks
<1> HIDE DEF N
<1>4. At(0) = Start
  <2>1. 0 \div 2 = 0
    OBVIOUS
  <2>2. ~(met /\ 0 = E)
    OBVIOUS
  <2> QED BY <1>3, <2>1, <2>2
<1>5. ASSUME NEW n \in 1 .. E  PROVE Chase(m, At(n - 1)) = At(n)
  <2>1. n \in Nat /\ n - 1 \in Nat /\ n - 1 \in 0 .. (E - 1) /\ n - 1 # E /\ n \in 1 .. N
    BY <1>1
  <2>2. /\ ~(met /\ n - 1 = E) /\ is_pair(m, w[n - 1])
    BY <2>1
  <2>3. ~ChaseEnds(m, At(n - 1))
    BY <2>2 DEF ChaseEnds
  <2>4. w[n] = m[w[n - 1]].cdr
    BY <1>2, <2>1
  <2>5. CASE (n - 1) % 2 = 0
    <3>1. (n - 1) \div 2 = n \div 2
      BY <2>1, <2>5
    <3>2. met => n # E
      <4>1. \A t \in Nat : 2 * t # n
        BY <2>1, <2>5
      <4> QED BY <4>1
    <3>3. Chase(m, At(n - 1)) = [At(n - 1) EXCEPT !.fast = m[w[n - 1]].cdr, !.i = (n - 1) + 1]
      BY <2>3, <2>5 DEF Chase
    <3>4. Chase(m, At(n - 1)) = [slow |-> w[(n - 1) \div 2], fast |-> w[n], i |-> n, met |-> FALSE]
      <4>1. (met /\ n - 1 = E) = FALSE /\ (n - 1) + 1 = n
        BY <2>1, <2>2
      <4> QED BY <2>4, <3>3, <4>1
    <3> QED BY <3>1, <3>2, <3>4
  <2>6. CASE (n - 1) % 2 # 0
    <3>1. PICK t \in Nat : t # 0 /\ 2 * t = n /\ n \div 2 = t /\ (n - 1) \div 2 = t - 1
      <4>1. (n \div 2) # 0 /\ 2 * (n \div 2) = n /\ (n - 1) \div 2 = (n \div 2) - 1 /\ n \div 2 \in Nat
        BY <2>1, <2>6
      <4> QED BY <4>1
    <3>2. t \in 1 .. N
      BY <1>1, <2>1, <3>1
    <3>3. w[t] = m[w[(n - 1) \div 2]].cdr
      BY <1>2, <3>1, <3>2
    <3>4. (w[n] = w[t]) <=> (met /\ n = E)
      <4>1. CASE n = E
        BY <3>1, <4>1
      <4>2. CASE n # E
        <5>1. 2 * t < E
          BY <1>1, <3>1, <4>2
        <5> QED BY <3>1, <4>2, <5>1
      <4> QED BY <4>1, <4>2
    <3>5. Chase(m, At(n - 1))
            = [slow |-> m[w[(n - 1) \div 2]].cdr, fast |-> m[w[n - 1]].cdr, i |-> (n - 1) + 1,
               met |-> m[w[n - 1]].cdr = m[w[(n - 1) \div 2]].cdr]
      BY <2>3, <2>6 DEF Chase
    <3>6. Chase(m, At(n - 1)) = [slow |-> w[t], fast |-> w[n], i |-> n, met |-> (w[n] = w[t])]
      BY <2>1, <2>4, <3>3, <3>5
    <3>7. (w[n] = w[t]) = (met /\ n = E)
      BY <3>4
    <3> QED BY <3>1, <3>6, <3>7
  <2> QED BY <2>5, <2>6
<1>6. Chase(m, At(E)) = At(E)
  BY DEF Chase, ChaseEnds
<1> HIDE DEF At, Start
<1>7. /\ h[0] = Start
      /\ \A n \in 1 .. N : h[n] = Chase(m, h[n - 1])
  <2>1. h[0] = Start
    <3>1. 0 \in 0 .. N /\ (IF 0 < E THEN 0 ELSE E) = 0
      BY <1>1
    <3> QED BY <1>4, <3>1
  <2>2. ASSUME NEW n \in 1 .. N  PROVE h[n] = Chase(m, h[n - 1])
    <3>1. n \in 0 .. N /\ n - 1 \in 0 .. N /\ n \in Nat
      BY <1>1
    <3>2. CASE n \in 1 .. E
      <4>1. (IF n < E THEN n ELSE E) = n /\ (IF n - 1 < E THEN n - 1 ELSE E) = n - 1
        BY <1>1, <3>1, <3>2
      <4>2. h[n] = At(n) /\ h[n - 1] = At(n - 1)
        BY <3>1, <4>1
      <4> HIDE DEF h
      <4> QED BY <1>5, <3>2, <4>2
    <3>3. CASE n \notin 1 .. E
      <4>1. (IF n < E THEN n ELSE E) = E /\ (IF n - 1 < E THEN n - 1 ELSE E) = E
        BY <1>1, <3>1, <3>3
      <4>2. h[n] = At(E) /\ h[n - 1] = At(E)
        BY <3>1, <4>1
      <4> HIDE DEF h
      <4> QED BY <1>6, <4>2
    <3> QED BY <3>2, <3>3
  <2> HIDE DEF h
  <2> QED BY <2>1, <2>2
<1>8. h = Rec(h)
  <2>1. ASSUME NEW n \in 0 .. N  PROVE h[n] = IF n = 0 THEN Start ELSE Chase(m, h[n - 1])
    <3>1. n = 0 \/ n \in 1 .. N
      BY <1>1
    <3> HIDE DEF h
    <3> QED BY <1>7, <3>1
  <2>2. h = [n \in 0 .. N |-> h[n]]
    OBVIOUS
  <2> HIDE DEF h
  <2> QED BY <2>1, <2>2
<1>9. Chasing(m, a) = CHOOSE f : f = Rec(f)
  BY DEF Chasing, N, Start
<1>10. PICK c : c = Chasing(m, a)
  OBVIOUS
<1>11. c = Rec(c)
  <2> HIDE DEF Rec, h
  <2> QED BY <1>8, <1>9, <1>10
<1>12. \A n \in 0 .. N : c[n] = h[n]
  <2>1. 0 \in 0 .. N /\ \A n \in 1 .. N : n \in 0 .. N /\ n # 0
    BY <1>1
  <2>2. c[0] = Start
    BY <1>11, <2>1
  <2>3. \A n \in 1 .. N : c[n] = Chase(m, c[n - 1])
    BY <1>11, <2>1
  <2> HIDE DEF h, Rec
  <2>4. \A n \in 1 .. N : c[n - 1] = h[n - 1] => c[n] = h[n]
    BY <1>7, <2>3
  <2>5. c[0] = h[0] /\ N \in Nat
    BY <1>1, <1>7, <2>2
  <2>6. Alike(c, h, N)
    BY <2>4, <2>5 DEF Alike
  <2> QED BY <2>6, Determined
<1>13. \A n \in 0 .. N : ChaseEnds(m, c[n]) => c[n] = At(E)
  <2>1. ASSUME NEW n \in 0 .. N, n < E  PROVE ~ChaseEnds(m, c[n])
    <3>1. c[n] = At(n) /\ n \in 0 .. (E - 1) /\ n # E
      BY <1>1, <1>12, <2>1
    <3>2. is_pair(m, w[n]) /\ ~(met /\ n = E)
      BY <3>1
    <3>3. c[n].met = (met /\ n = E) /\ c[n].fast = w[n]
      BY <3>1 DEF At
    <3> QED BY <3>2, <3>3 DEF ChaseEnds
  <2>2. ASSUME NEW n \in 0 .. N, ~(n < E)  PROVE c[n] = At(E)
    BY <1>12, <2>2
  <2> QED BY <2>1, <2>2
<1>14. ChaseEnds(m, c[E])
  <2>1. c[E] = At(E)
    <3>1. (IF E < E THEN E ELSE E) = E
      OBVIOUS
    <3>2. h[E] = At(IF E < E THEN E ELSE E)
      BY <1>1
    <3> HIDE DEF h
    <3> QED BY <1>1, <1>12, <3>1, <3>2
  <2> QED BY <2>1 DEF ChaseEnds, At
<1>15. PICK n \in 0 .. N : n = (CHOOSE k \in 0 .. N : ChaseEnds(m, c[k])) /\ ChaseEnds(m, c[n])
  BY <1>1, <1>14
<1>16. Chased(m, a) = c[n]
  BY <1>10, <1>15 DEF Chased, N
<1> QED BY <1>13, <1>15, <1>16 DEF At

(* As Repeats, with the distance.                                         *)
LEMMA Again ==
  ASSUME NEW m, NEW a, NEW M \in Nat, NEW w, Walks(w, m, a, M),
         NEW j \in Nat, NEW k \in Nat, j < k, k <= M, w[j] = w[k],
         NEW s \in Nat, j <= s, s + (k - j) <= M
  PROVE  w[s] = w[s + (k - j)]
<1>1. j \in 0 .. M /\ k \in 0 .. M /\ j <= k
  OBVIOUS
<1>2. \A i \in 0 .. (M - k) : w[j + i] = w[k + i]
  BY <1>1, Repeats
<1>3. s - j \in 0 .. (M - k) /\ j + (s - j) = s /\ k + (s - j) = s + (k - j)
  OBVIOUS
<1> QED BY <1>2, <1>3

(* Of a circular list every cell is a pair, however far one goes, and      *)
(* slow meets fast within as many rounds as there are cells.               *)
LEMMA Meet ==
  ASSUME NEW m, MemOK(m), NEW a \in 1 .. Len(m), Ends(m, a) = {},
         NEW w, Walks(w, m, a, 2 * Len(m))
  PROVE  /\ \A n \in 0 .. 2 * Len(m) : is_pair(m, w[n])
         /\ \E t \in 1 .. Len(m) : w[2 * t] = w[t]
<1> DEFINE L == Len(m)
<1>1. L \in Nat \ {0}
  BY DEF MemOK
<1> HIDE DEF L
<1>2. \A n \in 0 .. L : is_pair(m, w[n])
  <2>1. Walks(Along(m, a), m, a, L)
    BY AlongWalks DEF L
  <2>2. Walks(w, m, a, 2 * L)
    BY DEF L
  <2>3. L \in Nat /\ 2 * L \in Nat /\ L <= 2 * L
    BY <1>1
  <2>4. \A n \in 0 .. L : Along(m, a)[n] = w[n]
    BY <2>1, <2>2, <2>3, SameWalk
  <2> QED BY <2>4 DEF Ends, L
<1>3. PICK j \in 0 .. L, k \in 0 .. L : j < k /\ w[j] = w[k]
  <2> DEFINE f == [n \in 0 .. L |-> w[n]]
  <2>1. f \in [0 .. L -> 1 .. L]
    <3>1. \A n \in 0 .. L : n \in 0 .. 2 * L
      BY <1>1
    <3> QED BY <3>1 DEF Walks, L
  <2>2. IsFiniteSet(0 .. L) /\ IsFiniteSet(1 .. L)
    <3>1. 0 \in Int /\ 1 \in Int /\ L \in Int
      BY <1>1
    <3> QED BY <3>1, FS_Interval
  <2>3. Cardinality(1 .. L) = L /\ Cardinality(0 .. L) = L + 1
    <3>1. 0 \in Int /\ 1 \in Int /\ L \in Int /\ ~(0 > L) /\ ~(1 > L)
      BY <1>1
    <3>2. Cardinality(1 .. L) = (L - 1) + 1 /\ Cardinality(0 .. L) = (L - 0) + 1
      BY <3>1, FS_Interval
    <3> QED BY <1>1, <3>2
  <2>4. Cardinality(1 .. L) < Cardinality(0 .. L)
    BY <1>1, <2>3
  <2>5. \E x, y \in 0 .. L : x # y /\ f[x] = f[y]
    <3> HIDE DEF f
    <3>1. PICK S, T : S = 0 .. L /\ T = 1 .. L
      OBVIOUS
    <3>2. IsFiniteSet(S) /\ IsFiniteSet(T) /\ Cardinality(T) < Cardinality(S) /\ f \in [S -> T]
      BY <2>1, <2>2, <2>4, <3>1
    <3>3. \E x, y \in S : x # y /\ f[x] = f[y]
      BY ONLY <3>2, FS_PigeonHole
    <3> QED BY <3>1, <3>3
  <2>6. PICK x \in 0 .. L, y \in 0 .. L : x # y /\ w[x] = w[y]
    BY <2>5
  <2>7. x < y \/ y < x
    BY <2>6, <1>1
  <2> QED BY <2>6, <2>7
<1>4. PICK d \in 1 .. L : d = k - j
  BY <1>1, <1>3
<1>5. ASSUME NEW s \in Nat, j <= s, s + d <= 2 * L  PROVE w[s] = w[s + d]
  <2>1. PICK M \in Nat : M = 2 * L
    BY <1>1
  <2>2. Walks(w, m, a, M) /\ k \in Nat /\ k <= M
    BY <1>1, <1>3, <2>1 DEF L
  <2>3. s \in Nat /\ j <= s /\ s + (k - j) <= M
    BY <1>1, <1>3, <1>4, <1>5, <2>1
  <2>4. w[s] = w[s + (k - j)]
    BY ONLY j \in Nat, <1>3, <2>1, <2>2, <2>3, Again
  <2> QED BY <1>4, <2>4
<1>6. \A n \in 0 .. 2 * L : is_pair(m, w[n])
  <2> DEFINE Bad == {n \in 0 .. 2 * L : ~is_pair(m, w[n])}
  <2>1. SUFFICES ASSUME Bad # {}  PROVE FALSE
    OBVIOUS
  <2>2. PICK n \in Bad : \A x \in Bad : n <= x
    <3>1. Bad \subseteq Nat
      BY <1>1
    <3> HIDE DEF Bad
    <3> QED BY <2>1, <3>1, Least
  <2>3. n \in 0 .. 2 * L /\ ~is_pair(m, w[n])
    OBVIOUS
  <2>4. n \notin 0 .. L
    BY <1>2, <2>3
  <2>5. n - d \in Nat /\ j <= n - d /\ (n - d) + d = n /\ n <= 2 * L /\ n - d \in 0 .. 2 * L /\ ~(n <= n - d)
    BY <1>1, <1>3, <1>4, <2>3, <2>4
  <2>6. w[n - d] = w[n]
    <3>1. PICK s \in Nat : s = n - d
      BY <2>5
    <3>2. w[s] = w[s + d]
      BY <1>5, <2>5, <3>1
    <3> QED BY <2>5, <3>1, <3>2
  <2>7. n - d \in Bad
    BY <2>3, <2>5, <2>6
  <2> HIDE DEF Bad
  <2> QED BY <2>2, <2>5, <2>7
<1>7. PICK q \in Nat, r \in Nat : k = d * q + r /\ r < d /\ q # 0
  <2>1. k \in Nat /\ d \in Nat \ {0}
    BY <1>1, <1>3, <1>4
  <2>2. /\ k \div d \in Nat /\ k % d \in 0 .. (d - 1)
        /\ k = d * (k \div d) + (k % d)
    BY <2>1, Division
  <2>3. k \div d # 0
    <3>1. k >= d
      BY <1>1, <1>3, <1>4
    <3> QED BY <2>1, <2>2, <3>1
  <2>4. k % d \in Nat /\ k % d < d
    BY <2>1, <2>2
  <2> QED BY <2>2, <2>3, <2>4
<1>8. PICK t \in Nat : t = d * q
  BY <1>4, <1>7, <1>1
<1>9. t \in 1 .. L /\ j <= t /\ t <= k
  <2>1. t # 0
    BY <1>1, <1>4, <1>7, <1>8
  <2>2. k = t + r
    BY <1>7, <1>8
  <2> QED BY <1>1, <1>3, <1>4, <1>7, <2>1, <2>2
<1>10. \A c \in 0 .. q : w[t] = w[t + d * c]
  <2> DEFINE S == {c \in 0 .. q : w[t] = w[t + d * c]}
  <2>1. 0 \in S
    <3>1. t + d * 0 = t
      BY <1>1, <1>4
    <3> QED BY <1>7, <3>1
  <2>2. ASSUME NEW c \in 1 .. q, c - 1 \in S  PROVE c \in S
    <3>1. w[t] = w[t + d * (c - 1)]
      BY <2>2
    <3>2. PICK u \in Nat : u = d * (c - 1)
      BY <1>1, <1>4
    <3>3. d * c = u + d
      BY <1>1, <1>4, <3>2
    <3>4. d * c <= d * q
      BY <1>1, <1>4, <1>7
    <3>5. t + u \in Nat /\ j <= t + u /\ (t + u) + d <= 2 * L /\ t + d * c = (t + u) + d
      BY <1>1, <1>3, <1>4, <1>8, <1>9, <3>2, <3>3, <3>4
    <3>6. w[t + u] = w[(t + u) + d]
      BY <1>5, <3>5
    <3> QED BY <3>1, <3>2, <3>5, <3>6
  <2> HIDE DEF S
  <2>3. \A c \in 0 .. q : c \in S
    BY ONLY q \in Nat, <2>1, <2>2, UpTo
  <2> QED BY <2>3 DEF S
<1>11. w[2 * t] = w[t]
  <2>1. t + d * q = 2 * t /\ q \in 0 .. q
    BY <1>7, <1>8
  <2> QED BY <1>10, <2>1
<1> QED BY <1>6, <1>9, <1>11 DEF L

LEMMA LengthFoundIs ==
  ASSUME NEW m, MemOK(m), NEW a \in 1 .. Len(m)
  PROVE  list_length(m, a) = IF Ends(m, a) = {} THEN -1
                             ELSE IF Proper(m, a) THEN Length(m, a)
                             ELSE -2 - Length(m, a)
<1> DEFINE L == Len(m)
<1>1. L \in Nat \ {0} /\ 2 * L \in Nat
  BY DEF MemOK
<1>2. PICK w : Walks(w, m, a, 2 * L)
  BY <1>1, WalkExists
<1>3. CASE Ends(m, a) = {}
  <2> DEFINE Met == {t \in 1 .. L : w[2 * t] = w[t]}
  <2>1. Met # {} /\ Met \subseteq Nat /\ \A n \in 0 .. 2 * L : is_pair(m, w[n])
    BY <1>2, <1>3, Meet
  <2>2. PICK T \in Met : \A t \in Met : T <= t
    <3> HIDE DEF Met
    <3> QED BY <2>1, Least
  <2>3. T \in 1 .. L /\ w[2 * T] = w[T]
    OBVIOUS
  <2>4. PICK E \in 0 .. 2 * L : E = 2 * T
    BY <1>1, <2>3
  <2>5. \A n \in 0 .. (E - 1) : is_pair(m, w[n])
    <3>1. \A n \in 0 .. (E - 1) : n \in 0 .. 2 * L
      BY <1>1
    <3> QED BY <2>1, <3>1
  <2>6. \A t \in Nat : t # 0 /\ 2 * t < E => w[2 * t] # w[t]
    <3>1. ASSUME NEW t \in Nat, t # 0, 2 * t < E, w[2 * t] = w[t]  PROVE FALSE
      <4>1. t \in 1 .. L /\ ~(T <= t)
        BY <1>1, <2>3, <2>4, <3>1
      <4>2. t \in Met
        BY <3>1, <4>1
      <4> HIDE DEF Met
      <4> QED BY <2>2, <4>1, <4>2
    <3> QED BY <3>1
  <2>7. \A t \in Nat : t # 0 /\ 2 * t = E => (TRUE <=> w[2 * t] = w[t])
    <3>1. ASSUME NEW t \in Nat, 2 * t = E  PROVE t = T
      BY <2>3, <2>4, <3>1, <1>1
    <3> QED BY <2>3, <3>1
  <2>8. T \in Nat /\ T # 0 /\ 2 * T = E
    BY <1>1, <2>3, <2>4
  <2> HIDE DEF Met, L
  <2>9. PICK met \in BOOLEAN : met = TRUE
    OBVIOUS
  <2>10. Chased(m, a) = [slow |-> w[E \div 2], fast |-> w[E], i |-> E, met |-> met]
    <3>1. Walks(w, m, a, 2 * Len(m)) /\ E \in 0 .. 2 * Len(m)
      BY <1>2 DEF L
    <3>2. \A t \in Nat : t # 0 /\ 2 * t = E => (met <=> w[2 * t] = w[t])
      BY <2>7, <2>9
    <3>3. /\ met => \E t \in Nat : t # 0 /\ 2 * t = E
          /\ met \/ ~is_pair(m, w[E])
      BY <2>8, <2>9
    <3>4. ChaseFrom(m, a, w, E, met)
      BY <2>5, <2>6, <3>1, <3>2, <3>3 DEF ChaseFrom
    <3> QED BY <3>4, ChaseIs
  <2>11. LengthFound(Chased(m, a)) = -1
    BY <2>9, <2>10 DEF LengthFound
  <2> QED BY <1>3, <2>11 DEF list_length
<1>4. CASE Ends(m, a) # {}
  <2>1. PICK E : E = Length(m, a)
    OBVIOUS
  <2>2. /\ E \in 0 .. L
        /\ ~is_pair(m, Along(m, a)[E])
        /\ \A n \in 0 .. (E - 1) : is_pair(m, Along(m, a)[n])
    BY <1>4, <2>1, LengthIs
  <2>3. \A n \in 0 .. L : Along(m, a)[n] = w[n]
    <3>1. Walks(Along(m, a), m, a, L) /\ L <= 2 * L
      BY <1>1, AlongWalks
    <3> HIDE DEF L
    <3> QED BY <1>1, <1>2, <3>1, SameWalk
  <2>4. /\ ~is_pair(m, w[E])
        /\ \A n \in 0 .. (E - 1) : is_pair(m, w[n])
        /\ Along(m, a)[E] = w[E]
    <3>1. \A n \in 0 .. (E - 1) : n \in 0 .. L
      BY <1>1, <2>2
    <3> QED BY <2>2, <2>3, <3>1
  <2>5. E \in 0 .. 2 * L /\ E \in Nat
    BY <1>1, <2>2
  <2>6. \A j, k \in 0 .. E : w[j] = w[k] => j = k
    <3>1. PICK M \in Nat : M = 2 * L
      BY <1>1
    <3>2. Walks(w, m, a, M) /\ E \in 0 .. M
      BY <1>2, <2>5, <3>1
    <3>3. EndsAt(w, m, a, M, E)
      BY <2>4, <3>2 DEF EndsAt
    <3> QED BY ONLY <3>3, NoRepeat
  <2>7. ASSUME NEW t \in Nat, t # 0, 2 * t <= E  PROVE w[2 * t] # w[t]
    <3>1. t \in 0 .. E /\ 2 * t \in 0 .. E /\ 2 * t # t
      BY <2>5, <2>7
    <3> QED BY <2>6, <3>1
  <2>8. PICK met \in BOOLEAN : met = FALSE
    OBVIOUS
  <2>9. Chased(m, a) = [slow |-> w[E \div 2], fast |-> w[E], i |-> E, met |-> met]
    <3>1. \A t \in Nat : t # 0 /\ 2 * t = E => (met <=> w[2 * t] = w[t])
      BY <2>5, <2>7, <2>8
    <3>2. \A t \in Nat : t # 0 /\ 2 * t < E => w[2 * t] # w[t]
      BY <2>5, <2>7
    <3>3. ~met /\ Walks(w, m, a, 2 * Len(m)) /\ E \in 0 .. 2 * Len(m)
      BY <1>2, <2>5, <2>8 DEF L
    <3>4. ChaseFrom(m, a, w, E, met)
      BY <2>4, <3>1, <3>2, <3>3 DEF ChaseFrom
    <3> QED BY <3>4, ChaseIs
  <2>10. LengthFound(Chased(m, a)) = IF w[E] = NIL THEN E ELSE -2 - E
    BY <2>8, <2>9 DEF LengthFound
  <2> QED BY <1>4, <2>1, <2>4, <2>10 DEF list_length, Proper
<1> QED BY <1>3, <1>4
---------------------------------------------------------------------------
(* Lists in a memory, and what a loop leaves of them.                      *)

(* From a on, w goes along n pairs and then comes to something else.       *)
List(w, m, a, n) ==
  /\ Walks(w, m, a, n)
  /\ ~is_pair(m, w[n])
  /\ \A i \in 0 .. (n - 1) : is_pair(m, w[i])

(* The pairs of a list that ends are different, so there are fewer than    *)
(* the memory has cells.                                                   *)
LEMMA Short ==
  ASSUME NEW m, MemOK(m), NEW a, NEW n \in Nat, NEW w, List(w, m, a, n)
  PROVE  n < Len(m) /\ \A j, k \in 0 .. n : w[j] = w[k] => j = k
<1>1. PICK L \in Nat : L = Len(m)
  BY DEF MemOK
<1>2. Walks(w, m, a, n) /\ n \in 0 .. n /\ ~is_pair(m, w[n]) /\ \A i \in 0 .. (n - 1) : is_pair(m, w[i])
  BY DEF List
<1>3. \A j, k \in 0 .. n : w[j] = w[k] => j = k
  <2>1. EndsAt(w, m, a, n, n)
    BY <1>2 DEF EndsAt
  <2> QED BY ONLY <2>1, NoRepeat
<1>4. ASSUME ~(n < L)  PROVE FALSE
  <2> DEFINE f == [i \in 0 .. n |-> w[i]]
  <2>1. \A i \in 0 .. n : f[i] = w[i]
    OBVIOUS
  <2>2. f \in [0 .. n -> 1 .. L]
    BY <1>1, <1>2 DEF Walks
  <2> HIDE DEF f
  <2>3. PICK S, T : S = 0 .. n /\ T = 1 .. L
    OBVIOUS
  <2>4. IsFiniteSet(S) /\ IsFiniteSet(T) /\ Cardinality(S) = n + 1 /\ Cardinality(T) = L
    <3>1. 0 \in Int /\ 1 \in Int /\ L \in Int /\ n \in Int /\ ~(0 > n) /\ (n - 0) + 1 = n + 1
          /\ (1 > L => L = 0) /\ (L - 1) + 1 = L
      BY <1>1
    <3>2. IsFiniteSet(0 .. n) /\ Cardinality(0 .. n) = n + 1
      BY <3>1, FS_Interval
    <3>3. IsFiniteSet(1 .. L) /\ Cardinality(1 .. L) = L
      BY <3>1, FS_Interval
    <3> QED BY <2>3, <3>2, <3>3
  <2>5. Cardinality(T) < Cardinality(S) /\ f \in [S -> T]
    BY <1>1, <1>4, <2>2, <2>3, <2>4
  <2>6. \E x, y \in S : x # y /\ f[x] = f[y]
    BY ONLY <2>4, <2>5, FS_PigeonHole
  <2> QED BY <1>3, <2>1, <2>3, <2>6
<1> QED BY <1>1, <1>3, <1>4

(* What module Algorithms finds out about a list.                          *)
LEMMA ListIs ==
  ASSUME NEW m, MemOK(m), NEW a \in 1 .. Len(m), NEW n \in Nat, NEW w, List(w, m, a, n)
  PROVE  /\ Ends(m, a) # {} /\ Length(m, a) = n
         /\ \A i \in 0 .. n : Along(m, a)[i] = w[i]
         /\ Elements(m, a) = [i \in 1 .. n |-> m[w[i - 1]].car]
         /\ CellsOf(m, a) = {w[i] : i \in 0 .. (n - 1)}
<1>1. PICK L \in Nat : L = Len(m)
  BY DEF MemOK
<1>2. n < L
  BY <1>1, Short
<1>3. Walks(w, m, a, n) /\ Walks(Along(m, a), m, a, L) /\ n <= L
  BY <1>1, <1>2, AlongWalks DEF List
<1>4. PICK v : v = Along(m, a)
  OBVIOUS
<1>5. \A i \in 0 .. n : v[i] = w[i]
  <2>1. \A i \in 0 .. n : w[i] = v[i]
    <3>1. Walks(v, m, a, L)
      BY <1>3, <1>4
    <3> QED BY ONLY n \in Nat, L \in Nat, <1>3, <3>1, SameWalk
  <2> QED BY <2>1
<1>6. ~is_pair(m, v[n]) /\ \A i \in 0 .. (n - 1) : is_pair(m, v[i])
  <2>1. n \in 0 .. n /\ \A i \in 0 .. (n - 1) : i \in 0 .. n
    OBVIOUS
  <2> QED BY <1>5, <2>1 DEF List
<1>7. Ends(m, a) # {} /\ Length(m, a) = n
  <2>1. n \in 0 .. Len(m)
    BY <1>1, <1>2
  <2> QED BY <1>4, <1>6, <2>1, LengthIsThat
<1>8. \A i \in 1 .. n : i - 1 \in 0 .. n
  OBVIOUS
<1>9. \A i \in 0 .. (n - 1) : i \in 0 .. n
  OBVIOUS
<1>10. Elements(m, a) = [i \in 1 .. n |-> m[w[i - 1]].car]
  <2>1. Elements(m, a) = [i \in 1 .. n |-> m[v[i - 1]].car]
    BY <1>4, <1>7 DEF Elements
  <2> QED BY <1>5, <1>8, <2>1
<1>11. CellsOf(m, a) = {w[i] : i \in 0 .. (n - 1)}
  <2>1. CellsOf(m, a) = {v[i] : i \in 0 .. (n - 1)}
    BY <1>4, <1>7 DEF CellsOf
  <2> QED BY <1>5, <1>9, <2>1
<1> QED BY <1>4, <1>5, <1>7, <1>10, <1>11

LEMMA IsList ==
  ASSUME NEW m, MemOK(m), NEW a \in 1 .. Len(m), Ends(m, a) # {}
  PROVE  /\ Length(m, a) \in Nat
         /\ List(Along(m, a), m, a, Length(m, a))
         /\ Passed(m, a) \in Length(m, a) .. Len(m)
<1>1. PICK n, L, v : n = Length(m, a) /\ L = Len(m) /\ v = Along(m, a)
  OBVIOUS
<1>2. L \in Nat /\ n \in 0 .. L /\ ~is_pair(m, v[n]) /\ \A i \in 0 .. (n - 1) : is_pair(m, v[i])
  BY <1>1, LengthIs DEF MemOK
<1>3. Walks(v, m, a, L)
  BY <1>1, AlongWalks
<1>4. Walks(v, m, a, n)
  <2>1. (\A i \in 0 .. n : i \in 0 .. L) /\ (\A i \in 1 .. n : i \in 1 .. L)
    BY <1>2
  <2> QED BY <1>3, <2>1 DEF Walks
<1>5. PICK k \in 0 .. L : k = Passed(m, a) /\ ~is_pair(m, v[k])
  <2>1. n \in 0 .. Len(m) /\ ~is_pair(m, Along(m, a)[n])
    BY <1>1, <1>2
  <2>2. PICK k : k = Passed(m, a)
    OBVIOUS
  <2>3. k \in 0 .. Len(m) /\ ~is_pair(m, Along(m, a)[k])
    BY <2>1, <2>2 DEF Passed
  <2> QED BY <1>1, <2>2, <2>3
<1>6. ~(k \in 0 .. (n - 1))
  BY <1>2, <1>5
<1>7. k \in n .. L /\ n \in Nat
  BY <1>2, <1>5, <1>6
<1> QED BY <1>1, <1>2, <1>4, <1>5, <1>7 DEF List

(* A loop that has ended changes nothing.                                  *)
LEMMA Stays ==
  ASSUME NEW n \in Nat, NEW N \in Nat, n <= N, NEW c,
         \A k \in n + 1 .. N : c[k - 1] = c[n] => c[k] = c[n]
  PROVE  \A k \in n .. N : c[k] = c[n]
<1> DEFINE S == {i \in 0 .. (N - n) : c[n + i] = c[n]}
<1>1. 0 \in S
  OBVIOUS
<1>2. ASSUME NEW i \in 1 .. (N - n), i - 1 \in S  PROVE i \in S
  <2>1. n + i \in n + 1 .. N /\ (n + i) - 1 = n + (i - 1)
    OBVIOUS
  <2>2. c[n + (i - 1)] = c[n]
    BY <1>2
  <2> QED BY <2>1, <2>2
<1>3. ASSUME NEW k \in n .. N  PROVE k - n \in S
  <2>1. N - n \in Nat /\ k - n \in 0 .. (N - n)
    OBVIOUS
  <2> HIDE DEF S
  <2> QED BY ONLY <1>1, <1>2, <2>1, UpTo
<1>4. \A k \in n .. N : n + (k - n) = k
  OBVIOUS
<1> QED BY <1>3, <1>4

LEMMA ConsIs ==
  ASSUME NEW m, MemOK(m), NEW a \in 1 .. Len(m), NEW d \in 1 .. Len(m)
  PROVE  /\ MemOK(cons(m, a, d)) /\ Len(cons(m, a, d)) = Len(m) + 1
         /\ \A p \in 1 .. Len(m) : cons(m, a, d)[p] = m[p]
         /\ cons(m, a, d)[Len(m) + 1] = Cell("pair", a, d)
<1>0. PICK L \in Nat \ {0} : L = Len(m)
  BY DEF MemOK
<1>1. PICK c : L = Len(m) /\ c = Cell("pair", a, d)
  BY <1>0
<1>2. c \in CellRec /\ c.car = a /\ c.cdr = d
  BY <1>1 DEF Cell, CellRec
<1>3. PICK t : t = cons(m, a, d)
  OBVIOUS
<1>4. t = Append(m, c) /\ m \in Seq(CellRec)
  BY <1>1, <1>3 DEF cons, MemOK
<1>5. t \in Seq(CellRec) /\ Len(t) = L + 1 /\ (\A p \in 1 .. L : t[p] = m[p]) /\ t[L + 1] = c
  BY <1>1, <1>2, <1>4
<1>6. NIL \in 1 .. L
  BY <1>1 DEF NIL
<1>7. t[NIL] = Cell("nil", NIL, NIL)
  BY <1>5, <1>6 DEF MemOK
<1>8. ASSUME NEW p \in 1 .. L + 1  PROVE t[p].car \in 1 .. L + 1 /\ t[p].cdr \in 1 .. L + 1
  <2>1. CASE p \in 1 .. L
    <3>1. t[p] = m[p] /\ m[p].car \in 1 .. L /\ m[p].cdr \in 1 .. L
      BY <1>1, <1>5, <2>1 DEF MemOK
    <3> QED BY <1>1, <3>1
  <2>2. CASE p = L + 1
    BY <1>1, <1>2, <1>5, <2>2
  <2> QED BY <1>1, <2>1, <2>2
<1>9. MemOK(t)
  BY <1>1, <1>5, <1>7, <1>8 DEF MemOK
<1> QED BY <1>1, <1>3, <1>5, <1>9
---------------------------------------------------------------------------
(* reverse.                                                                *)

(* NIL is no pair, and its own rest.                                       *)
LEMMA NilIs ==
  ASSUME NEW m, MemOK(m)
  PROVE  ~is_pair(m, NIL) /\ m[NIL].cdr = NIL /\ m[NIL].car = NIL
<1>1. m[NIL] = Cell("nil", NIL, NIL)
  BY DEF MemOK
<1> QED BY <1>1 DEF is_pair, Cell

CopyStates ==
  {s \in [m : Seq(CellRec), p : Nat, a : Nat] :
     MemOK(s.m) /\ s.p \in 1 .. Len(s.m) /\ s.a \in 1 .. Len(s.m)}

LEMMA CopyType ==
  ASSUME NEW s \in CopyStates
  PROVE  Copy(s) \in CopyStates
<1>1. MemOK(s.m) /\ s.p \in 1 .. Len(s.m) /\ s.a \in 1 .. Len(s.m)
  BY DEF CopyStates
<1>2. PICK L \in Nat : L = Len(s.m)
  BY <1>1 DEF MemOK
<1>3. CASE is_pair(s.m, s.a)
  <2>1. PICK c, d, x : x = s.m[s.a].car /\ d = s.m[s.a].cdr /\ c = cons(s.m, x, s.p)
    OBVIOUS
  <2>2. x \in 1 .. L /\ d \in 1 .. L
    BY <1>1, <1>2, <2>1 DEF MemOK
  <2>3. MemOK(c) /\ Len(c) = L + 1
    BY <1>1, <1>2, <2>1, <2>2, ConsIs
  <2>4. Copy(s) = [m |-> c, p |-> L + 1, a |-> d]
    BY <1>2, <1>3, <2>1 DEF Copy
  <2>5. L + 1 \in 1 .. L + 1 /\ d \in 1 .. L + 1 /\ d \in Nat /\ L + 1 \in Nat
    BY <1>2, <2>2
  <2> QED BY <2>3, <2>4, <2>5 DEF CopyStates, MemOK
<1>4. CASE ~is_pair(s.m, s.a)
  BY <1>4 DEF Copy
<1> QED BY <1>3, <1>4

LEMMA CopyingRuns ==
  ASSUME NEW m, MemOK(m), NEW a \in 1 .. Len(m)
  PROVE  /\ Copying(m, a)[0] = [m |-> m, p |-> NIL, a |-> a]
         /\ \A n \in 1 .. Len(m) : Copying(m, a)[n] = Copy(Copying(m, a)[n - 1])
         /\ \A n \in 0 .. Len(m) : Copying(m, a)[n] \in CopyStates
<1>1. PICK N \in Nat, x \in CopyStates : N = Len(m) /\ x = [m |-> m, p |-> NIL, a |-> a]
  <2>1. Len(m) \in Nat \ {0} /\ NIL \in 1 .. Len(m) /\ NIL \in Nat /\ a \in Nat /\ m \in Seq(CellRec)
    BY DEF MemOK, NIL
  <2>2. [m |-> m, p |-> NIL, a |-> a] \in CopyStates
    BY <2>1 DEF CopyStates
  <2> QED BY <2>1, <2>2
<1> DEFINE g == [s \in CopyStates |-> Copy(s)]
           Rec(f) == [n \in 0 .. N |-> IF n = 0 THEN x ELSE Copy(f[n - 1])]
<1>2. g \in [CopyStates -> CopyStates]
  BY CopyType
<1>3. PICK f \in [0 .. N -> CopyStates] : Iterates(f, x, g, N)
  <2> HIDE DEF g
  <2> QED BY <1>2, Recursion
<1>4. \A n \in 1 .. N : n \in 0 .. N /\ n # 0 /\ n - 1 \in 0 .. N
  OBVIOUS
<1>5. f[0] = x /\ \A n \in 1 .. N : f[n] = Copy(f[n - 1])
  <2>1. 0 \in 0 .. N
    OBVIOUS
  <2> QED BY <1>3, <1>4, <2>1 DEF Iterates
<1> HIDE DEF g
<1>6. f = Rec(f)
  <2>1. ASSUME NEW n \in 0 .. N  PROVE f[n] = IF n = 0 THEN x ELSE Copy(f[n - 1])
    <3>1. n = 0 \/ n \in 1 .. N
      OBVIOUS
    <3> QED BY <1>5, <3>1
  <2> QED BY <2>1
<1>7. PICK c : c = Copying(m, a)
  OBVIOUS
<1>8. c = Rec(c)
  <2>1. c = CHOOSE h : h = Rec(h)
    BY <1>1, <1>7 DEF Copying
  <2> HIDE DEF Rec
  <2> QED BY <1>6, <2>1
<1>9. c[0] = x /\ \A n \in 1 .. N : c[n] = Copy(c[n - 1])
  <2>1. 0 \in 0 .. N
    OBVIOUS
  <2> QED BY <1>4, <1>8, <2>1
<1> HIDE DEF Rec
<1>10. \A n \in 0 .. N : c[n] = f[n]
  <2>1. N \in Nat /\ c[0] = f[0]
    BY <1>5, <1>9
  <2>2. \A n \in 1 .. N : c[n - 1] = f[n - 1] => c[n] = f[n]
    BY <1>5, <1>9
  <2>3. Alike(c, f, N)
    BY <2>1, <2>2 DEF Alike
  <2> QED BY <2>3, Determined
<1>11. \A n \in 0 .. N : c[n] \in CopyStates
  BY <1>3, <1>10
<1> QED BY <1>1, <1>7, <1>9, <1>11

(* After k steps the first k elements are in new cells, the last of them   *)
(* in front.                                                               *)
Copied(s, m, w, k) ==
  /\ MemOK(s.m) /\ Len(s.m) = Len(m) + k
  /\ s.a = w[k]
  /\ s.p = IF k = 0 THEN NIL ELSE Len(m) + k
  /\ \A p \in 1 .. Len(m) : s.m[p] = m[p]
  /\ \A i \in 1 .. k :
       s.m[Len(m) + i] = Cell("pair", m[w[i - 1]].car, IF i = 1 THEN NIL ELSE Len(m) + (i - 1))

LEMMA CopyStep ==
  ASSUME NEW m, MemOK(m), NEW a, NEW n \in Nat, NEW w, List(w, m, a, n),
         NEW k \in 1 .. n, NEW s \in CopyStates, Copied(s, m, w, k - 1)
  PROVE  Copied(Copy(s), m, w, k)
<1>1. PICK L \in Nat \ {0} : L = Len(m)
  BY DEF MemOK
<1>2. PICK j \in Nat : j = k - 1 /\ k = j + 1 /\ j \in 0 .. (n - 1)
  OBVIOUS
<1>3. is_pair(m, w[j]) /\ w[j] \in 1 .. L /\ w[k] = m[w[j]].cdr
  <2>1. j \in 0 .. n
    BY <1>2
  <2> QED BY <1>1, <1>2, <2>1 DEF List, Walks
<1>4. /\ MemOK(s.m) /\ Len(s.m) = L + j /\ s.a = w[j]
      /\ s.p = IF j = 0 THEN NIL ELSE L + j
      /\ \A p \in 1 .. L : s.m[p] = m[p]
      /\ \A i \in 1 .. j :
           s.m[L + i] = Cell("pair", m[w[i - 1]].car, IF i = 1 THEN NIL ELSE L + (i - 1))
  BY <1>1, <1>2 DEF Copied
<1>5. s.m[w[j]] = m[w[j]]
  BY <1>3, <1>4
<1>6. is_pair(s.m, s.a)
  BY <1>3, <1>4, <1>5 DEF is_pair
<1>7. PICK c, x : x = m[w[j]].car /\ c = cons(s.m, x, s.p)
  OBVIOUS
<1>8. x \in 1 .. L + j /\ s.p \in 1 .. L + j
  <2>1. x \in 1 .. L
    BY <1>1, <1>3, <1>7 DEF MemOK
  <2>2. s.p \in 1 .. L + j
    BY <1>1, <1>4 DEF NIL
  <2> QED BY <2>1, <2>2
<1>9. /\ MemOK(c) /\ Len(c) = (L + j) + 1
      /\ \A p \in 1 .. L + j : c[p] = s.m[p]
      /\ c[(L + j) + 1] = Cell("pair", x, s.p)
  <2>1. PICK e, y : e = s.m /\ y = s.p
    OBVIOUS
  <2>2. MemOK(e) /\ Len(e) = L + j /\ x \in 1 .. Len(e) /\ y \in 1 .. Len(e) /\ c = cons(e, x, y)
    BY <1>4, <1>7, <1>8, <2>1
  <2>3. /\ MemOK(c) /\ Len(c) = Len(e) + 1
        /\ \A p \in 1 .. Len(e) : c[p] = e[p]
        /\ c[Len(e) + 1] = Cell("pair", x, y)
    BY <2>2, ConsIs
  <2> QED BY <2>1, <2>2, <2>3
<1>10. Copy(s) = [m |-> c, p |-> (L + j) + 1, a |-> w[k]]
  BY <1>3, <1>4, <1>5, <1>6, <1>7 DEF Copy
<1>11. \A p \in 1 .. L : c[p] = m[p]
  <2>1. \A p \in 1 .. L : p \in 1 .. L + j
    OBVIOUS
  <2> QED BY <1>4, <1>9, <2>1
<1>12. ASSUME NEW i \in 1 .. k
       PROVE  c[L + i] = Cell("pair", m[w[i - 1]].car, IF i = 1 THEN NIL ELSE L + (i - 1))
  <2>1. CASE i = k
    <3>1. i - 1 = j /\ L + i = (L + j) + 1 /\ (i = 1 <=> j = 0)
      BY <1>2, <2>1
    <3> QED BY <1>4, <1>7, <1>9, <3>1
  <2>2. CASE i # k
    <3>1. i \in 1 .. j /\ L + i \in 1 .. L + j
      BY <1>2, <2>2
    <3> QED BY <1>4, <1>9, <3>1
  <2> QED BY <2>1, <2>2
<1>13. Len(c) = L + k /\ (L + j) + 1 = L + k /\ k # 0
  <2>1. Len(c) = (L + j) + 1
    BY <1>9
  <2> QED BY <1>2, <2>1
<1>14. /\ Copy(s).m = c /\ Copy(s).a = w[k] /\ Copy(s).p = L + k
  BY <1>10, <1>13
<1> QED BY <1>1, <1>9, <1>11, <1>12, <1>13, <1>14 DEF Copied

(* r is m with a list in new cells, of the elements at the n places of w,  *)
(* the last in front.                                                      *)
ReverseOf(r, m, w, n) ==
  /\ n \in Nat
  /\ MemOK(r.m) /\ Len(r.m) = Len(m) + n
  /\ \A p \in 1 .. Len(m) : r.m[p] = m[p]
  /\ r.p \in 1 .. Len(r.m)
  /\ \E v : /\ List(v, r.m, r.p, n)
            /\ v[n] = NIL
            /\ \A i \in 0 .. (n - 1) : v[i] \notin 1 .. Len(m)
            /\ \A i \in 0 .. (n - 1) : r.m[v[i]].car = m[w[(n - 1) - i]].car

LEMMA Reversed ==
  ASSUME NEW m, MemOK(m), NEW a \in 1 .. Len(m), Ends(m, a) # {}
  PROVE  ReverseOf(reverse(m, a), m, Along(m, a), Length(m, a))
<1>0. PICK n, r : n = Length(m, a) /\ r = reverse(m, a)
  OBVIOUS
<1> USE <1>0
<1>1. PICK L \in Nat \ {0} : L = Len(m)
  BY DEF MemOK
<1>2. PICK w, c, N : w = Along(m, a) /\ c = Copying(m, a) /\ N = Passed(m, a)
  OBVIOUS
<1>3. n \in Nat /\ List(w, m, a, n) /\ N \in n .. L
  BY <1>1, <1>2, IsList
<1>4. n < L
  BY <1>1, <1>3, Short
<1>5. /\ c[0] = [m |-> m, p |-> NIL, a |-> a]
      /\ \A k \in 1 .. L : c[k] = Copy(c[k - 1])
      /\ \A k \in 0 .. L : c[k] \in CopyStates
  <2>1. /\ Copying(m, a)[0] = [m |-> m, p |-> NIL, a |-> a]
        /\ \A k \in 1 .. Len(m) : Copying(m, a)[k] = Copy(Copying(m, a)[k - 1])
        /\ \A k \in 0 .. Len(m) : Copying(m, a)[k] \in CopyStates
    BY CopyingRuns
  <2> QED BY <1>1, <1>2, <2>1
<1>6. \A k \in 0 .. n : Copied(c[k], m, w, k)
  <2> DEFINE S == {k \in 0 .. n : Copied(c[k], m, w, k)}
  <2>1. 0 \in S
    <3>1. w[0] = a
      BY <1>3 DEF List, Walks
    <3>2. c[0].m = m /\ c[0].p = NIL /\ c[0].a = a
      BY <1>5
    <3>3. Copied(c[0], m, w, 0)
      BY <1>1, <3>1, <3>2 DEF Copied
    <3> QED BY <1>3, <3>3
  <2>2. ASSUME NEW k \in 1 .. n, k - 1 \in S  PROVE k \in S
    <3>1. k \in 1 .. L /\ k - 1 \in 0 .. L /\ k \in 0 .. n
      BY <1>1, <1>3, <1>4
    <3>2. PICK s \in CopyStates : s = c[k - 1]
      BY <1>5, <3>1
    <3>3. Copied(s, m, w, k - 1)
      BY <2>2, <3>2
    <3>4. Copied(Copy(s), m, w, k)
      BY <1>3, <3>3, CopyStep
    <3>5. c[k] = Copy(s)
      BY <1>5, <3>1, <3>2
    <3> QED BY <3>1, <3>4, <3>5
  <2>3. \A k \in 0 .. n : k \in S
    <3> HIDE DEF S
    <3> QED BY ONLY <1>3, <2>1, <2>2, UpTo
  <2> QED BY <2>3
<1>7. n \in 0 .. n
  BY <1>3
<1>8. PICK z : z = c[n] /\ Copied(z, m, w, n)
  BY <1>6, <1>7
<1>9. Copy(z) = z
  <2>1. z.a = w[n] /\ w[n] \in 1 .. L /\ ~is_pair(m, w[n]) /\ z.m[w[n]] = m[w[n]]
    BY <1>1, <1>3, <1>7, <1>8 DEF Copied, List, Walks
  <2>2. ~is_pair(z.m, z.a)
    BY <2>1 DEF is_pair
  <2> QED BY <2>2 DEF Copy
<1>10. c[N] = z
  <2>1. \A k \in n + 1 .. L : c[k - 1] = c[n] => c[k] = c[n]
    <3>1. \A k \in n + 1 .. L : k \in 1 .. L
      BY <1>3
    <3> QED BY <1>5, <1>8, <1>9, <3>1
  <2>2. n \in Nat /\ L \in Nat /\ n <= L
    BY <1>3, <1>4
  <2>3. \A k \in n .. L : c[k] = c[n]
    BY ONLY <2>1, <2>2, Stays
  <2> QED BY <1>3, <1>8, <2>3
<1>11. r.m = z.m /\ r.p = z.p
  <2>1. r = [m |-> c[N].m, p |-> c[N].p]
    BY <1>2 DEF reverse
  <2> QED BY <1>10, <2>1
<1>12. /\ MemOK(z.m) /\ Len(z.m) = L + n
       /\ z.p = IF n = 0 THEN NIL ELSE L + n
       /\ \A p \in 1 .. L : z.m[p] = m[p]
       /\ \A i \in 1 .. n :
            z.m[L + i] = Cell("pair", m[w[i - 1]].car, IF i = 1 THEN NIL ELSE L + (i - 1))
  BY <1>1, <1>8 DEF Copied
<1> DEFINE v == [i \in 0 .. n |-> IF i = n THEN NIL ELSE (L + n) - i]
<1>13. v[n] = NIL /\ \A i \in 0 .. (n - 1) : v[i] = L + (n - i) /\ n - i \in 1 .. n
  <2>1. ASSUME NEW i \in 0 .. (n - 1)  PROVE v[i] = L + (n - i) /\ n - i \in 1 .. n
    <3>1. i \in 0 .. n /\ i # n /\ (L + n) - i = L + (n - i) /\ n - i \in 1 .. n
      BY <1>3
    <3> QED BY <3>1
  <2>2. v[n] = NIL
    BY <1>7
  <2> HIDE DEF v
  <2> QED BY <2>1, <2>2
<1>14. v[0] = z.p
  BY <1>1, <1>3, <1>12
<1> HIDE DEF v
<1>15. ASSUME NEW i \in 0 .. (n - 1)
       PROVE  /\ is_pair(z.m, v[i]) /\ v[i] \in 1 .. L + n /\ v[i] \notin 1 .. L
              /\ z.m[v[i]].car = m[w[(n - 1) - i]].car
              /\ z.m[v[i]].cdr = v[i + 1]
  <2>1. PICK j \in 1 .. n : j = n - i /\ v[i] = L + j
    BY <1>13
  <2>2. z.m[v[i]] = Cell("pair", m[w[j - 1]].car, IF j = 1 THEN NIL ELSE L + (j - 1))
    BY <1>12, <2>1
  <2>3. j - 1 = (n - 1) - i
    BY <1>3, <2>1
  <2>4. v[i + 1] = IF j = 1 THEN NIL ELSE L + (j - 1)
    <3>1. CASE j = 1
      <4>1. i + 1 = n
        <5>1. n \in Nat
          BY <1>3
        <5> QED BY ONLY <5>1, i \in 0 .. (n - 1), j \in 1 .. n, <2>1, <3>1
      <4>2. v[i + 1] = v[n] /\ v[n] = NIL
        BY <1>13, <4>1
      <4> QED BY <3>1, <4>2
    <3>2. CASE j # 1
      <4>1. i + 1 \in 0 .. (n - 1) /\ n - (i + 1) = j - 1
        <5>1. n \in Nat
          BY <1>3
        <5> QED BY ONLY <5>1, i \in 0 .. (n - 1), j \in 1 .. n, <2>1, <3>2
      <4>2. v[i + 1] = L + (n - (i + 1))
        BY <1>13, <4>1
      <4> QED BY <3>2, <4>1, <4>2
    <3> QED BY <3>1, <3>2
  <2>5. v[i] \in 1 .. L + n /\ v[i] \notin 1 .. L
    <3>1. n \in Nat
      BY <1>3
    <3> QED BY ONLY <3>1, L \in Nat, j \in 1 .. n, <2>1
  <2> QED BY <2>2, <2>3, <2>4, <2>5 DEF is_pair, Cell
<1>16. NIL \in 1 .. L /\ NIL \in 1 .. L + n
  BY <1>1, <1>3 DEF NIL
<1>17. ~is_pair(z.m, NIL)
  BY <1>12, NilIs
<1>18. List(v, z.m, z.p, n)
  <2>1. ASSUME NEW i \in 0 .. n  PROVE v[i] \in 1 .. L + n
    <3>1. i = n \/ i \in 0 .. (n - 1)
      BY <1>3
    <3> QED BY <1>13, <1>15, <1>16, <3>1
  <2>2. ASSUME NEW i \in 1 .. n  PROVE v[i] = z.m[v[i - 1]].cdr
    <3>1. i - 1 \in 0 .. (n - 1) /\ (i - 1) + 1 = i
      BY <1>3
    <3> QED BY <1>15, <3>1
  <2> QED BY <1>12, <1>13, <1>14, <1>15, <1>17, <2>1, <2>2 DEF List, Walks
<1>19. z.p \in 1 .. Len(z.m)
  BY <1>1, <1>3, <1>12, <1>16
<1>20. \E u : /\ List(u, r.m, r.p, n)
              /\ u[n] = NIL
              /\ \A i \in 0 .. (n - 1) : u[i] \notin 1 .. Len(m)
              /\ \A i \in 0 .. (n - 1) : r.m[u[i]].car = m[Along(m, a)[(n - 1) - i]].car
  <2>1. /\ List(v, r.m, r.p, n)
        /\ v[n] = NIL
        /\ \A i \in 0 .. (n - 1) : v[i] \notin 1 .. Len(m)
        /\ \A i \in 0 .. (n - 1) : r.m[v[i]].car = m[Along(m, a)[(n - 1) - i]].car
    BY <1>1, <1>2, <1>11, <1>13, <1>15, <1>18
  <2> QED BY <2>1
<1>21. ReverseOf(r, m, Along(m, a), n)
  BY <1>1, <1>3, <1>11, <1>12, <1>19, <1>20 DEF ReverseOf
<1> QED BY <1>21
---------------------------------------------------------------------------
(* reverse_in_place.                                                       *)

SetCdr(m, p, d) == [m EXCEPT ![p].cdr = d]

SetCdrAt(t, m, p, d) ==
  /\ MemOK(m) /\ p \in 1 .. Len(m) /\ p # NIL /\ d \in 1 .. Len(m)
  /\ t = SetCdr(m, p, d)

LEMMA SetCdrIs ==
  ASSUME NEW t, NEW m, NEW p, NEW d, SetCdrAt(t, m, p, d)
  PROVE  /\ MemOK(t) /\ Len(t) = Len(m)
         /\ \A q \in 1 .. Len(m) : q # p => t[q] = m[q]
         /\ t[p].k = m[p].k /\ t[p].car = m[p].car /\ t[p].cdr = d
<1>0. /\ MemOK(m) /\ p \in 1 .. Len(m) /\ p # NIL /\ d \in 1 .. Len(m)
      /\ t = SetCdr(m, p, d)
  BY DEF SetCdrAt
<1> USE <1>0
<1>1. PICK L \in Nat \ {0} : L = Len(m)
  BY DEF MemOK
<1>2. m \in Seq(CellRec) /\ m \in [1 .. L -> CellRec] /\ d \in Nat
  BY <1>1 DEF MemOK
<1>3. PICK c : c = [m[p] EXCEPT !.cdr = d]
  OBVIOUS
<1>4. c \in CellRec /\ c.k = m[p].k /\ c.car = m[p].car /\ c.cdr = d
  BY <1>1, <1>2, <1>3 DEF CellRec
<1>5. t = [m EXCEPT ![p] = c]
  BY <1>0, <1>3 DEF SetCdr
<1>6. t \in [1 .. L -> CellRec] /\ t[p] = c /\ \A q \in 1 .. L : q # p => t[q] = m[q]
  BY <1>1, <1>2, <1>4, <1>5
<1>7. t \in Seq(CellRec) /\ Len(t) = L
  <2>1. L \in Nat /\ t \in [1 .. L -> CellRec]
    BY <1>6
  <2> QED BY ONLY <2>1
<1>8. NIL \in 1 .. L
  BY <1>1 DEF NIL
<1>9. t[NIL] = Cell("nil", NIL, NIL)
  BY <1>6, <1>8 DEF MemOK
<1>10. ASSUME NEW q \in 1 .. L  PROVE t[q].car \in 1 .. L /\ t[q].cdr \in 1 .. L
  <2>1. m[q].car \in 1 .. L /\ m[q].cdr \in 1 .. L
    BY <1>1 DEF MemOK
  <2>2. CASE q = p
    BY <1>1, <1>4, <1>6, <2>1, <2>2
  <2>3. CASE q # p
    BY <1>6, <2>1, <2>3
  <2> QED BY <2>2, <2>3
<1>11. MemOK(t)
  BY <1>1, <1>7, <1>9, <1>10 DEF MemOK
<1> QED BY <1>0, <1>1, <1>4, <1>6, <1>7, <1>11

RelinkStates ==
  {s \in [m : Seq(CellRec), result : Nat, p : Nat] :
     MemOK(s.m) /\ s.result \in 1 .. Len(s.m) /\ s.p \in 1 .. Len(s.m)}

LEMMA RelinkType ==
  ASSUME NEW s \in RelinkStates
  PROVE  Relink(s) \in RelinkStates
<1>1. MemOK(s.m) /\ s.result \in 1 .. Len(s.m) /\ s.p \in 1 .. Len(s.m) /\ s.p \in Nat
  BY DEF RelinkStates
<1>2. PICK L \in Nat : L = Len(s.m)
  BY <1>1 DEF MemOK
<1>3. CASE s.p # NIL
  <2>1. PICK t, d : t = [s.m EXCEPT ![s.p].cdr = s.result] /\ d = s.m[s.p].cdr
    OBVIOUS
  <2>2. MemOK(t) /\ Len(t) = L
    <3>1. PICK e, q, x : e = s.m /\ q = s.p /\ x = s.result
      OBVIOUS
    <3>2. MemOK(e) /\ q \in 1 .. Len(e) /\ q # NIL /\ x \in 1 .. Len(e) /\ t = SetCdr(e, q, x)
      BY <1>1, <1>3, <2>1, <3>1 DEF SetCdr
    <3>3. MemOK(t) /\ Len(t) = Len(e)
      <4>1. SetCdrAt(t, e, q, x)
        BY <3>2 DEF SetCdrAt
      <4> QED BY ONLY <4>1, SetCdrIs
    <3> QED BY <1>2, <3>1, <3>3
  <2>3. d \in 1 .. L /\ d \in Nat
    BY <1>1, <1>2, <2>1 DEF MemOK
  <2>4. Relink(s) = [m |-> t, result |-> s.p, p |-> d]
    BY <1>3, <2>1 DEF Relink
  <2> QED BY <1>1, <1>2, <2>2, <2>3, <2>4 DEF RelinkStates, MemOK
<1>4. CASE s.p = NIL
  BY <1>4 DEF Relink
<1> QED BY <1>3, <1>4

LEMMA RelinkingRuns ==
  ASSUME NEW m, MemOK(m), NEW term \in 1 .. Len(m), NEW a \in 1 .. Len(m)
  PROVE  /\ Relinking(m, term, a)[0] = [m |-> m, result |-> term, p |-> a]
         /\ \A n \in 1 .. Len(m) : Relinking(m, term, a)[n] = Relink(Relinking(m, term, a)[n - 1])
         /\ \A n \in 0 .. Len(m) : Relinking(m, term, a)[n] \in RelinkStates
<1>1. PICK N \in Nat, x \in RelinkStates : N = Len(m) /\ x = [m |-> m, result |-> term, p |-> a]
  <2>1. Len(m) \in Nat \ {0} /\ term \in Nat /\ a \in Nat /\ m \in Seq(CellRec)
    BY DEF MemOK
  <2>2. [m |-> m, result |-> term, p |-> a] \in RelinkStates
    BY <2>1 DEF RelinkStates
  <2> QED BY <2>1, <2>2
<1> DEFINE g == [s \in RelinkStates |-> Relink(s)]
           Rec(f) == [n \in 0 .. N |-> IF n = 0 THEN x ELSE Relink(f[n - 1])]
<1>2. g \in [RelinkStates -> RelinkStates]
  BY RelinkType
<1>3. PICK f \in [0 .. N -> RelinkStates] : Iterates(f, x, g, N)
  <2> HIDE DEF g
  <2> QED BY <1>2, Recursion
<1>4. \A n \in 1 .. N : n \in 0 .. N /\ n # 0 /\ n - 1 \in 0 .. N
  OBVIOUS
<1>5. f[0] = x /\ \A n \in 1 .. N : f[n] = Relink(f[n - 1])
  <2>1. 0 \in 0 .. N
    OBVIOUS
  <2> QED BY <1>3, <1>4, <2>1 DEF Iterates
<1> HIDE DEF g
<1>6. f = Rec(f)
  <2>1. ASSUME NEW n \in 0 .. N  PROVE f[n] = IF n = 0 THEN x ELSE Relink(f[n - 1])
    <3>1. n = 0 \/ n \in 1 .. N
      OBVIOUS
    <3> QED BY <1>5, <3>1
  <2> QED BY <2>1
<1>7. PICK c : c = Relinking(m, term, a)
  OBVIOUS
<1>8. c = Rec(c)
  <2>1. c = CHOOSE h : h = Rec(h)
    BY <1>1, <1>7 DEF Relinking
  <2> HIDE DEF Rec
  <2> QED BY <1>6, <2>1
<1>9. c[0] = x /\ \A n \in 1 .. N : c[n] = Relink(c[n - 1])
  <2>1. 0 \in 0 .. N
    OBVIOUS
  <2> QED BY <1>4, <1>8, <2>1
<1> HIDE DEF Rec
<1>10. \A n \in 0 .. N : c[n] = f[n]
  <2>1. N \in Nat /\ c[0] = f[0]
    BY <1>5, <1>9
  <2>2. \A n \in 1 .. N : c[n - 1] = f[n - 1] => c[n] = f[n]
    BY <1>5, <1>9
  <2>3. Alike(c, f, N)
    BY <2>1, <2>2 DEF Alike
  <2> QED BY <2>3, Determined
<1>11. \A n \in 0 .. N : c[n] \in RelinkStates
  BY <1>3, <1>10
<1> QED BY <1>1, <1>7, <1>9, <1>11

(* After k steps the first k cells lead to the one before them, and no     *)
(* other cell has changed.                                                 *)
Relinked(s, m, w, term, k) ==
  /\ MemOK(s.m) /\ Len(s.m) = Len(m)
  /\ s.p = w[k]
  /\ s.result = IF k = 0 THEN term ELSE w[k - 1]
  /\ \A q \in 1 .. Len(m) : (\A i \in 0 .. (k - 1) : q # w[i]) => s.m[q] = m[q]
  /\ \A i \in 0 .. (k - 1) :
       /\ s.m[w[i]].k = m[w[i]].k /\ s.m[w[i]].car = m[w[i]].car
       /\ s.m[w[i]].cdr = IF i = 0 THEN term ELSE w[i - 1]

LEMMA RelinkStep ==
  ASSUME NEW m, MemOK(m), NEW term \in 1 .. Len(m),
         NEW a, NEW n \in Nat, NEW w, List(w, m, a, n),
         NEW k \in 1 .. n, NEW s \in RelinkStates, Relinked(s, m, w, term, k - 1)
  PROVE  Relinked(Relink(s), m, w, term, k)
<1>1. PICK L \in Nat \ {0} : L = Len(m)
  BY DEF MemOK
<1>2. PICK j \in Nat : j = k - 1 /\ k = j + 1 /\ j \in 0 .. (n - 1)
  OBVIOUS
<1>3. is_pair(m, w[j]) /\ w[j] \in 1 .. L /\ w[k] = m[w[j]].cdr
  <2>1. j \in 0 .. n
    BY <1>2
  <2> QED BY <1>1, <1>2, <2>1 DEF List, Walks
<1>4. \A i \in 0 .. (j - 1) : w[i] \in 1 .. L /\ w[i] # w[j] /\ i \in 0 .. (k - 1)
  <2>1. \A x, y \in 0 .. n : w[x] = w[y] => x = y
    BY Short
  <2>2. \A i \in 0 .. n : w[i] \in 1 .. L
    BY <1>1 DEF List, Walks
  <2>3. \A i \in 0 .. (j - 1) : i \in 0 .. n /\ i # j /\ i \in 0 .. (k - 1)
    BY <1>2
  <2>4. j \in 0 .. n
    BY <1>2
  <2> QED BY <2>1, <2>2, <2>3, <2>4
<1>5. /\ MemOK(s.m) /\ Len(s.m) = L /\ s.p = w[j]
      /\ s.result = IF j = 0 THEN term ELSE w[j - 1]
      /\ \A q \in 1 .. L : (\A i \in 0 .. (j - 1) : q # w[i]) => s.m[q] = m[q]
      /\ \A i \in 0 .. (j - 1) :
           /\ s.m[w[i]].k = m[w[i]].k /\ s.m[w[i]].car = m[w[i]].car
           /\ s.m[w[i]].cdr = IF i = 0 THEN term ELSE w[i - 1]
  BY <1>1, <1>2 DEF Relinked
<1>6. s.m[w[j]] = m[w[j]]
  BY <1>3, <1>4, <1>5
<1>7. s.p # NIL
  BY <1>3, <1>5, NilIs
<1>8. PICK t : t = [s.m EXCEPT ![s.p].cdr = s.result]
  OBVIOUS
<1>9. /\ MemOK(t) /\ Len(t) = L
      /\ \A q \in 1 .. L : q # w[j] => t[q] = s.m[q]
      /\ t[w[j]].k = m[w[j]].k /\ t[w[j]].car = m[w[j]].car /\ t[w[j]].cdr = s.result
  <2>1. PICK e, q, x : e = s.m /\ q = s.p /\ x = s.result
    OBVIOUS
  <2>2. MemOK(e) /\ q \in 1 .. Len(e) /\ q # NIL /\ x \in 1 .. Len(e) /\ t = SetCdr(e, q, x)
    BY <1>7, <1>8, <2>1 DEF RelinkStates, SetCdr
  <2>3. /\ MemOK(t) /\ Len(t) = Len(e)
        /\ \A y \in 1 .. Len(e) : y # q => t[y] = e[y]
        /\ t[q].k = e[q].k /\ t[q].car = e[q].car /\ t[q].cdr = x
    <3>1. SetCdrAt(t, e, q, x)
      BY <2>2 DEF SetCdrAt
    <3> QED BY ONLY <3>1, SetCdrIs
  <2> QED BY <1>5, <1>6, <2>1, <2>3
<1>10. Relink(s) = [m |-> t, result |-> w[j], p |-> w[k]]
  BY <1>3, <1>5, <1>6, <1>7, <1>8 DEF Relink
<1>11. ASSUME NEW q \in 1 .. L, \A i \in 0 .. (k - 1) : q # w[i]  PROVE t[q] = m[q]
  <2>1. j \in 0 .. (k - 1)
    BY <1>2
  <2>2. q # w[j] /\ \A i \in 0 .. (j - 1) : q # w[i]
    BY <1>4, <1>11, <2>1
  <2> QED BY <1>5, <1>9, <2>2
<1>12. ASSUME NEW i \in 0 .. (k - 1)
       PROVE  /\ t[w[i]].k = m[w[i]].k /\ t[w[i]].car = m[w[i]].car
              /\ t[w[i]].cdr = IF i = 0 THEN term ELSE w[i - 1]
  <2>1. CASE i = j
    BY <1>5, <1>9, <2>1
  <2>2. CASE i # j
    <3>1. i \in 0 .. (j - 1)
      BY <1>2, <2>2
    <3>2. t[w[i]] = s.m[w[i]]
      BY <1>4, <1>9, <3>1
    <3> QED BY <1>5, <3>1, <3>2
  <2> QED BY <2>1, <2>2
<1>13. Relink(s).m = t /\ Relink(s).result = w[j] /\ Relink(s).p = w[k] /\ k # 0
  BY <1>10
<1> QED BY <1>1, <1>2, <1>9, <1>11, <1>12, <1>13 DEF Relinked

(* The cells of the list in the other order, and then the other list.      *)
InPlaceOf(r, m, w, n, u, l) ==
  /\ n \in Nat
  /\ MemOK(r.m) /\ Len(r.m) = Len(m)
  /\ r.p \in 1 .. Len(m)
  /\ \A q \in 1 .. Len(m) : r.m[q].car = m[q].car
  /\ \A q \in 1 .. Len(m) : (\A i \in 0 .. (n - 1) : q # w[i]) => r.m[q] = m[q]
  /\ \E v : /\ List(v, r.m, r.p, n + l)
            /\ \A i \in 0 .. (n - 1) : v[i] = w[(n - 1) - i]
            /\ \A i \in 0 .. l : v[n + i] = u[i]

(* Lists with n and l cells, of which they share none.                     *)
Apart(w, n, u, l) == \A i \in 0 .. (n - 1), j \in 0 .. l : w[i] # u[j]

LEMMA ReversedInPlace ==
  ASSUME NEW m, MemOK(m), NEW a \in 1 .. Len(m), Ends(m, a) # {}, Proper(m, a),
         NEW term \in 1 .. Len(m), NEW l \in Nat, NEW u, List(u, m, term, l),
         Apart(Along(m, a), Length(m, a), u, l)
  PROVE  InPlaceOf(reverse_in_place(m, term, a), m, Along(m, a), Length(m, a), u, l)
<1>0. PICK w, n, r : w = Along(m, a) /\ n = Length(m, a) /\ r = reverse_in_place(m, term, a)
  OBVIOUS
<1> USE <1>0
<1>1. PICK L \in Nat \ {0} : L = Len(m)
  BY DEF MemOK
<1>2. PICK c, N : c = Relinking(m, term, a) /\ N = Passed(m, a)
  OBVIOUS
<1>3. n \in Nat /\ List(w, m, a, n) /\ N \in n .. L
  BY <1>1, <1>2, IsList
<1>4. n < L /\ w[n] = NIL
  BY <1>1, <1>3, Short DEF Proper
<1>5. /\ c[0] = [m |-> m, result |-> term, p |-> a]
      /\ \A k \in 1 .. L : c[k] = Relink(c[k - 1])
      /\ \A k \in 0 .. L : c[k] \in RelinkStates
  <2>1. /\ Relinking(m, term, a)[0] = [m |-> m, result |-> term, p |-> a]
        /\ \A k \in 1 .. Len(m) : Relinking(m, term, a)[k] = Relink(Relinking(m, term, a)[k - 1])
        /\ \A k \in 0 .. Len(m) : Relinking(m, term, a)[k] \in RelinkStates
    BY RelinkingRuns
  <2> QED BY <1>1, <1>2, <2>1
<1>6. \A k \in 0 .. n : Relinked(c[k], m, w, term, k)
  <2> DEFINE S == {k \in 0 .. n : Relinked(c[k], m, w, term, k)}
  <2>1. 0 \in S
    <3>1. w[0] = a
      BY <1>3 DEF List, Walks
    <3>2. c[0].m = m /\ c[0].result = term /\ c[0].p = a
      BY <1>5
    <3>3. Relinked(c[0], m, w, term, 0)
      BY <1>1, <3>1, <3>2 DEF Relinked
    <3> QED BY <1>3, <3>3
  <2>2. ASSUME NEW k \in 1 .. n, k - 1 \in S  PROVE k \in S
    <3>1. k \in 1 .. L /\ k - 1 \in 0 .. L /\ k \in 0 .. n
      BY <1>1, <1>3, <1>4
    <3>2. PICK s \in RelinkStates : s = c[k - 1]
      BY <1>5, <3>1
    <3>3. Relinked(s, m, w, term, k - 1)
      BY <2>2, <3>2
    <3>4. Relinked(Relink(s), m, w, term, k)
      BY <1>3, <3>3, RelinkStep
    <3>5. c[k] = Relink(s)
      BY <1>5, <3>1, <3>2
    <3> QED BY <3>1, <3>4, <3>5
  <2>3. \A k \in 0 .. n : k \in S
    <3> HIDE DEF S
    <3> QED BY ONLY <1>3, <2>1, <2>2, UpTo
  <2> QED BY <2>3
<1>7. n \in 0 .. n
  BY <1>3
<1>8. PICK z : z = c[n] /\ Relinked(z, m, w, term, n)
  BY <1>6, <1>7
<1>9. Relink(z) = z
  BY <1>4, <1>8 DEF Relinked, Relink
<1>10. c[N] = z
  <2>1. \A k \in n + 1 .. L : c[k - 1] = c[n] => c[k] = c[n]
    <3>1. \A k \in n + 1 .. L : k \in 1 .. L
      BY <1>3
    <3> QED BY <1>5, <1>8, <1>9, <3>1
  <2>2. n \in Nat /\ L \in Nat /\ n <= L
    BY <1>3, <1>4
  <2>3. \A k \in n .. L : c[k] = c[n]
    BY ONLY <2>1, <2>2, Stays
  <2> QED BY <1>3, <1>8, <2>3
<1>11. r.m = z.m /\ r.p = z.result
  <2>1. r = [m |-> c[N].m, p |-> c[N].result]
    BY <1>2 DEF reverse_in_place
  <2> QED BY <1>10, <2>1
<1>12. /\ MemOK(z.m) /\ Len(z.m) = L
       /\ z.result = IF n = 0 THEN term ELSE w[n - 1]
       /\ \A q \in 1 .. L : (\A i \in 0 .. (n - 1) : q # w[i]) => z.m[q] = m[q]
       /\ \A i \in 0 .. (n - 1) :
            /\ z.m[w[i]].k = m[w[i]].k /\ z.m[w[i]].car = m[w[i]].car
            /\ z.m[w[i]].cdr = IF i = 0 THEN term ELSE w[i - 1]
  BY <1>1, <1>8 DEF Relinked
<1>13. \A i \in 0 .. (n - 1) : w[i] \in 1 .. L /\ is_pair(m, w[i])
  <2>1. \A i \in 0 .. (n - 1) : i \in 0 .. n
    BY <1>3
  <2> QED BY <1>1, <1>3, <2>1 DEF List, Walks
<1>14. \A i \in 0 .. l : u[i] \in 1 .. L /\ z.m[u[i]] = m[u[i]]
  <2>1. \A i \in 0 .. l : u[i] \in 1 .. L
    BY <1>1 DEF List, Walks
  <2>2. \A i \in 0 .. (n - 1), j \in 0 .. l : w[i] # u[j]
    BY DEF Apart
  <2> QED BY <1>12, <2>1, <2>2
<1> DEFINE v == [i \in 0 .. (n + l) |-> IF i < n THEN w[(n - 1) - i] ELSE u[i - n]]
<1>15. /\ \A i \in 0 .. (n - 1) : v[i] = w[(n - 1) - i]
       /\ \A i \in 0 .. l : v[n + i] = u[i]
  <2>1. \A i \in 0 .. (n - 1) : i \in 0 .. (n + l) /\ i < n
    BY <1>3
  <2>2. \A i \in 0 .. l : n + i \in 0 .. (n + l) /\ ~(n + i < n) /\ (n + i) - n = i
    BY <1>3
  <2> QED BY <2>1, <2>2
<1> HIDE DEF v
<1>16. u[0] = term
  BY DEF List, Walks
<1>17. v[0] = z.result /\ z.result \in 1 .. L
  <2>1. CASE n = 0
    <3>1. 0 \in 0 .. l /\ n + 0 = 0
      BY <2>1
    <3> QED BY <1>1, <1>12, <1>15, <1>16, <2>1, <3>1
  <2>2. CASE n # 0
    <3>1. 0 \in 0 .. (n - 1) /\ (n - 1) - 0 = n - 1 /\ n - 1 \in 0 .. (n - 1)
      BY <1>3, <2>2
    <3> QED BY <1>12, <1>13, <1>15, <2>2, <3>1
  <2> QED BY <2>1, <2>2
<1>18. ASSUME NEW i \in 0 .. (n - 1)
       PROVE  v[i] \in 1 .. L /\ is_pair(z.m, v[i]) /\ z.m[v[i]].cdr = v[i + 1]
  <2>1. PICK j \in 0 .. (n - 1) : j = (n - 1) - i /\ v[i] = w[j]
    <3>1. (n - 1) - i \in 0 .. (n - 1)
      BY <1>3
    <3> QED BY <1>15, <3>1
  <2>2. /\ w[j] \in 1 .. L /\ is_pair(m, w[j]) /\ z.m[w[j]].k = m[w[j]].k
        /\ z.m[w[j]].cdr = IF j = 0 THEN term ELSE w[j - 1]
    BY <1>12, <1>13
  <2>3. CASE j = 0
    <3>0. n \in Nat
      BY <1>3
    <3>1. i + 1 = n + 0 /\ 0 \in 0 .. l
      BY ONLY <3>0, l \in Nat, i \in 0 .. (n - 1), <2>1, <2>3
    <3>2. v[i + 1] = u[0]
      BY <1>15, <3>1
    <3> QED BY <1>16, <2>1, <2>2, <2>3, <3>2 DEF is_pair
  <2>4. CASE j # 0
    <3>1. i + 1 \in 0 .. (n - 1) /\ (n - 1) - (i + 1) = j - 1
      <4>1. n \in Nat
        BY <1>3
      <4> QED BY ONLY <4>1, j \in 0 .. (n - 1), i \in 0 .. (n - 1), <2>1, <2>4
    <3>2. v[i + 1] = w[j - 1]
      BY <1>15, <3>1
    <3> QED BY <2>1, <2>2, <2>4, <3>2 DEF is_pair
  <2> QED BY <2>3, <2>4
<1>19. ASSUME NEW i \in 0 .. l
       PROVE  /\ v[n + i] \in 1 .. L /\ z.m[v[n + i]] = m[u[i]]
              /\ i # 0 => v[n + i] = z.m[v[n + (i - 1)]].cdr
  <2>1. i # 0 => i \in 1 .. l /\ i - 1 \in 0 .. l
    OBVIOUS
  <2>2. i # 0 => u[i] = m[u[i - 1]].cdr
    BY <2>1 DEF List, Walks
  <2> QED BY <1>14, <1>15, <2>1, <2>2
<1>20. List(v, z.m, z.result, n + l)
  <2>1. ASSUME NEW i \in 0 .. (n + l)  PROVE v[i] \in 1 .. L
    <3>1. i \in 0 .. (n - 1) \/ (i - n \in 0 .. l /\ n + (i - n) = i)
      BY <1>3
    <3>2. CASE i \in 0 .. (n - 1)
      BY <1>18, <3>2
    <3>3. CASE i - n \in 0 .. l /\ n + (i - n) = i
      BY <1>19, <3>3
    <3> QED BY <3>1, <3>2, <3>3
  <2>2. ASSUME NEW i \in 1 .. (n + l)  PROVE v[i] = z.m[v[i - 1]].cdr
    <3>1. CASE i - 1 \in 0 .. (n - 1)
      <4>1. (i - 1) + 1 = i
        OBVIOUS
      <4> QED BY <1>18, <3>1, <4>1
    <3>2. CASE i - 1 \notin 0 .. (n - 1)
      <4>1. PICK j \in 0 .. l : j = i - n /\ j # 0 /\ n + j = i /\ n + (j - 1) = i - 1
        <5>1. i - n \in 0 .. l /\ i - n # 0 /\ n + (i - n) = i /\ n + ((i - n) - 1) = i - 1
          BY <1>3, <3>2
        <5> QED BY <5>1
      <4> QED BY <1>19, <4>1
    <3> QED BY <3>1, <3>2
  <2>3. ~is_pair(z.m, v[n + l])
    <3>1. l \in 0 .. l
      OBVIOUS
    <3>2. ~is_pair(m, u[l])
      BY DEF List
    <3> QED BY <1>19, <3>1, <3>2 DEF is_pair
  <2>4. ASSUME NEW i \in 0 .. ((n + l) - 1)  PROVE is_pair(z.m, v[i])
    <3>1. CASE i \in 0 .. (n - 1)
      BY <1>18, <3>1
    <3>2. CASE i \notin 0 .. (n - 1)
      <4>1. PICK j \in 0 .. (l - 1) : j \in 0 .. l /\ n + j = i
        <5>1. i - n \in 0 .. (l - 1) /\ i - n \in 0 .. l /\ n + (i - n) = i
          BY <1>3, <3>2
        <5> QED BY <5>1
      <4>2. is_pair(m, u[j])
        BY DEF List
      <4>3. z.m[v[n + j]] = m[u[j]] /\ v[n + j] = v[i]
        BY <1>19, <4>1
      <4> QED BY <4>2, <4>3 DEF is_pair
    <3> QED BY <3>1, <3>2
  <2> QED BY <1>12, <1>17, <2>1, <2>2, <2>3, <2>4 DEF List, Walks
<1>21. ASSUME NEW q \in 1 .. L  PROVE z.m[q].car = m[q].car
  <2>1. CASE \A i \in 0 .. (n - 1) : q # w[i]
    BY <1>12, <2>1
  <2>2. CASE \E i \in 0 .. (n - 1) : q = w[i]
    <3>1. PICK i \in 0 .. (n - 1) : q = w[i]
      BY <2>2
    <3>2. z.m[w[i]].car = m[w[i]].car
      BY <1>12
    <3> QED BY <3>1, <3>2
  <2> QED BY <2>1, <2>2
<1>22. \E x : /\ List(x, r.m, r.p, n + l)
              /\ \A i \in 0 .. (n - 1) : x[i] = w[(n - 1) - i]
              /\ \A i \in 0 .. l : x[n + i] = u[i]
  <2>1. /\ List(v, r.m, r.p, n + l)
        /\ \A i \in 0 .. (n - 1) : v[i] = w[(n - 1) - i]
        /\ \A i \in 0 .. l : v[n + i] = u[i]
    BY <1>11, <1>15, <1>20
  <2> QED BY <2>1
<1>23. InPlaceOf(r, m, w, n, u, l)
  BY <1>1, <1>3, <1>11, <1>12, <1>17, <1>21, <1>22 DEF InPlaceOf
<1> QED BY <1>23
---------------------------------------------------------------------------
(* append.                                                                 *)

(* A list is still one where only cells have been added.                   *)
LEMMA StillList ==
  ASSUME NEW m, NEW M, MemOK(m), MemOK(M), Len(m) <= Len(M),
         \A p \in 1 .. Len(m) : M[p] = m[p],
         NEW b, NEW l \in Nat, NEW u, List(u, m, b, l)
  PROVE  List(u, M, b, l)
<1>1. PICK L \in Nat, K \in Nat : L = Len(m) /\ K = Len(M)
  BY DEF MemOK
<1>2. \A i \in 0 .. l : u[i] \in 1 .. L /\ u[i] \in 1 .. K /\ M[u[i]] = m[u[i]]
  <2>1. \A i \in 0 .. l : u[i] \in 1 .. L
    BY <1>1 DEF List, Walks
  <2>2. \A x \in 1 .. L : x \in 1 .. K
    BY <1>1
  <2> QED BY <1>1, <2>1, <2>2
<1>3. u[0] = b
  BY DEF List, Walks
<1>4. ASSUME NEW i \in 1 .. l  PROVE u[i] = M[u[i - 1]].cdr
  <2>1. i - 1 \in 0 .. l
    OBVIOUS
  <2>2. u[i] = m[u[i - 1]].cdr
    BY DEF List, Walks
  <2> QED BY <1>2, <2>1, <2>2
<1>5. ~is_pair(M, u[l])
  <2>1. l \in 0 .. l
    OBVIOUS
  <2> QED BY <1>2, <2>1 DEF List, is_pair
<1>6. ASSUME NEW i \in 0 .. (l - 1)  PROVE is_pair(M, u[i])
  <2>1. i \in 0 .. l
    OBVIOUS
  <2> QED BY <1>2, <2>1 DEF List, is_pair
<1> QED BY <1>1, <1>2, <1>3, <1>4, <1>5, <1>6 DEF List, Walks

(* r is m with a list of the elements at the n places of w, and then the   *)
(* l places of u.                                                          *)
AppendOf(r, m, w, n, u, l) ==
  /\ n \in Nat
  /\ MemOK(r.m) /\ r.p \in 1 .. Len(r.m)
  /\ \A p \in 1 .. Len(m) : r.m[p] = m[p]
  /\ \E v : /\ List(v, r.m, r.p, n + l)
            /\ \A i \in 0 .. (n - 1) : r.m[v[i]].car = m[w[i]].car
            /\ \A i \in 0 .. l : r.m[v[n + i]] = m[u[i]]

LEMMA Appended ==
  ASSUME NEW m, MemOK(m), NEW a \in 1 .. Len(m), Ends(m, a) # {}, Proper(m, a),
         NEW b \in 1 .. Len(m), NEW l \in Nat, NEW u, List(u, m, b, l)
  PROVE  AppendOf(append(m, a, b), m, Along(m, a), Length(m, a), u, l)
<1>0. PICK w, n, r : w = Along(m, a) /\ n = Length(m, a) /\ r = append(m, a, b)
  OBVIOUS
<1> USE <1>0
<1>1. PICK L \in Nat \ {0} : L = Len(m)
  BY DEF MemOK
<1>2. n \in Nat /\ List(w, m, a, n) /\ w[n] = NIL /\ w[0] = a
  <2>1. n \in Nat /\ List(w, m, a, n)
    BY IsList
  <2> QED BY <2>1 DEF Proper, List, Walks
<1>3. CASE a = NIL
  <2>1. n = 0
    <3>1. ~is_pair(m, w[0])
      BY <1>2, <1>3, NilIs
    <3>2. n # 0 => 0 \in 0 .. (n - 1)
      BY <1>2
    <3> QED BY <1>2, <3>1, <3>2 DEF List
  <2>2. r.m = m /\ r.p = b
    <3>1. r = [m |-> m, p |-> b]
      BY <1>3 DEF append
    <3> QED BY <3>1
  <2>3. n + l = l /\ \A i \in 0 .. l : n + i = i
    BY <2>1
  <2>4. \A i \in 0 .. (n - 1) : FALSE
    BY <2>1
  <2>5. AppendOf(r, m, w, n, u, l)
    BY <1>2, <2>2, <2>3, <2>4 DEF AppendOf
  <2> QED BY <2>5
<1>4. CASE a # NIL
  <2>1. PICK s : s = reverse(m, a)
    OBVIOUS
  <2>2. /\ MemOK(s.m) /\ Len(s.m) = L + n
        /\ \A p \in 1 .. L : s.m[p] = m[p]
        /\ s.p \in 1 .. Len(s.m)
        /\ \E v : /\ List(v, s.m, s.p, n)
                  /\ v[n] = NIL
                  /\ \A i \in 0 .. (n - 1) : v[i] \notin 1 .. L
                  /\ \A i \in 0 .. (n - 1) : s.m[v[i]].car = m[w[(n - 1) - i]].car
    <3>1. ReverseOf(s, m, w, n)
      BY <2>1, Reversed
    <3> QED BY <1>1, <3>1 DEF ReverseOf
  <2>3. PICK v : /\ List(v, s.m, s.p, n)
                 /\ v[n] = NIL
                 /\ \A i \in 0 .. (n - 1) : v[i] \notin 1 .. L
                 /\ \A i \in 0 .. (n - 1) : s.m[v[i]].car = m[w[(n - 1) - i]].car
    BY <2>2
  <2>4. PICK M, q : M = s.m /\ q = s.p
    OBVIOUS
  <2>5. MemOK(M) /\ q \in 1 .. Len(M) /\ Len(M) = L + n /\ List(v, M, q, n) /\ \A p \in 1 .. L : M[p] = m[p]
    BY <2>2, <2>3, <2>4
  <2>6. PICK x : x = Along(M, q)
    OBVIOUS
  <2>7. /\ Ends(M, q) # {} /\ Length(M, q) = n
        /\ \A i \in 0 .. n : x[i] = v[i]
    BY <1>2, <2>5, <2>6, ListIs
  <2>8. Proper(M, q)
    <3>1. n \in 0 .. n
      BY <1>2
    <3> QED BY <2>3, <2>6, <2>7, <3>1 DEF Proper
  <2>9. List(u, M, b, l) /\ b \in 1 .. Len(M)
    <3>1. Len(m) <= Len(M) /\ b \in 1 .. Len(M)
      BY <1>1, <1>2, <2>5
    <3>2. \A p \in 1 .. Len(m) : M[p] = m[p]
      BY <1>1, <2>5
    <3> QED BY <2>5, <3>1, <3>2, StillList
  <2>10. \A i \in 0 .. (n - 1) : i \in 0 .. n /\ (n - 1) - i \in 0 .. (n - 1) /\ (n - 1) - ((n - 1) - i) = i
    BY <1>2
  <2>11. \A i \in 0 .. (n - 1) : x[i] = v[i] /\ x[i] \notin 1 .. L
    BY <2>3, <2>7, <2>10
  <2>12. \A i \in 0 .. (n - 1), j \in 0 .. l : x[i] # u[j]
    <3>1. \A j \in 0 .. l : u[j] \in 1 .. L
      BY <1>1 DEF List, Walks
    <3> QED BY <2>11, <3>1
  <2>13. r = reverse_in_place(M, b, q)
    BY <1>4, <2>1, <2>4 DEF append
  <2>14. /\ MemOK(r.m) /\ Len(r.m) = Len(M)
         /\ r.p \in 1 .. Len(M)
         /\ \A p \in 1 .. Len(M) : r.m[p].car = M[p].car
         /\ \A p \in 1 .. Len(M) : (\A i \in 0 .. (n - 1) : p # x[i]) => r.m[p] = M[p]
         /\ \E y : /\ List(y, r.m, r.p, n + l)
                   /\ \A i \in 0 .. (n - 1) : y[i] = x[(n - 1) - i]
                   /\ \A i \in 0 .. l : y[n + i] = u[i]
    <3>1. Apart(Along(M, q), Length(M, q), u, l)
      BY <2>6, <2>7, <2>12 DEF Apart
    <3>2. InPlaceOf(reverse_in_place(M, b, q), M, Along(M, q), Length(M, q), u, l)
      BY <2>5, <2>7, <2>8, <2>9, <3>1, ReversedInPlace
    <3>3. InPlaceOf(r, M, x, n, u, l)
      BY <2>6, <2>7, <2>13, <3>2
    <3> QED BY <3>3 DEF InPlaceOf
  <2>15. PICK y : /\ List(y, r.m, r.p, n + l)
                  /\ \A i \in 0 .. (n - 1) : y[i] = x[(n - 1) - i]
                  /\ \A i \in 0 .. l : y[n + i] = u[i]
    BY <2>14
  <2>16. ASSUME NEW p \in 1 .. L  PROVE r.m[p] = m[p]
    <3>1. p \in 1 .. Len(M)
      BY <1>2, <2>5
    <3>2. \A i \in 0 .. (n - 1) : p # x[i]
      BY <2>11
    <3> QED BY <2>5, <2>14, <3>1, <3>2
  <2>17. ASSUME NEW i \in 0 .. (n - 1)  PROVE r.m[y[i]].car = m[w[i]].car
    <3>1. PICK j \in 0 .. (n - 1) : j = (n - 1) - i /\ (n - 1) - j = i /\ j \in 0 .. n
      BY <2>10
    <3>2. y[i] = v[j]
      BY <2>7, <2>15, <3>1
    <3>3. v[j] \in 1 .. Len(M)
      BY <2>5, <3>1 DEF List, Walks
    <3>4. M[v[j]].car = m[w[i]].car
      BY <2>3, <2>4, <3>1
    <3> QED BY <2>14, <3>2, <3>3, <3>4
  <2>18. ASSUME NEW i \in 0 .. l  PROVE r.m[y[n + i]] = m[u[i]]
    <3>1. u[i] \in 1 .. L
      BY <1>1 DEF List, Walks
    <3> QED BY <2>15, <2>16, <3>1
  <2>19. \E z : /\ List(z, r.m, r.p, n + l)
                /\ \A i \in 0 .. (n - 1) : r.m[z[i]].car = m[w[i]].car
                /\ \A i \in 0 .. l : r.m[z[n + i]] = m[u[i]]
    BY <2>15, <2>17, <2>18
  <2>20. AppendOf(r, m, w, n, u, l)
    BY <1>1, <1>2, <2>14, <2>16, <2>19 DEF AppendOf
  <2> QED BY <2>20
<1> QED BY <1>3, <1>4
---------------------------------------------------------------------------
(* list_star.                                                              *)

PassStates ==
  {s \in [m : Seq(CellRec), p : Nat] : MemOK(s.m) /\ s.p \in 1 .. Len(s.m)}

LEMMA PassType ==
  ASSUME NEW s \in PassStates
  PROVE  Pass(s) \in PassStates
<1>1. MemOK(s.m) /\ s.p \in 1 .. Len(s.m)
  BY DEF PassStates
<1>2. PICK L \in Nat : L = Len(s.m)
  BY <1>1 DEF MemOK
<1>3. CASE s.m[s.m[s.p].cdr].cdr # NIL
  <2>1. PICK c, d, x : x = s.m[s.p].car /\ d = s.m[s.p].cdr /\ c = cons(s.m, x, d)
    OBVIOUS
  <2>2. x \in 1 .. L /\ d \in 1 .. L
    BY <1>1, <1>2, <2>1 DEF MemOK
  <2>3. MemOK(c) /\ Len(c) = L + 1
    BY <1>1, <1>2, <2>1, <2>2, ConsIs
  <2>4. Pass(s) = [m |-> c, p |-> d]
    BY <1>3, <2>1 DEF Pass
  <2>5. d \in 1 .. L + 1 /\ d \in Nat
    BY <1>2, <2>2
  <2> QED BY <2>3, <2>4, <2>5 DEF PassStates, MemOK
<1>4. CASE s.m[s.m[s.p].cdr].cdr = NIL
  BY <1>4 DEF Pass
<1> QED BY <1>3, <1>4

LEMMA PassingRuns ==
  ASSUME NEW m, MemOK(m), NEW a \in 1 .. Len(m)
  PROVE  /\ Passing(m, a)[0] = [m |-> m, p |-> a]
         /\ \A n \in 1 .. Len(m) : Passing(m, a)[n] = Pass(Passing(m, a)[n - 1])
         /\ \A n \in 0 .. Len(m) : Passing(m, a)[n] \in PassStates
<1>1. PICK N \in Nat, x \in PassStates : N = Len(m) /\ x = [m |-> m, p |-> a]
  <2>1. Len(m) \in Nat \ {0} /\ a \in Nat /\ m \in Seq(CellRec)
    BY DEF MemOK
  <2>2. [m |-> m, p |-> a] \in PassStates
    BY <2>1 DEF PassStates
  <2> QED BY <2>1, <2>2
<1> DEFINE g == [s \in PassStates |-> Pass(s)]
           Rec(f) == [n \in 0 .. N |-> IF n = 0 THEN x ELSE Pass(f[n - 1])]
<1>2. g \in [PassStates -> PassStates]
  BY PassType
<1>3. PICK f \in [0 .. N -> PassStates] : Iterates(f, x, g, N)
  <2> HIDE DEF g
  <2> QED BY <1>2, Recursion
<1>4. \A n \in 1 .. N : n \in 0 .. N /\ n # 0 /\ n - 1 \in 0 .. N
  OBVIOUS
<1>5. f[0] = x /\ \A n \in 1 .. N : f[n] = Pass(f[n - 1])
  <2>1. 0 \in 0 .. N
    OBVIOUS
  <2> QED BY <1>3, <1>4, <2>1 DEF Iterates
<1> HIDE DEF g
<1>6. f = Rec(f)
  <2>1. ASSUME NEW n \in 0 .. N  PROVE f[n] = IF n = 0 THEN x ELSE Pass(f[n - 1])
    <3>1. n = 0 \/ n \in 1 .. N
      OBVIOUS
    <3> QED BY <1>5, <3>1
  <2> QED BY <2>1
<1>7. PICK c : c = Passing(m, a)
  OBVIOUS
<1>8. c = Rec(c)
  <2>1. c = CHOOSE h : h = Rec(h)
    BY <1>1, <1>7 DEF Passing
  <2> HIDE DEF Rec
  <2> QED BY <1>6, <2>1
<1>9. c[0] = x /\ \A n \in 1 .. N : c[n] = Pass(c[n - 1])
  <2>1. 0 \in 0 .. N
    OBVIOUS
  <2> QED BY <1>4, <1>8, <2>1
<1> HIDE DEF Rec
<1>10. \A n \in 0 .. N : c[n] = f[n]
  <2>1. N \in Nat /\ c[0] = f[0]
    BY <1>5, <1>9
  <2>2. \A n \in 1 .. N : c[n - 1] = f[n - 1] => c[n] = f[n]
    BY <1>5, <1>9
  <2>3. Alike(c, f, N)
    BY <2>1, <2>2 DEF Alike
  <2> QED BY <2>3, Determined
<1>11. \A n \in 0 .. N : c[n] \in PassStates
  BY <1>3, <1>10
<1> QED BY <1>1, <1>7, <1>9, <1>11


(* r is m with the n elements of w but the last in cells that lead to the  *)
(* last element itself.                                                    *)
StarOf(r, m, w, n) ==
  /\ n \in Nat
  /\ MemOK(r.m) /\ r.p \in 1 .. Len(r.m) /\ n < Len(r.m)
  /\ n = 0 => r.p = NIL
  /\ \A p \in 1 .. Len(m) : ~(n > 2 /\ p = w[n - 2]) => r.m[p] = m[p]
  /\ n # 0 =>
       \E v : /\ Walks(v, r.m, r.p, n - 1)
              /\ \A i \in 0 .. (n - 2) : is_pair(r.m, v[i]) /\ r.m[v[i]].car = m[w[i]].car
              /\ v[n - 1] = m[w[n - 1]].car

(* The loop is at the k-th cell, and has changed none.                     *)
PassedBy(s, m, v, k) ==
  /\ MemOK(s.m) /\ Len(m) <= Len(s.m) /\ s.p = v[k]
  /\ \A p \in 1 .. Len(m) : s.m[p] = m[p]

LEMMA PassStep ==
  ASSUME NEW m, MemOK(m), NEW a, NEW n \in Nat, NEW v, List(v, m, a, n),
         NEW k \in 1 .. (n - 2), NEW s \in PassStates, PassedBy(s, m, v, k - 1)
  PROVE  PassedBy(Pass(s), m, v, k)
<1>1. PICK L \in Nat \ {0}, K \in Nat : L = Len(m) /\ K = Len(s.m) /\ L <= K
  BY DEF MemOK, PassedBy
<1>2. PICK j \in 0 .. (n - 1) : j = k - 1 /\ j + 1 = k /\ j + 1 \in 0 .. (n - 1) /\ j + 2 \in 0 .. (n - 1)
  <2>1. k - 1 \in 0 .. (n - 1) /\ (k - 1) + 1 = k /\ k \in 0 .. (n - 1) /\ (k - 1) + 2 \in 0 .. (n - 1)
    OBVIOUS
  <2> QED BY <2>1
<1>3. \A i \in 0 .. (n - 1) : v[i] \in 1 .. L /\ is_pair(m, v[i]) /\ v[i + 1] = m[v[i]].cdr
  <2>1. \A i \in 0 .. (n - 1) : i \in 0 .. n /\ i + 1 \in 1 .. n /\ (i + 1) - 1 = i
    OBVIOUS
  <2> QED BY <1>1, <2>1 DEF List, Walks
<1>4. s.p = v[j] /\ MemOK(s.m) /\ \A p \in 1 .. L : s.m[p] = m[p]
  BY <1>1, <1>2 DEF PassedBy
<1>5. s.m[s.p].cdr = v[j + 1] /\ s.m[v[j + 1]].cdr = v[j + 2]
  <2>1. v[(j + 1) + 1] = m[v[j + 1]].cdr /\ (j + 1) + 1 = j + 2
    BY <1>2, <1>3
  <2> QED BY <1>2, <1>3, <1>4, <2>1
<1>6. v[j + 2] # NIL
  BY <1>2, <1>3, NilIs
<1>7. PICK c, x : x = s.m[s.p].car /\ c = cons(s.m, x, v[j + 1])
  OBVIOUS
<1>8. Pass(s) = [m |-> c, p |-> v[k]]
  BY <1>2, <1>5, <1>6, <1>7 DEF Pass
<1>9. x \in 1 .. K /\ v[j + 1] \in 1 .. K
  <2>1. s.p \in 1 .. K /\ s.m[s.p].cdr \in 1 .. K
    BY <1>1, <1>4 DEF MemOK, PassStates
  <2> QED BY <1>1, <1>4, <1>5, <1>7, <2>1 DEF MemOK
<1>10. MemOK(c) /\ Len(c) = K + 1 /\ \A p \in 1 .. K : c[p] = s.m[p]
  <2>1. PICK e, y : e = s.m /\ y = v[j + 1]
    OBVIOUS
  <2>2. MemOK(e) /\ Len(e) = K /\ x \in 1 .. Len(e) /\ y \in 1 .. Len(e) /\ c = cons(e, x, y)
    BY <1>1, <1>4, <1>7, <1>9, <2>1
  <2>3. /\ MemOK(c) /\ Len(c) = Len(e) + 1
        /\ \A p \in 1 .. Len(e) : c[p] = e[p]
    BY <2>2, ConsIs
  <2> QED BY <2>1, <2>2, <2>3
<1>11. \A p \in 1 .. L : c[p] = m[p]
  <2>1. \A p \in 1 .. L : p \in 1 .. K
    BY <1>1
  <2> QED BY <1>4, <1>10, <2>1
<1>12. L <= K + 1 /\ Pass(s).m = c /\ Pass(s).p = v[k]
  BY <1>1, <1>8
<1> QED BY <1>1, <1>10, <1>11, <1>12 DEF PassedBy

(* The last but one cell of a proper list is where the loop ends.          *)
LEMMA LastButOneIs ==
  ASSUME NEW m, MemOK(m), NEW a \in 1 .. Len(m), NEW n \in Nat, n >= 2,
         NEW v, List(v, m, a, n), v[n] = NIL
  PROVE  PassedBy(LastButOne(m, a), m, v, n - 2)
<1>1. PICK L \in Nat \ {0}, j \in Nat : L = Len(m) /\ j = n - 2 /\ n = j + 2
  <2>1. Len(m) \in Nat \ {0}
    BY DEF MemOK
  <2>2. n - 2 \in Nat /\ n = (n - 2) + 2
    OBVIOUS
  <2> QED BY <2>1, <2>2
<1>2. PICK c, N : c = Passing(m, a) /\ N = Passed(m, a)
  OBVIOUS
<1>3. N \in n .. L /\ n < L
  <2>1. Ends(m, a) # {} /\ Length(m, a) = n
    BY ListIs
  <2>2. N \in n .. L
    BY <1>1, <1>2, <2>1, IsList
  <2> QED BY <1>1, <2>2, Short
<1>4. /\ c[0] = [m |-> m, p |-> a]
      /\ \A k \in 1 .. L : c[k] = Pass(c[k - 1])
      /\ \A k \in 0 .. L : c[k] \in PassStates
  <2>1. /\ Passing(m, a)[0] = [m |-> m, p |-> a]
        /\ \A k \in 1 .. Len(m) : Passing(m, a)[k] = Pass(Passing(m, a)[k - 1])
        /\ \A k \in 0 .. Len(m) : Passing(m, a)[k] \in PassStates
    BY PassingRuns
  <2> QED BY <1>1, <1>2, <2>1
<1>5. \A k \in 0 .. j : PassedBy(c[k], m, v, k)
  <2> DEFINE S == {k \in 0 .. j : PassedBy(c[k], m, v, k)}
  <2>1. 0 \in S
    <3>1. v[0] = a
      BY DEF List, Walks
    <3>2. c[0].m = m /\ c[0].p = a
      BY <1>4
    <3>3. Len(m) <= Len(m)
      BY <1>1
    <3>4. PassedBy(c[0], m, v, 0)
      BY <3>1, <3>2, <3>3 DEF PassedBy
    <3> QED BY <3>4
  <2>2. ASSUME NEW k \in 1 .. j, k - 1 \in S  PROVE k \in S
    <3>1. k \in 1 .. L /\ k - 1 \in 0 .. L /\ k \in 0 .. j /\ k \in 1 .. (n - 2)
      BY <1>1, <1>3
    <3>2. PICK s \in PassStates : s = c[k - 1]
      BY <1>4, <3>1
    <3>3. PassedBy(s, m, v, k - 1)
      BY <2>2, <3>2
    <3>4. PassedBy(Pass(s), m, v, k)
      BY <3>1, <3>3, PassStep
    <3>5. c[k] = Pass(s)
      BY <1>4, <3>1, <3>2
    <3> QED BY <3>1, <3>4, <3>5
  <2>3. \A k \in 0 .. j : k \in S
    <3> HIDE DEF S
    <3> QED BY ONLY j \in Nat, <2>1, <2>2, UpTo
  <2> QED BY <2>3
<1>6. PICK z : z = c[j] /\ PassedBy(z, m, v, j)
  BY <1>5
<1>7. Pass(z) = z
  <2>1. \A i \in 0 .. (n - 1) : v[i] \in 1 .. L /\ v[i + 1] = m[v[i]].cdr
    <3>1. \A i \in 0 .. (n - 1) : i \in 0 .. n /\ i + 1 \in 1 .. n /\ (i + 1) - 1 = i
      OBVIOUS
    <3> QED BY <1>1, <3>1 DEF List, Walks
  <2>2. j \in 0 .. (n - 1) /\ j + 1 \in 0 .. (n - 1) /\ (j + 1) + 1 = n
    BY <1>1
  <2>3. z.m[z.p].cdr = v[j + 1] /\ z.m[v[j + 1]].cdr = v[n]
    <3>1. v[j] \in 1 .. L /\ v[j + 1] = m[v[j]].cdr
      BY <2>1, <2>2
    <3>2. v[j + 1] \in 1 .. L /\ v[n] = m[v[j + 1]].cdr
      <4>1. v[(j + 1) + 1] = m[v[j + 1]].cdr
        BY <2>1, <2>2
      <4> QED BY <2>1, <2>2, <4>1
    <3> QED BY <1>1, <1>6, <3>1, <3>2 DEF PassedBy
  <2> QED BY <2>3 DEF Pass
<1>8. c[N] = z
  <2>1. \A k \in j + 1 .. L : c[k - 1] = c[j] => c[k] = c[j]
    <3>1. \A k \in j + 1 .. L : k \in 1 .. L
      OBVIOUS
    <3> QED BY <1>4, <1>6, <1>7, <3>1
  <2>2. j \in Nat /\ L \in Nat /\ j <= L /\ N \in j .. L
    BY <1>1, <1>3
  <2>3. \A k \in j .. L : c[k] = c[j]
    BY ONLY <2>1, <2>2, Stays
  <2> QED BY <1>6, <2>2, <2>3
<1> QED BY <1>1, <1>2, <1>6, <1>8 DEF LastButOne

LEMMA Starred ==
  ASSUME NEW m, MemOK(m), NEW d \in 1 .. Len(m), Ends(m, d) # {}, Proper(m, d)
  PROVE  StarOf(list_star(m, d), m, Along(m, d), Length(m, d))
<1>0. PICK w, n, r : w = Along(m, d) /\ n = Length(m, d) /\ r = list_star(m, d)
  OBVIOUS
<1> USE <1>0
<1>1. PICK L \in Nat \ {0} : L = Len(m)
  BY DEF MemOK
<1>2. n \in Nat /\ List(w, m, d, n) /\ w[n] = NIL /\ w[0] = d /\ n < L
  <2>1. n \in Nat /\ List(w, m, d, n)
    BY IsList
  <2>2. n < L
    BY <1>1, <2>1, Short
  <2> QED BY <2>1, <2>2 DEF Proper, List, Walks
<1>3. \A i \in 0 .. (n - 1) : w[i] \in 1 .. L /\ is_pair(m, w[i]) /\ w[i + 1] = m[w[i]].cdr
  <2>1. \A i \in 0 .. (n - 1) : i \in 0 .. n /\ i + 1 \in 1 .. n /\ (i + 1) - 1 = i
    BY <1>2
  <2> QED BY <1>1, <1>2, <2>1 DEF List, Walks
<1>4. m[d].cdr = NIL <=> n \in {0, 1}
  <2>1. CASE n = 0
    BY <1>2, <2>1, NilIs
  <2>2. CASE n = 1
    <3>1. 0 \in 0 .. (n - 1) /\ 0 + 1 = n
      BY <2>2
    <3> QED BY <1>2, <1>3, <2>2, <3>1
  <2>3. CASE n >= 2
    <3>1. 0 \in 0 .. (n - 1) /\ 0 + 1 = 1 /\ 1 \in 0 .. (n - 1) /\ n \notin {0, 1}
      BY <1>2, <2>3
    <3>2. w[1] = m[d].cdr /\ is_pair(m, w[1])
      BY <1>2, <1>3, <3>1
    <3> QED BY <3>1, <3>2, NilIs
  <2> QED BY <1>2, <2>1, <2>2, <2>3
<1>5. CASE n \in {0, 1}
  <2>1. r.m = m /\ r.p = m[d].car
    <3>1. r = [m |-> m, p |-> m[d].car]
      BY <1>4, <1>5 DEF list_star
    <3> QED BY <3>1
  <2>2. r.p \in 1 .. Len(r.m)
    BY <1>1, <2>1 DEF MemOK
  <2>3. n = 0 => r.p = NIL
    BY <1>2, <2>1, NilIs
  <2>4. n # 0 => \E v : /\ Walks(v, r.m, r.p, n - 1)
                        /\ \A i \in 0 .. (n - 2) : is_pair(r.m, v[i]) /\ r.m[v[i]].car = m[w[i]].car
                        /\ v[n - 1] = m[w[n - 1]].car
    <3>1. SUFFICES ASSUME n = 1  PROVE
                   \E v : /\ Walks(v, r.m, r.p, 0)
                          /\ \A i \in 0 .. -1 : is_pair(r.m, v[i]) /\ r.m[v[i]].car = m[w[i]].car
                          /\ v[0] = m[w[0]].car
      BY <1>5
    <3> DEFINE v == [i \in 0 .. 0 |-> r.p]
    <3>2. v[0] = r.p /\ \A i \in 0 .. 0 : v[i] \in 1 .. Len(r.m)
      BY <2>2
    <3>3. Walks(v, r.m, r.p, 0)
      <4> HIDE DEF v
      <4> QED BY <3>2 DEF Walks
    <3>4. v[0] = m[w[0]].car
      BY <1>2, <2>1, <3>2
    <3> HIDE DEF v
    <3> QED BY <3>3, <3>4
  <2>5. StarOf(r, m, w, n)
    BY <1>1, <1>2, <2>1, <2>2, <2>3, <2>4 DEF StarOf
  <2> QED BY <2>5
<1>6. CASE n >= 2
  <2>1. PICK j \in Nat : j = n - 2 /\ n = j + 2 /\ n - 1 = j + 1
    <3>1. n - 2 \in Nat /\ n = (n - 2) + 2 /\ n - 1 = (n - 2) + 1
      BY <1>2, <1>6
    <3> QED BY <3>1
  <2>2. PICK M, q : M = cons(m, m[d].car, m[d].cdr) /\ q = L + 1
    OBVIOUS
  <2>3. m[d].car \in 1 .. L /\ m[d].cdr \in 1 .. L
    BY <1>1 DEF MemOK
  <2>4. /\ MemOK(M) /\ Len(M) = L + 1
        /\ \A p \in 1 .. L : M[p] = m[p]
        /\ M[q] = Cell("pair", m[d].car, m[d].cdr)
    BY <1>1, <2>2, <2>3, ConsIs
  <2> DEFINE v == [i \in 0 .. n |-> IF i = 0 THEN q ELSE w[i]]
  <2>5. v[0] = q /\ \A i \in 1 .. n : v[i] = w[i]
    <3>1. 0 \in 0 .. n /\ \A i \in 1 .. n : i \in 0 .. n /\ i # 0
      BY <1>2
    <3> QED BY <3>1
  <2> HIDE DEF v
  <2>6. \A i \in 0 .. n : w[i] \in 1 .. L /\ M[w[i]] = m[w[i]]
    BY <1>1, <1>2, <2>4 DEF List, Walks
  <2>7. ASSUME NEW i \in 0 .. (n - 1)
        PROVE  /\ v[i] \in 1 .. L + 1 /\ is_pair(M, v[i]) /\ M[v[i]].cdr = v[i + 1]
               /\ M[v[i]].car = m[w[i]].car
    <3>1. i + 1 \in 1 .. n
      BY <1>2
    <3>2. CASE i = 0
      <4>1. w[0 + 1] = m[w[0]].cdr
        BY <1>3, <3>2
      <4> QED BY <1>2, <2>2, <2>4, <2>5, <3>1, <3>2, <4>1 DEF Cell, is_pair
    <3>3. CASE i # 0
      <4>1. i \in 1 .. n /\ i \in 0 .. n
        BY <1>2, <3>3
      <4> QED BY <1>3, <2>5, <2>6, <3>1, <4>1 DEF is_pair
    <3> QED BY <3>2, <3>3
  <2>8. v[n] = NIL
    <3>1. n \in 1 .. n
      BY <1>2, <1>6
    <3> QED BY <1>2, <2>5, <3>1
  <2>9. List(v, M, q, n)
    <3>1. ASSUME NEW i \in 0 .. n  PROVE v[i] \in 1 .. Len(M)
      <4>1. i = n \/ i \in 0 .. (n - 1)
        BY <1>2
      <4>2. NIL \in 1 .. L + 1
        BY <1>1 DEF NIL
      <4> QED BY <2>4, <2>7, <2>8, <4>1, <4>2
    <3>2. ASSUME NEW i \in 1 .. n  PROVE v[i] = M[v[i - 1]].cdr
      <4>1. i - 1 \in 0 .. (n - 1) /\ (i - 1) + 1 = i
        BY <1>2
      <4> QED BY <2>7, <4>1
    <3>3. ~is_pair(M, v[n])
      BY <2>4, <2>8, NilIs
    <3> QED BY <2>5, <2>7, <3>1, <3>2, <3>3 DEF List, Walks
  <2>10. \A x, y \in 0 .. n : v[x] = v[y] => x = y
    BY <1>2, <2>4, <2>9, Short
  <2>11. PICK z : z = LastButOne(M, q) /\ PassedBy(z, M, v, j)
    <3>1. q \in 1 .. Len(M)
      BY <2>2, <2>4
    <3> QED BY <1>2, <1>6, <2>1, <2>4, <2>8, <2>9, <3>1, LastButOneIs
  <2>12. PICK K \in Nat : K = Len(z.m) /\ L + 1 <= K
    BY <2>4, <2>11 DEF PassedBy, MemOK
  <2>13. /\ MemOK(z.m) /\ z.p = v[j]
         /\ \A p \in 1 .. L + 1 : z.m[p] = M[p] /\ p \in 1 .. K
    BY <2>4, <2>11, <2>12 DEF PassedBy
  <2>14. j \in 0 .. (n - 1) /\ j + 1 \in 0 .. (n - 1)
    BY <1>2, <2>1
  <2>15. PICK e \in 1 .. K : e = m[w[j + 1]].car /\ e = z.m[z.m[z.p].cdr].car
    <3>1. z.m[z.p].cdr = v[j + 1] /\ z.m[v[j + 1]].car = m[w[j + 1]].car
      BY <2>7, <2>13, <2>14
    <3>2. m[w[j + 1]].car \in 1 .. L
      BY <1>1, <1>3, <2>14 DEF MemOK
    <3>3. m[w[j + 1]].car \in 1 .. K
      BY <2>13, <3>2
    <3> QED BY <3>1, <3>3
  <2>16. r.m = SetCdr(z.m, v[j], e) /\ r.p = q
    <3>1. m[d].cdr # NIL
      BY <1>4, <1>6
    <3>2. Consed(m, m[d].car, m[d].cdr) = [m |-> M, p |-> q]
      BY <1>1, <2>2 DEF Consed
    <3>3. r = [m |-> [z.m EXCEPT ![z.p].cdr = z.m[z.m[z.p].cdr].car], p |-> q]
      BY <2>11, <3>1, <3>2 DEF list_star
    <3>4. PICK t : t = SetCdr(z.m, v[j], e)
      OBVIOUS
    <3>5. t = [z.m EXCEPT ![z.p].cdr = z.m[z.m[z.p].cdr].car]
      BY <2>13, <2>15, <3>4 DEF SetCdr
    <3>6. r = [m |-> t, p |-> q]
      BY <3>3, <3>5
    <3> QED BY <3>4, <3>6
  <2>17. /\ MemOK(r.m) /\ Len(r.m) = K
         /\ \A p \in 1 .. K : p # v[j] => r.m[p] = z.m[p]
         /\ r.m[v[j]].k = z.m[v[j]].k /\ r.m[v[j]].car = z.m[v[j]].car /\ r.m[v[j]].cdr = e
    <3>1. v[j] \in 1 .. K /\ v[j] # NIL
      BY <2>4, <2>7, <2>13, <2>14, NilIs
    <3>2. PICK y, x : y = z.m /\ x = v[j]
      OBVIOUS
    <3>3. MemOK(y) /\ x \in 1 .. Len(y) /\ x # NIL /\ e \in 1 .. Len(y)
      BY <2>12, <2>13, <3>1, <3>2
    <3>4. PICK t : t = SetCdr(y, x, e)
      OBVIOUS
    <3>5. SetCdrAt(t, y, x, e)
      BY <3>3, <3>4 DEF SetCdrAt
    <3>6. /\ MemOK(t) /\ Len(t) = Len(y)
          /\ \A p \in 1 .. Len(y) : p # x => t[p] = y[p]
          /\ t[x].k = y[x].k /\ t[x].car = y[x].car /\ t[x].cdr = e
      BY ONLY <3>5, SetCdrIs
    <3> QED BY <2>12, <2>16, <3>2, <3>4, <3>6
  <2> DEFINE u == [i \in 0 .. j + 1 |-> IF i = j + 1 THEN e ELSE v[i]]
  <2>18. u[j + 1] = e /\ \A i \in 0 .. j : u[i] = v[i]
    <3>1. j + 1 \in 0 .. j + 1 /\ \A i \in 0 .. j : i \in 0 .. j + 1 /\ i # j + 1
      OBVIOUS
    <3> QED BY <3>1
  <2> HIDE DEF u
  <2>19. ASSUME NEW i \in 0 .. j
         PROVE  /\ u[i] \in 1 .. K /\ is_pair(r.m, u[i]) /\ r.m[u[i]].car = m[w[i]].car
                /\ u[i + 1] = r.m[u[i]].cdr
    <3>1. i \in 0 .. (n - 1) /\ i \in 0 .. n /\ j \in 0 .. n /\ j \in 0 .. (n - 1)
      BY <1>2, <2>1
    <3>2. /\ v[i] \in 1 .. K /\ z.m[v[i]].k = "pair" /\ z.m[v[i]].car = m[w[i]].car
          /\ z.m[v[i]].cdr = v[i + 1]
      BY <2>7, <2>13, <3>1 DEF is_pair
    <3>3. CASE i = j
      BY <2>17, <2>18, <3>2, <3>3 DEF is_pair
    <3>4. CASE i # j
      <4>1. v[i] # v[j] /\ i + 1 \in 0 .. j
        BY <2>10, <3>1, <3>4
      <4>2. r.m[v[i]] = z.m[v[i]]
        BY <2>17, <3>2, <4>1
      <4> QED BY <2>18, <3>2, <4>1, <4>2 DEF is_pair
    <3> QED BY <3>3, <3>4
  <2>20. Walks(u, r.m, r.p, j + 1)
    <3>1. u[0] = q
      <4>1. 0 \in 0 .. j
        OBVIOUS
      <4> QED BY <2>5, <2>18, <4>1
    <3>2. ASSUME NEW i \in 0 .. j + 1  PROVE u[i] \in 1 .. K
      <4>1. i = j + 1 \/ i \in 0 .. j
        OBVIOUS
      <4> QED BY <2>18, <2>19, <4>1
    <3>3. ASSUME NEW i \in 1 .. j + 1  PROVE u[i] = r.m[u[i - 1]].cdr
      <4>1. i - 1 \in 0 .. j /\ (i - 1) + 1 = i
        OBVIOUS
      <4> QED BY <2>19, <4>1
    <3> QED BY <2>16, <2>17, <3>1, <3>2, <3>3 DEF Walks
  <2>21. ASSUME NEW p \in 1 .. L, ~(n > 2 /\ p = w[n - 2])  PROVE r.m[p] = m[p]
    <3>1. p # v[j]
      <4>1. CASE j = 0
        <5>1. p # L + 1
          OBVIOUS
        <5> QED BY <2>2, <2>5, <4>1, <5>1
      <4>2. CASE j # 0
        <5>1. j \in 1 .. n /\ n > 2
          BY <1>2, <2>1, <4>2
        <5> QED BY <2>1, <2>5, <2>21, <5>1
      <4> QED BY <4>1, <4>2
    <3>2. p \in 1 .. L + 1
      OBVIOUS
    <3> QED BY <2>4, <2>13, <2>17, <3>1, <3>2
  <2>22. \E x : /\ Walks(x, r.m, r.p, n - 1)
                /\ \A i \in 0 .. (n - 2) : is_pair(r.m, x[i]) /\ r.m[x[i]].car = m[w[i]].car
                /\ x[n - 1] = m[w[n - 1]].car
    <3>1. /\ Walks(u, r.m, r.p, n - 1)
          /\ \A i \in 0 .. (n - 2) : is_pair(r.m, u[i]) /\ r.m[u[i]].car = m[w[i]].car
          /\ u[n - 1] = m[w[n - 1]].car
      BY <2>1, <2>15, <2>18, <2>19, <2>20
    <3> QED BY <3>1
  <2>23. StarOf(r, m, w, n)
    <3>1. r.p \in 1 .. Len(r.m) /\ n < Len(r.m) /\ n # 0
      BY <1>2, <1>6, <2>2, <2>12, <2>16, <2>17
    <3> QED BY <1>1, <1>2, <2>17, <2>21, <2>22, <3>1 DEF StarOf
  <2> QED BY <2>23
<1> QED BY <1>2, <1>5, <1>6
---------------------------------------------------------------------------
(* The elements and the cells of what the list functions return.           *)

LEMMA SameFunction ==
  ASSUME NEW D, NEW R, NEW g \in [D -> R], NEW h \in [D -> R], \A i \in D : g[i] = h[i]
  PROVE  g = h
OBVIOUS

LEMMA FunctionIsSequence ==
  ASSUME NEW n \in Nat, NEW s \in [1 .. n -> Nat]
  PROVE  s \in Seq(Nat) /\ Len(s) = n
OBVIOUS

(* f has what s has and then what t has.                                   *)
Joined(f, s, n, t, l) ==
  /\ n \in Nat /\ l \in Nat
  /\ s \in [1 .. n -> Nat] /\ t \in [1 .. l -> Nat] /\ f \in [1 .. n + l -> Nat]
  /\ \A i \in 1 .. n : f[i] = s[i]
  /\ \A i \in 1 .. l : f[n + i] = t[i]

LEMMA ConcatIs ==
  ASSUME NEW f, NEW s, NEW n, NEW t, NEW l, Joined(f, s, n, t, l)
  PROVE  f = s \o t
<1>0. /\ n \in Nat /\ l \in Nat /\ n + l \in Nat
      /\ s \in [1 .. n -> Nat] /\ t \in [1 .. l -> Nat] /\ f \in [1 .. n + l -> Nat]
      /\ \A i \in 1 .. n : f[i] = s[i]
      /\ \A i \in 1 .. l : f[n + i] = t[i]
  BY DEF Joined
<1>1. s \in Seq(Nat) /\ t \in Seq(Nat) /\ Len(s) = n /\ Len(t) = l
  BY <1>0, FunctionIsSequence
<1>2. PICK g : g = s \o t
  OBVIOUS
<1>3. g \in Seq(Nat) /\ Len(g) = n + l /\ \A i \in 1 .. n + l : g[i] = IF i <= n THEN s[i] ELSE t[i - n]
  <2>1. g \in Seq(Nat) /\ Len(g) = n + l
    <3>1. s \o t \in Seq(Nat) /\ Len(s \o t) = n + l
      BY ONLY <1>1
    <3> QED BY <1>2, <3>1
  <2>2. \A i \in 1 .. Len(s) + Len(t) : g[i] = IF i <= Len(s) THEN s[i] ELSE t[i - Len(s)]
    <3>1. s \in Seq(Nat) /\ t \in Seq(Nat)
      BY <1>1
    <3>2. \A i \in 1 .. Len(s) + Len(t) : (s \o t)[i] = IF i <= Len(s) THEN s[i] ELSE t[i - Len(s)]
      BY ONLY <3>1
    <3> QED BY ONLY <1>2, <3>2
  <2> QED BY <1>1, <2>1, <2>2
<1> USE <1>0
<1>4. \A i \in 1 .. n + l : f[i] = g[i]
  <2>1. ASSUME NEW i \in 1 .. n + l  PROVE f[i] = g[i]
    <3>1. CASE i <= n
      BY <1>3, <3>1
    <3>2. CASE ~(i <= n)
      <4>1. i - n \in 1 .. l /\ n + (i - n) = i
        BY <3>2
      <4>2. f[n + (i - n)] = t[i - n]
        BY <4>1
      <4> QED BY <1>3, <3>2, <4>1, <4>2
    <3> QED BY <3>1, <3>2
  <2> QED BY <2>1
<1>5. f = g
  <2>1. g \in [1 .. n + l -> Nat]
    BY <1>3
  <2> QED BY <1>0, <1>4, <2>1, SameFunction
<1> QED BY <1>2, <1>5

(* The elements of a list are natural numbers, one for every pair.         *)
CarsAt(e, m, w, n) ==
  /\ e \in [1 .. n -> Nat]
  /\ \A i \in 1 .. n : e[i] = m[w[i - 1]].car

LEMMA ElementsAre ==
  ASSUME NEW m, MemOK(m), NEW a \in 1 .. Len(m), NEW n \in Nat, NEW w, List(w, m, a, n)
  PROVE  CarsAt(Elements(m, a), m, w, n)
<1>1. Elements(m, a) = [i \in 1 .. n |-> m[w[i - 1]].car]
  BY ListIs
<1>2. ASSUME NEW i \in 1 .. n  PROVE m[w[i - 1]].car \in Nat
  <2>1. i - 1 \in 0 .. n
    OBVIOUS
  <2>2. w[i - 1] \in 1 .. Len(m)
    BY <2>1 DEF List, Walks
  <2>3. m[w[i - 1]].car \in 1 .. Len(m)
    BY <2>2 DEF MemOK
  <2>4. Len(m) \in Nat
    BY DEF MemOK
  <2> QED BY <2>3, <2>4
<1> QED BY <1>1, <1>2 DEF CarsAt

Turned(h, s, n) ==
  /\ h \in [1 .. n -> Nat]
  /\ \A i \in 1 .. n : h[i] = s[(n + 1) - i]

LEMMA BackwardsIs ==
  ASSUME NEW n \in Nat, NEW s \in [1 .. n -> Nat]
  PROVE  Turned(Backwards(s), s, n)
<1>1. Len(s) = n
  BY FunctionIsSequence
<1>2. \A i \in 1 .. n : (n + 1) - i \in 1 .. n
  OBVIOUS
<1>3. Backwards(s) = [i \in 1 .. n |-> s[(n + 1) - i]]
  BY <1>1 DEF Backwards
<1> QED BY <1>2, <1>3 DEF Turned

WrittenInPlace(r, m, a, b) ==
  /\ Elements(r.m, r.p) = Backwards(Elements(m, a)) \o Elements(m, b)
  /\ CellsOf(r.m, r.p) = CellsOf(m, a) \cup CellsOf(m, b)
  /\ \A p \in 1 .. Len(m) : p \notin CellsOf(m, a) => r.m[p] = m[p]

LEMMA InPlaceIs ==
  ASSUME NEW m, MemOK(m), NEW a \in 1 .. Len(m), Proper(m, a),
         NEW b \in 1 .. Len(m), b \notin CellsOf(m, a), Ends(m, b) # {},
         CellsOf(m, a) \cap CellsOf(m, b) = {}
  PROVE  WrittenInPlace(reverse_in_place(m, b, a), m, a, b)
<1>0. PICK r : r = reverse_in_place(m, b, a)
  OBVIOUS
<1> USE <1>0
<1>1. PICK w, n, u, l : /\ w = Along(m, a) /\ n = Length(m, a)
                        /\ u = Along(m, b) /\ l = Length(m, b)
  OBVIOUS
<1>2. Ends(m, a) # {}
  BY DEF Proper
<1>3. n \in Nat /\ List(w, m, a, n) /\ l \in Nat /\ List(u, m, b, l)
  BY <1>1, <1>2, IsList
<1>4. /\ CellsOf(m, a) = {w[i] : i \in 0 .. (n - 1)}
      /\ CellsOf(m, b) = {u[i] : i \in 0 .. (l - 1)}
  BY <1>3, ListIs
<1>5. Apart(w, n, u, l)
  <2>1. ASSUME NEW i \in 0 .. (n - 1), NEW j \in 0 .. l, w[i] = u[j]  PROVE FALSE
    <3>1. CASE j = l
      BY <1>3, <2>1, <3>1 DEF List
    <3>2. CASE j # l
      <4>1. j \in 0 .. (l - 1)
        BY <1>3, <3>2
      <4> QED BY <1>4, <2>1, <4>1
    <3> QED BY <3>1, <3>2
  <2> QED BY <2>1 DEF Apart
<1>6. InPlaceOf(r, m, w, n, u, l)
  BY <1>1, <1>2, <1>3, <1>5, ReversedInPlace
<1>7. PICK M, q : M = r.m /\ q = r.p
  OBVIOUS
<1>8. /\ MemOK(M) /\ Len(M) = Len(m) /\ q \in 1 .. Len(M)
      /\ \A x \in 1 .. Len(m) : M[x].car = m[x].car
      /\ \A x \in 1 .. Len(m) : (\A i \in 0 .. (n - 1) : x # w[i]) => M[x] = m[x]
  BY <1>6, <1>7 DEF InPlaceOf
<1>9. PICK v : /\ List(v, M, q, n + l)
               /\ \A i \in 0 .. (n - 1) : v[i] = w[(n - 1) - i]
               /\ \A i \in 0 .. l : v[n + i] = u[i]
  BY <1>6, <1>7 DEF InPlaceOf
<1>10. n + l \in Nat
  BY <1>3
<1>11. PICK e, f, g : e = Elements(m, a) /\ f = Elements(m, b) /\ g = Elements(M, q)
  OBVIOUS
<1>12. /\ e \in [1 .. n -> Nat] /\ \A i \in 1 .. n : e[i] = m[w[i - 1]].car
       /\ f \in [1 .. l -> Nat] /\ \A i \in 1 .. l : f[i] = m[u[i - 1]].car
       /\ g \in [1 .. n + l -> Nat] /\ \A i \in 1 .. n + l : g[i] = M[v[i - 1]].car
  <2>1. CarsAt(e, m, w, n) /\ CarsAt(f, m, u, l)
    BY <1>3, <1>11, ElementsAre
  <2>2. CarsAt(g, M, v, n + l)
    BY <1>8, <1>9, <1>10, <1>11, ElementsAre
  <2> QED BY <2>1, <2>2 DEF CarsAt
<1>13. PICK h : h = Backwards(e) /\ h \in [1 .. n -> Nat] /\ \A i \in 1 .. n : h[i] = e[(n + 1) - i]
  <2>1. Turned(Backwards(e), e, n)
    BY <1>3, <1>12, BackwardsIs
  <2> QED BY <2>1 DEF Turned
<1>14. \A i \in 0 .. n + l : v[i] \in 1 .. Len(m)
  BY <1>8, <1>9 DEF List, Walks
<1>15. \A i \in 1 .. n + l : g[i] = m[v[i - 1]].car
  <2>1. \A i \in 1 .. n + l : i - 1 \in 0 .. n + l
    BY <1>10
  <2> QED BY <1>8, <1>12, <1>14, <2>1
<1>16. ASSUME NEW i \in 1 .. n  PROVE g[i] = h[i]
  <2>1. /\ i \in 1 .. n + l /\ i - 1 \in 0 .. (n - 1) /\ (n + 1) - i \in 1 .. n
        /\ ((n + 1) - i) - 1 = (n - 1) - (i - 1)
    BY <1>3
  <2>2. v[i - 1] = w[(n - 1) - (i - 1)]
    BY <1>9, <2>1
  <2>3. e[(n + 1) - i] = m[w[((n + 1) - i) - 1]].car
    BY <1>12, <2>1
  <2> QED BY <1>13, <1>15, <2>1, <2>2, <2>3
<1>17. ASSUME NEW i \in 1 .. l  PROVE g[n + i] = f[i]
  <2>1. n + i \in 1 .. n + l /\ (n + i) - 1 = n + (i - 1) /\ i - 1 \in 0 .. l
    BY <1>3
  <2>2. v[n + (i - 1)] = u[i - 1]
    BY <1>9, <2>1
  <2> QED BY <1>12, <1>15, <2>1, <2>2
<1>18. g = h \o f
  <2>1. Joined(g, h, n, f, l)
    BY <1>3, <1>12, <1>13, <1>16, <1>17 DEF Joined
  <2> QED BY <2>1, ConcatIs
<1>19. CellsOf(M, q) = {v[i] : i \in 0 .. ((n + l) - 1)}
  BY <1>8, <1>9, <1>10, ListIs
<1>20. {v[i] : i \in 0 .. ((n + l) - 1)} = {w[i] : i \in 0 .. (n - 1)} \cup {u[i] : i \in 0 .. (l - 1)}
  <2>1. ASSUME NEW i \in 0 .. ((n + l) - 1)
        PROVE  v[i] \in {w[k] : k \in 0 .. (n - 1)} \cup {u[k] : k \in 0 .. (l - 1)}
    <3>1. CASE i < n
      <4>1. i \in 0 .. (n - 1) /\ (n - 1) - i \in 0 .. (n - 1)
        BY <1>3, <3>1
      <4> QED BY <1>9, <4>1
    <3>2. CASE ~(i < n)
      <4>1. i - n \in 0 .. (l - 1) /\ i - n \in 0 .. l /\ n + (i - n) = i
        BY <1>3, <3>2
      <4>2. v[n + (i - n)] = u[i - n]
        BY <1>9, <4>1
      <4>3. v[i] = u[i - n]
        BY <4>1, <4>2
      <4> QED BY <4>1, <4>3
    <3> QED BY <3>1, <3>2
  <2>2. ASSUME NEW k \in 0 .. (n - 1)  PROVE w[k] \in {v[i] : i \in 0 .. ((n + l) - 1)}
    <3>1. /\ (n - 1) - k \in 0 .. (n - 1) /\ (n - 1) - k \in 0 .. ((n + l) - 1)
          /\ (n - 1) - ((n - 1) - k) = k
      BY <1>3
    <3>2. v[(n - 1) - k] = w[(n - 1) - ((n - 1) - k)]
      BY <1>9, <3>1
    <3>3. v[(n - 1) - k] = w[k]
      BY <3>1, <3>2
    <3> QED BY <3>1, <3>3
  <2>3. ASSUME NEW k \in 0 .. (l - 1)  PROVE u[k] \in {v[i] : i \in 0 .. ((n + l) - 1)}
    <3>1. n + k \in 0 .. ((n + l) - 1) /\ k \in 0 .. l
      BY <1>3
    <3>2. v[n + k] = u[k]
      BY <1>9, <3>1
    <3> QED BY <3>1, <3>2
  <2> QED BY <2>1, <2>2, <2>3
<1>21. \A p \in 1 .. Len(m) : p \notin CellsOf(m, a) => M[p] = m[p]
  BY <1>4, <1>8
<1>22. g = Elements(r.m, r.p)
  BY <1>7, <1>11
<1>23. CellsOf(r.m, r.p) = CellsOf(m, a) \cup CellsOf(m, b)
  BY <1>4, <1>7, <1>19, <1>20
<1>24. WrittenInPlace(r, m, a, b)
  BY <1>7, <1>11, <1>13, <1>18, <1>21, <1>22, <1>23 DEF WrittenInPlace
<1> QED BY <1>24

LEMMA AppendIs ==
  ASSUME NEW m, MemOK(m), NEW a \in 1 .. Len(m), Proper(m, a),
         NEW b \in 1 .. Len(m), Ends(m, b) # {},
         NEW r, r = append(m, a, b)
  PROVE  /\ Elements(r.m, r.p) = Elements(m, a) \o Elements(m, b)
         /\ \A p \in 1 .. Len(m) : r.m[p] = m[p]
<1>1. PICK w, n, u, l : /\ w = Along(m, a) /\ n = Length(m, a)
                        /\ u = Along(m, b) /\ l = Length(m, b)
  OBVIOUS
<1>2. Ends(m, a) # {}
  BY DEF Proper
<1>3. n \in Nat /\ List(w, m, a, n) /\ l \in Nat /\ List(u, m, b, l) /\ n + l \in Nat
  <2>1. n \in Nat /\ List(w, m, a, n) /\ l \in Nat /\ List(u, m, b, l)
    BY <1>1, <1>2, IsList
  <2> QED BY <2>1
<1>4. AppendOf(r, m, w, n, u, l)
  BY <1>1, <1>2, <1>3, Appended
<1>5. PICK M, q : M = r.m /\ q = r.p
  OBVIOUS
<1>6. MemOK(M) /\ q \in 1 .. Len(M) /\ \A p \in 1 .. Len(m) : M[p] = m[p]
  BY <1>4, <1>5 DEF AppendOf
<1>7. PICK v : /\ List(v, M, q, n + l)
               /\ \A i \in 0 .. (n - 1) : M[v[i]].car = m[w[i]].car
               /\ \A i \in 0 .. l : M[v[n + i]] = m[u[i]]
  BY <1>4, <1>5 DEF AppendOf
<1>8. PICK e, f, g : e = Elements(m, a) /\ f = Elements(m, b) /\ g = Elements(M, q)
  OBVIOUS
<1>9. /\ e \in [1 .. n -> Nat] /\ \A i \in 1 .. n : e[i] = m[w[i - 1]].car
      /\ f \in [1 .. l -> Nat] /\ \A i \in 1 .. l : f[i] = m[u[i - 1]].car
      /\ g \in [1 .. n + l -> Nat] /\ \A i \in 1 .. n + l : g[i] = M[v[i - 1]].car
  <2>1. CarsAt(e, m, w, n) /\ CarsAt(f, m, u, l)
    BY <1>3, <1>8, ElementsAre
  <2>2. CarsAt(g, M, v, n + l)
    BY <1>3, <1>6, <1>7, <1>8, ElementsAre
  <2> QED BY <2>1, <2>2 DEF CarsAt
<1>10. ASSUME NEW i \in 1 .. n  PROVE g[i] = e[i]
  <2>1. i \in 1 .. n + l /\ i - 1 \in 0 .. (n - 1)
    BY <1>3
  <2> QED BY <1>7, <1>9, <2>1
<1>11. ASSUME NEW i \in 1 .. l  PROVE g[n + i] = f[i]
  <2>1. n + i \in 1 .. n + l /\ (n + i) - 1 = n + (i - 1) /\ i - 1 \in 0 .. l
    BY <1>3
  <2>2. M[v[n + (i - 1)]] = m[u[i - 1]]
    BY <1>7, <2>1
  <2>3. g[n + i] = M[v[(n + i) - 1]].car /\ f[i] = m[u[i - 1]].car
    BY <1>9, <2>1
  <2> QED BY ONLY <2>1, <2>2, <2>3
<1>12. g = e \o f
  <2>1. Joined(g, e, n, f, l)
    BY <1>3, <1>9, <1>10, <1>11 DEF Joined
  <2> QED BY <2>1, ConcatIs
<1> QED BY <1>5, <1>6, <1>8, <1>12

LEMMA ReverseIs ==
  ASSUME NEW m, MemOK(m), NEW a \in 1 .. Len(m), Ends(m, a) # {},
         NEW r, r = reverse(m, a)
  PROVE  /\ Elements(r.m, r.p) = Backwards(Elements(m, a))
         /\ \A p \in 1 .. Len(m) : r.m[p] = m[p]
<1>1. PICK w, n : w = Along(m, a) /\ n = Length(m, a)
  OBVIOUS
<1>2. n \in Nat /\ List(w, m, a, n)
  BY <1>1, IsList
<1>3. ReverseOf(r, m, w, n)
  BY <1>1, Reversed
<1>4. PICK M, q : M = r.m /\ q = r.p
  OBVIOUS
<1>5. MemOK(M) /\ q \in 1 .. Len(M) /\ \A p \in 1 .. Len(m) : M[p] = m[p]
  BY <1>3, <1>4 DEF ReverseOf
<1>6. PICK v : /\ List(v, M, q, n)
               /\ \A i \in 0 .. (n - 1) : M[v[i]].car = m[w[(n - 1) - i]].car
  BY <1>3, <1>4 DEF ReverseOf
<1>7. PICK e, g : e = Elements(m, a) /\ g = Elements(M, q)
  OBVIOUS
<1>8. /\ e \in [1 .. n -> Nat] /\ \A i \in 1 .. n : e[i] = m[w[i - 1]].car
      /\ g \in [1 .. n -> Nat] /\ \A i \in 1 .. n : g[i] = M[v[i - 1]].car
  <2>1. CarsAt(e, m, w, n) /\ CarsAt(g, M, v, n)
    BY <1>2, <1>5, <1>6, <1>7, ElementsAre
  <2> QED BY <2>1 DEF CarsAt
<1>9. PICK h : h = Backwards(e) /\ h \in [1 .. n -> Nat] /\ \A i \in 1 .. n : h[i] = e[(n + 1) - i]
  <2>1. Turned(Backwards(e), e, n)
    BY <1>2, <1>8, BackwardsIs
  <2> QED BY <2>1 DEF Turned
<1>10. ASSUME NEW i \in 1 .. n  PROVE g[i] = h[i]
  <2>1. /\ i - 1 \in 0 .. (n - 1) /\ (n + 1) - i \in 1 .. n
        /\ ((n + 1) - i) - 1 = (n - 1) - (i - 1)
    BY <1>2
  <2>2. M[v[i - 1]].car = m[w[(n - 1) - (i - 1)]].car
    BY <1>6, <2>1
  <2>3. e[(n + 1) - i] = m[w[((n + 1) - i) - 1]].car
    BY <1>8, <2>1
  <2> QED BY <1>8, <1>9, <2>1, <2>2, <2>3
<1>11. g = h
  <2>1. g \in [1 .. n -> Nat] /\ h \in [1 .. n -> Nat] /\ \A i \in 1 .. n : g[i] = h[i]
    BY <1>8, <1>9, <1>10
  <2>2. n \in Nat
    BY <1>2
  <2> QED BY ONLY <2>1, <2>2, SameFunction
<1> QED BY <1>4, <1>5, <1>7, <1>9, <1>11

LEMMA StarIs ==
  ASSUME NEW m, MemOK(m), NEW a \in 1 .. Len(m), Proper(m, a),
         NEW w, w = Along(m, a), NEW n, n = Length(m, a),
         NEW r, r = list_star(m, a)
  PROVE  /\ \A i \in 1 .. n - 1 :
              /\ is_pair(r.m, Along(r.m, r.p)[i - 1])
              /\ r.m[Along(r.m, r.p)[i - 1]].car = m[w[i - 1]].car
         /\ IF n = 0 THEN r.p = NIL ELSE Along(r.m, r.p)[n - 1] = m[w[n - 1]].car
         /\ \A p \in 1 .. Len(m) : p \notin (IF n > 2 THEN {w[n - 2]} ELSE {}) => r.m[p] = m[p]
<1>1. Ends(m, a) # {}
  BY DEF Proper
<1>2. StarOf(r, m, w, n)
  BY <1>1, Starred
<1>3. PICK M, q, x : M = r.m /\ q = r.p /\ x = Along(M, q)
  OBVIOUS
<1>4. /\ n \in Nat /\ MemOK(M) /\ q \in 1 .. Len(M) /\ n < Len(M) /\ Len(M) \in Nat
      /\ n = 0 => q = NIL
      /\ \A p \in 1 .. Len(m) : ~(n > 2 /\ p = w[n - 2]) => M[p] = m[p]
  BY <1>2, <1>3 DEF StarOf, MemOK
<1>5. CASE n = 0
  <2>1. \A i \in 1 .. n - 1 : FALSE
    BY <1>5
  <2> QED BY <1>3, <1>4, <1>5, <2>1
<1>6. CASE n # 0
  <2>1. PICK v : /\ Walks(v, M, q, n - 1)
                 /\ \A i \in 0 .. (n - 2) : is_pair(M, v[i]) /\ M[v[i]].car = m[w[i]].car
                 /\ v[n - 1] = m[w[n - 1]].car
    BY <1>2, <1>3, <1>6 DEF StarOf
  <2>2. PICK k \in Nat, K \in Nat : k = n - 1 /\ K = Len(M) /\ k <= K
    <3>1. n - 1 \in Nat /\ n - 1 <= Len(M)
      BY <1>4, <1>6
    <3> QED BY <1>4, <3>1
  <2>3. Walks(v, M, q, k) /\ Walks(x, M, q, K)
    BY <1>3, <1>4, <2>1, <2>2, AlongWalks
  <2>4. \A i \in 0 .. k : v[i] = x[i]
    BY <2>2, <2>3, SameWalk
  <2>5. k \in 0 .. k /\ \A i \in 1 .. n - 1 : i - 1 \in 0 .. (n - 2) /\ i - 1 \in 0 .. k
    BY <1>4, <2>2
  <2>6. \A i \in 1 .. n - 1 : is_pair(M, x[i - 1]) /\ M[x[i - 1]].car = m[w[i - 1]].car
    BY <2>1, <2>4, <2>5
  <2>7. x[n - 1] = m[w[n - 1]].car
    BY <2>1, <2>2, <2>4, <2>5
  <2> QED BY <1>3, <1>4, <1>6, <2>6, <2>7
<1> QED BY <1>4, <1>5, <1>6
---------------------------------------------------------------------------
(* Symbols.                                                                *)

Entry == [name : Names, id : Nat]

TableType ==
  [oblist : [Buckets -> Seq(Entry)], made : Nat, gensym_cnt : 0 .. NRequests, last : Int]

Held(t, b) == {t.oblist[b][p] : p \in 1 .. Len(t.oblist[b])}

Has(t, hash, name) == \E e \in Held(t, hash[name]) : e.name.letters = name.letters

(* A table after at most k requests: numbers are given out once, no list   *)
(* has two names that compare equal, and no name before the one that       *)
(* gensym tries first is free.                                             *)
TableOK(t, hash, k) ==
  /\ t \in TableType
  /\ t.made <= k
  /\ \A b \in Buckets : \A e \in Held(t, b) : e.id < t.made
  /\ \A b \in Buckets, c \in Buckets : \A e \in Held(t, b), f \in Held(t, c) : e.id = f.id => e = f
  /\ \A b \in Buckets : \A e \in Held(t, b), f \in Held(t, b) :
       e.name.letters = f.name.letters => e = f
  /\ \A n \in 0 .. (t.gensym_cnt - 1) : Has(t, hash, GensymName(n))

LEMMA HeldIs ==
  ASSUME NEW t \in TableType, NEW b \in Buckets
  PROVE  /\ t.oblist[b] \in Seq(Entry) /\ DOMAIN t.oblist[b] = 1 .. Len(t.oblist[b])
         /\ Len(t.oblist[b]) \in Nat
         /\ \A e \in Held(t, b) : e \in Entry
<1>1. t.oblist[b] \in Seq(Entry)
  BY DEF TableType
<1>2. PICK s \in Seq(Entry) : s = t.oblist[b]
  BY <1>1
<1>3. DOMAIN s = 1 .. Len(s) /\ Len(s) \in Nat /\ \A p \in 1 .. Len(s) : s[p] \in Entry
  OBVIOUS
<1>4. Held(t, b) = {s[p] : p \in 1 .. Len(s)}
  BY <1>2 DEF Held
<1> QED BY <1>2, <1>3, <1>4

(* The search finds the name if it is in its list.                         *)
LEMMA Found ==
  ASSUME NEW t \in TableType, NEW hash \in [Names -> Buckets], NEW name \in Names,
         NEW k, k = oblist_find_by_name(t, hash, name)
  PROVE  /\ k = 0 <=> ~Has(t, hash, name)
         /\ k # 0 => /\ t.oblist[hash[name]][k] \in Held(t, hash[name])
                     /\ t.oblist[hash[name]][k].name.letters = name.letters
<1>1. PICK b \in Buckets : b = hash[name]
  OBVIOUS
<1>2. PICK s : s = t.oblist[b]
  OBVIOUS
<1>3. PICK l \in Nat : l = Len(s) /\ DOMAIN s = 1 .. l /\ Held(t, b) = {s[p] : p \in 1 .. l}
  BY <1>2, HeldIs DEF Held
<1>4. PICK S : S = {p \in 1 .. l : s[p].name.letters = name.letters}
  OBVIOUS
<1>5. k = IF S = {} THEN 0 ELSE CHOOSE p \in S : \A j \in S : p <= j
  <2>1. S = {p \in DOMAIN s : stricmp(s[p].name, name)}
    BY <1>3, <1>4 DEF stricmp
  <2> QED BY <1>1, <1>2, <2>1 DEF oblist_find_by_name
<1>6. S = {} <=> ~Has(t, hash, name)
  BY <1>1, <1>3, <1>4 DEF Has
<1>7. CASE S = {}
  BY <1>5, <1>6, <1>7
<1>8. CASE S # {}
  <2>1. S \subseteq Nat
    BY <1>4
  <2>2. PICK m \in S : \A j \in S : m <= j
    BY <1>8, <2>1, Least
  <2>3. k = CHOOSE p \in S : \A j \in S : p <= j
    BY <1>5, <1>8
  <2>4. k \in S
    BY <2>2, <2>3
  <2>5. k \in 1 .. l /\ s[k].name.letters = name.letters /\ k # 0
    BY <1>4, <2>4
  <2> QED BY <1>1, <1>2, <1>3, <1>6, <1>8, <2>5
<1> QED BY <1>7, <1>8

(* A name is added to its list, with the next number.                      *)
LEMMA HeldAdded ==
  ASSUME NEW t \in TableType, NEW hash \in [Names -> Buckets], NEW name \in Names,
         NEW u, u = oblist_add_by_name(t, hash, name)
  PROVE  /\ u \in TableType
         /\ u.made = t.made + 1 /\ u.last = t.made /\ u.gensym_cnt = t.gensym_cnt
         /\ \A b \in Buckets :
              Held(u, b) = IF b = hash[name]
                           THEN Held(t, b) \cup {[name |-> name, id |-> t.made]}
                           ELSE Held(t, b)
<1>1. PICK c \in Buckets : c = hash[name]
  OBVIOUS
<1>2. t.made \in Nat /\ t.oblist \in [Buckets -> Seq(Entry)] /\ t.gensym_cnt \in 0 .. NRequests
  BY DEF TableType
<1>3. PICK e \in Entry : e = [name |-> name, id |-> t.made]
  BY <1>2 DEF Entry
<1>4. PICK s \in Seq(Entry) : s = t.oblist[c]
  BY <1>2
<1>5. PICK r : r = <<e>> \o s
  OBVIOUS
<1>6. /\ r \in Seq(Entry) /\ Len(r) = Len(s) + 1 /\ Len(s) \in Nat
      /\ r[1] = e /\ \A p \in 1 .. Len(s) : r[p + 1] = s[p]
  <2>1. <<e>> \in Seq(Entry) /\ Len(<<e>>) = 1 /\ <<e>>[1] = e /\ Len(s) \in Nat
    OBVIOUS
  <2>2. r \in Seq(Entry) /\ Len(r) = 1 + Len(s)
    BY <1>5, <2>1
  <2>3. \A p \in 1 .. 1 + Len(s) : r[p] = IF p <= 1 THEN <<e>>[p] ELSE s[p - 1]
    BY <1>5, <2>1
  <2>4. 1 \in 1 .. 1 + Len(s) /\ \A p \in 1 .. Len(s) :
          p + 1 \in 1 .. 1 + Len(s) /\ ~(p + 1 <= 1) /\ (p + 1) - 1 = p
    BY <2>1
  <2>5. r[1] = e
    BY <2>1, <2>3, <2>4
  <2>6. \A p \in 1 .. Len(s) : r[p + 1] = s[p]
    BY <2>3, <2>4
  <2>7. Len(r) = Len(s) + 1
    BY <2>1, <2>2
  <2> QED BY <2>1, <2>2, <2>5, <2>6, <2>7
<1>7. u = [t EXCEPT !.oblist = [t.oblist EXCEPT ![c] = r], !.made = t.made + 1, !.last = t.made]
  BY <1>1, <1>3, <1>4, <1>5 DEF oblist_add_by_name
<1>8. PICK o : o = [t.oblist EXCEPT ![c] = r]
  OBVIOUS
<1>9. o \in [Buckets -> Seq(Entry)] /\ o[c] = r /\ \A b \in Buckets : b # c => o[b] = t.oblist[b]
  BY <1>2, <1>6, <1>8
<1>10. /\ u.oblist = o /\ u.made = t.made + 1 /\ u.last = t.made
       /\ u.gensym_cnt = t.gensym_cnt /\ u \in TableType
  <2>1. PICK x \in Nat, y \in Nat : x = t.made + 1 /\ y = t.made
    <3>1. t.made \in Nat /\ t.made + 1 \in Nat
      BY <1>2
    <3> QED BY ONLY <3>1
  <2>2. u = [t EXCEPT !.oblist = o, !.made = x, !.last = y]
    BY <1>7, <1>8, <2>1
  <2>3. u.oblist = o /\ u.made = x /\ u.last = y /\ u.gensym_cnt = t.gensym_cnt
    BY <2>2 DEF TableType
  <2>4. u \in TableType
    <3>1. PICK O, G : O = [Buckets -> Seq(Entry)] /\ G = 0 .. NRequests
      OBVIOUS
    <3>2. t \in [oblist : O, made : Nat, gensym_cnt : G, last : Int] /\ o \in O
      BY <1>9, <3>1 DEF TableType
    <3>3. x \in Nat /\ y \in Int
      OBVIOUS
    <3>4. u \in [oblist : O, made : Nat, gensym_cnt : G, last : Int]
      BY ONLY <2>2, <3>2, <3>3
    <3> QED BY <3>1, <3>4 DEF TableType
  <2> QED BY <2>1, <2>3, <2>4
<1>11. {r[p] : p \in 1 .. Len(r)} = {s[p] : p \in 1 .. Len(s)} \cup {e}
  <2>1. ASSUME NEW p \in 1 .. Len(r)  PROVE r[p] \in {s[i] : i \in 1 .. Len(s)} \cup {e}
    <3>1. CASE p = 1
      BY <1>6, <3>1
    <3>2. CASE p # 1
      <4>1. p - 1 \in 1 .. Len(s) /\ (p - 1) + 1 = p
        BY <1>6, <3>2
      <4>2. r[(p - 1) + 1] = s[p - 1]
        BY <1>6, <4>1
      <4>3. r[p] = s[p - 1]
        BY <4>1, <4>2
      <4> QED BY <4>1, <4>3
    <3> QED BY <3>1, <3>2
  <2>2. ASSUME NEW i \in 1 .. Len(s)  PROVE s[i] \in {r[p] : p \in 1 .. Len(r)}
    <3>1. i + 1 \in 1 .. Len(r)
      BY <1>6
    <3> QED BY <1>6, <3>1
  <2>3. e \in {r[p] : p \in 1 .. Len(r)}
    <3>1. 1 \in 1 .. Len(r)
      BY <1>6
    <3> QED BY <1>6, <3>1
  <2> QED BY <2>1, <2>2, <2>3
<1>12. ASSUME NEW b \in Buckets
       PROVE  Held(u, b) = IF b = c THEN Held(t, b) \cup {e} ELSE Held(t, b)
  <2>1. CASE b = c
    <3>1. Held(u, c) = {r[p] : p \in 1 .. Len(r)} /\ Held(t, c) = {s[p] : p \in 1 .. Len(s)}
      BY <1>4, <1>9, <1>10 DEF Held
    <3> QED BY <1>11, <2>1, <3>1
  <2>2. CASE b # c
    <3>1. u.oblist[b] = t.oblist[b]
      BY <1>9, <1>10, <2>2
    <3> QED BY <2>2, <3>1 DEF Held
  <2> QED BY <2>1, <2>2
<1> QED BY <1>1, <1>3, <1>10, <1>12
(* No symbol is forgotten.                                                 *)
Grown(t, u) == \A b \in Buckets : Held(t, b) \subseteq Held(u, b)

(* The symbol returned last is that of the name.                           *)
Answers(u, hash, name) ==
  \E e \in Held(u, hash[name]) : e.name.letters = name.letters /\ e.id = u.last

AddedTo(u, t, hash, name, k) ==
  /\ TableOK(u, hash, k + 1) /\ Grown(t, u)
  /\ Answers(u, hash, name) /\ Has(u, hash, name)
  /\ u.last = t.made /\ u.gensym_cnt = t.gensym_cnt

LEMMA Added ==
  ASSUME NEW t, NEW hash \in [Names -> Buckets], NEW name \in Names, NEW k \in Nat,
         TableOK(t, hash, k), ~Has(t, hash, name)
  PROVE  AddedTo(oblist_add_by_name(t, hash, name), t, hash, name, k)
<1>1. PICK u : u = oblist_add_by_name(t, hash, name)
  OBVIOUS
<1>2. t \in TableType /\ t.made <= k
  BY DEF TableOK
<1>3. PICK c \in Buckets : c = hash[name]
  OBVIOUS
<1>4. PICK x \in Nat : x = t.made
  BY <1>2 DEF TableType
<1>5. PICK e : e = [name |-> name, id |-> x]
  OBVIOUS
<1>6. e.name = name /\ e.id = x
  BY <1>5
<1>7. /\ u \in TableType /\ u.made = x + 1 /\ u.last = x /\ u.gensym_cnt = t.gensym_cnt
      /\ \A b \in Buckets : Held(u, b) = IF b = c THEN Held(t, b) \cup {e} ELSE Held(t, b)
  <2>1. /\ u \in TableType
        /\ u.made = t.made + 1 /\ u.last = t.made /\ u.gensym_cnt = t.gensym_cnt
        /\ \A b \in Buckets :
             Held(u, b) = IF b = hash[name]
                          THEN Held(t, b) \cup {[name |-> name, id |-> t.made]}
                          ELSE Held(t, b)
    BY <1>1, <1>2, HeldAdded
  <2> QED BY <1>3, <1>4, <1>5, <2>1
<1>8. \A b \in Buckets : Held(t, b) \subseteq Held(u, b)
  BY <1>7
<1>9. e \in Held(u, c)
  BY <1>7
<1>10. \A b \in Buckets : \A f \in Held(u, b) : f \in Held(t, b) \/ (b = c /\ f = e)
  BY <1>7
<1>11. \A b \in Buckets : \A f \in Held(t, b) : f.id < x /\ f.id \in Nat
  <2>1. \A b \in Buckets : \A f \in Held(t, b) : f.id < x
    BY <1>4 DEF TableOK
  <2>2. \A b \in Buckets : \A f \in Held(t, b) : f.id \in Nat
    BY <1>2, HeldIs DEF Entry
  <2> QED BY <2>1, <2>2
<1>12. \A f \in Held(t, c) : f.name.letters # name.letters
  BY <1>3 DEF Has
<1>13. \A b \in Buckets : \A f \in Held(u, b) : f.id < x + 1
  BY <1>6, <1>10, <1>11
<1>14. ASSUME NEW b \in Buckets, NEW d \in Buckets, NEW f \in Held(u, b), NEW g \in Held(u, d),
              f.id = g.id
       PROVE  f = g
  <2>1. CASE f \in Held(t, b) /\ g \in Held(t, d)
    BY <1>14, <2>1 DEF TableOK
  <2>2. CASE f \in Held(t, b) /\ g = e
    <3>1. f.id < x
      BY <1>11, <2>2
    <3> QED BY <1>6, <1>14, <2>2, <3>1
  <2>3. CASE f = e /\ g \in Held(t, d)
    <3>1. g.id < x
      BY <1>11, <2>3
    <3> QED BY <1>6, <1>14, <2>3, <3>1
  <2> QED BY <1>10, <2>1, <2>2, <2>3
<1>15. ASSUME NEW b \in Buckets, NEW f \in Held(u, b), NEW g \in Held(u, b),
              f.name.letters = g.name.letters
       PROVE  f = g
  <2>1. CASE f \in Held(t, b) /\ g \in Held(t, b)
    BY <1>15, <2>1 DEF TableOK
  <2>2. CASE f \in Held(t, b) /\ g = e /\ b = c
    BY <1>6, <1>12, <1>15, <2>2
  <2>3. CASE f = e /\ g \in Held(t, b) /\ b = c
    BY <1>6, <1>12, <1>15, <2>3
  <2> QED BY <1>10, <2>1, <2>2, <2>3
<1>16. ASSUME NEW n \in 0 .. (u.gensym_cnt - 1)
       PROVE  Has(u, hash, GensymName(n))
  <2>1. n \in 0 .. (NRequests - 1)
    BY <1>2, <1>7, AlgorithmsAssumption DEF TableType
  <2>2. GensymName(n) \in Names
    BY <2>1 DEF Names
  <2>3. Has(t, hash, GensymName(n))
    BY <1>7 DEF TableOK
  <2> QED BY <1>8, <2>2, <2>3 DEF Has
<1>17. TableOK(u, hash, k + 1)
  <2>1. u.made <= k + 1
    BY <1>2, <1>4, <1>7
  <2> QED BY <1>7, <1>13, <1>14, <1>15, <1>16, <2>1 DEF TableOK
<1>18. Answers(u, hash, name) /\ Has(u, hash, name)
  BY <1>3, <1>6, <1>7, <1>9 DEF Answers, Has
<1> QED BY <1>1, <1>4, <1>7, <1>8, <1>17, <1>18 DEF AddedTo, Grown

(* What a request may find and leave.                                      *)
Serves(u, t, hash, x, k) ==
  /\ TableOK(u, hash, k + 1) /\ Grown(t, u)
  /\ x = Fresh => u.last = t.made /\ \E b \in Buckets : \E e \in Held(u, b) : e.id = u.last
  /\ x # Fresh => Answers(u, hash, x)

LEMMA MkSymbolIs ==
  ASSUME NEW t, NEW hash \in [Names -> Buckets], NEW name \in Names, NEW k \in Nat,
         TableOK(t, hash, k), name # Fresh
  PROVE  Serves(mk_symbol(t, hash, name), t, hash, name, k)
<1>1. PICK u, j : u = mk_symbol(t, hash, name) /\ j = oblist_find_by_name(t, hash, name)
  OBVIOUS
<1>2. t \in TableType
  BY DEF TableOK
<1>3. /\ j = 0 <=> ~Has(t, hash, name)
      /\ j # 0 => /\ t.oblist[hash[name]][j] \in Held(t, hash[name])
                  /\ t.oblist[hash[name]][j].name.letters = name.letters
  BY <1>1, <1>2, Found
<1>4. CASE j = 0
  <2>1. u = oblist_add_by_name(t, hash, name)
    BY <1>1, <1>4 DEF mk_symbol
  <2>2. AddedTo(u, t, hash, name, k)
    BY <1>3, <1>4, <2>1, Added
  <2> QED BY <1>1, <2>2 DEF AddedTo, Serves
<1>5. CASE j # 0
  <2>1. PICK e : e = t.oblist[hash[name]][j]
    OBVIOUS
  <2>2. e \in Held(t, hash[name]) /\ e.name.letters = name.letters /\ e.id \in Nat
    <3>1. e \in Held(t, hash[name]) /\ e.name.letters = name.letters
      BY <1>3, <1>5, <2>1
    <3>2. hash[name] \in Buckets
      OBVIOUS
    <3>3. e \in Entry
      BY <1>2, <3>1, <3>2, HeldIs
    <3> QED BY <3>1, <3>3 DEF Entry
  <2>3. PICK i \in Nat : i = e.id
    BY <2>2
  <2>4. u = [t EXCEPT !.last = i]
    BY <1>1, <1>5, <2>1, <2>3 DEF mk_symbol
  <2>5. /\ u \in TableType /\ u.oblist = t.oblist /\ u.made = t.made /\ u.last = i
        /\ u.gensym_cnt = t.gensym_cnt
    <3>1. PICK O, G : O = [Buckets -> Seq(Entry)] /\ G = 0 .. NRequests
      OBVIOUS
    <3>2. t \in [oblist : O, made : Nat, gensym_cnt : G, last : Int] /\ i \in Int
      BY <1>2, <3>1 DEF TableType
    <3>3. /\ u \in [oblist : O, made : Nat, gensym_cnt : G, last : Int]
          /\ u.oblist = t.oblist /\ u.made = t.made /\ u.last = i
          /\ u.gensym_cnt = t.gensym_cnt
      BY ONLY <2>4, <3>2
    <3> QED BY <3>1, <3>3 DEF TableType
  <2>6. \A b \in Buckets : Held(u, b) = Held(t, b)
    BY <2>5 DEF Held
  <2>7. \A n : GensymName(n) \in Names => Has(u, hash, GensymName(n)) = Has(t, hash, GensymName(n))
    BY <2>6 DEF Has
  <2>8. TableOK(u, hash, k + 1)
    <3>1. u.made <= k + 1
      <4>1. t.made <= k /\ t.made \in Nat
        BY DEF TableOK, TableType
      <4> QED BY <2>5, <4>1
    <3>2. ASSUME NEW n \in 0 .. (u.gensym_cnt - 1)  PROVE Has(u, hash, GensymName(n))
      <4>1. n \in 0 .. (NRequests - 1)
        BY <2>5, AlgorithmsAssumption DEF TableType
      <4>2. GensymName(n) \in Names
        BY <4>1 DEF Names
      <4>3. Has(t, hash, GensymName(n))
        BY <2>5 DEF TableOK
      <4> QED BY <2>7, <4>2, <4>3
    <3>3. \A b \in Buckets : \A f \in Held(u, b) : f.id < u.made
      BY <2>5, <2>6 DEF TableOK
    <3>4. \A b \in Buckets, c \in Buckets : \A f \in Held(u, b), g \in Held(u, c) : f.id = g.id => f = g
      BY <2>6 DEF TableOK
    <3>5. \A b \in Buckets : \A f \in Held(u, b), g \in Held(u, b) :
            f.name.letters = g.name.letters => f = g
      BY <2>6 DEF TableOK
    <3> QED BY <2>5, <3>1, <3>2, <3>3, <3>4, <3>5 DEF TableOK
  <2>9. Answers(u, hash, name)
    <3>1. hash[name] \in Buckets
      OBVIOUS
    <3> QED BY <2>2, <2>3, <2>5, <2>6, <3>1 DEF Answers
  <2> QED BY <1>1, <2>6, <2>8, <2>9 DEF Serves, Grown
<1> QED BY <1>4, <1>5
(* gensym finds a name that is free: there are more names for it than      *)
(* symbols.                                                                *)
LEMMA FreeName ==
  ASSUME NEW t, NEW hash \in [Names -> Buckets], NEW k \in Nat,
         TableOK(t, hash, k), k < NRequests
  PROVE  \E n \in 0 .. (NRequests - 1) : ~Has(t, hash, GensymName(n))
<1>1. SUFFICES ASSUME \A n \in 0 .. (NRequests - 1) : Has(t, hash, GensymName(n))
               PROVE  FALSE
  OBVIOUS
<1>2. PICK N \in Nat : N = NRequests /\ k < N
  BY AlgorithmsAssumption
<1>3. PICK S : S = 0 .. (N - 1)
  OBVIOUS
<1>4. \A n \in S : GensymName(n) \in Names /\ hash[GensymName(n)] \in Buckets
  <2>1. \A n \in S : GensymName(n) \in Names
    BY <1>2, <1>3 DEF Names
  <2> QED BY <2>1
<1>5. \A n \in S : \E e \in Held(t, hash[GensymName(n)]) : e.name.letters = GensymName(n).letters
  BY <1>1, <1>2, <1>3 DEF Has
<1> DEFINE E(n) == CHOOSE e \in Held(t, hash[GensymName(n)]) : e.name.letters = GensymName(n).letters
<1>6. \A n \in S : E(n) \in Held(t, hash[GensymName(n)]) /\ E(n).name.letters = GensymName(n).letters
  BY <1>5
<1> HIDE DEF E
<1>7. PICK M \in Nat : M = t.made /\ M <= k
  BY DEF TableOK, TableType
<1>8. \A n \in S : E(n).id \in 1 - 1 .. M - 1
  <2>1. ASSUME NEW n \in S  PROVE E(n).id \in 1 - 1 .. M - 1
    <3>1. PICK b \in Buckets : b = hash[GensymName(n)]
      BY <1>4
    <3>2. E(n) \in Held(t, b) /\ t \in TableType
      BY <1>6, <3>1 DEF TableOK
    <3>3. E(n).id < M
      BY <1>7, <3>2 DEF TableOK
    <3>4. E(n).id \in Nat
      BY <3>2, HeldIs DEF Entry
    <3> QED BY <1>7, <3>3, <3>4
  <2> QED BY <2>1
<1>9. PICK T : T = 0 .. (M - 1)
  OBVIOUS
<1> DEFINE f == [n \in S |-> E(n).id]
<1>10. f \in [S -> T] /\ \A n \in S : f[n] = E(n).id
  BY <1>8, <1>9
<1> HIDE DEF f
<1>11. /\ IsFiniteSet(S) /\ IsFiniteSet(T) /\ Cardinality(T) < Cardinality(S)
  <2>1. 0 \in Int /\ N - 1 \in Int /\ M - 1 \in Int /\ ~(0 > N - 1)
        /\ ((N - 1) - 0) + 1 = N /\ (0 > M - 1 => M = 0) /\ ((M - 1) - 0) + 1 = M
    BY <1>2, <1>7
  <2>2. IsFiniteSet(0 .. (N - 1)) /\ Cardinality(0 .. (N - 1)) = N
    BY <2>1, FS_Interval
  <2>3. IsFiniteSet(0 .. (M - 1)) /\ Cardinality(0 .. (M - 1)) = M
    BY <2>1, FS_Interval
  <2> QED BY <1>2, <1>3, <1>7, <1>9, <2>2, <2>3
<1>12. PICK x \in S, y \in S : x # y /\ f[x] = f[y]
  <2>1. f \in [S -> T]
    BY <1>10
  <2> QED BY ONLY <1>11, <2>1, FS_PigeonHole
<1>13. E(x) = E(y)
  <2>1. PICK b \in Buckets, c \in Buckets : b = hash[GensymName(x)] /\ c = hash[GensymName(y)]
    BY <1>4
  <2>2. E(x) \in Held(t, b) /\ E(y) \in Held(t, c) /\ E(x).id = E(y).id
    BY <1>6, <1>10, <1>12, <2>1
  <2> QED BY <2>2 DEF TableOK
<1>14. GensymName(x).letters = GensymName(y).letters
  BY <1>6, <1>13
<1>15. GensymName(x).letters = <<"gensym-", x>> /\ GensymName(y).letters = <<"gensym-", y>>
  BY DEF GensymName, Name
<1>16. x = y
  <2>1. <<"gensym-", x>>[2] = x /\ <<"gensym-", y>>[2] = y
    OBVIOUS
  <2> QED BY <1>14, <1>15, <2>1
<1> QED BY <1>12, <1>16

LEMMA GensymIs ==
  ASSUME NEW t, NEW hash \in [Names -> Buckets], NEW k \in Nat,
         TableOK(t, hash, k), k < NRequests
  PROVE  Serves(gensym(t, hash, NRequests - 1), t, hash, Fresh, k)
<1>1. PICK N \in Nat : N = NRequests /\ k < N
  BY AlgorithmsAssumption
<1>2. t \in TableType
  BY DEF TableOK
<1>3. PICK g \in Nat : g = t.gensym_cnt
  BY <1>2, AlgorithmsAssumption DEF TableType
<1> DEFINE free == {n \in g .. N - 1 : ~(oblist_find_by_name(t, hash, GensymName(n)) # 0)}
           cnt == CHOOSE n \in free : \A j \in free : n <= j
<1>4. \A n \in 0 .. (N - 1) : GensymName(n) \in Names
  BY <1>1 DEF Names
<1>5. \A n \in g .. N - 1 : n \in free <=> ~Has(t, hash, GensymName(n))
  <2>1. ASSUME NEW n \in g .. N - 1  PROVE n \in free <=> ~Has(t, hash, GensymName(n))
    <3>1. PICK name \in Names : name = GensymName(n)
      BY <1>4
    <3>2. oblist_find_by_name(t, hash, name) = 0 <=> ~Has(t, hash, name)
      BY <1>2, Found
    <3> QED BY <3>1, <3>2
  <2> QED BY <2>1
<1>6. PICK m \in 0 .. (N - 1) : ~Has(t, hash, GensymName(m))
  BY <1>1, FreeName
<1>7. \A n \in 0 .. (g - 1) : Has(t, hash, GensymName(n))
  BY <1>3 DEF TableOK
<1>8. m \in free
  BY <1>5, <1>6, <1>7
<1>9. free \subseteq Nat /\ free \subseteq g .. N - 1
  OBVIOUS
<1>10. PICK c \in free : c = cnt /\ \A j \in free : c <= j
  <2> HIDE DEF free
  <2>1. PICK c \in free : \A j \in free : c <= j
    BY <1>8, <1>9, Least
  <2> QED BY <2>1
<1>11. c \in 0 .. (N - 1) /\ c \in Nat /\ ~Has(t, hash, GensymName(c))
  BY <1>5, <1>9, <1>10
<1>12. \A n \in 0 .. (c - 1) : Has(t, hash, GensymName(n))
  <2>1. ASSUME NEW n \in 0 .. (c - 1)  PROVE Has(t, hash, GensymName(n))
    <3>1. CASE n < g
      BY <1>7, <3>1
    <3>2. CASE ~(n < g)
      <4>1. n \in g .. N - 1 /\ ~(c <= n)
        BY <1>11, <3>2
      <4>2. n \notin free
        BY <1>10, <4>1
      <4> QED BY <1>5, <4>1, <4>2
    <3> QED BY <3>1, <3>2
  <2> QED BY <2>1
<1>13. PICK name, v : /\ name \in Names /\ name = GensymName(c)
                     /\ v = oblist_add_by_name(t, hash, name)
  BY <1>4, <1>11
<1>14. AddedTo(v, t, hash, name, k)
  BY <1>11, <1>13, Added
<1>15. PICK u : u = gensym(t, hash, NRequests - 1)
  OBVIOUS
<1>16. u = [v EXCEPT !.gensym_cnt = c]
  BY <1>1, <1>3, <1>10, <1>13, <1>15 DEF gensym
<1>17. v \in TableType
  BY <1>14 DEF AddedTo, TableOK
<1>18. /\ u \in TableType /\ u.oblist = v.oblist /\ u.made = v.made /\ u.last = v.last
       /\ u.gensym_cnt = c
  <2>1. PICK O, G : O = [Buckets -> Seq(Entry)] /\ G = 0 .. NRequests
    OBVIOUS
  <2>2. v \in [oblist : O, made : Nat, gensym_cnt : G, last : Int] /\ c \in G
    BY <1>1, <1>11, <1>17, <2>1 DEF TableType
  <2>3. /\ u \in [oblist : O, made : Nat, gensym_cnt : G, last : Int]
        /\ u.oblist = v.oblist /\ u.made = v.made /\ u.last = v.last /\ u.gensym_cnt = c
    BY ONLY <1>16, <2>2
  <2> QED BY <2>1, <2>3 DEF TableType
<1>19. \A b \in Buckets : Held(u, b) = Held(v, b)
  BY <1>18 DEF Held
<1>20. TableOK(u, hash, k + 1)
  <2>1. ASSUME NEW n \in 0 .. (u.gensym_cnt - 1)  PROVE Has(u, hash, GensymName(n))
    <3>1. n \in 0 .. (c - 1) /\ n \in 0 .. (N - 1)
      BY <1>11, <1>18
    <3>2. PICK b \in Buckets : b = hash[GensymName(n)]
      BY <1>4, <3>1
    <3>3. Held(t, b) \subseteq Held(u, b)
      BY <1>14, <1>19 DEF AddedTo, Grown
    <3> QED BY <1>12, <3>1, <3>2, <3>3 DEF Has
  <2>2. TableOK(v, hash, k + 1)
    BY <1>14 DEF AddedTo
  <2>3. u.made <= k + 1 /\ \A b \in Buckets : \A f \in Held(u, b) : f.id < u.made
    BY <1>18, <1>19, <2>2 DEF TableOK
  <2>4. \A b \in Buckets, d \in Buckets : \A e \in Held(u, b), f \in Held(u, d) : e.id = f.id => e = f
    BY <1>19, <2>2 DEF TableOK
  <2>5. \A b \in Buckets : \A e \in Held(u, b), f \in Held(u, b) :
          e.name.letters = f.name.letters => e = f
    BY <1>19, <2>2 DEF TableOK
  <2> QED BY <1>18, <2>1, <2>3, <2>4, <2>5 DEF TableOK
<1>21. Grown(t, u)
  BY <1>14, <1>19 DEF AddedTo, Grown
<1>22. u.last = t.made
  BY <1>14, <1>18 DEF AddedTo
<1>23. \E b \in Buckets : \E e \in Held(u, b) : e.id = u.last
  <2>1. PICK b \in Buckets : b = hash[name]
    BY <1>13
  <2>2. \E e \in Held(v, b) : e.id = v.last
    BY <1>14, <2>1 DEF AddedTo, Answers
  <2> QED BY <1>18, <1>19, <2>2
<1> QED BY <1>15, <1>20, <1>21, <1>22, <1>23 DEF Serves
---------------------------------------------------------------------------
(* The tables after each of a series of requests.                          *)
LEMMA AnswerServes ==
  ASSUME NEW t, NEW hash \in [Names -> Buckets], NEW k \in Nat, NEW x \in Names \cup {Fresh},
         TableOK(t, hash, k), k < NRequests
  PROVE  Serves(Answer(t, hash, x), t, hash, x, k)
<1>1. CASE x = Fresh
  BY <1>1, GensymIs DEF Answer
<1>2. CASE x # Fresh
  BY <1>2, MkSymbolIs DEF Answer
<1> QED BY <1>1, <1>2

LEMMA EmptyIs ==
  ASSUME NEW hash \in [Names -> Buckets]
  PROVE  TableOK(Empty, hash, 0)
<1>1. PICK o : o = oblist_initial_value
  OBVIOUS
<1>2. o \in [Buckets -> Seq(Entry)] /\ \A b \in Buckets : o[b] = << >>
  BY <1>1 DEF oblist_initial_value
<1>3. Empty = [oblist |-> o, made |-> 0, gensym_cnt |-> 0, last |-> -1]
  BY <1>1 DEF Empty
<1>4. /\ Empty.oblist = o /\ Empty.made = 0 /\ Empty.gensym_cnt = 0
      /\ Empty \in TableType
  <2>1. 0 \in Nat /\ 0 \in 0 .. NRequests /\ -1 \in Int
    BY AlgorithmsAssumption
  <2> QED BY <1>2, <1>3, <2>1 DEF TableType
<1>5. \A b \in Buckets : Held(Empty, b) = {}
  <2>1. \A b \in Buckets : Len(Empty.oblist[b]) = 0
    BY <1>2, <1>4
  <2> QED BY <2>1 DEF Held
<1> QED BY <1>4, <1>5 DEF TableOK

LEMMA AnsweringRuns ==
  ASSUME NEW hash \in [Names -> Buckets], NEW asked \in [1 .. NRequests -> Names \cup {Fresh}]
  PROVE  /\ \A k \in 0 .. NRequests : TableOK(Answering(hash, asked)[k], hash, k)
         /\ \A k \in 1 .. NRequests :
              Serves(Answering(hash, asked)[k], Answering(hash, asked)[k - 1], hash, asked[k], k - 1)
<1>1. PICK N, x : N \in Nat /\ N = NRequests /\ x = Empty
  BY AlgorithmsAssumption
<1>2. TableOK(x, hash, 0) /\ x \in TableType
  BY <1>1, EmptyIs DEF TableOK
<1> DEFINE G(k, t) == IF k \in 1 .. N /\ Answer(t, hash, asked[k]) \in TableType
                      THEN Answer(t, hash, asked[k]) ELSE t
           g == [k \in Nat |-> [t \in TableType |-> G(k, t)]]
           Rec(f) == [n \in 0 .. N |-> IF n = 0 THEN x ELSE Answer(f[n - 1], hash, asked[n])]
<1>3. g \in [Nat -> [TableType -> TableType]]
  OBVIOUS
<1>4. \A k \in Nat : \A t \in TableType : g[k][t] = G(k, t)
  OBVIOUS
<1> HIDE DEF g, Rec
<1>5. PICK f \in [0 .. N -> TableType] : Takes(f, x, g, N)
  BY <1>1, <1>2, <1>3, Steps
<1>6. f[0] = x /\ \A k \in 1 .. N : f[k] = G(k, f[k - 1]) /\ f[k - 1] \in TableType
  <2>1. 0 \in 0 .. N /\ \A k \in 1 .. N : k \in 0 .. N /\ k # 0 /\ k - 1 \in 0 .. N /\ k \in Nat
    BY <1>1
  <2> QED BY <1>4, <1>5, <2>1 DEF Takes
<1>7. \A k \in 1 .. N : k \in Nat /\ k - 1 \in Nat /\ k - 1 < NRequests /\ (k - 1) + 1 = k
                        /\ asked[k] \in Names \cup {Fresh}
  BY <1>1
<1>8. ASSUME NEW k \in 1 .. N, TableOK(f[k - 1], hash, k - 1)
      PROVE  /\ f[k] = Answer(f[k - 1], hash, asked[k])
             /\ Serves(f[k], f[k - 1], hash, asked[k], k - 1)
             /\ TableOK(f[k], hash, k)
  <2>1. PICK u : u = Answer(f[k - 1], hash, asked[k])
    BY <1>1
  <2>2. Serves(u, f[k - 1], hash, asked[k], k - 1)
    BY <1>7, <1>8, <2>1, AnswerServes
  <2>3. TableOK(u, hash, k) /\ u \in TableType
    BY <1>7, <2>2 DEF Serves, TableOK
  <2>4. f[k] = u
    BY <1>6, <2>1, <2>3
  <2> QED BY <2>1, <2>2, <2>3, <2>4
<1>9. \A k \in 0 .. N : TableOK(f[k], hash, k)
  <2> DEFINE S == {k \in 0 .. N : TableOK(f[k], hash, k)}
  <2>1. 0 \in S
    BY <1>1, <1>2, <1>6
  <2>2. \A k \in 1 .. N : k - 1 \in S => k \in S
    <3>1. \A k \in 1 .. N : k \in 0 .. N
      BY <1>1
    <3> QED BY <1>8, <3>1
  <2>3. \A k \in 0 .. N : k \in S
    <3> HIDE DEF S
    <3> QED BY ONLY <1>1, <2>1, <2>2, UpTo
  <2> QED BY <2>3
<1>10. \A k \in 1 .. N : /\ f[k] = Answer(f[k - 1], hash, asked[k])
                         /\ Serves(f[k], f[k - 1], hash, asked[k], k - 1)
  <2>1. \A k \in 1 .. N : k - 1 \in 0 .. N
    BY <1>1
  <2> QED BY <1>8, <1>9, <2>1
<1>11. f = Rec(f)
  <2>1. ASSUME NEW n \in 0 .. N  PROVE f[n] = IF n = 0 THEN x ELSE Answer(f[n - 1], hash, asked[n])
    <3>1. n = 0 \/ n \in 1 .. N
      BY <1>1
    <3> QED BY <1>6, <1>10, <3>1
  <2> QED BY <2>1 DEF Rec
<1>12. PICK c : c = Answering(hash, asked)
  OBVIOUS
<1>13. c = Rec(c)
  <2>1. c = CHOOSE h : h = Rec(h)
    BY <1>1, <1>12 DEF Answering, Rec
  <2> QED BY <1>11, <2>1
<1>14. c[0] = x /\ \A k \in 1 .. N : c[k] = Answer(c[k - 1], hash, asked[k])
  <2>1. c = [n \in 0 .. N |-> IF n = 0 THEN x ELSE Answer(c[n - 1], hash, asked[n])]
    BY <1>13 DEF Rec
  <2>2. 0 \in 0 .. N /\ \A k \in 1 .. N : k \in 0 .. N /\ k # 0
    BY <1>1
  <2> QED BY <2>1, <2>2
<1>15. \A k \in 0 .. N : c[k] = f[k]
  <2>1. Alike(c, f, N)
    BY <1>1, <1>6, <1>10, <1>14 DEF Alike
  <2> QED BY <2>1, Determined
<1>16. \A k \in 0 .. N : TableOK(c[k], hash, k)
  BY <1>9, <1>15
<1>17. \A k \in 1 .. N : Serves(c[k], c[k - 1], hash, asked[k], k - 1)
  <2>1. \A k \in 1 .. N : k \in 0 .. N /\ k - 1 \in 0 .. N
    BY <1>1
  <2> QED BY <1>10, <1>15, <2>1
<1> QED BY <1>1, <1>12, <1>16, <1>17
(* What the requests are answered with.                                    *)
AnswersApart(c, asked) ==
  \A j \in 1 .. NRequests, i \in 1 .. NRequests :
    i < j =>
      /\ asked[j] = Fresh => c[i].last # c[j].last
      /\ asked[i] = asked[j] /\ asked[j] # Fresh => c[i].last = c[j].last
      /\ asked[i].letters # asked[j].letters /\ Fresh \notin {asked[i], asked[j]} =>
           c[i].last # c[j].last

LEMMA AnsweredApart ==
  ASSUME NEW hash \in [Names -> Buckets], NEW asked \in [1 .. NRequests -> Names \cup {Fresh}]
  PROVE  AnswersApart(Answering(hash, asked), asked)
<1>1. PICK N, c : N \in Nat /\ N = NRequests /\ c = Answering(hash, asked)
  BY AlgorithmsAssumption
<1>2. /\ \A k \in 0 .. N : TableOK(c[k], hash, k)
      /\ \A k \in 1 .. N : Serves(c[k], c[k - 1], hash, asked[k], k - 1)
  BY <1>1, AnsweringRuns
<1>3. SUFFICES ASSUME NEW j \in 1 .. N, NEW i \in 1 .. N, i < j
      PROVE  /\ asked[j] = Fresh => c[i].last # c[j].last
             /\ asked[i] = asked[j] /\ asked[j] # Fresh => c[i].last = c[j].last
             /\ asked[i].letters # asked[j].letters /\ Fresh \notin {asked[i], asked[j]} =>
                  c[i].last # c[j].last
  BY <1>1 DEF AnswersApart
<1>4. asked[i] \in Names \cup {Fresh} /\ asked[j] \in Names \cup {Fresh}
  BY <1>1
(* Whatever the table had after request i it has ever after.               *)
<1>5. \A k \in i .. N : Grown(c[i], c[k])
  <2> DEFINE S == {n \in 0 .. N - i : Grown(c[i], c[n + i])}
  <2>1. N - i \in Nat /\ 0 + i = i
    BY <1>1
  <2>2. 0 \in S
    BY <2>1 DEF Grown
  <2>3. \A n \in 1 .. N - i : n - 1 \in S => n \in S
    <3>1. SUFFICES ASSUME NEW n \in 1 .. N - i, n - 1 \in S  PROVE n \in S
      OBVIOUS
    <3>2. n + i \in 1 .. N /\ (n + i) - 1 = (n - 1) + i /\ n \in 0 .. N - i
      BY <1>1
    <3>3. Serves(c[n + i], c[(n - 1) + i], hash, asked[n + i], (n - 1) + i)
      BY <1>2, <3>2
    <3>4. Grown(c[(n - 1) + i], c[n + i])
      BY <3>3 DEF Serves
    <3>5. Grown(c[i], c[(n - 1) + i])
      BY <3>1
    <3> QED BY <3>2, <3>4, <3>5 DEF Grown
  <2>4. \A n \in 0 .. N - i : n \in S
    <3> HIDE DEF S
    <3> QED BY ONLY <2>1, <2>2, <2>3, UpTo
  <2>5. ASSUME NEW k \in i .. N  PROVE Grown(c[i], c[k])
    <3>1. k - i \in 0 .. N - i /\ (k - i) + i = k
      BY <1>1
    <3>2. k - i \in S
      BY <2>4, <3>1
    <3>3. Grown(c[i], c[(k - i) + i])
      BY <3>2
    <3> QED BY <3>1, <3>3
  <2> QED BY <2>5
<1>6. /\ Serves(c[i], c[i - 1], hash, asked[i], i - 1)
      /\ Serves(c[j], c[j - 1], hash, asked[j], j - 1)
      /\ TableOK(c[j], hash, j) /\ TableOK(c[j - 1], hash, j - 1)
      /\ Grown(c[i], c[j]) /\ Grown(c[i], c[j - 1])
  <2>1. j \in 0 .. N /\ j - 1 \in 0 .. N /\ j \in i .. N /\ j - 1 \in i .. N
    BY <1>1, <1>3
  <2> QED BY <1>2, <1>5, <2>1
(* The symbol that request i was given is in the table.                    *)
<1>7. PICK b \in Buckets : \E e \in Held(c[i], b) : e.id = c[i].last
  <2>1. CASE asked[i] = Fresh
    BY <1>6, <2>1 DEF Serves
  <2>2. CASE asked[i] # Fresh
    <3>1. Answers(c[i], hash, asked[i])
      BY <1>6, <2>2 DEF Serves
    <3>2. hash[asked[i]] \in Buckets
      BY <1>4, <2>2
    <3> QED BY <3>1, <3>2 DEF Answers
  <2> QED BY <2>1, <2>2
<1>8. ASSUME asked[j] = Fresh  PROVE c[i].last # c[j].last
  <2>1. c[j].last = c[j - 1].made
    BY <1>6, <1>8 DEF Serves
  <2>2. PICK e \in Held(c[j - 1], b) : e.id = c[i].last
    BY <1>6, <1>7 DEF Grown
  <2>3. e.id < c[j - 1].made /\ c[j - 1].made \in Nat
    BY <1>6, <2>2 DEF TableOK, TableType
  <2>4. e.id # c[j - 1].made
    BY <2>3
  <2> QED BY <2>1, <2>2, <2>4
<1>9. ASSUME asked[i] # Fresh, asked[j] # Fresh
      PROVE  \E u \in Buckets, v \in Buckets :
               /\ u = hash[asked[i]] /\ v = hash[asked[j]]
               /\ \E e \in Held(c[j], u), f \in Held(c[j], v) :
                    /\ e.name.letters = asked[i].letters /\ e.id = c[i].last
                    /\ f.name.letters = asked[j].letters /\ f.id = c[j].last
  <2>1. PICK u \in Buckets, v \in Buckets : u = hash[asked[i]] /\ v = hash[asked[j]]
    BY <1>4, <1>9
  <2>2. Answers(c[i], hash, asked[i]) /\ Answers(c[j], hash, asked[j])
    BY <1>6, <1>9 DEF Serves
  <2>3. PICK e \in Held(c[j], u) : e.name.letters = asked[i].letters /\ e.id = c[i].last
    BY <1>6, <2>1, <2>2 DEF Grown, Answers
  <2>4. PICK f \in Held(c[j], v) : f.name.letters = asked[j].letters /\ f.id = c[j].last
    BY <2>1, <2>2 DEF Answers
  <2> QED BY <2>1, <2>3, <2>4
<1>10. ASSUME asked[i] = asked[j], asked[j] # Fresh  PROVE c[i].last = c[j].last
  <2>1. PICK u \in Buckets : \E e \in Held(c[j], u), f \in Held(c[j], u) :
                    /\ e.name.letters = asked[i].letters /\ e.id = c[i].last
                    /\ f.name.letters = asked[j].letters /\ f.id = c[j].last
    BY <1>9, <1>10
  <2>2. \A e \in Held(c[j], u), f \in Held(c[j], u) :
          e.name.letters = f.name.letters => e = f
    BY <1>6 DEF TableOK
  <2> QED BY <1>10, <2>1, <2>2
<1>11. ASSUME asked[i].letters # asked[j].letters, Fresh \notin {asked[i], asked[j]}
       PROVE  c[i].last # c[j].last
  <2>1. PICK u \in Buckets, v \in Buckets :
          \E e \in Held(c[j], u), f \in Held(c[j], v) :
                    /\ e.name.letters = asked[i].letters /\ e.id = c[i].last
                    /\ f.name.letters = asked[j].letters /\ f.id = c[j].last
    <3>1. asked[i] # Fresh /\ asked[j] # Fresh
      BY <1>11
    <3> QED BY <1>9, <3>1
  <2>2. \A e \in Held(c[j], u), f \in Held(c[j], v) : e.id = f.id => e = f
    BY <1>6 DEF TableOK
  <2> QED BY <1>11, <2>1, <2>2
<1> QED BY <1>8, <1>10, <1>11
---------------------------------------------------------------------------
(* Base64.                                                                 *)

Byte == 0 .. 255

Split(g, d, e, f, h) ==
  /\ d = (g \div 262144) % 64
  /\ e = (g \div 4096) % 64
  /\ f = (g \div 64) % 64
  /\ h = (g \div 1) % 64

(* The four digits that three bytes are written in give them back.         *)
LEMMA DigitsOf ==
  ASSUME NEW x \in Byte, NEW y \in Byte, NEW z \in Byte,
         NEW g, g = (65536 * x) + (256 * y) + z,
         NEW d, NEW e, NEW f, NEW h, Split(g, d, e, f, h)
  PROVE  /\ d \in 0 .. 63 /\ e \in 0 .. 63 /\ f \in 0 .. 63 /\ h \in 0 .. 63
         /\ (4 * d) + (e \div 16) = x
         /\ (16 * (e % 16)) + (f \div 4) = y
         /\ (64 * (f % 4)) + h = z
<1>1. PICK a \in 0 .. 63, b \in 0 .. 3 : x = (4 * a) + b
  <2>1. x \div 4 \in 0 .. 63 /\ x % 4 \in 0 .. 3 /\ x = (4 * (x \div 4)) + (x % 4)
    BY DEF Byte
  <2> QED BY <2>1
<1>2. PICK i \in 0 .. 15, j \in 0 .. 15 : y = (16 * i) + j
  <2>1. y \div 16 \in 0 .. 15 /\ y % 16 \in 0 .. 15 /\ y = (16 * (y \div 16)) + (y % 16)
    BY DEF Byte
  <2> QED BY <2>1
<1>3. PICK p \in 0 .. 3, q \in 0 .. 63 : z = (64 * p) + q
  <2>1. z \div 64 \in 0 .. 3 /\ z % 64 \in 0 .. 63 /\ z = (64 * (z \div 64)) + (z % 64)
    BY DEF Byte
  <2> QED BY <2>1
<1>4. g = (262144 * a) + (4096 * ((16 * b) + i)) + (64 * ((4 * j) + p)) + q
  BY <1>1, <1>2, <1>3
<1>5. g \in Nat
  BY DEF Byte
<1>6. d = a
  <2>1. g \div 262144 = a
    BY <1>4, <1>5
  <2> QED BY <2>1 DEF Split
<1>7. e = (16 * b) + i
  <2>1. g \div 4096 = (64 * a) + ((16 * b) + i)
    BY <1>4, <1>5
  <2> QED BY <2>1 DEF Split
<1>8. f = (4 * j) + p
  <2>1. g \div 64 = (64 * ((64 * a) + ((16 * b) + i))) + ((4 * j) + p)
    BY <1>4, <1>5
  <2> QED BY <2>1 DEF Split
<1>9. h = q
  <2>1. g \div 1 = (64 * ((64 * ((64 * a) + ((16 * b) + i))) + ((4 * j) + p))) + q
    BY <1>4, <1>5
  <2> QED BY <2>1 DEF Split
<1>10. d \in 0 .. 63 /\ e \in 0 .. 63 /\ f \in 0 .. 63 /\ h \in 0 .. 63
  BY <1>6, <1>7, <1>8, <1>9
<1>11. e \div 16 = b /\ e % 16 = i /\ f \div 4 = j /\ f % 4 = p
  <2>1. e \div 16 = b
    BY <1>7
  <2>2. e % 16 = i
    BY <1>7
  <2>3. f \div 4 = j
    BY <1>8
  <2>4. f % 4 = p
    BY <1>8
  <2> QED BY <2>1, <2>2, <2>3, <2>4
<1> QED BY <1>1, <1>2, <1>3, <1>6, <1>9, <1>10, <1>11

LEMMA GroupIs ==
  ASSUME NEW n \in Nat, NEW bytes \in [1 .. n -> Byte], NEW q \in Nat
  PROVE  \E x \in Byte, y \in Byte, z \in Byte :
           /\ Group(bytes, (3 * q) + 1) = (65536 * x) + (256 * y) + z
           /\ (3 * q) + 1 <= n => x = bytes[(3 * q) + 1]
           /\ (3 * q) + 2 <= n => y = bytes[(3 * q) + 2]
           /\ (3 * q) + 3 <= n => z = bytes[(3 * q) + 3]
<1>1. Len(bytes) = n
  OBVIOUS
<1> DEFINE byte(i) == IF i <= n THEN bytes[i] ELSE 0
<1>2. \A i \in 1 .. (3 * q) + 3 : byte(i) \in Byte
  BY DEF Byte
<1>3. PICK x \in Byte, y \in Byte, z \in Byte :
        x = byte((3 * q) + 1) /\ y = byte((3 * q) + 2) /\ z = byte((3 * q) + 3)
  <2>1. (3 * q) + 1 \in 1 .. (3 * q) + 3 /\ (3 * q) + 2 \in 1 .. (3 * q) + 3
        /\ (3 * q) + 3 \in 1 .. (3 * q) + 3
    OBVIOUS
  <2> QED BY <1>2, <2>1
<1>4. Group(bytes, (3 * q) + 1) = (65536 * x) + (256 * y) + z
  <2>1. ((3 * q) + 1) + 1 = (3 * q) + 2 /\ ((3 * q) + 1) + 2 = (3 * q) + 3
    OBVIOUS
  <2> QED BY <1>1, <1>3, <2>1 DEF Group
<1> QED BY <1>3, <1>4

(* The k-th digit, with the one before it, completes a byte.               *)
LEMMA DigitIs ==
  ASSUME NEW n \in Nat, NEW bytes \in [1 .. n -> Byte], NEW k \in 1 .. Used(n)
  PROVE  /\ Digit(bytes, k) \in 0 .. 63
         /\ k % 4 # 1 => k - 1 \in 1 .. Used(n) /\ (3 * k) \div 4 \in 1 .. n
         /\ k % 4 = 2 => (4 * Digit(bytes, k - 1)) + (Digit(bytes, k) \div 16) = bytes[(3 * k) \div 4]
         /\ k % 4 = 3 => (16 * (Digit(bytes, k - 1) % 16)) + (Digit(bytes, k) \div 4) = bytes[(3 * k) \div 4]
         /\ k % 4 = 0 => (64 * (Digit(bytes, k - 1) % 4)) + Digit(bytes, k) = bytes[(3 * k) \div 4]
<1>1. k \in Nat /\ k >= 1 /\ 3 * k <= (4 * n) + 2
  BY DEF Used
<1>2. PICK q \in Nat, r \in 0 .. 3 : k - 1 = (4 * q) + r
  <2>1. (k - 1) \div 4 \in Nat /\ (k - 1) % 4 \in 0 .. 3 /\ k - 1 = (4 * ((k - 1) \div 4)) + ((k - 1) % 4)
    BY <1>1
  <2> QED BY <2>1
<1>3. PICK x \in Byte, y \in Byte, z \in Byte :
           /\ Group(bytes, (3 * q) + 1) = (65536 * x) + (256 * y) + z
           /\ (3 * q) + 1 <= n => x = bytes[(3 * q) + 1]
           /\ (3 * q) + 2 <= n => y = bytes[(3 * q) + 2]
           /\ (3 * q) + 3 <= n => z = bytes[(3 * q) + 3]
  BY GroupIs
<1>4. PICK g : g = Group(bytes, (3 * q) + 1) /\ g = (65536 * x) + (256 * y) + z
  BY <1>3
<1> DEFINE w == <<262144, 4096, 64, 1>>
<1>5. w[1] = 262144 /\ w[2] = 4096 /\ w[3] = 64 /\ w[4] = 1
  OBVIOUS
<1>6. \A i \in 0 .. 3 : Digit(bytes, ((4 * q) + i) + 1) = (g \div w[i + 1]) % 64
  <2>1. SUFFICES ASSUME NEW i \in 0 .. 3
                 PROVE  Digit(bytes, ((4 * q) + i) + 1) = (g \div w[i + 1]) % 64
    OBVIOUS
  <2>2. PICK l \in Nat : l = ((4 * q) + i) + 1
    OBVIOUS
  <2>3. (l - 1) \div 4 = q /\ (l - 1) % 4 = i
    BY <2>2
  <2>4. Digit(bytes, l) = (Group(bytes, (3 * ((l - 1) \div 4)) + 1) \div w[((l - 1) % 4) + 1]) % 64
    BY DEF Digit
  <2>5. Digit(bytes, l) = (g \div w[i + 1]) % 64
    <3> HIDE DEF w
    <3> QED BY ONLY <1>4, <2>3, <2>4
  <2> QED BY <2>2, <2>5
<1> HIDE DEF w
<1>7. PICK d, e, f, h : Split(g, d, e, f, h)
  BY DEF Split
<1>8. /\ d \in 0 .. 63 /\ e \in 0 .. 63 /\ f \in 0 .. 63 /\ h \in 0 .. 63
      /\ (4 * d) + (e \div 16) = x
      /\ (16 * (e % 16)) + (f \div 4) = y
      /\ (64 * (f % 4)) + h = z
  BY <1>4, <1>7, DigitsOf
<1>9. /\ Digit(bytes, (4 * q) + 1) = d /\ Digit(bytes, (4 * q) + 2) = e
      /\ Digit(bytes, (4 * q) + 3) = f /\ Digit(bytes, (4 * q) + 4) = h
  <2>1. /\ 0 \in 0 .. 3 /\ 1 \in 0 .. 3 /\ 2 \in 0 .. 3 /\ 3 \in 0 .. 3
        /\ 0 + 1 = 1 /\ 1 + 1 = 2 /\ 2 + 1 = 3 /\ 3 + 1 = 4
        /\ ((4 * q) + 0) + 1 = (4 * q) + 1 /\ ((4 * q) + 1) + 1 = (4 * q) + 2
        /\ ((4 * q) + 2) + 1 = (4 * q) + 3 /\ ((4 * q) + 3) + 1 = (4 * q) + 4
    OBVIOUS
  <2>2. /\ Digit(bytes, ((4 * q) + 0) + 1) = (g \div w[0 + 1]) % 64
        /\ Digit(bytes, ((4 * q) + 1) + 1) = (g \div w[1 + 1]) % 64
        /\ Digit(bytes, ((4 * q) + 2) + 1) = (g \div w[2 + 1]) % 64
        /\ Digit(bytes, ((4 * q) + 3) + 1) = (g \div w[3 + 1]) % 64
    BY ONLY <1>6, <2>1
  <2> QED BY <1>5, <1>7, <2>1, <2>2 DEF Split
<1>10. CASE r = 0
  <2>1. k = (4 * q) + 1 /\ k % 4 = 1
    BY <1>1, <1>2, <1>10
  <2>2. Digit(bytes, k) \in 0 .. 63
    BY <1>8, <1>9, <2>1
  <2>3. k % 4 # 2 /\ k % 4 # 3 /\ k % 4 # 0
    BY <2>1
  <2> QED BY <2>1, <2>2, <2>3
<1>11. CASE r = 1
  <2>1. /\ k = (4 * q) + 2 /\ k - 1 = (4 * q) + 1 /\ k % 4 = 2
        /\ (3 * k) \div 4 = (3 * q) + 1 /\ (3 * q) + 1 <= n
        /\ k - 1 \in 1 .. Used(n)
    BY <1>1, <1>2, <1>11 DEF Used
  <2>2. Digit(bytes, k) = e /\ Digit(bytes, k - 1) = d
    BY <1>9, <2>1
  <2>3. (4 * d) + (e \div 16) = bytes[(3 * q) + 1]
    BY <1>3, <1>8, <2>1
  <2>4. k % 4 # 3 /\ k % 4 # 0 /\ (3 * k) \div 4 \in 1 .. n
    BY <2>1
  <2> QED BY <1>8, <2>1, <2>2, <2>3, <2>4
<1>12. CASE r = 2
  <2>1. /\ k = (4 * q) + 3 /\ k - 1 = (4 * q) + 2 /\ k % 4 = 3
        /\ (3 * k) \div 4 = (3 * q) + 2 /\ (3 * q) + 2 <= n
        /\ k - 1 \in 1 .. Used(n)
    BY <1>1, <1>2, <1>12 DEF Used
  <2>2. Digit(bytes, k) = f /\ Digit(bytes, k - 1) = e
    BY <1>9, <2>1
  <2>3. (16 * (e % 16)) + (f \div 4) = bytes[(3 * q) + 2]
    BY <1>3, <1>8, <2>1
  <2>4. k % 4 # 2 /\ k % 4 # 0 /\ (3 * k) \div 4 \in 1 .. n
    BY <2>1
  <2> QED BY <1>8, <2>1, <2>2, <2>3, <2>4
<1>13. CASE r = 3
  <2>1. /\ k = (4 * q) + 4 /\ k - 1 = (4 * q) + 3 /\ k % 4 = 0
        /\ (3 * k) \div 4 = (3 * q) + 3 /\ (3 * q) + 3 <= n
        /\ k - 1 \in 1 .. Used(n)
    BY <1>1, <1>2, <1>13 DEF Used
  <2>2. Digit(bytes, k) = h /\ Digit(bytes, k - 1) = f
    BY <1>9, <2>1
  <2>3. (64 * (f % 4)) + h = bytes[(3 * q) + 3]
    BY <1>3, <1>8, <2>1
  <2>4. k % 4 # 2 /\ k % 4 # 3 /\ (3 * k) \div 4 \in 1 .. n
    BY <2>1
  <2> QED BY <1>8, <2>1, <2>2, <2>3, <2>4
<1> QED BY <1>10, <1>11, <1>12, <1>13
(* The digits that are used, and the padding after them.                   *)
TextOf(text, bytes, n) ==
  /\ text \in [1 .. Used(n) -> 0 .. 63]
  /\ text = [k \in 1 .. Used(n) |-> Digit(bytes, k)]

LEMMA UsedIs ==
  ASSUME NEW n \in Nat
  PROVE  Used(n) \in Nat /\ (3 * Used(n)) \div 4 = n
BY DEF Used

LEMMA SequenceIsFunction ==
  ASSUME NEW S, NEW s \in Seq(S)
  PROVE  s \in [1 .. Len(s) -> S]
OBVIOUS

LEMMA UnpaddedIs ==
  ASSUME NEW n \in Nat, NEW bytes \in [1 .. n -> Byte], NEW padded \in BOOLEAN
  PROVE  /\ TextOf(Unpadded(Encoded(bytes, padded)), bytes, n)
         /\ Len(Encoded(bytes, padded)) \in Nat /\ Len(Encoded(bytes, padded)) >= Used(n)
<1>1. PICK u \in Nat : u = Used(n)
  BY UsedIs
<1>2. PICK text : text = [k \in 1 .. u |-> Digit(bytes, k)]
  OBVIOUS
<1>3. text \in [1 .. u -> 0 .. 63]
  BY <1>1, <1>2, DigitIs
<1>4. text \in Seq(0 .. 64) /\ Len(text) = u /\ \A k \in 1 .. u : text[k] # PAD
  <2>1. text \in [1 .. u -> 0 .. 64] /\ \A k \in 1 .. u : text[k] # PAD
    <3>1. \A k \in 1 .. u : text[k] \in 0 .. 63
      BY <1>3
    <3>2. \A k \in 1 .. u : text[k] \in 0 .. 64 /\ text[k] # PAD
      <4>1. \A x \in 0 .. 63 : x \in 0 .. 64 /\ x # PAD
        BY DEF PAD
      <4> QED BY ONLY <3>1, <4>1
    <3> QED BY <1>3, <3>2
  <2>2. text \in Seq(0 .. 64) /\ Len(text) = u
    BY ONLY u \in Nat, <2>1
  <2> QED BY <2>1, <2>2
<1>5. PICK p \in 0 .. 3 : p = (4 - (u % 4)) % 4
  OBVIOUS
<1>6. PICK pads : pads = [k \in 1 .. p |-> PAD]
  OBVIOUS
<1>7. pads \in Seq(0 .. 64) /\ Len(pads) = p /\ \A k \in 1 .. p : pads[k] = PAD
  <2>1. pads \in [1 .. p -> 0 .. 64] /\ \A k \in 1 .. p : pads[k] = PAD
    BY <1>6 DEF PAD
  <2>2. p \in Nat
    OBVIOUS
  <2>3. pads \in Seq(0 .. 64) /\ Len(pads) = p
    BY ONLY <2>1, <2>2
  <2> QED BY <2>1, <2>3
<1>8. PICK src : src = Encoded(bytes, padded)
  OBVIOUS
<1>9. src = IF padded THEN text \o pads ELSE text
  <2>1. Len(bytes) = n
    OBVIOUS
  <2> QED BY <1>1, <1>2, <1>5, <1>6, <1>8, <2>1 DEF Encoded
<1>10. TextOf(text, bytes, n)
  BY <1>1, <1>2, <1>3 DEF TextOf
<1>11. PICK l : /\ l = Len(src) /\ l \in Nat /\ l >= u
                /\ \A k \in 1 .. u : src[k] = text[k]
                /\ \A k \in 1 .. l : k > u => src[k] = PAD
                /\ src \in Seq(0 .. 64)
                /\ (l = u => src = text)
  <2>1. CASE ~padded
    BY <1>4, <1>9, <2>1
  <2>2. CASE padded
    <3>1. src = text \o pads
      BY <1>9, <2>2
    <3>2. src \in Seq(0 .. 64) /\ Len(src) = u + p
      <4>1. text \o pads \in Seq(0 .. 64) /\ Len(text \o pads) = Len(text) + Len(pads)
        BY ONLY <1>4, <1>7
      <4> QED BY <1>4, <1>7, <3>1, <4>1
    <3>3. \A k \in 1 .. u + p : src[k] = IF k <= u THEN text[k] ELSE pads[k - u]
      <4>1. \A k \in 1 .. Len(text) + Len(pads) :
              (text \o pads)[k] = IF k <= Len(text) THEN text[k] ELSE pads[k - Len(text)]
        BY ONLY <1>4, <1>7
      <4> QED BY <1>4, <1>7, <3>1, <4>1
    <3>4. \A k \in 1 .. u : k \in 1 .. u + p /\ k <= u
      OBVIOUS
    <3>5. \A k \in 1 .. u + p : k > u => k - u \in 1 .. p /\ ~(k <= u)
      OBVIOUS
    <3>6. u + p = u => src = text
      <4>1. SUFFICES ASSUME p = 0  PROVE src = text
        OBVIOUS
      <4>2. src \in [1 .. u -> 0 .. 64] /\ text \in [1 .. u -> 0 .. 64]
        <5>1. text \in Seq(0 .. 64) /\ Len(text) = u
          BY <1>4
        <5>2. src \in Seq(0 .. 64) /\ Len(src) = u
          BY <3>2, <4>1
        <5> QED BY <5>1, <5>2, SequenceIsFunction
      <4>3. \A k \in 1 .. u : src[k] = text[k]
        BY <3>3, <3>4
      <4> QED BY ONLY <4>2, <4>3, SameFunction
    <3>7. u + p \in Nat /\ u + p >= u
      OBVIOUS
    <3>8. \A k \in 1 .. u + p : k > u => src[k] = PAD
      BY <1>7, <3>3, <3>5
    <3> QED BY <3>2, <3>3, <3>4, <3>6, <3>7, <3>8
  <2> QED BY <2>1, <2>2
<1>12. PICK ends : ends = {k \in 1 .. l : src[k] = PAD}
  OBVIOUS
<1>13. Unpadded(src) = IF ends = {} THEN src
                       ELSE SubSeq(src, 1, (CHOOSE k \in ends : \A j \in ends : k <= j) - 1)
  BY <1>11, <1>12 DEF Unpadded
<1>14. Unpadded(src) = text
  <2>1. CASE l = u
    <3>1. ends = {}
      BY <1>4, <1>11, <1>12, <2>1
    <3> QED BY <1>11, <1>13, <2>1, <3>1
  <2>2. CASE l # u
    <3>1. u + 1 \in ends
      <4>1. u + 1 \in 1 .. l /\ u + 1 > u
        BY <1>11, <2>2
      <4> QED BY <1>11, <1>12, <4>1
    <3>2. \A j \in ends : u + 1 <= j /\ j \in Nat
      <4>1. ASSUME NEW j \in ends  PROVE u + 1 <= j /\ j \in Nat
        <5>1. j \in 1 .. l /\ src[j] = PAD
          BY <1>12
        <5>2. j \notin 1 .. u
          BY <1>4, <1>11, <5>1
        <5> QED BY <5>1, <5>2
      <4> QED BY <4>1
    <3>3. PICK c : c = CHOOSE k \in ends : \A j \in ends : k <= j
      OBVIOUS
    <3>4. c \in ends /\ \A j \in ends : c <= j
      BY <3>1, <3>2, <3>3
    <3>5. c = u + 1
      BY <3>1, <3>2, <3>4
    <3>6. Unpadded(src) = SubSeq(src, 1, u)
      <4>1. c - 1 = u
        BY <3>5
      <4> QED BY <1>13, <3>1, <3>3, <4>1
    <3>7. SubSeq(src, 1, u) = text
      <4>1. PICK t : t = SubSeq(src, 1, u)
        OBVIOUS
      <4>2. 1 \in 1 .. Len(src) + 1 /\ u \in 0 .. Len(src)
        BY <1>11
      <4>3. t = [i \in 1 .. u |-> src[i]]
        <5>1. SubSeq(src, 1, u) = [i \in 1 .. ((1 + u) - 1) |-> src[(i + 1) - 1]]
          OBVIOUS
        <5>2. (1 + u) - 1 = u /\ \A i \in 1 .. u : (i + 1) - 1 = i
          OBVIOUS
        <5> QED BY <4>1, <5>1, <5>2
      <4>4. t = [i \in 1 .. u |-> text[i]]
        BY <1>11, <4>3
      <4>5. text = [i \in 1 .. u |-> text[i]]
        BY <1>3
      <4> QED BY <4>1, <4>4, <4>5
    <3> QED BY <3>6, <3>7
  <2> QED BY <2>1, <2>2
<1> QED BY <1>1, <1>8, <1>10, <1>11, <1>14
(* The bytes that are complete after k digits.                             *)
DecodedUpTo(s, bytes, k) ==
  /\ s \in Seq(Byte) /\ Len(s) = (3 * k) \div 4
  /\ \A i \in 1 .. (3 * k) \div 4 : s[i] = bytes[i]

LEMMA CompletedIs ==
  ASSUME NEW n \in Nat, NEW bytes \in [1 .. n -> Byte], NEW text, TextOf(text, bytes, n),
         NEW k \in 1 .. Used(n), NEW s, DecodedUpTo(s, bytes, k - 1)
  PROVE  DecodedUpTo(s \o Completed(text, k), bytes, k)
<1>1. /\ Digit(bytes, k) \in 0 .. 63
      /\ k % 4 # 1 => k - 1 \in 1 .. Used(n) /\ (3 * k) \div 4 \in 1 .. n
      /\ k % 4 = 2 => (4 * Digit(bytes, k - 1)) + (Digit(bytes, k) \div 16) = bytes[(3 * k) \div 4]
      /\ k % 4 = 3 => (16 * (Digit(bytes, k - 1) % 16)) + (Digit(bytes, k) \div 4) = bytes[(3 * k) \div 4]
      /\ k % 4 = 0 => (64 * (Digit(bytes, k - 1) % 4)) + Digit(bytes, k) = bytes[(3 * k) \div 4]
  BY DigitIs
<1>2. /\ text[k] = Digit(bytes, k)
      /\ k - 1 \in 1 .. Used(n) => text[k - 1] = Digit(bytes, k - 1)
  BY DEF TextOf
<1>3. PICK l : /\ l = (3 * (k - 1)) \div 4 /\ l \in Nat
               /\ s \in Seq(Byte) /\ Len(s) = l /\ \A i \in 1 .. l : s[i] = bytes[i]
  <2>1. (3 * (k - 1)) \div 4 \in Nat
    BY UsedIs
  <2> QED BY <2>1 DEF DecodedUpTo
<1>4. k \in Nat
  BY UsedIs
<1>5. CASE k % 4 = 1
  <2>1. (3 * k) \div 4 = l
    BY <1>3, <1>4, <1>5
  <2>2. s \o Completed(text, k) = s
    <3>1. Completed(text, k) = << >>
      BY <1>5 DEF Completed
    <3>2. s \o << >> = s
      BY ONLY <1>3
    <3> QED BY <3>1, <3>2
  <2> QED BY <1>3, <2>1, <2>2 DEF DecodedUpTo
<1>6. CASE k % 4 # 1
  <2>1. (3 * k) \div 4 = l + 1 /\ l + 1 \in 1 .. n
    <3>1. (3 * k) \div 4 = l + 1
      BY <1>3, <1>4, <1>6
    <3> QED BY <1>1, <1>6, <3>1
  <2>2. PICK v \in Byte : v = bytes[l + 1]
    BY <2>1
  <2>3. Completed(text, k) = <<v>>
    <3>1. k % 4 = 2 \/ k % 4 = 3 \/ k % 4 = 0
      BY <1>4, <1>6
    <3>2. CASE k % 4 = 2
      <4>1. Completed(text, k) = <<(4 * text[k - 1]) + (text[k] \div 16)>>
        BY <3>2 DEF Completed
      <4>2. (4 * text[k - 1]) + (text[k] \div 16) = v
        BY <1>1, <1>2, <1>6, <2>1, <2>2, <3>2
      <4> QED BY <4>1, <4>2
    <3>3. CASE k % 4 = 3
      <4>1. Completed(text, k) = <<(16 * (text[k - 1] % 16)) + (text[k] \div 4)>>
        BY <3>3 DEF Completed
      <4>2. (16 * (text[k - 1] % 16)) + (text[k] \div 4) = v
        BY <1>1, <1>2, <1>6, <2>1, <2>2, <3>3
      <4> QED BY <4>1, <4>2
    <3>4. CASE k % 4 = 0
      <4>1. Completed(text, k) = <<(64 * (text[k - 1] % 4)) + text[k]>>
        BY <3>4 DEF Completed
      <4>2. (64 * (text[k - 1] % 4)) + text[k] = v
        BY <1>1, <1>2, <1>6, <2>1, <2>2, <3>4
      <4> QED BY <4>1, <4>2
    <3> QED BY <3>1, <3>2, <3>3, <3>4
  <2>4. PICK r : r = s \o <<v>>
    OBVIOUS
  <2>5. r \in Seq(Byte) /\ Len(r) = l + 1 /\ \A i \in 1 .. l + 1 : r[i] = IF i <= l THEN s[i] ELSE v
    <3>1. <<v>> \in Seq(Byte) /\ Len(<<v>>) = 1 /\ <<v>>[1] = v
      OBVIOUS
    <3>2. /\ s \o <<v>> \in Seq(Byte) /\ Len(s \o <<v>>) = Len(s) + Len(<<v>>)
          /\ \A i \in 1 .. Len(s) + Len(<<v>>) :
               (s \o <<v>>)[i] = IF i <= Len(s) THEN s[i] ELSE <<v>>[i - Len(s)]
      BY ONLY <1>3, <3>1
    <3>3. \A i \in 1 .. l + 1 : ~(i <= l) => i - l = 1
      BY <1>3
    <3> QED BY <1>3, <2>4, <3>1, <3>2, <3>3
  <2>6. \A i \in 1 .. l + 1 : r[i] = bytes[i]
    <3>1. \A i \in 1 .. l + 1 : i <= l \/ i = l + 1
      BY <1>3
    <3>2. \A i \in 1 .. l + 1 : i <= l => i \in 1 .. l
      BY <1>3
    <3>3. ~(l + 1 <= l)
      BY <1>3
    <3> QED BY <1>3, <2>2, <2>5, <3>1, <3>2, <3>3
  <2> QED BY <2>1, <2>3, <2>4, <2>5, <2>6 DEF DecodedUpTo
<1> QED BY <1>5, <1>6

LEMMA DecodesIs ==
  ASSUME NEW n \in Nat, NEW bytes \in [1 .. n -> Byte], NEW padded \in BOOLEAN
  PROVE  base64_decode(Encoded(bytes, padded)) = bytes
<1>1. PICK u, text : u = Used(n) /\ u \in Nat /\ text = Unpadded(Encoded(bytes, padded))
  BY UsedIs
<1>2. TextOf(text, bytes, n) /\ Len(text) = u
  <2>1. TextOf(text, bytes, n)
    BY <1>1, UnpaddedIs
  <2>2. text \in [1 .. u -> 0 .. 63]
    BY <1>1, <2>1 DEF TextOf
  <2> QED BY <1>1, <2>1, <2>2
<1> DEFINE X == Seq(Byte)
           G(k, s) == IF s \o Completed(text, k) \in X THEN s \o Completed(text, k) ELSE s
           g == [k \in Nat |-> [s \in X |-> G(k, s)]]
           Rec(f) == [k \in 0 .. u |-> IF k = 0 THEN << >> ELSE f[k - 1] \o Completed(text, k)]
<1>3. g \in [Nat -> [X -> X]] /\ \A k \in Nat : \A s \in X : g[k][s] = G(k, s)
  OBVIOUS
<1>4. << >> \in X
  OBVIOUS
<1> HIDE DEF g, Rec, X
<1>5. PICK f \in [0 .. u -> X] : Takes(f, << >>, g, u)
  BY <1>1, <1>3, <1>4, Steps
<1>6. f[0] = << >> /\ \A k \in 1 .. u : f[k] = G(k, f[k - 1])
  <2>1. 0 \in 0 .. u /\ \A k \in 1 .. u : k \in 0 .. u /\ k # 0 /\ k - 1 \in 0 .. u /\ k \in Nat
    BY <1>1
  <2>2. f[0] = << >> /\ \A k \in 1 .. u : f[k] = g[k][f[k - 1]] /\ f[k - 1] \in X
    BY <1>5, <2>1 DEF Takes
  <2>3. \A k \in 1 .. u : g[k][f[k - 1]] = G(k, f[k - 1])
    <3> HIDE DEF G
    <3> QED BY <1>3, <2>1, <2>2
  <2> QED BY <2>2, <2>3
<1>7. ASSUME NEW k \in 1 .. u, DecodedUpTo(f[k - 1], bytes, k - 1)
      PROVE  f[k] = f[k - 1] \o Completed(text, k) /\ DecodedUpTo(f[k], bytes, k)
  <2>1. PICK s : s = f[k - 1] \o Completed(text, k)
    OBVIOUS
  <2>2. DecodedUpTo(s, bytes, k)
    BY <1>1, <1>2, <1>7, <2>1, CompletedIs
  <2>3. s \in X
    BY <2>2 DEF DecodedUpTo, X
  <2>4. f[k] = s
    BY <1>6, <2>1, <2>3
  <2> QED BY <2>1, <2>2, <2>4
<1>8. \A k \in 0 .. u : DecodedUpTo(f[k], bytes, k)
  <2> DEFINE S == {k \in 0 .. u : DecodedUpTo(f[k], bytes, k)}
  <2>1. 0 \in S
    <3>1. << >> \in Seq(Byte) /\ Len(<< >>) = 0 /\ (3 * 0) \div 4 = 0
      OBVIOUS
    <3>2. \A i \in 1 .. (3 * 0) \div 4 : f[0][i] = bytes[i]
      BY <3>1
    <3>3. DecodedUpTo(f[0], bytes, 0)
      BY <1>6, <3>1, <3>2 DEF DecodedUpTo
    <3>4. 0 \in 0 .. u
      BY <1>1
    <3> QED BY <3>3, <3>4
  <2>2. \A k \in 1 .. u : k - 1 \in S => k \in S
    <3>1. \A k \in 1 .. u : k \in 0 .. u
      BY <1>1
    <3> QED BY <1>7, <3>1
  <2>3. \A k \in 0 .. u : k \in S
    <3> HIDE DEF S
    <3> QED BY ONLY <1>1, <2>1, <2>2, UpTo
  <2> QED BY <2>3
<1>9. \A k \in 1 .. u : f[k] = f[k - 1] \o Completed(text, k)
  <2>1. \A k \in 1 .. u : k - 1 \in 0 .. u
    BY <1>1
  <2> QED BY <1>7, <1>8, <2>1
<1>10. f = Rec(f)
  <2>1. ASSUME NEW k \in 0 .. u  PROVE f[k] = IF k = 0 THEN << >> ELSE f[k - 1] \o Completed(text, k)
    <3>1. k = 0 \/ k \in 1 .. u
      BY <1>1
    <3> QED BY <1>6, <1>9, <3>1
  <2> QED BY <2>1 DEF Rec
<1>11. PICK c : c = Decoding(text)
  OBVIOUS
<1>12. c = Rec(c)
  <2>1. c = CHOOSE h : h = Rec(h)
    BY <1>2, <1>11 DEF Decoding, Rec
  <2> QED BY <1>10, <2>1
<1>13. c[0] = << >> /\ \A k \in 1 .. u : c[k] = c[k - 1] \o Completed(text, k)
  <2>1. c = [k \in 0 .. u |-> IF k = 0 THEN << >> ELSE c[k - 1] \o Completed(text, k)]
    BY <1>12 DEF Rec
  <2>2. 0 \in 0 .. u /\ \A k \in 1 .. u : k \in 0 .. u /\ k # 0
    BY <1>1
  <2> QED BY <2>1, <2>2
<1>14. c[u] = f[u]
  <2>1. Alike(c, f, u)
    BY <1>1, <1>6, <1>9, <1>13 DEF Alike
  <2>2. u \in 0 .. u
    BY <1>1
  <2> QED BY <2>1, <2>2, Determined
<1>15. DecodedUpTo(c[u], bytes, u)
  <2>1. u \in 0 .. u
    BY <1>1
  <2> QED BY <1>8, <1>14, <2>1
<1>16. c[u] = bytes
  <2>1. (3 * u) \div 4 = n
    BY <1>1, UsedIs
  <2>2. c[u] \in Seq(Byte) /\ Len(c[u]) = n /\ \A i \in 1 .. n : c[u][i] = bytes[i]
    BY <1>15, <2>1 DEF DecodedUpTo
  <2>3. c[u] \in [1 .. n -> Byte]
    BY <2>2, SequenceIsFunction
  <2> QED BY <2>2, <2>3, SameFunction
<1> QED BY <1>1, <1>2, <1>11, <1>16 DEF base64_decode
---------------------------------------------------------------------------
(* The calls.                                                              *)

(* The memories are memories.                                              *)
LEMMA MemoryOK ==
  ASSUME NEW m \in Memories
  PROVE  MemOK(m) /\ Len(m) = Atom /\ Atom \in Nat /\ Pointer = 1 .. Atom
<1>1. Atom \in Nat /\ Atom >= 2
  BY AlgorithmsAssumption DEF Atom
<1>2. PICK cars \in Cars, cdrs \in [2 .. NPairs + 1 -> Pointer] :
        m = [p \in Pointer |->
               CASE p = NIL  -> Cell("nil", NIL, NIL)
                 [] p = Atom -> Cell("atom", NIL, NIL)
                 [] OTHER    -> Cell("pair", cars[p], cdrs[p])]
  BY DEF Memories
<1>3. \A p \in 2 .. NPairs + 1 : cars[p] \in 1 .. Atom /\ cars[p] \in Nat /\ cdrs[p] \in 1 .. Atom /\ cdrs[p] \in Nat
  <2>1. \A p \in 2 .. NPairs + 1 : p \in 1 .. Atom /\ NIL \in 1 .. Atom /\ Atom \in 1 .. Atom
    BY <1>1, AlgorithmsAssumption DEF Atom, NIL
  <2>2. \A p \in 2 .. NPairs + 1 : cars[p] \in {p, NIL, Atom}
    BY DEF Cars
  <2>3. \A p \in 1 .. Atom : p \in Nat
    BY <1>1
  <2>4. \A p \in 2 .. NPairs + 1 : cars[p] \in 1 .. Atom /\ cdrs[p] \in 1 .. Atom
    BY <2>1, <2>2 DEF Pointer
  <2> QED BY <2>3, <2>4
<1>4. ASSUME NEW p \in Pointer
      PROVE  m[p] \in CellRec /\ m[p].car \in 1 .. Atom /\ m[p].cdr \in 1 .. Atom /\ (p = NIL => m[p] = Cell("nil", NIL, NIL))
  <2>1. CASE p = NIL
    BY <1>1, <1>2, <2>1 DEF Cell, CellRec, NIL, Pointer
  <2>2. CASE p # NIL /\ p = Atom
    BY <1>1, <1>2, <2>2 DEF Cell, CellRec, NIL, Pointer
  <2>3. CASE p # NIL /\ p # Atom
    <3>1. p \in 2 .. NPairs + 1
      BY <1>1, <2>3, AlgorithmsAssumption DEF Pointer, Atom, NIL
    <3>2. m[p] = Cell("pair", cars[p], cdrs[p])
      BY <1>2, <2>3
    <3> QED BY <1>3, <2>3, <3>1, <3>2 DEF Cell, CellRec
  <2> QED BY <2>1, <2>2, <2>3
<1>5. m \in [1 .. Atom -> CellRec]
  BY <1>2, <1>4 DEF Pointer
<1>6. m \in Seq(CellRec) /\ Len(m) = Atom
  BY <1>1, <1>5
<1>7. NIL \in Pointer
  BY <1>1 DEF NIL, Pointer
<1> QED BY <1>1, <1>4, <1>6, <1>7 DEF MemOK, Pointer

(* A call of a function is made by that action's disjunct.                 *)
LEMMA Made ==
  ASSUME Next
  PROVE  /\ before' = before
         /\ call'.f = "list_length" =>
              /\ call'.a \in Pointer
              /\ after' = [m |-> before, p |-> list_length(before, call'.a)]
         /\ call'.f = "reverse_in_place" =>
              /\ call'.a \in Pointer /\ call'.b \in Pointer \ CellsOf(before, call'.a)
              /\ Proper(before, call'.a) /\ Ends(before, call'.b) # {}
              /\ CellsOf(before, call'.a) \cap CellsOf(before, call'.b) = {}
              /\ after' = reverse_in_place(before, call'.b, call'.a)
         /\ call'.f = "append" =>
              /\ call'.a \in Pointer /\ call'.b \in Pointer \ CellsOf(before, call'.a)
              /\ Proper(before, call'.a) /\ Ends(before, call'.b) # {}
              /\ after' = append(before, call'.a, call'.b)
         /\ call'.f = "reverse" =>
              /\ call'.a \in Pointer /\ Ends(before, call'.a) # {}
              /\ after' = reverse(before, call'.a)
         /\ call'.f = "list_star" =>
              /\ call'.a \in Pointer /\ Proper(before, call'.a)
              /\ after' = list_star(before, call'.a)
         /\ call'.f = "remainder" =>
              /\ call'.a \in Long /\ call'.b \in Long
              /\ after' \in OP_REM(call'.a, call'.b)
         /\ call'.f = "modulo" =>
              /\ call'.a \in Long /\ call'.b \in Long
              /\ after' \in OP_MOD(call'.a, call'.b)
         /\ call'.f = "base64-decode" =>
              \E n \in Nat, padded \in BOOLEAN :
                /\ call'.a \in [1 .. n -> Bytes]
                /\ after' = scheme_base64_decode(Encoded(call'.a, padded))
         /\ call'.f = "symbols" =>
              \E hash \in [Names -> Buckets], asked \in [1 .. NRequests -> Names \cup {Fresh}] :
                /\ call'.a = asked
                /\ after' = [k \in 1 .. NRequests |-> Answering(hash, asked)[k].last]
<1>1. CASE ListCall
  BY <1>1 DEF ListCall, Call
<1>2. CASE NumberCall
  BY <1>2 DEF NumberCall, Call
<1>3. CASE Base64Call
  BY <1>3 DEF Base64Call, Call
<1>4. CASE SymbolCall
  BY <1>4 DEF SymbolCall, Call
<1> QED BY <1>1, <1>2, <1>3, <1>4 DEF Next

(* The remainder of every two longs that C can divide is exact, fits, is   *)
(* smaller than the divisor, has the sign of the dividend and makes up for *)
(* what quotient leaves.                                                   *)
THEOREM RemainderTheorem == Spec => []RemainderOfQuotient
<1>1. Init => RemainderOfQuotient
  BY DEF Init, RemainderOfQuotient, Divided
<1>2. ASSUME RemainderOfQuotient, [Next]_vars  PROVE RemainderOfQuotient'
  <2>1. CASE UNCHANGED vars
    BY <1>2, <2>1 DEF vars, RemainderOfQuotient, Divided, IsExact
  <2>2. CASE Next
    <3>1. SUFFICES ASSUME Divided("remainder")'
          PROVE  (/\ IsExact
                  /\ after.v \in Long
                  /\ Abs(after.v) < Abs(call.b)
                  /\ Sign(after.v) \in {0, Sign(call.a)}
                  /\ \E q \in OP_INTDIV(call.a, call.b) : q.v * call.b + after.v = call.a)'
      BY DEF RemainderOfQuotient
    <3>2. /\ call'.f = "remainder" /\ call'.b # 0 /\ ~Refused(call'.a, call'.b)
      BY <3>1 DEF Divided
    <3>3. /\ call'.a \in Long /\ call'.b \in Long
          /\ after' \in OP_REM(call'.a, call'.b)
      BY <2>2, <3>2, Made
    <3>4. PICK x \in Long, y \in Long : x = call'.a /\ y = call'.b /\ after' \in OP_REM(x, y)
      BY <3>3
    <3>5. /\ after'.is = "exact" /\ after'.v \in Long
          /\ Abs(after'.v) < Abs(y) /\ Sign(after'.v) \in {0, Sign(x)}
          /\ \E q \in OP_INTDIV(x, y) : q.v * y + after'.v = x
      BY <3>2, <3>4, RemainderIs
    <3> QED BY <3>4, <3>5 DEF IsExact
  <2> QED BY <1>2, <2>1, <2>2
<1> QED BY <1>1, <1>2, PTL DEF Spec

(* modulo gives the number congruent to the dividend that lies between 0   *)
(* and the divisor, whenever the product that decides its sign fits a long.*)
THEOREM ModuloTheorem == Spec => []ModuloIfProductFits
<1>1. Init => ModuloIfProductFits
  BY DEF Init, ModuloIfProductFits, Divided
<1>2. ASSUME ModuloIfProductFits, [Next]_vars  PROVE ModuloIfProductFits'
  <2>1. CASE UNCHANGED vars
    BY <1>2, <2>1 DEF vars, ModuloIfProductFits, Divided, IsExact
  <2>2. CASE Next
    <3>1. SUFFICES ASSUME Divided("modulo")', (CRem(call.a, call.b) * call.b \in Long)'
          PROVE  (/\ IsExact
                  /\ (call.a - after.v) % Abs(call.b) = 0
                  /\ Abs(after.v) < Abs(call.b)
                  /\ Sign(after.v) \in {0, Sign(call.b)})'
      BY DEF ModuloIfProductFits
    <3>2. /\ call'.f = "modulo" /\ call'.b # 0 /\ ~Refused(call'.a, call'.b)
      BY <3>1 DEF Divided
    <3>3. /\ call'.a \in Long /\ call'.b \in Long
          /\ after' \in OP_MOD(call'.a, call'.b)
      BY <2>2, <3>2, Made
    <3>4. PICK x \in Long, y \in Long : x = call'.a /\ y = call'.b /\ after' \in OP_MOD(x, y)
      BY <3>3
    <3>5. CRem(x, y) * y \in Long
      BY <3>1, <3>4
    <3>6. /\ after'.is = "exact"
          /\ (x - after'.v) % Abs(y) = 0
          /\ Abs(after'.v) < Abs(y) /\ Sign(after'.v) \in {0, Sign(y)}
      BY <3>2, <3>4, <3>5, ModuloIs
    <3> QED BY <3>4, <3>6 DEF IsExact
  <2> QED BY <1>2, <2>1, <2>2
<1> QED BY <1>1, <1>2, PTL DEF Spec

MemoryFixed == before \in Memories

LEMMA MemoryTheorem == Spec => []MemoryFixed
<1>1. Init => MemoryFixed
  BY DEF Init, MemoryFixed
<1>2. MemoryFixed /\ [Next]_vars => MemoryFixed'
  BY Made DEF MemoryFixed, vars
<1> QED BY <1>1, <1>2, PTL DEF Spec

(* list_length tells proper, circular and dotted lists apart in every      *)
(* memory, and gives the length of those that end.                         *)
THEOREM LengthTheorem == Spec => []LengthOrShape
<1>1. Init => LengthOrShape
  BY DEF Init, LengthOrShape
<1>2. ASSUME MemoryFixed, LengthOrShape, [Next]_vars  PROVE LengthOrShape'
  <2>1. CASE UNCHANGED vars
    BY <1>2, <2>1 DEF vars, LengthOrShape, Ends, Proper, Length
  <2>2. CASE Next
    <3>1. SUFFICES ASSUME call'.f = "list_length"
          PROVE  after'.p = IF Ends(before', call'.a) = {} THEN -1
                            ELSE IF Proper(before', call'.a) THEN Length(before', call'.a)
                            ELSE -2 - Length(before', call'.a)
      BY DEF LengthOrShape
    <3>2. /\ call'.a \in Pointer /\ before' = before
          /\ after' = [m |-> before, p |-> list_length(before, call'.a)]
      BY <2>2, <3>1, Made
    <3>3. PICK m, a, r : m = before' /\ a = call'.a /\ r = after'
      OBVIOUS
    <3>4. MemOK(m) /\ a \in 1 .. Len(m) /\ r = [m |-> m, p |-> list_length(m, a)]
      BY <1>2, <3>2, <3>3, MemoryOK DEF MemoryFixed
    <3>5. r.p = IF Ends(m, a) = {} THEN -1
                ELSE IF Proper(m, a) THEN Length(m, a)
                ELSE -2 - Length(m, a)
      BY <3>4, LengthFoundIs
    <3> QED BY <3>3, <3>5
  <2> QED BY <1>2, <2>1, <2>2
<1> QED BY <1>1, <1>2, MemoryTheorem, PTL DEF Spec

(* Of the lists it is given a list function changes what its comment says  *)
(* and nothing else, and it returns the elements in the order it promises, *)
(* in every memory.                                                        *)
THEOREM OwnCellsTheorem == Spec => []WritesOwnCells
<1>1. Init => WritesOwnCells
  BY DEF Init, WritesOwnCells
<1>2. ASSUME MemoryFixed, WritesOwnCells, [Next]_vars  PROVE WritesOwnCells'
  <2>1. CASE UNCHANGED vars
    <3>1. before' = before /\ call' = call /\ after' = after
      BY <2>1 DEF vars
    <3> QED BY <1>2, <3>1 DEF WritesOwnCells, Unchanged
  <2>2. CASE Next
    <3>1. PICK m, a, b, r : m = before' /\ a = call'.a /\ b = call'.b /\ r = after'
      OBVIOUS
    <3>2. before' = before /\ MemOK(m) /\ Pointer = 1 .. Len(m)
      BY <1>2, <2>2, <3>1, Made, MemoryOK DEF MemoryFixed
    <3>3. ASSUME call'.f = "reverse_in_place"
          PROVE  /\ Elements(r.m, r.p) = Backwards(Elements(m, a)) \o Elements(m, b)
                 /\ CellsOf(r.m, r.p) = CellsOf(m, a) \cup CellsOf(m, b)
                 /\ Unchanged(m, r, Pointer \ CellsOf(m, a))
      <4>1. /\ a \in 1 .. Len(m) /\ b \in 1 .. Len(m) /\ b \notin CellsOf(m, a)
            /\ Proper(m, a) /\ Ends(m, b) # {}
            /\ CellsOf(m, a) \cap CellsOf(m, b) = {}
            /\ r = reverse_in_place(m, b, a)
        BY <2>2, <3>1, <3>2, <3>3, Made
      <4>2. /\ Elements(r.m, r.p) = Backwards(Elements(m, a)) \o Elements(m, b)
            /\ CellsOf(r.m, r.p) = CellsOf(m, a) \cup CellsOf(m, b)
            /\ \A p \in 1 .. Len(m) : p \notin CellsOf(m, a) => r.m[p] = m[p]
        <5>1. WrittenInPlace(r, m, a, b)
          BY <3>2, <4>1, InPlaceIs
        <5> QED BY <5>1 DEF WrittenInPlace
      <4> QED BY <3>2, <4>2 DEF Unchanged
    <3>4. ASSUME call'.f = "append"
          PROVE  /\ Elements(r.m, r.p) = Elements(m, a) \o Elements(m, b)
                 /\ Unchanged(m, r, Pointer)
      <4>1. /\ a \in 1 .. Len(m) /\ b \in 1 .. Len(m)
            /\ Proper(m, a) /\ Ends(m, b) # {}
            /\ r = append(m, a, b)
        BY <2>2, <3>1, <3>2, <3>4, Made
      <4>2. /\ Elements(r.m, r.p) = Elements(m, a) \o Elements(m, b)
            /\ \A p \in 1 .. Len(m) : r.m[p] = m[p]
        BY <3>2, <4>1, AppendIs
      <4> QED BY <3>2, <4>2 DEF Unchanged
    <3>5. ASSUME call'.f = "reverse"
          PROVE  /\ Elements(r.m, r.p) = Backwards(Elements(m, a))
                 /\ Unchanged(m, r, Pointer)
      <4>1. /\ a \in 1 .. Len(m) /\ Ends(m, a) # {}
            /\ r = reverse(m, a)
        BY <2>2, <3>1, <3>2, <3>5, Made
      <4>2. /\ Elements(r.m, r.p) = Backwards(Elements(m, a))
            /\ \A p \in 1 .. Len(m) : r.m[p] = m[p]
        BY <3>2, <4>1, ReverseIs
      <4> QED BY <3>2, <4>2 DEF Unchanged
    <3>6. ASSUME call'.f = "list_star", NEW n, NEW w, n = Length(m, a), w = Along(m, a)
          PROVE  /\ \A i \in 1 .. n - 1 :
                      /\ is_pair(r.m, Along(r.m, r.p)[i - 1])
                      /\ r.m[Along(r.m, r.p)[i - 1]].car = m[w[i - 1]].car
                 /\ IF n = 0 THEN r.p = NIL ELSE Along(r.m, r.p)[n - 1] = m[w[n - 1]].car
                 /\ Unchanged(m, r, Pointer \ (IF n > 2 THEN {w[n - 2]} ELSE {}))
      <4>1. a \in 1 .. Len(m) /\ Proper(m, a) /\ r = list_star(m, a)
        BY <2>2, <3>1, <3>2, <3>6, Made
      <4>2. /\ \A i \in 1 .. n - 1 :
                 /\ is_pair(r.m, Along(r.m, r.p)[i - 1])
                 /\ r.m[Along(r.m, r.p)[i - 1]].car = m[w[i - 1]].car
            /\ IF n = 0 THEN r.p = NIL ELSE Along(r.m, r.p)[n - 1] = m[w[n - 1]].car
            /\ \A p \in 1 .. Len(m) : p \notin (IF n > 2 THEN {w[n - 2]} ELSE {}) => r.m[p] = m[p]
        BY <3>2, <3>6, <4>1, StarIs
      <4> QED BY <3>2, <4>2 DEF Unchanged
    <3>7. (call.f = "reverse_in_place" =>
             /\ Elements(after.m, after.p)
                  = Backwards(Elements(before, call.a)) \o Elements(before, call.b)
             /\ CellsOf(after.m, after.p)
                  = CellsOf(before, call.a) \cup CellsOf(before, call.b)
             /\ Unchanged(before, after, Pointer \ CellsOf(before, call.a)))'
      BY <3>1, <3>3
    <3>8. (call.f = "append" =>
             /\ Elements(after.m, after.p)
                  = Elements(before, call.a) \o Elements(before, call.b)
             /\ Unchanged(before, after, Pointer))'
      BY <3>1, <3>4
    <3>9. (call.f = "reverse" =>
             /\ Elements(after.m, after.p) = Backwards(Elements(before, call.a))
             /\ Unchanged(before, after, Pointer))'
      BY <3>1, <3>5
    <3>10. (call.f = "list_star" =>
              LET n == Length(before, call.a)
                  walk == Along(before, call.a)
              IN /\ \A i \in 1 .. n - 1 :
                      /\ is_pair(after.m, Along(after.m, after.p)[i - 1])
                      /\ after.m[Along(after.m, after.p)[i - 1]].car = before[walk[i - 1]].car
                 /\ IF n = 0 THEN after.p = NIL
                    ELSE Along(after.m, after.p)[n - 1] = before[walk[n - 1]].car
                 /\ Unchanged(before, after, Pointer \ (IF n > 2 THEN {walk[n - 2]} ELSE {})))'
      BY <3>1, <3>6
    <3> QED BY <3>7, <3>8, <3>9, <3>10 DEF WritesOwnCells
  <2> QED BY <1>2, <2>1, <2>2
<1> QED BY <1>1, <1>2, MemoryTheorem, PTL DEF Spec

(* Whatever the names are hashed to and in whatever order they are asked   *)
(* for: a name has one symbol, names that differ in more than their case   *)
(* have two, and gensym gives one that nobody has.                         *)
THEOREM SymbolTheorem == Spec => []OneSymbolPerName
<1>1. Init => OneSymbolPerName
  BY DEF Init, OneSymbolPerName
<1>2. ASSUME OneSymbolPerName, [Next]_vars  PROVE OneSymbolPerName'
  <2>1. CASE UNCHANGED vars
    BY <1>2, <2>1 DEF vars, OneSymbolPerName
  <2>2. CASE Next
    <3>1. SUFFICES ASSUME call'.f = "symbols"
          PROVE  (\A j \in 1 .. NRequests, i \in 1 .. NRequests :
                    i < j =>
                      /\ call.a[j] = Fresh => after[i] # after[j]
                      /\ call.a[i] = call.a[j] /\ call.a[j] # Fresh => after[i] = after[j]
                      /\ call.a[i].letters # call.a[j].letters
                           /\ Fresh \notin {call.a[i], call.a[j]} => after[i] # after[j])'
      BY DEF OneSymbolPerName
    <3>2. PICK hash \in [Names -> Buckets], asked \in [1 .. NRequests -> Names \cup {Fresh}] :
            /\ call'.a = asked
            /\ after' = [k \in 1 .. NRequests |-> Answering(hash, asked)[k].last]
      BY <2>2, <3>1, Made
    <3>3. PICK c : c = Answering(hash, asked)
      OBVIOUS
    <3>4. \A k \in 1 .. NRequests : after'[k] = c[k].last
      BY <3>2, <3>3
    <3>5. AnswersApart(c, asked)
      BY <3>3, AnsweredApart
    <3>6. \A j \in 1 .. NRequests, i \in 1 .. NRequests :
            i < j =>
              /\ asked[j] = Fresh => after'[i] # after'[j]
              /\ asked[i] = asked[j] /\ asked[j] # Fresh => after'[i] = after'[j]
              /\ asked[i].letters # asked[j].letters /\ Fresh \notin {asked[i], asked[j]} =>
                   after'[i] # after'[j]
      BY <3>4, <3>5 DEF AnswersApart
    <3> QED BY <3>2, <3>6
  <2> QED BY <1>2, <2>1, <2>2
<1> QED BY <1>1, <1>2, PTL DEF Spec

(* What was encoded is decoded to what it was, up to the first zero byte,  *)
(* and the buffer has room for it, however long the text is.               *)
THEOREM DecoderTheorem == Spec => []Decodes
<1>1. Init => Decodes
  BY DEF Init, Decodes
<1>2. ASSUME Decodes, [Next]_vars  PROVE Decodes'
  <2>1. CASE UNCHANGED vars
    BY <1>2, <2>1 DEF vars, Decodes
  <2>2. CASE Next
    <3>1. SUFFICES ASSUME call'.f = "base64-decode"
          PROVE  (after.string = mk_string(call.a) /\ after.written <= after.size)'
      BY DEF Decodes
    <3>2. PICK n \in Nat, padded \in BOOLEAN :
            /\ call'.a \in [1 .. n -> Bytes]
            /\ after' = scheme_base64_decode(Encoded(call'.a, padded))
      BY <2>2, <3>1, Made
    <3>3. PICK bytes : bytes = call'.a /\ bytes \in [1 .. n -> Byte]
      BY <3>2, AlgorithmsAssumption DEF Byte
    <3>4. PICK src : src = Encoded(bytes, padded)
      OBVIOUS
    <3>5. base64_decode(src) = bytes /\ Len(bytes) = n
      BY <3>3, <3>4, DecodesIs
    <3>6. PICK l \in Nat : l = Len(src) /\ l >= Used(n)
      BY <3>3, <3>4, UnpaddedIs
    <3>7. n + 1 <= ((l * 3) \div 4) + 1
      <4>1. PICK u \in Nat : u = Used(n) /\ (3 * u) \div 4 = n
        BY UsedIs
      <4> QED BY <3>6, <4>1
    <3>8. after' = [string |-> mk_string(bytes), written |-> n + 1, size |-> ((l * 3) \div 4) + 1]
      BY <3>2, <3>3, <3>4, <3>5, <3>6 DEF scheme_base64_decode, BufferSize
    <3> QED BY <3>3, <3>7, <3>8
  <2> QED BY <1>2, <2>1, <2>2
<1> QED BY <1>1, <1>2, PTL DEF Spec

=============================================================================
