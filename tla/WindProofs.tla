------------------------------ MODULE WindProofs ------------------------------
(***************************************************************************)
(* The invariants of module Wind, for any number of windings, frames,      *)
(* continuations, jumps and failures.                                      *)
(*                                                                         *)
(* Inside walks down the frames.  The inductive invariant, WindInv, says   *)
(* instead that there is a sequence with what each frame is inside of, one *)
(* for the running code and one for each continuation (Sound), and how the *)
(* frames of a jump stand in the lists that they go through.  Windings are *)
(* numbered as they are made, so these lists fall: where a winding is in   *)
(* one, what lies below it is determined.                                  *)
(***************************************************************************)
EXTENDS Wind, FiniteSetTheorems, WellFoundedInduction, TLAPS

---------------------------------------------------------------------------
(* The invariant.                                                          *)

(* s without its first i elements.                                         *)
Off(s, i) == SubSeq(s, i + 1, Len(s))

(* a is the end, or the beginning, of s.                                   *)
EndOf(a, s) == Len(a) <= Len(s) /\ a = Off(s, Len(s) - Len(a))

StartOf(a, s) == Len(a) <= Len(s) /\ \A i \in 1 .. Len(a) : a[i] = s[i]

Cell == [w : Nat, id : Nat]

(* A list of windings of which there have been m so far.                   *)
Falling(ws, m) ==
  /\ ws \in Seq(Nat)
  /\ \A i \in 1 .. Len(ws) : ws[i] <= m
  /\ \A i, j \in 1 .. Len(ws) : i < j => ws[i] > ws[j]

Kinds == {"base", "before", "thunk", "after", "pop", "push"}

(* The frame f with what lies below it: a new winding is made after those  *)
(* around it; the after thunk that a jump runs is of a winding that it     *)
(* started in, and what it is to keep lies below; the before thunk that it *)
(* runs is of a winding that it goes to, and rest are those that follow.   *)
FrameOK(f, below, cs, m, once) ==
  /\ f.k \in Kinds
  /\ f.k = "base" => Falling(f.from, m)
  /\ f.k \in {"before", "thunk", "after"} =>
       /\ f.w \in Nat /\ f.w <= m
       /\ \A i \in 1 .. Len(below) : below[i] < f.w
  /\ f.k = "pop" =>
       /\ Falling(f.from, m)
       /\ f.to \in 1 .. Len(cs)
       /\ \E i \in 1 .. Len(f.from) : f.from[i] = f.w
       /\ f.shared \in Seq(Cell) /\ EndOf(f.shared, cs[f.to].ws)
       /\ once => EndOf(Windings(f.shared), Below(f.w, f.from))
  /\ f.k = "push" =>
       /\ f.to \in 1 .. Len(cs)
       /\ f.rest \in Seq(Nat)
       /\ LET ws == Windings(cs[f.to].ws)
          IN StartOf(f.rest, ws) /\ Len(f.rest) < Len(ws) /\ f.w = ws[Len(f.rest) + 1]

(* g[i] is what the i-th frame of s is inside of.                          *)
Layers(g, s, cs, m, once) ==
  /\ \A i \in 1 .. Len(s) :
       /\ s[i].k = "base" <=> i = Len(s)
       /\ g[i] = Around(s[i], g[i + 1], cs)
       /\ Falling(g[i], m)
       /\ FrameOK(s[i], g[i + 1], cs, m, once)

Sound(s, ws, cs, m, once) ==
  /\ \E F : s \in Seq(F)
  /\ Len(s) > 0
  /\ \E g \in Seq(Seq(Nat)) : /\ Len(g) = Len(s) /\ g[1] = ws
                              /\ Layers(g, s, cs, m, once)

(* Each cell is that of the activation it was made for.                    *)
Known(cells, es) ==
  /\ cells \in Seq(Cell)
  /\ \A i \in 1 .. Len(cells) : /\ cells[i].id \in 1 .. Len(es)
                                /\ es[cells[i].id] = cells[i].w

WindInv ==
  /\ windings \in Nat /\ entered \in Seq(Nat)
  /\ Known(active, entered)
  /\ Sound(stack, Windings(active), conts, windings, Once)
  /\ \E C : conts \in Seq(C)
  /\ \A k \in 1 .. Len(conts) :
       /\ Known(conts[k].ws, entered)
       /\ Sound(conts[k].stack, Windings(conts[k].ws), conts, windings, Once)
  /\ Once => ~stuck

---------------------------------------------------------------------------
(* Sequences.                                                              *)

LEMMA SameSeq ==
  ASSUME NEW X, NEW Y, NEW s \in Seq(X), NEW t \in Seq(Y), Len(s) = Len(t),
         \A i \in 1 .. Len(s) : s[i] = t[i]
  PROVE  s = t
<1>1. s = [i \in 1 .. Len(s) |-> s[i]] /\ t = [i \in 1 .. Len(t) |-> t[i]]
  OBVIOUS
<1> QED BY <1>1

LEMMA OffIs ==
  ASSUME NEW X, NEW s \in Seq(X), NEW i \in 0 .. Len(s)
  PROVE  /\ Off(s, i) \in Seq(X) /\ Len(Off(s, i)) = Len(s) - i
         /\ \A j \in 1 .. (Len(s) - i) : Off(s, i)[j] = s[i + j]
<1>1. Len(s) \in Nat
  OBVIOUS
<1>2. Off(s, i) = [j \in 1 .. (Len(s) - i) |-> s[i + j]]
  BY <1>1 DEF Off
<1>3. \A j \in 1 .. (Len(s) - i) : s[i + j] \in X
  BY <1>1
<1> QED BY <1>1, <1>2, <1>3

LEMMA OffOff ==
  ASSUME NEW X, NEW s \in Seq(X), NEW i \in 0 .. Len(s), NEW j \in 0 .. (Len(s) - i)
  PROVE  Off(Off(s, i), j) = Off(s, i + j)
<1> DEFINE a == Off(s, i)
           b == Off(a, j)
           c == Off(s, i + j)
<1>1. Len(s) \in Nat /\ i + j \in 0 .. Len(s)
  OBVIOUS
<1>2. a \in Seq(X) /\ Len(a) = Len(s) - i /\ \A k \in 1 .. (Len(s) - i) : a[k] = s[i + k]
  BY OffIs
<1> HIDE DEF a
<1>3. b \in Seq(X) /\ Len(b) = Len(a) - j /\ \A k \in 1 .. (Len(a) - j) : b[k] = a[j + k]
  <2>1. j \in 0 .. Len(a)
    BY <1>2
  <2>2. a \in Seq(X)
    BY <1>2
  <2> QED BY ONLY <2>1, <2>2, OffIs
<1>4. c \in Seq(X) /\ Len(c) = Len(s) - (i + j)
      /\ \A k \in 1 .. (Len(s) - (i + j)) : c[k] = s[(i + j) + k]
  <2> DEFINE l == i + j
  <2>1. l \in 0 .. Len(s)
    BY <1>1
  <2> HIDE DEF l
  <2>2. /\ Off(s, l) \in Seq(X) /\ Len(Off(s, l)) = Len(s) - l
        /\ \A k \in 1 .. (Len(s) - l) : Off(s, l)[k] = s[l + k]
    BY <2>1, OffIs
  <2> QED BY <2>2 DEF l
<1> HIDE DEF b, c
<1>5. Len(b) = Len(c) /\ Len(b) = Len(s) - (i + j)
  BY <1>1, <1>2, <1>3, <1>4
<1>6. ASSUME NEW k \in 1 .. Len(b)  PROVE b[k] = c[k]
  <2>1. j + k \in 1 .. (Len(s) - i) /\ i + (j + k) = (i + j) + k
    BY <1>1, <1>5
  <2>2. b[k] = a[j + k] /\ a[j + k] = s[i + (j + k)] /\ c[k] = s[(i + j) + k]
    <3>1. k \in 1 .. (Len(a) - j) /\ k \in 1 .. (Len(s) - (i + j))
      BY <1>1, <1>2, <1>5
    <3> QED BY <1>2, <1>3, <1>4, <2>1, <3>1
  <2> QED BY <2>1, <2>2
<1>7. b = c
  BY <1>3, <1>4, <1>5, <1>6, SameSeq
<1> QED BY <1>7 DEF a, b, c

PutOn(s, e, t, X) ==
  /\ t \in Seq(X) /\ Len(t) = Len(s) + 1 /\ t[1] = e
  /\ \A k \in 1 .. Len(s) : t[k + 1] = s[k]

LEMMA PutOnIs ==
  ASSUME NEW X, NEW s \in Seq(X), NEW e \in X
  PROVE  PutOn(s, e, <<e>> \o s, X)
BY DEF PutOn

(* One element is taken off, or none, or is put back.                      *)
LEMMA OffOne ==
  ASSUME NEW X, NEW s \in Seq(X)
  PROVE  /\ Len(s) \in Nat
         /\ Off(s, 0) = s
         /\ s # << >> => Len(s) > 0 /\ Head(s) = s[1] /\ Head(s) \in X /\ Tail(s) = Off(s, 1)
         /\ s = << >> <=> Len(s) = 0
         /\ \A i \in 1 .. Len(s) : <<s[i]>> \o Off(s, i) = Off(s, i - 1)
<1>1. Len(s) \in Nat
  OBVIOUS
<1>2. Off(s, 0) = s
  <2>1. /\ Off(s, 0) \in Seq(X) /\ Len(Off(s, 0)) = Len(s) - 0
        /\ \A j \in 1 .. (Len(s) - 0) : Off(s, 0)[j] = s[0 + j]
    <3>1. 0 \in 0 .. Len(s)
      BY <1>1
    <3> QED BY <3>1, OffIs
  <2>2. Len(Off(s, 0)) = Len(s)
    BY <1>1, <2>1
  <2>3. \A j \in 1 .. Len(Off(s, 0)) : Off(s, 0)[j] = s[j]
    <3> SUFFICES ASSUME NEW j \in 1 .. Len(s)  PROVE Off(s, 0)[j] = s[j]
      BY <2>2
    <3>1. j \in 1 .. (Len(s) - 0) /\ 0 + j = j
      BY <1>1
    <3>2. Off(s, 0)[j] = s[0 + j]
      BY <2>1, <3>1
    <3> QED BY <3>1, <3>2
  <2> QED BY <2>1, <2>2, <2>3, SameSeq
<1>3. s # << >> => Len(s) > 0 /\ Head(s) = s[1] /\ Head(s) \in X
  OBVIOUS
<1>4. s = << >> <=> Len(s) = 0
  OBVIOUS
<1>5. s # << >> => Tail(s) = Off(s, 1)
  BY <1>1 DEF Off
<1>6. ASSUME NEW i \in 1 .. Len(s)  PROVE <<s[i]>> \o Off(s, i) = Off(s, i - 1)
  <2> DEFINE a == Off(s, i)
             b == <<s[i]>> \o a
             l == i - 1
             c == Off(s, l)
  <2>1. i \in 0 .. Len(s) /\ l \in 0 .. Len(s) /\ s[i] \in X
    BY <1>1
  <2>2. a \in Seq(X) /\ Len(a) = Len(s) - i /\ \A k \in 1 .. (Len(s) - i) : a[k] = s[i + k]
    BY <2>1, OffIs
  <2> HIDE DEF a
  <2>3. b \in Seq(X) /\ Len(b) = Len(a) + 1 /\ b[1] = s[i]
        /\ \A k \in 1 .. Len(a) : b[k + 1] = a[k]
    <3>1. PICK e \in X : e = s[i]
      BY <2>1
    <3>2. PutOn(a, e, <<e>> \o a, X)
      BY <2>2, PutOnIs
    <3> QED BY <3>1, <3>2 DEF PutOn
  <2>4. c \in Seq(X) /\ Len(c) = Len(s) - l /\ \A k \in 1 .. (Len(s) - l) : c[k] = s[l + k]
    <3> HIDE DEF l
    <3> QED BY <2>1, OffIs
  <2> HIDE DEF b, c
  <2>5. Len(b) = Len(c) /\ Len(b) = (Len(s) - i) + 1
    BY <1>1, <2>2, <2>3, <2>4
  <2>6. ASSUME NEW k \in 1 .. Len(b)  PROVE b[k] = c[k]
    <3>1. CASE k = 1
      BY <1>1, <2>3, <2>4, <2>5, <3>1
    <3>2. CASE k # 1
      <4>1. k - 1 \in 1 .. Len(a) /\ (k - 1) + 1 = k /\ i + (k - 1) = l + k /\ k \in 1 .. (Len(s) - l)
        <5>1. PICK n \in Nat, m \in Nat, o \in Nat : n = Len(s) /\ m = Len(a) /\ o = Len(b)
          <6>1. Len(s) \in Nat /\ Len(a) \in Nat
            BY <1>1, <2>2
          <6>2. Len(b) \in Nat
            BY <2>3, <6>1
          <6> QED BY <6>1, <6>2
        <5>2. m = n - i /\ o = m + 1 /\ i \in 1 .. n /\ k \in 1 .. o
          BY <2>2, <2>5, <5>1
        <5>3. k - 1 \in 1 .. m /\ (k - 1) + 1 = k /\ i + (k - 1) = (i - 1) + k /\ k \in 1 .. (n - (i - 1))
          BY ONLY <3>2, <5>2, n \in Nat, m \in Nat, o \in Nat
        <5> QED BY ONLY <5>1, <5>3
      <4>2. b[k] = a[k - 1] /\ a[k - 1] = s[i + (k - 1)]
        BY <2>2, <2>3, <4>1
      <4> QED BY <2>4, <4>1, <4>2
    <3> QED BY <3>1, <3>2
  <2>7. b = c
    BY <2>3, <2>4, <2>5, <2>6, SameSeq
  <2> QED BY <2>7 DEF a, b, c
<1> QED BY <1>1, <1>2, <1>3, <1>4, <1>5, <1>6

LEMMA EndFacts ==
  ASSUME NEW X, NEW s \in Seq(X)
  PROVE  /\ EndOf(s, s)
         /\ \A i \in 0 .. Len(s) : EndOf(Off(s, i), s)
         /\ \A a \in Seq(X) : EndOf(a, s) => /\ Len(s) - Len(a) \in 0 .. Len(s)
                                             /\ a = Off(s, Len(s) - Len(a))
                                             /\ Len(a) = Len(s) => a = s
<1>1. ASSUME NEW i \in 0 .. Len(s)  PROVE EndOf(Off(s, i), s)
  <2> DEFINE a == Off(s, i)
  <2>1. Len(a) = Len(s) - i /\ Len(s) \in Nat
    BY OffIs
  <2> HIDE DEF a
  <2>2. Len(s) - Len(a) = i /\ Len(a) <= Len(s)
    BY <2>1
  <2>3. a = Off(s, Len(s) - Len(a))
    BY <2>2 DEF a
  <2>4. EndOf(a, s)
    BY <2>2, <2>3 DEF EndOf
  <2> QED BY <2>4 DEF a
<1>2. EndOf(s, s)
  <2>1. 0 \in 0 .. Len(s)
    OBVIOUS
  <2> QED BY <1>1, <2>1, OffOne
<1>3. ASSUME NEW a \in Seq(X), EndOf(a, s)
      PROVE  /\ Len(s) - Len(a) \in 0 .. Len(s)
             /\ a = Off(s, Len(s) - Len(a))
             /\ Len(a) = Len(s) => a = s
  <2>1. Len(a) \in Nat /\ Len(s) \in Nat /\ Len(a) <= Len(s) /\ a = Off(s, Len(s) - Len(a))
    BY <1>3 DEF EndOf
  <2>2. Len(a) = Len(s) => a = s
    <3>1. Len(a) = Len(s) => Len(s) - Len(a) = 0
      BY <2>1
    <3> QED BY <2>1, <3>1, OffOne
  <2> QED BY <2>1, <2>2
<1> QED BY <1>1, <1>2, <1>3

(* The end of an end, and ends of different length.                        *)
LEMMA EndTrans ==
  ASSUME NEW X, NEW s \in Seq(X), NEW a \in Seq(X), NEW b \in Seq(X)
  PROVE  /\ EndOf(a, b) /\ EndOf(b, s) => EndOf(a, s)
         /\ EndOf(a, s) /\ EndOf(b, s) /\ Len(a) <= Len(b) => EndOf(a, b)
<1>1. Len(s) \in Nat /\ Len(a) \in Nat /\ Len(b) \in Nat
  OBVIOUS
<1>2. ASSUME EndOf(b, s), Len(a) <= Len(b)
      PROVE  Off(b, Len(b) - Len(a)) = Off(s, Len(s) - Len(a)) /\ Len(a) <= Len(s)
  <2> DEFINE i == Len(s) - Len(b)
             j == Len(b) - Len(a)
  <2>1. i \in 0 .. Len(s) /\ b = Off(s, i)
    BY <1>2, EndFacts
  <2>2. j \in 0 .. (Len(s) - i) /\ i + j = Len(s) - Len(a) /\ Len(a) <= Len(s)
    BY <1>1, <1>2, <2>1
  <2> HIDE DEF i, j
  <2>3. Off(Off(s, i), j) = Off(s, i + j)
    BY <2>1, <2>2, OffOff
  <2>4. Off(b, j) = Off(s, i + j)
    BY <2>1, <2>3
  <2>5. Off(b, j) = Off(s, Len(s) - Len(a))
    BY <2>2, <2>4
  <2> QED BY <2>2, <2>5 DEF j
<1>3. ASSUME EndOf(a, b), EndOf(b, s)  PROVE EndOf(a, s)
  <2>1. Len(a) <= Len(b) /\ a = Off(b, Len(b) - Len(a))
    BY <1>3 DEF EndOf
  <2> QED BY <1>2, <1>3, <2>1 DEF EndOf
<1>4. ASSUME EndOf(a, s), EndOf(b, s), Len(a) <= Len(b)  PROVE EndOf(a, b)
  <2>1. a = Off(s, Len(s) - Len(a))
    BY <1>4 DEF EndOf
  <2> QED BY <1>2, <1>4, <2>1 DEF EndOf
<1> QED BY <1>3, <1>4

---------------------------------------------------------------------------
(* Lists of windings.                                                      *)

LEMMA WindingsIs ==
  ASSUME NEW s \in Seq(Cell)
  PROVE  /\ Windings(s) \in Seq(Nat) /\ Len(Windings(s)) = Len(s)
         /\ \A i \in 1 .. Len(s) : Windings(s)[i] = s[i].w
<1>1. Len(s) \in Nat /\ DOMAIN s = 1 .. Len(s) /\ \A i \in 1 .. Len(s) : s[i] \in Cell
  OBVIOUS
<1>2. \A c \in Cell : c.w \in Nat
  BY DEF Cell
<1> QED BY <1>1, <1>2 DEF Windings

LEMMA WindingsOff ==
  ASSUME NEW s \in Seq(Cell), NEW i \in 0 .. Len(s)
  PROVE  Windings(Off(s, i)) = Off(Windings(s), i)
<1> DEFINE a == Off(s, i)
           b == Windings(a)
           W == Windings(s)
           c == Off(W, i)
<1>1. a \in Seq(Cell) /\ Len(a) = Len(s) - i /\ \A j \in 1 .. (Len(s) - i) : a[j] = s[i + j]
  BY OffIs
<1>2. W \in Seq(Nat) /\ Len(W) = Len(s) /\ \A j \in 1 .. Len(s) : W[j] = s[j].w
  BY WindingsIs
<1> HIDE DEF a, W
<1>3. b \in Seq(Nat) /\ Len(b) = Len(a) /\ \A j \in 1 .. Len(a) : b[j] = a[j].w
  BY <1>1, WindingsIs
<1>4. c \in Seq(Nat) /\ Len(c) = Len(s) - i /\ \A j \in 1 .. (Len(s) - i) : c[j] = W[i + j]
  <2>1. i \in 0 .. Len(W)
    BY <1>2
  <2>2. /\ Off(W, i) \in Seq(Nat) /\ Len(Off(W, i)) = Len(W) - i
        /\ \A j \in 1 .. (Len(W) - i) : Off(W, i)[j] = W[i + j]
    BY <1>2, <2>1, OffIs
  <2> QED BY <1>2, <2>2
<1> HIDE DEF b, c
<1>5. ASSUME NEW j \in 1 .. Len(b)  PROVE b[j] = c[j]
  <2>1. j \in 1 .. (Len(s) - i) /\ i + j \in 1 .. Len(s) /\ j \in 1 .. Len(a)
    BY <1>1, <1>3
  <2> QED BY <1>1, <1>2, <1>3, <1>4, <2>1
<1>6. b = c
  BY <1>1, <1>3, <1>4, <1>5, SameSeq
<1> QED BY <1>6 DEF a, b, c, W

LEMMA WindingsOn ==
  ASSUME NEW s \in Seq(Cell), NEW c \in Cell
  PROVE  Windings(<<c>> \o s) = <<c.w>> \o Windings(s)
<1> DEFINE a == <<c>> \o s
           b == Windings(a)
           W == Windings(s)
           d == <<c.w>> \o W
<1>1. W \in Seq(Nat) /\ Len(W) = Len(s) /\ \A j \in 1 .. Len(s) : W[j] = s[j].w
  BY WindingsIs
<1>2. PutOn(s, c, a, Cell)
  BY PutOnIs
<1>3. PutOn(W, c.w, d, Nat)
  <2>1. c.w \in Nat
    BY DEF Cell
  <2> HIDE DEF W
  <2> QED BY <1>1, <2>1, PutOnIs
<1> HIDE DEF a, W, d
<1>4. b \in Seq(Nat) /\ Len(b) = Len(a) /\ \A j \in 1 .. Len(a) : b[j] = a[j].w
  BY <1>2, WindingsIs DEF PutOn
<1> HIDE DEF b
<1>5. Len(b) = Len(d) /\ Len(b) = Len(s) + 1 /\ Len(s) \in Nat
  BY <1>1, <1>2, <1>3, <1>4 DEF PutOn
<1>6. ASSUME NEW j \in 1 .. Len(b)  PROVE b[j] = d[j]
  <2>1. CASE j = 1
    BY <1>2, <1>3, <1>4, <2>1 DEF PutOn
  <2>2. CASE j # 1
    <3>1. PICK k \in 1 .. Len(s) : j = k + 1
      <4>1. j - 1 \in 1 .. Len(s) /\ j = (j - 1) + 1
        BY <1>5, <2>2
      <4> QED BY <4>1
    <3>2. b[j] = a[j].w
      BY <1>4
    <3>3. a[j] = s[k] /\ d[j] = W[k]
      BY <1>1, <1>2, <1>3, <3>1 DEF PutOn
    <3> QED BY <1>1, <3>2, <3>3
  <2> QED BY <2>1, <2>2
<1>7. d \in Seq(Nat)
  BY <1>3 DEF PutOn
<1>8. b = d
  BY <1>4, <1>5, <1>6, <1>7, SameSeq
<1> QED BY <1>8 DEF a, b, d, W

(* What is the end of a list of cells is the end of its windings.          *)
LEMMA WindingsEnd ==
  ASSUME NEW s \in Seq(Cell), NEW a \in Seq(Cell), EndOf(a, s)
  PROVE  EndOf(Windings(a), Windings(s))
<1>1. Len(s) - Len(a) \in 0 .. Len(s) /\ a = Off(s, Len(s) - Len(a)) /\ Len(a) <= Len(s)
  BY EndFacts DEF EndOf
<1>2. Windings(a) = Off(Windings(s), Len(s) - Len(a))
  BY <1>1, WindingsOff
<1>3. Len(Windings(s)) = Len(s) /\ Len(Windings(a)) = Len(a)
  BY WindingsIs
<1> QED BY <1>1, <1>2, <1>3 DEF EndOf

LEMMA FallingEnd ==
  ASSUME NEW m, NEW ws, Falling(ws, m), NEW i \in 0 .. Len(ws)
  PROVE  Falling(Off(ws, i), m)
<1>1. ws \in Seq(Nat) /\ Len(ws) \in Nat
  BY DEF Falling
<1>2. PICK a : a = Off(ws, i)
  OBVIOUS
<1>3. /\ a \in Seq(Nat) /\ Len(a) = Len(ws) - i
      /\ \A j \in 1 .. (Len(ws) - i) : a[j] = ws[i + j]
  BY <1>1, <1>2, OffIs
<1>4. \A j \in 1 .. Len(a) : a[j] = ws[i + j] /\ i + j \in 1 .. Len(ws)
  BY <1>1, <1>3
<1>5. \A j \in 1 .. Len(a) : a[j] <= m
  BY <1>4 DEF Falling
<1>6. ASSUME NEW j \in 1 .. Len(a), NEW k \in 1 .. Len(a), j < k  PROVE a[j] > a[k]
  <2>1. i + j < i + k
    BY <1>1, <1>3, <1>6
  <2> QED BY <1>4, <2>1 DEF Falling
<1> QED BY <1>2, <1>3, <1>5, <1>6 DEF Falling

(* One more is put on the list.                                            *)
LEMMA FallingOn ==
  ASSUME NEW m \in Nat, NEW ws, Falling(ws, m), NEW w \in Nat, w <= m,
         \A i \in 1 .. Len(ws) : ws[i] < w
  PROVE  Falling(<<w>> \o ws, m)
<1>1. ws \in Seq(Nat) /\ Len(ws) \in Nat
  BY DEF Falling
<1>2. PICK a : a = <<w>> \o ws
  OBVIOUS
<1>3. PutOn(ws, w, a, Nat)
  BY <1>1, <1>2, PutOnIs
<1>4. \A j \in 1 .. Len(a) : j = 1 \/ (j - 1 \in 1 .. Len(ws) /\ a[j] = ws[j - 1])
  <2> SUFFICES ASSUME NEW j \in 1 .. Len(a), j # 1
               PROVE  j - 1 \in 1 .. Len(ws) /\ a[j] = ws[j - 1]
    OBVIOUS
  <2>1. j - 1 \in 1 .. Len(ws) /\ (j - 1) + 1 = j
    BY <1>1, <1>3 DEF PutOn
  <2> QED BY <1>3, <2>1 DEF PutOn
<1>5. a[1] = w /\ a \in Seq(Nat)
  BY <1>3 DEF PutOn
<1>6. \A j \in 1 .. Len(a) : a[j] <= m
  BY <1>4, <1>5 DEF Falling
<1>7. ASSUME NEW j \in 1 .. Len(a), NEW k \in 1 .. Len(a), j < k  PROVE a[j] > a[k]
  <2>1. k # 1 /\ k - 1 \in 1 .. Len(ws) /\ a[k] = ws[k - 1]
    BY <1>1, <1>4, <1>7
  <2>2. CASE j = 1
    <3>1. a[k] < w /\ a[k] \in Nat
      <4>1. ws[k - 1] < w
        BY <2>1
      <4>2. ws[k - 1] \in Nat
        BY <1>1, <2>1
      <4> QED BY <2>1, <4>1, <4>2
    <3> QED BY <1>5, <2>2, <3>1
  <2>3. CASE j # 1
    <3>1. j - 1 \in 1 .. Len(ws) /\ a[j] = ws[j - 1] /\ j - 1 < k - 1
      BY <1>1, <1>4, <1>7, <2>3
    <3> QED BY <2>1, <3>1 DEF Falling
  <2> QED BY <2>2, <2>3
<1> QED BY <1>2, <1>5, <1>6, <1>7 DEF Falling

(* Where a winding is in such a list is one place.                         *)
LEMMA BelowIs ==
  ASSUME NEW m, NEW ws, Falling(ws, m), NEW i \in 1 .. Len(ws)
  PROVE  Below(ws[i], ws) = Off(ws, i)
<1> DEFINE P(j) == j \in DOMAIN ws /\ ws[j] = ws[i]
           c == CHOOSE j \in DOMAIN ws : ws[j] = ws[i]
<1>1. DOMAIN ws = 1 .. Len(ws) /\ Len(ws) \in Nat
  BY DEF Falling
<1>2. c \in DOMAIN ws /\ ws[c] = ws[i]
  BY <1>1
<1> HIDE DEF c
<1>3. c = i
  <2>1. ws[i] \in Nat /\ ~(ws[i] > ws[i])
    BY <1>1 DEF Falling
  <2>2. ~(c < i) /\ ~(i < c)
    BY <1>1, <1>2, <2>1 DEF Falling
  <2> QED BY <1>1, <1>2, <2>2
<1>4. Below(ws[i], ws) = SubSeq(ws, c + 1, Len(ws))
  BY DEF Below, c
<1> QED BY <1>3, <1>4 DEF Off

(* While no winding has been entered twice, cells are eq if they are of    *)
(* the same winding.                                                       *)
LEMMA KnownSame ==
  ASSUME Once, entered \in Seq(Nat), NEW a, NEW b, Known(a, entered), Known(b, entered),
         Windings(a) = Windings(b)
  PROVE  a = b
<1>1. /\ a \in Seq(Cell) /\ b \in Seq(Cell)
      /\ Len(Windings(a)) = Len(a) /\ Len(Windings(b)) = Len(b)
      /\ \A i \in 1 .. Len(a) : Windings(a)[i] = a[i].w
      /\ \A i \in 1 .. Len(b) : Windings(b)[i] = b[i].w
  BY WindingsIs DEF Known
<1>2. Len(a) = Len(b)
  BY <1>1
<1>3. ASSUME NEW i \in 1 .. Len(a)  PROVE a[i] = b[i]
  <2>1. i \in 1 .. Len(b) /\ a[i].w = b[i].w
    BY <1>1, <1>2
  <2>2. /\ a[i].id \in DOMAIN entered /\ b[i].id \in DOMAIN entered
        /\ entered[a[i].id] = entered[b[i].id]
    BY <2>1 DEF Known
  <2>3. a[i].id = b[i].id
    BY <2>2 DEF Once
  <2>4. a[i] \in Cell /\ b[i] \in Cell
    BY <1>1, <2>1
  <2> QED BY <2>1, <2>3, <2>4 DEF Cell
<1> QED BY <1>1, <1>2, <1>3, SameSeq

LEMMA KnownOff ==
  ASSUME NEW s, NEW es, Known(s, es), NEW i \in 0 .. Len(s)
  PROVE  Known(Off(s, i), es)
<1>1. s \in Seq(Cell) /\ Len(s) \in Nat
  BY DEF Known
<1>2. /\ Off(s, i) \in Seq(Cell) /\ Len(Off(s, i)) = Len(s) - i
      /\ \A j \in 1 .. (Len(s) - i) : Off(s, i)[j] = s[i + j]
  BY <1>1, OffIs
<1>3. \A j \in 1 .. (Len(s) - i) : i + j \in 1 .. Len(s)
  BY <1>1
<1>4. ASSUME NEW j \in 1 .. Len(Off(s, i))
      PROVE  Off(s, i)[j].id \in 1 .. Len(es) /\ es[Off(s, i)[j].id] = Off(s, i)[j].w
  <2>1. j \in 1 .. (Len(s) - i)
    BY <1>2
  <2>2. Off(s, i)[j] = s[i + j] /\ i + j \in 1 .. Len(s)
    BY <1>2, <1>3, <2>1
  <2> QED BY <2>2 DEF Known
<1> QED BY <1>2, <1>4 DEF Known

LEMMA KnownEnd ==
  ASSUME NEW s, NEW es, Known(s, es), NEW a \in Seq(Cell), EndOf(a, s)
  PROVE  Known(a, es)
<1>1. s \in Seq(Cell)
  BY DEF Known
<1>2. Len(s) - Len(a) \in 0 .. Len(s) /\ a = Off(s, Len(s) - Len(a))
  BY <1>1, EndFacts
<1>3. Known(Off(s, Len(s) - Len(a)), es)
  BY <1>2, KnownOff
<1> QED BY <1>2, <1>3

---------------------------------------------------------------------------
(* Frames.                                                                 *)

(* A set of natural numbers has a least element.                           *)
LEMMA Least ==
  ASSUME NEW S, S \subseteq Nat, S # {}
  PROVE  \E m \in S : \A k \in S : m <= k
<1> DEFINE Upto == {0 .. m : m \in S}
<1>1. Upto \subseteq FiniteSubsetsOf(Nat) /\ Upto # {}
  <2>1. ASSUME NEW m \in S  PROVE 0 .. m \in FiniteSubsetsOf(Nat)
    <3>1. IsFiniteSet(0 .. m)
      BY FS_Interval
    <3> QED BY <3>1 DEF FiniteSubsetsOf
  <2> QED BY <2>1
<1>2. \E x \in Upto : \A y \in Upto : ~ (<<y, x>> \in StrictSubsetOrdering(Nat))
  <2> HIDE DEF Upto
  <2> QED BY <1>1, WFMin, FS_StrictSubsetOrderingWellFounded
<1>3. PICK m \in S : \A y \in Upto : ~ (<<y, 0 .. m>> \in StrictSubsetOrdering(Nat))
  BY <1>2
<1>4. ASSUME NEW k \in S, ~ (m <= k)  PROVE FALSE
  <2>1. /\ 0 .. k \subseteq 0 .. m
        /\ m \in 0 .. m /\ m \notin 0 .. k
    BY <1>4
  <2>2. <<0 .. k, 0 .. m>> \in (SUBSET Nat) \X (SUBSET Nat)
    OBVIOUS
  <2>3. <<0 .. k, 0 .. m>> \in StrictSubsetOrdering(Nat)
    BY <2>1, <2>2 DEF StrictSubsetOrdering
  <2> QED BY <1>3, <2>3
<1> QED BY <1>4

LEMMA SharedTail ==
  ASSUME NEW x \in Seq(Cell), NEW y \in Seq(Cell)
  PROVE  /\ shared_tail(x, y) \in Seq(Cell)
         /\ EndOf(shared_tail(x, y), x) /\ EndOf(shared_tail(x, y), y)
<1> DEFINE Same(k) == SubSeq(x, Len(x) - k + 1, Len(x)) = SubSeq(y, Len(y) - k + 1, Len(y))
           Longest(k) == /\ k <= Len(y) /\ Same(k)
                         /\ \A j \in k + 1 .. Len(x) : j <= Len(y) => ~Same(j)
           S == {Len(x) - k : k \in {k \in 0 .. Len(x) : k <= Len(y) /\ Same(k)}}
           n == CHOOSE k \in 0 .. Len(x) : Longest(k)
<1>1. Len(x) \in Nat /\ Len(y) \in Nat
  OBVIOUS
<1>2. \A k \in 0 .. Len(x) : k <= Len(y) =>
        (Same(k) <=> Off(x, Len(x) - k) = Off(y, Len(y) - k))
  BY DEF Off
<1>3. Same(0)
  <2>1. Len(x) \in 0 .. Len(x) /\ Len(y) \in 0 .. Len(y) /\ Len(x) - 0 = Len(x) /\ Len(y) - 0 = Len(y)
    BY <1>1
  <2>2. Off(x, Len(x)) \in Seq(Cell) /\ Len(Off(x, Len(x))) = Len(x) - Len(x)
    BY <2>1, OffIs
  <2>3. Off(y, Len(y)) \in Seq(Cell) /\ Len(Off(y, Len(y))) = Len(y) - Len(y)
    BY <2>1, OffIs
  <2>4. Off(x, Len(x)) = << >> /\ Off(y, Len(y)) = << >>
    BY <1>1, <2>2, <2>3
  <2>5. 0 \in 0 .. Len(x) /\ 0 <= Len(y)
    BY <1>1
  <2> HIDE DEF Same
  <2> QED BY <1>2, <2>1, <2>4, <2>5
<1> HIDE DEF Same
<1>4. \E k \in 0 .. Len(x) : Longest(k)
  <2>1. S \subseteq Nat
    BY <1>1
  <2>2. S # {}
    <3>1. 0 \in {k \in 0 .. Len(x) : k <= Len(y) /\ Same(k)}
      BY <1>1, <1>3
    <3> QED BY <3>1
  <2>3. PICK l \in S : \A k \in S : l <= k
    <3> HIDE DEF S
    <3> QED BY <2>1, <2>2, Least
  <2>4. PICK k \in 0 .. Len(x) : l = Len(x) - k /\ k <= Len(y) /\ Same(k)
    BY <2>3
  <2>5. ASSUME NEW j \in k + 1 .. Len(x), j <= Len(y), Same(j)  PROVE FALSE
    <3>1. j \in 0 .. Len(x) /\ Len(x) - j < l
      BY <1>1, <2>4
    <3>2. Len(x) - j \in S
      BY <2>5, <3>1
    <3>3. l <= Len(x) - j /\ l \in Nat /\ Len(x) - j \in Nat
      BY <2>1, <2>3, <3>2
    <3> QED BY <3>1, <3>3
  <2> QED BY <2>4, <2>5
<1>5. n \in 0 .. Len(x) /\ n <= Len(y) /\ Same(n)
  <2> HIDE DEF Longest
  <2>1. n \in 0 .. Len(x) /\ Longest(n)
    BY <1>4
  <2> HIDE DEF n
  <2> QED BY <2>1 DEF Longest
<1>6. shared_tail(x, y) = SubSeq(x, Len(x) - n + 1, Len(x))
  BY DEF shared_tail, Same
<1> HIDE DEF n
<1>7. shared_tail(x, y) = Off(x, Len(x) - n) /\ shared_tail(x, y) = Off(y, Len(y) - n)
  BY <1>2, <1>5, <1>6 DEF Off
<1>8. Len(x) - n \in 0 .. Len(x) /\ Len(y) - n \in 0 .. Len(y)
  BY <1>1, <1>5
<1>9. shared_tail(x, y) \in Seq(Cell)
  BY <1>7, <1>8, OffIs
<1>10. EndOf(shared_tail(x, y), x) /\ EndOf(shared_tail(x, y), y)
  BY <1>7, <1>8, EndFacts
<1> QED BY <1>9, <1>10

LEMMA SoundBase ==
  ASSUME NEW ws, NEW cs, NEW m, NEW once, Falling(ws, m)
  PROVE  Sound(<<Base(ws)>>, ws, cs, m, once)
<1> DEFINE f == Base(ws)
<1>1. <<f>> \in Seq({f}) /\ Len(<<f>>) = 1 /\ <<f>>[1] = f
  OBVIOUS
<1>2. f.k = "base" /\ f.from = ws
  BY DEF Base
<1> HIDE DEF f
<1>3. <<ws>> \in Seq(Seq(Nat)) /\ Len(<<ws>>) = 1 /\ <<ws>>[1] = ws
  BY DEF Falling
<1>4. \A v : Around(f, v, cs) = ws /\ FrameOK(f, v, cs, m, once)
  BY <1>2 DEF Around, FrameOK, Kinds
<1>5. Layers(<<ws>>, <<f>>, cs, m, once)
  BY <1>1, <1>2, <1>3, <1>4 DEF Layers
<1>6. /\ \E F : <<f>> \in Seq(F)
      /\ \E g \in Seq(Seq(Nat)) : /\ Len(g) = Len(<<f>>) /\ g[1] = ws
                                  /\ Layers(g, <<f>>, cs, m, once)
  <2>1. PICK g \in Seq(Seq(Nat)) : g = <<ws>> /\ Len(g) = 1 /\ g[1] = ws
    BY <1>3
  <2>2. Layers(g, <<f>>, cs, m, once) /\ Len(g) = Len(<<f>>)
    BY <1>1, <1>5, <2>1
  <2> QED BY <1>1, <2>1, <2>2
<1>7. Sound(<<f>>, ws, cs, m, once)
  BY <1>1, <1>6 DEF Sound
<1> QED BY <1>7 DEF f

LEMMA SoundOn ==
  ASSUME NEW s, NEW v, NEW cs, NEW m, NEW once, Sound(s, v, cs, m, once),
         NEW f, f.k # "base", FrameOK(f, v, cs, m, once),
         NEW ws, ws = Around(f, v, cs), Falling(ws, m)
  PROVE  Sound(<<f>> \o s, ws, cs, m, once)
<1>1. PICK F : s \in Seq(F)
  BY DEF Sound
<1>2. PICK g \in Seq(Seq(Nat)) : Len(g) = Len(s) /\ g[1] = v /\ Layers(g, s, cs, m, once)
  BY DEF Sound
<1>3. Len(s) \in Nat /\ Len(s) > 0 /\ ws \in Seq(Nat)
  BY <1>1 DEF Sound, Falling
<1>4. PICK t, h : t = <<f>> \o s /\ h = <<ws>> \o g
  OBVIOUS
<1>5. PutOn(s, f, t, F \cup {f})
  <2> DEFINE G == F \cup {f}
  <2>1. s \in Seq(G) /\ f \in G
    <3>1. \A i \in 1 .. Len(s) : s[i] \in G
      BY <1>1
    <3>2. s = [i \in 1 .. Len(s) |-> s[i]]
      BY <1>1
    <3> QED BY <1>3, <3>1, <3>2
  <2> HIDE DEF G
  <2>2. PutOn(s, f, t, G)
    BY <1>4, <2>1, PutOnIs
  <2> QED BY <2>2 DEF G
<1>6. PutOn(g, ws, h, Seq(Nat))
  BY <1>3, <1>4, PutOnIs
<1>7. ASSUME NEW i \in 1 .. Len(t)
      PROVE  /\ t[i].k = "base" <=> i = Len(t)
             /\ h[i] = Around(t[i], h[i + 1], cs)
             /\ Falling(h[i], m)
             /\ FrameOK(t[i], h[i + 1], cs, m, once)
  <2>1. CASE i = 1
    <3>1. t[i] = f /\ h[i] = ws /\ i # Len(t)
      BY <1>3, <1>5, <1>6, <2>1 DEF PutOn
    <3>2. h[i + 1] = v
      <4>1. 1 \in 1 .. Len(g)
        BY <1>2, <1>3
      <4>2. h[1 + 1] = g[1]
        BY <1>6, <4>1 DEF PutOn
      <4> QED BY <1>2, <2>1, <4>2
    <3> QED BY <3>1, <3>2
  <2>2. CASE i # 1
    <3>1. PICK j \in 1 .. Len(s) : i = j + 1
      <4>1. i - 1 \in 1 .. Len(s) /\ i = (i - 1) + 1
        BY <1>3, <1>5, <2>2 DEF PutOn
      <4> QED BY <4>1
    <3>2. t[i] = s[j] /\ h[i] = g[j] /\ (i = Len(t) <=> j = Len(s))
      <4>1. t[j + 1] = s[j] /\ Len(t) = Len(s) + 1
        BY <1>5, <3>1 DEF PutOn
      <4>2. j \in 1 .. Len(g)
        BY <1>2, <1>3, <3>1
      <4>3. h[j + 1] = g[j]
        BY <1>6, <4>2 DEF PutOn
      <4>4. i = Len(t) <=> j = Len(s)
        BY <1>3, <3>1, <4>1
      <4> QED BY <3>1, <4>1, <4>3, <4>4
    <3>3. /\ s[j].k = "base" <=> j = Len(s)
          /\ g[j] = Around(s[j], g[j + 1], cs)
          /\ Falling(g[j], m)
          /\ FrameOK(s[j], g[j + 1], cs, m, once)
      BY <1>2, <3>1 DEF Layers
    <3>4. CASE j = Len(s)
      <4>1. s[j].k = "base"
        BY <3>3, <3>4
      <4>2. \A u, w : /\ Around(s[j], u, cs) = Around(s[j], w, cs)
                      /\ FrameOK(s[j], u, cs, m, once) <=> FrameOK(s[j], w, cs, m, once)
        BY <4>1 DEF Around, FrameOK
      <4> QED BY <3>2, <3>3, <4>2
    <3>5. CASE j # Len(s)
      <4>1. j + 1 \in 1 .. Len(g) /\ i + 1 = (j + 1) + 1
        BY <1>2, <1>3, <3>1, <3>5
      <4>2. h[i + 1] = g[j + 1]
        BY <1>6, <4>1 DEF PutOn
      <4> QED BY <3>2, <3>3, <4>2
    <3> QED BY <3>4, <3>5
  <2> QED BY <2>1, <2>2
<1>8. Layers(h, t, cs, m, once)
  BY <1>7 DEF Layers
<1>9. Len(t) > 0 /\ Len(h) = Len(t) /\ h[1] = ws /\ h \in Seq(Seq(Nat)) /\ \E G : t \in Seq(G)
  BY <1>2, <1>3, <1>5, <1>6 DEF PutOn
<1> QED BY <1>4, <1>8, <1>9 DEF Sound

(* What a sound stack is made of.                                          *)
LEMMA SoundTop ==
  ASSUME NEW s, NEW ws, NEW cs, NEW m, NEW once, Sound(s, ws, cs, m, once)
  PROVE  /\ Falling(ws, m)
         /\ Head(s).k \in Kinds
         /\ Head(s).k # "base" =>
              \E v : /\ Sound(Tail(s), v, cs, m, once)
                     /\ ws = Around(Head(s), v, cs)
                     /\ Falling(v, m)
                     /\ FrameOK(Head(s), v, cs, m, once)
<1>1. PICK F : s \in Seq(F)
  BY DEF Sound
<1>2. PICK g \in Seq(Seq(Nat)) : Len(g) = Len(s) /\ g[1] = ws /\ Layers(g, s, cs, m, once)
  BY DEF Sound
<1>3. Len(s) \in Nat /\ Len(s) > 0 /\ 1 \in 1 .. Len(s) /\ s # << >> /\ g # << >>
  <2>1. Len(s) \in Nat /\ Len(s) > 0
    BY <1>1 DEF Sound
  <2> QED BY <1>2, <2>1
<1>4. PICK f : f = s[1]
  OBVIOUS
<1>5. Head(s) = f /\ Tail(s) = Off(s, 1) /\ Tail(g) = Off(g, 1)
  BY <1>1, <1>3, <1>4, OffOne
<1>6. /\ f.k = "base" <=> 1 = Len(s)
      /\ ws = Around(f, g[1 + 1], cs)
      /\ Falling(ws, m)
      /\ FrameOK(f, g[1 + 1], cs, m, once)
  BY <1>2, <1>3, <1>4 DEF Layers
<1>7. f.k \in Kinds
  BY <1>6 DEF FrameOK
<1>8. ASSUME f.k # "base"
      PROVE  \E v : /\ Sound(Tail(s), v, cs, m, once)
                    /\ ws = Around(f, v, cs)
                    /\ Falling(v, m)
                    /\ FrameOK(f, v, cs, m, once)
  <2>1. Len(s) > 1 /\ 1 \in 0 .. Len(s) /\ 1 \in 0 .. Len(g)
    BY <1>2, <1>3, <1>6, <1>8
  <2>2. PICK t, h : t = Off(s, 1) /\ h = Off(g, 1)
    OBVIOUS
  <2>3. t \in Seq(F) /\ Len(t) = Len(s) - 1 /\ \A j \in 1 .. (Len(s) - 1) : t[j] = s[1 + j]
    BY <1>1, <2>1, <2>2, OffIs
  <2>4. /\ h \in Seq(Seq(Nat)) /\ Len(h) = Len(g) - 1
        /\ \A j \in 1 .. (Len(g) - 1) : h[j] = g[1 + j]
    BY <1>2, <2>1, <2>2, OffIs
  <2>5. ASSUME NEW j \in 1 .. Len(t)
        PROVE  /\ t[j].k = "base" <=> j = Len(t)
               /\ h[j] = Around(t[j], h[j + 1], cs)
               /\ Falling(h[j], m)
               /\ FrameOK(t[j], h[j + 1], cs, m, once)
    <3>1. /\ j \in 1 .. (Len(s) - 1) /\ 1 + j \in 1 .. Len(s) /\ (1 + j = Len(s) <=> j = Len(t))
          /\ j \in 1 .. (Len(g) - 1) /\ 1 + (j + 1) = (1 + j) + 1
      BY <1>2, <1>3, <2>3
    <3>2. t[j] = s[1 + j] /\ h[j] = g[1 + j]
      BY <2>3, <2>4, <3>1
    <3>3. /\ s[1 + j].k = "base" <=> 1 + j = Len(s)
          /\ g[1 + j] = Around(s[1 + j], g[(1 + j) + 1], cs)
          /\ Falling(g[1 + j], m)
          /\ FrameOK(s[1 + j], g[(1 + j) + 1], cs, m, once)
      BY <1>2, <3>1 DEF Layers
    <3>4. CASE j = Len(t)
      <4>1. s[1 + j].k = "base"
        BY <3>1, <3>3, <3>4
      <4>2. \A u, w : /\ Around(s[1 + j], u, cs) = Around(s[1 + j], w, cs)
                      /\ FrameOK(s[1 + j], u, cs, m, once) <=> FrameOK(s[1 + j], w, cs, m, once)
        BY <4>1 DEF Around, FrameOK
      <4> QED BY <3>1, <3>2, <3>3, <4>2
    <3>5. CASE j # Len(t)
      <4>1. j + 1 \in 1 .. (Len(g) - 1)
        BY <1>2, <1>3, <2>3, <3>5
      <4>2. h[j + 1] = g[1 + (j + 1)]
        BY <2>4, <4>1
      <4>3. h[j + 1] = g[(1 + j) + 1]
        BY <3>1, <4>2
      <4> QED BY <3>1, <3>2, <3>3, <4>3
    <3> QED BY <3>4, <3>5
  <2>6. Layers(h, t, cs, m, once)
    BY <2>5 DEF Layers
  <2>7. 1 \in 1 .. Len(t) /\ Len(t) > 0 /\ Len(h) = Len(t)
    BY <1>2, <1>3, <2>1, <2>3, <2>4
  <2>8. h[1] = g[1 + 1]
    BY <1>2, <2>3, <2>4, <2>7
  <2>9. \E G : t \in Seq(G)
    BY <2>3
  <2>10. Sound(t, h[1], cs, m, once)
    BY <2>4, <2>6, <2>7, <2>9 DEF Sound
  <2>11. Falling(h[1], m)
    BY <2>6, <2>7 DEF Layers
  <2>12. t = Tail(s)
    BY <1>5, <2>2
  <2> QED BY <1>6, <2>8, <2>10, <2>11, <2>12
<1> QED BY <1>5, <1>6, <1>7, <1>8

LEMMA SoundMore ==
  ASSUME NEW s, NEW ws, NEW cs, NEW m \in Nat, NEW once, Sound(s, ws, cs, m, once),
         NEW ds, NEW l \in Nat, NEW still, m <= l, still => once,
         Len(cs) \in Nat, Len(ds) \in Nat, StartOf(cs, ds)
  PROVE  Sound(s, ws, ds, l, still)
<1>1. PICK g \in Seq(Seq(Nat)) : Len(g) = Len(s) /\ g[1] = ws /\ Layers(g, s, cs, m, once)
  BY DEF Sound
<1>2. \A v : Falling(v, m) => Falling(v, l)
  <2> SUFFICES ASSUME NEW v, Falling(v, m)  PROVE Falling(v, l)
    OBVIOUS
  <2>1. ASSUME NEW i \in 1 .. Len(v)  PROVE v[i] <= l
    <3>1. v[i] \in Nat /\ v[i] <= m
      BY DEF Falling
    <3> QED BY <3>1
  <2> QED BY <2>1 DEF Falling
<1>3. \A i \in 1 .. Len(cs) : i \in 1 .. Len(ds) /\ ds[i] = cs[i]
  BY DEF StartOf
<1>4. ASSUME NEW f, NEW v, FrameOK(f, v, cs, m, once)
      PROVE  FrameOK(f, v, ds, l, still) /\ Around(f, v, ds) = Around(f, v, cs)
  <2>1. CASE f.k = "base"
    BY <1>2, <1>4, <2>1 DEF FrameOK, Around
  <2>2. CASE f.k \in {"before", "thunk", "after"}
    <3>1. f.w <= l
      <4>1. f.w \in Nat /\ f.w <= m
        BY <1>4, <2>2 DEF FrameOK
      <4> QED BY <4>1
    <3> QED BY <1>4, <2>2, <3>1 DEF FrameOK, Around
  <2>3. CASE f.k = "pop"
    <3>1. ds[f.to] = cs[f.to] /\ f.to \in 1 .. Len(ds) /\ Falling(f.from, l)
      BY <1>2, <1>3, <1>4, <2>3 DEF FrameOK
    <3> QED BY <1>4, <2>3, <3>1 DEF FrameOK, Around
  <2>4. CASE f.k = "push"
    <3>1. ds[f.to] = cs[f.to] /\ f.to \in 1 .. Len(ds)
      BY <1>3, <1>4, <2>4 DEF FrameOK
    <3> QED BY <1>4, <2>4, <3>1 DEF FrameOK, Around
  <2>5. f.k \in Kinds
    BY <1>4 DEF FrameOK
  <2> QED BY <2>1, <2>2, <2>3, <2>4, <2>5 DEF Kinds
<1>5. Layers(g, s, ds, l, still)
  BY <1>1, <1>2, <1>4 DEF Layers
<1> QED BY <1>1, <1>5 DEF Sound

---------------------------------------------------------------------------
(* What Inside finds is what the frames are inside of.                     *)

InsideOf(h, s, cs) == \A i \in 1 .. Len(s) : h[i] = Around(s[i], h[i + 1], cs)

LEMMA InsideIs ==
  ASSUME NEW s, NEW ws, NEW m, NEW once, Sound(s, ws, conts, m, once)
  PROVE  Inside(s) = ws
<1>1. PICK g \in Seq(Seq(Nat)) : Len(g) = Len(s) /\ g[1] = ws /\ Layers(g, s, conts, m, once)
  BY DEF Sound
<1>2. Len(s) \in Nat /\ Len(s) > 0
  <2>1. PICK F : s \in Seq(F)
    BY DEF Sound
  <2> QED BY <2>1 DEF Sound
<1> DEFINE Step(h, i) == Around(s[i], h[i + 1], conts)
           h0 == CHOOSE h : h = [i \in 1 .. Len(s) |-> Step(h, i)]
<1>4. Inside(s) = h0[1]
  BY DEF Inside
<1>5. g = [i \in 1 .. Len(s) |-> Step(g, i)]
  <2>1. \A i \in 1 .. Len(s) : g[i] = Step(g, i)
    BY <1>1 DEF Layers
  <2>2. g = [i \in 1 .. Len(s) |-> g[i]]
    BY <1>1
  <2> QED BY <2>1, <2>2
<1>6. h0 = [i \in 1 .. Len(s) |-> Step(h0, i)]
  <2> HIDE DEF Step
  <2> QED BY <1>5
<1> HIDE DEF h0
<1>7. \A i \in 1 .. Len(s) : h0[i] = Around(s[i], h0[i + 1], conts)
  BY <1>6
<1>8. \A i \in 1 .. Len(s) : h0[i] = g[i]
  <2> DEFINE S == {Len(s) - i : i \in {i \in 1 .. Len(s) : h0[i] # g[i]}}
  <2> SUFFICES ASSUME S # {}  PROVE FALSE
    OBVIOUS
  <2>1. S \subseteq Nat
    BY <1>2
  <2>2. PICK l \in S : \A k \in S : l <= k
    <3> HIDE DEF S
    <3> QED BY <2>1, Least
  <2>3. PICK i \in 1 .. Len(s) : l = Len(s) - i /\ h0[i] # g[i]
    BY <2>2
  <2>4. g[i] = Around(s[i], g[i + 1], conts) /\ (s[i].k = "base" <=> i = Len(s))
    BY <1>1 DEF Layers
  <2>5. CASE i = Len(s)
    <3>1. \A u, v : Around(s[i], u, conts) = Around(s[i], v, conts)
      BY <2>4, <2>5 DEF Around
    <3> QED BY <1>7, <2>3, <2>4, <3>1
  <2>6. CASE i # Len(s)
    <3>1. i + 1 \in 1 .. Len(s) /\ Len(s) - (i + 1) < l
      BY <1>2, <2>3, <2>6
    <3>2. h0[i + 1] = g[i + 1]
      <4> SUFFICES ASSUME h0[i + 1] # g[i + 1]  PROVE FALSE
        OBVIOUS
      <4>1. Len(s) - (i + 1) \in S
        BY <3>1
      <4>2. l <= Len(s) - (i + 1) /\ l \in Nat /\ Len(s) - (i + 1) \in Nat
        BY <2>1, <2>2, <4>1
      <4> QED BY <3>1, <4>2
    <3> QED BY <1>7, <2>3, <2>4, <3>2
  <2> QED BY <2>5, <2>6
<1>9. 1 \in 1 .. Len(s)
  BY <1>2
<1> QED BY <1>1, <1>4, <1>8, <1>9

---------------------------------------------------------------------------
(* The steps.                                                              *)

(* push-many: rest are the windings that are still to be entered, b those  *)
(* that are active then.                                                   *)
LEMMA PushMany ==
  ASSUME NEW m \in Nat, NEW once, NEW to \in 1 .. Len(conts),
         NEW W, W = Windings(conts[to].ws), Falling(W, m),
         Sound(conts[to].stack, W, conts, m, once),
         NEW st, NEW v, Sound(st, v, conts, m, once),
         NEW rest \in Seq(Nat), StartOf(rest, W),
         push_many(rest, st, to)
  PROVE  Sound(stack', Off(W, Len(rest)), conts, m, once)
<1>1. W \in Seq(Nat) /\ Len(W) \in Nat /\ Len(rest) \in Nat /\ Len(rest) <= Len(W)
  BY DEF Falling, StartOf
<1>2. CASE rest = << >>
  <2>1. stack' = conts[to].stack /\ Len(rest) = 0
    BY <1>2 DEF push_many
  <2>2. Off(W, 0) = W
    BY <1>1, OffOne
  <2> QED BY <2>1, <2>2
<1>3. CASE rest # << >>
  <2>1. PICK n \in Nat : n = Len(rest)
    BY <1>1
  <2>2. n > 0 /\ n \in 1 .. Len(W) /\ n \in 0 .. Len(W)
    <3>1. Len(rest) > 0
      BY <1>3, OffOne
    <3> QED BY <1>1, <2>1, <3>1
  <2>3. PICK h : h = Front(rest)
    OBVIOUS
  <2>4. /\ h \in Seq(Nat) /\ Len(h) = n - 1
        /\ \A i \in 1 .. (n - 1) : h[i] = rest[i]
    <3>1. h = SubSeq(rest, 1, n - 1)
      BY <2>1, <2>3 DEF Front
    <3>2. PICK l \in Nat : l = n - 1 /\ l <= Len(rest)
      BY <2>1, <2>2
    <3>3. h \in Seq(Nat) /\ Len(h) = l /\ \A i \in 1 .. l : h[i] = rest[i]
      BY ONLY <3>1, <3>2, rest \in Seq(Nat)
    <3> QED BY <3>2, <3>3
  <2>5. Last(rest) = W[n]
    BY <2>1, <2>2 DEF Last, StartOf
  <2>6. PICK f : f = Entering(W[n], h, to)
    OBVIOUS
  <2>7. stack' = <<f>> \o st
    BY <1>3, <2>3, <2>5, <2>6 DEF push_many
  <2>8. f.k = "push" /\ f.w = W[n] /\ f.rest = h /\ f.to = to
    BY <2>6 DEF Entering
  <2>9. StartOf(h, W) /\ Len(h) < Len(W) /\ f.w = W[Len(h) + 1]
    <3>1. Len(h) <= Len(W) /\ Len(h) < Len(W) /\ Len(h) + 1 = n
      <4>1. PICK l \in Nat : l = Len(W)
        BY <1>1
      <4>2. Len(h) = n - 1 /\ n \in 1 .. l
        BY <2>2, <2>4, <4>1
      <4>3. n - 1 <= l /\ n - 1 < l /\ (n - 1) + 1 = n
        BY ONLY <4>2, n \in Nat, l \in Nat
      <4> QED BY ONLY <4>1, <4>2, <4>3
    <3>2. \A i \in 1 .. Len(h) : i \in 1 .. (n - 1) /\ i \in 1 .. Len(rest)
      BY <2>1, <2>2, <2>4
    <3>3. \A i \in 1 .. Len(h) : h[i] = W[i]
      BY <2>4, <3>2 DEF StartOf
    <3> QED BY <2>8, <3>1, <3>3 DEF StartOf
  <2>10. FrameOK(f, v, conts, m, once)
    BY <2>4, <2>8, <2>9 DEF FrameOK, Kinds
  <2>11. Around(f, v, conts) = Below(W[n], W)
    BY <2>8 DEF Around
  <2>12. Below(W[n], W) = Off(W, n)
    BY <2>2, BelowIs
  <2>13. Falling(Off(W, n), m)
    BY <2>2, FallingEnd
  <2>14. f.k # "base" /\ Off(W, n) = Around(f, v, conts)
    BY <2>8, <2>11, <2>12
  <2>15. Sound(<<f>> \o st, Off(W, n), conts, m, once)
    BY <2>10, <2>13, <2>14, SoundOn
  <2> QED BY <2>1, <2>7, <2>15
<1> QED BY <1>2, <1>3

(* pop-many: from are the windings in which the jump began.                *)
LEMMA PopMany ==
  ASSUME WindInv, NEW st, NEW v, Sound(st, v, conts, windings, Once),
         NEW from, Falling(from, windings), EndOf(Windings(active), from),
         NEW to \in 1 .. Len(conts),
         NEW shared \in Seq(Cell), EndOf(shared, conts[to].ws),
         Once => EndOf(Windings(shared), Windings(active)),
         pop_many(shared, st, from, to)
  PROVE  /\ entered' = entered
         /\ Known(active', entered)
         /\ Sound(stack', Windings(active'), conts, windings, Once)
         /\ Once => ~stuck'
<1> DEFINE cws == conts[to].ws
           W == Windings(cws)
           A == Windings(active)
           n == Len(cws) - Len(shared)
           i == Len(from) - Len(A)
<1>1. /\ windings \in Nat /\ entered \in Seq(Nat) /\ active \in Seq(Cell) /\ cws \in Seq(Cell)
      /\ Known(active, entered) /\ Known(cws, entered)
      /\ Sound(conts[to].stack, W, conts, windings, Once)
      /\ Once => ~stuck
  BY DEF WindInv, Known
<1>2. Falling(W, windings)
  BY <1>1, SoundTop
<1>3. A \in Seq(Nat) /\ Len(A) = Len(active) /\ W \in Seq(Nat) /\ Len(W) = Len(cws)
      /\ Windings(shared) \in Seq(Nat) /\ Len(Windings(shared)) = Len(shared)
  BY <1>1, WindingsIs
<1>4. n \in 0 .. Len(cws) /\ shared = Off(cws, n) /\ Len(cws) \in Nat /\ Len(shared) \in Nat
  <2>1. Len(cws) \in Nat /\ Len(shared) \in Nat
    BY <1>1
  <2> QED BY <1>1, <2>1, EndFacts
<1>5. from \in Seq(Nat) /\ Len(from) \in Nat /\ i \in 0 .. Len(from) /\ A = Off(from, i)
  <2>1. from \in Seq(Nat) /\ EndOf(A, from)
    BY DEF Falling
  <2>2. A \in Seq(Nat)
    BY <1>3
  <2> HIDE DEF A
  <2>3. Len(from) - Len(A) \in 0 .. Len(from) /\ A = Off(from, Len(from) - Len(A))
    BY ONLY <2>1, <2>2, EndFacts
  <2> QED BY <2>1, <2>3
<1>6. Falling(A, windings)
  BY <1>5, FallingEnd
<1>7. CASE active = shared
  <2> DEFINE missing == SubSeq(cws, 1, n)
             rest == Windings(missing)
  <2>1. push_many(rest, st, to) /\ UNCHANGED <<active, entered, stuck>>
    BY <1>7 DEF pop_many
  <2>2. missing \in Seq(Cell) /\ Len(missing) = n /\ \A j \in 1 .. n : missing[j] = cws[j]
    <3> HIDE DEF n
    <3> QED BY <1>1, <1>4
  <2> HIDE DEF missing
  <2>3. rest \in Seq(Nat) /\ Len(rest) = n /\ \A j \in 1 .. n : rest[j] = missing[j].w
    BY <2>2, WindingsIs
  <2> HIDE DEF rest
  <2>4. StartOf(rest, W)
    <3>1. \A j \in 1 .. n : j \in 1 .. Len(cws)
      BY <1>4
    <3>2. \A j \in 1 .. n : W[j] = cws[j].w
      BY <1>1, <3>1, WindingsIs
    <3>3. \A j \in 1 .. n : rest[j] = W[j]
      BY <2>2, <2>3, <3>2
    <3>4. n <= Len(W)
      BY <1>3, <1>4
    <3> QED BY <2>3, <3>3, <3>4 DEF StartOf
  <2>5. Off(W, n) = Windings(active')
    <3>1. Windings(Off(cws, n)) = Off(W, n)
      <4> HIDE DEF n, cws
      <4> QED BY <1>1, <1>4, WindingsOff DEF W
    <3> QED BY <1>4, <1>7, <2>1, <3>1
  <2>6. Sound(stack', Off(W, Len(rest)), conts, windings, Once)
    <3> HIDE DEF n
    <3> QED BY <1>1, <1>2, <2>1, <2>3, <2>4, PushMany
  <2> QED BY <1>1, <2>1, <2>3, <2>5, <2>6
<1>8. CASE active # shared /\ active = << >>
  <2>1. Abandon /\ stuck' = TRUE
    BY <1>8 DEF pop_many
  <2>2. Sound(<<Base(A)>>, A, conts, windings, Once)
    BY <1>6, SoundBase
  <2>3. ~Once
    <3> SUFFICES ASSUME Once  PROVE FALSE
      OBVIOUS
    <3>1. Len(shared) <= Len(active) /\ Len(active) = 0
      BY <1>3, <1>8 DEF EndOf
    <3>2. shared = << >>
      BY <1>4, <3>1
    <3> QED BY <1>8, <3>2
  <2> QED BY <1>1, <2>1, <2>2, <2>3 DEF Abandon
<1>9. CASE active # shared /\ active # << >>
  <2>1. /\ active' = Tail(active) /\ entered' = entered /\ stuck' = stuck
        /\ stack' = <<Leaving(Head(active).w, shared, from, to)>> \o st
    BY <1>9 DEF pop_many, deactivate_top_winding
  <2>2. active' = Off(active, 1) /\ Head(active) = active[1] /\ Len(active) > 0 /\ Len(active) \in Nat
    BY <1>1, <1>9, <2>1, OffOne
  <2>3. 1 \in 0 .. Len(active) /\ 1 \in 1 .. Len(active) /\ 1 \in 0 .. Len(A) /\ 1 \in 1 .. Len(A)
    BY <1>3, <2>2
  <2>4. Windings(active') = Off(A, 1) /\ A[1] = Head(active).w
    BY <1>1, <2>2, <2>3, WindingsOff, WindingsIs
  <2>5. /\ i + 1 \in 1 .. Len(from) /\ from[i + 1] = A[1] /\ 1 \in 0 .. (Len(from) - i)
        /\ 1 \in 1 .. (Len(from) - i)
    <3>1. i + 1 \in 1 .. Len(from) /\ 1 \in 0 .. (Len(from) - i) /\ 1 \in 1 .. (Len(from) - i)
      <4> HIDE DEF A
      <4> QED BY <1>3, <1>5, <2>3
    <3> HIDE DEF i
    <3>2. \A j \in 1 .. (Len(from) - i) : Off(from, i)[j] = from[i + j]
      BY <1>5, OffIs
    <3> QED BY <1>5, <3>1, <3>2
  <2>6. PICK w : w = A[1]
    OBVIOUS
  <2>7. Below(w, from) = Off(A, 1)
    <3> HIDE DEF i
    <3>1. Below(from[i + 1], from) = Off(from, i + 1)
      <4>1. PICK j \in 1 .. Len(from) : j = i + 1
        BY <2>5
      <4> QED BY <4>1, BelowIs
    <3>2. Off(Off(from, i), 1) = Off(from, i + 1)
      BY <1>5, <2>5, OffOff
    <3> QED BY <1>5, <2>5, <2>6, <3>1, <3>2
  <2>8. Once => EndOf(Windings(shared), Off(A, 1))
    <3> SUFFICES ASSUME Once  PROVE EndOf(Windings(shared), Off(A, 1))
      OBVIOUS
    <3>1. Known(shared, entered)
      BY <1>1, KnownEnd
    <3>2. Windings(shared) # A
      BY <1>1, <1>9, <3>1, KnownSame
    <3>3. Len(shared) <= Len(A) /\ Len(shared) # Len(A)
      <4>1. EndOf(Windings(shared), A)
        OBVIOUS
      <4> HIDE DEF A
      <4>2. Len(Windings(shared)) <= Len(A)
        BY <4>1 DEF EndOf
      <4> QED BY <1>3, <3>2, <4>1, <4>2, EndFacts
    <3>4. /\ Off(A, 1) \in Seq(Nat) /\ Len(Off(A, 1)) = Len(A) - 1 /\ EndOf(Off(A, 1), A)
      <4> HIDE DEF A
      <4> QED BY <1>3, <2>3, OffIs, EndFacts
    <3>5. Len(Windings(shared)) <= Len(Off(A, 1))
      BY <1>3, <1>4, <2>2, <3>3, <3>4
    <3>6. EndOf(Windings(shared), A)
      OBVIOUS
    <3> HIDE DEF A
    <3> QED BY <1>3, <3>4, <3>5, <3>6, EndTrans
  <2>9. PICK f : f = Leaving(w, shared, from, to)
    OBVIOUS
  <2>10. f.k = "pop" /\ f.w = w /\ f.shared = shared /\ f.from = from /\ f.to = to
    BY <2>9 DEF Leaving
  <2>11. FrameOK(f, v, conts, windings, Once)
    <3>1. \E j \in 1 .. Len(from) : from[j] = w
      BY <2>5, <2>6
    <3> HIDE DEF A
    <3> QED BY <2>7, <2>8, <2>10, <3>1 DEF FrameOK, Kinds
  <2>12. f.k # "base" /\ Off(A, 1) = Around(f, v, conts)
    BY <2>7, <2>10 DEF Around
  <2>13. Falling(Off(A, 1), windings)
    <3> HIDE DEF A
    <3> QED BY <1>6, <2>3, FallingEnd
  <2>14. Sound(<<f>> \o st, Off(A, 1), conts, windings, Once)
    <3> HIDE DEF A
    <3> QED BY <2>11, <2>12, <2>13, SoundOn
  <2>15. Known(active', entered)
    BY <1>1, <2>2, <2>3, KnownOff
  <2> QED BY <1>1, <2>1, <2>4, <2>6, <2>9, <2>14, <2>15
<1> QED BY <1>7, <1>8, <1>9

(* What a step leaves of the invariant, but for the running code.          *)
LEMMA Keeps ==
  ASSUME WindInv,
         windings' \in Nat, windings <= windings',
         entered' \in Seq(Nat), StartOf(entered, entered'),
         NEW C, conts' \in Seq(C), StartOf(conts, conts'),
         \A k \in 1 .. Len(conts') :
           \/ k \in 1 .. Len(conts)
           \/ conts'[k].ws = active /\ conts'[k].stack = stack
  PROVE  /\ Once' => Once
         /\ \A s, ws : Sound(s, ws, conts, windings, Once)
                         => Sound(s, ws, conts', windings', Once')
         /\ \A k \in 1 .. Len(conts') :
              /\ Known(conts'[k].ws, entered')
              /\ Sound(conts'[k].stack, Windings(conts'[k].ws), conts', windings', Once')
<1>1. /\ windings \in Nat /\ entered \in Seq(Nat)
      /\ \E D : conts \in Seq(D)
      /\ Known(active, entered)
      /\ Sound(stack, Windings(active), conts, windings, Once)
  BY DEF WindInv
<1>2. Len(conts) \in Nat /\ Len(conts') \in Nat /\ Len(entered) \in Nat /\ Len(entered') \in Nat
  BY <1>1
<1>3. Once' => Once
  <2> SUFFICES ASSUME Once', NEW i \in DOMAIN entered, NEW j \in DOMAIN entered,
                      entered[i] = entered[j]
               PROVE  i = j
    BY DEF Once
  <2>1. /\ i \in 1 .. Len(entered) /\ j \in 1 .. Len(entered)
        /\ i \in DOMAIN entered' /\ j \in DOMAIN entered'
    <3>1. DOMAIN entered = 1 .. Len(entered) /\ DOMAIN entered' = 1 .. Len(entered')
      BY <1>1
    <3>2. Len(entered) <= Len(entered')
      BY DEF StartOf
    <3> QED BY <1>2, <3>1, <3>2
  <2>2. entered'[i] = entered'[j]
    BY <2>1 DEF StartOf
  <2> QED BY <2>1, <2>2 DEF Once
<1>4. ASSUME NEW s, NEW ws, Sound(s, ws, conts, windings, Once)
      PROVE  Sound(s, ws, conts', windings', Once')
  BY <1>1, <1>2, <1>3, <1>4, SoundMore
<1>5. ASSUME NEW a, Known(a, entered)  PROVE Known(a, entered')
  <2>1. \A i \in 1 .. Len(entered) : i \in 1 .. Len(entered') /\ entered'[i] = entered[i]
    BY <1>2 DEF StartOf
  <2> QED BY <1>5, <2>1 DEF Known
<1>6. ASSUME NEW k \in 1 .. Len(conts')
      PROVE  /\ Known(conts'[k].ws, entered')
             /\ Sound(conts'[k].stack, Windings(conts'[k].ws), conts', windings', Once')
  <2>1. CASE k \in 1 .. Len(conts)
    <3>1. conts'[k] = conts[k]
      BY <2>1 DEF StartOf
    <3>2. /\ Known(conts[k].ws, entered)
          /\ Sound(conts[k].stack, Windings(conts[k].ws), conts, windings, Once)
      BY <2>1 DEF WindInv
    <3> QED BY <1>4, <1>5, <3>1, <3>2
  <2>2. CASE conts'[k].ws = active /\ conts'[k].stack = stack
    BY <1>1, <1>4, <1>5, <2>2
  <2> QED BY <2>1, <2>2
<1> QED BY <1>3, <1>4, <1>6

(* A step that captures no continuation.                                   *)
LEMMA KeepsConts ==
  ASSUME WindInv, conts' = conts,
         windings' \in Nat, windings <= windings',
         entered' \in Seq(Nat), StartOf(entered, entered')
  PROVE  /\ Once' => Once
         /\ \A s, ws : Sound(s, ws, conts, windings, Once)
                         => Sound(s, ws, conts', windings', Once')
         /\ Known(active', entered') /\ Sound(stack', Windings(active'), conts', windings', Once')
            /\ (Once' => ~stuck') => WindInv'
<1>1. PICK C : conts \in Seq(C)
  BY DEF WindInv
<1>2. StartOf(conts, conts') /\ conts' \in Seq(C) /\ Len(conts) \in Nat
  BY <1>1 DEF StartOf
<1>3. \A k \in 1 .. Len(conts') :
        \/ k \in 1 .. Len(conts)
        \/ conts'[k].ws = active /\ conts'[k].stack = stack
  OBVIOUS
<1>4. /\ Once' => Once
      /\ \A s, ws : Sound(s, ws, conts, windings, Once)
                      => Sound(s, ws, conts', windings', Once')
      /\ \A k \in 1 .. Len(conts') :
           /\ Known(conts'[k].ws, entered')
           /\ Sound(conts'[k].stack, Windings(conts'[k].ws), conts', windings', Once')
  BY <1>2, <1>3, Keeps
<1>5. ASSUME Known(active', entered'), Sound(stack', Windings(active'), conts', windings', Once'),
             Once' => ~stuck'
      PROVE  WindInv'
  <2>1. \E D : conts' \in Seq(D)
    BY <1>2
  <2> QED BY <1>4, <1>5, <2>1 DEF WindInv
<1> QED BY <1>4, <1>5

(* Nothing is entered either, and no winding made.                         *)
LEMMA KeepsAll ==
  ASSUME WindInv, UNCHANGED <<conts, windings, entered>>,
         Known(active', entered), Sound(stack', Windings(active'), conts, windings, Once),
         Once => ~stuck'
  PROVE  WindInv'
<1>1. StartOf(entered, entered') /\ entered' \in Seq(Nat) /\ windings' \in Nat /\ windings <= windings'
  BY DEF WindInv, StartOf
<1>2. (Once' => Once) /\ Sound(stack', Windings(active'), conts', windings', Once')
  BY <1>1, KeepsConts
<1> QED BY <1>1, <1>2, KeepsConts

(* What activate makes of the activations es and the cells a.              *)
OneMore(es, a, w, fs, b) ==
  fs = Append(es, w) /\ b = <<[w |-> w, id |-> Len(fs)]>> \o a

LEMMA Activate ==
  ASSUME NEW es \in Seq(Nat), NEW a, Known(a, es), NEW w \in Nat,
         NEW fs, NEW b, OneMore(es, a, w, fs, b)
  PROVE  /\ fs \in Seq(Nat) /\ StartOf(es, fs)
         /\ Known(b, fs)
         /\ Windings(b) = <<w>> \o Windings(a)
<1>1. PICK c : c = [w |-> w, id |-> Len(fs)]
  OBVIOUS
<1>2. /\ fs \in Seq(Nat) /\ Len(fs) = Len(es) + 1 /\ Len(es) \in Nat /\ fs[Len(es) + 1] = w
      /\ \A i \in 1 .. Len(es) : fs[i] = es[i]
  BY DEF OneMore
<1>3. c \in Cell /\ c.w = w /\ c.id = Len(es) + 1
  BY <1>1, <1>2 DEF Cell
<1>4. StartOf(es, fs)
  BY <1>2 DEF StartOf
<1>5. a \in Seq(Cell) /\ Len(a) \in Nat
  BY DEF Known
<1>6. PutOn(a, c, b, Cell)
  BY <1>1, <1>3, <1>5, PutOnIs DEF OneMore
<1>7. ASSUME NEW i \in 1 .. Len(b)  PROVE b[i].id \in 1 .. Len(fs) /\ fs[b[i].id] = b[i].w
  <2>1. CASE i = 1
    BY <1>2, <1>3, <1>6, <2>1 DEF PutOn
  <2>2. CASE i # 1
    <3>1. PICK k \in 1 .. Len(a) : i = k + 1
      <4>1. i - 1 \in 1 .. Len(a) /\ i = (i - 1) + 1
        BY <1>5, <1>6, <2>2 DEF PutOn
      <4> QED BY <4>1
    <3>2. b[i] = a[k]
      BY <1>6, <3>1 DEF PutOn
    <3>3. a[k].id \in 1 .. Len(es) /\ es[a[k].id] = a[k].w
      BY DEF Known
    <3>4. PICK d \in 1 .. Len(es) : d = a[k].id
      BY <3>3
    <3>5. d \in 1 .. Len(fs) /\ fs[d] = es[d]
      BY <1>2
    <3> QED BY <3>2, <3>3, <3>4, <3>5
  <2> QED BY <2>1, <2>2
<1>8. Known(b, fs)
  BY <1>6, <1>7 DEF Known, PutOn
<1>9. Windings(b) = <<w>> \o Windings(a)
  BY <1>1, <1>3, <1>5, WindingsOn DEF OneMore
<1> QED BY <1>2, <1>4, <1>8, <1>9

---------------------------------------------------------------------------
(* The operations keep the invariant.                                      *)

LEMMA MakesWinding ==
  ASSUME WindInv, dynamic_wind
  PROVE  WindInv'
<1>1. /\ windings \in Nat /\ entered \in Seq(Nat) /\ Known(active, entered)
      /\ Sound(stack, Windings(active), conts, windings, Once)
      /\ Once => ~stuck
  BY DEF WindInv
<1>2. /\ windings' = windings + 1
      /\ stack' = <<Running("before", windings')>> \o stack
      /\ UNCHANGED <<active, conts, entered, stuck>>
  BY DEF dynamic_wind
<1>3. PICK A : A = Windings(active)
  OBVIOUS
<1>4. windings' \in Nat /\ windings <= windings' /\ entered' \in Seq(Nat) /\ StartOf(entered, entered')
  BY <1>1, <1>2 DEF StartOf
<1>5. (Once' => Once) /\ Sound(stack, A, conts', windings', Once')
  BY <1>1, <1>2, <1>3, <1>4, KeepsConts
<1>6. Falling(A, windings)
  BY <1>1, <1>3, SoundTop
<1>7. Falling(A, windings')
  BY <1>5, SoundTop
<1>8. \A i \in 1 .. Len(A) : A[i] < windings'
  <2>1. ASSUME NEW i \in 1 .. Len(A)  PROVE A[i] < windings'
    <3>1. A[i] \in Nat /\ A[i] <= windings
      BY <1>6 DEF Falling
    <3> QED BY <1>1, <1>2, <3>1
  <2> QED BY <2>1
<1>9. PICK f : f = Running("before", windings')
  OBVIOUS
<1>10. f.k = "before" /\ f.w = windings'
  BY <1>9 DEF Running
<1>11. FrameOK(f, A, conts', windings', Once')
  <2>1. f.w <= windings' /\ f.w \in Nat
    BY <1>4, <1>10
  <2> QED BY <1>8, <1>10, <2>1 DEF FrameOK, Kinds
<1>12. f.k # "base" /\ A = Around(f, A, conts')
  BY <1>10 DEF Around
<1>13. Sound(<<f>> \o stack, A, conts', windings', Once')
  BY <1>5, <1>7, <1>11, <1>12, SoundOn
<1>14. /\ Known(active', entered') /\ Sound(stack', Windings(active'), conts', windings', Once')
       /\ (Once' => ~stuck')
  BY <1>1, <1>2, <1>3, <1>5, <1>9, <1>13
<1> QED BY <1>2, <1>4, <1>14, KeepsConts

LEMMA Captures ==
  ASSUME WindInv, call_cc
  PROVE  WindInv'
<1>1. /\ windings \in Nat /\ entered \in Seq(Nat) /\ Known(active, entered)
      /\ Sound(stack, Windings(active), conts, windings, Once)
      /\ Once => ~stuck
  BY DEF WindInv
<1>2. PICK k : k = [stack |-> stack, ws |-> active]
  OBVIOUS
<1>3. conts' = Append(conts, k) /\ UNCHANGED <<windings, entered, active, stack, stuck>>
  BY <1>2 DEF call_cc, counts
<1>4. PICK D : conts \in Seq(D)
  BY DEF WindInv
<1>5. PICK C : C = D \cup {k}
  OBVIOUS
<1>6. conts \in Seq(C) /\ k \in C
  <2>1. \A i \in 1 .. Len(conts) : conts[i] \in C
    BY <1>4, <1>5
  <2>2. conts = [i \in 1 .. Len(conts) |-> conts[i]] /\ Len(conts) \in Nat
    BY <1>4
  <2> QED BY <1>5, <2>1, <2>2
<1>7. /\ conts' \in Seq(C) /\ Len(conts) \in Nat /\ Len(conts') = Len(conts) + 1
      /\ conts'[Len(conts) + 1] = k
      /\ \A i \in 1 .. Len(conts) : conts'[i] = conts[i]
  BY <1>3, <1>6
<1>8. StartOf(conts, conts')
  BY <1>7 DEF StartOf
<1>9. windings' \in Nat /\ windings <= windings' /\ entered' \in Seq(Nat) /\ StartOf(entered, entered')
  BY <1>1, <1>3 DEF StartOf
<1>10. ASSUME NEW i \in 1 .. Len(conts')
       PROVE  \/ i \in 1 .. Len(conts)
              \/ conts'[i].ws = active /\ conts'[i].stack = stack
  <2>1. i \in 1 .. Len(conts) \/ i = Len(conts) + 1
    BY <1>7
  <2>2. k.ws = active /\ k.stack = stack
    BY <1>2
  <2> QED BY <1>7, <2>1, <2>2
<1>11. /\ Once' => Once
       /\ \A s, ws : Sound(s, ws, conts, windings, Once)
                       => Sound(s, ws, conts', windings', Once')
       /\ \A i \in 1 .. Len(conts') :
            /\ Known(conts'[i].ws, entered')
            /\ Sound(conts'[i].stack, Windings(conts'[i].ws), conts', windings', Once')
  BY <1>7, <1>8, <1>9, <1>10, Keeps
<1>12. Sound(stack', Windings(active'), conts', windings', Once')
  BY <1>1, <1>3, <1>11
<1>13. \E D1 : conts' \in Seq(D1)
  BY <1>7
<1>14. Known(active', entered') /\ (Once' => ~stuck')
  BY <1>1, <1>3, <1>11
<1> QED BY <1>9, <1>11, <1>12, <1>13, <1>14 DEF WindInv

LEMMA Jumps ==
  ASSUME WindInv, NEW k \in DOMAIN conts, continuation(k)
  PROVE  WindInv'
<1> DEFINE shared == shared_tail(conts[k].ws, active)
<1>1. k \in 1 .. Len(conts)
  BY DEF WindInv
<1>2. /\ windings \in Nat /\ entered \in Seq(Nat) /\ Known(active, entered) /\ active \in Seq(Cell)
      /\ Sound(stack, Windings(active), conts, windings, Once)
      /\ conts[k].ws \in Seq(Cell)
  BY <1>1 DEF WindInv, Known
<1>3. pop_many(shared, stack, Windings(active), k) /\ UNCHANGED <<conts, windings>>
  BY DEF continuation
<1>4. shared \in Seq(Cell) /\ EndOf(shared, conts[k].ws) /\ EndOf(shared, active)
  BY <1>2, SharedTail
<1> HIDE DEF shared
<1>5. EndOf(Windings(shared), Windings(active))
  BY <1>2, <1>4, WindingsEnd
<1>6. Windings(active) \in Seq(Nat) /\ Falling(Windings(active), windings)
  BY <1>2, SoundTop, WindingsIs
<1>7. EndOf(Windings(active), Windings(active))
  BY <1>6, EndFacts
<1>8. /\ entered' = entered
      /\ Known(active', entered)
      /\ Sound(stack', Windings(active'), conts, windings, Once)
      /\ Once => ~stuck'
  BY <1>1, <1>2, <1>3, <1>4, <1>5, <1>6, <1>7, PopMany
<1> QED BY <1>3, <1>8, KeepsAll

LEMMA Fails ==
  ASSUME WindInv, Fail
  PROVE  WindInv'
<1>1. /\ Known(active, entered)
      /\ Sound(stack, Windings(active), conts, windings, Once)
      /\ Once => ~stuck
  BY DEF WindInv
<1>2. /\ stack' = <<Base(Windings(active))>>
      /\ UNCHANGED <<active, entered, conts, windings, stuck>>
  BY DEF Fail, Abandon
<1>3. Falling(Windings(active), windings)
  BY <1>1, SoundTop
<1>4. Sound(<<Base(Windings(active))>>, Windings(active), conts, windings, Once)
  BY <1>3, SoundBase
<1> QED BY <1>1, <1>2, <1>4, KeepsAll

LEMMA Returns ==
  ASSUME WindInv, Return
  PROVE  WindInv'
<1>1. /\ windings \in Nat /\ entered \in Seq(Nat) /\ Known(active, entered) /\ active \in Seq(Cell)
      /\ Sound(stack, Windings(active), conts, windings, Once)
      /\ Once => ~stuck
  BY DEF WindInv, Known
<1>2. PICK A, top, below : A = Windings(active) /\ top = Head(stack) /\ below = Tail(stack)
  OBVIOUS
<1>3. Falling(A, windings)
  BY <1>1, <1>2, SoundTop
<1>4. conts' = conts /\ windings' = windings
  BY DEF Return, counts
<1>5. ASSUME top.k # "base", top.k \in Kinds
      PROVE  \E u : /\ Sound(below, u, conts, windings, Once)
                    /\ A = Around(top, u, conts)
                    /\ Falling(u, windings)
                    /\ FrameOK(top, u, conts, windings, Once)
  BY <1>1, <1>2, <1>5, SoundTop
<1>6. CASE /\ top.k = "before"
           /\ activate(top.w)
           /\ stack' = <<Running("thunk", top.w)>> \o below
           /\ UNCHANGED stuck
  <2>1. PICK v : /\ Sound(below, v, conts, windings, Once)
                 /\ A = Around(top, v, conts)
                 /\ FrameOK(top, v, conts, windings, Once)
    BY <1>5, <1>6 DEF Kinds
  <2>2. PICK w \in Nat : w = top.w
    BY <1>6, <2>1 DEF FrameOK
  <2>3. A = v /\ w <= windings /\ \A i \in 1 .. Len(v) : v[i] < w
    BY <1>6, <2>1, <2>2 DEF Around, FrameOK
  <2>4. entered' = Append(entered, w) /\ active' = <<[w |-> w, id |-> Len(entered')]>> \o active
    BY <1>6, <2>2 DEF activate
  <2>5. /\ entered' \in Seq(Nat) /\ StartOf(entered, entered') /\ Known(active', entered')
        /\ Windings(active') = <<w>> \o A
    <3>1. OneMore(entered, active, w, entered', active')
      BY <2>4 DEF OneMore
    <3>2. entered \in Seq(Nat) /\ Known(active, entered)
      BY <1>1
    <3>3. Windings(active) = A
      BY <1>2
    <3>4. /\ entered' \in Seq(Nat) /\ StartOf(entered, entered') /\ Known(active', entered')
          /\ Windings(active') = <<w>> \o Windings(active)
      BY ONLY <3>1, <3>2, w \in Nat, Activate
    <3> QED BY ONLY <3>3, <3>4
  <2>6. (Once' => Once) /\ Sound(below, A, conts', windings', Once')
    BY <1>1, <1>4, <2>1, <2>3, <2>5, KeepsConts
  <2>7. PICK f : f = Running("thunk", w)
    OBVIOUS
  <2>8. f.k = "thunk" /\ f.w = w
    BY <2>7 DEF Running
  <2>9. FrameOK(f, A, conts', windings', Once')
    BY <1>4, <2>3, <2>8 DEF FrameOK, Kinds
  <2>10. f.k # "base" /\ <<w>> \o A = Around(f, A, conts')
    BY <2>8 DEF Around
  <2>11. Falling(<<w>> \o A, windings')
    BY <1>1, <1>3, <1>4, <2>3, FallingOn
  <2>12. Sound(<<f>> \o below, <<w>> \o A, conts', windings', Once')
    BY <2>6, <2>9, <2>10, <2>11, SoundOn
  <2>13. Sound(stack', Windings(active'), conts', windings', Once') /\ (Once' => ~stuck')
    BY <1>1, <1>6, <2>2, <2>5, <2>6, <2>7, <2>12
  <2> QED BY <1>1, <1>4, <2>5, <2>13, KeepsConts
<1>7. CASE /\ top.k = "thunk"
           /\ deactivate_top_winding
           /\ stack' = <<Running("after", Head(active).w)>> \o below
           /\ UNCHANGED stuck
  <2>1. PICK v : /\ Sound(below, v, conts, windings, Once)
                 /\ A = Around(top, v, conts)
                 /\ Falling(v, windings)
                 /\ FrameOK(top, v, conts, windings, Once)
    BY <1>5, <1>7 DEF Kinds
  <2>2. PICK w \in Nat : w = top.w
    BY <1>7, <2>1 DEF FrameOK
  <2>3. A = <<w>> \o v /\ w <= windings /\ \A i \in 1 .. Len(v) : v[i] < w
    BY <1>7, <2>1, <2>2 DEF Around, FrameOK
  <2>4. PutOn(v, w, A, Nat) /\ v \in Seq(Nat)
    BY <2>1, <2>3, PutOnIs DEF Falling
  <2>5. A \in Seq(Nat) /\ Len(A) = Len(active) /\ \A i \in 1 .. Len(active) : A[i] = active[i].w
    BY <1>1, <1>2, WindingsIs
  <2>6. Len(v) \in Nat /\ Len(active) > 0 /\ active # << >> /\ 1 \in 1 .. Len(active)
        /\ 1 \in 0 .. Len(active)
    BY <2>4, <2>5 DEF PutOn
  <2>7. Head(active).w = w /\ active' = Off(active, 1) /\ entered' = entered
    <3>1. Head(active) = active[1] /\ Tail(active) = Off(active, 1)
      BY <1>1, <2>6, OffOne
    <3> QED BY <1>7, <2>4, <2>5, <2>6, <3>1 DEF PutOn, deactivate_top_winding
  <2>8. Windings(active') = Off(A, 1)
    BY <1>1, <1>2, <2>6, <2>7, WindingsOff
  <2>9. Off(A, 1) = v
    <3>1. PICK b : b = Off(A, 1)
      OBVIOUS
    <3>2. /\ b \in Seq(Nat) /\ Len(b) = Len(A) - 1
          /\ \A j \in 1 .. (Len(A) - 1) : b[j] = A[1 + j]
      <4>1. 1 \in 0 .. Len(A)
        BY <2>5, <2>6
      <4> QED BY <2>5, <3>1, <4>1, OffIs
    <3>3. Len(b) = Len(v)
      BY <2>4, <2>6, <3>2 DEF PutOn
    <3>4. ASSUME NEW j \in 1 .. Len(b)  PROVE b[j] = v[j]
      <4>1. j \in 1 .. (Len(A) - 1) /\ j \in 1 .. Len(v) /\ 1 + j = j + 1
        BY <2>4, <2>6, <3>2, <3>3 DEF PutOn
      <4>2. b[j] = A[1 + j] /\ A[j + 1] = v[j]
        BY <2>4, <3>2, <4>1 DEF PutOn
      <4> QED BY <4>1, <4>2
    <3>5. b = v
      BY <2>4, <3>2, <3>3, <3>4, SameSeq
    <3> QED BY <3>1, <3>5
  <2>10. PICK f : f = Running("after", w)
    OBVIOUS
  <2>11. f.k = "after" /\ f.w = w
    BY <2>10 DEF Running
  <2>12. FrameOK(f, v, conts, windings, Once)
    BY <2>3, <2>11 DEF FrameOK, Kinds
  <2>13. f.k # "base" /\ v = Around(f, v, conts)
    BY <2>11 DEF Around
  <2>14. Sound(<<f>> \o below, v, conts, windings, Once)
    BY <2>1, <2>12, <2>13, SoundOn
  <2>15. Sound(stack', Windings(active'), conts, windings, Once)
    BY <1>7, <2>7, <2>8, <2>9, <2>10, <2>14
  <2>16. Known(active', entered)
    BY <1>1, <2>6, <2>7, KnownOff
  <2> QED BY <1>1, <1>4, <1>7, <2>7, <2>15, <2>16, KeepsAll
<1>8. CASE /\ top.k = "after"
           /\ stack' = below
           /\ UNCHANGED <<active, entered, stuck>>
  <2>1. PICK v : Sound(below, v, conts, windings, Once) /\ A = Around(top, v, conts)
    BY <1>5, <1>8 DEF Kinds
  <2>2. A = v
    BY <1>8, <2>1 DEF Around
  <2>3. Sound(stack', Windings(active'), conts, windings, Once)
    BY <1>2, <1>8, <2>1, <2>2
  <2> QED BY <1>1, <1>4, <1>8, <2>3, KeepsAll
<1>9. CASE top.k = "pop" /\ pop_many(top.shared, below, top.from, top.to)
  <2>1. PICK v : /\ Sound(below, v, conts, windings, Once)
                 /\ A = Around(top, v, conts)
                 /\ FrameOK(top, v, conts, windings, Once)
    BY <1>5, <1>9 DEF Kinds
  <2>2. /\ Falling(top.from, windings)
        /\ top.to \in 1 .. Len(conts)
        /\ \E i \in 1 .. Len(top.from) : top.from[i] = top.w
        /\ top.shared \in Seq(Cell) /\ EndOf(top.shared, conts[top.to].ws)
        /\ Once => EndOf(Windings(top.shared), Below(top.w, top.from))
    BY <1>9, <2>1 DEF FrameOK
  <2>3. A = Below(top.w, top.from)
    BY <1>9, <2>1 DEF Around
  <2>4. PICK i \in 1 .. Len(top.from) : top.from[i] = top.w
    BY <2>2
  <2>5. A = Off(top.from, i)
    BY <2>2, <2>3, <2>4, BelowIs
  <2>6. EndOf(A, top.from)
    <3>1. top.from \in Seq(Nat)
      BY <2>2 DEF Falling
    <3>2. i \in 0 .. Len(top.from)
      BY <3>1
    <3> QED BY <2>5, <3>1, <3>2, EndFacts
  <2>7. Once => EndOf(Windings(top.shared), Windings(active))
    BY <1>2, <2>2, <2>3
  <2>8. EndOf(Windings(active), top.from)
    BY <1>2, <2>6
  <2>9. /\ entered' = entered
        /\ Known(active', entered)
        /\ Sound(stack', Windings(active'), conts, windings, Once)
        /\ Once => ~stuck'
    BY <1>9, <2>1, <2>2, <2>7, <2>8, PopMany
  <2> QED BY <1>4, <2>9, KeepsAll
<1>10. CASE /\ top.k = "push"
            /\ activate(top.w)
            /\ push_many(top.rest, below, top.to)
            /\ UNCHANGED stuck
  <2>1. PICK v : /\ Sound(below, v, conts, windings, Once)
                 /\ A = Around(top, v, conts)
                 /\ FrameOK(top, v, conts, windings, Once)
    BY <1>5, <1>10 DEF Kinds
  <2>2. PICK to, rest, W : to = top.to /\ rest = top.rest /\ W = Windings(conts[to].ws)
    OBVIOUS
  <2>3. /\ to \in 1 .. Len(conts)
        /\ rest \in Seq(Nat)
        /\ StartOf(rest, W) /\ Len(rest) < Len(W) /\ top.w = W[Len(rest) + 1]
    BY <1>10, <2>1, <2>2 DEF FrameOK
  <2>4. Sound(conts[to].stack, W, conts, windings, Once)
    BY <2>2, <2>3 DEF WindInv
  <2>5. Falling(W, windings) /\ W \in Seq(Nat)
    BY <2>4, SoundTop DEF Falling
  <2>6. PICK n \in 1 .. Len(W) : n = Len(rest) + 1
    <3>1. Len(rest) \in Nat /\ Len(W) \in Nat
      BY <2>3, <2>5
    <3>2. Len(rest) + 1 \in 1 .. Len(W)
      BY <2>3, <3>1
    <3> QED BY <3>2
  <2>7. PICK w \in Nat : w = top.w /\ w = W[n]
    BY <2>3, <2>5, <2>6
  <2>8. A = Off(W, n)
    <3>1. A = Below(w, W)
      BY <1>10, <2>1, <2>2, <2>7 DEF Around
    <3> QED BY <2>5, <2>7, <3>1, BelowIs
  <2>9. entered' = Append(entered, w) /\ active' = <<[w |-> w, id |-> Len(entered')]>> \o active
    BY <1>10, <2>7 DEF activate
  <2>10. /\ entered' \in Seq(Nat) /\ StartOf(entered, entered') /\ Known(active', entered')
         /\ Windings(active') = <<w>> \o A
    <3>1. OneMore(entered, active, w, entered', active')
      BY <2>9 DEF OneMore
    <3>2. entered \in Seq(Nat) /\ Known(active, entered)
      BY <1>1
    <3>3. Windings(active) = A
      BY <1>2
    <3>4. /\ entered' \in Seq(Nat) /\ StartOf(entered, entered') /\ Known(active', entered')
          /\ Windings(active') = <<w>> \o Windings(active)
      BY ONLY <3>1, <3>2, w \in Nat, Activate
    <3> QED BY ONLY <3>3, <3>4
  <2>11. /\ Once' => Once
         /\ Sound(below, v, conts, windings, Once')
         /\ Sound(conts[to].stack, W, conts, windings, Once')
    BY <1>1, <1>4, <2>1, <2>4, <2>10, KeepsConts
  <2>12. Windings(active') = Off(W, Len(rest))
    <3>1. <<W[n]>> \o Off(W, n) = Off(W, n - 1)
      BY <2>5, OffOne
    <3>2. n - 1 = Len(rest)
      BY <2>3, <2>6
    <3> QED BY <2>7, <2>8, <2>10, <3>1, <3>2
  <2>13. push_many(rest, below, to)
    BY <1>10, <2>2
  <2>14. Sound(stack', Off(W, Len(rest)), conts, windings, Once')
    BY <1>1, <2>2, <2>3, <2>5, <2>11, <2>13, PushMany
  <2>15. Sound(stack', Windings(active'), conts', windings', Once') /\ (Once' => ~stuck')
    BY <1>1, <1>4, <1>10, <2>11, <2>12, <2>14
  <2> QED BY <1>1, <1>4, <2>10, <2>15, KeepsConts
<1> QED BY <1>2, <1>6, <1>7, <1>8, <1>9, <1>10 DEF Return

---------------------------------------------------------------------------
(* The theorems.                                                           *)

LEMMA WindInvInit ==
  ASSUME Init
  PROVE  WindInv
<1>1. /\ active = << >> /\ stack = <<Base(<< >>)>> /\ conts = << >>
      /\ windings = 0 /\ entered = << >> /\ stuck = FALSE
  BY DEF Init
<1>2. << >> \in Seq(Cell) /\ << >> \in Seq(Nat) /\ Len(<< >>) = 0
  OBVIOUS
<1>3. Windings(<< >>) = << >>
  <2>1. Windings(<< >>) \in Seq(Nat) /\ Len(Windings(<< >>)) = 0
    BY <1>2, WindingsIs
  <2> QED BY <2>1
<1>4. Falling(<< >>, 0) /\ Known(<< >>, << >>)
  BY <1>2 DEF Falling, Known
<1>5. Sound(<<Base(<< >>)>>, << >>, << >>, 0, Once)
  BY <1>4, SoundBase
<1>6. \E C : << >> \in Seq(C)
  BY <1>2
<1> QED BY <1>1, <1>2, <1>3, <1>4, <1>5, <1>6 DEF WindInv

LEMMA WindInvStep ==
  ASSUME WindInv, [Next]_vars
  PROVE  WindInv'
<1>1. CASE dynamic_wind
  BY <1>1, MakesWinding
<1>2. CASE call_cc
  BY <1>2, Captures
<1>3. CASE Return
  BY <1>3, Returns
<1>4. CASE Fail
  BY <1>4, Fails
<1>5. ASSUME NEW k \in DOMAIN conts, continuation(k)  PROVE WindInv'
  BY <1>5, Jumps
<1>6. CASE UNCHANGED vars
  <2>1. /\ UNCHANGED <<conts, windings, entered, active, stack, stuck>>
        /\ Known(active, entered)
        /\ Sound(stack, Windings(active), conts, windings, Once)
        /\ Once => ~stuck
    BY <1>6 DEF vars, WindInv
  <2> QED BY <2>1, KeepsAll
<1> QED BY <1>1, <1>2, <1>3, <1>4, <1>5, <1>6 DEF Next

(* At each point of the program there is a sequence of what the frames are *)
(* inside of that ends in the active windings, for the running code and    *)
(* for every continuation that call/cc of init.scm has made.               *)
THEOREM WindInvariant == Spec => []WindInv
<1>1. Init => WindInv
  BY WindInvInit
<1>2. WindInv /\ [Next]_vars => WindInv'
  BY WindInvStep
<1> QED BY <1>1, <1>2, PTL DEF Spec

(* *active-windings* of init.scm is always what the running code is inside *)
(* of: dynamic-wind and set-active-windings! run each before, thunk and    *)
(* after within the windings made around it, however often continuations   *)
(* are entered, from thunks too, and whatever fails.                       *)
THEOREM WindingsOfStackTheorem == Spec => []WindingsOfStack
<1>1. WindInv => WindingsOfStack
  <2> SUFFICES ASSUME WindInv  PROVE WindingsOfStack
    OBVIOUS
  <2>1. Sound(stack, Windings(active), conts, windings, Once)
    BY DEF WindInv
  <2> QED BY <2>1, InsideIs DEF WindingsOfStack
<1> QED BY <1>1, WindInvariant, PTL

(* pop-many of set-active-windings! does not run into the end of the list, *)
(* as long as no winding has been entered a second time: the cells that it *)
(* is to stop at, found by shared-tail when the jump began, stay below the *)
(* ones that it takes away.                                                *)
THEOREM PopsEndAtFirstTheorem == Spec => []PopsEndAtFirst
<1>1. WindInv => PopsEndAtFirst
  BY DEF WindInv, PopsEndAtFirst
<1> QED BY <1>1, WindInvariant, PTL

=============================================================================
