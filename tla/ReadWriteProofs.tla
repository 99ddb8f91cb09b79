-------------------------- MODULE ReadWriteProofs --------------------------
(***************************************************************************)
(* What write prints can be read: proofs for data, texts and cuts of any   *)
(* size.  First induction and sequences, then what the operators of Ports, *)
(* Printer and Reader give, then the places of the printer in its text,    *)
(* then the machine.  What the reader makes of the text is in the module   *)
(* ReadBackProofs.                                                         *)
(***************************************************************************)
EXTENDS ReadWrite, FiniteSetTheorems, SequenceTheorems, WellFoundedInduction, TLAPS

---------------------------------------------------------------------------
(* Induction, and functions that are defined by a step.                    *)

(* A set of natural numbers has a least element: the intervals 0..m are    *)
(* well-founded under strict inclusion.                                    *)
LEMMA Least ==
  ASSUME NEW S, S \subseteq Nat, S # {}
  PROVE  \E m \in S : \A k \in S : m <= k
<1> DEFINE Below == {0 .. m : m \in S}
<1>1. Below \subseteq FiniteSubsetsOf(Nat) /\ Below # {}
  <2>1. ASSUME NEW m \in S  PROVE 0 .. m \in FiniteSubsetsOf(Nat)
    <3>1. IsFiniteSet(0 .. m)
      BY FS_Interval
    <3> QED BY <3>1 DEF FiniteSubsetsOf
  <2> QED BY <2>1
<1>2. \E x \in Below : \A y \in Below : ~ (<<y, x>> \in StrictSubsetOrdering(Nat))
  <2> HIDE DEF Below
  <2> QED BY <1>1, WFMin, FS_StrictSubsetOrderingWellFounded
<1>3. PICK m \in S : \A y \in Below : ~ (<<y, 0 .. m>> \in StrictSubsetOrdering(Nat))
  BY <1>2
<1>4. ASSUME NEW k \in S, ~ (m <= k)  PROVE FALSE
  <2>1. /\ 0 .. k \subseteq 0 .. m
        /\ m \in 0 .. m /\ m \notin 0 .. k
    BY <1>4
  <2>2. <<0 .. k, 0 .. m>> \in (SUBSET Nat) \X (SUBSET Nat)
    OBVIOUS
  <2>3. <<0 .. k, 0 .. m>> \in StrictSubsetOrdering(Nat)
    BY <2>1, <2>2 DEF StrictSubsetOrdering
  <2> QED BY <1>3, <2>3
<1> QED BY <1>4

(* Induction, for a set instead of a predicate.                            *)
LEMMA UpTo ==
  ASSUME NEW N \in Nat, NEW S, 0 \in S, \A n \in 1 .. N : n - 1 \in S => n \in S
  PROVE  \A n \in 0 .. N : n \in S
<1> DEFINE Bad == {n \in 0 .. N : n \notin S}
<1>1. SUFFICES ASSUME Bad # {}  PROVE FALSE
  OBVIOUS
<1>2. PICK m \in Bad : \A n \in Bad : m <= n
  <2>1. Bad \subseteq Nat
    OBVIOUS
  <2> HIDE DEF Bad
  <2> QED BY <1>1, <2>1, Least
<1>3. m \in 1 .. N /\ m - 1 \in 0 .. N /\ ~(m <= m - 1)
  OBVIOUS
<1>4. m - 1 \in S
  BY <1>2, <1>3
<1> QED BY <1>3, <1>4

---------------------------------------------------------------------------
(* Sequences, of whatever there is.                                        *)

IsSeq(s) == \E X : s \in Seq(X)

LEMMA SeqLen ==
  ASSUME NEW s, IsSeq(s)
  PROVE  Len(s) \in Nat /\ DOMAIN s = 1 .. Len(s)
BY LenProperties DEF IsSeq

(* Two sequences have a set in common.                                     *)
LEMMA SeqBoth ==
  ASSUME NEW s, IsSeq(s), NEW t, IsSeq(t)
  PROVE  \E X : s \in Seq(X) /\ t \in Seq(X)
<1>1. PICK X, Y : s \in Seq(X) /\ t \in Seq(Y)
  BY DEF IsSeq
<1>2. s \in Seq(X \cup Y) /\ t \in Seq(X \cup Y)
  BY <1>1, SeqMonotonic
<1> QED BY <1>2

LEMMA SeqEmpty == IsSeq(<< >>) /\ Len(<< >>) = 0
<1>1. << >> \in Seq({})
  OBVIOUS
<1> QED BY <1>1 DEF IsSeq

LEMMA SeqOne ==
  ASSUME NEW x
  PROVE  IsSeq(<<x>>) /\ Len(<<x>>) = 1 /\ <<x>>[1] = x /\ <<x>> # << >>
<1>1. <<x>> \in Seq({x})
  OBVIOUS
<1> QED BY <1>1 DEF IsSeq

LEMMA SeqTwo ==
  ASSUME NEW x, NEW y
  PROVE  IsSeq(<<x, y>>) /\ Len(<<x, y>>) = 2 /\ <<x, y>>[1] = x /\ <<x, y>>[2] = y
<1>1. <<x, y>> \in Seq({x, y})
  OBVIOUS
<1> QED BY <1>1 DEF IsSeq

LEMMA SeqThree ==
  ASSUME NEW x, NEW y, NEW z
  PROVE  /\ IsSeq(<<x, y, z>>) /\ Len(<<x, y, z>>) = 3
         /\ <<x, y, z>>[1] = x /\ <<x, y, z>>[2] = y /\ <<x, y, z>>[3] = z
<1>1. <<x, y, z>> \in Seq({x, y, z})
  OBVIOUS
<1> QED BY <1>1 DEF IsSeq

LEMMA SeqConcat ==
  ASSUME NEW s, IsSeq(s), NEW t, IsSeq(t)
  PROVE  /\ IsSeq(s \o t) /\ Len(s) \in Nat /\ Len(t) \in Nat /\ Len(s \o t) = Len(s) + Len(t)
         /\ \A j \in 1 .. Len(s) : (s \o t)[j] = s[j]
         /\ \A j \in 1 .. Len(t) : (s \o t)[Len(s) + j] = t[j]
<1>1. PICK X : s \in Seq(X) /\ t \in Seq(X)
  BY SeqBoth
<1>2. s \o t \in Seq(X)
  BY <1>1
<1> QED BY <1>1, <1>2 DEF IsSeq

LEMMA SeqAssoc ==
  ASSUME NEW s, IsSeq(s), NEW t, IsSeq(t), NEW u, IsSeq(u)
  PROVE  (s \o t) \o u = s \o (t \o u)
<1>1. PICK X : s \in Seq(X) /\ t \in Seq(X)
  BY SeqBoth
<1>2. PICK Y : u \in Seq(Y)
  BY DEF IsSeq
<1>3. s \in Seq(X \cup Y) /\ t \in Seq(X \cup Y) /\ u \in Seq(X \cup Y)
  BY <1>1, <1>2, SeqMonotonic
<1> QED BY <1>3, ConcatAssociative

LEMMA SeqSame ==
  ASSUME NEW s, IsSeq(s), NEW t, IsSeq(t), Len(s) = Len(t), \A i \in 1 .. Len(s) : s[i] = t[i]
  PROVE  s = t
<1>1. PICK X : s \in Seq(X) /\ t \in Seq(X)
  BY SeqBoth
<1> QED BY <1>1, SeqEqual

LEMMA SeqNone ==
  ASSUME NEW s, IsSeq(s)
  PROVE  s \o << >> = s /\ << >> \o s = s /\ (Len(s) = 0 <=> s = << >>)
<1>1. PICK X : s \in Seq(X)
  BY DEF IsSeq
<1>2. s \o << >> = s /\ << >> \o s = s
  BY <1>1, ConcatEmptySeq
<1> QED BY <1>1, <1>2

(* A part of a sequence, from i + 1 on.                                    *)
LEMMA SeqPart ==
  ASSUME NEW s, IsSeq(s), NEW i \in Nat, NEW k \in Nat, i <= k, k <= Len(s)
  PROVE  /\ IsSeq(SubSeq(s, i + 1, k)) /\ Len(SubSeq(s, i + 1, k)) = k - i
         /\ \A j \in 1 .. (k - i) : SubSeq(s, i + 1, k)[j] = s[i + j]
<1>1. PICK X : s \in Seq(X)
  BY DEF IsSeq
<1>2. SubSeq(s, i + 1, k) \in Seq(X)
  BY <1>1
<1>3. Len(SubSeq(s, i + 1, k)) = k - i
  BY <1>1
<1>4. \A j \in 1 .. (k - i) : SubSeq(s, i + 1, k)[j] = s[i + j]
  BY <1>1
<1> QED BY <1>2, <1>3, <1>4 DEF IsSeq

LEMMA SeqFront ==
  ASSUME NEW s, IsSeq(s), NEW k \in 0 .. Len(s)
  PROVE  /\ IsSeq(SubSeq(s, 1, k)) /\ Len(SubSeq(s, 1, k)) = k
         /\ \A j \in 1 .. k : SubSeq(s, 1, k)[j] = s[j]
<1>1. PICK X : s \in Seq(X)
  BY DEF IsSeq
<1>2. SubSeq(s, 1, k) \in Seq(X)
  BY <1>1
<1> QED BY <1>1, <1>2 DEF IsSeq

LEMMA SeqAll ==
  ASSUME NEW s, IsSeq(s)
  PROVE  SubSeq(s, 1, Len(s)) = s
BY SubSeqFull DEF IsSeq

LEMMA Pushed ==
  ASSUME NEW s, IsSeq(s), NEW x
  PROVE  /\ IsSeq(<<x>> \o s) /\ <<x>> \o s # << >>
         /\ Head(<<x>> \o s) = x /\ Tail(<<x>> \o s) = s
         /\ Len(<<x>> \o s) = Len(s) + 1 /\ Len(s) \in Nat
         /\ (<<x>> \o s)[1] = x
         /\ \A k \in 1 .. Len(s) : (<<x>> \o s)[k + 1] = s[k]
<1>1. PICK X : s \in Seq(X)
  BY DEF IsSeq
<1>2. s \in Seq(X \cup {x}) /\ <<x>> \in Seq(X \cup {x})
  BY <1>1
<1>3. <<x>> \o s \in Seq(X \cup {x})
  BY <1>2
<1>4. IsSeq(<<x>> \o s)
  BY <1>3 DEF IsSeq
<1> QED BY <1>2, <1>4

(* A stack is pushed in one way.                                           *)
LEMMA PushedOnce ==
  ASSUME NEW s, IsSeq(s), NEW x, NEW t, IsSeq(t), NEW y, <<x>> \o s = <<y>> \o t
  PROVE  x = y /\ s = t
<1>1. Head(<<x>> \o s) = x /\ Tail(<<x>> \o s) = s
  BY Pushed
<1>2. Head(<<y>> \o t) = y /\ Tail(<<y>> \o t) = t
  BY Pushed
<1> QED BY <1>1, <1>2

LEMMA FunctionIsSeq ==
  ASSUME NEW n \in Nat, NEW s, DOMAIN s = 1 .. n, s = [k \in 1 .. n |-> s[k]]
  PROVE  IsSeq(s) /\ Len(s) = n
<1>1. s \in [1 .. n -> {s[k] : k \in 1 .. n}]
  OBVIOUS
<1>2. PICK X : s \in [1 .. n -> X]
  BY <1>1
<1>3. s \in Seq(X) /\ Len(s) = n
  BY <1>2
<1> QED BY <1>3 DEF IsSeq

LEMMA OneMore ==
  ASSUME NEW T, IsSeq(T), NEW s, IsSeq(s), NEW k \in 1 .. Len(s)
  PROVE  (T \o SubSeq(s, 1, k - 1)) \o <<s[k]>> = T \o SubSeq(s, 1, k)
<1>0. k \in 0 .. Len(s) /\ k - 1 \in 0 .. Len(s) /\ Len(s) \in Nat
  BY SeqLen
<1> DEFINE a == SubSeq(s, 1, k - 1)
           b == SubSeq(s, 1, k)
<1>1. IsSeq(a) /\ Len(a) = k - 1 /\ \A j \in 1 .. k - 1 : a[j] = s[j]
  BY <1>0, SeqFront
<1>2. IsSeq(b) /\ Len(b) = k /\ \A j \in 1 .. k : b[j] = s[j]
  BY <1>0, SeqFront
<1> HIDE DEF a, b
<1>3. a \o <<s[k]>> = b
  <2> DEFINE c == a \o <<s[k]>>
  <2>1. /\ IsSeq(c) /\ Len(c) = Len(a) + 1 /\ \A j \in 1 .. Len(a) : c[j] = a[j]
        /\ c[Len(a) + 1] = s[k]
    <3>1. PICK u : u = <<s[k]>>
      OBVIOUS
    <3>2. IsSeq(u) /\ Len(u) = 1 /\ u[1] = s[k]
      BY <3>1, SeqOne
    <3>3. /\ IsSeq(a \o u) /\ Len(a \o u) = Len(a) + 1 /\ \A j \in 1 .. Len(a) : (a \o u)[j] = a[j]
          /\ (a \o u)[Len(a) + 1] = s[k]
      <4>1. /\ IsSeq(a \o u) /\ Len(a \o u) = Len(a) + Len(u) /\ \A j \in 1 .. Len(a) : (a \o u)[j] = a[j]
            /\ \A j \in 1 .. Len(u) : (a \o u)[Len(a) + j] = u[j]
        <5>1. IsSeq(a) /\ IsSeq(u)
          BY <1>1, <3>2
        <5> QED BY ONLY <5>1, SeqConcat
      <4>2. 1 \in 1 .. Len(u)
        BY <3>2
      <4> QED BY <3>2, <4>1, <4>2
    <3> QED BY <3>1, <3>3
  <2> HIDE DEF c
  <2>2. Len(c) = Len(b) /\ \A j \in 1 .. Len(c) : c[j] = b[j]
    BY <1>0, <1>1, <1>2, <2>1
  <2>3. c = b
    BY <1>2, <2>1, <2>2, SeqSame
  <2> QED BY <2>3 DEF c
<1>4. (T \o a) \o <<s[k]>> = T \o (a \o <<s[k]>>)
  <2>1. PICK u : u = <<s[k]>>
    OBVIOUS
  <2>2. IsSeq(u)
    BY <2>1, SeqOne
  <2>3. (T \o a) \o u = T \o (a \o u)
    BY <1>1, <2>2, SeqAssoc
  <2> QED BY <2>1, <2>3
<1> QED BY <1>3, <1>4 DEF a, b

(* What a text has from an offset on.                                      *)
Slice(T, i, t) ==
  /\ i + Len(t) <= Len(T)
  /\ \A j \in 1 .. Len(t) : T[i + j] = t[j]

LEMMA SliceOfConcat ==
  ASSUME NEW s, IsSeq(s), NEW t, IsSeq(t), NEW T, IsSeq(T), NEW i \in Nat, Slice(T, i, s \o t)
  PROVE  Slice(T, i, s) /\ Slice(T, i + Len(s), t)
<1>1. /\ Len(s \o t) = Len(s) + Len(t) /\ Len(s) \in Nat /\ Len(t) \in Nat /\ Len(T) \in Nat
      /\ \A j \in 1 .. Len(s) : (s \o t)[j] = s[j]
      /\ \A j \in 1 .. Len(t) : (s \o t)[Len(s) + j] = t[j]
  BY SeqConcat, SeqLen
<1>2. ASSUME NEW j \in 1 .. Len(t)  PROVE T[i + Len(s) + j] = t[j]
  <2>1. Len(s) + j \in 1 .. Len(s \o t)
    BY <1>1
  <2>2. T[i + (Len(s) + j)] = t[j]
    BY <1>1, <2>1 DEF Slice
  <2>3. i + (Len(s) + j) = i + Len(s) + j
    BY <1>1
  <2> QED BY <2>2, <2>3
<1>3. i + Len(s) + Len(t) <= Len(T)
  BY <1>1 DEF Slice
<1>4. ASSUME NEW j \in 1 .. Len(s)  PROVE T[i + j] = s[j]
  BY <1>1 DEF Slice
<1> QED BY <1>1, <1>2, <1>3, <1>4 DEF Slice

(* A text that grows keeps what it has.                                    *)
LEMMA SliceStays ==
  ASSUME NEW T, IsSeq(T), NEW u, IsSeq(u), NEW i \in Nat, NEW t, IsSeq(t), Slice(T, i, t)
  PROVE  Slice(T \o u, i, t)
<1>1. Len(t) \in Nat
  BY SeqLen
<1>2. Len(T \o u) = Len(T) + Len(u) /\ Len(T) \in Nat /\ Len(u) \in Nat
      /\ \A j \in 1 .. Len(T) : (T \o u)[j] = T[j]
  BY SeqConcat
<1>3. ASSUME NEW j \in 1 .. Len(t)  PROVE (T \o u)[i + j] = t[j]
  <2>1. i + j \in 1 .. Len(T)
    BY <1>1, <1>2 DEF Slice
  <2> QED BY <1>2, <2>1 DEF Slice
<1> QED BY <1>1, <1>2, <1>3 DEF Slice

LEMMA SliceAdded ==
  ASSUME NEW T, IsSeq(T), NEW u, IsSeq(u)
  PROVE  Slice(T \o u, Len(T), u)
BY SeqConcat DEF Slice
---------------------------------------------------------------------------
(* Ports.                                                                  *)

PortOK(p) ==
  /\ p = [kind |-> p.kind, start |-> p.start, curr |-> p.curr, past_the_end |-> p.past_the_end]
  /\ IsSeq(p.start) /\ p.past_the_end = Len(p.start)
  /\ p.curr \in 0 .. p.past_the_end

Grows(p) == PortOK(p) /\ "srfi6" \in p.kind

LEMMA BlanksAre == IsSeq(Blanks(BLOCK_SIZE)) /\ Len(Blanks(BLOCK_SIZE)) = BLOCK_SIZE /\ BLOCK_SIZE \in Nat
<1>1. BLOCK_SIZE \in Nat
  BY PortsAssumption
<1>2. PICK b : b = Blanks(BLOCK_SIZE)
  OBVIOUS
<1>3. DOMAIN b = 1 .. BLOCK_SIZE /\ b = [k \in 1 .. BLOCK_SIZE |-> b[k]]
  BY <1>2 DEF Blanks
<1>4. IsSeq(b) /\ Len(b) = BLOCK_SIZE
  BY ONLY <1>1, <1>3, FunctionIsSeq
<1> QED BY <1>1, <1>2, <1>4

LEMMA Outputs ==
  ASSUME NEW p, PortOK(p)
  PROVE  /\ IsSeq(get_output_string(p)) /\ Len(get_output_string(p)) = p.curr
         /\ \A j \in 1 .. p.curr : get_output_string(p)[j] = p.start[j]
<1>1. IsSeq(p.start) /\ p.curr \in 0 .. Len(p.start)
  BY DEF PortOK
<1> QED BY <1>1, SeqFront DEF get_output_string

LEMMA PutCharacter ==
  ASSUME NEW p, Grows(p), NEW c, NEW q, q = putcharacter(p, c)
  PROVE  /\ Grows(q) /\ q.curr = p.curr + 1
         /\ get_output_string(q) = get_output_string(p) \o <<c>>
<1>0. p.curr \in Nat /\ Len(p.start) \in Nat /\ p.curr <= p.past_the_end /\ p.past_the_end = Len(p.start)
      /\ IsSeq(p.start)
      /\ p = [kind |-> p.kind, start |-> p.start, curr |-> p.curr, past_the_end |-> p.past_the_end]
  <2>1. Len(p.start) \in Nat
    BY SeqLen DEF Grows, PortOK
  <2> QED BY <2>1 DEF Grows, PortOK
<1> DEFINE r == IF p.curr = p.past_the_end THEN realloc_port_string(p) ELSE p
<1>1. /\ IsSeq(r.start) /\ r.past_the_end = Len(r.start) /\ r.curr = p.curr /\ r.kind = p.kind
      /\ r.curr + 1 \in 1 .. Len(r.start) /\ Len(r.start) \in Nat
      /\ \A j \in 1 .. p.curr : r.start[j] = p.start[j]
      /\ r = [kind |-> r.kind, start |-> r.start, curr |-> r.curr, past_the_end |-> r.past_the_end]
  <2>1. CASE p.curr = p.past_the_end
    <3> DEFINE b == p.start \o Blanks(BLOCK_SIZE)
    <3>1. r = [kind |-> p.kind, start |-> b, curr |-> p.curr, past_the_end |-> p.past_the_end + BLOCK_SIZE]
      BY <1>0, <2>1 DEF realloc_port_string
    <3>2. IsSeq(b) /\ Len(b) = Len(p.start) + BLOCK_SIZE /\ \A j \in 1 .. Len(p.start) : b[j] = p.start[j]
      <4>1. IsSeq(Blanks(BLOCK_SIZE)) /\ Len(Blanks(BLOCK_SIZE)) = BLOCK_SIZE
        BY BlanksAre
      <4>2. /\ IsSeq(b) /\ Len(b) = Len(p.start) + Len(Blanks(BLOCK_SIZE))
            /\ \A j \in 1 .. Len(p.start) : b[j] = p.start[j]
        BY ONLY <1>0, <4>1, SeqConcat
      <4> HIDE DEF b
      <4> QED BY <4>1, <4>2
    <3>3. r.start = b /\ r.curr = p.curr /\ r.kind = p.kind /\ r.past_the_end = p.past_the_end + BLOCK_SIZE
          /\ r = [kind |-> r.kind, start |-> r.start, curr |-> r.curr, past_the_end |-> r.past_the_end]
      BY <3>1
    <3>4. BLOCK_SIZE \in Nat /\ BLOCK_SIZE > 1
      BY PortsAssumption
    <3> HIDE DEF b, r
    <3>5. p.curr + 1 \in 1 .. Len(b) /\ Len(b) \in Nat
      BY <1>0, <2>1, <3>2, <3>4
    <3> QED BY <1>0, <2>1, <3>2, <3>3, <3>4, <3>5
  <2>2. CASE p.curr # p.past_the_end
    <3>1. r = p
      BY <2>2
    <3> HIDE DEF r
    <3> QED BY <1>0, <2>2, <3>1
  <2> QED BY <2>1, <2>2
<1>2. q = [r EXCEPT !.start[r.curr + 1] = c, !.curr = r.curr + 1]
  <2>1. "srfi6" \in p.kind
    BY DEF Grows
  <2>2. r.curr # r.past_the_end
    <3> HIDE DEF r
    <3> QED BY <1>0, <1>1
  <2> QED BY <2>1, <2>2 DEF putcharacter
<1> HIDE DEF r
<1> DEFINE b == [r.start EXCEPT ![r.curr + 1] = c]
<1>3. q = [kind |-> r.kind, start |-> b, curr |-> r.curr + 1, past_the_end |-> r.past_the_end]
  BY <1>1, <1>2
<1>4. /\ IsSeq(b) /\ Len(b) = Len(r.start) /\ b[r.curr + 1] = c
      /\ \A j \in 1 .. Len(r.start) : j # r.curr + 1 => b[j] = r.start[j]
  <2>1. PICK X : r.start \in Seq(X)
    BY <1>1 DEF IsSeq
  <2>2. r.start \in Seq(X \cup {c})
    BY <2>1, SeqMonotonic
  <2>3. c \in X \cup {c}
    OBVIOUS
  <2>4. b \in Seq(X \cup {c}) /\ Len(b) = Len(r.start)
        /\ \A j \in 1 .. Len(r.start) : b[j] = IF j = r.curr + 1 THEN c ELSE r.start[j]
    BY ONLY <1>1, <2>2, <2>3, ExceptSeq
  <2> HIDE DEF b
  <2> QED BY <1>1, <2>4 DEF IsSeq
<1> HIDE DEF b
<1>5. q.kind = p.kind /\ q.start = b /\ q.curr = p.curr + 1 /\ q.past_the_end = r.past_the_end
  BY <1>1, <1>3
<1>6. PortOK(q)
  <2>1. q = [kind |-> q.kind, start |-> q.start, curr |-> q.curr, past_the_end |-> q.past_the_end]
    BY <1>3
  <2>2. IsSeq(q.start) /\ q.past_the_end = Len(q.start) /\ q.curr \in 0 .. q.past_the_end
    BY <1>0, <1>1, <1>4, <1>5
  <2> QED BY <2>1, <2>2 DEF PortOK
<1>7. Grows(q) /\ q.curr = p.curr + 1
  BY <1>5, <1>6 DEF Grows
<1>8. get_output_string(q) = get_output_string(p) \o <<c>>
  <2>1. PICK s, t, u : s = get_output_string(p) /\ t = get_output_string(q) /\ u = <<c>>
    OBVIOUS
  <2>2. IsSeq(s) /\ Len(s) = p.curr /\ \A j \in 1 .. p.curr : s[j] = p.start[j]
    BY <2>1, Outputs DEF Grows
  <2>3. IsSeq(t) /\ Len(t) = q.curr /\ \A j \in 1 .. q.curr : t[j] = q.start[j]
    BY <1>6, <2>1, Outputs
  <2>4. IsSeq(u) /\ Len(u) = 1 /\ u[1] = c
    BY <2>1, SeqOne
  <2>5. /\ IsSeq(s \o u) /\ Len(s \o u) = Len(s) + Len(u)
        /\ \A j \in 1 .. Len(s) : (s \o u)[j] = s[j]
        /\ \A j \in 1 .. Len(u) : (s \o u)[Len(s) + j] = u[j]
    <3>1. IsSeq(s) /\ IsSeq(u)
      BY <2>2, <2>4
    <3> QED BY ONLY <3>1, SeqConcat
  <2>6. ASSUME NEW j \in 1 .. Len(t)  PROVE t[j] = (s \o u)[j]
    <3>1. CASE j \in 1 .. p.curr
      <4>1. j \in 1 .. q.curr /\ j \in 1 .. Len(r.start) /\ j # r.curr + 1
        BY <1>0, <1>1, <1>5, <3>1
      <4> QED BY <1>1, <1>4, <1>5, <2>2, <2>3, <2>5, <3>1, <4>1
    <3>2. CASE j = p.curr + 1
      <4>1. 1 \in 1 .. Len(u) /\ j \in 1 .. q.curr
        BY <2>3, <2>4
      <4>2. t[j] = c
        BY <1>1, <1>4, <1>5, <2>3, <3>2, <4>1
      <4>3. (s \o u)[Len(s) + 1] = u[1]
        BY <2>5, <4>1
      <4> QED BY <2>2, <2>4, <3>2, <4>2, <4>3
    <3>3. p.curr \in Nat /\ Len(t) = p.curr + 1
      BY <1>0, <1>5, <2>3
    <3>4. j \in 1 .. p.curr \/ j = p.curr + 1
      BY <3>3
    <3> QED BY <3>1, <3>2, <3>4
  <2>7. t = s \o u
    <3>1. Len(t) = Len(s \o u)
      BY <1>5, <2>2, <2>3, <2>4, <2>5
    <3> QED BY <2>3, <2>5, <2>6, <3>1, SeqSame
  <2> QED BY <2>1, <2>7
<1> QED BY <1>7, <1>8

(* What putstr has put of a text.                                          *)
LEMMA PutExists ==
  ASSUME NEW p, NEW s, Len(s) \in Nat
  PROVE  \E f : /\ f = [k \in 0 .. Len(s) |-> f[k]]
                /\ \A k \in 0 .. Len(s) : f[k] = IF k = 0 THEN p ELSE putcharacter(f[k - 1], s[k])
<1> DEFINE Is(f, n) == /\ f = [k \in 0 .. n |-> f[k]]
                       /\ \A k \in 0 .. n : f[k] = IF k = 0 THEN p ELSE putcharacter(f[k - 1], s[k])
           S == {n \in 0 .. Len(s) : \E f : Is(f, n)}
<1>1. 0 \in S
  <2>1. PICK f : f = [k \in 0 .. 0 |-> p]
    OBVIOUS
  <2>2. f = [k \in 0 .. 0 |-> f[k]] /\ \A k \in 0 .. 0 : k = 0 /\ f[k] = p
    BY <2>1
  <2>3. Is(f, 0)
    BY <2>2
  <2> QED BY <2>3
<1>2. ASSUME NEW n \in 1 .. Len(s), n - 1 \in S  PROVE n \in S
  <2>1. PICK f : Is(f, n - 1)
    BY <1>2
  <2>2. PICK h : h = [k \in 0 .. n |-> IF k = n THEN putcharacter(f[n - 1], s[n]) ELSE f[k]]
    OBVIOUS
  <2>3. /\ h = [k \in 0 .. n |-> h[k]] /\ h[n] = putcharacter(f[n - 1], s[n])
        /\ \A k \in 0 .. n : k # n => h[k] = f[k]
    BY <2>2
  <2>4. ASSUME NEW k \in 0 .. n  PROVE h[k] = IF k = 0 THEN p ELSE putcharacter(h[k - 1], s[k])
    <3>1. CASE k = n
      <4>1. h[n - 1] = f[n - 1]
        BY <2>3
      <4> QED BY <2>3, <3>1, <4>1
    <3>2. CASE k # n
      <4>1. k \in 0 .. (n - 1) /\ (k # 0 => k - 1 \in 0 .. n /\ k - 1 # n)
        BY <3>2
      <4>2. f[k] = IF k = 0 THEN p ELSE putcharacter(f[k - 1], s[k])
        BY <2>1, <4>1
      <4> QED BY <2>3, <3>2, <4>1, <4>2
    <3> QED BY <3>1, <3>2
  <2>5. Is(h, n)
    BY ONLY <2>3, <2>4
  <2>6. n \in 0 .. Len(s)
    OBVIOUS
  <2> HIDE DEF Is
  <2> QED BY <2>5, <2>6
<1>3. \A n \in 0 .. Len(s) : n \in S
  <2> HIDE DEF S
  <2> QED BY <1>1, <1>2, UpTo
<1> QED BY <1>3

LEMMA PutStr ==
  ASSUME NEW p, Grows(p), NEW s, IsSeq(s), NEW q, q = putstr(p, s)
  PROVE  /\ Grows(q) /\ q.curr = p.curr + Len(s)
         /\ get_output_string(q) = get_output_string(p) \o s
<1> DEFINE Rec(f) == [k \in 0 .. Len(s) |-> IF k = 0 THEN p ELSE putcharacter(f[k - 1], s[k])]
<1>0. Len(s) \in Nat
  BY SeqLen
<1>1. PICK puts : puts = CHOOSE f : f = Rec(f)
  OBVIOUS
<1>2. puts = Rec(puts) /\ q = puts[Len(s)]
  <2>1. PICK f : /\ f = [k \in 0 .. Len(s) |-> f[k]]
                 /\ \A k \in 0 .. Len(s) : f[k] = IF k = 0 THEN p ELSE putcharacter(f[k - 1], s[k])
    BY ONLY <1>0, PutExists
  <2>2. f = Rec(f)
    BY <2>1
  <2>3. q = puts[Len(s)]
    BY <1>1 DEF putstr
  <2> HIDE DEF Rec
  <2> QED BY <1>1, <2>2, <2>3
<1>3. puts[0] = p /\ \A k \in 1 .. Len(s) : puts[k] = putcharacter(puts[k - 1], s[k])
  <2>1. 0 \in 0 .. Len(s) /\ \A k \in 1 .. Len(s) : k \in 0 .. Len(s) /\ k # 0
    BY <1>0
  <2> QED BY <1>2, <2>1
<1> HIDE DEF Rec
<1>4. PICK T : T = get_output_string(p)
  OBVIOUS
<1>5. IsSeq(T) /\ p.curr \in Nat
  BY <1>4, Outputs DEF Grows, PortOK
<1> DEFINE S == {k \in 0 .. Len(s) : /\ Grows(puts[k]) /\ puts[k].curr = p.curr + k
                                     /\ get_output_string(puts[k]) = T \o SubSeq(s, 1, k)}
<1>6. 0 \in S
  <2>1. SubSeq(s, 1, 0) = << >>
    BY <1>0, SeqFront, SeqNone
  <2>2. T \o SubSeq(s, 1, 0) = T
    BY <1>5, <2>1, SeqNone
  <2> QED BY <1>0, <1>3, <1>4, <1>5, <2>2
<1>7. ASSUME NEW k \in 1 .. Len(s), k - 1 \in S  PROVE k \in S
  <2>1. puts[k] = putcharacter(puts[k - 1], s[k])
    BY <1>3
  <2>2. /\ Grows(puts[k - 1]) /\ puts[k - 1].curr = p.curr + (k - 1)
        /\ get_output_string(puts[k - 1]) = T \o SubSeq(s, 1, k - 1)
    BY <1>7
  <2> HIDE DEF S
  <2>3. Grows(puts[k]) /\ puts[k].curr = puts[k - 1].curr + 1
        /\ get_output_string(puts[k]) = get_output_string(puts[k - 1]) \o <<s[k]>>
    BY ONLY <2>1, <2>2, PutCharacter
  <2>4. (T \o SubSeq(s, 1, k - 1)) \o <<s[k]>> = T \o SubSeq(s, 1, k)
    BY <1>5, OneMore
  <2>5. get_output_string(puts[k]) = T \o SubSeq(s, 1, k)
    BY <2>2, <2>3, <2>4
  <2>6. puts[k].curr = p.curr + k /\ k \in 0 .. Len(s)
    BY <1>0, <1>5, <2>2, <2>3
  <2> QED BY <2>3, <2>5, <2>6 DEF S
<1>8. Len(s) \in S
  <2>1. \A k \in 0 .. Len(s) : k \in S
    <3> HIDE DEF S
    <3> QED BY <1>0, <1>6, <1>7, UpTo
  <2> QED BY <1>0, <2>1
<1>9. SubSeq(s, 1, Len(s)) = s
  BY SeqAll
<1> QED BY <1>2, <1>4, <1>8, <1>9
---------------------------------------------------------------------------
(* What the printer writes for an atom.                                    *)

LEMMA DigitsAre ==
  /\ DOMAIN Digits = 1 .. 10
  /\ \A k \in 1 .. 10 : IsDigit(Digits[k]) /\ DigitValue(Digits[k]) = k - 1
<1>1. DOMAIN Digits = 1 .. 10
  BY DEF Digits
<1>2. \A k \in 1 .. 10 : IsDigit(Digits[k])
  BY <1>1 DEF IsDigit
<1>3. ASSUME NEW k \in 1 .. 10, NEW l \in 1 .. 10, Digits[k] = Digits[l]  PROVE k = l
  <2>1. /\ Digits[1] = "0" /\ Digits[2] = "1" /\ Digits[3] = "2" /\ Digits[4] = "3" /\ Digits[5] = "4"
        /\ Digits[6] = "5" /\ Digits[7] = "6" /\ Digits[8] = "7" /\ Digits[9] = "8" /\ Digits[10] = "9"
    BY DEF Digits
  <2>2. /\ k \in {1, 2, 3, 4, 5, 6, 7, 8, 9, 10} /\ l \in {1, 2, 3, 4, 5, 6, 7, 8, 9, 10}
    OBVIOUS
  <2> QED BY <1>3, <2>1, <2>2
<1>4. ASSUME NEW k \in 1 .. 10  PROVE DigitValue(Digits[k]) = k - 1
  <2>1. PICK c : c = Digits[k]
    OBVIOUS
  <2>2. (CHOOSE j \in DOMAIN Digits : Digits[j] = c) = k
    <3>1. PICK m : m = CHOOSE j \in DOMAIN Digits : Digits[j] = c
      OBVIOUS
    <3>2. m \in DOMAIN Digits /\ Digits[m] = c
      BY <1>1, <2>1, <3>1
    <3> QED BY <1>1, <1>3, <2>1, <3>1, <3>2
  <2> QED BY <2>1, <2>2 DEF DigitValue
<1> QED BY <1>1, <1>2, <1>4

LEMMA SeqFour ==
  ASSUME NEW x, NEW y, NEW z, NEW w
  PROVE  /\ IsSeq(<<x, y, z, w>>) /\ Len(<<x, y, z, w>>) = 4
         /\ <<x, y, z, w>>[1] = x /\ <<x, y, z, w>>[2] = y
         /\ <<x, y, z, w>>[3] = z /\ <<x, y, z, w>>[4] = w
<1>1. <<x, y, z, w>> \in Seq({x, y, z, w})
  OBVIOUS
<1> QED BY <1>1 DEF IsSeq

LEMMA TwoAndTwo ==
  ASSUME NEW x, NEW y, NEW z, NEW w
  PROVE  <<x, y>> \o <<z, w>> = <<x, y, z, w>>
<1>1. PICK s, t, u : s = <<x, y>> /\ t = <<z, w>> /\ u = <<x, y, z, w>>
  OBVIOUS
<1>2. IsSeq(s) /\ Len(s) = 2 /\ s[1] = x /\ s[2] = y
  BY <1>1, SeqTwo
<1>3. IsSeq(t) /\ Len(t) = 2 /\ t[1] = z /\ t[2] = w
  BY <1>1, SeqTwo
<1>4. IsSeq(u) /\ Len(u) = 4 /\ u[1] = x /\ u[2] = y /\ u[3] = z /\ u[4] = w
  BY <1>1, SeqFour
<1>5. /\ IsSeq(s \o t) /\ Len(s \o t) = Len(s) + Len(t)
      /\ \A j \in 1 .. Len(s) : (s \o t)[j] = s[j]
      /\ \A j \in 1 .. Len(t) : (s \o t)[Len(s) + j] = t[j]
  <2>1. IsSeq(s) /\ IsSeq(t)
    BY <1>2, <1>3
  <2> QED BY ONLY <2>1, SeqConcat
<1>6. /\ Len(s \o t) = 4 /\ (s \o t)[1] = x /\ (s \o t)[2] = y
      /\ (s \o t)[3] = z /\ (s \o t)[4] = w
  <2>1. 1 \in 1 .. Len(s) /\ 2 \in 1 .. Len(s) /\ 1 \in 1 .. Len(t) /\ 2 \in 1 .. Len(t)
    BY <1>2, <1>3
  <2>2. (s \o t)[2 + 1] = z /\ (s \o t)[2 + 2] = w
    BY <1>2, <1>3, <1>5, <2>1
  <2> QED BY <1>2, <1>3, <1>5, <2>1, <2>2
<1>7. \A i \in 1 .. Len(u) : u[i] = (s \o t)[i]
  <2>1. \A i \in 1 .. 4 : i = 1 \/ i = 2 \/ i = 3 \/ i = 4
    OBVIOUS
  <2> QED BY <1>4, <1>6, <2>1
<1>8. u = s \o t
  BY <1>4, <1>5, <1>6, <1>7, SeqSame
<1> QED BY <1>1, <1>8

LEMMA EscapedIs ==
  ASSUME NEW c
  PROVE  /\ c \in {DOUBLEQUOTE, "\\"} => Escaped(c) = <<"\\", c>>
         /\ c = "\n" => Escaped(c) = <<"\\", "n">>
         /\ c = "\t" => Escaped(c) = <<"\\", "t">>
         /\ c = "\r" => Escaped(c) = <<"\\", "r">>
         /\ c \in HexEscape => Escaped(c) = <<"\\", "x", HexPair(Code(c))[1], HexPair(Code(c))[2]>>
         /\ c \notin NamedEscape \cup HexEscape => Escaped(c) = <<c>>
<1>1. DOUBLEQUOTE # "\\" /\ DOUBLEQUOTE # "\n" /\ DOUBLEQUOTE # "\t" /\ DOUBLEQUOTE # "\r" /\ "\\" # "\n" /\ "\\" # "\t"
      /\ "\\" # "\r" /\ "\n" # "\t" /\ "\n" # "\r" /\ "\t" # "\r"
  BY DEF DOUBLEQUOTE
<1>2. c \in HexEscape => c \notin NamedEscape
  BY DEF HexEscape
<1>3. c \in {DOUBLEQUOTE, "\\"} => Escaped(c) = <<"\\", c>>
  BY <1>1, <1>2 DEF Escaped, NamedEscape
<1>4. /\ c = "\n" => Escaped(c) = <<"\\", "n">>
      /\ c = "\t" => Escaped(c) = <<"\\", "t">>
      /\ c = "\r" => Escaped(c) = <<"\\", "r">>
  BY <1>1, <1>2 DEF Escaped, NamedEscape
<1>5. ASSUME c \in HexEscape
      PROVE  Escaped(c) = <<"\\", "x", HexPair(Code(c))[1], HexPair(Code(c))[2]>>
  <2>1. Escaped(c) = <<"\\", "x">> \o HexPair(Code(c))
    BY <1>2, <1>5 DEF Escaped, NamedEscape
  <2>2. HexPair(Code(c)) = <<HexPair(Code(c))[1], HexPair(Code(c))[2]>>
    BY DEF HexPair
  <2>4. PICK x, y : x = HexPair(Code(c))[1] /\ y = HexPair(Code(c))[2]
    OBVIOUS
  <2>3. <<"\\", "x">> \o <<x, y>> = <<"\\", "x", x, y>>
    BY TwoAndTwo
  <2> QED BY <2>1, <2>2, <2>3, <2>4
<1>6. c \notin NamedEscape \cup HexEscape => Escaped(c) = <<c>>
  BY <1>2 DEF Escaped, NamedEscape
<1> QED BY <1>3, <1>4, <1>5, <1>6

LEMMA EscapedSeq ==
  ASSUME NEW c
  PROVE  IsSeq(Escaped(c))
<1>1. CASE c \in HexEscape
  <2>1. PICK x, y : x = HexPair(Code(c))[1] /\ y = HexPair(Code(c))[2]
    OBVIOUS
  <2>2. Escaped(c) = <<"\\", "x", x, y>>
    BY <1>1, <2>1, EscapedIs
  <2> QED BY <2>2, SeqFour
<1>2. CASE c \in NamedEscape
  <2>1. \E x : Escaped(c) = <<"\\", x>>
    BY <1>2, EscapedIs DEF NamedEscape
  <2> QED BY <2>1, SeqTwo
<1>3. CASE c \notin NamedEscape \cup HexEscape
  BY <1>3, EscapedIs, SeqOne
<1> QED BY <1>1, <1>2, <1>3

(* What printslashstring has written after so many characters.             *)
LEMMA EscapesExist ==
  ASSUME NEW s, Len(s) \in Nat
  PROVE  \E f : /\ f = [k \in 0 .. Len(s) |-> f[k]]
                /\ \A k \in 0 .. Len(s) : f[k] = IF k = 0 THEN << >> ELSE f[k - 1] \o Escaped(s[k])
<1> DEFINE Is(f, n) == /\ f = [k \in 0 .. n |-> f[k]]
                       /\ \A k \in 0 .. n : f[k] = IF k = 0 THEN << >> ELSE f[k - 1] \o Escaped(s[k])
           S == {n \in 0 .. Len(s) : \E f : Is(f, n)}
<1>1. 0 \in S
  <2>1. PICK f : f = [k \in 0 .. 0 |-> << >>]
    OBVIOUS
  <2>2. f = [k \in 0 .. 0 |-> f[k]] /\ \A k \in 0 .. 0 : k = 0 /\ f[k] = << >>
    BY <2>1
  <2>3. Is(f, 0)
    BY <2>2
  <2> QED BY <2>3
<1>2. ASSUME NEW n \in 1 .. Len(s), n - 1 \in S  PROVE n \in S
  <2>1. PICK f : Is(f, n - 1)
    BY <1>2
  <2>2. PICK h : h = [k \in 0 .. n |-> IF k = n THEN f[n - 1] \o Escaped(s[n]) ELSE f[k]]
    OBVIOUS
  <2>3. /\ h = [k \in 0 .. n |-> h[k]] /\ h[n] = f[n - 1] \o Escaped(s[n])
        /\ \A k \in 0 .. n : k # n => h[k] = f[k]
    BY <2>2
  <2>4. ASSUME NEW k \in 0 .. n  PROVE h[k] = IF k = 0 THEN << >> ELSE h[k - 1] \o Escaped(s[k])
    <3>1. CASE k = n
      <4>1. h[n - 1] = f[n - 1]
        BY <2>3
      <4> QED BY <2>3, <3>1, <4>1
    <3>2. CASE k # n
      <4>1. k \in 0 .. (n - 1) /\ (k # 0 => k - 1 \in 0 .. n /\ k - 1 # n)
        BY <3>2
      <4>2. f[k] = IF k = 0 THEN << >> ELSE f[k - 1] \o Escaped(s[k])
        BY <2>1, <4>1
      <4> QED BY <2>3, <3>2, <4>1, <4>2
    <3> QED BY <3>1, <3>2
  <2>5. Is(h, n)
    BY ONLY <2>3, <2>4
  <2>6. n \in 0 .. Len(s)
    OBVIOUS
  <2> HIDE DEF Is
  <2> QED BY <2>5, <2>6
<1>3. \A n \in 0 .. Len(s) : n \in S
  <2> HIDE DEF S
  <2> QED BY <1>1, <1>2, UpTo
<1> QED BY <1>3

(* e[k] is what is written for the first k characters of s.                *)
Escapes(s, e) ==
  /\ e[0] = << >>
  /\ \A k \in 1 .. Len(s) : e[k] = e[k - 1] \o Escaped(s[k])
  /\ \A k \in 0 .. Len(s) : IsSeq(e[k])

LEMMA PrintedString ==
  ASSUME NEW s, IsSeq(s)
  PROVE  /\ \E e : Escapes(s, e) /\ printslashstring(s) = (<<DOUBLEQUOTE>> \o e[Len(s)]) \o <<DOUBLEQUOTE>>
         /\ IsSeq(printslashstring(s))
<1> DEFINE Rec(f) == [k \in 0 .. Len(s) |-> IF k = 0 THEN << >> ELSE f[k - 1] \o Escaped(s[k])]
<1>0. Len(s) \in Nat
  BY SeqLen
<1>1. PICK e : e = CHOOSE f : f = Rec(f)
  OBVIOUS
<1>2. e = Rec(e) /\ printslashstring(s) = (<<DOUBLEQUOTE>> \o e[Len(s)]) \o <<DOUBLEQUOTE>>
  <2>1. PICK f : /\ f = [k \in 0 .. Len(s) |-> f[k]]
                 /\ \A k \in 0 .. Len(s) : f[k] = IF k = 0 THEN << >> ELSE f[k - 1] \o Escaped(s[k])
    BY ONLY <1>0, EscapesExist
  <2>2. f = Rec(f)
    BY <2>1
  <2>3. printslashstring(s) = (<<DOUBLEQUOTE>> \o e[Len(s)]) \o <<DOUBLEQUOTE>>
    BY <1>1 DEF printslashstring
  <2> HIDE DEF Rec
  <2> QED BY <1>1, <2>2, <2>3
<1>3. e[0] = << >> /\ \A k \in 1 .. Len(s) : e[k] = e[k - 1] \o Escaped(s[k])
  <2>1. 0 \in 0 .. Len(s) /\ \A k \in 1 .. Len(s) : k \in 0 .. Len(s) /\ k # 0
    BY <1>0
  <2> QED BY <1>2, <2>1
<1> HIDE DEF Rec
<1> DEFINE S == {k \in 0 .. Len(s) : IsSeq(e[k])}
<1>4. 0 \in S
  BY <1>0, <1>3, SeqEmpty
<1>5. ASSUME NEW k \in 1 .. Len(s), k - 1 \in S  PROVE k \in S
  <2>1. IsSeq(e[k - 1] \o Escaped(s[k]))
    <3>1. IsSeq(e[k - 1]) /\ IsSeq(Escaped(s[k]))
      BY <1>5, EscapedSeq
    <3> QED BY ONLY <3>1, SeqConcat
  <2>2. IsSeq(e[k])
    BY <1>3, <2>1
  <2> QED BY <1>0, <2>2
<1>6. \A k \in 0 .. Len(s) : k \in S
  <2> HIDE DEF S
  <2> QED BY <1>0, <1>4, <1>5, UpTo
<1>7. Escapes(s, e)
  BY <1>3, <1>6 DEF Escapes
<1>8. IsSeq(printslashstring(s))
  <2>1. Len(s) \in 0 .. Len(s)
    BY <1>0
  <2>2. IsSeq(e[Len(s)]) /\ IsSeq(<<DOUBLEQUOTE>>)
    BY <1>7, <2>1, SeqOne DEF Escapes
  <2>3. IsSeq(<<DOUBLEQUOTE>> \o e[Len(s)])
    BY ONLY <2>2, SeqConcat
  <2>4. IsSeq((<<DOUBLEQUOTE>> \o e[Len(s)]) \o <<DOUBLEQUOTE>>)
    BY ONLY <2>2, <2>3, SeqConcat
  <2> QED BY <1>2, <2>4
<1> QED BY <1>2, <1>7, <1>8

(* f is what atol has of the first j digits of a text.                     *)
Valued(q, f) ==
  /\ f[0] = 0
  /\ \A j \in 1 .. Len(q) : f[j] = 10 * f[j - 1] + DigitValue(q[j])

Numerates(q, n) ==
  /\ IsSeq(q) /\ Len(q) >= 1 /\ \A j \in 1 .. Len(q) : \E k \in 1 .. 10 : q[j] = Digits[k]
  /\ \E f : Valued(q, f) /\ f[Len(q)] = n
LEMMA ByTen ==
  ASSUME NEW n \in Nat, n >= 10
  PROVE  n \div 10 \in 0 .. (n - 1) /\ n % 10 \in 0 .. 9 /\ 10 * (n \div 10) + (n % 10) = n
OBVIOUS

LEMMA OneDigit ==
  ASSUME NEW n \in 0 .. 9
  PROVE  Numerates(<<Digits[n + 1]>>, n)
<1>1. PICK q : q = <<Digits[n + 1]>>
  OBVIOUS
<1>2. IsSeq(q) /\ Len(q) = 1 /\ q[1] = Digits[n + 1]
  BY <1>1, SeqOne
<1>3. PICK f : f = [j \in 0 .. 1 |-> IF j = 0 THEN 0 ELSE n]
  OBVIOUS
<1>4. f[0] = 0 /\ f[1] = n /\ DigitValue(q[1]) = n
  BY <1>2, <1>3, DigitsAre
<1>5. \A j \in 1 .. 1 : j = 1
  OBVIOUS
<1>6. Valued(q, f) /\ f[Len(q)] = n
  BY <1>2, <1>4, <1>5 DEF Valued
<1>7. \A j \in 1 .. Len(q) : \E k \in 1 .. 10 : q[j] = Digits[k]
  BY <1>2, <1>5
<1> QED BY <1>1, <1>2, <1>6, <1>7 DEF Numerates

LEMMA OneDigitMore ==
  ASSUME NEW q, NEW m \in Nat, Numerates(q, m), NEW d \in 0 .. 9
  PROVE  Numerates(q \o <<Digits[d + 1]>>, 10 * m + d)
<1>1. PICK u : u = <<Digits[d + 1]>>
  OBVIOUS
<1>2. IsSeq(u) /\ Len(u) = 1 /\ u[1] = Digits[d + 1]
  BY <1>1, SeqOne
<1>3. IsSeq(q) /\ Len(q) >= 1 /\ \A j \in 1 .. Len(q) : \E k \in 1 .. 10 : q[j] = Digits[k]
  BY DEF Numerates
<1>4. PICK f : Valued(q, f) /\ f[Len(q)] = m
  BY DEF Numerates
<1>5. PICK p : p = q \o u
  OBVIOUS
<1>6. /\ IsSeq(p) /\ Len(q) \in Nat /\ Len(p) = Len(q) + Len(u)
      /\ \A j \in 1 .. Len(q) : p[j] = q[j]
      /\ \A j \in 1 .. Len(u) : p[Len(q) + j] = u[j]
  <2>1. IsSeq(q) /\ IsSeq(u)
    BY <1>2, <1>3
  <2> QED BY ONLY <1>5, <2>1, SeqConcat
<1>7. Len(p) = Len(q) + 1 /\ p[Len(q) + 1] = Digits[d + 1]
  <2>1. 1 \in 1 .. Len(u)
    BY <1>2
  <2> QED BY <1>2, <1>6, <2>1
<1>8. PICK l \in Nat : l = Len(q)
  BY <1>6
<1>9. PICK g : g = [j \in 0 .. (l + 1) |-> IF j = l + 1 THEN 10 * m + d ELSE f[j]]
  OBVIOUS
<1>10. g[l + 1] = 10 * m + d /\ \A j \in 0 .. l : g[j] = f[j]
  BY <1>9
<1>11. Valued(p, g)
  <2>1. g[0] = 0
    BY <1>4, <1>10 DEF Valued
  <2>2. ASSUME NEW j \in 1 .. (l + 1)  PROVE g[j] = 10 * g[j - 1] + DigitValue(p[j])
    <3>1. CASE j = l + 1
      <4>1. DigitValue(p[j]) = d /\ g[j - 1] = m
        <5>1. d + 1 \in 1 .. 10 /\ j - 1 = l /\ l \in 0 .. l
          BY <3>1
        <5>2. DigitValue(Digits[d + 1]) = (d + 1) - 1
          BY <5>1, DigitsAre
        <5> QED BY <1>4, <1>7, <1>8, <1>10, <3>1, <5>1, <5>2
      <4> QED BY <1>10, <3>1, <4>1
    <3>2. CASE j # l + 1
      <4>1. j \in 1 .. l /\ j \in 0 .. l /\ j - 1 \in 0 .. l
        BY <3>2
      <4>2. f[j] = 10 * f[j - 1] + DigitValue(q[j])
        BY <1>4, <1>8, <4>1 DEF Valued
      <4> QED BY <1>6, <1>8, <1>10, <4>1, <4>2
    <3> QED BY <3>1, <3>2
  <2> QED BY <1>7, <1>8, <2>1, <2>2 DEF Valued
<1>12. \A j \in 1 .. Len(p) : \E k \in 1 .. 10 : p[j] = Digits[k]
  <2>1. ASSUME NEW j \in 1 .. Len(p)  PROVE \E k \in 1 .. 10 : p[j] = Digits[k]
    <3>1. j \in 1 .. Len(q) \/ j = Len(q) + 1
      BY <1>6, <1>7
    <3>2. d + 1 \in 1 .. 10
      OBVIOUS
    <3> QED BY <1>3, <1>6, <1>7, <3>1, <3>2
  <2> QED BY <2>1
<1>13. Numerates(p, 10 * m + d)
  BY <1>6, <1>7, <1>8, <1>10, <1>11, <1>12 DEF Numerates
<1> QED BY <1>1, <1>5, <1>13

LEMMA DecimalExists ==
  ASSUME NEW N \in Nat
  PROVE  \E f : /\ f = [k \in 0 .. N |-> f[k]]
                /\ \A k \in 0 .. N : f[k] = IF k < 10 THEN <<Digits[k + 1]>>
                                            ELSE f[k \div 10] \o <<Digits[(k % 10) + 1]>>
<1> DEFINE Is(f, n) == /\ f = [k \in 0 .. n |-> f[k]]
                       /\ \A k \in 0 .. n : f[k] = IF k < 10 THEN <<Digits[k + 1]>>
                                                   ELSE f[k \div 10] \o <<Digits[(k % 10) + 1]>>
           S == {n \in 0 .. N : \E f : Is(f, n)}
<1>1. 0 \in S
  <2>1. PICK f : f = [k \in 0 .. 0 |-> <<Digits[0 + 1]>>]
    OBVIOUS
  <2>2. f = [k \in 0 .. 0 |-> f[k]] /\ \A k \in 0 .. 0 : k = 0 /\ f[k] = <<Digits[0 + 1]>>
    BY <2>1
  <2>3. Is(f, 0)
    BY <2>2
  <2> QED BY <2>3
<1>2. ASSUME NEW n \in 1 .. N, n - 1 \in S  PROVE n \in S
  <2>1. PICK f : Is(f, n - 1)
    BY <1>2
  <2>2. PICK h : h = [k \in 0 .. n |-> IF k # n THEN f[k]
                                       ELSE IF n < 10 THEN <<Digits[n + 1]>>
                                       ELSE f[n \div 10] \o <<Digits[(n % 10) + 1]>>]
    OBVIOUS
  <2>3. /\ h = [k \in 0 .. n |-> h[k]]
        /\ h[n] = IF n < 10 THEN <<Digits[n + 1]>> ELSE f[n \div 10] \o <<Digits[(n % 10) + 1]>>
        /\ \A k \in 0 .. n : k # n => h[k] = f[k]
    BY <2>2
  <2>4. ASSUME NEW k \in 0 .. n, k >= 10  PROVE h[k \div 10] = f[k \div 10]
    <3>1. k \div 10 \in 0 .. (k - 1)
      BY <2>4, ByTen
    <3>2. k \div 10 \in 0 .. n /\ k \div 10 # n
      BY <3>1
    <3> QED BY <2>3, <3>2
  <2>5. ASSUME NEW k \in 0 .. n
        PROVE  h[k] = IF k < 10 THEN <<Digits[k + 1]>> ELSE h[k \div 10] \o <<Digits[(k % 10) + 1]>>
    <3>1. CASE k = n
      <4>1. CASE n < 10
        <5>1. h[n] = <<Digits[n + 1]>>
          BY <2>3, <4>1
        <5>2. h[k] = <<Digits[k + 1]>> /\ k < 10
          BY <3>1, <4>1, <5>1
        <5> QED BY <5>2
      <4>2. CASE n >= 10
        <5>0. ~(n < 10)
          BY <4>2
        <5>1. h[n] = f[n \div 10] \o <<Digits[(n % 10) + 1]>> /\ ~(n < 10)
          BY <2>3, <5>0, Zenon
        <5>2. h[n \div 10] = f[n \div 10]
          BY <2>4, <3>1, <4>2
        <5> QED BY <3>1, <5>1, <5>2
      <4> QED BY <4>1, <4>2
    <3>2. CASE k # n
      <4>1. k \in 0 .. (n - 1)
        BY <3>2
      <4>2. f[k] = IF k < 10 THEN <<Digits[k + 1]>> ELSE f[k \div 10] \o <<Digits[(k % 10) + 1]>>
        BY <2>1, <4>1
      <4>3. h[k] = f[k]
        BY <2>3, <3>2
      <4>4. CASE k < 10
        BY <4>2, <4>3, <4>4
      <4>5. CASE k >= 10
        <5>1. f[k] = f[k \div 10] \o <<Digits[(k % 10) + 1]>> /\ ~(k < 10)
          BY <4>2, <4>5
        <5>2. h[k \div 10] = f[k \div 10]
          BY <2>4, <4>5
        <5> QED BY <4>3, <5>1, <5>2
      <4> QED BY <4>4, <4>5
    <3> QED BY <3>1, <3>2
  <2>6. Is(h, n)
    BY ONLY <2>3, <2>5
  <2>7. n \in 0 .. N
    OBVIOUS
  <2> HIDE DEF Is
  <2> QED BY <2>6, <2>7
<1>3. \A n \in 0 .. N : n \in S
  <2> HIDE DEF S
  <2> QED BY <1>1, <1>2, UpTo
<1> QED BY <1>3

LEMMA DecimalNumerates ==
  ASSUME NEW N \in Nat, NEW f,
         \A k \in 0 .. N : f[k] = IF k < 10 THEN <<Digits[k + 1]>>
                                 ELSE f[k \div 10] \o <<Digits[(k % 10) + 1]>>
  PROVE  \A k \in 0 .. N : Numerates(f[k], k)
<1> DEFINE S == {n \in 0 .. N : \A k \in 0 .. n : Numerates(f[k], k)}
<1>1. 0 \in S
  <2>1. Numerates(f[0], 0)
    BY OneDigit
  <2>2. \A k \in 0 .. 0 : k = 0
    OBVIOUS
  <2> QED BY <2>1, <2>2
<1>2. ASSUME NEW n \in 1 .. N, n - 1 \in S  PROVE n \in S
  <2>1. n \in 0 .. N /\ \A k \in 0 .. (n - 1) : Numerates(f[k], k)
    BY <1>2
  <2>2. Numerates(f[n], n)
    <3>0. f[n] = IF n < 10 THEN <<Digits[n + 1]>> ELSE f[n \div 10] \o <<Digits[(n % 10) + 1]>>
      BY <2>1
    <3>1. CASE n < 10
      <4>1. f[n] = <<Digits[n + 1]>>
        BY ONLY <3>0, <3>1
      <4>2. n \in 0 .. 9
        BY <2>1, <3>1
      <4> QED BY ONLY <4>1, <4>2, OneDigit
    <3>2. CASE n >= 10
      <4>1. PICK m, d : m = n \div 10 /\ d = n % 10
        OBVIOUS
      <4>2. m \in 0 .. (n - 1) /\ d \in 0 .. 9 /\ 10 * m + d = n
        BY <3>2, <4>1, ByTen
      <4>3. f[n] = f[m] \o <<Digits[d + 1]>>
        <5>1. f[n] = f[n \div 10] \o <<Digits[(n % 10) + 1]>>
          BY <3>0, <3>2
        <5> QED BY <4>1, <5>1
      <4>4. Numerates(f[m], m) /\ m \in Nat
        BY <2>1, <4>2
      <4>5. Numerates(f[m] \o <<Digits[d + 1]>>, 10 * m + d)
        BY ONLY <4>2, <4>4, OneDigitMore
      <4> QED BY <4>2, <4>3, <4>5
    <3> QED BY <2>1, <3>1, <3>2
  <2>3. \A k \in 0 .. n : k \in 0 .. (n - 1) \/ k = n
    OBVIOUS
  <2> QED BY <2>1, <2>2, <2>3
<1>3. \A n \in 0 .. N : n \in S
  <2> HIDE DEF S
  <2> QED BY <1>1, <1>2, UpTo
<1> QED BY <1>3

(* The number that is printed in decimal is the number.                    *)
LEMMA DecimalIs ==
  ASSUME NEW n \in Int
  PROVE  \E q : /\ Numerates(q, IF n < 0 THEN -n ELSE n)
                /\ Decimal(n) = IF n < 0 THEN <<"-">> \o q ELSE q
<1>1. PICK N : N = IF n < 0 THEN -n ELSE n
  OBVIOUS
<1>2. N \in Nat
  BY <1>1
<1> DEFINE Rec(f) == [k \in 0 .. N |-> IF k < 10 THEN <<Digits[k + 1]>>
                                       ELSE f[k \div 10] \o <<Digits[(k % 10) + 1]>>]
<1>3. PICK d : d = CHOOSE f : f = Rec(f)
  OBVIOUS
<1>4. d = Rec(d)
  <2>1. PICK f : /\ f = [k \in 0 .. N |-> f[k]]
                 /\ \A k \in 0 .. N : f[k] = IF k < 10 THEN <<Digits[k + 1]>>
                                             ELSE f[k \div 10] \o <<Digits[(k % 10) + 1]>>
    BY <1>2, DecimalExists
  <2>2. f = Rec(f)
    BY <2>1
  <2> HIDE DEF Rec
  <2> QED BY <1>3, <2>2
<1>5. Decimal(n) = IF n < 0 THEN <<"-">> \o d[N] ELSE d[N]
  BY <1>1, <1>3 DEF Decimal
<1>6. \A k \in 0 .. N : d[k] = IF k < 10 THEN <<Digits[k + 1]>>
                                 ELSE d[k \div 10] \o <<Digits[(k % 10) + 1]>>
  BY <1>4
<1> HIDE DEF Rec
<1>7. Numerates(d[N], N)
  <2>1. \A k \in 0 .. N : Numerates(d[k], k)
    BY ONLY <1>2, <1>6, DecimalNumerates
  <2> QED BY <1>2, <2>1
<1> QED BY <1>1, <1>5, <1>7
---------------------------------------------------------------------------
(* Data that can be read, with all that is in them.                        *)

Plain(w) == w.type \in {"nil", "pair", "vector"} \/ Range(atom2str(w)) \cap {"(", ")"} = {}

(* If np, there are no parentheses in the text but those of lists and      *)
(* vectors.                                                                *)
Sound(np, v) ==
  \E S : v \in S /\ \A w \in S : Spelled(w) /\ Children(w) \subseteq S /\ (np => Plain(w))

LEMMA ReadableSound ==
  ASSUME NEW v, Readable(v), NEW np, np => NoParens(v)
  PROVE  Sound(np, v)
<1>1. PICK S : S = Parts(v)
  OBVIOUS
<1>2. v \in S /\ \A w \in S : Spelled(w) /\ Children(w) \subseteq S
  BY <1>1 DEF Readable
<1>3. np => \A w \in S : Plain(w)
  BY <1>1 DEF NoParens, Plain
<1> QED BY <1>2, <1>3 DEF Sound

LEMMA NilSound ==
  ASSUME NEW np
  PROVE  Sound(np, NIL)
<1>1. NIL.type = "nil"
  BY DEF NIL
<1>2. Children(NIL) = {}
  BY <1>1 DEF Children
<1>3. Spelled(NIL) /\ Plain(NIL)
  BY <1>1 DEF Spelled, Plain
<1>4. PICK S : S = {NIL}
  OBVIOUS
<1>5. NIL \in S /\ \A w \in S : Spelled(w) /\ Children(w) \subseteq S /\ (np => Plain(w))
  <2> HIDE DEF NIL
  <2> QED BY <1>2, <1>3, <1>4
<1> QED BY <1>5 DEF Sound

LEMMA SoundAt ==
  ASSUME NEW v, NEW np, Sound(np, v)
  PROVE  Spelled(v) /\ (np => Plain(v)) /\ \A w \in Children(v) : Sound(np, w)
<1>1. PICK S : v \in S /\ \A w \in S : Spelled(w) /\ Children(w) \subseteq S /\ (np => Plain(w))
  BY DEF Sound
<1>2. ASSUME NEW w \in Children(v)  PROVE Sound(np, w)
  BY <1>1 DEF Sound
<1> QED BY <1>1, <1>2

(* Of a vector the list of its elements from one on may be written too.    *)
LEMMA SoundPair ==
  ASSUME NEW v, NEW np, Sound(np, v), v.type = "pair"
  PROVE  v = Pair(v.car, v.cdr) /\ ~Misread(v) /\ Sound(np, v.car) /\ Sound(np, v.cdr)
<1>1. Children(v) = {v.car, v.cdr}
  BY DEF Children
<1>2. v = Pair(v.car, v.cdr) /\ ~Misread(v)
  <2>1. Spelled(v)
    BY SoundAt
  <2>2. v \notin {NIL, Bool(TRUE), Bool(FALSE)}
    BY DEF NIL, Bool
  <2> QED BY <2>1, <2>2 DEF Spelled
<1> QED BY <1>1, <1>2, SoundAt

LEMMA SoundVector ==
  ASSUME NEW v, NEW np, Sound(np, v), v.type = "vector"
  PROVE  /\ v = Vector(v.elements) /\ IsSeq(v.elements) /\ Len(v.elements) \in Nat
         /\ \A k \in 1 .. Len(v.elements) : Sound(np, v.elements[k])
<1>1. Children(v) = Range(v.elements)
  BY DEF Children
<1>2. v = Vector(v.elements) /\ v.elements \in Seq(Range(v.elements))
  <2>1. Spelled(v)
    BY SoundAt
  <2>2. v \notin {NIL, Bool(TRUE), Bool(FALSE)}
    BY DEF NIL, Bool
  <2> QED BY <2>1, <2>2 DEF Spelled
<1>3. IsSeq(v.elements)
  BY <1>2 DEF IsSeq
<1>4. Len(v.elements) \in Nat /\ \A k \in 1 .. Len(v.elements) : v.elements[k] \in Children(v)
  BY <1>1, <1>3, SeqLen DEF Range
<1> QED BY <1>2, <1>3, <1>4, SoundAt

(* What an atom is that can be read.                                       *)
LEMMA SoundAtom ==
  ASSUME NEW v, NEW np, Sound(np, v), v.type \notin {"pair", "vector"}
  PROVE  \/ v = NIL
         \/ v \in {Bool(TRUE), Bool(FALSE)}
         \/ /\ v.type = "number" /\ v = Number(v.ivalue)
            /\ v.ivalue \in Int /\ Len(atom2str(v)) < STRBUFFSIZE
         \/ /\ v.type = "symbol" /\ v = Symbol(v.name)
            /\ Atomic(v.name) /\ mk_atom(v.name) = v
         \/ /\ v.type = "string" /\ v = String(v.svalue)
            /\ IsText(v.svalue) /\ Len(v.svalue) < STRBUFFSIZE
         \/ /\ v.type = "character" /\ v = Character(v.charvalue)
            /\ v.charvalue # EOF /\ NamedCharacter(v.charvalue) = {}
<1>1. Spelled(v)
  BY SoundAt
<1> QED BY <1>1 DEF Spelled

(* How each kind of atom is written.                                       *)
LEMMA Atom2str ==
  ASSUME NEW v
  PROVE  /\ atom2str(NIL) = <<"(", ")">>
         /\ atom2str(Bool(TRUE)) = <<"#", "t">> /\ atom2str(Bool(FALSE)) = <<"#", "f">>
         /\ v.type = "number" => atom2str(v) = Decimal(v.ivalue)
         /\ v.type = "symbol" => atom2str(v) = v.name
         /\ v.type = "string" => atom2str(v) = printslashstring(v.svalue)
         /\ v.type = "character" =>
              atom2str(v) = <<"#", "\\", IF v.charvalue \in Control \cup {" "}
                                         THEN charname(v.charvalue) ELSE v.charvalue>>
<1>1. atom2str(NIL) = <<"(", ")">>
  BY DEF atom2str, NIL
<1>2. atom2str(Bool(TRUE)) = <<"#", "t">> /\ atom2str(Bool(FALSE)) = <<"#", "f">>
  <2>1. Bool(TRUE).type = "bool" /\ Bool(TRUE).is /\ Bool(FALSE).type = "bool" /\ ~Bool(FALSE).is
    BY DEF Bool
  <2> QED BY <2>1 DEF atom2str
<1>3. /\ v.type = "number" => atom2str(v) = Decimal(v.ivalue)
      /\ v.type = "symbol" => atom2str(v) = v.name
      /\ v.type = "string" => atom2str(v) = printslashstring(v.svalue)
  BY DEF atom2str
<1>4. v.type = "character" =>
        atom2str(v) = <<"#", "\\", IF v.charvalue \in Control \cup {" "}
                                   THEN charname(v.charvalue) ELSE v.charvalue>>
  BY DEF atom2str
<1> QED BY <1>1, <1>2, <1>3, <1>4

LEMMA TextSeq ==
  ASSUME NEW s, IsText(s)
  PROVE  IsSeq(s) /\ \A k \in 1 .. Len(s) : s[k] # EOF
BY DEF IsText, IsSeq

LEMMA AtomSeq ==
  ASSUME NEW v, NEW np, Sound(np, v), v.type \notin {"pair", "vector"}
  PROVE  IsSeq(atom2str(v))
<1>1. CASE v = NIL \/ v \in {Bool(TRUE), Bool(FALSE)}
  <2>1. PICK s \in {"t", "f", ")"}, r \in {"(", "#"} : atom2str(v) = <<r, s>>
    BY <1>1, Atom2str
  <2> QED BY <2>1, SeqTwo
<1>2. CASE v.type = "number" /\ v.ivalue \in Int
  <2>1. PICK n \in Int : n = v.ivalue
    BY <1>2
  <2>2. PICK q : /\ Numerates(q, IF n < 0 THEN -n ELSE n)
                 /\ Decimal(n) = IF n < 0 THEN <<"-">> \o q ELSE q
    BY DecimalIs
  <2>3. IsSeq(q) /\ IsSeq(<<"-">>)
    BY <2>2, SeqOne DEF Numerates
  <2>4. IsSeq(<<"-">> \o q)
    BY ONLY <2>3, SeqConcat
  <2> QED BY <1>2, <2>1, <2>2, <2>3, <2>4, Atom2str
<1>3. CASE v.type = "symbol" /\ Atomic(v.name)
  BY <1>3, Atom2str, TextSeq DEF Atomic
<1>4. CASE v.type = "string" /\ IsText(v.svalue)
  BY <1>4, Atom2str, TextSeq, PrintedString
<1>5. CASE v.type = "character"
  <2>1. PICK c : atom2str(v) = <<"#", "\\", c>>
    BY <1>5, Atom2str
  <2> QED BY <2>1, SeqThree
<1> QED BY <1>1, <1>2, <1>3, <1>4, <1>5, SoundAtom

LEMMA PrefixSeq ==
  ASSUME NEW v, Abbreviated(v)
  PROVE  /\ v.type = "pair" /\ v.cdr.type = "pair" /\ v.cdr.cdr = NIL
         /\ v.car = QUOTE => Prefix(v.car) = <<"'">>
         /\ v.car = QQUOTE => Prefix(v.car) = <<BACKQUOTE>>
         /\ v.car = UNQUOTE => Prefix(v.car) = <<",">>
         /\ v.car = UNQUOTESP => Prefix(v.car) = <<",", "@">>
         /\ v.car \in {QUOTE, QQUOTE, UNQUOTE, UNQUOTESP}
         /\ IsSeq(Prefix(v.car))
<1>1. v.type = "pair" /\ v.cdr.type = "pair" /\ v.cdr.cdr = NIL
      /\ v.car \in {QUOTE, QQUOTE, UNQUOTE, UNQUOTESP}
  BY DEF Abbreviated, ok_abbrev
<1>2. /\ QUOTE # QQUOTE /\ QUOTE # UNQUOTE /\ QUOTE # UNQUOTESP
      /\ QQUOTE # UNQUOTE /\ QQUOTE # UNQUOTESP /\ UNQUOTE # UNQUOTESP
  <2>1. QUOTE.name[1] = "quote" /\ QQUOTE.name[1] = "quasiquote"
        /\ UNQUOTE.name[1] = "unquote" /\ UNQUOTESP.name[1] = "unquote-splicing"
    BY DEF QUOTE, QQUOTE, UNQUOTE, UNQUOTESP, Symbol
  <2> HIDE DEF QUOTE, QQUOTE, UNQUOTE, UNQUOTESP
  <2> QED BY <2>1
<1>3. /\ v.car = QUOTE => Prefix(v.car) = <<"'">>
      /\ v.car = QQUOTE => Prefix(v.car) = <<BACKQUOTE>>
      /\ v.car = UNQUOTE => Prefix(v.car) = <<",">>
      /\ v.car = UNQUOTESP => Prefix(v.car) = <<",", "@">>
  BY <1>2 DEF Prefix
<1>4. IsSeq(Prefix(v.car))
  <2>1. IsSeq(<<"'">>) /\ IsSeq(<<BACKQUOTE>>) /\ IsSeq(<<",">>) /\ IsSeq(<<",", "@">>)
    BY SeqOne, SeqTwo
  <2> QED BY <1>1, <1>3, <2>1
<1> QED BY <1>1, <1>3, <1>4
---------------------------------------------------------------------------
(* Where the next token begins.                                            *)

LEMMA MinIs ==
  ASSUME NEW S, S \subseteq Nat, S # {}
  PROVE  Min(S) \in S /\ \A k \in S : Min(S) <= k
BY Least DEF Min

LEMMA MinOnly ==
  ASSUME NEW S, S \subseteq Nat, NEW m \in S, \A k \in S : m <= k
  PROVE  Min(S) = m
<1>1. Min(S) \in S /\ \A k \in S : Min(S) <= k
  BY MinIs
<1>2. Min(S) \in Nat /\ m \in Nat /\ m <= Min(S) /\ Min(S) <= m
  BY <1>1
<1> QED BY <1>2

LEMMA PortBounds ==
  ASSUME NEW p, PortOK(p)
  PROVE  /\ p.past_the_end \in Nat /\ p.curr \in Nat /\ p.past_the_end = Len(p.start)
         /\ p.curr \in 0 .. p.past_the_end /\ IsSeq(p.start)
BY SeqLen DEF PortOK

LEMMA SkipSpace ==
  ASSUME NEW p, p.past_the_end \in Nat, NEW i \in 0 .. p.past_the_end
  PROVE  /\ skipspace(p, i) \in i .. p.past_the_end
         /\ At(p, skipspace(p, i)) \notin Space
         /\ \A j \in i .. p.past_the_end : j < skipspace(p, i) => At(p, j) \in Space
<1> DEFINE S == {j \in i .. p.past_the_end : At(p, j) \notin Space}
<1>1. S \subseteq Nat /\ p.past_the_end \in S
  <2>1. At(p, p.past_the_end) = EOF /\ EOF \notin Space
    BY DEF At, Space, EOF
  <2> QED BY <2>1
<1>2. Min(S) \in S /\ \A k \in S : Min(S) <= k
  <2> HIDE DEF S
  <2> QED BY <1>1, MinIs
<1>3. skipspace(p, i) = Min(S)
  BY DEF skipspace
<1> QED BY <1>2, <1>3

LEMMA SeekIs ==
  ASSUME NEW p, p.past_the_end \in Nat, NEW i \in 0 .. p.past_the_end, NEW X
  PROVE  /\ Seek(p, i, X) \in i .. p.past_the_end
         /\ At(p, Seek(p, i, X)) \in X \cup {EOF}
         /\ \A j \in i .. p.past_the_end : j < Seek(p, i, X) => At(p, j) \notin X \cup {EOF}
<1> DEFINE S == {j \in i .. p.past_the_end : At(p, j) \in X \cup {EOF}}
<1>1. S \subseteq Nat /\ p.past_the_end \in S
  BY DEF At
<1>2. Min(S) \in S /\ \A k \in S : Min(S) <= k
  <2> HIDE DEF S
  <2> QED BY <1>1, MinIs
<1>3. Seek(p, i, X) = Min(S)
  BY DEF Seek
<1> QED BY <1>2, <1>3

LEMMA AfterLineIs ==
  ASSUME NEW p, p.past_the_end \in Nat, NEW j \in 0 .. p.past_the_end, IsComment(p, j)
  PROVE  AfterLine(p, j) \in (j + 1) .. p.past_the_end
<1>1. j < p.past_the_end
  BY DEF IsComment, At, EOF
<1>2. PICK k : k = Seek(p, j, {"\n"})
  OBVIOUS
<1>3. k \in j .. p.past_the_end
  BY <1>2, SeekIs
<1> QED BY <1>1, <1>2, <1>3 DEF AfterLine, Past

(* Each place has one, for a comment ends behind where it begins.          *)
LEMMA StartExists ==
  ASSUME NEW N \in Nat, NEW skip, NEW comment, NEW after,
         \A k \in 0 .. N : skip[k] \in k .. N,
         \A k \in 0 .. N : k \in comment => after[k] \in (k + 1) .. N
  PROVE  \E f : /\ f = [k \in 0 .. N |-> f[k]]
                /\ \A k \in 0 .. N : f[k] = IF skip[k] \in comment THEN f[after[skip[k]]] ELSE skip[k]
<1> DEFINE Is(f, n) ==
             /\ f = [k \in (N - n) .. N |-> f[k]]
             /\ \A k \in (N - n) .. N :
                  f[k] = IF skip[k] \in comment THEN f[after[skip[k]]] ELSE skip[k]
           S == {n \in 0 .. N : \E f : Is(f, n)}
<1>0. \A k \in 0 .. N : skip[k] \in comment => after[skip[k]] \in (k + 1) .. N
  OBVIOUS
<1>1. 0 \in S
  <2>1. PICK f : f = [k \in N .. N |-> skip[k]]
    OBVIOUS
  <2>2. skip[N] \notin comment
    BY <1>0
  <2>3. f = [k \in N .. N |-> f[k]] /\ f[N] = skip[N]
    BY <2>1
  <2>4. \A k \in N .. N : k = N
    OBVIOUS
  <2>5. N - 0 = N
    OBVIOUS
  <2>6. Is(f, 0)
    BY <2>2, <2>3, <2>4, <2>5
  <2> HIDE DEF Is
  <2> QED BY <2>6
<1>2. ASSUME NEW n \in 1 .. N, n - 1 \in S  PROVE n \in S
  <2>1. PICK f : Is(f, n - 1)
    BY <1>2
  <2>2. PICK a : a = N - n
    OBVIOUS
  <2>3. a \in 0 .. N - 1 /\ N - (n - 1) = a + 1
    BY <2>2
  <2>4. PICK h : h = [k \in a .. N |-> IF k = a
                                       THEN IF skip[a] \in comment THEN f[after[skip[a]]] ELSE skip[a]
                                       ELSE f[k]]
    OBVIOUS
  <2>5. /\ h = [k \in a .. N |-> h[k]]
        /\ h[a] = IF skip[a] \in comment THEN f[after[skip[a]]] ELSE skip[a]
        /\ \A k \in (a + 1) .. N : h[k] = f[k]
    BY <2>3, <2>4
  <2>6. ASSUME NEW k \in a .. N
        PROVE  h[k] = IF skip[k] \in comment THEN h[after[skip[k]]] ELSE skip[k]
    <3>0. k \in 0 .. N
      BY <2>3
    <3>1. skip[k] \in comment => after[skip[k]] \in (k + 1) .. N
      BY <1>0, <3>0
    <3>2. skip[k] \in comment => h[after[skip[k]]] = f[after[skip[k]]]
      <4>1. SUFFICES ASSUME skip[k] \in comment  PROVE h[after[skip[k]]] = f[after[skip[k]]]
        OBVIOUS
      <4>2. PICK l : l = after[skip[k]]
        OBVIOUS
      <4>3. l \in (a + 1) .. N
        BY <2>3, <3>1, <4>1, <4>2
      <4> QED BY <2>5, <4>2, <4>3
    <3>3. CASE k = a
      BY <2>5, <3>2, <3>3
    <3>4. CASE k # a
      <4>1. k \in (a + 1) .. N
        BY <2>3, <3>4
      <4>2. f[k] = IF skip[k] \in comment THEN f[after[skip[k]]] ELSE skip[k]
        BY <2>1, <2>3, <4>1
      <4> QED BY <2>5, <3>2, <4>1, <4>2
    <3> QED BY <3>3, <3>4
  <2>7. Is(h, n)
    BY ONLY <2>2, <2>5, <2>6
  <2>8. n \in 0 .. N
    OBVIOUS
  <2> HIDE DEF Is
  <2> QED BY <2>7, <2>8
<1>3. N \in S
  <2>1. \A n \in 0 .. N : n \in S
    <3> HIDE DEF S
    <3> QED BY <1>1, <1>2, UpTo
  <2> QED BY <2>1
<1>4. PICK f : Is(f, N)
  BY <1>3
<1>5. N - N = 0
  OBVIOUS
<1> QED BY <1>4, <1>5

LEMMA StartIs ==
  ASSUME NEW p, p.past_the_end \in Nat
  PROVE  \E f : /\ \A i : Start(p, i) = f[i]
                /\ \A k \in 0 .. p.past_the_end :
                     f[k] = IF IsComment(p, skipspace(p, k)) THEN f[AfterLine(p, skipspace(p, k))]
                            ELSE skipspace(p, k)
<1> DEFINE N == p.past_the_end
           skip == [k \in 0 .. N |-> skipspace(p, k)]
           comment == {j \in 0 .. N : IsComment(p, j)}
           after == [j \in 0 .. N |-> AfterLine(p, j)]
           Rec(f) == [k \in 0 .. N |-> IF IsComment(p, skipspace(p, k))
                                       THEN f[AfterLine(p, skipspace(p, k))] ELSE skipspace(p, k)]
<1>1. \A k \in 0 .. N : skip[k] \in k .. N /\ skip[k] = skipspace(p, k)
  BY SkipSpace
<1>2. \A k \in 0 .. N : k \in comment => after[k] \in (k + 1) .. N
  BY AfterLineIs
<1>3. \A k \in 0 .. N : k \in comment => after[k] = AfterLine(p, k)
  OBVIOUS
<1>4. \A k \in 0 .. N : k \in comment <=> IsComment(p, k)
  OBVIOUS
<1>5. PICK g : /\ g = [k \in 0 .. N |-> g[k]]
               /\ \A k \in 0 .. N : g[k] = IF skip[k] \in comment THEN g[after[skip[k]]] ELSE skip[k]
  <2>1. PICK s, c, a, n : s = skip /\ c = comment /\ a = after /\ n = N
    OBVIOUS
  <2>2. n \in Nat /\ (\A k \in 0 .. n : s[k] \in k .. n) /\ \A k \in 0 .. n : k \in c => a[k] \in (k + 1) .. n
    <3> HIDE DEF skip, comment, after
    <3> QED BY <1>1, <1>2, <2>1
  <2>3. \E f : /\ f = [k \in 0 .. n |-> f[k]]
               /\ \A k \in 0 .. n : f[k] = IF s[k] \in c THEN f[a[s[k]]] ELSE s[k]
    BY ONLY <2>2, StartExists, Zenon
  <2>4. \E f : /\ f = [k \in 0 .. N |-> f[k]]
               /\ \A k \in 0 .. N : f[k] = IF skip[k] \in comment THEN f[after[skip[k]]] ELSE skip[k]
    <3> HIDE DEF skip, comment, after
    <3> QED BY ONLY <2>1, <2>3, Zenon
  <2> HIDE DEF skip, comment, after
  <2> QED BY ONLY <2>4, Zenon
<1>6. g = Rec(g)
  <2>1. ASSUME NEW k \in 0 .. N
        PROVE  g[k] = IF IsComment(p, skipspace(p, k)) THEN g[AfterLine(p, skipspace(p, k))]
                      ELSE skipspace(p, k)
    <3>1. skip[k] \in 0 .. N
      BY <1>1
    <3> HIDE DEF skip, comment, after
    <3> QED BY <1>1, <1>3, <1>4, <1>5, <3>1
  <2> QED BY <1>5, <2>1
<1>7. PICK f : f = CHOOSE h : h = Rec(h)
  OBVIOUS
<1>8. \A i : Start(p, i) = f[i]
  BY <1>7 DEF Start
<1>9. f = Rec(f)
  <2> HIDE DEF Rec
  <2> QED BY <1>6, <1>7
<1>10. \A k \in 0 .. N : f[k] = IF IsComment(p, skipspace(p, k)) THEN f[AfterLine(p, skipspace(p, k))]
                                ELSE skipspace(p, k)
  BY <1>9
<1> QED BY <1>8, <1>10

LEMMA StartThere ==
  ASSUME NEW p, p.past_the_end \in Nat, NEW i \in 0 .. p.past_the_end
  PROVE  Start(p, i) = IF IsComment(p, skipspace(p, i)) THEN Start(p, AfterLine(p, skipspace(p, i)))
                       ELSE skipspace(p, i)
BY StartIs

LEMMA StartStops ==
  ASSUME NEW p, p.past_the_end \in Nat, NEW i \in 0 .. p.past_the_end
  PROVE  /\ Start(p, i) \in i .. p.past_the_end
         /\ At(p, Start(p, i)) \notin Space /\ ~IsComment(p, Start(p, i))
<1> DEFINE N == p.past_the_end
           Good(k) == /\ Start(p, k) \in k .. N
                      /\ At(p, Start(p, k)) \notin Space /\ ~IsComment(p, Start(p, k))
           S == {n \in 0 .. N : \A k \in (N - n) .. N : Good(k)}
<1>1. ASSUME NEW k \in 0 .. N, \A l \in (k + 1) .. N : Good(l)  PROVE Good(k)
  <2>1. PICK j : j = skipspace(p, k)
    OBVIOUS
  <2>2. j \in k .. N /\ At(p, j) \notin Space
    BY <2>1, SkipSpace
  <2>3. CASE IsComment(p, j)
    <3>1. PICK l : l = AfterLine(p, j)
      OBVIOUS
    <3>2. l \in (j + 1) .. N
      BY <2>2, <2>3, <3>1, AfterLineIs
    <3>3. l \in (k + 1) .. N
      BY <2>2, <3>2
    <3>4. Start(p, k) = Start(p, l)
      BY <2>1, <2>3, <3>1, StartThere
    <3>5. Good(l)
      BY <1>1, <3>3
    <3>6. Start(p, l) \in l .. N
      BY <3>5
    <3> QED BY <3>3, <3>4, <3>5, <3>6
  <2>4. CASE ~IsComment(p, j)
    <3>1. Start(p, k) = j
      BY <2>1, <2>4, StartThere
    <3> QED BY <2>2, <2>4, <3>1
  <2> QED BY <2>3, <2>4
<1> HIDE DEF Good
<1>2. 0 \in S
  <2>1. \A l \in (N + 1) .. N : Good(l)
    OBVIOUS
  <2>2. Good(N)
    BY <1>1, <2>1
  <2>3. \A k \in (N - 0) .. N : k = N
    OBVIOUS
  <2> QED BY <2>2, <2>3
<1>3. ASSUME NEW n \in 1 .. N, n - 1 \in S  PROVE n \in S
  <2>1. PICK a : a = N - n
    OBVIOUS
  <2>2. a \in 0 .. N /\ N - (n - 1) = a + 1
    BY <2>1
  <2>3. \A l \in (a + 1) .. N : Good(l)
    BY <1>3, <2>2
  <2>4. Good(a)
    BY <1>1, <2>2, <2>3
  <2>5. \A k \in a .. N : k = a \/ k \in (a + 1) .. N
    BY <2>2
  <2> QED BY <2>1, <2>3, <2>4, <2>5
<1>4. N \in S
  <2>1. \A n \in 0 .. N : n \in S
    <3> HIDE DEF S
    <3> QED BY <1>2, <1>3, UpTo
  <2> QED BY <2>1
<1>5. \A k \in (N - N) .. N : Good(k)
  BY <1>4
<1>6. i \in (N - N) .. N
  OBVIOUS
<1>7. Good(i)
  BY <1>5, <1>6
<1> QED BY <1>7 DEF Good

LEMMA TokenForm ==
  ASSUME NEW p, NEW i, NEW j, j = Start(p, i)
  PROVE  \E t, k : k \in {j, j + 1, j + 2} /\ token(p, i) = Found(p, t, k)
<1>1. \E t, k : k \in {j, j + 1, j + 2} /\ TokenAt(p, j) = Found(p, t, k)
  <2> DEFINE Good(x) == \E t, k : k \in {j, j + 1, j + 2} /\ x = Found(p, t, k)
  <2>1. \A t : Good(Found(p, t, j)) /\ Good(Found(p, t, j + 1)) /\ Good(Found(p, t, j + 2))
    OBVIOUS
  <2> HIDE DEF Good
  <2> DEFINE c == At(p, j)
             d == At(p, j + 1)
  <2>2. Good(TokenAt(p, j))
    <3>1. PICK x : x = TokenAt(p, j)
      OBVIOUS
    <3>2. CASE c = "#"
      <4>1. x = CASE d = "(" -> Found(p, "VEC", j + 2)
                  [] d \in {" ", "t", "f", "o", "d", "x", "b", "\\", EOF} ->
                       Found(p, "SHARP_CONST", j + 1)
                  [] OTHER -> Found(p, "SHARP", j + 1)
        BY <3>1, <3>2 DEF TokenAt, EOF, BACKQUOTE, DOUBLEQUOTE
      <4>2. x \in {Found(p, "VEC", j + 2), Found(p, "SHARP_CONST", j + 1), Found(p, "SHARP", j + 1)}
        <5>1. d = "(" => d \notin {" ", "t", "f", "o", "d", "x", "b", "\\", EOF}
          BY DEF EOF
        <5> HIDE DEF d
        <5> QED BY <4>1, <5>1
      <4> QED BY <2>1, <3>1, <4>2
    <3>3. CASE c = EOF
      BY <2>1, <3>1, <3>3 DEF TokenAt, EOF, BACKQUOTE, DOUBLEQUOTE
    <3>4. CASE c = "("
      BY <2>1, <3>1, <3>4 DEF TokenAt, EOF, BACKQUOTE, DOUBLEQUOTE
    <3>5. CASE c = ")"
      BY <2>1, <3>1, <3>5 DEF TokenAt, EOF, BACKQUOTE, DOUBLEQUOTE
    <3>6. CASE c = "."
      BY <2>1, <3>1, <3>6 DEF TokenAt, EOF, BACKQUOTE, DOUBLEQUOTE
    <3>7. CASE c = "'"
      BY <2>1, <3>1, <3>7 DEF TokenAt, EOF, BACKQUOTE, DOUBLEQUOTE
    <3>8. CASE c = DOUBLEQUOTE
      BY <2>1, <3>1, <3>8 DEF TokenAt, EOF, BACKQUOTE, DOUBLEQUOTE
    <3>9. CASE c = BACKQUOTE
      BY <2>1, <3>1, <3>9 DEF TokenAt, EOF, BACKQUOTE, DOUBLEQUOTE
    <3>10. CASE c = ","
      BY <2>1, <3>1, <3>10 DEF TokenAt, EOF, BACKQUOTE, DOUBLEQUOTE
    <3>11. CASE c \notin {EOF, "(", ")", ".", "'", DOUBLEQUOTE, BACKQUOTE, ",", "#"}
      BY <2>1, <3>1, <3>11 DEF TokenAt
    <3> QED BY <3>2, <3>3, <3>4, <3>5, <3>6, <3>7, <3>8, <3>9, <3>10, <3>11
  <2> QED BY <2>2 DEF Good
<1> QED BY <1>1 DEF token

LEMMA TokenBounds ==
  ASSUME NEW p, p.past_the_end \in Nat, NEW i \in 0 .. p.past_the_end
  PROVE  token(p, i).at \in i .. p.past_the_end /\ token(p, i) = [tok |-> token(p, i).tok, at |-> token(p, i).at]
<1>1. PICK j : j = Start(p, i)
  OBVIOUS
<1>2. j \in i .. p.past_the_end
  BY <1>1, StartStops
<1>3. \A t, k : k \in {j, j + 1, j + 2} => Found(p, t, k).at \in i .. p.past_the_end
  BY <1>2 DEF Found, Past
<1>4. PICK t, k : k \in {j, j + 1, j + 2} /\ token(p, i) = Found(p, t, k)
  BY <1>1, TokenForm
<1>5. token(p, i) = [tok |-> t, at |-> Past(p, k)]
  BY <1>4 DEF Found
<1> QED BY <1>3, <1>4, <1>5
---------------------------------------------------------------------------
(* Where an atom and a string end.                                         *)

LEMMA UptoIs ==
  ASSUME NEW p, p.past_the_end \in Nat, NEW i \in 0 .. p.past_the_end
  PROVE  \E k \in i .. p.past_the_end :
           /\ At(p, k) \in Delimiters \cup {EOF} \/ k - i + 1 = STRBUFFSIZE
           /\ \A j \in i .. p.past_the_end :
                j < k => At(p, j) \notin Delimiters \cup {EOF} /\ j - i + 1 # STRBUFFSIZE
           /\ readstr_upto(p, i) = IF k = i + 1 /\ At(p, i) = "\\"
                                   THEN [str |-> <<"\\", At(p, k)>>, at |-> Past(p, k + 1)]
                                   ELSE [str |-> SubSeq(p.start, i + 1, k), at |-> k]
<1> DEFINE S == {j \in i .. p.past_the_end :
                   At(p, j) \in Delimiters \cup {EOF} \/ j - i + 1 = STRBUFFSIZE}
<1>1. S \subseteq Nat /\ p.past_the_end \in S
  BY DEF At
<1>2. PICK k : k = Min(S)
  OBVIOUS
<1>3. k \in S /\ \A l \in S : k <= l
  <2> HIDE DEF S
  <2> QED BY <1>1, <1>2, MinIs
<1>4. readstr_upto(p, i) = IF k = i + 1 /\ At(p, i) = "\\"
                           THEN [str |-> <<"\\", At(p, k)>>, at |-> Past(p, k + 1)]
                           ELSE [str |-> SubSeq(p.start, i + 1, k), at |-> k]
  BY <1>2 DEF readstr_upto
<1>5. k \in i .. p.past_the_end
      /\ (At(p, k) \in Delimiters \cup {EOF} \/ k - i + 1 = STRBUFFSIZE)
  BY <1>3
<1>6. ASSUME NEW j \in i .. p.past_the_end, j < k
      PROVE  At(p, j) \notin Delimiters \cup {EOF} /\ j - i + 1 # STRBUFFSIZE
  <2>1. j \notin S
    <3> HIDE DEF S
    <3> QED BY <1>3, <1>5, <1>6
  <2> QED BY <2>1
<1> QED BY <1>4, <1>5, <1>6

LEMMA UptoBounds ==
  ASSUME NEW p, p.past_the_end \in Nat, NEW i \in 0 .. p.past_the_end
  PROVE  readstr_upto(p, i).at \in i .. p.past_the_end
<1>1. PICK k \in i .. p.past_the_end :
           readstr_upto(p, i) = IF k = i + 1 /\ At(p, i) = "\\"
                                THEN [str |-> <<"\\", At(p, k)>>, at |-> Past(p, k + 1)]
                                ELSE [str |-> SubSeq(p.start, i + 1, k), at |-> k]
  BY UptoIs
<1>2. readstr_upto(p, i).at \in {k, Past(p, k + 1)}
  BY <1>1
<1> QED BY <1>2 DEF Past

(* The record of the automaton that reads a string.                        *)
Run(state, c1, str, at) == [state |-> state, c1 |-> c1, str |-> str, at |-> at]

States == {"ok", "bsl", "x1", "x2", "oct1", "oct2", "closed", "bad"}

LEMMA RunFields ==
  ASSUME NEW s, NEW c, NEW t, NEW a
  PROVE  /\ Run(s, c, t, a).state = s /\ Run(s, c, t, a).c1 = c
         /\ Run(s, c, t, a).str = t /\ Run(s, c, t, a).at = a
BY DEF Run

WithState(r, x) == [r EXCEPT !.state = x]
WithCode(r, x) == [r EXCEPT !.c1 = x]
WithText(r, x) == [r EXCEPT !.str = x]
WithPlace(r, x) == [r EXCEPT !.at = x]

LEMMA RunSet ==
  ASSUME NEW s, NEW c, NEW t, NEW a, NEW x
  PROVE  /\ WithState(Run(s, c, t, a), x) = Run(x, c, t, a)
         /\ WithCode(Run(s, c, t, a), x) = Run(s, x, t, a)
         /\ WithText(Run(s, c, t, a), x) = Run(s, c, x, a)
         /\ WithPlace(Run(s, c, t, a), x) = Run(s, c, t, x)
<1>1. WithState(Run(s, c, t, a), x) = Run(x, c, t, a)
  BY DEF Run, WithState
<1>2. WithCode(Run(s, c, t, a), x) = Run(s, x, t, a)
  BY DEF Run, WithCode
<1>3. WithText(Run(s, c, t, a), x) = Run(s, c, x, a)
  BY DEF Run, WithText
<1>4. WithPlace(Run(s, c, t, a), x) = Run(s, c, t, x)
  BY DEF Run, WithPlace
<1> QED BY <1>1, <1>2, <1>3, <1>4

LEMMA PutIs ==
  ASSUME NEW s, NEW c, NEW t, NEW a, NEW x
  PROVE  Put(Run(s, c, t, a), x) = Run("ok", c, Append(t, x), a)
<1>1. Put(Run(s, c, t, a), x) = WithState(WithText(Run(s, c, t, a), Append(t, x)), "ok")
  BY DEF Put, Run, WithState, WithText
<1> QED BY <1>1, RunSet

LEMMA InTextIs ==
  ASSUME NEW s, NEW b, NEW t, NEW a, NEW c
  PROVE  /\ c = "\\" => InText(Run(s, b, t, a), c) = Run("bsl", b, t, a)
         /\ c = DOUBLEQUOTE => InText(Run(s, b, t, a), c) = Run("closed", b, t, a)
         /\ c \notin {"\\", DOUBLEQUOTE} => InText(Run(s, b, t, a), c) = Run("ok", b, Append(t, c), a)
<1>1. /\ c = "\\" => InText(Run(s, b, t, a), c) = WithState(Run(s, b, t, a), "bsl")
      /\ c = DOUBLEQUOTE => InText(Run(s, b, t, a), c) = WithState(Run(s, b, t, a), "closed")
      /\ c \notin {"\\", DOUBLEQUOTE} => InText(Run(s, b, t, a), c) = Put(Run(s, b, t, a), c)
  BY DEF InText, WithState, DOUBLEQUOTE
<1> QED BY <1>1, RunSet, PutIs

LEMMA AfterBackslashIs ==
  ASSUME NEW s, NEW b, NEW t, NEW a, NEW c
  PROVE  /\ IsOctal(c) => AfterBackslash(Run(s, b, t, a), c) = Run("oct1", DigitValue(c), t, a)
         /\ c \in {"x", "X"} => AfterBackslash(Run(s, b, t, a), c) = Run("x1", 0, t, a)
         /\ ~IsOctal(c) /\ c \notin {"x", "X"} =>
              AfterBackslash(Run(s, b, t, a), c)
                = Run("ok", b, Append(t, IF c = "n" THEN "\n" ELSE IF c = "t" THEN "\t"
                                         ELSE IF c = "r" THEN "\r" ELSE c), a)
<1>1. IsOctal(c) => c \notin {"x", "X", "n", "t", "r"}
  <2>1. IsDigit(c) => c \in {"0", "1", "2", "3", "4", "5", "6", "7", "8", "9"}
    BY DEF IsDigit, Digits
  <2> QED BY <2>1 DEF IsOctal
<1>2. PICK r : r = Run(s, b, t, a)
  OBVIOUS
<1>3. IsOctal(c) => AfterBackslash(r, c) = WithCode(WithState(r, "oct1"), DigitValue(c))
  BY <1>1 DEF AfterBackslash, WithCode, WithState
<1>4. c \in {"x", "X"} => AfterBackslash(r, c) = WithCode(WithState(r, "x1"), 0)
  BY <1>1 DEF AfterBackslash, WithCode, WithState
<1>5. ~IsOctal(c) /\ c \notin {"x", "X"} =>
        AfterBackslash(r, c) = Put(r, IF c = "n" THEN "\n" ELSE IF c = "t" THEN "\t"
                                      ELSE IF c = "r" THEN "\r" ELSE c)
  BY DEF AfterBackslash
<1>6. IsOctal(c) => AfterBackslash(r, c) = Run("oct1", DigitValue(c), t, a)
  BY <1>2, <1>3, RunSet
<1>7. c \in {"x", "X"} => AfterBackslash(r, c) = Run("x1", 0, t, a)
  BY <1>2, <1>4, RunSet
<1> QED BY <1>2, <1>5, <1>6, <1>7, PutIs

LEMMA InHexIs ==
  ASSUME NEW s, NEW b, NEW t, NEW a, NEW c
  PROVE  /\ ~HexLike(c) => InHex(Run(s, b, t, a), c) = Run("bad", b, t, a)
         /\ HexLike(c) /\ s = "x1" => InHex(Run(s, b, t, a), c) = Run("x2", HexValue(c), t, a)
         /\ HexLike(c) /\ s # "x1" =>
              InHex(Run(s, b, t, a), c)
                = Run("ok", b, Append(t, Chr((16 * b + HexValue(c)) % 256)), a)
<1>1. PICK r : r = Run(s, b, t, a)
  OBVIOUS
<1>2. r.state = s /\ r.c1 = b
  BY <1>1, RunFields
<1>3. ~HexLike(c) => InHex(r, c) = WithState(r, "bad")
  BY DEF InHex, WithState
<1>4. HexLike(c) /\ s = "x1" => InHex(r, c) = WithCode(WithState(r, "x2"), HexValue(c))
  BY <1>2 DEF InHex, WithCode, WithState
<1>5. HexLike(c) /\ s # "x1" => InHex(r, c) = Put(r, Chr((16 * b + HexValue(c)) % 256))
  BY <1>2 DEF InHex
<1>6. HexLike(c) /\ s = "x1" => InHex(r, c) = Run("x2", HexValue(c), t, a)
  BY <1>1, <1>4, RunSet
<1> QED BY <1>1, <1>3, <1>5, <1>6, RunSet, PutIs

LEMMA InOctalIs ==
  ASSUME NEW s, NEW b, NEW t, NEW a, NEW c
  PROVE  \E s2 \in {"ok", "oct2", "bad"}, a2 \in {a, a - 1} : \E b2, t2 :
           InOctal(Run(s, b, t, a), c) = Run(s2, b2, t2, a2)
<1>1. PICK r, o, n : r = Run(s, b, t, a) /\ o = InOctal(r, c) /\ n = a - 1
  OBVIOUS
<1> DEFINE Good == \E s2 \in {"ok", "oct2", "bad"}, a2 \in {a, n} : \E b2, t2 : o = Run(s2, b2, t2, a2)
<1>2. r.state = s /\ r.c1 = b
  BY <1>1, RunFields
<1>0. ASSUME NEW s2 \in {"ok", "oct2", "bad"}, NEW a2 \in {a, n}, NEW b2, NEW t2, o = Run(s2, b2, t2, a2)
      PROVE  Good
  BY <1>0
<1> HIDE DEF Good
<1>3. ASSUME ~IsOctal(c)  PROVE Good
  <2>1. PICK y : y = Chr(b)
    OBVIOUS
  <2>2. Put(r, y) = Run("ok", b, Append(t, y), a)
    BY <1>1, PutIs
  <2>3. o = [Put(r, y) EXCEPT !.at = @ - 1]
    BY <1>1, <1>2, <1>3, <2>1 DEF InOctal
  <2>4. o = WithPlace(Put(r, y), a - 1)
    BY <2>2, <2>3 DEF WithPlace, Run
  <2>5. o = Run("ok", b, Append(t, y), n)
    BY <1>1, <2>2, <2>4, RunSet
  <2> QED BY <1>0, <2>5
<1>4. ASSUME IsOctal(c) /\ s = "oct1"  PROVE Good
  <2>1. PICK y : y = 8 * b + DigitValue(c)
    OBVIOUS
  <2>2. o = [r EXCEPT !.state = "oct2", !.c1 = 8 * @ + DigitValue(c)]
    BY <1>1, <1>2, <1>4 DEF InOctal
  <2>3. o = WithCode(WithState(r, "oct2"), y)
    BY <1>1, <2>1, <2>2 DEF WithCode, WithState, Run
  <2>4. o = Run("oct2", y, t, a)
    BY <1>1, <2>3, RunSet
  <2> QED BY <1>0, <2>4
<1>5. ASSUME IsOctal(c) /\ s # "oct1" /\ b >= 32  PROVE Good
  <2>1. o = WithState(r, "bad")
    BY <1>1, <1>2, <1>5 DEF InOctal, WithState
  <2>2. o = Run("bad", b, t, a)
    BY <1>1, <2>1, RunSet
  <2> QED BY <1>0, <2>2
<1>6. ASSUME IsOctal(c) /\ s # "oct1" /\ ~(b >= 32)  PROVE Good
  <2>1. PICK y : y = Chr(8 * b + DigitValue(c))
    OBVIOUS
  <2>2. o = Put(r, y)
    BY <1>1, <1>2, <1>6, <2>1 DEF InOctal
  <2>3. o = Run("ok", b, Append(t, y), a)
    BY <1>1, <2>2, PutIs
  <2> QED BY <1>0, <2>3
<1>7. Good
  BY <1>3, <1>4, <1>5, <1>6
<1> QED BY <1>1, <1>7 DEF Good

LEMMA StringStepIs ==
  ASSUME NEW p, NEW s \in States, NEW b, NEW t, NEW a,
         NEW r, r = StringStep(p, Run(s, b, t, a)),
         NEW next, next = Run(s, b, t, Past(p, a + 1))
  PROVE  /\ s \in {"closed", "bad"} => r = Run(s, b, t, a)
         /\ s \notin {"closed", "bad"} /\ (At(p, a) = EOF \/ Len(t) > STRBUFFSIZE - 1) =>
              r = Run("bad", b, t, Past(p, a + 1))
         /\ s \notin {"closed", "bad"} /\ At(p, a) # EOF /\ ~(Len(t) > STRBUFFSIZE - 1) =>
              /\ s = "ok" => r = InText(next, At(p, a))
              /\ s = "bsl" => r = AfterBackslash(next, At(p, a))
              /\ s \in {"x1", "x2"} => r = InHex(next, At(p, a))
              /\ s \in {"oct1", "oct2"} => r = InOctal(next, At(p, a))
<1>1. PICK q, n, c : q = Run(s, b, t, a) /\ n = Past(p, a + 1) /\ c = At(p, a)
  OBVIOUS
<1>2. q.state = s /\ q.str = t /\ q.at = a
  BY <1>1, RunFields
<1>3. r = IF s \in {"closed", "bad"} THEN q ELSE OneCharacter(next, c)
  <2>1. PICK x : x = [q EXCEPT !.at = Past(p, @ + 1)]
    OBVIOUS
  <2>2. x = WithPlace(q, n)
    BY <1>1, <2>1 DEF Run, WithPlace
  <2>3. x = next
    BY <1>1, <2>2, RunSet
  <2>4. r = IF q.state \in {"closed", "bad"} THEN q ELSE OneCharacter(x, At(p, q.at))
    BY <1>1, <2>1 DEF StringStep
  <2> QED BY <1>1, <1>2, <2>3, <2>4
<1>4. next.state = s /\ next.str = t
  BY RunFields
<1>10. s \notin {"closed", "bad"} =>
        r = IF c = EOF \/ Len(t) > STRBUFFSIZE - 1 THEN WithState(next, "bad")
          ELSE CASE s = "ok"  -> InText(next, c)
                 [] s = "bsl" -> AfterBackslash(next, c)
                 [] s \in {"x1", "x2"} -> InHex(next, c)
                 [] s \in {"oct1", "oct2"} -> InOctal(next, c)
  BY <1>3, <1>4 DEF OneCharacter, WithState
<1>5. WithState(next, "bad") = Run("bad", b, t, n)
  BY <1>1, RunSet
<1>6. s \in {"closed", "bad"} => r = q
  BY <1>3
<1>7. s \notin {"closed", "bad"} /\ (c = EOF \/ Len(t) > STRBUFFSIZE - 1) => r = WithState(next, "bad")
  BY <1>10
<1>8. s \notin {"closed", "bad"} /\ c # EOF /\ ~(Len(t) > STRBUFFSIZE - 1) =>
        r = CASE s = "ok"  -> InText(next, c)
              [] s = "bsl" -> AfterBackslash(next, c)
              [] s \in {"x1", "x2"} -> InHex(next, c)
              [] s \in {"oct1", "oct2"} -> InOctal(next, c)
  BY ONLY <1>10
<1>9. s \notin {"closed", "bad"} /\ c # EOF /\ ~(Len(t) > STRBUFFSIZE - 1) =>
              /\ s = "ok" => r = InText(next, c)
              /\ s = "bsl" => r = AfterBackslash(next, c)
              /\ s \in {"x1", "x2"} => r = InHex(next, c)
              /\ s \in {"oct1", "oct2"} => r = InOctal(next, c)
  BY ONLY <1>8
<1> QED BY <1>1, <1>5, <1>6, <1>7, <1>9

LEMMA StringStepBounds ==
  ASSUME NEW p, p.past_the_end \in Nat, NEW s \in States, NEW b, NEW t, NEW a \in 0 .. p.past_the_end
  PROVE  \E s2 \in States, a2 \in 0 .. p.past_the_end : \E b2, t2 :
           StringStep(p, Run(s, b, t, a)) = Run(s2, b2, t2, a2)
<1> DEFINE Good(x) == \E s2 \in States, a2 \in 0 .. p.past_the_end : \E b2, t2 : x = Run(s2, b2, t2, a2)
<1>1. PICK r, next, n, c : /\ r = StringStep(p, Run(s, b, t, a)) /\ next = Run(s, b, t, n)
                           /\ n = Past(p, a + 1) /\ c = At(p, a)
  OBVIOUS
<1>2. n \in 0 .. p.past_the_end /\ (c # EOF => n - 1 \in 0 .. p.past_the_end)
  BY <1>1 DEF Past, At
<1>3. ASSUME NEW s2 \in States, NEW b2, NEW t2, NEW a2 \in 0 .. p.past_the_end
      PROVE  Good(Run(s2, b2, t2, a2))
  OBVIOUS
<1>4. {"ok", "bsl", "x1", "x2", "oct1", "oct2", "closed", "bad"} = States
  BY DEF States
<1> HIDE DEF Good
<1>5. CASE s \in {"closed", "bad"}
  BY <1>1, <1>3, <1>5, StringStepIs
<1>6. CASE s \notin {"closed", "bad"} /\ (c = EOF \/ Len(t) > STRBUFFSIZE - 1)
  <2>1. r = Run("bad", b, t, n)
    BY <1>1, <1>6, StringStepIs
  <2> QED BY <1>2, <1>3, <1>4, <2>1, <1>1 DEF Good
<1>7. CASE s \notin {"closed", "bad"} /\ c # EOF /\ ~(Len(t) > STRBUFFSIZE - 1)
  <2>1. /\ s = "ok" => r = InText(next, c)
        /\ s = "bsl" => r = AfterBackslash(next, c)
        /\ s \in {"x1", "x2"} => r = InHex(next, c)
        /\ s \in {"oct1", "oct2"} => r = InOctal(next, c)
    BY <1>1, <1>7, StringStepIs
  <2>2. Good(InText(next, c))
    <3>1. InText(next, c) \in {Run("bsl", b, t, n), Run("closed", b, t, n), Run("ok", b, Append(t, c), n)}
      BY <1>1, InTextIs
    <3> QED BY <1>2, <1>3, <1>4, <3>1
  <2>3. Good(AfterBackslash(next, c))
    <3>1. \E x : AfterBackslash(next, c) \in {Run("oct1", DigitValue(c), t, n), Run("x1", 0, t, n),
                                              Run("ok", b, Append(t, x), n)}
      BY <1>1, AfterBackslashIs
    <3> QED BY <1>2, <1>3, <1>4, <3>1
  <2>4. Good(InHex(next, c))
    <3>1. \E x : InHex(next, c) \in {Run("bad", b, t, n), Run("x2", x, t, n),
                                     Run("ok", b, Append(t, x), n)}
      BY <1>1, InHexIs
    <3> QED BY <1>2, <1>3, <1>4, <3>1
  <2>5. Good(InOctal(next, c))
    <3>1. PICK s2 \in {"ok", "oct2", "bad"}, a2 \in {n, n - 1} : \E b2, t2 : InOctal(next, c) = Run(s2, b2, t2, a2)
      BY <1>1, InOctalIs
    <3>2. s2 \in States /\ a2 \in 0 .. p.past_the_end
      BY <1>2, <1>4, <1>7, <3>1
    <3>3. PICK b2, t2 : InOctal(next, c) = Run(s2, b2, t2, a2)
      BY <3>1
    <3> QED BY <1>3, <3>2, <3>3
  <2> QED BY <1>1, <1>4, <1>7, <2>1, <2>2, <2>3, <2>4, <2>5 DEF Good
<1> QED BY <1>1, <1>5, <1>6, <1>7 DEF Good
RunOf(f, p, r, N) ==
  /\ f = [k \in 0 .. N |-> f[k]]
  /\ \A k \in 0 .. N : f[k] = IF k = 0 THEN r ELSE StringStep(p, f[k - 1])

(* A run of the automaton, of a number of steps.                           *)
LEMMA RunExists ==
  ASSUME NEW p, NEW r, NEW N, N \in Nat
  PROVE  \E f : RunOf(f, p, r, N)
<1> DEFINE Is(f, n) == /\ f = [k \in 0 .. n |-> f[k]]
                       /\ \A k \in 0 .. n : f[k] = IF k = 0 THEN r ELSE StringStep(p, f[k - 1])
           S == {n \in 0 .. N : \E f : Is(f, n)}
<1>1. 0 \in S
  <2>1. PICK f : f = [k \in 0 .. 0 |-> r]
    OBVIOUS
  <2>2. f = [k \in 0 .. 0 |-> f[k]] /\ \A k \in 0 .. 0 : k = 0 /\ f[k] = r
    BY <2>1
  <2>3. Is(f, 0)
    BY <2>2
  <2> QED BY <2>3
<1>2. ASSUME NEW n \in 1 .. N, n - 1 \in S  PROVE n \in S
  <2>1. PICK f : Is(f, n - 1)
    BY <1>2
  <2>2. PICK h : h = [k \in 0 .. n |-> IF k = n THEN StringStep(p, f[n - 1]) ELSE f[k]]
    OBVIOUS
  <2>3. /\ h = [k \in 0 .. n |-> h[k]] /\ h[n] = StringStep(p, f[n - 1])
        /\ \A k \in 0 .. n : k # n => h[k] = f[k]
    BY <2>2
  <2>4. ASSUME NEW k \in 0 .. n  PROVE h[k] = IF k = 0 THEN r ELSE StringStep(p, h[k - 1])
    <3>1. CASE k = n
      <4>1. h[n - 1] = f[n - 1]
        BY <2>3
      <4> QED BY <2>3, <3>1, <4>1
    <3>2. CASE k # n
      <4>1. k \in 0 .. (n - 1) /\ (k # 0 => k - 1 \in 0 .. n /\ k - 1 # n)
        BY <3>2
      <4>2. f[k] = IF k = 0 THEN r ELSE StringStep(p, f[k - 1])
        BY <2>1, <4>1
      <4> QED BY <2>3, <3>2, <4>1, <4>2
    <3> QED BY <3>1, <3>2
  <2>5. Is(h, n)
    BY ONLY <2>3, <2>4
  <2>6. n \in 0 .. N
    OBVIOUS
  <2> HIDE DEF Is
  <2> QED BY <2>5, <2>6
<1>3. \A n \in 0 .. N : n \in S
  <2> HIDE DEF S
  <2> QED BY <1>1, <1>2, UpTo
<1> QED BY <1>3 DEF RunOf

(* The string that is read is the last of a run.                           *)
ReadsString(f, p, i, N) ==
  /\ f[0] = Run("ok", 0, << >>, i)
  /\ \A k \in 1 .. N : f[k] = StringStep(p, f[k - 1])
  /\ readstrexp(p, i) = f[N]

LEMMA StringRun ==
  ASSUME NEW p, p.past_the_end \in Nat, NEW i
  PROVE  \E f : ReadsString(f, p, i, 2 * p.past_the_end + 2)
<1>8. PICK N : N = 2 * p.past_the_end + 2
  OBVIOUS
<1>9. PICK r : r = Run("ok", 0, << >>, i)
  OBVIOUS
<1> DEFINE Rec(f) == [n \in 0 .. N |-> IF n = 0 THEN r ELSE StringStep(p, f[n - 1])]
<1>0. N \in Nat
  BY <1>8
<1>1. PICK run : run = CHOOSE f : f = Rec(f)
  OBVIOUS
<1>2. readstrexp(p, i) = run[N]
  BY <1>1, <1>8, <1>9 DEF readstrexp, Run
<1>3. run = Rec(run)
  <2>1. PICK f : RunOf(f, p, r, N)
    BY <1>0, RunExists
  <2>2. f = Rec(f)
    BY <2>1 DEF RunOf
  <2> HIDE DEF Rec
  <2> QED BY <1>1, <2>2
<1>4. 0 \in 0 .. N /\ \A k \in 1 .. N : k \in 0 .. N /\ k # 0
  BY <1>0
<1>5. run[0] = r /\ \A k \in 1 .. N : run[k] = StringStep(p, run[k - 1])
  BY <1>3, <1>4
<1> QED BY <1>2, <1>5, <1>8, <1>9 DEF ReadsString

LEMMA StringBounds ==
  ASSUME NEW p, p.past_the_end \in Nat, NEW i \in 0 .. p.past_the_end
  PROVE  readstrexp(p, i).at \in 0 .. p.past_the_end
<1>1. PICK N : N = 2 * p.past_the_end + 2
  OBVIOUS
<1>2. PICK f : /\ f[0] = Run("ok", 0, << >>, i)
               /\ \A k \in 1 .. N : f[k] = StringStep(p, f[k - 1])
               /\ readstrexp(p, i) = f[N]
  <2>1. PICK f : ReadsString(f, p, i, 2 * p.past_the_end + 2)
    BY StringRun
  <2>2. ReadsString(f, p, i, N)
    BY <1>1, <2>1
  <2> QED BY <2>2 DEF ReadsString
<1> DEFINE Good(x) == \E s \in States, a \in 0 .. p.past_the_end : \E b, t : x = Run(s, b, t, a)
           S == {k \in 0 .. N : Good(f[k])}
<1>3. 0 \in S
  BY <1>1, <1>2 DEF States
<1>4. ASSUME NEW k \in 1 .. N, k - 1 \in S  PROVE k \in S
  <2>1. PICK s \in States, a \in 0 .. p.past_the_end, b \in {f[k - 1].c1}, t \in {f[k - 1].str} : f[k - 1] = Run(s, b, t, a)
    <3>1. PICK s \in States, a \in 0 .. p.past_the_end : \E b, t : f[k - 1] = Run(s, b, t, a)
      BY <1>4
    <3>2. PICK b, t : f[k - 1] = Run(s, b, t, a)
      BY <3>1
    <3>3. b = f[k - 1].c1 /\ t = f[k - 1].str
      BY <3>2, RunFields
    <3> QED BY <3>2, <3>3
  <2>2. f[k] = StringStep(p, Run(s, b, t, a))
    BY <1>2, <2>1
  <2>3. Good(f[k])
    BY <2>2, StringStepBounds
  <2>4. k \in 0 .. N
    BY <1>1
  <2> HIDE DEF Good
  <2> QED BY <2>3, <2>4
<1>5. N \in Nat
  BY <1>1
<1>6. \A k \in 0 .. N : k \in S
  <2> HIDE DEF S
  <2> QED BY <1>3, <1>4, <1>5, UpTo
<1>7. Good(f[N])
  BY <1>5, <1>6
<1>8. PICK s \in States, a \in 0 .. p.past_the_end : \E b, t : f[N] = Run(s, b, t, a)
  BY <1>7
<1>9. PICK b, t : f[N] = Run(s, b, t, a)
  BY <1>8
<1> QED BY <1>2, <1>9, RunFields
---------------------------------------------------------------------------
(* Where the printer is, and what it prints from there.                    *)

LEMMA HeadTail ==
  ASSUME NEW s, IsSeq(s), s # << >>
  PROVE  /\ Head(s) = s[1] /\ IsSeq(Tail(s)) /\ s = <<Head(s)>> \o Tail(s)
         /\ Len(Tail(s)) = Len(s) - 1 /\ Len(s) \in Nat \ {0}
         /\ \A k \in 1 .. Len(s) - 1 : Tail(s)[k] = s[k + 1]
<1>1. PICK X : s \in Seq(X)
  BY DEF IsSeq
<1>2. Tail(s) \in Seq(X) /\ Head(s) \in X /\ Head(s) = s[1]
      /\ Len(Tail(s)) = Len(s) - 1 /\ Len(s) \in Nat \ {0}
      /\ \A k \in 1 .. Len(s) - 1 : Tail(s)[k] = s[k + 1]
  BY <1>1
<1>3. s = <<Head(s)>> \o Tail(s)
  <2>1. PICK h, t : h = Head(s) /\ t = Tail(s)
    OBVIOUS
  <2>2. t \in Seq(X) /\ h \in X
    BY <1>2, <2>1
  <2>3. <<h>> \o t \in Seq(X) /\ Len(<<h>> \o t) = Len(t) + 1
    BY <2>2
  <2>4. (<<h>> \o t)[1] = h /\ \A k \in 1 .. Len(t) : (<<h>> \o t)[k + 1] = t[k]
    BY <2>2
  <2>5. ASSUME NEW k \in 1 .. Len(s)  PROVE s[k] = (<<h>> \o t)[k]
    <3>1. CASE k = 1
      BY <1>2, <2>1, <2>4, <3>1
    <3>2. CASE k # 1
      <4>1. k - 1 \in 1 .. Len(t) /\ k - 1 \in 1 .. Len(s) - 1 /\ (k - 1) + 1 = k
        BY <1>2, <2>1, <3>2
      <4> QED BY <1>2, <2>1, <2>4, <4>1
    <3> QED BY <3>1, <3>2
  <2>6. Len(s) = Len(<<h>> \o t)
    BY <1>2, <2>1, <2>3
  <2>7. s = <<h>> \o t
    BY <1>1, <2>3, <2>5, <2>6, SeqEqual
  <2> QED BY <2>1, <2>7
<1>4. IsSeq(Tail(s))
  BY <1>2 DEF IsSeq
<1> QED BY <1>2, <1>3, <1>4

PrintOps == {"P0LIST", "P1LIST", "PVECFROM"}

(* What a printing opcode may have to print.                               *)
ToPrint(np, o, a) ==
  \/ o \in {"P0LIST", "P1LIST"} /\ Sound(np, a)
  \/ /\ o = "PVECFROM" /\ a = [vec |-> a.vec, from |-> a.from]
     /\ Sound(np, Vector(a.vec)) /\ a.from \in 0 .. Len(a.vec)

(* What may be on the dump of the printer.                                 *)
Dumped(np, p) ==
  IsSeq(p) /\ \A k \in 1 .. Len(p) : ToPrint(np, p[k].op, p[k].args)

Place(o, a, p, n) == [op |-> o, args |-> a, p |-> p, n |-> n]

Frame(o, a) == [op |-> o, args |-> a]

(* Where an opcode returns to.                                             *)
Pop(p, n) ==
  IF p = << >> THEN Place("returned", NIL, << >>, n)
  ELSE Place(Head(p).op, Head(p).args, Tail(p), n)

(* A place between two data, or in one of them; n data are begun.          *)
Entry(np, e) ==
  /\ e = Place(e.op, e.args, e.p, e.n) /\ e.n \in Nat /\ Dumped(np, e.p)
  /\ \/ ToPrint(np, e.op, e.args) /\ e.n # 0
     \/ e.op = "idle" /\ e.args = NIL /\ e.p = << >>
     \/ e.op = "returned" /\ e.args = NIL /\ e.p = << >> /\ e.n # 0

(* One text that is printed, and where the printer is then.  The end of a  *)
(* list that has an atom for its tail is three of them.                    *)
Step(X, e, t, f) ==
  \/ /\ e.op = "P0LIST" /\ e.args.type = "vector"
     /\ t = <<"#", "(">>
     /\ f = Place("PVECFROM", [vec |-> e.args.elements, from |-> 0], e.p, e.n)
  \/ /\ e.op = "P0LIST" /\ e.args.type \notin {"vector", "pair"}
     /\ t = atom2str(e.args)
     /\ f = Pop(e.p, e.n)
  \/ /\ e.op = "P0LIST" /\ Abbreviated(e.args)
     /\ t = Prefix(e.args.car)
     /\ f = Place("P0LIST", e.args.cdr.car, e.p, e.n)
  \/ /\ e.op = "P0LIST" /\ e.args.type = "pair" /\ ~Abbreviated(e.args)
     /\ t = <<"(">>
     /\ f = Place("P0LIST", e.args.car, <<Frame("P1LIST", e.args.cdr)>> \o e.p, e.n)
  \/ /\ e.op = "P1LIST" /\ e.args.type = "pair"
     /\ t = <<" ">>
     /\ f = Place("P0LIST", e.args.car, <<Frame("P1LIST", e.args.cdr)>> \o e.p, e.n)
  \/ /\ e.op = "P1LIST" /\ e.args.type # "pair" /\ e.args # NIL
     /\ t = <<" ", ".", " ">>
     /\ f = Place("P0LIST", e.args, <<Frame("P1LIST", NIL)>> \o e.p, e.n)
  \/ /\ e.op = "P1LIST" /\ e.args = NIL
     /\ t = <<")">>
     /\ f = Pop(e.p, e.n)
  \/ /\ e.op = "PVECFROM" /\ e.args.from = Len(e.args.vec)
     /\ t = <<")">>
     /\ f = Pop(e.p, e.n)
  \/ /\ e.op = "PVECFROM" /\ e.args.from # Len(e.args.vec)
     /\ t = <<" ">>
     /\ f = Place("P0LIST", e.args.vec[e.args.from + 1],
                  <<Frame("PVECFROM", [e.args EXCEPT !.from = @ + 1])>> \o e.p, e.n)
  \/ /\ e.op = "returned" /\ t \in Separators
     /\ f = Place("idle", NIL, << >>, e.n)
  \/ /\ e.op = "idle" /\ e.n < Len(X) /\ t = << >>
     /\ f = Place("P0LIST", X[e.n + 1], << >>, e.n + 1)

LEMMA PlaceFields ==
  ASSUME NEW o, NEW a, NEW p, NEW n
  PROVE  /\ Place(o, a, p, n).op = o /\ Place(o, a, p, n).args = a
         /\ Place(o, a, p, n).p = p /\ Place(o, a, p, n).n = n
         /\ Frame(o, a).op = o /\ Frame(o, a).args = a
BY DEF Place, Frame

LEMMA NoFrames ==
  ASSUME NEW np
  PROVE  Dumped(np, << >>)
BY SeqEmpty DEF Dumped

LEMMA PushFrame ==
  ASSUME NEW np, NEW p, Dumped(np, p), NEW o, NEW a, ToPrint(np, o, a)
  PROVE  Dumped(np, <<Frame(o, a)>> \o p)
<1>1. PICK f, q : f = Frame(o, a) /\ q = <<f>> \o p
  OBVIOUS
<1>2. f.op = o /\ f.args = a
  BY <1>1, PlaceFields
<1>3. IsSeq(p) /\ \A k \in 1 .. Len(p) : ToPrint(np, p[k].op, p[k].args)
  BY DEF Dumped
<1>4. IsSeq(q) /\ Len(q) = Len(p) + 1 /\ Len(p) \in Nat /\ q[1] = f
      /\ \A k \in 1 .. Len(p) : q[k + 1] = p[k]
  BY <1>1, <1>3, Pushed
<1>5. ASSUME NEW k \in 1 .. Len(q)  PROVE ToPrint(np, q[k].op, q[k].args)
  <2>1. CASE k = 1
    BY <1>2, <1>4, <2>1
  <2>2. CASE k # 1
    <3>1. k - 1 \in 1 .. Len(p) /\ (k - 1) + 1 = k
      BY <1>4, <2>2
    <3>2. q[k] = p[k - 1]
      BY <1>4, <3>1
    <3> QED BY <1>3, <3>1, <3>2
  <2> QED BY <2>1, <2>2
<1>6. Dumped(np, q)
  BY <1>4, <1>5 DEF Dumped
<1> QED BY <1>1, <1>6

LEMMA PopFrame ==
  ASSUME NEW np, NEW p, Dumped(np, p), p # << >>
  PROVE  Dumped(np, Tail(p)) /\ ToPrint(np, Head(p).op, Head(p).args)
<1>1. IsSeq(p) /\ \A k \in 1 .. Len(p) : ToPrint(np, p[k].op, p[k].args)
  BY DEF Dumped
<1>2. PICK q : q = Tail(p)
  OBVIOUS
<1>3. /\ Head(p) = p[1] /\ IsSeq(q) /\ Len(q) = Len(p) - 1 /\ Len(p) \in Nat \ {0}
      /\ \A k \in 1 .. Len(p) - 1 : q[k] = p[k + 1]
  BY <1>1, <1>2, HeadTail
<1>4. ASSUME NEW k \in 1 .. Len(q)  PROVE ToPrint(np, q[k].op, q[k].args)
  <2>1. k \in 1 .. Len(p) - 1 /\ k + 1 \in 1 .. Len(p)
    BY <1>3
  <2> QED BY <1>1, <1>3, <2>1
<1>5. 1 \in 1 .. Len(p)
  BY <1>3
<1> QED BY <1>1, <1>2, <1>3, <1>4, <1>5 DEF Dumped

LEMMA PopEntry ==
  ASSUME NEW np, NEW p, Dumped(np, p), NEW n \in Nat \ {0}
  PROVE  Entry(np, Pop(p, n))
<1>1. CASE p = << >>
  <2>1. PICK e : e = Place("returned", NIL, << >>, n)
    OBVIOUS
  <2>2. e.op = "returned" /\ e.args = NIL /\ e.p = << >> /\ e.n = n
    BY <2>1, PlaceFields
  <2>3. Entry(np, e)
    BY <2>1, <2>2, NoFrames DEF Entry
  <2> QED BY <1>1, <2>1, <2>3 DEF Pop
<1>2. CASE p # << >>
  <2>1. PICK o, a, q, e : o = Head(p).op /\ a = Head(p).args /\ q = Tail(p) /\ e = Place(o, a, q, n)
    OBVIOUS
  <2>2. e.op = o /\ e.args = a /\ e.p = q /\ e.n = n
    BY <2>1 DEF Place
  <2>3. Dumped(np, q) /\ ToPrint(np, o, a)
    BY <1>2, <2>1, PopFrame
  <2>4. Entry(np, e)
    BY <2>1, <2>2, <2>3 DEF Entry
  <2> QED BY <1>2, <2>1, <2>4 DEF Pop
<1> QED BY <1>1, <1>2

LEMMA PrintEntry ==
  ASSUME NEW np, NEW o, NEW a, NEW p, NEW n \in Nat \ {0}, ToPrint(np, o, a), Dumped(np, p)
  PROVE  Entry(np, Place(o, a, p, n))
<1>1. PICK e : e = Place(o, a, p, n)
  OBVIOUS
<1>2. e.op = o /\ e.args = a /\ e.p = p /\ e.n = n
  BY <1>1, PlaceFields
<1>3. Entry(np, e)
  BY <1>1, <1>2 DEF Entry
<1> QED BY <1>1, <1>3

LEMMA EntryPrints ==
  ASSUME NEW np, NEW e, Entry(np, e), e.op \in PrintOps
  PROVE  ToPrint(np, e.op, e.args) /\ Dumped(np, e.p) /\ e.n \in Nat \ {0}
<1>1. e.op # "idle" /\ e.op # "returned"
  BY DEF PrintOps
<1> QED BY <1>1 DEF Entry

LEMMA VectorToPrint ==
  ASSUME NEW np, NEW a, ToPrint(np, "PVECFROM", a)
  PROVE  /\ a = [vec |-> a.vec, from |-> a.from] /\ Sound(np, Vector(a.vec))
         /\ a.from \in 0 .. Len(a.vec) /\ IsSeq(a.vec) /\ Len(a.vec) \in Nat
         /\ \A k \in 1 .. Len(a.vec) : Sound(np, a.vec[k])
<1>1. a = [vec |-> a.vec, from |-> a.from] /\ Sound(np, Vector(a.vec)) /\ a.from \in 0 .. Len(a.vec)
  BY DEF ToPrint
<1>2. PICK v, w : v = Vector(w) /\ w = a.vec
  OBVIOUS
<1>3. v.type = "vector" /\ v.elements = w
  BY <1>2 DEF Vector
<1>4. IsSeq(w) /\ Len(w) \in Nat /\ \A k \in 1 .. Len(w) : Sound(np, w[k])
  BY <1>1, <1>2, <1>3, SoundVector
<1> QED BY <1>1, <1>2, <1>4

LEMMA StepEntry ==
  ASSUME NEW np, NEW X, NEW e, Entry(np, e), NEW t, NEW f, Step(X, e, t, f),
         \A k \in 1 .. Len(X) : Sound(np, X[k]), Len(X) \in Nat
  PROVE  Entry(np, f) /\ IsSeq(t)
<1>0. \A a : Sound(np, a) => ToPrint(np, "P0LIST", a) /\ ToPrint(np, "P1LIST", a)
  BY DEF ToPrint
<1>1. e.op \in PrintOps => ToPrint(np, e.op, e.args) /\ Dumped(np, e.p) /\ e.n \in Nat \ {0}
  BY EntryPrints
<1>2. e.op \in {"P0LIST", "P1LIST"} => Sound(np, e.args) /\ Dumped(np, e.p) /\ e.n \in Nat \ {0}
  BY <1>1 DEF ToPrint, PrintOps
<1>3. e.op = "PVECFROM" => ToPrint(np, "PVECFROM", e.args) /\ Dumped(np, e.p) /\ e.n \in Nat \ {0}
  BY <1>1 DEF PrintOps
<1>4. CASE /\ e.op = "P0LIST" /\ e.args.type = "vector"
           /\ t = <<"#", "(">>
           /\ f = Place("PVECFROM", [vec |-> e.args.elements, from |-> 0], e.p, e.n)
  <2>1. Sound(np, e.args) /\ e.args = Vector(e.args.elements) /\ Len(e.args.elements) \in Nat
    BY <1>2, <1>4, SoundVector
  <2>2. PICK a : a = [vec |-> e.args.elements, from |-> 0]
    OBVIOUS
  <2>3. a.vec = e.args.elements /\ a.from = 0 /\ a = [vec |-> a.vec, from |-> a.from]
    BY <2>2
  <2>4. Sound(np, Vector(a.vec))
    BY <2>1, <2>3
  <2>5. ToPrint(np, "PVECFROM", a)
    BY <2>1, <2>3, <2>4 DEF ToPrint
  <2> QED BY <1>2, <1>4, <2>2, <2>5, PrintEntry, SeqTwo
<1>5. CASE /\ e.op = "P0LIST" /\ e.args.type \notin {"vector", "pair"}
           /\ t = atom2str(e.args)
           /\ f = Pop(e.p, e.n)
  BY <1>2, <1>5, AtomSeq, PopEntry
<1>6. CASE /\ e.op = "P0LIST" /\ Abbreviated(e.args)
           /\ t = Prefix(e.args.car)
           /\ f = Place("P0LIST", e.args.cdr.car, e.p, e.n)
  <2>1. e.args.type = "pair" /\ e.args.cdr.type = "pair" /\ IsSeq(Prefix(e.args.car))
    BY <1>6, PrefixSeq
  <2>2. PICK d : d = e.args.cdr
    OBVIOUS
  <2>3. Sound(np, d)
    BY <1>2, <1>6, <2>1, <2>2, SoundPair
  <2>4. Sound(np, d.car)
    BY <2>1, <2>2, <2>3, SoundPair
  <2> QED BY <1>0, <1>2, <1>6, <2>1, <2>2, <2>4, PrintEntry
<1>7. CASE /\ e.op \in {"P0LIST", "P1LIST"} /\ e.args.type = "pair"
           /\ t \in {<<"(">>, <<" ">>}
           /\ f = Place("P0LIST", e.args.car, <<Frame("P1LIST", e.args.cdr)>> \o e.p, e.n)
  <2>1. Sound(np, e.args.car) /\ Sound(np, e.args.cdr)
    BY <1>2, <1>7, SoundPair
  <2>2. Dumped(np, <<Frame("P1LIST", e.args.cdr)>> \o e.p)
    BY <1>0, <1>2, <1>7, <2>1, PushFrame
  <2> QED BY <1>0, <1>2, <1>7, <2>1, <2>2, PrintEntry, SeqOne
<1>8. CASE /\ e.op = "P1LIST" /\ e.args.type # "pair" /\ e.args # NIL
           /\ t = <<" ", ".", " ">>
           /\ f = Place("P0LIST", e.args, <<Frame("P1LIST", NIL)>> \o e.p, e.n)
  <2>1. Dumped(np, <<Frame("P1LIST", NIL)>> \o e.p)
    BY <1>0, <1>2, <1>8, PushFrame, NilSound
  <2> QED BY <1>0, <1>2, <1>8, <2>1, PrintEntry, SeqThree
<1>9. CASE /\ e.op \in {"P1LIST", "PVECFROM"}
           /\ t = <<")">>
           /\ f = Pop(e.p, e.n)
  BY <1>2, <1>3, <1>9, PopEntry, SeqOne
<1>10. CASE /\ e.op = "PVECFROM" /\ e.args.from # Len(e.args.vec)
            /\ t = <<" ">>
            /\ f = Place("P0LIST", e.args.vec[e.args.from + 1],
                         <<Frame("PVECFROM", [e.args EXCEPT !.from = @ + 1])>> \o e.p, e.n)
  <2>0. PICK a, v, k : a = e.args /\ v = a.vec /\ k = a.from
    OBVIOUS
  <2>1. PICK b : b = [a EXCEPT !.from = @ + 1]
    OBVIOUS
  <2>2. /\ a = [vec |-> v, from |-> k] /\ Sound(np, Vector(v)) /\ k \in 0 .. Len(v) /\ Len(v) \in Nat
        /\ \A j \in 1 .. Len(v) : Sound(np, v[j])
    BY <1>3, <1>10, <2>0, VectorToPrint
  <2>3. b = [vec |-> v, from |-> k + 1]
    BY <2>1, <2>2
  <2>9. k # Len(v) /\ e.op = "PVECFROM" /\ t = <<" ">>
    <3>1. e.op = "PVECFROM" /\ t = <<" ">> /\ e.args.from # Len(e.args.vec)
      BY <1>10, Zenon
    <3> QED BY ONLY <2>0, <3>1
  <2>4. b.vec = v /\ b.from = k + 1 /\ k + 1 \in 1 .. Len(v)
    <3>1. b.vec = v /\ b.from = k + 1
      BY ONLY <2>3
    <3>2. k \in 0 .. Len(v) /\ Len(v) \in Nat
      BY ONLY <2>2
    <3>3. k # Len(v)
      BY ONLY <2>9
    <3>4. k + 1 \in 1 .. Len(v)
      BY ONLY <3>2, <3>3
    <3> QED BY ONLY <3>1, <3>4
  <2>5. ToPrint(np, "PVECFROM", b)
    BY <2>2, <2>3, <2>4 DEF ToPrint
  <2>6. Sound(np, v[k + 1])
    BY <2>2, <2>4
  <2>7. Dumped(np, <<Frame("PVECFROM", b)>> \o e.p)
    BY <1>3, <1>10, <2>5, PushFrame
  <2>8. f = Place("P0LIST", v[k + 1], <<Frame("PVECFROM", b)>> \o e.p, e.n)
    BY <1>10, <2>0, <2>1
  <2>10. IsSeq(t)
    BY <2>9, SeqOne
  <2>11. ToPrint(np, "P0LIST", v[k + 1]) /\ e.n \in Nat \ {0}
    BY <1>0, <1>3, <2>6, <2>9
  <2> QED BY ONLY <2>7, <2>8, <2>10, <2>11, PrintEntry
<1>11. CASE /\ e.op = "returned" /\ t \in Separators
            /\ f = Place("idle", NIL, << >>, e.n)
  <2>1. f.op = "idle" /\ f.args = NIL /\ f.p = << >> /\ f.n = e.n
    BY <1>11, PlaceFields
  <2>2. f = Place(f.op, f.args, f.p, f.n)
    BY <1>11, <2>1
  <2>3. e.n \in Nat
    BY DEF Entry
  <2>4. IsSeq(t)
    <3>1. IsSeq(<<"\n">>) /\ IsSeq(<<" ">>) /\ IsSeq(<<";", "(", "\n">>)
      BY SeqOne, SeqThree
    <3> QED BY <1>11, <3>1 DEF Separators
  <2> QED BY <2>1, <2>2, <2>3, <2>4, NoFrames DEF Entry
<1>12. CASE /\ e.op = "idle" /\ e.n < Len(X) /\ t = << >>
            /\ f = Place("P0LIST", X[e.n + 1], << >>, e.n + 1)
  <2>1. e.n \in Nat
    BY DEF Entry
  <2>2. e.n + 1 \in 1 .. Len(X) /\ e.n + 1 \in Nat \ {0}
    BY <1>12, <2>1
  <2>3. ToPrint(np, "P0LIST", X[e.n + 1])
    BY <1>0, <2>2
  <2> QED BY <1>12, <2>2, <2>3, PrintEntry, NoFrames, SeqEmpty
<1> QED
  <2>1. Step(X, e, t, f)
    OBVIOUS
  <2> QED BY <1>4, <1>5, <1>6, <1>7, <1>8, <1>9, <1>10, <1>11, <1>12, <2>1 DEF Step
---------------------------------------------------------------------------
(* The text that is printed on the way from a place to a later one.        *)

Leads(np, T, X, k, c, L) ==
  \A g \in L : /\ g = <<g[1], g[2]>> /\ g[1] \in Nat /\ Entry(np, g[2])
               /\ \/ g[1] = k /\ g[2] = c
                  \/ \E t, f : /\ Step(X, g[2], t, f) /\ IsSeq(t) /\ Slice(T, g[1], t)
                               /\ <<g[1] + Len(t), f>> \in L

Reach(np, T, X, i, e, k, c) == \E L : <<i, e>> \in L /\ Leads(np, T, X, k, c, L)

LEMMA ReachHere ==
  ASSUME NEW np, NEW T, NEW X, NEW k \in Nat, NEW c, Entry(np, c)
  PROVE  Reach(np, T, X, k, c, k, c)
<1>1. PICK L : L = {<<k, c>>}
  OBVIOUS
<1>2. <<k, c>> \in L /\ Leads(np, T, X, k, c, L)
  BY <1>1 DEF Leads
<1> QED BY <1>2 DEF Reach

LEMMA ReachNext ==
  ASSUME NEW np, NEW T, NEW X, NEW i, NEW e, NEW k, NEW c, Reach(np, T, X, i, e, k, c)
  PROVE  /\ Entry(np, e) /\ i \in Nat
         /\ \/ i = k /\ e = c
            \/ \E t, f : /\ Step(X, e, t, f) /\ IsSeq(t) /\ Slice(T, i, t)
                         /\ Reach(np, T, X, i + Len(t), f, k, c)
<1>1. PICK L : <<i, e>> \in L /\ Leads(np, T, X, k, c, L)
  BY DEF Reach
<1>2. PICK g : g = <<i, e>>
  OBVIOUS
<1>3. g \in L /\ g[1] = i /\ g[2] = e
  BY <1>1, <1>2
<1>4. /\ Entry(np, e) /\ i \in Nat
      /\ \/ i = k /\ e = c
         \/ \E t, f : Step(X, e, t, f) /\ IsSeq(t) /\ Slice(T, i, t) /\ <<i + Len(t), f>> \in L
  BY <1>1, <1>3 DEF Leads
<1>5. \A t, f : <<i + Len(t), f>> \in L => Reach(np, T, X, i + Len(t), f, k, c)
  BY <1>1 DEF Reach
<1> QED BY <1>4, <1>5

(* More of the same data may follow.                                       *)
Extends(X, Y) ==
  Len(X) \in Nat /\ Len(Y) \in Nat /\ Len(X) <= Len(Y) /\ \A k \in 1 .. Len(X) : Y[k] = X[k]

LEMMA StepExtends ==
  ASSUME NEW X, NEW Y, Extends(X, Y), NEW e, e.n \in Nat, NEW t, NEW f, Step(X, e, t, f)
  PROVE  Step(Y, e, t, f)
<1>1. e.n < Len(X) => e.n < Len(Y) /\ X[e.n + 1] = Y[e.n + 1]
  <2>1. e.n < Len(X) => e.n + 1 \in 1 .. Len(X)
    BY DEF Extends
  <2> QED BY <2>1 DEF Extends
<1>2. CASE /\ e.op = "idle" /\ e.n < Len(X) /\ t = << >>
           /\ f = Place("P0LIST", X[e.n + 1], << >>, e.n + 1)
  BY <1>1, <1>2 DEF Step
<1>3. CASE ~(/\ e.op = "idle" /\ e.n < Len(X) /\ t = << >>
             /\ f = Place("P0LIST", X[e.n + 1], << >>, e.n + 1))
  BY <1>3, Zenon DEF Step
<1> QED BY <1>2, <1>3

LEMMA ReachMore ==
  ASSUME NEW np, NEW T, IsSeq(T), NEW X, NEW Y, Extends(X, Y), NEW i, NEW e, NEW c,
         Reach(np, T, X, i, e, Len(T), c), NEW t, IsSeq(t), NEW f, Step(Y, c, t, f), Entry(np, f)
  PROVE  Reach(np, T \o t, Y, i, e, Len(T \o t), f)
<1>1. PICK L : <<i, e>> \in L /\ Leads(np, T, X, Len(T), c, L)
  BY DEF Reach
<1>2. PICK N, U, m : N = L \cup {<<m, f>>} /\ U = T \o t /\ m = Len(U)
  OBVIOUS
<1>3. /\ IsSeq(U) /\ Len(T) \in Nat /\ Len(t) \in Nat /\ m = Len(T) + Len(t) /\ m \in Nat
  BY <1>2, SeqConcat
<1>4. \A j, u : j \in Nat /\ IsSeq(u) /\ Slice(T, j, u) => Slice(U, j, u)
  BY <1>2, SliceStays
<1>5. Slice(U, Len(T), t)
  BY <1>2, SliceAdded
<1>6. ASSUME NEW g \in N
      PROVE  /\ g = <<g[1], g[2]>> /\ g[1] \in Nat /\ Entry(np, g[2])
             /\ \/ g[1] = m /\ g[2] = f
                \/ \E u, h : /\ Step(Y, g[2], u, h) /\ IsSeq(u) /\ Slice(U, g[1], u)
                             /\ <<g[1] + Len(u), h>> \in N
  <2>1. CASE g = <<m, f>>
    BY <1>3, <2>1
  <2>2. CASE g \in L
    <3>1. g = <<g[1], g[2]>> /\ g[1] \in Nat /\ Entry(np, g[2])
      BY <1>1, <2>2 DEF Leads
    <3>2. CASE g[1] = Len(T) /\ g[2] = c
      <4>1. <<g[1] + Len(t), f>> \in N
        BY <1>2, <1>3, <3>2
      <4>2. Step(Y, g[2], t, f) /\ Slice(U, g[1], t)
        BY <1>5, <3>2
      <4> QED BY <3>1, <4>1, <4>2
    <3>3. CASE \E u, h : /\ Step(X, g[2], u, h) /\ IsSeq(u) /\ Slice(T, g[1], u)
                         /\ <<g[1] + Len(u), h>> \in L
      <4>1. PICK u, h : /\ Step(X, g[2], u, h) /\ IsSeq(u) /\ Slice(T, g[1], u)
                        /\ <<g[1] + Len(u), h>> \in L
        BY <3>3
      <4>2. g[2].n \in Nat
        BY <3>1 DEF Entry
      <4>3. Step(Y, g[2], u, h)
        BY <4>1, <4>2, StepExtends
      <4>4. Slice(U, g[1], u)
        BY <1>4, <3>1, <4>1
      <4>5. <<g[1] + Len(u), h>> \in N
        BY <1>2, <4>1
      <4> QED BY <3>1, <4>1, <4>3, <4>4, <4>5
    <3> QED BY <1>1, <2>2, <3>2, <3>3 DEF Leads
  <2> QED BY <1>2, <2>1, <2>2
<1>7. Leads(np, U, Y, m, f, N)
  BY <1>6 DEF Leads
<1>8. <<i, e>> \in N
  BY <1>1, <1>2
<1> QED BY <1>2, <1>7, <1>8 DEF Reach

---------------------------------------------------------------------------
(* What the printing opcodes do.                                           *)

Now == Place(op, IF op \in PrintOps THEN args ELSE NIL, dump, Len(expect))

LEMMA NowIs ==
  /\ Now.op = op /\ Now.p = dump /\ Now.n = Len(expect)
  /\ Now.args = IF op \in PrintOps THEN args ELSE NIL
  /\ op \in PrintOps => Now.args = args
BY PlaceFields DEF Now

LEMMA NowBecomes ==
  /\ op' \in PrintOps => Now' = Place(op', args', dump', Len(expect'))
  /\ op' \notin PrintOps => Now' = Place(op', NIL, dump', Len(expect'))
BY DEF Now

LEMMA ReturnsTo ==
  ASSUME NEW np, Dumped(np, dump), NEW v, s_return(v), expect' = expect
  PROVE  Now' = Pop(dump, Len(expect))
<1>1. CASE dump = << >>
  <2>1. op' = "returned" /\ dump' = << >>
    BY <1>1 DEF s_return, ReturnTo
  <2>2. op' \notin PrintOps
    BY <2>1 DEF PrintOps
  <2> QED BY <1>1, <2>1, <2>2, NowBecomes DEF Pop
<1>2. CASE dump # << >>
  <2>1. op' = Head(dump).op /\ args' = Head(dump).args /\ dump' = Tail(dump)
    BY <1>2 DEF s_return, ReturnTo
  <2>2. op' \in PrintOps
    <3>1. ToPrint(np, Head(dump).op, Head(dump).args)
      BY <1>2, PopFrame
    <3> QED BY <2>1, <3>1 DEF ToPrint, PrintOps
  <2> QED BY <1>2, <2>1, <2>2, NowBecomes DEF Pop
<1> QED BY <1>1, <1>2

LEMMA Goes ==
  ASSUME NEW o, NEW a, NEW p, op' = o, args' = a, dump' = p, o \in PrintOps, expect' = expect
  PROVE  Now' = Place(o, a, p, Len(expect))
BY NowBecomes

(* One piece of text, or three of them.                                    *)
Prints(t) == outport' = putstr(outport, t)

LEMMA Printed ==
  ASSUME NEW np, Entry(np, Now), Printing, expect' = expect
  PROVE  \/ \E t : Step(expect, Now, t, Now') /\ Prints(t)
         \/ \E t, f, g : /\ Step(expect, Now, <<" ", ".", " ">>, f) /\ Step(expect, f, t, g)
                         /\ Step(expect, g, <<")">>, Now')
                         /\ Prints((<<" ", ".", " ">> \o t) \o <<")">>)
<1>1. PICK e, n : e = Now /\ n = Len(expect)
  OBVIOUS
<1>2. /\ e.op = op /\ e.p = dump /\ e.n = n /\ (op \in PrintOps => e.args = args)
      /\ Entry(np, e)
  BY <1>1, NowIs
<1>3. op \in PrintOps => Dumped(np, dump) /\ ToPrint(np, op, args)
  BY <1>2, EntryPrints
<1>4. \A t : put(t) <=> Prints(t)
  BY DEF put, Prints
<1>5. CASE P0LISTvector
  <2>1. op = "P0LIST" /\ args.type = "vector" /\ Prints(<<"#", "(">>)
        /\ op' = "PVECFROM" /\ args' = [vec |-> args.elements, from |-> 0] /\ dump' = dump
    BY <1>4, <1>5 DEF P0LISTvector
  <2>2. op \in PrintOps /\ "PVECFROM" \in PrintOps
    BY <2>1 DEF PrintOps
  <2>3. PICK a : a = [vec |-> args.elements, from |-> 0]
    OBVIOUS
  <2>4. Now' = Place("PVECFROM", a, dump, n)
    BY <1>1, <2>1, <2>2, <2>3, Goes
  <2>5. Step(expect, e, <<"#", "(">>, Now')
    BY <1>2, <2>1, <2>2, <2>3, <2>4 DEF Step
  <2> QED BY <1>1, <2>1, <2>5
<1>6. CASE P0LISTatom
  <2>1. op = "P0LIST" /\ args.type \notin {"vector", "pair"} /\ Prints(atom2str(args))
        /\ s_return(Bool(TRUE))
    BY <1>4, <1>6 DEF P0LISTatom
  <2>2. op \in PrintOps
    BY <2>1 DEF PrintOps
  <2>3. Now' = Pop(dump, n)
    BY <1>1, <1>3, <2>1, <2>2, ReturnsTo
  <2>4. Step(expect, e, atom2str(args), Now')
    BY <1>2, <2>1, <2>2, <2>3 DEF Step
  <2> QED BY <1>1, <2>1, <2>4
<1>7. CASE P0LISTabbreviation
  <2>1. op = "P0LIST" /\ Abbreviated(args) /\ Prints(Prefix(args.car))
        /\ op' = "P0LIST" /\ args' = args.cdr.car /\ dump' = dump
    BY <1>4, <1>7 DEF P0LISTabbreviation
  <2>2. op \in PrintOps
    BY <2>1 DEF PrintOps
  <2>4. Now' = Place("P0LIST", args.cdr.car, dump, n)
    BY <1>1, <2>1, <2>2, Goes
  <2>5. Step(expect, e, Prefix(args.car), Now')
    BY <1>2, <2>1, <2>2, <2>4 DEF Step
  <2> QED BY <1>1, <2>1, <2>5
<1>8. CASE P0LISTpair
  <2>1. /\ op = "P0LIST" /\ args.type = "pair" /\ ~Abbreviated(args) /\ Prints(<<"(">>)
        /\ op' = "P0LIST" /\ args' = args.car /\ dump' = <<Frame("P1LIST", args.cdr)>> \o dump
    BY <1>4, <1>8 DEF P0LISTpair, s_save, Frame
  <2>2. op \in PrintOps
    BY <2>1 DEF PrintOps
  <2>4. Now' = Place("P0LIST", args.car, <<Frame("P1LIST", args.cdr)>> \o dump, n)
    BY <1>1, <2>1, <2>2, Goes
  <2>5. Step(expect, e, <<"(">>, Now')
    BY <1>2, <2>1, <2>2, <2>4 DEF Step
  <2> QED BY <1>1, <2>1, <2>5
<1>9. CASE P1LISTpair
  <2>1. /\ op = "P1LIST" /\ args.type = "pair" /\ Prints(<<" ">>)
        /\ op' = "P0LIST" /\ args' = args.car /\ dump' = <<Frame("P1LIST", args.cdr)>> \o dump
    BY <1>4, <1>9 DEF P1LISTpair, s_save, Frame
  <2>2. op \in PrintOps /\ "P0LIST" \in PrintOps
    BY <2>1 DEF PrintOps
  <2>4. Now' = Place("P0LIST", args.car, <<Frame("P1LIST", args.cdr)>> \o dump, n)
    BY <1>1, <2>1, <2>2, Goes
  <2>5. Step(expect, e, <<" ">>, Now')
    BY <1>2, <2>1, <2>2, <2>4 DEF Step
  <2> QED BY <1>1, <2>1, <2>5
<1>10. CASE P1LISTvector
  <2>1. /\ op = "P1LIST" /\ args.type = "vector" /\ Prints(<<" ", ".", " ">>)
        /\ op' = "P0LIST" /\ args' = args /\ dump' = <<Frame("P1LIST", NIL)>> \o dump
    BY <1>4, <1>10 DEF P1LISTvector, s_save, Frame
  <2>2. op \in PrintOps /\ "P0LIST" \in PrintOps
    BY <2>1 DEF PrintOps
  <2>3. args # NIL
    <3>1. NIL.type = "nil"
      BY DEF NIL
    <3> HIDE DEF NIL
    <3>2. args.type = "vector"
      BY <2>1
    <3> QED BY ONLY <3>1, <3>2
  <2>4. Now' = Place("P0LIST", args, <<Frame("P1LIST", NIL)>> \o dump, n)
    BY <1>1, <2>1, <2>2, Goes
  <2>5. Step(expect, e, <<" ", ".", " ">>, Now')
    BY <1>2, <2>1, <2>2, <2>3, <2>4 DEF Step
  <2> QED BY <1>1, <2>1, <2>5
<1>11. CASE P1LISTend
  <2>1. /\ op = "P1LIST" /\ args.type \notin {"pair", "vector"} /\ s_return(Bool(TRUE))
        /\ Prints((IF args = NIL THEN << >> ELSE <<" ", ".", " ">> \o atom2str(args)) \o <<")">>)
    BY <1>4, <1>11 DEF P1LISTend
  <2>2. op \in PrintOps
    BY <2>1 DEF PrintOps
  <2>3. Now' = Pop(dump, n)
    BY <1>1, <1>3, <2>1, <2>2, ReturnsTo
  <2>4. CASE args = NIL
    <3>1. Step(expect, e, <<")">>, Now')
      BY <1>2, <2>1, <2>2, <2>3, <2>4 DEF Step
    <3>2. << >> \o <<")">> = <<")">>
      BY SeqOne, SeqNone
    <3>3. Prints(<<")">>)
      BY <2>1, <2>4, <3>2
    <3> QED BY <1>1, <3>1, <3>3
  <2>5. CASE args # NIL
    <3>1. PICK r, q, f, g : /\ r = Frame("P1LIST", NIL) /\ q = <<r>> \o dump
                            /\ f = Place("P0LIST", args, q, n) /\ g = Pop(q, n)
      OBVIOUS
    <3>2. f.op = "P0LIST" /\ f.args = args /\ f.p = q /\ f.n = n
      <4>1. f = Place("P0LIST", args, q, n)
        BY ONLY <3>1
      <4> QED BY ONLY <4>1 DEF Place
    <3>3. q # << >> /\ Head(q) = r /\ Tail(q) = dump
      BY <1>3, <2>2, <3>1, Pushed DEF Dumped
    <3>4. r.op = "P1LIST" /\ r.args = NIL
      BY <3>1, PlaceFields
    <3>5. g = Place("P1LIST", NIL, dump, n)
      BY <3>1, <3>3, <3>4 DEF Pop
    <3>6. g.op = "P1LIST" /\ g.args = NIL /\ g.p = dump /\ g.n = n
      BY <3>5, PlaceFields
    <3>7. Step(expect, e, <<" ", ".", " ">>, f)
      BY <1>2, <2>1, <2>2, <2>5, <3>1 DEF Step
    <3>8. Step(expect, f, atom2str(args), g)
      BY <2>1, <3>1, <3>2 DEF Step
    <3>9. Step(expect, g, <<")">>, Now')
      BY <2>3, <3>6 DEF Step
    <3>10. Prints((<<" ", ".", " ">> \o atom2str(args)) \o <<")">>)
      BY <2>1, <2>5
    <3> QED BY <1>1, <3>7, <3>8, <3>9, <3>10
  <2> QED BY <2>4, <2>5
<1>12. CASE PVECFROM
  <2>1. op = "PVECFROM"
    BY <1>12 DEF PVECFROM
  <2>2. op \in PrintOps /\ "P0LIST" \in PrintOps
    BY <2>1 DEF PrintOps
  <2>3. CASE args.from = Len(args.vec)
    <3>1. Prints(<<")">>) /\ s_return(Bool(TRUE))
      BY <1>4, <1>12, <2>3 DEF PVECFROM
    <3>2. Now' = Pop(dump, n)
      BY <1>1, <1>3, <2>2, <3>1, ReturnsTo
    <3>3. Step(expect, e, <<")">>, Now')
      BY <1>2, <2>1, <2>2, <2>3, <3>2 DEF Step
    <3> QED BY <1>1, <3>1, <3>3
  <2>4. CASE args.from # Len(args.vec)
    <3>1. PICK a, k : a = [args EXCEPT !.from = @ + 1] /\ k = args.from + 1
      OBVIOUS
    <3>2. /\ Prints(<<" ">>) /\ op' = "P0LIST" /\ args' = args.vec[k]
          /\ dump' = <<Frame("PVECFROM", a)>> \o dump
      BY <1>4, <1>12, <2>4, <3>1 DEF PVECFROM, s_save, Frame
    <3>3. Now' = Place("P0LIST", args.vec[k], <<Frame("PVECFROM", a)>> \o dump, n)
      BY <1>1, <2>2, <3>2, Goes
    <3>4. Step(expect, e, <<" ">>, Now')
      <4>1. e.op = "PVECFROM" /\ e.args = args /\ e.p = dump /\ e.n = n
        BY <1>2, <2>1, <2>2
      <4> QED BY <2>4, <3>1, <3>3, <4>1 DEF Step
    <3> QED BY <1>1, <3>2, <3>4
  <2> QED BY <2>3, <2>4
<1> QED BY <1>5, <1>6, <1>7, <1>8, <1>9, <1>10, <1>11, <1>12 DEF Printing
---------------------------------------------------------------------------
(* The dump of the reader: the lists that are begun are counted.           *)

FrameOps == {"RDLIST", "RDDOT", "RDQUOTE", "RDQQUOTE", "RDQQUOTEVEC", "RDUNQUOTE", "RDUQTSP", "RDVEC"}
ReadOps == FrameOps \cup {"READ_INTERNAL", "RDSEXPR"}

Weight(o) == IF o \in {"RDLIST", "RDDOT"} THEN 1 ELSE 0

Counts(M) ==
  \A g \in M :
    /\ IsSeq(g[1]) /\ g[2] \in Nat
    /\ \/ g[1] = << >>
       \/ /\ Head(g[1]).op \in FrameOps /\ Weight(Head(g[1]).op) <= g[2]
          /\ <<Tail(g[1]), g[2] - Weight(Head(g[1]).op)>> \in M

(* On the dump r there are d lists that are not ended.                     *)
Begun(r, d) == \E M : <<r, d>> \in M /\ Counts(M)

LEMMA WeightIs == \A o : Weight(o) \in {0, 1}
BY DEF Weight

LEMMA BegunNone == Begun(<< >>, 0)
<1>1. PICK M : M = {<< << >>, 0 >>}
  OBVIOUS
<1>2. << << >>, 0 >> \in M /\ Counts(M)
  BY <1>1, SeqEmpty DEF Counts
<1> QED BY <1>2 DEF Begun

LEMMA BegunIs ==
  ASSUME NEW r, NEW d, Begun(r, d)
  PROVE  /\ IsSeq(r) /\ d \in Nat
         /\ \/ r = << >>
            \/ /\ Head(r).op \in FrameOps /\ d - Weight(Head(r).op) \in Nat
               /\ Begun(Tail(r), d - Weight(Head(r).op))
<1>1. PICK M : <<r, d>> \in M /\ Counts(M)
  BY DEF Begun
<1>2. PICK g : g = <<r, d>>
  OBVIOUS
<1>3. g \in M /\ g[1] = r /\ g[2] = d
  BY <1>1, <1>2
<1>4. /\ IsSeq(r) /\ d \in Nat
      /\ \/ r = << >>
         \/ /\ Head(r).op \in FrameOps /\ Weight(Head(r).op) <= d
            /\ <<Tail(r), d - Weight(Head(r).op)>> \in M
  BY <1>1, <1>3 DEF Counts
<1>5. <<Tail(r), d - Weight(Head(r).op)>> \in M => Begun(Tail(r), d - Weight(Head(r).op))
  BY <1>1 DEF Begun
<1>6. Weight(Head(r).op) \in {0, 1}
  BY WeightIs
<1> QED BY <1>4, <1>5, <1>6

LEMMA BegunPush ==
  ASSUME NEW r, NEW d, Begun(r, d), NEW o \in FrameOps, NEW a
  PROVE  Begun(<<Frame(o, a)>> \o r, d + Weight(o))
<1>1. PICK M : <<r, d>> \in M /\ Counts(M)
  BY DEF Begun
<1>2. IsSeq(r) /\ d \in Nat
  BY BegunIs
<1>3. PICK f, q, n, m, N : /\ f = Frame(o, a) /\ q = <<f>> \o r /\ n = d + m
                           /\ m = Weight(o) /\ N = M \cup {<<q, n>>}
  OBVIOUS
<1>4. IsSeq(q) /\ Head(q) = f /\ Tail(q) = r /\ f.op = o
  BY <1>2, <1>3, Pushed, PlaceFields
<1>5. m \in {0, 1} /\ n \in Nat /\ m <= n /\ n - m = d
  BY <1>2, <1>3, WeightIs
<1>6. ASSUME NEW g \in N
      PROVE  /\ IsSeq(g[1]) /\ g[2] \in Nat
             /\ \/ g[1] = << >>
                \/ /\ Head(g[1]).op \in FrameOps /\ Weight(Head(g[1]).op) <= g[2]
                   /\ <<Tail(g[1]), g[2] - Weight(Head(g[1]).op)>> \in N
  <2>1. CASE g \in M
    BY <1>1, <1>3, <2>1 DEF Counts
  <2>2. CASE g = <<q, n>>
    <3>1. g[1] = q /\ g[2] = n
      BY <2>2
    <3>2. <<r, d>> \in N
      BY <1>1, <1>3
    <3> QED BY <1>3, <1>4, <1>5, <3>1, <3>2
  <2>3. g \in M \/ g = <<q, n>>
    BY <1>3
  <2> QED BY ONLY <2>1, <2>2, <2>3
<1>7. Counts(N)
  BY <1>6 DEF Counts
<1>8. <<q, n>> \in N
  BY <1>3
<1>9. Begun(q, n)
  BY <1>7, <1>8 DEF Begun
<1> QED BY <1>3, <1>9

LEMMA AdvanceIs ==
  ASSUME PortOK(port), NEW i \in 0 .. port.past_the_end, Advance(i)
  PROVE  /\ PortOK(port') /\ port'.start = port.start /\ port'.past_the_end = port.past_the_end
         /\ port'.curr = i
<1>1. port' = [port EXCEPT !.curr = i]
  BY DEF Advance
<1>2. port = [kind |-> port.kind, start |-> port.start, curr |-> port.curr, past_the_end |-> port.past_the_end]
  BY DEF PortOK
<1>3. port' = [kind |-> port.kind, start |-> port.start, curr |-> i, past_the_end |-> port.past_the_end]
  BY <1>1, <1>2
<1>4. /\ port'.kind = port.kind /\ port'.start = port.start /\ port'.curr = i
      /\ port'.past_the_end = port.past_the_end
  BY ONLY <1>3
<1>5. IsSeq(port.start) /\ port.past_the_end = Len(port.start)
  BY DEF PortOK
<1> QED BY <1>3, <1>4, <1>5 DEF PortOK

(* Where a reading opcode leaves the reader.                               *)
ReadsOn ==
  \/ op' = "error"
  \/ op' = "returned" /\ dump' = << >>
  \/ /\ op' \in ReadOps \ {"READ_INTERNAL"}
     /\ \E d \in Nat : Begun(dump', d) /\ d + Weight(op') <= nesting'

LEMMA ReturnGoes ==
  ASSUME NEW r, NEW d, Begun(r, d), NEW v, ReturnTo(r, v), r = << >> => dump = << >>,
         nesting' \in Nat, d <= nesting'
  PROVE  ReadsOn
<1>1. CASE r = << >>
  <2>1. op' = "returned" /\ dump' = << >>
    BY <1>1 DEF ReturnTo
  <2> QED BY <2>1 DEF ReadsOn
<1>2. CASE r # << >>
  <2>1. op' = Head(r).op /\ dump' = Tail(r)
    BY <1>2 DEF ReturnTo
  <2>2. PICK w, b : w = Weight(op') /\ b = d - w
    OBVIOUS
  <2>3. op' \in FrameOps /\ b \in Nat /\ Begun(dump', b) /\ d \in Nat /\ w \in {0, 1}
    BY <1>2, <2>1, <2>2, BegunIs, WeightIs
  <2>4. b + w <= nesting'
    BY <2>2, <2>3
  <2>5. op' \in ReadOps \ {"READ_INTERNAL"}
    BY <2>3 DEF ReadOps, FrameOps
  <2> QED BY <2>2, <2>3, <2>4, <2>5 DEF ReadsOn
<1> QED BY <1>1, <1>2

LEMMA ExpressionGoes ==
  ASSUME op' = "RDSEXPR", NEW d, Begun(dump', d), nesting' \in Nat, d <= nesting'
  PROVE  ReadsOn
<1>1. Weight("RDSEXPR") = 0 /\ "RDSEXPR" \in ReadOps \ {"READ_INTERNAL"}
  BY DEF Weight, ReadOps
<1>2. d \in Nat
  BY BegunIs
<1> QED BY <1>1, <1>2 DEF ReadsOn

LEMMA SaveGoes ==
  ASSUME NEW o \in FrameOps, NEW a, NEW d, Begun(dump, d), s_save(o, a),
         op' = "RDSEXPR", nesting' \in Nat, d + Weight(o) <= nesting'
  PROVE  ReadsOn
<1>1. dump' = <<Frame(o, a)>> \o dump
  BY DEF s_save, Frame
<1>2. Begun(dump', d + Weight(o))
  BY <1>1, BegunPush
<1> QED BY <1>2, ExpressionGoes

(* Each reading opcode keeps the pointer in the text, and counts.          *)
LEMMA ReadingGoes ==
  ASSUME Reading, PortOK(port), nesting \in Nat,
         op \in ReadOps => \E d \in Nat : Begun(dump, d) /\ d + Weight(op) <= nesting,
         op = "READ_INTERNAL" => dump = << >>
  PROVE  /\ PortOK(port') /\ port'.start = port.start
         /\ nesting' \in Nat /\ ReadsOn /\ op \in ReadOps
<1>1. PICK N, i : N = port.past_the_end /\ i = port.curr
  OBVIOUS
<1>2. N \in Nat /\ i \in 0 .. N
  BY <1>1, PortBounds
<1>3. PICK t : t = NextToken
  OBVIOUS
<1>4. t.at \in 0 .. N
  <2>1. t.at \in i .. N
    BY <1>1, <1>2, <1>3, TokenBounds DEF NextToken
  <2> QED BY <1>2, <2>1
<1>5. ASSUME NEW j \in 0 .. N, Advance(j)
      PROVE  PortOK(port') /\ port'.start = port.start
  BY <1>1, <1>5, AdvanceIs
<1>6. \A j \in 0 .. N : (Advance(j) => PortOK(port') /\ port'.start = port.start)
  BY <1>5
<1>7. Error => ReadsOn
  BY DEF Error, ReadsOn
<1>8. "RDLIST" \in FrameOps /\ "RDDOT" \in FrameOps /\ "RDVEC" \in FrameOps
      /\ "RDQUOTE" \in FrameOps /\ "RDQQUOTE" \in FrameOps /\ "RDQQUOTEVEC" \in FrameOps
      /\ "RDUNQUOTE" \in FrameOps /\ "RDUQTSP" \in FrameOps
      /\ Weight("RDLIST") = 1 /\ Weight("RDDOT") = 1 /\ Weight("RDVEC") = 0
      /\ Weight("RDQUOTE") = 0 /\ Weight("RDQQUOTE") = 0 /\ Weight("RDQQUOTEVEC") = 0
      /\ Weight("RDUNQUOTE") = 0 /\ Weight("RDUQTSP") = 0
      /\ Weight("RDSEXPR") = 0 /\ Weight("READ_INTERNAL") = 0
  BY DEF FrameOps, Weight
<1>9. ASSUME op \in ReadOps
      PROVE  \E d \in Nat : Begun(dump, d) /\ d + Weight(op) <= nesting
  BY <1>9
<1>10. CASE READ_INTERNAL
  <2>1. op = "READ_INTERNAL" /\ nesting' = nesting
    BY <1>10 DEF READ_INTERNAL
  <2>2. op \in ReadOps /\ dump = << >> /\ Begun(dump, 0)
    BY <2>1, BegunNone DEF ReadOps
  <2>3. CASE t.tok = EOF
    <3>1. Advance(t.at) /\ ReturnTo(dump, EOF_OBJ)
      BY <1>3, <1>10, <2>3 DEF READ_INTERNAL, s_return
    <3>2. ReadsOn
      BY <2>1, <2>2, <3>1, ReturnGoes
    <3> QED BY <1>4, <1>6, <2>1, <2>2, <3>1, <3>2
  <2>4. CASE t.tok # EOF
    <3>1. Advance(t.at) /\ op' = "RDSEXPR" /\ dump' = dump
      BY <1>3, <1>10, <2>4 DEF READ_INTERNAL, NextExpression
    <3>2. ReadsOn
      BY <2>1, <2>2, <3>1, ExpressionGoes
    <3> QED BY <1>4, <1>6, <2>1, <2>2, <3>1, <3>2
  <2> QED BY <2>3, <2>4
<1>11. ASSUME op = "RDSEXPR"  PROVE op \in ReadOps /\ \E d \in Nat : Begun(dump, d) /\ d <= nesting
  <2>1. op \in ReadOps
    BY <1>11 DEF ReadOps
  <2>2. PICK d \in Nat : Begun(dump, d) /\ d + Weight(op) <= nesting
    BY <1>9, <2>1
  <2> QED BY <1>8, <1>11, <2>1, <2>2
<1>12. CASE RDSEXPR_EOF
  <2>1. op = "RDSEXPR" /\ ReturnTo(dump, EOF_OBJ) /\ nesting' = nesting /\ port' = port
    BY <1>12 DEF RDSEXPR_EOF, Expression, s_return
  <2>2. PICK d \in Nat : Begun(dump, d) /\ d <= nesting
    BY <1>11, <2>1
  <2>3. ReadsOn
    BY <2>1, <2>2, ReturnGoes
  <2> QED BY <1>11, <2>1, <2>3
<1>13. CASE RDSEXPR_LPAREN
  <2>1. op = "RDSEXPR"
    BY <1>13 DEF RDSEXPR_LPAREN, Expression
  <2>2. PICK d \in Nat : Begun(dump, d) /\ d <= nesting
    BY <1>11, <2>1
  <2>3. PICK r : r = (IF tok = "VEC" THEN <<Frame("RDVEC", << >>)>> ELSE << >>) \o dump
    OBVIOUS
  <2>4. Begun(r, d) /\ (r = << >> => dump = << >>)
    <3>1. CASE tok = "VEC"
      <4>1. r = <<Frame("RDVEC", << >>)>> \o dump /\ d + 0 = d
        BY <2>3, <3>1
      <4>2. r # << >>
        BY <2>2, <4>1, Pushed, BegunIs
      <4>3. Begun(r, d + Weight("RDVEC"))
        BY <1>8, <2>2, <4>1, BegunPush
      <4> QED BY <1>8, <4>1, <4>2, <4>3
    <3>2. CASE tok # "VEC"
      <4>1. r = dump
        BY <2>2, <2>3, <3>2, SeqNone, BegunIs
      <4> QED BY <2>2, <4>1
    <3> QED BY <3>1, <3>2
  <2>5. CASE t.tok = "RPAREN"
    <3>1. Advance(t.at) /\ ReturnTo(r, NIL) /\ nesting' = nesting
      BY <1>3, <1>13, <2>3, <2>5 DEF RDSEXPR_LPAREN, Frame
    <3>2. ReadsOn
      BY <2>2, <2>4, <3>1, ReturnGoes
    <3> QED BY <1>4, <1>6, <1>11, <2>1, <3>1, <3>2
  <2>6. CASE t.tok = "DOT"
    <3>1. Advance(t.at) /\ op' = "error" /\ nesting' = nesting
      BY <1>3, <1>13, <2>6 DEF RDSEXPR_LPAREN
    <3>2. ReadsOn
      BY <3>1 DEF ReadsOn
    <3> QED BY <1>4, <1>6, <1>11, <2>1, <3>1, <3>2
  <2>7. CASE t.tok \notin {"RPAREN", "DOT"}
    <3>1. Advance(t.at) /\ op' = "RDSEXPR" /\ nesting' = nesting + 1
          /\ dump' = (<<Frame("RDLIST", << >>)>> \o (IF tok = "VEC" THEN <<Frame("RDVEC", << >>)>> ELSE << >>)) \o dump
      BY <1>3, <1>13, <2>7 DEF RDSEXPR_LPAREN, Frame, NextExpression
    <3>2. dump' = <<Frame("RDLIST", << >>)>> \o r
      <4>1. PICK a, b : a = <<Frame("RDLIST", << >>)>> /\ b = IF tok = "VEC" THEN <<Frame("RDVEC", << >>)>> ELSE << >>
        OBVIOUS
      <4>2. IsSeq(a) /\ IsSeq(b)
        <5>1. \A x : IsSeq(<<x>>)
          BY SeqOne
        <5> QED BY <4>1, <5>1, SeqEmpty
      <4>3. IsSeq(dump)
        BY <2>2, BegunIs
      <4>4. (a \o b) \o dump = a \o (b \o dump)
        BY ONLY <4>2, <4>3, SeqAssoc
      <4> QED BY <2>3, <3>1, <4>1, <4>4
    <3>3. Begun(dump', d + 1)
      BY <1>8, <2>4, <3>2, BegunPush
    <3>4. nesting' \in Nat /\ d + 1 <= nesting'
      BY <2>2, <3>1
    <3>5. ReadsOn
      BY <3>1, <3>3, <3>4, ExpressionGoes
    <3> QED BY <1>4, <1>6, <1>11, <2>1, <3>1, <3>4, <3>5
  <2> QED BY <2>5, <2>6, <2>7
<1>14. ASSUME NEW o \in FrameOps, NEW a, s_save(o, a), Weight(o) = 0, op = "RDSEXPR", op' = "RDSEXPR",
              nesting' = nesting
       PROVE  ReadsOn
  <2>1. PICK d \in Nat : Begun(dump, d) /\ d <= nesting
    BY <1>11, <1>14
  <2>2. d + Weight(o) <= nesting'
    BY <1>14, <2>1
  <2> QED BY <1>14, <2>1, <2>2, SaveGoes
<1>15. CASE RDSEXPR_QUOTE
  <2>1. PICK o \in {"RDQUOTE", "RDUNQUOTE", "RDUQTSP"} :
          s_save(o, << >>) /\ Advance(t.at) /\ op = "RDSEXPR" /\ op' = "RDSEXPR" /\ nesting' = nesting
    BY <1>3, <1>15 DEF RDSEXPR_QUOTE, Expression, NextExpression
  <2>2. ReadsOn
    BY <1>8, <1>14, <2>1
  <2> QED BY <1>4, <1>6, <1>11, <2>1, <2>2
<1>16. CASE RDSEXPR_BQUOTE
  <2>1. [t EXCEPT !.tok = "LPAREN"].at = t.at
    <3>1. t = [tok |-> t.tok, at |-> t.at]
      BY <1>3, <1>1, <1>2, TokenBounds DEF NextToken
    <3> QED BY <3>1
  <2>2. op = "RDSEXPR" /\ op' = "RDSEXPR" /\ nesting' = nesting
    BY <1>16 DEF RDSEXPR_BQUOTE, Expression, NextExpression
  <2>3. Advance(t.at)
    BY <1>3, <1>16, <2>1 DEF RDSEXPR_BQUOTE, NextExpression
  <2>4. s_save("RDQQUOTEVEC", << >>) \/ s_save("RDQQUOTE", << >>)
    BY <1>16 DEF RDSEXPR_BQUOTE
  <2>5. ReadsOn
    BY <1>8, <1>14, <2>2, <2>4
  <2> QED BY <1>4, <1>6, <1>11, <2>2, <2>3, <2>5
<1>17. ASSUME NEW v, ReturnTo(dump, v), op = "RDSEXPR", nesting' = nesting  PROVE ReadsOn
  <2>1. PICK d \in Nat : Begun(dump, d) /\ d <= nesting
    BY <1>11, <1>17
  <2> QED BY <1>17, <2>1, ReturnGoes
<1>18. CASE RDSEXPR_ATOM \/ RDSEXPR_SHARP_CONST
  <2>1. PICK j : j = readstr_upto(port, port.curr).at
    OBVIOUS
  <2>2. j \in 0 .. N
    <3>1. j \in i .. N
      BY <1>1, <1>2, <2>1, UptoBounds
    <3> QED BY <1>2, <3>1
  <2>3. op = "RDSEXPR" /\ Advance(j) /\ nesting' = nesting /\ (Error \/ \E v : ReturnTo(dump, v))
    BY <1>18, <2>1 DEF RDSEXPR_ATOM, RDSEXPR_SHARP_CONST, Expression, s_return
  <2>4. ReadsOn
    BY <1>7, <1>17, <2>3
  <2> QED BY <1>6, <1>11, <2>2, <2>3, <2>4
<1>19. CASE RDSEXPR_DQUOTE
  <2>1. PICK j : j = readstrexp(port, port.curr).at
    OBVIOUS
  <2>2. j \in 0 .. N
    BY <1>1, <1>2, <2>1, StringBounds
  <2>3. op = "RDSEXPR" /\ Advance(j) /\ nesting' = nesting /\ (Error \/ \E v : ReturnTo(dump, v))
    BY <1>19, <2>1 DEF RDSEXPR_DQUOTE, Expression, s_return
  <2>4. ReadsOn
    BY <1>7, <1>17, <2>3
  <2> QED BY <1>6, <1>11, <2>2, <2>3, <2>4
<1>20. CASE RDSEXPR_illegal
  <2>1. op = "RDSEXPR" /\ Error /\ nesting' = nesting /\ port' = port
    BY <1>20 DEF RDSEXPR_illegal, Expression
  <2> QED BY <1>7, <1>11, <2>1
<1>21. ASSUME op \in {"RDLIST", "RDDOT"}
       PROVE  op \in ReadOps /\ \E d \in Nat : Begun(dump, d) /\ d + 1 <= nesting
  <2>1. op \in ReadOps /\ Weight(op) = 1
    BY <1>8, <1>21 DEF ReadOps
  <2> QED BY <1>9, <2>1
<1>22. CASE RDLIST
  <2>1. PICK list : list = <<value>> \o args
    OBVIOUS
  <2>2. op = "RDLIST"
    BY <1>22 DEF RDLIST
  <2>3. PICK d \in Nat : Begun(dump, d) /\ d + 1 <= nesting
    BY <1>21, <2>2
  <2>4. CASE t.tok = EOF
    <3>1. ReturnTo(dump, EOF_OBJ) /\ Advance(t.at) /\ nesting' = nesting
      BY <1>3, <1>22, <2>4 DEF RDLIST, s_return, EOF
    <3>2. d <= nesting'
      BY <2>3, <3>1
    <3>3. ReadsOn
      BY <2>3, <3>1, <3>2, ReturnGoes
    <3> QED BY <1>4, <1>6, <1>21, <2>2, <3>1, <3>3
  <2>5. CASE t.tok = "RPAREN"
    <3>1. /\ ReturnTo(dump, reverse_in_place(NIL, list)) /\ nesting' = nesting - 1
          /\ Advance(IF At(port, t.at) = "\n" THEN t.at + 1 ELSE t.at)
      BY <1>3, <1>22, <2>1, <2>5 DEF RDLIST, s_return, EOF
    <3>2. PICK j \in 0 .. N : Advance(j)
      <4>1. CASE At(port, t.at) = "\n"
        <5>1. t.at < N
          BY <1>1, <4>1 DEF At, EOF
        <5>2. t.at + 1 \in 0 .. N
          BY <1>2, <1>4, <5>1
        <5> QED BY <3>1, <4>1, <5>2
      <4>2. CASE At(port, t.at) # "\n"
        BY <1>4, <3>1, <4>2
      <4> QED BY <4>1, <4>2
    <3>3. d <= nesting' /\ nesting' \in Nat
      BY <2>3, <3>1
    <3>4. ReadsOn
      BY <2>3, <3>1, <3>3, ReturnGoes
    <3> QED BY <1>6, <1>21, <2>2, <3>2, <3>3, <3>4
  <2>6. CASE t.tok = "DOT"
    <3>1. PICK u : u = token(port, t.at)
      OBVIOUS
    <3>2. s_save("RDDOT", list) /\ Advance(u.at) /\ op' = "RDSEXPR" /\ nesting' = nesting
      BY <1>3, <1>22, <2>1, <2>6, <3>1 DEF RDLIST, NextExpression, EOF
    <3>3. u.at \in 0 .. N
      <4>1. u.at \in t.at .. N
        BY <1>1, <1>2, <1>4, <3>1, TokenBounds
      <4> QED BY <1>4, <4>1
    <3>4. ReadsOn
      BY <1>8, <2>3, <3>2, SaveGoes
    <3> QED BY <1>6, <1>21, <2>2, <3>2, <3>3, <3>4
  <2>7. CASE t.tok \notin {EOF, "RPAREN", "DOT"}
    <3>1. s_save("RDLIST", list) /\ Advance(t.at) /\ op' = "RDSEXPR" /\ nesting' = nesting
      BY <1>3, <1>22, <2>1, <2>7 DEF RDLIST, NextExpression
    <3>2. ReadsOn
      BY <1>8, <2>3, <3>1, SaveGoes
    <3> QED BY <1>4, <1>6, <1>21, <2>2, <3>1, <3>2
  <2> QED BY <2>4, <2>5, <2>6, <2>7
<1>23. CASE RDDOT
  <2>1. op = "RDDOT" /\ Advance(t.at)
    BY <1>3, <1>23 DEF RDDOT
  <2>2. PICK d \in Nat : Begun(dump, d) /\ d + 1 <= nesting
    BY <1>21, <2>1
  <2>3. CASE t.tok = "RPAREN"
    <3>1. nesting' = nesting - 1 /\ ReturnTo(dump, reverse_in_place(value, args))
      BY <1>3, <1>23, <2>3 DEF RDDOT, s_return
    <3>2. d <= nesting' /\ nesting' \in Nat
      BY <2>2, <3>1
    <3>3. ReadsOn
      BY <2>2, <3>1, <3>2, ReturnGoes
    <3> QED BY <1>4, <1>6, <1>21, <2>1, <3>2, <3>3
  <2>4. CASE t.tok # "RPAREN"
    <3>1. Error /\ nesting' = nesting
      BY <1>3, <1>23, <2>4 DEF RDDOT
    <3> QED BY <1>4, <1>6, <1>7, <1>21, <2>1, <3>1
  <2> QED BY <2>3, <2>4
<1>24. CASE RDABBREVIATION \/ RDVEC
  <2>1. /\ op \in FrameOps \ {"RDLIST", "RDDOT"} /\ nesting' = nesting /\ port' = port
        /\ Error \/ \E v : ReturnTo(dump, v)
    BY <1>24 DEF RDABBREVIATION, RDVEC, s_return, FrameOps
  <2>2. op \in ReadOps
    BY <2>1 DEF ReadOps
  <2>3. PICK d \in Nat : Begun(dump, d) /\ d + Weight(op) <= nesting
    BY <1>9, <2>2
  <2>4. d <= nesting'
    <3>1. Weight(op) \in {0, 1}
      BY WeightIs
    <3> QED BY <2>1, <2>3, <3>1
  <2>5. ReadsOn
    BY <1>7, <2>1, <2>3, <2>4, ReturnGoes
  <2> QED BY <2>1, <2>2, <2>5
<1> QED BY <1>10, <1>12, <1>13, <1>15, <1>16, <1>18, <1>19, <1>20, <1>22, <1>23, <1>24 DEF Reading
---------------------------------------------------------------------------
(* The machine: what is on the output port is what the printer has printed *)
(* of the data, and the text that is read is the first part of it.         *)

Beginning == Place("idle", NIL, << >>, 0)

Plainly(np, X) == np => \A k \in 1 .. Len(X) : NoParens(X[k])

(* The data X are sound, and T is what is printed of them until c.         *)
Written(X, T, c) ==
  \A np \in BOOLEAN : Plainly(np, X) =>
    /\ \A k \in 1 .. Len(X) : Sound(np, X[k])
    /\ Entry(np, c)
    /\ Reach(np, T, X, 0, Beginning, Len(T), c)

(* One more datum may be there to be printed.                              *)
LEMMA WrittenMore ==
  ASSUME NEW X, IsSeq(X), NEW T, IsSeq(T), NEW c, Written(X, T, c),
         NEW Y, IsSeq(Y), Extends(X, Y),
         \A k \in 1 .. Len(Y) : k > Len(X) => Readable(Y[k]),
         NEW t, NEW f, Step(Y, c, t, f)
  PROVE  Written(Y, T \o t, f) /\ IsSeq(t) /\ IsSeq(T \o t)
<1>0. Len(X) \in Nat /\ Len(Y) \in Nat
  BY SeqLen
<1>1. ASSUME NEW np \in BOOLEAN, Plainly(np, Y)
      PROVE  /\ \A k \in 1 .. Len(Y) : Sound(np, Y[k])
             /\ Entry(np, f) /\ IsSeq(t)
             /\ Reach(np, T \o t, Y, 0, Beginning, Len(T \o t), f)
  <2>1. Plainly(np, X)
    <3>1. ASSUME np, NEW k \in 1 .. Len(X)  PROVE NoParens(X[k])
      BY <1>0, <1>1, <3>1 DEF Plainly, Extends
    <3> QED BY <3>1 DEF Plainly
  <2>2. /\ \A k \in 1 .. Len(X) : Sound(np, X[k])
        /\ Entry(np, c)
        /\ Reach(np, T, X, 0, Beginning, Len(T), c)
    BY <2>1 DEF Written
  <2>3. ASSUME NEW k \in 1 .. Len(Y)  PROVE Sound(np, Y[k])
    <3>1. CASE k <= Len(X)
      <4>1. k \in 1 .. Len(X) /\ Y[k] = X[k]
        BY <1>0, <3>1 DEF Extends
      <4> QED BY <2>2, <4>1
    <3>2. CASE k > Len(X)
      <4>1. Readable(Y[k]) /\ (np => NoParens(Y[k]))
        BY <1>1, <3>2 DEF Plainly
      <4> QED BY <4>1, ReadableSound
    <3> QED BY <1>0, <3>1, <3>2
  <2>4. Entry(np, f) /\ IsSeq(t)
    BY <1>0, <2>2, <2>3, StepEntry
  <2>5. Reach(np, T \o t, Y, 0, Beginning, Len(T \o t), f)
    BY <2>2, <2>4, ReachMore
  <2> QED BY <2>3, <2>4, <2>5
<1>2. IsSeq(t)
  <2>1. Plainly(FALSE, Y) /\ FALSE \in BOOLEAN
    BY DEF Plainly
  <2> QED BY <1>1, <2>1
<1>3. Written(Y, T \o t, f)
  BY <1>1 DEF Written
<1> QED BY <1>2, <1>3, SeqConcat

LEMMA WrittenOn ==
  ASSUME NEW X, IsSeq(X), NEW T, IsSeq(T), NEW c, Written(X, T, c),
         NEW t, NEW f, Step(X, c, t, f)
  PROVE  Written(X, T \o t, f) /\ IsSeq(t) /\ IsSeq(T \o t)
<1>1. Len(X) \in Nat
  BY SeqLen
<1>2. Extends(X, X) /\ \A k \in 1 .. Len(X) : k > Len(X) => Readable(X[k])
  BY <1>1 DEF Extends
<1> QED BY <1>2, WrittenMore

LEMMA FromScratch ==
  /\ Grows(port_from_scratch) /\ port_from_scratch.curr = 0
  /\ get_output_string(port_from_scratch) = << >>
<1>1. BLOCK_SIZE - 1 \in Nat
  BY PortsAssumption
<1>2. PICK b, p, n : n = BLOCK_SIZE - 1 /\ b = Blanks(n) /\ p = port_from_scratch
  OBVIOUS
<1>3. DOMAIN b = 1 .. n /\ b = [k \in 1 .. n |-> b[k]]
  BY <1>2 DEF Blanks
<1>4. IsSeq(b) /\ Len(b) = n /\ n \in Nat
  BY <1>1, <1>2, <1>3, FunctionIsSeq
<1>5. p = [kind |-> {"output", "srfi6"}, start |-> b, curr |-> 0, past_the_end |-> n]
  BY <1>2 DEF port_from_scratch
<1>6. p.kind = {"output", "srfi6"} /\ p.start = b /\ p.curr = 0 /\ p.past_the_end = n
  BY ONLY <1>5
<1>7. Grows(p)
  BY <1>4, <1>5, <1>6 DEF Grows, PortOK
<1>8. IsSeq(get_output_string(p)) /\ Len(get_output_string(p)) = 0
  BY <1>6, <1>7, Outputs DEF Grows
<1> QED BY <1>2, <1>6, <1>7, <1>8, SeqNone

LEMMA FromString ==
  ASSUME NEW s, IsSeq(s), NEW k
  PROVE  /\ PortOK(port_from_string(s, k)) /\ port_from_string(s, k).start = s
         /\ port_from_string(s, k).curr = 0 /\ port_from_string(s, k).past_the_end = Len(s)
<1>1. PICK p, n : p = port_from_string(s, k) /\ n = Len(s)
  OBVIOUS
<1>2. p = [kind |-> k, start |-> s, curr |-> 0, past_the_end |-> n]
  BY <1>1 DEF port_from_string
<1>3. p.kind = k /\ p.start = s /\ p.curr = 0 /\ p.past_the_end = n
  BY ONLY <1>2
<1>4. n \in Nat
  BY <1>1, SeqLen
<1>5. PortOK(p)
  BY <1>1, <1>2, <1>3, <1>4 DEF PortOK
<1> QED BY <1>1, <1>3, <1>5

(* The text of the data is open to be read, all of it or its first m       *)
(* characters.                                                             *)
Opened(X, T, s, m) ==
  /\ Len(X) \in Nat \ {0}
  /\ Written(X, T, Place("returned", NIL, << >>, Len(X)))
  /\ m \in 0 .. Len(T) /\ s = SubSeq(T, 1, m)
  /\ m < Len(T) => Len(X) = 1

Stops == {"idle", "end", "returned", "error"}

Machine ==
  /\ op \in ReadOps \cup PrintOps \cup Stops
  /\ nesting \in Nat /\ mode \in {"read", "write"} /\ cut \in BOOLEAN /\ known \in BOOLEAN
  /\ PortOK(port) /\ Grows(outport) /\ IsSeq(expect)
  /\ op \in {"idle", "end", "returned", "READ_INTERNAL"} => dump = << >>
  /\ op \in ReadOps => mode = "read" /\ \E d \in Nat : Begun(dump, d) /\ d + Weight(op) <= nesting
  /\ mode = "write" =>
       /\ known /\ got = << >> /\ ~cut /\ op \in PrintOps \cup {"idle", "returned"}
       /\ Written(expect, get_output_string(outport), Now)
  /\ mode = "read" => op \notin PrintOps
  /\ ~known => mode = "read" /\ expect = << >> /\ got = << >> /\ ~cut /\ outport = port_from_scratch
  /\ mode = "read" /\ known =>
       \E m \in Nat : /\ Opened(expect, get_output_string(outport), port.start, m)
                      /\ cut <=> m < outport.curr

LEMMA OpsDisjoint ==
  /\ ReadOps \cap PrintOps = {} /\ ReadOps \cap Stops = {} /\ PrintOps \cap Stops = {}
  /\ {"idle", "end", "returned", "error"} \subseteq Stops /\ "P0LIST" \in PrintOps
  /\ {"READ_INTERNAL", "RDSEXPR"} \subseteq ReadOps /\ FrameOps \subseteq ReadOps
BY DEF ReadOps, PrintOps, Stops, FrameOps

LEMMA MachineInit ==
  ASSUME Init
  PROVE  Machine
<1>1. /\ op = "idle" /\ dump = << >> /\ nesting = 0 /\ outport = port_from_scratch
      /\ expect = << >> /\ got = << >> /\ cut = FALSE
  BY DEF Init
<1>2. IsSeq(expect) /\ nesting \in Nat /\ cut \in BOOLEAN /\ Grows(outport)
      /\ get_output_string(outport) = << >>
  BY <1>1, SeqEmpty, FromScratch
<1>3. op \in Stops /\ op \notin ReadOps /\ op \notin PrintOps
  BY <1>1, OpsDisjoint
<1>4. PortOK(port)
  <2>1. \A s \in Texts : IsSeq(s)
    BY ReadWriteAssumption, TextSeq
  <2> QED BY <2>1, SeqEmpty, FromString DEF Init
<1>5. Written(expect, get_output_string(outport), Now)
  <2>1. Now = Beginning
    BY <1>1, <1>3, SeqEmpty DEF Now, Beginning
  <2>2. PICK b : b = Beginning
    OBVIOUS
  <2>3. b = Place("idle", NIL, << >>, 0) /\ b.op = "idle" /\ b.args = NIL /\ b.p = << >> /\ b.n = 0
    BY <2>2, PlaceFields DEF Beginning
  <2>4. ASSUME NEW np \in BOOLEAN  PROVE Entry(np, b) /\ Reach(np, << >>, << >>, 0, b, 0, b)
    <3>1. Entry(np, b)
      BY <2>3, NoFrames DEF Entry
    <3> QED BY <3>1, ReachHere
  <2>5. Written(<< >>, << >>, b)
    BY <2>2, <2>4, SeqEmpty DEF Written
  <2> QED BY <1>1, <1>2, <2>1, <2>2, <2>5
<1>6. \/ mode = "write" /\ known = TRUE
      \/ mode = "read" /\ known = FALSE
  BY DEF Init
<1> QED BY <1>1, <1>2, <1>3, <1>4, <1>5, <1>6 DEF Machine
---------------------------------------------------------------------------
(* Each step keeps the machine.                                            *)

LEMMA MachineWrites ==
  ASSUME Machine, NEW v, Readable(v), Write(v)
  PROVE  Machine'
<1>1. /\ mode = "write" /\ op = "idle" /\ op' = "P0LIST" /\ args' = v
      /\ expect' = Append(expect, v)
      /\ UNCHANGED <<tok, value, dump, nesting, port, outport, mode, got, cut, known>>
  BY DEF Write
<1>2. dump = << >> /\ op \notin PrintOps /\ op' \in PrintOps /\ op' \notin ReadOps /\ op' \notin Stops
  BY <1>1, OpsDisjoint DEF Machine
<1>3. PICK n, Y : n = Len(expect) /\ Y = expect'
  OBVIOUS
<1>4. IsSeq(expect) /\ n \in Nat
  BY <1>3, SeqLen DEF Machine
<1>5. IsSeq(Y) /\ Len(Y) = n + 1 /\ Y[n + 1] = v /\ \A k \in 1 .. n : Y[k] = expect[k]
  <2>1. Y = Append(expect, v)
    BY <1>1, <1>3
  <2>2. PICK X : expect \in Seq(X)
    BY <1>4 DEF IsSeq
  <2>3. expect \in Seq(X \cup {v}) /\ v \in X \cup {v}
    BY <2>2
  <2>4. Y \in Seq(X \cup {v}) /\ Len(Y) = n + 1 /\ Y[n + 1] = v /\ \A k \in 1 .. n : Y[k] = expect[k]
    BY <1>3, <2>1, <2>3
  <2> QED BY <2>4 DEF IsSeq
<1>6. Extends(expect, Y) /\ \A k \in 1 .. Len(Y) : k > Len(expect) => Readable(Y[k])
  <2>1. Extends(expect, Y)
    BY <1>3, <1>4, <1>5 DEF Extends
  <2>2. ASSUME NEW k \in 1 .. Len(Y), k > Len(expect)  PROVE Readable(Y[k])
    <3>1. k = n + 1
      BY <1>3, <1>4, <1>5, <2>2
    <3> QED BY <1>5, <3>1
  <2> QED BY <2>1, <2>2
<1>7. PICK T : T = get_output_string(outport)
  OBVIOUS
<1>8. IsSeq(T) /\ Written(expect, T, Now) /\ Grows(outport)
  BY <1>1, <1>7, Outputs DEF Machine, Grows
<1>9. Now' = Place("P0LIST", v, << >>, n + 1)
  BY <1>1, <1>2, <1>3, <1>5, NowBecomes
<1>10. Step(Y, Now, << >>, Now')
  <2>1. PICK e : e = Now
    OBVIOUS
  <2>2. e.op = "idle" /\ e.n = n
    BY <1>1, <1>3, <2>1, NowIs
  <2>3. e.n < Len(Y) /\ Y[e.n + 1] = v
    BY <1>4, <1>5, <2>2
  <2> QED BY <1>9, <2>1, <2>2, <2>3 DEF Step
<1>11. Written(Y, T \o << >>, Now')
  BY <1>4, <1>5, <1>6, <1>8, <1>10, WrittenMore
<1>12. Written(expect', get_output_string(outport'), Now')
  BY <1>1, <1>3, <1>7, <1>8, <1>11, SeqNone
<1> QED BY <1>1, <1>2, <1>3, <1>5, <1>12 DEF Machine

(* What is put on the port goes on with what is written.                   *)
LEMMA MachinePuts ==
  ASSUME Machine, mode = "write", NEW t, IsSeq(t), Prints(t)
  PROVE  /\ Grows(outport')
         /\ get_output_string(outport') = get_output_string(outport) \o t
         /\ IsSeq(get_output_string(outport)) /\ IsSeq(expect)
         /\ Written(expect, get_output_string(outport), Now)
<1>1. PICK q : q = outport'
  OBVIOUS
<1>2. Grows(outport) /\ q = putstr(outport, t)
  BY <1>1 DEF Machine, Prints
<1>3. Grows(q) /\ get_output_string(q) = get_output_string(outport) \o t
  BY <1>2, PutStr
<1>4. IsSeq(get_output_string(outport))
  BY <1>2, Outputs DEF Grows
<1> QED BY <1>1, <1>3, <1>4 DEF Machine

LEMMA MachineSeparates ==
  ASSUME Machine, Separate
  PROVE  Machine'
<1>1. PICK t \in Separators : put(t)
  BY DEF Separate
<1>2. /\ mode = "write" /\ op = "returned" /\ op' = "idle"
      /\ UNCHANGED <<tok, args, value, dump, nesting, port, mode, expect, got, cut, known>>
  BY DEF Separate, control
<1>3. dump = << >> /\ op \notin PrintOps /\ op' \notin PrintOps /\ op' \notin ReadOps /\ op' \in Stops
  BY <1>2, OpsDisjoint DEF Machine
<1>4. PICK n : n = Len(expect)
  OBVIOUS
<1>5. Step(expect, Now, t, Now')
  <2>1. PICK e : e = Now
    OBVIOUS
  <2>2. e.op = "returned" /\ e.n = n
    BY <1>2, <1>4, <2>1, NowIs
  <2>3. Now' = Place("idle", NIL, << >>, n)
    BY <1>2, <1>3, <1>4, NowBecomes
  <2> QED BY <1>1, <2>1, <2>2, <2>3 DEF Step
<1>6. IsSeq(t)
  <2>1. t \in {<<"\n">>, <<" ">>, <<";", "(", "\n">>}
    BY <1>1 DEF Separators
  <2>2. IsSeq(<<"\n">>) /\ IsSeq(<<" ">>) /\ IsSeq(<<";", "(", "\n">>)
    BY SeqOne, SeqThree
  <2> QED BY <2>1, <2>2
<1>7. Prints(t)
  BY <1>1 DEF put, Prints
<1>8. /\ Grows(outport')
      /\ get_output_string(outport') = get_output_string(outport) \o t
      /\ IsSeq(get_output_string(outport)) /\ IsSeq(expect)
      /\ Written(expect, get_output_string(outport), Now)
  BY <1>2, <1>6, <1>7, MachinePuts
<1>9. Written(expect, get_output_string(outport'), Now')
  BY <1>5, <1>8, WrittenOn
<1> QED BY <1>2, <1>3, <1>8, <1>9 DEF Machine

LEMMA MachinePrints ==
  ASSUME Machine, Printing, UNCHANGED control
  PROVE  Machine'
<1>1. UNCHANGED <<tok, nesting, port, mode, expect, got, cut, known>>
  BY DEF Printing, control
<1>2. op \in PrintOps
  BY DEF Printing, P0LISTvector, P0LISTatom, P0LISTabbreviation, P0LISTpair,
         P1LISTpair, P1LISTvector, P1LISTend, PVECFROM, PrintOps
<1>3. mode = "write" /\ IsSeq(expect) /\ Written(expect, get_output_string(outport), Now)
      /\ IsSeq(get_output_string(outport))
  <2>1. mode = "write"
    BY <1>2 DEF Machine
  <2> QED BY <2>1, Outputs DEF Machine, Grows
<1>4. PICK X, T, e : X = expect /\ T = get_output_string(outport) /\ e = Now
  OBVIOUS
<1>5. Entry(FALSE, e)
  <2>1. Plainly(FALSE, X)
    BY DEF Plainly
  <2> QED BY <1>3, <1>4, <2>1 DEF Written
<1>6. \/ \E t : Step(X, e, t, Now') /\ Prints(t)
      \/ \E t, f, g : /\ Step(X, e, <<" ", ".", " ">>, f) /\ Step(X, f, t, g)
                      /\ Step(X, g, <<")">>, Now')
                      /\ Prints((<<" ", ".", " ">> \o t) \o <<")">>)
  BY <1>1, <1>4, <1>5, Printed
<1>7. \E u : Written(X, T \o u, Now') /\ IsSeq(u) /\ Prints(u)
  <2>1. CASE \E t : Step(X, e, t, Now') /\ Prints(t)
    BY <1>3, <1>4, <2>1, WrittenOn
  <2>2. CASE \E t, f, g : /\ Step(X, e, <<" ", ".", " ">>, f) /\ Step(X, f, t, g)
                          /\ Step(X, g, <<")">>, Now')
                          /\ Prints((<<" ", ".", " ">> \o t) \o <<")">>)
    <3>1. PICK t, f, g : /\ Step(X, e, <<" ", ".", " ">>, f) /\ Step(X, f, t, g)
                         /\ Step(X, g, <<")">>, Now')
                         /\ Prints((<<" ", ".", " ">> \o t) \o <<")">>)
      BY <2>2
    <3>2. PICK d, z : d = <<" ", ".", " ">> /\ z = <<")">>
      OBVIOUS
    <3>3. Step(X, e, d, f) /\ Step(X, g, z, Now') /\ Prints((d \o t) \o z)
      BY <3>1, <3>2
    <3>4. Written(X, T \o d, f) /\ IsSeq(d) /\ IsSeq(T \o d)
      BY <1>3, <1>4, <3>3, WrittenOn
    <3>5. Written(X, (T \o d) \o t, g) /\ IsSeq(t) /\ IsSeq((T \o d) \o t)
      BY <1>3, <1>4, <3>1, <3>4, WrittenOn
    <3>6. Written(X, ((T \o d) \o t) \o z, Now') /\ IsSeq(z)
      BY <1>3, <1>4, <3>3, <3>5, WrittenOn
    <3>7. ((T \o d) \o t) \o z = T \o ((d \o t) \o z) /\ IsSeq((d \o t) \o z)
      <4>0. IsSeq(T)
        BY <1>3, <1>4
      <4>5. IsSeq(d) /\ IsSeq(t)
        BY <3>4, <3>5
      <4>6. IsSeq(d \o t)
        BY ONLY <4>5, SeqConcat
      <4>7. (T \o d) \o t = T \o (d \o t)
        BY ONLY <4>0, <4>5, SeqAssoc
      <4>1. IsSeq(d \o t) /\ (T \o d) \o t = T \o (d \o t)
        BY <4>6, <4>7
      <4>2. (T \o (d \o t)) \o z = T \o ((d \o t) \o z)
        BY <1>3, <1>4, <3>6, <4>1, SeqAssoc
      <4>3. IsSeq((d \o t) \o z)
        BY <3>6, <4>1, SeqConcat
      <4> QED BY <4>1, <4>2, <4>3
    <3> QED BY <3>3, <3>6, <3>7
  <2> QED BY <1>6, <2>1, <2>2
<1>8. PICK u : Written(X, T \o u, Now') /\ IsSeq(u) /\ Prints(u)
  BY <1>7
<1>9. Grows(outport') /\ get_output_string(outport') = T \o u
  BY <1>3, <1>4, <1>8, MachinePuts
<1>10. Written(expect', get_output_string(outport'), Now')
  BY <1>1, <1>4, <1>8, <1>9
<1>11. /\ op' \in PrintOps \cup {"returned"} /\ (op' = "returned" => dump' = << >>)
  <2>1. Entry(FALSE, Now')
    <3>1. Plainly(FALSE, X)
      BY DEF Plainly
    <3> QED BY <1>8, <3>1 DEF Written
  <2>2. PICK f : f = Now'
    OBVIOUS
  <2>3. f.op = op' /\ f.p = dump'
    <3>1. PICK a : f = Place(op', a, dump', Len(expect'))
      BY <2>2, NowBecomes
    <3> QED BY ONLY <3>1 DEF Place
  <2>4. \/ f.op \in PrintOps
        \/ f.op \in {"idle", "returned"} /\ f.p = << >>
    BY <2>1, <2>2 DEF Entry, ToPrint, PrintOps
  <2>5. op' # "idle"
    <3>1. Dumped(FALSE, dump) /\ op \in PrintOps
      <4>1. e.p = dump /\ e.op = op
        BY <1>4, NowIs
      <4> QED BY <1>2, <1>5, <4>1, EntryPrints
    <3>2. \A v : s_return(v) => op' \in PrintOps \cup {"returned"}
      <4>1. dump # << >> => ToPrint(FALSE, Head(dump).op, Head(dump).args)
        BY <3>1, PopFrame
      <4>2. dump # << >> => Head(dump).op \in PrintOps
        BY <4>1 DEF ToPrint, PrintOps
      <4> QED BY <4>2 DEF s_return, ReturnTo
    <3>3. op' \in PrintOps \cup {"returned"}
      BY <1>2, <3>2
         DEF Printing, P0LISTvector, P0LISTatom, P0LISTabbreviation, P0LISTpair,
             P1LISTpair, P1LISTvector, P1LISTend, PVECFROM, PrintOps
    <3> QED BY <3>3 DEF PrintOps
  <2> QED BY <2>3, <2>4, <2>5 DEF PrintOps
<1>12. op' \in ReadOps \cup PrintOps \cup Stops /\ op' \notin ReadOps
       /\ op' \notin {"idle", "end", "READ_INTERNAL"}
  BY <1>11 DEF ReadOps, PrintOps, Stops, FrameOps
<1> QED BY <1>1, <1>3, <1>9, <1>10, <1>11, <1>12 DEF Machine

(* The text that is open is all that was printed, or the first part of it. *)
LEMMA MachineOpens ==
  ASSUME Machine, Open
  PROVE  Machine'
<1>1. /\ mode = "write" /\ op = "returned" /\ mode' = "read" /\ op' = "idle"
      /\ UNCHANGED <<tok, args, value, dump, nesting, outport, expect, got, known>>
  BY DEF Open
<1>2. PICK T, c : T = get_output_string(outport) /\ c = outport.curr
  OBVIOUS
<1>3. IsSeq(T) /\ Len(T) = c /\ c \in Nat /\ Grows(outport)
  <2>1. Grows(outport) /\ PortOK(outport)
    BY DEF Machine, Grows
  <2>2. outport.curr \in Nat
    BY <2>1, PortBounds
  <2> QED BY <1>2, <2>1, <2>2, Outputs
<1>4. PICK k : /\ k \in IF Len(expect) = 1 THEN 0 .. c ELSE {c}
               /\ port' = port_from_string(SubSeq(T, 1, k), {"input"})
               /\ cut' = (k < c)
  BY <1>2 DEF Open
<1>5. k \in 0 .. c /\ (k < c => Len(expect) = 1) /\ cut' \in BOOLEAN
  BY <1>3, <1>4
<1>6. PICK s : s = SubSeq(T, 1, k)
  OBVIOUS
<1>7. IsSeq(s)
  BY <1>3, <1>5, <1>6, SeqFront
<1>8. PortOK(port') /\ port'.start = s
  <2>1. PICK p : p = port_from_string(s, {"input"})
    OBVIOUS
  <2>2. PortOK(p) /\ p.start = s
    BY <1>7, <2>1, FromString
  <2> QED BY <1>4, <1>6, <2>1, <2>2
<1>9. op \notin PrintOps /\ op' \notin PrintOps /\ op' \notin ReadOps /\ op' \in Stops
      /\ dump = << >>
  BY <1>1, OpsDisjoint DEF Machine
<1>10. PICK n : n = Len(expect)
  OBVIOUS
<1>11. Written(expect, T, Place("returned", NIL, << >>, n)) /\ n \in Nat \ {0}
  <2>1. PICK e : e = Place("returned", NIL, << >>, n)
    OBVIOUS
  <2>2. Now = e
    BY <1>1, <1>9, <1>10, <2>1 DEF Now
  <2>3. Written(expect, T, e)
    BY <1>1, <1>2, <2>2 DEF Machine
  <2>4. Plainly(FALSE, expect)
    BY DEF Plainly
  <2>5. Entry(FALSE, e)
    BY <2>3, <2>4 DEF Written
  <2>6. e.op = "returned" /\ e.n = n
    BY <2>1, PlaceFields
  <2>7. n \in Nat \ {0}
    BY <2>5, <2>6 DEF Entry
  <2> QED BY <2>1, <2>3, <2>7
<1>12. Opened(expect, T, s, k)
  <2>1. Len(expect) \in Nat \ {0} /\ Written(expect, T, Place("returned", NIL, << >>, Len(expect)))
    BY <1>10, <1>11
  <2>2. k \in 0 .. Len(T) /\ (k < Len(T) => Len(expect) = 1)
    BY <1>3, <1>5
  <2>3. k < Len(T) => Len(expect) = 1
    BY <2>2
  <2> QED BY ONLY <1>6, <2>1, <2>2, <2>3 DEF Opened
<1>13. k \in Nat /\ (cut' <=> k < c)
  <2>1. k \in Nat
    BY <1>3, <1>5
  <2>2. cut' = (k < c)
    BY <1>4
  <2>3. cut' <=> k < c
    BY ONLY <2>2, Zenon
  <2> QED BY <2>1, <2>3
<1>14. /\ \E m \in Nat : Opened(expect, T, port'.start, m) /\ (cut' <=> m < c)
       /\ IsSeq(expect) /\ nesting \in Nat
  BY <1>8, <1>12, <1>13 DEF Machine
<1>15. known /\ got = << >>
  BY <1>1 DEF Machine
<1> QED BY <1>1, <1>2, <1>3, <1>5, <1>8, <1>9, <1>14, <1>15 DEF Machine

LEMMA MachineReads ==
  ASSUME Machine, Read
  PROVE  Machine'
<1>1. /\ mode = "read" /\ op = "idle" /\ op' = "READ_INTERNAL"
      /\ UNCHANGED <<tok, args, value, dump, nesting, port, outport, mode, expect, got, cut, known>>
  BY DEF Read, control
<1>2. op' \in ReadOps /\ op' \notin PrintOps /\ op' \notin Stops
  BY <1>1, OpsDisjoint
<1>3. dump = << >> /\ Begun(dump, 0) /\ 0 + Weight(op') <= nesting
  <2>1. dump = << >> /\ nesting \in Nat
    BY <1>1 DEF Machine
  <2>2. Weight("READ_INTERNAL") = 0
    BY DEF Weight
  <2> QED BY <1>1, <2>1, <2>2, BegunNone
<1>4. \E d \in Nat : Begun(dump, d) /\ d + Weight(op') <= nesting
  BY <1>3
<1> QED BY <1>1, <1>2, <1>3, <1>4 DEF Machine

LEMMA MachineTakes ==
  ASSUME Machine, Take
  PROVE  Machine'
<1>1. /\ mode = "read" /\ op = "returned" /\ UNCHANGED <<tok, value, dump, port>>
  BY DEF Take
<1>2. dump = << >>
  BY <1>1 DEF Machine
<1>3. CASE op' = "end" /\ UNCHANGED <<args, nesting, outport, control>>
  <2>1. op' \in Stops /\ op' \notin ReadOps /\ op' \notin PrintOps
    BY <1>3, OpsDisjoint
  <2> QED BY <1>1, <1>2, <1>3, <2>1 DEF Machine, control
<1>4. CASE known /\ op' = "idle" /\ UNCHANGED <<args, nesting, outport, mode, expect, cut, known>>
  <2>1. op' \in Stops /\ op' \notin ReadOps /\ op' \notin PrintOps
    BY <1>4, OpsDisjoint
  <2> QED BY <1>1, <1>2, <1>4, <2>1 DEF Machine
<1>5. CASE /\ ~known /\ Readable(value)
           /\ op' = "P0LIST" /\ args' = value
           /\ mode' = "write" /\ expect' = <<value>> /\ known' = TRUE
           /\ nesting' = 0
           /\ UNCHANGED <<outport, got, cut>>
  <2>1. op' \notin Stops /\ op' \notin ReadOps /\ op' \in PrintOps
    BY <1>5, OpsDisjoint
  <2>2. /\ expect = << >> /\ got = << >> /\ ~cut /\ outport = port_from_scratch
        /\ PortOK(port)
    BY <1>5 DEF Machine
  <2>3. Grows(outport) /\ get_output_string(outport) = << >>
    BY <2>2, FromScratch
  <2>4. PICK X, v : X = <<v>> /\ v = value
    OBVIOUS
  <2>5. IsSeq(X) /\ Len(X) = 1 /\ X[1] = v
    BY <2>4, SeqOne
  <2>6. PICK b, f : b = Beginning /\ f = Place("P0LIST", v, << >>, 1)
    OBVIOUS
  <2>7. b.op = "idle" /\ b.n = 0 /\ b.args = NIL /\ b.p = << >>
        /\ b = Place("idle", NIL, << >>, 0)
    BY <2>6, PlaceFields DEF Beginning
  <2>8. Written(<< >>, << >>, b)
    <3>1. ASSUME NEW np \in BOOLEAN  PROVE Entry(np, b) /\ Reach(np, << >>, << >>, 0, b, 0, b)
      <4>1. Entry(np, b)
        BY <2>7, NoFrames DEF Entry
      <4> QED BY <4>1, ReachHere
    <3> QED BY <2>6, <3>1, SeqEmpty DEF Written
  <2>9. Step(X, b, << >>, f)
    BY <2>5, <2>6, <2>7 DEF Step
  <2>10. Extends(<< >>, X) /\ \A k \in 1 .. Len(X) : k > 0 => Readable(X[k])
    <3>1. \A k \in 1 .. Len(X) : X[k] = value
      BY <2>4, <2>5
    <3> QED BY <1>5, <2>5, <3>1, SeqEmpty DEF Extends
  <2>11. Written(X, << >> \o << >>, f)
    BY <2>5, <2>8, <2>9, <2>10, SeqEmpty, WrittenMore
  <2>12. Written(X, << >>, f)
    BY <2>11, SeqEmpty, SeqNone
  <2>13. Now' = f
    BY <1>1, <1>2, <1>5, <2>1, <2>4, <2>5, <2>6, NowBecomes
  <2>14. Written(expect', get_output_string(outport'), Now')
    BY <1>5, <2>3, <2>4, <2>12, <2>13
  <2> QED BY <1>1, <1>2, <1>5, <2>1, <2>2, <2>3, <2>4, <2>5, <2>14 DEF Machine
<1> QED
  BY <1>3, <1>4, <1>5, Zenon DEF Take

LEMMA MachineReading ==
  ASSUME Machine, Reading, UNCHANGED <<outport, control>>
  PROVE  Machine'
<1>1. UNCHANGED <<outport, mode, expect, got, cut, known>>
  BY DEF control
<1>2. /\ PortOK(port') /\ port'.start = port.start
      /\ nesting' \in Nat /\ ReadsOn /\ op \in ReadOps
  BY ReadingGoes DEF Machine
<1>3. mode = "read"
  BY <1>2 DEF Machine
<1>4. op' \in (ReadOps \ {"READ_INTERNAL"}) \cup {"error", "returned"}
  BY <1>2 DEF ReadsOn
<1>5. /\ op' \in ReadOps \cup PrintOps \cup Stops /\ op' \notin PrintOps
      /\ op' \notin {"idle", "end", "READ_INTERNAL"}
  BY <1>4 DEF ReadOps, FrameOps, PrintOps, Stops
<1>6. op' = "returned" => dump' = << >>
  BY <1>2, OpsDisjoint DEF ReadsOn
<1>7. op' \in ReadOps => \E d \in Nat : Begun(dump', d) /\ d + Weight(op') <= nesting'
  BY <1>2, OpsDisjoint DEF ReadsOn, Stops
<1> QED BY <1>1, <1>2, <1>3, <1>5, <1>6, <1>7 DEF Machine

LEMMA MachineNext ==
  ASSUME Machine, [Next]_vars
  PROVE  Machine'
<1>1. CASE UNCHANGED vars
  <2>1. /\ UNCHANGED <<op, args, dump, nesting, port, outport>>
        /\ UNCHANGED <<mode, expect, got, cut, known>>
    BY <1>1 DEF vars, control
  <2>2. Now' = Now
    BY <2>1 DEF Now
  <2> QED BY <2>1, <2>2 DEF Machine
<1>2. CASE \E v \in IF expect = << >> THEN Data ELSE Later : Write(v)
  <2>1. PICK v \in Data \cup Later : Write(v)
    BY <1>2
  <2>2. Readable(v)
    BY ReadWriteAssumption
  <2> QED BY <2>1, <2>2, MachineWrites
<1> QED BY <1>1, <1>2, MachineSeparates, MachineOpens, MachineReads, MachineTakes,
           MachineReading, MachinePrints DEF Next

LEMMA MachineAlways == Spec => []Machine
BY MachineInit, MachineNext, PTL DEF Spec

LEMMA MachineTypes ==
  ASSUME Machine
  PROVE  TypeOK
<1>1. op \in ReadOps \cup PrintOps \cup Stops
  BY DEF Machine
<1>2. PortOK(port) /\ PortOK(outport)
  BY DEF Machine, Grows
<1>3. \A p \in {port, outport} : p.curr \in 0 .. p.past_the_end /\ p.past_the_end = Len(p.start)
  BY <1>2 DEF PortOK
<1> QED BY <1>1, <1>3 DEF TypeOK, Machine, ReadOps, FrameOps, PrintOps, Stops

(* Registers, ports and the record of the program are what they should be, *)
(* whatever is written and read: no text that is read or cut off, and no   *)
(* block size, makes the pointer of a port leave its text, or makes the    *)
(* reader end more lists than are begun.                                   *)
THEOREM ReadWriteTypeOK == Spec => []TypeOK
BY MachineAlways, MachineTypes, PTL
=============================================================================
