-------------------------- MODULE ReadBackProofs ---------------------------
(***************************************************************************)
(* What the reader makes of the text that the printer has written, all of  *)
(* it or its first part.  First the atoms, the strings and the tokens that *)
(* are read of such a text; then how the dump of the reader fits that of   *)
(* the printer, and why the end of a text that is cut off is noticed; then *)
(* how each opcode follows the text, and what that says of the data read.  *)
(***************************************************************************)
EXTENDS ReadWriteProofs

---------------------------------------------------------------------------
(* A text of which the port has all, or the first part.                    *)

Cuts(p, T) ==
  /\ PortOK(p) /\ IsSeq(T) /\ p.past_the_end <= Len(T)
  /\ \A k \in 1 .. p.past_the_end : p.start[k] = T[k]

LEMMA CutBounds ==
  ASSUME NEW p, NEW T, Cuts(p, T)
  PROVE  /\ p.past_the_end \in Nat /\ Len(T) \in Nat /\ p.past_the_end <= Len(T)
         /\ \A j \in Nat : j >= p.past_the_end => At(p, j) = EOF
<1>1. p.past_the_end \in Nat /\ Len(T) \in Nat /\ p.past_the_end <= Len(T)
  BY PortBounds, SeqLen DEF Cuts
<1> QED BY <1>1 DEF At

LEMMA CutAt ==
  ASSUME NEW p, NEW T, Cuts(p, T), NEW i \in Nat, NEW t, IsSeq(t), Slice(T, i, t),
         NEW k \in 1 .. Len(t)
  PROVE  At(p, (i + k) - 1) = IF (i + k) - 1 < p.past_the_end THEN t[k] ELSE EOF
<1>1. p.past_the_end \in Nat /\ Len(t) \in Nat
  BY CutBounds, SeqLen
<1>2. ((i + k) - 1) + 1 = i + k
  OBVIOUS
<1>3. CASE (i + k) - 1 < p.past_the_end
  <2>1. i + k \in 1 .. p.past_the_end
    BY <1>1, <1>3
  <2>2. p.start[i + k] = t[k]
    BY <2>1 DEF Cuts, Slice
  <2> QED BY <1>2, <1>3, <2>2 DEF At
<1>4. CASE ~((i + k) - 1 < p.past_the_end)
  BY <1>4 DEF At
<1> QED BY <1>3, <1>4

LEMMA CutFirst ==
  ASSUME NEW p, NEW T, Cuts(p, T), NEW i \in Nat, NEW t, IsSeq(t), Slice(T, i, t)
  PROVE  /\ Len(t) >= 1 => At(p, i) = IF i < p.past_the_end THEN t[1] ELSE EOF
         /\ Len(t) >= 2 => At(p, i + 1) = IF i + 1 < p.past_the_end THEN t[2] ELSE EOF
         /\ Len(t) >= 3 => At(p, i + 2) = IF i + 2 < p.past_the_end THEN t[3] ELSE EOF
         /\ Len(t) >= 4 => At(p, i + 3) = IF i + 3 < p.past_the_end THEN t[4] ELSE EOF
<1>1. Len(t) \in Nat /\ (i + 1) - 1 = i /\ (i + 2) - 1 = i + 1 /\ (i + 3) - 1 = i + 2
      /\ (i + 4) - 1 = i + 3
  BY SeqLen
<1>2. ASSUME Len(t) >= 1  PROVE At(p, (i + 1) - 1) = IF (i + 1) - 1 < p.past_the_end THEN t[1] ELSE EOF
  BY <1>1, <1>2, CutAt
<1>3. ASSUME Len(t) >= 2  PROVE At(p, (i + 2) - 1) = IF (i + 2) - 1 < p.past_the_end THEN t[2] ELSE EOF
  BY <1>1, <1>3, CutAt
<1>4. ASSUME Len(t) >= 3  PROVE At(p, (i + 3) - 1) = IF (i + 3) - 1 < p.past_the_end THEN t[3] ELSE EOF
  BY <1>1, <1>4, CutAt
<1>5. ASSUME Len(t) >= 4  PROVE At(p, (i + 4) - 1) = IF (i + 4) - 1 < p.past_the_end THEN t[4] ELSE EOF
  BY <1>1, <1>5, CutAt
<1> QED BY ONLY <1>1, <1>2, <1>3, <1>4, <1>5

(* Part of a text in a text.                                               *)
LEMMA SliceOne ==
  ASSUME NEW T, IsSeq(T), NEW i \in Nat, NEW t, IsSeq(t), Slice(T, i, t)
  PROVE  i + Len(t) <= Len(T) /\ Len(t) \in Nat /\ Len(T) \in Nat
BY SeqLen DEF Slice

---------------------------------------------------------------------------
(* What readstr_upto takes whole: an atom, or what follows a sharp.        *)

Lexical(q) ==
  /\ IsSeq(q) /\ Len(q) \in 1 .. STRBUFFSIZE - 1
  /\ \A k \in 1 .. Len(q) : q[k] # EOF
  /\ q # <<"\\">>
  /\ (\A k \in 1 .. Len(q) : q[k] \notin Delimiters) \/ (Len(q) = 2 /\ q[1] = "\\")

LEMMA LexicalFirst ==
  ASSUME NEW q, Lexical(q)
  PROVE  /\ IsSeq(q) /\ Len(q) \in Nat \ {0} /\ Len(q) + 1 <= STRBUFFSIZE
         /\ q[1] \notin Delimiters \cup {EOF}
         /\ (\A k \in 1 .. Len(q) : q[k] \notin Delimiters \cup {EOF})
              \/ (Len(q) = 2 /\ q[1] = "\\" /\ q[2] # EOF)
         /\ q[1] = "\\" => Len(q) >= 2
<1>1. IsSeq(q) /\ Len(q) \in Nat \ {0} /\ Len(q) + 1 <= STRBUFFSIZE
  BY ReaderAssumption DEF Lexical
<1>2. "\\" \notin Delimiters
  BY DEF Delimiters
<1>3. 1 \in 1 .. Len(q)
  BY <1>1
<1>4. q[1] \notin Delimiters \cup {EOF}
  BY <1>2, <1>3 DEF Lexical
<1>5. q[1] = "\\" => Len(q) >= 2
  <2>1. ASSUME q[1] = "\\", Len(q) = 1  PROVE FALSE
    <3>1. PICK u : u = <<"\\">>
      OBVIOUS
    <3>2. IsSeq(u) /\ Len(u) = 1 /\ u[1] = "\\"
      BY <3>1, SeqOne
    <3>3. \A k \in 1 .. Len(q) : q[k] = u[k]
      BY <2>1, <3>2
    <3>4. q = u
      BY <1>1, <2>1, <3>2, <3>3, SeqSame
    <3> QED BY <3>1, <3>4 DEF Lexical
  <2>2. Len(q) # 1 => Len(q) >= 2
    <3>1. PICK n : n = Len(q)
      OBVIOUS
    <3>2. n \in Nat \ {0}
      BY <1>1, <3>1
    <3>3. n # 1 => n >= 2
      BY ONLY <3>2
    <3> QED BY <3>1, <3>3
  <2> QED BY <2>1, <2>2
<1>6. (\A k \in 1 .. Len(q) : q[k] \notin Delimiters \cup {EOF})
        \/ (Len(q) = 2 /\ q[1] = "\\" /\ q[2] # EOF)
  <2>1. Len(q) = 2 => 2 \in 1 .. Len(q)
    OBVIOUS
  <2> QED BY <2>1 DEF Lexical
<1> QED BY <1>1, <1>4, <1>5, <1>6

LEMMA UptoWhole ==
  ASSUME NEW p, NEW T, Cuts(p, T), NEW i \in Nat, NEW q, Lexical(q), Slice(T, i, q),
         i + Len(q) <= p.past_the_end, At(p, i + Len(q)) \in Delimiters \cup {EOF}
  PROVE  readstr_upto(p, i) = [str |-> q, at |-> i + Len(q)]
<1>1. /\ IsSeq(q) /\ Len(q) \in Nat \ {0} /\ Len(q) + 1 <= STRBUFFSIZE
      /\ (\A k \in 1 .. Len(q) : q[k] \notin Delimiters \cup {EOF})
           \/ (Len(q) = 2 /\ q[1] = "\\" /\ q[2] # EOF)
      /\ q[1] \notin Delimiters \cup {EOF}
      /\ q[1] = "\\" => Len(q) >= 2
  BY LexicalFirst
<1>2. p.past_the_end \in Nat /\ i \in 0 .. p.past_the_end /\ STRBUFFSIZE \in Nat
  BY <1>1, CutBounds, ReaderAssumption
<1>3. PICK k \in i .. p.past_the_end :
           /\ At(p, k) \in Delimiters \cup {EOF} \/ k - i + 1 = STRBUFFSIZE
           /\ \A j \in i .. p.past_the_end :
                j < k => At(p, j) \notin Delimiters \cup {EOF} /\ j - i + 1 # STRBUFFSIZE
           /\ readstr_upto(p, i) = IF k = i + 1 /\ At(p, i) = "\\"
                                   THEN [str |-> <<"\\", At(p, k)>>, at |-> Past(p, k + 1)]
                                   ELSE [str |-> SubSeq(p.start, i + 1, k), at |-> k]
  BY <1>2, UptoIs
<1>4. \A j \in 1 .. Len(q) : At(p, (i + j) - 1) = q[j]
  <2>1. ASSUME NEW j \in 1 .. Len(q)  PROVE At(p, (i + j) - 1) = q[j]
    <3>1. At(p, (i + j) - 1) = IF (i + j) - 1 < p.past_the_end THEN q[j] ELSE EOF
      BY <1>1, CutAt
    <3>2. (i + j) - 1 < p.past_the_end
      BY <1>1, <1>2
    <3> QED BY <3>1, <3>2
  <2> QED BY <2>1
<1>5. k <= i + Len(q)
  BY <1>1, <1>2, <1>3
<1>6. ASSUME NEW j \in 1 .. Len(q), q[j] \notin Delimiters \cup {EOF}  PROVE k # (i + j) - 1
  <2>1. ASSUME k = (i + j) - 1  PROVE FALSE
    <3>1. At(p, k) = q[j]
      BY <1>4, <2>1
    <3>2. k - i + 1 = j /\ j < STRBUFFSIZE
      BY <1>1, <1>2, <2>1
    <3> QED BY <1>3, <1>6, <3>1, <3>2
  <2> QED BY <2>1
<1>7. 1 \in 1 .. Len(q) /\ At(p, i) = q[1] /\ k # i
  <2>1. 1 \in 1 .. Len(q) /\ (i + 1) - 1 = i
    BY <1>1
  <2>2. At(p, (i + 1) - 1) = q[1] /\ k # (i + 1) - 1
    BY <1>1, <1>4, <1>6, <2>1
  <2> QED BY <2>1, <2>2
<1>8. CASE k = i + Len(q) /\ ~(k = i + 1 /\ At(p, i) = "\\")
  <2>1. readstr_upto(p, i) = [str |-> SubSeq(p.start, i + 1, k), at |-> k]
    BY <1>3, <1>8
  <2>2. IsSeq(p.start) /\ Len(p.start) = p.past_the_end
    BY DEF Cuts, PortOK
  <2>3. PICK u : u = SubSeq(p.start, i + 1, k)
    OBVIOUS
  <2>4. IsSeq(u) /\ Len(u) = Len(q) /\ \A j \in 1 .. Len(q) : u[j] = p.start[i + j]
    <3>1. i <= k /\ k <= Len(p.start) /\ k \in Nat /\ k - i = Len(q)
      BY <1>1, <1>2, <1>8, <2>2
    <3>2. /\ IsSeq(SubSeq(p.start, i + 1, k)) /\ Len(SubSeq(p.start, i + 1, k)) = k - i
          /\ \A j \in 1 .. (k - i) : SubSeq(p.start, i + 1, k)[j] = p.start[i + j]
      BY ONLY <2>2, <3>1, i \in Nat, SeqPart
    <3> QED BY <2>3, <3>1, <3>2
  <2>5. \A j \in 1 .. Len(q) : u[j] = q[j]
    <3>1. ASSUME NEW j \in 1 .. Len(q)  PROVE p.start[i + j] = q[j]
      <4>1. i + j \in 1 .. p.past_the_end
        BY <1>1, <1>2
      <4> QED BY <4>1 DEF Cuts, Slice
    <3> QED BY <2>4, <3>1
  <2>6. u = q
    BY <1>1, <2>4, <2>5, SeqSame
  <2> QED BY <1>8, <2>1, <2>3, <2>6
<1>9. CASE k = i + 1 /\ At(p, i) = "\\"
  <2>1. q[1] = "\\" /\ Len(q) >= 2 /\ 2 \in 1 .. Len(q) /\ (i + 2) - 1 = k
    BY <1>1, <1>7, <1>9
  <2>2. Len(q) = 2 /\ q[2] # EOF /\ At(p, k) = q[2]
    BY <1>1, <1>4, <1>6, <2>1
  <2>3. Past(p, k + 1) = i + Len(q)
    BY <1>2, <1>9, <2>2 DEF Past
  <2>4. <<"\\", At(p, k)>> = q
    <3>1. PICK u : u = <<"\\", At(p, k)>>
      OBVIOUS
    <3>2. IsSeq(u) /\ Len(u) = 2 /\ u[1] = "\\" /\ u[2] = q[2]
      BY <2>2, <3>1, SeqTwo
    <3>3. \A j \in 1 .. Len(u) : u[j] = q[j]
      BY <2>1, <2>2, <3>2
    <3>4. u = q
      BY <1>1, <2>2, <3>2, <3>3, SeqSame
    <3> QED BY <3>1, <3>4
  <2> QED BY <1>3, <1>9, <2>3, <2>4
<1>10. k = i + Len(q) \/ (k = i + 1 /\ At(p, i) = "\\")
  <2>1. CASE \A j \in 1 .. Len(q) : q[j] \notin Delimiters \cup {EOF}
    <3>1. ASSUME k < i + Len(q)  PROVE FALSE
      <4>1. PICK j \in 1 .. Len(q) : k = (i + j) - 1
        <5>1. (k - i) + 1 \in 1 .. Len(q) /\ k = (i + ((k - i) + 1)) - 1
          BY <1>1, <1>2, <1>3, <3>1
        <5> QED BY <5>1
      <4> QED BY <1>6, <2>1, <4>1
    <3> QED BY <1>1, <1>2, <1>5, <3>1
  <2>2. CASE Len(q) = 2 /\ q[1] = "\\" /\ q[2] # EOF
    <3>1. k \in {i, i + 1, i + 2}
      BY <1>2, <1>5, <2>2
    <3> QED BY <1>7, <2>2, <3>1
  <2> QED BY <1>1, <2>1, <2>2
<1> QED BY <1>8, <1>9, <1>10

(* An atom that is cut off ends where the text ends.                       *)
LEMMA UptoCut ==
  ASSUME NEW p, NEW T, Cuts(p, T), NEW i \in Nat, NEW q, Lexical(q), Slice(T, i, q),
         i <= p.past_the_end, p.past_the_end < i + Len(q)
  PROVE  /\ readstr_upto(p, i).at = p.past_the_end
         /\ i = p.past_the_end => readstr_upto(p, i).str = << >>
<1>1. /\ IsSeq(q) /\ Len(q) \in Nat \ {0} /\ Len(q) + 1 <= STRBUFFSIZE
      /\ (\A k \in 1 .. Len(q) : q[k] \notin Delimiters \cup {EOF})
           \/ (Len(q) = 2 /\ q[1] = "\\" /\ q[2] # EOF)
      /\ q[1] \notin Delimiters \cup {EOF}
  BY LexicalFirst
<1>2. p.past_the_end \in Nat /\ i \in 0 .. p.past_the_end /\ STRBUFFSIZE \in Nat
  BY <1>1, CutBounds, ReaderAssumption
<1>3. PICK k \in i .. p.past_the_end :
           /\ At(p, k) \in Delimiters \cup {EOF} \/ k - i + 1 = STRBUFFSIZE
           /\ \A j \in i .. p.past_the_end :
                j < k => At(p, j) \notin Delimiters \cup {EOF} /\ j - i + 1 # STRBUFFSIZE
           /\ readstr_upto(p, i) = IF k = i + 1 /\ At(p, i) = "\\"
                                   THEN [str |-> <<"\\", At(p, k)>>, at |-> Past(p, k + 1)]
                                   ELSE [str |-> SubSeq(p.start, i + 1, k), at |-> k]
  BY <1>2, UptoIs
<1>4. ASSUME NEW j \in 1 .. Len(q), (i + j) - 1 < p.past_the_end, q[j] \notin Delimiters \cup {EOF}
      PROVE  k # (i + j) - 1
  <2>1. ASSUME k = (i + j) - 1  PROVE FALSE
    <3>1. At(p, k) = q[j]
      BY <1>1, <1>4, <2>1, CutAt
    <3>2. k - i + 1 = j /\ j < STRBUFFSIZE
      BY <1>1, <1>2, <2>1
    <3> QED BY <1>3, <1>4, <3>1, <3>2
  <2> QED BY <2>1
<1>5. k = p.past_the_end
  <2>1. CASE \A j \in 1 .. Len(q) : q[j] \notin Delimiters \cup {EOF}
    <3>1. ASSUME k < p.past_the_end  PROVE FALSE
      <4>1. PICK j \in 1 .. Len(q) : k = (i + j) - 1
        <5>1. (k - i) + 1 \in 1 .. Len(q) /\ k = (i + ((k - i) + 1)) - 1
          BY <1>1, <1>2, <1>3, <3>1
        <5> QED BY <5>1
      <4> QED BY <1>4, <2>1, <3>1, <4>1
    <3> QED BY <1>2, <1>3, <3>1
  <2>2. CASE Len(q) = 2 /\ q[1] = "\\" /\ q[2] # EOF
    <3>1. p.past_the_end \in {i, i + 1} /\ k \in {i, i + 1} /\ k <= p.past_the_end
      BY <1>2, <1>3, <2>2
    <3>2. 1 \in 1 .. Len(q) /\ (i + 1) - 1 = i
      BY <2>2
    <3>3. i < p.past_the_end => k # i
      BY <1>1, <1>4, <3>2
    <3> QED BY <1>2, <3>1, <3>3
  <2> QED BY <1>1, <2>1, <2>2
<1>6. Past(p, p.past_the_end + 1) = p.past_the_end
  BY <1>2 DEF Past
<1>7. readstr_upto(p, i).at = p.past_the_end
  BY <1>3, <1>5, <1>6
<1>8. ASSUME i = p.past_the_end  PROVE readstr_upto(p, i).str = << >>
  <2>1. readstr_upto(p, i) = [str |-> SubSeq(p.start, i + 1, i), at |-> i]
    BY <1>2, <1>3, <1>5, <1>8
  <2>2. IsSeq(p.start) /\ Len(p.start) = p.past_the_end
    BY DEF Cuts, PortOK
  <2>3. PICK u : u = SubSeq(p.start, i + 1, i)
    OBVIOUS
  <2>4. IsSeq(u) /\ Len(u) = i - i
    BY <1>2, <1>8, <2>2, <2>3, SeqPart
  <2>5. Len(u) = 0
    BY <2>4
  <2>6. u = << >>
    BY <2>4, <2>5, SeqNone
  <2> QED BY <2>1, <2>3, <2>6
<1> QED BY <1>7, <1>8
---------------------------------------------------------------------------
(* What is read of a string is what was written of it.                     *)

LEMMA NotDigits ==
  \A c : (\A k \in 1 .. 10 : Digits[k] # c) => ~IsDigit(c) /\ ~IsOctal(c)
BY DigitsAre DEF IsDigit, IsOctal

LEMMA TheDigits ==
  /\ Digits[1] = "0" /\ Digits[2] = "1" /\ Digits[3] = "2" /\ Digits[4] = "3" /\ Digits[5] = "4"
  /\ Digits[6] = "5" /\ Digits[7] = "6" /\ Digits[8] = "7" /\ Digits[9] = "8" /\ Digits[10] = "9"
BY DEF Digits

LEMMA NoDigit ==
  ASSUME NEW c \in {"A", "B", "C", "D", "E", "F", "X", "n", "t", "r", "x", "-", "\\", DOUBLEQUOTE, EOF}
  PROVE  ~IsDigit(c) /\ ~IsOctal(c)
<1>1. ASSUME NEW k \in 1 .. 10  PROVE Digits[k] # c
  <2>1. k \in {1, 2, 3, 4, 5, 6, 7, 8, 9, 10}
    OBVIOUS
  <2> QED BY <2>1, TheDigits DEF DOUBLEQUOTE, EOF
<1> QED BY <1>1, NotDigits

LEMMA LettersAre ==
  /\ \A k \in 1 .. 6 : HexDigits[k + 10] = Upper[k]
  /\ \A k \in 1 .. 10 : HexDigits[k] = Digits[k]
<1>1. PICK d, u, v : d = Digits /\ u = Upper /\ v = SubSeq(u, 1, 6)
  OBVIOUS
<1>2. IsSeq(u) /\ Len(u) = 7
  <2>1. u \in Seq({"A", "B", "C", "D", "E", "F", "X"}) /\ Len(u) = 7
    BY <1>1 DEF Upper
  <2> QED BY <2>1 DEF IsSeq
<1>3. IsSeq(v) /\ Len(v) = 6 /\ \A k \in 1 .. 6 : v[k] = u[k]
  <2>1. 6 \in 0 .. Len(u)
    BY <1>2
  <2>2. IsSeq(SubSeq(u, 1, 6)) /\ Len(SubSeq(u, 1, 6)) = 6 /\ \A k \in 1 .. 6 : SubSeq(u, 1, 6)[k] = u[k]
    BY ONLY <1>2, <2>1, SeqFront
  <2> QED BY <1>1, <2>2
<1>4. IsSeq(d) /\ Len(d) = 10
  <2>1. d \in Seq({"0", "1", "2", "3", "4", "5", "6", "7", "8", "9"}) /\ Len(d) = 10
    BY <1>1 DEF Digits
  <2> QED BY <2>1 DEF IsSeq
<1>5. PICK h : h = d \o v
  OBVIOUS
<1>6. /\ \A j \in 1 .. Len(d) : h[j] = d[j]
      /\ \A j \in 1 .. Len(v) : h[Len(d) + j] = v[j]
  <2>1. IsSeq(d) /\ IsSeq(v)
    BY <1>3, <1>4
  <2>2. /\ \A j \in 1 .. Len(d) : (d \o v)[j] = d[j]
        /\ \A j \in 1 .. Len(v) : (d \o v)[Len(d) + j] = v[j]
    BY ONLY <2>1, SeqConcat
  <2> QED BY <1>5, <2>2
<1>7. h = HexDigits
  BY <1>1, <1>5 DEF HexDigits
<1>8. \A k \in 1 .. 6 : h[k + 10] = u[k]
  <2>1. \A k \in 1 .. 6 : 10 + k = k + 10
    OBVIOUS
  <2> QED BY <1>3, <1>4, <1>6, <2>1
<1> QED BY <1>1, <1>4, <1>6, <1>7, <1>8

LEMMA TheLetters ==
  /\ Upper[1] = "A" /\ Upper[2] = "B" /\ Upper[3] = "C" /\ Upper[4] = "D" /\ Upper[5] = "E" /\ Upper[6] = "F"
  /\ Lower[1] = "a" /\ Lower[2] = "b" /\ Lower[3] = "c" /\ Lower[4] = "d" /\ Lower[5] = "e" /\ Lower[6] = "f"
BY DEF Upper, Lower

LEMMA HexLetter ==
  ASSUME NEW k \in 1 .. 6
  PROVE  HexLike(Upper[k]) /\ HexValue(Upper[k]) = k + 9 /\ Upper[k] # EOF
<1>1. PICK c : c = Upper[k]
  OBVIOUS
<1>2. k \in {1, 2, 3, 4, 5, 6}
  OBVIOUS
<1>3. c \in {"A", "B", "C", "D", "E", "F"} /\ c # EOF
  BY <1>1, <1>2, TheLetters DEF EOF
<1>4. ~IsDigit(c)
  BY <1>3, NoDigit
<1>5. c \notin ToSet(Between9AndA)
  <2>1. ToSet(Between9AndA) \subseteq {":", ";", "<", "=", ">", "?", "@"}
    <3>1. PICK b : b = Between9AndA
      OBVIOUS
    <3>2. /\ DOMAIN b = 1 .. 7 /\ b[1] = ":" /\ b[2] = ";" /\ b[3] = "<" /\ b[4] = "="
          /\ b[5] = ">" /\ b[6] = "?" /\ b[7] = "@"
      <4>1. b = <<":", ";", "<", "=", ">", "?", "@">>
        BY <3>1 DEF Between9AndA
      <4>2. DOMAIN Between9AndA = 1 .. 7
        BY DEF Between9AndA
      <4>3. b[1] = ":" /\ b[2] = ";"
        BY <4>1
      <4>4. b[3] = "<" /\ b[4] = "="
        BY <4>1
      <4>5. b[5] = ">" /\ b[6] = "?"
        BY <4>1
      <4>6. b[7] = "@"
        BY <4>1
      <4> QED BY ONLY <3>1, <4>2, <4>3, <4>4, <4>5, <4>6
    <3>3. \A j \in 1 .. 7 : j \in {1, 2, 3, 4, 5, 6, 7}
      OBVIOUS
    <3>4. ASSUME NEW x \in ToSet(b)
          PROVE  x \in {":", ";", "<", "=", ">", "?", "@"}
      <4>1. PICK j \in DOMAIN b : x = b[j]
        BY DEF ToSet
      <4>2. j \in {1, 2, 3, 4, 5, 6, 7}
        BY <3>2, <3>3, <4>1
      <4> QED BY <3>2, <4>1, <4>2
    <3> QED BY <3>1, <3>4
  <2> QED BY <1>3, <2>1
<1>6. HexLike(c)
  <2>1. c \in ToSet(Upper \o Lower)
    <3>1. PICK u, l : u = Upper /\ l = Lower
      OBVIOUS
    <3>2. IsSeq(u) /\ IsSeq(l) /\ Len(u) = 7
      <4>1. u \in Seq({"A", "B", "C", "D", "E", "F", "X"}) /\ Len(u) = 7
        BY <3>1 DEF Upper
      <4>2. l \in Seq({"a", "b", "c", "d", "e", "f", "x"})
        BY <3>1 DEF Lower
      <4> QED BY <4>1, <4>2 DEF IsSeq
    <3>3. PICK w : w = u \o l
      OBVIOUS
    <3>4. IsSeq(w) /\ Len(w) = Len(u) + Len(l) /\ Len(l) \in Nat /\ \A j \in 1 .. Len(u) : w[j] = u[j]
      BY <3>2, <3>3, SeqConcat
    <3>5. k \in 1 .. Len(u) /\ k \in 1 .. Len(w)
      BY <3>2, <3>4
    <3>6. w[k] = c /\ k \in DOMAIN w
      BY <1>1, <3>1, <3>4, <3>5, SeqLen
    <3> QED BY <3>1, <3>3, <3>6 DEF ToSet
  <2>2. c \notin {"X", "x"}
    BY <1>3
  <2> QED BY <2>1, <2>2 DEF HexLike
<1>7. \A j \in 1 .. 6 : c \in {Upper[j], Lower[j]} => j = k
  <2>1. ASSUME NEW j \in 1 .. 6, c \in {Upper[j], Lower[j]}  PROVE j = k
    <3>1. j \in {1, 2, 3, 4, 5, 6}
      OBVIOUS
    <3>2. Upper[k] = Upper[j] \/ Upper[k] = Lower[j]
      BY <1>1, <2>1
    <3> QED BY <1>2, <3>1, <3>2, TheLetters
  <2> QED BY <2>1
<1>8. c \in {Upper[k], Lower[k]}
  BY <1>1
<1>9. (CHOOSE j \in 1 .. 6 : c \in {Upper[j], Lower[j]}) = k
  BY <1>7, <1>8
<1>10. HexValue(c) = k + 9
  BY <1>4, <1>5, <1>9 DEF HexValue
<1> QED BY <1>1, <1>3, <1>6, <1>10

LEMMA HexDigit ==
  ASSUME NEW n \in 0 .. 15
  PROVE  HexLike(HexDigits[n + 1]) /\ HexValue(HexDigits[n + 1]) = n /\ HexDigits[n + 1] # EOF
<1>1. CASE n <= 9
  <2>1. n + 1 \in 1 .. 10
    BY <1>1
  <2>2. PICK k : k = n + 1
    OBVIOUS
  <2>3. HexDigits[k] = Digits[k] /\ IsDigit(Digits[k]) /\ DigitValue(Digits[k]) = k - 1
    BY <2>1, <2>2, LettersAre, DigitsAre
  <2>4. ~IsDigit(EOF)
    BY NoDigit
  <2>5. HexLike(HexDigits[k]) /\ HexValue(HexDigits[k]) = k - 1 /\ HexDigits[k] # EOF
    BY <2>3, <2>4 DEF HexLike, HexValue
  <2> QED BY <2>2, <2>5
<1>2. CASE n >= 10
  <2>1. PICK k \in 1 .. 6 : k + 10 = n + 1
    BY <1>2
  <2>2. HexDigits[n + 1] = Upper[k]
    BY <2>1, LettersAre
  <2>3. HexLike(Upper[k]) /\ HexValue(Upper[k]) = k + 9 /\ Upper[k] # EOF
    BY HexLetter
  <2>4. k + 9 = n
    BY <2>1
  <2> QED BY <2>2, <2>3, <2>4
<1> QED BY <1>1, <1>2

LEMMA ByteParts ==
  ASSUME NEW n \in 0 .. 255
  PROVE  n \div 16 \in 0 .. 15 /\ n % 16 \in 0 .. 15 /\ (16 * (n \div 16) + (n % 16)) % 256 = n
OBVIOUS

(* The two digits of a code give its character.                            *)
LEMMA HexRound ==
  ASSUME NEW c \in HexEscape
  PROVE  LET h == HexPair(Code(c))
         IN  /\ HexLike(h[1]) /\ HexLike(h[2]) /\ h[1] # EOF /\ h[2] # EOF
             /\ Chr((16 * HexValue(h[1]) + HexValue(h[2])) % 256) = c
<1>1. \E n \in 0 .. 255 : Chr(n) = c
  BY DEF HexEscape, Control
<1>2. PICK n : n = Code(c)
  OBVIOUS
<1>3. n \in 0 .. 255 /\ Chr(n) = c
  BY <1>1, <1>2 DEF Code
<1>4. PICK x, y : x = n \div 16 /\ y = n % 16
  OBVIOUS
<1>5. x \in 0 .. 15 /\ y \in 0 .. 15 /\ (16 * x + y) % 256 = n
  BY <1>3, <1>4, ByteParts
<1>6. HexPair(n)[1] = HexDigits[x + 1] /\ HexPair(n)[2] = HexDigits[y + 1]
  BY <1>4 DEF HexPair
<1>7. HexLike(HexDigits[x + 1]) /\ HexValue(HexDigits[x + 1]) = x /\ HexDigits[x + 1] # EOF
  BY <1>5, HexDigit
<1>8. HexLike(HexDigits[y + 1]) /\ HexValue(HexDigits[y + 1]) = y /\ HexDigits[y + 1] # EOF
  BY <1>5, HexDigit
<1>9. Chr((16 * x + y) % 256) = c
  BY <1>3, <1>5
<1> QED BY <1>2, <1>6, <1>7, <1>8, <1>9

Steps(f, p, N) == \A k \in 1 .. N : f[k] = StringStep(p, f[k - 1])

(* One step of the automaton at a character of the text, or at its end.    *)
Stepped(p, s, b, t, a, c, r) ==
  /\ ~(a < p.past_the_end) => r.state = "bad"
  /\ a < p.past_the_end =>
       /\ s = "ok" => r = InText(Run(s, b, t, a + 1), c)
       /\ s = "bsl" => r = AfterBackslash(Run(s, b, t, a + 1), c)
       /\ s \in {"x1", "x2"} => r = InHex(Run(s, b, t, a + 1), c)

LEMMA RunStep ==
  ASSUME NEW p, p.past_the_end \in Nat, NEW s \in {"ok", "bsl", "x1", "x2"}, NEW b, NEW t,
         Len(t) \in Nat, Len(t) + 1 <= STRBUFFSIZE, NEW a \in 0 .. p.past_the_end, NEW c, c # EOF,
         At(p, a) = IF a < p.past_the_end THEN c ELSE EOF,
         NEW r, r = StringStep(p, Run(s, b, t, a))
  PROVE  Stepped(p, s, b, t, a, c, r)
<1>1. s \in States /\ s \notin {"closed", "bad"}
  BY DEF States
<1>2. STRBUFFSIZE \in Nat
  BY ReaderAssumption
<1>3. ~(Len(t) > STRBUFFSIZE - 1)
  BY <1>2
<1>4. PICK next : next = Run(s, b, t, Past(p, a + 1))
  OBVIOUS
<1>5. /\ s \notin {"closed", "bad"} /\ (At(p, a) = EOF \/ Len(t) > STRBUFFSIZE - 1) =>
           r = Run("bad", b, t, Past(p, a + 1))
      /\ s \notin {"closed", "bad"} /\ At(p, a) # EOF /\ ~(Len(t) > STRBUFFSIZE - 1) =>
           /\ s = "ok" => r = InText(next, At(p, a))
           /\ s = "bsl" => r = AfterBackslash(next, At(p, a))
           /\ s \in {"x1", "x2"} => r = InHex(next, At(p, a))
  BY ONLY <1>1, <1>4, r = StringStep(p, Run(s, b, t, a)), StringStepIs
<1>6. CASE ~(a < p.past_the_end)
  <2>1. At(p, a) = EOF
    BY <1>6
  <2>2. r = Run("bad", b, t, Past(p, a + 1))
    BY <1>1, <1>5, <2>1
  <2> QED BY <1>6, <2>2, RunFields DEF Stepped
<1>7. CASE a < p.past_the_end
  <2>1. At(p, a) = c /\ At(p, a) # EOF
    BY <1>7
  <2>2. Past(p, a + 1) = a + 1
    BY <1>7 DEF Past
  <2> QED BY <1>1, <1>3, <1>4, <1>5, <1>7, <2>1, <2>2 DEF Stepped
<1> QED BY <1>6, <1>7

(* The end is the end.                                                     *)
LEMMA RunStays ==
  ASSUME NEW p, NEW N \in Nat, NEW f, Steps(f, p, N), NEW l \in 0 .. N,
         f[l].state \in {"closed", "bad"}
  PROVE  f[N] = f[l]
<1> DEFINE S == {k \in 0 .. N : k >= l => f[k] = f[l]}
<1>1. 0 \in S
  OBVIOUS
<1>2. ASSUME NEW k \in 1 .. N, k - 1 \in S  PROVE k \in S
  <2>1. CASE k - 1 >= l
    <3>1. f[k - 1] = f[l] /\ f[k] = StringStep(p, f[k - 1])
      BY <1>2, <2>1 DEF Steps
    <3>2. f[k] = f[l]
      BY <3>1 DEF StringStep
    <3> QED BY <3>2
  <2>2. CASE ~(k - 1 >= l)
    BY <2>2
  <2> QED BY <2>1, <2>2
<1>3. \A k \in 0 .. N : k \in S
  <2> HIDE DEF S
  <2> QED BY <1>1, <1>2, UpTo
<1>4. N \in S
  BY <1>3
<1> QED BY <1>4

(* What one character of the string does: all of what is written for it is *)
(* there, or not.                                                          *)
Took(f, n, p, u, c, a, L) ==
  /\ a + L <= p.past_the_end => \E b : f[n + L] = Run("ok", b, Append(u, c), a + L)
  /\ p.past_the_end < a + L =>
       \E l \in Nat : l <= n + (p.past_the_end - a) + 1 /\ f[l].state = "bad"

LEMMA TakesOne ==
  ASSUME NEW p, p.past_the_end \in Nat, NEW N \in Nat, NEW f, Steps(f, p, N), NEW n \in Nat,
         NEW a \in 0 .. p.past_the_end, n + (p.past_the_end - a) + 1 <= N,
         NEW u, Len(u) \in Nat, Len(u) + 1 <= STRBUFFSIZE, NEW b, f[n] = Run("ok", b, u, a),
         NEW c, c # EOF, c \notin {"\\", DOUBLEQUOTE},
         At(p, a) = IF a < p.past_the_end THEN c ELSE EOF
  PROVE  Took(f, n, p, u, c, a, 1)
<1>1. n + 1 \in 1 .. N /\ (n + 1) - 1 = n
  OBVIOUS
<1>2. f[n + 1] = StringStep(p, Run("ok", b, u, a))
  BY <1>1 DEF Steps
<1>3. /\ ~(a < p.past_the_end) => f[n + 1].state = "bad"
      /\ a < p.past_the_end => f[n + 1] = InText(Run("ok", b, u, a + 1), c)
  <2>1. Stepped(p, "ok", b, u, a, c, f[n + 1])
    BY <1>2, RunStep
  <2> QED BY <2>1 DEF Stepped
<1>4. CASE a < p.past_the_end
  <2>1. f[n + 1] = Run("ok", b, Append(u, c), a + 1)
    <3>1. InText(Run("ok", b, u, a + 1), c) = Run("ok", b, Append(u, c), a + 1)
      BY InTextIs
    <3> QED BY <1>3, <1>4, <3>1
  <2>2. ~(p.past_the_end < a + 1)
    BY <1>4
  <2> QED BY <2>1, <2>2 DEF Took
<1>5. CASE ~(a < p.past_the_end)
  <2>1. ~(a + 1 <= p.past_the_end) /\ n + 1 \in Nat /\ n + 1 <= n + (p.past_the_end - a) + 1
    BY <1>5
  <2> QED BY <1>3, <1>5, <2>1 DEF Took
<1> QED BY <1>4, <1>5

LEMMA TakesTwo ==
  ASSUME NEW p, p.past_the_end \in Nat, NEW N \in Nat, NEW f, Steps(f, p, N), NEW n \in Nat,
         NEW a \in 0 .. p.past_the_end, n + (p.past_the_end - a) + 1 <= N,
         NEW u, Len(u) \in Nat, Len(u) + 1 <= STRBUFFSIZE, NEW b, f[n] = Run("ok", b, u, a),
         NEW c, NEW d, d # EOF,
         ~IsOctal(d), d \notin {"x", "X"},
         c = IF d = "n" THEN "\n" ELSE IF d = "t" THEN "\t" ELSE IF d = "r" THEN "\r" ELSE d,
         At(p, a) = IF a < p.past_the_end THEN "\\" ELSE EOF,
         At(p, a + 1) = IF a + 1 < p.past_the_end THEN d ELSE EOF
  PROVE  Took(f, n, p, u, c, a, 2)
<1>1. n + 1 \in Nat /\ (n + 1) - 1 = n /\ n + 1 \in 1 .. N
  OBVIOUS
<1>2. PICK e : e = "\\"
  OBVIOUS
<1>3. e # EOF
  BY <1>2 DEF EOF
<1>4. f[n + 1] = StringStep(p, Run("ok", b, u, a))
  BY <1>1 DEF Steps
<1>5. /\ ~(a < p.past_the_end) => f[n + 1].state = "bad"
      /\ a < p.past_the_end => f[n + 1] = InText(Run("ok", b, u, a + 1), e)
  <2>1. Stepped(p, "ok", b, u, a, e, f[n + 1])
    BY <1>2, <1>3, <1>4, RunStep
  <2> QED BY <2>1 DEF Stepped
<1>6. CASE ~(a < p.past_the_end)
  <2>1. ~(a + 2 <= p.past_the_end) /\ n + 1 <= n + (p.past_the_end - a) + 1
    BY <1>6
  <2> QED BY <1>1, <1>5, <1>6, <2>1 DEF Took
<1>7. CASE a < p.past_the_end
  <2>1. f[n + 1] = Run("bsl", b, u, a + 1)
    BY <1>2, <1>5, <1>7, InTextIs
  <2>2. n + 2 \in 1 .. N /\ (n + 2) - 1 = n + 1 /\ n + 2 \in Nat /\ a + 1 \in 0 .. p.past_the_end
    BY <1>7
  <2>3. f[n + 2] = StringStep(p, Run("bsl", b, u, a + 1))
    BY <2>1, <2>2 DEF Steps
  <2>4. /\ ~(a + 1 < p.past_the_end) => f[n + 2].state = "bad"
        /\ a + 1 < p.past_the_end => f[n + 2] = AfterBackslash(Run("bsl", b, u, (a + 1) + 1), d)
    <3>1. Stepped(p, "bsl", b, u, a + 1, d, f[n + 2])
      BY <2>2, <2>3, RunStep
    <3> QED BY <3>1 DEF Stepped
  <2>5. CASE ~(a + 1 < p.past_the_end)
    <3>1. ~(a + 2 <= p.past_the_end) /\ n + 2 <= n + (p.past_the_end - a) + 1
      BY <1>7, <2>5
    <3> QED BY <2>2, <2>4, <2>5, <3>1 DEF Took
  <2>6. CASE a + 1 < p.past_the_end
    <3>1. PICK k : k = (a + 1) + 1
      OBVIOUS
    <3>2. AfterBackslash(Run("bsl", b, u, k), d) = Run("ok", b, Append(u, c), k)
      BY AfterBackslashIs
    <3>3. f[n + 2] = Run("ok", b, Append(u, c), k) /\ k = a + 2
      BY <2>4, <2>6, <3>1, <3>2
    <3>4. ~(p.past_the_end < a + 2)
      BY <2>6
    <3> QED BY <3>3, <3>4 DEF Took
  <2> QED BY <2>5, <2>6
<1> QED BY <1>6, <1>7

LEMMA TakesFour ==
  ASSUME NEW p, p.past_the_end \in Nat, NEW N \in Nat, NEW f, Steps(f, p, N), NEW n \in Nat,
         NEW a \in 0 .. p.past_the_end, n + (p.past_the_end - a) + 1 <= N,
         NEW u, Len(u) \in Nat, Len(u) + 1 <= STRBUFFSIZE, NEW b, f[n] = Run("ok", b, u, a),
         NEW c, NEW g, NEW h, g # EOF, h # EOF, HexLike(g), HexLike(h),
         Chr((16 * HexValue(g) + HexValue(h)) % 256) = c,
         At(p, a) = IF a < p.past_the_end THEN "\\" ELSE EOF,
         At(p, a + 1) = IF a + 1 < p.past_the_end THEN "x" ELSE EOF,
         At(p, a + 2) = IF a + 2 < p.past_the_end THEN g ELSE EOF,
         At(p, a + 3) = IF a + 3 < p.past_the_end THEN h ELSE EOF
  PROVE  Took(f, n, p, u, c, a, 4)
<1>1. n + 1 \in Nat /\ (n + 1) - 1 = n /\ n + 1 \in 1 .. N
  OBVIOUS
<1>2. PICK e, x : e = "\\" /\ x = "x"
  OBVIOUS
<1>3. e # EOF /\ x # EOF
  BY <1>2 DEF EOF
<1>4. f[n + 1] = StringStep(p, Run("ok", b, u, a))
  BY <1>1 DEF Steps
<1>5. /\ ~(a < p.past_the_end) => f[n + 1].state = "bad"
      /\ a < p.past_the_end => f[n + 1] = InText(Run("ok", b, u, a + 1), e)
  <2>1. Stepped(p, "ok", b, u, a, e, f[n + 1])
    BY <1>2, <1>3, <1>4, RunStep
  <2> QED BY <2>1 DEF Stepped
<1>6. CASE ~(a < p.past_the_end)
  <2>1. ~(a + 4 <= p.past_the_end) /\ n + 1 <= n + (p.past_the_end - a) + 1
    BY <1>6
  <2> QED BY <1>1, <1>5, <1>6, <2>1 DEF Took
<1>7. ASSUME a < p.past_the_end
      PROVE  /\ n + 2 \in 1 .. N /\ n + 2 \in Nat
             /\ ~(a + 1 < p.past_the_end) => f[n + 2].state = "bad"
             /\ a + 1 < p.past_the_end => f[n + 2] = Run("x1", 0, u, a + 2)
  <2>1. f[n + 1] = Run("bsl", b, u, a + 1)
    BY <1>2, <1>5, <1>7, InTextIs
  <2>2. n + 2 \in 1 .. N /\ (n + 2) - 1 = n + 1 /\ n + 2 \in Nat /\ a + 1 \in 0 .. p.past_the_end
        /\ (a + 1) + 1 = a + 2
    BY <1>7
  <2>3. f[n + 2] = StringStep(p, Run("bsl", b, u, a + 1))
    BY <2>1, <2>2 DEF Steps
  <2>4. /\ ~(a + 1 < p.past_the_end) => f[n + 2].state = "bad"
        /\ a + 1 < p.past_the_end => f[n + 2] = AfterBackslash(Run("bsl", b, u, (a + 1) + 1), x)
    <3>1. Stepped(p, "bsl", b, u, a + 1, x, f[n + 2])
      BY <1>2, <1>3, <2>2, <2>3, RunStep
    <3> QED BY <3>1 DEF Stepped
  <2>5. AfterBackslash(Run("bsl", b, u, a + 2), x) = Run("x1", 0, u, a + 2)
    BY <1>2, AfterBackslashIs
  <2> QED BY <2>2, <2>4, <2>5
<1>8. ASSUME a + 1 < p.past_the_end
      PROVE  /\ n + 3 \in 1 .. N /\ n + 3 \in Nat
             /\ ~(a + 2 < p.past_the_end) => f[n + 3].state = "bad"
             /\ a + 2 < p.past_the_end => f[n + 3] = Run("x2", HexValue(g), u, a + 3)
  <2>1. f[n + 2] = Run("x1", 0, u, a + 2)
    BY <1>7, <1>8
  <2>2. n + 3 \in 1 .. N /\ (n + 3) - 1 = n + 2 /\ n + 3 \in Nat /\ a + 2 \in 0 .. p.past_the_end
        /\ (a + 2) + 1 = a + 3
    BY <1>8
  <2>3. f[n + 3] = StringStep(p, Run("x1", 0, u, a + 2))
    BY <2>1, <2>2 DEF Steps
  <2>4. /\ ~(a + 2 < p.past_the_end) => f[n + 3].state = "bad"
        /\ a + 2 < p.past_the_end => f[n + 3] = InHex(Run("x1", 0, u, (a + 2) + 1), g)
    <3>1. Stepped(p, "x1", 0, u, a + 2, g, f[n + 3])
      BY <2>2, <2>3, RunStep
    <3> QED BY <3>1 DEF Stepped
  <2>5. InHex(Run("x1", 0, u, a + 3), g) = Run("x2", HexValue(g), u, a + 3)
    BY InHexIs
  <2> QED BY <2>2, <2>4, <2>5
<1>9. ASSUME a + 2 < p.past_the_end
      PROVE  /\ n + 4 \in Nat
             /\ ~(a + 3 < p.past_the_end) => f[n + 4].state = "bad"
             /\ a + 3 < p.past_the_end => f[n + 4] = Run("ok", HexValue(g), Append(u, c), a + 4)
  <2>1. f[n + 3] = Run("x2", HexValue(g), u, a + 3)
    BY <1>8, <1>9
  <2>2. n + 4 \in 1 .. N /\ (n + 4) - 1 = n + 3 /\ n + 4 \in Nat /\ a + 3 \in 0 .. p.past_the_end
        /\ (a + 3) + 1 = a + 4
    BY <1>9
  <2>3. f[n + 4] = StringStep(p, Run("x2", HexValue(g), u, a + 3))
    BY <2>1, <2>2 DEF Steps
  <2>4. /\ ~(a + 3 < p.past_the_end) => f[n + 4].state = "bad"
        /\ a + 3 < p.past_the_end => f[n + 4] = InHex(Run("x2", HexValue(g), u, (a + 3) + 1), h)
    <3>1. Stepped(p, "x2", HexValue(g), u, a + 3, h, f[n + 4])
      BY <2>2, <2>3, RunStep
    <3> QED BY <3>1 DEF Stepped
  <2>5. InHex(Run("x2", HexValue(g), u, a + 4), h) = Run("ok", HexValue(g), Append(u, c), a + 4)
    <3>1. InHex(Run("x2", HexValue(g), u, a + 4), h)
            = Run("ok", HexValue(g), Append(u, Chr((16 * HexValue(g) + HexValue(h)) % 256)), a + 4)
      BY InHexIs
    <3> QED BY <3>1
  <2> QED BY <2>2, <2>4, <2>5
<1>10. CASE a + 3 < p.past_the_end
  <2>1. a + 2 < p.past_the_end /\ ~(p.past_the_end < a + 4)
    BY <1>10
  <2> QED BY <1>9, <1>10, <2>1 DEF Took
<1>11. CASE a < p.past_the_end /\ ~(a + 3 < p.past_the_end)
  <2>1. ~(a + 4 <= p.past_the_end)
    BY <1>11
  <2>2. CASE ~(a + 1 < p.past_the_end)
    <3>1. n + 2 <= n + (p.past_the_end - a) + 1
      BY <1>11
    <3> QED BY <1>7, <1>11, <2>1, <2>2, <3>1 DEF Took
  <2>3. CASE a + 1 < p.past_the_end /\ ~(a + 2 < p.past_the_end)
    <3>1. n + 3 <= n + (p.past_the_end - a) + 1
      BY <2>3
    <3> QED BY <1>8, <2>1, <2>3, <3>1 DEF Took
  <2>4. CASE a + 2 < p.past_the_end
    <3>1. n + 4 <= n + (p.past_the_end - a) + 1
      BY <2>4
    <3> QED BY <1>9, <1>11, <2>1, <2>4, <3>1 DEF Took
  <2> QED BY <2>2, <2>3, <2>4
<1> QED BY <1>6, <1>10, <1>11

LEMMA TakesEscaped ==
  ASSUME NEW p, NEW T, Cuts(p, T), NEW N \in Nat, NEW f, Steps(f, p, N), NEW n \in Nat,
         NEW a \in 0 .. p.past_the_end, n + (p.past_the_end - a) + 1 <= N,
         NEW u, Len(u) \in Nat, Len(u) + 1 <= STRBUFFSIZE, NEW b, f[n] = Run("ok", b, u, a),
         NEW c, c # EOF, Slice(T, a, Escaped(c))
  PROVE  Took(f, n, p, u, c, a, Len(Escaped(c)))
<1>1. p.past_the_end \in Nat /\ a \in Nat /\ IsSeq(Escaped(c))
  BY CutBounds, EscapedSeq
<1>2. PICK t : t = Escaped(c)
  OBVIOUS
<1>3. /\ Len(t) >= 1 => At(p, a) = IF a < p.past_the_end THEN t[1] ELSE EOF
      /\ Len(t) >= 2 => At(p, a + 1) = IF a + 1 < p.past_the_end THEN t[2] ELSE EOF
      /\ Len(t) >= 3 => At(p, a + 2) = IF a + 2 < p.past_the_end THEN t[3] ELSE EOF
      /\ Len(t) >= 4 => At(p, a + 3) = IF a + 3 < p.past_the_end THEN t[4] ELSE EOF
  BY <1>1, <1>2, CutFirst
<1>4. ASSUME NEW d, t = <<"\\", d>>, d # EOF, ~IsOctal(d), d \notin {"x", "X"},
             c = IF d = "n" THEN "\n" ELSE IF d = "t" THEN "\t" ELSE IF d = "r" THEN "\r" ELSE d
      PROVE  Took(f, n, p, u, c, a, Len(t))
  <2>1. Len(t) = 2 /\ t[1] = "\\" /\ t[2] = d
    BY <1>4, SeqTwo
  <2>2. /\ At(p, a) = IF a < p.past_the_end THEN "\\" ELSE EOF
        /\ At(p, a + 1) = IF a + 1 < p.past_the_end THEN d ELSE EOF
    BY <1>3, <2>1
  <2>3. Took(f, n, p, u, c, a, 2)
    BY <1>1, <1>4, <2>2, TakesTwo
  <2> QED BY <2>1, <2>3
<1>5. CASE c \in {DOUBLEQUOTE, "\\"}
  <2>1. t = <<"\\", c>>
    BY <1>2, <1>5, EscapedIs
  <2>2. ~IsOctal(c)
    BY <1>5, NoDigit
  <2>3. c \notin {"x", "X", "n", "t", "r"}
    BY <1>5 DEF DOUBLEQUOTE
  <2> QED BY <1>2, <1>4, <2>1, <2>2, <2>3
<1>6. CASE c \in {"\n", "\t", "\r"}
  <2>1. PICK d \in {"n", "t", "r"} :
          /\ t = <<"\\", d>>
          /\ c = IF d = "n" THEN "\n" ELSE IF d = "t" THEN "\t" ELSE IF d = "r" THEN "\r" ELSE d
    <3>1. CASE c = "\n"
      BY <1>2, <3>1, EscapedIs
    <3>2. CASE c = "\t"
      BY <1>2, <3>2, EscapedIs
    <3>3. CASE c = "\r"
      BY <1>2, <3>3, EscapedIs
    <3> QED BY <1>6, <3>1, <3>2, <3>3
  <2>2. ~IsOctal(d)
    BY NoDigit
  <2>3. d \notin {"x", "X", EOF}
    BY DEF EOF
  <2> QED BY <1>2, <1>4, <2>1, <2>2, <2>3
<1>7. CASE c \in HexEscape
  <2>1. PICK h : h = HexPair(Code(c))
    OBVIOUS
  <2>2. t = <<"\\", "x", h[1], h[2]>>
    BY <1>2, <1>7, <2>1, EscapedIs
  <2>3. /\ HexLike(h[1]) /\ HexLike(h[2]) /\ h[1] # EOF /\ h[2] # EOF
        /\ Chr((16 * HexValue(h[1]) + HexValue(h[2])) % 256) = c
    BY <1>7, <2>1, HexRound
  <2>4. PICK x, y : x = h[1] /\ y = h[2]
    OBVIOUS
  <2>5. Len(t) = 4 /\ t[1] = "\\" /\ t[2] = "x" /\ t[3] = x /\ t[4] = y
    BY <2>2, <2>4, SeqFour
  <2>6. /\ At(p, a) = IF a < p.past_the_end THEN "\\" ELSE EOF
        /\ At(p, a + 1) = IF a + 1 < p.past_the_end THEN "x" ELSE EOF
        /\ At(p, a + 2) = IF a + 2 < p.past_the_end THEN x ELSE EOF
        /\ At(p, a + 3) = IF a + 3 < p.past_the_end THEN y ELSE EOF
    BY <1>3, <2>5
  <2>7. /\ HexLike(x) /\ HexLike(y) /\ x # EOF /\ y # EOF
        /\ Chr((16 * HexValue(x) + HexValue(y)) % 256) = c
    BY <2>3, <2>4
  <2>8. Took(f, n, p, u, c, a, 4)
    BY <1>1, <2>6, <2>7, TakesFour
  <2> QED BY <1>2, <2>5, <2>8
<1>8. CASE c \notin NamedEscape \cup HexEscape
  <2>1. t = <<c>>
    BY <1>2, <1>8, EscapedIs
  <2>2. Len(t) = 1 /\ t[1] = c
    BY <2>1, SeqOne
  <2>3. At(p, a) = IF a < p.past_the_end THEN c ELSE EOF
    BY <1>3, <2>2
  <2>4. c \notin {"\\", DOUBLEQUOTE}
    BY <1>8 DEF NamedEscape
  <2>5. Took(f, n, p, u, c, a, 1)
    BY <1>1, <2>3, <2>4, TakesOne
  <2> QED BY <1>2, <2>2, <2>5
<1>9. c \in NamedEscape => c \in {DOUBLEQUOTE, "\\"} \/ c \in {"\n", "\t", "\r"}
  BY DEF NamedEscape
<1> QED BY <1>5, <1>6, <1>7, <1>8, <1>9

(* The parts of the text of a string.                                      *)
PartsAt(T, i, s, e, n) ==
  /\ \A k \in 0 .. n : Slice(T, i, e[k])
  /\ \A k \in 1 .. n : /\ Slice(T, i + Len(e[k - 1]), Escaped(s[k]))
                       /\ Len(e[k]) = Len(e[k - 1]) + Len(Escaped(s[k]))

LEMMA EscapesAt ==
  ASSUME NEW T, IsSeq(T), NEW i \in Nat, NEW s, IsSeq(s), NEW e, Escapes(s, e), Slice(T, i, e[Len(s)])
  PROVE  PartsAt(T, i, s, e, Len(s))
<1>0. PICK n : n = Len(s)
  OBVIOUS
<1>1. n \in Nat
  BY <1>0, SeqLen
<1>2. ASSUME NEW k \in 1 .. n
      PROVE  /\ e[k] = e[k - 1] \o Escaped(s[k]) /\ IsSeq(e[k - 1]) /\ IsSeq(Escaped(s[k]))
             /\ Len(e[k]) = Len(e[k - 1]) + Len(Escaped(s[k]))
  <2>1. e[k] = e[k - 1] \o Escaped(s[k])
    BY <1>0 DEF Escapes
  <2>2. k - 1 \in 0 .. n
    BY <1>1
  <2>3. IsSeq(e[k - 1]) /\ IsSeq(Escaped(s[k]))
    BY <1>0, <2>2, EscapedSeq DEF Escapes
  <2>4. Len(e[k - 1] \o Escaped(s[k])) = Len(e[k - 1]) + Len(Escaped(s[k]))
    BY ONLY <2>3, SeqConcat
  <2> QED BY <2>1, <2>3, <2>4
<1>3. ASSUME NEW k \in 1 .. n, Slice(T, i, e[k])
      PROVE  Slice(T, i, e[k - 1]) /\ Slice(T, i + Len(e[k - 1]), Escaped(s[k]))
  <2>1. PICK x, y : x = e[k - 1] /\ y = Escaped(s[k])
    OBVIOUS
  <2>2. IsSeq(x) /\ IsSeq(y) /\ Slice(T, i, x \o y)
    BY <1>2, <1>3, <2>1
  <2>3. Slice(T, i, x) /\ Slice(T, i + Len(x), y)
    BY <2>2, SliceOfConcat
  <2> QED BY <2>1, <2>3
<1> DEFINE S == {j \in 0 .. n : Slice(T, i, e[n - j])}
<1>4. 0 \in S
  BY <1>0, <1>1
<1>5. ASSUME NEW j \in 1 .. n, j - 1 \in S  PROVE j \in S
  <2>1. n - (j - 1) \in 1 .. n /\ (n - (j - 1)) - 1 = n - j
    BY <1>1
  <2>2. Slice(T, i, e[n - (j - 1)])
    BY <1>5
  <2>3. Slice(T, i, e[(n - (j - 1)) - 1])
    BY <1>3, <2>1, <2>2
  <2> QED BY <2>1, <2>3
<1>6. \A j \in 0 .. n : j \in S
  <2> HIDE DEF S
  <2> QED BY <1>1, <1>4, <1>5, UpTo
<1>7. ASSUME NEW k \in 0 .. n  PROVE Slice(T, i, e[k])
  <2>1. n - k \in 0 .. n /\ n - (n - k) = k
    BY <1>1
  <2>2. n - k \in S
    BY <1>6, <2>1
  <2> QED BY <2>1, <2>2
<1>8. ASSUME NEW k \in 1 .. n
      PROVE  /\ Slice(T, i + Len(e[k - 1]), Escaped(s[k]))
             /\ Len(e[k]) = Len(e[k - 1]) + Len(Escaped(s[k]))
  <2>1. k \in 0 .. n
    BY <1>1
  <2>2. Slice(T, i, e[k])
    BY <1>7, <2>1
  <2> QED BY <1>2, <1>3, <2>2
<1> QED BY <1>0, <1>7, <1>8 DEF PartsAt

(* The string is read to its end, or the end of the text is found first.   *)
LEMMA StringReadBack ==
  ASSUME NEW p, NEW T, Cuts(p, T), NEW i \in 0 .. p.past_the_end,
         NEW s, IsText(s), Len(s) < STRBUFFSIZE, NEW e, Escapes(s, e),
         Slice(T, i, e[Len(s)] \o <<DOUBLEQUOTE>>)
  PROVE  /\ i + Len(e[Len(s)]) + 1 <= p.past_the_end =>
              /\ readstrexp(p, i).state = "closed" /\ readstrexp(p, i).str = s
              /\ readstrexp(p, i).at = i + Len(e[Len(s)]) + 1
         /\ p.past_the_end < i + Len(e[Len(s)]) + 1 => readstrexp(p, i).state = "bad"
<1>1. PICK z, N, m : z = Len(s) /\ m = p.past_the_end /\ N = 2 * m + 2
  OBVIOUS
<1>2. /\ IsSeq(s) /\ z \in Nat /\ z + 1 <= STRBUFFSIZE /\ STRBUFFSIZE \in Nat
      /\ \A k \in 1 .. z : s[k] # EOF
      /\ m \in Nat /\ N \in Nat /\ i \in Nat /\ i <= m /\ IsSeq(T)
  <2>1. IsSeq(s) /\ z \in Nat
    BY <1>1, TextSeq, SeqLen
  <2>2. m \in Nat
    BY <1>1, CutBounds
  <2> QED BY <1>1, <2>1, <2>2, TextSeq, ReaderAssumption DEF Cuts
<1>3. PICK f : ReadsString(f, p, i, N)
  BY <1>1, <1>2, StringRun
<1>4. f[0] = Run("ok", 0, << >>, i) /\ Steps(f, p, N) /\ readstrexp(p, i) = f[N]
  BY <1>3 DEF ReadsString, Steps
<1>5. /\ \A k \in 0 .. z : IsSeq(e[k]) /\ Len(e[k]) \in Nat
      /\ e[0] = << >>
  BY <1>1, SeqLen DEF Escapes
<1>6. PICK E, Q : E = e[z] /\ Q = <<DOUBLEQUOTE>>
  OBVIOUS
<1>7. IsSeq(E) /\ Len(E) \in Nat /\ IsSeq(Q) /\ Len(Q) = 1 /\ Q[1] = DOUBLEQUOTE
  BY <1>2, <1>5, <1>6, SeqOne
<1>8. Slice(T, i, E) /\ Slice(T, i + Len(E), Q)
  BY <1>1, <1>2, <1>6, <1>7, SliceOfConcat
<1>9. /\ \A k \in 0 .. z : Slice(T, i, e[k])
      /\ \A k \in 1 .. z : /\ Slice(T, i + Len(e[k - 1]), Escaped(s[k]))
                           /\ Len(e[k]) = Len(e[k - 1]) + Len(Escaped(s[k]))
  <2>1. Slice(T, i, e[Len(s)])
    BY <1>1, <1>6, <1>8
  <2>2. PartsAt(T, i, s, e, Len(s))
    BY <1>2, <2>1, EscapesAt
  <2>3. PartsAt(T, i, s, e, z)
    BY <1>1, <2>2
  <2> QED BY <2>3 DEF PartsAt
<1> DEFINE Bad == \E l \in 0 .. N : f[l].state = "bad"
           S == {k \in 0 .. z :
                   /\ i + Len(e[k]) <= m => \E b : f[Len(e[k])] = Run("ok", b, SubSeq(s, 1, k), i + Len(e[k]))
                   /\ m < i + Len(e[k]) => Bad}
<1>10. 0 \in S
  <2>1. Len(e[0]) = 0
    BY <1>5, SeqEmpty
  <2>2. SubSeq(s, 1, 0) = << >>
    BY <1>2, SeqFront, SeqNone
  <2>3. i + 0 = i /\ 0 \in 0 .. z /\ ~(m < i)
    BY <1>2
  <2>4. f[Len(e[0])] = Run("ok", 0, SubSeq(s, 1, 0), i + Len(e[0]))
    BY <1>4, <2>1, <2>2, <2>3
  <2>5. ~(m < i + Len(e[0]))
    BY <2>1, <2>3
  <2> QED BY <2>3, <2>4, <2>5
<1>11. ASSUME NEW k \in 1 .. z, k - 1 \in S  PROVE k \in S
  <2>1. PICK n, c, u, L, a : /\ n = Len(e[k - 1]) /\ c = s[k] /\ u = SubSeq(s, 1, k - 1)
                             /\ L = Len(Escaped(c)) /\ a = i + n
    OBVIOUS
  <2>2. k - 1 \in 0 .. z
    BY <1>2
  <2>3. n \in Nat /\ L \in Nat /\ Len(e[k]) = n + L /\ Slice(T, a, Escaped(c)) /\ c # EOF
    BY <1>2, <1>5, <1>9, <2>1, <2>2, EscapedSeq, SeqLen
  <2>4. IsSeq(u) /\ Len(u) = k - 1 /\ Append(u, c) = SubSeq(s, 1, k)
    <3>1. IsSeq(u) /\ Len(u) = k - 1
      BY <1>1, <1>2, <2>1, <2>2, SeqFront
    <3>2. PICK V : s \in Seq(V)
      BY <1>2 DEF IsSeq
    <3>3. k \in 1 .. Len(s)
      BY <1>1
    <3> QED BY <2>1, <3>1, <3>2, <3>3
  <2>5. Len(u) \in Nat /\ Len(u) + 1 <= STRBUFFSIZE
    BY <1>2, <2>4
  <2>6. (a <= m => \E b : f[n] = Run("ok", b, u, a)) /\ (m < a => Bad)
    BY <1>11, <2>1
  <2>7. CASE a <= m
    <3>1. PICK b : f[n] = Run("ok", b, u, a)
      BY <2>6, <2>7
    <3>2. a \in 0 .. p.past_the_end /\ n + (p.past_the_end - a) + 1 <= N
      <4>1. N = 2 * m + 2 /\ a = i + n
        BY <1>1, <2>1
      <4>2. a \in 0 .. m /\ n + (m - a) + 1 <= N
        BY ONLY <1>2, <2>3, <2>7, <4>1
      <4> QED BY <1>1, <4>2
    <3>3. Took(f, n, p, u, c, a, Len(Escaped(c)))
      BY <1>2, <1>4, <2>3, <2>5, <3>1, <3>2, TakesEscaped
    <3>4. Took(f, n, p, u, c, a, L)
      BY <2>1, <3>3
    <3>5. i + Len(e[k]) = a + L
      <4>1. a = i + n
        BY <2>1
      <4> QED BY ONLY <1>2, <2>3, <4>1
    <3>6. ASSUME i + Len(e[k]) <= m
          PROVE  \E b2 : f[Len(e[k])] = Run("ok", b2, SubSeq(s, 1, k), i + Len(e[k]))
      <4>1. \E b2 : f[n + L] = Run("ok", b2, Append(u, c), a + L)
        BY <1>1, <3>4, <3>5, <3>6 DEF Took
      <4> QED BY <2>3, <2>4, <3>5, <4>1
    <3>7. ASSUME m < i + Len(e[k])  PROVE Bad
      <4>1. PICK l \in Nat : l <= n + (p.past_the_end - a) + 1 /\ f[l].state = "bad"
        BY <1>1, <3>4, <3>5, <3>7 DEF Took
      <4>2. l \in 0 .. N
        <5>1. N = 2 * m + 2 /\ a = i + n /\ p.past_the_end = m
          BY <1>1, <2>1
        <5>2. l <= n + (m - a) + 1
          BY <4>1, <5>1
        <5> QED BY ONLY <1>2, <4>1, <2>3, <2>7, <5>1, <5>2
      <4> QED BY <4>1, <4>2
    <3>8. k \in 0 .. z
      OBVIOUS
    <3> QED BY ONLY <3>6, <3>7, <3>8
  <2>8. CASE m < a
    <3>1. m < i + Len(e[k]) /\ ~(i + Len(e[k]) <= m) /\ k \in 0 .. z
      <4>1. a = i + n
        BY <2>1
      <4> QED BY ONLY <1>2, <2>3, <2>8, <4>1
    <3> QED BY <2>6, <2>8, <3>1
  <2> QED BY <1>2, <2>1, <2>3, <2>7, <2>8
<1>12. z \in S
  <2>1. \A k \in 0 .. z : k \in S
    <3> HIDE DEF S
    <3> QED BY <1>2, <1>10, <1>11, UpTo
  <2> QED BY <1>2, <2>1
<1>13. ASSUME NEW l \in 0 .. N, f[l].state \in {"closed", "bad"}  PROVE readstrexp(p, i) = f[l]
  BY <1>2, <1>4, <1>13, RunStays
<1>14. ASSUME Bad  PROVE readstrexp(p, i).state = "bad"
  BY <1>13, <1>14
<1>15. PICK n : n = Len(E)
  OBVIOUS
<1>16. CASE i + n <= m
  <2>1. PICK b : f[n] = Run("ok", b, s, i + n)
    <3>1. \E b : f[n] = Run("ok", b, SubSeq(s, 1, z), i + n)
      BY <1>6, <1>12, <1>15, <1>16
    <3> QED BY <1>1, <1>2, <3>1, SeqAll
  <2>2. PICK c : c = DOUBLEQUOTE
    OBVIOUS
  <2>3. At(p, i + n) = IF i + n < m THEN c ELSE EOF
    BY <1>1, <1>2, <1>7, <1>8, <1>15, <2>2, CutFirst
  <2>4. n + 1 \in 1 .. N /\ (n + 1) - 1 = n /\ i + n \in 0 .. p.past_the_end /\ n \in Nat
    BY <1>1, <1>2, <1>7, <1>15, <1>16
  <2>5. f[n + 1] = StringStep(p, Run("ok", b, s, i + n))
    BY <1>4, <2>1, <2>4 DEF Steps
  <2>6. Stepped(p, "ok", b, s, i + n, c, f[n + 1])
    <3>1. c # EOF /\ Len(s) \in Nat /\ Len(s) + 1 <= STRBUFFSIZE /\ p.past_the_end \in Nat
      BY <1>1, <1>2, <2>2 DEF EOF, DOUBLEQUOTE
    <3>2. At(p, i + n) = IF i + n < p.past_the_end THEN c ELSE EOF
      BY <1>1, <2>3
    <3> QED BY <2>4, <2>5, <3>1, <3>2, RunStep
  <2>7. CASE i + n < m
    <3>1. f[n + 1] = InText(Run("ok", b, s, (i + n) + 1), c)
      BY <1>1, <2>6, <2>7 DEF Stepped
    <3>2. InText(Run("ok", b, s, (i + n) + 1), c) = Run("closed", b, s, (i + n) + 1)
      BY <2>2, InTextIs
    <3>3. /\ f[n + 1].state = "closed" /\ f[n + 1].str = s /\ f[n + 1].at = (i + n) + 1
      BY <3>1, <3>2, RunFields
    <3>4. n + 1 \in 0 .. N
      BY <2>4
    <3>5. readstrexp(p, i) = f[n + 1]
      BY <1>13, <3>3, <3>4
    <3>6. ~(p.past_the_end < i + n + 1)
      BY <1>1, <1>2, <2>4, <2>7
    <3> QED BY <1>1, <1>6, <1>15, <3>3, <3>5, <3>6
  <2>8. CASE ~(i + n < m)
    <3>1. f[n + 1].state = "bad" /\ n + 1 \in 0 .. N
      BY <1>1, <2>4, <2>6, <2>8 DEF Stepped
    <3>2. readstrexp(p, i).state = "bad"
      BY <1>13, <3>1
    <3>3. ~(i + n + 1 <= p.past_the_end)
      BY <1>1, <1>2, <2>4, <2>8
    <3> QED BY <1>1, <1>6, <1>15, <3>2, <3>3
  <2> QED BY <2>7, <2>8
<1>17. CASE m < i + n
  <2>1. Bad
    BY <1>6, <1>12, <1>15, <1>17
  <2>2. readstrexp(p, i).state = "bad"
    BY <1>14, <2>1
  <2>3. ~(i + n + 1 <= p.past_the_end)
    BY <1>1, <1>2, <1>7, <1>15, <1>17
  <2> QED BY <1>1, <1>6, <1>15, <2>2, <2>3
<1> QED BY <1>2, <1>7, <1>15, <1>16, <1>17
---------------------------------------------------------------------------
(* The decimal that is printed for a number reads as the number.           *)

(* Digits, or a minus and digits.                                          *)
Signed(q) ==
  /\ IsSeq(q) /\ Len(q) \in Nat \ {0}
  /\ \A k \in 2 .. Len(q) : IsDigit(q[k])
  /\ IsDigit(q[1]) \/ (q[1] = "-" /\ Len(q) >= 2)

LEMMA DigitNames == \A k \in 1 .. 10 : Digits[k] \in {"0", "1", "2", "3", "4", "5", "6", "7", "8", "9"}
<1>1. \A k \in 1 .. 10 : k \in {1, 2, 3, 4, 5, 6, 7, 8, 9, 10}
  OBVIOUS
<1> QED BY <1>1, TheDigits

LEMMA NoColon ==
  /\ ~IsDigit(":") /\ ~IsDigit(".") /\ ~IsDigit("+") /\ ~IsDigit("e") /\ ~IsDigit("E") /\ ~IsDigit("-")
  /\ \A c \in Delimiters \cup {EOF, "'", DOUBLEQUOTE, BACKQUOTE, ",", "#"} : ~IsDigit(c)
<1>1. ASSUME NEW c \in {":", ".", "+", "e", "E", "-"}
                     \cup (Delimiters \cup {EOF, "'", DOUBLEQUOTE, BACKQUOTE, ",", "#"})
      PROVE  ~IsDigit(c)
  <2>1. c \notin {"0", "1", "2", "3", "4", "5", "6", "7", "8", "9"}
    <3>1. CASE c \in {":", ".", "+", "e", "E", "-"}
      BY <3>1
    <3>2. CASE c \in Delimiters
      BY <3>2 DEF Delimiters
    <3>3. CASE c \in {"'", ",", "#"}
      BY <3>3
    <3>4. CASE c \in {EOF, BACKQUOTE, DOUBLEQUOTE}
      BY <3>4 DEF DOUBLEQUOTE, EOF, BACKQUOTE
    <3>5. \/ c \in {":", ".", "+", "e", "E", "-"} \/ c \in Delimiters
          \/ c \in {"'", ",", "#"} \/ c \in {EOF, BACKQUOTE, DOUBLEQUOTE}
      BY Zenon
    <3> QED BY ONLY <3>1, <3>2, <3>3, <3>4, <3>5
  <2> QED BY <2>1, DigitNames, NotDigits
<1> QED BY <1>1

LEMMA SignedGoes ==
  ASSUME NEW q, Signed(q)
  PROVE  \A k \in 2 .. Len(q) + 1 : Numeral(q)[k][FALSE] = "integer"
<1>1. PICK n \in Nat \ {0} : n = Len(q)
  BY DEF Signed
<1> DEFINE Rec(f) == [k \in 1 .. n + 1 |->
                       [point \in BOOLEAN |->
                          IF k > n THEN IF point THEN "real" ELSE "integer"
                          ELSE CASE IsDigit(q[k]) -> f[k + 1][point]
                                 [] q[k] = "." /\ ~point -> f[k + 1][TRUE]
                                 [] /\ q[k] \in {"e", "E"} /\ k < n
                                    /\ q[k + 1] \in {"+", "-"} \/ IsDigit(q[k + 1]) -> f[k + 2][TRUE]
                                 [] OTHER -> "symbol"]]
<1>2. Numeral(q) = CHOOSE f : f = Rec(f)
  BY <1>1 DEF Numeral
<1>3. PICK h : h = [k \in 1 .. n + 1 |->
                      [point \in BOOLEAN |->
                         IF k = 1 /\ q[1] = "-" THEN "symbol" ELSE IF point THEN "real" ELSE "integer"]]
  OBVIOUS
<1>4. ASSUME NEW k \in 1 .. n + 1, NEW point \in BOOLEAN
      PROVE  h[k][point] = IF k > n THEN IF point THEN "real" ELSE "integer"
                           ELSE CASE IsDigit(q[k]) -> h[k + 1][point]
                                  [] q[k] = "." /\ ~point -> h[k + 1][TRUE]
                                  [] /\ q[k] \in {"e", "E"} /\ k < n
                                     /\ q[k + 1] \in {"+", "-"} \/ IsDigit(q[k + 1]) -> h[k + 2][TRUE]
                                  [] OTHER -> "symbol"
  <2>1. h[k][point] = IF k = 1 /\ q[1] = "-" THEN "symbol" ELSE IF point THEN "real" ELSE "integer"
    BY <1>3
  <2>2. CASE k > n
    BY <2>1, <2>2
  <2>3. CASE k <= n /\ IsDigit(q[k])
    <3>1. k + 1 \in 1 .. n + 1 /\ k + 1 # 1 /\ ~(k > n)
      BY <2>3
    <3>2. q[k] # "." /\ q[k] \notin {"e", "E"} /\ q[k] # "-"
      BY <2>3, NoColon
    <3>3. h[k + 1][point] = IF point THEN "real" ELSE "integer"
      BY <1>3, <3>1
    <3>4. h[k][point] = h[k + 1][point]
      BY <2>1, <3>2, <3>3
    <3> QED BY <2>3, <3>1, <3>2, <3>4
  <2>4. CASE k <= n /\ ~IsDigit(q[k])
    <3>1. k = 1 /\ q[1] = "-"
      BY <1>1, <2>4 DEF Signed
    <3>2. ~(k > n) /\ q[k] # "." /\ q[k] \notin {"e", "E"} /\ ~IsDigit(q[k])
      BY <2>4, <3>1
    <3> QED BY <2>1, <3>1, <3>2
  <2>5. k > n \/ k <= n
    OBVIOUS
  <2> QED BY ONLY <2>2, <2>3, <2>4, <2>5
<1>5. h = Rec(h)
  <2>1. \A k \in 1 .. n + 1 : h[k] = [point \in BOOLEAN |-> h[k][point]]
    BY <1>3
  <2>2. h = [k \in 1 .. n + 1 |-> h[k]]
    BY <1>3
  <2>3. h = [k \in 1 .. n + 1 |-> [point \in BOOLEAN |-> h[k][point]]]
    BY <2>1, <2>2
  <2> QED BY <1>4, <2>3
<1>6. PICK g : g = Numeral(q)
  OBVIOUS
<1>7. g = Rec(g)
  <2> HIDE DEF Rec
  <2> QED BY <1>2, <1>5, <1>6
<1>8. ASSUME NEW k \in 2 .. n + 1
      PROVE  g[k][FALSE] = IF k > n THEN "integer"
                           ELSE CASE IsDigit(q[k]) -> g[k + 1][FALSE]
                                  [] q[k] = "." /\ ~FALSE -> g[k + 1][TRUE]
                                  [] /\ q[k] \in {"e", "E"} /\ k < n
                                     /\ q[k + 1] \in {"+", "-"} \/ IsDigit(q[k + 1]) -> g[k + 2][TRUE]
                                  [] OTHER -> "symbol"
  <2>1. k \in 1 .. n + 1 /\ FALSE \in BOOLEAN
    BY ONLY n \in Nat, k \in 2 .. n + 1
  <2>2. g[k] = Rec(g)[k]
    BY <1>7
  <2>3. g[k][FALSE] = Rec(g)[k][FALSE]
    BY <2>2
  <2> QED BY <2>1, <2>3
<1> HIDE DEF Rec
<1> DEFINE S == {j \in 0 .. n - 1 : g[(n + 1) - j][FALSE] = "integer"}
<1>9. 0 \in S
  <2>1. n + 1 \in 2 .. n + 1 /\ n + 1 > n /\ (n + 1) - 0 = n + 1 /\ 0 \in 0 .. n - 1
    OBVIOUS
  <2>2. g[n + 1][FALSE] = "integer"
    BY <1>8, <2>1
  <2> QED BY <2>1, <2>2
<1>10. ASSUME NEW j \in 1 .. n - 1, j - 1 \in S  PROVE j \in S
  <2>1. PICK k : k = (n + 1) - j
    OBVIOUS
  <2>2. k \in 2 .. n /\ k \in 2 .. n + 1 /\ ~(k > n) /\ (n + 1) - (j - 1) = k + 1
    BY <2>1
  <2>3. IsDigit(q[k])
    BY <1>1, <2>2 DEF Signed
  <2>4. q[k] # "." /\ q[k] \notin {"e", "E"}
    BY <2>3, NoColon
  <2>5. g[k][FALSE] = g[k + 1][FALSE]
    BY <1>8, <2>2, <2>3, <2>4
  <2>6. g[k + 1][FALSE] = "integer"
    <3>1. PICK l : l = (n + 1) - (j - 1)
      OBVIOUS
    <3>2. g[l][FALSE] = "integer"
      BY <1>10, <3>1
    <3>3. l = k + 1
      BY <2>2, <3>1
    <3> QED BY ONLY <3>2, <3>3
  <2>7. g[(n + 1) - j][FALSE] = "integer"
    <3>1. g[k][FALSE] = "integer"
      BY <2>5, <2>6
    <3> QED BY ONLY <2>1, <3>1, Zenon
  <2>8. j \in 0 .. n - 1
    OBVIOUS
  <2> QED BY ONLY <2>7, <2>8, Zenon
<1>11. \A j \in 0 .. n - 1 : j \in S
  <2>1. n - 1 \in Nat
    OBVIOUS
  <2> HIDE DEF S
  <2> QED BY <1>9, <1>10, <2>1, UpTo
<1>12. ASSUME NEW k \in 2 .. n + 1  PROVE g[k][FALSE] = "integer"
  <2>1. (n + 1) - k \in 0 .. n - 1 /\ (n + 1) - ((n + 1) - k) = k
    OBVIOUS
  <2>2. (n + 1) - k \in S
    BY <1>11, <2>1
  <2> QED BY <2>1, <2>2
<1> QED BY <1>1, <1>6, <1>12

LEMMA SignedSort ==
  ASSUME NEW q, Signed(q)
  PROVE  Sort(q) = "integer"
<1>1. PICK n \in Nat \ {0} : n = Len(q)
  BY DEF Signed
<1>2. PICK g : g = Numeral(q)
  OBVIOUS
<1>3. \A k \in 2 .. n + 1 : g[k][FALSE] = "integer"
  BY <1>1, <1>2, SignedGoes
<1>4. CASE IsDigit(q[1])
  <2>1. q[1] \notin {"+", "-"} /\ q[1] # "."
    BY <1>4, NoColon
  <2>2. PICK point : point = (1 <= Len(q) /\ q[1] = ".")
    OBVIOUS
  <2>3. point = FALSE
    BY ONLY <2>1, <2>2, Zenon
  <2>4. Sort(q) = IF 1 <= Len(q) /\ IsDigit(q[1]) THEN g[1 + 1][FALSE] ELSE "symbol"
    <3>1. ~(Len(q) > 0 /\ q[1] \in {"+", "-"})
      BY <2>1
    <3>2. Sort(q) = IF (IF point THEN 1 + 1 ELSE 1) <= Len(q) /\ IsDigit(q[IF point THEN 1 + 1 ELSE 1])
                    THEN g[(IF point THEN 1 + 1 ELSE 1) + 1][point] ELSE "symbol"
      BY <1>2, <2>2, <3>1, Zenon DEF Sort
    <3> QED BY <2>3, <3>2
  <2>5. 1 + 1 \in 2 .. n + 1 /\ 1 <= Len(q)
    BY <1>1
  <2>6. g[1 + 1][FALSE] = "integer"
    BY <1>3, <2>5
  <2>7. Sort(q) = g[1 + 1][FALSE]
    BY <1>4, <2>4, <2>5, Zenon
  <2> QED BY ONLY <2>6, <2>7
<1>5. CASE q[1] = "-" /\ Len(q) >= 2
  <2>1. IsDigit(q[2]) /\ q[2] # "."
    <3>1. 2 \in 2 .. Len(q)
      BY <1>1, <1>5
    <3>2. IsDigit(q[2])
      BY <3>1 DEF Signed
    <3> QED BY <3>2, NoColon
  <2>2. n > 0 /\ 2 <= n /\ q[1] \in {"+", "-"}
    BY <1>1, <1>5
  <2>3. PICK point : point = (2 <= Len(q) /\ q[2] = ".")
    OBVIOUS
  <2>4. point = FALSE
    BY ONLY <2>1, <2>3, Zenon
  <2>5. Sort(q) = IF 2 <= Len(q) /\ IsDigit(q[2]) THEN g[2 + 1][FALSE] ELSE "symbol"
    <3>1. Len(q) > 0 /\ q[1] \in {"+", "-"}
      BY <1>1, <2>2
    <3>2. Sort(q) = IF (IF point THEN 2 + 1 ELSE 2) <= Len(q) /\ IsDigit(q[IF point THEN 2 + 1 ELSE 2])
                    THEN g[(IF point THEN 2 + 1 ELSE 2) + 1][point] ELSE "symbol"
      BY <1>2, <2>3, <3>1, Zenon DEF Sort
    <3> QED BY <2>4, <3>2
  <2>6. 2 + 1 \in 2 .. n + 1 /\ 2 <= n
    BY <1>1, <1>5
  <2> QED BY <1>1, <1>3, <2>1, <2>5, <2>6
<1> QED BY <1>4, <1>5 DEF Signed
---------------------------------------------------------------------------
(* What one more character makes of a number.                              *)
Digited(q, k, x) == IF IsDigit(q[k]) THEN 10 * x + DigitValue(q[k]) ELSE x

(* What atol has of the first k characters of a text.                      *)
LEMMA NumberExists ==
  ASSUME NEW q, NEW N \in Nat
  PROVE  \E f : /\ f = [k \in 0 .. N |-> f[k]]
                /\ \A k \in 0 .. N : f[k] = IF k = 0 THEN 0 ELSE Digited(q, k, f[k - 1])
<1> DEFINE Is(f, n) == /\ f = [k \in 0 .. n |-> f[k]]
                       /\ \A k \in 0 .. n : f[k] = IF k = 0 THEN 0 ELSE Digited(q, k, f[k - 1])
           S == {n \in 0 .. N : \E f : Is(f, n)}
<1>1. 0 \in S
  <2>1. PICK f : f = [k \in 0 .. 0 |-> 0]
    OBVIOUS
  <2>2. f = [k \in 0 .. 0 |-> f[k]] /\ \A k \in 0 .. 0 : k = 0 /\ f[k] = 0
    BY <2>1
  <2>3. Is(f, 0)
    BY <2>2
  <2> QED BY <2>3
<1>2. ASSUME NEW n \in 1 .. N, n - 1 \in S  PROVE n \in S
  <2>1. PICK f : Is(f, n - 1)
    BY <1>2
  <2>2. PICK h : h = [k \in 0 .. n |-> IF k = n THEN Digited(q, n, f[n - 1]) ELSE f[k]]
    OBVIOUS
  <2>3. /\ h = [k \in 0 .. n |-> h[k]] /\ h[n] = Digited(q, n, f[n - 1])
        /\ \A k \in 0 .. n : k # n => h[k] = f[k]
    BY <2>2
  <2>4. ASSUME NEW k \in 0 .. n  PROVE h[k] = IF k = 0 THEN 0 ELSE Digited(q, k, h[k - 1])
    <3>1. CASE k = n
      <4>1. h[n - 1] = f[n - 1]
        BY <2>3
      <4> QED BY <2>3, <3>1, <4>1
    <3>2. CASE k # n
      <4>1. k \in 0 .. (n - 1) /\ (k # 0 => k - 1 \in 0 .. n /\ k - 1 # n)
        BY <3>2
      <4>2. f[k] = IF k = 0 THEN 0 ELSE Digited(q, k, f[k - 1])
        BY <2>1, <4>1
      <4> QED BY <2>3, <3>2, <4>1, <4>2
    <3> QED BY <3>1, <3>2
  <2>5. Is(h, n)
    BY ONLY <2>3, <2>4
  <2>6. n \in 0 .. N
    OBVIOUS
  <2> HIDE DEF Is
  <2> QED BY <2>5, <2>6
<1>3. \A n \in 0 .. N : n \in S
  <2> HIDE DEF S
  <2> QED BY <1>1, <1>2, UpTo
<1> QED BY <1>3

LEMMA AtolIs ==
  ASSUME NEW q, Len(q) \in Nat
  PROVE  \E c : /\ c[0] = 0 /\ \A k \in 1 .. Len(q) : c[k] = Digited(q, k, c[k - 1])
                /\ atol(q) = IF q[1] = "-" THEN -c[Len(q)] ELSE c[Len(q)]
<1>1. PICK n \in Nat : n = Len(q)
  OBVIOUS
<1> DEFINE Rec(f) == [k \in 0 .. n |-> IF k = 0 THEN 0 ELSE Digited(q, k, f[k - 1])]
<1>2. PICK c : c = CHOOSE f : f = Rec(f)
  OBVIOUS
<1>3. c = Rec(c)
  <2>1. PICK f : /\ f = [k \in 0 .. n |-> f[k]]
                 /\ \A k \in 0 .. n : f[k] = IF k = 0 THEN 0 ELSE Digited(q, k, f[k - 1])
    BY NumberExists
  <2>2. f = Rec(f)
    BY <2>1
  <2> HIDE DEF Rec
  <2> QED BY <1>2, <2>2
<1>4. atol(q) = IF q[1] = "-" THEN -c[n] ELSE c[n]
  BY <1>1, <1>2 DEF atol, Digited
<1>5. c[0] = 0 /\ \A k \in 1 .. n : c[k] = Digited(q, k, c[k - 1])
  BY <1>3
<1> HIDE DEF Rec
<1> QED BY <1>1, <1>4, <1>5

(* Of digits, atol makes the number that they are.                         *)
LEMMA AtolDigits ==
  ASSUME NEW q, NEW n, Numerates(q, n)
  PROVE  /\ q[1] # "-" => atol(q) = n
         /\ q[1] # "-" /\ \A k \in 1 .. Len(q) : IsDigit(q[k])
<1>1. PICK f : Valued(q, f) /\ f[Len(q)] = n
  BY DEF Numerates
<1>2. IsSeq(q) /\ Len(q) \in Nat /\ Len(q) >= 1 /\ \A k \in 1 .. Len(q) : IsDigit(q[k])
  BY SeqLen, DigitsAre DEF Numerates
<1>3. q[1] # "-"
  <2>1. 1 \in 1 .. Len(q)
    BY <1>2
  <2> QED BY <1>2, <2>1, NoColon
<1>4. PICK c : /\ c[0] = 0 /\ \A k \in 1 .. Len(q) : c[k] = Digited(q, k, c[k - 1])
               /\ atol(q) = IF q[1] = "-" THEN -c[Len(q)] ELSE c[Len(q)]
  BY <1>2, AtolIs
<1> DEFINE S == {k \in 0 .. Len(q) : c[k] = f[k]}
<1>5. 0 \in S
  BY <1>1, <1>2, <1>4 DEF Valued
<1>6. ASSUME NEW k \in 1 .. Len(q), k - 1 \in S  PROVE k \in S
  <2>1. c[k] = 10 * c[k - 1] + DigitValue(q[k])
    BY <1>2, <1>4 DEF Digited
  <2>2. f[k] = 10 * f[k - 1] + DigitValue(q[k])
    BY <1>1 DEF Valued
  <2>3. k \in 0 .. Len(q)
    BY <1>2
  <2> QED BY <1>6, <2>1, <2>2, <2>3
<1>7. \A k \in 0 .. Len(q) : k \in S
  <2> HIDE DEF S
  <2> QED BY <1>2, <1>5, <1>6, UpTo
<1>8. Len(q) \in S
  BY <1>2, <1>7
<1> QED BY <1>1, <1>2, <1>3, <1>4, <1>8

(* A minus in front of them makes the number that is below zero.           *)
LEMMA AtolMinus ==
  ASSUME NEW u, NEW n, Numerates(u, n), NEW q, q = <<"-">> \o u
  PROVE  /\ atol(q) = -n
         /\ IsSeq(q) /\ Len(q) = Len(u) + 1 /\ Len(u) \in Nat \ {0} /\ q[1] = "-"
         /\ \A k \in 1 .. Len(u) : q[k + 1] = u[k] /\ IsDigit(u[k])
<1>1. PICK f : Valued(u, f) /\ f[Len(u)] = n
  BY DEF Numerates
<1>2. IsSeq(u) /\ Len(u) \in Nat /\ Len(u) >= 1 /\ \A k \in 1 .. Len(u) : IsDigit(u[k])
  BY SeqLen, DigitsAre DEF Numerates
<1>3. /\ IsSeq(q) /\ Len(q) = Len(u) + 1 /\ q[1] = "-"
      /\ \A k \in 1 .. Len(u) : q[k + 1] = u[k]
  BY <1>2, Pushed
<1>4. PICK m \in Nat \ {0} : m = Len(u)
  BY <1>2
<1>5. PICK c : /\ c[0] = 0 /\ \A k \in 1 .. Len(q) : c[k] = Digited(q, k, c[k - 1])
               /\ atol(q) = IF q[1] = "-" THEN -c[Len(q)] ELSE c[Len(q)]
  <2>1. Len(q) \in Nat
    BY <1>2, <1>3
  <2> QED BY <2>1, AtolIs
<1> DEFINE S == {k \in 0 .. m : c[k + 1] = f[k]}
<1>6. 0 \in S
  <2>1. 1 \in 1 .. Len(q) /\ 1 - 1 = 0 /\ 0 + 1 = 1
    BY <1>2, <1>3
  <2>2. c[1] = Digited(q, 1, c[0])
    BY <1>5, <2>1
  <2>3. ~IsDigit(q[1])
    BY <1>3, NoColon
  <2>4. c[1] = c[0]
    BY <2>2, <2>3 DEF Digited
  <2> QED BY <1>1, <1>5, <2>1, <2>4 DEF Valued
<1>7. ASSUME NEW k \in 1 .. m, k - 1 \in S  PROVE k \in S
  <2>1. k + 1 \in 1 .. Len(q) /\ (k + 1) - 1 = k /\ (k - 1) + 1 = k /\ k \in 0 .. m
    BY <1>3, <1>4
  <2>2. c[k + 1] = Digited(q, k + 1, c[k])
    BY <1>5, <2>1
  <2>3. q[k + 1] = u[k] /\ IsDigit(u[k])
    BY <1>2, <1>3, <1>4
  <2>4. c[k + 1] = 10 * c[k] + DigitValue(u[k])
    BY <2>2, <2>3 DEF Digited
  <2>5. f[k] = 10 * f[k - 1] + DigitValue(u[k])
    BY <1>1, <1>4 DEF Valued
  <2>6. c[k] = f[k - 1]
    BY <1>7, <2>1
  <2> QED BY <2>1, <2>4, <2>5, <2>6
<1>8. \A k \in 0 .. m : k \in S
  <2> HIDE DEF S
  <2> QED BY <1>6, <1>7, UpTo
<1>9. c[m + 1] = f[m]
  BY <1>8
<1>10. atol(q) = -c[m + 1]
  BY <1>3, <1>4, <1>5
<1> QED BY <1>1, <1>2, <1>3, <1>4, <1>9, <1>10

LEMMA MkAtomPlain ==
  ASSUME NEW q, IsSeq(q), Len(q) \in Nat \ {0}, \A k \in 1 .. Len(q) : q[k] # ":", Sort(q) = "integer"
  PROVE  mk_atom(q) = Number(atol(q))
<1>1. PICK n \in Nat \ {0} : n = Len(q)
  OBVIOUS
<1> DEFINE Colons(i) == {k \in i .. n - 1 : q[k] = ":" /\ q[k + 1] = ":"}
           Item(f, i) ==
             CASE Colons(i) # {} -> ColonHook(SubSeq(q, i, Min(Colons(i)) - 1), f[Min(Colons(i)) + 2])
               [] Colons(i) = {} /\ Sort(SubSeq(q, i, n)) = "integer" -> Number(atol(SubSeq(q, i, n)))
               [] Colons(i) = {} /\ Sort(SubSeq(q, i, n)) = "real"    -> Real(SubSeq(q, i, n))
               [] OTHER -> Symbol(Lowered(SubSeq(q, i, n)))
           Rec(f) == [i \in 1 .. n + 1 |-> Item(f, i)]
<1>2. mk_atom(q) = (CHOOSE f : f = Rec(f))[1]
  BY <1>1 DEF mk_atom
<1>3. ASSUME NEW i \in 1 .. n + 1  PROVE Colons(i) = {}
  <2>1. ASSUME NEW k \in i .. n - 1  PROVE q[k] # ":"
    <3>1. k \in 1 .. Len(q)
      BY <1>1
    <3> QED BY <3>1
  <2> QED BY <2>1
<1>4. ASSUME NEW i \in 1 .. n + 1, NEW f, NEW g  PROVE Item(f, i) = Item(g, i)
  <2>1. Colons(i) = {}
    BY <1>3
  <2> HIDE DEF Colons
  <2> QED BY <2>1
<1>5. PICK h : h = Rec(Rec(0))
  OBVIOUS
<1>6. h = Rec(h)
  <2>1. Rec(h) = [i \in 1 .. n + 1 |-> Item(h, i)] /\ h = [i \in 1 .. n + 1 |-> Item(Rec(0), i)]
    BY <1>5
  <2> HIDE DEF Item
  <2> QED BY <1>4, <2>1
<1>7. PICK c : c = CHOOSE f : f = Rec(f)
  OBVIOUS
<1>8. c = Rec(c)
  <2> HIDE DEF Rec
  <2> QED BY <1>6, <1>7
<1>9. c[1] = Item(c, 1)
  <2>1. 1 \in 1 .. n + 1
    OBVIOUS
  <2> HIDE DEF Item
  <2> QED BY <1>8, <2>1
<1>10. SubSeq(q, 1, n) = q
  BY <1>1, SeqAll
<1>11. Item(c, 1) = Number(atol(q))
  <2>1. Colons(1) = {}
    BY <1>1, <1>3
  <2> HIDE DEF Colons
  <2> QED BY <1>10, <2>1
<1> HIDE DEF Rec
<1> QED BY <1>2, <1>7, <1>9, <1>11

(* The decimal of a number is an atom, and that of the number.             *)
LEMMA DecimalReads ==
  ASSUME NEW n \in Int, NEW q, q = Decimal(n)
  PROVE  Signed(q) /\ mk_atom(q) = Number(n)
<1>1. PICK u : /\ Numerates(u, IF n < 0 THEN -n ELSE n)
               /\ q = IF n < 0 THEN <<"-">> \o u ELSE u
  BY DecimalIs
<1>2. Signed(q) /\ atol(q) = n
  <2>1. CASE n < 0
    <3>1. Numerates(u, -n) /\ q = <<"-">> \o u
      BY <1>1, <2>1
    <3>2. /\ atol(q) = -(-n)
          /\ IsSeq(q) /\ Len(q) = Len(u) + 1 /\ Len(u) \in Nat \ {0} /\ q[1] = "-"
          /\ \A k \in 1 .. Len(u) : q[k + 1] = u[k] /\ IsDigit(u[k])
      BY <3>1, AtolMinus
    <3>3. ASSUME NEW k \in 2 .. Len(q)  PROVE IsDigit(q[k])
      <4>1. k - 1 \in 1 .. Len(u) /\ (k - 1) + 1 = k
        BY <3>2
      <4> QED BY <3>2, <4>1
    <3> QED BY <3>2, <3>3 DEF Signed
  <2>2. CASE ~(n < 0)
    <3>1. Numerates(u, n) /\ q = u
      BY <1>1, <2>2
    <3>2. atol(q) = n /\ \A k \in 1 .. Len(q) : IsDigit(q[k])
      BY <3>1, AtolDigits
    <3>3. IsSeq(q) /\ Len(q) \in Nat /\ Len(q) >= 1
      BY <3>1, SeqLen DEF Numerates
    <3> QED BY <3>2, <3>3 DEF Signed
  <2> QED BY <2>1, <2>2
<1>3. Sort(q) = "integer"
  BY <1>2, SignedSort
<1>4. ASSUME NEW k \in 1 .. Len(q)  PROVE q[k] # ":"
  <2>1. IsDigit(q[k]) \/ q[k] = "-"
    <3>1. k = 1 \/ k \in 2 .. Len(q)
      OBVIOUS
    <3> QED BY <1>2, <3>1 DEF Signed
  <2> QED BY <2>1, NoColon
<1>5. IsSeq(q) /\ Len(q) \in Nat \ {0}
  BY <1>2 DEF Signed
<1> QED BY <1>2, <1>3, <1>4, <1>5, MkAtomPlain
---------------------------------------------------------------------------
(* What is read of a boolean and of a character.                           *)

LEMMA SharpBool ==
  /\ mk_sharp_const(<< >>) = {}
  /\ mk_sharp_const(<<"t">>) = {Bool(TRUE)}
  /\ mk_sharp_const(<<"f">>) = {Bool(FALSE)}
<1>1. mk_sharp_const(<< >>) = {}
  BY Zenon DEF mk_sharp_const
<1>2. PICK s, u : s = <<"t">> /\ u = <<"f">>
  OBVIOUS
<1>3. s # << >> /\ u # << >> /\ s[1] = "t" /\ u[1] = "f" /\ s # u
  BY <1>2
<1>4. mk_sharp_const(s) = {Bool(TRUE)}
  BY <1>2, <1>3 DEF mk_sharp_const
<1>5. mk_sharp_const(u) = {Bool(FALSE)}
  BY <1>2, <1>3 DEF mk_sharp_const
<1> QED BY <1>1, <1>2, <1>4, <1>5

Spelling(c) == IF c \in Control \cup {" "} THEN charname(c) ELSE c

LEMMA SharpCharacter ==
  ASSUME NEW c, c # EOF, NamedCharacter(c) = {}, NEW d, d = Spelling(c)
  PROVE  mk_sharp_const(<<"\\", d>>) = {Character(c)} /\ d # EOF
<1>1. /\ d # EOF
      /\ c = IF NamedCharacter(d) = {} THEN d ELSE CHOOSE x \in NamedCharacter(d) : TRUE
  <2>1. CASE c \in Control \cup {" "}
    <3>1. d = charname(c)
      BY <2>1 DEF Spelling
    <3>2. d # EOF /\ NamedCharacter(d) = {c}
      BY <2>1, <3>1, PrinterAssumption
    <3> QED BY <3>2
  <2>2. CASE c \notin Control \cup {" "}
    BY <2>2 DEF Spelling
  <2> QED BY <2>1, <2>2
<1>2. PICK q : q = <<"\\", d>>
  OBVIOUS
<1>3. IsSeq(q) /\ Len(q) = 2 /\ q[1] = "\\" /\ q[2] = d
  BY <1>2, SeqTwo
<1>4. PICK r : r = Tail(q)
  OBVIOUS
<1>5. Len(r) = 1 /\ r[1] = d
  <2>1. q # << >>
    BY <1>3, SeqEmpty
  <2>2. Len(r) = Len(q) - 1 /\ \A k \in 1 .. Len(q) - 1 : r[k] = q[k + 1]
    BY <1>3, <1>4, <2>1, HeadTail
  <2>3. 1 \in 1 .. Len(q) - 1 /\ 1 + 1 = 2
    BY <1>3
  <2> QED BY <1>3, <2>2, <2>3
<1>6. q # << >> /\ q # <<"t">> /\ q # <<"f">>
  <2>1. Len(<<"t">>) = 1 /\ Len(<<"f">>) = 1
    BY SeqOne
  <2> QED BY <1>3, <2>1, SeqEmpty
<1>7. q[1] \notin {"o", "d", "x", "b"} /\ ~(Len(r) > 1)
  BY <1>3, <1>5
<1>8. mk_sharp_const(q) = {Character(IF NamedCharacter(r[1]) = {} THEN r[1]
                                     ELSE CHOOSE x \in NamedCharacter(r[1]) : TRUE)}
  <2> HIDE DEF NamedCharacter, Character
  <2> QED BY <1>3, <1>4, <1>5, <1>6, <1>7 DEF mk_sharp_const
<1> QED BY <1>1, <1>2, <1>5, <1>8
---------------------------------------------------------------------------
(* What there is in the text from a place of the printer on.               *)

Done(X) == Place("returned", NIL, << >>, Len(X))

OnText(np, X, T, j, e) == Reach(np, T, X, j, e, Len(T), Done(X))

DatumText(np, X, T, j, x, p, n) ==
  \/ /\ x.type = "vector" /\ Slice(T, j, <<"#", "(">>)
     /\ OnText(np, X, T, j + 2, Place("PVECFROM", [vec |-> x.elements, from |-> 0], p, n))
  \/ /\ x.type \notin {"vector", "pair"} /\ Slice(T, j, atom2str(x))
     /\ OnText(np, X, T, j + Len(atom2str(x)), Pop(p, n))
  \/ /\ Abbreviated(x) /\ Slice(T, j, Prefix(x.car))
     /\ OnText(np, X, T, j + Len(Prefix(x.car)), Place("P0LIST", x.cdr.car, p, n))
  \/ /\ x.type = "pair" /\ ~Abbreviated(x) /\ Slice(T, j, <<"(">>)
     /\ OnText(np, X, T, j + 1, Place("P0LIST", x.car, <<Frame("P1LIST", x.cdr)>> \o p, n))

(* The provers cannot read some of the characters as they are.             *)
Blank == " "
Semicolon == ";"
Comma == ","
Newline == "\n"

ListText(np, X, T, j, l, p, n) ==
  \/ /\ l.type = "pair" /\ Slice(T, j, <<Blank>>)
     /\ OnText(np, X, T, j + 1, Place("P0LIST", l.car, <<Frame("P1LIST", l.cdr)>> \o p, n))
  \/ /\ l.type # "pair" /\ l # NIL /\ Slice(T, j, <<Blank, ".", Blank>>)
     /\ OnText(np, X, T, j + 3, Place("P0LIST", l, <<Frame("P1LIST", NIL)>> \o p, n))
  \/ /\ l = NIL /\ Slice(T, j, <<")">>)
     /\ OnText(np, X, T, j + 1, Pop(p, n))

From(vec, k) == [vec |-> vec, from |-> k]

VectorText(np, X, T, j, vec, k, p, n) ==
  \/ /\ k = Len(vec) /\ Slice(T, j, <<")">>)
     /\ OnText(np, X, T, j + 1, Pop(p, n))
  \/ /\ k # Len(vec) /\ Slice(T, j, <<Blank>>)
     /\ OnText(np, X, T, j + 1,
               Place("P0LIST", vec[k + 1], <<Frame("PVECFROM", From(vec, k + 1))>> \o p, n))

(* From a place that is not the last there is a step.                      *)
LEMMA OnTextSteps ==
  ASSUME NEW np, NEW X, NEW T, NEW j, NEW o, NEW a, NEW p, NEW n, OnText(np, X, T, j, Place(o, a, p, n))
  PROVE  /\ Entry(np, Place(o, a, p, n)) /\ j \in Nat
         /\ \/ j = Len(T) /\ o = "returned" /\ n = Len(X)
            \/ \E t, f : /\ Step(X, Place(o, a, p, n), t, f) /\ IsSeq(t) /\ Slice(T, j, t)
                         /\ OnText(np, X, T, j + Len(t), f)
<1>1. PICK e, c, k : e = Place(o, a, p, n) /\ c = Done(X) /\ k = Len(T)
  OBVIOUS
<1>2. Reach(np, T, X, j, e, k, c)
  BY <1>1 DEF OnText
<1>3. /\ Entry(np, e) /\ j \in Nat
      /\ \/ j = k /\ e = c
         \/ \E t, f : /\ Step(X, e, t, f) /\ IsSeq(t) /\ Slice(T, j, t)
                      /\ Reach(np, T, X, j + Len(t), f, k, c)
  BY <1>2, ReachNext
<1>4. e = c => o = "returned" /\ n = Len(X)
  <2>1. e.op = o /\ e.n = n /\ c.op = "returned" /\ c.n = Len(X)
    BY <1>1, PlaceFields DEF Done
  <2> QED BY <2>1
<1> QED BY <1>1, <1>3, <1>4 DEF OnText

LEMMA FromDatum ==
  ASSUME NEW np, NEW X, NEW T, NEW j, NEW x, NEW p, NEW n, OnText(np, X, T, j, Place("P0LIST", x, p, n))
  PROVE  /\ DatumText(np, X, T, j, x, p, n)
         /\ Sound(np, x) /\ Dumped(np, p) /\ n \in Nat \ {0} /\ j \in Nat
<1>1. PICK e : e = Place("P0LIST", x, p, n)
  OBVIOUS
<1>2. e.op = "P0LIST" /\ e.args = x /\ e.p = p /\ e.n = n
  BY <1>1, PlaceFields
<1>3. /\ Entry(np, e) /\ j \in Nat
      /\ \E t, f : /\ Step(X, e, t, f) /\ IsSeq(t) /\ Slice(T, j, t)
                   /\ OnText(np, X, T, j + Len(t), f)
  BY <1>1, OnTextSteps
<1>4. Sound(np, x) /\ Dumped(np, p) /\ n \in Nat \ {0}
  <2>1. e.op \in PrintOps
    BY <1>2 DEF PrintOps
  <2>2. ToPrint(np, e.op, e.args) /\ Dumped(np, e.p) /\ e.n \in Nat \ {0}
    BY <1>3, <2>1, EntryPrints
  <2> QED BY <1>2, <2>2 DEF ToPrint
<1>5. PICK t, f : Step(X, e, t, f) /\ IsSeq(t) /\ Slice(T, j, t) /\ OnText(np, X, T, j + Len(t), f)
  BY <1>3
<1>6. \/ /\ x.type = "vector"
         /\ t = <<"#", "(">>
         /\ f = Place("PVECFROM", [vec |-> x.elements, from |-> 0], p, n)
      \/ /\ x.type \notin {"vector", "pair"}
         /\ t = atom2str(x)
         /\ f = Pop(p, n)
      \/ /\ Abbreviated(x)
         /\ t = Prefix(x.car)
         /\ f = Place("P0LIST", x.cdr.car, p, n)
      \/ /\ x.type = "pair" /\ ~Abbreviated(x)
         /\ t = <<"(">>
         /\ f = Place("P0LIST", x.car, <<Frame("P1LIST", x.cdr)>> \o p, n)
  BY <1>2, <1>5 DEF Step, Blank
<1>7. Len(<<"#", "(">>) = 2 /\ Len(<<"(">>) = 1
  BY SeqOne, SeqTwo
<1>8. DatumText(np, X, T, j, x, p, n)
  BY <1>5, <1>6, <1>7 DEF DatumText
<1> QED BY <1>3, <1>4, <1>8

LEMMA FromList ==
  ASSUME NEW np, NEW X, NEW T, NEW j, NEW l, NEW p, NEW n, OnText(np, X, T, j, Place("P1LIST", l, p, n))
  PROVE  /\ ListText(np, X, T, j, l, p, n)
         /\ Sound(np, l) /\ Dumped(np, p) /\ n \in Nat \ {0} /\ j \in Nat
<1>1. PICK e : e = Place("P1LIST", l, p, n)
  OBVIOUS
<1>2. e.op = "P1LIST" /\ e.args = l /\ e.p = p /\ e.n = n
  BY <1>1, PlaceFields
<1>3. /\ Entry(np, e) /\ j \in Nat
      /\ \E t, f : /\ Step(X, e, t, f) /\ IsSeq(t) /\ Slice(T, j, t)
                   /\ OnText(np, X, T, j + Len(t), f)
  BY <1>1, OnTextSteps
<1>4. Sound(np, l) /\ Dumped(np, p) /\ n \in Nat \ {0}
  <2>1. e.op \in PrintOps
    BY <1>2 DEF PrintOps
  <2>2. ToPrint(np, e.op, e.args) /\ Dumped(np, e.p) /\ e.n \in Nat \ {0}
    BY <1>3, <2>1, EntryPrints
  <2> QED BY <1>2, <2>2 DEF ToPrint
<1>5. PICK t, f : Step(X, e, t, f) /\ IsSeq(t) /\ Slice(T, j, t) /\ OnText(np, X, T, j + Len(t), f)
  BY <1>3
<1>6. \/ /\ l.type = "pair"
         /\ t = <<Blank>>
         /\ f = Place("P0LIST", l.car, <<Frame("P1LIST", l.cdr)>> \o p, n)
      \/ /\ l.type # "pair" /\ l # NIL
         /\ t = <<Blank, ".", Blank>>
         /\ f = Place("P0LIST", l, <<Frame("P1LIST", NIL)>> \o p, n)
      \/ /\ l = NIL
         /\ t = <<")">>
         /\ f = Pop(p, n)
  BY <1>2, <1>5 DEF Step, Blank
<1>7. Len(<<Blank>>) = 1 /\ Len(<<Blank, ".", Blank>>) = 3 /\ Len(<<")">>) = 1
  BY SeqOne, SeqThree
<1>8. ListText(np, X, T, j, l, p, n)
  BY <1>5, <1>6, <1>7 DEF ListText
<1> QED BY <1>3, <1>4, <1>8

LEMMA FromVector ==
  ASSUME NEW np, NEW X, NEW T, NEW j, NEW vec, NEW k, NEW p, NEW n,
         OnText(np, X, T, j, Place("PVECFROM", From(vec, k), p, n))
  PROVE  /\ VectorText(np, X, T, j, vec, k, p, n)
         /\ Sound(np, Vector(vec)) /\ k \in 0 .. Len(vec) /\ IsSeq(vec) /\ Len(vec) \in Nat
         /\ Dumped(np, p) /\ n \in Nat \ {0} /\ j \in Nat
<1>1. PICK e, a : e = Place("PVECFROM", a, p, n) /\ a = From(vec, k)
  OBVIOUS
<1>2. e.op = "PVECFROM" /\ e.args = a /\ e.p = p /\ e.n = n /\ a.vec = vec /\ a.from = k
  BY <1>1, PlaceFields DEF From
<1>3. /\ Entry(np, e) /\ j \in Nat
      /\ \E t, f : /\ Step(X, e, t, f) /\ IsSeq(t) /\ Slice(T, j, t)
                   /\ OnText(np, X, T, j + Len(t), f)
  BY <1>1, OnTextSteps
<1>4. ToPrint(np, "PVECFROM", a) /\ Dumped(np, p) /\ n \in Nat \ {0}
  <2>1. e.op \in PrintOps
    BY <1>2 DEF PrintOps
  <2>2. ToPrint(np, e.op, e.args) /\ Dumped(np, e.p) /\ e.n \in Nat \ {0}
    BY <1>3, <2>1, EntryPrints
  <2> QED BY <1>2, <2>2
<1>5. /\ Sound(np, Vector(vec)) /\ k \in 0 .. Len(vec) /\ IsSeq(vec) /\ Len(vec) \in Nat
  BY <1>2, <1>4, VectorToPrint
<1>6. PICK t, f : Step(X, e, t, f) /\ IsSeq(t) /\ Slice(T, j, t) /\ OnText(np, X, T, j + Len(t), f)
  BY <1>3
<1>7. \/ /\ a.from = Len(a.vec)
         /\ t = <<")">>
         /\ f = Pop(p, n)
      \/ /\ a.from # Len(a.vec)
         /\ t = <<Blank>>
         /\ f = Place("P0LIST", a.vec[a.from + 1],
                      <<Frame("PVECFROM", [a EXCEPT !.from = @ + 1])>> \o p, n)
  BY <1>2, <1>6 DEF Step, Blank
<1>8. [a EXCEPT !.from = @ + 1] = From(vec, k + 1)
  BY <1>1, <1>5 DEF From
<1>9. Len(<<Blank>>) = 1 /\ Len(<<")">>) = 1
  BY SeqOne
<1>10. VectorText(np, X, T, j, vec, k, p, n)
  BY <1>2, <1>6, <1>7, <1>8, <1>9 DEF VectorText
<1> QED BY <1>3, <1>4, <1>5, <1>10

(* Between two data.                                                       *)
LEMMA FromEnd ==
  ASSUME NEW np, NEW X, NEW T, NEW j, NEW n, OnText(np, X, T, j, Place("returned", NIL, << >>, n))
  PROVE  /\ n \in Nat \ {0} /\ j \in Nat
         /\ \/ j = Len(T) /\ n = Len(X)
            \/ \E t \in Separators : /\ IsSeq(t) /\ Slice(T, j, t)
                                     /\ OnText(np, X, T, j + Len(t), Place("idle", NIL, << >>, n))
<1>1. PICK e : e = Place("returned", NIL, << >>, n)
  OBVIOUS
<1>2. e.op = "returned" /\ e.n = n
  BY <1>1, PlaceFields
<1>3. /\ Entry(np, e) /\ j \in Nat
      /\ \/ j = Len(T) /\ n = Len(X)
         \/ \E t, f : /\ Step(X, e, t, f) /\ IsSeq(t) /\ Slice(T, j, t)
                      /\ OnText(np, X, T, j + Len(t), f)
  BY <1>1, OnTextSteps
<1>4. n \in Nat \ {0}
  BY <1>2, <1>3 DEF Entry, ToPrint
<1>5. ASSUME NEW t, NEW f, Step(X, e, t, f)
      PROVE  t \in Separators /\ f = Place("idle", NIL, << >>, n)
  BY <1>2, <1>5 DEF Step, Blank
<1> QED BY <1>3, <1>4, <1>5

LEMMA FromIdle ==
  ASSUME NEW np, NEW X, NEW T, NEW j, NEW n, OnText(np, X, T, j, Place("idle", NIL, << >>, n))
  PROVE  /\ n \in Nat /\ j \in Nat /\ n < Len(X)
         /\ OnText(np, X, T, j, Place("P0LIST", X[n + 1], << >>, n + 1))
<1>1. PICK e : e = Place("idle", NIL, << >>, n)
  OBVIOUS
<1>2. e.op = "idle" /\ e.n = n
  BY <1>1, PlaceFields
<1>3. /\ Entry(np, e) /\ j \in Nat
      /\ \E t, f : /\ Step(X, e, t, f) /\ IsSeq(t) /\ Slice(T, j, t)
                   /\ OnText(np, X, T, j + Len(t), f)
  BY <1>1, OnTextSteps
<1>4. n \in Nat
  BY <1>2, <1>3 DEF Entry
<1>5. PICK t, f : Step(X, e, t, f) /\ IsSeq(t) /\ Slice(T, j, t) /\ OnText(np, X, T, j + Len(t), f)
  BY <1>3
<1>6. n < Len(X) /\ t = << >> /\ f = Place("P0LIST", X[n + 1], << >>, n + 1)
  BY <1>2, <1>5 DEF Step, Blank
<1>7. j + Len(t) = j
  BY <1>3, <1>6, SeqEmpty
<1> QED BY <1>3, <1>4, <1>5, <1>6, <1>7
---------------------------------------------------------------------------
(* Where the next token of a printed text begins.                          *)

LEMMA SpacesAre ==
  /\ Blank \in Space /\ Newline \in Space
  /\ EOF \notin Space /\ EOF # Newline
  /\ \A c \in {"(", ")", Semicolon, "#", ".", "'", Comma, BACKQUOTE, DOUBLEQUOTE, "-", EOF} : c \notin Space
BY DEF Space, EOF, BACKQUOTE, DOUBLEQUOTE, Newline, Blank, Semicolon, Comma

LEMMA BlanksEnd ==
  /\ Blank \in Delimiters /\ ")" \in Delimiters /\ Newline \in Delimiters /\ Semicolon \in Delimiters
  /\ Blank # Newline /\ ")" # Newline /\ EOF # Newline
  /\ Semicolon # Newline /\ Semicolon # EOF /\ "(" # Newline /\ "(" # EOF
BY DEF Delimiters, EOF, Newline, Blank, Semicolon

(* What the program displays between two data.                             *)
LEMMA SeparatorIs ==
  ASSUME NEW t \in Separators
  PROVE  /\ IsSeq(t)
         /\ \/ Len(t) = 1 /\ t[1] \in {Blank, Newline}
            \/ Len(t) = 3 /\ t[1] = Semicolon /\ t[2] = "(" /\ t[3] = Newline
<1>1. t = <<Newline>> \/ t = <<Blank>> \/ t = <<Semicolon, "(", Newline>>
  BY DEF Separators, Newline, Blank, Semicolon
<1>2. CASE t = <<Newline>>
  BY <1>2, SeqOne
<1>3. CASE t = <<Blank>>
  BY <1>3, SeqOne
<1>4. CASE t = <<Semicolon, "(", Newline>>
  BY <1>4, SeqThree
<1> QED BY <1>1, <1>2, <1>3, <1>4

LEMMA SkipNone ==
  ASSUME NEW p, p.past_the_end \in Nat, NEW j \in 0 .. p.past_the_end, At(p, j) \notin Space
  PROVE  skipspace(p, j) = j
<1>1. PICK s : s = skipspace(p, j)
  OBVIOUS
<1>2. s \in j .. p.past_the_end /\ (j < s => At(p, j) \in Space)
  BY <1>1, SkipSpace
<1> QED BY <1>1, <1>2

LEMMA SkipOne ==
  ASSUME NEW p, p.past_the_end \in Nat, NEW j \in 0 .. p.past_the_end, j < p.past_the_end,
         At(p, j) \in Space
  PROVE  skipspace(p, j) = skipspace(p, j + 1)
<1>1. PICK s, u, m : s = skipspace(p, j) /\ u = skipspace(p, j + 1) /\ m = p.past_the_end
  OBVIOUS
<1>2. j + 1 \in 0 .. m /\ m \in Nat
  BY <1>1
<1>3. /\ s \in j .. m /\ At(p, s) \notin Space
      /\ \A i \in j .. m : i < s => At(p, i) \in Space
  BY <1>1, SkipSpace
<1>4. /\ u \in (j + 1) .. m /\ At(p, u) \notin Space
      /\ \A i \in (j + 1) .. m : i < u => At(p, i) \in Space
  BY <1>1, <1>2, SkipSpace
<1>5. s # j
  BY <1>3
<1>6. s \in (j + 1) .. m /\ u \in j .. m
  BY <1>3, <1>4, <1>5
<1>7. ~(s < u) /\ ~(u < s)
  BY <1>3, <1>4, <1>6
<1> QED BY <1>1, <1>6, <1>7

LEMMA StartHere ==
  ASSUME NEW p, p.past_the_end \in Nat, NEW j \in 0 .. p.past_the_end,
         At(p, j) \notin Space, ~IsComment(p, j)
  PROVE  Start(p, j) = j
BY SkipNone, StartThere

LEMMA StartBlank ==
  ASSUME NEW p, p.past_the_end \in Nat, NEW j \in 0 .. p.past_the_end, j < p.past_the_end,
         At(p, j) \in Space
  PROVE  Start(p, j) = Start(p, j + 1)
<1>1. j + 1 \in 0 .. p.past_the_end
  OBVIOUS
<1> QED BY <1>1, SkipOne, StartThere

(* A comment of two characters, and a newline.                             *)
LEMMA StartComment ==
  ASSUME NEW p, p.past_the_end \in Nat, NEW j \in Nat, j + 3 <= p.past_the_end,
         At(p, j) = Semicolon, At(p, j + 1) = "(", At(p, j + 2) = Newline
  PROVE  Start(p, j) = Start(p, j + 3)
<1>1. PICK m, s : m = p.past_the_end /\ s = Seek(p, j, {Newline})
  OBVIOUS
<1>2. j \in 0 .. m /\ m \in Nat /\ j + 3 <= m /\ j \in 0 .. p.past_the_end
  <2>1. m \in Nat /\ j + 3 <= m
    BY <1>1
  <2>2. j \in 0 .. m
    BY <2>1
  <2> QED BY <1>1, <2>1, <2>2
<1>3. skipspace(p, j) = j
  BY <1>2, SkipNone, SpacesAre
<1>4. /\ s \in j .. m /\ At(p, s) \in {Newline} \cup {EOF}
      /\ \A i \in j .. m : i < s => At(p, i) \notin {Newline} \cup {EOF}
  BY <1>1, <1>2, SeekIs DEF Newline
<1>5. s = j + 2
  <2>1. s # j /\ s # j + 1
    BY <1>4, BlanksEnd
  <2>2. ~(j + 2 < s)
    <3>1. j + 2 \in j .. m
      BY <1>2
    <3>2. j + 2 < s => At(p, j + 2) \notin {Newline} \cup {EOF}
      BY <1>4, <3>1
    <3> QED BY <3>2
  <2>3. s \in j .. m
    BY <1>4
  <2> QED BY ONLY <1>2, <2>1, <2>2, <2>3
<1>6. AfterLine(p, j) = j + 3
  <2>1. s + 1 = j + 3 /\ ~(s + 1 > m)
    BY ONLY <1>2, <1>5
  <2> QED BY <1>1, <2>1 DEF AfterLine, Past, Newline
<1>7. IsComment(p, j)
  BY DEF IsComment, Semicolon
<1> QED BY <1>2, <1>3, <1>6, <1>7, StartThere

(* At the end of the text there is no token.                               *)
LEMMA TokenAtEnd ==
  ASSUME NEW p, p.past_the_end \in Nat
  PROVE  token(p, p.past_the_end) = [tok |-> EOF, at |-> p.past_the_end]
<1>1. PICK m \in Nat : m = p.past_the_end
  OBVIOUS
<1>2. At(p, m) = EOF
  BY <1>1 DEF At
<1>3. ~IsComment(p, m)
  <2>1. At(p, m) # Semicolon /\ At(p, m) # "#"
    BY <1>2 DEF EOF, Semicolon
  <2> QED BY <2>1 DEF IsComment, Semicolon
<1>4. Start(p, m) = m
  <2>1. At(p, m) \notin Space
    BY <1>2, SpacesAre
  <2>2. m \in 0 .. p.past_the_end
    BY <1>1
  <2> QED BY <1>1, <1>3, <2>1, <2>2, StartHere
<1>5. TokenAt(p, m) = Found(p, EOF, m)
  <2>1. PICK c : c = At(p, m)
    OBVIOUS
  <2>2. c = EOF /\ c \notin {"(", ")", ".", "'", DOUBLEQUOTE, BACKQUOTE, Comma, "#"}
    BY <1>2, <2>1 DEF EOF, DOUBLEQUOTE, BACKQUOTE, Comma
  <2> HIDE DEF Found
  <2> QED BY <2>1, <2>2 DEF TokenAt, Comma
<1>6. Found(p, EOF, m) = [tok |-> EOF, at |-> m]
  BY <1>1 DEF Found, Past
<1> QED BY <1>1, <1>4, <1>5, <1>6 DEF token

(* What follows a datum is not part of it, and within a list or a vector   *)
(* it is no newline.                                                       *)
LEMMA Follows ==
  ASSUME NEW np, NEW X, NEW T, NEW q, Cuts(q, T), NEW j, j <= q.past_the_end,
         NEW o \in {"P1LIST", "PVECFROM", "returned"}, NEW a, NEW p, NEW n,
         o = "returned" => p = << >> /\ a = NIL,
         OnText(np, X, T, j, Place(o, a, p, n))
  PROVE  /\ At(q, j) \in Delimiters \cup {EOF}
         /\ o # "returned" => At(q, j) # Newline
         /\ j \in Nat
<1>1. PICK m : m = q.past_the_end
  OBVIOUS
<1>2. m \in Nat /\ Len(T) \in Nat /\ m <= Len(T)
  BY <1>1, CutBounds
<1>3. ASSUME NEW t, IsSeq(t), Slice(T, j, t), Len(t) >= 1, j \in Nat
      PROVE  At(q, j) \in {t[1], EOF}
  <2>1. At(q, j) = IF j < m THEN t[1] ELSE EOF
    BY <1>1, <1>3, CutFirst
  <2> QED BY <2>1
<1>4. ASSUME NEW c, Slice(T, j, <<c>>), j \in Nat  PROVE At(q, j) \in {c, EOF}
  <2>1. PICK t : t = <<c>>
    OBVIOUS
  <2>2. IsSeq(t) /\ Len(t) = 1 /\ t[1] = c
    BY <2>1, SeqOne
  <2>3. Len(t) >= 1
    BY <2>2
  <2> QED BY <1>3, <1>4, <2>1, <2>2, <2>3
<1>6. CASE o = "P1LIST"
  <2>1. ListText(np, X, T, j, a, p, n) /\ j \in Nat
    BY <1>6, FromList
  <2>2. Slice(T, j, <<Blank>>) \/ Slice(T, j, <<Blank, ".", Blank>>) \/ Slice(T, j, <<")">>)
    BY <2>1 DEF ListText
  <2>3. ASSUME Slice(T, j, <<Blank, ".", Blank>>)  PROVE At(q, j) \in {Blank, EOF}
    <3>1. PICK t : t = <<Blank, ".", Blank>>
      OBVIOUS
    <3>2. IsSeq(t) /\ Len(t) = 3 /\ t[1] = Blank
      BY <3>1, SeqThree
    <3>3. Len(t) >= 1 /\ Slice(T, j, t)
      BY <2>3, <3>1, <3>2
    <3> QED BY <1>3, <2>1, <3>2, <3>3
  <2>4. At(q, j) \in {Blank, ")", EOF}
    BY <1>4, <2>1, <2>2, <2>3
  <2> QED BY BlanksEnd, <2>1, <2>4
<1>7. CASE o = "PVECFROM"
  <2>1. PICK e : e = Place("PVECFROM", a, p, n)
    OBVIOUS
  <2>2. Entry(np, e) /\ e.op = "PVECFROM" /\ e.args = a /\ e.op \in PrintOps
    <3>1. Entry(np, e)
      BY <1>7, <2>1, OnTextSteps
    <3> QED BY <2>1, <3>1, PlaceFields DEF PrintOps
  <2>3. ToPrint(np, "PVECFROM", a)
    BY <2>2, EntryPrints
  <2>4. PICK vec, k : a = From(vec, k)
    BY <2>3, VectorToPrint DEF From
  <2>5. VectorText(np, X, T, j, vec, k, p, n) /\ j \in Nat
    BY <1>7, <2>4, FromVector
  <2>6. Slice(T, j, <<Blank>>) \/ Slice(T, j, <<")">>)
    BY <2>5 DEF VectorText
  <2>7. At(q, j) \in {Blank, ")", EOF}
    BY <1>4, <2>5, <2>6
  <2> QED BY BlanksEnd, <2>5, <2>7
<1>8. CASE o = "returned"
  <2>1. /\ n \in Nat \ {0} /\ j \in Nat
        /\ \/ j = Len(T) /\ n = Len(X)
           \/ \E t \in Separators : /\ IsSeq(t) /\ Slice(T, j, t)
                                    /\ OnText(np, X, T, j + Len(t), Place("idle", NIL, << >>, n))
    BY <1>8, FromEnd
  <2>2. CASE j = Len(T)
    BY <1>1, <1>2, <1>8, <2>1, <2>2, CutBounds
  <2>3. CASE \E t \in Separators : IsSeq(t) /\ Slice(T, j, t)
    <3>1. PICK t \in Separators : IsSeq(t) /\ Slice(T, j, t)
      BY <2>3
    <3>3. Len(t) >= 1 /\ t[1] \in {Newline, Blank, Semicolon}
      BY <3>1, SeparatorIs
    <3>4. At(q, j) \in {t[1], EOF}
      BY <1>3, <2>1, <3>1, <3>3
    <3> QED BY BlanksEnd, <1>8, <2>1, <3>3, <3>4
  <2> QED BY <2>1, <2>2, <2>3
<1> QED BY <1>6, <1>7, <1>8
---------------------------------------------------------------------------
(* The token that a character begins.                                      *)

Marks == {EOF, "'", DOUBLEQUOTE, BACKQUOTE, Comma, "#"}

LEMMA TokenHere ==
  ASSUME NEW p, p.past_the_end \in Nat, NEW j \in Nat, j < p.past_the_end,
         At(p, j) \notin Space, ~IsComment(p, j)
  PROVE  token(p, j) = TokenAt(p, j)
<1>1. j \in 0 .. p.past_the_end
  OBVIOUS
<1> QED BY <1>1, StartHere DEF token

(* None of these characters is a blank or begins a comment.                *)
LEMMA NoBlank ==
  ASSUME NEW p, NEW j, At(p, j) \in {"(", ")", "."} \cup Marks \/ At(p, j) \notin Delimiters \cup Marks,
         At(p, j) = "#" => At(p, j + 1) # "!"
  PROVE  At(p, j) \notin Space /\ ~IsComment(p, j)
<1>1. PICK c : c = At(p, j)
  OBVIOUS
<1>2. c \notin Space
  BY <1>1 DEF Space, Delimiters, Marks, EOF, DOUBLEQUOTE, BACKQUOTE, Comma
<1>3. c # ";"
  BY <1>1 DEF Delimiters, Marks, EOF, DOUBLEQUOTE, BACKQUOTE, Comma
<1> QED BY <1>1, <1>2, <1>3 DEF IsComment

LEMMA TokenAtIs ==
  ASSUME NEW p, NEW j, NEW c, c = At(p, j), NEW d, d = At(p, j + 1)
  PROVE  /\ c = "(" => TokenAt(p, j) = Found(p, "LPAREN", j + 1)
         /\ c = ")" => TokenAt(p, j) = Found(p, "RPAREN", j + 1)
         /\ c = "." /\ d \in {Blank, EOF} => TokenAt(p, j) = Found(p, "DOT", j + 2)
         /\ c = "'" => TokenAt(p, j) = Found(p, "QUOTE", j + 1)
         /\ c = DOUBLEQUOTE => TokenAt(p, j) = Found(p, "DQUOTE", j + 1)
         /\ c = BACKQUOTE => TokenAt(p, j) = Found(p, "BQUOTE", j + 1)
         /\ c = Comma /\ d = "@" => TokenAt(p, j) = Found(p, "ATMARK", j + 2)
         /\ c = Comma /\ d # "@" => TokenAt(p, j) = Found(p, "COMMA", j + 1)
         /\ c = "#" /\ d = "(" => TokenAt(p, j) = Found(p, "VEC", j + 2)
         /\ c = "#" /\ d \in {"t", "f", "\\", EOF} => TokenAt(p, j) = Found(p, "SHARP_CONST", j + 1)
         /\ c \notin Delimiters \cup Marks /\ (c = "." => d \notin Delimiters \cup {EOF}) => TokenAt(p, j) = Found(p, "ATOM", j)
<1> HIDE DEF Found
<1>1. ASSUME c = "("  PROVE TokenAt(p, j) = Found(p, "LPAREN", j + 1)
  <2>1. c \notin {EOF, ")", ".", "'", DOUBLEQUOTE, BACKQUOTE, Comma, "#"}
    BY <1>1 DEF EOF, DOUBLEQUOTE, BACKQUOTE, Comma, Blank, Delimiters, Marks
  <2> QED BY <1>1, <2>1 DEF TokenAt, Comma, Blank
<1>2. ASSUME c = ")"  PROVE TokenAt(p, j) = Found(p, "RPAREN", j + 1)
  <2>1. c \notin {EOF, "(", ".", "'", DOUBLEQUOTE, BACKQUOTE, Comma, "#"}
    BY <1>2 DEF EOF, DOUBLEQUOTE, BACKQUOTE, Comma, Blank, Delimiters, Marks
  <2> QED BY <1>2, <2>1 DEF TokenAt, Comma, Blank
<1>3. ASSUME c = "." /\ d \in {Blank, EOF}  PROVE TokenAt(p, j) = Found(p, "DOT", j + 2)
  <2>1. c \notin {EOF, "(", ")", "'", DOUBLEQUOTE, BACKQUOTE, Comma, "#"}
    BY <1>3 DEF EOF, DOUBLEQUOTE, BACKQUOTE, Comma, Blank, Delimiters, Marks
  <2> QED BY <1>3, <2>1 DEF TokenAt, Comma, Blank
<1>4. ASSUME c = "'"  PROVE TokenAt(p, j) = Found(p, "QUOTE", j + 1)
  <2>1. c \notin {EOF, "(", ")", ".", DOUBLEQUOTE, BACKQUOTE, Comma, "#"}
    BY <1>4 DEF EOF, DOUBLEQUOTE, BACKQUOTE, Comma, Blank, Delimiters, Marks
  <2> QED BY <1>4, <2>1 DEF TokenAt, Comma, Blank
<1>5. ASSUME c = DOUBLEQUOTE  PROVE TokenAt(p, j) = Found(p, "DQUOTE", j + 1)
  <2>1. c \notin {EOF, "(", ")", ".", "'", BACKQUOTE, Comma, "#"}
    BY <1>5 DEF EOF, DOUBLEQUOTE, BACKQUOTE, Comma, Blank, Delimiters, Marks
  <2> QED BY <1>5, <2>1 DEF TokenAt, Comma, Blank
<1>6. ASSUME c = BACKQUOTE  PROVE TokenAt(p, j) = Found(p, "BQUOTE", j + 1)
  <2>1. c \notin {EOF, "(", ")", ".", "'", DOUBLEQUOTE, Comma, "#"}
    BY <1>6 DEF EOF, DOUBLEQUOTE, BACKQUOTE, Comma, Blank, Delimiters, Marks
  <2> QED BY <1>6, <2>1 DEF TokenAt, Comma, Blank
<1>7. ASSUME c = Comma /\ d = "@"  PROVE TokenAt(p, j) = Found(p, "ATMARK", j + 2)
  <2>1. c \notin {EOF, "(", ")", ".", "'", DOUBLEQUOTE, BACKQUOTE, "#"}
    BY <1>7 DEF EOF, DOUBLEQUOTE, BACKQUOTE, Comma, Blank, Delimiters, Marks
  <2> QED BY <1>7, <2>1 DEF TokenAt, Comma, Blank
<1>8. ASSUME c = Comma /\ d # "@"  PROVE TokenAt(p, j) = Found(p, "COMMA", j + 1)
  <2>1. c \notin {EOF, "(", ")", ".", "'", DOUBLEQUOTE, BACKQUOTE, "#"}
    BY <1>8 DEF EOF, DOUBLEQUOTE, BACKQUOTE, Comma, Blank, Delimiters, Marks
  <2> QED BY <1>8, <2>1 DEF TokenAt, Comma, Blank
<1>9. ASSUME c = "#" /\ d = "("  PROVE TokenAt(p, j) = Found(p, "VEC", j + 2)
  <2>1. c \notin {EOF, "(", ")", ".", "'", DOUBLEQUOTE, BACKQUOTE, Comma} /\ d \notin {Blank, "t", "f", "o", "d", "x", "b", "\\", EOF}
    BY <1>9 DEF EOF, DOUBLEQUOTE, BACKQUOTE, Comma, Blank, Delimiters, Marks
  <2> QED BY <1>9, <2>1 DEF TokenAt, Comma, Blank
<1>10. ASSUME c = "#" /\ d \in {"t", "f", "\\", EOF}  PROVE TokenAt(p, j) = Found(p, "SHARP_CONST", j + 1)
  <2>1. c \notin {EOF, "(", ")", ".", "'", DOUBLEQUOTE, BACKQUOTE, Comma} /\ d # "("
    BY <1>10 DEF EOF, DOUBLEQUOTE, BACKQUOTE, Comma, Blank, Delimiters, Marks
  <2> QED BY <1>10, <2>1 DEF TokenAt, Comma, Blank
<1>11. ASSUME c \notin Delimiters \cup Marks /\ (c = "." => d \notin Delimiters \cup {EOF})  PROVE TokenAt(p, j) = Found(p, "ATOM", j)
  <2>1. c \notin {EOF, "(", ")", "'", DOUBLEQUOTE, BACKQUOTE, Comma, "#"} /\ (c = "." => d \notin {Blank, "\n", "\t", EOF})
    BY <1>11 DEF EOF, DOUBLEQUOTE, BACKQUOTE, Comma, Blank, Delimiters, Marks
  <2> QED BY <1>11, <2>1 DEF TokenAt, Comma, Blank
<1> QED BY <1>1, <1>2, <1>3, <1>4, <1>5, <1>6, <1>7, <1>8, <1>9, <1>10, <1>11

LEMMA TokenIs ==
  ASSUME NEW p, p.past_the_end \in Nat, NEW j \in Nat, j < p.past_the_end,
         NEW c, c = At(p, j), NEW d, d = At(p, j + 1),
         NEW t, NEW a, TokenAt(p, j) = Found(p, t, a), a \in {j, j + 1, j + 2},
         c \in {"(", ")", "."} \cup Marks \/ c \notin Delimiters \cup Marks,
         c = "#" => d # "!"
  PROVE  /\ token(p, j) = [tok |-> t, at |-> Past(p, a)]
         /\ a \in {j, j + 1} => Past(p, a) = a
         /\ j + 1 < p.past_the_end => Past(p, a) = a
         /\ j + 1 >= p.past_the_end /\ a = j + 2 => Past(p, a) = p.past_the_end
<1>1. token(p, j) = TokenAt(p, j)
  BY NoBlank, TokenHere
<1>2. PICK m \in Nat : m = p.past_the_end
  OBVIOUS
<1>3. Past(p, a) = IF a > m THEN m ELSE a
  BY <1>2 DEF Past
<1>4. /\ a \in {j, j + 1} => Past(p, a) = a
      /\ j + 1 < m => Past(p, a) = a
      /\ j + 1 >= m /\ a = j + 2 => Past(p, a) = m
  BY ONLY <1>2, <1>3, j \in Nat, j < p.past_the_end, a \in {j, j + 1, j + 2}
<1> QED BY <1>1, <1>2, <1>4 DEF Found

(* The atoms that are taken whole, and what they begin with.               *)
LEMMA SignedLexical ==
  ASSUME NEW q, Signed(q), Len(q) < STRBUFFSIZE
  PROVE  Lexical(q) /\ q[1] \notin Marks /\ q[1] # "." /\ q[1] # "@"
<1>1. ASSUME NEW c, IsDigit(c) \/ c = "-"  PROVE c \notin Delimiters \cup Marks /\ c # "." /\ c # "\\" /\ c # "@"
  <2>1. CASE c = "-"
    BY <2>1 DEF Delimiters, Marks, EOF, DOUBLEQUOTE, BACKQUOTE, Comma
  <2>2. CASE IsDigit(c)
    <3>1. c \notin Delimiters \cup Marks /\ c # "."
      BY <2>2, NoColon DEF Marks, Comma
    <3>2. c # "\\"
      BY <2>2, NoDigit
    <3>3. c # "@"
      <4>1. "@" \notin {"0", "1", "2", "3", "4", "5", "6", "7", "8", "9"}
        OBVIOUS
      <4> QED BY <2>2, <4>1, DigitNames, NotDigits
    <3> QED BY <3>1, <3>2, <3>3
  <2> QED BY <1>1, <2>1, <2>2
<1>2. ASSUME NEW k \in 1 .. Len(q)  PROVE IsDigit(q[k]) \/ q[k] = "-"
  <2>1. k = 1 \/ k \in 2 .. Len(q)
    OBVIOUS
  <2> QED BY <2>1 DEF Signed
<1>3. Len(q) \in 1 .. STRBUFFSIZE - 1 /\ 1 \in 1 .. Len(q) /\ IsSeq(q)
  BY ReaderAssumption DEF Signed
<1>4. \A k \in 1 .. Len(q) : q[k] \notin Delimiters \cup Marks /\ q[k] # "." /\ q[k] # "\\" /\ q[k] # "@"
  BY <1>1, <1>2
<1>5. q # <<"\\">>
  BY <1>3, <1>4, SeqOne
<1>6. \A k \in 1 .. Len(q) : q[k] # EOF
  BY <1>4 DEF Marks
<1> QED BY <1>3, <1>4, <1>5, <1>6 DEF Lexical

LEMMA AtomicLexical ==
  ASSUME NEW q, Atomic(q)
  PROVE  /\ Lexical(q) /\ q[1] \notin Marks /\ q[1] \notin Delimiters
         /\ q[1] = "." => Len(q) >= 2 /\ q[2] \notin Delimiters \cup {EOF}
<1>1. IsText(q) /\ Len(q) \in 1 .. STRBUFFSIZE - 1
  BY DEF Atomic
<1>2. IsSeq(q) /\ \A k \in 1 .. Len(q) : q[k] # EOF
  BY <1>1, TextSeq
<1>3. Len(q) \in Nat /\ DOMAIN q = 1 .. Len(q) /\ 1 \in 1 .. Len(q)
  BY <1>1, <1>2, SeqLen
<1>4. (\A k \in 1 .. Len(q) : q[k] \notin Delimiters) \/ (Len(q) = 2 /\ q[1] = "\\")
  <2>1. ASSUME Range(q) \cap Delimiters = {}, NEW k \in 1 .. Len(q)  PROVE q[k] \notin Delimiters
    <3>1. q[k] \in Range(q)
      BY <1>3 DEF Range
    <3> QED BY <2>1, <3>1
  <2> QED BY <2>1 DEF Atomic
<1>5. Lexical(q)
  BY <1>1, <1>2, <1>4 DEF Lexical, Atomic
<1>6. q[1] \notin Marks
  BY <1>2, <1>3 DEF Atomic, Marks, Comma
<1>7. q[1] \notin Delimiters
  BY <1>5, LexicalFirst
<1>8. ASSUME q[1] = "."  PROVE Len(q) >= 2 /\ q[2] \notin Delimiters \cup {EOF}
  <2>1. Len(q) # 1
    <3>1. ASSUME Len(q) = 1  PROVE FALSE
      <4>1. PICK u : u = <<".">>
        OBVIOUS
      <4>2. IsSeq(u) /\ Len(u) = 1 /\ u[1] = "."
        BY <4>1, SeqOne
      <4>3. \A k \in 1 .. Len(q) : q[k] = u[k]
        BY <1>8, <3>1, <4>2
      <4>4. q = u
        BY <1>2, <3>1, <4>2, <4>3, SeqSame
      <4> QED BY <4>1, <4>4 DEF Atomic
    <3> QED BY <3>1
  <2>2. Len(q) >= 2
    BY <1>3, <2>1
  <2>3. 2 \in 1 .. Len(q)
    BY <1>3, <2>2
  <2>4. q[1] # "\\"
    BY <1>8
  <2> QED BY <1>2, <1>4, <2>2, <2>3, <2>4
<1> QED BY <1>5, <1>6, <1>7, <1>8

LEMMA SharpLexical ==
  /\ Lexical(<<"t">>) /\ Lexical(<<"f">>)
  /\ \A d : d # EOF => Lexical(<<"\\", d>>)
<1>1. ASSUME NEW c \in {"t", "f"}  PROVE Lexical(<<c>>)
  <2>1. PICK u : u = <<c>>
    OBVIOUS
  <2>2. IsSeq(u) /\ Len(u) = 1 /\ u[1] = c
    BY <2>1, SeqOne
  <2>3. c # EOF /\ c \notin Delimiters /\ c # "\\"
    BY DEF EOF, Delimiters
  <2>4. u # <<"\\">>
    BY <2>2, <2>3, SeqOne
  <2>5. \A k \in 1 .. Len(u) : k = 1
    BY <2>2
  <2>6. Len(u) \in 1 .. STRBUFFSIZE - 1
    BY <2>2, ReaderAssumption
  <2>7. Lexical(u)
    BY <2>2, <2>3, <2>4, <2>5, <2>6 DEF Lexical
  <2> QED BY <2>1, <2>7
<1>2. ASSUME NEW d, d # EOF  PROVE Lexical(<<"\\", d>>)
  <2>1. PICK u : u = <<"\\", d>>
    OBVIOUS
  <2>2. IsSeq(u) /\ Len(u) = 2 /\ u[1] = "\\" /\ u[2] = d
    BY <2>1, SeqTwo
  <2>3. "\\" # EOF
    BY DEF EOF
  <2>4. u # <<"\\">>
    BY <2>2, SeqOne
  <2>5. \A k \in 1 .. Len(u) : k = 1 \/ k = 2
    BY <2>2
  <2>6. Len(u) \in 1 .. STRBUFFSIZE - 1
    BY <2>2, ReaderAssumption
  <2>7. Lexical(u)
    BY <1>2, <2>2, <2>3, <2>4, <2>5, <2>6 DEF Lexical
  <2> QED BY <2>1, <2>7
<1> QED BY <1>1, <1>2
---------------------------------------------------------------------------
(* The parentheses of a text that are open at an offset.                   *)

Placed(T, j, c) == {k \in 1 .. j : T[k] = c}

Opens(T, j) == Cardinality(Placed(T, j, "(")) - Cardinality(Placed(T, j, ")"))

NoParen(w) == \A k \in 1 .. Len(w) : w[k] \notin {"(", ")"}

LEMMA PlacedFinite ==
  ASSUME NEW T, NEW j \in Nat, NEW c
  PROVE  IsFiniteSet(Placed(T, j, c)) /\ Cardinality(Placed(T, j, c)) \in Nat
<1>1. IsFiniteSet(1 .. j)
  BY FS_Interval
<1>2. Placed(T, j, c) \subseteq 1 .. j
  BY DEF Placed
<1>3. IsFiniteSet(Placed(T, j, c))
  BY <1>1, <1>2, FS_Subset
<1> QED BY <1>3, FS_CardinalityType

LEMMA OpensInt ==
  ASSUME NEW T, NEW j \in Nat
  PROVE  Opens(T, j) \in Int
BY PlacedFinite DEF Opens

LEMMA PlacedNext ==
  ASSUME NEW T, NEW j \in Nat, NEW c
  PROVE  /\ T[j + 1] = c => Cardinality(Placed(T, j + 1, c)) = Cardinality(Placed(T, j, c)) + 1
         /\ T[j + 1] # c => Placed(T, j + 1, c) = Placed(T, j, c)
<1>1. ASSUME T[j + 1] # c  PROVE Placed(T, j + 1, c) = Placed(T, j, c)
  BY <1>1 DEF Placed
<1>2. ASSUME T[j + 1] = c  PROVE Cardinality(Placed(T, j + 1, c)) = Cardinality(Placed(T, j, c)) + 1
  <2>1. Placed(T, j + 1, c) = Placed(T, j, c) \cup {j + 1}
    BY <1>2 DEF Placed
  <2>2. j + 1 \notin Placed(T, j, c)
    BY DEF Placed
  <2>3. IsFiniteSet(Placed(T, j, c))
    BY PlacedFinite
  <2> QED BY <2>1, <2>2, <2>3, FS_AddElement
<1> QED BY <1>1, <1>2

LEMMA OpensNext ==
  ASSUME NEW T, NEW j \in Nat
  PROVE  /\ T[j + 1] = "(" => Opens(T, j + 1) = Opens(T, j) + 1
         /\ T[j + 1] = ")" => Opens(T, j + 1) = Opens(T, j) - 1
         /\ T[j + 1] \notin {"(", ")"} => Opens(T, j + 1) = Opens(T, j)
<1>1. PICK a, b, c, d : /\ a = Cardinality(Placed(T, j, "(")) /\ b = Cardinality(Placed(T, j, ")"))
                        /\ c = Cardinality(Placed(T, j + 1, "(")) /\ d = Cardinality(Placed(T, j + 1, ")"))
  OBVIOUS
<1>2. a \in Nat /\ b \in Nat
  BY <1>1, PlacedFinite
<1>3. (T[j + 1] = "(" => c = a + 1) /\ (T[j + 1] # "(" => c = a)
  BY <1>1, PlacedNext
<1>4. (T[j + 1] = ")" => d = b + 1) /\ (T[j + 1] # ")" => d = b)
  BY <1>1, PlacedNext
<1>5. Opens(T, j) = a - b /\ Opens(T, j + 1) = c - d
  BY <1>1 DEF Opens
<1> QED BY ONLY <1>2, <1>3, <1>4, <1>5

LEMMA OpensPlain ==
  ASSUME NEW T, NEW i \in Nat, NEW j \in Nat, i <= j, \A k \in 1 .. (j - i) : T[i + k] \notin {"(", ")"}
  PROVE  Opens(T, j) = Opens(T, i)
<1>1. ASSUME NEW c \in {"(", ")"}  PROVE Placed(T, j, c) = Placed(T, i, c)
  <2>1. ASSUME NEW k \in 1 .. j, T[k] = c  PROVE k \in 1 .. i
    <3>1. CASE k <= i
      BY <3>1
    <3>2. CASE ~(k <= i)
      <4>1. PICK l : l = k - i
        OBVIOUS
      <4>2. l \in 1 .. (j - i) /\ i + l = k
        BY <3>2, <4>1
      <4>3. T[k] \notin {"(", ")"}
        BY <4>2
      <4> QED BY <2>1, <4>3
    <3> QED BY <3>1, <3>2
  <2>2. 1 .. i \subseteq 1 .. j
    OBVIOUS
  <2> QED BY <2>1, <2>2 DEF Placed
<1> QED BY <1>1 DEF Opens

LEMMA OpensSlice ==
  ASSUME NEW T, IsSeq(T), NEW i \in Nat, NEW w, IsSeq(w), Slice(T, i, w), NoParen(w),
         NEW j \in Nat, i <= j, j <= i + Len(w)
  PROVE  Opens(T, j) = Opens(T, i)
<1>1. Len(w) \in Nat
  BY SeqLen
<1>2. ASSUME NEW k \in 1 .. (j - i)  PROVE T[i + k] \notin {"(", ")"}
  <2>1. k \in 1 .. Len(w)
    BY <1>1
  <2>2. T[i + k] = w[k]
    BY <2>1 DEF Slice
  <2> QED BY <2>1, <2>2 DEF NoParen
<1> QED BY <1>2, OpensPlain

LEMMA SliceFirst ==
  ASSUME NEW T, NEW i \in Nat, NEW c, Slice(T, i, <<c>>)
  PROVE  T[i + 1] = c /\ i + 1 <= Len(T)
<1>1. Len(<<c>>) = 1 /\ <<c>>[1] = c /\ 1 \in 1 .. 1
  BY SeqOne
<1> QED BY <1>1 DEF Slice

LEMMA SliceTwo ==
  ASSUME NEW T, IsSeq(T), NEW i \in Nat, NEW c, NEW d, Slice(T, i, <<c, d>>)
  PROVE  Slice(T, i, <<c>>) /\ Slice(T, i + 1, <<d>>) /\ T[i + 1] = c /\ T[i + 2] = d /\ i + 2 <= Len(T)
<1>1. PICK u, v, w : u = <<c>> /\ v = <<d>> /\ w = <<c, d>>
  OBVIOUS
<1>2. Len(u) = 1 /\ Len(v) = 1 /\ Len(w) = 2 /\ u[1] = c /\ v[1] = d /\ w[1] = c /\ w[2] = d
  BY <1>1, SeqOne, SeqTwo
<1>3. i + 2 <= Len(T) /\ T[i + 1] = c /\ T[i + 2] = d
  <2>1. Slice(T, i, w)
    BY <1>1
  <2>2. 1 \in 1 .. Len(w) /\ 2 \in 1 .. Len(w)
    BY <1>2
  <2> QED BY <1>2, <2>1, <2>2 DEF Slice
<1>4. Len(T) \in Nat /\ (i + 1) + 1 = i + 2
  BY SeqLen
<1>5. Slice(T, i, u)
  <2>1. \A j \in 1 .. Len(u) : T[i + j] = u[j]
    BY <1>2, <1>3
  <2> QED BY <1>2, <1>3, <1>4, <2>1 DEF Slice
<1>6. Slice(T, i + 1, v)
  <2>1. \A j \in 1 .. Len(v) : T[(i + 1) + j] = v[j]
    BY <1>2, <1>3, <1>4
  <2> QED BY <1>2, <1>3, <1>4, <2>1 DEF Slice
<1> QED BY <1>1, <1>3, <1>5, <1>6

LEMMA SliceThree ==
  ASSUME NEW T, IsSeq(T), NEW i \in Nat, NEW c, NEW d, NEW e, Slice(T, i, <<c, d, e>>)
  PROVE  Slice(T, i, <<c>>) /\ Slice(T, i + 1, <<d, e>>)
<1>1. PICK u, v, w : u = <<c>> /\ v = <<d, e>> /\ w = <<c, d, e>>
  OBVIOUS
<1>2. /\ Len(u) = 1 /\ Len(v) = 2 /\ Len(w) = 3 /\ u[1] = c /\ v[1] = d /\ v[2] = e
      /\ w[1] = c /\ w[2] = d /\ w[3] = e
  BY <1>1, SeqOne, SeqTwo, SeqThree
<1>3. i + 3 <= Len(T) /\ T[i + 1] = c /\ T[i + 2] = d /\ T[i + 3] = e
  <2>1. Slice(T, i, w)
    BY <1>1
  <2>2. 1 \in 1 .. Len(w) /\ 2 \in 1 .. Len(w) /\ 3 \in 1 .. Len(w)
    BY <1>2
  <2> QED BY <1>2, <2>1, <2>2 DEF Slice
<1>4. Len(T) \in Nat /\ (i + 1) + 1 = i + 2 /\ (i + 1) + 2 = i + 3
  BY SeqLen
<1>5. Slice(T, i, u)
  <2>1. \A j \in 1 .. Len(u) : T[i + j] = u[j]
    BY <1>2, <1>3
  <2> QED BY <1>2, <1>3, <1>4, <2>1 DEF Slice
<1>6. Slice(T, i + 1, v)
  <2>1. \A j \in 1 .. Len(v) : T[(i + 1) + j] = v[j]
    BY <1>2, <1>3, <1>4
  <2> QED BY <1>2, <1>3, <1>4, <2>1 DEF Slice
<1> QED BY <1>1, <1>5, <1>6
---------------------------------------------------------------------------
(* The tokens of a text, or of its first part.                             *)

LEMMA TokenOne ==
  ASSUME NEW p, NEW T, Cuts(p, T), NEW j \in Nat, j < p.past_the_end, NEW c, Slice(T, j, <<c>>)
  PROVE  /\ At(p, j) = c /\ T[j + 1] = c /\ j + 1 <= p.past_the_end
         /\ c = "(" => token(p, j) = [tok |-> "LPAREN", at |-> j + 1]
         /\ c = ")" => token(p, j) = [tok |-> "RPAREN", at |-> j + 1]
         /\ c = "'" => token(p, j) = [tok |-> "QUOTE", at |-> j + 1]
         /\ c = DOUBLEQUOTE => token(p, j) = [tok |-> "DQUOTE", at |-> j + 1]
         /\ c = BACKQUOTE => token(p, j) = [tok |-> "BQUOTE", at |-> j + 1]
         /\ c = Comma /\ At(p, j + 1) # "@" => token(p, j) = [tok |-> "COMMA", at |-> j + 1]
         /\ c = "#" /\ At(p, j + 1) \in {"t", "f", "\\", EOF} =>
              token(p, j) = [tok |-> "SHARP_CONST", at |-> j + 1]
<1>1. PICK u, d, m : u = <<c>> /\ d = At(p, j + 1) /\ m = p.past_the_end
  OBVIOUS
<1>2. IsSeq(u) /\ Len(u) = 1 /\ u[1] = c /\ Slice(T, j, u)
  BY <1>1, SeqOne
<1>3. At(p, j) = c
  BY <1>2, CutFirst
<1>4. T[j + 1] = c /\ m \in Nat
  BY <1>1, SliceFirst, CutBounds
<1>5. j + 1 <= m
  BY <1>1, <1>4
<1>6. ASSUME NEW t, TokenAt(p, j) = Found(p, t, j + 1), c \in {"(", ")", "."} \cup Marks,
             c = "#" => d # "!"
      PROVE  token(p, j) = [tok |-> t, at |-> j + 1]
  <2>1. token(p, j) = [tok |-> t, at |-> Past(p, j + 1)] /\ Past(p, j + 1) = j + 1
    BY <1>1, <1>3, <1>4, <1>6, TokenIs
  <2> QED BY <2>1
<1>7. c = "(" => token(p, j) = [tok |-> "LPAREN", at |-> j + 1]
  BY <1>3, <1>6, TokenAtIs
<1>8. c = ")" => token(p, j) = [tok |-> "RPAREN", at |-> j + 1]
  BY <1>3, <1>6, TokenAtIs
<1>9. c = "'" => token(p, j) = [tok |-> "QUOTE", at |-> j + 1]
  BY <1>3, <1>6, TokenAtIs DEF Marks
<1>10. ASSUME c = DOUBLEQUOTE  PROVE token(p, j) = [tok |-> "DQUOTE", at |-> j + 1]
  <2>1. c # "#" /\ c \in Marks
    BY <1>10 DEF DOUBLEQUOTE, Marks
  <2> QED BY <1>3, <1>6, <1>10, <2>1, TokenAtIs
<1>11. ASSUME c = BACKQUOTE  PROVE token(p, j) = [tok |-> "BQUOTE", at |-> j + 1]
  <2>1. c # "#" /\ c \in Marks
    BY <1>11 DEF BACKQUOTE, Marks
  <2> QED BY <1>3, <1>6, <1>11, <2>1, TokenAtIs
<1>12. ASSUME c = Comma, d # "@"  PROVE token(p, j) = [tok |-> "COMMA", at |-> j + 1]
  <2>1. c # "#" /\ c \in Marks
    BY <1>12 DEF Comma, Marks
  <2> QED BY <1>1, <1>3, <1>6, <1>12, <2>1, TokenAtIs
<1>13. ASSUME c = "#", d \in {"t", "f", "\\", EOF}
       PROVE  token(p, j) = [tok |-> "SHARP_CONST", at |-> j + 1]
  <2>1. d # "!" /\ c \in Marks
    BY <1>13 DEF EOF, Marks
  <2> QED BY <1>1, <1>3, <1>6, <1>13, <2>1, TokenAtIs
<1> QED BY <1>1, <1>3, <1>4, <1>5, <1>7, <1>8, <1>9, <1>10, <1>11, <1>12, <1>13

LEMMA TokenTwo ==
  ASSUME NEW p, NEW T, Cuts(p, T), NEW j \in Nat, j < p.past_the_end, NEW c, NEW d,
         Slice(T, j, <<c, d>>)
  PROVE  /\ T[j + 1] = c /\ T[j + 2] = d /\ j + 2 <= Len(T)
         /\ At(p, j + 1) = IF j + 1 < p.past_the_end THEN d ELSE EOF
         /\ j + 1 < p.past_the_end =>
              /\ c = "#" /\ d = "(" => token(p, j) = [tok |-> "VEC", at |-> j + 2]
              /\ c = Comma /\ d = "@" => token(p, j) = [tok |-> "ATMARK", at |-> j + 2]
              /\ c = "." /\ d = Blank => token(p, j) = [tok |-> "DOT", at |-> j + 2]
         /\ ~(j + 1 < p.past_the_end) =>
              /\ c = "#" => token(p, j) = [tok |-> "SHARP_CONST", at |-> p.past_the_end]
              /\ c = Comma => token(p, j) = [tok |-> "COMMA", at |-> p.past_the_end]
              /\ c = "." => token(p, j) = [tok |-> "DOT", at |-> p.past_the_end]
<1>1. PICK u, e, m : u = <<c, d>> /\ e = At(p, j + 1) /\ m = p.past_the_end
  OBVIOUS
<1>2. IsSeq(u) /\ Len(u) = 2 /\ u[1] = c /\ u[2] = d /\ Slice(T, j, u)
  BY <1>1, SeqTwo
<1>3. m \in Nat /\ j < m
  BY <1>1, CutBounds
<1>4. At(p, j) = c /\ e = IF j + 1 < m THEN d ELSE EOF
  <2>1. Len(u) >= 1 /\ Len(u) >= 2
    BY <1>2
  <2>2. /\ At(p, j) = IF j < p.past_the_end THEN u[1] ELSE EOF
        /\ At(p, j + 1) = IF j + 1 < p.past_the_end THEN u[2] ELSE EOF
    BY <1>2, <2>1, CutFirst
  <2> QED BY <1>1, <1>2, <2>2
<1>5. T[j + 1] = c /\ T[j + 2] = d /\ j + 2 <= Len(T) /\ Slice(T, j, <<c>>)
  <2>1. IsSeq(T)
    BY DEF Cuts
  <2> QED BY <2>1, SliceTwo
<1>6. ASSUME NEW t, TokenAt(p, j) = Found(p, t, j + 2), c \in {"(", ")", "."} \cup Marks,
             c = "#" => e # "!"
      PROVE  /\ token(p, j) = [tok |-> t, at |-> Past(p, j + 2)]
             /\ j + 1 < m => Past(p, j + 2) = j + 2
             /\ j + 1 >= m => Past(p, j + 2) = m
  BY <1>1, <1>3, <1>4, <1>6, TokenIs
<1>7. ASSUME j + 1 < m, c = "#", d = "("  PROVE token(p, j) = [tok |-> "VEC", at |-> j + 2]
  <2>1. e = "(" /\ e # "!" /\ c \in Marks
    BY <1>4, <1>7 DEF Marks
  <2>2. TokenAt(p, j) = Found(p, "VEC", j + 2)
    BY <1>1, <1>4, <1>7, <2>1, TokenAtIs
  <2> QED BY <1>6, <1>7, <2>1, <2>2
<1>8. ASSUME j + 1 < m, c = Comma, d = "@"  PROVE token(p, j) = [tok |-> "ATMARK", at |-> j + 2]
  <2>1. e = "@" /\ e # "!" /\ c \in Marks
    BY <1>4, <1>8 DEF Marks
  <2>2. TokenAt(p, j) = Found(p, "ATMARK", j + 2)
    BY <1>1, <1>4, <1>8, <2>1, TokenAtIs
  <2> QED BY <1>6, <1>8, <2>1, <2>2
<1>9. ASSUME j + 1 < m, c = ".", d = Blank  PROVE token(p, j) = [tok |-> "DOT", at |-> j + 2]
  <2>1. e = Blank /\ c # "#"
    BY <1>4, <1>9
  <2>2. TokenAt(p, j) = Found(p, "DOT", j + 2)
    BY <1>1, <1>4, <1>9, <2>1, TokenAtIs
  <2> QED BY <1>6, <1>9, <2>1, <2>2
<1>10. ASSUME ~(j + 1 < m)
       PROVE  /\ c = "#" => token(p, j) = [tok |-> "SHARP_CONST", at |-> m]
              /\ c = Comma => token(p, j) = [tok |-> "COMMA", at |-> m]
              /\ c = "." => token(p, j) = [tok |-> "DOT", at |-> m]
  <2>1. e = EOF /\ m = j + 1 /\ e # "@"
    BY <1>3, <1>4, <1>10 DEF EOF
  <2>2. /\ c = "#" => token(p, j) = [tok |-> "SHARP_CONST", at |-> j + 1]
        /\ c = Comma => token(p, j) = [tok |-> "COMMA", at |-> j + 1]
    BY <1>1, <1>5, <2>1, TokenOne
  <2>3. c = "." => token(p, j) = [tok |-> "DOT", at |-> m]
    <3>1. ASSUME c = "."  PROVE token(p, j) = [tok |-> "DOT", at |-> m]
      <4>1. TokenAt(p, j) = Found(p, "DOT", j + 2)
        BY <1>1, <1>4, <2>1, <3>1, TokenAtIs
      <4>2. j + 1 >= m /\ c # "#"
        BY <2>1, <3>1
      <4> QED BY <1>6, <3>1, <4>1, <4>2
    <3> QED BY <3>1
  <2> QED BY <2>1, <2>2, <2>3
<1> QED BY <1>1, <1>4, <1>5, <1>7, <1>8, <1>9, <1>10

LEMMA TokenAtom ==
  ASSUME NEW p, NEW T, Cuts(p, T), NEW j \in Nat, j < p.past_the_end,
         At(p, j) \notin Delimiters \cup Marks,
         At(p, j) = "." => At(p, j + 1) \notin Delimiters \cup {EOF}
  PROVE  token(p, j) = [tok |-> "ATOM", at |-> j]
<1>1. PICK c, d : c = At(p, j) /\ d = At(p, j + 1)
  OBVIOUS
<1>2. p.past_the_end \in Nat
  BY CutBounds
<1>3. TokenAt(p, j) = Found(p, "ATOM", j)
  BY <1>1, TokenAtIs
<1>4. c # "#"
  BY <1>1 DEF Marks
<1> QED BY <1>1, <1>2, <1>3, <1>4, TokenIs
---------------------------------------------------------------------------
(* The token that a datum begins, and what of its text follows.            *)

Ups(t) == IF t \in {"LPAREN", "VEC"} THEN 1 ELSE 0

(* The rest of an atom, up to where the printer goes on.                   *)
AtomRest(np, X, T, w, p, n, a) ==
  Slice(T, a, w) /\ OnText(np, X, T, a + Len(w), Pop(p, n)) /\ (np => NoParen(w))

Abbreviates(t, x) ==
  /\ Abbreviated(x)
  /\ \/ t = "QUOTE" /\ x.car = QUOTE
     \/ t = "BQUOTE" /\ x.car = QQUOTE
     \/ t = "COMMA" /\ x.car = UNQUOTE
     \/ t = "ATMARK" /\ x.car = UNQUOTESP

Begins(np, X, T, x, p, n, t, a) ==
  \/ /\ t = "VEC" /\ x.type = "vector"
     /\ OnText(np, X, T, a, Place("PVECFROM", From(x.elements, 0), p, n))
  \/ /\ t = "LPAREN" /\ x = NIL
     /\ Slice(T, a, <<")">>) /\ OnText(np, X, T, a + 1, Pop(p, n))
  \/ /\ t = "LPAREN" /\ x.type = "pair" /\ ~Abbreviated(x)
     /\ OnText(np, X, T, a, Place("P0LIST", x.car, <<Frame("P1LIST", x.cdr)>> \o p, n))
  \/ /\ Abbreviates(t, x)
     /\ OnText(np, X, T, a, Place("P0LIST", x.cdr.car, p, n))
  \/ /\ t = "ATOM" /\ x.type \in {"number", "symbol"}
     /\ \E w : Lexical(w) /\ mk_atom(w) = x /\ AtomRest(np, X, T, w, p, n, a)
  \/ /\ t = "SHARP_CONST" /\ x.type \in {"bool", "character"}
     /\ \E w : Lexical(w) /\ mk_sharp_const(w) = {x} /\ AtomRest(np, X, T, w, p, n, a)
  \/ /\ t = "DQUOTE" /\ x = String(x.svalue)
     /\ IsText(x.svalue) /\ Len(x.svalue) < STRBUFFSIZE
     /\ \E e : Escapes(x.svalue, e)
               /\ AtomRest(np, X, T, e[Len(x.svalue)] \o <<DOUBLEQUOTE>>, p, n, a)

(* Or the text ends before the token is known.                             *)
Broken(x, t) == t \in {EOF, "SHARP_CONST", "DOT"} \/ (t = "COMMA" /\ Abbreviated(x))

Taken(np, X, T, x, p, n, q, j) ==
  \E t, a : /\ token(q, j) = [tok |-> t, at |-> a]
            /\ a \in Nat /\ j <= a /\ a <= q.past_the_end
            /\ Opens(T, a) = Opens(T, j) + Ups(t)
            /\ \/ Begins(np, X, T, x, p, n, t, a)
               \/ a = q.past_the_end /\ a < Len(T) /\ Broken(x, t)

LEMMA StringForm ==
  ASSUME NEW s, IsSeq(s)
  PROVE  \E e : /\ Escapes(s, e) /\ IsSeq(e[Len(s)])
                /\ printslashstring(s) = <<DOUBLEQUOTE>> \o (e[Len(s)] \o <<DOUBLEQUOTE>>)
<1>1. PICK e : Escapes(s, e) /\ printslashstring(s) = (<<DOUBLEQUOTE>> \o e[Len(s)]) \o <<DOUBLEQUOTE>>
  BY PrintedString
<1>2. Len(s) \in 0 .. Len(s)
  BY SeqLen
<1>3. IsSeq(e[Len(s)]) /\ IsSeq(<<DOUBLEQUOTE>>)
  BY <1>1, <1>2, SeqOne DEF Escapes
<1>4. PICK u, v : u = e[Len(s)] /\ v = <<DOUBLEQUOTE>>
  OBVIOUS
<1>5. IsSeq(u) /\ IsSeq(v)
  BY <1>3, <1>4
<1>6. (v \o u) \o v = v \o (u \o v)
  BY ONLY <1>5, SeqAssoc
<1> QED BY <1>1, <1>3, <1>4, <1>6

(* How the text of an atom begins.                                         *)
SharpForm(w) == w = <<"t">> \/ w = <<"f">> \/ \E d : d # EOF /\ w = <<"\\", d>>

AtomForm(x, w) ==
  \/ x = NIL /\ w = <<"(", ")">>
  \/ /\ x.type \in {"bool", "character"}
     /\ \E u : SharpForm(u) /\ w = <<"#">> \o u /\ Lexical(u) /\ mk_sharp_const(u) = {x}
  \/ x.type \in {"number", "symbol"} /\ Lexical(w) /\ mk_atom(w) = x
     /\ w[1] \notin Marks /\ (w[1] = "@" => x.type = "symbol" /\ w = x.name)
     /\ (w[1] = "." => Len(w) >= 2 /\ w[2] \notin Delimiters \cup {EOF})
  \/ /\ x = String(x.svalue) /\ IsText(x.svalue) /\ Len(x.svalue) < STRBUFFSIZE
     /\ \E e : /\ Escapes(x.svalue, e) /\ IsSeq(e[Len(x.svalue)])
               /\ w = <<DOUBLEQUOTE>> \o (e[Len(x.svalue)] \o <<DOUBLEQUOTE>>)

LEMMA TwoJoined ==
  ASSUME NEW x, NEW y
  PROVE  /\ <<x, y>> = <<x>> \o <<y>>
         /\ \A z : <<x, y, z>> = <<x>> \o <<y, z>>
<1>1. \A k \in 1 .. 2 : k = 1 \/ k = 1 + 1
  OBVIOUS
<1>2. \A k \in 1 .. 3 : k = 1 \/ k = 1 + 1 \/ k = 2 + 1
  OBVIOUS
<1>3. <<x, y>> = <<x>> \o <<y>>
  <2>1. PICK s, t, v : s = <<y>> /\ t = <<x>> \o s /\ v = <<x, y>>
    OBVIOUS
  <2>2. IsSeq(s) /\ Len(s) = 1 /\ s[1] = y
    BY <2>1, SeqOne
  <2>3. /\ IsSeq(t) /\ Len(t) = Len(s) + 1 /\ t[1] = x
        /\ \A k \in 1 .. Len(s) : t[k + 1] = s[k]
    <3>1. IsSeq(s)
      BY <2>2
    <3>2. t = <<x>> \o s
      BY <2>1
    <3> QED BY ONLY <3>1, <3>2, Pushed
  <2>4. Len(t) = 2 /\ t[1 + 1] = y
    BY <2>2, <2>3
  <2>5. IsSeq(v) /\ Len(v) = 2 /\ v[1] = x /\ v[1 + 1] = y
    BY <2>1, SeqTwo
  <2>6. \A k \in 1 .. Len(v) : v[k] = t[k]
    BY <1>1, <2>3, <2>4, <2>5
  <2> QED BY <2>1, <2>3, <2>4, <2>5, <2>6, SeqSame
<1>4. ASSUME NEW z  PROVE <<x, y, z>> = <<x>> \o <<y, z>>
  <2>1. PICK s, t, v : s = <<y, z>> /\ t = <<x>> \o s /\ v = <<x, y, z>>
    OBVIOUS
  <2>2. IsSeq(s) /\ Len(s) = 2 /\ s[1] = y /\ s[2] = z
    BY <2>1, SeqTwo
  <2>3. /\ IsSeq(t) /\ Len(t) = Len(s) + 1 /\ t[1] = x
        /\ \A k \in 1 .. Len(s) : t[k + 1] = s[k]
    <3>1. IsSeq(s)
      BY <2>2
    <3>2. t = <<x>> \o s
      BY <2>1
    <3> QED BY ONLY <3>1, <3>2, Pushed
  <2>4. Len(t) = 3 /\ t[1 + 1] = y /\ t[2 + 1] = z
    BY <2>2, <2>3
  <2>5. IsSeq(v) /\ Len(v) = 3 /\ v[1] = x /\ v[1 + 1] = y /\ v[2 + 1] = z
    BY <2>1, SeqThree
  <2>6. \A k \in 1 .. Len(v) : v[k] = t[k]
    BY <1>2, <2>3, <2>4, <2>5
  <2> QED BY <2>1, <2>3, <2>4, <2>5, <2>6, SeqSame
<1> QED BY <1>3, <1>4

LEMMA AtomForms ==
  ASSUME NEW np, NEW x, Sound(np, x), x.type \notin {"vector", "pair"}
  PROVE  AtomForm(x, atom2str(x))
<1>1. CASE x = NIL
  BY <1>1, Atom2str DEF AtomForm
<1>2. CASE x = Bool(TRUE)
  <2>1. x.type = "bool"
    BY <1>2 DEF Bool
  <2>2. atom2str(x) = <<"#">> \o <<"t">>
    BY <1>2, Atom2str, TwoJoined
  <2>3. mk_sharp_const(<<"t">>) = {x} /\ Lexical(<<"t">>) /\ SharpForm(<<"t">>)
    BY <1>2, SharpBool, SharpLexical DEF SharpForm
  <2> QED BY <2>1, <2>2, <2>3 DEF AtomForm
<1>3. CASE x = Bool(FALSE)
  <2>1. x.type = "bool"
    BY <1>3 DEF Bool
  <2>2. atom2str(x) = <<"#">> \o <<"f">>
    BY <1>3, Atom2str, TwoJoined
  <2>3. mk_sharp_const(<<"f">>) = {x} /\ Lexical(<<"f">>) /\ SharpForm(<<"f">>)
    BY <1>3, SharpBool, SharpLexical DEF SharpForm
  <2> QED BY <2>1, <2>2, <2>3 DEF AtomForm
<1>4. CASE x.type = "number" /\ x = Number(x.ivalue) /\ x.ivalue \in Int /\ Len(atom2str(x)) < STRBUFFSIZE
  <2>1. PICK w : w = atom2str(x)
    OBVIOUS
  <2>2. w = Decimal(x.ivalue)
    BY <1>4, <2>1, Atom2str
  <2>3. Signed(w) /\ mk_atom(w) = x
    BY <1>4, <2>2, DecimalReads
  <2>4. Lexical(w) /\ w[1] \notin Marks /\ w[1] # "." /\ w[1] # "@"
    BY <1>4, <2>1, <2>3, SignedLexical
  <2> QED BY <1>4, <2>1, <2>3, <2>4 DEF AtomForm
<1>5. CASE x.type = "symbol" /\ x = Symbol(x.name) /\ Atomic(x.name) /\ mk_atom(x.name) = x
  <2>1. PICK w : w = x.name
    OBVIOUS
  <2>2. w = atom2str(x)
    BY <1>5, <2>1, Atom2str
  <2>3. /\ Lexical(w) /\ w[1] \notin Marks
        /\ w[1] = "." => Len(w) >= 2 /\ w[2] \notin Delimiters \cup {EOF}
    BY <1>5, <2>1, AtomicLexical
  <2> QED BY <1>5, <2>1, <2>2, <2>3 DEF AtomForm
<1>6. CASE x.type = "string" /\ x = String(x.svalue) /\ IsText(x.svalue) /\ Len(x.svalue) < STRBUFFSIZE
  <2>1. atom2str(x) = printslashstring(x.svalue) /\ IsSeq(x.svalue)
    BY <1>6, Atom2str, TextSeq
  <2>2. PICK e : /\ Escapes(x.svalue, e) /\ IsSeq(e[Len(x.svalue)])
                 /\ printslashstring(x.svalue) = <<DOUBLEQUOTE>> \o (e[Len(x.svalue)] \o <<DOUBLEQUOTE>>)
    BY <2>1, StringForm
  <2> QED BY <1>6, <2>1, <2>2 DEF AtomForm
<1>7. CASE /\ x.type = "character" /\ x = Character(x.charvalue)
           /\ x.charvalue # EOF /\ NamedCharacter(x.charvalue) = {}
  <2>1. PICK c, d, u : c = x.charvalue /\ d = Spelling(c) /\ u = <<"\\", d>>
    OBVIOUS
  <2>2. mk_sharp_const(u) = {x} /\ d # EOF
    BY <1>7, <2>1, SharpCharacter
  <2>3. Lexical(u) /\ SharpForm(u)
    BY <2>1, <2>2, SharpLexical DEF SharpForm
  <2>4. atom2str(x) = <<"#", "\\", d>>
    BY <1>7, <2>1, Atom2str DEF Spelling
  <2>5. atom2str(x) = <<"#">> \o u
    BY <2>1, <2>4, TwoJoined
  <2> QED BY <1>7, <2>2, <2>3, <2>5 DEF AtomForm
<1> QED BY <1>1, <1>2, <1>3, <1>4, <1>5, <1>6, <1>7, SoundAtom

(* Without parentheses in the text there are none in a part.               *)
LEMMA PlainParts ==
  ASSUME NEW np, NEW x, Sound(np, x), x.type \notin {"nil", "vector", "pair"}, np,
         NEW c, NEW u, IsSeq(u), atom2str(x) = <<c>> \o u \/ atom2str(x) = u
  PROVE  NoParen(u)
<1>1. PICK w : w = atom2str(x)
  OBVIOUS
<1>2. Range(w) \cap {"(", ")"} = {}
  <2>1. Plain(x)
    BY SoundAt
  <2> QED BY <1>1, <2>1 DEF Plain
<1>3. IsSeq(w)
  BY <1>1, AtomSeq
<1>4. \A k \in 1 .. Len(w) : w[k] \notin {"(", ")"}
  <2>1. DOMAIN w = 1 .. Len(w)
    BY <1>3, SeqLen
  <2>2. ASSUME NEW k \in 1 .. Len(w)  PROVE w[k] \in Range(w)
    BY <2>1 DEF Range
  <2> QED BY <1>2, <2>2
<1>5. CASE w = u
  BY <1>4, <1>5 DEF NoParen
<1>6. CASE w = <<c>> \o u
  <2>1. Len(w) = Len(u) + 1 /\ Len(u) \in Nat /\ \A k \in 1 .. Len(u) : w[k + 1] = u[k]
    BY <1>6, Pushed
  <2>2. \A k \in 1 .. Len(u) : k + 1 \in 1 .. Len(w)
    BY <2>1
  <2> QED BY <1>4, <2>1, <2>2 DEF NoParen
<1> QED BY <1>1, <1>5, <1>6
---------------------------------------------------------------------------
(* The first character of a datum.                                         *)

FirstOf(T, j, x, w) ==
  /\ IsSeq(w) /\ Slice(T, j, w) /\ Len(w) >= 1 /\ j < Len(T)
  /\ w[1] = "@" => x.type = "symbol" /\ x.name[1] = "@"

LEMMA FirstIs ==
  ASSUME NEW T, IsSeq(T), NEW j \in Nat, NEW x, NEW w, IsSeq(w), Slice(T, j, w), Len(w) >= 1,
         w[1] = "@" => x.type = "symbol" /\ x.name[1] = "@"
  PROVE  FirstOf(T, j, x, w)
<1>1. j < Len(T)
  BY SliceOne
<1> QED BY <1>1 DEF FirstOf

LEMMA FirstOne ==
  ASSUME NEW T, IsSeq(T), NEW j \in Nat, NEW x, NEW c, NEW u, IsSeq(u), NEW w, w = <<c>> \o u,
         Slice(T, j, w), c # "@"
  PROVE  FirstOf(T, j, x, w)
<1>1. IsSeq(w) /\ Len(w) = Len(u) + 1 /\ Len(u) \in Nat /\ w[1] = c
  BY Pushed
<1>2. Len(w) >= 1
  BY <1>1
<1> QED BY <1>1, <1>2, FirstIs

LEMMA AtomFirst ==
  ASSUME NEW T, IsSeq(T), NEW j \in Nat, NEW x, NEW w, AtomForm(x, w), Slice(T, j, w)
  PROVE  FirstOf(T, j, x, w)
<1>1. CASE x = NIL /\ w = <<"(", ")">>
  <2>1. IsSeq(w) /\ Len(w) = 2 /\ w[1] = "("
    BY <1>1, SeqTwo
  <2>2. Len(w) >= 1 /\ w[1] # "@"
    BY <2>1
  <2> QED BY <2>1, <2>2, FirstIs
<1>2. CASE \E u : SharpForm(u) /\ w = <<"#">> \o u /\ Lexical(u) /\ mk_sharp_const(u) = {x}
  <2>1. PICK u : w = <<"#">> \o u /\ Lexical(u)
    BY <1>2
  <2>2. IsSeq(u) /\ "#" # "@"
    BY <2>1 DEF Lexical
  <2> QED BY <2>1, <2>2, FirstOne
<1>3. CASE /\ x.type \in {"number", "symbol"} /\ Lexical(w)
           /\ w[1] = "@" => x.type = "symbol" /\ w = x.name
  <2>1. IsSeq(w) /\ Len(w) \in Nat \ {0}
    BY <1>3, LexicalFirst
  <2>2. Len(w) >= 1
    BY <2>1
  <2>3. w[1] = "@" => x.type = "symbol" /\ x.name[1] = "@"
    BY <1>3
  <2> QED BY <2>1, <2>2, <2>3, FirstIs
<1>4. CASE \E e : /\ Escapes(x.svalue, e) /\ IsSeq(e[Len(x.svalue)])
                  /\ w = <<DOUBLEQUOTE>> \o (e[Len(x.svalue)] \o <<DOUBLEQUOTE>>)
  <2>1. PICK e, v : IsSeq(v) /\ v = e[Len(x.svalue)] /\ w = <<DOUBLEQUOTE>> \o (v \o <<DOUBLEQUOTE>>)
    BY <1>4
  <2>2. PICK u : u = v \o <<DOUBLEQUOTE>>
    OBVIOUS
  <2>3. IsSeq(u) /\ w = <<DOUBLEQUOTE>> \o u
    BY <2>1, <2>2, SeqOne, SeqConcat
  <2>4. DOUBLEQUOTE # "@"
    BY DEF DOUBLEQUOTE
  <2> QED BY <2>3, <2>4, FirstOne
<1> QED BY <1>1, <1>2, <1>3, <1>4 DEF AtomForm

LEMMA DatumFirst ==
  ASSUME NEW np, NEW X, NEW T, IsSeq(T), NEW j, NEW x, NEW p, NEW n,
         OnText(np, X, T, j, Place("P0LIST", x, p, n))
  PROVE  \E w : FirstOf(T, j, x, w)
<1>1. DatumText(np, X, T, j, x, p, n) /\ Sound(np, x) /\ j \in Nat
  BY FromDatum
<1>2. CASE Slice(T, j, <<"#", "(">>)
  <2>1. PICK w : w = <<"#", "(">>
    OBVIOUS
  <2>2. IsSeq(w) /\ Len(w) = 2 /\ w[1] = "#"
    BY <2>1, SeqTwo
  <2>3. Len(w) >= 1 /\ w[1] # "@" /\ Slice(T, j, w)
    BY <1>2, <2>1, <2>2
  <2>4. FirstOf(T, j, x, w)
    BY ONLY IsSeq(T), <1>1, <2>2, <2>3, FirstIs
  <2> QED BY <2>4
<1>3. CASE x.type \notin {"vector", "pair"} /\ Slice(T, j, atom2str(x))
  <2>1. AtomForm(x, atom2str(x))
    BY <1>1, <1>3, AtomForms
  <2> QED BY <1>1, <1>3, <2>1, AtomFirst
<1>4. ASSUME NEW c, Slice(T, j, <<c>>), c # "@"  PROVE \E w : FirstOf(T, j, x, w)
  <2>1. PICK w : w = <<c>>
    OBVIOUS
  <2>2. IsSeq(w) /\ Len(w) = 1 /\ w[1] = c
    BY <2>1, SeqOne
  <2>3. Len(w) >= 1 /\ w[1] # "@" /\ Slice(T, j, w)
    BY <1>4, <2>1, <2>2
  <2> QED BY <1>1, <2>2, <2>3, FirstIs
<1>5. CASE Abbreviated(x) /\ Slice(T, j, Prefix(x.car))
  <2>1. /\ x.car = QUOTE => Prefix(x.car) = <<"'">>
        /\ x.car = QQUOTE => Prefix(x.car) = <<BACKQUOTE>>
        /\ x.car = UNQUOTE => Prefix(x.car) = <<Comma>>
        /\ x.car = UNQUOTESP => Prefix(x.car) = <<Comma, "@">>
        /\ x.car \in {QUOTE, QQUOTE, UNQUOTE, UNQUOTESP}
    BY <1>5, PrefixSeq DEF Comma
  <2>2. "'" # "@" /\ BACKQUOTE # "@" /\ Comma # "@"
    BY DEF BACKQUOTE, Comma
  <2>3. Slice(T, j, <<Comma, "@">>) => Slice(T, j, <<Comma>>)
    BY <1>1, SliceTwo
  <2> QED BY <1>4, <1>5, <2>1, <2>2, <2>3
<1>6. CASE Slice(T, j, <<"(">>)
  <2>1. "(" # "@"
    OBVIOUS
  <2> QED BY <1>4, <1>6, <2>1
<1> QED BY <1>1, <1>2, <1>3, <1>5, <1>6 DEF DatumText

(* A comma that was printed for unquote is followed by no at.              *)
LEMMA NoAt ==
  ASSUME NEW np, NEW X, NEW T, NEW q, Cuts(q, T), NEW j, NEW x, NEW p, NEW n, j <= q.past_the_end,
         OnText(np, X, T, j, Place("P0LIST", x, p, n)),
         ~(x.type = "symbol" /\ x.name[1] = "@")
  PROVE  At(q, j) # "@"
<1>1. IsSeq(T) /\ j \in Nat
  BY FromDatum DEF Cuts
<1>2. PICK w : FirstOf(T, j, x, w)
  BY <1>1, DatumFirst
<1>3. IsSeq(w) /\ Slice(T, j, w) /\ Len(w) >= 1 /\ w[1] # "@"
  BY <1>2 DEF FirstOf
<1>4. At(q, j) = IF j < q.past_the_end THEN w[1] ELSE EOF
  BY <1>1, <1>3, CutFirst
<1> QED BY <1>3, <1>4 DEF EOF
---------------------------------------------------------------------------
(* The token that is taken where a datum begins.                           *)

LEMMA TakenHere ==
  ASSUME NEW np, NEW X, NEW T, NEW x, NEW p, NEW n, NEW q, NEW j, NEW t, NEW a,
         token(q, j) = [tok |-> t, at |-> a], a \in Nat, j <= a, a <= q.past_the_end,
         Opens(T, a) = Opens(T, j) + Ups(t),
         Begins(np, X, T, x, p, n, t, a) \/ (a = q.past_the_end /\ a < Len(T) /\ Broken(x, t))
  PROVE  Taken(np, X, T, x, p, n, q, j)
BY DEF Taken

(* A character that is no parenthesis opens none.                          *)
LEMMA UpsIs ==
  /\ Ups("LPAREN") = 1 /\ Ups("VEC") = 1
  /\ \A t : t \notin {"LPAREN", "VEC"} => Ups(t) = 0
BY DEF Ups

LEMMA TakenAtEnd ==
  ASSUME NEW np, NEW X, NEW T, NEW x, NEW p, NEW n, NEW q, Cuts(q, T), NEW j \in Nat,
         j = q.past_the_end, j < Len(T)
  PROVE  Taken(np, X, T, x, p, n, q, j)
<1>1. token(q, j) = [tok |-> EOF, at |-> j]
  BY CutBounds, TokenAtEnd
<1>2. Broken(x, EOF)
  BY DEF Broken
<1>3. Opens(T, j) = Opens(T, j) + Ups(EOF)
  <2>1. EOF \notin {"LPAREN", "VEC"}
    BY DEF EOF
  <2>2. Ups(EOF) = 0
    BY <2>1, UpsIs
  <2>3. PICK o \in Int : o = Opens(T, j)
    BY OpensInt
  <2> QED BY <2>2, <2>3
<1> QED BY <1>1, <1>2, <1>3, TakenHere

LEMMA TakenVector ==
  ASSUME NEW np, NEW X, NEW T, NEW x, NEW p, NEW n, NEW q, Cuts(q, T), NEW j \in Nat,
         j < q.past_the_end, x.type = "vector", Slice(T, j, <<"#", "(">>),
         OnText(np, X, T, j + 2, Place("PVECFROM", [vec |-> x.elements, from |-> 0], p, n))
  PROVE  Taken(np, X, T, x, p, n, q, j)
<1>1. PICK m \in Nat : m = q.past_the_end
  BY CutBounds
<1>2. /\ T[j + 1] = "#" /\ T[j + 2] = "(" /\ j + 2 <= Len(T)
      /\ j + 1 < m => token(q, j) = [tok |-> "VEC", at |-> j + 2]
      /\ ~(j + 1 < m) => token(q, j) = [tok |-> "SHARP_CONST", at |-> m]
  BY <1>1, TokenTwo
<1>3. Opens(T, j + 1) = Opens(T, j) /\ Opens(T, j + 2) = Opens(T, j) + 1 /\ Opens(T, j) \in Int
  <2>1. (j + 1) + 1 = j + 2 /\ j + 1 \in Nat
    OBVIOUS
  <2>2. "#" \notin {"(", ")"}
    OBVIOUS
  <2>3. Opens(T, j + 1) = Opens(T, j)
    BY <1>2, <2>2, OpensNext
  <2>4. Opens(T, (j + 1) + 1) = Opens(T, j + 1) + 1
    BY <1>2, <2>1, OpensNext
  <2> QED BY <2>1, <2>3, <2>4, OpensInt
<1>4. CASE j + 1 < m
  <2>1. Begins(np, X, T, x, p, n, "VEC", j + 2)
    BY DEF Begins, From
  <2>2. Opens(T, j + 2) = Opens(T, j) + Ups("VEC")
    BY <1>3, UpsIs
  <2>3. j + 2 \in Nat /\ j <= j + 2 /\ j + 2 <= q.past_the_end
    BY <1>1, <1>4
  <2> QED BY <1>2, <1>4, <2>1, <2>2, <2>3, TakenHere
<1>5. CASE ~(j + 1 < m)
  <2>1. m = j + 1 /\ m < Len(T)
    <3>1. m = j + 1
      BY <1>1, <1>5
    <3>2. Len(T) \in Nat
      BY CutBounds
    <3> QED BY <1>1, <1>2, <3>1, <3>2
  <2>2. Broken(x, "SHARP_CONST")
    BY DEF Broken
  <2>3. Opens(T, m) = Opens(T, j) + Ups("SHARP_CONST")
    <3>1. Ups("SHARP_CONST") = 0
      BY UpsIs
    <3> QED BY <1>3, <2>1, <3>1
  <2>4. m \in Nat /\ j <= m /\ m <= q.past_the_end /\ m = q.past_the_end
    BY <1>1, <2>1
  <2>5. token(q, j) = [tok |-> "SHARP_CONST", at |-> m]
    BY <1>2, <1>5
  <2> QED BY <2>1, <2>2, <2>3, <2>4, <2>5, TakenHere
<1> QED BY <1>4, <1>5

(* A list or the empty list.                                               *)
LEMMA TakenParen ==
  ASSUME NEW np, NEW X, NEW T, NEW x, NEW p, NEW n, NEW q, Cuts(q, T), NEW j \in Nat,
         j < q.past_the_end, Slice(T, j, <<"(">>), Begins(np, X, T, x, p, n, "LPAREN", j + 1)
  PROVE  Taken(np, X, T, x, p, n, q, j)
<1>1. PICK m \in Nat : m = q.past_the_end
  BY CutBounds
<1>2. T[j + 1] = "(" /\ j + 1 <= m /\ token(q, j) = [tok |-> "LPAREN", at |-> j + 1]
  BY <1>1, TokenOne
<1>3. Opens(T, j + 1) = Opens(T, j) + Ups("LPAREN")
  BY <1>2, UpsIs, OpensNext
<1>4. j + 1 \in Nat /\ j <= j + 1
  OBVIOUS
<1> QED BY <1>1, <1>2, <1>3, <1>4, TakenHere

(* What begins with one character that is no parenthesis.                  *)
LEMMA TakenOne ==
  ASSUME NEW np, NEW X, NEW T, NEW x, NEW p, NEW n, NEW q, Cuts(q, T), NEW j \in Nat,
         j < q.past_the_end, NEW c, Slice(T, j, <<c>>), c \notin {"(", ")"},
         NEW t, t \notin {"LPAREN", "VEC"},
         token(q, j) = [tok |-> t, at |-> j + 1], Begins(np, X, T, x, p, n, t, j + 1)
  PROVE  Taken(np, X, T, x, p, n, q, j)
<1>1. PICK m \in Nat : m = q.past_the_end
  BY CutBounds
<1>2. T[j + 1] = c
  BY SliceFirst
<1>3. Opens(T, j + 1) = Opens(T, j) + Ups(t)
  <2>1. Ups(t) = 0
    BY UpsIs
  <2>2. Opens(T, j + 1) = Opens(T, j) /\ Opens(T, j) \in Int
    BY <1>2, OpensNext, OpensInt
  <2> QED BY <2>1, <2>2
<1>4. j + 1 \in Nat /\ j <= j + 1 /\ j + 1 <= q.past_the_end
  BY <1>1
<1> QED BY <1>3, <1>4, TakenHere

LEMMA TakenAbbreviation ==
  ASSUME NEW np, NEW X, NEW T, NEW x, NEW p, NEW n, NEW q, Cuts(q, T), NEW j \in Nat,
         j < q.past_the_end, Sound(np, x), Abbreviated(x), Slice(T, j, Prefix(x.car)),
         OnText(np, X, T, j + Len(Prefix(x.car)), Place("P0LIST", x.cdr.car, p, n))
  PROVE  Taken(np, X, T, x, p, n, q, j)
<1>1. PICK m \in Nat : m = q.past_the_end
  BY CutBounds
<1>2. /\ x.car = QUOTE => Prefix(x.car) = <<"'">>
      /\ x.car = QQUOTE => Prefix(x.car) = <<BACKQUOTE>>
      /\ x.car = UNQUOTE => Prefix(x.car) = <<Comma>>
      /\ x.car = UNQUOTESP => Prefix(x.car) = <<Comma, "@">>
      /\ x.car \in {QUOTE, QQUOTE, UNQUOTE, UNQUOTESP} /\ x.type = "pair"
  BY PrefixSeq DEF Comma
<1>3. "'" \notin {"(", ")"} /\ BACKQUOTE \notin {"(", ")"} /\ Comma \notin {"(", ")"}
  BY DEF BACKQUOTE, Comma
<1>4. ASSUME NEW c, Prefix(x.car) = <<c>>, c \notin {"(", ")"},
             NEW t \in {"QUOTE", "BQUOTE", "COMMA"}, Abbreviates(t, x),
             token(q, j) = [tok |-> t, at |-> j + 1]
      PROVE  Taken(np, X, T, x, p, n, q, j)
  <2>1. Len(Prefix(x.car)) = 1
    BY <1>4, SeqOne
  <2>2. OnText(np, X, T, j + 1, Place("P0LIST", x.cdr.car, p, n))
    BY <2>1
  <2>3. Begins(np, X, T, x, p, n, t, j + 1)
    BY <1>4, <2>2 DEF Begins
  <2>4. t \notin {"LPAREN", "VEC"}
    BY <1>4
  <2> QED BY <1>4, <2>3, <2>4, TakenOne
<1>5. CASE x.car = QUOTE
  <2>1. Slice(T, j, <<"'">>) /\ Abbreviates("QUOTE", x)
    BY <1>2, <1>5 DEF Abbreviates
  <2>2. token(q, j) = [tok |-> "QUOTE", at |-> j + 1]
    BY <2>1, TokenOne
  <2> QED BY <1>2, <1>3, <1>4, <1>5, <2>1, <2>2
<1>6. CASE x.car = QQUOTE
  <2>1. Slice(T, j, <<BACKQUOTE>>) /\ Abbreviates("BQUOTE", x)
    BY <1>2, <1>6 DEF Abbreviates
  <2>2. token(q, j) = [tok |-> "BQUOTE", at |-> j + 1]
    BY <2>1, TokenOne
  <2> QED BY <1>2, <1>3, <1>4, <1>6, <2>1, <2>2
<1>7. CASE x.car = UNQUOTE
  <2>1. Slice(T, j, <<Comma>>) /\ Abbreviates("COMMA", x)
    BY <1>2, <1>7 DEF Abbreviates
  <2>2. Len(Prefix(x.car)) = 1
    BY <1>2, <1>7, SeqOne
  <2>3. OnText(np, X, T, j + 1, Place("P0LIST", x.cdr.car, p, n))
    BY <2>2
  <2>4. ~(x.cdr.car.type = "symbol" /\ x.cdr.car.name[1] = "@")
    <3>1. ~Misread(x)
      BY <1>2, SoundPair
    <3> QED BY <1>7, <3>1 DEF Misread
  <2>5. j + 1 <= q.past_the_end
    BY <1>1
  <2>6. At(q, j + 1) # "@"
    BY <2>3, <2>4, <2>5, NoAt
  <2>7. token(q, j) = [tok |-> "COMMA", at |-> j + 1]
    BY <2>1, <2>6, TokenOne
  <2> QED BY <1>2, <1>3, <1>4, <1>7, <2>1, <2>7
<1>8. CASE x.car = UNQUOTESP
  <2>1. Slice(T, j, <<Comma, "@">>) /\ Abbreviates("ATMARK", x) /\ Len(Prefix(x.car)) = 2
    BY <1>2, <1>8, SeqTwo DEF Abbreviates
  <2>2. /\ T[j + 1] = Comma /\ T[j + 2] = "@" /\ j + 2 <= Len(T)
        /\ j + 1 < m => token(q, j) = [tok |-> "ATMARK", at |-> j + 2]
        /\ ~(j + 1 < m) => token(q, j) = [tok |-> "COMMA", at |-> m]
    BY <1>1, <2>1, TokenTwo
  <2>3. Opens(T, j + 1) = Opens(T, j) /\ Opens(T, j + 2) = Opens(T, j) /\ Opens(T, j) \in Int
    <3>1. (j + 1) + 1 = j + 2 /\ j + 1 \in Nat /\ "@" \notin {"(", ")"}
      OBVIOUS
    <3>2. Opens(T, j + 1) = Opens(T, j)
      BY <1>3, <2>2, OpensNext
    <3>3. Opens(T, (j + 1) + 1) = Opens(T, j + 1)
      BY <2>2, <3>1, OpensNext
    <3> QED BY <3>1, <3>2, <3>3, OpensInt
  <2>4. Ups("ATMARK") = 0 /\ Ups("COMMA") = 0
    BY UpsIs
  <2>5. CASE j + 1 < m
    <3>1. OnText(np, X, T, j + 2, Place("P0LIST", x.cdr.car, p, n))
      BY <2>1
    <3>2. Begins(np, X, T, x, p, n, "ATMARK", j + 2)
      BY <2>1, <3>1 DEF Begins
    <3>3. j + 2 \in Nat /\ j <= j + 2 /\ j + 2 <= q.past_the_end
      BY <1>1, <2>5
    <3>4. Opens(T, j + 2) = Opens(T, j) + Ups("ATMARK")
      BY <2>3, <2>4
    <3> QED BY <2>2, <2>5, <3>2, <3>3, <3>4, TakenHere
  <2>6. CASE ~(j + 1 < m)
    <3>1. m = j + 1 /\ m < Len(T)
      <4>1. m = j + 1
        BY <1>1, <2>6
      <4>2. Len(T) \in Nat
        BY CutBounds
      <4> QED BY <1>1, <2>2, <4>1, <4>2
    <3>2. Broken(x, "COMMA")
      BY DEF Broken
    <3>3. Opens(T, m) = Opens(T, j) + Ups("COMMA")
      BY <2>3, <2>4, <3>1
    <3>4. m \in Nat /\ j <= m /\ m <= q.past_the_end /\ m = q.past_the_end
      BY <1>1, <3>1
    <3>5. token(q, j) = [tok |-> "COMMA", at |-> m]
      BY <2>2, <2>6
    <3> QED BY <3>1, <3>2, <3>3, <3>4, <3>5, TakenHere
  <2> QED BY <2>5, <2>6
<1> QED BY <1>2, <1>5, <1>6, <1>7, <1>8

LEMMA SharpFormIs ==
  ASSUME NEW u, SharpForm(u)
  PROVE  IsSeq(u) /\ Len(u) \in Nat \ {0} /\ u[1] \in {"t", "f", "\\"}
<1>1. ASSUME NEW c, u = <<c>>  PROVE IsSeq(u) /\ Len(u) \in Nat \ {0} /\ u[1] = c
  <2>1. IsSeq(u) /\ Len(u) = 1 /\ u[1] = c
    BY <1>1, SeqOne
  <2> QED BY <2>1
<1>2. ASSUME NEW d, u = <<"\\", d>>  PROVE IsSeq(u) /\ Len(u) \in Nat \ {0} /\ u[1] = "\\"
  <2>1. IsSeq(u) /\ Len(u) = 2 /\ u[1] = "\\"
    BY <1>2, SeqTwo
  <2> QED BY <2>1
<1> QED BY <1>1, <1>2 DEF SharpForm

LEMMA TakenSharp ==
  ASSUME NEW np, NEW X, NEW T, NEW x, NEW p, NEW n, NEW q, Cuts(q, T), NEW j \in Nat,
         j < q.past_the_end, x.type \in {"bool", "character"}, NEW u, SharpForm(u), Lexical(u),
         mk_sharp_const(u) = {x}, NEW w, w = <<"#">> \o u, Slice(T, j, w), np => NoParen(u),
         OnText(np, X, T, j + Len(w), Pop(p, n))
  PROVE  Taken(np, X, T, x, p, n, q, j)
<1>1. PICK m \in Nat : m = q.past_the_end
  BY CutBounds
<1>2. IsSeq(u) /\ Len(u) \in Nat \ {0} /\ u[1] \in {"t", "f", "\\"} /\ IsSeq(T)
  BY SharpFormIs DEF Cuts
<1>3. PICK v : v = <<"#">>
  OBVIOUS
<1>4. IsSeq(v) /\ Len(v) = 1 /\ w = v \o u
  BY <1>3, SeqOne
<1>5. Slice(T, j, v) /\ Slice(T, j + Len(v), u)
  BY <1>2, <1>4, SliceOfConcat
<1>6. Slice(T, j, <<"#">>) /\ Slice(T, j + 1, u) /\ j + Len(w) = (j + 1) + Len(u)
  <2>1. Len(w) = Len(u) + 1
    BY <1>2, Pushed
  <2> QED BY <1>2, <1>3, <1>4, <1>5, <2>1
<1>7. At(q, j + 1) \in {"t", "f", "\\", EOF}
  <2>1. j + 1 \in Nat /\ Len(u) >= 1
    BY <1>2
  <2>2. At(q, j + 1) = IF j + 1 < q.past_the_end THEN u[1] ELSE EOF
    BY <1>2, <1>6, <2>1, CutFirst
  <2> QED BY <1>2, <2>2
<1>8. token(q, j) = [tok |-> "SHARP_CONST", at |-> j + 1]
  BY <1>6, <1>7, TokenOne
<1>9. AtomRest(np, X, T, u, p, n, j + 1)
  BY <1>6 DEF AtomRest
<1>10. Begins(np, X, T, x, p, n, "SHARP_CONST", j + 1)
  BY <1>9 DEF Begins
<1>11. "#" \notin {"(", ")"} /\ "SHARP_CONST" \notin {"LPAREN", "VEC"}
  OBVIOUS
<1> QED BY <1>6, <1>8, <1>10, <1>11, TakenOne

LEMMA TakenString ==
  ASSUME NEW np, NEW X, NEW T, NEW x, NEW p, NEW n, NEW q, Cuts(q, T), NEW j \in Nat,
         j < q.past_the_end, x = String(x.svalue), IsText(x.svalue), Len(x.svalue) < STRBUFFSIZE,
         NEW e, Escapes(x.svalue, e), NEW v, v = e[Len(x.svalue)] \o <<DOUBLEQUOTE>>, IsSeq(v),
         NEW w, w = <<DOUBLEQUOTE>> \o v, Slice(T, j, w), np => NoParen(v),
         OnText(np, X, T, j + Len(w), Pop(p, n))
  PROVE  Taken(np, X, T, x, p, n, q, j)
<1>1. PICK u : u = <<DOUBLEQUOTE>>
  OBVIOUS
<1>2. IsSeq(u) /\ Len(u) = 1 /\ w = u \o v /\ IsSeq(T)
  BY <1>1, SeqOne DEF Cuts
<1>3. Slice(T, j, u) /\ Slice(T, j + Len(u), v)
  BY <1>2, SliceOfConcat
<1>4. Slice(T, j, <<DOUBLEQUOTE>>) /\ Slice(T, j + 1, v) /\ j + Len(w) = (j + 1) + Len(v)
  <2>1. Len(w) = Len(v) + 1 /\ Len(v) \in Nat
    BY Pushed
  <2>2. j + Len(w) = (j + 1) + Len(v)
    BY ONLY <2>1, j \in Nat
  <2>3. Slice(T, j + 1, v)
    BY ONLY <1>2, <1>3
  <2> QED BY <1>1, <1>3, <2>2, <2>3
<1>5. token(q, j) = [tok |-> "DQUOTE", at |-> j + 1]
  BY <1>4, TokenOne
<1>6. AtomRest(np, X, T, v, p, n, j + 1)
  BY <1>4 DEF AtomRest
<1>7. Begins(np, X, T, x, p, n, "DQUOTE", j + 1)
  BY <1>6 DEF Begins
<1>8. DOUBLEQUOTE \notin {"(", ")"} /\ "DQUOTE" \notin {"LPAREN", "VEC"}
  BY DEF DOUBLEQUOTE
<1> QED BY <1>4, <1>5, <1>7, <1>8, TakenOne

(* A part of a text in a text, its first two characters.                   *)
LEMMA SliceBegins ==
  ASSUME NEW T, NEW i \in Nat, NEW w, IsSeq(w), Slice(T, i, w), Len(w) >= 2, Len(T) \in Nat
  PROVE  Slice(T, i, <<w[1], w[2]>>)
<1>1. PICK u : u = <<w[1], w[2]>>
  OBVIOUS
<1>2. Len(u) = 2 /\ u[1] = w[1] /\ u[2] = w[2]
  BY <1>1, SeqTwo
<1>3. Len(w) \in Nat
  BY SeqLen
<1>4. i + Len(u) <= Len(T)
  BY <1>2, <1>3 DEF Slice
<1>5. 1 \in 1 .. Len(w) /\ 2 \in 1 .. Len(w) /\ \A k \in 1 .. 2 : k = 1 \/ k = 2
  BY <1>3
<1>6. T[i + 1] = w[1] /\ T[i + 2] = w[2]
  BY <1>5 DEF Slice
<1>7. \A k \in 1 .. Len(u) : T[i + k] = u[k]
  BY <1>2, <1>5, <1>6
<1> QED BY <1>1, <1>4, <1>7 DEF Slice

LEMMA TakenName ==
  ASSUME NEW np, NEW X, NEW T, NEW x, NEW p, NEW n, NEW q, Cuts(q, T), NEW j \in Nat,
         j < q.past_the_end, x.type \in {"number", "symbol"}, NEW w, Lexical(w), mk_atom(w) = x,
         w[1] \notin Marks, w[1] = "." => Len(w) >= 2 /\ w[2] \notin Delimiters \cup {EOF},
         Slice(T, j, w), np => NoParen(w),
         OnText(np, X, T, j + Len(w), Pop(p, n))
  PROVE  Taken(np, X, T, x, p, n, q, j)
<1>1. PICK m \in Nat : m = q.past_the_end
  BY CutBounds
<1>2. IsSeq(w) /\ Len(w) \in Nat \ {0} /\ w[1] \notin Delimiters
  BY LexicalFirst
<1>3. Begins(np, X, T, x, p, n, "ATOM", j)
  BY DEF Begins, AtomRest
<1>4. Opens(T, j) = Opens(T, j) + Ups("ATOM") /\ Opens(T, j) \in Int
  <2>1. Ups("ATOM") = 0
    BY UpsIs
  <2>2. PICK o \in Int : o = Opens(T, j)
    BY OpensInt
  <2> QED BY <2>1, <2>2
<1>5. At(q, j) = w[1] /\ (Len(w) >= 2 => At(q, j + 1) = IF j + 1 < m THEN w[2] ELSE EOF)
  <2>1. Len(w) >= 1
    BY <1>2
  <2>2. At(q, j) = IF j < q.past_the_end THEN w[1] ELSE EOF
    BY <1>2, <2>1, CutFirst
  <2>3. Len(w) >= 2 => At(q, j + 1) = IF j + 1 < q.past_the_end THEN w[2] ELSE EOF
    BY <1>2, CutFirst
  <2> QED BY <1>1, <2>2, <2>3
<1>6. CASE w[1] = "." => j + 1 < m
  <2>1. token(q, j) = [tok |-> "ATOM", at |-> j]
    BY <1>2, <1>5, <1>6, TokenAtom
  <2>2. j \in Nat /\ j <= j /\ j <= q.past_the_end
    BY <1>1
  <2> QED BY <1>3, <1>4, <2>1, <2>2, TakenHere
<1>7. CASE w[1] = "." /\ ~(j + 1 < m)
  <2>1. Len(w) >= 2 /\ Len(T) \in Nat
    BY <1>7, CutBounds
  <2>2. Slice(T, j, <<w[1], w[2]>>)
    BY <1>2, <2>1, SliceBegins
  <2>3. /\ j + 2 <= Len(T) /\ T[j + 1] = "."
        /\ token(q, j) = [tok |-> "DOT", at |-> m]
    BY <1>1, <1>7, <2>2, TokenTwo
  <2>4. m = j + 1 /\ m \in Nat /\ j <= m /\ m <= q.past_the_end /\ m = q.past_the_end /\ m < Len(T)
    BY <1>1, <1>7, <2>1, <2>3
  <2>5. Opens(T, m) = Opens(T, j) + Ups("DOT")
    <3>1. Ups("DOT") = 0 /\ "." \notin {"(", ")"}
      BY UpsIs
    <3>2. Opens(T, j + 1) = Opens(T, j)
      BY <2>3, <3>1, OpensNext
    <3> QED BY <1>4, <2>4, <3>1, <3>2
  <2>6. Broken(x, "DOT")
    BY DEF Broken
  <2> QED BY <2>3, <2>4, <2>5, <2>6, TakenHere
<1> QED BY <1>6, <1>7

LEMMA TakenAtom ==
  ASSUME NEW np, NEW X, NEW T, NEW x, NEW p, NEW n, NEW q, Cuts(q, T), NEW j \in Nat,
         j < q.past_the_end, Sound(np, x), x.type \notin {"vector", "pair"},
         Slice(T, j, atom2str(x)), OnText(np, X, T, j + Len(atom2str(x)), Pop(p, n))
  PROVE  Taken(np, X, T, x, p, n, q, j)
<1>1. PICK w : w = atom2str(x)
  OBVIOUS
<1>2. AtomForm(x, w) /\ Slice(T, j, w) /\ OnText(np, X, T, j + Len(w), Pop(p, n)) /\ IsSeq(T)
  BY <1>1, AtomForms DEF Cuts
<1>3. CASE x = NIL /\ w = <<"(", ")">>
  <2>1. Len(w) = 2
    BY <1>3, SeqTwo
  <2>2. Slice(T, j, <<"(">>) /\ Slice(T, j + 1, <<")">>)
    BY <1>2, <1>3, SliceTwo
  <2>3. OnText(np, X, T, (j + 1) + 1, Pop(p, n))
    <3>1. (j + 1) + 1 = j + Len(w)
      BY <2>1
    <3> QED BY <1>2, <3>1
  <2>4. Begins(np, X, T, x, p, n, "LPAREN", j + 1)
    BY <1>3, <2>2, <2>3 DEF Begins
  <2> QED BY <2>2, <2>4, TakenParen
<1>4. CASE /\ x.type \in {"bool", "character"}
           /\ \E u : SharpForm(u) /\ w = <<"#">> \o u /\ Lexical(u) /\ mk_sharp_const(u) = {x}
  <2>1. PICK u : SharpForm(u) /\ w = <<"#">> \o u /\ Lexical(u) /\ mk_sharp_const(u) = {x}
    BY <1>4
  <2>2. np => NoParen(u)
    BY <1>1, <1>4, <2>1, SharpFormIs, PlainParts
  <2> QED BY <1>2, <1>4, <2>1, <2>2, TakenSharp
<1>5. CASE /\ x.type \in {"number", "symbol"} /\ Lexical(w) /\ mk_atom(w) = x /\ w[1] \notin Marks
           /\ w[1] = "." => Len(w) >= 2 /\ w[2] \notin Delimiters \cup {EOF}
  <2>1. np => NoParen(w)
    BY <1>1, <1>5, PlainParts DEF Lexical
  <2> QED BY <1>2, <1>5, <2>1, TakenName
<1>6. CASE /\ x = String(x.svalue) /\ IsText(x.svalue) /\ Len(x.svalue) < STRBUFFSIZE
           /\ \E e : /\ Escapes(x.svalue, e) /\ IsSeq(e[Len(x.svalue)])
                     /\ w = <<DOUBLEQUOTE>> \o (e[Len(x.svalue)] \o <<DOUBLEQUOTE>>)
  <2>1. PICK e, s : /\ Escapes(x.svalue, e) /\ s = e[Len(x.svalue)] /\ IsSeq(s)
                    /\ w = <<DOUBLEQUOTE>> \o (s \o <<DOUBLEQUOTE>>)
    BY <1>6
  <2>2. PICK v : v = s \o <<DOUBLEQUOTE>>
    OBVIOUS
  <2>3. IsSeq(v) /\ w = <<DOUBLEQUOTE>> \o v /\ v = e[Len(x.svalue)] \o <<DOUBLEQUOTE>>
    BY <2>1, <2>2, SeqOne, SeqConcat
  <2>4. np => NoParen(v)
    <3>1. x.type \notin {"nil", "vector", "pair"}
      BY <1>6 DEF String
    <3> QED BY <1>1, <2>3, <3>1, PlainParts
  <2> QED BY <1>2, <1>6, <2>1, <2>3, <2>4, TakenString
<1> QED BY <1>2, <1>3, <1>4, <1>5, <1>6 DEF AtomForm

LEMMA TokenOfDatum ==
  ASSUME NEW np, NEW X, NEW T, NEW x, NEW p, NEW n, NEW q, Cuts(q, T), NEW j, j <= q.past_the_end,
         OnText(np, X, T, j, Place("P0LIST", x, p, n))
  PROVE  Taken(np, X, T, x, p, n, q, j)
<1>1. DatumText(np, X, T, j, x, p, n) /\ Sound(np, x) /\ j \in Nat /\ IsSeq(T)
  BY FromDatum DEF Cuts
<1>2. PICK m \in Nat : m = q.past_the_end
  BY CutBounds
<1>3. CASE j = m
  <2>1. PICK w : FirstOf(T, j, x, w)
    BY <1>1, DatumFirst
  <2>2. j < Len(T)
    BY <2>1 DEF FirstOf
  <2> QED BY <1>1, <1>2, <1>3, <2>2, TakenAtEnd
<1>4. CASE j # m
  <2>1. j < q.past_the_end
    BY <1>1, <1>2, <1>4
  <2>2. CASE x.type = "pair" /\ ~Abbreviated(x) /\ Slice(T, j, <<"(">>)
             /\ OnText(np, X, T, j + 1, Place("P0LIST", x.car, <<Frame("P1LIST", x.cdr)>> \o p, n))
    <3>1. Begins(np, X, T, x, p, n, "LPAREN", j + 1)
      BY <2>2 DEF Begins
    <3> QED BY <1>1, <2>1, <2>2, <3>1, TakenParen
  <2>3. CASE x.type = "vector" /\ Slice(T, j, <<"#", "(">>)
             /\ OnText(np, X, T, j + 2, Place("PVECFROM", [vec |-> x.elements, from |-> 0], p, n))
    BY <1>1, <2>1, <2>3, TakenVector
  <2>4. CASE x.type \notin {"vector", "pair"} /\ Slice(T, j, atom2str(x))
             /\ OnText(np, X, T, j + Len(atom2str(x)), Pop(p, n))
    BY <1>1, <2>1, <2>4, TakenAtom
  <2>5. CASE Abbreviated(x) /\ Slice(T, j, Prefix(x.car))
             /\ OnText(np, X, T, j + Len(Prefix(x.car)), Place("P0LIST", x.cdr.car, p, n))
    BY <1>1, <2>1, <2>5, TakenAbbreviation
  <2> QED BY <1>1, <2>2, <2>3, <2>4, <2>5 DEF DatumText
<1> QED BY <1>3, <1>4
---------------------------------------------------------------------------
(* The token that is taken in a list, in a vector and between two data.    *)

CutHere(T, q, j) ==
  /\ token(q, j) = [tok |-> EOF, at |-> q.past_the_end] /\ q.past_the_end < Len(T)
  /\ Opens(T, q.past_the_end) = Opens(T, j)

EndHere(np, X, T, p, n, q, j) ==
  /\ token(q, j) = [tok |-> "RPAREN", at |-> j + 1] /\ j + 1 <= q.past_the_end
  /\ OnText(np, X, T, j + 1, Pop(p, n)) /\ Opens(T, j + 1) = Opens(T, j) - 1

NextHere(np, X, T, x, p, n, q, j) ==
  /\ token(q, j) = token(q, j + 1) /\ j + 1 <= q.past_the_end /\ Opens(T, j + 1) = Opens(T, j)
  /\ Taken(np, X, T, x, p, n, q, j + 1)

DotHere(np, X, T, x, p, n, q, j) ==
  \E a : /\ token(q, j) = [tok |-> "DOT", at |-> a]
         /\ a \in Nat /\ a <= q.past_the_end /\ Opens(T, a) = Opens(T, j)
         /\ \/ a = q.past_the_end /\ a < Len(T)
            \/ a = j + 3 /\ Taken(np, X, T, x, p, n, q, a)

LEMMA CutIsHere ==
  ASSUME NEW T, NEW q, Cuts(q, T), NEW j \in Nat, j = q.past_the_end, j < Len(T)
  PROVE  CutHere(T, q, j)
BY CutBounds, TokenAtEnd DEF CutHere

LEMMA EndIsHere ==
  ASSUME NEW np, NEW X, NEW T, NEW p, NEW n, NEW q, Cuts(q, T), NEW j \in Nat, j <= q.past_the_end,
         Slice(T, j, <<")">>), OnText(np, X, T, j + 1, Pop(p, n))
  PROVE  CutHere(T, q, j) \/ EndHere(np, X, T, p, n, q, j)
<1>1. PICK m \in Nat : m = q.past_the_end
  BY CutBounds
<1>2. T[j + 1] = ")" /\ j + 1 <= Len(T) /\ Len(T) \in Nat
  BY SliceFirst, CutBounds
<1>3. CASE j = m
  <2>1. j < Len(T)
    BY <1>2
  <2> QED BY <1>1, <1>3, <2>1, CutIsHere
<1>4. CASE j # m
  <2>1. j < q.past_the_end
    BY <1>1, <1>4
  <2>2. token(q, j) = [tok |-> "RPAREN", at |-> j + 1] /\ j + 1 <= q.past_the_end
    BY <2>1, TokenOne
  <2>3. Opens(T, j + 1) = Opens(T, j) - 1
    BY <1>2, OpensNext
  <2> QED BY <2>2, <2>3 DEF EndHere
<1> QED BY <1>3, <1>4

(* A blank is skipped.                                                     *)
LEMMA TokenBlank ==
  ASSUME NEW T, NEW q, Cuts(q, T), NEW j \in Nat, j < q.past_the_end,
         NEW c \in {Blank, Newline}, Slice(T, j, <<c>>)
  PROVE  /\ token(q, j) = token(q, j + 1) /\ j + 1 <= q.past_the_end
         /\ Opens(T, j + 1) = Opens(T, j)
<1>1. PICK m \in Nat : m = q.past_the_end
  BY CutBounds
<1>2. At(q, j) = c /\ T[j + 1] = c /\ j + 1 <= q.past_the_end
  BY TokenOne
<1>3. At(q, j) \in Space
  BY <1>2, SpacesAre
<1>4. j \in 0 .. q.past_the_end /\ q.past_the_end \in Nat
  BY <1>1
<1>5. Start(q, j) = Start(q, j + 1)
  BY <1>3, <1>4, StartBlank
<1>6. c \notin {"(", ")"}
  BY DEF Blank, Newline
<1>7. Opens(T, j + 1) = Opens(T, j)
  BY <1>2, <1>6, OpensNext
<1> QED BY <1>2, <1>5, <1>7 DEF token

LEMMA NextIsHere ==
  ASSUME NEW np, NEW X, NEW T, NEW x, NEW p, NEW n, NEW q, Cuts(q, T), NEW j \in Nat, j <= q.past_the_end,
         Slice(T, j, <<Blank>>), OnText(np, X, T, j + 1, Place("P0LIST", x, p, n))
  PROVE  CutHere(T, q, j) \/ NextHere(np, X, T, x, p, n, q, j)
<1>1. PICK m \in Nat : m = q.past_the_end
  BY CutBounds
<1>2. j + 1 <= Len(T) /\ Len(T) \in Nat
  BY SliceFirst, CutBounds
<1>3. CASE j = m
  <2>1. j < Len(T)
    BY <1>2
  <2> QED BY <1>1, <1>3, <2>1, CutIsHere
<1>4. CASE j # m
  <2>1. j < q.past_the_end
    BY <1>1, <1>4
  <2>2. token(q, j) = token(q, j + 1) /\ j + 1 <= q.past_the_end /\ Opens(T, j + 1) = Opens(T, j)
    BY <2>1, TokenBlank
  <2>3. Taken(np, X, T, x, p, n, q, j + 1)
    BY <2>2, TokenOfDatum
  <2> QED BY <2>2, <2>3 DEF NextHere
<1> QED BY <1>3, <1>4

LEMMA DotIsHere ==
  ASSUME NEW np, NEW X, NEW T, NEW x, NEW p, NEW n, NEW q, Cuts(q, T), NEW j \in Nat, j <= q.past_the_end,
         Slice(T, j, <<Blank, ".", Blank>>), OnText(np, X, T, j + 3, Place("P0LIST", x, p, n))
  PROVE  CutHere(T, q, j) \/ DotHere(np, X, T, x, p, n, q, j)
<1>1. PICK m \in Nat : m = q.past_the_end
  BY CutBounds
<1>2. Slice(T, j, <<Blank>>) /\ Slice(T, j + 1, <<".", Blank>>) /\ Len(T) \in Nat /\ IsSeq(T)
  BY SliceThree, CutBounds DEF Cuts
<1>3. T[(j + 1) + 1] = "." /\ T[(j + 1) + 2] = Blank /\ (j + 1) + 2 <= Len(T)
  <2>1. j + 1 \in Nat
    OBVIOUS
  <2> QED BY <1>2, <2>1, SliceTwo
<1>4. CASE j = m
  <2>1. j < Len(T)
    BY <1>2, <1>3
  <2> QED BY <1>1, <1>4, <2>1, CutIsHere
<1>5. CASE j # m
  <2>1. j < q.past_the_end
    BY <1>1, <1>5
  <2>2. token(q, j) = token(q, j + 1) /\ j + 1 <= q.past_the_end /\ Opens(T, j + 1) = Opens(T, j)
    BY <1>2, <2>1, TokenBlank
  <2>3. CASE j + 1 = m
    <3>1. j + 1 < Len(T) /\ j + 1 = q.past_the_end
      BY <1>1, <1>2, <1>3, <2>3
    <3>2. CutHere(T, q, j + 1)
      BY <3>1, CutIsHere
    <3> QED BY <2>2, <3>1, <3>2 DEF CutHere
  <2>4. CASE j + 1 # m
    <3>1. j + 1 < q.past_the_end /\ (j + 1) + 1 = j + 2 /\ (j + 1) + 2 = j + 3 /\ (j + 2) + 1 = j + 3
      BY <1>1, <2>2, <2>4
    <3>2. /\ (j + 1) + 1 < q.past_the_end => token(q, j + 1) = [tok |-> "DOT", at |-> (j + 1) + 2]
          /\ ~((j + 1) + 1 < q.past_the_end) => token(q, j + 1) = [tok |-> "DOT", at |-> q.past_the_end]
      BY <1>2, <3>1, TokenTwo
    <3>3. Opens(T, j + 2) = Opens(T, j) /\ Opens(T, j + 3) = Opens(T, j)
      <4>1. "." \notin {"(", ")"} /\ Blank \notin {"(", ")"}
        BY DEF Blank
      <4>2. Opens(T, (j + 1) + 1) = Opens(T, j + 1)
        BY <1>3, <4>1, OpensNext
      <4>3. T[(j + 2) + 1] = Blank
        BY <1>3, <3>1
      <4>4. Opens(T, (j + 2) + 1) = Opens(T, j + 2)
        BY <4>1, <4>3, OpensNext
      <4> QED BY <2>2, <3>1, <4>2, <4>4
    <3>4. CASE j + 2 < m
      <4>1. token(q, j) = [tok |-> "DOT", at |-> j + 3] /\ j + 3 <= q.past_the_end /\ j + 3 \in Nat
        BY <1>1, <2>2, <3>1, <3>2, <3>4
      <4>2. Taken(np, X, T, x, p, n, q, j + 3)
        BY <4>1, TokenOfDatum
      <4> QED BY <3>3, <4>1, <4>2 DEF DotHere
    <3>5. CASE ~(j + 2 < m)
      <4>1. m = j + 2 /\ m < Len(T) /\ m <= q.past_the_end
        BY <1>1, <1>2, <1>3, <2>2, <2>4, <3>1, <3>5
      <4>2. token(q, j) = [tok |-> "DOT", at |-> m]
        BY <1>1, <2>2, <3>1, <3>2, <3>5
      <4>3. Opens(T, m) = Opens(T, j)
        BY <3>3, <4>1
      <4> QED BY <1>1, <4>1, <4>2, <4>3 DEF DotHere
    <3> QED BY <3>4, <3>5
  <2> QED BY <2>3, <2>4
<1> QED BY <1>4, <1>5

(* In a list, after a datum.                                               *)
LEMMA ListGoesOn ==
  ASSUME NEW np, NEW X, NEW T, NEW l, NEW p, NEW n, NEW q, Cuts(q, T), NEW j, j <= q.past_the_end,
         OnText(np, X, T, j, Place("P1LIST", l, p, n))
  PROVE  \/ CutHere(T, q, j)
         \/ l = NIL /\ EndHere(np, X, T, p, n, q, j)
         \/ l.type = "pair" /\ NextHere(np, X, T, l.car, <<Frame("P1LIST", l.cdr)>> \o p, n, q, j)
         \/ /\ l.type # "pair" /\ l # NIL
            /\ DotHere(np, X, T, l, <<Frame("P1LIST", NIL)>> \o p, n, q, j)
<1>1. ListText(np, X, T, j, l, p, n) /\ j \in Nat
  BY FromList
<1>2. CASE l = NIL /\ Slice(T, j, <<")">>) /\ OnText(np, X, T, j + 1, Pop(p, n))
  BY <1>1, <1>2, EndIsHere
<1>3. CASE l.type = "pair" /\ Slice(T, j, <<Blank>>)
           /\ OnText(np, X, T, j + 1, Place("P0LIST", l.car, <<Frame("P1LIST", l.cdr)>> \o p, n))
  BY <1>1, <1>3, NextIsHere
<1>4. CASE l.type # "pair" /\ l # NIL /\ Slice(T, j, <<Blank, ".", Blank>>)
           /\ OnText(np, X, T, j + 3, Place("P0LIST", l, <<Frame("P1LIST", NIL)>> \o p, n))
  BY <1>1, <1>4, DotIsHere
<1> QED BY <1>1, <1>2, <1>3, <1>4 DEF ListText

LEMMA VectorGoesOn ==
  ASSUME NEW np, NEW X, NEW T, NEW vec, NEW k, NEW p, NEW n, NEW q, Cuts(q, T), NEW j, j <= q.past_the_end,
         OnText(np, X, T, j, Place("PVECFROM", From(vec, k), p, n))
  PROVE  \/ CutHere(T, q, j)
         \/ k = Len(vec) /\ EndHere(np, X, T, p, n, q, j)
         \/ /\ k # Len(vec)
            /\ NextHere(np, X, T, vec[k + 1], <<Frame("PVECFROM", From(vec, k + 1))>> \o p, n, q, j)
<1>1. VectorText(np, X, T, j, vec, k, p, n) /\ j \in Nat
  BY FromVector
<1>2. CASE k = Len(vec) /\ Slice(T, j, <<")">>) /\ OnText(np, X, T, j + 1, Pop(p, n))
  BY <1>1, <1>2, EndIsHere
<1>3. CASE k # Len(vec) /\ Slice(T, j, <<Blank>>)
           /\ OnText(np, X, T, j + 1,
                     Place("P0LIST", vec[k + 1], <<Frame("PVECFROM", From(vec, k + 1))>> \o p, n))
  BY <1>1, <1>3, NextIsHere
<1> QED BY <1>1, <1>2, <1>3 DEF VectorText

(* Between two data.                                                       *)
After(np, X, T, n, j) ==
  OnText(np, X, T, j, Place("idle", NIL, << >>, n)) \/ OnText(np, X, T, j, Place("returned", NIL, << >>, n))

LEMMA IdleGoesOn ==
  ASSUME NEW np, NEW X, NEW T, NEW n, NEW q, Cuts(q, T), NEW j, j <= q.past_the_end,
         OnText(np, X, T, j, Place("idle", NIL, << >>, n))
  PROVE  n \in Nat /\ n < Len(X) /\ j \in Nat /\ Taken(np, X, T, X[n + 1], << >>, n + 1, q, j)
<1>1. n \in Nat /\ n < Len(X) /\ j \in Nat /\ OnText(np, X, T, j, Place("P0LIST", X[n + 1], << >>, n + 1))
  BY FromIdle
<1>2. Taken(np, X, T, X[n + 1], << >>, n + 1, q, j)
  BY <1>1, TokenOfDatum
<1> QED BY <1>1, <1>2

LEMMA TextGoesOn ==
  ASSUME NEW np, NEW X, NEW T, NEW n, NEW q, Cuts(q, T), NEW j, j <= q.past_the_end,
         q.past_the_end < Len(T) \/ np => Len(X) = 1, Len(X) \in Nat,
         After(np, X, T, n, j)
  PROVE  /\ n \in Nat /\ j \in Nat
         /\ \/ /\ token(q, j) = [tok |-> EOF, at |-> q.past_the_end]
               /\ j = q.past_the_end /\ q.past_the_end = Len(T) /\ n = Len(X)
            \/ \E i \in Nat : /\ j <= i /\ i <= q.past_the_end /\ token(q, j) = token(q, i) /\ n < Len(X)
                              /\ np => Opens(T, i) = Opens(T, j)
                              /\ Taken(np, X, T, X[n + 1], << >>, n + 1, q, i)
<1>1. PICK m \in Nat : m = q.past_the_end
  BY CutBounds
<1>2. CASE OnText(np, X, T, j, Place("idle", NIL, << >>, n))
  <2>1. n \in Nat /\ n < Len(X) /\ j \in Nat /\ Taken(np, X, T, X[n + 1], << >>, n + 1, q, j)
    BY <1>2, IdleGoesOn
  <2>2. j <= j
    BY <2>1
  <2> QED BY <2>1, <2>2
<1>3. CASE OnText(np, X, T, j, Place("returned", NIL, << >>, n))
  <2>1. /\ n \in Nat \ {0} /\ j \in Nat
        /\ \/ j = Len(T) /\ n = Len(X)
           \/ \E t \in Separators : /\ IsSeq(t) /\ Slice(T, j, t)
                                    /\ OnText(np, X, T, j + Len(t), Place("idle", NIL, << >>, n))
    BY <1>3, FromEnd
  <2>2. CASE j = Len(T) /\ n = Len(X)
    <3>1. j = q.past_the_end /\ q.past_the_end = Len(T)
      <4>1. m <= Len(T) /\ Len(T) \in Nat
        BY <1>1, CutBounds
      <4> QED BY <1>1, <2>2, <4>1
    <3>2. token(q, j) = [tok |-> EOF, at |-> q.past_the_end]
      BY <1>1, <3>1, TokenAtEnd
    <3> QED BY <2>1, <2>2, <3>1, <3>2
  <2>3. CASE \E t \in Separators : /\ IsSeq(t) /\ Slice(T, j, t)
                                   /\ OnText(np, X, T, j + Len(t), Place("idle", NIL, << >>, n))
    <3>1. PICK t, i : /\ t \in Separators /\ IsSeq(t) /\ Slice(T, j, t) /\ i = j + Len(t)
                      /\ OnText(np, X, T, i, Place("idle", NIL, << >>, n))
      BY <2>3
    <3>2. n < Len(X) /\ i \in Nat
      BY <3>1, FromIdle
    <3>3. ~np /\ m = Len(T)
      <4>1. Len(X) # 1
        <5>1. PICK l \in Nat : l = Len(X)
          OBVIOUS
        <5>2. n \in Nat \ {0} /\ n < l
          BY <2>1, <3>2, <5>1
        <5>3. l # 1
          BY ONLY <5>2
        <5> QED BY <5>1, <5>3
      <4>2. m <= Len(T) /\ Len(T) \in Nat
        BY <1>1, CutBounds
      <4> QED BY <1>1, <4>1, <4>2
    <3>4. i <= m /\ Len(t) \in Nat
      <4>1. IsSeq(T)
        BY DEF Cuts
      <4> QED BY <2>1, <3>1, <3>3, <4>1, SliceOne
    <3>5. Taken(np, X, T, X[n + 1], << >>, n + 1, q, i)
      BY <1>1, <3>1, <3>4, IdleGoesOn
    <3>6. token(q, j) = token(q, i)
      <4>1. CASE Len(t) = 1 /\ t[1] \in {Blank, Newline}
        <5>1. PICK c \in {Blank, Newline} : c = t[1]
          BY <4>1
        <5>2. Slice(T, j, <<c>>)
          <6>1. PICK u : u = <<c>>
            OBVIOUS
          <6>2. IsSeq(u) /\ Len(u) = 1 /\ u[1] = c
            BY <6>1, SeqOne
          <6>3. \A k \in 1 .. Len(u) : u[k] = t[k]
            BY <5>1, <6>2
          <6>4. u = t
            BY <3>1, <4>1, <6>2, <6>3, SeqSame
          <6> QED BY <3>1, <6>1, <6>4
        <5>3. i = j + 1 /\ j < q.past_the_end
          BY <1>1, <2>1, <3>1, <3>4, <4>1
        <5> QED BY <2>1, <5>2, <5>3, TokenBlank
      <4>2. CASE Len(t) = 3 /\ t[1] = Semicolon /\ t[2] = "(" /\ t[3] = Newline
        <5>1. i = j + 3 /\ j + 3 <= q.past_the_end /\ q.past_the_end \in Nat
          BY <1>1, <2>1, <3>1, <3>4, <4>2
        <5>2. /\ Len(t) >= 1 /\ Len(t) >= 2 /\ Len(t) >= 3
              /\ j < q.past_the_end /\ j + 1 < q.past_the_end /\ j + 2 < q.past_the_end
          BY <1>1, <2>1, <4>2, <5>1
        <5>3. At(q, j) = t[1] /\ At(q, j + 1) = t[2] /\ At(q, j + 2) = t[3]
          BY <2>1, <3>1, <5>2, CutFirst
        <5>4. Start(q, j) = Start(q, j + 3)
          BY <2>1, <4>2, <5>1, <5>3, StartComment
        <5> QED BY <5>1, <5>4 DEF token
      <4>3. \/ Len(t) = 1 /\ t[1] \in {Blank, Newline}
            \/ Len(t) = 3 /\ t[1] = Semicolon /\ t[2] = "(" /\ t[3] = Newline
        BY <3>1, SeparatorIs
      <4> QED BY <4>1, <4>2, <4>3
    <3>7. j <= i /\ i <= q.past_the_end
      BY <1>1, <2>1, <3>1, <3>4
    <3> QED BY <2>1, <3>2, <3>3, <3>5, <3>6, <3>7
  <2> QED BY <2>1, <2>2, <2>3
<1> QED BY <1>2, <1>3 DEF After
---------------------------------------------------------------------------
(* The list that is made of what was read, the last one first.             *)

Links(f, t, s) == f[0] = t /\ \A k \in 1 .. Len(s) : f[k] = Pair(s[k], f[k - 1])

LEMMA PairFields ==
  ASSUME NEW a, NEW d
  PROVE  /\ Pair(a, d).type = "pair" /\ Pair(a, d).car = a /\ Pair(a, d).cdr = d
         /\ NIL.type = "nil" /\ Pair(a, d) # NIL
         /\ Rest(Pair(a, d)) = d /\ Rest(NIL) = NIL
<1>1. Pair(a, d).type = "pair" /\ Pair(a, d).car = a /\ Pair(a, d).cdr = d /\ NIL.type = "nil"
  BY DEF Pair, NIL
<1> QED BY <1>1 DEF Rest

LinkedTo(f, t, s) ==
  /\ f = [k \in 0 .. Len(s) |-> f[k]]
  /\ \A k \in 0 .. Len(s) : f[k] = IF k = 0 THEN t ELSE Pair(s[k], f[k - 1])

LEMMA LinksExist ==
  ASSUME NEW t, NEW s, Len(s) \in Nat
  PROVE  \E f : LinkedTo(f, t, s)
<1> DEFINE Is(f, n) == /\ f = [k \in 0 .. n |-> f[k]]
                       /\ \A k \in 0 .. n : f[k] = IF k = 0 THEN t ELSE Pair(s[k], f[k - 1])
           S == {n \in 0 .. Len(s) : \E f : Is(f, n)}
<1>1. 0 \in S
  <2>1. PICK f : f = [k \in 0 .. 0 |-> t]
    OBVIOUS
  <2>2. f = [k \in 0 .. 0 |-> f[k]] /\ \A k \in 0 .. 0 : k = 0 /\ f[k] = t
    BY <2>1
  <2>3. Is(f, 0)
    BY <2>2
  <2> QED BY <2>3
<1>2. ASSUME NEW n \in 1 .. Len(s), n - 1 \in S  PROVE n \in S
  <2>1. PICK f : Is(f, n - 1)
    BY <1>2
  <2>2. PICK h : h = [k \in 0 .. n |-> IF k = n THEN Pair(s[n], f[n - 1]) ELSE f[k]]
    OBVIOUS
  <2>3. /\ h = [k \in 0 .. n |-> h[k]] /\ h[n] = Pair(s[n], f[n - 1])
        /\ \A k \in 0 .. n : k # n => h[k] = f[k]
    BY <2>2
  <2>4. ASSUME NEW k \in 0 .. n  PROVE h[k] = IF k = 0 THEN t ELSE Pair(s[k], h[k - 1])
    <3>1. CASE k = n
      <4>1. h[n - 1] = f[n - 1]
        BY <2>3
      <4> QED BY <2>3, <3>1, <4>1
    <3>2. CASE k # n
      <4>1. k \in 0 .. (n - 1) /\ (k # 0 => k - 1 \in 0 .. n /\ k - 1 # n)
        BY <3>2
      <4>2. f[k] = IF k = 0 THEN t ELSE Pair(s[k], f[k - 1])
        BY <2>1, <4>1
      <4> QED BY <2>3, <3>2, <4>1, <4>2
    <3> QED BY <3>1, <3>2
  <2>5. Is(h, n)
    BY ONLY <2>3, <2>4
  <2>6. n \in 0 .. Len(s)
    OBVIOUS
  <2> HIDE DEF Is
  <2> QED BY <2>5, <2>6
<1>3. \A n \in 0 .. Len(s) : n \in S
  <2> HIDE DEF S
  <2> QED BY <1>1, <1>2, UpTo
<1> QED BY <1>3 DEF LinkedTo

LEMMA ReversedIs ==
  ASSUME NEW t, NEW s, IsSeq(s)
  PROVE  \E f : Links(f, t, s) /\ reverse_in_place(t, s) = f[Len(s)]
<1> DEFINE Rec(f) == [k \in 0 .. Len(s) |-> IF k = 0 THEN t ELSE Pair(s[k], f[k - 1])]
<1>0. Len(s) \in Nat
  BY SeqLen
<1>1. PICK e : e = CHOOSE f : f = Rec(f)
  OBVIOUS
<1>2. e = Rec(e) /\ reverse_in_place(t, s) = e[Len(s)]
  <2>1. PICK f : LinkedTo(f, t, s)
    BY <1>0, LinksExist
  <2>2. f = Rec(f)
    BY <2>1 DEF LinkedTo
  <2>3. reverse_in_place(t, s) = e[Len(s)]
    BY <1>1 DEF reverse_in_place
  <2> HIDE DEF Rec
  <2> QED BY <1>1, <2>2, <2>3
<1>3. e[0] = t /\ \A k \in 1 .. Len(s) : e[k] = Pair(s[k], e[k - 1])
  <2>1. 0 \in 0 .. Len(s) /\ \A k \in 1 .. Len(s) : k \in 0 .. Len(s) /\ k # 0
    BY <1>0
  <2> QED BY <1>2, <2>1
<1> HIDE DEF Rec
<1> QED BY <1>2, <1>3 DEF Links

LEMMA ReversedNone ==
  ASSUME NEW t
  PROVE  reverse_in_place(t, << >>) = t
<1>1. PICK s : s = << >> /\ IsSeq(s) /\ Len(s) = 0
  BY SeqEmpty
<1>2. PICK f : Links(f, t, s) /\ reverse_in_place(t, s) = f[Len(s)]
  BY <1>1, ReversedIs
<1> QED BY <1>1, <1>2 DEF Links

(* What is in front of the others becomes the first pair of the tail.      *)
LEMMA ReversedPush ==
  ASSUME NEW t, NEW s, IsSeq(s), NEW x
  PROVE  reverse_in_place(t, <<x>> \o s) = reverse_in_place(Pair(x, t), s)
<1>1. PICK v : v = <<x>> \o s
  OBVIOUS
<1>2. /\ IsSeq(v) /\ Len(v) = Len(s) + 1 /\ Len(s) \in Nat /\ v[1] = x
      /\ \A k \in 1 .. Len(s) : v[k + 1] = s[k]
  BY <1>1, Pushed
<1>3. PICK f : Links(f, t, v) /\ reverse_in_place(t, v) = f[Len(v)]
  BY <1>2, ReversedIs
<1>4. PICK y : y = Pair(x, t)
  OBVIOUS
<1>5. PICK g : Links(g, y, s) /\ reverse_in_place(y, s) = g[Len(s)]
  BY ReversedIs
<1> DEFINE S == {k \in 0 .. Len(s) : f[k + 1] = g[k]}
<1>6. 0 \in S
  <2>1. f[1] = Pair(v[1], f[1 - 1]) /\ f[0] = t /\ g[0] = y
    BY <1>2, <1>3, <1>5 DEF Links
  <2> QED BY <1>2, <1>4, <2>1
<1>7. ASSUME NEW k \in 1 .. Len(s), k - 1 \in S  PROVE k \in S
  <2>1. k + 1 \in 1 .. Len(v) /\ (k + 1) - 1 = k /\ (k - 1) + 1 = k /\ k \in 0 .. Len(s)
    BY <1>2
  <2>2. f[k + 1] = Pair(v[k + 1], f[(k + 1) - 1]) /\ g[k] = Pair(s[k], g[k - 1])
    BY <1>3, <1>5, <2>1 DEF Links
  <2>3. f[k] = g[k - 1]
    BY <1>7, <2>1
  <2> QED BY <1>2, <2>1, <2>2, <2>3
<1>8. \A k \in 0 .. Len(s) : k \in S
  <2> HIDE DEF S
  <2> QED BY <1>2, <1>6, <1>7, UpTo
<1>9. f[Len(s) + 1] = g[Len(s)]
  BY <1>2, <1>8
<1> QED BY <1>1, <1>2, <1>3, <1>4, <1>5, <1>9

(* d has the elements of a vector from the last to the first.              *)
Backwards(vec, k, d) == IsSeq(d) /\ Len(d) = k /\ \A i \in 1 .. k : d[i] = vec[(k + 1) - i]

LEMMA BackwardsNone ==
  ASSUME NEW vec
  PROVE  Backwards(vec, 0, << >>)
BY SeqEmpty DEF Backwards

LEMMA BackwardsPush ==
  ASSUME NEW vec, NEW k \in Nat, NEW d, Backwards(vec, k, d)
  PROVE  Backwards(vec, k + 1, <<vec[k + 1]>> \o d)
<1>1. PICK v, x : v = <<x>> \o d /\ x = vec[k + 1]
  OBVIOUS
<1>2. IsSeq(d) /\ Len(d) = k /\ \A i \in 1 .. k : d[i] = vec[(k + 1) - i]
  BY DEF Backwards
<1>3. /\ IsSeq(v) /\ Len(v) = Len(d) + 1 /\ v[1] = x
      /\ \A i \in 1 .. Len(d) : v[i + 1] = d[i]
  <2>1. IsSeq(d)
    BY <1>2
  <2> QED BY ONLY <1>1, <2>1, Pushed
<1>4. ASSUME NEW i \in 1 .. k + 1  PROVE v[i] = vec[((k + 1) + 1) - i]
  <2>1. CASE i = 1
    <3>1. ((k + 1) + 1) - 1 = k + 1
      OBVIOUS
    <3> QED BY <1>1, <1>3, <2>1, <3>1
  <2>2. CASE i # 1
    <3>1. PICK z \in 1 .. k : i = z + 1
      <4>1. i - 1 \in 1 .. k /\ i = (i - 1) + 1
        BY <2>2
      <4> QED BY <4>1
    <3>2. ((k + 1) + 1) - i = (k + 1) - z
      BY <3>1
    <3>3. v[i] = d[z] /\ d[z] = vec[(k + 1) - z]
      BY <1>2, <1>3, <3>1
    <3> QED BY <3>2, <3>3
  <2> QED BY <2>1, <2>2
<1> QED BY <1>1, <1>2, <1>3, <1>4 DEF Backwards

(* vector makes of that list the vector that was written.                  *)
BehindOf(e, l) ==
  /\ e[0] = l
  /\ \A k \in 1 .. Len(port.start) : e[k] = Rest(e[k - 1])

RestsOf(e, l, N) ==
  /\ e = [k \in 0 .. N |-> e[k]]
  /\ \A k \in 0 .. N : e[k] = IF k = 0 THEN l ELSE Rest(e[k - 1])

LEMMA RestsExist ==
  ASSUME NEW l, NEW N \in Nat
  PROVE  \E e : RestsOf(e, l, N)
<1> DEFINE S == {n \in 0 .. N : \E f : RestsOf(f, l, n)}
<1>1. 0 \in S
  <2>1. PICK f : f = [k \in 0 .. 0 |-> l]
    OBVIOUS
  <2>2. f = [k \in 0 .. 0 |-> f[k]] /\ \A k \in 0 .. 0 : k = 0 /\ f[k] = l
    BY <2>1
  <2>3. RestsOf(f, l, 0)
    BY <2>2 DEF RestsOf
  <2> QED BY <2>3
<1>2. ASSUME NEW n \in 1 .. N, n - 1 \in S  PROVE n \in S
  <2>1. PICK f : RestsOf(f, l, n - 1)
    BY <1>2
  <2>2. PICK h : h = [k \in 0 .. n |-> IF k = n THEN Rest(f[n - 1]) ELSE f[k]]
    OBVIOUS
  <2>3. /\ h = [k \in 0 .. n |-> h[k]] /\ h[n] = Rest(f[n - 1])
        /\ \A k \in 0 .. n : k # n => h[k] = f[k]
    BY <2>2
  <2>4. ASSUME NEW k \in 0 .. n  PROVE h[k] = IF k = 0 THEN l ELSE Rest(h[k - 1])
    <3>1. CASE k = n
      <4>1. h[n - 1] = f[n - 1]
        BY <2>3
      <4> QED BY <2>3, <3>1, <4>1
    <3>2. CASE k # n
      <4>1. k \in 0 .. (n - 1) /\ (k # 0 => k - 1 \in 0 .. n /\ k - 1 # n)
        BY <3>2
      <4>2. f[k] = IF k = 0 THEN l ELSE Rest(f[k - 1])
        BY <2>1, <4>1 DEF RestsOf
      <4> QED BY <2>3, <3>2, <4>1, <4>2
    <3> QED BY <3>1, <3>2
  <2>5. RestsOf(h, l, n)
    BY ONLY <2>3, <2>4 DEF RestsOf
  <2>6. n \in 0 .. N
    OBVIOUS
  <2> QED BY <2>5, <2>6
<1>3. \A n \in 0 .. N : n \in S
  <2> HIDE DEF S
  <2> QED BY <1>1, <1>2, UpTo
<1> QED BY <1>3

LEMMA BehindIs ==
  ASSUME NEW l, IsSeq(port.start)
  PROVE  DOMAIN Behind(l) = 0 .. Len(port.start) /\ BehindOf(Behind(l), l)
<1> DEFINE Rec(f) == [k \in 0 .. Len(port.start) |-> IF k = 0 THEN l ELSE Rest(f[k - 1])]
<1>0. Len(port.start) \in Nat
  BY SeqLen
<1>1. Behind(l) = CHOOSE f : f = Rec(f)
  BY DEF Behind
<1>2. PICK f : RestsOf(f, l, Len(port.start))
  BY <1>0, RestsExist
<1>3. f = Rec(f)
  BY <1>2 DEF RestsOf
<1>4. PICK e : e = Behind(l)
  OBVIOUS
<1>5. e = Rec(e)
  <2> HIDE DEF Rec
  <2> QED BY <1>1, <1>3, <1>4
<1>6. DOMAIN e = 0 .. Len(port.start)
  BY <1>5
<1>7. e[0] = l /\ \A k \in 1 .. Len(port.start) : e[k] = Rest(e[k - 1])
  <2>1. 0 \in 0 .. Len(port.start) /\ \A k \in 1 .. Len(port.start) : k \in 0 .. Len(port.start) /\ k # 0
    BY <1>0
  <2> QED BY <1>5, <2>1
<1> HIDE DEF Rec
<1> QED BY <1>4, <1>6, <1>7 DEF BehindOf

LEMMA VectorIsRead ==
  ASSUME IsSeq(port.start), NEW vec, IsSeq(vec), Len(vec) <= Len(port.start),
         NEW d, Backwards(vec, Len(vec), d), NEW l, l = reverse_in_place(NIL, d)
  PROVE  is_list(l) /\ Members(l) = vec
<1>1. PICK N \in Nat, L \in Nat : N = Len(port.start) /\ L = Len(vec)
  BY SeqLen
<1>2. L <= N /\ IsSeq(d) /\ Len(d) = L /\ \A i \in 1 .. L : d[i] = vec[(L + 1) - i]
  BY <1>1 DEF Backwards
<1>3. PICK f : Links(f, NIL, d) /\ l = f[Len(d)]
  BY <1>2, ReversedIs
<1>4. f[0] = NIL /\ l = f[L] /\ \A k \in 1 .. L : f[k] = Pair(d[k], f[k - 1])
  BY <1>2, <1>3 DEF Links
<1>5. PICK e : e = Behind(l)
  OBVIOUS
<1>6. DOMAIN e = 0 .. N /\ e[0] = l /\ \A k \in 1 .. N : e[k] = Rest(e[k - 1])
  BY <1>1, <1>5, BehindIs DEF BehindOf
<1> DEFINE S == {k \in 0 .. N : (k <= L => e[k] = f[L - k]) /\ (k > L => e[k] = NIL)}
<1>7. 0 \in S
  <2>1. L - 0 = L
    OBVIOUS
  <2> QED BY <1>4, <1>6, <2>1
<1>8. ASSUME NEW k \in 1 .. N, k - 1 \in S  PROVE k \in S
  <2>1. e[k] = Rest(e[k - 1])
    BY <1>6
  <2>2. CASE k <= L
    <3>1. PICK z \in 1 .. L : z = L - (k - 1)
      <4>1. L - (k - 1) \in 1 .. L
        BY <2>2
      <4> QED BY <4>1
    <3>2. e[k - 1] = f[z]
      BY <1>8, <2>2, <3>1
    <3>3. f[z] = Pair(d[z], f[z - 1]) /\ z - 1 = L - k
      BY <1>4, <2>2, <3>1
    <3>4. e[k] = f[z - 1]
      BY <2>1, <3>2, <3>3, PairFields
    <3> QED BY <2>2, <3>3, <3>4
  <2>3. CASE k = L + 1
    <3>1. k - 1 <= L /\ L - (k - 1) = 0
      BY <2>3
    <3>2. e[k - 1] = NIL
      BY <1>4, <1>8, <3>1
    <3>3. e[k] = NIL
      BY <2>1, <3>2, PairFields
    <3> QED BY <2>3, <3>3
  <2>4. CASE k > L + 1
    <3>1. e[k - 1] = NIL
      BY <1>8, <2>4
    <3>2. e[k] = NIL
      BY <2>1, <3>1, PairFields
    <3> QED BY <2>4, <3>2
  <2> QED BY <2>2, <2>3, <2>4
<1>9. \A k \in 0 .. N : k \in S
  <2> HIDE DEF S
  <2> QED BY <1>7, <1>8, UpTo
<1>10. e[L] = NIL /\ e[N] = NIL
  <2>1. L \in 0 .. N /\ N \in 0 .. N /\ L - L = 0
    BY <1>2
  <2>2. e[L] = NIL
    BY <1>4, <1>9, <2>1
  <2>3. CASE N = L
    BY <2>2, <2>3
  <2>4. CASE N # L
    <3>1. N > L
      BY <1>2, <2>4
    <3> QED BY <1>9, <2>1, <2>2, <3>1
  <2> QED BY <2>3, <2>4
<1>11. ASSUME NEW k \in 0 .. (L - 1)  PROVE e[k] = Pair(vec[k + 1], f[(L - k) - 1])
  <2>1. PICK z \in 1 .. L : z = L - k
    <3>1. L - k \in 1 .. L
      OBVIOUS
    <3> QED BY <3>1
  <2>2. k \in 0 .. N /\ k <= L /\ (L + 1) - z = k + 1
    BY <1>2, <2>1
  <2>3. e[k] = f[z]
    BY <1>9, <2>1, <2>2
  <2>4. f[z] = Pair(d[z], f[z - 1]) /\ d[z] = vec[(L + 1) - z]
    BY <1>2, <1>4
  <2> QED BY <2>1, <2>2, <2>3, <2>4
<1>12. Min({n \in DOMAIN e : e[n] = NIL}) = L
  <2>1. PICK M : M = {n \in DOMAIN e : e[n] = NIL}
    OBVIOUS
  <2>2. M \subseteq Nat /\ L \in M
    BY <1>2, <1>6, <1>10, <2>1
  <2>3. \A k \in M : L <= k
    <3>1. ASSUME NEW k \in M, ~(L <= k)  PROVE FALSE
      <4>1. k \in 0 .. (L - 1) /\ e[k] = NIL
        BY <2>1, <2>2, <3>1
      <4>2. e[k] = Pair(vec[k + 1], f[(L - k) - 1])
        BY <4>1, <1>11
      <4> QED BY <4>1, <4>2, PairFields
    <3> QED BY <3>1
  <2>4. Min(M) = L
    BY <2>2, <2>3, MinOnly
  <2> QED BY <2>1, <2>4
<1>13. Members(l) = [k \in 1 .. L |-> e[k - 1].car]
  BY <1>5, <1>12 DEF Members
<1>14. PICK u : u = Members(l)
  OBVIOUS
<1>15. IsSeq(u) /\ Len(u) = L
  <2>1. DOMAIN u = 1 .. L /\ u = [k \in 1 .. L |-> u[k]]
    BY <1>13, <1>14
  <2> QED BY <2>1, FunctionIsSeq
<1>16. ASSUME NEW k \in 1 .. L  PROVE u[k] = vec[k]
  <2>1. PICK z \in 0 .. (L - 1) : k = z + 1 /\ z = k - 1
    <3>1. k - 1 \in 0 .. (L - 1) /\ k = (k - 1) + 1
      OBVIOUS
    <3> QED BY <3>1
  <2>2. u[k] = e[z].car
    BY <1>13, <1>14, <2>1
  <2>3. e[z] = Pair(vec[z + 1], f[(L - z) - 1])
    BY <1>11
  <2>4. e[z].car = vec[z + 1]
    BY <2>3, PairFields
  <2> QED BY <2>1, <2>2, <2>4
<1>17. u = vec
  BY <1>1, <1>15, <1>16, SeqSame
<1>18. is_list(l)
  BY <1>1, <1>5, <1>10 DEF is_list
<1> QED BY <1>14, <1>17, <1>18
---------------------------------------------------------------------------
(* The dump of the reader and the places the printer had still to go to:   *)
(* what is read next, and what the reader makes of it in the end.          *)

AbbreviationOps == {"RDQUOTE", "RDQQUOTE", "RDUNQUOTE", "RDUQTSP"}

Mark(o) == CASE o = "RDQUOTE" -> QUOTE [] o = "RDQQUOTE" -> QQUOTE
             [] o = "RDUNQUOTE" -> UNQUOTE [] o = "RDUQTSP" -> UNQUOTESP

(* The list has l after x, or x after its dot.                             *)
NestedInList(p, r, x, q, s, y) ==
  \E l, done : /\ IsSeq(done) /\ p = <<Frame("P1LIST", l)>> \o q /\ r = <<Frame("RDLIST", done)>> \o s
               /\ y = reverse_in_place(Pair(x, l), done)

NestedAfterDot(p, r, x, q, s, y) ==
  \E done : /\ IsSeq(done) /\ p = <<Frame("P1LIST", NIL)>> \o q /\ r = <<Frame("RDDOT", done)>> \o s
            /\ y = reverse_in_place(x, done)

(* There are no more elements in front of it than the text has characters. *)
NestedInVector(p, r, x, q, s, y, b) ==
  \E vec, k, done :
    /\ IsSeq(vec) /\ k \in 1 .. Len(vec) /\ k <= b /\ x = vec[k] /\ Backwards(vec, k - 1, done)
    /\ p = <<Frame("PVECFROM", From(vec, k))>> \o q
    /\ r = <<Frame("RDLIST", done)>> \o (<<Frame("RDVEC", << >>)>> \o s)
    /\ y = Vector(vec)

NestedInMark(p, r, x, q, s, y) ==
  \E o \in AbbreviationOps :
    q = p /\ r = <<Frame(o, << >>)>> \o s /\ y = Pair(Mark(o), Pair(x, NIL))

Nested(p, r, x, q, s, y, b) ==
  \/ NestedInList(p, r, x, q, s, y) \/ NestedAfterDot(p, r, x, q, s, y)
  \/ NestedInVector(p, r, x, q, s, y, b) \/ NestedInMark(p, r, x, q, s, y)

(* Of a list or a vector that is begun the rest is still to be printed.    *)
Unprinted(p) == IsSeq(p) /\ (p = << >> \/ Head(p).op \in {"P1LIST", "PVECFROM"})

LEMMA UnprintedPush ==
  ASSUME NEW p, IsSeq(p), NEW o \in {"P1LIST", "PVECFROM"}, NEW a
  PROVE  Unprinted(<<Frame(o, a)>> \o p)
<1>1. PICK f : f = Frame(o, a) /\ f.op = o
  BY PlaceFields
<1>2. IsSeq(<<f>> \o p) /\ Head(<<f>> \o p) = f
  BY Pushed
<1> QED BY <1>1, <1>2 DEF Unprinted

Matches(M, X0, b) ==
  \A g \in M : /\ g = <<g[1], g[2], g[3]>> /\ Unprinted(g[1]) /\ IsSeq(g[2])
               /\ \/ g[1] = << >> /\ g[2] = << >> /\ g[3] = X0
                  \/ \E q, s, y : <<q, s, y>> \in M /\ Nested(g[1], g[2], g[3], q, s, y, b)

(* With x the reader goes on to read X0.                                   *)
Match(X0, b, p, r, x) == \E M : <<p, r, x>> \in M /\ Matches(M, X0, b)

LEMMA MatchNone ==
  ASSUME NEW X0, NEW b
  PROVE  Match(X0, b, << >>, << >>, X0)
<1>1. PICK M : M = {<< << >>, << >>, X0 >>}
  OBVIOUS
<1>2. << << >>, << >>, X0 >> \in M /\ Matches(M, X0, b)
  BY <1>1, SeqEmpty DEF Matches, Unprinted
<1> QED BY <1>2 DEF Match

LEMMA MatchIs ==
  ASSUME NEW X0, NEW b, NEW p, NEW r, NEW x, Match(X0, b, p, r, x)
  PROVE  /\ IsSeq(p) /\ IsSeq(r) /\ Unprinted(p)
         /\ \/ p = << >> /\ r = << >> /\ x = X0
            \/ \E q, s, y : Match(X0, b, q, s, y) /\ Nested(p, r, x, q, s, y, b)
<1>1. PICK M : <<p, r, x>> \in M /\ Matches(M, X0, b)
  BY DEF Match
<1>2. PICK g : g = <<p, r, x>>
  OBVIOUS
<1>3. g \in M /\ g[1] = p /\ g[2] = r /\ g[3] = x
  BY <1>1, <1>2
<1>4. /\ IsSeq(p) /\ IsSeq(r) /\ Unprinted(p)
      /\ \/ p = << >> /\ r = << >> /\ x = X0
         \/ \E q, s, y : <<q, s, y>> \in M /\ Nested(p, r, x, q, s, y, b)
  BY <1>1, <1>3 DEF Matches, Unprinted
<1>5. \A q, s, y : <<q, s, y>> \in M => Match(X0, b, q, s, y)
  BY <1>1 DEF Match
<1> QED BY <1>4, <1>5

LEMMA MatchPush ==
  ASSUME NEW X0, NEW b, NEW q, NEW s, NEW y, Match(X0, b, q, s, y),
         NEW p, Unprinted(p), NEW r, IsSeq(r), NEW x, Nested(p, r, x, q, s, y, b)
  PROVE  Match(X0, b, p, r, x)
<1>1. PICK M : <<q, s, y>> \in M /\ Matches(M, X0, b)
  BY DEF Match
<1>2. PICK h, N : h = <<p, r, x>> /\ N = M \cup {h}
  OBVIOUS
<1>3. h = <<h[1], h[2], h[3]>> /\ h[1] = p /\ h[2] = r /\ h[3] = x
  BY <1>2
<1>4. ASSUME NEW g \in N
      PROVE  /\ g = <<g[1], g[2], g[3]>> /\ Unprinted(g[1]) /\ IsSeq(g[2])
             /\ \/ g[1] = << >> /\ g[2] = << >> /\ g[3] = X0
                \/ \E q1, s1, y1 : <<q1, s1, y1>> \in N /\ Nested(g[1], g[2], g[3], q1, s1, y1, b)
  <2>1. CASE g \in M
    <3>1. /\ g = <<g[1], g[2], g[3]>> /\ Unprinted(g[1]) /\ IsSeq(g[2])
          /\ \/ g[1] = << >> /\ g[2] = << >> /\ g[3] = X0
             \/ \E q1, s1, y1 : <<q1, s1, y1>> \in M /\ Nested(g[1], g[2], g[3], q1, s1, y1, b)
      BY <1>1, <2>1 DEF Matches
    <3>2. \A z : z \in M => z \in N
      BY <1>2
    <3> QED BY <3>1, <3>2
  <2>2. CASE g = h
    <3>1. <<q, s, y>> \in N
      BY <1>1, <1>2
    <3> QED BY <1>3, <2>2, <3>1
  <2> QED BY <1>2, <2>1, <2>2
<1>5. Matches(N, X0, b)
  BY <1>4 DEF Matches
<1>6. <<p, r, x>> \in N
  BY <1>2
<1> QED BY <1>5, <1>6 DEF Match

LEMMA NestedLater ==
  ASSUME NEW b \in Nat, NEW c \in Nat, b <= c,
         NEW p, NEW r, NEW x, NEW q, NEW s, NEW y, Nested(p, r, x, q, s, y, b)
  PROVE  Nested(p, r, x, q, s, y, c)
<1>1. CASE NestedInVector(p, r, x, q, s, y, b)
  <2>1. PICK vec, k, done :
          /\ IsSeq(vec) /\ k \in 1 .. Len(vec) /\ k <= b /\ x = vec[k] /\ Backwards(vec, k - 1, done)
          /\ p = <<Frame("PVECFROM", From(vec, k))>> \o q
          /\ r = <<Frame("RDLIST", done)>> \o (<<Frame("RDVEC", << >>)>> \o s)
          /\ y = Vector(vec)
    BY <1>1 DEF NestedInVector
  <2>2. Len(vec) \in Nat
    BY <2>1, SeqLen
  <2>3. k <= c
    <3>1. k \in Nat
      BY <2>1, <2>2
    <3> QED BY <2>1, <3>1
  <2>4. NestedInVector(p, r, x, q, s, y, c)
    BY <2>1, <2>3 DEF NestedInVector
  <2> QED BY <2>4 DEF Nested
<1> QED BY <1>1 DEF Nested

LEMMA MatchLater ==
  ASSUME NEW X0, NEW b \in Nat, NEW c \in Nat, b <= c, NEW p, NEW r, NEW x, Match(X0, b, p, r, x)
  PROVE  Match(X0, c, p, r, x)
<1>1. PICK M : <<p, r, x>> \in M /\ Matches(M, X0, b)
  BY DEF Match
<1>2. \A q1, r1, x1, q, s, y : Nested(q1, r1, x1, q, s, y, b) => Nested(q1, r1, x1, q, s, y, c)
  BY NestedLater
<1>3. Matches(M, X0, c)
  BY <1>1, <1>2 DEF Matches
<1> QED BY <1>1, <1>3 DEF Match

LEMMA PushList ==
  ASSUME NEW X0, NEW b, NEW q, NEW s, NEW y, Match(X0, b, q, s, y), NEW done, IsSeq(done),
         NEW x, NEW l, y = reverse_in_place(Pair(x, l), done)
  PROVE  Match(X0, b, <<Frame("P1LIST", l)>> \o q, <<Frame("RDLIST", done)>> \o s, x)
<1>1. PICK p, r : p = <<Frame("P1LIST", l)>> \o q /\ r = <<Frame("RDLIST", done)>> \o s
  OBVIOUS
<1>2. IsSeq(q) /\ IsSeq(s)
  BY MatchIs
<1>3. Unprinted(p) /\ IsSeq(r)
  BY <1>1, <1>2, UnprintedPush, Pushed
<1>4. Nested(p, r, x, q, s, y, b)
  BY <1>1 DEF Nested, NestedInList
<1> QED BY <1>1, <1>3, <1>4, MatchPush

LEMMA PushDot ==
  ASSUME NEW X0, NEW b, NEW q, NEW s, NEW y, Match(X0, b, q, s, y), NEW done, IsSeq(done),
         NEW x, y = reverse_in_place(x, done)
  PROVE  Match(X0, b, <<Frame("P1LIST", NIL)>> \o q, <<Frame("RDDOT", done)>> \o s, x)
<1>1. PICK p, r : p = <<Frame("P1LIST", NIL)>> \o q /\ r = <<Frame("RDDOT", done)>> \o s
  OBVIOUS
<1>2. IsSeq(q) /\ IsSeq(s)
  BY MatchIs
<1>3. Unprinted(p) /\ IsSeq(r)
  BY <1>1, <1>2, UnprintedPush, Pushed
<1>4. Nested(p, r, x, q, s, y, b)
  BY <1>1 DEF Nested, NestedAfterDot
<1> QED BY <1>1, <1>3, <1>4, MatchPush

LEMMA PushVector ==
  ASSUME NEW X0, NEW b, NEW q, NEW s, NEW vec, Match(X0, b, q, s, Vector(vec)), IsSeq(vec),
         NEW k \in 1 .. Len(vec), k <= b, NEW done, Backwards(vec, k - 1, done)
  PROVE  Match(X0, b, <<Frame("PVECFROM", From(vec, k))>> \o q,
               <<Frame("RDLIST", done)>> \o (<<Frame("RDVEC", << >>)>> \o s), vec[k])
<1>1. PICK p, r, u : /\ p = <<Frame("PVECFROM", From(vec, k))>> \o q
                     /\ u = <<Frame("RDVEC", << >>)>> \o s
                     /\ r = <<Frame("RDLIST", done)>> \o u
  OBVIOUS
<1>2. IsSeq(q) /\ IsSeq(s)
  BY MatchIs
<1>3. Unprinted(p) /\ IsSeq(u)
  BY <1>1, <1>2, UnprintedPush, Pushed
<1>4. IsSeq(r)
  BY <1>1, <1>3, Pushed
<1>5. NestedInVector(p, r, vec[k], q, s, Vector(vec), b)
  BY <1>1 DEF NestedInVector
<1>6. Nested(p, r, vec[k], q, s, Vector(vec), b)
  BY <1>5 DEF Nested
<1> QED BY <1>1, <1>3, <1>4, <1>6, MatchPush

LEMMA PushMark ==
  ASSUME NEW X0, NEW b, NEW q, NEW s, NEW o \in AbbreviationOps, NEW x,
         Match(X0, b, q, s, Pair(Mark(o), Pair(x, NIL)))
  PROVE  Match(X0, b, q, <<Frame(o, << >>)>> \o s, x)
<1>1. PICK r, y : r = <<Frame(o, << >>)>> \o s /\ y = Pair(Mark(o), Pair(x, NIL))
  OBVIOUS
<1>2. Match(X0, b, q, s, y)
  BY <1>1
<1>3. Unprinted(q) /\ IsSeq(s)
  BY <1>2, MatchIs
<1>4. IsSeq(r)
  BY <1>1, <1>3, Pushed
<1>5. Nested(q, r, x, q, s, y, b)
  BY <1>1 DEF Nested, NestedInMark
<1> QED BY <1>1, <1>2, <1>3, <1>4, <1>5, MatchPush

(* What is to be done with the value, by the frame that is taken.          *)
TakesList(X0, b, p, s, x, a) ==
  \E l, q : /\ IsSeq(a) /\ IsSeq(q) /\ p = <<Frame("P1LIST", l)>> \o q
            /\ Match(X0, b, q, s, reverse_in_place(Pair(x, l), a))

TakesVector(X0, b, p, s, x, a) ==
  \E vec, k, q, u :
    /\ IsSeq(vec) /\ k \in 1 .. Len(vec) /\ k <= b /\ x = vec[k] /\ Backwards(vec, k - 1, a)
    /\ IsSeq(q) /\ IsSeq(u) /\ p = <<Frame("PVECFROM", From(vec, k))>> \o q
    /\ s = <<Frame("RDVEC", << >>)>> \o u /\ Match(X0, b, q, u, Vector(vec))

TakesDot(X0, b, p, s, x, a) ==
  \E q : /\ IsSeq(a) /\ IsSeq(q) /\ p = <<Frame("P1LIST", NIL)>> \o q
         /\ Match(X0, b, q, s, reverse_in_place(x, a))

LEMMA FramesDiffer ==
  ASSUME NEW s, IsSeq(s), NEW u, IsSeq(u), NEW o, NEW a, NEW o2, NEW a2,
         <<Frame(o, a)>> \o s = <<Frame(o2, a2)>> \o u
  PROVE  o = o2 /\ a = a2 /\ s = u
<1>1. PICK f, g : f = Frame(o, a) /\ g = Frame(o2, a2)
  OBVIOUS
<1>2. <<f>> \o s = <<g>> \o u
  BY <1>1
<1>3. f = g /\ s = u
  BY ONLY <1>2, IsSeq(s), IsSeq(u), PushedOnce
<1>4. f.op = o /\ f.args = a /\ g.op = o2 /\ g.args = a2
  BY <1>1 DEF Frame
<1> QED BY <1>3, <1>4

LEMMA MatchTakes ==
  ASSUME NEW X0, NEW b, NEW p, NEW s, IsSeq(s), NEW o, NEW a, NEW x,
         Match(X0, b, p, <<Frame(o, a)>> \o s, x)
  PROVE  /\ IsSeq(p)
         /\ \/ o = "RDLIST" /\ TakesList(X0, b, p, s, x, a)
            \/ o = "RDLIST" /\ TakesVector(X0, b, p, s, x, a)
            \/ o = "RDDOT" /\ TakesDot(X0, b, p, s, x, a)
            \/ o \in AbbreviationOps /\ Match(X0, b, p, s, Pair(Mark(o), Pair(x, NIL)))
<1>1. PICK f, r : f = Frame(o, a) /\ r = <<f>> \o s
  OBVIOUS
<1>2. r # << >>
  BY <1>1, Pushed
<1>3. /\ IsSeq(p)
      /\ \E q, t, y : Match(X0, b, q, t, y) /\ Nested(p, r, x, q, t, y, b)
  BY <1>1, <1>2, MatchIs
<1>4. PICK q, t, y : Match(X0, b, q, t, y) /\ Nested(p, r, x, q, t, y, b)
  BY <1>3
<1>5. IsSeq(q) /\ IsSeq(t)
  BY <1>4, MatchIs
<1>6. CASE NestedInList(p, r, x, q, t, y)
  <2>1. PICK l, done : /\ IsSeq(done) /\ p = <<Frame("P1LIST", l)>> \o q /\ r = <<Frame("RDLIST", done)>> \o t
                       /\ y = reverse_in_place(Pair(x, l), done)
    BY <1>6 DEF NestedInList
  <2>2. o = "RDLIST" /\ a = done /\ s = t
    BY <1>1, <1>5, <2>1, FramesDiffer
  <2>3. TakesList(X0, b, p, s, x, a)
    BY <1>4, <1>5, <2>1, <2>2 DEF TakesList
  <2> QED BY <1>3, <2>2, <2>3
<1>7. CASE NestedAfterDot(p, r, x, q, t, y)
  <2>1. PICK done : /\ IsSeq(done) /\ p = <<Frame("P1LIST", NIL)>> \o q /\ r = <<Frame("RDDOT", done)>> \o t
                    /\ y = reverse_in_place(x, done)
    BY <1>7 DEF NestedAfterDot
  <2>2. o = "RDDOT" /\ a = done /\ s = t
    BY <1>1, <1>5, <2>1, FramesDiffer
  <2>3. TakesDot(X0, b, p, s, x, a)
    BY <1>4, <1>5, <2>1, <2>2 DEF TakesDot
  <2> QED BY <1>3, <2>2, <2>3
<1>8. CASE NestedInVector(p, r, x, q, t, y, b)
  <2>1. PICK vec, k, done :
          /\ IsSeq(vec) /\ k \in 1 .. Len(vec) /\ k <= b /\ x = vec[k] /\ Backwards(vec, k - 1, done)
          /\ p = <<Frame("PVECFROM", From(vec, k))>> \o q
          /\ r = <<Frame("RDLIST", done)>> \o (<<Frame("RDVEC", << >>)>> \o t)
          /\ y = Vector(vec)
    BY <1>8 DEF NestedInVector
  <2>2. PICK v, g : g = Frame("RDVEC", << >>) /\ v = <<g>> \o t
    OBVIOUS
  <2>3. IsSeq(v)
    BY <1>5, <2>2, Pushed
  <2>4. <<Frame(o, a)>> \o s = <<Frame("RDLIST", done)>> \o v
    BY <1>1, <2>1, <2>2
  <2>5. o = "RDLIST" /\ a = done /\ s = v
    BY <2>3, <2>4, FramesDiffer
  <2>6. TakesVector(X0, b, p, s, x, a)
    BY <1>4, <1>5, <2>1, <2>2, <2>5 DEF TakesVector
  <2> QED BY <1>3, <2>5, <2>6
<1>9. CASE NestedInMark(p, r, x, q, t, y)
  <2>1. PICK o2 \in AbbreviationOps :
          q = p /\ r = <<Frame(o2, << >>)>> \o t /\ y = Pair(Mark(o2), Pair(x, NIL))
    BY <1>9 DEF NestedInMark
  <2>2. o = o2 /\ s = t
    BY <1>1, <1>5, <2>1, FramesDiffer
  <2> QED BY <1>3, <1>4, <2>1, <2>2
<1> QED BY <1>4, <1>6, <1>7, <1>8, <1>9 DEF Nested
---------------------------------------------------------------------------
(* The text of a list, a vector or a string that is cut off: whatever the  *)
(* reader takes from its end, there is no way back to the datum.           *)

Dooms(D) ==
  \A g \in D :
    /\ g = <<g[1], g[2]>> /\ IsSeq(g[2])
    /\ \/ g[1] = "RDDOT"
       \/ /\ g[1] = "RDLIST"
          /\ g[2] = << >> \/ Head(g[2]).op = "RDVEC" \/ <<Head(g[2]).op, Tail(g[2])>> \in D
       \/ g[1] \in AbbreviationOps /\ g[2] # << >> /\ <<Head(g[2]).op, Tail(g[2])>> \in D

(* An opcode that never returns, with this dump, what would be a datum.    *)
Doomed(o, r) == \E D : <<o, r>> \in D /\ Dooms(D)

DoomedDump(r) == r # << >> /\ Doomed(Head(r).op, Tail(r))

LEMMA DoomedIs ==
  ASSUME NEW o, NEW r, Doomed(o, r)
  PROVE  /\ IsSeq(r)
         /\ \/ o = "RDDOT"
            \/ o = "RDLIST" /\ (r = << >> \/ Head(r).op = "RDVEC" \/ DoomedDump(r))
            \/ o \in AbbreviationOps /\ DoomedDump(r)
<1>1. PICK D : <<o, r>> \in D /\ Dooms(D)
  BY DEF Doomed
<1>2. PICK g : g = <<o, r>>
  OBVIOUS
<1>3. g \in D /\ g[1] = o /\ g[2] = r
  BY <1>1, <1>2
<1>4. /\ IsSeq(r)
      /\ \/ o = "RDDOT"
         \/ o = "RDLIST" /\ (r = << >> \/ Head(r).op = "RDVEC" \/ <<Head(r).op, Tail(r)>> \in D)
         \/ o \in AbbreviationOps /\ r # << >> /\ <<Head(r).op, Tail(r)>> \in D
  BY <1>1, <1>3 DEF Dooms
<1>5. <<Head(r).op, Tail(r)>> \in D => Doomed(Head(r).op, Tail(r))
  BY <1>1 DEF Doomed
<1>6. r = << >> \/ r # << >>
  OBVIOUS
<1> QED BY <1>4, <1>5, <1>6 DEF DoomedDump

LEMMA DoomedPush ==
  ASSUME NEW o, NEW r, IsSeq(r),
         \/ o = "RDDOT"
         \/ o = "RDLIST" /\ (r = << >> \/ Head(r).op = "RDVEC" \/ DoomedDump(r))
         \/ o \in AbbreviationOps /\ DoomedDump(r)
  PROVE  Doomed(o, r)
<1>1. CASE DoomedDump(r)
  <2>1. r # << >> /\ Doomed(Head(r).op, Tail(r))
    BY <1>1 DEF DoomedDump
  <2>2. PICK D : <<Head(r).op, Tail(r)>> \in D /\ Dooms(D)
    BY <2>1 DEF Doomed
  <2>3. PICK h, E : h = <<o, r>> /\ E = D \cup {h}
    OBVIOUS
  <2>4. h = <<h[1], h[2]>> /\ h[1] = o /\ h[2] = r
    BY <2>3
  <2>5. ASSUME NEW g \in E
        PROVE  /\ g = <<g[1], g[2]>> /\ IsSeq(g[2])
               /\ \/ g[1] = "RDDOT"
                  \/ /\ g[1] = "RDLIST"
                     /\ g[2] = << >> \/ Head(g[2]).op = "RDVEC" \/ <<Head(g[2]).op, Tail(g[2])>> \in E
                  \/ g[1] \in AbbreviationOps /\ g[2] # << >> /\ <<Head(g[2]).op, Tail(g[2])>> \in E
    <3>1. CASE g \in D
      BY <2>2, <2>3, <3>1 DEF Dooms
    <3>2. CASE g = h
      BY <2>1, <2>2, <2>3, <2>4, <3>2
    <3> QED BY <2>3, <3>1, <3>2
  <2>6. Dooms(E)
    BY <2>5 DEF Dooms
  <2>7. <<o, r>> \in E
    BY <2>3
  <2> QED BY <2>6, <2>7 DEF Doomed
<1>2. CASE o = "RDDOT" \/ (o = "RDLIST" /\ (r = << >> \/ Head(r).op = "RDVEC"))
  <2>1. PICK h, E : h = <<o, r>> /\ E = {h}
    OBVIOUS
  <2>2. h = <<h[1], h[2]>> /\ h[1] = o /\ h[2] = r
    BY <2>1
  <2>3. Dooms(E)
    BY <1>2, <2>1, <2>2 DEF Dooms
  <2>4. <<o, r>> \in E
    BY <2>1
  <2> QED BY <2>3, <2>4 DEF Doomed
<1> QED BY <1>1, <1>2

LEMMA MarksAre ==
  ASSUME NEW o \in AbbreviationOps
  PROVE  /\ Mark(o) \in {QUOTE, QQUOTE, UNQUOTE, UNQUOTESP}
         /\ o \notin {"RDLIST", "RDDOT", "RDVEC"} /\ o \in FrameOps
         /\ Mark("RDQUOTE") = QUOTE /\ Mark("RDQQUOTE") = QQUOTE
         /\ Mark("RDUNQUOTE") = UNQUOTE /\ Mark("RDUQTSP") = UNQUOTESP
BY DEF AbbreviationOps, Mark, FrameOps

LEMMA MarkedIs ==
  ASSUME NEW o \in AbbreviationOps, NEW x
  PROVE  ~Bracketed(Pair(Mark(o), Pair(x, NIL)))
<1>1. PICK a, d : a = Mark(o) /\ d = Pair(x, NIL)
  OBVIOUS
<1>2. a \in {QUOTE, QQUOTE, UNQUOTE, UNQUOTESP}
  BY <1>1, MarksAre
<1>3. d.type = "pair" /\ d.cdr = NIL
  BY <1>1, PairFields
<1>4. Pair(a, d).type = "pair" /\ Pair(a, d).car = a /\ Pair(a, d).cdr = d
  BY PairFields
<1>5. Abbreviated(Pair(a, d))
  BY <1>2, <1>3, <1>4 DEF Abbreviated, ok_abbrev
<1>6. ~Bracketed(Pair(a, d))
  BY <1>4, <1>5 DEF Bracketed
<1> QED BY <1>1, <1>6

LEMMA NestedDump ==
  ASSUME NEW b, NEW p, NEW r, NEW x, NEW q, NEW s, IsSeq(s), NEW y, Nested(p, r, x, q, s, y, b)
  PROVE  r # << >>
<1>1. \A f : <<f>> \o s # << >>
  BY Pushed
<1>2. ASSUME NEW f, NEW g  PROVE <<g>> \o (<<f>> \o s) # << >>
  <2>1. PICK v : v = <<f>> \o s
    OBVIOUS
  <2>2. IsSeq(v)
    BY <2>1, Pushed
  <2> QED BY <2>1, <2>2, Pushed
<1> QED BY <1>1, <1>2 DEF Nested, NestedInList, NestedAfterDot, NestedInVector, NestedInMark

LEMMA MatchDoomed ==
  ASSUME NEW X0, NEW b, NEW p, NEW r, NEW x, Match(X0, b, p, r, x), Bracketed(X0)
  PROVE  \/ p = << >> /\ r = << >> /\ x = X0
         \/ DoomedDump(r)
<1>1. PICK M : <<p, r, x>> \in M /\ Matches(M, X0, b)
  BY DEF Match
<1>2. PICK D : D = {<<Head(g[2]).op, Tail(g[2])>> : g \in {h \in M : h[2] # << >>}}
  OBVIOUS
<1>3. \A g \in M : g[2] # << >> => <<Head(g[2]).op, Tail(g[2])>> \in D
  BY <1>2
<1>4. ASSUME NEW q, NEW s, NEW y, <<q, s, y>> \in M, s # << >>
      PROVE  <<Head(s).op, Tail(s)>> \in D
  <2>1. PICK g : g = <<q, s, y>>
    OBVIOUS
  <2>2. g \in M /\ g[2] = s
    BY <1>4, <2>1
  <2> QED BY <1>3, <1>4, <2>2
<1>5. ASSUME NEW q, NEW s, NEW y, <<q, s, y>> \in M
      PROVE  /\ IsSeq(q) /\ IsSeq(s)
             /\ \/ q = << >> /\ s = << >> /\ y = X0
                \/ \E q2, s2, y2 : <<q2, s2, y2>> \in M /\ Nested(q, s, y, q2, s2, y2, b)
  <2>1. PICK g : g = <<q, s, y>>
    OBVIOUS
  <2>2. g \in M /\ g[1] = q /\ g[2] = s /\ g[3] = y
    BY <1>5, <2>1
  <2> QED BY <1>1, <2>2 DEF Matches, Unprinted
<1>6. ASSUME NEW q, NEW s, NEW y, <<q, s, y>> \in M, s # << >>, NEW o, o = Head(s).op, NEW t, t = Tail(s)
      PROVE  /\ IsSeq(t)
             /\ \/ o = "RDDOT"
                \/ o = "RDLIST" /\ (t = << >> \/ Head(t).op = "RDVEC" \/ <<Head(t).op, Tail(t)>> \in D)
                \/ o \in AbbreviationOps /\ t # << >> /\ <<Head(t).op, Tail(t)>> \in D
  <2>1. PICK q2, s2, y2 : <<q2, s2, y2>> \in M /\ Nested(q, s, y, q2, s2, y2, b)
    BY <1>5, <1>6
  <2>2. IsSeq(s2) /\ (s2 # << >> => <<Head(s2).op, Tail(s2)>> \in D)
    BY <1>4, <1>5, <2>1
  <2>3. ASSUME NEW o2, NEW a2, NEW u, IsSeq(u), s = <<Frame(o2, a2)>> \o u
        PROVE  o = o2 /\ t = u
    <3>1. PICK f : f = Frame(o2, a2)
      OBVIOUS
    <3>2. s = <<f>> \o u
      BY <2>3, <3>1
    <3>3. Head(s) = f /\ Tail(s) = u
      BY ONLY <2>3, <3>2, Pushed
    <3>4. f.op = o2
      BY <3>1, PlaceFields
    <3> QED BY <1>6, <3>3, <3>4
  <2>4. CASE NestedInList(q, s, y, q2, s2, y2)
    <3>1. o = "RDLIST" /\ t = s2
      BY <2>2, <2>3, <2>4 DEF NestedInList
    <3> QED BY <2>2, <3>1
  <2>5. CASE NestedAfterDot(q, s, y, q2, s2, y2)
    <3>1. o = "RDDOT" /\ t = s2
      BY <2>2, <2>3, <2>5 DEF NestedAfterDot
    <3> QED BY <2>2, <3>1
  <2>6. CASE NestedInVector(q, s, y, q2, s2, y2, b)
    <3>1. PICK f, v, done : /\ f = Frame("RDVEC", << >>) /\ v = <<f>> \o s2
                            /\ s = <<Frame("RDLIST", done)>> \o v
      BY <2>6 DEF NestedInVector
    <3>2. IsSeq(v) /\ Head(v) = f
      BY <2>2, <3>1, Pushed
    <3>3. f.op = "RDVEC"
      BY <3>1, PlaceFields
    <3>4. o = "RDLIST" /\ t = v
      BY <2>3, <3>1, <3>2
    <3> QED BY <3>2, <3>3, <3>4
  <2>7. CASE NestedInMark(q, s, y, q2, s2, y2)
    <3>1. PICK o2 \in AbbreviationOps : s = <<Frame(o2, << >>)>> \o s2 /\ y2 = Pair(Mark(o2), Pair(y, NIL))
      BY <2>7 DEF NestedInMark
    <3>2. o = o2 /\ t = s2
      BY <2>2, <2>3, <3>1
    <3>3. y2 # X0
      <4>1. ~Bracketed(y2)
        BY <3>1, MarkedIs
      <4> QED BY <4>1
    <3>4. PICK q3, s3, y3 : <<q3, s3, y3>> \in M /\ Nested(q2, s2, y2, q3, s3, y3, b)
      BY <1>5, <2>1, <3>3
    <3>5. IsSeq(s3)
      BY <1>5, <3>4
    <3>6. s2 # << >>
      BY <3>4, <3>5, NestedDump
    <3> QED BY <2>2, <3>1, <3>2, <3>6
  <2> QED BY <2>1, <2>4, <2>5, <2>6, <2>7 DEF Nested
<1>7. ASSUME NEW z \in D
      PROVE  /\ z = <<z[1], z[2]>> /\ IsSeq(z[2])
             /\ \/ z[1] = "RDDOT"
                \/ /\ z[1] = "RDLIST"
                   /\ z[2] = << >> \/ Head(z[2]).op = "RDVEC" \/ <<Head(z[2]).op, Tail(z[2])>> \in D
                \/ z[1] \in AbbreviationOps /\ z[2] # << >> /\ <<Head(z[2]).op, Tail(z[2])>> \in D
  <2>1. PICK g \in M : g[2] # << >> /\ z = <<Head(g[2]).op, Tail(g[2])>>
    BY <1>2
  <2>2. PICK q, s, y : q = g[1] /\ s = g[2] /\ y = g[3]
    OBVIOUS
  <2>3. <<q, s, y>> \in M
    <3>1. g = <<g[1], g[2], g[3]>>
      BY <1>1 DEF Matches
    <3> QED BY <2>2, <3>1
  <2>4. PICK o, t : o = Head(s).op /\ t = Tail(s)
    OBVIOUS
  <2>5. z[1] = o /\ z[2] = t /\ z = <<z[1], z[2]>>
    BY <2>1, <2>2, <2>4
  <2>6. s # << >>
    BY <2>1, <2>2
  <2>7. /\ IsSeq(t)
        /\ \/ o = "RDDOT"
           \/ o = "RDLIST" /\ (t = << >> \/ Head(t).op = "RDVEC" \/ <<Head(t).op, Tail(t)>> \in D)
           \/ o \in AbbreviationOps /\ t # << >> /\ <<Head(t).op, Tail(t)>> \in D
    BY <1>6, <2>3, <2>4, <2>6
  <2> QED BY <2>5, <2>7
<1>8. Dooms(D)
  BY <1>7 DEF Dooms
<1>9. CASE r # << >>
  <2>1. <<Head(r).op, Tail(r)>> \in D
    BY <1>1, <1>4, <1>9
  <2> QED BY <1>8, <1>9, <2>1 DEF DoomedDump, Doomed
<1>10. CASE r = << >>
  <2>1. CASE p = << >> /\ x = X0
    BY <1>10, <2>1
  <2>2. CASE ~(p = << >> /\ x = X0)
    <3>1. PICK q3, s3, y3 : <<q3, s3, y3>> \in M /\ Nested(p, r, x, q3, s3, y3, b)
      BY <1>1, <1>5, <2>2
    <3>2. IsSeq(s3)
      BY <1>5, <3>1
    <3>3. r # << >>
      BY <3>1, <3>2, NestedDump
    <3> QED BY <1>10, <3>3
  <2> QED BY <2>1, <2>2
<1> QED BY <1>9, <1>10
---------------------------------------------------------------------------
(* Where the reader is in the text of the data.                            *)

TextThere(np, X, T) ==
  /\ Cuts(port, T)
  /\ Len(X) \in Nat /\ \A k \in 1 .. Len(X) : Sound(np, X[k])
  /\ port.past_the_end < Len(T) \/ np => Len(X) = 1

GotSome(X) ==
  IsSeq(got) /\ Len(got) <= Len(X) /\ \A k \in 1 .. Len(got) : got[k] = X[k]

Counted(np, T, begun) == np => nesting + begun = Opens(T, port.curr)

(* Where the printer was when the datum had been printed, or behind the    *)
(* newline that follows it.                                                *)
Onward(np, X, T, p, n, j) ==
  OnText(np, X, T, j, Pop(p, n)) \/ (p = << >> /\ After(np, X, T, n, j))

Between(np, X, T) ==
  /\ op \in {"idle", "READ_INTERNAL"} /\ dump = << >>
  /\ After(np, X, T, Len(got), port.curr) /\ Counted(np, T, 0)

Returned(np, X, T) ==
  /\ op = "returned" /\ Len(got) < Len(X) /\ value = X[Len(got) + 1]
  /\ After(np, X, T, Len(got) + 1, port.curr) /\ Counted(np, T, 0)

Finished(np, X, T) ==
  /\ op \in {"returned", "end"} /\ value = EOF_OBJ
  /\ Len(got) = Len(X) /\ port.past_the_end = Len(T) /\ Counted(np, T, 0)

Inside(np, X, T) ==
  /\ op = "RDSEXPR" /\ Len(got) < Len(X) /\ Counted(np, T, Ups(tok))
  /\ \E x, p : /\ Sound(np, x) /\ Begins(np, X, T, x, p, Len(got) + 1, tok, port.curr)
               /\ Match(X[Len(got) + 1], port.curr, p, dump, x)

ValueOps == {"RDLIST", "RDDOT"} \cup AbbreviationOps

Delivered(np, X, T) ==
  /\ op \in ValueOps /\ Len(got) < Len(X) /\ Counted(np, T, 0) /\ IsSeq(dump)
  /\ \E p : /\ Onward(np, X, T, p, Len(got) + 1, port.curr)
            /\ Match(X[Len(got) + 1], port.curr, p, <<Frame(op, args)>> \o dump, value)

VectorRead(np, X, T) ==
  /\ op = "RDVEC" /\ Len(got) < Len(X) /\ Counted(np, T, 0)
  /\ \E p, vec, d :
       /\ Onward(np, X, T, p, Len(got) + 1, port.curr)
       /\ IsSeq(vec) /\ Len(vec) <= port.curr
       /\ Backwards(vec, Len(vec), d) /\ value = reverse_in_place(NIL, d)
       /\ Match(X[Len(got) + 1], port.curr, p, dump, Vector(vec))

(* At the end of a text that is cut off.                                   *)
LostTokens == {EOF, "SHARP_CONST", "DOT", "COMMA"}

Hopeless ==
  \/ op = "error"
  \/ op \in {"returned", "end", "RDVEC"} /\ value = EOF_OBJ
  \/ op \in ValueOps /\ Doomed(op, dump)
  \/ op = "RDSEXPR" /\ (DoomedDump(dump) \/ (dump = << >> /\ tok # "COMMA"))

Lost(np, X, T) ==
  /\ port.past_the_end < Len(T)
  /\ op # "error" => port.curr = port.past_the_end /\ Counted(np, T, 0)
  /\ op = "RDSEXPR" => tok \in LostTokens
  /\ Bracketed(X[1]) => got = << >> /\ Hopeless

Tracks(np, X, T) ==
  /\ TextThere(np, X, T)
  /\ \/ /\ GotSome(X)
        /\ \/ Between(np, X, T) \/ Returned(np, X, T) \/ Finished(np, X, T)
           \/ Inside(np, X, T) \/ Delivered(np, X, T) \/ VectorRead(np, X, T)
     \/ Lost(np, X, T)

(* The reader goes on from an offset in the same text.                     *)
GoesOnAt(c) ==
  /\ PortOK(port') /\ port'.start = port.start
  /\ port'.past_the_end = port.past_the_end /\ port'.curr = c

LEMMA AdvanceGoesOn ==
  ASSUME NEW np, NEW X, NEW T, TextThere(np, X, T), NEW c \in Nat, c <= port.past_the_end, Advance(c)
  PROVE  GoesOnAt(c)
<1>1. PortOK(port)
  BY DEF TextThere, Cuts
<1>2. c \in 0 .. port.past_the_end
  BY <1>1, PortBounds
<1> QED BY <1>1, <1>2, AdvanceIs DEF GoesOnAt

LEMMA TextStays ==
  ASSUME NEW np, NEW X, NEW T, TextThere(np, X, T), NEW c, GoesOnAt(c)
  PROVE  TextThere(np, X, T)'
BY DEF TextThere, GoesOnAt, Cuts

LEMMA StaysHere ==
  ASSUME NEW np, NEW X, NEW T, TextThere(np, X, T), port' = port
  PROVE  /\ GoesOnAt(port.curr) /\ port.curr \in Nat
         /\ port.curr <= port.past_the_end /\ port.past_the_end \in Nat
<1>1. PortOK(port)
  BY DEF TextThere, Cuts
<1> QED BY <1>1, PortBounds DEF GoesOnAt

LEMMA TextBounds ==
  ASSUME NEW np, NEW X, NEW T, TextThere(np, X, T)
  PROVE  /\ Cuts(port, T) /\ port.past_the_end \in Nat /\ Len(T) \in Nat /\ port.past_the_end <= Len(T)
         /\ port.curr \in Nat /\ port.curr <= port.past_the_end /\ Len(X) \in Nat
<1>1. Cuts(port, T) /\ PortOK(port) /\ Len(X) \in Nat
  BY DEF TextThere, Cuts
<1>2. port.curr \in 0 .. port.past_the_end /\ port.past_the_end \in Nat
  BY <1>1, PortBounds
<1> QED BY <1>1, <1>2, CutBounds

LEMMA GotLen ==
  ASSUME NEW X, GotSome(X)
  PROVE  Len(got) \in Nat /\ IsSeq(got) /\ (got' = got => GotSome(X)')
BY SeqLen DEF GotSome

(* Of a text that is cut off nothing has been read.                        *)
LEMMA NothingYet ==
  ASSUME NEW np, NEW X, NEW T, TextThere(np, X, T), GotSome(X), Len(got) < Len(X),
         port.past_the_end < Len(T)
  PROVE  got = << >> /\ Len(got) = 0 /\ Len(X) = 1
<1>1. Len(X) = 1
  BY DEF TextThere
<1>2. Len(got) \in Nat /\ IsSeq(got)
  BY GotLen
<1>3. Len(got) = 0
  BY <1>1, <1>2
<1> QED BY <1>1, <1>2, <1>3, SeqNone
---------------------------------------------------------------------------
(* The ways in which a reading opcode ends.                                *)

(* The token that a datum begins has been taken.                           *)
LEMMA Arrives ==
  ASSUME NEW np, NEW X, NEW T, TextThere(np, X, T), GotSome(X), Len(got) < Len(X), got' = got,
         NEW i \in Nat, i <= port.past_the_end, NextExpression(token(port, i)),
         NEW x, NEW p, NEW n, n = Len(got) + 1, Taken(np, X, T, x, p, n, port, i), Sound(np, x),
         NEW b \in Nat, b <= i, Match(X[n], b, p, dump', x), np => nesting' = Opens(T, i)
  PROVE  Tracks(np, X, T)'
<1>1. PICK t, a : /\ token(port, i) = [tok |-> t, at |-> a]
                  /\ a \in Nat /\ i <= a /\ a <= port.past_the_end
                  /\ Opens(T, a) = Opens(T, i) + Ups(t)
                  /\ \/ Begins(np, X, T, x, p, n, t, a)
                     \/ a = port.past_the_end /\ a < Len(T) /\ Broken(x, t)
  BY DEF Taken
<1>2. op' = "RDSEXPR" /\ tok' = t /\ Advance(a)
  BY <1>1 DEF NextExpression
<1>3. GoesOnAt(a)
  BY <1>1, <1>2, AdvanceGoesOn
<1>4. TextThere(np, X, T)'
  BY <1>3, TextStays
<1>5. port'.curr = a /\ port'.past_the_end = port.past_the_end
  BY <1>3 DEF GoesOnAt
<1>6. GotSome(X)'
  BY GotLen
<1>7. b <= a
  BY <1>1
<1>8. Match(X[n], a, p, dump', x)
  BY <1>1, <1>7, MatchLater
<1>9. CASE Begins(np, X, T, x, p, n, t, a)
  <2>1. np => nesting' + Ups(t) = Opens(T, a)
    BY <1>1
  <2>2. Counted(np, T, Ups(tok))'
    BY <1>2, <1>5, <2>1 DEF Counted
  <2>3. Begins(np, X, T, x, p, Len(got') + 1, tok', port'.curr)
    BY <1>2, <1>5, <1>9
  <2>4. Match(X[Len(got') + 1], port'.curr, p, dump', x)
    BY <1>5, <1>8
  <2>5. Inside(np, X, T)'
    BY <1>2, <2>2, <2>3, <2>4 DEF Inside
  <2> QED BY <1>4, <1>6, <2>5 DEF Tracks
<1>10. CASE a = port.past_the_end /\ a < Len(T) /\ Broken(x, t)
  <2>1. t \in LostTokens /\ (t = "COMMA" => Abbreviated(x))
    BY <1>10 DEF Broken, LostTokens, EOF
  <2>2. Ups(t) = 0
    BY <2>1 DEF Ups, LostTokens, EOF
  <2>3. Counted(np, T, 0)'
    <3>1. ASSUME np  PROVE nesting' + 0 = Opens(T, a)
      <4>1. Opens(T, i) \in Int
        BY OpensInt
      <4>2. Opens(T, a) = Opens(T, i)
        BY <1>1, <2>2, <4>1
      <4> QED BY <3>1, <4>1, <4>2
    <3> QED BY <1>5, <3>1 DEF Counted
  <2>4. port.past_the_end < Len(T)
    BY <1>10
  <2>5. got = << >> /\ n = 1
    BY <2>4, NothingYet
  <2>6. Bracketed(X[1]) => Hopeless'
    <3>1. ASSUME Bracketed(X[1])  PROVE Hopeless'
      <4>1. Match(X[1], a, p, dump', x)
        BY <1>8, <2>5
      <4>2. (p = << >> /\ dump' = << >> /\ x = X[1]) \/ DoomedDump(dump')
        BY <3>1, <4>1, MatchDoomed
      <4>3. x = X[1] => t # "COMMA"
        <5>1. Bracketed(x) => ~Abbreviated(x)
          BY DEF Bracketed, Abbreviated
        <5> QED BY <2>1, <3>1, <5>1
      <4> QED BY <1>2, <4>2, <4>3 DEF Hopeless
    <3> QED BY <3>1
  <2>7. Lost(np, X, T)'
    BY <1>2, <1>5, <1>10, <2>1, <2>3, <2>4, <2>5, <2>6 DEF Lost
  <2> QED BY <1>4, <2>7 DEF Tracks
<1> QED BY <1>1, <1>9, <1>10

(* A datum is returned to the first of these frames.                       *)
LEMMA Gives ==
  ASSUME NEW np, NEW X, NEW T, TextThere(np, X, T), GotSome(X), Len(got) < Len(X), got' = got,
         NEW c \in Nat, GoesOnAt(c), NEW r, NEW v, ReturnTo(r, v), r = << >> => dump = << >>,
         NEW n, n = Len(got) + 1, NEW b \in Nat, b <= c, NEW p, Match(X[n], b, p, r, v),
         Onward(np, X, T, p, n, c), np => nesting' = Opens(T, c)
  PROVE  Tracks(np, X, T)'
<1>1. TextThere(np, X, T)' /\ port'.curr = c /\ GotSome(X)'
  BY TextStays, GotLen DEF GoesOnAt
<1>2. Match(X[n], c, p, r, v)
  BY MatchLater
<1>3. Counted(np, T, 0)'
  <2>1. ASSUME np  PROVE nesting' + 0 = Opens(T, c)
    <3>1. Opens(T, c) \in Int
      BY OpensInt
    <3> QED BY <2>1, <3>1
  <2> QED BY <1>1, <2>1 DEF Counted
<1>4. value' = v
  BY DEF ReturnTo
<1>5. /\ IsSeq(p) /\ IsSeq(r)
      /\ \/ p = << >> /\ r = << >> /\ v = X[n]
         \/ \E q, s, y : Match(X[n], c, q, s, y) /\ Nested(p, r, v, q, s, y, c)
  BY <1>2, MatchIs
<1>6. CASE r = << >>
  <2>1. p = << >> /\ v = X[n]
    <3>1. \A q, s, y : Match(X[n], c, q, s, y) /\ Nested(p, r, v, q, s, y, c) => r # << >>
      <4>1. \A q, s, y : Match(X[n], c, q, s, y) => IsSeq(s)
        BY MatchIs
      <4> QED BY <4>1, NestedDump
    <3> QED BY <1>5, <1>6, <3>1
  <2>2. op' = "returned"
    BY <1>6 DEF ReturnTo
  <2>3. After(np, X, T, n, c)
    <3>1. Pop(<< >>, n) = Place("returned", NIL, << >>, n)
      BY DEF Pop
    <3> QED BY <2>1, <3>1 DEF Onward, After
  <2>4. Returned(np, X, T)'
    BY <1>1, <1>3, <1>4, <2>1, <2>2, <2>3 DEF Returned
  <2> QED BY <1>1, <2>4 DEF Tracks
<1>7. CASE r # << >>
  <2>1. PICK f, s : f = Head(r) /\ s = Tail(r)
    OBVIOUS
  <2>2. r = <<f>> \o s /\ IsSeq(s)
    BY <1>5, <1>7, <2>1, HeadTail
  <2>3. op' = f.op /\ args' = f.args /\ dump' = s
    BY <1>7, <2>1 DEF ReturnTo
  <2>4. \E o, a : f = Frame(o, a) /\ o \in ValueOps
    <3>1. PICK q, t, y : Match(X[n], c, q, t, y) /\ Nested(p, r, v, q, t, y, c)
      BY <1>5, <1>7
    <3>2. IsSeq(t)
      BY <3>1, MatchIs
    <3>3. ASSUME NEW o, NEW a, NEW u, IsSeq(u), r = <<Frame(o, a)>> \o u
          PROVE  f = Frame(o, a)
      <4>1. PICK g : g = Frame(o, a)
        OBVIOUS
      <4>2. r = <<g>> \o u
        BY <3>3, <4>1
      <4>3. Head(r) = g
        BY ONLY <3>3, <4>2, Pushed
      <4> QED BY <2>1, <4>1, <4>3
    <3>4. CASE NestedInList(p, r, v, q, t, y)
      <4>1. \E a : f = Frame("RDLIST", a)
        BY <3>2, <3>3, <3>4 DEF NestedInList
      <4> QED BY <4>1 DEF ValueOps
    <3>5. CASE NestedAfterDot(p, r, v, q, t, y)
      <4>1. \E a : f = Frame("RDDOT", a)
        BY <3>2, <3>3, <3>5 DEF NestedAfterDot
      <4> QED BY <4>1 DEF ValueOps
    <3>6. CASE NestedInVector(p, r, v, q, t, y, c)
      <4>1. PICK a, g, w : g = Frame("RDVEC", << >>) /\ w = <<g>> \o t /\ r = <<Frame("RDLIST", a)>> \o w
        BY <3>6 DEF NestedInVector
      <4>2. IsSeq(w)
        BY <3>2, <4>1, Pushed
      <4>3. f = Frame("RDLIST", a)
        BY <3>3, <4>1, <4>2
      <4> QED BY <4>3 DEF ValueOps
    <3>7. CASE NestedInMark(p, r, v, q, t, y)
      <4>1. PICK o \in AbbreviationOps : r = <<Frame(o, << >>)>> \o t
        BY <3>7 DEF NestedInMark
      <4>2. f = Frame(o, << >>)
        BY <3>2, <3>3, <4>1
      <4> QED BY <4>2 DEF ValueOps
    <3> QED BY <3>1, <3>4, <3>5, <3>6, <3>7 DEF Nested
  <2>5. PICK o, a : f = Frame(o, a) /\ o \in ValueOps
    BY <2>4
  <2>6. op' = o /\ args' = a
    BY <2>3, <2>5, PlaceFields
  <2>7. Match(X[n], c, p, <<Frame(op', args')>> \o dump', value')
    BY <1>2, <1>4, <2>2, <2>3, <2>5, <2>6
  <2>8. Delivered(np, X, T)'
    BY <1>1, <1>3, <2>2, <2>3, <2>5, <2>6, <2>7 DEF Delivered
  <2> QED BY <1>1, <2>8 DEF Tracks
<1> QED BY <1>6, <1>7

LEMMA LostFails ==
  ASSUME NEW np, NEW X, NEW T, TextThere(np, X, T), got' = got, port.past_the_end < Len(T),
         NEW c, GoesOnAt(c), op' = "error", Bracketed(X[1]) => got = << >>
  PROVE  Tracks(np, X, T)'
<1>1. TextThere(np, X, T)' /\ port'.past_the_end = port.past_the_end
  BY TextStays DEF GoesOnAt
<1>2. Lost(np, X, T)'
  BY <1>1 DEF Lost, Hopeless
<1> QED BY <1>1, <1>2 DEF Tracks

(* At the end of a text that is cut off something is returned.             *)
LEMMA LostGives ==
  ASSUME NEW np, NEW X, NEW T, TextThere(np, X, T), got' = got, port.past_the_end < Len(T),
         GoesOnAt(port.past_the_end), NEW r, NEW d, Begun(r, d), NEW v, ReturnTo(r, v),
         r = << >> => dump = << >>, np => nesting' = Opens(T, port.past_the_end),
         Bracketed(X[1]) => /\ got = << >>
                            /\ \/ DoomedDump(r)
                               \/ v = EOF_OBJ /\ (r = << >> \/ Head(r).op = "RDVEC")
  PROVE  Tracks(np, X, T)'
<1>1. /\ TextThere(np, X, T)' /\ port'.past_the_end = port.past_the_end
      /\ port'.curr = port.past_the_end /\ value' = v
  BY TextStays DEF GoesOnAt, ReturnTo
<1>2. Counted(np, T, 0)'
  <2>1. ASSUME np  PROVE nesting' + 0 = Opens(T, port.past_the_end)
    <3>1. Opens(T, port.past_the_end) \in Int
      BY OpensInt, TextBounds
    <3> QED BY <2>1, <3>1
  <2> QED BY <1>1, <2>1 DEF Counted
<1>3. op' # "RDSEXPR" /\ (r = << >> => op' = "returned")
      /\ (r # << >> => op' = Head(r).op /\ dump' = Tail(r) /\ op' \in FrameOps)
  <2>1. r # << >> => Head(r).op \in FrameOps
    BY BegunIs
  <2>2. "RDSEXPR" \notin FrameOps
    BY DEF FrameOps
  <2> QED BY <2>1, <2>2 DEF ReturnTo
<1>4. ASSUME Bracketed(X[1])  PROVE Hopeless'
  <2>1. CASE DoomedDump(r)
    <3>1. r # << >> /\ Doomed(Head(r).op, Tail(r))
      BY <2>1 DEF DoomedDump
    <3>2. Head(r).op \in ValueOps
      BY <3>1, DoomedIs DEF ValueOps
    <3> QED BY <1>3, <3>1, <3>2 DEF Hopeless
  <2>2. CASE v = EOF_OBJ /\ r = << >>
    BY <1>1, <1>3, <2>2 DEF Hopeless
  <2>3. CASE v = EOF_OBJ /\ r # << >> /\ Head(r).op = "RDVEC"
    BY <1>1, <1>3, <2>3 DEF Hopeless
  <2> QED BY <1>4, <2>1, <2>2, <2>3
<1>5. Lost(np, X, T)'
  BY <1>1, <1>2, <1>3, <1>4 DEF Lost
<1> QED BY <1>1, <1>5 DEF Tracks

(* Or the end is found for a token.                                        *)
LEMMA LostGoesOn ==
  ASSUME NEW np, NEW X, NEW T, TextThere(np, X, T), got' = got, port.past_the_end < Len(T),
         GoesOnAt(port.past_the_end), op' = "RDSEXPR", tok' = EOF,
         np => nesting' = Opens(T, port.past_the_end),
         Bracketed(X[1]) => got = << >> /\ (dump' = << >> \/ DoomedDump(dump'))
  PROVE  Tracks(np, X, T)'
<1>1. /\ TextThere(np, X, T)' /\ port'.past_the_end = port.past_the_end
      /\ port'.curr = port.past_the_end
  BY TextStays DEF GoesOnAt
<1>2. Counted(np, T, 0)'
  <2>1. ASSUME np  PROVE nesting' + 0 = Opens(T, port.past_the_end)
    <3>1. Opens(T, port.past_the_end) \in Int
      BY OpensInt, TextBounds
    <3> QED BY <2>1, <3>1
  <2> QED BY <1>1, <2>1 DEF Counted
<1>3. tok' \in LostTokens /\ tok' # "COMMA"
  BY DEF LostTokens, EOF
<1>4. Lost(np, X, T)'
  BY <1>1, <1>2, <1>3 DEF Lost, Hopeless
<1> QED BY <1>1, <1>4 DEF Tracks
---------------------------------------------------------------------------
(* The opcodes that take the first token of a datum.                       *)

LEMMA TakenEnds ==
  ASSUME NEW np, NEW X, NEW T, NEW x, NEW p, NEW n, NEW q, NEW i, Taken(np, X, T, x, p, n, q, i), i \in Nat
  PROVE  /\ token(q, i).tok # "RPAREN"
         /\ token(q, i).tok = "VEC" => x.type = "vector"
         /\ token(q, i).at \in Nat /\ token(q, i).at <= q.past_the_end
         /\ token(q, i).tok \in {EOF, "DOT"} =>
              /\ token(q, i).at = q.past_the_end /\ q.past_the_end < Len(T)
              /\ Opens(T, q.past_the_end) = Opens(T, i)
<1>1. PICK t, a : /\ token(q, i) = [tok |-> t, at |-> a]
                  /\ a \in Nat /\ i <= a /\ a <= q.past_the_end
                  /\ Opens(T, a) = Opens(T, i) + Ups(t)
                  /\ \/ Begins(np, X, T, x, p, n, t, a)
                     \/ a = q.past_the_end /\ a < Len(T) /\ Broken(x, t)
  BY DEF Taken
<1>2. token(q, i).tok = t /\ token(q, i).at = a
  BY <1>1
<1>3. Begins(np, X, T, x, p, n, t, a) => t \notin {EOF, "DOT", "RPAREN"} /\ (t = "VEC" => x.type = "vector")
  BY DEF Begins, Abbreviates, EOF
<1>4. Broken(x, t) => t \notin {"VEC", "RPAREN"}
  BY DEF Broken, EOF
<1>5. t \in {EOF, "DOT"} => Opens(T, a) = Opens(T, i)
  <2>1. t \in {EOF, "DOT"} => Ups(t) = 0
    BY DEF Ups, EOF
  <2>2. Opens(T, i) \in Int
    BY OpensInt
  <2> QED BY <1>1, <2>1, <2>2
<1> QED BY <1>1, <1>2, <1>3, <1>4, <1>5

(* The token at the end of a text that is cut off.                         *)
LEMMA CutGoesOn ==
  ASSUME NEW np, NEW X, NEW T, TextThere(np, X, T), NEW j \in Nat, CutHere(T, port, j)
  PROVE  /\ token(port, j).tok = EOF /\ token(port, j).at = port.past_the_end
         /\ port.past_the_end < Len(T) /\ port.past_the_end \in Nat
         /\ Opens(T, port.past_the_end) = Opens(T, j)
         /\ Advance(token(port, j).at) => GoesOnAt(port.past_the_end)
         /\ NextExpression(token(port, j)) => op' = "RDSEXPR" /\ tok' = EOF /\ GoesOnAt(port.past_the_end)
<1>1. /\ token(port, j).tok = EOF /\ token(port, j).at = port.past_the_end
      /\ port.past_the_end < Len(T) /\ Opens(T, port.past_the_end) = Opens(T, j)
  BY DEF CutHere
<1>2. port.past_the_end \in Nat /\ port.past_the_end <= port.past_the_end
  BY TextBounds
<1>3. Advance(port.past_the_end) => GoesOnAt(port.past_the_end)
  BY <1>2, AdvanceGoesOn
<1> QED BY <1>1, <1>2, <1>3 DEF NextExpression

LEMMA TracksInternal ==
  ASSUME NEW np, NEW X, NEW T, TextThere(np, X, T), GotSome(X), Between(np, X, T),
         READ_INTERNAL, got' = got, nesting \in Nat
  PROVE  Tracks(np, X, T)'
<1>1. PICK n, j, m : n = Len(got) /\ j = port.curr /\ m = port.past_the_end
  OBVIOUS
<1>2. /\ Cuts(port, T) /\ m \in Nat /\ Len(T) \in Nat /\ m <= Len(T) /\ j \in Nat /\ j <= m
      /\ Len(X) \in Nat
  BY <1>1, TextBounds
<1>3. dump = << >> /\ After(np, X, T, n, j) /\ (np => nesting + 0 = Opens(T, j))
  BY <1>1 DEF Between, Counted
<1>4. port.past_the_end < Len(T) \/ np => Len(X) = 1
  BY DEF TextThere
<1>5. /\ n \in Nat /\ j \in Nat
      /\ \/ /\ token(port, j) = [tok |-> EOF, at |-> port.past_the_end]
            /\ j = port.past_the_end /\ port.past_the_end = Len(T) /\ n = Len(X)
         \/ \E i \in Nat : /\ j <= i /\ i <= port.past_the_end /\ token(port, j) = token(port, i) /\ n < Len(X)
                           /\ np => Opens(T, i) = Opens(T, j)
                           /\ Taken(np, X, T, X[n + 1], << >>, n + 1, port, i)
  <2>1. Cuts(port, T) /\ j <= port.past_the_end /\ Len(X) \in Nat /\ After(np, X, T, n, j)
    BY <1>1, <1>2, <1>3
  <2> QED BY ONLY <1>4, <2>1, TextGoesOn
<1>6. NextToken = token(port, j)
  BY <1>1 DEF NextToken
<1>7. nesting' = nesting
  BY DEF READ_INTERNAL
<1>8. CASE token(port, j) = [tok |-> EOF, at |-> m] /\ j = m /\ m = Len(T) /\ n = Len(X)
  <2>1. NextToken.tok = EOF /\ NextToken.at = m
    BY <1>6, <1>8
  <2>2. Advance(m) /\ s_return(EOF_OBJ)
    BY <2>1 DEF READ_INTERNAL
  <2>3. GoesOnAt(m)
    BY <1>1, <1>2, <2>2, AdvanceGoesOn
  <2>4. TextThere(np, X, T)' /\ GotSome(X)'
    BY <2>3, TextStays, GotLen
  <2>5. op' = "returned" /\ value' = EOF_OBJ
    BY <1>3, <2>2 DEF s_return, ReturnTo
  <2>6. Finished(np, X, T)'
    BY <1>1, <1>3, <1>7, <1>8, <2>3, <2>5 DEF Finished, Counted, GoesOnAt
  <2> QED BY <2>4, <2>6 DEF Tracks
<1>9. CASE \E i \in Nat : /\ j <= i /\ i <= m /\ token(port, j) = token(port, i) /\ n < Len(X)
                          /\ np => Opens(T, i) = Opens(T, j)
                          /\ Taken(np, X, T, X[n + 1], << >>, n + 1, port, i)
  <2>1. PICK i \in Nat : /\ j <= i /\ i <= m /\ token(port, j) = token(port, i) /\ n < Len(X)
                         /\ np => Opens(T, i) = Opens(T, j)
                         /\ Taken(np, X, T, X[n + 1], << >>, n + 1, port, i)
    BY <1>9
  <2>2. NextToken = token(port, i)
    BY <1>6, <2>1
  <2>3. np => nesting' = Opens(T, i)
    <3>1. ASSUME np  PROVE nesting' = Opens(T, i)
      <4>1. nesting + 0 = Opens(T, i)
        BY <1>3, <2>1, <3>1
      <4> QED BY <1>7, <4>1
    <3> QED BY <3>1
  <2>4. CASE NextToken.tok = EOF
    <3>1. token(port, i).tok \in {EOF, "DOT"}
      BY <2>2, <2>4
    <3>2. /\ token(port, i).at = port.past_the_end /\ port.past_the_end < Len(T)
          /\ Opens(T, port.past_the_end) = Opens(T, i)
      BY <2>1, <3>1, TakenEnds
    <3>3. Advance(port.past_the_end) /\ ReturnTo(dump, EOF_OBJ)
      BY <2>2, <2>4, <3>2 DEF READ_INTERNAL, s_return
    <3>4. GoesOnAt(port.past_the_end)
      BY <1>1, <1>2, <3>3, AdvanceGoesOn
    <3>5. got = << >>
      BY <1>1, <2>1, <3>2, NothingYet
    <3>6. np => nesting' = Opens(T, port.past_the_end)
      BY <2>3, <3>2
    <3>7. ReturnTo(<< >>, EOF_OBJ)
      BY <1>3, <3>3
    <3> QED BY <1>3, <3>2, <3>4, <3>5, <3>6, <3>7, BegunNone, LostGives
  <2>5. CASE NextToken.tok # EOF
    <3>1. NextExpression(token(port, i)) /\ dump' = << >>
      BY <1>3, <2>2, <2>5 DEF READ_INTERNAL
    <3>2. Sound(np, X[n + 1])
      <4>1. n + 1 \in 1 .. Len(X)
        BY <1>2, <1>5, <2>1
      <4> QED BY <4>1 DEF TextThere
    <3>3. Match(X[n + 1], 0, << >>, dump', X[n + 1])
      BY <3>1, MatchNone
    <3>4. 0 <= i /\ i <= port.past_the_end /\ Len(got) < Len(X) /\ n + 1 = Len(got) + 1
      BY <1>1, <2>1
    <3> QED BY <2>1, <2>3, <3>1, <3>2, <3>3, <3>4, Arrives
  <2> QED BY <2>4, <2>5
<1> QED BY <1>1, <1>5, <1>8, <1>9

(* What is on the dump when a list or a vector is begun.                   *)
Saved(t, d) == IF t = "VEC" THEN <<Frame("RDVEC", << >>)>> \o d ELSE d

LEMMA SavedIs ==
  ASSUME NEW t, NEW d, IsSeq(d)
  PROVE  /\ IsSeq(Saved(t, d)) /\ (Saved(t, d) = << >> => d = << >>)
         /\ t = "VEC" => Saved(t, d) # << >> /\ Head(Saved(t, d)).op = "RDVEC"
         /\ t # "VEC" => Saved(t, d) = d
<1>1. PICK f : f = Frame("RDVEC", << >>) /\ f.op = "RDVEC"
  BY PlaceFields
<1>2. IsSeq(<<f>> \o d) /\ <<f>> \o d # << >> /\ Head(<<f>> \o d) = f
  BY Pushed
<1> QED BY <1>1, <1>2 DEF Saved

LEMMA LparenIs ==
  ASSUME RDSEXPR_LPAREN, IsSeq(dump), NEW u, u = Saved(tok, dump)
  PROVE  /\ NextToken.tok = "RPAREN" => /\ Advance(NextToken.at) /\ ReturnTo(u, NIL) /\ nesting' = nesting
         /\ NextToken.tok = "DOT" => op' = "error" /\ Advance(NextToken.at)
         /\ NextToken.tok \notin {"RPAREN", "DOT"} =>
              /\ dump' = <<Frame("RDLIST", << >>)>> \o u /\ nesting' = nesting + 1
              /\ NextExpression(NextToken)
<1>1. PICK vec, f : /\ vec = IF tok = "VEC" THEN <<[op |-> "RDVEC", args |-> << >>]>> ELSE << >>
                    /\ f = [op |-> "RDLIST", args |-> << >>]
  OBVIOUS
<1>2. /\ NextToken.tok = "RPAREN" => /\ Advance(NextToken.at) /\ ReturnTo(vec \o dump, NIL) /\ nesting' = nesting
      /\ NextToken.tok = "DOT" => op' = "error" /\ Advance(NextToken.at)
      /\ NextToken.tok \notin {"RPAREN", "DOT"} =>
           /\ dump' = (<<f>> \o vec) \o dump /\ nesting' = nesting + 1
           /\ NextExpression(NextToken)
  BY <1>1 DEF RDSEXPR_LPAREN
<1>3. vec \o dump = u /\ IsSeq(vec)
  <2>1. PICK g : g = Frame("RDVEC", << >>) /\ g = [op |-> "RDVEC", args |-> << >>]
    BY DEF Frame
  <2>2. IsSeq(<<g>>) /\ IsSeq(<< >>) /\ << >> \o dump = dump
    BY SeqOne, SeqEmpty, SeqNone
  <2> QED BY <1>1, <2>1, <2>2 DEF Saved
<1>4. (<<f>> \o vec) \o dump = <<f>> \o u
  <2>1. PICK s : s = <<f>> /\ IsSeq(s)
    BY SeqOne
  <2>2. (s \o vec) \o dump = s \o (vec \o dump)
    <3>1. IsSeq(s) /\ IsSeq(vec)
      BY <1>3, <2>1
    <3> QED BY ONLY <3>1, IsSeq(dump), SeqAssoc
  <2> QED BY <1>3, <2>1, <2>2
<1>5. f = Frame("RDLIST", << >>)
  BY <1>1 DEF Frame
<1> QED BY <1>2, <1>3, <1>4, <1>5

LEMMA ListBegins ==
  ASSUME NEW np, NEW X, NEW T, TextThere(np, X, T), GotSome(X), Len(got) < Len(X), got' = got,
         nesting \in Nat, RDSEXPR_LPAREN, IsSeq(dump),
         NEW i \in Nat, i <= port.past_the_end, NextToken = token(port, i),
         np => nesting + 1 = Opens(T, i),
         NEW y, NEW p, NEW n, n = Len(got) + 1, Taken(np, X, T, y, p, n, port, i), Sound(np, y),
         NEW b \in Nat, b <= i, Match(X[n], b, p, <<Frame("RDLIST", << >>)>> \o Saved(tok, dump), y)
  PROVE  Tracks(np, X, T)'
<1>1. /\ token(port, i).tok # "RPAREN"
      /\ token(port, i).at \in Nat /\ token(port, i).at <= port.past_the_end
      /\ token(port, i).tok \in {EOF, "DOT"} => port.past_the_end < Len(T)
  BY TakenEnds
<1>2. CASE token(port, i).tok = "DOT"
  <2>1. op' = "error" /\ Advance(token(port, i).at)
    BY <1>2, LparenIs
  <2>2. GoesOnAt(token(port, i).at)
    BY <1>1, <2>1, AdvanceGoesOn
  <2>3. port.past_the_end < Len(T)
    BY <1>1, <1>2
  <2>4. got = << >>
    BY <2>3, NothingYet
  <2> QED BY <2>1, <2>2, <2>3, <2>4, LostFails
<1>3. CASE token(port, i).tok # "DOT"
  <2>1. /\ dump' = <<Frame("RDLIST", << >>)>> \o Saved(tok, dump) /\ nesting' = nesting + 1
        /\ NextExpression(token(port, i))
    BY <1>1, <1>3, LparenIs
  <2>2. Match(X[n], b, p, dump', y)
    BY <2>1
  <2>3. np => nesting' = Opens(T, i)
    BY <2>1
  <2> QED BY <2>1, <2>2, <2>3, Arrives
<1> QED BY <1>2, <1>3

LEMMA ListIsCut ==
  ASSUME NEW np, NEW X, NEW T, TextThere(np, X, T), got' = got,
         nesting \in Nat, RDSEXPR_LPAREN, IsSeq(dump), NEW j \in Nat, j = port.curr, CutHere(T, port, j),
         np => nesting + 1 = Opens(T, j),
         Bracketed(X[1]) => got = << >> /\ (dump = << >> \/ DoomedDump(dump))
  PROVE  Tracks(np, X, T)'
<1>1. /\ NextToken.tok = EOF /\ NextToken = token(port, j)
      /\ port.past_the_end < Len(T)
      /\ Opens(T, port.past_the_end) = Opens(T, j)
      /\ NextExpression(token(port, j)) => op' = "RDSEXPR" /\ tok' = EOF /\ GoesOnAt(port.past_the_end)
  BY CutGoesOn DEF NextToken
<1>2. NextToken.tok \notin {"RPAREN", "DOT"}
  BY <1>1 DEF EOF
<1>3. PICK u, r, f : u = Saved(tok, dump) /\ f = Frame("RDLIST", << >>) /\ r = <<f>> \o u
  OBVIOUS
<1>4. dump' = r /\ nesting' = nesting + 1 /\ NextExpression(token(port, j))
  BY <1>1, <1>2, <1>3, LparenIs
<1>5. IsSeq(u) /\ (u = << >> \/ Head(u).op = "RDVEC" \/ u = dump)
  BY <1>3, SavedIs
<1>6. Head(r) = f /\ Tail(r) = u /\ r # << >> /\ f.op = "RDLIST"
  BY <1>3, <1>5, Pushed, PlaceFields
<1>7. Bracketed(X[1]) => DoomedDump(dump')
  <2>1. ASSUME Bracketed(X[1])  PROVE Doomed("RDLIST", u)
    <3>1. u = << >> \/ Head(u).op = "RDVEC" \/ DoomedDump(u)
      BY <1>5, <2>1
    <3> QED BY <1>5, <3>1, DoomedPush
  <2> QED BY <1>4, <1>6, <2>1 DEF DoomedDump
<1>8. np => nesting' = Opens(T, port.past_the_end)
  BY <1>1, <1>4
<1> QED BY <1>1, <1>4, <1>7, <1>8, LostGoesOn

(* What was the first of a text that is cut off.                           *)
LEMMA InsideDoomed ==
  ASSUME NEW np, NEW X, NEW T, TextThere(np, X, T), GotSome(X), Len(got) < Len(X),
         port.past_the_end < Len(T), NEW b, NEW p, NEW r, NEW x, Match(X[Len(got) + 1], b, p, r, x)
  PROVE  Bracketed(X[1]) => got = << >> /\ ((p = << >> /\ r = << >> /\ x = X[1]) \/ DoomedDump(r))
<1>1. got = << >> /\ Len(got) = 0
  BY NothingYet
<1>2. Match(X[1], b, p, r, x)
  BY <1>1
<1> QED BY <1>1, <1>2, MatchDoomed

(* The first parenthesis of a list or a vector has been taken.             *)
LEMMA TracksLparen ==
  ASSUME NEW np, NEW X, NEW T, TextThere(np, X, T), GotSome(X), Inside(np, X, T),
         RDSEXPR_LPAREN, got' = got, nesting \in Nat
  PROVE  Tracks(np, X, T)'
<1>1. PICK n, j, m : n = Len(got) + 1 /\ j = port.curr /\ m = port.past_the_end
  OBVIOUS
<1>2. /\ Cuts(port, T) /\ m \in Nat /\ Len(T) \in Nat /\ m <= Len(T) /\ j \in Nat /\ j <= m
      /\ Len(got) < Len(X) /\ port.past_the_end \in Nat
  BY <1>1, TextBounds DEF Inside
<1>3. tok \in {"LPAREN", "VEC"}
  BY DEF RDSEXPR_LPAREN, Expression
<1>4. PICK x, p : /\ Sound(np, x) /\ Begins(np, X, T, x, p, n, tok, j)
                  /\ Match(X[n], j, p, dump, x)
  BY <1>1 DEF Inside
<1>5. np => nesting + 1 = Opens(T, j)
  BY <1>1, <1>3, UpsIs DEF Inside, Counted
<1>6. IsSeq(p) /\ IsSeq(dump)
  BY <1>4, MatchIs
<1>7. NextToken = token(port, j)
  BY <1>1 DEF NextToken
<1>8. ASSUME CutHere(T, port, j)  PROVE Tracks(np, X, T)'
  <2>1. port.past_the_end < Len(T)
    BY <1>8, CutGoesOn, <1>2
  <2>2. Match(X[Len(got) + 1], j, p, dump, x)
    BY <1>1, <1>4
  <2>3. Bracketed(X[1]) => got = << >> /\ (dump = << >> \/ DoomedDump(dump))
    BY <1>2, <2>1, <2>2, InsideDoomed
  <2> QED BY <1>1, <1>2, <1>5, <1>6, <1>8, <2>3, ListIsCut
<1>9. ASSUME EndHere(np, X, T, p, n, port, j)
      PROVE  /\ GoesOnAt(j + 1) /\ j + 1 \in Nat /\ ReturnTo(Saved(tok, dump), NIL)
             /\ Onward(np, X, T, p, n, j + 1) /\ (np => nesting' = Opens(T, j + 1))
  <2>1. /\ token(port, j) = [tok |-> "RPAREN", at |-> j + 1] /\ j + 1 <= port.past_the_end
        /\ OnText(np, X, T, j + 1, Pop(p, n)) /\ Opens(T, j + 1) = Opens(T, j) - 1
    BY <1>9 DEF EndHere
  <2>2. Advance(j + 1) /\ ReturnTo(Saved(tok, dump), NIL) /\ nesting' = nesting
    BY <1>6, <1>7, <2>1, LparenIs
  <2>3. j + 1 \in Nat
    BY <1>2
  <2>4. GoesOnAt(j + 1)
    BY <2>1, <2>2, <2>3, AdvanceGoesOn
  <2>5. np => nesting' = Opens(T, j + 1)
    BY <1>5, <2>1, <2>2
  <2> QED BY <2>1, <2>2, <2>3, <2>4, <2>5 DEF Onward
<1>10. CASE tok = "VEC" /\ x.type = "vector"
            /\ OnText(np, X, T, j, Place("PVECFROM", From(x.elements, 0), p, n))
  <2>1. PICK vec : vec = x.elements
    OBVIOUS
  <2>2. /\ x = Vector(vec) /\ IsSeq(vec) /\ Len(vec) \in Nat
        /\ \A k \in 1 .. Len(vec) : Sound(np, vec[k])
    BY <1>4, <1>10, <2>1, SoundVector
  <2>3. Match(X[n], j, p, dump, Vector(vec))
    BY <1>4, <2>2
  <2>4. Saved(tok, dump) = <<Frame("RDVEC", << >>)>> \o dump
    BY <1>10 DEF Saved
  <2>5. \/ CutHere(T, port, j)
        \/ 0 = Len(vec) /\ EndHere(np, X, T, p, n, port, j)
        \/ 0 # Len(vec) /\ NextHere(np, X, T, vec[0 + 1], <<Frame("PVECFROM", From(vec, 0 + 1))>> \o p, n, port, j)
    <3>1. OnText(np, X, T, j, Place("PVECFROM", From(vec, 0), p, n)) /\ j <= port.past_the_end
      BY <1>1, <1>2, <1>10, <2>1
    <3> QED BY ONLY <1>2, <3>1, VectorGoesOn
  <2>6. CASE 0 = Len(vec) /\ EndHere(np, X, T, p, n, port, j)
    <3>1. PICK f : f = Frame("RDVEC", << >>) /\ f.op = "RDVEC"
      BY PlaceFields
    <3>2. /\ GoesOnAt(j + 1) /\ j + 1 \in Nat /\ ReturnTo(<<f>> \o dump, NIL)
          /\ Onward(np, X, T, p, n, j + 1) /\ (np => nesting' = Opens(T, j + 1))
      BY <1>9, <2>4, <2>6, <3>1
    <3>3. <<f>> \o dump # << >> /\ Head(<<f>> \o dump) = f /\ Tail(<<f>> \o dump) = dump
      BY <1>6, Pushed
    <3>4. value' = NIL /\ op' = "RDVEC" /\ dump' = dump
      BY <3>1, <3>2, <3>3 DEF ReturnTo
    <3>5. TextThere(np, X, T)' /\ GotSome(X)' /\ port'.curr = j + 1
      BY <3>2, TextStays, GotLen DEF GoesOnAt
    <3>6. Counted(np, T, 0)'
      <4>1. ASSUME np  PROVE nesting' + 0 = Opens(T, j + 1)
        <5>1. Opens(T, j + 1) \in Int
          BY <3>2, OpensInt
        <5> QED BY <3>2, <4>1, <5>1
      <4> QED BY <3>5, <4>1 DEF Counted
    <3>7. Backwards(vec, Len(vec), << >>)
      BY <2>6, BackwardsNone
    <3>8. value' = reverse_in_place(NIL, << >>)
      BY <3>4, ReversedNone
    <3>9. Match(X[n], j + 1, p, dump', Vector(vec))
      <4>1. j <= j + 1 /\ j + 1 \in Nat
        BY <1>2
      <4>2. Match(X[n], j + 1, p, dump, Vector(vec))
        BY <1>2, <2>3, <4>1, MatchLater
      <4> QED BY <3>4, <4>2
    <3>10. Len(vec) <= j + 1
      BY <1>2, <2>6
    <3>11. \E p1, vec1, d1 :
             /\ Onward(np, X, T, p1, n, j + 1)
             /\ IsSeq(vec1) /\ Len(vec1) <= j + 1
             /\ Backwards(vec1, Len(vec1), d1) /\ value' = reverse_in_place(NIL, d1)
             /\ Match(X[n], j + 1, p1, dump', Vector(vec1))
      BY <2>2, <3>2, <3>7, <3>8, <3>9, <3>10
    <3>12. VectorRead(np, X, T)'
      BY <1>1, <1>2, <3>4, <3>5, <3>6, <3>11 DEF VectorRead
    <3> QED BY <3>5, <3>12 DEF Tracks
  <2>7. CASE 0 # Len(vec) /\ NextHere(np, X, T, vec[0 + 1], <<Frame("PVECFROM", From(vec, 0 + 1))>> \o p, n, port, j)
    <3>1. PICK pp : pp = <<Frame("PVECFROM", From(vec, 1))>> \o p
      OBVIOUS
    <3>2. NextHere(np, X, T, vec[1], pp, n, port, j)
      BY <2>7, <3>1
    <3>3. /\ token(port, j) = token(port, j + 1) /\ j + 1 <= port.past_the_end /\ Opens(T, j + 1) = Opens(T, j)
          /\ Taken(np, X, T, vec[1], pp, n, port, j + 1)
      BY <3>2 DEF NextHere
    <3>4. 1 \in 1 .. Len(vec) /\ 1 - 1 = 0 /\ j + 1 \in Nat /\ j <= j + 1 /\ 1 <= j + 1 /\ j + 1 <= j + 1
      BY <1>2, <2>2, <2>7
    <3>5. Match(X[n], j + 1, p, dump, Vector(vec))
      BY <1>2, <2>3, <3>4, MatchLater
    <3>6. Backwards(vec, 1 - 1, << >>)
      BY <3>4, BackwardsNone
    <3>7. Match(X[n], j + 1, <<Frame("PVECFROM", From(vec, 1))>> \o p,
               <<Frame("RDLIST", << >>)>> \o (<<Frame("RDVEC", << >>)>> \o dump), vec[1])
      BY ONLY <2>2, <3>4, <3>5, <3>6, PushVector
    <3>8. Match(X[n], j + 1, pp, <<Frame("RDLIST", << >>)>> \o Saved(tok, dump), vec[1])
      BY <2>4, <3>1, <3>7
    <3>9. Sound(np, vec[1]) /\ NextToken = token(port, j + 1) /\ (np => nesting + 1 = Opens(T, j + 1))
      BY <1>5, <1>7, <2>2, <3>3, <3>4
    <3> QED BY <1>1, <1>2, <1>6, <3>3, <3>4, <3>8, <3>9, ListBegins
  <2> QED BY <1>8, <2>5, <2>6, <2>7
<1>11. CASE tok = "LPAREN" /\ x = NIL /\ Slice(T, j, <<")">>) /\ OnText(np, X, T, j + 1, Pop(p, n))
  <2>1. CutHere(T, port, j) \/ EndHere(np, X, T, p, n, port, j)
    BY <1>1, <1>2, <1>11, EndIsHere
  <2>2. CASE EndHere(np, X, T, p, n, port, j)
    <3>1. /\ GoesOnAt(j + 1) /\ j + 1 \in Nat /\ ReturnTo(dump, NIL)
          /\ Onward(np, X, T, p, n, j + 1) /\ (np => nesting' = Opens(T, j + 1))
      BY <1>6, <1>9, <1>11, <2>2, SavedIs
    <3>2. Match(X[n], j, p, dump, NIL) /\ j <= j + 1
      BY <1>2, <1>4, <1>11
    <3> QED BY <1>1, <1>2, <3>1, <3>2, Gives
  <2> QED BY <1>8, <2>1, <2>2
<1>12. CASE tok = "LPAREN" /\ x.type = "pair" /\ ~Abbreviated(x)
            /\ OnText(np, X, T, j, Place("P0LIST", x.car, <<Frame("P1LIST", x.cdr)>> \o p, n))
  <2>1. x = Pair(x.car, x.cdr) /\ Sound(np, x.car)
    BY <1>4, <1>12, SoundPair
  <2>2. PICK a, l, pp : a = x.car /\ l = x.cdr /\ pp = <<Frame("P1LIST", l)>> \o p
    OBVIOUS
  <2>3. Taken(np, X, T, a, pp, n, port, j)
    BY <1>1, <1>2, <1>12, <2>2, TokenOfDatum
  <2>4. Match(X[n], j, p, dump, Pair(a, l))
    BY <1>4, <2>1, <2>2
  <2>5. Pair(a, l) = reverse_in_place(Pair(a, l), << >>) /\ IsSeq(<< >>)
    BY ReversedNone, SeqEmpty
  <2>6. Match(X[n], j, <<Frame("P1LIST", l)>> \o p, <<Frame("RDLIST", << >>)>> \o dump, a)
    BY ONLY <2>4, <2>5, PushList
  <2>7. Match(X[n], j, pp, <<Frame("RDLIST", << >>)>> \o Saved(tok, dump), a)
    BY <1>6, <1>12, <2>2, <2>6, SavedIs
  <2>8. Sound(np, a) /\ j <= port.past_the_end /\ j <= j
    BY <1>1, <1>2, <2>1, <2>2
  <2> QED BY <1>1, <1>2, <1>5, <1>6, <1>7, <2>3, <2>7, <2>8, ListBegins
<1> QED
  <2>1. ~Abbreviates(tok, x)
    BY <1>3 DEF Abbreviates
  <2> QED BY <1>3, <1>4, <1>10, <1>11, <1>12, <2>1 DEF Begins

(* A mark has been taken, and the datum behind it follows.                 *)
LEMMA MarkGoesOn ==
  ASSUME NEW np, NEW X, NEW T, TextThere(np, X, T), GotSome(X), Len(got) < Len(X), got' = got,
         nesting \in Nat, nesting' = nesting, NEW j, j = port.curr, np => nesting = Opens(T, j),
         NEW o \in AbbreviationOps, s_save(o, << >>), NextExpression(NextToken),
         NEW n, n = Len(got) + 1, NEW p, NEW x, Match(X[n], j, p, dump, x),
         NEW y, Sound(np, y), x = Pair(Mark(o), Pair(y, NIL)), Taken(np, X, T, y, p, n, port, j)
  PROVE  Tracks(np, X, T)'
<1>1. j \in Nat /\ j <= port.past_the_end /\ j <= j
  BY TextBounds
<1>2. dump' = <<Frame(o, << >>)>> \o dump
  BY DEF s_save, Frame
<1>3. Match(X[n], j, p, <<Frame(o, << >>)>> \o dump, y)
  BY PushMark
<1>4. Match(X[n], j, p, dump', y)
  BY <1>2, <1>3
<1>5. NextExpression(token(port, j)) /\ (np => nesting' = Opens(T, j))
  BY DEF NextToken
<1> QED BY <1>1, <1>4, <1>5, Arrives

LEMMA MarkedParts ==
  ASSUME NEW np, NEW x, Sound(np, x), NEW t, Abbreviates(t, x)
  PROVE  /\ Sound(np, x.cdr.car) /\ x = Pair(x.car, Pair(x.cdr.car, NIL))
         /\ \/ t = "QUOTE" /\ x.car = QUOTE
            \/ t = "BQUOTE" /\ x.car = QQUOTE /\ x.cdr.car.type # "vector"
            \/ t = "COMMA" /\ x.car = UNQUOTE
            \/ t = "ATMARK" /\ x.car = UNQUOTESP
<1>1. Abbreviated(x)
  BY DEF Abbreviates
<1>2. x.type = "pair" /\ x.cdr.type = "pair" /\ x.cdr.cdr = NIL
  BY <1>1, PrefixSeq
<1>3. x = Pair(x.car, x.cdr) /\ ~Misread(x) /\ Sound(np, x.cdr)
  BY <1>2, SoundPair
<1>4. PICK d : d = x.cdr
  OBVIOUS
<1>5. d = Pair(d.car, d.cdr) /\ Sound(np, d.car)
  BY <1>2, <1>3, <1>4, SoundPair
<1>6. x.car = QQUOTE => x.cdr.car.type # "vector"
  BY <1>1, <1>3 DEF Misread
<1> QED BY <1>2, <1>3, <1>4, <1>5, <1>6 DEF Abbreviates

LEMMA InsideMark ==
  ASSUME NEW np, NEW X, NEW T, TextThere(np, X, T), Inside(np, X, T), nesting \in Nat,
         tok \in {"QUOTE", "BQUOTE", "COMMA", "ATMARK"}, NEW j, j = port.curr, NEW n, n = Len(got) + 1
  PROVE  /\ Len(got) < Len(X) /\ (np => nesting = Opens(T, j))
         /\ \E x, p : /\ Match(X[n], j, p, dump, x) /\ Sound(np, x) /\ Abbreviates(tok, x)
                      /\ Taken(np, X, T, x.cdr.car, p, n, port, j)
<1>1. PICK x, p : /\ Sound(np, x) /\ Begins(np, X, T, x, p, n, tok, j)
                  /\ Match(X[n], j, p, dump, x)
  BY DEF Inside
<1>2. Len(got) < Len(X) /\ (np => nesting + Ups(tok) = Opens(T, j))
  BY DEF Inside, Counted
<1>3. Ups(tok) = 0
  BY DEF Ups
<1>4. np => nesting = Opens(T, j)
  BY <1>2, <1>3
<1>5. Abbreviates(tok, x) /\ OnText(np, X, T, j, Place("P0LIST", x.cdr.car, p, n))
  BY <1>1 DEF Begins
<1>6. Taken(np, X, T, x.cdr.car, p, n, port, j)
  BY <1>5, TextBounds, TokenOfDatum
<1> QED BY <1>1, <1>2, <1>4, <1>5, <1>6

LEMMA TracksQuote ==
  ASSUME NEW np, NEW X, NEW T, TextThere(np, X, T), GotSome(X), Inside(np, X, T),
         RDSEXPR_QUOTE, got' = got, nesting \in Nat
  PROVE  Tracks(np, X, T)'
<1>1. PICK n, j : n = Len(got) + 1 /\ j = port.curr
  OBVIOUS
<1>2. PICK t \in {"QUOTE", "COMMA", "ATMARK"} :
         /\ tok = t
         /\ s_save(CASE t = "QUOTE" -> "RDQUOTE" [] t = "COMMA" -> "RDUNQUOTE"
                     [] t = "ATMARK" -> "RDUQTSP", << >>)
         /\ NextExpression(NextToken)
         /\ nesting' = nesting
  BY DEF RDSEXPR_QUOTE, Expression
<1>3. PICK o : o = CASE t = "QUOTE" -> "RDQUOTE" [] t = "COMMA" -> "RDUNQUOTE"
                     [] t = "ATMARK" -> "RDUQTSP"
  OBVIOUS
<1>4. tok \in {"QUOTE", "BQUOTE", "COMMA", "ATMARK"}
  BY <1>2
<1>5. /\ Len(got) < Len(X) /\ (np => nesting = Opens(T, j))
      /\ \E x, p : /\ Match(X[n], j, p, dump, x) /\ Sound(np, x) /\ Abbreviates(tok, x)
                   /\ Taken(np, X, T, x.cdr.car, p, n, port, j)
  BY <1>1, <1>4, InsideMark
<1>6. PICK x, p : /\ Match(X[n], j, p, dump, x) /\ Sound(np, x) /\ Abbreviates(t, x)
                  /\ Taken(np, X, T, x.cdr.car, p, n, port, j)
  BY <1>2, <1>5
<1>7. /\ Sound(np, x.cdr.car) /\ x = Pair(x.car, Pair(x.cdr.car, NIL))
      /\ \/ t = "QUOTE" /\ x.car = QUOTE
         \/ t = "COMMA" /\ x.car = UNQUOTE
         \/ t = "ATMARK" /\ x.car = UNQUOTESP
  BY <1>2, <1>6, MarkedParts
<1>8. o \in AbbreviationOps /\ x.car = Mark(o) /\ s_save(o, << >>)
  <2>1. CASE t = "QUOTE"
    <3>1. o = "RDQUOTE" /\ x.car = QUOTE
      BY <1>3, <1>7, <2>1
    <3> QED BY <1>2, <1>3, <3>1 DEF AbbreviationOps, Mark
  <2>2. CASE t = "COMMA"
    <3>1. o = "RDUNQUOTE" /\ x.car = UNQUOTE
      BY <1>3, <1>7, <2>2
    <3> QED BY <1>2, <1>3, <3>1 DEF AbbreviationOps, Mark
  <2>3. CASE t = "ATMARK"
    <3>1. o = "RDUQTSP" /\ x.car = UNQUOTESP
      BY <1>3, <1>7, <2>3
    <3> QED BY <1>2, <1>3, <3>1 DEF AbbreviationOps, Mark
  <2> QED BY <2>1, <2>2, <2>3
<1>9. PICK y : y = x.cdr.car
  OBVIOUS
<1>10. /\ Sound(np, y) /\ x = Pair(Mark(o), Pair(y, NIL)) /\ Taken(np, X, T, y, p, n, port, j)
  BY <1>6, <1>7, <1>8, <1>9
<1> QED BY <1>1, <1>2, <1>5, <1>6, <1>8, <1>10, MarkGoesOn

LEMMA TracksBquote ==
  ASSUME NEW np, NEW X, NEW T, TextThere(np, X, T), GotSome(X), Inside(np, X, T),
         RDSEXPR_BQUOTE, got' = got, nesting \in Nat
  PROVE  Tracks(np, X, T)'
<1>1. PICK n, j : n = Len(got) + 1 /\ j = port.curr
  OBVIOUS
<1>2. tok = "BQUOTE" /\ nesting' = nesting
  BY DEF RDSEXPR_BQUOTE, Expression
<1>3. /\ Len(got) < Len(X) /\ (np => nesting = Opens(T, j))
      /\ \E x, p : /\ Match(X[n], j, p, dump, x) /\ Sound(np, x) /\ Abbreviates(tok, x)
                   /\ Taken(np, X, T, x.cdr.car, p, n, port, j)
  BY <1>1, <1>2, InsideMark
<1>4. PICK x, p : /\ Match(X[n], j, p, dump, x) /\ Sound(np, x) /\ Abbreviates("BQUOTE", x)
                  /\ Taken(np, X, T, x.cdr.car, p, n, port, j)
  BY <1>2, <1>3
<1>5. /\ Sound(np, x.cdr.car) /\ x = Pair(x.car, Pair(x.cdr.car, NIL))
      /\ x.car = QQUOTE /\ x.cdr.car.type # "vector"
  BY <1>4, MarkedParts
<1>6. PICK y : y = x.cdr.car
  OBVIOUS
<1>7. /\ Sound(np, y) /\ x = Pair(Mark("RDQQUOTE"), Pair(y, NIL)) /\ Taken(np, X, T, y, p, n, port, j)
  BY <1>4, <1>5, <1>6 DEF Mark
<1>8. NextToken.tok # "VEC"
  <2>1. j \in Nat
    BY <1>1, TextBounds
  <2>2. token(port, j).tok = "VEC" => y.type = "vector"
    BY <1>7, <2>1, TakenEnds
  <2> QED BY <1>1, <1>5, <1>6, <2>2 DEF NextToken
<1>9. s_save("RDQQUOTE", << >>) /\ NextExpression(NextToken) /\ "RDQQUOTE" \in AbbreviationOps
  BY <1>8 DEF RDSEXPR_BQUOTE, AbbreviationOps
<1> QED BY <1>1, <1>2, <1>3, <1>4, <1>7, <1>9, MarkGoesOn
---------------------------------------------------------------------------
(* The opcodes that take an atom.                                          *)

LEMMA FollowsAtom ==
  ASSUME NEW np, NEW X, NEW T, NEW q, Cuts(q, T), NEW c, c <= q.past_the_end,
         NEW p, Unprinted(p), NEW n, OnText(np, X, T, c, Pop(p, n))
  PROVE  /\ c \in Nat /\ At(q, c) \in Delimiters \cup {EOF}
         /\ p # << >> => At(q, c) # Newline
<1>1. CASE p = << >>
  <2>1. OnText(np, X, T, c, Place("returned", NIL, << >>, n))
    BY <1>1 DEF Pop
  <2> QED BY <1>1, <2>1, Follows
<1>2. CASE p # << >>
  <2>1. PICK o, a, s : o = Head(p).op /\ a = Head(p).args /\ s = Tail(p)
    OBVIOUS
  <2>2. OnText(np, X, T, c, Place(o, a, s, n))
    BY <1>2, <2>1 DEF Pop
  <2>3. o \in {"P1LIST", "PVECFROM"} /\ o # "returned"
    BY <1>2, <2>1 DEF Unprinted
  <2> QED BY <2>2, <2>3, Follows
<1> QED BY <1>1, <1>2

(* All of an atom is there, or the text ends before it does.               *)
LEMMA AtomTaken ==
  ASSUME NEW np, NEW X, NEW T, TextThere(np, X, T), NEW j, j = port.curr,
         NEW w, Lexical(w), NEW p, Unprinted(p), NEW n, AtomRest(np, X, T, w, p, n, j)
  PROVE  \/ \E c \in Nat : /\ j <= c /\ c <= port.past_the_end
                           /\ readstr_upto(port, j) = [str |-> w, at |-> c]
                           /\ OnText(np, X, T, c, Pop(p, n)) /\ (np => Opens(T, c) = Opens(T, j))
         \/ /\ readstr_upto(port, j).at = port.past_the_end /\ port.past_the_end < Len(T)
            /\ np => Opens(T, port.past_the_end) = Opens(T, j)
<1>1. PICK m : m = port.past_the_end
  OBVIOUS
<1>2. /\ Cuts(port, T) /\ m \in Nat /\ Len(T) \in Nat /\ j \in Nat /\ j <= m /\ IsSeq(T)
  BY <1>1, TextBounds DEF Cuts
<1>3. IsSeq(w) /\ Len(w) \in Nat
  BY LexicalFirst
<1>4. Slice(T, j, w) /\ OnText(np, X, T, j + Len(w), Pop(p, n)) /\ (np => NoParen(w)) /\ j + Len(w) <= Len(T)
  BY DEF AtomRest, Slice
<1>5. CASE j + Len(w) <= m
  <2>1. PICK c \in Nat : c = j + Len(w) /\ j <= c /\ c <= m /\ c <= j + Len(w)
    BY <1>2, <1>3, <1>5
  <2>2. OnText(np, X, T, c, Pop(p, n))
    BY <1>4, <2>1
  <2>3. At(port, c) \in Delimiters \cup {EOF}
    BY <1>1, <1>2, <2>1, <2>2, FollowsAtom
  <2>4. readstr_upto(port, j) = [str |-> w, at |-> j + Len(w)]
    BY <1>1, <1>2, <1>3, <1>4, <1>5, <2>1, <2>3, UptoWhole
  <2>5. np => Opens(T, c) = Opens(T, j)
    BY <1>2, <1>3, <1>4, <2>1, OpensSlice
  <2> QED BY <1>1, <2>1, <2>2, <2>4, <2>5
<1>6. CASE m < j + Len(w)
  <2>1. readstr_upto(port, j).at = m
    BY <1>1, <1>2, <1>3, <1>4, <1>6, UptoCut
  <2>2. np => Opens(T, m) = Opens(T, j)
    <3>1. m <= j + Len(w)
      BY <1>2, <1>3, <1>6
    <3> QED BY <1>2, <1>3, <1>4, <3>1, OpensSlice
  <2> QED BY <1>1, <1>2, <1>3, <1>4, <1>6, <2>1, <2>2
<1> QED BY <1>2, <1>3, <1>5, <1>6

(* Something is returned in place of an atom that is cut off.              *)
LEMMA AtomIsCut ==
  ASSUME NEW np, NEW X, NEW T, TextThere(np, X, T), GotSome(X), Len(got) < Len(X), got' = got,
         nesting' = nesting, port.past_the_end < Len(T), Advance(port.past_the_end),
         NEW d, Begun(dump, d), NEW v, ReturnTo(dump, v), np => nesting = Opens(T, port.past_the_end),
         NEW b, NEW p, NEW x, Match(X[Len(got) + 1], b, p, dump, x), ~Bracketed(x)
  PROVE  Tracks(np, X, T)'
<1>1. GoesOnAt(port.past_the_end)
  BY TextBounds, AdvanceGoesOn
<1>2. Bracketed(X[1]) => got = << >> /\ ((p = << >> /\ dump = << >> /\ x = X[1]) \/ DoomedDump(dump))
  BY InsideDoomed
<1>3. Bracketed(X[1]) => got = << >> /\ DoomedDump(dump)
  BY <1>2
<1> QED BY <1>1, <1>3, LostGives

LEMMA InsideAtom ==
  ASSUME NEW np, NEW X, NEW T, Inside(np, X, T), nesting \in Nat,
         tok \in {"ATOM", "SHARP_CONST", "DQUOTE"}, NEW j, j = port.curr, NEW n, n = Len(got) + 1
  PROVE  /\ Len(got) < Len(X) /\ (np => nesting = Opens(T, j))
         /\ \E x, p : /\ Sound(np, x) /\ Begins(np, X, T, x, p, n, tok, j) /\ Match(X[n], j, p, dump, x)
                      /\ Unprinted(p)
<1>1. PICK x, p : /\ Sound(np, x) /\ Begins(np, X, T, x, p, n, tok, j) /\ Match(X[n], j, p, dump, x)
  BY DEF Inside
<1>2. Len(got) < Len(X) /\ (np => nesting + Ups(tok) = Opens(T, j))
  BY DEF Inside, Counted
<1>3. Ups(tok) = 0
  BY DEF Ups
<1>4. np => nesting = Opens(T, j)
  BY <1>2, <1>3
<1>5. Unprinted(p)
  BY <1>1, MatchIs
<1> QED BY <1>1, <1>2, <1>4, <1>5

LEMMA TracksAtom ==
  ASSUME NEW np, NEW X, NEW T, TextThere(np, X, T), GotSome(X), Inside(np, X, T),
         RDSEXPR_ATOM, got' = got, nesting \in Nat, NEW d, Begun(dump, d)
  PROVE  Tracks(np, X, T)'
<1>1. PICK n, j : n = Len(got) + 1 /\ j = port.curr
  OBVIOUS
<1>2. tok = "ATOM" /\ nesting' = nesting
  BY DEF RDSEXPR_ATOM, Expression
<1>3. PICK r : r = readstr_upto(port, j)
  OBVIOUS
<1>4. ReturnTo(dump, mk_atom(r.str)) /\ Advance(r.at)
  BY <1>1, <1>3 DEF RDSEXPR_ATOM, s_return
<1>5. /\ Len(got) < Len(X) /\ (np => nesting = Opens(T, j))
      /\ \E x, p : /\ Sound(np, x) /\ Begins(np, X, T, x, p, n, tok, j) /\ Match(X[n], j, p, dump, x)
                   /\ Unprinted(p)
  BY <1>1, <1>2, InsideAtom
<1>6. PICK x, p : /\ Begins(np, X, T, x, p, n, "ATOM", j) /\ Match(X[n], j, p, dump, x) /\ Unprinted(p)
  BY <1>2, <1>5
<1>7. x.type \in {"number", "symbol"} /\ ~Bracketed(x)
  BY <1>6 DEF Begins, Abbreviates, Bracketed
<1>8. PICK w : Lexical(w) /\ mk_atom(w) = x /\ AtomRest(np, X, T, w, p, n, j)
  BY <1>6 DEF Begins, Abbreviates
<1>9. \/ \E c \in Nat : /\ j <= c /\ c <= port.past_the_end
                        /\ r = [str |-> w, at |-> c]
                        /\ OnText(np, X, T, c, Pop(p, n)) /\ (np => Opens(T, c) = Opens(T, j))
      \/ /\ r.at = port.past_the_end /\ port.past_the_end < Len(T)
         /\ np => Opens(T, port.past_the_end) = Opens(T, j)
  BY <1>1, <1>3, <1>6, <1>8, AtomTaken
<1>10. CASE \E c \in Nat : /\ j <= c /\ c <= port.past_the_end
                           /\ r = [str |-> w, at |-> c]
                           /\ OnText(np, X, T, c, Pop(p, n)) /\ (np => Opens(T, c) = Opens(T, j))
  <2>1. PICK c \in Nat : /\ j <= c /\ c <= port.past_the_end
                         /\ r = [str |-> w, at |-> c]
                         /\ OnText(np, X, T, c, Pop(p, n)) /\ (np => Opens(T, c) = Opens(T, j))
    BY <1>10
  <2>2. r.str = w /\ r.at = c
    BY <2>1
  <2>3. ReturnTo(dump, x) /\ GoesOnAt(c)
    BY <1>4, <1>8, <2>1, <2>2, AdvanceGoesOn
  <2>4. Onward(np, X, T, p, n, c) /\ (np => nesting' = Opens(T, c))
    BY <1>2, <1>5, <2>1 DEF Onward
  <2>5. j \in Nat
    BY <1>1, TextBounds
  <2> QED BY <1>1, <1>5, <1>6, <2>1, <2>3, <2>4, <2>5, Gives
<1>11. CASE /\ r.at = port.past_the_end /\ port.past_the_end < Len(T)
            /\ np => Opens(T, port.past_the_end) = Opens(T, j)
  <2>1. Match(X[Len(got) + 1], j, p, dump, x) /\ Advance(port.past_the_end)
    BY <1>1, <1>4, <1>6, <1>11
  <2>2. np => nesting = Opens(T, port.past_the_end)
    BY <1>5, <1>11
  <2> QED BY <1>2, <1>4, <1>5, <1>7, <1>11, <2>1, <2>2, AtomIsCut
<1> QED BY <1>9, <1>10, <1>11

LEMMA TracksSharp ==
  ASSUME NEW np, NEW X, NEW T, TextThere(np, X, T), GotSome(X), Inside(np, X, T),
         RDSEXPR_SHARP_CONST, got' = got, nesting \in Nat, NEW d, Begun(dump, d)
  PROVE  Tracks(np, X, T)'
<1>1. PICK n, j : n = Len(got) + 1 /\ j = port.curr
  OBVIOUS
<1>2. tok = "SHARP_CONST" /\ nesting' = nesting
  BY DEF RDSEXPR_SHARP_CONST, Expression
<1>3. PICK r : r = readstr_upto(port, j)
  OBVIOUS
<1>4. /\ Advance(r.at)
      /\ mk_sharp_const(r.str) = {} => op' = "error"
      /\ mk_sharp_const(r.str) # {} => \E v \in mk_sharp_const(r.str) : ReturnTo(dump, v)
  BY <1>1, <1>3 DEF RDSEXPR_SHARP_CONST, s_return, Error
<1>5. /\ Len(got) < Len(X) /\ (np => nesting = Opens(T, j))
      /\ \E x, p : /\ Sound(np, x) /\ Begins(np, X, T, x, p, n, tok, j) /\ Match(X[n], j, p, dump, x)
                   /\ Unprinted(p)
  BY <1>1, <1>2, InsideAtom
<1>6. PICK x, p : /\ Begins(np, X, T, x, p, n, "SHARP_CONST", j) /\ Match(X[n], j, p, dump, x) /\ Unprinted(p)
  BY <1>2, <1>5
<1>7. x.type \in {"bool", "character"} /\ ~Bracketed(x)
  BY <1>6 DEF Begins, Abbreviates, Bracketed
<1>8. PICK w : Lexical(w) /\ mk_sharp_const(w) = {x} /\ AtomRest(np, X, T, w, p, n, j)
  BY <1>6 DEF Begins, Abbreviates
<1>9. \/ \E c \in Nat : /\ j <= c /\ c <= port.past_the_end
                        /\ r = [str |-> w, at |-> c]
                        /\ OnText(np, X, T, c, Pop(p, n)) /\ (np => Opens(T, c) = Opens(T, j))
      \/ /\ r.at = port.past_the_end /\ port.past_the_end < Len(T)
         /\ np => Opens(T, port.past_the_end) = Opens(T, j)
  BY <1>1, <1>3, <1>6, <1>8, AtomTaken
<1>10. CASE \E c \in Nat : /\ j <= c /\ c <= port.past_the_end
                           /\ r = [str |-> w, at |-> c]
                           /\ OnText(np, X, T, c, Pop(p, n)) /\ (np => Opens(T, c) = Opens(T, j))
  <2>1. PICK c \in Nat : /\ j <= c /\ c <= port.past_the_end
                         /\ r = [str |-> w, at |-> c]
                         /\ OnText(np, X, T, c, Pop(p, n)) /\ (np => Opens(T, c) = Opens(T, j))
    BY <1>10
  <2>2. r.str = w /\ r.at = c
    BY <2>1
  <2>3. mk_sharp_const(r.str) = {x}
    BY <1>8, <2>2
  <2>4. ReturnTo(dump, x) /\ Advance(c)
    BY <1>4, <2>2, <2>3
  <2>5. GoesOnAt(c)
    BY <2>1, <2>4, AdvanceGoesOn
  <2>6. Onward(np, X, T, p, n, c) /\ (np => nesting' = Opens(T, c))
    BY <1>2, <1>5, <2>1 DEF Onward
  <2>7. j \in Nat
    BY <1>1, TextBounds
  <2> QED BY <1>1, <1>5, <1>6, <2>1, <2>4, <2>5, <2>6, <2>7, Gives
<1>11. CASE /\ r.at = port.past_the_end /\ port.past_the_end < Len(T)
            /\ np => Opens(T, port.past_the_end) = Opens(T, j)
  <2>1. Match(X[Len(got) + 1], j, p, dump, x) /\ Advance(port.past_the_end)
    BY <1>1, <1>4, <1>6, <1>11
  <2>2. np => nesting = Opens(T, port.past_the_end)
    BY <1>5, <1>11
  <2>3. CASE mk_sharp_const(r.str) = {}
    <3>1. op' = "error"
      BY <1>4, <2>3
    <3>2. GoesOnAt(port.past_the_end)
      BY <2>1, TextBounds, AdvanceGoesOn
    <3>3. got = << >>
      BY <1>5, <1>11, NothingYet
    <3> QED BY <1>11, <3>1, <3>2, <3>3, LostFails
  <2>4. CASE mk_sharp_const(r.str) # {}
    <3>1. PICK v : ReturnTo(dump, v)
      BY <1>4, <2>4
    <3> QED BY <1>2, <1>5, <1>7, <1>11, <2>1, <2>2, <3>1, AtomIsCut
  <2> QED BY <2>3, <2>4
<1> QED BY <1>9, <1>10, <1>11

LEMMA TracksString ==
  ASSUME NEW np, NEW X, NEW T, TextThere(np, X, T), GotSome(X), Inside(np, X, T),
         RDSEXPR_DQUOTE, got' = got, nesting \in Nat
  PROVE  Tracks(np, X, T)'
<1>1. PICK n, j, m : n = Len(got) + 1 /\ j = port.curr /\ m = port.past_the_end
  OBVIOUS
<1>2. tok = "DQUOTE" /\ nesting' = nesting
  BY DEF RDSEXPR_DQUOTE, Expression
<1>3. PICK r : r = readstrexp(port, j)
  OBVIOUS
<1>4. /\ Advance(r.at)
      /\ r.state = "bad" => op' = "error"
      /\ r.state # "bad" => ReturnTo(dump, String(r.str))
  BY <1>1, <1>3 DEF RDSEXPR_DQUOTE, s_return, Error
<1>5. /\ Len(got) < Len(X) /\ (np => nesting = Opens(T, j))
      /\ \E x, p : /\ Sound(np, x) /\ Begins(np, X, T, x, p, n, tok, j) /\ Match(X[n], j, p, dump, x)
                   /\ Unprinted(p)
  BY <1>1, <1>2, InsideAtom
<1>6. PICK x, p : /\ Begins(np, X, T, x, p, n, "DQUOTE", j) /\ Match(X[n], j, p, dump, x)
  BY <1>2, <1>5
<1>7. x = String(x.svalue) /\ IsText(x.svalue) /\ Len(x.svalue) < STRBUFFSIZE
  BY <1>6 DEF Begins, Abbreviates
<1>8. PICK s : s = x.svalue
  OBVIOUS
<1>9. PICK e : Escapes(s, e) /\ AtomRest(np, X, T, e[Len(s)] \o <<DOUBLEQUOTE>>, p, n, j)
  BY <1>6, <1>8 DEF Begins, Abbreviates
<1>10. PICK u : u = e[Len(s)]
  OBVIOUS
<1>11. IsSeq(u) /\ Len(u) \in Nat /\ IsSeq(u \o <<DOUBLEQUOTE>>) /\ Len(u \o <<DOUBLEQUOTE>>) = Len(u) + 1
  <2>1. IsSeq(s)
    BY <1>7, <1>8, TextSeq
  <2>2. Len(s) \in 0 .. Len(s)
    BY <2>1, SeqLen
  <2>3. IsSeq(u)
    BY <1>9, <1>10, <2>2 DEF Escapes
  <2>4. PICK v : v = <<DOUBLEQUOTE>> /\ IsSeq(v) /\ Len(v) = 1
    BY SeqOne
  <2>5. IsSeq(u \o v) /\ Len(u) \in Nat /\ Len(u \o v) = Len(u) + Len(v)
    BY ONLY <2>3, <2>4, SeqConcat
  <2> QED BY <2>3, <2>4, <2>5
<1>12. PICK w : w = u \o <<DOUBLEQUOTE>>
  OBVIOUS
<1>13. /\ Slice(T, j, w) /\ OnText(np, X, T, j + (Len(u) + 1), Pop(p, n)) /\ (np => NoParen(w))
       /\ IsSeq(w) /\ Len(w) = Len(u) + 1
  <2>1. AtomRest(np, X, T, w, p, n, j) /\ Len(w) = Len(u) + 1 /\ IsSeq(w)
    BY <1>9, <1>10, <1>11, <1>12
  <2> QED BY <2>1 DEF AtomRest
<1>14. /\ Cuts(port, T) /\ m \in Nat /\ Len(T) \in Nat /\ m <= Len(T) /\ j \in Nat /\ j <= m /\ IsSeq(T)
       /\ j \in 0 .. port.past_the_end /\ port.past_the_end \in Nat
  BY <1>1, TextBounds DEF Cuts
<1>15. /\ j + Len(u) + 1 <= m =>
             r.state = "closed" /\ r.str = s /\ r.at = j + Len(u) + 1
       /\ m < j + Len(u) + 1 => r.state = "bad"
  <2>1. Slice(T, j, e[Len(s)] \o <<DOUBLEQUOTE>>)
    BY <1>10, <1>12, <1>13
  <2>2. IsText(s) /\ Len(s) < STRBUFFSIZE
    BY <1>7, <1>8
  <2>3. /\ j + Len(e[Len(s)]) + 1 <= port.past_the_end =>
             /\ readstrexp(port, j).state = "closed" /\ readstrexp(port, j).str = s
             /\ readstrexp(port, j).at = j + Len(e[Len(s)]) + 1
        /\ port.past_the_end < j + Len(e[Len(s)]) + 1 => readstrexp(port, j).state = "bad"
    BY ONLY <1>14, <1>9, <2>1, <2>2, StringReadBack
  <2> QED BY <1>1, <1>3, <1>10, <2>3
<1>16. CASE j + Len(u) + 1 <= m
  <2>1. PICK c \in Nat : c = j + Len(u) + 1 /\ j <= c /\ c <= port.past_the_end /\ c <= j + Len(w)
                         /\ c = j + (Len(u) + 1)
    BY <1>1, <1>11, <1>13, <1>14, <1>16
  <2>2. r.state # "bad" /\ r.str = s /\ r.at = c
    BY <1>15, <1>16, <2>1
  <2>3. ReturnTo(dump, x) /\ Advance(c)
    BY <1>4, <1>7, <1>8, <2>2
  <2>4. GoesOnAt(c)
    BY <2>1, <2>3, AdvanceGoesOn
  <2>5. np => Opens(T, c) = Opens(T, j)
    BY <1>13, <1>14, <2>1, OpensSlice
  <2>6. Onward(np, X, T, p, n, c) /\ (np => nesting' = Opens(T, c))
    BY <1>2, <1>5, <1>13, <2>1, <2>5 DEF Onward
  <2> QED BY <1>1, <1>5, <1>6, <1>14, <2>1, <2>3, <2>4, <2>6, Gives
<1>17. CASE m < j + Len(u) + 1
  <2>1. op' = "error" /\ Advance(r.at)
    BY <1>4, <1>15, <1>17
  <2>2. r.at \in Nat /\ r.at <= port.past_the_end
    BY <1>3, <1>14, StringBounds
  <2>3. GoesOnAt(r.at)
    BY <2>1, <2>2, AdvanceGoesOn
  <2>4. port.past_the_end < Len(T)
    BY <1>1, <1>11, <1>13, <1>14, <1>17 DEF Slice
  <2>5. got = << >>
    BY <1>5, <2>4, NothingYet
  <2> QED BY <2>1, <2>3, <2>4, <2>5, LostFails
<1> QED BY <1>11, <1>14, <1>16, <1>17
---------------------------------------------------------------------------
(* In a list, after one of its data.                                       *)

LEMMA PopPushed ==
  ASSUME NEW np, NEW X, NEW T, NEW q, IsSeq(q), NEW o, NEW a, NEW p, p = <<Frame(o, a)>> \o q, NEW n,
         NEW j, Onward(np, X, T, p, n, j)
  PROVE  OnText(np, X, T, j, Place(o, a, q, n)) /\ p # << >>
<1>1. PICK f : f = Frame(o, a) /\ f.op = o /\ f.args = a
  BY PlaceFields
<1>2. p = <<f>> \o q
  BY <1>1
<1>3. p # << >> /\ Head(p) = f /\ Tail(p) = q
  BY <1>2, Pushed
<1>4. Pop(p, n) = Place(o, a, q, n)
  BY <1>1, <1>3 DEF Pop
<1> QED BY <1>3, <1>4 DEF Onward

LEMMA RdlistIs ==
  ASSUME RDLIST, NEW L, L = <<value>> \o args
  PROVE  /\ NextToken.tok = EOF => /\ ReturnTo(dump, EOF_OBJ) /\ Advance(NextToken.at) /\ nesting' = nesting
         /\ NextToken.tok = "RPAREN" =>
              /\ ReturnTo(dump, reverse_in_place(NIL, L)) /\ nesting' = nesting - 1
              /\ Advance(IF At(port, NextToken.at) = Newline THEN NextToken.at + 1 ELSE NextToken.at)
         /\ NextToken.tok = "DOT" =>
              /\ dump' = <<Frame("RDDOT", L)>> \o dump /\ nesting' = nesting
              /\ NextExpression(token(port, NextToken.at))
         /\ NextToken.tok \notin {EOF, "RPAREN", "DOT"} =>
              /\ dump' = <<Frame("RDLIST", L)>> \o dump /\ nesting' = nesting
              /\ NextExpression(NextToken)
<1>1. EOF \notin {"RPAREN", "DOT"}
  BY DEF EOF
<1>2. NextToken.tok = EOF => /\ ReturnTo(dump, EOF_OBJ) /\ Advance(NextToken.at) /\ nesting' = nesting
  BY <1>1 DEF RDLIST, s_return
<1>3. NextToken.tok = "RPAREN" =>
        /\ ReturnTo(dump, reverse_in_place(NIL, L)) /\ nesting' = nesting - 1
        /\ Advance(IF At(port, NextToken.at) = Newline THEN NextToken.at + 1 ELSE NextToken.at)
  BY <1>1 DEF RDLIST, s_return, Newline
<1>4. NextToken.tok = "DOT" =>
        /\ dump' = <<Frame("RDDOT", L)>> \o dump /\ nesting' = nesting
        /\ NextExpression(token(port, NextToken.at))
  BY <1>1 DEF RDLIST, s_save, Frame
<1>5. NextToken.tok \notin {EOF, "RPAREN", "DOT"} =>
        /\ dump' = <<Frame("RDLIST", L)>> \o dump /\ nesting' = nesting
        /\ NextExpression(NextToken)
  BY DEF RDLIST, s_save, Frame
<1> QED BY <1>2, <1>3, <1>4, <1>5

(* The end of the text is found in a list.                                 *)
LEMMA ListIsOver ==
  ASSUME NEW np, NEW X, NEW T, TextThere(np, X, T), got' = got, port.past_the_end < Len(T),
         RDLIST, NextToken.tok = EOF, NextToken.at = port.past_the_end, NEW d, Begun(dump, d),
         np => nesting = Opens(T, port.past_the_end),
         Bracketed(X[1]) => got = << >> /\ Doomed("RDLIST", dump)
  PROVE  Tracks(np, X, T)'
<1>1. ReturnTo(dump, EOF_OBJ) /\ Advance(port.past_the_end) /\ nesting' = nesting
  BY RdlistIs
<1>2. GoesOnAt(port.past_the_end)
  BY <1>1, TextBounds, AdvanceGoesOn
<1>3. Doomed("RDLIST", dump) => dump = << >> \/ Head(dump).op = "RDVEC" \/ DoomedDump(dump)
  BY DoomedIs DEF AbbreviationOps
<1> QED BY <1>1, <1>2, <1>3, LostGives

(* Or it is found behind a dot.                                            *)
LEMMA DotIsOver ==
  ASSUME NEW np, NEW X, NEW T, TextThere(np, X, T), got' = got, port.past_the_end < Len(T), IsSeq(dump),
         RDLIST, NextToken.tok = "DOT", NextToken.at = port.past_the_end,
         np => nesting = Opens(T, port.past_the_end), Bracketed(X[1]) => got = << >>
  PROVE  Tracks(np, X, T)'
<1>1. PICK m : m = port.past_the_end
  OBVIOUS
<1>2. m \in Nat /\ m <= m
  BY <1>1, TextBounds
<1>3. token(port, m) = [tok |-> EOF, at |-> m]
  BY <1>1, <1>2, TokenAtEnd
<1>4. token(port, m).tok = EOF /\ token(port, m).at = m
  BY <1>3
<1>5. PICK L : L = <<value>> \o args
  OBVIOUS
<1>12. PICK f : f = Frame("RDDOT", L) /\ f.op = "RDDOT"
  BY PlaceFields
<1>6. dump' = <<f>> \o dump /\ nesting' = nesting /\ NextExpression(token(port, m))
  BY <1>1, <1>5, <1>12, RdlistIs
<1>7. op' = "RDSEXPR" /\ tok' = EOF /\ Advance(m)
  BY <1>4, <1>6 DEF NextExpression
<1>8. GoesOnAt(m)
  BY <1>1, <1>2, <1>7, AdvanceGoesOn
<1>9. Doomed("RDDOT", dump)
  BY DoomedPush
<1>10. dump' # << >> /\ Head(dump') = f /\ Tail(dump') = dump
  BY <1>6, Pushed
<1>11. DoomedDump(dump')
  BY <1>12, <1>9, <1>10 DEF DoomedDump
<1>13. np => nesting' = Opens(T, port.past_the_end)
  BY <1>6
<1>14. GoesOnAt(port.past_the_end)
  BY <1>1, <1>8
<1>15. Bracketed(X[1]) => got = << >> /\ (dump' = << >> \/ DoomedDump(dump'))
  BY <1>11
<1> QED BY <1>7, <1>13, <1>14, <1>15, LostGoesOn

(* Within a list that is cut off there is no way back to the datum.        *)
LEMMA ListDoomed ==
  ASSUME NEW np, NEW X, NEW T, TextThere(np, X, T), GotSome(X), Len(got) < Len(X),
         port.past_the_end < Len(T), IsSeq(dump), NEW b, NEW p, NEW o, NEW a, NEW x,
         Match(X[Len(got) + 1], b, p, <<Frame(o, a)>> \o dump, x)
  PROVE  Bracketed(X[1]) => got = << >> /\ Doomed(o, dump)
<1>1. PICK f, r : f = Frame(o, a) /\ f.op = o /\ r = <<f>> \o dump
  BY PlaceFields
<1>2. Match(X[Len(got) + 1], b, p, r, x)
  BY <1>1
<1>3. Bracketed(X[1]) => got = << >> /\ ((p = << >> /\ r = << >> /\ x = X[1]) \/ DoomedDump(r))
  BY <1>2, InsideDoomed
<1>4. r # << >> /\ Head(r) = f /\ Tail(r) = dump
  BY <1>1, Pushed
<1> QED BY <1>1, <1>3, <1>4 DEF DoomedDump

(* One more datum of the list begins.                                      *)
LEMMA ListNext ==
  ASSUME NEW np, NEW X, NEW T, TextThere(np, X, T), GotSome(X), Len(got) < Len(X), got' = got,
         nesting \in Nat, RDLIST, IsSeq(dump), NEW d, Begun(dump, d), NEW L, L = <<value>> \o args,
         NEW i \in Nat, i <= port.past_the_end, NextToken = token(port, i), np => nesting = Opens(T, i),
         NEW y, NEW p, NEW n, n = Len(got) + 1, Taken(np, X, T, y, p, n, port, i), Sound(np, y),
         NEW b \in Nat, b <= i, Match(X[n], b, p, <<Frame("RDLIST", L)>> \o dump, y)
  PROVE  Tracks(np, X, T)'
<1>1. /\ token(port, i).tok # "RPAREN"
      /\ token(port, i).tok \in {EOF, "DOT"} =>
           /\ token(port, i).at = port.past_the_end /\ port.past_the_end < Len(T)
           /\ Opens(T, port.past_the_end) = Opens(T, i)
  BY TakenEnds
<1>2. Match(X[Len(got) + 1], b, p, <<Frame("RDLIST", L)>> \o dump, y)
  OBVIOUS
<1>3. CASE token(port, i).tok = EOF
  <2>1. port.past_the_end < Len(T)
    BY <1>1, <1>3
  <2>2. Bracketed(X[1]) => got = << >> /\ Doomed("RDLIST", dump)
    BY <1>2, <2>1, ListDoomed
  <2> QED BY <1>1, <1>3, <2>1, <2>2, ListIsOver
<1>4. CASE token(port, i).tok = "DOT"
  <2>1. port.past_the_end < Len(T)
    BY <1>1, <1>4
  <2>2. got = << >>
    BY <2>1, NothingYet
  <2> QED BY <1>1, <1>4, <2>1, <2>2, DotIsOver
<1>5. CASE token(port, i).tok \notin {EOF, "DOT"}
  <2>1. /\ dump' = <<Frame("RDLIST", L)>> \o dump /\ nesting' = nesting
        /\ NextExpression(token(port, i))
    BY <1>1, <1>5, RdlistIs
  <2>2. Match(X[n], b, p, dump', y)
    BY <2>1
  <2> QED BY <2>1, <2>2, Arrives
<1> QED BY <1>3, <1>4, <1>5

(* The list ends, and a newline behind it is swallowed.                    *)
Ended(np, X, T, q, n, j, v) ==
  /\ ReturnTo(dump, v) /\ j \in Nat
  /\ \E c \in Nat : /\ GoesOnAt(c) /\ j <= c /\ Onward(np, X, T, q, n, c)
                    /\ np => nesting' = Opens(T, c)

LEMMA ListEnds ==
  ASSUME NEW np, NEW X, NEW T, TextThere(np, X, T), RDLIST, NEW L, L = <<value>> \o args,
         nesting \in Nat, NEW j, j = port.curr, np => nesting = Opens(T, j),
         NEW q, Unprinted(q), NEW n, EndHere(np, X, T, q, n, port, j)
  PROVE  Ended(np, X, T, q, n, j, reverse_in_place(NIL, L))
<1>1. PICK m : m = port.past_the_end
  OBVIOUS
<1>2. /\ Cuts(port, T) /\ m \in Nat /\ Len(T) \in Nat /\ m <= Len(T) /\ j \in Nat /\ j <= m
      /\ j + 1 \in Nat /\ j + 2 \in Nat /\ (j + 1) + 1 = j + 2 /\ j <= j + 1 /\ j <= j + 2
  BY <1>1, TextBounds
<1>3. /\ token(port, j) = [tok |-> "RPAREN", at |-> j + 1] /\ j + 1 <= m
      /\ OnText(np, X, T, j + 1, Pop(q, n)) /\ Opens(T, j + 1) = Opens(T, j) - 1
  BY <1>1 DEF EndHere
<1>4. NextToken.tok = "RPAREN" /\ NextToken.at = j + 1
  BY <1>3 DEF NextToken
<1>5. /\ ReturnTo(dump, reverse_in_place(NIL, L)) /\ nesting' = nesting - 1
      /\ Advance(IF At(port, j + 1) = Newline THEN (j + 1) + 1 ELSE j + 1)
  BY <1>4, RdlistIs
<1>6. np => nesting' = Opens(T, j + 1)
  BY <1>3, <1>5
<1>7. CASE At(port, j + 1) # Newline
  <2>1. Advance(j + 1)
    BY <1>5, <1>7
  <2>2. GoesOnAt(j + 1)
    BY <1>1, <1>2, <1>3, <2>1, AdvanceGoesOn
  <2>3. Onward(np, X, T, q, n, j + 1)
    BY <1>3 DEF Onward
  <2> QED BY <1>2, <1>5, <1>6, <2>2, <2>3 DEF Ended
<1>8. CASE At(port, j + 1) = Newline
  <2>1. q = << >>
    <3>1. q # << >> => At(port, j + 1) # Newline
      BY <1>1, <1>2, <1>3, FollowsAtom
    <3> QED BY <1>8, <3>1
  <2>2. OnText(np, X, T, j + 1, Place("returned", NIL, << >>, n))
    BY <1>3, <2>1 DEF Pop
  <2>3. \/ j + 1 = Len(T)
        \/ \E t \in Separators : /\ IsSeq(t) /\ Slice(T, j + 1, t)
                                 /\ OnText(np, X, T, (j + 1) + Len(t), Place("idle", NIL, << >>, n))
    BY <2>2, FromEnd
  <2>4. j + 1 < m
    <3>1. j + 1 >= m => At(port, j + 1) = EOF
      BY <1>1, <1>2, CutBounds
    <3>2. At(port, j + 1) # EOF
      BY <1>8, BlanksEnd
    <3> QED BY <1>2, <3>1, <3>2
  <2>5. PICK t \in Separators : /\ IsSeq(t) /\ Slice(T, j + 1, t)
                                /\ OnText(np, X, T, (j + 1) + Len(t), Place("idle", NIL, << >>, n))
    BY <1>2, <2>3, <2>4
  <2>6. \/ Len(t) = 1 /\ t[1] \in {Blank, Newline}
        \/ Len(t) = 3 /\ t[1] = Semicolon
    BY SeparatorIs
  <2>7. Len(t) >= 1 => At(port, j + 1) = IF j + 1 < port.past_the_end THEN t[1] ELSE EOF
    BY <1>2, <2>5, CutFirst
  <2>8. t[1] = Newline
    BY <1>1, <1>8, <2>4, <2>6, <2>7
  <2>9. Len(t) = 1
    BY <2>6, <2>8, BlanksEnd
  <2>10. T[(j + 1) + 1] = Newline
    <3>1. 1 \in 1 .. Len(t)
      BY <2>9
    <3> QED BY <2>5, <2>8, <3>1 DEF Slice
  <2>11. Opens(T, (j + 1) + 1) = Opens(T, j + 1)
    <3>1. Newline \notin {"(", ")"}
      BY DEF Newline
    <3> QED BY <1>2, <2>10, <3>1, OpensNext
  <2>12. OnText(np, X, T, j + 2, Place("idle", NIL, << >>, n))
    BY <1>2, <2>5, <2>9
  <2>13. Onward(np, X, T, q, n, j + 2)
    BY <2>1, <2>12 DEF Onward, After
  <2>14. Advance(j + 2)
    BY <1>2, <1>5, <1>8
  <2>15. GoesOnAt(j + 2)
    <3>1. j + 2 <= port.past_the_end
      BY <1>1, <1>2, <2>4
    <3> QED BY <1>2, <2>14, <3>1, AdvanceGoesOn
  <2>16. np => nesting' = Opens(T, j + 2)
    BY <1>2, <1>6, <2>11
  <2> QED BY <1>2, <1>5, <2>13, <2>15, <2>16 DEF Ended
<1> QED BY <1>7, <1>8

LEMMA TracksInList ==
  ASSUME NEW np, NEW X, NEW T, TextThere(np, X, T), GotSome(X), Len(got) < Len(X), got' = got,
         nesting \in Nat, RDLIST, IsSeq(dump), NEW d, Begun(dump, d), NEW j, j = port.curr,
         np => nesting = Opens(T, j), NEW n, n = Len(got) + 1, NEW p, Onward(np, X, T, p, n, j),
         Match(X[n], j, p, <<Frame("RDLIST", args)>> \o dump, value),
         TakesList(X[n], j, p, dump, value, args)
  PROVE  Tracks(np, X, T)'
<1>1. PICK l, q : /\ IsSeq(args) /\ IsSeq(q) /\ p = <<Frame("P1LIST", l)>> \o q
                  /\ Match(X[n], j, q, dump, reverse_in_place(Pair(value, l), args))
  BY DEF TakesList
<1>2. OnText(np, X, T, j, Place("P1LIST", l, q, n))
  BY <1>1, PopPushed
<1>3. j \in Nat /\ j <= port.past_the_end /\ Cuts(port, T) /\ port.past_the_end \in Nat
  BY TextBounds
<1>4. Sound(np, l)
  BY <1>2, FromList
<1>5. PICK L : L = <<value>> \o args /\ IsSeq(L)
  BY <1>1, Pushed
<1>6. \A t : reverse_in_place(t, L) = reverse_in_place(Pair(value, t), args)
  BY <1>1, <1>5, ReversedPush
<1>7. Unprinted(q)
  BY <1>1, MatchIs
<1>8. NextToken = token(port, j)
  BY DEF NextToken
<1>9. \/ CutHere(T, port, j)
      \/ l = NIL /\ EndHere(np, X, T, q, n, port, j)
      \/ l.type = "pair" /\ NextHere(np, X, T, l.car, <<Frame("P1LIST", l.cdr)>> \o q, n, port, j)
      \/ DotHere(np, X, T, l, <<Frame("P1LIST", NIL)>> \o q, n, port, j)
  BY <1>2, <1>3, ListGoesOn
<1>10. CASE CutHere(T, port, j)
  <2>1. /\ token(port, j).tok = EOF /\ token(port, j).at = port.past_the_end
        /\ port.past_the_end < Len(T) /\ Opens(T, port.past_the_end) = Opens(T, j)
    BY <1>3, <1>10, CutGoesOn
  <2>2. Match(X[Len(got) + 1], j, p, <<Frame("RDLIST", args)>> \o dump, value)
    OBVIOUS
  <2>3. Bracketed(X[1]) => got = << >> /\ Doomed("RDLIST", dump)
    BY <2>1, <2>2, ListDoomed
  <2> QED BY <1>8, <2>1, <2>3, ListIsOver
<1>11. CASE l = NIL /\ EndHere(np, X, T, q, n, port, j)
  <2>4. Ended(np, X, T, q, n, j, reverse_in_place(NIL, L))
    BY <1>5, <1>7, <1>11, ListEnds
  <2>1. PICK c \in Nat : /\ GoesOnAt(c) /\ j <= c /\ Onward(np, X, T, q, n, c)
                         /\ np => nesting' = Opens(T, c)
    BY <2>4 DEF Ended
  <2>2. ReturnTo(dump, reverse_in_place(NIL, L))
    BY <2>4 DEF Ended
  <2>3. Match(X[n], j, q, dump, reverse_in_place(NIL, L))
    BY <1>1, <1>6, <1>11
  <2> QED BY <1>3, <2>1, <2>2, <2>3, Gives
<1>12. CASE l.type = "pair" /\ NextHere(np, X, T, l.car, <<Frame("P1LIST", l.cdr)>> \o q, n, port, j)
  <2>1. PICK y, r, pp : y = l.car /\ r = l.cdr /\ pp = <<Frame("P1LIST", r)>> \o q
    OBVIOUS
  <2>2. l = Pair(y, r) /\ Sound(np, y)
    BY <1>4, <1>12, <2>1, SoundPair
  <2>3. NextHere(np, X, T, y, pp, n, port, j)
    BY <1>12, <2>1
  <2>4. /\ token(port, j) = token(port, j + 1) /\ j + 1 <= port.past_the_end /\ Opens(T, j + 1) = Opens(T, j)
        /\ Taken(np, X, T, y, pp, n, port, j + 1)
    BY <2>3 DEF NextHere
  <2>5. Match(X[n], j, q, dump, reverse_in_place(Pair(y, r), L))
    BY <1>1, <1>6, <2>2
  <2>6. Match(X[n], j, pp, <<Frame("RDLIST", L)>> \o dump, y)
    <3>1. PICK z : z = reverse_in_place(Pair(y, r), L)
      OBVIOUS
    <3>2. Match(X[n], j, q, dump, z)
      BY <2>5, <3>1
    <3>3. Match(X[n], j, <<Frame("P1LIST", r)>> \o q, <<Frame("RDLIST", L)>> \o dump, y)
      BY ONLY <1>5, <3>1, <3>2, PushList
    <3> QED BY <2>1, <3>3
  <2>7. j + 1 \in Nat /\ j <= j + 1 /\ (np => nesting = Opens(T, j + 1)) /\ NextToken = token(port, j + 1)
    BY <1>3, <1>8, <2>4
  <2> QED BY <1>3, <1>5, <2>2, <2>4, <2>6, <2>7, ListNext
<1>13. CASE DotHere(np, X, T, l, <<Frame("P1LIST", NIL)>> \o q, n, port, j)
  <2>1. PICK pp : pp = <<Frame("P1LIST", NIL)>> \o q
    OBVIOUS
  <2>2. DotHere(np, X, T, l, pp, n, port, j)
    BY <1>13, <2>1
  <2>3. PICK a : /\ token(port, j) = [tok |-> "DOT", at |-> a]
                 /\ a \in Nat /\ a <= port.past_the_end /\ Opens(T, a) = Opens(T, j)
                 /\ \/ a = port.past_the_end /\ a < Len(T)
                    \/ a = j + 3 /\ Taken(np, X, T, l, pp, n, port, a)
    BY <2>2 DEF DotHere
  <2>4. NextToken.tok = "DOT" /\ NextToken.at = a
    BY <1>8, <2>3
  <2>5. CASE a = port.past_the_end /\ a < Len(T)
    <3>1. port.past_the_end < Len(T) /\ NextToken.at = port.past_the_end
      BY <2>4, <2>5
    <3>2. got = << >>
      BY <3>1, NothingYet
    <3>3. np => nesting = Opens(T, port.past_the_end)
      BY <2>3, <2>5
    <3> QED BY <2>4, <3>1, <3>2, <3>3, DotIsOver
  <2>6. CASE a = j + 3 /\ Taken(np, X, T, l, pp, n, port, a)
    <3>1. dump' = <<Frame("RDDOT", L)>> \o dump /\ nesting' = nesting /\ NextExpression(token(port, a))
      BY <1>5, <2>4, RdlistIs
    <3>2. Match(X[n], j, pp, dump', l)
      <4>1. PICK z : z = reverse_in_place(l, L)
        OBVIOUS
      <4>2. Match(X[n], j, q, dump, z)
        BY <1>1, <1>6, <4>1
      <4>3. Match(X[n], j, <<Frame("P1LIST", NIL)>> \o q, <<Frame("RDDOT", L)>> \o dump, l)
        BY ONLY <1>5, <4>1, <4>2, PushDot
      <4> QED BY <2>1, <3>1, <4>3
    <3>3. j <= a
      BY <1>3, <2>6
    <3>4. np => nesting' = Opens(T, a)
      BY <2>3, <3>1
    <3> QED BY <1>3, <1>4, <2>3, <2>6, <3>1, <3>2, <3>3, <3>4, Arrives
  <2> QED BY <2>3, <2>5, <2>6
<1> QED BY <1>9, <1>10, <1>11, <1>12, <1>13

LEMMA TracksInVector ==
  ASSUME NEW np, NEW X, NEW T, TextThere(np, X, T), GotSome(X), Len(got) < Len(X), got' = got,
         nesting \in Nat, RDLIST, IsSeq(dump), NEW d, Begun(dump, d), NEW j, j = port.curr,
         np => nesting = Opens(T, j), NEW n, n = Len(got) + 1, NEW p, Onward(np, X, T, p, n, j),
         Match(X[n], j, p, <<Frame("RDLIST", args)>> \o dump, value),
         TakesVector(X[n], j, p, dump, value, args)
  PROVE  Tracks(np, X, T)'
<1>1. PICK vec, k, q, u :
        /\ IsSeq(vec) /\ k \in 1 .. Len(vec) /\ k <= j /\ value = vec[k] /\ Backwards(vec, k - 1, args)
        /\ IsSeq(q) /\ IsSeq(u) /\ p = <<Frame("PVECFROM", From(vec, k))>> \o q
        /\ dump = <<Frame("RDVEC", << >>)>> \o u /\ Match(X[n], j, q, u, Vector(vec))
  BY DEF TakesVector
<1>2. OnText(np, X, T, j, Place("PVECFROM", From(vec, k), q, n))
  BY <1>1, PopPushed
<1>3. /\ j \in Nat /\ j <= port.past_the_end /\ Cuts(port, T) /\ port.past_the_end \in Nat
      /\ k \in Nat /\ Len(vec) \in Nat /\ k - 1 \in Nat /\ (k - 1) + 1 = k
  BY <1>1, TextBounds, SeqLen
<1>4. Sound(np, Vector(vec))
  BY <1>2, FromVector
<1>5. PICK L : L = <<value>> \o args
  OBVIOUS
<1>6. Backwards(vec, k, L) /\ IsSeq(L)
  <2>1. Backwards(vec, (k - 1) + 1, <<vec[(k - 1) + 1]>> \o args)
    BY ONLY <1>1, <1>3, BackwardsPush
  <2>2. Backwards(vec, k, L)
    BY <1>1, <1>3, <1>5, <2>1
  <2> QED BY <2>2 DEF Backwards
<1>7. Unprinted(q)
  BY <1>1, MatchIs
<1>8. NextToken = token(port, j)
  BY DEF NextToken
<1>9. \/ CutHere(T, port, j)
      \/ k = Len(vec) /\ EndHere(np, X, T, q, n, port, j)
      \/ /\ k # Len(vec)
         /\ NextHere(np, X, T, vec[k + 1], <<Frame("PVECFROM", From(vec, k + 1))>> \o q, n, port, j)
  BY <1>2, <1>3, VectorGoesOn
<1>10. CASE CutHere(T, port, j)
  <2>1. /\ token(port, j).tok = EOF /\ token(port, j).at = port.past_the_end
        /\ port.past_the_end < Len(T) /\ Opens(T, port.past_the_end) = Opens(T, j)
    BY <1>3, <1>10, CutGoesOn
  <2>2. Match(X[Len(got) + 1], j, p, <<Frame("RDLIST", args)>> \o dump, value)
    OBVIOUS
  <2>3. Bracketed(X[1]) => got = << >> /\ Doomed("RDLIST", dump)
    BY <2>1, <2>2, ListDoomed
  <2> QED BY <1>8, <2>1, <2>3, ListIsOver
<1>11. CASE k = Len(vec) /\ EndHere(np, X, T, q, n, port, j)
  <2>15. EndHere(np, X, T, q, n, port, j)
    BY <1>11
  <2>14. Ended(np, X, T, q, n, j, reverse_in_place(NIL, L))
    BY <1>5, <1>7, <2>15, ListEnds
  <2>1. PICK c \in Nat : /\ GoesOnAt(c) /\ j <= c /\ Onward(np, X, T, q, n, c)
                         /\ np => nesting' = Opens(T, c)
    BY <2>14 DEF Ended
  <2>13. ReturnTo(dump, reverse_in_place(NIL, L))
    BY <2>14 DEF Ended
  <2>2. PICK v : v = reverse_in_place(NIL, L) /\ ReturnTo(dump, v)
    BY <2>13
  <2>3. PICK f : f = Frame("RDVEC", << >>) /\ f.op = "RDVEC"
    BY PlaceFields
  <2>4. dump = <<f>> \o u
    BY <1>1, <2>3
  <2>5. dump # << >> /\ Head(dump) = f /\ Tail(dump) = u
    BY <1>1, <2>4, Pushed
  <2>6. value' = v /\ op' = "RDVEC" /\ dump' = u
    BY <2>2, <2>3, <2>5 DEF ReturnTo
  <2>7. TextThere(np, X, T)' /\ GotSome(X)' /\ port'.curr = c
    BY <2>1, TextStays, GotLen DEF GoesOnAt
  <2>8. Counted(np, T, 0)'
    <3>1. ASSUME np  PROVE nesting' + 0 = Opens(T, c)
      <4>1. Opens(T, c) \in Int
        BY <2>1, OpensInt
      <4> QED BY <2>1, <3>1, <4>1
    <3> QED BY <2>7, <3>1 DEF Counted
  <2>9. Match(X[n], c, q, dump', Vector(vec))
    <3>1. Match(X[n], c, q, u, Vector(vec))
      BY <1>1, <1>3, <2>1, MatchLater
    <3> QED BY <2>6, <3>1
  <2>10. Len(vec) <= c /\ Backwards(vec, Len(vec), L) /\ value' = reverse_in_place(NIL, L)
    BY <1>1, <1>3, <1>6, <1>11, <2>1, <2>2, <2>6
  <2>11. \E p1, vec1, d1 :
           /\ Onward(np, X, T, p1, n, c)
           /\ IsSeq(vec1) /\ Len(vec1) <= c
           /\ Backwards(vec1, Len(vec1), d1) /\ value' = reverse_in_place(NIL, d1)
           /\ Match(X[n], c, p1, dump', Vector(vec1))
    BY <1>1, <2>1, <2>9, <2>10
  <2>12. VectorRead(np, X, T)'
    BY <2>6, <2>7, <2>8, <2>11 DEF VectorRead
  <2> QED BY <2>7, <2>12 DEF Tracks
<1>12. CASE /\ k # Len(vec)
            /\ NextHere(np, X, T, vec[k + 1], <<Frame("PVECFROM", From(vec, k + 1))>> \o q, n, port, j)
  <2>1. PICK h, y, pp : h = k + 1 /\ y = vec[h] /\ pp = <<Frame("PVECFROM", From(vec, h))>> \o q
    OBVIOUS
  <2>2. h \in 1 .. Len(vec) /\ h - 1 = k /\ h <= j + 1 /\ j + 1 \in Nat /\ j <= j + 1 /\ j + 1 <= j + 1
    BY <1>1, <1>3, <1>12, <2>1
  <2>3. NextHere(np, X, T, y, pp, n, port, j)
    BY <1>12, <2>1
  <2>4. /\ token(port, j) = token(port, j + 1) /\ j + 1 <= port.past_the_end /\ Opens(T, j + 1) = Opens(T, j)
        /\ Taken(np, X, T, y, pp, n, port, j + 1)
    BY <2>3 DEF NextHere
  <2>5. Sound(np, y)
    <3>3. Vector(vec).type = "vector" /\ Vector(vec).elements = vec
      BY DEF Vector
    <3>1. PICK w : w = Vector(vec) /\ w.type = "vector" /\ w.elements = vec
      BY <3>3
    <3>2. \A i \in 1 .. Len(w.elements) : Sound(np, w.elements[i])
      BY <1>4, <3>1, SoundVector
    <3> QED BY <2>1, <2>2, <3>1, <3>2
  <2>6. Match(X[n], j + 1, q, u, Vector(vec))
    BY <1>1, <1>3, <2>2, MatchLater
  <2>7. Match(X[n], j + 1, <<Frame("PVECFROM", From(vec, h))>> \o q,
              <<Frame("RDLIST", L)>> \o (<<Frame("RDVEC", << >>)>> \o u), vec[h])
    <3>1. Backwards(vec, h - 1, L)
      BY <1>6, <2>2
    <3> QED BY ONLY <1>1, <2>2, <2>6, <3>1, PushVector
  <2>8. Match(X[n], j + 1, pp, <<Frame("RDLIST", L)>> \o dump, y)
    BY <1>1, <2>1, <2>7
  <2>9. (np => nesting = Opens(T, j + 1)) /\ NextToken = token(port, j + 1)
    BY <1>8, <2>4
  <2> QED BY <1>5, <2>2, <2>4, <2>5, <2>8, <2>9, ListNext
<1> QED BY <1>9, <1>10, <1>11, <1>12

LEMMA TracksRdlist ==
  ASSUME NEW np, NEW X, NEW T, TextThere(np, X, T), GotSome(X), Delivered(np, X, T), got' = got,
         nesting \in Nat, RDLIST, NEW d, Begun(dump, d)
  PROVE  Tracks(np, X, T)'
<1>1. PICK n, j : n = Len(got) + 1 /\ j = port.curr
  OBVIOUS
<1>2. op = "RDLIST"
  BY DEF RDLIST
<1>3. /\ Len(got) < Len(X) /\ (np => nesting + 0 = Opens(T, j)) /\ IsSeq(dump)
      /\ \E p : /\ Onward(np, X, T, p, n, j)
                /\ Match(X[n], j, p, <<Frame("RDLIST", args)>> \o dump, value)
  BY <1>1, <1>2 DEF Delivered, Counted
<1>4. PICK p : /\ Onward(np, X, T, p, n, j)
               /\ Match(X[n], j, p, <<Frame("RDLIST", args)>> \o dump, value)
  BY <1>3
<1>5. np => nesting = Opens(T, j)
  BY <1>3
<1>6. TakesList(X[n], j, p, dump, value, args) \/ TakesVector(X[n], j, p, dump, value, args)
  <2>1. PICK X0, o : X0 = X[n] /\ o = "RDLIST"
    OBVIOUS
  <2>2. Match(X0, j, p, <<Frame(o, args)>> \o dump, value) /\ IsSeq(dump)
    BY <1>3, <1>4, <2>1
  <2>3. \/ o = "RDLIST" /\ TakesList(X0, j, p, dump, value, args)
        \/ o = "RDLIST" /\ TakesVector(X0, j, p, dump, value, args)
        \/ o = "RDDOT" /\ TakesDot(X0, j, p, dump, value, args)
        \/ o \in AbbreviationOps /\ Match(X0, j, p, dump, Pair(Mark(o), Pair(value, NIL)))
    BY ONLY <2>2, MatchTakes
  <2>4. o \notin AbbreviationOps
    BY <2>1 DEF AbbreviationOps
  <2> QED BY <2>1, <2>3, <2>4
<1>7. CASE TakesList(X[n], j, p, dump, value, args)
  BY <1>1, <1>3, <1>4, <1>5, <1>7, TracksInList
<1>8. CASE TakesVector(X[n], j, p, dump, value, args)
  BY <1>1, <1>3, <1>4, <1>5, <1>8, TracksInVector
<1> QED BY <1>6, <1>7, <1>8
---------------------------------------------------------------------------
(* The other opcodes that take a datum.                                    *)

LEMMA DeliveredIs ==
  ASSUME NEW np, NEW X, NEW T, Delivered(np, X, T), nesting \in Nat, NEW j, j = port.curr,
         NEW n, n = Len(got) + 1, NEW X0, X0 = X[n], NEW o, o = op
  PROVE  /\ Len(got) < Len(X) /\ (np => nesting = Opens(T, j)) /\ IsSeq(dump)
         /\ \E p : /\ Onward(np, X, T, p, n, j)
                   /\ o = "RDDOT" => TakesDot(X0, j, p, dump, value, args)
                   /\ o \in AbbreviationOps => Match(X0, j, p, dump, Pair(Mark(o), Pair(value, NIL)))
<1>1. /\ Len(got) < Len(X) /\ (np => nesting + 0 = Opens(T, j)) /\ IsSeq(dump)
      /\ \E p : /\ Onward(np, X, T, p, n, j)
                /\ Match(X0, j, p, <<Frame(o, args)>> \o dump, value)
  BY DEF Delivered, Counted
<1>2. PICK p : /\ Onward(np, X, T, p, n, j)
               /\ Match(X0, j, p, <<Frame(o, args)>> \o dump, value)
  BY <1>1
<1>3. \/ o = "RDLIST" /\ TakesList(X0, j, p, dump, value, args)
      \/ o = "RDLIST" /\ TakesVector(X0, j, p, dump, value, args)
      \/ o = "RDDOT" /\ TakesDot(X0, j, p, dump, value, args)
      \/ o \in AbbreviationOps /\ Match(X0, j, p, dump, Pair(Mark(o), Pair(value, NIL)))
  BY ONLY <1>1, <1>2, MatchTakes
<1>4. "RDLIST" \notin AbbreviationOps /\ "RDDOT" \notin AbbreviationOps
  BY DEF AbbreviationOps
<1>5. np => nesting = Opens(T, j)
  BY <1>1
<1>6. /\ o = "RDDOT" => TakesDot(X0, j, p, dump, value, args)
      /\ o \in AbbreviationOps => Match(X0, j, p, dump, Pair(Mark(o), Pair(value, NIL)))
  BY <1>3, <1>4
<1> QED BY <1>1, <1>2, <1>5, <1>6

LEMMA TracksRddot ==
  ASSUME NEW np, NEW X, NEW T, TextThere(np, X, T), GotSome(X), Delivered(np, X, T), got' = got,
         nesting \in Nat, RDDOT
  PROVE  Tracks(np, X, T)'
<1>1. PICK n, j : n = Len(got) + 1 /\ j = port.curr
  OBVIOUS
<1>2. op = "RDDOT"
  BY DEF RDDOT
<1>3. /\ Len(got) < Len(X) /\ (np => nesting = Opens(T, j)) /\ IsSeq(dump)
      /\ \E p : Onward(np, X, T, p, n, j) /\ TakesDot(X[n], j, p, dump, value, args)
  <2>1. PICK X0 : X0 = X[n]
    OBVIOUS
  <2>2. /\ Len(got) < Len(X) /\ (np => nesting = Opens(T, j)) /\ IsSeq(dump)
        /\ \E p : /\ Onward(np, X, T, p, n, j)
                  /\ op = "RDDOT" => TakesDot(X0, j, p, dump, value, args)
                  /\ op \in AbbreviationOps => Match(X0, j, p, dump, Pair(Mark(op), Pair(value, NIL)))
    BY <1>1, <2>1, DeliveredIs
  <2> QED BY <1>2, <2>1, <2>2
<1>4. PICK p : Onward(np, X, T, p, n, j) /\ TakesDot(X[n], j, p, dump, value, args)
  BY <1>3
<1>5. PICK q : /\ IsSeq(args) /\ IsSeq(q) /\ p = <<Frame("P1LIST", NIL)>> \o q
               /\ Match(X[n], j, q, dump, reverse_in_place(value, args))
  BY <1>4 DEF TakesDot
<1>6. OnText(np, X, T, j, Place("P1LIST", NIL, q, n))
  BY <1>4, <1>5, PopPushed
<1>7. j \in Nat /\ j <= port.past_the_end /\ Cuts(port, T) /\ port.past_the_end \in Nat
  BY <1>1, TextBounds
<1>8. CutHere(T, port, j) \/ EndHere(np, X, T, q, n, port, j)
  <2>1. PICK l : l = NIL
    OBVIOUS
  <2>2. OnText(np, X, T, j, Place("P1LIST", l, q, n)) /\ l.type # "pair"
    BY <1>6, <2>1 DEF NIL
  <2> QED BY <1>7, <2>1, <2>2, ListGoesOn
<1>9. NextToken = token(port, j)
  BY <1>1 DEF NextToken
<1>10. CASE CutHere(T, port, j)
  <2>1. /\ token(port, j).tok = EOF /\ port.past_the_end < Len(T)
        /\ Advance(token(port, j).at) => GoesOnAt(port.past_the_end)
    BY <1>7, <1>10, CutGoesOn
  <2>2. NextToken.tok # "RPAREN"
    BY <1>9, <2>1 DEF EOF
  <2>3. Advance(token(port, j).at) /\ op' = "error"
    BY <1>9, <2>2 DEF RDDOT, Error
  <2>4. got = << >>
    BY <1>3, <2>1, NothingYet
  <2> QED BY <2>1, <2>3, <2>4, LostFails
<1>11. CASE EndHere(np, X, T, q, n, port, j)
  <2>1. /\ token(port, j) = [tok |-> "RPAREN", at |-> j + 1] /\ j + 1 <= port.past_the_end
        /\ OnText(np, X, T, j + 1, Pop(q, n)) /\ Opens(T, j + 1) = Opens(T, j) - 1
    BY <1>11 DEF EndHere
  <2>2. NextToken.tok = "RPAREN" /\ NextToken.at = j + 1
    BY <1>9, <2>1
  <2>3. /\ Advance(j + 1) /\ nesting' = nesting - 1
        /\ ReturnTo(dump, reverse_in_place(value, args))
    BY <2>2 DEF RDDOT, s_return
  <2>4. j + 1 \in Nat /\ j <= j + 1
    BY <1>7
  <2>5. GoesOnAt(j + 1)
    BY <2>1, <2>3, <2>4, AdvanceGoesOn
  <2>6. Onward(np, X, T, q, n, j + 1) /\ (np => nesting' = Opens(T, j + 1))
    BY <1>3, <2>1, <2>3 DEF Onward
  <2> QED BY <1>1, <1>3, <1>5, <1>7, <2>3, <2>4, <2>5, <2>6, Gives
<1> QED BY <1>8, <1>10, <1>11

LEMMA TracksAbbreviation ==
  ASSUME NEW np, NEW X, NEW T, TextThere(np, X, T), GotSome(X), Delivered(np, X, T), got' = got,
         nesting \in Nat, RDABBREVIATION
  PROVE  Tracks(np, X, T)'
<1>1. PICK n, j : n = Len(got) + 1 /\ j = port.curr
  OBVIOUS
<1>2. op \in AbbreviationOps
  <2>1. op \in ValueOps
    BY DEF Delivered
  <2>2. op \in AbbreviationOps \cup {"RDQQUOTEVEC"}
    BY DEF RDABBREVIATION, AbbreviationOps
  <2> QED BY <2>1, <2>2 DEF ValueOps, AbbreviationOps
<1>3. PICK o : o = op
  OBVIOUS
<1>4. /\ Len(got) < Len(X) /\ (np => nesting = Opens(T, j)) /\ IsSeq(dump)
      /\ \E p : Onward(np, X, T, p, n, j) /\ Match(X[n], j, p, dump, Pair(Mark(o), Pair(value, NIL)))
  <2>1. PICK X0 : X0 = X[n]
    OBVIOUS
  <2>2. /\ Len(got) < Len(X) /\ (np => nesting = Opens(T, j)) /\ IsSeq(dump)
        /\ \E p : /\ Onward(np, X, T, p, n, j)
                  /\ o = "RDDOT" => TakesDot(X0, j, p, dump, value, args)
                  /\ o \in AbbreviationOps => Match(X0, j, p, dump, Pair(Mark(o), Pair(value, NIL)))
    BY <1>1, <1>3, <2>1, DeliveredIs
  <2> QED BY <1>2, <1>3, <2>1, <2>2
<1>5. PICK p : Onward(np, X, T, p, n, j) /\ Match(X[n], j, p, dump, Pair(Mark(o), Pair(value, NIL)))
  BY <1>4
<1>6. port' = port /\ nesting' = nesting /\ ReturnTo(dump, Pair(Mark(o), Pair(value, NIL)))
  <2>1. port' = port /\ nesting' = nesting
    BY DEF RDABBREVIATION
  <2>2. \/ o = "RDQUOTE"   /\ ReturnTo(dump, Pair(QUOTE, Pair(value, NIL)))
        \/ o = "RDQQUOTE"  /\ ReturnTo(dump, Pair(QQUOTE, Pair(value, NIL)))
        \/ o = "RDUNQUOTE" /\ ReturnTo(dump, Pair(UNQUOTE, Pair(value, NIL)))
        \/ o = "RDUQTSP"   /\ ReturnTo(dump, Pair(UNQUOTESP, Pair(value, NIL)))
    BY <1>2, <1>3 DEF RDABBREVIATION, s_return, AbbreviationOps
  <2>3. /\ Mark("RDQUOTE") = QUOTE /\ Mark("RDQQUOTE") = QQUOTE
        /\ Mark("RDUNQUOTE") = UNQUOTE /\ Mark("RDUQTSP") = UNQUOTESP
    BY <1>2, MarksAre
  <2> QED BY <2>1, <2>2, <2>3
<1>7. GoesOnAt(j) /\ j \in Nat /\ j <= j
  BY <1>1, <1>6, StaysHere
<1>8. np => nesting' = Opens(T, j)
  BY <1>4, <1>6
<1> QED BY <1>1, <1>4, <1>5, <1>6, <1>7, <1>8, Gives

LEMMA TracksRdvec ==
  ASSUME NEW np, NEW X, NEW T, TextThere(np, X, T), GotSome(X), VectorRead(np, X, T), got' = got,
         nesting \in Nat, RDVEC
  PROVE  Tracks(np, X, T)'
<1>1. PICK n, j : n = Len(got) + 1 /\ j = port.curr
  OBVIOUS
<1>2. PICK p, vec, d :
         /\ Onward(np, X, T, p, n, j)
         /\ IsSeq(vec) /\ Len(vec) <= j
         /\ Backwards(vec, Len(vec), d) /\ value = reverse_in_place(NIL, d)
         /\ Match(X[n], j, p, dump, Vector(vec))
  BY <1>1 DEF VectorRead
<1>3. Len(got) < Len(X) /\ (np => nesting + 0 = Opens(T, j))
  BY <1>1 DEF VectorRead, Counted
<1>4. port' = port /\ nesting' = nesting
  BY DEF RDVEC
<1>5. GoesOnAt(j) /\ j \in Nat /\ j <= port.past_the_end /\ j <= j
  BY <1>1, <1>4, StaysHere
<1>6. IsSeq(port.start) /\ Len(port.start) = port.past_the_end /\ Len(port.start) \in Nat
  <2>1. PortOK(port)
    BY DEF TextThere, Cuts
  <2> QED BY <2>1, PortBounds
<1>7. Len(vec) \in Nat /\ Len(vec) <= Len(port.start)
  BY <1>2, <1>5, <1>6, SeqLen
<1>8. is_list(value) /\ Members(value) = vec
  BY <1>2, <1>6, <1>7, VectorIsRead
<1>9. ReturnTo(dump, Vector(vec))
  BY <1>8 DEF RDVEC, s_return
<1>10. np => nesting' = Opens(T, j)
  BY <1>3, <1>4
<1> QED BY <1>1, <1>2, <1>3, <1>5, <1>9, <1>10, Gives
---------------------------------------------------------------------------
(* The opcodes at the end of a text that is cut off.                       *)

LEMMA EofNoList ==
  ASSUME IsSeq(port.start)
  PROVE  ~is_list(EOF_OBJ)
<1>1. PICK N \in Nat : N = Len(port.start)
  BY SeqLen
<1>2. PICK e : e = Behind(EOF_OBJ)
  OBVIOUS
<1>3. e[0] = EOF_OBJ /\ \A k \in 1 .. N : e[k] = Rest(e[k - 1])
  BY <1>1, <1>2, BehindIs DEF BehindOf
<1>4. Rest(EOF_OBJ) = EOF_OBJ /\ EOF_OBJ # NIL
  BY DEF Rest, EOF_OBJ, NIL
<1> DEFINE S == {k \in 0 .. N : e[k] = EOF_OBJ}
<1>5. 0 \in S
  BY <1>3
<1>6. \A k \in 1 .. N : k - 1 \in S => k \in S
  BY <1>3, <1>4
<1>7. \A k \in 0 .. N : k \in S
  <2> HIDE DEF S
  <2> QED BY <1>5, <1>6, UpTo
<1>8. e[N] = EOF_OBJ
  BY <1>7
<1> QED BY <1>1, <1>2, <1>4, <1>8 DEF is_list

(* There is nothing left of an atom.                                       *)
LEMMA NothingUpto ==
  ASSUME NEW p, PortOK(p), NEW m, m = p.past_the_end
  PROVE  readstr_upto(p, m) = [str |-> << >>, at |-> m]
<1>1. m \in Nat /\ m \in 0 .. m
  BY PortBounds
<1>2. PICK k \in m .. m :
        readstr_upto(p, m) = IF k = m + 1 /\ At(p, m) = "\\"
                             THEN [str |-> <<"\\", At(p, k)>>, at |-> Past(p, k + 1)]
                             ELSE [str |-> SubSeq(p.start, m + 1, k), at |-> k]
  BY <1>1, UptoIs
<1>3. k = m /\ k # m + 1
  BY <1>1
<1>4. SubSeq(p.start, m + 1, m) = << >>
  BY <1>1
<1> QED BY <1>2, <1>3, <1>4

LEMMA LostIs ==
  ASSUME NEW np, NEW X, NEW T, TextThere(np, X, T), Lost(np, X, T), op # "error", NEW m, m = port.past_the_end
  PROVE  /\ PortOK(port) /\ IsSeq(port.start) /\ m \in Nat /\ port.curr = m /\ m < Len(T)
         /\ NextToken.tok = EOF /\ NextToken.at = m /\ (np => nesting + 0 = Opens(T, m))
         /\ op = "RDSEXPR" => tok \in LostTokens
         /\ Bracketed(X[1]) => got = << >> /\ Hopeless
         /\ Advance(m) => GoesOnAt(m)
         /\ port' = port => GoesOnAt(m)
<1>1. port.curr = m /\ m < Len(T) /\ (np => nesting + 0 = Opens(T, m))
  BY DEF Lost, Counted
<1>2. PortOK(port)
  BY DEF TextThere, Cuts
<1>3. m \in Nat /\ m <= port.past_the_end /\ IsSeq(port.start)
  BY <1>2, PortBounds
<1>4. token(port, m) = [tok |-> EOF, at |-> m]
  BY <1>3, TokenAtEnd
<1>5. Advance(m) => GoesOnAt(m)
  BY <1>3, AdvanceGoesOn
<1>6. port' = port => GoesOnAt(m)
  BY <1>1, StaysHere
<1>7. NextToken.tok = EOF /\ NextToken.at = m
  BY <1>1, <1>4 DEF NextToken
<1> QED BY <1>1, <1>2, <1>3, <1>5, <1>6, <1>7 DEF Lost

LEMMA LostInternal ==
  ASSUME NEW np, NEW X, NEW T, TextThere(np, X, T), Lost(np, X, T), got' = got, nesting \in Nat,
         NEW d, Begun(dump, d), READ_INTERNAL
  PROVE  Tracks(np, X, T)'
<1>1. PICK m : m = port.past_the_end
  OBVIOUS
<1>2. op = "READ_INTERNAL" /\ nesting' = nesting
  BY DEF READ_INTERNAL
<1>3. /\ m < Len(T) /\ NextToken.tok = EOF /\ NextToken.at = m /\ (np => nesting + 0 = Opens(T, m))
      /\ Bracketed(X[1]) => Hopeless
      /\ Advance(m) => GoesOnAt(m)
  BY <1>1, <1>2, LostIs
<1>4. Advance(m) /\ ReturnTo(dump, EOF_OBJ)
  BY <1>3 DEF READ_INTERNAL, s_return
<1>5. ~Hopeless
  BY <1>2 DEF Hopeless, ValueOps, AbbreviationOps
<1>6. np => nesting' = Opens(T, m)
  BY <1>2, <1>3
<1> QED BY <1>1, <1>3, <1>4, <1>5, <1>6, LostGives

LEMMA LostExpression ==
  ASSUME NEW np, NEW X, NEW T, TextThere(np, X, T), Lost(np, X, T), got' = got, nesting \in Nat,
         NEW d, Begun(dump, d), op = "RDSEXPR",
         \/ RDSEXPR_EOF \/ RDSEXPR_LPAREN \/ RDSEXPR_QUOTE \/ RDSEXPR_BQUOTE
         \/ RDSEXPR_ATOM \/ RDSEXPR_DQUOTE \/ RDSEXPR_SHARP_CONST \/ RDSEXPR_illegal
  PROVE  Tracks(np, X, T)'
<1>1. PICK m : m = port.past_the_end
  OBVIOUS
<1>2. /\ PortOK(port) /\ m < Len(T) /\ NextToken.tok = EOF /\ NextToken.at = m /\ port.curr = m
      /\ (np => nesting + 0 = Opens(T, m)) /\ tok \in LostTokens /\ m \in Nat
      /\ Bracketed(X[1]) => got = << >> /\ Hopeless
      /\ Advance(m) => GoesOnAt(m)
      /\ port' = port => GoesOnAt(m)
  BY <1>1, LostIs
<1>3. Bracketed(X[1]) => got = << >> /\ (DoomedDump(dump) \/ (dump = << >> /\ tok # "COMMA"))
  BY <1>2 DEF Hopeless, ValueOps, AbbreviationOps
<1>4. nesting' = nesting => (np => nesting' = Opens(T, m))
  BY <1>2
<1>5. IsSeq(dump)
  BY BegunIs
<1>6. CASE RDSEXPR_EOF
  <2>1. ReturnTo(dump, EOF_OBJ) /\ nesting' = nesting /\ port' = port
    BY <1>6 DEF RDSEXPR_EOF, s_return
  <2> QED BY <1>1, <1>2, <1>3, <1>4, <2>1, LostGives
<1>7. ~RDSEXPR_LPAREN /\ ~RDSEXPR_BQUOTE /\ ~RDSEXPR_ATOM /\ ~RDSEXPR_DQUOTE
  BY <1>2 DEF LostTokens, EOF, RDSEXPR_LPAREN, RDSEXPR_BQUOTE, RDSEXPR_ATOM, RDSEXPR_DQUOTE, Expression
<1>8. CASE RDSEXPR_QUOTE
  <2>1. tok = "COMMA"
    BY <1>2, <1>8 DEF LostTokens, EOF, RDSEXPR_QUOTE, Expression
  <2>2. PICK f : f = Frame("RDUNQUOTE", << >>) /\ f.op = "RDUNQUOTE"
    BY PlaceFields
  <2>3. dump' = <<f>> \o dump /\ nesting' = nesting /\ NextExpression(NextToken)
    BY <2>1, <2>2, <1>8 DEF RDSEXPR_QUOTE, Expression, s_save, Frame
  <2>4. op' = "RDSEXPR" /\ tok' = EOF /\ GoesOnAt(m)
    BY <1>2, <2>3 DEF NextExpression
  <2>5. DoomedDump(dump) => DoomedDump(dump')
    <3>1. ASSUME DoomedDump(dump)  PROVE DoomedDump(dump')
      <4>1. "RDUNQUOTE" \in AbbreviationOps
        BY DEF AbbreviationOps
      <4>2. Doomed("RDUNQUOTE", dump)
        BY <1>5, <3>1, <4>1, DoomedPush
      <4>3. dump' # << >> /\ Head(dump') = f /\ Tail(dump') = dump
        BY <1>5, <2>3, Pushed
      <4> QED BY <2>2, <4>2, <4>3 DEF DoomedDump
    <3> QED BY <3>1
  <2>6. Bracketed(X[1]) => got = << >> /\ (dump' = << >> \/ DoomedDump(dump'))
    BY <1>3, <2>1, <2>5
  <2>7. np => nesting' = Opens(T, m)
    BY <1>4, <2>3
  <2> QED BY <1>1, <1>2, <2>4, <2>6, <2>7, LostGoesOn
<1>9. CASE RDSEXPR_SHARP_CONST
  <2>1. readstr_upto(port, m) = [str |-> << >>, at |-> m]
    BY <1>1, <1>2, NothingUpto
  <2>2. readstr_upto(port, port.curr).str = << >> /\ readstr_upto(port, port.curr).at = m
    BY <1>2, <2>1
  <2>3. Advance(m) /\ op' = "error"
    BY <1>9, <2>2, SharpBool DEF RDSEXPR_SHARP_CONST, Error
  <2> QED BY <1>1, <1>2, <2>3, LostFails
<1>10. CASE RDSEXPR_illegal
  <2>1. op' = "error" /\ port' = port
    BY <1>10 DEF RDSEXPR_illegal, Error
  <2> QED BY <1>1, <1>2, <2>1, LostFails
<1> QED BY <1>6, <1>7, <1>8, <1>9, <1>10

LEMMA LostValue ==
  ASSUME NEW np, NEW X, NEW T, TextThere(np, X, T), Lost(np, X, T), got' = got, nesting \in Nat,
         NEW d, Begun(dump, d), RDLIST \/ RDDOT \/ RDABBREVIATION \/ RDVEC
  PROVE  Tracks(np, X, T)'
<1>1. PICK m : m = port.past_the_end
  OBVIOUS
<1>2. op \in {"RDLIST", "RDDOT", "RDQUOTE", "RDQQUOTE", "RDUNQUOTE", "RDUQTSP", "RDQQUOTEVEC", "RDVEC"}
  BY DEF RDLIST, RDDOT, RDABBREVIATION, RDVEC
<1>3. /\ IsSeq(port.start) /\ m < Len(T) /\ NextToken.tok = EOF /\ NextToken.at = m
      /\ (np => nesting + 0 = Opens(T, m))
      /\ Bracketed(X[1]) => got = << >> /\ Hopeless
      /\ Advance(m) => GoesOnAt(m)
      /\ port' = port => GoesOnAt(m)
  BY <1>1, <1>2, LostIs
<1>4. nesting' = nesting => (np => nesting' = Opens(T, m))
  BY <1>3
<1>5. Bracketed(X[1]) => /\ got = << >>
                         /\ op \notin {"RDQQUOTEVEC"}
                         /\ op = "RDVEC" => value = EOF_OBJ
                         /\ op # "RDVEC" => Doomed(op, dump)
  BY <1>2, <1>3 DEF Hopeless, ValueOps, AbbreviationOps
<1>6. CASE RDLIST
  <2>1. op = "RDLIST"
    BY <1>6 DEF RDLIST
  <2>2. Bracketed(X[1]) => got = << >> /\ Doomed("RDLIST", dump)
    BY <1>5, <2>1
  <2>3. np => nesting = Opens(T, m)
    BY <1>3
  <2> QED BY <1>1, <1>3, <1>6, <2>2, <2>3, ListIsOver
<1>7. CASE RDDOT
  <2>1. NextToken.tok # "RPAREN"
    BY <1>3 DEF EOF
  <2>2. Advance(m) /\ op' = "error"
    BY <1>3, <1>7, <2>1 DEF RDDOT, Error
  <2> QED BY <1>1, <1>3, <2>2, LostFails
<1>8. CASE RDABBREVIATION
  <2>1. op # "RDVEC" /\ op # "RDLIST" /\ op # "RDDOT" /\ port' = port /\ nesting' = nesting
    BY <1>8 DEF RDABBREVIATION
  <2>2. PICK v : ReturnTo(dump, v)
    BY <1>8 DEF RDABBREVIATION, s_return
  <2>3. Bracketed(X[1]) => got = << >> /\ DoomedDump(dump)
    BY <1>5, <2>1, DoomedIs
  <2>4. np => nesting' = Opens(T, m)
    BY <1>4, <2>1
  <2> QED BY <1>1, <1>3, <2>1, <2>2, <2>3, <2>4, LostGives
<1>9. CASE RDVEC
  <2>1. op = "RDVEC" /\ port' = port /\ nesting' = nesting
    BY <1>9 DEF RDVEC
  <2>2. CASE is_list(value)
    <3>1. ReturnTo(dump, Vector(Members(value)))
      BY <1>9, <2>2 DEF RDVEC, s_return
    <3>2. ~Bracketed(X[1])
      BY <1>3, <1>5, <2>1, <2>2, EofNoList
    <3>3. np => nesting' = Opens(T, m)
      BY <1>4, <2>1
    <3> QED BY <1>1, <1>3, <2>1, <3>1, <3>2, <3>3, LostGives
  <2>3. CASE ~is_list(value)
    <3>1. op' = "error"
      BY <1>9, <2>3 DEF RDVEC, Error
    <3> QED BY <1>1, <1>3, <2>1, <3>1, LostFails
  <2> QED BY <2>2, <2>3
<1> QED BY <1>6, <1>7, <1>8, <1>9
---------------------------------------------------------------------------
(* What any opcode of the reader does.                                     *)

LEMMA ReadingHasOp ==
  ASSUME Reading
  PROVE  /\ op = "READ_INTERNAL" => READ_INTERNAL
         /\ op = "RDSEXPR" => \/ RDSEXPR_EOF \/ RDSEXPR_LPAREN \/ RDSEXPR_QUOTE \/ RDSEXPR_BQUOTE
                              \/ RDSEXPR_ATOM \/ RDSEXPR_DQUOTE \/ RDSEXPR_SHARP_CONST \/ RDSEXPR_illegal
         /\ op = "RDLIST" => RDLIST
         /\ op = "RDDOT" => RDDOT
         /\ op = "RDVEC" => RDVEC
         /\ op \notin {"READ_INTERNAL", "RDSEXPR", "RDLIST", "RDDOT", "RDVEC"} => RDABBREVIATION
         /\ op \in {"READ_INTERNAL", "RDSEXPR", "RDLIST", "RDDOT", "RDVEC",
                    "RDQUOTE", "RDQQUOTE", "RDQQUOTEVEC", "RDUNQUOTE", "RDUQTSP"}
<1>1. READ_INTERNAL => op = "READ_INTERNAL"
  BY DEF READ_INTERNAL
<1>2. \/ op = "RDSEXPR"
      \/ ~(\/ RDSEXPR_EOF \/ RDSEXPR_LPAREN \/ RDSEXPR_QUOTE \/ RDSEXPR_BQUOTE
           \/ RDSEXPR_ATOM \/ RDSEXPR_DQUOTE \/ RDSEXPR_SHARP_CONST \/ RDSEXPR_illegal)
  BY DEF RDSEXPR_EOF, RDSEXPR_LPAREN, RDSEXPR_QUOTE, RDSEXPR_BQUOTE,
         RDSEXPR_ATOM, RDSEXPR_DQUOTE, RDSEXPR_SHARP_CONST, RDSEXPR_illegal, Expression
<1>3. (RDLIST => op = "RDLIST") /\ (RDDOT => op = "RDDOT") /\ (RDVEC => op = "RDVEC")
  BY DEF RDLIST, RDDOT, RDVEC
<1>4. RDABBREVIATION => op \in {"RDQUOTE", "RDQQUOTE", "RDQQUOTEVEC", "RDUNQUOTE", "RDUQTSP"}
  BY DEF RDABBREVIATION
<1>5. \/ READ_INTERNAL
      \/ RDSEXPR_EOF \/ RDSEXPR_LPAREN \/ RDSEXPR_QUOTE \/ RDSEXPR_BQUOTE
      \/ RDSEXPR_ATOM \/ RDSEXPR_DQUOTE \/ RDSEXPR_SHARP_CONST \/ RDSEXPR_illegal
      \/ RDLIST \/ RDDOT \/ RDABBREVIATION \/ RDVEC
  BY DEF Reading
<1> QED BY <1>1, <1>2, <1>3, <1>4, <1>5

(* A datum does not begin with a token that is out of place.               *)
LEMMA InsideIsLegal ==
  ASSUME NEW np, NEW X, NEW T, Inside(np, X, T)
  PROVE  ~RDSEXPR_EOF /\ ~RDSEXPR_illegal
<1>1. tok \notin {EOF, "SHARP", "RPAREN", "DOT"}
  <2>1. \A x, p, n : Begins(np, X, T, x, p, n, tok, port.curr) => tok \notin {EOF, "SHARP", "RPAREN", "DOT"}
    BY DEF Begins, Abbreviates, EOF
  <2> QED BY <2>1 DEF Inside
<1> QED BY <1>1 DEF RDSEXPR_EOF, RDSEXPR_illegal, Expression

LEMMA TracksReading ==
  ASSUME NEW np, NEW X, NEW T, Tracks(np, X, T), got' = got, nesting \in Nat,
         NEW d, Begun(dump, d), Reading
  PROVE  Tracks(np, X, T)'
<1>1. TextThere(np, X, T)
  BY DEF Tracks
<1>2. /\ op = "READ_INTERNAL" => READ_INTERNAL
      /\ op = "RDSEXPR" => \/ RDSEXPR_EOF \/ RDSEXPR_LPAREN \/ RDSEXPR_QUOTE \/ RDSEXPR_BQUOTE
                           \/ RDSEXPR_ATOM \/ RDSEXPR_DQUOTE \/ RDSEXPR_SHARP_CONST \/ RDSEXPR_illegal
      /\ op = "RDLIST" => RDLIST
      /\ op = "RDDOT" => RDDOT
      /\ op = "RDVEC" => RDVEC
      /\ op \notin {"READ_INTERNAL", "RDSEXPR", "RDLIST", "RDDOT", "RDVEC"} => RDABBREVIATION
      /\ op \in {"READ_INTERNAL", "RDSEXPR", "RDLIST", "RDDOT", "RDVEC",
                 "RDQUOTE", "RDQQUOTE", "RDQQUOTEVEC", "RDUNQUOTE", "RDUQTSP"}
  BY ReadingHasOp
<1>3. CASE Lost(np, X, T)
  <2>1. CASE op = "READ_INTERNAL"
    BY <1>1, <1>2, <1>3, <2>1, LostInternal
  <2>2. CASE op = "RDSEXPR"
    BY <1>1, <1>2, <1>3, <2>2, LostExpression
  <2>3. CASE op \notin {"READ_INTERNAL", "RDSEXPR"}
    <3>1. RDLIST \/ RDDOT \/ RDABBREVIATION \/ RDVEC
      BY <1>2, <2>3
    <3> QED BY <1>1, <1>3, <3>1, LostValue
  <2> QED BY <2>1, <2>2, <2>3
<1>4. CASE GotSome(X) /\ Between(np, X, T)
  <2>1. READ_INTERNAL
    BY <1>2, <1>4 DEF Between
  <2> QED BY <1>1, <1>4, <2>1, TracksInternal
<1>5. CASE GotSome(X) /\ (Returned(np, X, T) \/ Finished(np, X, T))
  BY <1>2, <1>5 DEF Returned, Finished
<1>6. CASE GotSome(X) /\ Inside(np, X, T)
  <2>1. op = "RDSEXPR"
    BY <1>6 DEF Inside
  <2>2. ~RDSEXPR_EOF /\ ~RDSEXPR_illegal
    BY <1>6, InsideIsLegal
  <2>3. \/ RDSEXPR_LPAREN \/ RDSEXPR_QUOTE \/ RDSEXPR_BQUOTE
        \/ RDSEXPR_ATOM \/ RDSEXPR_DQUOTE \/ RDSEXPR_SHARP_CONST
    BY <1>2, <2>1, <2>2
  <2>4. CASE RDSEXPR_LPAREN
    BY <1>1, <1>6, <2>4, TracksLparen
  <2>5. CASE RDSEXPR_QUOTE
    BY <1>1, <1>6, <2>5, TracksQuote
  <2>6. CASE RDSEXPR_BQUOTE
    BY <1>1, <1>6, <2>6, TracksBquote
  <2>7. CASE RDSEXPR_ATOM
    BY <1>1, <1>6, <2>7, TracksAtom
  <2>8. CASE RDSEXPR_DQUOTE
    BY <1>1, <1>6, <2>8, TracksString
  <2>9. CASE RDSEXPR_SHARP_CONST
    BY <1>1, <1>6, <2>9, TracksSharp
  <2> QED BY <2>3, <2>4, <2>5, <2>6, <2>7, <2>8, <2>9
<1>7. CASE GotSome(X) /\ Delivered(np, X, T)
  <2>1. CASE op = "RDLIST"
    BY <1>1, <1>2, <1>7, <2>1, TracksRdlist
  <2>2. CASE op = "RDDOT"
    BY <1>1, <1>2, <1>7, <2>2, TracksRddot
  <2>3. CASE op \notin {"RDLIST", "RDDOT"}
    <3>1. op \in AbbreviationOps
      BY <1>7, <2>3 DEF Delivered, ValueOps
    <3>2. RDABBREVIATION
      BY <1>2, <3>1 DEF AbbreviationOps
    <3> QED BY <1>1, <1>7, <3>2, TracksAbbreviation
  <2> QED BY <2>1, <2>2, <2>3
<1>8. CASE GotSome(X) /\ VectorRead(np, X, T)
  <2>1. RDVEC
    BY <1>2, <1>8 DEF VectorRead
  <2> QED BY <1>1, <1>8, <2>1, TracksRdvec
<1> QED BY <1>3, <1>4, <1>5, <1>6, <1>7, <1>8 DEF Tracks
---------------------------------------------------------------------------
(* What the program does between the data, and at the ends of the text.    *)

LEMMA SoundIsNoEnd ==
  ASSUME NEW np, NEW v, Sound(np, v)
  PROVE  v # EOF_OBJ
<1>1. Spelled(v)
  BY DEF Sound
<1> QED BY <1>1 DEF Spelled, EOF_OBJ, NIL, Bool, Number, Symbol, String, Character, Pair, Vector

LEMMA NoneOpens ==
  ASSUME NEW T
  PROVE  Opens(T, 0) = 0
<1>1. ASSUME NEW c  PROVE Cardinality(Placed(T, 0, c)) = 0
  <2>1. Placed(T, 0, c) = {}
    BY DEF Placed
  <2> QED BY <2>1, FS_EmptySet
<1> QED BY <1>1 DEF Opens

LEMMA SeqAppend ==
  ASSUME NEW s, IsSeq(s), NEW x
  PROVE  /\ IsSeq(Append(s, x)) /\ Len(Append(s, x)) = Len(s) + 1
         /\ Append(s, x)[Len(s) + 1] = x
         /\ \A k \in 1 .. Len(s) : Append(s, x)[k] = s[k]
<1>1. PICK S : s \in Seq(S)
  BY DEF IsSeq
<1>2. s \in Seq(S \cup {x}) /\ x \in S \cup {x}
  BY <1>1
<1>3. PICK R : R = S \cup {x}
  OBVIOUS
<1>4. s \in Seq(R) /\ x \in R
  BY <1>2, <1>3
<1>5. Append(s, x) \in Seq(R)
  BY <1>4
<1> QED BY <1>4, <1>5, AppendProperties DEF IsSeq

LEMMA TracksRead ==
  ASSUME NEW np, NEW X, NEW T, Tracks(np, X, T), Read
  PROVE  Tracks(np, X, T)'
<1>1. op = "idle" /\ op' = "READ_INTERNAL" /\ UNCHANGED <<value, dump, nesting, port, got>>
  BY DEF Read, control
<1>2. TextThere(np, X, T)'
  BY <1>1 DEF Tracks, TextThere
<1>3. ~Returned(np, X, T) /\ ~Finished(np, X, T) /\ ~Inside(np, X, T) /\ ~Delivered(np, X, T)
      /\ ~VectorRead(np, X, T) /\ ~Hopeless
  BY <1>1 DEF Returned, Finished, Inside, Delivered, VectorRead, Hopeless, ValueOps, AbbreviationOps
<1>4. CASE GotSome(X) /\ Between(np, X, T)
  <2>1. GotSome(X)'
    BY <1>1, <1>4 DEF GotSome
  <2>2. Between(np, X, T)'
    BY <1>1, <1>4 DEF Between, Counted
  <2> QED BY <1>2, <2>1, <2>2 DEF Tracks
<1>5. CASE Lost(np, X, T)
  <2>1. ~Bracketed(X[1])
    BY <1>3, <1>5 DEF Lost
  <2>2. Lost(np, X, T)'
    BY <1>1, <1>5, <2>1 DEF Lost, Counted
  <2> QED BY <1>2, <2>2 DEF Tracks
<1> QED BY <1>3, <1>4, <1>5 DEF Tracks

LEMMA TracksTake ==
  ASSUME NEW np, NEW X, NEW T, Tracks(np, X, T), Take, known, dump = << >>
  PROVE  Tracks(np, X, T)'
<1>1. op = "returned" /\ UNCHANGED <<value, dump, nesting, port>>
  BY DEF Take
<1>2. TextThere(np, X, T) /\ TextThere(np, X, T)'
  BY <1>1 DEF Tracks, TextThere
<1>3. ~Between(np, X, T) /\ ~Inside(np, X, T) /\ ~Delivered(np, X, T) /\ ~VectorRead(np, X, T)
  BY <1>1 DEF Between, Inside, Delivered, VectorRead, ValueOps, AbbreviationOps
<1>4. CASE value = EOF_OBJ
  <2>1. op' = "end" /\ got' = got
    BY <1>4 DEF Take, control
  <2>2. CASE GotSome(X) /\ Returned(np, X, T)
    <3>1. Len(got) \in Nat /\ Len(X) \in Nat /\ Len(got) < Len(X)
      BY <1>2, <2>2, GotLen, TextBounds DEF Returned
    <3>2. Len(got) + 1 \in 1 .. Len(X)
      BY <3>1
    <3>3. Sound(np, X[Len(got) + 1]) /\ value = X[Len(got) + 1]
      BY <1>2, <2>2, <3>2 DEF TextThere, Returned
    <3> QED BY <1>4, <3>3, SoundIsNoEnd
  <2>3. CASE GotSome(X) /\ Finished(np, X, T)
    <3>1. GotSome(X)'
      BY <2>1, <2>3 DEF GotSome
    <3>2. Finished(np, X, T)'
      BY <1>1, <2>1, <2>3 DEF Finished, Counted
    <3> QED BY <1>2, <3>1, <3>2 DEF Tracks
  <2>4. CASE Lost(np, X, T)
    <3>1. Hopeless'
      BY <1>1, <1>4, <2>1 DEF Hopeless
    <3>2. Lost(np, X, T)'
      BY <1>1, <2>1, <2>4, <3>1 DEF Lost, Counted
    <3> QED BY <1>2, <3>2 DEF Tracks
  <2> QED BY <1>3, <2>2, <2>3, <2>4 DEF Tracks
<1>5. CASE value # EOF_OBJ
  <2>1. op' = "idle" /\ got' = Append(got, value)
    BY <1>5 DEF Take
  <2>2. CASE GotSome(X) /\ Returned(np, X, T)
    <3>1. /\ IsSeq(got) /\ Len(got) \in Nat /\ Len(X) \in Nat /\ Len(got) < Len(X)
          /\ value = X[Len(got) + 1] /\ \A k \in 1 .. Len(got) : got[k] = X[k]
      BY <1>2, <2>2, GotLen, TextBounds DEF Returned, GotSome
    <3>2. /\ IsSeq(got') /\ Len(got') = Len(got) + 1 /\ got'[Len(got) + 1] = value
          /\ \A k \in 1 .. Len(got) : got'[k] = got[k]
      BY <2>1, <3>1, SeqAppend
    <3>3. GotSome(X)'
      <4>1. ASSUME NEW k \in 1 .. (Len(got) + 1)  PROVE got'[k] = X[k]
        <5>1. CASE k = Len(got) + 1
          BY <3>1, <3>2, <5>1
        <5>2. CASE k # Len(got) + 1
          <6>1. k \in 1 .. Len(got)
            BY <3>1, <5>2
          <6> QED BY <3>1, <3>2, <6>1
        <5> QED BY <5>1, <5>2
      <4> QED BY <3>1, <3>2, <4>1 DEF GotSome
    <3>4. Between(np, X, T)'
      BY <1>1, <2>1, <2>2, <3>2 DEF Between, Returned, Counted
    <3> QED BY <1>2, <3>3, <3>4 DEF Tracks
  <2>3. ~Finished(np, X, T)
    BY <1>5 DEF Finished
  <2>4. CASE Lost(np, X, T)
    <3>1. ~Hopeless
      BY <1>1, <1>5 DEF Hopeless, ValueOps, AbbreviationOps
    <3>2. Lost(np, X, T)'
      BY <1>1, <2>1, <2>4, <3>1 DEF Lost, Counted
    <3> QED BY <1>2, <3>2 DEF Tracks
  <2> QED BY <1>3, <2>2, <2>3, <2>4 DEF Tracks
<1> QED BY <1>4, <1>5
---------------------------------------------------------------------------
(* The reader follows the text from the beginning to the end.              *)

LEMMA TracksOpen ==
  ASSUME NEW np, NEW X, NEW T, Opened(X, T, port'.start, port'.past_the_end), PortOK(port'), port'.curr = 0,
         np \in BOOLEAN, Plainly(np, X), np => Len(X) = 1, IsSeq(T),
         op' = "idle", dump' = << >>, got' = << >>, nesting' = 0
  PROVE  Tracks(np, X, T)'
<1>1. PICK m : m = port'.past_the_end
  OBVIOUS
<1>2. /\ Len(X) \in Nat \ {0} /\ Written(X, T, Place("returned", NIL, << >>, Len(X)))
      /\ m \in 0 .. Len(T) /\ port'.start = SubSeq(T, 1, m)
      /\ m < Len(T) => Len(X) = 1
  BY <1>1 DEF Opened
<1>3. /\ \A k \in 1 .. Len(X) : Sound(np, X[k])
      /\ Reach(np, T, X, 0, Beginning, Len(T), Done(X))
  BY <1>2 DEF Written, Done
<1>4. Cuts(port', T)
  <2>1. m <= Len(T)
    BY <1>2, SeqLen
  <2>2. \A k \in 1 .. m : SubSeq(T, 1, m)[k] = T[k]
    BY <1>2, SeqFront
  <2> QED BY <1>1, <1>2, <2>1, <2>2 DEF Cuts
<1>5. TextThere(np, X, T)'
  BY <1>1, <1>2, <1>3, <1>4 DEF TextThere
<1>6. Len(got') = 0 /\ IsSeq(got')
  BY SeqEmpty
<1>7. GotSome(X)'
  BY <1>2, <1>6 DEF GotSome
<1>8. After(np, X, T, 0, 0)
  BY <1>3 DEF After, OnText, Beginning
<1>9. Counted(np, T, 0)'
  BY NoneOpens DEF Counted
<1>10. Between(np, X, T)'
  BY <1>6, <1>8, <1>9 DEF Between
<1> QED BY <1>5, <1>7, <1>10 DEF Tracks

FollowsText(np, X, T) ==
  /\ X = expect /\ T = get_output_string(outport)
  /\ np \in BOOLEAN /\ Plainly(np, X) /\ (np => Len(X) = 1)

(* Nothing is open while the text is written, and then the reader tracks   *)
(* the text, whether or not its parentheses are counted.                   *)
Tracked ==
  /\ mode = "write" => nesting = 0
  /\ mode = "read" /\ known => \A np, X, T : FollowsText(np, X, T) => Tracks(np, X, T)

LEMMA TrackedInit ==
  ASSUME Init
  PROVE  Tracked
BY DEF Init, Tracked

LEMMA TrackedStep ==
  ASSUME Tracked, mode' = mode, known' = known, expect' = expect, outport' = outport,
         mode = "write" => nesting' = nesting,
         \A np, X, T : mode = "read" /\ known /\ FollowsText(np, X, T) /\ Tracks(np, X, T) => Tracks(np, X, T)'
  PROVE  Tracked'
<1>1. ASSUME NEW np, NEW X, NEW T, FollowsText(np, X, T)', mode' = "read", known'
      PROVE  Tracks(np, X, T)'
  <2>1. FollowsText(np, X, T)
    BY <1>1 DEF FollowsText
  <2> QED BY <1>1, <2>1 DEF Tracked
<1> QED BY <1>1 DEF Tracked

LEMMA TrackedOpen ==
  ASSUME Machine, Tracked, Open
  PROVE  Tracked'
<1>1. /\ mode = "write" /\ op = "returned" /\ mode' = "read" /\ op' = "idle"
      /\ UNCHANGED <<dump, nesting, outport, expect, got, known>>
  BY DEF Open
<1>2. known /\ got = << >> /\ dump = << >> /\ nesting = 0
  BY <1>1 DEF Machine, Tracked
<1>3. Machine'
  BY MachineOpens
<1>4. PortOK(port') /\ \E m \in Nat : Opened(expect', get_output_string(outport'), port'.start, m)
  BY <1>1, <1>2, <1>3 DEF Machine
<1>5. port'.curr = 0
  BY DEF Open, port_from_string
<1>6. ASSUME NEW np, NEW X, NEW T, FollowsText(np, X, T)'
      PROVE  Tracks(np, X, T)'
  <2>1. X = expect' /\ T = get_output_string(outport') /\ np \in BOOLEAN /\ Plainly(np, X) /\ (np => Len(X) = 1)
    BY <1>6 DEF FollowsText
  <2>2. PICK m \in Nat : Opened(X, T, port'.start, m)
    BY <1>4, <2>1
  <2>3. IsSeq(T)
    <3>1. PortOK(outport)
      BY DEF Machine, Grows
    <3> QED BY <1>1, <2>1, <3>1, Outputs
  <2>4. m \in 0 .. Len(T) /\ port'.start = SubSeq(T, 1, m)
    BY <2>2 DEF Opened
  <2>5. Len(SubSeq(T, 1, m)) = m
    BY <2>3, <2>4, SeqFront
  <2>6. port'.past_the_end = m
    BY <1>4, <2>4, <2>5 DEF PortOK
  <2> QED BY <1>1, <1>2, <1>4, <1>5, <2>1, <2>2, <2>3, <2>6, TracksOpen
<1> QED BY <1>1, <1>6 DEF Tracked

LEMMA TrackedReading ==
  ASSUME Machine, Tracked, Reading, UNCHANGED <<outport, control>>
  PROVE  Tracked'
<1>1. UNCHANGED <<outport, mode, expect, got, cut, known>>
  BY DEF control
<1>2. op \in ReadOps
  <2>1. op \in {"READ_INTERNAL", "RDSEXPR", "RDLIST", "RDDOT", "RDVEC",
                "RDQUOTE", "RDQQUOTE", "RDQQUOTEVEC", "RDUNQUOTE", "RDUQTSP"}
    BY ReadingHasOp
  <2> QED BY <2>1 DEF ReadOps, FrameOps
<1>3. mode = "read" /\ nesting \in Nat /\ \E d \in Nat : Begun(dump, d)
  BY <1>2 DEF Machine
<1>4. PICK d \in Nat : Begun(dump, d)
  BY <1>3
<1>5. ASSUME NEW np, NEW X, NEW T, Tracks(np, X, T)  PROVE Tracks(np, X, T)'
  BY <1>1, <1>3, <1>4, <1>5, TracksReading
<1> QED BY <1>1, <1>3, <1>5, TrackedStep

LEMMA TrackedNext ==
  ASSUME Machine, Tracked, [Next]_vars
  PROVE  Tracked'
<1>1. CASE UNCHANGED vars
  <2>1. UNCHANGED <<op, tok, args, value, dump, nesting, port, outport, mode, expect, got, cut, known>>
    BY <1>1 DEF vars, control
  <2>2. ASSUME NEW np, NEW X, NEW T, Tracks(np, X, T)  PROVE Tracks(np, X, T)'
    BY <2>1, <2>2 DEF Tracks, TextThere, GotSome, Between, Returned, Finished, Inside, Delivered,
                      VectorRead, Lost, Hopeless, Counted
  <2> QED BY <2>1, <2>2, TrackedStep
<1>2. CASE \E v \in IF expect = << >> THEN Data ELSE Later : Write(v)
  <2>1. mode = "write" /\ mode' = "write" /\ nesting' = nesting
    BY <1>2 DEF Write
  <2> QED BY <2>1 DEF Tracked
<1>3. CASE Separate
  <2>1. mode = "write" /\ mode' = "write" /\ nesting' = nesting
    BY <1>3 DEF Separate, control
  <2> QED BY <2>1 DEF Tracked
<1>4. CASE Open
  BY <1>4, TrackedOpen
<1>5. CASE Read
  <2>1. UNCHANGED <<outport, mode, expect, known, nesting>>
    BY <1>5 DEF Read, control
  <2>2. ASSUME NEW np, NEW X, NEW T, Tracks(np, X, T)  PROVE Tracks(np, X, T)'
    BY <1>5, <2>2, TracksRead
  <2> QED BY <2>1, <2>2, TrackedStep
<1>6. CASE Take /\ known
  <2>1. mode = "read" /\ op = "returned" /\ UNCHANGED <<outport, mode, expect, known>>
    BY <1>6 DEF Take, control
  <2>2. dump = << >>
    BY <2>1 DEF Machine
  <2>3. ASSUME NEW np, NEW X, NEW T, Tracks(np, X, T)  PROVE Tracks(np, X, T)'
    BY <1>6, <2>2, <2>3, TracksTake
  <2> QED BY <2>1, <2>3, TrackedStep
<1>7. CASE Take /\ ~known
  <2>1. \/ mode' = "write" /\ nesting' = 0
        \/ mode' = "read" /\ ~known'
    BY <1>7 DEF Take, control
  <2> QED BY <2>1 DEF Tracked
<1>8. CASE Reading /\ UNCHANGED <<outport, control>>
  BY <1>8, TrackedReading
<1>9. CASE Printing /\ UNCHANGED control
  <2>1. op \in PrintOps
    BY <1>9 DEF Printing, P0LISTvector, P0LISTatom, P0LISTabbreviation, P0LISTpair,
                    P1LISTpair, P1LISTvector, P1LISTend, PVECFROM, PrintOps
  <2>2. mode = "write" /\ mode' = "write"
    BY <1>9, <2>1 DEF Machine, control
  <2>3. nesting' = nesting
    BY <1>9 DEF Printing
  <2> QED BY <2>2, <2>3 DEF Tracked
<1> QED BY <1>1, <1>2, <1>3, <1>4, <1>5, <1>6, <1>7, <1>8, <1>9 DEF Next

LEMMA TrackedAlways == Spec => [](Machine /\ Tracked)
<1>1. Init => Machine /\ Tracked
  BY MachineInit, TrackedInit
<1>2. Machine /\ Tracked /\ [Next]_vars => (Machine /\ Tracked)'
  BY MachineNext, TrackedNext
<1> QED BY <1>1, <1>2, PTL DEF Spec
---------------------------------------------------------------------------
(* What is known of the data that have been read.                          *)

LEMMA PrefixOf ==
  ASSUME NEW s, IsSeq(s), NEW t, IsSeq(t), Len(s) <= Len(t), \A k \in 1 .. Len(s) : s[k] = t[k]
  PROVE  IsPrefix(s, t) /\ (Len(s) = Len(t) => s = t)
<1>1. PICK n : n = Len(s)
  OBVIOUS
<1>2. n \in Nat /\ Len(t) \in Nat /\ n \in 0 .. Len(s) /\ n \in 0 .. Len(t)
  BY <1>1, SeqLen
<1>3. PICK u, v : u = SubSeq(s, 1, n) /\ v = SubSeq(t, 1, n)
  OBVIOUS
<1>4. /\ IsSeq(u) /\ Len(u) = n /\ \A k \in 1 .. n : u[k] = s[k]
      /\ IsSeq(v) /\ Len(v) = n /\ \A k \in 1 .. n : v[k] = t[k]
  BY <1>2, <1>3, SeqFront
<1>5. u = v
  <2>1. \A k \in 1 .. n : u[k] = v[k]
    BY <1>1, <1>4
  <2> QED BY <1>4, <2>1, SeqSame
<1>6. Len(s) = Len(t) => s = t
  BY SeqSame
<1> QED BY <1>1, <1>3, <1>5, <1>6 DEF IsPrefix

(* What the record of the program says of the text.                        *)
LEMMA TextOf ==
  ASSUME Machine, mode = "read", known, NEW T, T = get_output_string(outport)
  PROVE  /\ IsSeq(T) /\ Len(T) \in Nat /\ Len(expect) \in Nat \ {0} /\ IsSeq(expect)
         /\ PortOK(port) /\ port.past_the_end \in Nat /\ port.past_the_end <= Len(T)
         /\ cut <=> port.past_the_end < Len(T)
         /\ cut => Len(expect) = 1
<1>1. PortOK(port) /\ PortOK(outport) /\ IsSeq(expect)
  BY DEF Machine, Grows
<1>2. IsSeq(T) /\ Len(T) = outport.curr
  BY <1>1, Outputs
<1>3. PICK m \in Nat : Opened(expect, T, port.start, m) /\ (cut <=> m < outport.curr)
  BY DEF Machine
<1>4. /\ Len(expect) \in Nat \ {0} /\ m \in 0 .. Len(T) /\ port.start = SubSeq(T, 1, m)
      /\ m < Len(T) => Len(expect) = 1
  BY <1>3 DEF Opened
<1>5. port.past_the_end = m
  <2>1. Len(SubSeq(T, 1, m)) = m
    BY <1>2, <1>4, SeqFront
  <2> QED BY <1>1, <1>4, <2>1, PortBounds
<1>6. Len(T) \in Nat
  BY <1>2, SeqLen
<1> QED BY <1>1, <1>2, <1>3, <1>4, <1>5, <1>6

LEMMA PlainTracks ==
  ASSUME Machine, Tracked, mode = "read", known, NEW T, T = get_output_string(outport)
  PROVE  \E np : Tracks(np, expect, T)
<1>1. PICK np : np = FALSE
  OBVIOUS
<1>2. FollowsText(np, expect, T)
  BY <1>1 DEF FollowsText, Plainly
<1>3. Tracks(np, expect, T)
  BY <1>2 DEF Tracked
<1> QED BY <1>3

LEMMA ReadsAll ==
  ASSUME Machine, Tracked
  PROVE  ReadsBack
<1>1. SUFFICES ASSUME mode = "read", known, ~cut
               PROVE  IsPrefix(got, expect) /\ op # "error" /\ (op = "end" => got = expect)
  BY DEF ReadsBack
<1>2. PICK T : T = get_output_string(outport)
  OBVIOUS
<1>3. /\ Len(T) \in Nat /\ port.past_the_end \in Nat /\ port.past_the_end <= Len(T) /\ IsSeq(expect)
      /\ ~(port.past_the_end < Len(T))
  BY <1>1, <1>2, TextOf
<1>4. PICK np : Tracks(np, expect, T)
  BY <1>1, <1>2, PlainTracks
<1>5. ~Lost(np, expect, T)
  BY <1>3 DEF Lost
<1>6. /\ GotSome(expect)
      /\ \/ Between(np, expect, T) \/ Returned(np, expect, T) \/ Finished(np, expect, T)
         \/ Inside(np, expect, T) \/ Delivered(np, expect, T) \/ VectorRead(np, expect, T)
  BY <1>4, <1>5 DEF Tracks
<1>7. IsPrefix(got, expect) /\ (Len(got) = Len(expect) => got = expect)
  <2>1. IsSeq(got) /\ Len(got) <= Len(expect) /\ \A k \in 1 .. Len(got) : got[k] = expect[k]
    BY <1>6 DEF GotSome
  <2> QED BY ONLY <1>3, <2>1, PrefixOf
<1>8. op # "error" /\ (op = "end" => Finished(np, expect, T))
  BY <1>6 DEF Between, Returned, Finished, Inside, Delivered, VectorRead, ValueOps, AbbreviationOps
<1>9. Finished(np, expect, T) => Len(got) = Len(expect)
  BY DEF Finished
<1> QED BY <1>7, <1>8, <1>9

LEMMA NoticesCut ==
  ASSUME Machine, Tracked
  PROVE  CutIsNoticed
<1>1. SUFFICES ASSUME mode = "read", cut, Bracketed(Last(expect))
               PROVE  IsPrefix(got, expect) /\ got # expect
  BY DEF CutIsNoticed
<1>2. known
  BY <1>1 DEF Machine
<1>3. PICK T : T = get_output_string(outport)
  OBVIOUS
<1>4. /\ Len(T) \in Nat /\ port.past_the_end \in Nat /\ IsSeq(expect)
      /\ port.past_the_end < Len(T) /\ Len(expect) = 1
  BY <1>1, <1>2, <1>3, TextOf
<1>5. PICK np : Tracks(np, expect, T)
  BY <1>1, <1>2, <1>3, PlainTracks
<1>6. Bracketed(expect[1])
  BY <1>1, <1>4 DEF Last
<1>7. CASE Lost(np, expect, T)
  <2>1. got = << >>
    BY <1>6, <1>7 DEF Lost
  <2>2. IsSeq(got) /\ Len(got) = 0
    BY <2>1, SeqEmpty
  <2>3. Len(got) <= Len(expect) /\ \A k \in 1 .. Len(got) : got[k] = expect[k]
    BY <1>4, <2>2
  <2>4. IsPrefix(got, expect)
    BY ONLY <1>4, <2>2, <2>3, PrefixOf
  <2> QED BY <1>4, <2>2, <2>4
<1>8. CASE ~Lost(np, expect, T)
  <2>1. /\ GotSome(expect)
        /\ \/ Between(np, expect, T) \/ Returned(np, expect, T) \/ Finished(np, expect, T)
           \/ Inside(np, expect, T) \/ Delivered(np, expect, T) \/ VectorRead(np, expect, T)
    BY <1>5, <1>8 DEF Tracks
  <2>2. IsSeq(got) /\ Len(got) <= Len(expect) /\ \A k \in 1 .. Len(got) : got[k] = expect[k]
    BY <2>1 DEF GotSome
  <2>3. IsPrefix(got, expect)
    BY ONLY <1>4, <2>2, PrefixOf
  <2>4. ~Finished(np, expect, T)
    BY <1>4 DEF Finished
  <2>5. CASE Between(np, expect, T)
    <3>1. PICK n, j : n = Len(got) /\ j = port.curr
      OBVIOUS
    <3>2. After(np, expect, T, n, j)
      BY <2>5, <3>1 DEF Between
    <3>3. j \in Nat /\ j <= port.past_the_end
      BY <1>5, <3>1, TextBounds DEF Tracks
    <3>4. n # 1
      <4>1. ASSUME n = 1  PROVE FALSE
        <5>1. ~OnText(np, expect, T, j, Place("idle", NIL, << >>, n))
          BY <1>4, <4>1, FromIdle
        <5>2. OnText(np, expect, T, j, Place("returned", NIL, << >>, n))
          BY <3>2, <5>1 DEF After
        <5>3. \/ j = Len(T)
              \/ \E t \in Separators : OnText(np, expect, T, j + Len(t), Place("idle", NIL, << >>, n))
          BY <5>2, FromEnd
        <5>4. ASSUME NEW i  PROVE ~OnText(np, expect, T, i, Place("idle", NIL, << >>, n))
          BY <1>4, <4>1, FromIdle
        <5> QED BY <1>4, <3>3, <5>3, <5>4
      <4> QED BY <4>1
    <3> QED BY <1>4, <2>3, <3>1, <3>4
  <2>6. CASE Len(got) < Len(expect)
    <3>1. Len(got) # Len(expect)
      BY <1>4, <2>2, <2>6, SeqLen
    <3> QED BY <2>3, <3>1
  <2> QED BY <2>1, <2>4, <2>5, <2>6 DEF Returned, Inside, Delivered, VectorRead
<1> QED BY <1>7, <1>8

LEMMA CountsNesting ==
  ASSUME Machine, Tracked
  PROVE  NestingCounts
<1> DEFINE taken == SubSeq(port.start, 1, port.curr)
           Count(c) == Cardinality({k \in DOMAIN taken : taken[k] = c})
           begun == IF op = "RDSEXPR" /\ tok \in {"LPAREN", "VEC"} THEN 1 ELSE 0
<1>1. SUFFICES ASSUME mode = "read", known, op # "error", Len(expect) = 1, NoParens(expect[1])
               PROVE  nesting + begun = Count("(") - Count(")")
  BY DEF NestingCounts
<1>2. PICK T, np, j : T = get_output_string(outport) /\ np = TRUE /\ j = port.curr
  OBVIOUS
<1>3. Tracks(np, expect, T)
  <2>1. Plainly(np, expect)
    BY <1>1, <1>2 DEF Plainly
  <2>2. FollowsText(np, expect, T)
    BY <1>1, <1>2, <2>1 DEF FollowsText
  <2> QED BY <1>1, <2>2 DEF Tracked
<1>4. PortOK(port) /\ Cuts(port, T)
  BY <1>3 DEF Tracks, TextThere, Cuts
<1>5. ASSUME NEW c  PROVE Count(c) = Cardinality(Placed(T, j, c))
  <2>1. IsSeq(port.start) /\ j \in 0 .. port.past_the_end /\ j \in 0 .. Len(port.start) /\ port.past_the_end \in Nat
    BY <1>2, <1>4, PortBounds
  <2>2. PICK s : s = SubSeq(port.start, 1, j)
    OBVIOUS
  <2>3. IsSeq(s) /\ Len(s) = j /\ \A k \in 1 .. j : s[k] = port.start[k]
    BY <2>1, <2>2, SeqFront
  <2>4. DOMAIN s = 1 .. j
    BY <2>3, SeqLen
  <2>5. \A k \in 1 .. j : s[k] = T[k]
    BY <1>4, <2>1, <2>3 DEF Cuts
  <2>6. {k \in DOMAIN s : s[k] = c} = Placed(T, j, c)
    BY <2>4, <2>5 DEF Placed
  <2> QED BY <1>2, <2>2, <2>6
<1>6. begun = IF op = "RDSEXPR" THEN Ups(tok) ELSE 0
  BY DEF Ups
<1>7. nesting + begun = Opens(T, j)
  <2>1. CASE Lost(np, expect, T)
    <3>1. op = "RDSEXPR" => Ups(tok) = 0
      BY <2>1 DEF Lost, LostTokens, EOF, Ups
    <3> QED BY <1>1, <1>2, <1>6, <2>1, <3>1 DEF Lost, Counted
  <2>2. CASE Inside(np, expect, T)
    BY <1>2, <1>6, <2>2 DEF Inside, Counted
  <2>3. CASE Between(np, expect, T) \/ Returned(np, expect, T) \/ Finished(np, expect, T)
    BY <1>2, <1>6, <2>3 DEF Between, Returned, Finished, Counted
  <2>4. CASE Delivered(np, expect, T) \/ VectorRead(np, expect, T)
    BY <1>2, <1>6, <2>4 DEF Delivered, VectorRead, ValueOps, AbbreviationOps, Counted
  <2> QED BY <1>3, <2>1, <2>2, <2>3, <2>4 DEF Tracks
<1>8. Opens(T, j) = Count("(") - Count(")")
  <2> HIDE DEF Count
  <2> QED BY <1>5 DEF Opens
<1> HIDE DEF Count, begun
<1> QED BY <1>7, <1>8

(* What write has put on a port that grows, read takes from it again: the  *)
(* same data in the same order, and then the end of the text; the reader   *)
(* meets no error on the way.  This is for any data that can be read       *)
(* again, of any depth and number, with any of the separators.             *)
THEOREM ReadWriteReadsBack == Spec => []ReadsBack
<1>1. Machine /\ Tracked => ReadsBack
  BY ReadsAll
<1> QED BY <1>1, TrackedAlways, PTL

(* A text that is cut off anywhere in a list, a vector or a string does    *)
(* not give a datum: RDLIST and readstrexp tell the end of the text from   *)
(* the end of the list or of the string.                                   *)
THEOREM ReadWriteCutIsNoticed == Spec => []CutIsNoticed
<1>1. Machine /\ Tracked => CutIsNoticed
  BY NoticesCut
<1> QED BY <1>1, TrackedAlways, PTL

(* At each opcode nesting is the number of the parentheses taken from the  *)
(* port that are open, where parentheses stand for lists and vectors only: *)
(* no opcode that closes a list forgets to count it down.                  *)
THEOREM ReadWriteNestingCounts == Spec => []NestingCounts
<1>1. Machine /\ Tracked => NestingCounts
  BY CountsNesting
<1> QED BY <1>1, TrackedAlways, PTL
=============================================================================
