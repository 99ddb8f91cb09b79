---------------------------- MODULE SessionProofs ----------------------------
(***************************************************************************)
(* The invariants of module Session, for every number of loads, requests,  *)
(* frames, files and forms.                                                *)
(*                                                                         *)
(* The inductive invariant, SessionInv, numbers the frames of the dump     *)
(* from the bottom, so that a frame keeps its number when others are put   *)
(* on it, and says how the parts of the dump relate: what an exit leads to *)
(* is what lies at the bottom of the dump itself; between the two there is *)
(* no load's top level, and no exit that leads further down (Nested); the  *)
(* handlers are the continuations of the catches that no exit hides        *)
(* (Handled); frames that would put a port back are on top or hidden       *)
(* (PortsKept); and each file but the outermost is one top level that      *)
(* waits (Level).                                                          *)
(***************************************************************************)
EXTENDS Session, FiniteSetTheorems, TLAPS

---------------------------------------------------------------------------
(* The invariant.                                                          *)

(* The frame of d that has h - 1 below it.                                 *)
At(d, h) == d[Len(d) - h + 1]

(* e is what lies at the bottom of d.                                      *)
IsBase(e, d) == Len(e) <= Len(d) /\ \A h \in 1 .. Len(e) : At(e, h) = At(d, h)

(* The exit at h leads to the bottom of d, past no top level of a load and *)
(* past no exit that leads further down.                                   *)
ExitOK(d, h) ==
  LET m == Len(At(d, h).k)
  IN  /\ m < h
      /\ IsBase(At(d, h).k, d)
      /\ \A g \in (m + 1) .. (h - 1) :
           /\ At(d, g).op # "T0LVL"
           /\ At(d, g).op = "exit" => m <= Len(At(d, g).k)

Nested(d) == \A h \in 1 .. Len(d) : At(d, h).op = "exit" => ExitOK(d, h)

(* An exit above it leads past the frame at h.                             *)
Hidden(d, h) == \E g \in (h + 1) .. Len(d) : At(d, g).op = "exit" /\ Len(At(d, g).k) < h

Caught(d) == {h \in 1 .. Len(d) : At(d, h).op = "pop-handler" /\ ~Hidden(d, h)}

(* hs are the continuations of the catches of d, innermost first.          *)
Handled(hs, d) ==
  /\ \A x \in 1 .. Len(hs) : IsBase(hs[x], d) /\ Len(hs[x]) + 1 \in Caught(d)
  /\ \A h \in Caught(d) : \E x \in 1 .. Len(hs) : Len(hs[x]) + 1 = h
  /\ \A x, y \in 1 .. Len(hs) : x < y => Len(hs[x]) > Len(hs[y])

OnTop(d, o) == Len(d) > 0 /\ At(d, Len(d)).op = o

(* A read that failed leaves a frame to put the port back, on top of the   *)
(* dump until the error is handled and hidden from then on.                *)
SetInportHidden(d, o) ==
  \A h \in 1 .. Len(d) :
    At(d, h).op = "set-inport" => Hidden(d, h) \/ (h = Len(d) /\ o = "throw")

(* The frames that wait for the form being read are the topmost.           *)
ReadOnTop(d, o) ==
  \A h \in 1 .. Len(d) :
    At(d, h).op = "T1LVL" => /\ h = Len(d) /\ h > 2
                             /\ o \in {"return", "throw"}
                             /\ At(d, h - 1).op = "VALUEPRINT"
                             /\ At(d, h - 2).op = "T0LVL"

PortsKept ==
  /\ SetInportHidden(dump, op)
  /\ ReadOnTop(dump, op)
  /\ ~OnTop(dump, "T1LVL") => chosen \in {inport, "any"}
  /\ OnTop(dump, "T1LVL") /\ op = "return" => chosen \in {save_inport, "any"}

Loads(d) == {h \in 1 .. Len(d) : At(d, h).op = "T0LVL"}

(* How many files are not above a waiting top level.                       *)
Level == (IF what = "load" THEN 0 ELSE 1) + (IF op = "T0LVL" THEN 1 ELSE 0)

(* A load stands on the top level of its file, in the global environment.  *)
InLoad ==
  /\ \A h \in 1 .. Len(dump) : At(dump, h).own = n /\ At(dump, h).envir \in {0, n}
  /\ envir \in {0, n}
  /\ Len(dump) > 0 => At(dump, 1).op = "T0LVL" /\ At(dump, 1).envir = 0
  /\ Len(dump) = 0 => op = "T0LVL" /\ envir = 0

Working ==
  /\ Nested(dump)
  /\ Handled(handlers, dump)
  /\ PortsKept
  /\ Cardinality(Loads(dump)) = Len(files) - Level
  /\ what = "load" => InLoad

AtRest ==
  /\ handlers = << >>
  /\ n = 0 => dump = << >>
  /\ n > 0 /\ ended[n] = "value" =>
       /\ dump = << >> /\ Len(files) = 1
       /\ chosen \in {inport, "any"}
       /\ what = "load" => files = <<-1>> /\ envir = 0

(* Nothing is promised of requests once an evaluation has failed.          *)
Good == ~strayed /\ (what = "load" \/ NoFailure)

Structured == Good => IF Idle THEN AtRest ELSE Working

(* All frames there are, those of continuations included, come from a set  *)
(* of frames that is closed under taking the continuation.                 *)
FrameOps == {"args", "T0LVL", "T1LVL", "VALUEPRINT", "exit", "pop-handler", "set-inport"}

FrameIn(f, F) ==
  /\ f.op \in FrameOps
  /\ f.envir \in 0 .. n
  /\ f.op = "set-inport" => f.port \in Ports
  /\ f.k \in Seq(F)

Closed(F) == \A f \in F : FrameIn(f, F)

TypedBy(F) == Closed(F) /\ dump \in Seq(F) /\ handlers \in Seq(Seq(F))

Typed ==
  /\ TypeOK
  /\ strayed \in BOOLEAN
  /\ n > 0 => Len(files) > 0
  /\ op # "idle" => n > 0
  /\ \E F : TypedBy(F)

SessionInv == Typed /\ Structured

---------------------------------------------------------------------------
(* Sequences, seen from the bottom.                                        *)

Pushed(d, f, e, F) ==
  /\ e \in Seq(F)
  /\ Len(e) = Len(d) + 1
  /\ At(e, Len(d) + 1) = f
  /\ \A h \in 1 .. Len(d) : At(e, h) = At(d, h)

LEMMA PushAt ==
  ASSUME NEW F, NEW d \in Seq(F), NEW f \in F
  PROVE  Pushed(d, f, <<f>> \o d, F)
<1> DEFINE e == <<f>> \o d
<1>1. e \in Seq(F) /\ Len(e) = Len(d) + 1 /\ Len(d) \in Nat
  OBVIOUS
<1>2. e[1] = f /\ \A x \in 1 .. Len(d) : e[x + 1] = d[x]
  OBVIOUS
<1> HIDE DEF e
<1>3. At(e, Len(d) + 1) = f
  <2>1. Len(e) - (Len(d) + 1) + 1 = 1
    BY <1>1
  <2> QED BY <1>2, <2>1 DEF At
<1>4. ASSUME NEW h \in 1 .. Len(d)  PROVE At(e, h) = At(d, h)
  <2>1. Len(d) - h + 1 \in 1 .. Len(d) /\ Len(e) - h + 1 = (Len(d) - h + 1) + 1
    BY <1>1
  <2> QED BY <1>2, <2>1 DEF At
<1> QED BY <1>1, <1>3, <1>4 DEF Pushed, e

LEMMA SuffixAt ==
  ASSUME NEW F, NEW d \in Seq(F), NEW x \in 0 .. Len(d), NEW e,
         e = SubSeq(d, x + 1, Len(d))
  PROVE  e \in Seq(F) /\ Len(e) = Len(d) - x /\ IsBase(e, d)
<1>1. Len(d) \in Nat
  OBVIOUS
<1>2. e = [y \in 1 .. (Len(d) - x) |-> d[x + y]]
  BY <1>1
<1>3. e \in Seq(F) /\ Len(e) = Len(d) - x
  <2>1. \A y \in 1 .. (Len(d) - x) : d[x + y] \in F
    BY <1>1
  <2> QED BY <1>1, <1>2, <2>1
<1>4. ASSUME NEW h \in 1 .. Len(e)  PROVE At(e, h) = At(d, h)
  <2>1. /\ Len(e) - h + 1 \in 1 .. (Len(d) - x)
        /\ x + (Len(e) - h + 1) = Len(d) - h + 1
    BY <1>1, <1>3
  <2>2. At(e, h) = e[Len(e) - h + 1] /\ At(d, h) = d[Len(d) - h + 1]
    BY DEF At
  <2>3. e[Len(e) - h + 1] = d[x + (Len(e) - h + 1)]
    BY ONLY <1>2, <2>1
  <2> QED BY <2>1, <2>2, <2>3
<1> QED BY <1>1, <1>3, <1>4 DEF IsBase

LEMMA TailAt ==
  ASSUME NEW F, NEW d \in Seq(F), d # << >>
  PROVE  /\ Len(d) \in Nat \ {0}
         /\ Tail(d) \in Seq(F) /\ Len(Tail(d)) = Len(d) - 1 /\ IsBase(Tail(d), d)
         /\ Head(d) = At(d, Len(d)) /\ Head(d) \in F
<1>1. Len(d) \in Nat \ {0}
  OBVIOUS
<1>2. Tail(d) = SubSeq(d, 1 + 1, Len(d))
  BY <1>1
<1>3. Tail(d) \in Seq(F) /\ Len(Tail(d)) = Len(d) - 1 /\ IsBase(Tail(d), d)
  <2>1. 1 \in 0 .. Len(d)
    BY <1>1
  <2> QED BY <1>2, <2>1, SuffixAt
<1>4. Head(d) = At(d, Len(d)) /\ Head(d) \in F
  BY <1>1 DEF At
<1> QED BY <1>1, <1>3, <1>4

LEMMA AtIn ==
  ASSUME NEW F, NEW d \in Seq(F)
  PROVE  /\ Len(d) \in Nat
         /\ \A h \in 1 .. Len(d) : At(d, h) \in F
         /\ \A x \in 1 .. Len(d) : d[x] = At(d, Len(d) - x + 1)
<1>1. Len(d) \in Nat
  OBVIOUS
<1>2. ASSUME NEW h \in 1 .. Len(d)  PROVE At(d, h) \in F
  BY <1>1 DEF At
<1>3. ASSUME NEW x \in 1 .. Len(d)  PROVE d[x] = At(d, Len(d) - x + 1)
  <2>1. Len(d) - (Len(d) - x + 1) + 1 = x
    BY <1>1
  <2> QED BY <2>1 DEF At
<1> QED BY <1>1, <1>2, <1>3

(* What lies at the bottom of d is given by how much it is.                *)
LEMMA BaseIs ==
  ASSUME NEW F, NEW d \in Seq(F), NEW e \in Seq(F), IsBase(e, d)
  PROVE  e = SubSeq(d, (Len(d) - Len(e)) + 1, Len(d))
<1> DEFINE x == Len(d) - Len(e)
           s == SubSeq(d, x + 1, Len(d))
<1>1. Len(d) \in Nat /\ Len(e) \in Nat /\ x \in 0 .. Len(d)
  BY DEF IsBase
<1>2. s \in Seq(F) /\ Len(s) = Len(e) /\ IsBase(s, d)
  <2> HIDE DEF x
  <2>1. s \in Seq(F) /\ Len(s) = Len(d) - x /\ IsBase(s, d)
    BY <1>1, SuffixAt
  <2> QED BY <1>1, <2>1 DEF x
<1> HIDE DEF s
<1>3. ASSUME NEW y \in 1 .. Len(e)  PROVE e[y] = s[y]
  <2>1. Len(e) - y + 1 \in 1 .. Len(e)
    BY <1>1
  <2>2. At(e, Len(e) - y + 1) = At(s, Len(s) - y + 1)
    BY <1>2, <2>1 DEF IsBase
  <2>3. e[y] = At(e, Len(e) - y + 1)
    BY AtIn
  <2>4. s[y] = At(s, Len(s) - y + 1)
    BY <1>2, AtIn
  <2> QED BY <2>2, <2>3, <2>4
<1>4. e = s
  BY <1>2, <1>3
<1> QED BY <1>4 DEF s

---------------------------------------------------------------------------
(* Types.                                                                  *)

LEMMA SeqMore ==
  ASSUME NEW F, NEW G, F \subseteq G
  PROVE  Seq(F) \subseteq Seq(G) /\ Seq(Seq(F)) \subseteq Seq(Seq(G))
<1>1. \A X, Y : X \subseteq Y => Seq(X) \subseteq Seq(Y)
  <2> SUFFICES ASSUME NEW X, NEW Y, X \subseteq Y, NEW s \in Seq(X)  PROVE s \in Seq(Y)
    OBVIOUS
  <2>1. Len(s) \in Nat /\ \A j \in 1 .. Len(s) : s[j] \in Y
    OBVIOUS
  <2>2. s = [j \in 1 .. Len(s) |-> s[j]]
    OBVIOUS
  <2> QED BY <2>1, <2>2
<1> QED BY <1>1

LEMMA Pieces ==
  ASSUME NEW X, NEW s \in Seq(X)
  PROVE  /\ Len(s) \in Nat
         /\ s # << >> => Head(s) \in X /\ Tail(s) \in Seq(X) /\ Len(Tail(s)) = Len(s) - 1
         /\ \A a \in X : <<a>> \o s \in Seq(X) /\ Len(<<a>> \o s) = Len(s) + 1
         /\ \A a \in X : Append(s, a) \in Seq(X) /\ Len(Append(s, a)) = Len(s) + 1
         /\ s = << >> <=> Len(s) = 0
OBVIOUS

(* The three frames of a read go onto the dump one after the other.        *)
LEMMA SavedThree ==
  ASSUME NEW F, dump \in Seq(F), NEW a, NEW b, NEW c, s_save(<<a, b, c>>),
         Frame(a, << >>) \in F, Frame(b, << >>) \in F, Frame(c, << >>) \in F
  PROVE  dump' = <<Frame(a, << >>)>> \o (<<Frame(b, << >>)>> \o (<<Frame(c, << >>)>> \o dump))
<1> DEFINE f == Frame(a, << >>)
           g == Frame(b, << >>)
           h == Frame(c, << >>)
           ops == <<a, b, c>>
<1>1. [x \in 1 .. Len(ops) |-> Frame(ops[x], << >>)] = <<f, g, h>>
  <2>1. Len(ops) = 3 /\ ops[1] = a /\ ops[2] = b /\ ops[3] = c
    OBVIOUS
  <2> HIDE DEF ops
  <2>2. 1 .. Len(ops) = 1 .. 3
    BY <2>1
  <2>3. \A x \in 1 .. 3 : Frame(ops[x], << >>) = <<f, g, h>>[x]
    BY <2>1
  <2>4. <<f, g, h>> = [x \in 1 .. 3 |-> <<f, g, h>>[x]]
    OBVIOUS
  <2> QED BY <2>2, <2>3, <2>4
<1>2. dump' = <<f, g, h>> \o dump
  BY <1>1 DEF s_save
<1> HIDE DEF f, g, h
<1>3. <<f, g, h>> \o dump = <<f>> \o (<<g>> \o (<<h>> \o dump))
  <2>1. f \in F /\ g \in F /\ h \in F
    BY DEF f, g, h
  <2> DEFINE u == <<f, g, h>> \o dump
             v3 == <<h>> \o dump
             v2 == <<g>> \o v3
             v1 == <<f>> \o v2
  <2>2. u \in Seq(F) /\ Len(u) = Len(dump) + 3 /\ Len(dump) \in Nat
    BY <2>1
  <2>3. /\ u[1] = f /\ u[2] = g /\ u[3] = h
        /\ \A x \in 1 .. Len(dump) : u[x + 3] = dump[x]
    BY <2>1
  <2>4. v3 \in Seq(F) /\ Len(v3) = Len(dump) + 1 /\ v3[1] = h
        /\ \A x \in 1 .. Len(dump) : v3[x + 1] = dump[x]
    BY <2>1
  <2> HIDE DEF v3
  <2>5. v2 \in Seq(F) /\ Len(v2) = Len(v3) + 1 /\ v2[1] = g
        /\ \A x \in 1 .. Len(v3) : v2[x + 1] = v3[x]
    BY <2>1, <2>4
  <2> HIDE DEF v2
  <2>6. v1 \in Seq(F) /\ Len(v1) = Len(v2) + 1 /\ v1[1] = f
        /\ \A x \in 1 .. Len(v2) : v1[x + 1] = v2[x]
    BY <2>1, <2>5
  <2> HIDE DEF u, v1
  <2>7. ASSUME NEW x \in 1 .. (Len(dump) + 3)  PROVE u[x] = v1[x]
    <3>1. CASE x \in {1, 2, 3}
      <4>1. v1[2] = g
        <5>1. 1 \in 1 .. Len(v2)
          BY <2>2, <2>4, <2>5
        <5>2. v1[1 + 1] = v2[1]
          BY <2>6, <5>1
        <5> QED BY <2>5, <5>2
      <4>2. v1[3] = h
        <5>1. 2 \in 1 .. Len(v2) /\ 1 \in 1 .. Len(v3)
          BY <2>2, <2>4, <2>5
        <5>2. v1[2 + 1] = v2[2] /\ v2[1 + 1] = v3[1]
          BY <2>5, <2>6, <5>1
        <5> QED BY <2>4, <5>2
      <4> QED BY <2>3, <2>6, <3>1, <4>1, <4>2
    <3>2. CASE x \notin {1, 2, 3}
      <4>1. PICK y \in 1 .. Len(dump) : x = y + 3
        <5>1. x - 3 \in 1 .. Len(dump) /\ x = (x - 3) + 3
          BY <2>2, <3>2
        <5> QED BY <5>1
      <4>2. y + 1 \in 1 .. Len(v3) /\ y + 2 \in 1 .. Len(v2)
        BY <2>2, <2>4, <2>5
      <4>3. v3[y + 1] = dump[y]
        BY <2>4
      <4>4. v2[(y + 1) + 1] = v3[y + 1] /\ v1[(y + 2) + 1] = v2[y + 2]
        BY <2>5, <2>6, <4>2
      <4>5. (y + 1) + 1 = y + 2 /\ (y + 2) + 1 = x
        BY <4>1
      <4>6. u[x] = dump[y]
        BY <2>3, <4>1
      <4> QED BY <4>3, <4>4, <4>5, <4>6
    <3> QED BY <3>1, <3>2
  <2>8. Len(u) = Len(dump) + 3 /\ Len(v1) = Len(dump) + 3
    BY <2>2, <2>4, <2>5, <2>6
  <2>9. u = v1
    BY <2>2, <2>6, <2>7, <2>8
  <2> QED BY <2>9 DEF u, v1, v2, v3
<1> QED BY <1>2, <1>3 DEF f, g, h

LEMMA SavedOne ==
  ASSUME NEW a, s_save(<<a>>)
  PROVE  dump' = <<Frame(a, << >>)>> \o dump
<1>1. [x \in 1 .. Len(<<a>>) |-> Frame(<<a>>[x], << >>)] = <<Frame(a, << >>)>>
  <2>1. Len(<<a>>) = 1 /\ <<a>>[1] = a
    OBVIOUS
  <2>2. 1 .. Len(<<a>>) = 1 .. 1
    BY <2>1
  <2> QED BY <2>1, <2>2
<1> QED BY <1>1 DEF s_save

LEMMA TypedKept ==
  ASSUME NEW F, TypedBy(F), n \in Nat, n' \in {n, n + 1},
         dump' \in Seq(F), handlers' \in Seq(Seq(F))
  PROVE  \E G : TypedBy(G)'
<1>1. \A f \in F : FrameIn(f, F)'
  BY DEF TypedBy, Closed, FrameIn
<1> QED BY <1>1 DEF TypedBy, Closed

LEMMA TypedPush ==
  ASSUME NEW F, TypedBy(F), n' = n, NEW f, FrameIn(f, F),
         dump' = <<f>> \o dump, handlers' \in Seq(Seq(F))
  PROVE  \E G : TypedBy(G)'
<1> DEFINE G == F \cup {f}
<1>1. Seq(F) \subseteq Seq(G) /\ Seq(Seq(F)) \subseteq Seq(Seq(G))
  BY SeqMore
<1>2. \A g \in G : FrameIn(g, F)
  BY DEF TypedBy, Closed
<1>3. \A g \in G : FrameIn(g, G)'
  BY <1>1, <1>2 DEF FrameIn
<1>4. dump' \in Seq(G)
  <2>1. dump \in Seq(G) /\ f \in G
    BY <1>1 DEF TypedBy
  <2> HIDE DEF G
  <2> QED BY <2>1, Pieces
<1>5. handlers' \in Seq(Seq(G))
  BY <1>1
<1> QED BY <1>3, <1>4, <1>5 DEF TypedBy, Closed

(* The types of the rest of the state.                                     *)
RestTyped ==
  /\ op \in {"idle", "EVAL", "T0LVL", "return", "throw"}
  /\ envir \in 0 .. n
  /\ files \in Seq(-1 .. MaxForms) /\ Len(files) <= MAXFIL
  /\ eof \in BOOLEAN /\ n \in Nat
  /\ what \in {"load", "request"}
  /\ ended \in Seq({"value", "error", "quit"})
  /\ {inport, save_inport} \subseteq Ports /\ chosen \in Ports \cup {"any"}
  /\ Len(ended) = IF Idle THEN n ELSE n - 1
  /\ strayed \in BOOLEAN
  /\ n > 0 => Len(files) > 0
  /\ op # "idle" => n > 0

LEMMA TypedIs == Typed <=> RestTyped /\ \E F : TypedBy(F)
<1>1. ASSUME NEW F, TypedBy(F)  PROVE \A x \in DOMAIN dump : dump[x].op \in FrameOps
  BY <1>1 DEF TypedBy, Closed, FrameIn
<1> QED BY <1>1 DEF Typed, RestTyped, TypeOK, FrameOps

LEMMA ReadFormTyped ==
  ASSUME files \in Seq(-1 .. MaxForms), Len(files) > 0, ReadForm
  PROVE  /\ files' \in Seq(-1 .. MaxForms) /\ Len(files') = Len(files)
         /\ files' # << >>
<1>1. /\ Head(files) \in -1 .. MaxForms
      /\ Tail(files) \in Seq(-1 .. MaxForms) /\ Len(Tail(files)) = Len(files) - 1
      /\ Len(files) \in Nat
  <2> DEFINE X == -1 .. MaxForms
  <2>1. files \in Seq(X)
    OBVIOUS
  <2> HIDE DEF X
  <2>2. /\ Head(files) \in X
        /\ Tail(files) \in Seq(X) /\ Len(Tail(files)) = Len(files) - 1
        /\ Len(files) \in Nat
    <3>1. files # << >>
      OBVIOUS
    <3> QED BY <2>1, <3>1, Pieces
  <2> QED BY <2>2 DEF X
<1>2. CASE UNCHANGED files
  BY <1>1, <1>2
<1>3. CASE ~UNCHANGED files
  <2>1. PICK left \in {-1, Head(files), Head(files) - 1} :
          /\ files' = <<left>> \o Tail(files)
          /\ left = Head(files) - 1 => Head(files) # -1
    BY <1>1, <1>3 DEF ReadForm
  <2>2. left \in -1 .. MaxForms
    BY <1>1, <2>1, SessionAssumption
  <2>3. <<left>> \o Tail(files) \in Seq(-1 .. MaxForms)
    BY <1>1, <2>2, Pieces
  <2>4. Len(<<left>> \o Tail(files)) = Len(Tail(files)) + 1
    BY <1>1, <2>2, Pieces
  <2> QED BY <1>1, <2>1, <2>3, <2>4
<1> QED BY <1>2, <1>3

LEMMA RestStep ==
  ASSUME RestTyped, NEW F, TypedBy(F), Next
  PROVE  RestTyped'
<1> USE DEF RestTyped, Idle, portVars, Ports, Return
<1>1. MaxForms \in Nat /\ MAXFIL \in Nat \ {0}
  BY SessionAssumption
<1>2. \A r \in {"value", "error", "quit"} :
        /\ Append(ended, r) \in Seq({"value", "error", "quit"})
        /\ Len(Append(ended, r)) = Len(ended) + 1
  <2> DEFINE R == {"value", "error", "quit"}
  <2>1. ended \in Seq(R)
    OBVIOUS
  <2> HIDE DEF R
  <2>2. \A r \in R : Append(ended, r) \in Seq(R) /\ Len(Append(ended, r)) = Len(ended) + 1
    BY ONLY <2>1, Pieces
  <2> QED BY <2>2 DEF R
<1>3. Len(files) \in Nat /\ (Len(files) > 0 => files # << >>)
  <2>1. files \in Seq(-1 .. MaxForms)
    OBVIOUS
  <2> QED BY ONLY <2>1, Pieces
<1>4. \A forms \in 0 .. MaxForms :
        /\ <<forms>> \in Seq(-1 .. MaxForms) /\ Len(<<forms>>) = 1
        /\ <<forms>> \o files \in Seq(-1 .. MaxForms)
        /\ Len(<<forms>> \o files) = Len(files) + 1
  <2> SUFFICES ASSUME NEW forms \in 0 .. MaxForms
               PROVE  /\ <<forms>> \in Seq(-1 .. MaxForms) /\ Len(<<forms>>) = 1
                      /\ <<forms>> \o files \in Seq(-1 .. MaxForms)
                      /\ Len(<<forms>> \o files) = Len(files) + 1
    OBVIOUS
  <2>1. forms \in -1 .. MaxForms
    BY <1>1
  <2> QED BY <2>1, Pieces
<1>5. ASSUME NEW forms \in 0 .. MaxForms, scheme_load_named_file(forms)
      PROVE  RestTyped'
  BY <1>1, <1>4, <1>5 DEF scheme_load_named_file
<1>6. ASSUME NEW forms \in 0 .. MaxForms, OP_LOAD(forms)  PROVE RestTyped'
  <2>1. op = "EVAL" /\ n > 0
    BY <1>6 DEF OP_LOAD, Program
  <2>2. op' \in {"throw", "T0LVL"} /\ UNCHANGED <<envir, eof, n, what, ended, strayed, portVars>>
    BY <1>6 DEF OP_LOAD
  <2>3. files' \in Seq(-1 .. MaxForms) /\ Len(files') <= MAXFIL /\ Len(files') > 0
    <3>1. CASE file_i = MAXFIL - 1
      BY <1>6, <2>1, <3>1 DEF OP_LOAD
    <3>2. CASE file_i # MAXFIL - 1
      <4>1. files' = <<forms>> \o files
        BY <1>6, <3>2 DEF OP_LOAD
      <4>2. Len(files) + 1 <= MAXFIL
        BY <1>1, <1>3, <3>2 DEF file_i
      <4> QED BY <1>3, <1>4, <4>1, <4>2
    <3> QED BY <3>1, <3>2
  <2> QED BY <2>1, <2>2, <2>3
<1>7. CASE \E port \in Ports : OP_READ(port)
  <2>1. PICK port \in Ports : OP_READ(port)
    BY <1>7
  <2>2. files' \in Seq(-1 .. MaxForms) /\ Len(files') = Len(files)
    <3>1. CASE port = "file"
      BY <2>1, <3>1, <1>3, ReadFormTyped DEF OP_READ, Program
    <3>2. CASE port # "file"
      BY <2>1, <3>2 DEF OP_READ
    <3> QED BY <3>1, <3>2
  <2> QED BY <2>1, <2>2 DEF OP_READ, Program
<1>8. CASE \E port \in Ports : OP_SET_INPORT(port)
  BY <1>8 DEF OP_SET_INPORT, Program
<1>9. CASE scheme_eval
  BY <1>9 DEF scheme_eval
<1>10. CASE s_return
  <2>1. CASE dump = << >>
    BY <1>2, <1>10, <2>1 DEF s_return
  <2>2. CASE dump # << >>
    <3> DEFINE f == Head(dump)
    <3>1. f \in F
      BY <2>2, Pieces DEF TypedBy
    <3>2. FrameIn(f, F)
      BY <3>1 DEF TypedBy, Closed
    <3> HIDE DEF f
    <3>3. /\ envir' = f.envir
          /\ op' = CASE f.op = "args"        -> "EVAL"
                     [] f.op = "T0LVL"       -> "T0LVL"
                     [] f.op = "T1LVL"       -> "EVAL"
                     [] f.op = "VALUEPRINT"  -> "return"
                     [] f.op = "exit"        -> "return"
                     [] f.op = "set-inport"  -> "return"
                     [] f.op = "pop-handler" ->
                          IF handlers = << >> THEN "throw" ELSE "return"
          /\ inport' = CASE f.op = "T1LVL"      -> save_inport
                         [] f.op = "set-inport" -> f.port
                         [] OTHER               -> inport
          /\ UNCHANGED <<ended, files, eof, n, what, save_inport, chosen, strayed>>
          /\ op = "return"
      BY <1>10, <2>2 DEF s_return, f
    <3>4. op' \in {"EVAL", "T0LVL", "return", "throw"}
      BY <3>2, <3>3 DEF FrameIn, FrameOps
    <3>5. inport' \in Ports
      BY <3>2, <3>3 DEF FrameIn, FrameOps
    <3>6. envir' \in 0 .. n
      BY <3>2, <3>3 DEF FrameIn
    <3> QED BY <3>3, <3>4, <3>5, <3>6
  <2> QED BY <2>1, <2>2
<1>11. CASE T0LVLend
  <2>1. CASE file_i = 0
    BY <1>2, <1>11, <2>1 DEF T0LVLend
  <2>2. CASE file_i # 0
    <3>1. Tail(files) \in Seq(-1 .. MaxForms) /\ Len(Tail(files)) = Len(files) - 1
      BY <1>3, <1>11, Pieces DEF T0LVLend
    <3>2. /\ files' = Tail(files) /\ op' = "return" /\ op = "T0LVL"
          /\ UNCHANGED <<envir, eof, n, what, ended, strayed, portVars>>
      BY <1>11, <2>2 DEF T0LVLend
    <3>3. Len(Tail(files)) > 0 /\ Len(Tail(files)) <= MAXFIL
      BY <1>1, <1>3, <2>2, <3>1, <3>2 DEF file_i
    <3> QED BY <3>1, <3>2, <3>3
  <2> QED BY <2>1, <2>2
<1>12. CASE T0LVLread
  <2>1. files' \in Seq(-1 .. MaxForms) /\ Len(files') = Len(files)
    BY <1>3, <1>12, ReadFormTyped DEF T0LVLread
  <2> QED BY <1>12, <2>1 DEF T0LVLread
<1>13. CASE EvalValue
  BY <1>13 DEF EvalValue
<1>14. CASE EvalPart
  BY <1>14 DEF EvalPart
<1>15. CASE ApplyClosure
  BY <1>15 DEF ApplyClosure, Program
<1>16. CASE Catch
  BY <1>16 DEF Catch, Program
<1>17. CASE Fails
  BY <1>17 DEF Fails, Program
<1>18. CASE throwHandled
  BY <1>18 DEF throwHandled
<1>19. CASE throwUnhandled
  BY <1>2, <1>19 DEF throwUnhandled
<1>20. CASE OP_QUIT
  BY <1>2, <1>20 DEF OP_QUIT, Program
<1>21. CASE Escape
  BY <1>21 DEF Escape, Program
<1> QED BY <1>5, <1>6, <1>7, <1>8, <1>9, <1>10, <1>11, <1>12, <1>13, <1>14, <1>15,
           <1>16, <1>17, <1>18, <1>19, <1>20, <1>21 DEF Next

LEMMA FramesStep ==
  ASSUME RestTyped, NEW F, TypedBy(F), Next
  PROVE  \E G : TypedBy(G)'
<1>1. n \in Nat /\ envir \in 0 .. n /\ inport \in Ports
  BY DEF RestTyped
<1>2. << >> \in Seq(F) /\ << >> \in Seq(Seq(F))
  OBVIOUS
<1>3. ASSUME NEW o \in FrameOps \ {"set-inport"}, NEW k \in Seq(F)
      PROVE  /\ FrameIn(Frame(o, k), F)
             /\ FrameIn([Frame(o, k) EXCEPT !.envir = n], F)
  <2>1. n \in 0 .. n
    BY <1>1
  <2> QED BY <1>1, <2>1 DEF FrameIn, Frame
<1>4. ASSUME UNCHANGED <<dump, handlers, n>>  PROVE \E G : TypedBy(G)'
  BY <1>1, <1>4, TypedKept DEF TypedBy
<1>5. ASSUME NEW forms \in 0 .. MaxForms, scheme_load_named_file(forms)
      PROVE  \E G : TypedBy(G)'
  <2>1. dump' = << >> /\ handlers' = handlers /\ n' = n + 1
    BY <1>5 DEF scheme_load_named_file
  <2> QED BY <1>1, <1>2, <2>1, TypedKept DEF TypedBy
<1>6. ASSUME NEW forms \in 0 .. MaxForms, OP_LOAD(forms)  PROVE \E G : TypedBy(G)'
  BY <1>4, <1>6 DEF OP_LOAD
<1>7. ASSUME NEW port \in Ports, OP_READ(port)  PROVE \E G : TypedBy(G)'
  <2>1. n' = n /\ handlers' = handlers
    BY <1>7 DEF OP_READ
  <2>2. CASE dump' = dump
    BY <1>4, <2>1, <2>2
  <2>3. CASE dump' # dump
    <3> DEFINE f == [Frame("set-inport", << >>) EXCEPT !.port = inport]
    <3>1. dump' = <<f>> \o dump
      BY <1>7, <2>3 DEF OP_READ
    <3>2. FrameIn(f, F)
      BY <1>1, <1>2 DEF FrameIn, Frame, FrameOps
    <3> HIDE DEF f
    <3>3. handlers' \in Seq(Seq(F))
      BY <2>1 DEF TypedBy
    <3> QED BY <2>1, <3>1, <3>2, <3>3, TypedPush
  <2> QED BY <2>2, <2>3
<1>8. CASE \E port \in Ports : OP_SET_INPORT(port)
  BY <1>4, <1>8 DEF OP_SET_INPORT
<1>9. CASE scheme_eval
  BY <1>1, <1>9, TypedKept DEF scheme_eval, TypedBy
<1>10. CASE s_return
  <2>1. CASE dump = << >>
    BY <1>4, <1>10, <2>1 DEF s_return
  <2>2. CASE dump # << >>
    <3>1. dump' \in {Head(dump).k, Tail(dump)} /\ handlers' \in {handlers, Tail(handlers)}
          /\ (handlers' = Tail(handlers) => handlers' = handlers \/ handlers # << >>)
          /\ n' = n
      BY <1>10, <2>2 DEF s_return
    <3>2. Head(dump) \in F /\ Tail(dump) \in Seq(F)
      BY <2>2, Pieces DEF TypedBy
    <3>3. Head(dump).k \in Seq(F)
      BY <3>2 DEF TypedBy, Closed, FrameIn
    <3>4. handlers' \in Seq(Seq(F))
      <4>1. handlers \in Seq(Seq(F))
        BY DEF TypedBy
      <4> QED BY <3>1, <4>1, Pieces
    <3> QED BY <1>1, <3>1, <3>2, <3>3, <3>4, TypedKept
  <2> QED BY <2>1, <2>2
<1>11. CASE T0LVLend
  BY <1>4, <1>11 DEF T0LVLend
<1>12. CASE T0LVLread
  <2> PICK a, b, c : /\ a = Frame("T1LVL", << >>)
                     /\ b = Frame("VALUEPRINT", << >>)
                     /\ c = Frame("T0LVL", << >>)
    OBVIOUS
  <2> DEFINE G == F \cup {a, b, c}
  <2>1. FrameIn(a, F) /\ FrameIn(b, F) /\ FrameIn(c, F)
    BY <1>2, <1>3 DEF FrameOps
  <2>2. Seq(F) \subseteq Seq(G) /\ Seq(Seq(F)) \subseteq Seq(Seq(G))
    <3>1. F \subseteq G
      OBVIOUS
    <3> HIDE DEF G
    <3> QED BY <3>1, SeqMore
  <2>3. a \in G /\ b \in G /\ c \in G /\ dump \in Seq(G)
    BY <2>2 DEF TypedBy
  <2>4. dump' = <<a>> \o (<<b>> \o (<<c>> \o dump))
    <3>1. s_save(<<"T1LVL", "VALUEPRINT", "T0LVL">>)
      BY <1>12 DEF T0LVLread
    <3> HIDE DEF G
    <3> QED BY <2>3, <3>1, SavedThree
  <2>5. n' = n /\ handlers' = handlers
    BY <1>12 DEF T0LVLread
  <2>6. \A g \in G : FrameIn(g, G)
    <3>1. \A g \in G : FrameIn(g, F)
      BY <2>1 DEF TypedBy, Closed
    <3> QED BY <2>2, <3>1 DEF FrameIn
  <2>7. \A g \in G : FrameIn(g, G)'
    BY <2>5, <2>6 DEF FrameIn
  <2> HIDE DEF G
  <2>8. dump' \in Seq(G)
    BY <2>3, <2>4, Pieces
  <2>9. handlers' \in Seq(Seq(G))
    BY <2>2, <2>5 DEF TypedBy
  <2> QED BY <2>7, <2>8, <2>9 DEF TypedBy, Closed
<1>13. CASE EvalValue
  BY <1>4, <1>13 DEF EvalValue
<1>14. CASE EvalPart
  <2>1. s_save(<<"args">>) /\ UNCHANGED <<handlers, n>>
    BY <1>14 DEF EvalPart
  <2>2. dump' = <<Frame("args", << >>)>> \o dump
    BY <2>1, SavedOne
  <2>3. FrameIn(Frame("args", << >>), F)
    BY <1>2, <1>3 DEF FrameOps
  <2>4. handlers' \in Seq(Seq(F))
    BY <2>1 DEF TypedBy
  <2> QED BY <2>1, <2>2, <2>3, <2>4, TypedPush
<1>15. CASE ApplyClosure
  BY <1>4, <1>15 DEF ApplyClosure
<1>16. CASE Catch
  <2> DEFINE f == [Frame("pop-handler", << >>) EXCEPT !.envir = n]
  <2>1. dump' = <<f>> \o dump /\ handlers' = <<dump>> \o handlers /\ n' = n
    BY <1>16 DEF Catch
  <2>2. FrameIn(f, F)
    BY <1>2, <1>3 DEF FrameOps
  <2> HIDE DEF f
  <2>3. handlers' \in Seq(Seq(F))
    BY <2>1, Pieces DEF TypedBy
  <2> QED BY <2>1, <2>2, <2>3, TypedPush
<1>17. CASE Fails
  BY <1>4, <1>17 DEF Fails
<1>18. CASE throwHandled
  <2> DEFINE f == [Frame("exit", Head(handlers)) EXCEPT !.envir = n]
  <2>1. dump' = <<f>> \o dump /\ handlers' = Tail(handlers) /\ n' = n /\ handlers # << >>
    BY <1>18 DEF throwHandled
  <2>2. Head(handlers) \in Seq(F) /\ Tail(handlers) \in Seq(Seq(F))
    BY <2>1, Pieces DEF TypedBy
  <2>3. FrameIn(f, F)
    BY <1>3, <2>2 DEF FrameOps
  <2> HIDE DEF f
  <2> QED BY <2>1, <2>2, <2>3, TypedPush
<1>19. CASE throwUnhandled
  BY <1>4, <1>19 DEF throwUnhandled
<1>20. CASE OP_QUIT
  BY <1>4, <1>20 DEF OP_QUIT
<1>21. CASE Escape
  <2>1. PICK x \in 1 .. Len(dump) : dump' = SubSeq(dump, x + 1, Len(dump))
    BY <1>21 DEF Escape
  <2>2. dump \in Seq(F) /\ Len(dump) \in Nat /\ handlers \in Seq(Seq(F))
    BY Pieces DEF TypedBy
  <2>3. dump' \in Seq(F)
    <3>1. x \in 0 .. Len(dump)
      BY <2>2
    <3> QED BY <2>1, <2>2, <3>1, SuffixAt
  <2>4. n' = n /\ handlers' = handlers
    BY <1>21 DEF Escape
  <2> QED BY <1>1, <2>2, <2>3, <2>4, TypedKept
<1> QED BY <1>5, <1>6, <1>7, <1>8, <1>9, <1>10, <1>11, <1>12, <1>13, <1>14, <1>15,
           <1>16, <1>17, <1>18, <1>19, <1>20, <1>21 DEF Next

LEMMA TypedIsNext == RestTyped' /\ (\E F : TypedBy(F)') => Typed'
<1>1. ASSUME NEW F, TypedBy(F)'  PROVE \A x \in DOMAIN dump' : dump'[x].op \in FrameOps
  BY <1>1 DEF TypedBy, Closed, FrameIn
<1> QED BY <1>1 DEF Typed, RestTyped, TypeOK, FrameOps

LEMMA TypedInit == Init => Typed
<1> SUFFICES ASSUME Init  PROVE Typed
  OBVIOUS
<1>1. TypedBy({})
  BY DEF Init, TypedBy, Closed
<1>2. RestTyped
  <2>1. << >> \in Seq(-1 .. MaxForms) /\ << >> \in Seq({"value", "error", "quit"}) /\ Len(<< >>) = 0
    OBVIOUS
  <2>2. files \in Seq(-1 .. MaxForms) /\ Len(files) = 0
    BY <2>1 DEF Init
  <2>3. ended \in Seq({"value", "error", "quit"}) /\ Len(ended) = 0
    BY <2>1 DEF Init
  <2>4. n = 0 /\ envir = 0 /\ op = "idle" /\ eof = FALSE /\ what = "load" /\ strayed = FALSE
    BY DEF Init
  <2>5. {inport, save_inport} \subseteq Ports /\ chosen \in Ports \cup {"any"}
    BY DEF Init, Ports
  <2>6. Len(files) <= MAXFIL
    BY <2>2, SessionAssumption
  <2>7. eof \in BOOLEAN /\ strayed \in BOOLEAN
    BY DEF Init
  <2>9. envir \in 0 .. n /\ n \in Nat /\ ~ (n > 0)
    <3>1. n = 0 /\ envir = 0
      BY <2>4
    <3> QED BY ONLY <3>1
  <2>8. op \in {"idle", "EVAL", "T0LVL", "return", "throw"} /\ what \in {"load", "request"}
    BY <2>4
  <2> QED BY <2>2, <2>3, <2>4, <2>5, <2>6, <2>7, <2>8, <2>9 DEF RestTyped, Idle
<1> QED BY <1>1, <1>2, TypedIs

LEMMA TypedStep == Typed /\ [Next]_vars => Typed'
<1>1. ASSUME Typed, Next  PROVE Typed'
  <2>1. RestTyped /\ \E F : TypedBy(F)
    BY <1>1, TypedIs
  <2>2. RestTyped' /\ \E F : TypedBy(F)'
    BY <1>1, <2>1, RestStep, FramesStep
  <2> QED BY <2>2, TypedIsNext
<1>2. ASSUME Typed, UNCHANGED vars  PROVE Typed'
  BY <1>2 DEF vars, portVars, Typed, TypeOK, TypedBy, Closed, FrameIn, Ports, Idle
<1> QED BY <1>1, <1>2

(* Every variable keeps its type, whatever a program does: the load stack  *)
(* never holds more files than it has room for, and every evaluation that  *)
(* has ended did so in one of the three ways.                              *)
THEOREM TypeCorrect == Spec => []TypeOK
<1>1. Typed => TypeOK
  BY DEF Typed
<1> QED BY <1>1, TypedInit, TypedStep, PTL DEF Spec

---------------------------------------------------------------------------
(* What becomes of the structure of the dump.                              *)

(* d and e are the same as far up as both go.                              *)
Agree(d, e) == \A h \in 1 .. Len(d) : h <= Len(e) => At(e, h) = At(d, h)

(* Nothing is changed below, and no frame comes to be hidden or to light.  *)
SameHiding(d, e, m) == \A h \in 1 .. m : Hidden(e, h) <=> Hidden(d, h)

LEMMA BaseTrans ==
  ASSUME NEW c, NEW e, NEW d, Len(c) \in Nat, Len(e) \in Nat, Len(d) \in Nat,
         IsBase(c, e), Agree(e, d), Len(c) <= Len(d)
  PROVE  IsBase(c, d)
<1>1. ASSUME NEW h \in 1 .. Len(c)  PROVE At(c, h) = At(d, h)
  <2>1. h \in 1 .. Len(e) /\ h <= Len(d)
    BY DEF IsBase
  <2> QED BY <2>1 DEF IsBase, Agree
<1> QED BY <1>1 DEF IsBase

LEMMA AgreeFacts ==
  ASSUME NEW d, NEW e, Len(d) \in Nat, Len(e) \in Nat
  PROVE  /\ Agree(d, e) => Agree(e, d)
         /\ IsBase(e, d) => Agree(d, e)
         /\ \A f, F : Pushed(d, f, e, F) => Agree(d, e)
<1>1. ASSUME Agree(d, e)  PROVE Agree(e, d)
  BY <1>1 DEF Agree
<1>2. ASSUME IsBase(e, d)  PROVE Agree(d, e)
  BY <1>2 DEF Agree, IsBase
<1>3. ASSUME NEW f, NEW F, Pushed(d, f, e, F)  PROVE Agree(d, e)
  BY <1>3 DEF Agree, Pushed
<1> QED BY <1>1, <1>2, <1>3

(* An exit is as well placed after a change above it as before.            *)
LEMMA ExitKept ==
  ASSUME NEW F, NEW d \in Seq(F), NEW e \in Seq(F), \A f \in F : f.k \in Seq(F),
         Agree(d, e), Nested(d), NEW h \in 1 .. Len(d), h <= Len(e), At(e, h).op = "exit"
  PROVE  ExitOK(e, h)
<1> DEFINE m == Len(At(d, h).k)
<1>1. Len(d) \in Nat /\ Len(e) \in Nat /\ At(d, h) \in F /\ At(e, h) = At(d, h)
  BY AtIn DEF Agree
<1>2. m \in Nat
  BY <1>1, AtIn
<1>3. /\ m < h
      /\ IsBase(At(d, h).k, d)
      /\ \A g \in (m + 1) .. (h - 1) : /\ At(d, g).op # "T0LVL"
                                       /\ At(d, g).op = "exit" => m <= Len(At(d, g).k)
  BY <1>1 DEF Nested, ExitOK
<1>4. IsBase(At(d, h).k, e)
  <2>1. m <= Len(e)
    BY <1>1, <1>2, <1>3
  <2> QED BY <1>1, <1>2, <1>3, <2>1, BaseTrans
<1>5. \A g \in (m + 1) .. (h - 1) : At(e, g) = At(d, g)
  BY <1>1, <1>2 DEF Agree
<1> QED BY <1>1, <1>3, <1>4, <1>5 DEF ExitOK

Plain(d, f, e) ==
  /\ Nested(e)
  /\ SameHiding(d, e, Len(d))
  /\ ~Hidden(e, Len(d) + 1)
  /\ Caught(e) = Caught(d) \cup (IF f.op = "pop-handler" THEN {Len(d) + 1} ELSE {})
  /\ Loads(e) = Loads(d) \cup (IF f.op = "T0LVL" THEN {Len(d) + 1} ELSE {})

LEMMA PushPlain ==
  ASSUME NEW F, NEW d \in Seq(F), NEW f \in F, NEW e, \A g \in F : g.k \in Seq(F),
         Pushed(d, f, e, F), f.op # "exit", Nested(d)
  PROVE  Plain(d, f, e)
<1>1. /\ Len(d) \in Nat /\ Len(e) = Len(d) + 1 /\ e \in Seq(F)
      /\ At(e, Len(d) + 1) = f /\ \A h \in 1 .. Len(d) : At(e, h) = At(d, h)
  BY AtIn DEF Pushed
<1>2. Agree(d, e)
  BY <1>1 DEF Agree
<1>3. Nested(e)
  <2>1. ASSUME NEW h \in 1 .. Len(e), At(e, h).op = "exit"  PROVE ExitOK(e, h)
    <3>1. h \in 1 .. Len(d) /\ h <= Len(e)
      BY <1>1, <2>1
    <3> QED BY <1>1, <1>2, <2>1, <3>1, ExitKept
  <2> QED BY <2>1 DEF Nested
<1>4. ASSUME NEW h \in 1 .. Len(d)  PROVE Hidden(e, h) <=> Hidden(d, h)
  <2>1. ASSUME Hidden(e, h)  PROVE Hidden(d, h)
    <3>1. PICK g \in (h + 1) .. Len(e) : At(e, g).op = "exit" /\ Len(At(e, g).k) < h
      BY <2>1 DEF Hidden
    <3>2. g \in (h + 1) .. Len(d) /\ g \in 1 .. Len(d)
      <4>1. g # Len(d) + 1
        BY <1>1, <3>1
      <4>2. g \in Int /\ h + 1 <= g /\ g <= Len(d) + 1 /\ h \in Nat \ {0} /\ Len(d) \in Nat
        BY <1>1
      <4> QED BY ONLY <4>1, <4>2
    <3> QED BY <1>1, <3>1, <3>2 DEF Hidden
  <2>2. ASSUME Hidden(d, h)  PROVE Hidden(e, h)
    <3>1. PICK g \in (h + 1) .. Len(d) : At(d, g).op = "exit" /\ Len(At(d, g).k) < h
      BY <2>2 DEF Hidden
    <3>2. g \in (h + 1) .. Len(e) /\ g \in 1 .. Len(d)
      BY <1>1
    <3> QED BY <1>1, <3>1, <3>2 DEF Hidden
  <2> QED BY <2>1, <2>2
<1>5. ~Hidden(e, Len(d) + 1)
  BY <1>1 DEF Hidden
<1>6. \A h : h \in 1 .. Len(e) <=> h \in 1 .. Len(d) \/ h = Len(d) + 1
  BY <1>1
<1>7. Caught(e) = Caught(d) \cup (IF f.op = "pop-handler" THEN {Len(d) + 1} ELSE {})
  BY <1>1, <1>4, <1>5, <1>6 DEF Caught
<1>8. Loads(e) = Loads(d) \cup (IF f.op = "T0LVL" THEN {Len(d) + 1} ELSE {})
  BY <1>1, <1>6 DEF Loads
<1> QED BY <1>3, <1>4, <1>5, <1>7, <1>8 DEF Plain, SameHiding

ExitPut(d, m, e) ==
  /\ Nested(e)
  /\ \A h \in 1 .. Len(d) : Hidden(e, h) <=> Hidden(d, h) \/ m < h
  /\ Caught(e) = Caught(d) \cap (1 .. m)
  /\ Loads(e) = Loads(d)

LEMMA PushExit ==
  ASSUME NEW F, NEW d \in Seq(F), NEW f \in F, NEW e, \A g \in F : g.k \in Seq(F),
         Pushed(d, f, e, F), f.op = "exit", Nested(d),
         IsBase(f.k, d), Len(f.k) + 1 \in Caught(d),
         \A g \in (Len(f.k) + 1) .. Len(d) : At(d, g).op # "T0LVL"
  PROVE  ExitPut(d, Len(f.k), e)
<1> DEFINE m == Len(f.k)
<1>1. /\ Len(d) \in Nat /\ Len(e) = Len(d) + 1 /\ e \in Seq(F)
      /\ At(e, Len(d) + 1) = f /\ \A h \in 1 .. Len(d) : At(e, h) = At(d, h)
  BY AtIn DEF Pushed
<1>2. Agree(d, e) /\ m \in Nat /\ m < Len(d)
  BY <1>1, AtIn DEF Agree, Caught
<1>3. \A h : h \in 1 .. Len(e) <=> h \in 1 .. Len(d) \/ h = Len(d) + 1
  BY <1>1
<1>4. ASSUME NEW g \in (m + 1) .. Len(d), At(d, g).op = "exit"  PROVE m <= Len(At(d, g).k)
  <2>1. At(d, m + 1).op = "pop-handler" /\ ~Hidden(d, m + 1)
    BY DEF Caught
  <2>2. g # m + 1
    BY <1>4, <2>1
  <2>3. g \in ((m + 1) + 1) .. Len(d) /\ g \in 1 .. Len(d)
    BY <1>1, <1>2, <2>2
  <2>4. ~ (Len(At(d, g).k) < m + 1)
    BY <1>4, <2>1, <2>3 DEF Hidden
  <2>5. Len(At(d, g).k) \in Nat
    BY <2>3, AtIn
  <2> QED BY <1>2, <2>4, <2>5
<1>5. Nested(e)
  <2>1. ASSUME NEW h \in 1 .. Len(e), At(e, h).op = "exit"  PROVE ExitOK(e, h)
    <3>1. CASE h \in 1 .. Len(d)
      <4>1. h <= Len(e)
        BY <1>1, <3>1
      <4> QED BY <1>1, <1>2, <2>1, <3>1, <4>1, ExitKept
    <3>2. CASE h = Len(d) + 1
      <4>1. IsBase(f.k, e)
        <5>1. f.k \in Seq(F) /\ Len(f.k) \in Nat /\ Len(f.k) <= Len(e)
          BY <1>1, <1>2
        <5> QED BY <1>1, <1>2, <5>1, BaseTrans
      <4>2. \A g \in (m + 1) .. (h - 1) : g \in (m + 1) .. Len(d) /\ At(e, g) = At(d, g)
        BY <1>1, <1>2, <3>2
      <4> QED BY <1>1, <1>2, <1>4, <3>2, <4>1, <4>2 DEF ExitOK
    <3> QED BY <1>3, <3>1, <3>2
  <2> QED BY <2>1 DEF Nested
<1>6. ASSUME NEW h \in 1 .. Len(d)  PROVE Hidden(e, h) <=> Hidden(d, h) \/ m < h
  <2>1. ASSUME Hidden(e, h)  PROVE Hidden(d, h) \/ m < h
    <3>1. PICK g \in (h + 1) .. Len(e) : At(e, g).op = "exit" /\ Len(At(e, g).k) < h
      BY <2>1 DEF Hidden
    <3>2. CASE g = Len(d) + 1
      BY <1>1, <3>1, <3>2
    <3>3. CASE g # Len(d) + 1
      <4>1. g \in (h + 1) .. Len(d) /\ g \in 1 .. Len(d)
        <5>1. g \in Int /\ h + 1 <= g /\ g <= Len(d) + 1 /\ h \in Nat \ {0} /\ Len(d) \in Nat
          BY <1>1
        <5> QED BY ONLY <3>3, <5>1
      <4> QED BY <1>1, <3>1, <4>1 DEF Hidden
    <3> QED BY <3>2, <3>3
  <2>2. ASSUME Hidden(d, h)  PROVE Hidden(e, h)
    <3>1. PICK g \in (h + 1) .. Len(d) : At(d, g).op = "exit" /\ Len(At(d, g).k) < h
      BY <2>2 DEF Hidden
    <3>2. g \in (h + 1) .. Len(e) /\ g \in 1 .. Len(d)
      BY <1>1
    <3> QED BY <1>1, <3>1, <3>2 DEF Hidden
  <2>3. ASSUME m < h  PROVE Hidden(e, h)
    <3>1. Len(d) + 1 \in (h + 1) .. Len(e)
      BY <1>1
    <3> QED BY <1>1, <2>3, <3>1 DEF Hidden
  <2> QED BY <2>1, <2>2, <2>3
<1>7. Caught(e) = Caught(d) \cap (1 .. m)
  <2>1. \A h \in 1 .. Len(d) : ~ (m < h) <=> h \in 1 .. m
    BY <1>1, <1>2
  <2>2. \A h \in 1 .. m : h \in 1 .. Len(d)
    BY <1>1, <1>2
  <2>3. f.op # "pop-handler"
    OBVIOUS
  <2> HIDE DEF m
  <2> QED BY <1>1, <1>3, <1>6, <2>1, <2>2, <2>3 DEF Caught
<1>8. Loads(e) = Loads(d)
  BY <1>1, <1>3 DEF Loads
<1> QED BY <1>5, <1>6, <1>7, <1>8 DEF ExitPut

CutBack(d, e) ==
  /\ Nested(e)
  /\ SameHiding(d, e, Len(e))
  /\ Caught(e) = Caught(d) \cap (1 .. Len(e))
  /\ Loads(e) = Loads(d) \cap (1 .. Len(e))

(* Frames are taken off of which none is an exit, or all that lies above   *)
(* what the exit on top leads to.                                          *)
LEMMA Cut ==
  ASSUME NEW F, NEW d \in Seq(F), NEW e \in Seq(F), \A g \in F : g.k \in Seq(F),
         Nested(d), IsBase(e, d),
         \A g \in (Len(e) + 1) .. Len(d) :
           At(d, g).op = "exit" => Len(e) <= Len(At(d, g).k)
  PROVE  CutBack(d, e)
<1>1. /\ Len(d) \in Nat /\ Len(e) \in Nat /\ Len(e) <= Len(d)
      /\ \A h \in 1 .. Len(e) : At(e, h) = At(d, h) /\ h \in 1 .. Len(d)
  BY AtIn DEF IsBase
<1>2. Agree(d, e)
  BY <1>1, AgreeFacts
<1>3. Nested(e)
  <2>1. ASSUME NEW h \in 1 .. Len(e), At(e, h).op = "exit"  PROVE ExitOK(e, h)
    BY <1>1, <1>2, <2>1, ExitKept
  <2> QED BY <2>1 DEF Nested
<1>4. ASSUME NEW h \in 1 .. Len(e)  PROVE Hidden(e, h) <=> Hidden(d, h)
  <2>1. ASSUME Hidden(e, h)  PROVE Hidden(d, h)
    <3>1. PICK g \in (h + 1) .. Len(e) : At(e, g).op = "exit" /\ Len(At(e, g).k) < h
      BY <2>1 DEF Hidden
    <3>2. g \in (h + 1) .. Len(d) /\ g \in 1 .. Len(e)
      BY <1>1
    <3> QED BY <1>1, <3>1, <3>2 DEF Hidden
  <2>2. ASSUME Hidden(d, h)  PROVE Hidden(e, h)
    <3>1. PICK g \in (h + 1) .. Len(d) : At(d, g).op = "exit" /\ Len(At(d, g).k) < h
      BY <2>2 DEF Hidden
    <3>2. g \in 1 .. Len(d)
      BY <1>1
    <3>3. Len(At(d, g).k) \in Nat
      BY <3>2, AtIn
    <3>4. g <= Len(e)
      <4>1. ~ (Len(e) <= Len(At(d, g).k))
        BY <1>1, <3>1, <3>3
      <4>2. g \notin (Len(e) + 1) .. Len(d)
        BY <3>1, <4>1
      <4> QED BY <1>1, <3>2, <4>2
    <3>5. g \in (h + 1) .. Len(e) /\ g \in 1 .. Len(e)
      BY <1>1, <3>4
    <3> QED BY <1>1, <3>1, <3>5 DEF Hidden
  <2> QED BY <2>1, <2>2
<1>5. Caught(e) = Caught(d) \cap (1 .. Len(e))
  BY <1>1, <1>4 DEF Caught
<1>6. Loads(e) = Loads(d) \cap (1 .. Len(e))
  BY <1>1 DEF Loads
<1> QED BY <1>3, <1>4, <1>5, <1>6 DEF CutBack, SameHiding

Exited(d, e) ==
  /\ IsBase(e, d) /\ Len(e) < Len(d)
  /\ CutBack(d, e)
  /\ Caught(e) = Caught(d) /\ Loads(e) = Loads(d)

LEMMA CutExit ==
  ASSUME NEW F, NEW d \in Seq(F), d # << >>, \A g \in F : g.k \in Seq(F),
         Nested(d), At(d, Len(d)).op = "exit", NEW e, e = At(d, Len(d)).k
  PROVE  Exited(d, e)
<1>1. Len(d) \in Nat \ {0} /\ Len(d) \in 1 .. Len(d) /\ e \in Seq(F) /\ Len(e) \in Nat
  <2>1. Len(d) \in Nat \ {0}
    BY TailAt
  <2>2. Len(d) \in 1 .. Len(d)
    BY <2>1
  <2>3. e \in Seq(F)
    BY <2>2, AtIn
  <2> QED BY <2>1, <2>2, <2>3, AtIn
<1>2. /\ Len(e) < Len(d) /\ IsBase(e, d)
      /\ \A g \in (Len(e) + 1) .. (Len(d) - 1) :
           At(d, g).op # "T0LVL" /\ (At(d, g).op = "exit" => Len(e) <= Len(At(d, g).k))
  BY <1>1 DEF Nested, ExitOK
<1>3. \A g \in (Len(e) + 1) .. Len(d) : g = Len(d) \/ g \in (Len(e) + 1) .. (Len(d) - 1)
  BY <1>1
<1>4. CutBack(d, e)
  <2>1. \A g \in (Len(e) + 1) .. Len(d) : At(d, g).op = "exit" => Len(e) <= Len(At(d, g).k)
    BY <1>1, <1>2, <1>3
  <2> QED BY <1>1, <1>2, <2>1, Cut
<1>5. \A h \in Caught(d) : h \in 1 .. Len(e)
  <2> SUFFICES ASSUME NEW h \in Caught(d), h \notin 1 .. Len(e)  PROVE FALSE
    OBVIOUS
  <2>1. h \in 1 .. Len(d) /\ At(d, h).op = "pop-handler" /\ ~Hidden(d, h)
    BY DEF Caught
  <2>2. h # Len(d)
    BY <2>1
  <2>3. Len(d) \in (h + 1) .. Len(d) /\ Len(e) < h
    BY <1>1, <2>1, <2>2
  <2> QED BY <2>1, <2>3 DEF Hidden
<1>6. \A h \in Loads(d) : h \in 1 .. Len(e)
  <2> SUFFICES ASSUME NEW h \in Loads(d), h \notin 1 .. Len(e)  PROVE FALSE
    OBVIOUS
  <2>1. h \in 1 .. Len(d) /\ At(d, h).op = "T0LVL"
    BY DEF Loads
  <2>2. h # Len(d)
    BY <2>1
  <2>3. h \in (Len(e) + 1) .. (Len(d) - 1)
    BY <1>1, <2>1, <2>2
  <2> QED BY <1>2, <2>1, <2>3
<1> QED BY <1>2, <1>4, <1>5, <1>6 DEF Exited, CutBack

---------------------------------------------------------------------------
(* Handlers.                                                               *)

LEMMA HandledHead ==
  ASSUME NEW F, NEW d \in Seq(F), NEW hs \in Seq(Seq(F)), Handled(hs, d)
  PROVE  /\ hs = << >> <=> Caught(d) = {}
         /\ hs # << >> => /\ Head(hs) \in Seq(F) /\ IsBase(Head(hs), d)
                          /\ Len(Head(hs)) \in Nat
                          /\ Len(Head(hs)) + 1 \in Caught(d)
                          /\ \A h \in Caught(d) : h <= Len(Head(hs)) + 1
<1>1. Len(hs) \in Nat /\ \A x \in 1 .. Len(hs) : hs[x] \in Seq(F) /\ Len(hs[x]) \in Nat
  OBVIOUS
<1>2. hs = << >> <=> Len(hs) = 0
  BY Pieces
<1>3. hs = << >> <=> Caught(d) = {}
  <2>1. Len(hs) # 0 => 1 \in 1 .. Len(hs)
    BY <1>1
  <2> QED BY <1>1, <1>2, <2>1 DEF Handled
<1>4. ASSUME hs # << >>
      PROVE  /\ Head(hs) \in Seq(F) /\ IsBase(Head(hs), d)
             /\ Len(Head(hs)) \in Nat
             /\ Len(Head(hs)) + 1 \in Caught(d)
             /\ \A h \in Caught(d) : h <= Len(Head(hs)) + 1
  <2>1. Head(hs) = hs[1] /\ 1 \in 1 .. Len(hs)
    BY <1>1, <1>2, <1>4
  <2>2. ASSUME NEW h \in Caught(d)  PROVE h <= Len(hs[1]) + 1
    <3>1. PICK x \in 1 .. Len(hs) : Len(hs[x]) + 1 = h
      BY DEF Handled
    <3>2. x = 1 \/ 1 < x
      BY <1>1
    <3>3. Len(hs[x]) <= Len(hs[1])
      BY <1>1, <2>1, <3>2 DEF Handled
    <3> QED BY <1>1, <2>1, <3>1, <3>3
  <2> QED BY <1>1, <2>1, <2>2 DEF Handled
<1> QED BY <1>3, <1>4

LEMMA HandledOn ==
  ASSUME NEW F, NEW d \in Seq(F), NEW e \in Seq(F), NEW hs \in Seq(Seq(F)),
         Handled(hs, d), Agree(d, e), Caught(e) = Caught(d)
  PROVE  Handled(hs, e)
<1>1. Len(hs) \in Nat /\ \A x \in 1 .. Len(hs) : hs[x] \in Seq(F) /\ Len(hs[x]) \in Nat
  OBVIOUS
<1>2. Len(d) \in Nat /\ Len(e) \in Nat
  BY AtIn
<1>3. ASSUME NEW x \in 1 .. Len(hs)
      PROVE  IsBase(hs[x], e) /\ Len(hs[x]) + 1 \in Caught(e)
  <2>1. IsBase(hs[x], d) /\ Len(hs[x]) + 1 \in Caught(d)
    BY DEF Handled
  <2>2. Len(hs[x]) <= Len(e)
    <3>1. Len(hs[x]) + 1 \in Caught(e)
      BY <2>1
    <3>2. Len(hs[x]) + 1 \in 1 .. Len(e)
      BY <3>1 DEF Caught
    <3> QED BY <1>1, <1>2, <3>2
  <2> QED BY <1>1, <1>2, <2>1, <2>2, BaseTrans
<1> QED BY <1>3 DEF Handled

LEMMA HandledPush ==
  ASSUME NEW F, NEW d \in Seq(F), NEW e \in Seq(F), NEW hs \in Seq(Seq(F)),
         Handled(hs, d), Agree(d, e), Len(e) = Len(d) + 1,
         Caught(e) = Caught(d) \cup {Len(d) + 1}
  PROVE  Handled(<<d>> \o hs, e)
<1> DEFINE gs == <<d>> \o hs
<1>1. Len(hs) \in Nat /\ \A x \in 1 .. Len(hs) : hs[x] \in Seq(F) /\ Len(hs[x]) \in Nat
  OBVIOUS
<1>2. Len(d) \in Nat /\ Len(e) \in Nat
  BY AtIn
<1>3. /\ Len(gs) = Len(hs) + 1 /\ gs[1] = d
      /\ \A x \in 1 .. Len(hs) : gs[x + 1] = hs[x]
  OBVIOUS
<1> HIDE DEF gs
<1>4. \A x \in 1 .. Len(gs) : x = 1 \/ (x - 1 \in 1 .. Len(hs) /\ gs[x] = hs[x - 1])
  <2> SUFFICES ASSUME NEW x \in 1 .. Len(gs), x # 1
               PROVE  x - 1 \in 1 .. Len(hs) /\ gs[x] = hs[x - 1]
    OBVIOUS
  <2>1. x - 1 \in 1 .. Len(hs) /\ (x - 1) + 1 = x
    BY <1>1, <1>3
  <2>2. gs[(x - 1) + 1] = hs[x - 1]
    BY <1>3, <2>1
  <2> QED BY <2>1, <2>2
<1>5. \A x \in 1 .. Len(hs) : IsBase(hs[x], d) /\ Len(hs[x]) < Len(d) /\ Len(hs[x]) + 1 \in Caught(d)
  BY <1>1, <1>2 DEF Handled, Caught
<1>6. ASSUME NEW x \in 1 .. Len(gs)  PROVE IsBase(gs[x], e) /\ Len(gs[x]) + 1 \in Caught(e)
  <2>1. CASE x = 1
    <3>1. IsBase(d, e)
      BY <1>2 DEF IsBase, Agree
    <3> QED BY <1>3, <2>1, <3>1
  <2>2. CASE x # 1
    <3>1. x - 1 \in 1 .. Len(hs) /\ gs[x] = hs[x - 1]
      BY <1>4, <2>2
    <3>2. Len(hs[x - 1]) <= Len(e)
      BY <1>1, <1>2, <1>5, <3>1
    <3>3. IsBase(hs[x - 1], e)
      BY <1>1, <1>2, <1>5, <3>1, <3>2, BaseTrans
    <3> QED BY <1>5, <3>1, <3>3
  <2> QED BY <2>1, <2>2
<1>7. ASSUME NEW h \in Caught(e)  PROVE \E x \in 1 .. Len(gs) : Len(gs[x]) + 1 = h
  <2>1. CASE h = Len(d) + 1
    <3>1. 1 \in 1 .. Len(gs)
      BY <1>1, <1>3
    <3> QED BY <1>3, <2>1, <3>1
  <2>2. CASE h # Len(d) + 1
    <3>1. PICK x \in 1 .. Len(hs) : Len(hs[x]) + 1 = h
      BY <2>2 DEF Handled
    <3>2. x + 1 \in 1 .. Len(gs)
      BY <1>1, <1>3
    <3> QED BY <1>3, <3>1, <3>2
  <2> QED BY <2>1, <2>2
<1>8. ASSUME NEW x \in 1 .. Len(gs), NEW y \in 1 .. Len(gs), x < y
      PROVE  Len(gs[x]) > Len(gs[y])
  <2>1. y - 1 \in 1 .. Len(hs) /\ gs[y] = hs[y - 1]
    <3>1. y # 1
      BY <1>8
    <3> QED BY <1>4, <3>1
  <2>2. CASE x = 1
    <3>1. Len(hs[y - 1]) < Len(d) /\ Len(hs[y - 1]) \in Nat
      BY <1>1, <1>5, <2>1
    <3> QED BY <1>2, <1>3, <2>1, <2>2, <3>1
  <2>3. CASE x # 1
    <3>1. x - 1 \in 1 .. Len(hs) /\ gs[x] = hs[x - 1]
      BY <1>4, <2>3
    <3>2. x - 1 < y - 1
      BY <1>1, <1>8, <2>1, <3>1
    <3> QED BY <2>1, <3>1, <3>2 DEF Handled
  <2> QED BY <2>2, <2>3
<1>9. Handled(gs, e)
  BY <1>6, <1>7, <1>8 DEF Handled
<1> QED BY <1>9 DEF gs

LEMMA HandledPop ==
  ASSUME NEW F, NEW d \in Seq(F), NEW e \in Seq(F), NEW hs \in Seq(Seq(F)),
         Handled(hs, d), hs # << >>, Agree(d, e),
         Caught(e) = Caught(d) \ {Len(Head(hs)) + 1}
  PROVE  Handled(Tail(hs), e)
<1> DEFINE gs == Tail(hs)
<1>1. Len(hs) \in Nat \ {0} /\ \A x \in 1 .. Len(hs) : hs[x] \in Seq(F) /\ Len(hs[x]) \in Nat
  OBVIOUS
<1>2. Len(d) \in Nat /\ Len(e) \in Nat
  BY AtIn
<1>3. /\ Len(gs) = Len(hs) - 1 /\ Head(hs) = hs[1]
      /\ \A x \in 1 .. Len(gs) : x + 1 \in 1 .. Len(hs) /\ gs[x] = hs[x + 1]
  BY <1>1
<1> HIDE DEF gs
<1>4. 1 \in 1 .. Len(hs) /\ \A x \in 1 .. Len(gs) : Len(gs[x]) < Len(hs[1])
  <2>1. \A x \in 1 .. Len(gs) : x + 1 \in 1 .. Len(hs) /\ 1 < x + 1
    BY <1>3
  <2>2. 1 \in 1 .. Len(hs)
    BY <1>1
  <2>3. \A x \in 1 .. Len(gs) : Len(hs[1]) > Len(hs[x + 1])
    BY <2>1, <2>2 DEF Handled
  <2> QED BY <1>1, <1>3, <2>1, <2>2, <2>3
<1>5. ASSUME NEW x \in 1 .. Len(gs)  PROVE IsBase(gs[x], e) /\ Len(gs[x]) + 1 \in Caught(e)
  <2>1. IsBase(gs[x], d) /\ Len(gs[x]) + 1 \in Caught(d) /\ Len(gs[x]) \in Nat
    BY <1>1, <1>3 DEF Handled
  <2>2. Len(gs[x]) + 1 # Len(hs[1]) + 1
    BY <1>1, <1>4, <2>1
  <2>3. Len(gs[x]) + 1 \in Caught(e)
    BY <1>3, <2>1, <2>2
  <2>4. Len(gs[x]) <= Len(e)
    BY <1>2, <2>1, <2>3 DEF Caught
  <2> QED BY <1>2, <2>1, <2>3, <2>4, BaseTrans
<1>6. ASSUME NEW h \in Caught(e)  PROVE \E x \in 1 .. Len(gs) : Len(gs[x]) + 1 = h
  <2>1. PICK y \in 1 .. Len(hs) : Len(hs[y]) + 1 = h
    BY DEF Handled
  <2>2. y # 1
    BY <1>3, <2>1
  <2>3. y - 1 \in 1 .. Len(gs) /\ (y - 1) + 1 = y
    BY <1>1, <1>3, <2>2
  <2>4. gs[y - 1] = hs[(y - 1) + 1]
    BY <1>3, <2>3
  <2> QED BY <2>1, <2>3, <2>4
<1>7. ASSUME NEW x \in 1 .. Len(gs), NEW y \in 1 .. Len(gs), x < y
      PROVE  Len(gs[x]) > Len(gs[y])
  <2>1. x + 1 < y + 1
    BY <1>1, <1>3, <1>7
  <2> QED BY <1>3, <2>1 DEF Handled
<1> QED BY <1>5, <1>6, <1>7 DEF Handled, gs

---------------------------------------------------------------------------
(* The top levels that wait.                                               *)

LEMMA LoadsFinite ==
  ASSUME NEW F, NEW d \in Seq(F)
  PROVE  IsFiniteSet(Loads(d)) /\ Cardinality(Loads(d)) \in Nat
<1>1. IsFiniteSet(1 .. Len(d))
  <2>1. 1 \in Int /\ Len(d) \in Int
    BY AtIn
  <2> QED BY <2>1, FS_Interval
<1>2. IsFiniteSet(Loads(d))
  BY <1>1, FS_Subset DEF Loads
<1> QED BY <1>2, FS_CardinalityType

LEMMA CountIs ==
  ASSUME NEW F, NEW d \in Seq(F)
  PROVE  Count(d, "T0LVL") = Cardinality(Loads(d))
<1> DEFINE N == Len(d)
           S == {x \in DOMAIN d : d[x].op = "T0LVL"}
           f == [h \in Loads(d) |-> N - h + 1]
<1>1. N \in Nat /\ DOMAIN d = 1 .. N
  OBVIOUS
<1>2. \A h \in Loads(d) : N - h + 1 \in S /\ h \in 1 .. N
  BY <1>1 DEF Loads, At
<1>3. f \in Injection(Loads(d), S)
  <2>1. f \in [Loads(d) -> S]
    BY <1>2
  <2>2. ASSUME NEW g \in Loads(d), NEW h \in Loads(d), f[g] = f[h]  PROVE g = h
    BY <1>1, <1>2, <2>2
  <2> QED BY <2>1, <2>2 DEF Injection, IsInjective
<1>4. f \in Surjection(Loads(d), S)
  <2>1. f \in [Loads(d) -> S]
    BY <1>2
  <2>2. ASSUME NEW x \in S  PROVE \E h \in Loads(d) : f[h] = x
    <3>1. N - x + 1 \in 1 .. N /\ N - (N - x + 1) + 1 = x
      BY <1>1
    <3>2. N - x + 1 \in Loads(d)
      BY <3>1 DEF Loads, At
    <3> QED BY <3>1, <3>2
  <2> QED BY <2>1, <2>2 DEF Surjection
<1>5. ExistsBijection(Loads(d), S)
  <2> HIDE DEF f, S
  <2> QED BY <1>3, <1>4 DEF Bijection, ExistsBijection
<1>6. Cardinality(S) = Cardinality(Loads(d))
  <2> HIDE DEF S
  <2> QED BY <1>5, LoadsFinite, FS_Bijection
<1> QED BY <1>6 DEF Count

(* Where as many top levels wait below as in all, none waits above.        *)
LEMMA SameCount ==
  ASSUME NEW F, NEW d \in Seq(F), NEW e \in Seq(F), IsBase(e, d),
         Count(e, "T0LVL") = Count(d, "T0LVL")
  PROVE  \A g \in (Len(e) + 1) .. Len(d) : At(d, g).op # "T0LVL"
<1>1. /\ Len(d) \in Nat /\ Len(e) \in Nat /\ Len(e) <= Len(d)
      /\ \A h \in 1 .. Len(e) : At(e, h) = At(d, h) /\ h \in 1 .. Len(d)
  BY AtIn DEF IsBase
<1>2. Loads(e) \subseteq Loads(d)
  BY <1>1 DEF Loads
<1>3. Cardinality(Loads(e)) = Cardinality(Loads(d))
  BY CountIs
<1>4. Loads(e) = Loads(d)
  BY <1>2, <1>3, LoadsFinite, FS_Subset
<1>5. ASSUME NEW g \in (Len(e) + 1) .. Len(d), At(d, g).op = "T0LVL"  PROVE FALSE
  <2>1. g \in 1 .. Len(d) /\ g \notin 1 .. Len(e)
    BY <1>1
  <2> QED BY <1>4, <1>5, <2>1 DEF Loads
<1> QED BY <1>5

LEMMA LoadsPush ==
  ASSUME NEW F, NEW d \in Seq(F), NEW f, NEW e, Plain(d, f, e)
  PROVE  Cardinality(Loads(e)) = Cardinality(Loads(d)) + (IF f.op = "T0LVL" THEN 1 ELSE 0)
<1>1. IsFiniteSet(Loads(d)) /\ Cardinality(Loads(d)) \in Nat /\ Len(d) \in Nat
  BY LoadsFinite, AtIn
<1>2. Len(d) + 1 \notin Loads(d)
  BY <1>1 DEF Loads
<1>3. CASE f.op = "T0LVL"
  <2>1. Loads(e) = Loads(d) \cup {Len(d) + 1}
    BY <1>3 DEF Plain
  <2> QED BY <1>1, <1>2, <1>3, <2>1, FS_AddElement
<1>4. CASE f.op # "T0LVL"
  <2>1. Loads(e) = Loads(d)
    BY <1>4 DEF Plain
  <2> QED BY <1>1, <1>4, <2>1
<1> QED BY <1>3, <1>4

(* A frame comes off the top that is not an exit.                          *)
Popped(d, f, e) ==
  /\ Len(e) = Len(d) - 1 /\ IsBase(e, d)
  /\ CutBack(d, e)
  /\ Caught(e) = Caught(d) \ {Len(d)}
  /\ f.op = "pop-handler" => Len(d) \in Caught(d)
  /\ f.op # "pop-handler" => Caught(e) = Caught(d)
  /\ ~Hidden(d, Len(d))
  /\ Cardinality(Loads(d)) = Cardinality(Loads(e)) + (IF f.op = "T0LVL" THEN 1 ELSE 0)

LEMMA PopPlain ==
  ASSUME NEW F, NEW d \in Seq(F), d # << >>, \A g \in F : g.k \in Seq(F), Nested(d),
         Head(d).op # "exit"
  PROVE  Popped(d, Head(d), Tail(d))
<1> DEFINE e == Tail(d)
           f == Head(d)
<1>1. /\ Len(d) \in Nat \ {0}
      /\ e \in Seq(F) /\ Len(e) = Len(d) - 1 /\ IsBase(e, d)
      /\ f = At(d, Len(d)) /\ f \in F
  BY TailAt
<1> HIDE DEF e, f
<1>2. \A g : g \in 1 .. Len(d) <=> g \in 1 .. Len(e) \/ g = Len(d)
  BY <1>1
<1>3. CutBack(d, e)
  <2>1. \A g \in (Len(e) + 1) .. Len(d) : g = Len(d)
    BY <1>1
  <2>2. \A g \in (Len(e) + 1) .. Len(d) : At(d, g).op = "exit" => Len(e) <= Len(At(d, g).k)
    BY <1>1, <2>1 DEF f
  <2> QED BY <1>1, <2>2, Cut
<1>4. ~Hidden(d, Len(d))
  BY <1>1 DEF Hidden
<1>5. Len(d) \notin 1 .. Len(e)
  BY <1>1
<1>6. Caught(e) = Caught(d) \ {Len(d)}
  <2>1. Caught(d) \subseteq 1 .. Len(d)
    BY DEF Caught
  <2> QED BY <1>2, <1>3, <1>5, <2>1 DEF CutBack
<1>7. f.op = "pop-handler" <=> Len(d) \in Caught(d)
  BY <1>1, <1>4 DEF Caught
<1>8. Cardinality(Loads(d)) = Cardinality(Loads(e)) + (IF f.op = "T0LVL" THEN 1 ELSE 0)
  <2>1. f.op = "T0LVL" <=> Len(d) \in Loads(d)
    BY <1>1 DEF Loads
  <2>2. Loads(d) = Loads(e) \cup (IF f.op = "T0LVL" THEN {Len(d)} ELSE {})
    <3>1. Loads(d) \subseteq 1 .. Len(d)
      BY DEF Loads
    <3>2. Loads(e) = Loads(d) \cap (1 .. Len(e))
      BY <1>3 DEF CutBack
    <3> QED BY <1>2, <2>1, <3>1, <3>2
  <2>3. IsFiniteSet(Loads(e)) /\ Cardinality(Loads(e)) \in Nat /\ Len(d) \notin Loads(e)
    <3>1. IsFiniteSet(Loads(e)) /\ Cardinality(Loads(e)) \in Nat
      BY <1>1, LoadsFinite
    <3> QED BY <1>5, <3>1 DEF Loads
  <2>4. CASE f.op = "T0LVL"
    BY <2>2, <2>3, <2>4, FS_AddElement
  <2>5. CASE f.op # "T0LVL"
    BY <2>2, <2>3, <2>5
  <2> QED BY <2>4, <2>5
<1> QED BY <1>1, <1>3, <1>4, <1>6, <1>7, <1>8 DEF Popped, e, f

---------------------------------------------------------------------------
(* What HandlersMatch says is that the handlers are those of the catches.  *)

LEMMA Matching ==
  ASSUME NEW F, NEW d \in Seq(F), NEW hs \in Seq(Seq(F)), \A g \in F : g.k \in Seq(F),
         Handled(hs, d)
  PROVE  /\ {hs[x] : x \in DOMAIN hs} = Catches(d)
         /\ \A x, y \in DOMAIN hs : x < y => Len(hs[x]) > Len(hs[y])
<1>1. /\ Len(hs) \in Nat /\ DOMAIN hs = 1 .. Len(hs)
      /\ \A x \in 1 .. Len(hs) : hs[x] \in Seq(F) /\ Len(hs[x]) \in Nat
      /\ Len(d) \in Nat /\ DOMAIN d = 1 .. Len(d)
  OBVIOUS
<1>2. ASSUME NEW x \in 1 .. Len(d), NEW h, h = Len(d) - x + 1
      PROVE  h \in 1 .. Len(d) /\ d[x] = At(d, h) /\ (x \in Ahead(d) <=> ~Hidden(d, h))
  <2>1. h \in 1 .. Len(d) /\ d[x] = At(d, h)
    BY <1>1, <1>2, AtIn
  <2>2. ASSUME x \notin Ahead(d)  PROVE Hidden(d, h)
    <3>1. PICK y \in 1 .. (x - 1) : d[y].op = "exit" /\ ~ (Len(d) - x < Len(d[y].k))
      BY <1>1, <2>2 DEF Ahead
    <3>2. y \in 1 .. Len(d) /\ Len(d) - y + 1 \in (h + 1) .. Len(d)
      BY <1>1, <1>2
    <3>3. d[y] = At(d, Len(d) - y + 1) /\ d[y] \in F
      BY <3>2, AtIn
    <3>4. Len(d[y].k) \in Nat
      BY <3>3, AtIn
    <3>5. Len(d[y].k) < h
      BY <1>1, <1>2, <3>1, <3>4
    <3> QED BY <3>1, <3>2, <3>3, <3>5 DEF Hidden
  <2>3. ASSUME Hidden(d, h)  PROVE x \notin Ahead(d)
    <3>1. PICK g \in (h + 1) .. Len(d) : At(d, g).op = "exit" /\ Len(At(d, g).k) < h
      BY <2>3 DEF Hidden
    <3>2. /\ g \in 1 .. Len(d) /\ Len(d) - g + 1 \in 1 .. (x - 1)
          /\ Len(d) - g + 1 \in 1 .. Len(d) /\ Len(d) - (Len(d) - g + 1) + 1 = g
      BY <1>1, <1>2
    <3>3. d[Len(d) - g + 1] = At(d, g) /\ At(d, g) \in F
      BY <3>2, AtIn
    <3>4. Len(At(d, g).k) \in Nat
      BY <3>3, AtIn
    <3>5. ~ (Len(d) - x < Len(At(d, g).k))
      BY <1>1, <1>2, <3>1, <3>4
    <3> QED BY <3>1, <3>2, <3>3, <3>5 DEF Ahead
  <2> QED BY <2>1, <2>2, <2>3
<1>3. ASSUME NEW j \in 1 .. Len(hs)  PROVE hs[j] \in Catches(d)
  <2>1. IsBase(hs[j], d) /\ Len(hs[j]) + 1 \in Caught(d)
    BY DEF Handled
  <2> DEFINE x == Len(d) - Len(hs[j])
  <2>2. x \in 1 .. Len(d) /\ Len(hs[j]) + 1 = Len(d) - x + 1
    BY <1>1, <2>1 DEF Caught
  <2>3. x \in Ahead(d) /\ d[x].op = "pop-handler"
    <3>1. At(d, Len(hs[j]) + 1).op = "pop-handler" /\ ~Hidden(d, Len(hs[j]) + 1)
      BY <2>1 DEF Caught
    <3> HIDE DEF x
    <3> QED BY <1>2, <2>2, <3>1
  <2>4. hs[j] = SubSeq(d, x + 1, Len(d))
    BY <1>1, <2>1, BaseIs
  <2> HIDE DEF x
  <2> QED BY <2>3, <2>4 DEF Catches
<1>4. ASSUME NEW x \in Ahead(d), d[x].op = "pop-handler"
      PROVE  \E j \in 1 .. Len(hs) : hs[j] = SubSeq(d, x + 1, Len(d))
  <2>1. x \in 1 .. Len(d)
    BY <1>1 DEF Ahead
  <2>2. Len(d) - x + 1 \in Caught(d)
    BY <1>2, <1>4, <2>1 DEF Caught
  <2>3. PICK j \in 1 .. Len(hs) : Len(hs[j]) + 1 = Len(d) - x + 1
    BY <2>2 DEF Handled
  <2>4. IsBase(hs[j], d) /\ Len(d) - Len(hs[j]) = x
    <3>1. IsBase(hs[j], d)
      BY DEF Handled
    <3>2. Len(hs[j]) \in Nat
      BY <1>1
    <3>3. Len(d) - Len(hs[j]) = x
      <4>1. x \in Int /\ Len(d) \in Int
        BY <1>1, <2>1
      <4> QED BY ONLY <2>3, <3>2, <4>1
    <3> QED BY <3>1, <3>3
  <2>5. hs[j] = SubSeq(d, (Len(d) - Len(hs[j])) + 1, Len(d))
    BY <1>1, <2>4, BaseIs
  <2> QED BY <2>4, <2>5
<1>5. {hs[x] : x \in DOMAIN hs} = Catches(d)
  BY <1>1, <1>3, <1>4 DEF Catches
<1> QED BY <1>1, <1>5 DEF Handled

---------------------------------------------------------------------------
(* The steps.                                                              *)

(* Nothing on the dump is about a read.                                    *)
Calm(d) ==
  \A h \in 1 .. Len(d) :
    /\ At(d, h).op # "T1LVL"
    /\ At(d, h).op = "set-inport" => Hidden(d, h)

LEMMA CalmPorts ==
  /\ PortsKept /\ op \in {"EVAL", "T0LVL"} => Calm(dump) /\ chosen \in {inport, "any"}
  /\ \A F : /\ dump \in Seq(F) /\ Calm(dump) /\ chosen \in {inport, "any"} => PortsKept
            /\ dump' \in Seq(F) /\ Calm(dump') /\ chosen' \in {inport', "any"} => PortsKept'
<1>1. ASSUME PortsKept, op \in {"EVAL", "T0LVL"}  PROVE Calm(dump) /\ chosen \in {inport, "any"}
  <2>1. \A h \in 1 .. Len(dump) : At(dump, h).op # "T1LVL"
    BY <1>1 DEF PortsKept, ReadOnTop
  <2>2. ~OnTop(dump, "T1LVL")
    BY <1>1 DEF PortsKept, ReadOnTop, OnTop
  <2> QED BY <1>1, <2>1, <2>2 DEF PortsKept, SetInportHidden, Calm
<1>2. \A F, d : d \in Seq(F) /\ Calm(d) => ~OnTop(d, "T1LVL")
  BY AtIn DEF Calm, OnTop
<1>3. ASSUME NEW F, dump \in Seq(F), Calm(dump), chosen \in {inport, "any"}  PROVE PortsKept
  BY <1>2, <1>3 DEF PortsKept, SetInportHidden, ReadOnTop, Calm
<1>4. ASSUME NEW F, dump' \in Seq(F), Calm(dump'), chosen' \in {inport', "any"}
      PROVE  PortsKept'
  <2>1. ~OnTop(dump', "T1LVL")
    BY <1>2, <1>4
  <2>2. PortsKept' <=> /\ SetInportHidden(dump', op')
                       /\ ReadOnTop(dump', op')
                       /\ ~OnTop(dump', "T1LVL") => chosen' \in {inport', "any"}
                       /\ OnTop(dump', "T1LVL") /\ op' = "return" =>
                            chosen' \in {save_inport', "any"}
    BY DEF PortsKept
  <2>3. SetInportHidden(dump', op') /\ ReadOnTop(dump', op')
    BY <1>4 DEF SetInportHidden, ReadOnTop, Calm
  <2> QED BY <1>4, <2>1, <2>2, <2>3
<1> QED BY <1>1, <1>3, <1>4

LEMMA CalmPush ==
  ASSUME NEW F, NEW d \in Seq(F), NEW f, NEW e, Pushed(d, f, e, F), Plain(d, f, e),
         Calm(d), f.op \notin {"T1LVL", "set-inport"}
  PROVE  Calm(e)
<1>1. /\ Len(d) \in Nat /\ Len(e) = Len(d) + 1
      /\ At(e, Len(d) + 1) = f /\ \A h \in 1 .. Len(d) : At(e, h) = At(d, h)
  BY AtIn DEF Pushed
<1>2. \A h : h \in 1 .. Len(e) <=> h \in 1 .. Len(d) \/ h = Len(d) + 1
  BY <1>1
<1> QED BY <1>1, <1>2 DEF Calm, Plain, SameHiding

LEMMA CalmCut ==
  ASSUME NEW F, NEW d \in Seq(F), NEW e \in Seq(F), IsBase(e, d), CutBack(d, e),
         \/ Calm(d)
         \/ Len(e) < Len(d) /\ SetInportHidden(d, "return") /\ ReadOnTop(d, "return")
  PROVE  Calm(e)
<1>1. /\ Len(d) \in Nat /\ Len(e) \in Nat
      /\ \A h \in 1 .. Len(e) : At(e, h) = At(d, h) /\ h \in 1 .. Len(d)
  BY AtIn DEF IsBase
<1>2. \A h \in 1 .. Len(e) : Hidden(e, h) <=> Hidden(d, h)
  BY DEF CutBack, SameHiding
<1>3. CASE Calm(d)
  BY <1>1, <1>2, <1>3 DEF Calm
<1>4. CASE Len(e) < Len(d) /\ SetInportHidden(d, "return") /\ ReadOnTop(d, "return")
  <2>1. \A h \in 1 .. Len(e) : h # Len(d)
    BY <1>1, <1>4
  <2> QED BY <1>1, <1>2, <1>4, <2>1 DEF Calm, SetInportHidden, ReadOnTop
<1> QED BY <1>3, <1>4

(* What a step needs to know of the state it starts from.                  *)
Busy(F) ==
  /\ RestTyped /\ TypedBy(F)
  /\ \A f \in F : f.k \in Seq(F)
  /\ \A f \in F : f.op \in FrameOps
  /\ dump \in Seq(F) /\ handlers \in Seq(Seq(F))
  /\ Len(dump) \in Nat /\ Len(files) \in Nat /\ n \in Nat
  /\ Cardinality(Loads(dump)) \in Nat
  /\ op # "idle" /\ Good /\ Working

LEMMA BusyFacts ==
  ASSUME NEW F, RestTyped, TypedBy(F), Structured, Good, op # "idle"
  PROVE  Busy(F)
<1>1. dump \in Seq(F) /\ handlers \in Seq(Seq(F))
  BY DEF TypedBy
<1>2. \A f \in F : f.k \in Seq(F) /\ f.op \in FrameOps
  BY DEF TypedBy, Closed, FrameIn
<1>3. Len(dump) \in Nat /\ Cardinality(Loads(dump)) \in Nat
  BY <1>1, LoadsFinite, AtIn
<1>4. Len(files) \in Nat /\ n \in Nat
  <2>1. files \in Seq(-1 .. MaxForms) /\ n \in Nat
    BY DEF RestTyped
  <2> QED BY <2>1
<1> QED BY <1>1, <1>2, <1>3, <1>4 DEF Busy, Structured, Idle

(* Steps that leave the dump alone, and no read undone.                    *)
LEMMA StillStep ==
  ASSUME NEW F, Busy(F), op \in {"EVAL", "T0LVL"},
         UNCHANGED <<dump, handlers, n, what>>,
         Len(files') - Level' = Len(files) - Level,
         envir' \in {envir, n},
         chosen' \in {inport', "any"},
         what = "load" => Len(dump) > 0
  PROVE  Working'
<1>1. Calm(dump) /\ Working /\ dump \in Seq(F) /\ Len(dump) \in Nat
  BY CalmPorts DEF Busy, Working
<1>2. PortsKept'
  BY <1>1, CalmPorts
<1>3. Nested(dump)' /\ Handled(handlers, dump)'
  BY <1>1 DEF Working
<1>4. Cardinality(Loads(dump))' = (Len(files) - Level)'
  <2>1. Cardinality(Loads(dump)) = Len(files) - Level
    BY <1>1 DEF Working
  <2>2. Loads(dump') = Loads(dump)
    OBVIOUS
  <2> QED BY <2>1, <2>2
<1>5. (what = "load" => InLoad)'
  <2> SUFFICES ASSUME what = "load"  PROVE InLoad'
    OBVIOUS
  <2>1. InLoad /\ Len(dump) > 0
    BY <1>1 DEF Working
  <2> QED BY <1>1, <2>1 DEF InLoad
<1> QED BY <1>2, <1>3, <1>4, <1>5 DEF Working

(* The program goes on, or begins to load a file.                          *)
LEMMA ProgramStep ==
  ASSUME NEW F, Busy(F), op = "EVAL",
         UNCHANGED <<dump, handlers, n, what>>,
         Len(files') = Len(files) + (IF op' = "T0LVL" THEN 1 ELSE 0),
         envir' \in {envir, n},
         chosen' \in {chosen, inport', "any"},
         inport' # inport => chosen' \in {inport', "any"}
  PROVE  Working'
<1>1. Working /\ Len(dump) \in Nat /\ Len(files) \in Nat
  BY DEF Busy
<1>2. chosen' \in {inport', "any"}
  <2>1. chosen \in {inport, "any"}
    BY <1>1, CalmPorts DEF Working
  <2> QED BY <2>1
<1>3. Len(files') - Level' = Len(files) - Level
  <2>1. Level \in {0, 1, 2} /\ Level' = Level + (IF op' = "T0LVL" THEN 1 ELSE 0)
    BY DEF Level
  <2> QED BY <1>1, <2>1
<1>4. what = "load" => Len(dump) > 0
  BY <1>1 DEF Working, InLoad
<1> QED BY <1>2, <1>3, <1>4, StillStep

(* The frames of a load, on the top level of its file.                     *)
Ours(d) ==
  /\ \A h \in 1 .. Len(d) : At(d, h).own = n /\ At(d, h).envir \in {0, n}
  /\ Len(d) > 0 => At(d, 1).op = "T0LVL" /\ At(d, 1).envir = 0

LEMMA OursPush ==
  ASSUME NEW F, NEW d \in Seq(F), NEW f, NEW e, Pushed(d, f, e, F), Ours(d),
         f.own = n, f.envir \in {0, n}, Len(d) = 0 => f.op = "T0LVL" /\ f.envir = 0
  PROVE  Ours(e)
<1>1. /\ Len(d) \in Nat /\ Len(e) = Len(d) + 1
      /\ At(e, Len(d) + 1) = f /\ \A h \in 1 .. Len(d) : At(e, h) = At(d, h)
  BY AtIn DEF Pushed
<1>2. ASSUME NEW h \in 1 .. Len(e)  PROVE At(e, h).own = n /\ At(e, h).envir \in {0, n}
  <2>1. h = Len(d) + 1 \/ h \in 1 .. Len(d)
    BY <1>1
  <2> QED BY <1>1, <2>1 DEF Ours
<1>3. At(e, 1).op = "T0LVL" /\ At(e, 1).envir = 0
  <2>1. CASE Len(d) = 0
    BY <1>1, <2>1
  <2>2. CASE Len(d) # 0
    <3>1. 1 \in 1 .. Len(d)
      BY <1>1, <2>2
    <3> QED BY <1>1, <3>1 DEF Ours
  <2> QED BY <2>1, <2>2
<1> QED BY <1>2, <1>3 DEF Ours

(* Steps that put a frame on the dump.                                     *)
LEMMA PushStep ==
  ASSUME NEW F, Busy(F), op = "EVAL", NEW f, FrameIn(f, F),
         \/ f.op \in {"args", "pop-handler"} /\ UNCHANGED <<op, portVars>>
         \/ f.op = "set-inport" /\ op' = "throw" /\ chosen' = "any",
         f.own = n, f.envir \in {envir, n},
         dump' = <<f>> \o dump,
         handlers' = IF f.op = "pop-handler" THEN <<dump>> \o handlers ELSE handlers,
         envir' \in {envir, n}, Len(files') = Len(files), UNCHANGED <<n, what>>
  PROVE  Working'
<1> DEFINE G == F \cup {f}
           d == dump
<1>1. /\ dump \in Seq(G) /\ handlers \in Seq(Seq(G)) /\ (\A g \in G : g.k \in Seq(G)) /\ f \in G
  <2>1. Seq(F) \subseteq Seq(G) /\ Seq(Seq(F)) \subseteq Seq(Seq(G))
    BY SeqMore
  <2> QED BY <2>1 DEF Busy, FrameIn
<1>2. /\ Len(d) \in Nat /\ Len(files) \in Nat /\ Nested(d) /\ Handled(handlers, d) /\ PortsKept
      /\ Cardinality(Loads(d)) = Len(files) - Level
      /\ what = "load" => InLoad
  BY DEF Busy, Working
<1>3. PICK e : e = dump'
  OBVIOUS
<1>3a. e = <<f>> \o d /\ f.op # "exit"
  BY <1>3
<1> HIDE DEF G
<1>4. Pushed(d, f, e, G)
  BY <1>1, <1>3a, PushAt
<1>5. Plain(d, f, e)
  BY <1>1, <1>2, <1>3a, <1>4, PushPlain
<1>6. e \in Seq(G) /\ Len(e) = Len(d) + 1 /\ Len(e) \in Nat /\ Agree(d, e)
  <2>1. e \in Seq(G) /\ Len(e) = Len(d) + 1
    BY <1>4 DEF Pushed
  <2> QED BY <1>2, <1>4, <2>1, AgreeFacts
<1>7. Nested(e)
  BY <1>5 DEF Plain
<1>8. Handled(handlers', e)
  <2>1. CASE f.op = "pop-handler"
    <3>1. Caught(e) = Caught(d) \cup {Len(d) + 1}
      BY <1>5, <2>1 DEF Plain
    <3> QED BY <1>1, <1>2, <1>6, <2>1, <3>1, HandledPush
  <2>2. CASE f.op # "pop-handler"
    <3>1. Caught(e) = Caught(d)
      BY <1>5, <2>2 DEF Plain
    <3> QED BY <1>1, <1>2, <1>6, <2>2, <3>1, HandledOn
  <2> QED BY <2>1, <2>2
<1>9. PortsKept'
  <2>1. Calm(d) /\ chosen \in {inport, "any"}
    BY <1>2, CalmPorts
  <2>2. CASE f.op # "set-inport"
    <3>1. f.op \notin {"T1LVL", "set-inport"}
      BY <2>2
    <3>2. Calm(e)
      BY <1>1, <1>4, <1>5, <2>1, <3>1, CalmPush
    <3>3. chosen' \in {inport', "any"}
      BY <2>1, <2>2 DEF portVars
    <3> QED BY <1>3, <1>6, <3>2, <3>3, CalmPorts
  <2>3. CASE f.op = "set-inport"
    <3>1. op' = "throw" /\ chosen' = "any" /\ At(e, Len(e)).op = "set-inport"
      BY <1>4, <2>3 DEF Pushed
    <3>2. ASSUME NEW h \in 1 .. Len(e), h # Len(e)
          PROVE  /\ At(e, h).op # "T1LVL"
                 /\ At(e, h).op = "set-inport" => Hidden(e, h)
      <4>1. h \in 1 .. Len(d)
        BY <1>2, <1>6, <3>2
      <4>2. At(e, h) = At(d, h) /\ (Hidden(e, h) <=> Hidden(d, h))
        BY <1>4, <1>5, <4>1 DEF Pushed, Plain, SameHiding
      <4> QED BY <2>1, <4>1, <4>2 DEF Calm
    <3>3. SetInportHidden(e, op') /\ ReadOnTop(e, op') /\ ~OnTop(e, "T1LVL")
      BY <3>1, <3>2 DEF SetInportHidden, ReadOnTop, OnTop
    <3>4. PortsKept' <=> /\ SetInportHidden(dump', op')
                         /\ ReadOnTop(dump', op')
                         /\ ~OnTop(dump', "T1LVL") => chosen' \in {inport', "any"}
                         /\ OnTop(dump', "T1LVL") /\ op' = "return" =>
                              chosen' \in {save_inport', "any"}
      BY DEF PortsKept
    <3> QED BY <1>3, <3>1, <3>3, <3>4
  <2> QED BY <2>2, <2>3
<1>10. Cardinality(Loads(e)) = Len(files') - Level'
  <2>1. Cardinality(Loads(e)) = Cardinality(Loads(d))
    <3>1. Cardinality(Loads(d)) \in Nat
      BY <1>1, LoadsFinite
    <3>2. Cardinality(Loads(e)) = Cardinality(Loads(d)) + (IF f.op = "T0LVL" THEN 1 ELSE 0)
      BY <1>1, <1>5, LoadsPush
    <3>3. f.op # "T0LVL"
      OBVIOUS
    <3> QED BY <3>1, <3>2, <3>3
  <2>2. Level' = Level
    BY DEF Level
  <2> QED BY <1>2, <2>1, <2>2
<1>11. ASSUME what' = "load"  PROVE InLoad'
  <2>1. InLoad
    BY <1>2, <1>11
  <2>2. Ours(d) /\ envir \in {0, n} /\ Len(d) > 0 /\ n' = n /\ envir' \in {envir, n}
    BY <1>1, <1>2, <2>1 DEF InLoad, Ours
  <2>3. Ours(e) /\ Len(e) # 0
    <3>1. f.own = n /\ f.envir \in {0, n} /\ Len(d) # 0 /\ Len(e) # 0
      BY <1>2, <1>6, <2>2
    <3> QED BY <1>1, <1>4, <2>2, <3>1, OursPush
  <2>4. InLoad' <=>
          /\ \A h \in 1 .. Len(dump') : At(dump', h).own = n' /\ At(dump', h).envir \in {0, n'}
          /\ envir' \in {0, n'}
          /\ Len(dump') > 0 => At(dump', 1).op = "T0LVL" /\ At(dump', 1).envir = 0
          /\ Len(dump') = 0 => op' = "T0LVL" /\ envir' = 0
    BY DEF InLoad
  <2> QED BY <1>3, <1>6, <2>2, <2>3, <2>4 DEF Ours
<1> QED BY <1>3, <1>7, <1>8, <1>9, <1>10, <1>11 DEF Working

(* A handler is called: an exit to its continuation goes on the dump.      *)
LEMMA HandleStep ==
  ASSUME NEW F, Busy(F), throwHandled, ~strayed'
  PROVE  Working'
<1> DEFINE k == Head(handlers)
           d == dump
<1>1. /\ op = "throw" /\ handlers # << >> /\ handlers' = Tail(handlers) /\ envir' = n
      /\ op' = "EVAL" /\ UNCHANGED <<files, n, what, portVars>>
  BY DEF throwHandled
<1>2. /\ dump \in Seq(F) /\ handlers \in Seq(Seq(F))
      /\ Len(d) \in Nat /\ Len(files) \in Nat /\ Nested(d) /\ Handled(handlers, d) /\ PortsKept
      /\ Cardinality(Loads(d)) = Len(files) - Level
      /\ what = "load" => InLoad
  BY DEF Busy, Working
<1>3. /\ k \in Seq(F) /\ IsBase(k, d) /\ Len(k) \in Nat /\ Len(k) + 1 \in Caught(d)
      /\ \A h \in Caught(d) : h <= Len(k) + 1
  BY <1>1, <1>2, HandledHead
<1>4. PICK f : f = [Frame("exit", k) EXCEPT !.envir = n]
  OBVIOUS
<1>5. f.op = "exit" /\ f.k = k /\ f.own = n /\ f.envir = n /\ FrameIn(f, F)
  <2>1. n \in 0 .. n
    BY DEF Busy
  <2> QED BY <1>3, <1>4, <2>1 DEF Frame, FrameIn, FrameOps
<1> DEFINE G == F \cup {f}
<1>6. /\ dump \in Seq(G) /\ handlers \in Seq(Seq(G)) /\ k \in Seq(G)
      /\ (\A g \in G : g.k \in Seq(G)) /\ f \in G
  <2>1. Seq(F) \subseteq Seq(G) /\ Seq(Seq(F)) \subseteq Seq(Seq(G))
    BY SeqMore
  <2> QED BY <1>2, <1>3, <1>5, <2>1 DEF Busy, FrameIn
<1>7. PICK e : e = dump'
  OBVIOUS
<1>8. \A g \in (Len(k) + 1) .. Len(d) : At(d, g).op # "T0LVL"
  <2>1. Count(k, "T0LVL") = Count(d, "T0LVL")
    BY DEF throwHandled
  <2> QED BY <1>2, <1>3, <2>1, SameCount
<1> HIDE DEF G, k
<1>9. Pushed(d, f, e, G)
  <2>1. e = <<f>> \o dump
    BY <1>4, <1>7 DEF throwHandled, k
  <2> QED BY <1>6, <2>1, PushAt
<1>10. ExitPut(d, Len(k), e)
  BY <1>2, <1>3, <1>5, <1>6, <1>8, <1>9, PushExit
<1>11. e \in Seq(G) /\ Len(e) = Len(d) + 1 /\ Len(e) \in Nat /\ Agree(d, e)
  <2>1. e \in Seq(G) /\ Len(e) = Len(d) + 1
    BY <1>9 DEF Pushed
  <2> QED BY <1>2, <1>9, <2>1, AgreeFacts
<1>12. Nested(e)
  BY <1>10 DEF ExitPut
<1>13. Handled(handlers', e)
  <2>1. Caught(e) = Caught(d) \ {Len(k) + 1}
    <3>1. \A h \in Caught(d) : h \in 1 .. Len(k) <=> h # Len(k) + 1
      <4>1. \A h \in Caught(d) : h \in Nat \ {0}
        BY <1>2 DEF Caught
      <4> QED BY <1>3, <4>1
    <3> QED BY <1>10, <3>1 DEF ExitPut
  <2> QED BY <1>1, <1>2, <1>6, <1>11, <2>1, HandledPop DEF k
<1>14. \A h \in 1 .. Len(d) : At(d, h).op # "T1LVL"
  <2> SUFFICES ASSUME NEW h \in 1 .. Len(d), At(d, h).op = "T1LVL"  PROVE FALSE
    OBVIOUS
  <2>1. /\ h = Len(d) /\ h > 2 /\ At(d, h - 1).op = "VALUEPRINT" /\ At(d, h - 2).op = "T0LVL"
    BY <1>2 DEF PortsKept, ReadOnTop
  <2>2. Len(k) + 1 \in 1 .. Len(d) /\ At(d, Len(k) + 1).op = "pop-handler"
    BY <1>3 DEF Caught
  <2>3. Len(k) + 1 # h /\ Len(k) + 1 # h - 1 /\ Len(k) + 1 # h - 2
    BY <2>1, <2>2
  <2>4. h - 2 \in (Len(k) + 1) .. Len(d)
    BY <1>2, <1>3, <2>1, <2>2, <2>3
  <2> QED BY <1>8, <2>1, <2>4
<1>15. PortsKept'
  <2>1. chosen \in {inport, "any"}
    <3>1. ~OnTop(d, "T1LVL")
      BY <1>2, <1>14 DEF OnTop
    <3> QED BY <1>2, <3>1 DEF PortsKept
  <2>2. ASSUME NEW h \in 1 .. Len(d), At(d, h).op = "set-inport"  PROVE Hidden(e, h)
    <3>1. Hidden(d, h) \/ h = Len(d)
      BY <1>2, <2>2 DEF PortsKept, SetInportHidden
    <3>2. Len(k) + 1 \in 1 .. Len(d)
      BY <1>3 DEF Caught
    <3>3. h = Len(d) => Len(k) < h
      BY <1>2, <1>3, <3>2
    <3> QED BY <1>10, <3>1, <3>3 DEF ExitPut
  <2>3. Calm(e)
    <3> SUFFICES ASSUME NEW h \in 1 .. Len(e)
                 PROVE  /\ At(e, h).op # "T1LVL"
                        /\ At(e, h).op = "set-inport" => Hidden(e, h)
      BY DEF Calm
    <3>1. CASE h = Len(d) + 1
      BY <1>5, <1>9, <3>1 DEF Pushed
    <3>2. CASE h # Len(d) + 1
      <4>1. h \in 1 .. Len(d) /\ At(e, h) = At(d, h)
        <5>1. h \in 1 .. Len(d)
          BY <1>2, <1>11, <3>2
        <5> QED BY <1>9, <5>1 DEF Pushed
      <4> QED BY <1>14, <2>2, <4>1
    <3> QED BY <3>1, <3>2
  <2>4. chosen' \in {inport', "any"}
    BY <1>1, <2>1 DEF portVars
  <2> QED BY <1>7, <1>11, <2>3, <2>4, CalmPorts
<1>16. Cardinality(Loads(e)) = Len(files') - Level'
  <2>1. Loads(e) = Loads(d)
    BY <1>10 DEF ExitPut
  <2>2. Level' = Level
    BY <1>1 DEF Level
  <2> QED BY <1>1, <1>2, <2>1, <2>2
<1>17. ASSUME what' = "load"  PROVE InLoad'
  <2>1. InLoad
    BY <1>1, <1>2, <1>17
  <2>2. Ours(d) /\ envir \in {0, n} /\ Len(d) > 0 /\ n' = n /\ envir' \in {envir, n}
    BY <1>1, <1>2, <2>1 DEF InLoad, Ours
  <2>3. Ours(e) /\ Len(e) # 0
    <3>1. f.own = n /\ f.envir \in {0, n} /\ Len(d) # 0 /\ Len(e) # 0
      BY <1>2, <1>5, <1>11, <2>2
    <3> QED BY <1>6, <1>9, <2>2, <3>1, OursPush
  <2>4. InLoad' <=>
          /\ \A h \in 1 .. Len(dump') : At(dump', h).own = n' /\ At(dump', h).envir \in {0, n'}
          /\ envir' \in {0, n'}
          /\ Len(dump') > 0 => At(dump', 1).op = "T0LVL" /\ At(dump', 1).envir = 0
          /\ Len(dump') = 0 => op' = "T0LVL" /\ envir' = 0
    BY DEF InLoad
  <2> QED BY <1>7, <2>2, <2>3, <2>4 DEF Ours
<1> QED BY <1>7, <1>12, <1>13, <1>15, <1>16, <1>17 DEF Working

(* A form is read: three frames go onto the dump.                          *)
LEMMA ReadStep ==
  ASSUME NEW F, Busy(F), T0LVLread
  PROVE  Working'
<1>1. /\ op = "T0LVL" /\ op' \in {"return", "throw"} /\ ReadForm
      /\ op' = "return" => chosen' = chosen
      /\ op' = "throw" => chosen' = "any"
      /\ save_inport' = inport
      /\ s_save(<<"T1LVL", "VALUEPRINT", "T0LVL">>)
      /\ UNCHANGED <<envir, handlers, n, what>>
  BY DEF T0LVLread
<1>2. /\ dump \in Seq(F) /\ handlers \in Seq(Seq(F))
      /\ Len(dump) \in Nat /\ Len(files) \in Nat
      /\ Nested(dump) /\ Handled(handlers, dump) /\ PortsKept
      /\ Cardinality(Loads(dump)) = Len(files) - Level
      /\ what = "load" => InLoad
      /\ envir \in 0 .. n /\ Cardinality(Loads(dump)) \in Nat
  BY DEF Busy, Working, RestTyped
<1>3. Len(files') = Len(files)
  <2>1. files \in Seq(-1 .. MaxForms) /\ Len(files) > 0
    BY DEF Busy, RestTyped
  <2> QED BY <1>1, <2>1, ReadFormTyped
<1>4. PICK a, b, c : /\ a = Frame("T1LVL", << >>)
                     /\ b = Frame("VALUEPRINT", << >>)
                     /\ c = Frame("T0LVL", << >>)
  OBVIOUS
<1>5. /\ a.op = "T1LVL" /\ b.op = "VALUEPRINT" /\ c.op = "T0LVL"
      /\ a.own = n /\ b.own = n /\ c.own = n
      /\ a.envir = envir /\ b.envir = envir /\ c.envir = envir
      /\ a.k = << >> /\ b.k = << >> /\ c.k = << >>
  BY <1>4 DEF Frame
<1> DEFINE G == F \cup {a, b, c}
<1>6. /\ dump \in Seq(G) /\ handlers \in Seq(Seq(G))
      /\ (\A g \in G : g.k \in Seq(G)) /\ a \in G /\ b \in G /\ c \in G
  <2>1. F \subseteq G
    OBVIOUS
  <2>2. Seq(F) \subseteq Seq(G) /\ Seq(Seq(F)) \subseteq Seq(Seq(G))
    <3> HIDE DEF G
    <3> QED BY <2>1, SeqMore
  <2>3. << >> \in Seq(G)
    OBVIOUS
  <2>4. \A g \in G : g.k \in Seq(G)
    <3>1. \A g \in F : g.k \in Seq(G)
      BY <2>2 DEF Busy
    <3>2. a.k \in Seq(G) /\ b.k \in Seq(G) /\ c.k \in Seq(G)
      BY <1>5, <2>3
    <3>3. \A g \in G : g \in F \/ g = a \/ g = b \/ g = c
      OBVIOUS
    <3> QED BY <3>1, <3>2, <3>3
  <2> QED BY <1>2, <2>2, <2>4
<1> HIDE DEF G
<1>7. PICK d1, d2, d3 : /\ d1 = <<c>> \o dump
                        /\ d2 = <<b>> \o d1
                        /\ d3 = <<a>> \o d2
  OBVIOUS
<1>8. dump' = d3
  <2>1. dump' = <<a>> \o (<<b>> \o (<<c>> \o dump))
    BY <1>1, <1>4, <1>6, SavedThree
  <2> QED BY <1>7, <2>1
<1>9. Pushed(dump, c, d1, G) /\ d1 \in Seq(G)
  <2>1. Pushed(dump, c, <<c>> \o dump, G)
    BY <1>6, PushAt
  <2>2. Pushed(dump, c, d1, G)
    BY <1>7, <2>1
  <2> QED BY <2>2 DEF Pushed
<1>10. Pushed(d1, b, d2, G) /\ d2 \in Seq(G)
  <2>1. Pushed(d1, b, <<b>> \o d1, G)
    BY <1>6, <1>9, PushAt
  <2>2. Pushed(d1, b, d2, G)
    BY <1>7, <2>1
  <2> QED BY <2>2 DEF Pushed
<1>11. Pushed(d2, a, d3, G) /\ d3 \in Seq(G)
  <2>1. Pushed(d2, a, <<a>> \o d2, G)
    BY <1>6, <1>10, PushAt
  <2>2. Pushed(d2, a, d3, G)
    BY <1>7, <2>1
  <2> QED BY <2>2 DEF Pushed
<1>12. Len(d1) = Len(dump) + 1 /\ Len(d2) = Len(d1) + 1 /\ Len(d3) = Len(d2) + 1
  BY <1>9, <1>10, <1>11 DEF Pushed
<1>13. Plain(dump, c, d1)
  <2>1. c.op # "exit"
    BY <1>5
  <2> QED BY <1>2, <1>6, <1>9, <2>1, PushPlain
<1>14. Plain(d1, b, d2)
  <2>1. b.op # "exit" /\ Nested(d1)
    BY <1>5, <1>13 DEF Plain
  <2> QED BY <1>6, <1>9, <1>10, <2>1, PushPlain
<1>15. Plain(d2, a, d3)
  <2>1. a.op # "exit" /\ Nested(d2)
    BY <1>5, <1>14 DEF Plain
  <2> QED BY <1>6, <1>10, <1>11, <2>1, PushPlain
<1>16. Nested(d3)
  BY <1>15 DEF Plain
<1>17. Caught(d1) = Caught(dump) /\ Caught(d2) = Caught(d1) /\ Caught(d3) = Caught(d2)
  <2>1. Caught(d1) = Caught(dump)
    BY <1>5, <1>13 DEF Plain
  <2>2. Caught(d2) = Caught(d1)
    BY <1>5, <1>14 DEF Plain
  <2>3. Caught(d3) = Caught(d2)
    BY <1>5, <1>15 DEF Plain
  <2> QED BY <2>1, <2>2, <2>3
<1>18. Agree(dump, d1) /\ Agree(d1, d2) /\ Agree(d2, d3)
  <2>1. Len(d1) \in Nat /\ Len(d2) \in Nat /\ Len(d3) \in Nat
    BY <1>2, <1>12
  <2> QED BY <1>2, <1>9, <1>10, <1>11, <2>1, AgreeFacts
<1>19. Handled(handlers', d3)
  <2>1. Handled(handlers, d1)
    BY <1>2, <1>6, <1>9, <1>17, <1>18, HandledOn
  <2>2. Handled(handlers, d2)
    BY <1>6, <1>9, <1>10, <1>17, <1>18, <2>1, HandledOn
  <2>3. Handled(handlers, d3)
    BY <1>6, <1>10, <1>11, <1>17, <1>18, <2>2, HandledOn
  <2> QED BY <1>1, <2>3
<1>20. Cardinality(Loads(d3)) = Len(files') - Level'
  <2>1. Cardinality(Loads(d1)) = Cardinality(Loads(dump)) + 1
    BY <1>5, <1>6, <1>13, LoadsPush
  <2>2. Cardinality(Loads(d2)) = Cardinality(Loads(d1)) + 0
    <3>1. b.op # "T0LVL"
      BY <1>5
    <3> QED BY <1>9, <1>14, <3>1, LoadsPush
  <2>3. Cardinality(Loads(d3)) = Cardinality(Loads(d2)) + 0
    <3>1. a.op # "T0LVL"
      BY <1>5
    <3> QED BY <1>10, <1>15, <3>1, LoadsPush
  <2>4. Level = Level' + 1 /\ Level' \in {0, 1}
    BY <1>1 DEF Level
  <2> QED BY <1>2, <1>3, <2>1, <2>2, <2>3, <2>4
<1>21. PortsKept'
  <2>1. Calm(dump) /\ chosen \in {inport, "any"}
    BY <1>1, <1>2, CalmPorts
  <2>2. Calm(d1)
    <3>1. c.op \notin {"T1LVL", "set-inport"}
      BY <1>5
    <3> QED BY <1>6, <1>9, <1>13, <2>1, <3>1, CalmPush
  <2>3. Calm(d2)
    <3>1. b.op \notin {"T1LVL", "set-inport"}
      BY <1>5
    <3> QED BY <1>9, <1>10, <1>14, <2>2, <3>1, CalmPush
  <2>4. At(d3, Len(d3)) = a /\ At(d3, Len(d3) - 1) = b /\ At(d3, Len(d3) - 2) = c
    <3>1. At(d3, Len(d3)) = a
      BY <1>11, <1>12 DEF Pushed
    <3>2. At(d3, Len(d3) - 1) = b
      <4>1. Len(d3) - 1 = Len(d1) + 1 /\ Len(d3) - 1 \in 1 .. Len(d2)
        BY <1>2, <1>12
      <4> QED BY <1>10, <1>11, <4>1 DEF Pushed
    <3>3. At(d3, Len(d3) - 2) = c
      <4>1. /\ Len(d3) - 2 = Len(dump) + 1 /\ Len(d3) - 2 \in 1 .. Len(d2)
            /\ Len(d3) - 2 \in 1 .. Len(d1)
        BY <1>2, <1>12
      <4> QED BY <1>9, <1>10, <1>11, <4>1 DEF Pushed
    <3> QED BY <3>1, <3>2, <3>3
  <2>5. Len(d3) > 2 /\ Len(d3) \in Nat /\ Len(d2) \in Nat
    BY <1>2, <1>12
  <2>6. ASSUME NEW h \in 1 .. Len(d3), h # Len(d3)
        PROVE  /\ At(d3, h).op # "T1LVL"
               /\ At(d3, h).op = "set-inport" => Hidden(d3, h)
    <3>1. h \in 1 .. Len(d2)
      BY <1>12, <2>5, <2>6
    <3>2. At(d3, h) = At(d2, h) /\ (Hidden(d3, h) <=> Hidden(d2, h))
      BY <1>11, <1>15, <3>1 DEF Pushed, Plain, SameHiding
    <3> QED BY <2>3, <3>1, <3>2 DEF Calm
  <2>7. SetInportHidden(d3, op')
    <3> SUFFICES ASSUME NEW h \in 1 .. Len(d3), At(d3, h).op = "set-inport"  PROVE Hidden(d3, h)
      BY DEF SetInportHidden
    <3>1. h # Len(d3)
      BY <1>5, <2>4
    <3> QED BY <2>6, <3>1
  <2>8. ReadOnTop(d3, op')
    <3> SUFFICES ASSUME NEW h \in 1 .. Len(d3), At(d3, h).op = "T1LVL"
                 PROVE  /\ h = Len(d3) /\ h > 2
                        /\ op' \in {"return", "throw"}
                        /\ At(d3, h - 1).op = "VALUEPRINT"
                        /\ At(d3, h - 2).op = "T0LVL"
      BY DEF ReadOnTop
    <3>1. h = Len(d3)
      BY <2>6
    <3> QED BY <1>1, <1>5, <2>4, <2>5, <3>1
  <2>9. OnTop(d3, "T1LVL")
    BY <1>5, <2>4, <2>5 DEF OnTop
  <2>10. op' = "return" => chosen' \in {save_inport', "any"}
    BY <1>1, <2>1
  <2>11. PortsKept' <=> /\ SetInportHidden(dump', op')
                        /\ ReadOnTop(dump', op')
                        /\ ~OnTop(dump', "T1LVL") => chosen' \in {inport', "any"}
                        /\ OnTop(dump', "T1LVL") /\ op' = "return" =>
                             chosen' \in {save_inport', "any"}
    BY DEF PortsKept
  <2> QED BY <1>8, <2>7, <2>8, <2>9, <2>10, <2>11
<1>22. ASSUME what' = "load"  PROVE InLoad'
  <2>1. InLoad
    BY <1>1, <1>2, <1>22
  <2>2. Ours(dump) /\ envir \in {0, n} /\ (Len(dump) = 0 => envir = 0)
    BY <2>1 DEF InLoad, Ours
  <2>3. Ours(d1)
    BY <1>5, <1>6, <1>9, <2>2, OursPush
  <2>4. Ours(d2)
    <3>1. Len(d1) # 0
      BY <1>2, <1>12
    <3> QED BY <1>5, <1>9, <1>10, <2>2, <2>3, <3>1, OursPush
  <2>5. Ours(d3)
    <3>1. Len(d2) # 0
      BY <1>2, <1>12
    <3> QED BY <1>5, <1>10, <1>11, <2>2, <2>4, <3>1, OursPush
  <2>6. Len(d3) # 0
    BY <1>2, <1>12
  <2>7. InLoad' <=>
          /\ \A h \in 1 .. Len(dump') : At(dump', h).own = n' /\ At(dump', h).envir \in {0, n'}
          /\ envir' \in {0, n'}
          /\ Len(dump') > 0 => At(dump', 1).op = "T0LVL" /\ At(dump', 1).envir = 0
          /\ Len(dump') = 0 => op' = "T0LVL" /\ envir' = 0
    BY DEF InLoad
  <2>8. n' = n /\ envir' = envir
    BY <1>1
  <2> QED BY <1>8, <2>2, <2>5, <2>6, <2>7, <2>8 DEF Ours
<1> QED BY <1>8, <1>16, <1>19, <1>20, <1>21, <1>22 DEF Working

(* Frames come off the dump.                                               *)
LEMMA TakenOff ==
  ASSUME NEW F, Busy(F), NEW e \in Seq(F), e = dump',
         IsBase(e, dump), CutBack(dump, e),
         Calm(dump) \/ (op = "return" /\ Len(e) < Len(dump)),
         Handled(handlers', e),
         Cardinality(Loads(e)) = Len(files') - Level',
         chosen' \in {inport', "any"},
         UNCHANGED <<n, what>>,
         what = "load" => /\ envir' \in {0, n}
                          /\ Len(e) = 0 => op' = "T0LVL" /\ envir' = 0
  PROVE  Working'
<1>1. dump \in Seq(F) /\ Len(dump) \in Nat /\ PortsKept /\ (what = "load" => InLoad)
  BY DEF Busy, Working
<1>2. PortsKept'
  <2>1. Calm(e)
    <3>1. CASE Calm(dump)
      BY <1>1, <3>1, CalmCut
    <3>2. CASE op = "return" /\ Len(e) < Len(dump)
      <4>1. SetInportHidden(dump, "return") /\ ReadOnTop(dump, "return")
        BY <1>1, <3>2 DEF PortsKept
      <4> QED BY <1>1, <3>2, <4>1, CalmCut
    <3> QED BY <3>1, <3>2
  <2> QED BY <2>1, CalmPorts
<1>3. ASSUME what' = "load"  PROVE InLoad'
  <2>1. InLoad
    BY <1>1, <1>3
  <2>2. \A h \in 1 .. Len(e) : At(e, h) = At(dump, h) /\ h \in 1 .. Len(dump)
    BY <1>1, AtIn DEF IsBase
  <2>3. Len(e) > 0 => 1 \in 1 .. Len(e) /\ Len(dump) > 0
    BY <1>1, AtIn DEF IsBase
  <2>4. InLoad' <=>
          /\ \A h \in 1 .. Len(dump') : At(dump', h).own = n' /\ At(dump', h).envir \in {0, n'}
          /\ envir' \in {0, n'}
          /\ Len(dump') > 0 => At(dump', 1).op = "T0LVL" /\ At(dump', 1).envir = 0
          /\ Len(dump') = 0 => op' = "T0LVL" /\ envir' = 0
    BY DEF InLoad
  <2>5. \A h \in 1 .. Len(e) : At(e, h).own = n /\ At(e, h).envir \in {0, n}
    BY <2>1, <2>2 DEF InLoad
  <2>6. Len(e) > 0 => At(e, 1).op = "T0LVL" /\ At(e, 1).envir = 0
    BY <2>1, <2>2, <2>3 DEF InLoad
  <2> QED BY <1>3, <2>4, <2>5, <2>6
<1>4. Nested(e)
  BY DEF CutBack
<1> QED BY <1>2, <1>3, <1>4 DEF Working

(* An evaluation that has nothing left to do leaves nothing behind.        *)
LEMMA EmptyFacts ==
  ASSUME NEW F, Busy(F), dump = << >>
  PROVE  handlers = << >> /\ Len(files) = Level /\ chosen \in {inport, "any"}
<1>1. /\ dump \in Seq(F) /\ handlers \in Seq(Seq(F)) /\ Handled(handlers, dump) /\ PortsKept
      /\ Cardinality(Loads(dump)) = Len(files) - Level /\ Len(files) \in Nat
  BY DEF Busy, Working
<1>2. Len(dump) = 0
  OBVIOUS
<1>3. Caught(dump) = {} /\ Loads(dump) = {} /\ ~OnTop(dump, "T1LVL")
  BY <1>2 DEF Caught, Loads, OnTop
<1>4. handlers = << >>
  BY <1>1, <1>3, HandledHead
<1>5. Cardinality(Loads(dump)) = 0
  BY <1>3, FS_EmptySet
<1>6. Level \in {0, 1, 2}
  BY DEF Level
<1> QED BY <1>1, <1>3, <1>4, <1>5, <1>6 DEF PortsKept

(* The evaluation is over.                                                 *)
LEMMA Over ==
  ASSUME RestTyped, NEW how \in {"value", "error", "quit"}, ended' = Append(ended, how),
         op # "idle", n' = n
  PROVE  /\ ended'[n'] = how /\ n' > 0
         /\ NoFailure' => how = "value" /\ NoFailure
<1>1. ended \in Seq({"value", "error", "quit"}) /\ Len(ended) = n - 1 /\ n \in Nat /\ n > 0
  BY DEF RestTyped, Idle
<1>2. /\ DOMAIN ended' = 1 .. n /\ ended'[n] = how
      /\ \A x \in 1 .. Len(ended) : ended'[x] = ended[x] /\ x \in 1 .. n
  BY <1>1
<1>3. n \in 1 .. n /\ DOMAIN ended = 1 .. Len(ended)
  BY <1>1
<1> QED BY <1>1, <1>2, <1>3 DEF NoFailure

LEMMA ReturnStep ==
  ASSUME NEW F, Busy(F), s_return
  PROVE  IF op' = "idle" THEN AtRest' ELSE Working'
<1>1. /\ op = "return" /\ UNCHANGED <<files, eof, n, what, save_inport, chosen, strayed>>
  BY DEF s_return
<1>2. /\ dump \in Seq(F) /\ handlers \in Seq(Seq(F)) /\ (\A g \in F : g.k \in Seq(F))
      /\ (\A g \in F : g.op \in FrameOps)
      /\ Len(dump) \in Nat /\ Len(files) \in Nat /\ n \in Nat
      /\ Nested(dump) /\ Handled(handlers, dump) /\ PortsKept
      /\ Cardinality(Loads(dump)) = Len(files) - Level
      /\ what = "load" => InLoad
      /\ RestTyped
  BY DEF Busy, Working
<1>3. CASE dump = << >>
  <2>1. what # "load"
    <3>1. Len(dump) = 0
      BY <1>3
    <3> QED BY <1>1, <1>2, <3>1 DEF InLoad
  <2>2. handlers = << >> /\ Len(files) = 1 /\ chosen \in {inport, "any"}
    <3>1. Level = 1
      BY <1>1, <2>1 DEF Level
    <3> QED BY <1>3, <3>1, EmptyFacts
  <2>3. /\ op' = "idle" /\ UNCHANGED <<dump, handlers, inport>>
    BY <1>3 DEF s_return, Return
  <2>4. n > 0
    BY <1>1, <1>2 DEF RestTyped
  <2> QED BY <1>1, <1>3, <2>1, <2>2, <2>3, <2>4 DEF AtRest
<1>4. CASE dump # << >>
  <2> DEFINE d == dump
             f == Head(dump)
  <2>1. /\ Len(d) \in Nat \ {0} /\ Tail(d) \in Seq(F) /\ Len(Tail(d)) = Len(d) - 1
        /\ IsBase(Tail(d), d) /\ f = At(d, Len(d)) /\ f \in F
    BY <1>2, <1>4, TailAt
  <2>2. PICK e : e = dump'
    OBVIOUS
  <2>3. /\ envir' = f.envir
        /\ e = IF f.op = "exit" THEN f.k ELSE Tail(d)
        /\ op' = CASE f.op = "args"        -> "EVAL"
                   [] f.op = "T0LVL"       -> "T0LVL"
                   [] f.op = "T1LVL"       -> "EVAL"
                   [] f.op = "VALUEPRINT"  -> "return"
                   [] f.op = "exit"        -> "return"
                   [] f.op = "set-inport"  -> "return"
                   [] f.op = "pop-handler" ->
                        IF handlers = << >> THEN "throw" ELSE "return"
        /\ handlers' = IF f.op = "pop-handler" /\ handlers # << >>
                       THEN Tail(handlers) ELSE handlers
        /\ inport' = CASE f.op = "T1LVL"      -> save_inport
                       [] f.op = "set-inport" -> f.port
                       [] OTHER               -> inport
    BY <1>4, <2>2 DEF s_return
  <2>4. f.op \in FrameOps
    BY <1>2, <2>1
  <2>5. op' # "idle" /\ (op' = "T0LVL" <=> f.op = "T0LVL")
    BY <2>3, <2>4 DEF FrameOps
  <2>6. Level' = Level + (IF f.op = "T0LVL" THEN 1 ELSE 0) /\ Level \in {0, 1, 2}
    BY <1>1, <2>5 DEF Level
  <2>7. f.op # "set-inport"
    <3> SUFFICES ASSUME f.op = "set-inport"  PROVE FALSE
      OBVIOUS
    <3>1. Popped(d, f, Tail(d))
      BY <1>2, <1>4, PopPlain
    <3>2. ~Hidden(d, Len(d)) /\ Len(d) \in 1 .. Len(d)
      BY <2>1, <3>1 DEF Popped
    <3> QED BY <1>1, <1>2, <2>1, <3>2 DEF PortsKept, SetInportHidden
  <2>8. chosen' \in {inport', "any"}
    <3>1. CASE f.op = "T1LVL"
      <4>1. OnTop(d, "T1LVL")
        BY <2>1, <3>1 DEF OnTop
      <4>2. chosen \in {save_inport, "any"}
        BY <1>1, <1>2, <4>1 DEF PortsKept
      <4>3. inport' = save_inport
        BY <2>3, <3>1
      <4> QED BY <1>1, <4>2, <4>3
    <3>2. CASE f.op # "T1LVL"
      <4>1. ~OnTop(d, "T1LVL")
        BY <2>1, <3>2 DEF OnTop
      <4>2. chosen \in {inport, "any"}
        BY <1>2, <4>1 DEF PortsKept
      <4>3. inport' = inport
        BY <2>3, <2>4, <2>7, <3>2 DEF FrameOps
      <4> QED BY <1>1, <4>2, <4>3
    <3> QED BY <3>1, <3>2
  <2>9. what = "load" => envir' \in {0, n}
    <3>1. Len(d) \in 1 .. Len(d)
      BY <2>1
    <3> QED BY <1>2, <2>1, <2>3, <3>1 DEF InLoad
  <2>10. CASE f.op = "exit"
    <3>1. e = At(d, Len(d)).k /\ At(d, Len(d)).op = "exit" /\ e \in Seq(F)
      BY <1>2, <2>1, <2>3, <2>10
    <3>2. Exited(d, e)
      BY <1>2, <1>4, <3>1, CutExit
    <3>3. /\ IsBase(e, d) /\ Len(e) < Len(d) /\ CutBack(d, e)
          /\ Caught(e) = Caught(d) /\ Loads(e) = Loads(d)
      BY <3>2 DEF Exited
    <3>4. Handled(handlers', e)
      <4>1. Len(e) \in Nat
        BY <3>1, AtIn
      <4>2. Agree(d, e)
        BY <1>2, <3>3, <4>1, AgreeFacts
      <4>3. handlers' = handlers
        BY <2>3, <2>10
      <4> QED BY <1>2, <3>1, <3>3, <4>2, <4>3, HandledOn
    <3>5. Cardinality(Loads(e)) = Len(files') - Level'
      BY <1>1, <1>2, <2>6, <2>10, <3>3
    <3>6. what = "load" => Len(e) # 0
      <4> SUFFICES ASSUME what = "load", Len(e) = 0  PROVE FALSE
        OBVIOUS
      <4>1. 1 \in Loads(d)
        BY <1>2, <2>1 DEF InLoad, Loads
      <4>2. 1 \in Loads(e)
        BY <3>3, <4>1
      <4> QED BY <4>2 DEF Loads
    <3> QED BY <1>1, <2>2, <2>5, <2>8, <2>9, <3>1, <3>3, <3>4, <3>5, <3>6, TakenOff
  <2>11. CASE f.op # "exit"
    <3>1. e = Tail(d) /\ e \in Seq(F) /\ Len(e) = Len(d) - 1 /\ Len(e) \in Nat
      BY <2>1, <2>3, <2>11
    <3>2. Popped(d, f, e)
      <4>1. Popped(d, f, Tail(d))
        BY <1>2, <1>4, <2>11, PopPlain
      <4> QED BY <3>1, <4>1
    <3>3. /\ IsBase(e, d) /\ Len(e) < Len(d) /\ CutBack(d, e) /\ Agree(d, e)
      <4>1. IsBase(e, d) /\ CutBack(d, e)
        BY <3>2 DEF Popped
      <4> QED BY <1>2, <3>1, <4>1, AgreeFacts
    <3>4. Handled(handlers', e)
      <4>1. CASE f.op = "pop-handler"
        <5>1. Len(d) \in Caught(d) /\ Caught(e) = Caught(d) \ {Len(d)}
          BY <3>2, <4>1 DEF Popped
        <5>2. handlers # << >>
          BY <1>2, <5>1, HandledHead
        <5>3. Len(Head(handlers)) + 1 = Len(d)
          <6>1. /\ Len(Head(handlers)) \in Nat /\ Len(Head(handlers)) + 1 \in Caught(d)
                /\ Len(d) <= Len(Head(handlers)) + 1
            BY <1>2, <5>1, <5>2, HandledHead
          <6>2. Len(Head(handlers)) + 1 <= Len(d)
            BY <6>1 DEF Caught
          <6> QED BY <1>2, <6>1, <6>2
        <5>4. handlers' = Tail(handlers)
          BY <2>3, <4>1, <5>2
        <5> QED BY <1>2, <3>1, <3>3, <5>1, <5>2, <5>3, <5>4, HandledPop
      <4>2. CASE f.op # "pop-handler"
        <5>1. Caught(e) = Caught(d)
          BY <3>2, <4>2 DEF Popped
        <5>2. handlers' = handlers
          BY <2>3, <4>2
        <5> QED BY <1>2, <3>1, <3>3, <5>1, <5>2, HandledOn
      <4> QED BY <4>1, <4>2
    <3>5. Cardinality(Loads(e)) = Len(files') - Level'
      <4>1. Cardinality(Loads(d)) = Cardinality(Loads(e)) + (IF f.op = "T0LVL" THEN 1 ELSE 0)
        BY <3>2 DEF Popped
      <4>2. Cardinality(Loads(e)) \in Nat
        BY <3>1, LoadsFinite
      <4> QED BY <1>1, <1>2, <2>6, <4>1, <4>2
    <3>6. what = "load" /\ Len(e) = 0 => op' = "T0LVL" /\ envir' = 0
      <4> SUFFICES ASSUME what = "load", Len(e) = 0  PROVE op' = "T0LVL" /\ envir' = 0
        OBVIOUS
      <4>1. Len(d) = 1
        BY <1>2, <3>1
      <4>2. f.op = "T0LVL" /\ f.envir = 0
        BY <1>2, <2>1, <4>1 DEF InLoad
      <4> QED BY <2>3, <2>5, <4>2
    <3> QED BY <1>1, <2>2, <2>5, <2>8, <2>9, <3>1, <3>3, <3>4, <3>5, <3>6, TakenOff
  <2> QED BY <2>10, <2>11
<1> QED BY <1>3, <1>4

LEMMA EndStep ==
  ASSUME NEW F, Busy(F), T0LVLend
  PROVE  IF op' = "idle" THEN AtRest' ELSE Working'
<1>1. /\ op = "T0LVL" /\ Head(files) = -1
      /\ UNCHANGED <<dump, envir, handlers, eof, n, what, strayed, portVars>>
  BY DEF T0LVLend
<1>2. /\ dump \in Seq(F) /\ Len(dump) \in Nat /\ Len(files) \in Nat /\ n \in Nat /\ PortsKept
      /\ Cardinality(Loads(dump)) = Len(files) - Level /\ Cardinality(Loads(dump)) \in Nat
      /\ what = "load" => InLoad
      /\ RestTyped /\ Len(files) > 0
  BY DEF Busy, Working, RestTyped
<1>3. Level = IF what = "load" THEN 1 ELSE 2
  BY <1>1 DEF Level
<1>4. files \in Seq(-1 .. MaxForms) /\ what \in {"load", "request"}
  BY <1>2 DEF RestTyped
<1>5. Len(dump) > 0 /\ what = "load" => Cardinality(Loads(dump)) # 0
  <2> SUFFICES ASSUME Len(dump) > 0, what = "load", Cardinality(Loads(dump)) = 0  PROVE FALSE
    OBVIOUS
  <2>1. 1 \in Loads(dump)
    BY <1>2 DEF InLoad, Loads
  <2>2. Loads(dump) = {}
    BY <1>2, LoadsFinite, FS_EmptySet
  <2> QED BY <2>1, <2>2
<1>6. CASE file_i = 0
  <2>1. Len(files) = 1 /\ files = <<-1>>
    <3>1. Len(files) = 1
      BY <1>2, <1>6 DEF file_i
    <3> QED BY <1>1, <1>4, <3>1
  <2>2. what = "load" /\ Cardinality(Loads(dump)) = 0
    BY <1>2, <1>3, <1>4, <2>1
  <2>3. dump = << >> /\ Len(dump) = 0
    BY <1>2, <1>5, <2>2
  <2>4. handlers = << >> /\ chosen \in {inport, "any"}
    BY <2>3, EmptyFacts
  <2>5. envir = 0
    BY <1>2, <2>2, <2>3 DEF InLoad
  <2>6. op' = "idle" /\ files' = files
    BY <1>6 DEF T0LVLend, Return
  <2> QED BY <1>1, <2>1, <2>3, <2>4, <2>5, <2>6 DEF AtRest, portVars
<1>7. CASE file_i # 0
  <2>1. op' = "return" /\ files' = Tail(files)
    BY <1>7 DEF T0LVLend
  <2>2. Len(files) > 1
    <3>1. Len(files) - 1 # 0
      BY <1>7 DEF file_i
    <3>2. Len(files) \in Nat /\ Len(files) > 0
      BY <1>2
    <3>3. PICK l \in Nat : l = Len(files)
      BY <3>2
    <3>4. l # 0 /\ l - 1 # 0
      BY <3>1, <3>2, <3>3
    <3>5. l > 1
      BY <3>4
    <3> QED BY <3>3, <3>5
  <2>3. Len(files') = Len(files) - 1
    <3> DEFINE X == -1 .. MaxForms
    <3>1. files \in Seq(X) /\ files # << >>
      BY <1>2, <1>4
    <3> HIDE DEF X
    <3> QED BY <2>1, <3>1, Pieces
  <2>4. Level' = Level - 1
    BY <1>1, <1>3, <1>4, <2>1 DEF Level
  <2>5. Len(files') - Level' = Len(files) - Level
    BY <1>2, <1>3, <2>3, <2>4
  <2>6. what = "load" => Len(dump) > 0
    <3> SUFFICES ASSUME what = "load", Len(dump) = 0  PROVE FALSE
      BY <1>2
    <3>1. Loads(dump) = {}
      BY DEF Loads
    <3>2. Cardinality(Loads(dump)) = 0
      BY <3>1, FS_EmptySet
    <3> QED BY <1>2, <1>3, <2>2, <3>2
  <2>7. chosen' \in {inport', "any"}
    <3>1. chosen \in {inport, "any"}
      BY <1>1, <1>2, CalmPorts
    <3> QED BY <1>1, <3>1 DEF portVars
  <2>8. UNCHANGED <<dump, handlers, n, what>> /\ envir' \in {envir, n} /\ op' # "idle"
    BY <1>1, <2>1
  <2> QED BY <1>1, <2>5, <2>6, <2>7, <2>8, StillStep
<1> QED BY <1>6, <1>7

LEMMA EscapeStep ==
  ASSUME NEW F, Busy(F), Escape, ~strayed'
  PROVE  Working'
<1>1. /\ op = "EVAL" /\ op' = "return"
      /\ UNCHANGED <<envir, files, handlers, n, what, inport, chosen>>
  BY DEF Escape, Program, portVars
<1>2. PICK x \in 1 .. Len(dump) :
        /\ dump' = SubSeq(dump, x + 1, Len(dump))
        /\ \A y \in 1 .. x : dump[y].op \notin {"T0LVL", "pop-handler", "exit"}
  BY DEF Escape
<1>3. /\ dump \in Seq(F) /\ handlers \in Seq(Seq(F)) /\ (\A g \in F : g.k \in Seq(F))
      /\ Len(dump) \in Nat /\ Len(files) \in Nat
      /\ Nested(dump) /\ Handled(handlers, dump) /\ PortsKept
      /\ Cardinality(Loads(dump)) = Len(files) - Level
      /\ what = "load" => InLoad
  BY DEF Busy, Working
<1>4. PICK e : e = dump'
  OBVIOUS
<1>5. e \in Seq(F) /\ Len(e) = Len(dump) - x /\ IsBase(e, dump) /\ Len(e) \in Nat
  <2>1. x \in 0 .. Len(dump)
    BY <1>3
  <2>2. e = SubSeq(dump, x + 1, Len(dump))
    BY <1>2, <1>4
  <2>3. dump \in Seq(F)
    BY <1>3
  <2>4. e \in Seq(F) /\ Len(e) = Len(dump) - x /\ IsBase(e, dump)
    BY ONLY <2>1, <2>2, <2>3, SuffixAt
  <2> QED BY <1>3, <2>1, <2>4
<1>6. ASSUME NEW g \in (Len(e) + 1) .. Len(dump)
      PROVE  At(dump, g).op \notin {"T0LVL", "pop-handler", "exit"}
  <2>1. Len(dump) - g + 1 \in 1 .. x
    BY <1>3, <1>5
  <2> QED BY <1>2, <2>1 DEF At
<1>7. CutBack(dump, e)
  BY <1>3, <1>5, <1>6, Cut
<1>8. \A h \in 1 .. Len(dump) : h \in 1 .. Len(e) \/ h \in (Len(e) + 1) .. Len(dump)
  BY <1>3, <1>5
<1>9. Caught(e) = Caught(dump)
  <2>1. \A h \in Caught(dump) : h \in 1 .. Len(e)
    BY <1>6, <1>8 DEF Caught
  <2> QED BY <1>7, <2>1 DEF CutBack
<1>10. Loads(e) = Loads(dump)
  <2>1. \A h \in Loads(dump) : h \in 1 .. Len(e)
    BY <1>6, <1>8 DEF Loads
  <2> QED BY <1>7, <2>1 DEF CutBack
<1>11. Handled(handlers', e)
  <2>1. Agree(dump, e)
    BY <1>3, <1>5, AgreeFacts
  <2> QED BY <1>1, <1>3, <1>5, <1>9, <2>1, HandledOn
<1>12. Cardinality(Loads(e)) = Len(files') - Level'
  <2>1. Level' = Level
    BY <1>1 DEF Level
  <2> QED BY <1>1, <1>3, <1>10, <2>1
<1>13. Calm(dump) /\ chosen' \in {inport', "any"}
  BY <1>1, <1>3, CalmPorts
<1>14. what = "load" => envir' \in {0, n} /\ Len(e) # 0
  <2> SUFFICES ASSUME what = "load"  PROVE envir' \in {0, n} /\ Len(e) # 0
    OBVIOUS
  <2>1. InLoad /\ Len(dump) > 0
    BY <1>3
  <2>2. 1 \in Loads(dump)
    BY <1>3, <2>1 DEF InLoad, Loads
  <2>3. 1 \in Loads(e)
    BY <1>10, <2>2
  <2> QED BY <1>1, <2>1, <2>3 DEF InLoad, Loads
<1> QED BY <1>1, <1>4, <1>5, <1>7, <1>11, <1>12, <1>13, <1>14, TakenOff

(* An evaluation begins with nothing on the dump.                          *)
LEMMA Begin ==
  ASSUME dump' = << >>, handlers' = << >>, Len(files') = Level',
         chosen' \in {inport', "any"}, op' # "idle",
         what' = "load" => op' = "T0LVL" /\ envir' = 0
  PROVE  Working'
<1>1. PICK e : e = dump' /\ e = << >>
  OBVIOUS
<1>2. Len(e) = 0 /\ 1 .. Len(e) = {}
  BY <1>1
<1>3. Nested(e) /\ Caught(e) = {} /\ Loads(e) = {} /\ ~OnTop(e, "T1LVL")
  BY <1>2 DEF Nested, Caught, Loads, OnTop
<1>4. Handled(handlers', e)
  <2>1. Len(handlers') = 0 /\ 1 .. Len(handlers') = {}
    OBVIOUS
  <2> QED BY <1>3, <2>1 DEF Handled
<1>5. Cardinality(Loads(e)) = Len(files') - Level'
  <2>1. Cardinality(Loads(e)) = 0
    BY <1>3, FS_EmptySet
  <2>2. PICK l \in {0, 1, 2} : l = Level'
    BY DEF Level
  <2>3. Len(files') = l
    BY <2>2
  <2>4. l - l = 0
    OBVIOUS
  <2> QED BY <2>1, <2>2, <2>3, <2>4
<1>6. PortsKept'
  <2>1. PortsKept' <=> /\ SetInportHidden(dump', op')
                       /\ ReadOnTop(dump', op')
                       /\ ~OnTop(dump', "T1LVL") => chosen' \in {inport', "any"}
                       /\ OnTop(dump', "T1LVL") /\ op' = "return" =>
                            chosen' \in {save_inport', "any"}
    BY DEF PortsKept
  <2>2. SetInportHidden(e, op') /\ ReadOnTop(e, op')
    BY <1>2 DEF SetInportHidden, ReadOnTop
  <2> QED BY <1>1, <1>3, <2>1, <2>2
<1>7. ASSUME what' = "load"  PROVE InLoad'
  <2>1. InLoad' <=>
          /\ \A h \in 1 .. Len(dump') : At(dump', h).own = n' /\ At(dump', h).envir \in {0, n'}
          /\ envir' \in {0, n'}
          /\ Len(dump') > 0 => At(dump', 1).op = "T0LVL" /\ At(dump', 1).envir = 0
          /\ Len(dump') = 0 => op' = "T0LVL" /\ envir' = 0
    BY DEF InLoad
  <2> QED BY <1>1, <1>2, <1>7, <2>1
<1> QED BY <1>1, <1>3, <1>4, <1>5, <1>6, <1>7 DEF Working

(* A step of an evaluation, whichever it is.                               *)
LEMMA BusyStep ==
  ASSUME NEW F, Busy(F), Next, Good'
  PROVE  IF op' = "idle" THEN AtRest' ELSE Working'
<1>1. /\ op # "idle" /\ (\A g \in F : g.k \in Seq(F)) /\ envir \in 0 .. n /\ n \in Nat
      /\ Len(files) \in Nat /\ dump \in Seq(F) /\ handlers \in Seq(Seq(F))
      /\ inport \in Ports /\ Len(files) > 0 /\ files \in Seq(-1 .. MaxForms)
  BY DEF Busy, RestTyped
<1>2. ~strayed'
  BY DEF Good
<1>3. << >> \in Seq(F) /\ n \in 0 .. n
  BY <1>1
<1>4. ASSUME NEW forms \in 0 .. MaxForms, scheme_load_named_file(forms)  PROVE FALSE
  BY <1>1, <1>4 DEF scheme_load_named_file
<1>5. ASSUME NEW forms \in 0 .. MaxForms, OP_LOAD(forms)
      PROVE  op' # "idle" /\ Working'
  <2>1. /\ op = "EVAL" /\ op' \in {"throw", "T0LVL"}
        /\ UNCHANGED <<dump, envir, handlers, n, what, chosen, inport>>
    BY <1>5 DEF OP_LOAD, Program, portVars
  <2>2. Len(files') = Len(files) + (IF op' = "T0LVL" THEN 1 ELSE 0)
    <3>1. CASE op' = "throw" /\ files' = files
      BY <1>1, <3>1
    <3>2. CASE op' = "T0LVL" /\ files' = <<forms>> \o files
      <4> DEFINE X == -1 .. MaxForms
      <4>1. forms \in X /\ files \in Seq(X)
        BY <1>1, SessionAssumption
      <4> HIDE DEF X
      <4>2. Len(<<forms>> \o files) = Len(files) + 1
        BY <4>1, Pieces
      <4> QED BY <3>2, <4>2
    <3> QED BY <1>5, <3>1, <3>2 DEF OP_LOAD
  <2> QED BY <2>1, <2>2, ProgramStep
<1>6. ASSUME NEW port \in Ports, OP_READ(port)
      PROVE  op' # "idle" /\ Working'
  <2>1. /\ op = "EVAL" /\ op' \in {"return", "throw"}
        /\ UNCHANGED <<envir, handlers, n, what>>
    BY <1>6 DEF OP_READ, Program
  <2>2. Len(files') = Len(files)
    <3>1. ReadForm \/ files' = files
      BY <1>6 DEF OP_READ
    <3>2. CASE files' = files
      BY <3>2
    <3>3. CASE ReadForm
      BY <1>1, <3>3, ReadFormTyped
    <3> QED BY <3>1, <3>2, <3>3
  <2>3. CASE dump' = dump
    <3>1. \/ UNCHANGED <<inport, chosen>>
          \/ chosen' = "any"
      BY <1>6, <2>3 DEF OP_READ
    <3>2. /\ Len(files') = Len(files) + (IF op' = "T0LVL" THEN 1 ELSE 0)
          /\ chosen' \in {chosen, inport', "any"}
          /\ inport' # inport => chosen' \in {inport', "any"}
      BY <1>1, <2>1, <2>2, <3>1
    <3> QED BY <2>1, <2>3, <3>2, ProgramStep
  <2>4. CASE dump' # dump
    <3> PICK f : f = [Frame("set-inport", << >>) EXCEPT !.port = inport]
      OBVIOUS
    <3>1. dump' = <<f>> \o dump /\ op' = "throw" /\ chosen' = "any"
      BY <1>6, <2>4 DEF OP_READ
    <3>2. f.op = "set-inport" /\ f.own = n /\ f.envir = envir /\ FrameIn(f, F)
      BY <1>1, <1>3 DEF Frame, FrameIn, FrameOps
    <3>3. handlers' = IF f.op = "pop-handler" THEN <<dump>> \o handlers ELSE handlers
      BY <2>1, <3>2
    <3> QED BY <2>1, <2>2, <3>1, <3>2, <3>3, PushStep
  <2> QED BY <2>3, <2>4
<1>7. ASSUME NEW port \in Ports, OP_SET_INPORT(port)
      PROVE  op' # "idle" /\ Working'
  <2>1. /\ op = "EVAL" /\ op' = "return"
        /\ UNCHANGED <<dump, envir, files, handlers, n, what>>
        /\ chosen' = inport'
    BY <1>7 DEF OP_SET_INPORT, Program
  <2>2. Len(files') = Len(files) + (IF op' = "T0LVL" THEN 1 ELSE 0)
    BY <1>1, <2>1
  <2> QED BY <2>1, <2>2, ProgramStep
<1>8. CASE scheme_eval
  BY <1>1, <1>8 DEF scheme_eval
<1>9. CASE s_return
  BY <1>9, ReturnStep
<1>10. CASE T0LVLend
  BY <1>10, EndStep
<1>11. CASE T0LVLread
  <2>1. op' # "idle"
    BY <1>11 DEF T0LVLread
  <2> QED BY <1>11, <2>1, ReadStep
<1>12. CASE EvalValue \/ ApplyClosure \/ Fails
  <2>1. /\ op = "EVAL" /\ op' \in {"EVAL", "return", "throw"}
        /\ UNCHANGED <<dump, files, handlers, n, what, inport, chosen>>
        /\ envir' \in {envir, n}
    BY <1>12 DEF EvalValue, ApplyClosure, Fails, Program, portVars
  <2>2. Len(files') = Len(files) + (IF op' = "T0LVL" THEN 1 ELSE 0)
    BY <1>1, <2>1
  <2> QED BY <2>1, <2>2, ProgramStep
<1>13. CASE EvalPart
  <2>1. /\ op = "EVAL" /\ s_save(<<"args">>)
        /\ UNCHANGED <<op, envir, files, handlers, n, what, portVars>>
    BY <1>13 DEF EvalPart, Program
  <2>2. PICK f : f = Frame("args", << >>)
    OBVIOUS
  <2>3. dump' = <<f>> \o dump
    BY <2>1, <2>2, SavedOne
  <2>4. f.op = "args" /\ f.own = n /\ f.envir = envir /\ FrameIn(f, F)
    BY <1>1, <1>3, <2>2 DEF Frame, FrameIn, FrameOps
  <2>5. handlers' = IF f.op = "pop-handler" THEN <<dump>> \o handlers ELSE handlers
    BY <2>1, <2>4
  <2>6. Len(files') = Len(files) /\ op' # "idle"
    BY <2>1
  <2> QED BY <2>1, <2>3, <2>4, <2>5, <2>6, PushStep
<1>14. CASE Catch
  <2>1. /\ op = "EVAL" /\ handlers' = <<dump>> \o handlers /\ envir' = n
        /\ UNCHANGED <<op, files, n, what, portVars>>
    BY <1>14 DEF Catch, Program
  <2>2. PICK f : f = [Frame("pop-handler", << >>) EXCEPT !.envir = n]
    OBVIOUS
  <2>3. dump' = <<f>> \o dump
    BY <1>14, <2>2 DEF Catch
  <2>4. f.op = "pop-handler" /\ f.own = n /\ f.envir = n /\ FrameIn(f, F)
    BY <1>1, <1>3, <2>2 DEF Frame, FrameIn, FrameOps
  <2>5. handlers' = IF f.op = "pop-handler" THEN <<dump>> \o handlers ELSE handlers
    BY <2>1, <2>4
  <2>6. Len(files') = Len(files) /\ op' # "idle"
    BY <2>1
  <2> QED BY <2>1, <2>3, <2>4, <2>5, <2>6, PushStep
<1>15. CASE throwHandled
  <2>1. op' # "idle"
    BY <1>15 DEF throwHandled
  <2> QED BY <1>2, <1>15, <2>1, HandleStep
<1>16. CASE throwUnhandled
  <2>1. op' = "idle" /\ handlers' = << >> /\ n' = n /\ ended' = Append(ended, "error")
    BY <1>16 DEF throwUnhandled, Return
  <2>2. ended'[n'] = "error" /\ n' > 0
    <3>1. RestTyped
      BY DEF Busy
    <3> QED BY <1>1, <2>1, <3>1, Over
  <2>3. n' # 0
    BY <1>1, <2>1, <2>2
  <2> QED BY <2>1, <2>2, <2>3 DEF AtRest
<1>17. CASE OP_QUIT
  BY <1>2, <1>17 DEF OP_QUIT
<1>18. CASE Escape
  <2>1. op' # "idle"
    BY <1>18 DEF Escape
  <2> QED BY <1>2, <1>18, <2>1, EscapeStep
<1> QED BY <1>4, <1>5, <1>6, <1>7, <1>8, <1>9, <1>10, <1>11, <1>12, <1>13, <1>14,
           <1>15, <1>16, <1>17, <1>18 DEF Next

(* A call from the event loop.                                             *)
LEMMA IdleStep ==
  ASSUME RestTyped, op = "idle", Good, AtRest, Next, Good'
  PROVE  op' # "idle" /\ Working'
<1>1. scheme_eval \/ \E forms \in 0 .. MaxForms : scheme_load_named_file(forms)
  BY DEF Next, OP_LOAD, OP_READ, OP_SET_INPORT, s_return, T0LVLend, T0LVLread, EvalValue,
         EvalPart, ApplyClosure, Catch, Fails, throwHandled, throwUnhandled, OP_QUIT, Escape,
         Program
<1>2. ASSUME NEW forms \in 0 .. MaxForms, scheme_load_named_file(forms)
      PROVE  op' # "idle" /\ Working'
  <2>1. /\ dump' = << >> /\ envir' = 0 /\ files' = <<forms>> /\ chosen' = inport'
        /\ op' = "T0LVL" /\ what' = "load" /\ handlers' = handlers
    BY <1>2 DEF scheme_load_named_file
  <2>2. handlers' = << >>
    BY <2>1 DEF AtRest
  <2>3. Len(files') = Level'
    BY <2>1 DEF Level
  <2>4. op' # "idle"
    BY <2>1
  <2> QED BY <2>1, <2>2, <2>3, <2>4, Begin
<1>3. CASE scheme_eval
  <2>1. /\ n > 0 /\ what' = "request" /\ op' = "EVAL"
        /\ UNCHANGED <<dump, envir, files, handlers, ended, inport, chosen>>
    BY <1>3 DEF scheme_eval, portVars
  <2>2. NoFailure
    BY <2>1 DEF Good, NoFailure
  <2>3. ended[n] = "value"
    <3>1. ended \in Seq({"value", "error", "quit"}) /\ Len(ended) = n /\ n \in Nat
      BY DEF RestTyped, Idle
    <3>2. n \in DOMAIN ended
      BY <2>1, <3>1
    <3> QED BY <2>2, <3>2 DEF NoFailure
  <2>4. handlers = << >> /\ dump = << >> /\ Len(files) = 1 /\ chosen \in {inport, "any"}
    BY <2>1, <2>3 DEF AtRest
  <2>5. Len(files') = Level'
    BY <2>1, <2>4 DEF Level
  <2>6. op' # "idle" /\ what' # "load"
    BY <2>1
  <2> QED BY <2>1, <2>4, <2>5, <2>6, Begin
<1> QED BY <1>1, <1>2, <1>3

(* What is promised after a step was promised before.                      *)
LEMMA GoodBefore ==
  ASSUME RestTyped, Next, Good'
  PROVE  Good
<1>1. ~strayed' /\ (what' = "load" \/ NoFailure')
  BY DEF Good
<1>2. ~strayed
  BY <1>1 DEF Next, scheme_load_named_file, scheme_eval, OP_LOAD, OP_READ, OP_SET_INPORT,
     s_return, T0LVLend, T0LVLread, EvalValue, EvalPart, ApplyClosure, Catch, Fails,
     throwHandled, throwUnhandled, OP_QUIT, Escape
<1>3. what' = "load" => what = "load"
  BY DEF Next, scheme_load_named_file, scheme_eval, OP_LOAD, OP_READ, OP_SET_INPORT,
     s_return, T0LVLend, T0LVLread, EvalValue, EvalPart, ApplyClosure, Catch, Fails,
     throwHandled, throwUnhandled, OP_QUIT, Escape
<1>4. \/ ended' = ended
      \/ /\ op # "idle" /\ n' = n
         /\ \E how \in {"value", "error", "quit"} : ended' = Append(ended, how)
  BY DEF Next, scheme_load_named_file, scheme_eval, OP_LOAD, OP_READ, OP_SET_INPORT,
     s_return, T0LVLend, T0LVLread, EvalValue, EvalPart, ApplyClosure, Catch, Fails,
     throwHandled, throwUnhandled, OP_QUIT, Escape, Program, Return
<1>5. NoFailure' => NoFailure
  <2>1. CASE ended' = ended
    BY <2>1 DEF NoFailure
  <2>2. CASE ended' # ended
    BY <1>4, <2>2, Over
  <2> QED BY <2>1, <2>2
<1> QED BY <1>1, <1>2, <1>3, <1>5 DEF Good

LEMMA StructuredStep ==
  ASSUME RestTyped, \E F : TypedBy(F), Structured, Next
  PROVE  Structured'
<1> SUFFICES ASSUME Good'  PROVE IF op' = "idle" THEN AtRest' ELSE Working'
  BY DEF Structured, Idle
<1>1. Good
  BY GoodBefore
<1>2. CASE op = "idle"
  <2>1. AtRest
    BY <1>1, <1>2 DEF Structured, Idle
  <2> QED BY <1>1, <1>2, <2>1, IdleStep
<1>3. CASE op # "idle"
  <2>1. PICK F : TypedBy(F)
    OBVIOUS
  <2>2. Busy(F)
    BY <1>1, <1>3, <2>1, BusyFacts
  <2> QED BY <2>2, BusyStep
<1> QED BY <1>2, <1>3

LEMMA InvInit == Init => SessionInv
<1> SUFFICES ASSUME Init  PROVE SessionInv
  OBVIOUS
<1>1. Structured
  BY DEF Init, Structured, AtRest, Idle
<1> QED BY <1>1, TypedInit DEF SessionInv

LEMMA InvStep == SessionInv /\ [Next]_vars => SessionInv'
<1>1. ASSUME SessionInv, Next  PROVE SessionInv'
  <2>1. Typed /\ Structured /\ RestTyped /\ \E F : TypedBy(F)
    BY <1>1, TypedIs DEF SessionInv
  <2>2. Typed'
    BY <1>1, <2>1, TypedStep
  <2>3. Structured'
    BY <1>1, <2>1, StructuredStep
  <2> QED BY <2>2, <2>3 DEF SessionInv
<1>2. ASSUME SessionInv, UNCHANGED vars  PROVE SessionInv'
  <2>1. Typed'
    BY <1>2, TypedStep DEF SessionInv
  <2>2. Structured'
    BY <1>2 DEF vars, portVars, SessionInv, Structured, Good, NoFailure, Idle, AtRest, Working,
       PortsKept, InLoad, Level
  <2> QED BY <2>1, <2>2 DEF SessionInv
<1> QED BY <1>1, <1>2

(* Whatever the programs do, as long as none leaves the body of a catch or *)
(* a file in another way than by its end, the dump, the handlers and the   *)
(* load stack stay in step with each other.                                *)
THEOREM SessionInvariant == Spec => []SessionInv
BY InvInit, InvStep, PTL DEF Spec

---------------------------------------------------------------------------
(* What follows.                                                           *)

(* scheme_load_named_file resets the dump and the environment: each frame  *)
(* that a load goes on with is its own, and no environment of an earlier   *)
(* evaluation is seen in it, even if that one ended in an error.           *)
THEOREM LoadIsolatedTheorem == Spec => []LoadIsolated
<1>1. SessionInv => LoadIsolated
  <2> SUFFICES ASSUME SessionInv, what = "load", op # "idle", ~strayed
               PROVE  Own(dump) /\ envir \in {0, n}
    BY DEF LoadIsolated, Idle
  <2>1. InLoad /\ \E F : TypedBy(F)
    BY DEF SessionInv, Typed, Structured, Good, Idle, Working
  <2>2. PICK F : dump \in Seq(F)
    BY <2>1 DEF TypedBy
  <2>3. ASSUME NEW x \in DOMAIN dump  PROVE dump[x].own = n
    <3>1. x \in 1 .. Len(dump) /\ Len(dump) \in Nat
      BY <2>2
    <3>2. dump[x] = At(dump, Len(dump) - x + 1)
      BY <2>2, <3>1, AtIn
    <3>3. Len(dump) - x + 1 \in 1 .. Len(dump)
      BY <3>1
    <3> QED BY <2>1, <3>2, <3>3 DEF InLoad
  <2> QED BY <2>1, <2>3 DEF Own, InLoad
<1> QED BY <1>1, SessionInvariant, PTL

(* The load stack and the dump agree: each file above the outermost was    *)
(* begun by OP_LOAD on the top level below it, which waits on the dump and *)
(* is come back to at the end of the file.                                 *)
THEOREM LoadsMatchTheorem == Spec => []LoadsMatch
<1>1. SessionInv => LoadsMatch
  <2> SUFFICES ASSUME SessionInv, what = "load", op # "idle", ~strayed
               PROVE  Count(dump, "T0LVL") = Len(files) - (IF op = "T0LVL" THEN 1 ELSE 0)
    BY DEF LoadsMatch, Idle
  <2>1. Working /\ \E F : TypedBy(F)
    BY DEF SessionInv, Typed, Structured, Good, Idle
  <2>2. PICK F : dump \in Seq(F)
    BY <2>1 DEF TypedBy
  <2>3. Cardinality(Loads(dump)) = Len(files) - Level
    BY <2>1 DEF Working
  <2>4. Level = IF op = "T0LVL" THEN 1 ELSE 0
    BY DEF Level
  <2>5. Count(dump, "T0LVL") = Cardinality(Loads(dump))
    BY <2>2, CountIs
  <2> QED BY <2>3, <2>4, <2>5
<1> QED BY <1>1, SessionInvariant, PTL

(* catch pushes a handler and the end of its body pops one; throw pops the *)
(* one it calls.  So *handlers* always has the continuation of each catch  *)
(* whose body is being evaluated, innermost first, and no other.           *)
THEOREM HandlersMatchTheorem == Spec => []HandlersMatch
<1>1. SessionInv => HandlersMatch
  <2> SUFFICES ASSUME SessionInv, NoFailure, ~strayed
               PROVE  /\ {handlers[x] : x \in DOMAIN handlers} = Catches(dump)
                      /\ \A x, y \in DOMAIN handlers :
                           x < y => Len(handlers[x]) > Len(handlers[y])
    BY DEF HandlersMatch
  <2>1. /\ RestTyped /\ IF op = "idle" THEN AtRest ELSE Working
    BY TypedIs DEF SessionInv, Structured, Good, Idle
  <2>2. PICK F : TypedBy(F)
    BY DEF SessionInv, Typed
  <2>3. dump \in Seq(F) /\ handlers \in Seq(Seq(F)) /\ \A g \in F : g.k \in Seq(F)
    BY <2>2 DEF TypedBy, Closed, FrameIn
  <2>4. Handled(handlers, dump)
    <3>1. CASE op = "idle"
      <4>1. AtRest /\ ended \in Seq({"value", "error", "quit"}) /\ Len(ended) = n /\ n \in Nat
        BY <2>1, <3>1 DEF RestTyped, Idle
      <4>2. n > 0 => ended[n] = "value"
        <5>1. n > 0 => n \in DOMAIN ended
          BY <4>1
        <5> QED BY <5>1 DEF NoFailure
      <4>3. dump = << >> /\ handlers = << >>
        BY <4>1, <4>2 DEF AtRest
      <4>4. Len(dump) = 0 /\ Len(handlers) = 0 /\ 1 .. 0 = {}
        BY <4>3
      <4>5. Caught(dump) = {}
        BY <4>4 DEF Caught
      <4> QED BY <4>4, <4>5 DEF Handled
    <3>2. CASE op # "idle"
      BY <2>1, <3>2 DEF Working
    <3> QED BY <3>1, <3>2
  <2> QED BY <2>3, <2>4, Matching
<1> QED BY <1>1, SessionInvariant, PTL

(* When Eval_Cycle returns to the event loop, and no evaluation has failed *)
(* so far, the next request finds the dump, *handlers*, the load stack and *)
(* the current port as a new interpreter has them.                         *)
THEOREM CleanFinishTheorem == Spec => []CleanFinish
<1>1. SessionInv => CleanFinish
  <2> SUFFICES ASSUME SessionInv, op = "idle", n > 0, NoFailure, ~strayed
               PROVE  /\ dump = << >> /\ handlers = << >> /\ file_i = 0
                      /\ chosen \in {inport, "any"}
                      /\ what = "load" => envir = 0
    BY DEF CleanFinish, Idle
  <2>1. RestTyped /\ AtRest
    BY TypedIs DEF SessionInv, Structured, Good, Idle
  <2>2. ended[n] = "value"
    <3>1. ended \in Seq({"value", "error", "quit"}) /\ Len(ended) = n /\ n \in Nat
      BY <2>1 DEF RestTyped, Idle
    <3>2. n \in DOMAIN ended
      BY <3>1
    <3> QED BY <3>2 DEF NoFailure
  <2>3. /\ handlers = << >> /\ dump = << >> /\ Len(files) = 1 /\ chosen \in {inport, "any"}
        /\ what = "load" => envir = 0
    BY <2>1, <2>2 DEF AtRest
  <2> QED BY <2>3 DEF file_i
<1> QED BY <1>1, SessionInvariant, PTL

(* OP_T0LVL returns to C only at the end of the outermost file: a load     *)
(* that ends with a value has read its file to the end.                    *)
THEOREM LoadReadsAllTheorem == Spec => []LoadReadsAll
<1>1. SessionInv => LoadReadsAll
  BY DEF SessionInv, Structured, Good, LoadReadsAll, Idle, AtRest
<1> QED BY <1>1, SessionInvariant, PTL

=============================================================================
