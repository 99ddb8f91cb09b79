------------------------------- MODULE Meaning -------------------------------
(***************************************************************************)
(* What an expression of the language means, without registers, dump or    *)
(* cells: the abstract specification of Evaluator.  An expression is a     *)
(* tree.  Its meaning is a value and a store, found by recursion over the  *)
(* tree.  Forms other than the basic ones are reduced to those.            *)
(*                                                                         *)
(* A continuation can be used to leave an expression that is still being   *)
(* evaluated.  What happens when one is entered a second time has no       *)
(* meaning here.                                                           *)
(***************************************************************************)
EXTENDS Integers, Sequences, TLC

Num(n)  == [t |-> "num", n |-> n]
Sym(s)  == [t |-> "sym", s |-> s]
Lst(l)  == [t |-> "list", l |-> l]
False   == [t |-> "false"]
True    == [t |-> "true"]
Empty   == [t |-> "nil"]

(* Forms.                                                                  *)
Quote(e)         == Lst(<<Sym("quote"), e>>)
Lambda(ps, body) == Lst(<<Sym("lambda"), Lst(ps)>> \o body)
If(a, b, c)      == Lst(<<Sym("if"), a, b, c>>)
Let(v, e, body)  == Lst(<<Sym("let"), Lst(<<Lst(<<v, e>>)>>), body>>)
Begin(es)        == Lst(<<Sym("begin")>> \o es)
Def(v, e)        == Lst(<<Sym("define"), v, e>>)
Set(v, e)        == Lst(<<Sym("set!"), v, e>>)

Heads(bindings) == [i \in DOMAIN bindings |-> bindings[i].l[1]]
Inits(bindings) == [i \in DOMAIN bindings |-> bindings[i].l[2]]

From(s, i) == SubSeq(s, i, Len(s))

(* The form that a derived one is short for.                               *)
Derive(l) ==
  LET h == l[1].s
      bindings == l[2].l
      body == From(l, 3)
  IN CASE h = "let" /\ l[2].t = "list" ->
            Lst(<<Lambda(Heads(bindings), body)>> \o Inits(bindings))
       [] h = "let" /\ l[2].t = "sym" ->
            Lst(<<Lst(<<Sym("letrec"),
                        Lst(<<Lst(<<l[2], Lambda(Heads(l[3].l), From(l, 4))>>)>>),
                        l[2]>>)>> \o Inits(l[3].l))
       [] h = "define" ->
            Def(bindings[1], Lambda(Tail(bindings), body))
       [] h = "let*" ->
            IF bindings = << >> THEN Lst(<<Lambda(<< >>, body)>>)
            ELSE Let(bindings[1].l[1], bindings[1].l[2],
                     Lst(<<Sym("let*"), Lst(Tail(bindings))>> \o body))
       [] h = "letrec" ->
            Lst(<<Lambda(<< >>, [i \in DOMAIN bindings |->
                                   Def(bindings[i].l[1], bindings[i].l[2])] \o body)>>)
       [] h = "and" ->
            CASE Len(l) = 1 -> True
              [] Len(l) = 2 -> l[2]
              [] OTHER -> If(l[2], Lst(<<l[1]>> \o From(l, 3)), False)
       [] h = "or" ->
            CASE Len(l) = 1 -> False
              [] Len(l) = 2 -> l[2]
              [] OTHER -> Let(Sym(" or"), l[2],
                              If(Sym(" or"), Sym(" or"), Lst(<<l[1]>> \o From(l, 3))))
       [] h = "cond" ->
            IF Len(l) = 1 THEN Quote(Empty)
            ELSE LET clause == l[2].l
                     others == Lst(<<l[1]>> \o From(l, 3))
                 IN CASE Len(clause) = 1 -> Lst(<<Sym("or"), clause[1], others>>)
                      [] Len(clause) > 1 /\ clause[2] = Sym("=>") ->
                           Let(Sym(" cond"), clause[1],
                               If(Sym(" cond"), Lst(<<clause[3], Sym(" cond")>>), others))
                      [] OTHER -> If(clause[1], Begin(From(clause, 2)), others)
       [] h = "cons-stream" ->
            Lst(<<Sym("cons"), l[2], Lst(<<Sym("delay"), l[3]>>)>>)

IsDerived(l) ==
  /\ l # << >> /\ l[1].t = "sym"
  /\ \/ l[1].s = "define" /\ l[2].t = "list"
     \/ l[1].s \in {"let", "let*", "letrec", "and", "or", "cond", "cons-stream"}

(* What a quoted tree stands for, and back.                                *)
RECURSIVE Datum(_)
Datum(e) ==
  IF e.t # "list" THEN e
  ELSE IF e.l = << >> THEN Empty
  ELSE [t |-> "pair", a |-> Datum(Head(e.l)), d |-> Datum(Lst(Tail(e.l)))]

RECURSIVE Items(_)
Items(v) == IF v.t = "pair" THEN <<v.a>> \o Items(v.d) ELSE << >>

RECURSIVE Tree(_)
Tree(v) == IF v.t \notin {"pair", "nil"} THEN v
           ELSE Lst([i \in DOMAIN Items(v) |-> Tree(Items(v)[i])])

---------------------------------------------------------------------------
(* The store: frames of variables, promises, and the continuations that    *)
(* may still be used to leave.                                             *)

Got(v, st) == [v |-> v, st |-> st]

Abrupt(r) == r.v.t \in {"error", "exit"}

RECURSIVE FrameOf(_, _, _)
FrameOf(s, env, st) ==
  IF env = 0 \/ s \in DOMAIN st.frames[env].vars THEN env
  ELSE FrameOf(s, st.frames[env].up, st)

Bound(s, env, st) == FrameOf(s, env, st) # 0
LookUp(s, env, st) == st.frames[FrameOf(s, env, st)].vars[s]
Put(s, v, env, st) == [st EXCEPT !.frames[env].vars = (s :> v) @@ @]

RECURSIVE Ev(_, _, _), App(_, _, _, _), Operands(_, _, _, _), Body(_, _, _)

(* What has failed comes to what the hook makes of it, if there is one.    *)
Fail(env, st) == Got([t |-> "failed", env |-> env], st)

Hooked(r) ==
  IF r.v.t # "failed" THEN r
  ELSE IF Bound("*error-hook*", r.v.env, r.st)
  THEN App(LookUp("*error-hook*", r.v.env, r.st), << >>, r.v.env, r.st)
  ELSE Got([t |-> "error"], r.st)

Body(es, env, st) ==
  IF Len(es) = 1 THEN Ev(es[1], env, st)
  ELSE LET r == Ev(es[1], env, st)
       IN IF Abrupt(r) THEN r ELSE Body(Tail(es), env, r.st)

(* Values of expressions, from left to right, after the values vs.         *)
Operands(es, vs, env, st) ==
  IF es = << >> THEN App(Head(vs), Tail(vs), env, st)
  ELSE LET r == Ev(Head(es), env, st)
       IN IF Abrupt(r) THEN r ELSE Operands(Tail(es), Append(vs, r.v), env, r.st)

Closure(ps, body, env) == [t |-> "closure", ps |-> ps, body |-> body, env |-> env]

Assign(r, s, env, defining) ==
  CASE Abrupt(r) -> r
    [] ~Abrupt(r) /\ defining -> Got(Sym(s), Put(s, r.v, env, r.st))
    [] ~Abrupt(r) /\ ~defining /\ Bound(s, env, r.st) ->
         Got(r.v, Put(s, r.v, FrameOf(s, env, r.st), r.st))
    [] OTHER -> Fail(env, r.st)

(* The clause of a case that a key selects, 0 if none does.                *)
Selected(key, clauses) ==
  LET Takes(i) == clauses[i].l[1].t # "list" \/
                  \E j \in DOMAIN clauses[i].l[1].l : clauses[i].l[1].l[j] = key
      takers == {i \in DOMAIN clauses : Takes(i)}
  IN IF takers = {} THEN 0 ELSE CHOOSE i \in takers : \A j \in takers : i <= j

Form(e, env, st) ==
  LET l == e.l
      h == IF l # << >> /\ l[1].t = "sym" THEN l[1].s ELSE ""
  IN CASE e.t = "sym" -> IF Bound(e.s, env, st) THEN Got(LookUp(e.s, env, st), st)
                         ELSE Fail(env, st)
       [] e.t \notin {"sym", "list"} -> Got(e, st)
       [] e = Lst(<< >>) -> Got(Empty, st)
       [] e.t = "list" /\ h = "quote" -> Got(Datum(l[2]), st)
       [] e.t = "list" /\ h = "lambda" -> Got(Closure(l[2], From(l, 3), env), st)
       [] e.t = "list" /\ h = "begin" -> Body(Tail(l), env, st)
       [] e.t = "list" /\ ~IsDerived(l) /\ h \in {"define", "set!"} ->
            Assign(Ev(l[3], env, st), l[2].s, env, h = "define")
       [] e.t = "list" /\ h = "if" ->
            LET r == Ev(l[2], env, st)
            IN IF Abrupt(r) THEN r
               ELSE Ev(CASE r.v # False -> l[3]
                         [] r.v = False /\ Len(l) = 4 -> l[4]
                         [] OTHER -> Lst(<< >>), env, r.st)
       [] e.t = "list" /\ h = "case" ->
            LET r == Ev(l[2], env, st)
                i == Selected(r.v, From(l, 3))
            IN CASE Abrupt(r) -> r
                 [] ~Abrupt(r) /\ i = 0 -> Got(Empty, r.st)
                 [] OTHER -> Body(Tail(l[i + 2].l), env, r.st)
       [] e.t = "list" /\ h = "delay" ->
            Got([t |-> "promise", id |-> Len(st.promises) + 1],
                [st EXCEPT !.promises =
                   Append(@, [done |-> FALSE, v |-> Empty,
                              thunk |-> Closure(Lst(<< >>), Tail(l), env)])])
       [] e.t = "list" /\ IsDerived(l) -> Ev(Derive(l), env, st)
       [] OTHER -> Operands(l, << >>, env, st)

Ev(e, env, st) == Hooked(Form(e, env, st))

(* A list of parameters ends in ". rest" or takes what it needs.           *)
RestOf(ps) == IF Len(ps) > 1 /\ ps[Len(ps) - 1] = Sym(".") THEN ps[Len(ps)].s ELSE ""

RECURSIVE ToList(_)
ToList(vs) == IF vs = << >> THEN Empty
              ELSE [t |-> "pair", a |-> Head(vs), d |-> ToList(Tail(vs))]

Enter(f, vs, env, st) ==
  LET all == f.ps.t = "sym"
      rest == IF all THEN f.ps.s ELSE RestOf(f.ps.l)
      fixed == CASE all -> << >>
                 [] ~all /\ rest # "" -> SubSeq(f.ps.l, 1, Len(f.ps.l) - 2)
                 [] OTHER -> f.ps.l
      names == {fixed[i].s : i \in DOMAIN fixed}
      vars == [s \in names |-> vs[CHOOSE i \in DOMAIN fixed : fixed[i].s = s]]
      frame == IF rest = "" THEN vars
               ELSE (rest :> ToList(From(vs, Len(fixed) + 1))) @@ vars
  IN IF Len(vs) < Len(fixed) THEN Fail(f.env, st)
     ELSE Body(f.body, Len(st.frames) + 1,
               [st EXCEPT !.frames = Append(@, [vars |-> frame, up |-> f.env])])

Bool(c) == IF c THEN True ELSE False

Application(f, vs, env, st) ==
  LET p == f.s
      all == Tail(SubSeq(vs, 1, Len(vs) - 1)) \o Items(vs[Len(vs)])
  IN CASE p \in {"car", "cdr"} ->
            IF vs[1].t # "pair" THEN Fail(env, st)
            ELSE Got(IF p = "car" THEN vs[1].a ELSE vs[1].d, st)
       [] p = "cons" -> Got([t |-> "pair", a |-> vs[1], d |-> vs[2]], st)
       [] p = "eq?" -> Got(Bool(vs[1] = vs[2]), st)
       [] p = "null?" -> Got(Bool(vs[1] = Empty), st)
       [] p \in {"+", "="} ->
            IF \E i \in DOMAIN vs : vs[i].t # "num" THEN Fail(env, st)
            ELSE IF p = "=" THEN Got(Bool(vs[1].n = vs[2].n), st)
            ELSE Got(Num(IF Len(vs) = 1 THEN vs[1].n ELSE vs[1].n + vs[2].n), st)
       [] p = "apply" -> App(vs[1], IF Len(vs) = 1 THEN << >> ELSE all, env, st)
       [] p = "eval" -> Ev(Tree(vs[1]), env, st)
       [] p = "force" ->
            IF vs[1].t # "promise" THEN Got(vs[1], st)
            ELSE LET mine == st.promises[vs[1].id]
                     r == App(mine.thunk, << >>, env, st)
                 IN CASE mine.done -> Got(mine.v, st)
                      [] ~mine.done /\ Abrupt(r) -> r
                      [] OTHER -> Got(r.v, [r.st EXCEPT !.promises[vs[1].id].done = TRUE,
                                                        !.promises[vs[1].id].v = r.v])
       [] p = "call/cc" ->
            LET id == st.next
                r == App(vs[1], <<[t |-> "cont", id |-> id]>>, env,
                         [st EXCEPT !.next = id + 1, !.live = @ \cup {id}])
                after == [r.st EXCEPT !.live = @ \ {id}]
            IN IF r.v.t = "exit" /\ r.v.id = id THEN Got(r.v.v, after) ELSE Got(r.v, after)

Apply(f, vs, env, st) ==
  CASE f.t = "closure" -> Enter(f, vs, env, st)
    [] f.t = "prim" -> Application(f, vs, env, st)
    [] f.t = "cont" /\ f.id \in st.live ->
         Got([t |-> "exit", id |-> f.id, v |-> IF vs = << >> THEN Empty ELSE vs[1]], st)
    [] OTHER -> Fail(env, st)

App(f, vs, env, st) == Hooked(Apply(f, vs, env, st))
==============================================================================
