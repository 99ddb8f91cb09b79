----------------------------- MODULE MCEvaluator -----------------------------
(* Programs for the evaluator: trees, what the reader makes of them, and   *)
(* the comparison of what Evaluator computes with what Meaning says.       *)
EXTENDS Evaluator, TLC

L == INSTANCE Meaning

---------------------------------------------------------------------------
(* Memory after scheme_init: the cells that Evaluator names, the other     *)
(* symbols, and the global environment.                                    *)

Keywords == <<<<"define", "DEF0">>, <<"set!", "SET0">>, <<"begin", "BEGIN">>,
  <<"if", "IF0">>, <<"let", "LET0">>, <<"let*", "LET0AST">>, <<"letrec", "LET0REC">>,
  <<"cond", "COND0">>, <<"delay", "DELAY">>, <<"and", "AND0">>, <<"or", "OR0">>,
  <<"cons-stream", "C0STREAM">>, <<"macro", "MACRO0">>, <<"case", "CASE0">>>>

Globals == <<<<"eval", "PEVAL">>, <<"apply", "PAPPLY">>, <<"call/cc", "CONTINUATION">>,
  <<"force", "FORCE">>, <<"make-closure", "MKCLOSURE">>, <<"defined?", "DEFP">>,
  <<"car", "CAR">>, <<"cdr", "CDR">>, <<"cons", "CONS">>, <<"eq?", "EQ">>,
  <<"null?", "NULLP">>, <<"+", "ADD">>, <<"=", "NUMEQ">>,
  <<"current-environment", "CURR_ENV">>>>

Variables == <<"x", "y", "f", "k", "n", "v", "r", "p", "m", "a", "thunk", "result">>

BeforeKeywords == message
BeforeGlobals == BeforeKeywords + Len(Keywords)
BeforeVariables == BeforeGlobals + Len(Globals)

Names == ("quote" :> QUOTE) @@ ("lambda" :> LAMBDA_) @@ ("=>" :> FEED_TO)
  @@ ("*error-hook*" :> ERROR_HOOK) @@ ("*compile-hook*" :> COMPILE_HOOK)

Position(s, list) == CHOOSE i \in DOMAIN list : list[i] = s

Heads(list) == [i \in DOMAIN list |-> list[i][1]]

symbol(s) ==
  CASE s \in DOMAIN Names -> Names[s]
    [] \E i \in DOMAIN Keywords : Keywords[i][1] = s ->
         BeforeKeywords + Position(s, Heads(Keywords))
    [] \E i \in DOMAIN Globals : Globals[i][1] = s ->
         BeforeGlobals + Position(s, Heads(Globals))
    [] OTHER -> BeforeVariables + Position(s, Variables)

(* The global variables are the procedures, and x, which is 3.             *)
Base ==
  LET globals == [i \in DOMAIN Globals |-> Cell(Globals[i][2], NIL, NIL)]
                 \o <<Cell("number", 3, NIL)>>
      n == Len(globals)
      values == BeforeVariables + Len(Variables)
      named_cells ==
        <<Cell("nil", NIL, NIL), Cell("true", T, T), Cell("false", F, F),
          Cell("env", values + 2 * n + 1, NIL), Cell("QUOTE", NIL, NIL),
          Cell("LAMBDA", NIL, NIL)>>
        \o [i \in 1 .. 3 |-> Cell("symbol", NIL, NIL)] \o <<Cell("string", NIL, NIL)>>
      symbols ==
        [i \in DOMAIN Keywords |-> Cell(Keywords[i][2], NIL, NIL)]
        \o [i \in 1 .. Len(Globals) + Len(Variables) |-> Cell("symbol", NIL, NIL)]
      slots == [i \in 1 .. n |-> Cell("pair", IF i = n THEN symbol("x")
                                             ELSE BeforeGlobals + i, values + i)]
      frame == [i \in 1 .. n |-> Cell("pair", values + n + i,
                                     IF i = n THEN NIL ELSE values + 2 * n + i + 1)]
  IN named_cells \o symbols \o globals \o slots \o frame

(* What the reader makes of a tree: cells after the first n, and the place *)
(* of the tree.                                                            *)
RECURSIVE Read(_, _)
Read(n, e) ==
  CASE e.t = "sym"   -> [m |-> << >>, p |-> symbol(e.s)]
    [] e.t = "num"   -> [m |-> <<Cell("number", e.n, NIL)>>, p |-> n + 1]
    [] e.t = "false" -> [m |-> << >>, p |-> F]
    [] e.t = "true"  -> [m |-> << >>, p |-> T]
    [] OTHER -> CASE e.l = << >> -> [m |-> << >>, p |-> NIL]
                  [] Head(e.l) = L!Sym(".") -> Read(n, e.l[2])
                  [] OTHER -> LET d == Read(n, L!Lst(Tail(e.l)))
                                  a == Read(n + Len(d.m), Head(e.l))
                                  m == d.m \o a.m \o <<Cell("pair", a.p, d.p)>>
                              IN [m |-> m, p |-> n + Len(m)]

(* A program, what it means, and how many frames it needs at most.         *)
Program(tree, means, frames) ==
  LET read == Read(Len(Base), tree)
  IN [cells |-> Base \o read.m, code |-> read.p,
      expected |-> [means |-> means, frames |-> frames]]

AnyDepth == 1000
Plain(trees) == { Program(e, e, AnyDepth) : e \in trees }

---------------------------------------------------------------------------
(* Trees.                                                                  *)
S(s) == L!Sym(s)
N(i) == L!Num(i)
Q(e) == L!Quote(e)
A(l) == L!Lst(l)
Bind(v, e) == A(<<S(v), e>>)
Let(v, e, b) == L!Let(S(v), e, b)
Lam(ps, b) == L!Lambda([i \in DOMAIN ps |-> S(ps[i])], <<b>>)
If(a, b, c) == L!If(a, b, c)
Begin(es) == L!Begin(es)
Def(v, e) == L!Def(S(v), e)
Set(v, e) == L!Set(S(v), e)
Form(h, es) == A(<<S(h)>> \o es)
CallCC(b) == Form("call/cc", <<Lam(<<"k">>, b)>>)

Atoms == {N(1), L!False, S("x")}

(* Pairs of them in which each comes first, and each but 1 second.         *)
Couples == {<<N(1), S("x")>>, <<L!False, S("x")>>, <<S("x"), L!False>>}

(* Expressions one form deep.                                              *)
Small ==
  Atoms
  \cup { Form(h, c) : h \in {"+", "cons", "and", "or", "begin"}, c \in Couples }
  \cup { Let("x", c[1], c[2]) : c \in Couples }
  \cup { A(<<Lam(<<"y">>, Begin(<<Set("x", c[1]), S("y")>>)), c[2]>>) : c \in Couples }
  \cup { If(c[1], c[2], S("x")) : c \in Couples }
  \cup { Form("k", <<a>>) : a \in Atoms }
  \cup { Form("+", <<N(1), Form("k", <<a>>)>>) : a \in Atoms }
  \cup { Def("x", a) : a \in Atoms } \cup { Set("x", a) : a \in Atoms }
  \cup { Lam(<< >>, S("x")), S("y"), S("if"), Set("y", N(1)), Q(A(<<S("a"), N(1)>>)),
         Form("car", <<N(1)>>), Form("x", << >>), Form("or", << >>), Form("and", << >>),
         A(<<Lam(<<"x", "y">>, S("x")), N(1)>>), Form("delay", <<S("x")>>) }

(* Forms with a hole.                                                      *)
Around(h) ==
  { h,
    Let("x", h, Form("cons", <<S("x"), S("x")>>)),
    Let("x", N(1), Form("cons", <<h, S("x")>>)),
    A(<<Lam(<<"x", "y">>, Form("cons", <<S("y"), S("x")>>)), h, S("x")>>),
    Form("cons", <<S("x"), Form("cons", <<h, S("x")>>)>>),
    A(<<Lam(<<"v">>, Begin(<<h, S("x")>>)), N(1)>>),
    A(<<Lam(<< >>, Begin(<<Def("x", h), S("x")>>))>>),
    A(<<L!Lambda(<<S("v"), S("."), S("r")>>, <<h, S("r")>>), N(1), S("x"), N(2)>>),
    A(<<L!Lst(<<S("lambda"), S("r"), Form("cons", <<h, S("r")>>)>>), S("x")>>),
    CallCC(h),
    Form("cons", <<S("x"), CallCC(Form("cons", <<N(1), h>>))>>),
    CallCC(Let("v", h, Form("k", <<Form("cons", <<S("v"), N(1)>>)>>))),
    A(<<S("let"), S("f"), A(<<Bind("n", N(0))>>),
        If(Form("=", <<S("n"), N(2)>>), h,
           Form("f", <<Form("+", <<S("n"), N(1)>>)>>))>>),
    A(<<S("letrec"), A(<<Bind("f", Lam(<<"n">>, If(S("n"), Form("f", <<L!False>>), h)))>>),
        Form("f", <<N(1)>>)>>),
    A(<<S("let*"), A(<<Bind("v", h), Bind("y", S("v"))>>),
        Form("cons", <<S("x"), S("y")>>)>>),
    A(<<S("let*"), A(<< >>), Def("y", h), S("y")>>),
    Form("cond", <<A(<<L!False, S("x")>>), A(<<h, S("=>"), Lam(<<"v">>, S("v"))>>),
                   A(<<L!True, Q(S("a"))>>)>>),
    Form("cond", <<A(<<h>>), A(<<S("x"), N(1), S("x")>>)>>),
    Form("case", <<h, A(<<A(<<N(4), N(1)>>), S("x")>>), A(<<A(<<S("a")>>), N(7)>>),
                   A(<<L!True, S("x")>>)>>),
    Form("force", <<Form("delay", <<h>>)>>),
    Let("p", Form("delay", <<Begin(<<Set("x", Form("+", <<S("x"), N(1)>>)),
                                     Form("cons", <<h, N(1)>>)>>)>>),
        Form("cons", <<Form("force", <<S("p")>>),
                       Form("cons", <<Form("force", <<S("p")>>), S("x")>>)>>)),
    Form("car", <<Form("cons-stream", <<h, S("y")>>)>>),
    Form("apply", <<S("+"), S("x"), Form("cons", <<h, Q(A(<< >>))>>)>>),
    Form("eval", <<Q(h)>>),
    Form("cons", <<Form("eq?", <<h, Q(S("a"))>>), Form("null?", <<Form("cdr", <<h>>)>>)>>),
    Begin(<<Def("*error-hook*", A(<<S("lambda"), S("r"), N(5)>>)),
            Form("cons", <<h, S("x")>>)>>),
    Begin(<<Def("*compile-hook*", Lam(<<"v">>, S("v"))),
            A(<<Lam(<<"v">>, Form("cons", <<S("v"), h>>)), S("x")>>)>>),
    Begin(<<A(<<S("define"), A(<<S("f"), S("x"), S("y")>>), h, S("y")>>),
            Form("f", <<N(1), S("x")>>)>>) }

FormPrograms == Plain(UNION { Around(h) : h \in Small })

(* Forms within forms: around a use of k, an error and an assignment.      *)
NestedPrograms ==
  Plain(UNION { Around(h) : h \in UNION { Around(s) :
    s \in {Form("k", <<S("x")>>), Form("car", <<N(1)>>), Set("x", N(1))} } })

(* Errors in the form of a program.                                        *)
Malformed ==
  { Form("let", <<A(<<A(<<S("y")>>)>>), N(1)>>),
    Form("let*", <<A(<<S("y")>>), N(1)>>),
    Form("letrec", <<A(<<S("y")>>), N(1)>>),
    Form("let", <<S("f"), A(<<A(<<S("v"), N(0), S("."), N(1)>>)>>), N(1)>>),
    Form("cond", << >>), Form("cond", <<A(<<N(1), S("=>")>>)>>),
    Form("define", <<N(1), N(2)>>), A(<<Form("lambda", <<N(1), N(2)>>)>>) }

(* Macros, eval in an environment and the like, with what they come to.    *)
OtherPrograms ==
  { Program(Begin(<<A(<<S("macro"), A(<<S("m"), S("f")>>),
                        Form("cons", <<Q(S("let")), Form("cdr", <<S("f")>>)>>)>>),
                    A(<<S("m"), A(<<Bind("y", e)>>), S("y")>>)>>), e, AnyDepth) : e \in Small }
  \cup { Program(Begin(<<Form("macro", <<S("m"), Lam(<<"f">>, Q(e))>>), Form("m", <<S("y")>>)>>),
                 e, AnyDepth) : e \in Small }
  \cup { Program(Form("eval", <<Q(S("v")), A(<<Lam(<<"v">>, Form("current-environment", << >>)), e>>)>>),
                 e, AnyDepth) : e \in Atoms }
  \cup { Program(A(<<Form("make-closure", <<Q(A(<<S("lambda"), A(<<S("v")>>), S("v")>>))>>), e>>),
                 e, AnyDepth) : e \in Atoms }
  \cup { Program(A(<<Lam(<<"if">>, S("if")), e>>), e, AnyDepth) : e \in Atoms }
  \cup { Program(e, S("y"), AnyDepth) : e \in Malformed }
  \cup { Program(If(Form("defined?", <<Q(S(s))>>), N(1), N(2)),
                 IF s = "x" THEN N(1) ELSE N(2), AnyDepth) : s \in {"x", "y"} }

AllForms == FormPrograms \cup NestedPrograms \cup OtherPrograms

(* Loops, with all calls in the last place.  (The last place of an and or  *)
(* an or is not one: OP_AND1 saves a frame for it too.)                    *)
Loop(times, again) ==
  A(<<S("let"), S("f"), A(<<Bind("n", N(0))>>),
      If(Form("=", <<S("n"), N(times)>>), Q(S("a")), again)>>)

Next_n == Form("f", <<Form("+", <<S("n"), N(1)>>)>>)

Loops(times) ==
  { Program(e, Q(S("a")), 3) :
    e \in { Loop(times, Next_n),
            Loop(times, Begin(<<N(1), Next_n>>)),
            Loop(times, Form("cond", <<A(<<L!False, N(1)>>), A(<<L!True, N(1), Next_n>>)>>)),
            Loop(times, Form("case", <<N(1), A(<<A(<<N(1)>>), Next_n>>)>>)),
            Loop(times, Let("y", N(1), Next_n)),
            Loop(times, A(<<S("let*"), A(<<Bind("y", N(1)), Bind("v", N(1))>>), Next_n>>)),
            Loop(times, Form("apply", <<S("f"), Form("cons", <<Form("+", <<S("n"), N(1)>>), Q(A(<< >>))>>)>>)),
            Loop(times, Form("call/cc", <<Lam(<<"k">>, Next_n)>>)),
            Loop(times, Form("eval", <<Q(Next_n)>>)) } }

LoopPrograms == Loops(4) \cup Loops(9)

AllPrograms == AllForms \cup LoopPrograms

(* dynamic-wind keeps the thunk's result in a let; here the thunk is left  *)
(* through a continuation and entered again.                               *)
WindsTwice ==
  { Program(Begin(<<
      Def("k", L!False), Def("n", N(0)),
      Let("r", A(<<Lam(<<"thunk">>, Let("result", Form("thunk", << >>), S("result"))),
                   Lam(<< >>, Form("call/cc", <<Lam(<<"v">>, Begin(<<Set("k", S("v")), N(1)>>))>>))>>),
          If(Form("=", <<S("n"), N(0)>>), Begin(<<Set("n", N(1)), Form("k", <<N(2)>>)>>), S("r")))>>),
      N(2), AnyDepth) }

---------------------------------------------------------------------------
(* The store that corresponds to Base.                                     *)
Store ==
  LET names == {Globals[i][1] : i \in DOMAIN Globals}
  IN [frames |-> <<[vars |-> [s \in names \cup {"x"} |->
                                IF s = "x" THEN N(3) ELSE [t |-> "prim", s |-> s]],
                    up |-> 0]>>,
      promises |-> << >>, live |-> {}, next |-> 1]

Outcome == L!Ev(program.means, 1, Store)

RECURSIVE Is(_, _)
Is(p, v) ==
  CASE v.t = "num"     -> kind(p) = "number" /\ car(p) = v.n
    [] v.t = "false"   -> p = F
    [] v.t = "true"    -> p = T
    [] v.t = "nil"     -> p = NIL
    [] v.t = "sym"     -> p = symbol(v.s)
    [] v.t = "prim"    -> kind(p) \in Procs
    [] v.t = "closure" -> kind(p) = "closure"
    [] v.t = "cont"    -> kind(p) = "cont"
    [] v.t = "promise" -> kind(p) = "promise"
    [] v.t = "pair"    -> pair(p) /\ Is(car(p), v.a) /\ Is(cdr(p), v.d)
    [] OTHER           -> FALSE

(* A program that the evaluator finishes has had the value that it means,  *)
(* and left the global variable x as it means; an error ends it if and     *)
(* only if it means an error.                                              *)
ValueIsMeaning ==
  op \in Final =>
    LET r == Outcome
        x == find_slot_in_env(cells, global_env, symbol("x"), FALSE)
    IN /\ op = "ERR0" <=> r.v.t = "error"
       /\ op = "halt" => Is(value, r.v)
       /\ Is(cdr(x), r.st.frames[1].vars["x"])

(* The last expression of a body leaves no frame: a loop whose calls are   *)
(* all in that place needs no more frames for nine rounds than for four.   *)
TailCallsConstant == Len(dump) <= program.frames

(* Each of these programs means something, so its evaluation comes to an   *)
(* end: no opcode leaves the registers as they are for Eval_Cycle to run   *)
(* it again, as the table's put and get, which have no case, do.           *)
EvaluationEnds == <>(op \in Final)

(* The comment in dynamic-wind of init.scm: "The return value is that of   *)
(* thunk", which the let around the thunk's call is to keep.  So whenever  *)
(* the values of a let are complete there is one for each variable.        *)
LetKeepsResult ==
  op = "LET2" =>
    /\ pair(code)
    /\ Len(Elements(cells, args)) = Len(Elements(cells, car(code)))
==============================================================================
