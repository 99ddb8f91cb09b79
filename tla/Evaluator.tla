------------------------------ MODULE Evaluator ------------------------------
(***************************************************************************)
(* Eval_Cycle and the opcodes of opexe_0 and opexe_1: special forms,       *)
(* application, macros, promises and continuations, on the registers of    *)
(* the interpreter.  Programs, argument lists and environments are cells   *)
(* in memory (see Lists), as they are in the code: whatever overwrites a   *)
(* cell overwrites it for everyone.                                        *)
(*                                                                         *)
(* Left out: foreign functions, tracing, immutability, messages, a list of *)
(* bindings or clauses that ends in a dot, and what a register holds that  *)
(* is set again before it is read.  The hash vector of the global          *)
(* environment is a list here.  An error that no hook takes ends the       *)
(* evaluation, as it does in the server (not interactive).                 *)
(***************************************************************************)
EXTENDS Lists

CONSTANT Programs   \* what may be evaluated: memory as the reader and
                    \* scheme_init leave it, the code, and what is
                    \* expected of it

VARIABLES
  op, code, args, value, envir,   \* the registers
  dump,       \* what remains to be done, innermost first
  cells,      \* memory
  conts,      \* the dumps that continuations hold
  program     \* what is expected of the one that is being evaluated

vars == <<op, code, args, value, envir, dump, cells, conts, program>>

(* Cells that are always there.                                            *)
T == 2
F == 3
global_env == 4
QUOTE == 5
LAMBDA_ == 6
FEED_TO == 7
ERROR_HOOK == 8
COMPILE_HOOK == 9
message == 10

Syntax == {"QUOTE", "LAMBDA", "DEF0", "SET0", "BEGIN", "IF0", "LET0", "LET0AST",
           "LET0REC", "COND0", "DELAY", "AND0", "OR0", "C0STREAM", "MACRO0", "CASE0"}

Procs == {"PEVAL", "PAPPLY", "CONTINUATION", "FORCE", "MKCLOSURE", "DEFP",
          "CAR", "CDR", "CONS", "EQ", "NULLP", "ADD", "NUMEQ", "CURR_ENV"}

Final == {"halt", "ERR0"}

car(p) == cells[p].car
cdr(p) == cells[p].cdr
kind(p) == cells[p].k
pair(p) == is_pair(cells, p)

(* A keyword is a symbol, too.                                             *)
is_symbol(m, p) == m[p].k \in Syntax \cup {"symbol"}

(* The elements of a list, up to its end or its dot.                       *)
RECURSIVE Elements(_, _)
Elements(m, l) ==
  IF is_pair(m, l) THEN <<m[l].car>> \o Elements(m, m[l].cdr) ELSE << >>

(* A new list of some values.                                              *)
List(m, s) ==
  LET n == Len(m)
  IN [m |-> m \o [i \in 1 .. Len(s) |->
                    Cell("pair", s[i], IF i = Len(s) THEN NIL ELSE n + i + 1)],
      p |-> IF s = << >> THEN NIL ELSE n + 1]

New(m, k, a, d) == [m |-> Append(m, Cell(k, a, d)), p |-> Len(m) + 1]

---------------------------------------------------------------------------
(* Environments: a frame is a list of slots, a slot a pair of a symbol and *)
(* its value.                                                              *)

new_frame_in_env(m, old_env) == New(m, "env", NIL, old_env)

new_slot_spec_in_env(m, env, variable, val) ==
  LET slot == Consed(m, variable, val)
      link == Consed(slot.m, slot.p, m[env].car)
  IN [link.m EXCEPT ![env].car = link.p]

find_slot_in_env(m, env, hdl, all) ==
  LET in_frame[y \in DOMAIN m] ==
        CASE y = NIL -> NIL
          [] y # NIL /\ m[m[y].car].car = hdl -> m[y].car
          [] OTHER -> in_frame[m[y].cdr]
      find[x \in DOMAIN m] ==
        IF x = NIL THEN NIL
        ELSE LET slot == in_frame[m[x].car]
             IN IF slot # NIL \/ ~all THEN slot ELSE find[m[x].cdr]
  IN find[env]

(* define and macro: the slot of this frame, or else a new one.            *)
Define(m, env, variable, val) ==
  LET x == find_slot_in_env(m, env, variable, FALSE)
  IN IF x # NIL THEN [m EXCEPT ![x].cdr = val]
     ELSE new_slot_spec_in_env(m, env, variable, val)

---------------------------------------------------------------------------
(* How an opcode ends.                                                     *)

s_goto(m, o, c, a) ==
  /\ op' = o /\ code' = c /\ args' = a
  /\ cells' = m
  /\ UNCHANGED <<value, envir, dump, conts, program>>

(* Take up what is on top of d, with a value.                              *)
Resume(m, d, val) ==
  /\ value' = val
  /\ cells' = m
  /\ IF d = << >>
     THEN /\ op' = "halt"
          /\ dump' = d
          /\ UNCHANGED <<args, envir, code>>
     ELSE LET frame == Head(d)
          IN /\ op' = frame.op /\ args' = frame.args
             /\ envir' = frame.envir /\ code' = frame.code
             /\ dump' = Tail(d)
  /\ UNCHANGED <<conts, program>>

s_return(m, val) == Resume(m, dump, val)

s_save(o, a, c) ==
  dump' = <<[op |-> o, args |-> a, envir |-> envir, code |-> c]>> \o dump

(* Evaluate e, and go on with o.                                           *)
EvalThen(m, o, a, c, e, args_now) ==
  /\ s_save(o, a, c)
  /\ op' = "EVAL" /\ code' = e /\ args' = args_now
  /\ cells' = m
  /\ UNCHANGED <<value, envir, conts, program>>

(* An error that happens in env, about the values in what.                 *)
_Error_1(m, env, what) ==
  LET hook == find_slot_in_env(m, env, ERROR_HOOK, TRUE)
      quoted == List(m, <<QUOTE>> \o what)
      call == List(quoted.m, <<m[hook].cdr, message>>
                               \o (IF what = << >> THEN << >> ELSE <<quoted.p>>))
      told == List(m, <<message>> \o what)
  IN /\ IF hook # NIL
        THEN op' = "EVAL" /\ code' = call.p /\ cells' = call.m /\ UNCHANGED args
        ELSE op' = "ERR0" /\ args' = told.p /\ cells' = told.m /\ UNCHANGED code
     /\ envir' = env
     /\ UNCHANGED <<value, dump, conts, program>>

Error_0 == _Error_1(cells, envir, << >>)
Error_1(a) == _Error_1(cells, envir, <<a>>)

---------------------------------------------------------------------------
OP_EVAL ==
  /\ op = "EVAL"
  /\ \/ /\ is_symbol(cells, code)
        /\ LET x == find_slot_in_env(cells, envir, code, TRUE)
           IN IF x # NIL THEN s_return(cells, cdr(x)) ELSE Error_1(code)
     \/ /\ pair(code) /\ kind(car(code)) \in Syntax
        /\ s_goto(cells, kind(car(code)), cdr(code), args)
     \/ /\ pair(code) /\ kind(car(code)) \notin Syntax
        /\ EvalThen(cells, "E0ARGS", NIL, code, car(code), args)
     \/ /\ ~is_symbol(cells, code) /\ ~pair(code)
        /\ s_return(cells, code)

(* The operator has been evaluated.                                        *)
OP_E0ARGS ==
  /\ op = "E0ARGS"
  /\ IF kind(value) = "macro"
     THEN LET form == Consed(cells, code, NIL)
          IN /\ s_save("DOMACRO", NIL, NIL)
             /\ op' = "APPLY" /\ code' = value /\ args' = form.p
             /\ cells' = form.m
             /\ UNCHANGED <<value, envir, conts, program>>
     ELSE s_goto(cells, "E1ARGS", cdr(code), args)

(* One more argument has been.  The arguments are collected back to front, *)
(* the operator among them, and turned round in place.                     *)
OP_E1ARGS ==
  /\ op = "E1ARGS"
  /\ LET collected == Consed(cells, value, args)
         all == reverse_in_place(collected.m, NIL, collected.p)
     IN IF pair(code)
        THEN EvalThen(collected.m, "E1ARGS", collected.p, cdr(code), car(code), NIL)
        ELSE s_goto(all.m, "APPLY", all.m[all.p].car, all.m[all.p].cdr)

(* The slots of the parameters x for the arguments y, as far as they go,   *)
(* and what is wrong with them.                                            *)
RECURSIVE Parameters(_, _, _, _)
Parameters(m, env, x, y) ==
  CASE is_pair(m, x) /\ y # NIL ->
         Parameters(new_slot_spec_in_env(m, env, m[x].car, m[y].car),
                    env, m[x].cdr, m[y].cdr)
    [] ~is_pair(m, x) /\ is_symbol(m, x) ->
         [m |-> new_slot_spec_in_env(m, env, x, y), bad |-> FALSE]
    [] OTHER -> [m |-> m, bad |-> x # NIL,
                 what |-> IF is_pair(m, x) THEN << >> ELSE <<x>>]

OP_APPLY ==
  /\ op = "APPLY"
  /\ \/ kind(code) \in Procs /\ s_goto(cells, kind(code), code, args)
     \/ /\ kind(code) \in {"closure", "macro", "promise"}
        /\ LET frame == new_frame_in_env(cells, cdr(code))
               bound == Parameters(frame.m, frame.p, car(car(code)), args)
           IN IF bound.bad THEN _Error_1(bound.m, frame.p, bound.what)
              ELSE /\ op' = "BEGIN" /\ code' = cdr(car(code)) /\ args' = NIL
                   /\ cells' = bound.m /\ envir' = frame.p
                   /\ UNCHANGED <<value, dump, conts, program>>
     \/ /\ kind(code) = "cont"
        /\ Resume(cells, conts[car(code)], IF args # NIL THEN car(args) ELSE NIL)
     \/ /\ kind(code) \notin Procs \cup {"closure", "macro", "promise", "cont"}
        /\ Error_0

(* What a macro returned is evaluated in its stead.                        *)
OP_DOMACRO == op = "DOMACRO" /\ s_goto(cells, "EVAL", value, args)

---------------------------------------------------------------------------
OP_LAMBDA ==
  /\ op = "LAMBDA"
  /\ LET f == find_slot_in_env(cells, envir, COMPILE_HOOK, TRUE)
         closure == New(cells, "closure", code, envir)
         call == Consed(cells, code, NIL)
     IN IF f = NIL THEN s_return(closure.m, closure.p)
        ELSE /\ s_save("LAMBDA1", args, code)
             /\ op' = "APPLY" /\ code' = cdr(f) /\ args' = call.p
             /\ cells' = call.m
             /\ UNCHANGED <<value, envir, conts, program>>

OP_LAMBDA1 ==
  /\ op = "LAMBDA1"
  /\ LET closure == New(cells, "closure", value, envir)
     IN s_return(closure.m, closure.p)

OP_MKCLOSURE ==
  /\ op = "MKCLOSURE"
  /\ LET x == car(args)
         closure == New(cells, "closure", IF car(x) = LAMBDA_ THEN cdr(x) ELSE x,
                        IF cdr(args) = NIL THEN envir ELSE car(cdr(args)))
     IN s_return(closure.m, closure.p)

OP_QUOTE == op = "QUOTE" /\ s_return(cells, car(code))

(* The variable and the expression of a define or a macro; (define (f x)   *)
(* body) is short for a lambda.                                            *)
Definition ==
  LET short == pair(car(code))
      params == Consed(cells, cdr(car(code)), cdr(code))
      lambda == Consed(params.m, LAMBDA_, params.p)
  IN [variable |-> IF short THEN car(car(code)) ELSE car(code),
      m |-> IF short THEN lambda.m ELSE cells,
      e |-> IF short THEN lambda.p ELSE car(cdr(code))]

OP_DEF0 ==
  /\ op \in {"DEF0", "MACRO0"}
  /\ LET d == Definition
     IN IF ~is_symbol(cells, d.variable) THEN _Error_1(d.m, envir, << >>)
        ELSE EvalThen(d.m, IF op = "DEF0" THEN "DEF1" ELSE "MACRO1", NIL,
                      d.variable, d.e, args)

(* Fault: the innermost binding is changed, in whichever frame it is.      *)
OP_DEF1outer ==
  /\ op = "DEF1"
  /\ LET x == find_slot_in_env(cells, envir, code, TRUE)
     IN IF x # NIL THEN s_return([cells EXCEPT ![x].cdr = value], code)
        ELSE s_return(new_slot_spec_in_env(cells, envir, code, value), code)

OP_DEF1 == op = "DEF1" /\ s_return(Define(cells, envir, code, value), code)

OP_MACRO1 ==
  /\ op = "MACRO1"
  /\ s_return(Define([cells EXCEPT ![value].k = "macro"], envir, code, value), code)

OP_SET0 ==
  /\ op = "SET0"
  /\ EvalThen(cells, "SET1", NIL, car(code), car(cdr(code)), args)

OP_SET1 ==
  /\ op = "SET1"
  /\ LET y == find_slot_in_env(cells, envir, code, TRUE)
     IN IF y # NIL THEN s_return([cells EXCEPT ![y].cdr = value], value)
        ELSE Error_1(code)

---------------------------------------------------------------------------
(* Fault: a frame is saved for the last expression as well.                *)
OP_BEGINsaves ==
  /\ op = "BEGIN"
  /\ IF ~pair(code) THEN s_return(cells, IF code = NIL THEN value ELSE code)
     ELSE EvalThen(cells, "BEGIN", NIL, cdr(code), car(code), args)

(* For the last expression nothing is saved: that is the tail call.        *)
OP_BEGIN ==
  /\ op = "BEGIN"
  /\ CASE ~pair(code) -> s_return(cells, code)
       [] pair(code) /\ cdr(code) # NIL ->
            EvalThen(cells, "BEGIN", NIL, cdr(code), car(code), args)
       [] OTHER -> s_goto(cells, "EVAL", car(code), args)

OP_IF0 ==
  /\ op = "IF0"
  /\ EvalThen(cells, "IF1", NIL, cdr(code), car(code), args)

OP_IF1 ==
  /\ op = "IF1"
  /\ s_goto(cells, "EVAL", IF value # F THEN car(code) ELSE car(cdr(code)), args)

---------------------------------------------------------------------------
(* let and named let.                                                      *)

named == is_symbol(cells, car(code))

OP_LET0 ==
  /\ op = "LET0"
  /\ op' = "LET1" /\ args' = NIL /\ value' = code
  /\ code' = IF named THEN car(cdr(code)) ELSE car(code)
  /\ UNCHANGED <<envir, dump, cells, conts, program>>

BadBinding(b) == ~pair(b) \/ ~pair(cdr(b))

(* The form itself is the first of what is collected, then the values.     *)
OP_LET1 ==
  /\ op \in {"LET1", "LET1REC"}
  /\ LET collected == Consed(cells, value, args)
         all == reverse_in_place(collected.m, NIL, collected.p)
     IN IF pair(code)
        THEN IF BadBinding(car(code)) THEN _Error_1(collected.m, envir, <<car(code)>>)
             ELSE EvalThen(collected.m, op, collected.p, cdr(code),
                           car(cdr(car(code))), NIL)
        ELSE s_goto(all.m, IF op = "LET1" THEN "LET2" ELSE "LET2REC",
                    all.m[all.p].car, all.m[all.p].cdr)

(* The slots of the bindings x, with the values y.                         *)
RECURSIVE Bindings(_, _, _, _)
Bindings(m, env, x, y) ==
  IF y = NIL THEN m
  ELSE Bindings(new_slot_spec_in_env(m, env, m[m[x].car].car, m[y].car),
                env, m[x].cdr, m[y].cdr)

OP_LET2 ==
  /\ op = "LET2"
  /\ LET bindings == IF named THEN car(cdr(code)) ELSE car(code)
         body == IF named THEN cdr(cdr(code)) ELSE cdr(code)
         specs == Elements(cells, bindings)
         frame == new_frame_in_env(cells, envir)
         bound == Bindings(frame.m, frame.p, bindings, args)
         names == List(bound, [i \in DOMAIN specs |-> car(specs[i])])
         lambda == Consed(names.m, names.p, body)
         loop == New(lambda.m, "closure", lambda.p, frame.p)
         dotted == {i \in DOMAIN specs : list_length(cells, specs[i]) < 0}
         firstDotted == CHOOSE i \in dotted : \A j \in dotted : i <= j
     IN IF named /\ dotted # {} THEN _Error_1(bound, frame.p, <<specs[firstDotted]>>)
        ELSE /\ op' = "BEGIN" /\ code' = body /\ args' = NIL
             /\ cells' = IF named
                         THEN new_slot_spec_in_env(loop.m, frame.p, car(code), loop.p)
                         ELSE bound
             /\ envir' = frame.p
             /\ UNCHANGED <<value, dump, conts, program>>

OP_LET0AST ==
  /\ op = "LET0AST"
  /\ LET frame == new_frame_in_env(cells, envir)
     IN CASE car(code) = NIL ->
               /\ op' = "BEGIN" /\ code' = cdr(code)
               /\ cells' = frame.m /\ envir' = frame.p
               /\ UNCHANGED <<args, value, dump, conts, program>>
          [] car(code) # NIL /\ (~pair(car(code)) \/ BadBinding(car(car(code)))) ->
               Error_1(car(code))
          [] OTHER -> EvalThen(cells, "LET1AST", cdr(code), car(code),
                               car(cdr(car(car(code)))), args)

(* All variables of a let* share one frame.                                *)
OP_LET1AST ==
  /\ op = "LET1AST"
  /\ LET frame == new_frame_in_env(cells, envir)
     IN /\ op' = "LET2AST" /\ cells' = frame.m /\ envir' = frame.p
        /\ UNCHANGED <<code, args, value, dump, conts, program>>

OP_LET2AST ==
  /\ op = "LET2AST"
  /\ LET bound == new_slot_spec_in_env(cells, envir, car(car(code)), value)
         rest == cdr(code)
     IN IF pair(rest)
        THEN EvalThen(bound, "LET2AST", args, rest, car(cdr(car(rest))), NIL)
        ELSE s_goto(bound, "BEGIN", args, NIL)

OP_LET0REC ==
  /\ op = "LET0REC"
  /\ LET frame == new_frame_in_env(cells, envir)
     IN /\ op' = "LET1REC" /\ args' = NIL /\ value' = code /\ code' = car(code)
        /\ cells' = frame.m /\ envir' = frame.p
        /\ UNCHANGED <<dump, conts, program>>

OP_LET2REC ==
  /\ op = "LET2REC"
  /\ s_goto(Bindings(cells, envir, car(code), args), "BEGIN", cdr(code), NIL)

---------------------------------------------------------------------------
OP_COND0 ==
  /\ op = "COND0"
  /\ IF ~pair(code) THEN Error_0
     ELSE EvalThen(cells, "COND1", NIL, code, car(car(code)), args)

OP_COND1 ==
  /\ op = "COND1"
  /\ LET clause == cdr(car(code))
         quoted == List(cells, <<QUOTE, value>>)
         feed == List(quoted.m, <<car(cdr(clause)), quoted.p>>)
     IN CASE value # F /\ clause = NIL -> s_return(cells, value)
          [] value # F /\ clause # NIL /\ car(clause) = FEED_TO ->
               IF ~pair(cdr(clause)) THEN Error_0
               ELSE s_goto(feed.m, "EVAL", feed.p, args)
          [] value # F /\ clause # NIL /\ car(clause) # FEED_TO ->
               s_goto(cells, "BEGIN", clause, args)
          [] value = F /\ cdr(code) = NIL -> s_return(cells, NIL)
          [] OTHER -> EvalThen(cells, "COND1", NIL, cdr(code),
                               car(car(cdr(code))), args)

(* and and or.                                                             *)
OP_AND0 ==
  /\ op \in {"AND0", "OR0"}
  /\ IF code = NIL THEN s_return(cells, IF op = "AND0" THEN T ELSE F)
     ELSE EvalThen(cells, IF op = "AND0" THEN "AND1" ELSE "OR1", NIL,
                   cdr(code), car(code), args)

OP_AND1 ==
  /\ op \in {"AND1", "OR1"}
  /\ IF code = NIL \/ (op = "AND1" <=> value = F)
     THEN s_return(cells, value)
     ELSE EvalThen(cells, op, NIL, cdr(code), car(code), args)

Promise(m) == LET lambda == Consed(m, NIL, code)
              IN New(lambda.m, "promise", lambda.p, envir)

OP_DELAY == op = "DELAY" /\ s_return(Promise(cells).m, Promise(cells).p)

OP_C0STREAM ==
  /\ op = "C0STREAM"
  /\ EvalThen(cells, "C1STREAM", NIL, cdr(code), car(code), args)

OP_C1STREAM ==
  /\ op = "C1STREAM"
  /\ LET stream == Consed(Promise(cells).m, value, Promise(cells).p)
     IN s_return(stream.m, stream.p)

---------------------------------------------------------------------------
eqv(x, y) == IF kind(x) = "number" THEN kind(y) = "number" /\ car(x) = car(y)
             ELSE x = y

OP_CASE0 ==
  /\ op = "CASE0"
  /\ EvalThen(cells, "CASE1", NIL, cdr(code), car(code), args)

(* The first clause that has the value among its data, or has no data.     *)
OP_CASE1 ==
  /\ op = "CASE1"
  /\ LET clauses == Elements(cells, code)
         Data(i) == car(clauses[i])
         Chosen(i) == ~pair(Data(i)) \/
                      \E j \in DOMAIN Elements(cells, Data(i)) :
                         eqv(Elements(cells, Data(i))[j], value)
         first == {i \in DOMAIN clauses :
                     Chosen(i) /\ \A j \in 1 .. i - 1 : ~Chosen(j)}
     IN \/ first = {} /\ s_return(cells, NIL)
        \/ \E i \in first :
             IF pair(Data(i)) THEN s_goto(cells, "BEGIN", cdr(clauses[i]), args)
             ELSE EvalThen(cells, "CASE2", NIL, cdr(clauses[i]), Data(i), args)

OP_CASE2 ==
  /\ op = "CASE2"
  /\ IF value # F THEN s_goto(cells, "BEGIN", code, args) ELSE s_return(cells, NIL)

---------------------------------------------------------------------------
(* Procedures.  Eval_Cycle looks at their arguments first.                 *)

Arity == [p \in Procs |->
  CASE p \in {"PEVAL", "MKCLOSURE", "DEFP"} -> 1 .. 2
    [] p \in {"CONS", "EQ"} -> {2}
    [] p \in {"CONTINUATION", "FORCE", "CAR", "CDR", "NULLP"} -> {1}
    [] p = "CURR_ENV" -> {0}
    [] p = "ADD" -> Nat
    [] OTHER -> Nat \ {0}]

Tested(i, x) ==
  CASE op \in {"CAR", "CDR"} -> kind(x) = "pair"
    [] op \in {"ADD", "NUMEQ"} -> kind(x) = "number"
    [] op = "MKCLOSURE" /\ i = 1 -> kind(x) = "pair"
    [] op = "DEFP" /\ i = 1 -> is_symbol(cells, x)
    [] op \in {"PEVAL", "MKCLOSURE", "DEFP"} /\ i = 2 -> kind(x) = "env"
    [] OTHER -> TRUE

ArgumentsFit ==
  op \in Procs =>
    LET given == Elements(cells, args)
    IN /\ list_length(cells, args) \in Arity[op]
       /\ \A i \in DOMAIN given : Tested(i, given[i])

BadArguments == op \in Procs /\ ~ArgumentsFit /\ Error_0

OP_PEVAL ==
  /\ op = "PEVAL"
  /\ op' = "EVAL" /\ code' = car(args)
  /\ envir' = IF cdr(args) = NIL THEN envir ELSE car(cdr(args))
  /\ UNCHANGED <<args, value, dump, cells, conts, program>>

OP_PAPPLY ==
  /\ op = "PAPPLY"
  /\ LET spread == list_star(cells, cdr(args))
     IN s_goto(spread.m, "APPLY", car(args), spread.p)

(* The continuation is the dump.                                           *)
OP_CONTINUATION ==
  /\ op = "CONTINUATION"
  /\ conts' = Append(conts, dump)
  /\ LET k == New(cells, "cont", Len(conts'), NIL)
         call == Consed(k.m, k.p, NIL)
     IN op' = "APPLY" /\ code' = car(args) /\ args' = call.p /\ cells' = call.m
  /\ UNCHANGED <<value, envir, dump, program>>

OP_FORCE ==
  /\ op = "FORCE"
  /\ IF kind(car(args)) = "promise"
     THEN /\ s_save("SAVE_FORCED", NIL, car(args))
          /\ op' = "APPLY" /\ code' = car(args) /\ args' = NIL
          /\ UNCHANGED <<value, envir, cells, conts, program>>
     ELSE s_return(cells, car(args))

(* The cell of the promise becomes a copy of the value's.                  *)
OP_SAVE_FORCED ==
  /\ op = "SAVE_FORCED"
  /\ s_return([cells EXCEPT ![code] = cells[value]], value)

(* Fault: the opcode is in the table, but opexe_0 has no case for it.      *)
OP_DEFPmissing == op = "DEFP" /\ UNCHANGED vars

OP_DEFP ==
  /\ op = "DEFP"
  /\ LET env == IF cdr(args) = NIL THEN envir ELSE car(cdr(args))
     IN s_return(cells, IF find_slot_in_env(cells, env, car(args), TRUE) # NIL
                        THEN T ELSE F)

Sum(s) == LET upto[i \in 0 .. Len(s)] == IF i = 0 THEN 0 ELSE upto[i - 1] + car(s[i])
          IN upto[Len(s)]

Primitive ==
  \/ op = "CAR" /\ s_return(cells, car(car(args)))
  \/ op = "CDR" /\ s_return(cells, cdr(car(args)))
  \/ /\ op = "CONS"
     /\ LET x == Consed(cells, car(args), car(cdr(args))) IN s_return(x.m, x.p)
  \/ op = "EQ" /\ s_return(cells, IF car(args) = car(cdr(args)) THEN T ELSE F)
  \/ op = "NULLP" /\ s_return(cells, IF car(args) = NIL THEN T ELSE F)
  \/ /\ op = "ADD"
     /\ LET x == New(cells, "number", Sum(Elements(cells, args)), NIL)
        IN s_return(x.m, x.p)
  \/ /\ op = "NUMEQ"
     /\ LET numbers == {car(Elements(cells, args)[i]) : i \in DOMAIN Elements(cells, args)}
        IN s_return(cells, IF \A x, y \in numbers : x = y THEN T ELSE F)
  \/ op = "CURR_ENV" /\ s_return(cells, envir)

---------------------------------------------------------------------------
Init ==
  /\ \E p \in Programs : cells = p.cells /\ code = p.code /\ program = p.expected
  /\ op = "EVAL" /\ args = NIL /\ value = NIL /\ envir = global_env
  /\ dump = << >> /\ conts = << >>

Procedure ==
  \/ OP_MKCLOSURE \/ OP_PEVAL \/ OP_PAPPLY \/ OP_CONTINUATION \/ OP_FORCE
  \/ OP_DEFP \/ Primitive

Finished == op \in Final /\ UNCHANGED vars

Next ==
  \/ OP_EVAL \/ OP_E0ARGS \/ OP_E1ARGS \/ OP_APPLY \/ OP_DOMACRO
  \/ OP_LAMBDA \/ OP_LAMBDA1 \/ OP_QUOTE \/ OP_DEF0 \/ OP_DEF1 \/ OP_MACRO1
  \/ OP_SET0 \/ OP_SET1 \/ OP_BEGIN \/ OP_IF0 \/ OP_IF1
  \/ OP_LET0 \/ OP_LET1 \/ OP_LET2 \/ OP_LET0AST \/ OP_LET1AST \/ OP_LET2AST
  \/ OP_LET0REC \/ OP_LET2REC \/ OP_COND0 \/ OP_COND1 \/ OP_AND0 \/ OP_AND1
  \/ OP_DELAY \/ OP_C0STREAM \/ OP_C1STREAM \/ OP_CASE0 \/ OP_CASE1 \/ OP_CASE2
  \/ BadArguments \/ (ArgumentsFit /\ Procedure) \/ OP_SAVE_FORCED
  \/ Finished

Spec == Init /\ [][Next]_vars

(* Eval_Cycle does nothing but run the next opcode.                        *)
FairSpec == Spec /\ WF_vars(Next)
==============================================================================
