------------------------------ MODULE Session ------------------------------
(***************************************************************************)
(* The life of one interpreter in the server: main.c loads some files and  *)
(* then evaluates an expression for each request.  All of these            *)
(* evaluations share one dump (the stack of what remains to be done), one  *)
(* load stack and one list of exception handlers, so what one leaves       *)
(* behind, the next one finds.                                             *)
(*                                                                         *)
(* Modelled: the calls scheme_load_named_file and scheme_eval, s_save and  *)
(* s_return, the top-level opcodes, load, quit, error, and catch, throw    *)
(* and *error-hook* of init.scm.  The expressions themselves are left      *)
(* open: an evaluation may at each step do any of the things a program can *)
(* make it do.                                                             *)
(***************************************************************************)
EXTENDS Integers, FiniteSets, Sequences

CONSTANTS
  MAXFIL,      \* one more than the deepest nesting of loads
  MaxForms,    \* bound: the most forms in a file
  MaxDump      \* bound: the most frames before another expression is begun

ASSUME SessionAssumption ==
  /\ MAXFIL \in Nat \ {0}
  /\ MaxForms \in Nat /\ MaxDump \in Nat

VARIABLES
  op,         \* the opcode to run next; "idle" in the event loop
  dump,       \* frames, the innermost first
  envir,      \* the evaluation that made the environment; 0: global_env
  files,      \* the load stack, the innermost first: for each file the
              \* number of forms still to read, -1 once its EOF was seen
  handlers,   \* *handlers*: the continuations of the catches, innermost first
  eof,        \* the value just read is EOF_OBJ
  n,          \* how many evaluations have begun: the number of this one
  what,       \* this evaluation: "load" or "request"
  ended,      \* how each evaluation ended
  inport,     \* the current input port: "file" is loadport, "own" another one
  save_inport,
  chosen,     \* the port that a load or set-input-port made the current one
              \* last, or "any" once a read has failed
  strayed     \* a program has left the body of a catch, or a file that it
              \* loads, in another way than by coming to the end of it

portVars == <<inport, save_inport, chosen>>

vars == <<op, dump, envir, files, handlers, eof, n, what, ended, portVars, strayed>>

Ports == {"file", "own"}

Frame(o, k) == [op |-> o, envir |-> envir, own |-> n, k |-> k, port |-> "none"]

file_i == Len(files) - 1

Init ==
  /\ op = "idle" /\ dump = << >> /\ envir = 0
  /\ files = << >> /\ handlers = << >> /\ eof = FALSE
  /\ n = 0 /\ what = "load" /\ ended = << >>
  /\ inport = "file" /\ save_inport = "file" /\ chosen = "file"
  /\ strayed = FALSE

---------------------------------------------------------------------------
(* The calls from C.                                                       *)

(* Fault: the dump is not reset.                                           *)
LoadOnOldDump(forms) ==
  /\ op = "idle" /\ what = "load"
  /\ n' = n + 1
  /\ envir' = 0
  /\ files' = <<forms>>
  /\ op' = "T0LVL"
  /\ UNCHANGED <<dump, handlers, eof, what, ended, strayed, portVars>>

(* main loads the files first; fclose follows the return.                  *)
scheme_load_named_file(forms) ==
  /\ op = "idle" /\ what = "load"
  /\ n' = n + 1
  /\ dump' = << >>
  /\ envir' = 0
  /\ files' = <<forms>>
  /\ inport' = "file" /\ chosen' = "file"
  /\ op' = "T0LVL"
  /\ UNCHANGED <<handlers, eof, what, ended, save_inport, strayed>>

scheme_eval ==
  /\ op = "idle" /\ n > 0
  /\ n' = n + 1
  /\ what' = "request"
  /\ op' = "EVAL"
  /\ UNCHANGED <<dump, envir, files, handlers, eof, ended, strayed, portVars>>

(* Eval_Cycle returns to C.                                                *)
Return(how) == op' = "idle" /\ ended' = Append(ended, how)

---------------------------------------------------------------------------
(* s_save and s_return.                                                    *)

s_save(ops) == dump' = [x \in 1 .. Len(ops) |-> Frame(ops[x], << >>)] \o dump

(* The rest of an s_return: the frame on top says what to go on with.      *)
s_return ==
  /\ op = "return"
  /\ IF dump = << >>
     THEN Return("value") /\ UNCHANGED <<dump, envir, handlers, inport>>
     ELSE LET f == Head(dump)
          IN  /\ envir' = f.envir
              /\ dump' = IF f.op = "exit" THEN f.k ELSE Tail(dump)
              /\ op' = CASE f.op = "args"        -> "EVAL"
                         [] f.op = "T0LVL"       -> "T0LVL"
                         [] f.op = "T1LVL"       -> "EVAL"
                         [] f.op = "VALUEPRINT"  -> "return"
                         [] f.op = "exit"        -> "return"
                         [] f.op = "set-inport"  -> "return"
                         [] f.op = "pop-handler" ->
                              IF handlers = << >> THEN "throw" ELSE "return"
              /\ handlers' = IF f.op = "pop-handler" /\ handlers # << >>
                             THEN Tail(handlers) ELSE handlers
              /\ inport' = CASE f.op = "T1LVL"      -> save_inport
                             [] f.op = "set-inport" -> f.port
                             [] OTHER               -> inport
              /\ UNCHANGED ended
  /\ UNCHANGED <<files, eof, n, what, save_inport, chosen, strayed>>

---------------------------------------------------------------------------
(* The top level: read a form, evaluate it, start again.                   *)

(* Fault: the end of any file is the end of the evaluation.                *)
T0LVLendQuits ==
  /\ op = "T0LVL"
  /\ Head(files) = -1
  /\ Return("value")
  /\ files' = IF file_i = 0 THEN files ELSE Tail(files)
  /\ UNCHANGED <<dump, envir, handlers, eof, n, what, strayed, portVars>>

(* The end of a file: of the outermost one, the evaluation is over.        *)
T0LVLend ==
  /\ op = "T0LVL"
  /\ Head(files) = -1
  /\ IF file_i = 0
     THEN Return("value") /\ UNCHANGED files
     ELSE /\ files' = Tail(files)
          /\ op' = "return"
          /\ UNCHANGED ended
  /\ UNCHANGED <<dump, envir, handlers, eof, n, what, strayed, portVars>>

(* Reading a form is one step.  A request that reads from the outermost    *)
(* file finds that main has closed it; what it gets is anybody's guess.    *)
ReadForm ==
  IF Head(files) = -1 THEN UNCHANGED files
  ELSE \E left \in IF what = "request" /\ file_i = 0
                   THEN {-1, Head(files)} ELSE {Head(files) - 1} :
         files' = <<left>> \o Tail(files)

(* Fault: the port in use before is not kept.                              *)
T0LVLreadForgets ==
  /\ op = "T0LVL"
  /\ Head(files) # -1
  /\ ReadForm
  /\ eof' = (Head(files') = -1)
  /\ inport' = "file"
  /\ s_save(<<"T1LVL", "VALUEPRINT", "T0LVL">>)
  /\ \/ op' = "return" /\ UNCHANGED chosen
     \/ ~eof' /\ op' = "throw" /\ chosen' = "any"
  /\ UNCHANGED <<envir, handlers, n, what, ended, save_inport, strayed>>

(* A form is read from the file, whichever port is the current one; it     *)
(* stays the file if that fails.                                           *)
T0LVLread ==
  /\ op = "T0LVL"
  /\ Head(files) # -1
  /\ ReadForm
  /\ eof' = (Head(files') = -1)
  /\ save_inport' = inport /\ inport' = "file"
  /\ s_save(<<"T1LVL", "VALUEPRINT", "T0LVL">>)
  /\ \/ op' = "return" /\ UNCHANGED chosen
     \/ ~eof' /\ op' = "throw" /\ chosen' = "any"
  /\ UNCHANGED <<envir, handlers, n, what, ended, strayed>>

---------------------------------------------------------------------------
(* What a program can do.                                                  *)

(* A constant or a variable has a value at once, and so has the EOF_OBJ    *)
(* that was read at the end of a file.                                     *)
EvalValue ==
  /\ op = "EVAL"
  /\ op' = "return"
  /\ eof' = FALSE
  /\ UNCHANGED <<dump, envir, files, handlers, n, what, ended, strayed, portVars>>

Program == op = "EVAL" /\ ~eof

(* A subexpression is evaluated first.                                     *)
EvalPart ==
  /\ Program
  /\ Len(dump) < MaxDump
  /\ s_save(<<"args">>)
  /\ UNCHANGED <<op, envir, files, handlers, eof, n, what, ended, strayed, portVars>>

(* The body of a closure is entered, in a new environment.                 *)
ApplyClosure ==
  /\ Program
  /\ envir' = n
  /\ UNCHANGED <<op, dump, files, handlers, eof, n, what, ended, strayed, portVars>>

(* Fault: files are pushed without a limit.                                *)
OP_LOADUnlimited(forms) ==
  /\ Program
  /\ files' = <<forms>> \o files
  /\ op' = "T0LVL"
  /\ UNCHANGED <<dump, envir, handlers, eof, n, what, ended, strayed, portVars>>

(* Fault: the top level of the outer file is saved although it is already. *)
OP_LOADSaves(forms) ==
  /\ Program
  /\ file_i < MAXFIL - 1
  /\ files' = <<forms>> \o files
  /\ op' = "T0LVL"
  /\ s_save(<<"T0LVL">>)
  /\ UNCHANGED <<envir, handlers, eof, n, what, ended, strayed, portVars>>

OP_LOAD(forms) ==
  /\ Program
  /\ IF file_i = MAXFIL - 1
     THEN op' = "throw" /\ UNCHANGED files
     ELSE files' = <<forms>> \o files /\ op' = "T0LVL"
  /\ UNCHANGED <<dump, envir, handlers, eof, n, what, ended, strayed, portVars>>

(* (read port): the port that was the current one is put back by a frame,  *)
(* which the value passes on its way; an error does not pass it.           *)
OP_READ(port) ==
  /\ Program
  /\ IF port = "file" THEN ReadForm ELSE UNCHANGED files
  /\ \/ op' = "return" /\ UNCHANGED <<dump, inport, chosen>>
     \/ /\ op' = "throw"
        /\ Len(dump) < MaxDump
        /\ dump' = IF port = inport THEN dump
                   ELSE <<[Frame("set-inport", << >>) EXCEPT !.port = inport]>> \o dump
        /\ inport' = port /\ chosen' = "any"
  /\ UNCHANGED <<envir, handlers, eof, n, what, ended, save_inport, strayed>>

(* The primitive set-input-port.                                           *)
OP_SET_INPORT(port) ==
  /\ Program
  /\ op' = "return"
  /\ inport' = port /\ chosen' = port
  /\ UNCHANGED <<dump, envir, files, handlers, eof, n, what, ended, save_inport, strayed>>

(* catch: the body is evaluated with a handler that exits to here.  Like   *)
(* the handler's expression it is evaluated in a closure's environment.    *)
Catch ==
  /\ Program
  /\ Len(dump) < MaxDump
  /\ handlers' = <<dump>> \o handlers
  /\ envir' = n
  /\ dump' = <<[Frame("pop-handler", << >>) EXCEPT !.envir = n]>> \o dump
  /\ UNCHANGED <<op, files, eof, n, what, ended, strayed, portVars>>

(* An error, or a call of throw.                                           *)
Fails ==
  /\ Program
  /\ op' = "throw"
  /\ UNCHANGED <<dump, envir, files, handlers, eof, n, what, ended, strayed, portVars>>

Count(d, o) == Cardinality({x \in DOMAIN d : d[x].op = o})

(* Fault: the handler that is called stays in *handlers*.                  *)
throwKeepsHandler ==
  /\ op = "throw"
  /\ handlers # << >>
  /\ dump' = <<Frame("exit", Head(handlers))>> \o dump
  /\ op' = "EVAL"
  /\ UNCHANGED <<envir, files, handlers, eof, n, what, ended, strayed, portVars>>

(* throw: the innermost handler evaluates its expression, and exits with   *)
(* the value.                                                              *)
throwHandled ==
  /\ op = "throw"
  /\ handlers # << >>
  /\ handlers' = Tail(handlers)
  /\ envir' = n
  /\ dump' = <<[Frame("exit", Head(handlers)) EXCEPT !.envir = n]>> \o dump
  /\ op' = "EVAL"
  /\ strayed' = (strayed \/ Count(Head(handlers), "T0LVL") # Count(dump, "T0LVL"))
  /\ UNCHANGED <<files, eof, n, what, ended, portVars>>

(* throw without a handler: error prints its message and the evaluation    *)
(* is over; interactive_repl is never set in the server.                   *)
throwUnhandled ==
  /\ op = "throw"
  /\ handlers = << >>
  /\ Return("error")
  /\ envir' \in {envir, n}
  /\ UNCHANGED <<dump, files, handlers, eof, n, what, strayed, portVars>>

OP_QUIT ==
  /\ Program
  /\ Return("quit")
  /\ strayed' = TRUE
  /\ UNCHANGED <<dump, envir, files, handlers, eof, n, what, portVars>>

(* Where an expression of this evaluation began: with the frames d still   *)
(* to go.                                                                  *)
Capturable(d) ==
  IF d = << >> \/ d[1].own # n THEN what = "request"
  ELSE d[1].op \in {"args", "pop-handler", "exit", "VALUEPRINT"}

(* A continuation captured further up is called (define-with-return).      *)
Escape ==
  /\ Program
  /\ \E x \in 1 .. Len(dump) :
       /\ \A y \in 1 .. x : dump[y].own = n
       /\ dump' = SubSeq(dump, x + 1, Len(dump))
       /\ Capturable(dump')
       /\ strayed' = (strayed \/ \E y \in 1 .. x : dump[y].op \in
                                    {"T0LVL", "pop-handler", "exit"})
  /\ op' = "return"
  /\ UNCHANGED <<envir, files, handlers, eof, n, what, ended, portVars>>

Next ==
  \/ \E forms \in 0 .. MaxForms : scheme_load_named_file(forms) \/ OP_LOAD(forms)
  \/ \E port \in Ports : OP_READ(port) \/ OP_SET_INPORT(port)
  \/ scheme_eval
  \/ s_return \/ T0LVLend \/ T0LVLread
  \/ EvalValue \/ EvalPart \/ ApplyClosure
  \/ Catch \/ Fails \/ throwHandled \/ throwUnhandled
  \/ OP_QUIT \/ Escape

Spec == Init /\ [][Next]_vars

---------------------------------------------------------------------------
(* Properties.                                                             *)

Idle == op = "idle"

Own(d) == \A x \in DOMAIN d : d[x].own = n

(* A load is not disturbed by what an earlier evaluation left behind: it   *)
(* goes on with no frame and runs in no environment but its own and the    *)
(* global one, whether or not files loaded before it ended in an error.    *)
LoadIsolated ==
  what = "load" /\ ~Idle /\ ~strayed => Own(dump) /\ envir \in {0, n}

(* The frames of d that are still to be returned to: none that lies between *)
(* an exit and the continuation it leads to.                               *)
Ahead(d) == {x \in DOMAIN d : \A y \in 1 .. (x - 1) :
               d[y].op = "exit" => Len(d) - x < Len(d[y].k)}

(* The continuations of the catches whose bodies are being evaluated.  A   *)
(* handler's expression is evaluated outside of its catch.                 *)
Catches(d) == {SubSeq(d, x + 1, Len(d)) :
                 x \in {y \in Ahead(d) : d[y].op = "pop-handler"}}

NoFailure == \A x \in DOMAIN ended : ended[x] = "value"

(* While the bodies of catches end, or throw, *handlers* has the handler   *)
(* of each catch that is being evaluated and of no other, in the order of  *)
(* their nesting: what is thrown goes to the innermost of them.            *)
HandlersMatch ==
  NoFailure /\ ~strayed =>
    /\ {handlers[x] : x \in DOMAIN handlers} = Catches(dump)
    /\ \A x, y \in DOMAIN handlers : x < y => Len(handlers[x]) > Len(handlers[y])

(* If no evaluation has failed so far, the event loop finds the dump and   *)
(* *handlers* empty and the load stack at its bottom; the current port is  *)
(* the one that was last chosen, unless a read has failed; and after loads *)
(* the first request looks its entry point up in the global environment.   *)
CleanFinish ==
  Idle /\ n > 0 /\ NoFailure /\ ~strayed =>
    /\ dump = << >> /\ handlers = << >> /\ file_i = 0
    /\ chosen \in {inport, "any"}
    /\ what = "load" => envir = 0

(* A load that ends with a value has read its file to the end: loads of    *)
(* other files on the way, errors caught in them and earlier failures do   *)
(* not cut it short, as long as nothing is thrown out of a load.           *)
LoadReadsAll ==
  Idle /\ what = "load" /\ n > 0 /\ ended[n] = "value" /\ ~strayed =>
    files = <<-1>>

(* The nesting of loads is what the dump says: each file above the         *)
(* outermost was loaded by the one below it, which goes on at the end.     *)
LoadsMatch ==
  ~Idle /\ what = "load" /\ ~strayed =>
    Count(dump, "T0LVL") = Len(files) - (IF op = "T0LVL" THEN 1 ELSE 0)

TypeOK ==
  /\ op \in {"idle", "EVAL", "T0LVL", "return", "throw"}
  /\ \A x \in DOMAIN dump :
       dump[x].op \in {"args", "T0LVL", "T1LVL", "VALUEPRINT", "exit",
                       "pop-handler", "set-inport"}
  /\ envir \in 0 .. n
  /\ files \in Seq(-1 .. MaxForms) /\ Len(files) <= MAXFIL
  /\ eof \in BOOLEAN /\ n \in Nat
  /\ what \in {"load", "request"}
  /\ ended \in Seq({"value", "error", "quit"})
  /\ {inport, save_inport} \subseteq Ports /\ chosen \in Ports \cup {"any"}
  /\ Len(ended) = IF Idle THEN n ELSE n - 1

---------------------------------------------------------------------------
(* What the comments of the code say, and what does not hold.              *)

(* save_from_C_call, scheme.c: "Truncate the dump stack so TS will return  *)
(* here when done, not directly resume pre-C-call operations."             *)
ReturnsHere == ~Idle => Own(dump)
===========================================================================
