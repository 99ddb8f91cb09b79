------------------------------- MODULE Board -------------------------------
(***************************************************************************)
(* The server of module Server with a program: either any program at all,  *)
(* whose evaluations end in any way, or the bulletin board bb.scm, whose   *)
(* handlers query the database of module Database.                         *)
(***************************************************************************)
EXTENDS Server, Database

VARIABLES
  program,     \* "any" or "bb"
  todo,        \* bb: the statements that the handler has still to run
  trouble      \* the file has been locked, or was never opened

vars == <<serverVars, dbVars, program, todo, trouble>>

Kinds == {"get", "post", "bare", "delete", "admin", "missing"}

Init ==
  /\ ServerInit /\ DatabaseInit
  /\ program \in {"any", "bb"}
  /\ program = "bb" => server_type = "HTTP"
  /\ program = "any" => ~there
  /\ todo = << >>
  /\ trouble = FALSE

---------------------------------------------------------------------------
(* Loading.  bb.scm opens its database, asks for SQLite's version, which   *)
(* changes nothing, and makes its table; it looks at no result: the table  *)
(* may be there from an earlier run.                                       *)
Load ==
  \/ /\ program = "any"
     /\ \E failed \in BOOLEAN : Serve(failed)
     /\ UNCHANGED <<dbVars, program, todo, trouble>>
  \/ /\ program = "bb" /\ phase = "load" /\ todo = << >>
     /\ \E opens \in BOOLEAN : sqlite_open(opens) /\ trouble' = (trouble \/ ~opens)
     /\ todo' = <<"create">>
     /\ UNCHANGED <<serverVars, program>>
  \/ /\ program = "bb" /\ todo = <<"create">>
     /\ \E answer \in {Failure, Vector(<< >>)} : sqlite_query("create", Main, answer)
     /\ todo' = << >>
     /\ Serve(FALSE)
     /\ UNCHANGED <<program, trouble>>

(* Another process locks the file.                                         *)
LockFile ==
  /\ program = "bb" /\ phase # "down"
  /\ Lock
  /\ trouble' = TRUE
  /\ UNCHANGED <<serverVars, program, todo>>

---------------------------------------------------------------------------
(* The handlers of bb.scm.  "bare" is a POST that names no content,        *)
(* "admin" a POST to /admin, "missing" what needs no database.             *)

Statements(kind) ==
  CASE kind = "get"    -> <<"select">>
    [] kind = "post"   -> <<"insert", "select">>
    [] kind = "delete" -> <<"delete", "select">>
    [] OTHER           -> << >>

Receive(c) ==
  /\ program = "bb"
  /\ send_document_cb(c)
  /\ todo' = Statements(req[c].kind)
  /\ UNCHANGED <<dbVars, program, trouble>>

Evaluating == program = "bb" /\ cb.pc = "eval" /\ phase = "serve"

(* insert and delete: the handler goes on whatever run-query returns.      *)
Write ==
  /\ Evaluating /\ ~no_memory
  /\ Len(todo) = 2
  /\ \E answer \in {Failure, Vector(<< >>), Crash} :
       /\ sqlite_query(Head(todo), cb.of, answer)
       /\ phase' = IF answer.tag = "crash" THEN "down" ELSE phase
  /\ todo' = Tail(todo)
  /\ UNCHANGED <<server_type, exiting, value, left, harmed, no_memory, cb, req, conn, calls,
                 program, trouble>>

Reversed(rows) == [x \in DOMAIN rows |-> rows[Len(rows) + 1 - x]]

(* The page.  query->html puts each notice in front of the ones before it, *)
(* and vector-length fails on what run-query returns instead of #f.        *)
Page ==
  /\ Evaluating /\ ~no_memory
  /\ Len(todo) = 1
  /\ \E answer \in {Failure, Crash}
                   \cup {Vector(SubSeq(table, 1, n)) : n \in 0 .. Len(table)} :
       /\ sqlite_query("select", cb.of, answer)
       /\ \/ /\ run_query(answer) = "vector"
             /\ EvalEnds(Val("list", cb.of, Reversed(answer.rows)))
             /\ cb' = [cb EXCEPT !.pc = "reply"] /\ UNCHANGED phase
          \/ /\ run_query(answer) = "sqlite-error"
             /\ EvalFails(Val("other", cb.of, << >>))
             /\ cb' = [cb EXCEPT !.pc = "reply"] /\ UNCHANGED phase
          \/ /\ run_query(answer) = "crash"
             /\ phase' = "down" /\ UNCHANGED <<cb, value, left, harmed, no_memory>>
  /\ todo' = << >>
  /\ UNCHANGED <<server_type, exiting, req, conn, calls, program, trouble>>

(* What needs no database: car of #f fails for a POST without content, and *)
(* admin-handler has no clause for a POST.                                 *)
NoPage ==
  /\ Evaluating /\ ~no_memory
  /\ todo = << >>
  /\ \/ req[cb.of].kind = "bare"    /\ EvalFails(Val("other", cb.of, << >>))
     \/ req[cb.of].kind = "admin"   /\ EvalEnds(Val("nil", cb.of, << >>))
     \/ req[cb.of].kind = "missing" /\ EvalEnds(Val("list", cb.of, << >>))
  /\ cb' = [cb EXCEPT !.pc = "reply"]
  /\ UNCHANGED <<server_type, phase, exiting, req, conn, calls, dbVars, program,
                 todo, trouble>>

(* Memory runs out in a handler, or did so before it began.                *)
OutOfMemory ==
  /\ Evaluating
  /\ EvalStopped(Val("other", cb.of, << >>))
  /\ cb' = [cb EXCEPT !.pc = "reply"]
  /\ todo' = << >>
  /\ UNCHANGED <<server_type, phase, exiting, req, conn, calls, dbVars, program, trouble>>

Handler == Write \/ Page \/ NoPage \/ OutOfMemory

---------------------------------------------------------------------------

Respond(c) ==
  /\ \/ send_document_cb_file(c)
     \/ program = "any" /\ send_document_cb(c)
     \/ accept_cb(c) \/ conn_readcb(c) \/ conn_eventcb(c)
     \/ udp_event_cb(c)
  /\ UNCHANGED <<dbVars, program, todo, trouble>>

Transport(c) ==
  /\ ReadSocket(c) \/ WriteSocket(c)
  /\ UNCHANGED <<dbVars, program, todo, trouble>>

Environment(c) ==
  /\ \/ \E kind \in Kinds \cup {"file", "unreadable"} : Request(c, kind)
     \/ Peer(c)
     \/ \E n \in 0 .. MaxBytes : SendDatagram(c, n)
  /\ UNCHANGED <<dbVars, program, todo, trouble>>

(* What any program may return.  Only the HTTP reply looks at more than    *)
(* whether it is () or a string.                                           *)
Outcomes ==
  {"nil", "string", "other"} \cup
    (IF server_type = "HTTP" THEN {"list", "nostatus", "cycle", "T"} ELSE {})

AnyProgram ==
  /\ program = "any"
  /\ \E tag \in Outcomes : Evaluate(Val(tag, Main, << >>))
  /\ UNCHANGED <<dbVars, program, todo, trouble>>

Reply ==
  /\ http_reply \/ tcp_reply \/ udp_return
  /\ UNCHANGED <<dbVars, program, todo, trouble>>

Loop ==
  /\ signal_cb \/ Exit
  /\ UNCHANGED <<dbVars, program, todo, trouble>>

Next ==
  \/ Load \/ LockFile \/ Loop
  \/ \E c \in Client : Receive(c) \/ Respond(c) \/ Transport(c) \/ Environment(c)
  \/ Handler \/ AnyProgram \/ Reply

Spec == Init /\ [][Next]_vars

(* The loop calls each callback that is due, and comes to each socket; an  *)
(* evaluation ends, as those of bb.scm do.                                 *)
FairSpec ==
  /\ Spec
  /\ \A c \in Client : WF_vars(Receive(c)) /\ WF_vars(Respond(c)) /\ WF_vars(Transport(c))
  /\ WF_vars(Handler) /\ WF_vars(AnyProgram) /\ WF_vars(Reply)

---------------------------------------------------------------------------
(* Properties.                                                             *)

(* What a client gets was computed for it: no reply is made from what an   *)
(* evaluation for another client, or a load, left in the interpreter, as   *)
(* long as no evaluation has failed and memory has not run out.  Even what *)
(* a callback finds after a failure, if it is the first one, is the failed *)
(* evaluation's own.                                                       *)
RepliesOwn ==
  /\ ~harmed =>
       \A c \in Client :
         /\ req[c].state = "answered" => req[c].answer.by = c
         /\ \A x \in DOMAIN conn[c].got : conn[c].got[x] = c
  /\ cb.pc = "reply" /\ ~no_memory /\ (left = {cb.of} \/ ~harmed) =>
       value.by = cb.of

(* The board's page lists the notices that the table holds, newest first:  *)
(* after a POST its own notice comes first, and after a deletion there is  *)
(* none.  Except that a query which cannot be prepared, because the file   *)
(* is locked or was not opened, passes for one without rows, and that of a *)
(* long table only the oldest rows are shown.                              *)
PageShowsTable ==
  (/\ program = "bb" /\ cb.pc = "reply" /\ value.tag = "list" /\ ~harmed
   /\ Statements(req[cb.of].kind) # << >>)
  => \/ /\ value.page = Reversed(table)
        /\ req[cb.of].kind = "delete" => value.page = << >>
        /\ req[cb.of].kind = "post" => value.page # << >> /\ value.page[1] = cb.of
     \/ trouble
     \/ Len(table) > max_rows + 1

(* The process of the bulletin board ends by SIGINT only, unless a file    *)
(* under the document root cannot be read, a POST names no content, the    *)
(* database was locked or not opened, memory ran out, or there are more    *)
(* notices than rows[] has room for.                                       *)
StaysUp ==
  program = "bb" /\ phase = "down" =>
    \/ \E c \in Client : req[c].kind \in {"unreadable", "bare"}
    \/ trouble \/ no_memory
    \/ Len(table) > Capacity

(* Each request to the bulletin board but a POST to /admin is answered,    *)
(* as long as the loop runs and no evaluation has failed.                  *)
Answered ==
  \A c \in Client :
    program = "bb" /\ req[c].state = "sent" /\ req[c].kind # "admin"
      ~> req[c].state = "answered" \/ phase # "serve" \/ harmed

(* Every byte that comes in over TCP, up to the size of the buffer, gets   *)
(* to the entry point: also when the peer closes right after sending it,   *)
(* and whatever pieces it arrives in.                                      *)
Heard ==
  \A c \in Client, k \in 1 .. BUFFER_SIZE :
    conn[c].state \in {"open", "shut"} /\ server_type = "TCP" /\ conn[c].sent >= k
      ~> \/ \E x \in DOMAIN calls[c] : k \in calls[c][x].first .. calls[c][x].last
         \/ conn[c].state = "reset" \/ phase # "serve"

Values(tags) == [tag : tags, by : Client \cup {Main}, page : Seq(Client)]

TypeOK ==
  /\ phase \in {"load", "serve", "exit", "down"} /\ exiting \in BOOLEAN
  /\ value \in Values({"list", "nostatus", "cycle", "nil", "T", "string", "other"})
  /\ left \subseteq Client \cup {Main} /\ (left # {} => harmed)
  /\ cb.fn \in {"none", "http", "tcp", "udp"}
  /\ cb.pc \in {"none", "eval", "reply", "walk"}
  /\ \A c \in Client :
       /\ req[c].state \in {"none", "sent", "answered", "forgotten"}
       /\ conn[c].state \in {"none", "open", "shut", "reset", "lost", "freed"}
       /\ conn[c].input <= conn[c].sent
       /\ calls[c] \in Seq([first : {1}, last : 0 .. BUFFER_SIZE])
       /\ server_type = "UDP" => \A x \in DOMAIN calls[c] : calls[c][x].last # 0
  /\ db \in 0 .. Len(handles)
  /\ table \in Seq(Client) /\ (table # << >> => there)
  /\ todo # << >> => phase = "load" \/ cb.fn = "http" \/ phase = "down"

---------------------------------------------------------------------------
(* What the manual page says, and what does not hold.                      *)

(* ioscheme.1, of the entry point: "will be called when data is received.  *)
(* The data is passed to the function as the single argument."  Then no    *)
(* byte that was received is passed twice.                                 *)
DataOnce ==
  \A c \in Client : \A x, y \in DOMAIN calls[c] :
    x < y => calls[c][x].last < calls[c][y].first
=============================================================================
