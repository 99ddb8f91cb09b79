---------------------------- MODULE BoardProofs ----------------------------
(***************************************************************************)
(* Proofs about the server and the bulletin board, for any number of       *)
(* peers, bytes and rows and for any sizes of buffers: nobody gets what    *)
(* was computed for another one, and what ends the process.                *)
(***************************************************************************)
EXTENDS Board, TLAPS

Peers == Client \cup {Main}

Shape ==
  /\ DOMAIN req = Client /\ DOMAIN conn = Client
  /\ \A c \in Client :
       /\ DOMAIN req[c] = {"kind", "state", "answer"}
       /\ DOMAIN conn[c] = {"state", "sent", "input", "pending", "output", "got"}

CallbackOK ==
  \/ cb = NoCallback
  \/ cb \in [fn : {"http", "tcp", "udp"}, of : Client, pc : {"eval", "reply", "walk"}]

(* What is on its way to a client, and what it has, is its own.            *)
Own ==
  \A c \in Client :
    /\ req[c].state = "answered" => req[c].answer.by = c
    /\ conn[c].output \in Seq({c}) /\ conn[c].got \in Seq({c})

(* What RepliesOwn rests on: a callback that returns when memory has run   *)
(* out has seen an evaluation stopped; frames stay only after a failure;   *)
(* and what sockets still have to write was computed for their clients.    *)
OwnInv ==
  /\ Shape
  /\ CallbackOK
  /\ left # {} => harmed
  /\ phase = "load" => ~harmed /\ cb = NoCallback
  /\ cb.pc \in {"reply", "walk"} /\ no_memory => harmed
  /\ cb.pc = "reply" /\ ~no_memory /\ (left = {cb.of} \/ ~harmed) => value.by = cb.of
  /\ \A c \in Client : conn[c].output \in Seq(Peers) /\ conn[c].got \in Seq(Peers)
  /\ value.by \in Peers /\ left \subseteq Peers
  /\ ~harmed => Own

LEMMA EmptyIn == \A S : << >> \in Seq(S)
  OBVIOUS

LEMMA AppendIn ==
  ASSUME NEW S, NEW s \in Seq(S), NEW e \in S
  PROVE  Append(s, e) \in Seq(S)
OBVIOUS

LEMMA InitOwn == Init => OwnInv
<1> SUFFICES ASSUME Init PROVE OwnInv
  OBVIOUS
<1> USE DEF Init, ServerInit
<1>1. Shape
  BY DEF Shape
<1>2. CallbackOK /\ cb.pc = "none"
  BY DEF CallbackOK, NoCallback
<1>3. \A c \in Client : /\ conn[c].output \in Seq(Peers) /\ conn[c].got \in Seq(Peers)
                        /\ conn[c].output \in Seq({c}) /\ conn[c].got \in Seq({c})
  <2>1. \A c \in Client : conn[c].output = << >> /\ conn[c].got = << >>
    OBVIOUS
  <2> QED BY <2>1, EmptyIn
<1>4. Own
  BY <1>3 DEF Own
<1>5. value.by \in Peers
  BY DEF Val, Peers
<1> QED BY <1>1, <1>2, <1>3, <1>4, <1>5 DEF OwnInv

(* A step in which no callback runs, and which gives no client anything.   *)
LEMMA QuietOwn ==
  ASSUME OwnInv, Shape', phase = "load" \/ phase' # "load",
         value' = value, left' = left, harmed' = harmed, cb' = cb,
         cb = NoCallback \/ no_memory' = no_memory,
         \A c \in Client :
           /\ req'[c].state = "answered" =>
                (req[c].state = "answered" /\ req'[c].answer = req[c].answer)
                \/ req'[c].answer.by = c
           /\ conn'[c].output \in {conn[c].output, << >>}
           /\ conn'[c].got = conn[c].got
  PROVE  OwnInv'
<1>1. CallbackOK'
  BY DEF OwnInv, CallbackOK, NoCallback
<1>2. \A c \in Client : conn'[c].output \in Seq(Peers) /\ conn'[c].got \in Seq(Peers)
  BY EmptyIn DEF OwnInv
<1>3. (~harmed => Own)'
  <2> SUFFICES ASSUME ~harmed', NEW c \in Client
               PROVE  /\ req'[c].state = "answered" => req'[c].answer.by = c
                      /\ conn'[c].output \in Seq({c}) /\ conn'[c].got \in Seq({c})
    BY DEF Own
  <2>1. Own
    BY DEF OwnInv
  <2> QED BY <2>1, EmptyIn DEF Own
<1>4. cb.pc \in {"reply", "walk"} => no_memory' = no_memory
  BY DEF NoCallback
<1>5. (cb.pc \in {"reply", "walk"} /\ no_memory => harmed)'
  BY <1>4 DEF OwnInv
<1>6. (cb.pc = "reply" /\ ~no_memory /\ (left = {cb.of} \/ ~harmed) => value.by = cb.of)'
  BY <1>4 DEF OwnInv
<1> QED BY <1>1, <1>2, <1>3, <1>5, <1>6 DEF OwnInv

(* Requests, and the files sent.                                           *)
LEMMA RequestsOwn ==
  ASSUME NEW c \in Client, OwnInv,
         \/ \E kind \in Kinds \cup {"file", "unreadable"} : Request(c, kind)
         \/ send_document_cb_file(c)
  PROVE  OwnInv'
<1>1. Shape
  BY DEF OwnInv
<1>2. CASE \E kind \in Kinds \cup {"file", "unreadable"} : Request(c, kind)
  <2> PICK kind \in Kinds \cup {"file", "unreadable"} : Request(c, kind)
    BY <1>2
  <2>1. Shape'
    BY <1>1 DEF Shape, Request
  <2>2. \A d \in Client : req'[d].state = "answered" =>
          req[d].state = "answered" /\ req'[d].answer = req[d].answer
    BY <1>1 DEF Shape, Request
  <2> QED BY <2>1, <2>2, QuietOwn DEF Request
<1>3. CASE send_document_cb_file(c)
  <2>1. Shape'
    BY <1>1, <1>3 DEF Shape, send_document_cb_file
  <2>2. \A d \in Client : req'[d].state = "answered" =>
          (req[d].state = "answered" /\ req'[d].answer = req[d].answer)
          \/ req'[d].answer.by = d
    BY <1>1, <1>3 DEF Shape, send_document_cb_file, Val
  <2> QED BY <1>3, <2>1, <2>2, QuietOwn DEF send_document_cb_file, Free
<1> QED BY <1>2, <1>3

(* Connections, as long as no callback of the interpreter runs.            *)
LEMMA ConnectionsOwn ==
  ASSUME NEW c \in Client, OwnInv,
         \/ accept_cb(c) \/ Peer(c) \/ ReadSocket(c) \/ conn_eventcb(c)
         \/ \E n \in 0 .. MaxBytes : SendDatagram(c, n)
  PROVE  OwnInv'
<1>1. Shape
  BY DEF OwnInv
<1>2. /\ UNCHANGED <<phase, value, left, harmed, no_memory, cb, req>>
      /\ Shape'
      /\ \A d \in Client : /\ conn'[d].output \in {conn[d].output, << >>}
                           /\ conn'[d].got = conn[d].got
  <2>1. CASE accept_cb(c)
    BY <1>1, <2>1 DEF Shape, accept_cb
  <2>2. CASE Peer(c)
    <3>1. CASE conn' = [conn EXCEPT ![c].sent = @ + 1]
      BY <1>1, <2>2, <3>1 DEF Shape, Peer
    <3>2. CASE \E end \in {"shut", "reset"} : conn' = [conn EXCEPT ![c].state = end]
      <4> PICK end \in {"shut", "reset"} : conn' = [conn EXCEPT ![c].state = end]
        BY <3>2
      <4>1. /\ Shape'
            /\ \A d \in Client : /\ conn'[d].output \in {conn[d].output, << >>}
                                 /\ conn'[d].got = conn[d].got
        BY <1>1, <2>2 DEF Shape, Peer
      <4> QED BY <2>2, <4>1 DEF Peer
    <3> QED BY <2>2, <3>1, <3>2 DEF Peer
  <2>3. CASE ReadSocket(c)
    BY <1>1, <2>3 DEF Shape, ReadSocket
  <2>4. CASE conn_eventcb(c)
    BY <1>1, <2>4 DEF Shape, conn_eventcb
  <2>5. CASE \E n \in 0 .. MaxBytes : SendDatagram(c, n)
    <3>1. ASSUME NEW r, NEW n, conn' = [conn EXCEPT ![c].state = r, ![c].sent = n], req' = req
          PROVE  /\ Shape'
                 /\ \A d \in Client : /\ conn'[d].output \in {conn[d].output, << >>}
                                      /\ conn'[d].got = conn[d].got
      BY <1>1, <3>1 DEF Shape
    <3>2. /\ UNCHANGED <<phase, value, left, harmed, no_memory, cb, req>>
          /\ \E r, n : conn' = [conn EXCEPT ![c].state = r, ![c].sent = n]
      BY <2>5 DEF SendDatagram
    <3> QED BY <3>1, <3>2
  <2> QED BY <2>1, <2>2, <2>3, <2>4, <2>5
<1> QED BY <1>2, QuietOwn

(* A callback calls the entry point: its evaluation is still to come.      *)
LEMMA CalledOwn ==
  ASSUME OwnInv, Shape', phase # "load", phase' # "load",
         value' = value, left' = left, harmed' = harmed,
         NEW c \in Client, NEW fn \in {"http", "tcp", "udp"}, Call(fn, c),
         req' = req,
         \A d \in Client : conn'[d].output = conn[d].output /\ conn'[d].got = conn[d].got
  PROVE  OwnInv'
<1>1. CallbackOK' /\ cb'.pc = "eval"
  BY DEF CallbackOK, Call
<1>2. \A d \in Client : conn'[d].output \in Seq(Peers) /\ conn'[d].got \in Seq(Peers)
  BY DEF OwnInv
<1>3. (~harmed => Own)'
  BY DEF OwnInv, Own
<1> QED BY <1>1, <1>2, <1>3 DEF OwnInv

LEMMA CallsOwn ==
  ASSUME NEW c \in Client, OwnInv,
         send_document_cb(c) \/ conn_readcb(c) \/ udp_event_cb(c)
  PROVE  OwnInv'
<1>1. Shape
  BY DEF OwnInv
<1>2. CASE send_document_cb(c)
  <2>1. Shape'
    BY <1>1, <1>2 DEF Shape, send_document_cb
  <2> QED BY <1>2, <2>1, CalledOwn DEF send_document_cb, Free
<1>3. CASE conn_readcb(c)
  <2>1. /\ Shape'
        /\ \A d \in Client : conn'[d].output = conn[d].output /\ conn'[d].got = conn[d].got
    BY <1>1, <1>3 DEF Shape, conn_readcb
  <2> QED BY <1>3, <2>1, CalledOwn DEF conn_readcb, Stream
<1>4. CASE udp_event_cb(c)
  <2>1. /\ Shape'
        /\ \A d \in Client : conn'[d].output = conn[d].output /\ conn'[d].got = conn[d].got
    BY <1>1, <1>4 DEF Shape, udp_event_cb
  <2>2. CASE conn[c].sent = 0
    BY <1>4, <2>1, <2>2, QuietOwn DEF udp_event_cb
  <2>3. CASE conn[c].sent # 0
    BY <1>4, <2>1, <2>3, CalledOwn DEF udp_event_cb, Datagrams
  <2> QED BY <2>2, <2>3
<1> QED BY <1>2, <1>3, <1>4

(* An evaluation ends in one of the three ways.                            *)
LEMMA EvaluatedOwn ==
  ASSUME OwnInv, cb.pc = "eval", phase # "load", phase' # "load",
         NEW v, v.by \in Peers, "by" \in DOMAIN v,
         EvalEnds(v) \/ EvalFails(v) \/ EvalStopped(v),
         cb' = [cb EXCEPT !.pc = "reply"],
         no_memory => EvalStopped(v),
         req' = req, conn' = conn
  PROVE  OwnInv'
<1>1. /\ cb \in [fn : {"http", "tcp", "udp"}, of : Client, pc : {"eval", "reply", "walk"}]
      /\ cb.of \in Client
  BY DEF OwnInv, CallbackOK, NoCallback
<1>2. CallbackOK' /\ cb'.of = cb.of
  BY <1>1 DEF CallbackOK
<1>3. Shape'
  BY DEF OwnInv, Shape
<1>4. harmed => harmed'
  BY DEF EvalEnds, EvalFails, EvalStopped
<1>5. (~harmed => Own)'
  BY <1>4 DEF OwnInv, Own
<1>6. /\ value'.by \in Peers /\ left' \subseteq Peers /\ (left' # {} => harmed')
      /\ no_memory' => harmed'
      /\ ~no_memory' /\ (left' = {cb.of} \/ ~harmed') => value'.by = cb.of
  <2>1. CASE EvalEnds(v)
    BY <1>1, <2>1 DEF EvalEnds, EvalStopped, OwnInv, Peers
  <2>2. CASE EvalFails(v)
    BY <1>1, <2>2 DEF EvalFails, EvalStopped, OwnInv, Peers
  <2>3. CASE EvalStopped(v)
    BY <1>1, <2>3 DEF EvalStopped, OwnInv, Peers
  <2> QED BY <2>1, <2>2, <2>3
<1> QED BY <1>2, <1>3, <1>5, <1>6 DEF OwnInv

(* The evaluations of the bulletin board, and of any program.              *)
LEMMA HandlersOwn ==
  ASSUME OwnInv, Handler \/ (AnyProgram /\ program = "any")
  PROVE  OwnInv'
<1>1. phase = "serve" /\ cb.pc = "eval"
  BY DEF Handler, Write, Page, NoPage, OutOfMemory, Evaluating, AnyProgram, Evaluate
<1>2. /\ cb \in [fn : {"http", "tcp", "udp"}, of : Client, pc : {"eval", "reply", "walk"}]
      /\ cb.of \in Peers
  BY <1>1 DEF OwnInv, CallbackOK, NoCallback, Peers
<1>3. \A tag, by, page : /\ Val(tag, by, page).by = by
                         /\ "by" \in DOMAIN Val(tag, by, page)
  BY DEF Val
<1>4. ASSUME value' = value, left' = left, harmed' = harmed, no_memory' = no_memory,
             cb' = cb, req' = req, conn' = conn, phase' # "load"
      PROVE  OwnInv'
  <2>1. Shape'
    BY <1>4 DEF OwnInv, Shape
  <2> QED BY <1>1, <1>4, <2>1, QuietOwn
<1>5. CASE Write
  <2>1. phase' # "load"
    BY <1>1, <1>5 DEF Write
  <2> QED BY <1>4, <1>5, <2>1 DEF Write
<1>6. CASE Page
  <2> PICK answer : /\ \/ /\ EvalEnds(Val("list", cb.of, Reversed(answer.rows)))
                          /\ cb' = [cb EXCEPT !.pc = "reply"] /\ UNCHANGED phase
                       \/ /\ EvalFails(Val("other", cb.of, << >>))
                          /\ cb' = [cb EXCEPT !.pc = "reply"] /\ UNCHANGED phase
                       \/ phase' = "down" /\ UNCHANGED <<cb, value, left, harmed, no_memory>>
    BY <1>6 DEF Page, run_query
  <2>1. ~no_memory /\ req' = req /\ conn' = conn
    BY <1>6 DEF Page
  <2>2. CASE phase' = "down" /\ UNCHANGED <<cb, value, left, harmed, no_memory>>
    BY <1>4, <2>1, <2>2
  <2>3. CASE /\ EvalEnds(Val("list", cb.of, Reversed(answer.rows)))
             /\ cb' = [cb EXCEPT !.pc = "reply"] /\ UNCHANGED phase
    BY <1>1, <1>2, <1>3, <2>1, <2>3, EvaluatedOwn
  <2>4. CASE /\ EvalFails(Val("other", cb.of, << >>))
             /\ cb' = [cb EXCEPT !.pc = "reply"] /\ UNCHANGED phase
    BY <1>1, <1>2, <1>3, <2>1, <2>4, EvaluatedOwn
  <2> QED BY <2>2, <2>3, <2>4
<1>7. CASE NoPage
  <2>1. \/ EvalFails(Val("other", cb.of, << >>))
        \/ EvalEnds(Val("nil", cb.of, << >>)) \/ EvalEnds(Val("list", cb.of, << >>))
    BY <1>7 DEF NoPage
  <2>2. /\ ~no_memory /\ req' = req /\ conn' = conn /\ phase' = phase
        /\ cb' = [cb EXCEPT !.pc = "reply"]
    BY <1>7 DEF NoPage
  <2> QED BY <1>1, <1>2, <1>3, <2>1, <2>2, EvaluatedOwn
<1>8. CASE OutOfMemory
  BY <1>1, <1>2, <1>3, <1>8, EvaluatedOwn DEF OutOfMemory
<1>9. CASE AnyProgram
  <2> PICK tag \in Outcomes : Evaluate(Val(tag, Main, << >>))
    BY <1>9 DEF AnyProgram
  <2>1. Main \in Peers
    BY DEF Peers
  <2> QED BY <1>1, <1>3, <2>1, EvaluatedOwn DEF Evaluate
<1> QED BY <1>5, <1>6, <1>7, <1>8, <1>9 DEF Handler

(* A client gets what the callback finds in sc->value.                     *)
LEMMA RepliesStepOwn ==
  ASSUME OwnInv, http_reply \/ tcp_reply \/ udp_return
  PROVE  OwnInv'
<1>1. /\ cb \in [fn : {"http", "tcp", "udp"}, of : Client, pc : {"eval", "reply", "walk"}]
      /\ cb.of \in Client /\ cb.pc = "reply" /\ phase = "serve"
  BY DEF OwnInv, CallbackOK, NoCallback, http_reply, tcp_reply, udp_return, Returned
<1>2. ~harmed => value.by = cb.of
  BY <1>1 DEF OwnInv
<1>3. /\ value' = value /\ left' = left /\ harmed' = harmed /\ no_memory' = no_memory
      /\ phase' # "load"
  BY <1>1 DEF http_reply, tcp_reply, udp_return
<1>4. /\ CallbackOK' /\ cb'.pc # "reply"
      /\ cb'.pc = "walk" => cb.pc = "reply"
  BY <1>1 DEF CallbackOK, NoCallback, http_reply, tcp_reply, udp_return
<1>5. /\ Shape'
      /\ ~harmed => \A d \in Client :
           (req[d].state = "answered" => req[d].answer.by = d)
           => (req'[d].state = "answered" => req'[d].answer.by = d)
  <2>1. Shape
    BY DEF OwnInv
  <2>2. CASE http_reply
    <3>1. \/ req' = req
          \/ \E answer : /\ answer.by = value.by
                         /\ req' = [req EXCEPT ![cb.of].state = "answered",
                                               ![cb.of].answer = answer]
          \/ req' = [req EXCEPT ![cb.of].state = "forgotten"]
      BY <2>2 DEF http_reply, Val
    <3>2. conn' = conn
      BY <2>2 DEF http_reply
    <3>3. CASE req' = req
      BY <2>1, <3>2, <3>3 DEF Shape
    <3>4. CASE req' = [req EXCEPT ![cb.of].state = "forgotten"]
      BY <1>1, <2>1, <3>2, <3>4 DEF Shape
    <3>5. ASSUME NEW answer, answer.by = value.by,
                 req' = [req EXCEPT ![cb.of].state = "answered", ![cb.of].answer = answer]
          PROVE  /\ Shape'
                 /\ \A d \in Client :
                      \/ req'[d] = req[d]
                      \/ d = cb.of /\ req'[d].answer = answer
      BY <1>1, <2>1, <3>2, <3>5 DEF Shape
    <3>6. CASE \E answer : /\ answer.by = value.by
                           /\ req' = [req EXCEPT ![cb.of].state = "answered",
                                                 ![cb.of].answer = answer]
      <4> PICK answer : /\ answer.by = value.by
                        /\ req' = [req EXCEPT ![cb.of].state = "answered",
                                              ![cb.of].answer = answer]
        BY <3>6
      <4>1. /\ Shape'
            /\ \A d \in Client : req'[d] = req[d] \/ (d = cb.of /\ req'[d].answer = answer)
        BY <3>5
      <4> QED BY <1>2, <4>1
    <3> QED BY <3>1, <3>3, <3>4, <3>6
  <2>3. CASE tcp_reply
    BY <1>1, <2>1, <2>3 DEF Shape, tcp_reply
  <2>4. CASE udp_return
    BY <2>1, <2>4 DEF Shape, udp_return
  <2> QED BY <2>2, <2>3, <2>4
<1>6. \A d \in Client :
        /\ conn'[d].got = conn[d].got
        /\ \/ conn'[d].output = conn[d].output
           \/ d = cb.of /\ conn'[d].output = Append(conn[d].output, value.by)
  <2>1. \/ conn' = conn
        \/ conn' = [conn EXCEPT ![cb.of].output = Append(@, value.by)]
    BY DEF http_reply, tcp_reply, udp_return
  <2> QED BY <1>1, <2>1 DEF OwnInv, Shape
<1>7. \A d \in Client : conn'[d].output \in Seq(Peers) /\ conn'[d].got \in Seq(Peers)
  <2> SUFFICES ASSUME NEW d \in Client
               PROVE  conn'[d].output \in Seq(Peers) /\ conn'[d].got \in Seq(Peers)
    OBVIOUS
  <2>1. conn[d].output \in Seq(Peers) /\ conn[d].got \in Seq(Peers) /\ value.by \in Peers
    BY DEF OwnInv
  <2> QED BY <1>6, <2>1, AppendIn
<1>8. (~harmed => Own)'
  <2> SUFFICES ASSUME ~harmed, NEW d \in Client
               PROVE  /\ req'[d].state = "answered" => req'[d].answer.by = d
                      /\ conn'[d].output \in Seq({d}) /\ conn'[d].got \in Seq({d})
    BY <1>3 DEF Own
  <2>1. Own
    BY DEF OwnInv
  <2>2. req'[d].state = "answered" => req'[d].answer.by = d
    BY <1>5, <2>1 DEF Own
  <2>3. conn[d].output \in Seq({d}) /\ conn[d].got \in Seq({d})
    BY <2>1 DEF Own
  <2>4. conn'[d].output \in Seq({d})
    <3>1. CASE conn'[d].output = conn[d].output
      BY <2>3, <3>1
    <3>2. CASE d = cb.of /\ conn'[d].output = Append(conn[d].output, value.by)
      <4>1. value.by \in {d}
        BY <1>2, <3>2
      <4> QED BY <2>3, <3>2, <4>1, AppendIn
    <3> QED BY <1>6, <3>1, <3>2
  <2> QED BY <1>6, <2>2, <2>3, <2>4
<1> QED BY <1>1, <1>3, <1>4, <1>5, <1>7, <1>8 DEF OwnInv

(* The socket takes what is to be written.                                 *)
LEMMA WriteSocketOwn ==
  ASSUME NEW c \in Client, OwnInv, WriteSocket(c)
  PROVE  OwnInv'
<1>1. Shape'
  BY DEF OwnInv, Shape, WriteSocket
<1>2. \A d \in Client :
        \/ conn'[d].output = conn[d].output /\ conn'[d].got = conn[d].got
        \/ /\ conn[d].output # << >>
           /\ conn'[d].output = Tail(conn[d].output)
           /\ conn'[d].got = Append(conn[d].got, Head(conn[d].output))
  BY DEF OwnInv, Shape, WriteSocket
<1>3. ASSUME NEW S, NEW d \in Client, conn[d].output \in Seq(S), conn[d].got \in Seq(S)
      PROVE  conn'[d].output \in Seq(S) /\ conn'[d].got \in Seq(S)
  <2>1. CASE conn'[d].output = conn[d].output /\ conn'[d].got = conn[d].got
    BY <1>3, <2>1
  <2>2. ASSUME NEW o \in Seq(S), o # << >>, NEW g \in Seq(S)
        PROVE  Tail(o) \in Seq(S) /\ Append(g, Head(o)) \in Seq(S)
    BY <2>2
  <2> QED BY <1>2, <1>3, <2>1, <2>2
<1>4. UNCHANGED <<phase, value, left, harmed, no_memory, cb, req>>
  BY DEF WriteSocket
<1>5. (~harmed => Own)'
  BY <1>3, <1>4 DEF OwnInv, Own
<1>6. CallbackOK'
  BY <1>4 DEF OwnInv, CallbackOK, NoCallback
<1>7. \A d \in Client : conn'[d].output \in Seq(Peers) /\ conn'[d].got \in Seq(Peers)
  BY <1>3 DEF OwnInv
<1> QED BY <1>1, <1>4, <1>5, <1>6, <1>7 DEF OwnInv

LEMMA StepOwn == OwnInv /\ [Next]_vars => OwnInv'
<1> SUFFICES ASSUME OwnInv, [Next]_vars
             PROVE  OwnInv'
  OBVIOUS
<1>1. ASSUME UNCHANGED serverVars
      PROVE  OwnInv'
  <2>1. Shape'
    BY <1>1 DEF OwnInv, Shape, serverVars
  <2> QED BY <1>1, <2>1, QuietOwn DEF serverVars
<1>2. ASSUME NEW failed \in BOOLEAN, Serve(failed)
      PROVE  OwnInv'
  <2>1. /\ phase = "load" /\ phase' = "serve"
        /\ left' = IF failed THEN {Main} ELSE {}
        /\ harmed' = failed
        /\ UNCHANGED <<value, no_memory, cb, req, conn>>
    BY <1>2 DEF Serve
  <2>2. cb = NoCallback /\ ~harmed
    BY <2>1 DEF OwnInv
  <2>3. CallbackOK' /\ cb'.pc = "none"
    BY <2>1, <2>2 DEF CallbackOK, NoCallback
  <2>4. Shape' /\ Own'
    BY <2>1, <2>2 DEF OwnInv, Shape, Own
  <2>5. left' \subseteq Peers /\ (left' # {} => harmed')
    BY <2>1 DEF Peers
  <2> QED BY <2>1, <2>3, <2>4, <2>5 DEF OwnInv
<1>3. CASE Load
  BY <1>1, <1>2, <1>3 DEF Load
<1>4. CASE LockFile
  BY <1>1, <1>4 DEF LockFile
<1>5. CASE Loop
  <2>1. CASE signal_cb
    <3>1. Shape'
      BY <2>1 DEF OwnInv, Shape, signal_cb
    <3> QED BY <2>1, <3>1, QuietOwn DEF signal_cb
  <2>2. CASE Exit
    <3>1. /\ cb = NoCallback /\ cb' = cb /\ left' = {} /\ value'.by = Main
          /\ phase' = "exit"
          /\ UNCHANGED <<harmed, no_memory, req, conn>>
      BY <2>2 DEF Exit, Free, Val
    <3>2. CallbackOK' /\ cb'.pc = "none"
      BY <3>1 DEF CallbackOK, NoCallback
    <3>3. Shape' /\ (~harmed => Own)'
      BY <3>1 DEF OwnInv, Shape, Own
    <3>4. Main \in Peers
      BY DEF Peers
    <3> QED BY <3>1, <3>2, <3>3, <3>4 DEF OwnInv
  <2> QED BY <1>5, <2>1, <2>2 DEF Loop
<1>6. ASSUME NEW c \in Client,
             Receive(c) \/ Respond(c) \/ Transport(c) \/ Environment(c)
      PROVE  OwnInv'
  BY <1>6, RequestsOwn, ConnectionsOwn, CallsOwn, WriteSocketOwn
  DEF Receive, Respond, Transport, Environment
<1>7. CASE Handler \/ AnyProgram
  BY <1>7, HandlersOwn DEF AnyProgram
<1>8. CASE Reply
  BY <1>8, RepliesStepOwn DEF Reply
<1>9. CASE UNCHANGED vars
  BY <1>1, <1>9 DEF vars
<1> QED BY <1>3, <1>4, <1>5, <1>6, <1>7, <1>8, <1>9 DEF Next

(* No peer gets what was computed for another one, or at load, before an   *)
(* evaluation has failed: for any number of peers and any program.         *)
THEOREM RepliesOwnTheorem == Spec => []RepliesOwn
<1>1. Init => OwnInv
  BY InitOwn
<1>2. OwnInv /\ [Next]_vars => OwnInv'
  BY StepOwn
<1>3. OwnInv => RepliesOwn
  <2> SUFFICES ASSUME OwnInv
               PROVE  RepliesOwn
    OBVIOUS
  <2>1. ASSUME ~harmed, NEW c \in Client, NEW x \in DOMAIN conn[c].got
        PROVE  conn[c].got[x] = c
    <3>1. conn[c].got \in Seq({c})
      BY <2>1 DEF OwnInv, Own
    <3> QED BY <2>1, <3>1
  <2> QED BY <2>1 DEF OwnInv, Own, RepliesOwn
<1> QED BY <1>1, <1>2, <1>3, PTL DEF Spec

---------------------------------------------------------------------------
(* What ends the process of the bulletin board.                            *)

Excused ==
  \/ trouble \/ no_memory
  \/ \E c \in Client : req[c].kind = "bare"

(* The database of the board is opened before its table is made, and its   *)
(* table is there before it serves, unless there was trouble; what is to   *)
(* be replied is no list only for a reason that StaysUp names.             *)
BoardOpened ==
  /\ handles \in Seq({"open", "sick"}) /\ db \in Nat
  /\ phase # "load" \/ todo # << >> => db # 0 /\ (handles[db] = "open" \/ trouble)
  /\ phase # "load" => there \/ trouble
  /\ locked => trouble
  /\ table \in Seq(Peers)

BoardTodo ==
  /\ todo \in {<< >>, <<"create">>, <<"select">>, <<"insert", "select">>,
               <<"delete", "select">>}
  /\ phase = "load" => todo \in {<< >>, <<"create">>}
  /\ phase # "load" => todo # <<"create">>

BoardReplies ==
  /\ \A c \in Client : req[c].state = "none" => req[c].kind = "none"
  /\ cb.fn \in {"none", "http"}
  /\ cb.pc = "reply" => value.tag \notin {"T", "string", "other"} \/ Excused
  /\ phase = "down" => \/ Excused
                       \/ \E c \in Client : req[c].kind = "unreadable"
                       \/ Len(table) > Capacity

UpInv ==
  program = "bb" =>
    server_type = "HTTP" /\ BoardOpened /\ BoardTodo /\ BoardReplies

LEMMA CapacityIsNat == Capacity \in Nat
<1>1. \A a \in Nat, b \in Nat \ {0} : a \div b \in Nat
  OBVIOUS
<1>2. \A a, b \in Nat : a * b \in Nat
  OBVIOUS
<1>3. (max_rows * PointerSize) \div PageSize \in Nat
  BY <1>1, <1>2, DatabaseAssumption
<1>4. ((max_rows * PointerSize) \div PageSize) * PageSize \in Nat
  BY <1>2, <1>3, DatabaseAssumption
<1>5. 1 + ((max_rows * PointerSize) \div PageSize) * PageSize \in Nat
  BY <1>4
<1> QED BY <1>1, <1>5, DatabaseAssumption DEF Capacity

LEMMA InitUp == Init => UpInv
<1> SUFFICES ASSUME Init, program = "bb"
             PROVE  server_type = "HTTP" /\ BoardOpened /\ BoardTodo /\ BoardReplies
  BY DEF UpInv
<1>1. phase = "load" /\ todo = << >> /\ server_type = "HTTP"
  BY DEF Init, ServerInit
<1>2. handles = << >> /\ db = 0 /\ locked = FALSE /\ table = << >>
  BY DEF Init, DatabaseInit
<1>3. << >> # <<"create">>
  OBVIOUS
<1>4. BoardOpened
  BY <1>1, <1>2, <1>3, EmptyIn DEF BoardOpened
<1>5. BoardTodo
  BY <1>1, <1>3 DEF BoardTodo
<1>6. BoardReplies
  BY <1>1 DEF Init, ServerInit, BoardReplies, NoCallback
<1> QED BY <1>1, <1>4, <1>5, <1>6

(* What sqlite_query may return and do, once the board serves.             *)
LEMMA QueryUp ==
  ASSUME BoardOpened, phase # "load",
         NEW stmt \in {"insert", "delete", "select"}, NEW row \in Peers, NEW answer,
         sqlite_query(stmt, row, answer)
  PROVE  /\ db' = db /\ handles' = handles /\ locked' = locked
         /\ table' \in Seq(Peers)
         /\ stmt = "select" => table' = table
         /\ there => there'
         /\ answer.tag = "#f" => trouble
         /\ answer.tag = "crash" => stmt = "select" /\ Len(table) > Capacity
         /\ stmt = "insert" => table' = Append(table, row) \/ trouble
         /\ stmt = "delete" => table' = << >> \/ trouble
         /\ stmt = "select" /\ answer.tag = "vector" =>
              answer.rows = table \/ trouble \/ Len(table) > max_rows + 1
<1>1. PICK prepared \in Prepare(stmt), stepped \in Step :
        /\ answer \in QueryResults(prepared, stepped,
                                   IF stmt = "select" THEN table ELSE << >>)
        /\ IF prepared = "ok" /\ stepped = "done" THEN Execute(stmt, row)
           ELSE UNCHANGED <<there, table>>
        /\ UNCHANGED <<db, handles, locked>>
  BY DEF sqlite_query
<1>2. /\ table \in Seq(Peers) /\ db # 0
      /\ there \/ trouble
      /\ handles[db] = "open" \/ trouble
      /\ locked => trouble
  BY DEF BoardOpened
<1>3. prepared = "ok" \/ trouble
  BY <1>1, <1>2 DEF Prepare
<1>4. stepped = "done" \/ trouble
  BY <1>1, <1>2 DEF Step
<1>5. /\ table' \in Seq(Peers)
      /\ stmt = "select" => table' = table
      /\ there => there'
  BY <1>1, <1>2, EmptyIn, AppendIn DEF Execute
<1> DEFINE selected == IF stmt = "select" THEN table ELSE << >>
           rows == SubSeq(selected, 1, IF Len(selected) > max_rows THEN max_rows + 1
                                       ELSE Len(selected))
<1>6. /\ answer = Failure => trouble
      /\ answer = Crash => Len(rows) > Capacity
      /\ answer.tag = "#f" => answer = Failure
      /\ answer.tag = "crash" => answer = Crash
  <2>1. /\ Failure.tag = "#f" /\ Crash.tag = "crash"
        /\ \A r : Vector(r).tag = "vector"
    BY DEF Failure, Crash, Vector
  <2>2. answer \in QueryResults(prepared, stepped, selected)
    BY <1>1
  <2>3. CASE prepared = "error"
    <3>1. answer = Failure
      BY <1>2, <2>2, <2>3 DEF QueryResults
    <3> QED BY <1>3, <2>1, <2>3, <3>1
  <2>4. CASE prepared \in {"misuse", "busy"}
    <3>1. answer = Vector(<< >>)
      BY <1>2, <2>2, <2>4 DEF QueryResults
    <3> QED BY <2>1, <3>1
  <2>5. CASE prepared = "ok" /\ stepped = "busy"
    <3>1. answer = Failure
      BY <1>2, <2>2, <2>5 DEF QueryResults
    <3> QED BY <1>4, <2>1, <2>5, <3>1
  <2>6. CASE prepared = "ok" /\ stepped = "done"
    <3>1. answer \in {Vector(rows)} \cup (IF Len(rows) > Capacity THEN {Crash} ELSE {})
      BY <1>2, <2>2, <2>6 DEF QueryResults
    <3> QED BY <2>1, <3>1
  <2>7. prepared \in {"error", "misuse", "busy", "ok"} /\ stepped \in {"done", "busy"}
    BY <1>1 DEF Prepare, Step
  <2> QED BY <2>3, <2>4, <2>5, <2>6, <2>7
<1>7. selected \in Seq(Peers) /\ Len(selected) \in Nat
  BY <1>2, EmptyIn
<1>8. Len(rows) <= Len(selected)
  BY <1>7, DatabaseAssumption
<1>9. answer.tag = "crash" => stmt = "select" /\ Len(table) > Capacity
  <2> SUFFICES ASSUME answer.tag = "crash"
               PROVE  stmt = "select" /\ Len(table) > Capacity
    OBVIOUS
  <2>1. Len(rows) > Capacity
    BY <1>6
  <2>2. Len(selected) > Capacity
    <3>1. Len(rows) \in Nat
      BY <1>7, DatabaseAssumption
    <3> HIDE DEF selected, rows
    <3> QED BY <1>7, <1>8, <2>1, <3>1, CapacityIsNat
  <2>3. CASE stmt # "select"
    <3>1. Len(selected) = 0
      BY <2>3
    <3> HIDE DEF selected
    <3> QED BY <2>2, <3>1, CapacityIsNat
  <2> QED BY <2>2, <2>3
<1>10. /\ stmt = "insert" => table' = Append(table, row) \/ trouble
       /\ stmt = "delete" => table' = << >> \/ trouble
  BY <1>1, <1>3, <1>4 DEF Execute
<1>11. ASSUME stmt = "select", answer.tag = "vector", ~trouble, ~(Len(table) > max_rows + 1)
       PROVE  answer.rows = table
  <2>1. Failure.tag # "vector" /\ Crash.tag # "vector" /\ \A r : Vector(r).rows = r
    BY DEF Failure, Crash, Vector
  <2>2. answer \in {Vector(rows)} \cup (IF Len(rows) > Capacity THEN {Crash} ELSE {})
    BY <1>1, <1>2, <1>3, <1>4, <1>11 DEF QueryResults
  <2>3. answer.rows = rows
    BY <1>11, <2>1, <2>2
  <2>4. rows = SubSeq(table, 1, Len(table))
    BY <1>2, <1>11, DatabaseAssumption
  <2>5. SubSeq(table, 1, Len(table)) = table
    BY <1>2
  <2> QED BY <2>3, <2>4, <2>5
<1> QED BY <1>1, <1>5, <1>6, <1>9, <1>10, <1>11

(* A step that changes neither the database nor the result.                *)
LEMMA QuietUp ==
  ASSUME OwnInv, UpInv, program' = program, server_type' = server_type,
         phase = "load" <=> phase' = "load",
         UNCHANGED <<dbVars, todo, trouble>>,
         no_memory => no_memory',
         \A c \in Client : \/ req'[c].kind = req[c].kind
                           \/ req[c].state = "none",
         \A c \in Client : req'[c].state = "none" => req'[c] = req[c],
         cb'.fn \in {cb.fn, "none", "http"},
         (cb' = cb /\ value' = value) \/ cb'.pc # "reply",
         phase' = "down" =>
           \/ phase = "down" \/ Excused'
           \/ \E c \in Client : req'[c].kind = "unreadable"
  PROVE  UpInv'
<1> SUFFICES ASSUME program = "bb"
             PROVE  (server_type = "HTTP" /\ BoardOpened /\ BoardTodo /\ BoardReplies)'
  BY DEF UpInv
<1>1. server_type = "HTTP" /\ BoardOpened /\ BoardTodo /\ BoardReplies
  BY DEF UpInv
<1>2. BoardOpened' /\ BoardTodo'
  BY <1>1 DEF BoardOpened, BoardTodo, dbVars
<1>3. \A c \in Client : req[c].kind \in {"bare", "unreadable"} => req'[c].kind = req[c].kind
  BY <1>1 DEF BoardReplies
<1>4. Excused => Excused'
  BY <1>3 DEF Excused
<1>5. table' = table
  BY DEF dbVars
<1>6. BoardReplies'
  <2>1. \A c \in Client : req'[c].state = "none" => req'[c].kind = "none"
    BY <1>1 DEF BoardReplies
  <2>2. cb'.pc = "reply" => value'.tag \notin {"T", "string", "other"} \/ Excused'
    BY <1>1, <1>4 DEF BoardReplies
  <2>3. phase' = "down" => \/ Excused'
                           \/ \E c \in Client : req'[c].kind = "unreadable"
                           \/ Len(table') > Capacity
    <3>1. CASE phase = "down"
      <4>1. \/ Excused
            \/ \E c \in Client : req[c].kind = "unreadable"
            \/ Len(table) > Capacity
        BY <1>1, <3>1 DEF BoardReplies
      <4> QED BY <1>3, <1>4, <1>5, <4>1
    <3> QED BY <3>1
  <2> QED BY <1>1, <2>1, <2>2, <2>3 DEF BoardReplies, Capacity
<1> QED BY <1>1, <1>2, <1>6

LEMMA LoadUp ==
  ASSUME UpInv, OwnInv, Load \/ LockFile
  PROVE  UpInv'
<1> SUFFICES ASSUME program' = "bb"
             PROVE  (server_type = "HTTP" /\ BoardOpened /\ BoardTodo /\ BoardReplies)'
  BY DEF UpInv
<1>1. program = "bb"
  BY DEF Load, LockFile
<1>2. server_type = "HTTP" /\ BoardOpened /\ BoardTodo /\ BoardReplies
  BY <1>1 DEF UpInv
<1>3. << >> # <<"create">>
  OBVIOUS
<1>4. ASSUME UNCHANGED <<phase, no_memory, cb, value, req>>, trouble => trouble', table' = table
      PROVE  BoardReplies'
  BY <1>2, <1>4 DEF BoardReplies, Excused, Capacity
<1>5. CASE /\ phase = "load" /\ todo = << >>
           /\ \E opens \in BOOLEAN : sqlite_open(opens) /\ trouble' = (trouble \/ ~opens)
           /\ todo' = <<"create">>
           /\ UNCHANGED <<serverVars, program>>
  <2> PICK opens \in BOOLEAN : sqlite_open(opens) /\ trouble' = (trouble \/ ~opens)
    BY <1>5
  <2> DEFINE h == IF opens THEN "open" ELSE "sick"
  <2>1. /\ handles' = Append(handles, h) /\ db' = Len(handles')
        /\ UNCHANGED <<there, table, locked>>
    BY DEF sqlite_open
  <2>2. /\ handles' \in Seq({"open", "sick"}) /\ db' \in Nat /\ db' # 0
        /\ handles'[db'] = h
    <3>1. handles \in Seq({"open", "sick"}) /\ h \in {"open", "sick"}
      BY <1>2 DEF BoardOpened
    <3> HIDE DEF h
    <3> QED BY <2>1, <3>1
  <2>3. h = "open" \/ trouble'
    OBVIOUS
  <2>4. phase' = "load" /\ UNCHANGED <<server_type, no_memory, cb, value, req>>
    BY <1>5 DEF serverVars
  <2>5. BoardOpened'
    BY <1>2, <2>1, <2>2, <2>3, <2>4 DEF BoardOpened
  <2>6. BoardTodo'
    BY <1>5, <2>4 DEF BoardTodo
  <2>7. BoardReplies'
    BY <1>4, <1>5, <2>1, <2>4
  <2> QED BY <1>2, <2>4, <2>5, <2>6, <2>7
<1>6. CASE /\ todo = <<"create">>
           /\ \E answer \in {Failure, Vector(<< >>)} : sqlite_query("create", Main, answer)
           /\ todo' = << >>
           /\ Serve(FALSE)
           /\ UNCHANGED <<program, trouble>>
  <2>1. /\ phase = "load" /\ phase' = "serve"
        /\ UNCHANGED <<server_type, value, no_memory, cb, req>>
    BY <1>6 DEF Serve
  <2>2. /\ handles \in Seq({"open", "sick"}) /\ db \in Nat /\ db # 0
        /\ handles[db] = "open" \/ trouble
        /\ locked => trouble
        /\ table \in Seq(Peers)
    BY <1>2, <1>3, <1>6, <2>1 DEF BoardOpened
  <2> PICK answer \in {Failure, Vector(<< >>)} : sqlite_query("create", Main, answer)
    BY <1>6
  <2>3. PICK prepared \in Prepare("create"), stepped \in Step :
          /\ IF prepared = "ok" /\ stepped = "done" THEN Execute("create", Main)
             ELSE UNCHANGED <<there, table>>
          /\ UNCHANGED <<db, handles, locked>>
    BY DEF sqlite_query
  <2>4. table' = table /\ (there' \/ trouble)
    BY <2>2, <2>3 DEF Prepare, Step, Execute
  <2>5. BoardOpened'
    BY <1>6, <2>1, <2>2, <2>3, <2>4 DEF BoardOpened
  <2>6. BoardTodo'
    BY <1>3, <1>6, <2>1 DEF BoardTodo
  <2>7. cb = NoCallback /\ cb'.pc = "none"
    BY <2>1 DEF OwnInv, NoCallback
  <2>8. BoardReplies'
    BY <1>2, <2>1, <2>7 DEF BoardReplies, NoCallback
  <2> QED BY <1>2, <2>1, <2>5, <2>6, <2>8
<1>7. CASE LockFile
  <2>1. /\ UNCHANGED <<serverVars, db, handles, there, table, todo>> /\ trouble' = TRUE
    BY <1>7 DEF LockFile, Lock
  <2>2. UNCHANGED <<server_type, phase, no_memory, cb, value, req>>
    BY <2>1 DEF serverVars
  <2>3. BoardOpened' /\ BoardTodo'
    BY <1>2, <2>1, <2>2 DEF BoardOpened, BoardTodo
  <2>4. BoardReplies'
    BY <1>4, <2>1, <2>2
  <2> QED BY <1>2, <2>2, <2>3, <2>4
<1> QED BY <1>1, <1>5, <1>6, <1>7 DEF Load

(* The loop, the peers and the callbacks that evaluate nothing.            *)
LEMMA PeersUp ==
  ASSUME NEW c, UpInv, OwnInv, program = "bb",
         \/ Loop \/ Reply
         \/ c \in Client /\ (Respond(c) \/ Transport(c) \/ Environment(c))
  PROVE  UpInv'
<1>1. Shape /\ server_type = "HTTP" /\ BoardReplies
  BY DEF OwnInv, UpInv
<1>2. program' = program /\ UNCHANGED <<dbVars, todo, trouble>>
  BY DEF Loop, Respond, Transport, Environment, Reply
<1>3. CASE Loop
  BY <1>1, <1>2, <1>3, QuietUp DEF Loop, signal_cb, Exit, Free, NoCallback
<1>4. CASE c \in Client /\ Respond(c)
  <2>1. send_document_cb_file(c)
    BY <1>1, <1>4 DEF Respond, accept_cb, conn_readcb, conn_eventcb, udp_event_cb, Stream,
                      Datagrams
  <2>2. \A d \in Client : req'[d].kind = req[d].kind
                         /\ (req'[d].state = "none" => req'[d] = req[d])
    BY <1>1, <1>4, <2>1 DEF send_document_cb_file, Shape
  <2>3. /\ phase' = phase \/ (phase' = "down" /\ req[c].kind = "unreadable" /\ req' = req)
        /\ phase = "serve"
        /\ UNCHANGED <<server_type, no_memory, cb, value>>
    BY <2>1 DEF send_document_cb_file, Free
  <2> QED BY <1>2, <1>4, <2>2, <2>3, QuietUp
<1>5. CASE c \in Client /\ Transport(c)
  BY <1>1, <1>5 DEF Transport, ReadSocket, WriteSocket, Stream
<1>6. CASE c \in Client /\ Environment(c)
  <2>1. PICK kind \in Kinds \cup {"file", "unreadable"} : Request(c, kind)
    BY <1>1, <1>6 DEF Environment, Peer, SendDatagram, Stream, Datagrams
  <2>2. /\ \A d \in Client : req'[d].kind = req[d].kind \/ req[d].state = "none"
        /\ \A d \in Client : req'[d].state = "none" => req'[d] = req[d]
    BY <1>1, <1>6, <2>1 DEF Request, Shape
  <2>3. UNCHANGED <<phase, server_type, no_memory, cb, value>>
    BY <2>1 DEF Request
  <2> QED BY <1>2, <2>2, <2>3, QuietUp
<1>7. CASE Reply
  <2>1. http_reply /\ cb.pc = "reply"
    BY <1>1, <1>7 DEF Reply, BoardReplies, http_reply, tcp_reply, udp_return, Returned
  <2>2. cb \in [fn : {"http", "tcp", "udp"}, of : Client, pc : {"eval", "reply", "walk"}]
    BY <2>1 DEF OwnInv, CallbackOK, NoCallback
  <2>3. /\ phase = "serve" /\ phase' \in {"serve", "down"}
        /\ phase' = "down" => value.tag \in {"T", "string", "other"} /\ req' = req
        /\ UNCHANGED <<server_type, no_memory, value>>
        /\ cb'.pc # "reply" /\ cb'.fn \in {"none", "http"}
    BY <1>1, <2>1, <2>2 DEF http_reply, Returned, NoCallback, BoardReplies
  <2>4. \A d \in Client : req'[d].kind = req[d].kind
                         /\ (req'[d].state = "none" => req'[d] = req[d])
    <3>1. \/ req' = req
          \/ \E answer : req' = [req EXCEPT ![cb.of].state = "answered",
                                           ![cb.of].answer = answer]
          \/ req' = [req EXCEPT ![cb.of].state = "forgotten"]
      BY <2>1 DEF http_reply
    <3>2. ASSUME NEW answer, req' = [req EXCEPT ![cb.of].state = "answered",
                                               ![cb.of].answer = answer]
          PROVE  \A d \in Client : req'[d].kind = req[d].kind
                                  /\ (req'[d].state = "none" => req'[d] = req[d])
      BY <1>1, <2>2, <3>2 DEF Shape
    <3>3. CASE req' = [req EXCEPT ![cb.of].state = "forgotten"]
      BY <1>1, <2>2, <3>3 DEF Shape
    <3> QED BY <3>1, <3>2, <3>3
  <2>5. phase' = "down" => Excused'
    <3>1. phase' = "down" => Excused /\ req' = req
      BY <1>1, <2>1, <2>3 DEF BoardReplies
    <3> QED BY <1>2, <2>3, <3>1 DEF Excused
  <2> QED BY <1>2, <2>3, <2>4, <2>5, QuietUp
<1> QED BY <1>3, <1>4, <1>5, <1>6, <1>7

(* A handler is called.                                                    *)
LEMMA ReceiveUp ==
  ASSUME NEW c \in Client, UpInv, OwnInv, Receive(c)
  PROVE  UpInv'
<1>1. server_type = "HTTP" /\ BoardOpened /\ BoardTodo /\ BoardReplies
  BY DEF UpInv, Receive
<1>2. /\ phase = "serve" /\ phase' = "serve"
      /\ cb' = [fn |-> "http", of |-> c, pc |-> "eval"]
      /\ UNCHANGED <<server_type, value, req, dbVars, trouble>>
      /\ todo' = Statements(req[c].kind)
  BY DEF Receive, send_document_cb, Free, Call
<1>3. BoardOpened'
  BY <1>1, <1>2 DEF BoardOpened, dbVars
<1>4. BoardTodo'
  <2>1. Statements(req[c].kind) \in {<< >>, <<"select">>, <<"insert", "select">>,
                                    <<"delete", "select">>}
    BY DEF Statements
  <2>2. <<"create">> \notin {<< >>, <<"select">>, <<"insert", "select">>,
                            <<"delete", "select">>}
    OBVIOUS
  <2> QED BY <1>2, <2>1, <2>2 DEF BoardTodo
<1>5. BoardReplies'
  BY <1>1, <1>2 DEF BoardReplies
<1> QED BY <1>1, <1>2, <1>3, <1>4, <1>5 DEF UpInv

(* A handler goes on.                                                      *)
LEMMA HandlerUp ==
  ASSUME UpInv, OwnInv, Handler
  PROVE  UpInv'
<1>1. program = "bb" /\ program' = "bb" /\ phase = "serve" /\ cb.pc = "eval"
  BY DEF Handler, Write, Page, NoPage, OutOfMemory, Evaluating
<1>2. server_type = "HTTP" /\ BoardOpened /\ BoardTodo /\ BoardReplies
  BY <1>1 DEF UpInv
<1>3. /\ cb \in [fn : {"http", "tcp", "udp"}, of : Client, pc : {"eval", "reply", "walk"}]
      /\ cb.fn = "http" /\ cb.of \in Peers
  BY <1>1, <1>2 DEF OwnInv, CallbackOK, NoCallback, BoardReplies, Peers
<1>4. UNCHANGED <<server_type, req, trouble>> /\ (no_memory => no_memory')
  BY DEF Handler, Write, Page, NoPage, OutOfMemory, EvalEnds, EvalFails, EvalStopped
<1>5. ASSUME NEW stmt \in {"insert", "delete", "select"}, NEW answer,
             sqlite_query(stmt, cb.of, answer), phase' # "load"
      PROVE  BoardOpened'
  BY <1>1, <1>2, <1>3, <1>4, <1>5, QueryUp DEF BoardOpened
<1>6. ASSUME phase' # "load", todo' = << >> \/ todo' = <<"select">>
      PROVE  BoardTodo'
  <2>1. <<"create">> # << >> /\ <<"create">> # <<"select">>
    OBVIOUS
  <2> QED BY <1>6, <2>1 DEF BoardTodo
<1>7. ASSUME phase' = "serve", cb' = [cb EXCEPT !.pc = "reply"],
             value'.tag \notin {"T", "string", "other"} \/ Excused'
      PROVE  BoardReplies'
  BY <1>2, <1>3, <1>4, <1>7 DEF BoardReplies
<1>8. CASE Write
  <2>1. PICK answer \in {Failure, Vector(<< >>), Crash} :
          /\ sqlite_query(Head(todo), cb.of, answer)
          /\ phase' = IF answer.tag = "crash" THEN "down" ELSE phase
    BY <1>8 DEF Write
  <2>2. Head(todo) \in {"insert", "delete"} /\ Tail(todo) = <<"select">>
    <3>1. Len(<< >>) = 0 /\ Len(<<"create">>) = 1 /\ Len(<<"select">>) = 1
      OBVIOUS
    <3>2. todo = <<"insert", "select">> \/ todo = <<"delete", "select">>
      <4>1. Len(todo) = 2
        BY <1>8 DEF Write
      <4>2. todo \in {<< >>, <<"create">>, <<"select">>, <<"insert", "select">>,
                     <<"delete", "select">>}
        BY <1>2 DEF BoardTodo
      <4> QED BY <3>1, <4>1, <4>2
    <3>3. ASSUME NEW stmt
          PROVE  Head(<<stmt, "select">>) = stmt /\ Tail(<<stmt, "select">>) = <<"select">>
      OBVIOUS
    <3> QED BY <3>2, <3>3
  <2>3. phase' = phase
    BY <1>1, <1>2, <1>3, <2>1, <2>2, QueryUp
  <2>4. cb' = cb /\ todo' = <<"select">>
    BY <1>8, <2>2 DEF Write
  <2>5. BoardReplies'
    BY <1>1, <1>2, <1>4, <2>3, <2>4 DEF BoardReplies
  <2> QED BY <1>1, <1>2, <1>4, <1>5, <1>6, <2>1, <2>2, <2>3, <2>4, <2>5 DEF UpInv
<1>9. CASE Page
  <2>1. PICK answer \in {Failure, Crash}
                        \cup {Vector(SubSeq(table, 1, n)) : n \in 0 .. Len(table)} :
          /\ sqlite_query("select", cb.of, answer)
          /\ \/ /\ run_query(answer) = "vector"
                /\ EvalEnds(Val("list", cb.of, Reversed(answer.rows)))
                /\ cb' = [cb EXCEPT !.pc = "reply"] /\ UNCHANGED phase
             \/ /\ run_query(answer) = "sqlite-error"
                /\ EvalFails(Val("other", cb.of, << >>))
                /\ cb' = [cb EXCEPT !.pc = "reply"] /\ UNCHANGED phase
             \/ /\ run_query(answer) = "crash"
                /\ phase' = "down" /\ UNCHANGED <<cb, value, left, harmed, no_memory>>
    BY <1>9 DEF Page
  <2>2. /\ answer.tag = "#f" => trouble
        /\ answer.tag = "crash" => Len(table) > Capacity
        /\ table' = table
    BY <1>1, <1>2, <1>3, <2>1, QueryUp
  <2>3. answer.tag \in {"#f", "crash", "vector"}
    BY <2>1 DEF Failure, Crash, Vector
  <2>4. todo' = << >> /\ phase' # "load"
    BY <1>1, <1>9, <2>1 DEF Page
  <2>5. BoardReplies'
    <3>1. CASE /\ run_query(answer) = "vector"
               /\ EvalEnds(Val("list", cb.of, Reversed(answer.rows)))
               /\ cb' = [cb EXCEPT !.pc = "reply"] /\ UNCHANGED phase
      <4>1. value'.tag = "list"
        BY <3>1 DEF EvalEnds, Val
      <4> QED BY <1>1, <1>7, <3>1, <4>1
    <3>2. CASE /\ run_query(answer) = "sqlite-error"
               /\ EvalFails(Val("other", cb.of, << >>))
               /\ cb' = [cb EXCEPT !.pc = "reply"] /\ UNCHANGED phase
      <4>1. trouble
        BY <2>2, <2>3, <3>2 DEF run_query
      <4>2. Excused'
        BY <1>4, <4>1 DEF Excused
      <4> QED BY <1>1, <1>7, <3>2, <4>2
    <3>3. CASE /\ run_query(answer) = "crash"
               /\ phase' = "down" /\ UNCHANGED <<cb, value, left, harmed, no_memory>>
      <4>1. Len(table) > Capacity
        BY <2>2, <2>3, <3>3 DEF run_query
      <4> QED BY <1>1, <1>2, <1>4, <2>2, <3>3, <4>1 DEF BoardReplies, Capacity
    <3> QED BY <2>1, <3>1, <3>2, <3>3
  <2> QED BY <1>1, <1>2, <1>4, <1>5, <1>6, <2>1, <2>4, <2>5 DEF UpInv
<1>10. CASE NoPage
  <2>1. /\ phase' = "serve" /\ cb' = [cb EXCEPT !.pc = "reply"]
        /\ UNCHANGED <<dbVars, todo>>
    BY <1>1, <1>10 DEF NoPage
  <2>2. value'.tag \notin {"T", "string", "other"} \/ Excused'
    <3>1. CASE req[cb.of].kind = "bare"
      <4>1. cb.of \in Client
        BY <1>3
      <4> QED BY <1>4, <3>1, <4>1 DEF Excused
    <3>2. CASE EvalEnds(Val("nil", cb.of, << >>)) \/ EvalEnds(Val("list", cb.of, << >>))
      BY <3>2 DEF EvalEnds, Val
    <3> QED BY <1>10, <3>1, <3>2 DEF NoPage
  <2>3. BoardOpened' /\ BoardTodo'
    BY <1>1, <1>2, <1>4, <2>1 DEF BoardOpened, BoardTodo, dbVars
  <2> QED BY <1>1, <1>2, <1>4, <1>7, <2>1, <2>2, <2>3 DEF UpInv
<1>11. CASE OutOfMemory
  <2>1. /\ phase' = "serve" /\ cb' = [cb EXCEPT !.pc = "reply"]
        /\ UNCHANGED dbVars /\ todo' = << >>
    BY <1>1, <1>11 DEF OutOfMemory
  <2>2. Excused'
    BY <1>11 DEF OutOfMemory, EvalStopped, Excused
  <2>3. BoardOpened'
    BY <1>1, <1>2, <1>4, <2>1 DEF BoardOpened, dbVars
  <2> QED BY <1>1, <1>2, <1>4, <1>6, <1>7, <2>1, <2>2, <2>3 DEF UpInv
<1> QED BY <1>8, <1>9, <1>10, <1>11 DEF Handler

LEMMA StepUp == OwnInv /\ UpInv /\ [Next]_vars => UpInv'
<1> SUFFICES ASSUME OwnInv, UpInv, [Next]_vars
             PROVE  UpInv'
  OBVIOUS
<1>1. CASE program # "bb"
  <2>1. program' = program
    BY <1>1 DEF Next, vars, Load, LockFile, Loop, Receive, Respond, Transport, Environment,
                Handler, Write, Page, NoPage, OutOfMemory, Evaluating, AnyProgram, Reply
  <2> QED BY <1>1, <2>1 DEF UpInv
<1>2. CASE program = "bb" /\ UNCHANGED vars
  BY <1>2, QuietUp DEF vars, serverVars
<1>3. CASE program = "bb" /\ Next
  BY <1>3, LoadUp, PeersUp, ReceiveUp, HandlerUp DEF Next, AnyProgram
<1> QED BY <1>1, <1>2, <1>3

(* The process of the bulletin board ends by SIGINT or for a reason that   *)
(* StaysUp names: for any number of clients and any sizes of rows[].       *)
THEOREM StaysUpTheorem == Spec => []StaysUp
<1>1. Init => OwnInv /\ UpInv
  BY InitOwn, InitUp
<1>2. OwnInv /\ UpInv /\ [Next]_vars => (OwnInv /\ UpInv)'
  BY StepOwn, StepUp
<1>3. UpInv => StaysUp
  BY DEF UpInv, BoardReplies, Excused, StaysUp
<1> QED BY <1>1, <1>2, <1>3, PTL DEF Spec

---------------------------------------------------------------------------
(* What the page of the bulletin board shows.                              *)

(* What the first statement of a handler has done to the table.            *)
Done(kind, c) ==
  \/ trouble
  \/ /\ kind = "delete" => table = << >>
     /\ kind = "post" => table # << >> /\ table[Len(table)] = c

(* Between its two statements a handler finds the table as it left it: no  *)
(* other callback runs, and its request stays as it is.                    *)
PageInv ==
  program = "bb" /\ cb.pc \in {"eval", "reply"} =>
    /\ req[cb.of].state = "sent"
    /\ cb.pc = "eval" /\ phase = "serve" =>
         \/ /\ todo = Statements(req[cb.of].kind)
            /\ req[cb.of].kind = "get" \/ todo # <<"select">>
         \/ /\ req[cb.of].kind \in {"post", "delete"} /\ todo = <<"select">>
            /\ Done(req[cb.of].kind, cb.of)
    /\ PageShowsTable

LEMMA StatementsAre ==
  /\ Statements("get") = <<"select">>
  /\ Statements("post") = <<"insert", "select">>
  /\ Statements("delete") = <<"delete", "select">>
  /\ \A kind : kind \notin {"get", "post", "delete"} => Statements(kind) = << >>
BY DEF Statements

(* A step in which no handler runs.                                        *)
LEMMA QuietPage ==
  ASSUME PageInv, program' = program, cb' = cb, value' = value, req'[cb.of] = req[cb.of],
         UNCHANGED <<db, handles, there, table, todo>>,
         phase' = "serve" => phase = "serve",
         harmed' = harmed, trouble => trouble'
  PROVE  PageInv'
<1> SUFFICES ASSUME program = "bb", cb.pc \in {"eval", "reply"}
             PROVE  PageInv'
  BY DEF PageInv
<1>1. /\ req[cb.of].state = "sent"
      /\ cb.pc = "eval" /\ phase = "serve" =>
         \/ /\ todo = Statements(req[cb.of].kind)
            /\ req[cb.of].kind = "get" \/ todo # <<"select">>
         \/ /\ req[cb.of].kind \in {"post", "delete"} /\ todo = <<"select">>
            /\ Done(req[cb.of].kind, cb.of)
      /\ PageShowsTable
  BY DEF PageInv
<1>2. \A kind : Done(kind, cb.of) => Done(kind, cb.of)'
  BY DEF Done
<1>3. PageShowsTable'
  BY <1>1 DEF PageShowsTable, Reversed, Statements
<1> QED BY <1>1, <1>2, <1>3 DEF PageInv, Statements, Done

LEMMA ReceivePage ==
  ASSUME NEW c \in Client, OwnInv, Receive(c)
  PROVE  PageInv'
<1>1. /\ req' = req /\ req[c].state = "sent"
      /\ cb' = [fn |-> "http", of |-> c, pc |-> "eval"]
      /\ todo' = Statements(req[c].kind)
  BY DEF Receive, send_document_cb, Call
<1>2. todo' = Statements(req'[c].kind) /\ (req'[c].kind = "get" \/ todo' # <<"select">>)
  <2>1. <<"select">> # << >> /\ <<"select">> # <<"insert", "select">>
        /\ <<"select">> # <<"delete", "select">>
    <3>1. \A a, b : Len(<<a>>) = 1 /\ Len(<<a, b>>) = 2 /\ Len(<< >>) = 0
      OBVIOUS
    <3> QED BY <3>1
  <2> QED BY <1>1, <2>1 DEF Statements
<1>3. PageShowsTable'
  BY <1>1 DEF PageShowsTable
<1> QED BY <1>1, <1>2, <1>3 DEF PageInv, Statements

(* A handler's first statement.                                            *)
LEMMA WritePage ==
  ASSUME OwnInv, UpInv, PageInv, Write
  PROVE  PageInv'
<1>1. program = "bb" /\ phase = "serve" /\ cb.pc = "eval" /\ BoardOpened
  BY DEF Write, Evaluating, UpInv
<1>2. cb.of \in Peers
  BY <1>1 DEF OwnInv, CallbackOK, NoCallback, Peers
<1>3. req' = req /\ cb' = cb /\ UNCHANGED trouble /\ Len(todo) = 2 /\ todo' = Tail(todo)
  BY DEF Write
<1>4. \A a, b : /\ Len(<<a>>) = 1 /\ Len(<< >>) = 0
               /\ Head(<<a, b>>) = a /\ Tail(<<a, b>>) = <<b>>
  OBVIOUS
<1> DEFINE kind == req[cb.of].kind
<1>5. /\ req[cb.of].state = "sent"
      /\ kind \in {"post", "delete"}
      /\ todo = <<IF kind = "post" THEN "insert" ELSE "delete", "select">>
  <2>1. req[cb.of].state = "sent" /\ (todo = Statements(kind) \/ todo = <<"select">>)
    BY <1>1 DEF PageInv
  <2>2. todo # <<"select">> /\ todo # << >>
    <3>1. Len(<<"select">>) = 1 /\ Len(<< >>) = 0
      OBVIOUS
    <3>2. Len(todo) = 2
      BY <1>3
    <3> QED BY <3>1, <3>2
  <2>3. kind # "get" => kind \in {"post", "delete"}
    BY <2>1, <2>2, StatementsAre
  <2>4. kind # "get"
    BY <2>1, <2>2, StatementsAre
  <2> QED BY <2>1, <2>2, <2>3, <2>4, StatementsAre
<1>6. todo' = <<"select">>
  BY <1>3, <1>4, <1>5
<1>7. PICK answer \in {Failure, Vector(<< >>), Crash} :
        /\ sqlite_query(Head(todo), cb.of, answer)
        /\ phase' = IF answer.tag = "crash" THEN "down" ELSE phase
  BY DEF Write
<1>8. Head(todo) = IF kind = "post" THEN "insert" ELSE "delete"
  BY <1>4, <1>5
<1>9. /\ kind = "post" => table' = Append(table, cb.of) \/ trouble
      /\ kind = "delete" => table' = << >> \/ trouble
  BY <1>1, <1>2, <1>5, <1>7, <1>8, QueryUp
<1>10. table \in Seq(Peers)
  BY <1>1 DEF BoardOpened
<1>11. Done(kind, cb.of)'
  <2>1. ASSUME NEW s \in Seq(Peers), NEW e \in Peers
        PROVE  Append(s, e) # << >> /\ Append(s, e)[Len(Append(s, e))] = e
    OBVIOUS
  <2>2. CASE trouble
    BY <1>3, <2>2 DEF Done
  <2>3. CASE kind = "delete" /\ table' = << >>
    BY <1>3, <2>3 DEF Done
  <2>4. CASE kind = "post" /\ table' = Append(table, cb.of)
    <3>1. table' # << >> /\ table'[Len(table')] = cb.of
      BY <1>2, <1>10, <2>1, <2>4
    <3> QED BY <1>3, <2>4, <3>1 DEF Done
  <2> QED BY <1>5, <1>9, <2>2, <2>3, <2>4
<1>12. PageShowsTable'
  BY <1>1, <1>3 DEF PageShowsTable
<1> QED BY <1>3, <1>5, <1>6, <1>11, <1>12 DEF PageInv

(* Its second statement, and the page.                                     *)
LEMMA SelectPage ==
  ASSUME OwnInv, UpInv, PageInv, Page
  PROVE  PageInv'
<1>1. program = "bb" /\ phase = "serve" /\ cb.pc = "eval" /\ BoardOpened
  BY DEF Page, Evaluating, UpInv
<1>2. /\ cb \in [fn : {"http", "tcp", "udp"}, of : Client, pc : {"eval", "reply", "walk"}]
      /\ cb.of \in Peers
  BY <1>1 DEF OwnInv, CallbackOK, NoCallback, Peers
<1>3. req' = req /\ UNCHANGED <<program, trouble>> /\ Len(todo) = 1 /\ todo' = << >>
  BY DEF Page
<1>4. \A a, b : Len(<<a, b>>) = 2 /\ Len(<< >>) = 0
  OBVIOUS
<1> DEFINE kind == req[cb.of].kind
<1>5. /\ req[cb.of].state = "sent"
      /\ kind \in {"post", "delete"} => Done(kind, cb.of)
  BY <1>1, <1>3, <1>4, StatementsAre DEF PageInv
<1>6. PICK answer : /\ sqlite_query("select", cb.of, answer)
                    /\ \/ /\ run_query(answer) = "vector"
                          /\ EvalEnds(Val("list", cb.of, Reversed(answer.rows)))
                          /\ cb' = [cb EXCEPT !.pc = "reply"] /\ UNCHANGED phase
                       \/ /\ run_query(answer) = "sqlite-error"
                          /\ EvalFails(Val("other", cb.of, << >>))
                          /\ cb' = [cb EXCEPT !.pc = "reply"] /\ UNCHANGED phase
                       \/ /\ run_query(answer) = "crash"
                          /\ phase' = "down"
                          /\ UNCHANGED <<cb, value, left, harmed, no_memory>>
  BY DEF Page
<1>7. /\ table' = table
      /\ answer.tag = "vector" =>
           answer.rows = table \/ trouble \/ Len(table) > max_rows + 1
  BY <1>1, <1>2, <1>6, QueryUp
<1>8. CASE /\ run_query(answer) = "vector"
           /\ EvalEnds(Val("list", cb.of, Reversed(answer.rows)))
           /\ cb' = [cb EXCEPT !.pc = "reply"] /\ UNCHANGED phase
  <2>1. cb'.of = cb.of /\ cb'.pc = "reply" /\ value'.page = Reversed(answer.rows)
    BY <1>2, <1>8 DEF EvalEnds, Val
  <2>2. answer.tag = "vector"
    BY <1>8 DEF run_query
  <2>3. table \in Seq(Peers)
    BY <1>1 DEF BoardOpened
  <2>4. table # << >> => Reversed(table) # << >> /\ Reversed(table)[1] = table[Len(table)]
    <3>1. table # << >> => Len(table) \in Nat \ {0} /\ DOMAIN table = 1 .. Len(table)
      BY <2>3
    <3> QED BY <3>1 DEF Reversed
  <2>5. table = << >> => Reversed(table) = << >>
    BY DEF Reversed
  <2>6. ASSUME ~trouble, ~(Len(table) > max_rows + 1), Statements(kind) # << >>
        PROVE  /\ value'.page = Reversed(table)
               /\ kind = "delete" => value'.page = << >>
               /\ kind = "post" => value'.page # << >> /\ value'.page[1] = cb.of
    BY <1>5, <1>7, <2>1, <2>2, <2>4, <2>5, <2>6 DEF Done
  <2>7. PageShowsTable'
    BY <1>3, <1>7, <2>1, <2>6 DEF PageShowsTable, Reversed, Statements
  <2> QED BY <1>3, <1>5, <2>1, <2>7 DEF PageInv
<1>9. CASE /\ run_query(answer) = "sqlite-error"
           /\ EvalFails(Val("other", cb.of, << >>))
           /\ cb' = [cb EXCEPT !.pc = "reply"] /\ UNCHANGED phase
  <2>1. cb'.of = cb.of /\ cb'.pc = "reply" /\ harmed' = TRUE
    BY <1>2, <1>9 DEF EvalFails
  <2>2. PageShowsTable'
    BY <2>1 DEF PageShowsTable
  <2> QED BY <1>3, <1>5, <2>1, <2>2 DEF PageInv
<1>10. CASE /\ run_query(answer) = "crash"
            /\ phase' = "down"
            /\ UNCHANGED <<cb, value, left, harmed, no_memory>>
  <2>1. PageShowsTable'
    BY <1>1, <1>10 DEF PageShowsTable
  <2> QED BY <1>1, <1>3, <1>5, <1>10, <2>1 DEF PageInv
<1> QED BY <1>6, <1>8, <1>9, <1>10

LEMMA StepPage == OwnInv /\ UpInv /\ PageInv /\ [Next]_vars => PageInv'
<1> SUFFICES ASSUME OwnInv, UpInv, PageInv, [Next]_vars, program' = "bb"
             PROVE  PageInv'
  BY DEF PageInv
<1>1. program = "bb" /\ program' = program
  BY DEF Next, vars, Load, LockFile, Loop, Receive, Respond, Transport, Environment,
         Handler, Write, Page, NoPage, OutOfMemory, Evaluating, AnyProgram, Reply
<1>2. server_type = "HTTP" /\ Shape
  BY <1>1 DEF UpInv, OwnInv
<1>3. ASSUME cb'.pc \notin {"eval", "reply"}
      PROVE  PageInv'
  BY <1>3 DEF PageInv
<1>4. ASSUME cb = NoCallback, cb' = cb
      PROVE  PageInv'
  BY <1>3, <1>4 DEF NoCallback
<1>5. cb = NoCallback \/ (cb.of \in Client /\ cb.pc \in {"eval", "reply", "walk"})
  BY DEF OwnInv, CallbackOK
<1>6. CASE Load
  <2>1. phase = "load" /\ cb' = cb
    BY <1>1, <1>6 DEF Load, Serve, serverVars
  <2> QED BY <1>4, <2>1 DEF OwnInv
<1>7. CASE LockFile
  BY <1>7, QuietPage DEF LockFile, Lock, serverVars
<1>8. CASE Loop
  BY <1>4, <1>8 DEF Loop, signal_cb, Exit, Free
<1>9. ASSUME NEW c \in Client, Receive(c)
      PROVE  PageInv'
  BY <1>9, ReceivePage
<1>10. ASSUME NEW c \in Client, Respond(c) \/ Transport(c)
       PROVE  PageInv'
  BY <1>2, <1>4, <1>10
  DEF Respond, Transport, send_document_cb_file, send_document_cb, accept_cb, conn_readcb,
      conn_eventcb, udp_event_cb, ReadSocket, WriteSocket, Stream, Datagrams, Free
<1>11. ASSUME NEW c \in Client, Environment(c)
       PROVE  PageInv'
  <2>1. PICK kind \in Kinds \cup {"file", "unreadable"} : Request(c, kind)
    BY <1>2, <1>11 DEF Environment, Peer, SendDatagram, Stream, Datagrams
  <2>2. CASE cb.pc \in {"eval", "reply"}
    <3>1. cb.of # c
      BY <1>1, <2>1, <2>2 DEF PageInv, Request
    <3>2. req'[cb.of] = req[cb.of]
      BY <1>2, <1>5, <2>1, <2>2, <3>1 DEF Request, Shape, NoCallback
    <3> QED BY <1>1, <1>11, <2>1, <3>2, QuietPage DEF Environment, Request, dbVars
  <2>3. CASE cb.pc \notin {"eval", "reply"}
    BY <1>3, <2>1, <2>3 DEF Request
  <2> QED BY <2>2, <2>3
<1>12. CASE Write
  BY <1>12, WritePage
<1>13. CASE Page
  BY <1>13, SelectPage
<1>14. CASE NoPage
  <2>1. /\ phase = "serve" /\ cb.pc = "eval" /\ req' = req /\ todo = << >>
        /\ cb' = [cb EXCEPT !.pc = "reply"]
        /\ req[cb.of].kind \in {"bare", "admin", "missing"}
    BY <1>14 DEF NoPage, Evaluating
  <2>2. cb \in [fn : {"http", "tcp", "udp"}, of : Client, pc : {"eval", "reply", "walk"}]
    BY <2>1 DEF OwnInv, CallbackOK, NoCallback
  <2>3. cb'.of = cb.of /\ req[cb.of].state = "sent"
    BY <1>1, <2>1, <2>2 DEF PageInv
  <2>4. PageShowsTable'
    BY <2>1, <2>3, StatementsAre DEF PageShowsTable, Statements
  <2> QED BY <2>1, <2>2, <2>3, <2>4 DEF PageInv
<1>15. CASE OutOfMemory
  <2>1. /\ phase = "serve" /\ cb.pc = "eval" /\ req' = req /\ harmed' = TRUE
        /\ cb' = [cb EXCEPT !.pc = "reply"]
    BY <1>15 DEF OutOfMemory, Evaluating, EvalStopped
  <2>2. cb \in [fn : {"http", "tcp", "udp"}, of : Client, pc : {"eval", "reply", "walk"}]
    BY <2>1 DEF OwnInv, CallbackOK, NoCallback
  <2>3. cb'.of = cb.of /\ req[cb.of].state = "sent"
    BY <1>1, <2>1, <2>2 DEF PageInv
  <2>4. PageShowsTable'
    BY <2>1 DEF PageShowsTable
  <2> QED BY <2>1, <2>2, <2>3, <2>4 DEF PageInv
<1>16. CASE Reply
  <2>1. cb'.pc \notin {"eval", "reply"}
    BY <1>5, <1>16 DEF Reply, http_reply, tcp_reply, udp_return, Returned, NoCallback,
                       OwnInv, CallbackOK
  <2> QED BY <1>3, <2>1
<1>17. CASE UNCHANGED vars
  BY <1>17, QuietPage DEF vars, serverVars, dbVars
<1> QED BY <1>1, <1>6, <1>7, <1>8, <1>9, <1>10, <1>11, <1>12, <1>13, <1>14, <1>15, <1>16, <1>17
        DEF Next, Handler, AnyProgram

(* The page of the bulletin board shows the table as the request left it,  *)
(* or one of the exceptions that PageShowsTable names is the case: for any *)
(* number of clients and of rows.                                          *)
THEOREM PageShowsTableTheorem == Spec => []PageShowsTable
<1>1. Init => OwnInv /\ UpInv /\ PageInv
  <2>1. Init => PageInv
    BY DEF Init, ServerInit, NoCallback, PageInv
  <2> QED BY <2>1, InitOwn, InitUp
<1>2. OwnInv /\ UpInv /\ PageInv /\ [Next]_vars => (OwnInv /\ UpInv /\ PageInv)'
  BY StepOwn, StepUp, StepPage
<1>3. PageInv => PageShowsTable
  BY DEF PageInv, PageShowsTable
<1> QED BY <1>1, <1>2, <1>3, PTL DEF Spec

---------------------------------------------------------------------------
(* What the variables hold.                                                *)

Tags == {"list", "nostatus", "cycle", "nil", "T", "string", "other"}

DataOK ==
  /\ db \in Nat /\ handles \in Seq({"open", "sick"}) /\ db <= Len(handles)
  /\ table \in Seq(Client) /\ there \in BOOLEAN
  /\ table # << >> => there

CoreOK ==
  /\ phase \in {"load", "serve", "exit", "down"} /\ exiting \in BOOLEAN
  /\ value \in Values(Tags)

ClientsOK ==
  /\ DOMAIN calls = Client
  /\ \A c \in Client :
       /\ req[c].state \in {"none", "sent", "answered", "forgotten"}
       /\ conn[c].state \in {"none", "open", "shut", "reset", "lost", "freed"}
       /\ conn[c].sent \in Nat /\ conn[c].input \in Nat /\ conn[c].input <= conn[c].sent
       /\ conn[c].state = "none" => conn[c].input = 0
       /\ calls[c] \in Seq([first : {1}, last : 0 .. BUFFER_SIZE])
       /\ server_type = "UDP" => \A x \in DOMAIN calls[c] : calls[c][x].last # 0

(* Statements are left only to a load and to the handler that runs.        *)
TodoOK ==
  /\ program \in {"any", "bb"}
  /\ todo # << >> => /\ program = "bb"
                     /\ phase \in {"load", "down"} \/ (cb.fn = "http" /\ cb.pc = "eval")

TypeInv == DataOK /\ CoreOK /\ ClientsOK /\ TodoOK

LEMMA InitType == Init => TypeInv
<1> SUFFICES ASSUME Init PROVE TypeInv
  OBVIOUS
<1>1. DataOK
  BY EmptyIn DEF Init, DatabaseInit, DataOK
<1>2. CoreOK
  BY EmptyIn DEF Init, ServerInit, CoreOK, Values, Val, Tags
<1>3. ClientsOK
  BY EmptyIn DEF Init, ServerInit, ClientsOK
<1>4. TodoOK
  BY DEF Init, TodoOK
<1> QED BY <1>1, <1>2, <1>3, <1>4 DEF TypeInv

(* A query keeps the table one of clients, if one makes it.                *)
LEMMA QueryData ==
  ASSUME DataOK, NEW stmt, NEW row, NEW answer, sqlite_query(stmt, row, answer),
         stmt = "insert" => row \in Client
  PROVE  DataOK'
<1>1. PICK prepared \in Prepare(stmt), stepped \in Step :
        /\ IF prepared = "ok" /\ stepped = "done" THEN Execute(stmt, row)
           ELSE UNCHANGED <<there, table>>
        /\ UNCHANGED <<db, handles, locked>>
  BY DEF sqlite_query
<1>2. CASE prepared = "ok" /\ stepped = "done"
  <2>1. there # (stmt = "create")
    BY <1>1, <1>2 DEF Prepare
  <2>2. there' = (there \/ stmt = "create")
    BY <1>1, <1>2 DEF Execute
  <2>3. there' \in BOOLEAN /\ there'
    BY <2>1, <2>2 DEF DataOK
  <2>4. table' \in Seq(Client)
    BY <1>1, <1>2, EmptyIn, AppendIn DEF Execute, DataOK
  <2> QED BY <1>1, <2>3, <2>4 DEF DataOK
<1>3. CASE ~(prepared = "ok" /\ stepped = "done")
  BY <1>1, <1>3 DEF DataOK
<1> QED BY <1>2, <1>3

LEMMA StepData ==
  ASSUME OwnInv, DataOK, [Next]_vars
  PROVE  DataOK'
<1>1. CASE UNCHANGED dbVars
  BY <1>1 DEF dbVars, DataOK
<1>2. ASSUME NEW opens \in BOOLEAN, sqlite_open(opens)  PROVE DataOK'
  <2>1. handles' \in Seq({"open", "sick"}) /\ Len(handles') \in Nat
    BY <1>2, AppendIn DEF sqlite_open, DataOK
  <2> QED BY <1>2, <2>1 DEF sqlite_open, DataOK
<1>3. CASE Load
  <2>1. \/ UNCHANGED dbVars
        \/ \E opens \in BOOLEAN : sqlite_open(opens)
        \/ \E answer \in {Failure, Vector(<< >>)} : sqlite_query("create", Main, answer)
    BY <1>3 DEF Load
  <2> QED BY <1>1, <1>2, <2>1, QueryData
<1>4. CASE LockFile
  BY <1>4 DEF LockFile, Lock, DataOK
<1>5. cb.pc = "eval" => cb.of \in Client
  BY DEF OwnInv, CallbackOK, NoCallback
<1>6. CASE Write
  <2>1. cb.of \in Client /\ \E answer \in {Failure, Vector(<< >>), Crash} :
                                sqlite_query(Head(todo), cb.of, answer)
    BY <1>5, <1>6 DEF Write, Evaluating
  <2> QED BY <2>1, QueryData
<1>7. CASE Page
  <2>1. \E answer : sqlite_query("select", cb.of, answer)
    BY <1>7 DEF Page
  <2> QED BY <2>1, QueryData
<1>8. CASE ~(Load \/ LockFile \/ Write \/ Page)
  <2>1. UNCHANGED dbVars
    BY <1>8 DEF Next, vars, Loop, Receive, Respond, Transport, Environment, Handler, NoPage,
                OutOfMemory, AnyProgram, Reply
  <2> QED BY <1>1, <2>1
<1> QED BY <1>3, <1>4, <1>6, <1>7, <1>8

(* However an evaluation ends, the register has a value of the kinds that  *)
(* it can return.                                                          *)
LEMMA EvaluatedType ==
  ASSUME NEW v \in Values(Tags), value \in Values(Tags), left \subseteq Peers, cb.of \in Peers,
         EvalEnds(v) \/ EvalFails(v) \/ EvalStopped(v)
  PROVE  value' \in Values(Tags)
<1>1. \A by \in Peers : [v EXCEPT !.by = by] \in Values(Tags)
  BY DEF Values, Peers
<1>2. CASE EvalEnds(v)
  <2>1. \E by \in Peers : value' = [v EXCEPT !.by = by]
    BY <1>2 DEF EvalEnds
  <2> QED BY <1>1, <2>1
<1>3. CASE EvalFails(v)
  BY <1>1, <1>3 DEF EvalFails
<1>4. CASE EvalStopped(v)
  BY <1>1, <1>4 DEF EvalStopped
<1> QED BY <1>2, <1>3, <1>4

LEMMA ReversedIn ==
  ASSUME NEW S, NEW rows \in Seq(S)
  PROVE  Reversed(rows) \in Seq(S)
<1>1. Len(rows) \in Nat /\ DOMAIN rows = 1 .. Len(rows)
  OBVIOUS
<1>2. \A x \in 1 .. Len(rows) : rows[Len(rows) + 1 - x] \in S
  <2>1. ASSUME NEW x \in 1 .. Len(rows)  PROVE rows[Len(rows) + 1 - x] \in S
    <3>1. Len(rows) + 1 - x \in 1 .. Len(rows)
      BY <1>1
    <3> QED BY <3>1
  <2> QED BY <2>1
<1> QED BY <1>1, <1>2 DEF Reversed

LEMMA StepCore ==
  ASSUME OwnInv, DataOK, CoreOK, [Next]_vars
  PROVE  CoreOK'
<1>1. /\ phase \in {"load", "serve", "exit", "down"} /\ exiting \in BOOLEAN
      /\ value \in Values(Tags) /\ left \subseteq Peers
      /\ cb.pc = "eval" => cb.of \in Peers
  BY DEF CoreOK, OwnInv, CallbackOK, NoCallback, Peers
<1>2. ASSUME NEW tag \in Tags, NEW by \in Peers, NEW page \in Seq(Client)
      PROVE  Val(tag, by, page) \in Values(Tags)
  BY DEF Val, Values, Peers
<1>3. << >> \in Seq(Client) /\ Main \in Peers
  BY EmptyIn DEF Peers
<1>4. ASSUME phase' \in {"load", "serve", "exit", "down"}, exiting' = exiting,
             UNCHANGED value \/ value' \in Values(Tags)
      PROVE  CoreOK'
  BY <1>1, <1>4 DEF CoreOK
<1>5. CASE Load \/ LockFile \/ \E c \in Client : Receive(c) \/ Transport(c) \/ Environment(c)
  <2>1. phase' \in {phase, "serve"} /\ UNCHANGED <<exiting, value>>
    BY <1>5 DEF Load, Serve, LockFile, Receive, send_document_cb, Transport, ReadSocket,
                WriteSocket, Environment, Request, Peer, SendDatagram, serverVars
  <2> QED BY <1>1, <1>4, <2>1
<1>6. CASE \E c \in Client : Respond(c)
  <2>1. phase' \in {phase, "serve", "down"} /\ UNCHANGED <<exiting, value>>
    BY <1>6 DEF Respond, send_document_cb_file, send_document_cb, accept_cb, conn_readcb,
                conn_eventcb, udp_event_cb
  <2> QED BY <1>1, <1>4, <2>1
<1>7. CASE Reply
  <2>1. phase' \in {phase, "serve", "down"} /\ UNCHANGED <<exiting, value>>
    BY <1>7 DEF Reply, http_reply, tcp_reply, udp_return
  <2> QED BY <1>1, <1>4, <2>1
<1>8. CASE Loop
  <2>1. CASE signal_cb
    BY <1>1, <2>1 DEF signal_cb, CoreOK
  <2>2. CASE Exit
    <3>1. Val("nil", Main, << >>) \in Values(Tags)
      BY <1>2, <1>3 DEF Tags
    <3> QED BY <1>1, <2>2, <3>1 DEF Exit, CoreOK
  <2> QED BY <1>8, <2>1, <2>2 DEF Loop
<1>9. CASE AnyProgram
  <2>1. PICK tag \in Outcomes : Evaluate(Val(tag, Main, << >>))
    BY <1>9 DEF AnyProgram
  <2>2. Val(tag, Main, << >>) \in Values(Tags)
    <3>1. tag \in Tags
      BY <2>1 DEF Outcomes, Tags
    <3> QED BY <1>2, <1>3, <3>1
  <2>3. value' \in Values(Tags)
    BY <1>1, <2>1, <2>2, EvaluatedType DEF Evaluate
  <2> QED BY <1>1, <1>4, <2>1, <2>3 DEF Evaluate
<1>10. CASE Handler
  <2>1. cb.of \in Peers /\ UNCHANGED exiting
    BY <1>1, <1>10 DEF Handler, Write, Page, NoPage, OutOfMemory, Evaluating
  <2>2. CASE Write
    <3>1. phase' \in {phase, "down"} /\ UNCHANGED value
      BY <2>2 DEF Write
    <3> QED BY <1>1, <1>4, <2>1, <3>1
  <2>3. CASE Page
    <3>1. PICK answer \in {Failure, Crash}
                          \cup {Vector(SubSeq(table, 1, n)) : n \in 0 .. Len(table)} :
            \/ /\ run_query(answer) = "vector"
               /\ EvalEnds(Val("list", cb.of, Reversed(answer.rows)))
               /\ UNCHANGED phase
            \/ /\ EvalFails(Val("other", cb.of, << >>))
               /\ UNCHANGED phase
            \/ /\ phase' = "down" /\ UNCHANGED value
      BY <2>3 DEF Page
    <3>2. answer.rows \in Seq(Client)
      <4>1. \A n \in 0 .. Len(table) : SubSeq(table, 1, n) \in Seq(Client)
        BY DEF DataOK
      <4>2. Failure.rows = << >> /\ Crash.rows = << >> /\ \A r : Vector(r).rows = r
        BY DEF Failure, Crash, Vector
      <4> QED BY <1>3, <3>1, <4>1, <4>2
    <3>3. /\ Val("list", cb.of, Reversed(answer.rows)) \in Values(Tags)
          /\ Val("other", cb.of, << >>) \in Values(Tags)
      BY <1>2, <1>3, <2>1, <3>2, ReversedIn DEF Tags
    <3>4. UNCHANGED value \/ value' \in Values(Tags)
      BY <1>1, <2>1, <3>1, <3>3, EvaluatedType
    <3> QED BY <1>1, <1>4, <2>1, <3>1, <3>4
  <2>4. CASE NoPage
    <3>1. /\ Val("other", cb.of, << >>) \in Values(Tags)
          /\ Val("nil", cb.of, << >>) \in Values(Tags)
          /\ Val("list", cb.of, << >>) \in Values(Tags)
      BY <1>2, <1>3, <2>1 DEF Tags
    <3>2. /\ \/ EvalFails(Val("other", cb.of, << >>))
             \/ EvalEnds(Val("nil", cb.of, << >>))
             \/ EvalEnds(Val("list", cb.of, << >>))
          /\ UNCHANGED phase
      BY <2>4 DEF NoPage
    <3>3. value' \in Values(Tags)
      BY <1>1, <2>1, <3>1, <3>2, EvaluatedType
    <3> QED BY <1>1, <1>4, <2>1, <3>2, <3>3
  <2>5. CASE OutOfMemory
    <3>1. Val("other", cb.of, << >>) \in Values(Tags)
      BY <1>2, <1>3, <2>1 DEF Tags
    <3>2. EvalStopped(Val("other", cb.of, << >>)) /\ UNCHANGED phase
      BY <2>5 DEF OutOfMemory
    <3>3. value' \in Values(Tags)
      BY <1>1, <2>1, <3>1, <3>2, EvaluatedType
    <3> QED BY <1>1, <1>4, <2>1, <3>2, <3>3
  <2> QED BY <1>10, <2>2, <2>3, <2>4, <2>5 DEF Handler
<1>11. CASE UNCHANGED vars
  BY <1>11 DEF vars, serverVars, CoreOK
<1> QED BY <1>5, <1>6, <1>7, <1>8, <1>9, <1>10, <1>11 DEF Next

(* What is true of each client.                                            *)
RequestOK(r) == r.state \in {"none", "sent", "answered", "forgotten"}

ConnectionOK(r) ==
  /\ r.state \in {"none", "open", "shut", "reset", "lost", "freed"}
  /\ r.sent \in Nat /\ r.input \in Nat /\ r.input <= r.sent
  /\ r.state = "none" => r.input = 0

CallsOK(s) ==
  /\ s \in Seq([first : {1}, last : 0 .. BUFFER_SIZE])
  /\ server_type = "UDP" => \A x \in DOMAIN s : s[x].last # 0

LEMMA ClientsAre ==
  ClientsOK <=> /\ DOMAIN calls = Client
                /\ \A c \in Client : RequestOK(req[c]) /\ ConnectionOK(conn[c]) /\ CallsOK(calls[c])
BY DEF ClientsOK, RequestOK, ConnectionOK, CallsOK

LEMMA ClientsAreNext ==
  ASSUME server_type' = server_type
  PROVE  ClientsOK' <=>
           /\ DOMAIN calls' = Client
           /\ \A c \in Client : RequestOK(req'[c]) /\ ConnectionOK(conn'[c]) /\ CallsOK(calls'[c])
BY DEF ClientsOK, RequestOK, ConnectionOK, CallsOK

(* A step of one client c.                                                 *)
LEMMA OneClient ==
  ASSUME ClientsOK, NEW c \in Client, server_type' = server_type,
         DOMAIN calls' = Client,
         \A d \in Client : d # c => req'[d] = req[d] /\ conn'[d] = conn[d] /\ calls'[d] = calls[d],
         RequestOK(req'[c]) \/ req'[c] = req[c],
         ConnectionOK(conn'[c]) \/ conn'[c] = conn[c],
         CallsOK(calls'[c]) \/ calls'[c] = calls[c]
  PROVE  ClientsOK'
<1>1. ASSUME NEW d \in Client
      PROVE  RequestOK(req'[d]) /\ ConnectionOK(conn'[d]) /\ CallsOK(calls'[d])
  BY ClientsAre
<1> QED BY <1>1, ClientsAreNext

(* One more call, with the bytes up to n.                                  *)
LEMMA CallMore ==
  ASSUME NEW s, CallsOK(s), NEW n \in Nat, server_type = "UDP" => n # 0
  PROVE  CallsOK(Append(s, Bytes(1, Smaller(n, BUFFER_SIZE))))
<1> DEFINE R == [first : {1}, last : 0 .. BUFFER_SIZE]
<1>1. PICK b : b = Bytes(1, Smaller(n, BUFFER_SIZE))
  OBVIOUS
<1>2. b \in R /\ (server_type = "UDP" => b.last # 0)
  <2>1. /\ Smaller(n, BUFFER_SIZE) \in 0 .. BUFFER_SIZE
        /\ n # 0 => Smaller(n, BUFFER_SIZE) # 0
    BY ServerAssumption DEF Smaller
  <2> QED BY <1>1, <2>1 DEF Bytes
<1> HIDE DEF R
<1>3. s \in Seq(R)
  BY DEF CallsOK, R
<1>4. Append(s, b) \in Seq(R) /\ Len(s) \in Nat /\ Len(Append(s, b)) = Len(s) + 1
      /\ Append(s, b)[Len(s) + 1] = b
      /\ \A x \in 1 .. Len(s) : Append(s, b)[x] = s[x]
  BY <1>2, <1>3
<1>5. DOMAIN s = 1 .. Len(s) /\ DOMAIN Append(s, b) = 1 .. (Len(s) + 1)
  BY <1>3, <1>4
<1>6. ASSUME server_type = "UDP", NEW x \in DOMAIN Append(s, b)
      PROVE  Append(s, b)[x].last # 0
  <2>1. x \in 1 .. Len(s) \/ x = Len(s) + 1
    BY <1>4, <1>5
  <2> QED BY <1>2, <1>4, <1>5, <1>6, <2>1 DEF CallsOK
<1> QED BY <1>1, <1>4, <1>6 DEF CallsOK, R

LEMMA StepClients ==
  ASSUME OwnInv, ClientsOK, [Next]_vars
  PROVE  ClientsOK'
<1>1. /\ Shape /\ DOMAIN calls = Client
      /\ \A c \in Client : RequestOK(req[c]) /\ ConnectionOK(conn[c]) /\ CallsOK(calls[c])
  BY ClientsAre DEF OwnInv
<1>2. CASE UNCHANGED <<server_type, req, conn, calls>>
  BY <1>2 DEF ClientsOK
<1>3. ASSUME NEW c \in Client, Environment(c)  PROVE ClientsOK'
  <2>1. CASE \E kind \in Kinds \cup {"file", "unreadable"} : Request(c, kind)
    <3>1. /\ \A d \in Client : d # c => req'[d] = req[d]
          /\ RequestOK(req'[c])
      BY <1>1, <2>1 DEF Request, Shape, RequestOK
    <3> QED BY <1>1, <2>1, <3>1, OneClient DEF Request
  <2>2. CASE Peer(c)
    <3>1. \A d \in Client : d # c => conn'[d] = conn[d]
      BY <1>1, <2>2 DEF Peer, Shape
    <3>2. ConnectionOK(conn'[c])
      <4>1. CASE conn' = [conn EXCEPT ![c].sent = @ + 1]
        <5>1. conn'[c].state = conn[c].state /\ conn'[c].input = conn[c].input
              /\ conn'[c].sent = conn[c].sent + 1
          BY <1>1, <4>1 DEF Shape
        <5> QED BY <1>1, <5>1 DEF ConnectionOK
      <4>2. CASE \E end \in {"shut", "reset"} : conn' = [conn EXCEPT ![c].state = end]
        <5>1. conn'[c].state \in {"shut", "reset"} /\ conn'[c].input = conn[c].input
              /\ conn'[c].sent = conn[c].sent
          BY <1>1, <4>2 DEF Shape
        <5> QED BY <1>1, <5>1 DEF ConnectionOK
      <4> QED BY <2>2, <4>1, <4>2 DEF Peer
    <3> QED BY <1>1, <2>2, <3>1, <3>2, OneClient DEF Peer
  <2>3. CASE \E n \in 0 .. MaxBytes : SendDatagram(c, n)
    <3>1. PICK n \in 0 .. MaxBytes : SendDatagram(c, n)
      BY <2>3
    <3>2. PICK arrives \in {"open", "lost"} :
            conn' = [conn EXCEPT ![c].state = arrives, ![c].sent = n]
      BY <3>1 DEF SendDatagram
    <3>3. conn[c].input = 0 /\ n \in Nat
      BY <1>1, <3>1, ServerAssumption DEF SendDatagram, ConnectionOK
    <3>4. /\ \A d \in Client : d # c => conn'[d] = conn[d]
          /\ conn'[c].state = arrives /\ conn'[c].sent = n /\ conn'[c].input = conn[c].input
      BY <1>1, <3>2 DEF Shape
    <3>5. ConnectionOK(conn'[c])
      BY <3>3, <3>4 DEF ConnectionOK
    <3> QED BY <1>1, <3>1, <3>4, <3>5, OneClient DEF SendDatagram
  <2> QED BY <1>3, <2>1, <2>2, <2>3 DEF Environment
<1>4. ASSUME NEW c \in Client, Transport(c)  PROVE ClientsOK'
  <2>1. CASE ReadSocket(c)
    <3>1. /\ \A d \in Client : d # c => conn'[d] = conn[d]
          /\ conn'[c].state = conn[c].state /\ conn'[c].sent = conn[c].sent
          /\ conn'[c].input \in {conn[c].input, conn[c].sent}
          /\ conn[c].state # "none"
      BY <1>1, <2>1 DEF ReadSocket, Shape
    <3>2. ConnectionOK(conn'[c])
      BY <1>1, <3>1 DEF ConnectionOK
    <3> QED BY <1>1, <2>1, <3>1, <3>2, OneClient DEF ReadSocket
  <2>2. CASE WriteSocket(c)
    <3>1. /\ \A d \in Client : d # c => conn'[d] = conn[d]
          /\ conn'[c].state = conn[c].state /\ conn'[c].sent = conn[c].sent
          /\ conn'[c].input = conn[c].input
      BY <1>1, <2>2 DEF WriteSocket, Shape
    <3>2. ConnectionOK(conn'[c])
      BY <1>1, <3>1 DEF ConnectionOK
    <3> QED BY <1>1, <2>2, <3>1, <3>2, OneClient DEF WriteSocket
  <2> QED BY <1>4, <2>1, <2>2 DEF Transport
<1>5. ASSUME NEW c \in Client, Respond(c)  PROVE ClientsOK'
  <2>1. CASE send_document_cb_file(c)
    <3>1. /\ \A d \in Client : d # c => req'[d] = req[d]
          /\ RequestOK(req'[c])
      BY <1>1, <2>1 DEF send_document_cb_file, Shape, RequestOK
    <3> QED BY <1>1, <2>1, <3>1, OneClient DEF send_document_cb_file
  <2>2. CASE send_document_cb(c)
    BY <1>2, <2>2 DEF send_document_cb
  <2>3. CASE accept_cb(c) \/ conn_eventcb(c)
    <3>1. /\ \A d \in Client : d # c => conn'[d] = conn[d]
          /\ conn'[c].state \in {"open", "freed"}
          /\ conn'[c].sent = conn[c].sent /\ conn'[c].input = conn[c].input
      BY <1>1, <2>3 DEF accept_cb, conn_eventcb, Shape
    <3>2. ConnectionOK(conn'[c])
      BY <1>1, <3>1 DEF ConnectionOK
    <3> QED BY <1>1, <2>3, <3>1, <3>2, OneClient DEF accept_cb, conn_eventcb
  <2>4. CASE conn_readcb(c)
    <3>1. /\ \A d \in Client : d # c => conn'[d] = conn[d] /\ calls'[d] = calls[d]
          /\ conn'[c].state = conn[c].state /\ conn'[c].sent = conn[c].sent
          /\ conn'[c].input = conn[c].input
          /\ calls'[c] = Append(calls[c], Bytes(1, Smaller(conn[c].input, BUFFER_SIZE)))
          /\ DOMAIN calls' = Client
          /\ server_type = "TCP"
      BY <1>1, <2>4 DEF conn_readcb, Stream, Shape
    <3>2. ConnectionOK(conn'[c]) /\ conn[c].input \in Nat
      BY <1>1, <3>1 DEF ConnectionOK
    <3>3. CallsOK(calls'[c])
      BY <1>1, <3>1, <3>2, CallMore
    <3> QED BY <1>1, <2>4, <3>1, <3>2, <3>3, OneClient DEF conn_readcb
  <2>5. CASE udp_event_cb(c)
    <3>1. /\ \A d \in Client : d # c => conn'[d] = conn[d]
          /\ conn'[c].state = "freed" /\ conn'[c].sent = conn[c].sent
          /\ conn'[c].input = Smaller(conn[c].sent, BUFFER_SIZE)
      BY <1>1, <2>5 DEF udp_event_cb, Shape
    <3>2. conn[c].sent \in Nat
      BY <1>1 DEF ConnectionOK
    <3>3. /\ Smaller(conn[c].sent, BUFFER_SIZE) \in Nat
          /\ Smaller(conn[c].sent, BUFFER_SIZE) <= conn[c].sent
      BY <3>2, ServerAssumption DEF Smaller
    <3>4. ConnectionOK(conn'[c])
      BY <3>1, <3>2, <3>3 DEF ConnectionOK
    <3>5. /\ DOMAIN calls' = Client
          /\ \A d \in Client : d # c => calls'[d] = calls[d]
          /\ CallsOK(calls'[c])
      <4>1. CASE conn[c].sent = 0
        BY <1>1, <2>5, <4>1 DEF udp_event_cb
      <4>2. CASE conn[c].sent # 0
        <5>1. calls' = [calls EXCEPT ![c] = Append(@, Bytes(1, Smaller(conn[c].sent, BUFFER_SIZE)))]
          BY <2>5, <4>2 DEF udp_event_cb
        <5> QED BY <1>1, <3>2, <4>2, <5>1, CallMore
      <4> QED BY <4>1, <4>2
    <3> QED BY <1>1, <2>5, <3>1, <3>4, <3>5, OneClient DEF udp_event_cb
  <2> QED BY <1>5, <2>1, <2>2, <2>3, <2>4, <2>5 DEF Respond
<1>6. CASE Reply
  <2>1. cb.pc = "reply" => cb.of \in Client
    BY DEF OwnInv, CallbackOK, NoCallback
  <2>2. CASE http_reply
    <3>1. cb.of \in Client
      BY <2>1, <2>2 DEF http_reply, Returned
    <3>2. /\ \A d \in Client : d # cb.of => req'[d] = req[d]
          /\ RequestOK(req'[cb.of]) \/ req'[cb.of] = req[cb.of]
      BY <1>1, <2>2, <3>1 DEF http_reply, Shape, RequestOK
    <3> QED BY <1>1, <2>2, <3>1, <3>2, OneClient DEF http_reply
  <2>3. CASE tcp_reply
    <3>1. cb.of \in Client
      BY <2>1, <2>3 DEF tcp_reply, Returned
    <3>2. /\ \A d \in Client : d # cb.of => conn'[d] = conn[d]
          /\ conn'[cb.of].state = conn[cb.of].state /\ conn'[cb.of].sent = conn[cb.of].sent
          /\ conn'[cb.of].input = conn[cb.of].input
      BY <1>1, <2>3, <3>1 DEF tcp_reply, Shape
    <3>3. ConnectionOK(conn'[cb.of])
      BY <1>1, <3>1, <3>2 DEF ConnectionOK
    <3> QED BY <1>1, <2>3, <3>1, <3>2, <3>3, OneClient DEF tcp_reply
  <2>4. CASE udp_return
    BY <1>2, <2>4 DEF udp_return
  <2> QED BY <1>6, <2>2, <2>3, <2>4 DEF Reply
<1>7. CASE \/ Load \/ LockFile \/ Loop \/ AnyProgram \/ Handler
           \/ \E c \in Client : Receive(c)
  <2>1. UNCHANGED <<server_type, req, conn, calls>>
    BY <1>7 DEF Load, Serve, LockFile, Loop, signal_cb, Exit, AnyProgram, Evaluate, Handler,
                Write, Page, NoPage, OutOfMemory, Receive, send_document_cb, serverVars
  <2> QED BY <1>2, <2>1
<1>8. CASE UNCHANGED vars
  BY <1>2, <1>8 DEF vars, serverVars
<1> QED BY <1>3, <1>4, <1>5, <1>6, <1>7, <1>8 DEF Next

LEMMA StepTodo ==
  ASSUME OwnInv, UpInv, TodoOK, [Next]_vars
  PROVE  TodoOK'
<1>1. CASE Load
  <2>1. \/ program = "any" /\ UNCHANGED <<program, todo>>
        \/ program = "bb" /\ phase = "load" /\ UNCHANGED <<program, phase>>
        \/ todo' = << >> /\ UNCHANGED program
    BY <1>1 DEF Load, serverVars
  <2> QED BY <2>1 DEF TodoOK
<1>2. CASE LockFile \/ UNCHANGED vars
  BY <1>2 DEF LockFile, TodoOK, vars, serverVars
<1>3. CASE \E c \in Client : Receive(c)
  BY <1>3 DEF Receive, send_document_cb, Call, TodoOK
<1>4. CASE Handler
  <2>1. program = "bb" /\ program' = "bb" /\ cb.pc = "eval"
    BY <1>4 DEF Handler, Write, Page, NoPage, OutOfMemory, Evaluating
  <2>2. CASE Write
    <3>1. cb.fn \in {"none", "http"} /\ cb.fn # "none"
      BY <2>1 DEF UpInv, BoardReplies, OwnInv, CallbackOK, NoCallback
    <3> QED BY <2>1, <2>2, <3>1 DEF Write, TodoOK
  <2>3. CASE Page \/ NoPage \/ OutOfMemory
    <3>1. todo' = << >>
      BY <2>3 DEF Page, NoPage, OutOfMemory
    <3> QED BY <2>1, <3>1 DEF TodoOK
  <2> QED BY <1>4, <2>2, <2>3 DEF Handler
<1>5. CASE AnyProgram \/ Reply \/ Loop
           \/ \E c \in Client : Respond(c) \/ Transport(c) \/ Environment(c)
  <2>1. UNCHANGED <<program, todo>>
    BY <1>5 DEF AnyProgram, Reply, Loop, Respond, Transport, Environment
  <2> SUFFICES ASSUME todo # << >>
               PROVE  phase' \in {"load", "down"} \/ (cb.fn = "http" /\ cb.pc = "eval" /\ cb' = cb)
    BY <2>1 DEF TodoOK
  <2>2. /\ program = "bb"
        /\ phase \in {"load", "down"} \/ (cb.fn = "http" /\ cb.pc = "eval")
    BY DEF TodoOK
  <2>3. phase = "serve"
    <3>1. Reply => phase = "serve"
      BY DEF Reply, http_reply, tcp_reply, udp_return, Returned
    <3>2. Loop => phase = "serve"
      BY DEF Loop, signal_cb, Exit, Free
    <3>3. \A c \in Client : Respond(c) => phase = "serve"
      BY DEF Respond, send_document_cb_file, send_document_cb, accept_cb, conn_readcb,
             conn_eventcb, udp_event_cb, Free
    <3>4. \A c \in Client : Transport(c) => phase = "serve"
      BY DEF Transport, ReadSocket, WriteSocket, Free
    <3>5. \A c \in Client : Environment(c) => phase = "serve"
      BY DEF Environment, Request, Peer, SendDatagram, Stream, Datagrams
    <3>6. ~AnyProgram
      BY <2>2 DEF AnyProgram
    <3> QED BY <1>5, <3>1, <3>2, <3>3, <3>4, <3>5, <3>6
  <2>4. cb.fn = "http" /\ cb.pc = "eval" /\ cb # NoCallback
    BY <2>2, <2>3 DEF NoCallback
  <2>5. cb' = cb
    <3>1. ~Reply
      BY <2>4 DEF Reply, http_reply, tcp_reply, udp_return, Returned
    <3>2. ~Loop
      BY <2>4 DEF Loop, signal_cb, Exit, Free
    <3>3. \A c \in Client : ~Respond(c)
      BY <2>4 DEF Respond, send_document_cb_file, send_document_cb, accept_cb, conn_readcb,
                  conn_eventcb, udp_event_cb, Free
    <3>4. \A c \in Client : ~Transport(c)
      BY <2>4 DEF Transport, ReadSocket, WriteSocket, Free
    <3>5. \A c \in Client : Environment(c) => cb' = cb
      BY DEF Environment, Request, Peer, SendDatagram
    <3>6. ~AnyProgram
      BY <2>2 DEF AnyProgram
    <3> QED BY <1>5, <3>1, <3>2, <3>3, <3>4, <3>5, <3>6
  <2> QED BY <2>4, <2>5
<1> QED BY <1>1, <1>2, <1>3, <1>4, <1>5 DEF Next

(* The variables of the server and of the bulletin board keep their types: *)
(* no result has a kind that no evaluation makes, the bytes of a call are  *)
(* no more than its buffer holds and, over UDP, never none, db points to a *)
(* handle there is, and statements are left to a running handler only.     *)
THEOREM BoardTypeTheorem == Spec => []TypeOK
<1>1. Init => OwnInv /\ UpInv /\ TypeInv
  BY InitOwn, InitUp, InitType
<1>2. OwnInv /\ UpInv /\ TypeInv /\ [Next]_vars => (OwnInv /\ UpInv /\ TypeInv)'
  BY StepOwn, StepUp, StepData, StepCore, StepClients, StepTodo DEF TypeInv
<1>3. OwnInv /\ TypeInv => TypeOK
  <2> SUFFICES ASSUME OwnInv, TypeInv  PROVE TypeOK
    OBVIOUS
  <2>1. DataOK /\ CoreOK /\ ClientsOK /\ TodoOK
    BY DEF TypeInv
  <2>2. /\ phase \in {"load", "serve", "exit", "down"} /\ exiting \in BOOLEAN
        /\ value \in Values({"list", "nostatus", "cycle", "nil", "T", "string", "other"})
    BY <2>1 DEF CoreOK, Tags
  <2>3. left \subseteq Client \cup {Main} /\ (left # {} => harmed)
    BY DEF OwnInv, Peers
  <2>4. /\ cb.fn \in {"none", "http", "tcp", "udp"}
        /\ cb.pc \in {"none", "eval", "reply", "walk"}
    BY DEF OwnInv, CallbackOK, NoCallback
  <2>5. \A c \in Client :
          /\ req[c].state \in {"none", "sent", "answered", "forgotten"}
          /\ conn[c].state \in {"none", "open", "shut", "reset", "lost", "freed"}
          /\ conn[c].input <= conn[c].sent
          /\ calls[c] \in Seq([first : {1}, last : 0 .. BUFFER_SIZE])
          /\ server_type = "UDP" => \A x \in DOMAIN calls[c] : calls[c][x].last # 0
    BY <2>1 DEF ClientsOK
  <2>6. db \in 0 .. Len(handles) /\ table \in Seq(Client) /\ (table # << >> => there)
    <3>1. Len(handles) \in Nat
      BY <2>1 DEF DataOK
    <3> QED BY <2>1, <3>1 DEF DataOK
  <2>7. todo # << >> => phase = "load" \/ cb.fn = "http" \/ phase = "down"
    BY <2>1 DEF TodoOK
  <2> QED BY <2>2, <2>3, <2>4, <2>5, <2>6, <2>7 DEF TypeOK
<1> QED BY <1>1, <1>2, <1>3, PTL DEF Spec

=============================================================================
