------------------------------- MODULE Server -------------------------------
(***************************************************************************)
(* The event-driven server: main.c loads the program and gives the event   *)
(* loop its callbacks, one for each kind of server, and http.c answers     *)
(* HTTP requests.  The callbacks run one at a time and share one           *)
(* interpreter, of which this module keeps what one evaluation leaves to   *)
(* the next: the register value, the frames of evaluations that failed,    *)
(* and no_memory.  libevent and the peers are external: data comes in at   *)
(* any time and in any pieces, datagrams get lost, peers close, SIGINT     *)
(* comes.                                                                  *)
(***************************************************************************)
EXTENDS Integers, Sequences, FiniteSetsExt

CONSTANTS
  Client,       \* the peers: each makes a connection, or sends one request or
                \* one datagram
  Main,         \* stands for main, whose evaluations are the loads
  BUFFER_SIZE,  \* 4096 in the code
  MaxBytes      \* bound: how many bytes the clients send, together

ASSUME ServerAssumption ==
  Main \notin Client /\ BUFFER_SIZE \in Nat \ {0} /\ MaxBytes \in Nat

VARIABLES
  server_type,  \* "HTTP", "TCP" or "UDP": the options -t and -u
  phase,        \* "load", "serve", "exit" after the loop, "down"
  exiting,      \* event_base_loopexit has been called
  value,        \* sc->value: what a callback takes for the result
  left,         \* whose failed evaluations have left frames on the dump
  harmed,       \* an evaluation has failed, or memory has run out
  no_memory,    \* sc->no_memory
  cb,           \* the callback that runs and where it is
  req,          \* HTTP: each client's request
  conn,         \* TCP, UDP: each client's connection or datagram
  calls         \* which bytes of each client the entry point was passed in
                \* each call

serverVars == <<server_type, phase, exiting, value, left, harmed, no_memory, cb,
                req, conn, calls>>

(* What an evaluation can leave in sc->value: a list as the man page wants *)
(* it (with its status and content), a list without a positive status, a   *)
(* list whose cdrs go round, (), #t, a string, anything else.  by is whose *)
(* evaluation made it.                                                     *)
Val(tag, by, page) == [tag |-> tag, by |-> by, page |-> page]

Nothing == Val("none", Main, << >>)

NoCallback == [fn |-> "none", of |-> Main, pc |-> "none"]

Free == phase = "serve" /\ cb = NoCallback

ServerInit ==
  /\ server_type \in {"HTTP", "TCP", "UDP"}
  /\ phase = "load" /\ exiting = FALSE
  /\ value = Val("nil", Main, << >>) /\ left = {}
  /\ harmed = FALSE /\ no_memory = FALSE
  /\ cb = NoCallback
  /\ req = [c \in Client |-> [kind |-> "none", state |-> "none", answer |-> Nothing]]
  /\ conn = [c \in Client |-> [state |-> "none", sent |-> 0, input |-> 0,
                               pending |-> {}, output |-> << >>, got |-> << >>]]
  /\ calls = [c \in Client |-> << >>]

---------------------------------------------------------------------------
(* The interpreter, as the callbacks see it.                               *)

(* Fault: what an evaluation that fails leaves is the value before it.     *)
EvalFailsUntouched(v) ==
  /\ v.tag \in {"T", "other"}
  /\ value' = value
  /\ left' = left \cup {cb.of} /\ harmed' = TRUE
  /\ UNCHANGED no_memory

(* An evaluation ends with the value v.  When a failed one has left its    *)
(* frames, they take the value and go on: what comes out is theirs.        *)
EvalEnds(v) ==
  /\ \E by \in IF left = {} THEN {cb.of} ELSE left : value' = [v EXCEPT !.by = by]
  /\ left' = {}
  /\ UNCHANGED <<harmed, no_memory>>

(* An evaluation fails: sc->value is #t if the message was printed with    *)
(* something after it, else what was last evaluated.  Its frames stay.     *)
EvalFails(v) ==
  /\ v.tag \in {"T", "other"}
  /\ value' = [v EXCEPT !.by = cb.of]
  /\ left' = left \cup {cb.of} /\ harmed' = TRUE
  /\ UNCHANGED no_memory

(* Memory runs out during an evaluation, or has run out before: then the   *)
(* first opcode is the last one and sc->value is what it was.              *)
EvalStopped(v) ==
  /\ no_memory' = TRUE
  /\ \/ value' = value
     \/ ~no_memory /\ v.tag = "other" /\ value' = [v EXCEPT !.by = cb.of]
  /\ left' = left \cup {cb.of} /\ harmed' = TRUE

Evaluate(v) ==
  /\ cb.pc = "eval" /\ phase = "serve"
  /\ IF no_memory THEN EvalStopped(v)
     ELSE EvalEnds(v) \/ EvalFails(v) \/ EvalStopped(v)
  /\ cb' = [cb EXCEPT !.pc = "reply"]
  /\ UNCHANGED <<server_type, phase, exiting, req, conn, calls>>

Call(fn, c) == cb' = [fn |-> fn, of |-> c, pc |-> "eval"]

(* The allocations of a callback, before it calls scheme_apply1: when they *)
(* fail, no_memory is all that says so.                                    *)
Allocate == no_memory' \in {no_memory, TRUE}

---------------------------------------------------------------------------
(* main: the loads, the event loop, the end.  Whether a load succeeded is  *)
(* not looked at, so that the server may start with its frames left.       *)
Serve(failed) ==
  /\ phase = "load"
  /\ phase' = "serve"
  /\ left' = IF failed THEN {Main} ELSE {}
  /\ harmed' = failed
  /\ UNCHANGED <<server_type, exiting, value, no_memory, cb, req, conn, calls>>

(* SIGINT.  The loop goes on with the callbacks that are due, and ends.    *)
signal_cb ==
  /\ Free /\ ~exiting
  /\ exiting' = TRUE
  /\ UNCHANGED <<server_type, phase, value, left, harmed, no_memory, cb, req, conn, calls>>

(* event_base_dispatch returns; scheme_deinit.                             *)
Exit ==
  /\ Free /\ exiting
  /\ phase' = "exit"
  /\ value' = Val("nil", Main, << >>) /\ left' = {}
  /\ UNCHANGED <<server_type, exiting, harmed, no_memory, cb, req, conn, calls>>

---------------------------------------------------------------------------
(* HTTP.                                                                   *)

Request(c, kind) ==
  /\ server_type = "HTTP" /\ phase = "serve"
  /\ req[c].state = "none"
  /\ req' = [req EXCEPT ![c].kind = kind, ![c].state = "sent"]
  /\ UNCHANGED <<server_type, phase, exiting, value, left, harmed, no_memory, cb, conn, calls>>

(* Fault: the status of a file is not set.                                 *)
send_document_cb_fileNoStatus(c) ==
  /\ server_type = "HTTP" /\ Free
  /\ req[c].state = "sent" /\ req[c].kind = "file"
  /\ req' = [req EXCEPT ![c].state = "forgotten"]
  /\ UNCHANGED <<server_type, phase, exiting, value, left, harmed, no_memory, cb, conn, calls>>

(* A regular file is sent as it is, by no call of the interpreter.  error  *)
(* ends the process when it cannot be read.                                *)
send_document_cb_file(c) ==
  /\ server_type = "HTTP" /\ Free
  /\ req[c].state = "sent"
  /\ \/ /\ req[c].kind = "file"
        /\ req' = [req EXCEPT ![c].state = "answered", ![c].answer = Val("file", c, << >>)]
        /\ UNCHANGED phase
     \/ /\ req[c].kind = "unreadable"
        /\ phase' = "down"
        /\ UNCHANGED req
  /\ UNCHANGED <<server_type, exiting, value, left, harmed, no_memory, cb, conn, calls>>

send_document_cb(c) ==
  /\ server_type = "HTTP" /\ Free
  /\ req[c].state = "sent" /\ req[c].kind \notin {"file", "unreadable"}
  /\ Call("http", c)
  /\ Allocate
  /\ UNCHANGED <<server_type, phase, exiting, value, left, harmed, req, conn, calls>>

Returned(fn) == cb.fn = fn /\ cb.pc = "reply" /\ phase = "serve"

(* Fault: the cdr is looked at after it was taken, not before.             *)
http_replyChecksLate ==
  /\ Returned("http")
  /\ phase' = "down" /\ cb' = NoCallback
  /\ UNCHANGED <<server_type, exiting, value, left, harmed, no_memory, req, conn, calls>>

(* The result is taken for the list it should be.                          *)
(*   - A list with a positive status is sent; without one, nothing is sent *)
(*     and the request waits for ever.                                     *)
(*   - The walk never ends on a list that goes round, unless it goes round *)
(*     in one step, as #t does, whose car and cdr are itself: exit(1).     *)
(*   - What the fields of () or of another object are when they are read   *)
(*     as a list depends on addresses: nothing is sent, nonsense is sent,  *)
(*     or, unless it is (), the process ends.                              *)
http_reply ==
  /\ Returned("http")
  /\ \/ /\ value.tag = "list"
        /\ req' = [req EXCEPT ![cb.of].state = "answered", ![cb.of].answer = value]
        /\ cb' = NoCallback /\ UNCHANGED phase
     \/ /\ value.tag \in {"nil", "string", "other"}
        /\ req' = [req EXCEPT ![cb.of].state = "answered",
                              ![cb.of].answer = Val("nonsense", value.by, << >>)]
        /\ cb' = NoCallback /\ UNCHANGED phase
     \/ /\ value.tag \in {"nostatus", "nil", "string", "other"}
        /\ req' = [req EXCEPT ![cb.of].state = "forgotten"]
        /\ cb' = NoCallback /\ UNCHANGED phase
     \/ /\ value.tag = "cycle"
        /\ cb' = [cb EXCEPT !.pc = "walk"]
        /\ UNCHANGED <<req, phase>>
     \/ /\ value.tag \in {"T", "string", "other"}
        /\ phase' = "down" /\ cb' = NoCallback /\ UNCHANGED req
  /\ UNCHANGED <<server_type, exiting, value, left, harmed, no_memory, conn, calls>>

---------------------------------------------------------------------------
(* TCP.                                                                    *)

Stream == server_type = "TCP" /\ phase = "serve"

Sent == MapThenSumSet(LAMBDA c : conn[c].sent, Client)

accept_cb(c) ==
  /\ Stream /\ Free
  /\ conn[c].state = "none"
  /\ conn' = [conn EXCEPT ![c].state = "open"]
  /\ UNCHANGED <<server_type, phase, exiting, value, left, harmed, no_memory, cb, req, calls>>

(* The peer sends a byte, sends no more, or resets the connection.         *)
Peer(c) ==
  /\ Stream
  /\ conn[c].state = "open"
  /\ \/ Sent < MaxBytes /\ conn' = [conn EXCEPT ![c].sent = @ + 1]
     \/ \E end \in {"shut", "reset"} : conn' = [conn EXCEPT ![c].state = end]
  /\ UNCHANGED <<server_type, phase, exiting, value, left, harmed, no_memory, cb, req, calls>>

(* libevent reads what there is and puts the read callback off; at the end *)
(* or after a reset it puts the event callback off.                        *)
ReadSocket(c) ==
  /\ Stream /\ Free
  /\ "event" \notin conn[c].pending
  /\ \/ /\ conn[c].state \in {"open", "shut"} /\ conn[c].input < conn[c].sent
        /\ conn' = [conn EXCEPT ![c].input = conn[c].sent, ![c].pending = @ \cup {"read"}]
     \/ /\ \/ conn[c].state = "shut" /\ conn[c].input = conn[c].sent
           \/ conn[c].state = "reset"
        /\ conn' = [conn EXCEPT ![c].pending = @ \cup {"event"}]
  /\ UNCHANGED <<server_type, phase, exiting, value, left, harmed, no_memory, cb, req, calls>>

Smaller(m, n) == IF m < n THEN m ELSE n

(* The bytes of a client, counted from 1, that a vector holds.             *)
Bytes(m, n) == [first |-> m, last |-> n]

(* Fault: a vector of BUFFER_SIZE elements is not filled to the last.      *)
conn_readcbFillsButLast(c) ==
  /\ Stream /\ Free
  /\ "read" \in conn[c].pending
  /\ conn' = [conn EXCEPT ![c].pending = @ \ {"read"}]
  /\ calls' = [calls EXCEPT ![c] = Append(@, Bytes(1, Smaller(conn[c].input, BUFFER_SIZE - 1)))]
  /\ Call("tcp", c)
  /\ Allocate
  /\ phase' \in IF no_memory' THEN {"serve", "down"} ELSE {"serve"}
  /\ UNCHANGED <<server_type, exiting, value, left, harmed, req>>

(* The read callback looks at the whole input buffer and takes nothing out *)
(* of it: its vector begins with the first byte of the connection each     *)
(* time.  Only BUFFER_SIZE elements are given a value.  If there is no     *)
(* vector, its elements are written behind the sink.                       *)
conn_readcb(c) ==
  /\ Stream /\ Free
  /\ "read" \in conn[c].pending
  /\ conn' = [conn EXCEPT ![c].pending = @ \ {"read"}]
  /\ calls' = [calls EXCEPT ![c] = Append(@, Bytes(1, Smaller(conn[c].input, BUFFER_SIZE)))]
  /\ Call("tcp", c)
  /\ Allocate
  /\ phase' \in IF no_memory' THEN {"serve", "down"} ELSE {"serve"}
  /\ UNCHANGED <<server_type, exiting, value, left, harmed, req>>

(* The reply is the characters of the result, whatever it is, unless it is *)
(* ().  Of what is written the model keeps whose evaluation made it.       *)
tcp_reply ==
  /\ Returned("tcp")
  /\ cb' = NoCallback
  /\ conn' = IF value.tag = "nil" THEN conn
             ELSE [conn EXCEPT ![cb.of].output = Append(@, value.by)]
  /\ phase' \in IF value.tag \in {"nil", "string"} THEN {"serve"} ELSE {"serve", "down"}
  /\ UNCHANGED <<server_type, exiting, value, left, harmed, no_memory, req, calls>>

(* The socket takes what it is given, in the order it is given.            *)
WriteSocket(c) ==
  /\ Stream /\ Free
  /\ conn[c].output # << >>
  /\ conn' = [conn EXCEPT ![c].got = Append(@, Head(conn[c].output)),
                          ![c].output = Tail(@)]
  /\ UNCHANGED <<server_type, phase, exiting, value, left, harmed, no_memory, cb, req, calls>>

(* At the end the connection is freed, and with it what is still to be     *)
(* written.  libevent has called a read callback that was due before.      *)
conn_eventcb(c) ==
  /\ Stream /\ Free
  /\ conn[c].pending = {"event"}
  /\ conn' = [conn EXCEPT ![c].state = "freed", ![c].pending = {}, ![c].output = << >>]
  /\ UNCHANGED <<server_type, phase, exiting, value, left, harmed, no_memory, cb, req, calls>>

---------------------------------------------------------------------------
(* UDP.                                                                    *)

Datagrams == server_type = "UDP" /\ phase = "serve"

SendDatagram(c, n) ==
  /\ Datagrams
  /\ conn[c].state = "none"
  /\ \E arrives \in {"open", "lost"} :
       conn' = [conn EXCEPT ![c].state = arrives, ![c].sent = n]
  /\ UNCHANGED <<server_type, phase, exiting, value, left, harmed, no_memory, cb, req, calls>>

(* Fault: an empty datagram is passed on.                                  *)
udp_event_cbEmpty(c) ==
  /\ Datagrams /\ Free
  /\ conn[c].state = "open"
  /\ conn' = [conn EXCEPT ![c].state = "freed"]
  /\ calls' = [calls EXCEPT ![c] = Append(@, Bytes(1, Smaller(conn[c].sent, BUFFER_SIZE)))]
  /\ Call("udp", c)
  /\ UNCHANGED <<server_type, phase, exiting, value, left, harmed, no_memory, req>>

(* Of a datagram longer than the buffer the rest is lost; an empty one is  *)
(* passed over.                                                            *)
udp_event_cb(c) ==
  /\ Datagrams /\ Free
  /\ conn[c].state = "open"
  /\ conn' = [conn EXCEPT ![c].state = "freed",
                          ![c].input = Smaller(conn[c].sent, BUFFER_SIZE)]
  /\ IF conn[c].sent = 0
     THEN UNCHANGED <<phase, no_memory, cb, calls>>
     ELSE /\ calls' = [calls EXCEPT ![c] = Append(@, Bytes(1, Smaller(conn[c].sent, BUFFER_SIZE)))]
          /\ Call("udp", c)
          /\ Allocate
          /\ phase' \in IF no_memory' THEN {"serve", "down"} ELSE {"serve"}
  /\ UNCHANGED <<server_type, exiting, value, left, harmed, req>>

(* Nothing is done with the result.                                        *)
udp_return ==
  /\ Returned("udp")
  /\ cb' = NoCallback
  /\ UNCHANGED <<server_type, phase, exiting, value, left, harmed, no_memory, req, conn, calls>>
=============================================================================
