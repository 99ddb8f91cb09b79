-------------------------------- MODULE Wind --------------------------------
(***************************************************************************)
(* dynamic-wind and call/cc of init.scm.  *active-windings* is a list that *)
(* call/cc saves with each continuation and that is adjusted before a      *)
(* continuation is entered.                                                *)
(*                                                                         *)
(* What the program does besides is left open: wherever its code runs, in  *)
(* a thunk too, it may wind, capture, jump, return or fail.                *)
(***************************************************************************)
EXTENDS Integers, SequencesExt

CONSTANTS MaxWindings, MaxConts, MaxJumps, MaxFrames, MaxFails   \* bounds

VARIABLES
  active,     \* *active-windings*: cells, as eq? compares them
  stack,      \* the thunks that are being run, innermost first
  conts,      \* continuations, each with the windings it goes with
  windings,   \* how many windings there have been
  entered,    \* the windings that have been activated, one for each cell
  jumps, fails,
  stuck       \* an evaluation ended with (car '())

vars == <<active, stack, conts, windings, entered, jumps, fails, stuck>>

counts == <<windings, jumps, fails>>

Windings(cells) == [i \in DOMAIN cells |-> cells[i].w]

(* The frames.  An evaluation starts with the windings that are active;    *)
(* before, thunk and after are run by dynamic-wind; pop and push are the   *)
(* after and before of set-active-windings!, on the way from the windings  *)
(* from to the continuation to.                                            *)
Base(ws) == [k |-> "base", from |-> ws]
Running(k, w) == [k |-> k, w |-> w]
Leaving(w, shared, from, to) ==
  [k |-> "pop", w |-> w, shared |-> shared, from |-> from, to |-> to]
Entering(w, rest, to) == [k |-> "push", w |-> w, rest |-> rest, to |-> to]

---------------------------------------------------------------------------
(* Fault: all of the list to come is taken for shared.                     *)
shared_tailFirst(x, y) == x

(* The cells at the end of both lists that are eq.                         *)
shared_tail(x, y) ==
  LET Same(n) == SubSeq(x, Len(x) - n + 1, Len(x)) = SubSeq(y, Len(y) - n + 1, Len(y))
      n == CHOOSE n \in 0 .. Len(x) :
             /\ n <= Len(y) /\ Same(n)
             /\ \A m \in n + 1 .. Len(x) : m <= Len(y) => ~Same(m)
  IN SubSeq(x, Len(x) - n + 1, Len(x))

activate(w) ==
  /\ entered' = Append(entered, w)
  /\ active' = <<[w |-> w, id |-> Len(entered')]>> \o active

(* An error that nothing catches: the next evaluation finds the windings   *)
(* as they are.                                                            *)
Abandon ==
  /\ stack' = <<Base(Windings(active))>>
  /\ UNCHANGED <<active, entered>>

deactivate_top_winding == active' = Tail(active) /\ UNCHANGED entered

(* Fault: the innermost of the windings that are missing comes first.      *)
push_manyInward(rest, st, to) ==
  stack' = IF rest = << >> THEN conts[to].stack
           ELSE <<Entering(Head(rest), Tail(rest), to)>> \o st

(* The windings of rest, innermost first, from the last one on; then the   *)
(* continuation.                                                           *)
push_many(rest, st, to) ==
  stack' = IF rest = << >> THEN conts[to].stack
           ELSE <<Entering(Last(rest), Front(rest), to)>> \o st

pop_many(shared, st, from, to) ==
  LET missing == SubSeq(conts[to].ws, 1, Len(conts[to].ws) - Len(shared))
  IN CASE active = shared ->
            /\ push_many(Windings(missing), st, to)
            /\ UNCHANGED <<active, entered, stuck>>
       [] active # shared /\ active = << >> ->
            Abandon /\ stuck' = TRUE
       [] OTHER ->
            /\ deactivate_top_winding
            /\ stack' = <<Leaving(Head(active).w, shared, from, to)>> \o st
            /\ UNCHANGED stuck

---------------------------------------------------------------------------
(* What the program does.                                                  *)

dynamic_wind ==
  /\ windings < MaxWindings /\ Len(stack) < MaxFrames
  /\ windings' = windings + 1
  /\ stack' = <<Running("before", windings')>> \o stack
  /\ UNCHANGED <<active, conts, entered, jumps, fails, stuck>>

call_cc ==
  /\ Len(conts) < MaxConts
  /\ conts' = Append(conts, [stack |-> stack, ws |-> active])
  /\ UNCHANGED <<active, stack, entered, counts, stuck>>

(* (k x), which calls set-active-windings! first.                          *)
continuation(k) ==
  /\ jumps < MaxJumps /\ Len(stack) < MaxFrames
  /\ jumps' = jumps + 1
  /\ pop_many(shared_tail(conts[k].ws, active), stack, Windings(active), k)
  /\ UNCHANGED <<conts, windings, fails>>

Return ==
  LET top == Head(stack)
      below == Tail(stack)
  IN /\ \/ /\ top.k = "before"
           /\ activate(top.w)
           /\ stack' = <<Running("thunk", top.w)>> \o below
           /\ UNCHANGED stuck
        \/ /\ top.k = "thunk"
           /\ deactivate_top_winding
           /\ stack' = <<Running("after", Head(active).w)>> \o below
           /\ UNCHANGED stuck
        \/ /\ top.k = "after"
           /\ stack' = below
           /\ UNCHANGED <<active, entered, stuck>>
        \/ /\ top.k = "pop"
           /\ pop_many(top.shared, below, top.from, top.to)
        \/ /\ top.k = "push"
           /\ activate(top.w)
           /\ push_many(top.rest, below, top.to)
           /\ UNCHANGED stuck
     /\ UNCHANGED <<conts, counts>>

Fail ==
  /\ fails < MaxFails /\ Len(stack) > 1
  /\ fails' = fails + 1
  /\ Abandon
  /\ UNCHANGED <<conts, windings, jumps, stuck>>

Init ==
  /\ active = << >> /\ stack = <<Base(<< >>)>> /\ conts = << >>
  /\ windings = 0 /\ entered = << >> /\ jumps = 0 /\ fails = 0
  /\ stuck = FALSE

Next ==
  \/ dynamic_wind \/ call_cc \/ Return \/ Fail
  \/ \E k \in DOMAIN conts : continuation(k)

Spec == Init /\ [][Next]_vars

---------------------------------------------------------------------------
(* What of a list of windings is below w.                                  *)
Below(w, ws) == LET i == CHOOSE i \in DOMAIN ws : ws[i] = w
                IN SubSeq(ws, i + 1, Len(ws))

(* The windings that the code of the frame f is inside of, with those that *)
(* the frames below it are inside of; cs are the continuations.            *)
Around(f, below, cs) ==
  CASE f.k = "base" -> f.from
    [] f.k \in {"before", "after"} -> below
    [] f.k = "thunk" -> <<f.w>> \o below
    [] f.k = "pop" -> Below(f.w, f.from)
    [] f.k = "push" -> Below(f.w, Windings(cs[f.to].ws))

(* The windings that the code on top of the frames is inside of.           *)
Inside(frames) ==
  LET inside[i \in 1 .. Len(frames)] == Around(frames[i], inside[i + 1], conts)
  IN inside[1]

(* Whatever jumps there have been, the active windings are those that the  *)
(* running code is inside of: each thunk, before and after thunks too,     *)
(* runs within the windings that were made around it, and a continuation   *)
(* is entered with the windings it was captured in.                        *)
WindingsOfStack == Windings(active) = Inside(stack)

Once == \A i, j \in DOMAIN entered : entered[i] = entered[j] => i = j

(* As long as no winding has been entered twice, pop-many arrives at the   *)
(* windings it is to keep before the list ends.  (The cell of a winding    *)
(* that is entered again is not eq to the first.)                          *)
PopsEndAtFirst == Once => ~stuck
==============================================================================
