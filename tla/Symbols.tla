------------------------------ MODULE Symbols ------------------------------
(***************************************************************************)
(* The table of symbols, oblist: a vector of lists, in which the hash of a *)
(* name says where to look.  A name is its letters, with the number that   *)
(* ends it if it does in one, and whether they are capitals: the hash      *)
(* takes note of that, the comparison (stricmp) does not.  A symbol is     *)
(* known by the number of symbols made before it.                          *)
(***************************************************************************)
EXTENDS Integers, Sequences

CONSTANT NBuckets  \* the size of the vector: 461

ASSUME SymbolsAssumption == NBuckets \in Nat \ {0}

Buckets == 0 .. NBuckets - 1

oblist_initial_value == [b \in Buckets |-> << >>]

Empty == [oblist |-> oblist_initial_value, made |-> 0, gensym_cnt |-> 0, last |-> -1]

Name(letters, upper) == [letters |-> letters, upper |-> upper]

(* What gensym prints its count to.                                        *)
GensymName(cnt) == Name(<<"gensym-", cnt>>, FALSE)

stricmp(m, n) == m.letters = n.letters

(* Where in its list the first name is that compares equal; 0: nowhere.    *)
oblist_find_by_name(t, hash, name) ==
  LET list == t.oblist[hash[name]]
      same == {k \in DOMAIN list : stricmp(list[k].name, name)}
  IN  IF same = {} THEN 0 ELSE CHOOSE k \in same : \A j \in same : k <= j

oblist_add_by_name(t, hash, name) ==
  [t EXCEPT !.oblist[hash[name]] = <<[name |-> name, id |-> t.made]>> \o @,
            !.made = @ + 1,
            !.last = t.made]

mk_symbol(t, hash, name) ==
  LET k == oblist_find_by_name(t, hash, name)
  IN  IF k = 0 THEN oblist_add_by_name(t, hash, name)
      ELSE [t EXCEPT !.last = t.oblist[hash[name]][k].id]

(* Fault: the name is not looked for.                                      *)
gensymUnchecked(t, hash, limit) ==
  [oblist_add_by_name(t, hash, GensymName(t.gensym_cnt))
     EXCEPT !.gensym_cnt = @ + 1]

(* The count is not moved past the name that was taken: the next call      *)
(* finds it in the table.                                                  *)
gensym(t, hash, limit) ==
  LET Taken(n) == oblist_find_by_name(t, hash, GensymName(n)) # 0
      free == {n \in t.gensym_cnt .. limit : ~Taken(n)}
      cnt  == CHOOSE n \in free : \A k \in free : n <= k
  IN  [oblist_add_by_name(t, hash, GensymName(cnt))
         EXCEPT !.gensym_cnt = cnt]
=============================================================================
