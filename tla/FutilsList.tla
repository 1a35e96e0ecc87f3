----------------------------- MODULE FutilsList -----------------------------
(***************************************************************************)
(* The doubly chained lists of src/include/futils/list.h.  The memory of   *)
(* all nodes is one record of two functions, next and prev; a list is a    *)
(* ring through its head.  Every operator is the memory after the call.    *)
(***************************************************************************)
EXTENDS Naturals

\* FUTILS_LIST_POISON1 and FUTILS_LIST_POISON2.
Poison == "poison"

SetNext(m, n, x) == [m EXCEPT !.next[n] = x]
SetPrev(m, n, x) == [m EXCEPT !.prev[n] = x]

list_node_unref(m, n) == SetPrev(SetNext(m, n, Poison), n, Poison)

list_init(m, n) == SetPrev(SetNext(m, n, n), n, n)

list_add(m, novel, prev, next) ==
  SetNext(SetPrev(SetPrev(SetNext(m, novel, next), novel, prev), next, novel),
          prev, novel)

\* Mutant: on the other side of the node.
list_add_before_after(m, node, novel) == list_add(m, novel, node, m.next[node])

list_add_before(m, node, novel) == list_add(m, novel, m.prev[node], node)

list_detach(m, prev, next) == SetNext(SetPrev(m, next, prev), prev, next)

list_del(m, node) ==
  list_node_unref(list_detach(m, m.prev[node], m.next[node]), node)

\* The list at head holds exactly the nodes s: forwards they are met in this
\* order, backwards in the reverse order, and the ring closes.
IsRing(m, head, s, len) ==
  LET ring == [k \in 0 .. len |-> IF k = 0 THEN head ELSE s[k]]
  IN  \A k \in 0 .. len :
        LET succ == ring[(k + 1) % (len + 1)]
        IN  m.next[ring[k]] = succ /\ m.prev[succ] = ring[k]
=============================================================================
