------------------------------- MODULE KeyMap -------------------------------
(***************************************************************************)
(* What src/include/futils/hash.h promises of a hash table: a partial      *)
(* function from keys to data, some of which are const, and the answers of *)
(* the calls on it.  Nothing is said of buckets, chains or the list of     *)
(* entries.  Hash is shown to implement it.                                *)
(***************************************************************************)
CONSTANTS Key, Value

VARIABLES map,          \* the entries: key |-> data, is_const
          clearing,     \* all of them are being removed
          asked,        \* the last call and its key, empty if it has none
          result,       \* what it returned, "none" if it has not
          found         \* what it gave, if it was a lookup

vars == <<map, clearing, asked, result, found>>

Init == /\ map = [k \in {} |-> 0]
        /\ clearing = FALSE
        /\ asked = <<>> /\ result = "none" /\ found = "none"

Answer(call, k, error, data) ==
  /\ ~clearing /\ clearing' = FALSE
  /\ asked' = <<call, k>> /\ result' = error /\ found' = data

Put(k, v) == /\ k \notin DOMAIN map
             /\ map' = [j \in DOMAIN map \cup {k} |-> IF j = k THEN v ELSE map[j]]
             /\ Answer("insert", k, "0", "none")

\* "-EEXIST if another entry with same key"
Exists(k) == k \in DOMAIN map /\ UNCHANGED map /\ Answer("insert", k, "EEXIST", "none")

NoMemory(k) == UNCHANGED map /\ Answer("insert", k, "ENOMEM", "none")

Del(k) == /\ k \in DOMAIN map
          /\ map' = [j \in DOMAIN map \ {k} |-> map[j]]
          /\ Answer("remove", k, "0", "none")

\* "return 0 if entry is found"
Get(call, k) == /\ k \in DOMAIN map
                /\ map[k].is_const => call = "lookup_const"
                /\ UNCHANGED map
                /\ Answer(call, k, "0", map[k].data)

\* Data that are const are only given out as such (the code's -EPERM).
Denied(k) == /\ k \in DOMAIN map /\ map[k].is_const
             /\ UNCHANGED map
             /\ Answer("lookup", k, "EPERM", "none")

Absent(call, k) == k \notin DOMAIN map /\ UNCHANGED map /\ Answer(call, k, "ENOENT", "none")

\* A call without a key, or the application walks the entries.
NoKey(error) == asked' = <<>> /\ result' = error /\ found' = "none"

\* All entries are removed, one by one ...
Clear == ~clearing /\ clearing' = TRUE /\ UNCHANGED map /\ NoKey("none")

Lose(k) == /\ clearing /\ k \in DOMAIN map
           /\ map' = [j \in DOMAIN map \ {k} |-> map[j]]
           /\ UNCHANGED <<clearing, asked, result, found>>

\* ... until none is left.  A new table has none either.
Empty == DOMAIN map = {} /\ clearing' = FALSE /\ UNCHANGED map /\ NoKey("0")

Other == ~clearing /\ UNCHANGED <<map, clearing>> /\ (NoKey("none") \/ NoKey("ENOMEM"))

Next ==
  \/ Clear \/ Empty \/ Other
  \/ \E k \in Key :
       \/ Exists(k) \/ NoMemory(k) \/ Del(k) \/ Denied(k) \/ Lose(k)
       \/ \E v \in Value : Put(k, v)
       \/ \E call \in {"lookup", "lookup_const"} : Get(call, k)
       \/ \E call \in {"lookup", "lookup_const", "remove"} : Absent(call, k)

Spec == Init /\ [][Next]_vars
=============================================================================
