------------------------------ MODULE KeyedLists ------------------------------
(***************************************************************************)
(* What an idHashIndex promises: the items of an array, known by their     *)
(* places in it, in as many lists as the table has buckets.  An item is in *)
(* one list at most, and the last one added is the first of its list.      *)
(* When an item is put into the array or taken out of it, those behind it  *)
(* change their places and keep their order in their lists.                *)
(***************************************************************************)
EXTENDS Integers, Sequences, SequencesExt

CONSTANTS
  Tables,  \* the tables
  Items,   \* the places in the array
  Sizes    \* how many buckets a table may have

VARIABLE lists   \* per table: a sequence of places for each bucket, from 0

NoLists(size) == [b \in 0 .. size - 1 |-> <<>>]
Places(list) == UNION {{list[b][n] : n \in DOMAIN list[b]} : b \in DOMAIN list}

Moved(list, Where(_)) == [b \in DOMAIN list |-> [n \in DOMAIN list[b] |-> Where(list[b][n])]]
WithFirst(list, bucket, i) == [list EXCEPT ![bucket] = <<i>> \o @]
Without(list, i) == [b \in DOMAIN list |-> RemoveFirst(list[b], i)]

\* What the lists of one table may become.
Adds(old, new) ==
  \E bucket \in DOMAIN old, i \in Items \ Places(old) : new = WithFirst(old, bucket, i)
Removes(old, new) ==
  \E i \in Places(old) : new = Without(old, i)
Inserts(old, new) ==
  \E bucket \in DOMAIN old, i \in Items :
    new = WithFirst(Moved(old, LAMBDA p : IF p >= i THEN p + 1 ELSE p), bucket, i)
TakesOut(old, new) ==
  \E i \in Places(old) :
    new = Moved(Without(old, i), LAMBDA p : IF p > i THEN p - 1 ELSE p)
Clears(new) == \E size \in Sizes : new = NoLists(size)
Copies(new) == \E other \in Tables : new = lists[other]

ListsInit == \E size \in Sizes : lists = [t \in Tables |-> NoLists(size)]
ListsNext ==
  \E t \in Tables :
    LET old == lists[t]
        new == lists'[t]
    IN /\ new # old
       /\ \A other \in Tables \ {t} : lists'[other] = lists[other]
       /\ \/ Clears(new) \/ Copies(new)
          \/ Adds(old, new) \/ Removes(old, new)
          \/ Inserts(old, new) \/ TakesOut(old, new)
ListsSpec == ListsInit /\ [][ListsNext]_lists
==============================================================================
