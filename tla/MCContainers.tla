---------------------------- MODULE MCContainers ----------------------------
(***************************************************************************)
(* A table of four nodes and four keys under the hash of the code: "a" and *)
(* "e" have home node 3, "b" has node 2 and the empty key node 0, where    *)
(* the overflow of the others goes first, so that chains of different      *)
(* homes run into each other, keys are put twice, and the table gets full. *)
(* An index hash of two buckets and then of four, over an array of three,  *)
(* that starts with room for one; strings whose own buffer has room for    *)
(* two characters; and two arrays of up to two elements, with a block to   *)
(* spare.                                                                  *)
(***************************************************************************)
EXTENDS HashTable, HashIndex, StrCalls, Arrays

a == <<97>>
b == <<98>>
e == <<101>>
MCKeys == {<<>>, a, b, e}
MCEmptyKey == <<>>

MCStartSizes == <<2, 1>>
MCNewSizes == {<<4, 2>>}

\* A letter, a dot and a slash, two at a time; capitals, backslashes, quotes, spaces and colors.
MCStrTexts ==
  UNION {[1 .. n -> {97, 46, 47}] : n \in 0 .. 2}
  \cup {<<66>>, <<92>>, <<97, 66>>, <<92, 66>>, <<34>>, <<34, 97, 34>>, <<34, 97>>, <<32, 97, 32>>, <<97, 47, 98, 46, 97>>,
        <<46, 97, 47, 66>>, <<94, 49, 97, 94, 32>>, <<97, 97, 97>>, <<97, 66, 97, 66>>,
        <<47, 97, 92>>, <<65, 94>>, <<45, 49, 46>>, <<46, 45>>, <<91, 66>>}
MCStrParts == {<<97>>, <<66, 97>>, <<47, 97>>, <<92, 97, 46, 66>>, <<94, 50, 97>>}
MCStrNumbers == {-12, 0, 907, 1000, 20034, 3000000, 1999999999}
\* a  *a  ?B  [a-c]*  [[B  *B*a
MCStrFilters ==
  {<<97>>, <<42, 97>>, <<63, 66>>, <<91, 97, 45, 99, 93, 42>>, <<91, 91, 66>>, <<42, 66, 42, 97>>}

-----------------------------------------------------------------------------
(* The table, the index hash, the string and the arrays share nothing and  *)
(* are checked one at a time.                                              *)

VARIABLE used   \* which of them the program uses: "table", "index", "string" or "array"

containerVars == <<vars, indexVars, strVars, arrayVars, used>>

UsesTable == used = "table" /\ Next /\ UNCHANGED <<indexVars, strVars, arrayVars, used>>
UsesIndex == used = "index" /\ IndexNext /\ UNCHANGED <<vars, strVars, arrayVars, used>>
UsesString == used = "string" /\ StrNext /\ UNCHANGED <<vars, indexVars, arrayVars, used>>
UsesArray == used = "array" /\ ArrayNext /\ UNCHANGED <<vars, indexVars, strVars, used>>
\* The string, or the arrays, have been used for as long as they are looked at.
Unused ==
  /\ \/ used = "string" /\ ~CanCall
     \/ used = "array" /\ arrayCalls = MaxArrayCalls
  /\ UNCHANGED containerVars

ContainersInit == Init /\ IndexInit /\ StrInit /\ ArrayInit /\ used \in {"table", "index", "string", "array"}
ContainersNext == UsesTable \/ UsesIndex \/ UsesString \/ UsesArray \/ Unused

\* A call of the hash table that has started runs on.
RunsOn == used = "table" /\ Running /\ UNCHANGED <<indexVars, strVars, arrayVars, used>>
ContainersSpec ==
  ContainersInit /\ [][ContainersNext]_containerVars /\ WF_containerVars(RunsOn)
==============================================================================
