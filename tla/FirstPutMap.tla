----------------------------- MODULE FirstPutMap -----------------------------
(***************************************************************************)
(* What a HashTable of common/HashTable.cpp promises its users, the caches *)
(* of ResourceSystem and the animations of AniModel: a map from keys to    *)
(* values in which the first value put under a key stays.  A table holds   *)
(* Capacity puts, those that change nothing included; one put too many     *)
(* breaks the program.  The empty key is accepted but never found.         *)
(***************************************************************************)
EXTENDS Naturals

CONSTANTS
  Capacity,   \* how many puts a table takes
  Keys, Values,
  EmptyKey,   \* the empty string, which may be one of Keys
  Null        \* the null pointer: what a get of an unknown key returns

VARIABLES
  table,      \* the map
  puts,       \* how many puts were made
  result,     \* what the last get returned
  broken      \* the null pointer was written through

\* The state of the map.
mapVars == <<table, puts, result, broken>>

MapInit ==
  /\ table = [k \in {} |-> Null]
  /\ puts = 0
  /\ result = Null
  /\ broken = FALSE

MapPut(k, v) ==
  /\ ~broken
  /\ puts < Capacity
  /\ puts' = puts + 1
  /\ table' = IF k = EmptyKey \/ k \in DOMAIN table
                THEN table
                ELSE [x \in DOMAIN table \cup {k} |-> IF x = k THEN v ELSE table[x]]
  /\ UNCHANGED <<result, broken>>

MapPutFull ==
  /\ ~broken
  /\ puts = Capacity
  /\ broken' = TRUE
  /\ UNCHANGED <<table, puts, result>>

MapGet(k) ==
  /\ ~broken
  /\ result' = IF k \in DOMAIN table THEN table[k] ELSE Null
  /\ UNCHANGED <<table, puts, broken>>

MapNext ==
  \/ \E k \in Keys, v \in Values : MapPut(k, v)
  \/ MapPutFull
  \/ \E k \in Keys : MapGet(k)

MapSpec == MapInit /\ [][MapNext]_mapVars
==============================================================================
