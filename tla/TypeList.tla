------------------------------ MODULE TypeList ------------------------------
(***************************************************************************)
(* meta/type_list.hpp: the compile-time lists of types and what is asked   *)
(* of them.  A type is any value, a list of types a sequence.              *)
(***************************************************************************)
EXTENDS Integers, Sequences, FiniteSets

CONSTANT NotFound  \* type_list_not_found, which is no type of a list

Positions(sought, list) == {i \in DOMAIN list : list[i] = sought}

TypeCount(sought, list) == Cardinality(Positions(sought, list))

\* Mutant of IsUnique: a type is compared with the one after it only.
IsUniqueNextTo(list) == \A i \in DOMAIN list : i + 1 \in DOMAIN list => list[i] # list[i + 1]

IsUnique(list) == \A i \in DOMAIN list : TypeCount(list[i], list) = 1

First(positions) == CHOOSE i \in positions : \A j \in positions : i <= j

\* type_list_index, counted from one; 0 for type_list_npos.
IndexOf(sought, list) ==
    IF Positions(sought, list) = {} THEN 0 ELSE First(Positions(sought, list))

\* type_list_find_if: the front of the list filtered to the given positions.
FrontOf(kept, list) == IF kept = {} THEN NotFound ELSE list[First(kept)]

=============================================================================
