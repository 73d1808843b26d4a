--------------------------------- MODULE Lists ---------------------------------
(* Sorting and filtering of lists, by the places that their entries take: Rust's   *)
(* stable sort_by_key and its retain.  Defined without recursion, so that what     *)
(* is said of them can be proved.                                                  *)
EXTENDS Naturals, Sequences, FiniteSets

\* The member of I that is the k-th in the order R, a set of pairs.
Ranked(I, R, k) == CHOOSE i \in I : Cardinality({j \in I : <<j, i>> \in R}) = k

\* The list of the entries of a list that are in a set, in their order.
KeptIndices(list, S) == {i \in DOMAIN list : list[i] \in S}
Ascending(I) == {p \in I \X I : p[1] <= p[2]}
Keep(list, S) ==
    LET I == KeptIndices(list, S) IN [k \in 1 .. Cardinality(I) |-> list[Ranked(I, Ascending(I), k)]]

\* A list in the order of a key of its entries; entries of one key stay in order.
KeyOrder(list, key) ==
    {p \in (DOMAIN list) \X (DOMAIN list) :
        key[p[1]] < key[p[2]] \/ (key[p[1]] = key[p[2]] /\ p[1] <= p[2])}
Sorted(list, key) == [k \in 1 .. Len(list) |-> list[Ranked(DOMAIN list, KeyOrder(list, key), k)]]
================================================================================
