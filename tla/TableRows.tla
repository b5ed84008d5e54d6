----------------------------- MODULE TableRows -------------------------------
(* What a query picks of a table's rows: ids are places in a sequence.      *)
EXTENDS Naturals, FiniteSets

\* order by id desc limit n.
LastOf(ids, n) == {k \in ids : Cardinality({j \in ids : j >= k}) <= n}

\* order by id: the ids one after the other.
InOrder(ids) ==
    [k \in 1 .. Cardinality(ids) |->
        CHOOSE x \in ids : Cardinality({y \in ids : y <= x}) = k]
=============================================================================
