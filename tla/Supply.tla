------------------------------- MODULE Supply -------------------------------
(***************************************************************************)
(* The sum of a ledger, a function that gives every account a number of    *)
(* indivisible units (shares, wei).  It is the number of units, the        *)
(* cardinality of a set with one element per unit, rather than a fold over *)
(* the accounts: both are the same number, but facts about cardinality can *)
(* be proved where facts about a fold need an induction over the accounts. *)
(***************************************************************************)
EXTENDS Naturals, FiniteSets

UnitsOf(f, a) == {a} \X (1 .. f[a])

Units(f) == UNION {UnitsOf(f, a) : a \in DOMAIN f}

SupplyOf(f) == Cardinality(Units(f))

=============================================================================
