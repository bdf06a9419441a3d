---------------------------- MODULE SharedLemmas ----------------------------
(***************************************************************************)
(* How the sum of a ledger follows the ledger: it is additive, and a       *)
(* ledger with one entry sums to that entry.  And sets of numbers: a least *)
(* one, a greatest one, and the induction that stands on it, stated for a  *)
(* set rather than a predicate.  And what an operation on the permissions  *)
(* of an organization does to each of them.                                *)
(***************************************************************************)
EXTENDS Supply, AragonACL, Integers, FiniteSetTheorems, FunctionTheorems, TLAPS

\* The ledger of n units that all belong to a.
Only(S, a, n) == [x \in S |-> IF x = a THEN n ELSE 0]

Sum(S, f, g) == [x \in S |-> f[x] + g[x]]

\* A ledger with finitely many accounts has finitely many units.
LEMMA UnitsFinite ==
    ASSUME NEW S, IsFiniteSet(S), NEW f \in [S -> Nat]
    PROVE  IsFiniteSet(Units(f)) /\ SupplyOf(f) \in Nat
<1> DEFINE All == {UnitsOf(f, a) : a \in S}
           F == [a \in S |-> UnitsOf(f, a)]
<1>1. F \in Surjection(S, All)
  BY Fun_IsSurj
<1>2. IsFiniteSet(All)
  BY <1>1, FS_Surjection
<1>3. \A T \in All : IsFiniteSet(T)
  <2>1. SUFFICES ASSUME NEW a \in S PROVE IsFiniteSet(UnitsOf(f, a))
    OBVIOUS
  <2>2. IsFiniteSet({a})
    BY FS_Singleton
  <2>3. 1 \in Int /\ f[a] \in Int
    OBVIOUS
  <2>4. IsFiniteSet(1 .. f[a])
    BY <2>3, FS_Interval
  <2> QED BY <2>2, <2>4, FS_Product DEF UnitsOf
<1>4. IsFiniteSet(UNION All)
  BY <1>2, <1>3, FS_UNION
<1>5. Units(f) = UNION All
  BY DEF Units
<1> QED BY <1>4, <1>5, FS_CardinalityType DEF SupplyOf

\* What is a unit.
LEMMA UnitsElement ==
    ASSUME NEW S, NEW f \in [S -> Nat]
    PROVE  Units(f) = {u \in S \X Nat : u[2] \in 1 .. f[u[1]]}
BY DEF Units, UnitsOf

\* The supply is additive.
LEMMA SupplyAdd ==
    ASSUME NEW S, IsFiniteSet(S), NEW f \in [S -> Nat], NEW g \in [S -> Nat]
    PROVE  SupplyOf(Sum(S, f, g)) = SupplyOf(f) + SupplyOf(g)
<1> DEFINE h == Sum(S, f, g)
           Added == {u \in S \X Nat : u[2] \in f[u[1]] + 1 .. f[u[1]] + g[u[1]]}
           Shift == [u \in Units(g) |-> <<u[1], f[u[1]] + u[2]>>]
<1>1. h \in [S -> Nat] /\ \A x \in S : h[x] = f[x] + g[x]
  BY DEF Sum
<1>2. Units(f) = {u \in S \X Nat : u[2] \in 1 .. f[u[1]]}
  BY UnitsElement
<1>3. Units(g) = {u \in S \X Nat : u[2] \in 1 .. g[u[1]]}
  BY UnitsElement
<1>4. Units(h) = {u \in S \X Nat : u[2] \in 1 .. h[u[1]]}
  BY <1>1, UnitsElement
<1>5. IsFiniteSet(Units(f)) /\ IsFiniteSet(Units(g))
  BY UnitsFinite
<1>6. Shift \in Bijection(Units(g), Added)
  <2>1. Shift \in [Units(g) -> Added]
    BY <1>3
  <2>2. \A u, v \in Units(g) : Shift[u] = Shift[v] => u = v
    BY <1>3
  <2>3. \A t \in Added : \E u \in Units(g) : Shift[u] = t
    <3>1. SUFFICES ASSUME NEW t \in Added PROVE \E u \in Units(g) : Shift[u] = t
      OBVIOUS
    <3>2. <<t[1], t[2] - f[t[1]]>> \in Units(g)
      BY <1>3
    <3>3. Shift[<<t[1], t[2] - f[t[1]]>>] = t
      BY <3>2
    <3> QED BY <3>2, <3>3
  <2> QED BY <2>1, <2>2, <2>3, Fun_IsBij
<1>7. IsFiniteSet(Added) /\ Cardinality(Added) = Cardinality(Units(g))
  BY <1>5, <1>6, FS_Bijection DEF ExistsBijection
<1>8. Units(h) = Units(f) \cup Added
  <2>1. ASSUME NEW u \in S \X Nat
        PROVE  u[2] \in 1 .. h[u[1]] <=>
                  u[2] \in 1 .. f[u[1]] \/ u[2] \in f[u[1]] + 1 .. f[u[1]] + g[u[1]]
    BY <1>1
  <2> QED BY <2>1, <1>2, <1>4
<1>9. Units(f) \cap Added = {}
  BY <1>2
<1>10. Cardinality(Units(h)) = Cardinality(Units(f)) + Cardinality(Added)
  <2> HIDE DEF h, Added
  <2>1. Cardinality(Units(h))
          = Cardinality(Units(f)) + Cardinality(Added) - Cardinality(Units(f) \cap Added)
    BY <1>5, <1>7, <1>8, FS_Union
  <2>2. Cardinality(Units(f) \cap Added) = 0
    BY <1>9, FS_EmptySet
  <2>3. Cardinality(Units(f)) \in Nat /\ Cardinality(Added) \in Nat
    BY <1>5, <1>7, FS_CardinalityType
  <2> QED BY <2>1, <2>2, <2>3
<1> QED BY <1>7, <1>10 DEF SupplyOf

\* A ledger with one entry sums to that entry.
LEMMA SupplyOnly ==
    ASSUME NEW S, IsFiniteSet(S), NEW a \in S, NEW n \in Nat
    PROVE  SupplyOf(Only(S, a, n)) = n
<1> DEFINE f == Only(S, a, n)
           F == [i \in 1 .. n |-> <<a, i>>]
<1>1. f \in [S -> Nat] /\ f[a] = n /\ \A x \in S \ {a} : f[x] = 0
  BY DEF Only
<1>2. Units(f) = {u \in S \X Nat : u[2] \in 1 .. f[u[1]]}
  BY <1>1, UnitsElement
<1>3. Units(f) = {a} \X (1 .. n)
  <2>1. ASSUME NEW u \in S \X Nat
        PROVE  u[2] \in 1 .. f[u[1]] <=> u[1] = a /\ u[2] \in 1 .. n
    BY <1>1
  <2> QED BY <2>1, <1>2
<1>4. IsFiniteSet({a}) /\ Cardinality({a}) = 1
  BY FS_Singleton
<1>5. IsFiniteSet(1 .. n) /\ Cardinality(1 .. n) = n
  BY FS_Interval
<1>6. Cardinality({a} \X (1 .. n)) = n
  <2>1. Cardinality({a} \X (1 .. n)) = Cardinality({a}) * Cardinality(1 .. n)
    BY <1>4, <1>5, FS_Product
  <2> QED BY <1>4, <1>5, <2>1
<1> QED BY <1>3, <1>6 DEF SupplyOf

\* An empty ledger sums to nothing.
LEMMA SupplyNone ==
    ASSUME NEW S, NEW f \in [S -> {0}]
    PROVE  SupplyOf(f) = 0
<1>1. Units(f) = {}
  BY DEF Units, UnitsOf
<1> QED BY <1>1, FS_EmptySet DEF SupplyOf

-----------------------------------------------------------------------------
\* Two ledgers that differ in one account differ by that much.
LEMMA SupplyChange ==
    ASSUME NEW S, IsFiniteSet(S), NEW f \in [S -> Nat], NEW g \in [S -> Nat],
           NEW a \in S, NEW n \in Nat,
           g[a] = f[a] + n, \A x \in S \ {a} : g[x] = f[x]
    PROVE  SupplyOf(g) = SupplyOf(f) + n
<1>1. g = Sum(S, f, Only(S, a, n))
  BY DEF Sum, Only
<1>2. Only(S, a, n) \in [S -> Nat]
  BY DEF Only
<1> QED BY <1>1, <1>2, SupplyAdd, SupplyOnly

\* Accounts without units add nothing.
LEMMA SupplyExtend ==
    ASSUME NEW S, NEW T \in SUBSET S, NEW f \in [T -> Nat]
    PROVE  SupplyOf([x \in S |-> IF x \in T THEN f[x] ELSE 0]) = SupplyOf(f)
<1> DEFINE g == [x \in S |-> IF x \in T THEN f[x] ELSE 0]
<1>1. g \in [S -> Nat]
  OBVIOUS
<1>2. /\ \A x \in T : g[x] = f[x]
      /\ \A x \in S \ T : g[x] = 0
  OBVIOUS
<1>3. Units(g) = {u \in S \X Nat : u[2] \in 1 .. g[u[1]]}
  <2> HIDE DEF g
  <2> QED BY <1>1, UnitsElement
<1>4. Units(f) = {u \in T \X Nat : u[2] \in 1 .. f[u[1]]}
  BY UnitsElement
<1>5. Units(g) = Units(f)
  <2> HIDE DEF g
  <2>1. ASSUME NEW u \in S \X Nat, u[2] \in 1 .. g[u[1]]
        PROVE  u \in T \X Nat /\ u[2] \in 1 .. f[u[1]]
    BY <1>2, <2>1
  <2>2. ASSUME NEW u \in T \X Nat, u[2] \in 1 .. f[u[1]]
        PROVE  u \in S \X Nat /\ u[2] \in 1 .. g[u[1]]
    BY <1>2, <2>2
  <2> QED BY <1>3, <1>4, <2>1, <2>2
<1> QED BY <1>5 DEF SupplyOf

-----------------------------------------------------------------------------
(* Numbers *)

\* A set of natural numbers has a least one.
LEMMA NatMinimum ==
    ASSUME NEW T \in SUBSET Nat, T # {}
    PROVE  \E x \in T : \A y \in T : x <= y
<1> DEFINE R == OpToRel(<, Nat)
<1>1. IsWellFoundedOn(R, Nat)
  BY NatLessThanWellFounded
<1>2. \A x, y \in Nat : <<x, y>> \in R <=> x < y
  BY DEF OpToRel
<1> HIDE DEF R
<1>3. PICK x \in T : \A y \in T : <<y, x>> \notin R
  BY <1>1, WFMin
<1>4. ASSUME NEW y \in T PROVE x <= y
  <2>1. x \in Nat /\ y \in Nat
    OBVIOUS
  <2>2. ~(y < x)
    BY <1>2, <1>3, <2>1
  <2> QED BY <2>1, <2>2
<1> QED BY <1>4

\* A bounded set of natural numbers has a greatest one.
LEMMA NatMaximum ==
    ASSUME NEW T \in SUBSET Nat, T # {}, NEW n \in Nat, \A y \in T : y <= n
    PROVE  \E x \in T : \A y \in T : y <= x
<1> DEFINE U == {u \in Nat : n - u \in T}
<1>1. PICK t \in T : TRUE
  OBVIOUS
<1>2. n - t \in U
  BY <1>1
<1>3. PICK u \in U : \A v \in U : u <= v
  BY <1>2, NatMinimum
<1>4. n - u \in T
  BY <1>3
<1>5. ASSUME NEW y \in T PROVE y <= n - u
  <2>1. y \in Nat /\ y <= n /\ u \in Nat
    BY <1>5
  <2>2. n - y \in Nat /\ n - (n - y) = y
    BY <2>1
  <2>3. n - y \in U
    BY <1>5, <2>2
  <2>4. u <= n - y
    BY <1>3, <2>3
  <2> QED BY <2>1, <2>2, <2>4
<1> QED BY <1>4, <1>5

\* Induction up to a number.
LEMMA UpTo ==
    ASSUME NEW n \in Nat, NEW T \in SUBSET (0 .. n),
           0 \in T, \A k \in 0 .. n - 1 : k \in T => k + 1 \in T
    PROVE  T = 0 .. n
<1>1. SUFFICES ASSUME T # 0 .. n PROVE FALSE
  OBVIOUS
<1>2. PICK k \in (0 .. n) \ T : \A y \in (0 .. n) \ T : k <= y
  <2>1. (0 .. n) \ T \in SUBSET Nat
    OBVIOUS
  <2>2. (0 .. n) \ T # {}
    BY <1>1
  <2> QED BY <2>1, <2>2, NatMinimum
<1>3. k # 0 /\ k - 1 \in 0 .. n - 1
  BY <1>2
<1>4. k - 1 \in T
  BY <1>2, <1>3
<1>5. k \in T
  BY <1>3, <1>4
<1> QED BY <1>2, <1>5

-----------------------------------------------------------------------------
(* Permissions, one at a time *)

\* Creating permissions adds a grantee to each and gives it a manager.
LEMMA CreateIs ==
    ASSUME NEW acl, NEW ps, NEW entity, NEW manager, NEW p
    PROVE  LET now == Create(acl, ps, entity, manager)
           IN  /\ p \in ps => /\ Manager(now, p) = manager
                              /\ Grantees(now, p) = Grantees(acl, p) \cup {entity}
               /\ p \notin ps => Manager(now, p) = Manager(acl, p) /\ Grantees(now, p) = Grantees(acl, p)
BY DEF Create, Manager, Grantees

\* Revoking takes a grantee from each.
LEMMA RevokeIs ==
    ASSUME NEW acl, NEW ps, NEW entity, NEW p
    PROVE  LET now == Revoke(acl, ps, entity)
           IN  /\ Manager(now, p) = Manager(acl, p)
               /\ p \in ps => Grantees(now, p) = Grantees(acl, p) \ {entity}
               /\ p \notin ps => Grantees(now, p) = Grantees(acl, p)
BY DEF Revoke, Manager, Grantees

\* Granting adds a grantee to each, and their managers stay.
LEMMA GrantIs ==
    ASSUME NEW acl, NEW ps, NEW entity, NEW p
    PROVE  LET now == Grant(acl, ps, entity)
           IN  /\ Manager(now, p) = Manager(acl, p)
               /\ p \in ps => Grantees(now, p) = Grantees(acl, p) \cup {entity}
               /\ p \notin ps => Grantees(now, p) = Grantees(acl, p)
BY DEF Grant, Manager, Grantees

\* A new manager leaves the grantees.
LEMMA SetManagerIs ==
    ASSUME NEW acl, NEW ps, NEW manager, NEW p
    PROVE  LET now == SetManager(acl, ps, manager)
           IN  /\ p \in ps => Manager(now, p) = manager
               /\ p \notin ps => Manager(now, p) = Manager(acl, p)
               /\ Grantees(now, p) = Grantees(acl, p)
BY DEF SetManager, Manager, Grantees

\* What was never created has no manager and no grantees.
LEMMA NothingIsPermitted ==
    ASSUME NEW p
    PROVE  Manager(NoPermissions, p) = Nobody /\ Grantees(NoPermissions, p) = {}
<1>1. DOMAIN NoPermissions = {}
  BY DEF NoPermissions
<1> QED BY <1>1 DEF Manager, Grantees

=============================================================================
