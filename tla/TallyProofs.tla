----------------------------- MODULE TallyProofs ----------------------------
(***************************************************************************)
(* How a total changes with the numbers it adds up.  Only finitely many of *)
(* them need to differ from zero.                                          *)
(***************************************************************************)
EXTENDS Tally, FiniteSetTheorems, TLAPS

LEMMA CopiesMember ==
  ASSUME NEW S, NEW f
  PROVE  \A y : y \in Copies(f, S) <=>
           \E x \in S : \E i \in 1..f[x] : y = <<x, i>>
  BY DEF Copies

LEMMA TotalType ==
  ASSUME NEW S, NEW f, IsFiniteSet(Copies(f, S))
  PROVE  Total(f, S) \in Nat
  BY FS_CardinalityType DEF Total

(* Nothing of anything.                                                    *)
LEMMA TotalNone ==
  ASSUME NEW S, NEW f, \A x \in S : f[x] = 0
  PROVE  Copies(f, S) = {} /\ IsFiniteSet(Copies(f, S)) /\ Total(f, S) = 0
  <1>1. \A x \in S : {x} \X (1..f[x]) = {}
    BY 1..0 = {}
  <1>2. Copies(f, S) = {}
    BY <1>1 DEF Copies
  <1> QED BY <1>2, FS_EmptySet DEF Total

(* Two functions that agree have the same total.                           *)
LEMMA TotalSame ==
  ASSUME NEW S, NEW f, NEW g, \A x \in S : f[x] = g[x]
  PROVE  Copies(f, S) = Copies(g, S) /\ Total(f, S) = Total(g, S)
  <1>1. Copies(f, S) = Copies(g, S)
    BY DEF Copies
  <1> QED BY <1>1 DEF Total

LEMMA Block ==
  ASSUME NEW x, NEW n \in Nat
  PROVE  IsFiniteSet({x} \X (1..n)) /\ Cardinality({x} \X (1..n)) = n
  <1>1. IsFiniteSet({x}) /\ Cardinality({x}) = 1
    BY FS_Singleton
  <1>2. IsFiniteSet(1..n) /\ Cardinality(1..n) = n
    BY FS_Interval
  <1>3. /\ IsFiniteSet({x} \X (1..n))
        /\ Cardinality({x} \X (1..n)) = Cardinality({x}) * Cardinality(1..n)
    BY <1>1, <1>2, FS_Product, Zenon
  <1>4. Cardinality({x}) * Cardinality(1..n) = 1 * n
    BY <1>1, <1>2
  <1> QED BY <1>3, <1>4

(* One of the numbers is another.  The two predicates are for the provers, *)
(* which instantiate a lemma more easily when its parts are atoms.         *)
OnlyAt(f, g, S, x) ==
  \A y \in S : f[y] \in Nat /\ g[y] \in Nat /\ (y # x => g[y] = f[y])

ChangedAt(f, g, S, x) ==
  IsFiniteSet(Copies(g, S)) /\ Total(g, S) = Total(f, S) - f[x] + g[x]

LEMMA TotalChange ==
  ASSUME NEW S, NEW f, NEW g, NEW x \in S, OnlyAt(f, g, S, x), IsFiniteSet(Copies(f, S))
  PROVE  ChangedAt(f, g, S, x)
  <1> DEFINE R == Copies(f, S \ {x})
  <1>1. Copies(f, S) = R \cup ({x} \X (1..f[x]))
    BY DEF Copies
  <1>2. Copies(g, S) = R \cup ({x} \X (1..g[x]))
    <2>1. Copies(g, S) = Copies(g, S \ {x}) \cup ({x} \X (1..g[x]))
      BY DEF Copies
    <2>2. \A y \in S \ {x} : g[y] = f[y]
      BY DEF OnlyAt
    <2>3. Copies(g, S \ {x}) = R
      BY <2>2, TotalSame, Zenon
    <2> QED BY <2>1, <2>3
  <1>3. R \in SUBSET Copies(f, S)
    BY <1>1
  <1>4. IsFiniteSet(R) /\ Cardinality(R) \in Nat
    BY <1>3, FS_Subset, FS_CardinalityType
  <1>5. \A n \in Nat : R \cap ({x} \X (1..n)) = {}
    BY DEF Copies
  <1>6. Cardinality({}) = 0
    BY FS_EmptySet
  <1>7. ASSUME NEW n \in Nat
        PROVE  /\ IsFiniteSet(R \cup ({x} \X (1..n)))
               /\ Cardinality(R \cup ({x} \X (1..n))) = Cardinality(R) + n
    <2> DEFINE B == {x} \X (1..n)
    <2>1. IsFiniteSet(B) /\ Cardinality(B) = n
      BY Block
    <2>2. Cardinality(R \cap B) = 0
      BY <1>5, <1>6
    <2>3. /\ IsFiniteSet(R \cup B)
          /\ Cardinality(R \cup B) = Cardinality(R) + Cardinality(B) - Cardinality(R \cap B)
      BY <1>4, <2>1, FS_Union, Zenon
    <2> HIDE DEF B, R
    <2>4. Cardinality(R \cup B) = Cardinality(R) + n
      BY <1>4, <2>1, <2>2, <2>3
    <2> QED BY <2>3, <2>4 DEF B
  <1>8. f[x] \in Nat /\ g[x] \in Nat
    BY DEF OnlyAt
  <1> HIDE DEF R
  <1>9. Total(f, S) = Cardinality(R) + f[x]
    BY <1>1, <1>7, <1>8 DEF Total
  <1>10. IsFiniteSet(Copies(g, S)) /\ Total(g, S) = Cardinality(R) + g[x]
    BY <1>2, <1>7, <1>8 DEF Total
  <1> QED BY <1>4, <1>8, <1>9, <1>10 DEF ChangedAt

(* Numbers are added to the numbers.                                       *)
LEMMA TotalAdd ==
  ASSUME NEW S, NEW f, NEW g, NEW h,
         \A x \in S : f[x] \in Nat /\ g[x] \in Nat /\ h[x] = f[x] + g[x],
         IsFiniteSet(Copies(f, S)), IsFiniteSet(Copies(g, S))
  PROVE  /\ IsFiniteSet(Copies(h, S))
         /\ Total(h, S) = Total(f, S) + Total(g, S)
  <1> DEFINE More == {y \in Copies(h, S) : y \notin Copies(f, S)}
             b == [y \in Copies(g, S) |-> <<y[1], f[y[1]] + y[2]>>]
  <1>1. \A x \in S : \A i : <<x, i>> \in Copies(g, S) <=> i \in 1..g[x]
    BY DEF Copies
  <1>2. \A x \in S : \A i : <<x, i>> \in Copies(f, S) <=> i \in 1..f[x]
    BY DEF Copies
  <1>3. \A x \in S : \A i : <<x, i>> \in Copies(h, S) <=> i \in 1..h[x]
    BY DEF Copies
  <1>4. \A x \in S : \A i \in Nat : i \in 1..g[x] <=> f[x] + i \in 1..h[x] /\ f[x] + i \notin 1..f[x]
    OBVIOUS
  <1>5. \A y \in Copies(g, S) : y[1] \in S /\ y[2] \in Nat /\ y = <<y[1], y[2]>>
    BY CopiesMember
  <1>6. b \in Bijection(Copies(g, S), More)
    <2>1. ASSUME NEW y \in Copies(g, S) PROVE b[y] \in More
      BY <1>1, <1>2, <1>3, <1>4, <1>5
    <2>2. ASSUME NEW y \in Copies(g, S), NEW z \in Copies(g, S), b[y] = b[z]
          PROVE  y = z
      <3>1. y[1] = z[1] /\ f[y[1]] + y[2] = f[z[1]] + z[2]
        BY <2>2
      <3>2. y[2] = z[2]
        BY <1>5, <3>1
      <3> QED BY <1>5, <3>1, <3>2
    <2>3. ASSUME NEW z \in More PROVE \E y \in Copies(g, S) : b[y] = z
      <3>1. PICK x \in S : \E i \in 1..h[x] : z = <<x, i>>
        BY CopiesMember
      <3>2. PICK i \in 1..h[x] : z = <<x, i>>
        BY <3>1
      <3>3. i - f[x] \in 1..g[x]
        BY <1>2, <3>2
      <3>4. <<x, i - f[x]>> \in Copies(g, S)
        BY <1>1, <3>3
      <3>5. b[<<x, i - f[x]>>] = z
        BY <3>2, <3>4
      <3> QED BY <3>4, <3>5
    <2> QED BY <2>1, <2>2, <2>3 DEF Bijection, Injection, IsInjective, Surjection
  <1>7. IsFiniteSet(More) /\ Cardinality(More) = Total(g, S)
    BY <1>6, FS_Bijection DEF ExistsBijection, Total
  <1>8. Copies(h, S) = Copies(f, S) \cup More
    <2>1. Copies(f, S) \subseteq Copies(h, S)
      <3> SUFFICES ASSUME NEW y \in Copies(f, S) PROVE y \in Copies(h, S)
        OBVIOUS
      <3>1. PICK x \in S : \E i \in 1..f[x] : y = <<x, i>>
        BY CopiesMember
      <3> QED BY <1>3, <3>1
    <2> QED BY <2>1
  <1>9. Cardinality(Copies(f, S) \cap More) = 0
    BY FS_EmptySet
  <1> HIDE DEF More
  <1>10. /\ IsFiniteSet(Copies(h, S))
         /\ Cardinality(Copies(h, S)) = Cardinality(Copies(f, S)) + Cardinality(More)
                                          - Cardinality(Copies(f, S) \cap More)
    BY <1>7, <1>8, FS_Union
  <1> QED BY <1>7, <1>9, <1>10, FS_CardinalityType DEF Total

(* Of each x, as many as are sent to x.                                    *)
SentTo(g, k, B, S) ==
  /\ \A a \in B : k[a] \in S
  /\ \A x \in S : g[x] = Cardinality({a \in B : k[a] = x})

LEMMA TotalPreimages ==
  ASSUME NEW S, NEW B, IsFiniteSet(B), NEW k, NEW g, SentTo(g, k, B, S)
  PROVE  IsFiniteSet(Copies(g, S)) /\ Total(g, S) = Cardinality(B)
  <1> DEFINE F == [x \in S |-> {a \in B : k[a] = x}]
             n == [x \in S |-> CHOOSE p : p \in Bijection(1..g[x], F[x])]
             b == [y \in Copies(g, S) |-> n[y[1]][y[2]]]
  <1>1. ASSUME NEW x \in S PROVE n[x] \in Bijection(1..g[x], F[x])
    <2>1. IsFiniteSet(F[x])
      BY FS_Subset
    <2>2. g[x] = Cardinality(F[x])
      BY DEF SentTo
    <2>3. ExistsBijection(1..g[x], F[x])
      BY <2>1, <2>2, FS_CardinalityType
    <2> QED BY <2>3 DEF ExistsBijection
  <1> HIDE DEF n
  <1>2. ASSUME NEW x \in S
        PROVE  /\ \A i \in 1..g[x] : n[x][i] \in B /\ k[n[x][i]] = x
               /\ \A i, j \in 1..g[x] : n[x][i] = n[x][j] => i = j
               /\ \A a \in F[x] : \E i \in 1..g[x] : n[x][i] = a
    <2>1. F[x] = {a \in B : k[a] = x}
      OBVIOUS
    <2> HIDE DEF F
    <2> QED BY <1>1, <2>1 DEF Bijection, Injection, IsInjective, Surjection
  <1>3. ASSUME NEW a \in B PROVE \E i \in 1..g[k[a]] : n[k[a]][i] = a
    BY <1>2 DEF SentTo
  <1>4. \A y \in Copies(g, S) : y[1] \in S /\ y[2] \in 1..g[y[1]] /\ y = <<y[1], y[2]>>
    BY CopiesMember
  <1>5. b \in Injection(Copies(g, S), B)
    <2>1. b \in [Copies(g, S) -> B]
      BY <1>2, <1>4
    <2>2. ASSUME NEW y \in Copies(g, S), NEW z \in Copies(g, S), b[y] = b[z]
          PROVE  y = z
      <3>1. n[y[1]][y[2]] = n[z[1]][z[2]]
        BY <2>2
      <3>2. y[1] = z[1]
        BY <1>2, <1>4, <3>1
      <3>3. y[2] = z[2]
        BY <1>2, <1>4, <3>1, <3>2
      <3> QED BY <1>4, <3>2, <3>3
    <2> QED BY <2>1, <2>2 DEF Injection, IsInjective
  <1>6. b \in Surjection(Copies(g, S), B)
    <2>1. ASSUME NEW a \in B PROVE \E y \in Copies(g, S) : b[y] = a
      <3>1. PICK i \in 1..g[k[a]] : n[k[a]][i] = a
        BY <1>3
      <3>2. <<k[a], i>> \in Copies(g, S)
        BY <3>1, CopiesMember DEF SentTo
      <3> QED BY <3>1, <3>2
    <2> QED BY <1>5, <2>1 DEF Injection, Surjection
  <1> QED BY <1>5, <1>6, FS_Injection DEF Total
=============================================================================
