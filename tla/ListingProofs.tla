--------------------------- MODULE ListingProofs ----------------------------
(***************************************************************************)
(* A walk over the pages misses no row but those that left the status, for *)
(* any number of rows, any page size and any changes meanwhile; and no     *)
(* entry of API_KEYS overrides another, for any list of entries.           *)
(***************************************************************************)
EXTENDS Listing, FiniteSetTheorems, WellFoundedInduction, TLAPS

(* Ranks in a set S of rows by descending f.                               *)
Above(f, S, r) == {q \in S : f[q] > f[r]}
Rank(f, S, r)  == Cardinality(Above(f, S, r))

LEMMA Sizes ==
  ASSUME NEW S \in SUBSET Row
  PROVE  IsFiniteSet(S) /\ Cardinality(S) \in Nat /\ Cardinality(S) <= Cardinality(Row)
  BY ListingAssumption, FS_Subset, FS_CardinalityType

LEMMA RankType ==
  ASSUME NEW f, NEW S \in SUBSET Row, NEW r
  PROVE  /\ Above(f, S, r) \in SUBSET Row /\ IsFiniteSet(Above(f, S, r))
         /\ Rank(f, S, r) \in Nat
  BY Sizes, Above(f, S, r) \in SUBSET Row DEF Above, Rank

(* What is above a row is ranked above it.                                 *)
LEMMA RankLess ==
  ASSUME NEW f \in [Row -> Nat], NEW S \in SUBSET Row, NEW q \in S, NEW r \in S,
         f[q] > f[r]
  PROVE  Rank(f, S, q) < Rank(f, S, r)
  <1>1. Above(f, S, q) \subseteq Above(f, S, r) \ {q} /\ q \in Above(f, S, r)
    BY DEF Above
  <1>2. /\ IsFiniteSet(Above(f, S, r) \ {q})
        /\ Cardinality(Above(f, S, r) \ {q}) = Rank(f, S, r) - 1
    BY <1>1, RankType, FS_RemoveElement DEF Rank
  <1>3. Rank(f, S, q) <= Rank(f, S, r) - 1
    BY <1>1, <1>2, FS_Subset DEF Rank
  <1> QED BY <1>3, RankType

(* Ranks run from 0 without a gap.                                         *)
LEMMA RankOnto ==
  ASSUME NEW f \in [Row -> Nat], NEW S \in SUBSET Row,
         \A q, r \in S : f[q] = f[r] => q = r
  PROVE  /\ \A q, r \in S : Rank(f, S, q) = Rank(f, S, r) => q = r
         /\ \A i \in 0..(Cardinality(S) - 1) : \E r \in S : Rank(f, S, r) = i
         /\ \A r \in S : Rank(f, S, r) \in 0..(Cardinality(S) - 1)
  <1> DEFINE n == Cardinality(S)
             g == [r \in S |-> Rank(f, S, r)]
  <1>1. n \in Nat /\ IsFiniteSet(S)
    BY Sizes
  <1>2. ASSUME NEW r \in S PROVE Rank(f, S, r) \in 0..(n - 1)
    <2>1. Above(f, S, r) \subseteq S \ {r}
      BY DEF Above
    <2>2. IsFiniteSet(S \ {r}) /\ Cardinality(S \ {r}) = n - 1
      BY <1>1, FS_RemoveElement
    <2>3. Rank(f, S, r) <= n - 1
      BY <2>1, <2>2, FS_Subset DEF Rank
    <2> QED BY <1>1, <2>3, RankType
  <1>3. ASSUME NEW q \in S, NEW r \in S, Rank(f, S, q) = Rank(f, S, r) PROVE q = r
    <2>1. f[q] \in Nat /\ f[r] \in Nat
      OBVIOUS
    <2>2. Rank(f, S, q) \in Nat /\ Rank(f, S, r) \in Nat
      BY RankType
    <2>3. ASSUME f[q] > f[r] PROVE FALSE
      <3>1. Rank(f, S, q) < Rank(f, S, r)
        BY <2>3, RankLess
      <3> QED BY <1>3, <2>2, <3>1
    <2>4. ASSUME f[r] > f[q] PROVE FALSE
      <3>1. Rank(f, S, r) < Rank(f, S, q)
        BY <2>4, RankLess
      <3> QED BY <1>3, <2>2, <3>1
    <2> QED BY <2>1, <2>3, <2>4
  <1>4. g \in Injection(S, 0..(n - 1))
    BY <1>2, <1>3 DEF Injection, IsInjective
  <1>5. IsFiniteSet(0..(n - 1)) /\ Cardinality(0..(n - 1)) = n
    <2>1. 0 \in Int /\ n - 1 \in Int
      BY <1>1
    <2>2. IsFiniteSet(0..(n - 1))
          /\ Cardinality(0..(n - 1)) = IF 0 > n - 1 THEN 0 ELSE (n - 1) - 0 + 1
      BY <2>1, FS_Interval
    <2> QED BY <1>1, <2>2
  <1>6. g \in Surjection(S, 0..(n - 1))
    BY <1>4, <1>5, FS_Injection
  <1> QED BY <1>2, <1>3, <1>6 DEF Surjection

(* The rows of a page, and what it says of the rows when it is short.      *)
PageOf(f, S, k) == {r \in S : Rank(f, S, r) \in k..(k + Limit - 1)}

LEMMA PageSize ==
  ASSUME NEW f \in [Row -> Nat], NEW S \in SUBSET Row, NEW k \in Nat,
         \A q, r \in S : f[q] = f[r] => q = r
  PROVE  /\ Cardinality(PageOf(f, S, k)) <= Limit
         /\ Cardinality(PageOf(f, S, k)) < Limit =>
              Cardinality(S) <= k + Cardinality(PageOf(f, S, k))
  <1> DEFINE n == Cardinality(S)
             P == PageOf(f, S, k)
             last == IF n < k + Limit THEN n - 1 ELSE k + Limit - 1
             g == [r \in P |-> Rank(f, S, r)]
  <1>1. /\ n \in Nat /\ Limit \in Nat /\ Limit > 0 /\ k \in Int /\ last \in Int
        /\ IsFiniteSet(P) /\ Cardinality(P) \in Nat
    BY Sizes, ListingAssumption, P \in SUBSET Row DEF PageOf
  <1>2. \A r \in P : Rank(f, S, r) \in k..last
    BY <1>1, RankOnto, RankType DEF PageOf
  <1>3. \A i \in k..last : \E r \in P : Rank(f, S, r) = i
    <2> SUFFICES ASSUME NEW i \in k..last PROVE \E r \in P : Rank(f, S, r) = i
      OBVIOUS
    <2>1. i \in 0..(n - 1) /\ i \in k..(k + Limit - 1)
      BY <1>1
    <2>2. PICK r \in S : Rank(f, S, r) = i
      BY <2>1, RankOnto
    <2> QED BY <2>1, <2>2 DEF PageOf
  <1>4. \A q, r \in P : Rank(f, S, q) = Rank(f, S, r) => q = r
    BY RankOnto DEF PageOf
  <1>5. g \in Injection(P, k..last) /\ g \in Surjection(P, k..last)
    BY <1>2, <1>3, <1>4 DEF Injection, IsInjective, Surjection
  <1>6. IsFiniteSet(k..last) /\ Cardinality(k..last) = IF k > last THEN 0 ELSE last - k + 1
    BY <1>1, FS_Interval
  <1>7. Cardinality(P) = Cardinality(k..last)
    BY <1>5, <1>6, FS_Injection
  <1> HIDE DEF n, P
  <1> QED BY <1>1, <1>6, <1>7 DEF n, P

(* More rows push a row down; one row less lets it rise by one at most.    *)
LEMMA Pushed ==
  ASSUME NEW f, NEW T \in SUBSET Row, NEW S \in SUBSET T, NEW r
  PROVE  Rank(f, S, r) <= Rank(f, T, r)
  BY RankType, FS_Subset, Above(f, S, r) \in SUBSET Above(f, T, r) DEF Above, Rank

LEMMA Rises ==
  ASSUME NEW f, NEW S \in SUBSET Row, NEW q, NEW r
  PROVE  Rank(f, S, r) <= Rank(f, S \ {q}, r) + 1
  <1>1. Above(f, S \ {q}, r) = Above(f, S, r) \ {q}
    BY DEF Above
  <1>2. Cardinality(Above(f, S, r) \ {q}) >= Cardinality(Above(f, S, r)) - 1
    <2> DEFINE A == Above(f, S, r)
    <2>1. IsFiniteSet(A) /\ Cardinality(A) \in Nat
      BY RankType DEF Rank
    <2> HIDE DEF A
    <2>2. Cardinality(A \ {q}) = IF q \in A THEN Cardinality(A) - 1 ELSE Cardinality(A)
      BY <2>1, FS_RemoveElement
    <2>3. Cardinality(A \ {q}) >= Cardinality(A) - 1
      BY <2>1, <2>2
    <2> QED BY <2>3 DEF A
  <1>3. Rank(f, S \ {q}, r) \in Nat /\ Rank(f, S, r) \in Nat
    BY RankType, S \ {q} \in SUBSET Row
  <1>4. Rank(f, S \ {q}, r) >= Rank(f, S, r) - 1
    BY <1>1, <1>2 DEF Rank
  <1> QED BY <1>3, <1>4

-----------------------------------------------------------------------------
(* created_at tells rows apart.                                            *)
Born == {r \in Row : born[r] > 0}
BornInv ==
  /\ \A r \in Row : born[r] <= Cardinality(Born)
  /\ \A q, r \in Born : born[q] = born[r] => q = r

MoveInv == moves \in 0..MaxMoves /\ left <= moves

(* Rows the walk still owes and has gone past.                             *)
Past == {r \in due \ seen : Rank(born, Matching(who), r) < offset}

WalkInv ==
  /\ due \subseteq Matching(who)
  /\ Cardinality(Past) <= left
  /\ pc = "rows" => total <= Cardinality(Matching(who)) + left
  /\ PagingMisses /\ TotalConsistent

ListInv == TypeOK /\ BornInv /\ MoveInv /\ WalkInv

(* Nothing is assumed of the keys: a request is served for some principal. *)
LEMMA MatchingType ==
  ASSUME TypeOK, BornInv, NEW p
  PROVE  /\ Matching(p) \in SUBSET Row /\ Matching(p) \subseteq shown
         /\ \A q, r \in Matching(p) : born[q] = born[r] => q = r
         /\ born \in [Row -> Nat]
  BY DEF TypeOK, BornInv, Born, Matching

LEMMA ListInit == Init => ListInv
  <1> SUFFICES ASSUME Init PROVE ListInv OBVIOUS
  <1> USE DEF Init, KeysInit
  <1>1. Cardinality(Row) \in Nat /\ Cardinality({}) = 0 /\ Born = {}
    BY Sizes, FS_EmptySet DEF Born
  <1>2. TypeOK
    <2>1. KeysTypeOK
      <3>1. changes \in 0..MaxChanges
        BY KeysAssumption
      <3> QED BY <3>1 DEF KeysTypeOK
    <2>2. /\ born \in [Row -> 0..Cardinality(Row)]
          /\ owner \in [Row -> Principal \cup {NoPrincipal}]
      BY <1>1
    <2>3. total \in 0..Cardinality(Row) /\ Cardinality(items) <= Limit /\ left \in 0..MaxMoves
      BY <1>1, ListingAssumption
    <2> QED BY <2>1, <2>2, <2>3 DEF TypeOK
  <1>3. BornInv /\ MoveInv
    BY <1>1, ListingAssumption DEF BornInv, MoveInv
  <1>4. Past = {} /\ due \subseteq Matching(who)
    BY DEF Past
  <1>5. PagingMisses /\ TotalConsistent
    BY DEF PagingMisses, TotalConsistent
  <1>6. WalkInv
    BY <1>1, <1>4, <1>5 DEF WalkInv
  <1> QED BY <1>2, <1>3, <1>6 DEF ListInv

-----------------------------------------------------------------------------
(* Types, and created_at.                                                  *)
RowInv == TypeOK /\ BornInv /\ MoveInv

LEMMA FlushRows ==
  ASSUME RowInv, NEW r \in Row, Flush(r)
  PROVE  RowInv'
  <1> USE DEF RowInv
  <1>1. /\ born[r] = 0 /\ r \notin Born /\ born' = [born EXCEPT ![r] = 1 + Cardinality(Born)]
        /\ born \in [Row -> Nat]
    BY DEF Flush, Born, TypeOK
  <1>2. Born' = Born \cup {r} /\ IsFiniteSet(Born) /\ Cardinality(Born) \in Nat
    BY <1>1, Sizes, Born \in SUBSET Row DEF Born, TypeOK
  <1>3. Cardinality(Born') = Cardinality(Born) + 1
    BY <1>1, <1>2, FS_AddElement
  <1>4. Cardinality(Born') <= Cardinality(Row) /\ Cardinality(Row) \in Nat
    BY <1>2, Sizes, Born' \in SUBSET Row, Row \in SUBSET Row DEF Born
  <1>5. BornInv'
    <2>1. ASSUME NEW q \in Row PROVE born'[q] <= Cardinality(Born')
      BY <1>1, <1>2, <1>3 DEF BornInv
    <2>2. ASSUME NEW p \in Born', NEW q \in Born', born'[p] = born'[q] PROVE p = q
      <3>1. p \in Row /\ q \in Row /\ born[p] <= Cardinality(Born) /\ born[q] <= Cardinality(Born)
        BY DEF BornInv, Born
      <3> QED BY <1>1, <1>2, <2>2, <3>1 DEF BornInv
    <2> QED BY <2>1, <2>2 DEF BornInv
  <1>6. born' \in [Row -> 0..Cardinality(Row)]
    BY <1>1, <1>2, <1>3, <1>4 DEF TypeOK
  <1>7. owner' \in [Row -> Principal \cup {NoPrincipal}]
    BY DEF Flush, TypeOK
  <1>8. shown' \subseteq {q \in Row : born'[q] > 0}
    BY <1>1, <1>2 DEF Flush, TypeOK
  <1>9. TypeOK'
    BY <1>6, <1>7, <1>8 DEF Flush, TypeOK, KeysTypeOK, keyVars, pageVars, walkVars
  <1>10. MoveInv'
    BY DEF Flush, MoveInv, walkVars
  <1> QED BY <1>5, <1>9, <1>10

LEMMA BornSame ==
  ASSUME RowInv, UNCHANGED born
  PROVE  BornInv'
  BY DEF RowInv, BornInv, Born

LEMMA MatchesRows ==
  ASSUME TypeOK, NEW p
  PROVE  /\ Matching(p) \subseteq shown /\ Matching(p) \in SUBSET Row
         /\ Cardinality(Matching(p)) \in 0..Cardinality(Row)
  <1>1. Matching(p) \subseteq shown /\ Matching(p) \in SUBSET Row
    BY DEF Matching, TypeOK
  <1> QED BY <1>1, Sizes

LEMMA RowsStep == RowInv /\ [Next]_vars => RowInv'
  <1> SUFFICES ASSUME RowInv, [Next]_vars PROVE RowInv' OBVIOUS
  <1> USE DEF RowInv
  <1>1. CASE UNCHANGED vars
    BY <1>1 DEF TypeOK, KeysTypeOK, BornInv, Born, MoveInv,
                vars, keyVars, rowVars, pageVars, walkVars
  <1>2. CASE (Boot \/ Configure) /\ UNCHANGED <<rowVars, pc, pageVars, walkVars>>
    <2>1. KeysTypeOK'
      <3>1. CASE Boot
        BY <3>1 DEF Boot, TypeOK, KeysTypeOK
      <3>2. CASE Configure
        BY <3>2, KeysAssumption DEF Configure, TypeOK, KeysTypeOK
      <3> QED BY <1>2, <3>1, <3>2
    <2>2. UNCHANGED <<born, owner, shown, wanted, moves, pc, offset, total, items,
                      key, filtered, who, seen, due, left>>
      BY <1>2 DEF rowVars, pageVars, walkVars
    <2> QED BY <2>1, <2>2, BornSame DEF TypeOK, MoveInv
  <1>3. ASSUME NEW r \in Row, Flush(r) PROVE RowInv'
    BY <1>3, FlushRows
  <1>4. ASSUME NEW r \in Row, Commit(r) PROVE RowInv'
    BY <1>4, BornSame DEF Commit, TypeOK, KeysTypeOK, MoveInv, keyVars, pageVars, walkVars
  <1>5. ASSUME NEW r \in Row, Move(r) PROVE RowInv'
    <2>1. MoveInv'
      BY <1>5, ListingAssumption DEF Move, MoveInv, TypeOK
    <2>2. left' \in 0..MaxMoves
      BY <1>5, <2>1, ListingAssumption DEF Move, MoveInv, TypeOK
    <2> QED BY <1>5, <2>1, <2>2, BornSame DEF Move, TypeOK, KeysTypeOK, keyVars, pageVars
  <1>6. CASE Ask
    <2>1. due' \subseteq shown
      BY <1>6, MatchesRows DEF Ask, TypeOK, Matching, rowVars
    <2> QED BY <1>6, <2>1, BornSame
            DEF Ask, TypeOK, KeysTypeOK, MoveInv, keyVars, rowVars, pageVars
  <1>7. CASE Count
    BY <1>7, MatchesRows, BornSame
       DEF Count, TypeOK, KeysTypeOK, MoveInv, keyVars, rowVars, walkVars
  <1>8. CASE Rows
    <2>1. /\ Matching(who) \in SUBSET Row /\ born \in [Row -> Nat] /\ offset \in Nat
          /\ \A q, r \in Matching(who) : born[q] = born[r] => q = r
      BY MatchingType DEF TypeOK
    <2>2. Page = PageOf(born, Matching(who), offset)
      BY DEF Page, PageOf, Rank, Above
    <2>3. Cardinality(Page) <= Limit /\ Page \subseteq shown
      BY <2>1, <2>2, PageSize, MatchesRows DEF Page
    <2>4. offset' \in Nat
      BY <1>8, ListingAssumption DEF Rows, TypeOK
    <2> QED BY <1>8, <2>3, <2>4, BornSame
            DEF Rows, TypeOK, KeysTypeOK, MoveInv, keyVars, rowVars
  <1> QED BY <1>1, <1>2, <1>3, <1>4, <1>5, <1>6, <1>7, <1>8 DEF Next, Serve

-----------------------------------------------------------------------------
(* The walk, as rows come, rows go, and pages are answered.                *)
LEMMA PastType ==
  ASSUME RowInv
  PROVE  /\ Past \in SUBSET Row /\ IsFiniteSet(Past) /\ Cardinality(Past) \in Nat
         /\ Cardinality(due \ seen) \in Nat /\ IsFiniteSet(due \ seen)
  <1>1. Past \in SUBSET Row /\ due \ seen \in SUBSET Row
    BY DEF RowInv, TypeOK, Past
  <1> QED BY <1>1, Sizes

LEMMA Comes ==
  ASSUME RowInv, RowInv', WalkInv, due' \subseteq due, due' \subseteq Matching(who)',
         UNCHANGED <<offset, seen, left, pc, total, items>>,
         Matching(who) \subseteq Matching(who)',
         \A r \in Matching(who) : born'[r] = born[r]
  PROVE  WalkInv'
  <1> DEFINE M == Matching(who)
  <1>1. /\ M \in SUBSET Row /\ M' \in SUBSET Row
        /\ Cardinality(M) \in Nat /\ Cardinality(M') \in Nat
    <2>1. M \in SUBSET Row /\ M' \in SUBSET Row
      BY DEF RowInv, TypeOK, Matching
    <2> QED BY <2>1, Sizes
  <1>2. offset \in Nat /\ left \in Nat /\ total \in Nat
    BY ListingAssumption DEF RowInv, TypeOK
  <1>3. ASSUME NEW r \in Past' PROVE r \in Past
    <2>1. r \in due \ seen /\ r \in M /\ Rank(born', M', r) < offset
      BY <1>3 DEF Past, WalkInv
    <2>2. Above(born, M, r) \subseteq Above(born', M', r)
      BY <2>1 DEF Above
    <2>3. Rank(born, M, r) <= Rank(born', M', r)
      BY <1>1, <2>2, RankType, FS_Subset DEF Rank
    <2>4. Rank(born, M, r) \in Nat /\ Rank(born', M', r) \in Nat
      BY <1>1, RankType
    <2>5. Rank(born, M, r) < offset
      BY <1>2, <2>1, <2>3, <2>4
    <2> QED BY <2>1, <2>5 DEF Past
  <1>4. Cardinality(Past') <= left'
    <2>1. Past' \in SUBSET Past
      BY <1>3
    <2>2. IsFiniteSet(Past) /\ Cardinality(Past) \in Nat
      BY PastType
    <2>3. IsFiniteSet(Past') /\ Cardinality(Past') <= Cardinality(Past)
      BY <2>1, <2>2, FS_Subset
    <2>4. Cardinality(Past') \in Nat
      BY <2>3, FS_CardinalityType
    <2> QED BY <1>2, <2>2, <2>3, <2>4 DEF WalkInv
  <1>5. pc' = "rows" => total' <= Cardinality(M') + left'
    <2>1. Cardinality(M) <= Cardinality(M')
      BY <1>1, Sizes, FS_Subset
    <2> QED BY <1>1, <1>2, <2>1 DEF WalkInv
  <1>6. PagingMisses'
    <2>1. Cardinality(due' \ seen') <= Cardinality(due \ seen)
      BY PastType, FS_Subset
    <2>2. Cardinality(due' \ seen') \in Nat
      BY PastType, RowInv', FS_Subset, FS_CardinalityType
    <2> QED BY <1>2, <2>1, <2>2, PastType DEF WalkInv, PagingMisses
  <1>7. TotalConsistent'
    BY DEF WalkInv, TotalConsistent
  <1> QED BY <1>4, <1>5, <1>6, <1>7 DEF WalkInv

LEMMA Goes ==
  ASSUME RowInv, RowInv', WalkInv, NEW r \in Matching(who),
         Matching(who)' = Matching(who) \ {r}, due' = due \ {r}, left' = left + 1,
         UNCHANGED <<born, offset, seen, pc, total, items>>
  PROVE  WalkInv'
  <1> DEFINE M == Matching(who)
             edge == {x \in M : Rank(born, M, x) = offset}
  <1>1. /\ M \in SUBSET Row /\ IsFiniteSet(M) /\ Cardinality(M) \in Nat
        /\ \A x, y \in M : born[x] = born[y] => x = y
        /\ born \in [Row -> Nat]
    BY MatchingType, Sizes DEF RowInv
  <1>2. offset \in Nat /\ left \in Nat /\ total \in Nat /\ Cardinality(items) \in Nat
    BY ListingAssumption, Sizes, items \in SUBSET Row DEF RowInv, TypeOK
  <1>3. ASSUME NEW x \in Past' PROVE x \in Past \/ x \in edge
    <2>1. x \in due \ seen /\ x \in M /\ Rank(born, M \ {r}, x) < offset
      BY <1>3 DEF Past, WalkInv
    <2>2. Rank(born, M, x) <= Rank(born, M \ {r}, x) + 1
      BY <1>1, Rises
    <2>3. Rank(born, M, x) \in Nat /\ Rank(born, M \ {r}, x) \in Nat
      BY <1>1, RankType, M \ {r} \in SUBSET Row
    <2>4. Rank(born, M, x) < offset \/ Rank(born, M, x) = offset
      BY <1>2, <2>1, <2>2, <2>3
    <2> QED BY <2>1, <2>4 DEF Past
  <1>4. PICK y : edge \subseteq {y}
    <2>1. \A x, z \in edge : x = z
      BY <1>1, RankOnto
    <2> QED BY <2>1
  <1>5. Cardinality(Past') <= Cardinality(Past) + 1 /\ Cardinality(Past') \in Nat
    <2>1. IsFiniteSet(Past) /\ Cardinality(Past) \in Nat
      BY PastType
    <2>2. /\ IsFiniteSet(Past \cup {y})
          /\ Cardinality(Past \cup {y}) = IF y \in Past THEN Cardinality(Past)
                                                     ELSE Cardinality(Past) + 1
      BY <2>1, FS_AddElement
    <2>3. Past' \in SUBSET (Past \cup {y})
      BY <1>3, <1>4
    <2>4. IsFiniteSet(Past') /\ Cardinality(Past') <= Cardinality(Past \cup {y})
      BY <2>2, <2>3, FS_Subset
    <2>5. Cardinality(Past') \in Nat
      BY <2>4, FS_CardinalityType
    <2> QED BY <2>1, <2>2, <2>4, <2>5
  <1>6. Cardinality(Past') <= left' /\ due' \subseteq Matching(who)'
    <2>1. Cardinality(Past) \in Nat /\ Cardinality(Past) <= left
      BY PastType DEF WalkInv
    <2>2. due' \subseteq Matching(who)'
      BY DEF WalkInv
    <2> QED BY <1>2, <1>5, <2>1, <2>2
  <1>7. pc' = "rows" => total' <= Cardinality(Matching(who)') + left'
    <2>1. Cardinality(M \ {r}) = Cardinality(M) - 1
      BY <1>1, FS_RemoveElement
    <2> QED BY <1>1, <1>2, <2>1 DEF WalkInv
  <1>8. PagingMisses'
    <2>1. Cardinality(due' \ seen') <= Cardinality(due \ seen)
      BY PastType, FS_Subset
    <2>2. Cardinality(due' \ seen') \in Nat
      BY PastType, RowInv', FS_Subset, FS_CardinalityType
    <2> QED BY <1>2, <2>1, <2>2, PastType DEF WalkInv, PagingMisses
  <1>9. TotalConsistent'
    BY <1>2 DEF WalkInv, TotalConsistent
  <1> QED BY <1>6, <1>7, <1>8, <1>9 DEF WalkInv

LEMMA AskStep ==
  ASSUME RowInv, WalkInv, Ask
  PROVE  WalkInv'
  <1>1. /\ pc' \in {"count", "refused"} /\ offset \in Nat /\ left \in Nat
        /\ UNCHANGED <<born, owner, shown, wanted, filtered, offset, total, items, seen, left>>
    BY ListingAssumption DEF Ask, RowInv, TypeOK, rowVars, pageVars
  <1>2. PagingMisses' /\ TotalConsistent'
    BY <1>1 DEF PagingMisses, TotalConsistent
  <1>3. CASE UNCHANGED <<who, due>>
    <2>1. UNCHANGED <<Matching(who), Past>>
      BY <1>1, <1>3 DEF Matching, Past
    <2> QED BY <1>1, <1>2, <1>3, <2>1 DEF WalkInv
  <1>4. CASE due' = Matching(who)' /\ offset = 0
    <2>1. \A r : Rank(born', Matching(who)', r) \in Nat
      BY RankType, Matching(who)' \in SUBSET Row DEF Matching, RowInv, TypeOK, Ask, rowVars
    <2>2. Past' = {}
      BY <1>1, <1>4, <2>1 DEF Past
    <2> QED BY <1>1, <1>2, <1>4, <2>2, FS_EmptySet DEF WalkInv
  <1>5. CASE due' = {}
    <2>1. Past' = {}
      BY <1>5 DEF Past
    <2> QED BY <1>1, <1>2, <1>5, <2>1, FS_EmptySet DEF WalkInv
  <1>6. \/ UNCHANGED <<who, due>> \/ due' = {}
        \/ due' = Matching(who)' /\ offset = 0
    BY DEF Ask, Matching, rowVars
  <1> QED BY <1>3, <1>4, <1>5, <1>6

LEMMA CountStep ==
  ASSUME RowInv, WalkInv, Count
  PROVE  WalkInv'
  <1>1. UNCHANGED <<Matching(who), Past, left, due>>
    BY DEF Count, Matching, Past, rowVars, walkVars
  <1>2. pc' = "rows" /\ total' = Cardinality(Matching(who)) /\ left \in Nat
    BY ListingAssumption DEF Count, RowInv, TypeOK
  <1>3. Cardinality(Matching(who)) \in Nat
    BY MatchesRows, Sizes DEF RowInv
  <1>4. PagingMisses' /\ TotalConsistent'
    BY <1>2 DEF PagingMisses, TotalConsistent
  <1> QED BY <1>1, <1>2, <1>3, <1>4 DEF WalkInv

(* A short page is the last one: all that match were on it or before it.   *)
LEMMA PageStep ==
  ASSUME RowInv, WalkInv, Rows
  PROVE  WalkInv'
  <1> DEFINE M == Matching(who)
  <1>1. /\ M \in SUBSET Row /\ Cardinality(M) \in Nat /\ born \in [Row -> Nat]
        /\ \A q, r \in M : born[q] = born[r] => q = r
        /\ Limit \in Nat /\ offset \in Nat /\ left \in Nat /\ total \in Nat
    BY MatchingType, Sizes, ListingAssumption DEF RowInv, TypeOK
  <1>2. Page = PageOf(born, M, offset)
    BY DEF Page, PageOf, Rank, Above
  <1>3. /\ pc = "rows" /\ items' = Page /\ seen' = seen \cup Page
        /\ UNCHANGED <<Matching(who), born, total, due, left>>
        /\ \/ Cardinality(Page) < Limit /\ pc' = "end" /\ offset' = offset
           \/ ~(Cardinality(Page) < Limit) /\ pc' = "ask" /\ offset' = offset + Limit
    BY DEF Rows, Matching, rowVars
  <1>4. Cardinality(Page) \in Nat
    BY <1>1, <1>2, Sizes, PageOf(born, M, offset) \in SUBSET Row DEF PageOf
  <1>5. ASSUME NEW r \in due \ seen', Rank(born, M, r) < offset + Limit PROVE r \in Past
    <2>1. r \in M /\ r \notin PageOf(born, M, offset) /\ r \in due \ seen
      BY <1>2, <1>3 DEF WalkInv
    <2>2. Rank(born, M, r) \in Nat /\ ~(Rank(born, M, r) \in offset..(offset + Limit - 1))
      BY <1>1, <2>1, RankType DEF PageOf
    <2>3. Rank(born, M, r) < offset
      BY <1>1, <1>5, <2>2
    <2> QED BY <2>1, <2>3 DEF Past
  <1>6. Past' \in SUBSET Past
    <2>1. ASSUME NEW r \in Past' PROVE r \in Past
      <3>1. r \in due \ seen' /\ Rank(born, M, r) < offset'
        BY <1>3, <2>1 DEF Past
      <3>2. Rank(born, M, r) \in Nat
        BY <1>1, RankType
      <3>3. Rank(born, M, r) < offset + Limit
        BY <1>1, <1>3, <3>1, <3>2
      <3> QED BY <1>5, <3>1, <3>3
    <2> QED BY <2>1
  <1>7. Cardinality(Past) \in Nat /\ IsFiniteSet(Past) /\ Cardinality(Past) <= left
    BY PastType DEF WalkInv
  <1>8. Cardinality(Past') <= left'
    <2>1. IsFiniteSet(Past') /\ Cardinality(Past') <= Cardinality(Past)
      BY <1>6, <1>7, FS_Subset
    <2>2. Cardinality(Past') \in Nat
      BY <2>1, FS_CardinalityType
    <2> QED BY <1>1, <1>3, <1>7, <2>1, <2>2
  <1>9. PagingMisses' /\ TotalConsistent'
    <2> SUFFICES ASSUME pc' = "end" PROVE PagingMisses' /\ TotalConsistent'
      BY DEF PagingMisses, TotalConsistent
    <2>1. Cardinality(M) <= offset + Cardinality(Page) /\ Cardinality(Page) < Limit
      BY <1>1, <1>2, <1>3, PageSize
    <2>2. due' \ seen' \in SUBSET Past
      <3>1. ASSUME NEW r \in due' \ seen' PROVE r \in Past
        <4>1. r \in due \ seen' /\ r \in M
          BY <1>3, <3>1 DEF WalkInv
        <4>2. Rank(born, M, r) \in 0..(Cardinality(M) - 1)
          BY <1>1, <4>1, RankOnto
        <4>3. Rank(born, M, r) < offset + Limit
          BY <1>1, <1>4, <2>1, <4>2
        <4> QED BY <1>5, <4>1, <4>3
      <3> QED BY <3>1
    <2>3. IsFiniteSet(due' \ seen') /\ Cardinality(due' \ seen') <= Cardinality(Past)
      BY <1>7, <2>2, FS_Subset
    <2>4. Cardinality(due' \ seen') \in Nat
      BY <2>3, FS_CardinalityType
    <2>5. PagingMisses'
      BY <1>1, <1>3, <1>7, <2>3, <2>4 DEF PagingMisses
    <2>6. total <= Cardinality(M) + left
      BY <1>3 DEF WalkInv
    <2>7. TotalConsistent'
      BY <1>1, <1>3, <1>4, <2>1, <2>6 DEF TotalConsistent
    <2> QED BY <2>5, <2>7
  <1> QED BY <1>3, <1>8, <1>9 DEF WalkInv

LEMMA ListStep == ListInv /\ [Next]_vars => ListInv'
  <1> SUFFICES ASSUME RowInv, WalkInv, [Next]_vars PROVE RowInv' /\ WalkInv'
    BY DEF ListInv, RowInv
  <1>1. RowInv'
    BY RowsStep
  <1>2. CASE UNCHANGED <<rowVars, pc, pageVars, walkVars>>
    BY <1>1, <1>2 DEF WalkInv, Past, Matching, PagingMisses, TotalConsistent,
                rowVars, pageVars, walkVars
  <1>3. ASSUME NEW r \in Row, Flush(r) PROVE WalkInv'
    <2>1. born[r] = 0 /\ r \notin shown
      BY <1>3 DEF Flush, RowInv, TypeOK
    <2>2. /\ UNCHANGED <<offset, seen, left, pc, total, items, due>>
          /\ Matching(who)' = Matching(who)
      BY <1>3, <2>1 DEF Flush, Matching, RowInv, TypeOK, pageVars, walkVars
    <2>3. \A q \in Matching(who) : born'[q] = born[q]
      BY <1>3, <2>1 DEF Flush, Matching, RowInv, TypeOK
    <2> QED BY <1>1, <2>2, <2>3, Comes DEF WalkInv
  <1>4. ASSUME NEW r \in Row, Commit(r) PROVE WalkInv'
    <2>1. /\ UNCHANGED <<offset, seen, left, pc, total, items, due, born>>
          /\ Matching(who) \subseteq Matching(who)'
      BY <1>4 DEF Commit, Matching, pageVars, walkVars
    <2> QED BY <1>1, <2>1, Comes DEF WalkInv
  <1>5. ASSUME NEW r \in Row, Move(r) PROVE WalkInv'
    <2>1. UNCHANGED <<born, owner, shown, who, filtered, offset, seen, pc, total, items>>
      BY <1>5 DEF Move, pageVars
    <2>2. CASE filtered /\ r \in Matching(who)
      <3>1. Matching(who)' = Matching(who) \ {r} /\ due' = due \ {r} /\ left' = left + 1
        BY <1>5, <2>1, <2>2 DEF Move, Matching
      <3> QED BY <1>1, <2>1, <2>2, <3>1, Goes
    <2>3. CASE ~(filtered /\ r \in Matching(who))
      <3>1. /\ Matching(who) \subseteq Matching(who)' /\ due' \subseteq due
            /\ due' \subseteq Matching(who)' /\ UNCHANGED left
        BY <1>5, <2>1, <2>3 DEF Move, Matching, WalkInv
      <3> QED BY <1>1, <2>1, <3>1, Comes
    <2> QED BY <2>2, <2>3
  <1>6. CASE Serve
    BY <1>1, <1>6, AskStep, CountStep, PageStep DEF Serve
  <1>7. \/ UNCHANGED <<rowVars, pc, pageVars, walkVars>> \/ Serve
        \/ \E r \in Row : Flush(r) \/ Commit(r) \/ Move(r)
    BY DEF Next, vars
  <1> QED BY <1>1, <1>2, <1>3, <1>4, <1>5, <1>6, <1>7

(* Every variable keeps its type, and a page has no more rows than asked.  *)
THEOREM TypeCorrect == Spec => []TypeOK
  <1>1. ListInv => TypeOK
    BY DEF ListInv
  <1> QED BY <1>1, ListInit, ListStep, PTL DEF Spec

(* environment_router.py list_environments: a client that asks for page    *)
(* after page sees every row that matched all the time, and misses at most *)
(* one row for each that left the status it filters by.                    *)
THEOREM WalkMisses == Spec => []PagingMisses
  <1>1. ListInv => PagingMisses
    BY DEF ListInv, WalkInv
  <1> QED BY <1>1, ListInit, ListStep, PTL DEF Spec

(* environment_router.py list_environments: the total never promises more  *)
(* rows than were listed, beyond those that left the status.               *)
THEOREM TotalRight == Spec => []TotalConsistent
  <1>1. ListInv => TotalConsistent
    BY DEF ListInv, WalkInv
  <1> QED BY <1>1, ListInit, ListStep, PTL DEF Spec

-----------------------------------------------------------------------------
(* Every set of naturals has a least element, so a set that holds 0 and    *)
(* with each number the next holds all.                                    *)
LEMMA Least ==
  ASSUME NEW T \in SUBSET Nat, T # {}
  PROVE  \E m \in T : \A k \in T : m <= k
  <1> DEFINE R == {p \in Nat \X Nat : p[1] < p[2]}
  <1>1. IsWellFoundedOn(R, Nat)
    BY NatLessThanWellFounded DEF OpToRel
  <1>2. \A i, j \in Nat : <<i, j>> \in R <=> i < j
    OBVIOUS
  <1> HIDE DEF R
  <1>3. T \subseteq Nat /\ T # {}
    OBVIOUS
  <1>4. PICK m \in T : \A k \in T : ~(<<k, m>> \in R)
    BY <1>1, <1>3, WFMin, Zenon
  <1>5. ASSUME NEW k \in T PROVE m <= k
    <2>1. m \in Nat /\ k \in Nat
      BY <1>3
    <2>2. ~(k < m)
      BY <1>2, <1>4, <2>1
    <2> QED BY <2>1, <2>2
  <1> QED BY <1>5

LEMMA Induction ==
  ASSUME NEW S, 0 \in S, \A n \in Nat : n \in S => n + 1 \in S
  PROVE  Nat \subseteq S
  <1> SUFFICES ASSUME NEW b \in Nat, b \notin S PROVE FALSE
    OBVIOUS
  <1> DEFINE T == {n \in Nat : n \notin S}
  <1>1. PICK m \in T : \A k \in T : m <= k
    BY Least
  <1>2. m # 0 /\ m - 1 \in Nat /\ m - 1 \notin T
    BY <1>1
  <1> QED BY <1>1, <1>2

-----------------------------------------------------------------------------
(* f is what the loop over the entries of raw computes in n rounds.        *)
LoopTo(f, raw, n) ==
  f = [i \in 0..n |-> IF i = 0 THEN NoKeys ELSE Take(f[i - 1], raw[i])]

LEMMA LoopExists ==
  ASSUME NEW raw, NEW n \in Nat
  PROVE  \E f : LoopTo(f, raw, n)
  <1> DEFINE S == {k \in Nat : \E f : LoopTo(f, raw, k)}
  <1>1. 0 \in S
    <2>1. LoopTo([i \in 0..0 |-> NoKeys], raw, 0)
      BY DEF LoopTo
    <2> QED BY <2>1
  <1>2. ASSUME NEW k \in Nat, k \in S PROVE k + 1 \in S
    <2>1. PICK f : LoopTo(f, raw, k)
      BY <1>2
    <2> DEFINE g == [i \in 0..(k + 1) |-> IF i = k + 1 THEN Take(f[k], raw[k + 1]) ELSE f[i]]
    <2>2. \A i \in 0..k : f[i] = IF i = 0 THEN NoKeys ELSE Take(f[i - 1], raw[i])
      BY <2>1 DEF LoopTo
    <2>3. ASSUME NEW i \in 0..(k + 1)
          PROVE  g[i] = IF i = 0 THEN NoKeys ELSE Take(g[i - 1], raw[i])
      <3>1. CASE i = k + 1
        <4>1. g[i] = Take(f[k], raw[k + 1]) /\ g[k] = f[k] /\ i - 1 = k /\ i # 0
          BY <3>1
        <4> QED BY <3>1, <4>1
      <3>2. CASE i # k + 1
        <4>1. i \in 0..k /\ g[i] = f[i]
          BY <3>2
        <4>2. i # 0 => g[i - 1] = f[i - 1]
          BY <3>2
        <4> QED BY <2>2, <4>1, <4>2
      <3> QED BY <3>1, <3>2
    <2>4. g = [i \in 0..(k + 1) |-> g[i]]
      OBVIOUS
    <2> HIDE DEF g
    <2>5. LoopTo(g, raw, k + 1)
      BY <2>3, <2>4 DEF LoopTo
    <2> QED BY <2>5
  <1> HIDE DEF S
  <1>3. Nat \subseteq S
    BY <1>1, <1>2, Induction
  <1> QED BY <1>3 DEF S

(* So the recursive definition of the rounds defines a function.           *)
LEMMA RoundsDef ==
  ASSUME NEW raw \in Seq(Entry)
  PROVE  /\ Len(raw) \in Nat
         /\ Rounds(raw)[0] = NoKeys
         /\ \A i \in 1..Len(raw) : Rounds(raw)[i] = Take(Rounds(raw)[i - 1], raw[i])
  <1>1. Len(raw) \in Nat
    OBVIOUS
  <1>2. \E f : LoopTo(f, raw, Len(raw))
    BY <1>1, LoopExists
  <1>3. Rounds(raw) = CHOOSE f : LoopTo(f, raw, Len(raw))
    BY DEF Rounds, LoopTo
  <1>4. LoopTo(Rounds(raw), raw, Len(raw))
    BY <1>2, <1>3
  <1>5. \A i \in 0..Len(raw) :
          Rounds(raw)[i] = IF i = 0 THEN NoKeys ELSE Take(Rounds(raw)[i - 1], raw[i])
    BY <1>4 DEF LoopTo
  <1>6. \A i \in 1..Len(raw) : i \in 0..Len(raw) /\ i # 0
    BY <1>1
  <1>7. 0 \in 0..Len(raw)
    BY <1>1
  <1> QED BY <1>1, <1>5, <1>6, <1>7

-----------------------------------------------------------------------------
Outcome == [ok : BOOLEAN, of : UNION {[D -> Principal] : D \in SUBSET Key}]

(* The entries among the first n that are not blank.                       *)
Given(raw, n) == {j \in 1..n : raw[j] # Blank}

(* Each of them has a principal and a key that is long enough and occurs   *)
(* in no other.                                                            *)
WellFormed(raw, n) ==
  /\ \A j \in Given(raw, n) :
       raw[j].principal # NoPrincipal /\ raw[j].key \notin ShortKey
  /\ \A i, j \in Given(raw, n) : raw[i].key = raw[j].key => i = j

(* keys is the map that the first n entries spell out.                     *)
Spells(keys, raw, n) ==
  /\ DOMAIN keys.of = {raw[j].key : j \in Given(raw, n)}
  /\ \A j \in Given(raw, n) : keys.of[raw[j].key] = raw[j].principal

LEMMA TakeOne ==
  ASSUME NEW keys \in Outcome, NEW e \in Entry \ {Blank}, keys.ok
  PROVE  LET good == /\ e.principal # NoPrincipal
                     /\ e.key \notin ShortKey
                     /\ e.key \notin DOMAIN keys.of
         IN /\ Take(keys, e) \in Outcome
            /\ Take(keys, e).ok <=> good
            /\ good => /\ DOMAIN Take(keys, e).of = DOMAIN keys.of \cup {e.key}
                       /\ Take(keys, e).of[e.key] = e.principal
                       /\ \A k \in DOMAIN keys.of : Take(keys, e).of[k] = keys.of[k]
  <1>1. PICK D \in SUBSET Key : keys.of \in [D -> Principal]
    BY DEF Outcome
  <1>2. e.key \in Key /\ e.principal \in Principal \cup {NoPrincipal}
    BY DEF Entry
  <1> DEFINE good == /\ e.principal # NoPrincipal
                     /\ e.key \notin ShortKey
                     /\ e.key \notin DOMAIN keys.of
             more == Put(keys.of, e.key, e.principal)
  <1>3. CASE good
    <2>1. Take(keys, e) = [keys EXCEPT !.of = more]
      BY <1>3 DEF Take
    <2>2. /\ DOMAIN more = D \cup {e.key}
          /\ more[e.key] = e.principal
          /\ \A k \in D : more[k] = keys.of[k]
      BY <1>1, <1>2, <1>3 DEF Put
    <2>3. more \in [D \cup {e.key} -> Principal]
      BY <1>1, <1>2, <1>3 DEF Put
    <2> HIDE DEF more
    <2>4. Take(keys, e).of = more /\ Take(keys, e).ok = keys.ok
      BY <2>1 DEF Outcome
    <2>5. D \cup {e.key} \in SUBSET Key
      BY <1>2
    <2>6. Take(keys, e) \in Outcome
      BY <2>1, <2>3, <2>5 DEF Outcome
    <2> QED BY <1>1, <1>3, <2>2, <2>4, <2>6
  <1>4. CASE ~good
    <2>1. Take(keys, e) = [keys EXCEPT !.ok = FALSE]
      BY <1>4 DEF Take
    <2>2. Take(keys, e) \in Outcome /\ ~Take(keys, e).ok
      BY <2>1 DEF Outcome
    <2> QED BY <1>4, <2>2
  <1> QED BY <1>3, <1>4

(* After n rounds: a map of the entries so far, or an error because they   *)
(* are not well-formed.                                                    *)
RoundInv(raw, n) ==
  /\ Rounds(raw)[n] \in Outcome
  /\ Rounds(raw)[n].ok <=> WellFormed(raw, n)
  /\ Rounds(raw)[n].ok => Spells(Rounds(raw)[n], raw, n)

LEMMA FirstRound ==
  ASSUME NEW raw \in Seq(Entry)
  PROVE  RoundInv(raw, 0)
  <1>1. Rounds(raw)[0] = NoKeys
    BY RoundsDef
  <1>2. Given(raw, 0) = {}
    BY DEF Given
  <1>3. [k \in {} |-> NoPrincipal] \in [{} -> Principal]
    OBVIOUS
  <1>4. NoKeys \in Outcome /\ NoKeys.ok
    BY <1>3 DEF NoKeys, Outcome
  <1> QED BY <1>1, <1>2, <1>4 DEF RoundInv, WellFormed, Spells, NoKeys

LEMMA NextRound ==
  ASSUME NEW raw \in Seq(Entry), NEW n \in Nat, n + 1 <= Len(raw), RoundInv(raw, n)
  PROVE  RoundInv(raw, n + 1)
  <1> DEFINE before == Rounds(raw)[n]
             after  == Rounds(raw)[n + 1]
             e      == raw[n + 1]
  <1>1. n + 1 \in 1..Len(raw) /\ (n + 1) - 1 = n
    OBVIOUS
  <1>2. after = Take(before, e)
    BY <1>1, RoundsDef
  <1>3. e \in Entry
    BY <1>1
  <1>4. /\ before \in Outcome
        /\ before.ok <=> WellFormed(raw, n)
        /\ before.ok => Spells(before, raw, n)
    BY DEF RoundInv
  <1>5. Given(raw, n) \subseteq Given(raw, n + 1)
    BY DEF Given
  <1> HIDE DEF before, after
  <1>6. SUFFICES /\ after \in Outcome
                 /\ after.ok <=> WellFormed(raw, n + 1)
                 /\ after.ok => Spells(after, raw, n + 1)
    BY DEF RoundInv, after
  <1>7. CASE e = Blank
    <2>1. Given(raw, n + 1) = Given(raw, n)
      BY <1>7 DEF Given
    <2>2. after = before
      BY <1>2, <1>7 DEF Take
    <2> QED BY <1>4, <2>1, <2>2 DEF WellFormed, Spells
  <1>8. CASE ~before.ok
    <2>1. after = before
      BY <1>2, <1>8 DEF Take
    <2>2. ~WellFormed(raw, n + 1)
      BY <1>4, <1>5, <1>8 DEF WellFormed
    <2> QED BY <1>4, <1>8, <2>1, <2>2
  <1>9. CASE e # Blank /\ before.ok
    <2> DEFINE good == /\ e.principal # NoPrincipal
                       /\ e.key \notin ShortKey
                       /\ e.key \notin DOMAIN before.of
    <2>1. e \in Entry \ {Blank}
      BY <1>3, <1>9
    <2>2. /\ after \in Outcome
          /\ after.ok <=> good
          /\ good => /\ DOMAIN after.of = DOMAIN before.of \cup {e.key}
                     /\ after.of[e.key] = e.principal
                     /\ \A k \in DOMAIN before.of : after.of[k] = before.of[k]
      BY <1>2, <1>4, <1>9, <2>1, TakeOne
    <2>3. /\ Given(raw, n + 1) = Given(raw, n) \cup {n + 1}
          /\ n + 1 \notin Given(raw, n)
      BY <1>9 DEF Given
    <2>4. DOMAIN before.of = {raw[j].key : j \in Given(raw, n)}
      BY <1>4, <1>9 DEF Spells
    <2>5. \A j \in Given(raw, n) : before.of[raw[j].key] = raw[j].principal
      BY <1>4, <1>9 DEF Spells
    <2>6. good <=> WellFormed(raw, n + 1)
      <3>1. e.key \notin DOMAIN before.of <=> \A j \in Given(raw, n) : raw[j].key # raw[n + 1].key
        BY <2>4
      <3> QED BY <1>4, <1>9, <2>3, <3>1 DEF WellFormed
    <2>7. good => Spells(after, raw, n + 1)
      <3> SUFFICES ASSUME good PROVE Spells(after, raw, n + 1)
        OBVIOUS
      <3>1. DOMAIN after.of = {raw[j].key : j \in Given(raw, n + 1)}
        BY <2>2, <2>3, <2>4
      <3>2. ASSUME NEW j \in Given(raw, n) PROVE after.of[raw[j].key] = raw[j].principal
        <4>1. raw[j].key \in DOMAIN before.of
          BY <2>4
        <4> QED BY <2>2, <2>5, <4>1
      <3>3. after.of[raw[n + 1].key] = raw[n + 1].principal
        BY <2>2
      <3> QED BY <2>3, <3>1, <3>2, <3>3 DEF Spells
    <2> QED BY <2>2, <2>6, <2>7
  <1> QED BY <1>7, <1>8, <1>9

LEMMA AllRounds ==
  ASSUME NEW raw \in Seq(Entry)
  PROVE  RoundInv(raw, Len(raw))
  <1> DEFINE S == {n \in Nat : n <= Len(raw) => RoundInv(raw, n)}
  <1>1. 0 \in S
    BY FirstRound
  <1>2. ASSUME NEW n \in Nat, n \in S PROVE n + 1 \in S
    <2>1. CASE n + 1 <= Len(raw)
      <3>1. n <= Len(raw)
        BY <2>1
      <3>2. RoundInv(raw, n)
        BY <1>2, <3>1
      <3> QED BY <2>1, <3>2, NextRound
    <2>2. CASE ~(n + 1 <= Len(raw))
      BY <2>2
    <2> QED BY <2>1, <2>2
  <1> HIDE DEF S
  <1>3. Nat \subseteq S
    BY <1>1, <1>2, Induction
  <1>4. Len(raw) \in Nat
    OBVIOUS
  <1> QED BY <1>3, <1>4 DEF S

(* auth.py _parse, for any list of entries: it raises unless every entry   *)
(* has a principal and a long enough key of its own, and otherwise returns *)
(* exactly the entries.                                                    *)
THEOREM ParseRight ==
  ASSUME NEW raw \in Seq(Entry)
  PROVE  /\ Parse(raw).ok <=> WellFormed(raw, Len(raw))
         /\ Parse(raw).ok => Spells(Parse(raw), raw, Len(raw))
  BY AllRounds DEF RoundInv, Parse

LEMMA KeysOverride ==
  ASSUME config \in Raws PROVE NoEntryOverridden
  <1>1. config \in Seq(Entry)
    BY KeysAssumption
  <1> DEFINE keys == Parse(config)
  <1>2. /\ keys.ok <=> WellFormed(config, Len(config))
        /\ keys.ok => Spells(keys, config, Len(config))
    BY <1>1, ParseRight
  <1> SUFFICES ASSUME NEW j \in DOMAIN config, config[j] # Blank
               PROVE  Caller(config[j].key) \in {config[j].principal, "500"} \ {NoPrincipal}
    BY DEF NoEntryOverridden
  <1>3. j \in Given(config, Len(config))
    BY <1>1 DEF Given
  <1> HIDE DEF keys
  <1>4. CASE ~keys.ok
    <2>1. Caller(config[j].key) = "500"
      BY <1>4 DEF Caller, keys
    <2> QED BY <2>1, KeysAssumption
  <1>5. CASE keys.ok
    <2>1. config[j].principal # NoPrincipal
      BY <1>2, <1>3, <1>5 DEF WellFormed
    <2>2. config[j].key \in DOMAIN keys.of /\ keys.of[config[j].key] = config[j].principal
      BY <1>2, <1>3, <1>5 DEF Spells
    <2>3. PrincipalFor(config[j].key, keys) = config[j].principal
      BY <2>2 DEF PrincipalFor
    <2>4. Caller(config[j].key) = config[j].principal
      BY <1>5, <2>1, <2>2, <2>3 DEF Caller, keys
    <2> QED BY <2>1, <2>4
  <1> QED BY <1>4, <1>5

(* auth.py require_principal: while the keys are changed between any two   *)
(* requests, no entry of API_KEYS is overridden by another.                *)
THEOREM KeysHonoured == Spec => []NoEntryOverridden
  <1>1. ListInv => NoEntryOverridden
    BY KeysOverride DEF ListInv, TypeOK, KeysTypeOK
  <1> QED BY <1>1, ListInit, ListStep, PTL DEF Spec
=============================================================================
