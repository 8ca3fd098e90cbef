--------------------------- MODULE QuantityLemmas ---------------------------
(***************************************************************************)
(* What Total, the sum of a column over a set of rows, computes, proved on *)
(* its pieces: Total is their cardinality.  At the end, what the cut of    *)
(* the listings of a stock makes of their sum, for any quantities: how far *)
(* the rounding of the shares takes it from the target.                    *)
(***************************************************************************)
EXTENDS StockReduction, FiniteSetTheorems, FunctionTheorems,
        WellFoundedInduction, TLAPS

\* A pair is a piece of f over S exactly when it numbers a unit of a row.
LEMMA PiecesMember ==
  ASSUME NEW S, NEW f, NEW i, NEW k
  PROVE  <<i, k>> \in Pieces(S, f) <=> i \in S /\ k \in 1..f[i]
  BY DEF Pieces

\* Pieces are pairs.
LEMMA PiecesPairs ==
  ASSUME NEW S, NEW f, NEW x \in Pieces(S, f)
  PROVE  \E i \in S : \E k \in 1..f[i] : x = <<i, k>>
  BY DEF Pieces

\* Finitely many rows have finitely many pieces.
LEMMA PiecesFinite ==
  ASSUME NEW S, IsFiniteSet(S), NEW f, \A i \in S : f[i] \in Nat
  PROVE  IsFiniteSet(Pieces(S, f))
  <1> DEFINE row(i) == {i} \X (1..f[i])
             rows == {row(i) : i \in S}
             g == [i \in S |-> row(i)]
  <1>1. g \in Surjection(S, rows)
    BY DEF Surjection
  <1>2. IsFiniteSet(rows)
    BY <1>1, FS_Surjection
  <1>3. ASSUME NEW T \in rows PROVE IsFiniteSet(T)
    <2>1. PICK i \in S : T = row(i)
      OBVIOUS
    <2>2. f[i] \in Int /\ 1 \in Int
      OBVIOUS
    <2>3. IsFiniteSet(1..f[i])
      BY <2>2, FS_Interval
    <2>4. IsFiniteSet({i})
      BY FS_Singleton
    <2>5. IsFiniteSet({i} \X (1..f[i]))
      BY <2>3, <2>4, FS_Product
    <2> QED
      BY <2>1, <2>5
  <1> QED
    BY <1>2, <1>3, FS_UNION DEF Pieces

\* A sum of natural numbers is a natural number.
LEMMA TotalType ==
  ASSUME NEW S, IsFiniteSet(S), NEW f, \A i \in S : f[i] \in Nat
  PROVE  Total(S, f) \in Nat
  BY PiecesFinite, FS_CardinalityType DEF Total

\* A sum depends on the rows summed only.
LEMMA TotalEqual ==
  ASSUME NEW S, NEW f, NEW g, \A i \in S : f[i] = g[i]
  PROVE  Total(S, f) = Total(S, g)
  <1>1. Pieces(S, f) = Pieces(S, g)
    BY DEF Pieces
  <1> QED
    BY <1>1 DEF Total

LEMMA TotalEmpty ==
  ASSUME NEW f
  PROVE  Total({}, f) = 0
  <1>1. Pieces({}, f) = {}
    BY DEF Pieces
  <1> QED
    BY <1>1, FS_EmptySet DEF Total

\* The sum over one row.
LEMMA TotalOne ==
  ASSUME NEW i, NEW f, f[i] \in Nat
  PROVE  Total({i}, f) = f[i]
  <1>1. Pieces({i}, f) = {i} \X (1..f[i])
    BY DEF Pieces
  <1>2. IsFiniteSet({i}) /\ Cardinality({i}) = 1
    BY FS_Singleton
  <1>3. IsFiniteSet(1..f[i]) /\ Cardinality(1..f[i]) = f[i]
    BY FS_Interval
  <1>4. Cardinality({i} \X (1..f[i])) = Cardinality({i}) * Cardinality(1..f[i])
    BY <1>2, <1>3, FS_Product
  <1>5. Cardinality({i} \X (1..f[i])) = 1 * f[i]
    BY <1>2, <1>3, <1>4
  <1>6. 1 * f[i] = f[i]
    OBVIOUS
  <1> QED
    BY <1>1, <1>5, <1>6 DEF Total

\* The sum over two disjoint sets of rows.
LEMMA TotalUnion ==
  ASSUME NEW S, IsFiniteSet(S), NEW T, IsFiniteSet(T), S \cap T = {},
         NEW f, \A i \in S \cup T : f[i] \in Nat
  PROVE  Total(S \cup T, f) = Total(S, f) + Total(T, f)
  <1>1. Pieces(S \cup T, f) = Pieces(S, f) \cup Pieces(T, f)
    BY DEF Pieces
  <1>2. Pieces(S, f) \cap Pieces(T, f) = {}
    BY PiecesPairs, PiecesMember
  <1>3. IsFiniteSet(Pieces(S, f)) /\ IsFiniteSet(Pieces(T, f))
    BY PiecesFinite
  <1>4. Cardinality(Pieces(S, f)) \in Nat /\ Cardinality(Pieces(T, f)) \in Nat
    BY <1>3, FS_CardinalityType
  <1>5. Cardinality(Pieces(S, f) \cap Pieces(T, f)) = 0
    BY <1>2, FS_EmptySet
  <1>6. Cardinality(Pieces(S, f) \cup Pieces(T, f))
          = Cardinality(Pieces(S, f)) + Cardinality(Pieces(T, f))
            - Cardinality(Pieces(S, f) \cap Pieces(T, f))
    BY <1>3, FS_Union
  <1>7. Total(S \cup T, f) = Cardinality(Pieces(S, f) \cup Pieces(T, f))
    BY <1>1 DEF Total
  <1>8. Total(S, f) = Cardinality(Pieces(S, f)) /\ Total(T, f) = Cardinality(Pieces(T, f))
    BY DEF Total
  <1> QED
    BY <1>4, <1>5, <1>6, <1>7, <1>8

\* One row taken out of a sum.
LEMMA TotalRemove ==
  ASSUME NEW S, IsFiniteSet(S), NEW i \in S, NEW f, \A k \in S : f[k] \in Nat
  PROVE  Total(S, f) = f[i] + Total(S \ {i}, f)
  <1>1. S = {i} \cup (S \ {i}) /\ {i} \cap (S \ {i}) = {}
    OBVIOUS
  <1>2. IsFiniteSet({i}) /\ IsFiniteSet(S \ {i})
    BY FS_Singleton, FS_RemoveElement
  <1>3. Total({i} \cup (S \ {i}), f) = Total({i}, f) + Total(S \ {i}, f)
    BY <1>1, <1>2, TotalUnion
  <1> QED
    BY <1>1, <1>3, TotalOne

\* A row is no more than the sum.
LEMMA TotalMember ==
  ASSUME NEW S, IsFiniteSet(S), NEW i \in S, NEW f, \A k \in S : f[k] \in Nat
  PROVE  f[i] <= Total(S, f)
  <1>1. Total(S, f) = f[i] + Total(S \ {i}, f)
    BY TotalRemove
  <1>2. Total(S \ {i}, f) \in Nat
    BY FS_RemoveElement, TotalType
  <1> QED
    BY <1>1, <1>2

\* Fewer rows, or smaller ones, give a smaller sum.
LEMMA TotalMonotone ==
  ASSUME NEW S, IsFiniteSet(S), NEW T \in SUBSET S, NEW f, NEW g,
         \A i \in S : f[i] \in Nat,
         \A i \in T : g[i] \in Nat /\ g[i] <= f[i]
  PROVE  Total(T, g) <= Total(S, f)
  <1>1. Pieces(T, g) \subseteq Pieces(S, f)
    BY PiecesPairs, PiecesMember
  <1>2. IsFiniteSet(Pieces(S, f))
    BY PiecesFinite
  <1> QED
    BY <1>1, <1>2, FS_Subset DEF Total

\* The sum of a column that adds two others up.
LEMMA TotalAdd ==
  ASSUME NEW S, IsFiniteSet(S), NEW f, NEW g, NEW h,
         \A i \in S : f[i] \in Nat /\ g[i] \in Nat /\ h[i] = f[i] + g[i]
  PROVE  Total(S, h) = Total(S, f) + Total(S, g)
  <1> DEFINE low == Pieces(S, f)
             high == Pieces(S, h) \ low
             shift == [x \in Pieces(S, g) |-> <<x[1], f[x[1]] + x[2]>>]
  <1>1. low \subseteq Pieces(S, h)
    <2>1. ASSUME NEW i \in S, NEW k \in 1..f[i] PROVE k \in 1..h[i]
      OBVIOUS
    <2> QED
      BY <2>1, PiecesPairs, PiecesMember
  <1>2. shift \in Bijection(Pieces(S, g), high)
    <2>1. ASSUME NEW x \in Pieces(S, g) PROVE shift[x] \in high
      <3>1. PICK i \in S : \E k \in 1..g[i] : x = <<i, k>>
        BY PiecesPairs
      <3>2. PICK k \in 1..g[i] : x = <<i, k>>
        BY <3>1
      <3>3. shift[x] = <<i, f[i] + k>>
        BY <3>2
      <3>4. f[i] + k \in 1..h[i] /\ f[i] + k \notin 1..f[i]
        OBVIOUS
      <3> QED
        BY <3>3, <3>4, PiecesMember
    <2>2. ASSUME NEW x \in Pieces(S, g), NEW y \in Pieces(S, g), shift[x] = shift[y]
          PROVE  x = y
      <3>1. PICK i \in S : \E k \in 1..g[i] : x = <<i, k>>
        BY PiecesPairs
      <3>2. PICK k \in 1..g[i] : x = <<i, k>>
        BY <3>1
      <3>3. PICK j \in S : \E m \in 1..g[j] : y = <<j, m>>
        BY PiecesPairs
      <3>4. PICK m \in 1..g[j] : y = <<j, m>>
        BY <3>3
      <3>5. <<i, f[i] + k>> = <<j, f[j] + m>>
        BY <2>2, <3>2, <3>4
      <3>6. i = j
        BY <3>5
      <3>7. f[i] + k = f[i] + m
        BY <3>5, <3>6
      <3>8. k = m
        BY <3>7, f[i] \in Nat
      <3> QED
        BY <3>2, <3>4, <3>6, <3>8
    <2>3. ASSUME NEW y \in high PROVE \E x \in Pieces(S, g) : shift[x] = y
      <3>1. PICK i \in S : \E k \in 1..h[i] : y = <<i, k>>
        BY PiecesPairs
      <3>2. PICK k \in 1..h[i] : y = <<i, k>>
        BY <3>1
      <3>3. k \notin 1..f[i]
        BY <3>2, PiecesMember
      <3>4. k - f[i] \in 1..g[i] /\ f[i] + (k - f[i]) = k
        BY <3>3
      <3>5. <<i, k - f[i]>> \in Pieces(S, g)
        BY <3>4, PiecesMember
      <3>6. shift[<<i, k - f[i]>>] = <<i, f[i] + (k - f[i])>>
        BY <3>5
      <3> QED
        BY <3>2, <3>4, <3>5, <3>6
    <2> QED
      BY <2>1, <2>2, <2>3, Fun_IsBij
  <1>3. /\ IsFiniteSet(Pieces(S, f))
        /\ IsFiniteSet(Pieces(S, g))
        /\ IsFiniteSet(Pieces(S, h))
    <2>1. \A i \in S : h[i] \in Nat
      OBVIOUS
    <2> QED
      BY <2>1, PiecesFinite
  <1>4. Cardinality(high) = Cardinality(Pieces(S, g))
    BY <1>2, <1>3, FS_Bijection DEF ExistsBijection
  <1>5. Pieces(S, h) \cap low = low
    BY <1>1
  <1>6. Cardinality(high) = Cardinality(Pieces(S, h)) - Cardinality(Pieces(S, h) \cap low)
    BY <1>3, FS_Difference
  <1>7. /\ Cardinality(Pieces(S, f)) \in Nat
        /\ Cardinality(Pieces(S, g)) \in Nat
        /\ Cardinality(Pieces(S, h)) \in Nat
    BY <1>3, FS_CardinalityType
  <1>8. Cardinality(Pieces(S, g)) = Cardinality(Pieces(S, h)) - Cardinality(Pieces(S, f))
    BY <1>4, <1>5, <1>6
  <1> QED
    BY <1>7, <1>8 DEF Total

\* What a bijection is.
LEMMA BijectionFacts ==
  ASSUME NEW S, NEW T, NEW b \in Bijection(S, T)
  PROVE  /\ b \in [S -> T]
         /\ \A i, j \in S : b[i] = b[j] => i = j
         /\ \A j \in T : \E i \in S : b[i] = j
  BY DEF Bijection, Injection, IsInjective, Surjection

\* A sum over other rows with the same quantities, paired off by a bijection.
LEMMA TotalReindex ==
  ASSUME NEW S, IsFiniteSet(S), NEW T, NEW b \in Bijection(S, T), NEW f, NEW g,
         \A i \in S : f[i] \in Nat /\ g[b[i]] = f[i]
  PROVE  Total(T, g) = Total(S, f)
  <1> DEFINE move == [x \in Pieces(S, f) |-> <<b[x[1]], x[2]>>]
  <1>1. /\ b \in [S -> T]
        /\ \A i, j \in S : b[i] = b[j] => i = j
        /\ \A j \in T : \E i \in S : b[i] = j
    BY BijectionFacts
  <1>2. ASSUME NEW i \in S, NEW k \in 1..f[i]
        PROVE  <<i, k>> \in Pieces(S, f) /\ move[<<i, k>>] = <<b[i], k>>
    <2>1. <<i, k>> \in Pieces(S, f)
      BY PiecesMember
    <2> QED
      BY <2>1
  <1>3. ASSUME NEW x \in Pieces(S, f) PROVE move[x] \in Pieces(T, g)
    <2>1. PICK i \in S : \E k \in 1..f[i] : x = <<i, k>>
      BY PiecesPairs
    <2>2. PICK k \in 1..f[i] : x = <<i, k>>
      BY <2>1
    <2>3. move[x] = <<b[i], k>>
      BY <2>2, <1>2
    <2>4. b[i] \in T /\ k \in 1..g[b[i]]
      BY <1>1
    <2> QED
      BY <2>3, <2>4, PiecesMember
  <1>4. ASSUME NEW x \in Pieces(S, f), NEW y \in Pieces(S, f), move[x] = move[y]
        PROVE  x = y
    <2>1. PICK i \in S : \E k \in 1..f[i] : x = <<i, k>>
      BY PiecesPairs
    <2>2. PICK k \in 1..f[i] : x = <<i, k>>
      BY <2>1
    <2>3. PICK j \in S : \E m \in 1..f[j] : y = <<j, m>>
      BY PiecesPairs
    <2>4. PICK m \in 1..f[j] : y = <<j, m>>
      BY <2>3
    <2>5. <<b[i], k>> = <<b[j], m>>
      BY <1>2, <1>4, <2>2, <2>4
    <2>6. b[i] = b[j] /\ k = m
      BY <2>5
    <2> QED
      BY <1>1, <2>2, <2>4, <2>6
  <1>5. ASSUME NEW y \in Pieces(T, g) PROVE \E x \in Pieces(S, f) : move[x] = y
    <2>1. PICK j \in T : \E k \in 1..g[j] : y = <<j, k>>
      BY PiecesPairs
    <2>2. PICK k \in 1..g[j] : y = <<j, k>>
      BY <2>1
    <2>3. PICK i \in S : b[i] = j
      BY <1>1
    <2>4. k \in 1..f[i]
      BY <2>2, <2>3
    <2> QED
      BY <1>2, <2>2, <2>3, <2>4
  <1>6. move \in Bijection(Pieces(S, f), Pieces(T, g))
    BY <1>3, <1>4, <1>5, Fun_IsBij
  <1>7. IsFiniteSet(Pieces(S, f))
    BY PiecesFinite
  <1> QED
    BY <1>6, <1>7, FS_Bijection DEF Total, ExistsBijection

\* A sum of sums: the quantities of disjoint groups of rows, added group by
\* group, are those of all the rows.
LEMMA TotalOfTotals ==
  ASSUME NEW S, IsFiniteSet(S), NEW rows, NEW g, NEW sums, NEW R,
         \A x : x \in R <=> \E i \in S : x \in rows[i],
         \A i \in S : IsFiniteSet(rows[i]) /\ sums[i] = Total(rows[i], g),
         \A i, j \in S : i # j => rows[i] \cap rows[j] = {},
         \A x \in R : g[x] \in Nat
  PROVE  Total(S, sums) = Total(R, g)
  <1> DEFINE group(i) == Pieces(rows[i], g)
             B == [i \in S |-> CHOOSE b : b \in Bijection(1..sums[i], group(i))]
             move == [x \in Pieces(S, sums) |-> B[x[1]][x[2]]]
  <1>1. ASSUME NEW i \in S
        PROVE  IsFiniteSet(group(i)) /\ sums[i] = Cardinality(group(i)) /\ sums[i] \in Nat
    <2>1. \A x \in rows[i] : g[x] \in Nat
      OBVIOUS
    <2>2. IsFiniteSet(group(i))
      BY <2>1, PiecesFinite
    <2> QED
      BY <2>2, FS_CardinalityType DEF Total
  <1>2. ASSUME NEW i \in S PROVE B[i] \in Bijection(1..sums[i], group(i))
    <2>1. \E b : b \in Bijection(1..sums[i], group(i))
      BY <1>1, FS_CardinalityType DEF ExistsBijection
    <2> QED
      BY <2>1
  <1> HIDE DEF B
  <1>3. ASSUME NEW i \in S
        PROVE  /\ \A k \in 1..sums[i] : B[i][k] \in group(i)
               /\ \A k, m \in 1..sums[i] : B[i][k] = B[i][m] => k = m
               /\ \A y \in group(i) : \E k \in 1..sums[i] : B[i][k] = y
    <2> HIDE DEF group
    <2> DEFINE b == B[i]
               numbers == 1..sums[i]
    <2>1. b \in Bijection(numbers, group(i))
      BY <1>2
    <2> HIDE DEF b, numbers
    <2>2. /\ b \in [numbers -> group(i)]
          /\ \A k, m \in numbers : b[k] = b[m] => k = m
          /\ \A y \in group(i) : \E k \in numbers : b[k] = y
      BY <2>1, BijectionFacts
    <2> QED
      BY <2>2 DEF b, numbers
  <1>4. ASSUME NEW i \in S, NEW j \in S, group(i) \cap group(j) # {}
        PROVE  i = j
    <2>1. PICK y : y \in group(i) /\ y \in group(j)
      BY <1>4
    <2>2. PICK x \in rows[i] : \E k \in 1..g[x] : y = <<x, k>>
      BY <2>1, PiecesPairs
    <2>3. PICK z \in rows[j] : \E k \in 1..g[z] : y = <<z, k>>
      BY <2>1, PiecesPairs
    <2>4. x = z
      BY <2>2, <2>3
    <2> QED
      BY <2>4
  <1>5. ASSUME NEW y
        PROVE  y \in Pieces(R, g) <=> \E i \in S : y \in group(i)
    <2>1. ASSUME y \in Pieces(R, g) PROVE \E i \in S : y \in group(i)
      <3>1. PICK x \in R : \E k \in 1..g[x] : y = <<x, k>>
        BY <2>1, PiecesPairs
      <3>2. PICK k \in 1..g[x] : y = <<x, k>>
        BY <3>1
      <3>3. PICK i \in S : x \in rows[i]
        OBVIOUS
      <3> QED
        BY <3>2, <3>3, PiecesMember
    <2>2. ASSUME NEW i \in S, y \in group(i) PROVE y \in Pieces(R, g)
      <3>1. PICK x \in rows[i] : \E k \in 1..g[x] : y = <<x, k>>
        BY <2>2, PiecesPairs
      <3>2. PICK k \in 1..g[x] : y = <<x, k>>
        BY <3>1
      <3>3. x \in R
        OBVIOUS
      <3> QED
        BY <3>2, <3>3, PiecesMember
    <2> QED
      BY <2>1, <2>2
  <1> HIDE DEF group
  <1>6. ASSUME NEW i \in S, NEW k \in 1..sums[i]
        PROVE  <<i, k>> \in Pieces(S, sums) /\ move[<<i, k>>] = B[i][k]
    <2>1. <<i, k>> \in Pieces(S, sums)
      BY PiecesMember
    <2> QED
      BY <2>1
  <1>7. ASSUME NEW x \in Pieces(S, sums)
        PROVE  \E i \in S : \E k \in 1..sums[i] : x = <<i, k>> /\ move[x] = B[i][k]
    <2>1. PICK i \in S : \E k \in 1..sums[i] : x = <<i, k>>
      BY PiecesPairs
    <2> QED
      BY <2>1, <1>6
  <1>8. /\ move \in [Pieces(S, sums) -> Pieces(R, g)]
        /\ \A x, y \in Pieces(S, sums) : move[x] = move[y] => x = y
        /\ \A y \in Pieces(R, g) : \E x \in Pieces(S, sums) : move[x] = y
    <2>1. ASSUME NEW x \in Pieces(S, sums) PROVE move[x] \in Pieces(R, g)
      BY <1>3, <1>5, <1>7
    <2>2. ASSUME NEW x \in Pieces(S, sums), NEW y \in Pieces(S, sums), move[x] = move[y]
          PROVE  x = y
      <3>1. PICK i \in S : \E k \in 1..sums[i] : x = <<i, k>> /\ move[x] = B[i][k]
        BY <1>7
      <3>2. PICK k \in 1..sums[i] : x = <<i, k>> /\ move[x] = B[i][k]
        BY <3>1
      <3>3. PICK j \in S : \E m \in 1..sums[j] : y = <<j, m>> /\ move[y] = B[j][m]
        BY <1>7
      <3>4. PICK m \in 1..sums[j] : y = <<j, m>> /\ move[y] = B[j][m]
        BY <3>3
      <3>5. B[i][k] \in group(i) /\ B[i][k] \in group(j)
        BY <1>3, <2>2, <3>2, <3>4
      <3>6. i = j
        BY <3>5, <1>4
      <3>7. k = m
        BY <3>6, <1>3, <2>2, <3>2, <3>4
      <3> QED
        BY <3>2, <3>4, <3>6, <3>7
    <2>3. ASSUME NEW y \in Pieces(R, g) PROVE \E x \in Pieces(S, sums) : move[x] = y
      <3>1. PICK i \in S : y \in group(i)
        BY <1>5
      <3>2. PICK k \in 1..sums[i] : B[i][k] = y
        BY <1>3, <3>1
      <3>3. <<i, k>> \in Pieces(S, sums) /\ move[<<i, k>>] = B[i][k]
        BY <1>6
      <3> HIDE DEF move
      <3> QED
        BY <3>2, <3>3
    <2>4. move \in [Pieces(S, sums) -> Pieces(R, g)]
      BY <2>1
    <2> QED
      BY <2>2, <2>3, <2>4
  <1>9. move \in Bijection(Pieces(S, sums), Pieces(R, g))
    BY <1>8, Fun_IsBij
  <1>10. IsFiniteSet(Pieces(S, sums))
    BY <1>1, PiecesFinite
  <1> QED
    BY <1>9, <1>10, FS_Bijection DEF Total, ExistsBijection

\* The sum over two rows.
LEMMA TotalTwo ==
  ASSUME NEW i, NEW j, i # j, NEW f, f[i] \in Nat, f[j] \in Nat
  PROVE  Total({i, j}, f) = f[i] + f[j]
  <1>1. {i, j} \ {i} = {j} /\ i \in {i, j}
    OBVIOUS
  <1>2. IsFiniteSet({i, j})
    <2>1. IsFiniteSet({i}) /\ IsFiniteSet({j})
      BY FS_Singleton
    <2>2. IsFiniteSet({i} \cup {j})
      BY <2>1, FS_Union
    <2>3. {i} \cup {j} = {i, j}
      OBVIOUS
    <2> QED
      BY <2>2, <2>3
  <1>3. Total({i, j}, f) = f[i] + Total({i, j} \ {i}, f)
    BY <1>2, TotalRemove
  <1> QED
    BY <1>1, <1>3, TotalOne

\* Rows left out of a sum, and rows that count for nothing.
LEMMA TotalIf ==
  ASSUME NEW S, NEW T \in SUBSET S, NEW f, NEW g,
         \A i \in T : g[i] = f[i], \A i \in S \ T : g[i] = 0
  PROVE  Total(S, g) = Total(T, f)
  <1>1. ASSUME NEW x \in Pieces(S, g) PROVE x \in Pieces(T, f)
    <2>1. PICK i \in S : \E k \in 1..g[i] : x = <<i, k>>
      BY PiecesPairs
    <2>2. PICK k \in 1..g[i] : x = <<i, k>>
      BY <2>1
    <2>3. i \in T
      BY <2>2
    <2> QED
      BY <2>2, <2>3, PiecesMember
  <1>2. ASSUME NEW x \in Pieces(T, f) PROVE x \in Pieces(S, g)
    <2>1. PICK i \in T : \E k \in 1..f[i] : x = <<i, k>>
      BY PiecesPairs
    <2>2. PICK k \in 1..f[i] : x = <<i, k>>
      BY <2>1
    <2> QED
      BY <2>2, PiecesMember
  <1>3. Pieces(S, g) = Pieces(T, f)
    BY <1>1, <1>2
  <1> QED
    BY <1>3 DEF Total

\* A sum of equal quantities.
LEMMA TotalConstant ==
  ASSUME NEW S, IsFiniteSet(S), NEW f, NEW c \in Nat, \A i \in S : f[i] = c
  PROVE  Total(S, f) = Cardinality(S) * c
  <1>1. Pieces(S, f) = S \X (1..c)
    <2>1. ASSUME NEW x \in Pieces(S, f) PROVE x \in S \X (1..c)
      BY <2>1, PiecesPairs
    <2>2. ASSUME NEW x \in S \X (1..c) PROVE x \in Pieces(S, f)
      <3>1. PICK i \in S, k \in 1..c : x = <<i, k>>
        OBVIOUS
      <3> QED
        BY <3>1, PiecesMember
    <2> QED
      BY <2>1, <2>2
  <1>2. IsFiniteSet(1..c) /\ Cardinality(1..c) = c
    BY FS_Interval
  <1> QED
    BY <1>1, <1>2, FS_Product DEF Total

\* A sum of multiples.
LEMMA TotalScale ==
  ASSUME NEW S, IsFiniteSet(S), NEW f, NEW h, NEW c \in Nat,
         \A i \in S : f[i] \in Nat /\ h[i] = c * f[i]
  PROVE  Total(S, h) = c * Total(S, f)
  <1> DEFINE R == S \X (1..c)
             g == [x \in R |-> f[x[1]]]
             byRow == [i \in S |-> {i} \X (1..c)]
             byCopy == [m \in 1..c |-> S \X {m}]
             sums == [m \in 1..c |-> Total(S, f)]
  <1>1. IsFiniteSet(1..c) /\ Cardinality(1..c) = c
    BY FS_Interval
  <1>2. \A x \in R : g[x] \in Nat
    OBVIOUS
  <1>3. ASSUME NEW i \in S
        PROVE  IsFiniteSet(byRow[i]) /\ h[i] = Total(byRow[i], g)
    <2>1. IsFiniteSet({i}) /\ Cardinality({i}) = 1
      BY FS_Singleton
    <2>2. /\ IsFiniteSet({i} \X (1..c))
          /\ Cardinality({i} \X (1..c)) = Cardinality({i}) * Cardinality(1..c)
      BY <1>1, <2>1, FS_Product
    <2>3. Cardinality({i} \X (1..c)) = c
      BY <1>1, <2>1, <2>2
    <2>4. \A x \in {i} \X (1..c) : g[x] = f[i]
      OBVIOUS
    <2>5. Total({i} \X (1..c), g) = c * f[i]
      <3> DEFINE X == {i} \X (1..c)
      <3>1. IsFiniteSet(X) /\ Cardinality(X) = c /\ (\A x \in X : g[x] = f[i]) /\ f[i] \in Nat
        BY <2>2, <2>3, <2>4
      <3> HIDE DEF X, g
      <3>2. Total(X, g) = Cardinality(X) * f[i]
        BY <3>1, TotalConstant
      <3>3. Total(X, g) = c * f[i]
        BY <3>1, <3>2
      <3> QED
        BY <3>3 DEF X
    <2> QED
      BY <2>2, <2>5
  <1>4. ASSUME NEW m \in 1..c
        PROVE  IsFiniteSet(byCopy[m]) /\ sums[m] = Total(byCopy[m], g)
    <2> DEFINE b == [i \in S |-> <<i, m>>]
    <2>1. b \in Bijection(S, S \X {m})
      <3>1. b \in [S -> S \X {m}] /\ \A i \in S : b[i] = <<i, m>>
        OBVIOUS
      <3>2. \A x \in S \X {m} : \E i \in S : x = <<i, m>>
        OBVIOUS
      <3> HIDE DEF b
      <3>3. \A i, j \in S : b[i] = b[j] => i = j
        BY <3>1
      <3>4. \A x \in S \X {m} : \E i \in S : b[i] = x
        BY <3>1, <3>2
      <3> QED
        BY <3>1, <3>3, <3>4 DEF Bijection, Injection, IsInjective, Surjection
    <2>2. \A i \in S : f[i] \in Nat /\ g[b[i]] = f[i]
      OBVIOUS
    <2>3. Total(S \X {m}, g) = Total(S, f)
      <3> HIDE DEF b, g
      <3> QED
        BY <2>1, <2>2, TotalReindex
    <2>4. IsFiniteSet(S \X {m})
      BY FS_Singleton, FS_Product
    <2> QED
      BY <2>3, <2>4
  <1>5. Total(S, h) = Total(R, g)
    <2>1. \A x : x \in R <=> \E i \in S : x \in byRow[i]
      OBVIOUS
    <2>2. \A i, j \in S : i # j => byRow[i] \cap byRow[j] = {}
      OBVIOUS
    <2> HIDE DEF R, g, byRow
    <2> QED
      BY <1>2, <1>3, <2>1, <2>2, TotalOfTotals
  <1>6. Total(1..c, sums) = Total(R, g)
    <2>1. \A x : x \in R <=> \E m \in 1..c : x \in byCopy[m]
      OBVIOUS
    <2>2. \A m, n \in 1..c : m # n => byCopy[m] \cap byCopy[n] = {}
      OBVIOUS
    <2> DEFINE T == 1..c
    <2>3. /\ IsFiniteSet(T)
          /\ \A x : x \in R <=> \E m \in T : x \in byCopy[m]
          /\ \A m \in T : IsFiniteSet(byCopy[m]) /\ sums[m] = Total(byCopy[m], g)
          /\ \A m, n \in T : m # n => byCopy[m] \cap byCopy[n] = {}
      BY <1>1, <1>4, <2>1, <2>2
    <2> HIDE DEF R, g, byCopy, sums, T
    <2>4. Total(T, sums) = Total(R, g)
      BY <1>2, <2>3, TotalOfTotals
    <2> QED
      BY <2>4 DEF T
  <1>7. Total(1..c, sums) = c * Total(S, f)
    <2>1. Total(S, f) \in Nat
      BY TotalType
    <2>2. \A m \in 1..c : sums[m] = Total(S, f)
      OBVIOUS
    <2> HIDE DEF sums
    <2> QED
      BY <1>1, <2>1, <2>2, TotalConstant
  <1> QED
    BY <1>5, <1>6, <1>7

\* Numbers have a least one, and bounded ones a greatest.
LEMMA LeastExists ==
  ASSUME NEW T \in SUBSET Nat, T # {}
  PROVE  \E x \in T : \A y \in T : x <= y
  <1>1. PICK x \in T : \A y \in T : ~ (<<y, x>> \in OpToRel(<, Nat))
    BY WFMin, NatLessThanWellFounded
  <1>2. ASSUME NEW y \in T PROVE x <= y
    <2>1. ~ (<<y, x>> \in OpToRel(<, Nat)) BY <1>1
    <2>2. ~ (y < x) BY <2>1 DEF OpToRel
    <2> QED BY <2>2
  <1> QED BY <1>2

LEMMA GreatestExists ==
  ASSUME NEW T \in SUBSET Nat, T # {}, NEW bound \in Nat, \A x \in T : x <= bound
  PROVE  \E x \in T : \A y \in T : y <= x
  <1> DEFINE below == {bound - x : x \in T}
  <1>1. below \in SUBSET Nat /\ below # {}
    <2>1. PICK x \in T : TRUE OBVIOUS
    <2>2. bound - x \in below OBVIOUS
    <2>3. ASSUME NEW y \in T PROVE bound - y \in Nat
      <3>1. y \in Nat /\ y <= bound OBVIOUS
      <3> HIDE DEF below
      <3> QED BY <3>1
    <2> QED BY <2>2, <2>3
  <1>2. PICK z \in below : \A y \in below : z <= y BY <1>1, LeastExists
  <1>3. PICK x \in T : z = bound - x BY <1>2
  <1>4. ASSUME NEW y \in T PROVE y <= x
    <2>1. z <= bound - y BY <1>2
    <2> QED BY <1>3, <2>1
  <1> QED BY <1>4

\* Any part of a sum can be taken from its rows: when the most that can be
\* taken without exceeding the part falls short of it, some row has a unit left.
LEMMA TotalPart ==
  ASSUME NEW S, IsFiniteSet(S), NEW f, \A i \in S : f[i] \in Nat,
         NEW part \in Nat, part <= Total(S, f)
  PROVE  \E g \in [S -> Nat] : (\A i \in S : g[i] <= f[i]) /\ Total(S, g) = part
  <1> DEFINE Fits(g) == (\A i \in S : g[i] <= f[i]) /\ Total(S, g) <= part
             sums == {Total(S, g) : g \in {h \in [S -> Nat] : Fits(h)}}
             none == [i \in S |-> 0]
  <1>1. none \in [S -> Nat] /\ Fits(none)
    <2>1. Total(S, none) = Total({}, none)
      BY TotalIf
    <2>2. Total(S, none) = 0
      BY <2>1, TotalEmpty
    <2> QED
      BY <2>2
  <1>2. sums \in SUBSET Nat /\ sums # {} /\ \A x \in sums : x <= part
    <2>1. ASSUME NEW g \in [S -> Nat] PROVE Total(S, g) \in Nat
      BY TotalType
    <2> QED
      BY <1>1, <2>1
  <1>3. PICK x \in sums : \A y \in sums : y <= x
    <2> HIDE DEF sums
    <2> QED
      BY <1>2, GreatestExists
  <1>4. PICK g \in [S -> Nat] : Fits(g) /\ Total(S, g) = x
    BY <1>3
  <1>5. Total(S, g) = part
    <2>1. SUFFICES ASSUME Total(S, g) # part PROVE FALSE
      OBVIOUS
    <2>2. Total(S, g) \in Nat /\ Total(S, f) \in Nat /\ Total(S, g) < part
      BY <1>4, <2>1, TotalType
    <2>3. PICK i \in S : g[i] < f[i]
      <3>1. SUFFICES ASSUME \A i \in S : ~(g[i] < f[i]) PROVE FALSE
        OBVIOUS
      <3>2. \A i \in S : f[i] = g[i]
        BY <1>4, <3>1
      <3>3. Total(S, f) = Total(S, g)
        BY <3>2, TotalEqual
      <3> QED
        BY <2>2, <3>3
    <2> DEFINE h == [g EXCEPT ![i] = g[i] + 1]
    <2>4. h \in [S -> Nat] /\ \A j \in S : h[j] <= f[j]
      BY <1>4, <2>3
    <2>5. Total(S, h) = Total(S, g) + 1
      <3>1. Total(S, h) = h[i] + Total(S \ {i}, h)
        <4>1. \A j \in S : h[j] \in Nat
          BY <2>4
        <4> HIDE DEF h
        <4> QED
          BY <4>1, TotalRemove
      <3>2. Total(S, g) = g[i] + Total(S \ {i}, g)
        BY TotalRemove
      <3>3. Total(S \ {i}, h) = Total(S \ {i}, g)
        BY TotalEqual
      <3>4. Total(S \ {i}, g) \in Nat
        BY FS_RemoveElement, TotalType
      <3>5. h[i] = g[i] + 1 /\ g[i] \in Nat
        OBVIOUS
      <3> HIDE DEF h
      <3> QED
        BY <3>1, <3>2, <3>3, <3>4, <3>5
    <2>6. Fits(h)
      BY <2>2, <2>4, <2>5
    <2>7. Total(S, h) \in sums
      BY <2>4, <2>6
    <2>8. Total(S, h) <= Total(S, g)
      BY <1>3, <1>4, <2>7
    <2> QED
      BY <2>2, <2>5, <2>8
  <1> QED
    BY <1>4, <1>5

(***************************************************************************)
(* The cut of listings (StockReduction).                                   *)
(***************************************************************************)
\* A division with remainder, and where a whole part of a product lies.
LEMMA Division ==
  ASSUME NEW x \in Nat, NEW d \in Nat, d > 0
  PROVE  /\ x \div d \in Nat /\ x % d \in 0..(d - 1)
         /\ x = d * (x \div d) + (x % d)
  OBVIOUS

\* A rounded share is within half a thousandth of the exact one, and is not
\* more than what the listing had.
LEMMA ShareRounded ==
  ASSUME NEW S, NEW avail, NEW target \in Nat, NEW up,
         Total(S, avail) \in Nat, target < Total(S, avail),
         up \in SUBSET TiedShares(S, avail, target),
         NEW l \in S, avail[l] \in Nat \ {0}
  PROVE  LET sum   == Total(S, avail)
             share == RoundedShare(S, avail, target, up, l)
             exact == avail[l] * target
         IN  /\ share \in Nat
             /\ share <= avail[l]
             /\ 2 * (sum * share) <= 2 * exact + sum
             /\ 2 * (sum * share) >= 2 * exact - sum
  <1> DEFINE sum == Total(S, avail)
             exact == avail[l] * target
             whole == exact \div sum
             rest == exact % sum
  <1>1. sum \in Nat /\ sum > 0 /\ exact \in Nat
    OBVIOUS
  <1>2. whole \in Nat /\ rest \in 0..(sum - 1) /\ exact = sum * whole + rest
    BY <1>1, Division
  <1>3. RoundedShare(S, avail, target, up, l)
          = IF 2 * rest > sum \/ l \in up THEN whole + 1 ELSE whole
    BY DEF RoundedShare
  <1>4. l \in up => 2 * rest = sum
    BY DEF TiedShares
  <1>5. whole < avail[l]
    <2>1. exact < sum * avail[l]
      OBVIOUS
    <2>2. SUFFICES ASSUME whole >= avail[l] PROVE FALSE
      BY <1>2
    <2>3. sum * whole >= sum * avail[l]
      BY <1>1, <1>2, <2>2
    <2> QED
      BY <1>1, <1>2, <2>1, <2>3
  <1>6. sum * (whole + 1) = sum * whole + sum
    BY <1>1, <1>2
  <1> DEFINE share == RoundedShare(S, avail, target, up, l)
             low == sum * whole
  <1>7. share = IF 2 * rest > sum \/ l \in up THEN whole + 1 ELSE whole
    BY <1>3
  <1> HIDE DEF share, whole, rest, exact, sum
  <1>8. /\ low \in Nat
        /\ \/ 2 * rest >= sum /\ share = whole + 1 /\ sum * share = low + sum
           \/ 2 * rest <= sum /\ share = whole /\ sum * share = low
    <2>1. low \in Nat
      BY <1>1, <1>2
    <2>2. \/ 2 * rest >= sum /\ share = whole + 1
          \/ 2 * rest <= sum /\ share = whole
      BY <1>1, <1>2, <1>4, <1>7
    <2> QED
      BY <2>1, <2>2, <1>6
  <1>9. exact = low + rest
    BY <1>2
  <1> HIDE DEF low
  <1>10. /\ 2 * (sum * share) <= 2 * exact + sum
         /\ 2 * (sum * share) >= 2 * exact - sum
    BY <1>1, <1>2, <1>8, <1>9
  <1>11. share \in Nat /\ share <= avail[l]
    BY <1>2, <1>5, <1>8
  <1> QED
    BY <1>10, <1>11 DEF share, exact, sum

\* The shares of the listings but one: their sum is less than half a
\* thousandth per share above the target, and not more than what there was.
LEMMA SharesRounded ==
  ASSUME NEW S, IsFiniteSet(S), NEW avail, \A l \in S : avail[l] \in Nat \ {0},
         NEW target \in Nat \ {0}, target < Total(S, avail),
         NEW up \in SUBSET TiedShares(S, avail, target), NEW last \in S
  PROVE  LET others == S \ {last}
             shares == Total(others,
                         [k \in others |-> RoundedShare(S, avail, target, up, k)])
         IN  /\ shares \in Nat
             /\ shares <= Total(S, avail)
             /\ shares > target => 2 * shares <= 2 * target + Cardinality(S) - 2
  <1> DEFINE sum == Total(S, avail)
             others == S \ {last}
             share == [k \in others |-> RoundedShare(S, avail, target, up, k)]
             shares == Total(others, share)
             exact == [k \in others |-> (2 * target) * avail[k]]
             half == [k \in others |-> sum]
             scaled == [k \in others |-> (2 * sum) * share[k]]
             bound == [k \in others |-> exact[k] + half[k]]
             kept == Total(others, avail)
             count == Cardinality(others)
  <1>1. IsFiniteSet(others) /\ count \in Nat /\ count = Cardinality(S) - 1
    <2>1. IsFiniteSet(others) /\ Cardinality(others) = Cardinality(S) - 1
      BY FS_RemoveElement
    <2>2. Cardinality(others) \in Nat
      BY <2>1, FS_CardinalityType
    <2> QED
      BY <2>1, <2>2
  <1>2. sum \in Nat /\ kept \in Nat /\ kept < sum
    <2>1. sum = avail[last] + kept
      BY TotalRemove
    <2>2. kept \in Nat /\ sum \in Nat
      BY <1>1, TotalType
    <2> QED
      BY <2>1, <2>2
  <1>3. ASSUME NEW k \in others
        PROVE  /\ share[k] \in Nat /\ share[k] <= avail[k]
               /\ 2 * (sum * share[k]) <= 2 * (avail[k] * target) + sum
    <2>1. share[k] = RoundedShare(S, avail, target, up, k)
      OBVIOUS
    <2> QED
      BY <2>1, <1>2, ShareRounded
  <1>4. ASSUME NEW k \in others
        PROVE  /\ exact[k] \in Nat /\ half[k] \in Nat /\ scaled[k] \in Nat
               /\ scaled[k] <= bound[k] /\ bound[k] = exact[k] + half[k]
    BY <1>2, <1>3
  <1>5. shares \in Nat /\ shares <= sum
    <2>1. shares \in Nat
      BY <1>1, <1>3, TotalType
    <2>2. shares <= sum
      BY <1>3, TotalMonotone
    <2> QED
      BY <2>1, <2>2
  <1>6. Total(others, scaled) = (2 * sum) * shares
    BY <1>1, <1>2, <1>3, TotalScale
  <1>7. Total(others, exact) = (2 * target) * kept
    BY <1>1, TotalScale
  <1>8. Total(others, half) = count * sum
    BY <1>1, <1>2, TotalConstant
  <1>9. Total(others, bound) = Total(others, exact) + Total(others, half)
    BY <1>1, <1>4, TotalAdd
  <1>10. Total(others, scaled) <= Total(others, bound)
    BY <1>1, <1>4, TotalMonotone
  <1>11. (2 * sum) * shares <= (2 * target) * kept + count * sum
    BY <1>6, <1>7, <1>8, <1>9, <1>10
  <1> HIDE DEF sum, shares, kept, count
  <1>12. (2 * target) * kept < (2 * target) * sum
    BY <1>2
  <1>13. sum * (2 * shares) < sum * (2 * target + count)
    BY <1>1, <1>2, <1>5, <1>11, <1>12
  <1>14. 2 * shares < 2 * target + count
    BY <1>1, <1>2, <1>5, <1>13 DEF sum
  <1>15. Cardinality(S) \in Nat
    BY FS_CardinalityType
  <1>16. 2 * shares <= 2 * target + Cardinality(S) - 2
    BY <1>1, <1>5, <1>14, <1>15
  <1> QED
    BY <1>5, <1>16 DEF sum, shares

\* What a reduction to a target below the sum makes of the listings.
LEMMA ReducedBounds ==
  ASSUME NEW S, IsFiniteSet(S), NEW avail, \A l \in S : avail[l] \in Nat \ {0},
         NEW target \in Nat, target < Total(S, avail),
         NEW last \in S, NEW up \in SUBSET TiedShares(S, avail, target)
  PROVE  LET after == ReducedQuantities(S, avail, target, last, up)
             sum   == Total(S, after)
         IN  /\ sum \in Nat
             /\ sum >= target
             /\ 2 * sum <= 2 * target + Monus(Cardinality(S), 2)
             /\ sum <= Total(S, avail)
  <1> DEFINE after == ReducedQuantities(S, avail, target, last, up)
             others == S \ {last}
             share == [k \in others |-> RoundedShare(S, avail, target, up, k)]
             shares == Total(others, share)
  <1>1. target # 0 =>
          /\ shares \in Nat
          /\ shares <= Total(S, avail)
          /\ shares > target => 2 * shares <= 2 * target + Cardinality(S) - 2
    BY SharesRounded
  <1>2. Total(S, avail) \in Nat
    BY TotalType
  <1>3. Cardinality(S) \in Nat /\ Cardinality(S) >= 1
    <2>1. Cardinality(S) \in Nat /\ S # {}
      BY FS_CardinalityType
    <2> QED
      BY <2>1, FS_EmptySet
  <1>4. CASE target = 0
    <2>1. \A l \in S : after[l] = 0
      BY <1>4 DEF ReducedQuantities
    <2>2. Total(S, after) = Cardinality(S) * 0
      BY <2>1, TotalConstant
    <2> HIDE DEF after
    <2>3. Total(S, after) = 0 /\ Monus(Cardinality(S), 2) \in Nat
      BY <1>3, <2>2 DEF Monus
    <2> QED
      BY <1>2, <1>4, <2>3 DEF after
  <1>5. CASE target # 0
    <2>1. after[last] = Monus(target, shares)
      <3>1. shares = Total(others, [k \in S |-> RoundedShare(S, avail, target, up, k)])
        BY TotalEqual
      <3> QED
        BY <1>5, <3>1 DEF ReducedQuantities
    <2>2. \A k \in others : after[k] = share[k]
      BY <1>5 DEF ReducedQuantities
    <2>3. \A k \in others : share[k] \in Nat
      BY <1>2, ShareRounded
    <2>4. Monus(target, shares) \in Nat /\ shares + Monus(target, shares) =
            IF target > shares THEN target ELSE shares
      BY <1>1, <1>5 DEF Monus
    <2> HIDE DEF after, share
    <2>5. \A k \in S : after[k] \in Nat
      BY <2>1, <2>2, <2>3, <2>4
    <2>6. Total(S, after) = after[last] + Total(others, after)
      BY <2>5, TotalRemove
    <2>7. Total(others, after) = shares
      BY <2>2, TotalEqual
    <2>8. Total(S, after) = IF target > shares THEN target ELSE shares
      BY <1>1, <1>5, <2>1, <2>4, <2>6, <2>7
    <2>9. shares > target => Cardinality(S) >= 2
      BY <1>1, <1>3, <1>5
    <2> HIDE DEF shares
    <2> QED
      BY <1>1, <1>2, <1>3, <1>5, <2>8, <2>9 DEF after, Monus
  <1> QED
    BY <1>4, <1>5
=============================================================================
