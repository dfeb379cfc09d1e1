--------------------------- MODULE ChunkDataProofs ---------------------------
(***************************************************************************)
(* Theorems about ChunkData, for any number of slices, rows, columns and   *)
(* types: the rows of a chunk and its maps fit each other, and a chunk is  *)
(* a grid of blocks, however it is stored, saved, loaded or generated.     *)
(***************************************************************************)
EXTENDS ChunkData, SequenceTheorems, FiniteSetTheorems, FunctionTheorems,
        WellFoundedInduction, TLAPS

-----------------------------------------------------------------------------
(* Sets of numbers *)

(* A set of numbers has a least one. *)
LEMMA Least ==
    ASSUME NEW S \in SUBSET Nat, S # {}
    PROVE  \E x \in S : \A y \in S : x <= y
<1> DEFINE R == OpToRel(<, Nat)
<1>1. IsWellFoundedOn(R, Nat)
  BY NatLessThanWellFounded
<1>2. \A x, y \in Nat : x < y => <<x, y>> \in R
  BY DEF OpToRel
<1> HIDE DEF R
<1>3. PICK x \in S : \A y \in S : ~(<<y, x>> \in R)
  BY <1>1, WFMin
<1>4. ASSUME NEW y \in S PROVE x <= y
  <2>1. x \in Nat /\ y \in Nat /\ ~(<<y, x>> \in R)
    BY <1>3
  <2>2. ~(y < x)
    BY <1>2, <2>1
  <2>3. QED
    BY <2>1, <2>2
<1>5. QED
  BY <1>4

(* Induction: what holds of 0, and of each number after one of which it      *)
(* holds, holds of all numbers up to n.                                      *)
LEMMA UpTo ==
    ASSUME NEW n \in Nat, NEW H \in SUBSET (0..n), 0 \in H,
           \A i \in 0..n : i > 0 /\ i - 1 \in H => i \in H
    PROVE  H = 0..n
<1> SUFFICES ASSUME H # 0..n PROVE FALSE
  OBVIOUS
<1> DEFINE W == (0..n) \ H
<1>1. W \in SUBSET Nat /\ W # {}
  <2>1. 0..n \subseteq Nat
    OBVIOUS
  <2>2. QED
    BY <2>1
<1>2. PICK i \in W : \A j \in W : i <= j
  BY <1>1, Least
<1>3. i \in Nat /\ i # 0 /\ i <= n /\ i \notin H
  OBVIOUS
<1>4. i - 1 \in 0..n /\ i - 1 \notin W
  BY <1>2, <1>3
<1>5. i - 1 \in H
  BY <1>4
<1>6. QED
  BY <1>2, <1>3, <1>5

LEMMA FirstIs ==
    ASSUME NEW S \in SUBSET Nat, S # {}
    PROVE  First(S) \in S /\ \A j \in S : First(S) <= j
<1>1. \E i \in S : \A j \in S : i <= j
  BY Least
<1>2. QED
  BY <1>1 DEF First

Rank(S, x) == Cardinality({j \in S : j < x})

LEMMA RanksAre ==
    ASSUME NEW S \in SUBSET Nat, IsFiniteSet(S), NEW x \in S
    PROVE  /\ Rank(S, x) \in 0..(Cardinality(S) - 1)
           /\ \A y \in S : x < y => Rank(S, x) < Rank(S, y)
<1> DEFINE A(z) == {j \in S : j < z}
<1>1. \A z \in S : IsFiniteSet(A(z)) /\ Cardinality(A(z)) \in Nat
  <2>1. TAKE z \in S
  <2>2. A(z) \in SUBSET S
    OBVIOUS
  <2>3. IsFiniteSet(A(z))
    BY <2>2, FS_Subset
  <2>4. QED
    BY <2>3, FS_CardinalityType
<1>2. x \notin A(x)
  OBVIOUS
<1>3. ASSUME NEW T, IsFiniteSet(T), A(x) \subseteq T, x \in T
      PROVE  Cardinality(A(x)) < Cardinality(T) /\ Cardinality(T) \in Nat
  <2>1. A(x) \cup {x} \in SUBSET T
    BY <1>3
  <2>2. Cardinality(A(x) \cup {x}) = Cardinality(A(x)) + 1
    <3> HIDE DEF A
    <3>1. QED
      BY <1>1, <1>2, FS_AddElement
  <2>3. Cardinality(A(x) \cup {x}) <= Cardinality(T)
    <3> HIDE DEF A
    <3>1. QED
      BY <1>3, <2>1, FS_Subset
  <2>4. Cardinality(T) \in Nat
    BY <1>3, FS_CardinalityType
  <2> HIDE DEF A
  <2>5. QED
    BY <1>1, <2>2, <2>3, <2>4
<1>4. Cardinality(A(x)) \in 0..(Cardinality(S) - 1)
  <2>1. A(x) \subseteq S
    OBVIOUS
  <2>2. Cardinality(A(x)) < Cardinality(S) /\ Cardinality(S) \in Nat
    <3> HIDE DEF A
    <3>1. QED
      BY <1>3, <2>1
  <2> HIDE DEF A
  <2>3. QED
    BY <1>1, <2>2
<1>5. ASSUME NEW y \in S, x < y PROVE Cardinality(A(x)) < Cardinality(A(y))
  <2>1. A(x) \subseteq A(y) /\ x \in A(y)
    <3>1. x \in Nat /\ y \in Nat /\ \A z \in S : z \in Nat
      OBVIOUS
    <3>2. \A z \in S : z < x => z < y
      BY <1>5, <3>1
    <3>3. QED
      BY <1>5, <3>2
  <2> HIDE DEF A
  <2>2. QED
    BY <1>1, <1>3, <2>1
<1>6. QED
  BY <1>4, <1>5 DEF Rank

(* The elements of a finite set of numbers, one after the other. *)
LEMMA NthIs ==
    ASSUME NEW S \in SUBSET Nat, IsFiniteSet(S)
    PROVE  /\ \A n \in 0..(Cardinality(S) - 1) : Nth(S, n) \in S /\ Rank(S, Nth(S, n)) = n
           /\ \A x \in S : Rank(S, x) \in 0..(Cardinality(S) - 1) /\ Nth(S, Rank(S, x)) = x
           /\ \A m, n \in 0..(Cardinality(S) - 1) : m < n => Nth(S, m) < Nth(S, n)
<1> DEFINE k == Cardinality(S)
           f == [x \in S |-> Rank(S, x)]
           T == 0..(k - 1)
<1>1. k \in Nat
  BY FS_CardinalityType
<1>2. \A x \in S : Rank(S, x) \in T
  BY RanksAre
<1>3. \A x, y \in S : Rank(S, x) = Rank(S, y) => x = y
  <2>1. TAKE x, y \in S
  <2>2. x < y => Rank(S, x) < Rank(S, y)
    BY RanksAre
  <2>3. y < x => Rank(S, y) < Rank(S, x)
    BY RanksAre
  <2>4. x \in Nat /\ y \in Nat /\ Rank(S, x) \in Int /\ Rank(S, y) \in Int
    BY <1>2
  <2>5. QED
    BY <2>2, <2>3, <2>4
<1>4. f \in Injection(S, T)
  <2>1. f \in [S -> T]
    BY <1>2
  <2>2. \A x, y \in S : f[x] = f[y] => x = y
    BY <1>3
  <2> HIDE DEF f, T
  <2>3. QED
    BY <2>1, <2>2, Fun_IsInj
<1>5. IsFiniteSet(T) /\ Cardinality(T) = k
  <2> HIDE DEF k
  <2>1. 0 \in Int /\ k - 1 \in Int
    BY <1>1
  <2>2. IsFiniteSet(T) /\ Cardinality(T) = IF 0 > k - 1 THEN 0 ELSE k - 1 - 0 + 1
    BY <2>1, FS_Interval
  <2>3. QED
    BY <1>1, <2>2
<1>6. f \in Surjection(S, T)
  <2> HIDE DEF f, T
  <2>1. QED
    BY <1>4, <1>5, FS_Injection
<1>7. \A n \in T : \E x \in S : Rank(S, x) = n
  <2>1. \A n \in T : \E x \in S : f[x] = n
    <3> HIDE DEF f, T
    <3>1. QED
      BY <1>6, Fun_SurjectionProperties
  <2>2. QED
    BY <2>1
<1>8. ASSUME NEW n \in T PROVE Nth(S, n) \in S /\ Rank(S, Nth(S, n)) = n
  BY <1>7 DEF Nth, Rank
<1>9. ASSUME NEW x \in S PROVE Nth(S, Rank(S, x)) = x
  BY <1>2, <1>3, <1>8
<1>10. ASSUME NEW m \in T, NEW n \in T, m < n PROVE Nth(S, m) < Nth(S, n)
  <2> DEFINE a == Nth(S, m)
             b == Nth(S, n)
  <2>1. a \in S /\ b \in S /\ Rank(S, a) = m /\ Rank(S, b) = n /\ a \in Nat /\ b \in Nat
    BY <1>8
  <2> HIDE DEF a, b
  <2>2. b < a => n < m
    BY <2>1, RanksAre
  <2>3. a # b
    BY <1>1, <1>10, <2>1
  <2>4. ~(n < m)
    BY <1>1, <1>10
  <2>5. a < b
    BY <2>1, <2>2, <2>3, <2>4
  <2>6. QED
    BY <2>5 DEF a, b
<1>11. QED
  BY <1>2, <1>8, <1>9, <1>10

-----------------------------------------------------------------------------
(* Rows: what a row has at a column *)

(* The rows of a chunk: their shapes, and what a row has at a column. *)
DenseRow == [kind : {"dense"}, typeMap : Nat, storage : [Column -> Entry]]
SparseRow ==
    [kind : {"sparse"}, typeMap : Nat, defaultBlockId : Entry, storage : Seq(Column \X Entry)]

Distinct(s) == \A i, j \in DOMAIN s : s[i][1] = s[j][1] => i = j
InOrder(s) == \A i, j \in DOMAIN s : i < j => s[i][1] < s[j][1]
Columns(s) == {e[1] : e \in ToSet(s)}

FitRow(row) ==
    \/ row \in DenseRow
    \/ /\ row \in SparseRow /\ Distinct(row.storage)
       /\ \A e \in ToSet(row.storage) : e[2] # row.defaultBlockId

Reads(row, x) ==
    IF row.kind = "dense" THEN row.storage[x]
    ELSE IF \E e \in ToSet(row.storage) : e[1] = x
         THEN (CHOOSE e \in ToSet(row.storage) : e[1] = x)[2]
         ELSE row.defaultBlockId

From(k, i) == IF k < i THEN k ELSE k + 1

LEMMA RemoveAtHolds ==
    ASSUME NEW S, NEW s \in Seq(S), NEW i \in DOMAIN s
    PROVE  /\ RemoveAt(s, i) \in Seq(S) /\ Len(RemoveAt(s, i)) = Len(s) - 1
           /\ ToSet(s) = ToSet(RemoveAt(s, i)) \cup {s[i]}
           /\ \A k \in DOMAIN RemoveAt(s, i) :
                k \in Nat /\ From(k, i) \in DOMAIN s \ {i} /\ RemoveAt(s, i)[k] = s[From(k, i)]
<1> DEFINE a == SubSeq(s, 1, i - 1)
           b == SubSeq(s, i + 1, Len(s))
           r == a \o b
           n == Len(s)
<1>1. n \in Nat /\ DOMAIN s = 1..n /\ i \in 1..n /\ \A k \in 1..n : s[k] \in S
  BY LenProperties, ElementOfSeq
<1>2. /\ a \in Seq(S) /\ Len(a) = i - 1
      /\ \A k \in 1..(i - 1) : a[k] = s[k]
  <2>1. \A k \in 1..(i - 1) : s[k] \in S
    BY <1>1
  <2>2. i - 1 \in Int /\ 1 \in Int
    BY <1>1
  <2>3. /\ a \in Seq(S) /\ Len(a) = IF 1 <= i - 1 THEN (i - 1) - 1 + 1 ELSE 0
        /\ \A k \in 1..((i - 1) - 1 + 1) : a[k] = s[1 + k - 1]
    BY <2>1, <2>2, SubSeqProperties
  <2>4. (i - 1) - 1 + 1 = i - 1 /\ \A k \in 1..(i - 1) : 1 + k - 1 = k
    BY <1>1
  <2>5. Len(a) = i - 1
    BY <1>1, <2>3
  <2>6. QED
    BY <2>3, <2>4, <2>5
<1>3. /\ b \in Seq(S) /\ Len(b) = n - i
      /\ \A k \in 1..(n - i) : b[k] = s[k + i]
  <2>1. \A k \in (i + 1)..n : s[k] \in S
    BY <1>1
  <2>2. i + 1 \in Int /\ n \in Int
    BY <1>1
  <2>3. /\ b \in Seq(S) /\ Len(b) = IF i + 1 <= n THEN n - (i + 1) + 1 ELSE 0
        /\ \A k \in 1..(n - (i + 1) + 1) : b[k] = s[(i + 1) + k - 1]
    BY <2>1, <2>2, SubSeqProperties
  <2>4. n - (i + 1) + 1 = n - i /\ \A k \in 1..(n - i) : (i + 1) + k - 1 = k + i
    BY <1>1
  <2>5. Len(b) = n - i
    BY <1>1, <2>3
  <2>6. QED
    BY <2>3, <2>4, <2>5
<1>4. RemoveAt(s, i) = r
  BY DEF RemoveAt
<1> HIDE DEF a, b
<1>5. /\ r \in Seq(S) /\ Len(r) = n - 1 /\ DOMAIN r = 1..(n - 1)
      /\ \A k \in 1..(n - 1) : r[k] = IF k <= i - 1 THEN a[k] ELSE b[k - (i - 1)]
  <2>1. /\ r \in Seq(S) /\ Len(r) = Len(a) + Len(b)
        /\ \A k \in 1..(Len(a) + Len(b)) : r[k] = IF k <= Len(a) THEN a[k] ELSE b[k - Len(a)]
    BY <1>2, <1>3, ConcatProperties
  <2>2. Len(a) + Len(b) = n - 1
    BY <1>1, <1>2, <1>3
  <2>3. DOMAIN r = 1..(n - 1)
    BY <2>1, <2>2, LenProperties
  <2>4. QED
    BY <1>2, <2>1, <2>2, <2>3
<1> HIDE DEF r, n
<1>6. ASSUME NEW k \in DOMAIN r
      PROVE  k \in Nat /\ From(k, i) \in DOMAIN s \ {i} /\ r[k] = s[From(k, i)]
  <2>1. k \in 1..(n - 1) /\ k \in Nat
    BY <1>1, <1>5
  <2>2. CASE k < i
    <3>1. k \in 1..(i - 1) /\ k <= i - 1 /\ k \in 1..n /\ k # i
      BY <1>1, <2>1, <2>2
    <3>2. r[k] = s[k]
      BY <1>2, <1>5, <2>1, <3>1
    <3>3. QED
      BY <1>1, <2>1, <2>2, <3>1, <3>2 DEF From
  <2>3. CASE ~(k < i)
    <3>1. /\ ~(k <= i - 1) /\ k - (i - 1) \in 1..(n - i) /\ (k - (i - 1)) + i = k + 1
          /\ k + 1 \in 1..n /\ k + 1 # i
      BY <1>1, <2>1, <2>3
    <3>2. r[k] = s[k + 1]
      BY <1>3, <1>5, <2>1, <3>1
    <3>3. QED
      BY <1>1, <2>1, <2>3, <3>1, <3>2 DEF From
  <2>4. QED
    BY <2>2, <2>3
<1>7. ASSUME NEW j \in DOMAIN s, j # i PROVE \E k \in DOMAIN r : r[k] = s[j]
  <2>1. j \in 1..n /\ j \in Nat
    BY <1>1
  <2>2. CASE j < i
    <3>1. j \in DOMAIN r /\ From(j, i) = j
      BY <1>1, <1>5, <2>1, <2>2 DEF From
    <3>2. QED
      BY <1>6, <3>1
  <2>3. CASE ~(j < i)
    <3>1. j - 1 \in DOMAIN r /\ From(j - 1, i) = j
      BY <1>1, <1>5, <1>7, <2>1, <2>3 DEF From
    <3>2. QED
      BY <1>6, <3>1
  <2>4. QED
    BY <2>2, <2>3
<1>8. ToSet(s) = ToSet(r) \cup {s[i]}
  <2>1. ASSUME NEW x \in ToSet(s) PROVE x \in ToSet(r) \cup {s[i]}
    BY <1>7 DEF ToSet
  <2>2. ASSUME NEW x \in ToSet(r) PROVE x \in ToSet(s)
    BY <1>6 DEF ToSet
  <2>3. QED
    BY <2>1, <2>2 DEF ToSet
<1>9. QED
  BY <1>4, <1>5, <1>6, <1>8 DEF n

LEMMA Numbers ==
    /\ Width \in Nat \ {0} /\ MaxEntries \in 1..Width /\ NumTypes \in Nat \ {0}
    /\ MapSize \in Nat /\ MapSize > NumTypes /\ NumSlices \in Nat \ {0} /\ NumRows \in Nat \ {0}
    /\ Column \subseteq Nat /\ Entry \subseteq Nat /\ IsFiniteSet(Column) /\ IsFiniteSet(Entry)
    /\ Cardinality(Column) = Width /\ Cardinality(Entry) = MapSize /\ 0 \in Column /\ 0 \in Entry
    /\ Air \in Block /\ Nil \notin Block /\ Block \subseteq Nat /\ Stone \in Block
    /\ NumGenerated \in Block /\ IsFiniteSet(Block) /\ Cardinality(Block) = NumTypes + 1
    /\ NumGenerated \in Entry /\ Stone \in Entry /\ Air # Stone /\ Air # NumGenerated
    /\ Stone <= NumGenerated
<1>1. /\ Width \in Nat \ {0} /\ MaxEntries \in 1..Width /\ NumTypes \in Nat \ {0}
      /\ MapSize > NumTypes /\ NumSlices \in Nat \ {0} /\ NumRows \in Nat \ {0}
      /\ NumGenerated \in 1..2 /\ NumGenerated <= NumTypes /\ MapSize \in Nat
  <2>1. {NumSlices, NumRows, Width, MapSize, NumTypes} \subseteq Nat \ {0}
    BY ChunkDataAssumption
  <2>2. /\ Width \in Nat \ {0} /\ NumTypes \in Nat \ {0} /\ NumSlices \in Nat \ {0}
        /\ NumRows \in Nat \ {0} /\ MapSize \in Nat
    BY <2>1
  <2>3. QED
    BY <2>2, ChunkDataAssumption
<1>2. Column \subseteq Nat /\ Entry \subseteq Nat /\ 0 \in Column /\ 0 \in Entry
  BY <1>1 DEF Column, Entry
<1>3. IsFiniteSet(Column) /\ Cardinality(Column) = Width
  <2>1. 0 \in Int /\ Width - 1 \in Int /\ ~(0 > Width - 1) /\ Width - 1 - 0 + 1 = Width
    BY <1>1
  <2>2. QED
    BY <2>1, FS_Interval DEF Column
<1>4. IsFiniteSet(Entry) /\ Cardinality(Entry) = MapSize
  <2>1. 0 \in Int /\ MapSize - 1 \in Int /\ ~(0 > MapSize - 1) /\ MapSize - 1 - 0 + 1 = MapSize
    BY <1>1
  <2>2. QED
    BY <2>1, FS_Interval DEF Entry
<1>5. IsFiniteSet(Block) /\ Cardinality(Block) = NumTypes + 1
  <2>1. /\ 1 \in Int /\ NumTypes + 1 \in Int /\ ~(1 > NumTypes + 1)
        /\ NumTypes + 1 - 1 + 1 = NumTypes + 1
    BY <1>1
  <2>2. QED
    BY <2>1, FS_Interval DEF Block, Air
<1>6. /\ Air \in Block /\ Nil \notin Block /\ Block \subseteq Nat /\ Stone \in Block
      /\ NumGenerated \in Block /\ Air # Stone /\ Air # NumGenerated /\ Stone <= NumGenerated
  BY <1>1 DEF Block, Air, Nil, Stone
<1>7. NumGenerated \in Entry /\ Stone \in Entry
  BY <1>1 DEF Entry, Stone
<1>8. QED
  BY <1>1, <1>2, <1>3, <1>4, <1>5, <1>6, <1>7

LEMMA EntriesOf ==
    ASSUME NEW s \in Seq(Column \X Entry)
    PROVE  /\ Len(s) \in Nat /\ DOMAIN s = 1..Len(s)
           /\ \A i \in DOMAIN s : s[i] \in Column \X Entry /\ s[i] \in ToSet(s)
           /\ \A e \in ToSet(s) : /\ e \in Column \X Entry /\ e[1] \in Column /\ e[2] \in Entry
                                 /\ e = <<e[1], e[2]>> /\ \E i \in DOMAIN s : e = s[i]
           /\ Columns(s) \subseteq Column
<1>1. Len(s) \in Nat /\ DOMAIN s = 1..Len(s)
  BY LenProperties
<1>2. \A i \in DOMAIN s : s[i] \in Column \X Entry /\ s[i] \in ToSet(s)
  BY <1>1, ElementOfSeq DEF ToSet
<1>3. \A e \in ToSet(s) : e \in Column \X Entry /\ \E i \in DOMAIN s : e = s[i]
  BY <1>2 DEF ToSet
<1>4. QED
  BY <1>1, <1>2, <1>3 DEF Columns

(* In a row that is fit each column is read from its one entry. *)
LEMMA OneEntry ==
    ASSUME NEW s \in Seq(Column \X Entry), Distinct(s)
    PROVE  \A e, f \in ToSet(s) : e[1] = f[1] => e = f
  BY DEF Distinct, ToSet

LEMMA ReadsEntry ==
    ASSUME NEW row \in SparseRow, Distinct(row.storage), NEW e \in ToSet(row.storage)
    PROVE  Reads(row, e[1]) = e[2]
<1> DEFINE s == row.storage
           f == CHOOSE f \in ToSet(s) : f[1] = e[1]
<1>1. s \in Seq(Column \X Entry) /\ row.kind = "sparse"
  BY DEF SparseRow
<1>2. f \in ToSet(s) /\ f[1] = e[1]
  OBVIOUS
<1>3. f = e
  <2> HIDE DEF f
  <2>1. QED
    BY <1>1, <1>2, OneEntry
<1>4. Reads(row, e[1]) = f[2]
  <2>1. \E g \in ToSet(row.storage) : g[1] = e[1]
    OBVIOUS
  <2>2. QED
    BY <1>1, <2>1 DEF Reads
<1>5. QED
  BY <1>3, <1>4

LEMMA ReadsDefault ==
    ASSUME NEW row \in SparseRow, NEW x, x \notin Columns(row.storage)
    PROVE  Reads(row, x) = row.defaultBlockId
<1>1. row.kind = "sparse"
  BY DEF SparseRow
<1>2. ~ \E e \in ToSet(row.storage) : e[1] = x
  BY DEF Columns
<1>3. QED
  BY <1>1, <1>2 DEF Reads

LEMMA ReadsEntries ==
    ASSUME NEW row, FitRow(row), NEW x \in Column
    PROVE  /\ Reads(row, x) \in Entry
           /\ row \in SparseRow =>
                 (x \in Columns(row.storage) <=> Reads(row, x) # row.defaultBlockId)
<1>1. CASE row \in DenseRow
  <2>1. row.kind = "dense" /\ row.storage \in [Column -> Entry]
    BY <1>1 DEF DenseRow
  <2>2. row \notin SparseRow
    BY <2>1 DEF SparseRow
  <2>3. QED
    BY <2>1, <2>2 DEF Reads
<1>2. CASE row \in SparseRow /\ row \notin DenseRow
  <2>1. /\ Distinct(row.storage) /\ row.storage \in Seq(Column \X Entry)
        /\ row.defaultBlockId \in Entry
        /\ \A e \in ToSet(row.storage) : e[2] # row.defaultBlockId
    BY <1>2 DEF FitRow, SparseRow
  <2>2. CASE x \in Columns(row.storage)
    <3>1. PICK e \in ToSet(row.storage) : x = e[1]
      BY <2>2 DEF Columns
    <3>2. Reads(row, x) = e[2] /\ e[2] \in Entry /\ e[2] # row.defaultBlockId
      BY <1>2, <2>1, <3>1, ReadsEntry, EntriesOf
    <3>3. QED
      BY <2>2, <3>2
  <2>3. CASE x \notin Columns(row.storage)
    BY <1>2, <2>1, <2>3, ReadsDefault
  <2>4. QED
    BY <2>2, <2>3
<1>3. QED
  BY <1>1, <1>2 DEF FitRow

(* A row has as many entries as it has columns with another number. *)
LEMMA EntriesAreColumns ==
    ASSUME NEW s \in Seq(Column \X Entry), Distinct(s)
    PROVE  /\ IsFiniteSet(Columns(s)) /\ Cardinality(Columns(s)) = Len(s)
           /\ Columns(s) \in SUBSET Nat
<1> DEFINE f == [i \in 1..Len(s) |-> s[i][1]]
<1>1. Len(s) \in Nat /\ DOMAIN s = 1..Len(s) /\ Columns(s) \subseteq Column
  BY EntriesOf
<1>2. \A i \in 1..Len(s) : s[i][1] \in Columns(s)
  BY <1>1, EntriesOf DEF Columns
<1>3. \A x \in Columns(s) : \E i \in 1..Len(s) : s[i][1] = x
  <2>1. TAKE x \in Columns(s)
  <2>2. PICK e \in ToSet(s) : x = e[1]
    BY DEF Columns
  <2>3. PICK i \in DOMAIN s : e = s[i]
    BY EntriesOf
  <2>4. QED
    BY <1>1, <2>2, <2>3
<1>4. f \in [1..Len(s) -> Columns(s)]
  BY <1>2
<1>5. \A i, j \in 1..Len(s) : f[i] = f[j] => i = j
  BY <1>1 DEF Distinct
<1>6. \A x \in Columns(s) : \E i \in 1..Len(s) : f[i] = x
  BY <1>3
<1> HIDE DEF f
<1>7. f \in Bijection(1..Len(s), Columns(s))
  BY <1>4, <1>5, <1>6, Fun_IsBij
<1>8. Cardinality(Columns(s)) = Len(s)
  BY <1>1, <1>7, FS_CountingElements, Fun_ExistsBij
<1>9. QED
  BY <1>1, <1>8, FS_Subset, Numbers

-----------------------------------------------------------------------------
(* Binary search in a sparse row *)

(* Binary search: what it gives for the places from one to another. *)
Ends(n) == (0..n) \X (0..n)

Probed(s, x, g, r) ==
    LET i == (r[1] + r[2]) \div 2
    IN IF r[1] >= r[2] THEN 0
       ELSE IF s[i + 1][1] = x THEN i + 1
       ELSE IF s[i + 1][1] > x THEN g[<<r[1], i>>]
       ELSE g[<<i + 1, r[2]>>]

LEMMA Halves ==
    ASSUME NEW n \in Nat, NEW l \in 0..n, NEW u \in 0..n, l < u, NEW i, i = (l + u) \div 2
    PROVE  i \in 0..n /\ i + 1 \in 0..n /\ l <= i /\ i < u /\ i + 1 \in 1..n
  OBVIOUS

(* It ends: for places that are d apart it is defined if it is for closer ones. *)
LEMMA ProbesAre ==
    ASSUME NEW s \in Seq(Column \X Entry), NEW x
    PROVE  \E g : g = [r \in Ends(Len(s)) |-> Probed(s, x, g, r)]
<1> DEFINE n == Len(s)
           D == Ends(n)
           Good(g, d) == g = [r \in D |-> g[r]]
                         /\ \A r \in D : r[2] <= r[1] + d => g[r] = Probed(s, x, g, r)
           H == {d \in 0..n : \E g : Good(g, d)}
<1>1. n \in Nat
  BY EntriesOf
<1>2. \A r \in D : /\ r = <<r[1], r[2]>> /\ r[1] \in 0..n /\ r[2] \in 0..n
                   /\ r[1] \in Nat /\ r[2] \in Nat
  BY <1>1 DEF Ends
<1>3. 0 \in H
  <2> DEFINE g == [r \in D |-> 0]
  <2>1. \A r \in D : r[2] <= r[1] + 0 => g[r] = Probed(s, x, g, r)
    <3>1. TAKE r \in D
    <3>2. HAVE r[2] <= r[1] + 0
    <3>3. r[1] >= r[2]
      BY <1>2, <3>2
    <3>4. Probed(s, x, g, r) = 0
      <4> HIDE DEF g, D
      <4>1. QED
        BY <3>3 DEF Probed
    <3>5. QED
      BY <3>4
  <2>2. g = [r \in D |-> g[r]]
    OBVIOUS
  <2> HIDE DEF g, D
  <2>3. Good(g, 0)
    BY <2>1, <2>2
  <2> HIDE DEF Good
  <2>4. 0 \in 0..n
    BY <1>1
  <2>5. QED
    BY <2>3, <2>4
<1>4. ASSUME NEW d \in 0..n, d > 0, d - 1 \in H PROVE d \in H
  <2>1. PICK g : Good(g, d - 1)
    BY <1>4
  <2> DEFINE h == [r \in D |-> Probed(s, x, g, r)]
  <2>2. ASSUME NEW r \in D, r[2] <= r[1] + d PROVE h[r] = Probed(s, x, h, r)
    <3> DEFINE i == (r[1] + r[2]) \div 2
               a == <<r[1], i>>
               b == <<i + 1, r[2]>>
    <3>1. h[r] = Probed(s, x, g, r)
      OBVIOUS
    <3>2. CASE r[1] >= r[2]
      <4>1. Probed(s, x, g, r) = 0 /\ Probed(s, x, h, r) = 0
        <5> HIDE DEF h, D, Good
        <5>1. QED
          BY <3>2 DEF Probed
      <4>2. QED
        BY <3>1, <4>1
    <3>3. CASE ~(r[1] >= r[2])
      <4>1. r[1] < r[2]
        <5> HIDE DEF D, h, Good
        <5>1. QED
          BY <1>2, <3>3
      <4>2. i \in 0..n /\ i + 1 \in 0..n /\ r[1] <= i /\ i < r[2]
        <5> HIDE DEF D, h, Good
        <5>1. QED
          BY <1>1, <1>2, <4>1, Halves
      <4> HIDE DEF i
      <4>3. a \in D /\ b \in D
        BY <1>2, <4>2 DEF Ends
      <4>4. a[2] <= a[1] + (d - 1) /\ b[2] <= b[1] + (d - 1)
        <5>1. r[1] \in Nat /\ r[2] \in Nat /\ d \in Nat /\ i \in Nat
          <6> HIDE DEF D, h, Good, n
          <6>1. QED
            BY <1>1, <1>2, <4>2
        <5>2. i <= r[1] + (d - 1) /\ r[2] <= i + 1 + (d - 1)
          <6> HIDE DEF D, h, Good, n
          <6>1. QED
            BY <5>1, <4>2, <2>2
        <5>3. QED
          BY <5>2
      <4> HIDE DEF a, b
      <4>5. g[a] = h[a] /\ g[b] = h[b]
        <5>1. g[a] = Probed(s, x, g, a) /\ g[b] = Probed(s, x, g, b)
          BY <2>1, <4>3, <4>4
        <5>2. h[a] = Probed(s, x, g, a) /\ h[b] = Probed(s, x, g, b)
          BY <4>3
        <5>3. QED
          BY <5>1, <5>2
      <4>6. Probed(s, x, g, r) = Probed(s, x, h, r)
        <5> HIDE DEF h, D, Good
        <5>1. QED
          BY <4>5 DEF Probed, a, b, i
      <4>7. QED
        BY <3>1, <4>6
    <3>4. QED
      BY <3>2, <3>3
  <2>3. h = [r \in D |-> h[r]]
    OBVIOUS
  <2> HIDE DEF h, D
  <2>4. Good(h, d)
    BY <2>2, <2>3
  <2> HIDE DEF Good
  <2>5. QED
    BY <2>4
<1>5. H = 0..n
  <2>1. H \in SUBSET (0..n)
    OBVIOUS
  <2> HIDE DEF H, n
  <2>2. QED
    BY <1>1, <1>3, <1>4, <2>1, UpTo
<1>6. PICK g : Good(g, n)
  <2>1. n \in 0..n
    BY <1>1
  <2> HIDE DEF Good, D, n
  <2>2. QED
    BY <1>5, <2>1
<1>7. \A r \in D : g[r] = Probed(s, x, g, r)
  <2>1. TAKE r \in D
  <2>2. r[2] <= r[1] + n
    BY <1>1, <1>2
  <2>3. QED
    BY <1>6, <2>2
<1>8. g = [r \in D |-> Probed(s, x, g, r)]
  <2> HIDE DEF D
  <2>1. QED
    BY <1>6, <1>7
<1>9. QED
  BY <1>8

LEMMA SearchUnfolds ==
    ASSUME NEW s \in Seq(Column \X Entry), NEW x
    PROVE  \E g : /\ Search(s, x) = g[<<0, Len(s)>>]
                  /\ \A r \in Ends(Len(s)) : g[r] = Probed(s, x, g, r)
<1> DEFINE P(h) == h = [r \in Ends(Len(s)) |-> Probed(s, x, h, r)]
<1>1. \E h : P(h)
  BY ProbesAre
<1> DEFINE p == CHOOSE h : P(h)
<1>2. P(p)
  <2> HIDE DEF P
  <2>1. QED
    BY <1>1
<1>3. Search(s, x) = p[<<0, Len(s)>>]
  BY DEF Search, Probed, Ends
<1> HIDE DEF p
<1>4. \A r \in Ends(Len(s)) : p[r] = Probed(s, x, p, r)
  BY <1>2
<1>5. QED
  BY <1>3, <1>4

(* Between two places, with all smaller columns before and all larger ones   *)
(* after them, the entry of x is found if there is one.                      *)
LEMMA SearchIs ==
    ASSUME NEW s \in Seq(Column \X Entry), InOrder(s), NEW x \in Column
    PROVE  /\ Search(s, x) \in 0..Len(s)
           /\ Search(s, x) = 0 => x \notin Columns(s)
           /\ Search(s, x) # 0 => s[Search(s, x)][1] = x
<1> DEFINE n == Len(s)
           D == Ends(n)
<1>1. n \in Nat /\ DOMAIN s = 1..n
  BY EntriesOf
<1>2. \A r \in D : /\ r = <<r[1], r[2]>> /\ r[1] \in 0..n /\ r[2] \in 0..n
                   /\ r[1] \in Nat /\ r[2] \in Nat
  BY <1>1 DEF Ends
<1>3. \A i \in 1..n : s[i][1] \in Nat /\ i \in Nat
  <2>1. TAKE i \in 1..n
  <2>2. s[i] \in Column \X Entry
    BY <1>1, EntriesOf
  <2>3. s[i][1] \in Column
    BY <2>2
  <2>4. Column \subseteq Nat
    BY Numbers
  <2>5. i \in Nat
    BY <1>1
  <2>6. QED
    BY <2>3, <2>4, <2>5
<1>4. PICK g : /\ Search(s, x) = g[<<0, n>>]
               /\ \A r \in D : g[r] = Probed(s, x, g, r)
  BY SearchUnfolds
<1> DEFINE Right(r) == /\ g[r] \in 0..n
                       /\ g[r] # 0 => s[g[r]][1] = x
                       /\ g[r] = 0 => \A i \in 1..n : r[1] < i /\ i <= r[2] => s[i][1] # x
           H == {d \in 0..n : \A r \in D : r[2] <= r[1] + d => Right(r)}
<1>5. 0 \in H
  <2>1. ASSUME NEW r \in D, r[2] <= r[1] + 0 PROVE Right(r)
    <3>1. r[1] >= r[2]
      BY <1>2, <2>1
    <3>2. g[r] = 0
      BY <1>4, <3>1 DEF Probed
    <3>3. \A i \in 1..n : ~(r[1] < i /\ i <= r[2])
      BY <1>2, <1>3, <3>1
    <3>4. 0 \in 0..n
      BY <1>1
    <3>5. QED
      BY <3>2, <3>3, <3>4
  <2>2. 0 \in 0..n
    BY <1>1
  <2> HIDE DEF Right, D
  <2>3. QED
    BY <2>1, <2>2
<1>6. ASSUME NEW d \in 0..n, d > 0, d - 1 \in H PROVE d \in H
  <2>1. ASSUME NEW r \in D, r[2] <= r[1] + d PROVE Right(r)
    <3> DEFINE i == (r[1] + r[2]) \div 2
               a == <<r[1], i>>
               b == <<i + 1, r[2]>>
    <3>1. g[r] = Probed(s, x, g, r)
      BY <1>4
    <3>2. CASE r[1] >= r[2]
      <4>1. g[r] = 0
        BY <3>1, <3>2 DEF Probed
      <4>2. \A j \in 1..n : ~(r[1] < j /\ j <= r[2])
        BY <1>2, <1>3, <3>2
      <4>3. 0 \in 0..n
        BY <1>1
      <4>4. QED
        BY <4>1, <4>2, <4>3
    <3>3. CASE ~(r[1] >= r[2])
      <4>1. r[1] < r[2]
        <5> HIDE DEF D, Right
        <5>1. QED
          BY <1>2, <3>3
      <4>2. i \in 0..n /\ i + 1 \in 0..n /\ r[1] <= i /\ i < r[2] /\ i + 1 \in 1..n
        <5> HIDE DEF D, Right
        <5>1. QED
          BY <1>1, <1>2, <4>1, Halves
      <4>3. g[r] = IF s[i + 1][1] = x THEN i + 1
                   ELSE IF s[i + 1][1] > x THEN g[a] ELSE g[b]
        <5> HIDE DEF D, Right
        <5>1. QED
          BY <3>1, <3>3 DEF Probed
      <4> HIDE DEF i
      <4>4. a \in D /\ b \in D
        BY <1>2, <4>2 DEF Ends
      <4>5. a[2] <= a[1] + (d - 1) /\ b[2] <= b[1] + (d - 1)
        <5>1. r[1] \in Nat /\ r[2] \in Nat /\ d \in Nat /\ i \in Nat
          <6> HIDE DEF D, Right, n
          <6>1. QED
            BY <1>1, <1>2, <4>2
        <5>2. i <= r[1] + (d - 1) /\ r[2] <= i + 1 + (d - 1)
          <6> HIDE DEF D, Right, n
          <6>1. QED
            BY <5>1, <4>2, <2>1
        <5>3. QED
          BY <5>2
      <4>6. Right(a) /\ Right(b)
        <5>1. \A q \in D : q[2] <= q[1] + (d - 1) => Right(q)
          BY <1>6
        <5> HIDE DEF Right, D
        <5>2. QED
          BY <4>4, <4>5, <5>1
      <4>7. a[1] = r[1] /\ a[2] = i /\ b[1] = i + 1 /\ b[2] = r[2]
        OBVIOUS
      <4> HIDE DEF a, b, D
      <4>8. CASE s[i + 1][1] = x
        <5>1. g[r] = i + 1
          BY <4>3, <4>8
        <5>2. i + 1 # 0 /\ i + 1 \in 0..n
          BY <4>2
        <5>3. QED
          BY <4>8, <5>1, <5>2
      <4>9. CASE s[i + 1][1] # x /\ s[i + 1][1] > x
        <5>1. g[r] = g[a]
          BY <4>3, <4>9
        <5>2. ASSUME NEW j \in 1..n, i < j PROVE s[j][1] # x
          <6>1. j = i + 1 \/ i + 1 < j
            BY <1>3, <4>2, <5>2
          <6>2. i + 1 < j => s[i + 1][1] < s[j][1]
            BY <1>1, <4>2 DEF InOrder
          <6>3. s[i + 1][1] \in Nat /\ s[j][1] \in Nat /\ x \in Nat
            BY <1>3, <4>2, Numbers
          <6>4. QED
            BY <4>9, <6>1, <6>2, <6>3
        <5>3. ASSUME g[a] = 0, NEW j \in 1..n, r[1] < j, j <= r[2] PROVE s[j][1] # x
          <6>1. CASE j <= i
            BY <4>6, <4>7, <5>3, <6>1
          <6>2. CASE i < j
            BY <5>2, <6>2
          <6>3. QED
            BY <1>3, <4>2, <6>1, <6>2
        <5>4. QED
          BY <4>6, <5>1, <5>3
      <4>10. CASE s[i + 1][1] # x /\ ~(s[i + 1][1] > x)
        <5>1. g[r] = g[b]
          BY <4>3, <4>10
        <5>2. ASSUME NEW j \in 1..n, j <= i + 1 PROVE s[j][1] # x
          <6>1. j = i + 1 \/ j < i + 1
            BY <1>3, <4>2, <5>2
          <6>2. j < i + 1 => s[j][1] < s[i + 1][1]
            BY <1>1, <4>2 DEF InOrder
          <6>3. s[i + 1][1] \in Nat /\ s[j][1] \in Nat /\ x \in Nat
            BY <1>3, <4>2, Numbers
          <6>4. QED
            BY <4>10, <6>1, <6>2, <6>3
        <5>3. ASSUME g[b] = 0, NEW j \in 1..n, r[1] < j, j <= r[2] PROVE s[j][1] # x
          <6>1. CASE i + 1 < j
            BY <4>6, <4>7, <5>3, <6>1
          <6>2. CASE j <= i + 1
            BY <5>2, <6>2
          <6>3. QED
            BY <1>3, <4>2, <6>1, <6>2
        <5>4. QED
          BY <4>6, <5>1, <5>3
      <4>11. QED
        BY <4>8, <4>9, <4>10
    <3>4. QED
      BY <3>2, <3>3
  <2> HIDE DEF Right, D
  <2>2. QED
    BY <2>1
<1>7. H = 0..n
  <2>1. H \in SUBSET (0..n)
    OBVIOUS
  <2> HIDE DEF H, n
  <2>2. QED
    BY <1>1, <1>5, <1>6, <2>1, UpTo
<1>8. Right(<<0, n>>)
  <2>1. n \in 0..n /\ n <= 0 + n /\ <<0, n>> \in D /\ <<0, n>>[1] = 0 /\ <<0, n>>[2] = n
    BY <1>1 DEF Ends
  <2>2. \A r \in D : r[2] <= r[1] + n => Right(r)
    BY <1>7, <2>1
  <2> HIDE DEF Right, D, H
  <2>3. QED
    BY <2>1, <2>2
<1>9. Search(s, x) = 0 => x \notin Columns(s)
  <2>1. SUFFICES ASSUME Search(s, x) = 0, x \in Columns(s) PROVE FALSE
    OBVIOUS
  <2>2. PICK e \in ToSet(s) : x = e[1]
    BY <2>1 DEF Columns
  <2>3. PICK i \in DOMAIN s : e = s[i]
    BY EntriesOf
  <2>4. i \in 1..n /\ 0 < i /\ i <= n
    BY <1>1
  <2>5. <<0, n>>[1] = 0 /\ <<0, n>>[2] = n
    OBVIOUS
  <2>6. QED
    BY <1>4, <1>8, <2>1, <2>2, <2>3, <2>4, <2>5
<1>10. QED
  BY <1>4, <1>8, <1>9

(* getBlock of a row gives what the row has. *)
LEMMA AtIs ==
    ASSUME NEW row, FitRow(row), row \in SparseRow => InOrder(row.storage), NEW x \in Column
    PROVE  At(row, x) = Reads(row, x)
<1>1. CASE row \in DenseRow
  BY <1>1 DEF DenseRow, At, Reads
<1>2. CASE row \notin DenseRow
  <2> DEFINE s == row.storage
             j == Search(s, x)
  <2>1. /\ row \in SparseRow /\ row.kind = "sparse" /\ s \in Seq(Column \X Entry)
        /\ Distinct(s) /\ InOrder(s)
    BY <1>2 DEF FitRow, SparseRow
  <2>2. /\ j \in 0..Len(s) /\ (j = 0 => x \notin Columns(s))
        /\ (j # 0 => s[j][1] = x)
    <3> HIDE DEF s
    <3>1. QED
      BY <2>1, SearchIs
  <2>3. At(row, x) = IF j = 0 THEN row.defaultBlockId ELSE s[j][2]
    BY <2>1 DEF At
  <2> HIDE DEF j
  <2>4. CASE j = 0
    BY <2>1, <2>2, <2>3, <2>4, ReadsDefault
  <2>5. CASE j # 0
    <3>1. j \in DOMAIN s /\ s[j] \in ToSet(s)
      <4>1. Len(s) \in Nat /\ DOMAIN s = 1..Len(s)
        BY <2>1, EntriesOf
      <4>2. j \in DOMAIN s
        BY <2>2, <2>5, <4>1
      <4>3. QED
        BY <2>1, <4>2, EntriesOf
    <3>2. QED
      BY <2>1, <2>2, <2>3, <2>5, <3>1, ReadsEntry
  <2>6. QED
    BY <2>4, <2>5
<1>3. QED
  BY <1>1, <1>2

-----------------------------------------------------------------------------
(* A block in a row is changed *)

(* What setting the number of a column to v makes of the entries of a row. *)
After(s, x, v, def) ==
    {e \in ToSet(s) : e[1] # x} \cup (IF v # def THEN {<<x, v>>} ELSE {})

(* Entries that are as they should be after x is set to v make a fit row. *)
LEMMA AfterIs ==
    ASSUME NEW row, FitRow(row), row \in SparseRow, NEW x \in Column, NEW v \in Entry,
           NEW t \in Seq(Column \X Entry), Distinct(t),
           ToSet(t) = After(row.storage, x, v, row.defaultBlockId),
           NEW r, r = [row EXCEPT !.storage = t]
    PROVE  /\ FitRow(r) /\ r \in SparseRow /\ r.typeMap = row.typeMap /\ r.storage = t
           /\ r.defaultBlockId = row.defaultBlockId
           /\ \A y \in Column : Reads(r, y) = IF y = x THEN v ELSE Reads(row, y)
<1> DEFINE s == row.storage
           def == row.defaultBlockId
<1>1. /\ s \in Seq(Column \X Entry) /\ def \in Entry /\ row.kind = "sparse" /\ row.typeMap \in Nat
      /\ row = [kind |-> "sparse", typeMap |-> row.typeMap, defaultBlockId |-> def,
                storage |-> s]
  BY DEF SparseRow
<1>2. Distinct(s) /\ \A e \in ToSet(s) : e[2] # def
  <2>1. row \notin DenseRow
    BY <1>1 DEF DenseRow
  <2>2. QED
    BY <2>1 DEF FitRow
<1>3. r \in SparseRow /\ r.storage = t /\ r.defaultBlockId = def /\ r.typeMap = row.typeMap
  BY <1>1 DEF SparseRow
<1>4. \A e \in ToSet(t) : e[2] # def
  <2>1. TAKE e \in ToSet(t)
  <2>2. CASE e \in ToSet(s)
    BY <1>2, <2>2
  <2>3. CASE e \notin ToSet(s)
    BY <2>3 DEF After
  <2>4. QED
    BY <2>2, <2>3
<1>5. FitRow(r)
  BY <1>3, <1>4 DEF FitRow
<1>6. ASSUME NEW y \in Column PROVE Reads(r, y) = IF y = x THEN v ELSE Reads(row, y)
  <2>1. CASE y = x /\ v # def
    <3>1. <<x, v>> \in ToSet(t) /\ <<x, v>>[1] = x /\ <<x, v>>[2] = v
      BY <2>1 DEF After
    <3>2. Reads(r, x) = v
      BY <1>3, <3>1, ReadsEntry
    <3>3. QED
      BY <2>1, <3>2
  <2>2. CASE y = x /\ v = def
    <3>1. x \notin Columns(t)
      BY <2>2 DEF After, Columns
    <3>2. Reads(r, x) = def
      BY <1>3, <3>1, ReadsDefault
    <3>3. QED
      BY <2>2, <3>2
  <2>3. CASE y # x /\ y \in Columns(s)
    <3>1. PICK e \in ToSet(s) : y = e[1]
      BY <2>3 DEF Columns
    <3>2. e \in ToSet(t)
      BY <2>3, <3>1 DEF After
    <3>3. Reads(r, y) = e[2]
      BY <1>3, <3>1, <3>2, ReadsEntry
    <3>4. Reads(row, y) = e[2]
      BY <1>2, <3>1, ReadsEntry
    <3>5. QED
      BY <2>3, <3>3, <3>4
  <2>4. CASE y # x /\ y \notin Columns(s)
    <3>1. y \notin Columns(t)
      BY <2>4 DEF After, Columns
    <3>2. Reads(r, y) = def
      BY <1>3, <3>1, ReadsDefault
    <3>3. Reads(row, y) = def
      BY <2>4, ReadsDefault
    <3>4. QED
      BY <2>4, <3>2, <3>3
  <2>5. QED
    BY <2>1, <2>2, <2>3, <2>4
<1>7. QED
  BY <1>3, <1>5, <1>6

LEMMA AppendHolds ==
    ASSUME NEW S, NEW s \in Seq(S), NEW e \in S
    PROVE  /\ Append(s, e) \in Seq(S) /\ Len(Append(s, e)) = Len(s) + 1
           /\ ToSet(Append(s, e)) = ToSet(s) \cup {e}
           /\ \A i \in 1..Len(s) : Append(s, e)[i] = s[i]
           /\ Append(s, e)[Len(s) + 1] = e
<1> DEFINE t == Append(s, e)
           n == Len(s)
<1>1. /\ t \in Seq(S) /\ Len(t) = n + 1 /\ \A i \in 1..n : t[i] = s[i]
      /\ t[n + 1] = e
  BY AppendProperties
<1>2. n \in Nat /\ DOMAIN s = 1..n /\ DOMAIN t = 1..(n + 1)
  BY <1>1, LenProperties
<1> HIDE DEF t, n
<1>3. ToSet(t) = ToSet(s) \cup {e}
  <2>1. ASSUME NEW x \in ToSet(t) PROVE x \in ToSet(s) \cup {e}
    <3>1. PICK i \in 1..(n + 1) : x = t[i]
      BY <1>2 DEF ToSet
    <3>2. i \in 1..n \/ i = n + 1
      BY <1>2
    <3>3. QED
      BY <1>1, <1>2, <3>1, <3>2 DEF ToSet
  <2>2. ASSUME NEW x \in ToSet(s) PROVE x \in ToSet(t)
    <3>1. PICK i \in 1..n : x = s[i]
      BY <1>2 DEF ToSet
    <3>2. i \in 1..(n + 1)
      BY <1>2
    <3>3. QED
      BY <1>1, <1>2, <3>1, <3>2 DEF ToSet
  <2>3. e \in ToSet(t)
    <3>1. n + 1 \in 1..(n + 1)
      BY <1>2
    <3>2. QED
      BY <1>1, <1>2, <3>1 DEF ToSet
  <2>4. QED
    BY <2>1, <2>2, <2>3
<1>4. QED
  BY <1>1, <1>3 DEF t, n

(* The entries after a column is set: the entry of the column is changed,    *)
(* removed or added.                                                         *)
LEMMA EntrySet ==
    ASSUME NEW s \in Seq(Column \X Entry), Distinct(s), NEW x \in Column, NEW v \in Entry,
           NEW d \in Entry, v # d, NEW j \in DOMAIN s, s[j][1] = x
    PROVE  LET t == [s EXCEPT ![j] = <<x, v>>]
           IN /\ t \in Seq(Column \X Entry) /\ Distinct(t) /\ Len(t) = Len(s)
              /\ ToSet(t) = After(s, x, v, d)
<1> DEFINE t == [s EXCEPT ![j] = <<x, v>>]
<1>1. <<x, v>> \in Column \X Entry /\ <<x, v>>[1] = x
  OBVIOUS
<1>2. t \in Seq(Column \X Entry) /\ Len(t) = Len(s) /\ DOMAIN t = DOMAIN s
  BY <1>1, ExceptSeq, EntriesOf
<1>3. \A i \in DOMAIN s : t[i] = IF i = j THEN <<x, v>> ELSE s[i]
  OBVIOUS
<1> HIDE DEF t
<1>4. Distinct(t)
  <2>1. \A i \in DOMAIN s : t[i][1] = s[i][1]
    BY <1>1, <1>3
  <2>2. QED
    BY <1>2, <2>1 DEF Distinct
<1>5. \A i \in DOMAIN s : i # j => s[i][1] # x
  BY DEF Distinct
<1>6. ToSet(t) = After(s, x, v, d)
  <2>1. ASSUME NEW e \in ToSet(t) PROVE e \in After(s, x, v, d)
    <3>1. PICK i \in DOMAIN s : e = t[i]
      BY <1>2 DEF ToSet
    <3>2. CASE i = j
      BY <1>3, <3>1, <3>2 DEF After
    <3>3. CASE i # j
      BY <1>3, <1>5, <3>1, <3>3 DEF After, ToSet
    <3>4. QED
      BY <3>2, <3>3
  <2>2. ASSUME NEW e \in After(s, x, v, d) PROVE e \in ToSet(t)
    <3>1. CASE e = <<x, v>>
      BY <1>2, <1>3, <3>1 DEF ToSet
    <3>2. CASE e # <<x, v>>
      <4>1. e \in ToSet(s) /\ e[1] # x
        BY <3>2 DEF After
      <4>2. PICK i \in DOMAIN s : e = s[i]
        BY <4>1, EntriesOf
      <4>3. t[i] = e
        BY <1>3, <4>1, <4>2
      <4>4. QED
        BY <1>2, <4>3 DEF ToSet
    <3>3. QED
      BY <3>1, <3>2
  <2>3. QED
    BY <2>1, <2>2
<1>7. QED
  BY <1>2, <1>4, <1>6 DEF t

LEMMA EntryRemoved ==
    ASSUME NEW s \in Seq(Column \X Entry), Distinct(s), NEW x \in Column,
           NEW v \in Entry, NEW j \in DOMAIN s, s[j][1] = x, NEW t, t = RemoveAt(s, j)
    PROVE  /\ t \in Seq(Column \X Entry) /\ Distinct(t) /\ Len(t) = Len(s) - 1
           /\ ToSet(t) = After(s, x, v, v)
<1>1. /\ t \in Seq(Column \X Entry) /\ Len(t) = Len(s) - 1
      /\ ToSet(s) = ToSet(t) \cup {s[j]}
      /\ \A k \in DOMAIN t : k \in Nat /\ From(k, j) \in DOMAIN s \ {j} /\ t[k] = s[From(k, j)]
  BY RemoveAtHolds
<1>2. Distinct(t)
  <2>1. ASSUME NEW i \in DOMAIN t, NEW k \in DOMAIN t, t[i][1] = t[k][1] PROVE i = k
    <3>1. From(i, j) = From(k, j)
      BY <1>1, <2>1 DEF Distinct
    <3>2. i \in Nat /\ k \in Nat /\ j \in Nat
      BY <1>1, EntriesOf
    <3>3. QED
      BY <3>1, <3>2 DEF From
  <2>2. QED
    BY <2>1 DEF Distinct
<1>3. \A i \in DOMAIN s : i # j => s[i][1] # x
  BY DEF Distinct
<1>4. \A e \in ToSet(t) : e \in ToSet(s) /\ e[1] # x
  <2>1. TAKE e \in ToSet(t)
  <2>2. PICK k \in DOMAIN t : e = t[k]
    BY DEF ToSet
  <2>3. QED
    BY <1>1, <1>3, <2>2
<1>5. ToSet(t) = After(s, x, v, v)
  BY <1>1, <1>4 DEF After
<1>6. QED
  BY <1>1, <1>2, <1>5

LEMMA EntryAdded ==
    ASSUME NEW s \in Seq(Column \X Entry), Distinct(s), NEW x \in Column, x \notin Columns(s),
           NEW v \in Entry, NEW d \in Entry, v # d
    PROVE  LET t == Append(s, <<x, v>>)
           IN /\ t \in Seq(Column \X Entry) /\ Distinct(t) /\ Len(t) = Len(s) + 1
              /\ ToSet(t) = After(s, x, v, d)
<1> DEFINE t == Append(s, <<x, v>>)
<1>1. <<x, v>> \in Column \X Entry /\ <<x, v>>[1] = x
  OBVIOUS
<1>2. /\ t \in Seq(Column \X Entry) /\ Len(t) = Len(s) + 1
      /\ ToSet(t) = ToSet(s) \cup {<<x, v>>}
      /\ \A i \in 1..Len(s) : t[i] = s[i]
      /\ t[Len(s) + 1] = <<x, v>>
  BY <1>1, AppendHolds
<1> HIDE DEF t
<1>3. Len(s) \in Nat /\ DOMAIN s = 1..Len(s) /\ DOMAIN t = 1..(Len(s) + 1)
  BY <1>2, EntriesOf
<1>4. \A i \in DOMAIN s : s[i][1] # x
  BY EntriesOf DEF Columns
<1>5. Distinct(t)
  <2>1. ASSUME NEW i \in DOMAIN t, NEW k \in DOMAIN t, t[i][1] = t[k][1] PROVE i = k
    <3>1. (i \in DOMAIN s \/ i = Len(s) + 1) /\ (k \in DOMAIN s \/ k = Len(s) + 1)
      BY <1>3
    <3>2. CASE i \in DOMAIN s /\ k \in DOMAIN s
      BY <1>2, <1>3, <2>1, <3>2 DEF Distinct
    <3>3. CASE i \in DOMAIN s /\ k = Len(s) + 1
      BY <1>1, <1>2, <1>3, <1>4, <2>1, <3>3
    <3>4. CASE i = Len(s) + 1 /\ k \in DOMAIN s
      BY <1>1, <1>2, <1>3, <1>4, <2>1, <3>4
    <3>5. QED
      BY <3>1, <3>2, <3>3, <3>4
  <2>2. QED
    BY <2>1 DEF Distinct
<1>6. \A e \in ToSet(s) : e[1] # x
  BY DEF Columns
<1>7. ToSet(t) = After(s, x, v, d)
  BY <1>2, <1>6 DEF After
<1>8. QED
  BY <1>2, <1>5, <1>7 DEF t

(* Setting a column gives it its number and leaves the others alone. *)
LEMMA PutIs ==
    ASSUME NEW row, FitRow(row), NEW x \in Column, NEW v \in Entry,
           NEW r, r = Put(row, x, v)
    PROVE  /\ FitRow(r) /\ r.typeMap = row.typeMap
           /\ \A y \in Column : Reads(r, y) = IF y = x THEN v ELSE Reads(row, y)
           /\ row \in DenseRow => r \in DenseRow
           /\ row \in SparseRow => /\ r \in SparseRow /\ r.defaultBlockId = row.defaultBlockId
                                   /\ Len(r.storage) <= Len(row.storage) + 1
<1>1. CASE row \in DenseRow
  <2>1. /\ row.kind = "dense" /\ row.storage \in [Column -> Entry] /\ row.typeMap \in Nat
        /\ row = [kind |-> "dense", typeMap |-> row.typeMap, storage |-> row.storage]
    BY <1>1 DEF DenseRow
  <2>2. r = [row EXCEPT !.storage[x] = v]
    BY <2>1 DEF Put
  <2>3. r = [kind |-> "dense", typeMap |-> row.typeMap, storage |-> [row.storage EXCEPT ![x] = v]]
    BY <2>1, <2>2
  <2>4. r \in DenseRow /\ r.typeMap = row.typeMap
    BY <2>1, <2>3 DEF DenseRow
  <2>5. r.kind = "dense" /\ r.storage = [row.storage EXCEPT ![x] = v]
    BY <2>3
  <2>6. \A y \in Column : r.storage[y] = IF y = x THEN v ELSE row.storage[y]
    BY <2>1, <2>5
  <2>7. \A y \in Column : Reads(r, y) = IF y = x THEN v ELSE Reads(row, y)
    BY <2>1, <2>5, <2>6 DEF Reads
  <2>8. row \notin SparseRow
    BY <2>1 DEF SparseRow
  <2>9. QED
    BY <1>1, <2>4, <2>7, <2>8 DEF FitRow
<1>2. CASE row \notin DenseRow
  <2> DEFINE s == row.storage
             def == row.defaultBlockId
             held == {j \in DOMAIN s : s[j][1] = x}
             k == CHOOSE k \in held : \A i \in held : k <= i
             Done(t) == /\ t \in Seq(Column \X Entry) /\ Distinct(t) /\ Len(t) <= Len(s) + 1
                        /\ ToSet(t) = After(s, x, v, def)
  <2>1. /\ row \in SparseRow /\ row.kind = "sparse" /\ s \in Seq(Column \X Entry)
        /\ Distinct(s) /\ def \in Entry /\ \A e \in ToSet(s) : e[2] # def
    BY <1>2 DEF FitRow, SparseRow
  <2>2. Len(s) \in Nat /\ DOMAIN s = 1..Len(s)
    BY <2>1, EntriesOf
  <2>3. held # {} => k \in DOMAIN s /\ s[k][1] = x
    <3>1. ASSUME held # {} PROVE k \in held
      <4>1. held \in SUBSET Nat
        BY <2>2
      <4>2. \E a \in held : \A b \in held : a <= b
        <5> HIDE DEF held
        <5>1. QED
          BY <3>1, <4>1, Least
      <4>3. QED
        BY <4>2
    <3>2. QED
      BY <3>1
  <2>4. held = {} => x \notin Columns(s)
    BY <2>1, EntriesOf DEF Columns
  <2> HIDE DEF held, k
  <2>5. CASE held # {} /\ v # def
    <3>1. r = [row EXCEPT !.storage = [s EXCEPT ![k] = <<x, v>>]]
      BY <2>1, <2>5 DEF Put, held, k
    <3>2. Done([s EXCEPT ![k] = <<x, v>>])
      <4> HIDE DEF s, def, Done
      <4>1. /\ s \in Seq(Column \X Entry) /\ Distinct(s) /\ def \in Entry /\ v # def
            /\ k \in DOMAIN s /\ s[k][1] = x
        BY <2>1, <2>3, <2>5
      <4>2. LET t == [s EXCEPT ![k] = <<x, v>>]
            IN /\ t \in Seq(Column \X Entry) /\ Distinct(t) /\ Len(t) = Len(s)
               /\ ToSet(t) = After(s, x, v, def)
        BY <4>1, EntrySet
      <4>3. Len(s) <= Len(s) + 1
        BY <2>2
      <4>4. QED
        BY <4>2, <4>3 DEF Done
    <3>3. PICK t : Done(t) /\ r = [row EXCEPT !.storage = t]
      BY <3>1, <3>2
    <3>4. QED
      BY <2>1, <1>2, <3>3, AfterIs
  <2>6. CASE held # {} /\ v = def
    <3>1. r = [row EXCEPT !.storage = RemoveAt(s, k)]
      BY <2>1, <2>6 DEF Put, held, k
    <3>2. Done(RemoveAt(s, k))
      <4>1. PICK t : t = RemoveAt(s, k)
        OBVIOUS
      <4> HIDE DEF s, def
      <4>2. /\ t \in Seq(Column \X Entry) /\ Distinct(t) /\ Len(t) = Len(s) - 1
            /\ ToSet(t) = After(s, x, v, def)
        BY <2>1, <2>3, <2>6, <4>1, EntryRemoved
      <4>3. Len(t) <= Len(s) + 1
        BY <2>2, <4>2
      <4>4. QED
        BY <4>1, <4>2, <4>3
    <3>3. PICK t : Done(t) /\ r = [row EXCEPT !.storage = t]
      BY <3>1, <3>2
    <3>4. QED
      BY <2>1, <1>2, <3>3, AfterIs
  <2>7. CASE held = {} /\ v # def
    <3>1. r = [row EXCEPT !.storage = Append(s, <<x, v>>)]
      BY <2>1, <2>7 DEF Put, held, k
    <3>2. Done(Append(s, <<x, v>>))
      <4> HIDE DEF s, def, Done
      <4>1. /\ s \in Seq(Column \X Entry) /\ Distinct(s) /\ def \in Entry /\ v # def
            /\ x \notin Columns(s)
        BY <2>1, <2>4, <2>7
      <4>2. LET t == Append(s, <<x, v>>)
            IN /\ t \in Seq(Column \X Entry) /\ Distinct(t) /\ Len(t) = Len(s) + 1
               /\ ToSet(t) = After(s, x, v, def)
        BY <4>1, EntryAdded
      <4>3. Len(s) <= Len(s) + 1
        BY <2>2
      <4>4. QED
        BY <4>2, <4>3 DEF Done
    <3>3. PICK t : Done(t) /\ r = [row EXCEPT !.storage = t]
      BY <3>1, <3>2
    <3>4. QED
      BY <2>1, <1>2, <3>3, AfterIs
  <2>8. CASE held = {} /\ v = def
    <3>1. r = [row EXCEPT !.storage = s]
      BY <2>1, <2>8 DEF Put, held, k
    <3>2. Done(s)
      <4>1. ToSet(s) = After(s, x, v, def)
        BY <2>4, <2>8 DEF After, Columns
      <4>2. Len(s) <= Len(s) + 1
        BY <2>2
      <4>3. QED
        BY <2>1, <4>1, <4>2
    <3>3. PICK t : Done(t) /\ r = [row EXCEPT !.storage = t]
      BY <3>1, <3>2
    <3>4. QED
      BY <2>1, <1>2, <3>3, AfterIs
  <2>9. QED
    BY <2>5, <2>6, <2>7, <2>8
<1>3. QED
  BY <1>1, <1>2

-----------------------------------------------------------------------------
(* A row is sorted, or made dense *)

LEMMA InOrderDistinct ==
    ASSUME NEW s \in Seq(Column \X Entry), InOrder(s)
    PROVE  Distinct(s)
<1>1. SUFFICES ASSUME NEW i \in DOMAIN s, NEW j \in DOMAIN s, s[i][1] = s[j][1] PROVE i = j
  BY DEF Distinct
<1>2. i \in Nat /\ j \in Nat /\ s[i][1] \in Nat /\ s[j][1] \in Nat
  <2>1. DOMAIN s = 1..Len(s) /\ Len(s) \in Nat
    BY EntriesOf
  <2>2. s[i][1] \in Column /\ s[j][1] \in Column
    BY EntriesOf
  <2>3. s[i][1] \in Nat /\ s[j][1] \in Nat
    BY <2>2, Numbers
  <2>4. i \in 1..Len(s) /\ j \in 1..Len(s)
    BY <2>1
  <2>5. QED
    BY <2>1, <2>3, <2>4
<1>3. (i < j => s[i][1] < s[j][1]) /\ (j < i => s[j][1] < s[i][1])
  BY DEF InOrder
<1>4. QED
  BY <1>1, <1>2, <1>3

(* prepare orders the entries and changes nothing that is read. *)
LEMMA PreparedIs ==
    ASSUME NEW row, FitRow(row), NEW r, r = Prepared(row)
    PROVE  /\ FitRow(r) /\ r.typeMap = row.typeMap
           /\ \A y \in Column : Reads(r, y) = Reads(row, y)
           /\ row \in DenseRow => r \in DenseRow
           /\ row \in SparseRow => /\ r \in SparseRow /\ r.defaultBlockId = row.defaultBlockId
                                   /\ Len(r.storage) = Len(row.storage) /\ InOrder(r.storage)
<1>1. CASE row \in DenseRow
  <2>1. row.kind = "dense" /\ row \notin SparseRow
    BY <1>1 DEF DenseRow, SparseRow
  <2>2. r = row
    BY <2>1 DEF Prepared
  <2>3. QED
    BY <1>1, <2>1, <2>2
<1>2. CASE row \notin DenseRow
  <2> DEFINE s == row.storage
             def == row.defaultBlockId
             C == Columns(s)
             t == [j \in DOMAIN s |-> CHOOSE e \in ToSet(s) : e[1] = Nth(C, j - 1)]
  <2>1. /\ row \in SparseRow /\ row.kind = "sparse" /\ s \in Seq(Column \X Entry)
        /\ Distinct(s) /\ def \in Entry /\ \A e \in ToSet(s) : e[2] # def
    BY <1>2 DEF FitRow, SparseRow
  <2>2. r = [row EXCEPT !.storage = t]
    BY <2>1 DEF Prepared, Columns
  <2> HIDE DEF s, def
  <2>3. Len(s) \in Nat /\ DOMAIN s = 1..Len(s)
    BY <2>1, EntriesOf
  <2>4. IsFiniteSet(C) /\ Cardinality(C) = Len(s) /\ C \in SUBSET Nat
    BY <2>1, EntriesAreColumns
  <2>5. \A j \in 1..Len(s) : j - 1 \in 0..(Cardinality(C) - 1)
    BY <2>3, <2>4
  <2> HIDE DEF C
  <2>6. ASSUME NEW j \in 1..Len(s) PROVE t[j] \in ToSet(s) /\ t[j][1] = Nth(C, j - 1)
    <3>1. Nth(C, j - 1) \in C
      BY <2>4, <2>5, NthIs
    <3>2. \E e \in ToSet(s) : e[1] = Nth(C, j - 1)
      BY <3>1 DEF C, Columns
    <3>3. QED
      BY <2>3, <3>2
  <2>7. DOMAIN t = 1..Len(s)
    BY <2>3
  <2> HIDE DEF t
  <2>8. t \in Seq(Column \X Entry) /\ Len(t) = Len(s)
    <3>1. \A j \in 1..Len(s) : t[j] \in Column \X Entry
      BY <2>1, <2>6, EntriesOf
    <3>2. t = [j \in 1..Len(s) |-> t[j]]
      BY <2>3, <2>7 DEF t
    <3>3. t \in [1..Len(s) -> Column \X Entry]
      BY <3>1, <3>2
    <3>4. t \in Seq(Column \X Entry)
      BY <2>3, <3>3, SeqDef
    <3>5. Len(t) \in Nat /\ DOMAIN t = 1..Len(t)
      BY <3>4, LenProperties
    <3>6. QED
      BY <2>3, <2>7, <3>4, <3>5
  <2>9. InOrder(t)
    <3>1. SUFFICES ASSUME NEW i \in DOMAIN t, NEW j \in DOMAIN t, i < j
                   PROVE  t[i][1] < t[j][1]
      BY DEF InOrder
    <3>2. i - 1 < j - 1
      BY <2>3, <2>7, <3>1
    <3>3. Nth(C, i - 1) < Nth(C, j - 1)
      BY <2>4, <2>5, <2>7, <3>2, NthIs
    <3>4. QED
      BY <2>6, <2>7, <3>3
  <2>10. Distinct(t)
    BY <2>8, <2>9, InOrderDistinct
  <2>11. ToSet(t) = ToSet(s)
    <3>1. ASSUME NEW e \in ToSet(t) PROVE e \in ToSet(s)
      BY <2>6, <2>7 DEF ToSet
    <3>2. ASSUME NEW e \in ToSet(s) PROVE e \in ToSet(t)
      <4>1. e[1] \in C
        BY DEF C, Columns
      <4>2. PICK n : n = Rank(C, e[1])
        OBVIOUS
      <4>3. n \in 0..(Cardinality(C) - 1) /\ Nth(C, n) = e[1]
        BY <2>4, <4>1, <4>2, NthIs
      <4>4. n + 1 \in 1..Len(s) /\ (n + 1) - 1 = n
        BY <2>3, <2>4, <4>3
      <4>5. t[n + 1] \in ToSet(s) /\ t[n + 1][1] = e[1]
        BY <2>6, <4>3, <4>4
      <4>6. t[n + 1] = e
        BY <2>1, <4>5, OneEntry
      <4>7. QED
        BY <2>7, <4>4, <4>6 DEF ToSet
    <3>3. QED
      BY <3>1, <3>2
  <2>12. /\ r \in SparseRow /\ r.storage = t /\ r.defaultBlockId = def /\ r.kind = "sparse"
         /\ r.typeMap = row.typeMap
    <3>1. /\ row.typeMap \in Nat
          /\ row = [kind |-> "sparse", typeMap |-> row.typeMap, defaultBlockId |-> def,
                    storage |-> s]
      BY <2>1 DEF SparseRow, s, def
    <3>2. r = [kind |-> "sparse", typeMap |-> row.typeMap, defaultBlockId |-> def,
               storage |-> t]
      BY <2>2, <3>1
    <3>3. QED
      BY <2>1, <2>8, <3>1, <3>2 DEF SparseRow
  <2>13. FitRow(r)
    BY <2>1, <2>10, <2>11, <2>12 DEF FitRow
  <2>14. \A y \in Column : Reads(r, y) = Reads(row, y)
    BY <2>1, <2>11, <2>12 DEF Reads, s, def
  <2>15. QED
    BY <1>2, <2>1, <2>8, <2>9, <2>12, <2>13, <2>14 DEF s, def
<1>3. QED
  BY <1>1, <1>2

(* A full sparse row that becomes dense reads as before. *)
LEMMA WidenedIs ==
    ASSUME NEW row, FitRow(row),
           row \in SparseRow => InOrder(row.storage) /\ Len(row.storage) <= MaxEntries,
           NEW r, r = Widened(row)
    PROVE  /\ FitRow(r) /\ r.typeMap = row.typeMap
           /\ \A y \in Column : Reads(r, y) = Reads(row, y)
           /\ r \in SparseRow => Len(r.storage) < MaxEntries
<1>1. CASE HasSpaceAvailable(row)
  <2>1. r = row
    BY <1>1 DEF Widened
  <2>2. r \in SparseRow => Len(r.storage) < MaxEntries
    BY <1>1, <2>1 DEF HasSpaceAvailable, SparseRow
  <2>3. QED
    BY <2>1, <2>2
<1>2. CASE ~HasSpaceAvailable(row)
  <2>1. r = [kind |-> "dense", typeMap |-> row.typeMap, storage |-> [x \in Column |-> At(row, x)]]
    BY <1>2 DEF Widened, Dense
  <2>2. \A x \in Column : At(row, x) = Reads(row, x) /\ Reads(row, x) \in Entry
    BY AtIs, ReadsEntries
  <2>3. row.typeMap \in Nat
    BY DEF FitRow, DenseRow, SparseRow
  <2>4. r \in DenseRow /\ r.kind = "dense" /\ \A x \in Column : r.storage[x] = At(row, x)
    BY <2>1, <2>2, <2>3 DEF DenseRow
  <2>5. r \notin SparseRow
    BY <2>4 DEF SparseRow
  <2>6. \A y \in Column : Reads(r, y) = Reads(row, y)
    BY <2>2, <2>4 DEF Reads
  <2>7. QED
    BY <2>1, <2>4, <2>5, <2>6 DEF FitRow
<1>3. QED
  BY <1>1, <1>2

-----------------------------------------------------------------------------
(* Maps *)

(* The maps of a chunk. *)
Map == [Entry -> Block \cup {Nil}]
OneEach(m) == \A i, j \in Entry : m[i] = m[j] /\ m[i] # Nil => i = j

LEMMA EntriesIn ==
    ASSUME NEW m, NEW t
    PROVE  /\ Entries(m, t) \in SUBSET Nat /\ Entries(m, t) \subseteq Entry
           /\ Entries(m, t) # {} => First(Entries(m, t)) \in Entry /\ m[First(Entries(m, t))] = t
<1>1. Entries(m, t) \in SUBSET Nat /\ Entries(m, t) \subseteq Entry
  BY Numbers DEF Entries
<1>2. Entries(m, t) # {} => First(Entries(m, t)) \in Entries(m, t)
  BY <1>1, FirstIs
<1>3. QED
  BY <1>1, <1>2 DEF Entries

(* A map has an entry for each type: there are more entries than other       *)
(* types, and no type has two.                                               *)
LEMMA MapHasRoom ==
    ASSUME NEW m \in Map, OneEach(m), NEW b \in Block
    PROVE  Entries(m, b) # {} \/ Entries(m, Nil) # {}
<1>1. SUFFICES ASSUME Entries(m, b) = {}, Entries(m, Nil) = {} PROVE FALSE
  OBVIOUS
<1>2. \A i \in Entry : m[i] \in Block \ {b} /\ m[i] # Nil
  BY <1>1 DEF Entries, Map
<1>3. m \in [Entry -> Block \ {b}]
  BY <1>2 DEF Map
<1>4. IsFiniteSet(Block \ {b}) /\ Cardinality(Block \ {b}) = NumTypes
  <2>1. /\ IsFiniteSet(Block \ {b})
        /\ Cardinality(Block \ {b}) = IF b \in Block THEN Cardinality(Block) - 1
                                      ELSE Cardinality(Block)
    BY Numbers, FS_RemoveElement
  <2>2. NumTypes \in Nat /\ Cardinality(Block) = NumTypes + 1
    BY Numbers
  <2>3. QED
    BY <2>1, <2>2
<1>5. IsFiniteSet(Entry) /\ Cardinality(Block \ {b}) < Cardinality(Entry)
  BY <1>4, Numbers
<1>6. PICK i, j \in Entry : i # j /\ m[i] = m[j]
  BY <1>3, <1>4, <1>5, FS_PigeonHole
<1>7. QED
  BY <1>2, <1>6 DEF OneEach

LEMMA EntryForIs ==
    ASSUME NEW m \in Map, OneEach(m), NEW b \in Block
    PROVE  /\ EntryFor(m, b) # {}
           /\ \A v \in EntryFor(m, b) :
                LET n == [m EXCEPT ![v] = b]
                IN /\ v \in Entry /\ n \in Map /\ OneEach(n) /\ n[v] = b
                   /\ \A i \in Entry : m[i] # Nil => n[i] = m[i]
<1>1. EntryFor(m, b) # {}
  BY MapHasRoom DEF EntryFor
<1>2. ASSUME NEW v \in EntryFor(m, b)
      PROVE  LET n == [m EXCEPT ![v] = b]
             IN /\ v \in Entry /\ n \in Map /\ OneEach(n) /\ n[v] = b
                /\ \A i \in Entry : m[i] # Nil => n[i] = m[i]
  <2> DEFINE n == [m EXCEPT ![v] = b]
  <2>1. v \in Entry /\ (m[v] = b \/ (m[v] = Nil /\ Entries(m, b) = {}))
    <3>1. CASE Entries(m, b) # {}
      BY <1>2, <3>1, EntriesIn DEF EntryFor
    <3>2. CASE Entries(m, b) = {} /\ Entries(m, Nil) # {}
      BY <1>2, <3>2, EntriesIn DEF EntryFor
    <3>3. QED
      BY <3>1, <3>2, MapHasRoom
  <2>2. \A i \in Entry : n[i] = IF i = v THEN b ELSE m[i]
    BY DEF Map
  <2>3. n \in Map
    BY DEF Map
  <2> HIDE DEF n
  <2>4. \A i \in Entry : m[i] # Nil => n[i] = m[i]
    BY <2>1, <2>2
  <2>5. OneEach(n)
    <3>1. CASE m[v] = b
      <4>1. \A i \in Entry : n[i] = m[i]
        BY <2>2, <3>1
      <4>2. QED
        BY <4>1 DEF OneEach
    <3>2. CASE m[v] = Nil /\ Entries(m, b) = {}
      <4>1. \A i \in Entry : m[i] # b
        BY <3>2 DEF Entries
      <4>2. QED
        BY <2>2, <4>1 DEF OneEach
    <3>3. QED
      BY <2>1, <3>1, <3>2
  <2>6. QED
    BY <2>1, <2>2, <2>3, <2>4, <2>5 DEF n
<1>3. QED
  BY <1>1, <1>2

(* The map that is made for the types of a row. *)
LEMMA NewMapIs ==
    ASSUME NEW types \in SUBSET Block
    PROVE  /\ NewMap(types) \in Map /\ OneEach(NewMap(types))
           /\ \A t \in types : Entries(NewMap(types), t) # {}
<1> DEFINE m == NewMap(types)
           k == Cardinality(types)
<1>1. types \in SUBSET Nat /\ IsFiniteSet(types) /\ k <= Cardinality(Block) /\ k \in Nat
  <2>1. IsFiniteSet(types) /\ k <= Cardinality(Block)
    BY Numbers, FS_Subset
  <2>2. QED
    BY <2>1, Numbers, FS_CardinalityType
<1>2. \A i \in Entry : i \in Nat /\ (i < k => i \in 0..(k - 1))
  <2>1. \A i \in Entry : i \in Nat
    BY Numbers
  <2> HIDE DEF k
  <2>2. QED
    BY <1>1, <2>1
<1>3. \A i \in Entry : m[i] = IF i < k THEN Nth(types, i) ELSE Nil
  BY DEF NewMap
<1>4. \A i \in 0..(k - 1) : Nth(types, i) \in types
  BY <1>1, NthIs
<1>5. m \in Map
  <2>1. m = [i \in Entry |-> IF i < k THEN Nth(types, i) ELSE Nil]
    BY DEF NewMap
  <2> HIDE DEF k, m
  <2>2. \A i \in Entry : (IF i < k THEN Nth(types, i) ELSE Nil) \in Block \cup {Nil}
    BY <1>2, <1>4
  <2>3. QED
    BY <2>1, <2>2 DEF Map
<1> HIDE DEF k, m
<1>6. OneEach(m)
  <2>1. ASSUME NEW i \in Entry, NEW j \in Entry, m[i] = m[j], m[i] # Nil PROVE i = j
    <3>1. i < k /\ j < k
      BY <1>3, <2>1
    <3>2. i \in 0..(k - 1) /\ j \in 0..(k - 1) /\ Nth(types, i) = Nth(types, j)
      BY <1>2, <1>3, <2>1, <3>1
    <3>3. i < j => Nth(types, i) < Nth(types, j)
      BY <1>1, <3>2, NthIs DEF k
    <3>4. j < i => Nth(types, j) < Nth(types, i)
      BY <1>1, <3>2, NthIs DEF k
    <3>5. Nth(types, i) \in Nat /\ Nth(types, j) \in Nat /\ i \in Nat /\ j \in Nat
      BY <1>1, <1>2, <1>4, <3>2
    <3>6. QED
      BY <3>2, <3>3, <3>4, <3>5
  <2>2. QED
    BY <2>1 DEF OneEach
<1>7. ASSUME NEW t \in types PROVE Entries(m, t) # {}
  <2>1. PICK n : n = Rank(types, t)
    OBVIOUS
  <2>2. n \in 0..(k - 1) /\ Nth(types, n) = t
    BY <1>1, <2>1, NthIs DEF k
  <2>3. n \in Entry /\ n < k
    <3>1. /\ MapSize \in Nat /\ NumTypes \in Nat /\ MapSize > NumTypes
          /\ Cardinality(Block) = NumTypes + 1
      BY Numbers
    <3>2. QED
      BY <1>1, <2>2, <3>1 DEF Entry
  <2>4. m[n] = t
    BY <1>3, <2>2, <2>3
  <2>5. QED
    BY <2>3, <2>4 DEF Entries
<1>8. QED
  BY <1>5, <1>6, <1>7 DEF m

LEMMA ValueOfIs ==
    ASSUME NEW m, NEW t
    PROVE  ValueOf(m, t) \in Entry /\ (Entries(m, t) # {} => m[ValueOf(m, t)] = t)
  BY EntriesIn, Numbers DEF ValueOf

(* What one step after the other makes of a value. *)
Chained(g, S, a, n, f) ==
    g \in [0..n -> S] /\ g[0] = a /\ \A i \in 1..n : g[i] = f[<<g[i - 1], i>>]

LEMMA Chain ==
    ASSUME NEW S, NEW a \in S, NEW n \in Nat, NEW f \in [S \X (1..n) -> S]
    PROVE  \E g : Chained(g, S, a, n, f)
<1> DEFINE Good(g, d) == /\ g \in [0..n -> S] /\ g[0] = a
                         /\ \A i \in 1..n : i <= d => g[i] = f[<<g[i - 1], i>>]
           H == {d \in 0..n : \E g : Good(g, d)}
<1>1. 0 \in H
  <2>1. [i \in 0..n |-> a] \in [0..n -> S] /\ [i \in 0..n |-> a][0] = a
    OBVIOUS
  <2>2. \A i \in 1..n : ~(i <= 0)
    OBVIOUS
  <2>3. Good([i \in 0..n |-> a], 0)
    BY <2>1, <2>2
  <2> HIDE DEF Good
  <2>4. QED
    BY <2>3
<1>2. ASSUME NEW d \in 0..n, d > 0, d - 1 \in H PROVE d \in H
  <2>1. PICK g : Good(g, d - 1)
    BY <1>2
  <2> DEFINE h == [i \in 0..n |-> IF i = d THEN f[<<g[d - 1], d>>] ELSE g[i]]
  <2>2. d - 1 \in 0..n /\ d \in 1..n /\ d \in Nat /\ d # 0
    BY <1>2
  <2>3. g[d - 1] \in S
    BY <2>1, <2>2
  <2>4. f[<<g[d - 1], d>>] \in S
    BY <2>2, <2>3
  <2>5. h \in [0..n -> S]
    BY <2>1, <2>4
  <2>6. h[0] = a
    BY <2>1, <2>2
  <2>7. ASSUME NEW i \in 1..n, i <= d PROVE h[i] = f[<<h[i - 1], i>>]
    <3>1. i \in 0..n /\ i - 1 \in 0..n /\ i \in Nat /\ i - 1 # d
      BY <2>2, <2>7
    <3>2. h[i - 1] = g[i - 1]
      BY <3>1
    <3>3. CASE i = d
      BY <3>1, <3>2, <3>3
    <3>4. CASE i # d
      <4>1. h[i] = g[i] /\ i <= d - 1
        BY <2>2, <2>7, <3>1, <3>4
      <4>2. QED
        BY <2>1, <3>2, <4>1
    <3>5. QED
      BY <3>3, <3>4
  <2> HIDE DEF h
  <2>8. Good(h, d)
    BY <2>5, <2>6, <2>7
  <2> HIDE DEF Good
  <2>9. QED
    BY <2>8
<1>3. H = 0..n
  <2>1. H \in SUBSET (0..n)
    OBVIOUS
  <2> HIDE DEF H
  <2>2. QED
    BY <1>1, <1>2, <2>1, UpTo
<1>4. PICK g : Good(g, n)
  <2>1. n \in 0..n
    OBVIOUS
  <2> HIDE DEF Good
  <2>2. QED
    BY <1>3, <2>1
<1>5. \A i \in 1..n : i <= n
  OBVIOUS
<1>6. Chained(g, S, a, n, f)
  BY <1>4, <1>5 DEF Chained
<1>7. QED
  BY <1>6

-----------------------------------------------------------------------------
(* Rows of a chunk, and a row filled from cells *)

LEMMA ColumnsBelow ==
    ASSUME NEW n \in 1..Width
    PROVE  /\ n - 1 \in Column /\ n \in Nat /\ n # 0 /\ n \in 0..Width /\ n - 1 \in 0..Width
           /\ \A x \in Column : x < n <=> (x < n - 1 \/ x = n - 1)
<1>1. Width \in Nat
  BY Numbers
<1>2. QED
  BY <1>1 DEF Column

(* The blocks of a row are put into it one after the other. *)
LEMMA FilledUnfolds ==
    ASSUME NEW row, FitRow(row), NEW m, NEW cells
    PROVE  \E g : /\ FilledRow(row, m, cells) = g[Width] /\ g[0] = row
                  /\ \A n \in 1..Width : g[n] = Put(g[n - 1], n - 1, ValueOf(m, cells[n - 1]))
<1> DEFINE S == {r \in DenseRow \cup SparseRow : FitRow(r)}
           f == [q \in S \X (1..Width) |->
                    Put(q[1], q[2] - 1, ValueOf(m, cells[q[2] - 1]))]
           P(h) == h = [n \in 0..Width |->
                          IF n = 0 THEN row
                          ELSE Put(h[n - 1], n - 1, ValueOf(m, cells[n - 1]))]
<1>1. row \in S
  BY DEF FitRow
<1>2. f \in [S \X (1..Width) -> S]
  <2>1. ASSUME NEW q \in S \X (1..Width)
        PROVE  Put(q[1], q[2] - 1, ValueOf(m, cells[q[2] - 1])) \in S
    <3>1. PICK r \in S, n \in 1..Width : q = <<r, n>>
      OBVIOUS
    <3>2. FitRow(r) /\ n - 1 \in Column /\ ValueOf(m, cells[n - 1]) \in Entry
      BY ColumnsBelow, ValueOfIs
    <3>3. FitRow(Put(r, n - 1, ValueOf(m, cells[n - 1])))
      BY <3>2, PutIs
    <3>4. Put(r, n - 1, ValueOf(m, cells[n - 1])) \in S
      BY <3>3 DEF FitRow
    <3>5. q[1] = r /\ q[2] = n
      BY <3>1
    <3>6. QED
      BY <3>4, <3>5
  <2> HIDE DEF S
  <2>2. QED
    BY <2>1
<1>3. \E g : Chained(g, S, row, Width, f)
  <2>1. Width \in Nat
    BY Numbers
  <2> HIDE DEF S, f
  <2>2. QED
    BY <1>1, <1>2, <2>1, Chain
<1>4. PICK g \in [0..Width -> S] :
        g[0] = row /\ \A i \in 1..Width : g[i] = f[<<g[i - 1], i>>]
  <2> HIDE DEF S, f
  <2>1. QED
    BY <1>3 DEF Chained
<1>5. \A n \in 1..Width : g[n] = Put(g[n - 1], n - 1, ValueOf(m, cells[n - 1]))
  <2>1. TAKE n \in 1..Width
  <2>2. g[n - 1] \in S
    BY ColumnsBelow
  <2> HIDE DEF S
  <2>3. <<g[n - 1], n>> \in S \X (1..Width) /\ <<g[n - 1], n>>[1] = g[n - 1]
        /\ <<g[n - 1], n>>[2] = n
    BY <2>2
  <2>4. f[<<g[n - 1], n>>] = Put(g[n - 1], n - 1, ValueOf(m, cells[n - 1]))
    BY <2>3
  <2>5. QED
    BY <1>4, <2>4
<1>6. P(g)
  <2>1. \A n \in 0..Width : n # 0 => n \in 1..Width
    BY Numbers
  <2>2. g = [n \in 0..Width |-> g[n]]
    OBVIOUS
  <2>3. \A n \in 0..Width : g[n] = IF n = 0 THEN row
                                   ELSE Put(g[n - 1], n - 1, ValueOf(m, cells[n - 1]))
    BY <1>4, <1>5, <2>1
  <2> HIDE DEF f, S
  <2>4. QED
    BY <2>2, <2>3
<1> DEFINE p == CHOOSE h : P(h)
<1>7. P(p)
  <2> HIDE DEF P
  <2>1. QED
    BY <1>6
<1>8. FilledRow(row, m, cells) = p[Width]
  BY DEF FilledRow
<1> HIDE DEF p
<1>9. p[0] = row /\ \A n \in 1..Width : p[n] = Put(p[n - 1], n - 1, ValueOf(m, cells[n - 1]))
  <2>1. 0 \in 0..Width
    BY Numbers
  <2>2. \A n \in 1..Width : n \in 0..Width /\ n # 0
    BY ColumnsBelow
  <2>3. QED
    BY <1>7, <2>1, <2>2
<1>10. QED
  BY <1>8, <1>9

LEMMA FilledIs ==
    ASSUME NEW row, FitRow(row), NEW m, NEW cells, NEW r, r = FilledRow(row, m, cells)
    PROVE  /\ FitRow(r) /\ r.typeMap = row.typeMap
           /\ \A x \in Column : Reads(r, x) = ValueOf(m, cells[x])
           /\ row \in DenseRow => r \in DenseRow
           /\ row \in SparseRow => r \in SparseRow /\ r.defaultBlockId = row.defaultBlockId
<1>1. PICK g : /\ r = g[Width] /\ g[0] = row
               /\ \A n \in 1..Width : g[n] = Put(g[n - 1], n - 1, ValueOf(m, cells[n - 1]))
  BY FilledUnfolds
<1> DEFINE Right(q, n) ==
             /\ FitRow(q) /\ q.typeMap = row.typeMap
             /\ \A x \in Column : x < n => Reads(q, x) = ValueOf(m, cells[x])
             /\ row \in DenseRow => q \in DenseRow
             /\ row \in SparseRow => q \in SparseRow /\ q.defaultBlockId = row.defaultBlockId
           H == {n \in 0..Width : Right(g[n], n)}
<1>2. Width \in Nat /\ 0 \in 0..Width /\ Width \in 0..Width
  BY Numbers
<1>3. 0 \in H
  <2>1. \A x \in Column : ~(x < 0)
    BY DEF Column
  <2>2. Right(row, 0)
    BY <2>1
  <2> HIDE DEF Right
  <2>3. QED
    BY <1>1, <1>2, <2>2
<1>4. ASSUME NEW n \in 0..Width, n > 0, n - 1 \in H PROVE n \in H
  <2>1. n \in 1..Width
    BY <1>2, <1>4
  <2>2. PICK q : q = g[n - 1]
    OBVIOUS
  <2>3. PICK v : v = ValueOf(m, cells[n - 1])
    OBVIOUS
  <2>4. Right(q, n - 1)
    <3> HIDE DEF Right
    <3>1. QED
      BY <1>4, <2>2
  <2>5. g[n] = Put(q, n - 1, v) /\ n - 1 \in Column /\ v \in Entry
    BY <1>1, <2>1, <2>2, <2>3, ColumnsBelow, ValueOfIs
  <2>6. PICK z : z = Put(q, n - 1, v)
    OBVIOUS
  <2>7. /\ FitRow(z) /\ z.typeMap = q.typeMap
        /\ \A y \in Column : Reads(z, y) = IF y = n - 1 THEN v ELSE Reads(q, y)
        /\ q \in DenseRow => z \in DenseRow
        /\ q \in SparseRow => z \in SparseRow /\ z.defaultBlockId = q.defaultBlockId
    BY <2>4, <2>5, <2>6, PutIs
  <2>8. \A x \in Column : x < n => Reads(z, x) = ValueOf(m, cells[x])
    <3>1. \A x \in Column : x < n => x < n - 1 \/ x = n - 1
      BY <2>1, ColumnsBelow
    <3>2. QED
      BY <2>3, <2>4, <2>7, <3>1
  <2>9. Right(z, n)
    BY <2>4, <2>7, <2>8
  <2> HIDE DEF Right
  <2>10. QED
    BY <2>5, <2>6, <2>9
<1>5. H = 0..Width
  <2>1. H \in SUBSET (0..Width)
    OBVIOUS
  <2> HIDE DEF H
  <2>2. QED
    BY <1>2, <1>3, <1>4, <2>1, UpTo
<1>6. Right(r, Width)
  <2> HIDE DEF Right
  <2>1. QED
    BY <1>1, <1>2, <1>5
<1>7. \A x \in Column : x < Width
  BY <1>2 DEF Column
<1>8. QED
  BY <1>6, <1>7

(* The rows of a chunk with maps ms. *)
GoodMaps(ms) == ms \in Seq(Map) /\ \A k \in DOMAIN ms : OneEach(ms[k])

GoodRow(row, ms) ==
    /\ FitRow(row) /\ row.typeMap \in 0..(Len(ms) - 1)
    /\ row \in SparseRow => InOrder(row.storage) /\ Len(row.storage) <= MaxEntries
    /\ \A x \in Column : ms[row.typeMap + 1][Reads(row, x)] # Nil

GoodRows(rs, ms) ==
    /\ rs \in [Place -> {Null} \cup DenseRow \cup SparseRow]
    /\ \A p \in Place : rs[p] = Null \/ GoodRow(rs[p], ms)

(* The block that a row has at a column. *)
Shown(row, ms, x) ==
    IF row.kind = "null" THEN Air ELSE ms[row.typeMap + 1][Reads(row, x)]

(* Maps that have what others have, and possibly more. *)
Extends(ms, ns) ==
    /\ Len(ms) <= Len(ns)
    /\ \A k \in DOMAIN ms : \A i \in Entry : ms[k][i] # Nil => ns[k][i] = ms[k][i]

LEMMA MapOf ==
    ASSUME NEW ms, GoodMaps(ms)
    PROVE  /\ Len(ms) \in Nat /\ DOMAIN ms = 1..Len(ms)
           /\ \A k \in DOMAIN ms : ms[k] \in Map /\ OneEach(ms[k])
           /\ \A k \in 0..(Len(ms) - 1) : k + 1 \in DOMAIN ms /\ k \in Nat
<1>1. Len(ms) \in Nat /\ DOMAIN ms = 1..Len(ms)
  BY LenProperties DEF GoodMaps
<1>2. \A k \in DOMAIN ms : ms[k] \in Map /\ OneEach(ms[k])
  BY <1>1, ElementOfSeq DEF GoodMaps
<1>3. \A k \in 0..(Len(ms) - 1) : k + 1 \in DOMAIN ms /\ k \in Nat
  BY <1>1
<1>4. QED
  BY <1>1, <1>2, <1>3

(* What a row shows does not depend on what is added to the maps. *)
LEMMA ShownStays ==
    ASSUME NEW ms, NEW ns, GoodMaps(ms), GoodMaps(ns), Extends(ms, ns),
           NEW row, row = Null \/ GoodRow(row, ms)
    PROVE  /\ row = Null \/ GoodRow(row, ns)
           /\ \A x \in Column : Shown(row, ns, x) = Shown(row, ms, x)
<1>1. CASE row = Null
  BY <1>1 DEF Null, Shown
<1>2. CASE GoodRow(row, ms)
  <2>1. /\ FitRow(row) /\ row.typeMap \in 0..(Len(ms) - 1)
        /\ row \in SparseRow => InOrder(row.storage) /\ Len(row.storage) <= MaxEntries
        /\ \A x \in Column : ms[row.typeMap + 1][Reads(row, x)] # Nil
    BY <1>2 DEF GoodRow
  <2>2. row.kind # "null"
    BY <2>1 DEF FitRow, DenseRow, SparseRow
  <2>3. row.typeMap + 1 \in DOMAIN ms
    BY <2>1, MapOf
  <2>4. ASSUME NEW x \in Column
        PROVE  ns[row.typeMap + 1][Reads(row, x)] = ms[row.typeMap + 1][Reads(row, x)]
    <3>1. Reads(row, x) \in Entry
      BY <2>1, ReadsEntries
    <3>2. QED
      BY <2>1, <2>3, <3>1 DEF Extends
  <2>5. row.typeMap \in 0..(Len(ns) - 1)
    <3>1. Len(ms) \in Nat /\ Len(ns) \in Nat /\ Len(ms) <= Len(ns)
      BY MapOf DEF Extends
    <3>2. QED
      BY <2>1, <3>1
  <2>6. GoodRow(row, ns)
    BY <2>1, <2>4, <2>5 DEF GoodRow
  <2>7. QED
    BY <2>2, <2>4, <2>6 DEF Shown
<1>3. QED
  BY <1>1, <1>2

-----------------------------------------------------------------------------
(* A row is loaded *)

LEMMA Greatest ==
    ASSUME NEW n \in Nat, NEW S \in SUBSET (0..n), S # {}
    PROVE  \E x \in S : \A y \in S : x >= y
<1> DEFINE W == {k \in 0..n : n - k \in S}
<1>1. W \in SUBSET Nat
  OBVIOUS
<1>2. \A y \in S : y \in 0..n /\ n - y \in 0..n /\ n - (n - y) = y
  OBVIOUS
<1>3. \A y \in S : n - y \in W
  BY <1>2
<1>4. W # {}
  BY <1>3
<1> HIDE DEF W
<1>5. PICK k \in W : \A j \in W : k <= j
  BY <1>1, <1>4, Least
<1>6. k \in 0..n /\ n - k \in S
  BY DEF W
<1>7. \A y \in S : n - k >= y
  <2>1. TAKE y \in S
  <2>2. k <= n - y
    BY <1>3, <1>5
  <2>3. y \in 0..n
    BY <1>2
  <2>4. QED
    BY <1>6, <2>2, <2>3
<1>8. QED
  BY <1>6, <1>7

LEMMA TypesAre ==
    ASSUME NEW cells \in [Column -> Block]
    PROVE  /\ Types(cells) \in SUBSET Block /\ Types(cells) # {} /\ Types(cells) \in SUBSET Nat
           /\ \A x \in Column : cells[x] \in Types(cells) /\ cells[x] \in Block
<1>1. \A x \in Column : cells[x] \in Types(cells) /\ cells[x] \in Block
  BY DEF Types
<1>2. 0 \in Column /\ Block \subseteq Nat
  BY Numbers
<1>3. QED
  BY <1>1, <1>2 DEF Types

(* A row whose most frequent type is left out needs few entries. *)
LEMMA OthersAreFew ==
    ASSUME NEW cells \in [Column -> Block], NEW t \in Frequent(cells)
    PROVE  /\ IsFiniteSet({x \in Column : cells[x] # t})
           /\ Cardinality({x \in Column : cells[x] # t}) <= MaxEntries
           /\ Cardinality({x \in Column : cells[x] # t}) \in Nat
<1> DEFINE A == {x \in Column : cells[x] = t}
           B == {x \in Column : cells[x] # t}
<1>1. A \in SUBSET Column /\ Column \ A = B /\ Column \cap A = A /\ B \in SUBSET Column
  OBVIOUS
<1>2. Cardinality(A) >= Width - MaxEntries
  BY DEF Frequent, Frequency
<1> HIDE DEF A, B
<1>3. IsFiniteSet(A) /\ Cardinality(A) \in Nat /\ IsFiniteSet(B) /\ Cardinality(B) \in Nat
  BY <1>1, Numbers, FS_Subset, FS_CardinalityType
<1>4. Cardinality(Column \ A) = Cardinality(Column) - Cardinality(Column \cap A)
  BY Numbers, FS_Difference
<1>5. Cardinality(B) = Width - Cardinality(A)
  BY <1>1, <1>4, Numbers
<1>6. Width \in Nat /\ MaxEntries \in Nat
  <2>1. Width \in Nat /\ MaxEntries \in 1..Width
    BY Numbers
  <2>2. QED
    BY <2>1
<1>7. Cardinality(B) <= MaxEntries
  BY <1>2, <1>3, <1>5, <1>6
<1>8. QED
  BY <1>3, <1>7 DEF B

LEMMA NoEntries ==
    /\ <<>> \in Seq(Column \X Entry) /\ Distinct(<<>>) /\ ToSet(<<>>) = {}
    /\ InOrder(<<>>) /\ Len(<<>>) = 0 /\ Columns(<<>>) = {}
  BY DEF Distinct, ToSet, InOrder, Columns

LEMMA NewRowIs ==
    ASSUME NEW id \in Nat \ {0}, NEW m, NEW cells
    PROVE  LET r == NewRow(id, m, cells)
           IN /\ FitRow(r) /\ r.typeMap = id - 1
              /\ r \in SparseRow =>
                    /\ Frequent(cells) # {}
                    /\ r.defaultBlockId = ValueOf(m, First(Frequent(cells)))
<1> DEFINE r == NewRow(id, m, cells)
           v == ValueOf(m, First(Frequent(cells)))
<1>1. CASE Frequent(cells) = {}
  <2>1. r = [kind |-> "dense", typeMap |-> id - 1, storage |-> [x \in Column |-> 0]]
    BY <1>1 DEF NewRow, Dense
  <2>2. r \in DenseRow /\ r.kind = "dense" /\ r.typeMap = id - 1
    BY <2>1, Numbers DEF DenseRow
  <2>3. r \notin SparseRow
    BY <2>2 DEF SparseRow
  <2>4. QED
    BY <2>2, <2>3 DEF FitRow
<1>2. CASE Frequent(cells) # {}
  <2>1. r = [kind |-> "sparse", typeMap |-> id - 1, defaultBlockId |-> v, storage |-> <<>>]
    BY <1>2 DEF NewRow, Sparse
  <2>2. v \in Entry
    BY ValueOfIs
  <2> HIDE DEF v, r
  <2>3. r \in SparseRow /\ r.typeMap = id - 1 /\ r.defaultBlockId = v /\ r.storage = <<>>
    BY <2>1, <2>2, NoEntries DEF SparseRow
  <2>4. FitRow(r)
    BY <2>3, NoEntries DEF FitRow
  <2>5. QED
    BY <1>2, <2>3, <2>4 DEF v, r
<1>3. QED
  BY <1>1, <1>2

(* The row that is loaded for cells, with a map that has their types. *)
LEMMA LoadedRowIs ==
    ASSUME NEW ms, GoodMaps(ms), NEW id \in DOMAIN ms, NEW cells \in [Column -> Block],
           \A t \in Types(cells) : Entries(ms[id], t) # {},
           NEW r, r = Prepared(FilledRow(NewRow(id, ms[id], cells), ms[id], cells))
    PROVE  GoodRow(r, ms) /\ \A x \in Column : Shown(r, ms, x) = cells[x]
<1> DEFINE m == ms[id]
           a == NewRow(id, m, cells)
           b == FilledRow(a, m, cells)
<1>1. id \in Nat \ {0} /\ id - 1 \in 0..(Len(ms) - 1) /\ (id - 1) + 1 = id
  <2>1. Len(ms) \in Nat /\ DOMAIN ms = 1..Len(ms)
    BY MapOf
  <2>2. id \in 1..Len(ms)
    BY <2>1
  <2>3. QED
    BY <2>1, <2>2
<1> HIDE DEF m
<1>2. /\ FitRow(a) /\ a.typeMap = id - 1
      /\ a \in SparseRow => /\ Frequent(cells) # {}
                            /\ a.defaultBlockId = ValueOf(m, First(Frequent(cells)))
  BY <1>1, NewRowIs
<1> HIDE DEF a
<1>3. /\ FitRow(b) /\ b.typeMap = id - 1
      /\ \A x \in Column : Reads(b, x) = ValueOf(m, cells[x])
      /\ a \in DenseRow => b \in DenseRow
      /\ a \in SparseRow => b \in SparseRow /\ b.defaultBlockId = a.defaultBlockId
  BY <1>2, FilledIs
<1> HIDE DEF b
<1>4. r = Prepared(b)
  BY DEF a, b, m
<1>5. /\ FitRow(r) /\ r.typeMap = id - 1
      /\ \A x \in Column : Reads(r, x) = ValueOf(m, cells[x])
      /\ b \in DenseRow => r \in DenseRow
      /\ b \in SparseRow => r \in SparseRow /\ Len(r.storage) = Len(b.storage) /\ InOrder(r.storage)
  BY <1>3, <1>4, PreparedIs
<1>6. \A x \in Column : m[Reads(r, x)] = cells[x] /\ cells[x] \in Block
  <2>1. \A x \in Column : cells[x] \in Types(cells) /\ cells[x] \in Block
    BY TypesAre
  <2>2. \A t \in Types(cells) : m[ValueOf(m, t)] = t
    BY ValueOfIs DEF m
  <2>3. QED
    BY <1>5, <2>1, <2>2
<1>7. ASSUME r \in SparseRow PROVE InOrder(r.storage) /\ Len(r.storage) <= MaxEntries
  <2>1. r \notin DenseRow
    BY <1>7 DEF SparseRow, DenseRow
  <2>2. a \in SparseRow /\ b \in SparseRow /\ b \notin DenseRow
    BY <1>2, <1>3, <1>5, <2>1 DEF FitRow
  <2>3. PICK t : t = First(Frequent(cells))
    OBVIOUS
  <2>4. t \in Frequent(cells) /\ b.defaultBlockId = ValueOf(m, t)
    <3>1. Frequent(cells) \in SUBSET Nat
      BY TypesAre DEF Frequent
    <3>2. QED
      BY <1>2, <1>3, <2>2, <2>3, <3>1, FirstIs
  <2>5. b.storage \in Seq(Column \X Entry) /\ Distinct(b.storage)
    BY <1>3, <2>2 DEF FitRow, SparseRow
  <2> DEFINE B == {x \in Column : cells[x] # t}
  <2>6. Columns(b.storage) \subseteq B
    <3>1. SUFFICES ASSUME NEW x \in Columns(b.storage) PROVE x \in B
      OBVIOUS
    <3>2. x \in Column
      BY <2>5, EntriesOf
    <3>3. Reads(b, x) # b.defaultBlockId
      BY <1>3, <2>2, <3>2, ReadsEntries
    <3>4. cells[x] # t
      BY <1>3, <2>4, <3>2, <3>3
    <3>5. QED
      BY <3>2, <3>4
  <2>7. IsFiniteSet(B) /\ Cardinality(B) <= MaxEntries /\ Cardinality(B) \in Nat
    BY <2>4, OthersAreFew
  <2> HIDE DEF B
  <2>8. Cardinality(Columns(b.storage)) <= Cardinality(B)
    BY <2>6, <2>7, FS_Subset
  <2>9. Cardinality(Columns(b.storage)) = Len(b.storage) /\ Len(b.storage) \in Nat
    BY <2>5, EntriesAreColumns, LenProperties
  <2>10. MaxEntries \in Nat
    <3>1. Width \in Nat /\ MaxEntries \in 1..Width
      BY Numbers
    <3>2. QED
      BY <3>1
  <2>11. Len(b.storage) <= MaxEntries
    BY <2>7, <2>8, <2>9, <2>10
  <2>12. QED
    BY <1>5, <2>2, <2>11
<1>8. r.kind # "null"
  BY <1>5 DEF FitRow, DenseRow, SparseRow
<1>9. ms[r.typeMap + 1] = m
  BY <1>1, <1>5 DEF m
<1>10. Nil \notin Block
  BY Numbers
<1>11. GoodRow(r, ms)
  BY <1>1, <1>5, <1>6, <1>7, <1>9, <1>10 DEF GoodRow
<1>12. QED
  BY <1>6, <1>8, <1>9, <1>11 DEF Shown

(* The maps that a row is loaded with, and the one that it takes. *)
LEMMA ExtendsItself ==
    ASSUME NEW ms, GoodMaps(ms)
    PROVE  Extends(ms, ms)
  BY MapOf DEF Extends

LEMMA MapAdded ==
    ASSUME NEW ms, GoodMaps(ms), NEW m \in Map, OneEach(m), NEW ns, ns = Append(ms, m)
    PROVE  /\ GoodMaps(ns) /\ Extends(ms, ns) /\ Len(ns) \in DOMAIN ns /\ ns[Len(ns)] = m
<1>1. ms \in Seq(Map) /\ Len(ms) \in Nat /\ DOMAIN ms = 1..Len(ms)
  BY MapOf DEF GoodMaps
<1>2. /\ ns \in Seq(Map) /\ Len(ns) = Len(ms) + 1 /\ \A i \in 1..Len(ms) : ns[i] = ms[i]
      /\ ns[Len(ms) + 1] = m
  BY <1>1, AppendHolds
<1>3. DOMAIN ns = 1..(Len(ms) + 1)
  BY <1>2, LenProperties
<1>4. \A k \in DOMAIN ns : OneEach(ns[k])
  <2>1. \A k \in DOMAIN ns : k \in DOMAIN ms \/ k = Len(ms) + 1
    BY <1>1, <1>3
  <2>2. QED
    BY <1>1, <1>2, <2>1, MapOf
<1>5. Extends(ms, ns)
  BY <1>1, <1>2 DEF Extends
<1>6. Len(ms) + 1 \in DOMAIN ns
  BY <1>1, <1>3
<1>7. QED
  BY <1>2, <1>4, <1>5, <1>6 DEF GoodMaps

-----------------------------------------------------------------------------
(* A chunk is loaded *)

ChunkState == [maps : Seq(Map), rows : [Place -> {Null} \cup DenseRow \cup SparseRow]]

GoodState(c) == c \in ChunkState /\ GoodMaps(c.maps) /\ GoodRows(c.rows, c.maps)

(* processSliceRow loads a row, adds to the maps at most, and leaves the     *)
(* other rows alone.                                                         *)
LEMMA ProcessedIs ==
    ASSUME NEW saved \in [Place -> [Column -> Block]], NEW c, GoodState(c), NEW p \in Place,
           NEW d, d = ProcessSliceRow(saved, c, p)
    PROVE  /\ GoodState(d) /\ Extends(c.maps, d.maps)
           /\ \A q \in Place : q # p => d.rows[q] = c.rows[q]
           /\ c.rows[p] = Null => \A x \in Column : Shown(d.rows[p], d.maps, x) = saved[p][x]
<1> DEFINE cells == saved[p]
           fit == Suitable(c.maps, Types(cells))
           ms == IF fit = {} THEN Append(c.maps, NewMap(Types(cells))) ELSE c.maps
           id == IF fit = {} THEN Len(ms) ELSE CHOOSE i \in fit : \A j \in fit : i >= j
           row == FilledRow(NewRow(id, ms[id], cells), ms[id], cells)
           r == Prepared(row)
<1>1. cells \in [Column -> Block]
  OBVIOUS
<1>2. /\ c \in ChunkState /\ GoodMaps(c.maps) /\ GoodRows(c.rows, c.maps)
      /\ c = [maps |-> c.maps, rows |-> c.rows]
      /\ c.rows \in [Place -> {Null} \cup DenseRow \cup SparseRow]
      /\ \A q \in Place : c.rows[q] = Null \/ GoodRow(c.rows[q], c.maps)
  BY DEF GoodState, ChunkState, GoodRows
<1>3. d = IF Types(cells) = {Air} THEN c
          ELSE [maps |-> ms, rows |-> [c.rows EXCEPT ![p] = r]]
  BY DEF ProcessSliceRow
<1>4. CASE Types(cells) = {Air}
  <2>1. d = c
    BY <1>3, <1>4
  <2>2. \A x \in Column : cells[x] = Air
    BY <1>1, <1>4, TypesAre
  <2>3. ASSUME c.rows[p] = Null, NEW x \in Column PROVE Shown(d.rows[p], d.maps, x) = cells[x]
    BY <2>1, <2>2, <2>3 DEF Shown, Null
  <2>4. Extends(c.maps, d.maps)
    BY <1>2, <2>1, ExtendsItself
  <2>5. QED
    BY <2>1, <2>3, <2>4
<1>5. CASE Types(cells) # {Air}
  <2>1. /\ GoodMaps(ms) /\ Extends(c.maps, ms) /\ id \in DOMAIN ms
        /\ \A t \in Types(cells) : Entries(ms[id], t) # {}
    <3>1. CASE fit = {}
      <4> DEFINE m == NewMap(Types(cells))
      <4>1. ms = Append(c.maps, m) /\ id = Len(ms)
        BY <3>1
      <4>2. m \in Map /\ OneEach(m) /\ \A t \in Types(cells) : Entries(m, t) # {}
        BY <1>1, TypesAre, NewMapIs
      <4> HIDE DEF ms, id, m
      <4>3. GoodMaps(ms) /\ Extends(c.maps, ms) /\ Len(ms) \in DOMAIN ms /\ ms[Len(ms)] = m
        BY <1>2, <4>1, <4>2, MapAdded
      <4>4. QED
        BY <4>1, <4>2, <4>3
    <3>2. CASE fit # {}
      <4>1. ms = c.maps /\ id = CHOOSE i \in fit : \A j \in fit : i >= j
        BY <3>2
      <4>2. Len(c.maps) \in Nat /\ DOMAIN c.maps = 1..Len(c.maps)
        BY <1>2, MapOf
      <4>3. fit \in SUBSET (0..Len(c.maps))
        BY <4>2 DEF Suitable
      <4>4. \E i \in fit : \A j \in fit : i >= j
        <5> HIDE DEF fit
        <5>1. QED
          BY <3>2, <4>2, <4>3, Greatest
      <4>5. id \in fit
        <5> HIDE DEF fit, id
        <5>1. QED
          BY <4>1, <4>4
      <4> HIDE DEF id
      <4>6. id \in DOMAIN c.maps /\ \A t \in Types(cells) : Entries(c.maps[id], t) # {}
        BY <4>5 DEF Suitable
      <4> HIDE DEF ms
      <4>7. QED
        BY <1>2, <4>1, <4>6, ExtendsItself
    <3>3. QED
      BY <3>1, <3>2
  <2> HIDE DEF ms, id
  <2>2. GoodRow(r, ms) /\ \A x \in Column : Shown(r, ms, x) = cells[x]
    <3> HIDE DEF cells
    <3>1. QED
      BY <1>1, <2>1, LoadedRowIs
  <2> HIDE DEF r
  <2>3. d = [maps |-> ms, rows |-> [c.rows EXCEPT ![p] = r]]
    BY <1>3, <1>5
  <2>4. r \in DenseRow \cup SparseRow
    BY <2>2 DEF GoodRow, FitRow
  <2>5. d.maps = ms /\ d.rows = [c.rows EXCEPT ![p] = r]
    BY <2>3
  <2>6. /\ d.rows \in [Place -> {Null} \cup DenseRow \cup SparseRow]
        /\ \A q \in Place : d.rows[q] = IF q = p THEN r ELSE c.rows[q]
    BY <1>2, <2>4, <2>5
  <2>7. \A q \in Place : d.rows[q] = Null \/ GoodRow(d.rows[q], ms)
    <3>1. TAKE q \in Place
    <3>2. CASE q = p
      BY <2>2, <2>6, <3>2
    <3>3. CASE q # p
      BY <1>2, <2>1, <2>6, <3>3, ShownStays
    <3>4. QED
      BY <3>2, <3>3
  <2>8. d \in ChunkState
    BY <2>1, <2>3, <2>5, <2>6 DEF ChunkState, GoodMaps
  <2>9. GoodState(d)
    BY <2>1, <2>5, <2>6, <2>7, <2>8 DEF GoodState, GoodRows
  <2>10. d.rows[p] = r
    BY <2>6
  <2>11. QED
    BY <2>1, <2>2, <2>5, <2>6, <2>9, <2>10
<1>6. QED
  BY <1>4, <1>5

(* Every place of the chunk comes once in an order. *)
LEMMA OrdersAre ==
    ASSUME NEW o \in LoadOrders
    PROVE  /\ Len(o) \in Nat /\ DOMAIN o = 1..Len(o)
           /\ \A i \in 1..Len(o) : o[i] \in Place
           /\ \A i, j \in 1..Len(o) : o[i] = o[j] => i = j
           /\ \A p \in Place : \E i \in 1..Len(o) : o[i] = p
<1> DEFINE n == NumSlices * NumRows
           A == 0..(NumSlices - 1)
           B == 0..(NumRows - 1)
<1>1. NumSlices \in Nat \ {0} /\ NumRows \in Nat \ {0}
  BY Numbers
<1>2. n \in Nat
  BY <1>1
<1>3. o \in [1..n -> Place] /\ \A i, j \in DOMAIN o : o[i] = o[j] => i = j
  BY DEF LoadOrders
<1>4. DOMAIN o = 1..n
  BY <1>3
<1>5. IsFiniteSet(A) /\ Cardinality(A) = NumSlices /\ IsFiniteSet(B) /\ Cardinality(B) = NumRows
  <2>1. /\ 0 \in Int /\ NumSlices - 1 \in Int /\ ~(0 > NumSlices - 1)
        /\ NumSlices - 1 - 0 + 1 = NumSlices
    BY <1>1
  <2>2. /\ NumRows - 1 \in Int /\ ~(0 > NumRows - 1) /\ NumRows - 1 - 0 + 1 = NumRows
    BY <1>1
  <2>3. IsFiniteSet(A) /\ Cardinality(A) = NumSlices
    BY <2>1, FS_Interval
  <2>4. IsFiniteSet(B) /\ Cardinality(B) = NumRows
    BY <2>1, <2>2, FS_Interval
  <2>5. QED
    BY <2>3, <2>4
<1>6. IsFiniteSet(Place) /\ Cardinality(Place) = n
  <2>1. Place = A \X B
    BY DEF Place
  <2> HIDE DEF A, B
  <2>2. QED
    BY <1>5, <2>1, FS_Product
<1> HIDE DEF n
<1>7. IsFiniteSet(1..n) /\ Cardinality(1..n) = n
  <2>1. IsFiniteSet(1..n) /\ Cardinality(1..n) = IF 1 > n THEN 0 ELSE n - 1 + 1
    BY <1>2, FS_Interval
  <2>2. QED
    BY <1>2, <2>1
<1>8. o \in Injection(1..n, Place)
  BY <1>3, <1>4, Fun_IsInj
<1>9. o \in Surjection(1..n, Place)
  BY <1>6, <1>7, <1>8, FS_Injection
<1>10. \A p \in Place : \E i \in 1..n : o[i] = p
  <2>1. PICK D, f : D = 1..n /\ f = o
    OBVIOUS
  <2>2. f \in Surjection(D, Place)
    BY <1>9, <2>1
  <2>3. \A p \in Place : \E i \in D : f[i] = p
    BY <2>2, Fun_SurjectionProperties
  <2>4. QED
    BY <2>1, <2>3
<1>11. o \in Seq(Place)
  BY <1>2, <1>3, SeqDef
<1>12. Len(o) = n
  <2>1. Len(o) \in Nat /\ DOMAIN o = 1..Len(o)
    BY <1>11, LenProperties
  <2>2. QED
    BY <1>2, <1>4, <2>1
<1>13. QED
  BY <1>2, <1>3, <1>4, <1>10, <1>12

NoRows == [maps |-> <<>>, rows |-> [p \in Place |-> Null]]

LEMMA NoRowsAreGood == GoodState(NoRows)
<1>1. <<>> \in Seq(Map) /\ DOMAIN <<>> = {}
  OBVIOUS
<1>2. NoRows \in ChunkState /\ NoRows.maps = <<>> /\ NoRows.rows = [p \in Place |-> Null]
  BY <1>1 DEF NoRows, ChunkState
<1>3. GoodMaps(<<>>)
  BY <1>1 DEF GoodMaps
<1>4. GoodRows([p \in Place |-> Null], <<>>)
  BY DEF GoodRows
<1>5. QED
  BY <1>2, <1>3, <1>4 DEF GoodState

(* A chunk is loaded one row after the other. *)
LEMMA LoadedUnfolds ==
    ASSUME NEW saved \in [Place -> [Column -> Block]], NEW o \in LoadOrders
    PROVE  \E g : /\ Loaded(saved, o) = g[Len(o)] /\ g[0] = NoRows
                  /\ \A n \in 1..Len(o) : g[n] = ProcessSliceRow(saved, g[n - 1], o[n])
<1> DEFINE k == Len(o)
           S == {c \in ChunkState : GoodState(c)}
           f == [q \in S \X (1..k) |-> ProcessSliceRow(saved, q[1], o[q[2]])]
           P(h) == h = [n \in 0..k |->
                          IF n = 0 THEN NoRows ELSE ProcessSliceRow(saved, h[n - 1], o[n])]
<1>1. NoRows \in S
  BY NoRowsAreGood DEF GoodState
<1>2. k \in Nat /\ \A n \in 1..k : o[n] \in Place
  BY OrdersAre
<1>3. f \in [S \X (1..k) -> S]
  <2>1. ASSUME NEW q \in S \X (1..k) PROVE ProcessSliceRow(saved, q[1], o[q[2]]) \in S
    <3>1. PICK c \in S, n \in 1..k : q = <<c, n>>
      OBVIOUS
    <3>2. GoodState(ProcessSliceRow(saved, c, o[n]))
      BY <1>2, ProcessedIs
    <3>3. ProcessSliceRow(saved, c, o[n]) \in S
      BY <3>2 DEF GoodState
    <3>4. q[1] = c /\ q[2] = n
      BY <3>1
    <3>5. QED
      BY <3>3, <3>4
  <2> HIDE DEF S, k
  <2>2. QED
    BY <2>1
<1>4. \E g : Chained(g, S, NoRows, k, f)
  <2> HIDE DEF S, f, k
  <2>1. QED
    BY <1>1, <1>2, <1>3, Chain
<1>5. PICK g \in [0..k -> S] :
        g[0] = NoRows /\ \A i \in 1..k : g[i] = f[<<g[i - 1], i>>]
  <2> HIDE DEF S, f, k
  <2>1. QED
    BY <1>4 DEF Chained
<1> HIDE DEF k
<1>6. \A n \in 1..k : n \in 0..k /\ n - 1 \in 0..k /\ n # 0
  BY <1>2
<1>7. \A n \in 1..k : g[n] = ProcessSliceRow(saved, g[n - 1], o[n])
  <2>1. TAKE n \in 1..k
  <2>2. g[n - 1] \in S
    BY <1>6
  <2> HIDE DEF S
  <2>3. <<g[n - 1], n>> \in S \X (1..k) /\ <<g[n - 1], n>>[1] = g[n - 1]
        /\ <<g[n - 1], n>>[2] = n
    BY <2>2
  <2>4. f[<<g[n - 1], n>>] = ProcessSliceRow(saved, g[n - 1], o[n])
    BY <2>3
  <2>5. QED
    BY <1>5, <2>4
<1>8. P(g)
  <2>1. \A n \in 0..k : n # 0 => n \in 1..k
    BY <1>2
  <2>2. g = [n \in 0..k |-> g[n]]
    OBVIOUS
  <2>3. \A n \in 0..k : g[n] = IF n = 0 THEN NoRows
                               ELSE ProcessSliceRow(saved, g[n - 1], o[n])
    BY <1>5, <1>7, <2>1
  <2> HIDE DEF f, S
  <2>4. QED
    BY <2>2, <2>3
<1> DEFINE p == CHOOSE h : P(h)
<1>9. P(p)
  <2> HIDE DEF P
  <2>1. QED
    BY <1>8
<1>10. Loaded(saved, o) = p[k]
  BY DEF Loaded, NoRows, k
<1> HIDE DEF p
<1>11. p[0] = NoRows /\ \A n \in 1..k : p[n] = ProcessSliceRow(saved, p[n - 1], o[n])
  <2>1. 0 \in 0..k
    BY <1>2
  <2>2. QED
    BY <1>6, <1>9, <2>1
<1>12. QED
  BY <1>10, <1>11 DEF k

(* Whatever the order of its slices, a chunk is loaded as it was saved. *)
LEMMA LoadedIs ==
    ASSUME NEW saved \in [Place -> [Column -> Block]], NEW o \in LoadOrders,
           NEW c, c = Loaded(saved, o)
    PROVE  /\ GoodState(c)
           /\ \A p \in Place, x \in Column : Shown(c.rows[p], c.maps, x) = saved[p][x]
<1>1. PICK g : /\ c = g[Len(o)] /\ g[0] = NoRows
               /\ \A n \in 1..Len(o) : g[n] = ProcessSliceRow(saved, g[n - 1], o[n])
  BY LoadedUnfolds
<1>2. PICK k : k = Len(o)
  OBVIOUS
<1>3. /\ k \in Nat /\ \A i \in 1..k : o[i] \in Place
      /\ \A i, j \in 1..k : o[i] = o[j] => i = j
      /\ \A p \in Place : \E i \in 1..k : o[i] = p
  BY <1>2, OrdersAre
<1> DEFINE Done(q, n) ==
             /\ GoodState(q)
             /\ \A i \in 1..k : i <= n =>
                  \A x \in Column : Shown(q.rows[o[i]], q.maps, x) = saved[o[i]][x]
             /\ \A i \in 1..k : i > n => q.rows[o[i]] = Null
           H == {n \in 0..k : Done(g[n], n)}
<1>4. 0 \in H
  <2>1. \A i \in 1..k : ~(i <= 0)
    BY <1>3
  <2>2. \A i \in 1..k : NoRows.rows[o[i]] = Null
    BY <1>3 DEF NoRows
  <2>3. Done(NoRows, 0)
    BY <2>1, <2>2, NoRowsAreGood
  <2> HIDE DEF Done
  <2>4. 0 \in 0..k
    BY <1>3
  <2>5. QED
    BY <1>1, <2>3, <2>4
<1>5. ASSUME NEW n \in 0..k, n > 0, n - 1 \in H PROVE n \in H
  <2>1. n \in 1..k /\ n \in Nat
    BY <1>3, <1>5
  <2>2. PICK q : q = g[n - 1]
    OBVIOUS
  <2>3. Done(q, n - 1)
    <3> HIDE DEF Done
    <3>1. QED
      BY <1>5, <2>2
  <2>4. PICK d : d = ProcessSliceRow(saved, q, o[n])
    OBVIOUS
  <2>5. g[n] = d
    BY <1>1, <1>2, <2>1, <2>2, <2>4
  <2>6. PICK p \in Place : p = o[n]
    BY <1>3, <2>1
  <2>7. q.rows[p] = Null
    BY <2>1, <2>3, <2>6
  <2>8. /\ GoodState(d) /\ Extends(q.maps, d.maps)
        /\ \A z \in Place : z # p => d.rows[z] = q.rows[z]
        /\ \A x \in Column : Shown(d.rows[p], d.maps, x) = saved[p][x]
    BY <2>3, <2>4, <2>6, <2>7, ProcessedIs
  <2>9. ASSUME NEW i \in 1..k, i # n PROVE o[i] \in Place /\ d.rows[o[i]] = q.rows[o[i]]
    BY <1>3, <2>1, <2>6, <2>8, <2>9
  <2>10. \A z \in Place : q.rows[z] = Null \/ GoodRow(q.rows[z], q.maps)
    BY <2>3 DEF GoodState, GoodRows
  <2>11. GoodMaps(q.maps) /\ GoodMaps(d.maps)
    BY <2>3, <2>8 DEF GoodState
  <2>12. ASSUME NEW i \in 1..k, i <= n, NEW x \in Column
         PROVE  Shown(d.rows[o[i]], d.maps, x) = saved[o[i]][x]
    <3>1. CASE i = n
      BY <2>6, <2>8, <3>1
    <3>2. CASE i # n
      <4>1. i <= n - 1
        BY <1>3, <2>1, <2>12, <3>2
      <4>2. Shown(q.rows[o[i]], q.maps, x) = saved[o[i]][x]
        BY <2>3, <4>1
      <4>3. d.rows[o[i]] = q.rows[o[i]] /\ (q.rows[o[i]] = Null \/ GoodRow(q.rows[o[i]], q.maps))
        BY <2>9, <2>10, <3>2
      <4>4. Shown(q.rows[o[i]], d.maps, x) = Shown(q.rows[o[i]], q.maps, x)
        <5>1. PICK row, ms, ns : row = q.rows[o[i]] /\ ms = q.maps /\ ns = d.maps
          OBVIOUS
        <5>2. /\ GoodMaps(ms) /\ GoodMaps(ns) /\ Extends(ms, ns)
              /\ row = Null \/ GoodRow(row, ms)
          BY <2>8, <2>11, <4>3, <5>1
        <5>3. Shown(row, ns, x) = Shown(row, ms, x)
          BY <5>2, ShownStays
        <5>4. QED
          BY <5>1, <5>3
      <4>5. QED
        BY <4>2, <4>3, <4>4
    <3>3. QED
      BY <3>1, <3>2
  <2>13. ASSUME NEW i \in 1..k, i > n PROVE d.rows[o[i]] = Null
    <3>1. i # n /\ i > n - 1
      BY <1>3, <2>1, <2>13
    <3>2. QED
      BY <2>3, <2>9, <3>1
  <2>14. Done(d, n)
    BY <2>8, <2>12, <2>13
  <2> HIDE DEF Done
  <2>15. QED
    BY <2>5, <2>14
<1>6. H = 0..k
  <2>1. H \in SUBSET (0..k)
    OBVIOUS
  <2> HIDE DEF H
  <2>2. QED
    BY <1>3, <1>4, <1>5, <2>1, UpTo
<1>7. Done(c, k)
  <2>1. k \in 0..k
    BY <1>3
  <2> HIDE DEF Done
  <2>2. QED
    BY <1>1, <1>2, <1>6, <2>1
<1>8. \A i \in 1..k : i <= k
  BY <1>3
<1>9. QED
  BY <1>3, <1>7, <1>8

-----------------------------------------------------------------------------
(* A chunk is generated *)

(* The map that the generator makes. *)
LEMMA GeneratedMapIs ==
    /\ GeneratedMap \in Map /\ OneEach(GeneratedMap)
    /\ GeneratedMap[0] = Air /\ GeneratedMap[Stone] = Stone
    /\ GeneratedMap[NumGenerated] = NumGenerated
<1> DEFINE m == GeneratedMap
<1>1. /\ Entry \subseteq Nat /\ 0 \in Entry /\ Stone \in Entry /\ NumGenerated \in Entry
      /\ Air \in Block
  BY Numbers
<1>2. NumGenerated \in 1..2 /\ NumTypes \in Nat /\ NumGenerated <= NumTypes
  <2>1. NumTypes \in Nat \ {0}
    BY Numbers
  <2>2. QED
    BY <2>1, ChunkDataAssumption
<1>3. \A i \in Entry : m[i] = IF i = 0 THEN Air ELSE IF i <= NumGenerated THEN i ELSE Nil
  BY DEF GeneratedMap
<1>4. \A i \in Entry : i # 0 /\ i <= NumGenerated => i \in Block /\ i # Air
  BY <1>1, <1>2 DEF Block, Air
<1>5. m \in Map
  <2>1. \A i \in Entry :
          (IF i = 0 THEN Air ELSE IF i <= NumGenerated THEN i ELSE Nil) \in Block \cup {Nil}
    BY <1>1, <1>4
  <2>2. QED
    BY <2>1 DEF Map, GeneratedMap
<1> HIDE DEF m
<1>6. OneEach(m)
  <2>1. ASSUME NEW i \in Entry, NEW j \in Entry, m[i] = m[j], m[i] # Nil PROVE i = j
    <3>1. CASE i = 0
      <4>1. m[i] = Air
        BY <1>3, <3>1
      <4>2. QED
        BY <1>3, <1>4, <2>1, <3>1, <4>1
    <3>2. CASE i # 0
      <4>1. m[i] = i /\ i # Air
        BY <1>3, <1>4, <2>1, <3>2
      <4>2. QED
        BY <1>3, <1>4, <2>1, <4>1
    <3>3. QED
      BY <3>1, <3>2
  <2>2. QED
    BY <2>1 DEF OneEach
<1>7. m[0] = Air /\ m[Stone] = Stone /\ m[NumGenerated] = NumGenerated
  BY <1>1, <1>2, <1>3 DEF Stone
<1>8. QED
  BY <1>5, <1>6, <1>7 DEF m

OneMap == <<GeneratedMap>>

LEMMA OneMapIs ==
    GoodMaps(OneMap) /\ Len(OneMap) = 1 /\ OneMap[1] = GeneratedMap
<1>1. OneMap \in Seq(Map)
  BY GeneratedMapIs DEF OneMap
<1>2. Len(OneMap) = 1 /\ OneMap[1] = GeneratedMap /\ DOMAIN OneMap = {1}
  BY DEF OneMap
<1>3. QED
  BY <1>1, <1>2, GeneratedMapIs DEF GoodMaps

(* The row of a slice with dirt at some columns. *)
LEMMA FillSliceIs ==
    ASSUME NEW dirt \in SUBSET Column, NEW r, r = FillSlice(dirt)
    PROVE  /\ r = Null \/ GoodRow(r, OneMap)
           /\ \A x \in Column : Shown(r, OneMap, x) = IF x \in dirt THEN NumGenerated ELSE Air
<1> DEFINE k == Cardinality(dirt)
           t == [j \in 1..k |-> <<Nth(dirt, j - 1), NumGenerated>>]
<1>1. IsFiniteSet(dirt) /\ k \in Nat /\ dirt \in SUBSET Nat
  BY Numbers, FS_Subset, FS_CardinalityType
<1>2. NumGenerated \in Entry /\ NumGenerated # 0 /\ 0 \in Entry
  <2>1. NumGenerated \in 1..2
    BY ChunkDataAssumption
  <2>2. QED
    BY <2>1, Numbers
<1>3. GeneratedMap[0] = Air /\ GeneratedMap[NumGenerated] = NumGenerated
      /\ Air # Nil /\ NumGenerated # Nil
  BY GeneratedMapIs, Numbers
<1>4. CASE dirt = {}
  <2>1. r = Null
    BY <1>4 DEF FillSlice
  <2>2. QED
    BY <1>4, <2>1 DEF Shown, Null
<1>5. CASE dirt # {} /\ k < MaxEntries
  <2>1. r = [kind |-> "sparse", typeMap |-> 0, defaultBlockId |-> 0, storage |-> t]
    BY <1>5 DEF FillSlice, Sparse
  <2> HIDE DEF k
  <2>2. \A j \in 1..k : j - 1 \in 0..(k - 1)
    BY <1>1
  <2>3. \A j \in 1..k : Nth(dirt, j - 1) \in dirt
    BY <1>1, <2>2, NthIs DEF k
  <2>4. \A j \in 1..k : t[j] = <<Nth(dirt, j - 1), NumGenerated>> /\ t[j] \in Column \X Entry
    BY <1>2, <2>3
  <2>5. t \in Seq(Column \X Entry) /\ DOMAIN t = 1..k
    <3>1. t \in [1..k -> Column \X Entry]
      BY <2>4
    <3> HIDE DEF t
    <3>2. QED
      BY <1>1, <3>1, SeqDef
  <2> HIDE DEF t
  <2>6. Len(t) = k
    <3>1. Len(t) \in Nat /\ DOMAIN t = 1..Len(t)
      BY <2>5, LenProperties
    <3>2. QED
      BY <1>1, <2>5, <3>1
  <2>7. InOrder(t)
    <3>1. SUFFICES ASSUME NEW i \in DOMAIN t, NEW j \in DOMAIN t, i < j
                   PROVE  t[i][1] < t[j][1]
      BY DEF InOrder
    <3>2. i - 1 < j - 1
      BY <2>5, <3>1
    <3>3. Nth(dirt, i - 1) < Nth(dirt, j - 1)
      BY <1>1, <2>2, <2>5, <3>2, NthIs DEF k
    <3>4. t[i][1] = Nth(dirt, i - 1) /\ t[j][1] = Nth(dirt, j - 1)
      BY <2>4, <2>5
    <3>5. QED
      BY <3>3, <3>4
  <2>8. Distinct(t)
    BY <2>5, <2>7, InOrderDistinct
  <2>9. \A e \in ToSet(t) : e[1] \in dirt /\ e[2] = NumGenerated
    <3>1. TAKE e \in ToSet(t)
    <3>2. PICK j \in 1..k : e = t[j]
      BY <2>5 DEF ToSet
    <3>3. e = <<Nth(dirt, j - 1), NumGenerated>>
      BY <2>4, <3>2
    <3>4. QED
      BY <2>3, <3>3
  <2>10. \A x \in dirt : \E e \in ToSet(t) : e[1] = x
    <3>1. TAKE x \in dirt
    <3>2. PICK n : n = Rank(dirt, x)
      OBVIOUS
    <3>3. n \in 0..(k - 1) /\ Nth(dirt, n) = x
      BY <1>1, <3>2, NthIs DEF k
    <3>4. n + 1 \in 1..k /\ (n + 1) - 1 = n
      BY <1>1, <3>3
    <3>5. t[n + 1] = <<x, NumGenerated>>
      BY <2>4, <3>3, <3>4
    <3>6. t[n + 1] \in ToSet(t)
      BY <2>5, <3>4 DEF ToSet
    <3>7. t[n + 1][1] = x
      BY <3>5
    <3>8. QED
      BY <3>6, <3>7
  <2>11. r \in SparseRow /\ r.storage = t /\ r.defaultBlockId = 0 /\ r.typeMap = 0
         /\ r.kind = "sparse"
    BY <1>2, <2>1, <2>5 DEF SparseRow
  <2>12. FitRow(r)
    BY <1>2, <2>8, <2>9, <2>11 DEF FitRow
  <2>13. ASSUME NEW x \in Column PROVE Reads(r, x) = IF x \in dirt THEN NumGenerated ELSE 0
    <3>1. CASE x \in dirt
      <4>1. PICK e \in ToSet(t) : e[1] = x
        BY <2>10, <3>1
      <4>2. Reads(r, x) = e[2]
        BY <2>8, <2>11, <4>1, ReadsEntry
      <4>3. QED
        BY <2>9, <3>1, <4>2
    <3>2. CASE x \notin dirt
      <4>1. x \notin Columns(t)
        BY <2>9, <3>2 DEF Columns
      <4>2. QED
        BY <2>11, <3>2, <4>1, ReadsDefault
    <3>3. QED
      BY <3>1, <3>2
  <2>14. /\ Len(t) <= MaxEntries /\ r.typeMap \in 0..(Len(OneMap) - 1)
         /\ OneMap[r.typeMap + 1] = GeneratedMap
    <3>1. Width \in Nat /\ MaxEntries \in 1..Width
      BY Numbers
    <3>2. k <= MaxEntries
      BY <1>1, <1>5, <3>1
    <3>3. QED
      BY <2>6, <2>11, <3>2, OneMapIs
  <2>15. GoodRow(r, OneMap)
    BY <1>3, <2>7, <2>11, <2>12, <2>13, <2>14 DEF GoodRow
  <2>16. QED
    BY <1>3, <2>11, <2>13, <2>14, <2>15 DEF Shown
<1>6. CASE dirt # {} /\ ~(k < MaxEntries)
  <2> DEFINE cells == [x \in Column |-> IF x \in dirt THEN NumGenerated ELSE 0]
  <2>1. r = [kind |-> "dense", typeMap |-> 0, storage |-> cells]
    BY <1>6 DEF FillSlice, Dense
  <2>2. cells \in [Column -> Entry]
    BY <1>2
  <2>3. \A x \in Column : cells[x] = IF x \in dirt THEN NumGenerated ELSE 0
    OBVIOUS
  <2> HIDE DEF cells, k
  <2>4. r \in DenseRow /\ r.kind = "dense" /\ r.typeMap = 0 /\ r.storage = cells
    BY <2>1, <2>2 DEF DenseRow
  <2>5. r \notin SparseRow
    BY <2>4 DEF SparseRow
  <2>6. \A x \in Column : Reads(r, x) = IF x \in dirt THEN NumGenerated ELSE 0
    BY <2>3, <2>4 DEF Reads
  <2>7. r.typeMap \in 0..(Len(OneMap) - 1) /\ OneMap[r.typeMap + 1] = GeneratedMap
    BY <2>4, OneMapIs
  <2>8. GoodRow(r, OneMap)
    BY <1>3, <2>4, <2>5, <2>6, <2>7 DEF GoodRow, FitRow
  <2>9. QED
    BY <1>3, <2>4, <2>6, <2>7, <2>8 DEF Shown
<1>7. QED
  BY <1>4, <1>5, <1>6

(* The floor of the terrain. *)
LEMMA FloorIs ==
    ASSUME NEW r, r = Sparse(0, Stone, <<>>)
    PROVE  GoodRow(r, OneMap) /\ \A x \in Column : Shown(r, OneMap, x) = Stone
<1>1. r = [kind |-> "sparse", typeMap |-> 0, defaultBlockId |-> Stone, storage |-> <<>>]
  BY DEF Sparse
<1>2. r \in SparseRow /\ r.storage = <<>> /\ r.defaultBlockId = Stone /\ r.typeMap = 0
      /\ r.kind = "sparse"
  <2>1. Stone \in Entry
    BY Numbers
  <2>2. PICK v, s : v = Stone /\ s = <<>>
    OBVIOUS
  <2>3. v \in Entry /\ s \in Seq(Column \X Entry)
    BY <2>1, <2>2, NoEntries
  <2>4. r = [kind |-> "sparse", typeMap |-> 0, defaultBlockId |-> v, storage |-> s]
    BY <1>1, <2>2
  <2>5. r \in SparseRow /\ r.storage = s /\ r.defaultBlockId = v
    BY <2>3, <2>4 DEF SparseRow
  <2>6. QED
    BY <2>2, <2>4, <2>5
<1>3. FitRow(r)
  BY <1>2, NoEntries DEF FitRow
<1>4. \A x \in Column : Reads(r, x) = Stone
  BY <1>2, NoEntries, ReadsDefault
<1>5. r.typeMap \in 0..(Len(OneMap) - 1) /\ OneMap[r.typeMap + 1] = GeneratedMap
  BY <1>2, OneMapIs
<1>6. GeneratedMap[Stone] = Stone /\ Stone # Nil
  BY GeneratedMapIs DEF Stone, Nil
<1>7. Len(r.storage) <= MaxEntries
  <2>1. Width \in Nat /\ MaxEntries \in 1..Width
    BY Numbers
  <2>2. QED
    BY <1>2, <2>1, NoEntries
<1>8. GoodRow(r, OneMap)
  BY <1>2, <1>3, <1>4, <1>5, <1>6, <1>7, NoEntries DEF GoodRow
<1>9. QED
  BY <1>2, <1>4, <1>5, <1>6, <1>8 DEF Shown

(* A chunk that is generated shows the terrain. *)
LEMMA GeneratedIs ==
    ASSUME NEW noise \in SUBSET {c \in Place \X Column : c[1][1] > 0}
    PROVE  /\ GoodRows(Generated(noise), OneMap)
           /\ \A p \in Place, x \in Column :
                Shown(Generated(noise)[p], OneMap, x) =
                    IF p[1] = 0 THEN Stone ELSE IF <<p, x>> \in noise THEN NumGenerated ELSE Air
<1> DEFINE dirt(p) == {x \in Column : <<p, x>> \in noise}
           r(p) == IF p[1] = 0 THEN Sparse(0, Stone, <<>>) ELSE FillSlice(dirt(p))
           g == Generated(noise)
<1>1. g = [p \in Place |-> r(p)]
  BY DEF Generated
<1>2. ASSUME NEW p \in Place
      PROVE  /\ r(p) = Null \/ GoodRow(r(p), OneMap)
             /\ \A x \in Column : Shown(r(p), OneMap, x) =
                  IF p[1] = 0 THEN Stone ELSE IF <<p, x>> \in noise THEN NumGenerated ELSE Air
  <2>1. CASE p[1] = 0
    <3>1. r(p) = Sparse(0, Stone, <<>>)
      BY <2>1
    <3>2. PICK q : q = r(p)
      OBVIOUS
    <3> HIDE DEF r
    <3>3. GoodRow(q, OneMap) /\ \A x \in Column : Shown(q, OneMap, x) = Stone
      BY <3>1, <3>2, FloorIs
    <3>4. QED
      BY <2>1, <3>2, <3>3
  <2>2. CASE p[1] # 0
    <3>1. r(p) = FillSlice(dirt(p)) /\ dirt(p) \in SUBSET Column
      BY <2>2
    <3>2. PICK q : q = r(p)
      OBVIOUS
    <3>3. \A x \in Column : x \in dirt(p) <=> <<p, x>> \in noise
      OBVIOUS
    <3> HIDE DEF r, dirt
    <3>4. /\ q = Null \/ GoodRow(q, OneMap)
          /\ \A x \in Column : Shown(q, OneMap, x) = IF x \in dirt(p) THEN NumGenerated ELSE Air
      BY <3>1, <3>2, FillSliceIs
    <3>5. QED
      BY <2>2, <3>2, <3>3, <3>4
  <2>3. QED
    BY <2>1, <2>2
<1> HIDE DEF r, g
<1>3. \A p \in Place : g[p] = r(p)
  BY <1>1
<1>4. \A p \in Place : g[p] = Null \/ GoodRow(g[p], OneMap)
  BY <1>2, <1>3
<1>5. g \in [Place -> {Null} \cup DenseRow \cup SparseRow]
  <2>1. \A p \in Place : r(p) \in {Null} \cup DenseRow \cup SparseRow
    BY <1>2 DEF GoodRow, FitRow
  <2>2. QED
    BY <1>1, <2>1
<1>6. GoodRows(g, OneMap)
  BY <1>4, <1>5 DEF GoodRows
<1>7. QED
  BY <1>2, <1>3, <1>6 DEF g

-----------------------------------------------------------------------------
(* A block is set *)

(* The inductive invariant: the maps and the rows fit each other. *)
ChunkIInv ==
    /\ GoodMaps(maps) /\ GoodRows(rows, maps)
    /\ file = NoFile \/ file \in [Place -> [Column -> Block]]
    /\ solid \in SUBSET {c \in Place \X Column : c[1][1] > 0}
    /\ unsaved \in 0..MaxUnsaved
    /\ fault \in {"none", "no map", "no air"}

LEMMA RowsAre ==
    ASSUME NEW ms, NEW rs, GoodMaps(ms), GoodRows(rs, ms), NEW p \in Place
    PROVE  /\ rs[p].kind = "null" <=> rs[p] = Null
           /\ rs[p] # Null => /\ GoodRow(rs[p], ms) /\ FitRow(rs[p])
                              /\ rs[p].typeMap \in 0..(Len(ms) - 1)
                              /\ rs[p].typeMap + 1 \in DOMAIN ms
                              /\ rs[p].kind = "sparse" <=> rs[p] \in SparseRow
<1>1. rs[p] = Null \/ GoodRow(rs[p], ms)
  BY DEF GoodRows
<1>2. Null.kind = "null"
  BY DEF Null
<1>3. GoodRow(rs[p], ms) => /\ rs[p].kind \in {"dense", "sparse"}
                            /\ rs[p].kind = "sparse" <=> rs[p] \in SparseRow
                            /\ FitRow(rs[p]) /\ rs[p].typeMap \in 0..(Len(ms) - 1)
  BY DEF GoodRow, FitRow, DenseRow, SparseRow
<1>4. \A k \in 0..(Len(ms) - 1) : k + 1 \in DOMAIN ms
  BY MapOf
<1>5. QED
  BY <1>1, <1>2, <1>3, <1>4

(* getBlock gives what a row shows: the search finds each entry. *)
LEMMA ShownIs ==
    ASSUME NEW ms, NEW rs, GoodMaps(ms), GoodRows(rs, ms), NEW p \in Place, NEW x \in Column
    PROVE  /\ Shown(rs[p], ms, x) = IF rs[p].kind = "null" THEN Air
                                    ELSE ms[rs[p].typeMap + 1][At(rs[p], x)]
           /\ Shown(rs[p], ms, x) \in Block
<1>1. CASE rs[p].kind = "null"
  BY <1>1, Numbers DEF Shown
<1>2. CASE rs[p].kind # "null"
  <2>1. PICK r : r = rs[p]
    OBVIOUS
  <2>2. GoodRow(r, ms) /\ FitRow(r) /\ r.typeMap + 1 \in DOMAIN ms
    BY <1>2, <2>1, RowsAre
  <2>3. At(r, x) = Reads(r, x)
    BY <2>2, AtIs DEF GoodRow
  <2>4. Reads(r, x) \in Entry
    BY <2>2, ReadsEntries
  <2>5. ms[r.typeMap + 1] \in Map
    BY <2>2, MapOf
  <2>6. ms[r.typeMap + 1][Reads(r, x)] \in Block
    BY <2>2, <2>4, <2>5 DEF GoodRow, Map
  <2>7. QED
    BY <1>2, <2>1, <2>3, <2>6 DEF Shown
<1>3. QED
  BY <1>1, <1>2

(* A block is set: the row's map gets its type, and the row, which is made   *)
(* full of air if there was none, shows it and what it showed before.        *)
RowSetting(ms, rs, p, x, b, m, v, map, row, ns, r) ==
    /\ m = (IF rs[p].kind = "null" THEN 0 ELSE rs[p].typeMap) /\ m < Len(ms)
    /\ v \in EntryFor(ms[m + 1], b)
    /\ map = [ms[m + 1] EXCEPT ![v] = b] /\ Entries(map, Air) # {}
    /\ row = IF rs[p].kind = "null" THEN Filled(m, First(Entries(map, Air)))
             ELSE Widened(rs[p])
    /\ ns = [ms EXCEPT ![m + 1] = map]
    /\ r = Prepared(Put(row, x, v))

LEMMA RowSet ==
    ASSUME NEW ms, NEW rs, GoodMaps(ms), GoodRows(rs, ms),
           NEW p \in Place, NEW x \in Column, NEW b \in Block,
           NEW m, NEW v, NEW map, NEW row, NEW ns, NEW r,
           RowSetting(ms, rs, p, x, b, m, v, map, row, ns, r)
    PROVE  /\ GoodMaps(ns) /\ Extends(ms, ns) /\ GoodRow(r, ns)
           /\ \A y \in Column : Shown(r, ns, y) = IF y = x THEN b ELSE Shown(rs[p], ms, y)
<1> USE DEF RowSetting
<1>1. /\ m \in 0..(Len(ms) - 1) /\ m \in Nat /\ m + 1 \in DOMAIN ms
      /\ Len(ms) \in Nat /\ DOMAIN ms = 1..Len(ms) /\ ms[m + 1] \in Map /\ OneEach(ms[m + 1])
  <2>1. Len(ms) \in Nat /\ DOMAIN ms = 1..Len(ms)
    BY MapOf
  <2>2. m \in 0..(Len(ms) - 1)
    <3>1. CASE rs[p].kind = "null"
      BY <2>1, <3>1
    <3>2. CASE rs[p].kind # "null"
      BY <3>2, RowsAre
    <3>3. QED
      BY <3>1, <3>2
  <2>3. m \in Nat /\ m + 1 \in DOMAIN ms
    BY <2>2, MapOf
  <2>4. QED
    BY <2>1, <2>2, <2>3, MapOf
<1>2. /\ v \in Entry /\ map \in Map /\ OneEach(map) /\ map[v] = b
      /\ \A i \in Entry : ms[m + 1][i] # Nil => map[i] = ms[m + 1][i]
  <2>1. PICK n : n = ms[m + 1]
    OBVIOUS
  <2>2. n \in Map /\ OneEach(n) /\ v \in EntryFor(n, b)
    BY <1>1, <2>1
  <2>3. map = [n EXCEPT ![v] = b]
    BY <2>1
  <2> HIDE DEF RowSetting
  <2>4. LET w == [n EXCEPT ![v] = b]
        IN /\ v \in Entry /\ w \in Map /\ OneEach(w) /\ w[v] = b
           /\ \A i \in Entry : n[i] # Nil => w[i] = n[i]
    BY <2>2, EntryForIs
  <2>5. QED
    BY <2>1, <2>3, <2>4
<1>3. ns \in Seq(Map) /\ Len(ns) = Len(ms)
  <2>1. ms \in Seq(Map) /\ m + 1 \in 1..Len(ms)
    BY <1>1 DEF GoodMaps
  <2>2. QED
    BY <1>2, <2>1, ExceptSeq
<1>4. \A k \in DOMAIN ms : ns[k] = IF k = m + 1 THEN map ELSE ms[k]
  OBVIOUS
<1>5. DOMAIN ns = DOMAIN ms
  OBVIOUS
<1>6. GoodMaps(ns)
  <2>1. \A k \in DOMAIN ns : OneEach(ns[k])
    BY <1>2, <1>4, <1>5, MapOf
  <2>2. QED
    BY <1>3, <2>1 DEF GoodMaps
<1>7. Extends(ms, ns)
  <2>1. Len(ms) <= Len(ns)
    BY <1>1, <1>3
  <2>2. \A k \in DOMAIN ms : \A i \in Entry : ms[k][i] # Nil => ns[k][i] = ms[k][i]
    BY <1>2, <1>4
  <2>3. QED
    BY <2>1, <2>2 DEF Extends
<1>8. ns[m + 1] = map
  BY <1>1, <1>4
<1>9. /\ FitRow(row) /\ row.typeMap = m
      /\ row \in SparseRow => Len(row.storage) < MaxEntries
      /\ \A y \in Column : map[Reads(row, y)] = Shown(rs[p], ms, y)
  <2>1. CASE rs[p].kind = "null"
    <3>1. PICK a : a = First(Entries(map, Air))
      OBVIOUS
    <3>2. a \in Entry /\ map[a] = Air
      BY <3>1, EntriesIn
    <3>3. row = [kind |-> "dense", typeMap |-> m, storage |-> [y \in Column |-> a]]
      BY <2>1, <3>1 DEF Filled, Dense
    <3> HIDE DEF RowSetting
    <3>4. row \in DenseRow /\ row.kind = "dense" /\ row.typeMap = m
      <4>1. m \in Nat /\ [y \in Column |-> a] \in [Column -> Entry]
        BY <1>1, <3>2
      <4>2. QED
        BY <3>3, <4>1 DEF DenseRow
    <3>5. \A y \in Column : row.storage[y] = a
      BY <3>3
    <3>6. row \notin SparseRow
      BY <3>4 DEF SparseRow
    <3>7. \A y \in Column : Reads(row, y) = a
      BY <3>4, <3>5 DEF Reads
    <3>8. QED
      BY <2>1, <3>2, <3>4, <3>6, <3>7 DEF FitRow, Shown
  <2>2. CASE rs[p].kind # "null"
    <3>1. PICK q : q = rs[p]
      OBVIOUS
    <3>2. GoodRow(q, ms) /\ FitRow(q) /\ m = q.typeMap /\ row = Widened(q)
      BY <2>2, <3>1, RowsAre
    <3>3. q \in SparseRow => InOrder(q.storage) /\ Len(q.storage) <= MaxEntries
      BY <3>2 DEF GoodRow
    <3>4. /\ FitRow(row) /\ row.typeMap = m
          /\ \A y \in Column : Reads(row, y) = Reads(q, y)
          /\ row \in SparseRow => Len(row.storage) < MaxEntries
      BY <3>2, <3>3, WidenedIs
    <3>5. \A y \in Column : Reads(q, y) \in Entry /\ ms[m + 1][Reads(q, y)] # Nil
      BY <3>2, ReadsEntries DEF GoodRow
    <3>6. \A y \in Column : Shown(q, ms, y) = ms[m + 1][Reads(q, y)]
      BY <2>2, <3>1, <3>2 DEF Shown
    <3>7. \A y \in Column : map[Reads(row, y)] = Shown(rs[p], ms, y)
      <4>1. TAKE y \in Column
      <4>2. Reads(row, y) = Reads(q, y) /\ Shown(rs[p], ms, y) = ms[m + 1][Reads(q, y)]
        BY <3>1, <3>4, <3>6
      <4>3. map[Reads(q, y)] = ms[m + 1][Reads(q, y)]
        BY <1>2, <3>5
      <4>4. QED
        BY <4>2, <4>3
    <3>8. QED
      BY <3>4, <3>7
  <2>3. QED
    BY <2>1, <2>2
<1>10. PICK z : z = Put(row, x, v) /\ r = Prepared(z)
  OBVIOUS
<1> HIDE DEF RowSetting
<1>11. /\ FitRow(z) /\ z.typeMap = m
       /\ \A y \in Column : Reads(z, y) = IF y = x THEN v ELSE Reads(row, y)
       /\ row \in DenseRow => z \in DenseRow
       /\ row \in SparseRow => z \in SparseRow /\ Len(z.storage) <= Len(row.storage) + 1
  <2>1. FitRow(row) /\ v \in Entry /\ row.typeMap = m
    BY <1>2, <1>9
  <2>2. /\ FitRow(z) /\ z.typeMap = row.typeMap
        /\ \A y \in Column : Reads(z, y) = IF y = x THEN v ELSE Reads(row, y)
        /\ row \in DenseRow => z \in DenseRow
        /\ row \in SparseRow => /\ z \in SparseRow /\ z.defaultBlockId = row.defaultBlockId
                                /\ Len(z.storage) <= Len(row.storage) + 1
    BY <1>10, <2>1, PutIs
  <2>3. QED
    BY <2>1, <2>2
<1>12. /\ FitRow(r) /\ r.typeMap = m
       /\ \A y \in Column : Reads(r, y) = Reads(z, y)
       /\ z \in DenseRow => r \in DenseRow
       /\ z \in SparseRow => /\ r \in SparseRow /\ Len(r.storage) = Len(z.storage)
                             /\ InOrder(r.storage)
  BY <1>10, <1>11, PreparedIs
<1>13. ASSUME r \in SparseRow PROVE InOrder(r.storage) /\ Len(r.storage) <= MaxEntries
  <2>1. r \notin DenseRow
    BY <1>13 DEF SparseRow, DenseRow
  <2>2. row \in SparseRow /\ z \in SparseRow
    BY <1>9, <1>11, <1>12, <2>1 DEF FitRow
  <2>3. /\ Len(z.storage) <= Len(row.storage) + 1 /\ Len(row.storage) < MaxEntries
        /\ Len(r.storage) = Len(z.storage) /\ InOrder(r.storage)
    BY <1>9, <1>11, <1>12, <2>2
  <2>4. Len(row.storage) \in Nat /\ Len(z.storage) \in Nat
    BY <2>2, LenProperties DEF SparseRow
  <2>5. MaxEntries \in Nat
    <3>1. Width \in Nat /\ MaxEntries \in 1..Width
      BY Numbers
    <3>2. QED
      BY <3>1
  <2>6. QED
    BY <2>3, <2>4, <2>5
<1>14. \A y \in Column : map[Reads(r, y)] = IF y = x THEN b ELSE Shown(rs[p], ms, y)
  BY <1>2, <1>9, <1>11, <1>12
<1>15. \A y \in Column : map[Reads(r, y)] # Nil
  <2>1. \A y \in Column : Shown(rs[p], ms, y) \in Block
    BY ShownIs
  <2>2. QED
    BY <1>14, <2>1, Numbers
<1>16. r.kind # "null"
  BY <1>12 DEF FitRow, DenseRow, SparseRow
<1>17. GoodRow(r, ns)
  BY <1>1, <1>3, <1>8, <1>12, <1>13, <1>15 DEF GoodRow
<1>18. QED
  BY <1>6, <1>7, <1>8, <1>12, <1>14, <1>16, <1>17 DEF Shown

LEMMA ChunkInit == Init => ChunkIInv
<1> SUFFICES ASSUME Init PROVE ChunkIInv
  OBVIOUS
<1>1. solid \in SUBSET {c \in Place \X Column : c[1][1] > 0} /\ rows = Generated(solid)
      /\ maps = OneMap /\ file = NoFile /\ unsaved = 0 /\ fault = "none"
  BY DEF Init, OneMap
<1>2. GoodMaps(maps) /\ GoodRows(rows, maps)
  BY <1>1, OneMapIs, GeneratedIs
<1>3. 0 \in 0..MaxUnsaved
  BY ChunkDataAssumption
<1>4. QED
  BY <1>1, <1>2, <1>3 DEF ChunkIInv

(* What a step of each action does to a chunk that is as it should be. *)
Stopped ==
    /\ fault' \in {"no map", "no air"}
    /\ UNCHANGED <<rows, maps, file, solid, unsaved>>

BlockIsSet(p, x, b) ==
    /\ GoodMaps(maps') /\ GoodRows(rows', maps') /\ unsaved' \in 0..MaxUnsaved
    /\ fault = "none" /\ UNCHANGED <<file, solid, fault>>
    /\ \A q \in Place, y \in Column :
          Shown(rows'[q], maps', y) =
              IF q = p /\ y = x THEN b ELSE Shown(rows[q], maps, y)

LEMMA SetBlockIs ==
    ASSUME ChunkIInv, NEW p \in Place, NEW x \in Column, NEW b \in Block, SetBlock(p, x, b)
    PROVE  Stopped \/ BlockIsSet(p, x, b)
<1> USE DEF Stopped, BlockIsSet
<1>1. GoodMaps(maps) /\ GoodRows(rows, maps) /\ unsaved \in 0..MaxUnsaved
  BY DEF ChunkIInv
<1>2. PICK m : m = IF rows[p].kind = "null" THEN 0 ELSE rows[p].typeMap
  OBVIOUS
<1>3. CASE m >= Len(maps)
  BY <1>2, <1>3 DEF SetBlock, Fault
<1>4. CASE ~(m >= Len(maps))
  <2>1. m < Len(maps) /\ m + 1 \in DOMAIN maps
    <3>1. Len(maps) \in Nat /\ DOMAIN maps = 1..Len(maps)
      BY <1>1, MapOf
    <3>2. m \in Nat
      <4>1. CASE rows[p].kind = "null"
        BY <1>2, <4>1
      <4>2. CASE rows[p].kind # "null"
        <5>1. rows[p].typeMap \in 0..(Len(maps) - 1)
          BY <1>1, <4>2, RowsAre
        <5>2. QED
          BY <1>2, <3>1, <4>2, <5>1
      <4>3. QED
        BY <4>1, <4>2
    <3>3. QED
      BY <1>4, <3>1, <3>2
  <2>2. EntryFor(maps[m + 1], b) # {}
    BY <1>1, <2>1, MapOf, EntryForIs
  <2>3. PICK v \in EntryFor(maps[m + 1], b) :
          LET map == [maps[m + 1] EXCEPT ![v] = b]
              air == Entries(map, Air)
              row == IF rows[p].kind = "null" THEN Filled(m, First(air)) ELSE Widened(rows[p])
          IN IF air = {} THEN Fault("no air")
             ELSE /\ maps' = [maps EXCEPT ![m + 1] = map]
                  /\ rows' = [rows EXCEPT ![p] = Prepared(Put(row, x, v))]
                  /\ unsaved' = unsaved + 1
                  /\ UNCHANGED <<file, solid, fault>>
    BY <1>2, <1>4, <2>2 DEF SetBlock
  <2>4. PICK map, air, row :
          /\ map = [maps[m + 1] EXCEPT ![v] = b] /\ air = Entries(map, Air)
          /\ row = IF rows[p].kind = "null" THEN Filled(m, First(air)) ELSE Widened(rows[p])
    OBVIOUS
  <2>5. CASE air = {}
    BY <2>3, <2>4, <2>5 DEF Fault
  <2>6. CASE air # {}
    <3>1. /\ maps' = [maps EXCEPT ![m + 1] = map]
          /\ rows' = [rows EXCEPT ![p] = Prepared(Put(row, x, v))]
          /\ unsaved' = unsaved + 1
          /\ UNCHANGED <<file, solid, fault>>
      BY <2>3, <2>4, <2>6
    <3>2. PICK r, ns : r = Prepared(Put(row, x, v)) /\ ns = maps'
      OBVIOUS
    <3>3. /\ GoodMaps(ns) /\ Extends(maps, ns) /\ GoodRow(r, ns)
          /\ \A y \in Column : Shown(r, ns, y) = IF y = x THEN b ELSE Shown(rows[p], maps, y)
      <4>1. ns = [maps EXCEPT ![m + 1] = map] /\ Entries(map, Air) # {}
        BY <2>4, <2>6, <3>1, <3>2
      <4>2. row = IF rows[p].kind = "null" THEN Filled(m, First(Entries(map, Air)))
                  ELSE Widened(rows[p])
        BY <2>4
      <4>3. /\ GoodMaps(maps) /\ GoodRows(rows, maps) /\ m < Len(maps)
            /\ m = IF rows[p].kind = "null" THEN 0 ELSE rows[p].typeMap
            /\ v \in EntryFor(maps[m + 1], b) /\ map = [maps[m + 1] EXCEPT ![v] = b]
            /\ Entries(map, Air) # {} /\ r = Prepared(Put(row, x, v))
        BY <1>1, <1>2, <2>1, <2>4, <2>6, <3>2
      <4>4. RowSetting(maps, rows, p, x, b, m, v, map, row, ns, r)
        BY <4>1, <4>2, <4>3 DEF RowSetting
      <4>5. QED
        BY <4>3, <4>4, RowSet
    <3>4. /\ rows \in [Place -> {Null} \cup DenseRow \cup SparseRow]
          /\ \A q \in Place : rows[q] = Null \/ GoodRow(rows[q], maps)
      BY <1>1 DEF GoodRows
    <3>5. /\ rows' \in [Place -> {Null} \cup DenseRow \cup SparseRow]
          /\ \A q \in Place : rows'[q] = IF q = p THEN r ELSE rows[q]
      <4>1. r \in DenseRow \cup SparseRow
        BY <3>3 DEF GoodRow, FitRow
      <4>2. rows' = [rows EXCEPT ![p] = r]
        BY <3>1, <3>2
      <4>3. QED
        BY <3>4, <4>1, <4>2
    <3>6. ASSUME NEW q \in Place, q # p
          PROVE  /\ rows'[q] = Null \/ GoodRow(rows'[q], ns)
                 /\ \A y \in Column : Shown(rows'[q], ns, y) = Shown(rows[q], maps, y)
      <4>1. PICK row0 : row0 = rows[q]
        OBVIOUS
      <4>2. row0 = Null \/ GoodRow(row0, maps)
        BY <3>4, <4>1
      <4>3. /\ row0 = Null \/ GoodRow(row0, ns)
            /\ \A y \in Column : Shown(row0, ns, y) = Shown(row0, maps, y)
        BY <1>1, <3>3, <4>2, ShownStays
      <4>4. rows'[q] = row0
        BY <3>5, <3>6, <4>1
      <4>5. QED
        BY <4>1, <4>3, <4>4
    <3>7. \A q \in Place : rows'[q] = Null \/ GoodRow(rows'[q], ns)
      BY <3>3, <3>5, <3>6
    <3>8. GoodRows(rows', ns)
      BY <3>5, <3>7 DEF GoodRows
    <3>9. fault = "none" /\ unsaved' \in 0..MaxUnsaved
      <4>1. fault = "none" /\ unsaved < MaxUnsaved
        BY DEF SetBlock
      <4>2. MaxUnsaved \in Nat
        BY ChunkDataAssumption
      <4>3. QED
        BY <1>1, <3>1, <4>1, <4>2
    <3>10. ASSUME NEW q \in Place, NEW y \in Column
           PROVE  Shown(rows'[q], ns, y) = IF q = p /\ y = x THEN b ELSE Shown(rows[q], maps, y)
      <4>1. CASE q = p
        BY <3>3, <3>5, <4>1
      <4>2. CASE q # p
        BY <3>6, <4>2
      <4>3. QED
        BY <4>1, <4>2
    <3>11. QED
      BY <3>1, <3>2, <3>3, <3>8, <3>9, <3>10
  <2>7. QED
    BY <2>5, <2>6
<1>5. QED
  BY <1>3, <1>4

-----------------------------------------------------------------------------
(* The steps of the chunk, and the theorems *)

(* What the next load gives: the file, or the terrain. *)
SavedAt(p, x) ==
    IF file # NoFile THEN file[p][x]
    ELSE IF p[1] = 0 THEN Stone
    ELSE IF <<p, x>> \in solid THEN NumGenerated
    ELSE Air

LEMMA BlocksShown ==
    ASSUME ChunkIInv, NEW p \in Place, NEW x \in Column
    PROVE  GetBlock(p, x) = Shown(rows[p], maps, x) /\ GetBlock(p, x) \in Block
<1>1. PICK ms, rs : ms = maps /\ rs = rows
  OBVIOUS
<1>2. GoodMaps(ms) /\ GoodRows(rs, ms)
  BY <1>1 DEF ChunkIInv
<1>3. /\ Shown(rs[p], ms, x) = IF rs[p].kind = "null" THEN Air
                               ELSE ms[rs[p].typeMap + 1][At(rs[p], x)]
      /\ Shown(rs[p], ms, x) \in Block
  BY <1>2, ShownIs
<1>4. QED
  BY <1>1, <1>3 DEF GetBlock

LEMMA BlocksShownNext ==
    ASSUME ChunkIInv', NEW p \in Place, NEW x \in Column
    PROVE  GetBlock(p, x)' = Shown(rows'[p], maps', x) /\ GetBlock(p, x)' \in Block
<1>1. PICK ms, rs : ms = maps' /\ rs = rows'
  OBVIOUS
<1>2. GoodMaps(ms) /\ GoodRows(rs, ms)
  BY <1>1 DEF ChunkIInv
<1>3. /\ Shown(rs[p], ms, x) = IF rs[p].kind = "null" THEN Air
                               ELSE ms[rs[p].typeMap + 1][At(rs[p], x)]
      /\ Shown(rs[p], ms, x) \in Block
  BY <1>2, ShownIs
<1>4. QED
  BY <1>1, <1>3 DEF GetBlock

LEMMA WriteIs ==
    ASSUME ChunkIInv, WriteChunk
    PROVE  /\ file' \in [Place -> [Column -> Block]] /\ file' # NoFile /\ fault = "none"
           /\ \A p \in Place, x \in Column : file'[p][x] = Shown(rows[p], maps, x)
           /\ solid' = {} /\ unsaved' = 0 /\ UNCHANGED <<rows, maps, fault>>
<1>1. \A p \in Place, x \in Column :
        Serialized(p, x) = Shown(rows[p], maps, x) /\ Serialized(p, x) \in Block
  BY BlocksShown, Numbers DEF Serialized
<1>2. file' = [p \in Place |-> [x \in Column |-> Serialized(p, x)]]
  BY DEF WriteChunk
<1>3. file' \in [Place -> [Column -> Block]]
  BY <1>1, <1>2
<1>4. \A p \in Place, x \in Column : file'[p][x] = Shown(rows[p], maps, x)
  BY <1>1, <1>2
<1>5. file' # NoFile
  <2>1. <<0, 0>> \in Place
    <3>1. NumSlices \in Nat \ {0} /\ NumRows \in Nat \ {0}
      BY Numbers
    <3>2. QED
      BY <3>1 DEF Place
  <2>2. DOMAIN file' = Place
    BY <1>2
  <2>3. DOMAIN NoFile = {}
    BY DEF NoFile
  <2>4. QED
    BY <2>1, <2>2, <2>3
<1>6. QED
  BY <1>3, <1>4, <1>5 DEF WriteChunk

LEMMA LoadIs ==
    ASSUME ChunkIInv, LoadChunk
    PROVE  /\ GoodMaps(maps') /\ GoodRows(rows', maps')
           /\ fault' = "none" /\ unsaved' = 0 /\ UNCHANGED <<file, solid>>
           /\ \A p \in Place, x \in Column : Shown(rows'[p], maps', x) = SavedAt(p, x)
<1>1. unsaved' = 0 /\ UNCHANGED <<file, solid>>
  BY DEF LoadChunk
<1>2. CASE file = NoFile
  <2>1. rows' = Generated(solid) /\ maps' = OneMap /\ fault' = "none"
    BY <1>2 DEF LoadChunk, OneMap
  <2>2. solid \in SUBSET {c \in Place \X Column : c[1][1] > 0}
    BY DEF ChunkIInv
  <2>3. GoodMaps(maps') /\ GoodRows(rows', maps')
    BY <2>1, <2>2, OneMapIs, GeneratedIs
  <2>4. \A p \in Place, x \in Column : Shown(rows'[p], maps', x) = SavedAt(p, x)
    <3>1. PICK noise : noise = solid
      OBVIOUS
    <3>2. noise \in SUBSET {c \in Place \X Column : c[1][1] > 0}
      BY <2>2, <3>1
    <3>3. \A p \in Place, x \in Column :
            Shown(Generated(noise)[p], OneMap, x) =
                IF p[1] = 0 THEN Stone ELSE IF <<p, x>> \in noise THEN NumGenerated ELSE Air
      BY <3>2, GeneratedIs
    <3>4. \A p \in Place, x \in Column : Shown(Generated(noise)[p], OneMap, x) = SavedAt(p, x)
      BY <1>2, <3>1, <3>3 DEF SavedAt
    <3>5. QED
      BY <2>1, <3>1, <3>4
  <2>5. QED
    BY <1>1, <2>1, <2>3, <2>4
<1>3. CASE file # NoFile
  <2>1. PICK order \in LoadOrders :
          LET c == Loaded(file, order) IN rows' = c.rows /\ maps' = c.maps
    BY <1>3 DEF LoadChunk
  <2>2. PICK c : c = Loaded(file, order)
    OBVIOUS
  <2>3. rows' = c.rows /\ maps' = c.maps
    BY <2>1, <2>2
  <2>4. file \in [Place -> [Column -> Block]]
    BY <1>3 DEF ChunkIInv
  <2>5. /\ GoodState(c)
        /\ \A p \in Place, x \in Column : Shown(c.rows[p], c.maps, x) = file[p][x]
    BY <2>2, <2>4, LoadedIs
  <2>6. GoodMaps(maps') /\ GoodRows(rows', maps')
    BY <2>3, <2>5 DEF GoodState
  <2>7. \A p \in Place, x \in Column : Shown(rows'[p], maps', x) = SavedAt(p, x)
    BY <1>3, <2>3, <2>5 DEF SavedAt
  <2>8. ASSUME NEW p \in Place PROVE ~RowIsFull(rows'[p])
    <3>1. PICK r : r = rows'[p]
      OBVIOUS
    <3>2. r.kind = "null" \/ r.kind # "sparse" \/ (GoodRow(r, maps') /\ r \in SparseRow)
      BY <2>6, <3>1, RowsAre
    <3>3. CASE r.kind # "sparse"
      BY <3>1, <3>3 DEF RowIsFull
    <3>4. CASE r.kind = "sparse"
      <4>1. r \in SparseRow /\ Len(r.storage) <= MaxEntries
        BY <3>2, <3>4 DEF GoodRow
      <4>2. Len(r.storage) \in Nat
        BY <4>1, LenProperties DEF SparseRow
      <4>3. MaxEntries \in 1..Width /\ Width \in Nat
        BY Numbers
      <4>4. ~(Len(r.storage) > MaxEntries)
        BY <4>1, <4>2, <4>3
      <4>5. QED
        BY <3>1, <4>4 DEF RowIsFull
    <3>5. QED
      BY <3>3, <3>4
  <2>9. fault' = "none"
    BY <1>3, <2>8 DEF LoadChunk
  <2>10. QED
    BY <1>1, <2>6, <2>7, <2>9
<1>4. QED
  BY <1>2, <1>3

LEMMA ChunkNext == ChunkIInv /\ [Next]_vars => ChunkIInv'
<1> SUFFICES ASSUME ChunkIInv, [Next]_vars PROVE ChunkIInv'
  OBVIOUS
<1>1. ASSUME NEW p \in Place, NEW x \in Column, NEW b \in Block, SetBlock(p, x, b)
      PROVE  ChunkIInv'
  <2>1. CASE Stopped
    BY <2>1 DEF ChunkIInv, Stopped
  <2>2. CASE BlockIsSet(p, x, b)
    BY <2>2 DEF ChunkIInv, BlockIsSet
  <2>3. QED
    BY <1>1, <2>1, <2>2, SetBlockIs
<1>2. CASE WriteChunk
  <2>1. 0 \in 0..MaxUnsaved
    BY ChunkDataAssumption
  <2>2. QED
    BY <1>2, <2>1, WriteIs DEF ChunkIInv
<1>3. CASE LoadChunk
  <2>1. 0 \in 0..MaxUnsaved
    BY ChunkDataAssumption
  <2>2. QED
    BY <1>3, <2>1, LoadIs DEF ChunkIInv
<1>4. CASE UNCHANGED vars
  BY <1>4 DEF ChunkIInv, vars
<1>5. QED
  BY <1>1, <1>2, <1>3, <1>4 DEF Next

LEMMA ChunkInvariant == Spec => []ChunkIInv
<1>1. Init => ChunkIInv
  BY ChunkInit
<1>2. ChunkIInv /\ [Next]_vars => ChunkIInv'
  BY ChunkNext
<1>3. QED
  BY <1>1, <1>2, PTL DEF Spec

(* What is placed, saved and loaded finds room in rows and maps, and a sparse   *)
(* row keeps what its binary search relies on: setBlock, prepare and            *)
(* processSliceRow never meet "Failed to find block ID map" or "Row is full".   *)
THEOREM RowsSafe == Spec => []RowsInv
<1>1. ASSUME ChunkIInv PROVE RowsInv
  <2>1. SparseRowsSorted
    <3>1. SUFFICES ASSUME NEW p \in Place, rows[p].kind = "sparse"
                   PROVE  LET s == rows[p].storage
                          IN /\ \A i, j \in DOMAIN s : i < j => s[i][1] < s[j][1]
                             /\ \A i \in DOMAIN s : s[i][2] # rows[p].defaultBlockId
                             /\ Len(s) <= MaxEntries
      BY DEF SparseRowsSorted
    <3>2. PICK r : r = rows[p]
      OBVIOUS
    <3>3. GoodRow(r, maps) /\ FitRow(r) /\ r \in SparseRow
      <4>1. GoodMaps(maps) /\ GoodRows(rows, maps)
        BY <1>1 DEF ChunkIInv
      <4>2. rows[p] # Null
        BY <3>1 DEF Null
      <4>3. QED
        BY <3>1, <3>2, <4>1, <4>2, RowsAre
    <3>4. r \notin DenseRow
      BY <3>1, <3>2 DEF DenseRow
    <3>5. r.storage \in Seq(Column \X Entry) /\ InOrder(r.storage) /\ Len(r.storage) <= MaxEntries
          /\ \A e \in ToSet(r.storage) : e[2] # r.defaultBlockId
      BY <3>3, <3>4 DEF GoodRow, FitRow, SparseRow
    <3>6. \A i \in DOMAIN r.storage : r.storage[i][2] # r.defaultBlockId
      BY <3>5, EntriesOf
    <3>7. QED
      BY <3>2, <3>5, <3>6 DEF InOrder
  <2>2. MapsAndRowsSuffice
    BY <1>1 DEF ChunkIInv, MapsAndRowsSuffice
  <2>3. QED
    BY <2>1, <2>2 DEF RowsInv
<1>2. QED
  BY <1>1, ChunkInvariant, PTL

(* Every block of every row has a type in the map of its row, and a type has    *)
(* one number in a map, whatever setBlock, the generator and the loader added.  *)
THEOREM MapsSafe == Spec => []MapsInv
<1>1. ASSUME ChunkIInv PROVE MapsInv
  <2>1. GoodMaps(maps) /\ GoodRows(rows, maps)
    BY <1>1 DEF ChunkIInv
  <2>2. TypeOK
    <3>1. ASSUME NEW p \in Place
          PROVE  \/ rows[p] = Null
                 \/ /\ rows[p].kind = "dense"
                    /\ rows[p].storage \in [Column -> Entry]
                    /\ rows[p].typeMap \in 0..(Len(maps) - 1)
                 \/ /\ rows[p].kind = "sparse"
                    /\ rows[p].storage \in Seq(Column \X Entry)
                    /\ rows[p].defaultBlockId \in Entry
                    /\ rows[p].typeMap \in 0..(Len(maps) - 1)
      <4>1. rows[p] # Null => FitRow(rows[p]) /\ rows[p].typeMap \in 0..(Len(maps) - 1)
        BY <2>1, RowsAre
      <4>2. QED
        BY <4>1 DEF FitRow, DenseRow, SparseRow
    <3>2. maps \in Seq([Entry -> Block \cup {Nil}])
      BY <2>1 DEF GoodMaps, Map
    <3>3. QED
      BY <1>1, <3>1, <3>2 DEF ChunkIInv, TypeOK
  <2>3. BlocksHaveTypes
    BY <1>1, BlocksShown, Numbers DEF BlocksHaveTypes
  <2>4. TypesMappedOnce
    BY <2>1 DEF GoodMaps, OneEach, TypesMappedOnce
  <2>5. QED
    BY <2>2, <2>3, <2>4 DEF MapsInv
<1>2. QED
  BY <1>1, ChunkInvariant, PTL

(* The chunk as a grid. *)
Cells == Place \X Column
GridNow == [c \in Place \X Column |-> GetBlock(c[1], c[2])]
SavedNow ==
    [c \in Place \X Column |->
        IF file # NoFile THEN file[c[1]][c[2]]
        ELSE IF c[1][1] = 0 THEN Stone
        ELSE IF c \in solid THEN NumGenerated
        ELSE Air]

LEMMA CellsAre ==
    \A c \in Place \X Column : c = <<c[1], c[2]>> /\ c[1] \in Place /\ c[2] \in Column
  OBVIOUS

LEMMA SavedIs ==
    \A c \in Place \X Column : SavedNow[c] = SavedAt(c[1], c[2])
<1>1. TAKE c \in Place \X Column
<1>2. c = <<c[1], c[2]>>
  OBVIOUS
<1>3. QED
  BY <1>2 DEF SavedNow, SavedAt

LEMMA GridInit == Init => Grid!Init
<1> SUFFICES ASSUME Init PROVE Grid!Init
  OBVIOUS
<1>1. ChunkIInv
  BY ChunkInit
<1>2. \A c \in Place \X Column : GridNow[c] \in Block
  BY <1>1, CellsAre, BlocksShown DEF GridNow
<1>3. GridNow \in [Place \X Column -> Block]
  BY <1>2 DEF GridNow
<1>4. /\ solid \in SUBSET {c \in Place \X Column : c[1][1] > 0} /\ rows = Generated(solid)
      /\ maps = OneMap /\ file = NoFile /\ fault = "none"
  BY DEF Init, OneMap
<1>5. \A c \in Place \X Column : SavedNow[c] = GridNow[c]
  <2>1. TAKE c \in Place \X Column
  <2>2. PICK p \in Place, x \in Column : c = <<p, x>>
    OBVIOUS
  <2>3. GridNow[c] = Shown(rows[p], maps, x)
    BY <1>1, <2>2, BlocksShown DEF GridNow
  <2>4. SavedNow[c] = SavedAt(p, x)
    BY <2>2, SavedIs
  <2>5. Shown(rows[p], maps, x) = SavedAt(p, x)
    BY <1>4, GeneratedIs DEF SavedAt
  <2>6. QED
    BY <2>3, <2>4, <2>5
<1>6. SavedNow = GridNow
  <2>1. DOMAIN SavedNow = Place \X Column /\ SavedNow = [c \in Place \X Column |-> SavedNow[c]]
    BY DEF SavedNow
  <2>2. GridNow = [c \in Place \X Column |-> GridNow[c]]
    BY DEF GridNow
  <2>3. QED
    BY <1>5, <2>1, <2>2
<1>7. QED
  BY <1>3, <1>4, <1>6 DEF Grid!Init, GridNow, SavedNow

LEMMA GridNext ==
    ASSUME ChunkIInv, ChunkIInv', [Next]_vars
    PROVE  [Grid!Next]_(Grid!vars)
<1> USE DEF GridNow, SavedNow
<1>1. /\ \A c \in Cells : GridNow[c] = Shown(rows[c[1]], maps, c[2])
      /\ \A c \in Cells : GridNow'[c] = Shown(rows'[c[1]], maps', c[2])
      /\ \A c \in Cells : GridNow[c] \in Block /\ GridNow'[c] \in Block
      /\ GridNow = [c \in Cells |-> GridNow[c]] /\ GridNow' = [c \in Cells |-> GridNow'[c]]
  <2>1. \A c \in Cells : GridNow[c] = GetBlock(c[1], c[2]) /\ GridNow'[c] = GetBlock(c[1], c[2])'
    BY DEF Cells
  <2>2. \A c \in Cells : c[1] \in Place /\ c[2] \in Column
    BY DEF Cells
  <2>3. \A p \in Place, x \in Column : /\ GetBlock(p, x) = Shown(rows[p], maps, x)
                                       /\ GetBlock(p, x) \in Block
    BY BlocksShown
  <2>4. \A p \in Place, x \in Column : /\ GetBlock(p, x)' = Shown(rows'[p], maps', x)
                                       /\ GetBlock(p, x)' \in Block
    BY BlocksShownNext
  <2>5. GridNow = [c \in Cells |-> GridNow[c]] /\ GridNow' = [c \in Cells |-> GridNow'[c]]
    BY DEF Cells
  <2> HIDE DEF GridNow
  <2>6. QED
    BY <2>1, <2>2, <2>3, <2>4, <2>5
<1>2. UNCHANGED <<file, solid>> => SavedNow' = SavedNow
  OBVIOUS
<1>3. ASSUME NEW p \in Place, NEW x \in Column, NEW b \in Block, SetBlock(p, x, b)
      PROVE  Grid!Next \/ UNCHANGED Grid!vars
  <2>1. CASE Stopped
    <3>1. GridNow' = GridNow /\ SavedNow' = SavedNow /\ (fault' = "none") = FALSE
      BY <2>1 DEF Stopped, GetBlock
    <3>2. Grid!Stop
      BY <3>1 DEF Grid!Stop
    <3>3. QED
      BY <3>2 DEF Grid!Next
  <2>2. CASE BlockIsSet(p, x, b)
    <3>0. /\ fault = "none" /\ UNCHANGED <<file, solid, fault>>
          /\ \A q \in Place, y \in Column :
                Shown(rows'[q], maps', y) =
                    IF q = p /\ y = x THEN b ELSE Shown(rows[q], maps, y)
      BY <2>2 DEF BlockIsSet
    <3>1. SavedNow' = SavedNow
      BY <1>2, <3>0
    <3> DEFINE d == <<p, x>>
    <3>2. d \in Cells /\ d[1] = p /\ d[2] = x
      BY DEF Cells
    <3>3. ASSUME NEW c \in Cells PROVE GridNow'[c] = IF c = d THEN b ELSE GridNow[c]
      <4>1. c[1] \in Place /\ c[2] \in Column /\ (c = d <=> c[1] = p /\ c[2] = x)
        BY DEF Cells
      <4> HIDE DEF d, GridNow
      <4>2. QED
        BY <1>1, <3>0, <4>1
    <3> HIDE DEF d, GridNow, SavedNow
    <3>4. CASE GridNow[d] = b
      <4>1. GridNow' = GridNow
        <5>1. \A c \in Cells : GridNow'[c] = GridNow[c]
          BY <3>3, <3>4
        <5>2. QED
          BY <1>1, <5>1
      <4>2. UNCHANGED Grid!vars
        BY <3>0, <3>1, <4>1 DEF Grid!vars, GridNow, SavedNow
      <4>3. QED
        BY <4>2
    <3>5. CASE GridNow[d] # b
      <4>1. GridNow'[d] = b /\ GridNow'[d] \in Block
        BY <1>1, <3>2, <3>3
      <4>2. d \in {c \in Cells : GridNow'[c] # GridNow[c]}
        BY <3>2, <3>5, <4>1
      <4>3. GridNow' = [GridNow EXCEPT ![d] = GridNow'[d]]
        BY <1>1, <3>2, <3>3, <4>1
      <4>4. d \in Grid!Changed
        BY <4>2 DEF Grid!Changed, GridNow, Cells
      <4>5. Grid!Place(d, GridNow'[d])
        BY <3>0, <3>1, <4>3 DEF Grid!Place, GridNow, SavedNow
      <4>6. QED
        BY <4>1, <4>4, <4>5 DEF Grid!Next, GridNow
    <3>6. QED
      BY <3>4, <3>5
  <2> HIDE DEF GridNow, SavedNow
  <2>3. QED
    BY <1>3, <2>1, <2>2, SetBlockIs
<1>4. CASE WriteChunk
  <2>1. /\ file' # NoFile /\ fault = "none" /\ UNCHANGED <<rows, maps, fault>>
        /\ \A q \in Place, y \in Column : file'[q][y] = Shown(rows[q], maps, y)
    BY <1>4, WriteIs
  <2>2. GridNow' = GridNow
    BY <2>1 DEF GetBlock
  <2>3. SavedNow' = [c \in Cells |-> file'[c[1]][c[2]]]
    BY <2>1 DEF Cells
  <2>4. \A c \in Cells : c[1] \in Place /\ c[2] \in Column
    BY DEF Cells
  <2>5. SavedNow' = GridNow
    <3> HIDE DEF GridNow, SavedNow
    <3>1. \A c \in Cells : file'[c[1]][c[2]] = GridNow[c]
      BY <1>1, <2>1, <2>4
    <3>2. QED
      BY <1>1, <2>3, <3>1
  <2>6. Grid!Save
    BY <2>1, <2>2, <2>5 DEF Grid!Save
  <2>7. QED
    BY <2>6 DEF Grid!Next
<1>5. CASE LoadChunk
  <2>1. /\ fault' = "none" /\ UNCHANGED <<file, solid>>
        /\ \A q \in Place, y \in Column : Shown(rows'[q], maps', y) = SavedAt(q, y)
    BY <1>5, LoadIs
  <2>2. SavedNow' = SavedNow
    BY <1>2, <2>1
  <2>3. \A c \in Cells : SavedNow[c] = SavedAt(c[1], c[2])
    <3> HIDE DEF SavedNow
    <3>1. QED
      BY SavedIs DEF Cells
  <2>4. \A c \in Cells : c[1] \in Place /\ c[2] \in Column
    BY DEF Cells
  <2>5. SavedNow = [c \in Cells |-> SavedNow[c]]
    BY DEF Cells
  <2>6. GridNow' = SavedNow
    <3> HIDE DEF GridNow, SavedNow
    <3>1. \A c \in Cells : GridNow'[c] = SavedNow[c]
      BY <1>1, <2>1, <2>3, <2>4
    <3>2. QED
      BY <1>1, <2>5, <3>1
  <2>7. Grid!Load
    BY <2>1, <2>2, <2>6 DEF Grid!Load
  <2>8. QED
    BY <2>7 DEF Grid!Next
<1>6. CASE UNCHANGED vars
  BY <1>6 DEF vars, Grid!vars, GetBlock
<1>7. QED
  BY <1>3, <1>4, <1>5, <1>6 DEF Next

(* The chunk with its rows and maps implements the grid of blocks: getBlock     *)
(* gives what setBlock placed, and saving and loading a chunk keep every block. *)
THEOREM GridImplemented == Spec => ImplementsGrid
<1>1. Init => Grid!Init
  BY GridInit
<1>2. ChunkIInv /\ ChunkIInv' /\ [Next]_vars => [Grid!Next]_(Grid!vars)
  BY GridNext
<1>3. QED
  BY <1>1, <1>2, ChunkInvariant, PTL DEF Spec, ImplementsGrid, Grid!Spec
=============================================================================
