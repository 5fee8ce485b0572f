--------------------------- MODULE OperatorProofs ---------------------------
(***************************************************************************)
(* The operators the models are built from: what the mask table does to    *)
(* the field, for every field and every ID, and the sums of the community  *)
(* module Functions, for every finite set of indices.                      *)
(***************************************************************************)
EXTENDS QuicMask, Functions, FiniteSets, FiniteSetTheorems, WellFoundedInduction, TLAPS

-----------------------------------------------------------------------------
(* The mask table *)

\* A hash taken modulo the size of a register is an index of it.
LEMMA ModRange ==
  ASSUME NEW x \in Nat, NEW n \in Nat \ {0}
  PROVE  x % n \in 0 .. n - 1
OBVIOUS

\* For every length 0 .. 20 the table's row keeps exactly the bytes before
\* that length: the comment on mask_tbl, read off its 21 const entries.
LEMMA RowKeepsPrefix ==
  ASSUME NEW len \in 0 .. DcidBytes, NEW i \in 1 .. DcidBytes
  PROVE  ((i - 1) % SliceBytes < Row(len)[((i - 1) \div SliceBytes) + 1]) <=> (i <= len)
<1>1. DOMAIN mask_tbl = 1 .. 21
  BY DEF mask_tbl
<1>2. len + 1 \in DOMAIN mask_tbl
  BY <1>1 DEF DcidBytes
<1>3. Row(len) = mask_tbl[len + 1]
  BY <1>2 DEF Row
<1>4. i - 1 \in 0 .. 19
  BY DEF DcidBytes
<1>5. /\ (i - 1) \div SliceBytes \in 0 .. 4
      /\ (i - 1) % SliceBytes \in 0 .. 3
      /\ i - 1 = 4 * ((i - 1) \div SliceBytes) + ((i - 1) % SliceBytes)
  BY <1>4 DEF SliceBytes
<1>6. QED
  BY <1>3, <1>4, <1>5, SMTT(60) DEF mask_tbl, DcidBytes

\* The hash input for the right length is the connection ID padded with zeros,
\* whatever ciphertext follows it in the packet.
THEOREM MaskKeepsCid ==
  ASSUME NEW dcid \in Dcid, NEW cid \in Seq(Byte),
         Shows(dcid, cid), Len(cid) <= DcidBytes
  PROVE  Masked(dcid, Len(cid)) = Padded(cid)
<1>0. Len(cid) \in Nat
  OBVIOUS
<1>1. Len(cid) \in 0 .. DcidBytes
  <2>1. \A n \in Nat : n <= DcidBytes => n \in 0 .. DcidBytes
    BY DEF DcidBytes
  <2>2. QED
    BY <1>0, <2>1
<1>2. \A i \in 1 .. DcidBytes : Masked(dcid, Len(cid))[i] = Padded(cid)[i]
  BY <1>1, RowKeepsPrefix DEF Masked, set_mask, Padded, Shows
<1>3. QED
  BY <1>2 DEF Masked, set_mask, Padded

\* A length of zero, and any length the table has no entry for, hash nothing.
THEOREM MaskDropsAll ==
  ASSUME NEW dcid \in Dcid, NEW len \in 0 .. 255, len = 0 \/ len > DcidBytes
  PROVE  Masked(dcid, len) = Padded(<<>>)
<1>1. DOMAIN mask_tbl = 1 .. 21
  BY DEF mask_tbl
<1>2. Row(len) = <<0, 0, 0, 0, 0>>
  BY <1>1 DEF Row, mask_tbl, DcidBytes
<1>3. \A i \in 1 .. DcidBytes :
        ~((i - 1) % SliceBytes < Row(len)[((i - 1) \div SliceBytes) + 1])
  <2> SUFFICES ASSUME NEW i \in 1 .. DcidBytes
               PROVE  ~((i - 1) % SliceBytes < Row(len)[((i - 1) \div SliceBytes) + 1])
    OBVIOUS
  <2>1. /\ ((i - 1) \div SliceBytes) + 1 \in 1 .. 5
        /\ (i - 1) % SliceBytes \in 0 .. 3
    BY DEF DcidBytes, SliceBytes
  <2>2. Row(len)[((i - 1) \div SliceBytes) + 1] = 0
    BY <1>2, <2>1
  <2>3. QED
    BY <2>1, <2>2
<1>4. \A i \in 1 .. DcidBytes : ~(i <= Len(<<>>))
  OBVIOUS
<1>5. QED
  BY <1>3, <1>4 DEF Masked, set_mask, Padded

-----------------------------------------------------------------------------
(* Sums over finite sets *)

\* Induction over the subsets of a finite set, stated with a set G of the good
\* ones in place of a predicate: if T is good whenever its strict subsets are, all
\* subsets are good.
LEMMA SubsetInduction ==
  ASSUME NEW S, IsFiniteSet(S), NEW G,
         \A T \in SUBSET S : (\A U \in SUBSET T : U # T => U \in G) => T \in G
  PROVE  SUBSET S \subseteq G
<1> DEFINE Bad == (SUBSET S) \ G
           R == StrictSubsetOrdering(S)
<1>1. SUFFICES ASSUME Bad # {} PROVE FALSE
  OBVIOUS
<1>2. IsWellFoundedOn(R, SUBSET S)
  BY FS_StrictSubsetOrderingWellFounded, FS_FiniteSubsetsOfFinite
<1>3. \E T \in Bad : \A U \in Bad : ~(<<U, T>> \in R)
  <2>1. Bad \subseteq SUBSET S
    OBVIOUS
  <2> HIDE DEF Bad, R
  <2>2. QED
    BY <1>1, <1>2, <2>1, WFMin
<1>4. PICK T \in Bad : \A U \in Bad : ~(<<U, T>> \in R)
  BY <1>3
<1>5. \A U \in SUBSET T : U # T => U \in G
  <2> SUFFICES ASSUME NEW U \in SUBSET T, U # T, U \notin G PROVE FALSE
    OBVIOUS
  <2>1. U \in Bad
    OBVIOUS
  <2>2. <<U, T>> \in R
    BY <2>1 DEF StrictSubsetOrdering
  <2>3. QED
    BY <1>4, <2>1, <2>2
<1>6. QED
  BY <1>5

\* The element a fold takes first, and the recursion equation of the fold.
Chosen(T) == CHOOSE x \in T : TRUE

IsSum(f, S, g) ==
  g = [s \in SUBSET S |-> IF s = {} THEN 0 ELSE f[Chosen(s)] + g[s \ {Chosen(s)}]]


\* What SumFunctionOnSet of the community modules stands for.
LEMMA SumUnfold ==
  ASSUME NEW f, NEW S
  PROVE  SumFunctionOnSet(f, S) = (CHOOSE g : IsSum(f, S, g))[S]
BY DEF IsSum, Chosen, SumFunctionOnSet, FoldFunctionOnSet, MapThenFoldSet

\* A nonempty set has an element to take.
LEMMA ChosenIn ==
  ASSUME NEW T, T # {}
  PROVE  Chosen(T) \in T
BY DEF Chosen

\* The recursion equation at one subset ...
LEMMA IsSumAt ==
  ASSUME NEW f, NEW S, NEW g, IsSum(f, S, g), NEW s \in SUBSET S
  PROVE  g[s] = IF s = {} THEN 0 ELSE f[Chosen(s)] + g[s \ {Chosen(s)}]
<1> DEFINE h == [t \in SUBSET S |-> IF t = {} THEN 0 ELSE f[Chosen(t)] + g[t \ {Chosen(t)}]]
<1>1. g = h
  BY DEF IsSum
<1>2. h[s] = IF s = {} THEN 0 ELSE f[Chosen(s)] + g[s \ {Chosen(s)}]
  OBVIOUS
<1> HIDE DEF h
<1>3. QED
  BY <1>1, <1>2

\* ... and for nonempty subsets as a predicate of its own.
Adds(f, S, g) == \A s \in SUBSET S : s # {} => g[s] = f[Chosen(s)] + g[s \ {Chosen(s)}]

\* A function that satisfies the recursion equation adds element by element.
LEMMA IsSumNext ==
  ASSUME NEW f, NEW S, NEW g, IsSum(f, S, g)
  PROVE  Adds(f, S, g)
<1> SUFFICES ASSUME NEW s \in SUBSET S, s # {}
             PROVE  g[s] = f[Chosen(s)] + g[s \ {Chosen(s)}]
  BY DEF Adds
<1>1. g[s] = IF s = {} THEN 0 ELSE f[Chosen(s)] + g[s \ {Chosen(s)}]
  BY ONLY IsSum(f, S, g), s \in SUBSET S, IsSumAt
<1>2. QED
  BY <1>1

\* Two such functions agree where both are defined, by induction.
LEMMA IsSumUnique ==
  ASSUME NEW f, NEW S, IsFiniteSet(S), NEW T,
         NEW g, IsSum(f, S, g), NEW h, IsSum(f, T, h), S \subseteq T
  PROVE  \A s \in SUBSET S : g[s] = h[s]
<1> DEFINE G == {s \in SUBSET S : g[s] = h[s]}
<1>0. Adds(f, S, g) /\ Adds(f, T, h)
  BY IsSumNext
<1>1. ASSUME NEW s \in SUBSET S, \A u \in SUBSET s : u # s => u \in G
      PROVE  s \in G
  <2>1. CASE s = {}
    BY <2>1, IsSumAt
  <2>2. CASE s # {}
    <3>1. s \ {Chosen(s)} \in G
      BY <1>1, <2>2, ChosenIn
    <3>2. QED
      BY <1>0, <2>2, <3>1 DEF Adds
  <2>3. QED
    BY <2>1, <2>2
<1>2. SUBSET S \subseteq G
  <2> HIDE DEF G
  <2>1. QED
    BY <1>1, SubsetInduction
<1>3. QED
  BY <1>2

\* There is such a function for every finite set: glued together from those of
\* the strict subsets.
LEMMA IsSumExists ==
  ASSUME NEW f, NEW S, IsFiniteSet(S)
  PROVE  \E g : IsSum(f, S, g)
<1> DEFINE G == {T \in SUBSET S : \E g : IsSum(f, T, g)}
           sum(T) == CHOOSE g : IsSum(f, T, g)
           val(s) == IF s = {} THEN 0
                     ELSE f[Chosen(s)] + sum(s \ {Chosen(s)})[s \ {Chosen(s)}]
<1>1. ASSUME NEW T \in SUBSET S, \A U \in SUBSET T : U # T => U \in G
      PROVE  T \in G
  <2> DEFINE g == [s \in SUBSET T |-> val(s)]
  <2>1. \A u \in SUBSET T : u # T => IsSum(f, u, sum(u))
    BY <1>1
  <2>2. ASSUME NEW u \in SUBSET T, u # T
        PROVE  val(u) = sum(u)[u]
    <3>1. IsSum(f, u, sum(u))
      BY <2>1, <2>2
    <3> HIDE DEF sum
    <3>2. CASE u = {}
      BY <3>1, <3>2, IsSumAt
    <3>3. CASE u # {}
      <4> DEFINE v == u \ {Chosen(u)}
      <4>1. Chosen(u) \in u
        BY <3>3, ChosenIn
      <4>2. v \in SUBSET T /\ v # T /\ v \subseteq u
        BY <4>1
      <4>3. IsSum(f, v, sum(v))
        BY <2>1, <4>2
      <4>4. IsFiniteSet(v)
        BY <4>2, FS_Subset
      <4>5. sum(u)[u] = f[Chosen(u)] + sum(u)[v]
        BY <3>1, <3>3, IsSumAt
      <4>6. v \in SUBSET v
        OBVIOUS
      <4>7. sum(u)[v] = sum(v)[v]
        <5> HIDE DEF v
        <5>1. QED
          BY <3>1, <4>2, <4>3, <4>4, <4>6, IsSumUnique
      <4>8. QED
        BY <3>3, <4>5, <4>7
    <3>4. QED
      BY <3>2, <3>3
  <2>3. \A s \in SUBSET T : g[s] = IF s = {} THEN 0 ELSE f[Chosen(s)] + g[s \ {Chosen(s)}]
    <3> SUFFICES ASSUME NEW s \in SUBSET T, s # {}
                 PROVE  g[s] = f[Chosen(s)] + g[s \ {Chosen(s)}]
      <4>1. g[{}] = 0
        OBVIOUS
      <4> HIDE DEF g
      <4>2. QED
        BY <4>1
    <3>1. Chosen(s) \in s
      BY ChosenIn
    <3> DEFINE v == s \ {Chosen(s)}
    <3>2. v \in SUBSET T /\ v # T
      BY <3>1
    <3>3. g[v] = sum(v)[v]
      BY <3>2, <2>2
    <3>4. QED
      BY <3>3
  <2>4. g = [s \in SUBSET T |-> IF s = {} THEN 0 ELSE f[Chosen(s)] + g[s \ {Chosen(s)}]]
    <3>1. g = [s \in SUBSET T |-> g[s]]
      OBVIOUS
    <3> HIDE DEF g
    <3>2. QED
      BY <3>1, <2>3
  <2>5. IsSum(f, T, g)
    <3> HIDE DEF g
    <3>1. QED
      BY <2>4 DEF IsSum
  <2>6. QED
    BY <2>5
<1>2. SUBSET S \subseteq G
  <2> HIDE DEF G
  <2>1. QED
    BY <1>1, SubsetInduction
<1>3. S \in SUBSET S
  OBVIOUS
<1>4. QED
  BY <1>2, <1>3

\* The recursion equation of a sum over a finite set.
LEMMA SumRecursion ==
  ASSUME NEW f, NEW S, IsFiniteSet(S)
  PROVE  SumFunctionOnSet(f, S) =
           IF S = {} THEN 0 ELSE f[Chosen(S)] + SumFunctionOnSet(f, S \ {Chosen(S)})
<1> DEFINE sum(T) == CHOOSE g : IsSum(f, T, g)
<1>1. \A T \in SUBSET S : IsSum(f, T, sum(T)) /\ SumFunctionOnSet(f, T) = sum(T)[T]
  <2> SUFFICES ASSUME NEW T \in SUBSET S
               PROVE  IsSum(f, T, sum(T)) /\ SumFunctionOnSet(f, T) = sum(T)[T]
    OBVIOUS
  <2>1. \E g : IsSum(f, T, g)
    BY FS_Subset, IsSumExists
  <2>2. QED
    BY <2>1, SumUnfold
<1> HIDE DEF sum
<1>2. S \in SUBSET S
  OBVIOUS
<1>3. CASE S = {}
  <2> DEFINE g == sum(S)
  <2>1. IsSum(f, S, g) /\ SumFunctionOnSet(f, S) = g[S]
    BY <1>1, <1>2
  <2> HIDE DEF g
  <2>2. g[S] = 0
    BY <1>2, <1>3, <2>1, IsSumAt
  <2>3. QED
    BY <1>3, <2>1, <2>2
<1>4. CASE S # {}
  <2> DEFINE T == S \ {Chosen(S)}
  <2>1. T \in SUBSET S /\ T \in SUBSET T /\ T \subseteq S
    OBVIOUS
  <2>2. IsFiniteSet(T)
    BY <2>1, FS_Subset
  <2>3. sum(S)[T] = sum(T)[T]
    <3>1. IsSum(f, T, sum(T)) /\ IsSum(f, S, sum(S))
      BY <1>1, <1>2, <2>1
    <3> HIDE DEF T
    <3>2. QED
      BY <2>1, <2>2, <3>1, IsSumUnique
  <2>4. sum(S)[S] = f[Chosen(S)] + sum(S)[T]
    <3>1. IsSum(f, S, sum(S))
      BY <1>1, <1>2
    <3>2. QED
      BY <1>2, <1>4, <3>1, IsSumNext DEF Adds
  <2>5. QED
    BY <1>1, <1>2, <1>4, <2>1, <2>3, <2>4
<1>5. QED
  BY <1>3, <1>4

\* The sum over no indices.
LEMMA SumEmpty == \A f : SumFunctionOnSet(f, {}) = 0
BY SumRecursion, FS_EmptySet

\* A sum of integers is one.
LEMMA SumInt ==
  ASSUME NEW f, NEW S, IsFiniteSet(S), \A x \in S : f[x] \in Int
  PROVE  SumFunctionOnSet(f, S) \in Int
<1> DEFINE G == {T \in SUBSET S : SumFunctionOnSet(f, T) \in Int}
<1>1. ASSUME NEW T \in SUBSET S, \A U \in SUBSET T : U # T => U \in G
      PROVE  T \in G
  <2>1. CASE T = {}
    BY <2>1, SumEmpty
  <2>2. CASE T # {}
    <3>1. Chosen(T) \in T
      BY <2>2, ChosenIn
    <3>2. T \ {Chosen(T)} \in G
      BY <1>1, <3>1
    <3>3. SumFunctionOnSet(f, T) = f[Chosen(T)] + SumFunctionOnSet(f, T \ {Chosen(T)})
      BY <2>2, FS_Subset, SumRecursion
    <3>4. QED
      BY <3>1, <3>2, <3>3
  <2>3. QED
    BY <2>1, <2>2
<1>2. SUBSET S \subseteq G
  <2> HIDE DEF G
  <2>1. QED
    BY <1>1, SubsetInduction
<1>3. S \in SUBSET S
  OBVIOUS
<1>4. QED
  BY <1>2, <1>3

\* Any element can be taken out of a sum, not only the one the fold takes first.
LEMMA SumRemove ==
  ASSUME NEW f, NEW S, IsFiniteSet(S), \A x \in S : f[x] \in Int, NEW x \in S
  PROVE  SumFunctionOnSet(f, S) = f[x] + SumFunctionOnSet(f, S \ {x})
<1> DEFINE G == {T \in SUBSET S : \A y \in T :
                   SumFunctionOnSet(f, T) = f[y] + SumFunctionOnSet(f, T \ {y})}
<1>1. ASSUME NEW T \in SUBSET S, \A U \in SUBSET T : U # T => U \in G
      PROVE  T \in G
  <2> SUFFICES ASSUME NEW y \in T
               PROVE  SumFunctionOnSet(f, T) = f[y] + SumFunctionOnSet(f, T \ {y})
    OBVIOUS
  <2> DEFINE p == Chosen(T)
  <2>1. p \in T
    BY ChosenIn
  <2>2. SumFunctionOnSet(f, T) = f[p] + SumFunctionOnSet(f, T \ {p})
    BY FS_Subset, SumRecursion
  <2>3. CASE y = p
    BY <2>2, <2>3
  <2>4. CASE y # p
    <3>1. T \ {p} \in G /\ T \ {y} \in G
      BY <1>1, <2>1
    <3>2. SumFunctionOnSet(f, T \ {p}) = f[y] + SumFunctionOnSet(f, (T \ {p}) \ {y})
      BY <3>1, <2>4
    <3>3. SumFunctionOnSet(f, T \ {y}) = f[p] + SumFunctionOnSet(f, (T \ {y}) \ {p})
      BY <3>1, <2>1, <2>4
    <3>4. (T \ {p}) \ {y} = (T \ {y}) \ {p}
      OBVIOUS
    <3>5. SumFunctionOnSet(f, (T \ {y}) \ {p}) \in Int
      <4>1. (T \ {y}) \ {p} \in SUBSET S
        OBVIOUS
      <4>2. QED
        BY <4>1, FS_Subset, SumInt
    <3>6. f[p] \in Int /\ f[y] \in Int
      BY <2>1
    <3>7. SumFunctionOnSet(f, T) = f[p] + (f[y] + SumFunctionOnSet(f, (T \ {y}) \ {p}))
      BY <2>2, <3>2, <3>4
    <3> DEFINE rest == SumFunctionOnSet(f, (T \ {y}) \ {p})
    <3> HIDE DEF p, rest
    <3>8. f[p] + (f[y] + rest) = f[y] + (f[p] + rest)
      BY <3>5, <3>6 DEF rest
    <3>9. QED
      BY <3>3, <3>7, <3>8 DEF rest
  <2>5. QED
    BY <2>3, <2>4
<1>2. SUBSET S \subseteq G
  <2> HIDE DEF G
  <2>1. QED
    BY <1>1, SubsetInduction
<1>3. S \in SUBSET S
  OBVIOUS
<1>4. QED
  BY <1>2, <1>3

\* Sums grow with their summands.
LEMMA SumMonotone ==
  ASSUME NEW f, NEW g, NEW S, IsFiniteSet(S),
         \A x \in S : f[x] \in Int /\ g[x] \in Int /\ f[x] <= g[x]
  PROVE  SumFunctionOnSet(f, S) <= SumFunctionOnSet(g, S)
<1> DEFINE G == {T \in SUBSET S : SumFunctionOnSet(f, T) <= SumFunctionOnSet(g, T)}
<1>1. ASSUME NEW T \in SUBSET S, \A U \in SUBSET T : U # T => U \in G
      PROVE  T \in G
  <2>1. CASE T = {}
    BY <2>1, SumEmpty
  <2>2. CASE T # {}
    <3> DEFINE p == Chosen(T)
               U == T \ {p}
    <3>1. p \in T
      BY <2>2, ChosenIn
    <3>2. U \in G
      BY <1>1, <3>1
    <3>3. /\ SumFunctionOnSet(f, T) = f[p] + SumFunctionOnSet(f, U)
          /\ SumFunctionOnSet(g, T) = g[p] + SumFunctionOnSet(g, U)
      BY <2>2, FS_Subset, SumRecursion
    <3>4. SumFunctionOnSet(f, U) \in Int /\ SumFunctionOnSet(g, U) \in Int
      <4>1. U \in SUBSET S
        OBVIOUS
      <4>2. QED
        BY <4>1, FS_Subset, SumInt
    <3>5. SumFunctionOnSet(f, U) <= SumFunctionOnSet(g, U)
      BY <3>2
    <3>6. f[p] \in Int /\ g[p] \in Int /\ f[p] <= g[p]
      BY <3>1
    <3> HIDE DEF p, U
    <3>7. QED
      BY <3>3, <3>4, <3>5, <3>6
  <2>3. QED
    BY <2>1, <2>2
<1>2. SUBSET S \subseteq G
  <2> HIDE DEF G
  <2>1. QED
    BY <1>1, SubsetInduction
<1>3. S \in SUBSET S
  OBVIOUS
<1>4. QED
  BY <1>2, <1>3

\* Sums of equal summands are equal.
LEMMA SumSame ==
  ASSUME NEW f, NEW g, NEW S, IsFiniteSet(S), \A x \in S : f[x] \in Int /\ f[x] = g[x]
  PROVE  SumFunctionOnSet(f, S) = SumFunctionOnSet(g, S)
<1>1. SumFunctionOnSet(f, S) \in Int /\ SumFunctionOnSet(g, S) \in Int
  BY SumInt
<1>2. SumFunctionOnSet(f, S) <= SumFunctionOnSet(g, S)
  <2>1. \A x \in S : f[x] \in Int /\ g[x] \in Int /\ f[x] <= g[x]
    OBVIOUS
  <2>2. QED
    BY <2>1, SumMonotone
<1>3. SumFunctionOnSet(g, S) <= SumFunctionOnSet(f, S)
  <2>1. \A x \in S : f[x] \in Int /\ g[x] \in Int /\ g[x] <= f[x]
    OBVIOUS
  <2>2. QED
    BY <2>1, SumMonotone
<1>4. QED
  BY <1>1, <1>2, <1>3

\* A sum of zeros is zero: what a cleared register adds up to.
LEMMA SumZero ==
  ASSUME NEW f, NEW S, IsFiniteSet(S), \A x \in S : f[x] = 0
  PROVE  SumFunctionOnSet(f, S) = 0
<1> DEFINE G == {T \in SUBSET S : SumFunctionOnSet(f, T) = 0}
<1>1. ASSUME NEW T \in SUBSET S, \A U \in SUBSET T : U # T => U \in G
      PROVE  T \in G
  <2>1. CASE T = {}
    BY <2>1, SumEmpty
  <2>2. CASE T # {}
    <3>1. Chosen(T) \in T
      BY <2>2, ChosenIn
    <3>2. T \ {Chosen(T)} \in G
      BY <1>1, <3>1
    <3>3. SumFunctionOnSet(f, T) = f[Chosen(T)] + SumFunctionOnSet(f, T \ {Chosen(T)})
      BY <2>2, FS_Subset, SumRecursion
    <3>4. QED
      BY <3>1, <3>2, <3>3
  <2>3. QED
    BY <2>1, <2>2
<1>2. SUBSET S \subseteq G
  <2> HIDE DEF G
  <2>1. QED
    BY <1>1, SubsetInduction
<1>3. S \in SUBSET S
  OBVIOUS
<1>4. QED
  BY <1>2, <1>3

\* A sum of naturals is one.
LEMMA SumNat ==
  ASSUME NEW f, NEW S, IsFiniteSet(S), \A x \in S : f[x] \in Nat
  PROVE  SumFunctionOnSet(f, S) \in Nat
<1> DEFINE z == [x \in S |-> 0]
<1>1. SumFunctionOnSet(z, S) = 0
  BY SumZero
<1>2. SumFunctionOnSet(f, S) \in Int
  BY SumInt
<1>3. SumFunctionOnSet(z, S) <= SumFunctionOnSet(f, S)
  <2>1. \A x \in S : z[x] \in Int /\ f[x] \in Int /\ z[x] <= f[x]
    OBVIOUS
  <2> HIDE DEF z
  <2>2. QED
    BY <2>1, SumMonotone
<1>4. QED
  BY <1>1, <1>2, <1>3

\* A sum after one of the summands has been written.
LEMMA SumUpdate ==
  ASSUME NEW f, NEW g, NEW S, IsFiniteSet(S), NEW b \in S,
         \A x \in S : f[x] \in Int /\ g[x] \in Int,
         \A x \in S \ {b} : g[x] = f[x]
  PROVE  SumFunctionOnSet(g, S) = SumFunctionOnSet(f, S) + g[b] - f[b]
<1> DEFINE T == S \ {b}
<1>1. IsFiniteSet(T)
  BY FS_Subset
<1>2. SumFunctionOnSet(f, T) = SumFunctionOnSet(g, T)
  <2>1. \A x \in T : f[x] \in Int /\ f[x] = g[x]
    OBVIOUS
  <2>2. QED
    BY <1>1, <2>1, SumSame
<1>3. SumFunctionOnSet(f, T) \in Int
  BY <1>1, SumInt
<1>4. /\ SumFunctionOnSet(f, S) = f[b] + SumFunctionOnSet(f, T)
      /\ SumFunctionOnSet(g, S) = g[b] + SumFunctionOnSet(g, T)
  BY SumRemove
<1>5. f[b] \in Int /\ g[b] \in Int
  OBVIOUS
<1> HIDE DEF T
<1>6. QED
  BY <1>2, <1>3, <1>4, <1>5

\* One index more.
LEMMA SumInsert ==
  ASSUME NEW f, NEW S, IsFiniteSet(S), NEW x, x \notin S, \A y \in S \cup {x} : f[y] \in Int
  PROVE  SumFunctionOnSet(f, S \cup {x}) = SumFunctionOnSet(f, S) + f[x]
<1> DEFINE T == S \cup {x}
<1>1. IsFiniteSet(T) /\ x \in T /\ T \ {x} = S
  BY FS_AddElement
<1>2. \A y \in T : f[y] \in Int
  OBVIOUS
<1> HIDE DEF T
<1>3. SumFunctionOnSet(f, T) = f[x] + SumFunctionOnSet(f, T \ {x})
  BY <1>1, <1>2, SumRemove
<1>4. SumFunctionOnSet(f, S) \in Int /\ f[x] \in Int
  BY SumInt
<1>5. SumFunctionOnSet(f, T) = SumFunctionOnSet(f, S) + f[x]
  <2>1. SumFunctionOnSet(f, T \ {x}) = SumFunctionOnSet(f, S)
    BY <1>1, Zenon
  <2> HIDE DEF T
  <2>2. QED
    BY <1>3, <1>4, <2>1
<1>6. QED
  BY <1>5 DEF T

\* Every share of S is q, those of R one larger.
Spread(f, S, R, q) == \A x \in S : f[x] = q + (IF x \in R THEN 1 ELSE 0)

\* What such shares add up to.
LEMMA SumSpread ==
  ASSUME NEW f, NEW S, IsFiniteSet(S), NEW R, NEW q \in Nat, Spread(f, S, R, q)
  PROVE  SumFunctionOnSet(f, S) = q * Cardinality(S) + Cardinality(S \cap R)
<1> DEFINE val(T) == q * Cardinality(T) + Cardinality(T \cap R)
           G == {T \in SUBSET S : SumFunctionOnSet(f, T) = val(T)}
<1>1. ASSUME NEW T \in SUBSET S, \A U \in SUBSET T : U # T => U \in G
      PROVE  T \in G
  <2>1. CASE T = {}
    <3>1. Cardinality(T) = 0 /\ Cardinality(T \cap R) = 0
      <4>1. T \cap R = {}
        BY <2>1
      <4>2. QED
        BY <2>1, <4>1, FS_EmptySet
    <3>2. SumFunctionOnSet(f, T) = 0
      BY <2>1, SumEmpty
    <3>3. QED
      BY <3>1, <3>2
  <2>2. CASE T # {}
    <3> DEFINE x == Chosen(T)
               U == T \ {x}
    <3>1. x \in T
      BY <2>2, ChosenIn
    <3>2. IsFiniteSet(T) /\ IsFiniteSet(T \cap R) /\ IsFiniteSet(U) /\ IsFiniteSet(U \cap R)
      BY FS_Subset
    <3>3. SumFunctionOnSet(f, T) = f[x] + SumFunctionOnSet(f, U)
      BY <2>2, <3>2, SumRecursion
    <3>4. SumFunctionOnSet(f, U) = val(U)
      BY <1>1, <3>1
    <3>5. /\ Cardinality(T) \in Nat /\ Cardinality(T \cap R) \in Nat
          /\ Cardinality(U) = Cardinality(T) - 1
      BY <3>1, <3>2, FS_CardinalityType, FS_RemoveElement
    <3>6. Cardinality(U \cap R)
            = Cardinality(T \cap R) - (IF x \in R THEN 1 ELSE 0)
      <4>1. U \cap R = (T \cap R) \ {x}
        OBVIOUS
      <4>2. Cardinality((T \cap R) \ {x})
              = IF x \in T \cap R THEN Cardinality(T \cap R) - 1 ELSE Cardinality(T \cap R)
        BY <3>2, FS_RemoveElement
      <4>3. x \in T \cap R <=> x \in R
        BY <3>1
      <4> DEFINE c == Cardinality(T \cap R)
      <4>4. c \in Nat
        BY <3>5
      <4> HIDE DEF x, U, c
      <4>5. Cardinality(U \cap R) = IF x \in R THEN c - 1 ELSE c
        BY <4>1, <4>2, <4>3 DEF c
      <4>6. Cardinality(U \cap R) = c - (IF x \in R THEN 1 ELSE 0)
        BY <4>4, <4>5
      <4>7. QED
        BY <4>6 DEF c
    <3>7. f[x] = q + (IF x \in R THEN 1 ELSE 0)
      BY <3>1 DEF Spread
    <3> HIDE DEF x, U
    <3>8. \A c \in Nat : q * (c - 1) = q * c - q
      OBVIOUS
    <3>9. q * Cardinality(U) = q * Cardinality(T) - q
      BY <3>5, <3>8
    <3>10. q * Cardinality(T) \in Nat
      BY <3>5
    <3>11. SumFunctionOnSet(f, T) = val(T)
      BY <3>3, <3>4, <3>5, <3>6, <3>7, <3>9, <3>10
    <3>12. QED
      BY <3>11
  <2>3. QED
    BY <2>1, <2>2
<1>2. SUBSET S \subseteq G
  <2> HIDE DEF G
  <2>1. QED
    BY <1>1, SubsetInduction
<1>3. S \in SUBSET S
  OBVIOUS
<1>4. QED
  BY <1>2, <1>3

\* Sums whose summands differ by at most half of q each.
LEMMA SumClose ==
  ASSUME NEW f, NEW g, NEW S, IsFiniteSet(S), NEW q \in Nat,
         \A x \in S : f[x] \in Int /\ g[x] \in Int /\ 2 * f[x] <= 2 * g[x] + q
  PROVE  2 * SumFunctionOnSet(f, S) <= 2 * SumFunctionOnSet(g, S) + q * Cardinality(S)
<1> DEFINE Near(T) == 2 * SumFunctionOnSet(f, T) <= 2 * SumFunctionOnSet(g, T) + q * Cardinality(T)
           G == {T \in SUBSET S : Near(T)}
<1>1. ASSUME NEW T \in SUBSET S, \A U \in SUBSET T : U # T => U \in G
      PROVE  T \in G
  <2>1. CASE T = {}
    <3>1. SumFunctionOnSet(f, T) = 0 /\ SumFunctionOnSet(g, T) = 0 /\ Cardinality(T) = 0
      BY <2>1, SumEmpty, FS_EmptySet
    <3>2. QED
      BY <3>1
  <2>2. CASE T # {}
    <3> DEFINE x == Chosen(T)
               U == T \ {x}
               sf == SumFunctionOnSet(f, U)
               sg == SumFunctionOnSet(g, U)
               c == Cardinality(U)
    <3>1. x \in T
      BY <2>2, ChosenIn
    <3>2. IsFiniteSet(T) /\ IsFiniteSet(U) /\ U \in SUBSET S
      BY FS_Subset
    <3>3. SumFunctionOnSet(f, T) = f[x] + sf /\ SumFunctionOnSet(g, T) = g[x] + sg
      BY <2>2, <3>2, SumRecursion
    <3>4. Cardinality(T) = c + 1 /\ c \in Nat
      BY <3>1, <3>2, FS_CardinalityType, FS_RemoveElement
    <3>5. sf \in Int /\ sg \in Int
      <4> HIDE DEF U
      <4>1. QED
        BY <3>2, SumInt
    <3>6. 2 * sf <= 2 * sg + q * c
      BY <1>1, <3>1
    <3>7. f[x] \in Int /\ g[x] \in Int /\ 2 * f[x] <= 2 * g[x] + q
      BY <3>1
    <3>8. q * (c + 1) = q * c + q /\ q * c \in Nat
      <4> HIDE DEF c
      <4>1. QED
        BY <3>4
    <3> DEFINE a == f[x]
               b == g[x]
               m == q * c
    <3> HIDE DEF x, U, sf, sg, c, a, b, m
    <3>9. 2 * (a + sf) <= 2 * (b + sg) + (m + q)
      BY <3>5, <3>6, <3>7, <3>8 DEF a, b, m
    <3>10. QED
      BY <3>3, <3>4, <3>8, <3>9 DEF a, b, m
  <2>3. QED
    BY <2>1, <2>2
<1>2. SUBSET S \subseteq G
  <2> HIDE DEF G
  <2>1. QED
    BY <1>1, SubsetInduction
<1>3. S \in SUBSET S
  OBVIOUS
<1>4. QED
  BY <1>2, <1>3

\* A summand is no larger than the sum.
LEMMA SumSummand ==
  ASSUME NEW f, NEW S, IsFiniteSet(S), \A x \in S : f[x] \in Nat, NEW x \in S
  PROVE  f[x] <= SumFunctionOnSet(f, S)
<1>1. \A y \in S : f[y] \in Int
  OBVIOUS
<1>2. SumFunctionOnSet(f, S) = f[x] + SumFunctionOnSet(f, S \ {x})
  BY <1>1, SumRemove
<1>3. SumFunctionOnSet(f, S \ {x}) \in Nat
  <2> DEFINE T == S \ {x}
  <2>1. IsFiniteSet(T) /\ \A y \in T : f[y] \in Nat
    BY FS_Subset
  <2> HIDE DEF T
  <2>2. SumFunctionOnSet(f, T) \in Nat
    BY <2>1, SumNat
  <2>3. QED
    BY <2>2 DEF T
<1>4. f[x] \in Nat
  OBVIOUS
<1>5. QED
  BY <1>2, <1>3, <1>4

\* A nonempty finite set of integers has a least element.
LEMMA LeastExists ==
  ASSUME NEW S \in SUBSET Int, IsFiniteSet(S), S # {}
  PROVE  \E x \in S : \A y \in S : x <= y
<1> DEFINE G == {T \in SUBSET S : T # {} => \E x \in T : \A y \in T : x <= y}
<1>1. ASSUME NEW T \in SUBSET S, \A U \in SUBSET T : U # T => U \in G
      PROVE  T \in G
  <2> SUFFICES ASSUME T # {} PROVE \E x \in T : \A y \in T : x <= y
    OBVIOUS
  <2>1. PICK z \in T : TRUE
    OBVIOUS
  <2>2. T \ {z} \in G
    BY <1>1, <2>1
  <2>3. CASE T \ {z} = {}
    BY <2>1, <2>3
  <2>4. CASE T \ {z} # {}
    <3>1. PICK x \in T \ {z} : \A y \in T \ {z} : x <= y
      BY <2>2, <2>4
    <3>2. x \in Int /\ z \in Int /\ \A y \in T : y \in Int
      OBVIOUS
    <3>3. CASE x <= z
      BY <3>1, <3>2, <3>3
    <3>4. CASE z <= x
      BY <3>1, <3>2, <3>4
    <3>5. QED
      BY <3>2, <3>3, <3>4
  <2>5. QED
    BY <2>3, <2>4
<1>2. SUBSET S \subseteq G
  <2> HIDE DEF G
  <2>1. QED
    BY <1>1, SubsetInduction
<1>3. S \in SUBSET S
  OBVIOUS
<1>4. QED
  BY <1>2, <1>3

\* A strict subset of a finite set has fewer elements.
LEMMA CardStrict ==
  ASSUME NEW S, IsFiniteSet(S), NEW T \in SUBSET S, T # S
  PROVE  /\ Cardinality(T) \in Nat /\ Cardinality(S) \in Nat
         /\ Cardinality(T) < Cardinality(S)
<1>1. IsFiniteSet(T) /\ Cardinality(T) <= Cardinality(S) /\ Cardinality(S) # Cardinality(T)
  BY FS_Subset
<1>2. Cardinality(T) \in Nat /\ Cardinality(S) \in Nat
  BY <1>1, FS_CardinalityType
<1>3. QED
  BY <1>1, <1>2

\* Fewer summands, none negative, make a smaller sum.
LEMMA SumSubset ==
  ASSUME NEW f, NEW S, IsFiniteSet(S), \A x \in S : f[x] \in Nat, NEW T \in SUBSET S
  PROVE  SumFunctionOnSet(f, T) <= SumFunctionOnSet(f, S)
<1> DEFINE G == {U \in SUBSET S : \A V \in SUBSET U :
                   SumFunctionOnSet(f, V) <= SumFunctionOnSet(f, U)}
<1>0. \A U \in SUBSET S : IsFiniteSet(U) /\ SumFunctionOnSet(f, U) \in Nat
  <2> SUFFICES ASSUME NEW U \in SUBSET S
               PROVE  IsFiniteSet(U) /\ SumFunctionOnSet(f, U) \in Nat
    OBVIOUS
  <2>1. IsFiniteSet(U) /\ \A x \in U : f[x] \in Nat
    BY FS_Subset
  <2>2. QED
    BY <2>1, SumNat
<1>1. ASSUME NEW U \in SUBSET S, \A W \in SUBSET U : W # U => W \in G
      PROVE  U \in G
  <2> SUFFICES ASSUME NEW V \in SUBSET U
               PROVE  SumFunctionOnSet(f, V) <= SumFunctionOnSet(f, U)
    OBVIOUS
  <2>1. CASE V = U
    BY <1>0, <2>1
  <2>2. CASE V # U
    <3>1. PICK x \in U : x \notin V
      BY <2>2
    <3> DEFINE W == U \ {x}
    <3>2. W \in G /\ V \in SUBSET W
      BY <1>1, <3>1
    <3>3. SumFunctionOnSet(f, V) <= SumFunctionOnSet(f, W)
      BY <3>2
    <3>4. \A y \in U : f[y] \in Int
      OBVIOUS
    <3>5. SumFunctionOnSet(f, U) = f[x] + SumFunctionOnSet(f, W)
      BY <1>0, <3>1, <3>4, SumRemove
    <3>6. /\ SumFunctionOnSet(f, V) \in Nat /\ SumFunctionOnSet(f, W) \in Nat
          /\ f[x] \in Nat
      BY <1>0
    <3> HIDE DEF W
    <3>7. QED
      BY <3>3, <3>5, <3>6
  <2>3. QED
    BY <2>1, <2>2
<1>2. SUBSET S \subseteq G
  <2> HIDE DEF G
  <2>1. QED
    BY <1>1, SubsetInduction
<1>3. S \in SUBSET S
  OBVIOUS
<1>4. S \in G
  BY <1>2, <1>3
<1>5. QED
  BY <1>4

-----------------------------------------------------------------------------
(* Recursive functions over an interval *)

\* Induction over an interval, stated with a set G like SubsetInduction.
LEMMA IntervalInduction ==
  ASSUME NEW n \in Nat, NEW G, 0 \in G, \A i \in 1 .. n : i - 1 \in G => i \in G
  PROVE  0 .. n \subseteq G
<1> DEFINE Bad == {i \in 0 .. n : i \notin G}
<1> SUFFICES ASSUME Bad # {} PROVE FALSE
  OBVIOUS
<1>1. IsFiniteSet(Bad) /\ Bad \in SUBSET Int
  <2>1. 0 \in Int /\ n \in Int
    OBVIOUS
  <2>2. IsFiniteSet(0 .. n)
    BY <2>1, FS_Interval
  <2>3. Bad \in SUBSET (0 .. n) /\ Bad \in SUBSET Int
    OBVIOUS
  <2> HIDE DEF Bad
  <2>4. QED
    BY <2>2, <2>3, FS_Subset
<1>2. PICK x \in Bad : \A y \in Bad : x <= y
  <2> HIDE DEF Bad
  <2>1. QED
    BY <1>1, LeastExists
<1>3. x \in 1 .. n /\ x - 1 \in 0 .. n
  OBVIOUS
<1>4. x - 1 \notin Bad
  BY <1>2, <1>3
<1>5. QED
  BY <1>3, <1>4

\* A recursion over 0 .. n: b first, then step h of the index and the last value.
Recurs(g, n, b, h) == g[0] = b /\ \A i \in 1 .. n : g[i] = h[<<i, g[i - 1]>>]

\* A recursion whose step stays within S has a solution.
LEMMA RecursionExists ==
  ASSUME NEW n \in Nat, NEW S, NEW b \in S, NEW h \in [(1 .. n) \X S -> S]
  PROVE  \E g \in [0 .. n -> S] : Recurs(g, n, b, h)
<1> DEFINE Solves(g, k) == g[0] = b /\ \A i \in 1 .. k : g[i] = h[<<i, g[i - 1]>>]
           G == {k \in 0 .. n : \E g \in [0 .. k -> S] : Solves(g, k)}
<1>1. 0 \in G
  <2> DEFINE g == [i \in 0 .. 0 |-> b]
  <2>1. g \in [0 .. 0 -> S] /\ g[0] = b
    OBVIOUS
  <2>2. \A i \in 1 .. 0 : FALSE
    OBVIOUS
  <2> HIDE DEF g
  <2>3. Solves(g, 0)
    BY <2>1, <2>2
  <2> HIDE DEF Solves
  <2>4. QED
    BY <2>1, <2>3
<1>2. ASSUME NEW k \in 1 .. n, k - 1 \in G PROVE k \in G
  <2>1. PICK g \in [0 .. k - 1 -> S] : Solves(g, k - 1)
    BY <1>2
  <2> DEFINE v == h[<<k, g[k - 1]>>]
             f == [i \in 0 .. k |-> IF i = k THEN v ELSE g[i]]
  <2>2. k - 1 \in 0 .. k - 1 /\ g[k - 1] \in S
    OBVIOUS
  <2>3. <<k, g[k - 1]>> \in (1 .. n) \X S
    BY <2>2
  <2>4. v \in S
    BY <2>3
  <2> HIDE DEF v
  <2>5. \A i \in 0 .. k : i # k => i \in 0 .. k - 1
    OBVIOUS
  <2>6. f \in [0 .. k -> S]
    BY <2>4, <2>5
  <2>7. \A i \in 0 .. k - 1 : f[i] = g[i]
    OBVIOUS
  <2>8. f[k] = v
    OBVIOUS
  <2> HIDE DEF f
  <2>9. f[0] = b
    BY <2>1, <2>7
  <2>10. ASSUME NEW i \in 1 .. k PROVE f[i] = h[<<i, f[i - 1]>>]
    <3>1. i - 1 \in 0 .. k - 1 /\ f[i - 1] = g[i - 1]
      BY <2>7
    <3>2. CASE i = k
      BY <2>8, <3>1, <3>2 DEF v
    <3>3. CASE i # k
      <4>1. i \in 1 .. k - 1 /\ i \in 0 .. k - 1
        BY <3>3
      <4>2. g[i] = h[<<i, g[i - 1]>>]
        BY <2>1, <4>1
      <4>3. QED
        BY <2>7, <3>1, <4>1, <4>2
    <3>4. QED
      BY <3>2, <3>3
  <2>11. Solves(f, k)
    BY <2>9, <2>10
  <2>12. k \in 0 .. n
    OBVIOUS
  <2> HIDE DEF Solves
  <2>13. QED
    BY <2>6, <2>11, <2>12
<1>3. 0 .. n \subseteq G
  <2> HIDE DEF G
  <2>1. QED
    BY <1>1, <1>2, IntervalInduction
<1>4. n \in G
  BY <1>3
<1>5. QED
  BY <1>4 DEF Recurs

\* A finite set of integers has a greatest element.
LEMMA GreatestExists ==
  ASSUME NEW S \in SUBSET Int, IsFiniteSet(S), S # {}
  PROVE  \E x \in S : \A y \in S : y <= x
<1> DEFINE G == {T \in SUBSET S : T # {} => \E x \in T : \A y \in T : y <= x}
<1>1. ASSUME NEW T \in SUBSET S, \A U \in SUBSET T : U # T => U \in G
      PROVE  T \in G
  <2> SUFFICES ASSUME T # {} PROVE \E x \in T : \A y \in T : y <= x
    OBVIOUS
  <2>1. PICK z \in T : TRUE
    OBVIOUS
  <2> DEFINE U == T \ {z}
  <2>2. U \in G
    BY <1>1
  <2>3. CASE U = {}
    BY <2>3
  <2>4. CASE U # {}
    <3>1. PICK x \in U : \A y \in U : y <= x
      BY <2>2, <2>4
    <3>2. x \in T /\ x \in Int /\ z \in Int /\ \A y \in T : y \in Int /\ (y = z \/ y <= x)
      BY <3>1
    <3> HIDE DEF U
    <3>3. QED
      BY <3>2
  <2>5. QED
    BY <2>3, <2>4
<1>2. SUBSET S \subseteq G
  <2> HIDE DEF G
  <2>1. QED
    BY <1>1, SubsetInduction
<1>3. S \in SUBSET S
  OBVIOUS
<1>4. S \in G
  BY <1>2, <1>3
<1>5. QED
  BY <1>4

\* The size of a set is the sum of as many ones.
LEMMA SumOnes ==
  ASSUME NEW S, IsFiniteSet(S), NEW f, \A x \in S : f[x] = 1
  PROVE  SumFunctionOnSet(f, S) = Cardinality(S)
<1>1. Spread(f, S, S, 0)
  BY DEF Spread
<1>2. SumFunctionOnSet(f, S) = 0 * Cardinality(S) + Cardinality(S \cap S)
  BY <1>1, SumSpread
<1>3. Cardinality(S) \in Nat /\ Cardinality(S \cap S) = Cardinality(S)
  <2>1. S \cap S = S
    OBVIOUS
  <2>2. QED
    BY <2>1, FS_CardinalityType
<1>4. \A n \in Nat : 0 * n + n = n
  OBVIOUS
<1>5. QED
  BY <1>2, <1>3, <1>4

\* A sum may be taken part by part.
LEMMA SumParts ==
  ASSUME NEW S, IsFiniteSet(S), NEW f, \A x \in S : f[x] \in Int,
         NEW B, IsFiniteSet(B), NEW g, \A x \in S : g[x] \in B
  PROVE  SumFunctionOnSet([b \in B |-> SumFunctionOnSet(f, {x \in S : g[x] = b})], B)
           = SumFunctionOnSet(f, S)
<1> DEFINE part(T) == [b \in B |-> SumFunctionOnSet(f, {x \in T : g[x] = b})]
           G == {T \in SUBSET S : SumFunctionOnSet(part(T), B) = SumFunctionOnSet(f, T)}
<1>1. ASSUME NEW T \in SUBSET S, \A U \in SUBSET T : U # T => U \in G
      PROVE  T \in G
  <2>0. IsFiniteSet(T) /\ \A x \in T : f[x] \in Int
    BY FS_Subset
  <2>1. ASSUME NEW U \in SUBSET S, NEW b
        PROVE  /\ IsFiniteSet({x \in U : g[x] = b})
               /\ \A x \in {y \in U : g[y] = b} : f[x] \in Int
               /\ SumFunctionOnSet(f, {x \in U : g[x] = b}) \in Int
    <3> DEFINE V == {x \in U : g[x] = b}
    <3>1. IsFiniteSet(V) /\ \A x \in V : f[x] \in Int
      BY FS_Subset
    <3> HIDE DEF V
    <3>2. SumFunctionOnSet(f, V) \in Int
      BY <3>1, SumInt
    <3>3. QED
      BY <3>1, <3>2 DEF V
  <2>2. CASE T = {}
    <3>1. \A b \in B : {x \in T : g[x] = b} = {}
      BY <2>2
    <3>2. \A b \in B : part(T)[b] = 0
      BY <3>1, SumEmpty
    <3>3. SumFunctionOnSet(f, T) = 0
      BY <2>2, SumEmpty
    <3> HIDE DEF part
    <3>4. SumFunctionOnSet(part(T), B) = 0
      BY <3>2, SumZero
    <3>5. QED
      BY <3>3, <3>4
  <2>3. CASE T # {}
    <3>1. PICK z \in T : TRUE
      BY <2>3
    <3> DEFINE U == T \ {z}
               c == g[z]
    <3>2. U \in SUBSET S /\ U \in G /\ c \in B /\ f[z] \in Int
      BY <1>1
    <3>3. SumFunctionOnSet(f, T) = f[z] + SumFunctionOnSet(f, U)
      BY <2>0, SumRemove
    <3>4. \A b \in B : part(T)[b] \in Int /\ part(U)[b] \in Int
      BY <2>1, <3>2
    <3>5. \A b \in B \ {c} : part(T)[b] = part(U)[b]
      <4> SUFFICES ASSUME NEW b \in B \ {c} PROVE part(T)[b] = part(U)[b]
        OBVIOUS
      <4>1. {x \in T : g[x] = b} = {x \in U : g[x] = b}
        OBVIOUS
      <4>2. QED
        BY <4>1
    <3>6. part(T)[c] = part(U)[c] + f[z]
      <4> DEFINE V == {x \in U : g[x] = c}
      <4>1. {x \in T : g[x] = c} = V \cup {z} /\ z \notin V
        OBVIOUS
      <4>2. IsFiniteSet(V) /\ \A x \in V \cup {z} : f[x] \in Int
        BY <2>1, <3>2
      <4>3. part(U)[c] = SumFunctionOnSet(f, V) /\ part(T)[c] = SumFunctionOnSet(f, V \cup {z})
        BY <3>2, <4>1
      <4> HIDE DEF V, part
      <4>4. SumFunctionOnSet(f, V \cup {z}) = SumFunctionOnSet(f, V) + f[z]
        BY <4>1, <4>2, SumInsert
      <4>5. QED
        BY <4>3, <4>4
    <3>7. SumFunctionOnSet(part(U), B) = SumFunctionOnSet(f, U)
      BY <3>2
    <3>8. SumFunctionOnSet(f, U) \in Int
      <4>1. IsFiniteSet(U) /\ \A x \in U : f[x] \in Int
        BY <2>0, FS_Subset
      <4> HIDE DEF U
      <4>2. QED
        BY <4>1, SumInt
    <3> HIDE DEF part, U, c
    <3>9. SumFunctionOnSet(part(T), B) = SumFunctionOnSet(part(U), B) + part(T)[c] - part(U)[c]
      BY <3>2, <3>4, <3>5, SumUpdate
    <3>10. part(U)[c] \in Int
      BY <3>2, <3>4
    <3>11. SumFunctionOnSet(part(T), B) = SumFunctionOnSet(f, T)
      BY <3>2, <3>3, <3>6, <3>7, <3>8, <3>9, <3>10
    <3>12. QED
      BY <3>11 DEF part
  <2>4. QED
    BY <2>2, <2>3
<1>2. SUBSET S \subseteq G
  <2> HIDE DEF G
  <2>1. QED
    BY <1>1, SubsetInduction
<1>3. S \in SUBSET S
  OBVIOUS
<1>4. S \in G
  BY <1>2, <1>3
<1>5. QED
  BY <1>4

\* The arguments in S where g has the value b.
Fibre(g, S, b) == {x \in S : g[x] = b}

\* The same, for any function that holds the partial sums.
LEMMA SumFibres ==
  ASSUME NEW S, IsFiniteSet(S), NEW f, \A x \in S : f[x] \in Int,
         NEW B, IsFiniteSet(B), NEW g, \A x \in S : g[x] \in B,
         NEW part, \A b \in B : part[b] = SumFunctionOnSet(f, Fibre(g, S, b))
  PROVE  SumFunctionOnSet(part, B) = SumFunctionOnSet(f, S)
<1> DEFINE sums == [b \in B |-> SumFunctionOnSet(f, {x \in S : g[x] = b})]
<1>1. SumFunctionOnSet(sums, B) = SumFunctionOnSet(f, S)
  BY SumParts
<1>2. ASSUME NEW b \in B PROVE part[b] \in Int /\ part[b] = sums[b]
  <2> DEFINE T == {x \in S : g[x] = b}
  <2>1. IsFiniteSet(T) /\ \A x \in T : f[x] \in Int
    BY FS_Subset
  <2>2. part[b] = SumFunctionOnSet(f, T) /\ sums[b] = SumFunctionOnSet(f, T)
    BY DEF Fibre
  <2> HIDE DEF T, sums
  <2>3. SumFunctionOnSet(f, T) \in Int
    BY <2>1, SumInt
  <2>4. QED
    BY <2>2, <2>3
<1> HIDE DEF sums
<1>3. SumFunctionOnSet(part, B) = SumFunctionOnSet(sums, B)
  BY <1>2, SumSame
<1>4. QED
  BY <1>1, <1>3

\* The sizes of the fibres of g add up to the size of its domain.
LEMMA CardParts ==
  ASSUME NEW S, IsFiniteSet(S), NEW B, IsFiniteSet(B), NEW g, \A x \in S : g[x] \in B,
         NEW c, \A b \in B : c[b] = Cardinality(Fibre(g, S, b))
  PROVE  SumFunctionOnSet(c, B) = Cardinality(S)
<1> DEFINE one == [x \in S |-> 1]
           part == [b \in B |-> SumFunctionOnSet(one, {x \in S : g[x] = b})]
<1>1. \A x \in S : one[x] = 1 /\ one[x] \in Int
  OBVIOUS
<1> HIDE DEF one
<1>2. SumFunctionOnSet(one, S) = Cardinality(S)
  BY <1>1, SumOnes
<1>3. SumFunctionOnSet(part, B) = SumFunctionOnSet(one, S)
  BY <1>1, SumParts
<1>4. ASSUME NEW b \in B PROVE c[b] \in Int /\ c[b] = part[b]
  <2> DEFINE T == {x \in S : g[x] = b}
  <2>1. IsFiniteSet(T) /\ \A x \in T : one[x] = 1
    BY <1>1, FS_Subset
  <2>2. c[b] = Cardinality(T) /\ part[b] = SumFunctionOnSet(one, T)
    BY DEF Fibre
  <2> HIDE DEF T, part
  <2>3. SumFunctionOnSet(one, T) = Cardinality(T) /\ Cardinality(T) \in Nat
    BY <2>1, SumOnes, FS_CardinalityType
  <2>4. QED
    BY <2>2, <2>3
<1> HIDE DEF part
<1>5. SumFunctionOnSet(c, B) = SumFunctionOnSet(part, B)
  BY <1>4, SumSame
<1>6. QED
  BY <1>2, <1>3, <1>5

\* A sum over two disjoint sets.
LEMMA SumDisjoint ==
  ASSUME NEW f, NEW S, IsFiniteSet(S), NEW T, IsFiniteSet(T), S \cap T = {},
         \A x \in S \cup T : f[x] \in Int
  PROVE  SumFunctionOnSet(f, S \cup T) = SumFunctionOnSet(f, S) + SumFunctionOnSet(f, T)
<1> DEFINE G == {U \in SUBSET T : SumFunctionOnSet(f, S \cup U) = SumFunctionOnSet(f, S) + SumFunctionOnSet(f, U)}
<1>0. SumFunctionOnSet(f, S) \in Int
  BY SumInt
<1>1. ASSUME NEW U \in SUBSET T, \A V \in SUBSET U : V # U => V \in G
      PROVE  U \in G
  <2>1. CASE U = {}
    <3>1. SumFunctionOnSet(f, U) = 0
      BY <2>1, SumEmpty
    <3>2. S \cup U = S
      BY <2>1
    <3>3. SumFunctionOnSet(f, S \cup U) = SumFunctionOnSet(f, S)
      BY <3>2
    <3>4. SumFunctionOnSet(f, S \cup U) = SumFunctionOnSet(f, S) + SumFunctionOnSet(f, U)
      BY <1>0, <3>1, <3>3
    <3>5. QED
      BY <3>4
  <2>2. CASE U # {}
    <3>1. PICK z \in U : TRUE
      BY <2>2
    <3> DEFINE V == U \ {z}
    <3>2. V \in G /\ V \cup {z} = U /\ z \notin V /\ z \notin S \cup V
      BY <1>1
    <3>3. S \cup U = (S \cup V) \cup {z}
      OBVIOUS
    <3>4. IsFiniteSet(V) /\ IsFiniteSet(S \cup V)
      BY FS_Subset, FS_Union
    <3>5. /\ \A y \in V \cup {z} : f[y] \in Int
          /\ \A y \in (S \cup V) \cup {z} : f[y] \in Int
          /\ f[z] \in Int
      OBVIOUS
    <3>6. SumFunctionOnSet(f, S \cup V) = SumFunctionOnSet(f, S) + SumFunctionOnSet(f, V)
      BY <3>2
    <3> HIDE DEF V
    <3>7. SumFunctionOnSet(f, V \cup {z}) = SumFunctionOnSet(f, V) + f[z]
      BY <3>2, <3>4, <3>5, SumInsert
    <3>8. SumFunctionOnSet(f, (S \cup V) \cup {z}) = SumFunctionOnSet(f, S \cup V) + f[z]
      BY <3>2, <3>4, <3>5, SumInsert
    <3>9. SumFunctionOnSet(f, V) \in Int
      BY <3>4, <3>5, SumInt
    <3>10. SumFunctionOnSet(f, S \cup U) = SumFunctionOnSet(f, S) + SumFunctionOnSet(f, U)
      <4>1. SumFunctionOnSet(f, S \cup U) = SumFunctionOnSet(f, S \cup V) + f[z]
        BY <3>3, <3>8
      <4>2. SumFunctionOnSet(f, U) = SumFunctionOnSet(f, V) + f[z]
        BY <3>2, <3>7
      <4>3. QED
        BY <1>0, <3>5, <3>6, <3>9, <4>1, <4>2
    <3>11. QED
      BY <3>10
  <2>3. QED
    BY <2>1, <2>2
<1>2. SUBSET T \subseteq G
  <2> HIDE DEF G
  <2>1. QED
    BY <1>1, SubsetInduction
<1>3. T \in SUBSET T
  OBVIOUS
<1>4. T \in G
  BY <1>2, <1>3
<1>5. QED
  BY <1>4

\* A sum of sums.
LEMMA SumAdd ==
  ASSUME NEW f, NEW g, NEW h, NEW S, IsFiniteSet(S),
         \A x \in S : g[x] \in Int /\ h[x] \in Int /\ f[x] = g[x] + h[x]
  PROVE  SumFunctionOnSet(f, S) = SumFunctionOnSet(g, S) + SumFunctionOnSet(h, S)
<1> DEFINE G == {T \in SUBSET S : SumFunctionOnSet(f, T) = SumFunctionOnSet(g, T) + SumFunctionOnSet(h, T)}
<1>1. ASSUME NEW T \in SUBSET S, \A U \in SUBSET T : U # T => U \in G
      PROVE  T \in G
  <2>0. IsFiniteSet(T)
    BY FS_Subset
  <2>1. CASE T = {}
    <3>1. SumFunctionOnSet(f, T) = 0 /\ SumFunctionOnSet(g, T) = 0 /\ SumFunctionOnSet(h, T) = 0
      BY <2>1, SumEmpty
    <3>2. QED
      BY <3>1
  <2>2. CASE T # {}
    <3>1. PICK z \in T : TRUE
      BY <2>2
    <3> DEFINE U == T \ {z}
    <3>2. U \in G
      BY <1>1
    <3>3. /\ \A x \in T : f[x] \in Int /\ g[x] \in Int /\ h[x] \in Int
          /\ f[z] = g[z] + h[z] /\ g[z] \in Int /\ h[z] \in Int
      OBVIOUS
    <3>4. /\ SumFunctionOnSet(f, T) = f[z] + SumFunctionOnSet(f, U)
          /\ SumFunctionOnSet(g, T) = g[z] + SumFunctionOnSet(g, U)
          /\ SumFunctionOnSet(h, T) = h[z] + SumFunctionOnSet(h, U)
      BY <2>0, <3>3, SumRemove
    <3>5. IsFiniteSet(U) /\ \A x \in U : g[x] \in Int /\ h[x] \in Int
      BY <2>0, FS_Subset
    <3>6. SumFunctionOnSet(f, U) = SumFunctionOnSet(g, U) + SumFunctionOnSet(h, U)
      BY <3>2
    <3> HIDE DEF U
    <3>7. SumFunctionOnSet(g, U) \in Int /\ SumFunctionOnSet(h, U) \in Int
      BY <3>5, SumInt
    <3>8. SumFunctionOnSet(f, T) = SumFunctionOnSet(g, T) + SumFunctionOnSet(h, T)
      BY <3>3, <3>4, <3>6, <3>7
    <3>9. QED
      BY <3>8
  <2>3. QED
    BY <2>1, <2>2
<1>2. SUBSET S \subseteq G
  <2> HIDE DEF G
  <2>1. QED
    BY <1>1, SubsetInduction
<1>3. S \in SUBSET S
  OBVIOUS
<1>4. S \in G
  BY <1>2, <1>3
<1>5. QED
  BY <1>4

\* Tagging the elements of a set with the same value keeps their number.
LEMMA CardTagged ==
  ASSUME NEW S, IsFiniteSet(S), NEW k
  PROVE  LET T == {<<x, k>> : x \in S}
         IN  IsFiniteSet(T) /\ Cardinality(T) = Cardinality(S)
<1> DEFINE T == {<<x, k>> : x \in S}
           f == [x \in S |-> <<x, k>>]
<1>1. f \in [S -> T] /\ (\A x, y \in S : f[x] = f[y] => x = y) /\ \A t \in T : \E x \in S : f[x] = t
  OBVIOUS
<1> HIDE DEF f, T
<1>2. f \in Bijection(S, T)
  BY <1>1 DEF Bijection, Injection, Surjection, IsInjective
<1>3. ExistsBijection(S, T)
  BY <1>2 DEF ExistsBijection
<1>4. IsFiniteSet(T) /\ Cardinality(T) = Cardinality(S)
  BY <1>3, FS_Bijection
<1>5. QED
  BY <1>4 DEF T

\* The values of a function on a finite set are finitely many.
LEMMA ImageFinite ==
  ASSUME NEW S, IsFiniteSet(S), NEW f
  PROVE  IsFiniteSet({f[x] : x \in S})
<1> DEFINE T == {f[x] : x \in S}
           h == [x \in S |-> f[x]]
<1>1. h \in [S -> T] /\ \A t \in T : \E x \in S : h[x] = t
  OBVIOUS
<1> HIDE DEF h, T
<1>2. h \in Surjection(S, T)
  BY <1>1 DEF Surjection
<1>3. IsFiniteSet(T)
  BY <1>2, FS_Surjection
<1>4. QED
  BY <1>3 DEF T
=============================================================================
