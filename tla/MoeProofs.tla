------------------------------ MODULE MoeProofs ------------------------------
(***************************************************************************)
(* Proofs about MoePlan and MoeExchange, for any number of ranks, tokens   *)
(* and iterations, and every routing.  The displacements are sums, which   *)
(* the first part turns into cardinalities: a sum over a set is the only   *)
(* function on its subsets with the sum's recurrence, and counting tokens  *)
(* has it.  The order of slots follows from inclusions.  The exchange is   *)
(* then followed by counting, for every pair of ranks, the rounds that one *)
(* has sent, that have come, and that the other has ended.                 *)
(***************************************************************************)
EXTENDS MoeExchange, FiniteSetTheorems, WellFoundedInduction, TLAPS

(* A nonempty set of naturals has a least element.                         *)
LEMMA Least ==
  ASSUME NEW S, S \subseteq Nat, S # {}
  PROVE  \E m \in S : \A k \in S : m <= k
<1>1. PICK m \in S : \A k \in S : <<k, m>> \notin OpToRel(<, Nat)
  BY NatLessThanWellFounded, WFMin
<1>2. \A k \in S : ~(k < m)
  BY <1>1 DEF OpToRel
<1> QED
  BY <1>2, SMT

(* A finite nonempty set of naturals has a maximum, which is its Max.      *)
LEMMA MaxOf ==
  ASSUME NEW S, S \subseteq Nat, S # {}, NEW b \in Nat, \A x \in S : x <= b
  PROVE  Max(S) \in S /\ \A x \in S : x <= Max(S)
<1> DEFINE B == {k \in Nat : \A x \in S : x <= k}
<1>1. B \subseteq Nat /\ B # {}
  OBVIOUS
<1>2. PICK m \in B : \A k \in B : m <= k
  <2> HIDE DEF B
  <2> QED BY <1>1, Least
<1>3. m \in S
  <2> SUFFICES ASSUME m \notin S PROVE FALSE
    OBVIOUS
  <2>1. \A x \in S : x <= m - 1
    BY SMT
  <2>2. PICK x \in S : x \in Nat /\ x <= m - 1
    BY <2>1
  <2>3. m - 1 \in Nat
    BY <2>2, SMT
  <2>4. m - 1 \in B
    BY <2>1, <2>3
  <2> QED BY <1>2, <2>3, <2>4, SMT
<1>4. \E x \in S : \A y \in S : x >= y
  BY <1>3, SMT
<1>5. Max(S) \in S /\ \A y \in S : Max(S) >= y
  BY <1>4 DEF Max
<1> QED BY <1>5, SMT

(* Two functions on the subsets of a finite set that are the same at the   *)
(* empty set and, at every other, if they are at a smaller one, are the    *)
(* same.                                                                   *)
LEMMA Agree ==
  ASSUME NEW S, IsFiniteSet(S), NEW g, NEW h, g[{}] = h[{}],
         \A T \in SUBSET S : T # {} => \E x \in T : g[T \ {x}] = h[T \ {x}] => g[T] = h[T]
  PROVE  g[S] = h[S]
<1> DEFINE Differ == {T \in SUBSET S : g[T] # h[T]}
<1> SUFFICES ASSUME Differ # {} PROVE FALSE
  OBVIOUS
<1>1. IsWellFoundedOn(StrictSubsetOrdering(S), SUBSET S)
  BY FS_StrictSubsetOrderingWellFounded, FS_FiniteSubsetsOfFinite
<1>2. PICK T \in Differ : \A U \in Differ : <<U, T>> \notin StrictSubsetOrdering(S)
  <2>1. Differ \subseteq SUBSET S
    OBVIOUS
  <2> HIDE DEF Differ
  <2> QED BY <1>1, <2>1, WFMin
<1>3. PICK x \in T : g[T \ {x}] = h[T \ {x}] => g[T] = h[T]
  OBVIOUS
<1>4. T \ {x} \in Differ
  BY <1>3
<1>5. <<T \ {x}, T>> \in StrictSubsetOrdering(S)
  BY DEF StrictSubsetOrdering
<1> QED BY <1>2, <1>4, <1>5

LEMMA Sizes == N \in Nat /\ N > 0 /\ Tokens \in Nat /\ Tokens > 0
  BY MoeAssumption, SMT

LEMMA TokenFinite == IsFiniteSet(Token) /\ Cardinality(Token) = Tokens
<1>1. Tokens - 1 \in Int /\ 0 \in Int
  BY Sizes, SMT
<1>2. IsFiniteSet(0 .. Tokens - 1)
      /\ Cardinality(0 .. Tokens - 1) = IF 0 > Tokens - 1 THEN 0 ELSE Tokens - 1 - 0 + 1
  BY <1>1, FS_Interval
<1> QED BY <1>2, Sizes, SMT DEF Token

(* The tokens that s sends to the experts of T.                            *)
Row(r, s, T) == {t \in Token : r[s][t] \in T}

(* The pairs of a source in T and a token of it that goes to e.            *)
Column(r, e, T) == {p \in T \X Token : r[p[1]][p[2]] = e}

LEMMA RoutedFinite ==
  ASSUME NEW r, NEW s, NEW e
  PROVE  IsFiniteSet(Routed(r, s, e)) /\ TokenCount(r, s, e) \in Nat
<1>1. Routed(r, s, e) \in SUBSET Token
  BY DEF Routed
<1> QED BY <1>1, TokenFinite, FS_Subset, FS_CardinalityType DEF TokenCount

LEMMA RowFinite ==
  ASSUME NEW r, NEW s, NEW T
  PROVE  IsFiniteSet(Row(r, s, T)) /\ Cardinality(Row(r, s, T)) \in Nat
<1>1. Row(r, s, T) \in SUBSET Token
  BY DEF Row
<1> QED BY <1>1, TokenFinite, FS_Subset, FS_CardinalityType

LEMMA RowGrows ==
  ASSUME NEW r, NEW s, NEW T, NEW x \in T
  PROVE  Cardinality(Row(r, s, T)) = TokenCount(r, s, x) + Cardinality(Row(r, s, T \ {x}))
<1>1. Row(r, s, T) = Routed(r, s, x) \cup Row(r, s, T \ {x})
  BY DEF Row, Routed
<1>2. Routed(r, s, x) \cap Row(r, s, T \ {x}) = {}
  BY DEF Row, Routed
<1>3. Cardinality(Routed(r, s, x) \cup Row(r, s, T \ {x})) =
        Cardinality(Routed(r, s, x)) + Cardinality(Row(r, s, T \ {x})) - Cardinality({})
  BY <1>2, FS_Union, RowFinite, RoutedFinite
<1>4. Cardinality(Routed(r, s, x)) \in Nat
  BY RoutedFinite DEF TokenCount
<1> QED BY <1>1, <1>3, <1>4, RowFinite, FS_EmptySet DEF TokenCount

LEMMA ColumnFinite ==
  ASSUME NEW r, NEW e, NEW T, IsFiniteSet(T)
  PROVE  IsFiniteSet(Column(r, e, T)) /\ Cardinality(Column(r, e, T)) \in Nat
<1>1. Column(r, e, T) \in SUBSET (T \X Token)
  BY DEF Column
<1>2. IsFiniteSet(T \X Token)
  BY TokenFinite, FS_Product
<1> QED BY <1>1, <1>2, FS_Subset, FS_CardinalityType

LEMMA ColumnGrows ==
  ASSUME NEW r, NEW e, NEW T, IsFiniteSet(T), NEW x \in T
  PROVE  Cardinality(Column(r, e, T)) = TokenCount(r, x, e) + Cardinality(Column(r, e, T \ {x}))
<1> DEFINE Own == {p \in {x} \X Token : r[p[1]][p[2]] = e}
<1> DEFINE f == [t \in Routed(r, x, e) |-> <<x, t>>]
<1>1. f \in Bijection(Routed(r, x, e), Own)
  <2>1. f \in [Routed(r, x, e) -> Own]
    BY DEF Routed
  <2>2. \A a, b \in Routed(r, x, e) : f[a] = f[b] => a = b
    OBVIOUS
  <2>3. \A p \in Own : \E t \in Routed(r, x, e) : f[t] = p
    <3> TAKE p \in Own
    <3>1. p[2] \in Routed(r, x, e) /\ p = <<x, p[2]>>
      BY DEF Routed
    <3> QED BY <3>1
  <2> HIDE DEF f, Own
  <2> QED BY <2>1, <2>2, <2>3 DEF Bijection, Injection, Surjection, IsInjective
<1>2. IsFiniteSet(Own) /\ Cardinality(Own) = TokenCount(r, x, e)
  <2> HIDE DEF f, Own
  <2>1. ExistsBijection(Routed(r, x, e), Own)
    BY <1>1 DEF ExistsBijection
  <2> QED BY <2>1, RoutedFinite, FS_Bijection DEF TokenCount
<1>3. Column(r, e, T) = Own \cup Column(r, e, T \ {x})
  BY DEF Column
<1>4. Own \cap Column(r, e, T \ {x}) = {}
  BY DEF Column
<1>5. IsFiniteSet(T \ {x})
  BY FS_RemoveElement
<1>6. IsFiniteSet(Column(r, e, T \ {x})) /\ Cardinality(Column(r, e, T \ {x})) \in Nat
  BY <1>5, ColumnFinite
<1> HIDE DEF f, Own
<1>7. Cardinality(Own \cup Column(r, e, T \ {x})) =
        Cardinality(Own) + Cardinality(Column(r, e, T \ {x})) - Cardinality({})
  <2>1. PICK A, B : A = Own /\ B = Column(r, e, T \ {x})
    OBVIOUS
  <2>2. IsFiniteSet(A) /\ IsFiniteSet(B) /\ A \cap B = {}
    BY <1>2, <1>4, <1>6, <2>1
  <2>3. Cardinality(A \cup B) = Cardinality(A) + Cardinality(B) - Cardinality({})
    BY <2>2, FS_Union
  <2> QED BY <2>1, <2>3
<1> QED BY <1>2, <1>3, <1>6, <1>7, RoutedFinite, FS_EmptySet

(* The sum of a row of the matrix counts the tokens of a source.           *)
LEMMA RowSum ==
  ASSUME NEW r, NEW s, NEW S, IsFiniteSet(S)
  PROVE  MapThenSumSet(LAMBDA q : TokenCount(r, s, q), S) = Cardinality(Row(r, s, S))
<1> DEFINE c == [T \in SUBSET S |-> Cardinality(Row(r, s, T))]
<1> DEFINE I(h) == [T \in SUBSET S |->
                      IF T = {} THEN 0
                      ELSE TokenCount(r, s, CHOOSE x \in T : TRUE) + h[T \ {CHOOSE x \in T : TRUE}]]
<1>1. MapThenSumSet(LAMBDA q : TokenCount(r, s, q), S) = (CHOOSE h : h = I(h))[S]
  BY DEF MapThenSumSet, MapThenFoldSet
<1>2. c = I(c)
  <2>1. ASSUME NEW T \in SUBSET S, T = {}
        PROVE  c[T] = 0
    <3>1. Row(r, s, T) = {}
      BY <2>1 DEF Row
    <3> QED BY <3>1, FS_EmptySet
  <2>2. ASSUME NEW T \in SUBSET S, T # {}
        PROVE  c[T] = TokenCount(r, s, CHOOSE x \in T : TRUE) + c[T \ {CHOOSE x \in T : TRUE}]
    <3>1. PICK x \in T : x = CHOOSE y \in T : TRUE
      BY <2>2
    <3>2. c[T] = TokenCount(r, s, x) + c[T \ {x}]
      BY RowGrows
    <3> QED BY <3>1, <3>2
  <2> QED BY <2>1, <2>2, Zenon
<1>3. PICK h : h = I(h) /\ h = CHOOSE g : g = I(g)
  <2> HIDE DEF c, I
  <2> QED BY <1>2
<1>4. c[{}] = h[{}]
  <2>1. c[{}] = 0
    BY <1>2
  <2>2. h[{}] = 0
    BY <1>3
  <2> QED BY <2>1, <2>2
<1>5. ASSUME NEW T \in SUBSET S, T # {}
      PROVE  \E x \in T : c[T \ {x}] = h[T \ {x}] => c[T] = h[T]
  <2>1. PICK x \in T : x = CHOOSE y \in T : TRUE
    BY <1>5
  <2>2. c[T] = TokenCount(r, s, x) + c[T \ {x}]
    BY RowGrows
  <2>3. I(h)[T] = TokenCount(r, s, x) + h[T \ {x}]
    BY <2>1, <1>5
  <2>4. h[T] = I(h)[T]
    BY <1>3
  <2> HIDE DEF c, I
  <2> QED BY <2>2, <2>3, <2>4
<1>6. c[S] = h[S]
  <2> HIDE DEF c, I
  <2> QED BY <1>4, <1>5, Agree
<1> QED BY <1>1, <1>3, <1>6

(* And that of a column the tokens for an expert.                          *)
LEMMA ColumnSum ==
  ASSUME NEW r, NEW e, NEW S, IsFiniteSet(S)
  PROVE  MapThenSumSet(LAMBDA q : TokenCount(r, q, e), S) = Cardinality(Column(r, e, S))
<1> DEFINE c == [T \in SUBSET S |-> Cardinality(Column(r, e, T))]
<1> DEFINE I(h) == [T \in SUBSET S |->
                      IF T = {} THEN 0
                      ELSE TokenCount(r, CHOOSE x \in T : TRUE, e) + h[T \ {CHOOSE x \in T : TRUE}]]
<1>0. \A T \in SUBSET S : IsFiniteSet(T)
  BY FS_Subset
<1>1. MapThenSumSet(LAMBDA q : TokenCount(r, q, e), S) = (CHOOSE h : h = I(h))[S]
  BY DEF MapThenSumSet, MapThenFoldSet
<1>2. c = I(c)
  <2>1. ASSUME NEW T \in SUBSET S, T = {}
        PROVE  c[T] = 0
    <3>1. Column(r, e, T) = {}
      BY <2>1 DEF Column
    <3> QED BY <3>1, FS_EmptySet
  <2>2. ASSUME NEW T \in SUBSET S, T # {}
        PROVE  c[T] = TokenCount(r, CHOOSE x \in T : TRUE, e) + c[T \ {CHOOSE x \in T : TRUE}]
    <3>1. PICK x \in T : x = CHOOSE y \in T : TRUE
      BY <2>2
    <3>2. c[T] = TokenCount(r, x, e) + c[T \ {x}]
      BY <1>0, ColumnGrows
    <3> QED BY <3>1, <3>2
  <2> QED BY <2>1, <2>2, Zenon
<1>3. PICK h : h = I(h) /\ h = CHOOSE g : g = I(g)
  <2> HIDE DEF c, I
  <2> QED BY <1>2
<1>4. c[{}] = h[{}]
  <2>1. c[{}] = 0
    BY <1>2
  <2>2. h[{}] = 0
    BY <1>3
  <2> QED BY <2>1, <2>2
<1>5. ASSUME NEW T \in SUBSET S, T # {}
      PROVE  \E x \in T : c[T \ {x}] = h[T \ {x}] => c[T] = h[T]
  <2>1. PICK x \in T : x = CHOOSE y \in T : TRUE
    BY <1>5
  <2>2. c[T] = TokenCount(r, x, e) + c[T \ {x}]
    BY <1>0, ColumnGrows
  <2>3. I(h)[T] = TokenCount(r, x, e) + h[T \ {x}]
    BY <2>1, <1>5
  <2>4. h[T] = I(h)[T]
    BY <1>3
  <2> HIDE DEF c, I
  <2> QED BY <2>2, <2>3, <2>4
<1>6. c[S] = h[S]
  <2> HIDE DEF c, I
  <2> QED BY <1>4, <1>5, Agree
<1> QED BY <1>1, <1>3, <1>6

-----------------------------------------------------------------------------
(* Displacements: where a block starts, and the next one.                  *)

LEMMA Below ==
  ASSUME NEW m \in 0 .. N
  PROVE  /\ IsFiniteSet(0 .. m-1) /\ 0 .. m-1 \subseteq PE
         /\ m < N => (m \in PE /\ m+1 \in 0 .. N /\ 0 .. (m+1)-1 = (0 .. m-1) \cup {m})
<1>1. m \in Nat /\ m <= N /\ m - 1 \in Int
  BY Sizes, SMT
<1>2. IsFiniteSet(0 .. m-1)
  BY <1>1, FS_Interval
<1>3. 0 .. m-1 \subseteq PE
  BY <1>1, Sizes, SMT DEF PE
<1>4. ASSUME m < N
      PROVE  m \in PE /\ m+1 \in 0 .. N /\ 0 .. (m+1)-1 = (0 .. m-1) \cup {m}
  BY <1>1, <1>4, Sizes, SMT DEF PE
<1> QED BY <1>2, <1>3, <1>4

LEMMA SendDisplIs ==
  ASSUME NEW r, NEW s, NEW e \in 0 .. N
  PROVE  SendDispl(r, s, e) = Cardinality(Row(r, s, 0 .. e-1))
<1>1. IsFiniteSet(0 .. e-1)
  BY Below
<1>2. MapThenSumSet(LAMBDA q : TokenCount(r, s, q), 0 .. e-1) = Cardinality(Row(r, s, 0 .. e-1))
  BY <1>1, RowSum
<1> QED BY <1>2 DEF SendDispl

LEMMA RecvDisplIs ==
  ASSUME NEW r, NEW e, NEW s \in 0 .. N
  PROVE  RecvDispl(r, e, s) = Cardinality(Column(r, e, 0 .. s-1))
<1>1. IsFiniteSet(0 .. s-1)
  BY Below
<1>2. MapThenSumSet(LAMBDA q : TokenCount(r, q, e), 0 .. s-1) = Cardinality(Column(r, e, 0 .. s-1))
  BY <1>1, ColumnSum
<1> QED BY <1>2 DEF RecvDispl

LEMMA ExpertTokensIs ==
  ASSUME NEW r, NEW e
  PROVE  ExpertTokens(r, e) = RecvDispl(r, e, N)
<1>1. N \in 0 .. N /\ PE = 0 .. N-1
  BY Sizes, SMT DEF PE
<1> QED BY <1>1 DEF ExpertTokens, RecvDispl

(* The blocks of a send buffer follow on each other from its first slot to *)
(* its last.                                                               *)
LEMMA SendBlocks ==
  ASSUME NEW r, NEW s
  PROVE  /\ SendDispl(r, s, 0) = 0
         /\ \A e \in 0 .. N : SendDispl(r, s, e) \in Nat
         /\ \A e \in PE : SendDispl(r, s, e+1) = SendDispl(r, s, e) + TokenCount(r, s, e)
         /\ \A d, e \in 0 .. N : d <= e => SendDispl(r, s, d) <= SendDispl(r, s, e)
         /\ (r \in Routings /\ s \in PE) => SendDispl(r, s, N) = Tokens
<1>1. SendDispl(r, s, 0) = 0
  <2>1. 0 \in 0 .. N /\ 0 .. 0-1 = {}
    BY Sizes, SMT
  <2>2. Row(r, s, 0 .. 0-1) = {}
    BY <2>1 DEF Row
  <2> QED BY <2>1, <2>2, SendDisplIs, FS_EmptySet
<1>2. \A e \in 0 .. N : SendDispl(r, s, e) \in Nat
  BY SendDisplIs, RowFinite
<1>3. ASSUME NEW e \in PE
      PROVE  SendDispl(r, s, e+1) = SendDispl(r, s, e) + TokenCount(r, s, e)
  <2>1. e \in 0 .. N /\ e < N
    BY Sizes, SMT DEF PE
  <2>2. e+1 \in 0 .. N /\ 0 .. (e+1)-1 = (0 .. e-1) \cup {e}
    BY <2>1, Below
  <2>3. e \in 0 .. (e+1)-1 /\ (0 .. (e+1)-1) \ {e} = 0 .. e-1
    BY <2>1, SMT
  <2>4. Cardinality(Row(r, s, 0 .. (e+1)-1)) = TokenCount(r, s, e) + Cardinality(Row(r, s, 0 .. e-1))
    BY <2>3, RowGrows
  <2>5. Cardinality(Row(r, s, 0 .. e-1)) \in Nat /\ TokenCount(r, s, e) \in Nat
    BY RowFinite, RoutedFinite
  <2>6. /\ SendDispl(r, s, e+1) = Cardinality(Row(r, s, 0 .. (e+1)-1))
        /\ SendDispl(r, s, e) = Cardinality(Row(r, s, 0 .. e-1))
    BY <2>1, <2>2, SendDisplIs
  <2> QED BY <2>4, <2>5, <2>6, SMT
<1>4. ASSUME NEW d \in 0 .. N, NEW e \in 0 .. N, d <= e
      PROVE  SendDispl(r, s, d) <= SendDispl(r, s, e)
  <2>1. 0 .. d-1 \subseteq 0 .. e-1
    BY <1>4, Sizes, SMT
  <2>2. Row(r, s, 0 .. d-1) \in SUBSET Row(r, s, 0 .. e-1)
    BY <2>1 DEF Row
  <2>3. Cardinality(Row(r, s, 0 .. d-1)) <= Cardinality(Row(r, s, 0 .. e-1))
    BY <2>2, RowFinite, FS_Subset
  <2> QED BY <2>3, SendDisplIs
<1>5. ASSUME r \in Routings, s \in PE
      PROVE  SendDispl(r, s, N) = Tokens
  <2>1. N \in 0 .. N /\ 0 .. N-1 = PE
    BY Sizes, SMT DEF PE
  <2>2. Row(r, s, 0 .. N-1) = Token
    BY <2>1, <1>5 DEF Row, Routings
  <2> QED BY <2>1, <2>2, SendDisplIs, TokenFinite
<1> QED BY <1>1, <1>2, <1>3, <1>4, <1>5

(* So do those of a receive buffer.                                        *)
LEMMA RecvBlocks ==
  ASSUME NEW r, NEW e
  PROVE  /\ RecvDispl(r, e, 0) = 0
         /\ \A s \in 0 .. N : RecvDispl(r, e, s) \in Nat
         /\ \A s \in PE : RecvDispl(r, e, s+1) = RecvDispl(r, e, s) + TokenCount(r, s, e)
         /\ \A s, u \in 0 .. N : s <= u => RecvDispl(r, e, s) <= RecvDispl(r, e, u)
<1>1. RecvDispl(r, e, 0) = 0
  <2>1. 0 \in 0 .. N /\ 0 .. 0-1 = {}
    BY Sizes, SMT
  <2>2. Column(r, e, 0 .. 0-1) = {}
    BY <2>1 DEF Column
  <2> QED BY <2>1, <2>2, RecvDisplIs, FS_EmptySet
<1>2. \A s \in 0 .. N : RecvDispl(r, e, s) \in Nat
  BY RecvDisplIs, ColumnFinite, Below
<1>3. ASSUME NEW s \in PE
      PROVE  RecvDispl(r, e, s+1) = RecvDispl(r, e, s) + TokenCount(r, s, e)
  <2>1. s \in 0 .. N /\ s < N
    BY Sizes, SMT DEF PE
  <2>2. s+1 \in 0 .. N /\ 0 .. (s+1)-1 = (0 .. s-1) \cup {s}
    BY <2>1, Below
  <2>3. s \in 0 .. (s+1)-1 /\ (0 .. (s+1)-1) \ {s} = 0 .. s-1
    BY <2>1, SMT
  <2>4. Cardinality(Column(r, e, 0 .. (s+1)-1)) = TokenCount(r, s, e) + Cardinality(Column(r, e, 0 .. s-1))
    <3>1. IsFiniteSet(0 .. (s+1)-1)
      BY <2>2, Below
    <3>2. PICK T : T = 0 .. (s+1)-1
      OBVIOUS
    <3>3. Cardinality(Column(r, e, T)) = TokenCount(r, s, e) + Cardinality(Column(r, e, T \ {s}))
      <4>1. IsFiniteSet(T) /\ s \in T
        BY <2>3, <3>1, <3>2
      <4> QED BY <4>1, ColumnGrows
    <3> QED BY <2>3, <3>2, <3>3
  <2>5. Cardinality(Column(r, e, 0 .. s-1)) \in Nat /\ TokenCount(r, s, e) \in Nat
    BY <2>1, ColumnFinite, RoutedFinite, Below
  <2>6. /\ RecvDispl(r, e, s+1) = Cardinality(Column(r, e, 0 .. (s+1)-1))
        /\ RecvDispl(r, e, s) = Cardinality(Column(r, e, 0 .. s-1))
    BY <2>1, <2>2, RecvDisplIs
  <2> QED BY <2>4, <2>5, <2>6, SMT
<1>4. ASSUME NEW s \in 0 .. N, NEW u \in 0 .. N, s <= u
      PROVE  RecvDispl(r, e, s) <= RecvDispl(r, e, u)
  <2>1. 0 .. s-1 \subseteq 0 .. u-1
    BY <1>4, Sizes, SMT
  <2>2. Column(r, e, 0 .. s-1) \in SUBSET Column(r, e, 0 .. u-1)
    BY <2>1 DEF Column
  <2>3. Cardinality(Column(r, e, 0 .. s-1)) <= Cardinality(Column(r, e, 0 .. u-1))
    BY <2>2, Below, ColumnFinite, FS_Subset
  <2> QED BY <2>3, RecvDisplIs
<1> QED BY <1>1, <1>2, <1>3, <1>4

-----------------------------------------------------------------------------
(* Packing.                                                                *)

(* How many elements of a set of tokens come before one.                   *)
Rank(S, t) == Cardinality({u \in S : u < t})

(* The elements of a set of tokens are ranked from 0 without a gap.        *)
LEMMA Ranked ==
  ASSUME NEW S \in SUBSET Token
  PROVE  /\ \A t \in S : Rank(S, t) \in 0 .. Cardinality(S) - 1
         /\ \A t, u \in S : t < u => Rank(S, t) < Rank(S, u)
         /\ \A t, u \in S : Rank(S, t) = Rank(S, u) => t = u
         /\ \A n \in 0 .. Cardinality(S) - 1 : \E t \in S : Rank(S, t) = n
<1> DEFINE Under(t) == {u \in S : u < t}
<1> S \subseteq Int
  BY DEF Token
<1>1. IsFiniteSet(S) /\ Cardinality(S) \in Nat
  BY TokenFinite, FS_Subset, FS_CardinalityType
<1>2. ASSUME NEW t \in S
      PROVE  IsFiniteSet(Under(t)) /\ Rank(S, t) \in Nat
  BY <1>1, FS_Subset, FS_CardinalityType DEF Rank
<1>3. ASSUME NEW t \in S
      PROVE  Rank(S, t) \in 0 .. Cardinality(S) - 1
  <2>1. Under(t) \in SUBSET S /\ Under(t) # S
    OBVIOUS
  <2>2. Cardinality(Under(t)) <= Cardinality(S) /\ Cardinality(S) # Cardinality(Under(t))
    <3> HIDE DEF Under
    <3> QED BY <1>1, <2>1, FS_Subset
  <2>3. Rank(S, t) = Cardinality(Under(t))
    BY DEF Rank
  <2> HIDE DEF Under
  <2> QED BY <1>1, <1>2, <2>2, <2>3, SMT
<1>4. ASSUME NEW t \in S, NEW u \in S, t < u
      PROVE  Rank(S, t) < Rank(S, u)
  <2>1. Under(t) \in SUBSET Under(u) /\ Under(t) # Under(u)
    <3>1. t \in Under(u) /\ t \notin Under(t)
      BY <1>4
    <3>2. \A x \in Under(t) : x \in Under(u)
      BY <1>4
    <3> QED BY <3>1, <3>2
  <2>2. Cardinality(Under(t)) <= Cardinality(Under(u)) /\ Cardinality(Under(u)) # Cardinality(Under(t))
    <3>1. IsFiniteSet(Under(u))
      BY <1>2
    <3> HIDE DEF Under
    <3> QED BY <2>1, <3>1, FS_Subset
  <2>3. Rank(S, t) = Cardinality(Under(t)) /\ Rank(S, u) = Cardinality(Under(u))
    BY DEF Rank
  <2> HIDE DEF Under
  <2> QED BY <1>2, <2>2, <2>3, SMT
<1>5. ASSUME NEW t \in S, NEW u \in S, Rank(S, t) = Rank(S, u)
      PROVE  t = u
  <2>1. Rank(S, t) \in Nat /\ Rank(S, u) \in Nat
    BY <1>2
  <2>2. ~(t < u) /\ ~(u < t)
    BY <1>4, <1>5, <2>1, SMT
  <2> QED BY <2>2, SMT
<1>6. ASSUME NEW n \in 0 .. Cardinality(S) - 1
      PROVE  \E t \in S : Rank(S, t) = n
  <2> DEFINE f == [t \in S |-> Rank(S, t)]
             Q == 0 .. Cardinality(S) - 1
  <2>1. f \in Injection(S, Q)
    <3>1. f \in [S -> Q]
      BY <1>3
    <3>2. \A t, u \in S : f[t] = f[u] => t = u
      BY <1>5
    <3> HIDE DEF f, Q
    <3> QED BY <3>1, <3>2 DEF Injection, IsInjective
  <2>2. IsFiniteSet(Q) /\ Cardinality(Q) = Cardinality(S)
    <3>1. PICK k \in Nat : k = Cardinality(S)
      BY <1>1
    <3>2. IsFiniteSet(0 .. k-1) /\ Cardinality(0 .. k-1) = IF 0 > k-1 THEN 0 ELSE k-1-0+1
      <4>1. k-1 \in Int /\ 0 \in Int
        BY SMT
      <4> QED BY <4>1, FS_Interval
    <3> QED BY <3>1, <3>2, SMT
  <2>3. f \in Surjection(S, Q)
    <3> HIDE DEF f, Q
    <3> QED BY <2>1, <2>2, FS_Injection
  <2>4. n \in Q
    OBVIOUS
  <2>5. \E t \in S : f[t] = n
    <3> HIDE DEF f, Q
    <3> QED BY <2>3, <2>4 DEF Surjection
  <2> QED BY <2>5
<1> QED BY <1>3, <1>4, <1>5, <1>6

LEMMA PackedIs ==
  ASSUME NEW r \in Routings, NEW s \in PE, NEW t \in Token
  PROVE  /\ r[s][t] \in PE /\ t \in Routed(r, s, r[s][t])
         /\ PackedAt(r, s, t) = SendDispl(r, s, r[s][t]) + Rank(Routed(r, s, r[s][t]), t)
         /\ Rank(Routed(r, s, r[s][t]), t) \in 0 .. TokenCount(r, s, r[s][t]) - 1
<1>1. r[s][t] \in PE /\ t \in Routed(r, s, r[s][t])
  BY DEF Routings, Routed
<1>2. Routed(r, s, r[s][t]) \in SUBSET Token
  BY DEF Routed
<1>3. Rank(Routed(r, s, r[s][t]), t) \in 0 .. TokenCount(r, s, r[s][t]) - 1
  BY <1>1, <1>2, Ranked DEF TokenCount
<1>4. PackedAt(r, s, t) = SendDispl(r, s, r[s][t]) + Rank(Routed(r, s, r[s][t]), t)
  BY DEF PackedAt, Rank
<1> QED BY <1>1, <1>3, <1>4

LEMMA PEType == \A p \in PE : p \in Nat /\ p \in 0 .. N /\ p + 1 \in 0 .. N /\ p < N
  BY Sizes, SMT DEF PE

(* Packing puts no two tokens into a slot, and none past the last one.     *)
LEMMA PackedApart ==
  ASSUME NEW r \in Routings, NEW s \in PE, NEW t \in Token, NEW u \in Token,
         PackedAt(r, s, t) = PackedAt(r, s, u)
  PROVE  t = u
<1>1. PICK d, e : d = r[s][t] /\ e = r[s][u]
  OBVIOUS
<1>2. PICK a, b : a = Rank(Routed(r, s, d), t) /\ b = Rank(Routed(r, s, e), u)
  OBVIOUS
<1>3. /\ d \in PE /\ e \in PE /\ t \in Routed(r, s, d) /\ u \in Routed(r, s, e)
      /\ a \in 0 .. TokenCount(r, s, d) - 1 /\ b \in 0 .. TokenCount(r, s, e) - 1
      /\ SendDispl(r, s, d) + a = SendDispl(r, s, e) + b
  BY <1>1, <1>2, PackedIs
<1>4. TokenCount(r, s, d) \in Nat /\ TokenCount(r, s, e) \in Nat
  BY RoutedFinite
<1>5. SendDispl(r, s, d) \in Nat /\ SendDispl(r, s, e) \in Nat
  BY <1>3, SendBlocks, PEType
<1>6. ~(d < e)
  <2> SUFFICES ASSUME d < e PROVE FALSE
    OBVIOUS
  <2>1. d + 1 \in 0 .. N /\ e \in 0 .. N /\ d + 1 <= e
    BY <1>3, PEType, SMT
  <2>2. SendDispl(r, s, d) + TokenCount(r, s, d) <= SendDispl(r, s, e)
    BY <1>3, <2>1, SendBlocks
  <2> QED BY <1>3, <1>4, <1>5, <2>2, SMT
<1>7. ~(e < d)
  <2> SUFFICES ASSUME e < d PROVE FALSE
    OBVIOUS
  <2>1. e + 1 \in 0 .. N /\ d \in 0 .. N /\ e + 1 <= d
    BY <1>3, PEType, SMT
  <2>2. SendDispl(r, s, e) + TokenCount(r, s, e) <= SendDispl(r, s, d)
    BY <1>3, <2>1, SendBlocks
  <2> QED BY <1>3, <1>4, <1>5, <2>2, SMT
<1>8. d = e
  BY <1>3, <1>6, <1>7, PEType, SMT
<1>9. a = b
  BY <1>3, <1>4, <1>5, <1>8, SMT
<1>10. Routed(r, s, d) \in SUBSET Token
  BY DEF Routed
<1>11. PICK S : S = Routed(r, s, d)
  OBVIOUS
<1>12. S \in SUBSET Token /\ t \in S /\ u \in S /\ Rank(S, t) = Rank(S, u)
  BY <1>2, <1>3, <1>8, <1>9, <1>10, <1>11
<1> QED BY <1>12, Ranked

LEMMA BlockInBuffer ==
  ASSUME NEW r \in Routings, NEW s \in PE, NEW e \in PE,
         NEW n \in 0 .. TokenCount(r, s, e) - 1
  PROVE  SendDispl(r, s, e) + n \in Token
<1>1. SendDispl(r, s, e) + TokenCount(r, s, e) <= SendDispl(r, s, N)
  BY SendBlocks, PEType, Sizes
<1>2. SendDispl(r, s, N) = Tokens /\ SendDispl(r, s, e) \in Nat /\ TokenCount(r, s, e) \in Nat
  BY SendBlocks, PEType, RoutedFinite
<1> QED BY <1>1, <1>2, Sizes, SMT DEF Token

LEMMA PackedType ==
  ASSUME NEW r \in Routings, NEW s \in PE, NEW t \in Token
  PROVE  PackedAt(r, s, t) \in Token
  BY PackedIs, BlockInBuffer

(* Packing fills the send buffer.                                          *)
THEOREM PackingFills ==
  ASSUME NEW r \in Routings, NEW s \in PE
  PROVE  {PackedAt(r, s, t) : t \in Token} = Token
<1> DEFINE f == [t \in Token |-> PackedAt(r, s, t)]
<1>1. f \in Injection(Token, Token)
  <2>1. f \in [Token -> Token]
    BY PackedType
  <2>2. \A t, u \in Token : f[t] = f[u] => t = u
    BY PackedApart
  <2> HIDE DEF f
  <2> QED BY <2>1, <2>2 DEF Injection, IsInjective
<1>2. f \in Surjection(Token, Token)
  <2> HIDE DEF f
  <2> QED BY <1>1, TokenFinite, FS_Injection
<1>3. \A k \in Token : \E t \in Token : f[t] = k
  <2> HIDE DEF f
  <2> QED BY <1>2 DEF Surjection
<1> QED BY <1>3, PackedType

(* The n-th token that s sends to e, which is what lies in slot n of the   *)
(* block of e in the send buffer.                                          *)
Nth(r, s, e, n) ==
  CHOOSE t \in Routed(r, s, e) : Cardinality({u \in Routed(r, s, e) : u < t}) = n

LEMMA NthIs ==
  ASSUME NEW r \in Routings, NEW s \in PE, NEW e \in PE,
         NEW t \in Token, r[s][t] = e
  PROVE  Nth(r, s, e, Rank(Routed(r, s, e), t)) = t
<1>1. t \in Routed(r, s, e) /\ Routed(r, s, e) \in SUBSET Token
  BY DEF Routed
<1>2. \A u \in Routed(r, s, e) : Rank(Routed(r, s, e), u) = Rank(Routed(r, s, e), t) => u = t
  BY <1>1, Ranked
<1> QED BY <1>1, <1>2 DEF Nth, Rank

(* The block of e in the send buffer holds the tokens for e in increasing  *)
(* order.                                                                  *)
THEOREM BlockInOrder ==
  ASSUME NEW r \in Routings, NEW s \in PE, NEW e \in PE,
         NEW n \in 0 .. TokenCount(r, s, e) - 1
  PROVE  /\ Nth(r, s, e, n) \in Token
         /\ TokenAt(r, s, SendDispl(r, s, e) + n) = Nth(r, s, e, n)
<1>1. Routed(r, s, e) \in SUBSET Token
  BY DEF Routed
<1>2. PICK t \in Routed(r, s, e) : Rank(Routed(r, s, e), t) = n
  BY <1>1, Ranked DEF TokenCount
<1>3. t \in Token /\ r[s][t] = e
  BY <1>2 DEF Routed
<1>4. Nth(r, s, e, n) = t
  BY <1>2, <1>3, NthIs
<1>5. PackedAt(r, s, t) = SendDispl(r, s, e) + n
  BY <1>2, <1>3, PackedIs
<1>6. TokenAt(r, s, SendDispl(r, s, e) + n) = t
  <2>1. \A u \in Token : PackedAt(r, s, u) = SendDispl(r, s, e) + n => u = t
    BY <1>3, <1>5, PackedApart
  <2> QED BY <1>3, <1>5, <2>1 DEF TokenAt
<1> QED BY <1>3, <1>4, <1>6

-----------------------------------------------------------------------------
(* What the plans of the ranks say of the receive buffers.                 *)

LEMMA RecvSlotsAre ==
  ASSUME NEW r, NEW e \in PE, NEW s \in PE
  PROVE  /\ RecvDispl(r, e, s) \in Nat /\ RecvDispl(r, e, s+1) \in Nat
         /\ RecvSlots(r, e, s) = RecvDispl(r, e, s) .. RecvDispl(r, e, s+1) - 1
         /\ \A i : i \in RecvSlots(r, e, s) <=>
                    (i \in Nat /\ i - RecvDispl(r, e, s) \in 0 .. TokenCount(r, s, e) - 1)
<1>1. RecvDispl(r, e, s) \in Nat /\ RecvDispl(r, e, s+1) \in Nat
  BY RecvBlocks, PEType
<1>2. RecvDispl(r, e, s+1) = RecvDispl(r, e, s) + TokenCount(r, s, e)
  BY RecvBlocks
<1>3. TokenCount(r, s, e) \in Nat
  BY RoutedFinite
<1>4. RecvSlots(r, e, s) = RecvDispl(r, e, s) .. RecvDispl(r, e, s+1) - 1
  <2>1. PICK d, c, f : /\ d = RecvDispl(r, e, s) /\ c = TokenCount(r, s, e)
                       /\ f = RecvDispl(r, e, s+1)
    OBVIOUS
  <2>2. f = d + c
    BY <1>2, <2>1
  <2>3. RecvSlots(r, e, s) = d .. d + c - 1
    BY <2>1, Zenon DEF RecvSlots
  <2>4. d \in Int /\ c \in Int /\ f \in Int
    BY <1>1, <1>3, <2>1
  <2>5. d .. d + c - 1 = d .. f - 1
    BY <2>2, <2>4, SMT
  <2> QED BY <2>1, <2>3, <2>5, Zenon
<1>5. ASSUME NEW i
      PROVE  i \in RecvSlots(r, e, s) <=>
               (i \in Nat /\ i - RecvDispl(r, e, s) \in 0 .. TokenCount(r, s, e) - 1)
  <2>1. PICK d, c : d = RecvDispl(r, e, s) /\ c = TokenCount(r, s, e)
    OBVIOUS
  <2>2. d \in Nat /\ c \in Nat
    BY <1>1, <1>3, <2>1
  <2>3. i \in d .. d + c - 1 <=> (i \in Nat /\ i - d \in 0 .. c - 1)
    BY <2>2, SMT
  <2> QED BY <2>1, <2>3 DEF RecvSlots
<1> QED BY <1>1, <1>4, <1>5

(* No two senders write the same slot.                                     *)
THEOREM SlotsApart ==
  ASSUME NEW r, NEW e \in PE, NEW s \in PE, NEW u \in PE, s # u
  PROVE  RecvSlots(r, e, s) \cap RecvSlots(r, e, u) = {}
<1>1. ASSUME NEW a \in PE, NEW b \in PE, a < b
      PROVE  RecvSlots(r, e, a) \cap RecvSlots(r, e, b) = {}
  <2>1. a + 1 \in 0 .. N /\ b \in 0 .. N /\ a + 1 <= b
    BY <1>1, PEType, SMT
  <2>2. RecvDispl(r, e, a+1) <= RecvDispl(r, e, b)
    BY <2>1, RecvBlocks
  <2>3. PICK i, j, k, l : /\ i = RecvDispl(r, e, a) /\ j = RecvDispl(r, e, a+1)
                          /\ k = RecvDispl(r, e, b) /\ l = RecvDispl(r, e, b+1)
    OBVIOUS
  <2>4. i \in Nat /\ j \in Nat /\ k \in Nat /\ l \in Nat /\ j <= k
    BY <2>2, <2>3, RecvSlotsAre
  <2>5. (i .. j-1) \cap (k .. l-1) = {}
    BY <2>4, SMT
  <2> QED BY <2>3, <2>5, RecvSlotsAre
<1>2. s < u \/ u < s
  BY PEType, SMT
<1> QED BY <1>1, <1>2

(* Every slot up to the last token of an expert is some sender's.          *)
THEOREM SlotsCover ==
  ASSUME NEW r, NEW e \in PE
  PROVE  UNION {RecvSlots(r, e, s) : s \in PE} = 0 .. ExpertTokens(r, e) - 1
<1>1. ExpertTokens(r, e) = RecvDispl(r, e, N) /\ RecvDispl(r, e, N) \in Nat
  BY ExpertTokensIs, RecvBlocks, Sizes
<1>2. ASSUME NEW s \in PE, NEW i \in RecvSlots(r, e, s)
      PROVE  i \in 0 .. RecvDispl(r, e, N) - 1
  <2>1. RecvDispl(r, e, s+1) <= RecvDispl(r, e, N)
    BY RecvBlocks, PEType, Sizes
  <2> QED BY <1>1, <1>2, <2>1, RecvSlotsAre
<1>3. ASSUME NEW i \in 0 .. RecvDispl(r, e, N) - 1
      PROVE  \E s \in PE : i \in RecvSlots(r, e, s)
  <2> DEFINE Above == {s \in 0 .. N : i < RecvDispl(r, e, s)}
  <2>1. N \in Above /\ Above \subseteq Nat
    BY <1>1, <1>3, Sizes, SMT
  <2>2. PICK m \in Above : \A k \in Above : m <= k
    <3> HIDE DEF Above
    <3> QED BY <2>1, Least
  <2>3. m \in 0 .. N /\ i < RecvDispl(r, e, m)
    OBVIOUS
  <2>4. m # 0
    BY <1>3, <2>3, RecvBlocks, SMT
  <2>5. m - 1 \in PE /\ m - 1 \in 0 .. N /\ (m - 1) + 1 = m
    BY <2>3, <2>4, Sizes, SMT DEF PE
  <2>6. ~(i < RecvDispl(r, e, m - 1))
    <3>1. m - 1 \notin Above
      <4> HIDE DEF Above
      <4> QED BY <2>2, <2>3, Sizes, SMT
    <3> QED BY <2>5, <3>1
  <2>7. PICK s \in PE : s = m - 1
    BY <2>5
  <2>8. i \in RecvDispl(r, e, s) .. RecvDispl(r, e, s+1) - 1
    <3>1. RecvDispl(r, e, s) \in Nat /\ RecvDispl(r, e, s+1) \in Nat
      BY RecvSlotsAre
    <3>2. i < RecvDispl(r, e, s+1) /\ ~(i < RecvDispl(r, e, s))
      BY <2>3, <2>5, <2>6, <2>7
    <3> QED BY <1>1, <1>3, <3>1, <3>2, SMT
  <2> QED BY <2>8, RecvSlotsAre
<1> QED BY <1>1, <1>2, <1>3

(* The buffers have room for every expert's tokens.                        *)
THEOREM BuffersSuffice ==
  ASSUME NEW r
  PROVE  /\ MaxExpertTokens(r) \in Nat
         /\ \A e \in PE : ExpertTokens(r, e) <= MaxExpertTokens(r)
<1> DEFINE S == {ExpertTokens(r, e) : e \in PE}
<1>1. IsFiniteSet(PE) /\ PE # {}
  <2>1. IsFiniteSet(0 .. N-1)
    BY Below, Sizes
  <2> QED BY <2>1, Sizes, SMT DEF PE
<1>2. IsFiniteSet(PE \X Token) /\ Cardinality(PE \X Token) \in Nat
  BY <1>1, TokenFinite, FS_Product, FS_CardinalityType
<1>3. ASSUME NEW e \in PE
      PROVE  ExpertTokens(r, e) \in Nat /\ ExpertTokens(r, e) <= Cardinality(PE \X Token)
  <2>1. ExpertTokens(r, e) = Cardinality(Column(r, e, PE))
    BY <1>1, ColumnSum DEF ExpertTokens
  <2>2. Column(r, e, PE) \in SUBSET (PE \X Token)
    BY DEF Column
  <2>3. Cardinality(Column(r, e, PE)) <= Cardinality(PE \X Token)
    BY <1>2, <2>2, FS_Subset
  <2> QED BY <1>1, <2>1, <2>3, ColumnFinite
<1>4. S \subseteq Nat /\ S # {} /\ \A x \in S : x <= Cardinality(PE \X Token)
  BY <1>1, <1>3
<1>5. Max(S) \in S /\ \A x \in S : x <= Max(S)
  <2> HIDE DEF S
  <2> QED BY <1>2, <1>4, MaxOf
<1>6. MaxExpertTokens(r) = Max(S)
  BY DEF MaxExpertTokens
<1> QED BY <1>4, <1>5, <1>6

LEMMA SlotInBuffer ==
  ASSUME NEW r, NEW e \in PE, NEW s \in PE
  PROVE  RecvSlots(r, e, s) \subseteq 0 .. MaxExpertTokens(r) - 1
<1>1. RecvSlots(r, e, s) \subseteq 0 .. ExpertTokens(r, e) - 1
  BY SlotsCover
<1>2. ExpertTokens(r, e) \in Nat /\ ExpertTokens(r, e) <= MaxExpertTokens(r) /\ MaxExpertTokens(r) \in Nat
  BY BuffersSuffice, ExpertTokensIs, RecvBlocks, Sizes
<1>3. 0 .. ExpertTokens(r, e) - 1 \subseteq 0 .. MaxExpertTokens(r) - 1
  BY <1>2, SMT
<1> QED BY <1>1, <1>3

LEMMA RecvBlock ==
  ASSUME NEW r, NEW e \in PE, NEW s \in PE, NEW n \in 0 .. TokenCount(r, s, e) - 1
  PROVE  /\ RecvDispl(r, e, s) + n \in RecvSlots(r, e, s)
         /\ RecvDispl(r, e, s) + n \in 0 .. MaxExpertTokens(r) - 1
         /\ \A u \in PE : RecvDispl(r, e, s) + n \in RecvSlots(r, e, u) => u = s
<1>1. RecvDispl(r, e, s) + n \in RecvSlots(r, e, s)
  <2>1. RecvDispl(r, e, s) \in Nat /\ TokenCount(r, s, e) \in Nat
    BY RecvSlotsAre, RoutedFinite
  <2> QED BY <2>1, SMT DEF RecvSlots
<1>2. \A u \in PE : RecvDispl(r, e, s) + n \in RecvSlots(r, e, u) => u = s
  BY <1>1, SlotsApart
<1> QED BY <1>1, <1>2, SlotInBuffer

(* A slot of a send buffer is of one expert's block.                       *)
LEMMA SendBlocksApart ==
  ASSUME NEW r, NEW s, NEW d \in PE, NEW e \in PE, NEW i,
         i \in Int,
         i - SendDispl(r, s, d) \in 0 .. TokenCount(r, s, d) - 1,
         i - SendDispl(r, s, e) \in 0 .. TokenCount(r, s, e) - 1
  PROVE  d = e
<1>1. ASSUME NEW a \in PE, NEW b \in PE, a < b,
             i - SendDispl(r, s, a) \in 0 .. TokenCount(r, s, a) - 1,
             i - SendDispl(r, s, b) \in 0 .. TokenCount(r, s, b) - 1
      PROVE  FALSE
  <2>1. a + 1 \in 0 .. N /\ b \in 0 .. N /\ a + 1 <= b
    BY <1>1, PEType, SMT
  <2>2. SendDispl(r, s, a) + TokenCount(r, s, a) <= SendDispl(r, s, b)
    BY <2>1, SendBlocks
  <2>3. /\ SendDispl(r, s, a) \in Nat /\ SendDispl(r, s, b) \in Nat
        /\ TokenCount(r, s, a) \in Nat /\ TokenCount(r, s, b) \in Nat
    BY PEType, SendBlocks, RoutedFinite
  <2> QED BY <1>1, <2>2, <2>3, SMT
<1>2. d < e \/ e < d \/ d = e
  BY PEType, SMT
<1> QED BY <1>1, <1>2

-----------------------------------------------------------------------------
(* A message of the k-th round.                                            *)
Message(s, d, f, k) == [src |-> s, dst |-> d, phase |-> f, round |-> k]

(* Before a PE comes to phase f of its round.                              *)
Ahead(p, f) == f = "combine" /\ pc[p][1] = "dispatch"

(* The last round whose phase f a PE has posted, that it has ended, and    *)
(* whose block from s has come to d.                                       *)
Sent(p, f) ==
  IF transport = "probed" THEN 0
  ELSE IF pc[p] = <<f, "put">> \/ Ahead(p, f) THEN round[p] - 1 ELSE round[p]
Ended(p, f) ==
  IF transport = "probed" THEN 0
  ELSE IF pc[p][1] = f \/ Ahead(p, f) THEN round[p] - 1 ELSE round[p]
Came(s, d, f) ==
  IF Message(s, d, f, Sent(s, f)) \in puts THEN Sent(s, f) - 1 ELSE Sent(s, f)

CallsOf(t) == IF t = "puts" THEN {"put", "quiet", "barrier"} ELSE {"put", "group"}
Finished == <<"done", "exit">>

(* Under the probe nothing has been sent; after it every PE is at a call   *)
(* of its transport, and with puts all are in the same phase.              *)
Places ==
  /\ transport = "probed" =>
       /\ \A p \in PE : pc[p] \in ProbePC \cup (Over \ {Finished}) /\ round[p] = 1
       /\ puts = {}
  /\ transport # "probed" => \A p \in PE : pc[p] \in (Phase \X CallsOf(transport)) \cup {Finished}
  /\ transport = "puts" => \A p, q \in PE : pc[p][1] = pc[q][1] /\ round[p] = round[q]

(* What is in flight is of the phase its sender is in.                     *)
InFlight ==
  \A m \in puts :
    /\ m.dst \in To(m.src, m.phase)
    /\ pc[m.src] \in {<<m.phase, "quiet">>, <<m.phase, "group">>}
    /\ m.round = round[m.src]

(* A PE has got from each of its peers what it has ended, and may have got *)
(* the block of the phase it is in.                                        *)
InStep ==
  \A s, d \in PE, f \in Phase :
    d \in To(s, f) =>
      \/ Came(s, d, f) = Ended(d, f)
      \/ /\ Came(s, d, f) = Ended(d, f) + 1 /\ pc[d][1] = f
         /\ transport # "puts" => pc[d][2] = "group"

(* The blocks that have come are those of their rounds.                    *)
HeldByExperts ==
  \A e, s \in PE :
    Came(s, e, "dispatch") > 0 =>
      \A n \in 0 .. TokenCount(route, s, e) - 1 :
        dispatch[e][RecvDispl(route, e, s) + n] =
          [src |-> s, token |-> Nth(route, s, e, n), round |-> Came(s, e, "dispatch")]
BackHome ==
  \A e, s \in PE :
    Came(e, s, "combine") > 0 =>
      \A n \in 0 .. TokenCount(route, s, e) - 1 :
        combined[s][SendDispl(route, s, e) + n] =
          [src |-> s, token |-> Nth(route, s, e, n), round |-> Came(e, s, "combine")]

Control == Places /\ InFlight /\ InStep
IInv == TypeOK /\ Control /\ HeldByExperts /\ BackHome

-----------------------------------------------------------------------------
LEMMA ToOthers ==
  ASSUME NEW p, NEW f
  PROVE  p \notin To(p, f) /\ To(p, f) \subseteq PE
  BY DEF To

LEMMA PostedRound ==
  ASSUME TypeOK, Control, transport # "probed", NEW p \in PE, NEW f \in Phase
  PROVE  /\ round[p] \in Nat /\ round[p] > 0
         /\ Sent(p, f) \in Nat /\ Ended(p, f) \in Nat
         /\ \A m \in puts : m.src = p /\ m.phase = f => m.round = Sent(p, f) /\ Sent(p, f) = round[p]
<1>1. round[p] \in Nat /\ round[p] > 0
  BY RoundsAssumption, SMT DEF TypeOK
<1>2. Sent(p, f) \in Nat /\ Ended(p, f) \in Nat
  BY <1>1, SMT DEF Sent, Ended
<1>3. ASSUME NEW m \in puts, m.src = p, m.phase = f
      PROVE  m.round = Sent(p, f) /\ Sent(p, f) = round[p]
  <2>1. pc[p] \in {<<f, "quiet">>, <<f, "group">>} /\ m.round = round[p]
    BY <1>3 DEF Control, InFlight
  <2>2. pc[p] # <<f, "put">> /\ ~Ahead(p, f)
    BY <2>1 DEF Ahead
  <2> QED BY <2>1, <2>2 DEF Sent
<1> QED BY <1>1, <1>2, <1>3

(* Nothing of p's is in flight while it is about to post, or once it has   *)
(* waited.                                                                 *)
LEMMA NothingOf ==
  ASSUME TypeOK, Control, NEW p \in PE, pc[p][2] \notin {"quiet", "group"}
  PROVE  \A m \in puts : m.src # p
  BY DEF Control, InFlight

(* A phase is posted: what p sends is on its way, what it keeps has come.  *)
Posting(p, f) ==
  /\ pc[p] = <<f, "put">>
  /\ PostTo(p, f)
  /\ UNCHANGED <<transport, route, round>>

LEMMA PostingPlaces ==
  ASSUME TypeOK, Control, NEW p \in PE, NEW f \in Phase, Posting(p, f)
  PROVE  /\ transport # "probed"
         /\ pc'[p] = <<f, IF transport = "puts" THEN "quiet" ELSE "group">>
         /\ \A q \in PE \ {p} : pc'[q] = pc[q]
         /\ pc' \in [PE -> (Phase \X Call) \cup ProbePC \cup Over]
         /\ Places'
<1>1. transport # "probed"
  BY DEF Control, Places, ProbePC, Over, Posting, Phase
<1>2. pc'[p] = <<f, IF transport = "puts" THEN "quiet" ELSE "group">> /\ \A q \in PE \ {p} : pc'[q] = pc[q]
  BY DEF TypeOK, Posting, PostTo, Goto
<1>3. pc'[p] \in Phase \X CallsOf(transport) /\ pc'[p] \in Phase \X Call /\ pc'[p][1] = pc[p][1]
  BY <1>2 DEF CallsOf, Call, Posting
<1>4. pc' \in [PE -> (Phase \X Call) \cup ProbePC \cup Over]
  BY <1>3 DEF TypeOK, Posting, PostTo, Goto
<1>5. Places'
  <2>1. \A q \in PE : pc'[q] \in (Phase \X CallsOf(transport)) \cup {Finished}
    BY <1>1, <1>2, <1>3 DEF Control, Places
  <2>2. \A q \in PE : pc'[q][1] = pc[q][1]
    BY <1>2, <1>3
  <2> QED BY <1>1, <2>1, <2>2 DEF Control, Places, Posting
<1> QED BY <1>1, <1>2, <1>4, <1>5

LEMMA PostingPuts ==
  ASSUME TypeOK, Control, NEW p \in PE, NEW f \in Phase, Posting(p, f)
  PROVE  /\ puts' = puts \cup {Message(p, q, f, round[p]) : q \in To(p, f)}
         /\ \A m \in puts : m.src # p
         /\ \A q, g : To(q, g)' = To(q, g)
         /\ puts' \subseteq Put
         /\ InFlight'
<1>1. puts' = puts \cup {Message(p, q, f, round[p]) : q \in To(p, f)}
  BY DEF Posting, PostTo, Message
<1>2. \A m \in puts : m.src # p
  BY NothingOf DEF Posting
<1>3. \A q, g : To(q, g)' = To(q, g)
  BY DEF Posting, To
<1>4. \A q \in To(p, f) : Message(p, q, f, round[p]) \in Put
  BY ToOthers DEF TypeOK, Message, Put
<1>5. puts' \subseteq Put
  BY <1>1, <1>4 DEF TypeOK
<1>6. InFlight'
  <2> SUFFICES ASSUME NEW m \in puts'
               PROVE  /\ m.dst \in To(m.src, m.phase)
                      /\ pc'[m.src] \in {<<m.phase, "quiet">>, <<m.phase, "group">>}
                      /\ m.round = round'[m.src]
    BY <1>3 DEF InFlight
  <2>1. CASE m \in puts
    <3>1. m.src \in PE /\ m.src # p
      BY <1>2, <2>1 DEF TypeOK, Put
    <3>2. pc'[m.src] = pc[m.src] /\ round' = round
      BY <3>1, PostingPlaces DEF Posting
    <3> QED BY <2>1, <3>2 DEF Control, InFlight
  <2>2. CASE m \in {Message(p, q, f, round[p]) : q \in To(p, f)}
    <3>1. m.src = p /\ m.phase = f /\ m.round = round[p] /\ m.dst \in To(p, f)
      BY <2>2 DEF Message
    <3> QED BY <3>1, PostingPlaces DEF Posting
  <2> QED BY <1>1, <2>1, <2>2
<1> QED BY <1>1, <1>2, <1>3, <1>5, <1>6

LEMMA PostingCounts ==
  ASSUME TypeOK, Control, NEW p \in PE, NEW f \in Phase, Posting(p, f)
  PROVE  /\ \A s \in PE, g \in Phase : Sent(s, g)' = IF s = p /\ g = f THEN round[p] ELSE Sent(s, g)
         /\ \A d \in PE, g \in Phase : Ended(d, g)' = Ended(d, g)
         /\ \A s, d \in PE, g \in Phase :
              Came(s, d, g)' = IF s = p /\ g = f /\ d \notin To(p, f) THEN round[p] ELSE Came(s, d, g)
<1>1. ASSUME NEW s \in PE, NEW g \in Phase
      PROVE  Sent(s, g)' = IF s = p /\ g = f THEN round[p] ELSE Sent(s, g)
  <2>1. CASE s # p
    BY <2>1, PostingPlaces DEF Sent, Ahead, Posting
  <2>2. CASE s = p
    BY <2>2, PostingPlaces DEF Sent, Ahead, Posting, Phase
  <2> QED BY <2>1, <2>2
<1>2. ASSUME NEW d \in PE, NEW g \in Phase
      PROVE  Ended(d, g)' = Ended(d, g)
  <2>1. pc'[d][1] = pc[d][1]
    BY PostingPlaces DEF Posting
  <2> QED BY <2>1 DEF Ended, Ahead, Posting
<1>3. ASSUME NEW s \in PE, NEW d \in PE, NEW g \in Phase
      PROVE  Came(s, d, g)' = IF s = p /\ g = f /\ d \notin To(p, f) THEN round[p] ELSE Came(s, d, g)
  <2>1. CASE ~(s = p /\ g = f)
    <3>1. \A k : Message(s, d, g, k) \in puts' <=> Message(s, d, g, k) \in puts
      BY <2>1, PostingPuts DEF Message
    <3> QED BY <1>1, <2>1, <3>1 DEF Came, Message
  <2>2. CASE s = p /\ g = f
    <3>1. Sent(p, f)' = round[p] /\ Sent(p, f) = round[p] - 1
      BY <1>1, PostingPlaces DEF Sent, Posting
    <3>2. \A k : Message(p, d, f, k) \notin puts
      BY PostingPuts DEF Message
    <3>3. \A k : Message(p, d, f, k) \in puts' <=> d \in To(p, f) /\ k = round[p]
      BY <3>2, PostingPuts DEF Message
    <3>4. Came(p, d, f) = round[p] - 1
      BY <3>1, <3>2 DEF Came
    <3>5. Came(p, d, f)' = IF d \in To(p, f) THEN round[p] - 1 ELSE round[p]
      BY <3>1, <3>3 DEF Came, Message
    <3> QED BY <2>2, <3>4, <3>5
  <2> QED BY <2>1, <2>2
<1> QED BY <1>1, <1>2, <1>3

LEMMA PostingKeeps ==
  ASSUME TypeOK, Control, NEW p \in PE, NEW f \in Phase, Posting(p, f)
  PROVE  Control'
<1>1. InStep'
  <2> SUFFICES ASSUME NEW s \in PE, NEW d \in PE, NEW g \in Phase, d \in To(s, g)'
               PROVE  \/ Came(s, d, g)' = Ended(d, g)'
                      \/ /\ Came(s, d, g)' = Ended(d, g)' + 1 /\ pc'[d][1] = g
                         /\ transport' # "puts" => pc'[d][2] = "group"
    BY DEF InStep
  <2>1. d \in To(s, g)
    BY PostingPuts
  <2>2. Came(s, d, g)' = Came(s, d, g) /\ Ended(d, g)' = Ended(d, g)
    BY <2>1, PostingCounts
  <2>3. pc'[d][1] = pc[d][1] /\ (pc[d][2] = "group" => pc'[d][2] = "group") /\ transport' = transport
    BY PostingPlaces DEF Posting
  <2> QED BY <2>1, <2>2, <2>3 DEF Control, InStep
<1> QED BY <1>1, PostingPlaces, PostingPuts DEF Control

-----------------------------------------------------------------------------
(* The call a PE is at tells the transport.                                *)
LEMMA CallNames ==
  ASSUME TypeOK, Control, NEW p \in PE
  PROVE  /\ pc[p][2] \in {"quiet", "barrier"} => transport = "puts"
         /\ pc[p][2] = "group" => transport = "groups"
<1>1. CASE transport = "probed"
  <2>1. pc[p] \in ProbePC \cup (Over \ {Finished})
    BY <1>1 DEF Control, Places
  <2>2. pc[p][2] \in {"post", "wait", "reduce", "exit"}
    BY <2>1 DEF ProbePC, Over
  <2> QED BY <2>2
<1>2. CASE transport # "probed"
  <2>1. pc[p] \in (Phase \X CallsOf(transport)) \cup {Finished}
    BY <1>2 DEF Control, Places
  <2>2. pc[p][2] \in CallsOf(transport) \cup {"exit"}
    BY <2>1 DEF Finished
  <2> QED BY <1>2, <2>2 DEF CallsOf, TypeOK, Transports
<1> QED BY <1>1, <1>2

(* p moves on to pc' without posting: what it has sent stays.              *)
LEMMA QuietKeeps ==
  ASSUME TypeOK, Control, NEW p \in PE, Quiet(p)
  PROVE  /\ Control'
         /\ pc' \in [PE -> (Phase \X Call) \cup ProbePC \cup Over]
         /\ transport # "probed"
         /\ \A s, d \in PE, g \in Phase : Came(s, d, g)' = Came(s, d, g)
<1>1. PICK f \in Phase : pc[p] = <<f, "quiet">> /\ pc' = [pc EXCEPT ![p] = <<f, "barrier">>]
  BY DEF Quiet, Goto
<1>2. UNCHANGED <<transport, route, round, puts>>
  BY DEF Quiet, setup
<1>3. transport = "puts"
  <2>1. pc[p][2] = "quiet"
    BY <1>1
  <2> QED BY <2>1, CallNames
<1>4. pc'[p] = <<f, "barrier">> /\ \A q \in PE \ {p} : pc'[q] = pc[q]
  BY <1>1 DEF TypeOK
<1>5. \A q \in PE : pc'[q][1] = pc[q][1] /\ \A g \in Phase : pc'[q] = <<g, "put">> <=> pc[q] = <<g, "put">>
  BY <1>1, <1>4
<1>6. /\ \A q \in PE, g \in Phase : Sent(q, g)' = Sent(q, g) /\ Ended(q, g)' = Ended(q, g)
      /\ \A q, g : To(q, g)' = To(q, g)
  BY <1>2, <1>5 DEF Sent, Ended, Ahead, To
<1>7. \A s, d \in PE, g \in Phase : Came(s, d, g)' = Came(s, d, g)
  BY <1>2, <1>6 DEF Came, Message
<1>8. Places'
  <2>1. \A q \in PE : pc'[q] \in (Phase \X CallsOf(transport)) \cup {Finished}
    BY <1>3, <1>4 DEF Control, Places, CallsOf
  <2> QED BY <1>2, <1>3, <1>5, <2>1 DEF Control, Places
<1>9. InFlight'
  <2>1. \A m \in puts : m.src \in PE /\ m.src # p
    BY DEF Quiet, TypeOK, Put
  <2> QED BY <1>2, <1>4, <1>6, <2>1 DEF Control, InFlight
<1>10. InStep'
  BY <1>2, <1>3, <1>5, <1>6, <1>7 DEF Control, InStep
<1>11. pc' \in [PE -> (Phase \X Call) \cup ProbePC \cup Over]
  BY <1>1 DEF TypeOK, Call
<1> QED BY <1>3, <1>7, <1>8, <1>9, <1>10, <1>11 DEF Control

(* q comes to the end of phase f.                                          *)
Ending(q, f) ==
  /\ pc[q][1] = f /\ pc[q][2] # "put"
  /\ pc'[q] = NextPhase(q, f) /\ round'[q] = RoundAfter(q, pc'[q])

LEMMA EndingCounts ==
  ASSUME TypeOK, transport # "probed", NEW q \in PE, NEW f \in Phase,
         Ending(q, f), transport' = transport
  PROVE  /\ pc'[q] \in {<<"combine", "put">>, <<"dispatch", "put">>, Finished}
         /\ pc'[q] \in (Phase \X Call) \cup ProbePC \cup Over
         /\ round'[q] \in 1 .. Rounds
         /\ \A g \in Phase : Sent(q, g)' = Sent(q, g)
         /\ \A g \in Phase : Ended(q, g)' = IF g = f THEN round[q] ELSE Ended(q, g)
<1>1. round[q] \in 1 .. Rounds /\ Rounds \in Nat
  BY RoundsAssumption DEF TypeOK
<1>2. CASE f = "dispatch"
  <2>1. pc'[q] = <<"combine", "put">> /\ round'[q] = round[q]
    BY <1>2 DEF Ending, NextPhase, RoundAfter
  <2>2. pc[q] # <<"dispatch", "put">> /\ pc[q] # <<"combine", "put">>
    BY <1>2 DEF Ending
  <2>3. \A g \in Phase : Sent(q, g)' = Sent(q, g)
    BY <1>2, <2>1, <2>2 DEF Sent, Ahead, Phase, Ending
  <2>4. \A g \in Phase : Ended(q, g)' = IF g = f THEN round[q] ELSE Ended(q, g)
    BY <1>2, <2>1 DEF Ended, Ahead, Phase, Ending
  <2> QED BY <1>1, <2>1, <2>3, <2>4 DEF Phase, Call
<1>3. CASE f = "combine"
  <2>1. \/ pc'[q] = <<"dispatch", "put">> /\ round'[q] = round[q] + 1 /\ round[q] < Rounds
        \/ pc'[q] = Finished /\ round'[q] = round[q]
    BY <1>3 DEF Ending, NextPhase, RoundAfter, Finished
  <2>2. pc[q] # <<"dispatch", "put">> /\ pc[q] # <<"combine", "put">> /\ pc[q][1] # "dispatch"
    BY <1>3 DEF Ending
  <2>3. \A g \in Phase : Sent(q, g)' = Sent(q, g)
    BY <1>1, <1>3, <2>1, <2>2 DEF Sent, Ahead, Phase, Finished
  <2>4. \A g \in Phase : Ended(q, g)' = IF g = f THEN round[q] ELSE Ended(q, g)
    BY <1>1, <1>3, <2>1, <2>2 DEF Ended, Ahead, Phase, Ending, Finished
  <2>5. round'[q] \in 1 .. Rounds
    BY <1>1, <2>1, SMT
  <2> QED BY <2>1, <2>3, <2>4, <2>5 DEF Phase, Call, Over, Finished
<1> QED BY <1>2, <1>3 DEF Phase

LEMMA BarrierKeeps ==
  ASSUME TypeOK, Control, Barrier
  PROVE  /\ Control'
         /\ pc' \in [PE -> (Phase \X Call) \cup ProbePC \cup Over] /\ round' \in [PE -> 1 .. Rounds]
         /\ \A s, d \in PE, g \in Phase : Came(s, d, g)' = Came(s, d, g)
<1>1. UNCHANGED <<transport, route, puts>> /\ \A p \in PE : pc[p][2] = "barrier"
  BY DEF Barrier, setup
<1>2. transport = "puts"
  <2>1. 0 \in PE
    BY Sizes, SMT DEF PE
  <2>2. pc[0][2] = "barrier"
    BY <1>1, <2>1
  <2> QED BY <2>1, <2>2, CallNames
<1>3. PICK f \in Phase : \A p \in PE : pc[p] = <<f, "barrier">>
  <2>1. 0 \in PE
    BY Sizes, SMT DEF PE
  <2>2. \A p \in PE : pc[p] \in Phase \X CallsOf(transport) /\ pc[p][2] = "barrier" /\ pc[p][1] = pc[0][1]
    BY <1>1, <1>2, <2>1 DEF Control, Places, Finished
  <2> QED BY <2>1, <2>2
<1>4. puts = {}
  <2> SUFFICES ASSUME NEW m \in puts PROVE FALSE
    OBVIOUS
  <2>1. m.src \in PE
    BY DEF TypeOK, Put
  <2>2. pc[m.src][2] \in {"quiet", "group"}
    BY DEF Control, InFlight
  <2> QED BY <1>1, <2>1, <2>2
<1>5. \A p \in PE : Ending(p, f)
  BY <1>3 DEF Barrier, Ending
<1>6. \A p \in PE :
        /\ pc'[p] \in {<<"combine", "put">>, <<"dispatch", "put">>, Finished}
        /\ pc'[p] \in (Phase \X Call) \cup ProbePC \cup Over
        /\ round'[p] \in 1 .. Rounds
        /\ \A g \in Phase : Sent(p, g)' = Sent(p, g)
        /\ \A g \in Phase : Ended(p, g)' = IF g = f THEN round[p] ELSE Ended(p, g)
  BY <1>1, <1>2, <1>5, EndingCounts
<1>7. \A p, q \in PE : pc'[p] = pc'[q] /\ round'[p] = round'[q]
  <2>1. \A p, q \in PE : round[p] = round[q]
    BY <1>2 DEF Control, Places
  <2> QED BY <1>5, <2>1 DEF Ending, NextPhase, RoundAfter
<1>8. Places'
  BY <1>1, <1>2, <1>6, <1>7 DEF Places, CallsOf, Phase
<1>9. InFlight'
  BY <1>1, <1>4 DEF InFlight
<1>10. \A s, d \in PE, g \in Phase : Came(s, d, g)' = Came(s, d, g) /\ Came(s, d, g) = Sent(s, g)
  BY <1>1, <1>4, <1>6 DEF Came
<1>11. InStep'
  <2> SUFFICES ASSUME NEW s \in PE, NEW d \in PE, NEW g \in Phase, d \in To(s, g)'
               PROVE  Came(s, d, g)' = Ended(d, g)'
    BY DEF InStep
  <2>1. CASE g = f
    <3>1. Sent(s, g) = round[s]
      BY <1>2, <1>3, <2>1 DEF Sent, Ahead
    <3>2. round[s] = round[d]
      BY <1>2 DEF Control, Places
    <3> QED BY <1>6, <1>10, <2>1, <3>1, <3>2
  <2>2. CASE g # f
    <3>1. d \in To(s, g)
      BY <1>1 DEF To
    <3>2. pc[d][1] # g
      BY <1>3, <2>2
    <3>3. Came(s, d, g) = Ended(d, g)
      BY <3>1, <3>2 DEF Control, InStep
    <3> QED BY <1>6, <1>10, <2>2, <3>3
  <2> QED BY <2>1, <2>2
<1>12. pc' \in [PE -> (Phase \X Call) \cup ProbePC \cup Over] /\ round' \in [PE -> 1 .. Rounds]
  BY <1>6 DEF Barrier
<1> QED BY <1>8, <1>9, <1>10, <1>11, <1>12 DEF Control

LEMMA EndGroupKeeps ==
  ASSUME TypeOK, Control, NEW p \in PE, EndGroup(p)
  PROVE  /\ Control' /\ transport # "probed"
         /\ pc' \in [PE -> (Phase \X Call) \cup ProbePC \cup Over] /\ round' \in [PE -> 1 .. Rounds]
         /\ \A s, d \in PE, g \in Phase : Came(s, d, g)' = Came(s, d, g)
<1>1. UNCHANGED <<transport, route, puts>> /\ pc[p][2] = "group" /\ \A m \in puts : m.src # p
  BY DEF EndGroup, setup
<1>2. transport = "groups"
  BY <1>1, CallNames
<1>3. PICK f \in Phase : pc[p] = <<f, "group">>
  BY <1>1, <1>2 DEF Control, Places, Finished
<1>4. /\ pc' = [pc EXCEPT ![p] = NextPhase(p, f)]
      /\ round' = [round EXCEPT ![p] = RoundAfter(p, NextPhase(p, f))]
      /\ \A q \in From(p, f) : Posted(q) >= Posted(p) /\ Message(q, p, f, round[p]) \notin puts
  BY <1>3 DEF EndGroup, Message
<1>5. Ending(p, f) /\ \A q \in PE \ {p} : pc'[q] = pc[q] /\ round'[q] = round[q]
  BY <1>3, <1>4 DEF Ending, TypeOK
<1>6. /\ pc'[p] \in {<<"combine", "put">>, <<"dispatch", "put">>, Finished}
      /\ pc'[p] \in (Phase \X Call) \cup ProbePC \cup Over
      /\ round'[p] \in 1 .. Rounds
      /\ \A g \in Phase : Sent(p, g)' = Sent(p, g)
      /\ \A g \in Phase : Ended(p, g)' = IF g = f THEN round[p] ELSE Ended(p, g)
  BY <1>1, <1>2, <1>5, EndingCounts
<1>7. \A q \in PE, g \in Phase :
        /\ Sent(q, g)' = Sent(q, g)
        /\ Ended(q, g)' = IF q = p /\ g = f THEN round[p] ELSE Ended(q, g)
  <2>1. \A q \in PE \ {p}, g \in Phase : Sent(q, g)' = Sent(q, g) /\ Ended(q, g)' = Ended(q, g)
    BY <1>1, <1>5 DEF Sent, Ended, Ahead
  <2> QED BY <1>6, <2>1
<1>8. \A s, d \in PE, g \in Phase : Came(s, d, g)' = Came(s, d, g)
  BY <1>1, <1>7 DEF Came, Message
<1>9. Places'
  <2>1. \A q \in PE : pc'[q] \in (Phase \X CallsOf(transport)) \cup {Finished}
    BY <1>2, <1>5, <1>6 DEF Control, Places, CallsOf, Phase
  <2> QED BY <1>1, <1>2, <2>1 DEF Places
<1>10. InFlight'
  <2>1. \A m \in puts : m.src \in PE /\ m.src # p
    BY <1>1 DEF TypeOK, Put
  <2>2. \A q, g : To(q, g)' = To(q, g)
    BY <1>1 DEF To
  <2> QED BY <1>1, <1>5, <2>1, <2>2 DEF Control, InFlight
<1>11. InStep'
  <2> SUFFICES ASSUME NEW s \in PE, NEW d \in PE, NEW g \in Phase, d \in To(s, g)'
               PROVE  \/ Came(s, d, g)' = Ended(d, g)'
                      \/ /\ Came(s, d, g)' = Ended(d, g)' + 1 /\ pc'[d][1] = g
                         /\ transport' # "puts" => pc'[d][2] = "group"
    BY DEF InStep
  <2>1. d \in To(s, g)
    BY <1>1 DEF To
  <2>2. CASE d # p
    BY <1>1, <1>5, <1>7, <1>8, <2>1, <2>2 DEF Control, InStep
  <2>3. CASE d = p /\ g # f
    <3>1. pc[p][1] # g
      BY <1>3, <2>3
    <3> QED BY <1>7, <1>8, <2>1, <2>3, <3>1 DEF Control, InStep
  <2>4. CASE d = p /\ g = f
    <3>1. s \in From(p, f)
      BY <2>1, <2>4 DEF From
    <3>2. Ended(p, f) = round[p] - 1
      BY <1>2, <1>3 DEF Ended
    <3>3. /\ round[p] \in Nat /\ round[s] \in Nat /\ Sent(s, f) \in Nat
          /\ \A m \in puts : m.src = s /\ m.phase = f => m.round = Sent(s, f)
      BY <1>2, PostedRound
    <3>4. Sent(s, f) >= round[p]
      <4>1. Posted(s) >= Posted(p)
        BY <1>4, <3>1
      <4>2. Posted(p) = 2 * round[p] + (IF f = "dispatch" THEN 0 ELSE 1)
        BY <1>3, <3>3 DEF Posted
      <4>3. pc[s] \in (Phase \X {"put", "group"}) \cup {Finished}
        BY <1>2 DEF Control, Places, CallsOf
      <4>4. CASE pc[s] = Finished
        <5>1. Posted(s) = 2 * round[s] + 1
          BY <4>4, <3>3 DEF Posted, Finished
        <5>2. Sent(s, f) = round[s]
          BY <1>2, <4>4 DEF Sent, Ahead, Finished
        <5> QED BY <3>3, <4>1, <4>2, <5>1, <5>2, SMT
      <4>5. CASE pc[s] = <<"dispatch", "put">>
        <5>1. Posted(s) = 2 * round[s] - 1
          BY <4>5, <3>3 DEF Posted
        <5>2. Sent(s, f) = round[s] - 1
          BY <1>2, <4>5 DEF Sent, Ahead, Phase
        <5> QED BY <3>3, <4>1, <4>2, <5>1, <5>2, SMT
      <4>6. CASE pc[s] = <<"dispatch", "group">>
        <5>1. Posted(s) = 2 * round[s]
          BY <4>6, <3>3 DEF Posted
        <5>2. Sent(s, f) = IF f = "dispatch" THEN round[s] ELSE round[s] - 1
          BY <1>2, <4>6 DEF Sent, Ahead, Phase
        <5> QED BY <3>3, <4>1, <4>2, <5>1, <5>2, SMT
      <4>7. CASE pc[s] = <<"combine", "put">>
        <5>1. Posted(s) = 2 * round[s]
          BY <4>7, <3>3 DEF Posted
        <5>2. Sent(s, f) = IF f = "dispatch" THEN round[s] ELSE round[s] - 1
          BY <1>2, <4>7 DEF Sent, Ahead, Phase
        <5> QED BY <3>3, <4>1, <4>2, <5>1, <5>2, SMT
      <4>8. CASE pc[s] = <<"combine", "group">>
        <5>1. Posted(s) = 2 * round[s] + 1
          BY <4>8, <3>3 DEF Posted
        <5>2. Sent(s, f) = round[s]
          BY <1>2, <4>8 DEF Sent, Ahead, Phase
        <5> QED BY <3>3, <4>1, <4>2, <5>1, <5>2, SMT
      <4> QED BY <4>3, <4>4, <4>5, <4>6, <4>7, <4>8 DEF Phase
    <3>5. Came(s, p, f) >= round[p]
      <4>1. CASE Message(s, p, f, Sent(s, f)) \in puts
        <5>1. Sent(s, f) # round[p]
          BY <1>4, <3>1, <4>1
        <5>2. Came(s, p, f) = Sent(s, f) - 1
          BY <4>1 DEF Came
        <5> QED BY <3>3, <3>4, <5>1, <5>2, SMT
      <4>2. CASE Message(s, p, f, Sent(s, f)) \notin puts
        BY <3>4, <4>2 DEF Came
      <4> QED BY <4>1, <4>2
    <3>6. Came(s, p, f) = Ended(p, f) \/ Came(s, p, f) = Ended(p, f) + 1
      BY <2>1, <2>4 DEF Control, InStep
    <3>7. Came(s, p, f) = round[p]
      BY <3>2, <3>3, <3>5, <3>6, SMT
    <3> QED BY <1>7, <1>8, <2>4, <3>7
  <2> QED BY <2>2, <2>3, <2>4
<1>12. pc' \in [PE -> (Phase \X Call) \cup ProbePC \cup Over] /\ round' \in [PE -> 1 .. Rounds]
  BY <1>4, <1>5, <1>6 DEF TypeOK
<1> QED BY <1>2, <1>8, <1>9, <1>10, <1>11, <1>12 DEF Control

LEMMA DeliverKeeps ==
  ASSUME TypeOK, Control, NEW m \in puts, Deliver(m)
  PROVE  /\ Control' /\ transport # "probed" /\ m.src \in PE /\ m.dst \in PE /\ m.phase \in Phase
         /\ m.dst \in To(m.src, m.phase)
         /\ m.round = round[m.src] /\ pc[m.src][1] = m.phase /\ pc[m.src][2] # "put"
         /\ \A s, d \in PE, g \in Phase :
              Came(s, d, g)' = IF s = m.src /\ d = m.dst /\ g = m.phase THEN m.round ELSE Came(s, d, g)
<1>1. UNCHANGED <<transport, route, round, pc>> /\ puts' = puts \ {m}
  BY DEF Deliver, setup
<1>2. transport # "probed"
  BY DEF Control, Places
<1>3. PICK s \in PE, d \in PE, f \in Phase : s = m.src /\ d = m.dst /\ f = m.phase
  BY DEF TypeOK, Put
<1>4. d \in To(s, f) /\ m.round = round[s] /\ pc[s] \in {<<f, "quiet">>, <<f, "group">>}
  BY <1>3 DEF Control, InFlight
<1>5. /\ \A q, g : To(q, g)' = To(q, g)
      /\ \A q \in PE, g \in Phase : Sent(q, g)' = Sent(q, g) /\ Ended(q, g)' = Ended(q, g)
  BY <1>1 DEF Sent, Ended, Ahead, To
<1>6. m = Message(s, d, f, round[s]) /\ Sent(s, f) = round[s] /\ round[s] \in Nat
  BY <1>2, <1>3, <1>4, PostedRound DEF TypeOK, Put, Message
<1>7. \A a, b \in PE, g \in Phase :
        Came(a, b, g)' = IF a = s /\ b = d /\ g = f THEN round[s] ELSE Came(a, b, g)
  <2> TAKE a \in PE, b \in PE, g \in Phase
  <2>1. CASE a = s /\ b = d /\ g = f
    BY <1>1, <1>5, <1>6, <2>1 DEF Came, Message
  <2>2. CASE ~(a = s /\ b = d /\ g = f)
    <3>1. Message(a, b, g, Sent(a, g)) # m
      BY <1>6, <2>2 DEF Message
    <3>2. Message(a, b, g, Sent(a, g)) \in puts' <=> Message(a, b, g, Sent(a, g)) \in puts
      BY <1>1, <3>1
    <3> QED BY <1>5, <2>2, <3>2 DEF Came, Message
  <2> QED BY <2>1, <2>2
<1>8. Places' /\ InFlight'
  <2>1. Places'
    BY <1>1, <1>2 DEF Control, Places
  <2>2. InFlight'
    BY <1>1, <1>5 DEF Control, InFlight
  <2> QED BY <2>1, <2>2
<1>9. /\ round[d] = round[s] /\ pc[d][1] = f
      /\ transport # "puts" => pc[d][2] = "group"
  <2>1. CASE transport = "puts"
    BY <1>4, <2>1 DEF Control, Places
  <2>2. CASE transport # "puts"
    BY <1>3, <1>4, <2>2 DEF Deliver
  <2> QED BY <2>1, <2>2
<1>10. InStep'
  <2> SUFFICES ASSUME NEW a \in PE, NEW b \in PE, NEW g \in Phase, b \in To(a, g)'
               PROVE  \/ Came(a, b, g)' = Ended(b, g)'
                      \/ /\ Came(a, b, g)' = Ended(b, g)' + 1 /\ pc'[b][1] = g
                         /\ transport' # "puts" => pc'[b][2] = "group"
    BY DEF InStep
  <2>1. CASE a = s /\ b = d /\ g = f
    <3>1. Ended(d, f) = round[s] - 1
      BY <1>2, <1>9 DEF Ended
    <3> QED BY <1>1, <1>5, <1>6, <1>7, <1>9, <2>1, <3>1
  <2>2. CASE ~(a = s /\ b = d /\ g = f)
    <3>1. Came(a, b, g)' = Came(a, b, g)
      BY <1>7, <2>2
    <3> QED BY <1>1, <1>5, <3>1 DEF Control, InStep
  <2> QED BY <2>1, <2>2
<1> QED BY <1>2, <1>3, <1>4, <1>7, <1>8, <1>10 DEF Control

-----------------------------------------------------------------------------
Buffer == [0 .. MaxExpertTokens(route) - 1 -> Item]
Home == [Token -> Item]

LEMMA DispatchedIs ==
  ASSUME TypeOK, NEW src \in PE, NEW dst \in PE, NEW k \in 0 .. Rounds
  PROVE  /\ Dispatched(src, dst, k) \in [PE -> Buffer]
         /\ \A e, s \in PE : \A n \in 0 .. TokenCount(route, s, e) - 1 :
              Dispatched(src, dst, k)[e][RecvDispl(route, e, s) + n] =
                IF e = dst /\ s = src
                THEN [src |-> s, token |-> Nth(route, s, e, n), round |-> k]
                ELSE dispatch[e][RecvDispl(route, e, s) + n]
<1>1. dispatch \in [PE -> Buffer] /\ route \in Routings
  BY DEF TypeOK, Buffer
<1>2. PICK w : w = [i \in DOMAIN dispatch[dst] |->
                      IF i \in RecvSlots(route, dst, src)
                      THEN LET slot == SendDispl(route, src, dst) + i - RecvDispl(route, dst, src)
                           IN  [src |-> src, token |-> TokenAt(route, src, slot), round |-> k]
                      ELSE dispatch[dst][i]]
  OBVIOUS
<1>3. Dispatched(src, dst, k) = [dispatch EXCEPT ![dst] = w]
  BY <1>2 DEF Dispatched
<1>4. DOMAIN dispatch[dst] = 0 .. MaxExpertTokens(route) - 1
  BY <1>1 DEF Buffer
<1>5. ASSUME NEW i \in RecvSlots(route, dst, src)
      PROVE  /\ i - RecvDispl(route, dst, src) \in 0 .. TokenCount(route, src, dst) - 1
             /\ i \in DOMAIN dispatch[dst]
             /\ w[i] = [src |-> src, token |-> Nth(route, src, dst, i - RecvDispl(route, dst, src)), round |-> k]
             /\ Nth(route, src, dst, i - RecvDispl(route, dst, src)) \in Token
  <2>1. i \in DOMAIN dispatch[dst]
    BY <1>4, SlotInBuffer
  <2>2. i \in Nat /\ i - RecvDispl(route, dst, src) \in 0 .. TokenCount(route, src, dst) - 1
    BY RecvSlotsAre
  <2>3. PICK n : n = i - RecvDispl(route, dst, src)
    OBVIOUS
  <2>4. SendDispl(route, src, dst) \in Nat /\ RecvDispl(route, dst, src) \in Nat
    BY SendBlocks, RecvBlocks, PEType
  <2>5. SendDispl(route, src, dst) + i - RecvDispl(route, dst, src) = SendDispl(route, src, dst) + n
    BY <2>2, <2>3, <2>4, SMT
  <2>6. TokenAt(route, src, SendDispl(route, src, dst) + n) = Nth(route, src, dst, n) /\ Nth(route, src, dst, n) \in Token
    BY <1>1, <2>2, <2>3, BlockInOrder
  <2>7. w[i] = [src |-> src, token |-> TokenAt(route, src, SendDispl(route, src, dst) + i - RecvDispl(route, dst, src)),
                round |-> k]
    BY <1>2, <2>1
  <2> QED BY <2>1, <2>2, <2>3, <2>5, <2>6, <2>7
<1>6. w \in Buffer
  <2>1. ASSUME NEW i \in 0 .. MaxExpertTokens(route) - 1
        PROVE  w[i] \in Item
    <3>1. CASE i \in RecvSlots(route, dst, src)
      <4>1. PICK t \in Token : w[i] = [src |-> src, token |-> t, round |-> k]
        BY <1>5, <3>1
      <4> QED BY <4>1 DEF Item
    <3>2. CASE i \notin RecvSlots(route, dst, src)
      BY <1>1, <1>2, <1>4, <3>2 DEF Buffer
    <3> QED BY <3>1, <3>2
  <2>2. w = [i \in 0 .. MaxExpertTokens(route) - 1 |-> w[i]]
    BY <1>2, <1>4
  <2> QED BY <2>1, <2>2 DEF Buffer
<1>7. Dispatched(src, dst, k) \in [PE -> Buffer]
  BY <1>1, <1>3, <1>6
<1>8. ASSUME NEW e \in PE, NEW s \in PE, NEW n \in 0 .. TokenCount(route, s, e) - 1
      PROVE  Dispatched(src, dst, k)[e][RecvDispl(route, e, s) + n] =
               IF e = dst /\ s = src
               THEN [src |-> s, token |-> Nth(route, s, e, n), round |-> k]
               ELSE dispatch[e][RecvDispl(route, e, s) + n]
  <2>1. PICK i : i = RecvDispl(route, e, s) + n
    OBVIOUS
  <2>2. /\ i \in RecvSlots(route, e, s) /\ i \in 0 .. MaxExpertTokens(route) - 1
        /\ \A u \in PE : i \in RecvSlots(route, e, u) => u = s
    BY <2>1, RecvBlock
  <2>3. CASE e # dst
    BY <1>1, <1>3, <2>3
  <2>4. CASE e = dst /\ s # src
    <3>1. i \notin RecvSlots(route, dst, src)
      BY <2>2, <2>4
    <3>2. w[i] = dispatch[dst][i]
      BY <1>2, <1>4, <2>2, <3>1
    <3>3. Dispatched(src, dst, k)[dst] = w
      BY <1>1, <1>3
    <3> QED BY <2>1, <2>4, <3>2, <3>3
  <2>5. CASE e = dst /\ s = src
    <3>1. n = i - RecvDispl(route, dst, src)
      <4>1. RecvDispl(route, e, s) \in Nat
        BY RecvSlotsAre
      <4> QED BY <2>1, <2>5, <4>1, SMT
    <3>2. w[i] = [src |-> src, token |-> Nth(route, src, dst, n), round |-> k]
      BY <1>5, <2>2, <2>5, <3>1
    <3>3. Dispatched(src, dst, k)[dst] = w
      BY <1>1, <1>3
    <3> QED BY <2>1, <2>5, <3>2, <3>3
  <2> QED BY <2>3, <2>4, <2>5
<1> QED BY <1>7, <1>8

LEMMA CombinedIs ==
  ASSUME TypeOK, NEW src \in PE, NEW dst \in PE
  PROVE  /\ Combined(src, dst) \in [PE -> Home]
         /\ \A e, s \in PE : \A n \in 0 .. TokenCount(route, s, e) - 1 :
              Combined(src, dst)[s][SendDispl(route, s, e) + n] =
                IF e = src /\ s = dst
                THEN dispatch[e][RecvDispl(route, e, s) + n]
                ELSE combined[s][SendDispl(route, s, e) + n]
<1>1. dispatch \in [PE -> Buffer] /\ route \in Routings /\ combined \in [PE -> Home]
  BY DEF TypeOK, Buffer, Home
<1>2. PICK w : w = [i \in Token |->
                      IF i - SendDispl(route, dst, src) \in 0 .. TokenCount(route, dst, src) - 1
                      THEN dispatch[src][RecvDispl(route, src, dst) + i - SendDispl(route, dst, src)]
                      ELSE combined[dst][i]]
  OBVIOUS
<1>3. Combined(src, dst) = [combined EXCEPT ![dst] = w]
  BY <1>2 DEF Combined
<1>4. SendDispl(route, dst, src) \in Nat /\ RecvDispl(route, src, dst) \in Nat
  BY SendBlocks, RecvBlocks, PEType
<1>5. ASSUME NEW i \in Token, NEW n \in 0 .. TokenCount(route, dst, src) - 1,
             n = i - SendDispl(route, dst, src)
      PROVE  w[i] = dispatch[src][RecvDispl(route, src, dst) + n] /\ w[i] \in Item
  <2>1. RecvDispl(route, src, dst) + i - SendDispl(route, dst, src) = RecvDispl(route, src, dst) + n
    BY <1>4, <1>5, SMT DEF Token
  <2>2. w[i] = dispatch[src][RecvDispl(route, src, dst) + i - SendDispl(route, dst, src)]
    BY <1>2, <1>5
  <2>3. RecvDispl(route, src, dst) + n \in 0 .. MaxExpertTokens(route) - 1
    BY RecvBlock
  <2> QED BY <1>1, <2>1, <2>2, <2>3 DEF Buffer
<1>6. w \in Home
  <2>1. ASSUME NEW i \in Token
        PROVE  w[i] \in Item
    <3>1. CASE i - SendDispl(route, dst, src) \in 0 .. TokenCount(route, dst, src) - 1
      BY <1>5, <3>1
    <3>2. CASE i - SendDispl(route, dst, src) \notin 0 .. TokenCount(route, dst, src) - 1
      BY <1>1, <1>2, <3>2 DEF Home
    <3> QED BY <3>1, <3>2
  <2>2. w = [i \in Token |-> w[i]]
    BY <1>2
  <2> QED BY <2>1, <2>2 DEF Home
<1>7. Combined(src, dst) \in [PE -> Home]
  BY <1>1, <1>3, <1>6
<1>8. ASSUME NEW e \in PE, NEW s \in PE, NEW n \in 0 .. TokenCount(route, s, e) - 1
      PROVE  Combined(src, dst)[s][SendDispl(route, s, e) + n] =
               IF e = src /\ s = dst
               THEN dispatch[e][RecvDispl(route, e, s) + n]
               ELSE combined[s][SendDispl(route, s, e) + n]
  <2>1. PICK i : i = SendDispl(route, s, e) + n
    OBVIOUS
  <2>2. i \in Token
    BY <1>1, <2>1, BlockInBuffer
  <2>3. i \in Int /\ i - SendDispl(route, s, e) = n
    <3>1. SendDispl(route, s, e) \in Nat
      BY SendBlocks, PEType
    <3> QED BY <2>1, <2>2, <3>1, SMT DEF Token
  <2>4. CASE s # dst
    BY <1>1, <1>3, <2>4
  <2>5. CASE s = dst /\ e # src
    <3>1. i - SendDispl(route, dst, src) \notin 0 .. TokenCount(route, dst, src) - 1
      BY <2>3, <2>5, SendBlocksApart
    <3>2. w[i] = combined[dst][i]
      BY <1>2, <2>2, <3>1
    <3>3. Combined(src, dst)[dst] = w
      BY <1>1, <1>3
    <3> QED BY <2>1, <2>5, <3>2, <3>3
  <2>6. CASE s = dst /\ e = src
    <3>1. w[i] = dispatch[src][RecvDispl(route, src, dst) + n]
      BY <1>5, <2>2, <2>3, <2>6
    <3>2. Combined(src, dst)[dst] = w
      BY <1>1, <1>3
    <3> QED BY <2>1, <2>6, <3>1, <3>2
  <2> QED BY <2>4, <2>5, <2>6
<1> QED BY <1>7, <1>8

(* The blocks that an expert works on are those of its round.              *)
LEMMA Gathered ==
  ASSUME IInv, NEW e \in PE, NEW s \in PE, pc[e][1] \in {"combine", "done"}
  PROVE  \A n \in 0 .. TokenCount(route, s, e) - 1 :
           dispatch[e][RecvDispl(route, e, s) + n] =
             [src |-> s, token |-> Nth(route, s, e, n), round |-> round[e]]
<1>1. transport # "probed"
  <2> SUFFICES ASSUME transport = "probed" PROVE FALSE
    OBVIOUS
  <2>1. pc[e] \in ProbePC \cup (Over \ {Finished})
    BY DEF IInv, Control, Places
  <2> QED BY <2>1 DEF ProbePC, Over, Finished
<1>2. Ended(e, "dispatch") = round[e] /\ Sent(e, "dispatch") = round[e]
  BY <1>1 DEF Ended, Sent, Ahead
<1>3. round[e] > 0
  BY <1>1, PostedRound DEF IInv, Phase
<1>4. SUFFICES ASSUME NEW n \in 0 .. TokenCount(route, s, e) - 1
               PROVE  dispatch[e][RecvDispl(route, e, s) + n] =
                        [src |-> s, token |-> Nth(route, s, e, n), round |-> round[e]]
  OBVIOUS
<1>5. Came(s, e, "dispatch") = round[e]
  <2>1. CASE s = e
    <3>1. \A k : Message(e, e, "dispatch", k) \notin puts
      BY ToOthers DEF IInv, Control, InFlight, Message
    <3> QED BY <1>2, <2>1, <3>1 DEF Came
  <2>2. CASE s # e
    <3>1. TokenCount(route, s, e) > 0
      BY <1>4, RoutedFinite, SMT
    <3>2. e \in To(s, "dispatch")
      BY <2>2, <3>1 DEF To
    <3> QED BY <1>2, <3>2 DEF IInv, Control, InStep, Phase
  <2> QED BY <2>1, <2>2
<1> QED BY <1>3, <1>5 DEF IInv, HeldByExperts

-----------------------------------------------------------------------------
(* No dispatch has been posted yet, or the probe is still on.              *)
Fresh ==
  /\ puts = {} /\ \A p \in PE : round[p] = 1
  /\ \/ transport = "probed" /\ \A p \in PE : pc[p] \in ProbePC \cup (Over \ {Finished})
     \/ transport \in {"puts", "groups"} /\ \A p \in PE : pc[p] = <<"dispatch", "put">>

LEMMA FreshIs == Fresh => Control /\ HeldByExperts /\ BackHome
<1> SUFFICES ASSUME Fresh PROVE Control /\ HeldByExperts /\ BackHome
  OBVIOUS
<1>1. \A s, d \in PE, f \in Phase : Came(s, d, f) = 0 /\ Ended(d, f) = 0
  BY DEF Fresh, Came, Sent, Ended, Ahead, Phase
<1>2. Places
  <2>1. CASE transport = "probed"
    BY <2>1 DEF Fresh, Places
  <2>2. CASE transport # "probed"
    BY <2>2 DEF Fresh, Places, Phase, CallsOf
  <2> QED BY <2>1, <2>2
<1>3. InFlight
  BY DEF Fresh, InFlight
<1>4. InStep
  BY <1>1 DEF InStep
<1>5. HeldByExperts /\ BackHome
  BY <1>1 DEF HeldByExperts, BackHome, Phase
<1> QED BY <1>2, <1>3, <1>4, <1>5 DEF Control

LEMMA ClearedType ==
  ASSUME NEW r
  PROVE  Cleared(r) \in [PE -> [0 .. MaxExpertTokens(r) - 1 -> Item]]
<1>1. Zero \in Item
  BY Sizes, RoundsAssumption, SMT DEF Zero, Item, PE, Token
<1> QED BY <1>1 DEF Cleared

LEMMA InvInit == Init => IInv
<1> SUFFICES ASSUME Init PROVE IInv
  OBVIOUS
<1>1. Fresh
  <2>1. CASE transport = "probed"
    <3>1. \A p \in PE : pc[p] = <<"probe", "post">>
      BY <2>1 DEF Init
    <3>2. <<"probe", "post">> \in ProbePC
      BY DEF ProbePC
    <3> QED BY <2>1, <3>1, <3>2 DEF Init, Fresh
  <2>2. CASE transport # "probed"
    BY <2>2 DEF Init, Fresh, Transports
  <2> QED BY <2>1, <2>2
<1>2. TypeOK
  <2>1. transport \in Transports /\ route \in Routings
    BY DEF Init
  <2>2. <<"probe", "post">> \in ProbePC /\ <<"dispatch", "put">> \in Phase \X Call
    BY DEF ProbePC, Phase, Call
  <2>3. pc \in [PE -> (Phase \X Call) \cup ProbePC \cup Over]
    BY <2>2 DEF Init
  <2>4. round \in [PE -> 1 .. Rounds]
    <3>1. 1 \in 1 .. Rounds
      BY RoundsAssumption, SMT
    <3> QED BY <3>1 DEF Init
  <2>5. dispatch \in [PE -> [0 .. MaxExpertTokens(route) - 1 -> Item]]
    BY ClearedType DEF Init
  <2>6. combined \in [PE -> [Token -> Item]]
    <3>1. Zero \in Item
      BY Sizes, RoundsAssumption, SMT DEF Zero, Item, PE, Token
    <3> QED BY <3>1 DEF Init
  <2>7. puts \subseteq Put /\ status \in [PE -> 0 .. 2] /\ posted \subseteq PE \X {"recv", "send"}
    BY DEF Init
  <2> QED BY <2>1, <2>3, <2>4, <2>5, <2>6, <2>7 DEF TypeOK
<1> QED BY <1>1, <1>2, FreshIs DEF IInv

-----------------------------------------------------------------------------
(* The probe.                                                              *)

LEMMA RaiseType ==
  ASSUME TypeOK, NEW p \in PE, Raise(p)
  PROVE  status' \in [PE -> 0 .. 2]
<1>1. PICK s \in {Unsupported, Failed} : status' = [status EXCEPT ![p] = Max({status[p], s})]
  BY DEF Raise
<1>2. PICK a : a = status[p]
  OBVIOUS
<1>3. a \in 0 .. 2 /\ s \in 0 .. 2
  BY <1>2 DEF TypeOK, Unsupported, Failed
<1>4. {a, s} \subseteq Nat /\ {a, s} # {} /\ \A x \in {a, s} : x <= 2
  BY <1>3, SMT
<1>5. Max({a, s}) \in {a, s}
  BY <1>4, MaxOf
<1> QED BY <1>1, <1>2, <1>3, <1>5 DEF TypeOK

LEMMA ProbingKeeps ==
  ASSUME IInv, NEW p \in PE, NEW from \in ProbePC, NEW to \in ProbePC, Probing(p, from, to),
         status' \in [PE -> 0 .. 2], posted' \subseteq PE \X {"recv", "send"}
  PROVE  IInv'
<1>1. pc[p] \in ProbePC /\ pc' = [pc EXCEPT ![p] = to]
      /\ UNCHANGED <<transport, route, round, dispatch, combined, puts>>
  BY DEF Probing, Goto
<1>2. transport = "probed"
  <2>1. pc[p][1] = "probe"
    BY <1>1 DEF ProbePC
  <2>2. pc[p] \notin (Phase \X CallsOf(transport)) \cup {Finished}
    BY <2>1 DEF Phase, Finished
  <2> QED BY <2>2 DEF IInv, Control, Places
<1>3. Fresh'
  BY <1>1, <1>2 DEF Fresh, IInv, Control, Places, TypeOK
<1>4. Control' /\ HeldByExperts' /\ BackHome'
  BY <1>3, FreshIs, PTL
<1>5. TypeOK'
  BY <1>1 DEF IInv, TypeOK
<1> QED BY <1>4, <1>5 DEF IInv

LEMMA ProbeCallsKeep ==
  ASSUME IInv, NEW p \in PE, PostProbe(p) \/ WaitProbe(p) \/ ProbeFails(p)
  PROVE  IInv'
<1> <<"probe", "post">> \in ProbePC /\ <<"probe", "wait">> \in ProbePC /\ <<"probe", "reduce">> \in ProbePC
  BY DEF ProbePC
<1> status \in [PE -> 0 .. 2] /\ posted \subseteq PE \X {"recv", "send"}
  BY DEF IInv, TypeOK
<1>1. CASE PostProbe(p)
  <2>1. status' \in [PE -> 0 .. 2]
    BY <1>1, RaiseType DEF PostProbe, IInv
  <2>2. posted' \subseteq PE \X {"recv", "send"}
    BY <1>1 DEF PostProbe, ProbeCall
  <2> QED BY <1>1, <2>1, <2>2, ProbingKeeps DEF PostProbe
<1>2. CASE WaitProbe(p)
  BY <1>2, ProbingKeeps DEF WaitProbe, probe
<1>3. CASE ProbeFails(p)
  <2>1. status' \in [PE -> 0 .. 2]
    BY <1>3, RaiseType DEF ProbeFails, IInv
  <2> QED BY <1>3, <2>1, ProbingKeeps DEF ProbeFails
<1> QED BY <1>1, <1>2, <1>3

LEMMA ReduceKeeps ==
  ASSUME IInv, ReduceProbe
  PROVE  IInv'
<1>1. /\ \A p \in PE : pc[p] = <<"probe", "reduce">>
      /\ pc' = [p \in PE |-> Decision]
      /\ UNCHANGED <<status, round, combined, puts>>
  BY DEF ReduceProbe
<1>2. transport = "probed"
  <2>1. 0 \in PE
    BY Sizes, SMT DEF PE
  <2>2. pc[0] \notin (Phase \X CallsOf(transport)) \cup {Finished}
    BY <1>1, <2>1 DEF Phase, Finished
  <2> QED BY <2>1, <2>2 DEF IInv, Control, Places
<1>3. Decision \in {<<"dispatch", "put">>} \cup (Over \ {Finished})
  BY DEF Decision, Over, Finished
<1>4. CASE Decision = <<"dispatch", "put">>
  <2>1. transport' = "groups" /\ route' \in Routings /\ dispatch' = Cleared(route') /\ posted' = {}
    BY <1>4 DEF ReduceProbe
  <2>2. Fresh'
    BY <1>1, <1>2, <1>4, <2>1 DEF Fresh, IInv, Control, Places
  <2>3. dispatch' \in [PE -> [0 .. MaxExpertTokens(route') - 1 -> Item]]
    BY <2>1, ClearedType
  <2>4. pc' \in [PE -> (Phase \X Call) \cup ProbePC \cup Over]
    BY <1>1, <1>4 DEF Phase, Call
  <2>5. TypeOK'
    BY <1>1, <2>1, <2>3, <2>4 DEF IInv, TypeOK, Transports
  <2>6. Control' /\ HeldByExperts' /\ BackHome'
    BY <2>2, FreshIs, PTL
  <2> QED BY <2>5, <2>6 DEF IInv
<1>5. CASE Decision # <<"dispatch", "put">>
  <2>1. UNCHANGED <<transport, route, dispatch, posted>>
    BY <1>5 DEF ReduceProbe
  <2>2. Fresh'
    BY <1>1, <1>2, <1>3, <1>5, <2>1 DEF Fresh, IInv, Control, Places
  <2>3. TypeOK'
    BY <1>1, <1>3, <1>5, <2>1 DEF IInv, TypeOK
  <2>4. Control' /\ HeldByExperts' /\ BackHome'
    BY <2>2, FreshIs, PTL
  <2> QED BY <2>3, <2>4 DEF IInv
<1> QED BY <1>4, <1>5

-----------------------------------------------------------------------------
(* The exchange.                                                           *)

LEMMA PutDispatchKeeps ==
  ASSUME IInv, NEW p \in PE, PutDispatch(p)
  PROVE  IInv'
<1>1. Posting(p, "dispatch") /\ "dispatch" \in Phase
  BY DEF PutDispatch, PostTo, Goto, Posting, setup, Phase
<1>2. dispatch' = Dispatched(p, p, round[p]) /\ UNCHANGED <<setup, round, combined>>
  BY DEF PutDispatch
<1>3. TypeOK /\ Control /\ round[p] \in 0 .. Rounds
  BY SMT DEF IInv, TypeOK
<1>4. Control'
  BY <1>1, <1>3, PostingKeeps
<1>5. /\ \A e, s \in PE : Came(s, e, "dispatch")' =
           IF s = p /\ e \notin To(p, "dispatch") THEN round[p] ELSE Came(s, e, "dispatch")
      /\ \A e, s \in PE : Came(e, s, "combine")' = Came(e, s, "combine")
  BY <1>1, <1>3, PostingCounts DEF Phase
<1>6. HeldByExperts'
  <2> SUFFICES ASSUME NEW e \in PE, NEW s \in PE, Came(s, e, "dispatch")' > 0,
                      NEW n \in 0 .. TokenCount(route, s, e) - 1
               PROVE  dispatch'[e][RecvDispl(route, e, s) + n] =
                        [src |-> s, token |-> Nth(route, s, e, n), round |-> Came(s, e, "dispatch")']
    BY <1>2 DEF HeldByExperts, setup
  <2>1. CASE s = p /\ e = p
    <3>1. Came(s, e, "dispatch")' = round[p]
      BY <1>5, <2>1, ToOthers
    <3> QED BY <1>2, <1>3, <2>1, <3>1, DispatchedIs
  <2>2. CASE ~(s = p /\ e = p)
    <3>1. TokenCount(route, s, e) > 0
      BY RoutedFinite, SMT
    <3>2. ~(s = p /\ e \notin To(p, "dispatch"))
      BY <2>2, <3>1 DEF To
    <3>3. Came(s, e, "dispatch")' = Came(s, e, "dispatch")
      BY <1>5, <3>2
    <3>4. dispatch'[e][RecvDispl(route, e, s) + n] = dispatch[e][RecvDispl(route, e, s) + n]
      <4>1. Dispatched(p, p, round[p])[e][RecvDispl(route, e, s) + n] =
              IF e = p /\ s = p
              THEN [src |-> s, token |-> Nth(route, s, e, n), round |-> round[p]]
              ELSE dispatch[e][RecvDispl(route, e, s) + n]
        BY <1>2, <1>3, DispatchedIs
      <4> QED BY <1>2, <2>2, <4>1
    <3> QED BY <3>3, <3>4 DEF IInv, HeldByExperts
  <2> QED BY <2>1, <2>2
<1>7. BackHome'
  BY <1>2, <1>5 DEF IInv, BackHome, setup
<1>8. TypeOK'
  <2>1. dispatch' \in [PE -> [0 .. MaxExpertTokens(route) - 1 -> Item]]
    BY <1>2, <1>3, DispatchedIs DEF Buffer
  <2>2. puts' \subseteq Put /\ pc' \in [PE -> (Phase \X Call) \cup ProbePC \cup Over]
    BY <1>1, <1>3, PostingPuts, PostingPlaces
  <2> QED BY <1>2, <1>3, <2>1, <2>2 DEF TypeOK, setup, probe
<1> QED BY <1>4, <1>6, <1>7, <1>8 DEF IInv

LEMMA PutCombineKeeps ==
  ASSUME IInv, NEW p \in PE, PutCombine(p)
  PROVE  IInv'
<1>1. Posting(p, "combine") /\ "combine" \in Phase /\ pc[p] = <<"combine", "put">>
  BY DEF PutCombine, PostTo, Goto, Posting, setup, Phase
<1>2. combined' = Combined(p, p) /\ UNCHANGED <<setup, round, dispatch>>
  BY DEF PutCombine
<1>3. TypeOK /\ Control
  BY DEF IInv
<1>4. Control'
  BY <1>1, <1>3, PostingKeeps
<1>5. /\ \A e, s \in PE : Came(s, e, "dispatch")' = Came(s, e, "dispatch")
      /\ \A e, s \in PE : Came(e, s, "combine")' =
           IF e = p /\ s \notin To(p, "combine") THEN round[p] ELSE Came(e, s, "combine")
  BY <1>1, <1>3, PostingCounts DEF Phase
<1>6. HeldByExperts'
  BY <1>2, <1>5 DEF IInv, HeldByExperts, setup
<1>7. BackHome'
  <2> SUFFICES ASSUME NEW e \in PE, NEW s \in PE, Came(e, s, "combine")' > 0,
                      NEW n \in 0 .. TokenCount(route, s, e) - 1
               PROVE  combined'[s][SendDispl(route, s, e) + n] =
                        [src |-> s, token |-> Nth(route, s, e, n), round |-> Came(e, s, "combine")']
    BY <1>2 DEF BackHome, setup
  <2>1. CASE s = p /\ e = p
    <3>1. Came(e, s, "combine")' = round[p]
      BY <1>5, <2>1, ToOthers
    <3>2. dispatch[p][RecvDispl(route, p, p) + n] =
            [src |-> p, token |-> Nth(route, p, p, n), round |-> round[p]]
      BY <1>1, <2>1, Gathered
    <3> QED BY <1>2, <1>3, <2>1, <3>1, <3>2, CombinedIs
  <2>2. CASE ~(s = p /\ e = p)
    <3>1. TokenCount(route, s, e) > 0
      BY RoutedFinite, SMT
    <3>2. ~(e = p /\ s \notin To(p, "combine"))
      BY <2>2, <3>1 DEF To
    <3>3. Came(e, s, "combine")' = Came(e, s, "combine")
      BY <1>5, <3>2
    <3>4. combined'[s][SendDispl(route, s, e) + n] = combined[s][SendDispl(route, s, e) + n]
      BY <1>2, <1>3, <2>2, CombinedIs
    <3> QED BY <3>3, <3>4 DEF IInv, BackHome
  <2> QED BY <2>1, <2>2
<1>8. TypeOK'
  <2>1. combined' \in [PE -> [Token -> Item]]
    BY <1>2, <1>3, CombinedIs DEF Home
  <2>2. puts' \subseteq Put /\ pc' \in [PE -> (Phase \X Call) \cup ProbePC \cup Over]
    BY <1>1, <1>3, PostingPuts, PostingPlaces
  <2> QED BY <1>2, <1>3, <2>1, <2>2 DEF TypeOK, setup, probe
<1> QED BY <1>4, <1>6, <1>7, <1>8 DEF IInv

(* A step that leaves the buffers and what has come alone.                 *)
LEMMA WaitKeeps ==
  ASSUME IInv, UNCHANGED <<setup, dispatch, combined, puts>>, Control',
         pc' \in [PE -> (Phase \X Call) \cup ProbePC \cup Over], round' \in [PE -> 1 .. Rounds],
         \A s, d \in PE, g \in Phase : Came(s, d, g)' = Came(s, d, g)
  PROVE  IInv'
<1>1. TypeOK'
  BY DEF IInv, TypeOK, setup, probe
<1>2. HeldByExperts' /\ BackHome'
  BY DEF IInv, HeldByExperts, BackHome, setup, Phase
<1> QED BY <1>1, <1>2 DEF IInv

LEMMA DeliverStep ==
  ASSUME IInv, NEW m \in puts, Deliver(m)
  PROVE  IInv'
<1>1. TypeOK /\ Control
  BY DEF IInv
<1>2. PICK a \in PE, b \in PE, f \in Phase : a = m.src /\ b = m.dst /\ f = m.phase
  BY <1>1, DeliverKeeps
<1>3. /\ Control' /\ b \in To(a, f) /\ m.round = round[a]
      /\ pc[a][1] = f
      /\ \A s, d \in PE, g \in Phase :
           Came(s, d, g)' = IF s = a /\ d = b /\ g = f THEN round[a] ELSE Came(s, d, g)
  BY <1>1, <1>2, DeliverKeeps
<1>4. UNCHANGED <<setup, pc, round>> /\ puts' = puts \ {m}
  BY DEF Deliver
<1>5. round[a] \in 0 .. Rounds
  BY <1>1, SMT DEF TypeOK
<1>6. CASE f = "dispatch"
  <2>1. dispatch' = Dispatched(a, b, round[a]) /\ combined' = combined
    BY <1>2, <1>3, <1>6 DEF Deliver
  <2>2. HeldByExperts'
    <3> SUFFICES ASSUME NEW e \in PE, NEW s \in PE, Came(s, e, "dispatch")' > 0,
                        NEW n \in 0 .. TokenCount(route, s, e) - 1
                 PROVE  dispatch'[e][RecvDispl(route, e, s) + n] =
                          [src |-> s, token |-> Nth(route, s, e, n), round |-> Came(s, e, "dispatch")']
      BY <1>4 DEF HeldByExperts, setup
    <3>1. CASE s = a /\ e = b
      <4>1. Came(s, e, "dispatch")' = round[a]
        BY <1>3, <1>6, <3>1
      <4> QED BY <1>1, <1>5, <2>1, <3>1, <4>1, DispatchedIs
    <3>2. CASE ~(s = a /\ e = b)
      <4>1. Came(s, e, "dispatch")' = Came(s, e, "dispatch")
        BY <1>3, <1>6, <3>2
      <4>2. dispatch'[e][RecvDispl(route, e, s) + n] = dispatch[e][RecvDispl(route, e, s) + n]
        <5>1. Dispatched(a, b, round[a])[e][RecvDispl(route, e, s) + n] =
                IF e = b /\ s = a
                THEN [src |-> s, token |-> Nth(route, s, e, n), round |-> round[a]]
                ELSE dispatch[e][RecvDispl(route, e, s) + n]
          BY <1>1, <1>5, DispatchedIs
        <5> QED BY <2>1, <3>2, <5>1
      <4> QED BY <4>1, <4>2 DEF IInv, HeldByExperts
    <3> QED BY <3>1, <3>2
  <2>3. BackHome'
    <3>1. \A e, s \in PE : Came(e, s, "combine")' = Came(e, s, "combine")
      BY <1>3, <1>6 DEF Phase
    <3> QED BY <1>4, <2>1, <3>1 DEF IInv, BackHome, setup
  <2>4. TypeOK'
    <3>1. dispatch' \in [PE -> [0 .. MaxExpertTokens(route) - 1 -> Item]]
      BY <1>1, <1>5, <2>1, DispatchedIs DEF Buffer
    <3> QED BY <1>1, <1>4, <2>1, <3>1 DEF TypeOK, setup, probe
  <2> QED BY <1>3, <2>2, <2>3, <2>4 DEF IInv
<1>7. CASE f = "combine"
  <2>1. combined' = Combined(a, b) /\ dispatch' = dispatch
    BY <1>2, <1>7 DEF Deliver
  <2>2. HeldByExperts'
    <3>1. \A e, s \in PE : Came(s, e, "dispatch")' = Came(s, e, "dispatch")
      BY <1>3, <1>7 DEF Phase
    <3> QED BY <1>4, <2>1, <3>1 DEF IInv, HeldByExperts, setup
  <2>3. BackHome'
    <3> SUFFICES ASSUME NEW e \in PE, NEW s \in PE, Came(e, s, "combine")' > 0,
                        NEW n \in 0 .. TokenCount(route, s, e) - 1
                 PROVE  combined'[s][SendDispl(route, s, e) + n] =
                          [src |-> s, token |-> Nth(route, s, e, n), round |-> Came(e, s, "combine")']
      BY <1>4 DEF BackHome, setup
    <3>1. CASE e = a /\ s = b
      <4>1. Came(e, s, "combine")' = round[a]
        BY <1>3, <1>7, <3>1
      <4>2. dispatch[a][RecvDispl(route, a, b) + n] =
              [src |-> b, token |-> Nth(route, b, a, n), round |-> round[a]]
        BY <1>3, <1>7, <3>1, Gathered
      <4> QED BY <1>1, <2>1, <3>1, <4>1, <4>2, CombinedIs
    <3>2. CASE ~(e = a /\ s = b)
      <4>1. Came(e, s, "combine")' = Came(e, s, "combine")
        BY <1>3, <1>7, <3>2
      <4>2. combined'[s][SendDispl(route, s, e) + n] = combined[s][SendDispl(route, s, e) + n]
        BY <1>1, <2>1, <3>2, CombinedIs
      <4> QED BY <4>1, <4>2 DEF IInv, BackHome
    <3> QED BY <3>1, <3>2
  <2>4. TypeOK'
    <3>1. combined' \in [PE -> [Token -> Item]]
      BY <1>1, <2>1, CombinedIs DEF Home
    <3> QED BY <1>1, <1>4, <2>1, <3>1 DEF TypeOK, setup, probe
  <2> QED BY <1>3, <2>2, <2>3, <2>4 DEF IInv
<1> QED BY <1>6, <1>7 DEF Phase

LEMMA InvStep == IInv /\ [Next]_vars => IInv'
<1> SUFFICES ASSUME IInv, [Next]_vars PROVE IInv'
  OBVIOUS
<1>1. ASSUME NEW p \in PE, PostProbe(p) \/ WaitProbe(p) \/ ProbeFails(p) PROVE IInv'
  BY <1>1, ProbeCallsKeep
<1>2. ASSUME NEW p \in PE, PutDispatch(p) PROVE IInv'
  BY <1>2, PutDispatchKeeps
<1>3. ASSUME NEW p \in PE, PutCombine(p) PROVE IInv'
  BY <1>3, PutCombineKeeps
<1>4. ASSUME NEW p \in PE, Quiet(p) PROVE IInv'
  <2>1. UNCHANGED <<setup, dispatch, combined, puts>> /\ round' = round
    BY <1>4 DEF Quiet
  <2>2. round' \in [PE -> 1 .. Rounds]
    BY <2>1 DEF IInv, TypeOK
  <2> QED BY <1>4, <2>1, <2>2, QuietKeeps, WaitKeeps DEF IInv
<1>5. ASSUME NEW p \in PE, EndGroup(p) PROVE IInv'
  <2>1. UNCHANGED <<setup, dispatch, combined, puts>>
    BY <1>5 DEF EndGroup
  <2> QED BY <1>5, <2>1, EndGroupKeeps, WaitKeeps DEF IInv
<1>6. ASSUME ReduceProbe PROVE IInv'
  BY <1>6, ReduceKeeps
<1>7. ASSUME Barrier PROVE IInv'
  <2>1. UNCHANGED <<setup, dispatch, combined, puts>>
    BY <1>7 DEF Barrier
  <2> QED BY <1>7, <2>1, BarrierKeeps, WaitKeeps DEF IInv
<1>8. ASSUME NEW m \in puts, Deliver(m) PROVE IInv'
  BY <1>8, DeliverStep
<1>9. ASSUME UNCHANGED vars PROVE IInv'
  <2>1. UNCHANGED <<setup, dispatch, combined, puts>> /\ pc' = pc /\ round' = round /\ transport' = transport /\ route' = route
    BY <1>9 DEF vars, setup
  <2>2. Control' /\ \A s, d \in PE, g \in Phase : Came(s, d, g)' = Came(s, d, g)
    BY <2>1 DEF IInv, Control, Places, InFlight, InStep, Came, Sent, Ended, Ahead, To, Message
  <2>3. pc' \in [PE -> (Phase \X Call) \cup ProbePC \cup Over] /\ round' \in [PE -> 1 .. Rounds]
    BY <2>1 DEF IInv, TypeOK
  <2> QED BY <2>1, <2>2, <2>3, WaitKeeps
<1> QED BY <1>1, <1>2, <1>3, <1>4, <1>5, <1>6, <1>7, <1>8, <1>9 DEF Next, PEStep

(* What the exchange keeps up: the blocks between any two ranks are those  *)
(* of a round the receiver has ended, or is in the middle of.              *)
THEOREM Inductive == Spec => []IInv
<1>1. Init => IInv
  BY InvInit
<1>2. IInv /\ [Next]_vars => IInv'
  BY InvStep
<1> QED BY <1>1, <1>2, PTL DEF Spec

(* Every variable keeps its type, whatever the transport and the outcome   *)
(* of the probe.                                                           *)
THEOREM TypeCorrect == Spec => []TypeOK
<1>1. IInv => TypeOK
  BY DEF IInv
<1> QED BY <1>1, Inductive, PTL

(* The plans that the ranks make each for itself fit together              *)
(* (make_moe_plan, pack_moe_send), for every routing.                      *)
THEOREM PlansFitHolds == Spec => []PlansFit
<1>1. IInv => PlansFit
  <2> SUFFICES ASSUME IInv PROVE PlansFit
    OBVIOUS
  <2>1. route \in Routings
    BY DEF IInv, TypeOK
  <2>2. ASSUME NEW e \in PE
        PROVE  /\ UNION {RecvSlots(route, e, s) : s \in PE} = 0 .. ExpertTokens(route, e) - 1
               /\ \A s, u \in PE : s # u => RecvSlots(route, e, s) \cap RecvSlots(route, e, u) = {}
               /\ ExpertTokens(route, e) <= MaxExpertTokens(route)
    BY SlotsCover, SlotsApart, BuffersSuffice
  <2>3. \A s \in PE : {PackedAt(route, s, t) : t \in Token} = Token
    BY <2>1, PackingFills
  <2> QED BY <2>2, <2>3 DEF PlansFit
<1> QED BY <1>1, Inductive, PTL

(* What a rank combines are the tokens of its own iteration, although a    *)
(* peer that needs nothing from it may be iterations ahead.                *)
THEOREM ExpertHoldsItsTokensHolds == Spec => []ExpertHoldsItsTokens
<1>1. IInv => ExpertHoldsItsTokens
  <2> SUFFICES ASSUME IInv, NEW e \in PE, pc[e][1] \in {"combine", "done"},
                      NEW s \in PE, NEW n \in 0 .. TokenCount(route, s, e) - 1
               PROVE  dispatch[e][RecvDispl(route, e, s) + n] =
                        [src |-> s, token |-> NthToken(s, e, n), round |-> round[e]]
    BY DEF ExpertHoldsItsTokens
  <2>1. NthToken(s, e, n) = Nth(route, s, e, n)
    BY DEF NthToken, Nth
  <2> QED BY <2>1, Gathered
<1> QED BY <1>1, Inductive, PTL

(* When an iteration is over, every token is back in the slot it was       *)
(* packed in, with the values of that iteration.                           *)
THEOREM TokensComeBackHolds == Spec => []TokensComeBack
<1>1. IInv => TokensComeBack
  <2> SUFFICES ASSUME IInv, NEW p \in PE, pc[p] \in {<<"dispatch", "put">>, <<"done", "exit">>},
                      NEW over, over = IF pc[p][1] = "done" THEN round[p] ELSE round[p] - 1,
                      over > 0, NEW t \in Token
               PROVE  combined[p][PackedAt(route, p, t)] = [src |-> p, token |-> t, round |-> over]
    BY DEF TokensComeBack
  <2>1. transport # "probed"
    <3> SUFFICES ASSUME transport = "probed" PROVE FALSE
      OBVIOUS
    <3>1. pc[p] \in ProbePC \cup (Over \ {Finished})
      BY DEF IInv, Control, Places
    <3> QED BY <3>1 DEF ProbePC, Over, Finished
  <2>2. /\ Sent(p, "combine") = over /\ Ended(p, "combine") = over
        /\ pc[p][1] # "combine"
    BY <2>1 DEF Sent, Ended, Ahead
  <2>3. route \in Routings
    BY DEF IInv, TypeOK
  <2>4. PICK e, n : e = route[p][t] /\ n = Rank(Routed(route, p, e), t)
    OBVIOUS
  <2>5. /\ e \in PE /\ n \in 0 .. TokenCount(route, p, e) - 1
        /\ PackedAt(route, p, t) = SendDispl(route, p, e) + n
    BY <2>3, <2>4, PackedIs
  <2>6. Nth(route, p, e, n) = t
    BY <2>3, <2>4, <2>5, NthIs
  <2>7. Came(e, p, "combine") = over
    <3>1. CASE e = p
      <4>1. \A k : Message(p, p, "combine", k) \notin puts
        BY ToOthers DEF IInv, Control, InFlight, Message
      <4> QED BY <2>2, <3>1, <4>1 DEF Came
    <3>2. CASE e # p
      <4>1. TokenCount(route, p, e) > 0
        BY <2>5, RoutedFinite, SMT
      <4>2. p \in To(e, "combine")
        BY <2>5, <3>2, <4>1 DEF To
      <4> QED BY <2>2, <2>5, <4>2 DEF IInv, Control, InStep, Phase
    <3> QED BY <3>1, <3>2
  <2> QED BY <2>5, <2>6, <2>7 DEF IInv, BackHome
<1> QED BY <1>1, Inductive, PTL

-----------------------------------------------------------------------------
(* No deadlock.                                                            *)

(* What each action waits for.                                             *)
CanPost(p) == pc[p][2] = "put"
CanLeaveQuiet(p) == pc[p][2] = "quiet" /\ \A m \in puts : m.src # p
CanEndGroup(p) ==
  /\ pc[p][2] = "group"
  /\ \A m \in puts : m.src # p
  /\ \A q \in From(p, pc[p][1]) :
       /\ Posted(q) >= Posted(p)
       /\ Message(q, p, pc[p][1], round[p]) \notin puts
CanPassBarrier == \A p \in PE : pc[p][2] = "barrier"
CanDeliver(m) ==
  transport # "puts" => pc[m.dst] = <<m.phase, "group">> /\ round[m.dst] = m.round

SomeoneCanGoOn ==
  \/ \E p \in PE : CanPost(p) \/ CanLeaveQuiet(p) \/ CanEndGroup(p)
  \/ CanPassBarrier
  \/ \E m \in puts : CanDeliver(m)

(* Once an exchange has begun, some rank can go on or some message can be  *)
(* delivered, until all are done.  The probe before it can come to a halt: *)
(* a rank whose call fails may leave its neighbour waiting.                *)
NeverStuck == transport # "probed" /\ (\E p \in PE : pc[p] # Finished) => SomeoneCanGoOn

DoneAtEnd == \A p \in PE : pc[p] = Finished => round[p] = Rounds

LEMMA DoneAtEndStep == IInv /\ DoneAtEnd /\ [Next]_vars => DoneAtEnd'
<1> SUFFICES ASSUME IInv, DoneAtEnd, [Next]_vars, NEW q \in PE, pc'[q] = Finished
             PROVE  round'[q] = Rounds
  BY DEF DoneAtEnd
<1> pc \in [PE -> (Phase \X Call) \cup ProbePC \cup Over] /\ round \in [PE -> 1 .. Rounds]
  BY DEF IInv, TypeOK
<1>1. CASE UNCHANGED <<pc, round>>
  BY <1>1 DEF DoneAtEnd
<1>2. ASSUME NEW p \in PE, NEW from, NEW to, Goto(p, from, to), to # Finished, round' = round
      PROVE  round'[q] = Rounds
  BY <1>2 DEF Goto, DoneAtEnd
<1>3. ASSUME NEW p \in PE, PostProbe(p) \/ WaitProbe(p) \/ ProbeFails(p)
      PROVE  round'[q] = Rounds
  BY <1>2, <1>3 DEF PostProbe, WaitProbe, ProbeFails, Probing, Finished
<1>4. ASSUME NEW p \in PE, PutDispatch(p) \/ PutCombine(p)
      PROVE  round'[q] = Rounds
  <2>1. PICK f \in Phase : Goto(p, <<f, "put">>, <<f, IF transport = "puts" THEN "quiet" ELSE "group">>)
                           /\ round' = round
    BY <1>4 DEF PutDispatch, PutCombine, PostTo, Phase
  <2> QED BY <1>2, <2>1 DEF Finished, Phase
<1>5. ASSUME NEW p \in PE, Quiet(p)
      PROVE  round'[q] = Rounds
  BY <1>2, <1>5 DEF Quiet, Finished, Phase
<1>6. ASSUME NEW p \in PE, EndGroup(p)
      PROVE  round'[q] = Rounds
  <2>1. PICK next : /\ next = NextPhase(p, pc[p][1])
                    /\ pc' = [pc EXCEPT ![p] = next] /\ round' = [round EXCEPT ![p] = RoundAfter(p, next)]
    BY <1>6 DEF EndGroup
  <2>2. next = Finished => ~(round[p] < Rounds) /\ RoundAfter(p, next) = round[p]
    BY <2>1 DEF NextPhase, RoundAfter, Finished
  <2>3. round[p] \in 1 .. Rounds /\ Rounds \in Nat
    BY RoundsAssumption
  <2> QED BY <2>1, <2>2, <2>3 DEF DoneAtEnd
<1>7. ASSUME Barrier
      PROVE  round'[q] = Rounds
  <2>1. NextPhase(q, pc[q][1]) = Finished /\ round'[q] = RoundAfter(q, Finished)
    BY <1>7 DEF Barrier
  <2>2. ~(round[q] < Rounds) /\ round'[q] = round[q]
    BY <2>1 DEF NextPhase, RoundAfter, Finished
  <2>3. round[q] \in 1 .. Rounds /\ Rounds \in Nat
    BY RoundsAssumption
  <2> QED BY <2>2, <2>3
<1>8. ASSUME ReduceProbe
      PROVE  round'[q] = Rounds
  <2>1. pc'[q] \in {<<"dispatch", "put">>, <<"skipped", "exit">>, <<"aborted", "exit">>}
    BY <1>8 DEF ReduceProbe, Decision
  <2> QED BY <2>1 DEF Finished
<1>9. ASSUME NEW m \in puts, Deliver(m)
      PROVE  round'[q] = Rounds
  BY <1>1, <1>9 DEF Deliver
<1>10. CASE UNCHANGED vars
  BY <1>1, <1>10 DEF vars
<1> QED BY <1>3, <1>4, <1>5, <1>6, <1>7, <1>8, <1>9, <1>10 DEF Next, PEStep

(* With puts, a phase is over for all before the next begins.              *)
LEMMA PutsGoOn ==
  ASSUME IInv, transport = "puts", NEW p \in PE, pc[p] # Finished
  PROVE  SomeoneCanGoOn
<1>1. CASE puts # {}
  BY <1>1 DEF SomeoneCanGoOn, CanDeliver
<1>2. CASE puts = {}
  <2>1. \A q \in PE : pc[q] \in (Phase \X {"put", "quiet", "barrier"}) \cup {Finished} /\ pc[q][1] = pc[p][1]
    BY DEF IInv, Control, Places, CallsOf
  <2>2. \A q \in PE : pc[q] \in Phase \X {"put", "quiet", "barrier"}
    <3>1. pc[p][1] \in Phase
      BY <2>1
    <3> QED BY <2>1, <3>1 DEF Finished, Phase
  <2> QED BY <1>2, <2>2 DEF SomeoneCanGoOn, CanPost, CanLeaveQuiet, CanPassBarrier
<1> QED BY <1>1, <1>2

(* With groups, the rank that is furthest behind can end its group, unless *)
(* something that it waits for can be delivered.                           *)
LEMMA GroupsGoOn ==
  ASSUME IInv, DoneAtEnd, transport = "groups", NEW r \in PE, pc[r] # Finished
  PROVE  SomeoneCanGoOn
<1>1. \A q \in PE : pc[q] \in (Phase \X {"put", "group"}) \cup {Finished}
  BY DEF IInv, Control, Places, CallsOf
<1>2. SUFFICES ASSUME \A q \in PE : ~CanPost(q), \A m \in puts : ~CanDeliver(m)
               PROVE  \E q \in PE : CanEndGroup(q)
  BY DEF SomeoneCanGoOn
<1>3. \A q \in PE : (\E f \in Phase : pc[q] = <<f, "group">>) \/ pc[q] = Finished
  BY <1>1, <1>2 DEF CanPost
<1>4. \A q \in PE : round[q] \in Nat /\ round[q] > 0 /\ round[q] <= Rounds /\ Rounds \in Nat
  BY RoundsAssumption, SMT DEF IInv, TypeOK
<1>5. \A q \in PE, f \in Phase : pc[q] = <<f, "group">> =>
        /\ Posted(q) = 2 * round[q] + (IF f = "dispatch" THEN 0 ELSE 1)
        /\ \A g \in Phase : Ended(q, g) = IF g = f \/ g = "combine" THEN round[q] - 1 ELSE round[q]
  BY <1>4 DEF Posted, Ended, Ahead, Phase
<1>6. \A q \in PE : pc[q] = Finished =>
        Posted(q) = 2 * Rounds + 1 /\ \A g \in Phase : Ended(q, g) = Rounds
  BY <1>4 DEF DoneAtEnd, Posted, Ended, Ahead, Phase, Finished
<1>7. PICK p \in PE, f \in Phase :
        /\ pc[p] = <<f, "group">>
        /\ \A q \in PE : Posted(p) <= Posted(q)
  <2> DEFINE Steps == {Posted(q) : q \in PE}
  <2>1. \A q \in PE : Posted(q) \in Nat /\ (pc[q] # Finished => Posted(q) <= 2 * Rounds + 1)
    BY <1>3, <1>4, <1>5, <1>6, SMT
  <2>2. Steps \subseteq Nat /\ Steps # {}
    BY <2>1
  <2>3. PICK least \in Steps : \A k \in Steps : least <= k
    <3> HIDE DEF Steps
    <3> QED BY <2>2, Least
  <2>4. PICK q \in PE : least = Posted(q)
    OBVIOUS
  <2>5. \A s \in PE : Posted(q) <= Posted(s)
    BY <2>3, <2>4
  <2>6. CASE pc[q] # Finished
    BY <1>3, <2>5, <2>6
  <2>7. CASE pc[q] = Finished
    <3>1. Posted(q) = 2 * Rounds + 1 /\ Posted(q) <= Posted(r) /\ Posted(r) <= 2 * Rounds + 1
      BY <1>6, <2>1, <2>5, <2>7
    <3>2. Posted(r) = Posted(q)
      BY <1>4, <2>1, <3>1, SMT
    <3> QED BY <1>3, <2>5, <3>2
  <2> QED BY <2>6, <2>7
<1>8. \A m \in puts : m.src # p
  <2> SUFFICES ASSUME NEW m \in puts, m.src = p PROVE FALSE
    OBVIOUS
  <2>1. PICK d \in PE : d = m.dst
    BY DEF IInv, TypeOK, Put
  <2>2. m.phase = f /\ m.round = round[p] /\ d \in To(p, f)
    BY <1>7, <2>1 DEF IInv, Control, InFlight
  <2>3. Sent(p, f) = round[p]
    BY <1>7 DEF Sent, Ahead
  <2>4. m = Message(p, d, f, round[p])
    BY <2>1, <2>2 DEF Message, IInv, TypeOK, Put
  <2>5. Came(p, d, f) = round[p] - 1
    BY <2>3, <2>4 DEF Came
  <2>6. Posted(p) = 2 * round[p] + (IF f = "dispatch" THEN 0 ELSE 1) /\ Posted(p) <= Posted(d)
    BY <1>5, <1>7
  <2>7. \/ Came(p, d, f) = Ended(d, f)
        \/ Came(p, d, f) = Ended(d, f) + 1 /\ pc[d] = <<f, "group">>
    BY <1>3, <2>2 DEF IInv, Control, InStep, Finished
  <2>8. CASE pc[d] = Finished
    BY <1>4, <1>6, <2>5, <2>7, <2>8 DEF Finished
  <2>9. CASE pc[d] = <<f, "group">>
    <3>1. round[d] # round[p]
      BY <1>2, <2>1, <2>2, <2>9 DEF CanDeliver
    <3>2. Ended(d, f) = round[d] - 1 /\ Posted(d) = 2 * round[d] + (IF f = "dispatch" THEN 0 ELSE 1)
      BY <1>5, <2>9
    <3> QED BY <1>4, <2>5, <2>6, <2>7, <3>1, <3>2, SMT
  <2>10. ASSUME NEW g \in Phase, g # f, pc[d] = <<g, "group">>
         PROVE  FALSE
    <3>1. Came(p, d, f) = Ended(d, f)
      BY <2>7, <2>10
    <3>2. /\ Posted(d) = 2 * round[d] + (IF g = "dispatch" THEN 0 ELSE 1)
          /\ Ended(d, f) = IF f = "combine" THEN round[d] - 1 ELSE round[d]
      BY <1>5, <2>10
    <3> QED BY <1>4, <2>5, <2>6, <2>10, <3>1, <3>2, SMT DEF Phase
  <2> QED BY <1>3, <2>8, <2>9, <2>10
<1>9. ASSUME NEW q \in From(p, f)
      PROVE  Posted(q) >= Posted(p) /\ Message(q, p, f, round[p]) \notin puts
  <2>1. q \in PE
    BY DEF From
  <2>2. Posted(p) <= Posted(q) /\ Posted(p) \in Nat /\ Posted(q) \in Nat
    BY <1>3, <1>4, <1>5, <1>6, <1>7, <2>1, SMT
  <2>3. \A m \in puts : m # Message(q, p, f, round[p])
    BY <1>2, <1>7 DEF CanDeliver, Message
  <2> QED BY <2>2, <2>3
<1>10. CanEndGroup(p)
  BY <1>7, <1>8, <1>9 DEF CanEndGroup
<1> QED BY <1>10

(* The exchange cannot come to a standstill: with puts everybody comes to  *)
(* the barrier, and among groups, which no barrier holds together, waiting *)
(* is never circular.                                                      *)
THEOREM NeverStuckHolds == Spec => []NeverStuck
<1>1. Init => DoneAtEnd
  <2>1. Init => \A p \in PE : pc[p] \in {<<"probe", "post">>, <<"dispatch", "put">>}
    BY DEF Init
  <2> QED BY <2>1 DEF DoneAtEnd, Finished
<1>2. IInv /\ DoneAtEnd => NeverStuck
  <2> SUFFICES ASSUME IInv, DoneAtEnd, transport # "probed", NEW p \in PE, pc[p] # Finished
               PROVE  SomeoneCanGoOn
    BY DEF NeverStuck
  <2>1. transport \in {"puts", "groups"}
    BY DEF IInv, TypeOK, Transports
  <2> QED BY <2>1, PutsGoOn, GroupsGoOn
<1> QED BY <1>1, <1>2, DoneAtEndStep, Inductive, PTL DEF Spec

=============================================================================
