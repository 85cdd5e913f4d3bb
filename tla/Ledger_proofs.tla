----------------------------- MODULE Ledger_proofs -----------------------------
(* Proofs about the ledger, and about the sums its books are made of.        *)
EXTENDS Ledger, FiniteSetTheorems, TLAPS

-------------------------------------------------------------------------------
(* Induction, in the two forms that need no predicate: a set of numbers has a  *)
(* least element, a set of subsets of a finite set has a smallest one.         *)

LEMMA LeastNumber ==
  ASSUME NEW B, B \subseteq Nat, B # {}
  PROVE  \E m \in B : \A k \in B : m <= k
<1>1. PICK m \in B : \A k \in B : ~(<<k, m>> \in OpToRel(<, Nat))
  BY NatLessThanWellFounded, WFMin
<1>2. \A k \in B : ~(k < m)
  BY <1>1 DEF OpToRel
<1>3. \A k \in B : k \in Nat /\ m \in Nat
  OBVIOUS
<1> QED
  BY <1>2, <1>3

LEMMA SmallestSubset ==
  ASSUME NEW S, IsFiniteSet(S), NEW B, B \subseteq SUBSET S, B # {}
  PROVE  \E T \in B : \A U \in B : U \subseteq T => U = T
<1>1. IsWellFoundedOn(StrictSubsetOrdering(S), SUBSET S)
  BY FS_StrictSubsetOrderingWellFounded, FS_FiniteSubsetsOfFinite
<1>2. PICK T \in B : \A U \in B : ~(<<U, T>> \in StrictSubsetOrdering(S))
  BY <1>1, WFMin
<1> QED
  BY <1>2 DEF StrictSubsetOrdering

-------------------------------------------------------------------------------
(* Sums.  MapThenSumSet takes the members of a set in the order CHOOSE gives   *)
(* them; g sums f over the subsets of S if it does that for each of them.      *)

Pick(s) == CHOOSE x \in s : TRUE
Step(f, g, s) == IF s = {} THEN 0 ELSE f[Pick(s)] + g[s \ {Pick(s)}]
Sums(f, g, S) == g = [s \in SUBSET S |-> Step(f, g, s)]

SumOver(f, S) == (CHOOSE g : Sums(f, g, S))[S]

LEMMA PickIn == ASSUME NEW s, s # {} PROVE Pick(s) \in s
BY DEF Pick

\* There is such a function: one that sums over up to n members gives one that
\* sums over up to n + 1.
LEMMA SumsExist ==
  ASSUME NEW f, NEW S, IsFiniteSet(S)
  PROVE  \E g : Sums(f, g, S)
<1> DEFINE SumsTo(g, n) ==
             g = [s \in SUBSET S |-> IF Cardinality(s) <= n THEN Step(f, g, s) ELSE 0]
           B == {n \in Nat : ~\E g : SumsTo(g, n)}
<1>1. ASSUME NEW s \in SUBSET S PROVE IsFiniteSet(s) /\ Cardinality(s) \in Nat
  BY FS_Subset, FS_CardinalityType
<1>2. SumsTo([s \in SUBSET S |-> 0], 0)
  BY <1>1, FS_EmptySet DEF Step
<1>3. ASSUME NEW n \in Nat, NEW g, SumsTo(g, n)
      PROVE  \E h : SumsTo(h, n + 1)
  <2> DEFINE h == [s \in SUBSET S |->
                     IF Cardinality(s) <= n + 1 THEN Step(f, g, s) ELSE 0]
  <2>1. ASSUME NEW s \in SUBSET S, Cardinality(s) <= n + 1
        PROVE  Step(f, g, s) = Step(f, h, s)
    <3> DEFINE u == s \ {Pick(s)}
    <3>1. CASE s = {}
      BY <3>1 DEF Step
    <3>2. CASE s # {}
      <4>1. u \in SUBSET S /\ Cardinality(u) = Cardinality(s) - 1
        BY <1>1, <3>2, PickIn, FS_RemoveElement
      <4>2. Cardinality(s) \in Nat /\ Cardinality(u) \in Nat
        BY <1>1, <4>1
      <4>3. Cardinality(u) <= n /\ Cardinality(u) <= n + 1
        BY <2>1, <4>1, <4>2
      <4>4. g[u] = Step(f, g, u)
        BY <1>3, <4>1, <4>3
      <4>5. h[u] = Step(f, g, u)
        BY <4>1, <4>3
      <4> QED
        BY <3>2, <4>4, <4>5 DEF Step
    <3> QED
      BY <3>1, <3>2
  <2>2. SumsTo(h, n + 1)
    BY <2>1
  <2> QED
    BY <2>2
<1>4. B = {}
  <2> SUFFICES ASSUME B # {} PROVE FALSE
    OBVIOUS
  <2>1. PICK m \in B : \A k \in B : m <= k
    BY LeastNumber
  <2>2. m \in Nat /\ ~\E g : SumsTo(g, m)
    BY <2>1
  <2> HIDE DEF SumsTo
  <2>3. m # 0
    BY <1>2, <2>2
  <2>4. m - 1 \in Nat /\ ~(m <= m - 1) /\ (m - 1) + 1 = m
    BY <2>2, <2>3
  <2>5. PICK g : SumsTo(g, m - 1)
    BY <2>1, <2>4
  <2>6. \E h : SumsTo(h, (m - 1) + 1)
    BY <1>3, <2>4, <2>5
  <2> QED
    BY <2>2, <2>4, <2>6
<1>5. PICK g : SumsTo(g, Cardinality(S))
  BY <1>1, <1>4
<1>6. ASSUME NEW s \in SUBSET S PROVE Cardinality(s) <= Cardinality(S)
  BY FS_Subset
<1>7. Sums(f, g, S)
  BY <1>5, <1>6 DEF Sums
<1> QED
  BY <1>7

\* All such functions agree, and SumOver is what they give.
LEMMA SumsAgree ==
  ASSUME NEW f, NEW S, IsFiniteSet(S), NEW g, Sums(f, g, S),
         NEW T, NEW h, Sums(f, h, T), NEW s \in SUBSET S, s \in SUBSET T
  PROVE  g[s] = h[s]
<1> DEFINE B == {u \in SUBSET S : u \subseteq T /\ g[u] # h[u]}
<1> SUFFICES ASSUME B # {} PROVE FALSE
  OBVIOUS
<1>1. PICK u \in B : \A v \in B : v \subseteq u => v = u
  <2>1. B \subseteq SUBSET S
    OBVIOUS
  <2> HIDE DEF B
  <2> QED
    BY <2>1, SmallestSubset
<1>2. g[u] = Step(f, g, u) /\ h[u] = Step(f, h, u)
  BY <1>1 DEF Sums
<1>3. u # {}
  BY <1>1, <1>2 DEF Step
<1>4. u \ {Pick(u)} \notin B
  BY <1>1, <1>3, PickIn
<1> QED
  BY <1>1, <1>2, <1>3, <1>4 DEF Step

LEMMA SumOverIs ==
  ASSUME NEW f, NEW S, IsFiniteSet(S), NEW g, Sums(f, g, S), NEW T \in SUBSET S
  PROVE  SumOver(f, T) = g[T]
<1> DEFINE h == CHOOSE h : Sums(f, h, T)
<1>1. IsFiniteSet(T)
  BY FS_Subset
<1>2. Sums(f, h, T)
  BY <1>1, SumsExist
<1>3. g[T] = h[T]
  BY <1>2, SumsAgree
<1> QED
  BY <1>3 DEF SumOver

-------------------------------------------------------------------------------
(* What sums obey.                                                             *)

Summable(f, S) == IsFiniteSet(S) /\ \A x \in S : f[x] \in Int

LEMMA SumUnfolds ==
  ASSUME NEW f, NEW S, IsFiniteSet(S)
  PROVE  SumOver(f, S) = IF S = {} THEN 0
                         ELSE f[Pick(S)] + SumOver(f, S \ {Pick(S)})
<1>1. PICK g : Sums(f, g, S)
  BY SumsExist
<1>2. \A T \in SUBSET S : SumOver(f, T) = g[T]
  BY <1>1, SumOverIs
<1>3. g[S] = Step(f, g, S)
  BY <1>1 DEF Sums
<1> QED
  BY <1>2, <1>3 DEF Step

LEMMA SumType == ASSUME NEW f, NEW S, Summable(f, S) PROVE SumOver(f, S) \in Int
<1> DEFINE B == {s \in SUBSET S : SumOver(f, s) \notin Int}
<1> SUFFICES ASSUME B # {} PROVE FALSE
  OBVIOUS
<1>1. PICK s \in B : \A u \in B : u \subseteq s => u = s
  <2>1. B \subseteq SUBSET S
    OBVIOUS
  <2> HIDE DEF B
  <2> QED
    BY <2>1, SmallestSubset DEF Summable
<1>2. IsFiniteSet(s)
  BY FS_Subset DEF Summable
<1>3. s # {} /\ SumOver(f, s) = f[Pick(s)] + SumOver(f, s \ {Pick(s)})
  <2>1. SumOver(f, s) \notin Int
    BY <1>1
  <2>2. SumOver(f, s) = IF s = {} THEN 0
                        ELSE f[Pick(s)] + SumOver(f, s \ {Pick(s)})
    BY <1>2, SumUnfolds
  <2> QED
    BY <2>1, <2>2
<1>4. SumOver(f, s \ {Pick(s)}) \in Int
  BY <1>1, <1>3, PickIn
<1>5. f[Pick(s)] \in Int
  BY <1>1, <1>3, PickIn DEF Summable
<1> QED
  BY <1>1, <1>3, <1>4, <1>5

\* Whichever member is taken out first, the sum is the same.
LEMMA SumRemove ==
  ASSUME NEW f, NEW S, Summable(f, S), NEW x \in S
  PROVE  SumOver(f, S) = f[x] + SumOver(f, S \ {x})
<1> DEFINE B == {s \in SUBSET S :
                   \E y \in s : SumOver(f, s) # f[y] + SumOver(f, s \ {y})}
<1> SUFFICES ASSUME B # {} PROVE FALSE
  OBVIOUS
<1>1. PICK s \in B : \A u \in B : u \subseteq s => u = s
  <2>1. B \subseteq SUBSET S
    OBVIOUS
  <2> HIDE DEF B
  <2> QED
    BY <2>1, SmallestSubset DEF Summable
<1>2. PICK y \in s : SumOver(f, s) # f[y] + SumOver(f, s \ {y})
  BY <1>1
<1> DEFINE p == Pick(s)
           rest == SumOver(f, (s \ {y}) \ {p})
<1>3. p \in s
  BY <1>2, PickIn
<1>4. ASSUME NEW u \in SUBSET S PROVE IsFiniteSet(u) /\ SumOver(f, u) \in Int
  BY FS_Subset, SumType DEF Summable
<1>5. SumOver(f, s) = f[p] + SumOver(f, s \ {p})
  BY <1>1, <1>3, <1>4, SumUnfolds
<1>6. p # y
  BY <1>2, <1>5
<1>7. s \ {p} \notin B /\ s \ {y} \notin B
  BY <1>1, <1>2, <1>3
<1>8. SumOver(f, s \ {p}) = f[y] + SumOver(f, (s \ {p}) \ {y})
  BY <1>1, <1>2, <1>6, <1>7
<1>9. SumOver(f, s \ {y}) = f[p] + rest
  BY <1>1, <1>3, <1>6, <1>7
<1>10. (s \ {p}) \ {y} = (s \ {y}) \ {p}
  OBVIOUS
<1>11. f[p] \in Int /\ f[y] \in Int /\ rest \in Int
  BY <1>1, <1>2, <1>3, <1>4 DEF Summable
<1>12. SumOver(f, s) = f[p] + (f[y] + rest)
  BY <1>5, <1>8, <1>10
<1> HIDE DEF p, rest
<1>13. f[p] + (f[y] + rest) = f[y] + (f[p] + rest)
  BY <1>11
<1> QED
  BY <1>2, <1>9, <1>12, <1>13

\* One more member adds its value.
LEMMA SumAdd ==
  ASSUME NEW f, NEW S, Summable(f, S), NEW x, x \notin S, f[x] \in Int
  PROVE  /\ Summable(f, S \cup {x})
         /\ SumOver(f, S \cup {x}) = SumOver(f, S) + f[x]
<1>1. Summable(f, S \cup {x})
  BY FS_AddElement DEF Summable
<1>2. (S \cup {x}) \ {x} = S
  OBVIOUS
<1>3. SumOver(f, S \cup {x}) = f[x] + SumOver(f, S)
  BY <1>1, <1>2, SumRemove
<1>4. SumOver(f, S) \in Int
  BY SumType
<1> QED
  BY <1>1, <1>3, <1>4

LEMMA SumEmpty == ASSUME NEW f PROVE Summable(f, {}) /\ SumOver(f, {}) = 0
BY FS_EmptySet, SumUnfolds DEF Summable

\* A sum of sums is the sum of the two.
LEMMA SumOfSums ==
  ASSUME NEW f, NEW g, NEW h, NEW S, Summable(g, S), Summable(h, S),
         \A x \in S : f[x] = g[x] + h[x]
  PROVE  SumOver(f, S) = SumOver(g, S) + SumOver(h, S)
<1> DEFINE B == {s \in SUBSET S : SumOver(f, s) # SumOver(g, s) + SumOver(h, s)}
<1> SUFFICES ASSUME B # {} PROVE FALSE
  OBVIOUS
<1>1. PICK s \in B : \A u \in B : u \subseteq s => u = s
  <2>1. B \subseteq SUBSET S
    OBVIOUS
  <2> HIDE DEF B
  <2> QED
    BY <2>1, SmallestSubset DEF Summable
<1>2. IsFiniteSet(s) /\ SumOver(f, s) # SumOver(g, s) + SumOver(h, s)
  BY <1>1, FS_Subset DEF Summable
<1>3. s # {}
  BY <1>2, SumEmpty
<1> DEFINE x == Pick(s)
           u == s \ {x}
<1>4. x \in s /\ x \in S /\ u \in SUBSET S /\ u \notin B
  BY <1>1, <1>3, PickIn
<1>5. Summable(g, u) /\ Summable(h, u)
  BY <1>4, FS_Subset DEF Summable
<1>6. SumOver(g, u) \in Int /\ SumOver(h, u) \in Int
  BY <1>5, SumType
<1>7. g[x] \in Int /\ h[x] \in Int /\ f[x] = g[x] + h[x]
  BY <1>4 DEF Summable
<1>8. SumOver(f, u) = SumOver(g, u) + SumOver(h, u)
  BY <1>4
<1>9. /\ SumOver(f, s) = f[x] + SumOver(f, u)
      /\ SumOver(g, s) = g[x] + SumOver(g, u)
      /\ SumOver(h, s) = h[x] + SumOver(h, u)
  BY <1>2, <1>3, SumUnfolds
<1> HIDE DEF x, u
<1> QED
  BY <1>2, <1>6, <1>7, <1>8, <1>9

\* The sum over two sets that share nothing.
LEMMA SumDisjoint ==
  ASSUME NEW f, NEW S, Summable(f, S), NEW T, Summable(f, T), S \cap T = {}
  PROVE  SumOver(f, S \cup T) = SumOver(f, S) + SumOver(f, T)
<1> DEFINE B == {s \in SUBSET T : SumOver(f, S \cup s) # SumOver(f, S) + SumOver(f, s)}
<1> SUFFICES ASSUME B # {} PROVE FALSE
  OBVIOUS
<1>1. PICK s \in B : \A u \in B : u \subseteq s => u = s
  <2>1. B \subseteq SUBSET T
    OBVIOUS
  <2> HIDE DEF B
  <2> QED
    BY <2>1, SmallestSubset DEF Summable
<1>2. SumOver(f, S) \in Int
  BY SumType
<1>3. s # {}
  <2>1. S \cup {} = S /\ SumOver(f, S) + 0 = SumOver(f, S)
    BY <1>2
  <2>2. SumOver(f, {}) = 0
    BY SumEmpty
  <2>3. SumOver(f, S \cup s) # SumOver(f, S) + SumOver(f, s)
    BY <1>1
  <2> QED
    BY <2>1, <2>2, <2>3
<1> DEFINE x == Pick(s)
           u == s \ {x}
<1>4. x \in s /\ x \in T /\ x \notin S /\ u \in SUBSET T /\ u \notin B
  BY <1>1, <1>3, PickIn
<1>5. Summable(f, u) /\ Summable(f, S \cup u) /\ f[x] \in Int
  BY <1>4, FS_Subset, FS_Union DEF Summable
<1>6. s = u \cup {x} /\ S \cup s = (S \cup u) \cup {x}
  BY <1>4
<1>7. SumOver(f, S \cup u) = SumOver(f, S) + SumOver(f, u)
  BY <1>4
<1>8. SumOver(f, u) \in Int
  BY <1>5, SumType
<1>9. x \notin u /\ x \notin S \cup u
  BY <1>4
<1> HIDE DEF x, u
<1>10. SumOver(f, s) = SumOver(f, u) + f[x]
  BY <1>5, <1>6, <1>9, SumAdd
<1>11. SumOver(f, S \cup s) = SumOver(f, S \cup u) + f[x]
  BY <1>5, <1>6, <1>9, SumAdd
<1> QED
  BY <1>1, <1>2, <1>5, <1>7, <1>8, <1>10, <1>11

\* The sums of functions in the community modules are sums of this kind.
LEMMA FoldIsSum ==
  ASSUME NEW f, NEW S, IsFiniteSet(S)
  PROVE  SumFunctionOnSet(f, S) = SumOver(f, S)
<1> DEFINE g == CHOOSE g : g = [s \in SUBSET S |-> Step(f, g, s)]
<1>1. SumFunctionOnSet(f, S) = g[S]
  BY DEF SumFunctionOnSet, FoldFunctionOnSet, MapThenFoldSet, Step, Pick
<1>2. Sums(f, g, S)
  BY SumsExist DEF Sums
<1> HIDE DEF g
<1> QED
  BY <1>1, <1>2, SumOverIs

-------------------------------------------------------------------------------
(* The books.                                                                  *)

Total(S) == MapThenSumSet(EntryAmount, S)
AmountOf == [e \in Entry |-> e.amount]

\* The entries in E on accounts of group F.
Within(E, F) == {e \in E : e.account \in F}

Owed(t, F) ==
  (IF t.to \in F THEN t.amount ELSE 0) - (IF t.from \in F THEN t.amount ELSE 0)

\* A transfer's amount is positive, and what it writes are entries.
LEMMA EntriesTyped ==
  ASSUME NEW t \in Transfer
  PROVE  /\ FromEntry(t) \in Entry /\ ToEntry(t) \in Entry
         /\ FromEntry(t) # ToEntry(t)
         /\ t.amount \in Nat /\ t.amount > 0
<1>1. t.amount \in 1..MaxInt64 /\ MaxInt64 \in Nat
  BY BoundsAssumption, ValuesAssumption DEF BoundsAssumption, ValuesAssumption,
     Transfer
<1>2. t.amount \in Int64 /\ -t.amount \in Int64 /\ t.amount # -t.amount
  BY <1>1 DEF Int64
<1>3. t.tx \in TxIDs /\ t.from \in AccountIDs /\ t.to \in AccountIDs
  BY DEF Transfer
<1> QED
  BY <1>1, <1>2, <1>3 DEF FromEntry, ToEntry, Entry

LEMMA AmountsSummable ==
  ASSUME NEW E, E \subseteq Entry, IsFiniteSet(E)
  PROVE  /\ Summable(AmountOf, E)
         /\ Total(E) = SumOver(AmountOf, E)
         /\ Total(E) \in Int
<1>1. \A e \in Entry : AmountOf[e] = EntryAmount(e) /\ AmountOf[e] \in Int
  BY BoundsAssumption DEF BoundsAssumption, Int64, AmountOf, EntryAmount, Entry
<1>2. Summable(AmountOf, E)
  BY <1>1 DEF Summable
<1>3. Total(E) = SumOver(AmountOf, E)
  <2> DEFINE Iter(g, s) == IF s = {} THEN 0 ELSE EntryAmount(Pick(s)) + g[s \ {Pick(s)}]
             g == CHOOSE g : g = [s \in SUBSET E |-> Iter(g, s)]
  <2>1. Total(E) = g[E]
    BY DEF Total, MapThenSumSet, MapThenFoldSet, Pick
  <2>2. ASSUME NEW h, NEW s \in SUBSET E PROVE Iter(h, s) = Step(AmountOf, h, s)
    BY <1>1, PickIn DEF Step
  <2>3. \A h : [s \in SUBSET E |-> Iter(h, s)] = [s \in SUBSET E |-> Step(AmountOf, h, s)]
    BY <2>2
  <2> HIDE DEF Iter
  <2>4. Sums(AmountOf, g, E)
    BY <2>3, SumsExist DEF Sums
  <2> HIDE DEF g
  <2> QED
    BY <2>1, <2>4, SumOverIs
<1> QED
  BY <1>2, <1>3, SumType

LEMMA TotalEmpty == Total({}) = 0
BY AmountsSummable, SumEmpty, FS_EmptySet

LEMMA EntriesSummable ==
  ASSUME NEW E, E \subseteq Entry, IsFiniteSet(E), NEW F
  PROVE  Within(E, F) \subseteq Entry /\ IsFiniteSet(Within(E, F))
         /\ Total(Within(E, F)) \in Int
<1>1. Within(E, F) \in SUBSET E
  BY DEF Within
<1> QED
  BY <1>1, FS_Subset, AmountsSummable

\* One more entry adds its amount to every group its account is in.
LEMMA EntryAdds ==
  ASSUME NEW E, E \subseteq Entry, IsFiniteSet(E), NEW e \in Entry, e \notin E,
         NEW F
  PROVE  Total(Within(E \cup {e}, F)) =
           Total(Within(E, F)) + (IF e.account \in F THEN e.amount ELSE 0)
<1> DEFINE W == Within(E, F)
<1>1. W \subseteq Entry /\ IsFiniteSet(W) /\ Total(W) \in Int
  BY EntriesSummable
<1>2. CASE e.account \in F
  <2>1. Within(E \cup {e}, F) = W \cup {e} /\ e \notin W
    BY <1>2 DEF Within
  <2>2. AmountOf[e] = e.amount /\ e.amount \in Int
    BY BoundsAssumption DEF BoundsAssumption, Int64, Entry, AmountOf
  <2>3. W \cup {e} \subseteq Entry /\ IsFiniteSet(W \cup {e})
    BY <1>1, FS_AddElement
  <2> HIDE DEF W
  <2>4. Summable(AmountOf, W) /\ Total(W) = SumOver(AmountOf, W)
    BY <1>1, AmountsSummable
  <2>5. SumOver(AmountOf, W \cup {e}) = SumOver(AmountOf, W) + e.amount
    BY <2>1, <2>2, <2>4, SumAdd
  <2>6. Total(W \cup {e}) = Total(W) + e.amount
    BY <2>3, <2>4, <2>5, AmountsSummable
  <2> QED
    BY <1>2, <2>1, <2>6 DEF W
<1>3. CASE e.account \notin F
  <2>1. Within(E \cup {e}, F) = W
    BY <1>3 DEF Within
  <2> QED
    BY <1>1, <1>3, <2>1
<1> QED
  BY <1>2, <1>3

\* What a transfer adds to any group of accounts: its amount if it comes in, less
\* its amount if it goes out.
LEMMA PostAdds ==
  ASSUME NEW E, E \subseteq Entry, IsFiniteSet(E), NEW t \in Transfer,
         FromEntry(t) \notin E, ToEntry(t) \notin E, NEW F
  PROVE  Total(Within(E \cup {FromEntry(t), ToEntry(t)}, F)) =
           Total(Within(E, F)) + Owed(t, F)
<1> DEFINE E1 == E \cup {FromEntry(t)}
<1>1. E1 \subseteq Entry /\ IsFiniteSet(E1) /\ ToEntry(t) \notin E1
  BY EntriesTyped, FS_AddElement
<1>2. Total(Within(E1, F)) =
        Total(Within(E, F)) + (IF t.from \in F THEN -t.amount ELSE 0)
  BY EntriesTyped, EntryAdds DEF FromEntry
<1>3. Total(Within(E1 \cup {ToEntry(t)}, F)) =
        Total(Within(E1, F)) + (IF t.to \in F THEN t.amount ELSE 0)
  BY <1>1, EntriesTyped, EntryAdds DEF ToEntry
<1>4. E1 \cup {ToEntry(t)} = E \cup {FromEntry(t), ToEntry(t)}
  OBVIOUS
<1>5. Total(Within(E, F)) \in Int /\ t.amount \in Int
  BY EntriesSummable, EntriesTyped
<1> HIDE DEF E1
<1>6. Total(Within(E \cup {FromEntry(t), ToEntry(t)}, F)) =
        (Total(Within(E, F)) + (IF t.from \in F THEN -t.amount ELSE 0))
          + (IF t.to \in F THEN t.amount ELSE 0)
  BY <1>2, <1>3, <1>4
<1> DEFINE total == Total(Within(E, F))
           m == t.amount
<1>7. total \in Int /\ m \in Int
  BY <1>5
<1> HIDE DEF total, m
<1>8. (total + (IF t.from \in F THEN -m ELSE 0)) + (IF t.to \in F THEN m ELSE 0)
        = total + ((IF t.to \in F THEN m ELSE 0) - (IF t.from \in F THEN m ELSE 0))
  BY <1>7
<1> QED
  BY <1>6, <1>8 DEF total, m, Owed

-------------------------------------------------------------------------------
(* The invariant of the ledger.                                                *)

\* Conservation in terms of groups of accounts.
Balanced(ids, bal, hand, E) ==
  /\ \A a \in ids : bal[a] = hand[a] + Total(Within(E, {a}))
  /\ Total(Within(E, AccountIDs)) = 0

\* The entries of a group of accounts are those of its members.
LEMMA GroupTotal ==
  ASSUME NEW E, E \subseteq Entry, IsFiniteSet(E), NEW F, IsFiniteSet(F)
  PROVE  SumOver([a \in F |-> Total(Within(E, {a}))], F) = Total(Within(E, F))
<1> DEFINE f == [a \in F |-> Total(Within(E, {a}))]
           B == {s \in SUBSET F : SumOver(f, s) # Total(Within(E, s))}
<1> SUFFICES ASSUME B # {} PROVE FALSE
  OBVIOUS
<1>1. PICK s \in B : \A u \in B : u \subseteq s => u = s
  <2>1. B \subseteq SUBSET F
    OBVIOUS
  <2> HIDE DEF B
  <2> QED
    BY <2>1, SmallestSubset
<1>2. s # {}
  <2>1. Within(E, {}) = {}
    BY DEF Within
  <2> QED
    BY <1>1, <2>1, TotalEmpty, SumEmpty
<1> DEFINE x == Pick(s)
           u == s \ {x}
           V == Within(E, u)
           W == Within(E, {x})
<1>3. x \in s /\ x \in F /\ u \in SUBSET F /\ u \notin B
  BY <1>1, <1>2, PickIn
<1>4. /\ V \subseteq Entry /\ IsFiniteSet(V) /\ Total(V) \in Int
      /\ W \subseteq Entry /\ IsFiniteSet(W) /\ Total(W) \in Int
      /\ Within(E, s) \subseteq Entry /\ IsFiniteSet(Within(E, s))
  BY EntriesSummable
<1>5. Within(E, s) = V \cup W /\ V \cap W = {}
  BY <1>3 DEF Within
<1>6. Total(Within(E, s)) = Total(V) + Total(W)
  <2> HIDE DEF V, W
  <2> QED
    BY <1>4, <1>5, AmountsSummable, SumDisjoint
<1>7. SumOver(f, u) = Total(V) /\ f[x] = Total(W)
  BY <1>3
<1>8. SumOver(f, s) = f[x] + SumOver(f, u)
  <2>1. IsFiniteSet(s)
    BY <1>1, FS_Subset
  <2> HIDE DEF f
  <2> QED
    BY <1>2, <2>1, SumUnfolds
<1> HIDE DEF f, V, W
<1> QED
  BY <1>1, <1>4, <1>6, <1>7, <1>8

\* So books that balance account by account balance as a whole.
LEMMA WholeBalances ==
  ASSUME NEW ids, IsFiniteSet(ids), ids \subseteq AccountIDs,
         NEW bal, NEW hand \in [AccountIDs -> Int],
         NEW E, E \subseteq Entry, IsFiniteSet(E), \A e \in E : e.account \in ids,
         Balanced(ids, bal, hand, E)
  PROVE  SumFunctionOnSet(bal, ids) = SumFunctionOnSet(hand, ids)
<1> DEFINE due == [a \in ids |-> Total(Within(E, {a}))]
<1>1. Summable(hand, ids) /\ Summable(due, ids)
  BY EntriesSummable DEF Summable
<1>2. SumOver(due, ids) = 0
  <2>1. Within(E, ids) = Within(E, AccountIDs)
    BY DEF Within
  <2> QED
    BY <2>1, GroupTotal DEF Balanced
<1>3. \A a \in ids : bal[a] = hand[a] + due[a]
  BY DEF Balanced
<1> HIDE DEF due
<1>4. SumOver(bal, ids) = SumOver(hand, ids) + SumOver(due, ids)
  BY <1>1, <1>3, SumOfSums
<1>5. SumOver(hand, ids) \in Int
  BY <1>1, SumType
<1>6. SumOver(bal, ids) = SumOver(hand, ids)
  BY <1>2, <1>4, <1>5
<1>7. /\ SumFunctionOnSet(bal, ids) = SumOver(bal, ids)
      /\ SumFunctionOnSet(hand, ids) = SumOver(hand, ids)
  BY FoldIsSum
<1> QED
  BY <1>6, <1>7

LEMMA ConservationIsBalanced ==
  /\ TablesOK /\ IsFiniteSet(entries) /\ EntriesHaveAccounts =>
       (Conservation <=> Balanced(accounts, balance, unlogged, entries))
  /\ TablesOK' /\ IsFiniteSet(entries') /\ EntriesHaveAccounts' =>
       (Conservation' <=> Balanced(accounts', balance', unlogged', entries'))
<1>1. \A E, a : {e \in E : e.account = a} = Within(E, {a})
  BY DEF Within
<1>2. \A E : E \subseteq Entry => Within(E, AccountIDs) = E
  BY DEF Within, Entry
<1>3. IsFiniteSet(AccountIDs)
  BY FS_Interval, BoundsAssumption DEF BoundsAssumption, AccountIDs
<1>4. TablesOK => IsFiniteSet(accounts)
  BY <1>3, FS_Subset DEF TablesOK
<1>5. TablesOK' => IsFiniteSet(accounts')
  BY <1>3, FS_Subset DEF TablesOK
<1>6. TablesOK /\ IsFiniteSet(entries) /\ EntriesHaveAccounts
        /\ Balanced(accounts, balance, unlogged, entries)
      => SumFunctionOnSet(balance, accounts) = SumFunctionOnSet(unlogged, accounts)
  BY <1>4, WholeBalances DEF TablesOK, EntriesHaveAccounts
<1>7. TablesOK' /\ IsFiniteSet(entries') /\ EntriesHaveAccounts'
        /\ Balanced(accounts', balance', unlogged', entries')
      => SumFunctionOnSet(balance', accounts') = SumFunctionOnSet(unlogged', accounts')
  BY <1>5, WholeBalances DEF TablesOK, EntriesHaveAccounts
<1>8. TablesOK =>
       (Conservation <=>
          /\ Balanced(accounts, balance, unlogged, entries)
          /\ SumFunctionOnSet(balance, accounts) = SumFunctionOnSet(unlogged, accounts))
  BY <1>1, <1>2 DEF Conservation, Balanced, EntriesOf, Total, TablesOK
<1>9. TablesOK' =>
       (Conservation' <=>
          /\ Balanced(accounts', balance', unlogged', entries')
          /\ SumFunctionOnSet(balance', accounts') = SumFunctionOnSet(unlogged', accounts'))
  BY <1>1, <1>2 DEF Conservation, Balanced, EntriesOf, Total, TablesOK
<1> QED
  BY <1>6, <1>7, <1>8, <1>9

LEMMA NoEntries == \A F : Within({}, F) = {}
BY DEF Within

LEMMA InitLedger == TablesInit => LedgerInv
<1> SUFFICES ASSUME TablesInit PROVE LedgerInv
  OBVIOUS
<1>1. TablesOK
  <2>1. PICK b \in [1..Seeded -> SeedBalances] :
         balance = [a \in AccountIDs |-> IF a \in 1..Seeded THEN b[a] ELSE 0]
    BY DEF TablesInit
  <2>2. 0 \in Int64 /\ Int64 \subseteq Int
    BY BoundsAssumption DEF BoundsAssumption, Int64
  <2>3. balance \in [AccountIDs -> Int64] /\ unlogged \in [AccountIDs -> Int]
    BY <2>1, <2>2, ValuesAssumption DEF ValuesAssumption, TablesInit
  <2>4. accounts \subseteq AccountIDs /\ nextAccountID \in 1..(MaxAccountID + 1)
    BY BoundsAssumption DEF BoundsAssumption, AccountIDs, TablesInit
  <2> QED
    BY <2>3, <2>4 DEF TablesOK, TablesInit
<1>2. EntriesHaveAccounts
  BY BoundsAssumption DEF BoundsAssumption, EntriesHaveAccounts, TablesInit
<1>3. Balanced(accounts, balance, unlogged, entries)
  <2>1. ASSUME NEW a \in accounts PROVE balance[a] = unlogged[a] + 0
    BY <1>1 DEF TablesOK, TablesInit
  <2> QED
    BY <2>1, NoEntries, TotalEmpty DEF Balanced, TablesInit
<1> QED
  BY <1>1, <1>2, <1>3, ConservationIsBalanced, FS_EmptySet
     DEF LedgerInv, DoubleEntry, TablesInit

LEMMA OpenStep == ASSUME LedgerInv, NEW b \in Int64, Open(b) PROVE LedgerInv'
<1> DEFINE n == nextAccountID
<1>1. n \in AccountIDs /\ n \notin accounts /\ n + 1 \in 1..(MaxAccountID + 1)
  BY BoundsAssumption DEF BoundsAssumption, LedgerInv, EntriesHaveAccounts,
     TablesOK, AccountIDs, Open
<1>2. UNCHANGED <<entries, transfers>> /\ nextAccountID' = n + 1
  BY DEF Open
<1>3. /\ accounts' \in {accounts, accounts \cup {n}}
      /\ n \in accounts' => balance'[n] = b /\ unlogged'[n] = b
      /\ \A a \in accounts : balance'[a] = balance[a] /\ unlogged'[a] = unlogged[a]
      /\ balance' \in [AccountIDs -> Int64] /\ unlogged' \in [AccountIDs -> Int]
  BY <1>1, BoundsAssumption DEF Open, LedgerInv, TablesOK, BoundsAssumption, Int64
<1>4. TablesOK'
  BY <1>1, <1>2, <1>3 DEF LedgerInv, TablesOK
<1>5. EntriesHaveAccounts'
  <2>1. n \in Int /\ \A a \in accounts : a \in Int /\ a < n
    BY <1>1 DEF LedgerInv, EntriesHaveAccounts, TablesOK, AccountIDs
  <2> HIDE DEF n
  <2>2. \A a \in accounts \cup {n} : a < n + 1
    BY <2>1
  <2>3. \A e \in entries : e.account \in accounts'
    BY <1>3 DEF LedgerInv, EntriesHaveAccounts
  <2> QED
    BY <1>2, <1>3, <2>2, <2>3 DEF EntriesHaveAccounts
<1>6. DoubleEntry'
  BY <1>2 DEF LedgerInv, DoubleEntry
<1>7. Balanced(accounts', balance', unlogged', entries')
  <2>1. Balanced(accounts, balance, unlogged, entries)
    BY ConservationIsBalanced DEF LedgerInv
  <2>2. Within(entries, {n}) = {}
    BY <1>1 DEF LedgerInv, EntriesHaveAccounts, Within
  <2>3. b = b + 0
    BY BoundsAssumption DEF BoundsAssumption, Int64
  <2> QED
    BY <1>2, <1>3, <2>1, <2>2, <2>3, TotalEmpty DEF Balanced
<1> QED
  BY <1>2, <1>4, <1>5, <1>6, <1>7, ConservationIsBalanced DEF LedgerInv

LEMMA AdjustStep ==
  ASSUME LedgerInv, NEW a \in AccountIDs, NEW b \in Int64, Adjust(a, b)
  PROVE  LedgerInv'
<1>1. UNCHANGED <<accounts, entries, transfers, nextAccountID>>
  BY DEF Adjust
<1>2. balance[a] \in Int /\ unlogged[a] \in Int /\ b \in Int
  BY BoundsAssumption DEF BoundsAssumption, LedgerInv, TablesOK, Int64
<1>3. /\ balance'[a] = b /\ unlogged'[a] = unlogged[a] + (b - balance[a])
      /\ \A d \in accounts \ {a} :
           balance'[d] = balance[d] /\ unlogged'[d] = unlogged[d]
  BY DEF Adjust, LedgerInv, TablesOK
<1>4. TablesOK'
  BY <1>1, <1>2 DEF Adjust, LedgerInv, TablesOK
<1>5. EntriesHaveAccounts' /\ DoubleEntry'
  BY <1>1 DEF LedgerInv, EntriesHaveAccounts, DoubleEntry
<1>6. Balanced(accounts', balance', unlogged', entries')
  <2>1. Balanced(accounts, balance, unlogged, entries)
    BY ConservationIsBalanced DEF LedgerInv
  <2> DEFINE total == Total(Within(entries, {a}))
  <2>2. total \in Int
    BY EntriesSummable DEF LedgerInv, TablesOK
  <2>3. balance[a] = unlogged[a] + total
    BY <2>1 DEF Balanced, Adjust
  <2> HIDE DEF total
  <2>4. balance'[a] = unlogged'[a] + total
    BY <1>2, <1>3, <2>2, <2>3
  <2> QED
    BY <1>1, <1>3, <2>1, <2>4 DEF Balanced, total
<1> QED
  BY <1>1, <1>4, <1>5, <1>6, ConservationIsBalanced DEF LedgerInv

LEMMA CloseStep == ASSUME LedgerInv, NEW a \in AccountIDs, Close(a) PROVE LedgerInv'
<1>1. UNCHANGED <<entries, transfers, nextAccountID>> /\ accounts' = accounts \ {a}
  BY DEF Close
<1>2. \A d \in accounts' : balance'[d] = balance[d] /\ unlogged'[d] = unlogged[d]
  BY DEF Close, LedgerInv, TablesOK
<1>3. TablesOK'
  BY <1>1, BoundsAssumption DEF Close, LedgerInv, TablesOK, BoundsAssumption, Int64
<1>4. EntriesHaveAccounts' /\ DoubleEntry'
  BY <1>1 DEF Close, Referenced, LedgerInv, EntriesHaveAccounts, DoubleEntry
<1>5. Balanced(accounts', balance', unlogged', entries')
  <2>1. Balanced(accounts, balance, unlogged, entries)
    BY ConservationIsBalanced DEF LedgerInv
  <2> QED
    BY <1>1, <1>2, <2>1 DEF Balanced
<1> QED
  BY <1>1, <1>3, <1>4, <1>5, ConservationIsBalanced DEF LedgerInv

\* The entries of a transfer that is not in the books yet are not either.
LEMMA NewEntries ==
  ASSUME DoubleEntry, NEW t, \A u \in transfers : u.tx # t.tx
  PROVE  FromEntry(t) \notin entries /\ ToEntry(t) \notin entries
BY DEF DoubleEntry, FromEntry, ToEntry

LEMMA PostStep == ASSUME LedgerInv, NEW t \in Transfer, Post(t) PROVE LedgerInv'
<1>1. /\ UNCHANGED <<accounts, nextAccountID, unlogged>>
      /\ entries' = entries \cup {FromEntry(t), ToEntry(t)}
      /\ transfers' = transfers \cup {t}
      /\ t.from \in accounts /\ t.to \in accounts
  BY DEF Post
<1>2. entries \subseteq Entry /\ IsFiniteSet(entries)
  BY DEF LedgerInv, TablesOK
<1>3. FromEntry(t) \notin entries /\ ToEntry(t) \notin entries
  BY NewEntries DEF LedgerInv, Post
<1>4. TablesOK'
  <2>1. balance' \in [AccountIDs -> Int64]
    BY DEF Post, InRange
  <2> QED
    BY <1>1, <1>2, <2>1, EntriesTyped DEF LedgerInv, TablesOK
<1>5. IsFiniteSet(entries')
  <2>1. IsFiniteSet(entries \cup {FromEntry(t)})
    BY <1>2, FS_AddElement
  <2>2. IsFiniteSet((entries \cup {FromEntry(t)}) \cup {ToEntry(t)})
    BY <2>1, FS_AddElement
  <2>3. entries' = (entries \cup {FromEntry(t)}) \cup {ToEntry(t)}
    BY <1>1
  <2> QED
    BY <2>2, <2>3
<1>6. EntriesHaveAccounts' /\ DoubleEntry'
  BY <1>1 DEF LedgerInv, EntriesHaveAccounts, DoubleEntry, FromEntry, ToEntry
<1>7. Balanced(accounts', balance', unlogged', entries')
  <2>1. Balanced(accounts, balance, unlogged, entries)
    BY ConservationIsBalanced DEF LedgerInv
  <2>2. ASSUME NEW F PROVE Total(Within(entries', F)) =
                             Total(Within(entries, F)) + Owed(t, F)
    BY <1>1, <1>2, <1>3, PostAdds
  <2>3. ASSUME NEW a \in accounts
        PROVE  balance'[a] = unlogged'[a] + Total(Within(entries', {a}))
    <3> DEFINE total == Total(Within(entries, {a}))
    <3>1. a \in AccountIDs /\ unlogged[a] \in Int
      BY DEF LedgerInv, TablesOK
    <3>2. balance'[a] = balance[a] + Owed(t, {a})
      BY <3>1 DEF Post, Delta, Owed
    <3>3. balance[a] = unlogged[a] + total
      BY <2>1 DEF Balanced
    <3>4. Total(Within(entries', {a})) = total + Owed(t, {a})
      BY <2>2
    <3>5. total \in Int /\ Owed(t, {a}) \in Int
      BY <1>2, EntriesSummable, EntriesTyped DEF Owed
    <3> HIDE DEF total
    <3>6. (unlogged[a] + total) + Owed(t, {a}) = unlogged[a] + (total + Owed(t, {a}))
      BY <3>1, <3>5
    <3> QED
      BY <1>1, <3>2, <3>3, <3>4, <3>6
  <2>4. Owed(t, AccountIDs) = 0
    BY EntriesTyped DEF Owed, Transfer
  <2> QED
    BY <1>1, <2>1, <2>2, <2>3, <2>4 DEF Balanced
<1> QED
  BY <1>4, <1>5, <1>6, <1>7, ConservationIsBalanced DEF LedgerInv

LEMMA LedgerStep == LedgerInv /\ [Next]_tables => LedgerInv'
<1> SUFFICES ASSUME LedgerInv, [Next]_tables PROVE LedgerInv'
  OBVIOUS
<1>1. CASE UNCHANGED tables
  <2>1. TablesOK' /\ EntriesHaveAccounts' /\ DoubleEntry'
    BY <1>1 DEF tables, LedgerInv, TablesOK, EntriesHaveAccounts, DoubleEntry
  <2>2. Balanced(accounts', balance', unlogged', entries')
    BY <1>1, ConservationIsBalanced DEF tables, LedgerInv
  <2> QED
    BY <1>1, <2>1, <2>2, ConservationIsBalanced DEF tables, LedgerInv
<1> QED
  BY <1>1, OpenStep, AdjustStep, CloseStep, PostStep DEF Next

\* No step of the abstract ledger leaves its invariant: the books balance, every
\* entry is one of a transfer's two, and its account is still there (the foreign
\* keys of migration 000001).
THEOREM LedgerInvariance == Spec => []LedgerInv
BY InitLedger, LedgerStep, PTL DEF Spec

\* The books balance in every state of the abstract ledger: every balance is what
\* was put in by hand plus the entries of the account, all entries cancel out, and
\* no transfer makes or loses money (what tx_transfer.go lines 25-61 promise).
THEOREM LedgerConserves == Spec => []Conservation
<1>1. LedgerInv => Conservation
  BY DEF LedgerInv
<1> QED
  BY <1>1, LedgerInvariance, PTL

===============================================================================
