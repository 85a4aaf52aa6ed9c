----------------------------- MODULE Arithmetic -----------------------------
(***************************************************************************)
(* Facts about whole division and about sums over finite sets that the     *)
(* proofs about sizes, books and money rest on.                            *)
(***************************************************************************)
EXTENDS Integers, FiniteSetsExt, FiniteSetTheorems, TLAPS

(* A quotient is the number of times the divisor goes into the dividend.   *)
LEMMA DivBounds ==
    ASSUME NEW a \in Nat, NEW n \in Nat \ {0}
    PROVE  /\ a \div n \in Nat
           /\ n * (a \div n) <= a
           /\ a < n * (a \div n) + n
  OBVIOUS

(* What is no more than q times the divisor has a quotient of q at most.   *)
LEMMA DivAtMost ==
    ASSUME NEW a \in Nat, NEW q \in Nat, NEW n \in Nat \ {0}, a <= q * n
    PROVE  a \div n <= q
<1> DEFINE d == a \div n
<1>1. d \in Nat /\ n * d <= a
  BY DivBounds
<1>2. n * (d - q) <= 0
  BY <1>1
<1>3. d - q < 1
  BY <1>1, <1>2
<1> QED
  BY <1>1, <1>3

(* What is at least the divisor has a quotient above zero.                 *)
LEMMA DivPositive ==
    ASSUME NEW a \in Nat, NEW n \in Nat \ {0}, a >= n
    PROVE  a \div n \in Nat \ {0}
<1>1. a \div n \in Nat /\ a < n * (a \div n) + n
  BY DivBounds
<1> QED
  BY <1>1

(* Division undoes a multiplication.                                       *)
LEMMA DivOfProduct ==
    ASSUME NEW q \in Nat, NEW n \in Nat \ {0}
    PROVE  (q * n) \div n = q
<1> DEFINE d == (q * n) \div n
<1>1. d \in Nat /\ n * d <= q * n /\ q * n < n * d + n
  BY DivBounds
<1>2. n * (q - d) >= 0 /\ n * (q - d) < n
  BY <1>1
<1>3. q - d < 1 /\ q - d > -1
  BY <1>1, <1>2
<1> QED
  BY <1>1, <1>3

(* Products of naturals. *)
LEMMA TimesNat ==
    ASSUME NEW a \in Nat, NEW b \in Nat
    PROVE  a * b \in Nat
  OBVIOUS

LEMMA TimesMore ==
    ASSUME NEW a \in Nat, NEW b \in Nat, NEW c \in Nat, b <= c
    PROVE  a * b <= a * c
<1>1. PICK k \in Nat : c = b + k
  <2>1. c - b \in Nat /\ c = b + (c - b)
    OBVIOUS
  <2> QED
    BY <2>1
<1>2. a * c = a * b + a * k
  BY <1>1
<1>3. a * k \in Nat /\ a * b \in Nat
  BY <1>1, TimesNat
<1> QED
  BY <1>2, <1>3

(* A part of a total, rounded down, is between nothing and the total.      *)
LEMMA PartOfTotal ==
    ASSUME NEW total \in Nat, NEW part \in Nat, NEW whole \in Nat \ {0},
           part <= whole
    PROVE  (total * part) \div whole \in 0..total
<1>1. total * part \in Nat /\ total * part <= total * whole
  OBVIOUS
<1> QED
  BY <1>1, DivBounds, DivAtMost

-----------------------------------------------------------------------------
(* Induction over finite sets.  The library states it for an operator P(_),*)
(* which the provers cannot instantiate; what follows from its well-founded*)
(* ordering of subsets is the same in terms of sets: among the subsets that*)
(* fail there is one all of whose proper subsets do not.                   *)
LEMMA SmallestSet ==
    ASSUME NEW S, IsFiniteSet(S), NEW Bad \in SUBSET SUBSET S, Bad # {}
    PROVE  \E T \in Bad : \A U \in Bad : U \subseteq T => U = T
<1> DEFINE R == StrictSubsetOrdering(S)
<1>1. IsWellFoundedOn(R, SUBSET S)
  BY FS_StrictSubsetOrderingWellFounded, FS_FiniteSubsetsOfFinite
<1>2. \E T \in Bad : \A U \in Bad : ~ (<<U, T>> \in R)
  <2> HIDE DEF R
  <2> QED
    BY <1>1, WFMin
<1>3. PICK T \in Bad : \A U \in Bad : ~ (<<U, T>> \in R)
  BY <1>2
<1>4. \A U \in Bad : U \subseteq T => U = T
  BY <1>3 DEF StrictSubsetOrdering
<1> QED
  BY <1>4

-----------------------------------------------------------------------------
(* Sums.  SumFunctionOnSet(f, S) is by definition a recursive function over*)
(* the subsets of S; g is such a function, over the subsets of U.          *)

Pick(s) == CHOOSE x \in s : TRUE

FoldsTo(g, f, U) ==
    g = [s \in SUBSET U |-> IF s = {} THEN 0
                            ELSE f[Pick(s)] + g[s \ {Pick(s)}]]

(* What is picked of a set is in it. *)
LEMMA PickIn == ASSUME NEW s, s # {} PROVE Pick(s) \in s
  BY DEF Pick

(* Two such functions agree where both are defined. *)
LEMMA FoldsAgree ==
    ASSUME NEW S, IsFiniteSet(S), NEW f, NEW U \in SUBSET S, NEW V \in SUBSET S,
           NEW g, NEW h, FoldsTo(g, f, U), FoldsTo(h, f, V), NEW s \in SUBSET (U \cap V)
    PROVE  g[s] = h[s]
<1> DEFINE Bad == {t \in SUBSET (U \cap V) : g[t] # h[t]}
<1> SUFFICES ASSUME s \in Bad PROVE FALSE
  OBVIOUS
<1>1. PICK t \in Bad : \A u \in Bad : u \subseteq t => u = t
  <2>1. Bad \in SUBSET SUBSET S
    OBVIOUS
  <2> HIDE DEF Bad
  <2> QED
    BY <2>1, SmallestSet
<1>2. /\ g[t] = IF t = {} THEN 0 ELSE f[Pick(t)] + g[t \ {Pick(t)}]
      /\ h[t] = IF t = {} THEN 0 ELSE f[Pick(t)] + h[t \ {Pick(t)}]
  <2>1. t \in SUBSET U /\ t \in SUBSET V
    OBVIOUS
  <2> QED
    BY <2>1 DEF FoldsTo
<1>3. t # {} /\ Pick(t) \in t
  BY <1>2, PickIn
<1>4. t \ {Pick(t)} \notin Bad
  BY <1>1, <1>3
<1>5. g[t \ {Pick(t)}] = h[t \ {Pick(t)}]
  BY <1>4
<1> QED
  BY <1>2, <1>5, <1>3

(* On a finite set there is one. *)
LEMMA FoldsExist ==
    ASSUME NEW S, IsFiniteSet(S), NEW f
    PROVE  \E g : FoldsTo(g, f, S)
<1> DEFINE Bad == {U \in SUBSET S : ~ \E g : FoldsTo(g, f, U)}
<1> SUFFICES ASSUME S \in Bad PROVE FALSE
  OBVIOUS
<1>1. PICK U \in Bad : \A W \in Bad : W \subseteq U => W = U
  <2>1. Bad \in SUBSET SUBSET S
    OBVIOUS
  <2> HIDE DEF Bad
  <2> QED
    BY <2>1, SmallestSet
<1> DEFINE Of(W) == CHOOSE g : FoldsTo(g, f, W)
<1>2. ASSUME NEW W \in SUBSET U, W # U
      PROVE  FoldsTo(Of(W), f, W)
  <2>1. W \notin Bad
    BY <1>1, <1>2
  <2>2. \E g : FoldsTo(g, f, W)
    BY <2>1
  <2> QED
    BY <2>2, Zenon
<1> DEFINE Rest(s) == s \ {Pick(s)}
           G == [s \in SUBSET U |-> IF s = {} THEN 0
                                    ELSE f[Pick(s)] + Of(Rest(s))[Rest(s)]]
<1> HIDE DEF Of
<1>3. ASSUME NEW s \in SUBSET U, s # {}
      PROVE  G[Rest(s)] = Of(Rest(s))[Rest(s)]
  <2> DEFINE W == Rest(s)
  <2>1. Pick(s) \in s
    BY <1>3, PickIn
  <2>2. W \in SUBSET U /\ W # U
    BY <2>1
  <2>3. FoldsTo(Of(W), f, W)
    BY <1>2, <2>2
  <2>4. Of(W)[W] = IF W = {} THEN 0 ELSE f[Pick(W)] + Of(W)[Rest(W)]
    <3> HIDE DEF W
    <3> QED BY <2>3 DEF FoldsTo
  <2>5. CASE W = {}
    BY <2>4, <2>5, <2>2
  <2>6. CASE W # {}
    <3>1. Pick(W) \in W
      BY <2>6, PickIn
    <3>2. Rest(W) \in SUBSET U /\ Rest(W) # U /\ Rest(W) \in SUBSET W
      BY <2>2, <3>1
    <3>3. FoldsTo(Of(Rest(W)), f, Rest(W))
      BY <1>2, <3>2
    <3>4. Of(W)[Rest(W)] = Of(Rest(W))[Rest(W)]
      <4>1. W \in SUBSET S /\ Rest(W) \in SUBSET S /\ Rest(W) \in SUBSET (W \cap Rest(W))
        BY <2>2, <3>2
      <4> HIDE DEF W, Rest
      <4> QED
        BY <2>3, <3>3, <4>1, FoldsAgree
    <3>5. G[W] = f[Pick(W)] + Of(Rest(W))[Rest(W)]
      <4> HIDE DEF W, Rest
      <4> QED BY <2>2, <2>6
    <3> QED
      BY <2>4, <2>6, <3>4, <3>5
  <2> QED
    BY <2>5, <2>6
<1>4. FoldsTo(G, f, U)
  <2>1. G = [s \in SUBSET U |-> IF s = {} THEN 0 ELSE f[Pick(s)] + G[s \ {Pick(s)}]]
    BY <1>3
  <2> QED
    BY <2>1, Zenon DEF FoldsTo
<1> QED
  BY <1>1, <1>4

(* So the definition of a sum means what it says. *)
LEMMA SumIs ==
    ASSUME NEW S, IsFiniteSet(S), NEW f
    PROVE  \E g : FoldsTo(g, f, S) /\ SumFunctionOnSet(f, S) = g[S]
<1> DEFINE g == CHOOSE g : FoldsTo(g, f, S)
<1>1. FoldsTo(g, f, S)
  BY FoldsExist, Zenon
<1>2. SumFunctionOnSet(f, S) = g[S]
  BY Zenon DEF SumFunctionOnSet, FoldFunctionOnSet, MapThenFoldSet, FoldsTo, Pick
<1> QED
  BY <1>1, <1>2

(* The sum over nothing. *)
LEMMA SumEmpty == ASSUME NEW f PROVE SumFunctionOnSet(f, {}) = 0
<1>1. PICK g : FoldsTo(g, f, {}) /\ SumFunctionOnSet(f, {}) = g[{}]
  BY FS_EmptySet, SumIs
<1> QED
  BY <1>1 DEF FoldsTo

(* One step of the recursion. *)
LEMMA SumPick ==
    ASSUME NEW S, IsFiniteSet(S), NEW f, S # {}
    PROVE  /\ Pick(S) \in S
           /\ SumFunctionOnSet(f, S)
                  = f[Pick(S)] + SumFunctionOnSet(f, S \ {Pick(S)})
<1> DEFINE R == S \ {Pick(S)}
<1>1. PICK g : FoldsTo(g, f, S) /\ SumFunctionOnSet(f, S) = g[S]
  BY SumIs
<1>2. R \in SUBSET S /\ IsFiniteSet(R)
  BY FS_RemoveElement
<1>3. PICK h : FoldsTo(h, f, R) /\ SumFunctionOnSet(f, R) = h[R]
  BY <1>2, SumIs
<1>4. g[R] = h[R]
  <2> HIDE DEF R
  <2> QED
    BY <1>1, <1>2, <1>3, FoldsAgree
<1>5. g[S] = f[Pick(S)] + g[R]
  BY <1>1 DEF FoldsTo
<1> QED
  BY <1>1, <1>3, <1>4, <1>5, PickIn

(* A sum of integers is one. *)
LEMMA SumInt ==
    ASSUME NEW S, IsFiniteSet(S), NEW f, \A x \in S : f[x] \in Int
    PROVE  SumFunctionOnSet(f, S) \in Int
<1> DEFINE Bad == {T \in SUBSET S : SumFunctionOnSet(f, T) \notin Int}
<1> SUFFICES ASSUME S \in Bad PROVE FALSE
  OBVIOUS
<1>1. PICK T \in Bad : \A U \in Bad : U \subseteq T => U = T
  <2>1. Bad \in SUBSET SUBSET S
    OBVIOUS
  <2> HIDE DEF Bad
  <2> QED
    BY <2>1, SmallestSet
<1>2. IsFiniteSet(T)
  BY FS_Subset
<1>3. T # {}
  BY SumEmpty
<1>4. /\ Pick(T) \in T
      /\ SumFunctionOnSet(f, T)
                  = f[Pick(T)] + SumFunctionOnSet(f, T \ {Pick(T)})
  BY <1>2, <1>3, SumPick
<1>5. SumFunctionOnSet(f, T \ {Pick(T)}) \in Int
  BY <1>1, <1>4
<1> QED
  BY <1>4, <1>5

(* The order of summing does not matter: any element may come first. *)
LEMMA SumRemove ==
    ASSUME NEW S, IsFiniteSet(S), NEW f, \A x \in S : f[x] \in Int, NEW e \in S
    PROVE  SumFunctionOnSet(f, S) = f[e] + SumFunctionOnSet(f, S \ {e})
<1> DEFINE Sm(T) == SumFunctionOnSet(f, T)
           Bad == {T \in SUBSET S : \E x \in T : Sm(T) # f[x] + Sm(T \ {x})}
<1> SUFFICES ASSUME S \in Bad PROVE FALSE
  OBVIOUS
<1>1. PICK T \in Bad : \A U \in Bad : U \subseteq T => U = T
  <2>1. Bad \in SUBSET SUBSET S
    OBVIOUS
  <2> HIDE DEF Bad
  <2> QED
    BY <2>1, SmallestSet
<1>2. PICK x \in T : Sm(T) # f[x] + Sm(T \ {x})
  OBVIOUS
<1> DEFINE p == Pick(T)
<1>3. IsFiniteSet(T) /\ IsFiniteSet(T \ {x})
  BY FS_Subset, FS_RemoveElement
<1>4. p \in T /\ Sm(T) = f[p] + Sm(T \ {p})
  BY <1>2, <1>3, SumPick
<1> HIDE DEF p
<1>5. p # x
  BY <1>2, <1>4
<1>6. Sm(T \ {p}) = f[x] + Sm((T \ {p}) \ {x})
  <2>1. T \ {p} \notin Bad /\ T \ {p} \in SUBSET S
    BY <1>1, <1>4
  <2> QED
    BY <1>2, <1>5, <2>1
<1>7. Sm(T \ {x}) = f[p] + Sm((T \ {x}) \ {p})
  <2>1. T \ {x} \notin Bad /\ T \ {x} \in SUBSET S
    BY <1>1, <1>2
  <2> QED
    BY <1>4, <1>5, <2>1
<1>8. (T \ {x}) \ {p} = (T \ {p}) \ {x}
  OBVIOUS
<1>9. f[p] \in Int /\ f[x] \in Int /\ Sm((T \ {p}) \ {x}) \in Int
  <2>1. IsFiniteSet((T \ {p}) \ {x})
    BY <1>3, FS_RemoveElement
  <2> QED
    BY <1>4, <2>1, SumInt
<1> HIDE DEF Sm
<1> QED
  BY <1>2, <1>4, <1>6, <1>7, <1>8, <1>9

(* An element more. *)
LEMMA SumAdd ==
    ASSUME NEW S, IsFiniteSet(S), NEW e, e \notin S,
           NEW f, \A x \in S \cup {e} : f[x] \in Int
    PROVE  SumFunctionOnSet(f, S \cup {e}) = f[e] + SumFunctionOnSet(f, S)
<1>1. IsFiniteSet(S \cup {e}) /\ (S \cup {e}) \ {e} = S
  BY FS_AddElement
<1> QED
  BY <1>1, SumRemove

(* Sums of functions that agree on the set are the same. *)
LEMMA SumSame ==
    ASSUME NEW S, IsFiniteSet(S), NEW f, NEW g, \A x \in S : f[x] = g[x]
    PROVE  SumFunctionOnSet(f, S) = SumFunctionOnSet(g, S)
<1> DEFINE Bad == {T \in SUBSET S : SumFunctionOnSet(f, T) # SumFunctionOnSet(g, T)}
<1> SUFFICES ASSUME S \in Bad PROVE FALSE
  OBVIOUS
<1>1. PICK T \in Bad : \A U \in Bad : U \subseteq T => U = T
  <2>1. Bad \in SUBSET SUBSET S
    OBVIOUS
  <2> HIDE DEF Bad
  <2> QED
    BY <2>1, SmallestSet
<1>2. IsFiniteSet(T) /\ T # {}
  BY FS_Subset, SumEmpty
<1>4. /\ Pick(T) \in T
      /\ SumFunctionOnSet(f, T) = f[Pick(T)] + SumFunctionOnSet(f, T \ {Pick(T)})
      /\ SumFunctionOnSet(g, T) = g[Pick(T)] + SumFunctionOnSet(g, T \ {Pick(T)})
  BY <1>2, SumPick
<1>5. SumFunctionOnSet(f, T \ {Pick(T)}) = SumFunctionOnSet(g, T \ {Pick(T)})
  BY <1>1, <1>4
<1> QED
  BY <1>4, <1>5

(* Sums add up pointwise. *)
LEMMA SumPlus ==
    ASSUME NEW S, IsFiniteSet(S), NEW f, NEW g, NEW h,
           \A x \in S : f[x] \in Int /\ g[x] \in Int /\ h[x] = f[x] + g[x]
    PROVE  SumFunctionOnSet(h, S) = SumFunctionOnSet(f, S) + SumFunctionOnSet(g, S)
<1> DEFINE Sm(k, T) == SumFunctionOnSet(k, T)
           Bad == {T \in SUBSET S : Sm(h, T) # Sm(f, T) + Sm(g, T)}
<1> SUFFICES ASSUME S \in Bad PROVE FALSE
  OBVIOUS
<1>1. PICK T \in Bad : \A U \in Bad : U \subseteq T => U = T
  <2>1. Bad \in SUBSET SUBSET S
    OBVIOUS
  <2> HIDE DEF Bad
  <2> QED
    BY <2>1, SmallestSet
<1>2. IsFiniteSet(T) /\ T # {}
  <2>1. Sm(f, {}) = 0 /\ Sm(g, {}) = 0 /\ Sm(h, {}) = 0
    BY SumEmpty
  <2>2. T = {} => FALSE
    BY <2>1
  <2> QED
    BY <2>2, FS_Subset
<1> DEFINE p == Pick(T)
           R == T \ {p}
<1>3. /\ p \in T
      /\ Sm(f, T) = f[p] + Sm(f, R)
      /\ Sm(g, T) = g[p] + Sm(g, R)
      /\ Sm(h, T) = h[p] + Sm(h, R)
  BY <1>2, SumPick
<1>4. Sm(h, R) = Sm(f, R) + Sm(g, R)
  BY <1>1, <1>3
<1>5. IsFiniteSet(R)
  BY <1>2, FS_RemoveElement
<1>6. Sm(f, R) \in Int /\ Sm(g, R) \in Int
  BY <1>5, SumInt
<1>7. f[p] \in Int /\ g[p] \in Int /\ h[p] = f[p] + g[p]
  BY <1>3
<1>8. Sm(h, T) # Sm(f, T) + Sm(g, T)
  OBVIOUS
<1> HIDE DEF Sm, p, R, Bad
<1> QED
  BY <1>3, <1>4, <1>6, <1>7, <1>8

(* Sums are monotonic. *)
LEMMA SumAtMost ==
    ASSUME NEW S, IsFiniteSet(S), NEW f, NEW g,
           \A x \in S : f[x] \in Int /\ g[x] \in Int /\ f[x] <= g[x]
    PROVE  SumFunctionOnSet(f, S) <= SumFunctionOnSet(g, S)
<1> DEFINE Sm(k, T) == SumFunctionOnSet(k, T)
           Bad == {T \in SUBSET S : ~(Sm(f, T) <= Sm(g, T))}
<1> SUFFICES ASSUME S \in Bad PROVE FALSE
  OBVIOUS
<1>1. PICK T \in Bad : \A U \in Bad : U \subseteq T => U = T
  <2>1. Bad \in SUBSET SUBSET S
    OBVIOUS
  <2> HIDE DEF Bad
  <2> QED
    BY <2>1, SmallestSet
<1>2. IsFiniteSet(T) /\ T # {}
  <2>1. Sm(f, {}) = 0 /\ Sm(g, {}) = 0
    BY SumEmpty
  <2>2. T = {} => FALSE
    BY <2>1
  <2> QED
    BY <2>2, FS_Subset
<1> DEFINE p == Pick(T)
           R == T \ {p}
<1>3. /\ p \in T
      /\ Sm(f, T) = f[p] + Sm(f, R)
      /\ Sm(g, T) = g[p] + Sm(g, R)
  BY <1>2, SumPick
<1>4. Sm(f, R) <= Sm(g, R)
  BY <1>1, <1>3
<1>5. IsFiniteSet(R)
  BY <1>2, FS_RemoveElement
<1>6. Sm(f, R) \in Int /\ Sm(g, R) \in Int
  BY <1>5, SumInt
<1>7. f[p] \in Int /\ g[p] \in Int /\ f[p] <= g[p]
  BY <1>3
<1>8. ~(Sm(f, T) <= Sm(g, T))
  OBVIOUS
<1> HIDE DEF Sm, p, R, Bad
<1> QED
  BY <1>3, <1>4, <1>6, <1>7, <1>8

(* A sum over two sets that share nothing. *)
LEMMA SumSplit ==
    ASSUME NEW A, IsFiniteSet(A), NEW B, IsFiniteSet(B), A \cap B = {},
           NEW f, \A x \in A \cup B : f[x] \in Int
    PROVE  SumFunctionOnSet(f, A \cup B)
               = SumFunctionOnSet(f, A) + SumFunctionOnSet(f, B)
<1> DEFINE Sm(T) == SumFunctionOnSet(f, T)
           Bad == {T \in SUBSET B : Sm(A \cup T) # Sm(A) + Sm(T)}
<1> SUFFICES ASSUME B \in Bad PROVE FALSE
  OBVIOUS
<1>1. PICK T \in Bad : \A U \in Bad : U \subseteq T => U = T
  <2>1. Bad \in SUBSET SUBSET B
    OBVIOUS
  <2> HIDE DEF Bad
  <2> QED
    BY <2>1, SmallestSet
<1>2. Sm(A \cup T) # Sm(A) + Sm(T)
  OBVIOUS
<1>3. IsFiniteSet(T) /\ IsFiniteSet(A \cup T)
  BY FS_Subset, FS_Union
<1>4. Sm(A) \in Int
  BY SumInt
<1>5. T # {}
  <2>1. A \cup {} = A /\ Sm({}) = 0
    BY SumEmpty
  <2> HIDE DEF Sm
  <2> QED
    BY <1>2, <1>4, <2>1
<1>6. PICK e \in T : TRUE
  BY <1>5
<1> DEFINE R == T \ {e}
<1>7. Sm(T) = f[e] + Sm(R)
  BY <1>3, SumRemove
<1>8. Sm(A \cup T) = f[e] + Sm(A \cup R)
  <2>1. (A \cup T) \ {e} = A \cup R
    OBVIOUS
  <2> QED
    BY <1>3, <2>1, SumRemove
<1>9. Sm(A \cup R) = Sm(A) + Sm(R)
  <2>1. R \notin Bad
    BY <1>1, <1>6
  <2> QED
    BY <2>1
<1>10. Sm(R) \in Int /\ f[e] \in Int
  BY <1>3, FS_RemoveElement, SumInt
<1> HIDE DEF Sm, R, Bad
<1> QED
  BY <1>2, <1>4, <1>7, <1>8, <1>9, <1>10

(* A sum of nothing below zero is not below zero. *)
LEMMA SumNat ==
    ASSUME NEW S, IsFiniteSet(S), NEW f, \A x \in S : f[x] \in Nat
    PROVE  SumFunctionOnSet(f, S) \in Nat
<1> DEFINE Bad == {T \in SUBSET S : SumFunctionOnSet(f, T) \notin Nat}
<1> SUFFICES ASSUME S \in Bad PROVE FALSE
  OBVIOUS
<1>1. PICK T \in Bad : \A U \in Bad : U \subseteq T => U = T
  <2>1. Bad \in SUBSET SUBSET S
    OBVIOUS
  <2> HIDE DEF Bad
  <2> QED
    BY <2>1, SmallestSet
<1>2. IsFiniteSet(T) /\ T # {}
  <2>1. SumFunctionOnSet(f, {}) = 0
    BY SumEmpty
  <2>2. T # {}
    BY <2>1
  <2> QED
    BY <2>2, FS_Subset
<1>3. /\ Pick(T) \in T
      /\ SumFunctionOnSet(f, T) = f[Pick(T)] + SumFunctionOnSet(f, T \ {Pick(T)})
  BY <1>2, SumPick
<1>4. SumFunctionOnSet(f, T \ {Pick(T)}) \in Nat
  BY <1>1, <1>3
<1> QED
  BY <1>3, <1>4

(* Where nothing is below zero, a part sums to no more than the whole. *)
LEMMA SumOfPart ==
    ASSUME NEW S, IsFiniteSet(S), NEW T \in SUBSET S,
           NEW f, \A x \in S : f[x] \in Nat
    PROVE  SumFunctionOnSet(f, T) <= SumFunctionOnSet(f, S)
<1>1. IsFiniteSet(T) /\ IsFiniteSet(S \ T)
  BY FS_Subset
<1>2. S = T \cup (S \ T) /\ T \cap (S \ T) = {}
  OBVIOUS
<1>3. \A x \in T \cup (S \ T) : f[x] \in Int
  OBVIOUS
<1>4. SumFunctionOnSet(f, T \cup (S \ T))
          = SumFunctionOnSet(f, T) + SumFunctionOnSet(f, S \ T)
  BY <1>1, <1>2, <1>3, SumSplit
<1>5. SumFunctionOnSet(f, T) \in Nat /\ SumFunctionOnSet(f, S \ T) \in Nat
  BY <1>1, SumNat
<1>6. SumFunctionOnSet(f, S)
          = SumFunctionOnSet(f, T) + SumFunctionOnSet(f, S \ T)
  BY <1>2, <1>4, Zenon
<1> QED
  BY <1>5, <1>6

(* ... and one element is no more than the sum. *)
LEMMA SumOfOne ==
    ASSUME NEW S, IsFiniteSet(S), NEW e \in S, NEW f, \A x \in S : f[x] \in Nat
    PROVE  f[e] <= SumFunctionOnSet(f, S)
<1>1. IsFiniteSet(S \ {e}) /\ SumFunctionOnSet(f, S \ {e}) \in Nat
  BY FS_RemoveElement, SumNat
<1>2. SumFunctionOnSet(f, S) = f[e] + SumFunctionOnSet(f, S \ {e})
  BY SumRemove
<1> QED
  BY <1>1, <1>2

(* What is zero everywhere sums to zero. *)
LEMMA SumZero ==
    ASSUME NEW S, IsFiniteSet(S), NEW f, \A x \in S : f[x] = 0
    PROVE  SumFunctionOnSet(f, S) = 0
<1> DEFINE zero == [x \in S |-> 0]
<1>1. SumFunctionOnSet(zero, S)
          = SumFunctionOnSet(zero, S) + SumFunctionOnSet(zero, S)
  BY SumPlus
<1>2. SumFunctionOnSet(zero, S) \in Int
  BY SumInt
<1>3. SumFunctionOnSet(f, S) = SumFunctionOnSet(zero, S)
  BY SumSame
<1> DEFINE total == SumFunctionOnSet(zero, S)
<1>4. total = total + total /\ total \in Int
  BY <1>1, <1>2
<1> HIDE DEF zero, total
<1>5. total = 0
  BY <1>4
<1> QED
  BY <1>3, <1>5 DEF total

(* What is above zero in a second set only sums to no more than over it. *)
LEMMA SumOfCover ==
    ASSUME NEW S, IsFiniteSet(S), NEW T, IsFiniteSet(T),
           NEW f, \A x \in S \cup T : f[x] \in Nat, \A x \in S \ T : f[x] = 0
    PROVE  SumFunctionOnSet(f, S) <= SumFunctionOnSet(f, T)
<1> DEFINE A == S \ T
           B == S \cap T
<1>1. IsFiniteSet(A) /\ IsFiniteSet(B) /\ B \in SUBSET T
  BY FS_Subset
<1>2. A \cap B = {} /\ A \cup B = S /\ \A x \in A \cup B : f[x] \in Int
  OBVIOUS
<1>3. SumFunctionOnSet(f, A) = 0
  BY <1>1, SumZero
<1>4. SumFunctionOnSet(f, B) <= SumFunctionOnSet(f, T)
  BY <1>1, SumOfPart
<1>5. SumFunctionOnSet(f, B) \in Nat /\ SumFunctionOnSet(f, T) \in Nat
  BY <1>1, SumNat
<1>6. SumFunctionOnSet(f, A \cup B)
          = SumFunctionOnSet(f, A) + SumFunctionOnSet(f, B)
  <2> HIDE DEF A, B
  <2> QED
    BY <1>1, <1>2, SumSplit
<1>7. SumFunctionOnSet(f, A \cup B) = SumFunctionOnSet(f, S)
  BY <1>2, Zenon
<1> HIDE DEF A, B
<1> QED
  BY <1>3, <1>4, <1>5, <1>6, <1>7

(* Changing one element changes the sum by the same. *)
LEMMA SumChange ==
    ASSUME NEW S, IsFiniteSet(S), NEW e \in S, NEW f, NEW g,
           \A x \in S : f[x] \in Int /\ g[x] \in Int,
           \A x \in S \ {e} : f[x] = g[x]
    PROVE  SumFunctionOnSet(g, S) = SumFunctionOnSet(f, S) - f[e] + g[e]
<1>1. IsFiniteSet(S \ {e}) /\ SumFunctionOnSet(f, S \ {e}) \in Int
  BY FS_RemoveElement, SumInt
<1>2. /\ SumFunctionOnSet(f, S) = f[e] + SumFunctionOnSet(f, S \ {e})
      /\ SumFunctionOnSet(g, S) = g[e] + SumFunctionOnSet(g, S \ {e})
  BY SumRemove
<1>3. SumFunctionOnSet(f, S \ {e}) = SumFunctionOnSet(g, S \ {e})
  BY <1>1, SumSame
<1> QED
  BY <1>1, <1>2, <1>3

(* A sum of multiples is the multiple of the sum. *)
LEMMA SumTimes ==
    ASSUME NEW S, IsFiniteSet(S), NEW k \in Int, NEW f, NEW g,
           \A x \in S : f[x] \in Int /\ g[x] = k * f[x]
    PROVE  SumFunctionOnSet(g, S) = k * SumFunctionOnSet(f, S)
<1> DEFINE Sm(h, T) == SumFunctionOnSet(h, T)
           Bad == {T \in SUBSET S : Sm(g, T) # k * Sm(f, T)}
<1> SUFFICES ASSUME S \in Bad PROVE FALSE
  OBVIOUS
<1>1. PICK T \in Bad : \A U \in Bad : U \subseteq T => U = T
  <2>1. Bad \in SUBSET SUBSET S
    OBVIOUS
  <2> HIDE DEF Bad
  <2> QED
    BY <2>1, SmallestSet
<1>2. Sm(g, T) # k * Sm(f, T)
  OBVIOUS
<1>3. IsFiniteSet(T) /\ T # {}
  <2>1. Sm(f, {}) = 0 /\ Sm(g, {}) = 0
    BY SumEmpty
  <2>2. k * 0 = 0
    OBVIOUS
  <2>3. T # {}
    <3> HIDE DEF Sm, Bad
    <3> QED BY <1>2, <2>1, <2>2, Zenon
  <2> QED
    BY <2>3, FS_Subset
<1> DEFINE p == Pick(T)
           R == T \ {p}
<1>4. p \in T /\ Sm(f, T) = f[p] + Sm(f, R) /\ Sm(g, T) = g[p] + Sm(g, R)
  BY <1>3, SumPick
<1>5. Sm(g, R) = k * Sm(f, R)
  BY <1>1, <1>4
<1>6. Sm(f, R) \in Int /\ f[p] \in Int /\ g[p] = k * f[p]
  BY <1>3, <1>4, FS_RemoveElement, SumInt
<1> HIDE DEF Sm, p, R, Bad
<1>7. k * (f[p] + Sm(f, R)) = k * f[p] + k * Sm(f, R)
  BY <1>6
<1> QED
  BY <1>2, <1>4, <1>5, <1>6, <1>7

(* The largest of a finite set of integers. *)
LEMMA MaxOf ==
    ASSUME NEW S, IsFiniteSet(S), S # {}, \A x \in S : x \in Int
    PROVE  Max(S) \in S /\ \A x \in S : x <= Max(S)
<1> DEFINE Bad == {T \in SUBSET S : T # {} /\ ~ \E m \in T : \A x \in T : x <= m}
<1>1. Bad = {}
  <2> SUFFICES ASSUME Bad # {} PROVE FALSE
    OBVIOUS
  <2>1. PICK T \in Bad : \A U \in Bad : U \subseteq T => U = T
    <3>1. Bad \in SUBSET SUBSET S /\ Bad # {}
      OBVIOUS
    <3> HIDE DEF Bad
    <3> QED
      BY <3>1, SmallestSet
  <2>2. PICK e \in T : TRUE
    OBVIOUS
  <2>3. T \ {e} \notin Bad
    BY <2>1, <2>2
  <2>4. CASE T \ {e} = {}
    BY <2>2, <2>4
  <2>5. CASE T \ {e} # {}
    <3>1. PICK m \in T \ {e} : \A x \in T \ {e} : x <= m
      BY <2>3, <2>5
    <3>2. \A x \in T : x <= IF e <= m THEN m ELSE e
      BY <3>1
    <3> QED
      BY <3>2
  <2> QED
    BY <2>4, <2>5
<1>2. \E m \in S : \A x \in S : x <= m
  BY <1>1
<1>3. \E m \in S : \A x \in S : m >= x
  BY <1>2
<1>4. Max(S) \in S /\ \A x \in S : Max(S) >= x
  BY <1>3, Zenon DEF Max
<1> QED
  BY <1>4

(* And the least. *)
LEMMA MinOf ==
    ASSUME NEW S, IsFiniteSet(S), S # {}, \A x \in S : x \in Int
    PROVE  Min(S) \in S /\ \A x \in S : Min(S) <= x
<1> DEFINE Bad == {T \in SUBSET S : T # {} /\ ~ \E m \in T : \A x \in T : m <= x}
<1>1. Bad = {}
  <2> SUFFICES ASSUME Bad # {} PROVE FALSE
    OBVIOUS
  <2>1. PICK T \in Bad : \A U \in Bad : U \subseteq T => U = T
    <3>1. Bad \in SUBSET SUBSET S /\ Bad # {}
      OBVIOUS
    <3> HIDE DEF Bad
    <3> QED
      BY <3>1, SmallestSet
  <2>2. PICK e \in T : TRUE
    OBVIOUS
  <2>3. T \ {e} \notin Bad
    BY <2>1, <2>2
  <2>4. CASE T \ {e} = {}
    BY <2>2, <2>4
  <2>5. CASE T \ {e} # {}
    <3>1. PICK m \in T \ {e} : \A x \in T \ {e} : m <= x
      BY <2>3, <2>5
    <3>2. \A x \in T : (IF m <= e THEN m ELSE e) <= x
      BY <3>1
    <3> QED
      BY <3>2
  <2> QED
    BY <2>4, <2>5
<1>2. \E m \in S : \A x \in S : m <= x
  BY <1>1
<1> QED
  BY <1>2, Zenon DEF Min

(* The sum of a function is that over its domain. *)
LEMMA SumOfFunction ==
    ASSUME NEW S, NEW f, DOMAIN f = S
    PROVE  SumFunction(f) = SumFunctionOnSet(f, S)
  BY DEF SumFunction

(* A sum less a part of it. *)
LEMMA SumLess ==
    ASSUME NEW S, IsFiniteSet(S), NEW T, \A x \in T : x \in S,
           NEW f, \A x \in S : f[x] \in Int
    PROVE  /\ SumFunctionOnSet(f, S) \in Int /\ SumFunctionOnSet(f, T) \in Int
           /\ SumFunctionOnSet(f, S \ T)
                  = SumFunctionOnSet(f, S) - SumFunctionOnSet(f, T)
<1>1. T \in SUBSET S /\ S \ T \in SUBSET S
  OBVIOUS
<1>2. IsFiniteSet(T) /\ IsFiniteSet(S \ T)
  BY <1>1, FS_Subset
<1>3. (S \ T) \cap T = {} /\ (S \ T) \cup T = S
  OBVIOUS
<1>4. SumFunctionOnSet(f, (S \ T) \cup T)
          = SumFunctionOnSet(f, S \ T) + SumFunctionOnSet(f, T)
  <2>1. \A x \in (S \ T) \cup T : f[x] \in Int
    BY <1>3
  <2> QED
    BY <1>2, <1>3, <2>1, SumSplit
<1>5. /\ SumFunctionOnSet(f, S) \in Int /\ SumFunctionOnSet(f, T) \in Int
      /\ SumFunctionOnSet(f, S \ T) \in Int
  BY <1>1, <1>2, SumInt
<1> DEFINE Sm(A) == SumFunctionOnSet(f, A)
<1>6. Sm(S) = Sm(S \ T) + Sm(T)
  BY <1>3, <1>4
<1>7. Sm(S) \in Int /\ Sm(T) \in Int /\ Sm(S \ T) \in Int
  BY <1>5
<1> HIDE DEF Sm
<1>8. Sm(S \ T) = Sm(S) - Sm(T)
  BY <1>6, <1>7
<1> QED
  BY <1>5, <1>8 DEF Sm

(* A sum is the sum of its parts by key. *)
LEMMA SumByKey ==
    ASSUME NEW S, IsFiniteSet(S), NEW A, IsFiniteSet(A),
           NEW key, \A x \in A : key[x] \in S,
           NEW f, \A x \in A : f[x] \in Int
    PROVE  SumFunctionOnSet([s \in S |-> SumFunctionOnSet(f, {x \in A : key[x] = s})], S)
               = SumFunctionOnSet(f, A)
<1> DEFINE Of(s, T) == {x \in T : key[x] = s}
           By(T) == [s \in S |-> SumFunctionOnSet(f, Of(s, T))]
           Bad == {T \in SUBSET A : SumFunctionOnSet(By(T), S) # SumFunctionOnSet(f, T)}
<1> SUFFICES ASSUME A \in Bad PROVE FALSE
  OBVIOUS
<1>1. PICK T \in Bad : \A U \in Bad : U \subseteq T => U = T
  <2>1. Bad \in SUBSET SUBSET A
    OBVIOUS
  <2> HIDE DEF Bad
  <2> QED
    BY <2>1, SmallestSet
<1>2. IsFiniteSet(T) /\ T # {} /\ T \in SUBSET A
  <2>1. SumFunctionOnSet(By({}), S) = 0
    <3>1. \A s \in S : By({})[s] = 0
      <4>1. \A s \in S : Of(s, {}) = {}
        OBVIOUS
      <4>2. \A s \in S : By({})[s] = SumFunctionOnSet(f, Of(s, {}))
        OBVIOUS
      <4> HIDE DEF By, Of
      <4> QED
        BY <4>1, <4>2, SumEmpty
    <3> HIDE DEF By
    <3> QED
      BY <3>1, SumZero
  <2>2. SumFunctionOnSet(f, {}) = 0
    BY SumEmpty
  <2>3. T = {} => FALSE
    <3> HIDE DEF By
    <3> QED
      BY <2>1, <2>2
  <2> QED
    BY <2>3, FS_Subset
<1> DEFINE p == Pick(T)
           R == T \ {p}
           k == key[p]
<1>3. p \in T /\ SumFunctionOnSet(f, T) = f[p] + SumFunctionOnSet(f, R)
  BY <1>2, SumPick
<1>4. IsFiniteSet(R) /\ k \in S /\ f[p] \in Int /\ \A x \in R : f[x] \in Int
  BY <1>2, <1>3, FS_RemoveElement
<1>5. SumFunctionOnSet(By(R), S) = SumFunctionOnSet(f, R)
  BY <1>1, <1>3
<1>6. ASSUME NEW s \in S
      PROVE  /\ IsFiniteSet(Of(s, R))
             /\ By(R)[s] = SumFunctionOnSet(f, Of(s, R)) /\ By(R)[s] \in Int
             /\ By(T)[s] = SumFunctionOnSet(f, Of(s, T))
  <2>1. IsFiniteSet(Of(s, R)) /\ \A x \in Of(s, R) : f[x] \in Int
    <3> HIDE DEF R
    <3> QED
      BY <1>4, FS_Subset
  <2>2. /\ By(R)[s] = SumFunctionOnSet(f, Of(s, R))
        /\ By(T)[s] = SumFunctionOnSet(f, Of(s, T))
    OBVIOUS
  <2> HIDE DEF By, Of
  <2> QED
    BY <2>1, <2>2, SumInt
<1>7. \A s \in S \ {k} : By(T)[s] = By(R)[s]
  <2>1. \A s \in S \ {k} : Of(s, T) = Of(s, R)
    OBVIOUS
  <2> HIDE DEF By, Of, R, k
  <2> QED
    BY <1>6, <2>1
<1>8. By(T)[k] = f[p] + By(R)[k]
  <2>1. Of(k, T) = Of(k, R) \cup {p} /\ p \notin Of(k, R)
    BY <1>3
  <2>2. \A x \in Of(k, R) \cup {p} : f[x] \in Int
    BY <1>4
  <2> HIDE DEF By, Of, R, k, p
  <2>3. SumFunctionOnSet(f, Of(k, R) \cup {p}) = f[p] + SumFunctionOnSet(f, Of(k, R))
    BY <1>4, <1>6, <2>1, <2>2, SumAdd
  <2> QED
    BY <1>4, <1>6, <2>1, <2>3
<1>9. SumFunctionOnSet(f, T) # SumFunctionOnSet(By(T), S)
  <2> HIDE DEF By
  <2> QED
    OBVIOUS
<1> DEFINE g == By(R)
           h == By(T)
<1>10. /\ \A s \in S : g[s] \in Int /\ h[s] \in Int
       /\ \A s \in S \ {k} : g[s] = h[s]
  <2> HIDE DEF By, Of, R, k, p
  <2>1. \A s \in S : h[s] \in Int
    BY <1>4, <1>6, <1>7, <1>8
  <2> QED
    BY <1>6, <1>7, <2>1
<1> HIDE DEF By, Of, R, k, p, g, h, Bad
<1>11. SumFunctionOnSet(h, S) = SumFunctionOnSet(g, S) - g[k] + h[k]
  BY <1>4, <1>10, SumChange
<1>12. SumFunctionOnSet(g, S) \in Int
  BY <1>10, SumInt
<1> QED
  BY <1>3, <1>4, <1>5, <1>8, <1>9, <1>10, <1>11, <1>12 DEF g, h
(* What is summed one place further sums to the same. *)
LEMMA SumShift ==
    ASSUME NEW S, IsFiniteSet(S), NEW f, NEW g,
           \A x \in S : x \in Int /\ f[x - 1] \in Int /\ g[x] = f[x - 1]
    PROVE  SumFunctionOnSet(g, S) = SumFunctionOnSet(f, {x - 1 : x \in S})
<1> DEFINE Back(T) == {x - 1 : x \in T}
           Bad == {T \in SUBSET S :
                      SumFunctionOnSet(g, T) # SumFunctionOnSet(f, Back(T))}
<1> SUFFICES ASSUME S \in Bad PROVE FALSE
  OBVIOUS
<1>1. PICK T \in Bad : \A U \in Bad : U \subseteq T => U = T
  <2>1. Bad \in SUBSET SUBSET S
    OBVIOUS
  <2> HIDE DEF Bad
  <2> QED
    BY <2>1, SmallestSet
<1>2. T # {}
  <2> SUFFICES ASSUME T = {} PROVE FALSE
    OBVIOUS
  <2>1. Back(T) = {} /\ T \in Bad
    BY <1>1
  <2>2. SumFunctionOnSet(g, T) = 0 /\ SumFunctionOnSet(f, Back(T)) = 0
    BY <2>1, SumEmpty
  <2> QED
    BY <2>1, <2>2
<1>3. PICK e \in T : TRUE
  BY <1>2
<1>4. T \in SUBSET S /\ IsFiniteSet(T) /\ T \subseteq Int /\ e \in Int
  BY <1>1, <1>3, FS_Subset
<1>5. IsFiniteSet(Back(T))
  <2> DEFINE down == [x \in T |-> x - 1]
  <2>1. down \in Surjection(T, Back(T))
    BY DEF Surjection
  <2> HIDE DEF Back, down
  <2> QED
    BY <1>4, <2>1, FS_Surjection
<1>6. Back(T \ {e}) = Back(T) \ {e - 1}
  BY <1>4
<1>7. e - 1 \in Back(T) /\ \A y \in Back(T) : f[y] \in Int
  BY <1>3, <1>4
<1>8. SumFunctionOnSet(f, Back(T))
          = f[e - 1] + SumFunctionOnSet(f, Back(T) \ {e - 1})
  <2> HIDE DEF Back
  <2> QED
    BY <1>5, <1>7, SumRemove
<1>9. SumFunctionOnSet(g, T) = g[e] + SumFunctionOnSet(g, T \ {e})
  <2>1. \A x \in T : g[x] \in Int
    BY <1>4
  <2> QED
    BY <1>3, <1>4, <2>1, SumRemove
<1>10. T \ {e} \notin Bad
  BY <1>1, <1>3
<1>11. SumFunctionOnSet(g, T \ {e}) = SumFunctionOnSet(f, Back(T \ {e}))
  BY <1>4, <1>10
<1>12. g[e] = f[e - 1]
  BY <1>3, <1>4
<1>13. SumFunctionOnSet(g, T) = SumFunctionOnSet(f, Back(T))
  <2> HIDE DEF Back
  <2> QED
    BY <1>6, <1>8, <1>9, <1>11, <1>12
<1> QED
  BY <1>1, <1>13
=============================================================================
