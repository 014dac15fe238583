---------------------------- MODULE SequenceFacts ----------------------------
(***************************************************************************)
(* Facts about sequences and sums that the proofs about the outputs use: a *)
(* queue is split by a drain, a batch is stored behind what is already     *)
(* stored, and a counter is the sum of what the routes hold.               *)
(*                                                                         *)
(* SumFunction of the community modules is defined by recursion on a set.  *)
(* What it computes is proved by looking at a smallest counterexample: a   *)
(* set without proper subsets, or a number without a smaller one, for      *)
(* which the claim fails.                                                  *)
(***************************************************************************)
EXTENDS Integers, FiniteSets, Functions, SequenceTheorems, FiniteSetTheorems,
        WellFoundedInduction, TLAPS

(* A prefix and the rest of a sequence make the sequence (_drain_batch). *)
LEMMA SplitSequence ==
  ASSUME NEW S, NEW q \in Seq(S), NEW n \in 0 .. Len(q)
  PROVE  /\ SubSeq(q, 1, n) \in Seq(S)
         /\ Len(SubSeq(q, 1, n)) = n
         /\ SubSeq(q, n + 1, Len(q)) \in Seq(S)
         /\ Len(SubSeq(q, n + 1, Len(q))) = Len(q) - n
         /\ SubSeq(q, 1, n) \o SubSeq(q, n + 1, Len(q)) = q
<1>1. \A i \in 1 .. n : q[i] \in S
  BY ElementOfSeq
<1>2. \A i \in (n + 1) .. Len(q) : q[i] \in S
  BY ElementOfSeq
<1>3. /\ SubSeq(q, 1, n) \in Seq(S)
      /\ Len(SubSeq(q, 1, n)) = n
  BY <1>1, SubSeqProperties
<1>4. /\ SubSeq(q, n + 1, Len(q)) \in Seq(S)
      /\ Len(SubSeq(q, n + 1, Len(q))) = Len(q) - n
  BY <1>2, SubSeqProperties
<1>5. SubSeq(q, 1, n) \o SubSeq(q, n + 1, Len(q)) = SubSeq(q, 1, Len(q))
  <2>1. /\ 1 \in 1 .. Len(q) + 1
        /\ n \in 1 - 1 .. Len(q)
        /\ Len(q) \in n .. Len(q)
    OBVIOUS
  <2>2. QED
    BY <2>1, ConcatAdjacentSubSeq
<1>6. QED
  BY <1>3, <1>4, <1>5, SubSeqFull

(* Storing part of a batch extends a prefix of what was accepted (an       *)
(* insert whose batch follows what is stored).                             *)
LEMMA PrefixOfConcat ==
  ASSUME NEW S, NEW s \in Seq(S), NEW t \in Seq(S), NEW u \in Seq(S),
         NEW k \in 0 .. Len(t)
  PROVE  /\ s \o SubSeq(t, 1, k) \in Seq(S)
         /\ Len(s \o SubSeq(t, 1, k)) = Len(s) + k
         /\ SubSeq(s \o t \o u, 1, Len(s) + k) = s \o SubSeq(t, 1, k)
<1> DEFINE all == s \o t \o u
           pre == s \o SubSeq(t, 1, k)
<1>1. /\ s \o t \in Seq(S)
      /\ all \in Seq(S)
      /\ Len(all) = Len(s) + Len(t) + Len(u)
  BY ConcatProperties
<1>2. /\ SubSeq(t, 1, k) \in Seq(S)
      /\ Len(SubSeq(t, 1, k)) = k
  BY SplitSequence
<1>3. pre \in Seq(S) /\ Len(pre) = Len(s) + k
  BY <1>2, ConcatProperties
<1>4. /\ SubSeq(all, 1, Len(s) + k) \in Seq(S)
      /\ Len(SubSeq(all, 1, Len(s) + k)) = Len(s) + k
  BY <1>1, SplitSequence, Len(s) \in Nat, Len(t) \in Nat, Len(u) \in Nat,
     Len(s) + k \in 0 .. Len(all)
<1>5. ASSUME NEW i \in 1 .. (Len(s) + k)
      PROVE  SubSeq(all, 1, Len(s) + k)[i] = pre[i]
  <2>1. SubSeq(all, 1, Len(s) + k)[i] = all[i]
    <3>1. \A j \in 1 .. (Len(s) + k) : all[j] \in S
      BY <1>1, ElementOfSeq
    <3>2. QED
      BY <3>1, SubSeqProperties
  <2>2. all[i] = (s \o t)[i]
    BY <1>1, ConcatProperties
  <2>3. (s \o t)[i] = IF i <= Len(s) THEN s[i] ELSE t[i - Len(s)]
    BY ConcatProperties
  <2>4. pre[i] = IF i <= Len(s) THEN s[i] ELSE SubSeq(t, 1, k)[i - Len(s)]
    BY <1>2, ConcatProperties
  <2>5. CASE i <= Len(s)
    BY <2>1, <2>2, <2>3, <2>4, <2>5
  <2>6. CASE ~ (i <= Len(s))
    <3>1. i - Len(s) \in 1 .. k
      BY <2>6
    <3>2. \A j \in 1 .. k : t[j] \in S
      BY ElementOfSeq
    <3>3. SubSeq(t, 1, k)[i - Len(s)] = t[i - Len(s)]
      BY <3>1, <3>2, SubSeqProperties
    <3>4. QED
      BY <2>1, <2>2, <2>3, <2>4, <2>6, <3>3
  <2>7. QED
    BY <2>5, <2>6
<1>6. SubSeq(all, 1, Len(s) + k) = pre
  BY <1>3, <1>4, <1>5, SeqEqual
<1>7. QED
  BY <1>3, <1>6

(* Moving the head of a queue into a batch keeps the order of everything   *)
(* behind what is already stored.                                          *)
LEMMA DrainKeepsOrder ==
  ASSUME NEW S, NEW c \in Seq(S), NEW q \in Seq(S), NEW n \in 0 .. Len(q)
  PROVE  c \o SubSeq(q, 1, n) \o SubSeq(q, n + 1, Len(q)) = c \o q
<1> DEFINE head == SubSeq(q, 1, n)
           rest == SubSeq(q, n + 1, Len(q))
<1>1. head \in Seq(S) /\ rest \in Seq(S)
  BY SplitSequence
<1>2. head \o rest = q
  BY SplitSequence
<1> HIDE DEF head, rest
<1>3. (c \o head) \o rest = c \o (head \o rest)
  BY <1>1, ConcatAssociative
<1>4. (c \o head) \o rest = c \o q
  BY <1>2, <1>3
<1>5. QED
  BY <1>4 DEF head, rest

(* Accepting a document changes no prefix of what was accepted before. *)
LEMMA AppendKeepsPrefix ==
  ASSUME NEW S, NEW s \in Seq(S), NEW e \in S, NEW n \in 0 .. Len(s)
  PROVE  SubSeq(Append(s, e), 1, n) = SubSeq(s, 1, n)
<1>1. Append(s, e) \in Seq(S) /\ Len(Append(s, e)) = Len(s) + 1
  BY AppendProperties
<1>2. /\ SubSeq(Append(s, e), 1, n) \in Seq(S)
      /\ Len(SubSeq(Append(s, e), 1, n)) = n
  BY <1>1, SplitSequence, n \in 0 .. Len(Append(s, e))
<1>3. SubSeq(s, 1, n) \in Seq(S) /\ Len(SubSeq(s, 1, n)) = n
  BY SplitSequence
<1>4. ASSUME NEW i \in 1 .. n
      PROVE  SubSeq(Append(s, e), 1, n)[i] = SubSeq(s, 1, n)[i]
  <2>1. (\A j \in 1 .. n : s[j] \in S) /\ (\A j \in 1 .. n : Append(s, e)[j] \in S)
    BY <1>1, ElementOfSeq
  <2>2. SubSeq(Append(s, e), 1, n)[i] = Append(s, e)[i] /\ SubSeq(s, 1, n)[i] = s[i]
    BY <2>1, SubSeqProperties
  <2>3. QED
    BY <2>2, AppendProperties
<1>5. QED
  BY <1>2, <1>3, <1>4, SeqEqual

----------------------------------------------------------------------------
(* Smallest counterexamples.                                              *)

(* A set of subsets of a finite set has a smallest one. *)
LEMMA MinimalSubset ==
  ASSUME NEW S, IsFiniteSet(S), NEW B, B \subseteq SUBSET S, B # {}
  PROVE  \E T \in B : \A U \in B : U \subseteq T => U = T
<1>1. IsWellFoundedOn(StrictSubsetOrdering(S), SUBSET S)
  BY FS_StrictSubsetOrderingWellFounded, FS_FiniteSubsetsOfFinite
<1>2. PICK T \in B : \A U \in B : <<U, T>> \notin StrictSubsetOrdering(S)
  BY <1>1, WFMin
<1>3. QED
  BY <1>2 DEF StrictSubsetOrdering

LEMMA LeastNumber ==
  ASSUME NEW B, B \subseteq Nat, B # {}
  PROVE  \E n \in B : \A m \in B : n <= m
<1>1. PICK n \in B : \A m \in B : <<m, n>> \notin OpToRel(<, Nat)
  BY NatLessThanWellFounded, WFMin
<1>2. ASSUME NEW m \in B PROVE n <= m
  <2>1. <<m, n>> \in Nat \X Nat
    OBVIOUS
  <2>2. ~ (m < n)
    BY <1>1, <2>1 DEF OpToRel
  <2>3. QED
    BY <2>2
<1>3. QED
  BY <1>2

Picked(s) == CHOOSE x \in s : TRUE

Sums(h, f, S) ==
  h = [s \in SUBSET S |-> IF s = {} THEN 0 ELSE f[Picked(s)] + h[s \ {Picked(s)}]]

LEMMA SumIsChosen ==
  ASSUME NEW f, NEW S
  PROVE  SumFunctionOnSet(f, S) = (CHOOSE h : Sums(h, f, S))[S]
  BY DEF SumFunctionOnSet, FoldFunctionOnSet, MapThenFoldSet, Sums, Picked

LEMMA PickedIn == ASSUME NEW s, s # {} PROVE Picked(s) \in s
  BY DEF Picked

LEMMA SumsAgree ==
  ASSUME NEW S, IsFiniteSet(S), NEW T, T \subseteq S, NEW f, NEW g, NEW h,
         Sums(g, f, S), Sums(h, f, T)
  PROVE  g[T] = h[T]
<1> DEFINE Bad == {s \in SUBSET T : g[s] # h[s]}
<1>1. SUFFICES ASSUME Bad # {} PROVE FALSE
  OBVIOUS
<1>2. IsFiniteSet(T)
  BY FS_Subset
<1>3. PICK s \in Bad : \A u \in Bad : u \subseteq s => u = s
  <2>1. Bad \subseteq SUBSET T
    OBVIOUS
  <2> HIDE DEF Bad
  <2>2. QED
    BY <1>1, <1>2, <2>1, MinimalSubset
<1>4. CASE s = {}
  BY <1>4 DEF Sums
<1>5. CASE s # {}
  <2>1. Picked(s) \in s
    BY <1>5, PickedIn
  <2>2. s \ {Picked(s)} \notin Bad
    BY <1>3, <2>1
  <2>3. g[s \ {Picked(s)}] = h[s \ {Picked(s)}]
    BY <2>2
  <2>4. /\ g[s] = f[Picked(s)] + g[s \ {Picked(s)}]
        /\ h[s] = f[Picked(s)] + h[s \ {Picked(s)}]
    BY <1>5 DEF Sums
  <2>5. QED
    BY <2>3, <2>4
<1>6. QED
  BY <1>4, <1>5

LEMMA SumsExist ==
  ASSUME NEW S, IsFiniteSet(S), NEW f
  PROVE  \E h : Sums(h, f, S)
<1> DEFINE Bad == {T \in SUBSET S : ~ \E h : Sums(h, f, T)}
           Sum(T) == SumFunctionOnSet(f, T)
<1>1. SUFFICES ASSUME Bad # {} PROVE FALSE
  OBVIOUS
<1>2. PICK T \in Bad : \A U \in Bad : U \subseteq T => U = T
  <2>1. Bad \subseteq SUBSET S
    OBVIOUS
  <2> HIDE DEF Bad
  <2>2. QED
    BY <1>1, <2>1, MinimalSubset
<1>3. ASSUME NEW U, U \subseteq T, U # T
      PROVE  \E h : Sums(h, f, U) /\ Sum(U) = h[U]
  <2>1. \E h : Sums(h, f, U)
    BY <1>2, <1>3
  <2>2. Sums(CHOOSE h : Sums(h, f, U), f, U)
    BY <2>1
  <2>3. QED
    BY <2>2, SumIsChosen
<1>4. ASSUME NEW U, U \subseteq T, U # T
      PROVE  Sum(U) = IF U = {} THEN 0 ELSE f[Picked(U)] + Sum(U \ {Picked(U)})
  <2>1. PICK h : Sums(h, f, U) /\ Sum(U) = h[U]
    BY <1>3, <1>4
  <2>2. CASE U = {}
    BY <2>1, <2>2 DEF Sums
  <2>3. CASE U # {}
    <3>1. Picked(U) \in U
      BY <2>3, PickedIn
    <3>2. PICK k : Sums(k, f, U \ {Picked(U)}) /\ Sum(U \ {Picked(U)}) = k[U \ {Picked(U)}]
      BY <1>3, <1>4, <3>1
    <3>3. IsFiniteSet(U)
      BY <1>2, <1>4, FS_Subset
    <3>4. h[U \ {Picked(U)}] = k[U \ {Picked(U)}]
      BY <2>1, <3>2, <3>3, SumsAgree
    <3>5. h[U] = f[Picked(U)] + h[U \ {Picked(U)}]
      BY <2>1, <2>3 DEF Sums
    <3>6. QED
      BY <2>1, <2>3, <3>2, <3>4, <3>5
  <2>4. QED
    BY <2>2, <2>3
<1> DEFINE h == [s \in SUBSET T |-> IF s = {} THEN 0 ELSE f[Picked(s)] + Sum(s \ {Picked(s)})]
<1>5. ASSUME NEW s \in SUBSET T, s # {}
      PROVE  h[s \ {Picked(s)}] = Sum(s \ {Picked(s)})
  <2>1. Picked(s) \in s
    BY <1>5, PickedIn
  <2>2. s \ {Picked(s)} \subseteq T /\ s \ {Picked(s)} # T
    BY <2>1
  <2>3. QED
    BY <1>4, <2>2
<1>6. h = [s \in SUBSET T |-> IF s = {} THEN 0 ELSE f[Picked(s)] + h[s \ {Picked(s)}]]
  BY <1>5
<1>7. Sums(h, f, T)
  BY <1>6 DEF Sums
<1>8. QED
  BY <1>2, <1>7

LEMMA SumEmpty ==
  ASSUME NEW f
  PROVE  SumFunctionOnSet(f, {}) = 0
<1>1. IsFiniteSet({})
  BY FS_EmptySet
<1>2. \E h : Sums(h, f, {})
  BY <1>1, SumsExist
<1>3. Sums(CHOOSE h : Sums(h, f, {}), f, {})
  BY <1>2
<1>4. QED
  BY <1>3, SumIsChosen DEF Sums

LEMMA SumUnfolds ==
  ASSUME NEW f, NEW S, IsFiniteSet(S), S # {}
  PROVE  SumFunctionOnSet(f, S) = f[Picked(S)] + SumFunctionOnSet(f, S \ {Picked(S)})
<1> DEFINE R == S \ {Picked(S)}
<1>1. Picked(S) \in S
  BY PickedIn
<1>2. IsFiniteSet(R)
  BY FS_Subset
<1>3. (\E h : Sums(h, f, S)) /\ (\E h : Sums(h, f, R))
  BY <1>2, SumsExist
<1> DEFINE g == CHOOSE h : Sums(h, f, S)
           k == CHOOSE h : Sums(h, f, R)
<1>4. Sums(g, f, S) /\ Sums(k, f, R)
  BY <1>3
<1>5. SumFunctionOnSet(f, S) = g[S] /\ SumFunctionOnSet(f, R) = k[R]
  BY SumIsChosen
<1>6. g[R] = k[R]
  <2> HIDE DEF g, k
  <2>1. R \subseteq S
    OBVIOUS
  <2> HIDE DEF R
  <2>2. QED
    BY <1>4, <2>1, <1>2, SumsAgree
<1>7. g[S] = f[Picked(S)] + g[R]
  <2> HIDE DEF g, k
  <2>1. QED
    BY <1>4 DEF Sums
<1>8. QED
  <2> HIDE DEF g, k, R
  <2>1. SumFunctionOnSet(f, S) = f[Picked(S)] + SumFunctionOnSet(f, R)
    BY <1>5, <1>6, <1>7
  <2>2. QED
    BY <2>1 DEF R

(* Sums of naturals are natural. *)
LEMMA SumIsNat ==
  ASSUME NEW S, IsFiniteSet(S), NEW f, \A x \in S : f[x] \in Nat
  PROVE  SumFunctionOnSet(f, S) \in Nat
<1> DEFINE Bad == {T \in SUBSET S : SumFunctionOnSet(f, T) \notin Nat}
<1>1. SUFFICES ASSUME Bad # {} PROVE FALSE
  OBVIOUS
<1>2. PICK T \in Bad : \A U \in Bad : U \subseteq T => U = T
  <2>1. Bad \subseteq SUBSET S
    OBVIOUS
  <2> HIDE DEF Bad
  <2>2. QED
    BY <1>1, <2>1, MinimalSubset
<1>3. T # {}
  BY SumEmpty
<1>4. Picked(T) \in T
  BY <1>3, PickedIn
<1>5. SumFunctionOnSet(f, T \ {Picked(T)}) \in Nat
  BY <1>2, <1>4
<1>6. IsFiniteSet(T)
  BY FS_Subset
<1>7. SumFunctionOnSet(f, T) = f[Picked(T)] + SumFunctionOnSet(f, T \ {Picked(T)})
  BY <1>3, <1>6, SumUnfolds
<1>8. QED
  BY <1>4, <1>5, <1>7

(* Any member may be taken out of the sum. *)
LEMMA SumRemoves ==
  ASSUME NEW S, IsFiniteSet(S), NEW f, \A x \in S : f[x] \in Nat, NEW e \in S
  PROVE  SumFunctionOnSet(f, S) = f[e] + SumFunctionOnSet(f, S \ {e})
<1> DEFINE Sum(T) == SumFunctionOnSet(f, T)
           Bad == {T \in SUBSET S : \E x \in T : Sum(T) # f[x] + Sum(T \ {x})}
<1>1. SUFFICES ASSUME Bad # {} PROVE FALSE
  OBVIOUS
<1>2. PICK T \in Bad : \A U \in Bad : U \subseteq T => U = T
  <2>1. Bad \subseteq SUBSET S
    OBVIOUS
  <2> HIDE DEF Bad
  <2>2. QED
    BY <1>1, <2>1, MinimalSubset
<1>3. PICK x \in T : Sum(T) # f[x] + Sum(T \ {x})
  OBVIOUS
<1> DEFINE p == Picked(T)
<1>4. p \in T
  BY <1>3, PickedIn
<1>5. \A U \in SUBSET S : IsFiniteSet(U) /\ Sum(U) \in Nat
  <2>1. ASSUME NEW U \in SUBSET S PROVE IsFiniteSet(U)
    BY FS_Subset
  <2>2. ASSUME NEW U \in SUBSET S PROVE Sum(U) \in Nat
    BY <2>1, SumIsNat
  <2>3. QED
    BY <2>1, <2>2
<1>6. Sum(T) = f[p] + Sum(T \ {p})
  BY <1>3, <1>5, SumUnfolds
<1>7. x # p
  BY <1>3, <1>6
<1>8. Sum(T \ {p}) = f[x] + Sum((T \ {p}) \ {x})
  <2>1. T \ {p} \notin Bad /\ T \ {p} \in SUBSET S /\ x \in T \ {p}
    BY <1>2, <1>4, <1>7
  <2>2. QED
    BY <2>1
<1>9. Sum(T \ {x}) = f[p] + Sum((T \ {x}) \ {p})
  <2>1. T \ {x} \notin Bad /\ T \ {x} \in SUBSET S /\ p \in T \ {x}
    BY <1>2, <1>4, <1>7
  <2>2. QED
    BY <2>1
<1>10. Sum((T \ {x}) \ {p}) = Sum((T \ {p}) \ {x})
  <2>1. (T \ {x}) \ {p} = (T \ {p}) \ {x}
    OBVIOUS
  <2>2. QED
    BY <2>1
<1>11. Sum((T \ {p}) \ {x}) \in Nat /\ f[p] \in Nat /\ f[x] \in Nat
  BY <1>4, <1>5
<1> DEFINE rest == Sum((T \ {p}) \ {x})
<1>12. Sum(T) = f[p] + (f[x] + rest) /\ Sum(T \ {x}) = f[p] + rest
  BY <1>6, <1>8, <1>9, <1>10
<1> HIDE DEF p, rest
<1>13. Sum(T) = f[x] + Sum(T \ {x})
  BY <1>11, <1>12 DEF rest
<1>14. QED
  BY <1>3, <1>13

(* Functions that agree on the set have the same sum. *)
LEMMA SumsOfEquals ==
  ASSUME NEW S, IsFiniteSet(S), NEW f, NEW g, \A x \in S : f[x] = g[x]
  PROVE  SumFunctionOnSet(f, S) = SumFunctionOnSet(g, S)
<1> DEFINE Bad == {T \in SUBSET S : SumFunctionOnSet(f, T) # SumFunctionOnSet(g, T)}
<1>1. SUFFICES ASSUME Bad # {} PROVE FALSE
  OBVIOUS
<1>2. PICK T \in Bad : \A U \in Bad : U \subseteq T => U = T
  <2>1. Bad \subseteq SUBSET S
    OBVIOUS
  <2> HIDE DEF Bad
  <2>2. QED
    BY <1>1, <2>1, MinimalSubset
<1>3. T # {}
  BY SumEmpty
<1>4. Picked(T) \in T
  BY <1>3, PickedIn
<1>5. SumFunctionOnSet(f, T \ {Picked(T)}) = SumFunctionOnSet(g, T \ {Picked(T)})
  BY <1>2, <1>4
<1>6. IsFiniteSet(T)
  BY FS_Subset
<1>7. /\ SumFunctionOnSet(f, T) = f[Picked(T)] + SumFunctionOnSet(f, T \ {Picked(T)})
      /\ SumFunctionOnSet(g, T) = g[Picked(T)] + SumFunctionOnSet(g, T \ {Picked(T)})
  BY <1>3, <1>6, SumUnfolds
<1>8. QED
  BY <1>4, <1>5, <1>7

(* Nothing adds up to nothing. *)
LEMMA SumOfZeros ==
  ASSUME NEW S, IsFiniteSet(S), NEW f, \A x \in S : f[x] = 0
  PROVE  SumFunctionOnSet(f, S) = 0
<1> DEFINE Bad == {T \in SUBSET S : SumFunctionOnSet(f, T) # 0}
<1>1. SUFFICES ASSUME Bad # {} PROVE FALSE
  OBVIOUS
<1>2. PICK T \in Bad : \A U \in Bad : U \subseteq T => U = T
  <2>1. Bad \subseteq SUBSET S
    OBVIOUS
  <2> HIDE DEF Bad
  <2>2. QED
    BY <1>1, <2>1, MinimalSubset
<1>3. T # {}
  BY SumEmpty
<1>4. Picked(T) \in T
  BY <1>3, PickedIn
<1>5. SumFunctionOnSet(f, T \ {Picked(T)}) = 0
  BY <1>2, <1>4
<1>6. IsFiniteSet(T)
  BY FS_Subset
<1>7. SumFunctionOnSet(f, T) = f[Picked(T)] + SumFunctionOnSet(f, T \ {Picked(T)})
  BY <1>3, <1>6, SumUnfolds
<1>8. QED
  BY <1>4, <1>5, <1>7

(* Changing one summand changes the sum by as much. *)
LEMMA SumUpdate ==
  ASSUME NEW S, IsFiniteSet(S), NEW f \in [S -> Nat], NEW g \in [S -> Nat],
         NEW e \in S, \A x \in S \ {e} : g[x] = f[x]
  PROVE  /\ SumFunction(f) \in Nat /\ SumFunction(g) \in Nat
         /\ f[e] <= SumFunction(f)
         /\ SumFunction(g) + f[e] = SumFunction(f) + g[e]
<1> DEFINE R == S \ {e}
<1>1. IsFiniteSet(R)
  BY FS_Subset
<1>2. SumFunction(f) = SumFunctionOnSet(f, S) /\ SumFunction(g) = SumFunctionOnSet(g, S)
  BY DEF SumFunction
<1>3. /\ SumFunctionOnSet(f, S) = f[e] + SumFunctionOnSet(f, R)
      /\ SumFunctionOnSet(g, S) = g[e] + SumFunctionOnSet(g, R)
  BY SumRemoves
<1>4. SumFunctionOnSet(f, R) = SumFunctionOnSet(g, R)
  BY <1>1, SumsOfEquals
<1>5. SumFunctionOnSet(f, R) \in Nat
  BY <1>1, SumIsNat
<1>6. f[e] \in Nat /\ g[e] \in Nat
  OBVIOUS
<1>7. QED
  BY <1>2, <1>3, <1>4, <1>5, <1>6

----------------------------------------------------------------------------
(* What the elements of a sequence weigh together. *)
Weight(size, s) == SumFunction([i \in DOMAIN s |-> size[s[i]]])

LEMMA WeightEmpty ==
  ASSUME NEW size
  PROVE  Weight(size, << >>) = 0
<1>1. DOMAIN [i \in DOMAIN << >> |-> size[<< >>[i]]] = {}
  OBVIOUS
<1>2. QED
  BY <1>1, SumEmpty DEF Weight, SumFunction

LEMMA WeightAppend ==
  ASSUME NEW D, NEW size \in [D -> Nat], NEW s \in Seq(D), NEW d \in D
  PROVE  /\ Weight(size, s) \in Nat
         /\ Weight(size, Append(s, d)) = Weight(size, s) + size[d]
<1> DEFINE t == Append(s, d)
           n == Len(s) + 1
           f == [i \in DOMAIN s |-> size[s[i]]]
           g == [i \in DOMAIN t |-> size[t[i]]]
<1>1. /\ t \in Seq(D) /\ Len(t) = n /\ t[n] = d
      /\ \A i \in 1 .. Len(s) : t[i] = s[i]
  BY AppendProperties
<1>2. DOMAIN s = 1 .. Len(s) /\ DOMAIN t = 1 .. n /\ Len(s) \in Nat
  BY <1>1, LenProperties
<1>3. (\A i \in 1 .. Len(s) : s[i] \in D) /\ (\A i \in 1 .. n : t[i] \in D)
  BY <1>1, ElementOfSeq
<1> HIDE DEF t
<1>4. (\A i \in 1 .. Len(s) : f[i] \in Nat) /\ (\A i \in 1 .. n : g[i] \in Nat)
  BY <1>2, <1>3
<1>5. IsFiniteSet(1 .. Len(s)) /\ IsFiniteSet(1 .. n)
  BY <1>2, FS_Interval
<1>6. SumFunction(f) = SumFunctionOnSet(f, 1 .. Len(s))
  BY <1>2 DEF SumFunction
<1>7. SumFunction(g) = SumFunctionOnSet(g, 1 .. n)
  BY <1>2 DEF SumFunction
<1>8. \A i \in 1 .. Len(s) : f[i] = g[i]
  BY <1>1, <1>2
<1>9. g[n] = size[d] /\ n \in 1 .. n
  BY <1>1, <1>2
<1>10. (1 .. n) \ {n} = 1 .. Len(s)
  BY <1>2
<1> HIDE DEF f, g, n
<1>11. SumFunctionOnSet(g, 1 .. n) = g[n] + SumFunctionOnSet(g, (1 .. n) \ {n})
  BY <1>4, <1>5, <1>9, SumRemoves
<1>12. SumFunctionOnSet(f, 1 .. Len(s)) = SumFunctionOnSet(g, 1 .. Len(s))
  BY <1>5, <1>8, SumsOfEquals
<1>13. SumFunctionOnSet(f, 1 .. Len(s)) \in Nat
  BY <1>4, <1>5, SumIsNat
<1>14. Weight(size, s) = SumFunction(f) /\ Weight(size, t) = SumFunction(g)
  BY DEF Weight, f, g
<1>15. size[d] \in Nat
  OBVIOUS
<1>16. SumFunction(g) = size[d] + SumFunction(f)
  BY <1>6, <1>7, <1>9, <1>10, <1>11, <1>12
<1>17. QED
  BY <1>6, <1>13, <1>14, <1>15, <1>16 DEF t

LEMMA WeightConcat ==
  ASSUME NEW D, NEW size \in [D -> Nat], NEW s \in Seq(D), NEW t \in Seq(D)
  PROVE  /\ Weight(size, s) \in Nat /\ Weight(size, t) \in Nat
         /\ Weight(size, s \o t) = Weight(size, s) + Weight(size, t)
<1>1. \A u \in Seq(D) : Weight(size, u) \in Nat
  <2>1. TAKE u \in Seq(D)
  <2>2. CASE u = << >>
    BY <2>2, WeightEmpty
  <2>3. CASE u # << >>
    <3>1. PICK d \in D : TRUE
      BY <2>3, HeadTailProperties
    <3>2. QED
      BY <3>1, WeightAppend
  <2>4. QED
    BY <2>2, <2>3
<1> DEFINE Wrong(u) == Weight(size, s \o u) # Weight(size, s) + Weight(size, u)
           Bad == {n \in Nat : \E u \in Seq(D) : Len(u) = n /\ Wrong(u)}
<1>2. Bad = {}
  <2>1. SUFFICES ASSUME Bad # {} PROVE FALSE
    OBVIOUS
  <2>2. Bad \subseteq Nat
    OBVIOUS
  <2>3. PICK n \in Bad : \A m \in Bad : n <= m
    <3> HIDE DEF Bad
    <3>1. QED
      BY <2>1, <2>2, LeastNumber
  <2>4. PICK u \in Seq(D) : Len(u) = n /\ Wrong(u)
    OBVIOUS
  <2>5. CASE u = << >>
    BY <1>1, <2>4, <2>5, ConcatEmptySeq, WeightEmpty
  <2>6. CASE u # << >>
    <3>1. PICK v \in Seq(D), d \in D : u = Append(v, d)
      BY <2>6, SequenceEmptyOrAppend
    <3>2. Len(u) = Len(v) + 1 /\ Len(v) \in Nat
      BY <3>1, AppendProperties, LenProperties
    <3>3. Len(v) \notin Bad
      <4>1. n = Len(v) + 1
        BY <2>4, <3>2
      <4> HIDE DEF Bad
      <4>2. QED
        BY <2>3, <3>2, <4>1
    <3>4. ~ Wrong(v)
      BY <3>2, <3>3
    <3>5. s \o u = Append(s \o v, d)
      <4>1. u = v \o <<d>> /\ <<d>> \in Seq(D) /\ s \o v \in Seq(D)
        BY <3>1, AppendIsConcat, ConcatProperties
      <4>2. s \o u = (s \o v) \o <<d>>
        BY <4>1, ConcatAssociative
      <4>3. QED
        BY <4>1, <4>2, AppendIsConcat
    <3>6. s \o v \in Seq(D)
      BY ConcatProperties
    <3>7. Weight(size, s \o u) = Weight(size, s \o v) + size[d]
      BY <3>5, <3>6, WeightAppend
    <3>8. Weight(size, u) = Weight(size, v) + size[d]
      BY <3>1, WeightAppend
    <3>9. size[d] \in Nat
      OBVIOUS
    <3>10. QED
      BY <1>1, <2>4, <3>4, <3>7, <3>8, <3>9
  <2>7. QED
    BY <2>5, <2>6
<1>3. Len(t) \in Nat
  BY LenProperties
<1>4. ~ Wrong(t)
  BY <1>2, <1>3
<1>5. QED
  BY <1>1, <1>4
==============================================================================
