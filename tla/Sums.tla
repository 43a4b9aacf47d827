---------------------------------- MODULE Sums ----------------------------------
(***************************************************************************)
(* What SumFunctionOnSet of the community modules does on finite sets: the *)
(* sums of the books are written with it, and their proofs need no more    *)
(* than that one element can be taken out and what stays is a sum again.   *)
(* Induction goes over the strict subsets of a finite set, by the least    *)
(* element of a well-founded ordering.                                     *)
(***************************************************************************)
EXTENDS Functions, Sequences, FiniteSetTheorems, SequenceTheorems, TLAPS

\* The element that is taken out of a set.
Chosen(s) == CHOOSE y \in s : TRUE

\* f adds up v over the subsets of S, one element at a time.
Adds(f, v, S) ==
  f = [s \in SUBSET S |->
         IF s = {} THEN 0
         ELSE v[Chosen(s)] + f[s \ {Chosen(s)}]]

\* What goes from the strict subsets of each set to the set goes for the whole set.
LEMMA SetInduction ==
  ASSUME NEW S, IsFiniteSet(S), NEW G,
         \A T \in SUBSET S : (\A U \in SUBSET T : U # T => U \in G) => T \in G
  PROVE  S \in G
<1> DEFINE bad == (SUBSET S) \ G
<1>1. ASSUME S \notin G PROVE FALSE
  <2>1. bad # {} /\ bad \subseteq FiniteSubsetsOf(S)
    BY <1>1, FS_FiniteSubsetsOfFinite
  <2>2. IsWellFoundedOn(StrictSubsetOrdering(S), FiniteSubsetsOf(S))
    BY FS_StrictSubsetOrderingWellFounded
  <2>3. PICK T \in bad : \A U \in bad : <<U, T>> \notin StrictSubsetOrdering(S)
    <3> HIDE DEF bad
    <3> QED BY <2>1, <2>2, WFMin
  <2>4. \A U \in SUBSET T : U # T => U \in G
    BY <2>3 DEF StrictSubsetOrdering
  <2> QED
    BY <2>3, <2>4
<1> QED
  BY <1>1

\* A function that adds up, at every subset.
LEMMA AddsAt ==
  ASSUME NEW S, NEW v, NEW f, Adds(f, v, S)
  PROVE  \A s \in SUBSET S :
           /\ s = {} => f[s] = 0
           /\ s # {} => Chosen(s) \in s /\ f[s] = v[Chosen(s)] + f[s \ {Chosen(s)}]
<1>1. \A s \in SUBSET S : f[s] = IF s = {} THEN 0 ELSE v[Chosen(s)] + f[s \ {Chosen(s)}]
  BY Zenon DEF Adds, Chosen
<1>2. \A s : s # {} => Chosen(s) \in s
  BY Zenon DEF Chosen
<1> QED
  BY <1>1, <1>2

\* Two of them agree wherever what they add up agrees.
LEMMA AddsAgree ==
  ASSUME NEW S, NEW T, NEW v, NEW w, NEW f, NEW g, NEW C, IsFiniteSet(C),
         C \subseteq S, C \subseteq T, \A x \in C : v[x] = w[x],
         Adds(f, v, S), Adds(g, w, T)
  PROVE  f[C] = g[C]
<1>1. \A s \in SUBSET S :
        /\ s = {} => f[s] = 0
        /\ s # {} => Chosen(s) \in s /\ f[s] = v[Chosen(s)] + f[s \ {Chosen(s)}]
  <2>1. Adds(f, v, S)
    OBVIOUS
  <2> QED BY ONLY <2>1, AddsAt
<1>2. \A s \in SUBSET T :
        /\ s = {} => g[s] = 0
        /\ s # {} => Chosen(s) \in s /\ g[s] = w[Chosen(s)] + g[s \ {Chosen(s)}]
  <2>1. Adds(g, w, T)
    OBVIOUS
  <2> QED BY ONLY <2>1, AddsAt
<1> DEFINE G == {U \in SUBSET C : f[U] = g[U]}
<1>3. ASSUME NEW U \in SUBSET C, \A X \in SUBSET U : X # U => X \in G
      PROVE  U \in G
  <2>1. CASE U = {}
    BY <1>1, <1>2, <2>1
  <2>2. CASE U # {}
    <3>1. Chosen(U) \in U /\ f[U] = v[Chosen(U)] + f[U \ {Chosen(U)}]
      BY <1>1, <2>2
    <3>2. g[U] = w[Chosen(U)] + g[U \ {Chosen(U)}]
      BY <1>2, <2>2
    <3>3. U \ {Chosen(U)} \in G
      BY <1>3, <3>1
    <3> QED
      BY <3>1, <3>2, <3>3
  <2> QED
    BY <2>1, <2>2
<1>4. C \in G
  <2> HIDE DEF G
  <2> QED BY <1>3, SetInduction
<1> QED
  BY <1>4

\* There is one for every finite set.
LEMMA AddsExists ==
  ASSUME NEW S, IsFiniteSet(S), NEW v
  PROVE  \E f : Adds(f, v, S)
<1> DEFINE G == {T \in SUBSET S : \E f : Adds(f, v, T)}
           h(s) == CHOOSE f : Adds(f, v, s)
<1>1. ASSUME NEW T \in SUBSET S, \A U \in SUBSET T : U # T => U \in G
      PROVE  T \in G
  <2>1. CASE T = {}
    <3>1. Adds([s \in SUBSET T |-> 0], v, T)
      BY <2>1, Zenon DEF Adds
    <3> QED BY <3>1
  <2>2. CASE T # {}
    <3> DEFINE x == Chosen(T)
               f == [s \in SUBSET T |-> IF s = T THEN v[x] + h(T \ {x})[T \ {x}] ELSE h(s)[s]]
    <3>1. \A U \in SUBSET T : U # T => Adds(h(U), v, U)
      BY <1>1, Zenon
    <3>2. x \in T
      BY <2>2, Zenon DEF Chosen
    <3> HIDE DEF h
    <3>3. ASSUME NEW s \in SUBSET T
          PROVE  f[s] = IF s = {} THEN 0 ELSE v[Chosen(s)] + f[s \ {Chosen(s)}]
      <4>1. CASE s = {}
        <5>1. Adds(h(s), v, s)
          BY <3>1, <2>2, <4>1
        <5>2. h(s)[s] = 0
          BY <5>1, <4>1, AddsAt
        <5> QED BY <5>2, <4>1, <2>2
      <4>2. CASE s = T
        <5>1. f[s] = v[x] + h(T \ {x})[T \ {x}]
          BY <4>2
        <5>2. f[T \ {x}] = h(T \ {x})[T \ {x}]
          <6> HIDE DEF x
          <6> QED BY <3>2
        <5> QED BY <5>1, <5>2, <4>2, <2>2
      <4>3. CASE s # {} /\ s # T
        <5> DEFINE y == Chosen(s)
        <5>1. y \in s
          BY <4>3, Zenon DEF Chosen
        <5>2. Adds(h(s), v, s) /\ Adds(h(s \ {y}), v, s \ {y})
          <6> HIDE DEF y
          <6> QED BY <3>1, <4>3, <5>1
        <5>3. h(s)[s] = v[y] + h(s)[s \ {y}]
          BY <5>2, <4>3, AddsAt
        <5>4. h(s)[s \ {y}] = h(s \ {y})[s \ {y}]
          <6> HIDE DEF y
          <6>1. IsFiniteSet(s \ {y})
            BY FS_Subset
          <6> QED BY <6>1, <5>2, AddsAgree
        <5>5. f[s] = h(s)[s] /\ f[s \ {y}] = h(s \ {y})[s \ {y}]
          <6> HIDE DEF y, x
          <6> QED BY <4>3, <5>1
        <5>6. f[s] = v[y] + f[s \ {y}]
          <6> HIDE DEF f
          <6> QED BY <5>3, <5>4, <5>5
        <5> QED BY <5>6, <4>3
      <4> QED BY <4>1, <4>2, <4>3
    <3>4. Adds(f, v, T)
      <4>1. f = [s \in SUBSET T |-> f[s]]
        OBVIOUS
      <4> HIDE DEF f
      <4> QED BY <4>1, <3>3, Zenon DEF Adds
    <3> QED BY <3>4
  <2> QED
    BY <2>1, <2>2
<1>2. S \in G
  <2> HIDE DEF G
  <2> QED BY <1>1, SetInduction
<1> QED
  BY <1>2

\* The sum is what any of them says.
LEMMA SumIs ==
  ASSUME NEW S, IsFiniteSet(S), NEW v, NEW f, Adds(f, v, S)
  PROVE  SumFunctionOnSet(v, S) = f[S]
<1>1. \E g : Adds(g, v, S) /\ SumFunctionOnSet(v, S) = g[S]
  BY Zenon DEF Adds, Chosen, SumFunctionOnSet, FoldFunctionOnSet, MapThenFoldSet
<1> QED
  BY <1>1, AddsAgree

--------------------------------------------------------------------------------
(* What the proofs cite                                                     *)

\* Nothing adds up to zero.
THEOREM SumEmpty ==
  ASSUME NEW v
  PROVE  SumFunctionOnSet(v, {}) = 0
<1>1. IsFiniteSet({})
  BY FS_EmptySet
<1>2. PICK f : Adds(f, v, {})
  BY <1>1, AddsExists, Zenon
<1>3. f[{}] = 0
  BY <1>2, AddsAt, Zenon
<1> QED
  BY <1>1, <1>2, <1>3, SumIs

\* Only what is summed up matters.
THEOREM SumSame ==
  ASSUME NEW S, IsFiniteSet(S), NEW v, NEW w, \A x \in S : v[x] = w[x]
  PROVE  SumFunctionOnSet(v, S) = SumFunctionOnSet(w, S)
BY AddsExists, SumIs, AddsAgree

\* The element that is taken out first.
LEMMA SumChosen ==
  ASSUME NEW S, IsFiniteSet(S), S # {}, NEW v
  PROVE  \E x \in S : SumFunctionOnSet(v, S) = v[x] + SumFunctionOnSet(v, S \ {x})
<1> DEFINE x == Chosen(S)
<1>1. PICK f : Adds(f, v, S)
  BY AddsExists
<1>2. x \in S /\ f[S] = v[x] + f[S \ {x}]
  BY <1>1, AddsAt
<1> HIDE DEF x
<1>3. IsFiniteSet(S \ {x})
  BY FS_Subset
<1>4. PICK g : Adds(g, v, S \ {x})
  BY <1>3, AddsExists
<1>5. f[S \ {x}] = g[S \ {x}]
  BY <1>1, <1>3, <1>4, AddsAgree
<1>6. SumFunctionOnSet(v, S) = f[S] /\ SumFunctionOnSet(v, S \ {x}) = g[S \ {x}]
  BY <1>1, <1>3, <1>4, SumIs
<1> QED
  BY <1>2, <1>5, <1>6

\* A sum of integers is an integer, of naturals a natural.
THEOREM SumType ==
  ASSUME NEW S, IsFiniteSet(S), NEW v, \A x \in S : v[x] \in Int
  PROVE  /\ SumFunctionOnSet(v, S) \in Int
         /\ (\A x \in S : v[x] \in Nat) => SumFunctionOnSet(v, S) \in Nat
<1> DEFINE G == {T \in SUBSET S :
                   /\ SumFunctionOnSet(v, T) \in Int
                   /\ (\A x \in S : v[x] \in Nat) => SumFunctionOnSet(v, T) \in Nat}
<1>1. ASSUME NEW T \in SUBSET S, \A U \in SUBSET T : U # T => U \in G
      PROVE  T \in G
  <2>1. CASE T = {}
    BY <2>1, SumEmpty
  <2>2. CASE T # {}
    <3>1. IsFiniteSet(T)
      BY FS_Subset
    <3>2. PICK x \in T : SumFunctionOnSet(v, T) = v[x] + SumFunctionOnSet(v, T \ {x})
      BY <2>2, <3>1, SumChosen
    <3>3. T \ {x} \in G
      BY <1>1
    <3> QED BY <3>2, <3>3
  <2> QED
    BY <2>1, <2>2
<1>2. S \in G
  <2> HIDE DEF G
  <2> QED BY <1>1, SetInduction
<1> QED
  BY <1>2

\* Any element can be taken out.
THEOREM SumWithout ==
  ASSUME NEW S, IsFiniteSet(S), NEW v, \A x \in S : v[x] \in Int, NEW y \in S
  PROVE  SumFunctionOnSet(v, S) = v[y] + SumFunctionOnSet(v, S \ {y})
<1> DEFINE G == {T \in SUBSET S :
                   \A z \in T : SumFunctionOnSet(v, T) = v[z] + SumFunctionOnSet(v, T \ {z})}
<1>1. ASSUME NEW T \in SUBSET S, \A U \in SUBSET T : U # T => U \in G, NEW z \in T
      PROVE  SumFunctionOnSet(v, T) = v[z] + SumFunctionOnSet(v, T \ {z})
  <2>1. IsFiniteSet(T)
    BY FS_Subset
  <2>2. PICK x \in T : SumFunctionOnSet(v, T) = v[x] + SumFunctionOnSet(v, T \ {x})
    BY <2>1, SumChosen
  <2>3. CASE x = z
    BY <2>2, <2>3
  <2>4. CASE x # z
    <3> DEFINE rest == (T \ {x}) \ {z}
    <3>1. T \ {x} \in G /\ T \ {z} \in G
      BY <1>1
    <3>2. SumFunctionOnSet(v, T \ {x}) = v[z] + SumFunctionOnSet(v, rest)
      BY <3>1, <2>4
    <3>3. (T \ {z}) \ {x} = rest
      OBVIOUS
    <3>4. SumFunctionOnSet(v, T \ {z}) = v[x] + SumFunctionOnSet(v, rest)
      BY <3>1, <3>3, <2>4
    <3>5. SumFunctionOnSet(v, rest) \in Int
      <4>1. IsFiniteSet(rest) /\ \A t \in rest : v[t] \in Int
        BY <2>1, FS_Subset
      <4> QED BY <4>1, SumType
    <3>6. v[x] \in Int /\ v[z] \in Int
      OBVIOUS
    <3> QED BY <2>2, <3>2, <3>4, <3>5, <3>6
  <2> QED
    BY <2>3, <2>4
<1>2. S \in G
  <2>1. \A T \in SUBSET S : (\A U \in SUBSET T : U # T => U \in G) => T \in G
    BY <1>1
  <2> HIDE DEF G
  <2> QED BY <2>1, SetInduction
<1> QED
  BY <1>2

\* Zeros add up to zero.
THEOREM SumZero ==
  ASSUME NEW S, IsFiniteSet(S), NEW v, \A x \in S : v[x] = 0
  PROVE  SumFunctionOnSet(v, S) = 0
<1> DEFINE G == {T \in SUBSET S : SumFunctionOnSet(v, T) = 0}
<1>1. ASSUME NEW T \in SUBSET S, \A U \in SUBSET T : U # T => U \in G
      PROVE  T \in G
  <2>1. CASE T = {}
    BY <2>1, SumEmpty
  <2>2. CASE T # {}
    <3>1. IsFiniteSet(T)
      BY FS_Subset
    <3>2. PICK x \in T : SumFunctionOnSet(v, T) = v[x] + SumFunctionOnSet(v, T \ {x})
      BY <2>2, <3>1, SumChosen
    <3>3. T \ {x} \in G
      BY <1>1
    <3> QED BY <3>2, <3>3
  <2> QED
    BY <2>1, <2>2
<1>2. S \in G
  <2> HIDE DEF G
  <2> QED BY <1>1, SetInduction
<1> QED
  BY <1>2

\* One summand changes.
THEOREM SumChange ==
  ASSUME NEW S, IsFiniteSet(S), NEW v, NEW w, NEW y \in S,
         \A x \in S : v[x] \in Int /\ w[x] \in Int,
         \A x \in S \ {y} : w[x] = v[x]
  PROVE  SumFunctionOnSet(w, S) = SumFunctionOnSet(v, S) + w[y] - v[y]
<1>1. IsFiniteSet(S \ {y})
  BY FS_Subset
<1>2. SumFunctionOnSet(w, S \ {y}) = SumFunctionOnSet(v, S \ {y})
  BY <1>1, SumSame
<1>3. SumFunctionOnSet(v, S \ {y}) \in Int
  BY <1>1, SumType
<1>4. SumFunctionOnSet(v, S) = v[y] + SumFunctionOnSet(v, S \ {y})
  BY SumWithout
<1>5. SumFunctionOnSet(w, S) = w[y] + SumFunctionOnSet(w, S \ {y})
  BY SumWithout
<1>6. v[y] \in Int /\ w[y] \in Int
  OBVIOUS
<1> QED
  BY <1>2, <1>3, <1>4, <1>5, <1>6

\* One summand more.
THEOREM SumWith ==
  ASSUME NEW S, IsFiniteSet(S), NEW v, NEW w, NEW y, y \notin S, w[y] \in Int,
         \A x \in S : v[x] \in Int /\ w[x] = v[x]
  PROVE  SumFunctionOnSet(w, S \cup {y}) = SumFunctionOnSet(v, S) + w[y]
<1> DEFINE T == S \cup {y}
<1>1. IsFiniteSet(T)
  BY FS_AddElement
<1>2. T \ {y} = S /\ y \in T /\ \A x \in T : w[x] \in Int
  OBVIOUS
<1> HIDE DEF T
<1>3. SumFunctionOnSet(w, T) = w[y] + SumFunctionOnSet(w, S)
  BY <1>1, <1>2, SumWithout
<1>4. SumFunctionOnSet(w, S) = SumFunctionOnSet(v, S) /\ SumFunctionOnSet(v, S) \in Int
  BY SumSame, SumType
<1> QED
  BY <1>3, <1>4 DEF T

\* One element more of the same summands.
THEOREM SumOneMore ==
  ASSUME NEW S, IsFiniteSet(S), NEW v, \A x \in S : v[x] \in Int, NEW y, y \notin S, v[y] \in Int
  PROVE  SumFunctionOnSet(v, S \cup {y}) = SumFunctionOnSet(v, S) + v[y]
<1> DEFINE T == S \cup {y}
<1>1. IsFiniteSet(T)
  BY FS_AddElement
<1>2. T \ {y} = S /\ y \in T /\ \A x \in T : v[x] \in Int
  OBVIOUS
<1> HIDE DEF T
<1>3. SumFunctionOnSet(v, T) = v[y] + SumFunctionOnSet(v, S)
  BY <1>1, <1>2, SumWithout
<1>4. SumFunctionOnSet(v, S) \in Int
  BY SumType
<1> QED
  BY <1>3, <1>4 DEF T

\* Smaller summands, or fewer of them, add up to less.
THEOREM SumLeq ==
  ASSUME NEW S, IsFiniteSet(S), NEW v, NEW w,
         \A x \in S : v[x] \in Int /\ w[x] \in Int /\ v[x] <= w[x]
  PROVE  SumFunctionOnSet(v, S) <= SumFunctionOnSet(w, S)
<1> DEFINE G == {T \in SUBSET S : SumFunctionOnSet(v, T) <= SumFunctionOnSet(w, T)}
<1>1. ASSUME NEW T \in SUBSET S, \A U \in SUBSET T : U # T => U \in G
      PROVE  T \in G
  <2>1. CASE T = {}
    BY <2>1, SumEmpty
  <2>2. CASE T # {}
    <3>1. PICK x \in T : TRUE
      BY <2>2
    <3>2. IsFiniteSet(T) /\ IsFiniteSet(T \ {x})
      BY FS_Subset
    <3>3. SumFunctionOnSet(v, T) = v[x] + SumFunctionOnSet(v, T \ {x})
      BY <3>2, SumWithout
    <3>4. SumFunctionOnSet(w, T) = w[x] + SumFunctionOnSet(w, T \ {x})
      BY <3>2, SumWithout
    <3>5. SumFunctionOnSet(v, T \ {x}) \in Int /\ SumFunctionOnSet(w, T \ {x}) \in Int
      BY <3>2, SumType
    <3>6. SumFunctionOnSet(v, T \ {x}) <= SumFunctionOnSet(w, T \ {x})
      BY <1>1
    <3> QED BY <3>3, <3>4, <3>5, <3>6
  <2> QED
    BY <2>1, <2>2
<1>2. S \in G
  <2> HIDE DEF G
  <2> QED BY <1>1, SetInduction
<1> QED
  BY <1>2

\* Naturals over a smaller set add up to less.
THEOREM SumSubset ==
  ASSUME NEW S, IsFiniteSet(S), NEW v, \A x \in S : v[x] \in Nat, NEW P \in SUBSET S
  PROVE  SumFunctionOnSet(v, P) <= SumFunctionOnSet(v, S)
<1> DEFINE G == {T \in SUBSET S :
                   \A Q \in SUBSET T : SumFunctionOnSet(v, Q) <= SumFunctionOnSet(v, T)}
<1>1. ASSUME NEW T \in SUBSET S, \A U \in SUBSET T : U # T => U \in G, NEW Q \in SUBSET T
      PROVE  SumFunctionOnSet(v, Q) <= SumFunctionOnSet(v, T)
  <2>1. IsFiniteSet(T) /\ SumFunctionOnSet(v, T) \in Int
    BY FS_Subset, SumType
  <2>2. CASE Q = T
    BY <2>1, <2>2
  <2>3. CASE Q # T
    <3>1. PICK x \in T : x \notin Q
      BY <2>3
    <3>2. IsFiniteSet(T \ {x}) /\ IsFiniteSet(Q)
      BY <2>1, FS_Subset
    <3>3. SumFunctionOnSet(v, T) = v[x] + SumFunctionOnSet(v, T \ {x})
      BY <2>1, SumWithout
    <3>4. SumFunctionOnSet(v, T \ {x}) \in Int /\ SumFunctionOnSet(v, Q) \in Int
      BY <3>2, SumType
    <3>5. SumFunctionOnSet(v, Q) <= SumFunctionOnSet(v, T \ {x})
      BY <1>1, <3>1
    <3>6. v[x] \in Nat
      OBVIOUS
    <3> QED BY <3>3, <3>4, <3>5, <3>6
  <2> QED
    BY <2>2, <2>3
<1>2. S \in G
  <2>1. \A T \in SUBSET S : (\A U \in SUBSET T : U # T => U \in G) => T \in G
    BY <1>1
  <2> HIDE DEF G
  <2> QED BY <2>1, SetInduction
<1> QED
  BY <1>2

\* A sum over more, of more, is larger.
LEMMA SumGrows ==
  ASSUME NEW f, NEW g, IsFiniteSet(DOMAIN g), DOMAIN f \subseteq DOMAIN g,
         \A x \in DOMAIN g : g[x] \in Nat, \A x \in DOMAIN f : f[x] \in Nat /\ f[x] <= g[x]
  PROVE  SumFunction(f) \in Nat /\ SumFunction(g) \in Nat /\ SumFunction(f) <= SumFunction(g)
<1>1. PICK D : D = DOMAIN f
  OBVIOUS
<1>2. PICK E : E = DOMAIN g
  OBVIOUS
<1>3. IsFiniteSet(E) /\ IsFiniteSet(D) /\ D \in SUBSET E
  BY <1>1, <1>2, FS_Subset
<1>4. /\ \A x \in E : g[x] \in Nat /\ g[x] \in Int
      /\ \A x \in D : f[x] \in Nat /\ f[x] \in Int /\ g[x] \in Int /\ f[x] <= g[x]
  BY <1>1, <1>2
<1>5. SumFunctionOnSet(f, D) \in Nat /\ SumFunctionOnSet(g, E) \in Nat /\ SumFunctionOnSet(g, D) \in Int
  <2>1. SumFunctionOnSet(f, D) \in Nat
    BY ONLY <1>3, <1>4, SumType
  <2>2. SumFunctionOnSet(g, E) \in Nat
    BY ONLY <1>3, <1>4, SumType
  <2>3. SumFunctionOnSet(g, D) \in Int
    BY ONLY <1>3, <1>4, SumType
  <2> QED BY <2>1, <2>2, <2>3
<1>6. SumFunctionOnSet(f, D) <= SumFunctionOnSet(g, D)
  BY ONLY <1>3, <1>4, SumLeq
<1>7. SumFunctionOnSet(g, D) <= SumFunctionOnSet(g, E)
  BY ONLY <1>3, <1>4, SumSubset
<1>8. SumFunctionOnSet(f, D) <= SumFunctionOnSet(g, E)
  BY <1>5, <1>6, <1>7
<1> QED BY <1>1, <1>2, <1>5, <1>8 DEF SumFunction

\* A finite set has an element of the largest value.
LEMMA LargestValue ==
  ASSUME NEW S, IsFiniteSet(S), S # {}, NEW v, \A x \in S : v[x] \in Int
  PROVE  \E m \in S : \A x \in S : v[x] <= v[m]
<1> DEFINE G == {T \in SUBSET S : T # {} => \E m \in T : \A x \in T : v[x] <= v[m]}
<1>1. ASSUME NEW T \in SUBSET S, \A U \in SUBSET T : U # T => U \in G
      PROVE  T \in G
  <2> SUFFICES ASSUME T # {} PROVE \E m \in T : \A x \in T : v[x] <= v[m]
    OBVIOUS
  <2>1. PICK y \in T : TRUE
    OBVIOUS
  <2>2. CASE T \ {y} = {}
    <3>1. \A x \in T : v[x] <= v[y]
      BY <2>2
    <3> QED BY <3>1
  <2>3. CASE T \ {y} # {}
    <3>0. T \ {y} \in G
      BY <1>1, <2>1
    <3>1. PICK m \in T \ {y} : \A x \in T \ {y} : v[x] <= v[m]
      BY <2>3, <3>0
    <3>2. v[m] \in Int /\ v[y] \in Int /\ \A x \in T : v[x] \in Int
      OBVIOUS
    <3>3. CASE v[y] <= v[m]
      <4>1. \A x \in T : v[x] <= v[m]
        BY <3>1, <3>3
      <4> QED BY <4>1
    <3>4. CASE v[m] < v[y]
      <4>1. \A x \in T : v[x] <= v[y]
        BY <3>1, <3>2, <3>4
      <4> QED BY <4>1
    <3> QED BY <3>2, <3>3, <3>4
  <2> QED BY <2>2, <2>3
<1>2. S \in G
  <2>1. \A T \in SUBSET S : (\A U \in SUBSET T : U # T => U \in G) => T \in G
    BY <1>1
  <2> HIDE DEF G
  <2> QED BY <2>1, SetInduction
<1> QED BY <1>2

\* What holds of zero, and of the next number with each, holds up to N.
LEMMA UpTo ==
  ASSUME NEW N \in Nat, NEW G, 0 \in G, \A n \in 0 .. N : (n \in G /\ n + 1 <= N) => n + 1 \in G
  PROVE  \A n \in 0 .. N : n \in G
<1> SUFFICES ASSUME NEW k \in 0 .. N, k \notin G PROVE FALSE
  OBVIOUS
<1> DEFINE S == {n \in 0 .. N : n \notin G}
           v == [n \in S |-> -n]
<1>1. IsFiniteSet(0 .. N)
  BY FS_Interval
<1>2. IsFiniteSet(S) /\ S # {}
  BY <1>1, FS_Subset
<1>3. \A n \in S : v[n] \in Int
  OBVIOUS
<1> HIDE DEF v
<1>4. PICK m \in S : \A n \in S : v[n] <= v[m]
  BY <1>2, <1>3, LargestValue
<1> USE DEF v
<1>5. \A n \in S : m <= n
  BY <1>4
<1>6. m # 0 /\ m \in 0 .. N
  OBVIOUS
<1>7. m - 1 \in 0 .. N /\ m - 1 \notin S
  BY <1>5, <1>6
<1> QED BY <1>6, <1>7

\* Sums are added summand by summand.
LEMMA SumAdd ==
  ASSUME NEW S, IsFiniteSet(S), NEW v, NEW w, NEW z,
         \A x \in S : v[x] \in Int /\ w[x] \in Int /\ z[x] = v[x] + w[x]
  PROVE  SumFunctionOnSet(z, S) = SumFunctionOnSet(v, S) + SumFunctionOnSet(w, S)
<1> DEFINE G == {T \in SUBSET S : SumFunctionOnSet(z, T) = SumFunctionOnSet(v, T) + SumFunctionOnSet(w, T)}
<1>1. ASSUME NEW T \in SUBSET S, \A U \in SUBSET T : U # T => U \in G
      PROVE  T \in G
  <2>1. CASE T = {}
    BY <2>1, SumEmpty
  <2>2. CASE T # {}
    <3>1. PICK x \in T : TRUE
      BY <2>2
    <3>2. IsFiniteSet(T) /\ IsFiniteSet(T \ {x})
      BY FS_Subset
    <3>3. SumFunctionOnSet(v, T) = v[x] + SumFunctionOnSet(v, T \ {x})
      BY <3>2, SumWithout
    <3>4. SumFunctionOnSet(w, T) = w[x] + SumFunctionOnSet(w, T \ {x})
      BY <3>2, SumWithout
    <3>5. SumFunctionOnSet(z, T) = z[x] + SumFunctionOnSet(z, T \ {x})
      BY <3>2, SumWithout
    <3>6. SumFunctionOnSet(v, T \ {x}) \in Int /\ SumFunctionOnSet(w, T \ {x}) \in Int
      BY <3>2, SumType
    <3>7. SumFunctionOnSet(z, T \ {x}) = SumFunctionOnSet(v, T \ {x}) + SumFunctionOnSet(w, T \ {x})
      BY <1>1
    <3> QED BY <3>3, <3>4, <3>5, <3>6, <3>7
  <2> QED
    BY <2>1, <2>2
<1>2. S \in G
  <2> HIDE DEF G
  <2> QED BY <1>1, SetInduction
<1> QED
  BY <1>2

\* Zeros can be left out.
LEMMA SumSupport ==
  ASSUME NEW S, IsFiniteSet(S), NEW P \in SUBSET S, NEW v,
         \A x \in S : v[x] \in Int, \A x \in S \ P : v[x] = 0
  PROVE  SumFunctionOnSet(v, S) = SumFunctionOnSet(v, P)
<1> DEFINE G == {T \in SUBSET S : SumFunctionOnSet(v, T) = SumFunctionOnSet(v, T \cap P)}
<1>1. ASSUME NEW T \in SUBSET S, \A U \in SUBSET T : U # T => U \in G
      PROVE  T \in G
  <2>1. CASE T \subseteq P
    <3>1. T \cap P = T
      BY <2>1
    <3> QED BY <3>1
  <2>2. CASE ~(T \subseteq P)
    <3>1. PICK x \in T : x \notin P
      BY <2>2
    <3>2. IsFiniteSet(T) /\ IsFiniteSet(T \ {x})
      BY FS_Subset
    <3>3. SumFunctionOnSet(v, T) = v[x] + SumFunctionOnSet(v, T \ {x})
      BY <3>2, SumWithout
    <3>4. v[x] = 0 /\ (T \ {x}) \cap P = T \cap P
      BY <3>1
    <3>5. SumFunctionOnSet(v, T \ {x}) \in Int
      BY <3>2, SumType
    <3>6. SumFunctionOnSet(v, T \ {x}) = SumFunctionOnSet(v, T \cap P)
      BY <1>1, <3>4
    <3> QED BY <3>3, <3>4, <3>5, <3>6
  <2> QED
    BY <2>1, <2>2
<1>2. S \in G
  <2> HIDE DEF G
  <2> QED BY <1>1, SetInduction
<1>3. S \cap P = P
  OBVIOUS
<1> QED
  BY <1>2, <1>3

\* The summands under other names.
LEMMA SumRename ==
  ASSUME NEW S, IsFiniteSet(S), NEW v, \A x \in S : v[x] \in Int, NEW T, NEW w,
         NEW h \in [S -> T], \A x, y \in S : h[x] = h[y] => x = y, \A t \in T : \E x \in S : h[x] = t,
         \A x \in S : v[x] = w[h[x]]
  PROVE  IsFiniteSet(T) /\ SumFunctionOnSet(v, S) = SumFunctionOnSet(w, T)
<1> DEFINE Im(U) == {h[x] : x \in U}
           G == {U \in SUBSET S : IsFiniteSet(Im(U)) /\ SumFunctionOnSet(v, U) = SumFunctionOnSet(w, Im(U))}
<1>1. ASSUME NEW U \in SUBSET S, \A V \in SUBSET U : V # U => V \in G
      PROVE  U \in G
  <2>1. CASE U = {}
    <3>1. Im(U) = {}
      BY <2>1
    <3> QED BY <2>1, <3>1, SumEmpty, FS_EmptySet
  <2>2. CASE U # {}
    <3>1. PICK x \in U : TRUE
      BY <2>2
    <3>2. IsFiniteSet(U) /\ IsFiniteSet(U \ {x})
      BY FS_Subset
    <3>3. SumFunctionOnSet(v, U) = v[x] + SumFunctionOnSet(v, U \ {x})
      BY <3>2, SumWithout
    <3>4. PICK J : J = Im(U \ {x})
      OBVIOUS
    <3>5. IsFiniteSet(J) /\ SumFunctionOnSet(v, U \ {x}) = SumFunctionOnSet(w, J)
      BY <1>1, <3>4
    <3>6. h[x] \notin J /\ Im(U) = J \cup {h[x]}
      BY <3>4
    <3>7. \A t \in J : w[t] \in Int
      BY <3>4
    <3>8. w[h[x]] \in Int
      OBVIOUS
    <3>9. SumFunctionOnSet(w, J \cup {h[x]}) = SumFunctionOnSet(w, J) + w[h[x]]
      BY <3>5, <3>6, <3>7, <3>8, SumOneMore
    <3>10. SumFunctionOnSet(w, J) \in Int
      BY <3>5, <3>7, SumType
    <3>11. IsFiniteSet(J \cup {h[x]})
      BY <3>5, FS_AddElement
    <3>12. v[x] = w[h[x]]
      OBVIOUS
    <3>13. SumFunctionOnSet(v, U) = SumFunctionOnSet(w, J \cup {h[x]})
      BY ONLY <3>3, <3>5, <3>8, <3>9, <3>10, <3>12
    <3> QED BY <3>6, <3>11, <3>13
  <2> QED
    BY <2>1, <2>2
<1>2. S \in G
  <2> HIDE DEF G
  <2> QED BY <1>1, SetInduction
<1>3. Im(S) = T
  OBVIOUS
<1> QED
  BY <1>2, <1>3

\* Rows first or columns first.
LEMMA SumExchange ==
  ASSUME NEW A, IsFiniteSet(A), NEW B, IsFiniteSet(B), NEW f,
         \A a \in A, b \in B : f[a][b] \in Int
  PROVE  SumFunctionOnSet([a \in A |-> SumFunctionOnSet(f[a], B)], A)
           = SumFunctionOnSet([b \in B |-> SumFunctionOnSet([a \in A |-> f[a][b]], A)], B)
<1> DEFINE row == [a \in A |-> SumFunctionOnSet(f[a], B)]
           col(U) == [b \in B |-> SumFunctionOnSet([a \in A |-> f[a][b]], U)]
           G == {U \in SUBSET A : SumFunctionOnSet(row, U) = SumFunctionOnSet(col(U), B)}
<1>0. \A U \in SUBSET A : IsFiniteSet(U)
  BY FS_Subset
<1>1. \A a \in A : row[a] \in Int
  <2> TAKE a \in A
  <2>1. \A b \in B : f[a][b] \in Int
    OBVIOUS
  <2>2. PICK g : g = f[a]
    OBVIOUS
  <2>3. SumFunctionOnSet(g, B) \in Int
    BY <2>1, <2>2, SumType
  <2> QED BY <2>2, <2>3
<1>2. \A U \in SUBSET A : \A b \in B : col(U)[b] \in Int
  <2> TAKE U \in SUBSET A
  <2> TAKE b \in B
  <2>1. PICK g : g = [a \in A |-> f[a][b]]
    OBVIOUS
  <2>2. \A a \in U : g[a] \in Int
    BY <2>1
  <2>3. SumFunctionOnSet(g, U) \in Int
    BY <1>0, <2>2, SumType
  <2> QED BY <2>1, <2>3
<1>3. ASSUME NEW U \in SUBSET A, \A V \in SUBSET U : V # U => V \in G
      PROVE  U \in G
  <2>1. CASE U = {}
    <3>1. \A b \in B : col(U)[b] = 0
      BY <2>1, SumEmpty
    <3>2. PICK g : g = col(U)
      OBVIOUS
    <3>3. SumFunctionOnSet(g, B) = 0
      BY <3>1, <3>2, SumZero
    <3> QED BY <2>1, <3>2, <3>3, SumEmpty
  <2>2. CASE U # {}
    <3>1. PICK x \in U : TRUE
      BY <2>2
    <3>2. U \ {x} \in SUBSET A /\ IsFiniteSet(U) /\ IsFiniteSet(U \ {x})
      BY <1>0
    <3>3. PICK r : r = row
      OBVIOUS
    <3>4. SumFunctionOnSet(r, U) = r[x] + SumFunctionOnSet(r, U \ {x})
      BY <1>1, <3>2, <3>3, SumWithout
    <3>5. SumFunctionOnSet(r, U \ {x}) = SumFunctionOnSet(col(U \ {x}), B)
      BY <1>3, <3>3
    <3>6. PICK g : g = col(U)
      OBVIOUS
    <3>7. PICK h : h = col(U \ {x})
      OBVIOUS
    <3>8. ASSUME NEW b \in B PROVE g[b] = f[x][b] + h[b]
      <4>1. PICK k : k = [a \in A |-> f[a][b]]
        OBVIOUS
      <4>2. \A a \in U : k[a] \in Int
        BY <4>1
      <4>3. SumFunctionOnSet(k, U) = k[x] + SumFunctionOnSet(k, U \ {x})
        BY <3>2, <4>2, SumWithout
      <4> QED BY <3>6, <3>7, <4>1, <4>3
    <3>9. \A b \in B : f[x][b] \in Int /\ h[b] \in Int
      BY <1>2, <3>2, <3>7
    <3>10. PICK e : e = f[x]
      OBVIOUS
    <3>11. \A b \in B : e[b] \in Int /\ h[b] \in Int /\ g[b] = e[b] + h[b]
      BY <3>8, <3>9, <3>10
    <3>12. SumFunctionOnSet(g, B) = SumFunctionOnSet(e, B) + SumFunctionOnSet(h, B)
      BY ONLY <3>11, IsFiniteSet(B), SumAdd
    <3>13. r[x] = SumFunctionOnSet(e, B)
      BY <3>3, <3>10
    <3>14. SumFunctionOnSet(r, U) = SumFunctionOnSet(g, B)
      BY ONLY <3>4, <3>5, <3>7, <3>12, <3>13
    <3> QED BY ONLY <3>3, <3>6, <3>14 DEF G
  <2> QED
    BY <2>1, <2>2
<1>4. A \in G
  <2> HIDE DEF G
  <2> QED BY <1>3, <1>0, SetInduction
<1> QED
  BY <1>4

\* The summands in groups, k the group of each.
LEMMA SumGroups ==
  ASSUME NEW S, IsFiniteSet(S), NEW T, IsFiniteSet(T), NEW v, NEW k,
         \A x \in S : v[x] \in Int /\ k[x] \in T
  PROVE  SumFunctionOnSet(v, S) = SumFunctionOnSet([t \in T |-> SumFunctionOnSet(v, {x \in S : k[x] = t})], T)
<1> DEFINE f == [x \in S |-> [t \in T |-> IF k[x] = t THEN v[x] ELSE 0]]
           row == [x \in S |-> SumFunctionOnSet(f[x], T)]
           col == [t \in T |-> SumFunctionOnSet([x \in S |-> f[x][t]], S)]
           group == [t \in T |-> SumFunctionOnSet(v, {x \in S : k[x] = t})]
<1>1. \A x \in S, t \in T : f[x][t] \in Int
  OBVIOUS
<1>2. SumFunctionOnSet(row, S) = SumFunctionOnSet(col, T)
  <2> HIDE DEF f
  <2> QED BY <1>1, SumExchange
<1>3. ASSUME NEW x \in S PROVE row[x] = v[x]
  <2>1. PICK g : g = f[x]
    OBVIOUS
  <2>2. \A t \in T : g[t] \in Int
    BY <1>1, <2>1
  <2>3. SumFunctionOnSet(g, T) = g[k[x]] + SumFunctionOnSet(g, T \ {k[x]})
    BY <2>2, SumWithout
  <2>4. \A t \in T \ {k[x]} : g[t] = 0
    BY <2>1
  <2>5. IsFiniteSet(T \ {k[x]})
    BY FS_Subset
  <2>6. SumFunctionOnSet(g, T \ {k[x]}) = 0
    BY <2>4, <2>5, SumZero
  <2>7. g[k[x]] = v[x] /\ v[x] \in Int
    BY <2>1
  <2>8. SumFunctionOnSet(g, T) = v[x]
    BY ONLY <2>3, <2>6, <2>7
  <2> QED BY <2>1, <2>8
<1>4. ASSUME NEW t \in T PROVE col[t] = group[t]
  <2>1. PICK g : g = [x \in S |-> f[x][t]]
    OBVIOUS
  <2>2. PICK P : P = {x \in S : k[x] = t}
    OBVIOUS
  <2>3. P \in SUBSET S /\ IsFiniteSet(P)
    BY <2>2, FS_Subset
  <2>4. \A x \in S : g[x] \in Int /\ (x \in P => g[x] = v[x]) /\ (x \notin P => g[x] = 0)
    BY <2>1, <2>2
  <2>5. SumFunctionOnSet(g, S) = SumFunctionOnSet(g, P)
    BY ONLY IsFiniteSet(S), <2>3, <2>4, SumSupport
  <2>6. SumFunctionOnSet(g, P) = SumFunctionOnSet(v, P)
    BY ONLY <2>3, <2>4, SumSame
  <2> QED BY <2>1, <2>2, <2>5, <2>6
<1>5. PICK r, c, u : r = row /\ c = col /\ u = group
  OBVIOUS
<1>6. SumFunctionOnSet(r, S) = SumFunctionOnSet(v, S)
  <2>1. \A x \in S : r[x] = v[x]
    BY <1>3, <1>5
  <2> QED BY ONLY <2>1, IsFiniteSet(S), SumSame
<1>7. SumFunctionOnSet(c, T) = SumFunctionOnSet(u, T)
  <2>1. \A t \in T : c[t] = u[t]
    BY <1>4, <1>5
  <2> QED BY ONLY <2>1, IsFiniteSet(T), SumSame
<1> QED BY <1>2, <1>5, <1>6, <1>7

\* A sequence changed row by row.
LEMMA RowByRow ==
  ASSUME NEW S, NEW T, NEW s \in Seq(S), NEW f, f = [i \in DOMAIN s |-> f[i]],
         \A i \in DOMAIN s : f[i] \in T
  PROVE  f \in Seq(T) /\ Len(f) = Len(s) /\ DOMAIN f = DOMAIN s
<1>1. Len(s) \in Nat /\ DOMAIN s = 1 .. Len(s)
  BY LenProperties
<1>2. f \in [1 .. Len(s) -> T]
  BY <1>1
<1>3. f \in Seq(T)
  BY <1>1, <1>2, SeqDef
<1>4. Len(f) = Len(s)
  BY <1>1, <1>2, <1>3, LenProperties
<1> QED BY <1>1, <1>3, <1>4, LenProperties

\* A sequence with one row more.
LEMMA Appended ==
  ASSUME NEW S, NEW s \in Seq(S), NEW x \in S
  PROVE  /\ Append(s, x) \in Seq(S) /\ Len(Append(s, x)) = Len(s) + 1 /\ Len(s) \in Nat
         /\ DOMAIN s = 1 .. Len(s) /\ DOMAIN Append(s, x) = 1 .. Len(s) + 1
         /\ \A i \in 1 .. Len(s) : Append(s, x)[i] = s[i]
         /\ Append(s, x)[Len(s) + 1] = x
BY AppendProperties, LenProperties

================================================================================
