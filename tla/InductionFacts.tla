--------------------------- MODULE InductionFacts ---------------------------
(***************************************************************************)
(* Induction, and functions defined by recursion, over the numbers up to a *)
(* bound.  The sets and functions to reason about are parameters, so that  *)
(* the facts can be cited for any formula.                                 *)
(***************************************************************************)
EXTENDS Integers, FiniteSetTheorems, WellFoundedInduction, TLAPS

\* A set of numbers has a least one.
LEMMA LeastElement ==
  ASSUME NEW S \in SUBSET Nat, S # {}
  PROVE  \E m \in S : \A n \in S : m <= n
<1> DEFINE T == {1 .. n : n \in S}
<1>1. T \subseteq FiniteSubsetsOf(Nat)
  <2> SUFFICES ASSUME NEW n \in S PROVE 1 .. n \in FiniteSubsetsOf(Nat)
    OBVIOUS
  <2>1. n \in Int /\ 1 \in Int
    OBVIOUS
  <2>2. IsFiniteSet(1 .. n)
    BY <2>1, FS_Interval
  <2>3. 1 .. n \subseteq Nat
    BY <2>1
  <2> QED BY <2>2, <2>3 DEF FiniteSubsetsOf
<1>2. T # {}
  OBVIOUS
<1>3. PICK X \in T : \A Y \in T : ~(<<Y, X>> \in StrictSubsetOrdering(Nat))
  <2> HIDE DEF T
  <2> QED BY <1>1, <1>2, FS_StrictSubsetOrderingWellFounded, WFMin
<1>4. PICK m \in S : X = 1 .. m
  OBVIOUS
<1>5. ASSUME NEW n \in S, ~(m <= n)
      PROVE  FALSE
  <2>1. n \in Nat /\ m \in Nat /\ n < m
    BY <1>5
  <2>2. 1 .. n \in T
    OBVIOUS
  <2>3. 1 .. n \subseteq 1 .. m /\ m \in 1 .. m /\ m \notin 1 .. n
    BY <2>1
  <2>4. 1 .. n \in SUBSET Nat /\ 1 .. m \in SUBSET Nat
    BY <2>1
  <2>5. <<1 .. n, 1 .. m>> \in StrictSubsetOrdering(Nat)
    BY <2>3, <2>4 DEF StrictSubsetOrdering
  <2> QED BY <1>3, <1>4, <2>2, <2>5
<1> QED BY <1>5

\* Induction up to a bound: a set holds every number up to N if it holds the
\* first and, with any, the next.
LEMMA UpTo ==
  ASSUME NEW N \in Nat, NEW S, 0 \in S,
         \A n \in 1 .. N : n - 1 \in S => n \in S
  PROVE  0 .. N \subseteq S
<1> DEFINE bad == (0 .. N) \ S
<1> SUFFICES ASSUME bad # {} PROVE FALSE
  OBVIOUS
<1>1. bad \in SUBSET Nat
  OBVIOUS
<1>2. PICK m \in bad : \A n \in bad : m <= n
  <2> HIDE DEF bad
  <2> QED BY <1>1, LeastElement
<1>3. m \in 1 .. N /\ m - 1 \in 0 .. N
  BY <1>2
<1>4. m - 1 \in S
  BY <1>2, <1>3
<1> QED BY <1>2, <1>3, <1>4

\* f is defined by recursion over 0 .. n, with a step for each number.
Recursive(f, n, base, F) ==
    f = [i \in 0 .. n |-> IF i = 0 THEN base ELSE F[i][f[i - 1]]]

\* A recursion whose steps stay in a set defines a function into that set.
LEMMA RecursiveExists ==
  ASSUME NEW N \in Nat, NEW T, NEW base \in T, NEW F \in [1 .. N -> [T -> T]]
  PROVE  \E f \in [0 .. N -> T] : Recursive(f, N, base, F)
<1> DEFINE S == {n \in 0 .. N : \E f \in [0 .. n -> T] : Recursive(f, n, base, F)}
<1>1. 0 \in S
  <2> DEFINE g == [i \in 0 .. 0 |-> base]
  <2>1. g \in [0 .. 0 -> T]
    OBVIOUS
  <2>2. Recursive(g, 0, base, F)
    BY DEF Recursive
  <2> QED BY <2>1, <2>2
<1>2. ASSUME NEW n \in 1 .. N, n - 1 \in S
      PROVE  n \in S
  <2>1. PICK f \in [0 .. n - 1 -> T] : Recursive(f, n - 1, base, F)
    BY <1>2
  <2> DEFINE g == [i \in 0 .. n |-> IF i = n THEN F[n][f[n - 1]] ELSE f[i]]
  <2>2. n - 1 \in 0 .. n - 1 /\ F[n][f[n - 1]] \in T
    OBVIOUS
  <2>3. g \in [0 .. n -> T]
    BY <2>2
  <2>4. ASSUME NEW i \in 0 .. n
        PROVE  g[i] = IF i = 0 THEN base ELSE F[i][g[i - 1]]
    <3>1. CASE i = n
      BY <3>1
    <3>2. CASE i # n
      <4>1. i \in 0 .. n - 1 /\ g[i] = f[i]
        BY <3>2
      <4>2. f[i] = IF i = 0 THEN base ELSE F[i][f[i - 1]]
        BY <2>1, <4>1 DEF Recursive
      <4>3. i # 0 => i - 1 \in 0 .. n /\ g[i - 1] = f[i - 1]
        BY <4>1
      <4> QED BY <4>1, <4>2, <4>3
    <3> QED BY <3>1, <3>2
  <2>5. Recursive(g, n, base, F)
    BY <2>4 DEF Recursive
  <2> QED BY <2>3, <2>5
<1>3. 0 .. N \subseteq S
  <2> HIDE DEF S
  <2> QED BY <1>1, <1>2, UpTo
<1>4. N \in 0 .. N
  OBVIOUS
<1> QED BY <1>3, <1>4

\* f repeats G until nothing changes.
Repeats(f, T, G) == f = [x \in T |-> IF G[x] = x THEN x ELSE f[G[x]]]

\* There is such a function, whether or not repeating ends everywhere: it may give one
\* value for all from which the same fixed point is reached, and one for the others.
LEMMA RepeatsExists ==
  ASSUME NEW T, NEW G \in [T -> T]
  PROVE  \E f : Repeats(f, T, G)
<1> DEFINE Closed(F) == \A y \in F : G[y] \in F
           Reach(x) == {y \in T : \A F \in SUBSET T : x \in F /\ Closed(F) => y \in F}
           Ends(x) == {y \in Reach(x) : G[y] = y}
           End(x) == CHOOSE y : y \in Ends(x)
           f == [x \in T |-> End(x)]
<1>1. \A x \in T : x \in Reach(x) /\ Reach(x) \in SUBSET T /\ Closed(Reach(x))
  OBVIOUS
<1>2. ASSUME NEW x \in T
      PROVE  Reach(x) = {x} \cup Reach(G[x])
  <2>1. G[x] \in T
    OBVIOUS
  <2>2. Reach(G[x]) \subseteq Reach(x)
    OBVIOUS
  <2>3. {x} \cup Reach(G[x]) \in SUBSET T /\ Closed({x} \cup Reach(G[x]))
    <3>1. G[x] \in Reach(G[x]) /\ Reach(G[x]) \in SUBSET T /\ Closed(Reach(G[x]))
      BY <1>1, <2>1
    <3> HIDE DEF Reach
    <3> QED BY <3>1
  <2>4. Reach(x) \subseteq {x} \cup Reach(G[x])
    <3> DEFINE F == {x} \cup Reach(G[x])
    <3>1. F \in SUBSET T /\ Closed(F) /\ x \in F
      BY <2>3
    <3> HIDE DEF F, Closed
    <3>2. Reach(x) \subseteq F
      BY <3>1
    <3> QED BY <3>2 DEF F
  <2> HIDE DEF Reach
  <2> QED BY <1>1, <2>2, <2>4
<1> HIDE DEF Reach
<1>3. ASSUME NEW x \in T, G[x] = x
      PROVE  End(x) = x
  <2>1. Reach(x) = {x} \cup Reach(x)
    BY <1>2, <1>3
  <2>2. ASSUME NEW y \in Reach(x) PROVE y = x
    <3>1. {x} \in SUBSET T /\ Closed({x})
      BY <1>3
    <3> QED BY <2>2, <3>1 DEF Reach
  <2>3. Ends(x) = {x}
    BY <1>1, <1>3, <2>2
  <2> HIDE DEF Ends
  <2> QED BY <2>3
<1>4. ASSUME NEW x \in T, G[x] # x
      PROVE  End(x) = End(G[x])
  <2>1. Ends(x) = Ends(G[x])
    BY <1>2, <1>4
  <2> HIDE DEF Ends
  <2> QED BY <2>1
<1> HIDE DEF End
<1>5. ASSUME NEW x \in T
      PROVE  f[x] = IF G[x] = x THEN x ELSE f[G[x]]
  BY <1>3, <1>4
<1>6. f = [x \in T |-> f[x]]
  OBVIOUS
<1> HIDE DEF f
<1>7. Repeats(f, T, G)
  BY <1>5, <1>6 DEF Repeats
<1> QED BY <1>7

\* Where something shrinks while G changes anything, repeating ends at a fixed point, and
\* what G preserves still holds there.
LEMMA RepeatsEnd ==
  ASSUME NEW T, NEW G \in [T -> T], NEW f, Repeats(f, T, G),
         NEW Good \in SUBSET T, \A x \in Good : G[x] \in Good,
         NEW size \in [Good -> Nat], \A x \in Good : G[x] # x => size[G[x]] < size[x],
         NEW x \in Good
  PROVE  f[x] \in Good /\ G[f[x]] = f[x]
<1> DEFINE Right(y) == f[y] \in Good /\ G[f[y]] = f[y]
           bad == {y \in Good : ~Right(y)}
           sizes == {size[y] : y \in bad}
<1> SUFFICES ASSUME bad # {} PROVE FALSE
  OBVIOUS
<1>1. sizes \in SUBSET Nat /\ sizes # {}
  OBVIOUS
<1>2. PICK m \in sizes : \A n \in sizes : m <= n
  <2> HIDE DEF sizes
  <2> QED BY <1>1, LeastElement
<1>3. PICK y \in bad : m = size[y]
  BY <1>2
<1>4. f[y] = IF G[y] = y THEN y ELSE f[G[y]]
  <2>1. y \in T
    OBVIOUS
  <2> HIDE DEF bad
  <2> QED BY <2>1, Zenon DEF Repeats
<1>5. G[y] # y
  BY <1>4
<1>6. G[y] \in Good /\ size[G[y]] < size[y] /\ size[y] \in Nat /\ size[G[y]] \in Nat
  BY <1>5
<1>7. G[y] \notin bad
  <2>1. ASSUME G[y] \in bad PROVE FALSE
    <3>1. size[G[y]] \in sizes
      BY <2>1
    <3>2. m <= size[G[y]]
      BY <1>2, <3>1
    <3> QED BY <1>3, <1>6, <3>2
  <2> QED BY <2>1
<1>8. f[y] = f[G[y]]
  BY <1>4, <1>5
<1> QED BY <1>6, <1>7, <1>8
=============================================================================
