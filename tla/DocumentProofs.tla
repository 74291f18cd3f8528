--------------------------- MODULE DocumentProofs ---------------------------
(***************************************************************************)
(* Theorems of Document.  Folding a set of claims succeeds when the set    *)
(* lacks nothing that its claims refer to, because a claim refers to       *)
(* earlier ones only.  Every log, checkpoint and union of them is such a   *)
(* set, for each holds all that the editors of its claims had seen.        *)
(***************************************************************************)
EXTENDS Document, InductionFacts, SequenceTheorems

----------------------------------------------------------------------------
(* Folding.                                                                *)

\* Claims that are told apart by numbers up to a bound are finitely many.
LEMMA FiniteById ==
  ASSUME NEW L, NEW n \in Nat,
         \A c \in L : c.id \in 1 .. n,
         \A c, d \in L : c.id = d.id => c = d
  PROVE  IsFiniteSet(L)
<1> DEFINE f == [c \in L |-> c.id]
<1>1. f \in Injection(L, 1 .. n)
  BY DEF Injection, IsInjective
<1>2. IsFiniteSet(1 .. n)
  BY FS_Interval
<1> QED BY <1>1, <1>2, FS_Injection

\* The claims of L before claim c.
Before(L, c) == {d \in L : d.id < c.id}

\* A claim has more claims before it than any claim before it.
LEMMA BeforeShrinks ==
  ASSUME NEW L, IsFiniteSet(L), \A c \in L : c.id \in Nat,
         NEW c \in L, NEW p \in Before(L, c)
  PROVE  /\ Cardinality(Before(L, c)) \in Nat
         /\ Cardinality(Before(L, p)) \in Nat
         /\ Cardinality(Before(L, p)) < Cardinality(Before(L, c))
<1>1. p \in L /\ p.id < c.id /\ p.id \in Nat /\ c.id \in Nat
  BY DEF Before
<1>2. Before(L, p) \subseteq Before(L, c) /\ p \notin Before(L, p)
  BY <1>1 DEF Before
<1>3. IsFiniteSet(Before(L, c))
  BY FS_Subset DEF Before
<1>4. IsFiniteSet(Before(L, p))
  BY FS_Subset DEF Before
<1>5. Cardinality(Before(L, p)) <= Cardinality(Before(L, c))
  BY <1>2, <1>3, FS_Subset
<1>6. Cardinality(Before(L, p)) # Cardinality(Before(L, c))
  BY <1>2, <1>3, FS_Subset
<1> QED BY <1>3, <1>4, <1>5, <1>6, FS_CardinalityType

\* The recursion of Ordered has a solution, and it is reached in as many rounds as
\* there are claims.
LEMMA OrderedDef ==
  ASSUME NEW L, IsFiniteSet(L)
  PROVE  \E up \in [0 .. Cardinality(L) -> SUBSET L] :
            /\ up[0] = {}
            /\ \A n \in 1 .. Cardinality(L) : up[n] = {c \in L : c.refs \subseteq Ids(up[n - 1])}
            /\ Ordered(L) = up[Cardinality(L)]
<1> DEFINE N == Cardinality(L)
           F == [n \in 1 .. N |-> [X \in SUBSET L |-> {c \in L : c.refs \subseteq Ids(X)}]]
           Solves(f) == f = [n \in 0 .. N |->
                                IF n = 0 THEN {}
                                ELSE {c \in L : c.refs \subseteq Ids(f[n - 1])}]
           up == CHOOSE f : Solves(f)
<1>1. N \in Nat
  BY FS_CardinalityType
<1>2. F \in [1 .. N -> [SUBSET L -> SUBSET L]] /\ {} \in SUBSET L
  OBVIOUS
<1>3. PICK f \in [0 .. N -> SUBSET L] : Recursive(f, N, {}, F)
  <2> HIDE DEF N, F
  <2> QED BY <1>1, <1>2, RecursiveExists
<1>4. Solves(f)
  <2>1. ASSUME NEW n \in 0 .. N, n # 0
        PROVE  F[n][f[n - 1]] = {c \in L : c.refs \subseteq Ids(f[n - 1])}
    <3>1. n \in 1 .. N /\ f[n - 1] \in SUBSET L
      BY <1>1, <2>1
    <3> DEFINE X == f[n - 1]
    <3> HIDE DEF X
    <3>2. F[n][X] = {c \in L : c.refs \subseteq Ids(X)}
      BY <3>1 DEF X
    <3> QED BY <3>2 DEF X
  <2>2. f = [n \in 0 .. N |-> IF n = 0 THEN {} ELSE F[n][f[n - 1]]]
    BY <1>3, Zenon DEF Recursive
  <2> HIDE DEF F, N
  <2>3. [n \in 0 .. N |-> IF n = 0 THEN {} ELSE F[n][f[n - 1]]]
          = [n \in 0 .. N |-> IF n = 0 THEN {} ELSE {c \in L : c.refs \subseteq Ids(f[n - 1])}]
    BY <2>1
  <2> QED BY <2>2, <2>3, Zenon
<1>5. Solves(up)
  <2> HIDE DEF Solves
  <2> QED BY <1>4
<1>6. up[0] = {} /\ \A n \in 1 .. N : up[n] = {c \in L : c.refs \subseteq Ids(up[n - 1])}
  <2> DEFINE Round(X) == {c \in L : c.refs \subseteq Ids(X)}
  <2>1. up = [n \in 0 .. N |-> IF n = 0 THEN {} ELSE Round(up[n - 1])]
    BY <1>5
  <2> HIDE DEF up, N, Solves, Round
  <2>2. up[0] = {} /\ \A n \in 1 .. N : up[n] = Round(up[n - 1])
    <3>1. 0 \in 0 .. N
      BY <1>1
    <3>2. up[0] = {}
      BY <2>1, <3>1, Zenon
    <3>3. ASSUME NEW n \in 1 .. N PROVE up[n] = Round(up[n - 1])
      <4>1. n \in 0 .. N /\ n # 0
        BY <1>1
      <4>2. up[n] = IF n = 0 THEN {} ELSE Round(up[n - 1])
        BY <2>1, <4>1, Zenon
      <4> QED BY <4>1, <4>2
    <3> QED BY <3>2, <3>3
  <2> QED BY <2>2 DEF Round
<1>7. up \in [0 .. N -> SUBSET L]
  <2> HIDE DEF up, N
  <2> QED BY <1>5
<1>8. Ordered(L) = up[N]
  BY DEF Ordered
<1> HIDE DEF up
<1> QED BY <1>6, <1>7, <1>8

\* If claims refer to earlier ones of L only, a round takes every claim with fewer
\* before it than rounds so far, and the last round all of L: there is no cycle.
LEMMA OrderedAll ==
  ASSUME NEW L, IsFiniteSet(L), \A c \in L : c.id \in Nat,
         \A c \in L : \A r \in c.refs : r < c.id /\ \E p \in L : p.id = r
  PROVE  Ordered(L) = L
<1> DEFINE N == Cardinality(L)
<1>1. PICK up \in [0 .. N -> SUBSET L] :
         /\ up[0] = {}
         /\ \A n \in 1 .. N : up[n] = {c \in L : c.refs \subseteq Ids(up[n - 1])}
         /\ Ordered(L) = up[N]
  BY OrderedDef
<1>2. N \in Nat
  BY FS_CardinalityType
<1> HIDE DEF N
<1> DEFINE Taken == {n \in 0 .. N : \A c \in L : Cardinality(Before(L, c)) < n => c \in up[n]}
<1>3. \A c \in L : Cardinality(Before(L, c)) \in Nat
  <2> SUFFICES ASSUME NEW c \in L PROVE Cardinality(Before(L, c)) \in Nat
    OBVIOUS
  <2>1. IsFiniteSet(Before(L, c))
    BY FS_Subset DEF Before
  <2> QED BY <2>1, FS_CardinalityType
<1>4. 0 \in Taken
  BY <1>2, <1>3
<1>5. ASSUME NEW n \in 1 .. N, n - 1 \in Taken
      PROVE  n \in Taken
  <2> SUFFICES ASSUME NEW c \in L, Cardinality(Before(L, c)) < n
               PROVE  c \in up[n]
    BY <1>2
  <2>1. ASSUME NEW r \in c.refs
        PROVE  r \in Ids(up[n - 1])
    <3>1. PICK p \in L : p.id = r /\ r < c.id
      OBVIOUS
    <3>2. p \in Before(L, c)
      BY <3>1 DEF Before
    <3>3. Cardinality(Before(L, p)) < n - 1
      BY <1>2, <1>3, <3>2, BeforeShrinks
    <3>4. p \in up[n - 1]
      BY <1>5, <3>3
    <3> QED BY <3>1, <3>4 DEF Ids
  <2> QED BY <1>1, <2>1
<1>6. 0 .. N \subseteq Taken
  <2> HIDE DEF Taken
  <2> QED BY <1>2, <1>4, <1>5, UpTo
<1>7. ASSUME NEW c \in L
      PROVE  c \in up[N]
  <2>1. Before(L, c) \subseteq L /\ c \notin Before(L, c)
    BY DEF Before
  <2>2. Cardinality(Before(L, c)) < N
    BY <1>2, <1>3, <2>1, FS_Subset DEF N
  <2>3. N \in Taken
    BY <1>2, <1>6
  <2> QED BY <2>2, <2>3
<1>8. up[N] \subseteq L
  BY <1>2
<1> QED BY <1>1, <1>7, <1>8

\* What it takes for a set of claims to fold.
LEMMA FoldsWhen ==
  ASSUME NEW L, IsFiniteSet(L), \A c \in L : c.id \in Nat,
         \E c \in L : c.kind = "create",
         \A c, d \in L : c.kind = "create" /\ d.kind = "create" => c = d,
         \A c \in L : \A r \in c.refs : r < c.id /\ \E p \in L : p.id = r /\ CanRefer(c, p)
  PROVE  Folds(L)
<1>1. PICK g \in L : g.kind = "create"
  OBVIOUS
<1>2. Of(L, "create") = {g}
  BY <1>1 DEF Of
<1>3. Cardinality(Of(L, "create")) = 1
  BY <1>2, FS_Singleton
<1>4. Ordered(L) = L
  BY OrderedAll
<1> QED BY <1>3, <1>4 DEF Folds

----------------------------------------------------------------------------
(* The versions that one derives from.                                     *)

\* The versions that each round of Ancestors knows.
LEMMA AncestorsDef ==
  ASSUME NEW L, IsFiniteSet(L), NEW v \in L, \A c \in L : c.id \in Nat /\ c.refs \subseteq Nat
  PROVE  \E up \in [0 .. Cardinality(L) -> SUBSET Nat] :
            /\ up[0] = {v.id}
            /\ \A n \in 1 .. Cardinality(L) :
                  up[n] = up[n - 1] \cup UNION {c.refs : c \in {c \in L : c.id \in up[n - 1]}}
            /\ Ancestors(L, v) = up[Cardinality(L)]
<1> DEFINE N == Cardinality(L)
           Round(X) == X \cup UNION {c.refs : c \in {c \in L : c.id \in X}}
           F == [n \in 1 .. N |-> [X \in SUBSET Nat |-> Round(X)]]
           Solves(f) == f = [n \in 0 .. N |-> IF n = 0 THEN {v.id} ELSE Round(f[n - 1])]
           up == CHOOSE f : Solves(f)
<1>1. N \in Nat
  BY FS_CardinalityType
<1>2. F \in [1 .. N -> [SUBSET Nat -> SUBSET Nat]] /\ {v.id} \in SUBSET Nat
  <2>1. ASSUME NEW X \in SUBSET Nat PROVE Round(X) \in SUBSET Nat
    OBVIOUS
  <2> QED BY <2>1
<1>3. PICK f \in [0 .. N -> SUBSET Nat] : Recursive(f, N, {v.id}, F)
  <2> HIDE DEF N, F
  <2> QED BY <1>1, <1>2, RecursiveExists
<1>4. Solves(f)
  <2>1. ASSUME NEW n \in 0 .. N, n # 0
        PROVE  F[n][f[n - 1]] = Round(f[n - 1])
    <3>1. n \in 1 .. N /\ f[n - 1] \in SUBSET Nat
      BY <1>1, <2>1
    <3> DEFINE X == f[n - 1]
    <3> HIDE DEF X, Round
    <3>2. F[n][X] = Round(X)
      BY <3>1 DEF X
    <3> QED BY <3>2 DEF X
  <2>2. f = [n \in 0 .. N |-> IF n = 0 THEN {v.id} ELSE F[n][f[n - 1]]]
    BY <1>3, Zenon DEF Recursive
  <2> HIDE DEF F, N, Round
  <2>3. [n \in 0 .. N |-> IF n = 0 THEN {v.id} ELSE F[n][f[n - 1]]]
          = [n \in 0 .. N |-> IF n = 0 THEN {v.id} ELSE Round(f[n - 1])]
    BY <2>1
  <2> QED BY <2>2, <2>3, Zenon
<1>5. Solves(up)
  <2> HIDE DEF Solves
  <2> QED BY <1>4
<1>6. Ancestors(L, v) = up[N]
  BY DEF Ancestors
<1> HIDE DEF up, N
<1>7. \A n \in 0 .. N : up[n] = IF n = 0 THEN {v.id} ELSE Round(up[n - 1])
  <2> HIDE DEF Round
  <2> QED BY <1>5, Zenon
<1>8. up[0] = {v.id} /\ \A n \in 1 .. N : up[n] = Round(up[n - 1])
  <2> HIDE DEF Round, Solves
  <2>1. 0 \in 0 .. N /\ \A n \in 1 .. N : n \in 0 .. N /\ n # 0
    BY <1>1
  <2> QED BY <1>7, <2>1, Zenon
<1>9. up \in [0 .. N -> SUBSET Nat]
  <2> DEFINE Known == {n \in 0 .. N : up[n] \in SUBSET Nat}
  <2>1. 0 \in Known
    BY <1>1, <1>2, <1>8
  <2>2. ASSUME NEW n \in 1 .. N, n - 1 \in Known PROVE n \in Known
    <3>1. Round(up[n - 1]) \in SUBSET Nat
      BY <2>2
    <3> QED BY <1>1, <1>8, <3>1
  <2>3. 0 .. N \subseteq Known
    <3> HIDE DEF Known
    <3> QED BY <1>1, <2>1, <2>2, UpTo
  <2>4. up = [n \in 0 .. N |-> up[n]]
    <3> HIDE DEF Round
    <3> QED BY <1>5
  <2> QED BY <2>3, <2>4
<1> QED BY <1>6, <1>8, <1>9 DEF N

\* The claims of L after claim c.
After(L, c) == {d \in L : c.id < d.id}

\* A claim has more claims after it than any claim after it.
LEMMA AfterShrinks ==
  ASSUME NEW L, IsFiniteSet(L), \A c \in L : c.id \in Nat,
         NEW c \in L, NEW p \in After(L, c)
  PROVE  /\ Cardinality(After(L, c)) \in Nat
         /\ Cardinality(After(L, p)) \in Nat
         /\ Cardinality(After(L, p)) < Cardinality(After(L, c))
<1>1. p \in L /\ c.id < p.id /\ p.id \in Nat /\ c.id \in Nat
  BY DEF After
<1>2. After(L, p) \subseteq After(L, c) /\ p \notin After(L, p)
  BY <1>1 DEF After
<1>3. IsFiniteSet(After(L, c))
  BY FS_Subset DEF After
<1>4. IsFiniteSet(After(L, p))
  BY FS_Subset DEF After
<1>5. Cardinality(After(L, p)) <= Cardinality(After(L, c))
  BY <1>2, <1>3, FS_Subset
<1>6. Cardinality(After(L, p)) # Cardinality(After(L, c))
  BY <1>2, <1>3, FS_Subset
<1> QED BY <1>3, <1>4, <1>5, <1>6, FS_CardinalityType

\* If later versions of L refer to every version but h, then h derives from all.
LEMMA AncestorsAll ==
  ASSUME NEW L, IsFiniteSet(L), \A c \in L : c.id \in Nat /\ c.refs \subseteq Nat,
         NEW h \in L,
         \A v \in Of(L, "version") \ {h} :
            \E c \in Of(L, "version") : v.id \in c.refs /\ v.id < c.id
  PROVE  Ids(Of(L, "version")) \subseteq Ancestors(L, h)
<1> DEFINE N == Cardinality(L)
           V == Of(L, "version")
<1>1. PICK up \in [0 .. N -> SUBSET Nat] :
         /\ up[0] = {h.id}
         /\ \A n \in 1 .. N :
               up[n] = up[n - 1] \cup UNION {c.refs : c \in {c \in L : c.id \in up[n - 1]}}
         /\ Ancestors(L, h) = up[N]
  BY AncestorsDef
<1>2. N \in Nat /\ V \subseteq L
  BY FS_CardinalityType DEF Of
<1>3. \A c \in L : Cardinality(After(L, c)) \in 0 .. N
  <2> SUFFICES ASSUME NEW c \in L PROVE Cardinality(After(L, c)) \in 0 .. N
    OBVIOUS
  <2>1. IsFiniteSet(After(L, c)) /\ Cardinality(After(L, c)) <= N
    BY FS_Subset DEF After
  <2> QED BY <1>2, <2>1, FS_CardinalityType
<1>4. \A v \in V \ {h} : \E c \in V : v.id \in c.refs /\ c \in After(L, v)
  BY <1>2 DEF After
<1> HIDE DEF N, V
<1> DEFINE Known == {n \in 0 .. N :
              h.id \in up[n] /\ \A v \in V : Cardinality(After(L, v)) <= n => v.id \in up[n]}
<1>5. 0 \in Known
  <2>1. ASSUME NEW v \in V, Cardinality(After(L, v)) <= 0
        PROVE  v = h
    <3>1. Cardinality(After(L, v)) = 0 /\ IsFiniteSet(After(L, v))
      BY <1>2, <1>3, <2>1, FS_Subset DEF After
    <3>2. After(L, v) = {}
      BY <3>1, FS_EmptySet
    <3> QED BY <1>4, <3>2
  <2> QED BY <1>1, <1>2, <2>1
<1>6. ASSUME NEW n \in 1 .. N, n - 1 \in Known
      PROVE  n \in Known
  <2>1. up[n] = up[n - 1] \cup UNION {c.refs : c \in {c \in L : c.id \in up[n - 1]}}
    BY <1>1
  <2>2. h.id \in up[n - 1]
    BY <1>6
  <2>3. ASSUME NEW v \in V \ {h}, Cardinality(After(L, v)) <= n
        PROVE  v.id \in up[n]
    <3>1. PICK c \in V : v.id \in c.refs /\ c \in After(L, v)
      BY <1>4
    <3>2. v \in L /\ c \in L
      BY <1>2
    <3>3. Cardinality(After(L, c)) < Cardinality(After(L, v))
      BY <3>1, <3>2, AfterShrinks
    <3>4. Cardinality(After(L, c)) <= n - 1
      BY <1>2, <1>3, <2>3, <3>2, <3>3
    <3>5. c.id \in up[n - 1]
      BY <1>6, <3>4
    <3> QED BY <2>1, <3>1, <3>2, <3>5
  <2> QED BY <1>2, <2>1, <2>2, <2>3
<1>7. 0 .. N \subseteq Known
  <2> HIDE DEF Known
  <2> QED BY <1>2, <1>5, <1>6, UpTo
<1>8. \A v \in V : v.id \in up[N]
  <2> SUFFICES ASSUME NEW v \in V PROVE v.id \in up[N]
    OBVIOUS
  <2>1. N \in Known /\ Cardinality(After(L, v)) <= N
    BY <1>2, <1>3, <1>7
  <2> QED BY <2>1
<1> QED BY <1>1, <1>8 DEF Ids, V

----------------------------------------------------------------------------
(* The invariant.                                                          *)

\* Every claim there is.
Everything == UNION {log[s] : s \in Store}

\* What is known of one claim, whatever stores it has reached: it was minted
\* after all that its editor had seen; it refers only to claims its editor had
\* seen, and may refer to them; and of the names and tags that its editor saw,
\* it replaced those it may replace, unless the editor saw them replaced.
ClaimOk(c) ==
    /\ c.id <= Len(saw)
    /\ c.refs \subseteq saw[c.id]
    /\ \A r \in saw[c.id] : r < c.id
    /\ \A r \in c.refs : \E p \in Everything : p.id = r /\ CanRefer(c, p)
    /\ \A p \in Everything :
        p.kind \in {"name", "add"} /\ p.id \in saw[c.id] /\ CanRefer(c, p)
        => \/ p.id \in c.refs
           \/ \E d \in Everything : d.id \in saw[c.id] /\ p.id \in d.refs

\* Claims are told apart by their IDs, and one of them began the document.
HistoryInv ==
    /\ \A c, d \in Everything : c.id = d.id => c = d
    /\ \A c, d \in Everything : c.kind = "create" /\ d.kind = "create" => c = d
    /\ \A c \in Everything : ClaimOk(c)

\* A set of claims that lacks nothing its claims' editors had seen.
Whole(L) ==
    L # {} => /\ \E c \in L : c.kind = "create"
              /\ \A c \in L : saw[c.id] \subseteq Ids(L)

\* What stores, checkpoints and editors hold is whole, and a store keeps what it
\* has published and what it has shown.
HeldInv ==
    /\ \A s \in Store : Whole(log[s]) /\ Whole(ledger[s]) /\ ledger[s] \subseteq log[s]
    /\ \A e \in Editor : Whole(seen[e]) /\ seen[e] \subseteq log[at[e]]

IInv == TypeOK /\ HistoryInv /\ HeldInv

\* Claims are numbered, within the numbers given out, and refer to smaller numbers.
LEMMA ClaimFacts ==
  ASSUME IInv, NEW c \in Everything
  PROVE  /\ c \in Claim
         /\ Len(saw) \in Nat
         /\ c.id \in 1 .. Len(saw)
         /\ c.refs \subseteq Nat
         /\ c.refs \subseteq saw[c.id]
         /\ \A r \in c.refs : r < c.id
<1>1. c \in Claim
  BY DEF IInv, TypeOK, Everything
<1>2. c.id \in 1 .. MaxClaims /\ c.refs \subseteq 1 .. MaxClaims
  BY <1>1 DEF Claim
<1>3. Len(saw) \in Nat
  BY DEF IInv, TypeOK
<1>4. ClaimOk(c)
  BY DEF IInv, HistoryInv
<1> QED BY <1>1, <1>2, <1>3, <1>4 DEF ClaimOk

\* Claims of the document are finitely many.
LEMMA ClaimsFinite ==
  ASSUME IInv, NEW L \in SUBSET Everything
  PROVE  IsFiniteSet(L)
<1>1. CASE L = {}
  BY <1>1, FS_EmptySet
<1>2. CASE L # {}
  <2>1. Len(saw) \in Nat /\ \A c \in L : c.id \in 1 .. Len(saw)
    BY <1>2, ClaimFacts
  <2>2. \A c, d \in L : c.id = d.id => c = d
    BY DEF IInv, HistoryInv
  <2> QED BY <2>1, <2>2, FiniteById
<1> QED BY <1>1, <1>2

\* A claim of a whole set refers to claims of that set.
LEMMA WholeRefers ==
  ASSUME IInv, NEW L \in SUBSET Everything, Whole(L), NEW c \in L, NEW r \in c.refs
  PROVE  \E p \in L : p.id = r /\ CanRefer(c, p)
<1>1. PICK p \in Everything : p.id = r /\ CanRefer(c, p)
  BY DEF IInv, HistoryInv, ClaimOk
<1>2. r \in Ids(L)
  BY ClaimFacts DEF Whole
<1>3. PICK q \in L : q.id = r
  BY <1>2 DEF Ids
<1>4. q = p
  BY <1>1, <1>3 DEF IInv, HistoryInv
<1> QED BY <1>1, <1>4

\* A whole set of claims folds.
LEMMA WholeFolds ==
  ASSUME IInv, NEW L \in SUBSET Everything, Whole(L), L # {}
  PROVE  Folds(L)
<1>1. \A c \in L : c.id \in Nat /\ \A r \in c.refs : r < c.id
  BY ClaimFacts
<1>2. \E c \in L : c.kind = "create"
  BY DEF Whole
<1>3. \A c, d \in L : c.kind = "create" /\ d.kind = "create" => c = d
  BY DEF IInv, HistoryInv
<1> QED BY <1>1, <1>2, <1>3, ClaimsFinite, WholeRefers, FoldsWhen

\* Whole sets of claims together are whole.
LEMMA WholeUnion ==
  ASSUME NEW LL, \A L \in LL : Whole(L)
  PROVE  Whole(UNION LL)
<1> SUFFICES ASSUME UNION LL # {} PROVE Whole(UNION LL)
  BY DEF Whole
<1>1. PICK L \in LL : L # {}
  OBVIOUS
<1>2. \E c \in UNION LL : c.kind = "create"
  BY <1>1 DEF Whole
<1>3. ASSUME NEW M \in LL, NEW c \in M
      PROVE  saw[c.id] \subseteq Ids(UNION LL)
  BY <1>3 DEF Whole, Ids
<1> QED BY <1>2, <1>3 DEF Whole

----------------------------------------------------------------------------
(* Edits.                                                                  *)

Kind == {"create", "version", "name", "add", "remove"}

\* A claim yet to be minted by an editor that has seen L: it refers to what it may
\* refer to, and replaces every current name and tag that it may replace.
DraftOk(L, d) ==
    /\ d.kind \in Kind /\ d.tag \in Path \cup {<<>>} /\ d.scope \in Path \cup {NoScope}
    /\ d.kind = "remove" => d.refs # {}
    /\ d.refs \subseteq Ids(L)
    /\ \A r \in d.refs : \E p \in L : p.id = r /\ CanRefer(d, p)
    /\ \A p \in Names(L) \cup Tags(L) : CanRefer(d, p) => p.id \in d.refs

\* It is enough that it refers to a set R of claims that contains what it may
\* replace, and nothing that it may not.
LEMMA DraftOkWhen ==
  ASSUME NEW L, NEW R \in SUBSET L, NEW kind \in Kind, NEW tag \in Path \cup {<<>>},
         NEW scope \in Path \cup {NoScope}, NEW d,
         d = Draft(kind, tag, scope, Ids(R)),
         kind = "remove" => R # {},
         \A p \in R : CanRefer(d, p),
         \A p \in Names(L) \cup Tags(L) : CanRefer(d, p) => p \in R
  PROVE  DraftOk(L, d) /\ d.kind = kind
<1>1. d.kind = kind /\ d.tag = tag /\ d.scope = scope /\ d.refs = Ids(R)
  BY DEF Draft
<1>2. d.kind = "remove" => d.refs # {}
  <2>1. ASSUME NEW c \in R PROVE c.id \in d.refs
    BY <1>1 DEF Ids
  <2> QED BY <1>1, <2>1
<1>3. d.refs \subseteq Ids(L) /\ \A r \in d.refs : \E p \in R : p.id = r
  BY <1>1 DEF Ids
<1>4. \A r \in d.refs : \E p \in L : p.id = r /\ CanRefer(d, p)
  BY <1>3
<1>5. \A p \in Names(L) \cup Tags(L) : CanRefer(d, p) => p.id \in d.refs
  BY <1>1 DEF Ids
<1> QED BY <1>1, <1>2, <1>3, <1>4, <1>5 DEF DraftOk

\* Every edit of a document drafts such claims, finitely many, and none that would
\* begin another document.
LEMMA EditsOk ==
  ASSUME NEW L, IsFiniteSet(L), NEW drafts \in Edits(L)
  PROVE  /\ IsFiniteSet(drafts)
         /\ \A d \in drafts : DraftOk(L, d) /\ d.kind # "create"
<1>1. /\ \A c \in Names(L) : c \in L /\ c.kind = "name"
      /\ \A c \in Tags(L) : c \in L /\ c.kind = "add"
  BY DEF Names, Tags, Of
<1>2. ASSUME NEW parents \in (SUBSET Of(L, "version")) \ {{}}, drafts = VersionDrafts(parents)
      PROVE  IsFiniteSet(drafts) /\ \A d \in drafts : DraftOk(L, d) /\ d.kind # "create"
  <2> DEFINE d == Draft("version", <<>>, NoScope, Ids(parents))
  <2>1. drafts = {d}
    BY <1>2 DEF VersionDrafts
  <2>2. parents \subseteq L /\ \A p \in parents : p.kind = "version"
    BY DEF Of
  <2>3. d.kind = "version"
    BY DEF Draft
  <2> HIDE DEF d
  <2>4. \A p \in parents : CanRefer(d, p)
    BY <2>2, <2>3 DEF CanRefer
  <2>5. \A p \in Names(L) \cup Tags(L) : ~CanRefer(d, p)
    BY <1>1, <2>3 DEF CanRefer
  <2>6. DraftOk(L, d)
    BY <2>2, <2>4, <2>5, DraftOkWhen DEF d, Kind
  <2> QED BY <2>1, <2>3, <2>6, FS_Singleton
<1>3. ASSUME drafts = RenameDrafts(L)
      PROVE  IsFiniteSet(drafts) /\ \A d \in drafts : DraftOk(L, d) /\ d.kind # "create"
  <2> DEFINE d == Draft("name", <<>>, NoScope, Ids(Names(L)))
  <2>1. drafts = {d}
    BY <1>3 DEF RenameDrafts, Renamed
  <2>2. d.kind = "name"
    BY DEF Draft
  <2> HIDE DEF d
  <2>3. Names(L) \subseteq L /\ \A p \in Names(L) : CanRefer(d, p)
    BY <1>1, <2>2 DEF CanRefer
  <2>4. \A p \in Names(L) \cup Tags(L) : CanRefer(d, p) => p \in Names(L)
    BY <1>1, <2>2 DEF CanRefer
  <2>5. DraftOk(L, d)
    BY <2>3, <2>4, DraftOkWhen DEF d, Kind
  <2> QED BY <2>1, <2>2, <2>5, FS_Singleton
<1>4. ASSUME NEW args \in TagArgs, drafts = TagDrafts(L, args)
      PROVE  IsFiniteSet(drafts) /\ \A d \in drafts : DraftOk(L, d) /\ d.kind # "create"
  <2> DEFINE Same(p) == {c \in Tags(L) : c.tag = p}
             Untag(p) == Draft("remove", p, NoScope, Ids(Same(p)))
             Tag(p) == Draft("add", p, NoScope, Ids(Refined(L, p)))
             Gone == Removed(L, args.del)
  <2>1. drafts = {Untag(p) : p \in Gone} \cup {Tag(p) : p \in args.add}
    BY <1>4 DEF TagDrafts, Ids
  <2>2. /\ args.add \subseteq Path /\ args.del \subseteq Path
        /\ IsFiniteSet(args.add) /\ IsFiniteSet(args.del)
    BY PathAssumption
  <2>3. /\ \A p : Untag(p).kind = "remove" /\ Untag(p).tag = p
        /\ \A p : Tag(p).kind = "add" /\ Tag(p).tag = p /\ Tag(p).scope = NoScope
    BY DEF Draft
  <2>4. ASSUME NEW p \in Gone
        PROVE  DraftOk(L, Untag(p))
    <3>1. p \in Path \cup {<<>>} /\ Same(p) \subseteq L /\ Same(p) # {}
      BY <1>1, <2>2 DEF Removed
    <3>2. Untag(p) = Draft("remove", p, NoScope, Ids(Same(p)))
      OBVIOUS
    <3> HIDE DEF Untag
    <3>3. \A q \in Same(p) : CanRefer(Untag(p), q)
      BY <1>1, <2>3 DEF CanRefer
    <3>4. \A q \in Names(L) \cup Tags(L) : CanRefer(Untag(p), q) => q \in Same(p)
      BY <1>1, <2>3 DEF CanRefer
    <3> HIDE DEF Same
    <3>5. /\ "add" \in Kind /\ "remove" \in Kind /\ "add" # "remove"
          /\ NoScope \in Path \cup {NoScope}
      BY DEF Kind
    <3> QED BY <3>1, <3>2, <3>3, <3>4, <3>5, DraftOkWhen
  <2>5. ASSUME NEW p \in args.add
        PROVE  DraftOk(L, Tag(p))
    <3>1. p \in Path \cup {<<>>} /\ Refined(L, p) \subseteq L
      BY <1>1, <2>2 DEF Refined
    <3>2. Tag(p) = Draft("add", p, NoScope, Ids(Refined(L, p)))
      OBVIOUS
    <3> HIDE DEF Tag
    <3>3. \A q \in Refined(L, p) : CanRefer(Tag(p), q)
      BY <1>1, <2>3 DEF CanRefer, Refined
    <3>4. \A q \in Names(L) \cup Tags(L) : CanRefer(Tag(p), q) => q \in Refined(L, p)
      BY <1>1, <2>3 DEF CanRefer, Refined
    <3>5. /\ "add" \in Kind /\ "remove" \in Kind /\ "add" # "remove"
          /\ NoScope \in Path \cup {NoScope}
      BY DEF Kind
    <3> QED BY <3>1, <3>2, <3>3, <3>4, <3>5, DraftOkWhen
  <2> HIDE DEF Tag, Untag
  <2>6. IsFiniteSet(Gone)
    BY <2>2, FS_Subset DEF Removed
  <2>7. IsFiniteSet({Untag(p) : p \in Gone})
    <3> DEFINE f == [p \in Gone |-> Untag(p)]
    <3>1. f \in Surjection(Gone, {Untag(p) : p \in Gone})
      BY DEF Surjection
    <3> QED BY <2>6, <3>1, FS_Surjection
  <2>8. IsFiniteSet({Tag(p) : p \in args.add})
    <3> DEFINE f == [p \in args.add |-> Tag(p)]
    <3>1. f \in Surjection(args.add, {Tag(p) : p \in args.add})
      BY DEF Surjection
    <3> QED BY <2>2, <3>1, FS_Surjection
  <2>9. IsFiniteSet(drafts)
    BY <2>1, <2>7, <2>8, FS_Union
  <2> HIDE DEF Gone
  <2> QED BY <2>1, <2>3, <2>4, <2>5, <2>9
<1>5. ASSUME NEW key \in Path, NEW tag \in Path, drafts = SetDrafts(L, key, tag)
      PROVE  IsFiniteSet(drafts) /\ \A d \in drafts : DraftOk(L, d) /\ d.kind # "create"
  <2> DEFINE d == Draft("add", tag, key, Ids(Cleared(L, key)))
  <2>1. drafts = {d}
    BY <1>5 DEF SetDrafts
  <2>2. d.kind = "add" /\ d.scope = key /\ key # NoScope
    BY PathAssumption DEF Draft
  <2> HIDE DEF d
  <2>3. Cleared(L, key) \subseteq L /\ \A p \in Cleared(L, key) : CanRefer(d, p)
    BY <1>1, <2>2 DEF CanRefer, Cleared
  <2>4. \A p \in Names(L) \cup Tags(L) : CanRefer(d, p) => p \in Cleared(L, key)
    BY <1>1, <2>2 DEF CanRefer, Cleared
  <2>5. /\ "add" \in Kind /\ "add" # "remove"
        /\ key \in Path \cup {NoScope} /\ tag \in Path \cup {<<>>}
    BY DEF Kind
  <2>6. DraftOk(L, d)
    BY <2>3, <2>4, <2>5, DraftOkWhen DEF d
  <2> QED BY <2>1, <2>2, <2>6, FS_Singleton
<1>6. \/ \E parents \in (SUBSET Of(L, "version")) \ {{}} : drafts = VersionDrafts(parents)
      \/ drafts = RenameDrafts(L)
      \/ \E args \in TagArgs : drafts = TagDrafts(L, args)
      \/ \E key, tag \in Path : drafts = SetDrafts(L, key, tag)
  BY DEF Edits
<1> QED BY <1>2, <1>3, <1>4, <1>5, <1>6

\* Draft d with ID n.
Numbered(n, d) ==
    [id |-> n, kind |-> d.kind, tag |-> d.tag, scope |-> d.scope, refs |-> d.refs]

\* Minting gives each draft one of the next IDs.
LEMMA MintedFacts ==
  ASSUME NEW drafts, IsFiniteSet(drafts), Len(saw) \in Nat
  PROVE  /\ Cardinality(drafts) \in Nat
         /\ \A c \in Minted(drafts) :
               /\ c.id \in Len(saw) + 1 .. Len(saw) + Cardinality(drafts)
               /\ \E d \in drafts : c = Numbered(c.id, d)
         /\ \A c, d \in Minted(drafts) : c.id = d.id => c = d
<1> DEFINE n == Cardinality(drafts)
           s == SetToSeq(drafts)
<1>1. n \in Nat
  BY FS_CardinalityType
<1>2. \E f \in [1 .. n -> drafts] : IsInjective(f)
  BY FS_CardinalityType DEF ExistsBijection, Bijection, Injection
<1>3. s \in [1 .. n -> drafts]
  BY <1>2 DEF SetToSeq
<1> HIDE DEF s, n
<1>4. Len(s) = n
  BY <1>1, <1>3
<1>5. Minted(drafts) = {Numbered(Len(saw) + i, s[i]) : i \in 1 .. n}
  BY <1>4 DEF Minted, Numbered, s
<1>6. ASSUME NEW i \in 1 .. n
      PROVE  LET c == Numbered(Len(saw) + i, s[i])
             IN /\ c.id = Len(saw) + i
                /\ c.id \in Len(saw) + 1 .. Len(saw) + n
                /\ s[i] \in drafts /\ c = Numbered(c.id, s[i])
  BY <1>1, <1>3 DEF Numbered
<1>7. ASSUME NEW c \in Minted(drafts)
      PROVE  \E i \in 1 .. n : /\ c = Numbered(Len(saw) + i, s[i])
                               /\ c.id = Len(saw) + i
                               /\ c.id \in Len(saw) + 1 .. Len(saw) + n
                               /\ s[i] \in drafts /\ c = Numbered(c.id, s[i])
  <2>1. PICK i \in 1 .. n : c = Numbered(Len(saw) + i, s[i])
    BY <1>5
  <2> QED BY <1>6, <2>1
<1>8. ASSUME NEW c \in Minted(drafts), NEW d \in Minted(drafts), c.id = d.id
      PROVE  c = d
  <2>1. PICK i \in 1 .. n : c = Numbered(Len(saw) + i, s[i]) /\ c.id = Len(saw) + i
    BY <1>7
  <2>2. PICK j \in 1 .. n : d = Numbered(Len(saw) + j, s[j]) /\ d.id = Len(saw) + j
    BY <1>7
  <2>3. i = j
    BY <1>1, <1>8, <2>1, <2>2
  <2> QED BY <2>1, <2>2, <2>3
<1> QED BY <1>1, <1>7, <1>8 DEF n

\* What a minted claim refers to, and what kind it is of, was decided by its draft.
LEMMA NumberedFacts ==
  ASSUME NEW n, NEW d
  PROVE  LET c == Numbered(n, d) IN
         /\ c.id = n /\ c.kind = d.kind /\ c.tag = d.tag /\ c.scope = d.scope /\ c.refs = d.refs
         /\ \A p : CanRefer(c, p) <=> CanRefer(d, p)
<1> DEFINE c == Numbered(n, d)
<1>1. c.id = n /\ c.kind = d.kind /\ c.tag = d.tag /\ c.scope = d.scope /\ c.refs = d.refs
  BY DEF Numbered
<1> HIDE DEF c
<1>2. ASSUME NEW p PROVE CanRefer(c, p) <=> CanRefer(d, p)
  BY <1>1 DEF CanRefer
<1> QED BY <1>1, <1>2 DEF c

\* Claims minted from what an editor had seen of a log can be appended to the log,
\* however much the log has grown since.
LEMMA AppendFolds ==
  ASSUME IInv, NEW L \in SUBSET Everything, Whole(L), L # {}, NEW S \in SUBSET L,
         NEW drafts, IsFiniteSet(drafts),
         \A d \in drafts : DraftOk(S, d) /\ d.kind # "create"
  PROVE  Folds(L \cup Minted(drafts))
<1> DEFINE M == L \cup Minted(drafts)
           last == Len(saw)
           n == Cardinality(drafts)
<1>1. last \in Nat
  BY DEF IInv, TypeOK
<1>2. /\ n \in Nat
      /\ \A c \in Minted(drafts) : c.id \in last + 1 .. last + n
      /\ \A c \in Minted(drafts) : \E d \in drafts : c = Numbered(c.id, d)
      /\ \A c, d \in Minted(drafts) : c.id = d.id => c = d
  BY <1>1, MintedFacts
<1> HIDE DEF last, n
<1>3. \A c \in L : c.id \in 1 .. last
  BY ClaimFacts DEF last
<1>4. \A c, d \in L : c.id = d.id => c = d
  BY DEF IInv, HistoryInv
<1>5. IsFiniteSet(M)
  <2>1. last + n \in Nat /\ \A c \in M : c.id \in 1 .. last + n
    BY <1>1, <1>2, <1>3
  <2>2. \A c, d \in M : c.id = d.id => c = d
    BY <1>1, <1>2, <1>3, <1>4
  <2> HIDE DEF M
  <2> QED BY <2>1, <2>2, FiniteById
<1>6. \A c \in M : c.id \in Nat
  BY <1>1, <1>2, <1>3
<1>7. ASSUME NEW c \in Minted(drafts)
      PROVE  c.kind # "create" /\ \A r \in c.refs : r < c.id /\ \E p \in M : p.id = r /\ CanRefer(c, p)
  <2>1. PICK d \in drafts : c = Numbered(c.id, d)
    BY <1>2
  <2>2. c.kind = d.kind /\ c.refs = d.refs /\ \A p : CanRefer(c, p) <=> CanRefer(d, p)
    BY <2>1, NumberedFacts
  <2>3. ASSUME NEW r \in c.refs
        PROVE  r < c.id /\ \E p \in M : p.id = r /\ CanRefer(c, p)
    <3>1. PICK p \in S : p.id = r /\ CanRefer(c, p)
      BY <2>2 DEF DraftOk
    <3>2. p \in L /\ p.id \in 1 .. last /\ c.id \in last + 1 .. last + n
      BY <1>2, <1>3
    <3> QED BY <1>1, <1>2, <3>1, <3>2
  <2> QED BY <2>2, <2>3
<1>8. ASSUME NEW c \in L, NEW r \in c.refs
      PROVE  r < c.id /\ \E p \in M : p.id = r /\ CanRefer(c, p)
  BY ClaimFacts, WholeRefers
<1>9. \E c \in M : c.kind = "create"
  BY DEF Whole
<1>10. \A c, d \in M : c.kind = "create" /\ d.kind = "create" => c = d
  BY <1>7 DEF IInv, HistoryInv
<1> HIDE DEF M
<1>11. \A c \in M : \A r \in c.refs : r < c.id /\ \E p \in M : p.id = r /\ CanRefer(c, p)
  BY <1>7, <1>8 DEF M
<1>12. Folds(M)
  BY <1>5, <1>6, <1>9, <1>10, <1>11, FoldsWhen
<1> QED BY <1>12 DEF M

----------------------------------------------------------------------------
(* The invariant is kept.                                                  *)

LEMMA InvInit == Init => IInv
<1> SUFFICES ASSUME Init PROVE IInv
  OBVIOUS
<1>1. Everything = {}
  BY DEF Init, Everything
<1>2. TypeOK
  BY EmptySeq DEF Init, TypeOK
<1>3. HistoryInv
  BY <1>1 DEF HistoryInv
<1>4. HeldInv
  BY DEF Init, HeldInv, Whole
<1> QED BY <1>2, <1>3, <1>4 DEF IInv

\* The claims there are and the history of each after an append.
LEMMA AppendEffect ==
  ASSUME IInv, NEW e \in Editor, NEW s \in Store, NEW drafts, IsFiniteSet(drafts),
         AppendAndLoad(e, s, drafts)
  PROVE  /\ log' = [log EXCEPT ![s] = log[s] \cup Minted(drafts)]
         /\ seen' = [seen EXCEPT ![e] = log[s] \cup Minted(drafts)]
         /\ Everything' = Everything \cup Minted(drafts)
         /\ saw' \in Seq(SUBSET (1 .. MaxClaims))
         /\ Len(saw') = Len(saw) + Cardinality(drafts)
         /\ Len(saw') <= MaxClaims
         /\ \A i \in 1 .. Len(saw) : saw'[i] = saw[i]
         /\ \A c \in Minted(drafts) : saw'[c.id] = Ids(seen[e])
<1> DEFINE n == Cardinality(drafts)
           X == Ids(seen[e])
           t == [i \in 1 .. n |-> X]
<1>1. n \in Nat /\ \A c \in Minted(drafts) : c.id \in Len(saw) + 1 .. Len(saw) + n
  BY MintedFacts DEF IInv, TypeOK
<1>2. saw \in Seq(SUBSET (1 .. MaxClaims)) /\ Len(saw) \in Nat
  BY DEF IInv, TypeOK
<1>3. X \in SUBSET (1 .. MaxClaims)
  BY DEF IInv, TypeOK, Ids, Claim
<1>4. saw' = saw \o t /\ Len(saw) + n <= MaxClaims
  BY DEF AppendAndLoad
<1> HIDE DEF X, n
<1>5. t \in Seq(SUBSET (1 .. MaxClaims)) /\ Len(t) = n
  BY <1>1, <1>3
<1> HIDE DEF t
<1>6. /\ saw' \in Seq(SUBSET (1 .. MaxClaims)) /\ Len(saw') = Len(saw) + n
      /\ \A i \in 1 .. Len(saw) : saw'[i] = saw[i]
      /\ \A i \in Len(saw) + 1 .. Len(saw) + n : saw'[i] = t[i - Len(saw)]
  <2>1. Len(saw \o t) = Len(saw) + Len(t)
    BY <1>2, <1>5, ConcatProperties
  <2>2. \A i \in 1 .. Len(saw) + Len(t) :
           (saw \o t)[i] = IF i <= Len(saw) THEN saw[i] ELSE t[i - Len(saw)]
    BY <1>2, <1>5, ConcatProperties
  <2>3. saw \o t \in Seq(SUBSET (1 .. MaxClaims))
    BY <1>2, <1>5, ConcatProperties
  <2> QED BY <1>1, <1>2, <1>4, <1>5, <2>1, <2>2, <2>3
<1>7. \A c \in Minted(drafts) : saw'[c.id] = X
  <2> SUFFICES ASSUME NEW c \in Minted(drafts) PROVE saw'[c.id] = X
    OBVIOUS
  <2>1. c.id \in Len(saw) + 1 .. Len(saw) + n
    BY <1>1
  <2>2. saw'[c.id] = t[c.id - Len(saw)]
    BY <1>6, <2>1
  <2>3. c.id - Len(saw) \in 1 .. n
    BY <1>1, <1>2, <2>1
  <2> QED BY <2>2, <2>3 DEF t
<1>8. /\ log' = [log EXCEPT ![s] = log[s] \cup Minted(drafts)]
      /\ seen' = [seen EXCEPT ![e] = log[s] \cup Minted(drafts)]
  BY DEF AppendAndLoad, IInv, TypeOK
<1>9. Everything' = Everything \cup Minted(drafts)
  BY <1>8 DEF Everything, IInv, TypeOK
<1> QED BY <1>1, <1>2, <1>4, <1>6, <1>7, <1>8, <1>9 DEF X, n

\* Appending claims minted from what an editor had seen of the log, or the first
\* claims there are, keeps the invariant.
LEMMA AppendInv ==
  ASSUME IInv, NEW e \in Editor, NEW s \in Store, NEW drafts, IsFiniteSet(drafts),
         \A d \in drafts : DraftOk(seen[e], d),
         seen[e] \subseteq log[s],
         log[s] = {} => Everything = {},
         AppendAndLoad(e, s, drafts)
  PROVE  IInv'
<1> DEFINE M == Minted(drafts)
           n == Cardinality(drafts)
           last == Len(saw)
           S == seen[e]
<1>1. last \in Nat
  BY DEF IInv, TypeOK
<1>2. /\ n \in Nat
      /\ \A c \in M : c.id \in last + 1 .. last + n
      /\ \A c \in M : \E d \in drafts : c = Numbered(c.id, d)
      /\ \A c, d \in M : c.id = d.id => c = d
  BY <1>1, MintedFacts
<1>3. /\ log' = [log EXCEPT ![s] = log[s] \cup M]
      /\ seen' = [seen EXCEPT ![e] = log[s] \cup M]
      /\ Everything' = Everything \cup M
      /\ saw' \in Seq(SUBSET (1 .. MaxClaims))
      /\ Len(saw') = last + n /\ Len(saw') <= MaxClaims
      /\ \A i \in 1 .. last : saw'[i] = saw[i]
      /\ \A c \in M : saw'[c.id] = Ids(S)
  BY AppendEffect
<1>4. Folds(log[s] \cup M) /\ at' = [at EXCEPT ![e] = s] /\ ledger' = ledger
  BY DEF AppendAndLoad
<1> HIDE DEF M, n, last
<1>5. S \subseteq log[s] /\ log[s] \subseteq Everything
  BY DEF Everything
<1>6. \A c \in Everything : c \in Claim /\ c.id \in 1 .. last
  BY ClaimFacts DEF last
<1>7. \A i \in Ids(S) : i \in 1 .. last
  BY <1>5, <1>6 DEF Ids
<1>8. ASSUME NEW c \in M
      PROVE  /\ c \in Claim
             /\ c.kind = "remove" => c.refs # {}
             /\ c.refs \subseteq Ids(S)
             /\ \A r \in c.refs : \E p \in S : p.id = r /\ CanRefer(c, p)
             /\ \A p \in Names(S) \cup Tags(S) : CanRefer(c, p) => p.id \in c.refs
  <2>1. PICK d \in drafts : c = Numbered(c.id, d)
    BY <1>2
  <2>2. /\ c.kind = d.kind /\ c.tag = d.tag /\ c.scope = d.scope /\ c.refs = d.refs
        /\ \A p : CanRefer(c, p) <=> CanRefer(d, p)
    BY <2>1, NumberedFacts
  <2>3. DraftOk(S, d)
    OBVIOUS
  <2>4. c.id \in 1 .. MaxClaims
    BY <1>1, <1>2, <1>3, PathAssumption
  <2>5. c.refs \in SUBSET (1 .. MaxClaims)
    BY <1>1, <1>2, <1>3, <1>7, <2>2, <2>3, PathAssumption DEF DraftOk
  <2>6. c \in Claim
    BY <2>1, <2>2, <2>3, <2>4, <2>5 DEF DraftOk, Kind, Claim, Numbered
  <2> QED BY <2>2, <2>3, <2>6 DEF DraftOk
<1>9. TypeOK'
  <2>1. log' \in [Store -> SUBSET Claim] /\ seen' \in [Editor -> SUBSET Claim]
    BY <1>3, <1>8 DEF IInv, TypeOK
  <2>2. ledger' \in [Store -> SUBSET Claim] /\ at' \in [Editor -> Store]
    BY <1>4 DEF IInv, TypeOK
  <2>3. ASSUME NEW c \in M, NEW r \in c.refs PROVE r < c.id
    BY <1>1, <1>2, <1>7, <1>8
  <2>4. \A c \in Everything' : (\A r \in c.refs : r < c.id) /\ (c.kind = "remove" => c.refs # {})
    BY <1>3, <1>8, <2>3 DEF IInv, TypeOK, Everything
  <2>5. \A q \in Store : \A c \in log'[q] :
           (\A r \in c.refs : r < c.id) /\ (c.kind = "remove" => c.refs # {})
    BY <2>4 DEF Everything
  <2> QED BY <1>3, <2>1, <2>2, <2>5 DEF TypeOK
<1>10. \A c, d \in Everything' : c.id = d.id => c = d
  BY <1>1, <1>2, <1>3, <1>6 DEF IInv, HistoryInv
<1>11. \A c, d \in Everything' : c.kind = "create" /\ d.kind = "create" => c = d
  <2>1. Cardinality(Of(log[s] \cup M, "create")) = 1
    BY <1>4 DEF Folds
  <2>2. IsFiniteSet(Of(log[s] \cup M, "create"))
    <3>1. \A c \in log[s] \cup M : c.id \in 1 .. last + n
      BY <1>1, <1>2, <1>5, <1>6
    <3>2. \A c, d \in Of(log[s] \cup M, "create") : c.id = d.id => c = d
      BY <1>3, <1>5, <1>10 DEF Of
    <3> QED BY <1>1, <1>2, <3>1, <3>2, FiniteById DEF Of
  <2>3. PICK g : Of(log[s] \cup M, "create") = {g}
    BY <2>1, <2>2, FS_Singleton
  <2>4. \A c \in log[s] \cup M : c.kind = "create" => c = g
    BY <2>3 DEF Of
  <2>5. CASE log[s] = {}
    BY <1>3, <2>4, <2>5
  <2>6. CASE log[s] # {}
    <3>1. PICK f \in log[s] : f.kind = "create"
      BY <2>6 DEF IInv, HeldInv, Whole
    <3>2. \A c \in Everything : c.kind = "create" => c = g
      BY <1>5, <2>4, <3>1 DEF IInv, HistoryInv
    <3> QED BY <1>3, <2>4, <3>2
  <2> QED BY <2>5, <2>6
<1>12. ASSUME NEW c \in Everything
       PROVE  ClaimOk(c)'
  <2>1. ClaimOk(c) /\ saw'[c.id] = saw[c.id] /\ c.id \in 1 .. last
    BY <1>3, <1>6 DEF IInv, HistoryInv
  <2>2. \A i \in saw'[c.id] : i < c.id
    BY <2>1 DEF ClaimOk
  <2>3. \A p \in M : p.id \notin saw'[c.id]
    BY <1>1, <1>2, <2>1, <2>2
  <2>4. \A p \in Everything' : p.id \in saw'[c.id] => p \in Everything
    BY <1>3, <2>3
  <2>5. c.id <= Len(saw') /\ c.refs \subseteq saw'[c.id]
    BY <1>1, <1>2, <1>3, <2>1 DEF ClaimOk
  <2>6. \A r \in c.refs : \E p \in Everything' : p.id = r /\ CanRefer(c, p)
    BY <1>3, <2>1 DEF ClaimOk
  <2>7. \A p \in Everything' :
           p.kind \in {"name", "add"} /\ p.id \in saw'[c.id] /\ CanRefer(c, p)
           => \/ p.id \in c.refs
              \/ \E d \in Everything' : d.id \in saw'[c.id] /\ p.id \in d.refs
    BY <1>3, <2>1, <2>4 DEF ClaimOk
  <2> QED BY <2>2, <2>5, <2>6, <2>7 DEF ClaimOk
<1>13. ASSUME NEW c \in M
       PROVE  ClaimOk(c)'
  <2>1. saw'[c.id] = Ids(S) /\ c.id \in last + 1 .. last + n
    BY <1>2, <1>3
  <2>2. c.id <= Len(saw') /\ c.refs \subseteq saw'[c.id] /\ \A r \in saw'[c.id] : r < c.id
    BY <1>1, <1>2, <1>3, <1>7, <1>8, <2>1
  <2>3. \A r \in c.refs : \E p \in Everything' : p.id = r /\ CanRefer(c, p)
    BY <1>3, <1>5, <1>8
  <2>4. ASSUME NEW p \in Everything', p.kind \in {"name", "add"}, p.id \in saw'[c.id],
               CanRefer(c, p)
        PROVE  \/ p.id \in c.refs
               \/ \E d \in Everything' : d.id \in saw'[c.id] /\ p.id \in d.refs
    <3>1. PICK q \in S : q.id = p.id
      BY <2>1, <2>4 DEF Ids
    <3>2. p \in S
      BY <1>3, <1>5, <1>10, <3>1
    <3>3. CASE p.id \in Targets(S)
      <4>1. PICK d \in S : p.id \in d.refs
        BY <3>3 DEF Targets
      <4>2. d \in Everything' /\ d.id \in Ids(S)
        BY <1>3, <1>5 DEF Ids
      <4> QED BY <2>1, <4>1, <4>2
    <3>4. CASE p.id \notin Targets(S)
      <4>1. p \in Names(S) \cup Tags(S)
        BY <2>4, <3>2, <3>4 DEF Names, Tags, Of
      <4> QED BY <1>8, <2>4, <4>1
    <3> QED BY <3>3, <3>4
  <2> QED BY <2>2, <2>3, <2>4 DEF ClaimOk
<1>14. HistoryInv'
  BY <1>3, <1>10, <1>11, <1>12, <1>13 DEF HistoryInv
<1> DEFINE WholeNext(L) == L # {} => /\ \E c \in L : c.kind = "create"
                                     /\ \A c \in L : saw'[c.id] \subseteq Ids(L)
<1>15. ASSUME NEW L \in SUBSET Everything, Whole(L)
       PROVE  WholeNext(L)
  BY <1>3, <1>6, <1>15 DEF Whole
<1>16. WholeNext(log[s] \cup M)
  <2>1. \E c \in log[s] \cup M : c.kind = "create"
    <3>1. Cardinality(Of(log[s] \cup M, "create")) = 1
      BY <1>4 DEF Folds
    <3>2. Cardinality({}) # 1
      BY FS_EmptySet
    <3> DEFINE C == Of(log[s] \cup M, "create")
    <3> HIDE DEF C
    <3>3. C # {}
      BY <3>1, <3>2 DEF C
    <3>4. PICK c : c \in C
      BY <3>3
    <3> QED BY <3>4 DEF C, Of
  <2>2. \A c \in log[s] : saw'[c.id] \subseteq Ids(log[s] \cup M)
    <3>1. Whole(log[s])
      BY Zenon DEF IInv, HeldInv
    <3>2. ASSUME NEW c \in log[s] PROVE saw[c.id] \subseteq Ids(log[s])
      BY <3>1, <3>2, Zenon DEF Whole
    <3>3. ASSUME NEW c \in log[s] PROVE saw'[c.id] = saw[c.id]
      <4>1. c.id \in 1 .. last
        BY <1>5, <1>6, <3>3
      <4> QED BY <1>3, <4>1
    <3> QED BY <3>2, <3>3 DEF Ids
  <2>3. \A c \in M : saw'[c.id] \subseteq Ids(log[s] \cup M)
    BY <1>3, <1>5 DEF Ids
  <2> QED BY <2>1, <2>2, <2>3
<1> HIDE DEF WholeNext
<1>17. ASSUME NEW q \in Store
       PROVE  WholeNext(log'[q]) /\ WholeNext(ledger'[q]) /\ ledger'[q] \subseteq log'[q]
  <2>1. ledger[q] \subseteq log[q] /\ log[q] \subseteq Everything /\ Whole(ledger[q]) /\ Whole(log[q])
    BY DEF IInv, HeldInv, Everything
  <2>2. log'[q] = IF q = s THEN log[s] \cup M ELSE log[q]
    BY <1>3 DEF IInv, TypeOK
  <2>3. WholeNext(ledger[q]) /\ WholeNext(log[q])
    BY <1>15, <2>1
  <2> QED BY <1>4, <1>16, <2>1, <2>2, <2>3
<1>18. ASSUME NEW f \in Editor
       PROVE  WholeNext(seen'[f]) /\ seen'[f] \subseteq log'[at'[f]]
  <2>1. log'[s] = log[s] \cup M
    BY <1>3 DEF IInv, TypeOK
  <2>2. CASE f = e
    <3>1. seen'[f] = log[s] \cup M /\ at'[f] = s
      BY <1>3, <1>4, <2>2 DEF IInv, TypeOK
    <3> QED BY <1>16, <2>1, <3>1
  <2>3. CASE f # e
    <3>1. seen'[f] = seen[f] /\ at'[f] = at[f] /\ at[f] \in Store
      BY <1>3, <1>4, <2>3 DEF IInv, TypeOK
    <3>2. Whole(seen[f]) /\ seen[f] \subseteq log[at[f]]
      BY DEF IInv, HeldInv
    <3>3. log[at[f]] \subseteq log'[at[f]] /\ log[at[f]] \subseteq Everything
      BY <1>3, <3>1 DEF IInv, TypeOK, Everything
    <3>4. WholeNext(seen[f])
      BY <1>15, <3>2, <3>3
    <3> QED BY <3>1, <3>2, <3>3, <3>4
  <2> QED BY <2>2, <2>3
<1>19. HeldInv'
  BY <1>17, <1>18 DEF HeldInv, Whole, WholeNext
<1> QED BY <1>9, <1>14, <1>19 DEF IInv

\* A step that leaves the history alone, adds no claim to those there are, and
\* keeps what is held whole, keeps the invariant.
LEMMA SameHistory ==
  ASSUME IInv, TypeOK', HeldInv', UNCHANGED saw, Everything' = Everything
  PROVE  IInv'
<1>1. \A c : ClaimOk(c) => ClaimOk(c)'
  BY DEF ClaimOk
<1>2. HistoryInv'
  BY <1>1 DEF IInv, HistoryInv
<1> QED BY <1>2 DEF IInv

LEMMA InvNext == IInv /\ [Next]_vars => IInv'
<1> SUFFICES ASSUME IInv, [Next]_vars PROVE IInv'
  OBVIOUS
<1> USE DEF IInv
<1>1. ASSUME NEW e \in Editor, NEW s \in Store, Add(e, s)
      PROVE  IInv'
  <2>1. Everything = {}
    <3> SUFFICES ASSUME NEW c \in Everything PROVE FALSE
      OBVIOUS
    <3>1. Len(saw) = 0
      BY <1>1 DEF Add
    <3> QED BY <3>1, ClaimFacts
  <2>2. log[s] = {} /\ seen[e] = {}
    BY <2>1 DEF Everything, HeldInv, TypeOK
  <2>3. IsFiniteSet(AddDrafts)
    <3> DEFINE a == Draft("create", <<>>, NoScope, {})
               b == Draft("version", <<>>, NoScope, {})
               c == Draft("name", <<>>, NoScope, {})
    <3>1. AddDrafts = {a, b, c}
      BY DEF AddDrafts
    <3> HIDE DEF a, b, c
    <3>2. {a, b, c} = ({a} \cup {b}) \cup {c}
      OBVIOUS
    <3>3. IsFiniteSet({a}) /\ IsFiniteSet({b}) /\ IsFiniteSet({c})
      BY FS_Singleton
    <3>4. IsFiniteSet({a} \cup {b})
      BY <3>3, FS_Union
    <3>5. IsFiniteSet(({a} \cup {b}) \cup {c})
      BY <3>3, <3>4, FS_Union
    <3> QED BY <3>1, <3>2, <3>5
  <2>4. \A d \in AddDrafts : DraftOk(seen[e], d)
    BY <2>2 DEF AddDrafts, Draft, DraftOk, Kind, Names, Tags, Of
  <2>5. AppendAndLoad(e, s, AddDrafts)
    BY <1>1 DEF Add
  <2> QED BY <2>1, <2>2, <2>3, <2>4, <2>5, AppendInv
<1>2. ASSUME NEW e \in Editor, Edit(e)
      PROVE  IInv'
  <2>1. PICK drafts \in Edits(seen[e]) : AppendAndLoad(e, at[e], drafts)
    BY <1>2 DEF Edit
  <2>2. at[e] \in Store /\ seen[e] \subseteq log[at[e]] /\ seen[e] # {}
    BY <1>2 DEF TypeOK, HeldInv, Edit
  <2>3. IsFiniteSet(seen[e])
    BY <2>2, ClaimsFinite DEF Everything
  <2>4. IsFiniteSet(drafts) /\ \A d \in drafts : DraftOk(seen[e], d)
    BY <2>3, EditsOk
  <2> QED BY <2>1, <2>2, <2>4, AppendInv
<1>3. ASSUME NEW e \in Editor, NEW s \in Store, Load(e, s)
      PROVE  IInv'
  <2>1. TypeOK' /\ Everything' = Everything
    BY <1>3 DEF Load, TypeOK, Everything
  <2>2. HeldInv'
    BY <1>3 DEF Load, HeldInv, Whole, TypeOK
  <2> QED BY <1>3, <2>1, <2>2, SameHistory DEF Load
<1>4. ASSUME NEW s \in Store, Publish(s)
      PROVE  IInv'
  <2>1. TypeOK' /\ Everything' = Everything
    BY <1>4 DEF Publish, Captured, TypeOK, Everything
  <2>2. HeldInv'
    BY <1>4 DEF Publish, Captured, HeldInv, Whole, TypeOK
  <2> QED BY <1>4, <2>1, <2>2, SameHistory DEF Publish
<1>5. ASSUME NEW t \in Store, Recover(t)
      PROVE  IInv'
  <2> DEFINE union == UNION {ledger[s] : s \in Store}
  <2>1. /\ log[t] = {} /\ log' = [log EXCEPT ![t] = union]
        /\ UNCHANGED <<ledger, seen, at, saw>>
    BY <1>5 DEF Recover
  <2>2. union \subseteq Everything
    BY DEF HeldInv, Everything
  <2>3. Whole(union)
    <3>1. \A L \in {ledger[s] : s \in Store} : Whole(L)
      BY DEF HeldInv
    <3> QED BY <3>1, WholeUnion
  <2>4. ledger[t] \subseteq union
    OBVIOUS
  <2> HIDE DEF union
  <2>5. Everything' = Everything
    BY <2>1, <2>2 DEF Everything, TypeOK
  <2>6. \A s \in Store : log[s] \subseteq log'[s] /\ log'[s] = IF s = t THEN union ELSE log[s]
    BY <2>1 DEF TypeOK
  <2>7. TypeOK'
    <3>1. \A c \in Everything : c \in Claim /\ (\A r \in c.refs : r < c.id)
                                /\ (c.kind = "remove" => c.refs # {})
      BY DEF TypeOK, Everything
    <3>2. \A c \in union : c \in Claim /\ (\A r \in c.refs : r < c.id)
                           /\ (c.kind = "remove" => c.refs # {})
      BY <2>2, <3>1
    <3> QED BY <2>1, <2>6, <3>2 DEF TypeOK
  <2>8. HeldInv'
    BY <2>1, <2>3, <2>4, <2>6 DEF HeldInv, Whole, TypeOK
  <2> QED BY <2>1, <2>5, <2>7, <2>8, SameHistory
<1>6. ASSUME NEW s \in Store, NEW t \in Store, Copy(s, t)
      PROVE  IInv'
  <2>1. /\ log[t] = {} /\ log' = [log EXCEPT ![t] = log[s]]
        /\ ledger' = [ledger EXCEPT ![t] = ledger[s]]
        /\ UNCHANGED <<seen, at, saw>>
    BY <1>6 DEF Copy
  <2>2. \A q \in Store : /\ log[q] \subseteq log'[q]
                         /\ log'[q] = IF q = t THEN log[s] ELSE log[q]
                         /\ ledger'[q] = IF q = t THEN ledger[s] ELSE ledger[q]
    BY <2>1 DEF TypeOK
  <2>3. TypeOK' /\ Everything' = Everything
    BY <2>1, <2>2 DEF TypeOK, Everything
  <2>4. HeldInv'
    BY <2>1, <2>2 DEF HeldInv, Whole, TypeOK
  <2> QED BY <2>1, <2>3, <2>4, SameHistory
<1>7. CASE UNCHANGED vars
  BY <1>7, SameHistory DEF vars, TypeOK, HeldInv, Whole, Everything
<1> QED BY <1>1, <1>2, <1>3, <1>4, <1>5, <1>6, <1>7 DEF Next

\* The invariant holds in every state.
LEMMA Invariant == Spec => []IInv
BY InvInit, InvNext, PTL DEF Spec

----------------------------------------------------------------------------
(* The theorems.                                                           *)

\* Whatever the document may be anywhere is a whole set of its claims.
LEMMA ReplicaFacts ==
  ASSUME IInv, NEW L \in Replicas
  PROVE  L \in SUBSET Everything /\ Whole(L) /\ L # {}
<1>1. L # {}
  BY DEF Replicas
<1>2. ASSUME NEW s \in Store, L = log[s]
      PROVE  L \in SUBSET Everything /\ Whole(L)
  BY <1>2 DEF IInv, HeldInv, Everything
<1>3. ASSUME L = UNION {ledger[s] : s \in Store}
      PROVE  L \in SUBSET Everything /\ Whole(L)
  <2>1. \A M \in {ledger[s] : s \in Store} : Whole(M)
    BY DEF IInv, HeldInv
  <2>2. L \in SUBSET Everything
    BY <1>3 DEF IInv, HeldInv, Everything
  <2> QED BY <1>3, <2>1, <2>2, WholeUnion
<1> QED BY <1>1, <1>2, <1>3 DEF Replicas

\* However many stores, editors and edits there are, every variable holds a value of its
\* kind, claims refer to earlier claims only, and a removal refers to something.
THEOREM DocumentTyped == Spec => []TypeOK
<1>1. IInv => TypeOK
  BY DEF IInv
<1> QED BY <1>1, Invariant, PTL

\* Any edit by any editor, made from a snapshot however old, leaves a log that folds: the
\* commands that edit never fail for what others did meanwhile.
THEOREM EveryEditFits == Spec => []EditsAccepted
<1>1. IInv => EditsAccepted
  <2> SUFFICES ASSUME IInv, NEW e \in Editor, seen[e] # {}, NEW drafts \in Edits(seen[e])
               PROVE  Folds(log[at[e]] \cup Minted(drafts))
    BY DEF EditsAccepted
  <2>1. at[e] \in Store /\ seen[e] \subseteq log[at[e]] /\ Whole(log[at[e]])
    BY DEF IInv, TypeOK, HeldInv
  <2>2. log[at[e]] \subseteq Everything
    BY <2>1 DEF Everything
  <2>3. IsFiniteSet(seen[e])
    BY <2>1, <2>2, ClaimsFinite
  <2>4. IsFiniteSet(drafts) /\ \A d \in drafts : DraftOk(seen[e], d) /\ d.kind # "create"
    BY <2>3, EditsOk
  <2> QED BY <2>1, <2>2, <2>4, AppendFolds
<1> QED BY <1>1, Invariant, PTL

\* Any checkpoints, and any logs, of the stores of one document fold together: recovery
\* never meets claims that contradict one another or lack one they refer to.
THEOREM EveryMergeFolds == Spec => []MergesFold
<1>1. IInv => MergesFold
  <2> SUFFICES ASSUME IInv PROVE MergesFold
    OBVIOUS
  <2>1. ASSUME UNION {ledger[s] : s \in Store} # {}
        PROVE  Folds(UNION {ledger[s] : s \in Store})
    <3>1. UNION {ledger[s] : s \in Store} \in Replicas
      BY <2>1 DEF Replicas
    <3> QED BY <3>1, ReplicaFacts, WholeFolds
  <2>2. ASSUME NEW S \in SUBSET Store, UNION {log[s] : s \in S} # {}
        PROVE  Folds(UNION {log[s] : s \in S})
    <3>1. \A L \in {log[s] : s \in S} : Whole(L)
      BY DEF IInv, HeldInv
    <3>2. Whole(UNION {log[s] : s \in S})
      BY <3>1, WholeUnion
    <3>3. UNION {log[s] : s \in S} \subseteq Everything
      BY DEF Everything
    <3> QED BY <2>2, <3>2, <3>3, WholeFolds
  <2> QED BY <2>1, <2>2 DEF MergesFold
<1> QED BY <1>1, Invariant, PTL

\* In any store, and after any recovery, the current names and tags are those that nobody
\* who saw them has replaced: what an editor had not seen survives it, and what it had
\* seen and replaced stays replaced, in whatever order stores meet.
THEOREM CurrentIsUnreplaced == Spec => []FrontierIsHistory
<1>1. IInv => FrontierIsHistory
  <2> SUFFICES ASSUME IInv, NEW L \in Replicas
               PROVE  Names(L) \cup Tags(L) =
                        {p \in Of(L, "name") \cup Of(L, "add") :
                            ~\E c \in L : p.id \in saw[c.id] /\ CanRefer(c, p)}
    BY DEF FrontierIsHistory
  <2>1. L \subseteq Everything /\ Whole(L)
    BY ReplicaFacts
  <2>2. Names(L) \cup Tags(L) =
          {p \in Of(L, "name") \cup Of(L, "add") : p.id \notin Targets(L)}
    BY DEF Names, Tags
  <2>3. ASSUME NEW p \in Of(L, "name") \cup Of(L, "add")
        PROVE  p.id \in Targets(L) <=> \E c \in L : p.id \in saw[c.id] /\ CanRefer(c, p)
    <3>1. p \in L /\ p.kind \in {"name", "add"}
      BY DEF Of
    <3>2. ASSUME p.id \in Targets(L)
          PROVE  \E c \in L : p.id \in saw[c.id] /\ CanRefer(c, p)
      <4>1. PICK c \in L : p.id \in c.refs
        BY <3>2 DEF Targets
      <4>2. PICK q \in L : q.id = p.id /\ CanRefer(c, q)
        BY <2>1, <4>1, WholeRefers
      <4>3. q = p
        BY <2>1, <3>1, <4>2 DEF IInv, HistoryInv
      <4>4. p.id \in saw[c.id]
        BY <2>1, <4>1, ClaimFacts
      <4> QED BY <4>2, <4>3, <4>4
    <3>3. ASSUME NEW c \in L, p.id \in saw[c.id], CanRefer(c, p)
          PROVE  p.id \in Targets(L)
      <4>1. ClaimOk(c) /\ p \in Everything
        BY <2>1, <3>1 DEF IInv, HistoryInv
      <4>2. CASE p.id \in c.refs
        BY <4>2 DEF Targets
      <4>3. CASE \E d \in Everything : d.id \in saw[c.id] /\ p.id \in d.refs
        <5>1. PICK d \in Everything : d.id \in saw[c.id] /\ p.id \in d.refs
          BY <4>3
        <5>2. PICK f \in L : f.id = d.id
          BY <2>1, <5>1 DEF Whole, Ids
        <5>3. f = d
          BY <2>1, <5>2 DEF IInv, HistoryInv
        <5> QED BY <5>1, <5>3 DEF Targets
      <4> QED BY <3>1, <3>3, <4>1, <4>2, <4>3 DEF ClaimOk
    <3> QED BY <3>2, <3>3
  <2> QED BY <2>2, <2>3
<1> QED BY <1>1, Invariant, PTL

\* In any store, and after any recovery, a single head version derives from every version
\* saved anywhere that has reached it: no save is lost by reading the head.
THEOREM OneHeadDerivesFromAll == Spec => []OneHeadHasAll
<1>1. IInv => OneHeadHasAll
  <2> SUFFICES ASSUME IInv, NEW L \in Replicas, NEW h \in Heads(L), Cardinality(Heads(L)) = 1
               PROVE  Ids(Of(L, "version")) \subseteq Ancestors(L, h)
    BY DEF OneHeadHasAll
  <2>1. L \subseteq Everything /\ Whole(L) /\ IsFiniteSet(L)
    BY ReplicaFacts, ClaimsFinite
  <2>2. \A c \in L : c.id \in Nat /\ c.refs \subseteq Nat
    BY <2>1, ClaimFacts
  <2>3. Heads(L) = {h}
    <3>1. IsFiniteSet(Heads(L))
      BY <2>1, FS_Subset DEF Heads, Of
    <3> QED BY <3>1, FS_Singleton
  <2>4. ASSUME NEW v \in Of(L, "version") \ {h}
        PROVE  \E c \in Of(L, "version") : v.id \in c.refs /\ v.id < c.id
    <3>1. v \in L /\ v.kind = "version" /\ v.id \in Targets(L)
      BY <2>3 DEF Heads, Of
    <3>2. PICK c \in L : v.id \in c.refs
      BY <3>1 DEF Targets
    <3>3. PICK p \in L : p.id = v.id /\ CanRefer(c, p)
      BY <2>1, <3>2, WholeRefers
    <3>4. p = v
      BY <2>1, <3>1, <3>3 DEF IInv, HistoryInv
    <3>5. c.kind = "version"
      BY <3>1, <3>3, <3>4 DEF CanRefer
    <3>6. v.id < c.id
      BY <2>1, <3>2, ClaimFacts
    <3> QED BY <3>2, <3>5, <3>6 DEF Of
  <2>5. h \in L
    BY DEF Heads, Of
  <2> QED BY <2>1, <2>2, <2>4, <2>5, AncestorsAll
<1> QED BY <1>1, Invariant, PTL
=============================================================================
