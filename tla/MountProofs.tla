---------------------------- MODULE MountProofs ----------------------------
(***************************************************************************)
(* Theorems of Mount: facets narrow, tags are reachable by their paths,    *)
(* what a directory lists is what a lookup there finds, and leaves keep    *)
(* their documents.                                                        *)
(***************************************************************************)
EXTENDS Mount, InductionFacts, SequenceTheorems

----------------------------------------------------------------------------
(* The values of rows and of what is computed from them.                   *)

Row == [tags : SUBSET (Seq(Text) \ {NoPath}), names : SUBSET (Seq(Text) \ {<<>>}),
        heads : SUBSET Version]

\* Finitely many names and heads, so that the growing of suffixes ends.
RowOk(row) == row \in Row /\ IsFiniteSet(row.names) /\ IsFiniteSet(row.heads)

IndexOk(ix) == \A d \in Indexed(ix) : RowOk(ix[d])

Walks == [constraints : SUBSET Seq(Text), partial : Seq(Text), valid : BOOLEAN]

NoWalk == [constraints |-> {}, partial |-> NoPath, valid |-> TRUE]

MountInv == rows \in [Doc -> Row \cup {Unindexed}] /\ IndexOk(rows) /\ cwd \in Seq(Seq(Text))

----------------------------------------------------------------------------
(* Walks.                                                                  *)

\* A prefix is as far as it goes the same path.
LEMMA PrefixIs ==
  ASSUME NEW S, NEW s \in Seq(S), NEW t \in Seq(S)
  PROVE  IsPrefix(s, t) <=> Len(s) <= Len(t) /\ \A i \in 1 .. Len(s) : s[i] = t[i]
<1>1. SubSeq(s, 1, Len(s)) = s
  OBVIOUS
<1>2. ASSUME Len(s) <= Len(t)
      PROVE  SubSeq(t, 1, Len(s)) \in Seq(S) /\ Len(SubSeq(t, 1, Len(s))) = Len(s)
             /\ \A i \in 1 .. Len(s) : SubSeq(t, 1, Len(s))[i] = t[i]
  BY <1>2
<1>3. ASSUME Len(s) <= Len(t), \A i \in 1 .. Len(s) : s[i] = t[i]
      PROVE  s = SubSeq(t, 1, Len(s))
  BY <1>2, <1>3, SeqEqual
<1> QED BY <1>1, <1>2, <1>3 DEF IsPrefix

Place(constraints, partial, valid) ==
    [constraints |-> constraints, partial |-> partial, valid |-> valid]

\* The fields of a walk.
LEMMA WalkFields ==
  ASSUME NEW w \in Walks
  PROVE  /\ w.constraints \in SUBSET Seq(Text)
         /\ w.partial \in Seq(Text)
         /\ w.valid \in BOOLEAN
BY DEF Walks

LEMMA PlaceIs ==
  ASSUME NEW A, NEW p, NEW b
  PROVE  /\ Place(A, p, b).constraints = A
         /\ Place(A, p, b).partial = p
         /\ Place(A, p, b).valid = b
BY DEF Place

LEMMA PlaceType ==
  ASSUME NEW A \in SUBSET Seq(Text), NEW p \in Seq(Text), NEW b \in BOOLEAN
  PROVE  Place(A, p, b) \in Walks
BY DEF Walks, Place

\* Changing one field of a walk.
LEMMA SetPartial ==
  ASSUME NEW w \in Walks, NEW p \in Seq(Text)
  PROVE  [w EXCEPT !.partial = p] = Place(w.constraints, p, w.valid)
BY DEF Walks, Place

LEMMA SetValid ==
  ASSUME NEW w \in Walks, NEW b \in BOOLEAN
  PROVE  [w EXCEPT !.valid = b] = Place(w.constraints, w.partial, b)
BY DEF Walks, Place

\* A walk whose path was taken up as a condition.
LEMMA ConstrainIs ==
  ASSUME NEW w \in Walks
  PROVE  /\ Constrain(w) \in Walks
         /\ Constrain(w).constraints = w.constraints \cup ({w.partial} \ {NoPath})
         /\ Constrain(w).partial = NoPath
         /\ Constrain(w).valid = w.valid
<1> DEFINE A == w.constraints \cup ({w.partial} \ {NoPath})
           u == [w EXCEPT !.constraints = A]
<1>1. u \in Walks /\ u.constraints = A /\ u.partial = w.partial /\ u.valid = w.valid
  BY DEF Walks
<1>2. Constrain(w) = [u EXCEPT !.partial = NoPath]
  BY DEF Constrain
<1>3. NoPath \in Seq(Text)
  BY DEF NoPath
<1> HIDE DEF u, A
<1>4. Constrain(w) = Place(A, NoPath, w.valid) /\ Constrain(w) \in Walks
  BY <1>1, <1>2, <1>3 DEF Walks, Place
<1> QED BY <1>4, PlaceIs DEF A

\* A step down a tag, and a step to another tag.
LEMMA WalkIntoIs ==
  ASSUME NEW ix, NEW w \in Walks, NEW c \in Text
  PROVE  LET deeper == Append(w.partial, c)
             next == IF TagPrefixExists(ix, deeper) THEN Place(w.constraints, deeper, w.valid)
                     ELSE Place(w.constraints \cup ({w.partial} \ {NoPath}), <<c>>,
                                w.valid /\ TagPrefixExists(ix, <<c>>))
         IN /\ WalkInto(ix, w, c) = Completed(ix, next)
            /\ next \in Walks
<1> DEFINE deeper == Append(w.partial, c)
           further == [w EXCEPT !.partial = deeper]
           v == Constrain(w)
           known == TagPrefixExists(ix, <<c>>)
           u == [v EXCEPT !.partial = <<c>>]
           another == [Constrain(w) EXCEPT !.partial = <<c>>,
                                           !.valid = @ /\ TagPrefixExists(ix, <<c>>)]
<1>1. deeper \in Seq(Text) /\ <<c>> \in Seq(Text)
  BY WalkFields
<1>2. known \in BOOLEAN
  BY DEF TagPrefixExists
<1>3. v \in Walks
  BY ConstrainIs
<1>4. another = [u EXCEPT !.valid = @ /\ known]
  OBVIOUS
<1>5. /\ v.constraints = w.constraints \cup ({w.partial} \ {NoPath})
      /\ v.valid = w.valid
  BY ConstrainIs
<1>6. WalkInto(ix, w, c) = Completed(ix, IF TagPrefixExists(ix, deeper) THEN further ELSE another)
  BY Zenon DEF WalkInto
<1> HIDE DEF v, known, deeper
<1>7. further = Place(w.constraints, deeper, w.valid) /\ further \in Walks
  BY <1>1, SetPartial, WalkFields, PlaceType
<1>8. u = Place(v.constraints, <<c>>, v.valid) /\ u \in Walks
  <2>1. <<c>> \in Seq(Text)
    OBVIOUS
  <2>2. u = Place(v.constraints, <<c>>, v.valid)
    BY <1>3, <2>1, SetPartial
  <2>3. v.constraints \in SUBSET Seq(Text) /\ v.valid \in BOOLEAN
    BY <1>3, WalkFields
  <2> HIDE DEF u
  <2> QED BY <2>1, <2>2, <2>3, PlaceType
<1>9. u.constraints = v.constraints /\ u.partial = <<c>> /\ u.valid = v.valid
  BY <1>8, PlaceIs
<1> HIDE DEF u
<1>10. another = Place(v.constraints, <<c>>, v.valid /\ known)
  <2>1. (u.valid /\ known) \in BOOLEAN
    BY <1>2, <1>8, WalkFields
  <2>2. [u EXCEPT !.valid = u.valid /\ known] = Place(u.constraints, u.partial, u.valid /\ known)
    BY <1>8, <2>1, SetValid
  <2> QED BY <1>4, <1>9, <2>2
<1>11. another \in Walks
  <2> DEFINE ok == v.valid /\ known
             known_to == v.constraints
  <2>1. ok \in BOOLEAN /\ known_to \in SUBSET Seq(Text)
    BY <1>2, <1>3, WalkFields
  <2>2. another = Place(known_to, <<c>>, ok)
    BY <1>10
  <2> HIDE DEF ok, known_to, another
  <2>3. Place(known_to, <<c>>, ok) \in Walks
    BY <1>1, <2>1, PlaceType
  <2> QED BY <2>2, <2>3
<1> HIDE DEF further, another
<1> QED BY <1>5, <1>6, <1>7, <1>10, <1>11 DEF deeper, known

\* Each step of a walk gives a walk.
LEMMA WalkIntoType ==
  ASSUME NEW ix, NEW w \in Walks, NEW c \in Text
  PROVE  WalkInto(ix, w, c) \in Walks
<1>1. PICK next \in Walks : WalkInto(ix, w, c) = Completed(ix, next)
  BY WalkIntoIs, Zenon
<1> QED BY <1>1, ConstrainIs DEF Completed

\* A walk is taken component by component.
LEMMA WalkDef ==
  ASSUME NEW ix, NEW cs \in Seq(Text)
  PROVE  \E walked \in [0 .. Len(cs) -> Walks] :
            /\ walked[0] = NoWalk
            /\ \A n \in 1 .. Len(cs) : walked[n] = WalkInto(ix, walked[n - 1], cs[n])
            /\ Walk(ix, cs) = walked[Len(cs)]
<1> DEFINE N == Len(cs)
           Into(w, n) == WalkInto(ix, w, cs[n])
           F == [n \in 1 .. N |-> [w \in Walks |-> Into(w, n)]]
           Solves(f) == f = [n \in 0 .. N |-> IF n = 0 THEN NoWalk ELSE Into(f[n - 1], n)]
           up == CHOOSE f : Solves(f)
<1>1. N \in Nat
  OBVIOUS
<1>2. F \in [1 .. N -> [Walks -> Walks]] /\ NoWalk \in Walks
  <2>1. \A w \in Walks : \A n \in 1 .. N : Into(w, n) \in Walks
    BY WalkIntoType
  <2>2. NoWalk \in Walks
    BY DEF NoWalk, Walks, NoPath
  <2> HIDE DEF Into
  <2> QED BY <2>1, <2>2
<1>3. PICK f \in [0 .. N -> Walks] : Recursive(f, N, NoWalk, F)
  <2> HIDE DEF N, F
  <2> QED BY <1>1, <1>2, RecursiveExists
<1>4. Solves(f)
  <2>1. ASSUME NEW n \in 0 .. N, n # 0
        PROVE  F[n][f[n - 1]] = Into(f[n - 1], n)
    <3>1. f[n - 1] \in Walks /\ n \in 1 .. N
      BY <1>1, <2>1
    <3> HIDE DEF Into
    <3> QED BY <3>1
  <2> HIDE DEF F, N, Into
  <2> QED BY <1>3, <2>1 DEF Recursive
<1>5. Solves(up)
  <2> HIDE DEF Solves
  <2> QED BY <1>4
<1>6. Walk(ix, cs) = up[N]
  BY DEF Walk, NoWalk
<1> HIDE DEF up, N
<1>7. \A n \in 0 .. N : up[n] = IF n = 0 THEN NoWalk ELSE Into(up[n - 1], n)
  <2> HIDE DEF Into
  <2> QED BY <1>5, Zenon
<1>8. up[0] = NoWalk /\ \A n \in 1 .. N : up[n] = Into(up[n - 1], n)
  <2> HIDE DEF Into, Solves
  <2>1. 0 \in 0 .. N /\ \A n \in 1 .. N : n \in 0 .. N /\ n # 0
    BY <1>1
  <2> QED BY <1>7, <2>1, Zenon
<1>9. up \in [0 .. N -> Walks]
  <2> DEFINE Known == {n \in 0 .. N : up[n] \in Walks}
  <2>1. 0 \in Known
    BY <1>1, <1>2, <1>8
  <2>2. ASSUME NEW n \in 1 .. N, n - 1 \in Known PROVE n \in Known
    <3>1. Into(up[n - 1], n) \in Walks
      BY <2>2, WalkIntoType DEF N
    <3> HIDE DEF Into
    <3> QED BY <1>1, <1>8, <2>2, <3>1
  <2>3. 0 .. N \subseteq Known
    <3> HIDE DEF Known
    <3> QED BY <1>1, <2>1, <2>2, UpTo
  <2>4. up = [n \in 0 .. N |-> IF n = 0 THEN NoWalk ELSE Into(up[n - 1], n)]
    BY <1>5
  <2>5. up = [n \in 0 .. N |-> up[n]]
    <3> HIDE DEF Into
    <3> QED BY <2>4
  <2> QED BY <2>3, <2>5
<1> QED BY <1>6, <1>8, <1>9 DEF N

LEMMA WalkType ==
  ASSUME NEW ix, NEW cs \in Seq(Text)
  PROVE  Walk(ix, cs) \in Walks
BY WalkDef

\* One more component is one more step.
LEMMA WalkAppend ==
  ASSUME NEW ix, NEW cs \in Seq(Text), NEW c \in Text
  PROVE  Walk(ix, Append(cs, c)) = WalkInto(ix, Walk(ix, cs), c)
<1> DEFINE N == Len(cs)
           ds == Append(cs, c)
<1>1. ds \in Seq(Text) /\ Len(ds) = N + 1 /\ ds[N + 1] = c
      /\ N \in Nat /\ \A n \in 1 .. N : ds[n] = cs[n]
  OBVIOUS
<1>2. PICK f \in [0 .. N -> Walks] :
         /\ f[0] = NoWalk
         /\ \A n \in 1 .. N : f[n] = WalkInto(ix, f[n - 1], cs[n])
         /\ Walk(ix, cs) = f[N]
  BY WalkDef
<1>3. PICK g \in [0 .. Len(ds) -> Walks] :
         /\ g[0] = NoWalk
         /\ \A n \in 1 .. Len(ds) : g[n] = WalkInto(ix, g[n - 1], ds[n])
         /\ Walk(ix, ds) = g[Len(ds)]
  <2> HIDE DEF ds
  <2> QED BY <1>1, WalkDef
<1> HIDE DEF N, ds
<1>4. 0 .. N \subseteq {n \in 0 .. N : f[n] = g[n]}
  <2> DEFINE S == {n \in 0 .. N : f[n] = g[n]}
  <2>1. 0 \in S
    BY <1>1, <1>2, <1>3
  <2>2. ASSUME NEW n \in 1 .. N, n - 1 \in S PROVE n \in S
    BY <1>1, <1>2, <1>3, <2>2
  <2> HIDE DEF S
  <2>3. 0 .. N \subseteq S
    BY <1>1, <2>1, <2>2, UpTo
  <2> QED BY <2>3 DEF S
<1>5. f[N] = g[N]
  BY <1>1, <1>4
<1>6. g[N + 1] = WalkInto(ix, g[N], c)
  BY <1>1, <1>3
<1> QED BY <1>1, <1>2, <1>3, <1>5, <1>6 DEF ds

\* The documents that a walk leads to are those under all its conditions.
LEMMA MatchingIs ==
  ASSUME NEW ix, NEW w \in Walks
  PROVE  MatchingRows(ix, w) =
           {d \in Indexed(ix) :
              \A path \in w.constraints \cup ({w.partial} \ {NoPath}) : d \in Under(ix, path)}
<1>1. Constrain(w).constraints = w.constraints \cup ({w.partial} \ {NoPath})
  BY ConstrainIs
<1> QED BY <1>1 DEF MatchingRows

\* A tag that goes on with c below a path is one at or under the path with c appended.
LEMMA BelowIs ==
  ASSUME NEW p \in Seq(Text), NEW t \in Seq(Text), NEW c \in Text
  PROVE  IsPrefix(Append(p, c), t) <=> IsPrefix(p, t) /\ Len(t) > Len(p) /\ t[Len(p) + 1] = c
<1> DEFINE q == Append(p, c)
<1>1. /\ q \in Seq(Text) /\ Len(q) = Len(p) + 1 /\ q[Len(p) + 1] = c
      /\ \A i \in 1 .. Len(p) : q[i] = p[i]
  OBVIOUS
<1>2. Len(p) \in Nat /\ Len(t) \in Nat
  OBVIOUS
<1>3. IsPrefix(p, t) <=> Len(p) <= Len(t) /\ \A i \in 1 .. Len(p) : p[i] = t[i]
  BY PrefixIs
<1> HIDE DEF q
<1>4. IsPrefix(q, t) <=> Len(q) <= Len(t) /\ \A i \in 1 .. Len(q) : q[i] = t[i]
  BY <1>1, PrefixIs
<1>5. \A i \in 1 .. Len(q) : i \in 1 .. Len(p) \/ i = Len(p) + 1
  BY <1>1, <1>2
<1>6. IsPrefix(q, t) => IsPrefix(p, t) /\ Len(t) > Len(p) /\ t[Len(p) + 1] = c
  BY <1>1, <1>2, <1>3, <1>4
<1>7. IsPrefix(p, t) /\ Len(t) > Len(p) /\ t[Len(p) + 1] = c => IsPrefix(q, t)
  BY <1>1, <1>2, <1>3, <1>4, <1>5
<1> QED BY <1>6, <1>7 DEF q

\* The tags of documents with rows are paths.
LEMMA TagFacts ==
  ASSUME NEW ix, IndexOk(ix), NEW d \in Indexed(ix), NEW t \in ix[d].tags
  PROVE  t \in Seq(Text) /\ t # NoPath
BY DEF IndexOk, RowOk, Row

\* Documents by what follows a walk are those that the next step leads to.
LEMMA DocsByIs ==
  ASSUME NEW ix, IndexOk(ix), NEW w \in Walks, NEW c \in Text
  PROVE  DocsBy(ix, w, c) = MatchingRows(ix, w) \cap Under(ix, Append(w.partial, c))
<1>1. w.partial \in Seq(Text)
  BY WalkFields
<1>2. MatchingRows(ix, w) \subseteq Indexed(ix)
  BY DEF MatchingRows
<1>3. ASSUME NEW d \in Indexed(ix)
      PROVE  (\E t \in TagsBelow(ix, w, {d}) : t[Len(w.partial) + 1] = c)
             <=> d \in Under(ix, Append(w.partial, c))
  <2>1. UNION {ix[e].tags : e \in {d}} = ix[d].tags
    OBVIOUS
  <2>2. \A t \in ix[d].tags :
           IsPrefix(Append(w.partial, c), t)
           <=> IsPrefix(w.partial, t) /\ Len(t) > Len(w.partial) /\ t[Len(w.partial) + 1] = c
    BY <1>1, TagFacts, BelowIs
  <2> QED BY <2>1, <2>2 DEF TagsBelow, Under
<1> QED BY <1>2, <1>3 DEF DocsBy

\* A component that a directory may offer: the walk goes on with it, as valid as
\* before, to documents that there are.
LEMMA Descend ==
  ASSUME NEW ix, IndexOk(ix), NEW w \in Walks, NEW c \in Components(ix, w)
  PROVE  /\ c \in Text
         /\ WalkInto(ix, w, c).valid = w.valid
         /\ MatchingRows(ix, WalkInto(ix, w, c)) = DocsBy(ix, w, c)
         /\ DocsBy(ix, w, c) # {}
<1> DEFINE deeper == Append(w.partial, c)
           next == Place(w.constraints, deeper, w.valid)
<1>1. w.partial \in Seq(Text) /\ w.constraints \in SUBSET Seq(Text) /\ w.valid \in BOOLEAN
  BY WalkFields
<1>2. PICK d \in MatchingRows(ix, w) : \E t \in ix[d].tags :
         IsPrefix(w.partial, t) /\ Len(t) > Len(w.partial) /\ t[Len(w.partial) + 1] = c
  BY DEF Components, TagsBelow
<1>3. d \in Indexed(ix)
  BY DEF MatchingRows
<1> PICK t \in ix[d].tags :
         IsPrefix(w.partial, t) /\ Len(t) > Len(w.partial) /\ t[Len(w.partial) + 1] = c
  BY <1>2
<1>4. t \in Seq(Text)
  BY <1>3, TagFacts
<1>5. c \in Text
  <2>1. Len(w.partial) + 1 \in 1 .. Len(t)
    BY <1>1, <1>2, <1>4
  <2> QED BY <1>2, <1>4, <2>1
<1>6. IsPrefix(deeper, t)
  BY <1>1, <1>2, <1>4, <1>5, BelowIs
<1>7. d \in Under(ix, deeper) /\ TagPrefixExists(ix, deeper)
  BY <1>3, <1>6 DEF Under, TagPrefixExists
<1>8. deeper \in Seq(Text) /\ deeper # NoPath
  BY <1>1, <1>5 DEF NoPath
<1>9. DocsBy(ix, w, c) = MatchingRows(ix, w) \cap Under(ix, deeper)
  BY <1>5, DocsByIs
<1> HIDE DEF deeper
<1>10. next \in Walks
  BY <1>1, <1>8, PlaceType
<1>11. next.constraints = w.constraints /\ next.partial = deeper /\ next.valid = w.valid
  BY PlaceIs
<1>12. WalkInto(ix, w, c) = Completed(ix, next)
  BY <1>5, <1>7, WalkIntoIs DEF deeper
<1> HIDE DEF next
<1>13. Constrain(next) \in Walks /\ Constrain(next).constraints = w.constraints \cup {deeper}
       /\ Constrain(next).partial = NoPath /\ Constrain(next).valid = w.valid
  BY <1>8, <1>10, <1>11, ConstrainIs
<1>14. \A p \in Under(ix, deeper) : p \in Indexed(ix)
  BY DEF Under
<1>15. MatchingRows(ix, WalkInto(ix, w, c)) =
         {e \in Indexed(ix) : \A path \in w.constraints \cup {deeper} : e \in Under(ix, path)}
  <2>1. MatchingRows(ix, next) =
          {e \in Indexed(ix) : \A path \in w.constraints \cup {deeper} : e \in Under(ix, path)}
    BY <1>8, <1>10, <1>11, MatchingIs
  <2>2. MatchingRows(ix, Constrain(next)) =
          {e \in Indexed(ix) : \A path \in w.constraints \cup {deeper} : e \in Under(ix, path)}
    BY <1>13, MatchingIs
  <2> QED BY <1>12, <2>1, <2>2 DEF Completed
<1>16. ASSUME NEW e \in Under(ix, deeper), w.partial # NoPath
       PROVE  e \in Under(ix, w.partial)
  <2>1. e \in Indexed(ix) /\ \E u \in ix[e].tags : IsPrefix(deeper, u)
    BY DEF Under
  <2>2. PICK u \in ix[e].tags : IsPrefix(deeper, u)
    BY <2>1
  <2>3. u \in Seq(Text)
    BY <2>1, TagFacts
  <2>4. IsPrefix(w.partial, u)
    BY <1>1, <1>5, <2>2, <2>3, BelowIs DEF deeper
  <2> QED BY <2>1, <2>4 DEF Under
<1>17. MatchingRows(ix, WalkInto(ix, w, c)) = DocsBy(ix, w, c)
  <2>1. MatchingRows(ix, w) =
          {e \in Indexed(ix) :
             \A path \in w.constraints \cup ({w.partial} \ {NoPath}) : e \in Under(ix, path)}
    BY MatchingIs
  <2> QED BY <1>9, <1>14, <1>15, <1>16, <2>1
<1>18. WalkInto(ix, w, c).valid = w.valid
  BY <1>11, <1>12, <1>13 DEF Completed
<1>19. DocsBy(ix, w, c) # {}
  BY <1>2, <1>7, <1>9
<1> QED BY <1>5, <1>17, <1>18, <1>19

----------------------------------------------------------------------------
(* Paths.                                                                  *)

Parsed == [components : Seq(Text), docView : BOOLEAN, docName : Seq(Text)]

NoSegments == [components |-> <<>>, docView |-> FALSE, docName |-> <<>>]

\* What a segment does to a path parsed so far.
LEMMA ParseSegmentIs ==
  ASSUME NEW p \in Parsed, NEW s \in Seq(Text)
  PROVE  LET q == ParseSegment(p, s) IN
         /\ q \in Parsed
         /\ s = Toggle => q.components = p.components /\ q.docView = ~p.docView /\ q.docName = <<>>
         /\ s # Toggle /\ p.docView => q.components = p.components /\ q.docView /\ q.docName = s
         /\ s # Toggle /\ ~p.docView =>
               q.components = p.components \o s /\ ~q.docView /\ q.docName = p.docName
<1>1. p.components \in Seq(Text) /\ p.docView \in BOOLEAN /\ p.docName \in Seq(Text)
  BY DEF Parsed
<1>2. CASE s = Toggle
  <2> DEFINE turned == ~p.docView
             u == [p EXCEPT !.docView = turned]
  <2>1. turned \in BOOLEAN /\ <<>> \in Seq(Text)
    OBVIOUS
  <2>2. ParseSegment(p, s) = [u EXCEPT !.docName = <<>>]
    BY <1>2 DEF ParseSegment
  <2> HIDE DEF turned
  <2>3. u \in Parsed /\ u.components = p.components /\ u.docView = turned
    BY <1>1, <2>1 DEF Parsed
  <2> HIDE DEF u
  <2>4. /\ ParseSegment(p, s) \in Parsed
        /\ ParseSegment(p, s).components = u.components
        /\ ParseSegment(p, s).docView = u.docView
        /\ ParseSegment(p, s).docName = <<>>
    BY <2>1, <2>2, <2>3 DEF Parsed
  <2> QED BY <1>2, <2>3, <2>4 DEF turned
<1>3. CASE s # Toggle /\ p.docView
  BY <1>1, <1>3 DEF ParseSegment, Parsed
<1>4. CASE s # Toggle /\ ~p.docView
  <2>1. ParseSegment(p, s) = [p EXCEPT !.components = p.components \o s]
    BY <1>4 DEF ParseSegment
  <2>2. p.components \o s \in Seq(Text)
    BY <1>1
  <2> QED BY <1>1, <1>4, <2>1, <2>2 DEF Parsed
<1> QED BY <1>1, <1>2, <1>3, <1>4

\* A path is parsed segment by segment.
LEMMA ParseDef ==
  ASSUME NEW path \in Seq(Seq(Text))
  PROVE  \E parse \in [0 .. Len(path) -> Parsed] :
            /\ parse[0] = NoSegments
            /\ \A n \in 1 .. Len(path) : parse[n] = ParseSegment(parse[n - 1], path[n])
            /\ Parse(path) = parse[Len(path)]
<1> DEFINE N == Len(path)
           Into(p, n) == ParseSegment(p, path[n])
           F == [n \in 1 .. N |-> [p \in Parsed |-> Into(p, n)]]
           Solves(f) == f = [n \in 0 .. N |-> IF n = 0 THEN NoSegments ELSE Into(f[n - 1], n)]
           up == CHOOSE f : Solves(f)
<1>1. N \in Nat
  OBVIOUS
<1>2. F \in [1 .. N -> [Parsed -> Parsed]] /\ NoSegments \in Parsed
  <2>1. \A p \in Parsed : \A n \in 1 .. N : Into(p, n) \in Parsed
    BY ParseSegmentIs
  <2>2. NoSegments \in Parsed
    BY DEF NoSegments, Parsed
  <2> HIDE DEF Into
  <2> QED BY <2>1, <2>2
<1>3. PICK f \in [0 .. N -> Parsed] : Recursive(f, N, NoSegments, F)
  <2> HIDE DEF N, F
  <2> QED BY <1>1, <1>2, RecursiveExists
<1>4. Solves(f)
  <2>1. ASSUME NEW n \in 0 .. N, n # 0
        PROVE  F[n][f[n - 1]] = Into(f[n - 1], n)
    <3> HIDE DEF N, F
    <3>1. f[n - 1] \in Parsed /\ n \in 1 .. N
      BY <1>1, <2>1
    <3> USE DEF N, F
    <3> HIDE DEF Into
    <3> QED BY <3>1
  <2> HIDE DEF F, N, Into
  <2> QED BY <1>3, <2>1 DEF Recursive
<1>5. Solves(up)
  <2> HIDE DEF Solves
  <2> QED BY <1>4
<1>6. Parse(path) = up[N]
  BY DEF Parse, NoSegments
<1> HIDE DEF up, N
<1>7. \A n \in 0 .. N : up[n] = IF n = 0 THEN NoSegments ELSE Into(up[n - 1], n)
  <2> HIDE DEF Into
  <2> QED BY <1>5, Zenon
<1>8. up[0] = NoSegments /\ \A n \in 1 .. N : up[n] = Into(up[n - 1], n)
  <2> HIDE DEF Into, Solves
  <2>1. 0 \in 0 .. N /\ \A n \in 1 .. N : n \in 0 .. N /\ n # 0
    BY <1>1
  <2> QED BY <1>7, <2>1, Zenon
<1>9. up \in [0 .. N -> Parsed]
  <2> DEFINE Known == {n \in 0 .. N : up[n] \in Parsed}
  <2>1. 0 \in Known
    BY <1>1, <1>2, <1>8
  <2>2. ASSUME NEW n \in 1 .. N, n - 1 \in Known PROVE n \in Known
    <3>1. Into(up[n - 1], n) \in Parsed
      BY <2>2, ParseSegmentIs DEF N
    <3> HIDE DEF Into
    <3> QED BY <1>1, <1>8, <2>2, <3>1
  <2>3. 0 .. N \subseteq Known
    <3> HIDE DEF Known
    <3> QED BY <1>1, <2>1, <2>2, UpTo
  <2>4. up = [n \in 0 .. N |-> IF n = 0 THEN NoSegments ELSE Into(up[n - 1], n)]
    BY <1>5
  <2>5. up = [n \in 0 .. N |-> up[n]]
    <3> HIDE DEF Into
    <3> QED BY <2>4
  <2> QED BY <2>3, <2>5
<1> QED BY <1>6, <1>8, <1>9 DEF N

LEMMA ParseType ==
  ASSUME NEW path \in Seq(Seq(Text))
  PROVE  Parse(path) \in Parsed
BY ParseDef

\* One more segment is one more step.
LEMMA ParseAppend ==
  ASSUME NEW path \in Seq(Seq(Text)), NEW s \in Seq(Text)
  PROVE  Parse(Append(path, s)) = ParseSegment(Parse(path), s)
<1> DEFINE N == Len(path)
           ds == Append(path, s)
<1>1. ds \in Seq(Seq(Text)) /\ Len(ds) = N + 1 /\ ds[N + 1] = s
      /\ N \in Nat /\ \A n \in 1 .. N : ds[n] = path[n]
  OBVIOUS
<1>2. PICK f \in [0 .. N -> Parsed] :
         /\ f[0] = NoSegments
         /\ \A n \in 1 .. N : f[n] = ParseSegment(f[n - 1], path[n])
         /\ Parse(path) = f[N]
  BY ParseDef
<1>3. PICK g \in [0 .. Len(ds) -> Parsed] :
         /\ g[0] = NoSegments
         /\ \A n \in 1 .. Len(ds) : g[n] = ParseSegment(g[n - 1], ds[n])
         /\ Parse(ds) = g[Len(ds)]
  <2> HIDE DEF ds
  <2> QED BY <1>1, ParseDef
<1> HIDE DEF N, ds
<1>4. 0 .. N \subseteq {n \in 0 .. N : f[n] = g[n]}
  <2> DEFINE S == {n \in 0 .. N : f[n] = g[n]}
  <2>1. 0 \in S
    BY <1>1, <1>2, <1>3
  <2>2. ASSUME NEW n \in 1 .. N, n - 1 \in S PROVE n \in S
    BY <1>1, <1>2, <1>3, <2>2
  <2> HIDE DEF S
  <2>3. 0 .. N \subseteq S
    BY <1>1, <2>1, <2>2, UpTo
  <2> QED BY <2>3 DEF S
<1>5. f[N] = g[N]
  BY <1>1, <1>4
<1>6. g[N + 1] = ParseSegment(g[N], s)
  BY <1>1, <1>3
<1> QED BY <1>1, <1>2, <1>3, <1>5, <1>6 DEF ds

\* Where somebody stands there is a walk, and it is valid in a directory.
LEMMA HereFacts ==
  ASSUME cwd \in Seq(Seq(Text))
  PROVE  /\ Parse(cwd) \in Parsed /\ Parse(cwd).components \in Seq(Text)
         /\ Here = Walk(rows, Parse(cwd).components) /\ Here \in Walks
         /\ IsDirectory(cwd) <=> Here.valid /\ Parse(cwd).docName = <<>>
<1>1. Parse(cwd) \in Parsed /\ Parse(cwd).components \in Seq(Text)
  BY ParseType DEF Parsed
<1>2. Here = Walk(rows, Parse(cwd).components) /\ Here \in Walks
  BY <1>1, WalkType DEF Here
<1>3. \A leaf : FileOf(leaf) # Directory
  BY DEF FileOf, Directory
<1>4. Missing # Directory
  BY DEF Missing, Directory
<1> QED BY <1>1, <1>2, <1>3, <1>4 DEF IsDirectory, Resolve

----------------------------------------------------------------------------
(* The invariant.                                                          *)

\* What a command may write of a document can be indexed.
LEMMA RowsOfIs ==
  ASSUME NEW d \in Doc, NEW edition \in Edition[d]
  PROVE  RowsOf(edition) \in Row /\ RowOk(RowsOf(edition))
<1> DEFINE owner == <<"owner", "local">>
           typed(h) == <<"type">> \o TypeOf[h]
           filed(t) == IF Len(t) > 1 THEN t ELSE <<"tag">> \o t
           tags == {owner} \cup {typed(h) : h \in edition.heads} \cup {filed(t) : t \in edition.tags}
<1>1. /\ edition \in [tags : SUBSET Seq(Text), names : SUBSET (Seq(Text) \ {<<>>}),
                      heads : SUBSET Version]
      /\ IsFiniteSet(edition.names) /\ IsFiniteSet(edition.heads)
      /\ TypeOf \in [Version -> Seq(Text)]
  BY MountAssumption
<1>2. "owner" \in Text /\ "local" \in Text /\ "type" \in Text /\ "tag" \in Text
  BY MountAssumption
<1>3. \A t \in Seq(Text) : \A a \in Text :
         <<a>> \o t \in Seq(Text) /\ <<a>> \o t # NoPath
  BY DEF NoPath
<1>4. owner \in Seq(Text) /\ owner # NoPath
  BY <1>2 DEF NoPath
<1>5. \A h \in edition.heads : typed(h) \in Seq(Text) \ {NoPath}
  BY <1>1, <1>2, <1>3
<1>6. \A t \in edition.tags : filed(t) \in Seq(Text) \ {NoPath}
  <2> SUFFICES ASSUME NEW t \in edition.tags PROVE filed(t) \in Seq(Text) \ {NoPath}
    OBVIOUS
  <2>1. t \in Seq(Text)
    BY <1>1
  <2>2. CASE Len(t) > 1
    BY <2>1, <2>2 DEF NoPath
  <2>3. CASE ~(Len(t) > 1)
    BY <1>2, <1>3, <2>1, <2>3
  <2> QED BY <2>2, <2>3
<1>7. tags \in SUBSET (Seq(Text) \ {NoPath})
  <2> HIDE DEF owner, typed, filed
  <2> QED BY <1>4, <1>5, <1>6
<1>8. RowsOf(edition) = [edition EXCEPT !.tags = tags]
  BY DEF RowsOf
<1> HIDE DEF tags
<1> QED BY <1>1, <1>7, <1>8 DEF RowOk, Row

LEMMA InitMount == Init => MountInv
<1> SUFFICES ASSUME Init PROVE MountInv
  OBVIOUS
<1>1. \A d \in Doc : rows[d] # Unindexed => rows[d] \in Row /\ RowOk(rows[d])
  BY RowsOfIs DEF Init
<1>2. rows \in [Doc -> Row \cup {Unindexed}]
  BY <1>1 DEF Init
<1>3. cwd \in Seq(Seq(Text))
  BY DEF Init
<1> QED BY <1>1, <1>2, <1>3 DEF MountInv, IndexOk, Indexed

\* Segments that are typed or offered are made of components.
LEMMA SegmentType ==
  ASSUME MountInv, NEW s \in Segments
  PROVE  s \in Seq(Text)
<1>1. "=" \in Text /\ Compound \subseteq Seq(Text)
  BY MountAssumption
<1>2. Toggle \in Seq(Text)
  BY <1>1 DEF Toggle
<1>3. \A t \in AllTags(rows) : t \in Seq(Text)
  BY TagFacts DEF AllTags, MountInv
<1>4. \A t \in AllTags(rows) : ToSet(t) \subseteq Text
  BY <1>3 DEF ToSet
<1>5. \A c \in UNION {ToSet(t) : t \in AllTags(rows)} : <<c>> \in Seq(Text)
  BY <1>4
<1> QED BY <1>1, <1>2, <1>5 DEF Segments

LEMMA NextMount == MountInv /\ [Next]_vars => MountInv'
<1> SUFFICES ASSUME MountInv, [Next]_vars PROVE MountInv'
  OBVIOUS
<1>1. rows \in [Doc -> Row \cup {Unindexed}] /\ IndexOk(rows) /\ cwd \in Seq(Seq(Text))
  BY DEF MountInv
<1>2. ASSUME NEW d \in Doc, NEW edition \in Edition[d], IndexDocument(d, edition)
      PROVE  MountInv'
  <2>1. RowsOf(edition) \in Row /\ RowOk(RowsOf(edition))
    BY RowsOfIs
  <2>2. rows' \in [Doc -> Row \cup {Unindexed}]
    BY <1>1, <1>2, <2>1 DEF IndexDocument
  <2>3. \A e \in Doc : rows'[e] # Unindexed => RowOk(rows'[e])
    BY <1>1, <1>2, <2>1 DEF IndexDocument, IndexOk, Indexed
  <2> QED BY <1>1, <1>2, <2>2, <2>3 DEF IndexDocument, MountInv, IndexOk, Indexed
<1>3. ASSUME NEW s \in Segments, Enter(s)
      PROVE  MountInv'
  <2>1. s \in Seq(Text)
    BY SegmentType
  <2> QED BY <1>1, <1>3, <2>1 DEF Enter, MountInv
<1>4. ASSUME Leave
      PROVE  MountInv'
  <2>1. Front(cwd) \in Seq(Seq(Text))
    BY <1>1, <1>4 DEF Leave, Front
  <2> QED BY <1>1, <1>4, <2>1 DEF Leave, MountInv
<1>5. ASSUME UNCHANGED vars
      PROVE  MountInv'
  BY <1>1, <1>5 DEF vars, MountInv
<1> QED BY <1>2, <1>3, <1>4, <1>5 DEF Next

LEMMA MountInvariant == Spec => []MountInv
<1>1. Init => MountInv
  BY InitMount
<1>2. MountInv /\ [Next]_vars => MountInv'
  BY NextMount
<1> QED BY <1>1, <1>2, PTL DEF Spec

----------------------------------------------------------------------------
(* Facets.                                                                 *)

\* A component that may be offered here narrows to the documents that have it.
LEMMA NarrowedIs ==
  ASSUME MountInv, NEW c \in Components(rows, Here)
  PROVE  c \in Text /\ Narrowed(c) = DocsBy(rows, Here, c)
<1> DEFINE cs == Parse(cwd).components
<1>1. cs \in Seq(Text) /\ Here = Walk(rows, cs) /\ Here \in Walks
  BY HereFacts DEF MountInv
<1>2. IndexOk(rows)
  BY DEF MountInv
<1>3. c \in Text /\ MatchingRows(rows, WalkInto(rows, Here, c)) = DocsBy(rows, Here, c)
  BY <1>1, <1>2, Descend
<1>4. Walk(rows, Append(cs, c)) = WalkInto(rows, Here, c)
  BY <1>1, <1>3, WalkAppend
<1> QED BY <1>3, <1>4 DEF Narrowed

\* Whatever documents and tags there are and however somebody came to a directory, its
\* facets narrow or branch where any do, none widens, and whatever narrows is offered.
THEOREM FacetsAreUseful == Spec => []FacetsNarrow
<1>1. MountInv => FacetsNarrow
  <2> SUFFICES ASSUME MountInv PROVE FacetsNarrow
    OBVIOUS
  <2> DEFINE all == MatchingRows(rows, Here)
             useful(c) == Narrowed(c) # all \/ Cardinality(Deeper(rows, Here, c)) > 1
  <2>1. \A c \in Components(rows, Here) : Narrowed(c) = DocsBy(rows, Here, c)
    BY NarrowedIs
  <2>2. \A c : DocsBy(rows, Here, c) \subseteq all
    BY DEF DocsBy
  <2>3. \A c \in Components(rows, Here) : Splits(rows, Here, c) <=> useful(c)
    BY <2>1 DEF Splits
  <2>4. Facets(rows, Here) \subseteq Components(rows, Here)
    BY DEF Facets
  <2>5. \A c \in Facets(rows, Here) : Narrowed(c) \subseteq all
    BY <2>1, <2>2, <2>4
  <2>6. ASSUME NEW c \in Components(rows, Here), Narrowed(c) # all
        PROVE  c \in Facets(rows, Here)
    BY <2>3, <2>6 DEF Facets
  <2>7. \/ \A c \in Facets(rows, Here) : useful(c)
        \/ \A c \in Components(rows, Here) : ~useful(c)
    <3> HIDE DEF useful
    <3> QED BY <2>3 DEF Facets
  <2> HIDE DEF all
  <2> QED BY <2>5, <2>6, <2>7 DEF FacetsNarrow, all
<1> QED BY <1>1, MountInvariant, PTL

----------------------------------------------------------------------------
(* Tags as paths.                                                          *)

\* A part of a tag that nothing shadows leads on: it is the beginning of a tag, and it
\* is none unless it is all of it.
LEMMA OnTheWay ==
  ASSUME NEW ix, IndexOk(ix), NEW t \in AllTags(ix),
         ~\E s \in AllTags(ix) : IsStrictPrefix(s, t), NEW n \in 1 .. Len(t)
  PROVE  /\ t \in Seq(Text) /\ SubSeq(t, 1, n) \in Seq(Text) /\ SubSeq(t, 1, n) # NoPath
         /\ SubSeq(t, 1, n) = Append(SubSeq(t, 1, n - 1), t[n])
         /\ TagPrefixExists(ix, SubSeq(t, 1, n))
         /\ TagComplete(ix, SubSeq(t, 1, n)) <=> n = Len(t)
<1> DEFINE p == SubSeq(t, 1, n)
           q == SubSeq(t, 1, n - 1)
<1>1. PICK d \in Indexed(ix) : t \in ix[d].tags
  BY DEF AllTags
<1>2. t \in Seq(Text)
  BY <1>1, TagFacts
<1>3. Len(t) \in Nat /\ n \in Nat /\ n <= Len(t) /\ n >= 1
  BY <1>2
<1>4. p \in Seq(Text) /\ Len(p) = n /\ \A i \in 1 .. n : p[i] = t[i]
  BY <1>2, <1>3
<1>5. q \in Seq(Text) /\ Len(q) = n - 1 /\ \A i \in 1 .. n - 1 : q[i] = t[i]
  BY <1>2, <1>3
<1>6. t[n] \in Text
  BY <1>2, <1>3
<1> HIDE DEF p, q
<1>7. p # NoPath
  BY <1>3, <1>4 DEF NoPath
<1>8. p = Append(q, t[n])
  <2> DEFINE r == Append(q, t[n])
  <2>1. r \in Seq(Text) /\ Len(r) = n /\ r[n] = t[n] /\ \A i \in 1 .. n - 1 : r[i] = q[i]
    BY <1>3, <1>5, <1>6
  <2> HIDE DEF r
  <2>2. \A i \in 1 .. n : i \in 1 .. n - 1 \/ i = n
    BY <1>3
  <2>3. \A i \in 1 .. n : p[i] = r[i]
    BY <1>4, <1>5, <2>1, <2>2
  <2>4. p = r
    BY <1>4, <2>1, <2>3, SeqEqual
  <2> QED BY <2>4 DEF r
<1>9. IsPrefix(p, t)
  BY <1>2, <1>3, <1>4, PrefixIs
<1>10. TagPrefixExists(ix, p)
  BY <1>1, <1>9 DEF TagPrefixExists, Under
<1>11. ASSUME TagComplete(ix, p) PROVE n = Len(t)
  BY <1>4, <1>9, <1>11 DEF TagComplete, IsStrictPrefix
<1>12. ASSUME n = Len(t) PROVE p = t
  BY <1>2, <1>4, <1>12, SeqEqual
<1> QED BY <1>2, <1>4, <1>7, <1>8, <1>10, <1>11, <1>12 DEF TagComplete, p, q

\* A walk that has met only tags that there are.
Valid(constraints, partial) == Place(constraints, partial, TRUE)

\* A step along such a tag, from its beginning to its end.
LEMMA StepAlong ==
  ASSUME NEW ix, IndexOk(ix), NEW t \in AllTags(ix),
         ~\E s \in AllTags(ix) : IsStrictPrefix(s, t), NEW n \in 1 .. Len(t),
         NEW A \in SUBSET Seq(Text)
  PROVE  WalkInto(ix, Valid(A, SubSeq(t, 1, n - 1)), t[n]) =
           IF n = Len(t) THEN Valid(A \cup {t}, NoPath)
           ELSE Valid(A, SubSeq(t, 1, n))
<1> DEFINE p == SubSeq(t, 1, n)
           q == SubSeq(t, 1, n - 1)
           w == Valid(A, q)
           next == Valid(A, p)
<1>1. /\ t \in Seq(Text) /\ p \in Seq(Text) /\ p # NoPath /\ p = Append(q, t[n])
      /\ TagPrefixExists(ix, p) /\ (TagComplete(ix, p) <=> n = Len(t))
  BY OnTheWay
<1>2. q \in Seq(Text) /\ t[n] \in Text /\ (n = Len(t) => p = t)
  BY <1>1
<1> HIDE DEF p, q
<1>3. w \in Walks /\ w.constraints = A /\ w.partial = q /\ w.valid = TRUE
  <2>1. w \in Walks
    BY <1>2, PlaceType DEF Valid
  <2> QED BY <2>1 DEF Place, Valid
<1>4. next \in Walks /\ next.constraints = A /\ next.partial = p /\ next.valid = TRUE
  <2>1. next \in Walks
    BY <1>1, PlaceType DEF Valid
  <2> QED BY <2>1 DEF Place, Valid
<1>5. WalkInto(ix, w, t[n]) = Completed(ix, next)
  <2>1. Place(w.constraints, Append(w.partial, t[n]), w.valid) = next
    BY <1>1, <1>3 DEF Valid
  <2> HIDE DEF w, next
  <2> QED BY <1>1, <1>2, <1>3, <2>1, WalkIntoIs
<1>6. Constrain(next) = Valid(A \cup {p}, NoPath)
  <2>1. Constrain(next) \in Walks /\ Constrain(next).constraints = A \cup {p}
        /\ Constrain(next).partial = NoPath /\ Constrain(next).valid = TRUE
    <3> HIDE DEF next
    <3> QED BY <1>1, <1>4, ConstrainIs
  <2> HIDE DEF next
  <2> QED BY <2>1 DEF Walks, Place, Valid
<1>7. CASE n = Len(t)
  <2>1. WalkInto(ix, w, t[n]) = Constrain(next)
    <3> HIDE DEF w, next
    <3> QED BY <1>1, <1>4, <1>5, <1>7 DEF Completed
  <2> QED BY <1>2, <1>6, <1>7, <2>1 DEF q
<1>8. CASE n # Len(t)
  <2>1. WalkInto(ix, w, t[n]) = next
    <3> HIDE DEF w, next
    <3> QED BY <1>1, <1>4, <1>5, <1>8 DEF Completed
  <2> QED BY <1>8, <2>1 DEF p, q
<1> QED BY <1>7, <1>8

\* After k steps, walked goes on along t.
Follows(ix, walked, k, t) ==
    \A n \in 1 .. Len(t) : walked[k + n] = WalkInto(ix, walked[k + n - 1], t[n])

\* A walk along a whole tag, after others, ends with the tag as a condition.
LEMMA WalkAlong ==
  ASSUME NEW ix, IndexOk(ix), NEW t \in AllTags(ix),
         ~\E s \in AllTags(ix) : IsStrictPrefix(s, t),
         NEW A \in SUBSET Seq(Text), NEW walked, NEW k \in Nat
  PROVE  walked[k] = Valid(A, NoPath) /\ Follows(ix, walked, k, t)
           => walked[k + Len(t)] = Valid(A \cup {t}, NoPath)
<1>a. SUFFICES ASSUME walked[k] = Valid(A, NoPath), Follows(ix, walked, k, t)
             PROVE  walked[k + Len(t)] = Valid(A \cup {t}, NoPath)
  OBVIOUS
<1> DEFINE N == Len(t)
           S == {n \in 0 .. N : walked[k + n] = IF n = N THEN Valid(A \cup {t}, NoPath)
                                              ELSE Valid(A, SubSeq(t, 1, n))}
<1>1. t \in Seq(Text) /\ t # NoPath
  BY TagFacts DEF AllTags
<1>2. N \in Nat /\ N >= 1 /\ SubSeq(t, 1, 0) = NoPath
  BY <1>1 DEF NoPath
<1>3. 0 \in S
  <2>1. 0 \in 0 .. N /\ 0 # N /\ k + 0 = k
    BY <1>2
  <2> QED BY <1>a, <1>2, <2>1
<1>4. ASSUME NEW n \in 1 .. N, n - 1 \in S
      PROVE  n \in S
  <2>1. n - 1 # N /\ n \in 0 .. N /\ k + (n - 1) = k + n - 1
    BY <1>2
  <2>2. walked[k + n - 1] = Valid(A, SubSeq(t, 1, n - 1))
    BY <1>4, <2>1
  <2>3. walked[k + n] = WalkInto(ix, Valid(A, SubSeq(t, 1, n - 1)), t[n])
    BY <1>a, <2>2 DEF Follows
  <2>4. walked[k + n] = IF n = N THEN Valid(A \cup {t}, NoPath)
                        ELSE Valid(A, SubSeq(t, 1, n))
    <3>1. n \in 1 .. Len(t)
      OBVIOUS
    <3>2. WalkInto(ix, Valid(A, SubSeq(t, 1, n - 1)), t[n]) =
            IF n = Len(t) THEN Valid(A \cup {t}, NoPath)
            ELSE Valid(A, SubSeq(t, 1, n))
      BY <3>1, StepAlong
    <3> QED BY <2>3, <3>2
  <2> QED BY <2>1, <2>4
<1>5. N \in S
  <2> HIDE DEF S, N
  <2>1. 0 .. N \subseteq S
    BY <1>2, <1>3, <1>4, UpTo
  <2> QED BY <1>2, <2>1
<1> QED BY <1>5

\* Whatever tags other documents bear, a document is found under any of its tags, and
\* under two of them in either order, unless a tag that is there ends on the way.
THEOREM TagsAreReachable == Spec => []TagsReachable
<1>1. MountInv => TagsReachable
  <2> SUFFICES ASSUME MountInv,
                      NEW t \in AllTags(rows), NEW u \in AllTags(rows),
                      ~Shadowed(t), ~Shadowed(u)
               PROVE  LET walk == Walk(rows, t \o u) IN
                      /\ walk.valid
                      /\ MatchingRows(rows, walk) = Under(rows, t) \cap Under(rows, u)
    BY DEF TagsReachable
  <2> DEFINE cs == t \o u
  <2>1. IndexOk(rows)
    BY DEF MountInv
  <2>2. t \in Seq(Text) /\ u \in Seq(Text)
    BY <2>1, TagFacts DEF AllTags
  <2>3. /\ cs \in Seq(Text) /\ Len(cs) = Len(t) + Len(u) /\ Len(t) \in Nat /\ Len(u) \in Nat
        /\ \A n \in 1 .. Len(t) : cs[n] = t[n]
        /\ \A n \in 1 .. Len(u) : cs[Len(t) + n] = u[n]
    BY <2>2
  <2> HIDE DEF cs
  <2>4. PICK walked \in [0 .. Len(cs) -> Walks] :
           /\ walked[0] = NoWalk
           /\ \A n \in 1 .. Len(cs) : walked[n] = WalkInto(rows, walked[n - 1], cs[n])
           /\ Walk(rows, cs) = walked[Len(cs)]
    BY <2>3, WalkDef
  <2>5. walked[0] = Valid({}, NoPath)
    BY <2>4 DEF NoWalk, Place, Valid
  <2>6. walked[Len(t)] = Valid({t}, NoPath)
    <3>1. Follows(rows, walked, 0, t)
      BY <2>3, <2>4 DEF Follows
    <3>2. 0 \in Nat /\ {} \in SUBSET Seq(Text) /\ ~\E s \in AllTags(rows) : IsStrictPrefix(s, t)
      BY DEF Shadowed
    <3>3. walked[0] = Valid({}, NoPath) /\ Follows(rows, walked, 0, t)
            => walked[0 + Len(t)] = Valid({} \cup {t}, NoPath)
      BY <2>1, <3>2, WalkAlong
    <3>4. 0 + Len(t) = Len(t) /\ {} \cup {t} = {t}
      BY <2>3
    <3> QED BY <2>5, <3>1, <3>3, <3>4
  <2>7. walked[Len(t) + Len(u)] = Valid({t} \cup {u}, NoPath)
    <3>1. ASSUME NEW n \in 1 .. Len(u)
          PROVE  walked[Len(t) + n] = WalkInto(rows, walked[Len(t) + n - 1], u[n])
      <4>1. Len(t) + n \in 1 .. Len(cs)
        BY <2>3
      <4>2. cs[Len(t) + n] = u[n]
        BY <2>3
      <4> QED BY <2>4, <4>1, <4>2
    <3>2. Len(t) \in Nat /\ {t} \in SUBSET Seq(Text) /\ ~\E s \in AllTags(rows) : IsStrictPrefix(s, u)
      BY <2>2, <2>3 DEF Shadowed
    <3>3. walked[Len(t)] = Valid({t}, NoPath) /\ Follows(rows, walked, Len(t), u)
            => walked[Len(t) + Len(u)] = Valid({t} \cup {u}, NoPath)
      BY <2>1, <3>2, WalkAlong
    <3> QED BY <2>6, <3>1, <3>3 DEF Follows
  <2>8. Walk(rows, cs) = Valid({t, u}, NoPath)
    BY <2>3, <2>4, <2>7
  <2>9. Walk(rows, cs) \in Walks
    BY <2>3, WalkType
  <2> DEFINE w == Walk(rows, cs)
  <2>10. w.constraints = {t, u} /\ w.partial = NoPath /\ w.valid = TRUE
    BY <2>8, PlaceIs DEF Valid
  <2> HIDE DEF w
  <2>11. MatchingRows(rows, w) = {d \in Indexed(rows) : \A path \in {t, u} : d \in Under(rows, path)}
    BY <2>9, <2>10, MatchingIs DEF w
  <2>12. Under(rows, t) \subseteq Indexed(rows)
    BY DEF Under
  <2> QED BY <2>10, <2>11, <2>12 DEF w, cs
<1> QED BY <1>1, MountInvariant, PTL

----------------------------------------------------------------------------
(* The names of leaves.                                                    *)

\* Two states of one leaf.
Same(b, c) == b.doc = c.doc /\ b.base = c.base /\ b.head = c.head

\* A candidate whose suffixes are no shorter than they begin and no longer than the IDs.
Fits(c) ==
    /\ c \in Candidate
    /\ 1 <= c.docLen /\ 2 <= c.versionLen
    /\ c.docLen <= Len(DocId[c.doc]) /\ c.versionLen <= Len(VersionId[c.head])

Ahead(b, c) == Same(b, c) /\ b.docLen >= c.docLen /\ b.versionLen >= c.versionLen

\* Leaves of two documents that bear one name, and both or neither of which shows versions.
Rivals(ix, b, c) ==
    /\ b.base = c.base /\ b.doc # c.doc
    /\ VersionSuffix(ix, b) <=> VersionSuffix(ix, c)

\* What b says of its document and version is true of those of c.
Echoes(ix, b, c) ==
    /\ SubSeq(DocId[b.doc], 1, b.docLen) = SubSeq(DocId[c.doc], 1, b.docLen)
    /\ VersionSuffix(ix, b) =>
          SubSeq(VersionId[b.head], 1, b.versionLen) = SubSeq(VersionId[c.head], 1, b.versionLen)

\* As long as nothing tells two rivals apart, they grow together.
InStep(ix, X) ==
    \A b, c \in X : Rivals(ix, b, c) /\ Echoes(ix, b, c) =>
        b.docLen = c.docLen /\ b.versionLen = c.versionLen

\* Some state of leaves on the way from those of Candidates to the last.
Settling(ix, docs, X) ==
    /\ \A c \in X : Fits(c)
    /\ \A b, c \in X : Same(b, c) => b = c
    /\ \A c \in X : \E b \in Candidates(ix, docs) : Same(b, c)
    /\ \A b \in Candidates(ix, docs) : \E c \in X : Same(c, b)
    /\ InStep(ix, X)

\* What a round makes of one leaf.
RoundOf(ix, docs, X, c) ==
    IF {b \in X \ {c} : Label(ix, docs, b) = Label(ix, docs, c)} = {} THEN c
    ELSE Grown(ix, docs, c)

LEMMA RoundsIs ==
  ASSUME NEW ix, NEW docs, NEW X
  PROVE  GrowDuplicates(ix, docs, X) = {RoundOf(ix, docs, X, c) : c \in X}
BY DEF GrowDuplicates, RoundOf

\* Growing keeps a candidate one; a suffix that is shown grows until it is the whole ID.
LEMMA GrownIs ==
  ASSUME NEW ix, NEW docs, NEW c \in Candidate
  PROVE  /\ Grown(ix, docs, c) \in Candidate
         /\ Grown(ix, docs, c).docLen =
               IF DocSuffix(ix, docs, c) /\ c.docLen < Len(DocId[c.doc]) THEN c.docLen + 1 ELSE c.docLen
         /\ Grown(ix, docs, c).versionLen =
               IF VersionSuffix(ix, c) /\ c.versionLen < Len(VersionId[c.head])
               THEN c.versionLen + 1 ELSE c.versionLen
         /\ Ahead(Grown(ix, docs, c), c)
         /\ Fits(c) => Fits(Grown(ix, docs, c))
         /\ Fits(c) /\ Grown(ix, docs, c) = c =>
               /\ DocSuffix(ix, docs, c) => c.docLen = Len(DocId[c.doc])
               /\ VersionSuffix(ix, c) => c.versionLen = Len(VersionId[c.head])
<1> DEFINE D == Len(DocId[c.doc])
           V == Len(VersionId[c.head])
           i == IF DocSuffix(ix, docs, c) /\ c.docLen < D THEN c.docLen + 1 ELSE c.docLen
           j == IF VersionSuffix(ix, c) /\ c.versionLen < V THEN c.versionLen + 1 ELSE c.versionLen
           u == [c EXCEPT !.docLen = i]
           g == Grown(ix, docs, c)
<1>1. /\ c.doc \in Doc /\ c.base \in Seq(Text) /\ c.head \in Version
      /\ c.docLen \in Nat /\ c.versionLen \in Nat
  BY DEF Candidate
<1>2. D \in Nat /\ V \in Nat
  BY <1>1, MountAssumption
<1>3. g = [u EXCEPT !.versionLen = j]
  BY Zenon DEF Grown
<1>4. i \in Nat /\ i >= c.docLen /\ (c.docLen <= D => i <= D)
  <2> HIDE DEF D
  <2> QED BY <1>1, <1>2
<1>5. j \in Nat /\ j >= c.versionLen /\ (c.versionLen <= V => j <= V)
  <2> HIDE DEF V
  <2> QED BY <1>1, <1>2
<1>6. ASSUME i = c.docLen, c.docLen <= D, DocSuffix(ix, docs, c)
      PROVE  c.docLen = D
  <2> HIDE DEF D
  <2> QED BY <1>1, <1>2, <1>6
<1>7. ASSUME j = c.versionLen, c.versionLen <= V, VersionSuffix(ix, c)
      PROVE  c.versionLen = V
  <2> HIDE DEF V
  <2> QED BY <1>1, <1>2, <1>7
<1> HIDE DEF i, j
<1>8. /\ u \in Candidate /\ Same(u, c) /\ u.docLen = i /\ u.versionLen = c.versionLen
  BY <1>1, <1>4 DEF Candidate, Same
<1> HIDE DEF u, g
<1>9. /\ g \in Candidate /\ Same(g, u) /\ g.docLen = u.docLen /\ g.versionLen = j
  BY <1>3, <1>5, <1>8 DEF Candidate, Same
<1>10. Same(g, c) /\ g.docLen = i /\ g.versionLen = j
  BY <1>8, <1>9 DEF Same
<1>11. Ahead(g, c)
  BY <1>4, <1>5, <1>10 DEF Ahead
<1>12. Fits(c) => Fits(g)
  <2> SUFFICES ASSUME Fits(c) PROVE Fits(g)
    OBVIOUS
  <2>1. /\ 1 <= c.docLen /\ 2 <= c.versionLen /\ c.docLen <= D /\ c.versionLen <= V
    BY DEF Fits
  <2> HIDE DEF D, V
  <2>2. 1 <= g.docLen /\ 2 <= g.versionLen /\ g.docLen <= D /\ g.versionLen <= V
    BY <1>1, <1>2, <1>4, <1>5, <1>10, <2>1
  <2>3. g.docLen <= Len(DocId[g.doc]) /\ g.versionLen <= Len(VersionId[g.head])
    BY <1>10, <2>2 DEF Same, D, V
  <2> QED BY <1>9, <2>2, <2>3 DEF Fits
<1>13. g = c => i = c.docLen /\ j = c.versionLen
  BY <1>10
<1>14. Fits(c) => c.docLen <= D /\ c.versionLen <= V
  BY DEF Fits
<1> HIDE DEF D, V
<1>15. Fits(c) /\ g = c =>
        /\ DocSuffix(ix, docs, c) => c.docLen = D
        /\ VersionSuffix(ix, c) => c.versionLen = V
  BY <1>6, <1>7, <1>13, <1>14
<1>16. g.docLen = IF DocSuffix(ix, docs, c) /\ c.docLen < D THEN c.docLen + 1 ELSE c.docLen
  BY <1>10 DEF i
<1>17. g.versionLen = IF VersionSuffix(ix, c) /\ c.versionLen < V THEN c.versionLen + 1 ELSE c.versionLen
  BY <1>10 DEF j
<1> QED BY <1>9, <1>11, <1>12, <1>15, <1>16, <1>17 DEF g, D, V

LEMMA RoundOfIs ==
  ASSUME NEW ix, NEW docs, NEW X, NEW c \in Candidate
  PROVE  /\ RoundOf(ix, docs, X, c) \in Candidate
         /\ Ahead(RoundOf(ix, docs, X, c), c)
         /\ Fits(c) => Fits(RoundOf(ix, docs, X, c))
<1>1. Ahead(c, c)
  BY DEF Ahead, Same, Candidate
<1> QED BY <1>1, GrownIs DEF RoundOf

\* What equal parts of two sequences begin with is equal.
LEMMA PartsAgree ==
  ASSUME NEW s \in Seq(Text), NEW t \in Seq(Text), NEW m \in Nat, NEW n \in Nat,
         n <= m, m <= Len(s), m <= Len(t), SubSeq(s, 1, m) = SubSeq(t, 1, m)
  PROVE  SubSeq(s, 1, n) = SubSeq(t, 1, n)
<1> DEFINE a == SubSeq(s, 1, m)
           b == SubSeq(t, 1, m)
<1>1. /\ \A i \in 1 .. m : a[i] = s[i]
      /\ \A i \in 1 .. m : b[i] = t[i]
  OBVIOUS
<1>2. a = b
  OBVIOUS
<1> HIDE DEF a, b
<1>3. \A i \in 1 .. n : s[i] = t[i]
  BY <1>1, <1>2
<1>4. /\ SubSeq(s, 1, n) \in Seq(Text) /\ Len(SubSeq(s, 1, n)) = n
      /\ \A i \in 1 .. n : SubSeq(s, 1, n)[i] = s[i]
  OBVIOUS
<1>5. /\ SubSeq(t, 1, n) \in Seq(Text) /\ Len(SubSeq(t, 1, n)) = n
      /\ \A i \in 1 .. n : SubSeq(t, 1, n)[i] = t[i]
  OBVIOUS
<1>6. \A i \in 1 .. n : SubSeq(s, 1, n)[i] = SubSeq(t, 1, n)[i]
  BY <1>3, <1>4, <1>5
<1> QED BY <1>4, <1>5, <1>6, SeqEqual

\* The parts of a candidate.
LEMMA FitsIs ==
  ASSUME NEW c, Fits(c)
  PROVE  /\ c \in Candidate /\ c.doc \in Doc /\ c.base \in Seq(Text) /\ c.head \in Version
         /\ c.docLen \in Nat /\ c.docLen >= 1 /\ c.versionLen \in Nat /\ c.versionLen >= 2
         /\ DocId[c.doc] \in Seq(Text) /\ Len(DocId[c.doc]) \in Nat /\ c.docLen <= Len(DocId[c.doc])
         /\ VersionId[c.head] \in Seq(Text) /\ Len(VersionId[c.head]) \in Nat
         /\ c.versionLen <= Len(VersionId[c.head])
<1>1. c \in Candidate /\ c.doc \in Doc /\ c.base \in Seq(Text) /\ c.head \in Version
      /\ c.docLen \in Nat /\ c.versionLen \in Nat
  BY DEF Fits, Candidate
<1>2. DocId[c.doc] \in Seq(Text) /\ VersionId[c.head] \in Seq(Text)
  BY <1>1, MountAssumption
<1> QED BY <1>1, <1>2 DEF Fits

\* Who echoes a leaf echoed it before it grew.
LEMMA EchoedBefore ==
  ASSUME NEW ix, NEW b, Fits(b), NEW c, Fits(c), NEW b2, Fits(b2), NEW c2, Fits(c2),
         Ahead(b2, b), Same(c2, c), Rivals(ix, b2, c2), Echoes(ix, b2, c2)
  PROVE  Rivals(ix, b, c) /\ Echoes(ix, b, c)
<1>1. /\ b2.doc = b.doc /\ b2.base = b.base /\ b2.head = b.head
      /\ c2.doc = c.doc /\ c2.base = c.base /\ c2.head = c.head
      /\ b2.docLen >= b.docLen /\ b2.versionLen >= b.versionLen
  BY DEF Ahead, Same
<1>2. VersionSuffix(ix, b2) = VersionSuffix(ix, b) /\ VersionSuffix(ix, c2) = VersionSuffix(ix, c)
  BY <1>1 DEF VersionSuffix
<1>3. Rivals(ix, b, c)
  BY <1>1, <1>2 DEF Rivals
<1>4. Len(DocId[b.doc]) = Len(DocId[c.doc]) /\ Len(VersionId[b.head]) = Len(VersionId[c.head])
  BY FitsIs, MountAssumption
<1>5. SubSeq(DocId[b.doc], 1, b.docLen) = SubSeq(DocId[c.doc], 1, b.docLen)
  <2> DEFINE s == DocId[b.doc]
             t == DocId[c.doc]
  <2>1. s \in Seq(Text) /\ t \in Seq(Text) /\ b.docLen \in Nat /\ b2.docLen \in Nat
        /\ b.docLen <= b2.docLen
    BY <1>1, FitsIs
  <2>2. b2.docLen <= Len(s) /\ b2.docLen <= Len(t)
    BY <1>1, <1>4, FitsIs
  <2>3. SubSeq(s, 1, b2.docLen) = SubSeq(t, 1, b2.docLen)
    BY <1>1 DEF Echoes
  <2> HIDE DEF s, t
  <2>4. SubSeq(s, 1, b.docLen) = SubSeq(t, 1, b.docLen)
    BY <2>1, <2>2, <2>3, PartsAgree
  <2> QED BY <2>4 DEF s, t
<1>6. ASSUME VersionSuffix(ix, b)
      PROVE  SubSeq(VersionId[b.head], 1, b.versionLen) = SubSeq(VersionId[c.head], 1, b.versionLen)
  <2> DEFINE s == VersionId[b.head]
             t == VersionId[c.head]
  <2>1. s \in Seq(Text) /\ t \in Seq(Text) /\ b.versionLen \in Nat /\ b2.versionLen \in Nat
        /\ b.versionLen <= b2.versionLen
    BY <1>1, FitsIs
  <2>2. b2.versionLen <= Len(s) /\ b2.versionLen <= Len(t)
    BY <1>1, <1>4, FitsIs
  <2>3. SubSeq(s, 1, b2.versionLen) = SubSeq(t, 1, b2.versionLen)
    BY <1>1, <1>2, <1>6 DEF Echoes
  <2> HIDE DEF s, t
  <2>4. SubSeq(s, 1, b.versionLen) = SubSeq(t, 1, b.versionLen)
    BY <2>1, <2>2, <2>3, PartsAgree
  <2> QED BY <2>4 DEF s, t
<1> QED BY <1>3, <1>5, <1>6 DEF Echoes

\* As many blocks of IDs that agree make the same label.
LEMMA EchoesAreTwins ==
  ASSUME NEW ix, NEW docs, NEW b, NEW c, Rivals(ix, b, c), Echoes(ix, b, c),
         b.docLen = c.docLen, b.versionLen = c.versionLen
  PROVE  Label(ix, docs, b) = Label(ix, docs, c)
<1>1. DocSuffix(ix, docs, b) = DocSuffix(ix, docs, c)
  BY DEF Rivals, DocSuffix
<1>2. VersionSuffix(ix, b) = VersionSuffix(ix, c)
  BY DEF Rivals, VersionSuffix
<1>3. SubSeq(DocId[b.doc], 1, b.docLen) = SubSeq(DocId[c.doc], 1, c.docLen)
  BY DEF Echoes
<1>4. VersionSuffix(ix, b) =>
        SubSeq(VersionId[b.head], 1, b.versionLen) = SubSeq(VersionId[c.head], 1, c.versionLen)
  BY DEF Echoes
<1>5. b.base = c.base
  BY DEF Rivals
<1> QED BY <1>1, <1>2, <1>3, <1>4, <1>5, Zenon DEF Label

\* A round keeps rivals in step.
LEMMA RoundKeepsStep ==
  ASSUME NEW ix, NEW docs, NEW X, Settling(ix, docs, X), NEW b \in X, NEW c \in X,
         Rivals(ix, RoundOf(ix, docs, X, b), RoundOf(ix, docs, X, c)),
         Echoes(ix, RoundOf(ix, docs, X, b), RoundOf(ix, docs, X, c))
  PROVE  /\ RoundOf(ix, docs, X, b).docLen = RoundOf(ix, docs, X, c).docLen
         /\ RoundOf(ix, docs, X, b).versionLen = RoundOf(ix, docs, X, c).versionLen
<1> DEFINE b2 == RoundOf(ix, docs, X, b)
           c2 == RoundOf(ix, docs, X, c)
<1>1. Fits(b) /\ Fits(c) /\ b \in Candidate /\ c \in Candidate
  BY FitsIs DEF Settling
<1>2. Fits(b2) /\ Fits(c2) /\ Ahead(b2, b) /\ Same(c2, c)
  BY <1>1, RoundOfIs DEF Ahead
<1>3. Rivals(ix, b2, c2) /\ Echoes(ix, b2, c2)
  OBVIOUS
<1> HIDE DEF b2, c2
<1>4. Rivals(ix, b, c) /\ Echoes(ix, b, c)
  BY <1>1, <1>2, <1>3, EchoedBefore
<1>5. b.docLen = c.docLen /\ b.versionLen = c.versionLen
  BY <1>4 DEF Settling, InStep
<1>6. Label(ix, docs, b) = Label(ix, docs, c)
  BY <1>4, <1>5, EchoesAreTwins
<1>7. b # c
  BY <1>4 DEF Rivals
<1>8. b2 = Grown(ix, docs, b) /\ c2 = Grown(ix, docs, c)
  BY <1>6, <1>7 DEF RoundOf, b2, c2
<1>9. Len(DocId[b.doc]) = Len(DocId[c.doc]) /\ Len(VersionId[b.head]) = Len(VersionId[c.head])
  BY <1>1, FitsIs, MountAssumption
<1>10. DocSuffix(ix, docs, b) = DocSuffix(ix, docs, c) /\ VersionSuffix(ix, b) = VersionSuffix(ix, c)
  BY <1>4 DEF Rivals, DocSuffix, VersionSuffix
<1>11. b2.docLen = c2.docLen
  BY <1>1, <1>5, <1>8, <1>9, <1>10, GrownIs
<1>12. b2.versionLen = c2.versionLen
  BY <1>1, <1>5, <1>8, <1>9, <1>10, GrownIs
<1> QED BY <1>11, <1>12 DEF b2, c2

\* A round from such a state ends in one.
LEMMA RoundSettles ==
  ASSUME NEW ix, NEW docs, NEW X, Settling(ix, docs, X)
  PROVE  Settling(ix, docs, GrowDuplicates(ix, docs, X))
<1> DEFINE Next1(c) == RoundOf(ix, docs, X, c)
           Y == {Next1(c) : c \in X}
<1>1. GrowDuplicates(ix, docs, X) = Y
  BY RoundsIs
<1>2. \A c \in X : c \in Candidate /\ Fits(c)
  BY DEF Settling, Fits
<1>3. \A c \in X : Fits(Next1(c)) /\ Same(Next1(c), c)
  BY <1>2, RoundOfIs DEF Ahead
<1> HIDE DEF Next1
<1>4. \A c \in Y : Fits(c)
  BY <1>3
<1>5. ASSUME NEW a \in Y, NEW b \in Y, Same(a, b)
      PROVE  a = b
  <2>1. PICK c \in X : a = Next1(c)
    OBVIOUS
  <2>2. PICK d \in X : b = Next1(d)
    OBVIOUS
  <2>3. Same(c, d)
    BY <1>3, <1>5, <2>1, <2>2 DEF Same
  <2> QED BY <2>1, <2>2, <2>3 DEF Settling
<1>6. ASSUME NEW a \in Y
      PROVE  \E b \in Candidates(ix, docs) : Same(b, a)
  <2>1. PICK c \in X : a = Next1(c)
    OBVIOUS
  <2>2. PICK b \in Candidates(ix, docs) : Same(b, c)
    BY DEF Settling
  <2>3. Same(b, a)
    BY <1>3, <2>1, <2>2 DEF Same
  <2> QED BY <2>3
<1>7. ASSUME NEW b \in Candidates(ix, docs)
      PROVE  \E a \in Y : Same(a, b)
  <2>1. PICK c \in X : Same(c, b)
    BY DEF Settling
  <2>2. Same(Next1(c), b)
    BY <1>3, <2>1 DEF Same
  <2> QED BY <2>2
<1>8. InStep(ix, Y)
  <2> SUFFICES ASSUME NEW a \in Y, NEW b \in Y, Rivals(ix, a, b), Echoes(ix, a, b)
               PROVE  a.docLen = b.docLen /\ a.versionLen = b.versionLen
    BY DEF InStep
  <2>1. PICK c \in X : a = Next1(c)
    OBVIOUS
  <2>2. PICK d \in X : b = Next1(d)
    OBVIOUS
  <2> QED BY <2>1, <2>2, RoundKeepsStep DEF Next1
<1>9. Settling(ix, docs, Y)
  BY <1>4, <1>5, <1>6, <1>7, <1>8 DEF Settling
<1> QED BY <1>1, <1>9

\* The candidates as they begin.
LEMMA CandidatesIs ==
  ASSUME NEW ix, IndexOk(ix), NEW docs \in SUBSET Indexed(ix)
  PROVE  /\ Settling(ix, docs, Candidates(ix, docs))
         /\ \A c \in Candidates(ix, docs) :
               c \in Candidate /\ c.base # <<>> /\ c.doc \in docs /\ c.head \in ix[c.doc].heads
<1> DEFINE X == Candidates(ix, docs)
<1>1. ASSUME NEW c \in X
      PROVE  \E d \in docs : \E n \in Names(ix, d), h \in ix[d].heads :
                c = [doc |-> d, base |-> n, head |-> h, docLen |-> 1, versionLen |-> 2]
  BY DEF Candidates
<1>2. ASSUME NEW d \in docs
      PROVE  /\ Names(ix, d) \subseteq Seq(Text) \ {<<>>} /\ ix[d].heads \subseteq Version
             /\ d \in Doc
  <2>1. d \in Doc /\ RowOk(ix[d])
    BY DEF IndexOk, Indexed
  <2>2. ix[d].names \subseteq Seq(Text) \ {<<>>} /\ ix[d].heads \subseteq Version
    BY <2>1 DEF RowOk, Row
  <2>3. DocId[d] \in Seq(Text) /\ Len(DocId[d]) >= 2 /\ "untitled" \in Text
    BY <2>1, MountAssumption
  <2>4. SubSeq(DocId[d], 1, 2) \in Seq(Text) /\ <<"untitled">> \in Seq(Text)
    BY <2>3
  <2>5. \A p \in Seq(Text) : <<"untitled">> \o p \in Seq(Text) \ {<<>>}
    BY <2>3
  <2> QED BY <2>1, <2>2, <2>4, <2>5 DEF Names
<1>3. \A d \in Doc : Len(DocId[d]) \in Nat /\ 1 <= Len(DocId[d])
  BY MountAssumption
<1>4. \A h \in Version : Len(VersionId[h]) \in Nat /\ 2 <= Len(VersionId[h])
  BY MountAssumption
<1> HIDE DEF X
<1>5. ASSUME NEW c \in X
      PROVE  /\ Fits(c) /\ c.base # <<>> /\ c.doc \in docs /\ c.head \in ix[c.doc].heads
             /\ c = [doc |-> c.doc, base |-> c.base, head |-> c.head, docLen |-> 1, versionLen |-> 2]
  <2>1. PICK d \in docs : \E n \in Names(ix, d), h \in ix[d].heads :
                c = [doc |-> d, base |-> n, head |-> h, docLen |-> 1, versionLen |-> 2]
    BY <1>1
  <2>2. PICK n \in Names(ix, d), h \in ix[d].heads :
                c = [doc |-> d, base |-> n, head |-> h, docLen |-> 1, versionLen |-> 2]
    BY <2>1
  <2>3. d \in Doc /\ n \in Seq(Text) /\ n # <<>> /\ h \in Version
    BY <1>2
  <2>4. c \in Candidate
    BY <2>2, <2>3 DEF Candidate
  <2>5. c.docLen = 1 /\ c.versionLen = 2 /\ c.doc = d /\ c.head = h /\ c.base = n
    BY <2>2
  <2>6. Fits(c)
    BY <1>3, <1>4, <2>3, <2>4, <2>5 DEF Fits
  <2> QED BY <2>2, <2>3, <2>5, <2>6
<1>6. \A b, c \in X : Same(b, c) => b = c
  BY <1>5 DEF Same
<1>7. \A c \in X : Same(c, c)
  BY DEF Same
<1>8. \A c \in X : c.docLen = 1 /\ c.versionLen = 2
  BY <1>5
<1>9. InStep(ix, X)
  BY <1>8 DEF InStep
<1>10. Settling(ix, docs, X)
  BY <1>5, <1>6, <1>7, <1>9 DEF Settling, X
<1> QED BY <1>5, <1>10 DEF X, Fits

\* A finite union of finite sets.
LEMMA FamilyFinite ==
  ASSUME NEW S, IsFiniteSet(S), NEW f, \A x \in S : IsFiniteSet(f[x])
  PROVE  IsFiniteSet(UNION {f[x] : x \in S})
<1> DEFINE g == [x \in S |-> f[x]]
<1>1. g \in Surjection(S, {f[x] : x \in S})
  BY DEF Surjection
<1>2. IsFiniteSet({f[x] : x \in S})
  BY <1>1, FS_Surjection
<1> QED BY <1>2, FS_UNION

\* All states that the leaves of these documents can be in.
Reachable(ix, docs) ==
    {y \in Candidate : Fits(y) /\ y.doc \in docs /\ y.base \in Names(ix, y.doc)
                       /\ y.head \in ix[y.doc].heads}

LEMMA ReachableFinite ==
  ASSUME NEW ix, IndexOk(ix), NEW docs \in SUBSET Indexed(ix)
  PROVE  IsFiniteSet(Reachable(ix, docs))
<1> DEFINE named == [d \in docs |-> Names(ix, d)]
           headed == [d \in docs |-> ix[d].heads]
           long == [d \in docs |-> 0 .. Len(DocId[d])]
           B == UNION {named[d] : d \in docs}
           H == UNION {headed[d] : d \in docs}
           I == UNION {long[d] : d \in docs}
           versioned == [h \in H |-> 0 .. Len(VersionId[h])]
           J == UNION {versioned[h] : h \in H}
           P == (((docs \X B) \X H) \X I) \X J
           f == [p \in P |-> [doc |-> p[1][1][1][1], base |-> p[1][1][1][2], head |-> p[1][1][2],
                               docLen |-> p[1][2], versionLen |-> p[2]]]
           T == {f[p] : p \in P}
<1>1. docs \in SUBSET Doc /\ IsFiniteSet(Doc)
  BY MountAssumption DEF Indexed
<1>2. IsFiniteSet(docs)
  BY <1>1, FS_Subset
<1>3. \A d \in docs : RowOk(ix[d])
  BY DEF IndexOk
<1>4. IsFiniteSet(B)
  <2>1. ASSUME NEW d \in docs PROVE IsFiniteSet(Names(ix, d))
    <3>1. \A x : IsFiniteSet({x})
      BY FS_Singleton
    <3> QED BY <1>3, <3>1 DEF Names, RowOk
  <2>2. \A d \in docs : IsFiniteSet(named[d])
    BY <2>1
  <2> HIDE DEF named
  <2> QED BY <1>2, <2>2, FamilyFinite
<1>5. IsFiniteSet(H)
  <2>1. \A d \in docs : IsFiniteSet(headed[d])
    BY <1>3 DEF RowOk
  <2> HIDE DEF headed
  <2> QED BY <1>2, <2>1, FamilyFinite
<1>6. H \subseteq Version
  BY <1>3 DEF RowOk, Row
<1>7. IsFiniteSet(I)
  <2>1. ASSUME NEW d \in docs PROVE IsFiniteSet(0 .. Len(DocId[d]))
    <3>1. 0 \in Int /\ Len(DocId[d]) \in Int
      BY <1>1, MountAssumption
    <3> QED BY <3>1, FS_Interval
  <2>2. \A d \in docs : IsFiniteSet(long[d])
    BY <2>1
  <2> HIDE DEF long
  <2> QED BY <1>2, <2>2, FamilyFinite
<1>8. IsFiniteSet(J)
  <2> HIDE DEF H
  <2>1. ASSUME NEW h \in H PROVE IsFiniteSet(0 .. Len(VersionId[h]))
    <3>1. 0 \in Int /\ Len(VersionId[h]) \in Int
      BY <1>6, MountAssumption
    <3> QED BY <3>1, FS_Interval
  <2>2. \A h \in H : IsFiniteSet(versioned[h])
    BY <2>1
  <2> HIDE DEF versioned
  <2> QED BY <1>5, <2>2, FamilyFinite
<1>9. IsFiniteSet(P)
  <2> HIDE DEF B, H, I, J
  <2>1. IsFiniteSet(docs \X B)
    BY <1>2, <1>4, FS_Product
  <2>2. IsFiniteSet((docs \X B) \X H)
    BY <1>5, <2>1, FS_Product
  <2>3. IsFiniteSet(((docs \X B) \X H) \X I)
    BY <1>7, <2>2, FS_Product
  <2> QED BY <1>8, <2>3, FS_Product
<1>10. IsFiniteSet(T)
  <2> HIDE DEF P
  <2>1. f \in Surjection(P, T)
    BY DEF Surjection
  <2> HIDE DEF f, T
  <2> QED BY <1>9, <2>1, FS_Surjection
<1>11. ASSUME NEW y \in Reachable(ix, docs)
       PROVE  y \in T
  <2>1. /\ y \in Candidate /\ y.doc \in docs /\ y.base \in Names(ix, y.doc)
        /\ y.head \in ix[y.doc].heads
        /\ y.docLen <= Len(DocId[y.doc]) /\ y.versionLen <= Len(VersionId[y.head])
    BY DEF Reachable, Fits
  <2>2. y.base \in B /\ y.head \in H
    BY <2>1
  <2>3. /\ y.docLen \in Nat /\ y.versionLen \in Nat
        /\ Len(DocId[y.doc]) \in Nat /\ Len(VersionId[y.head]) \in Nat
    BY <2>1, MountAssumption DEF Candidate
  <2>4. y.docLen \in 0 .. Len(DocId[y.doc]) /\ y.versionLen \in 0 .. Len(VersionId[y.head])
    BY <2>1, <2>3
  <2>5. y.docLen \in I
    BY <2>1, <2>4
  <2>6. y.versionLen \in J
    <3> HIDE DEF H
    <3> QED BY <2>2, <2>4
  <2> HIDE DEF B, H, I, J
  <2> DEFINE p == <<<<<<<<y.doc, y.base>>, y.head>>, y.docLen>>, y.versionLen>>
  <2>7. p \in P
    BY <2>1, <2>2, <2>5, <2>6
  <2>8. f[p] = [doc |-> y.doc, base |-> y.base, head |-> y.head, docLen |-> y.docLen,
                versionLen |-> y.versionLen]
    <3> HIDE DEF P
    <3> QED BY <2>7
  <2>9. f[p] = y
    <3> HIDE DEF f, p
    <3> QED BY <2>1, <2>8 DEF Candidate
  <2> HIDE DEF f, p
  <2> QED BY <2>7, <2>9
<1> HIDE DEF T
<1>12. Reachable(ix, docs) \in SUBSET T
  BY <1>11
<1> QED BY <1>10, <1>12, FS_Subset

LeafOf(ix, docs, c) ==
    [name |-> Label(ix, docs, c), base |-> c.base, doc |-> c.doc, head |-> c.head]

\* The states beyond those in X.
Above(ix, docs, X) == {y \in Reachable(ix, docs) : \E c \in X : Ahead(y, c)}

\* A round that changes anything leaves less to grow.
LEMMA RoundShrinks ==
  ASSUME NEW ix, IndexOk(ix), NEW docs \in SUBSET Indexed(ix), NEW X, Settling(ix, docs, X),
         GrowDuplicates(ix, docs, X) # X
  PROVE  LET Y == GrowDuplicates(ix, docs, X) IN
         /\ IsFiniteSet(Above(ix, docs, X)) /\ Above(ix, docs, Y) \subseteq Above(ix, docs, X)
         /\ Above(ix, docs, Y) # Above(ix, docs, X)
<1> DEFINE Y == GrowDuplicates(ix, docs, X)
           g(c) == RoundOf(ix, docs, X, c)
<1>1. Y = {g(c) : c \in X}
  BY RoundsIs
<1>2. \A c \in X : c \in Candidate /\ Fits(c) /\ g(c) \in Candidate /\ Fits(g(c)) /\ Ahead(g(c), c)
  BY RoundOfIs DEF Settling, Fits
<1>3. \A c \in X : c \in Reachable(ix, docs)
  <2> SUFFICES ASSUME NEW c \in X PROVE c \in Reachable(ix, docs)
    OBVIOUS
  <2>1. PICK b \in Candidates(ix, docs) : Same(b, c)
    BY DEF Settling
  <2>2. b.doc \in docs /\ b.base \in Names(ix, b.doc) /\ b.head \in ix[b.doc].heads
    BY DEF Candidates
  <2> QED BY <1>2, <2>1, <2>2 DEF Reachable, Same
<1> HIDE DEF Y, g
<1>4. IsFiniteSet(Above(ix, docs, X))
  <2>1. Above(ix, docs, X) \in SUBSET Reachable(ix, docs)
    BY DEF Above
  <2> QED BY <2>1, ReachableFinite, FS_Subset
<1>5. \A a, b, c \in Candidate : Ahead(a, b) /\ Ahead(b, c) => Ahead(a, c)
  BY DEF Ahead, Same, Candidate
<1>6. \A a, b \in Candidate : Ahead(a, b) /\ Ahead(b, a) => a = b
  BY DEF Ahead, Same, Candidate
<1>7. Above(ix, docs, Y) \subseteq Above(ix, docs, X)
  <2> SUFFICES ASSUME NEW y \in Reachable(ix, docs), NEW c \in X, Ahead(y, g(c))
               PROVE  \E b \in X : Ahead(y, b)
    BY <1>1 DEF Above
  <2>1. y \in Candidate
    BY DEF Reachable
  <2>2. Ahead(y, c)
    BY <1>2, <1>5, <2>1
  <2> QED BY <2>2
<1>8. PICK c \in X : g(c) # c
  BY <1>1 DEF Y
<1>9. c \in Above(ix, docs, X)
  <2>1. Ahead(c, c)
    BY <1>2 DEF Ahead, Same, Candidate
  <2> QED BY <1>3, <2>1 DEF Above
<1>10. ASSUME c \in Above(ix, docs, Y)
       PROVE  FALSE
  <2>1. PICK b \in X : Ahead(c, g(b))
    BY <1>1, <1>10 DEF Above
  <2>2. Same(b, c)
    BY <1>2, <2>1 DEF Ahead, Same
  <2>3. b = c
    BY <2>2 DEF Settling
  <2> QED BY <1>2, <1>6, <1>8, <2>1, <2>3
<1> QED BY <1>4, <1>7, <1>9, <1>10 DEF Y

\* Growing ends, and the leaves are what it ends with.
LEMMA LeavesIs ==
  ASSUME NEW ix, IndexOk(ix), NEW docs \in SUBSET Indexed(ix)
  PROVE  \E S : /\ Settling(ix, docs, S) /\ GrowDuplicates(ix, docs, S) = S
                /\ Leaves(ix, docs) = {LeafOf(ix, docs, c) : c \in S}
<1> DEFINE T == SUBSET Candidate
           Grow(X) == GrowDuplicates(ix, docs, X)
           G == [X \in T |-> Grow(X)]
           Solves(f) == f = [candidates \in SUBSET Candidate |->
                               IF GrowDuplicates(ix, docs, candidates) = candidates
                               THEN candidates
                               ELSE f[GrowDuplicates(ix, docs, candidates)]]
           settled == CHOOSE f : Solves(f)
           Good == {X \in T : Settling(ix, docs, X)}
           size == [X \in Good |-> Cardinality(Above(ix, docs, X))]
           start == Candidates(ix, docs)
<1>1. \A X \in T : Grow(X) \in T
  <2> SUFFICES ASSUME NEW X \in T, NEW c \in X PROVE RoundOf(ix, docs, X, c) \in Candidate
    BY RoundsIs
  <2> QED BY RoundOfIs
<1>2. G \in [T -> T]
  <2> HIDE DEF T, Grow
  <2> QED BY <1>1
<1>3. ASSUME NEW f
      PROVE  Solves(f) <=> Repeats(f, T, G)
  <2>1. \A X \in T : G[X] = Grow(X)
    OBVIOUS
  <2>2. [X \in T |-> IF G[X] = X THEN X ELSE f[G[X]]] = [X \in T |-> IF Grow(X) = X THEN X ELSE f[Grow(X)]]
    <3> HIDE DEF G, T, Grow
    <3> QED BY <2>1
  <2>3. Solves(f) <=> f = [X \in T |-> IF Grow(X) = X THEN X ELSE f[Grow(X)]]
    OBVIOUS
  <2> HIDE DEF Solves, G, T, Grow
  <2> QED BY <2>2, <2>3 DEF Repeats
<1>4. Repeats(settled, T, G)
  <2>1. \E f : Repeats(f, T, G)
    <3> HIDE DEF G, T
    <3> QED BY <1>2, RepeatsExists
  <2>2. \E f : Solves(f)
    <3> HIDE DEF Solves, G, T
    <3> QED BY <1>3, <2>1
  <2>3. Solves(settled)
    <3> HIDE DEF Solves
    <3> QED BY <2>2
  <2> HIDE DEF Solves, settled, G, T
  <2> QED BY <1>3, <2>3
<1>5. start \in Good
  BY CandidatesIs DEF Settling, Fits
<1>6. \A X \in Good : G[X] \in Good
  <2> SUFFICES ASSUME NEW X \in Good PROVE G[X] \in Good
    OBVIOUS
  <2>1. X \in T /\ Settling(ix, docs, X)
    OBVIOUS
  <2>2. Settling(ix, docs, Grow(X))
    BY <2>1, RoundSettles
  <2>3. G[X] = Grow(X) /\ Grow(X) \in T
    BY <1>1, <2>1
  <2> HIDE DEF G, T, Grow
  <2> QED BY <2>2, <2>3
<1>7. size \in [Good -> Nat]
  <2>1. ASSUME NEW X PROVE IsFiniteSet(Above(ix, docs, X))
    <3>1. Above(ix, docs, X) \in SUBSET Reachable(ix, docs)
      BY DEF Above
    <3> QED BY <3>1, ReachableFinite, FS_Subset
  <2>2. \A X : Cardinality(Above(ix, docs, X)) \in Nat
    BY <2>1, FS_CardinalityType
  <2> HIDE DEF Good
  <2> QED BY <2>2
<1>8. ASSUME NEW X \in Good, G[X] # X
      PROVE  size[G[X]] < size[X]
  <2> DEFINE Y == Grow(X)
  <2>1. X \in T /\ Settling(ix, docs, X) /\ G[X] = Y /\ Y # X
    BY <1>8
  <2>2. /\ IsFiniteSet(Above(ix, docs, X)) /\ Above(ix, docs, Y) \in SUBSET Above(ix, docs, X)
        /\ Above(ix, docs, Y) # Above(ix, docs, X)
    BY <2>1, RoundShrinks
  <2> HIDE DEF Y, G
  <2>3. /\ Cardinality(Above(ix, docs, Y)) <= Cardinality(Above(ix, docs, X))
        /\ Cardinality(Above(ix, docs, Y)) # Cardinality(Above(ix, docs, X))
        /\ Cardinality(Above(ix, docs, Y)) \in Nat /\ Cardinality(Above(ix, docs, X)) \in Nat
    <3>1. IsFiniteSet(Above(ix, docs, Y))
      BY <2>2, FS_Subset
    <3> QED BY <2>2, <3>1, FS_Subset, FS_CardinalityType
  <2>4. Y \in Good
    BY <1>6, <2>1
  <2> HIDE DEF Good
  <2> QED BY <2>1, <2>3, <2>4
<1>9. settled[start] \in Good /\ G[settled[start]] = settled[start]
  <2>1. Good \in SUBSET T
    OBVIOUS
  <2> HIDE DEF T, G, Good, size, settled, start
  <2> QED BY <1>2, <1>4, <1>5, <1>6, <1>7, <1>8, <2>1, RepeatsEnd
<1>10. Leaves(ix, docs) = {LeafOf(ix, docs, c) : c \in settled[start]}
  BY DEF Leaves, LeafOf
<1> HIDE DEF settled, start
<1>11. Settling(ix, docs, settled[start]) /\ Grow(settled[start]) = settled[start]
  BY <1>9
<1> QED BY <1>10, <1>11

\* The label of a candidate says its base and, where needed, parts of the IDs.
LEMMA LabelType ==
  ASSUME NEW ix, NEW docs, NEW c, Fits(c), c.base # <<>>
  PROVE  Label(ix, docs, c) \in Seq(Text) /\ Label(ix, docs, c) # <<>>
<1> DEFINE p == SubSeq(DocId[c.doc], 1, c.docLen)
           q == SubSeq(VersionId[c.head], 1, c.versionLen)
           a == IF DocSuffix(ix, docs, c) THEN <<"~">> \o p ELSE <<>>
           b == IF VersionSuffix(ix, c) THEN <<"~">> \o q ELSE <<>>
<1>1. /\ c.base \in Seq(Text) /\ c.docLen \in Nat /\ c.versionLen \in Nat
      /\ c.docLen <= Len(DocId[c.doc]) /\ c.versionLen <= Len(VersionId[c.head])
      /\ DocId[c.doc] \in Seq(Text) /\ VersionId[c.head] \in Seq(Text) /\ "~" \in Text
  BY MountAssumption DEF Fits, Candidate
<1>2. p \in Seq(Text) /\ q \in Seq(Text)
  BY <1>1
<1> HIDE DEF p, q
<1>3. a \in Seq(Text) /\ b \in Seq(Text)
  BY <1>1, <1>2
<1>4. Label(ix, docs, c) = c.base \o a \o b
  BY DEF Label, p, q
<1> HIDE DEF a, b
<1> QED BY <1>1, <1>3, <1>4

\* When nothing grows any more, two leaves look alike only if they do with their IDs
\* in full.
LEMMA TwinsAreSpelled ==
  ASSUME NEW ix, IndexOk(ix), NEW docs \in SUBSET Indexed(ix), NEW S,
         Settling(ix, docs, S), GrowDuplicates(ix, docs, S) = S,
         NEW b \in S, NEW c \in S, b # c, Label(ix, docs, b) = Label(ix, docs, c)
  PROVE  Spelled(ix, docs, LeafOf(ix, docs, c))
<1>1. ASSUME NEW d \in S, NEW e \in S, d # e, Label(ix, docs, d) = Label(ix, docs, e)
      PROVE  \E x \in Candidates(ix, docs) : Same(x, d) /\ FullLabel(ix, docs, x) = Label(ix, docs, d)
  <2>1. d \in Candidate /\ Fits(d)
    BY DEF Settling, Fits
  <2>2. RoundOf(ix, docs, S, d) = Grown(ix, docs, d)
    BY <1>1 DEF RoundOf
  <2>3. Grown(ix, docs, d) \in S
    BY <2>2, RoundsIs
  <2>4. Grown(ix, docs, d) = d
    BY <2>1, <2>3, GrownIs DEF Settling, Ahead
  <2>5. /\ DocSuffix(ix, docs, d) => d.docLen = Len(DocId[d.doc])
        /\ VersionSuffix(ix, d) => d.versionLen = Len(VersionId[d.head])
    BY <2>1, <2>4, GrownIs
  <2>6. PICK x \in Candidates(ix, docs) : Same(x, d)
    BY DEF Settling
  <2>7. x \in Candidate
    BY CandidatesIs
  <2> DEFINE D == Len(DocId[x.doc])
             V == Len(VersionId[x.head])
             u == [x EXCEPT !.docLen = D]
             y == [x EXCEPT !.docLen = D, !.versionLen = V]
  <2>8. y = [u EXCEPT !.versionLen = V]
    OBVIOUS
  <2>9. D \in Nat /\ V \in Nat
    BY <2>7, MountAssumption DEF Candidate
  <2>10. FullLabel(ix, docs, x) = Label(ix, docs, y)
    BY DEF FullLabel
  <2> HIDE DEF D, V
  <2>11. u \in Candidate /\ Same(u, x) /\ u.docLen = D
    BY <2>7, <2>9 DEF Candidate, Same
  <2> HIDE DEF u, y
  <2>12. Same(y, u) /\ y.docLen = D /\ y.versionLen = V
    BY <2>8, <2>9, <2>11 DEF Candidate, Same
  <2>13. Same(y, d)
    BY <2>6, <2>11, <2>12 DEF Same
  <2>14. /\ DocSuffix(ix, docs, d) => d.docLen = y.docLen
         /\ VersionSuffix(ix, d) => d.versionLen = y.versionLen
    BY <2>5, <2>6, <2>12 DEF Same, D, V
  <2>15. DocSuffix(ix, docs, y) = DocSuffix(ix, docs, d) /\ VersionSuffix(ix, y) = VersionSuffix(ix, d)
    BY <2>13 DEF Same, DocSuffix, VersionSuffix
  <2>16. Label(ix, docs, y) = Label(ix, docs, d)
    BY <2>13, <2>14, <2>15 DEF Label, Same
  <2> QED BY <2>6, <2>10, <2>16
<1>2. PICK x \in Candidates(ix, docs) : Same(x, b) /\ FullLabel(ix, docs, x) = Label(ix, docs, b)
  BY <1>1
<1>3. PICK y \in Candidates(ix, docs) : Same(y, c) /\ FullLabel(ix, docs, y) = Label(ix, docs, c)
  BY <1>1
<1>4. x # y
  <2> SUFFICES ASSUME x = y PROVE FALSE
    OBVIOUS
  <2>1. Same(b, c)
    BY <1>2, <1>3 DEF Same
  <2> QED BY <2>1 DEF Settling
<1>5. LeafOf(ix, docs, c).name = Label(ix, docs, c)
  BY DEF LeafOf
<1> QED BY <1>2, <1>3, <1>4, <1>5 DEF Spelled

----------------------------------------------------------------------------
(* Listings.                                                               *)

LEMMA DirectoryIs ==
  ASSUME NEW path
  PROVE  IsDirectory(path) <=> Walk(rows, Parse(path).components).valid /\ Parse(path).docName = <<>>
<1>1. \A leaf : FileOf(leaf) # Directory
  BY DEF FileOf, Directory
<1>2. Missing # Directory
  BY DEF Missing, Directory
<1> QED BY <1>1, <1>2 DEF IsDirectory, Resolve

\* A facet is a directory that leads somewhere.
LEMMA FacetResolves ==
  ASSUME MountInv, IsDirectory(cwd), ~Parse(cwd).docView, NEW c \in Facets(rows, Here)
  PROVE  LET there == Append(cwd, <<c>>) IN
         /\ IsDirectory(there)
         /\ MatchingRows(rows, Walk(rows, Parse(there).components)) # {}
<1> DEFINE there == Append(cwd, <<c>>)
           segment == <<c>>
           cs == Parse(cwd).components
<1>1. cwd \in Seq(Seq(Text)) /\ IndexOk(rows)
  BY DEF MountInv
<1>2. /\ Parse(cwd) \in Parsed /\ cs \in Seq(Text) /\ Here = Walk(rows, cs) /\ Here \in Walks
      /\ Here.valid /\ Parse(cwd).docName = <<>>
  BY <1>1, HereFacts
<1>3. c \in Components(rows, Here)
  BY DEF Facets
<1>4. /\ c \in Text /\ WalkInto(rows, Here, c).valid = Here.valid
      /\ MatchingRows(rows, WalkInto(rows, Here, c)) = DocsBy(rows, Here, c)
      /\ DocsBy(rows, Here, c) # {}
  BY <1>1, <1>2, <1>3, Descend
<1>5. segment \in Seq(Text)
  BY <1>4
<1>6. Parse(there) = ParseSegment(Parse(cwd), segment)
  BY <1>1, <1>5, ParseAppend
<1> HIDE DEF there, segment
<1>7. CASE segment = Toggle
  <2>1. Parse(there).components = cs /\ Parse(there).docName = <<>>
    BY <1>2, <1>5, <1>6, <1>7, ParseSegmentIs
  <2>2. IsDirectory(there)
    BY <1>2, <2>1, DirectoryIs
  <2>3. MatchingRows(rows, Here) # {}
    BY <1>4 DEF DocsBy
  <2> QED BY <1>2, <2>1, <2>2, <2>3 DEF there
<1>8. CASE segment # Toggle
  <2>1. Parse(there).components = cs \o segment /\ Parse(there).docName = <<>>
    BY <1>2, <1>5, <1>6, <1>8, ParseSegmentIs
  <2>2. cs \o segment = Append(cs, c)
    BY <1>2, <1>4 DEF segment
  <2>3. Walk(rows, Parse(there).components) = WalkInto(rows, Here, c)
    BY <1>2, <1>4, <2>1, <2>2, WalkAppend
  <2>4. IsDirectory(there)
    BY <1>2, <1>4, <2>1, <2>3, DirectoryIs
  <2> QED BY <1>4, <2>3, <2>4 DEF there
<1> QED BY <1>7, <1>8

\* A leaf that is not spelled out by another is found under its name.
LEMMA LeafResolves ==
  ASSUME MountInv, IsDirectory(cwd), Parse(cwd).docView,
         NEW leaf \in Leaves(rows, MatchingRows(rows, Here)),
         ~Spelled(rows, MatchingRows(rows, Here), leaf)
  PROVE  Resolve(rows, Append(cwd, leaf.name)) = FileOf(leaf)
<1> DEFINE there == Append(cwd, leaf.name)
           cs == Parse(cwd).components
           docs == MatchingRows(rows, Here)
           found == {l \in Leaves(rows, docs) : l.name = leaf.name}
           first == CHOOSE l \in found : TRUE
<1>1. cwd \in Seq(Seq(Text)) /\ IndexOk(rows)
  BY DEF MountInv
<1>2. /\ Parse(cwd) \in Parsed /\ cs \in Seq(Text) /\ Here = Walk(rows, cs)
      /\ Here.valid /\ Parse(cwd).docName = <<>>
  BY <1>1, HereFacts
<1>3. docs \in SUBSET Indexed(rows)
  BY DEF MatchingRows
<1> HIDE DEF docs
<1>4. PICK S : /\ Settling(rows, docs, S) /\ GrowDuplicates(rows, docs, S) = S
               /\ Leaves(rows, docs) = {LeafOf(rows, docs, c) : c \in S}
  BY <1>1, <1>3, LeavesIs
<1>5. PICK c \in S : leaf = LeafOf(rows, docs, c)
  BY <1>4 DEF docs
<1>6. leaf.name = Label(rows, docs, c) /\ leaf.head = c.head
  BY <1>5 DEF LeafOf
<1>7. leaf.name \in Seq(Text) /\ leaf.name # <<>>
  <2>1. PICK b \in Candidates(rows, docs) : Same(b, c)
    BY <1>4 DEF Settling
  <2>2. Fits(c) /\ c.base # <<>>
    BY <1>1, <1>3, <1>4, <2>1, CandidatesIs DEF Settling, Same
  <2> QED BY <1>6, <2>2, LabelType
<1>8. leaf.name # Toggle
  BY DEF Spelled
<1>9. Parse(there) = ParseSegment(Parse(cwd), leaf.name)
  BY <1>1, <1>7, ParseAppend
<1> HIDE DEF there
<1>10. Parse(there).components = cs /\ Parse(there).docName = leaf.name
  BY <1>2, <1>7, <1>8, <1>9, ParseSegmentIs
<1>11. leaf \in found
  BY DEF docs
<1>12. first \in found
  <2> HIDE DEF found
  <2> QED BY <1>11
<1>13. Resolve(rows, there) = FileOf(first)
  <2>1. Walk(rows, Parse(there).components) = Here
    BY <1>2, <1>10
  <2>2. found = {l \in Leaves(rows, MatchingRows(rows, Here)) : l.name = Parse(there).docName}
    BY <1>10 DEF docs
  <2>3. found # {}
    BY <1>11
  <2> HIDE DEF found
  <2> QED BY <1>2, <1>7, <1>10, <2>1, <2>2, <2>3 DEF Resolve
<1>14. first.head = leaf.head
  <2>1. first \in Leaves(rows, docs) /\ first.name = leaf.name
    BY <1>12
  <2> HIDE DEF first, found
  <2>2. PICK b \in S : first = LeafOf(rows, docs, b)
    BY <1>4, <2>1
  <2>3. first.name = Label(rows, docs, b) /\ first.head = b.head
    BY <2>2 DEF LeafOf
  <2>4. ASSUME b # c PROVE FALSE
    <3>1. Label(rows, docs, b) = Label(rows, docs, c)
      BY <1>6, <2>1, <2>3
    <3>2. Spelled(rows, docs, LeafOf(rows, docs, c))
      BY <1>1, <1>3, <1>4, <2>4, <3>1, TwinsAreSpelled
    <3> QED BY <1>5, <3>2 DEF docs
  <2> QED BY <1>6, <2>3, <2>4
<1> QED BY <1>13, <1>14 DEF FileOf, there

\* Whatever documents, names, forks and IDs there are: a facet that a directory lists is a
\* directory with documents in it, and a leaf that it lists is found under its name, unless
\* another leaf has the same name even with all IDs in full, or the name is `='.
THEOREM WhatIsListedResolves == Spec => []ListedResolves
<1>1. MountInv => ListedResolves
  <2> SUFFICES ASSUME MountInv, IsDirectory(cwd)
               PROVE  IF Parse(cwd).docView
                      THEN \A leaf \in Leaves(rows, MatchingRows(rows, Here)) :
                              \/ Spelled(rows, MatchingRows(rows, Here), leaf)
                              \/ Resolve(rows, Append(cwd, leaf.name)) = FileOf(leaf)
                      ELSE \A c \in Facets(rows, Here) :
                              LET there == Append(cwd, <<c>>) IN
                              /\ IsDirectory(there)
                              /\ MatchingRows(rows, Walk(rows, Parse(there).components)) # {}
    BY DEF ListedResolves
  <2>1. CASE Parse(cwd).docView
    BY <2>1, LeafResolves
  <2>2. CASE ~Parse(cwd).docView
    BY <2>2, FacetResolves
  <2> QED BY <2>1, <2>2
<1> QED BY <1>1, MountInvariant, PTL
----------------------------------------------------------------------------
(* Names that say the same say it with the same parts.                     *)

\* A sequence without the sign that suffixes begin with.
Plain(p) == p \in Seq(Text) /\ \A i \in 1 .. Len(p) : p[i] # "~"

Signed(id) == <<"~">> \o id

Suffix(shown, id) == IF shown THEN Signed(id) ELSE <<>>

\* What may follow such a sequence.
Marked(r) == r \in Seq(Text) /\ (r = <<>> \/ r[1] = "~")

\* The elements of a suffix that is shown.
LEMMA SuffixIs ==
  ASSUME NEW p \in Seq(Text)
  PROVE  LET s == Signed(p) IN
         /\ s \in Seq(Text) /\ Len(s) = Len(p) + 1 /\ s[1] = "~"
         /\ \A i \in 1 .. Len(p) : s[i + 1] = p[i]
<1>1. "~" \in Text
  BY MountAssumption
<1>2. <<"~">> \in Seq(Text) /\ Len(<<"~">>) = 1 /\ <<"~">>[1] = "~"
  BY <1>1
<1> QED BY <1>2 DEF Signed

Alike(a, b, c, d) == a \o b = c \o d

\* A sequence and what follows it.
LEMMA FollowedBy ==
  ASSUME NEW p \in Seq(Text), NEW r \in Seq(Text)
  PROVE  /\ Len(p \o r) = Len(p) + Len(r)
         /\ \A i \in 1 .. Len(p) : (p \o r)[i] = p[i]
         /\ \A i \in 1 .. Len(r) : (p \o r)[Len(p) + i] = r[i]
OBVIOUS

\* The part after the first sign is what precedes the second, or all there is.
LEMMA FirstPart ==
  ASSUME NEW p, Plain(p), NEW q, Plain(q), NEW r, Marked(r), NEW s, Marked(s),
         Alike(p, r, q, s)
  PROVE  p = q /\ r = s
<1>1. p \in Seq(Text) /\ q \in Seq(Text) /\ r \in Seq(Text) /\ s \in Seq(Text)
  BY DEF Plain, Marked
<1> DEFINE t == p \o r
           u == q \o s
<1>2. /\ Len(t) = Len(p) + Len(r) /\ \A i \in 1 .. Len(p) : t[i] = p[i]
      /\ \A i \in 1 .. Len(r) : t[Len(p) + i] = r[i]
  BY <1>1, FollowedBy
<1>3. /\ Len(u) = Len(q) + Len(s) /\ \A i \in 1 .. Len(q) : u[i] = q[i]
      /\ \A i \in 1 .. Len(s) : u[Len(q) + i] = s[i]
  BY <1>1, FollowedBy
<1>4. t = u
  BY DEF Alike
<1> HIDE DEF t, u
<1>5. Len(p) \in Nat /\ Len(q) \in Nat /\ Len(r) \in Nat /\ Len(s) \in Nat
  BY <1>1
<1>6. (Len(r) >= 1 => r[1] = "~") /\ (Len(s) >= 1 => s[1] = "~")
  BY <1>1 DEF Marked
<1>7. ASSUME Len(p) < Len(q) PROVE FALSE
  <2>1. Len(p) + 1 \in 1 .. Len(q) /\ 1 \in 1 .. Len(r)
    BY <1>2, <1>3, <1>4, <1>5, <1>7
  <2>2. t[Len(p) + 1] = "~" /\ u[Len(p) + 1] = q[Len(p) + 1]
    BY <1>2, <1>3, <1>5, <1>6, <2>1
  <2> QED BY <1>4, <2>1, <2>2 DEF Plain
<1>8. ASSUME Len(q) < Len(p) PROVE FALSE
  <2>1. Len(q) + 1 \in 1 .. Len(p) /\ 1 \in 1 .. Len(s)
    BY <1>2, <1>3, <1>4, <1>5, <1>8
  <2>2. u[Len(q) + 1] = "~" /\ t[Len(q) + 1] = p[Len(q) + 1]
    BY <1>2, <1>3, <1>5, <1>6, <2>1
  <2> QED BY <1>4, <2>1, <2>2 DEF Plain
<1>9. Len(p) = Len(q) /\ Len(r) = Len(s)
  BY <1>2, <1>3, <1>4, <1>5, <1>7, <1>8
<1>10. p = q
  <2>1. \A i \in 1 .. Len(p) : p[i] = q[i]
    BY <1>2, <1>3, <1>4, <1>9
  <2> QED BY <1>1, <1>9, <2>1, SeqEqual
<1>11. r = s
  <2>1. \A i \in 1 .. Len(r) : r[i] = s[i]
    BY <1>2, <1>3, <1>4, <1>9
  <2> QED BY <1>1, <1>9, <2>1, SeqEqual
<1> QED BY <1>10, <1>11

\* Sequences that begin alike and are equal end alike.
LEMMA SameRest ==
  ASSUME NEW a \in Seq(Text), NEW r \in Seq(Text), NEW s \in Seq(Text), a \o r = a \o s
  PROVE  r = s
<1> DEFINE t == a \o r
<1>1. /\ Len(t) = Len(a) + Len(r) /\ Len(t) = Len(a) + Len(s)
      /\ \A i \in 1 .. Len(r) : t[Len(a) + i] = r[i]
      /\ \A i \in 1 .. Len(s) : t[Len(a) + i] = s[i]
  OBVIOUS
<1>2. Len(a) \in Nat /\ Len(r) \in Nat /\ Len(s) \in Nat
  OBVIOUS
<1> HIDE DEF t
<1>3. Len(r) = Len(s) /\ \A i \in 1 .. Len(r) : r[i] = s[i]
  BY <1>1, <1>2
<1> QED BY <1>3, SeqEqual

\* A part of a name that may be shown.
Part(shown, id, s) ==
    /\ Marked(s)
    /\ shown => s # <<>> /\ s = Signed(id)
    /\ ~shown => s = <<>>

LEMMA SuffixPart ==
  ASSUME NEW shown \in BOOLEAN, NEW id, Plain(id)
  PROVE  Part(shown, id, Suffix(shown, id))
<1>1. id \in Seq(Text) /\ Len(id) \in Nat
  BY DEF Plain
<1>2. Signed(id) \in Seq(Text) /\ Len(Signed(id)) = Len(id) + 1 /\ Signed(id)[1] = "~"
  BY <1>1, SuffixIs
<1>3. Signed(id) # <<>>
  BY <1>1, <1>2
<1>4. <<>> \in Seq(Text)
  OBVIOUS
<1> QED BY <1>2, <1>3, <1>4 DEF Suffix, Part, Marked

LEMMA SignedRest ==
  ASSUME NEW p, Plain(p), NEW q, Plain(q)
  PROVE  Signed(p) = Signed(q) => p = q
<1>1. <<"~">> \in Seq(Text) /\ p \in Seq(Text) /\ q \in Seq(Text)
  BY MountAssumption DEF Plain
<1> QED BY <1>1, SameRest DEF Signed

\* Joining texts is associative.
Joins(a, b, c) == (a \o b) \o c = a \o (b \o c) /\ b \o c \in Seq(Text)

LEMMA JoinAssoc ==
  ASSUME NEW a \in Seq(Text), NEW b \in Seq(Text), NEW c \in Seq(Text)
  PROVE  Joins(a, b, c)
BY DEF Joins

\* The first suffixes say the same.
LEMMA FirstSuffix ==
  ASSUME NEW p, Plain(p), NEW q, Plain(q), NEW r, Marked(r), NEW s, Marked(s),
         Alike(Signed(p), r, Signed(q), s)
  PROVE  p = q /\ r = s
<1>1. <<"~">> \in Seq(Text) /\ p \in Seq(Text) /\ q \in Seq(Text) /\ r \in Seq(Text) /\ s \in Seq(Text)
  BY MountAssumption DEF Plain, Marked
<1>3. <<"~">> \o (p \o r) = <<"~">> \o (q \o s) /\ p \o r \in Seq(Text) /\ q \o s \in Seq(Text)
  <2>1. (<<"~">> \o p) \o r = (<<"~">> \o q) \o s
    BY DEF Signed, Alike
  <2> DEFINE sign == <<"~">>
  <2>2. sign \in Seq(Text)
    BY <1>1
  <2> HIDE DEF sign
  <2>3. Joins(sign, p, r)
    BY <1>1, <2>2, JoinAssoc
  <2>4. Joins(sign, q, s)
    BY <1>1, <2>2, JoinAssoc
  <2> QED BY <2>1, <2>3, <2>4, Zenon DEF sign, Joins
<1>4. Alike(p, r, q, s)
  BY <1>1, <1>3, SameRest DEF Alike
<1> QED BY <1>4, FirstPart

\* Suffixes that read alike show the same, as long as what one says of a document the
\* other does not say of a version.
LEMMA PartsMatch ==
  ASSUME NEW p, Plain(p), NEW q, Plain(q), NEW p2, Plain(p2), NEW q2, Plain(q2),
         p # q2, q # p2, NEW ds \in BOOLEAN, NEW vs \in BOOLEAN, NEW ds2 \in BOOLEAN, NEW vs2 \in BOOLEAN,
         NEW a, NEW b, NEW c, NEW d,
         Part(ds, p, a), Part(vs, q, b), Part(ds2, p2, c), Part(vs2, q2, d), Alike(a, b, c, d)
  PROVE  ds = ds2 /\ vs = vs2 /\ (ds => p = p2) /\ (vs => q = q2)
<1>1. Marked(a) /\ Marked(b) /\ Marked(c) /\ Marked(d) /\ Marked(<<>>)
  BY DEF Part, Marked
<1>2. \A x : Marked(x) => <<>> \o x = x /\ x \o <<>> = x
  BY DEF Marked
<1>3. ASSUME ds, ds2
      PROVE  p = p2 /\ b = d
  <2>1. Alike(Signed(p), b, Signed(p2), d)
    BY <1>3 DEF Part, Alike
  <2> QED BY <1>1, <2>1, FirstSuffix
<1>4. ASSUME ds, ~ds2
      PROVE  FALSE
  <2>1. a = Signed(p) /\ c = <<>> /\ a # <<>>
    BY <1>4 DEF Part
  <2>2. a \o b = d
    BY <1>1, <1>2, <2>1 DEF Alike
  <2>3. d # <<>>
    BY <1>1, <2>1, <2>2 DEF Marked
  <2>4. d = Signed(q2)
    BY <2>3 DEF Part
  <2>5. Alike(Signed(p), b, Signed(q2), <<>>)
    BY <1>1, <1>2, <2>1, <2>2, <2>4 DEF Alike
  <2>6. p = q2
    BY <1>1, <2>5, FirstSuffix
  <2> QED BY <2>6
<1>5. ASSUME ~ds, ds2
      PROVE  FALSE
  <2>1. c = Signed(p2) /\ a = <<>> /\ c # <<>>
    BY <1>5 DEF Part
  <2>2. c \o d = b
    BY <1>1, <1>2, <2>1 DEF Alike
  <2>3. b # <<>>
    BY <1>1, <2>1, <2>2 DEF Marked
  <2>4. b = Signed(q)
    BY <2>3 DEF Part
  <2>5. Alike(Signed(p2), d, Signed(q), <<>>)
    BY <1>1, <1>2, <2>1, <2>2, <2>4 DEF Alike
  <2>6. p2 = q
    BY <1>1, <2>5, FirstSuffix
  <2> QED BY <2>6
<1>6. ASSUME ~ds, ~ds2
      PROVE  b = d
  <2>1. a = <<>> /\ c = <<>>
    BY <1>6 DEF Part
  <2> QED BY <1>1, <1>2, <2>1 DEF Alike
<1>7. b = d /\ ds = ds2 /\ (ds => p = p2)
  BY <1>3, <1>4, <1>5, <1>6
<1>8. vs = vs2
  BY <1>7 DEF Part
<1>9. vs => q = q2
  <2> SUFFICES ASSUME vs PROVE q = q2
    OBVIOUS
  <2>1. Signed(q) = Signed(q2)
    BY <1>7, <1>8 DEF Part
  <2> QED BY <2>1, SignedRest
<1> QED BY <1>7, <1>8, <1>9
----------------------------------------------------------------------------
(* Leaves keep their documents.                                            *)

\* No version's ID begins like a document's, as far as any label shows both.
ShortIdsDiffer == \A d \in Doc, h \in Version : SubSeq(DocId[d], 1, 2) # SubSeq(VersionId[h], 1, 2)

\* What an ID begins with has no sign in it.
LEMMA IdIsPlain ==
  ASSUME NEW s \in Seq(Text), "~" \notin ToSet(s), NEW n \in Nat, n <= Len(s)
  PROVE  Plain(SubSeq(s, 1, n))
<1>1. SubSeq(s, 1, n) \in Seq(Text) /\ Len(SubSeq(s, 1, n)) = n
      /\ \A i \in 1 .. n : SubSeq(s, 1, n)[i] = s[i]
  OBVIOUS
<1>2. \A i \in 1 .. n : s[i] # "~"
  BY DEF ToSet
<1> QED BY <1>1, <1>2 DEF Plain

\* What is shown of a document is not what is shown of a version.
LEMMA ShownDiffers ==
  ASSUME ShortIdsDiffer, NEW d \in Doc, NEW h \in Version, NEW m \in Nat, NEW n \in Nat,
         m <= Len(DocId[d]), n >= 2, n <= Len(VersionId[h])
  PROVE  SubSeq(DocId[d], 1, m) # SubSeq(VersionId[h], 1, n)
<1> DEFINE s == DocId[d]
           t == VersionId[h]
<1>1. s \in Seq(Text) /\ t \in Seq(Text)
  BY MountAssumption
<1>2. SubSeq(s, 1, 2) # SubSeq(t, 1, 2)
  BY DEF ShortIdsDiffer
<1>3. m <= Len(s) /\ n <= Len(t)
  OBVIOUS
<1> SUFFICES ASSUME SubSeq(s, 1, m) = SubSeq(t, 1, n) PROVE FALSE
  OBVIOUS
<1> HIDE DEF s, t
<1>4. Len(SubSeq(s, 1, m)) = m /\ Len(SubSeq(t, 1, n)) = n
  BY <1>1, <1>3
<1>5. m = n
  BY <1>4
<1>6. SubSeq(s, 1, n) = SubSeq(t, 1, n) /\ 2 \in Nat /\ 2 <= n
  BY <1>5
<1>7. SubSeq(s, 1, 2) = SubSeq(t, 1, 2)
  BY <1>1, <1>3, <1>5, <1>6, PartsAgree
<1> QED BY <1>2, <1>7

\* Two leaves, of one index or of two, of one name and label.
LookAlike(ix, docs, b, iy, docz, c) ==
    b.base = c.base /\ Label(ix, docs, b) = Label(iy, docz, c)

\* Equal labels on one base show the same of documents and versions.
LEMMA LabelsTell ==
  ASSUME ShortIdsDiffer, NEW ix, NEW docs, NEW b, NEW iy, NEW docz, NEW c, Fits(b), Fits(c),
         LookAlike(ix, docs, b, iy, docz, c)
  PROVE  /\ DocSuffix(ix, docs, b) <=> DocSuffix(iy, docz, c)
         /\ VersionSuffix(ix, b) <=> VersionSuffix(iy, c)
         /\ DocSuffix(ix, docs, b) =>
               SubSeq(DocId[b.doc], 1, b.docLen) = SubSeq(DocId[c.doc], 1, c.docLen)
         /\ VersionSuffix(ix, b) =>
               SubSeq(VersionId[b.head], 1, b.versionLen) = SubSeq(VersionId[c.head], 1, c.versionLen)
<1> DEFINE base == b.base
           p == SubSeq(DocId[b.doc], 1, b.docLen)
           q == SubSeq(VersionId[b.head], 1, b.versionLen)
           p2 == SubSeq(DocId[c.doc], 1, c.docLen)
           q2 == SubSeq(VersionId[c.head], 1, c.versionLen)
           ds == DocSuffix(ix, docs, b)
           vs == VersionSuffix(ix, b)
           ds2 == DocSuffix(iy, docz, c)
           vs2 == VersionSuffix(iy, c)
           x == Suffix(ds, p)
           y == Suffix(vs, q)
           x2 == Suffix(ds2, p2)
           y2 == Suffix(vs2, q2)
<1>1. \A d \in Doc : "~" \notin ToSet(DocId[d])
  BY MountAssumption
<1>2. \A h \in Version : "~" \notin ToSet(VersionId[h])
  BY MountAssumption
<1>3. Plain(p) /\ Plain(p2)
  BY <1>1, FitsIs, IdIsPlain
<1>4. Plain(q) /\ Plain(q2)
  BY <1>2, FitsIs, IdIsPlain
<1>5. p # q2 /\ q # p2
  BY FitsIs, ShownDiffers
<1>6. ds \in BOOLEAN /\ vs \in BOOLEAN /\ ds2 \in BOOLEAN /\ vs2 \in BOOLEAN
  BY DEF DocSuffix, VersionSuffix
<1>7. (base \o x) \o y = (base \o x2) \o y2
  BY DEF LookAlike, Label, Suffix, Signed
<1>8. base \in Seq(Text)
  BY FitsIs
<1> HIDE DEF base, p, q, p2, q2, ds, vs, ds2, vs2
<1>9. Part(ds, p, x) /\ Part(vs, q, y) /\ Part(ds2, p2, x2) /\ Part(vs2, q2, y2)
  BY <1>3, <1>4, <1>6, SuffixPart
<1> HIDE DEF x, y, x2, y2
<1>10. Alike(x, y, x2, y2)
  <2>1. x \in Seq(Text) /\ y \in Seq(Text) /\ x2 \in Seq(Text) /\ y2 \in Seq(Text)
    BY <1>9 DEF Part, Marked
  <2>2. Joins(base, x, y)
    BY <1>8, <2>1, JoinAssoc
  <2>3. Joins(base, x2, y2)
    BY <1>8, <2>1, JoinAssoc
  <2>4. base \o (x \o y) = base \o (x2 \o y2) /\ x \o y \in Seq(Text) /\ x2 \o y2 \in Seq(Text)
    BY <1>7, <2>2, <2>3, Zenon DEF Joins
  <2> QED BY <1>8, <2>4, SameRest DEF Alike
<1>11. ds = ds2 /\ vs = vs2 /\ (ds => p = p2) /\ (vs => q = q2)
  BY <1>3, <1>4, <1>5, <1>6, <1>9, <1>10, PartsMatch
<1> QED BY <1>11 DEF p, q, p2, q2, ds, vs, ds2, vs2

\* Where two documents bear a name, it says which document is meant.
LEMMA RivalsAreMarked ==
  ASSUME NEW ix, NEW docs \in SUBSET Indexed(ix), NEW b, NEW d \in docs, NEW e \in docs, d # e,
         b.base \in Names(ix, d), b.base \in Names(ix, e)
  PROVE  DocSuffix(ix, docs, b)
<1> DEFINE bearers == {x \in docs : b.base \in Names(ix, x)}
<1>1. IsFiniteSet(bearers)
  <2>1. bearers \in SUBSET Doc /\ IsFiniteSet(Doc)
    BY MountAssumption DEF Indexed
  <2> HIDE DEF bearers
  <2> QED BY <2>1, FS_Subset
<1>2. d \in bearers /\ e \in bearers
  OBVIOUS
<1>3. Cardinality({d}) = 1 /\ IsFiniteSet({d})
  BY FS_Singleton
<1> HIDE DEF bearers
<1>4. {d} \in SUBSET bearers /\ {d} # bearers
  BY <1>2
<1>5. /\ Cardinality({d}) <= Cardinality(bearers) /\ Cardinality({d}) # Cardinality(bearers)
      /\ Cardinality(bearers) \in Nat
  BY <1>1, <1>4, FS_Subset, FS_CardinalityType
<1>6. Cardinality(bearers) > 1
  BY <1>3, <1>5
<1> QED BY <1>6 DEF bearers, DocSuffix

\* Who a settling leaf stands for.
LEMMA LeafStandsFor ==
  ASSUME NEW ix, IndexOk(ix), NEW docs \in SUBSET Indexed(ix), NEW X, Settling(ix, docs, X), NEW c \in X
  PROVE  /\ Fits(c) /\ c.doc \in docs /\ c.base \in Names(ix, c.doc)
         /\ c.head \in ix[c.doc].heads
<1>1. PICK b \in Candidates(ix, docs) : Same(b, c)
  BY DEF Settling
<1>2. b.doc \in docs /\ b.base \in Names(ix, b.doc) /\ b.head \in ix[b.doc].heads
  BY DEF Candidates
<1> QED BY <1>1, <1>2 DEF Settling, Same

\* A name and a head of a document have their leaf.
LEMMA LeafFor ==
  ASSUME NEW ix, NEW docs, NEW X, Settling(ix, docs, X), NEW d \in docs,
         NEW n \in Names(ix, d), NEW h \in ix[d].heads
  PROVE  \E c \in X : c.doc = d /\ c.base = n /\ c.head = h
<1> DEFINE b == [doc |-> d, base |-> n, head |-> h, docLen |-> 1, versionLen |-> 2]
<1>1. b \in Candidates(ix, docs)
  BY DEF Candidates
<1>2. b.doc = d /\ b.base = n /\ b.head = h
  OBVIOUS
<1> HIDE DEF b
<1>3. PICK c \in X : Same(c, b)
  BY <1>1 DEF Settling
<1> QED BY <1>2, <1>3 DEF Same

\* When nothing grows any more, a leaf says something that is not true of a rival.
LEMMA TellsApart ==
  ASSUME NEW ix, IndexOk(ix), NEW docs \in SUBSET Indexed(ix), NEW X,
         Settling(ix, docs, X), GrowDuplicates(ix, docs, X) = X,
         NEW b \in X, NEW c \in X, Rivals(ix, b, c), Echoes(ix, b, c)
  PROVE  FALSE
<1>1. b.docLen = c.docLen /\ b.versionLen = c.versionLen
  BY DEF Settling, InStep
<1>2. Label(ix, docs, b) = Label(ix, docs, c)
  BY <1>1, EchoesAreTwins
<1>3. b # c
  BY DEF Rivals
<1>4. b \in Candidate /\ Fits(b) /\ Fits(c)
  BY FitsIs DEF Settling
<1>5. RoundOf(ix, docs, X, b) = Grown(ix, docs, b)
  BY <1>2, <1>3 DEF RoundOf
<1>6. Grown(ix, docs, b) \in X
  BY <1>5, RoundsIs
<1>7. Grown(ix, docs, b) = b
  BY <1>4, <1>6, GrownIs DEF Settling, Ahead
<1>8. DocSuffix(ix, docs, b)
  <2>1. b.doc \in docs /\ b.base \in Names(ix, b.doc)
    BY LeafStandsFor
  <2>2. c.doc \in docs /\ c.base \in Names(ix, c.doc)
    BY LeafStandsFor
  <2>3. b.base = c.base /\ b.doc # c.doc
    BY DEF Rivals
  <2> QED BY <2>1, <2>2, <2>3, RivalsAreMarked
<1>9. b.docLen = Len(DocId[b.doc])
  BY <1>4, <1>7, <1>8, GrownIs
<1>10. b.doc \in Doc /\ c.doc \in Doc /\ DocId[b.doc] \in Seq(Text) /\ DocId[c.doc] \in Seq(Text)
  BY <1>4, FitsIs
<1>11. Len(DocId[b.doc]) = Len(DocId[c.doc])
  BY <1>10, MountAssumption
<1>12. SubSeq(DocId[b.doc], 1, Len(DocId[b.doc])) = SubSeq(DocId[c.doc], 1, Len(DocId[c.doc]))
  BY <1>9, <1>11 DEF Echoes
<1>13. \A s \in Seq(Text) : SubSeq(s, 1, Len(s)) = s
  OBVIOUS
<1>14. DocId[b.doc] = DocId[c.doc]
  BY <1>10, <1>12, <1>13
<1>15. b.doc = c.doc
  BY <1>10, <1>14, MountAssumption
<1> QED BY <1>15 DEF Rivals

\* A leaf's label is that of no leaf of another index whose document is here with the
\* same names and heads.
LEMMA NotMistaken ==
  ASSUME ShortIdsDiffer, NEW ix, IndexOk(ix), NEW docs \in SUBSET Indexed(ix), NEW X,
         Settling(ix, docs, X), GrowDuplicates(ix, docs, X) = X, NEW b \in X,
         NEW iy, IndexOk(iy), NEW docz \in SUBSET Indexed(iy), NEW Y, Settling(iy, docz, Y), NEW c \in Y,
         LookAlike(ix, docs, b, iy, docz, c),
         c.doc \in docs, Names(ix, c.doc) = Names(iy, c.doc), ix[c.doc].heads = iy[c.doc].heads
  PROVE  b.doc = c.doc
<1> SUFFICES ASSUME b.doc # c.doc PROVE FALSE
  OBVIOUS
<1>1. Fits(b) /\ b.doc \in docs /\ b.base \in Names(ix, b.doc)
  BY LeafStandsFor
<1>2. Fits(c) /\ c.base \in Names(iy, c.doc) /\ c.head \in iy[c.doc].heads
  BY LeafStandsFor
<1>3. PICK a \in X : a.doc = c.doc /\ a.base = c.base /\ a.head = c.head
  BY <1>2, LeafFor
<1>4. DocSuffix(ix, docs, b)
  BY <1>1, <1>2, RivalsAreMarked DEF LookAlike
<1>5. /\ VersionSuffix(ix, b) <=> VersionSuffix(iy, c)
      /\ SubSeq(DocId[b.doc], 1, b.docLen) = SubSeq(DocId[c.doc], 1, c.docLen)
      /\ VersionSuffix(ix, b) =>
            SubSeq(VersionId[b.head], 1, b.versionLen) = SubSeq(VersionId[c.head], 1, c.versionLen)
  <2>1. /\ VersionSuffix(ix, b) <=> VersionSuffix(iy, c)
        /\ DocSuffix(ix, docs, b) =>
               SubSeq(DocId[b.doc], 1, b.docLen) = SubSeq(DocId[c.doc], 1, c.docLen)
        /\ VersionSuffix(ix, b) =>
               SubSeq(VersionId[b.head], 1, b.versionLen) = SubSeq(VersionId[c.head], 1, c.versionLen)
    BY <1>1, <1>2, LabelsTell
  <2> QED BY <1>4, <2>1
<1>6. VersionSuffix(ix, a) = VersionSuffix(iy, c)
  BY <1>3 DEF VersionSuffix
<1>7. Rivals(ix, b, a)
  BY <1>3, <1>5, <1>6 DEF Rivals, LookAlike
<1>8. ASSUME NEW s \in Seq(Text), NEW t \in Seq(Text), NEW m \in Nat, NEW n \in Nat,
             m <= Len(s), n <= Len(t), SubSeq(s, 1, m) = SubSeq(t, 1, n)
      PROVE  m = n
  <2>1. Len(SubSeq(s, 1, m)) = m /\ Len(SubSeq(t, 1, n)) = n
    BY <1>8
  <2> QED BY <1>8, <2>1
<1>9. b.docLen = c.docLen
  BY <1>1, <1>2, <1>5, <1>8, FitsIs
<1>10. VersionSuffix(ix, b) => b.versionLen = c.versionLen
  BY <1>1, <1>2, <1>5, <1>8, FitsIs
<1>11. Echoes(ix, b, a)
  BY <1>3, <1>5, <1>9, <1>10 DEF Echoes
<1> QED BY <1>7, <1>11, TellsApart

\* One change to the index, seen from a directory that asks for the same tags.
LEMMA ChangeKeepsDocument ==
  ASSUME ShortIdsDiffer, NEW ix, IndexOk(ix), NEW iy, IndexOk(iy), NEW w \in Walks, NEW d \in Doc,
         \A e \in Doc \ {d} : iy[e] = ix[e],
         NEW old \in Leaves(ix, MatchingRows(ix, w)), NEW new \in Leaves(iy, MatchingRows(iy, w)),
         old.name = new.name, old.base = new.base
  PROVE  old.doc = new.doc
<1> DEFINE docs == MatchingRows(ix, w)
           docz == MatchingRows(iy, w)
<1>1. docs \in SUBSET Indexed(ix) /\ docz \in SUBSET Indexed(iy)
  BY DEF MatchingRows
<1>2. ASSUME NEW e \in Doc, e # d
      PROVE  (e \in docs <=> e \in docz) /\ ix[e] = iy[e] /\ Names(ix, e) = Names(iy, e)
  <2>1. ix[e] = iy[e]
    BY <1>2
  <2>2. e \in Indexed(ix) <=> e \in Indexed(iy)
    BY <2>1 DEF Indexed
  <2>3. \A path : e \in Under(ix, path) <=> e \in Under(iy, path)
    BY <2>1, <2>2 DEF Under
  <2>4. e \in docs <=> e \in docz
    BY <2>2, <2>3 DEF MatchingRows
  <2> QED BY <2>1, <2>4 DEF Names
<1>3. PICK X : /\ Settling(ix, docs, X) /\ GrowDuplicates(ix, docs, X) = X
               /\ Leaves(ix, docs) = {LeafOf(ix, docs, c) : c \in X}
  BY <1>1, LeavesIs
<1>4. PICK Y : /\ Settling(iy, docz, Y) /\ GrowDuplicates(iy, docz, Y) = Y
               /\ Leaves(iy, docz) = {LeafOf(iy, docz, c) : c \in Y}
  BY <1>1, LeavesIs
<1>5. PICK b \in X : old = LeafOf(ix, docs, b)
  BY <1>3
<1>6. PICK c \in Y : new = LeafOf(iy, docz, c)
  BY <1>4
<1>7. /\ old.doc = b.doc /\ new.doc = c.doc
      /\ LookAlike(ix, docs, b, iy, docz, c) /\ LookAlike(iy, docz, c, ix, docs, b)
  BY <1>5, <1>6 DEF LeafOf, LookAlike
<1>8. b.doc \in docs /\ c.doc \in docz /\ b.doc \in Doc /\ c.doc \in Doc
  BY <1>1, <1>3, <1>4, LeafStandsFor, FitsIs
<1> HIDE DEF docs, docz
<1>9. CASE c.doc # d
  <2>1. c.doc \in docs /\ Names(ix, c.doc) = Names(iy, c.doc) /\ ix[c.doc].heads = iy[c.doc].heads
    BY <1>2, <1>8, <1>9
  <2>2. b.doc = c.doc
    BY <1>1, <1>3, <1>4, <1>7, <2>1, NotMistaken
  <2> QED BY <1>7, <2>2
<1>10. CASE b.doc # d
  <2>1. b.doc \in docz /\ Names(ix, b.doc) = Names(iy, b.doc) /\ ix[b.doc].heads = iy[b.doc].heads
    BY <1>2, <1>8, <1>10
  <2>2. c.doc = b.doc
    BY <1>1, <1>3, <1>4, <1>7, <2>1, NotMistaken
  <2> QED BY <1>7, <2>2
<1> QED BY <1>7, <1>9, <1>10

\* Where no version's ID begins like a document's, one change to the index never turns a
\* leaf into that of another document of its name: the suffixes of two documents of one
\* name grow in step for as long as nothing tells them apart, so that a leaf says what is
\* not true of the other document, before the change and after it.
THEOREM LeavesKeepTheirDocument ==
  ASSUME ShortIdsDiffer
  PROVE  Spec => LeafKeepsDocument
<1> DEFINE Keeps ==
      Parse(cwd).docView /\ Walk(rows', Parse(cwd).components) = Here =>
        LET before == Leaves(rows, MatchingRows(rows, Here))
            after == Leaves(rows', MatchingRows(rows', Here))
        IN \A old \in before, new \in after :
              old.name = new.name /\ old.base = new.base => old.doc = new.doc
<1>1. ASSUME MountInv, Next
      PROVE  [Keeps]_rows
  <2>1. MountInv'
    BY <1>1, NextMount
  <2>2. IndexOk(rows) /\ IndexOk(rows') /\ Here \in Walks
    BY <1>1, <2>1, HereFacts, WalkType DEF MountInv, Here
  <2>3. ASSUME NEW d \in Doc, NEW edition \in Edition[d], IndexDocument(d, edition)
        PROVE  Keeps
    <3>1. \A e \in Doc \ {d} : rows'[e] = rows[e]
      BY <1>1, <2>3 DEF IndexDocument, MountInv
    <3> SUFFICES ASSUME NEW old \in Leaves(rows, MatchingRows(rows, Here)),
                        NEW new \in Leaves(rows', MatchingRows(rows', Here)),
                        old.name = new.name, old.base = new.base
                 PROVE  old.doc = new.doc
      OBVIOUS
    <3> QED BY <1>1, <2>2, <3>1, ChangeKeepsDocument
  <2>4. ASSUME NEW segment \in Segments, Enter(segment)
        PROVE  UNCHANGED rows
    BY <2>4 DEF Enter
  <2>5. ASSUME Leave
        PROVE  UNCHANGED rows
    BY <2>5 DEF Leave
  <2> HIDE DEF Keeps
  <2> QED BY <1>1, <2>3, <2>4, <2>5 DEF Next
<1>2. ASSUME MountInv, [Next]_vars
      PROVE  [Keeps]_rows
  <2> HIDE DEF Keeps
  <2> QED BY <1>1, <1>2 DEF vars
<1>3. LeafKeepsDocument <=> [][Keeps]_rows
  BY DEF LeafKeepsDocument
<1> HIDE DEF Keeps
<1> QED BY <1>2, <1>3, MountInvariant, PTL DEF Spec

=============================================================================
