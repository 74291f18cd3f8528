------------------------------- MODULE Mount -------------------------------
(***************************************************************************)
(* The read-only mount: paths as queries (query.rs), the walk and the      *)
(* facets over indexed tags (index.rs), and the names under which          *)
(* documents are listed (mount.rs), while commands change the index.       *)
(*                                                                         *)
(* A path names tags to narrow by; a lone `=' in it turns between the view *)
(* of facets, as directories, and the view of documents, as files.  The    *)
(* mount remembers nothing about a path: every lookup and every read       *)
(* resolves it anew, against the index of that moment.                     *)
(*                                                                         *)
(* Simplifications:                                                        *)
(*  - an ID is a sequence of blocks of four characters, and a label a      *)
(*    sequence whose first member is a stem; a file extension, which       *)
(*    suffixes precede, is left out;                                       *)
(*  - a head stands for its content and size too;                          *)
(*  - tags are sequences of components; that SQLite's LIKE takes `A' for   *)
(*    `a' is left out;                                                     *)
(*  - an operation of the mount is one step: it holds the mount's only     *)
(*    thread, and the index changes between its queries are left out;      *)
(*  - inode numbers stand for paths, and are never given up.               *)
(***************************************************************************)
EXTENDS Naturals, FiniteSets, SequencesExt

CONSTANTS
    Text,       \* what segments, names and IDs are made of
    Doc,        \* documents
    DocId,      \* document -> the blocks of its ID
    Version,    \* versions that may be a document's current content
    VersionId,  \* version -> the blocks of its ID
    TypeOf,     \* version -> the components of its content's type
    Edition,    \* document -> what it may say: sets of tags, names and heads
    Compound,   \* segments `key=value' that somebody may type
    Unindexed,  \* no rows
    MaxDepth    \* how many segments a path may have

ASSUME MountAssumption ==
    /\ \A d, e \in Doc : DocId[d] = DocId[e] => d = e
    /\ \A g, h \in Version : VersionId[g] = VersionId[h] => g = h
    /\ \A d, e \in Doc : Len(DocId[d]) = Len(DocId[e])
    /\ \A g, h \in Version : Len(VersionId[g]) = Len(VersionId[h])
    /\ {"=", "~", "untitled", "owner", "local", "type", "tag"} \subseteq Text
    /\ IsFiniteSet(Doc)
    /\ DocId \in [Doc -> Seq(Text)] /\ \A d \in Doc : Len(DocId[d]) >= 2
    /\ VersionId \in [Version -> Seq(Text)] /\ \A h \in Version : Len(VersionId[h]) >= 2
    /\ \A d \in Doc : "~" \notin ToSet(DocId[d])
    /\ \A h \in Version : "~" \notin ToSet(VersionId[h])
    /\ TypeOf \in [Version -> Seq(Text)]
    /\ Compound \subseteq Seq(Text)
    /\ MaxDepth \in Nat
    /\ \A d \in Doc : \A edition \in Edition[d] :
        /\ edition \in [tags : SUBSET Seq(Text), names : SUBSET (Seq(Text) \ {<<>>}),
                        heads : SUBSET Version]
        /\ IsFiniteSet(edition.names) /\ IsFiniteSet(edition.heads)

VARIABLES
    rows,       \* document -> its indexed tags, names and heads
    cwd         \* where somebody stands who walks through the mount

vars == <<rows, cwd>>

Toggle == <<"=">>

\* The documents that index ix, a value of rows, has rows of.
Indexed(ix) == {d \in Doc : ix[d] # Unindexed}

----------------------------------------------------------------------------
(* Tags as paths, and walking down them (index.rs).                        *)

\* upsert: types are tags too, and a bare tag goes under `tag'.
RowsOf(edition) ==
    [edition EXCEPT !.tags =
        {<<"owner", "local">>}
        \cup {<<"type">> \o TypeOf[h] : h \in edition.heads}
        \cup {IF Len(t) > 1 THEN t ELSE <<"tag">> \o t : t \in @}]

AllTags(ix) == UNION {ix[d].tags : d \in Indexed(ix)}

\* The documents with a tag at or under this path.
Under(ix, path) == {d \in Indexed(ix) : \E t \in ix[d].tags : IsPrefix(path, t)}

TagPrefixExists(ix, path) == Under(ix, path) # {}

TagComplete(ix, path) == path \in AllTags(ix)

NoPath == <<>>

\* Taking up the path walked so far as a condition.
Constrain(walk) ==
    [walk EXCEPT !.constraints = @ \cup ({walk.partial} \ {NoPath}), !.partial = NoPath]

\* Treating a tag that is complete as a key that may be drilled further.
Completed_Never(ix, walk) == walk

\* A complete tag ends: what follows narrows by another one.
Completed(ix, walk) == IF TagComplete(ix, walk.partial) THEN Constrain(walk) ELSE walk

\* One component: further down the tag if there is one, else a tag of its own.
WalkInto(ix, walk, component) ==
    LET deeper == Append(walk.partial, component)
        alone == <<component>>
        further == [walk EXCEPT !.partial = deeper]
        another == [Constrain(walk) EXCEPT !.partial = alone,
                                           !.valid = @ /\ TagPrefixExists(ix, alone)]
    IN Completed(ix, IF TagPrefixExists(ix, deeper) THEN further ELSE another)

Walk(ix, components) ==
    LET walked[n \in 0 .. Len(components)] ==
            IF n = 0 THEN [constraints |-> {}, partial |-> NoPath, valid |-> TRUE]
            ELSE LET walk == walked[n - 1] IN WalkInto(ix, walk, components[n])
    IN walked[Len(components)]

MatchingRows(ix, walk) ==
    {d \in Indexed(ix) : \A path \in Constrain(walk).constraints : d \in Under(ix, path)}

\* What lies below the path walked so far in the tags of these documents.
TagsBelow(ix, walk, docs) ==
    {t \in UNION {ix[d].tags : d \in docs} :
        IsPrefix(walk.partial, t) /\ Len(t) > Len(walk.partial)}

DocsBy(ix, walk, component) ==
    {d \in MatchingRows(ix, walk) :
        \E t \in TagsBelow(ix, walk, {d}) : t[Len(walk.partial) + 1] = component}

\* The components that may follow this one.
Deeper(ix, walk, component) ==
    LET n == Len(walk.partial) + 1 IN
    {t[n + 1] : t \in {u \in TagsBelow(ix, walk, MatchingRows(ix, walk)) :
                          Len(u) > n /\ u[n] = component}}

Components(ix, walk) ==
    {t[Len(walk.partial) + 1] : t \in TagsBelow(ix, walk, MatchingRows(ix, walk))}

\* Judging by all documents instead of those that match.
Splits_Globally(ix, walk, component) ==
    \/ DocsBy(ix, walk, component) # Indexed(ix)
    \/ Cardinality(Deeper(ix, walk, component)) > 1

Splits(ix, walk, component) ==
    \/ DocsBy(ix, walk, component) # MatchingRows(ix, walk)
    \/ Cardinality(Deeper(ix, walk, component)) > 1

Facets(ix, walk) ==
    LET splitting == {c \in Components(ix, walk) : Splits(ix, walk, c)} IN
    IF splitting = {} THEN Components(ix, walk) ELSE splitting

----------------------------------------------------------------------------
(* The names of documents in a directory (mount.rs leaves).                *)

Names(ix, d) ==
    IF ix[d].names = {} THEN {<<"untitled">> \o SubSeq(DocId[d], 1, 2)}
    ELSE ix[d].names

Candidate == [doc : Doc, base : Seq(Text), head : Version, docLen : Nat, versionLen : Nat]

\* A leaf for every current name and every current head.
Candidates(ix, docs) ==
    UNION {{[doc |-> d, base |-> n, head |-> h, docLen |-> 1, versionLen |-> 2] :
               n \in Names(ix, d), h \in ix[d].heads} : d \in docs}

\* The first document of a name keeps it bare.
DocSuffix_ButFirst(ix, docs, c) ==
    c.doc # CHOOSE d \in docs : c.base \in Names(ix, d)

\* Several documents of the directory bear this name.
DocSuffix(ix, docs, c) == Cardinality({d \in docs : c.base \in Names(ix, d)}) > 1

VersionSuffix(ix, c) == Cardinality(ix[c.doc].heads) > 1

Label(ix, docs, c) ==
    c.base
    \o (IF DocSuffix(ix, docs, c) THEN <<"~">> \o SubSeq(DocId[c.doc], 1, c.docLen) ELSE <<>>)
    \o (IF VersionSuffix(ix, c) THEN <<"~">> \o SubSeq(VersionId[c.head], 1, c.versionLen) ELSE <<>>)

\* Growing the suffix of a document only.
Grown_DocOnly(ix, docs, c) ==
    [c EXCEPT !.docLen = IF DocSuffix(ix, docs, c) /\ @ < Len(DocId[c.doc]) THEN @ + 1 ELSE @]

\* Four more characters for each suffix that has them.
Grown(ix, docs, c) ==
    [c EXCEPT
        !.docLen = IF DocSuffix(ix, docs, c) /\ @ < Len(DocId[c.doc]) THEN @ + 1 ELSE @,
        !.versionLen = IF VersionSuffix(ix, c) /\ @ < Len(VersionId[c.head]) THEN @ + 1 ELSE @]

\* One round: the suffixes of leaves that look alike grow.
GrowDuplicates(ix, docs, candidates) ==
    LET twins(c) == {b \in candidates \ {c} : Label(ix, docs, b) = Label(ix, docs, c)} IN
    {IF twins(c) = {} THEN c ELSE Grown(ix, docs, c) : c \in candidates}

\* Rounds until all leaves differ or nothing can grow.
Leaves(ix, docs) ==
    LET settled[candidates \in SUBSET Candidate] ==
            LET next == GrowDuplicates(ix, docs, candidates) IN
            IF next = candidates THEN candidates ELSE settled[next]
    IN {[name |-> Label(ix, docs, c), base |-> c.base, doc |-> c.doc, head |-> c.head] :
           c \in settled[Candidates(ix, docs)]}

----------------------------------------------------------------------------
(* Paths (query.rs) and what they resolve to (mount.rs MountView).         *)

\* A lone `=' turns the view; other segments narrow, or name a document.
\* `key=value' is one segment of two components.
ParseSegment(parsed, segment) ==
    IF segment = Toggle THEN [parsed EXCEPT !.docView = ~@, !.docName = <<>>]
    ELSE IF parsed.docView THEN [parsed EXCEPT !.docName = segment]
    ELSE [parsed EXCEPT !.components = @ \o segment]

Parse(path) ==
    LET parse[n \in 0 .. Len(path)] ==
            IF n = 0 THEN [components |-> <<>>, docView |-> FALSE, docName |-> <<>>]
            ELSE LET parsed == parse[n - 1] IN ParseSegment(parsed, path[n])
    IN parse[Len(path)]

Missing == [kind |-> "missing"]
Directory == [kind |-> "directory"]
FileOf(leaf) == [kind |-> "file", head |-> leaf.head]

Resolve(ix, path) ==
    LET parsed == Parse(path)
        walk == Walk(ix, parsed.components)
        found == {leaf \in Leaves(ix, MatchingRows(ix, walk)) : leaf.name = parsed.docName}
    IN IF ~walk.valid THEN Missing
       ELSE IF parsed.docName = <<>> THEN Directory
       ELSE IF found = {} THEN Missing
       ELSE FileOf(CHOOSE leaf \in found : TRUE)

\* The walk to the directory where somebody stands.
Here == Walk(rows, Parse(cwd).components)

IsDirectory(path) == Resolve(rows, path) = Directory

----------------------------------------------------------------------------

Init ==
    /\ rows \in [Doc -> {RowsOf(e) : e \in UNION {Edition[d] : d \in Doc}} \cup {Unindexed}]
    /\ \A d \in Doc : rows[d] \in {RowsOf(e) : e \in Edition[d]} \cup {Unindexed}
    /\ cwd = <<>>

\* A command commits new rows of a document.
IndexDocument(d, edition) ==
    /\ rows' = [rows EXCEPT ![d] = RowsOf(edition)]
    /\ UNCHANGED cwd

\* lookup of a directory, and opendir.
Enter(segment) ==
    /\ Len(cwd) < MaxDepth
    /\ IsDirectory(cwd) /\ IsDirectory(Append(cwd, segment))
    /\ cwd' = Append(cwd, segment)
    /\ UNCHANGED rows

\* `..' is the path without its last segment.
Leave ==
    /\ cwd # <<>>
    /\ IsDirectory(cwd) /\ IsDirectory(Front(cwd))
    /\ cwd' = Front(cwd)
    /\ UNCHANGED rows

Segments == {Toggle} \cup Compound \cup {<<c>> : c \in UNION {ToSet(t) : t \in AllTags(rows)}}

Next ==
    \/ \E d \in Doc : \E edition \in Edition[d] : IndexDocument(d, edition)
    \/ \E segment \in Segments : Enter(segment)
    \/ Leave

Spec == Init /\ [][Next]_vars

----------------------------------------------------------------------------

\* What no suffix can tell apart: a name that spells out another leaf with
\* its suffixes in full, and the name `=', which a path cannot say.
FullLabel(ix, docs, c) ==
    Label(ix, docs, [c EXCEPT !.docLen = Len(DocId[c.doc]), !.versionLen = Len(VersionId[c.head])])

Spelled(ix, docs, leaf) ==
    \/ leaf.name = Toggle
    \/ \E b, c \in Candidates(ix, docs) :
          /\ b # c
          /\ FullLabel(ix, docs, b) = leaf.name /\ FullLabel(ix, docs, c) = leaf.name

\* What a directory lists is what a lookup there finds: a facet is a directory
\* with at least one document in it, and a leaf is the file of its document
\* and version, even when documents share names, forks share names, and short
\* IDs coincide.
ListedResolves ==
    IsDirectory(cwd) =>
        IF Parse(cwd).docView
        THEN \A leaf \in Leaves(rows, MatchingRows(rows, Here)) :
                \/ Spelled(rows, MatchingRows(rows, Here), leaf)
                \/ Resolve(rows, Append(cwd, leaf.name)) = FileOf(leaf)
        ELSE \A c \in Facets(rows, Here) :
                LET there == Append(cwd, <<c>>) IN
                IsDirectory(there) /\ MatchingRows(rows, Walk(rows, Parse(there).components)) # {}

\* A document is found under any of its tags, and under two of them in either
\* order, whatever other tags there are, unless a tag that another document
\* bears ends on the way.
Shadowed(tag) == \E t \in AllTags(rows) : IsStrictPrefix(t, tag)

TagsReachable ==
    cwd = <<>> => \A t, u \in {v \in AllTags(rows) : ~Shadowed(v)} :
        LET walk == Walk(rows, t \o u) IN
        walk.valid /\ MatchingRows(rows, walk) = Under(rows, t) \cap Under(rows, u)

\* Descending into a facet never widens the set of documents; whatever would
\* narrow it is offered, and what would neither narrow it nor branch is offered
\* only where nothing else is.
Narrowed(c) == MatchingRows(rows, Walk(rows, Append(Parse(cwd).components, c)))

FacetsNarrow ==
    IsDirectory(cwd) /\ ~Parse(cwd).docView =>
        LET all == MatchingRows(rows, Here)
            useful(c) == Narrowed(c) # all \/ Cardinality(Deeper(rows, Here, c)) > 1
        IN /\ \A c \in Facets(rows, Here) : Narrowed(c) \subseteq all
           /\ \A c \in Components(rows, Here) : Narrowed(c) # all => c \in Facets(rows, Here)
           /\ \/ \A c \in Facets(rows, Here) : useful(c)
              \/ \A c \in Components(rows, Here) : ~useful(c)

\* Somebody who holds a leaf open may come to read another version, but one
\* change to the index never turns the leaf into that of another document of
\* this name, as long as its directory asks for the same tags.
LeafKeepsDocument ==
    [][Parse(cwd).docView /\ Walk(rows', Parse(cwd).components) = Here =>
          LET before == Leaves(rows, MatchingRows(rows, Here))
              after == Leaves(rows', MatchingRows(rows', Here))
          IN \A old \in before, new \in after :
                old.name = new.name /\ old.base = new.base => old.doc = new.doc]_rows
=============================================================================
