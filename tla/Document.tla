------------------------------ MODULE Document ------------------------------
(***************************************************************************)
(* One document edited from snapshots that may be stale, on stores that    *)
(* are copied and recovered from one another's checkpoints (library.rs,    *)
(* causal.rs, document.rs).                                                *)
(*                                                                         *)
(* An edit names the claims that its editor saw current and that it        *)
(* replaces.  Nothing else orders claims: folding a set of them finds the  *)
(* current names and tags and the head versions, whatever order they came  *)
(* in.                                                                     *)
(*                                                                         *)
(* Simplifications:                                                        *)
(*  - claim IDs, hashes of contents that include a random nonce, are the   *)
(*    numbers in which claims are minted;                                  *)
(*  - names, contents and times are left out: no current value depends on  *)
(*    them.  Tag paths are sequences, already normalized;                  *)
(*  - a log is the set of its claims (module Log has them in order).       *)
(***************************************************************************)
EXTENDS Naturals, FiniteSets, SequencesExt

CONSTANTS
    Store,      \* stores that may hold the document
    Editor,     \* holders of a loaded Document
    Path,       \* tag paths
    TagArgs,    \* pairs of finite sets of paths that tag_at is given
    NoScope,    \* the scope of a tag that was not `set'
    MaxClaims   \* bound on claims minted

ASSUME PathAssumption ==
    /\ Path \subseteq Seq(STRING) \ {<<>>}
    /\ TagArgs \subseteq [add : SUBSET Path, del : SUBSET Path]
    /\ \A args \in TagArgs : IsFiniteSet(args.add) /\ IsFiniteSet(args.del)
    /\ NoScope \notin Path
    /\ MaxClaims \in Nat

VARIABLES
    log,        \* store -> its claims of the document; none: no such document
    ledger,     \* store -> the claims its last checkpoint holds
    seen,       \* editor -> the claims its Document was folded from
    at,         \* editor -> the store it loaded the Document from
    saw         \* for each claim minted, the IDs its editor had seen

vars == <<log, ledger, seen, at, saw>>

----------------------------------------------------------------------------
(* Folding a set of claims.                                                *)

Ids(L) == {c.id : c \in L}
Of(L, kind) == {c \in L : c.kind = kind}

\* IDs that some claim refers to.
Targets(L) == UNION {c.refs : c \in L}

Below(prefix, path) == IsStrictPrefix(prefix, path)

\* validate_reference: which claim p may be replaced by claim c.
CanRefer(c, p) ==
    \/ c.kind = "version" /\ p.kind = "version"
    \/ c.kind = "name" /\ p.kind = "name"
    \/ /\ c.kind = "add" /\ p.kind = "add" /\ c.scope # NoScope
       /\ p.tag = c.scope \/ Below(c.scope, p.tag)
    \/ /\ c.kind = "add" /\ p.kind = "add" /\ c.scope = NoScope
       /\ p.tag = c.tag \/ Below(p.tag, c.tag)
    \/ c.kind = "remove" /\ p.kind = "add" /\ c.tag = p.tag

\* Claims reached in n rounds by taking those whose references were taken.
Ordered(L) ==
    LET upTo[n \in 0 .. Cardinality(L)] ==
            IF n = 0 THEN {}
            ELSE LET taken == Ids(upTo[n - 1])
                 IN {c \in L : c.refs \subseteq taken}
    IN upTo[Cardinality(L)]

\* Document::fold succeeds: one create claim, references resolved, in their
\* field, and without a cycle.
Folds(L) ==
    /\ Cardinality(Of(L, "create")) = 1
    /\ \A c \in L : \A r \in c.refs : \E p \in L : p.id = r /\ CanRefer(c, p)
    /\ Ordered(L) = L

Names(L) == {c \in Of(L, "name") : c.id \notin Targets(L)}
Tags(L) == {c \in Of(L, "add") : c.id \notin Targets(L)}

\* The head with the latest time, instead of every head.
Heads_Latest(L) ==
    {c \in Of(L, "version") : \A d \in Of(L, "version") : d.id <= c.id}

Heads(L) == {c \in Of(L, "version") : c.id \notin Targets(L)}

\* projected_tags: the deepest paths.
Projected(L) ==
    LET paths == {c.tag : c \in Tags(L)}
    IN {p \in paths : ~\E q \in paths : Below(p, q)}

\* tag_conflict_keys: two surviving sets of one key, or of a key and one below
\* it with values on different lineages.
ConflictKeys(L) ==
    LET sets == {c \in Tags(L) : c.scope # NoScope}
        diverge(c, d) == c.tag # d.tag /\ ~Below(c.tag, d.tag) /\ ~Below(d.tag, c.tag)
    IN {c.scope : c \in {c \in sets : \E d \in sets :
            \/ c # d /\ c.scope = d.scope
            \/ Below(c.scope, d.scope) /\ diverge(c, d)}}

\* set_multi_value_keys: set keys with more than one projected path.
MultiValueKeys(L) ==
    {k \in {c.scope : c \in Tags(L)} \ {NoScope} :
        Cardinality({p \in Projected(L) : p = k \/ Below(k, p)}) > 1}

----------------------------------------------------------------------------
(* The claims an edit appends, given the claims L that its Document was    *)
(* folded from; without their IDs.                                         *)

Draft(kind, tag, scope, refs) ==
    [kind |-> kind, tag |-> tag, scope |-> scope, refs |-> refs]

AddDrafts ==
    {Draft("create", <<>>, NoScope, {}), Draft("version", <<>>, NoScope, {}),
     Draft("name", <<>>, NoScope, {})}

\* add_version_from_at: any observed versions may be the parents.  add_version
\* takes the head if it is the only one.
VersionDrafts(parents) == {Draft("version", <<>>, NoScope, Ids(parents))}

\* A rename that replaces one of the names it saw.
Renamed_One(L) == {CHOOSE n \in Ids(Names(L)) : TRUE}

Renamed(L) == Ids(Names(L))

RenameDrafts(L) == {Draft("name", <<>>, NoScope, Renamed(L))}

\* A removal although nothing was observed.
Removed_Always(L, del) == del

\* The paths to remove that are there.
Removed(L, del) == del \cap {c.tag : c \in Tags(L)}

\* The tag and what is below it, instead of what is above it.
Refined_Swapped(L, path) == {c \in Tags(L) : c.tag = path \/ Below(path, c.tag)}

\* What a tag replaces: the same tag and its ancestors.
Refined(L, path) == {c \in Tags(L) : c.tag = path \/ Below(c.tag, path)}

TagDrafts(L, args) ==
    {Draft("remove", p, NoScope, {c.id : c \in {c \in Tags(L) : c.tag = p}}) :
        p \in Removed(L, args.del)}
    \cup {Draft("add", p, NoScope, Ids(Refined(L, p))) : p \in args.add}

\* Only tags below the key, not the key itself.
Cleared_Below(L, key) == {c \in Tags(L) : Below(key, c.tag)}

\* What setting a key replaces.
Cleared(L, key) == {c \in Tags(L) : c.tag = key \/ Below(key, c.tag)}

SetDrafts(L, key, tag) == {Draft("add", tag, key, Ids(Cleared(L, key)))}

\* Every edit of a Document with these claims.
Edits(L) ==
    {VersionDrafts(parents) : parents \in (SUBSET Of(L, "version")) \ {{}}}
    \cup {RenameDrafts(L)}
    \cup ({TagDrafts(L, args) : args \in TagArgs} \ {{}})
    \cup {SetDrafts(L, kt[1], kt[2]) :
            kt \in {kt \in Path \X Path : Below(kt[1], kt[2])}}

\* Claims with fresh IDs.
Minted(drafts) ==
    LET s == SetToSeq(drafts)
    IN {[id |-> Len(saw) + i, kind |-> s[i].kind, tag |-> s[i].tag,
         scope |-> s[i].scope, refs |-> s[i].refs] : i \in 1 .. Len(s)}

----------------------------------------------------------------------------

Init ==
    /\ log = [s \in Store |-> {}]
    /\ ledger = [s \in Store |-> {}]
    /\ seen = [e \in Editor |-> {}]
    /\ at \in [Editor -> Store]
    /\ saw = <<>>

\* Log::append to a store, and loading the document again.
AppendAndLoad(e, s, drafts) ==
    /\ Len(saw) + Cardinality(drafts) <= MaxClaims
    /\ Folds(log[s] \cup Minted(drafts))
    /\ log' = [log EXCEPT ![s] = @ \cup Minted(drafts)]
    /\ seen' = [seen EXCEPT ![e] = log'[s]]
    /\ saw' = saw \o [i \in 1 .. Cardinality(drafts) |-> Ids(seen[e])]
    /\ at' = [at EXCEPT ![e] = s]
    /\ UNCHANGED ledger

\* add_at: mint the document.
Add(e, s) ==
    /\ saw = <<>>
    /\ AppendAndLoad(e, s, AddDrafts)

\* Document::load.
Load(e, s) ==
    /\ log[s] # {}
    /\ seen' = [seen EXCEPT ![e] = log[s]]
    /\ at' = [at EXCEPT ![e] = s]
    /\ UNCHANGED <<log, ledger, saw>>

\* add_version, rename_at, tag_at or set_tag_at, from what the editor has seen.
Edit(e) ==
    /\ seen[e] # {}
    /\ \E drafts \in Edits(seen[e]) : AppendAndLoad(e, at[e], drafts)

\* A checkpoint without the claims that were replaced.
Captured_Compacted(s) ==
    Of(log[s], "create") \cup Names(log[s]) \cup Tags(log[s]) \cup Heads(log[s])

\* ledger_from_logs: every claim.
Captured(s) == log[s]

Publish(s) ==
    /\ log[s] # {}
    /\ ledger' = [ledger EXCEPT ![s] = Captured(s)]
    /\ UNCHANGED <<log, seen, at, saw>>

\* A store's directory is copied.
Copy(s, t) ==
    /\ log[s] # {} /\ log[t] = {}
    /\ log' = [log EXCEPT ![t] = log[s]]
    /\ ledger' = [ledger EXCEPT ![t] = ledger[s]]
    /\ UNCHANGED <<seen, at, saw>>

\* recover: a new store with the union of the latest checkpoints.
Recover(t) ==
    LET union == UNION {ledger[s] : s \in Store} IN
    /\ log[t] = {} /\ union # {}
    /\ Folds(union)
    /\ log' = [log EXCEPT ![t] = union]
    /\ UNCHANGED <<ledger, seen, at, saw>>

Next ==
    \/ \E e \in Editor, s \in Store : Add(e, s) \/ Load(e, s)
    \/ \E e \in Editor : Edit(e)
    \/ \E s \in Store : Publish(s) \/ Recover(s)
    \/ \E s, t \in Store : Copy(s, t)

Spec == Init /\ [][Next]_vars

----------------------------------------------------------------------------

Claim == [id : 1 .. MaxClaims, kind : {"create", "version", "name", "add", "remove"},
          tag : Path \cup {<<>>}, scope : Path \cup {NoScope}, refs : SUBSET (1 .. MaxClaims)]

\* Every variable holds a value of its kind; a claim refers to earlier claims,
\* and a removal to at least one.
TypeOK ==
    /\ log \in [Store -> SUBSET Claim]
    /\ ledger \in [Store -> SUBSET Claim]
    /\ seen \in [Editor -> SUBSET Claim]
    /\ at \in [Editor -> Store]
    /\ saw \in Seq(SUBSET (1 .. MaxClaims))
    /\ \A s \in Store : \A c \in log[s] :
        /\ \A r \in c.refs : r < c.id
        /\ c.kind = "remove" => c.refs # {}

\* What the document may be anywhere: in a store, or recovered from checkpoints.
Replicas ==
    ({log[s] : s \in Store} \cup {UNION {ledger[s] : s \in Store}}) \ {{}}

\* However stale the snapshot an edit was made from, the log it is appended to
\* accepts it: an edit forks the document rather than failing.
EditsAccepted ==
    \A e \in Editor : seen[e] # {} =>
        \A drafts \in Edits(seen[e]) : Folds(log[at[e]] \cup Minted(drafts))

\* Checkpoints of any stores can be recovered together, and so can those that
\* stores would publish now: no claim refers to one that is in none of them.
MergesFold ==
    /\ UNION {ledger[s] : s \in Store} # {} => Folds(UNION {ledger[s] : s \in Store})
    /\ \A S \in SUBSET Store :
        LET union == UNION {log[s] : s \in S} IN union # {} => Folds(union)

\* A name or tag is current exactly if nobody who saw it has since replaced it:
\* an edit from a stale snapshot takes effect on all that its editor had seen,
\* and on nothing else.
FrontierIsHistory ==
    \A L \in Replicas :
        Names(L) \cup Tags(L) =
            {p \in Of(L, "name") \cup Of(L, "add") :
                ~\E c \in L : p.id \in saw[c.id] /\ CanRefer(c, p)}

\* The IDs of the versions that one derives from, itself included.
Ancestors(L, v) ==
    LET upTo[n \in 0 .. Cardinality(L)] ==
            IF n = 0 THEN {v.id}
            ELSE LET known == upTo[n - 1]
                 IN known \cup UNION {c.refs : c \in {c \in L : c.id \in known}}
    IN upTo[Cardinality(L)]

\* If a document reads as one content, that content derives from every version
\* ever saved in any of its stores: no save is passed over silently.
OneHeadHasAll ==
    \A L \in Replicas : \A h \in Heads(L) :
        Cardinality(Heads(L)) = 1 => Ids(Of(L, "version")) \subseteq Ancestors(L, h)

----------------------------------------------------------------------------
(* docs/claim-model-plan.md asks to `flag competing set intentions under   *)
(* one key'.                                                               *)

Concurrent(c, d) == c.id \notin saw[d.id] /\ d.id \notin saw[c.id]

\* Sets of one key to two values, neither aware of the other, are reported until a set or
\* an untag has replaced one of them.  Adding detail to a tag that was set drops
\* the mark of the set; when both editors do, nothing is reported.
CompetingSetsFlagged ==
    \A L \in Replicas : \A c, d \in Of(L, "add") :
        /\ c.tag # d.tag /\ c.scope # NoScope /\ c.scope = d.scope /\ Concurrent(c, d)
        /\ ~\E r \in L : /\ r.kind = "remove" \/ r.scope # NoScope
                         /\ \/ CanRefer(r, c) /\ c.id \in saw[r.id]
                            \/ CanRefer(r, d) /\ d.id \in saw[r.id]
        => c.scope \in ConflictKeys(L) \cup MultiValueKeys(L)
=============================================================================
