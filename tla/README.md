# transfs: models and proofs

transfs keeps documents as append-only logs of claims and content-addressed
blobs. Several processes use one store, stores are copied and forked, and each
publishes checkpoints to remotes from which new stores are recovered. This
directory holds TLA+ models of the parts where processes, crashes and copies
meet, TLC configurations for them, and TLAPS proofs for the central ones.

Paths are relative to the repository (`src/replica.rs` is the crate's file).

## The system

| part | state | operations | what makes it correct |
|---|---|---|---|
| Claims and edits (`causal.rs`, `document.rs`, `library.rs`) | a document is a set of claims; an edit names the claims it replaces | `add`, `add_version`, `rename`, `tag`, `set`; folding into current names, tags, heads | stale edits fork and are never refused; merged sets fold; what is current is what nobody who saw it has replaced |
| Document logs (`log.rs`) | a file of lines per document; the store lock | `append` under the lock; `read` without it | damage stays in the last record; acknowledged claims survive; readers always load |
| Checkpoint publishing (`replica.rs`, `writer.rs`, `remote.rs`) | `writer.json` (ID, and per remote the last and the pending ref); on a remote blobs, packs and the numbered refs of each writer | `publish`, `fork`, reconciling a pending ref, writing a slot once | one chain per writer; refs are whole; nothing published is dropped; interrupted publishes settle |
| Recovery (`replica.rs`) | a stage directory | `recover` | never finds a remote incomplete; restores all that was published when it began |
| Remote identity (`remote.rs`) | `remote.json` | `remote_id` | one ID for ever, which every publisher learns |
| Content store (`cas.rs`, `content.rs`, `objects.rs`, `rep.rs`) | blobs, packs, representation records, per-process maps of packs | `put_file`, `read`, all without a lock | what a claim names is readable by everyone; a record names all that its content needs |
| Index (`index.rs`, and its callers in `main.rs`) | `index.db`: a schema version, tables, rows derived from logs | `open`, `ensure_schema`, `rebuild`, `index_document` | rows lag behind the logs only for known reasons, and a rebuild never sets them back |
| Mount (`mount.rs`, `query.rs`, walks and facets of `index.rs`) | none beyond the index; the paths that its user holds | parsing a path, `walk`, `facets`, `leaves`, resolving | what a directory lists is what a lookup finds; facets lose no document; one change does not pass a leaf to another document |
| Check (`check.rs`) | none | a full verification | a clean result means every version is readable |
| CLI (`main.rs`) | none | a command appends, loads, indexes, in this order | see Index |
| Remote probe, chunking, file types, configuration | little | sequential | |

Processes interact through files only: the store lock (`.transfs/lock`, a
kernel file lock released at death) serialises `append`, `publish` and `fork`;
readers, `recover` and the index take no lock; remotes have no lock at all, only
exclusive creation, hard links and rename. The index has SQLite's write lock and
no other; the store lock is released before a command indexes.

The behaviours that are hard: two copies of a store publishing with one writer
ID; a publish interrupted between the pending ref, the remote's slot and
`writer.json`, or its answer lost; slots on file systems without hard links,
which are reserved, marked and filled in three steps; recovery that reads the
writers one after another; appends that are cut short; power failures that
take unsynced lines or directory entries; contents put by several processes
without a lock; documents edited from old snapshots; commands that index while
another upgrades or rebuilds the same database; paths whose meaning depends on
the tags that all documents have at that moment.

## Modules

* `Publish`: `publish` step by step, `fork`, copies of a working store, several
  remotes, and the write-once slots of a directory remote. A store's variables
  (`claims`, `writer`, `last_ref`, `pending`) are its logs and `writer.json`; a
  process's (`pc`, `at`, `tip`, `captured`, `settling`) are the local variables of the
  publish that holds the store lock; a remote's are its complete refs,
  reservations marked with an intended ref, blank reservations, packs and blobs.
  A ref is the sequence of ledgers that its chain publishes; its predecessor,
  number and hash are determined by that sequence, as the code's hash chain
  makes them. Each file operation that another process can see is one action.
  `Crash` may follow any of them; it also stands for an answer that was lost.
  `remote.json` is first created in steps (`NameRemote`, `FindName`, `FillName`; the
  IDs drawn for it are left to `RemoteId`), and may stay reserved for ever. On the
  stores of `Fragile`, `loose` are the claims that no append has synced, of which
  `PowerLoss` may take some, at any time and together with the run; and
  `FindDamage` ends a run that finds a log torn, unreadable or not folding, or a
  content missing. Which logs and contents come to that is the question of `Log` and
  `Content`: here any may. `lost` is history: what power failures took.
* `Recover` adds `recover`: it lists the writers, reads the tip of each in its
  own step while publishers go on, verifies and installs. `Backup` is the abstract
  specification: checkpoints that grow at once, recoveries that restore at
  least what was published when they began, and stores that may lose what they
  hold but not what they published. `IsBackup` is the refinement.
* `RemoteId`: creation of `remote.json` by concurrent publishers; `RemoteIdProofs`
  its theorems.
* `Log`: logs as lines and a torn tail, commands that build a batch of claims from
  an unlocked read, append line by line and sync, publishers that capture all
  logs, deaths and power failures.
* `Document`: claims, folding (`Folds`, `Names`, `Tags`, `Heads`, the conflict
  reports), the claims that each editing call builds from the snapshot that its
  caller holds, and stores that are copied, published and recovered.
* `Content`: puts of whole and chunked contents, one action per file operation
  that others can see and per lookup in the map of packs (`known`); reads; `check`
  of contents. A pack is its root and members, a record its content and the packs
  it names. `loose_...` are names that a power failure may take, until their
  directory is synced. `temps` are temporary files of whole puts that died before
  their rename. `leaned` is history: contents that were put on a name found
  and not synced, neither by its maker nor by the one that found it.
* `Index`: the commands that share `index.db`. `version`, `tables` and `rows` are the
  database, `holder` and `tx` the one transaction that takes several steps
  (`rebuild`), and a process's `pc`, `existed`, `below` and `loaded` the local
  variables of `Index::open`, `append_and_load` and `update_index`. The rows of a
  document are the number of claims they reflect, which is all that staleness
  needs. Every command may fail at any step, by an error, a timeout or a death; a
  log may be damaged and put right. `excused` is history: the documents that may
  lag although nobody is at work, each entered by a step that is named below.
* `Mount`: what a path means. The state is the rows that the index holds and the
  path where somebody stands; `Walk`, `Facets`, `Leaves` and `Resolve` are the
  code's functions on a given index `ix`, so that properties can compare
  the answers before and after a change. `Leaves` is the loop that grows
  suffixes until names differ, as a recursive function on sets of candidates.
* `PublishInv` has the inductive invariant of `Publish`, and `RecoverProofs` the
  theorems of `Publish` and `Recover`, in four parts: refs as sequences, publishing,
  recovery, and stores that were never copied. `LogProofs`, `DocumentProofs`,
  `ContentProofs`, `IndexProofs` and `MountProofs` have those of `Log`, `Document`,
  `Content`, `Index` and `Mount`. `InductionFacts` says what recursive functions and
  repetition come to, for the proofs of `Document` and `Mount`.
* `MC...` modules define what the configurations need.

The definitions named `X_Something` beside a definition `X` are mistakes that the
properties are known to catch: with `X` replaced by one of them the run of that
property fails.

## Runs

| run | instance | shows |
|---|---|---|
| `publish` | 2 stores with copying between them, 2 writer IDs (one fork), 1 remote without hard links, a create and a version claim | refs of a writer are one line (`OneChain`), reservations come last, every ref has its packs and contents, ledgers of a chain grow, `writer.json` says what the remote says, and a chain is only extended by a store that has all of it on record (`NoBraid`) |
| `publish_liveness` | 1 store and its fork, 2 remotes, one with hard links, 1 claim; power failures and damage | pending refs settle; nothing kept for one remote is used for the other; a store that is not copied is refused only for damaged logs or contents, published claims that a power failure took, and names that were reserved and not filled |
| `recover` | 2 stores, 3 writer IDs, 1 remote with hard links, 2 `add`s of one claim each; a new store may take the target of a running recovery | a recovery at any time verifies, and implements `Backup` |
| `remote_id` | see `RemoteId.cfg` | one ID for ever; everyone learns it unless a reservation was left |
| `log` | 4 commands (2 adds, a tag, a rename) on 2 documents | every log with a complete line loads, batches stay together, acknowledged claims stay, checkpoints never hold half a command |
| `document` | 2 stores, 2 editors, a key and a value, 3 claims beyond those of `add` | stale edits are accepted, unions fold, current values are those of the causal history, a single head has every save among its ancestors |
| `index` | 2 processes, a document with three claims, whose log may be damaged | an index that calls itself current lags only where that is excused; no rebuild takes rows back; every command ends |
| `mount` | 3 documents whose IDs share beginnings, 5 versions, with forks, shared names, nested and bare tags; paths of 3 segments | listed names resolve to what was listed; tags are found in any order; facets narrow and lose nothing; no one change turns a leaf into one of another document |
| `content` | 2 processes, 2 contents that share a chunk and a list node, 3 puts | what is claimed is readable by everyone, records suffice, `check` errs only on contents that leaned on unsynced names and on what puts leave when they die or have while they run (a temporary file, a directory without its record), and what it passes is readable |

Three runs show where the documents promise more than the code does, and expect a
violation:

* `remote_id_retry`: without hard links, a publisher that dies between marking
  and filling `remote.json` blocks the remote for ever, for each retry draws
  another ID and is not the retry that may finish the reservation
  (`docs/storage-protocol.md:29-30`, `:42`).
* `content_first`: `.transfs/reps` is made by the first chunked put and its own
  name is never synced, so that a power failure can take the records of contents
  that `addversion` has claimed (`docs/chunked-storage.md:142-145`).
* `document_sets`: two concurrent `set`s of a key are not reported when both
  editors went on to refine their value with `tag`
  (`docs/claim-model-plan.md:50`).

More of the same kind is excepted by name in properties that hold, and is on the
list of hazards: logs whose creator died before syncing the
directory (`AckedKept`), contents put on names that nobody synced
(`ClaimedReadable`), and what unfinished puts leave, which `check`
reports as errors (`CheckFailsOnRemains`): temporary files among the blobs, which it
takes for blobs that do not match their hash, and directories of records without a
record. A store that nobody copied is refused a publish for what `Damaged` names
(`RefusedOnlyForDamage`): a torn or unreadable log, a log that does not fold, a missing content;
claims that a publish captured before their command had synced them, and that a
power failure then took, so that the store lacks what it published; a slot or a
`remote.json` that was reserved and never filled. No code repairs any of these. The lines of one command have no common
end marker, as `docs/architecture.md:204-207` wants it, so that part of an `add`
or `tag` that was cut short is in force; `BatchesTogether` and `CaptureIsSettled`
say how far that goes. `StaleIsExcused` names when the index lags, where
`docs/architecture.md:384-385` says that each change refreshes a document's rows:

* a command failed between its append and its index (also by waiting for SQLite
  longer than its busy timeout);
* two edits of a document overlapped, and the one that loaded it first indexed it
  last: its rows win until the next edit of the document or a `reindex`;
* two openers upgraded an old index at once, the first filled and marked it, and
  the second, which had read the old version, dropped the tables and died: what is
  left is empty and calls itself current.

`ListedResolves` leaves out names that no suffix can tell apart (`Spelled`) and
`TagsReachable` a tag that another document's tag is a strict prefix of
(`Shadowed`): a path that has walked to a complete tag does not go on below it, so
of the two granularities in `docs/architecture.md:280-283` the finer is not
reached by a path once the coarser is there. All other tags commute, as
`docs/architecture.md:525` says.

### Bounds

All bounds are sizes of constant sets, but for `MaxClaims` of `Document` and of
`Index`, `MaxPuts` of `Content` and `MaxDepth` of `Mount`. In
`Publish` the number of slots is bounded by the ledgers, which grow strictly
along a chain; two claims give chains of two refs, two stores
meet in every order, and the fork's ID is the second writer. Run `recover` has the
claims of each `add` as one, so that its two writers can publish different ledgers
and their union is more than either, and a third writer for the recovered store.
Its remote has hard links: which slots are reserved when is the question of
`publish`, of which a recovery sees only the complete refs. Chains of any
length and any number of stores and remotes are the subject of the proofs. `Log`
runs each command once, with batches of one and two lines: a batch of two is
enough for one to be cut in the middle, a third and fourth command for one to
die, one to append behind it and one to see both. Power failures are unbounded in
number. `Document` has three claims beyond the first three: two concurrent edits
and one that has seen one or both. With two stores a recovered union is
never edited further; that two ledgers merge is checked in every state by
`MergesFold`, as are the current values of every such merge. Three puts of
`Content` are one that dies at any point and two that then run together; the
properties also hold with four, which takes longer than is useful here.
In `Index` each process runs any number of commands, so old failures meet new
commands; only claims are bounded: a first, whose rows can be lost or set back, and
two for edits that overlap. The log may be damaged, for rebuilds that are
rejected. What one document's log does to another's rows is left to the
proofs, for any documents; most of the run's time is `EveryCommandEnds`, which no
second document touches. A third process adds no kind of conflict, for a step conflicts with
one holder of the write lock. In `Mount` three documents give a name or tag that
two share and a third does not, and two forks with versions alike but for the last
block; depth 3 is a tag of two segments and the turn to the view of documents.

`LeafKeepsDocument` is of one change of the index. Two renames can pass a held leaf on: another
document takes the name, then the leaf's own document gives it up, and the path reads the
other; nothing in the code tells the reader of an open file.

Power failures and damage (`Fragile`) are part of run `publish_liveness`, whose property
is about them, and not of `publish` and `recover`, where they would only multiply the states:
what these check is proved with any `Fragile`, and a store that lacks
claims it has published is there already in `publish`, as a copy made of old logs. The
first store draws its ID from `FirstDrawn`: all of `Writer` where writers are
symmetric, one of them in the liveness run, which has no symmetry and needs only one of the
two equal halves.

Symmetry is used among stores, writers and editors, which the specifications
treat alike, and not in the liveness run.

### Deadlock

`Publish`, `Recover`, `Content`, `Index` and `Mount` never stop. `Log` and `Document` may: all commands have
ended, or no more claims may be minted.

### Fairness

`FairSpec` of `Publish` asks that a publish goes on while nothing interrupts it
(weak fairness of each process's step: a process runs), that the store's owner runs
publish again and again to each remote (strong fairness of beginning it, which other
publishes of the store disable for a while) and that interruptions end at last.
The last is needed: a publish interrupted each time settles nothing, and
no code could. Nothing is assumed about forks, new claims or which of two
copies comes first. `PendingSettles` excepts refs whose slot went to another copy
or was left blank, for the code refuses those and leaves them to the owner.
The instance that checks it has no copies: a store that loses its slot to a copy
keeps a pending ref that is excepted. Safety with copies is the subject of
`publish` and of the proofs.
`FairSpec` of `RemoteId` is the same for publishers of a remote.

`Spec` of `Index` asks that a command which was started is run (weak fairness of
its steps, among them the one that gives up when SQLite's busy timeout is
over). Nobody has to start a command, and none has to fail.

## Proofs

The second part of `RecoverProofs` proves, for any finite or infinite sets of stores, writers,
remotes and claims that satisfy the assumptions of `Publish` (versions are claims, hard links belong to
remotes, fragile stores are stores and the first ID drawn is one): type
correctness, the five invariants of run `publish`, and the action property
`NoBraid`.

None of the invariants is inductive alone. `Inductive` (in `PublishInv`)
strengthens them by what the slots, the stores and the processes know of each
other:

* `RefsInv`: each ref of a chain continues one that is there, its packs and
  contents are uploaded, its ledger is closed and grew.
* `MarkedInv`, `BlankInv`: a marked slot holds a ref that is *ready*, which could be
  shown now, and no ref lies at or beyond an incomplete slot. `LogsInv`: logs are
  closed under references.
* `StateInv`: `last_ref` is a ref of the writer's chain and `pending` is ready. So
  finishing a reservation, or sending a pending ref again, shows a whole ref.
* `ProcessInv`: what a publish has read and uploaded so far, by its `pc`: what
  it holds stays true although others go on, for remotes only grow.
* `OwnerInv`: a slot that was created and is not yet marked has one owner, who
  alone may mark it.

The argument has a monotonicity lemma first (`GrowStep`: no step takes a
ref, pack or blob from a remote), then frame lemmas for what a step leaves alone,
and one lemma per kind of step. Taking a slot is the delicate one: copies of a
store reach it with different refs of equal length. That only one of these
becomes complete needs all of `MarkedInv`, `BlankInv` and `OwnerInv`: a slot
passes from free to blank to marked to complete with one ref in mind, or
directly to complete; and that the chain has no gap needs that a ready ref is
at most one slot beyond the refs that are there (`ReadyReach`).
The first part supplies what is needed of `Front`, `Append` and prefixes.

`RemoteIdProofs` proves type correctness and `OneIdForEver`, for any publishers and
IDs, with and without hard links. The latter is not inductive, for a publisher might fill a slot that
another has filled with its own ID. `WriterInv` excludes it: at most one publisher is
between reserving and filling `remote.json`, and the file is then blank, or marked
with the ID which that publisher minted. Two more theorems follow from it:
`RemoteIsWrittenOnce`, no step ever changes a complete `remote.json`, although the
last step of an in-place write is a rename over whatever is there; and
`LinksNeverReserve`, the safety half of `EveryoneLearns`: with hard links the file is
never seen reserved.

`IndexProofs` proves type correctness, `StaleIsExcused` and
`RebuildNeverSetsBack` for any documents, processes, bounds and fragile logs.
`Inductive` has these parts beside the types:

* `Phases`: what a command's place says of what it has read, above all that who is
  about to drop the tables has read an old version.
* `Bounded`: rows never show more than the log has.
* `Rebuilding`: while a rebuild holds the write lock, the committed rows are no
  newer than the logs were when it began (`since`), and what it has read is no
  older. This gives `RebuildNeverSetsBack` at the commit, and a rollback
  changes nothing. Claims appended since belong to a command that will index
  them, or to an excused document.
* `Accountable`: `StaleIsExcused` must hold from the commit of a rebuild on, not
  only from the mark that follows it.

`RowsNeverAhead` states `Bounded` as a theorem of its own: what is wrong with an index
is only ever that it lags.

The third part goes on to `Recover`: `RecoverTypeOK`, `NeverIncomplete`, and `IsBackup`, the refinement of `Backup` (`ImplementsBackup`). Its
invariant, `RecoverInductive`, adds to `Inductive`:

* `LineInv`: a later ref of a writer publishes all that an earlier one does, so that
  a tip read late is worth no less than the tip at the beginning.
* `MintInv`: what is in logs, captured, pending or published was minted by a store. So
  a checkpoint holds only claims that were written, as `Backup` asks; whether any
  store still holds them is not known, for power may have failed.
* `ReadingInv`: what was published when a recovery began is in the heads it has
  read, or on the chains of writers that it has still to read. At the end there are
  none, which is the promise of `Backup`'s recovery.

Each action of `Recover` is then a step of `Backup` or a stutter: showing a ref is a
checkpoint, listing the writers begins a recovery, installing its stage ends it, and a
power failure is a loss (`Lose`), the one step of `Backup` that is proved but not
part of run `recover`.

The fourth part proves `RefusedOnlyForDamage`, of `RecoverSpec` with no copies. A store is
then alone under its ID, for forks, new stores and recoveries draw fresh ones
(`OwnInv`). So the refs under it are those up to `last_ref` and perhaps the pending
one, reservations are of the pending one only, and the logs and what
power failures took from them hold all that was published (`LineOk`); what the run has read is still so (`RunOk`). Hence
`reconcile_pending` finds its own last or pending ref as the tip, and a prior claim that is missing
was lost. That a changed ledger always adds a node to the pack needs `LineInv`: an
older ledger of the chain holds no more than the tip's.

`LogProofs` proves all properties of `Log`, for any documents, any commands on them
and batches of any size. Its `Inductive` has these parts beside the types:

* `LogsOk`: each line of a log continues its batch or begins one, only the first
  is a create claim, and all that a line refers to stands before it. So whatever
  prefix a power failure leaves is a log again, and this is why it folds.
* `WritersOk`: the command that holds the lock has written what ends the log, with
  no torn record of somebody else before it; nothing of it was captured.
* `AllKept`: the synced lines of a log that has a name hold all that was
  acknowledged. `Origins`: a log whose command came to its end was made by its one
  `add`; since nobody can make it again, a log whose name was lost
  stays away and is not taken for the old one.
* `BatchesOk`: of commands that have not begun nothing is anywhere.

`CheckpointsAreWhole` joins `Log` to `Publish`: no checkpoint holds a claim without
those it refers to. `Publish` captures a store's logs in one step and takes them
to be closed under references; this shows that what `publish` reads from the files is so,
whichever commands died on them.

`ContentProofs` proves all properties of `Content`, for any processes, contents,
chunks and lists, and any number of puts, deaths and power failures.
`ClaimsAreReadable` and `ChecksFailForAReason` assume that `.transfs/reps` is durable
at the start (run `content_first` shows what happens otherwise); the others do not.
Its invariant says what is *tight*, that is, what no power failure takes:

* `FilesOk`: a record holds all its content needs (`Sufficient`), and its packs are
  tight or its content is on record as leaned (`Settled`).
* `PutOk`: what a put relies on in each step; above all, once its own pack is
  synced nobody makes it loose again, and what it calls stored is tight or leaned.
* `ClaimsOk`: what is claimed and not leaned is tight.

`Grow` collects what all steps but a power failure have in common: files come, and
tight ones stay tight. The other processes' `PutOk` follows from it at once.

`DocumentProofs` proves all invariants of `Document`, for any replicas, editors, paths
and bound, and any finite sets of tags given to `tag` (`library.rs` takes them from
the command line). Its invariant, `IInv`, has two parts beside the types:

* `HistoryInv`: IDs tell claims apart, there is one create claim, and each claim
  refers only to what its editor had seen, in smaller numbers. Above all, what an
  edit replaces is named by it or was replaced by something it had seen
  (`ClaimOk`): folding goes by `refs`, and the properties by what was seen.
* `HeldInv`: what stores, checkpoints and editors hold is *whole*, that is, it lacks
  nothing that the editors of its claims had seen; a store keeps what it has
  published and shown.

A whole set folds: its claims taken by number never wait for one that is not there,
so `Ordered` takes them all (`OrderedAll`). Whole sets merge to whole sets, which is
`MergesFold`, and what an edit from an old snapshot refers to is in the longer log too,
which is `EditsAccepted`. For `OneHeadHasAll`, each version but the only head is named
by one with a larger number; so walking up from any of them ends at the head
(`AncestorsAll`).

`MountProofs` proves all properties of `Mount`. `MountInv` only says that rows are rows,
with finitely many names and heads, and that a path is one; the work is in what
`Walk`, `Facets` and `Leaves` compute.

* Walks go component by component (`WalkDef`, `WalkAppend`). A component that is
  offered leads to exactly the documents that have it (`Descend`), which gives
  `FacetsNarrow`. Along an unshadowed tag a walk goes on to its end and then
  takes it up as a condition (`StepAlong`, `WalkAlong`), which gives `TagsReachable`.
* `Settling` is the invariant of the loop that grows suffixes. The loop ends, for
  the states that its leaves may still come to (`Above`) are finitely many, and a
  round that changes anything has fewer. When it has ended, leaves that look alike
  do so with their IDs in full (`TwinsAreSpelled`), which gives `ListedResolves`.
* For `LeafKeepsDocument`, two documents of one name grow in step for as long as
  what one leaf says is also true of the other (`InStep`). So in the end each leaf says
  something that is not true of any leaf of the other document (`TellsApart`),
  also after a change to the one, for the index has not changed for the other.

`LeavesKeepTheirDocument` has a hypothesis, `ShortIdsDiffer`: no version's ID begins
with the eight characters that a document's begins with. Without it the property
fails: with a suffix of a version that reads as one of a document, the leaf `x~1~2` of
one document may after a rename be `x~1~2` of another. Both IDs are hashes, so
the hypothesis fails for a pair with probability 2^-32; the IDs of run `mount` satisfy it.

The assumptions of `Mount` are what the code sees to: IDs have 64 hexadecimal digits
(`causal.rs` `require_hex`), so that all documents' are equally long, so are all versions',
documents are finitely many, and no ID holds a `~`; names are not empty
(`causal.rs:343`). Segments, names and IDs are made of `Text`, which run `mount` takes
to be all strings.

The library's induction theorems cannot be used here, for they have an
operator as a parameter. `InductionFacts` does without it: a set of naturals has a
least element (`LeastElement`), for `n < m` is the strict inclusion of `1 .. n` in
`1 .. m`, and that of finite sets is well-founded. A function
defined by recursion on `0 .. n` exists because partial ones of each length do
(`RecursiveExists`); one that repeats a step to a fixed point always exists
(`RepeatsExists`) and gives that fixed point where a measure shrinks (`RepeatsEnd`).

Only model-checked: liveness (`PendingSettles`, `EveryCommandEnds`, `EveryoneLearns`), which the
provers have no rules for, and the three runs that show a violation.

## Not modelled

Encoding (JSON lines, envelopes of refs, hashes as such; a hash is taken to
identify its content), damage to files after they were written, the probe of the
remote, chunking and file types, argument parsing and printing. `recover` in
`Recover` reads a writer's chain in one step; a directory read that
catches a chain half listed reports an error, which is `AbandonRecover`. A remote
reached by some with and by some without hard links is left out.
In `Content`, the cache of loaded lists (a list is named by its own bytes, so
the cached one is the one that would be loaded), ranged reads, and other
commands that happen to sync `.transfs`.
In `Index` and `Mount`, the search by name, type and tag words
(`by_name`, `by_type`, `by_tag`), SQLite's `LIKE`, which does not tell upper from
lower case in ASCII, several `SELECT`s of one answer that see different commits,
the attributes and paging of listings, and reads of one open leaf that return
bytes of two versions.
In `Log`, a file system that loses the middle of an unsynced write and keeps
its end is left out.

## What could follow

* `Log` and `Content` as parts of `Publish`, so that a run finds damaged what they left damaged,
  and not just anything.
* Listings of a remote that are not atomic, in `Recover`; the remote probe with
  file systems that change what they can do.
