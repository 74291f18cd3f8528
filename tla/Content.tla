------------------------------ MODULE Content ------------------------------
(* The content store of one store directory: whole blobs (cas.rs), packs of *)
(* chunks and chunk-list nodes (objects.rs), and the records that say which *)
(* packs a content needs (rep.rs).  Processes put contents into it without  *)
(* a lock and then append the claim that names them; each keeps a map of    *)
(* the packs it has seen.  Processes die and the power fails between any    *)
(* two file operations.  A power failure takes any names whose directory    *)
(* was not synced.  A content is cut the same way by everyone.              *)
EXTENDS FiniteSets, Naturals

CONSTANTS
    Process,
    Content,      \* the contents of files, by their hash
    Object,       \* chunks and chunk-list nodes, by their identity
    Chunks,       \* the chunks of a content
    Nodes,        \* the header and nodes of its chunk list
    RepsDir,      \* the entry of .transfs/reps at the start
    MaxPuts       \* how many puts are begun (a bound for model checking)

ASSUME CutAssumption ==
    /\ Content # {}
    /\ Chunks \in [Content -> SUBSET Object]
    /\ Nodes \in [Content -> SUBSET Object \ {{}}]
    /\ RepsDir \in {"absent", "synced"}
    /\ MaxPuts \in Nat

\* A pack is named by its bytes: its root and its members.
Pack == [root: Content, members: SUBSET Object]
\* A record is named by its bytes too: the content and the packs it needs.
Rep == [content: Content, packs: SUBSET Pack]

NoPack == [root |-> "none", members |-> {}]

VARIABLES
    blobs, packs, reps,                      \* the files that can be seen
    temps,                                   \* contents of which a dead put left its temporary file
    loose_blobs, loose_packs, loose_reps, loose_temps,  \* those whose name is not synced
    dirs,         \* contents that have a directory below .transfs/reps
    reps_dir,     \* .transfs/reps itself: "absent", "loose" or "synced"
    claimed,      \* contents that claims name
    leaned,       \* contents put on top of a name nobody had synced
    puts,         \* how many puts were begun
    pc, at,       \* what each process does, and the content it puts
    todo, fresh,  \* objects it has yet to look up, and those it must store
    known,        \* the packs in its map
    pack,         \* the pack this put has written
    rep           \* the record it writes

temporary == <<temps, loose_temps>>
files == <<blobs, packs, reps, loose_blobs, loose_packs, loose_reps, dirs, reps_dir>>
disk == <<files, temporary>>
process == <<pc, at, todo, fresh, known, pack, rep>>
vars == <<disk, claimed, leaned, puts, process>>

Objects(h) == Chunks[h] \cup Nodes[h]
Held(some) == UNION {q.members : q \in some}
RepsOf(h) == {r \in reps : r.content = h}

(* The map of packs.  locate reads the directory again when an object is   *)
(* not in the map.                                                          *)
Located_Stale(map, o) == map
Located(map, o) == IF o \in Held(map) THEN map ELSE packs
AllLocated(map, some) == IF some \subseteq Held(map) THEN map ELSE packs

\* What pack_of may answer for these objects: each has a first pack in the map.
Homes(some, map) ==
    { {home[o] : o \in some} :
        home \in {f \in [some -> map] : \A o \in some : o \in f[o].members} }

\* Whether content is there at all, and whether its name may yet be lost.
Exists(h) == h \in blobs \/ RepsOf(h) # {}
MayVanish(h) ==
    IF h \in blobs THEN h \in loose_blobs ELSE RepsOf(h) \cap loose_reps # {}

(* non_blobs finds a list only in the packs that its record names, and     *)
(* reads the directory again when it does not know one of them.            *)
ListLoads(map, r) ==
    /\ r.packs \subseteq map \cup packs
    /\ Nodes[r.content] \subseteq Held(r.packs)

\* Chunks are found wherever they are.
ChunksFound(map, r) ==
    \A c \in Chunks[r.content] : c \in Held(Located(map, c))

(* What read answers: the blob, or else what the first record describes.   *)
(* Records are ordered by hash, so that each may be the first.             *)
Reads(map, h) ==
    \/ h \in blobs
    \/ /\ RepsOf(h) # {}
       /\ \A r \in RepsOf(h) : ListLoads(map, r) /\ ChunksFound(map, r)

(* verify_chunked: the packs that the record names, its list, its chunks.  *)
Verified_RecordOnly(h) == RepsOf(h) # {}
Verified(h) ==
    /\ RepsOf(h) # {}
    /\ \A r \in RepsOf(h) :
         r.packs \subseteq packs /\ ListLoads(packs, r) /\ ChunksFound(packs, r)

\* The temporary file of a whole put lies beside the blob, under a name of its own.
Unfinished(some) == {at[p] : p \in {q \in some : pc[q] = "temp"}}
HasTemp(h) == h \in temps \cup Unfinished(Process)

(* An error that check reports for a content: a version without it, a file *)
(* among its blobs whose name is not its hash, or a directory of records   *)
(* that do not verify.                                                     *)
VersionMissing(h) == h \in claimed /\ ~Exists(h)
ChunksDamaged(h) == h \in dirs /\ ~Verified(h)
CheckFails(h) == VersionMissing(h) \/ HasTemp(h) \/ ChunksDamaged(h)

-----------------------------------------------------------------------------
Init ==
    /\ blobs = {} /\ packs = {} /\ reps = {}
    /\ loose_blobs = {} /\ loose_packs = {} /\ loose_reps = {}
    /\ temps = {} /\ loose_temps = {}
    /\ dirs = {} /\ reps_dir = RepsDir
    /\ claimed = {} /\ leaned = {} /\ puts = 0
    /\ pc = [p \in Process |-> "idle"]
    /\ at \in [Process -> {CHOOSE h \in Content : TRUE}]
    /\ todo = [p \in Process |-> {}]
    /\ fresh = [p \in Process |-> {}]
    /\ known = [p \in Process |-> {}]
    /\ pack = [p \in Process |-> NoPack]
    /\ rep = [p \in Process |-> [content |-> at[p], packs |-> {}]]

Goto(p, step) == pc' = [pc EXCEPT ![p] = step]

\* .transfs is synced when a pack or a new log is written.
SyncTransfs == reps_dir' = IF reps_dir = "loose" THEN "synced" ELSE reps_dir

(* A put that returns what is there does not sync its name.                *)
ReturnExisting(p, h) ==
    /\ Goto(p, "stored")
    /\ leaned' = IF MayVanish(h) THEN leaned \cup {h} ELSE leaned

(* Cas::put: the whole file, under a temporary name and then its own.  The *)
(* directories are synced before and after.                                *)
BeginWhole(p, h) ==
    /\ pc[p] = "idle"
    /\ puts < MaxPuts /\ puts' = puts + 1
    /\ at' = [at EXCEPT ![p] = h]
    /\ IF h \in blobs
         THEN ReturnExisting(p, h)
         ELSE Goto(p, "blob") /\ UNCHANGED leaned
    /\ UNCHANGED <<disk, claimed, todo, fresh, known, pack, rep>>

CreateTemp(p) ==
    /\ pc[p] = "blob"
    /\ loose_blobs' = loose_blobs \ {at[p]}
    /\ loose_temps' = loose_temps \ {at[p]}
    /\ Goto(p, "temp")
    /\ UNCHANGED <<puts, blobs, packs, reps, temps, loose_packs, loose_reps, dirs, reps_dir,
                   claimed, leaned, at, todo, fresh, known, pack, rep>>

RenameBlob(p) ==
    /\ pc[p] = "temp"
    /\ blobs' = blobs \cup {at[p]}
    /\ loose_blobs' = loose_blobs \cup ({at[p]} \ blobs)
    /\ Goto(p, "blob_sync")
    /\ UNCHANGED <<puts, packs, reps, temporary, loose_packs, loose_reps, dirs, reps_dir,
                   claimed, leaned, at, todo, fresh, known, pack, rep>>

SyncBlob(p) ==
    /\ pc[p] = "blob_sync"
    /\ loose_blobs' = loose_blobs \ {at[p]}
    /\ loose_temps' = loose_temps \ {at[p]}
    /\ Goto(p, "stored")
    /\ UNCHANGED <<puts, blobs, packs, reps, temps, loose_packs, loose_reps, dirs, reps_dir,
                   claimed, leaned, at, todo, fresh, known, pack, rep>>

(* put_file, chunked: refresh the map, then look up each chunk while the   *)
(* file is cut, and each node once the list is built.                      *)
BeginChunked(p, h) ==
    /\ pc[p] = "idle"
    /\ puts < MaxPuts /\ puts' = puts + 1
    /\ Goto(p, "cutting")
    /\ at' = [at EXCEPT ![p] = h]
    /\ known' = [known EXCEPT ![p] = packs]
    /\ todo' = [todo EXCEPT ![p] = Chunks[h]]
    /\ UNCHANGED <<disk, claimed, leaned, fresh, pack, rep>>

LookUp(p) ==
    /\ pc[p] \in {"cutting", "listing"}
    /\ \E o \in todo[p] :
         LET map == Located(known[p], o) IN
         /\ todo' = [todo EXCEPT ![p] = @ \ {o}]
         /\ known' = [known EXCEPT ![p] = map]
         /\ fresh' = IF o \in Held(map) THEN fresh
                                        ELSE [fresh EXCEPT ![p] = @ \cup {o}]
    /\ UNCHANGED <<puts, disk, claimed, leaned, pc, at, pack, rep>>

(* The file is cut and its hash known: it may be there already.            *)
EndCutting(p) ==
    /\ pc[p] = "cutting" /\ todo[p] = {}
    /\ IF Exists(at[p])
         THEN /\ ReturnExisting(p, at[p])
              /\ fresh' = [fresh EXCEPT ![p] = {}]
              /\ UNCHANGED todo
         ELSE /\ Goto(p, "listing")
              /\ todo' = [todo EXCEPT ![p] = Nodes[at[p]]]
              /\ UNCHANGED <<leaned, fresh>>
    /\ UNCHANGED <<puts, disk, claimed, at, known, pack, rep>>

(* write_pack: everything new in one pack, unless there is nothing new or  *)
(* the map has this very pack.                                             *)
NewPack(p) == [root |-> at[p], members |-> fresh[p]]
NeedsPack(p) == fresh[p] # {} /\ NewPack(p) \notin known[p]

NoNewPack(p) ==
    /\ pc[p] = "listing" /\ todo[p] = {}
    /\ ~NeedsPack(p)
    /\ Goto(p, "naming")
    /\ UNCHANGED <<puts, disk, claimed, leaned, at, todo, fresh, known, pack, rep>>

RenamePack(p) ==
    /\ pc[p] = "listing" /\ todo[p] = {}
    /\ NeedsPack(p)
    /\ packs' = packs \cup {NewPack(p)}
    /\ loose_packs' = loose_packs \cup ({NewPack(p)} \ packs)
    /\ pack' = [pack EXCEPT ![p] = NewPack(p)]
    /\ SyncTransfs
    /\ Goto(p, "pack_sync")
    /\ UNCHANGED <<puts, blobs, reps, temporary, loose_blobs, loose_reps, dirs, claimed, leaned,
                   at, todo, fresh, known, rep>>

\* Syncing the directory settles the names of all packs in it.
SyncPack_Skipped(p) ==
    /\ pc[p] = "pack_sync"
    /\ known' = [known EXCEPT ![p] = @ \cup {pack[p]}]
    /\ Goto(p, "naming")
    /\ UNCHANGED <<puts, disk, claimed, leaned, at, todo, fresh, pack, rep>>

SyncPack(p) ==
    /\ pc[p] = "pack_sync"
    /\ loose_packs' = {}
    /\ known' = [known EXCEPT ![p] = @ \cup {pack[p]}]
    /\ Goto(p, "naming")
    /\ UNCHANGED <<puts, blobs, packs, reps, temporary, loose_blobs, loose_reps, dirs, reps_dir,
                   claimed, leaned, at, todo, fresh, pack, rep>>

(* The record names a pack for every node and chunk.  rep::write returns   *)
(* if it is there, and otherwise makes its directories first.              *)
RecordedObjects_List(h) == Nodes[h]
RecordedObjects(h) == Objects(h)

NameRep(p) ==
    /\ pc[p] = "naming"
    /\ fresh' = [fresh EXCEPT ![p] = {}]
    /\ LET h == at[p]
           map == AllLocated(known[p], Objects(h)) IN
       /\ known' = [known EXCEPT ![p] = map]
       /\ \E homes \in Homes(RecordedObjects(h), map) :
            LET new == [content |-> h, packs |-> homes] IN
            IF new \in reps
              THEN /\ ReturnExisting(p, h)
                   /\ UNCHANGED <<dirs, reps_dir, rep>>
              ELSE /\ rep' = [rep EXCEPT ![p] = new]
                   /\ dirs' = dirs \cup {h}
                   /\ reps_dir' = IF reps_dir = "absent" THEN "loose" ELSE reps_dir
                   /\ Goto(p, "rep")
                   /\ UNCHANGED leaned
    /\ UNCHANGED <<puts, blobs, packs, reps, temporary, loose_blobs, loose_packs, loose_reps,
                   claimed, at, todo, pack>>

RenameRep(p) ==
    /\ pc[p] = "rep"
    /\ reps' = reps \cup {rep[p]}
    /\ loose_reps' = loose_reps \cup ({rep[p]} \ reps)
    /\ leaned' = IF rep[p].packs \cap loose_packs \subseteq {pack[p]}
                   THEN leaned ELSE leaned \cup {at[p]}
    /\ Goto(p, "rep_sync")
    /\ UNCHANGED <<puts, blobs, packs, temporary, loose_blobs, loose_packs, dirs, reps_dir,
                   claimed, at, todo, fresh, known, pack, rep>>

SyncRep(p) ==
    /\ pc[p] = "rep_sync"
    /\ loose_reps' = loose_reps \ RepsOf(at[p])
    /\ Goto(p, "stored")
    /\ UNCHANGED <<puts, blobs, packs, reps, temporary, loose_blobs, loose_packs, dirs, reps_dir,
                   claimed, leaned, at, todo, fresh, known, pack, rep>>

(* Only then is the version claimed: by add, whose new log syncs .transfs, *)
(* or by add_version, whose log is there.                                  *)
Claim(p) ==
    /\ pc[p] = "stored"
    /\ claimed' = claimed \cup {at[p]}
    /\ SyncTransfs \/ UNCHANGED reps_dir
    /\ Goto(p, "idle")
    /\ pack' = [pack EXCEPT ![p] = NoPack]
    /\ rep' = [rep EXCEPT ![p].packs = {}]
    /\ UNCHANGED <<puts, blobs, packs, reps, temporary, loose_blobs, loose_packs, loose_reps, dirs,
                   leaned, at, todo, fresh, known>>

(* Reading leaves a newer map behind.                                      *)
Read(p, h) ==
    /\ pc[p] = "idle"
    /\ h \in claimed \ blobs
    /\ \E r \in RepsOf(h) :
         known' = [known EXCEPT ![p] =
                     IF r.packs \subseteq @ THEN AllLocated(@, Chunks[h]) ELSE packs]
    /\ UNCHANGED <<puts, disk, claimed, leaned, pc, at, todo, fresh, pack, rep>>

-----------------------------------------------------------------------------
(* What a stopped process leaves of its own: nothing.  The map of packs is *)
(* only ever rebuilt from the packs.                                        *)
Cleared(f, some, empty) == [p \in Process |-> IF p \in some THEN empty ELSE f[p]]

KnownAfter_Saved(some) == known
KnownAfter(some) == Cleared(known, some, {})

Stop(some) ==
    /\ pc' = Cleared(pc, some, "idle")
    /\ todo' = Cleared(todo, some, {})
    /\ fresh' = Cleared(fresh, some, {})
    /\ known' = KnownAfter(some)
    /\ pack' = Cleared(pack, some, NoPack)
    /\ rep' = [p \in Process |-> IF p \in some THEN [rep[p] EXCEPT !.packs = {}]
                                                ELSE rep[p]]
    /\ UNCHANGED at

(* A process dies or ends, and its map with it.  Its files stay; a put that *)
(* fails removes its temporary file.                                       *)
Die(p) ==
    /\ Stop({p})
    /\ \/ /\ temps' = temps \cup Unfinished({p})
          /\ loose_temps' = loose_temps \cup (Unfinished({p}) \ temps)
       \/ UNCHANGED temporary
    /\ UNCHANGED <<files, claimed, leaned, puts>>

(* The power fails.  Names that no one synced may be gone, and everything  *)
(* below .transfs/reps with its own.                                       *)
PowerFailure ==
    /\ Stop(Process)
    /\ \E lost \in SUBSET loose_blobs : blobs' = blobs \ lost
    /\ \E lost \in SUBSET (loose_temps \cup (Unfinished(Process) \ temps)) :
          temps' = (temps \cup Unfinished(Process)) \ lost
    /\ \E lost \in SUBSET loose_packs : packs' = packs \ lost
    /\ \/ /\ \E lost \in SUBSET loose_reps : reps' = reps \ lost
          /\ reps_dir' = IF reps_dir = "absent" THEN "absent" ELSE "synced"
          /\ UNCHANGED dirs
       \/ /\ reps_dir = "loose"
          /\ reps_dir' = "absent" /\ reps' = {} /\ dirs' = {}
    /\ loose_blobs' = {} /\ loose_packs' = {} /\ loose_reps' = {} /\ loose_temps' = {}
    /\ UNCHANGED <<puts, claimed, leaned>>

Next ==
    \/ \E p \in Process :
         \/ \E h \in Content : BeginWhole(p, h) \/ BeginChunked(p, h) \/ Read(p, h)
         \/ CreateTemp(p) \/ RenameBlob(p) \/ SyncBlob(p)
         \/ LookUp(p) \/ EndCutting(p)
         \/ NoNewPack(p) \/ RenamePack(p) \/ SyncPack(p)
         \/ NameRep(p) \/ RenameRep(p) \/ SyncRep(p)
         \/ Claim(p) \/ Die(p)
    \/ PowerFailure

Spec == Init /\ [][Next]_vars

-----------------------------------------------------------------------------
TypeOK ==
    /\ blobs \subseteq Content /\ dirs \subseteq Content
    /\ packs \subseteq Pack /\ reps \subseteq Rep
    /\ loose_blobs \subseteq blobs /\ loose_packs \subseteq packs
    /\ loose_reps \subseteq reps
    /\ temps \subseteq Content /\ loose_temps \subseteq temps
    /\ {r.content : r \in reps} \subseteq dirs
    /\ reps_dir \in {"absent", "loose", "synced"}
    /\ claimed \subseteq Content /\ leaned \subseteq Content
    /\ puts \in 0 .. MaxPuts
    /\ \A p \in Process : known[p] \subseteq packs

(* What a claim names can be read by every process, whatever its map, after *)
(* any deaths and power failures.  Only a content put on top of a name that *)
(* no one had synced is excepted (put and put_file return what they find,   *)
(* and records may name packs found, without syncing it).                   *)
ClaimedReadable ==
    \A h \in claimed \ leaned : \A p \in Process : Reads(known[p], h)

(* A claim never points at missing bytes: put_file syncs content before    *)
(* append writes the claim.                                                 *)
ClaimNeverDangles == \A h \in claimed \ leaned : Exists(h)

(* A record names packs that hold all its nodes and chunks, whichever puts  *)
(* and dead puts they came from: who has the record alone, as a remote has, *)
(* knows what to fetch.                                                     *)
RecordsSuffice == \A r \in reps : Objects(r.content) \subseteq Held(r.packs)

(* check finds fault with a content only if it was put on a name no one had *)
(* synced, or for what a put leaves when it dies, or has while it runs: the *)
(* temporary file of a whole put, which check takes for a blob, and the    *)
(* directory that a chunked put makes before its record, which             *)
(* rep::contents takes for a record.                                       *)
CheckFailsOnRemains ==
    \A h \in Content :
        CheckFails(h) =>
            h \in leaned \/ HasTemp(h) \/ (h \in dirs /\ RepsOf(h) = {})

(* When check finds no fault with a content that a claim names, everyone    *)
(* can read it, also where a power failure took what its put relied on.     *)
CleanIsReadable ==
    \A h \in claimed : ~CheckFails(h) => \A p \in Process : Reads(known[p], h)
=============================================================================
