--------------------------- MODULE ContentProofs ---------------------------
(***************************************************************************)
(* What the content store keeps, for any processes, contents, chunks and   *)
(* lists: the properties of Content.                                       *)
(*                                                                         *)
(* Files only come, but for what a power failure takes, and that takes     *)
(* only names that are loose.  So what a claim needs must be tight when    *)
(* the claim is made, or be on record as leaned.                           *)
(***************************************************************************)
EXTENDS Content, TLAPS

Steps == {"idle", "blob", "temp", "blob_sync", "cutting", "listing", "pack_sync", "naming",
          "rep", "rep_sync", "stored"}

\* A content whose name no power failure takes.
Durable(h) ==
    \/ h \in blobs \ loose_blobs
    \/ \E r \in reps \ loose_reps : r.content = h

\* A record that no power failure robs of its packs.
Settled(r) == r.content \in leaned \/ r.packs \subseteq packs \ loose_packs

\* A record, written or not, that has all its content needs.
Sufficient(r) == Objects(r.content) \subseteq Held(r.packs)

Types ==
    /\ TypeOK
    /\ pc \in [Process -> Steps]
    /\ at \in [Process -> Content]
    /\ todo \in [Process -> SUBSET Object]
    /\ fresh \in [Process -> SUBSET Object]
    /\ known \in [Process -> SUBSET Pack]
    /\ pack \in [Process -> Pack \cup {NoPack}]
    /\ rep \in [Process -> Rep]

FilesOk ==
    /\ \A q \in packs : q.members # {}
    /\ \A r \in reps : Sufficient(r) /\ Settled(r)

\* What a put relies on in the step that it has come to.
PutOk(p) ==
    /\ pc[p] \in {"idle", "cutting", "listing"} => pack[p] = NoPack
    /\ pc[p] \in {"blob", "temp"} => pack[p] = NoPack
    /\ pc[p] = "blob_sync" => at[p] \in blobs
    /\ pc[p] = "pack_sync" => pack[p] \in packs
    /\ pc[p] \in {"naming", "rep"} =>
          pack[p] = NoPack \/ pack[p] \in packs \ loose_packs
    /\ pc[p] = "rep" =>
          /\ rep[p].content = at[p] /\ at[p] \in dirs
          /\ Sufficient(rep[p]) /\ rep[p].packs \subseteq packs
    /\ pc[p] = "rep_sync" => rep[p] \in reps /\ rep[p].content = at[p]
    /\ pc[p] = "stored" => at[p] \in leaned \/ Durable(at[p])

PutsOk == \A p \in Process : PutOk(p)

\* Claims are safe in a store whose directory of records is synced.
ClaimsOk ==
    RepsDir = "synced" =>
        /\ reps_dir = "synced"
        /\ \A h \in claimed \ leaned : Durable(h)

Inductive == Types /\ FilesOk /\ PutsOk /\ ClaimsOk

(***************************************************************************)
(* What holds of all steps.                                                *)
(***************************************************************************)

\* Files come; those that are tight stay so.
Grow ==
    /\ blobs \subseteq blobs' /\ packs \subseteq packs' /\ reps \subseteq reps'
    /\ dirs \subseteq dirs' /\ leaned \subseteq leaned'
    /\ loose_blobs' \cap blobs \subseteq loose_blobs
    /\ loose_packs' \cap packs \subseteq loose_packs
    /\ loose_reps' \cap reps \subseteq loose_reps

\* The process p takes the step.
Alone(p) ==
    \A q \in Process \ {p} :
        pc'[q] = pc[q] /\ at'[q] = at[q] /\ pack'[q] = pack[q] /\ rep'[q] = rep[q]

LEMMA StayDurable ==
  ASSUME Grow
  PROVE  /\ \A h : Durable(h) => Durable(h)'
         /\ \A r \in reps : Settled(r) => Settled(r)'
<1>1. ASSUME NEW h, Durable(h) PROVE Durable(h)'
  <2>1. CASE h \in blobs \ loose_blobs
    BY <2>1 DEF Grow, Durable
  <2>2. CASE \E r \in reps \ loose_reps : r.content = h
    BY <2>2 DEF Grow, Durable
  <2> QED BY <1>1, <2>1, <2>2 DEF Durable
<1>2. ASSUME NEW r \in reps, Settled(r) PROVE Settled(r)'
  BY <1>2 DEF Grow, Settled
<1> QED BY <1>1, <1>2

\* What the other processes rely on, and claims, while files only come.
LEMMA Others ==
  ASSUME Inductive, Grow, NEW p \in Process, Alone(p), PutOk(p)'
  PROVE  PutsOk'
<1> SUFFICES ASSUME NEW q \in Process \ {p} PROVE PutOk(q)'
  BY DEF PutsOk
<1>1. PutOk(q)
  BY DEF Inductive, PutsOk
<1>2. pc'[q] = pc[q] /\ at'[q] = at[q] /\ pack'[q] = pack[q] /\ rep'[q] = rep[q]
  BY DEF Alone
<1>3. pc[q] \in {"idle", "cutting", "listing", "blob", "temp"} => pack[q] = NoPack
  BY <1>1 DEF PutOk
<1>4. pc[q] = "blob_sync" => at[q] \in blobs'
  BY <1>1 DEF PutOk, Grow
<1>5. pc[q] = "pack_sync" => pack[q] \in packs'
  BY <1>1 DEF PutOk, Grow
<1>6. pc[q] \in {"naming", "rep"} => pack[q] = NoPack \/ pack[q] \in packs' \ loose_packs'
  BY <1>1 DEF PutOk, Grow
<1>7. pc[q] = "rep" =>
        /\ rep[q].content = at[q] /\ at[q] \in dirs'
        /\ Sufficient(rep[q]) /\ rep[q].packs \subseteq packs'
  BY <1>1 DEF PutOk, Grow
<1>8. pc[q] = "rep_sync" => rep[q] \in reps' /\ rep[q].content = at[q]
  BY <1>1 DEF PutOk, Grow
<1>9. pc[q] = "stored" => at[q] \in leaned' \/ Durable(at[q])'
  <2>1. Durable(at[q]) => Durable(at[q])'
    <3>1. \A h : Durable(h) => Durable(h)'
      BY StayDurable
    <3> QED BY <1>2, <3>1 DEF Durable
  <2> QED BY <1>1, <2>1 DEF PutOk, Grow
<1>10. Sufficient(rep[q]) => Sufficient(rep[q])'
  BY <1>2 DEF Sufficient, Objects, Held
<1> QED BY <1>2, <1>3, <1>4, <1>5, <1>6, <1>7, <1>8, <1>9, <1>10 DEF PutOk

LEMMA ClaimsStay ==
  ASSUME Inductive, Grow, claimed' = claimed,
         RepsDir = "synced" => reps_dir' = "synced"
  PROVE  ClaimsOk'
BY StayDurable DEF Inductive, ClaimsOk, Grow

\* Unless there are new files, the files are in order.
LEMMA FilesStay ==
  ASSUME Inductive, Grow, packs' = packs, reps' = reps
  PROVE  FilesOk'
BY StayDurable DEF Inductive, FilesOk, Sufficient

\* A step of one process that changes no file.
LEMMA QuietStep ==
  ASSUME Inductive, Types', UNCHANGED <<files, claimed>>, leaned \subseteq leaned',
         NEW p \in Process, Alone(p), PutOk(p)'
  PROVE  Inductive'
<1>1. Grow
  BY DEF Grow, files
<1>2. FilesOk'
  BY <1>1, FilesStay DEF files
<1>3. PutsOk'
  BY <1>1, Others
<1>4. ClaimsOk'
  BY <1>1, ClaimsStay DEF files, Inductive, ClaimsOk
<1> QED BY <1>2, <1>3, <1>4 DEF Inductive

\* Looking up finds what the packs hold.
LEMMA LookUpFacts ==
  ASSUME NEW map \in SUBSET packs, NEW o, NEW some
  PROVE  Located(map, o) \subseteq packs /\ AllLocated(map, some) \subseteq packs
BY DEF Located, AllLocated

\* A put that finds its content leans on it, unless it is durable.
LEMMA FoundFacts ==
  ASSUME NEW p \in Process, NEW h \in Content, Exists(h), ReturnExisting(p, h), UNCHANGED disk
  PROVE  /\ pc' = [pc EXCEPT ![p] = "stored"]
         /\ leaned \subseteq leaned'
         /\ leaned' \subseteq leaned \cup {h}
         /\ h \in leaned' \/ Durable(h)'
<1>1. pc' = [pc EXCEPT ![p] = "stored"]
  BY DEF ReturnExisting, Goto
<1>2. CASE MayVanish(h)
  BY <1>1, <1>2 DEF ReturnExisting
<1>3. CASE ~MayVanish(h)
  <2>1. leaned' = leaned
    BY <1>3 DEF ReturnExisting
  <2>2. Durable(h)
    <3>1. CASE h \in blobs
      BY <1>3, <3>1 DEF MayVanish, Durable
    <3>2. CASE h \notin blobs
      <4>1. PICK r \in reps : r.content = h
        BY <3>2 DEF Exists, RepsOf
      <4>2. r \notin loose_reps
        BY <1>3, <3>2, <4>1 DEF MayVanish, RepsOf
      <4> QED BY <4>1, <4>2 DEF Durable
    <3> QED BY <3>1, <3>2
  <2> QED BY <1>1, <2>1, <2>2 DEF Durable, disk, files
<1> QED BY <1>2, <1>3

(***************************************************************************)
(* Whole contents.                                                         *)
(***************************************************************************)

LEMMA BeginWholeStep ==
  ASSUME Inductive, NEW p \in Process, NEW h \in Content, BeginWhole(p, h)
  PROVE  Inductive'
<1>0. Types /\ PutOk(p)
  BY DEF Inductive, PutsOk
<1>1. /\ UNCHANGED <<disk, claimed>> /\ UNCHANGED <<todo, fresh, known, pack, rep>>
      /\ pc[p] = "idle" /\ at' = [at EXCEPT ![p] = h]
      /\ puts < MaxPuts /\ puts' = puts + 1
  BY DEF BeginWhole
<1>2. \/ pc' = [pc EXCEPT ![p] = "blob"] /\ leaned' = leaned
      \/ /\ pc' = [pc EXCEPT ![p] = "stored"]
         /\ leaned \subseteq leaned' /\ leaned' \subseteq leaned \cup {h}
         /\ h \in leaned' \/ Durable(h)'
  <2>1. CASE h \in blobs
    <3>1. Exists(h) /\ ReturnExisting(p, h)
      BY <2>1 DEF BeginWhole, Exists
    <3> QED BY <1>1, <3>1, FoundFacts
  <2>2. CASE h \notin blobs
    BY <2>2 DEF BeginWhole, Goto
  <2> QED BY <2>1, <2>2
<1>3. Types'
  <2>1. puts' \in 0 .. MaxPuts
    BY <1>0, <1>1, CutAssumption DEF Types, TypeOK
  <2>2. pc' \in [Process -> Steps] /\ leaned' \subseteq Content /\ at' \in [Process -> Content]
    BY <1>0, <1>1, <1>2 DEF Types, TypeOK, Steps
  <2> QED BY <1>0, <1>1, <2>1, <2>2 DEF Types, TypeOK, disk, files, temporary
<1>4. Alone(p) /\ at'[p] = h /\ pack'[p] = NoPack
  BY <1>0, <1>1, <1>2 DEF Types, Alone, PutOk
<1>5. PutOk(p)'
  <2>1. \/ pc'[p] = "blob"
        \/ pc'[p] = "stored" /\ (at'[p] \in leaned' \/ Durable(h)')
    BY <1>0, <1>2, <1>4 DEF Types
  <2>2. Durable(h)' => Durable(at[p])'
    BY <1>4 DEF Durable
  <2> QED BY <1>4, <2>1, <2>2 DEF PutOk
<1> QED BY <1>1, <1>2, <1>3, <1>4, <1>5, QuietStep DEF disk

\* The directories are synced before the temporary file is made.
LEMMA CreateTempStep ==
  ASSUME Inductive, NEW p \in Process, CreateTemp(p)
  PROVE  Inductive'
<1>0. Types /\ PutOk(p)
  BY DEF Inductive, PutsOk
<1>1. /\ UNCHANGED <<puts, blobs, packs, reps, temps, loose_packs, loose_reps, dirs, reps_dir,
                     claimed, leaned, at, todo, fresh, known, pack, rep>>
      /\ loose_blobs' = loose_blobs \ {at[p]} /\ loose_temps' = loose_temps \ {at[p]}
      /\ pc[p] = "blob" /\ pc' = [pc EXCEPT ![p] = "temp"]
  BY DEF CreateTemp, Goto
<1>2. Grow
  BY <1>1 DEF Grow
<1>3. Types'
  BY <1>0, <1>1 DEF Types, TypeOK, Steps
<1>4. Alone(p) /\ pc'[p] = "temp"
  BY <1>0, <1>1 DEF Types, Alone
<1>5. PutOk(p)'
  BY <1>0, <1>1, <1>4 DEF PutOk
<1>6. FilesOk' /\ PutsOk'
  BY <1>1, <1>2, <1>4, <1>5, FilesStay, Others
<1>7. ClaimsOk'
  BY <1>1, <1>2, ClaimsStay DEF Inductive, ClaimsOk
<1> QED BY <1>3, <1>6, <1>7 DEF Inductive

\* The blob is there, but its name is loose until the directory is synced.
LEMMA RenameBlobStep ==
  ASSUME Inductive, NEW p \in Process, RenameBlob(p)
  PROVE  Inductive'
<1>0. Types /\ at[p] \in Content
  BY DEF Inductive, Types
<1>1. /\ UNCHANGED <<puts, packs, reps, temporary, loose_packs, loose_reps, dirs, reps_dir, claimed,
                     leaned, at, todo, fresh, known, pack, rep>>
      /\ blobs' = blobs \cup {at[p]}
      /\ loose_blobs' = loose_blobs \cup ({at[p]} \ blobs)
      /\ pc' = [pc EXCEPT ![p] = "blob_sync"]
  BY DEF RenameBlob, Goto
<1>2. Grow
  BY <1>1 DEF Grow
<1>3. Types'
  BY <1>0, <1>1 DEF Types, TypeOK, temporary, Steps
<1>4. Alone(p) /\ pc'[p] = "blob_sync"
  BY <1>0, <1>1 DEF Types, Alone
<1>5. PutOk(p)'
  BY <1>1, <1>4 DEF PutOk
<1>6. FilesOk' /\ PutsOk'
  BY <1>1, <1>2, <1>4, <1>5, FilesStay, Others
<1>7. ClaimsOk'
  BY <1>1, <1>2, ClaimsStay DEF Inductive, ClaimsOk
<1> QED BY <1>3, <1>6, <1>7 DEF Inductive

LEMMA SyncBlobStep ==
  ASSUME Inductive, NEW p \in Process, SyncBlob(p)
  PROVE  Inductive'
<1>0. Types /\ at[p] \in blobs
  BY DEF Inductive, PutsOk, PutOk, SyncBlob
<1>1. /\ UNCHANGED <<puts, blobs, packs, reps, temps, loose_packs, loose_reps, dirs, reps_dir,
                     claimed, leaned, at, todo, fresh, known, pack, rep>>
      /\ loose_blobs' = loose_blobs \ {at[p]} /\ loose_temps' = loose_temps \ {at[p]}
      /\ pc' = [pc EXCEPT ![p] = "stored"]
  BY DEF SyncBlob, Goto
<1>2. Grow
  BY <1>1 DEF Grow
<1>3. Types'
  BY <1>0, <1>1 DEF Types, TypeOK, Steps
<1>4. Alone(p) /\ pc'[p] = "stored"
  BY <1>0, <1>1 DEF Types, Alone
<1>5. PutOk(p)'
  <2>1. Durable(at[p])'
    BY <1>0, <1>1 DEF Durable
  <2> QED BY <1>1, <1>4, <2>1 DEF PutOk
<1>6. FilesOk' /\ PutsOk'
  BY <1>1, <1>2, <1>4, <1>5, FilesStay, Others
<1>7. ClaimsOk'
  BY <1>1, <1>2, ClaimsStay DEF Inductive, ClaimsOk
<1> QED BY <1>3, <1>6, <1>7 DEF Inductive

(***************************************************************************)
(* Chunked contents.                                                       *)
(***************************************************************************)

LEMMA BeginChunkedStep ==
  ASSUME Inductive, NEW p \in Process, NEW h \in Content, BeginChunked(p, h)
  PROVE  Inductive'
<1>0. Types /\ PutOk(p)
  BY DEF Inductive, PutsOk
<1>1. /\ UNCHANGED <<disk, claimed, leaned, fresh, pack, rep>>
      /\ pc[p] = "idle" /\ pc' = [pc EXCEPT ![p] = "cutting"]
      /\ at' = [at EXCEPT ![p] = h]
      /\ known' = [known EXCEPT ![p] = packs]
      /\ todo' = [todo EXCEPT ![p] = Chunks[h]]
      /\ puts < MaxPuts /\ puts' = puts + 1
  BY DEF BeginChunked, Goto
<1>2. Types'
  <2>1. puts' \in 0 .. MaxPuts
    BY <1>0, <1>1, CutAssumption DEF Types, TypeOK
  <2>2. pc' \in [Process -> Steps] /\ at' \in [Process -> Content]
    BY <1>0, <1>1 DEF Types, Steps
  <2>3. todo' \in [Process -> SUBSET Object]
    BY <1>0, <1>1, CutAssumption DEF Types
  <2>4. known' \in [Process -> SUBSET Pack] /\ \A q \in Process : known'[q] \subseteq packs
    BY <1>0, <1>1 DEF Types, TypeOK
  <2> QED BY <1>0, <1>1, <2>1, <2>2, <2>3, <2>4 DEF Types, TypeOK, disk, files, temporary
<1>3. Alone(p) /\ pc'[p] = "cutting" /\ pack'[p] = NoPack
  BY <1>0, <1>1 DEF Types, Alone, PutOk
<1>4. PutOk(p)'
  BY <1>3 DEF PutOk
<1> QED BY <1>1, <1>2, <1>3, <1>4, QuietStep DEF disk

LEMMA LookUpStep ==
  ASSUME Inductive, NEW p \in Process, LookUp(p)
  PROVE  Inductive'
<1>0. Types /\ PutOk(p) /\ known[p] \subseteq packs
  BY DEF Inductive, PutsOk, Types, TypeOK
<1>1. /\ UNCHANGED <<disk, claimed, leaned, puts>> /\ UNCHANGED <<pc, at, pack, rep>>
      /\ pc[p] \in {"cutting", "listing"}
  BY DEF LookUp
<1>2. PICK o \in todo[p] :
        /\ todo' = [todo EXCEPT ![p] = todo[p] \ {o}]
        /\ known' = [known EXCEPT ![p] = Located(known[p], o)]
        /\ \/ fresh' = fresh
           \/ fresh' = [fresh EXCEPT ![p] = fresh[p] \cup {o}]
  BY DEF LookUp
<1>3. Types'
  <2>1. Located(known[p], o) \subseteq packs
    BY <1>0, LookUpFacts
  <2>2. known' \in [Process -> SUBSET Pack] /\ \A q \in Process : known'[q] \subseteq packs
    BY <1>0, <1>2, <2>1 DEF Types, TypeOK
  <2>3. todo' \in [Process -> SUBSET Object] /\ fresh' \in [Process -> SUBSET Object]
    BY <1>0, <1>2 DEF Types
  <2> QED BY <1>0, <1>1, <2>2, <2>3 DEF Types, TypeOK, disk, files, temporary
<1>4. Alone(p)
  BY <1>1 DEF Alone
<1>5. PutOk(p)'
  BY <1>0, <1>1 DEF PutOk
<1> QED BY <1>1, <1>3, <1>4, <1>5, QuietStep DEF disk

LEMMA EndCuttingStep ==
  ASSUME Inductive, NEW p \in Process, EndCutting(p)
  PROVE  Inductive'
<1>0. Types /\ PutOk(p) /\ at[p] \in Content
  BY DEF Inductive, PutsOk, Types
<1>1. /\ UNCHANGED <<disk, claimed>> /\ UNCHANGED <<puts, at, known, pack, rep>>
      /\ pc[p] = "cutting" /\ pack[p] = NoPack
  BY <1>0 DEF EndCutting, PutOk
<1>2. \/ /\ pc' = [pc EXCEPT ![p] = "listing"]
         /\ todo' = [todo EXCEPT ![p] = Nodes[at[p]]]
         /\ UNCHANGED <<leaned, fresh>>
      \/ /\ pc' = [pc EXCEPT ![p] = "stored"]
         /\ leaned \subseteq leaned' /\ leaned' \subseteq leaned \cup {at[p]}
         /\ at[p] \in leaned' \/ Durable(at[p])'
         /\ todo' = todo /\ fresh' = [fresh EXCEPT ![p] = {}]
  <2>1. CASE Exists(at[p])
    <3>1. /\ ReturnExisting(p, at[p])
          /\ todo' = todo /\ fresh' = [fresh EXCEPT ![p] = {}]
      BY <2>1 DEF EndCutting
    <3>2. \A h \in Content : Exists(h) /\ ReturnExisting(p, h) =>
            /\ pc' = [pc EXCEPT ![p] = "stored"]
            /\ leaned \subseteq leaned' /\ leaned' \subseteq leaned \cup {h}
            /\ h \in leaned' \/ Durable(h)'
      BY <1>1, FoundFacts
    <3>3. Durable(at[p])' <=> (\E h : h = at[p] /\ Durable(h)')
      BY <1>1 DEF Durable
    <3> QED BY <1>0, <2>1, <3>1, <3>2, <3>3
  <2>2. CASE ~Exists(at[p])
    BY <2>2 DEF EndCutting, Goto
  <2> QED BY <2>1, <2>2
<1>3. Types'
  <2>1. pc' \in [Process -> Steps] /\ leaned' \subseteq Content
    BY <1>0, <1>2 DEF Types, TypeOK, Steps
  <2>2. Nodes[at[p]] \in SUBSET Object
    BY <1>0, CutAssumption
  <2>3. todo' \in [Process -> SUBSET Object] /\ fresh' \in [Process -> SUBSET Object]
    BY <1>0, <1>2, <2>2 DEF Types
  <2> QED BY <1>0, <1>1, <2>1, <2>3 DEF Types, TypeOK, disk, files, temporary
<1>4. Alone(p) /\ leaned \subseteq leaned'
  BY <1>0, <1>1, <1>2 DEF Types, Alone
<1>5. PutOk(p)'
  <2>1. \/ pc'[p] = "listing"
        \/ pc'[p] = "stored" /\ (at[p] \in leaned' \/ Durable(at[p])')
    BY <1>0, <1>2 DEF Types
  <2> QED BY <1>1, <2>1 DEF PutOk
<1> QED BY <1>1, <1>3, <1>4, <1>5, QuietStep DEF disk

LEMMA NoNewPackStep ==
  ASSUME Inductive, NEW p \in Process, NoNewPack(p)
  PROVE  Inductive'
<1>0. Types /\ PutOk(p)
  BY DEF Inductive, PutsOk
<1>1. /\ UNCHANGED <<disk, claimed>> /\ UNCHANGED <<puts, leaned, at, todo, fresh, known, pack, rep>>
      /\ pc[p] = "listing" /\ pack[p] = NoPack /\ pc' = [pc EXCEPT ![p] = "naming"]
  BY <1>0 DEF NoNewPack, PutOk, Goto
<1>2. Types'
  BY <1>0, <1>1 DEF Types, TypeOK, disk, files, temporary, Steps
<1>3. Alone(p) /\ pc'[p] = "naming"
  BY <1>0, <1>1 DEF Types, Alone
<1>4. PutOk(p)'
  BY <1>1, <1>3 DEF PutOk
<1> QED BY <1>1, <1>2, <1>3, <1>4, QuietStep DEF disk

LEMMA RenamePackStep ==
  ASSUME Inductive, NEW p \in Process, RenamePack(p)
  PROVE  Inductive'
<1> DEFINE new == NewPack(p)
<1>0. Types /\ new \in Pack /\ new.members # {}
  BY DEF Inductive, Types, RenamePack, NeedsPack, NewPack, Pack
<1>1. /\ UNCHANGED <<puts, blobs, reps, temporary, loose_blobs, loose_reps, dirs, claimed, leaned,
                     at, todo, fresh, known, rep>>
      /\ packs' = packs \cup {new}
      /\ loose_packs' = loose_packs \cup ({new} \ packs)
      /\ pack' = [pack EXCEPT ![p] = new]
      /\ reps_dir' = IF reps_dir = "loose" THEN "synced" ELSE reps_dir
      /\ pc' = [pc EXCEPT ![p] = "pack_sync"]
  BY DEF RenamePack, SyncTransfs, Goto
<1>2. Grow
  BY <1>1 DEF Grow
<1>3. Types'
  <2>1. pc' \in [Process -> Steps] /\ pack' \in [Process -> Pack \cup {NoPack}]
    BY <1>0, <1>1 DEF Types, Steps
  <2>2. TypeOK'
    BY <1>0, <1>1 DEF Types, TypeOK, temporary
  <2> QED BY <1>0, <1>1, <2>1, <2>2 DEF Types
<1>4. Alone(p) /\ pc'[p] = "pack_sync" /\ pack'[p] = new
  BY <1>0, <1>1 DEF Types, Alone
<1>5. PutOk(p)'
  BY <1>1, <1>4 DEF PutOk
<1>6. FilesOk'
  <2>1. \A q \in packs' : q.members # {}
    BY <1>0, <1>1 DEF Inductive, FilesOk
  <2>2. \A r \in reps' : Settled(r)'
    BY <1>1, <1>2, StayDurable DEF Inductive, FilesOk
  <2>3. \A r \in reps' : Sufficient(r)'
    BY <1>1 DEF Inductive, FilesOk, Sufficient
  <2> QED BY <2>1, <2>2, <2>3 DEF FilesOk
<1>7. PutsOk'
  BY <1>2, <1>4, <1>5, Others
<1>8. ClaimsOk'
  <2>1. RepsDir = "synced" => reps_dir' = "synced"
    BY <1>1 DEF Inductive, ClaimsOk
  <2> QED BY <1>1, <1>2, <2>1, ClaimsStay
<1> QED BY <1>3, <1>6, <1>7, <1>8 DEF Inductive

LEMMA SyncPackStep ==
  ASSUME Inductive, NEW p \in Process, SyncPack(p)
  PROVE  Inductive'
<1>0. Types /\ pack[p] \in packs
  BY DEF Inductive, PutsOk, PutOk, SyncPack
<1>1. /\ UNCHANGED <<puts, blobs, packs, reps, temporary, loose_blobs, loose_reps, dirs, reps_dir,
                     claimed, leaned, at, todo, fresh, pack, rep>>
      /\ loose_packs' = {}
      /\ known' = [known EXCEPT ![p] = known[p] \cup {pack[p]}]
      /\ pc' = [pc EXCEPT ![p] = "naming"]
  BY DEF SyncPack, Goto
<1>2. Grow
  BY <1>1 DEF Grow
<1>3. Types'
  <2>1. pc' \in [Process -> Steps]
    BY <1>0, <1>1 DEF Types, Steps
  <2>2. known' \in [Process -> SUBSET Pack] /\ \A q \in Process : known'[q] \subseteq packs
    BY <1>0, <1>1 DEF Types, TypeOK
  <2>3. TypeOK'
    BY <1>0, <1>1, <2>2 DEF Types, TypeOK, temporary
  <2> QED BY <1>0, <1>1, <2>1, <2>2, <2>3 DEF Types
<1>4. Alone(p) /\ pc'[p] = "naming"
  BY <1>0, <1>1 DEF Types, Alone
<1>5. PutOk(p)'
  BY <1>0, <1>1, <1>4 DEF PutOk
<1>6. FilesOk' /\ PutsOk'
  BY <1>1, <1>2, <1>4, <1>5, FilesStay, Others
<1>7. ClaimsOk'
  BY <1>1, <1>2, ClaimsStay DEF Inductive, ClaimsOk
<1> QED BY <1>3, <1>6, <1>7 DEF Inductive

\* The packs that a record names hold what its content needs.
LEMMA HomesFacts ==
  ASSUME NEW map, NEW some, NEW homes \in Homes(some, map)
  PROVE  homes \subseteq map /\ some \subseteq Held(homes)
<1>1. PICK home \in {f \in [some -> map] : \A o \in some : o \in f[o].members} :
        homes = {home[o] : o \in some}
  BY DEF Homes
<1>2. \A o \in some : home[o] \in map /\ home[o] \in homes /\ o \in home[o].members
  BY <1>1
<1> QED BY <1>1, <1>2 DEF Held

LEMMA NameRepStep ==
  ASSUME Inductive, NEW p \in Process, NameRep(p)
  PROVE  Inductive'
<1> DEFINE h == at[p]
           map == AllLocated(known[p], Objects(h))
<1>0. /\ Types /\ PutOk(p) /\ FilesOk /\ h \in Content /\ known[p] \subseteq packs
      /\ packs \subseteq Pack
  BY DEF Inductive, PutsOk, Types, TypeOK
<1>1. /\ UNCHANGED <<puts, blobs, packs, reps, temporary, loose_blobs, loose_packs, loose_reps,
                     claimed, at, todo, pack>>
      /\ pc[p] = "naming" /\ fresh' = [fresh EXCEPT ![p] = {}]
      /\ known' = [known EXCEPT ![p] = map]
  BY DEF NameRep
<1>2. PICK homes \in Homes(Objects(h), map) :
        LET new == [content |-> h, packs |-> homes] IN
        IF new \in reps
          THEN /\ ReturnExisting(p, h)
               /\ UNCHANGED <<dirs, reps_dir, rep>>
          ELSE /\ rep' = [rep EXCEPT ![p] = new]
               /\ dirs' = dirs \cup {h}
               /\ reps_dir' = IF reps_dir = "absent" THEN "loose" ELSE reps_dir
               /\ Goto(p, "rep")
               /\ UNCHANGED leaned
  BY DEF NameRep, RecordedObjects
<1> DEFINE new == [content |-> h, packs |-> homes]
<1>3. map \subseteq packs /\ homes \subseteq packs /\ Objects(h) \subseteq Held(homes)
  <2>1. map \subseteq packs
    BY <1>0, LookUpFacts
  <2>2. homes \subseteq map /\ Objects(h) \subseteq Held(homes)
    BY <1>2, HomesFacts
  <2> QED BY <2>1, <2>2
<1>4. known' \in [Process -> SUBSET Pack] /\ \A q \in Process : known'[q] \subseteq packs
  BY <1>0, <1>1, <1>3 DEF Types, TypeOK
<1>5. fresh' \in [Process -> SUBSET Object]
  BY <1>0, <1>1 DEF Types
<1>6. CASE new \in reps
  <2>1. ReturnExisting(p, h) /\ UNCHANGED <<dirs, reps_dir, rep>>
    BY <1>2, <1>6
  <2>2. Exists(h) /\ UNCHANGED disk
    BY <1>1, <1>6, <2>1 DEF Exists, RepsOf, disk, files
  <2>3. /\ pc' = [pc EXCEPT ![p] = "stored"]
        /\ leaned \subseteq leaned' /\ leaned' \subseteq leaned \cup {h}
        /\ h \in leaned' \/ Durable(at[p])'
    <3>1. \A x \in Content : Exists(x) /\ ReturnExisting(p, x) =>
            /\ pc' = [pc EXCEPT ![p] = "stored"]
            /\ leaned \subseteq leaned' /\ leaned' \subseteq leaned \cup {x}
            /\ x \in leaned' \/ Durable(x)'
      BY <2>2, FoundFacts
    <3>2. Durable(at[p])' <=> (\E x : x = at[p] /\ Durable(x)')
      BY <1>1 DEF Durable
    <3> QED BY <1>0, <2>1, <2>2, <3>1, <3>2
  <2>4. Types'
    <3>1. pc' \in [Process -> Steps] /\ leaned' \subseteq Content
      BY <1>0, <2>3 DEF Types, TypeOK, Steps
    <3> QED BY <1>0, <1>1, <1>4, <1>5, <2>1, <3>1 DEF Types, TypeOK, temporary
  <2>5. Alone(p) /\ pc'[p] = "stored"
    BY <1>0, <1>1, <2>1, <2>3 DEF Types, Alone
  <2>6. PutOk(p)'
    BY <1>1, <2>3, <2>5 DEF PutOk
  <2> QED BY <1>1, <2>2, <2>3, <2>4, <2>5, <2>6, QuietStep DEF disk
<1>7. CASE new \notin reps
  <2>1. /\ rep' = [rep EXCEPT ![p] = new] /\ dirs' = dirs \cup {h}
        /\ reps_dir' = IF reps_dir = "absent" THEN "loose" ELSE reps_dir
        /\ pc' = [pc EXCEPT ![p] = "rep"] /\ leaned' = leaned
    BY <1>2, <1>7 DEF Goto
  <2>2. Grow
    BY <1>1, <2>1 DEF Grow
  <2>3. Types'
    <3>1. rep' \in [Process -> Rep]
      <4>1. new \in Rep
        BY <1>0, <1>3 DEF Rep
      <4> QED BY <1>0, <2>1, <4>1 DEF Types
    <3>2. pc' \in [Process -> Steps]
      BY <1>0, <2>1 DEF Types, Steps
    <3>3. TypeOK'
      BY <1>0, <1>1, <1>4, <2>1 DEF Types, TypeOK, temporary
    <3> QED BY <1>0, <1>1, <1>4, <1>5, <3>1, <3>2, <3>3 DEF Types
  <2>4. Alone(p) /\ pc'[p] = "rep" /\ rep'[p] = new
    BY <1>0, <1>1, <2>1 DEF Types, Alone
  <2>5. PutOk(p)'
    <3>1. pack[p] = NoPack \/ pack[p] \in packs \ loose_packs
      BY <1>0, <1>1 DEF PutOk
    <3>2. Sufficient(rep[p])'
      BY <1>3, <2>4 DEF Sufficient, Objects, Held
    <3>3. rep'[p].content = at[p] /\ rep'[p].packs \subseteq packs
      BY <1>3, <2>4
    <3> QED BY <1>1, <2>1, <2>4, <3>1, <3>2, <3>3 DEF PutOk
  <2>6. FilesOk' /\ PutsOk'
    BY <1>1, <2>2, <2>4, <2>5, FilesStay, Others
  <2>7. ClaimsOk'
    BY <1>1, <2>1, <2>2, ClaimsStay DEF Inductive, ClaimsOk
  <2> QED BY <2>3, <2>6, <2>7 DEF Inductive
<1> QED BY <1>6, <1>7

LEMMA RenameRepStep ==
  ASSUME Inductive, NEW p \in Process, RenameRep(p)
  PROVE  Inductive'
<1>0. /\ Types /\ PutOk(p) /\ FilesOk /\ at[p] \in Content /\ rep[p] \in Rep
      /\ packs \subseteq Pack /\ loose_packs \subseteq packs
  BY DEF Inductive, PutsOk, Types, TypeOK
<1>1. /\ UNCHANGED <<puts, blobs, packs, temporary, loose_blobs, loose_packs, dirs, reps_dir,
                     claimed, at, todo, fresh, known, pack, rep>>
      /\ reps' = reps \cup {rep[p]}
      /\ loose_reps' = loose_reps \cup ({rep[p]} \ reps)
      /\ pc[p] = "rep" /\ pc' = [pc EXCEPT ![p] = "rep_sync"]
  BY DEF RenameRep, Goto
<1>2. leaned' = IF rep[p].packs \cap loose_packs \subseteq {pack[p]}
                  THEN leaned ELSE leaned \cup {at[p]}
  BY DEF RenameRep
<1>3. /\ rep[p].content = at[p] /\ at[p] \in dirs
      /\ Sufficient(rep[p]) /\ rep[p].packs \subseteq packs
      /\ pack[p] = NoPack \/ pack[p] \in packs \ loose_packs
  BY <1>0, <1>1 DEF PutOk
<1>4. leaned \subseteq leaned' /\ leaned' \subseteq leaned \cup {at[p]}
  BY <1>2
<1>5. Grow
  BY <1>1, <1>4 DEF Grow
<1>6. Types'
  <2>1. pc' \in [Process -> Steps]
    BY <1>0, <1>1 DEF Types, Steps
  <2>2. TypeOK'
    BY <1>0, <1>1, <1>3, <1>4 DEF Types, TypeOK, temporary
  <2> QED BY <1>0, <1>1, <2>1, <2>2 DEF Types
<1>7. Alone(p) /\ pc'[p] = "rep_sync"
  BY <1>0, <1>1 DEF Types, Alone
<1>8. PutOk(p)'
  BY <1>1, <1>3, <1>7 DEF PutOk
<1>9. FilesOk'
  <2>1. \A r \in reps : Settled(r)'
    BY <1>0, <1>5, StayDurable DEF FilesOk
  <2>2. Settled(rep[p])'
    <3>1. CASE rep[p].packs \cap loose_packs \subseteq {pack[p]}
      <4>1. pack[p] \notin loose_packs
        <5>1. NoPack \notin packs
          BY <1>0 DEF FilesOk, NoPack
        <5> QED BY <1>0, <1>3, <5>1
      <4> QED BY <1>1, <1>3, <3>1, <4>1 DEF Settled
    <3>2. CASE ~(rep[p].packs \cap loose_packs \subseteq {pack[p]})
      BY <1>1, <1>2, <1>3, <3>2 DEF Settled
    <3> QED BY <3>1, <3>2
  <2>3. \A r \in reps' : Sufficient(r)
    BY <1>0, <1>1, <1>3 DEF FilesOk
  <2> QED BY <1>0, <1>1, <2>1, <2>2, <2>3 DEF FilesOk, Sufficient, Settled
<1>10. PutsOk'
  BY <1>5, <1>7, <1>8, Others
<1>11. ClaimsOk'
  BY <1>1, <1>5, ClaimsStay DEF Inductive, ClaimsOk
<1> QED BY <1>6, <1>9, <1>10, <1>11 DEF Inductive

LEMMA SyncRepStep ==
  ASSUME Inductive, NEW p \in Process, SyncRep(p)
  PROVE  Inductive'
<1>0. Types /\ rep[p] \in reps /\ rep[p].content = at[p]
  BY DEF Inductive, PutsOk, PutOk, SyncRep
<1>1. /\ UNCHANGED <<puts, blobs, packs, reps, temporary, loose_blobs, loose_packs, dirs, reps_dir,
                     claimed, leaned, at, todo, fresh, known, pack, rep>>
      /\ loose_reps' = loose_reps \ RepsOf(at[p])
      /\ pc' = [pc EXCEPT ![p] = "stored"]
  BY DEF SyncRep, Goto
<1>2. Grow
  BY <1>1 DEF Grow
<1>3. Types'
  BY <1>0, <1>1 DEF Types, TypeOK, temporary, Steps
<1>4. Alone(p) /\ pc'[p] = "stored"
  BY <1>0, <1>1 DEF Types, Alone
<1>5. PutOk(p)'
  <2>1. Durable(at[p])'
    BY <1>0, <1>1 DEF Durable, RepsOf
  <2> QED BY <1>1, <1>4, <2>1 DEF PutOk
<1>6. FilesOk' /\ PutsOk'
  BY <1>1, <1>2, <1>4, <1>5, FilesStay, Others
<1>7. ClaimsOk'
  BY <1>1, <1>2, ClaimsStay DEF Inductive, ClaimsOk
<1> QED BY <1>3, <1>6, <1>7 DEF Inductive

\* What is claimed has been stored.
LEMMA ClaimStep ==
  ASSUME Inductive, NEW p \in Process, Claim(p)
  PROVE  Inductive'
<1>0. /\ Types /\ at[p] \in Content /\ rep[p] \in Rep
      /\ at[p] \in leaned \/ Durable(at[p])
  BY DEF Inductive, Types, PutsOk, PutOk, Claim
<1>1. /\ UNCHANGED <<puts, blobs, packs, reps, temporary, loose_blobs, loose_packs, loose_reps, dirs,
                     leaned, at, todo, fresh, known>>
      /\ claimed' = claimed \cup {at[p]}
      /\ pc' = [pc EXCEPT ![p] = "idle"]
      /\ pack' = [pack EXCEPT ![p] = NoPack]
      /\ rep' = [rep EXCEPT ![p] = [rep[p] EXCEPT !.packs = {}]]
      /\ reps_dir' = reps_dir \/ reps_dir' = IF reps_dir = "loose" THEN "synced" ELSE reps_dir
  BY DEF Claim, SyncTransfs, Goto
<1>2. Grow
  BY <1>1 DEF Grow
<1>3. Types'
  <2>1. pc' \in [Process -> Steps] /\ pack' \in [Process -> Pack \cup {NoPack}]
    BY <1>0, <1>1 DEF Types, Steps
  <2>2. rep' \in [Process -> Rep]
    <3>1. [rep[p] EXCEPT !.packs = {}] \in Rep
      BY <1>0 DEF Rep
    <3> QED BY <1>0, <1>1, <3>1 DEF Types
  <2>3. TypeOK'
    BY <1>0, <1>1 DEF Types, TypeOK, temporary
  <2> QED BY <1>0, <1>1, <2>1, <2>2, <2>3 DEF Types
<1>4. Alone(p) /\ pc'[p] = "idle" /\ pack'[p] = NoPack
  BY <1>0, <1>1 DEF Types, Alone
<1>5. PutOk(p)'
  BY <1>4 DEF PutOk
<1>6. FilesOk' /\ PutsOk'
  BY <1>1, <1>2, <1>4, <1>5, FilesStay, Others
<1>7. ClaimsOk'
  <2> SUFFICES ASSUME RepsDir = "synced"
               PROVE  reps_dir' = "synced" /\ \A h \in claimed' \ leaned' : Durable(h)'
    BY DEF ClaimsOk
  <2>1. reps_dir = "synced" /\ \A h \in claimed \ leaned : Durable(h)
    BY DEF Inductive, ClaimsOk
  <2>2. \A h \in claimed' \ leaned' : Durable(h)
    BY <1>0, <1>1, <2>1
  <2>3. reps_dir' = "synced"
    BY <1>1, <2>1
  <2> QED BY <1>2, <2>2, <2>3, StayDurable
<1> QED BY <1>3, <1>6, <1>7 DEF Inductive

LEMMA ReadStep ==
  ASSUME Inductive, NEW p \in Process, NEW h \in Content, Read(p, h)
  PROVE  Inductive'
<1>0. Types /\ PutOk(p) /\ known[p] \subseteq packs /\ packs \subseteq Pack
  BY DEF Inductive, PutsOk, Types, TypeOK
<1>1. UNCHANGED <<disk, claimed>> /\ UNCHANGED <<puts, leaned, pc, at, todo, fresh, pack, rep>>
  BY DEF Read
<1>2. \E map \in SUBSET packs : known' = [known EXCEPT ![p] = map]
  <2>1. PICK r \in RepsOf(h) :
          known' = [known EXCEPT ![p] =
                      IF r.packs \subseteq known[p] THEN AllLocated(known[p], Chunks[h]) ELSE packs]
    BY DEF Read
  <2>2. AllLocated(known[p], Chunks[h]) \subseteq packs
    BY <1>0, LookUpFacts
  <2> QED BY <2>1, <2>2
<1>3. Types'
  <2>1. known' \in [Process -> SUBSET Pack] /\ \A q \in Process : known'[q] \subseteq packs
    BY <1>0, <1>2 DEF Types, TypeOK
  <2> QED BY <1>0, <1>1, <2>1 DEF Types, TypeOK, disk, files, temporary
<1>4. Alone(p) /\ PutOk(p)'
  BY <1>0, <1>1 DEF Alone, PutOk, disk, files, Durable, Sufficient, Objects, Held
<1> QED BY <1>1, <1>3, <1>4, QuietStep DEF disk

(***************************************************************************)
(* Deaths and power failures.                                              *)
(***************************************************************************)

\* Stopped processes have no put, and what they know is what the packs hold.
LEMMA StopFacts ==
  ASSUME Types, NEW some \in SUBSET Process, Stop(some)
  PROVE  /\ pc' \in [Process -> Steps] /\ at' \in [Process -> Content]
         /\ todo' \in [Process -> SUBSET Object] /\ fresh' \in [Process -> SUBSET Object]
         /\ known' \in [Process -> SUBSET Pack]
         /\ pack' \in [Process -> Pack \cup {NoPack}] /\ rep' \in [Process -> Rep]
         /\ \A q \in some : pc'[q] = "idle" /\ pack'[q] = NoPack /\ known'[q] = {}
         /\ \A q \in Process \ some :
               /\ pc'[q] = pc[q] /\ at'[q] = at[q] /\ pack'[q] = pack[q]
               /\ rep'[q] = rep[q] /\ known'[q] = known[q]
<1>1. /\ pc' = [q \in Process |-> IF q \in some THEN "idle" ELSE pc[q]]
      /\ todo' = [q \in Process |-> IF q \in some THEN {} ELSE todo[q]]
      /\ fresh' = [q \in Process |-> IF q \in some THEN {} ELSE fresh[q]]
      /\ known' = [q \in Process |-> IF q \in some THEN {} ELSE known[q]]
      /\ pack' = [q \in Process |-> IF q \in some THEN NoPack ELSE pack[q]]
      /\ rep' = [q \in Process |-> IF q \in some THEN [rep[q] EXCEPT !.packs = {}]
                                                 ELSE rep[q]]
      /\ at' = at
  BY DEF Stop, Cleared, KnownAfter
<1>2. pc' \in [Process -> Steps]
  BY <1>1 DEF Types, Steps
<1>3. rep' \in [Process -> Rep]
  <2>1. \A q \in Process : [rep[q] EXCEPT !.packs = {}] \in Rep /\ rep[q] \in Rep
    BY DEF Types, Rep
  <2> QED BY <1>1, <2>1
<1>4. /\ todo' \in [Process -> SUBSET Object] /\ fresh' \in [Process -> SUBSET Object]
      /\ known' \in [Process -> SUBSET Pack] /\ pack' \in [Process -> Pack \cup {NoPack}]
      /\ at' \in [Process -> Content]
  BY <1>1 DEF Types
<1> QED BY <1>1, <1>2, <1>3, <1>4

LEMMA DieStep ==
  ASSUME Inductive, NEW p \in Process, Die(p)
  PROVE  Inductive'
<1>0. Types
  BY DEF Inductive
<1>1. /\ Stop({p}) /\ UNCHANGED <<files, claimed, leaned, puts>>
      /\ \/ /\ temps' = temps \cup Unfinished({p})
            /\ loose_temps' = loose_temps \cup (Unfinished({p}) \ temps)
         \/ UNCHANGED temporary
  BY DEF Die
<1>2. /\ pc' \in [Process -> Steps] /\ at' \in [Process -> Content]
      /\ todo' \in [Process -> SUBSET Object] /\ fresh' \in [Process -> SUBSET Object]
      /\ known' \in [Process -> SUBSET Pack]
      /\ pack' \in [Process -> Pack \cup {NoPack}] /\ rep' \in [Process -> Rep]
      /\ pc'[p] = "idle" /\ pack'[p] = NoPack /\ known'[p] = {}
      /\ \A q \in Process \ {p} :
            /\ pc'[q] = pc[q] /\ at'[q] = at[q] /\ pack'[q] = pack[q]
            /\ rep'[q] = rep[q] /\ known'[q] = known[q]
  <2>1. {p} \in SUBSET Process /\ p \in {p}
    OBVIOUS
  <2> HIDE DEF Types
  <2> QED BY <1>0, <1>1, <2>1, StopFacts
<1>3. Types'
  <2>1. \A q \in Process : known'[q] \subseteq packs
    BY <1>0, <1>2 DEF Types, TypeOK
  <2>2. temps' \subseteq Content /\ loose_temps' \subseteq temps'
    <3>1. Unfinished({p}) \subseteq Content
      BY <1>0 DEF Types, Unfinished
    <3> QED BY <1>0, <1>1, <3>1 DEF Types, TypeOK, temporary
  <2> QED BY <1>0, <1>1, <1>2, <2>1, <2>2 DEF Types, TypeOK, disk, files, temporary
<1>4. Alone(p) /\ PutOk(p)'
  BY <1>2 DEF Alone, PutOk
<1> QED BY <1>1, <1>3, <1>4, QuietStep

LEMMA PowerFailureStep ==
  ASSUME Inductive, PowerFailure
  PROVE  Inductive'
<1>0. Types /\ FilesOk
  BY DEF Inductive
<1>1. /\ Stop(Process) /\ UNCHANGED <<puts, claimed, leaned>>
      /\ loose_blobs' = {} /\ loose_packs' = {} /\ loose_reps' = {} /\ loose_temps' = {}
      /\ temps' \subseteq temps \cup Unfinished(Process)
      /\ blobs' \subseteq blobs /\ blobs \ loose_blobs \subseteq blobs'
      /\ packs' \subseteq packs /\ packs \ loose_packs \subseteq packs'
      /\ \/ /\ reps' \subseteq reps /\ reps \ loose_reps \subseteq reps'
            /\ dirs' = dirs
            /\ reps_dir' = IF reps_dir = "absent" THEN "absent" ELSE "synced"
         \/ /\ reps_dir = "loose" /\ reps_dir' = "absent" /\ reps' = {} /\ dirs' = {}
  BY DEF PowerFailure
<1>2. /\ pc' \in [Process -> Steps] /\ at' \in [Process -> Content]
      /\ todo' \in [Process -> SUBSET Object] /\ fresh' \in [Process -> SUBSET Object]
      /\ known' \in [Process -> SUBSET Pack]
      /\ pack' \in [Process -> Pack \cup {NoPack}] /\ rep' \in [Process -> Rep]
      /\ \A q \in Process : pc'[q] = "idle" /\ pack'[q] = NoPack /\ known'[q] = {}
  <2>1. Process \in SUBSET Process
    OBVIOUS
  <2> QED BY <1>0, <1>1, <2>1, StopFacts
<1>3. Types'
  <2>1. temps' \subseteq Content
    BY <1>0, <1>1 DEF Types, TypeOK, Unfinished
  <2>2. TypeOK'
    BY <1>0, <1>1, <1>2, <2>1 DEF Types, TypeOK
  <2> QED BY <1>2, <2>2 DEF Types
<1>4. FilesOk'
  <2>1. \A r \in reps' : r \in reps
    BY <1>1
  <2>2. \A r \in reps : Settled(r) => Settled(r)'
    BY <1>1 DEF Settled
  <2> QED BY <1>0, <1>1, <2>1, <2>2 DEF FilesOk, Sufficient
<1>5. PutsOk'
  BY <1>2 DEF PutsOk, PutOk
<1>6. ClaimsOk'
  <2> SUFFICES ASSUME RepsDir = "synced"
               PROVE  reps_dir' = "synced" /\ \A h \in claimed' \ leaned' : Durable(h)'
    BY DEF ClaimsOk
  <2>1. reps_dir = "synced" /\ \A h \in claimed \ leaned : Durable(h)
    BY DEF Inductive, ClaimsOk
  <2>2. reps_dir' = "synced" /\ reps \ loose_reps \subseteq reps'
    BY <1>1, <2>1
  <2>3. \A h : Durable(h) => Durable(h)'
    BY <1>1, <2>2 DEF Durable
  <2> QED BY <1>1, <2>1, <2>2, <2>3
<1> QED BY <1>3, <1>4, <1>5, <1>6 DEF Inductive

----------------------------------------------------------------------------

\* In a store without contents.
LEMMA InitInductive == Init => Inductive
<1> SUFFICES ASSUME Init PROVE Inductive
  OBVIOUS
<1>1. at \in [Process -> Content]
  BY CutAssumption DEF Init
<1>2. rep \in [Process -> Rep]
  BY <1>1 DEF Init, Rep
<1>3. Types
  BY <1>1, <1>2, CutAssumption DEF Init, Types, TypeOK, Steps
<1>4. FilesOk /\ PutsOk /\ ClaimsOk
  BY DEF Init, FilesOk, PutsOk, PutOk, ClaimsOk
<1> QED BY <1>3, <1>4 DEF Inductive

\* The invariant holds for ever.
LEMMA Invariance == Spec => []Inductive
<1>1. Inductive /\ [Next]_vars => Inductive'
  <2> SUFFICES ASSUME Inductive, [Next]_vars PROVE Inductive'
    OBVIOUS
  <2>1. ASSUME NEW p \in Process, NEW h \in Content,
               BeginWhole(p, h) \/ BeginChunked(p, h) \/ Read(p, h)
        PROVE  Inductive'
    BY <2>1, BeginWholeStep, BeginChunkedStep, ReadStep
  <2>2. ASSUME NEW p \in Process,
               \/ CreateTemp(p) \/ RenameBlob(p) \/ SyncBlob(p) \/ LookUp(p) \/ EndCutting(p)
               \/ NoNewPack(p) \/ RenamePack(p) \/ SyncPack(p)
               \/ NameRep(p) \/ RenameRep(p) \/ SyncRep(p)
               \/ Claim(p) \/ Die(p)
        PROVE  Inductive'
    BY <2>2, CreateTempStep, RenameBlobStep, SyncBlobStep, LookUpStep, EndCuttingStep, NoNewPackStep,
       RenamePackStep, SyncPackStep, NameRepStep, RenameRepStep, SyncRepStep, ClaimStep,
       DieStep
  <2>3. CASE PowerFailure
    BY <2>3, PowerFailureStep
  <2>4. CASE UNCHANGED vars
    <3>1. UNCHANGED <<disk, claimed, leaned, puts>>
          /\ UNCHANGED <<pc, at, todo, fresh, known, pack, rep>>
      BY <2>4 DEF vars, process
    <3>2. Types'
      BY <3>1 DEF Inductive, Types, TypeOK, disk, files, temporary
    <3>3. FilesOk'
      BY <3>1 DEF Inductive, FilesOk, Sufficient, Settled, disk, files
    <3>4. PutsOk'
      BY <3>1 DEF Inductive, PutsOk, PutOk, Sufficient, Durable, disk, files
    <3>5. ClaimsOk'
      BY <3>1 DEF Inductive, ClaimsOk, Durable, disk, files
    <3> QED BY <3>2, <3>3, <3>4, <3>5 DEF Inductive
  <2> QED BY <2>1, <2>2, <2>3, <2>4 DEF Next
<1> QED BY <1>1, InitInductive, PTL DEF Spec

\* A map of packs never shows more than the directory, whatever was lost.
THEOREM ContentTyped == Spec => []TypeOK
BY Invariance, PTL DEF Inductive, Types

\* Whoever has a record of a content, and the packs it names, has the content.
THEOREM RecordsAreSufficient == Spec => []RecordsSuffice
<1>1. Inductive => RecordsSuffice
  BY DEF Inductive, FilesOk, Sufficient, RecordsSuffice
<1> QED BY <1>1, Invariance, PTL

\* Every map, old or new, leads to all that a sound record names.
LEMMA SoundReads ==
  ASSUME Types, NEW map \in SUBSET packs, NEW r,
         r.packs \subseteq packs, Sufficient(r)
  PROVE  ListLoads(map, r) /\ ChunksFound(map, r)
<1>1. ListLoads(map, r)
  BY DEF ListLoads, Sufficient, Objects
<1>2. ASSUME NEW c \in Chunks[r.content] PROVE c \in Held(Located(map, c))
  <2>1. c \in Held(packs)
    BY DEF Sufficient, Objects, Held
  <2> QED BY <2>1 DEF Located
<1> QED BY <1>1, <1>2 DEF ChunksFound

\* In a store whose directory of records is durable, every process reads all that
\* is claimed, but for contents put on names that nobody had synced.
THEOREM ClaimsAreReadable ==
  ASSUME RepsDir = "synced"
  PROVE  Spec => []ClaimedReadable
<1>1. Inductive => ClaimedReadable
  <2> SUFFICES ASSUME Inductive, NEW h \in claimed \ leaned, NEW p \in Process
               PROVE  Reads(known[p], h)
    BY DEF ClaimedReadable
  <2>1. Types /\ Durable(h) /\ known[p] \in SUBSET packs
    BY DEF Inductive, ClaimsOk, Types, TypeOK
  <2>2. ASSUME NEW r \in RepsOf(h)
        PROVE  ListLoads(known[p], r) /\ ChunksFound(known[p], r)
    <3>1. Sufficient(r) /\ r.packs \subseteq packs
      BY DEF Inductive, FilesOk, Settled, RepsOf
    <3> QED BY <2>1, <3>1, SoundReads
  <2>3. h \in blobs \/ RepsOf(h) # {}
    BY <2>1 DEF Durable, RepsOf
  <2> QED BY <2>2, <2>3 DEF Reads
<1> QED BY <1>1, Invariance, PTL

\* In such a store check reports a content only for what it leaned on, for the
\* temporary file of a whole put, or for a directory of records that holds none.
THEOREM ChecksFailForAReason ==
  ASSUME RepsDir = "synced"
  PROVE  Spec => []CheckFailsOnRemains
<1>1. Inductive => CheckFailsOnRemains
  <2> SUFFICES ASSUME Inductive, NEW h \in Content, CheckFails(h), h \notin leaned,
                      ~HasTemp(h), ~(h \in dirs /\ RepsOf(h) = {})
               PROVE  FALSE
    BY DEF CheckFailsOnRemains
  <2>1. CASE VersionMissing(h)
    <3>1. Durable(h)
      BY <2>1 DEF Inductive, ClaimsOk, VersionMissing
    <3> QED BY <2>1, <3>1 DEF VersionMissing, Durable, Exists, RepsOf
  <2>2. CASE ChunksDamaged(h)
    <3>1. ASSUME NEW r \in RepsOf(h)
          PROVE  r.packs \subseteq packs /\ ListLoads(packs, r) /\ ChunksFound(packs, r)
      <4>1. Types /\ Sufficient(r) /\ r.packs \subseteq packs /\ packs \in SUBSET packs
        BY DEF Inductive, FilesOk, Settled, RepsOf
      <4> QED BY <4>1, SoundReads
    <3> QED BY <2>2, <3>1 DEF ChunksDamaged, Verified
  <2> QED BY <2>1, <2>2 DEF CheckFails
<1> QED BY <1>1, Invariance, PTL

\* What check passes everybody can read, whatever was lost before.
THEOREM CleanMeansReadable == Spec => []CleanIsReadable
<1>1. Inductive => CleanIsReadable
  <2> SUFFICES ASSUME Inductive, NEW h \in claimed, ~CheckFails(h), NEW p \in Process,
                      h \notin blobs
               PROVE  Reads(known[p], h)
    BY DEF CleanIsReadable, Reads
  <2>1. Types /\ known[p] \in SUBSET packs /\ h \in Content
    BY DEF Inductive, Types, TypeOK
  <2>2. RepsOf(h) # {} /\ h \in dirs
    <3>1. RepsOf(h) # {}
      BY DEF CheckFails, VersionMissing, Exists
    <3> QED BY <2>1, <3>1 DEF Types, TypeOK, RepsOf
  <2>3. Verified(h)
    BY <2>2 DEF CheckFails, ChunksDamaged
  <2>4. ASSUME NEW r \in RepsOf(h)
        PROVE  ListLoads(known[p], r) /\ ChunksFound(known[p], r)
    <3>1. Sufficient(r) /\ r.packs \subseteq packs
      BY <2>3 DEF Inductive, FilesOk, RepsOf, Verified
    <3> QED BY <2>1, <3>1, SoundReads
  <2> QED BY <2>2, <2>4 DEF Reads
<1> QED BY <1>1, Invariance, PTL
=============================================================================
