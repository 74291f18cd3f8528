------------------------------ MODULE Publish ------------------------------
(***************************************************************************)
(* Publishing checkpoints of working stores to passive remotes             *)
(* (replica.rs publish, reconcile_pending, fork_writer; writer.rs;         *)
(* remote.rs write_once_ref, refs_for).                                    *)
(*                                                                         *)
(* A working store holds a growing set of claims and a writer ID.  A       *)
(* checkpoint puts on a remote the content its claims name, a pack of the  *)
(* new ledger nodes, and last a write-once ref that makes them reachable.  *)
(* Each ref carries the hash of the one before it, so the bytes of a ref   *)
(* stand for the whole list of ledger roots that lead to it: a ref is here *)
(* that list, a sequence of ledgers, its sequence number the length, its   *)
(* `previous' the front and its root the last element.  Two refs are equal *)
(* bytes exactly when they are equal lists under one writer.               *)
(*                                                                         *)
(* Simplifications:                                                        *)
(*  - a log append is one step, after which its claims are durable or not; *)
(*    how logs break and content goes missing is the business of the log    *)
(*    and the content store: here any run on a fragile host may find it so; *)
(*  - a blob or pack appears on a remote at once (temp file and rename);   *)
(*  - a version claim stands for the content it names;                     *)
(*  - a remote keeps what was written to it, and nobody edits files by hand; *)
(*  - writer labels, and writer state of format 1, are left out.           *)
(***************************************************************************)
EXTENDS Naturals, SequencesExt

CONSTANTS
    Store,      \* working-store directories
    Remote,     \* remote directories
    Writer,     \* writer IDs that mint_id may draw
    FirstDrawn, \* those among them that the first store may have drawn
    Claim,      \* every claim that will ever be minted
    Version,    \* the claims that name content
    Needs,      \* claim -> the claims that must precede it in a log
    HardLinks,  \* remotes whose filesystem can publish by hard link
    CopyTarget, \* directories where somebody may put a copy of a store
    Fragile     \* stores on a host whose appends may die and power may fail

ASSUME ClaimsAssumption ==
    /\ Version \subseteq Claim
    /\ Needs \in [Claim -> SUBSET Claim]

ASSUME RemotesAssumption == HardLinks \subseteq Remote

ASSUME StoresAssumption == Fragile \subseteq Store /\ FirstDrawn \subseteq Writer

VARIABLES
    \* working stores: what is on their disk
    live,       \* the directories that hold a working store
    claims,     \* store -> claims in its logs
    writer,     \* store -> its writer ID (writer.json id)
    last_ref,   \* store -> remote -> last ref known published (writer.json)
    pending,    \* store -> remote -> ref about to be published, or None
    minted,     \* claims that were ever made
    ids,        \* writer IDs drawn so far
    loose,      \* store -> claims in its logs that no sync has made durable yet
    lost,       \* store -> claims that power failures took from its logs
                \* (a history variable: no step depends on it)
    \* publishers: what a process holding the store lock knows
    pc,         \* store -> where its publisher stands, "idle" if there is none
    at,         \* store -> the remote it publishes to
    tip,        \* store -> the remote's latest ref as it last read it
    captured,   \* store -> the ledger it checkpoints
    settling,   \* store -> whether it is publishing a ref left pending earlier
    \* remotes
    named,      \* remote -> its remote.json: "absent", "reserved" or "full"
    refs,       \* remote -> writer -> complete refs
    marked,     \* remote -> writer -> reservations that name their ref
    blank,      \* remote -> writer -> slots reserved but not (wholly) marked
    packs,      \* remote -> packs
    blobs       \* remote -> content, by the version claims that name it

durableVars == <<loose, lost>>
storeVars == <<live, claims, writer, last_ref, pending, minted, ids, durableVars>>
processVars == <<pc, at, tip, captured, settling>>
refVars == <<refs, marked, blank, packs, blobs>>
remoteVars == <<named, refVars>>
vars == <<storeVars, processVars, remoteVars>>

----------------------------------------------------------------------------
(* Ledgers, refs and packs.                                                *)

Ledger == SUBSET Claim
Ref == Seq(Ledger)

\* No ref: `Option::None' where the code keeps an optional ref.
None == <<>>

\* The ledger a ref publishes; nothing is published where there is no ref.
Root(h) == IF h = None THEN {} ELSE Last(h)

\* A pack holds the nodes of `root' that none of the packs of `previous' holds.
PackFor(previous, root) == [root |-> root, prior |-> ToSet(previous)]

\* The packs a ref lists: those of the refs before it and its own.
PacksOf(h) == {PackFor(SubSeq(h, 1, i - 1), h[i]) : i \in 1 .. Len(h)}

\* Every claim comes with the claims it refers to.
Closed(ledger) == \A c \in ledger : Needs[c] \subseteq ledger

\* The content that a checkpoint of `ledger' must carry.
ContentOf(ledger) == ledger \cap Version

----------------------------------------------------------------------------
(* The refs directory of one writer on one remote.                         *)

\* Is slot n of the directory taken, by a ref or by a reservation?
Taken(r, w, n) ==
    \/ n \in blank[r][w]
    \/ \E h \in refs[r][w] \cup marked[r][w] : Len(h) = n

\* What refs_for and latest_ref accept: an incomplete slot only behind every
\* complete one, and each ref linked to the ref in the slot before it.
Readable(r, w) ==
    /\ \A h \in refs[r][w] :
          /\ \A n \in blank[r][w] : Len(h) < n
          /\ \A g \in marked[r][w] : Len(h) < Len(g)
          /\ Front(h) \in refs[r][w] \cup {None}

\* h is what latest_ref returns.
IsTip(r, w, h) ==
    /\ h \in refs[r][w] \cup {None}
    /\ \A g \in refs[r][w] : Len(g) <= Len(h)

----------------------------------------------------------------------------
(* The tests a publisher makes.                                            *)

\* The ref in writer.json waiting to be settled on the remote at hand.
Pending(s) == pending[s][at[s]]
LastRef(s) == last_ref[s][at[s]]
Chain(s) == refs[at[s]][writer[s]]

\* A pending ref must continue this store's own last ref.
PendingMatches(s) == Pending(s) # None /\ Front(Pending(s)) = LastRef(s)

\* Publishing over whatever tip was read.
TipIsLast_Trusting(s) == TRUE

\* The remote's tip is the ref this store last published there: nobody else
\* has continued the chain.
TipIsLast(s) == tip[s] = LastRef(s)

\* Publishing without looking for claims that went missing locally.
PriorKept_Unchecked(s) == TRUE

\* ensure_prior_claims: the store still holds all it published before.
PriorKept(s) == Root(tip[s]) \subseteq claims[s]

\* load_objects: the packs of the previous ref can be fetched.
PriorLoads(s) == PacksOf(tip[s]) \subseteq packs[at[s]]

\* Uploading the content after the ref instead of before.
Uploaded_Later(s) == TRUE

\* Skipping content that has been uploaded to any remote before.
Uploaded_Anywhere(s) ==
    ContentOf(captured[s]) \subseteq UNION {blobs[r] : r \in Remote}

\* Every put_blob of this checkpoint has returned.
Uploaded(s) == ContentOf(captured[s]) \subseteq blobs[at[s]]

\* Same root as the previous ref: there is nothing to publish.
Unchanged(s) == tip[s] # None /\ Last(tip[s]) = captured[s]

\* The save of the new ledger added at least its root node.
HasNewNodes(s) == captured[s] \notin ToSet(tip[s])

\* A ref file opened without O_EXCL.
SlotFree_Overwriting(s) == Pending(s) \notin Chain(s)

\* The slot of the pending ref can be created exclusively.
SlotFree(s) == ~Taken(at[s], writer[s], Len(Pending(s)))

\* The slot already holds these very bytes.
SlotHasIt(s) == Pending(s) \in Chain(s)

\* Taking every reservation for somebody else's.
SlotIsOurs_Never(s) == FALSE

\* Finishing any reservation of the slot, whoever made it.
SlotIsOurs_Unmarked(s) ==
    Taken(at[s], writer[s], Len(Pending(s))) /\ ~SlotHasIt(s)

\* The slot holds a reservation marked with the hash of these very bytes.
SlotIsOurs(s) == Pending(s) \in marked[at[s]][writer[s]]

\* Every early return with an error that the state of store and remote decides.
Refused(s) ==
    CASE pc[s] = "name" -> named[at[s]] = "reserved"
      [] pc[s] = "tip" -> ~Readable(at[s], writer[s])
      [] pc[s] = "reconcile" -> /\ Pending(s) # None
                                /\ \/ ~PendingMatches(s)
                                   \/ ~TipIsLast(s) /\ tip[s] # Pending(s)
      [] pc[s] = "compare" -> ~(TipIsLast(s) /\ PriorLoads(s) /\ PriorKept(s))
      [] pc[s] = "content" -> Uploaded(s) /\ ~Unchanged(s) /\ ~HasNewNodes(s)
      [] pc[s] = "damaged" -> TRUE
      [] pc[s] = "claim" -> ~(SlotFree(s) \/ SlotHasIt(s) \/ SlotIsOurs(s))
      [] OTHER -> FALSE

----------------------------------------------------------------------------
(* Initial state: one store, as `load_or_create' leaves it.                *)

Init ==
    /\ \E s \in Store, w \in FirstDrawn :
          live = {s} /\ writer = [x \in Store |-> w] /\ ids = {w}
    /\ claims = [s \in Store |-> {}]
    /\ last_ref = [s \in Store |-> [r \in Remote |-> None]]
    /\ pending = [s \in Store |-> [r \in Remote |-> None]]
    /\ minted = {}
    /\ loose = [s \in Store |-> {}]
    /\ lost = [s \in Store |-> {}]
    /\ pc = [s \in Store |-> "idle"]
    /\ at \in {[s \in Store |-> r] : r \in Remote}
    /\ tip = [s \in Store |-> None]
    /\ captured = [s \in Store |-> {}]
    /\ settling = [s \in Store |-> FALSE]
    /\ named = [r \in Remote |-> "absent"]
    /\ refs = [r \in Remote |-> [w \in Writer |-> {}]]
    /\ marked = [r \in Remote |-> [w \in Writer |-> {}]]
    /\ blank = [r \in Remote |-> [w \in Writer |-> {}]]
    /\ packs = [r \in Remote |-> {}]
    /\ blobs = [r \in Remote |-> {}]

----------------------------------------------------------------------------
(* Working stores between checkpoints.  Each of these takes the store lock, *)
(* so none happens while a publisher holds it; copying takes no lock.       *)

\* Log::append of a claim built from claims of this store.  A claim carries a
\* nonce: no two stores ever mint the same one.  The append syncs the whole log,
\* and so settles what earlier commands left there; or its command dies before
\* that, or the log has a name that its maker did not live to sync.
AddClaim(s, c) ==
    /\ s \in live /\ pc[s] = "idle"
    /\ c \notin minted /\ Needs[c] \subseteq claims[s]
    /\ claims' = [claims EXCEPT ![s] = @ \cup {c}]
    /\ minted' = minted \cup {c}
    /\ \/ \E synced \in SUBSET loose[s] :
             /\ Needs[c] \cap loose[s] \subseteq synced
             /\ loose' = [loose EXCEPT ![s] = @ \ synced]
       \/ s \in Fragile /\ loose' = [loose EXCEPT ![s] = @ \cup {c}]
    /\ UNCHANGED <<live, writer, last_ref, pending, ids, lost, processVars, remoteVars>>

\* Keeping what the old ID published, or leaving the remotes without a value.
ForkedState_Remembering(s) == last_ref[s]
ForkedState_Unset(s) == [r \in {} |-> None]

\* fork_writer: a fresh ID, and no memory of what the old ID published.
ForkedState(s) == [r \in Remote |-> None]

Fork(s, w) ==
    /\ s \in live /\ pc[s] = "idle"
    /\ w \notin ids
    /\ writer' = [writer EXCEPT ![s] = w]
    /\ ids' = ids \cup {w}
    /\ last_ref' = [last_ref EXCEPT ![s] = ForkedState(s)]
    /\ pending' = [pending EXCEPT ![s] = [r \in Remote |-> None]]
    /\ UNCHANGED <<live, claims, minted, durableVars, processVars, remoteVars>>

\* Somebody copies (or restores from a backup) the directory of store s.  The
\* copy is no snapshot: the logs may be read before writer.json, and lack
\* appends that writer.json already counts as published; nothing of it is synced.
Copy(s, t, ledger) ==
    /\ s \in live /\ t \in CopyTarget \ live
    /\ ledger \subseteq claims[s] /\ Closed(ledger)
    /\ live' = live \cup {t}
    /\ claims' = [claims EXCEPT ![t] = ledger]
    /\ writer' = [writer EXCEPT ![t] = writer[s]]
    /\ last_ref' = [last_ref EXCEPT ![t] = last_ref[s]]
    /\ pending' = [pending EXCEPT ![t] = pending[s]]
    /\ loose' = IF t \in Fragile THEN [loose EXCEPT ![t] = ledger] ELSE loose
    /\ UNCHANGED <<minted, ids, lost, processVars, remoteVars>>

----------------------------------------------------------------------------
(* One run of publish, step by step; every step but the first and the last *)
(* may find the store lock released by a crash and never happen.           *)

Goto(s, label) == pc' = [pc EXCEPT ![s] = label]

\* The end of a run, whatever its outcome: the lock is released and what the
\* process held in memory is gone.
Leave(s) ==
    /\ pc' = [pc EXCEPT ![s] = "idle"]
    /\ tip' = [tip EXCEPT ![s] = None]
    /\ captured' = [captured EXCEPT ![s] = {}]
    /\ settling' = [settling EXCEPT ![s] = FALSE]
    /\ UNCHANGED at

\* The power of a store's host fails, and with it a run of publish.  What no
\* one has synced may be gone: the end of a log, or all of it.
PowerLoss(s) ==
    /\ s \in live \cap Fragile
    /\ \E gone \in SUBSET loose[s] :
          /\ Closed(claims[s] \ gone)
          /\ claims' = [claims EXCEPT ![s] = @ \ gone]
          /\ lost' = [lost EXCEPT ![s] = @ \cup gone]
    /\ loose' = [loose EXCEPT ![s] = {}]
    /\ Leave(s)
    /\ UNCHANGED <<live, writer, last_ref, pending, minted, ids, remoteVars>>

\* Take the store lock and read the remote's ID, if it has one.
BeginPublish(s, r) ==
    /\ s \in live /\ pc[s] = "idle"
    /\ Goto(s, IF named[r] = "full" THEN "tip" ELSE "name")
    /\ at' = [at EXCEPT ![s] = r]
    /\ UNCHANGED <<tip, captured, settling, storeVars, remoteVars>>

\* remote_id creates remote.json: by a hard link, or by reserving it and then
\* filling it (in RemoteId step by step).  If another publisher created it
\* first, theirs stands.
NameRemote(s) ==
    /\ pc[s] = "name" /\ named[at[s]] = "absent"
    /\ IF at[s] \in HardLinks
         THEN Goto(s, "tip") /\ named' = [named EXCEPT ![at[s]] = "full"]
         ELSE Goto(s, "naming") /\ named' = [named EXCEPT ![at[s]] = "reserved"]
    /\ UNCHANGED <<at, tip, captured, settling, storeVars, refVars>>

FindName(s) ==
    /\ pc[s] = "name" /\ named[at[s]] = "full"
    /\ Goto(s, "tip")
    /\ UNCHANGED <<at, tip, captured, settling, storeVars, remoteVars>>

FillName(s) ==
    /\ pc[s] = "naming"
    /\ named' = [named EXCEPT ![at[s]] = "full"]
    /\ Goto(s, "tip")
    /\ UNCHANGED <<at, tip, captured, settling, storeVars, refVars>>

\* latest_ref.
ReadTip(s) ==
    /\ pc[s] = "tip"
    /\ Readable(at[s], writer[s])
    /\ \E h \in Chain(s) \cup {None} :
          IsTip(at[s], writer[s], h) /\ tip' = [tip EXCEPT ![s] = h]
    /\ Goto(s, "reconcile")
    /\ UNCHANGED <<at, captured, settling, storeVars, remoteVars>>

\* reconcile_pending, nothing left over from an earlier run.
NothingPending(s) ==
    /\ pc[s] = "reconcile"
    /\ Pending(s) = None
    /\ Goto(s, "compare")
    /\ UNCHANGED <<at, tip, captured, settling, storeVars, remoteVars>>

\* One last ref for all remotes.
Recorded_Everywhere(s) == [r \in Remote |-> Pending(s)]

\* Each remote has a last ref of its own.
Recorded(s) == [last_ref[s] EXCEPT ![at[s]] = Pending(s)]

\* What writer.json says once the pending ref is known to be published.
Settle(s) ==
    /\ last_ref' = [last_ref EXCEPT ![s] = Recorded(s)]
    /\ pending' = [pending EXCEPT ![s][at[s]] = None]
    /\ UNCHANGED <<live, claims, writer, minted, ids, durableVars>>

\* reconcile_pending, the remote has the pending ref already.
AdoptPending(s) ==
    /\ pc[s] = "reconcile"
    /\ PendingMatches(s)
    /\ tip[s] = Pending(s)
    /\ Settle(s)
    /\ Goto(s, "compare")
    /\ UNCHANGED <<at, tip, captured, settling, remoteVars>>

\* reconcile_pending, the remote stands where it stood before the pending ref.
RetryPending(s) ==
    /\ pc[s] = "reconcile"
    /\ PendingMatches(s)
    /\ TipIsLast(s)
    /\ Goto(s, "claim")
    /\ settling' = [settling EXCEPT ![s] = TRUE]
    /\ UNCHANGED <<at, tip, captured, storeVars, remoteVars>>

\* Compare the tip, read every log, load the previous ledger and compare.
CaptureLedger(s) ==
    /\ pc[s] = "compare"
    /\ TipIsLast(s) /\ PriorLoads(s) /\ PriorKept(s)
    /\ captured' = [captured EXCEPT ![s] = claims[s]]
    /\ Goto(s, "content")
    /\ UNCHANGED <<at, tip, settling, storeVars, remoteVars>>

\* A log reads torn, or not at all, or does not fold; or content that a claim
\* names cannot be read, whether or not the remote has it.
FindDamage(s) ==
    /\ s \in Fragile
    /\ \/ pc[s] = "compare" /\ TipIsLast(s)
       \/ pc[s] = "content" /\ ContentOf(captured[s]) # {}
    /\ Goto(s, "damaged")
    /\ UNCHANGED <<at, tip, captured, settling, storeVars, remoteVars>>

\* One put_blob.
PutBlob(s) ==
    /\ pc[s] = "content"
    /\ \E b \in ContentOf(captured[s]) \ blobs[at[s]] :
          blobs' = [blobs EXCEPT ![at[s]] = @ \cup {b}]
    /\ UNCHANGED <<storeVars, processVars, named, refs, marked, blank, packs>>

\* The ledger is the published one.
FinishUnchanged(s) ==
    /\ pc[s] = "content"
    /\ Uploaded(s) /\ Unchanged(s)
    /\ Leave(s)
    /\ UNCHANGED <<storeVars, remoteVars>>

\* put_pack.
PutPack(s) ==
    /\ pc[s] = "content"
    /\ Uploaded(s) /\ ~Unchanged(s) /\ HasNewNodes(s)
    /\ packs' = [packs EXCEPT ![at[s]] = @ \cup {PackFor(tip[s], captured[s])}]
    /\ Goto(s, "save")
    /\ UNCHANGED <<at, tip, captured, settling, storeVars, named, refs, marked, blank, blobs>>

\* The ref to publish: the next of the chain that was read.
NextRef(s) == Append(tip[s], captured[s])

\* Save the ref in writer.json before any attempt to publish it.
SavePending(s) ==
    /\ pc[s] = "save"
    /\ pending' = [pending EXCEPT ![s][at[s]] = NextRef(s)]
    /\ Goto(s, "claim")
    /\ UNCHANGED <<at, tip, captured, settling, live, claims, writer, last_ref,
                   minted, ids, durableVars, remoteVars>>

----------------------------------------------------------------------------
(* write_once_ref of the pending ref.                                      *)

\* Put the ref into its slot, in place of its reservation if it has one.
Complete(s) ==
    /\ refs' = [refs EXCEPT ![at[s]][writer[s]] = @ \cup {Pending(s)}]
    /\ marked' = [marked EXCEPT ![at[s]][writer[s]] = @ \ {Pending(s)}]
    /\ UNCHANGED <<named, blank, packs, blobs>>

\* hard_link of the synced temporary file onto the slot.
LinkRef(s) ==
    /\ pc[s] = "claim" /\ at[s] \in HardLinks
    /\ SlotFree(s)
    /\ Complete(s)
    /\ Goto(s, "settle")
    /\ UNCHANGED <<at, tip, captured, settling, storeVars>>

\* No hard links: create the slot with O_EXCL.
CreateSlot(s) ==
    /\ pc[s] = "claim" /\ at[s] \notin HardLinks
    /\ SlotFree(s)
    /\ blank' = [blank EXCEPT ![at[s]][writer[s]] = @ \cup {Len(Pending(s))}]
    /\ Goto(s, "mark")
    /\ UNCHANGED <<at, tip, captured, settling, storeVars, named, refs, marked,
                   packs, blobs>>

\* Write and sync the marker that names the ref's bytes.
MarkSlot(s) ==
    /\ pc[s] = "mark"
    /\ blank' = [blank EXCEPT ![at[s]][writer[s]] = @ \ {Len(Pending(s))}]
    /\ marked' = [marked EXCEPT ![at[s]][writer[s]] = @ \cup {Pending(s)}]
    /\ Goto(s, "fill")
    /\ UNCHANGED <<at, tip, captured, settling, storeVars, named, refs, packs, blobs>>

\* An exact retry finds the marker of its own bytes and finishes for it.
ResumeSlot(s) ==
    /\ pc[s] = "claim" /\ at[s] \notin HardLinks
    /\ SlotIsOurs(s)
    /\ Goto(s, "fill")
    /\ UNCHANGED <<at, tip, captured, settling, storeVars, remoteVars>>

\* Rename the framed ref over the reservation.
FillSlot(s) ==
    /\ pc[s] = "fill"
    /\ Complete(s)
    /\ Goto(s, "settle")
    /\ UNCHANGED <<at, tip, captured, settling, storeVars>>

\* The slot holds equal bytes: a reply that was lost, or a copy of this store
\* that published the same ref.
FindRef(s) ==
    /\ pc[s] = "claim"
    /\ SlotHasIt(s)
    /\ Goto(s, "settle")
    /\ UNCHANGED <<at, tip, captured, settling, storeVars, remoteVars>>

\* Record the published ref in writer.json.  A run that was settling an
\* earlier run's ref reads the tip again and goes on with its own checkpoint.
SaveLastRef(s) ==
    /\ pc[s] = "settle"
    /\ Settle(s)
    /\ settling' = [settling EXCEPT ![s] = FALSE]
    /\ IF settling[s] THEN Goto(s, "tip") /\ UNCHANGED <<at, tip, captured>>
       ELSE /\ Goto(s, "idle")
            /\ tip' = [tip EXCEPT ![s] = None]
            /\ captured' = [captured EXCEPT ![s] = {}]
            /\ UNCHANGED at
    /\ UNCHANGED remoteVars

\* An error return.
Refuse(s) ==
    /\ Refused(s)
    /\ Leave(s)
    /\ UNCHANGED <<storeVars, remoteVars>>

\* The process dies, or an operation on the store or the remote fails, at any
\* point; a reply lost after the operation took effect is this too.
Crash(s) ==
    /\ pc[s] # "idle"
    /\ Leave(s)
    /\ UNCHANGED <<storeVars, remoteVars>>

----------------------------------------------------------------------------

WriteRef(s) ==
    \/ LinkRef(s) \/ CreateSlot(s) \/ MarkSlot(s)
    \/ ResumeSlot(s) \/ FillSlot(s) \/ FindRef(s)

\* The steps of a publisher that keeps running.
PublishStep(s) ==
    \/ NameRemote(s) \/ FindName(s) \/ FillName(s)
    \/ ReadTip(s) \/ NothingPending(s) \/ AdoptPending(s) \/ RetryPending(s)
    \/ CaptureLedger(s) \/ FindDamage(s) \/ PutBlob(s) \/ FinishUnchanged(s) \/ PutPack(s)
    \/ SavePending(s) \/ WriteRef(s) \/ SaveLastRef(s) \/ Refuse(s)

StoreStep(s) ==
    \/ \E c \in Claim : AddClaim(s, c)
    \/ \E w \in Writer : Fork(s, w)
    \/ \E t \in Store, ledger \in SUBSET claims[s] : Copy(s, t, ledger)

Next == \E s \in Store :
    \/ StoreStep(s)
    \/ \E r \in Remote : BeginPublish(s, r)
    \/ PublishStep(s)
    \/ Crash(s) \/ PowerLoss(s)

Spec == Init /\ [][Next]_vars

\* A run cut short, as opposed to one that ends with a report or an error.
Interruption(s) ==
    pc[s] # "idle" /\ (Crash(s) \/ PowerLoss(s)) /\ ~Refuse(s) /\ ~FinishUnchanged(s)

\* A publisher that is not interrupted goes on, the owner of a store keeps
\* coming back to publish, and some runs are left in peace: the interruptions,
\* however many, are not there for ever.
FairSpec ==
    /\ Spec
    /\ \A s \in Store :
          /\ WF_vars(PublishStep(s))
          /\ \A r \in Remote : SF_vars(BeginPublish(s, r))
    /\ <>[][\A s \in Store : ~Interruption(s)]_vars

----------------------------------------------------------------------------
(* Safety.                                                                 *)

Phase == {"idle", "name", "naming", "tip", "reconcile", "compare", "content",
          "damaged", "save", "claim", "mark", "fill", "settle"}

\* Every variable holds a value of its kind.
TypeOK ==
    /\ live \subseteq Store
    /\ claims \in [Store -> Ledger]
    /\ writer \in [Store -> Writer]
    /\ last_ref \in [Store -> [Remote -> Ref]]
    /\ pending \in [Store -> [Remote -> Ref]]
    /\ minted \in Ledger
    /\ ids \subseteq Writer
    /\ loose \in [Store -> Ledger]
    /\ lost \in [Store -> Ledger]
    /\ pc \in [Store -> Phase]
    /\ at \in [Store -> Remote]
    /\ tip \in [Store -> Ref]
    /\ captured \in [Store -> Ledger]
    /\ settling \in [Store -> BOOLEAN]
    /\ named \in [Remote -> {"absent", "reserved", "full"}]
    /\ refs \in [Remote -> [Writer -> SUBSET Ref]]
    /\ marked \in [Remote -> [Writer -> SUBSET Ref]]
    /\ blank \in [Remote -> [Writer -> SUBSET Nat]]
    /\ packs \in [Remote -> SUBSET [root : Ledger, prior : SUBSET Ledger]]
    /\ blobs \in [Remote -> Ledger]

\* However many copies of a store race with one writer ID, the refs of that
\* writer on a remote form one line: each continues the ref in the slot before
\* it, and no slot ever had two (the chain check of latest_ref never fails).
OneChain ==
    \A r \in Remote, w \in Writer : \A h \in refs[r][w] :
        /\ h # None
        /\ Front(h) \in refs[r][w] \cup {None}
        /\ \A g \in refs[r][w] : Len(g) = Len(h) => g = h

\* A reservation is never overtaken: refs_for may drop an incomplete last slot,
\* and never has to report an incomplete slot in the middle of a chain.
ReservedAhead ==
    \A r \in Remote, w \in Writer :
        /\ \A h \in refs[r][w] :
              /\ \A n \in blank[r][w] : Len(h) < n
              /\ \A g \in marked[r][w] : Len(h) < Len(g)
        /\ \A g \in marked[r][w] :
              Front(g) \in refs[r][w] \cup {None} /\ Len(g) \notin blank[r][w]

\* A ref appears only after everything it needs: whenever a remote is read, the
\* packs each complete ref lists, the content its claims name, and the claims
\* its claims refer to, are all there.
SelfContained ==
    \A r \in Remote, w \in Writer : \A h \in refs[r][w] :
        /\ PacksOf(h) \subseteq packs[r]
        /\ ContentOf(Root(h)) \subseteq blobs[r]
        /\ Closed(Root(h))

\* A later checkpoint of a writer never drops a claim of an earlier one, not
\* even when a store whose logs lag behind its writer.json takes over.
NothingDropped ==
    \A r \in Remote, w \in Writer : \A h \in refs[r][w] :
        Root(Front(h)) \subseteq Root(h) /\ (Front(h) # None => Root(Front(h)) # Root(h))

\* The ref in writer.json is really published by this store's writer, and a ref
\* waiting there continues it: `pending writer ref does not match local state'
\* is never reported, and a fork inherits nothing from its former writer.
StateMatchesRemote ==
    \A s \in live, r \in Remote :
        /\ last_ref[s][r] \in refs[r][writer[s]] \cup {None}
        /\ pending[s][r] # None => Front(pending[s][r]) = last_ref[s][r]

\* Only a store that published (or adopted) the whole chain continues it: the
\* one whose record lags, because a copy of it went on, adds nothing to it.
NoBraid ==
    [][\A r \in Remote, w \in Writer : \A h \in refs'[r][w] \ refs[r][w] :
          \E s \in live : /\ writer[s] = w /\ pending[s][r] = h
                          /\ last_ref[s][r] = Front(h)
                          /\ \A g \in refs[r][w] : Len(g) < Len(h)]_vars

\* What is wrong with a store, or with a name on its remote, when publishing is
\* refused for it: a log or content found damaged, claims that were published
\* and then lost in a power failure before anyone had synced them, and a
\* remote.json or a slot that somebody reserved and has not filled.
Damaged(s) ==
    \/ pc[s] = "damaged"
    \/ pc[s] = "compare" /\ Root(tip[s]) \cap lost[s] # {}
    \/ pc[s] = "name" /\ named[at[s]] = "reserved"
    \/ pc[s] = "claim" /\ Len(Pending(s)) \in blank[at[s]][writer[s]]

\* Publishing from a store that nobody ever copied is refused only for damage:
\* whatever crashes, power failures, forks and recoveries there were, and on
\* however many remotes, its chain is readable and nobody else's, writer.json
\* agrees with it, its packs are there, and each claim published that the logs
\* lack was lost in a power failure.
RefusedOnlyForDamage ==
    CopyTarget = {} => \A s \in live : Refused(s) => Damaged(s)

----------------------------------------------------------------------------
(* Liveness.                                                               *)

\* What no retry can overcome: a copy of the store has taken the slot or gone
\* on with the chain, or a reservation that names no ref sits in the slot.
SlotLost(s, r, h) ==
    \/ \E g \in refs[r][writer[s]] : Len(g) >= Len(h) /\ g # h
    \/ \E g \in marked[r][writer[s]] : Len(g) = Len(h) /\ g # h
    \/ Len(h) \in blank[r][writer[s]]

\* A ref that a run left pending is settled by later runs: adopted if the remote
\* has it, published now if it has not, unless its slot is lost for good.
PendingSettles ==
    \A s \in Store, r \in Remote :
        [](pending[s][r] # None =>
              <>(pending[s][r] = None \/ SlotLost(s, r, pending[s][r])))
=============================================================================
