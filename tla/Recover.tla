------------------------------ MODULE Recover ------------------------------
(***************************************************************************)
(* Recovering a working store from a remote (replica.rs recover, Stage)    *)
(* while stores keep publishing to it.                                     *)
(*                                                                         *)
(* A recovery reads the writers one after the other, without any lock, and *)
(* stages the union of their latest ledgers beside the target directory.   *)
(* The target appears by a rename of the stage, so a recovery that fails   *)
(* leaves no store behind, and a store found there first wins.             *)
(***************************************************************************)
EXTENDS Publish

VARIABLES
    reading,    \* directory -> whether a recovery into it is under way
    source,     \* directory -> the remote it reads
    todo,       \* directory -> writers still to be read
    heads,      \* directory -> the latest refs read so far
    wanted      \* directory -> what the remote held when the recovery began
                \* (a history variable: no step depends on it)

recoverVars == <<reading, source, todo, heads, wanted>>
allVars == <<vars, recoverVars>>

----------------------------------------------------------------------------

\* The claims a writer has on a remote, and all claims there.
PublishedBy(r, w) == UNION {Root(h) : h \in refs[r][w]}
Published(r) == UNION {PublishedBy(r, w) : w \in Writer}

\* Only the writers with the longest chains.
Writers_Longest(r) ==
    {w \in Writer : \A v \in Writer : \A h \in refs[r][v] :
        \E g \in refs[r][w] : Len(g) >= Len(h)}

\* remote.writers(): a writer's directory appears with its first slot.
Writers(r) ==
    {w \in Writer : refs[r][w] # {} \/ marked[r][w] # {} \/ blank[r][w] # {}}

\* The union of the ledgers read.
Union(t) == UNION {Root(h) : h \in heads[t]}

\* What recover verifies: every pack loads, the claims of every document fold,
\* and the bytes of every version are there.
Verifies(t) ==
    /\ \A h \in heads[t] : PacksOf(h) \subseteq packs[source[t]]
    /\ Closed(Union(t))
    /\ ContentOf(Union(t)) \subseteq blobs[source[t]]

RecoverInit ==
    /\ Init
    /\ reading = [t \in Store |-> FALSE]
    /\ source = at
    /\ todo = [t \in Store |-> {}]
    /\ heads = [t \in Store |-> {}]
    /\ wanted = [t \in Store |-> {}]

\* The target does not exist; list the writers.
BeginRecover(t, r) ==
    /\ t \notin live /\ ~reading[t]
    /\ reading' = [reading EXCEPT ![t] = TRUE]
    /\ source' = [source EXCEPT ![t] = r]
    /\ todo' = [todo EXCEPT ![t] = Writers(r)]
    /\ wanted' = [wanted EXCEPT ![t] = Published(r)]
    /\ UNCHANGED <<heads, vars>>

\* latest_ref of the next writer; a writer with no complete ref adds nothing.
ReadWriter(t, w) ==
    /\ reading[t] /\ w \in todo[t]
    /\ Readable(source[t], w)
    /\ todo' = [todo EXCEPT ![t] = @ \ {w}]
    /\ \E h \in refs[source[t]][w] \cup {None} :
          /\ IsTip(source[t], w, h)
          /\ heads' = [heads EXCEPT ![t] = @ \cup ({h} \ {None})]
    /\ UNCHANGED <<reading, source, wanted, vars>>

\* Forget the recovery.
EndRecover(t) ==
    /\ reading' = [reading EXCEPT ![t] = FALSE]
    /\ todo' = [todo EXCEPT ![t] = {}]
    /\ heads' = [heads EXCEPT ![t] = {}]
    /\ wanted' = [wanted EXCEPT ![t] = {}]
    /\ UNCHANGED source

\* The staged store verifies and nothing has appeared at the target.
CanInstall(t) == heads[t] # {} /\ Verifies(t) /\ t \notin live

\* A store stands in directory t, with this ledger, a fresh writer ID, and no
\* memory of any remote.
Found(t, w, ledger) ==
    /\ w \notin ids
    /\ live' = live \cup {t}
    /\ claims' = [claims EXCEPT ![t] = ledger]
    /\ writer' = [writer EXCEPT ![t] = w]
    /\ ids' = ids \cup {w}
    /\ last_ref' = [last_ref EXCEPT ![t] = [r \in Remote |-> None]]
    /\ pending' = [pending EXCEPT ![t] = [r \in Remote |-> None]]
    /\ UNCHANGED <<minted, durableVars, processVars, remoteVars>>

\* Somebody starts a new store in the directory, even while a recovery into it
\* is under way.
NewStore(t, w) ==
    /\ t \notin live
    /\ Found(t, w, {})
    /\ UNCHANGED recoverVars

\* The staged store, given its writer ID by its first log append, is renamed
\* onto the target.
Install(t, w) ==
    /\ reading[t] /\ todo[t] = {}
    /\ CanInstall(t)
    /\ Found(t, w, Union(t))
    /\ EndRecover(t)

\* An error, a crash, an empty remote, a target that appeared meanwhile: the
\* stage is removed or left unused.
AbandonRecover(t) ==
    /\ reading[t]
    /\ EndRecover(t)
    /\ UNCHANGED vars

RecoverStep(t) ==
    \/ \E r \in Remote : BeginRecover(t, r)
    \/ \E w \in Writer : NewStore(t, w) \/ ReadWriter(t, w) \/ Install(t, w)
    \/ AbandonRecover(t)

RecoverNext ==
    \/ Next /\ UNCHANGED recoverVars
    \/ \E t \in Store : RecoverStep(t)

RecoverSpec == RecoverInit /\ [][RecoverNext]_allVars

----------------------------------------------------------------------------

RecoverTypeOK ==
    /\ TypeOK
    /\ reading \in [Store -> BOOLEAN]
    /\ source \in [Store -> Remote]
    /\ todo \in [Store -> SUBSET Writer]
    /\ heads \in [Store -> SUBSET Ref]
    /\ wanted \in [Store -> Ledger]

\* A recovery that has read every writer never finds the remote incomplete: no
\* interleaving with publishers, and no publisher's crash, makes recover report
\* a missing pack, a missing blob or a document that does not fold.
NeverIncomplete == \A t \in Store : reading[t] => Verifies(t)

\* Publishing and recovering implement a backup: checkpoints that take effect
\* at once and only grow, and recoveries that bring back at least all that was
\* published when they began.
Abstract == INSTANCE Backup WITH
    written <- minted,
    held <- claims,
    archive <- [r \in Remote |-> [w \in Writer |-> PublishedBy(r, w)]]

IsBackup == Abstract!Spec
=============================================================================
