------------------------------- MODULE Index -------------------------------
(***************************************************************************)
(* The search database .transfs/index.db (index.rs) as the commands of     *)
(* main.rs share it: each opens it anew, makes or upgrades it if it must,  *)
(* and writes one document's rows, or all of them.                         *)
(*                                                                         *)
(* The database is derived from the logs.  Commands hold the store lock    *)
(* while they append and no lock of their own while they index: SQLite's   *)
(* write lock is all that orders them.  A writer waits for it five         *)
(* seconds, then its command fails, and its claims stay.                   *)
(*                                                                         *)
(* Simplifications:                                                        *)
(*  - the rows of a document are the number of claims they were folded     *)
(*    from, 0 for none; what the rows say is module Mount's subject;       *)
(*  - the seven tables are dropped, and made, in one step;                 *)
(*  - an append is one step (module Log takes it apart).                   *)
(***************************************************************************)
EXTENDS Naturals

CONSTANTS
    Doc,        \* documents
    Proc,       \* processes, each running one command after another
    None,       \* neither a process nor a document
    Fragile,    \* documents whose log may come to harm
    MaxClaims   \* document -> how many claims its log may get

ASSUME IndexAssumption ==
    /\ None \notin Proc /\ None \notin Doc
    /\ Fragile \subseteq Doc
    /\ MaxClaims \in [Doc -> Nat]

VARIABLES
    logs,       \* document -> how many claims its log holds
    damaged,    \* documents whose log cannot be read or folded
    version,    \* user_version: no file, a schema before 4, or schema 4
    tables,     \* whether the tables exist
    rows,       \* document -> the claims that its committed rows reflect
    holder,     \* the process in a write transaction that takes several steps
    tx,         \* the rows in that transaction
    unread,     \* documents it still has to read
    rejected,   \* whether rebuild_errors is not empty
    pc,         \* process -> where its command stands
    cmd,        \* process -> the command
    doc,        \* process -> the document an edit is about, or None
    loaded,     \* process -> how many claims the Document it loaded reflects
    existed,    \* process -> whether it found index.db there
    below,      \* process -> whether the version it read first was below 4
    opened,     \* process -> whether Index::open has returned
    since,      \* what the logs held when the rebuild of holder began
    excused     \* documents whose rows may lag behind though nobody is at work
                \* (since and excused are history: no step depends on them)

dbVars == <<version, tables, rows>>
txVars == <<tx, unread, rejected, since>>
callVars == <<cmd, doc, loaded, existed, below, opened>>
vars == <<logs, damaged, dbVars, holder, txVars, pc, callVars, excused>>

NoRows == [d \in Doc |-> 0]

\* A command that loaded a Document for which claims have come since.
Lags(p) == loaded[p] < logs[doc[p]]

Editing(p, d) == doc[p] = d

\* An Index::open that may have dropped the tables and has not rebuilt them.
Remaking(p) ==
    /\ pc[p] \in {"drop", "create", "rebuild", "read"}
    /\ ~opened[p] /\ below[p]

----------------------------------------------------------------------------

Init ==
    /\ logs = NoRows /\ damaged = {}
    /\ version \in {"none", "old"} /\ tables = (version = "old")
    /\ rows = NoRows
    /\ holder = None
    /\ tx = NoRows /\ unread = {} /\ rejected = FALSE /\ since = NoRows
    /\ pc = [p \in Proc |-> "idle"]
    /\ cmd = [p \in Proc |-> "list"]
    /\ doc = [p \in Proc |-> None]
    /\ loaded = [p \in Proc |-> 0]
    /\ existed = [p \in Proc |-> FALSE]
    /\ below = [p \in Proc |-> FALSE]
    /\ opened = [p \in Proc |-> FALSE]
    /\ excused = {}

Goto(p, label) == pc' = [pc EXCEPT ![p] = label]

\* Writing while another process is in a transaction.
WriteLock_Ignored(p) == TRUE

\* No other process is in a write transaction.
WriteLock(p) == holder \in {None, p}

----------------------------------------------------------------------------
(* The commands.                                                           *)

\* append_and_load: append under the store lock.
AppendClaim(p, d) ==
    /\ pc[p] = "idle"
    /\ d \notin damaged /\ logs[d] < MaxClaims[d]
    /\ logs' = [logs EXCEPT ![d] = @ + 1]
    /\ cmd' = [cmd EXCEPT ![p] = "edit"]
    /\ doc' = [doc EXCEPT ![p] = d]
    /\ Goto(p, "load")
    /\ UNCHANGED <<damaged, dbVars, holder, txVars, loaded, existed, below, opened, excused>>

\* append_and_load: Document::load, after the lock was released.
LoadDocument(p) ==
    /\ pc[p] = "load" /\ doc[p] \notin damaged
    /\ loaded' = [loaded EXCEPT ![p] = logs[doc[p]]]
    /\ Goto(p, "open")
    /\ UNCHANGED <<logs, damaged, dbVars, holder, txVars, cmd, doc, existed, below, opened, excused>>

\* reindex, and recover once the store stands; list, find and mount.
Start(p, c) ==
    /\ pc[p] = "idle"
    /\ cmd' = [cmd EXCEPT ![p] = c]
    /\ Goto(p, "open")
    /\ UNCHANGED <<logs, damaged, dbVars, holder, txVars, doc, loaded, existed, below, opened, excused>>

\* The command returns.
End(p) ==
    /\ Goto(p, "idle")
    /\ cmd' = [cmd EXCEPT ![p] = "list"]
    /\ doc' = [doc EXCEPT ![p] = None]
    /\ loaded' = [loaded EXCEPT ![p] = 0]
    /\ existed' = [existed EXCEPT ![p] = FALSE]
    /\ below' = [below EXCEPT ![p] = FALSE]
    /\ opened' = [opened EXCEPT ![p] = FALSE]

\* The transaction ends; SQLite gives its lock free.
EndTx ==
    /\ holder' = None
    /\ tx' = NoRows /\ unread' = {} /\ rejected' = FALSE /\ since' = NoRows

\* What the rows of a command that fails are excused for.
ExcusedBy(p) ==
    IF Remaking(p) THEN Doc
    ELSE {doc[p]} \ {None}

\* The command fails at any point: an error, or the process dies.  An open
\* transaction is rolled back.
Fail(p) ==
    /\ pc[p] # "idle"
    /\ End(p)
    /\ excused' = excused \cup ExcusedBy(p)
    /\ IF holder = p THEN EndTx ELSE UNCHANGED <<holder, txVars>>
    /\ UNCHANGED <<logs, damaged, dbVars>>

----------------------------------------------------------------------------
(* Index::open.                                                            *)

\* db_path.exists()
FindFile(p) ==
    /\ pc[p] = "open"
    /\ existed' = [existed EXCEPT ![p] = version # "none"]
    /\ Goto(p, "connect")
    /\ UNCHANGED <<logs, damaged, dbVars, holder, txVars, cmd, doc, loaded, below, opened, excused>>

\* Connection::open, which makes the file, and the first read of user_version.
Connect(p) ==
    /\ pc[p] = "connect"
    /\ version' = IF version = "none" THEN "old" ELSE version
    /\ below' = [below EXCEPT ![p] = version # "current"]
    /\ Goto(p, "ensure")
    /\ UNCHANGED <<logs, damaged, tables, rows, holder, txVars, cmd, doc, loaded, existed, opened, excused>>

\* ensure_schema reads user_version again.
ReadVersion(p) ==
    /\ pc[p] = "ensure"
    /\ Goto(p, IF version = "current" THEN "create" ELSE "drop")
    /\ UNCHANGED <<logs, damaged, dbVars, holder, txVars, callVars, excused>>

DropTables(p) ==
    /\ pc[p] = "drop" /\ WriteLock(p)
    /\ tables' = FALSE /\ rows' = NoRows
    /\ Goto(p, "create")
    /\ UNCHANGED <<logs, damaged, version, holder, txVars, callVars, excused>>

\* open marks the schema as current before it rebuilds.
AfterSchema_MarkFirst(p) == IF ~existed[p] \/ below[p] THEN "mark" ELSE "use"

\* open rebuilds an index that it did not find or that was too old.
AfterSchema(p) == IF ~existed[p] \/ below[p] THEN "rebuild" ELSE "use"

\* open returns.
Opened(p) ==
    /\ opened' = [opened EXCEPT ![p] = TRUE]
    /\ existed' = [existed EXCEPT ![p] = FALSE]
    /\ below' = [below EXCEPT ![p] = FALSE]
    /\ UNCHANGED <<cmd, doc, loaded>>

\* CREATE TABLE IF NOT EXISTS writes nothing when the tables are there.
CreateTables(p) ==
    /\ pc[p] = "create" /\ (tables \/ WriteLock(p))
    /\ tables' = TRUE
    /\ Goto(p, AfterSchema(p))
    /\ IF AfterSchema(p) = "use" THEN Opened(p) ELSE UNCHANGED callVars
    /\ UNCHANGED <<logs, damaged, version, rows, holder, txVars, excused>>

\* PRAGMA user_version=4, and open returns.
MarkCurrent(p) ==
    /\ pc[p] = "mark" /\ WriteLock(p)
    /\ version' = "current"
    /\ Opened(p)
    /\ Goto(p, "use")
    /\ UNCHANGED <<logs, damaged, tables, rows, holder, txVars, excused>>

----------------------------------------------------------------------------
(* rebuild, by open or by reindex.                                         *)

\* The first DELETE takes the write lock; then the logs are listed.
BeginRebuild(p) ==
    /\ pc[p] = "rebuild" /\ tables /\ WriteLock(p)
    /\ holder' = p
    /\ tx' = NoRows /\ unread' = {d \in Doc : logs[d] > 0}
    /\ rejected' = FALSE /\ since' = logs
    /\ Goto(p, "read")
    /\ UNCHANGED <<logs, damaged, dbVars, callVars, excused>>

\* Read one log without the store lock, fold it, and insert its rows.
ReadLog(p, d) ==
    /\ pc[p] = "read" /\ d \in unread
    /\ unread' = unread \ {d}
    /\ IF d \in damaged THEN rejected' = TRUE /\ UNCHANGED tx
       ELSE tx' = [tx EXCEPT ![d] = logs[d]] /\ UNCHANGED rejected
    /\ UNCHANGED <<logs, damaged, dbVars, holder, since, pc, callVars, excused>>

\* Committing what could be read.
MayCommit_Always == TRUE

MayCommit == ~rejected

\* Commit; the rows now reflect all that was in the logs when it began.
CommitRebuild(p) ==
    /\ pc[p] = "read" /\ unread = {} /\ MayCommit
    /\ rows' = tx
    /\ excused' = {d \in excused : logs[d] > since[d]}
    /\ EndTx
    /\ IF opened[p] THEN End(p) ELSE Goto(p, "mark") /\ UNCHANGED callVars
    /\ UNCHANGED <<logs, damaged, version, tables>>

\* Roll back, and report the logs that were rejected: open and reindex fail.
RollBack(p) ==
    /\ pc[p] = "read" /\ unread = {} /\ ~MayCommit
    /\ Fail(p)

----------------------------------------------------------------------------
(* The work on an open index.                                              *)

\* index_document: one transaction replaces the document's rows.
IndexDocument(p) ==
    /\ pc[p] = "use" /\ cmd[p] = "edit"
    /\ tables /\ WriteLock(p)
    /\ rows' = [rows EXCEPT ![doc[p]] = loaded[p]]
    /\ excused' = IF Lags(p) THEN excused \cup {doc[p]} ELSE excused \ {doc[p]}
    /\ End(p)
    /\ UNCHANGED <<logs, damaged, version, tables, holder, txVars>>

\* reindex rebuilds once more.
Reindex(p) ==
    /\ pc[p] = "use" /\ cmd[p] = "reindex"
    /\ Goto(p, "rebuild")
    /\ UNCHANGED <<logs, damaged, dbVars, holder, txVars, callVars, excused>>

\* A query only reads.
Query(p) ==
    /\ pc[p] = "use" /\ cmd[p] = "list" /\ tables
    /\ End(p)
    /\ UNCHANGED <<logs, damaged, dbVars, holder, txVars, excused>>

\* Waiting for ever.
TimesOut_Never(p) == FALSE

\* The busy timeout is over while somebody else is writing.
TimesOut(p) == holder \notin {None, p}

\* The errors of a command that keeps running: the log it appended to does not
\* load, the tables are gone, or it waited too long for the write lock.
Error(p) ==
    /\ \/ pc[p] = "load" /\ doc[p] \in damaged
       \/ pc[p] \in {"rebuild", "use"} /\ ~tables
       \/ pc[p] \in {"drop", "create", "mark", "rebuild", "use"} /\ TimesOut(p)
    /\ Fail(p)

----------------------------------------------------------------------------
(* The user's part.                                                        *)

\* A log is damaged, or put right again.
Damage(d) ==
    /\ d \in Fragile /\ logs[d] > 0
    /\ damaged' = IF d \in damaged THEN damaged \ {d} ELSE damaged \cup {d}
    /\ UNCHANGED <<logs, dbVars, holder, txVars, pc, callVars, excused>>

\* Somebody deletes the database while no command runs.
Lose ==
    /\ \A p \in Proc : pc[p] = "idle"
    /\ version' = "none" /\ tables' = FALSE /\ rows' = NoRows
    /\ UNCHANGED <<logs, damaged, holder, txVars, pc, callVars, excused>>

OpenStep(p) ==
    \/ FindFile(p) \/ Connect(p) \/ ReadVersion(p) \/ DropTables(p)
    \/ CreateTables(p) \/ MarkCurrent(p)

RebuildStep(p) ==
    \/ BeginRebuild(p) \/ (\E d \in Doc : ReadLog(p, d))
    \/ CommitRebuild(p) \/ RollBack(p)

\* The steps of a command that keeps running.
Step(p) ==
    \/ LoadDocument(p) \/ OpenStep(p) \/ RebuildStep(p)
    \/ IndexDocument(p) \/ Reindex(p) \/ Query(p) \/ Error(p)

Begin(p) ==
    \/ \E d \in Doc : AppendClaim(p, d)
    \/ \E c \in {"reindex", "list"} : Start(p, c)

Next ==
    \/ \E p \in Proc : Begin(p) \/ Step(p) \/ Fail(p)
    \/ \E d \in Doc : Damage(d)
    \/ Lose

\* A command that was started is run; nobody has to start one, or to fail.
Spec == Init /\ [][Next]_vars /\ \A p \in Proc : WF_vars(Step(p))

----------------------------------------------------------------------------

\* Every variable holds a value of its kind, and only a rebuild holds the lock.
TypeOK ==
    /\ logs \in [Doc -> Nat] /\ damaged \subseteq Doc
    /\ version \in {"none", "old", "current"} /\ tables \in BOOLEAN
    /\ rows \in [Doc -> Nat]
    /\ holder \in Proc \cup {None}
    /\ \A p \in Proc : pc[p] = "read" <=> holder = p
    /\ tx \in [Doc -> Nat] /\ unread \subseteq Doc /\ rejected \in BOOLEAN
    /\ pc \in [Proc -> {"idle", "load", "open", "connect", "ensure", "drop", "create",
                        "rebuild", "read", "mark", "use"}]
    /\ cmd \in [Proc -> {"edit", "reindex", "list"}]
    /\ doc \in [Proc -> Doc \cup {None}]
    /\ \A p \in Proc : cmd[p] = "edit" <=> doc[p] # None
    /\ loaded \in [Proc -> Nat]
    /\ existed \in [Proc -> BOOLEAN] /\ below \in [Proc -> BOOLEAN]
    /\ opened \in [Proc -> BOOLEAN]
    /\ since \in [Doc -> Nat] /\ excused \subseteq Doc

\* A running command will bring the rows of d up to date, if it does not fail.
BeingEdited(d) ==
    \E p \in Proc : Editing(p, d) /\ (pc[p] = "load" \/ loaded[p] = logs[d])

\* Documents that nothing excuses have rows that reflect their logs, or will.
Accounted ==
    \A d \in Doc \ excused :
        rows[d] = logs[d] \/ BeingEdited(d) \/ \E p \in Proc : Remaking(p)

\* An index that calls itself current reflects all claims of every document,
\* but for those that a running command has still to index, and the excused:
\* its last command failed between append and index, or had loaded it before
\* another appended to it, or an upgrade was interrupted after it had dropped
\* the tables that somebody else had filled and marked.  A reindex ends every
\* excuse that is older than itself.
StaleIsExcused == version = "current" => Accounted

\* A rebuild, whether it commits, is rejected or dies, leaves no document's
\* rows older than it found them, whatever is appended and indexed meanwhile.
RebuildNeverSetsBack ==
    [][\A p \in Proc : pc[p] = "read" /\ pc'[p] # "read" =>
          \A d \in Doc : rows'[d] >= rows[d]]_vars

\* Every command ends: whoever waits for the write lock gets it or gives up.
EveryCommandEnds == \A p \in Proc : pc[p] # "idle" ~> pc[p] = "idle"
=============================================================================
