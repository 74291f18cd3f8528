---------------------------- MODULE IndexProofs ----------------------------
(***************************************************************************)
(* Proofs about Index: its type invariant, StaleIsExcused and              *)
(* RebuildNeverSetsBack, for any documents, any processes and any number   *)
(* of claims.                                                              *)
(*                                                                         *)
(* The argument: what a rebuild commits is at least what the logs held     *)
(* when it took SQLite's write lock, and nobody else writes rows before it *)
(* gives that lock up; what was appended since is the business of a        *)
(* command that has still to index it, or whose failure is excused.  A     *)
(* command that drops the tables had read a version below 4 before, and    *)
(* so rebuilds them, or its failure is excused.                            *)
(***************************************************************************)
EXTENDS Index, TLAPS

\* What the phase of a command says of its other variables.
PhaseOk(p) ==
    /\ pc[p] = "idle" => doc[p] = None
    /\ pc[p] = "load" => doc[p] # None
    /\ pc[p] \in {"idle", "load", "open", "connect", "ensure", "drop", "create", "mark"}
          => ~opened[p]
    /\ pc[p] = "ensure" /\ ~below[p] => version = "current"
    /\ pc[p] = "drop" => below[p]
    /\ pc[p] \in {"rebuild", "read"} /\ opened[p] => doc[p] = None
    /\ doc[p] # None /\ pc[p] # "load" => loaded[p] <= logs[doc[p]]

Phases == \A p \in Proc : PhaseOk(p)

\* No row is ahead of its log.
Bounded == \A d \in Doc : rows[d] <= logs[d]

\* What the transaction of a rebuild holds of document d.
RebuildOk(d) ==
    /\ rows[d] <= since[d] /\ since[d] <= logs[d]
    /\ tx[d] <= logs[d]
    /\ d \in unread \/ rejected \/ since[d] <= tx[d]
    /\ since[d] = logs[d] \/ d \in excused \/ BeingEdited(d)

Rebuilding == holder # None => \A d \in Doc : RebuildOk(d)

\* The account is kept from the commit of the rebuild on, before the mark.
Accountable ==
    version = "current" \/ (\E p \in Proc : pc[p] = "mark") => Accounted

Inductive == TypeOK /\ Phases /\ Bounded /\ Rebuilding /\ Accountable

----------------------------------------------------------------------------

\* Nothing is appended yet, and nobody is at work.
LEMMA InitInductive == Init => Inductive
<1> SUFFICES ASSUME Init PROVE Inductive
    OBVIOUS
<1>1. TypeOK
    <2>1. \A p \in Proc : pc[p] = "read" <=> holder = p
        BY IndexAssumption DEF Init
    <2>2. tables \in BOOLEAN
        BY DEF Init
    <2> QED
        BY <2>1, <2>2, IndexAssumption DEF Init, TypeOK, NoRows
<1>2. Phases
    BY DEF Init, Phases, PhaseOk
<1>3. Bounded
    <2>1. rows = NoRows /\ logs = NoRows
        BY DEF Init
    <2> QED
        BY <1>1, <2>1 DEF TypeOK, Bounded
<1>4. Rebuilding
    BY DEF Init, Rebuilding
<1>5. Accountable
    BY DEF Init, Accountable
<1> QED
    BY <1>1, <1>2, <1>3, <1>4, <1>5 DEF Inductive

\* What is appended is for its command to index.
LEMMA AppendClaimStep ==
    ASSUME Inductive, NEW p \in Proc, NEW d \in Doc, AppendClaim(p, d)
    PROVE  Inductive'
<1> USE IndexAssumption DEF Inductive, AppendClaim, Goto, dbVars, txVars,
        callVars
<1>1. TypeOK'
    BY DEF TypeOK
<1>2. Phases'
    BY DEF TypeOK, Phases, PhaseOk
<1>3. Bounded'
    BY DEF TypeOK, Bounded
<1>4. Rebuilding'
    BY DEF TypeOK, Bounded, Phases, PhaseOk, Rebuilding, RebuildOk,
           BeingEdited, Editing
<1>5. Accountable'
    BY DEF TypeOK, Phases, PhaseOk, Accountable, Accounted, BeingEdited,
           Editing, Remaking
<1> QED
    BY <1>1, <1>2, <1>3, <1>4, <1>5

\* The loaded Document has the claims appended so far.
LEMMA LoadDocumentStep ==
    ASSUME Inductive, NEW p \in Proc, LoadDocument(p)
    PROVE  Inductive'
<1> USE IndexAssumption DEF Inductive, LoadDocument, Goto, dbVars, txVars,
        callVars
<1>1. TypeOK'
    BY DEF TypeOK, Phases, PhaseOk
<1>2. Phases'
    BY DEF TypeOK, Phases, PhaseOk
<1>3. Bounded'
    BY DEF Bounded
<1>4. Rebuilding'
    BY DEF TypeOK, Rebuilding, RebuildOk, BeingEdited, Editing
<1>5. Accountable'
    BY DEF TypeOK, Accountable, Accounted, BeingEdited, Editing, Remaking
<1> QED
    BY <1>1, <1>2, <1>3, <1>4, <1>5

\* A command without a document.
LEMMA StartStep ==
    ASSUME Inductive, NEW p \in Proc, NEW c \in {"reindex", "list"}, Start(p, c)
    PROVE  Inductive'
<1> USE IndexAssumption DEF Inductive, Start, Goto, dbVars, txVars, callVars
<1>1. TypeOK'
    BY DEF TypeOK, Phases, PhaseOk
<1>2. Phases'
    BY DEF Phases, PhaseOk
<1>3. Bounded'
    BY DEF Bounded
<1>4. Rebuilding'
    BY DEF Rebuilding, RebuildOk, BeingEdited, Editing
<1>5. Accountable'
    BY DEF Accountable, Accounted, BeingEdited, Editing, Remaking
<1> QED
    BY <1>1, <1>2, <1>3, <1>4, <1>5

\* Whatever a failing command leaves undone is excused.
LEMMA FailStep ==
    ASSUME Inductive, NEW p \in Proc, Fail(p)
    PROVE  Inductive'
<1> USE IndexAssumption DEF Inductive, Fail, Goto, dbVars, txVars, callVars,
        End, EndTx, ExcusedBy, Remaking, NoRows
<1>1. TypeOK'
    <2>1. /\ holder' \in Proc \cup {None}
          /\ \A q \in Proc : pc'[q] = "read" <=> holder' = q
        BY DEF TypeOK
    <2>2. /\ cmd' \in [Proc -> {"edit", "reindex", "list"}]
          /\ doc' \in [Proc -> Doc \cup {None}]
          /\ \A q \in Proc : cmd'[q] = "edit" <=> doc'[q] # None
        BY DEF TypeOK
    <2>3. /\ existed' \in [Proc -> BOOLEAN] /\ below' \in [Proc -> BOOLEAN]
          /\ opened' \in [Proc -> BOOLEAN]
        BY DEF TypeOK
    <2>4. /\ tx' \in [Doc -> Nat] /\ unread' \subseteq Doc /\ since' \in [Doc -> Nat]
        BY DEF TypeOK
    <2>5. rejected' \in BOOLEAN
        BY DEF TypeOK
    <2>6. excused' \subseteq Doc
        BY DEF TypeOK
    <2>7. pc' \in [Proc -> {"idle", "load", "open", "connect", "ensure", "drop", "create",
                           "rebuild", "read", "mark", "use"}]
        BY DEF TypeOK
    <2>8. loaded' \in [Proc -> Nat]
        BY DEF TypeOK
    <2> QED
        BY <2>1, <2>2, <2>3, <2>4, <2>5, <2>6, <2>7, <2>8 DEF TypeOK
<1>2. Phases'
    BY DEF TypeOK, Phases, PhaseOk
<1>3. Bounded'
    BY DEF Bounded
<1>4. Rebuilding'
    BY DEF Rebuilding, RebuildOk, BeingEdited, Editing
<1>5. Accountable'
    BY DEF Accountable, Accounted, BeingEdited, Editing, Remaking
<1> QED
    BY <1>1, <1>2, <1>3, <1>4, <1>5

\* The steps of Index::open up to ensure_schema write no rows.
LEMMA FindFileStep ==
    ASSUME Inductive, NEW p \in Proc, FindFile(p)
    PROVE  Inductive'
<1> USE IndexAssumption DEF Inductive, FindFile, Goto, dbVars, txVars,
        callVars
<1>1. TypeOK'
    BY DEF TypeOK
<1>2. Phases'
    BY DEF Phases, PhaseOk
<1>3. Bounded'
    BY DEF Bounded
<1>4. Rebuilding'
    BY DEF Rebuilding, RebuildOk, BeingEdited, Editing
<1>5. Accountable'
    BY DEF Accountable, Accounted, BeingEdited, Editing, Remaking
<1> QED
    BY <1>1, <1>2, <1>3, <1>4, <1>5

\* The version read is below 4 unless the schema is current.
LEMMA ConnectStep ==
    ASSUME Inductive, NEW p \in Proc, Connect(p)
    PROVE  Inductive'
<1> USE IndexAssumption DEF Inductive, Connect, Goto, dbVars, txVars,
        callVars
<1>1. TypeOK'
    BY DEF TypeOK
<1>2. Phases'
    BY DEF TypeOK, Phases, PhaseOk
<1>3. Bounded'
    BY DEF Bounded
<1>4. Rebuilding'
    BY DEF Rebuilding, RebuildOk, BeingEdited, Editing
<1>5. Accountable'
    BY DEF Accountable, Accounted, BeingEdited, Editing, Remaking
<1> QED
    BY <1>1, <1>2, <1>3, <1>4, <1>5

\* Only a command that found a version below 4 drops tables: a current
\* schema never becomes an old one while a command runs.
LEMMA ReadVersionStep ==
    ASSUME Inductive, NEW p \in Proc, ReadVersion(p)
    PROVE  Inductive'
<1> USE IndexAssumption DEF Inductive, ReadVersion, Goto, dbVars, txVars,
        callVars
<1>1. TypeOK'
    BY DEF TypeOK
<1>2. Phases'
    BY DEF Phases, PhaseOk
<1>3. Bounded'
    BY DEF Bounded
<1>4. Rebuilding'
    BY DEF Rebuilding, RebuildOk, BeingEdited, Editing
<1>5. Accountable'
    BY DEF Accountable, Accounted, BeingEdited, Editing, Remaking
<1> QED
    BY <1>1, <1>2, <1>3, <1>4, <1>5

\* Whoever drops the tables will rebuild them.
LEMMA DropTablesStep ==
    ASSUME Inductive, NEW p \in Proc, DropTables(p)
    PROVE  Inductive'
<1> USE IndexAssumption DEF Inductive, DropTables, Goto, dbVars, txVars,
        callVars, WriteLock, NoRows, Remaking
<1>1. TypeOK'
    BY DEF TypeOK
<1>2. Phases'
    BY DEF Phases, PhaseOk
<1>3. Bounded'
    BY DEF TypeOK, Bounded
<1>4. Rebuilding'
    BY DEF TypeOK, Rebuilding, RebuildOk, BeingEdited, Editing
<1>5. Accountable'
    BY DEF TypeOK, Phases, PhaseOk, Accountable, Accounted, BeingEdited,
           Editing, Remaking
<1> QED
    BY <1>1, <1>2, <1>3, <1>4, <1>5

\* A command that dropped the tables goes on to rebuild them.
LEMMA CreateTablesStep ==
    ASSUME Inductive, NEW p \in Proc, CreateTables(p)
    PROVE  Inductive'
<1> USE IndexAssumption DEF Inductive, CreateTables, Goto, dbVars, txVars,
        callVars, AfterSchema, Opened
<1>1. TypeOK'
    <2>1. \/ UNCHANGED callVars
          \/ /\ opened' = [opened EXCEPT ![p] = TRUE]
             /\ existed' = [existed EXCEPT ![p] = FALSE]
             /\ below' = [below EXCEPT ![p] = FALSE]
             /\ UNCHANGED <<cmd, doc, loaded>>
        BY Zenon
    <2>2. /\ pc' \in [Proc -> {"idle", "load", "open", "connect", "ensure", "drop", "create",
                               "rebuild", "read", "mark", "use"}]
          /\ \A q \in Proc : pc'[q] = "read" <=> holder' = q
        BY DEF TypeOK
    <2>3. UNCHANGED <<logs, damaged, version, rows, holder, tx, unread, rejected, since, excused>>
        OBVIOUS
    <2>4. tables' \in BOOLEAN
        OBVIOUS
    <2>5. TypeOK
        BY Zenon DEF Inductive
    <2> HIDE DEF CreateTables, Goto, AfterSchema, Opened, Inductive
    <2>6. /\ existed' \in [Proc -> BOOLEAN] /\ below' \in [Proc -> BOOLEAN]
          /\ opened' \in [Proc -> BOOLEAN]
        BY <2>1, <2>5 DEF TypeOK
    <2>7. UNCHANGED <<cmd, doc, loaded>>
        BY <2>1
    <2> QED
        BY <2>2, <2>3, <2>4, <2>5, <2>6, <2>7 DEF TypeOK
<1>2. Phases'
    BY DEF TypeOK, Phases, PhaseOk
<1>3. Bounded'
    BY DEF Bounded
<1>4. Rebuilding'
    BY DEF Rebuilding, RebuildOk, BeingEdited, Editing
<1>5. Accountable'
    BY DEF TypeOK, Accountable, Accounted, BeingEdited, Editing, Remaking
<1> QED
    BY <1>1, <1>2, <1>3, <1>4, <1>5

\* The schema is marked when the account is kept already.
LEMMA MarkCurrentStep ==
    ASSUME Inductive, NEW p \in Proc, MarkCurrent(p)
    PROVE  Inductive'
<1> USE IndexAssumption DEF Inductive, MarkCurrent, Goto, dbVars, txVars,
        callVars, Opened
<1>1. TypeOK'
    BY DEF TypeOK
<1>2. Phases'
    BY DEF TypeOK, Phases, PhaseOk
<1>3. Bounded'
    BY DEF Bounded
<1>4. Rebuilding'
    BY DEF Rebuilding, RebuildOk, BeingEdited, Editing
<1>5. Accountable'
    BY DEF Accountable, Accounted, BeingEdited, Editing, Remaking
<1> QED
    BY <1>1, <1>2, <1>3, <1>4, <1>5

\* No log is ahead of what it was when the rebuild began.
LEMMA BeginRebuildStep ==
    ASSUME Inductive, NEW p \in Proc, BeginRebuild(p)
    PROVE  Inductive'
<1> USE IndexAssumption DEF Inductive, BeginRebuild, Goto, dbVars, txVars,
        callVars, WriteLock, NoRows
<1>1. TypeOK'
    BY DEF TypeOK
<1>2. Phases'
    BY DEF Phases, PhaseOk
<1>3. Bounded'
    BY DEF Bounded
<1>4. Rebuilding'
    BY DEF TypeOK, Bounded, Rebuilding, RebuildOk, BeingEdited, Editing
<1>5. Accountable'
    BY DEF Accountable, Accounted, BeingEdited, Editing, Remaking
<1> QED
    BY <1>1, <1>2, <1>3, <1>4, <1>5

\* A log read now has at least what it had when the rebuild began.
LEMMA ReadLogStep ==
    ASSUME Inductive, NEW p \in Proc, NEW d \in Doc, ReadLog(p, d)
    PROVE  Inductive'
<1> USE IndexAssumption DEF Inductive, ReadLog, Goto, dbVars, txVars,
        callVars
<1>1. TypeOK'
    <2>1. tx' \in [Doc -> Nat] /\ rejected' \in BOOLEAN
        <3>1. CASE d \in damaged
            BY <3>1 DEF TypeOK
        <3>2. CASE d \notin damaged
            BY <3>2 DEF TypeOK
        <3> QED
            BY <3>1, <3>2
    <2>2. unread' \subseteq Doc
        BY DEF TypeOK
    <2>3. UNCHANGED <<logs, damaged, version, tables, rows, holder, since, pc,
                      cmd, doc, loaded, existed, below, opened, excused>>
        OBVIOUS
    <2> HIDE DEF ReadLog
    <2> QED
        BY <2>1, <2>2, <2>3 DEF TypeOK
<1>2. Phases'
    BY DEF Phases, PhaseOk
<1>3. Bounded'
    BY DEF Bounded
<1>4. Rebuilding'
    BY DEF TypeOK, Rebuilding, RebuildOk, BeingEdited, Editing
<1>5. Accountable'
    BY DEF Accountable, Accounted, BeingEdited, Editing, Remaking
<1> QED
    BY <1>1, <1>2, <1>3, <1>4, <1>5

\* A flag of each process, lowered for one of them or left alone.
LEMMA Lowered ==
    ASSUME NEW p \in Proc, NEW f \in [Proc -> BOOLEAN], NEW g,
           g = f \/ g = [f EXCEPT ![p] = FALSE]
    PROVE  g \in [Proc -> BOOLEAN]
OBVIOUS

\* The rows committed reflect the logs, but for claims appended since.
LEMMA CommitRebuildStep ==
    ASSUME Inductive, NEW p \in Proc, CommitRebuild(p)
    PROVE  Inductive'
<1> USE IndexAssumption DEF Inductive, CommitRebuild, Goto, dbVars, txVars,
        callVars, MayCommit, EndTx, End, NoRows
<1>1. TypeOK'
    <2>1. /\ holder' \in Proc \cup {None}
          /\ \A q \in Proc : pc'[q] = "read" <=> holder' = q
        BY DEF TypeOK
    <2>2. /\ cmd' \in [Proc -> {"edit", "reindex", "list"}]
          /\ doc' \in [Proc -> Doc \cup {None}]
          /\ \A q \in Proc : cmd'[q] = "edit" <=> doc'[q] # None
        BY DEF TypeOK
    <2>3. /\ existed' \in [Proc -> BOOLEAN] /\ below' \in [Proc -> BOOLEAN]
          /\ opened' \in [Proc -> BOOLEAN]
        <3>1. /\ existed \in [Proc -> BOOLEAN] /\ below \in [Proc -> BOOLEAN]
              /\ opened \in [Proc -> BOOLEAN]
            BY Zenon DEF TypeOK
        <3>2. /\ existed' = existed \/ existed' = [existed EXCEPT ![p] = FALSE]
              /\ below' = below \/ below' = [below EXCEPT ![p] = FALSE]
              /\ opened' = opened \/ opened' = [opened EXCEPT ![p] = FALSE]
            BY Zenon
        <3> QED
            BY <3>1, <3>2, Lowered, Zenon
    <2>4. /\ tx' \in [Doc -> Nat] /\ unread' \subseteq Doc /\ since' \in [Doc -> Nat]
        <3>1. tx' = [d \in Doc |-> 0] /\ unread' = {} /\ since' = [d \in Doc |-> 0]
            OBVIOUS
        <3>2. [d \in Doc |-> 0] \in [Doc -> Nat]
            OBVIOUS
        <3> QED
            BY <3>1, <3>2, Zenon
    <2>5. rejected' \in BOOLEAN
        BY DEF TypeOK
    <2>6. excused' \subseteq Doc
        BY DEF TypeOK
    <2>7. pc' \in [Proc -> {"idle", "load", "open", "connect", "ensure", "drop", "create",
                           "rebuild", "read", "mark", "use"}]
        BY DEF TypeOK
    <2>8. loaded' \in [Proc -> Nat]
        BY DEF TypeOK
    <2> QED
        BY <2>1, <2>2, <2>3, <2>4, <2>5, <2>6, <2>7, <2>8 DEF TypeOK
<1>2. Phases'
    BY DEF TypeOK, Phases, PhaseOk
<1>3. Bounded'
    BY DEF TypeOK, Bounded, Rebuilding, RebuildOk
<1>4. Rebuilding'
    BY DEF Rebuilding
<1>5. Accountable'
    BY DEF TypeOK, Phases, PhaseOk, Rebuilding, RebuildOk, Accountable,
           Accounted, BeingEdited, Editing, Remaking
<1> QED
    BY <1>1, <1>2, <1>3, <1>4, <1>5

\* The rows of a document are those of the log, or it is excused.
LEMMA IndexDocumentStep ==
    ASSUME Inductive, NEW p \in Proc, IndexDocument(p)
    PROVE  Inductive'
<1> USE IndexAssumption DEF Inductive, IndexDocument, Goto, dbVars, txVars,
        callVars, WriteLock, Lags, End
<1>1. TypeOK'
    BY DEF TypeOK
<1>2. Phases'
    BY DEF TypeOK, Phases, PhaseOk
<1>3. Bounded'
    BY DEF TypeOK, Bounded, Phases, PhaseOk
<1>4. Rebuilding'
    BY DEF TypeOK, Rebuilding, RebuildOk, BeingEdited, Editing
<1>5. Accountable'
    BY DEF TypeOK, Phases, PhaseOk, Accountable, Accounted, BeingEdited,
           Editing, Remaking
<1> QED
    BY <1>1, <1>2, <1>3, <1>4, <1>5

\* A rebuild for its own sake is about no document.
LEMMA ReindexStep ==
    ASSUME Inductive, NEW p \in Proc, Reindex(p)
    PROVE  Inductive'
<1> USE IndexAssumption DEF Inductive, Reindex, Goto, dbVars, txVars,
        callVars
<1>1. TypeOK'
    BY DEF TypeOK
<1>2. Phases'
    BY DEF TypeOK, Phases, PhaseOk
<1>3. Bounded'
    BY DEF Bounded
<1>4. Rebuilding'
    BY DEF Rebuilding, RebuildOk, BeingEdited, Editing
<1>5. Accountable'
    BY DEF Accountable, Accounted, BeingEdited, Editing, Remaking
<1> QED
    BY <1>1, <1>2, <1>3, <1>4, <1>5

\* A query changes nothing.
LEMMA QueryStep ==
    ASSUME Inductive, NEW p \in Proc, Query(p)
    PROVE  Inductive'
<1> USE IndexAssumption DEF Inductive, Query, Goto, dbVars, txVars,
        callVars, End
<1>1. TypeOK'
    BY DEF TypeOK
<1>2. Phases'
    BY DEF TypeOK, Phases, PhaseOk
<1>3. Bounded'
    BY DEF Bounded
<1>4. Rebuilding'
    BY DEF TypeOK, Rebuilding, RebuildOk, BeingEdited, Editing
<1>5. Accountable'
    BY DEF TypeOK, Accountable, Accounted, BeingEdited, Editing, Remaking
<1> QED
    BY <1>1, <1>2, <1>3, <1>4, <1>5

\* The user changes no row of a current index.
LEMMA DamageStep ==
    ASSUME Inductive, NEW d \in Doc, Damage(d)
    PROVE  Inductive'
<1> USE IndexAssumption DEF Inductive, Damage, dbVars, txVars, callVars
<1>1. TypeOK'
    BY DEF TypeOK
<1>2. Phases'
    BY DEF Phases, PhaseOk
<1>3. Bounded'
    BY DEF Bounded
<1>4. Rebuilding'
    BY DEF Rebuilding, RebuildOk, BeingEdited, Editing
<1>5. Accountable'
    BY DEF Accountable, Accounted, BeingEdited, Editing, Remaking
<1> QED
    BY <1>1, <1>2, <1>3, <1>4, <1>5

\* Nor is there a current index after the file is deleted.
LEMMA LoseStep ==
    ASSUME Inductive, Lose
    PROVE  Inductive'
<1> USE IndexAssumption DEF Inductive, Lose, dbVars, txVars, callVars,
        NoRows
<1>1. TypeOK'
    BY DEF TypeOK
<1>2. Phases'
    BY DEF Phases, PhaseOk
<1>3. Bounded'
    BY DEF TypeOK, Bounded
<1>4. Rebuilding'
    BY DEF TypeOK, Rebuilding, RebuildOk, BeingEdited, Editing
<1>5. Accountable'
    BY DEF Accountable, Accounted, BeingEdited, Editing, Remaking
<1> QED
    BY <1>1, <1>2, <1>3, <1>4, <1>5

\* Steps that change nothing keep the invariant.
LEMMA Stutter ==
    ASSUME Inductive, UNCHANGED vars
    PROVE  Inductive'
<1> USE DEF Inductive, vars, dbVars, txVars, callVars
<1>1. TypeOK'
    BY DEF TypeOK
<1>2. Phases'
    BY DEF Phases, PhaseOk
<1>3. Bounded'
    BY DEF Bounded
<1>4. Rebuilding'
    BY DEF Rebuilding, RebuildOk, BeingEdited, Editing
<1>5. Accountable'
    BY DEF Accountable, Accounted, BeingEdited, Editing, Remaking
<1> QED
    BY <1>1, <1>2, <1>3, <1>4, <1>5

\* A step of a command, by itself or by its end.
LEMMA CommandStep ==
    ASSUME Inductive, NEW p \in Proc, Begin(p) \/ Step(p) \/ Fail(p)
    PROVE  Inductive'
<1>1. CASE Begin(p)
    BY <1>1, AppendClaimStep, StartStep DEF Begin
<1>2. CASE LoadDocument(p)
    BY <1>2, LoadDocumentStep
<1>3. CASE OpenStep(p)
    BY <1>3, FindFileStep, ConnectStep, ReadVersionStep, DropTablesStep,
       CreateTablesStep, MarkCurrentStep DEF OpenStep
<1>4. CASE RebuildStep(p)
    BY <1>4, BeginRebuildStep, ReadLogStep, CommitRebuildStep, FailStep
       DEF RebuildStep, RollBack
<1>5. CASE IndexDocument(p) \/ Reindex(p) \/ Query(p)
    BY <1>5, IndexDocumentStep, ReindexStep, QueryStep
<1>6. CASE Error(p) \/ Fail(p)
    BY <1>6, FailStep DEF Error
<1> QED
    BY <1>1, <1>2, <1>3, <1>4, <1>5, <1>6 DEF Step

\* Any step keeps the invariant.
LEMMA NextInductive == Inductive /\ [Next]_vars => Inductive'
<1> SUFFICES ASSUME Inductive, [Next]_vars PROVE Inductive'
    OBVIOUS
<1>1. CASE UNCHANGED vars
    BY <1>1, Stutter
<1>2. CASE Next
    BY <1>2, CommandStep, DamageStep, LoseStep DEF Next
<1> QED
    BY <1>1, <1>2

\* The inductive invariant holds throughout.
THEOREM Invariance == Spec => []Inductive
BY InitInductive, NextInductive, PTL DEF Spec

----------------------------------------------------------------------------

\* Every variable keeps its kind, and only the process of a rebuild holds the
\* write lock of index.db.
THEOREM TypeCorrect == Spec => []TypeOK
<1>1. Inductive => TypeOK
    BY DEF Inductive
<1> QED
    BY <1>1, Invariance, PTL

\* Whatever the overlap of commands, their failures and the upgrades of the
\* schema, an index that calls itself current lags behind the log of a document
\* only while a command has it to index, or for the reasons named in excused.
THEOREM StaleOnlyIfExcused == Spec => []StaleIsExcused
<1>1. Inductive => StaleIsExcused
    BY DEF Inductive, Accountable, StaleIsExcused
<1> QED
    BY <1>1, Invariance, PTL

\* The index never shows of a document what its log does not have, whatever
\* transactions commit, are rolled back or die, and whoever loaded it when.
THEOREM RowsNeverAhead == Spec => []Bounded
<1>1. Inductive => Bounded
    BY DEF Inductive
<1> QED
    BY <1>1, Invariance, PTL

\* What a rebuild leaves, by its commit, its rollback or its death, is no
\* older than what it found.
LEMMA RebuildStepsForward ==
    ASSUME Inductive, Next, NEW p \in Proc, pc[p] = "read", pc'[p] # "read"
    PROVE  \A d \in Doc : rows'[d] >= rows[d]
<1> USE DEF Inductive
<1>1. CASE CommitRebuild(p)
    <2>1. holder = p /\ holder # None
        BY IndexAssumption DEF TypeOK
    <2>2. unread = {} /\ ~rejected /\ rows' = tx
        BY <1>1 DEF CommitRebuild, MayCommit
    <2>3. \A d \in Doc : rows[d] <= since[d] /\ since[d] <= tx[d]
        BY <2>1, <2>2 DEF Rebuilding, RebuildOk
    <2> QED
        BY <2>2, <2>3 DEF TypeOK
<1>2. CASE UNCHANGED rows
    BY <1>2 DEF TypeOK
<1>3. CommitRebuild(p) \/ UNCHANGED rows
    <2>1. ASSUME NEW q \in Proc, Begin(q) \/ Fail(q)
          PROVE  UNCHANGED rows
        BY <2>1 DEF Begin, AppendClaim, Start, Fail, dbVars
    <2>2. ASSUME NEW q \in Proc, Step(q), q # p
          PROVE  UNCHANGED pc[p]
        BY <2>2 DEF TypeOK, Step, LoadDocument, OpenStep, FindFile, Connect, ReadVersion,
           DropTables, CreateTables, MarkCurrent, RebuildStep, BeginRebuild, ReadLog,
           CommitRebuild, RollBack, IndexDocument, Reindex, Query, Error, Fail, End, Goto
    <2>3. ASSUME Step(p)
          PROVE  CommitRebuild(p) \/ UNCHANGED rows
        BY <2>3 DEF Step, LoadDocument, OpenStep, FindFile, Connect, ReadVersion,
           DropTables, CreateTables, MarkCurrent, RebuildStep, BeginRebuild, ReadLog,
           RollBack, IndexDocument, Reindex, Query, Error, Fail, dbVars
    <2>4. (\E d \in Doc : Damage(d)) \/ Lose => UNCHANGED pc[p]
        BY DEF Damage, Lose
    <2> QED
        BY <2>1, <2>2, <2>3, <2>4 DEF Next
<1> QED
    BY <1>1, <1>2, <1>3

\* A rebuild never sets the rows of a document back, whatever is appended and
\* whoever waits to index meanwhile.
THEOREM RebuildsGoForward == Spec => RebuildNeverSetsBack
<1>1. Inductive /\ [Next]_vars =>
          [\A p \in Proc : pc[p] = "read" /\ pc'[p] # "read" =>
              \A d \in Doc : rows'[d] >= rows[d]]_vars
    BY RebuildStepsForward
<1> QED
    BY <1>1, Invariance, PTL DEF Spec, RebuildNeverSetsBack
=============================================================================
