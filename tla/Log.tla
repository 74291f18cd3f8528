-------------------------------- MODULE Log --------------------------------
(***************************************************************************)
(* Document logs as files (log.rs): commands append batches of claims,     *)
(* readers take no lock, processes die and the power fails at any point.   *)
(*                                                                         *)
(* A command such as add or tag appends one batch: it reads the log        *)
(* without a lock, builds claims that refer to claims it read, and then,   *)
(* under the store lock, reads the log again, checks that the whole still  *)
(* folds, and writes one line for each claim.                              *)
(*                                                                         *)
(* Simplifications:                                                        *)
(*  - a claim is its batch and its place in it; what else folding checks   *)
(*    than references and the create claim is left out;                    *)
(*  - a batch names its document and one claim that its command read;      *)
(*  - a record that lacks its newline and one that lacks more are alike:   *)
(*    read treats both as torn.                                            *)
(***************************************************************************)
EXTENDS Naturals, SequencesExt

CONSTANTS
    Doc,        \* documents
    Batch,      \* commands that append, one batch each
    DocOf,      \* batch -> its document
    Size,       \* batch -> the number of its claims
    Adds,       \* the batches of `add', which begin with the create claim
    Nobody      \* not a batch

ASSUME BatchAssumption ==
    /\ DocOf \in [Batch -> Doc]
    /\ Size \in [Batch -> Nat \ {0}]
    /\ Adds \subseteq Batch
    /\ Nobody \notin Batch
    \* A document's ID is the hash of its create claim.
    /\ \A a, b \in Adds : DocOf[a] = DocOf[b] => a = b

VARIABLES
    present,    \* documents whose log file exists
    lines,      \* document -> the complete lines of its log
    tail,       \* document -> whose incomplete record ends the file, or Nobody
    synced,     \* document -> how many lines sync_all has made durable
    entered,    \* documents whose directory entries were synced
    holder,     \* the batch whose command holds the store lock, or Nobody
    pc,         \* batch -> where its command stands
    refs,       \* batch -> the claims it refers to
    sent,       \* batch -> how many of its lines write_all has written
    published   \* claims that a checkpoint has captured

fileVars == <<present, lines, tail, synced, entered>>
vars == <<fileVars, holder, pc, refs, sent, published>>

Claim == [batch : Batch, nth : Nat]

\* What becomes of a record written behind somebody else's incomplete one.
Garbage == [batch |-> Nobody, nth |-> 0]

Claims(d) == ToSet(lines[d])

\* The claims of a batch, and the one that makes a document.
ClaimsOf(b) == {[batch |-> b, nth |-> i] : i \in 1 .. Size[b]}
IsCreate(c) == c.batch \in Adds /\ c.nth = 1

\* Document::fold of these lines: the first creates the document, no other
\* does, and every reference is resolved.
Folds(ls) ==
    /\ ls # <<>> /\ IsCreate(Head(ls))
    /\ \A i \in 2 .. Len(ls) : ~IsCreate(ls[i])
    /\ \A c \in ToSet(ls) : refs[c.batch] \subseteq ToSet(ls)

----------------------------------------------------------------------------
(* Log::read.                                                              *)

\* CorruptLog: a line that is no claim, or a torn record with none before it.
Corrupt(d) ==
    \/ Garbage \in Claims(d)
    \/ tail[d] # Nobody /\ lines[d] = <<>>

\* A torn tail is reported and left out.
TornTail(d) == tail[d] # Nobody

\* Document::load succeeds.
Loads(d) == ~Corrupt(d) /\ Folds(lines[d])

----------------------------------------------------------------------------

Init ==
    /\ present = {} /\ entered = {}
    /\ lines = [d \in Doc |-> <<>>]
    /\ tail = [d \in Doc |-> Nobody]
    /\ synced = [d \in Doc |-> 0]
    /\ holder = Nobody
    /\ pc = [b \in Batch |-> "new"]
    /\ refs = [b \in Batch |-> {}]
    /\ sent = [b \in Batch |-> 0]
    /\ published = {}

Goto(b, label) == pc' = [pc EXCEPT ![b] = label]

\* A command mints a document, or loads one and builds claims on what it saw.
\* It holds no lock: it may see half of what another command is appending.
Build(b) ==
    /\ pc[b] = "new"
    /\ \/ b \in Adds /\ UNCHANGED refs
       \/ /\ b \notin Adds
          /\ DocOf[b] \in present /\ Loads(DocOf[b])
          /\ \E c \in Claims(DocOf[b]) :
                refs' = [refs EXCEPT ![b] = {Head(lines[DocOf[b]]), c}]
    /\ Goto(b, "built")
    /\ UNCHANGED <<fileVars, holder, sent, published>>

\* The lock is not waited for.
LockFree_Ignored == TRUE

LockFree == holder = Nobody

\* Appending behind a torn record.
Whole_Unchecked(d) == ~Corrupt(d)

\* The log reads without an error and without a torn tail.
Whole(d) == ~Corrupt(d) /\ ~TornTail(d)

\* What append checks before it writes.
Appendable(b) ==
    LET d == DocOf[b] IN
    /\ b \in Adds <=> d \notin present
    /\ d \in present =>
          /\ Whole(d)
          /\ Folds(lines[d]) /\ refs[b] \subseteq Claims(d)

\* Take the lock, read the log again, check, and open the file for appending.
Open(b) ==
    /\ pc[b] = "built" /\ LockFree
    /\ Appendable(b)
    /\ holder' = b
    /\ present' = present \cup {DocOf[b]}
    /\ Goto(b, IF DocOf[b] \in present THEN "append" ELSE "create")
    /\ UNCHANGED <<lines, tail, synced, entered, refs, sent, published>>

\* An error return: nothing has been written.
Reject(b) ==
    /\ pc[b] = "built" /\ LockFree
    /\ ~Appendable(b)
    /\ Goto(b, "failed")
    /\ UNCHANGED <<fileVars, holder, refs, sent, published>>

Writing(b) == pc[b] \in {"create", "append"}

\* write_all, as far as part of a record.
WritePart(b) ==
    /\ Writing(b) /\ sent[b] < Size[b]
    /\ tail[DocOf[b]] = Nobody
    /\ tail' = [tail EXCEPT ![DocOf[b]] = b]
    /\ UNCHANGED <<present, lines, synced, entered, holder, pc, refs, sent, published>>

\* write_all, as far as the end of a record.
WriteLine(b) ==
    /\ Writing(b) /\ sent[b] < Size[b]
    /\ LET d == DocOf[b]
           line == IF tail[d] \in {Nobody, b}
                   THEN [batch |-> b, nth |-> sent[b] + 1] ELSE Garbage
       IN lines' = [lines EXCEPT ![d] = Append(@, line)]
    /\ tail' = [tail EXCEPT ![DocOf[b]] = Nobody]
    /\ sent' = [sent EXCEPT ![b] = @ + 1]
    /\ UNCHANGED <<present, synced, entered, holder, pc, refs, published>>

\* Returning before the data are synced.
SyncedLines_None(d) == synced[d]

\* sync_all makes every byte of the file durable, whoever wrote it.
SyncedLines(d) == Len(lines[d])

\* flush and sync_all; an append to an existing log is then acknowledged.
Sync(b) ==
    /\ Writing(b) /\ sent[b] = Size[b]
    /\ synced' = [synced EXCEPT ![DocOf[b]] = SyncedLines(DocOf[b])]
    /\ IF pc[b] = "create" THEN Goto(b, "dirs") /\ UNCHANGED holder
       ELSE Goto(b, "acked") /\ holder' = Nobody
    /\ UNCHANGED <<present, lines, tail, entered, refs, sent, published>>

\* sync_dir up to the store, for a new log.
SyncDirs(b) ==
    /\ pc[b] = "dirs"
    /\ entered' = entered \cup {DocOf[b]}
    /\ Goto(b, "acked") /\ holder' = Nobody
    /\ UNCHANGED <<present, lines, tail, synced, refs, sent, published>>

\* The process dies, or a write or sync fails; the kernel releases the lock.
Die(b) ==
    /\ pc[b] \in {"built", "create", "append", "dirs"}
    /\ Goto(b, "failed")
    /\ holder' = IF holder = b THEN Nobody ELSE holder
    /\ UNCHANGED <<fileVars, refs, sent, published>>

\* Capturing while an append is going on.
MayCapture_Unlocked == TRUE

\* publish holds the store lock too.
MayCapture == LockFree

\* ledger_from_logs: all logs or, if one of them is torn or does not fold, none.
Capture ==
    /\ MayCapture
    /\ \A d \in present : Whole(d) /\ Loads(d)
    /\ published' = UNION {Claims(d) : d \in present}
    /\ UNCHANGED <<fileVars, holder, pc, refs, sent>>

\* What a power failure may leave of a log: at least the synced lines, if the
\* directories name it; of the rest any part, cut within a record or not.
Left(d) ==
    {[there |-> TRUE, lines |-> SubSeq(lines[d], 1, n), tail |-> t] :
        n \in synced[d] .. Len(lines[d]),
        t \in {Nobody, tail[d]} \cup {c.batch : c \in ToSet(SubSeq(lines[d], synced[d] + 1, Len(lines[d])))}}

Gone == [there |-> FALSE, lines |-> <<>>, tail |-> Nobody]

After(d) ==
    CASE d \notin present -> {Gone}
      [] d \in entered -> Left(d)
      [] OTHER -> Left(d) \cup {Gone}

\* Power fails: commands end, and what was not synced may be lost.
PowerLoss ==
    \E left \in [Doc -> UNION {After(d) : d \in Doc}] :
        /\ \A d \in Doc : left[d] \in After(d)
        /\ present' = {d \in Doc : left[d].there}
        /\ entered' = {d \in Doc : left[d].there}
        /\ lines' = [d \in Doc |-> left[d].lines]
        /\ tail' = [d \in Doc |-> left[d].tail]
        /\ synced' = [d \in Doc |-> Len(left[d].lines)]
        /\ holder' = Nobody
        /\ pc' = [b \in Batch |-> IF pc[b] \in {"new", "acked"} THEN pc[b] ELSE "failed"]
        /\ UNCHANGED <<refs, sent, published>>

Command(b) ==
    \/ Build(b) \/ Open(b) \/ Reject(b) \/ WritePart(b) \/ WriteLine(b)
    \/ Sync(b) \/ SyncDirs(b) \/ Die(b)

Next == (\E b \in Batch : Command(b)) \/ Capture \/ PowerLoss

Spec == Init /\ [][Next]_vars

----------------------------------------------------------------------------

\* Every variable holds a value of its kind, and the lock belongs to the command
\* that is writing.
TypeOK ==
    /\ present \subseteq Doc /\ entered \subseteq present
    /\ lines \in [Doc -> Seq(Claim \cup {Garbage})]
    /\ tail \in [Doc -> Batch \cup {Nobody}]
    /\ synced \in [Doc -> Nat] /\ \A d \in Doc : synced[d] <= Len(lines[d])
    /\ holder \in Batch \cup {Nobody}
    /\ pc \in [Batch -> {"new", "built", "create", "append", "dirs", "acked", "failed"}]
    /\ \A b \in Batch : pc[b] \in {"create", "append", "dirs"} <=> holder = b
    /\ refs \in [Batch -> SUBSET (Claim \cup {Garbage})]
    /\ sent \in [Batch -> Nat] /\ \A b \in Batch : sent[b] <= Size[b]
    /\ published \subseteq Claim \cup {Garbage}

\* A reader, which takes no lock, loads every document whose log has a complete
\* line, while the log is being appended to and after any crash: the damage of a
\* crash stays in the last record, for no command ever writes behind it, and what
\* a claim refers to is never lost without the claim.
ReadersLoad == \A d \in present : lines[d] # <<>> => Loads(d)

\* The claims of a command stand together and in order, never mixed with those
\* of another that ran at the same time.
BatchesTogether ==
    \A d \in Doc : \A i \in 1 .. Len(lines[d]) :
        lines[d][i].nth > 1 =>
            i > 1 /\ lines[d][i - 1] = [lines[d][i] EXCEPT !.nth = @ - 1]

\* What a command has been acknowledged for is in the log, whole, through every
\* crash, and through power failures once the log's directory entry is durable.
\* Only the append that creates a log syncs that entry: when its process dies
\* first, those that append later are acknowledged with the entry still loose.
AckedKept ==
    \A b \in Batch : pc[b] = "acked" /\ DocOf[b] \in entered =>
        ClaimsOf(b) \subseteq Claims(DocOf[b])

\* A checkpoint never captures a part of what a command is still appending.
CaptureIsSettled ==
    \A b \in Batch : pc[b] \in {"create", "append", "dirs"} =>
        ClaimsOf(b) \cap published = {}

=============================================================================
