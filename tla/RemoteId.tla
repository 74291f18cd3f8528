----------------------------- MODULE RemoteId -----------------------------
(***************************************************************************)
(* How a remote gets its id (remote.rs remote_id, read_remote_id and       *)
(* write_once_ref on remote.json).                                         *)
(*                                                                         *)
(* Every publish begins by asking for the id of the remote.  Whoever finds *)
(* none draws one and writes it once: by a hard link of a synced file, or, *)
(* where there are no links, by creating remote.json exclusively, marking  *)
(* it with the hash of what will be in it, and renaming the content over   *)
(* it.  Then the file is read again, and what it says is the id, whoever   *)
(* wrote it.  Stores key their writer state by it.                         *)
(*                                                                         *)
(* An id drawn is random: none that is in use.  A torn marker reads like   *)
(* no marker, so both are the blank file.                                  *)
(***************************************************************************)
EXTENDS Naturals, FiniteSets

CONSTANTS
    Publisher,  \* processes that publish to this remote
    Id          \* ids that mint_id may draw

ASSUME IdsSuffice ==
    /\ IsFiniteSet(Publisher) /\ IsFiniteSet(Id)
    /\ Cardinality(Id) > Cardinality(Publisher)

VARIABLES
    links,      \* whether the remote's filesystem has hard links
    file,       \* remote.json: its state and the id it holds or is marked with
    pc,         \* publisher -> where its remote_id call stands
    minted,     \* publisher -> the set with the id it drew, empty if none
    known,      \* publisher -> the set with the id it was told, empty if none
    told        \* every id a publisher was ever told (a history variable)

vars == <<links, file, pc, minted, known, told>>

File == [state : {"missing", "blank"}, id : {{}}]
        \cup [state : {"marked", "full"}, id : {{i} : i \in Id}]

Init ==
    /\ links \in BOOLEAN
    /\ file = [state |-> "missing", id |-> {}]
    /\ pc = [p \in Publisher |-> "idle"]
    /\ minted = [p \in Publisher |-> {}]
    /\ known = [p \in Publisher |-> {}]
    /\ told = {}

\* Ids that are written down or held by somebody.
InUse == file.id \cup UNION {minted[p] : p \in Publisher}

Goto(p, label) == pc' = [pc EXCEPT ![p] = label]

\* read_remote_id finds the id: the call returns it and the handle keeps it.
Learn(p) ==
    /\ file.state = "full"
    /\ known' = [known EXCEPT ![p] = file.id]
    /\ told' = told \cup file.id
    /\ minted' = [minted EXCEPT ![p] = {}]
    /\ Goto(p, "done")
    /\ UNCHANGED <<links, file>>

\* The first read of remote.json.
Look(p) ==
    /\ pc[p] = "idle"
    /\ Learn(p)

\* It is missing or only reserved: draw an id for it.
Mint(p) ==
    /\ pc[p] = "idle"
    /\ file.state # "full"
    /\ \E i \in Id \ InUse : minted' = [minted EXCEPT ![p] = {i}]
    /\ Goto(p, "claim")
    /\ UNCHANGED <<links, file, known, told>>

\* Creating the file without O_EXCL, or linking over what is there.
MayCreate_Always(p) == TRUE

\* The exclusive create, or the link, finds no file in the way.
MayCreate(p) == file.state = "missing"

\* Renaming or linking a file whose content was never written.
Filled_Empty(p) == [state |-> "full", id |-> {}]

\* remote.json as this call writes it.
Filled(p) == [state |-> "full", id |-> minted[p]]

\* Writing the file in place although the remote could link it.
Link_InPlace(p) ==
    /\ pc[p] = "claim" /\ links
    /\ MayCreate(p)
    /\ file' = [state |-> "blank", id |-> {}]
    /\ Goto(p, "mark")
    /\ UNCHANGED <<links, minted, known, told>>

\* hard_link.
Link(p) ==
    /\ pc[p] = "claim" /\ links
    /\ MayCreate(p)
    /\ file' = Filled(p)
    /\ Goto(p, "reread")
    /\ UNCHANGED <<links, minted, known, told>>

\* O_EXCL, marker, rename.
Create(p) ==
    /\ pc[p] = "claim" /\ ~links
    /\ MayCreate(p)
    /\ file' = [state |-> "blank", id |-> {}]
    /\ Goto(p, "mark")
    /\ UNCHANGED <<links, minted, known, told>>

Mark(p) ==
    /\ pc[p] = "mark"
    /\ file' = [state |-> "marked", id |-> minted[p]]
    /\ Goto(p, "fill")
    /\ UNCHANGED <<links, minted, known, told>>

Fill(p) ==
    /\ pc[p] = "fill"
    /\ file' = Filled(p)
    /\ Goto(p, "reread")
    /\ UNCHANGED <<links, minted, known, told>>

\* Something is there already; whether write_once_ref calls it equal, to be
\* finished or somebody else's is ignored.  A reservation is never marked with
\* what this call would write: its id was drawn just now.
Yield(p) ==
    /\ pc[p] = "claim"
    /\ ~MayCreate(p)
    /\ Goto(p, "reread")
    /\ UNCHANGED <<links, file, minted, known, told>>

\* Believing that what was drawn is what was written.
RereadValue_Own(p) == minted[p]

\* The id that counts is the one in the file.
RereadValue(p) == file.id

Reread(p) ==
    /\ pc[p] = "reread"
    /\ file.state = "full"
    /\ known' = [known EXCEPT ![p] = RereadValue(p)]
    /\ told' = told \cup RereadValue(p)
    /\ minted' = [minted EXCEPT ![p] = {}]
    /\ Goto(p, "done")
    /\ UNCHANGED <<links, file>>

\* `the remote's id is still being written; try again'.
TryAgain(p) ==
    /\ pc[p] = "reread"
    /\ file.state # "full"
    /\ minted' = [minted EXCEPT ![p] = {}]
    /\ Goto(p, "idle")
    /\ UNCHANGED <<links, file, known, told>>

\* The process ends, or is cut short; the next one starts with a new handle.
Restart(p) ==
    /\ pc[p] # "idle"
    /\ minted' = [minted EXCEPT ![p] = {}]
    /\ known' = [known EXCEPT ![p] = {}]
    /\ Goto(p, "idle")
    /\ UNCHANGED <<links, file, told>>

Step(p) ==
    \/ Look(p) \/ Mint(p) \/ Link(p) \/ Create(p) \/ Mark(p) \/ Fill(p)
    \/ Yield(p) \/ Reread(p) \/ TryAgain(p)

Next == \E p \in Publisher : Step(p) \/ Restart(p)

Spec == Init /\ [][Next]_vars

\* A call is cut short: not the end of a process that has its answer.
Interruption(p) == Restart(p) /\ ~TryAgain(p) /\ pc[p] # "done"

\* Every publisher goes on, comes back after an error, and is at some time no
\* longer interrupted.
FairSpec ==
    /\ Spec
    /\ \A p \in Publisher : WF_vars(Step(p))
    /\ <>[][\A p \in Publisher : ~Interruption(p)]_vars

----------------------------------------------------------------------------

\* Every variable holds a value of its kind; a complete file has an id.
TypeOK ==
    /\ links \in BOOLEAN
    /\ file \in File
    /\ pc \in [Publisher -> {"idle", "claim", "mark", "fill", "reread", "done"}]
    /\ minted \in [Publisher -> SUBSET Id]
    /\ known \in [Publisher -> SUBSET Id]
    /\ told \subseteq Id

\* A remote has one id for ever: no two calls, of any processes at any times,
\* are told different ids, and what they were told is what the file still says.
OneIdForEver == told # {} => file.state = "full" /\ told = file.id

\* Every publisher that comes back is told the id again and again, unless the
\* file stays reserved; with hard links it is never reserved at all.
EveryoneLearns ==
    /\ [](links => file.state \notin {"blank", "marked"})
    /\ \A p \in Publisher :
          []<>(known[p] # {} \/ file.state \in {"blank", "marked"})

\* The write-once rule of refs, which remote.json is said to follow: once the
\* reservation is marked, a retry can finish it, so publishers that keep trying
\* see the file complete.
MarkedIsFinished == [](file.state = "marked" => <>(file.state = "full"))
=============================================================================
