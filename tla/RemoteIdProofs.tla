--------------------------- MODULE RemoteIdProofs ---------------------------
(***************************************************************************)
(* A remote has one id for ever, however many publishers race to name it.  *)
(***************************************************************************)
EXTENDS RemoteId, TLAPS

\* Whoever may write to the file in place: one publisher, who finds the file as
\* it left it.
WriterInv ==
    /\ \A p \in Publisher :
        /\ pc[p] \in {"claim", "mark", "fill"} => \E i \in Id : minted[p] = {i}
        /\ pc[p] = "mark" => file.state = "blank"
        /\ pc[p] = "fill" => file.state = "marked" /\ file.id = minted[p]
    /\ \A p, q \in Publisher :
        pc[p] \in {"mark", "fill"} /\ pc[q] \in {"mark", "fill"} => p = q

\* The inductive invariant.
IdInductive == TypeOK /\ WriterInv /\ OneIdForEver

\* What TypeOK says of the file, without comparing records.
LEMMA FileFacts ==
  ASSUME file \in File
  PROVE  /\ file.state \in {"missing", "blank", "marked", "full"}
         /\ file.id \in SUBSET Id
         /\ file.state \in {"missing", "blank"} => file.id = {}
         /\ file.state \in {"marked", "full"} => \E i \in Id : file.id = {i}
BY DEF File

\* The invariant holds initially.
LEMMA IdInit == Init => IdInductive
<1> SUFFICES ASSUME Init PROVE IdInductive
  OBVIOUS
<1> USE DEF Init
<1>1. TypeOK
  BY DEF TypeOK, File
<1>2. WriterInv /\ OneIdForEver
  BY DEF WriterInv, OneIdForEver
<1> QED BY <1>1, <1>2 DEF IdInductive

\* Learning the id, or what a reread of the complete file says, keeps it.
LEMMA LearnStep ==
  ASSUME IdInductive, NEW p \in Publisher, Look(p) \/ Reread(p)
  PROVE  IdInductive'
<1> USE DEF IdInductive
<1>1. /\ file.state = "full" /\ file' = file /\ links' = links
      /\ pc' = [pc EXCEPT ![p] = "done"]
      /\ known' = [known EXCEPT ![p] = file.id]
      /\ told' = told \cup file.id
      /\ minted' = [minted EXCEPT ![p] = {}]
  BY DEF Look, Learn, Reread, RereadValue, Goto
<1>2. TypeOK'
  BY <1>1, FileFacts DEF TypeOK
<1>3. WriterInv'
  BY <1>1 DEF TypeOK, WriterInv
<1>4. OneIdForEver'
  BY <1>1 DEF OneIdForEver
<1> QED BY <1>2, <1>3, <1>4

\* So does drawing an id, giving up, and the end of a process: the file is not
\* touched and nobody is told anything.
LEMMA QuietStep ==
  ASSUME IdInductive, NEW p \in Publisher, Mint(p) \/ TryAgain(p) \/ Restart(p) \/ Yield(p)
  PROVE  IdInductive'
<1> USE DEF IdInductive
<1>1. /\ UNCHANGED <<links, file, told>>
      /\ known' \in [Publisher -> SUBSET Id]
  BY DEF TypeOK, Mint, TryAgain, Restart, Yield
<1>2. \E label \in {"idle", "claim", "reread"} :
        /\ pc' = [pc EXCEPT ![p] = label]
        /\ label = "claim" => \E i \in Id : minted' = [minted EXCEPT ![p] = {i}]
        /\ label # "claim" => minted' \in {minted, [minted EXCEPT ![p] = {}]}
  <2>1. CASE Mint(p)
    BY <2>1 DEF Mint, Goto
  <2>2. CASE TryAgain(p) \/ Restart(p)
    BY <2>2 DEF TryAgain, Restart, Goto
  <2>3. CASE Yield(p)
    BY <2>3 DEF Yield, Goto
  <2> QED BY <2>1, <2>2, <2>3
<1>3. TypeOK'
  BY <1>1, <1>2 DEF TypeOK
<1>4. WriterInv'
  BY <1>1, <1>2 DEF TypeOK, WriterInv
<1>5. OneIdForEver'
  BY <1>1 DEF OneIdForEver
<1> QED BY <1>3, <1>4, <1>5

\* Nobody has been told an id before the file is complete.
LEMMA ToldNothing ==
  ASSUME OneIdForEver, file.state # "full"
  PROVE  told = {}
BY DEF OneIdForEver

\* Writing the file, in one step or in three, keeps the invariant: it is done to
\* a file that is missing, or by the one publisher that reserved it.
LEMMA WriteStep ==
  ASSUME IdInductive, NEW p \in Publisher, Link(p) \/ Create(p) \/ Mark(p) \/ Fill(p)
  PROVE  IdInductive'
<1> USE DEF IdInductive
<1>1. UNCHANGED <<links, minted, known, told>>
  BY DEF Link, Create, Mark, Fill
<1>2. PICK i \in Id : minted[p] = {i}
  BY DEF Link, Create, Mark, Fill, WriterInv
<1>3. CASE Link(p) \/ Fill(p)
  <2>1. /\ file' = [state |-> "full", id |-> minted[p]]
        /\ pc' = [pc EXCEPT ![p] = "reread"]
    BY <1>3 DEF Link, Fill, Filled, Goto
  <2>2. file.state # "full"
    BY <1>3 DEF Link, Fill, MayCreate, WriterInv
  <2>3. file'.state = "full" /\ file'.id = {i}
    BY <1>2, <2>1
  <2>4. TypeOK'
    BY <1>1, <1>2, <2>1 DEF TypeOK, File
  <2>5. WriterInv'
    BY <1>1, <1>3, <2>1, <2>3 DEF TypeOK, WriterInv, Link, Fill, MayCreate
  <2>6. OneIdForEver'
    BY <1>1, <2>2, ToldNothing DEF OneIdForEver
  <2> QED BY <2>4, <2>5, <2>6
<1>4. CASE Create(p)
  <2>1. /\ file.state = "missing"
        /\ file' = [state |-> "blank", id |-> {}]
        /\ pc' = [pc EXCEPT ![p] = "mark"]
    BY <1>4 DEF Create, MayCreate, Goto
  <2>2. TypeOK'
    BY <1>1, <2>1 DEF TypeOK, File
  <2>3. WriterInv'
    BY <1>1, <1>2, <2>1 DEF TypeOK, WriterInv
  <2>4. OneIdForEver'
    BY <1>1, <2>1, ToldNothing DEF OneIdForEver
  <2> QED BY <2>2, <2>3, <2>4
<1>5. CASE Mark(p)
  <2>1. /\ pc[p] = "mark"
        /\ file' = [state |-> "marked", id |-> minted[p]]
        /\ pc' = [pc EXCEPT ![p] = "fill"]
    BY <1>5 DEF Mark, Goto
  <2>2. file.state = "blank"
    BY <2>1 DEF WriterInv
  <2>3. TypeOK'
    BY <1>1, <1>2, <2>1 DEF TypeOK, File
  <2>4. WriterInv'
    BY <1>1, <1>2, <2>1 DEF TypeOK, WriterInv
  <2>5. OneIdForEver'
    BY <1>1, <2>2, ToldNothing DEF OneIdForEver
  <2> QED BY <2>3, <2>4, <2>5
<1> QED BY <1>3, <1>4, <1>5

\* The invariant is inductive.
LEMMA IdNext == IdInductive /\ [Next]_vars => IdInductive'
<1> SUFFICES ASSUME IdInductive, [Next]_vars PROVE IdInductive'
  OBVIOUS
<1>1. CASE UNCHANGED vars
  BY <1>1 DEF IdInductive, TypeOK, WriterInv, OneIdForEver, vars
<1>2. ASSUME NEW p \in Publisher, Step(p) \/ Restart(p)
      PROVE  IdInductive'
  BY <1>2, LearnStep, QuietStep, WriteStep DEF Step
<1> QED BY <1>1, <1>2 DEF Next

\* Reserving, filling and renaming remote.json leave it blank or with the ID of
\* one publisher, and every publisher at a step of Remote::create.
THEOREM IdTyped == Spec => []TypeOK
<1>1. IdInductive => TypeOK
  BY DEF IdInductive
<1> QED BY <1>1, IdInit, IdNext, PTL DEF Spec

\* A remote has one id for ever: whoever was told one was told the same, and it
\* is in the file, for any number of publishers, restarts and ways to write.
THEOREM RemoteKeepsItsId == Spec => []OneIdForEver
<1>1. IdInductive => OneIdForEver
  BY DEF IdInductive
<1> QED BY <1>1, IdInit, IdNext, PTL DEF Spec

\* A step leaves a complete file alone: those who reserved it or are about to link it
\* find it incomplete or missing.
LEMMA CompleteStep ==
  ASSUME IdInductive, Next, file.state = "full"
  PROVE  file' = file
<1>1. PICK p \in Publisher : Step(p) \/ Restart(p)
  BY DEF Next
<1>2. CASE Look(p) \/ Mint(p) \/ Yield(p) \/ Reread(p) \/ TryAgain(p) \/ Restart(p)
  BY <1>2 DEF Look, Learn, Mint, Yield, Reread, TryAgain, Restart
<1>3. ~Link(p) /\ ~Create(p)
  BY DEF Link, Create, MayCreate
<1>4. ~Mark(p) /\ ~Fill(p)
  BY DEF Mark, Fill, IdInductive, WriterInv
<1> QED BY <1>1, <1>2, <1>3, <1>4 DEF Step

\* remote.json is written once: although a publisher that reserved it renames its
\* own content over whatever is there, it never does so to a complete file.
THEOREM RemoteIsWrittenOnce == Spec => [][file.state = "full" => file' = file]_vars
<1>1. IdInductive /\ [Next]_vars => [file.state = "full" => file' = file]_vars
  BY CompleteStep
<1> QED BY <1>1, IdInit, IdNext, PTL DEF Spec

\* Where the remote has hard links, nobody ever reserves the file.
Unreserved ==
    links => /\ file.state \notin {"blank", "marked"}
             /\ \A p \in Publisher : pc[p] \notin {"mark", "fill"}

LEMMA UnreservedNext ==
  ASSUME TypeOK, Unreserved, [Next]_vars
  PROVE  Unreserved'
<1>1. CASE UNCHANGED vars
  BY <1>1 DEF Unreserved, vars
<1>2. ASSUME NEW p \in Publisher, Step(p) \/ Restart(p)
      PROVE  Unreserved'
  <2>1. CASE Look(p) \/ Mint(p) \/ Yield(p) \/ Reread(p) \/ TryAgain(p) \/ Restart(p)
    <3>1. /\ links' = links /\ file' = file
          /\ \E label \in {"idle", "claim", "reread", "done"} : pc' = [pc EXCEPT ![p] = label]
      BY <2>1 DEF Look, Learn, Mint, Yield, Reread, TryAgain, Restart, Goto
    <3> QED BY <3>1 DEF TypeOK, Unreserved
  <2>2. CASE Link(p)
    <3>1. links' = links /\ file'.state = "full" /\ pc' = [pc EXCEPT ![p] = "reread"]
      BY <2>2 DEF Link, Filled, Goto
    <3> QED BY <3>1 DEF TypeOK, Unreserved
  <2>3. CASE Create(p)
    BY <2>3 DEF Create, Unreserved
  <2>4. CASE Mark(p) \/ Fill(p)
    BY <2>4 DEF Mark, Fill, Unreserved
  <2> QED BY <1>2, <2>1, <2>2, <2>3, <2>4 DEF Step
<1> QED BY <1>1, <1>2 DEF Next

\* With hard links remote.json is missing or complete at every moment, so nobody is
\* ever told to try again because another publisher died while it wrote.
THEOREM LinksNeverReserve == Spec => [](links => file.state \notin {"blank", "marked"})
<1>1. Init => Unreserved
  BY DEF Init, Unreserved
<1>2. Unreserved => (links => file.state \notin {"blank", "marked"})
  BY DEF Unreserved
<1> QED BY <1>1, <1>2, IdTyped, UnreservedNext, PTL DEF Spec
=============================================================================
