--------------------------- MODULE RecoverProofs ---------------------------
(***************************************************************************)
(* Theorems of Publish and Recover, in four parts: refs as sequences; the  *)
(* safety of publishing; recovery, and that both implement Backup; and     *)
(* what a store that is never copied can be refused for.                   *)
(***************************************************************************)
EXTENDS Recover, PublishInv, SequenceTheorems, TLAPS

----------------------------------------------------------------------------
(***************************************************************************)
(* What Publish relies on about refs as sequences of ledgers: their front, *)
(* their prefixes, and the packs of a ref that continues another.          *)
(***************************************************************************)

\* The prefixes of a ref are refs (the chain behind it, slot by slot).
LEMMA PrefixFacts ==
  ASSUME NEW h \in Ref, NEW n \in 0 .. Len(h)
  PROVE  /\ SubSeq(h, 1, n) \in Ref
         /\ Len(SubSeq(h, 1, n)) = n
         /\ \A i \in 1 .. n : SubSeq(h, 1, n)[i] = h[i]
<1>1. Len(h) \in Nat /\ h \in Seq(Ledger)
  BY LenProperties DEF Ref
<1>2. \A i \in 1 .. n : i \in 1 .. Len(h)
  BY <1>1
<1>3. \A i \in 1 .. n : h[i] \in Ledger
  BY <1>1, <1>2, ElementOfSeq
<1> QED BY <1>1, <1>3, SubSeqProperties DEF Ref

\* `previous' of a ref: one shorter, and with the same refs behind it.
LEMMA FrontFacts ==
  ASSUME NEW h \in Ref, h # None
  PROVE  /\ Len(h) \in Nat \ {0}
         /\ Front(h) \in Ref
         /\ Len(Front(h)) = Len(h) - 1
         /\ SubSeq(h, 1, Len(h)) = h
         /\ \A n \in 1 .. Len(h) - 1 : SubSeq(h, 1, n) = SubSeq(Front(h), 1, n)
<1>1. Len(h) \in Nat \ {0} /\ h \in Seq(Ledger)
  BY EmptySeq DEF Ref, None
<1>2. Len(h) - 1 \in 0 .. Len(h)
  BY <1>1
<1>3. Front(h) \in Ref /\ Len(Front(h)) = Len(h) - 1
  BY <1>2, PrefixFacts DEF Front
<1>4. ASSUME NEW n \in 1 .. Len(h) - 1
      PROVE  SubSeq(h, 1, n) = SubSeq(Front(h), 1, n)
  <2>1. n \in 0 .. Len(h) /\ n \in 0 .. Len(Front(h))
    BY <1>1, <1>3
  <2>2. \A i \in 1 .. n : Front(h)[i] = h[i]
    BY <1>1, <1>2, PrefixFacts DEF Front
  <2>3. /\ SubSeq(h, 1, n) \in Seq(Ledger)
        /\ SubSeq(Front(h), 1, n) \in Seq(Ledger)
        /\ Len(SubSeq(h, 1, n)) = Len(SubSeq(Front(h), 1, n))
    BY <1>3, <2>1, PrefixFacts DEF Ref
  <2>4. \A i \in 1 .. Len(SubSeq(h, 1, n)) :
           SubSeq(h, 1, n)[i] = SubSeq(Front(h), 1, n)[i]
    BY <1>3, <2>1, <2>2, PrefixFacts
  <2> QED BY <2>3, <2>4, SeqEqual
<1>5. SubSeq(h, 1, Len(h)) = h
  BY <1>1, SubSeqFull
<1> QED BY <1>1, <1>3, <1>4, <1>5

\* The next ref of a chain: it continues p, publishes L, and needs one pack
\* more than p.
LEMMA AppendFacts ==
  ASSUME NEW p \in Ref, NEW L \in Ledger
  PROVE  /\ Append(p, L) \in Ref
         /\ Append(p, L) # None
         /\ Front(Append(p, L)) = p
         /\ Root(Append(p, L)) = L
         /\ PacksOf(Append(p, L)) = PacksOf(p) \cup {PackFor(p, L)}
<1> DEFINE h == Append(p, L)
<1>1. /\ h \in Ref /\ h # None /\ Len(h) = Len(p) + 1
      /\ \A i \in 1 .. Len(p) : h[i] = p[i]
      /\ h[Len(p) + 1] = L
  BY AppendProperties DEF Ref, None
<1>2. Len(p) \in Nat /\ p \in Seq(Ledger) /\ h \in Seq(Ledger)
  BY <1>1, LenProperties DEF Ref
<1> HIDE DEF h
<1>3. ASSUME NEW n \in 0 .. Len(p)
      PROVE  SubSeq(h, 1, n) = SubSeq(p, 1, n)
  <2>1. n \in 0 .. Len(h)
    BY <1>1, <1>2
  <2>2. /\ SubSeq(h, 1, n) \in Seq(Ledger) /\ SubSeq(p, 1, n) \in Seq(Ledger)
        /\ Len(SubSeq(h, 1, n)) = n /\ Len(SubSeq(p, 1, n)) = n
        /\ \A i \in 1 .. n : SubSeq(h, 1, n)[i] = h[i] /\ SubSeq(p, 1, n)[i] = p[i]
    BY <1>1, <2>1, PrefixFacts DEF Ref
  <2>3. \A i \in 1 .. n : h[i] = p[i]
    BY <1>1, <1>2
  <2> QED BY <2>2, <2>3, SeqEqual
<1>4. Len(h) - 1 = Len(p) /\ Len(p) \in 0 .. Len(p)
  BY <1>1, <1>2
<1>5. SubSeq(h, 1, Len(h) - 1) = p
  BY <1>2, <1>3, <1>4, SubSeqFull
<1>6. Root(h) = L
  BY <1>1, <1>2 DEF Root, Last
<1>7. PacksOf(h) = PacksOf(p) \cup {PackFor(p, L)}
  <2>1. ASSUME NEW i \in 1 .. Len(p)
        PROVE  PackFor(SubSeq(h, 1, i - 1), h[i]) = PackFor(SubSeq(p, 1, i - 1), p[i])
    <3>1. i - 1 \in 0 .. Len(p)
      BY <1>2
    <3> QED BY <1>1, <1>3, <3>1
  <2>2. PackFor(SubSeq(h, 1, Len(h) - 1), h[Len(h)]) = PackFor(p, L)
    BY <1>1, <1>5
  <2>3. 1 .. Len(h) = (1 .. Len(p)) \cup {Len(h)}
    BY <1>1, <1>2
  <2> QED BY <2>1, <2>2, <2>3 DEF PacksOf
<1> QED BY <1>1, <1>5, <1>6, <1>7 DEF h, Front

\* Content and packs of a ref are sets of claims and of packs.
LEMMA RootFacts ==
  ASSUME NEW h \in Ref
  PROVE  Root(h) \in Ledger
<1>1. CASE h = None
  BY <1>1 DEF Root, Ledger
<1>2. CASE h # None
  <2>1. Len(h) \in 1 .. Len(h) /\ h \in Seq(Ledger)
    BY <1>2, FrontFacts DEF Ref
  <2> QED BY <1>2, <2>1, ElementOfSeq DEF Root, Last
<1> QED BY <1>1, <1>2

----------------------------------------------------------------------------
(***************************************************************************)
(* Publish keeps its inductive invariant, and so its safety properties,    *)
(* whatever the stores, remotes, writers, claims and crashes.              *)
(***************************************************************************)

(***************************************************************************)
(* Types.                                                                  *)
(***************************************************************************)

\* load_or_create leaves a well-formed store.
LEMMA InitType == Init => TypeOK
BY StoresAssumption DEF Init, TypeOK, Ledger, Ref, None, Phase

\* A step of a store that is not publishing keeps every variable of its kind.
LEMMA TypeStoreStep ==
  ASSUME TypeOK, NEW s \in Store, StoreStep(s)
  PROVE  TypeOK'
<1>1. ASSUME NEW c \in Claim, AddClaim(s, c)
      PROVE  TypeOK'
  <2>1. UNCHANGED <<live, writer, last_ref, pending, ids, lost, pc, at, tip, captured,
                    settling, named, refs, marked, blank, packs, blobs>>
    BY <1>1 DEF AddClaim, processVars, remoteVars, refVars
  <2>2. claims' \in [Store -> Ledger] /\ minted' \in Ledger
    BY <1>1 DEF TypeOK, AddClaim, Ledger
  <2>3. loose' \in [Store -> Ledger]
    <3>1. loose \in [Store -> Ledger] /\ loose[s] \in Ledger
      BY DEF TypeOK
    <3>2. PICK L \in Ledger : loose' = [loose EXCEPT ![s] = L]
      BY <1>1, <3>1 DEF AddClaim, Ledger
    <3> QED BY <3>1, <3>2
  <2> QED BY <2>1, <2>2, <2>3 DEF TypeOK
<1>2. ASSUME NEW w \in Writer, Fork(s, w)
      PROVE  TypeOK'
  BY <1>2 DEF TypeOK, Fork, ForkedState, durableVars, processVars, remoteVars, refVars, Ref, None
<1>3. ASSUME NEW t \in Store, NEW ledger \in SUBSET claims[s], Copy(s, t, ledger)
      PROVE  TypeOK'
  BY <1>3 DEF TypeOK, Copy, processVars, remoteVars, refVars, Ledger
<1> QED BY <1>1, <1>2, <1>3 DEF StoreStep

\* The end of a publish forgets what its process held.
LEMMA TypeLeave ==
  ASSUME TypeOK, NEW s \in Store, Leave(s),
         claims' \in [Store -> Ledger], loose' \in [Store -> Ledger],
         lost' \in [Store -> Ledger],
         UNCHANGED <<live, writer, last_ref, pending, minted, ids, remoteVars>>
  PROVE  TypeOK'
<1>1. None \in Ref /\ {} \in Ledger
  BY DEF Ref, None, Ledger
<1>2. /\ pc' \in [Store -> Phase] /\ at' \in [Store -> Remote]
      /\ tip' \in [Store -> Ref] /\ captured' \in [Store -> Ledger]
      /\ settling' \in [Store -> BOOLEAN]
  <2> DEFINE R == Ref
  <2>1. None \in R /\ tip \in [Store -> R]
    BY <1>1 DEF TypeOK
  <2>2. pc' \in [Store -> Phase] /\ at' \in [Store -> Remote]
    BY DEF TypeOK, Leave, Phase
  <2> HIDE DEF R
  <2>3. tip' \in [Store -> R]
    BY <2>1 DEF Leave
  <2>4. captured' \in [Store -> Ledger] /\ settling' \in [Store -> BOOLEAN]
    BY <1>1 DEF TypeOK, Leave
  <2> QED BY <2>2, <2>3, <2>4 DEF R
<1>3. UNCHANGED <<live, writer, last_ref, pending, minted, ids,
                  named, refs, marked, blank, packs, blobs>>
  BY DEF remoteVars, refVars
<1> QED BY <1>2, <1>3 DEF TypeOK

\* Power takes claims from a log and nothing else from a disk.
LEMMA TypePowerLoss ==
  ASSUME TypeOK, NEW s \in Store, PowerLoss(s)
  PROVE  TypeOK'
<1>1. PICK gone \in SUBSET loose[s] :
         /\ claims' = [claims EXCEPT ![s] = @ \ gone]
         /\ lost' = [lost EXCEPT ![s] = @ \cup gone]
  BY DEF PowerLoss
<1>2. claims' \in [Store -> Ledger] /\ lost' \in [Store -> Ledger]
  BY <1>1 DEF TypeOK, Ledger
<1>3. loose' \in [Store -> Ledger]
  BY DEF PowerLoss, TypeOK, Ledger
<1> QED BY <1>2, <1>3, TypeLeave DEF PowerLoss

\* So does a step of publish.
LEMMA TypePublishStep ==
  ASSUME TypeOK, NEW s \in Store, PublishStep(s)
  PROVE  TypeOK'
<1> USE DEF TypeOK, Goto, storeVars, durableVars, remoteVars, refVars, Phase
<1>0. /\ Pending(s) \in Ref /\ at[s] \in Remote /\ writer[s] \in Writer
      /\ None \in Ref /\ {} \in Ledger
      /\ tip[s] \in Ref /\ captured[s] \in Ledger
  BY DEF Pending, Ref, None, Ledger
<1>1. CASE ReadTip(s)
  BY <1>0, <1>1 DEF ReadTip, Chain
<1>2. CASE NothingPending(s)
  BY <1>2 DEF NothingPending
<1>3. CASE AdoptPending(s)
  BY <1>0, <1>3 DEF AdoptPending, Settle, Recorded
<1>4. CASE RetryPending(s)
  BY <1>4 DEF RetryPending
<1>5. CASE CaptureLedger(s)
  BY <1>5 DEF CaptureLedger
<1>6. CASE PutBlob(s)
  BY <1>0, <1>6 DEF PutBlob, ContentOf, Ledger, processVars
<1>7. CASE FinishUnchanged(s)
  BY <1>0, <1>7 DEF FinishUnchanged, Leave
<1>8. CASE PutPack(s)
  <2>1. PackFor(tip[s], captured[s]) \in [root : Ledger, prior : SUBSET Ledger]
    BY <1>0, ElementOfSeq, LenProperties DEF PackFor, ToSet, Ref
  <2> QED BY <1>0, <1>8, <2>1 DEF PutPack
<1>9. CASE SavePending(s)
  <2>1. NextRef(s) \in Ref
    BY <1>0, AppendFacts DEF NextRef
  <2> QED BY <1>0, <1>9, <2>1 DEF SavePending
<1>10. CASE WriteRef(s)
  <2>1. Len(Pending(s)) \in Nat
    BY <1>0, LenProperties DEF Ref
  <2>2. CASE LinkRef(s)
    BY <1>0, <2>2 DEF LinkRef, Complete
  <2>3. CASE CreateSlot(s)
    BY <1>0, <2>1, <2>3 DEF CreateSlot
  <2>4. CASE MarkSlot(s)
    BY <1>0, <2>1, <2>4 DEF MarkSlot
  <2>5. CASE ResumeSlot(s)
    BY <2>5 DEF ResumeSlot
  <2>6. CASE FillSlot(s)
    BY <1>0, <2>6 DEF FillSlot, Complete
  <2>7. CASE FindRef(s)
    BY <2>7 DEF FindRef
  <2> QED BY <1>10, <2>2, <2>3, <2>4, <2>5, <2>6, <2>7 DEF WriteRef
<1>11. CASE SaveLastRef(s)
  <2>0. last_ref[s] \in [Remote -> Ref] /\ pending[s] \in [Remote -> Ref]
    OBVIOUS
  <2>1. last_ref' \in [Store -> [Remote -> Ref]] /\ pending' \in [Store -> [Remote -> Ref]]
    <3> DEFINE recorded == [last_ref[s] EXCEPT ![at[s]] = Pending(s)]
               settled == [pending[s] EXCEPT ![at[s]] = None]
    <3>1. recorded \in [Remote -> Ref] /\ settled \in [Remote -> Ref]
      BY <1>0, <2>0
    <3>2. /\ last_ref' = [last_ref EXCEPT ![s] = recorded]
          /\ pending' = [pending EXCEPT ![s] = settled]
      BY <1>11 DEF SaveLastRef, Settle, Recorded
    <3> HIDE DEF recorded, settled
    <3>3. last_ref' \in [Store -> [Remote -> Ref]]
      BY <3>1, <3>2
    <3>4. pending' \in [Store -> [Remote -> Ref]]
      BY <3>1, <3>2
    <3> QED BY <3>3, <3>4
  <2>2. /\ tip' \in [Store -> Ref] /\ captured' \in [Store -> Ledger]
        /\ settling' \in [Store -> BOOLEAN] /\ at' = at
    <3>1. settling' = [settling EXCEPT ![s] = FALSE] /\ at' = at
      BY <1>11 DEF SaveLastRef
    <3>2. tip' = tip \/ tip' = [tip EXCEPT ![s] = None]
      BY <1>11 DEF SaveLastRef
    <3>3. captured' = captured \/ captured' = [captured EXCEPT ![s] = {}]
      BY <1>11 DEF SaveLastRef
    <3>4. tip' \in [Store -> Ref]
      BY <1>0, <3>2
    <3>5. captured' \in [Store -> Ledger]
      BY <1>0, <3>3
    <3>6. settling' \in [Store -> BOOLEAN]
      BY <3>1
    <3> QED BY <3>1, <3>4, <3>5, <3>6, Zenon
  <2>3. pc' \in [Store -> Phase]
    BY <1>11 DEF SaveLastRef
  <2> QED BY <1>11, <2>1, <2>2, <2>3 DEF SaveLastRef, Settle
<1>12. CASE Refuse(s)
  BY <1>12, TypeLeave DEF Refuse
<1>13. CASE NameRemote(s) \/ FindName(s) \/ FillName(s)
  BY <1>0, <1>13 DEF NameRemote, FindName, FillName
<1>14. CASE FindDamage(s)
  BY <1>14 DEF FindDamage
<1> QED BY <1>1, <1>2, <1>3, <1>4, <1>5, <1>6, <1>7, <1>8, <1>9, <1>10, <1>11,
           <1>12, <1>13, <1>14 DEF PublishStep

\* Types are preserved by every step.
LEMMA TypeNext == TypeOK /\ [Next]_vars => TypeOK'
<1> SUFFICES ASSUME TypeOK, [Next]_vars PROVE TypeOK'
  OBVIOUS
<1>1. CASE UNCHANGED vars
  BY <1>1 DEF TypeOK, vars, storeVars, durableVars, processVars, remoteVars, refVars
<1>2. ASSUME NEW s \in Store, StoreStep(s) PROVE TypeOK'
  BY <1>2, TypeStoreStep
<1>3. ASSUME NEW s \in Store, NEW r \in Remote, BeginPublish(s, r) PROVE TypeOK'
  BY <1>3 DEF TypeOK, BeginPublish, Goto, storeVars, durableVars, remoteVars, refVars, Phase
<1>4. ASSUME NEW s \in Store, PublishStep(s) PROVE TypeOK'
  BY <1>4, TypePublishStep
<1>5. ASSUME NEW s \in Store, Crash(s) PROVE TypeOK'
  BY <1>5, TypeLeave DEF Crash, TypeOK, storeVars, durableVars
<1>6. ASSUME NEW s \in Store, PowerLoss(s) PROVE TypeOK'
  BY <1>6, TypePowerLoss
<1> QED BY <1>1, <1>2, <1>3, <1>4, <1>5, <1>6 DEF Next

(***************************************************************************)
(* Remotes only grow, so what is ready stays ready.                        *)
(***************************************************************************)

RemotesGrow ==
    \A r \in Remote :
        /\ packs[r] \subseteq packs'[r]
        /\ blobs[r] \subseteq blobs'[r]
        /\ \A w \in Writer : refs[r][w] \subseteq refs'[r][w]

\* A slot is completed for one writer on one remote, and by nothing else.
LEMMA CompleteFacts ==
  ASSUME TypeOK, NEW s \in Store, Complete(s)
  PROVE  /\ \A r \in Remote, w \in Writer :
               IF r = at[s] /\ w = writer[s]
               THEN /\ refs'[r][w] = refs[r][w] \cup {Pending(s)}
                    /\ marked'[r][w] = marked[r][w] \ {Pending(s)}
               ELSE /\ refs'[r][w] = refs[r][w]
                    /\ marked'[r][w] = marked[r][w]
         /\ UNCHANGED <<named, blank, packs, blobs>>
         /\ RemotesGrow
<1>1. at[s] \in Remote /\ writer[s] \in Writer
  BY DEF TypeOK
<1>2. /\ refs' = [refs EXCEPT ![at[s]][writer[s]] = @ \cup {Pending(s)}]
      /\ marked' = [marked EXCEPT ![at[s]][writer[s]] = @ \ {Pending(s)}]
      /\ UNCHANGED <<named, blank, packs, blobs>>
  BY DEF Complete
<1>3. ASSUME NEW r \in Remote, NEW w \in Writer
      PROVE  IF r = at[s] /\ w = writer[s]
             THEN /\ refs'[r][w] = refs[r][w] \cup {Pending(s)}
                  /\ marked'[r][w] = marked[r][w] \ {Pending(s)}
             ELSE /\ refs'[r][w] = refs[r][w]
                  /\ marked'[r][w] = marked[r][w]
  BY <1>1, <1>2 DEF TypeOK
<1>4. RemotesGrow
  BY <1>2, <1>3 DEF RemotesGrow
<1> QED BY <1>2, <1>3, <1>4

\* No step takes a ref, a pack or a blob away from a remote.
LEMMA GrowStep ==
  ASSUME TypeOK, [Next]_vars
  PROVE  RemotesGrow
<1> USE DEF TypeOK, remoteVars, refVars, RemotesGrow
<1>1. CASE UNCHANGED vars
  BY <1>1 DEF vars
<1>2. ASSUME NEW s \in Store, StoreStep(s) PROVE RemotesGrow
  BY <1>2 DEF StoreStep, AddClaim, Fork, Copy
<1>3. ASSUME NEW s \in Store, NEW r \in Remote, BeginPublish(s, r) PROVE RemotesGrow
  BY <1>3 DEF BeginPublish
<1>4. ASSUME NEW s \in Store, PublishStep(s) PROVE RemotesGrow
  <2>1. CASE PutBlob(s)
    BY <2>1 DEF PutBlob
  <2>2. CASE PutPack(s)
    BY <2>2 DEF PutPack
  <2>3. CASE WriteRef(s)
    <3>1. CASE Complete(s)
      BY <3>1, CompleteFacts
    <3>2. CASE UNCHANGED <<refs, packs, blobs>>
      BY <3>2
    <3> QED
      BY <2>3, <3>1, <3>2
      DEF WriteRef, LinkRef, CreateSlot, MarkSlot, ResumeSlot, FillSlot, FindRef
  <2>4. CASE UNCHANGED refVars
    BY <2>4
  <2> QED
    BY <1>4, <2>1, <2>2, <2>3, <2>4
    DEF PublishStep, NameRemote, FindName, FillName, ReadTip, NothingPending, AdoptPending,
        RetryPending, CaptureLedger, FindDamage, FinishUnchanged, SavePending, SaveLastRef,
        Refuse
<1>5. ASSUME NEW s \in Store, Crash(s) \/ PowerLoss(s) PROVE RemotesGrow
  BY <1>5 DEF Crash, PowerLoss
<1> QED BY <1>1, <1>2, <1>3, <1>4, <1>5 DEF Next

\* What made a ref ready to be shown stays on the remote.
LEMMA ReadyGrows ==
  ASSUME RemotesGrow, NEW r \in Remote, NEW w \in Writer, NEW h, Ready(r, w, h)
  PROVE  Ready(r, w, h)'
BY DEF RemotesGrow, Ready

\* A ready ref is at most one slot beyond every slot that the refs of its
\* writer stop short of.
LEMMA ReadyReach ==
  ASSUME NEW r \in Remote, NEW w \in Writer, NEW h \in Ref, Ready(r, w, h),
         NEW n \in Nat \ {0}, \A g \in refs[r][w] : Len(g) < n
  PROVE  Len(h) <= n
<1>1. h # None /\ Len(h) \in Nat \ {0} /\ Len(Front(h)) = Len(h) - 1
  BY FrontFacts DEF Ready
<1>2. CASE Front(h) \in refs[r][w]
  BY <1>1, <1>2
<1>3. CASE Front(h) = None
  <2>1. Len(Front(h)) = 0
    BY <1>3, EmptySeq DEF None
  <2>2. Len(h) = 1
    BY <1>1, <2>1
  <2>3. n >= 1
    OBVIOUS
  <2> QED BY <2>2, <2>3
<1> QED BY <1>2, <1>3 DEF Ready

(***************************************************************************)
(* Invariants over steps that leave what they speak of alone.              *)
(***************************************************************************)

RemoteInv == RefsInv /\ MarkedInv /\ BlankInv

\* A step that leaves a remote alone keeps what is said of its refs and slots.
LEMMA RemoteKept ==
  ASSUME RemoteInv, RemotesGrow, UNCHANGED <<refs, marked, blank>>
  PROVE  RemoteInv'
<1>1. RefsInv'
  BY ReadyGrows DEF RemoteInv, RefsInv
<1>2. MarkedInv'
  BY ReadyGrows DEF RemoteInv, MarkedInv
<1>3. BlankInv'
  BY DEF RemoteInv, BlankInv
<1> QED BY <1>1, <1>2, <1>3 DEF RemoteInv

\* A step that leaves stores alone keeps what is said of writer.json.
LEMMA StateKept ==
  ASSUME TypeOK, RemotesGrow, NEW s \in Store, StateOk(s),
         UNCHANGED <<writer[s], last_ref[s], pending[s]>>
  PROVE  StateOk(s)'
<1>1. writer[s] \in Writer
  BY DEF TypeOK
<1>2. ASSUME NEW r \in Remote
      PROVE  /\ refs[r][writer[s]] \subseteq refs'[r][writer[s]]
             /\ Ready(r, writer[s], pending[s][r]) => Ready(r, writer[s], pending[s][r])'
  BY <1>1, ReadyGrows DEF RemotesGrow
<1> QED BY <1>1, <1>2 DEF StateOk

\* The process of another store sees no difference, whoever writes the slots.
LEMMA ProcessKept ==
  ASSUME TypeOK, RemotesGrow, NEW s \in Store, ProcessOk(s), live \subseteq live',
         UNCHANGED <<pc[s], at[s], tip[s], captured[s]>>,
         UNCHANGED <<writer[s], last_ref[s], pending[s]>>,
         pc[s] = "mark" => Len(Pending(s)) \in blank'[at[s]][writer[s]],
         pc[s] = "fill" => SlotIsOurs(s)' \/ SlotHasIt(s)'
  PROVE  ProcessOk(s)'
<1>1. writer[s] \in Writer /\ at[s] \in Remote
  BY DEF TypeOK
<1>2. /\ refs[at[s]][writer[s]] \subseteq refs'[at[s]][writer[s]]
      /\ packs[at[s]] \subseteq packs'[at[s]]
      /\ blobs[at[s]] \subseteq blobs'[at[s]]
  BY <1>1 DEF RemotesGrow
<1> QED
  BY <1>2 DEF ProcessOk, Chain, Pending, LastRef, Uploaded, HasNewNodes, SlotHasIt

(***************************************************************************)
(* Writing a slot.                                                         *)
(***************************************************************************)

\* A free slot that a ready ref can take lies behind every complete ref.
LEMMA FreeIsBehind ==
  ASSUME TypeOK, RemoteInv, NEW r \in Remote, NEW w \in Writer, NEW h \in Ref,
         h # None, ~Taken(r, w, Len(h)), NEW g \in refs[r][w]
  PROVE  Len(g) < Len(h)
<1>0. Ready(r, w, g)
  BY DEF RemoteInv, RefsInv
<1>1. g \in Ref /\ g # None
  BY <1>0 DEF TypeOK, Ready
<1>2. Len(h) \in Nat \ {0} /\ Len(g) \in Nat \ {0}
  BY <1>1, FrontFacts
<1>3. Len(g) # Len(h)
  BY DEF Taken
<1>4. CASE Len(h) < Len(g)
  <2>1. Len(h) \in 1 .. Len(g) /\ Len(h) \in 0 .. Len(g)
    BY <1>2, <1>4
  <2>2. SubSeq(g, 1, Len(h)) \in refs[r][w]
    BY <2>1 DEF RemoteInv, RefsInv
  <2>3. Len(SubSeq(g, 1, Len(h))) = Len(h)
    BY <1>1, <2>1, PrefixFacts
  <2> QED BY <2>2, <2>3 DEF Taken
<1> QED BY <1>2, <1>3, <1>4

\* The ref that takes a free slot, or a reservation of its own, is the next in
\* line: every ref is before it and every other reservation behind it.
LEMMA NextInLine ==
  ASSUME TypeOK, RemoteInv, NEW r \in Remote, NEW w \in Writer, NEW h \in Ref,
         Ready(r, w, h), h \in marked[r][w] \/ ~Taken(r, w, Len(h))
  PROVE  /\ \A g \in refs[r][w] : Len(g) < Len(h)
         /\ \A n \in blank[r][w] : Len(h) < n
         /\ \A g \in marked[r][w] : g # h => Len(h) < Len(g)
<1>1. h # None /\ Len(h) \in Nat \ {0}
  BY FrontFacts DEF Ready
<1>2. \A g \in refs[r][w] : Len(g) < Len(h)
  BY <1>1, FreeIsBehind DEF RemoteInv, MarkedInv
<1>3. ASSUME NEW n \in blank[r][w]
      PROVE  Len(h) < n
  <2>1. n \in Nat \ {0} /\ \A g \in refs[r][w] : Len(g) < n
    BY DEF TypeOK, RemoteInv, BlankInv
  <2>2. Len(h) # n
    BY DEF RemoteInv, MarkedInv, Taken
  <2>3. Len(h) <= n
    BY <2>1, ReadyReach
  <2> QED BY <1>1, <2>1, <2>2, <2>3
<1>4. ASSUME NEW g \in marked[r][w], g # h
      PROVE  Len(h) < Len(g)
  <2>1. g \in Ref /\ g # None /\ \A k \in refs[r][w] : Len(k) < Len(g)
    BY DEF TypeOK, RemoteInv, MarkedInv, Ready
  <2>2. Len(g) \in Nat \ {0}
    BY <2>1, FrontFacts
  <2>3. Len(h) # Len(g)
    BY <1>4 DEF RemoteInv, MarkedInv, Taken
  <2>4. Len(h) <= Len(g)
    BY <2>1, <2>2, ReadyReach
  <2> QED BY <1>1, <2>2, <2>3, <2>4
<1> QED BY <1>2, <1>3, <1>4

\* Completing a slot keeps the line.
LEMMA CompleteKeeps ==
  ASSUME TypeOK, RemoteInv, NEW s \in Store, Complete(s),
         Ready(at[s], writer[s], Pending(s)),
         SlotHasIt(s) \/ SlotIsOurs(s) \/ SlotFree(s)
  PROVE  RemoteInv'
<1> DEFINE h == Pending(s)
           r0 == at[s]
           w0 == writer[s]
<1>1. r0 \in Remote /\ w0 \in Writer /\ h \in Ref /\ Ready(r0, w0, h)
  BY DEF TypeOK, Pending
<1>2. /\ \A r \in Remote, w \in Writer :
             IF r = r0 /\ w = w0
             THEN /\ refs'[r][w] = refs[r][w] \cup {h}
                  /\ marked'[r][w] = marked[r][w] \ {h}
             ELSE /\ refs'[r][w] = refs[r][w]
                  /\ marked'[r][w] = marked[r][w]
      /\ blank' = blank
      /\ RemotesGrow
  BY CompleteFacts
<1>3. CASE h \in refs[r0][w0]
  <2>1. h \notin marked[r0][w0]
    BY <1>1, <1>3, FrontFacts DEF RemoteInv, MarkedInv, Ready
  <2>2. \A r \in Remote, w \in Writer :
           refs'[r][w] = refs[r][w] /\ marked'[r][w] = marked[r][w]
    <3> TAKE r \in Remote, w \in Writer
    <3>1. CASE r = r0 /\ w = w0
      <4>1. /\ refs[r0][w0] \cup {h} = refs[r0][w0]
            /\ marked[r0][w0] \ {h} = marked[r0][w0]
        BY <1>3, <2>1
      <4> QED BY <1>2, <3>1, <4>1
    <3>2. CASE ~(r = r0 /\ w = w0)
      BY <1>2, <3>2
    <3> QED BY <3>1, <3>2
  <2>3. RefsInv'
    BY <1>2, <2>2, ReadyGrows DEF RemoteInv, RefsInv
  <2>4. MarkedInv'
    BY <1>2, <2>2, ReadyGrows DEF RemoteInv, MarkedInv
  <2>5. BlankInv'
    BY <1>2, <2>2 DEF RemoteInv, BlankInv
  <2> QED BY <2>3, <2>4, <2>5 DEF RemoteInv
<1>4. CASE h \notin refs[r0][w0]
  <2>1. h \in marked[r0][w0] \/ ~Taken(r0, w0, Len(h))
    BY <1>4 DEF SlotHasIt, SlotIsOurs, SlotFree, Chain
  <2>2. /\ \A g \in refs[r0][w0] : Len(g) < Len(h)
        /\ \A n \in blank[r0][w0] : Len(h) < n
        /\ \A g \in marked[r0][w0] : g # h => Len(h) < Len(g)
    BY <1>1, <2>1, NextInLine
  <2>3. /\ h # None /\ Len(h) \in Nat \ {0}
        /\ Front(h) \in refs[r0][w0] \cup {None}
        /\ SubSeq(h, 1, Len(h)) = h
        /\ \A n \in 1 .. Len(h) - 1 : SubSeq(h, 1, n) = SubSeq(Front(h), 1, n)
        /\ Len(Front(h)) = Len(h) - 1
    BY <1>1, FrontFacts DEF Ready
  <2>4. \A n \in 1 .. Len(h) : SubSeq(h, 1, n) \in refs'[r0][w0]
    <3> TAKE n \in 1 .. Len(h)
    <3>1. CASE n = Len(h)
      BY <1>1, <1>2, <2>3, <3>1
    <3>2. CASE n # Len(h)
      <4>1. n \in 1 .. Len(Front(h)) /\ n \in 1 .. Len(h) - 1
        BY <2>3, <3>2
      <4>2. Front(h) # None
        BY <4>1, EmptySeq DEF None
      <4>3. SubSeq(Front(h), 1, n) \in refs[r0][w0]
        BY <1>1, <2>3, <4>1, <4>2 DEF RemoteInv, RefsInv
      <4> QED BY <1>1, <1>2, <2>3, <4>1, <4>3
    <3> QED BY <3>1, <3>2
  <2>5. RefsInv'
    <3> SUFFICES ASSUME NEW r \in Remote, NEW w \in Writer, NEW g \in refs'[r][w]
                 PROVE  /\ Ready(r, w, g)'
                        /\ \A n \in 1 .. Len(g) : SubSeq(g, 1, n) \in refs'[r][w]
                        /\ \A k \in refs'[r][w] : Len(k) = Len(g) => k = g
      BY DEF RefsInv
    <3>1. CASE g \in refs[r][w]
      <4>1. Ready(r, w, g)'
        BY <1>2, <3>1, ReadyGrows DEF RemoteInv, RefsInv
      <4>2. \A n \in 1 .. Len(g) : SubSeq(g, 1, n) \in refs'[r][w]
        BY <1>2, <3>1 DEF RemoteInv, RefsInv
      <4>3. \A k \in refs'[r][w] : Len(k) = Len(g) => k = g
        BY <1>2, <2>2, <2>3, <3>1 DEF RemoteInv, RefsInv
      <4> QED BY <4>1, <4>2, <4>3
    <3>2. CASE g \notin refs[r][w]
      <4>1. g = h /\ r = r0 /\ w = w0
        BY <1>2, <3>2
      <4>2. Ready(r, w, g)'
        BY <1>1, <1>2, <4>1, ReadyGrows
      <4>3. \A k \in refs'[r][w] : Len(k) = Len(g) => k = g
        BY <1>1, <1>2, <2>2, <2>3, <4>1
      <4> QED BY <2>4, <4>1, <4>2, <4>3
    <3> QED BY <3>1, <3>2
  <2>6. MarkedInv'
    <3> SUFFICES ASSUME NEW r \in Remote, NEW w \in Writer, NEW g \in marked'[r][w]
                 PROVE  /\ Ready(r, w, g)'
                        /\ Len(g) \notin blank'[r][w]
                        /\ \A k \in refs'[r][w] : Len(k) < Len(g)
                        /\ \A k \in marked'[r][w] : Len(k) = Len(g) => k = g
      BY DEF MarkedInv
    <3>1. g \in marked[r][w]
      BY <1>2
    <3>2. Ready(r, w, g)'
      BY <1>2, <3>1, ReadyGrows DEF RemoteInv, MarkedInv
    <3>3. \A k \in refs'[r][w] : Len(k) < Len(g)
      BY <1>2, <2>2, <3>1 DEF RemoteInv, MarkedInv
    <3>4. /\ Len(g) \notin blank'[r][w]
          /\ \A k \in marked'[r][w] : Len(k) = Len(g) => k = g
      BY <1>2, <3>1 DEF RemoteInv, MarkedInv
    <3> QED BY <3>2, <3>3, <3>4
  <2>7. BlankInv'
    BY <1>2, <2>2 DEF RemoteInv, BlankInv
  <2> QED BY <2>5, <2>6, <2>7 DEF RemoteInv
<1> QED BY <1>3, <1>4

(***************************************************************************)
(* Steps that write no slot.                                               *)
(***************************************************************************)

\* A step of one store and its publisher, the slots of every writer unchanged.
LEMMA LocalStep ==
  ASSUME Inductive, [Next]_vars, NEW s \in Store,
         UNCHANGED <<refs, marked, blank>>, live \subseteq live', LogsInv',
         \A t \in Store \ {s} :
            /\ UNCHANGED <<pc[t], at[t], tip[t], captured[t]>>
            /\ UNCHANGED <<writer[t], last_ref[t], pending[t]>>,
         StateOk(s)', ProcessOk(s)', pc'[s] # "mark"
  PROVE  Inductive'
<1>1. TypeOK /\ TypeOK' /\ RemotesGrow /\ RemoteInv
  BY TypeNext, GrowStep DEF Inductive, RemoteInv
<1>2. RemoteInv'
  BY <1>1, RemoteKept
<1>3. StateInv'
  <2> SUFFICES ASSUME NEW t \in Store \ {s} PROVE StateOk(t)'
    BY DEF StateInv
  <2> QED BY <1>1, StateKept DEF Inductive, StateInv
<1>4. ProcessInv'
  <2> SUFFICES ASSUME NEW t \in Store \ {s} PROVE ProcessOk(t)'
    BY DEF ProcessInv
  <2>1. ProcessOk(t) /\ UNCHANGED <<pc[t], at[t], tip[t], captured[t]>>
        /\ UNCHANGED <<writer[t], last_ref[t], pending[t]>>
    BY DEF Inductive, ProcessInv
  <2>2. pc[t] = "mark" => Len(Pending(t)) \in blank'[at[t]][writer[t]]
    BY <2>1 DEF ProcessOk
  <2>3. pc[t] = "fill" => SlotIsOurs(t)' \/ SlotHasIt(t)'
    BY <2>1 DEF ProcessOk, SlotIsOurs, SlotHasIt, Chain, Pending
  <2> QED BY <1>1, <2>1, <2>2, <2>3, ProcessKept
<1>5. OwnerInv'
  BY DEF Inductive, OwnerInv, Pending
<1> QED BY <1>1, <1>2, <1>3, <1>4, <1>5 DEF Inductive, RemoteInv

\* A step of a publisher in its own memory, or a put_blob or put_pack.
LEMMA MemoryStep ==
  ASSUME Inductive, [Next]_vars, NEW s \in Store,
         UNCHANGED <<refs, marked, blank, storeVars>>,
         \A t \in Store \ {s} : UNCHANGED <<pc[t], at[t], tip[t], captured[t]>>,
         ProcessOk(s)', pc'[s] # "mark"
  PROVE  Inductive'
<1>1. LogsInv'
  BY DEF Inductive, LogsInv, storeVars, durableVars
<1>2. StateOk(s)'
  BY StateKept, GrowStep DEF Inductive, StateInv, storeVars, durableVars
<1> QED BY <1>1, <1>2, LocalStep DEF storeVars, durableVars

\* Appending a claim to a log keeps the invariant.
LEMMA AddClaimStep ==
  ASSUME Inductive, [Next]_vars, NEW s \in Store, NEW c \in Claim, AddClaim(s, c)
  PROVE  Inductive'
<1>1. LogsInv'
  BY DEF AddClaim, Inductive, TypeOK, LogsInv, Closed, Ledger
<1>2. UNCHANGED <<live, writer, last_ref, pending, pc, at, tip, captured, refs,
                  marked, blank>>
  BY DEF AddClaim, processVars, remoteVars, refVars
<1>3. RemotesGrow /\ TypeOK /\ StateOk(s) /\ ProcessOk(s) /\ pc[s] = "idle"
  BY GrowStep DEF AddClaim, Inductive, StateInv, ProcessInv
<1>4. StateOk(s)' /\ ProcessOk(s)'
  BY <1>2, <1>3, StateKept, ProcessKept
<1> QED BY <1>1, <1>2, <1>3, <1>4, LocalStep

\* So does a fork: the new ID has no refs anywhere.
LEMMA ForkStep ==
  ASSUME Inductive, [Next]_vars, NEW s \in Store, NEW w \in Writer, Fork(s, w)
  PROVE  Inductive'
<1>1. LogsInv'
  BY DEF Fork, Inductive, LogsInv
<1>2. /\ UNCHANGED <<live, pc, at, tip, captured, refs, marked, blank>>
      /\ pc[s] = "idle" /\ TypeOK /\ ProcessOk(s)
      /\ \A t \in Store \ {s} : UNCHANGED <<writer[t], last_ref[t], pending[t]>>
      /\ \A r \in Remote : last_ref'[s][r] = None /\ pending'[s][r] = None
  BY DEF Fork, ForkedState, processVars, remoteVars, refVars, Inductive, TypeOK, ProcessInv
<1>3. StateOk(s)'
  BY <1>2 DEF StateOk
<1>4. ProcessOk(s)'
  BY <1>2 DEF ProcessOk, Chain, SlotHasIt, SlotIsOurs
<1> QED BY <1>1, <1>2, <1>3, <1>4, LocalStep

\* So does a copy: its writer.json says what the original's says.
LEMMA CopyStep ==
  ASSUME Inductive, [Next]_vars, NEW s \in Store, NEW t \in Store,
         NEW ledger \in SUBSET claims[s], Copy(s, t, ledger)
  PROVE  Inductive'
<1>1. LogsInv'
  BY DEF Copy, Inductive, TypeOK, LogsInv
<1>2. /\ UNCHANGED <<pc, at, tip, captured, refs, marked, blank, packs, blobs>>
      /\ live \subseteq live' /\ TypeOK
      /\ \A x \in Store \ {t} : UNCHANGED <<writer[x], last_ref[x], pending[x]>>
      /\ writer'[t] = writer[s] /\ last_ref'[t] = last_ref[s]
      /\ pending'[t] = pending[s]
  BY DEF Copy, processVars, remoteVars, refVars, Inductive, TypeOK
<1>3. StateOk(s) /\ ProcessOk(t) /\ pc[t] = "idle" /\ tip[t] = None
  BY DEF Copy, Inductive, StateInv, ProcessInv, ProcessOk
<1>4. StateOk(t)'
  BY <1>2, <1>3 DEF StateOk, Ready
<1>5. ProcessOk(t)'
  BY <1>2, <1>3 DEF ProcessOk
<1> QED BY <1>1, <1>2, <1>3, <1>4, <1>5, LocalStep

\* Beginning to publish keeps the invariant.
LEMMA BeginPublishStep ==
  ASSUME Inductive, [Next]_vars, NEW s \in Store, NEW r \in Remote, BeginPublish(s, r)
  PROVE  Inductive'
<1>1. /\ UNCHANGED <<tip, captured, storeVars, refs, marked, blank>>
      /\ s \in live /\ pc'[s] \in {"tip", "name"} /\ tip[s] = None
      /\ \A t \in Store \ {s} : UNCHANGED <<pc[t], at[t]>>
  BY DEF BeginPublish, Goto, remoteVars, refVars, Inductive, TypeOK, ProcessInv, ProcessOk
<1>2. ProcessOk(s)'
  BY <1>1 DEF ProcessOk, storeVars, durableVars
<1> QED BY <1>1, <1>2, MemoryStep

\* Naming the remote, or finding damage, changes what no other step relies on.
LEMMA NameOrDamageStep ==
  ASSUME Inductive, [Next]_vars, NEW s \in Store,
         NameRemote(s) \/ FindName(s) \/ FillName(s) \/ FindDamage(s)
  PROVE  Inductive'
<1>1. /\ UNCHANGED <<at, tip, captured, storeVars, refs, marked, blank>>
      /\ pc[s] # "idle" /\ pc'[s] \in {"tip", "naming", "damaged"} /\ ProcessOk(s)
      /\ \A t \in Store \ {s} : UNCHANGED pc[t]
  BY DEF NameRemote, FindName, FillName, FindDamage, Goto, remoteVars, refVars, Inductive,
         TypeOK, ProcessInv
<1>2. ProcessOk(s)'
  BY <1>1 DEF ProcessOk, storeVars, durableVars, Chain
<1> QED BY <1>1, <1>2, MemoryStep

\* The steps up to the choice of what to publish.
LEMMA ReadTipStep ==
  ASSUME Inductive, [Next]_vars, NEW s \in Store, ReadTip(s)
  PROVE  Inductive'
<1>1. /\ UNCHANGED <<at, captured, storeVars, refs, marked, blank>>
      /\ s \in live /\ pc'[s] = "reconcile"
      /\ tip'[s] \in Chain(s) \cup {None}
      /\ \A t \in Store \ {s} : UNCHANGED <<pc[t], tip[t]>>
  BY DEF ReadTip, Goto, remoteVars, refVars, Inductive, TypeOK, ProcessInv, ProcessOk
<1>2. ProcessOk(s)'
  BY <1>1 DEF ProcessOk, storeVars, durableVars, Chain
<1> QED BY <1>1, <1>2, MemoryStep

\* Finding no pending ref keeps the invariant.
LEMMA NothingPendingStep ==
  ASSUME Inductive, [Next]_vars, NEW s \in Store, NothingPending(s)
  PROVE  Inductive'
<1>1. /\ UNCHANGED <<at, tip, captured, storeVars, refs, marked, blank>>
      /\ pc[s] = "reconcile" /\ pc'[s] = "compare" /\ Pending(s) = None /\ ProcessOk(s)
      /\ \A t \in Store \ {s} : UNCHANGED pc[t]
  BY DEF NothingPending, Goto, remoteVars, refVars, Inductive, TypeOK, ProcessInv
<1>2. ProcessOk(s)'
  BY <1>1 DEF ProcessOk, storeVars, durableVars, Chain, Pending
<1> QED BY <1>1, <1>2, MemoryStep

\* Sending the pending ref again keeps the invariant.
LEMMA RetryPendingStep ==
  ASSUME Inductive, [Next]_vars, NEW s \in Store, RetryPending(s)
  PROVE  Inductive'
<1>1. /\ UNCHANGED <<at, tip, captured, storeVars, refs, marked, blank>>
      /\ pc[s] = "reconcile" /\ pc'[s] = "claim" /\ Pending(s) # None /\ ProcessOk(s)
      /\ \A t \in Store \ {s} : UNCHANGED pc[t]
  BY DEF RetryPending, PendingMatches, Goto, remoteVars, refVars, Inductive, TypeOK, ProcessInv
<1>2. ProcessOk(s)'
  BY <1>1 DEF ProcessOk, storeVars, durableVars, Chain, Pending
<1> QED BY <1>1, <1>2, MemoryStep

\* Capturing the logs keeps the invariant.
LEMMA CaptureLedgerStep ==
  ASSUME Inductive, [Next]_vars, NEW s \in Store, CaptureLedger(s)
  PROVE  Inductive'
<1>1. /\ UNCHANGED <<at, tip, storeVars, refs, marked, blank>>
      /\ pc[s] = "compare" /\ pc'[s] = "content" /\ ProcessOk(s)
      /\ captured'[s] = claims[s] /\ Closed(claims[s])
      /\ \A t \in Store \ {s} : UNCHANGED <<pc[t], captured[t]>>
  BY DEF CaptureLedger, Goto, remoteVars, refVars, Inductive, TypeOK, ProcessInv, LogsInv
<1>2. tip[s] = LastRef(s) /\ Root(tip[s]) \subseteq captured'[s]
  BY <1>1 DEF CaptureLedger, TipIsLast, PriorKept
<1>3. ProcessOk(s)'
  BY <1>1, <1>2 DEF ProcessOk, storeVars, durableVars, Chain, Pending, LastRef
<1> QED BY <1>1, <1>3, MemoryStep

\* Uploading content keeps the invariant.
LEMMA PutBlobStep ==
  ASSUME Inductive, [Next]_vars, NEW s \in Store, PutBlob(s)
  PROVE  Inductive'
<1>1. /\ UNCHANGED <<pc, at, tip, captured, storeVars, refs, marked, blank>>
      /\ pc[s] = "content" /\ ProcessOk(s) /\ TypeOK /\ RemotesGrow
  BY GrowStep DEF PutBlob, processVars, Inductive, ProcessInv
<1>2. ProcessOk(s)'
  BY <1>1, ProcessKept DEF storeVars, durableVars
<1> QED BY <1>1, <1>2, MemoryStep

\* Uploading a pack keeps the invariant.
LEMMA PutPackStep ==
  ASSUME Inductive, [Next]_vars, NEW s \in Store, PutPack(s)
  PROVE  Inductive'
<1>1. /\ UNCHANGED <<at, tip, captured, storeVars, refs, marked, blank, blobs>>
      /\ pc[s] = "content" /\ pc'[s] = "save" /\ ProcessOk(s)
      /\ Uploaded(s) /\ HasNewNodes(s)
      /\ \A t \in Store \ {s} : UNCHANGED pc[t]
  BY DEF PutPack, Goto, Inductive, TypeOK, ProcessInv
<1>2. PackFor(tip[s], captured[s]) \in packs'[at[s]]
  BY DEF PutPack, Inductive, TypeOK
<1>3. ProcessOk(s)'
  BY <1>1, <1>2 DEF ProcessOk, storeVars, durableVars, Chain, Pending, LastRef, Uploaded,
                      HasNewNodes
<1> QED BY <1>1, <1>3, MemoryStep

\* The end of a run.
LEMMA LeaveStep ==
  ASSUME Inductive, [Next]_vars, NEW s \in Store, Leave(s),
         UNCHANGED <<storeVars, remoteVars>>
  PROVE  Inductive'
<1>1. /\ UNCHANGED <<at, storeVars, refs, marked, blank>>
      /\ pc'[s] = "idle" /\ tip'[s] = None
      /\ \A t \in Store \ {s} : UNCHANGED <<pc[t], tip[t], captured[t]>>
  BY DEF Leave, remoteVars, refVars, Inductive, TypeOK
<1>2. ProcessOk(s)'
  BY <1>1 DEF ProcessOk
<1> QED BY <1>1, <1>2, MemoryStep

\* A power failure leaves logs that are still closed under references.
LEMMA PowerLossStep ==
  ASSUME Inductive, [Next]_vars, NEW s \in Store, PowerLoss(s)
  PROVE  Inductive'
<1>1. /\ UNCHANGED <<live, at, writer, last_ref, pending, refs, marked, blank>>
      /\ pc'[s] = "idle" /\ tip'[s] = None
      /\ \A t \in Store \ {s} : UNCHANGED <<pc[t], tip[t], captured[t]>>
  BY DEF PowerLoss, Leave, remoteVars, refVars, Inductive, TypeOK
<1>2. LogsInv'
  <2>1. PICK gone \in SUBSET loose[s] :
           /\ Closed(claims[s] \ gone)
           /\ claims' = [claims EXCEPT ![s] = @ \ gone]
    BY DEF PowerLoss
  <2>2. /\ claims'[s] = claims[s] \ gone
        /\ \A t \in Store \ {s} : claims'[t] = claims[t]
    BY <2>1 DEF Inductive, TypeOK
  <2> QED BY <2>1, <2>2 DEF Inductive, LogsInv
<1>3. StateOk(s)' /\ ProcessOk(s)'
  BY <1>1, StateKept, GrowStep DEF Inductive, StateInv, ProcessOk
<1> QED BY <1>1, <1>2, <1>3, LocalStep

\* The ref saved in writer.json is ready: its content and its pack are on the
\* remote, and so is the ref it continues.
LEMMA SavePendingStep ==
  ASSUME Inductive, [Next]_vars, NEW s \in Store, SavePending(s)
  PROVE  Inductive'
<1> DEFINE r0 == at[s]
           w0 == writer[s]
           p  == tip[s]
           h  == NextRef(s)
<1>1. /\ UNCHANGED <<at, tip, captured, live, claims, writer, last_ref>>
      /\ UNCHANGED <<refs, marked, blank, packs, blobs>>
      /\ pc[s] = "save" /\ pc'[s] = "claim"
      /\ \A t \in Store \ {s} : UNCHANGED <<pc[t], pending[t]>>
      /\ pending'[s][r0] = h
      /\ \A r \in Remote \ {r0} : pending'[s][r] = pending[s][r]
  BY DEF SavePending, Goto, remoteVars, refVars, Inductive, TypeOK
<1>2. /\ r0 \in Remote /\ w0 \in Writer /\ p \in Ref /\ captured[s] \in Ledger
      /\ ProcessOk(s) /\ StateOk(s)
  BY DEF Inductive, TypeOK, ProcessInv, StateInv
<1>3. /\ p \in refs[r0][w0] \cup {None} /\ p = last_ref[s][r0]
      /\ Root(p) \subseteq captured[s] /\ Closed(captured[s])
      /\ Uploaded(s) /\ HasNewNodes(s) /\ PackFor(p, captured[s]) \in packs[r0]
  BY <1>1, <1>2 DEF ProcessOk, Chain, LastRef
<1>4. /\ h # None /\ Front(h) = p /\ Root(h) = captured[s]
      /\ PacksOf(h) = PacksOf(p) \cup {PackFor(p, captured[s])}
  BY <1>2, AppendFacts DEF NextRef
<1>5. PacksOf(p) \subseteq packs[r0]
  <2>1. CASE p = None
    BY <2>1 DEF PacksOf, None
  <2>2. CASE p \in refs[r0][w0]
    BY <1>2, <2>2 DEF Inductive, RefsInv, Ready
  <2> QED BY <1>3, <2>1, <2>2
<1>6. p # None => Root(p) # captured[s]
  <2>1. SUFFICES ASSUME p # None PROVE Root(p) \in ToSet(p)
    BY <1>3 DEF HasNewNodes
  <2>2. Len(p) \in 1 .. Len(p) /\ DOMAIN p = 1 .. Len(p)
    BY <1>2, <2>1, FrontFacts, LenProperties DEF Ref
  <2> QED BY <2>1, <2>2 DEF Root, Last, ToSet
<1>7. Ready(r0, w0, h)
  BY <1>3, <1>4, <1>5, <1>6 DEF Ready, Uploaded
<1>8. StateOk(s)'
  <2> SUFFICES ASSUME NEW r \in Remote
               PROVE  /\ last_ref[s][r] \in refs[r][w0] \cup {None}
                      /\ pending'[s][r] # None =>
                            /\ Ready(r, w0, pending'[s][r])
                            /\ Front(pending'[s][r]) = last_ref[s][r]
    BY <1>1 DEF StateOk, Ready
  <2> QED BY <1>1, <1>2, <1>3, <1>4, <1>7 DEF StateOk
<1>9. ProcessOk(s)'
  BY <1>1, <1>2, <1>4 DEF ProcessOk, Chain, Pending
<1>10. LogsInv'
  BY <1>1 DEF Inductive, LogsInv
<1> QED BY <1>1, <1>8, <1>9, <1>10, LocalStep

\* What writer.json says once the pending ref is published.
LEMMA SettleState ==
  ASSUME Inductive, NEW s \in Store, Settle(s), Pending(s) # None,
         SlotHasIt(s), UNCHANGED remoteVars
  PROVE  /\ StateOk(s)' /\ LogsInv'
         /\ UNCHANGED <<live, claims, writer>>
         /\ last_ref'[s][at[s]] = Pending(s) /\ pending'[s][at[s]] = None
         /\ \A t \in Store \ {s} : UNCHANGED <<last_ref[t], pending[t]>>
<1>1. /\ UNCHANGED <<live, claims, writer, refs, packs, blobs>>
      /\ at[s] \in Remote /\ StateOk(s)
      /\ last_ref'[s][at[s]] = Pending(s) /\ pending'[s][at[s]] = None
      /\ \A r \in Remote \ {at[s]} : UNCHANGED <<last_ref[s][r], pending[s][r]>>
      /\ \A t \in Store \ {s} : UNCHANGED <<last_ref[t], pending[t]>>
  BY DEF Settle, Recorded, remoteVars, refVars, Inductive, TypeOK, StateInv
<1>2. StateOk(s)'
  <2> SUFFICES ASSUME NEW r \in Remote
               PROVE  /\ last_ref'[s][r] \in refs[r][writer[s]] \cup {None}
                      /\ pending'[s][r] # None =>
                            /\ Ready(r, writer[s], pending'[s][r])
                            /\ Front(pending'[s][r]) = last_ref'[s][r]
    BY <1>1 DEF StateOk, Ready
  <2>1. CASE r = at[s]
    BY <1>1, <2>1 DEF SlotHasIt, Chain
  <2>2. CASE r # at[s]
    BY <1>1, <2>2 DEF StateOk
  <2> QED BY <2>1, <2>2
<1>3. LogsInv'
  BY <1>1 DEF Inductive, LogsInv
<1> QED BY <1>1, <1>2, <1>3

\* Recording a pending ref that arrived after all keeps the invariant.
LEMMA AdoptPendingStep ==
  ASSUME Inductive, [Next]_vars, NEW s \in Store, AdoptPending(s)
  PROVE  Inductive'
<1>1. /\ UNCHANGED <<at, tip, captured, refs, marked, blank>> /\ UNCHANGED remoteVars
      /\ pc[s] = "reconcile" /\ pc'[s] = "compare" /\ Pending(s) # None
      /\ tip[s] = Pending(s) /\ Settle(s) /\ ProcessOk(s)
      /\ \A t \in Store \ {s} : UNCHANGED pc[t]
  BY DEF AdoptPending, PendingMatches, Goto, remoteVars, refVars, Inductive, TypeOK, ProcessInv
<1>2. SlotHasIt(s)
  BY <1>1 DEF ProcessOk, SlotHasIt
<1>3. /\ StateOk(s)' /\ LogsInv' /\ UNCHANGED <<live, claims, writer>>
      /\ pending'[s][at[s]] = None
      /\ \A t \in Store \ {s} : UNCHANGED <<last_ref[t], pending[t]>>
  BY <1>1, <1>2, SettleState
<1>4. ProcessOk(s)'
  BY <1>1, <1>3 DEF ProcessOk, Chain, Pending
<1> QED BY <1>1, <1>3, <1>4, LocalStep

\* Recording a published ref keeps the invariant.
LEMMA SaveLastRefStep ==
  ASSUME Inductive, [Next]_vars, NEW s \in Store, SaveLastRef(s)
  PROVE  Inductive'
<1>1. /\ UNCHANGED <<at, refs, marked, blank>> /\ UNCHANGED remoteVars
      /\ Settle(s) /\ ProcessOk(s) /\ pc[s] = "settle"
      /\ \/ pc'[s] = "tip" /\ tip'[s] = tip[s]
         \/ pc'[s] = "idle" /\ tip'[s] = None
      /\ \A t \in Store \ {s} : UNCHANGED <<pc[t], tip[t], captured[t]>>
  BY DEF SaveLastRef, Goto, remoteVars, refVars, Inductive, TypeOK, ProcessInv
<1>2. SlotHasIt(s) /\ Pending(s) # None
  BY <1>1 DEF ProcessOk
<1>3. /\ StateOk(s)' /\ LogsInv' /\ UNCHANGED <<live, claims, writer>>
      /\ \A t \in Store \ {s} : UNCHANGED <<last_ref[t], pending[t]>>
  BY <1>1, <1>2, SettleState
<1>4. ProcessOk(s)'
  BY <1>1, <1>3 DEF ProcessOk, Chain
<1> QED BY <1>1, <1>3, <1>4, LocalStep

(***************************************************************************)
(* write_once_ref.                                                         *)
(***************************************************************************)

\* A step of write_once_ref: writer.json and the logs stay as they are.
LEMMA SlotStep ==
  ASSUME Inductive, [Next]_vars, NEW s \in Store,
         UNCHANGED <<storeVars, at, tip, captured>>,
         \A t \in Store \ {s} : UNCHANGED pc[t],
         RemoteInv', ProcessOk(s)', OwnerInv',
         \A t \in Store \ {s} :
            /\ pc[t] = "mark" => Len(Pending(t)) \in blank'[at[t]][writer[t]]
            /\ pc[t] = "fill" => SlotIsOurs(t)' \/ SlotHasIt(t)'
  PROVE  Inductive'
<1>1. TypeOK /\ TypeOK' /\ RemotesGrow
  BY TypeNext, GrowStep DEF Inductive
<1>2. UNCHANGED <<live, claims, writer, last_ref, pending>>
  BY DEF storeVars, durableVars
<1>3. StateInv'
  <2> SUFFICES ASSUME NEW t \in Store PROVE StateOk(t)'
    BY DEF StateInv
  <2> QED BY <1>1, <1>2, StateKept DEF Inductive, StateInv
<1>4. LogsInv'
  BY <1>2 DEF Inductive, LogsInv
<1>5. ProcessInv'
  <2> SUFFICES ASSUME NEW t \in Store \ {s} PROVE ProcessOk(t)'
    BY DEF ProcessInv
  <2>1. ProcessOk(t) /\ UNCHANGED <<pc[t], at[t], tip[t], captured[t]>>
        /\ UNCHANGED <<writer[t], last_ref[t], pending[t]>>
    BY <1>2 DEF Inductive, ProcessInv
  <2> QED BY <1>1, <1>2, <2>1, ProcessKept
<1> QED BY <1>1, <1>3, <1>4, <1>5 DEF Inductive, RemoteInv

\* LinkRef and FillSlot.
LEMMA CompleteStep ==
  ASSUME Inductive, [Next]_vars, NEW s \in Store, Complete(s), Goto(s, "settle"),
         UNCHANGED <<at, tip, captured, storeVars>>, Pending(s) # None, pc[s] # "idle",
         SlotHasIt(s) \/ SlotIsOurs(s) \/ SlotFree(s)
  PROVE  Inductive'
<1>1. /\ TypeOK /\ RemoteInv /\ ProcessOk(s) /\ StateOk(s)
      /\ at[s] \in Remote /\ writer[s] \in Writer
      /\ pc'[s] = "settle" /\ \A t \in Store \ {s} : UNCHANGED pc[t]
      /\ UNCHANGED <<live, claims, writer, last_ref, pending>>
  BY DEF Goto, storeVars, durableVars, Inductive, TypeOK, RemoteInv, ProcessInv, StateInv
<1>2. /\ \A r \in Remote, w \in Writer :
             IF r = at[s] /\ w = writer[s]
             THEN /\ refs'[r][w] = refs[r][w] \cup {Pending(s)}
                  /\ marked'[r][w] = marked[r][w] \ {Pending(s)}
             ELSE /\ refs'[r][w] = refs[r][w]
                  /\ marked'[r][w] = marked[r][w]
      /\ blank' = blank
  BY <1>1, CompleteFacts
<1>3. RemoteInv'
  BY <1>1, CompleteKeeps DEF StateOk, Pending
<1>4. ProcessOk(s)'
  BY <1>1, <1>2 DEF ProcessOk, Chain, Pending, SlotHasIt
<1>5. OwnerInv'
  BY <1>1 DEF Inductive, OwnerInv, Pending
<1>6. ASSUME NEW t \in Store \ {s}
      PROVE  /\ pc[t] = "mark" => Len(Pending(t)) \in blank'[at[t]][writer[t]]
             /\ pc[t] = "fill" => SlotIsOurs(t)' \/ SlotHasIt(t)'
  <2>1. ProcessOk(t) /\ at[t] \in Remote /\ writer[t] \in Writer
    BY DEF Inductive, ProcessInv, TypeOK
  <2>2. pc[t] = "mark" => Len(Pending(t)) \in blank'[at[t]][writer[t]]
    BY <1>2, <2>1 DEF ProcessOk
  <2>3. SlotIsOurs(t) \/ SlotHasIt(t) => SlotIsOurs(t)' \/ SlotHasIt(t)'
    BY <1>1, <1>2, <2>1 DEF SlotIsOurs, SlotHasIt, Chain, Pending
  <2> QED BY <2>1, <2>2, <2>3 DEF ProcessOk
<1> QED BY <1>1, <1>3, <1>4, <1>5, <1>6, SlotStep

\* Creating a slot, still blank, keeps the invariant.
LEMMA CreateSlotStep ==
  ASSUME Inductive, [Next]_vars, NEW s \in Store, CreateSlot(s)
  PROVE  Inductive'
<1> DEFINE r0 == at[s]
           w0 == writer[s]
           h  == Pending(s)
<1>1. /\ UNCHANGED <<live, claims, writer, last_ref, pending, storeVars>>
      /\ UNCHANGED <<at, tip, captured, refs, marked, packs, blobs>>
      /\ pc[s] = "claim" /\ pc'[s] = "mark" /\ ~Taken(r0, w0, Len(h))
      /\ \A t \in Store \ {s} : UNCHANGED pc[t]
      /\ TypeOK /\ TypeOK' /\ RemotesGrow /\ RemoteInv /\ ProcessOk(s)
      /\ r0 \in Remote /\ w0 \in Writer /\ h \in Ref /\ h # None
  BY TypeNext, GrowStep
  DEF CreateSlot, SlotFree, Goto, storeVars, durableVars, Inductive, TypeOK, RemoteInv, ProcessInv,
      ProcessOk, Pending
<1>2. /\ \A r \in Remote, w \in Writer :
             IF r = r0 /\ w = w0 THEN blank'[r][w] = blank[r][w] \cup {Len(h)}
             ELSE blank'[r][w] = blank[r][w]
  BY <1>1 DEF CreateSlot, TypeOK
<1>3. RefsInv'
  BY <1>1, ReadyGrows DEF RemoteInv, RefsInv
<1>4. MarkedInv'
  <2> SUFFICES ASSUME NEW r \in Remote, NEW w \in Writer, NEW g \in marked[r][w]
               PROVE  /\ Ready(r, w, g)'
                      /\ Len(g) \notin blank'[r][w]
                      /\ \A k \in refs[r][w] : Len(k) < Len(g)
                      /\ \A k \in marked[r][w] : Len(k) = Len(g) => k = g
    BY <1>1 DEF MarkedInv
  <2>1. Len(g) \notin blank'[r][w]
    BY <1>1, <1>2 DEF RemoteInv, MarkedInv, Taken
  <2> QED BY <1>1, <2>1, ReadyGrows DEF RemoteInv, MarkedInv
<1>5. BlankInv'
  <2>1. Len(h) # 0 /\ \A g \in refs[r0][w0] : Len(g) < Len(h)
    BY <1>1, FrontFacts, FreeIsBehind
  <2> QED BY <1>1, <1>2, <2>1 DEF RemoteInv, BlankInv
<1>6. ProcessOk(s)'
  BY <1>1, <1>2 DEF ProcessOk, Chain, Pending
<1>7. \A t \in Store \ {s} :
         /\ pc[t] = "mark" => Len(Pending(t)) \in blank[at[t]][writer[t]]
         /\ pc[t] = "fill" => SlotIsOurs(t) \/ SlotHasIt(t)
         /\ at[t] \in Remote /\ writer[t] \in Writer
  BY DEF Inductive, ProcessInv, ProcessOk, TypeOK
<1>8. OwnerInv'
  BY <1>1, <1>7 DEF Inductive, OwnerInv, Pending, Taken
<1>9. \A t \in Store \ {s} :
         /\ pc[t] = "mark" => Len(Pending(t)) \in blank'[at[t]][writer[t]]
         /\ pc[t] = "fill" => SlotIsOurs(t)' \/ SlotHasIt(t)'
  BY <1>1, <1>2, <1>7 DEF SlotIsOurs, SlotHasIt, Chain, Pending
<1> QED BY <1>1, <1>3, <1>4, <1>5, <1>6, <1>8, <1>9, SlotStep DEF RemoteInv

\* Marking a slot with the ref intended for it keeps the invariant.
LEMMA MarkSlotStep ==
  ASSUME Inductive, [Next]_vars, NEW s \in Store, MarkSlot(s)
  PROVE  Inductive'
<1> DEFINE r0 == at[s]
           w0 == writer[s]
           h  == Pending(s)
<1>1. /\ UNCHANGED <<live, claims, writer, last_ref, pending, storeVars>>
      /\ UNCHANGED <<at, tip, captured, refs, packs, blobs>>
      /\ pc[s] = "mark" /\ pc'[s] = "fill"
      /\ \A t \in Store \ {s} : UNCHANGED pc[t]
      /\ TypeOK /\ RemotesGrow /\ RemoteInv /\ ProcessOk(s) /\ StateOk(s)
      /\ r0 \in Remote /\ w0 \in Writer
  BY GrowStep
  DEF MarkSlot, Goto, storeVars, durableVars, Inductive, TypeOK, RemoteInv, ProcessInv, StateInv
<1>2. h # None /\ Len(h) \in blank[r0][w0] /\ Ready(r0, w0, h)
  BY <1>1 DEF ProcessOk, StateOk, Pending
<1>3. \A r \in Remote, w \in Writer :
         IF r = r0 /\ w = w0
         THEN /\ blank'[r][w] = blank[r][w] \ {Len(h)}
              /\ marked'[r][w] = marked[r][w] \cup {h}
         ELSE /\ blank'[r][w] = blank[r][w]
              /\ marked'[r][w] = marked[r][w]
  BY <1>1 DEF MarkSlot, TypeOK
<1>4. RefsInv'
  BY <1>1, ReadyGrows DEF RemoteInv, RefsInv
<1>5. MarkedInv'
  <2> SUFFICES ASSUME NEW r \in Remote, NEW w \in Writer, NEW g \in marked'[r][w]
               PROVE  /\ Ready(r, w, g)'
                      /\ Len(g) \notin blank'[r][w]
                      /\ \A k \in refs[r][w] : Len(k) < Len(g)
                      /\ \A k \in marked'[r][w] : Len(k) = Len(g) => k = g
    BY <1>1 DEF MarkedInv
  <2>1. CASE g \in marked[r][w]
    <3>1. /\ Ready(r, w, g)' /\ Len(g) \notin blank[r][w]
          /\ \A k \in refs[r][w] : Len(k) < Len(g)
          /\ \A k \in marked[r][w] : Len(k) = Len(g) => k = g
      BY <1>1, <2>1, ReadyGrows DEF RemoteInv, MarkedInv
    <3>2. \A k \in marked'[r][w] : Len(k) = Len(g) => k = g
      BY <1>2, <1>3, <3>1
    <3>3. Len(g) \notin blank'[r][w]
      BY <1>3, <3>1
    <3> QED BY <3>1, <3>2, <3>3
  <2>2. CASE g \notin marked[r][w]
    <3>1. g = h /\ r = r0 /\ w = w0
      BY <1>3, <2>2
    <3>2. Ready(r, w, g)'
      BY <1>1, <1>2, <3>1, ReadyGrows
    <3>3. Len(g) \notin blank'[r][w]
      BY <1>3, <3>1
    <3>4. \A k \in refs[r][w] : Len(k) < Len(g)
      BY <1>1, <1>2, <3>1 DEF RemoteInv, BlankInv
    <3>5. \A k \in marked'[r][w] : Len(k) = Len(g) => k = g
      BY <1>1, <1>2, <1>3, <3>1 DEF RemoteInv, MarkedInv
    <3> QED BY <3>2, <3>3, <3>4, <3>5
  <2> QED BY <2>1, <2>2
<1>6. BlankInv'
  BY <1>1, <1>3 DEF RemoteInv, BlankInv
<1>7. ProcessOk(s)'
  BY <1>1, <1>2, <1>3 DEF ProcessOk, Chain, Pending, SlotIsOurs
<1>8. OwnerInv'
  BY <1>1 DEF Inductive, OwnerInv, Pending
<1>9. ASSUME NEW t \in Store \ {s}
      PROVE  /\ pc[t] = "mark" => Len(Pending(t)) \in blank'[at[t]][writer[t]]
             /\ pc[t] = "fill" => SlotIsOurs(t)' \/ SlotHasIt(t)'
  <2>1. ProcessOk(t) /\ at[t] \in Remote /\ writer[t] \in Writer
    BY DEF Inductive, ProcessInv, TypeOK
  <2>2. pc[t] = "mark" => Len(Pending(t)) \in blank[at[t]][writer[t]]
    BY <2>1 DEF ProcessOk
  <2>3. pc[t] = "mark" /\ at[t] = r0 /\ writer[t] = w0 => Len(Pending(t)) # Len(h)
    BY <1>1 DEF Inductive, OwnerInv
  <2>4. pc[t] = "mark" => Len(Pending(t)) \in blank'[at[t]][writer[t]]
    BY <1>3, <2>1, <2>2, <2>3
  <2>5. SlotIsOurs(t) \/ SlotHasIt(t) => SlotIsOurs(t)' \/ SlotHasIt(t)'
    BY <1>1, <1>3, <2>1 DEF SlotIsOurs, SlotHasIt, Chain, Pending
  <2> QED BY <2>1, <2>4, <2>5 DEF ProcessOk
<1> QED BY <1>1, <1>4, <1>5, <1>6, <1>7, <1>8, <1>9, SlotStep DEF RemoteInv

\* Every step of write_once_ref keeps the invariant.
LEMMA WriteRefStep ==
  ASSUME Inductive, [Next]_vars, NEW s \in Store, WriteRef(s)
  PROVE  Inductive'
<1>1. ProcessOk(s) /\ TypeOK
  BY DEF Inductive, ProcessInv
<1>2. CASE LinkRef(s)
  BY <1>1, <1>2, CompleteStep DEF LinkRef, ProcessOk
<1>3. CASE CreateSlot(s)
  BY <1>3, CreateSlotStep
<1>4. CASE MarkSlot(s)
  BY <1>4, MarkSlotStep
<1>5. CASE ResumeSlot(s)
  <2>1. /\ UNCHANGED <<at, tip, captured, storeVars, refs, marked, blank>>
        /\ pc[s] = "claim" /\ pc'[s] = "fill" /\ SlotIsOurs(s)
        /\ \A t \in Store \ {s} : UNCHANGED pc[t]
    BY <1>1, <1>5 DEF ResumeSlot, Goto, remoteVars, refVars, TypeOK
  <2>2. ProcessOk(s)'
    BY <1>1, <2>1 DEF ProcessOk, storeVars, durableVars, Chain, Pending, SlotIsOurs
  <2> QED BY <2>1, <2>2, MemoryStep
<1>6. CASE FillSlot(s)
  BY <1>1, <1>6, CompleteStep DEF FillSlot, ProcessOk
<1>7. CASE FindRef(s)
  <2>1. /\ UNCHANGED <<at, tip, captured, storeVars, refs, marked, blank>>
        /\ pc[s] = "claim" /\ pc'[s] = "settle" /\ SlotHasIt(s)
        /\ \A t \in Store \ {s} : UNCHANGED pc[t]
    BY <1>1, <1>7 DEF FindRef, Goto, remoteVars, refVars, TypeOK
  <2>2. ProcessOk(s)'
    BY <1>1, <2>1 DEF ProcessOk, storeVars, durableVars, Chain, Pending, SlotHasIt
  <2> QED BY <2>1, <2>2, MemoryStep
<1> QED BY <1>2, <1>3, <1>4, <1>5, <1>6, <1>7 DEF WriteRef

(***************************************************************************)
(* The inductive invariant.                                                *)
(***************************************************************************)

\* The invariant holds initially.
LEMMA InitInductive == Init => Inductive
<1> SUFFICES ASSUME Init PROVE Inductive
  OBVIOUS
<1>1. TypeOK
  BY InitType
<1>2. RefsInv /\ MarkedInv /\ BlankInv
  BY DEF Init, RefsInv, MarkedInv, BlankInv
<1>3. StateInv
  BY <1>1 DEF Init, StateInv, StateOk, TypeOK
<1>4. LogsInv
  BY DEF Init, LogsInv, Closed
<1>5. ProcessInv
  BY DEF Init, ProcessInv, ProcessOk
<1>6. OwnerInv
  BY DEF Init, OwnerInv
<1> QED BY <1>1, <1>2, <1>3, <1>4, <1>5, <1>6 DEF Inductive

\* The invariant is inductive.
LEMMA NextInductive == Inductive /\ [Next]_vars => Inductive'
<1> SUFFICES ASSUME Inductive, [Next]_vars PROVE Inductive'
  OBVIOUS
<1>1. CASE UNCHANGED vars
  <2>1. /\ UNCHANGED <<storeVars, processVars, remoteVars>>
        /\ UNCHANGED <<live, claims, writer, last_ref, pending>>
        /\ UNCHANGED <<pc, at, tip, captured, refs, marked, blank>>
    BY <1>1 DEF vars, storeVars, durableVars, processVars, remoteVars, refVars
  <2>2. TypeOK /\ TypeOK' /\ RemotesGrow /\ RemoteInv
    BY TypeNext, GrowStep DEF Inductive, RemoteInv
  <2>3. RemoteInv'
    BY <2>1, <2>2, RemoteKept
  <2>4. StateInv'
    BY <2>1, <2>2, StateKept DEF Inductive, StateInv
  <2>5. LogsInv'
    BY <2>1 DEF Inductive, LogsInv
  <2>6. ProcessInv'
    <3> SUFFICES ASSUME NEW s \in Store PROVE ProcessOk(s)'
      BY DEF ProcessInv
    <3>1. ProcessOk(s)
      BY DEF Inductive, ProcessInv
    <3>2. pc[s] = "mark" => Len(Pending(s)) \in blank'[at[s]][writer[s]]
      BY <2>1, <3>1 DEF ProcessOk
    <3>3. pc[s] = "fill" => SlotIsOurs(s)' \/ SlotHasIt(s)'
      BY <2>1, <3>1 DEF ProcessOk, SlotIsOurs, SlotHasIt, Chain, Pending
    <3> QED BY <2>1, <2>2, <3>1, <3>2, <3>3, ProcessKept
  <2>7. OwnerInv'
    BY <2>1 DEF Inductive, OwnerInv, Pending
  <2> QED BY <2>2, <2>3, <2>4, <2>5, <2>6, <2>7 DEF Inductive, RemoteInv
<1>2. ASSUME NEW s \in Store, StoreStep(s) PROVE Inductive'
  BY <1>2, AddClaimStep, ForkStep, CopyStep DEF StoreStep
<1>3. ASSUME NEW s \in Store, NEW r \in Remote, BeginPublish(s, r) PROVE Inductive'
  BY <1>3, BeginPublishStep
<1>4. ASSUME NEW s \in Store, PublishStep(s) PROVE Inductive'
  <2>1. CASE FinishUnchanged(s) \/ Refuse(s)
    BY <2>1, LeaveStep DEF FinishUnchanged, Refuse
  <2> QED
    BY <1>4, <2>1, ReadTipStep, NothingPendingStep, AdoptPendingStep, RetryPendingStep,
       CaptureLedgerStep, PutBlobStep, PutPackStep, SavePendingStep, WriteRefStep,
       SaveLastRefStep, NameOrDamageStep
    DEF PublishStep
<1>5. ASSUME NEW s \in Store, Crash(s) \/ PowerLoss(s) PROVE Inductive'
  BY <1>5, LeaveStep, PowerLossStep DEF Crash
<1> QED BY <1>1, <1>2, <1>3, <1>4, <1>5 DEF Next

\* The invariant holds in every state of every run.
THEOREM Invariance == Spec => []Inductive
BY InitInductive, NextInductive, PTL DEF Spec

(***************************************************************************)
(* What it is for.                                                         *)
(***************************************************************************)

\* Every variable of stores, publishers and remotes keeps its kind.
THEOREM TypeCorrect == Spec => []TypeOK
<1>1. Inductive => TypeOK
  BY DEF Inductive
<1> QED BY <1>1, Invariance, PTL

\* However many copies of a store publish under one writer ID, and wherever they
\* crash, the refs of the writer on a remote are one line without a fork.
THEOREM ChainsAreLines == Spec => []OneChain
<1>1. Inductive => OneChain
  BY DEF Inductive, RefsInv, Ready, OneChain
<1> QED BY <1>1, Invariance, PTL

\* An incomplete slot is never overtaken by a complete ref, so the chain check
\* of refs_for and latest_ref finds it in the last place only.
THEOREM ReservationsAreLast == Spec => []ReservedAhead
<1>1. Inductive => ReservedAhead
  BY DEF Inductive, MarkedInv, BlankInv, Ready, ReservedAhead
<1> QED BY <1>1, Invariance, PTL

\* At no moment does a remote show a ref whose packs, content or claims it lacks.
THEOREM RefsAreWhole == Spec => []SelfContained
<1>1. Inductive => SelfContained
  BY DEF Inductive, RefsInv, Ready, SelfContained
<1> QED BY <1>1, Invariance, PTL

\* Each ref of a chain publishes strictly more than the one it continues.
THEOREM LedgersGrow == Spec => []NothingDropped
<1>1. Inductive => NothingDropped
  BY DEF Inductive, RefsInv, Ready, NothingDropped
<1> QED BY <1>1, Invariance, PTL

\* writer.json never claims a ref that its writer has not published.
THEOREM StateIsTrue == Spec => []StateMatchesRemote
<1>1. ASSUME Inductive, NEW s \in live, NEW r \in Remote
      PROVE  /\ last_ref[s][r] \in refs[r][writer[s]] \cup {None}
             /\ pending[s][r] # None => Front(pending[s][r]) = last_ref[s][r]
  <2>1. StateOk(s)
    BY <1>1 DEF Inductive, TypeOK, StateInv
  <2> QED BY <2>1 DEF StateOk
<1>2. Inductive => StateMatchesRemote
  BY <1>1 DEF StateMatchesRemote
<1> QED BY <1>2, Invariance, PTL

\* A new ref appears by LinkRef or FillSlot, and in no other step.
LEMMA OnlySlotWriters ==
  ASSUME [Next]_vars
  PROVE  refs' = refs \/ \E s \in Store : LinkRef(s) \/ FillSlot(s)
<1>1. CASE UNCHANGED vars
  BY <1>1 DEF vars, remoteVars, refVars
<1>2. ASSUME NEW s \in Store, StoreStep(s) PROVE refs' = refs
  BY <1>2 DEF StoreStep, AddClaim, Fork, Copy, remoteVars, refVars
<1>3. ASSUME NEW s \in Store, NEW r \in Remote, BeginPublish(s, r) PROVE refs' = refs
  BY <1>3 DEF BeginPublish, remoteVars, refVars
<1>4. ASSUME NEW s \in Store, PublishStep(s), ~LinkRef(s), ~FillSlot(s)
      PROVE  refs' = refs
  BY <1>4
  DEF PublishStep, WriteRef, NameRemote, FindName, FillName, ReadTip, NothingPending,
      AdoptPending, RetryPending, CaptureLedger, FindDamage, PutBlob, FinishUnchanged,
      PutPack, SavePending, CreateSlot, MarkSlot, ResumeSlot, FindRef, SaveLastRef, Refuse,
      remoteVars, refVars
<1>5. ASSUME NEW s \in Store, Crash(s) \/ PowerLoss(s) PROVE refs' = refs
  BY <1>5 DEF Crash, PowerLoss, remoteVars, refVars
<1> QED BY <1>1, <1>2, <1>3, <1>4, <1>5 DEF Next

\* A chain is continued only by a store whose writer.json has the whole of it on
\* record, into the slot after all the others.
THEOREM ChainsAreNotBraided == Spec => NoBraid
<1> DEFINE Continued(r, w, h) ==
             \E s \in live : /\ writer[s] = w /\ pending[s][r] = h
                             /\ last_ref[s][r] = Front(h)
                             /\ \A g \in refs[r][w] : Len(g) < Len(h)
           Continues ==
             \A r \in Remote, w \in Writer :
                \A h \in refs'[r][w] \ refs[r][w] : Continued(r, w, h)
<1>1. ASSUME Inductive, [Next]_vars PROVE Continues
  <2>1. ASSUME NEW s \in Store, LinkRef(s) \/ FillSlot(s),
               NEW r \in Remote, NEW w \in Writer, NEW h \in refs'[r][w] \ refs[r][w]
        PROVE  Continued(r, w, h)
    <3>1. /\ TypeOK /\ RemoteInv /\ ProcessOk(s) /\ StateOk(s) /\ Complete(s)
          /\ at[s] \in Remote /\ writer[s] \in Writer /\ Pending(s) \in Ref
      BY <1>1, <2>1
      DEF LinkRef, FillSlot, Inductive, RemoteInv, ProcessInv, StateInv, TypeOK, Pending
    <3>2. r = at[s] /\ w = writer[s] /\ h = Pending(s)
      BY <2>1, <3>1, CompleteFacts
    <3>3. Pending(s) # None /\ s \in live /\ (SlotIsOurs(s) \/ SlotFree(s) \/ SlotHasIt(s))
      BY <2>1, <3>1 DEF LinkRef, FillSlot, ProcessOk
    <3>4. h \in marked[r][w] \/ ~Taken(r, w, Len(h))
      BY <2>1, <3>2, <3>3 DEF SlotIsOurs, SlotFree, SlotHasIt, Chain
    <3>5. Ready(r, w, h) /\ last_ref[s][r] = Front(h) /\ pending[s][r] = h
      BY <3>1, <3>2, <3>3 DEF StateOk, Pending
    <3>6. \A g \in refs[r][w] : Len(g) < Len(h)
      BY <3>1, <3>2, <3>4, <3>5, NextInLine
    <3> QED BY <3>2, <3>3, <3>5, <3>6
  <2> QED BY <1>1, <2>1, OnlySlotWriters
<1>2. Inductive /\ [Next]_vars => [Continues]_vars
  BY <1>1
<1> QED BY <1>2, Invariance, PTL DEF Spec, NoBraid

----------------------------------------------------------------------------
(***************************************************************************)
(* Recovering beside publishers: a recovery never finds the remote         *)
(* incomplete, and publishing and recovering implement Backup.             *)
(*                                                                         *)
(* What Publish guarantees of a ref it guarantees for ever, for remotes    *)
(* only grow; so refs that were read one after another are as good as refs *)
(* read at once.  That nothing is missed needs more: the last ref of a     *)
(* chain publishes all that the refs before it published.                  *)
(***************************************************************************)

\* The refs of a writer publish more and more.
LineInv ==
    \A r \in Remote, w \in Writer : \A g, h \in refs[r][w] :
        Len(g) <= Len(h) => Root(g) \subseteq Root(h)

\* There are stores, and every claim in a log, captured, waiting or published was
\* minted by one.
MintInv ==
    /\ live # {}
    /\ \A s \in Store :
          /\ claims[s] \subseteq minted /\ captured[s] \subseteq minted
          /\ \A r \in Remote : Root(pending[s][r]) \subseteq minted
    /\ \A r \in Remote, w \in Writer : \A h \in refs[r][w] : Root(h) \subseteq minted

\* What was on the remote when a recovery began is in the refs it has read, or
\* in those of the writers it still has to read.
ReadingOk(t) ==
    /\ ~reading[t] => heads[t] = {}
    /\ \A h \in heads[t] : \E w \in Writer : h \in refs[source[t]][w]
    /\ wanted[t] \subseteq Union(t) \cup UNION {PublishedBy(source[t], w) : w \in todo[t]}

ReadingInv == \A t \in Store : ReadingOk(t)

RecoverInductive ==
    /\ Inductive /\ LineInv /\ MintInv
    /\ RecoverTypeOK /\ ReadingInv

(***************************************************************************)
(* Publishing.                                                             *)
(***************************************************************************)

\* Whoever shows a ref has it in writer.json, ready and next in line.
LEMMA SlotWriterFacts ==
  ASSUME Inductive, NEW s \in Store, LinkRef(s) \/ FillSlot(s)
  PROVE  /\ Complete(s) /\ UNCHANGED storeVars /\ UNCHANGED captured
         /\ at[s] \in Remote /\ writer[s] \in Writer /\ Pending(s) \in Ref
         /\ Ready(at[s], writer[s], Pending(s))
         /\ Pending(s) \notin Chain(s) => \A g \in Chain(s) : Len(g) < Len(Pending(s))
<1>1. /\ TypeOK /\ RemoteInv /\ ProcessOk(s) /\ StateOk(s) /\ Complete(s)
      /\ at[s] \in Remote /\ writer[s] \in Writer /\ Pending(s) \in Ref
      /\ UNCHANGED storeVars /\ UNCHANGED captured
  BY DEF LinkRef, FillSlot, Inductive, RemoteInv, ProcessInv, StateInv, TypeOK, Pending
<1>2. Pending(s) # None /\ (SlotIsOurs(s) \/ SlotFree(s) \/ SlotHasIt(s))
  BY <1>1 DEF LinkRef, FillSlot, ProcessOk
<1>3. Ready(at[s], writer[s], Pending(s))
  BY <1>1, <1>2 DEF StateOk, Pending
<1>4. ASSUME Pending(s) \notin Chain(s)
      PROVE  \A g \in Chain(s) : Len(g) < Len(Pending(s))
  BY <1>1, <1>2, <1>3, <1>4, NextInLine DEF SlotIsOurs, SlotFree, SlotHasIt, Chain
<1> QED BY <1>1, <1>3, <1>4

\* A ref that continues the last one of a line publishes all that the line did.
LEMMA LineNext ==
  ASSUME Inductive, [Next]_vars, LineInv
  PROVE  LineInv'
<1>1. CASE UNCHANGED refs
  BY <1>1 DEF LineInv
<1>2. ASSUME NEW s \in Store, LinkRef(s) \/ FillSlot(s)
      PROVE  LineInv'
  <2> DEFINE r0 == at[s]
             w0 == writer[s]
             h  == Pending(s)
  <2>1. /\ Complete(s) /\ r0 \in Remote /\ w0 \in Writer /\ h \in Ref
        /\ Ready(r0, w0, h)
        /\ h \notin refs[r0][w0] => \A g \in refs[r0][w0] : Len(g) < Len(h)
    BY <1>2, SlotWriterFacts DEF Chain
  <2>2. \A r \in Remote, w \in Writer :
           IF r = r0 /\ w = w0 THEN refs'[r][w] = refs[r][w] \cup {h}
                               ELSE refs'[r][w] = refs[r][w]
    BY <2>1, CompleteFacts DEF Inductive
  <2>3. CASE h \in refs[r0][w0]
    <3>1. \A r \in Remote, w \in Writer : refs'[r][w] = refs[r][w]
      <4> TAKE r \in Remote, w \in Writer
      <4>1. refs[r0][w0] \cup {h} = refs[r0][w0]
        BY <2>3
      <4> QED BY <2>2, <4>1
    <3> QED BY <3>1 DEF LineInv
  <2>4. CASE h \notin refs[r0][w0]
    <3>1. /\ Len(h) \in Nat \ {0} /\ Len(Front(h)) = Len(h) - 1
          /\ Front(h) \in refs[r0][w0] \cup {None}
          /\ Root(Front(h)) \subseteq Root(h)
      BY <2>1, FrontFacts DEF Ready
    <3>2. ASSUME NEW g \in refs[r0][w0]
          PROVE  Len(g) < Len(h) /\ Root(g) \subseteq Root(h)
      <4>1. Len(g) \in Nat \ {0} /\ Len(g) < Len(h)
        <5>1. g \in Ref
          BY <2>1 DEF Inductive, TypeOK
        <5>2. g # None
          BY <2>1 DEF Inductive, RefsInv, Ready
        <5> QED BY <2>1, <2>4, <5>1, <5>2, FrontFacts
      <4>2. Len(g) <= Len(Front(h))
        BY <3>1, <4>1
      <4>3. Front(h) # None
        BY <4>1, <4>2, EmptySeq DEF None
      <4>4. Root(g) \subseteq Root(Front(h))
        BY <2>1, <3>1, <4>2, <4>3 DEF LineInv
      <4> QED BY <3>1, <4>1, <4>4
    <3>3. ASSUME NEW r \in Remote, NEW w \in Writer,
                 NEW g \in refs'[r][w], NEW k \in refs'[r][w], Len(g) <= Len(k)
          PROVE  Root(g) \subseteq Root(k)
      <4>1. CASE g \in refs[r][w] /\ k \in refs[r][w]
        BY <3>3, <4>1 DEF LineInv
      <4>2. CASE k \notin refs[r][w]
        BY <2>2, <3>2, <4>2
      <4>3. CASE g \notin refs[r][w] /\ k \in refs[r][w]
        <5>1. r = r0 /\ w = w0 /\ g = h /\ Len(k) < Len(h)
          BY <2>2, <3>2, <4>3
        <5>2. Len(k) \in Nat
          BY <2>1, <4>3, LenProperties DEF Inductive, TypeOK, Ref
        <5> QED BY <3>1, <3>3, <5>1, <5>2
      <4> QED BY <4>1, <4>2, <4>3
    <3> QED BY <3>3 DEF LineInv
  <2> QED BY <2>3, <2>4
<1> QED BY <1>1, <1>2, OnlySlotWriters

\* What MintInv asks after a step that mints nothing.
LEMMA MintKept ==
  ASSUME MintInv, live \subseteq live', UNCHANGED minted,
         \A s \in Store : claims'[s] \subseteq minted /\ captured'[s] \subseteq minted,
         \A s \in Store, r \in Remote : Root(pending'[s][r]) \subseteq minted,
         \A r \in Remote, w \in Writer : \A h \in refs'[r][w] : Root(h) \subseteq minted
  PROVE  MintInv'
<1>1. live' # {}
  BY DEF MintInv
<1>2. \A s \in Store : \A r \in Remote : Root(pending'[s][r]) \subseteq minted'
  OBVIOUS
<1> QED BY <1>1, <1>2 DEF MintInv

\* A step that only drops claims of a log, a pending ref or what was captured.
LEMMA MintForgets ==
  ASSUME MintInv, UNCHANGED <<live, minted, refs>>,
         \A s \in Store : claims'[s] \subseteq claims[s],
         \A s \in Store : captured'[s] \in {captured[s], {}},
         \A s \in Store, r \in Remote : pending'[s][r] \in {pending[s][r], None}
  PROVE  MintInv'
<1>1. Root(None) = {}
  BY DEF Root
<1>2. \A s \in Store, r \in Remote : Root(pending'[s][r]) \subseteq minted
  BY <1>1 DEF MintInv
<1>3. \A s \in Store : claims'[s] \subseteq minted /\ captured'[s] \subseteq minted
  BY DEF MintInv
<1>4. \A r \in Remote, w \in Writer : \A h \in refs'[r][w] : Root(h) \subseteq minted
  BY DEF MintInv
<1> QED BY <1>2, <1>3, <1>4, MintKept

\* Appending a claim mints it.
LEMMA MintAddClaim ==
  ASSUME TypeOK, MintInv, NEW s \in Store, NEW c \in Claim, AddClaim(s, c)
  PROVE  MintInv'
<1>1. /\ UNCHANGED <<live, captured, pending, refs>>
      /\ s \in live /\ minted' = minted \cup {c}
      /\ claims'[s] = claims[s] \cup {c}
      /\ \A t \in Store \ {s} : claims'[t] = claims[t]
      /\ live \subseteq Store
  BY DEF AddClaim, TypeOK, processVars, remoteVars, refVars
<1>2. \A t \in Store : /\ claims'[t] \subseteq minted' /\ captured'[t] \subseteq minted'
                       /\ \A r \in Remote : Root(pending'[t][r]) \subseteq minted'
  BY <1>1 DEF MintInv
<1>3. \A r \in Remote, w \in Writer : \A h \in refs'[r][w] : Root(h) \subseteq minted'
  BY <1>1 DEF MintInv
<1> QED BY <1>1, <1>2, <1>3 DEF MintInv

\* Claims come from stores.
LEMMA MintNext ==
  ASSUME Inductive, [Next]_vars, MintInv
  PROVE  MintInv'
<1>0. TypeOK
  BY DEF Inductive
<1>1. CASE UNCHANGED vars
  BY <1>1, MintForgets DEF vars, storeVars, durableVars, processVars, remoteVars, refVars
<1>2. ASSUME NEW s \in Store, NEW c \in Claim, AddClaim(s, c)
      PROVE  MintInv'
  BY <1>0, <1>2, MintAddClaim
<1>3. ASSUME NEW s \in Store, NEW w \in Writer, Fork(s, w)
      PROVE  MintInv'
  <2>1. /\ UNCHANGED <<live, claims, minted, captured, refs>>
        /\ \A t \in Store, r \in Remote : pending'[t][r] \in {pending[t][r], None}
    BY <1>0, <1>3 DEF Fork, TypeOK, processVars, remoteVars, refVars
  <2> QED BY <2>1, MintForgets
<1>4. ASSUME NEW s \in Store, NEW t \in Store, NEW ledger \in SUBSET claims[s],
             Copy(s, t, ledger)
      PROVE  MintInv'
  <2>1. /\ UNCHANGED <<minted, captured, refs>>
        /\ t \notin live /\ live' = live \cup {t} /\ live \subseteq Store
        /\ claims'[t] = ledger /\ pending'[t] = pending[s]
        /\ \A x \in Store \ {t} : claims'[x] = claims[x] /\ pending'[x] = pending[x]
    BY <1>0, <1>4 DEF Copy, TypeOK, processVars, remoteVars, refVars
  <2>2. \A x \in Store : claims'[x] \subseteq minted /\ captured'[x] \subseteq minted
    BY <2>1 DEF MintInv
  <2>3. \A x \in Store, r \in Remote : Root(pending'[x][r]) \subseteq minted
    BY <2>1 DEF MintInv
  <2>4. \A r \in Remote, w \in Writer : \A h \in refs'[r][w] : Root(h) \subseteq minted
    BY <2>1 DEF MintInv
  <2> QED BY <2>1, <2>2, <2>3, <2>4, MintKept
<1>5. ASSUME NEW s \in Store, LinkRef(s) \/ FillSlot(s)
      PROVE  MintInv'
  <2>1. /\ Complete(s) /\ at[s] \in Remote /\ writer[s] \in Writer
        /\ UNCHANGED <<live, claims, minted, captured, pending>>
    BY <1>5, SlotWriterFacts DEF storeVars, durableVars
  <2>2. \A r \in Remote, w \in Writer : \A h \in refs'[r][w] : Root(h) \subseteq minted
    <3> TAKE r \in Remote, w \in Writer
    <3> TAKE h \in refs'[r][w]
    <3>1. h \in refs[r][w] \/ h = Pending(s)
      BY <1>0, <2>1, CompleteFacts
    <3>2. CASE h \in refs[r][w]
      BY <3>2 DEF MintInv
    <3>3. CASE h = Pending(s)
      BY <2>1, <3>3 DEF MintInv, Pending
    <3> QED BY <3>1, <3>2, <3>3
  <2>3. /\ \A x \in Store : claims'[x] \subseteq minted /\ captured'[x] \subseteq minted
        /\ \A x \in Store, r \in Remote : Root(pending'[x][r]) \subseteq minted
    BY <2>1 DEF MintInv
  <2> QED BY <2>1, <2>2, <2>3, MintKept
<1>6. ASSUME NEW s \in Store, CaptureLedger(s)
      PROVE  MintInv'
  <2>1. /\ UNCHANGED <<live, claims, minted, pending, refs>>
        /\ captured'[s] = claims[s]
        /\ \A t \in Store \ {s} : captured'[t] = captured[t]
    BY <1>0, <1>6 DEF CaptureLedger, TypeOK, storeVars, durableVars, remoteVars, refVars
  <2>2. \A x \in Store : claims'[x] \subseteq minted /\ captured'[x] \subseteq minted
    BY <2>1 DEF MintInv
  <2>3. /\ \A x \in Store, r \in Remote : Root(pending'[x][r]) \subseteq minted
        /\ \A r \in Remote, w \in Writer : \A h \in refs'[r][w] : Root(h) \subseteq minted
    BY <2>1 DEF MintInv
  <2> QED BY <2>1, <2>2, <2>3, MintKept
<1>7. ASSUME NEW s \in Store, SavePending(s)
      PROVE  MintInv'
  <2>1. /\ UNCHANGED <<live, claims, minted, captured, refs>>
        /\ at[s] \in Remote
        /\ pending'[s][at[s]] = NextRef(s)
        /\ \A r \in Remote \ {at[s]} : pending'[s][r] = pending[s][r]
        /\ \A t \in Store \ {s} : pending'[t] = pending[t]
    BY <1>0, <1>7 DEF SavePending, TypeOK, remoteVars, refVars
  <2>2. Root(NextRef(s)) = captured[s]
    BY <1>0, AppendFacts DEF NextRef, TypeOK
  <2>3. \A t \in Store, r \in Remote : Root(pending'[t][r]) \subseteq minted
    <3> TAKE t \in Store, r \in Remote
    <3>1. CASE t = s /\ r = at[s]
      BY <2>1, <2>2, <3>1 DEF MintInv
    <3>2. CASE ~(t = s /\ r = at[s])
      BY <2>1, <3>2 DEF MintInv
    <3> QED BY <3>1, <3>2
  <2>4. /\ \A x \in Store : claims'[x] \subseteq minted /\ captured'[x] \subseteq minted
        /\ \A r \in Remote, w \in Writer : \A h \in refs'[r][w] : Root(h) \subseteq minted
    BY <2>1 DEF MintInv
  <2> QED BY <2>1, <2>3, <2>4, MintKept
<1>8. ASSUME NEW s \in Store, AdoptPending(s) \/ SaveLastRef(s)
      PROVE  MintInv'
  <2>1. /\ UNCHANGED <<live, claims, minted, refs>>
        /\ pending' = [pending EXCEPT ![s][at[s]] = None]
    BY <1>8 DEF AdoptPending, SaveLastRef, Settle, remoteVars, refVars
  <2>2. \A t \in Store, r \in Remote : pending'[t][r] \in {pending[t][r], None}
    BY <1>0, <2>1 DEF TypeOK
  <2>3. \A t \in Store : captured'[t] \in {captured[t], {}}
    BY <1>0, <1>8 DEF AdoptPending, SaveLastRef, TypeOK
  <2> QED BY <2>1, <2>2, <2>3, MintForgets
<1>9. ASSUME NEW s \in Store, FinishUnchanged(s) \/ Refuse(s) \/ Crash(s) \/ PowerLoss(s)
      PROVE  MintInv'
  <2>1. Leave(s) /\ UNCHANGED <<live, minted, pending, refs>>
    BY <1>9
    DEF FinishUnchanged, Refuse, Crash, PowerLoss, storeVars, durableVars, remoteVars, refVars
  <2>3. \A t \in Store : claims'[t] \subseteq claims[t]
    <3>1. CASE PowerLoss(s)
      BY <1>0, <3>1 DEF PowerLoss, TypeOK
    <3>2. CASE UNCHANGED claims
      BY <3>2
    <3> QED BY <1>9, <3>1, <3>2 DEF FinishUnchanged, Refuse, Crash, storeVars
  <2>2. \A t \in Store : captured'[t] \in {captured[t], {}}
    BY <1>0, <2>1 DEF Leave, TypeOK
  <2> QED BY <2>1, <2>2, <2>3, MintForgets
<1>10. ASSUME NEW s \in Store,
              \/ \E r \in Remote : BeginPublish(s, r)
              \/ NameRemote(s) \/ FindName(s) \/ FillName(s) \/ FindDamage(s)
              \/ ReadTip(s) \/ NothingPending(s) \/ RetryPending(s) \/ PutBlob(s)
              \/ PutPack(s) \/ CreateSlot(s) \/ MarkSlot(s) \/ ResumeSlot(s) \/ FindRef(s)
       PROVE  MintInv'
  <2>1. UNCHANGED <<live, claims, minted, captured, pending, refs>>
    BY <1>10
    DEF BeginPublish, NameRemote, FindName, FillName, FindDamage, ReadTip, NothingPending,
        RetryPending, PutBlob, PutPack, CreateSlot, MarkSlot, ResumeSlot, FindRef,
        storeVars, durableVars, processVars, remoteVars, refVars
  <2> QED BY <2>1, MintForgets
<1> QED
  BY <1>1, <1>2, <1>3, <1>4, <1>5, <1>6, <1>7, <1>8, <1>9, <1>10
  DEF Next, StoreStep, PublishStep, WriteRef

(***************************************************************************)
(* A store that appears by recovery, or anew.                              *)
(***************************************************************************)

\* What a step that founds a store changes.
LEMMA FoundFacts ==
  ASSUME Inductive, NEW t \in Store \ live, NEW w \in Writer, NEW L \in Ledger,
         Found(t, w, L)
  PROVE  /\ UNCHANGED <<minted, lost, pc, at, tip, captured, settling>>
         /\ UNCHANGED <<refs, marked, blank, packs, blobs>>
         /\ live' = live \cup {t}
         /\ claims' = [claims EXCEPT ![t] = L] /\ claims'[t] = L
         /\ \A r \in Remote : last_ref'[t][r] = None /\ pending'[t][r] = None
         /\ \A x \in Store \ {t} : UNCHANGED <<claims[x], writer[x], last_ref[x], pending[x]>>
         /\ pc[t] = "idle" /\ tip[t] = None
<1>1. pc[t] = "idle" /\ tip[t] = None
  BY DEF Inductive, ProcessInv, ProcessOk
<1> QED BY <1>1 DEF Found, durableVars, processVars, remoteVars, refVars, Inductive, TypeOK

\* A store that remembers nothing of any remote disturbs nobody.
LEMMA FoundInductive ==
  ASSUME Inductive, NEW t \in Store \ live, NEW w \in Writer, NEW L \in Ledger,
         Closed(L), Found(t, w, L)
  PROVE  Inductive'
<1>1. /\ UNCHANGED <<pc, at, tip, captured, refs, marked, blank, packs, blobs>>
      /\ live \subseteq live' /\ claims'[t] = L
      /\ \A r \in Remote : last_ref'[t][r] = None /\ pending'[t][r] = None
      /\ \A x \in Store \ {t} : UNCHANGED <<claims[x], writer[x], last_ref[x], pending[x]>>
      /\ pc[t] = "idle" /\ tip[t] = None
  BY FoundFacts
<1>2. TypeOK /\ RemoteInv
  BY DEF Inductive, RemoteInv
<1>3. TypeOK'
  <2>1. None \in Ref
    BY DEF Ref, None
  <2>2. live' \subseteq Store /\ ids' \subseteq Writer /\ writer' \in [Store -> Writer]
        /\ claims' \in [Store -> Ledger]
    BY <1>2 DEF Found, TypeOK
  <2>3. /\ last_ref' \in [Store -> [Remote -> Ref]]
        /\ pending' \in [Store -> [Remote -> Ref]]
    BY <1>2, <2>1 DEF Found, TypeOK
  <2>4. UNCHANGED <<minted, loose, lost, pc, at, tip, captured, settling, named, refs,
                    marked, blank, packs, blobs>>
    BY DEF Found, durableVars, processVars, remoteVars, refVars
  <2> QED BY <1>2, <2>2, <2>3, <2>4 DEF TypeOK
<1>4. RemotesGrow
  BY <1>1 DEF RemotesGrow
<1>5. RemoteInv'
  BY <1>1, <1>2, <1>4, RemoteKept
<1>6. StateInv'
  <2> SUFFICES ASSUME NEW x \in Store PROVE StateOk(x)'
    BY DEF StateInv
  <2>1. CASE x = t
    BY <1>1, <2>1 DEF StateOk
  <2>2. CASE x # t
    BY <1>1, <1>2, <1>4, <2>2, StateKept DEF Inductive, StateInv
  <2> QED BY <2>1, <2>2
<1>7. LogsInv'
  BY <1>1 DEF Inductive, LogsInv
<1>8. ProcessInv'
  <2> SUFFICES ASSUME NEW x \in Store PROVE ProcessOk(x)'
    BY DEF ProcessInv
  <2>1. CASE x = t
    BY <1>1, <2>1 DEF ProcessOk
  <2>2. CASE x # t
    <3>1. ProcessOk(x) /\ UNCHANGED <<pc[x], at[x], tip[x], captured[x]>>
          /\ UNCHANGED <<writer[x], last_ref[x], pending[x]>>
      BY <1>1, <2>2 DEF Inductive, ProcessInv
    <3>2. pc[x] = "mark" => Len(Pending(x)) \in blank'[at[x]][writer[x]]
      BY <1>1, <3>1 DEF ProcessOk
    <3>3. pc[x] = "fill" => SlotIsOurs(x)' \/ SlotHasIt(x)'
      BY <1>1, <3>1 DEF ProcessOk, SlotIsOurs, SlotHasIt, Chain, Pending
    <3> QED BY <1>1, <1>2, <1>4, <3>1, <3>2, <3>3, ProcessKept
  <2> QED BY <2>1, <2>2
<1>9. OwnerInv'
  BY <1>1 DEF Inductive, OwnerInv, Pending
<1> QED BY <1>3, <1>5, <1>6, <1>7, <1>8, <1>9 DEF Inductive, RemoteInv

\* It brings no claim that nobody minted.
LEMMA FoundMint ==
  ASSUME Inductive, MintInv, NEW t \in Store \ live, NEW w \in Writer, NEW L \in Ledger,
         L \subseteq minted, Found(t, w, L)
  PROVE  MintInv'
<1>1. /\ UNCHANGED <<minted, captured, refs>>
      /\ live' = live \cup {t} /\ claims'[t] = L
      /\ \A r \in Remote : pending'[t][r] = None
      /\ \A x \in Store \ {t} : UNCHANGED <<claims[x], pending[x]>>
  BY FoundFacts
<1>2. Root(None) = {} /\ live \subseteq Store
  BY DEF Root, Inductive, TypeOK
<1>3. \A x \in Store : claims'[x] \subseteq minted /\ captured'[x] \subseteq minted
  BY <1>1 DEF MintInv
<1>4. \A x \in Store, r \in Remote : Root(pending'[x][r]) \subseteq minted
  <2> TAKE x \in Store, r \in Remote
  <2>1. CASE x = t
    BY <1>1, <1>2, <2>1
  <2>2. CASE x # t
    BY <1>1, <2>2 DEF MintInv
  <2> QED BY <2>1, <2>2
<1>5. \A r \in Remote, v \in Writer : \A h \in refs'[r][v] : Root(h) \subseteq minted
  BY <1>1 DEF MintInv
<1> QED BY <1>1, <1>3, <1>4, <1>5, MintKept

(***************************************************************************)
(* Recovering.                                                             *)
(***************************************************************************)

\* What a recovery has read verifies, at any time.
LEMMA ReadVerifies ==
  ASSUME Inductive, RecoverTypeOK, NEW t \in Store, ReadingOk(t)
  PROVE  /\ Verifies(t) /\ Union(t) \in Ledger
         /\ Union(t) \subseteq Published(source[t])
<1>1. source[t] \in Remote
  BY DEF RecoverTypeOK
<1>2. ASSUME NEW h \in heads[t]
      PROVE  \E w \in Writer : h \in refs[source[t]][w] /\ Ready(source[t], w, h)
  BY <1>1 DEF ReadingOk, Inductive, RefsInv
<1>3. Closed(Union(t))
  <2> SUFFICES ASSUME NEW c \in Union(t) PROVE Needs[c] \subseteq Union(t)
    BY DEF Closed
  <2>1. PICK h \in heads[t] : c \in Root(h)
    BY DEF Union
  <2>2. Closed(Root(h))
    BY <1>2 DEF Ready
  <2> QED BY <2>1, <2>2 DEF Closed, Union
<1>4. ContentOf(Union(t)) \subseteq blobs[source[t]]
  BY <1>2 DEF ContentOf, Union, Ready
<1>5. \A h \in heads[t] : PacksOf(h) \subseteq packs[source[t]]
  BY <1>2 DEF Ready
<1>6. Union(t) \in Ledger
  <2>1. \A h \in heads[t] : Root(h) \in Ledger
    BY RootFacts DEF RecoverTypeOK
  <2> QED BY <2>1 DEF Union, Ledger
<1>7. Union(t) \subseteq Published(source[t])
  BY <1>2 DEF Union, Published, PublishedBy
<1> QED BY <1>3, <1>4, <1>5, <1>6, <1>7 DEF Verifies

\* What is published is a set of minted claims.
LEMMA PublishedFacts ==
  ASSUME Inductive, NEW r \in Remote
  PROVE  /\ Published(r) \in Ledger
         /\ \A w \in Writer : PublishedBy(r, w) \in Ledger /\ Closed(PublishedBy(r, w))
         /\ MintInv => Published(r) \subseteq minted
<1>1. ASSUME NEW w \in Writer
      PROVE  /\ PublishedBy(r, w) \in Ledger /\ Closed(PublishedBy(r, w))
             /\ MintInv => PublishedBy(r, w) \subseteq minted
  <2>1. \A h \in refs[r][w] : Root(h) \in Ledger
    BY RootFacts DEF Inductive, TypeOK
  <2>2. \A h \in refs[r][w] : Closed(Root(h))
    BY DEF Inductive, RefsInv, Ready
  <2>3. PublishedBy(r, w) \in Ledger
    BY <2>1 DEF PublishedBy, Ledger
  <2>4. Closed(PublishedBy(r, w))
    BY <2>2 DEF PublishedBy, Closed
  <2>5. MintInv => PublishedBy(r, w) \subseteq minted
    BY DEF MintInv, PublishedBy
  <2> QED BY <2>3, <2>4, <2>5
<1>2. Published(r) \in Ledger
  BY <1>1 DEF Published, Ledger
<1> QED BY <1>1, <1>2 DEF Published

\* A recovery that takes no step of its own sees remotes grow.
LEMMA ReadingKept ==
  ASSUME RecoverTypeOK, RemotesGrow, NEW t \in Store, ReadingOk(t),
         UNCHANGED <<reading[t], source[t], todo[t], heads[t], wanted[t]>>
  PROVE  ReadingOk(t)'
<1>1. source[t] \in Remote /\ todo[t] \subseteq Writer
  BY DEF RecoverTypeOK
<1>2. \A w \in Writer : refs[source[t]][w] \subseteq refs'[source[t]][w]
  BY <1>1 DEF RemotesGrow
<1>3. \A w \in Writer : PublishedBy(source[t], w) \subseteq PublishedBy(source[t], w)'
  BY <1>2 DEF PublishedBy
<1>4. Union(t)' = Union(t)
  BY DEF Union
<1>5. \A h \in heads'[t] : \E w \in Writer : h \in refs'[source'[t]][w]
  BY <1>2 DEF ReadingOk
<1>6. wanted'[t] \subseteq Union(t)' \cup UNION {PublishedBy(source[t], w)' : w \in todo'[t]}
  BY <1>1, <1>3, <1>4 DEF ReadingOk
<1> QED BY <1>4, <1>5, <1>6 DEF ReadingOk

\* Listing the writers leaves out none that has published.
LEMMA BeginRecoverStep ==
  ASSUME RecoverInductive, NEW t \in Store, NEW r \in Remote, BeginRecover(t, r)
  PROVE  /\ RecoverTypeOK' /\ ReadingInv'
         /\ source' = [source EXCEPT ![t] = r]
         /\ wanted' = [wanted EXCEPT ![t] = Published(r)]
<1>1. /\ UNCHANGED <<heads, vars, refs>>
      /\ ~reading[t] /\ reading' = [reading EXCEPT ![t] = TRUE]
      /\ source' = [source EXCEPT ![t] = r]
      /\ todo' = [todo EXCEPT ![t] = Writers(r)]
      /\ wanted' = [wanted EXCEPT ![t] = Published(r)]
  BY DEF BeginRecover, vars, remoteVars, refVars
<1>2. RecoverTypeOK /\ Inductive
  BY DEF RecoverInductive
<1>3. RecoverTypeOK'
  <2>1. TypeOK'
    BY <1>1, <1>2
    DEF vars, storeVars, durableVars, processVars, remoteVars, refVars, RecoverTypeOK, TypeOK
  <2>2. Published(r) \in Ledger /\ Writers(r) \subseteq Writer
    BY <1>2, PublishedFacts DEF Writers
  <2> QED BY <1>1, <1>2, <2>1, <2>2 DEF RecoverTypeOK
<1>4. ReadingInv'
  <2> SUFFICES ASSUME NEW x \in Store PROVE ReadingOk(x)'
    BY DEF ReadingInv
  <2>1. CASE x = t
    <3>1. /\ heads'[t] = {} /\ reading'[t] /\ source'[t] = r
          /\ todo'[t] = Writers(r) /\ wanted'[t] = Published(r)
      BY <1>1, <1>2 DEF RecoverInductive, ReadingInv, ReadingOk, RecoverTypeOK
    <3>2. \A w \in Writer : PublishedBy(r, w)' = PublishedBy(r, w)
      BY <1>1 DEF PublishedBy
    <3>3. \A w \in Writer \ Writers(r) : PublishedBy(r, w) = {}
      BY DEF Writers, PublishedBy
    <3>4. wanted'[t] \subseteq UNION {PublishedBy(r, w)' : w \in todo'[t]}
      BY <3>1, <3>2, <3>3 DEF Published
    <3> QED BY <2>1, <3>1, <3>4 DEF ReadingOk
  <2>2. CASE x # t
    <3>1. UNCHANGED <<reading[x], source[x], todo[x], heads[x], wanted[x]>>
      BY <1>1, <1>2, <2>2 DEF RecoverTypeOK
    <3>2. RemotesGrow
      BY <1>1 DEF RemotesGrow, vars, remoteVars, refVars
    <3> QED BY <1>2, <3>1, <3>2, ReadingKept DEF RecoverInductive, ReadingInv
  <2> QED BY <2>1, <2>2
<1> QED BY <1>1, <1>3, <1>4

\* The tip of a writer publishes all that the writer has published.
LEMMA ReadWriterStep ==
  ASSUME RecoverInductive, NEW t \in Store, NEW w \in Writer, ReadWriter(t, w)
  PROVE  RecoverTypeOK' /\ ReadingInv'
<1> DEFINE r == source[t]
<1>1. PICK h \in refs[r][w] \cup {None} :
        /\ IsTip(r, w, h)
        /\ heads' = [heads EXCEPT ![t] = @ \cup ({h} \ {None})]
  BY DEF ReadWriter
<1>2. /\ UNCHANGED <<reading, source, wanted, vars, refs>>
      /\ reading[t] /\ todo' = [todo EXCEPT ![t] = @ \ {w}]
  BY DEF ReadWriter, vars, remoteVars, refVars
<1>3. RecoverTypeOK /\ Inductive /\ r \in Remote
  BY DEF RecoverInductive, RecoverTypeOK
<1>4. h \in refs[r][w] => h \in Ref
  BY <1>3 DEF Inductive, TypeOK
<1>5. RecoverTypeOK'
  <2>1. TypeOK'
    BY <1>2, <1>3
    DEF vars, storeVars, durableVars, processVars, remoteVars, refVars, RecoverTypeOK, TypeOK
  <2>2. heads' \in [Store -> SUBSET Ref]
    BY <1>1, <1>3, <1>4 DEF RecoverTypeOK
  <2> QED BY <1>2, <1>3, <2>1, <2>2 DEF RecoverTypeOK
<1>6. PublishedBy(r, w) \subseteq UNION {Root(g) : g \in {h} \ {None}}
  <2> SUFFICES ASSUME NEW g \in refs[r][w]
               PROVE  h # None /\ Root(g) \subseteq Root(h)
    BY DEF PublishedBy
  <2>1. Len(g) <= Len(h)
    BY <1>1 DEF IsTip
  <2>2. g \in Ref /\ g # None
    <3>1. g \in Ref
      BY <1>3 DEF Inductive, TypeOK
    <3>2. g # None
      BY <1>3 DEF Inductive, RefsInv, Ready
    <3> QED BY <3>1, <3>2
  <2>3. Len(g) \in Nat \ {0}
    BY <2>2, FrontFacts
  <2>4. h # None
    BY <2>1, <2>3, EmptySeq DEF None
  <2>5. Root(g) \subseteq Root(h)
    BY <1>1, <1>3, <2>1, <2>4 DEF RecoverInductive, LineInv
  <2> QED BY <2>4, <2>5
<1>7. ReadingInv'
  <2> SUFFICES ASSUME NEW x \in Store PROVE ReadingOk(x)'
    BY DEF ReadingInv
  <2>1. CASE x = t
    <3>1. ReadingOk(t)
      BY DEF RecoverInductive, ReadingInv
    <3>2. /\ heads'[t] = heads[t] \cup ({h} \ {None}) /\ todo'[t] = todo[t] \ {w}
          /\ reading'[t] /\ source'[t] = r /\ wanted'[t] = wanted[t]
      BY <1>1, <1>2, <1>3 DEF RecoverTypeOK
    <3>3. \A g \in heads'[t] : \E v \in Writer : g \in refs'[source'[t]][v]
      BY <1>2, <3>1, <3>2 DEF ReadingOk
    <3>4. \A v \in Writer : PublishedBy(source[t], v)' = PublishedBy(r, v)
      BY <1>2 DEF PublishedBy
    <3>5. Union(t)' = Union(t) \cup UNION {Root(g) : g \in {h} \ {None}}
      BY <3>2 DEF Union
    <3>6. todo[t] \subseteq Writer
      BY <1>3 DEF RecoverTypeOK
    <3>7. wanted'[t] \subseteq Union(t)' \cup UNION {PublishedBy(r, v) : v \in todo'[t]}
      <4> SUFFICES ASSUME NEW c \in wanted[t], c \notin Union(t)'
                   PROVE  \E v \in todo'[t] : c \in PublishedBy(r, v)
        BY <3>2
      <4>1. PICK v \in todo[t] : c \in PublishedBy(r, v)
        BY <3>1, <3>5 DEF ReadingOk
      <4>2. v # w
        BY <1>6, <3>5, <4>1
      <4> QED BY <3>2, <4>1, <4>2
    <3>8. wanted'[t] \subseteq Union(t)'
             \cup UNION {PublishedBy(source[t], v)' : v \in todo'[t]}
      BY <3>2, <3>4, <3>6, <3>7
    <3> QED BY <2>1, <3>2, <3>3, <3>8 DEF ReadingOk
  <2>2. CASE x # t
    <3>1. UNCHANGED <<reading[x], source[x], todo[x], heads[x], wanted[x]>>
      BY <1>1, <1>2, <1>3, <2>2 DEF RecoverTypeOK
    <3>2. RemotesGrow
      BY <1>2 DEF RemotesGrow, vars, remoteVars, refVars
    <3> QED BY <1>3, <3>1, <3>2, ReadingKept DEF RecoverInductive, ReadingInv
  <2> QED BY <2>1, <2>2
<1> QED BY <1>5, <1>7

\* The end of a recovery leaves nothing to say of it.
LEMMA EndRecoverStep ==
  ASSUME RecoverTypeOK, ReadingInv, TypeOK', RemotesGrow, NEW t \in Store, EndRecover(t)
  PROVE  /\ RecoverTypeOK' /\ ReadingInv'
         /\ source' = source /\ wanted' = [wanted EXCEPT ![t] = {}]
<1>1. /\ reading' = [reading EXCEPT ![t] = FALSE]
      /\ todo' = [todo EXCEPT ![t] = {}] /\ heads' = [heads EXCEPT ![t] = {}]
      /\ wanted' = [wanted EXCEPT ![t] = {}] /\ source' = source
  BY DEF EndRecover
<1>2. RecoverTypeOK'
  BY <1>1 DEF RecoverTypeOK, Ledger
<1>3. ReadingInv'
  <2> SUFFICES ASSUME NEW x \in Store PROVE ReadingOk(x)'
    BY DEF ReadingInv
  <2>1. CASE x = t
    <3>1. heads'[t] = {} /\ wanted'[t] = {}
      BY <1>1 DEF RecoverTypeOK
    <3> QED BY <2>1, <3>1 DEF ReadingOk
  <2>2. CASE x # t
    <3>1. UNCHANGED <<reading[x], source[x], todo[x], heads[x], wanted[x]>>
      BY <1>1, <2>2 DEF RecoverTypeOK
    <3> QED BY <3>1, ReadingKept DEF ReadingInv
  <2> QED BY <2>1, <2>2
<1> QED BY <1>1, <1>2, <1>3

\* A step that founds a store keeps what is said of refs and remotes.
LEMMA FoundKeeps ==
  ASSUME RecoverInductive, NEW t \in Store \ live, NEW w \in Writer, NEW L \in Ledger,
         Closed(L), L \subseteq minted, Found(t, w, L)
  PROVE  Inductive' /\ LineInv' /\ MintInv' /\ RemotesGrow
<1>1. UNCHANGED <<refs, packs, blobs>>
  BY FoundFacts DEF RecoverInductive
<1>2. Inductive' /\ MintInv'
  BY FoundInductive, FoundMint DEF RecoverInductive
<1>3. LineInv' /\ RemotesGrow
  BY <1>1 DEF RecoverInductive, LineInv, RemotesGrow
<1> QED BY <1>2, <1>3

\* A new store, with an empty log, keeps the invariant.
LEMMA NewStoreStep ==
  ASSUME RecoverInductive, NEW t \in Store, NEW w \in Writer, NewStore(t, w)
  PROVE  RecoverInductive'
<1>1. /\ t \notin live /\ Found(t, w, {})
      /\ UNCHANGED <<reading, source, todo, heads, wanted>>
      /\ {} \in Ledger /\ Closed({}) /\ {} \subseteq minted
  BY DEF NewStore, recoverVars, Ledger, Closed
<1>2. Inductive' /\ LineInv' /\ MintInv' /\ RemotesGrow
  BY <1>1, FoundKeeps
<1>3. RecoverTypeOK'
  BY <1>1, <1>2 DEF RecoverInductive, RecoverTypeOK, Inductive
<1>4. ReadingInv'
  BY <1>1, <1>2, ReadingKept DEF RecoverInductive, ReadingInv
<1> QED BY <1>2, <1>3, <1>4 DEF RecoverInductive

\* What the rename of the stage needs and does.
LEMMA InstallFacts ==
  ASSUME RecoverInductive, NEW t \in Store, NEW w \in Writer, Install(t, w)
  PROVE  /\ t \in Store \ live /\ Union(t) \in Ledger /\ Closed(Union(t))
         /\ Union(t) \subseteq minted /\ Union(t) \subseteq Published(source[t])
         /\ wanted[t] \subseteq Union(t) /\ source[t] \in Remote
         /\ Found(t, w, Union(t)) /\ EndRecover(t)
<1>1. /\ todo[t] = {} /\ t \notin live /\ Found(t, w, Union(t)) /\ EndRecover(t)
  BY DEF Install, CanInstall
<1>2. ReadingOk(t) /\ source[t] \in Remote /\ Inductive /\ RecoverTypeOK /\ MintInv
  BY DEF RecoverInductive, ReadingInv, RecoverTypeOK
<1>3. /\ Closed(Union(t)) /\ Union(t) \in Ledger
      /\ Union(t) \subseteq Published(source[t])
  BY <1>2, ReadVerifies DEF Verifies
<1>4. Union(t) \subseteq minted
  BY <1>2, <1>3, PublishedFacts
<1>5. wanted[t] \subseteq Union(t)
  BY <1>1, <1>2 DEF ReadingOk
<1> QED BY <1>1, <1>2, <1>3, <1>4, <1>5

\* Every step of a recovery, and a store that takes its target, keeps the
\* invariant.
LEMMA RecoverStepInductive ==
  ASSUME RecoverInductive, NEW t \in Store, RecoverStep(t)
  PROVE  RecoverInductive'
<1>1. ASSUME NEW r \in Remote, BeginRecover(t, r) PROVE RecoverInductive'
  <2>1. UNCHANGED vars
    BY <1>1 DEF BeginRecover
  <2>2. Inductive' /\ LineInv' /\ MintInv'
    BY <2>1, NextInductive, LineNext, MintNext DEF RecoverInductive
  <2> QED BY <1>1, <2>2, BeginRecoverStep DEF RecoverInductive
<1>2. ASSUME NEW w \in Writer, NewStore(t, w) PROVE RecoverInductive'
  BY <1>2, NewStoreStep
<1>3. ASSUME NEW w \in Writer, ReadWriter(t, w) PROVE RecoverInductive'
  <2>1. UNCHANGED vars
    BY <1>3 DEF ReadWriter
  <2>2. Inductive' /\ LineInv' /\ MintInv'
    BY <2>1, NextInductive, LineNext, MintNext DEF RecoverInductive
  <2> QED BY <1>3, <2>2, ReadWriterStep DEF RecoverInductive
<1>4. ASSUME NEW w \in Writer, Install(t, w) PROVE RecoverInductive'
  <2>1. Inductive' /\ LineInv' /\ MintInv' /\ RemotesGrow /\ EndRecover(t)
    BY <1>4, InstallFacts, FoundKeeps
  <2>2. RecoverTypeOK' /\ ReadingInv'
    BY <2>1, EndRecoverStep DEF RecoverInductive, Inductive
  <2> QED BY <2>1, <2>2 DEF RecoverInductive
<1>5. CASE AbandonRecover(t)
  <2>1. UNCHANGED vars /\ EndRecover(t)
    BY <1>5 DEF AbandonRecover
  <2>2. Inductive' /\ LineInv' /\ MintInv' /\ RemotesGrow
    BY <2>1, NextInductive, LineNext, MintNext, GrowStep DEF RecoverInductive, Inductive
  <2>3. RecoverTypeOK' /\ ReadingInv'
    BY <2>1, <2>2, EndRecoverStep DEF RecoverInductive, Inductive
  <2> QED BY <2>2, <2>3 DEF RecoverInductive
<1> QED BY <1>1, <1>2, <1>3, <1>4, <1>5 DEF RecoverStep

\* So does every step of a publisher beside them.
LEMMA PublisherKeeps ==
  ASSUME RecoverInductive, [Next]_vars, UNCHANGED recoverVars
  PROVE  RecoverInductive'
<1>1. UNCHANGED <<reading, source, todo, heads, wanted>>
  BY DEF recoverVars
<1>2. Inductive' /\ LineInv' /\ MintInv' /\ RemotesGrow
  BY NextInductive, LineNext, MintNext, GrowStep DEF RecoverInductive, Inductive
<1>3. RecoverTypeOK'
  BY <1>1, <1>2 DEF RecoverInductive, RecoverTypeOK, Inductive
<1>4. ReadingInv'
  BY <1>1, <1>2, ReadingKept DEF RecoverInductive, ReadingInv
<1> QED BY <1>2, <1>3, <1>4 DEF RecoverInductive

\* The invariant holds initially, when nothing is published.
LEMMA InitRecover == RecoverInit => RecoverInductive
<1> SUFFICES ASSUME RecoverInit PROVE RecoverInductive
  OBVIOUS
<1>1. Inductive
  BY InitInductive DEF RecoverInit
<1>2. LineInv
  BY DEF RecoverInit, Init, LineInv
<1>3. MintInv
  <2>1. Root(None) = {}
    BY DEF Root
  <2> QED BY <2>1 DEF RecoverInit, Init, MintInv
<1>4. RecoverTypeOK
  BY <1>1 DEF RecoverInit, RecoverTypeOK, Inductive, TypeOK, Ledger
<1>5. ReadingInv
  BY DEF RecoverInit, ReadingInv, ReadingOk
<1> QED BY <1>1, <1>2, <1>3, <1>4, <1>5 DEF RecoverInductive

\* The invariant holds in every state of every run.
THEOREM RecoverInvariance == RecoverSpec => []RecoverInductive
<1>1. RecoverInductive /\ [RecoverNext]_allVars => RecoverInductive'
  <2> SUFFICES ASSUME RecoverInductive, [RecoverNext]_allVars
               PROVE  RecoverInductive'
    OBVIOUS
  <2>1. CASE UNCHANGED allVars
    BY <2>1, PublisherKeeps DEF allVars
  <2>2. CASE Next /\ UNCHANGED recoverVars
    BY <2>2, PublisherKeeps
  <2>3. CASE \E t \in Store : RecoverStep(t)
    BY <2>3, RecoverStepInductive
  <2> QED BY <2>1, <2>2, <2>3 DEF RecoverNext
<1> QED BY <1>1, InitRecover, PTL DEF RecoverSpec

(***************************************************************************)
(* What it is for.                                                         *)
(***************************************************************************)

\* Every variable of stores, remotes and recoveries keeps its kind.
THEOREM RecoverTypeCorrect == RecoverSpec => []RecoverTypeOK
<1>1. RecoverInductive => RecoverTypeOK
  BY DEF RecoverInductive
<1> QED BY <1>1, RecoverInvariance, PTL

\* A recovery that reads writer after writer, while any number of stores
\* publish, never finds a pack, a blob or a claim missing.
THEOREM RecoveryFindsAll == RecoverSpec => []NeverIncomplete
<1>1. RecoverInductive => NeverIncomplete
  BY ReadVerifies DEF RecoverInductive, ReadingInv, NeverIncomplete
<1> QED BY <1>1, RecoverInvariance, PTL

\* What publishing and recovering show of themselves to Backup.
Archive == [r \in Remote |-> [w \in Writer |-> PublishedBy(r, w)]]

\* Nothing is archived while no ref is there.
LEMMA InitBackup == RecoverInit => Abstract!Init
<1> SUFFICES ASSUME RecoverInit PROVE Abstract!Init
  OBVIOUS
<1>1. \A r \in Remote, w \in Writer : PublishedBy(r, w) = {}
  BY DEF RecoverInit, Init, PublishedBy
<1>2. Archive = [r \in Remote |-> [w \in Writer |-> {}]]
  BY <1>1 DEF Archive
<1>3. source \in [Store -> Remote]
  BY DEF RecoverInit, Init
<1> QED BY <1>2, <1>3 DEF Abstract!Init, RecoverInit, Init, Archive

\* A step that leaves the refs alone leaves the archive alone.
LEMMA ArchiveKept == UNCHANGED refs => UNCHANGED Archive
BY DEF Archive, PublishedBy

\* Completing a slot is a checkpoint.
LEMMA CompleteIsCheckpoint ==
  ASSUME RecoverInductive, NEW s \in Store, LinkRef(s) \/ FillSlot(s),
         UNCHANGED recoverVars
  PROVE  Abstract!Next
<1> DEFINE r0 == at[s]
           w0 == writer[s]
           h  == Pending(s)
           S  == PublishedBy(r0, w0) \cup Root(h)
<1>1. /\ Inductive /\ MintInv /\ Complete(s) /\ UNCHANGED storeVars
      /\ r0 \in Remote /\ w0 \in Writer /\ h \in Ref
      /\ Ready(r0, w0, h)
  BY SlotWriterFacts DEF RecoverInductive
<1>2. \A r \in Remote, w \in Writer :
         PublishedBy(r, w)' = IF r = r0 /\ w = w0 THEN S ELSE PublishedBy(r, w)
  <2> TAKE r \in Remote, w \in Writer
  <2>1. refs'[r][w] = IF r = r0 /\ w = w0 THEN refs[r][w] \cup {h} ELSE refs[r][w]
    <3>1. TypeOK
      BY <1>1 DEF Inductive
    <3>2. CASE r = r0 /\ w = w0
      BY <1>1, <3>1, <3>2, CompleteFacts
    <3>3. CASE ~(r = r0 /\ w = w0)
      BY <1>1, <3>1, <3>3, CompleteFacts
    <3> QED BY <3>2, <3>3
  <2>2. UNION {Root(g) : g \in refs[r0][w0] \cup {h}} = S
    BY DEF PublishedBy
  <2> QED BY <2>1, <2>2 DEF PublishedBy
<1>3. PublishedBy(r0, w0) \in Ledger /\ Closed(PublishedBy(r0, w0)) /\ Root(h) \in Ledger
  BY <1>1, PublishedFacts, RootFacts
<1>4. S \in SUBSET Claim /\ Closed(S)
  BY <1>1, <1>3 DEF Ledger, Ready, Closed
<1>5. S \subseteq minted
  <2>1. PublishedBy(r0, w0) \subseteq minted
    BY <1>1, PublishedFacts DEF Published
  <2>2. Root(h) \subseteq minted
    BY <1>1 DEF MintInv, Pending
  <2> QED BY <1>1, <2>1, <2>2 DEF MintInv
<1>6. Archive' = [Archive EXCEPT ![r0][w0] = S]
  BY <1>1, <1>2 DEF Archive
<1>7. Archive[r0][w0] \subseteq S
  BY <1>1 DEF Archive
<1>8. UNCHANGED <<minted, live, claims, source, wanted>>
  BY <1>1 DEF storeVars, durableVars, recoverVars
<1> HIDE DEF S, r0, w0
<1>9. Abstract!Checkpoint(r0, w0, S)
  BY <1>4, <1>5, <1>6, <1>7, <1>8
  DEF Abstract!Checkpoint, Abstract!Whole, Closed, Archive
<1> QED BY <1>1, <1>4, <1>9 DEF Abstract!Next

\* The other steps of stores and publishers: writing and losing claims, copying,
\* and steps that Backup does not see.
LEMMA PublishIsBackup ==
  ASSUME RecoverInductive, Next, UNCHANGED recoverVars
  PROVE  [Abstract!Next]_(Abstract!vars)
<1>0. /\ Inductive /\ TypeOK /\ MintInv /\ UNCHANGED <<source, wanted>>
  BY DEF RecoverInductive, Inductive, recoverVars
<1>1. ASSUME NEW s \in Store, NEW c \in Claim, AddClaim(s, c)
      PROVE  Abstract!Next
  <2>1. /\ s \in live /\ c \notin minted /\ Needs[c] \subseteq claims[s]
        /\ minted' = minted \cup {c}
        /\ claims' = [claims EXCEPT ![s] = @ \cup {c}]
        /\ UNCHANGED <<live, refs>>
    BY <1>1 DEF AddClaim, remoteVars, refVars
  <2>2. Abstract!Write(s, c)
    BY <1>0, <2>1, ArchiveKept DEF Abstract!Write, Archive
  <2> QED BY <2>2 DEF Abstract!Next
<1>2. ASSUME NEW s \in Store, NEW t \in Store, NEW L \in SUBSET claims[s], Copy(s, t, L)
      PROVE  Abstract!Next
  <2>1. /\ s \in live /\ t \notin live /\ Closed(L)
        /\ live' = live \cup {t} /\ claims' = [claims EXCEPT ![t] = L]
        /\ UNCHANGED <<minted, refs>>
    BY <1>2 DEF Copy, remoteVars, refVars
  <2>2. L \in SUBSET Claim
    BY <1>0 DEF TypeOK, Ledger
  <2>3. Abstract!Duplicate(s, t, L)
    BY <1>0, <2>1, ArchiveKept DEF Abstract!Duplicate, Abstract!Whole, Closed, Archive
  <2> QED BY <2>2, <2>3 DEF Abstract!Next
<1>3. ASSUME NEW s \in Store, LinkRef(s) \/ FillSlot(s)
      PROVE  Abstract!Next
  BY <1>3, CompleteIsCheckpoint
<1>4. ASSUME UNCHANGED <<minted, live, claims, refs>>
      PROVE  UNCHANGED Abstract!vars
  BY <1>0, <1>4, ArchiveKept DEF Abstract!vars, Archive
<1>5. ASSUME NEW s \in Store, NEW w \in Writer, Fork(s, w)
      PROVE  UNCHANGED <<minted, live, claims, refs>>
  BY <1>5 DEF Fork, remoteVars, refVars
<1>6. ASSUME NEW s \in Store, NEW r \in Remote, BeginPublish(s, r)
      PROVE  UNCHANGED <<minted, live, claims, refs>>
  BY <1>6 DEF BeginPublish, storeVars, durableVars, remoteVars, refVars
<1>7. ASSUME NEW s \in Store, PublishStep(s), ~LinkRef(s), ~FillSlot(s)
      PROVE  UNCHANGED <<minted, live, claims, refs>>
  BY <1>7
  DEF PublishStep, WriteRef, NameRemote, FindName, FillName, ReadTip, NothingPending,
      AdoptPending, RetryPending, CaptureLedger, FindDamage, PutBlob, FinishUnchanged,
      PutPack, SavePending, CreateSlot, MarkSlot, ResumeSlot, FindRef, SaveLastRef, Settle,
      Refuse, storeVars, durableVars, remoteVars, refVars
<1>8. ASSUME NEW s \in Store, Crash(s)
      PROVE  UNCHANGED <<minted, live, claims, refs>>
  BY <1>8 DEF Crash, storeVars, durableVars, remoteVars, refVars
<1>9. ASSUME NEW s \in Store, PowerLoss(s)
      PROVE  Abstract!Next
  <2>1. PICK gone \in SUBSET loose[s] :
           /\ Closed(claims[s] \ gone)
           /\ claims' = [claims EXCEPT ![s] = @ \ gone]
    BY <1>9 DEF PowerLoss
  <2>2. s \in live /\ UNCHANGED <<minted, live, refs>>
    BY <1>9 DEF PowerLoss, remoteVars, refVars
  <2>3. claims[s] \ gone \in SUBSET Claim
    BY <1>0 DEF TypeOK, Ledger
  <2>4. Abstract!Lose(s, claims[s] \ gone)
    BY <1>0, <2>1, <2>2, ArchiveKept DEF Abstract!Lose, Abstract!Whole, Closed, Archive
  <2> QED BY <2>3, <2>4 DEF Abstract!Next
<1> QED
  BY <1>1, <1>2, <1>3, <1>4, <1>5, <1>6, <1>7, <1>8, <1>9 DEF Next, StoreStep

\* Recoveries begin, end and are given up as those of Backup; a store that is
\* started anew holds part of what another holds: nothing.
LEMMA RecoverIsBackup ==
  ASSUME RecoverInductive, NEW t \in Store, RecoverStep(t)
  PROVE  [Abstract!Next]_(Abstract!vars)
<1>0. Inductive /\ TypeOK /\ RecoverTypeOK /\ ReadingInv /\ live # {} /\ live \subseteq Store
  BY DEF RecoverInductive, Inductive, TypeOK, MintInv
<1>1. ASSUME NEW r \in Remote, BeginRecover(t, r) PROVE Abstract!Next
  <2>1. /\ source' = [source EXCEPT ![t] = r]
        /\ wanted' = [wanted EXCEPT ![t] = Published(r)]
    BY <1>1, BeginRecoverStep
  <2>2. t \notin live /\ UNCHANGED <<minted, live, claims, refs>>
    BY <1>1 DEF BeginRecover, vars, storeVars, durableVars, remoteVars, refVars
  <2>3. UNION {Archive[r][w] : w \in Writer} = Published(r)
    BY DEF Archive, Published
  <2>4. Abstract!BeginRecovery(t, r)
    BY <2>1, <2>2, <2>3, ArchiveKept
    DEF Abstract!BeginRecovery, Abstract!Archived, Archive
  <2> QED BY <2>4 DEF Abstract!Next
<1>2. ASSUME NEW w \in Writer, NewStore(t, w) PROVE Abstract!Next
  <2>1. /\ t \notin live /\ live' = live \cup {t}
        /\ claims' = [claims EXCEPT ![t] = {}]
        /\ UNCHANGED <<minted, refs, source, wanted>>
    BY <1>2 DEF NewStore, Found, remoteVars, refVars, recoverVars
  <2>2. PICK s \in live : TRUE
    BY <1>0
  <2>3. Abstract!Duplicate(s, t, {})
    BY <1>0, <2>1, ArchiveKept DEF Abstract!Duplicate, Abstract!Whole, Archive
  <2> QED BY <1>0, <2>3 DEF Abstract!Next
<1>3. ASSUME NEW w \in Writer, ReadWriter(t, w) PROVE UNCHANGED Abstract!vars
  <2>1. UNCHANGED <<minted, live, claims, refs, source, wanted>>
    BY <1>3 DEF ReadWriter, vars, storeVars, durableVars, remoteVars, refVars
  <2> QED BY <2>1, ArchiveKept DEF Abstract!vars, Archive
<1>4. ASSUME NEW w \in Writer, Install(t, w) PROVE Abstract!Next
  <2> DEFINE S == Union(t)
  <2>1. /\ t \notin live /\ S \in SUBSET Claim /\ Closed(S)
        /\ S \subseteq Published(source[t]) /\ wanted[t] \subseteq S
        /\ Found(t, w, S) /\ EndRecover(t) /\ source[t] \in Remote
    BY <1>4, InstallFacts DEF Ledger
  <2>2. /\ live' = live \cup {t} /\ claims' = [claims EXCEPT ![t] = S]
        /\ wanted' = [wanted EXCEPT ![t] = {}] /\ UNCHANGED <<minted, refs, source>>
    BY <2>1 DEF Found, EndRecover, remoteVars, refVars
  <2>3. UNION {Archive[source[t]][v] : v \in Writer} = Published(source[t])
    BY <2>1 DEF Archive, Published
  <2> HIDE DEF S
  <2>4. Abstract!FinishRecovery(t, S)
    BY <2>1, <2>2, <2>3, ArchiveKept
    DEF Abstract!FinishRecovery, Abstract!Archived, Abstract!Whole, Closed, Archive
  <2> QED BY <2>1, <2>4 DEF Abstract!Next
<1>5. CASE AbandonRecover(t)
  <2>1. /\ wanted' = [wanted EXCEPT ![t] = {}]
        /\ UNCHANGED <<minted, live, claims, refs, source>>
    BY <1>5 DEF AbandonRecover, EndRecover, vars, storeVars, durableVars, remoteVars, refVars
  <2>2. Abstract!AbandonRecovery(t)
    BY <2>1, ArchiveKept DEF Abstract!AbandonRecovery, Archive
  <2> QED BY <2>2 DEF Abstract!Next
<1> QED BY <1>1, <1>2, <1>3, <1>4, <1>5 DEF RecoverStep

\* Whatever the interleaving of publishers, crashes, copies and recoveries:
\* checkpoints only grow, and a recovery brings back at least all that was
\* published when it began, nothing that never was, and no claim alone.
THEOREM ImplementsBackup == RecoverSpec => IsBackup
<1>1. RecoverInductive /\ [RecoverNext]_allVars => [Abstract!Next]_(Abstract!vars)
  <2> SUFFICES ASSUME RecoverInductive, [RecoverNext]_allVars
               PROVE  [Abstract!Next]_(Abstract!vars)
    OBVIOUS
  <2>1. CASE UNCHANGED allVars
    <3>1. UNCHANGED <<minted, live, claims, refs, source, wanted>>
      BY <2>1 DEF allVars, vars, storeVars, durableVars, remoteVars, refVars, recoverVars
    <3>2. UNCHANGED Abstract!vars
      BY <3>1, ArchiveKept DEF Abstract!vars, Archive
    <3> QED BY <3>2
  <2>2. CASE Next /\ UNCHANGED recoverVars
    BY <2>2, PublishIsBackup
  <2>3. CASE \E t \in Store : RecoverStep(t)
    BY <2>3, RecoverIsBackup
  <2> QED BY <2>1, <2>2, <2>3 DEF RecoverNext
<1> QED BY <1>1, InitBackup, RecoverInvariance, PTL DEF RecoverSpec, IsBackup, Abstract!Spec

----------------------------------------------------------------------------
(***************************************************************************)
(* Where no store is ever copied, a publish is refused for damage only: to *)
(* logs and content, by a power failure or by a reservation left unfilled. *)
(*                                                                         *)
(* A store is then the only one that writes under its ID: forks and        *)
(* recoveries draw fresh ones.  So what a remote holds under that ID is    *)
(* what writer.json says, but for the ref that waits there; and what it    *)
(* published is in its logs, but for what power failures took from them.   *)
(***************************************************************************)

\* The refs of store s on remote r are those up to its last ref, and perhaps the
\* one that is pending, and so are the reservations; its logs hold them all, but
\* for what it lost.
LineOk(s, r) ==
    /\ \A h \in refs[r][writer[s]] :
          /\ h = pending[s][r] \/ Len(h) <= Len(last_ref[s][r])
          /\ Root(h) \subseteq claims[s] \cup lost[s]
    /\ marked[r][writer[s]] \subseteq {pending[s][r]}
    /\ blank[r][writer[s]] \subseteq {Len(pending[s][r])}
    /\ Root(pending[s][r]) \subseteq claims[s] \cup lost[s]

\* What a run has read is still so.
RunOk(s) ==
    /\ pc[s] = "reconcile" => IsTip(at[s], writer[s], tip[s])
    /\ pc[s] = "compare" => TipIsLast(s)
    /\ pc[s] \in {"content", "save"} => captured[s] \subseteq claims[s]

\* Each store has an ID of its own; IDs not yet drawn have nothing anywhere.
OwnInv ==
    /\ \A s \in live : writer[s] \in ids /\ RunOk(s) /\ \A r \in Remote : LineOk(s, r)
    /\ \A s, t \in live : writer[s] = writer[t] => s = t
    /\ \A r \in Remote, w \in Writer \ ids :
          refs[r][w] = {} /\ marked[r][w] = {} /\ blank[r][w] = {}

(***************************************************************************)
(* What the invariant is for.                                              *)
(***************************************************************************)

\* The tip that is read is the last ref on record, or the pending one.
LEMMA TipFacts ==
  ASSUME Inductive, OwnInv, NEW s \in live, pc[s] = "reconcile"
  PROVE  TipIsLast(s) \/ (tip[s] = Pending(s) /\ Pending(s) # None)
<1> DEFINE r == at[s]
           w == writer[s]
           L == last_ref[s][r]
<1>1. /\ TypeOK /\ s \in Store /\ r \in Remote /\ w \in Writer
      /\ RefsInv /\ StateOk(s) /\ LineOk(s, r) /\ IsTip(r, w, tip[s])
  BY DEF Inductive, TypeOK, StateInv, OwnInv, RunOk
<1>2. /\ tip[s] \in Ref /\ L \in Ref
      /\ L \in refs[r][w] \cup {None} /\ tip[s] \in refs[r][w] \cup {None}
      /\ \A g \in refs[r][w] : Len(g) <= Len(tip[s])
  BY <1>1 DEF TypeOK, StateOk, IsTip
<1>3. /\ Len(None) = 0
      /\ \A h \in refs[r][w] : h # None /\ Len(h) \in Nat \ {0}
      /\ \A g, h \in refs[r][w] : Len(g) = Len(h) => g = h
  <2>1. \A h \in refs[r][w] : h \in Ref /\ h # None
    <3>1. \A h \in refs[r][w] : h # None
      BY <1>1 DEF RefsInv, Ready
    <3>2. refs[r][w] \subseteq Ref
      BY <1>1 DEF TypeOK
    <3> QED BY <3>1, <3>2
  <2>2. \A g, h \in refs[r][w] : Len(g) = Len(h) => g = h
    BY <1>1 DEF RefsInv
  <2>3. Len(None) = 0
    BY EmptySeq DEF None
  <2> QED BY <2>1, <2>2, <2>3, FrontFacts
<1>4. CASE tip[s] = None
  <2>1. L \notin refs[r][w]
    BY <1>2, <1>3, <1>4
  <2> QED BY <1>2, <1>4, <2>1 DEF TipIsLast, LastRef
<1>5. CASE tip[s] \in refs[r][w] /\ Len(tip[s]) <= Len(L)
  <2>1. L \in refs[r][w] /\ Len(L) = Len(tip[s])
    BY <1>2, <1>3, <1>5
  <2>2. L = tip[s]
    BY <1>3, <1>5, <2>1
  <2> QED BY <2>2 DEF TipIsLast, LastRef
<1>6. CASE tip[s] \in refs[r][w] /\ tip[s] = pending[s][r]
  BY <1>3, <1>6 DEF Pending
<1> QED BY <1>1, <1>2, <1>4, <1>5, <1>6 DEF LineOk

\* latest_ref accepts the chain of every writer at all times.
LEMMA AlwaysReadable ==
  ASSUME Inductive, NEW r \in Remote, NEW w \in Writer
  PROVE  Readable(r, w)
BY DEF Inductive, RefsInv, MarkedInv, BlankInv, Ready, Readable

\* An old checkpoint of the chain holds no more than its tip.
LEMMA NewLedger ==
  ASSUME Inductive, LineInv, NEW s \in Store, pc[s] = "content", ~Unchanged(s)
  PROVE  HasNewNodes(s)
<1> DEFINE r == at[s]
           w == writer[s]
           h == tip[s]
<1>1. /\ TypeOK /\ RefsInv /\ r \in Remote /\ w \in Writer /\ h \in Ref
      /\ h \in refs[r][w] \cup {None} /\ Root(h) \subseteq captured[s]
  BY DEF Inductive, TypeOK, ProcessInv, ProcessOk, Chain
<1>2. SUFFICES ASSUME captured[s] \in ToSet(h) PROVE FALSE
  BY DEF HasNewNodes
<1>3. PICK i \in 1 .. Len(h) : captured[s] = h[i]
  <2>1. DOMAIN h = 1 .. Len(h)
    BY <1>1, LenProperties DEF Ref
  <2> QED BY <1>2, <2>1 DEF ToSet
<1>4. Len(h) \in Nat /\ i \in 0 .. Len(h) /\ h # None
  <2>1. Len(h) \in Nat
    BY <1>1, LenProperties DEF Ref
  <2>2. h # None
    BY <2>1, <1>3 DEF None
  <2> QED BY <1>3, <2>1, <2>2
<1>5. h \in refs[r][w] /\ SubSeq(h, 1, i) \in refs[r][w]
  BY <1>1, <1>3, <1>4 DEF RefsInv
<1>6. Len(SubSeq(h, 1, i)) = i /\ SubSeq(h, 1, i)[i] = h[i]
  BY <1>1, <1>3, <1>4, PrefixFacts
<1>7. Root(SubSeq(h, 1, i)) = captured[s]
  <2>1. SubSeq(h, 1, i) # None
    BY <1>3, <1>4, <1>6 DEF None
  <2> QED BY <1>3, <1>6, <2>1 DEF Root, Last
<1>8. captured[s] \subseteq Root(h)
  <2> DEFINE g == SubSeq(h, 1, i)
  <2>1. g \in refs[r][w] /\ Len(g) <= Len(h) /\ Root(g) = captured[s]
    BY <1>3, <1>4, <1>5, <1>6, <1>7
  <2> HIDE DEF g, r, w, h
  <2>2. Root(g) \subseteq Root(h)
    BY <1>1, <1>5, <2>1 DEF LineInv
  <2> QED BY <2>1, <2>2
<1> QED BY <1>1, <1>4, <1>8 DEF Unchanged, Root

\* A taken slot is taken by the pending ref, or blank.
LEMMA SlotFacts ==
  ASSUME Inductive, OwnInv, NEW s \in live, pc[s] = "claim",
         Len(Pending(s)) \notin blank[at[s]][writer[s]]
  PROVE  SlotFree(s) \/ SlotHasIt(s) \/ SlotIsOurs(s)
<1> DEFINE r == at[s]
           w == writer[s]
           P == Pending(s)
<1>1. /\ TypeOK /\ s \in Store /\ r \in Remote /\ w \in Writer
      /\ StateOk(s) /\ LineOk(s, r) /\ P # None /\ P \in Ref
  BY DEF Inductive, TypeOK, StateInv, OwnInv, ProcessInv, ProcessOk, Pending
<1>2. SUFFICES ASSUME NEW h \in refs[r][w] \cup marked[r][w], Len(h) = Len(P), h # P
               PROVE  FALSE
  BY DEF SlotFree, SlotHasIt, SlotIsOurs, Taken, Chain
<1>3. h \in refs[r][w] /\ Len(h) <= Len(last_ref[s][r])
  BY <1>1, <1>2 DEF LineOk, Pending
<1>4. last_ref[s][r] = Front(P) /\ Len(Front(P)) = Len(P) - 1 /\ Len(P) \in Nat
  BY <1>1, FrontFacts DEF StateOk, Pending
<1> QED BY <1>2, <1>3, <1>4

\* So the refusals that are left have damage to show for it.
LEMMA OwnRefusals ==
  ASSUME Inductive, LineInv, OwnInv, NEW s \in live, Refused(s)
  PROVE  Damaged(s)
<1>1. /\ TypeOK /\ s \in Store /\ at[s] \in Remote /\ writer[s] \in Writer
      /\ RefsInv /\ StateOk(s) /\ LineOk(s, at[s]) /\ RunOk(s)
  BY DEF Inductive, TypeOK, StateInv, OwnInv
<1>2. CASE pc[s] = "tip"
  BY <1>1, <1>2, AlwaysReadable DEF Refused
<1>3. CASE pc[s] = "reconcile"
  <2>1. Pending(s) # None => PendingMatches(s)
    BY <1>1 DEF StateOk, PendingMatches, Pending, LastRef
  <2> QED BY <1>3, <2>1, TipFacts DEF Refused
<1>4. CASE pc[s] = "compare"
  <2>1. TipIsLast(s) /\ tip[s] \in refs[at[s]][writer[s]] \cup {None}
    BY <1>1, <1>4 DEF RunOk, StateOk, TipIsLast, LastRef
  <2>2. Root(tip[s]) \subseteq claims[s] \cup lost[s]
    <3>1. Root(None) = {}
      BY DEF Root
    <3> QED BY <1>1, <2>1, <3>1 DEF LineOk
  <2>3. PriorLoads(s)
    <3>1. PacksOf(None) = {}
      BY DEF PacksOf, None
    <3> QED BY <1>1, <2>1, <3>1 DEF RefsInv, Ready, PriorLoads
  <2>4. ~PriorKept(s)
    BY <1>4, <2>1, <2>3 DEF Refused
  <2> QED BY <1>4, <2>2, <2>4 DEF PriorKept, Damaged
<1>5. CASE pc[s] = "content"
  BY <1>1, <1>5, NewLedger DEF Refused
<1>6. CASE pc[s] = "claim"
  BY <1>6, SlotFacts DEF Refused, Damaged
<1>7. CASE pc[s] \in {"name", "damaged"}
  BY <1>7 DEF Refused, Damaged
<1>8. pc[s] \in {"name", "tip", "reconcile", "compare", "content", "damaged", "claim"}
  BY DEF Refused
<1> QED BY <1>2, <1>3, <1>4, <1>5, <1>6, <1>7, <1>8

(***************************************************************************)
(* The invariant over the steps of a store.                                *)
(***************************************************************************)

\* A step of one store leaves the others, and what is under their IDs, alone.
LEMMA OwnStep ==
  ASSUME TypeOK, OwnInv, NEW s \in live,
         UNCHANGED <<live, writer, ids>>,
         \A t \in Store \ {s} :
            /\ UNCHANGED <<pc[t], at[t], tip[t], captured[t]>>
            /\ UNCHANGED <<claims[t], lost[t], last_ref[t], pending[t]>>,
         \A r \in Remote, w \in Writer \ {writer[s]} :
            UNCHANGED <<refs[r][w], marked[r][w], blank[r][w]>>,
         RunOk(s)', \A r \in Remote : LineOk(s, r)'
  PROVE  OwnInv'
<1>1. live \subseteq Store
  BY DEF TypeOK
<1>2. ASSUME NEW t \in live, t # s
      PROVE  writer[t] \in ids /\ RunOk(t)' /\ \A r \in Remote : LineOk(t, r)'
  <2>1. /\ writer[t] \in ids /\ RunOk(t) /\ \A r \in Remote : LineOk(t, r)
        /\ writer[t] # writer[s]
    BY <1>2 DEF OwnInv
  <2>2. /\ writer[t] \in Writer \ {writer[s]} /\ at[t] \in Remote
        /\ UNCHANGED <<pc[t], at[t], tip[t], captured[t]>>
        /\ UNCHANGED <<claims[t], lost[t], last_ref[t], pending[t]>>
    BY <1>1, <1>2, <2>1 DEF TypeOK
  <2>3. \A r \in Remote :
           UNCHANGED <<refs[r][writer[t]], marked[r][writer[t]], blank[r][writer[t]]>>
    BY <2>2
  <2>4. RunOk(t)'
    BY <2>1, <2>2, <2>3 DEF RunOk, IsTip, TipIsLast, LastRef
  <2>5. \A r \in Remote : LineOk(t, r)'
    BY <2>1, <2>2, <2>3 DEF LineOk
  <2> QED BY <2>1, <2>4, <2>5
<1>3. \A t \in live : writer[t] \in ids /\ RunOk(t)' /\ \A r \in Remote : LineOk(t, r)'
  BY <1>2 DEF OwnInv
<1>4. writer[s] \in ids
  BY DEF OwnInv
<1>5. \A r \in Remote, w \in Writer \ ids :
         refs'[r][w] = {} /\ marked'[r][w] = {} /\ blank'[r][w] = {}
  BY <1>4 DEF OwnInv
<1>6. \A t, u \in live : writer[t] = writer[u] => t = u
  BY DEF OwnInv
<1> QED BY <1>3, <1>5, <1>6 DEF OwnInv

\* A step of a publisher that writes no slot, and nothing to writer.json.
LEMMA OwnQuiet ==
  ASSUME TypeOK, OwnInv, NEW s \in live,
         UNCHANGED <<storeVars, refs, marked, blank>>,
         \A t \in Store \ {s} : UNCHANGED <<pc[t], at[t], tip[t], captured[t]>>,
         RunOk(s)'
  PROVE  OwnInv'
<1>1. UNCHANGED <<live, claims, lost, writer, last_ref, pending, ids>>
  BY DEF storeVars, durableVars
<1>2. \A r \in Remote : LineOk(s, r)'
  BY <1>1 DEF OwnInv, LineOk
<1> QED BY <1>1, <1>2, OwnStep

\* Reading the tip, and what a publisher does up to the upload of its pack.
LEMMA OwnReading ==
  ASSUME Inductive, OwnInv, NEW s \in live,
         \/ ReadTip(s) \/ NothingPending(s) \/ RetryPending(s) \/ CaptureLedger(s)
         \/ PutBlob(s) \/ PutPack(s)
  PROVE  OwnInv'
<1>1. TypeOK /\ s \in Store /\ RunOk(s)
  BY DEF Inductive, TypeOK, OwnInv
<1>2. CASE ReadTip(s)
  <2>1. /\ UNCHANGED <<at, captured, storeVars, refs, marked, blank>>
        /\ pc'[s] = "reconcile" /\ IsTip(at[s], writer[s], tip'[s])
        /\ \A t \in Store \ {s} : UNCHANGED <<pc[t], tip[t]>>
    BY <1>1, <1>2 DEF ReadTip, Goto, remoteVars, refVars, TypeOK
  <2>2. RunOk(s)'
    BY <2>1 DEF RunOk, IsTip, storeVars, durableVars
  <2> QED BY <1>1, <2>1, <2>2, OwnQuiet
<1>3. CASE NothingPending(s)
  <2>1. /\ UNCHANGED <<at, tip, captured, storeVars, refs, marked, blank>>
        /\ pc[s] = "reconcile" /\ pc'[s] = "compare" /\ Pending(s) = None
        /\ \A t \in Store \ {s} : UNCHANGED pc[t]
    BY <1>1, <1>3 DEF NothingPending, Goto, remoteVars, refVars, TypeOK
  <2>2. TipIsLast(s)
    BY <2>1, TipFacts
  <2>3. RunOk(s)'
    BY <2>1, <2>2 DEF RunOk, TipIsLast, LastRef, storeVars, durableVars
  <2> QED BY <1>1, <2>1, <2>3, OwnQuiet
<1>4. CASE RetryPending(s)
  <2>1. /\ UNCHANGED <<at, tip, captured, storeVars, refs, marked, blank>>
        /\ pc'[s] = "claim" /\ \A t \in Store \ {s} : UNCHANGED pc[t]
    BY <1>1, <1>4 DEF RetryPending, Goto, remoteVars, refVars, TypeOK
  <2>2. RunOk(s)'
    BY <2>1 DEF RunOk
  <2> QED BY <1>1, <2>1, <2>2, OwnQuiet
<1>5. CASE CaptureLedger(s)
  <2>1. /\ UNCHANGED <<at, tip, storeVars, refs, marked, blank>>
        /\ pc'[s] = "content" /\ captured'[s] = claims[s]
        /\ \A t \in Store \ {s} : UNCHANGED <<pc[t], captured[t]>>
    BY <1>1, <1>5 DEF CaptureLedger, Goto, remoteVars, refVars, TypeOK
  <2>2. RunOk(s)'
    BY <2>1 DEF RunOk, storeVars, durableVars
  <2> QED BY <1>1, <2>1, <2>2, OwnQuiet
<1>6. CASE PutBlob(s)
  <2>1. UNCHANGED <<pc, at, tip, captured, storeVars, refs, marked, blank>>
    BY <1>6 DEF PutBlob, processVars
  <2>2. RunOk(s)'
    BY <1>1, <2>1 DEF RunOk, IsTip, TipIsLast, LastRef, storeVars, durableVars
  <2> QED BY <1>1, <2>1, <2>2, OwnQuiet
<1>7. CASE PutPack(s)
  <2>1. /\ UNCHANGED <<at, tip, captured, storeVars, refs, marked, blank>>
        /\ pc[s] = "content" /\ pc'[s] = "save"
        /\ \A t \in Store \ {s} : UNCHANGED pc[t]
    BY <1>1, <1>7 DEF PutPack, Goto, TypeOK
  <2>2. RunOk(s)'
    BY <1>1, <2>1 DEF RunOk, storeVars, durableVars
  <2> QED BY <1>1, <2>1, <2>2, OwnQuiet
<1> QED BY <1>2, <1>3, <1>4, <1>5, <1>6, <1>7

\* The beginning and the end of a run, naming the remote, finding damage, and the
\* steps of write_once_ref that only find out what the slot holds.
LEMMA OwnPassing ==
  ASSUME Inductive, OwnInv, NEW s \in live,
         \/ \E r \in Remote : BeginPublish(s, r)
         \/ Leave(s) /\ UNCHANGED <<storeVars, remoteVars>>
         \/ NameRemote(s) \/ FindName(s) \/ FillName(s) \/ FindDamage(s)
         \/ ResumeSlot(s) \/ FindRef(s)
  PROVE  OwnInv'
<1>1. TypeOK /\ s \in Store
  BY DEF Inductive, TypeOK
<1>2. /\ UNCHANGED <<storeVars, refs, marked, blank>>
      /\ pc'[s] \in {"name", "naming", "tip", "damaged", "idle", "fill", "settle"}
      /\ \A t \in Store \ {s} : UNCHANGED <<pc[t], at[t], tip[t], captured[t]>>
  <2>1. CASE \E r \in Remote : BeginPublish(s, r)
    BY <1>1, <2>1 DEF BeginPublish, Goto, remoteVars, refVars, TypeOK
  <2>2. CASE Leave(s) /\ UNCHANGED <<storeVars, remoteVars>>
    BY <1>1, <2>2 DEF Leave, remoteVars, refVars, TypeOK
  <2>3. CASE ResumeSlot(s) \/ FindRef(s)
    BY <1>1, <2>3 DEF ResumeSlot, FindRef, Goto, remoteVars, refVars, TypeOK
  <2>4. CASE NameRemote(s) \/ FindName(s) \/ FillName(s) \/ FindDamage(s)
    BY <1>1, <2>4
    DEF NameRemote, FindName, FillName, FindDamage, Goto, remoteVars, refVars, TypeOK
  <2> QED BY <2>1, <2>2, <2>3, <2>4
<1>3. RunOk(s)'
  BY <1>2 DEF RunOk
<1> QED BY <1>1, <1>2, <1>3, OwnQuiet

\* Nothing is published without a ref.
LEMMA RootNone == Root(None) = {}
BY DEF Root

\* Where nothing is pending there is no reservation.
LEMMA NoReservation ==
  ASSUME Inductive, OwnInv, NEW s \in live, NEW r \in Remote, pending[s][r] = None
  PROVE  /\ marked[r][writer[s]] = {} /\ blank[r][writer[s]] = {}
         /\ \A h \in refs[r][writer[s]] : Len(h) <= Len(last_ref[s][r])
<1>1. /\ LineOk(s, r) /\ writer[s] \in Writer /\ Len(None) = 0
      /\ RefsInv /\ MarkedInv /\ BlankInv
  BY EmptySeq DEF Inductive, TypeOK, OwnInv, None
<1>2. marked[r][writer[s]] = {}
  BY <1>1 DEF LineOk, MarkedInv, Ready
<1>3. blank[r][writer[s]] = {}
  BY <1>1 DEF LineOk, BlankInv
<1>4. \A h \in refs[r][writer[s]] : h # None
  BY <1>1 DEF RefsInv, Ready
<1> QED BY <1>1, <1>2, <1>3, <1>4 DEF LineOk

\* The ref to publish goes into writer.json before anything goes into the slot.
LEMMA OwnSavePending ==
  ASSUME Inductive, OwnInv, NEW s \in live, SavePending(s)
  PROVE  OwnInv'
<1> DEFINE r0 == at[s]
<1>1. /\ UNCHANGED <<live, writer, ids, claims, lost, last_ref, at, tip, captured>>
      /\ UNCHANGED <<refs, marked, blank>>
      /\ pc[s] = "save" /\ pc'[s] = "claim"
      /\ \A t \in Store \ {s} : UNCHANGED <<pc[t], pending[t]>>
      /\ pending'[s][r0] = NextRef(s)
      /\ \A r \in Remote \ {r0} : pending'[s][r] = pending[s][r]
      /\ TypeOK /\ s \in Store /\ r0 \in Remote
  BY DEF SavePending, Goto, durableVars, remoteVars, refVars, Inductive, TypeOK
<1>2. pending[s][r0] = None /\ captured[s] \subseteq claims[s] /\ RunOk(s)
  BY <1>1 DEF Inductive, ProcessInv, ProcessOk, Pending, OwnInv, RunOk
<1>3. Root(NextRef(s)) = captured[s]
  BY <1>1, AppendFacts DEF NextRef, TypeOK
<1>4. ASSUME NEW r \in Remote
      PROVE  LineOk(s, r)'
  <2>1. LineOk(s, r)
    BY DEF OwnInv
  <2>2. CASE r = r0
    <3>1. /\ marked[r][writer[s]] = {} /\ blank[r][writer[s]] = {}
          /\ \A h \in refs[r][writer[s]] : Len(h) <= Len(last_ref[s][r])
      BY <1>2, <2>2, NoReservation
    <3> QED BY <1>1, <1>2, <1>3, <2>1, <2>2, <3>1 DEF LineOk
  <2>3. CASE r # r0
    BY <1>1, <2>1, <2>3 DEF LineOk
  <2> QED BY <2>2, <2>3
<1>5. RunOk(s)'
  BY <1>1 DEF RunOk
<1> QED BY <1>1, <1>4, <1>5, OwnStep

\* Recording the pending ref, now that the remote has it.
LEMMA OwnSettle ==
  ASSUME Inductive, OwnInv, NEW s \in live, Settle(s), Pending(s) # None, SlotHasIt(s),
         UNCHANGED remoteVars, NEW r \in Remote
  PROVE  LineOk(s, r)'
<1> DEFINE r0 == at[s]
           w  == writer[s]
           P  == Pending(s)
<1>1. /\ UNCHANGED <<claims, lost, writer, refs, marked, blank>>
      /\ r0 \in Remote /\ w \in Writer /\ s \in Store /\ StateOk(s) /\ LineOk(s, r)
      /\ last_ref'[s][r0] = P /\ pending'[s][r0] = None
      /\ r # r0 => UNCHANGED <<last_ref[s][r], pending[s][r]>>
  BY DEF Settle, Recorded, durableVars, remoteVars, refVars, Inductive, TypeOK, StateInv,
         OwnInv
<1>2. CASE r # r0
  BY <1>1, <1>2 DEF LineOk
<1>3. CASE r = r0
  <2>1. /\ P = pending[s][r0] /\ P \in Ref /\ P \in refs[r0][w]
        /\ last_ref[s][r0] = Front(P) /\ last_ref[s][r0] \in Ref
    BY <1>1 DEF Inductive, TypeOK, StateOk, Pending, SlotHasIt, Chain
  <2>2. Len(P) \in Nat \ {0} /\ Len(last_ref[s][r0]) = Len(P) - 1
    BY <2>1, FrontFacts
  <2>3. marked[r0][w] = {}
    <3> SUFFICES ASSUME NEW g \in marked[r0][w] PROVE FALSE
      OBVIOUS
    <3>1. g = P /\ Len(P) < Len(g)
      BY <1>1, <1>3, <2>1 DEF LineOk, Inductive, MarkedInv
    <3> QED BY <2>2, <3>1
  <2>4. blank[r0][w] = {}
    <3> SUFFICES ASSUME NEW n \in blank[r0][w] PROVE FALSE
      OBVIOUS
    <3>1. n = Len(P) /\ Len(P) < n
      BY <1>1, <1>3, <2>1 DEF LineOk, Inductive, BlankInv
    <3> QED BY <2>2, <3>1
  <2>5. ASSUME NEW h \in refs[r0][w]
        PROVE  Len(h) <= Len(P) /\ Root(h) \subseteq claims[s] \cup lost[s]
    <3>1. h \in Ref
      BY <1>1 DEF Inductive, TypeOK
    <3>2. Len(h) \in Nat
      BY <3>1, LenProperties DEF Ref
    <3> QED BY <1>1, <1>3, <2>1, <2>2, <3>2 DEF LineOk
  <2> QED BY <1>1, <1>3, <2>3, <2>4, <2>5, RootNone DEF LineOk
<1> QED BY <1>2, <1>3

\* The two steps that record it.
LEMMA OwnRecording ==
  ASSUME Inductive, OwnInv, NEW s \in live, AdoptPending(s) \/ SaveLastRef(s)
  PROVE  OwnInv'
<1>1. /\ TypeOK /\ s \in Store /\ ProcessOk(s) /\ Settle(s)
      /\ at' = at /\ UNCHANGED remoteVars
      /\ \A t \in Store \ {s} : UNCHANGED <<pc[t], tip[t], captured[t]>>
  BY DEF Inductive, ProcessInv, TypeOK, AdoptPending, SaveLastRef, Goto, remoteVars, refVars
<1>2. Pending(s) # None /\ SlotHasIt(s)
  BY <1>1 DEF ProcessOk, AdoptPending, SaveLastRef, PendingMatches, SlotHasIt
<1>3. /\ UNCHANGED <<live, claims, lost, writer, ids, refs, marked, blank>>
      /\ last_ref'[s][at[s]] = Pending(s)
      /\ \A t \in Store \ {s} : UNCHANGED <<last_ref[t], pending[t]>>
  BY <1>1 DEF Settle, Recorded, durableVars, remoteVars, refVars, TypeOK
<1>4. \A r \in Remote : LineOk(s, r)'
  BY <1>1, <1>2, OwnSettle
<1>5. RunOk(s)'
  <2>1. CASE AdoptPending(s)
    <3>1. pc'[s] = "compare" /\ tip'[s] = Pending(s)
      BY <1>1, <2>1 DEF AdoptPending, Goto, TypeOK
    <3> QED BY <1>1, <1>3, <3>1 DEF RunOk, TipIsLast, LastRef
  <2>2. CASE SaveLastRef(s)
    <3>1. pc'[s] \in {"tip", "idle"}
      BY <1>1, <2>2 DEF SaveLastRef, Goto, TypeOK
    <3> QED BY <3>1 DEF RunOk
  <2> QED BY <2>1, <2>2
<1> QED BY <1>1, <1>3, <1>4, <1>5, OwnStep

\* Writing the slot of the pending ref.
LEMMA OwnSlot ==
  ASSUME Inductive, OwnInv, NEW s \in live,
         LinkRef(s) \/ CreateSlot(s) \/ MarkSlot(s) \/ FillSlot(s)
  PROVE  OwnInv'
<1> DEFINE r0 == at[s]
           w0 == writer[s]
           P  == Pending(s)
<1>1. /\ TypeOK /\ s \in Store /\ r0 \in Remote /\ w0 \in Writer
      /\ UNCHANGED <<live, claims, lost, writer, ids, last_ref, pending, at, tip, captured>>
      /\ pc'[s] \in {"mark", "fill", "settle"}
      /\ \A t \in Store \ {s} : UNCHANGED pc[t]
  BY DEF Inductive, TypeOK, LinkRef, CreateSlot, MarkSlot, FillSlot, Goto, storeVars, durableVars
<1>2. \A r \in Remote, w \in Writer :
         IF r = r0 /\ w = w0
         THEN /\ refs'[r][w] \subseteq refs[r][w] \cup {P}
              /\ marked'[r][w] \subseteq marked[r][w] \cup {P}
              /\ blank'[r][w] \subseteq blank[r][w] \cup {Len(P)}
         ELSE UNCHANGED <<refs[r][w], marked[r][w], blank[r][w]>>
  <2>1. CASE LinkRef(s) \/ FillSlot(s)
    <3>1. Complete(s)
      BY <2>1 DEF LinkRef, FillSlot
    <3> QED BY <1>1, <3>1, CompleteFacts
  <2>2. CASE CreateSlot(s)
    BY <1>1, <2>2 DEF CreateSlot, TypeOK
  <2>3. CASE MarkSlot(s)
    BY <1>1, <2>3 DEF MarkSlot, TypeOK
  <2> QED BY <2>1, <2>2, <2>3
<1>3. ASSUME NEW r \in Remote
      PROVE  LineOk(s, r)'
  <2>1. LineOk(s, r)
    BY DEF OwnInv
  <2>2. CASE r = r0
    BY <1>1, <1>2, <2>1, <2>2 DEF LineOk, Pending
  <2>3. CASE r # r0
    BY <1>1, <1>2, <2>1, <2>3 DEF LineOk
  <2> QED BY <2>2, <2>3
<1>4. RunOk(s)'
  BY <1>1 DEF RunOk
<1>5. \A r \in Remote, w \in Writer \ {writer[s]} :
         UNCHANGED <<refs[r][w], marked[r][w], blank[r][w]>>
  BY <1>2
<1> QED BY <1>1, <1>3, <1>4, <1>5, OwnStep

\* Appending a claim: what is published is in the logs as before.
LEMMA OwnAddClaim ==
  ASSUME Inductive, OwnInv, NEW s \in live, NEW c \in Claim, AddClaim(s, c)
  PROVE  OwnInv'
<1>1. /\ TypeOK /\ s \in Store /\ pc[s] = "idle"
      /\ UNCHANGED <<live, lost, writer, ids, last_ref, pending, pc, at, tip, captured>>
      /\ UNCHANGED <<refs, marked, blank>>
      /\ claims'[s] = claims[s] \cup {c}
      /\ \A t \in Store \ {s} : UNCHANGED claims[t]
  BY DEF Inductive, TypeOK, AddClaim, processVars, remoteVars, refVars
<1>2. \A r \in Remote : LineOk(s, r)'
  BY <1>1 DEF OwnInv, LineOk
<1>3. RunOk(s)'
  BY <1>1 DEF RunOk
<1> QED BY <1>1, <1>2, <1>3, OwnStep

\* A power failure: what is published and not in the logs any more is lost.
LEMMA OwnPowerLoss ==
  ASSUME Inductive, OwnInv, NEW s \in live, PowerLoss(s)
  PROVE  OwnInv'
<1>1. TypeOK /\ s \in Store
  BY DEF Inductive, TypeOK
<1>2. /\ UNCHANGED <<live, writer, ids, last_ref, pending, refs, marked, blank>>
      /\ pc'[s] = "idle"
      /\ \A t \in Store \ {s} : UNCHANGED <<pc[t], at[t], tip[t], captured[t]>>
  BY <1>1 DEF PowerLoss, Leave, remoteVars, refVars, TypeOK
<1>3. /\ claims[s] \cup lost[s] \subseteq claims'[s] \cup lost'[s]
      /\ \A t \in Store \ {s} : UNCHANGED <<claims[t], lost[t]>>
  <2>1. PICK gone \in SUBSET loose[s] :
           /\ claims' = [claims EXCEPT ![s] = @ \ gone]
           /\ lost' = [lost EXCEPT ![s] = @ \cup gone]
    BY DEF PowerLoss
  <2>2. claims'[s] = claims[s] \ gone /\ lost'[s] = lost[s] \cup gone
    BY <1>1, <2>1 DEF TypeOK
  <2>3. \A t \in Store \ {s} : claims'[t] = claims[t] /\ lost'[t] = lost[t]
    BY <1>1, <2>1 DEF TypeOK
  <2> QED BY <2>2, <2>3
<1>4. \A r \in Remote : LineOk(s, r)'
  <2> TAKE r \in Remote
  <2>1. LineOk(s, r)
    BY DEF OwnInv
  <2> QED BY <1>2, <1>3, <2>1 DEF LineOk
<1>5. RunOk(s)'
  BY <1>2 DEF RunOk
<1> QED BY <1>1, <1>2, <1>3, <1>4, <1>5, OwnStep

(***************************************************************************)
(* Fresh IDs.                                                              *)
(***************************************************************************)

\* A store that is given an ID never drawn before, and forgets its remotes, has
\* nothing on any of them.
LEMMA OwnFresh ==
  ASSUME TypeOK, OwnInv, NEW t \in Store, NEW w \in Writer \ ids, pc[t] = "idle",
         live' \subseteq live \cup {t}, writer'[t] = w, ids' = ids \cup {w},
         \A r \in Remote : last_ref'[t][r] = None /\ pending'[t][r] = None,
         \A s \in Store \ {t} : UNCHANGED <<claims[s], writer[s], last_ref[s], pending[s]>>,
         UNCHANGED <<lost, pc, at, tip, captured, refs, marked, blank>>
  PROVE  OwnInv'
<1>1. live \subseteq Store /\ ids' \subseteq Writer
  BY DEF TypeOK
<1>2. \A r \in Remote : refs[r][w] = {} /\ marked[r][w] = {} /\ blank[r][w] = {}
  BY DEF OwnInv
<1>3. \A r \in Remote : LineOk(t, r)'
  BY <1>2, RootNone DEF LineOk
<1>4. RunOk(t)'
  BY DEF RunOk
<1>5. ASSUME NEW s \in live' \ {t}
      PROVE  /\ s \in live /\ writer'[s] = writer[s] /\ writer[s] \in ids
             /\ RunOk(s)' /\ \A r \in Remote : LineOk(s, r)'
  <2>1. /\ s \in live /\ s \in Store \ {t}
        /\ writer[s] \in ids /\ RunOk(s) /\ \A r \in Remote : LineOk(s, r)
    BY <1>1, <1>5 DEF OwnInv
  <2>2. UNCHANGED <<claims[s], writer[s], last_ref[s], pending[s]>>
    BY <2>1
  <2>3. RunOk(s)'
    BY <2>1, <2>2 DEF RunOk, IsTip, TipIsLast, LastRef
  <2>4. \A r \in Remote : LineOk(s, r)'
    BY <2>1, <2>2 DEF LineOk
  <2> QED BY <2>1, <2>2, <2>3, <2>4
<1>6. \A s, u \in live' : writer'[s] = writer'[u] => s = u
  <2> SUFFICES ASSUME NEW s \in live', NEW u \in live', writer'[s] = writer'[u]
               PROVE  s = u
    OBVIOUS
  <2>1. CASE s # t /\ u # t
    BY <1>5, <2>1 DEF OwnInv
  <2>2. CASE s = t \/ u = t
    BY <1>5, <2>2
  <2> QED BY <2>1, <2>2
<1>7. \A s \in live' : writer'[s] \in ids' /\ RunOk(s)' /\ \A r \in Remote : LineOk(s, r)'
  BY <1>3, <1>4, <1>5
<1>8. \A r \in Remote, v \in Writer \ ids' :
         refs'[r][v] = {} /\ marked'[r][v] = {} /\ blank'[r][v] = {}
  BY DEF OwnInv
<1> QED BY <1>6, <1>7, <1>8 DEF OwnInv

\* A fork keeps the invariant.
LEMMA OwnFork ==
  ASSUME Inductive, OwnInv, NEW s \in live, NEW w \in Writer, Fork(s, w)
  PROVE  OwnInv'
<1>1. /\ TypeOK /\ s \in Store /\ pc[s] = "idle" /\ w \notin ids
      /\ live' = live /\ writer'[s] = w /\ ids' = ids \cup {w}
      /\ UNCHANGED <<claims, lost, pc, at, tip, captured, refs, marked, blank>>
      /\ \A r \in Remote : last_ref'[s][r] = None /\ pending'[s][r] = None
      /\ \A t \in Store \ {s} : UNCHANGED <<writer[t], last_ref[t], pending[t]>>
  BY DEF Inductive, TypeOK, Fork, ForkedState, durableVars, processVars, remoteVars, refVars
<1> QED BY <1>1, OwnFresh

\* So does a store that is begun anew or recovered.
LEMMA OwnFound ==
  ASSUME Inductive, OwnInv, NEW t \in Store \ live, NEW w \in Writer, NEW L \in Ledger,
         Found(t, w, L)
  PROVE  OwnInv'
<1>1. /\ TypeOK /\ pc[t] = "idle" /\ w \notin ids
      /\ live' = live \cup {t} /\ writer'[t] = w /\ ids' = ids \cup {w}
      /\ UNCHANGED <<lost, pc, at, tip, captured, refs, marked, blank>>
      /\ \A r \in Remote : last_ref'[t][r] = None /\ pending'[t][r] = None
      /\ \A s \in Store \ {t} :
            UNCHANGED <<claims[s], writer[s], last_ref[s], pending[s]>>
  BY DEF Inductive, TypeOK, ProcessInv, ProcessOk, Found, durableVars, processVars, remoteVars,
         refVars
<1> QED BY <1>1, OwnFresh

(***************************************************************************)
(* The theorem.                                                            *)
(***************************************************************************)

\* Every step of a store or a publisher, but for a copy, keeps the invariant.
LEMMA OwnNext ==
  ASSUME Inductive, OwnInv, CopyTarget = {}, [Next]_vars
  PROVE  OwnInv'
<1>0. TypeOK /\ \A s \in Store : pc[s] # "idle" => s \in live
  BY DEF Inductive, ProcessInv, ProcessOk
<1>1. CASE UNCHANGED vars
  <2>1. UNCHANGED <<live, claims, lost, writer, last_ref, pending, ids>>
    BY <1>1 DEF vars, storeVars, durableVars
  <2>2. UNCHANGED <<pc, at, tip, captured, refs, marked, blank>>
    BY <1>1 DEF vars, processVars, remoteVars, refVars
  <2>3. ASSUME NEW s \in live PROVE RunOk(s)'
    BY <2>1, <2>2, <2>3 DEF OwnInv, RunOk, IsTip, TipIsLast, LastRef
  <2>4. ASSUME NEW s \in live, NEW r \in Remote PROVE LineOk(s, r)'
    BY <2>1, <2>2, <2>4 DEF OwnInv, LineOk
  <2> QED BY <2>1, <2>2, <2>3, <2>4 DEF OwnInv
<1>2. ASSUME NEW s \in Store, StoreStep(s) PROVE OwnInv'
  <2>1. ASSUME NEW c \in Claim, AddClaim(s, c) PROVE OwnInv'
    BY <2>1, OwnAddClaim DEF AddClaim
  <2>2. ASSUME NEW w \in Writer, Fork(s, w) PROVE OwnInv'
    BY <2>2, OwnFork DEF Fork
  <2>3. ASSUME NEW t \in Store, NEW L \in SUBSET claims[s], Copy(s, t, L) PROVE OwnInv'
    BY <2>3 DEF Copy
  <2> QED BY <1>2, <2>1, <2>2, <2>3 DEF StoreStep
<1>3. ASSUME NEW s \in Store, NEW r \in Remote, BeginPublish(s, r) PROVE OwnInv'
  BY <1>3, OwnPassing DEF BeginPublish
<1>4. ASSUME NEW s \in Store, PublishStep(s) PROVE OwnInv'
  <2>1. s \in live
    <3>1. pc[s] # "idle"
      BY <1>4
      DEF PublishStep, WriteRef, NameRemote, FindName, FillName, ReadTip, NothingPending,
          AdoptPending, RetryPending, CaptureLedger, FindDamage, PutBlob, FinishUnchanged,
          PutPack, SavePending, LinkRef, CreateSlot, MarkSlot, ResumeSlot, FillSlot,
          FindRef, SaveLastRef, Refuse, Refused
    <3> QED BY <1>0, <3>1
  <2>2. CASE WriteRef(s)
    BY <2>1, <2>2, OwnSlot, OwnPassing DEF WriteRef
  <2>3. CASE FinishUnchanged(s) \/ Refuse(s)
    BY <2>1, <2>3, OwnPassing DEF FinishUnchanged, Refuse
  <2>4. CASE NameRemote(s) \/ FindName(s) \/ FillName(s) \/ FindDamage(s)
    BY <2>1, <2>4, OwnPassing
  <2> QED
    BY <1>4, <2>1, <2>2, <2>3, <2>4, OwnReading, OwnRecording, OwnSavePending
    DEF PublishStep
<1>5. ASSUME NEW s \in Store, Crash(s) PROVE OwnInv'
  BY <1>0, <1>5, OwnPassing DEF Crash
<1>6. ASSUME NEW s \in Store, PowerLoss(s) PROVE OwnInv'
  BY <1>6, OwnPowerLoss DEF PowerLoss
<1> QED BY <1>1, <1>2, <1>3, <1>4, <1>5, <1>6 DEF Next

\* So does every step of a recovery.
LEMMA OwnRecoverStep ==
  ASSUME RecoverInductive, OwnInv, CopyTarget = {}, NEW t \in Store, RecoverStep(t)
  PROVE  OwnInv'
<1>0. Inductive
  BY DEF RecoverInductive
<1>1. CASE UNCHANGED vars
  BY <1>0, <1>1, OwnNext
<1>2. ASSUME NEW w \in Writer, NewStore(t, w) PROVE OwnInv'
  BY <1>0, <1>2, OwnFound DEF NewStore, Ledger
<1>3. ASSUME NEW w \in Writer, Install(t, w) PROVE OwnInv'
  BY <1>0, <1>3, InstallFacts, OwnFound
<1> QED
  BY <1>1, <1>2, <1>3 DEF RecoverStep, BeginRecover, ReadWriter, AbandonRecover

\* A new store has an ID of its own, and nothing is under it.
LEMMA OwnInit == RecoverInit => OwnInv
<1> SUFFICES ASSUME RecoverInit PROVE OwnInv
  OBVIOUS
<1>1. PICK s \in Store, w \in Writer :
         live = {s} /\ writer = [x \in Store |-> w] /\ ids = {w}
  BY StoresAssumption DEF RecoverInit, Init
<1>2. RunOk(s)
  BY <1>1 DEF RecoverInit, Init, RunOk
<1>3. \A r \in Remote : LineOk(s, r)
  BY <1>1, RootNone DEF RecoverInit, Init, LineOk
<1> QED BY <1>1, <1>2, <1>3 DEF RecoverInit, Init, OwnInv

\* With forks, new stores and recoveries beside it, on any number of remotes,
\* crashing and losing power anywhere: a store that was never copied is refused a
\* publish only for damage.  No chain turns out to be somebody else's, no pack is
\* missing, no marked slot is another's, and no published claim is missing from
\* its logs but one that a power failure took.
THEOREM UncopiedIsRefusedForDamage == RecoverSpec => []RefusedOnlyForDamage
<1> DEFINE Uncopied == CopyTarget = {} => OwnInv
<1>1. RecoverInit => Uncopied
  BY OwnInit
<1>2. RecoverInductive /\ Uncopied /\ [RecoverNext]_allVars => Uncopied'
  <2> SUFFICES ASSUME RecoverInductive, OwnInv, CopyTarget = {}, [RecoverNext]_allVars
               PROVE  OwnInv'
    OBVIOUS
  <2>1. CASE [Next]_vars
    BY <2>1, OwnNext DEF RecoverInductive
  <2>2. CASE \E t \in Store : RecoverStep(t)
    BY <2>2, OwnRecoverStep
  <2> QED BY <2>1, <2>2 DEF RecoverNext, allVars
<1>3. RecoverInductive /\ Uncopied => RefusedOnlyForDamage
  BY OwnRefusals DEF RecoverInductive, RefusedOnlyForDamage
<1> QED BY <1>1, <1>2, <1>3, RecoverInvariance, PTL DEF RecoverSpec
============================================================================
