----------------------------- MODULE PublishInv -----------------------------
(***************************************************************************)
(* The inductive invariant behind the safety properties of Publish.        *)
(*                                                                         *)
(* The properties speak of complete refs.  Why they hold lies earlier: a   *)
(* ref is ready for publication before it is written to writer.json, stays *)
(* so while it waits there or in a reservation, because remotes only grow, *)
(* and gets its slot exclusively.                                          *)
(***************************************************************************)
EXTENDS Publish

\* All that h needs is on the remote, and it continues the chain there.
Ready(r, w, h) ==
    /\ h # None
    /\ Front(h) \in refs[r][w] \cup {None}
    /\ PacksOf(h) \subseteq packs[r]
    /\ ContentOf(Root(h)) \subseteq blobs[r]
    /\ Closed(Root(h))
    /\ Root(Front(h)) \subseteq Root(h)
    /\ Front(h) # None => Root(Front(h)) # Root(h)

\* Complete refs are ready, each with every prefix of it, one to a slot.
RefsInv ==
    \A r \in Remote, w \in Writer : \A h \in refs[r][w] :
        /\ Ready(r, w, h)
        /\ \A n \in 1 .. Len(h) : SubSeq(h, 1, n) \in refs[r][w]
        /\ \A g \in refs[r][w] : Len(g) = Len(h) => g = h

\* Marked reservations are ready, one to a slot, behind every complete ref.
MarkedInv ==
    \A r \in Remote, w \in Writer : \A g \in marked[r][w] :
        /\ Ready(r, w, g)
        /\ Len(g) \notin blank[r][w]
        /\ \A h \in refs[r][w] : Len(h) < Len(g)
        /\ \A h \in marked[r][w] : Len(h) = Len(g) => h = g

\* Unmarked ones are behind every complete ref too.
BlankInv ==
    \A r \in Remote, w \in Writer : \A n \in blank[r][w] :
        /\ n # 0
        /\ \A h \in refs[r][w] : Len(h) < n

\* writer.json names a published ref, and a ready ref that continues it.
StateOk(s) ==
    \A r \in Remote :
        /\ last_ref[s][r] \in refs[r][writer[s]] \cup {None}
        /\ pending[s][r] # None =>
              /\ Ready(r, writer[s], pending[s][r])
              /\ Front(pending[s][r]) = last_ref[s][r]

StateInv == \A s \in Store : StateOk(s)

\* Logs are closed under references.
LogsInv == \A s \in Store : Closed(claims[s])

\* What a running publisher has established so far.
ProcessOk(s) ==
    /\ pc[s] # "idle" => s \in live
    /\ tip[s] \in Chain(s) \cup {None}
    /\ pc[s] = "idle" => tip[s] = None
    /\ pc[s] \in {"compare", "content", "save"} => Pending(s) = None
    /\ pc[s] \in {"content", "save"} =>
          /\ tip[s] = LastRef(s)
          /\ Root(tip[s]) \subseteq captured[s]
          /\ Closed(captured[s])
    /\ pc[s] = "save" =>
          /\ Uploaded(s) /\ HasNewNodes(s)
          /\ PackFor(tip[s], captured[s]) \in packs[at[s]]
    /\ pc[s] \in {"claim", "mark", "fill", "settle"} => Pending(s) # None
    /\ pc[s] = "mark" => Len(Pending(s)) \in blank[at[s]][writer[s]]
    /\ pc[s] = "fill" => SlotIsOurs(s) \/ SlotHasIt(s)
    /\ pc[s] = "settle" => SlotHasIt(s)

ProcessInv == \A s \in Store : ProcessOk(s)

\* A slot created and not yet marked has one owner.
OwnerInv ==
    \A s, t \in Store :
        /\ s # t /\ pc[s] = "mark" /\ pc[t] = "mark"
        /\ at[s] = at[t] /\ writer[s] = writer[t]
        => Len(Pending(s)) # Len(Pending(t))

\* The inductive invariant: why every checkpoint that becomes visible is whole
\* and every chain a single line.
Inductive ==
    /\ TypeOK
    /\ RefsInv
    /\ MarkedInv
    /\ BlankInv
    /\ StateInv
    /\ LogsInv
    /\ ProcessInv
    /\ OwnerInv
=============================================================================
