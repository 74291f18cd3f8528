------------------------------- MODULE Backup -------------------------------
(***************************************************************************)
(* What publishing and recovering promise together, with no protocol.      *)
(*                                                                         *)
(* A remote is, for each writer, one growing set of claims.  A checkpoint  *)
(* replaces it at once by a larger set; a recovery makes a new store that  *)
(* holds at least everything that was on the remote when it began, nothing *)
(* that was never there, and no claim without the claims it refers to.     *)
(* That holds though stores lose what they have not made durable.          *)
(* Recovery is no snapshot: it may have some of the later checkpoints and  *)
(* miss others.                                                            *)
(***************************************************************************)
EXTENDS Naturals

CONSTANTS Store, Remote, Writer, Claim, Needs

VARIABLES
    written,    \* the claims that were ever written
    live,       \* the stores there are
    held,       \* store -> its claims
    archive,    \* remote -> writer -> the claims it published there
    source,     \* store -> the remote it is recovered from
    wanted      \* store -> what was archived when its recovery began

vars == <<written, live, held, archive, source, wanted>>

Whole(S) == \A c \in S : Needs[c] \subseteq S

Archived(r) == UNION {archive[r][w] : w \in Writer}

Init ==
    /\ written = {}
    /\ \E s \in Store : live = {s}
    /\ held = [s \in Store |-> {}]
    /\ archive = [r \in Remote |-> [w \in Writer |-> {}]]
    /\ source \in [Store -> Remote]
    /\ wanted = [s \in Store |-> {}]

\* A store appends a claim that no store ever had.
Write(s, c) ==
    /\ s \in live
    /\ c \notin written /\ written' = written \cup {c}
    /\ Needs[c] \subseteq held[s]
    /\ held' = [held EXCEPT ![s] = @ \cup {c}]
    /\ UNCHANGED <<live, archive, source, wanted>>

\* A store loses claims.  What it had published stays archived.
Lose(s, S) ==
    /\ s \in live
    /\ S \subseteq held[s] /\ Whole(S)
    /\ held' = [held EXCEPT ![s] = S]
    /\ UNCHANGED <<written, live, archive, source, wanted>>

\* A store appears that holds part of what another holds.
Duplicate(s, t, S) ==
    /\ s \in live /\ t \notin live
    /\ S \subseteq held[s] /\ Whole(S)
    /\ live' = live \cup {t}
    /\ held' = [held EXCEPT ![t] = S]
    /\ UNCHANGED <<written, archive, source, wanted>>

\* A checkpoint takes effect.
Checkpoint(r, w, S) ==
    /\ archive[r][w] \subseteq S
    /\ S \subseteq written /\ Whole(S)
    /\ archive' = [archive EXCEPT ![r][w] = S]
    /\ UNCHANGED <<written, live, held, source, wanted>>

\* Recovery into a directory that does not exist yet.
BeginRecovery(t, r) ==
    /\ t \notin live
    /\ source' = [source EXCEPT ![t] = r]
    /\ wanted' = [wanted EXCEPT ![t] = Archived(r)]
    /\ UNCHANGED <<written, live, held, archive>>

FinishRecovery(t, S) ==
    /\ t \notin live
    /\ wanted[t] \subseteq S /\ S \subseteq Archived(source[t]) /\ Whole(S)
    /\ live' = live \cup {t}
    /\ held' = [held EXCEPT ![t] = S]
    /\ wanted' = [wanted EXCEPT ![t] = {}]
    /\ UNCHANGED <<written, archive, source>>

AbandonRecovery(t) ==
    /\ wanted' = [wanted EXCEPT ![t] = {}]
    /\ UNCHANGED <<written, live, held, archive, source>>

Next ==
    \/ \E s \in Store, c \in Claim : Write(s, c)
    \/ \E s \in Store, S \in SUBSET Claim : Lose(s, S)
    \/ \E s, t \in Store, S \in SUBSET Claim : Duplicate(s, t, S)
    \/ \E r \in Remote, w \in Writer, S \in SUBSET Claim : Checkpoint(r, w, S)
    \/ \E t \in Store, r \in Remote : BeginRecovery(t, r)
    \/ \E t \in Store, S \in SUBSET Claim : FinishRecovery(t, S)
    \/ \E t \in Store : AbandonRecovery(t)

Spec == Init /\ [][Next]_vars
=============================================================================
