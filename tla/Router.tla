------------------------------- MODULE Router -------------------------------
(***************************************************************************)
(* The order in which router.rs considers the connected clients.  A client *)
(* is a ClientInfo: its endpoint id (a number here: ids are only compared), *)
(* its reported focus, its capabilities and the instant it was last known  *)
(* to be in active use.                                                    *)
(***************************************************************************)
EXTENDS Naturals, SequencesExt

FocusStates == {"active", "idle"}

\* FocusState::Active comes first.
focus_rank(focus) == IF focus = "active" THEN 0 ELSE 1

\* Faulty Before: no tiebreak by id.
BeforeUntied(a, b) ==
  \/ focus_rank(a.focus) < focus_rank(b.focus)
  \/ a.focus = b.focus /\ a.last > b.last

\* The comparison rank sorts by: focus, then recency, then endpoint id.
Before(a, b) ==
  \/ focus_rank(a.focus) < focus_rank(b.focus)
  \/ a.focus = b.focus /\ a.last > b.last
  \/ a.focus = b.focus /\ a.last = b.last /\ a.id < b.id

\* Every client with the capability.
fan_out(infos, cap) == {c \in infos : cap \in c.caps}

\* Those clients, best first: sort_by leaves none behind one it comes before.
rank(infos, cap) ==
  CHOOSE s \in SetToSeqs(fan_out(infos, cap)) :
    \A i, j \in DOMAIN s : i < j => ~Before(s[j], s[i])
=============================================================================
