---------------------------- MODULE Membership ----------------------------
(***************************************************************************)
(* What enrolment promises, with no connections, handshakes or files in    *)
(* it.  A token is offered once.  A device becomes a member by redeeming   *)
(* an offered token, which spends it, or because the agent restarted and   *)
(* the stable copy of the member list had it.  A device stops being a      *)
(* member by exclusion, or because the agent stopped.  Hub.tla implements  *)
(* this specification: its members are the in-memory registry, its stable  *)
(* copy is clients.json.                                                   *)
(***************************************************************************)
CONSTANTS Ids,      \* endpoint ids of devices
          Names,    \* device names
          Tokens,   \* enrolment tokens
          None      \* "not a member", "not redeemed"

VARIABLES offered,  \* tokens that can be redeemed now
          spent,    \* tokens that were offered and cannot be redeemed
          redeemer, \* the device that redeemed each token
          members,  \* each device's name in the member list, or None
          stable    \* the copy a restart goes back to

mvars == <<offered, spent, redeemer, members, stable>>

Nobody == [id \in Ids |-> None]

Init ==
  /\ offered = {}
  /\ spent = {}
  /\ redeemer = [t \in Tokens |-> None]
  /\ members = Nobody
  /\ stable = Nobody

Offer(t) ==
  /\ t \notin offered \union spent
  /\ offered' = offered \union {t}
  /\ UNCHANGED <<spent, redeemer, members, stable>>

\* A token passes its time to live.
Withdraw(t) ==
  /\ t \in offered
  /\ offered' = offered \ {t}
  /\ spent' = spent \union {t}
  /\ UNCHANGED <<redeemer, members, stable>>

\* The list changes in memory; the stable copy follows or is left behind.
ChangeTo(list) ==
  /\ members' = list
  /\ stable' \in {stable, list}

Redeem(t, id, n) ==
  /\ t \in offered
  /\ redeemer[t] = None
  /\ redeemer' = [redeemer EXCEPT ![t] = id]
  /\ offered' = offered \ {t}
  /\ spent' = spent \union {t}
  /\ ChangeTo([members EXCEPT ![id] = n])

Exclude(gone) ==
  /\ ChangeTo([id \in Ids |-> IF id \in gone THEN None ELSE members[id]])
  /\ UNCHANGED <<offered, spent, redeemer>>

\* The stable copy catches up with a change it had missed.
CatchUp ==
  /\ stable' = members
  /\ UNCHANGED <<offered, spent, redeemer, members>>

Stop ==
  /\ members' = Nobody
  /\ offered' = {}
  /\ spent' = spent \union offered
  /\ UNCHANGED <<redeemer, stable>>

Restart ==
  /\ members = Nobody
  /\ members' = stable
  /\ UNCHANGED <<offered, spent, redeemer, stable>>

Next ==
  \/ \E t \in Tokens : Offer(t) \/ Withdraw(t)
  \/ \E t \in Tokens, id \in Ids, n \in Names : Redeem(t, id, n)
  \/ \E gone \in SUBSET Ids : Exclude(gone)
  \/ CatchUp
  \/ Stop
  \/ Restart

Spec == Init /\ [][Next]_mvars

\* Nobody is in the list, or comes back into it with a restart, who has not
\* redeemed a token.
MembersRedeemed ==
  \A id \in Ids :
    members[id] # None \/ stable[id] # None => \E t \in Tokens : redeemer[t] = id
===========================================================================
