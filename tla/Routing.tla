------------------------------- MODULE Routing -------------------------------
(***************************************************************************)
(* What the agent promises a tool whose request needs a device, with no    *)
(* order, exchanges or answers under way in it.  A request is put to the   *)
(* devices in the client table when it comes.  It ends once: with a        *)
(* decision that one of them made and that can be reached, or without one, *)
(* and that only when each of them is lost, has abstained or is unable to  *)
(* ask its user.  Dispatch.tla implements this specification, whatever the *)
(* strategy.                                                               *)
(***************************************************************************)
CONSTANTS Devices, Requests,
          None       \* no kind, no result

VARIABLES present,   \* devices in the client table
          lost,      \* devices that cannot be reached any more
          kind,      \* per request, "failover" or "race"
          targets,   \* per request, the devices it was put to
          opinion,   \* per request and device, what the device made of it
          result     \* per request, how it ended

rvars == <<present, lost, kind, targets, opinion, result>>

Decisions == {"ok", "denied", "error"}

Init ==
  /\ present = {} /\ lost = {}
  /\ kind = [r \in Requests |-> None]
  /\ targets = [r \in Requests |-> {}]
  /\ opinion = [r \in Requests |-> [d \in Devices |-> "none"]]
  /\ result = [r \in Requests |-> None]

Join(d) ==
  /\ d \notin present \union lost
  /\ present' = present \union {d}
  /\ UNCHANGED <<lost, kind, targets, opinion, result>>

Lose(d) ==
  /\ d \notin lost
  /\ lost' = lost \union {d}
  /\ UNCHANGED <<present, kind, targets, opinion, result>>

Part(d) ==
  /\ d \in present
  /\ present' = present \ {d}
  /\ UNCHANGED <<lost, kind, targets, opinion, result>>

Ask(r, k) ==
  /\ kind[r] = None
  /\ kind' = [kind EXCEPT ![r] = k]
  /\ targets' = [targets EXCEPT ![r] = present]
  /\ UNCHANGED <<present, lost, opinion, result>>

\* A device makes up its mind, or finds that it cannot ask anybody, once, whether or
\* not the request has ended.
Speak(r, d, o) ==
  /\ d \in targets[r]
  /\ opinion[r][d] = "none"
  /\ o = "nodecision" => kind[r] = "race"
  /\ opinion' = [opinion EXCEPT ![r][d] = o]
  /\ UNCHANGED <<present, lost, kind, targets, result>>

Pending(r) == kind[r] # None /\ result[r] = None

Decide(r, d) ==
  /\ Pending(r)
  /\ d \in targets[r] \ lost
  /\ opinion[r][d] \in Decisions
  /\ result' = [result EXCEPT ![r] = opinion[r][d]]
  /\ UNCHANGED <<present, lost, kind, targets, opinion>>

GiveUp(r) ==
  /\ Pending(r)
  /\ \A d \in targets[r] : d \in lost \/ opinion[r][d] \in {"nodecision", "unable"}
  /\ \/ /\ \A d \in targets[r] : d \in lost \/ opinion[r][d] = "unable"
        /\ result' = [result EXCEPT ![r] = "noclient"]
     \/ /\ \E d \in targets[r] : opinion[r][d] = "nodecision"
        /\ result' = [result EXCEPT ![r] = "nodecision"]
  /\ UNCHANGED <<present, lost, kind, targets, opinion>>

Next ==
  \/ \E d \in Devices : Join(d) \/ Lose(d) \/ Part(d)
  \/ \E r \in Requests :
       \/ \E k \in {"failover", "race"} : Ask(r, k)
       \/ GiveUp(r)
       \/ \E d \in Devices :
            \/ Decide(r, d)
            \/ \E o \in Decisions \union {"nodecision", "unable"} : Speak(r, d, o)

Spec == Init /\ [][Next]_rvars

\* A decision is one of a device the request was put to; there is none only where
\* each of those is lost, has abstained or is unable to ask.
ResultIsTrue ==
  \A r \in Requests :
    /\ result[r] \in Decisions => \E d \in targets[r] : opinion[r][d] = result[r]
    /\ result[r] \in {"nodecision", "noclient"} =>
         \A d \in targets[r] : d \in lost \/ opinion[r][d] \in {"nodecision", "unable"}

\* A request ends once.
ResultStays ==
  [][\A r \in Requests : result[r] # None => result'[r] = result[r]]_rvars
=============================================================================
