------------------------------ MODULE Dispatch ------------------------------
(***************************************************************************)
(* How the agent answers a request that needs a device: the Failover       *)
(* strategy of OpenURI and OpenFile, which asks one device after another,  *)
(* and the Race strategy of Confirm, which asks all at once (router.rs and *)
(* handle_unix_request in agent.rs).  Both work on a snapshot of the       *)
(* client table and talk to the devices without the hub's mutex, so        *)
(* connections come and go between the snapshot and the last answer.       *)
(*                                                                         *)
(* A connection here is used once: a device that reconnects is another     *)
(* member of Devices.  The order of a snapshot is any order; Presence.tla  *)
(* has the one that rank yields.                                           *)
(***************************************************************************)
EXTENDS SequencesExt

CONSTANTS Devices,     \* connections of devices
          Requests,    \* requests of local tools
          None,        \* no strategy yet, no result yet
          StrayErrors  \* TRUE: a device may answer with an error identifier
                       \* that SubportalError::from_wire does not know

ASSUME DevicesFinite == IsFiniteSet(Devices)
ASSUME StrayErrorsIsBoolean == StrayErrors \in BOOLEAN

VARIABLES
  link,      \* each connection: "absent", "up", "lost" (unnoticed), "closed"
  clients,   \* Hub.clients
  strategy,  \* per request: "failover", "race" or None
  queue,     \* failover: the targets not tried yet, in order
  view,      \* what the agent knows of the exchange with each device
  device,    \* what happened on each device
  result     \* the request's result, or None

vars == <<link, clients, strategy, queue, view, device, result>>

Decisions == {"ok", "denied", "error"}
Outcomes == Decisions \union {"nodecision", "stray"}
Results == Decisions \union {"nodecision", "noclient"}
Views == {"none", "waiting", "answered", "nodecision", "noclient", "left"}

ASSUME NoneIsNoValue == None \notin {"failover", "race"} \union Results

Init ==
  /\ link = [d \in Devices |-> "absent"]
  /\ clients = {}
  /\ strategy = [r \in Requests |-> None]
  /\ queue = [r \in Requests |-> <<>>]
  /\ view = [r \in Requests |-> [d \in Devices |-> "none"]]
  /\ device = [r \in Requests |-> [d \in Devices |-> "none"]]
  /\ result = [r \in Requests |-> None]

-----------------------------------------------------------------------------
(* Connections; Hub.tla has the handshake around these steps.               *)

Register(d) ==
  /\ link[d] = "absent"
  /\ link' = [link EXCEPT ![d] = "up"]
  /\ clients' = clients \union {d}
  /\ UNCHANGED <<strategy, queue, view, device, result>>

Lose(d) ==
  /\ link[d] = "up"
  /\ link' = [link EXCEPT ![d] = "lost"]
  /\ UNCHANGED <<clients, strategy, queue, view, device, result>>

NoticeLoss(d) ==
  /\ link[d] = "lost"
  /\ link' = [link EXCEPT ![d] = "closed"]
  /\ UNCHANGED <<clients, strategy, queue, view, device, result>>

\* The agent's task ends: on a closed connection, or when the device has ended its
\* control stream.  Requests that hold the connection keep it.
Leave(d) ==
  /\ link[d] \in {"up", "closed"}
  /\ d \in clients
  /\ clients' = clients \ {d}
  /\ UNCHANGED <<link, strategy, queue, view, device, result>>

-----------------------------------------------------------------------------
(* The agent.                                                               *)

Waiting(r) == {d \in Devices : view[r][d] = "waiting"}

Open(r) == strategy[r] # None /\ result[r] = None

\* OpenURI or OpenFile arrives: ranked_connections.
AskFailover(r) ==
  /\ strategy[r] = None
  /\ strategy' = [strategy EXCEPT ![r] = "failover"]
  /\ \E order \in SetToSeqs(clients) : queue' = [queue EXCEPT ![r] = order]
  /\ UNCHANGED <<link, clients, view, device, result>>

\* Confirm arrives: ranked_connections, and one task per target in the JoinSet.
AskRace(r) ==
  /\ strategy[r] = None
  /\ strategy' = [strategy EXCEPT ![r] = "race"]
  /\ view' = [view EXCEPT ![r] =
                [d \in Devices |-> IF d \in clients THEN "waiting" ELSE "none"]]
  /\ UNCHANGED <<link, clients, queue, device, result>>

\* Faulty TryNext: a denial does not end the loop.
TryNextAfterDenial(r) ==
  /\ strategy[r] # None
  /\ Waiting(r) = {}
  /\ queue[r] # <<>>
  /\ result[r] \in {None, "denied"}
  /\ view' = [view EXCEPT ![r][Head(queue[r])] = "waiting"]
  /\ queue' = [queue EXCEPT ![r] = Tail(@)]
  /\ UNCHANGED <<link, clients, strategy, device, result>>

\* failover_decision sends to the next target.
TryNext(r) ==
  /\ Open(r)
  /\ Waiting(r) = {}
  /\ queue[r] # <<>>
  /\ view' = [view EXCEPT ![r][Head(queue[r])] = "waiting"]
  /\ queue' = [queue EXCEPT ![r] = Tail(@)]
  /\ UNCHANGED <<link, clients, strategy, device, result>>

\* Faulty Fail: the agent does not wait for a device that is asking its user.
FailImpatient(r, d) ==
  /\ Open(r)
  /\ view[r][d] = "waiting"
  /\ link[d] = "closed" \/ device[r][d] \in {"asked", "unreadable"}
  /\ view' = [view EXCEPT ![r][d] = "noclient"]
  /\ UNCHANGED <<link, clients, strategy, queue, device, result>>

\* Faulty Fail: a connection that breaks after the request was taken is not
\* noticed.
FailUnsent(r, d) ==
  /\ Open(r)
  /\ view[r][d] = "waiting"
  /\ link[d] = "closed" /\ device[r][d] = "none"
  /\ view' = [view EXCEPT ![r][d] = "noclient"]
  /\ UNCHANGED <<link, clients, strategy, queue, device, result>>

\* send_to_connection: opening the stream, sending or receiving fails, with the
\* connection or because the device has closed the stream without an answer.
Fail(r, d) ==
  /\ Open(r)
  /\ view[r][d] = "waiting"
  /\ link[d] = "closed" \/ (link[d] = "up" /\ device[r][d] = "unreadable")
  /\ view' = [view EXCEPT ![r][d] = "noclient"]
  /\ UNCHANGED <<link, clients, strategy, queue, device, result>>

\* What send_to_connection makes of a device's answer: an error it cannot
\* convert is passed over.
Heard(answer) == IF answer = "stray" THEN "ok" ELSE answer

\* An answer ends the exchange with d and, as a decision, the request.  The
\* JoinSet of a race is dropped, and with it the waits for the others.
Decide(r, d, answer) ==
  /\ result' = [result EXCEPT ![r] = answer]
  /\ view' = [view EXCEPT ![r] =
                [e \in Devices |->
                   IF e = d THEN "answered"
                   ELSE IF view[r][e] = "waiting" THEN "left" ELSE view[r][e]]]

AnswerArrives(r, d) ==
  /\ Open(r)
  /\ view[r][d] = "waiting"
  /\ link[d] = "up"
  /\ device[r][d] \in Outcomes

\* Faulty Receive: every answer decides.
ReceiveVeto(r, d) ==
  /\ AnswerArrives(r, d)
  /\ Decide(r, d, Heard(device[r][d]))
  /\ UNCHANGED <<link, clients, strategy, queue, device>>

\* failover_decision returns any answer; race_decision returns any but
\* NoDecision, which it remembers.
Receive(r, d) ==
  /\ AnswerArrives(r, d)
  /\ \/ /\ strategy[r] = "race"
        /\ device[r][d] = "nodecision"
        /\ view' = [view EXCEPT ![r][d] = "nodecision"]
        /\ UNCHANGED result
     \/ /\ strategy[r] = "failover" \/ device[r][d] # "nodecision"
        /\ Decide(r, d, Heard(device[r][d]))
  /\ UNCHANGED <<link, clients, strategy, queue, device>>

\* Faulty Conclude: a race that nobody decided is left open when somebody was
\* asked.
ConcludeUnasked(r) ==
  /\ Open(r)
  /\ Waiting(r) = {}
  /\ queue[r] = <<>>
  /\ \A d \in Devices : view[r][d] # "nodecision"
  /\ result' = [result EXCEPT ![r] = "noclient"]
  /\ UNCHANGED <<link, clients, strategy, queue, view, device>>

\* Faulty Conclude: a failover ends with the first device that is lost.
ConcludeFirst(r) ==
  /\ Open(r)
  /\ Waiting(r) = {}
  /\ \E d \in Devices : view[r][d] # "none"
  /\ result' = [result EXCEPT ![r] =
                  IF \E d \in Devices : view[r][d] = "nodecision"
                  THEN "nodecision" ELSE "noclient"]
  /\ UNCHANGED <<link, clients, strategy, queue, view, device>>

\* Nobody is left to wait for or to try.
Conclude(r) ==
  /\ Open(r)
  /\ Waiting(r) = {}
  /\ queue[r] = <<>>
  /\ result' = [result EXCEPT ![r] =
                  IF \E d \in Devices : view[r][d] = "nodecision"
                  THEN "nodecision" ELSE "noclient"]
  /\ UNCHANGED <<link, clients, strategy, queue, view, device>>

-----------------------------------------------------------------------------
(* The devices.                                                             *)

\* The request reaches the device, which asks its user; dropping the wait at
\* the agent does not call it back.
Prompt(r, d) ==
  /\ view[r][d] \in {"waiting", "left"}
  /\ link[d] = "up"
  /\ device[r][d] = "none"
  /\ device' = [device EXCEPT ![r][d] = "asked"]
  /\ UNCHANGED <<link, clients, strategy, queue, view, result>>

\* The device's task cannot make sense of the request: it ends, and with it the
\* stream.  Once a user was asked every way through the task writes an answer.
Misread(r, d) ==
  /\ view[r][d] \in {"waiting", "left"}
  /\ link[d] = "up"
  /\ device[r][d] = "none"
  /\ device' = [device EXCEPT ![r][d] = "unreadable"]
  /\ UNCHANGED <<link, clients, strategy, queue, view, result>>

\* What a device can say to each kind of request: a confirmation that cannot
\* be shown or expires is no decision, a link or a file is opened, refused or
\* not handled.
Sayable(r) ==
  (IF strategy[r] = "race" THEN {"ok", "denied", "nodecision"} ELSE Decisions)
    \union (IF StrayErrors THEN {"stray"} ELSE {})

\* The prompt ends, whether or not anybody still listens.
Answer(r, d) ==
  /\ device[r][d] = "asked"
  /\ \E answer \in Sayable(r) : device' = [device EXCEPT ![r][d] = answer]
  /\ UNCHANGED <<link, clients, strategy, queue, view, result>>

-----------------------------------------------------------------------------
Next ==
  \/ \E d \in Devices : Register(d) \/ Lose(d) \/ NoticeLoss(d) \/ Leave(d)
  \/ \E r \in Requests :
       \/ AskFailover(r)
       \/ AskRace(r)
       \/ TryNext(r)
       \/ Conclude(r)
       \/ \E d \in Devices :
            \/ Fail(r, d)
            \/ Receive(r, d)
            \/ Prompt(r, d)
            \/ Misread(r, d)
            \/ Answer(r, d)

Spec == Init /\ [][Next]_vars

\* The agent's tasks run, QUIC finds dead links and delivers on live ones.  A
\* confirmation prompt ends within 900 seconds (portal.rs:22,
\* ConfirmManager.kt:30); nothing makes a user answer another one.
Fairness ==
  /\ \A d \in Devices : WF_vars(NoticeLoss(d))
  /\ \A r \in Requests :
       /\ WF_vars(TryNext(r))
       /\ WF_vars(Conclude(r))
       /\ \A d \in Devices :
            /\ WF_vars(Fail(r, d))
            /\ WF_vars(Receive(r, d))
            /\ WF_vars(Prompt(r, d))
            /\ WF_vars(strategy[r] = "race" /\ Answer(r, d))

FairSpec == Spec /\ Fairness

-----------------------------------------------------------------------------
TypeOK ==
  /\ link \in [Devices -> {"absent", "up", "lost", "closed"}]
  /\ clients \subseteq Devices
  /\ strategy \in [Requests -> {"failover", "race", None}]
  /\ \A r \in Requests : queue[r] \in Seq(Devices) /\ IsInjective(queue[r])
  /\ view \in [Requests -> [Devices -> Views]]
  /\ device \in [Requests -> [Devices -> Outcomes \union {"none", "asked", "unreadable"}]]
  /\ result \in [Requests -> Results \union {None}]

\* A decision the agent reports is one that some device made.
ResultWasGiven ==
  \A r \in Requests :
    result[r] \in Decisions => \E d \in Devices : device[r][d] = result[r]

Lost == {d \in Devices : link[d] \in {"lost", "closed"}}

\* Whom a request was put to: those asked, and those a failover has left to try.
Targets ==
  [r \in Requests |-> {d \in Devices : view[r][d] # "none"} \union ToSet(queue[r])]

Opinion ==
  [r \in Requests |-> [d \in Devices |->
     IF device[r][d] \in Outcomes THEN device[r][d]
     ELSE IF device[r][d] = "unreadable" THEN "unable" ELSE "none"]]

Promise == INSTANCE Routing WITH present <- clients, lost <- Lost, kind <- strategy,
                                 targets <- Targets, opinion <- Opinion

\* Failover and race, with their exchanges under way, lost and late answers,
\* implement Routing: a request ends once, with what a device it was put to decided,
\* and without a decision only when each is lost, has abstained or cannot read it.
ImplementsRouting == Promise!Spec

\* A link or a file is offered on a second device only when the agent has lost
\* the first: no user sees it on two devices that are both still connected.
OneReachableAsked ==
  \A r \in Requests, d, e \in Devices :
    /\ strategy[r] = "failover"
    /\ d # e /\ {device[r][d], device[r][e]} \intersect {"none", "unreadable"} = {}
    => link[d] = "closed" \/ link[e] = "closed"

\* Once a link or a file has been answered no other device is asked
\* (architecture.md:129-131: a decision is not retried elsewhere).
AnswerIsFinal ==
  [][\A r \in Requests, d \in Devices :
       strategy[r] = "failover" /\ result[r] # None /\ device[r][d] = "none" =>
         device'[r][d] = "none"]_vars

\* A race ends without a decision only when no device that can be reached has
\* one or could still make one: an expired prompt or a device that cannot read the
\* request vetoes nobody.
AbstainersDoNotVeto ==
  \A r \in Requests, d \in Devices :
    /\ strategy[r] = "race" /\ result[r] \in {"nodecision", "noclient"}
    /\ view[r][d] # "none" /\ link[d] = "up"
    => device[r][d] \in {"nodecision", "unreadable"}

\* Every confirmation gets a result: no device can hold one up for ever.
ConfirmAnswered ==
  \A r \in Requests : strategy[r] = "race" ~> result[r] # None

\* A device that is gone does not hold up the failover to the next.
LostTargetIsPassed ==
  \A r \in Requests, d \in Devices :
    view[r][d] = "waiting" /\ link[d] = "lost" ~> view[r][d] # "waiting"

-----------------------------------------------------------------------------
(* What the comments say, and the code does not do.                         *)

\* "It lands on exactly one device, the best reachable one" (router.rs:24-26).
OpenedOnce ==
  \A r \in Requests, d, e \in Devices :
    strategy[r] = "failover" /\ device[r][d] = "ok" /\ device[r][e] = "ok" =>
      d = e

\* "The first user decision wins -- an approval (Ok) or a denial"
\* (router.rs:100-101): an approval is some user's.
ApprovedByAUser ==
  \A r \in Requests :
    strategy[r] = "race" /\ result[r] = "ok" =>
      \E d \in Devices : device[r][d] = "ok"
=============================================================================
