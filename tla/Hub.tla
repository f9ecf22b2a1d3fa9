-------------------------------- MODULE Hub --------------------------------
(***************************************************************************)
(* The subportal agent's view of its devices: the enrolment handshake of   *)
(* every incoming connection (handle_iroh_connection in agent.rs), the     *)
(* table of connected clients and the pending tokens (hub.rs), the client  *)
(* registry and its file (peers.rs), revocation, and the agent stopping    *)
(* and starting again.                                                     *)
(*                                                                         *)
(* Every connection is served by a task of its own.  The tasks share the   *)
(* Hub behind one tokio mutex: what a task does while it holds the mutex   *)
(* is one step here, and between two critical sections of a task the other *)
(* tasks, the network and the agent's end may come in.                     *)
(***************************************************************************)
EXTENDS Naturals

CONSTANTS Ids,        \* endpoint ids (public keys) of devices
          Names,      \* device names sent in ClientHello
          Conns,      \* slots for concurrent iroh connections
          Tokens,     \* enrolment tokens the agent may issue
          None        \* an absent value

ASSUME NoneIsNoValue == None \notin Ids \union Names \union Conns \union Tokens

VARIABLES
  up,          \* the agent runs
  registry,    \* ClientRegistry.clients: the enrolled name of each id, or None
  disk,        \* the entries last written to clients.json in full
  torn,        \* clients.json no longer parses
  pending,     \* Hub.pending_tokens
  expired,     \* those of them whose expires_at has passed
  clients,     \* Hub.clients: the connection entered for each id, or None
  stage,       \* where the task of each connection stands
  link,        \* the connection: "open", "lost" (unnoticed here), "closed"
  peer,        \* conn.remote_id()
  helloName,   \* ClientHello.name
  helloToken,  \* ClientHello.token, or None
  \* History, read by no action:
  issued,      \* tokens handed out so far
  redeemer,    \* the device each token enrolled, or None
  revoked,     \* the device was revoked after this connection was admitted
  overlapped   \* the device had another connection during this one

tokenVars == <<pending, expired, issued, redeemer>>
diskVars  == <<disk, torn>>
connVars  == <<stage, link, peer, helloName, helloToken, revoked, overlapped>>
vars == <<up, registry, diskVars, tokenVars, clients, connVars>>

Stages == {"free", "accepted", "refusing", "admitted", "greeted", "serving"}
Links  == {"none", "open", "lost", "closed"}

Nobody == [id \in Ids |-> None]

Init ==
  /\ up = TRUE
  /\ registry = Nobody
  /\ disk = Nobody
  /\ torn = FALSE
  /\ pending = {}
  /\ expired = {}
  /\ clients = Nobody
  /\ stage = [c \in Conns |-> "free"]
  /\ link = [c \in Conns |-> "none"]
  /\ peer = [c \in Conns |-> None]
  /\ helloName = [c \in Conns |-> None]
  /\ helloToken = [c \in Conns |-> None]
  /\ issued = {}
  /\ redeemer = [t \in Tokens |-> None]
  /\ revoked = [c \in Conns |-> FALSE]
  /\ overlapped = [c \in Conns |-> FALSE]

----------------------------------------------------------------------------
(* The file.                                                               *)

\* ClientRegistry::save succeeded.
Saved(list) ==
  /\ disk' = list
  /\ torn' = FALSE

\* ClientRegistry::save failed: nothing was written, or the file was
\* truncated and not filled again.
NotSaved ==
  /\ torn' \in {torn, TRUE}
  /\ UNCHANGED disk

----------------------------------------------------------------------------
(* The life of one connection.                                             *)

Past(c) == stage[c] \in {"admitted", "greeted", "serving"}

Others(c, id) == {d \in Conns \ {c} : peer[d] = id}

\* A device connects and the accept loop spawns the task.  With its hello it
\* will present a token it was given, or none.
Dial(c, id, n, t) ==
  /\ up
  /\ stage[c] = "free"
  /\ stage' = [stage EXCEPT ![c] = "accepted"]
  /\ link' = [link EXCEPT ![c] = "open"]
  /\ peer' = [peer EXCEPT ![c] = id]
  /\ helloName' = [helloName EXCEPT ![c] = n]
  /\ helloToken' = [helloToken EXCEPT ![c] = t]
  /\ overlapped' = [d \in Conns |->
                      IF d = c THEN Others(c, id) # {}
                               ELSE overlapped[d] \/ peer[d] = id]
  /\ UNCHANGED <<up, registry, diskVars, tokenVars, clients, revoked>>

\* The device dies or the network fails; the agent sees nothing yet.
Lose(c) ==
  /\ link[c] = "open"
  /\ link' = [link EXCEPT ![c] = "lost"]
  /\ UNCHANGED <<up, registry, diskVars, tokenVars, clients, stage, peer,
                 helloName, helloToken, revoked, overlapped>>

\* The idle timeout, or the device's close, reaches the agent's endpoint.
NoticeLoss(c) ==
  /\ link[c] = "lost"
  /\ link' = [link EXCEPT ![c] = "closed"]
  /\ UNCHANGED <<up, registry, diskVars, tokenVars, clients, stage, peer,
                 helloName, helloToken, revoked, overlapped>>

Step(c, to) ==
  /\ stage' = [stage EXCEPT ![c] = to]
  /\ UNCHANGED <<link, peer, helloName, helloToken, revoked, overlapped>>

\* The task returns and drops its handle on the connection.
Return(c) ==
  /\ stage' = [stage EXCEPT ![c] = "free"]
  /\ link' = [link EXCEPT ![c] = "none"]
  /\ peer' = [peer EXCEPT ![c] = None]
  /\ helloName' = [helloName EXCEPT ![c] = None]
  /\ helloToken' = [helloToken EXCEPT ![c] = None]
  /\ revoked' = [revoked EXCEPT ![c] = FALSE]
  /\ overlapped' = [overlapped EXCEPT ![c] = FALSE]

HelloArrives(c) == stage[c] = "accepted" /\ link[c] # "closed"

Redeemable == pending \ expired

\* consume_token(token) pruned the expired tokens and found no match.
RefuseToken(c) ==
  /\ HelloArrives(c)
  /\ helloToken[c] # None
  /\ helloToken[c] \notin Redeemable
  /\ pending' = Redeemable
  /\ expired' = {}
  /\ Step(c, "refusing")
  /\ UNCHANGED <<up, registry, diskVars, issued, redeemer, clients>>

\* Faulty Enroll: the error of add is dropped, as touch's is.
EnrollUnsaved(c) ==
  /\ HelloArrives(c)
  /\ helloToken[c] \in Redeemable
  /\ pending' = Redeemable \ {helloToken[c]}
  /\ expired' = {}
  /\ redeemer' = [redeemer EXCEPT ![helloToken[c]] = peer[c]]
  /\ registry' = [registry EXCEPT ![peer[c]] = helloName[c]]
  /\ Saved(registry') \/ NotSaved
  /\ Step(c, "admitted")
  /\ UNCHANGED <<up, issued, clients>>

\* Faulty Enroll: consume_token looks the token up and leaves it there.
EnrollKeepingToken(c) ==
  /\ HelloArrives(c)
  /\ helloToken[c] \in Redeemable
  /\ pending' = Redeemable
  /\ expired' = {}
  /\ redeemer' = [redeemer EXCEPT ![helloToken[c]] = peer[c]]
  /\ registry' = [registry EXCEPT ![peer[c]] = helloName[c]]
  /\ \/ Saved(registry') /\ Step(c, "admitted")
     \/ NotSaved /\ Return(c)
  /\ UNCHANGED <<up, issued, clients>>

\* Faulty Enroll: consume_token does not prune the expired tokens first.
EnrollExpired(c) ==
  /\ HelloArrives(c)
  /\ helloToken[c] \in pending
  /\ pending' = pending \ {helloToken[c]}
  /\ expired' = expired \ {helloToken[c]}
  /\ redeemer' = [redeemer EXCEPT ![helloToken[c]] = peer[c]]
  /\ registry' = [registry EXCEPT ![peer[c]] = helloName[c]]
  /\ \/ Saved(registry') /\ Step(c, "admitted")
     \/ NotSaved /\ Return(c)
  /\ UNCHANGED <<up, issued, clients>>

\* consume_token and registry.add in one critical section.  When the file
\* cannot be written, add has changed the list in memory already and the task
\* ends without a ServerHello.
Enroll(c) ==
  /\ HelloArrives(c)
  /\ helloToken[c] \in Redeemable
  /\ pending' = Redeemable \ {helloToken[c]}
  /\ expired' = {}
  /\ redeemer' = [redeemer EXCEPT ![helloToken[c]] = peer[c]]
  /\ registry' = [registry EXCEPT ![peer[c]] = helloName[c]]
  /\ \/ Saved(registry') /\ Step(c, "admitted")
     \/ NotSaved /\ Return(c)
  /\ UNCHANGED <<up, issued, clients>>

\* Faulty Recognise: a hello without a token is taken for a reconnection.
RecogniseAnyone(c) ==
  /\ HelloArrives(c)
  /\ helloToken[c] = None
  /\ Step(c, "admitted")
  /\ UNCHANGED <<up, registry, diskVars, tokenVars, clients>>

\* Reconnection: the id is looked up and the mutex released again.
Recognise(c) ==
  /\ HelloArrives(c)
  /\ helloToken[c] = None
  /\ registry[peer[c]] # None
  /\ Step(c, "admitted")
  /\ UNCHANGED <<up, registry, diskVars, tokenVars, clients>>

RefuseUnknown(c) ==
  /\ HelloArrives(c)
  /\ helloToken[c] = None
  /\ registry[peer[c]] = None
  /\ Step(c, "refusing")
  /\ UNCHANGED <<up, registry, diskVars, tokenVars, clients>>

\* ServerHello{enrolled: false}, then bail!.
SendRefusal(c) ==
  /\ stage[c] = "refusing"
  /\ Return(c)
  /\ UNCHANGED <<up, registry, diskVars, tokenVars, clients>>

\* ServerHello{enrolled: true}.
SendHello(c) ==
  /\ stage[c] = "admitted"
  /\ link[c] # "closed"
  /\ Step(c, "greeted")
  /\ UNCHANGED <<up, registry, diskVars, tokenVars, clients>>

\* Faulty HandshakeFails: a failed ServerHello does not end the task.
HandshakeFailsOnRead(c) ==
  /\ stage[c] = "accepted"
  /\ Return(c)
  /\ UNCHANGED <<up, registry, diskVars, tokenVars, clients>>

\* Reading the hello or writing the answer fails: the connection is closed, or the
\* device has ended its stream, or sent what is no hello.
HandshakeFails(c) ==
  /\ stage[c] \in {"accepted", "admitted"}
  /\ Return(c)
  /\ UNCHANGED <<up, registry, diskVars, tokenVars, clients>>

\* add_client and registry.touch in one critical section, whatever became of
\* the registry entry and of the connection since; touch saves the list when
\* it finds the id, and its error is dropped.
Register(c) ==
  /\ stage[c] = "greeted"
  /\ clients' = [clients EXCEPT ![peer[c]] = c]
  /\ \/ registry[peer[c]] = None /\ UNCHANGED diskVars
     \/ registry[peer[c]] # None /\ (Saved(registry) \/ NotSaved)
  /\ Step(c, "serving")
  /\ UNCHANGED <<up, registry, tokenVars>>

\* Faulty Leave: remove_client is forgotten.
LeaveEntry(c) ==
  /\ stage[c] = "serving"
  /\ Return(c)
  /\ UNCHANGED <<up, registry, diskVars, tokenVars, clients>>

\* A control message cannot be read, whatever the reason: remove_client(remote_id)
\* and return.
Leave(c) ==
  /\ stage[c] = "serving"
  /\ clients' = [clients EXCEPT ![peer[c]] = None]
  /\ Return(c)
  /\ UNCHANGED <<up, registry, diskVars, tokenVars>>

----------------------------------------------------------------------------
(* Tokens and revocation.                                                  *)

GenerateTicket(t) ==
  /\ up
  /\ t \notin issued
  /\ pending' = pending \union {t}
  /\ issued' = issued \union {t}
  /\ UNCHANGED <<up, registry, diskVars, expired, redeemer, clients, connVars>>

\* The clock passes a pending token's expires_at.
Expire(t) ==
  /\ t \in Redeemable
  /\ expired' = expired \union {t}
  /\ UNCHANGED <<up, registry, diskVars, pending, issued, redeemer, clients,
                 connVars>>

\* The registry entries revoke_client(x) removes: by id or by enrolled name.
Matched(x) == {id \in Ids : registry[id] # None /\ x \in {id, registry[id]}}

\* The clients it then disconnects: by id or by the name they said hello with.
Connected(x) ==
  {id \in Ids : clients[id] # None /\ x \in {id, helloName[clients[id]]}}

Without(f, gone) == [id \in Ids |-> IF id \in gone THEN None ELSE f[id]]

\* Faulty Revoke: the connections are forgotten and not closed.
RevokeUnclosed(x) ==
  /\ up
  /\ Matched(x) # {}
  /\ registry' = Without(registry, Matched(x))
  /\ revoked' = [c \in Conns |->
                   revoked[c] \/ (Past(c) /\ peer[c] \in Matched(x))]
  /\ \/ Saved(registry') /\ clients' = Without(clients, Connected(x))
     \/ NotSaved /\ UNCHANGED clients
  /\ UNCHANGED <<up, tokenVars, stage, link, peer, helloName, helloToken,
                 overlapped>>

\* revoke_client(x), when something matches (nothing changes when not).  If the
\* file cannot be written the caller is told NotFound and nobody is
\* disconnected, but the list in memory has changed.
Revoke(x) ==
  /\ up
  /\ Matched(x) # {}
  /\ registry' = Without(registry, Matched(x))
  /\ revoked' = [c \in Conns |->
                   revoked[c] \/ (Past(c) /\ peer[c] \in Matched(x))]
  /\ \/ /\ Saved(registry')
        /\ clients' = Without(clients, Connected(x))
        /\ link' = [c \in Conns |->
                      IF \E id \in Connected(x) : clients[id] = c
                      THEN "closed" ELSE link[c]]
     \/ NotSaved /\ UNCHANGED <<clients, link>>
  /\ UNCHANGED <<up, tokenVars, stage, peer, helloName, helloToken, overlapped>>

----------------------------------------------------------------------------
(* The agent's end and its next start.                                     *)

\* All memory is lost and every connection with it.
Halt ==
  /\ up' = FALSE
  /\ registry' = Nobody
  /\ pending' = {}
  /\ expired' = {}
  /\ clients' = Nobody
  /\ stage' = [c \in Conns |-> "free"]
  /\ link' = [c \in Conns |-> "none"]
  /\ peer' = [c \in Conns |-> None]
  /\ helloName' = [c \in Conns |-> None]
  /\ helloToken' = [c \in Conns |-> None]
  /\ revoked' = [c \in Conns |-> FALSE]
  /\ overlapped' = [c \in Conns |-> FALSE]
  /\ UNCHANGED <<disk, issued, redeemer>>

\* Ctrl-C, a kill or a power failure outside a write.
Crash ==
  /\ up
  /\ Halt
  /\ UNCHANGED torn

\* Some task is about to write clients.json.
SaveAhead ==
  \/ \E c \in Conns : HelloArrives(c) /\ helloToken[c] \in Redeemable
  \/ \E c \in Conns : stage[c] = "greeted" /\ registry[peer[c]] # None
  \/ \E id \in Ids : registry[id] # None

\* A kill or a power failure in the middle of tokio::fs::write.
CrashInSave ==
  /\ up
  /\ SaveAhead
  /\ Halt
  /\ torn' = TRUE

\* ClientRegistry::load; the agent does not start on a file it cannot parse.
Start ==
  /\ ~up
  /\ ~torn
  /\ up' = TRUE
  /\ registry' = disk
  /\ UNCHANGED <<diskVars, tokenVars, clients, connVars>>

----------------------------------------------------------------------------
\* What the task of c does without input of its device, or when none will come.
Task(c) ==
  \/ SendRefusal(c)
  \/ SendHello(c)
  \/ HandshakeFails(c)
  \/ Register(c)
  \/ Leave(c)

ReadHello(c) ==
  \/ RefuseToken(c)
  \/ Enroll(c)
  \/ Recognise(c)
  \/ RefuseUnknown(c)

Next ==
  \/ \E c \in Conns :
       \/ \E id \in Ids, n \in Names, t \in issued \union {None} :
            Dial(c, id, n, t)
       \/ ReadHello(c)
       \/ Task(c)
       \/ Lose(c)
       \/ NoticeLoss(c)
  \/ \E t \in Tokens : GenerateTicket(t) \/ Expire(t)
  \/ \E x \in Ids \union Names : Revoke(x)
  \/ Crash
  \/ CrashInSave
  \/ Start

Spec == Init /\ [][Next]_vars

\* tokio runs a task that can run: one that reads from its device can when the
\* connection is closed.  QUIC's idle timeout finds a dead link.  Nothing makes a
\* device send its hello or end its streams, or anyone start the agent.
Fairness ==
  \A c \in Conns :
    /\ WF_vars((stage[c] \in {"accepted", "serving"} => link[c] = "closed") /\ Task(c))
    /\ WF_vars(NoticeLoss(c))

FairSpec == Spec /\ Fairness
----------------------------------------------------------------------------
(* What the program may rely on.                                           *)

\* Every variable has its type, and the pruned tokens were pending ones.
TypeOK ==
  /\ up \in BOOLEAN
  /\ registry \in [Ids -> Names \union {None}]
  /\ disk \in [Ids -> Names \union {None}]
  /\ torn \in BOOLEAN
  /\ expired \subseteq pending /\ pending \subseteq issued
  /\ issued \subseteq Tokens
  /\ clients \in [Ids -> Conns \union {None}]
  /\ stage \in [Conns -> Stages]
  /\ link \in [Conns -> Links]
  /\ peer \in [Conns -> Ids \union {None}]
  /\ helloName \in [Conns -> Names \union {None}]
  /\ helloToken \in [Conns -> Tokens \union {None}]
  /\ redeemer \in [Tokens -> Ids \union {None}]
  /\ revoked \in [Conns -> BOOLEAN]
  /\ overlapped \in [Conns -> BOOLEAN]

\* No entry of Hub.clients outlives the task that will remove it: each one
\* belongs to a task in its read loop, for a device of that id.
EntryServed ==
  \A id \in Ids : clients[id] # None =>
    /\ stage[clients[id]] = "serving"
    /\ peer[clients[id]] = id

\* A connection that was admitted belongs to an enrolled device, whatever the
\* other tasks did between its check and its registration, unless that device
\* was revoked in the meantime.
AdmittedIsEnrolled ==
  \A c \in Conns : Past(c) /\ ~revoked[c] => registry[peer[c]] # None

\* A device that is sent ServerHello{enrolled: true} for its token was written
\* to clients.json before, and no later write leaves it out unless it is
\* revoked.
EnrolmentDurable ==
  \A c \in Conns :
    Past(c) /\ helloToken[c] # None /\ ~revoked[c] => disk[peer[c]] # None

\* A registered connection that is not closed is the one its device is routed
\* to, if the device never had a second connection beside it.
SoleConnectionRouted ==
  \A c \in Conns :
    stage[c] = "serving" /\ link[c] # "closed" /\ ~overlapped[c] =>
      clients[peer[c]] = c

\* A token enrols one device, also when several present it at once or later.
TokenRedeemedOnce ==
  [][\A t \in Tokens : redeemer'[t] # redeemer[t] => redeemer[t] = None]_vars

\* The handshake, the registry and its file implement the enrolment promise.
Promise == INSTANCE Membership
  WITH offered <- Redeemable, spent <- issued \ Redeemable,
       members <- registry, stable <- disk

ImplementsMembership == Promise!Spec

\* The entry of a connection that has died goes away.
DeadEntryLeaves ==
  \A c \in Conns, id \in Ids :
    (clients[id] = c /\ link[c] # "open") ~> clients[id] # c

\* The task of a lost connection ends, wherever in the handshake it is.
LostConnectionEnds ==
  \A c \in Conns : link[c] = "lost" ~> stage[c] = "free"

----------------------------------------------------------------------------
(* What the documentation says, and the code does not do.                  *)

\* "The agent maintains persistent iroh connections to all enrolled desktop
\* clients.  Requests [...] are routed to the appropriate client(s) over these
\* persistent connections" (docs/explanation/architecture.md:118-120): an
\* enrolled device whose connection is registered and open has an entry.
ConnectedDeviceRouted ==
  \A c \in Conns :
    stage[c] = "serving" /\ link[c] = "open" /\ registry[peer[c]] # None =>
      clients[peer[c]] # None

\* "Only enrolled clients can connect" (docs/explanation/security.md:62): the
\* agent holds no entry for a device it knows neither in memory nor on disk.
OnlyEnrolledRouted ==
  \A id \in Ids :
    clients[id] # None => registry[id] # None \/ disk[id] # None

\* "Removes the client from the persistent registry and, if the client is
\* currently connected, disconnects it immediately" (hub.rs:215-216): a device
\* that leaves a registry which reached the disk is no longer in the table.
RevokedIsDisconnected ==
  [][\A id \in Ids :
       up' /\ registry[id] # None /\ registry'[id] = None /\ disk' = registry' =>
         clients'[id] = None]_vars

\* "After enrollment, the client's iroh endpoint ID (public key) is stored in
\* the agent's persistent registry" (docs/explanation/security.md:58-59): while
\* an enrolled device is connected, an agent that dies finds it again.
EnrolmentSurvives ==
  \A c \in Conns :
    Past(c) /\ helloToken[c] # None /\ ~revoked[c] => ~torn

\* "subportal revoke <name-or-id>: This removes the client from the persistent
\* registry and disconnects it" (docs/howto/enrollment.md:64-68): a device the
\* file still names is one the running agent can revoke.
StoredIsRevocable ==
  up => \A id \in Ids : disk[id] # None => registry[id] # None
============================================================================
