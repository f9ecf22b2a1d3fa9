------------------------------- MODULE Notify --------------------------------
(***************************************************************************)
(* Notifications and their dismissal.  The agent gives a notification the  *)
(* next number as its id, sends it to the devices one after the other      *)
(* (FanOut, agent.rs) and answers the tool that asked with the id.  A tool *)
(* dismisses by id: broadcast_dismiss (hub.rs) puts the id in the bounded  *)
(* control channel of every client while it holds the hub's mutex.  Each   *)
(* connection has a writer task for its channel.  A device keeps a map     *)
(* from id to what it has on the screen (dismiss.rs, NotificationHelper).  *)
(*                                                                         *)
(* A device has one connection at a time; Hub has those that overlap.      *)
(***************************************************************************)
EXTENDS Naturals, Sequences, FiniteSets, SequencesExt

CONSTANTS Devices,
          Phones,      \* the devices that map an id before they show
          MaxNotes,    \* bound: notifications
          MaxFaults,   \* bound: lost connections and restarts of the agent
          MaxDismissals, \* bound: dismissals
          Room,        \* ids that fit in a control channel (32) and its stream
          None

Notes == 1..MaxNotes
Other == MaxNotes + 1   \* an id of no notification
Ids == Notes \union {Other}

ASSUME PhonesAssumption == Phones \subseteq Devices
ASSUME BoundsAssumption == /\ MaxNotes \in Nat /\ MaxFaults \in Nat
                           /\ MaxDismissals \in Nat
                           /\ Room \in Nat \ {0}
ASSUME DevicesFinite == IsFiniteSet(Devices)
ASSUME NoneAssumption == None \notin Devices \union Ids \union [id : Ids, left : Seq(Devices)]

VARIABLES faults, dismissals,  \* how many there were
          counter,   \* notification_counter, 0 when the agent starts
          made,      \* how many notifications there were
          call,      \* per notification, what became of the request
          id,        \* per notification, its id
          todo,      \* per notification, the devices to be asked still
          asked,     \* per notification, the device that is asked now
          gone,      \* per notification, devices whose connection, as it was
                     \* when the request came, is lost
          sentTo,    \* per notification, sent_to
          lock,      \* the broadcast that holds the mutex: an id, and the
                     \* clients that have not been sent it
          link,      \* per device, its connection
          clients,   \* devices in the client table
          writer,    \* devices whose connection has its writer task
          channel,   \* per device, ids sent to it that it has not read
          handled,   \* per notification and device, how far the device is
          idMap,     \* per device, the notification it has for an id
          screen,    \* per device, notifications on its screen
          owed       \* history: per device, notifications that a dismissal
                     \* named since when its connection has held

agentVars == <<faults, dismissals, counter>>
callVars == <<made, call, id, todo, asked, gone, sentTo>>
linkVars == <<link, clients, writer, channel>>
deviceVars == <<handled, idMap, screen>>
vars == <<agentVars, callVars, lock, linkVars, deviceVars, owed>>

Init ==
  /\ faults = 0 /\ dismissals = 0 /\ counter = 0 /\ made = 0
  /\ lock = None /\ clients = {} /\ writer = {}
  /\ call = [n \in Notes |-> "none"]
  /\ id = [n \in Notes |-> None]
  /\ todo = [n \in Notes |-> {}]
  /\ asked = [n \in Notes |-> None]
  /\ gone = [n \in Notes |-> {}]
  /\ sentTo = [n \in Notes |-> {}]
  /\ link = [d \in Devices |-> "down"]
  /\ channel = [d \in Devices |-> <<>>]
  /\ handled = [n \in Notes |-> [d \in Devices |-> "no"]]
  /\ idMap = [d \in Devices |-> [i \in Ids |-> None]]
  /\ screen = [d \in Devices |-> {}]
  /\ owed = [d \in Devices |-> {}]

-----------------------------------------------------------------------------
(* Connections.                                                             *)

Connect(d) ==
  /\ link[d] = "down"
  /\ lock = None
  /\ link' = [link EXCEPT ![d] = "up"]
  /\ clients' = clients \union {d}
  /\ writer' = writer \union {d}
  /\ channel' = [channel EXCEPT ![d] = <<>>]
  /\ UNCHANGED <<agentVars, callVars, lock, deviceVars, owed>>

\* The path is lost.  From now on the agent's streams of the connection fail, each
\* when it finds out.
Lose(d) ==
  /\ link[d] = "up"
  /\ faults < MaxFaults
  /\ faults' = faults + 1
  /\ link' = [link EXCEPT ![d] = "lost"]
  /\ gone' = [n \in Notes |-> IF call[n] = "sending" THEN gone[n] \union {d} ELSE gone[n]]
  /\ owed' = [owed EXCEPT ![d] = {}]
  /\ UNCHANGED <<dismissals, counter, made, call, id, todo, asked, sentTo, lock,
                 clients, writer, channel, deviceVars>>

\* The read loop ends, takes the mutex and removes the client; its sender goes
\* with it, and so does the writer.
Leave(d) ==
  /\ link[d] = "lost"
  /\ lock = None
  /\ link' = [link EXCEPT ![d] = "down"]
  /\ clients' = clients \ {d}
  /\ writer' = writer \ {d}
  /\ UNCHANGED <<agentVars, callVars, lock, channel, deviceVars, owed>>

\* Faulty WriteFails: the writer tries again.
WriteAgain(d) ==
  /\ d \in writer
  /\ channel[d] # <<>>
  /\ link[d] = "lost"
  /\ UNCHANGED vars

\* The writer ends, and the receiver of its channel with it.
WriteFails(d) ==
  /\ d \in writer
  /\ channel[d] # <<>>
  /\ link[d] = "lost"
  /\ writer' = writer \ {d}
  /\ channel' = [channel EXCEPT ![d] = <<>>]
  /\ UNCHANGED <<agentVars, callVars, lock, link, clients, deviceVars, owed>>

-----------------------------------------------------------------------------
(* A notification.                                                          *)

\* Under the mutex: an id, and the devices to send to.
Notify(n) ==
  /\ n = made + 1
  /\ n \in Notes
  /\ lock = None
  /\ clients # {}
  /\ made' = n
  /\ counter' = counter + 1
  /\ id' = [id EXCEPT ![n] = counter']
  /\ todo' = [todo EXCEPT ![n] = clients]
  /\ gone' = [gone EXCEPT ![n] = {d \in clients : link[d] # "up"}]
  /\ call' = [call EXCEPT ![n] = "sending"]
  /\ UNCHANGED <<faults, dismissals, asked, sentTo, lock, linkVars, deviceVars, owed>>

Ask(n, d) ==
  /\ call[n] = "sending"
  /\ asked[n] = None
  /\ d \in todo[n]
  /\ todo' = [todo EXCEPT ![n] = @ \ {d}]
  /\ asked' = [asked EXCEPT ![n] = d]
  /\ UNCHANGED <<agentVars, made, call, id, sentTo, gone, lock, linkVars, deviceVars, owed>>

\* send_to_connection has an answer.
Heard(n, d) ==
  /\ asked[n] = d
  /\ d \notin gone[n]
  /\ asked' = [asked EXCEPT ![n] = None]
  /\ sentTo' = [sentTo EXCEPT ![n] = @ \union {d}]
  /\ UNCHANGED <<agentVars, made, call, id, todo, gone, lock, linkVars, deviceVars, owed>>

\* Faulty Hear: the device answers when the notification is on the screen.
HearEarly(n, d) == handled[n][d] \in {"begun", "done", "stuck"} /\ Heard(n, d)

\* The device answers when it has shown the notification and knows its id.
Hear(n, d) == handled[n][d] \in {"done", "stuck"} /\ Heard(n, d)

\* Faulty Fail: a failure to show counts, the loss of the connection does not.
FailIfRefused(n, d) ==
  /\ asked[n] = d
  /\ d \notin gone[n] /\ handled[n][d] = "refused"
  /\ asked' = [asked EXCEPT ![n] = None]
  /\ UNCHANGED <<agentVars, made, call, id, todo, sentTo, gone, lock, linkVars,
                 deviceVars, owed>>

\* The device could not show it, or its connection is gone: the next one.
Fail(n, d) ==
  /\ asked[n] = d
  /\ d \in gone[n] \/ handled[n][d] = "refused"
  /\ asked' = [asked EXCEPT ![n] = None]
  /\ UNCHANGED <<agentVars, made, call, id, todo, sentTo, gone, lock, linkVars,
                 deviceVars, owed>>

\* pending_notifications gets an entry, and the tool the id.
Delivered(n) ==
  /\ call[n] = "sending"
  /\ todo[n] = {} /\ asked[n] = None
  /\ lock = None
  /\ call' = [call EXCEPT ![n] = "delivered"]
  /\ UNCHANGED <<agentVars, made, id, todo, asked, sentTo, gone, lock, linkVars,
                 deviceVars, owed>>

-----------------------------------------------------------------------------
(* A dismissal.                                                             *)

Named(i) == {n \in Notes : call[n] = "delivered" /\ id[n] = i}

\* What a tool may name: the ids that were told, and anything else.
Told == {id[n] : n \in {m \in Notes : call[m] \in {"delivered", "past"}}} \union {Other}

Dismiss(i) ==
  /\ i \in Told
  /\ lock = None
  /\ dismissals < MaxDismissals
  /\ dismissals' = dismissals + 1
  /\ \E order \in SetToSeqs(clients) : lock' = [id |-> i, left |-> order]
  /\ owed' = [d \in Devices |->
       IF link[d] = "up" /\ d \in clients
       THEN owed[d] \union {n \in Named(i) : d \in sentTo[n]} ELSE owed[d]]
  /\ UNCHANGED <<faults, counter, callVars, linkVars, deviceVars>>

NextClient == Head(lock.left)
Others == [lock EXCEPT !.left = Tail(@)]

\* Faulty Pass: a full channel is skipped.
PassIfRoom ==
  /\ lock # None /\ lock.left # <<>>
  /\ channel' = IF NextClient \in writer /\ Len(channel[NextClient]) < Room
                THEN [channel EXCEPT ![NextClient] = Append(@, lock.id)] ELSE channel
  /\ lock' = Others
  /\ UNCHANGED <<agentVars, callVars, link, clients, writer, deviceVars, owed>>

\* Faulty Pass: a channel has no limit.
PassUnbounded ==
  /\ lock # None /\ lock.left # <<>>
  /\ channel' = [channel EXCEPT ![NextClient] = Append(@, lock.id)]
  /\ lock' = Others
  /\ UNCHANGED <<agentVars, callVars, link, clients, writer, deviceVars, owed>>

\* Wait for room in the channel of the next client; a channel without a writer
\* refuses.
Pass ==
  /\ lock # None /\ lock.left # <<>>
  /\ IF NextClient \in writer
     THEN /\ Len(channel[NextClient]) < Room
          /\ channel' = [channel EXCEPT ![NextClient] = Append(@, lock.id)]
     ELSE UNCHANGED channel
  /\ lock' = Others
  /\ UNCHANGED <<agentVars, callVars, link, clients, writer, deviceVars, owed>>

Release ==
  /\ lock # None /\ lock.left = <<>>
  /\ lock' = None
  /\ UNCHANGED <<agentVars, callVars, linkVars, deviceVars, owed>>

-----------------------------------------------------------------------------
(* The devices.                                                             *)

Put(n, d) == screen' = [screen EXCEPT ![d] = @ \union {n}]
Enter(n, d) == idMap' = [idMap EXCEPT ![d][id[n]] = n]

\* The request is there: a desktop shows the notification, a phone makes its
\* entry; or there is no notification server.
Begin(n, d) ==
  /\ asked[n] = d /\ d \notin gone[n]
  /\ handled[n][d] = "no"
  /\ \/ /\ handled' = [handled EXCEPT ![n][d] = "begun"]
        /\ IF d \in Phones THEN Enter(n, d) /\ UNCHANGED screen
                           ELSE Put(n, d) /\ UNCHANGED idMap
     \/ /\ d \notin Phones
        /\ handled' = [handled EXCEPT ![n][d] = "refused"]
        /\ UNCHANGED <<idMap, screen>>
  /\ UNCHANGED <<agentVars, callVars, lock, linkVars, owed>>

\* The other half, which is done also when the connection is gone.
Complete(n, d) ==
  /\ handled[n][d] = "begun"
  /\ handled' = [handled EXCEPT ![n][d] = "done"]
  /\ IF d \in Phones THEN Put(n, d) /\ UNCHANGED idMap
                     ELSE Enter(n, d) /\ UNCHANGED screen
  /\ UNCHANGED <<agentVars, callVars, lock, linkVars, owed>>

\* Close what an entry named.  A desktop's notification server may refuse, which is
\* logged and nothing else: the notification stays, without an entry.
Close(n, d) ==
  \/ screen' = [screen EXCEPT ![d] = @ \ {n}] /\ UNCHANGED handled
  \/ /\ d \notin Phones /\ n # None
     /\ handled' = [handled EXCEPT ![n][d] = "stuck"]
     /\ UNCHANGED screen

\* Take the entry of the id out, and close what it names.
ReadControl(d) ==
  /\ link[d] = "up"
  /\ channel[d] # <<>>
  /\ channel' = [channel EXCEPT ![d] = Tail(@)]
  /\ LET i == Head(channel[d])
     IN  Close(idMap[d][i], d) /\ idMap' = [idMap EXCEPT ![d][i] = None]
  /\ UNCHANGED <<agentVars, callVars, lock, link, clients, writer, owed>>

-----------------------------------------------------------------------------
\* The agent ends and starts again: every connection is gone.
Restart ==
  /\ faults < MaxFaults
  /\ faults' = faults + 1
  /\ counter' = 0
  /\ call' = [n \in Notes |-> CASE call[n] = "sending" -> "lost"
                                [] call[n] = "delivered" -> "past"
                                [] OTHER -> call[n]]
  /\ todo' = [n \in Notes |-> {}]
  /\ asked' = [n \in Notes |-> None]
  /\ gone' = [n \in Notes |-> {}]
  /\ lock' = None
  /\ link' = [d \in Devices |-> "down"]
  /\ clients' = {} /\ writer' = {}
  /\ channel' = [d \in Devices |-> <<>>]
  /\ owed' = [d \in Devices |-> {}]
  /\ UNCHANGED <<dismissals, made, id, sentTo, deviceVars>>

Next ==
  \/ \E d \in Devices :
       \/ Connect(d)
       \/ Lose(d)
       \/ Leave(d)
       \/ WriteFails(d)
       \/ ReadControl(d)
  \/ \E n \in Notes :
       \/ Notify(n)
       \/ Delivered(n)
       \/ \E d \in Devices :
            Ask(n, d) \/ Hear(n, d) \/ Fail(n, d) \/ Begin(n, d) \/ Complete(n, d)
  \/ \E i \in Ids : Dismiss(i)
  \/ Pass
  \/ Release
  \/ Restart

Spec == Init /\ [][Next]_vars

\* Tasks run; a lost connection is given up; a device that is reached serves its
\* requests and reads its control stream.  The mutex is handed to those who wait
\* for it in turn, hence SF for what takes it.
Fairness ==
  /\ WF_vars(Pass) /\ WF_vars(Release)
  /\ \A d \in Devices :
       /\ SF_vars(Leave(d)) /\ WF_vars(WriteFails(d)) /\ WF_vars(ReadControl(d))
  /\ \A n \in Notes :
       /\ SF_vars(Delivered(n))
       /\ \A d \in Devices :
            /\ WF_vars(Ask(n, d)) /\ WF_vars(Hear(n, d)) /\ WF_vars(Fail(n, d))
            /\ WF_vars(Begin(n, d)) /\ WF_vars(Complete(n, d))

FairSpec == Spec /\ Fairness

-----------------------------------------------------------------------------
TypeOK ==
  /\ faults \in 0..MaxFaults /\ dismissals \in 0..MaxDismissals
  /\ counter \in 0..MaxNotes /\ made \in 0..MaxNotes
  /\ call \in [Notes -> {"none", "sending", "delivered", "lost", "past"}]
  /\ id \in [Notes -> Ids \union {None}]
  /\ todo \in [Notes -> SUBSET Devices] /\ gone \in [Notes -> SUBSET Devices]
  /\ sentTo \in [Notes -> SUBSET Devices]
  /\ asked \in [Notes -> Devices \union {None}]
  /\ lock \in [id : Ids, left : Seq(Devices)] \union {None}
  /\ link \in [Devices -> {"down", "up", "lost"}]
  /\ clients \in SUBSET Devices /\ writer \in SUBSET clients
  /\ channel \in [Devices -> Seq(Ids)] /\ \A d \in Devices : Len(channel[d]) <= Room
  /\ handled \in [Notes -> [Devices -> {"no", "begun", "done", "stuck", "refused"}]]
  /\ idMap \in [Devices -> [Ids -> Notes \union {None}]]
  /\ screen \in [Devices -> SUBSET Notes] /\ owed \in [Devices -> SUBSET Notes]

\* No other notification has had the id.
OnlyOne(n) == \A m \in Notes \ {n} : id[m] # id[n]

\* What is on the screen of a device that confirmed it can be dismissed there:
\* the answer comes only after the entry, and nothing takes the entry but a
\* dismissal that the notification server refuses.
ShownIsDismissable ==
  \A n \in Notes, d \in Devices :
    d \in sentTo[n] /\ OnlyOne(n) /\ n \in screen[d] /\ handled[n][d] # "stuck"
      => idMap[d][id[n]] = n

\* A dismissal reaches each device that confirmed the notification and stays
\* connected, however full its control channel is: until it has closed the
\* notification, or its notification server has refused to, the id waits in its
\* channel or in a broadcast (hub.rs:158).
DismissalUnderWay ==
  \A d \in Devices : \A n \in owed[d] \intersect screen[d] :
    OnlyOne(n) /\ handled[n][d] # "stuck" =>
      \/ \E k \in DOMAIN channel[d] : channel[d][k] = id[n]
      \/ lock # None /\ lock.id = id[n] /\ \E k \in DOMAIN lock.left : lock.left[k] = d

\* As long as the agent runs it gives no id twice (hub.rs:95-98).
IdsOfRunDiffer ==
  \A n, m \in Notes :
    {call[n], call[m]} \subseteq {"sending", "delivered"} /\ id[n] = id[m] => n = m

\* A broadcast gives the mutex back, also when a client has just been lost whose
\* channel is full, and whose own task waits for the mutex.
BroadcastEnds == lock # None ~> lock = None

\* A tool that notifies is answered, whichever device is lost meanwhile, unless
\* the agent ends (agent.rs:368).
NotifyAnswered == \A n \in Notes : call[n] = "sending" ~> call[n] # "sending"

-----------------------------------------------------------------------------
(* What the documentation says, and the code does not do.                   *)

\* "Generate a unique notification ID." (hub.rs:95): no two notifications on the
\* screen of a device have the same id, so that a dismissal reaches each.
IdsOnScreenDiffer ==
  \A d \in Devices : \A n, m \in screen[d] : id[n] = id[m] => n = m
=============================================================================
