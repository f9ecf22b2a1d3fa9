------------------------------ MODULE Presence ------------------------------
(***************************************************************************)
(* What the agent believes about where the user is.  Each device watches   *)
(* its screen and reports changes on its control stream (focus.rs on the   *)
(* desktop, send_focus_updates in the Android core); the agent keeps focus *)
(* and recency per client (add_client, update_focus and remove_client in   *)
(* hub.rs) and ranks the clients by them.  Reports travel on one ordered   *)
(* stream and arrive late.  Hub.tla has the handshake that precedes this   *)
(* and what happens when two connections of one device overlap.            *)
(***************************************************************************)
EXTENDS Router

CONSTANTS Devices,   \* endpoint ids, numbers
          Phones,    \* those that run the Android core
          Caps,      \* the capabilities each announces in its hello
          MaxNow,    \* bound: instants the clock may show
          MaxQueue   \* bound: reports under way on one stream

ASSUME DevicesAreNumbers == Devices \subseteq Nat /\ Phones \subseteq Devices
ASSUME BoundsAreNumbers == MaxNow \in Nat /\ MaxQueue \in Nat \ {0}

VARIABLES now,       \* Instant::now() of the agent
          clients,   \* Hub.clients: the set of entries, one per id
          screen,    \* what the device's screen is doing
          watch,     \* the phone's focus channel: its value, or "new" (Active,
                     \* and nothing was sent on it)
          unseen,    \* the phone's focus task has not seen the last send
          told,      \* what the device's focus task reported last
          reports    \* reports under way, oldest first

phoneVars == <<watch, unseen>>
vars == <<now, clients, screen, phoneVars, told, reports>>

\* What a look at the focus channel yields.
Shown(w) == IF w = "new" THEN "active" ELSE w

Connected == {c.id : c \in clients}
Entry(d) == CHOOSE c \in clients : c.id = d

Init ==
  /\ now = 0
  /\ clients = {}
  /\ screen \in [Devices -> FocusStates]
  /\ watch = screen
  /\ unseen = [d \in Devices |-> FALSE]
  /\ told = [d \in Devices |-> "active"]
  /\ reports = [d \in Devices |-> <<>>]

\* Faulty Replace: the entry is pushed beside the one it should replace.
ReplaceNothing(d, entry) == clients \union {entry}

\* HashMap::get_mut and a change of the entry.
Replace(d, entry) == (clients \ {Entry(d)}) \union {entry}

\* add_client: a new entry is active and fresh whatever the device is doing.
\* The first report the device sends is what its focus channel holds on a phone,
\* and always Active on a desktop.  The phone's task gets a copy of a receiver
\* that never looked, so a value once sent is reported twice.
Connect(d) ==
  /\ d \notin Connected
  /\ clients' = clients \union
       {[id |-> d, focus |-> "active", caps |-> Caps[d], last |-> now]}
  /\ told' = [told EXCEPT ![d] =
                IF d \in Phones THEN Shown(watch[d]) ELSE "active"]
  /\ reports' = [reports EXCEPT ![d] = <<told'[d]>>]
  /\ unseen' = [unseen EXCEPT ![d] = d \in Phones /\ watch[d] # "new"]
  /\ UNCHANGED <<now, screen, watch>>

Disconnect(d) ==
  /\ d \in Connected
  /\ clients' = clients \ {Entry(d)}
  /\ reports' = [reports EXCEPT ![d] = <<>>]
  /\ UNCHANGED <<now, screen, phoneVars, told>>

\* The user comes to the device or leaves it; a phone's FocusMonitor sends that
\* to the focus channel (set_focus_active).
ScreenTurns(d) ==
  /\ screen' = [screen EXCEPT ![d] = IF @ = "active" THEN "idle" ELSE "active"]
  /\ watch' = [watch EXCEPT ![d] = screen'[d]]
  /\ unseen' = [unseen EXCEPT ![d] = d \in Phones /\ d \in Connected]
  /\ UNCHANGED <<now, clients, told, reports>>

\* reconnect: the phone stops its tasks and starts with a new focus channel;
\* the FocusMonitor does not report to that one until the screen turns.
Reconnect(d) ==
  /\ d \in Phones
  /\ d \notin Connected
  /\ watch' = [watch EXCEPT ![d] = "new"]
  /\ unseen' = [unseen EXCEPT ![d] = FALSE]
  /\ UNCHANGED <<now, clients, screen, told, reports>>

\* The focus task wakes: a phone's when something was sent on the channel, a
\* desktop's poll when the screen is not as reported.
HasNews(d) ==
  /\ d \in Connected
  /\ Len(reports[d]) < MaxQueue
  /\ IF d \in Phones THEN unseen[d] ELSE screen[d] # told[d]

Looked(d) == IF d \in Phones THEN Shown(watch[d]) ELSE screen[d]

\* Faulty Report: the task remembers what it saw before it sent anything.
ReportForgotten(d) ==
  /\ HasNews(d)
  /\ told' = [told EXCEPT ![d] = Looked(d)]
  /\ unseen' = [unseen EXCEPT ![d] = FALSE]
  /\ reports' \in {reports, [reports EXCEPT ![d] = Append(@, Looked(d))]}
  /\ UNCHANGED <<now, clients, screen, watch>>

\* It sends what the device shows now.
Report(d) ==
  /\ HasNews(d)
  /\ told' = [told EXCEPT ![d] = Looked(d)]
  /\ unseen' = [unseen EXCEPT ![d] = FALSE]
  /\ reports' = [reports EXCEPT ![d] = Append(@, Looked(d))]
  /\ UNCHANGED <<now, clients, screen, watch>>

\* Faulty update_focus: becoming active does not make a client recent.
UpdateFocusOnly(d) ==
  /\ d \in Connected
  /\ reports[d] # <<>>
  /\ clients' = Replace(d, [Entry(d) EXCEPT !.focus = Head(reports[d])])
  /\ reports' = [reports EXCEPT ![d] = Tail(@)]
  /\ UNCHANGED <<now, screen, phoneVars, told>>

\* The read loop takes the next report: update_focus.
update_focus(d) ==
  /\ d \in Connected
  /\ reports[d] # <<>>
  /\ LET state == Head(reports[d])
     IN  clients' = Replace(d, [Entry(d) EXCEPT
                        !.focus = state,
                        !.last = IF state = "active" THEN now ELSE @])
  /\ reports' = [reports EXCEPT ![d] = Tail(@)]
  /\ UNCHANGED <<now, screen, phoneVars, told>>

Tick ==
  /\ now < MaxNow
  /\ now' = now + 1
  /\ UNCHANGED <<clients, screen, phoneVars, told, reports>>

Next ==
  \/ \E d \in Devices :
       \/ Connect(d)
       \/ Disconnect(d)
       \/ ScreenTurns(d)
       \/ Reconnect(d)
       \/ Report(d)
       \/ update_focus(d)
  \/ Tick

Spec == Init /\ [][Next]_vars

\* The poll runs every 30 seconds, the watch channel wakes its task, and what
\* is sent on an open stream arrives.
Fairness == \A d \in Devices : WF_vars(Report(d)) /\ WF_vars(update_focus(d))

FairSpec == Spec /\ Fairness

-----------------------------------------------------------------------------
Capabilities == UNION {Caps[d] : d \in Devices}

\* Every entry is well formed and there is one per device.
TypeOK ==
  /\ now \in 0..MaxNow
  /\ clients \subseteq [id : Devices, focus : FocusStates,
                        caps : SUBSET Capabilities, last : 0..now]
  /\ \A c, e \in clients : e.id = c.id => e = c
  /\ screen \in [Devices -> FocusStates]
  /\ watch \in [Devices -> FocusStates \union {"new"}]
  /\ unseen \in [Devices -> BOOLEAN]
  /\ told \in [Devices -> FocusStates]
  /\ reports \in [Devices -> Seq(FocusStates)]
  /\ \A d \in Devices : Len(reports[d]) <= MaxQueue

\* Whatever is still under way, the last thing the agent will have heard from
\* a connected device is what the device believes it has said.
LastWordCounts ==
  \A d \in Connected :
    Last(<<Entry(d).focus>> \o reports[d]) = told[d]

\* Routing is never arbitrary: sorting the clients gives one list only, in
\* whatever order the hash map yields them (router.rs:49-53).
OneOrder ==
  \A cap \in Capabilities :
    LET capable == fan_out(clients, cap)
        n == Cardinality(capable)
    IN  /\ ToSet(rank(clients, cap)) = capable
        /\ Len(rank(clients, cap)) = n
        /\ \A i, j \in 1..n : i < j =>
             Before(rank(clients, cap)[i], rank(clients, cap)[j])

\* The device the user has just come back to is the one a request goes to
\* (hub.rs:83-85), unless another was seen active at the very same instant.
FreshestFirst ==
  [][\A d \in Devices, cap \in Capabilities :
       reports[d] # <<>> /\ reports'[d] = Tail(reports[d]) /\ d \in Connected'
         /\ Head(reports[d]) = "active" /\ cap \in Caps[d] =>
           LET best == Head(rank(clients', cap))
           IN  best.id = d \/ best.last = now]_vars

\* Once the user stays put, the agent's idea of each connected device settles
\* on what its screen is doing, if a phone has seen its screen turn since it
\* last reconnected.
FocusSettles ==
  \A d \in Devices, state \in FocusStates :
    <>[](d \in Connected /\ screen[d] = state /\ watch[d] # "new")
      => <>[](d \in Connected /\ Entry(d).focus = state)

-----------------------------------------------------------------------------
(* What the documentation says, and the code does not do.                   *)

\* "When the screen is off or the device is not interactive, the focus state is
\* set to Idle so the server can prefer active devices for routing"
\* (FocusMonitor.kt:14-15).
DarkScreenIsIdle ==
  \A d \in Phones :
    <>[](d \in Connected /\ screen[d] = "idle")
      => <>[](d \in Connected /\ Entry(d).focus = "idle")
=============================================================================
