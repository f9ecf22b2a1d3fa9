---------------------------- MODULE AndroidCore -----------------------------
(***************************************************************************)
(* SubportalCore of the Android app (lib.rs): start, stop and reconnect,   *)
(* called from the service and from the screens on threads of their own,   *)
(* and the runtimes they make.  Two mutexes guard the sender of the        *)
(* shutdown channel and the handle of the runtime's thread.  Each call     *)
(* locks them one after the other, and stop holds the second while it      *)
(* joins.  A runtime (run_loop) keeps a task per listed server, as in      *)
(* Servers, and loads the list again every ten seconds.  Its thread ends   *)
(* only after the prompts its requests block on (block_in_place) are over. *)
(***************************************************************************)
EXTENDS Naturals, FiniteSets

CONSTANTS Callers,     \* threads that call the core
          MaxRuntimes, \* bound: how often start is called
          Servers,     \* endpoint ids of agents
          MaxPrompts,  \* bound: prompts that block one runtime at a time
          None         \* an empty slot

\* The runtimes in the order in which they were made.
Runtimes == 1..MaxRuntimes

ASSUME NoneAssumption == None \notin Runtimes \union Callers
ASSUME BoundsAssumption == MaxRuntimes \in Nat /\ MaxPrompts \in Nat

VARIABLES pc,         \* per caller, the step of its call it is about to take
          again,      \* the call is a reconnect: start follows stop
          mine,       \* the runtime it has made, or joins
          shutdownTx, \* core.shutdown_tx: whose shutdown sender it is
          handle,     \* core.runtime_handle: whose thread it is
          started,    \* how many runtimes were made
          joiner,     \* the caller that holds the lock on the handle, joining
          receiver,   \* the service hears the prompts' buttons
          phase,      \* per runtime, how far its thread is
          told,       \* what its shutdown channel holds
          prompts,    \* per runtime, prompts on the screen
          task,       \* per runtime and server, what the server's task does
          connected,  \* core.connected
          listed,     \* servers.json
          dropped,    \* history: the sender of a runtime nobody told to stop
                      \* was replaced
          overlapped  \* history: two calls were under way at the same time

callVars == <<pc, again, mine, started, shutdownTx, handle, joiner>>
runVars == <<phase, told, prompts, task>>
history == <<dropped, overlapped>>
vars == <<callVars, receiver, runVars, connected, listed, history>>

Steps == {"idle", "setTx", "spawn", "setHandle", "send", "take", "join"}
NoTask == [s \in Servers |-> "none"]

Init ==
  /\ pc = [c \in Callers |-> "idle"]
  /\ again = [c \in Callers |-> FALSE]
  /\ mine = [c \in Callers |-> None]
  /\ started = 0 /\ shutdownTx = None /\ handle = None /\ joiner = None
  /\ receiver = TRUE
  /\ phase = [r \in Runtimes |-> "none"]
  /\ told = [r \in Runtimes |-> "nothing"]
  /\ prompts = [r \in Runtimes |-> 0]
  /\ task = [r \in Runtimes |-> NoTask]
  /\ connected = [s \in Servers |-> FALSE]
  /\ listed \in SUBSET Servers
  /\ dropped = FALSE /\ overlapped = FALSE

Goto(c, step) == pc' = [pc EXCEPT ![c] = step]

-----------------------------------------------------------------------------
(* The calls.                                                               *)

\* start, stop or reconnect is called.
Call(c, step, reconnect) ==
  /\ pc[c] = "idle"
  /\ \/ step = "setTx" /\ ~reconnect
     \/ step = "send"
  /\ Goto(c, step)
  /\ again' = [again EXCEPT ![c] = reconnect]
  /\ overlapped' = (overlapped \/ \E d \in Callers : pc[d] # "idle")
  /\ UNCHANGED <<mine, started, shutdownTx, handle, joiner, receiver, runVars,
                 connected, listed, dropped>>

\* onDestroy: the prompts' receiver goes first, then stop.
Destroy(c) ==
  /\ receiver
  /\ pc[c] = "idle"
  /\ receiver' = FALSE
  /\ Goto(c, "send")
  /\ again' = [again EXCEPT ![c] = FALSE]
  /\ overlapped' = (overlapped \/ \E d \in Callers : pc[d] # "idle")
  /\ UNCHANGED <<mine, started, shutdownTx, handle, joiner, runVars, connected,
                 listed, dropped>>

\* start: the channel of a new runtime replaces the sender in the slot; a
\* receiver whose sender is gone hears that, and goes on.
SetTx(c) ==
  /\ pc[c] = "setTx"
  /\ started < MaxRuntimes
  /\ started' = started + 1
  /\ mine' = [mine EXCEPT ![c] = started']
  /\ shutdownTx' = started'
  /\ told' = IF shutdownTx = None THEN told
             ELSE [told EXCEPT ![shutdownTx] = "gone"]
  /\ dropped' = (dropped \/ (shutdownTx # None /\ phase[shutdownTx] # "ended"))
  /\ Goto(c, "spawn")
  /\ UNCHANGED <<again, handle, joiner, receiver, phase, prompts, task, connected,
                 listed, overlapped>>

\* The thread starts, loads the list and spawns a task for each server; without
\* a key or a socket it ends at once.
SpawnThread(c) ==
  /\ pc[c] = "spawn"
  /\ \/ /\ phase' = [phase EXCEPT ![mine[c]] = "running"]
        /\ task' = [task EXCEPT ![mine[c]] =
             [s \in Servers |-> IF s \in listed THEN "dialing" ELSE "none"]]
     \/ /\ phase' = [phase EXCEPT ![mine[c]] = "ended"]
        /\ UNCHANGED task
  /\ Goto(c, "setHandle")
  /\ UNCHANGED <<again, mine, started, shutdownTx, handle, joiner, receiver, told,
                 prompts, connected, listed, history>>

\* The handle of the new thread replaces the old one, which is detached.
SetHandle(c) ==
  /\ pc[c] = "setHandle"
  /\ joiner = None
  /\ handle' = mine[c]
  /\ mine' = [mine EXCEPT ![c] = None]
  /\ Goto(c, "idle")
  /\ UNCHANGED <<again, started, shutdownTx, joiner, receiver, runVars, connected,
                 listed, history>>

\* Faulty SendStop: the sender is dropped before anything was sent on it.
SendStopNothing(c) ==
  /\ pc[c] = "send"
  /\ told' = IF shutdownTx = None THEN told
             ELSE [told EXCEPT ![shutdownTx] = "gone"]
  /\ shutdownTx' = None
  /\ Goto(c, "take")
  /\ UNCHANGED <<again, mine, started, handle, joiner, receiver, phase, prompts,
                 task, connected, listed, history>>

\* stop: send true on the channel in the slot, if there is one.
SendStop(c) ==
  /\ pc[c] = "send"
  /\ told' = IF shutdownTx = None THEN told
             ELSE [told EXCEPT ![shutdownTx] = "stop"]
  /\ shutdownTx' = None
  /\ Goto(c, "take")
  /\ UNCHANGED <<again, mine, started, handle, joiner, receiver, phase, prompts,
                 task, connected, listed, history>>

\* The stop is over; a reconnect goes on to start.
StopDone(c) ==
  /\ Goto(c, IF again[c] THEN "setTx" ELSE "idle")
  /\ again' = [again EXCEPT ![c] = FALSE]

\* Take the handle; there is nothing to join, or join with the lock held.
TakeHandle(c) ==
  /\ pc[c] = "take"
  /\ joiner = None
  /\ IF handle = None
     THEN StopDone(c) /\ UNCHANGED <<mine, handle, joiner>>
     ELSE /\ Goto(c, "join")
          /\ mine' = [mine EXCEPT ![c] = handle]
          /\ handle' = None
          /\ joiner' = c
          /\ UNCHANGED again
  /\ UNCHANGED <<started, shutdownTx, receiver, runVars, connected, listed, history>>

Joined(c) ==
  /\ pc[c] = "join"
  /\ phase[mine[c]] = "ended"
  /\ StopDone(c)
  /\ mine' = [mine EXCEPT ![c] = None]
  /\ joiner' = None
  /\ UNCHANGED <<started, shutdownTx, handle, receiver, runVars, connected, listed,
                 history>>

\* enroll and forget_server, each on a small runtime of its own; Servers has
\* what happens when they overlap.
ChangeList ==
  /\ \E s \in Servers : listed' \in {listed \union {s}, listed \ {s}} \ {listed}
  /\ UNCHANGED <<callVars, receiver, runVars, connected, history>>

-----------------------------------------------------------------------------
(* A runtime.                                                               *)

\* Faulty Reload: tasks are only added.
ReloadAdding(r) ==
  /\ phase[r] = "running"
  /\ task' = [task EXCEPT ![r] = [s \in Servers |->
       IF s \in listed /\ @[s] = "none" THEN "dialing" ELSE @[s]]]
  /\ UNCHANGED <<callVars, receiver, phase, told, prompts, connected, listed, history>>

\* The tick: reload_servers.  connected stays what it was for a server whose
\* task is aborted.
Reload(r) ==
  /\ phase[r] = "running"
  /\ task' = [task EXCEPT ![r] = [s \in Servers |->
       IF s \notin listed THEN "none"
       ELSE IF @[s] = "none" THEN "dialing" ELSE @[s]]]
  /\ UNCHANGED <<callVars, receiver, phase, told, prompts, connected, listed, history>>

\* The loop ends: the tasks are aborted and the endpoint is closed.
Cleanup(r) ==
  /\ phase[r] = "running"
  /\ told[r] = "stop"
  /\ phase' = [phase EXCEPT ![r] = "closing"]
  /\ task' = [task EXCEPT ![r] = NoTask]
  /\ UNCHANGED <<callVars, receiver, told, prompts, connected, listed, history>>

\* The runtime is dropped, which waits for what blocks its threads.
ThreadEnds(r) ==
  /\ phase[r] = "closing"
  /\ prompts[r] = 0
  /\ phase' = [phase EXCEPT ![r] = "ended"]
  /\ UNCHANGED <<callVars, receiver, told, prompts, task, connected, listed, history>>

\* Greeted; set_connection_state(true).
Connect(r, s) ==
  /\ task[r][s] = "dialing"
  /\ task' = [task EXCEPT ![r][s] = "serving"]
  /\ connected' = [connected EXCEPT ![s] = TRUE]
  /\ UNCHANGED <<callVars, receiver, phase, told, prompts, listed, history>>

\* connect_to_server returns; set_connection_state(false), and sleep.
Disconnect(r, s) ==
  /\ task[r][s] \in {"dialing", "serving"}
  /\ task' = [task EXCEPT ![r][s] = "waiting"]
  /\ connected' = [connected EXCEPT ![s] = FALSE]
  /\ UNCHANGED <<callVars, receiver, phase, told, prompts, listed, history>>

Retry(r, s) ==
  /\ task[r][s] = "waiting"
  /\ task' = [task EXCEPT ![r][s] = "dialing"]
  /\ UNCHANGED <<callVars, receiver, phase, told, prompts, connected, listed, history>>

\* A Confirm arrives on a connection and blocks its thread.
PromptOpens(r) ==
  /\ \E s \in Servers : task[r][s] = "serving"
  /\ prompts[r] < MaxPrompts
  /\ prompts' = [prompts EXCEPT ![r] = @ + 1]
  /\ UNCHANGED <<callVars, receiver, phase, told, task, connected, listed, history>>

\* Faulty PromptTimesOut: the wait for a button has no limit.
PromptWaits(r) ==
  /\ prompts[r] > 0 /\ receiver
  /\ prompts' = [prompts EXCEPT ![r] = @ - 1]
  /\ UNCHANGED <<callVars, receiver, phase, told, task, connected, listed, history>>

PromptTimesOut(r) ==
  /\ prompts[r] > 0
  /\ prompts' = [prompts EXCEPT ![r] = @ - 1]
  /\ UNCHANGED <<callVars, receiver, phase, told, task, connected, listed, history>>

-----------------------------------------------------------------------------
CallStep(c) ==
  \/ SetTx(c)
  \/ SpawnThread(c)
  \/ SetHandle(c)
  \/ SendStop(c)
  \/ TakeHandle(c)
  \/ Joined(c)

Next ==
  \/ \E c \in Callers :
       \/ \E step \in Steps, reconnect \in BOOLEAN : Call(c, step, reconnect)
       \/ Destroy(c)
       \/ CallStep(c)
  \/ ChangeList
  \/ \E r \in Runtimes :
       \/ Reload(r)
       \/ Cleanup(r)
       \/ ThreadEnds(r)
       \/ PromptOpens(r)
       \/ PromptTimesOut(r)
       \/ \E s \in Servers : Connect(r, s) \/ Disconnect(r, s) \/ Retry(r, s)

Spec == Init /\ [][Next]_vars

\* Threads run, the loop's select hears its channel and its interval, and a
\* prompt ends after fifteen minutes at the latest (ConfirmManager.kt:30).
Fairness ==
  /\ \A c \in Callers : WF_vars(CallStep(c))
  /\ \A r \in Runtimes :
       /\ WF_vars(Reload(r)) /\ WF_vars(Cleanup(r)) /\ WF_vars(ThreadEnds(r))
       /\ SF_vars(PromptTimesOut(r))

FairSpec == Spec /\ Fairness

-----------------------------------------------------------------------------
TypeOK ==
  /\ pc \in [Callers -> Steps] /\ again \in [Callers -> BOOLEAN]
  /\ mine \in [Callers -> Runtimes \union {None}]
  /\ started \in 0..MaxRuntimes
  /\ shutdownTx \in Runtimes \union {None} /\ handle \in Runtimes \union {None}
  /\ joiner \in Callers \union {None}
  /\ receiver \in BOOLEAN
  /\ phase \in [Runtimes -> {"none", "running", "closing", "ended"}]
  /\ told \in [Runtimes -> {"nothing", "stop", "gone"}]
  /\ prompts \in [Runtimes -> 0..MaxPrompts]
  /\ task \in [Runtimes -> [Servers -> {"none", "dialing", "serving", "waiting"}]]
  /\ \A r \in Runtimes : phase[r] # "running" => task[r] = NoTask
  /\ connected \in [Servers -> BOOLEAN]
  /\ listed \in SUBSET Servers
  /\ dropped \in BOOLEAN /\ overlapped \in BOOLEAN

\* However calls overlap, a runtime that runs has been told to stop or stop can
\* still tell it, unless start replaced the sender of one nobody had stopped.
RunningIsStoppable ==
  ~dropped => \A r \in Runtimes :
    phase[r] = "running" => told[r] = "stop" \/ shutdownTx = r

\* A stop that overlaps no other call returns, whatever prompts are on the
\* screen and whoever can still answer them: also onDestroy's, which has
\* unregistered the receiver of the answers (SubportalService.kt:78, :83).
StopReturns ==
  []~overlapped => \A c \in Callers : pc[c] = "join" ~> pc[c] # "join"

\* A runtime that goes on follows the list once that rests, within a tick.
ListFollowed ==
  \A r \in Runtimes, s \in Servers :
    /\ <>[](phase[r] = "running" /\ s \in listed) => <>[](task[r][s] # "none")
    /\ <>[](phase[r] = "running" /\ s \notin listed) => <>[](task[r][s] = "none")

-----------------------------------------------------------------------------
(* What the documentation says, and the code does not do.                   *)

\* "Stop the connection loop and shut down the tokio runtime." (lib.rs:204): no
\* runtime runs when a stop has returned that overlapped no other call.
StopStops ==
  [][\A c \in Callers :
       ~overlapped /\ pc[c] = "join" /\ pc'[c] = "idle" =>
         \A r \in Runtimes : phase'[r] \in {"none", "ended"}]_vars
=============================================================================
