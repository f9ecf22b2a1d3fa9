------------------------------ MODULE Servers -------------------------------
(***************************************************************************)
(* The device side of the connections on a desktop.  servers.json lists    *)
(* the enrolled servers (ServerRegistry, peers.rs).  The enroll and forget *)
(* commands are processes of their own: each loads the list, changes its   *)
(* copy, rewrites the file in place and sends SIGHUP to the process the    *)
(* pidfile names.  The daemon (run, main.rs) keeps one reconnecting task   *)
(* per server and on SIGHUP loads the file again.  There is no lock: two   *)
(* commands may overlap each other and the daemon's start or reload.       *)
(*                                                                         *)
(* A command runs once.  One that dies, or whose write fails, takes no     *)
(* more steps, which nothing here obliges it to take.                      *)
(***************************************************************************)
EXTENDS Naturals, FiniteSets

CONSTANTS Servers,   \* endpoint ids of agents
          Names,     \* hostnames
          Name,      \* the hostname each server is listed under
          Commands,  \* enroll and forget processes
          Slots,     \* room for the tasks of one server, the live one and
                     \* those that left a connection behind
          None       \* no task

ASSUME NameAssumption == Name \in [Servers -> Names]
ASSUME NoneAssumption == None \notin Slots

VARIABLES file,      \* the list in servers.json when it was last complete
          torn,      \* the file does not parse: truncated, or mixed up
          stage,     \* per command, how far it is
          job,       \* per command, what it was asked to do
          copy,      \* per command, the list it loaded and changed
          daemon,    \* how far the daemon's run is
          pidfile,   \* the pidfile is there
          sighup,    \* a SIGHUP is pending
          active,    \* the daemon's map from server to task
          task,      \* what each task is doing
          crossed,   \* history: a command loaded between another's load and save
          enrolled   \* history: servers enrolled and not forgotten since

commandVars == <<stage, job, copy>>
daemonVars == <<daemon, pidfile, sighup>>
taskVars == <<active, task>>
history == <<crossed, enrolled>>
vars == <<file, torn, commandVars, daemonVars, taskVars, history>>

NoJob == [op |-> "none", arg |-> None]
EnrollJobs == [op : {"enroll"}, arg : Servers]
ForgetJobs == [op : {"forget"}, arg : Servers \union Names]

Stages == {"begun", "accepted", "loaded", "writing", "overwriting", "saved", "done"}

Live == {"dialing", "serving", "waiting"}

NoTasks == [s \in Servers |-> [i \in Slots |-> "free"]]

Init ==
  /\ file \in SUBSET Servers /\ torn = FALSE
  /\ stage = [c \in Commands |-> "begun"]
  /\ job = [c \in Commands |-> NoJob]
  /\ copy = [c \in Commands |-> {}]
  /\ daemon = "down" /\ pidfile = FALSE /\ sighup = FALSE
  /\ active = [s \in Servers |-> None]
  /\ task = NoTasks
  /\ crossed = FALSE
  /\ enrolled = file

-----------------------------------------------------------------------------
(* The commands.                                                            *)

\* What forget's argument, an endpoint id or a name, stands for.
Meant(arg) == {s \in Servers : s = arg \/ Name[s] = arg}

\* Faulty Changed: a new entry replaces those of the same name.
ChangedByName(j, list) ==
  IF j.op = "enroll" THEN (list \ Meant(Name[j.arg])) \union {j.arg}
                     ELSE list \ Meant(j.arg)

\* add and remove, before they save.
Changed(j, list) ==
  IF j.op = "enroll" THEN list \union {j.arg} ELSE list \ Meant(j.arg)

\* What the user is told when the command ends.
Promised(j, set) ==
  IF j.op = "enroll" THEN set \union {j.arg} ELSE set \ Meant(j.arg)

\* enroll: the agent has answered the hello with enrolled = true.
Accepted(c, s) ==
  /\ stage[c] = "begun"
  /\ stage' = [stage EXCEPT ![c] = "accepted"]
  /\ job' = [job EXCEPT ![c] = [op |-> "enroll", arg |-> s]]
  /\ UNCHANGED <<file, torn, copy, daemonVars, taskVars, history>>

\* Load the list and change it.  An enrolment does so once it was accepted; a
\* forget starts with it, and goes on if there is something to remove.
LoadList(c, j) ==
  /\ \/ stage[c] = "accepted" /\ j = job[c]
     \/ stage[c] = "begun" /\ j \in ForgetJobs /\ file \intersect Meant(j.arg) # {}
  /\ ~torn
  /\ stage' = [stage EXCEPT ![c] = "loaded"]
  /\ job' = [job EXCEPT ![c] = j]
  /\ copy' = [copy EXCEPT ![c] = Changed(j, file)]
  /\ crossed' = (crossed \/ \E d \in Commands :
                     stage[d] \in {"loaded", "writing", "overwriting"})
  /\ UNCHANGED <<file, torn, daemonVars, taskVars, enrolled>>

\* The list does not parse: enroll gives up, after the agent has accepted.
LoadFails(c) ==
  /\ stage[c] = "accepted"
  /\ torn
  /\ stage' = [stage EXCEPT ![c] = "done"]
  /\ job' = [job EXCEPT ![c] = NoJob]
  /\ UNCHANGED <<file, torn, copy, daemonVars, taskVars, history>>

\* save opens the file, which empties it ...
Truncate(c) ==
  /\ stage[c] = "loaded"
  /\ stage' = [stage EXCEPT ![c] = "writing"]
  /\ torn' = TRUE
  /\ UNCHANGED <<file, job, copy, daemonVars, taskVars, history>>

\* ... and writes it.  A second writer that had emptied the file before then
\* writes over this list, and leaves the tail of a longer one.
Write(c) ==
  /\ stage[c] \in {"writing", "overwriting"}
  /\ file' = copy[c]
  /\ torn' \in IF stage[c] = "writing" THEN {FALSE} ELSE BOOLEAN
  /\ stage' = [d \in Commands |->
                 IF d = c THEN "saved"
                 ELSE IF stage[d] = "writing" THEN "overwriting" ELSE stage[d]]
  /\ copy' = [copy EXCEPT ![c] = {}]
  /\ job' = [job EXCEPT ![c] = NoJob]
  /\ enrolled' = Promised(job[c], enrolled)
  /\ UNCHANGED <<daemonVars, taskVars, crossed>>

\* Faulty Deliver: the daemon ignores signals until its handler is set up.
DeliverToHandler ==
  /\ sighup' = (daemon \in {"serving", "reloading"})
  /\ UNCHANGED <<daemon, taskVars>>

\* Where the process with the pid is not the running daemon, kill fails.  The
\* signal is pending once however often it is sent; before its handler is set
\* up it kills the daemon, and the connections go with it.
Deliver ==
  /\ sighup' = (daemon \in {"serving", "reloading"})
  /\ IF daemon \in {"announced", "spawned"}
     THEN /\ daemon' = "down"
          /\ active' = [s \in Servers |-> None]
          /\ task' = NoTasks
     ELSE UNCHANGED <<daemon, taskVars>>

\* signal_daemon_reload, and the end of forget.
Signal(c) ==
  /\ stage[c] = "saved"
  /\ stage' = [stage EXCEPT ![c] = "done"]
  /\ IF pidfile THEN Deliver ELSE UNCHANGED <<daemon, sighup, taskVars>>
  /\ UNCHANGED <<file, torn, job, copy, pidfile, history>>

-----------------------------------------------------------------------------
(* The daemon.                                                              *)

Announce ==
  /\ daemon = "down"
  /\ daemon' = "announced"
  /\ pidfile' = TRUE
  /\ sighup' = FALSE
  /\ UNCHANGED <<file, torn, commandVars, taskVars, history>>

\* What abort leaves: it takes a dial or a sleep away, but a connection that
\* was served stays open, since the tasks that read control messages and send
\* focus updates hold its streams.
AfterAbort(state) == IF state = "serving" THEN "orphan" ELSE "free"

Unused(s) == CHOOSE i \in Slots : task[s][i] = "free"

\* Abort the tasks of the servers in old, and spawn one for each in new.
Rearrange(old, new) ==
  /\ \A s \in new : \E i \in Slots : task[s][i] = "free"
  /\ active' = [s \in Servers |->
       IF s \in new THEN Unused(s) ELSE IF s \in old THEN None ELSE active[s]]
  /\ task' = [s \in Servers |->
       IF s \in new THEN [task[s] EXCEPT ![Unused(s)] = "dialing"]
       ELSE IF s \in old THEN [task[s] EXCEPT ![active[s]] = AfterAbort(@)]
       ELSE task[s]]

\* The first load; a list that does not parse ends the daemon, and its pidfile
\* stays.
InitialLoad ==
  /\ daemon = "announced"
  /\ IF torn
     THEN daemon' = "down" /\ UNCHANGED taskVars
     ELSE daemon' = "spawned" /\ Rearrange({}, file)
  /\ UNCHANGED <<file, torn, commandVars, pidfile, sighup, history>>

HandleSignals ==
  /\ daemon = "spawned"
  /\ daemon' = "serving"
  /\ UNCHANGED <<file, torn, commandVars, pidfile, sighup, taskVars, history>>

TakeSignal ==
  /\ daemon = "serving"
  /\ sighup
  /\ sighup' = FALSE
  /\ daemon' = "reloading"
  /\ UNCHANGED <<file, torn, commandVars, pidfile, taskVars, history>>

Handled == {s \in Servers : active[s] # None}

\* Faulty Reload: a task is spawned for every server of the list.
ReloadEverything ==
  /\ daemon = "reloading"
  /\ daemon' = "serving"
  /\ IF torn THEN UNCHANGED taskVars ELSE Rearrange(Handled \ file, file)
  /\ UNCHANGED <<file, torn, commandVars, pidfile, sighup, history>>

\* reload_servers: nothing changes if the list does not parse.
Reload ==
  /\ daemon = "reloading"
  /\ daemon' = "serving"
  /\ IF torn THEN UNCHANGED taskVars ELSE Rearrange(Handled \ file, file \ Handled)
  /\ UNCHANGED <<file, torn, commandVars, pidfile, sighup, history>>

\* The end of the process closes every connection.  Ctrl-C in the loop removes
\* the pidfile; a crash or another signal leaves it.
End(pidfileLeft) ==
  /\ daemon # "down"
  /\ ~pidfileLeft => daemon = "serving"
  /\ daemon' = "down"
  /\ pidfile' = pidfileLeft
  /\ sighup' = FALSE
  /\ active' = [s \in Servers |-> None]
  /\ task' = NoTasks
  /\ UNCHANGED <<file, torn, commandVars, history>>

-----------------------------------------------------------------------------
(* One task: connect_to_server, again and again.                            *)

Turn(s, i, from, to) ==
  /\ task[s][i] = from
  /\ task' = [task EXCEPT ![s][i] = to]
  /\ UNCHANGED <<file, torn, commandVars, daemonVars, active, history>>

\* Connected, greeted and told that we are enrolled.
Connect(s, i) == Turn(s, i, "dialing", "serving")

\* Faulty ConnectFails: the task ends when it cannot connect.
ConnectFailsForGood(s, i) == Turn(s, i, "dialing", "free")

\* Unreachable, refused, or lost on the way: sleep five seconds.
ConnectFails(s, i) == Turn(s, i, "dialing", "waiting")

\* The connection ends, and the task sleeps; one whose task was aborted goes.
Disconnect(s, i) ==
  \/ Turn(s, i, "serving", "waiting")
  \/ Turn(s, i, "orphan", "free")

Retry(s, i) == Turn(s, i, "waiting", "dialing")

-----------------------------------------------------------------------------
Next ==
  \/ \E c \in Commands :
       \/ \E s \in Servers : Accepted(c, s)
       \/ \E j \in EnrollJobs \union ForgetJobs : LoadList(c, j)
       \/ LoadFails(c)
       \/ Truncate(c)
       \/ Write(c)
       \/ Signal(c)
  \/ Announce
  \/ InitialLoad
  \/ HandleSignals
  \/ TakeSignal
  \/ Reload
  \/ \E left \in BOOLEAN : End(left)
  \/ \E s \in Servers, i \in Slots :
       \/ Connect(s, i)
       \/ ConnectFails(s, i)
       \/ Disconnect(s, i)
       \/ Retry(s, i)

Spec == Init /\ [][Next]_vars

\* The daemon's loop and its tasks run, and a dial ends one way or the other.
\* Nothing obliges a command, an agent or a network to do anything.
Fairness ==
  /\ WF_vars(TakeSignal) /\ WF_vars(Reload)
  /\ \A s \in Servers, i \in Slots :
       WF_vars(Connect(s, i) \/ ConnectFails(s, i)) /\ WF_vars(Retry(s, i))

FairSpec == Spec /\ Fairness

-----------------------------------------------------------------------------
TypeOK ==
  /\ file \in SUBSET Servers /\ torn \in BOOLEAN
  /\ stage \in [Commands -> Stages]
  /\ job \in [Commands -> EnrollJobs \union ForgetJobs \union {NoJob}]
  /\ copy \in [Commands -> SUBSET Servers]
  /\ daemon \in {"down", "announced", "spawned", "serving", "reloading"}
  /\ pidfile \in BOOLEAN
  /\ daemon # "down" => pidfile
  /\ sighup \in BOOLEAN
  /\ sighup => daemon \in {"serving", "reloading"}
  /\ active \in [Servers -> Slots \union {None}]
  /\ task \in [Servers -> [Slots -> Live \union {"free", "orphan"}]]
  /\ crossed \in BOOLEAN
  /\ enrolled \in SUBSET Servers

\* Whatever reloads, signals and restarts happen, the map has exactly the tasks
\* that dial, serve or sleep: none runs on that the daemon no longer knows, and
\* no server has two (main.rs:149-150, :210-230).
TasksAreKnown ==
  \A s \in Servers, i \in Slots : task[s][i] \in Live <=> active[s] = i

\* A daemon with no signal to handle has a task for exactly the listed servers,
\* unless a command is between the start of its write and its signal: the
\* pidfile is there before the first load, signals that coalesce are handled by
\* a load that follows them, and one that comes too early ends the daemon.
NoChangeMissed ==
  daemon \in {"spawned", "serving"} /\ ~sighup /\ ~torn
  /\ (\A c \in Commands : stage[c] \notin {"writing", "overwriting", "saved"})
    => \A s \in Servers : (s \in file) <=> (active[s] # None)

\* The list has every server whose enrolment ended well and that was not
\* forgotten since, unless two commands have worked at the same time.
EnrolledListed == ~crossed => enrolled \subseteq file

\* A daemon that stays up goes on trying to reach, or reaches, each server that
\* stays listed when no command is at work on the list (main.rs:100-119).
ListedIsDialled ==
  \A s \in Servers :
    <>[](daemon = "serving" /\ s \in file /\ ~torn
         /\ \A c \in Commands : stage[c] \in {"begun", "accepted", "done"})
      => []<>(\E i \in Slots : task[s][i] \in {"dialing", "serving"})

-----------------------------------------------------------------------------
(* What the documentation says, and the code does not do.                   *)

\* "Connects to all enrolled agents on startup and reconnects automatically"
\* (docs/SPEC.md:170): a server whose enrolment ended well and that was not
\* forgotten since is in the list that the daemon loads.
EnrolledStaysListed == enrolled \subseteq file

\* "Signal running daemon to drop the connection" (main.rs:381, of forget):
\* once the signal is handled there is no connection to the server left.
ForgottenIsDropped ==
  daemon = "serving" /\ ~sighup /\ (\A c \in Commands : stage[c] = "done")
    => \A s \in Servers \ file, i \in Slots : task[s][i] # "orphan"
=============================================================================
