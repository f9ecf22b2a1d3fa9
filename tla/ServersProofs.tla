---------------------------- MODULE ServersProofs ----------------------------
(***************************************************************************)
(* Invariants of the device side of the connections, for any number of     *)
(* servers, names, commands and tasks.                                     *)
(***************************************************************************)
EXTENDS Servers, TLAPS

\* A daemon that has not loaded its list yet has no tasks.
NothingSpawned ==
  daemon \in {"down", "announced"} =>
    active = [s \in Servers |-> None] /\ task = NoTasks

\* As long as no two commands cross, one works on the list at a time, and what
\* it will write is the file with its change.
AtWork == {c \in Commands : stage[c] \in {"loaded", "writing", "overwriting"}}

CopyIsFresh ==
  ~crossed =>
    /\ \A c, d \in AtWork : c = d
    /\ \A c \in AtWork : /\ job[c] \in EnrollJobs \union ForgetJobs
                         /\ copy[c] = Changed(job[c], file)

IInv ==
  /\ TypeOK
  /\ NothingSpawned
  /\ TasksAreKnown
  /\ NoChangeMissed
  /\ CopyIsFresh
  /\ EnrolledListed

-----------------------------------------------------------------------------
\* At first the daemon is down and no command is at work.
LEMMA InitIInv == Init => IInv
<1> SUFFICES ASSUME Init PROVE IInv
    OBVIOUS
<1>1. TypeOK
    BY DEF Init, TypeOK, NoTasks, Stages
<1>2. NothingSpawned /\ NoChangeMissed /\ EnrolledListed
    BY DEF Init, NothingSpawned, NoChangeMissed, EnrolledListed
<1>3. TasksAreKnown
    BY NoneAssumption DEF Init, TasksAreKnown, NoTasks, Live
<1>4. CopyIsFresh
    BY DEF Init, CopyIsFresh, AtWork
<1>5. QED
    BY <1>1, <1>2, <1>3, <1>4 DEF IInv

\* Rearrange gives each new server an idle slot and takes each old one off.
LEMMA RearrangeFits ==
  ASSUME NEW old \in SUBSET Servers, NEW new \in SUBSET Servers,
         old \intersect new = {}, old \subseteq Handled,
         new \intersect Handled = {},
         TypeOK, TasksAreKnown, Rearrange(old, new)
  PROVE  /\ active' \in [Servers -> Slots \union {None}]
         /\ task' \in [Servers -> [Slots -> Live \union {"free", "orphan"}]]
         /\ \A s \in Servers, i \in Slots : task'[s][i] \in Live <=> active'[s] = i
         /\ \A s \in Servers : active'[s] # None <=> s \in (Handled \ old) \union new
<1> USE NoneAssumption DEF TypeOK
<1>1. \A s \in new : Unused(s) \in Slots /\ task[s][Unused(s)] = "free"
    BY DEF Rearrange, Unused
<1>2. \A s \in old : active[s] \in Slots
    BY DEF Handled
<1>3. active' \in [Servers -> Slots \union {None}]
    BY <1>1 DEF Rearrange
<1>4. task' \in [Servers -> [Slots -> Live \union {"free", "orphan"}]]
  <2>1. ASSUME NEW s \in new
        PROVE  [task[s] EXCEPT ![Unused(s)] = "dialing"]
                 \in [Slots -> Live \union {"free", "orphan"}]
      BY <1>1 DEF Live
  <2>2. ASSUME NEW s \in old
        PROVE  [task[s] EXCEPT ![active[s]] = AfterAbort(@)]
                 \in [Slots -> Live \union {"free", "orphan"}]
      BY <1>2 DEF Live, AfterAbort
  <2>3. QED
      BY <2>1, <2>2 DEF Rearrange
<1>5. ASSUME NEW s \in Servers, NEW i \in Slots
      PROVE  task'[s][i] \in Live <=> active'[s] = i
  <2>1. CASE s \in new
      BY <1>1, <2>1 DEF Rearrange, Live, TasksAreKnown, Handled
  <2>2. CASE s \in old
      BY <1>2, <2>2 DEF Rearrange, Live, TasksAreKnown, AfterAbort
  <2>3. CASE s \notin old \union new
      BY <2>3 DEF Rearrange, TasksAreKnown
  <2>4. QED
      BY <2>1, <2>2, <2>3
<1>6. ASSUME NEW s \in Servers
      PROVE  active'[s] # None <=> s \in (Handled \ old) \union new
    BY <1>1 DEF Rearrange, Handled
<1>7. QED
    BY <1>3, <1>4, <1>5, <1>6

\* The first load is a rearrangement from nothing, a reload one from the map.
LEMMA LoadFits ==
  ASSUME TypeOK, NothingSpawned, TasksAreKnown, ~torn,
         \/ daemon = "announced" /\ Rearrange({}, file)
         \/ Rearrange(Handled \ file, file \ Handled)
  PROVE  /\ active' \in [Servers -> Slots \union {None}]
         /\ task' \in [Servers -> [Slots -> Live \union {"free", "orphan"}]]
         /\ \A s \in Servers, i \in Slots : task'[s][i] \in Live <=> active'[s] = i
         /\ \A s \in Servers : active'[s] # None <=> s \in file
<1>0. file \subseteq Servers /\ Handled \subseteq Servers
    BY DEF TypeOK, Handled
<1>1. CASE daemon = "announced" /\ Rearrange({}, file)
  <2>1. Handled = {}
      BY <1>1 DEF NothingSpawned, Handled
  <2>2. QED
      BY <1>0, <1>1, <2>1, RearrangeFits
<1>2. CASE Rearrange(Handled \ file, file \ Handled)
  <2>1. /\ Handled \ file \in SUBSET Servers /\ file \ Handled \in SUBSET Servers
        /\ (Handled \ file) \intersect (file \ Handled) = {}
        /\ Handled \ file \subseteq Handled
        /\ (file \ Handled) \intersect Handled = {}
      BY <1>0
  <2>2. \A s \in Servers :
          s \in (Handled \ (Handled \ file)) \union (file \ Handled) <=> s \in file
      BY <1>0
  <2>3. /\ active' \in [Servers -> Slots \union {None}]
        /\ task' \in [Servers -> [Slots -> Live \union {"free", "orphan"}]]
        /\ \A s \in Servers, i \in Slots : task'[s][i] \in Live <=> active'[s] = i
        /\ \A s \in Servers :
             active'[s] # None <=> s \in (Handled \ (Handled \ file)) \union (file \ Handled)
    <3> DEFINE old == Handled \ file
               new == file \ Handled
    <3>1. /\ old \in SUBSET Servers /\ new \in SUBSET Servers
          /\ old \intersect new = {} /\ old \subseteq Handled
          /\ new \intersect Handled = {} /\ Rearrange(old, new)
        BY <1>2, <2>1
    <3> HIDE DEF old, new
    <3>2. /\ active' \in [Servers -> Slots \union {None}]
          /\ task' \in [Servers -> [Slots -> Live \union {"free", "orphan"}]]
          /\ \A s \in Servers, i \in Slots : task'[s][i] \in Live <=> active'[s] = i
          /\ \A s \in Servers : active'[s] # None <=> s \in (Handled \ old) \union new
        BY <3>1, RearrangeFits, Zenon
    <3>3. QED
        BY <3>2 DEF old, new
  <2>4. QED
      BY <2>2, <2>3
<1>3. QED
    BY <1>1, <1>2

\* What Deliver does to the daemon and its tasks.
LEMMA DeliverFits ==
  ASSUME TypeOK, TasksAreKnown, NothingSpawned, Deliver
  PROVE  /\ daemon' \in {"down", "announced", "spawned", "serving", "reloading"}
         /\ sighup' \in BOOLEAN
         /\ sighup' => daemon' \in {"serving", "reloading"}
         /\ daemon' # "down" => daemon # "down"
         /\ active' \in [Servers -> Slots \union {None}]
         /\ task' \in [Servers -> [Slots -> Live \union {"free", "orphan"}]]
         /\ \A s \in Servers, i \in Slots : task'[s][i] \in Live <=> active'[s] = i
         /\ NothingSpawned'
         /\ daemon' \in {"down", "serving", "reloading"}
         /\ daemon' = "serving" => sighup'
<1> USE NoneAssumption DEF TypeOK
<1>1. sighup' \in BOOLEAN /\ (sighup' <=> daemon \in {"serving", "reloading"})
  <2>1. sighup' = (daemon \in {"serving", "reloading"})
      BY DEF Deliver
  <2>2. CASE daemon \in {"serving", "reloading"}
      BY <2>1, <2>2, Zenon
  <2>3. CASE daemon \notin {"serving", "reloading"}
    <3>1. (daemon \in {"serving", "reloading"}) = FALSE
        BY <2>3
    <3>2. sighup' = FALSE
        BY <2>1, <3>1
    <3>3. QED
        BY <2>3, <3>2
  <2>4. QED
      BY <2>2, <2>3
<1>2. CASE daemon \in {"announced", "spawned"}
  <2>1. /\ daemon' = "down"
        /\ active' = [s \in Servers |-> None] /\ task' = NoTasks
      BY <1>2 DEF Deliver
  <2>2. NothingSpawned' /\ ~sighup'
      BY <1>1, <1>2, <2>1 DEF NothingSpawned, NoTasks
  <2>3. \A s \in Servers, i \in Slots : task'[s][i] \in Live <=> active'[s] = i
      BY <2>1 DEF NoTasks, Live
  <2>4. QED
      BY <1>1, <1>2, <2>1, <2>2, <2>3 DEF NoTasks
<1>3. CASE daemon \notin {"announced", "spawned"}
  <2>1. UNCHANGED <<daemon, active, task>>
      BY <1>3 DEF Deliver, taskVars
  <2>2. QED
      BY <1>1, <1>3, <2>1 DEF TasksAreKnown, NothingSpawned
<1>4. QED
    BY <1>2, <1>3

\* Every step of commands, daemon and tasks keeps the types.
LEMMA TypeStep ==
  TypeOK /\ NothingSpawned /\ TasksAreKnown /\ CopyIsFresh /\ [Next]_vars => TypeOK'
<1> SUFFICES ASSUME TypeOK, NothingSpawned, TasksAreKnown, CopyIsFresh, [Next]_vars
             PROVE  TypeOK'
    OBVIOUS
<1> USE NoneAssumption DEF TypeOK, Stages, commandVars, daemonVars, taskVars, history
<1>1. ASSUME NEW c \in Commands, NEW s \in Servers, Accepted(c, s)
      PROVE  TypeOK'
    BY <1>1 DEF Accepted, EnrollJobs
<1>2. ASSUME NEW c \in Commands, NEW j \in EnrollJobs \union ForgetJobs, LoadList(c, j)
      PROVE  TypeOK'
  <2>1. Changed(j, file) \in SUBSET Servers
      BY DEF Changed, EnrollJobs, ForgetJobs
  <2>2. crossed' \in BOOLEAN
      BY <1>2 DEF LoadList
  <2>3. QED
      BY <1>2, <2>1, <2>2 DEF LoadList
<1>3. ASSUME NEW c \in Commands, LoadFails(c) \/ Truncate(c)
      PROVE  TypeOK'
  <2>1. CASE LoadFails(c)
      BY <2>1 DEF LoadFails
  <2>2. CASE Truncate(c)
      BY <2>2 DEF Truncate
  <2>3. QED
      BY <1>3, <2>1, <2>2
<1>4. ASSUME NEW c \in Commands, Write(c)
      PROVE  TypeOK'
  <2>1. enrolled' \in SUBSET Servers
    <3>1. enrolled' = Promised(job[c], enrolled)
        BY <1>4 DEF Write
    <3>2. job[c].op = "enroll" => job[c].arg \in Servers
        BY DEF EnrollJobs, ForgetJobs, NoJob
    <3>3. QED
        BY <3>1, <3>2 DEF Promised
  <2>2. stage' \in [Commands -> Stages] /\ torn' \in BOOLEAN
      BY <1>4 DEF Write
  <2>3. QED
      BY <1>4, <2>1, <2>2 DEF Write
<1>5. ASSUME NEW c \in Commands, Signal(c)
      PROVE  TypeOK'
  <2>1. CASE pidfile
      BY <1>5, <2>1, DeliverFits DEF Signal
  <2>2. CASE ~pidfile
      BY <1>5, <2>2 DEF Signal
  <2>3. QED
      BY <2>1, <2>2
<1>6. CASE Announce \/ HandleSignals \/ TakeSignal
    BY <1>6 DEF Announce, HandleSignals, TakeSignal
<1>7. CASE InitialLoad
  <2>1. CASE torn
      BY <1>7, <2>1 DEF InitialLoad
  <2>2. CASE ~torn
      BY <1>7, <2>2, LoadFits DEF InitialLoad
  <2>3. QED
      BY <2>1, <2>2
<1>8. CASE Reload
  <2>1. CASE torn
      BY <1>8, <2>1 DEF Reload
  <2>2. CASE ~torn
      BY <1>8, <2>2, LoadFits DEF Reload
  <2>3. QED
      BY <2>1, <2>2
<1>9. ASSUME NEW left \in BOOLEAN, End(left)
      PROVE  TypeOK'
    BY <1>9 DEF End, NoTasks
<1>10. ASSUME NEW s \in Servers, NEW i \in Slots, NEW from, NEW to \in Live \union {"free"},
              Turn(s, i, from, to)
       PROVE  TypeOK'
    BY <1>10 DEF Turn
<1>11. CASE UNCHANGED vars
    BY <1>11 DEF vars
<1>12. QED
    BY <1>1, <1>2, <1>3, <1>4, <1>5, <1>6, <1>7, <1>8, <1>9, <1>10, <1>11
    DEF Next, Connect, ConnectFails, Disconnect, Retry, Live

\* The tasks and the map change together, in every step.
LEMMA TasksStep ==
  TypeOK /\ NothingSpawned /\ TasksAreKnown /\ [Next]_vars
    => NothingSpawned' /\ TasksAreKnown'
<1> SUFFICES ASSUME TypeOK, NothingSpawned, TasksAreKnown, [Next]_vars
             PROVE  NothingSpawned' /\ TasksAreKnown'
    OBVIOUS
<1> USE NoneAssumption DEF TypeOK, commandVars, daemonVars, taskVars, history
<1> DEFINE Kept == NothingSpawned' /\ TasksAreKnown'
<1>1. ASSUME UNCHANGED <<daemon, active, task>>
      PROVE  Kept
    BY <1>1 DEF NothingSpawned, TasksAreKnown
<1>2. ASSUME NEW c \in Commands, Signal(c)
      PROVE  Kept
  <2>1. CASE pidfile
      BY <1>2, <2>1, DeliverFits DEF Signal, TasksAreKnown
  <2>2. CASE ~pidfile
      BY <1>2, <2>2, <1>1 DEF Signal
  <2>3. QED
      BY <2>1, <2>2
<1>3. CASE Announce \/ HandleSignals \/ TakeSignal
    BY <1>3 DEF Announce, HandleSignals, TakeSignal, NothingSpawned, TasksAreKnown
<1>4. CASE InitialLoad
  <2>1. CASE torn
      BY <1>4, <2>1 DEF InitialLoad, NothingSpawned, TasksAreKnown
  <2>2. CASE ~torn
      BY <1>4, <2>2, LoadFits DEF InitialLoad, NothingSpawned, TasksAreKnown
  <2>3. QED
      BY <2>1, <2>2
<1>5. CASE Reload
  <2>1. CASE torn
      BY <1>5, <2>1 DEF Reload, NothingSpawned, TasksAreKnown
  <2>2. CASE ~torn
      BY <1>5, <2>2, LoadFits DEF Reload, NothingSpawned, TasksAreKnown
  <2>3. QED
      BY <2>1, <2>2
<1>6. ASSUME NEW left \in BOOLEAN, End(left)
      PROVE  Kept
    BY <1>6 DEF End, NoTasks, NothingSpawned, TasksAreKnown, Live
<1>7. ASSUME NEW s \in Servers, NEW i \in Slots, NEW from, NEW to,
             Turn(s, i, from, to), from # "free", from \in Live <=> to \in Live
      PROVE  Kept
  <2>1. TasksAreKnown'
      BY <1>7 DEF Turn, TasksAreKnown
  <2>2. daemon \notin {"down", "announced"}
      BY <1>7 DEF Turn, NothingSpawned, NoTasks
  <2>3. QED
      BY <1>7, <2>1, <2>2 DEF Turn, NothingSpawned, NoTasks
<1>8. QED
    BY <1>1, <1>2, <1>3, <1>4, <1>5, <1>6, <1>7
    DEF Next, Accepted, LoadList, LoadFails, Truncate, Write, vars,
        Connect, ConnectFails, Disconnect, Retry, Live

\* The map falls behind the file only while a command or a signal is under way.
LEMMA ChangeStep ==
  TypeOK /\ NothingSpawned /\ TasksAreKnown /\ NoChangeMissed /\ [Next]_vars
    => NoChangeMissed'
<1> SUFFICES ASSUME TypeOK, NothingSpawned, TasksAreKnown, NoChangeMissed, [Next]_vars
             PROVE  NoChangeMissed'
    OBVIOUS
<1> USE DEF TypeOK, commandVars, daemonVars, taskVars, history
<1>1. ASSUME NEW c \in Commands, NEW s \in Servers, Accepted(c, s)
      PROVE  NoChangeMissed'
    BY <1>1 DEF Accepted, NoChangeMissed
<1>2. ASSUME NEW c \in Commands, NEW j \in EnrollJobs \union ForgetJobs, LoadList(c, j)
      PROVE  NoChangeMissed'
    BY <1>2 DEF LoadList, NoChangeMissed
<1>3. ASSUME NEW c \in Commands, LoadFails(c)
      PROVE  NoChangeMissed'
    BY <1>3 DEF LoadFails, NoChangeMissed
<1>4. ASSUME NEW c \in Commands, Truncate(c) \/ Write(c)
      PROVE  NoChangeMissed'
    BY <1>4 DEF Truncate, Write, NoChangeMissed
<1>5. ASSUME NEW c \in Commands, Signal(c)
      PROVE  NoChangeMissed'
  <2>1. CASE pidfile
      BY <1>5, <2>1, DeliverFits DEF Signal, NoChangeMissed
  <2>2. CASE ~pidfile
      BY <1>5, <2>2 DEF Signal, NoChangeMissed
  <2>3. QED
      BY <2>1, <2>2
<1>6. CASE Announce \/ TakeSignal
    BY <1>6 DEF Announce, TakeSignal, NoChangeMissed
<1>7. CASE HandleSignals
    BY <1>7 DEF HandleSignals, NoChangeMissed
<1>8. CASE InitialLoad
  <2>1. CASE torn
      BY <1>8, <2>1 DEF InitialLoad, NoChangeMissed
  <2>2. CASE ~torn
      BY <1>8, <2>2, LoadFits DEF InitialLoad, NoChangeMissed
  <2>3. QED
      BY <2>1, <2>2
<1>9. CASE Reload
  <2>1. CASE torn
      BY <1>9, <2>1 DEF Reload, NoChangeMissed
  <2>2. CASE ~torn
      BY <1>9, <2>2, LoadFits DEF Reload, NoChangeMissed
  <2>3. QED
      BY <2>1, <2>2
<1>10. ASSUME NEW left \in BOOLEAN, End(left)
       PROVE  NoChangeMissed'
    BY <1>10 DEF End, NoChangeMissed
<1>11. ASSUME NEW s \in Servers, NEW i \in Slots, NEW from, NEW to, Turn(s, i, from, to)
       PROVE  NoChangeMissed'
    BY <1>11 DEF Turn, NoChangeMissed
<1>12. CASE UNCHANGED vars
    BY <1>12 DEF vars, NoChangeMissed
<1>13. QED
    BY <1>1, <1>2, <1>3, <1>4, <1>5, <1>6, <1>7, <1>8, <1>9, <1>10, <1>11, <1>12
    DEF Next, Connect, ConnectFails, Disconnect, Retry

-----------------------------------------------------------------------------
\* Commands that do not cross write what they loaded, changed as asked.
LEMMA ListStep ==
  TypeOK /\ CopyIsFresh /\ EnrolledListed /\ [Next]_vars
    => CopyIsFresh' /\ EnrolledListed'
<1> SUFFICES ASSUME TypeOK, CopyIsFresh, EnrolledListed, [Next]_vars
             PROVE  CopyIsFresh' /\ EnrolledListed'
    OBVIOUS
<1> USE DEF TypeOK, commandVars, daemonVars, taskVars, history
<1> DEFINE Kept == CopyIsFresh' /\ EnrolledListed'
<1>1. ASSUME UNCHANGED <<file, stage, job, copy, crossed, enrolled>>
      PROVE  Kept
    BY <1>1 DEF CopyIsFresh, EnrolledListed, AtWork
<1>2. ASSUME NEW c \in Commands, NEW s \in Servers, Accepted(c, s)
      PROVE  Kept
  <2>1. c \notin AtWork /\ AtWork' = AtWork
      BY <1>2 DEF Accepted, AtWork
  <2>2. \A d \in AtWork : job'[d] = job[d]
      BY <1>2, <2>1 DEF Accepted, AtWork
  <2>3. QED
      BY <1>2, <2>1, <2>2 DEF Accepted, CopyIsFresh, EnrolledListed
<1>3. ASSUME NEW c \in Commands, NEW j \in EnrollJobs \union ForgetJobs, LoadList(c, j)
      PROVE  Kept
  <2>1. AtWork' = AtWork \union {c}
      BY <1>3 DEF LoadList, AtWork
  <2>2. ~crossed' => ~crossed /\ AtWork = {}
      BY <1>3 DEF LoadList, AtWork
  <2>3. job'[c] = j /\ copy'[c] = Changed(j, file)
      BY <1>3 DEF LoadList
  <2>4. CopyIsFresh'
      BY <1>3, <2>1, <2>2, <2>3 DEF LoadList, CopyIsFresh
  <2>5. QED
      BY <1>3, <2>2, <2>4 DEF LoadList, EnrolledListed
<1>4. ASSUME NEW c \in Commands, LoadFails(c)
      PROVE  Kept
  <2>1. c \notin AtWork /\ AtWork' = AtWork
      BY <1>4 DEF LoadFails, AtWork
  <2>2. \A d \in AtWork : job'[d] = job[d]
      BY <1>4, <2>1 DEF LoadFails, AtWork
  <2>3. QED
      BY <1>4, <2>1, <2>2 DEF LoadFails, CopyIsFresh, EnrolledListed
<1>5. ASSUME NEW c \in Commands, Truncate(c)
      PROVE  Kept
  <2>1. AtWork' = AtWork
      BY <1>5 DEF Truncate, AtWork
  <2>2. QED
      BY <1>5, <2>1 DEF Truncate, CopyIsFresh, EnrolledListed
<1>6. ASSUME NEW c \in Commands, Write(c), ~crossed
      PROVE  Kept
  <2>1. AtWork = {c} /\ job[c] \in EnrollJobs \union ForgetJobs
        /\ copy[c] = Changed(job[c], file)
      BY <1>6 DEF Write, CopyIsFresh, AtWork
  <2>2. AtWork' = {}
      BY <1>6, <2>1 DEF Write, AtWork
  <2>3. file' = Changed(job[c], file) /\ enrolled' = Promised(job[c], enrolled)
      BY <1>6, <2>1 DEF Write
  <2>4. QED
      BY <1>6, <2>2, <2>3 DEF CopyIsFresh, EnrolledListed, Changed, Promised
<1>7. ASSUME NEW c \in Commands, Write(c), crossed
      PROVE  Kept
    BY <1>7 DEF Write, CopyIsFresh, EnrolledListed
<1>8. ASSUME NEW c \in Commands, Signal(c)
      PROVE  Kept
  <2>1. AtWork' = AtWork
      BY <1>8 DEF Signal, AtWork
  <2>2. QED
      BY <1>8, <2>1 DEF Signal, CopyIsFresh, EnrolledListed
<1>9. QED
    BY <1>1, <1>2, <1>3, <1>4, <1>5, <1>6, <1>7, <1>8
    DEF Next, Announce, InitialLoad, HandleSignals, TakeSignal, Reload, End, Turn,
        Connect, ConnectFails, Disconnect, Retry, vars

-----------------------------------------------------------------------------
\* The inductive invariant: the types, the tasks and the map, the map and the
\* file, the file and the commands' copies.
THEOREM Inductive == Spec => []IInv
<1>1. IInv /\ [Next]_vars => IInv'
    BY TypeStep, TasksStep, ChangeStep, ListStep DEF IInv
<1>2. QED
    BY <1>1, InitIInv, PTL DEF Spec

\* Types, for any number of servers, commands and tasks (main.rs, peers.rs).
THEOREM TypeCorrect == Spec => []TypeOK
BY Inductive, PTL DEF IInv

\* No task runs on that the daemon does not know, and no server has two.
THEOREM TasksKnown == Spec => []TasksAreKnown
BY Inductive, PTL DEF IInv

\* No change of the list is missed, however signals, reloads and the daemon's
\* start interleave with the commands.
THEOREM ChangesHeard == Spec => []NoChangeMissed
BY Inductive, PTL DEF IInv

\* Commands that do not cross lose nobody's enrolment.
THEOREM EnrolledStay == Spec => []EnrolledListed
BY Inductive, PTL DEF IInv
=============================================================================
