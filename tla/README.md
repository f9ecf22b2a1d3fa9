# A TLA+ model of subportal

subportal lets programs on a remote server open links and files, show
notifications and ask for confirmation on the user's own devices. An *agent*
on the server listens on a Unix socket for local tools and on an iroh (QUIC)
endpoint for enrolled devices: a desktop daemon or an Android app. This
directory holds a TLA+ model of the parts of that program whose correctness
depends on the order of events, the TLC configurations that check small
instances, and TLAPS proofs for all instances.

All paths below are relative to the repository (`src/` in `PROJECT.json`).

## 1. The system

| Component | Code | State it keeps | Operations |
| --- | --- | --- | --- |
| Agent, connections | `crates/subportal/src/agent.rs` | one task per iroh connection, each somewhere in the handshake | accept, read hello, admit or refuse, register, read control messages, leave |
| Agent, hub | `crates/subportal/src/hub.rs` | `clients`, `pending_tokens`, `pending_notifications`, a notification counter | add/remove client, update focus, generate/consume token, revoke, broadcast dismiss |
| Client registry | `crates/subportal-iroh/src/peers.rs` | list of enrolled devices in memory and in `clients.json` | load, add, remove, touch, save |
| Router | `crates/subportal/src/router.rs` | none (pure), or the state of one request's exchanges | rank, fan_out, failover_decision, race_decision |
| Focus | `crates/subportal-desktop/src/focus.rs`, `send_focus_updates` in `crates/subportal-android-core/src/lib.rs`, `FocusMonitor.kt` | last state reported; the phone's watch channel | poll or watch, report |
| Desktop daemon | `crates/subportal-desktop/src/main.rs`, `enroll.rs` | `servers.json`, one reconnecting task per server | connect, serve requests, reload on SIGHUP, enroll, forget |
| Desktop portal | `portal.rs`, `handler.rs`, `dismiss.rs` | pending prompt, map of notification ids | open, notify, confirm with timeout, dismiss |
| Android core | `crates/subportal-android-core/src/lib.rs` | runtime handles, focus and shutdown channels, connection flags | start, stop, reconnect, reload every 10 s, enroll, forget, serve |
| Android app | `subportal-android/app/src/main/java/io/subportal/android/` | pending confirmations, notification ids | confirm, notify, dismiss, monitors, UI |
| Unix socket | `crates/subportal-lib/src/{server,client}.rs` | one request per connection | accept, answer |
| Wire | `crates/subportal-lib/src/protocol.rs`, `crates/subportal-iroh/src/{transport,control,ticket}.rs` | none | frame, convert errors, encode tickets |
| Tools, packaging | `xdg-open`, `notify-send`, `subportal` CLI, nix, scripts | none | one request each |

**How they interact.** Every connection task of the agent and every Unix
request shares the `Hub` behind one tokio mutex. Tasks hold it for short
critical sections, and across `await`s only for file writes (and in
`broadcast_dismiss`). Requests to devices are sent *without* the mutex, to
connections copied out of the table. A device sends its hello, focus reports
and dismissals on one ordered control stream; each request travels on a stream
of its own.

**What is hard.** Two connections of one device may overlap, since a broken
one is noticed only after the idle timeout (and enrolment uses a second
connection with the same key). A check in the handshake can be outdated when it
is acted upon. The registry is changed in memory before it is written, and the
file is rewritten in place. Table snapshots are outdated while they are used;
an answer that is lost cannot be told from a request that never arrived. Focus
reports arrive late. `PROJECT.json` lists these and the other hazards, each at
its line, with the properties that watch it.

## 2. What each component must get right

* *Enrolment and revocation*: only a device that redeemed a token, once, while
  it was valid, or was enrolled before, is admitted; what a device was told
  survives a restart; a revoked device is gone.
* *Client table*: its entries are exactly the live registered connections.
* *Ranking*: a total order, active before idle, most recent first, and
  following what devices reported last.
* *Failover*: one device at a time; an answer is final; a dead device is passed.
* *Race*: an answer decides, a timeout or a dead connection does not, and there
  is always a result.
* *Notifications*: a notification a device confirmed can be dismissed there; a
  dismissal reaches every such device and never stops the agent.
* *Server list of a device*: what was enrolled is listed until it is forgotten;
  the daemon or app serves exactly what is listed, whenever the list changes.
* *Prompts*: one decision at most, the one the user made first; always an end.
* *Calls into the Android core*: whatever starts can be stopped, and a stop ends.
* *Local tools*: an exit code says what happened; one tool does not block another.

## 3. Modules

```
Membership        what enrolment promises (abstract)
  ^ refined by
Hub               agent: handshake, table, tokens, registry file, restarts
  HubProofs       theorems
Router            rank, fan_out and the order behind them (operators)
Presence          focus reports and the table they rank (EXTENDS Router)
  PresenceProofs  theorems          MCPresence  TLC instance
Routing           what the agent promises a tool that needs a device (abstract)
  ^ refined by
Dispatch          failover and race over connections that come and go
  DispatchProofs  theorems
Notify            fan-out of notifications, dismissals, the devices' maps
  NotifyProofs    theorems
Prompt            what a confirmation prompt promises (abstract)
  ^ refined by
Confirm           DesktopPrompt and PhonePrompt side by side (INSTANCE)
  ConfirmProofs   theorems
Servers           a desktop's server list, its commands and its daemon
  ServersProofs   theorems        MCServers   TLC instance
AndroidCore       calls into the Android core and the runtimes they make
  AndroidProofs   theorems
Tools             local tools, the agent's Unix socket, answers on the wire
  ToolsProofs     theorems        MCTools     TLC instance
```

A configuration without an MC module instantiates its module directly.

Modules contain a few operators whose comment starts with "Faulty": variants of
an action with a plausible mistake in it. They occur in no specification; each
property is known to fail when one of them takes the place of the action it is
named after (`mutants` in `PROJECT.json`).

### Hub

One step is what a task does in one critical section, or one read or write on
its connection. A task's place in `handle_iroh_connection` is `stage`:

| `stage` | place in the code | steps that leave it |
| --- | --- | --- |
| `free` | no task in this slot | `Dial` |
| `accepted` | reading the hello | `RefuseToken`, `Enroll`, `Recognise`, `RefuseUnknown`, `HandshakeFails` |
| `refusing` | about to write `enrolled: false` | `SendRefusal`, whether or not the write succeeds |
| `admitted` | about to write `enrolled: true` | `SendHello`, `HandshakeFails` |
| `greeted` | about to lock the hub and register | `Register` |
| `serving` | in the control message loop | `Leave` |

`HandshakeFails` and `Leave` stand for every way in which a read or write fails, as
the code treats them alike: a closed connection, a stream that the device has
ended, a message that does not parse.

`registry` and `disk` are the list in memory and in the file, as functions from
endpoint id to enrolled name; `torn` says that the file does not parse. A
failing save, which may tear the file, is a nondeterministic choice of every action that saves: `Enroll`,
`Register` (through `touch`, which drops the error) and `Revoke`. `Halt` loses
everything but the file. `link` separates a connection that broke (`lost`) from
one the agent knows to be broken (`closed`). The variables `issued`, `redeemer`,
`revoked` and `overlapped` are history: properties read them, actions do not
(except that a token is issued once, the source drawing 128 random bits).

Abstracted: capabilities, platform and `last_seen` of an entry; addresses in a
ticket; the duration of a token, which may expire at any moment. `Dial` merges
the QUIC handshake and the opening of the control stream with the choice of what
the hello will say. Focus updates are in Presence, dismissals in Notify.

### Router and Presence

`rank` sorts by `Before`, the comparison of `router.rs:60-65`; endpoint ids are
numbers because they are only compared. `rank` is the list of the capable clients
without inversions, which is what a sort promises; that there is one such list, and
not several, is `OneOrder`. Presence keeps one entry per connected
device and, per device, what its screen does, what its focus task last reported
and the reports under way. A desktop polls and reports differences (`focus.rs`).
A phone's `FocusMonitor` sends to a watch channel, whose task reports the
channel's value when it was sent to, so quick changes coalesce and a value may be
reported twice; the task of each new connection starts from a receiver that never
looked. `Reconnect` replaces the channel by one that holds `Active`. `Disconnect`
covers the loss and the end of the agent's task together.

### Routing and Dispatch

`AskFailover` and `AskRace` take the snapshot of `ranked_connections` (any order:
Presence has the one that results). `view` is the agent's knowledge of an
exchange (`left`: the JoinSet of a decided race was dropped), `device` is what
happened on the device. The two are separate on purpose: between them lie lost
answers, prompts nobody waits for any more, connections that die after the user has
answered, and devices whose task ends on a request that it cannot read
(`Misread`), which the agent sees as a failed stream on a live connection. The
agent's own task may leave a connection that requests still use (`Leave`). A
device that reconnects is another member of `Devices`.

Routing is the promise to a tool, without lists, exchanges or answers under way: a
request is put to the devices in the client table; it ends once, with what one of
them decided that can still be reached, or without a decision when each of them
is lost, has abstained or is unable to ask. Dispatch implements it where devices answer with errors
the agent knows (`StrayErrors` is false): whom a request was put to are the
devices asked and those a failover has left to try (`Targets`), what a device
made of it is what happened on the device, heard or not (`Opinion`), and a device
is lost from the moment its connection breaks (`Lost`).

### Notify

A notification goes through `Notify` (under the mutex: an id, and the clients to
ask), `Ask` and `Hear` or `Fail` for one device after the other, and `Delivered`
(`agent.rs:330-390`). A dismissal holds the mutex (`lock`) from `Dismiss` to
`Release` and puts the id in one client's channel per `Pass`, in the order of the
hash map; actions that need the mutex are disabled meanwhile. The channel of 32
messages and the stream behind it are one queue of `Room` ids; its writer task
ends at the first failed write, after which the channel refuses. A device handles
a notification in two steps, `Begin` and `Complete`: a desktop shows and then
enters the id in `NOTIFY_MAP`, a phone enters and then shows. They are separate
because the connection may be lost, or the id of an earlier run of the agent be
dismissed, between them. `ReadControl` takes the entry of an id out and closes what
it named; a desktop's notification server may refuse to, and the code only logs
that (`dismiss.rs:33-35`): the notification is then `stuck`, on the screen without
an entry. The two are one step: on a desktop nothing else touches the notification
between them, and a phone that shows it there cancels it at once, as if it had
shown it before. `gone` says for which devices the connection that was
copied for a request is lost.

Abstracted: one connection per device (Hub has overlapping ones); the originator
that a broadcast may except (`except` is always `None`, no client sends
`DismissNotification`); a device that restarts and loses its map while the
desktop keeps its notifications; a second agent that shares the device's map.

### Prompt, DesktopPrompt, PhonePrompt and Confirm

Prompt is the promise: a prompt ends once, with what its user did first, or
undecided if the user did nothing or the prompt was *excused* (time was up, or
the means to hear the user were lost). DesktopPrompt has the task of `confirm`
(subscribe, ask for the notification, learn its id, read one ordered stream of
signals about all notifications, time out and close) against a notification
server, a user and a bus that may die at any point; two prompts on one desktop
read each other's signals. PhonePrompt has the blocked thread of `awaitDecision`,
its queue of one, the broadcasts of buttons and swipes, which come late and more
than once, and the service's receiver, which goes before the runtime does.
Confirm composes them and refines Prompt with all prompts at once.

The desktop's stream is a queue without limit here: a full `MessageStream` (64)
makes zbus stop reading from the bus, it drops nothing.

### Servers

The commands `enroll` and `forget` are processes of their own. `LoadList` reads
the file and makes the change to a copy; `Truncate` and `Write` are the two parts
of `tokio::fs::write`, between which another process sees a file that does not
parse, and after which a second writer that had opened the file too may leave a
mixture (`torn`); `Signal` reads the pidfile and kills. The daemon goes `down`,
`announced` (pidfile written), `spawned` (first load done), `serving` (handler
registered), `reloading`; a SIGHUP before `serving` ends it, which is what the
signal does by default. `active` is the daemon's map, `task` what each task does;
`orphan` is a connection that an aborted task has left to the two tasks it had
spawned. `Init` starts from any list. Commands and the daemon may stop for ever
at any step, which is a crash of theirs.

Abstracted: addresses and relay of an entry; the handshake of a dial (Hub has the
agent's side); a save that fails without emptying the file.

### AndroidCore

The steps of `start` and `stop` are the critical sections of the two mutexes,
`shutdown_tx` and `runtime_handle`; `reconnect` is a stop and then a start;
`Destroy` is the service's `onDestroy`. `told` is what the runtime's shutdown
channel holds: `gone` is a sender that was dropped, which `changed()` reports and
the loop ignores. (It then spins on the closed channel; a reload still happens at
a tick, because `select!` picks a ready branch at random.) A runtime's thread ends
only when no prompt blocks a worker, since dropping a tokio runtime waits for
those. The tasks of servers are those of Servers without the orphans, which the
core has too.

### Tools

A tool dials, writes its request, and reads an answer or finds the connection
closed; it may be interrupted at any time. The agent's `Accept`, `Take` and
`Refuse` are the accept loop, which reads a request before it takes the next
connection. A request's own task has two steps: `Handle` ends the handling with any
result it may have, and `Respond` writes the result; the agent or the tool may be
gone between them. `path` is whose socket the file is: a later agent removes the file of an
earlier one, and an agent that ends removes whatever is there. Sizes are real
numbers of bytes: 5 MB files, base64, 8 MB messages. Errors travel as the wire
identifiers of `protocol.rs` and end as the exit codes of the tools.

## 4. Runs and their bounds

| Run | Instance | Result |
| --- | --- | --- |
| `hub` | 2 devices, 2 names, 2 connections, 1 token | 312,063 states; five safety properties, Hub implements Membership, tasks and entries of dead connections go away |
| `presence` | 2 desktops (one without OpenURI), 1 phone, 2 instants, 2 reports under way per device | 157,984 states; order, freshness, belief settles on the screen |
| `dispatch` | 3 connections, 1 request of either kind | 633,651 states; Dispatch implements Routing; safety and liveness of failover and race |
| `servers` | 2 servers of one hostname, 3 commands, 2 task slots per server | 1,076,850 states; tasks and list agree, no change missed, listed servers are dialled |
| `android` | 2 calling threads, 2 runtimes, 1 server, 1 prompt | 361,252 states; runtimes can be stopped, stops return, the list is followed |
| `confirm` | 2 prompts on a desktop, 1 on a phone, 1 broadcast under way | 319,020 states; both refine Prompt, and end |
| `notify` | a desktop and a phone, 1 notification, 2 dismissals, 2 losses or restarts, room for 1 id | 129,752 states; dismissals arrive, nobody waits for ever |
| `tools` | 2 tools (one with a file), 2 runs of the agent | 452,520 states; exit codes, sizes, the socket file, no tool is held up |

*Why these bounds.* Two connections are enough for every hazard of the hub: a
task interferes with one other through the table, the registry or a token; a
third would repeat the second. Two devices let a step on one disturb the other;
two names let a device change its name or share one. One token suffices, since a
token is compared with itself alone; the theorems have any number. Three
connections in `dispatch` let one die, one answer and one be asked late, and
requests do not interact. Two instants let two devices be equally recent and a
third differ; two reports under way let an old one arrive after its successor was
sent. In `servers`, three commands let two cross while a third signals, and one
hostname for both servers makes a forget by name differ from one by id; a
runtime or daemon needs two slots to leave an orphan and dial again. In
`android`, two threads are what the app has (service and screen). In `notify`,
room for one id and two dismissals fill a channel; one notification is enough for
the properties named, which concern notifications with an id of their own, and
the dismissal of another id (`Other`) stands for those of others. In `confirm`,
two prompts of one desktop see each other's signals; a phone's prompts share
nothing but the order of broadcasts.

Bounds in guards: `MaxNow` and `MaxQueue` (Presence), `MaxRuntimes` and
`MaxPrompts` (AndroidCore), `MaxTaps` (PhonePrompt), `MaxNotes`, `MaxFaults` and
`MaxDismissals` (Notify). `Slots` bounds `Rearrange` in the same way: it waits
while a server's slots are all orphans. `Room` is the code's own limit, made
small. Everything else is finite by its constants.

Deadlock is checked for `presence` and `servers`. It is not where the system may
stop: a torn file keeps the agent from starting, and connections, prompts,
notifications and runs of tools are used up.

The types of Hub, Dispatch, Servers and AndroidCore are proved (section 6) and not
checked again by TLC; the other runs check theirs.

**Claims of the documentation the code does not keep.** Four are runs of one
property each, stated next to the passing ones in its module:

| Run | Claim | What happens |
| --- | --- | --- |
| `hub_overlap` | connected devices are routed to | the old connection's task removes the new connection's entry (`hub.rs:73`) |
| `dispatch_stray` | an approval is a user's | an unknown error counts as Ok (`hub.rs:276-287`) |
| `servers_forget` | forget drops the connection | an aborted task leaves it to the tasks it spawned (`main.rs:219`) |
| `android_stop` | stop ends the connection loop | a second start has replaced the sender of the first runtime (`lib.rs:181`) |

The others are stated in their modules too. Each has a counterexample on the
instance of its module's passing run, with the claim as the only property (for
`IdsOnScreenDiffer` with two notifications):

| Claim | Where it is made | What happens |
| --- | --- | --- |
| `OnlyEnrolledRouted` (Hub) | `docs/explanation/security.md:62` | a revocation comes between check and registration (`agent.rs:156`, `:192`) |
| `RevokedIsDisconnected` (Hub) | `hub.rs:215-216` | matched by enrolled name in one table, by current name in the other (`hub.rs:236`) |
| `StoredIsRevocable` (Hub) | `docs/howto/enrollment.md:64-68` | a failed save leaves the file behind, and a retry says NotFound (`peers.rs:69-78`) |
| `EnrolmentSurvives` (Hub) | `docs/explanation/security.md:58-59` | the file is rewritten in place (`peers.rs:56`) |
| `DarkScreenIsIdle` (Presence) | `FocusMonitor.kt:14-15` | a new focus channel starts Active (`lib.rs:177`) |
| `OpenedOnce` (Dispatch) | `router.rs:25-26` | lost answer, next device (`hub.rs:272`) |
| `EnrolledStaysListed` (Servers) | `docs/SPEC.md:170` | of two commands that overlap, the later write drops the other's enrolment (`peers.rs:199`) |
| `IdsOnScreenDiffer` (Notify) | `hub.rs:95` | the counter starts at zero with the agent (`hub.rs:96`) |

`SoleConnectionRouted`, `AdmittedIsEnrolled` ("unless revoked in the meantime"),
`EnrolmentDurable` (the last complete list), `FocusSettles`, `OneReachableAsked`,
`EnrolledListed` (unless two commands crossed), `TasksAreKnown`,
`RunningIsStoppable`, `ShownIsDismissable` and, as a theorem, `IdsOfRunDiffer` are
the versions of these claims the code does keep. They except exactly what the
counterexamples show, and so do not watch those hazards themselves.

Three smaller differences between text and code, with no run: `protocol.rs:58-63`
says a Confirm that timed out is answered UserDenied, it is answered NoDecision
(`portal.rs:290`); `main.rs:55` of the CLI says exit code 2 is "could not ask",
which is also the code when the agent ended, or the device vanished, after the
prompt was shown; and a dismissal on one device is not passed to the others,
since no client sends one.

## 5. Fairness

* A task that can run is run by tokio, a thread by the system, and QUIC finds a
  dead link: `WF` of each task's steps and of `NoticeLoss`. A task of Hub that reads
  from its device is made to go on only by a closed connection. (The Android core sets
  a 30 s idle timeout, the agent uses iroh's default.)
* No fairness for what people and remote programs do: devices dial or send a
  hello, tokens are generated, someone starts the agent or a command, a screen
  turns, a user answers, clicks or interrupts.
* A focus task looks (`WF(Report)`: the desktop's 30 s poll, the phone's watch)
  and what is sent on an open stream is read (`WF(update_focus)`).
* A confirmation prompt ends: the desktop (`portal.rs:22`) and Android
  (`ConfirmManager.kt:30`) both give up after 900 s. Confirm assumes that timer
  and shows `PromptsEnd`; Dispatch uses that as the fairness of an answer to a
  race, and AndroidCore as `SF(PromptTimesOut)`: each of the bounded number of
  prompts has a timer of its own, also while others open and close.
* Dispatch assumes that a request sent on a live connection reaches a device that
  accepts streams (`WF(Prompt)`). The desktop's connection whose task a reload
  aborted does not (`orphan` in Servers): the agent waits there until that
  connection ends.
* tokio's mutex is fair, so that who waits for it gets it: in Notify, whose `lock`
  is taken again and again, `SF` of the steps that need it (`Leave`, `Delivered`).
* In Servers the daemon's loop and its tasks run and a dial ends one way or the
  other; commands, signals and networks are under no obligation.
* In Tools an agent that stays up writes what a handling ended with
  (`WF(Respond)`), and the handling of a confirmation or a notification ends
  (`WF(Handle)` for these), which is what Dispatch, Confirm and Notify show of
  theirs. An open waits for the user's dialog without any timeout
  (`portal.rs:30-38`, `:57-62`; `hub.rs:258-273`), so that nothing is assumed of
  one: `ToolsEnd` says of it that its tool is heard or dropped, and of the others
  that they end.

## 6. Proofs

Checked by TLAPS, for any constants that satisfy the named assumptions of the
modules (`None` is not a value; `StrayErrors` is a Boolean; the sets of connections and of
devices are finite, which snapshots of the table need; what a message holds besides a
file or text is at most a megabyte).

**HubProofs.** `IInv` conjoins types with: unused slots hold nothing
(`SlotsClean`), a stopped agent knows nobody, tokens not issued or still pending
have no redeemer (`UnusedTokens`), `overlapped` is set for connections that
share a device (`OverlapsSeen`), and the properties `EntryServed`,
`AdmittedIsEnrolled`, durability and `SoleConnectionRouted`. None of the last is
inductive alone: that the table names a served connection needs clean slots;
that the sole connection of a device is routed needs that its rival, whose task
would remove the entry, was seen as an overlap; that a token is redeemed once
needs that pending tokens have no redeemer. The lemmas take one conjunct through
all actions; the theorems follow with `Inductive`. `Implements` shows that every
step of Hub is a step of Membership or leaves its variables unchanged, under
`offered <- pending \ expired`, `spent <- issued \ (pending \ expired)`,
`members <- registry`, `stable <- disk`. What Membership guarantees the agent then
guarantees too: `OnlyByToken` carries its invariant `MembersRedeemed` (whoever is
in the registry or in its file has redeemed a token) through that mapping.

**PresenceProofs.** `Before` is irreflexive, transitive and total on clients with
different ids: what `sort_by` needs, and why the order of the hash map does not
matter. `RankSorts` says that `rank` lists every capable client once, in that
order, for every finite table. No induction is needed: the number of clients that
come before a client is its place (`Sortable`); places are distinct because the
order is strict and total, and distinct numbers up to the size of the table leave
none out (`NumberingCovers`). `IInv` conjoins the types, among them that a device
has one entry, with a finite table that holds the capabilities announced, nothing
under way from a device without a connection (`InvAux`), and `LastWordCounts`.
`OneOrder` follows from it by `RankSorts`, `FreshestFirst` because only
`update_focus` shortens a queue of reports.

**DispatchProofs.** `IInv` relates the agent's view to devices and connections:
a written-off exchange belongs to a closed connection or to a device that could
not read the request, a remembered abstention was said, the agent waits only for requests without a result, and a failover has
at most one exchange that is not written off (`OneAtATime`). With it follow
`OneReachableAsked`, `AbstainersDoNotVeto`, `AnswerIsFinal`, `TypeOK` and, if
devices use error identifiers the agent knows, `ResultWasGiven` (every decision
the agent reports was made on a device). `Implements` needs in addition that only
a race can be abstained from (`Honest`); that a snapshot of a finite table has everyone in it
(`ListCovers`); and that a failover which runs out of devices has written them all
off. `ResultsTrue` carries Routing's `ResultIsTrue` and `ResultStays` over. All
three exclude stray errors, because with them they fail: that is the claim of
`dispatch_stray`.

**ServersProofs.** `IInv` adds to the types and the four invariants that a daemon
that has not loaded yet has no tasks (`NothingSpawned`), and that a command which
has loaded, while none has crossed, holds a copy that is the present list with
its change (`CopyIsFresh`): without it `Write` could drop an enrolment.
`NoChangeMissed` is nearly inductive as stated, since it speaks of the commands
between the start of their write and their signal; what it needs is that the
pidfile is there whenever the daemon is up, a conjunct of `TypeOK`. `RearrangeFits`
is the lemma about aborting and spawning that both loads use.

**AndroidProofs.** A caller between the steps of `start` knows the runtime it made
(`CallersKnow`), nobody else makes that one's thread (`SpawnedOnce`), runtimes are
numbered in the order in which they were made (`MadeInOrder`), and one that was
made and not ended is told to stop, or has its sender in the slot, unless that was
replaced (`MadeIsStoppable`), which is `RunningIsStoppable` from before the thread
starts.

**ToolsProofs.** `IInv` says that a request that is written is of a size its tool
accepted (`RequestsChecked`), that a response is the wire form of the result and
is there only for a tool that was asked (`ResponsesTrue`), and that an exit code
is that of what was written, or of a tool to which nothing was (`ExitsFollow`). `ExitIsTrue`
needs with it that the two tables of `wire_id` and `from_wire` are inverses
(`WireIsFaithful`), `FilesFit` that base64 of five megabytes and the rest stay
within eight (`EncodedFits`).

**ConfirmProofs.** `Implements` shows that desktops and phones implement Prompt,
for any number of prompts on either side. On a desktop it needs that a notification on the
screen has sent no signal yet (`Fresh`), that signals about a prompt the user left
alone decide nothing (`LeftAlone`), and `ClickIsQueued`; on a phone that the first
broadcast about a prompt, or its queue, holds what the user did first
(`TapIsWish`, `QueueIsWish`), although later taps follow it. Each step is one step of Prompt
for one prompt (`OneStep`), or excuses several (`SomeExcused`). `UserDecides` carries
Prompt's `FirstWins` and `AnswerStays` over: no answer but the user's first one,
unless the prompt was excused, and no second answer.

**NotifyProofs.** `IInv` adds to `DismissalUnderWay` that an entry is there whenever a
device has confirmed what it shows and could close it (`EntryKept`), which gives
`ShownIsDismissable`, and that an entry names what its device was asked to show
(`Entered`). That no
dismissal takes an entry that is still wanted needs that ids in channels and
broadcasts were told to a tool (`ToldOnly`), while the id of a notification that is
still sent was not (`NotToldEarly`); that none is lost needs that a connection that
holds has its writer (`Linked`), and that a broadcast names every client
(`OrderCovers`, the one use of finite `Devices`). `IdsDiffer` has an invariant of its own,
`Counted`: the ids of a run are at most its counter, so that the next one is new.

**Only model-checked.** Liveness (`DeadEntryLeaves`, `LostConnectionEnds`,
`FocusSettles`, `ConfirmAnswered`, `LostTargetIsPassed`, `ListedIsDialled`,
`StopReturns`, `ListFollowed`, `PromptsEnd`, `BroadcastEnds`, `NotifyAnswered`,
`ToolsEnd`), because the prover does not handle fairness and ENABLED.

## 7. Not modelled

* Overlapping connections of one device together with focus reports (a late report
  of the old connection, `agent.rs:221`) or notifications: Hub has the overlaps,
  Presence and Notify the rest; the products are beyond TLC's reach, and what goes
  wrong is corrected by the next report.
* The sum of clock and time to live of a token (`peers.rs:133`), which chrono may
  refuse: in Hub a token expires at any time.
* Addresses and relays of servers. A server enrolled again under new addresses is
  dialled at the old ones until the daemon restarts (`main.rs:225`).
* `pending_notifications`, which grows by one entry per notification and which
  nothing reads (`agent.rs:382`).
* The uid check of the socket, the JSON of requests and of success answers, and
  `list_servers` with its connected flags, which are only shown.
* A notification server or an Android system that reuses ids.
* A phone whose connection was lost while it handled a notification, and that came
  back and read its dismissal before it showed it: it shows what has no entry
  (`NotificationHelper.kt:36`). Notify has these steps; `ShownIsDismissable` does not
  speak of the device, which never confirmed.
* Compose screens, generated UniFFI bindings, ticket and QR encoding, key files,
  the commands that only print an answer, and packaging. They hold no state that
  other components act upon, or are not written by hand.
