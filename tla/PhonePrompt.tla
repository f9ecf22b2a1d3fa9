---------------------------- MODULE PhonePrompt -----------------------------
(***************************************************************************)
(* Confirmation prompts of the Android app (ConfirmManager.kt,             *)
(* ConfirmActionReceiver.kt).  The thread of a request shows a             *)
(* notification and polls a queue of capacity one for fifteen minutes.     *)
(* Its buttons, and its removal, send broadcasts to the service's          *)
(* receiver, which offers a decision to the queue of the prompt.           *)
(***************************************************************************)
EXTENDS Naturals, Sequences

CONSTANTS Prompts,  \* each stands for its Android id, which are never reused
          MaxTaps   \* bound: broadcasts under way

VARIABLES stage,     \* per prompt, how far its thread is, or what it answered
          queue,     \* per prompt, its queue
          pending,   \* the prompts whose queue the receiver can find
          screen,    \* the notifications on the screen
          taps,      \* broadcasts that the receiver has not had, oldest first
          listening, \* the receiver is registered
          wish,      \* history: what the user did first with the prompt
          excused    \* history: its time was up, or nobody hears the buttons

vars == <<stage, queue, pending, screen, taps, listening, wish, excused>>

Decisions == {"approved", "denied"}

Init ==
  /\ stage = [p \in Prompts |-> "idle"]
  /\ queue = [p \in Prompts |-> <<>>]
  /\ pending = {} /\ screen = {} /\ taps = <<>>
  /\ listening = TRUE
  /\ wish = [p \in Prompts |-> "none"]
  /\ excused = [p \in Prompts |-> FALSE]

\* The queue is there before the prompt is shown.
Show(p) ==
  /\ stage[p] = "idle"
  /\ stage' = [stage EXCEPT ![p] = "polling"]
  /\ pending' = pending \union {p}
  /\ screen' = screen \union {p}
  /\ UNCHANGED <<queue, taps, listening, wish, excused>>

\* A button, which leaves the notification where it is, or a swipe.
Tap(p, decision) ==
  /\ p \in screen
  /\ Len(taps) < MaxTaps
  /\ taps' = IF listening THEN Append(taps, [id |-> p, decision |-> decision]) ELSE taps
  /\ screen' \in IF decision = "denied" THEN {screen, screen \ {p}} ELSE {screen}
  /\ wish' = [wish EXCEPT ![p] = IF @ = "none" THEN decision ELSE @]
  /\ UNCHANGED <<stage, queue, pending, listening, excused>>

\* Faulty Offered: the queue has no limit.
OfferedAlways(q, decision) == Append(q, decision)

\* offer does nothing to a full queue.
Offered(q, decision) == IF q = <<>> THEN <<decision>> ELSE q

\* onReceive and submit; a decision for a prompt that is over is dropped.
Submit ==
  /\ taps # <<>>
  /\ LET tap == Head(taps)
     IN  queue' = IF tap.id \in pending
                  THEN [queue EXCEPT ![tap.id] = Offered(@, tap.decision)]
                  ELSE queue
  /\ taps' = Tail(taps)
  /\ UNCHANGED <<stage, pending, screen, listening, wish, excused>>

Poll(p) ==
  /\ stage[p] = "polling"
  /\ queue[p] # <<>>
  /\ stage' = [stage EXCEPT ![p] = IF Head(queue[p]) = "approved" THEN "leaveApproved"
                                   ELSE "leaveDenied"]
  /\ queue' = [queue EXCEPT ![p] = Tail(@)]
  /\ UNCHANGED <<pending, screen, taps, listening, wish, excused>>

\* Faulty TimeOut: the prompt waits for as long as it takes.
TimeOutNever(p) == FALSE /\ stage[p] = "polling" /\ UNCHANGED vars

TimeOut(p) ==
  /\ stage[p] = "polling"
  /\ queue[p] = <<>>
  /\ stage' = [stage EXCEPT ![p] = "leaveUndecided"]
  /\ excused' = [excused EXCEPT ![p] = TRUE]
  /\ UNCHANGED <<queue, pending, screen, taps, listening, wish>>

Outcome(state) == CASE state = "leaveApproved" -> "approved"
                    [] state = "leaveDenied" -> "denied"
                    [] state = "leaveUndecided" -> "undecided"
                    [] OTHER -> state

\* finally: the queue cannot be found any more, the notification goes.
Leave(p) ==
  /\ stage[p] \in {"leaveApproved", "leaveDenied", "leaveUndecided"}
  /\ stage' = [stage EXCEPT ![p] = Outcome(@)]
  /\ pending' = pending \ {p}
  /\ screen' = screen \ {p}
  /\ UNCHANGED <<queue, taps, listening, wish, excused>>

\* The service is destroyed (SubportalService.kt:78).
StopListening ==
  /\ listening
  /\ listening' = FALSE
  /\ taps' = <<>>
  /\ excused' = [p \in Prompts |-> TRUE]
  /\ UNCHANGED <<stage, queue, pending, screen, wish>>

ThreadStep(p) == Poll(p) \/ TimeOut(p) \/ Leave(p)

Next ==
  \/ \E p \in Prompts :
       \/ Show(p)
       \/ ThreadStep(p)
       \/ \E decision \in Decisions : Tap(p, decision)
  \/ Submit
  \/ StopListening

Spec == Init /\ [][Next]_vars

\* Threads run, and the wait in poll is limited.
Fairness == \A p \in Prompts : WF_vars(ThreadStep(p))

Stages == {"idle", "polling", "leaveApproved", "leaveDenied", "leaveUndecided",
           "approved", "denied", "undecided"}

TypeOK ==
  /\ stage \in [Prompts -> Stages]
  /\ queue \in [Prompts -> {<<>>} \union {<<d>> : d \in Decisions}]
  /\ pending \in SUBSET Prompts /\ screen \in SUBSET Prompts
  /\ \A i \in DOMAIN taps : taps[i] \in [id : Prompts, decision : Decisions]
  /\ listening \in BOOLEAN
  /\ wish \in [Prompts -> Decisions \union {"none"}]
  /\ excused \in [Prompts -> BOOLEAN]

\* What the rest of the system sees of a prompt.
Answer(p) == CASE stage[p] = "idle" -> "none"
               [] stage[p] \in {"approved", "denied", "undecided"} -> stage[p]
               [] OTHER -> "open"
=============================================================================
