--------------------------- MODULE DesktopPrompt ----------------------------
(***************************************************************************)
(* Confirmation prompts of the desktop daemon (confirm and await_decision, *)
(* portal.rs).  A prompt is a notification with two buttons.  Its task     *)
(* subscribes to the signals of the notification server, asks the server   *)
(* to show the notification, and when it knows the notification's id reads *)
(* the signals, which concern every notification, in the order in which    *)
(* they were sent, for at most fifteen minutes.                            *)
(***************************************************************************)
EXTENDS Naturals, Sequences

CONSTANT Prompts   \* stands for the notification's id as well

VARIABLES stage,   \* per prompt, how far its task is, or what it answered
          events,  \* per prompt, the signals it has not read
          screen,  \* per prompt, whether its notification is on the screen
          bus,     \* the session bus is there
          wish,    \* history: what the user did with the prompt
          excused  \* history: its time was up, or the bus was lost

serverVars == <<events, screen>>
vars == <<stage, serverVars, bus, wish, excused>>

\* Faulty Subscribed: the task subscribes when it knows the id.
SubscribedLate == {"waiting"}

Subscribed == {"subscribed", "shown", "waiting"}

Answers == {"approved", "denied", "undecided"}

Dismissed == "dismissed"   \* reason 2, the only close that is an answer
Closed(p, reason) == [id |-> p, member |-> "NotificationClosed", arg |-> reason]
Invoked(p, action) == [id |-> p, member |-> "ActionInvoked", arg |-> action]

Signals == {Closed(p, reason) : p \in Prompts, reason \in {Dismissed, "expired", "closed"}}
           \union {Invoked(p, action) : p \in Prompts, action \in {"approve", "deny"}}

Init ==
  /\ stage = [p \in Prompts |-> "idle"]
  /\ events = [p \in Prompts |-> <<>>]
  /\ screen = [p \in Prompts |-> FALSE]
  /\ bus = TRUE
  /\ wish = [p \in Prompts |-> "none"]
  /\ excused = [p \in Prompts |-> FALSE]

Move(p, to) == stage' = [stage EXCEPT ![p] = to]

\* The server's signals go to every stream that is subscribed.
Emit(signals) ==
  events' = [p \in Prompts |->
    IF stage[p] \in Subscribed THEN events[p] \o signals ELSE events[p]]

-----------------------------------------------------------------------------
(* The prompt's task.                                                       *)

\* The request arrives, and the task subscribes.
Subscribe(p) ==
  /\ stage[p] = "idle"
  /\ Move(p, "subscribed")
  /\ UNCHANGED <<serverVars, bus, wish, excused>>

\* No bus, no server, or the call fails: the device abstains (handler.rs:97).
CannotAsk(p) ==
  /\ stage[p] = "subscribed" \/ (stage[p] = "shown" /\ ~bus)
  /\ Move(p, "undecided")
  /\ events' = [events EXCEPT ![p] = <<>>]
  /\ UNCHANGED <<screen, bus, wish, excused>>

\* The reply to Notify brings the id.
LearnId(p) ==
  /\ stage[p] = "shown"
  /\ Move(p, "waiting")
  /\ UNCHANGED <<serverVars, bus, wish, excused>>

\* await_decision, for one event: go on waiting, or answer.
Verdict(p, signal) ==
  CASE signal.id # p -> "waiting"
    [] signal = Invoked(p, "approve") -> "approved"
    [] signal = Invoked(p, "deny") -> "denied"
    [] signal = Closed(p, Dismissed) -> "denied"
    [] OTHER -> "undecided"

ReadEvent(p) ==
  /\ stage[p] = "waiting"
  /\ events[p] # <<>>
  /\ Move(p, Verdict(p, Head(events[p])))
  /\ events' = [events EXCEPT ![p] =
                  IF stage'[p] = "waiting" THEN Tail(@) ELSE <<>>]
  /\ UNCHANGED <<screen, bus, wish, excused>>

StreamEnds(p) ==
  /\ stage[p] = "waiting"
  /\ events[p] = <<>>
  /\ ~bus
  /\ Move(p, "undecided")
  /\ UNCHANGED <<serverVars, bus, wish, excused>>

\* A signal still on its way when the time is up is not read any more.
TimeOut(p) ==
  /\ stage[p] = "waiting"
  /\ Move(p, "closing")
  /\ events' = [events EXCEPT ![p] = <<>>]
  /\ excused' = [excused EXCEPT ![p] = TRUE]
  /\ UNCHANGED <<screen, bus, wish>>

CloseNotification(p) ==
  /\ stage[p] = "closing"
  /\ Move(p, "undecided")
  /\ screen' = [screen EXCEPT ![p] = FALSE]
  /\ IF screen[p] THEN Emit(<<Closed(p, "closed")>>) ELSE UNCHANGED events
  /\ UNCHANGED <<bus, wish, excused>>

-----------------------------------------------------------------------------
(* The notification server and the user.                                    *)

Show(p) ==
  /\ stage[p] = "subscribed"
  /\ bus
  /\ Move(p, "shown")
  /\ screen' = [screen EXCEPT ![p] = TRUE]
  /\ UNCHANGED <<events, bus, wish, excused>>

Wish(action) == IF action = "approve" THEN "approved" ELSE "denied"

\* Faulty Press: the close overtakes the click, as it may when each signal has
\* a subscription of its own.
PressUnordered(p, action) ==
  /\ bus
  /\ screen[p]
  /\ screen' = [screen EXCEPT ![p] = FALSE]
  /\ wish' = [wish EXCEPT ![p] = Wish(action)]
  /\ Emit(<<Closed(p, Dismissed), Invoked(p, action)>>)
  /\ UNCHANGED <<stage, bus, excused>>

\* A click: the action, then the close.
Press(p, action) ==
  /\ bus
  /\ screen[p]
  /\ screen' = [screen EXCEPT ![p] = FALSE]
  /\ wish' = [wish EXCEPT ![p] = Wish(action)]
  /\ Emit(<<Invoked(p, action), Closed(p, Dismissed)>>)
  /\ UNCHANGED <<stage, bus, excused>>

Dismiss(p) ==
  /\ bus
  /\ screen[p]
  /\ screen' = [screen EXCEPT ![p] = FALSE]
  /\ wish' = [wish EXCEPT ![p] = "denied"]
  /\ Emit(<<Closed(p, Dismissed)>>)
  /\ UNCHANGED <<stage, bus, excused>>

\* The server drops the notification of its own accord.
Expire(p) ==
  /\ bus
  /\ screen[p]
  /\ screen' = [screen EXCEPT ![p] = FALSE]
  /\ Emit(<<Closed(p, "expired")>>)
  /\ UNCHANGED <<stage, bus, wish, excused>>

BusDies ==
  /\ bus
  /\ bus' = FALSE
  /\ screen' = [p \in Prompts |-> FALSE]
  /\ excused' = [p \in Prompts |-> TRUE]
  /\ UNCHANGED <<stage, events, wish>>

-----------------------------------------------------------------------------
TaskStep(p) ==
  \/ Subscribe(p)
  \/ CannotAsk(p)
  \/ Show(p)
  \/ LearnId(p)
  \/ ReadEvent(p)
  \/ StreamEnds(p)
  \/ TimeOut(p)
  \/ CloseNotification(p)

Next ==
  \/ \E p \in Prompts :
       \/ TaskStep(p)
       \/ \E action \in {"approve", "deny"} : Press(p, action)
       \/ Dismiss(p)
       \/ Expire(p)
  \/ BusDies

Spec == Init /\ [][Next]_vars

\* A task that can go on does, the server replies or the call fails, and the
\* timer fires.
Fairness == \A p \in Prompts : WF_vars(stage[p] # "idle" /\ TaskStep(p))

TypeOK ==
  /\ stage \in [Prompts -> {"idle", "subscribed", "shown", "waiting", "closing"}
                           \union Answers]
  /\ events \in [Prompts -> Seq(Signals)]
  /\ screen \in [Prompts -> BOOLEAN] /\ bus \in BOOLEAN
  /\ wish \in [Prompts -> {"none", "approved", "denied"}]
  /\ excused \in [Prompts -> BOOLEAN]

\* What the user does with a prompt waits in its stream, ahead of anything else
\* about it, also when the click comes before the reply that brings the id.
ClickIsQueued ==
  \A p \in Prompts :
    wish[p] # "none" /\ stage[p] \in {"shown", "waiting"} =>
      \E i \in DOMAIN events[p] :
        /\ Verdict(p, events[p][i]) = wish[p]
        /\ \A j \in 1..(i - 1) : events[p][j].id # p

\* What the rest of the system sees of a prompt.
Answer(p) == CASE stage[p] = "idle" -> "none"
               [] stage[p] \in Answers -> stage[p]
               [] OTHER -> "open"
=============================================================================
