------------------------------- MODULE Prompt -------------------------------
(***************************************************************************)
(* What a confirmation prompt promises, on whichever device it is shown:   *)
(* it ends once, with what the user did first or with no decision, and     *)
(* what the user did is passed over only if the prompt was excused: its    *)
(* time was up, or the device lost the means to hear the user.             *)
(***************************************************************************)
CONSTANT Prompts

VARIABLES wish,     \* what the user did first: "none", "approved", "denied"
          excused,  \* the prompt need not hear the user any more
          answer    \* "none", "open", or what the request was answered with

vars == <<wish, excused, answer>>

Decisions == {"approved", "denied"}

Init ==
  /\ wish = [p \in Prompts |-> "none"]
  /\ excused = [p \in Prompts |-> FALSE]
  /\ answer = [p \in Prompts |-> "none"]

Ask(p) ==
  /\ answer[p] = "none"
  /\ answer' = [answer EXCEPT ![p] = "open"]
  /\ UNCHANGED <<wish, excused>>

Act(p, d) ==
  /\ answer[p] = "open"
  /\ wish[p] = "none"
  /\ wish' = [wish EXCEPT ![p] = d]
  /\ UNCHANGED <<excused, answer>>

Excuse(some) ==
  /\ excused' = [p \in Prompts |-> excused[p] \/ p \in some]
  /\ UNCHANGED <<wish, answer>>

End(p) ==
  /\ answer[p] = "open"
  /\ \/ wish[p] # "none" /\ answer' = [answer EXCEPT ![p] = wish[p]]
     \/ (wish[p] = "none" \/ excused[p])
        /\ answer' = [answer EXCEPT ![p] = "undecided"]
  /\ UNCHANGED <<wish, excused>>

Next ==
  \/ \E p \in Prompts :
       Ask(p) \/ End(p) \/ \E d \in Decisions : Act(p, d)
  \/ \E some \in SUBSET Prompts : Excuse(some)

Spec == Init /\ [][Next]_vars

\* A decision is what the user did first; that is passed over only if excused.
FirstWins ==
  \A p \in Prompts :
    /\ answer[p] \in Decisions => answer[p] = wish[p]
    /\ answer[p] = "undecided" => wish[p] = "none" \/ excused[p]

\* A prompt ends once.
AnswerStays ==
  [][\A p \in Prompts :
       answer[p] \notin {"none", "open"} => answer'[p] = answer[p]]_vars

\* Every prompt ends.
Ends == \A p \in Prompts : answer[p] = "open" ~> answer[p] \notin {"none", "open"}
=============================================================================
