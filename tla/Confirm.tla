------------------------------ MODULE Confirm -------------------------------
(***************************************************************************)
(* The prompts of confirmation requests, on desktops and on phones side by *)
(* side, and what they promise together.  Dispatch has what the agent      *)
(* makes of their answers.                                                 *)
(***************************************************************************)
EXTENDS Naturals, Sequences, FiniteSets

CONSTANTS OnDesktop, OnPhone,  \* prompts of one desktop and of one phone
          MaxTaps              \* bound: broadcasts under way on the phone

ASSUME PlacesDiffer == OnDesktop \intersect OnPhone = {}

VARIABLES dStage, dEvents, dScreen, dBus, dWish, dExcused,
          pStage, pQueue, pPending, pScreen, pTaps, pListening, pWish, pExcused

desktopVars == <<dStage, dEvents, dScreen, dBus, dWish, dExcused>>
phoneVars == <<pStage, pQueue, pPending, pScreen, pTaps, pListening, pWish, pExcused>>
vars == <<desktopVars, phoneVars>>

Desktop == INSTANCE DesktopPrompt WITH Prompts <- OnDesktop,
  stage <- dStage, events <- dEvents, screen <- dScreen, bus <- dBus,
  wish <- dWish, excused <- dExcused

Phone == INSTANCE PhonePrompt WITH Prompts <- OnPhone,
  stage <- pStage, queue <- pQueue, pending <- pPending, screen <- pScreen,
  taps <- pTaps, listening <- pListening, wish <- pWish, excused <- pExcused

Init == Desktop!Init /\ Phone!Init

Next ==
  \/ Desktop!Next /\ UNCHANGED phoneVars
  \/ Phone!Next /\ UNCHANGED desktopVars

Spec == Init /\ [][Next]_vars

FairSpec == Spec /\ Desktop!Fairness /\ Phone!Fairness

TypeOK == Desktop!TypeOK /\ Phone!TypeOK

\* What the user does with a desktop's prompt waits in its stream, ahead of
\* anything else about it (portal.rs:177-180, :228-229).
ClickIsQueued == Desktop!ClickIsQueued

-----------------------------------------------------------------------------
AllPrompts == OnDesktop \union OnPhone

PromiseWish == [p \in AllPrompts |-> IF p \in OnDesktop THEN dWish[p] ELSE pWish[p]]
PromiseExcused ==
  [p \in AllPrompts |-> IF p \in OnDesktop THEN dExcused[p] ELSE pExcused[p]]
PromiseAnswer ==
  [p \in AllPrompts |-> IF p \in OnDesktop THEN Desktop!Answer(p) ELSE Phone!Answer(p)]

Promise == INSTANCE Prompt WITH Prompts <- AllPrompts, wish <- PromiseWish,
                                excused <- PromiseExcused, answer <- PromiseAnswer

\* A click that comes before the prompt knows its own id, signals of other
\* prompts, a close that follows the click, a second tap, and an answer that
\* races the deadline: the prompt still ends with what its user did first.
ImplementsPrompt == Promise!Spec

\* Every prompt that was asked for ends, so that no request blocks for ever.
PromptsEnd == Promise!Ends
=============================================================================
