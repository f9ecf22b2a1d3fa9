---------------------------- MODULE ConfirmProofs ----------------------------
(***************************************************************************)
(* Prompts on desktops and phones implement Prompt, for any number of them *)
(* and of broadcasts under way.                                            *)
(***************************************************************************)
EXTENDS Confirm, TLAPS

\* A notification is on a desktop's screen while its task is there for it, the
\* user has done nothing yet, and no signal about it has been sent.
Fresh(p) ==
  LET unseen == \A i \in DOMAIN dEvents[p] : dEvents[p][i].id # p
  IN  /\ dScreen[p] => /\ dBus /\ dWish[p] = "none"
                       /\ dStage[p] \in {"shown", "waiting", "closing"}
                       /\ unseen
      /\ dStage[p] \in {"idle", "subscribed"} => dWish[p] = "none" /\ unseen

\* Where a desktop need not hear the user.
Excusable(p) == ~dBus \/ dStage[p] = "closing" => dExcused[p]

\* Signals about a prompt the user has left alone decide nothing.
LeftAlone(p) ==
  dStage[p] \in {"shown", "waiting"} /\ dWish[p] = "none" =>
    \A i \in DOMAIN dEvents[p] :
      dEvents[p][i].id = p => Desktop!Verdict(p, dEvents[p][i]) = "undecided"

\* ClickIsQueued, of one prompt.
Queued(p) ==
  dStage[p] \in {"shown", "waiting"} /\ dWish[p] # "none" =>
    \E i \in DOMAIN dEvents[p] :
      /\ Desktop!Verdict(p, dEvents[p][i]) = dWish[p]
      /\ \A j \in 1..(i - 1) : dEvents[p][j].id # p

DesktopAt(p) == Fresh(p) /\ Excusable(p) /\ LeftAlone(p) /\ Queued(p)

DesktopInv == Desktop!TypeOK /\ \A p \in OnDesktop : DesktopAt(p)

\* A phone's notification is there while its thread polls or leaves, and the
\* receiver finds the queue of a prompt that polls.
PhoneShows ==
  \A p \in OnPhone :
    /\ p \in pScreen => pStage[p] \in {"polling", "leaveApproved", "leaveDenied", "leaveUndecided"}
    /\ pStage[p] = "polling" => p \in pPending

\* Before a phone's prompt nobody taps it, and what the receiver puts in the
\* queue of one that polls is what the user did first.
QueueIsWish ==
  \A p \in OnPhone :
    /\ pStage[p] = "idle" => pQueue[p] = <<>> /\ pWish[p] = "none"
    /\ pWish[p] = "none" => \A i \in DOMAIN pTaps : pTaps[i].id # p
    /\ pStage[p] = "polling" /\ pQueue[p] # <<>> => Head(pQueue[p]) = pWish[p]

\* The first broadcast about a prompt says what the user did first, and it is
\* there if the queue is empty and there is a receiver.
TapIsWish ==
  \A p \in OnPhone :
    pStage[p] = "polling" /\ pQueue[p] = <<>> =>
      /\ \A i \in DOMAIN pTaps :
           pTaps[i].id = p /\ (\A j \in 1..(i - 1) : pTaps[j].id # p) =>
             pTaps[i].decision = pWish[p]
      /\ pWish[p] # "none" /\ pListening => \E i \in DOMAIN pTaps : pTaps[i].id = p

\* What a thread leaves with, and where a phone need not hear the user.
LeavesTrue ==
  /\ ~pListening => pTaps = <<>>
  /\ \A p \in OnPhone :
       /\ pStage[p] = "leaveApproved" => pWish[p] = "approved"
       /\ pStage[p] = "leaveDenied" => pWish[p] = "denied"
       /\ pStage[p] = "leaveUndecided" \/ ~pListening => pExcused[p]

PhoneInv ==
  /\ Phone!TypeOK /\ pTaps \in Seq([id : OnPhone, decision : Phone!Decisions])
  /\ PhoneShows /\ QueueIsWish /\ TapIsWish /\ LeavesTrue

IInv == DesktopInv /\ PhoneInv
-----------------------------------------------------------------------------
(* The phone.                                                               *)

LEMMA ElementsOf ==
  ASSUME NEW S, NEW s \in Seq(S)
  PROVE  DOMAIN s = 1..Len(s) /\ Len(s) \in Nat /\ \A i \in DOMAIN s : s[i] \in S
  OBVIOUS

LEMMA AppendOf ==
  ASSUME NEW S, NEW s \in Seq(S), NEW e \in S
  PROVE  /\ Append(s, e) \in Seq(S)
         /\ DOMAIN Append(s, e) = 1..Len(s) + 1
         /\ \A i \in 1..Len(s) : Append(s, e)[i] = s[i]
         /\ Append(s, e)[Len(s) + 1] = e
  OBVIOUS

LEMMA PhoneInit == Phone!Init => PhoneInv
<1> SUFFICES ASSUME Phone!Init PROVE PhoneInv
    OBVIOUS
<1>1. Phone!TypeOK /\ pTaps \in Seq([id : OnPhone, decision : Phone!Decisions])
    BY DEF Phone!Init, Phone!TypeOK, Phone!Stages
<1>2. PhoneShows /\ QueueIsWish /\ TapIsWish /\ LeavesTrue
    BY DEF Phone!Init, PhoneShows, QueueIsWish, TapIsWish, LeavesTrue
<1>3. QED
    BY <1>1, <1>2 DEF PhoneInv

LEMMA PhoneShowStep ==
  ASSUME PhoneInv, NEW p \in OnPhone, Phone!Show(p)
  PROVE  PhoneInv'
<1> USE DEF PhoneInv
<1>1. Phone!TypeOK' /\ pTaps' \in Seq([id : OnPhone, decision : Phone!Decisions])
    BY DEF Phone!Show, Phone!TypeOK, Phone!Stages
<1>2. PhoneShows'
    BY DEF Phone!Show, Phone!TypeOK, PhoneShows
<1>3. QueueIsWish'
    BY DEF Phone!Show, Phone!TypeOK, QueueIsWish
<1>4. TapIsWish'
    BY DEF Phone!Show, Phone!TypeOK, QueueIsWish, TapIsWish
<1>5. LeavesTrue'
    BY DEF Phone!Show, Phone!TypeOK, LeavesTrue
<1>6. QED
    BY <1>1, <1>2, <1>3, <1>4, <1>5

LEMMA PhoneTapStep ==
  ASSUME PhoneInv, NEW p \in OnPhone, NEW d \in Phone!Decisions, Phone!Tap(p, d)
  PROVE  PhoneInv'
<1> DEFINE S == [id : OnPhone, decision : Phone!Decisions]
           tap == [id |-> p, decision |-> d]
<1>0. /\ Phone!TypeOK /\ pTaps \in Seq(S) /\ tap \in S
      /\ PhoneShows /\ QueueIsWish /\ TapIsWish /\ LeavesTrue
    BY DEF PhoneInv
<1>1. \/ pListening /\ pTaps' = Append(pTaps, tap)
      \/ ~pListening /\ pTaps' = pTaps
    BY DEF Phone!Tap
<1>2. pTaps' \in Seq(S)
  <2>1. Append(pTaps, tap) \in Seq(S)
    <3> HIDE DEF S, tap
    <3> QED
        BY <1>0, AppendOf
  <2>2. QED
      BY <1>0, <1>1, <2>1
<1>3. Phone!TypeOK'
  <2>1. pScreen' \in SUBSET OnPhone
      BY <1>0 DEF Phone!Tap, Phone!TypeOK
  <2>2. pWish' \in [OnPhone -> Phone!Decisions \union {"none"}]
      BY <1>0 DEF Phone!Tap, Phone!TypeOK
  <2>3. \A i \in DOMAIN pTaps' : pTaps'[i] \in S
      BY <1>2, ElementsOf
  <2>4. UNCHANGED <<pStage, pQueue, pPending, pListening, pExcused>>
      BY DEF Phone!Tap
  <2>5. QED
      BY <1>0, <2>1, <2>2, <2>3, <2>4 DEF Phone!TypeOK
<1>4. PhoneShows'
    BY <1>0 DEF Phone!Tap, Phone!TypeOK, PhoneShows
<1>5. /\ pWish'[p] = IF pWish[p] = "none" THEN d ELSE pWish[p]
      /\ \A q \in OnPhone : q # p => pWish'[q] = pWish[q]
      /\ d # "none" /\ pStage[p] # "idle"
      /\ UNCHANGED <<pStage, pQueue, pListening, pExcused>>
    BY <1>0 DEF Phone!Tap, Phone!TypeOK, PhoneShows, Phone!Decisions
<1>6. DOMAIN pTaps = 1..Len(pTaps) /\ Len(pTaps) \in Nat
    BY <1>0, ElementsOf
<1>7. pListening =>
        /\ DOMAIN pTaps' = 1..Len(pTaps) + 1
        /\ \A i \in 1..Len(pTaps) : pTaps'[i] = pTaps[i]
        /\ pTaps'[Len(pTaps) + 1].id = p /\ pTaps'[Len(pTaps) + 1].decision = d
    BY <1>0, <1>1, AppendOf
<1>8. \A q \in OnPhone : pWish'[q] = "none" => \A i \in DOMAIN pTaps' : pTaps'[i].id # q
  <2>1. SUFFICES ASSUME NEW q \in OnPhone, pWish'[q] = "none", NEW i \in DOMAIN pTaps'
                 PROVE  pTaps'[i].id # q
      OBVIOUS
  <2>2. q # p /\ pWish[q] = "none"
      BY <1>5, <2>1
  <2>3. \A j \in DOMAIN pTaps : pTaps[j].id # q
      BY <1>0, <2>2 DEF QueueIsWish
  <2>4. CASE ~pListening
      BY <1>1, <2>1, <2>3, <2>4
  <2>5. CASE pListening
    <3>1. i \in DOMAIN pTaps \/ i = Len(pTaps) + 1
        BY <1>6, <1>7, <2>1, <2>5
    <3>2. QED
        BY <1>6, <1>7, <2>2, <2>3, <2>5, <3>1
  <2>6. QED
      BY <2>4, <2>5
<1>9. QueueIsWish'
  <2>1. \A q \in OnPhone : pQueue[q] # <<>> => Head(pQueue[q]) # "none"
      BY <1>0 DEF Phone!TypeOK, Phone!Decisions
  <2>2. QED
      BY <1>0, <1>5, <1>8, <2>1 DEF QueueIsWish
<1>10. TapIsWish'
  <2>1. CASE pListening
    <3>1. SUFFICES ASSUME NEW q \in OnPhone, pStage[q] = "polling", pQueue[q] = <<>>
                   PROVE  /\ \A i \in DOMAIN pTaps' :
                               pTaps'[i].id = q /\ (\A j \in 1..(i - 1) : pTaps'[j].id # q) =>
                                 pTaps'[i].decision = pWish'[q]
                          /\ pWish'[q] # "none" => \E i \in DOMAIN pTaps' : pTaps'[i].id = q
        BY <1>5 DEF TapIsWish
    <3>2. ASSUME NEW i \in DOMAIN pTaps', pTaps'[i].id = q,
                 \A j \in 1..(i - 1) : pTaps'[j].id # q
          PROVE  pTaps'[i].decision = pWish'[q]
      <4>1. CASE i \in 1..Len(pTaps)
        <5>1. pTaps[i].id = q /\ \A j \in 1..(i - 1) : pTaps[j].id # q
            BY <1>6, <1>7, <2>1, <3>2, <4>1
        <5>2. pTaps[i].decision = pWish[q] /\ pWish[q] # "none"
            BY <1>0, <1>6, <3>1, <4>1, <5>1 DEF TapIsWish, QueueIsWish
        <5>3. QED
            BY <1>5, <1>7, <2>1, <4>1, <5>2
      <4>2. CASE i = Len(pTaps) + 1
        <5>1. q = p /\ \A j \in DOMAIN pTaps : pTaps[j].id # p
            BY <1>6, <1>7, <2>1, <3>2, <4>2
        <5>2. pWish[p] = "none"
            BY <1>0, <2>1, <3>1, <5>1 DEF TapIsWish
        <5>3. QED
            BY <1>5, <1>7, <2>1, <4>2, <5>1, <5>2
      <4>3. QED
          BY <1>6, <1>7, <2>1, <3>2, <4>1, <4>2
    <3>3. pWish'[q] # "none" => \E i \in DOMAIN pTaps' : pTaps'[i].id = q
        BY <1>0, <1>5, <1>6, <1>7, <2>1, <3>1 DEF TapIsWish
    <3>4. QED
        BY <3>2, <3>3
  <2>2. CASE ~pListening
    <3>1. pTaps' = <<>>
        BY <1>0, <1>1, <2>2 DEF LeavesTrue
    <3>2. QED
        BY <1>5, <2>2, <3>1 DEF TapIsWish
  <2>3. QED
      BY <2>1, <2>2
<1>11. LeavesTrue'
    BY <1>0, <1>1, <1>5 DEF LeavesTrue
<1>12. QED
    BY <1>2, <1>3, <1>4, <1>9, <1>10, <1>11 DEF PhoneInv


LEMMA TailOf ==
  ASSUME NEW S, NEW s \in Seq(S), s # <<>>
  PROVE  /\ Head(s) = s[1] /\ Head(s) \in S /\ Tail(s) \in Seq(S)
         /\ Len(s) \in Nat \ {0} /\ DOMAIN s = 1..Len(s) /\ DOMAIN Tail(s) = 1..Len(s) - 1
         /\ \A i \in 1..Len(s) - 1 : Tail(s)[i] = s[i + 1]
  OBVIOUS

LEMMA PhoneSubmitStep ==
  ASSUME PhoneInv, Phone!Submit
  PROVE  PhoneInv'
<1> DEFINE S == [id : OnPhone, decision : Phone!Decisions]
           tap == Head(pTaps)
<1>0. /\ Phone!TypeOK /\ pTaps \in Seq(S)
      /\ PhoneShows /\ QueueIsWish /\ TapIsWish /\ LeavesTrue
    BY DEF PhoneInv
<1>1. /\ pTaps # <<>> /\ pTaps' = Tail(pTaps)
      /\ UNCHANGED <<pStage, pPending, pScreen, pListening, pWish, pExcused>>
      /\ pQueue' = IF tap.id \in pPending
                   THEN [pQueue EXCEPT ![tap.id] = Phone!Offered(@, tap.decision)]
                   ELSE pQueue
    BY DEF Phone!Submit
<1>2. /\ tap = pTaps[1] /\ tap \in S /\ pTaps' \in Seq(S)
      /\ Len(pTaps) \in Nat \ {0} /\ DOMAIN pTaps = 1..Len(pTaps)
      /\ DOMAIN pTaps' = 1..Len(pTaps) - 1
      /\ \A i \in 1..Len(pTaps) - 1 : pTaps'[i] = pTaps[i + 1]
  <2> HIDE DEF S
  <2> QED
      BY <1>0, <1>1, TailOf
<1>3. \A q \in OnPhone :
        pQueue'[q] = IF q = tap.id /\ q \in pPending
                     THEN Phone!Offered(pQueue[q], tap.decision) ELSE pQueue[q]
    BY <1>0, <1>1, <1>2 DEF Phone!TypeOK
<1>4. pQueue' \in [OnPhone -> {<<>>} \union {<<d>> : d \in Phone!Decisions}]
    BY <1>0, <1>1, <1>2 DEF Phone!TypeOK, Phone!Offered
<1>5. Phone!TypeOK'
  <2>1. \A i \in DOMAIN pTaps' : pTaps'[i] \in S
      BY <1>2, ElementsOf
  <2>2. QED
      BY <1>0, <1>1, <1>4, <2>1 DEF Phone!TypeOK
<1>6. PhoneShows' /\ LeavesTrue'
    BY <1>0, <1>1 DEF PhoneShows, LeavesTrue
<1>7. ASSUME NEW q \in OnPhone, pWish[q] = "none"
      PROVE  /\ \A i \in DOMAIN pTaps' : pTaps'[i].id # q
             /\ tap.id # q
  <2>1. \A i \in DOMAIN pTaps : pTaps[i].id # q
      BY <1>0, <1>7 DEF QueueIsWish
  <2>2. 1 \in DOMAIN pTaps
      BY <1>2
  <2>3. \A i \in DOMAIN pTaps' : i + 1 \in DOMAIN pTaps /\ pTaps'[i] = pTaps[i + 1]
      BY <1>2
  <2>4. QED
      BY <1>2, <2>1, <2>2, <2>3
<1>8. ASSUME NEW q \in OnPhone, pStage[q] = "polling", q = tap.id
      PROVE  pQueue'[q] # <<>> /\ Head(pQueue'[q]) = pWish[q]
  <2>1. q \in pPending
      BY <1>0, <1>8 DEF PhoneShows
  <2>2. CASE pQueue[q] = <<>>
    <3>1. pQueue'[q] = <<tap.decision>>
        BY <1>3, <1>8, <2>1, <2>2 DEF Phone!Offered
    <3>2. tap.decision = pWish[q]
        BY <1>0, <1>2, <1>8, <2>2 DEF TapIsWish
    <3>3. QED
        BY <3>1, <3>2
  <2>3. CASE pQueue[q] # <<>>
      BY <1>0, <1>3, <1>8, <2>3 DEF Phone!Offered, QueueIsWish
  <2>4. QED
      BY <2>2, <2>3
<1>9. QueueIsWish'
  <2>1. ASSUME NEW q \in OnPhone, pStage[q] = "idle" PROVE pQueue'[q] = <<>> /\ pWish[q] = "none"
      BY <1>0, <1>3, <1>7, <2>1 DEF QueueIsWish
  <2>2. ASSUME NEW q \in OnPhone, pStage[q] = "polling", pQueue'[q] # <<>>
        PROVE  Head(pQueue'[q]) = pWish[q]
      BY <1>0, <1>3, <1>8, <2>2 DEF QueueIsWish
  <2>3. QED
      BY <1>1, <1>7, <2>1, <2>2 DEF QueueIsWish
<1>10. TapIsWish'
  <2>1. SUFFICES ASSUME NEW q \in OnPhone, pStage[q] = "polling", pQueue'[q] = <<>>
                 PROVE  /\ \A i \in DOMAIN pTaps' :
                             pTaps'[i].id = q /\ (\A j \in 1..(i - 1) : pTaps'[j].id # q) =>
                               pTaps'[i].decision = pWish[q]
                        /\ pWish[q] # "none" /\ pListening =>
                             \E i \in DOMAIN pTaps' : pTaps'[i].id = q
      BY <1>1 DEF TapIsWish
  <2>2. q # tap.id /\ pQueue[q] = <<>>
      BY <1>3, <1>8, <2>1
  <2>3. ASSUME NEW i \in DOMAIN pTaps', pTaps'[i].id = q,
               \A j \in 1..(i - 1) : pTaps'[j].id # q
        PROVE  pTaps'[i].decision = pWish[q]
    <3>1. i + 1 \in DOMAIN pTaps /\ pTaps'[i] = pTaps[i + 1]
        BY <1>2, <2>3
    <3>2. \A j \in 1..i : pTaps[j].id # q
      <4>1. SUFFICES ASSUME NEW j \in 1..i PROVE pTaps[j].id # q
          OBVIOUS
      <4>2. CASE j = 1
          BY <1>2, <2>2, <4>2
      <4>3. CASE j # 1
        <5>1. j - 1 \in 1..(i - 1) /\ pTaps'[j - 1] = pTaps[j]
            BY <1>2, <2>3, <4>1, <4>3
        <5>2. QED
            BY <2>3, <5>1
      <4>4. QED
          BY <4>2, <4>3
    <3>3. pTaps[i + 1].id = q
        BY <2>3, <3>1
    <3>4. \A j \in 1..((i + 1) - 1) : pTaps[j].id # q
        BY <1>2, <2>3, <3>2
    <3>5. \A k \in DOMAIN pTaps :
            pTaps[k].id = q /\ (\A j \in 1..(k - 1) : pTaps[j].id # q) =>
              pTaps[k].decision = pWish[q]
        BY <1>0, <2>1, <2>2 DEF TapIsWish
    <3>6. pTaps[i + 1].decision = pWish[q]
        BY <3>1, <3>3, <3>4, <3>5, Zenon
    <3>7. QED
        BY <3>1, <3>6
  <2>4. ASSUME pWish[q] # "none", pListening PROVE \E i \in DOMAIN pTaps' : pTaps'[i].id = q
    <3>1. PICK i \in DOMAIN pTaps : pTaps[i].id = q
        BY <1>0, <2>1, <2>2, <2>4 DEF TapIsWish
    <3>2. i - 1 \in DOMAIN pTaps' /\ pTaps'[i - 1] = pTaps[i]
        BY <1>2, <2>2, <3>1
    <3>3. QED
        BY <3>1, <3>2
  <2>5. QED
      BY <2>3, <2>4
<1>11. QED
    BY <1>2, <1>5, <1>6, <1>9, <1>10 DEF PhoneInv

LEMMA PhoneThreadStep ==
  ASSUME PhoneInv, NEW p \in OnPhone, Phone!ThreadStep(p)
  PROVE  PhoneInv'
<1> USE DEF PhoneInv
<1>1. CASE Phone!Poll(p)
  <2>1. /\ pStage[p] = "polling" /\ pQueue[p] # <<>>
        /\ pQueue' = [pQueue EXCEPT ![p] = Tail(@)]
        /\ UNCHANGED <<pPending, pScreen, pTaps, pListening, pWish, pExcused>>
      BY <1>1 DEF Phone!Poll
  <2>2. /\ Head(pQueue[p]) \in Phone!Decisions /\ Tail(pQueue[p]) = <<>>
        /\ Head(pQueue[p]) = pWish[p]
    <3>1. PICK d \in Phone!Decisions : pQueue[p] = <<d>>
        BY <2>1 DEF Phone!TypeOK
    <3>2. Head(<<d>>) = d /\ Tail(<<d>>) = <<>>
        OBVIOUS
    <3>3. QED
        BY <2>1, <3>1, <3>2 DEF QueueIsWish
  <2>3. pStage' = [pStage EXCEPT ![p] = IF pWish[p] = "approved" THEN "leaveApproved"
                                        ELSE "leaveDenied"]
      BY <1>1, <2>2 DEF Phone!Poll
  <2>4. Phone!TypeOK'
      BY <2>1, <2>2, <2>3 DEF Phone!TypeOK, Phone!Stages
  <2>5. PhoneShows' /\ LeavesTrue'
      BY <2>1, <2>2, <2>3 DEF Phone!TypeOK, Phone!Decisions, PhoneShows, LeavesTrue
  <2>6. QueueIsWish' /\ TapIsWish'
      BY <2>1, <2>3 DEF Phone!TypeOK, QueueIsWish, TapIsWish
  <2>7. QED
      BY <2>1, <2>4, <2>5, <2>6
<1>2. CASE Phone!TimeOut(p)
  <2>1. Phone!TypeOK'
      BY <1>2 DEF Phone!TimeOut, Phone!TypeOK, Phone!Stages
  <2>2. PhoneShows' /\ LeavesTrue'
      BY <1>2 DEF Phone!TimeOut, Phone!TypeOK, PhoneShows, LeavesTrue
  <2>3. QueueIsWish' /\ TapIsWish' /\ pTaps' = pTaps
      BY <1>2 DEF Phone!TimeOut, Phone!TypeOK, QueueIsWish, TapIsWish
  <2>4. QED
      BY <2>1, <2>2, <2>3
<1>3. CASE Phone!Leave(p)
  <2>1. /\ pStage' = [pStage EXCEPT ![p] = Phone!Outcome(pStage[p])]
        /\ Phone!Outcome(pStage[p]) \in {"approved", "denied", "undecided"}
        /\ UNCHANGED <<pQueue, pTaps, pListening, pWish, pExcused>>
      BY <1>3 DEF Phone!Leave, Phone!Outcome
  <2>2. Phone!TypeOK'
      BY <1>3, <2>1 DEF Phone!Leave, Phone!TypeOK, Phone!Stages
  <2>3. PhoneShows' /\ LeavesTrue'
      BY <1>3, <2>1 DEF Phone!Leave, Phone!TypeOK, PhoneShows, LeavesTrue
  <2>4. QueueIsWish' /\ TapIsWish'
      BY <2>1 DEF Phone!TypeOK, QueueIsWish, TapIsWish
  <2>5. QED
      BY <2>1, <2>2, <2>3, <2>4
<1>4. QED
    BY <1>1, <1>2, <1>3 DEF Phone!ThreadStep

LEMMA PhoneStops ==
  ASSUME PhoneInv, Phone!StopListening
  PROVE  PhoneInv'
<1> USE DEF PhoneInv
<1>1. pTaps' = <<>> /\ pListening' = FALSE /\ pExcused' = [p \in OnPhone |-> TRUE]
      /\ UNCHANGED <<pStage, pQueue, pPending, pScreen, pWish>>
    BY DEF Phone!StopListening
<1>2. Phone!TypeOK' /\ pTaps' \in Seq([id : OnPhone, decision : Phone!Decisions])
  <2>1. pTaps' \in Seq([id : OnPhone, decision : Phone!Decisions]) /\ DOMAIN pTaps' = {}
      BY <1>1
  <2>2. QED
      BY <1>1, <2>1 DEF Phone!TypeOK
<1>3. PhoneShows' /\ QueueIsWish' /\ TapIsWish' /\ LeavesTrue'
    BY <1>1 DEF PhoneShows, QueueIsWish, TapIsWish, LeavesTrue
<1>4. QED
    BY <1>2, <1>3

LEMMA PhoneStep == PhoneInv /\ (Phone!Next \/ UNCHANGED phoneVars) => PhoneInv'
<1>1. ASSUME PhoneInv, UNCHANGED phoneVars PROVE PhoneInv'
    BY <1>1 DEF phoneVars, PhoneInv, Phone!TypeOK, PhoneShows, QueueIsWish, TapIsWish,
                LeavesTrue
<1>2. QED
    BY <1>1, PhoneShowStep, PhoneTapStep, PhoneSubmitStep, PhoneThreadStep, PhoneStops
       DEF Phone!Next

-----------------------------------------------------------------------------
(* The desktop.                                                             *)

LEMMA ConcatOf ==
  ASSUME NEW S, NEW s \in Seq(S), NEW t \in Seq(S)
  PROVE  /\ s \o t \in Seq(S)
         /\ Len(s) \in Nat /\ DOMAIN s = 1..Len(s)
         /\ Len(t) \in Nat /\ DOMAIN t = 1..Len(t)
         /\ DOMAIN (s \o t) = 1..Len(s) + Len(t)
         /\ \A i \in 1..Len(s) : (s \o t)[i] = s[i]
         /\ \A i \in 1..Len(t) : (s \o t)[Len(s) + i] = t[i]
  OBVIOUS

\* What the signals are for the prompts.
LEMMA Verdicts ==
  ASSUME NEW p \in OnDesktop, NEW q \in OnDesktop
  PROVE  /\ \A e \in Desktop!Signals : e.id # p => Desktop!Verdict(p, e) = "waiting"
         /\ \A e \in Desktop!Signals : e.id = p => Desktop!Verdict(p, e) \in Desktop!Answers
         /\ \A a \in {"approve", "deny"} :
              /\ Desktop!Invoked(q, a) \in Desktop!Signals /\ Desktop!Invoked(q, a).id = q
              /\ Desktop!Verdict(p, Desktop!Invoked(p, a)) = Desktop!Wish(a)
         /\ \A reason \in {"dismissed", "expired", "closed"} :
              Desktop!Closed(q, reason) \in Desktop!Signals /\ Desktop!Closed(q, reason).id = q
         /\ Desktop!Verdict(p, Desktop!Closed(p, "dismissed")) = "denied"
         /\ Desktop!Verdict(p, Desktop!Closed(p, "expired")) = "undecided"
<1> USE DEF Desktop!Signals, Desktop!Invoked, Desktop!Closed, Desktop!Dismissed
<1>1. \A e \in Desktop!Signals : e.id # p => Desktop!Verdict(p, e) = "waiting"
    BY DEF Desktop!Verdict
<1>2. \A e \in Desktop!Signals : e.id = p => Desktop!Verdict(p, e) \in Desktop!Answers
    BY DEF Desktop!Verdict, Desktop!Answers
<1>3. \A a \in {"approve", "deny"} :
        /\ Desktop!Invoked(q, a) \in Desktop!Signals /\ Desktop!Invoked(q, a).id = q
        /\ Desktop!Verdict(p, Desktop!Invoked(p, a)) = Desktop!Wish(a)
    BY DEF Desktop!Verdict, Desktop!Wish
<1>4. \A reason \in {"dismissed", "expired", "closed"} :
        Desktop!Closed(q, reason) \in Desktop!Signals /\ Desktop!Closed(q, reason).id = q
    OBVIOUS
<1>5. /\ Desktop!Verdict(p, Desktop!Closed(p, "dismissed")) = "denied"
      /\ Desktop!Verdict(p, Desktop!Closed(p, "expired")) = "undecided"
  <2>1. \A a \in {"approve", "deny"}, r \in {"dismissed", "expired"} :
          Desktop!Closed(p, r).member # Desktop!Invoked(p, a).member
      OBVIOUS
  <2>2. Desktop!Closed(p, "expired").arg # Desktop!Closed(p, "dismissed").arg
      OBVIOUS
  <2>3. Desktop!Closed(p, "expired").id = p /\ Desktop!Closed(p, "dismissed").id = p
      OBVIOUS
  <2> HIDE DEF Desktop!Invoked, Desktop!Closed, Desktop!Signals
  <2>4. QED
      BY <2>1, <2>2, <2>3 DEF Desktop!Verdict
<1> HIDE DEF Desktop!Signals, Desktop!Invoked, Desktop!Closed, Desktop!Dismissed
<1>6. QED
    BY <1>1, <1>2, <1>3, <1>4, <1>5

\* Signals about one prompt do not disturb another.
LEMMA OthersKept ==
  ASSUME Desktop!TypeOK, NEW q \in OnDesktop, DesktopAt(q),
         NEW t \in Seq(Desktop!Signals), \A i \in DOMAIN t : t[i].id # q,
         dEvents'[q] \in {dEvents[q], dEvents[q] \o t},
         dStage'[q] = dStage[q], dWish'[q] = dWish[q], dScreen'[q] = dScreen[q],
         dBus' = dBus, dExcused'[q] = dExcused[q]
  PROVE  DesktopAt(q)'
<1>1. dEvents[q] \in Seq(Desktop!Signals)
    BY DEF Desktop!TypeOK
<1>2. /\ Len(dEvents[q]) \in Nat /\ DOMAIN dEvents[q] = 1..Len(dEvents[q])
      /\ Len(t) \in Nat /\ DOMAIN t = 1..Len(t)
      /\ DOMAIN (dEvents[q] \o t) = 1..Len(dEvents[q]) + Len(t)
      /\ \A i \in 1..Len(dEvents[q]) : (dEvents[q] \o t)[i] = dEvents[q][i]
      /\ \A i \in 1..Len(t) : (dEvents[q] \o t)[Len(dEvents[q]) + i] = t[i]
  <2> DEFINE S == Desktop!Signals
  <2> HIDE DEF S
  <2> QED
      BY <1>1, ConcatOf DEF S
<1>3. \A i \in DOMAIN dEvents[q] : i \in DOMAIN dEvents'[q] /\ dEvents'[q][i] = dEvents[q][i]
    BY <1>2
<1>4. \A i \in DOMAIN dEvents'[q] : i \in DOMAIN dEvents[q] \/ dEvents'[q][i].id # q
  <2>1. CASE dEvents'[q] = dEvents[q]
      BY <2>1
  <2>2. CASE dEvents'[q] = dEvents[q] \o t
    <3>1. SUFFICES ASSUME NEW i \in DOMAIN dEvents'[q], i \notin DOMAIN dEvents[q]
                   PROVE  dEvents'[q][i].id # q
        OBVIOUS
    <3>2. i - Len(dEvents[q]) \in 1..Len(t) /\ dEvents'[q][i] = t[i - Len(dEvents[q])]
        BY <1>2, <2>2, <3>1
    <3>3. QED
        BY <1>2, <3>2
  <2>3. QED
      BY <2>1, <2>2
<1>5. Fresh(q)'
    BY <1>3, <1>4 DEF DesktopAt, Fresh
<1>6. Excusable(q)'
    BY DEF DesktopAt, Excusable
<1>7. LeftAlone(q)'
    BY <1>3, <1>4 DEF DesktopAt, LeftAlone, Desktop!Verdict
<1>8. Queued(q)'
  <2>1. SUFFICES ASSUME dStage[q] \in {"shown", "waiting"}, dWish[q] # "none"
                 PROVE  \E i \in DOMAIN dEvents'[q] :
                          /\ Desktop!Verdict(q, dEvents'[q][i]) = dWish[q]
                          /\ \A j \in 1..(i - 1) : dEvents'[q][j].id # q
      BY DEF Queued, Desktop!Verdict
  <2>2. PICK i \in DOMAIN dEvents[q] :
               /\ Desktop!Verdict(q, dEvents[q][i]) = dWish[q]
               /\ \A j \in 1..(i - 1) : dEvents[q][j].id # q
      BY <2>1 DEF DesktopAt, Queued
  <2>3. \A j \in 1..(i - 1) : j \in DOMAIN dEvents[q]
      BY <1>2, <2>2
  <2>4. QED
      BY <1>3, <2>2, <2>3
<1>9. QED
    BY <1>5, <1>6, <1>7, <1>8 DEF DesktopAt

LEMMA DesktopInit == Desktop!Init => DesktopInv
<1> SUFFICES ASSUME Desktop!Init PROVE DesktopInv
    OBVIOUS
<1>1. Desktop!TypeOK
    BY DEF Desktop!Init, Desktop!TypeOK
<1>2. ASSUME NEW p \in OnDesktop PROVE DesktopAt(p)
    BY DEF Desktop!Init, DesktopAt, Fresh, Excusable, LeftAlone, Queued
<1>3. QED
    BY <1>1, <1>2 DEF DesktopInv

\* A step of one prompt that sends no signals leaves the others as they are.
LEMMA OneMoves ==
  ASSUME DesktopInv, NEW p \in OnDesktop, DesktopAt(p)',
         \A q \in OnDesktop \ {p} :
           /\ dStage'[q] = dStage[q] /\ dWish'[q] = dWish[q] /\ dScreen'[q] = dScreen[q]
           /\ dEvents'[q] = dEvents[q] /\ dExcused'[q] = dExcused[q],
         dBus' = dBus
  PROVE  \A q \in OnDesktop : DesktopAt(q)'
<1>1. ASSUME NEW q \in OnDesktop, q # p PROVE DesktopAt(q)'
  <2>1. <<>> \in Seq(Desktop!Signals) /\ DOMAIN <<>> = {}
      OBVIOUS
  <2>2. QED
      BY <1>1, <2>1, OthersKept DEF DesktopInv
<1>2. QED
    BY <1>1

LEMMA DesktopBegins ==
  ASSUME DesktopInv, NEW p \in OnDesktop,
         \/ Desktop!Subscribe(p) \/ Desktop!CannotAsk(p) \/ Desktop!Show(p)
         \/ Desktop!LearnId(p) \/ Desktop!StreamEnds(p) \/ Desktop!TimeOut(p)
  PROVE  DesktopInv'
<1> USE DEF DesktopInv, Desktop!Move
<1>1. CASE Desktop!Subscribe(p)
  <2>1. Desktop!TypeOK' /\ DesktopAt(p)'
      BY <1>1 DEF Desktop!Subscribe, Desktop!serverVars, Desktop!TypeOK, DesktopAt, Fresh,
                  Excusable, LeftAlone, Queued
  <2>2. QED
      BY <1>1, <2>1, OneMoves DEF Desktop!Subscribe, Desktop!serverVars, Desktop!TypeOK
<1>2. CASE Desktop!CannotAsk(p)
  <2>1. Desktop!TypeOK' /\ DesktopAt(p)'
      BY <1>2 DEF Desktop!CannotAsk, Desktop!TypeOK, Desktop!Answers, DesktopAt, Fresh,
                  Excusable, LeftAlone, Queued
  <2>2. QED
      BY <1>2, <2>1, OneMoves DEF Desktop!CannotAsk, Desktop!TypeOK
<1>3. CASE Desktop!Show(p)
  <2>1. Desktop!TypeOK' /\ DesktopAt(p)'
      BY <1>3 DEF Desktop!Show, Desktop!TypeOK, DesktopAt, Fresh, Excusable, LeftAlone, Queued
  <2>2. QED
      BY <1>3, <2>1, OneMoves DEF Desktop!Show, Desktop!TypeOK
<1>4. CASE Desktop!LearnId(p)
  <2>1. Desktop!TypeOK' /\ DesktopAt(p)'
      BY <1>4 DEF Desktop!LearnId, Desktop!serverVars, Desktop!TypeOK, DesktopAt, Fresh,
                  Excusable, LeftAlone, Queued, Desktop!Verdict
  <2>2. QED
      BY <1>4, <2>1, OneMoves DEF Desktop!LearnId, Desktop!serverVars, Desktop!TypeOK
<1>5. CASE Desktop!StreamEnds(p)
  <2>1. Desktop!TypeOK' /\ DesktopAt(p)'
      BY <1>5 DEF Desktop!StreamEnds, Desktop!serverVars, Desktop!TypeOK, Desktop!Answers,
                  DesktopAt, Fresh, Excusable, LeftAlone, Queued
  <2>2. QED
      BY <1>5, <2>1, OneMoves DEF Desktop!StreamEnds, Desktop!serverVars, Desktop!TypeOK
<1>6. CASE Desktop!TimeOut(p)
  <2>1. Desktop!TypeOK' /\ DesktopAt(p)'
      BY <1>6 DEF Desktop!TimeOut, Desktop!TypeOK, DesktopAt, Fresh, Excusable, LeftAlone, Queued
  <2>2. QED
      BY <1>6, <2>1, OneMoves DEF Desktop!TimeOut, Desktop!TypeOK
<1>7. QED
    BY <1>1, <1>2, <1>3, <1>4, <1>5, <1>6

LEMMA DesktopReads ==
  ASSUME DesktopInv, NEW p \in OnDesktop, Desktop!ReadEvent(p)
  PROVE  DesktopInv'
<1> DEFINE e == Head(dEvents[p])
           to == Desktop!Verdict(p, e)
<1>0. Desktop!TypeOK /\ DesktopAt(p) /\ dEvents[p] \in Seq(Desktop!Signals)
    BY DEF DesktopInv, Desktop!TypeOK
<1>1. /\ dStage[p] = "waiting" /\ dEvents[p] # <<>>
      /\ dStage' = [dStage EXCEPT ![p] = to]
      /\ UNCHANGED <<dScreen, dBus, dWish, dExcused>>
    BY DEF Desktop!ReadEvent, Desktop!Move
<1>2. /\ e = dEvents[p][1] /\ e \in Desktop!Signals
      /\ Tail(dEvents[p]) \in Seq(Desktop!Signals)
      /\ Len(dEvents[p]) \in Nat \ {0} /\ DOMAIN dEvents[p] = 1..Len(dEvents[p])
      /\ DOMAIN Tail(dEvents[p]) = 1..Len(dEvents[p]) - 1
      /\ \A i \in 1..Len(dEvents[p]) - 1 : Tail(dEvents[p])[i] = dEvents[p][i + 1]
  <2> DEFINE S == Desktop!Signals
  <2>1. dEvents[p] \in Seq(S)
      BY <1>0
  <2> HIDE DEF S
  <2>2. /\ e = dEvents[p][1] /\ e \in S
        /\ Tail(dEvents[p]) \in Seq(S)
        /\ Len(dEvents[p]) \in Nat \ {0} /\ DOMAIN dEvents[p] = 1..Len(dEvents[p])
        /\ DOMAIN Tail(dEvents[p]) = 1..Len(dEvents[p]) - 1
        /\ \A i \in 1..Len(dEvents[p]) - 1 : Tail(dEvents[p])[i] = dEvents[p][i + 1]
      BY <1>1, <2>1, TailOf
  <2>3. QED
      BY <2>2 DEF S
<1>3. \/ e.id # p /\ to = "waiting"
      \/ e.id = p /\ to \in Desktop!Answers
    BY <1>2, Verdicts
<1>4. dStage'[p] = to
    BY <1>0, <1>1 DEF Desktop!TypeOK
<1>5. dEvents' = [dEvents EXCEPT ![p] = IF to = "waiting" THEN Tail(dEvents[p]) ELSE <<>>]
    BY <1>4 DEF Desktop!ReadEvent
<1>6. Desktop!TypeOK'
  <2>1. dStage' \in [OnDesktop -> {"idle", "subscribed", "shown", "waiting", "closing"}
                                  \union Desktop!Answers]
      BY <1>0, <1>1, <1>3 DEF Desktop!TypeOK
  <2>2. dEvents' \in [OnDesktop -> Seq(Desktop!Signals)]
      BY <1>0, <1>2, <1>5 DEF Desktop!TypeOK
  <2>3. QED
      BY <1>0, <1>1, <2>1, <2>2 DEF Desktop!TypeOK
<1>7. DesktopAt(p)'
  <2>1. CASE e.id # p
    <3>1. dStage'[p] = "waiting" /\ dEvents'[p] = Tail(dEvents[p])
        BY <1>0, <1>3, <1>4, <1>5, <2>1 DEF Desktop!TypeOK, Desktop!Answers
    <3>2. \A i \in DOMAIN dEvents'[p] : i + 1 \in DOMAIN dEvents[p] /\ dEvents'[p][i] = dEvents[p][i + 1]
        BY <1>2, <3>1
    <3>3. Fresh(p)' /\ Excusable(p)'
        BY <1>0, <1>1, <3>1, <3>2 DEF DesktopAt, Fresh, Excusable
    <3>4. LeftAlone(p)'
        BY <1>0, <1>1, <3>1, <3>2 DEF DesktopAt, LeftAlone, Desktop!Verdict
    <3>5. ASSUME dWish[p] # "none"
          PROVE  \E i \in DOMAIN dEvents'[p] :
                   /\ Desktop!Verdict(p, dEvents'[p][i]) = dWish[p]
                   /\ \A j \in 1..(i - 1) : dEvents'[p][j].id # p
      <4>1. PICK i \in DOMAIN dEvents[p] :
                   /\ Desktop!Verdict(p, dEvents[p][i]) = dWish[p]
                   /\ \A j \in 1..(i - 1) : dEvents[p][j].id # p
          BY <1>0, <1>1, <3>5 DEF DesktopAt, Queued
      <4>2. i # 1
          BY <1>0, <1>2, <1>3, <2>1, <4>1 DEF Desktop!TypeOK, Desktop!Answers
      <4>3. i - 1 \in DOMAIN dEvents'[p] /\ dEvents'[p][i - 1] = dEvents[p][i]
          BY <1>2, <3>1, <4>1, <4>2
      <4>4. \A j \in 1..(i - 1 - 1) : dEvents'[p][j].id # p
        <5>1. SUFFICES ASSUME NEW j \in 1..(i - 1 - 1) PROVE dEvents'[p][j].id # p
            OBVIOUS
        <5>2. j + 1 \in 1..(i - 1) /\ j \in DOMAIN dEvents'[p]
            BY <1>2, <3>1, <4>1
        <5>3. QED
            BY <3>2, <4>1, <5>2
      <4>5. QED
          BY <4>1, <4>3, <4>4
    <3>6. Queued(p)'
        BY <1>1, <3>5 DEF Queued, Desktop!Verdict
    <3>7. QED
        BY <3>3, <3>4, <3>6 DEF DesktopAt
  <2>2. CASE e.id = p
    <3>1. dStage'[p] \in Desktop!Answers /\ ~dScreen[p]
        BY <1>0, <1>1, <1>2, <1>3, <1>4, <2>2 DEF DesktopAt, Fresh
    <3>2. QED
        BY <1>0, <1>1, <3>1 DEF DesktopAt, Fresh, Excusable, LeftAlone, Queued, Desktop!Answers
  <2>3. QED
      BY <2>1, <2>2
<1>8. QED
    BY <1>0, <1>1, <1>5, <1>6, <1>7, OneMoves DEF DesktopInv, Desktop!TypeOK

\* A step of one prompt that sends signals about it leaves the others as they are.
LEMMA OneSignals ==
  ASSUME DesktopInv, NEW p \in OnDesktop, DesktopAt(p)',
         NEW t \in Seq(Desktop!Signals), \A i \in DOMAIN t : t[i].id = p, Desktop!Emit(t),
         \A q \in OnDesktop \ {p} :
           /\ dStage'[q] = dStage[q] /\ dWish'[q] = dWish[q] /\ dScreen'[q] = dScreen[q]
           /\ dExcused'[q] = dExcused[q],
         dBus' = dBus
  PROVE  /\ \A q \in OnDesktop : DesktopAt(q)'
         /\ dEvents' \in [OnDesktop -> Seq(Desktop!Signals)]
<1>1. \A q \in OnDesktop : dEvents'[q] \in {dEvents[q], dEvents[q] \o t}
    BY DEF Desktop!Emit
<1>2. ASSUME NEW q \in OnDesktop, q # p PROVE DesktopAt(q)'
    BY <1>1, <1>2, OthersKept DEF DesktopInv
<1>3. \A q \in OnDesktop : dEvents[q] \in Seq(Desktop!Signals)
    BY DEF DesktopInv, Desktop!TypeOK
<1>4. \A q \in OnDesktop : dEvents'[q] \in Seq(Desktop!Signals)
  <2> DEFINE S == Desktop!Signals
  <2>1. t \in Seq(S) /\ \A q \in OnDesktop : dEvents[q] \in Seq(S)
      BY <1>3
  <2> HIDE DEF S
  <2>2. \A q \in OnDesktop : dEvents'[q] \in Seq(S)
    <3>1. \A x \in Seq(S) : x \o t \in Seq(S)
        BY <2>1, ConcatOf
    <3>2. QED
        BY <1>1, <2>1, <3>1
  <2>3. QED
      BY <2>2 DEF S
<1>5. dEvents' \in [OnDesktop -> Seq(Desktop!Signals)]
    BY <1>4 DEF Desktop!Emit
<1>6. QED
    BY <1>2, <1>5

\* What a click, a dismissal or an expiry does: the signals come after all others,
\* and the first of them says what the user did.
LEMMA NotificationEnds ==
  ASSUME DesktopInv, NEW p \in OnDesktop, dScreen[p],
         dScreen' = [dScreen EXCEPT ![p] = FALSE],
         NEW w \in {"none", "approved", "denied"}, dWish' = [dWish EXCEPT ![p] = w],
         NEW t \in Seq(Desktop!Signals), \A i \in DOMAIN t : t[i].id = p, Desktop!Emit(t),
         1 \in DOMAIN t, w # "none" => Desktop!Verdict(p, t[1]) = w,
         w = "none" => \A i \in DOMAIN t : Desktop!Verdict(p, t[i]) = "undecided",
         UNCHANGED <<dStage, dBus, dExcused>>
  PROVE  DesktopInv'
<1> DEFINE s == dEvents[p]
<1>0. Desktop!TypeOK /\ DesktopAt(p) /\ s \in Seq(Desktop!Signals)
    BY DEF DesktopInv, Desktop!TypeOK
<1>1. /\ dStage[p] \in {"shown", "waiting", "closing"}
      /\ \A i \in DOMAIN s : s[i].id # p
    BY <1>0 DEF DesktopAt, Fresh
<1>2. /\ Len(s) \in Nat /\ DOMAIN s = 1..Len(s)
      /\ Len(t) \in Nat /\ DOMAIN t = 1..Len(t)
      /\ DOMAIN (s \o t) = 1..Len(s) + Len(t)
      /\ \A i \in 1..Len(s) : (s \o t)[i] = s[i]
      /\ \A i \in 1..Len(t) : (s \o t)[Len(s) + i] = t[i]
  <2> DEFINE S == Desktop!Signals
  <2>1. s \in Seq(S) /\ t \in Seq(S)
      BY <1>0
  <2> HIDE DEF S, s
  <2>2. QED
      BY <2>1, ConcatOf
<1>3. dStage[p] \in {"shown", "waiting"} => dEvents'[p] = s \o t
    BY DEF Desktop!Emit, Desktop!Subscribed
<1>4. dWish'[p] = w /\ ~dScreen'[p] /\ dStage'[p] = dStage[p]
    BY <1>0 DEF Desktop!TypeOK
<1> HIDE DEF s
<1>5. Fresh(p)' /\ Excusable(p)'
    BY <1>0, <1>1, <1>4 DEF DesktopAt, Fresh, Excusable
<1>6. LeftAlone(p)'
  <2>1. SUFFICES ASSUME dStage[p] \in {"shown", "waiting"}, w = "none",
                        NEW i \in 1..Len(s) + Len(t), (s \o t)[i].id = p
                 PROVE  Desktop!Verdict(p, (s \o t)[i]) = "undecided"
    <3>1. dStage[p] \in {"shown", "waiting"} => DOMAIN dEvents'[p] = 1..Len(s) + Len(t)
        BY <1>2, <1>3
    <3>2. QED
        BY <1>3, <1>4, <3>1, Zenon DEF LeftAlone, Desktop!Verdict
  <2>2. i \notin 1..Len(s)
      BY <1>1, <1>2, <2>1
  <2>3. i - Len(s) \in 1..Len(t) /\ (s \o t)[i] = t[i - Len(s)]
      BY <1>2, <2>1, <2>2
  <2>4. QED
      BY <1>2, <2>1, <2>3
<1>7. Queued(p)'
  <2>1. SUFFICES ASSUME dStage[p] \in {"shown", "waiting"}, w # "none"
                 PROVE  \E i \in DOMAIN (s \o t) :
                          /\ Desktop!Verdict(p, (s \o t)[i]) = w
                          /\ \A j \in 1..(i - 1) : (s \o t)[j].id # p
      BY <1>3, <1>4 DEF Queued, Desktop!Verdict
  <2>2. Len(s) + 1 \in DOMAIN (s \o t) /\ (s \o t)[Len(s) + 1] = t[1]
      BY <1>2
  <2>3. \A j \in 1..(Len(s) + 1 - 1) : (s \o t)[j].id # p
      BY <1>1, <1>2
  <2>4. QED
      BY <2>1, <2>2, <2>3
<1>8. DesktopAt(p)'
    BY <1>5, <1>6, <1>7 DEF DesktopAt
<1>9. /\ \A q \in OnDesktop : DesktopAt(q)'
      /\ dEvents' \in [OnDesktop -> Seq(Desktop!Signals)]
  <2>1. \A q \in OnDesktop \ {p} :
          /\ dStage'[q] = dStage[q] /\ dWish'[q] = dWish[q] /\ dScreen'[q] = dScreen[q]
          /\ dExcused'[q] = dExcused[q]
      BY <1>0 DEF Desktop!TypeOK
  <2>2. QED
      BY <1>8, <2>1, OneSignals
<1>10. Desktop!TypeOK'
    BY <1>0, <1>9 DEF Desktop!TypeOK
<1>11. QED
    BY <1>9, <1>10 DEF DesktopInv

LEMMA UserActs ==
  ASSUME DesktopInv, NEW p \in OnDesktop,
         \/ \E a \in {"approve", "deny"} : Desktop!Press(p, a)
         \/ Desktop!Dismiss(p) \/ Desktop!Expire(p)
  PROVE  DesktopInv'
<1>1. ASSUME NEW a \in {"approve", "deny"}, Desktop!Press(p, a) PROVE DesktopInv'
  <2> DEFINE t == <<Desktop!Invoked(p, a), Desktop!Closed(p, "dismissed")>>
  <2>1. /\ t \in Seq(Desktop!Signals) /\ \A i \in DOMAIN t : t[i].id = p
        /\ 1 \in DOMAIN t /\ Desktop!Verdict(p, t[1]) = Desktop!Wish(a)
      BY Verdicts
  <2>2. /\ dScreen[p] /\ dScreen' = [dScreen EXCEPT ![p] = FALSE]
        /\ dWish' = [dWish EXCEPT ![p] = Desktop!Wish(a)]
        /\ Desktop!Emit(t) /\ UNCHANGED <<dStage, dBus, dExcused>>
      BY <1>1 DEF Desktop!Press, Desktop!Dismissed
  <2>3. Desktop!Wish(a) \in {"approved", "denied"}
      BY DEF Desktop!Wish
  <2> HIDE DEF t
  <2>4. QED
      BY <2>1, <2>2, <2>3, NotificationEnds
<1>2. ASSUME Desktop!Dismiss(p) PROVE DesktopInv'
  <2> DEFINE t == <<Desktop!Closed(p, "dismissed")>>
  <2>1. /\ t \in Seq(Desktop!Signals) /\ \A i \in DOMAIN t : t[i].id = p
        /\ 1 \in DOMAIN t /\ Desktop!Verdict(p, t[1]) = "denied"
      BY Verdicts
  <2>2. /\ dScreen[p] /\ dScreen' = [dScreen EXCEPT ![p] = FALSE]
        /\ dWish' = [dWish EXCEPT ![p] = "denied"]
        /\ Desktop!Emit(t) /\ UNCHANGED <<dStage, dBus, dExcused>>
      BY <1>2 DEF Desktop!Dismiss, Desktop!Dismissed
  <2> HIDE DEF t
  <2>3. QED
      BY <2>1, <2>2, NotificationEnds
<1>3. ASSUME Desktop!Expire(p) PROVE DesktopInv'
  <2> DEFINE t == <<Desktop!Closed(p, "expired")>>
  <2>1. /\ t \in Seq(Desktop!Signals) /\ \A i \in DOMAIN t : t[i].id = p
        /\ 1 \in DOMAIN t /\ \A i \in DOMAIN t : Desktop!Verdict(p, t[i]) = "undecided"
      BY Verdicts
  <2>2. /\ dScreen[p] /\ dScreen' = [dScreen EXCEPT ![p] = FALSE]
        /\ Desktop!Emit(t) /\ UNCHANGED <<dStage, dBus, dWish, dExcused>>
      BY <1>3 DEF Desktop!Expire
  <2>3. dWish' = [dWish EXCEPT ![p] = "none"]
    <3>1. dWish[p] = "none" /\ dWish \in [OnDesktop -> {"none", "approved", "denied"}]
        BY <2>2 DEF DesktopInv, DesktopAt, Fresh, Desktop!TypeOK
    <3>2. QED
        BY <2>2, <3>1
  <2> HIDE DEF t
  <2>4. QED
      BY <2>1, <2>2, <2>3, NotificationEnds
<1>4. QED
    BY <1>1, <1>2, <1>3

LEMMA DesktopCloses ==
  ASSUME DesktopInv, NEW p \in OnDesktop, Desktop!CloseNotification(p)
  PROVE  DesktopInv'
<1> DEFINE t == <<Desktop!Closed(p, "closed")>>
<1>0. Desktop!TypeOK /\ DesktopAt(p)
    BY DEF DesktopInv
<1>1. /\ dStage[p] = "closing" /\ dStage' = [dStage EXCEPT ![p] = "undecided"]
      /\ dScreen' = [dScreen EXCEPT ![p] = FALSE]
      /\ UNCHANGED <<dBus, dWish, dExcused>>
      /\ Desktop!Emit(t) \/ dEvents' = dEvents
    BY DEF Desktop!CloseNotification, Desktop!Move
<1>2. t \in Seq(Desktop!Signals) /\ \A i \in DOMAIN t : t[i].id = p
    BY Verdicts
<1>3. DesktopAt(p)'
    BY <1>0, <1>1 DEF Desktop!TypeOK, DesktopAt, Fresh, Excusable, LeftAlone, Queued
<1> HIDE DEF t
<1>4. \A q \in OnDesktop \ {p} :
        /\ dStage'[q] = dStage[q] /\ dWish'[q] = dWish[q] /\ dScreen'[q] = dScreen[q]
        /\ dExcused'[q] = dExcused[q]
    BY <1>0, <1>1 DEF Desktop!TypeOK
<1>5. /\ \A q \in OnDesktop : DesktopAt(q)'
      /\ dEvents' \in [OnDesktop -> Seq(Desktop!Signals)]
  <2>1. CASE Desktop!Emit(t)
      BY <1>1, <1>2, <1>3, <1>4, <2>1, OneSignals
  <2>2. CASE dEvents' = dEvents
      BY <1>0, <1>1, <1>3, <1>4, <2>2, OneMoves DEF Desktop!TypeOK
  <2>3. QED
      BY <1>1, <2>1, <2>2
<1>6. Desktop!TypeOK'
    BY <1>0, <1>1, <1>5 DEF Desktop!TypeOK, Desktop!Answers
<1>7. QED
    BY <1>5, <1>6 DEF DesktopInv

LEMMA DesktopLosesBus ==
  ASSUME DesktopInv, Desktop!BusDies
  PROVE  DesktopInv'
<1>1. /\ dBus' = FALSE /\ dScreen' = [p \in OnDesktop |-> FALSE]
      /\ dExcused' = [p \in OnDesktop |-> TRUE] /\ UNCHANGED <<dStage, dEvents, dWish>>
    BY DEF Desktop!BusDies
<1>2. Desktop!TypeOK'
    BY <1>1 DEF DesktopInv, Desktop!TypeOK
<1>3. ASSUME NEW p \in OnDesktop PROVE DesktopAt(p)'
    BY <1>1 DEF DesktopInv, DesktopAt, Fresh, Excusable, LeftAlone, Queued, Desktop!Verdict
<1>4. QED
    BY <1>2, <1>3 DEF DesktopInv

LEMMA DesktopStep == DesktopInv /\ (Desktop!Next \/ UNCHANGED desktopVars) => DesktopInv'
<1>1. ASSUME DesktopInv, UNCHANGED desktopVars PROVE DesktopInv'
    BY <1>1 DEF desktopVars, DesktopInv, Desktop!TypeOK, DesktopAt, Fresh, Excusable,
                LeftAlone, Queued, Desktop!Verdict
<1>2. QED
    BY <1>1, DesktopBegins, DesktopReads, UserActs, DesktopCloses, DesktopLosesBus
       DEF Desktop!Next, Desktop!TaskStep

-----------------------------------------------------------------------------
(* The refinement.                                                          *)

\* What Promise sees of a prompt.
wishOf(p) == IF p \in OnDesktop THEN dWish[p] ELSE pWish[p]
excusedOf(p) == IF p \in OnDesktop THEN dExcused[p] ELSE pExcused[p]
answerOf(p) == IF p \in OnDesktop THEN Desktop!Answer(p) ELSE Phone!Answer(p)

LEMMA InitPromise == Init => Promise!Init
<1> SUFFICES ASSUME Init PROVE Promise!Init
    OBVIOUS
<1>1. ASSUME NEW p \in AllPrompts
      PROVE  wishOf(p) = "none" /\ excusedOf(p) = FALSE /\ answerOf(p) = "none"
  <2>1. CASE p \in OnDesktop
    <3>1. dStage[p] = "idle" /\ dWish[p] = "none" /\ dExcused[p] = FALSE
        BY <2>1 DEF Init, Desktop!Init
    <3>2. QED
        BY <2>1, <3>1 DEF Desktop!Answer, Desktop!Answers, wishOf, excusedOf, answerOf
  <2>2. CASE p \notin OnDesktop
      BY <2>2 DEF Init, Phone!Init, Phone!Answer, AllPrompts, wishOf, excusedOf, answerOf
  <2>3. QED
      BY <2>1, <2>2
<1>2. QED
    BY <1>1 DEF Promise!Init, PromiseWish, PromiseExcused, PromiseAnswer, wishOf, excusedOf,
                answerOf

\* The steps of Promise, as they change one prompt.
Same(p) == wishOf(p)' = wishOf(p) /\ excusedOf(p)' = excusedOf(p) /\ answerOf(p)' = answerOf(p)

Asked(p) ==
  /\ answerOf(p) = "none" /\ answerOf(p)' = "open"
  /\ wishOf(p)' = wishOf(p) /\ excusedOf(p)' = excusedOf(p)

Acted(p) ==
  /\ answerOf(p) = "open" /\ wishOf(p) = "none"
  /\ wishOf(p)' \in {"approved", "denied"}
  /\ excusedOf(p)' = excusedOf(p) /\ answerOf(p)' = answerOf(p)

Excused(p) ==
  /\ excusedOf(p)' = TRUE
  /\ wishOf(p)' = wishOf(p) /\ answerOf(p)' = answerOf(p)

Ended(p) ==
  /\ answerOf(p) = "open"
  /\ \/ wishOf(p) # "none" /\ answerOf(p)' = wishOf(p)
     \/ (wishOf(p) = "none" \/ excusedOf(p)) /\ answerOf(p)' = "undecided"
  /\ wishOf(p)' = wishOf(p) /\ excusedOf(p)' = excusedOf(p)

LEMMA OneStep ==
  ASSUME NEW p \in AllPrompts, \A q \in AllPrompts \ {p} : Same(q),
         Same(p) \/ Asked(p) \/ Acted(p) \/ Ended(p)
  PROVE  [Promise!Next]_(Promise!vars)
<1> DEFINE W == PromiseWish
           X == PromiseExcused
           A == PromiseAnswer
<1>1. \A q \in AllPrompts :
        /\ W[q] = wishOf(q) /\ X[q] = excusedOf(q) /\ A[q] = answerOf(q)
        /\ W'[q] = wishOf(q)' /\ X'[q] = excusedOf(q)' /\ A'[q] = answerOf(q)'
    BY DEF PromiseWish, PromiseExcused, PromiseAnswer, wishOf, excusedOf, answerOf
<1>2. /\ W = [q \in AllPrompts |-> W[q]] /\ W' = [q \in AllPrompts |-> W'[q]]
      /\ X = [q \in AllPrompts |-> X[q]] /\ X' = [q \in AllPrompts |-> X'[q]]
      /\ A = [q \in AllPrompts |-> A[q]] /\ A' = [q \in AllPrompts |-> A'[q]]
    BY DEF PromiseWish, PromiseExcused, PromiseAnswer
<1>3. \A q \in AllPrompts \ {p} : W'[q] = W[q] /\ X'[q] = X[q] /\ A'[q] = A[q]
    BY <1>1 DEF Same
<1> HIDE DEF W, X, A
<1>4. CASE Same(p)
  <2>1. W' = W /\ X' = X /\ A' = A
      BY <1>1, <1>2, <1>3, <1>4 DEF Same
  <2>2. QED
      BY <2>1 DEF Promise!vars, W, X, A, PromiseWish, PromiseExcused, PromiseAnswer
<1>5. CASE Asked(p)
  <2>1. A[p] = "none" /\ A' = [A EXCEPT ![p] = "open"] /\ W' = W /\ X' = X
      BY <1>1, <1>2, <1>3, <1>5 DEF Asked
  <2>2. Promise!Ask(p)
      BY <2>1 DEF Promise!Ask, W, X, A, PromiseWish, PromiseExcused, PromiseAnswer
  <2>3. QED
      BY <2>2 DEF Promise!Next
<1>6. CASE Acted(p)
  <2>1. A[p] = "open" /\ W[p] = "none" /\ W'[p] \in {"approved", "denied"}
        /\ W' = [W EXCEPT ![p] = W'[p]] /\ X' = X /\ A' = A
      BY <1>1, <1>2, <1>3, <1>6 DEF Acted
  <2>2. PICK d \in {"approved", "denied"} :
          A[p] = "open" /\ W[p] = "none" /\ W' = [W EXCEPT ![p] = d] /\ X' = X /\ A' = A
      BY <2>1
  <2>3. Promise!Act(p, d)
      BY <2>2 DEF Promise!Act, W, X, A, PromiseWish, PromiseExcused, PromiseAnswer
  <2>4. QED
      BY <2>3 DEF Promise!Next, Promise!Decisions
<1>7. CASE Ended(p)
  <2>1. /\ A[p] = "open" /\ W' = W /\ X' = X
        /\ \/ W[p] # "none" /\ A' = [A EXCEPT ![p] = W[p]]
           \/ (W[p] = "none" \/ X[p]) /\ A' = [A EXCEPT ![p] = "undecided"]
      BY <1>1, <1>2, <1>3, <1>7 DEF Ended
  <2>2. Promise!End(p)
      BY <2>1 DEF Promise!End, W, X, A, PromiseWish, PromiseExcused, PromiseAnswer
  <2>3. QED
      BY <2>2 DEF Promise!Next
<1>8. QED
    BY <1>4, <1>5, <1>6, <1>7

\* A step that excuses some prompts and changes nothing else.
LEMMA SomeExcused ==
  ASSUME NEW some \in SUBSET AllPrompts, \A q \in some : Excused(q),
         \A q \in AllPrompts \ some : Same(q),
         \A q \in AllPrompts : excusedOf(q) \in BOOLEAN
  PROVE  [Promise!Next]_(Promise!vars)
<1> DEFINE W == PromiseWish
           X == PromiseExcused
           A == PromiseAnswer
<1>1. \A q \in AllPrompts :
        /\ W[q] = wishOf(q) /\ X[q] = excusedOf(q) /\ A[q] = answerOf(q)
        /\ W'[q] = wishOf(q)' /\ X'[q] = excusedOf(q)' /\ A'[q] = answerOf(q)'
    BY DEF PromiseWish, PromiseExcused, PromiseAnswer, wishOf, excusedOf, answerOf
<1>2. /\ W = [q \in AllPrompts |-> W[q]] /\ W' = [q \in AllPrompts |-> W'[q]]
      /\ X' = [q \in AllPrompts |-> X'[q]]
      /\ A = [q \in AllPrompts |-> A[q]] /\ A' = [q \in AllPrompts |-> A'[q]]
    BY DEF PromiseWish, PromiseExcused, PromiseAnswer
<1> HIDE DEF W, X, A
<1>3. W' = W /\ A' = A
    BY <1>1, <1>2 DEF Same, Excused
<1>4. ASSUME NEW q \in AllPrompts PROVE X'[q] = (X[q] \/ q \in some)
  <2>1. CASE q \in some
      BY <1>1, <2>1 DEF Excused
  <2>2. CASE q \notin some
      BY <1>1, <2>2 DEF Same
  <2>3. QED
      BY <2>1, <2>2
<1>5. X' = [q \in AllPrompts |-> X[q] \/ q \in some]
    BY <1>2, <1>4
<1>6. Promise!Excuse(some)
    BY <1>3, <1>5 DEF Promise!Excuse, W, X, A, PromiseWish, PromiseExcused, PromiseAnswer
<1>7. QED
    BY <1>6 DEF Promise!Next

LEMMA ExcusedIsBoolean ==
  ASSUME DesktopInv, PhoneInv
  PROVE  \A q \in AllPrompts : excusedOf(q) \in BOOLEAN
  BY DEF DesktopInv, PhoneInv, Desktop!TypeOK, Phone!TypeOK, excusedOf, AllPrompts

\* A change to one prompt of a desktop.
LEMMA DesktopMove ==
  ASSUME DesktopInv, PhoneInv, UNCHANGED phoneVars, NEW p \in OnDesktop,
         \A q \in OnDesktop \ {p} :
           dStage'[q] = dStage[q] /\ dWish'[q] = dWish[q] /\ dExcused'[q] = dExcused[q],
         Same(p) \/ Asked(p) \/ Acted(p) \/ Excused(p) \/ Ended(p)
  PROVE  [Promise!Next]_(Promise!vars)
<1>1. \A q \in AllPrompts \ OnDesktop : Same(q)
    BY DEF Same, wishOf, excusedOf, answerOf, Phone!Answer, phoneVars
<1>2. p \in AllPrompts /\ \A q \in AllPrompts \ {p} : Same(q)
    BY <1>1 DEF AllPrompts, Same, wishOf, excusedOf, answerOf, Desktop!Answer
<1>3. CASE Excused(p)
  <2>1. {p} \in SUBSET AllPrompts /\ \A q \in {p} : Excused(q)
      BY <1>2, <1>3
  <2>2. QED
      BY <1>2, <2>1, ExcusedIsBoolean, SomeExcused
<1>4. QED
    BY <1>2, <1>3, OneStep

\* Each step of a desktop is one of Promise, or changes nothing in it.
LEMMA DesktopRefines ==
  ASSUME DesktopInv, PhoneInv, Desktop!Next, UNCHANGED phoneVars
  PROVE  [Promise!Next]_(Promise!vars)
<1>0. Desktop!TypeOK /\ \A p \in OnDesktop : DesktopAt(p)
    BY DEF DesktopInv
<1> USE DEF Desktop!Move, Desktop!TypeOK, Desktop!Answer, Desktop!Answers,
            wishOf, excusedOf, answerOf
<1>1. ASSUME NEW p \in OnDesktop, Desktop!Subscribe(p) PROVE [Promise!Next]_(Promise!vars)
  <2>1. Asked(p)
      BY <1>0, <1>1 DEF Desktop!Subscribe, Asked
  <2>2. QED
      BY <1>0, <1>1, <2>1, DesktopMove DEF Desktop!Subscribe
<1>2. ASSUME NEW p \in OnDesktop, Desktop!CannotAsk(p) PROVE [Promise!Next]_(Promise!vars)
  <2>1. dWish[p] = "none" \/ dExcused[p]
      BY <1>0, <1>2 DEF Desktop!CannotAsk, DesktopAt, Fresh, Excusable
  <2>2. Ended(p)
      BY <1>0, <1>2, <2>1 DEF Desktop!CannotAsk, Ended
  <2>3. QED
      BY <1>0, <1>2, <2>2, DesktopMove DEF Desktop!CannotAsk
<1>3. ASSUME NEW p \in OnDesktop, Desktop!Show(p) \/ Desktop!LearnId(p)
      PROVE  [Promise!Next]_(Promise!vars)
  <2>1. Same(p)
      BY <1>0, <1>3 DEF Desktop!Show, Desktop!LearnId, Same
  <2>2. QED
      BY <1>0, <1>3, <2>1, DesktopMove DEF Desktop!Show, Desktop!LearnId
<1>4. ASSUME NEW p \in OnDesktop, Desktop!ReadEvent(p) PROVE [Promise!Next]_(Promise!vars)
  <2> DEFINE e == dEvents[p][1]
             to == Desktop!Verdict(p, e)
  <2>1. /\ dStage[p] = "waiting" /\ dStage' = [dStage EXCEPT ![p] = to]
        /\ UNCHANGED <<dWish, dExcused>>
        /\ e \in Desktop!Signals /\ 1 \in DOMAIN dEvents[p]
    <3>1. dEvents[p] \in Seq(Desktop!Signals) /\ dEvents[p] # <<>>
        BY <1>0, <1>4 DEF Desktop!ReadEvent
    <3> DEFINE S == Desktop!Signals
    <3> HIDE DEF S
    <3>2. Head(dEvents[p]) = e /\ e \in S /\ 1 \in DOMAIN dEvents[p]
        BY <3>1, TailOf DEF S
    <3>3. QED
        BY <1>4, <3>2 DEF Desktop!ReadEvent, S
  <2>2. CASE e.id # p
    <3>1. to = "waiting"
        BY <2>1, <2>2, Verdicts
    <3> HIDE DEF to
    <3>2. Same(p)
        BY <1>0, <2>1, <3>1 DEF Same
    <3>3. QED
        BY <1>0, <2>1, <3>2, DesktopMove
  <2>3. CASE e.id = p
    <3>1. to \in {"approved", "denied", "undecided"}
        BY <2>1, <2>3, Verdicts
    <3>2. dWish[p] # "none" => to = dWish[p]
      <4>1. SUFFICES ASSUME dWish[p] # "none" PROVE to = dWish[p]
          OBVIOUS
      <4>2. PICK i \in DOMAIN dEvents[p] :
                   /\ Desktop!Verdict(p, dEvents[p][i]) = dWish[p]
                   /\ \A j \in 1..(i - 1) : dEvents[p][j].id # p
          BY <1>0, <2>1, <4>1 DEF DesktopAt, Queued
      <4>3. i \in Nat \ {0}
          BY <1>0, <4>2
      <4>4. i = 1
          BY <2>3, <4>2, <4>3
      <4>5. QED
          BY <4>2, <4>4
    <3>3. dWish[p] = "none" => to = "undecided"
        BY <1>0, <2>1, <2>3 DEF DesktopAt, LeftAlone
    <3> HIDE DEF to
    <3>4. Ended(p)
        BY <1>0, <2>1, <3>1, <3>2, <3>3 DEF Ended
    <3>5. QED
        BY <1>0, <2>1, <3>4, DesktopMove
  <2>4. QED
      BY <2>2, <2>3
<1>5. ASSUME NEW p \in OnDesktop, Desktop!StreamEnds(p) PROVE [Promise!Next]_(Promise!vars)
  <2>1. dExcused[p]
      BY <1>0, <1>5 DEF Desktop!StreamEnds, DesktopAt, Excusable
  <2>2. Ended(p)
      BY <1>0, <1>5, <2>1 DEF Desktop!StreamEnds, Ended
  <2>3. QED
      BY <1>0, <1>5, <2>2, DesktopMove DEF Desktop!StreamEnds
<1>6. ASSUME NEW p \in OnDesktop, Desktop!TimeOut(p) PROVE [Promise!Next]_(Promise!vars)
  <2>1. Excused(p)
      BY <1>0, <1>6 DEF Desktop!TimeOut, Excused
  <2>2. QED
      BY <1>0, <1>6, <2>1, DesktopMove DEF Desktop!TimeOut
<1>7. ASSUME NEW p \in OnDesktop, Desktop!CloseNotification(p)
      PROVE  [Promise!Next]_(Promise!vars)
  <2>1. dExcused[p]
      BY <1>0, <1>7 DEF Desktop!CloseNotification, DesktopAt, Excusable
  <2>2. Ended(p)
      BY <1>0, <1>7, <2>1 DEF Desktop!CloseNotification, Ended
  <2>3. QED
      BY <1>0, <1>7, <2>2, DesktopMove DEF Desktop!CloseNotification
<1>8. ASSUME NEW p \in OnDesktop,
             (\E a \in {"approve", "deny"} : Desktop!Press(p, a)) \/ Desktop!Dismiss(p)
      PROVE  [Promise!Next]_(Promise!vars)
  <2>1. PICK w \in {"approved", "denied"} :
          /\ dScreen[p] /\ dWish' = [dWish EXCEPT ![p] = w]
          /\ UNCHANGED <<dStage, dExcused>>
      BY <1>8 DEF Desktop!Press, Desktop!Dismiss, Desktop!Wish
  <2>2. dWish[p] = "none" /\ dStage[p] \in {"shown", "waiting", "closing"}
      BY <1>0, <2>1 DEF DesktopAt, Fresh
  <2>3. Acted(p)
      BY <1>0, <2>1, <2>2 DEF Acted
  <2>4. QED
      BY <1>0, <2>1, <2>3, DesktopMove
<1>9. ASSUME NEW p \in OnDesktop, Desktop!Expire(p) PROVE [Promise!Next]_(Promise!vars)
  <2>1. Same(p)
      BY <1>9 DEF Desktop!Expire, Same
  <2>2. QED
      BY <1>9, <2>1, DesktopMove DEF Desktop!Expire
<1>10. CASE Desktop!BusDies
  <2>1. OnDesktop \in SUBSET AllPrompts /\ \A p \in OnDesktop : Excused(p)
      BY <1>10 DEF AllPrompts, Desktop!BusDies, Excused
  <2>2. \A q \in AllPrompts \ OnDesktop : Same(q)
      BY DEF Same, Phone!Answer, phoneVars
  <2>3. QED
      BY <2>1, <2>2, ExcusedIsBoolean, SomeExcused
<1>11. QED
    BY <1>1, <1>2, <1>3, <1>4, <1>5, <1>6, <1>7, <1>8, <1>9, <1>10
       DEF Desktop!Next, Desktop!TaskStep

\* A change to one prompt of a phone.
LEMMA PhoneMove ==
  ASSUME DesktopInv, PhoneInv, UNCHANGED desktopVars, NEW p \in OnPhone,
         \A q \in OnPhone \ {p} :
           pStage'[q] = pStage[q] /\ pWish'[q] = pWish[q] /\ pExcused'[q] = pExcused[q],
         Same(p) \/ Asked(p) \/ Acted(p) \/ Excused(p) \/ Ended(p)
  PROVE  [Promise!Next]_(Promise!vars)
<1>1. \A q \in OnDesktop : Same(q)
    BY DEF Same, wishOf, excusedOf, answerOf, Desktop!Answer, desktopVars
<1>2. p \in AllPrompts /\ \A q \in AllPrompts \ {p} : Same(q)
    BY <1>1 DEF AllPrompts, Same, wishOf, excusedOf, answerOf, Phone!Answer
<1>3. CASE Excused(p)
  <2>1. {p} \in SUBSET AllPrompts /\ \A q \in {p} : Excused(q)
      BY <1>2, <1>3
  <2>2. QED
      BY <1>2, <2>1, ExcusedIsBoolean, SomeExcused
<1>4. QED
    BY <1>2, <1>3, OneStep

\* Each step of a phone is one of Promise, or changes nothing in it.
LEMMA PhoneRefines ==
  ASSUME DesktopInv, PhoneInv, Phone!Next, UNCHANGED desktopVars
  PROVE  [Promise!Next]_(Promise!vars)
<1>0. /\ Phone!TypeOK /\ PhoneShows /\ QueueIsWish /\ TapIsWish /\ LeavesTrue
      /\ \A p \in OnPhone : p \notin OnDesktop
    BY PlacesDiffer DEF PhoneInv
<1> USE DEF Phone!TypeOK, Phone!Answer, wishOf, excusedOf, answerOf
<1>1. ASSUME NEW p \in OnPhone, Phone!Show(p) PROVE [Promise!Next]_(Promise!vars)
  <2>1. Asked(p)
      BY <1>0, <1>1 DEF Phone!Show, Asked
  <2>2. QED
      BY <1>0, <1>1, <2>1, PhoneMove DEF Phone!Show
<1>2. ASSUME NEW p \in OnPhone, Phone!Poll(p) PROVE [Promise!Next]_(Promise!vars)
  <2>1. PICK s \in {"leaveApproved", "leaveDenied"} :
          /\ pStage[p] = "polling" /\ pStage' = [pStage EXCEPT ![p] = s]
          /\ UNCHANGED <<pWish, pExcused>>
      BY <1>2 DEF Phone!Poll
  <2>2. Same(p)
      BY <1>0, <2>1 DEF Same
  <2>3. QED
      BY <1>0, <2>1, <2>2, PhoneMove
<1>3. ASSUME NEW p \in OnPhone, Phone!TimeOut(p) PROVE [Promise!Next]_(Promise!vars)
  <2>1. Excused(p)
      BY <1>0, <1>3 DEF Phone!TimeOut, Excused
  <2>2. QED
      BY <1>0, <1>3, <2>1, PhoneMove DEF Phone!TimeOut
<1>4. ASSUME NEW p \in OnPhone, Phone!Leave(p) PROVE [Promise!Next]_(Promise!vars)
  <2>1. /\ pStage[p] \in {"leaveApproved", "leaveDenied", "leaveUndecided"}
        /\ pStage' = [pStage EXCEPT ![p] = Phone!Outcome(pStage[p])]
        /\ UNCHANGED <<pWish, pExcused>>
      BY <1>4 DEF Phone!Leave
  <2>2. \/ pStage[p] = "leaveApproved" /\ Phone!Outcome(pStage[p]) = "approved"
        \/ pStage[p] = "leaveDenied" /\ Phone!Outcome(pStage[p]) = "denied"
        \/ pStage[p] = "leaveUndecided" /\ Phone!Outcome(pStage[p]) = "undecided"
      BY <2>1 DEF Phone!Outcome
  <2>3. /\ pStage[p] = "leaveApproved" => pWish[p] = "approved"
        /\ pStage[p] = "leaveDenied" => pWish[p] = "denied"
        /\ pStage[p] = "leaveUndecided" => pExcused[p]
      BY <1>0 DEF LeavesTrue
  <2>4. pStage'[p] = Phone!Outcome(pStage[p])
      BY <1>0, <2>1
  <2>5. Ended(p)
      BY <1>0, <2>1, <2>2, <2>3, <2>4 DEF Ended
  <2>6. QED
      BY <1>0, <2>1, <2>5, PhoneMove
<1>5. ASSUME NEW p \in OnPhone, NEW d \in Phone!Decisions, Phone!Tap(p, d)
      PROVE  [Promise!Next]_(Promise!vars)
  <2>1. /\ pWish' = [pWish EXCEPT ![p] = IF pWish[p] = "none" THEN d ELSE pWish[p]]
        /\ UNCHANGED <<pStage, pExcused>> /\ d \in {"approved", "denied"}
        /\ pStage[p] \in {"polling", "leaveApproved", "leaveDenied", "leaveUndecided"}
      BY <1>0, <1>5 DEF Phone!Tap, Phone!Decisions, PhoneShows
  <2>2. CASE pWish[p] = "none"
    <3>1. Acted(p)
        BY <1>0, <2>1, <2>2 DEF Acted
    <3>2. QED
        BY <1>0, <2>1, <3>1, PhoneMove
  <2>3. CASE pWish[p] # "none"
    <3>1. Same(p)
        BY <1>0, <2>1, <2>3 DEF Same
    <3>2. QED
        BY <1>0, <2>1, <3>1, PhoneMove
  <2>4. QED
      BY <2>2, <2>3
<1>6. CASE Phone!Submit
  <2>1. UNCHANGED <<pStage, pWish, pExcused>>
      BY <1>6 DEF Phone!Submit
  <2>2. \A q \in AllPrompts \ {} : Same(q)
      BY <2>1 DEF AllPrompts, Same, Desktop!Answer, desktopVars
  <2> DEFINE some == {}
  <2>3. some \in SUBSET AllPrompts /\ \A q \in some : Excused(q)
      OBVIOUS
  <2> HIDE DEF some
  <2>4. \A q \in AllPrompts \ some : Same(q)
      BY <2>2 DEF some
  <2>5. QED
      BY <2>3, <2>4, ExcusedIsBoolean, SomeExcused
<1>7. CASE Phone!StopListening
  <2>1. OnPhone \in SUBSET AllPrompts /\ \A p \in OnPhone : Excused(p)
      BY <1>0, <1>7 DEF AllPrompts, Phone!StopListening, Excused
  <2>2. \A q \in AllPrompts \ OnPhone : Same(q)
      BY DEF AllPrompts, Same, Desktop!Answer, desktopVars
  <2>3. QED
      BY <2>1, <2>2, ExcusedIsBoolean, SomeExcused
<1>8. QED
    BY <1>1, <1>2, <1>3, <1>4, <1>5, <1>6, <1>7 DEF Phone!Next, Phone!ThreadStep

-----------------------------------------------------------------------------
(* The theorems.                                                            *)

\* The invariant holds throughout, for any prompts and any number of broadcasts.
THEOREM Inductive == Spec => []IInv
<1>1. Init => IInv
    BY DesktopInit, PhoneInit DEF Init, IInv
<1>2. IInv /\ [Next]_vars => IInv'
    BY DesktopStep, PhoneStep DEF IInv, Next, vars
<1>3. QED
    BY <1>1, <1>2, PTL DEF Spec

\* Every variable keeps its type.
THEOREM TypeCorrect == Spec => []TypeOK
<1>1. IInv => TypeOK
    BY DEF IInv, DesktopInv, PhoneInv, TypeOK
<1>2. QED
    BY <1>1, Inductive, PTL

\* What the user did with a desktop's prompt is the next that its task hears of it
\* (portal.rs:177-180, :228-229).
THEOREM ClickQueued == Spec => []ClickIsQueued
<1>1. IInv => ClickIsQueued
    BY DEF IInv, DesktopInv, DesktopAt, Queued, ClickIsQueued, Desktop!ClickIsQueued
<1>2. QED
    BY <1>1, Inductive, PTL

\* Prompts on desktops and phones end with what their user did first, or undecided
\* if the user did nothing or the prompt was excused.
THEOREM Implements == Spec => ImplementsPrompt
<1>1. Init => Promise!Init
    BY InitPromise
<1>2. IInv /\ [Next]_vars => [Promise!Next]_(Promise!vars)
  <2>1. ASSUME IInv, Desktop!Next, UNCHANGED phoneVars PROVE [Promise!Next]_(Promise!vars)
      BY <2>1, DesktopRefines DEF IInv
  <2>2. ASSUME IInv, Phone!Next, UNCHANGED desktopVars PROVE [Promise!Next]_(Promise!vars)
      BY <2>2, PhoneRefines DEF IInv
  <2>3. ASSUME IInv, UNCHANGED vars PROVE [Promise!Next]_(Promise!vars)
      BY <2>3 DEF vars, desktopVars, phoneVars, Promise!vars, Desktop!Answer, Phone!Answer,
                  PromiseWish, PromiseExcused, PromiseAnswer
  <2>4. QED
      BY <2>1, <2>2, <2>3 DEF Next
<1>3. QED
    BY <1>1, <1>2, Inductive, PTL DEF Spec, ImplementsPrompt, Promise!Spec


\* What follows for the devices from what Prompt promises, one abstract step at a
\* time: what a prompt ends with is right when it ends, and stays.
LEMMA PromiseStep ==
  ASSUME IInv, Promise!FirstWins, [Promise!Next]_(Promise!vars)
  PROVE  /\ Promise!FirstWins'
         /\ \A p \in AllPrompts :
              PromiseAnswer[p] \notin {"none", "open"} => PromiseAnswer'[p] = PromiseAnswer[p]
<1> DEFINE W == PromiseWish
           X == PromiseExcused
           A == PromiseAnswer
           Right(w, x, a) == /\ a \in {"approved", "denied"} => a = w
                             /\ a = "undecided" => w = "none" \/ x
           Kept(p) == /\ Right(W'[p], X'[p], A'[p])
                      /\ A[p] \notin {"none", "open"} => A'[p] = A[p]
<1>1. \A p \in AllPrompts : Right(W[p], X[p], A[p])
    BY DEF Promise!FirstWins, Promise!Decisions
<1>2. DOMAIN W = AllPrompts /\ DOMAIN X = AllPrompts /\ DOMAIN A = AllPrompts
    BY DEF PromiseWish, PromiseExcused, PromiseAnswer
<1>3. \A p \in AllPrompts : W[p] \in {"none", "approved", "denied"}
    BY DEF IInv, DesktopInv, PhoneInv, Desktop!TypeOK, Phone!TypeOK, Phone!Decisions,
           PromiseWish, AllPrompts
<1> HIDE DEF W, X, A
<1>4. ASSUME NEW p \in AllPrompts, NEW q \in AllPrompts, Promise!Ask(q) PROVE Kept(p)
  <2>1. A[q] = "none" /\ A' = [A EXCEPT ![q] = "open"] /\ W' = W /\ X' = X
      BY <1>4 DEF Promise!Ask, W, X, A
  <2>2. QED
      BY <1>1, <1>2, <2>1
<1>5. ASSUME NEW p \in AllPrompts, NEW q \in AllPrompts, NEW d, Promise!Act(q, d)
      PROVE  Kept(p)
  <2>1. /\ A[q] = "open" /\ W' = [W EXCEPT ![q] = d] /\ A' = A /\ X' = X
      BY <1>5 DEF Promise!Act, W, X, A
  <2>2. QED
      BY <1>1, <1>2, <2>1
<1>6. ASSUME NEW p \in AllPrompts, NEW some, Promise!Excuse(some) PROVE Kept(p)
  <2>1. /\ X' = [q \in AllPrompts |-> X[q] \/ q \in some] /\ W' = W /\ A' = A
      BY <1>6 DEF Promise!Excuse, W, X, A
  <2>2. X[p] => X'[p]
      BY <2>1, Zenon
  <2>3. QED
      BY <1>1, <2>1, <2>2
<1>7. ASSUME NEW p \in AllPrompts, NEW q \in AllPrompts, Promise!End(q) PROVE Kept(p)
  <2>1. /\ A[q] = "open" /\ W' = W /\ X' = X
        /\ \/ W[q] # "none" /\ A' = [A EXCEPT ![q] = W[q]]
           \/ (W[q] = "none" \/ X[q]) /\ A' = [A EXCEPT ![q] = "undecided"]
      BY <1>7 DEF Promise!End, W, X, A
  <2>2. QED
      BY <1>1, <1>2, <1>3, <2>1
<1>8. ASSUME UNCHANGED Promise!vars, NEW p \in AllPrompts PROVE Kept(p)
  <2>1. W' = W /\ X' = X /\ A' = A
      BY <1>8 DEF Promise!vars, W, X, A
  <2>2. QED
      BY <1>1, <2>1
<1> HIDE DEF Kept
<1>9. ASSUME NEW p \in AllPrompts PROVE Kept(p)
    BY <1>4, <1>5, <1>6, <1>7, <1>8 DEF Promise!Next
<1>10. Promise!FirstWins'
    BY <1>9 DEF Kept, Promise!FirstWins, Promise!Decisions, W, X, A
<1>11. QED
    BY <1>9, <1>10 DEF Kept, A

\* On desktops and phones alike a prompt ends once; a decision is what its user did
\* first, and what the user did is passed over only if time was up, the bus or the
\* service was lost (portal.rs:228-290, ConfirmManager.kt:53).
THEOREM UserDecides == Spec => []Promise!FirstWins /\ Promise!AnswerStays
<1>1. Promise!Init => Promise!FirstWins
    BY DEF Promise!Init, Promise!FirstWins, Promise!Decisions
<1>2. IInv /\ Promise!FirstWins /\ [Promise!Next]_(Promise!vars) =>
        /\ Promise!FirstWins'
        /\ [\A p \in AllPrompts :
              PromiseAnswer[p] \notin {"none", "open"} =>
                PromiseAnswer'[p] = PromiseAnswer[p]]_(Promise!vars)
    BY PromiseStep
<1>3. QED
    BY <1>1, <1>2, Implements, Inductive, PTL
    DEF ImplementsPrompt, Promise!Spec, Promise!AnswerStays
=============================================================================
