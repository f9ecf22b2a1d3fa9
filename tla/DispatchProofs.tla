--------------------------- MODULE DispatchProofs ---------------------------
(***************************************************************************)
(* The answers of failover and race, for any number of devices and         *)
(* requests.                                                               *)
(***************************************************************************)
EXTENDS Dispatch, FiniteSetTheorems, SequenceTheorems, TLAPS

\* The types, but for the order of the failover list.
Types ==
  /\ link \in [Devices -> {"absent", "up", "lost", "closed"}]
  /\ clients \subseteq Devices
  /\ strategy \in [Requests -> {"failover", "race", None}]
  /\ queue \in [Requests -> Seq(Devices)]
  /\ view \in [Requests -> [Devices -> Views]]
  /\ device \in [Requests -> [Devices -> Outcomes \union {"none", "asked", "unreadable"}]]
  /\ result \in [Requests -> Results \union {None}]

\* A request nobody made yet has left no trace, and nothing happens on a
\* device the agent did not send it to.
Fresh ==
  \A r \in Requests :
    /\ strategy[r] = None =>
         /\ result[r] = None
         /\ queue[r] = <<>>
         /\ \A d \in Devices : view[r][d] = "none"
    /\ \A d \in Devices : view[r][d] = "none" => device[r][d] = "none"

\* An exchange the agent has written off belongs to a closed connection, or to a
\* device that could not read it; one it has heard no decision from has said so.
ViewsTrue ==
  \A r \in Requests, d \in Devices :
    /\ view[r][d] = "noclient" => link[d] = "closed" \/ device[r][d] = "unreadable"
    /\ view[r][d] = "nodecision" => device[r][d] = "nodecision"
    /\ view[r][d] # "none" => link[d] # "absent"

\* An answer is heard once, and then the agent waits for nobody.
OneAnswer ==
  \A r \in Requests, d \in Devices :
    /\ view[r][d] \in {"answered", "left"} => result[r] # None
    /\ view[r][d] = "waiting" => result[r] = None

\* Failover has one exchange at a time.
OneAtATime ==
  \A r \in Requests :
    strategy[r] = "failover" =>
      /\ \A d \in Devices : view[r][d] # "left"
      /\ \A d, e \in Devices :
           view[r][d] \in {"waiting", "answered"}
             /\ view[r][e] \in {"waiting", "answered"} => d = e

\* Failover never remembers an abstention, a race has nothing queued.
Strategies ==
  \A r \in Requests :
    /\ strategy[r] = "failover" => \A d \in Devices : view[r][d] # "nodecision"
    /\ strategy[r] = "race" => queue[r] = <<>>

\* Who is in the table, or in a failover list, has connected.
Known ==
  /\ \A d \in clients : link[d] # "absent"
  /\ \A r \in Requests : \A i \in 1..Len(queue[r]) : link[queue[r][i]] # "absent"

IInv ==
  /\ Types
  /\ Fresh
  /\ ViewsTrue
  /\ OneAnswer
  /\ OneAtATime
  /\ Strategies
  /\ Known
  /\ AbstainersDoNotVeto

-----------------------------------------------------------------------------
\* A snapshot of the table lists connected devices.
LEMMA SnapshotTyped ==
  ASSUME clients \subseteq Devices, NEW order \in SetToSeqs(clients)
  PROVE  /\ order \in Seq(Devices)
         /\ \A i \in 1..Len(order) : order[i] \in clients
<1>1. Cardinality(clients) \in Nat
    BY DevicesFinite, FS_Subset, FS_CardinalityType
<1>2. order \in [1..Cardinality(clients) -> clients]
    BY DEF SetToSeqs
<1>3. QED
    BY <1>1, <1>2

\* The agent starts without connections and without requests.
LEMMA InitIInv == Init => IInv
<1> SUFFICES ASSUME Init PROVE IInv
    OBVIOUS
<1>1. Types
    BY DEF Init, Types, Views
<1>2. Fresh /\ ViewsTrue /\ OneAnswer /\ OneAtATime /\ Strategies /\ Known
    BY NoneIsNoValue
    DEF Init, Fresh, ViewsTrue, OneAnswer, OneAtATime, Strategies, Known
<1>3. AbstainersDoNotVeto
    BY NoneIsNoValue DEF Init, AbstainersDoNotVeto
<1>4. QED
    BY <1>1, <1>2, <1>3 DEF IInv

\* Connections come and go without touching the requests.
LEMMA LinkStep ==
  ASSUME IInv, NEW d \in Devices,
         Register(d) \/ Lose(d) \/ NoticeLoss(d) \/ Leave(d)
  PROVE  IInv'
<1> USE DEF IInv
<1>1. Types'
    BY DEF Types, Register, Lose, NoticeLoss, Leave
<1>2. \A e \in Devices :
        /\ link[e] = "closed" => link'[e] = "closed"
        /\ link[e] # "absent" => link'[e] # "absent"
        /\ link'[e] = "up" => link[e] \in {"up", "absent"}
    BY DEF Types, Register, Lose, NoticeLoss, Leave
<1>3. UNCHANGED <<strategy, queue, view, device, result>>
    BY DEF Register, Lose, NoticeLoss, Leave
<1>4. Fresh' /\ OneAnswer' /\ OneAtATime' /\ Strategies'
    BY <1>3 DEF Fresh, OneAnswer, OneAtATime, Strategies
<1>5. ViewsTrue'
    BY <1>2, <1>3 DEF ViewsTrue
<1>6. Known'
  <2>1. \A e \in clients' : link'[e] # "absent"
      BY <1>2 DEF Known, Types, Register, Lose, NoticeLoss, Leave
  <2>2. \A r \in Requests : \A i \in 1..Len(queue[r]) : queue[r][i] \in Devices
      BY DEF Types
  <2>3. QED
      BY <1>2, <1>3, <2>1, <2>2 DEF Known
<1>7. AbstainersDoNotVeto'
    BY <1>2, <1>3 DEF AbstainersDoNotVeto, ViewsTrue
<1>8. QED
    BY <1>1, <1>4, <1>5, <1>6, <1>7

\* A request for a link or a file: nothing of it was there before.
LEMMA AskFailoverStep ==
  ASSUME IInv, NEW r \in Requests, AskFailover(r) PROVE IInv'
<1> USE DEF IInv
<1>1. PICK order \in SetToSeqs(clients) :
        queue' = [queue EXCEPT ![r] = order]
    BY DEF AskFailover
<1>2. order \in Seq(Devices) /\ \A i \in 1..Len(order) : order[i] \in clients
    BY SnapshotTyped DEF Types
<1>3. /\ strategy[r] = None
      /\ strategy' = [strategy EXCEPT ![r] = "failover"]
      /\ UNCHANGED <<link, clients, view, device, result>>
    BY DEF AskFailover
<1>4. Types'
    BY <1>1, <1>2, <1>3 DEF Types
<1>5. result[r] = None /\ \A d \in Devices : view[r][d] = "none"
    BY <1>3 DEF Fresh
<1>6. Fresh' /\ ViewsTrue' /\ OneAnswer'
    BY <1>1, <1>3, NoneIsNoValue DEF Types, Fresh, ViewsTrue, OneAnswer
<1>7. OneAtATime'
    BY <1>3, <1>5 DEF Types, OneAtATime
<1>8. Strategies'
    BY <1>1, <1>3, <1>5 DEF Types, Strategies
<1>9. Known'
    BY <1>1, <1>2, <1>3 DEF Types, Known
<1>10. AbstainersDoNotVeto'
    BY <1>3 DEF Types, AbstainersDoNotVeto
<1>11. QED
    BY <1>4, <1>6, <1>7, <1>8, <1>9, <1>10

\* A confirmation: one exchange with every device of the table.
LEMMA AskRaceStep ==
  ASSUME IInv, NEW r \in Requests, AskRace(r) PROVE IInv'
<1> USE DEF IInv
<1>1. /\ strategy[r] = None
      /\ strategy' = [strategy EXCEPT ![r] = "race"]
      /\ UNCHANGED <<link, clients, queue, device, result>>
      /\ view' = [view EXCEPT ![r] =
            [d \in Devices |-> IF d \in clients THEN "waiting" ELSE "none"]]
    BY DEF AskRace
<1>2. Types'
    BY <1>1 DEF Types, Views
<1>3. /\ result[r] = None
      /\ \A d \in Devices : view[r][d] = "none" /\ device[r][d] = "none"
      /\ queue[r] = <<>>
    BY <1>1 DEF Fresh
<1>4. Fresh'
    BY <1>1, <1>3, NoneIsNoValue DEF Types, Fresh
<1>5. ViewsTrue' /\ OneAnswer'
    BY <1>1, <1>3 DEF Types, ViewsTrue, OneAnswer, Known
<1>6. OneAtATime' /\ Strategies'
    BY <1>1, <1>3 DEF Types, OneAtATime, Strategies
<1>7. Known'
    BY <1>1 DEF Known
<1>8. AbstainersDoNotVeto'
    BY <1>1, <1>3, NoneIsNoValue DEF Types, AbstainersDoNotVeto, Results
<1>9. QED
    BY <1>2, <1>4, <1>5, <1>6, <1>7, <1>8

\* Failover sends to the next target when it waits for nobody.
LEMMA TryNextStep ==
  ASSUME IInv, NEW r \in Requests, TryNext(r) PROVE IInv'
<1> USE DEF IInv
<1> DEFINE d == Head(queue[r])
<1>1. /\ strategy[r] = "failover"
      /\ result[r] = None
      /\ \A e \in Devices : view[r][e] \in {"none", "noclient"}
    BY DEF TryNext, Open, Waiting, Types, Views, Strategies, OneAnswer
<1>2. /\ queue[r] \in Seq(Devices)
      /\ queue[r] # <<>>
    BY DEF TryNext, Types
<1>3. d \in Devices /\ d = queue[r][1] /\ 1 \in 1..Len(queue[r])
    BY <1>2
<1>4. /\ Tail(queue[r]) \in Seq(Devices)
      /\ \A i \in 1..Len(Tail(queue[r])) :
           i + 1 \in 1..Len(queue[r]) /\ Tail(queue[r])[i] = queue[r][i + 1]
    BY <1>2
<1>5. /\ view' = [view EXCEPT ![r][d] = "waiting"]
      /\ queue' = [queue EXCEPT ![r] = Tail(queue[r])]
      /\ UNCHANGED <<link, clients, strategy, device, result>>
    BY DEF TryNext
<1>6. link[d] # "absent"
    BY <1>3 DEF Known
<1> HIDE DEF d
<1>7. Types'
    BY <1>3, <1>4, <1>5 DEF Types, Views
<1>a. /\ view'[r][d] = "waiting"
      /\ \A q \in Requests, e \in Devices : q # r \/ e # d => view'[q][e] = view[q][e]
      /\ \A q \in Requests : q # r => queue'[q] = queue[q]
    BY <1>3, <1>5 DEF Types
<1>b. strategy[r] # None
    BY <1>1, NoneIsNoValue
<1>c. Fresh'
    BY <1>5, <1>a, <1>b DEF Fresh
<1>d. ViewsTrue'
    BY <1>5, <1>6, <1>a DEF ViewsTrue
<1>e. OneAnswer'
    BY <1>1, <1>5, <1>a DEF OneAnswer
<1>8. Fresh' /\ ViewsTrue' /\ OneAnswer'
    BY <1>c, <1>d, <1>e
<1>9. OneAtATime' /\ Strategies'
  <2>1. /\ \A e \in Devices \ {d} : view'[r][e] = view[r][e]
        /\ \A q \in Requests \ {r} : \A e \in Devices : view'[q][e] = view[q][e]
      BY <1>a
  <2>2. \A q \in Requests \ {r} : strategy'[q] = strategy[q] /\ queue'[q] = queue[q]
      BY <1>5, <1>a
  <2>3. strategy'[r] = "failover"
      BY <1>1, <1>5
  <2>4. \A e \in Devices : view'[r][e] \in {"waiting", "answered"} => e = d
      BY <1>1, <2>1
  <2>5. \A e \in Devices : view'[r][e] \notin {"left", "nodecision"}
      BY <1>1, <1>a, <2>1
  <2>6. OneAtATime'
      BY <1>5, <2>1, <2>4, <2>5 DEF OneAtATime
  <2>7. Strategies'
      BY <1>5, <2>1, <2>2, <2>3, <2>5 DEF Strategies
  <2>8. QED
      BY <2>6, <2>7
<1>10. Known'
  <2>1. queue'[r] = Tail(queue[r])
      BY <1>5 DEF Types
  <2>2. \A i \in 1..Len(queue'[r]) : link[queue'[r][i]] # "absent"
      BY <1>4, <2>1 DEF Known
  <2>3. \A q \in Requests \ {r} : \A i \in 1..Len(queue'[q]) : link[queue'[q][i]] # "absent"
      BY <1>a DEF Known
  <2>4. QED
      BY <1>5, <2>2, <2>3 DEF Known
<1>11. AbstainersDoNotVeto'
  <2>1. UNCHANGED <<link, strategy, device, result>> /\ strategy[r] # "race"
      BY <1>1, <1>5
  <2>2. \A q \in Requests, e \in Devices :
          strategy'[q] = "race" => view'[q][e] = view[q][e]
      BY <1>a, <2>1
  <2>3. QED
      BY <2>1, <2>2 DEF AbstainersDoNotVeto
<1>12. QED
    BY <1>7, <1>8, <1>9, <1>10, <1>11

\* An exchange fails with its connection, or with the device's end of the stream.
LEMMA FailStep ==
  ASSUME IInv, NEW r \in Requests, NEW d \in Devices, Fail(r, d) PROVE IInv'
<1> USE DEF IInv
<1>1. /\ result[r] = None
      /\ view[r][d] = "waiting"
      /\ link[d] = "closed" \/ device[r][d] = "unreadable"
      /\ view' = [view EXCEPT ![r][d] = "noclient"]
      /\ UNCHANGED <<link, clients, strategy, queue, device, result>>
    BY DEF Fail, Open
<1>2. Types'
    BY <1>1 DEF Types, Views
<1>3. Fresh' /\ ViewsTrue' /\ OneAnswer'
    BY <1>1 DEF Types, Fresh, ViewsTrue, OneAnswer
<1>4. OneAtATime' /\ Strategies'
    BY <1>1 DEF Types, OneAtATime, Strategies
<1>5. Known'
    BY <1>1 DEF Known
<1>6. AbstainersDoNotVeto'
    BY <1>1, NoneIsNoValue DEF Types, AbstainersDoNotVeto, Results
<1>7. QED
    BY <1>2, <1>3, <1>4, <1>5, <1>6

\* An abstention is remembered; any other answer ends the request.
LEMMA ReceiveStep ==
  ASSUME IInv, NEW r \in Requests, NEW d \in Devices, Receive(r, d)
  PROVE  IInv'
<1> USE DEF IInv
<1>1. /\ strategy[r] \in {"failover", "race"}
      /\ result[r] = None
      /\ view[r][d] = "waiting"
      /\ device[r][d] \in Outcomes
      /\ UNCHANGED <<link, clients, strategy, queue, device>>
    BY DEF Receive, AnswerArrives, Open, Types
<1>2. Known'
    BY <1>1 DEF Known
<1>3. CASE /\ strategy[r] = "race"
           /\ device[r][d] = "nodecision"
           /\ view' = [view EXCEPT ![r][d] = "nodecision"]
           /\ UNCHANGED result
  <2>1. Types'
      BY <1>1, <1>3 DEF Types, Views
  <2>2. Fresh' /\ ViewsTrue' /\ OneAnswer'
      BY <1>1, <1>3 DEF Types, Fresh, ViewsTrue, OneAnswer
  <2>3. OneAtATime' /\ Strategies'
      BY <1>1, <1>3 DEF Types, OneAtATime, Strategies
  <2>4. AbstainersDoNotVeto'
      BY <1>1, <1>3, NoneIsNoValue DEF Types, AbstainersDoNotVeto, Results
  <2>5. QED
      BY <1>2, <2>1, <2>2, <2>3, <2>4
<1>4. CASE /\ strategy[r] = "failover" \/ device[r][d] # "nodecision"
           /\ Decide(r, d, Heard(device[r][d]))
  <2> DEFINE answer == Heard(device[r][d])
  <2>1. /\ answer \in Results
        /\ strategy[r] = "race" => answer \in Decisions
      BY <1>1, <1>4 DEF Heard, Outcomes, Decisions, Results
  <2>2. /\ result' = [result EXCEPT ![r] = answer]
        /\ view' = [view EXCEPT ![r] =
              [e \in Devices |->
                 IF e = d THEN "answered"
                 ELSE IF view[r][e] = "waiting" THEN "left" ELSE view[r][e]]]
      BY <1>4 DEF Decide
  <2>3. answer # None
      BY <2>1, NoneIsNoValue
  <2> HIDE DEF answer
  <2>4. Types'
      BY <1>1, <2>1, <2>2 DEF Types, Views
  <2>5. Fresh' /\ ViewsTrue' /\ OneAnswer'
      BY <1>1, <2>2, <2>3, NoneIsNoValue
      DEF Types, Fresh, ViewsTrue, OneAnswer
  <2>6. strategy[r] = "failover" =>
          \A e \in Devices : e # d => view[r][e] \notin {"waiting", "answered"}
      BY <1>1 DEF OneAtATime
  <2>7. OneAtATime' /\ Strategies'
      BY <1>1, <2>2, <2>6 DEF Types, OneAtATime, Strategies
  <2>8. AbstainersDoNotVeto'
      BY <1>1, <2>1, <2>2 DEF Types, AbstainersDoNotVeto, Decisions
  <2>9. QED
      BY <1>2, <2>4, <2>5, <2>7, <2>8
<1>5. QED
    BY <1>3, <1>4 DEF Receive

\* Nobody is left: what the agent reports is what the devices it can reach
\* told it.
LEMMA ConcludeStep ==
  ASSUME IInv, NEW r \in Requests, Conclude(r) PROVE IInv'
<1> USE DEF IInv
<1>1. /\ result[r] = None
      /\ strategy[r] \in {"failover", "race"}
      /\ \A d \in Devices : view[r][d] \in {"none", "nodecision", "noclient"}
      /\ UNCHANGED <<link, clients, strategy, queue, view, device>>
    BY DEF Conclude, Open, Waiting, Types, Views, OneAnswer
<1>2. PICK v \in {"nodecision", "noclient"} : result' = [result EXCEPT ![r] = v]
    BY DEF Conclude
<1>3. Types'
    BY <1>1, <1>2 DEF Types, Results
<1>4. v # None /\ strategy[r] # None
    BY <1>1, NoneIsNoValue DEF Results
<1>5. Fresh'
    BY <1>1, <1>2, <1>4 DEF Types, Fresh
<1>6. ViewsTrue'
    BY <1>1 DEF ViewsTrue
<1>7. OneAnswer'
  <2>1. /\ \A s \in Requests : s # r => result'[s] = result[s]
        /\ result'[r] # None
      BY <1>2, <1>4 DEF Types
  <2>2. \A d \in Devices : view[r][d] # "waiting"
      BY <1>1
  <2>3. QED
      BY <1>1, <2>1, <2>2 DEF OneAnswer
<1>8. OneAtATime' /\ Strategies' /\ Known'
    BY <1>1 DEF OneAtATime, Strategies, Known
<1>9. AbstainersDoNotVeto'
    BY <1>1, <1>2 DEF Types, AbstainersDoNotVeto, ViewsTrue
<1>10. QED
    BY <1>3, <1>5, <1>6, <1>7, <1>8, <1>9

\* A prompt that opens or ends on a device, or cannot, whether or not the agent
\* waits.
LEMMA DeviceStep ==
  ASSUME IInv, NEW r \in Requests, NEW d \in Devices,
         Prompt(r, d) \/ Misread(r, d) \/ Answer(r, d)
  PROVE  IInv'
<1> USE DEF IInv
<1>1. PICK said \in Outcomes \union {"asked", "unreadable"} :
        /\ device' = [device EXCEPT ![r][d] = said]
        /\ UNCHANGED <<link, clients, strategy, queue, view, result>>
    BY DEF Prompt, Misread, Answer, Sayable, Outcomes, Decisions
<1>2. device[r][d] \in {"none", "asked"}
    BY DEF Prompt, Misread, Answer
<1>3. view[r][d] # "none"
    BY DEF Prompt, Misread, Answer, Fresh
<1>4. Types'
    BY <1>1 DEF Types
<1>5. Fresh' /\ ViewsTrue'
    BY <1>1, <1>2, <1>3 DEF Types, Fresh, ViewsTrue, Outcomes, Decisions
<1>6. OneAnswer' /\ OneAtATime' /\ Strategies' /\ Known'
    BY <1>1 DEF OneAnswer, OneAtATime, Strategies, Known
<1>7. AbstainersDoNotVeto'
    BY <1>1, <1>2, <1>3 DEF Types, AbstainersDoNotVeto
<1>8. QED
    BY <1>4, <1>5, <1>6, <1>7

\* Steps that change nothing.
LEMMA StutterStep == ASSUME IInv, UNCHANGED vars PROVE IInv'
BY DEF vars, IInv, Types, Fresh, ViewsTrue, OneAnswer, OneAtATime, Strategies,
       Known, AbstainersDoNotVeto

\* The strengthened invariant holds throughout.
THEOREM Inductive == Spec => []IInv
<1>1. IInv /\ [Next]_vars => IInv'
  <2> SUFFICES ASSUME IInv, [Next]_vars PROVE IInv'
      OBVIOUS
  <2>1. ASSUME NEW d \in Devices,
               Register(d) \/ Lose(d) \/ NoticeLoss(d) \/ Leave(d)
        PROVE  IInv'
      BY <2>1, LinkStep
  <2>2. ASSUME NEW r \in Requests, AskFailover(r) PROVE IInv'
      BY <2>2, AskFailoverStep
  <2>3. ASSUME NEW r \in Requests, AskRace(r) PROVE IInv'
      BY <2>3, AskRaceStep
  <2>4. ASSUME NEW r \in Requests, TryNext(r) PROVE IInv'
      BY <2>4, TryNextStep
  <2>5. ASSUME NEW r \in Requests, Conclude(r) PROVE IInv'
      BY <2>5, ConcludeStep
  <2>6. ASSUME NEW r \in Requests, NEW d \in Devices, Fail(r, d) PROVE IInv'
      BY <2>6, FailStep
  <2>7. ASSUME NEW r \in Requests, NEW d \in Devices, Receive(r, d) PROVE IInv'
      BY <2>7, ReceiveStep
  <2>8. ASSUME NEW r \in Requests, NEW d \in Devices,
               Prompt(r, d) \/ Misread(r, d) \/ Answer(r, d)
        PROVE  IInv'
      BY <2>8, DeviceStep
  <2>9. CASE UNCHANGED vars
      BY <2>9, StutterStep
  <2>10. QED
      BY <2>1, <2>2, <2>3, <2>4, <2>5, <2>6, <2>7, <2>8, <2>9 DEF Next
<1>2. QED
    BY <1>1, InitIInv, PTL DEF Spec

\* A link or a file is never offered on two devices that are both connected:
\* of the exchanges of a failover all but the last were written off, and either
\* their connections are closed or no user was asked.
THEOREM OneAsked == Spec => []OneReachableAsked
<1>1. IInv => OneReachableAsked
  <2> SUFFICES ASSUME IInv, NEW r \in Requests, NEW d \in Devices,
                      NEW e \in Devices, strategy[r] = "failover", d # e,
                      device[r][d] \notin {"none", "unreadable"},
                      device[r][e] \notin {"none", "unreadable"}
               PROVE  link[d] = "closed" \/ link[e] = "closed"
      BY DEF OneReachableAsked
  <2>1. /\ view[r][d] \in {"waiting", "answered", "noclient"}
        /\ view[r][e] \in {"waiting", "answered", "noclient"}
      BY DEF IInv, Types, Views, Fresh, OneAtATime, Strategies
  <2>2. view[r][d] = "noclient" \/ view[r][e] = "noclient"
      BY <2>1 DEF IInv, OneAtATime
  <2>3. QED
      BY <2>2 DEF IInv, ViewsTrue
<1>2. QED
    BY <1>1, Inductive, PTL

\* A confirmation nobody decided was put to nobody who can be reached and had
\* an answer, or can still give one.
THEOREM NobodyVetoes == Spec => []AbstainersDoNotVeto
<1>1. IInv => AbstainersDoNotVeto
    BY DEF IInv
<1>2. QED
    BY <1>1, Inductive, PTL

\* After the answer to a link or a file no other device is asked.
THEOREM Final == Spec => AnswerIsFinal
<1>1. IInv /\ [Next]_vars =>
        [\A r \in Requests, d \in Devices :
           strategy[r] = "failover" /\ result[r] # None /\ device[r][d] = "none" =>
             device'[r][d] = "none"]_vars
  <2> SUFFICES ASSUME IInv, [Next]_vars, NEW r \in Requests, NEW d \in Devices,
                      strategy[r] = "failover", result[r] # None,
                      device[r][d] = "none"
               PROVE  device'[r][d] = "none"
      OBVIOUS
  <2>1. view[r][d] \notin {"waiting", "left"}
      BY DEF IInv, OneAnswer, OneAtATime
  <2>2. device[r] \in [Devices -> Outcomes \union {"none", "asked", "unreadable"}]
      BY DEF IInv, Types
  <2>3. ASSUME NEW s \in Requests, NEW e \in Devices, NEW said,
               s # r \/ e # d, device' = [device EXCEPT ![s][e] = said]
        PROVE  device'[r][d] = device[r][d]
      BY <2>2, <2>3 DEF IInv, Types
  <2>4. ASSUME NEW s \in Requests, NEW e \in Devices, Prompt(s, e)
        PROVE  device'[r][d] = "none"
      BY <2>1, <2>3, <2>4 DEF Prompt
  <2>8. ASSUME NEW s \in Requests, NEW e \in Devices, Misread(s, e)
        PROVE  device'[r][d] = "none"
      BY <2>1, <2>3, <2>8 DEF Misread
  <2>5. ASSUME NEW s \in Requests, NEW e \in Devices, Answer(s, e)
        PROVE  device'[r][d] = "none"
      BY <2>3, <2>5 DEF Answer
  <2>6. CASE UNCHANGED device
      BY <2>6
  <2>7. QED
      BY <2>4, <2>8, <2>5, <2>6
      DEF Next, vars, Register, Lose, NoticeLoss, Leave, AskFailover, AskRace,
          TryNext, Conclude, Fail, Receive
<1>2. QED
    BY <1>1, Inductive, PTL DEF Spec, AnswerIsFinal

\* What keeps the reported decisions true: devices say what from_wire knows.
Truthful ==
  /\ \A r \in Requests, d \in Devices : device[r][d] # "stray"
  /\ ResultWasGiven

\* As long as devices answer with errors the agent knows, a decision it reports
\* is one that a device made.
THEOREM ResultsGiven == ~StrayErrors => (Spec => []ResultWasGiven)
<1> SUFFICES ASSUME ~StrayErrors PROVE Spec => []ResultWasGiven
    OBVIOUS
<1>1. Init => Truthful
    BY NoneIsNoValue DEF Init, Truthful, ResultWasGiven, Results, Decisions
<1>2. IInv /\ Truthful /\ [Next]_vars => Truthful'
  <2> SUFFICES ASSUME IInv, Truthful, [Next]_vars PROVE Truthful'
      OBVIOUS
  <2>0. Types
      BY DEF IInv
  <2>1. CASE UNCHANGED <<device, result>>
      BY <2>1 DEF Truthful, ResultWasGiven
  <2>2. ASSUME NEW r \in Requests, NEW d \in Devices, Receive(r, d),
               ~ UNCHANGED result
        PROVE  Truthful'
    <3>1. /\ device[r][d] \in Outcomes
          /\ device[r][d] # "stray"
          /\ result' = [result EXCEPT ![r] = device[r][d]]
          /\ UNCHANGED device
        BY <2>2 DEF Receive, AnswerArrives, Decide, Heard, Truthful
    <3>2. QED
        BY <2>0, <3>1 DEF Types, Truthful, ResultWasGiven
  <2>3. ASSUME NEW r \in Requests, Conclude(r) PROVE Truthful'
    <3>1. PICK v \in {"nodecision", "noclient"} :
            result' = [result EXCEPT ![r] = v]
        BY <2>3 DEF Conclude
    <3>2. UNCHANGED device /\ v \notin Decisions
        BY <2>3 DEF Conclude, Decisions
    <3>3. QED
        BY <2>0, <3>1, <3>2 DEF Types, Truthful, ResultWasGiven
  <2>4. ASSUME NEW r \in Requests, NEW d \in Devices,
               Prompt(r, d) \/ Misread(r, d) \/ Answer(r, d)
        PROVE  Truthful'
    <3>1. PICK said \in Outcomes \union {"asked", "unreadable"} :
            /\ said # "stray"
            /\ device' = [device EXCEPT ![r][d] = said]
            /\ UNCHANGED result
        BY <2>4 DEF Prompt, Misread, Answer, Sayable, Outcomes, Decisions
    <3>2. device[r][d] \notin Decisions
        BY <2>4 DEF Prompt, Misread, Answer, Decisions
    <3>3. QED
        BY <2>0, <3>1, <3>2 DEF Types, Truthful, ResultWasGiven
  <2>5. QED
      BY <2>1, <2>2, <2>3, <2>4
      DEF Next, vars, Register, Lose, NoticeLoss, Leave, AskFailover, AskRace,
          TryNext, Fail, Receive
<1>3. Truthful => ResultWasGiven
    BY DEF Truthful
<1>4. QED
    BY <1>1, <1>2, <1>3, Inductive, PTL DEF Spec

\* No device is on a failover list twice.
Injective == \A r \in Requests : IsInjective(queue[r])

\* The types, and that a failover list names a device once.
THEOREM TypeCorrect == Spec => []TypeOK
<1>1. Init => Injective
    BY DEF Init, Injective, IsInjective
<1>2. IInv /\ Injective /\ [Next]_vars => Injective'
  <2> SUFFICES ASSUME IInv, Injective, [Next]_vars PROVE Injective'
      OBVIOUS
  <2>0. queue \in [Requests -> Seq(Devices)] /\ clients \subseteq Devices
      BY DEF IInv, Types
  <2>1. CASE UNCHANGED queue
      BY <2>1 DEF Injective
  <2>2. ASSUME NEW r \in Requests, AskFailover(r) PROVE Injective'
    <3>1. PICK order \in SetToSeqs(clients) : queue' = [queue EXCEPT ![r] = order]
        BY <2>2 DEF AskFailover
    <3>2. IsInjective(order)
      <4>1. /\ order \in [1..Cardinality(clients) -> clients]
            /\ \A i, j \in 1..Cardinality(clients) : i # j => order[i] # order[j]
          BY DEF SetToSeqs, IsInjective
      <4>2. QED
          BY <4>1 DEF IsInjective
    <3>3. QED
        BY <2>0, <3>1, <3>2 DEF Injective
  <2>3. ASSUME NEW r \in Requests, TryNext(r) PROVE Injective'
    <3>1. /\ queue[r] \in Seq(Devices) /\ queue[r] # <<>>
          /\ queue' = [queue EXCEPT ![r] = Tail(queue[r])]
        BY <2>0, <2>3 DEF TryNext
    <3>2. IsInjective(Tail(queue[r]))
      <4>1. \A i, j \in 1..Len(queue[r]) : queue[r][i] = queue[r][j] => i = j
          BY <3>1 DEF Injective, IsInjective
      <4>2. /\ DOMAIN Tail(queue[r]) = 1..(Len(queue[r]) - 1)
            /\ \A i \in 1..(Len(queue[r]) - 1) :
                 Tail(queue[r])[i] = queue[r][i + 1]
            /\ Len(queue[r]) \in Nat
          BY <3>1
      <4>3. \A i, j \in 1..(Len(queue[r]) - 1) :
              Tail(queue[r])[i] = Tail(queue[r])[j] => i + 1 = j + 1
          BY <4>1, <4>2
      <4>4. QED
          BY <4>2, <4>3 DEF IsInjective
    <3>3. QED
        BY <2>0, <3>1, <3>2 DEF Injective
  <2>4. QED
      BY <2>1, <2>2, <2>3
      DEF Next, vars, Register, Lose, NoticeLoss, Leave, AskRace, Conclude,
          Fail, Receive, Prompt, Misread, Answer
<1>3. IInv /\ Injective => TypeOK
    BY DEF IInv, Types, Injective, TypeOK
<1>4. QED
    BY <1>1, <1>2, <1>3, Inductive, PTL DEF Spec

-----------------------------------------------------------------------------
(* Dispatch implements Routing.                                             *)

\* What devices say where every error is one the agent knows.
Honest ==
  \A r \in Requests, d \in Devices :
    /\ device[r][d] # "stray"
    /\ strategy[r] = "failover" => device[r][d] # "nodecision"

LEMMA HonestStep ==
  ASSUME ~StrayErrors, IInv, Honest, [Next]_vars PROVE Honest'
<1>0. Types
    BY DEF IInv
<1>1. ASSUME NEW d \in Devices,
             Register(d) \/ Lose(d) \/ NoticeLoss(d) \/ Leave(d)
      PROVE  Honest'
  <2>1. UNCHANGED <<strategy, device>>
      BY <1>1 DEF Register, Lose, NoticeLoss, Leave
  <2>2. QED
      BY <2>1 DEF Honest
<1>2. ASSUME NEW r \in Requests, NEW k \in {"failover", "race"}, strategy[r] = None,
             strategy' = [strategy EXCEPT ![r] = k],
             UNCHANGED <<link, clients, device>>
      PROVE  Honest'
  <2>1. \A d \in Devices : device[r][d] = "none"
      BY <1>2 DEF IInv, Fresh
  <2>2. QED
      BY <1>0, <1>2, <2>1 DEF Types, Honest
<1>3. ASSUME NEW r \in Requests, AskFailover(r) \/ AskRace(r) PROVE Honest'
  <2>1. /\ strategy[r] = None
        /\ UNCHANGED <<link, clients, device>>
      BY <1>3 DEF AskFailover, AskRace
  <2>2. \/ strategy' = [strategy EXCEPT ![r] = "failover"]
        \/ strategy' = [strategy EXCEPT ![r] = "race"]
      BY <1>3 DEF AskFailover, AskRace
  <2>3. QED
      BY <1>2, <2>1, <2>2
<1>4. ASSUME NEW r \in Requests, NEW d \in Devices, Prompt(r, d) \/ Misread(r, d)
      PROVE  Honest'
  <2>1. PICK x \in {"asked", "unreadable"} : device' = [device EXCEPT ![r][d] = x]
      BY <1>4 DEF Prompt, Misread
  <2>2. UNCHANGED strategy
      BY <1>4 DEF Prompt, Misread
  <2>3. QED
      BY <1>0, <2>1, <2>2 DEF Types, Honest
<1>5. ASSUME NEW r \in Requests, NEW d \in Devices, Answer(r, d) PROVE Honest'
  <2>1. PICK o \in Sayable(r) : device' = [device EXCEPT ![r][d] = o]
      BY <1>5 DEF Answer
  <2>2. UNCHANGED <<link, clients, strategy>>
      BY <1>5 DEF Answer
  <2>3. o # "stray" /\ (strategy[r] = "failover" => o # "nodecision")
      BY DEF Sayable, Decisions
  <2>4. QED
      BY <1>0, <2>1, <2>2, <2>3 DEF Types, Honest
<1>6. CASE UNCHANGED <<link, clients, strategy, device>>
    BY <1>6 DEF Honest
<1>7. QED
    BY <1>1, <1>3, <1>4, <1>5, <1>6
    DEF Next, vars, TryNext, Conclude, Fail, Receive

\* A list of all members of a finite set, each once, leaves none out.
LEMMA ListCovers ==
  ASSUME NEW S, IsFiniteSet(S), NEW s \in SetToSeqs(S)
  PROVE  ToSet(s) = S
<1> DEFINE D == 1..Cardinality(S)
<1>1. Cardinality(S) \in Nat
    BY FS_CardinalityType
<1>2. s \in [D -> S] /\ \A i, j \in D : i # j => s[i] # s[j]
    BY Zenon DEF SetToSeqs
<1>3. s \in Injection(D, S)
    BY <1>2, Zenon DEF Injection, IsInjective
<1>4. Cardinality(D) = Cardinality(S)
    BY <1>1, FS_Interval
<1>5. s \in Surjection(D, S)
    BY <1>3, <1>4, FS_Injection
<1> HIDE DEF D
<1>6. DOMAIN s = D
    BY <1>2
<1>7. QED
    BY <1>2, <1>5, <1>6 DEF ToSet, Surjection

\* The targets of a request are devices.
LEMMA TargetsAre ==
  ASSUME Types
  PROVE  /\ \A r \in Requests : Targets[r] =
              {d \in Devices : view[r][d] # "none"} \union ToSet(queue[r])
         /\ \A r \in Requests : ToSet(queue[r]) \subseteq Devices
<1>1. ASSUME NEW r \in Requests PROVE ToSet(queue[r]) \subseteq Devices
  <2>1. queue[r] \in Seq(Devices)
      BY DEF Types
  <2>2. QED
      BY <2>1 DEF ToSet
<1>2. QED
    BY <1>1 DEF Targets

LEMMA OpinionIs ==
  \A r \in Requests, d \in Devices :
    Opinion[r][d] = IF device[r][d] \in Outcomes THEN device[r][d]
                    ELSE IF device[r][d] = "unreadable" THEN "unable" ELSE "none"
BY DEF Opinion

\* Nothing that Routing speaks of changes with what the agent knows of an exchange.
LEMMA TargetsStay ==
  ASSUME UNCHANGED queue, view' \in [Requests -> [Devices -> Views]], Types,
         \A r \in Requests, d \in Devices : view'[r][d] = "none" <=> view[r][d] = "none"
  PROVE  UNCHANGED Targets
<1>1. ASSUME NEW r \in Requests
      PROVE  {d \in Devices : view'[r][d] # "none"} = {d \in Devices : view[r][d] # "none"}
    OBVIOUS
<1>2. QED
    BY <1>1 DEF Targets

LEMMA RequestUnseen ==
  ASSUME UNCHANGED <<link, clients, strategy, device, result>>, UNCHANGED Targets
  PROVE  UNCHANGED Promise!rvars
BY DEF Promise!rvars, Lost, Opinion

LEMMA InitRouting == Init => Promise!Init
<1> SUFFICES ASSUME Init PROVE Promise!Init
    OBVIOUS
<1>1. Lost = {}
    BY DEF Init, Lost
<1>2. Targets = [r \in Requests |-> {}]
  <2>1. ASSUME NEW r \in Requests
        PROVE  {d \in Devices : view[r][d] # "none"} \union ToSet(queue[r]) = {}
      BY DEF Init, ToSet
  <2>2. QED
      BY <2>1 DEF Targets
<1>3. Opinion = [r \in Requests |-> [d \in Devices |-> "none"]]
    BY DEF Init, Opinion, Outcomes, Decisions
<1>4. QED
    BY <1>1, <1>2, <1>3 DEF Init, Promise!Init

\* Connections.
LEMMA LinkRouting ==
  ASSUME IInv, NEW d \in Devices,
         Register(d) \/ Lose(d) \/ NoticeLoss(d) \/ Leave(d)
  PROVE  Promise!Join(d) \/ Promise!Lose(d) \/ Promise!Part(d) \/ UNCHANGED Promise!rvars
<1>0. Types /\ Known
    BY DEF IInv
<1>1. UNCHANGED <<strategy, view, queue, device, result>>
    BY DEF Register, Lose, NoticeLoss, Leave
<1>2. UNCHANGED <<strategy, Targets, Opinion, result>>
    BY <1>1 DEF Targets, Opinion
<1>3. CASE Register(d)
  <2>1. d \notin clients \union Lost
      BY <1>0, <1>3 DEF Register, Known, Lost
  <2>2. UNCHANGED Lost
      BY <1>0, <1>3 DEF Register, Lost, Types
  <2>3. clients' = clients \union {d}
      BY <1>3 DEF Register
  <2>4. QED
      BY <1>2, <2>1, <2>2, <2>3 DEF Promise!Join
<1>4. CASE Lose(d)
  <2>1. d \notin Lost
      BY <1>4 DEF Lose, Lost
  <2>2. Lost' = Lost \union {d}
      BY <1>0, <1>4 DEF Lose, Lost, Types
  <2>3. UNCHANGED clients
      BY <1>4 DEF Lose
  <2>4. QED
      BY <1>2, <2>1, <2>2, <2>3 DEF Promise!Lose
<1>5. CASE NoticeLoss(d)
  <2>1. UNCHANGED <<Lost, clients>>
      BY <1>0, <1>5 DEF NoticeLoss, Lost, Types
  <2>2. QED
      BY <1>2, <2>1 DEF Promise!rvars
<1>6. CASE Leave(d)
  <2>1. d \in clients
      BY <1>6 DEF Leave
  <2>2. UNCHANGED Lost /\ clients' = clients \ {d}
      BY <1>6 DEF Leave, Lost
  <2>3. QED
      BY <1>2, <2>1, <2>2 DEF Promise!Part
<1>7. QED
    BY <1>3, <1>4, <1>5, <1>6

\* A request arrives and is put to the devices in the table.
LEMMA AskRouting ==
  ASSUME IInv, NEW r \in Requests, AskFailover(r) \/ AskRace(r)
  PROVE  \E k \in {"failover", "race"} : Promise!Ask(r, k)
<1>0. Types
    BY DEF IInv
<1>1. /\ strategy[r] = None
      /\ UNCHANGED <<link, clients, device, result>>
    BY DEF AskFailover, AskRace
<1>2. queue[r] = <<>> /\ \A d \in Devices : view[r][d] = "none"
    BY <1>1 DEF IInv, Fresh
<1>3. UNCHANGED <<Lost, Opinion>>
    BY <1>1 DEF Lost, Opinion
<1>4. CASE AskFailover(r)
  <2>1. PICK order \in SetToSeqs(clients) : queue' = [queue EXCEPT ![r] = order]
      BY <1>4 DEF AskFailover
  <2>2. UNCHANGED view
      BY <1>4 DEF AskFailover
  <2>3. ToSet(order) = clients
      BY <1>0, DevicesFinite, FS_Subset, ListCovers DEF Types
  <2>4. /\ queue'[r] = order
        /\ \A s \in Requests : s # r => queue'[s] = queue[s]
      BY <1>0, <2>1 DEF Types
  <2>5. {d \in Devices : view[r][d] # "none"} = {}
      BY <1>2
  <2>6. Targets' = [Targets EXCEPT ![r] = clients]
      BY <2>2, <2>3, <2>4, <2>5 DEF Targets
  <2>7. strategy' = [strategy EXCEPT ![r] = "failover"]
      BY <1>4 DEF AskFailover
  <2>8. QED
      BY <1>1, <1>3, <2>6, <2>7 DEF Promise!Ask
<1>5. CASE AskRace(r)
  <2>1. /\ UNCHANGED queue
        /\ view' = [view EXCEPT ![r] =
             [d \in Devices |-> IF d \in clients THEN "waiting" ELSE "none"]]
      BY <1>5 DEF AskRace
  <2>2. {d \in Devices : view'[r][d] # "none"} = clients
      BY <1>0, <2>1 DEF Types
  <2>3. ToSet(queue[r]) = {}
      BY <1>2 DEF ToSet
  <2>4. \A s \in Requests : s # r => view'[s] = view[s]
      BY <1>0, <2>1 DEF Types
  <2>5. Targets' = [Targets EXCEPT ![r] = clients]
      BY <2>1, <2>2, <2>3, <2>4 DEF Targets
  <2>6. strategy' = [strategy EXCEPT ![r] = "race"]
      BY <1>5 DEF AskRace
  <2>7. QED
      BY <1>1, <1>3, <2>5, <2>6 DEF Promise!Ask
<1>6. QED
    BY <1>4, <1>5

\* The next target of a failover was one already.
LEMMA TryNextRouting ==
  ASSUME IInv, NEW r \in Requests, TryNext(r) PROVE UNCHANGED Promise!rvars
<1>0. Types
    BY DEF IInv
<1> DEFINE d == Head(queue[r])
<1>1. queue[r] \in Seq(Devices) /\ queue[r] # <<>>
    BY <1>0 DEF TryNext, Types
<1>2. /\ view' = [view EXCEPT ![r][d] = "waiting"]
      /\ queue' = [queue EXCEPT ![r] = Tail(queue[r])]
      /\ UNCHANGED <<link, clients, strategy, device, result>>
    BY DEF TryNext
<1>3. d \in Devices
    BY <1>1
<1>4. ToSet(queue[r]) = {d} \union ToSet(Tail(queue[r]))
  <2>1. /\ Len(queue[r]) \in Nat \ {0} /\ DOMAIN queue[r] = 1..Len(queue[r])
        /\ d = queue[r][1]
        /\ DOMAIN Tail(queue[r]) = 1..(Len(queue[r]) - 1)
        /\ \A i \in 1..(Len(queue[r]) - 1) : Tail(queue[r])[i] = queue[r][i + 1]
      BY <1>1
  <2>2. \A i \in 1..Len(queue[r]) : i = 1 \/ i - 1 \in 1..(Len(queue[r]) - 1)
      BY <2>1
  <2>3. \A i \in 1..(Len(queue[r]) - 1) : i + 1 \in 1..Len(queue[r])
      BY <2>1
  <2> HIDE DEF d
  <2>4. ASSUME NEW x \in ToSet(queue[r]), x # d PROVE x \in ToSet(Tail(queue[r]))
    <3>1. PICK i \in 1..Len(queue[r]) : queue[r][i] = x
        BY <2>1 DEF ToSet
    <3>2. i - 1 \in 1..(Len(queue[r]) - 1) /\ (i - 1) + 1 = i
        BY <2>1, <2>2, <2>4, <3>1
    <3>3. Tail(queue[r])[i - 1] = x
        BY <2>1, <3>1, <3>2
    <3>4. QED
        BY <2>1, <3>2, <3>3 DEF ToSet
  <2>5. ASSUME NEW x \in ToSet(Tail(queue[r])) PROVE x \in ToSet(queue[r])
    <3>1. PICK i \in 1..(Len(queue[r]) - 1) : Tail(queue[r])[i] = x
        BY <2>1 DEF ToSet
    <3>2. QED
        BY <2>1, <2>3, <3>1 DEF ToSet
  <2>6. d \in ToSet(queue[r])
      BY <2>1 DEF ToSet
  <2>7. QED
      BY <2>4, <2>5, <2>6
<1> HIDE DEF d
<1>5. {e \in Devices : view'[r][e] # "none"} = {e \in Devices : view[r][e] # "none"} \union {d}
    BY <1>0, <1>2, <1>3 DEF Types
<1>6. /\ queue'[r] = Tail(queue[r])
      /\ \A s \in Requests : s # r => queue'[s] = queue[s] /\ view'[s] = view[s]
    BY <1>0, <1>2 DEF Types
<1>7. \A s \in Requests :
        {e \in Devices : view'[s][e] # "none"} \union ToSet(queue'[s])
          = {e \in Devices : view[s][e] # "none"} \union ToSet(queue[s])
    BY <1>4, <1>5, <1>6
<1>8. UNCHANGED Targets
    BY <1>7 DEF Targets
<1>9. QED
    BY <1>2, <1>8, RequestUnseen

LEMMA FailRouting ==
  ASSUME IInv, IInv', NEW r \in Requests, NEW d \in Devices, Fail(r, d)
  PROVE  UNCHANGED Promise!rvars
<1>1. Types /\ Types'
    BY DEF IInv
<1>2. /\ view[r][d] = "waiting" /\ view' = [view EXCEPT ![r][d] = "noclient"]
      /\ UNCHANGED <<link, clients, strategy, queue, device, result>>
    BY DEF Fail
<1>3. UNCHANGED Targets
    BY <1>1, <1>2, TargetsStay DEF Types
<1>4. QED
    BY <1>2, <1>3, RequestUnseen

\* An abstention is noted; any other answer decides.
LEMMA ReceiveRouting ==
  ASSUME IInv, IInv', Honest, NEW r \in Requests, NEW d \in Devices, Receive(r, d)
  PROVE  Promise!Decide(r, d) \/ UNCHANGED Promise!rvars
<1>0. Types /\ Types'
    BY DEF IInv
<1>1. /\ Open(r) /\ view[r][d] = "waiting" /\ link[d] = "up"
      /\ device[r][d] \in Outcomes
      /\ UNCHANGED <<link, clients, strategy, queue, device>>
    BY DEF Receive, AnswerArrives
<1>2. CASE /\ view' = [view EXCEPT ![r][d] = "nodecision"]
           /\ UNCHANGED result
  <2>1. UNCHANGED Targets
      BY <1>0, <1>1, <1>2, TargetsStay DEF Types
  <2>2. QED
      BY <1>1, <1>2, <2>1, RequestUnseen
<1>3. CASE /\ strategy[r] = "failover" \/ device[r][d] # "nodecision"
           /\ Decide(r, d, Heard(device[r][d]))
  <2>1. device[r][d] \in Decisions
      BY <1>1, <1>3 DEF Honest, Outcomes, Decisions
  <2>2. result' = [result EXCEPT ![r] = device[r][d]]
      BY <1>3, <2>1 DEF Decide, Heard, Decisions
  <2>3. UNCHANGED Targets
    <3>1. view' = [view EXCEPT ![r] =
             [e \in Devices |->
                IF e = d THEN "answered"
                ELSE IF view[r][e] = "waiting" THEN "left" ELSE view[r][e]]]
        BY <1>3 DEF Decide
    <3>2. \A s \in Requests, e \in Devices : view'[s][e] = "none" <=> view[s][e] = "none"
        BY <1>0, <1>1, <3>1 DEF Types
    <3>3. QED
        BY <1>0, <1>1, <3>2, TargetsStay DEF Types
  <2>4. Opinion[r][d] = device[r][d]
      BY <1>1, OpinionIs
  <2>5. d \in Targets[r] \ Lost
      BY <1>0, <1>1, TargetsAre DEF Lost
  <2>6. UNCHANGED <<Lost, Opinion>>
      BY <1>1 DEF Lost, Opinion
  <2>7. Promise!Pending(r)
      BY <1>1 DEF Open, Promise!Pending
  <2>8. Opinion[r][d] \in Promise!Decisions
      BY <2>1, <2>4 DEF Decisions, Promise!Decisions
  <2>9. QED
      BY <1>1, <2>2, <2>3, <2>4, <2>5, <2>6, <2>7, <2>8 DEF Promise!Decide
<1>4. QED
    BY <1>2, <1>3 DEF Receive

\* The agent gives up when nobody is left: all were written off or abstained.
LEMMA ConcludeRouting ==
  ASSUME IInv, NEW r \in Requests, Conclude(r) PROVE Promise!GiveUp(r)
<1>0. Types /\ ViewsTrue
    BY DEF IInv
<1>1. /\ Open(r) /\ queue[r] = <<>>
      /\ \A d \in Devices : view[r][d] \in {"none", "nodecision", "noclient"}
      /\ UNCHANGED <<link, clients, strategy, queue, view, device>>
    BY DEF Conclude, Open, Waiting, IInv, Types, Views, OneAnswer
<1>2. Targets[r] = {d \in Devices : view[r][d] # "none"}
    BY <1>0, <1>1, TargetsAre DEF ToSet
<1>3. \A d \in Devices : view[r][d] = "noclient" => d \in Lost \/ Opinion[r][d] = "unable"
    BY <1>0, OpinionIs DEF ViewsTrue, Lost, Outcomes, Decisions
<1>4. \A d \in Devices : view[r][d] = "nodecision" => Opinion[r][d] = "nodecision"
    BY <1>0, OpinionIs DEF ViewsTrue, Outcomes
<1>5. \A d \in Targets[r] : d \in Lost \/ Opinion[r][d] \in {"nodecision", "unable"}
    BY <1>1, <1>2, <1>3, <1>4
<1>6. UNCHANGED <<clients, Lost, strategy, Targets, Opinion>>
    BY <1>1 DEF Lost, Targets, Opinion
<1>7. Promise!Pending(r)
    BY <1>1 DEF Open, Promise!Pending
<1>8. CASE \E d \in Devices : view[r][d] = "nodecision"
  <2>1. \E d \in Targets[r] : Opinion[r][d] = "nodecision"
      BY <1>2, <1>4, <1>8
  <2>2. result' = [result EXCEPT ![r] = "nodecision"]
      BY <1>8 DEF Conclude
  <2>3. QED
      BY <1>5, <1>6, <1>7, <2>1, <2>2 DEF Promise!GiveUp
<1>9. CASE ~ \E d \in Devices : view[r][d] = "nodecision"
  <2>1. \A d \in Targets[r] : d \in Lost \/ Opinion[r][d] = "unable"
      BY <1>1, <1>2, <1>3, <1>9
  <2>2. result' = [result EXCEPT ![r] = "noclient"]
      BY <1>9 DEF Conclude
  <2>3. QED
      BY <1>5, <1>6, <1>7, <2>1, <2>2 DEF Promise!GiveUp
<1>10. QED
    BY <1>8, <1>9

\* A prompt is not an opinion, its end is, or that there can be none.
LEMMA DeviceRouting ==
  ASSUME ~StrayErrors, IInv, NEW r \in Requests, NEW d \in Devices,
         Prompt(r, d) \/ Misread(r, d) \/ Answer(r, d)
  PROVE  \/ \E o \in Promise!Decisions \union {"nodecision", "unable"} :
              Promise!Speak(r, d, o)
         \/ UNCHANGED Promise!rvars
<1> DEFINE Of(x) == IF x \in Outcomes THEN x
                    ELSE IF x = "unreadable" THEN "unable" ELSE "none"
<1>0. Types /\ Fresh
    BY DEF IInv
<1>1. UNCHANGED <<link, clients, strategy, queue, view, result>>
    BY DEF Prompt, Misread, Answer
<1>2. UNCHANGED <<Lost, Targets>>
    BY <1>1 DEF Lost, Targets
<1>3. /\ Opinion = [s \in Requests |-> [e \in Devices |-> Of(device[s][e])]]
      /\ Opinion' = [s \in Requests |-> [e \in Devices |-> Of(device'[s][e])]]
    BY DEF Opinion
<1>4. ASSUME NEW x, device' = [device EXCEPT ![r][d] = x]
      PROVE  Opinion' = [Opinion EXCEPT ![r][d] = Of(x)]
  <2>1. \A s \in Requests, e \in Devices :
          device'[s][e] = IF s = r /\ e = d THEN x ELSE device[s][e]
      BY <1>0, <1>4 DEF Types
  <2>2. \A s \in Requests, e \in Devices :
          Of(device'[s][e]) = IF s = r /\ e = d THEN Of(x) ELSE Of(device[s][e])
      BY <2>1
  <2> HIDE DEF Of
  <2>3. Opinion' = [s \in Requests |-> [e \in Devices |->
                      IF s = r /\ e = d THEN Of(x) ELSE Of(device[s][e])]]
      BY <1>3, <2>2
  <2>4. [Opinion EXCEPT ![r][d] = Of(x)] = [s \in Requests |-> [e \in Devices |->
                      IF s = r /\ e = d THEN Of(x) ELSE Of(device[s][e])]]
      BY <1>3
  <2>5. QED
      BY <2>3, <2>4
<1>5. CASE Prompt(r, d)
  <2>1. device[r][d] = "none" /\ device' = [device EXCEPT ![r][d] = "asked"]
      BY <1>5 DEF Prompt
  <2>2. Of("asked") = "none" /\ Opinion[r][d] = "none"
      BY <1>3, <2>1 DEF Outcomes, Decisions
  <2>3. UNCHANGED Opinion
      BY <1>3, <1>4, <2>1, <2>2
  <2>4. QED
      BY <1>1, <1>2, <2>3 DEF Promise!rvars
<1>6. CASE Misread(r, d) \/ Answer(r, d)
  <2>1. PICK x \in Sayable(r) \union {"unreadable"} :
          device' = [device EXCEPT ![r][d] = x]
      BY <1>6 DEF Misread, Answer
  <2>2. device[r][d] \in {"none", "asked"}
      BY <1>6 DEF Misread, Answer
  <2>3. /\ Of(x) \in Promise!Decisions \union {"nodecision", "unable"}
        /\ Of(x) = "nodecision" => strategy[r] = "race"
      BY DEF Sayable, Decisions, Outcomes, Promise!Decisions
  <2>4. Opinion[r][d] = "none"
      BY <1>3, <2>2 DEF Outcomes, Decisions
  <2>5. Opinion' = [Opinion EXCEPT ![r][d] = Of(x)]
      BY <1>4, <2>1
  <2>6. view[r][d] # "none"
      BY <1>0, <1>6 DEF Misread, Answer, Fresh
  <2>7. d \in Targets[r]
      BY <1>0, <2>6, TargetsAre
  <2> HIDE DEF Of
  <2>8. Promise!Speak(r, d, Of(x))
      BY <1>1, <1>2, <2>3, <2>4, <2>5, <2>7 DEF Promise!Speak
  <2>9. QED
      BY <2>3, <2>8
<1>7. QED
    BY <1>5, <1>6

\* For any number of devices and requests, and whatever the strategy: a request
\* ends once, with a decision of a device it was put to that is not lost, or without
\* one when every such device is lost, has abstained or could not read the request
\* (router.rs:77-132), where devices answer with errors the agent knows.
THEOREM Implements == ~StrayErrors => (Spec => ImplementsRouting)
<1> SUFFICES ASSUME ~StrayErrors PROVE Spec => ImplementsRouting
    OBVIOUS
<1>1. Init => Honest
    BY NoneIsNoValue DEF Init, Honest
<1>2. IInv /\ Honest /\ [Next]_vars => Honest'
    BY HonestStep
<1>3. IInv /\ IInv' /\ Honest /\ [Next]_vars => [Promise!Next]_Promise!rvars
  <2> SUFFICES ASSUME IInv, IInv', Honest, [Next]_vars
               PROVE  Promise!Next \/ UNCHANGED Promise!rvars
      OBVIOUS
  <2>1. ASSUME NEW d \in Devices,
               Register(d) \/ Lose(d) \/ NoticeLoss(d) \/ Leave(d)
        PROVE  Promise!Next \/ UNCHANGED Promise!rvars
      BY <2>1, LinkRouting DEF Promise!Next
  <2>2. ASSUME NEW r \in Requests, AskFailover(r) \/ AskRace(r)
        PROVE  Promise!Next
      BY <2>2, AskRouting DEF Promise!Next
  <2>3. ASSUME NEW r \in Requests, TryNext(r) PROVE UNCHANGED Promise!rvars
      BY <2>3, TryNextRouting
  <2>4. ASSUME NEW r \in Requests, Conclude(r) PROVE Promise!Next
      BY <2>4, ConcludeRouting DEF Promise!Next
  <2>5. ASSUME NEW r \in Requests, NEW d \in Devices, Fail(r, d)
        PROVE  UNCHANGED Promise!rvars
      BY <2>5, FailRouting
  <2>6. ASSUME NEW r \in Requests, NEW d \in Devices, Receive(r, d)
        PROVE  Promise!Next \/ UNCHANGED Promise!rvars
      BY <2>6, ReceiveRouting DEF Promise!Next
  <2>7. ASSUME NEW r \in Requests, NEW d \in Devices,
               Prompt(r, d) \/ Misread(r, d) \/ Answer(r, d)
        PROVE  Promise!Next \/ UNCHANGED Promise!rvars
      BY <2>7, DeviceRouting DEF Promise!Next
  <2>8. CASE UNCHANGED vars
      BY <2>8 DEF vars, Promise!rvars, Lost, Targets, Opinion
  <2>9. QED
      BY <2>1, <2>2, <2>3, <2>4, <2>5, <2>6, <2>7, <2>8 DEF Next
<1>4. QED
    BY <1>1, <1>2, <1>3, Inductive, InitRouting, PTL DEF Spec, ImplementsRouting, Promise!Spec

\* What follows for the agent from what Routing promises, one abstract step at a
\* time: a result is true when it is given, and stays true and stays the result.
Given(res, t, o) == res \in Decisions => \E d \in t : o[d] = res

Pardoned(res, t, o, gone) ==
  res \in {"nodecision", "noclient"} =>
    \A d \in t : d \in gone \/ o[d] \in {"nodecision", "unable"}

LEMMA ResultIsTrueOf ==
  Promise!ResultIsTrue <=>
    \A r \in Requests : /\ Given(result[r], Targets[r], Opinion[r])
                        /\ Pardoned(result[r], Targets[r], Opinion[r], Lost)
BY DEF Promise!ResultIsTrue, Promise!Decisions, Decisions, Given, Pardoned

LEMMA ResultStep ==
  ASSUME IInv, Promise!ResultIsTrue, [Promise!Next]_(Promise!rvars)
  PROVE  /\ Promise!ResultIsTrue'
         /\ \A r \in Requests : result[r] # None => result'[r] = result[r]
<1>0. Types /\ Fresh
    BY DEF IInv
<1> DEFINE Kept(r) == /\ Given(result'[r], Targets'[r], Opinion'[r])
                      /\ Pardoned(result'[r], Targets'[r], Opinion'[r], Lost')
                      /\ result[r] # None => result'[r] = result[r]
<1>1. \A r \in Requests : /\ Given(result[r], Targets[r], Opinion[r])
                          /\ Pardoned(result[r], Targets[r], Opinion[r], Lost)
    BY ResultIsTrueOf
<1>2. /\ DOMAIN Targets = Requests /\ DOMAIN Opinion = Requests
      /\ \A r \in Requests : DOMAIN Opinion[r] = Devices /\ Targets[r] \subseteq Devices
    BY <1>0, TargetsAre DEF Targets, Opinion
<1>3. ASSUME UNCHANGED <<Targets, Opinion, result>>, Lost \subseteq Lost',
             NEW r \in Requests
      PROVE  Kept(r)
    BY <1>1, <1>3 DEF Given, Pardoned
<1>4. ASSUME NEW r \in Requests, NEW s \in Requests, NEW k, Promise!Ask(s, k)
      PROVE  Kept(r)
  <2>1. /\ strategy[s] = None /\ Targets' = [Targets EXCEPT ![s] = clients]
        /\ UNCHANGED <<Lost, Opinion, result>>
      BY <1>4 DEF Promise!Ask
  <2>2. result[s] = None /\ None \notin Decisions \union {"nodecision", "noclient"}
      BY <1>0, <2>1, NoneIsNoValue DEF Fresh, Results
  <2>3. CASE r = s
      BY <2>1, <2>2, <2>3 DEF Given, Pardoned
  <2>4. CASE r # s
      BY <1>1, <1>2, <2>1, <2>4
  <2>5. QED
      BY <2>3, <2>4
<1>5. ASSUME NEW r \in Requests, NEW s \in Requests, NEW d \in Devices, NEW o,
             Promise!Speak(s, d, o)
      PROVE  Kept(r)
  <2>1. /\ Opinion[s][d] = "none" /\ Opinion' = [Opinion EXCEPT ![s][d] = o]
        /\ UNCHANGED <<Lost, Targets, result>>
      BY <1>5 DEF Promise!Speak
  <2>2. \A e \in Devices : Opinion[r][e] # "none" => Opinion'[r][e] = Opinion[r][e]
      BY <1>2, <2>1
  <2>3. Targets[r] \subseteq Devices
      BY <1>2
  <2>4. QED
      BY <1>1, <2>1, <2>2, <2>3 DEF Given, Pardoned, Decisions
<1>6. ASSUME NEW r \in Requests, NEW s \in Requests, NEW d \in Devices,
             Promise!Decide(s, d)
      PROVE  Kept(r)
  <2>1. /\ result[s] = None /\ d \in Targets[s] /\ Opinion[s][d] \in Decisions
        /\ result' = [result EXCEPT ![s] = Opinion[s][d]]
        /\ UNCHANGED <<Lost, Targets, Opinion>>
      BY <1>6 DEF Promise!Decide, Promise!Pending, Promise!Decisions, Decisions
  <2>2. CASE r = s
    <3>1. result'[r] = Opinion[r][d]
        BY <1>0, <2>1, <2>2 DEF Types
    <3>2. QED
        BY <2>1, <2>2, <3>1 DEF Given, Pardoned, Decisions
  <2>3. CASE r # s
      BY <1>0, <1>1, <2>1, <2>3 DEF Types
  <2>4. QED
      BY <2>2, <2>3
<1>7. ASSUME NEW r \in Requests, NEW s \in Requests, Promise!GiveUp(s)
      PROVE  Kept(r)
  <2>1. /\ result[s] = None
        /\ \A d \in Targets[s] : d \in Lost \/ Opinion[s][d] \in {"nodecision", "unable"}
        /\ \E v \in {"nodecision", "noclient"} : result' = [result EXCEPT ![s] = v]
        /\ UNCHANGED <<Lost, Targets, Opinion>>
      BY <1>7 DEF Promise!GiveUp, Promise!Pending
  <2>2. CASE r = s
    <3>1. result'[r] \in {"nodecision", "noclient"}
        BY <1>0, <2>1, <2>2 DEF Types
    <3>2. QED
        BY <2>1, <2>2, <3>1 DEF Given, Pardoned, Decisions
  <2>3. CASE r # s
      BY <1>0, <1>1, <2>1, <2>3 DEF Types
  <2>4. QED
      BY <2>2, <2>3
<1>8. ASSUME NEW d \in Devices, Promise!Join(d) \/ Promise!Lose(d) \/ Promise!Part(d)
      PROVE  UNCHANGED <<Targets, Opinion, result>> /\ Lost \subseteq Lost'
    BY <1>8 DEF Promise!Join, Promise!Lose, Promise!Part
<1> HIDE DEF Kept
<1>9. ASSUME NEW r \in Requests PROVE Kept(r)
  <2>1. CASE Promise!Next
      BY <1>3, <1>4, <1>5, <1>6, <1>7, <1>8, <2>1 DEF Promise!Next
  <2>2. CASE UNCHANGED Promise!rvars
    <3>1. UNCHANGED <<Targets, Opinion, result>> /\ Lost \subseteq Lost'
        BY <2>2 DEF Promise!rvars
    <3>2. QED
        BY <1>3, <3>1
  <2>3. QED
      BY <2>1, <2>2
<1>10. \A r \in Requests : /\ Given(result'[r], Targets'[r], Opinion'[r])
                           /\ Pardoned(result'[r], Targets'[r], Opinion'[r], Lost')
    BY <1>9 DEF Kept
<1>11. Promise!ResultIsTrue'
    BY <1>10 DEF Promise!ResultIsTrue, Promise!Decisions, Decisions, Given, Pardoned
<1>12. QED
    BY <1>9, <1>11 DEF Kept

\* A request is answered once, with the decision of a device it was put to, or
\* without one only when every such device is lost, has abstained or cannot read it.
THEOREM ResultsTrue == ~StrayErrors => (Spec => []Promise!ResultIsTrue /\ Promise!ResultStays)
<1> SUFFICES ASSUME ~StrayErrors
             PROVE  Spec => []Promise!ResultIsTrue /\ Promise!ResultStays
    OBVIOUS
<1>1. Promise!Init => Promise!ResultIsTrue
    BY NoneIsNoValue DEF Promise!Init, Promise!ResultIsTrue, Promise!Decisions, Results, Decisions
<1>2. IInv /\ Promise!ResultIsTrue /\ [Promise!Next]_(Promise!rvars) =>
        /\ Promise!ResultIsTrue'
        /\ [\A r \in Requests : result[r] # None => result'[r] = result[r]]_(Promise!rvars)
    BY ResultStep
<1>3. QED
    BY <1>1, <1>2, Implements, Inductive, PTL
    DEF ImplementsRouting, Promise!Spec, Promise!ResultStays
=============================================================================
