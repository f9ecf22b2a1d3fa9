---------------------------- MODULE AndroidProofs ----------------------------
(***************************************************************************)
(* Invariants of the Android core, for any number of callers, runtimes and *)
(* servers.                                                                *)
(***************************************************************************)
EXTENDS AndroidCore, TLAPS

\* A call that has made a runtime, or joins one, knows which.
CallersKnow ==
  \A c \in Callers : pc[c] \in {"spawn", "setHandle", "join"} => mine[c] \in 1..started

\* The thread of a runtime is spawned once, by the call that made it.
SpawnedOnce ==
  /\ \A c \in Callers : pc[c] = "spawn" => phase[mine[c]] = "none"
  /\ \A c, d \in Callers : pc[c] = "spawn" /\ pc[d] = "spawn" /\ c # d => mine[c] # mine[d]

\* Nothing is known of a runtime that was not made.
MadeInOrder ==
  /\ handle \in 1..started \union {None}
  /\ shutdownTx \in 1..started \union {None}
  /\ \A r \in Runtimes : r > started => phase[r] = "none"

\* As RunningIsStoppable, but from the moment the runtime is made.
MadeIsStoppable ==
  ~dropped => \A r \in 1..started :
    phase[r] # "ended" => told[r] = "stop" \/ shutdownTx = r

IInv ==
  /\ TypeOK
  /\ CallersKnow
  /\ SpawnedOnce
  /\ MadeInOrder
  /\ MadeIsStoppable

\* At first there is no runtime and no call.
LEMMA InitIInv == Init => IInv
<1> USE NoneAssumption, BoundsAssumption
<1> SUFFICES ASSUME Init PROVE IInv
    OBVIOUS
<1>1. TypeOK
  <2>1. /\ task \in [Runtimes -> [Servers -> {"none", "dialing", "serving", "waiting"}]]
        /\ \A r \in Runtimes : task[r] = NoTask
      BY DEF Init, NoTask
  <2>2. prompts \in [Runtimes -> 0..MaxPrompts] /\ started \in 0..MaxRuntimes
      BY DEF Init
  <2>3. QED
      BY <2>1, <2>2 DEF Init, TypeOK, Steps
<1>2. CallersKnow /\ SpawnedOnce /\ MadeInOrder /\ MadeIsStoppable
    BY DEF Init, CallersKnow, SpawnedOnce, MadeInOrder, MadeIsStoppable, Runtimes
<1>3. QED
    BY <1>1, <1>2 DEF IInv

-----------------------------------------------------------------------------
\* Every step of a call, of a runtime and of a server's task keeps the types.
LEMMA TypeStep == IInv /\ [Next]_vars => TypeOK'
<1> SUFFICES ASSUME IInv, [Next]_vars PROVE TypeOK'
    OBVIOUS
<1> USE NoneAssumption, BoundsAssumption DEF IInv, TypeOK, Steps, Runtimes, Goto,
      callVars, runVars, history
<1>1. ASSUME NEW c \in Callers, NEW step \in Steps, NEW reconnect \in BOOLEAN,
             Call(c, step, reconnect)
      PROVE  TypeOK'
  <2>1. overlapped' \in BOOLEAN
      BY <1>1 DEF Call
  <2>2. QED
      BY <1>1, <2>1 DEF Call
<1>2. ASSUME NEW c \in Callers, Destroy(c)
      PROVE  TypeOK'
  <2>1. overlapped' \in BOOLEAN
      BY <1>2 DEF Destroy
  <2>2. QED
      BY <1>2, <2>1 DEF Destroy
<1>3. ASSUME NEW c \in Callers, SetTx(c)
      PROVE  TypeOK'
  <2>1. dropped' \in BOOLEAN
      BY <1>3 DEF SetTx
  <2>2. told' \in [Runtimes -> {"nothing", "stop", "gone"}]
      BY <1>3 DEF SetTx
  <2>3. started' \in 0..MaxRuntimes /\ started' \in Runtimes
      BY <1>3 DEF SetTx
  <2>4. QED
      BY <1>3, <2>1, <2>2, <2>3 DEF SetTx
<1>4. ASSUME NEW c \in Callers, SpawnThread(c)
      PROVE  TypeOK'
  <2>1. mine[c] \in Runtimes /\ phase[mine[c]] = "none"
      BY <1>4 DEF SpawnThread, CallersKnow, SpawnedOnce
  <2>2. CASE phase' = [phase EXCEPT ![mine[c]] = "running"]
    <3>1. task' = [task EXCEPT ![mine[c]] =
                     [s \in Servers |-> IF s \in listed THEN "dialing" ELSE "none"]]
        BY <1>4, <2>1, <2>2 DEF SpawnThread
    <3>2. QED
        BY <1>4, <2>1, <2>2, <3>1 DEF SpawnThread
  <2>3. CASE phase' = [phase EXCEPT ![mine[c]] = "ended"]
    <3>1. task' = task
        BY <1>4, <2>1, <2>3 DEF SpawnThread
    <3>2. QED
        BY <1>4, <2>1, <2>3, <3>1 DEF SpawnThread
  <2>4. QED
      BY <1>4, <2>2, <2>3 DEF SpawnThread
<1>5. ASSUME NEW c \in Callers, SetHandle(c)
      PROVE  TypeOK'
  <2>1. mine[c] \in Runtimes
      BY <1>5 DEF SetHandle, CallersKnow
  <2>2. QED
      BY <1>5, <2>1 DEF SetHandle
<1>6. ASSUME NEW c \in Callers, SendStop(c)
      PROVE  TypeOK'
    BY <1>6 DEF SendStop
<1>7. ASSUME NEW c \in Callers, TakeHandle(c)
      PROVE  TypeOK'
  <2>1. CASE handle = None
    <3>1. /\ StopDone(c)
          /\ UNCHANGED <<mine, started, shutdownTx, handle, joiner, receiver, runVars,
                         connected, listed, history>>
        BY <1>7, <2>1 DEF TakeHandle
    <3>2. pc' \in [Callers -> Steps] /\ again' \in [Callers -> BOOLEAN]
        BY <3>1 DEF StopDone
    <3>3. QED
        BY <3>1, <3>2
  <2>2. CASE handle # None
    <3>1. /\ handle \in Runtimes /\ Goto(c, "join")
          /\ mine' = [mine EXCEPT ![c] = handle] /\ handle' = None /\ joiner' = c
          /\ UNCHANGED <<again, started, shutdownTx, receiver, runVars, connected, listed,
                         history>>
        BY <1>7, <2>2 DEF TakeHandle
    <3>2. QED
        BY <3>1
  <2>3. QED
      BY <2>1, <2>2
<1>8. ASSUME NEW c \in Callers, Joined(c)
      PROVE  TypeOK'
    BY <1>8 DEF Joined, StopDone
<1>9. CASE ChangeList
    BY <1>9 DEF ChangeList
<1>10. ASSUME NEW r \in Runtimes, Reload(r)
       PROVE  TypeOK'
    BY <1>10 DEF Reload, NoTask
<1>11. ASSUME NEW r \in Runtimes, Cleanup(r)
       PROVE  TypeOK'
    BY <1>11 DEF Cleanup, NoTask
<1>12. ASSUME NEW r \in Runtimes, ThreadEnds(r)
       PROVE  TypeOK'
    BY <1>12 DEF ThreadEnds
<1>13. ASSUME NEW r \in Runtimes, PromptOpens(r) \/ PromptTimesOut(r)
       PROVE  TypeOK'
  <2>1. prompts' \in [Runtimes -> 0..MaxPrompts]
    <3>1. CASE PromptOpens(r)
        BY <3>1 DEF PromptOpens
    <3>2. CASE PromptTimesOut(r)
        BY <3>2 DEF PromptTimesOut
    <3>3. QED
        BY <1>13, <3>1, <3>2
  <2>2. QED
      BY <1>13, <2>1 DEF PromptOpens, PromptTimesOut
<1>14. ASSUME NEW r \in Runtimes, NEW s \in Servers,
              Connect(r, s) \/ Disconnect(r, s) \/ Retry(r, s)
       PROVE  TypeOK'
  <2>1. task[r][s] # "none"
      BY <1>14 DEF Connect, Disconnect, Retry
  <2>2. phase[r] = "running"
      BY <2>1 DEF NoTask
  <2>3. CASE Connect(r, s)
      BY <2>2, <2>3 DEF Connect
  <2>4. CASE Disconnect(r, s)
      BY <2>2, <2>4 DEF Disconnect
  <2>5. CASE Retry(r, s)
      BY <2>2, <2>5 DEF Retry
  <2>6. QED
      BY <1>14, <2>3, <2>4, <2>5
<1>15. CASE UNCHANGED vars
    BY <1>15 DEF vars
<1> HIDE DEF IInv, TypeOK, Steps, Runtimes, Goto, callVars, runVars, history
<1>16. QED
    BY <1>1, <1>2, <1>3, <1>4, <1>5, <1>6, <1>7, <1>8, <1>9, <1>10, <1>11, <1>12,
       <1>13, <1>14, <1>15
    DEF Next, CallStep

-----------------------------------------------------------------------------
\* Runtimes are made, spawned and stopped in that order, whoever calls.
LEMMA OrderStep ==
  IInv /\ [Next]_vars => CallersKnow' /\ SpawnedOnce' /\ MadeInOrder' /\ MadeIsStoppable'
<1> DEFINE Kept == CallersKnow' /\ SpawnedOnce' /\ MadeInOrder' /\ MadeIsStoppable'
<1> SUFFICES ASSUME IInv, [Next]_vars PROVE Kept
    OBVIOUS
<1> USE NoneAssumption, BoundsAssumption DEF IInv, TypeOK, Steps, Runtimes, Goto,
      callVars, runVars, history
<1>1. ASSUME UNCHANGED <<mine, started, shutdownTx, handle, phase, told, dropped>>,
             \A c \in Callers : pc'[c] \in {"spawn", "setHandle", "join"} => pc'[c] = pc[c]
      PROVE  Kept
    BY <1>1 DEF CallersKnow, SpawnedOnce, MadeInOrder, MadeIsStoppable
<1>2. ASSUME NEW c \in Callers, NEW step \in Steps, NEW reconnect \in BOOLEAN,
             Call(c, step, reconnect) \/ Destroy(c)
      PROVE  Kept
  <2>1. \A d \in Callers : pc'[d] \in {"spawn", "setHandle", "join"} => pc'[d] = pc[d]
      BY <1>2 DEF Call, Destroy
  <2>2. QED
      BY <1>1, <1>2, <2>1 DEF Call, Destroy
<1>3. ASSUME NEW c \in Callers, SetTx(c)
      PROVE  Kept
  <2>1. /\ started' = started + 1 /\ started' \in Runtimes /\ mine'[c] = started'
        /\ shutdownTx' = started' /\ pc'[c] = "spawn" /\ phase[started'] = "none"
        /\ \A d \in Callers \ {c} : pc'[d] = pc[d] /\ mine'[d] = mine[d]
      BY <1>3 DEF SetTx, MadeInOrder
  <2>2. CallersKnow' /\ SpawnedOnce'
      BY <1>3, <2>1 DEF SetTx, CallersKnow, SpawnedOnce
  <2>3. MadeInOrder'
      BY <1>3, <2>1 DEF SetTx, MadeInOrder
  <2>4. ASSUME ~dropped', NEW r \in 1..started', phase[r] # "ended"
        PROVE  told'[r] = "stop" \/ shutdownTx' = r
    <3>1. CASE r = started'
        BY <2>1, <3>1
    <3>2. CASE r # started'
      <4>1. r \in 1..started /\ (told[r] = "stop" \/ shutdownTx = r)
          BY <1>3, <2>1, <2>4, <3>2 DEF SetTx, MadeIsStoppable
      <4>2. r # shutdownTx
        <5>1. CASE shutdownTx # None /\ phase[shutdownTx] # "ended"
            BY <1>3, <2>4, <5>1, Zenon DEF SetTx
        <5>2. CASE ~(shutdownTx # None /\ phase[shutdownTx] # "ended")
            BY <2>1, <2>4, <5>2
        <5>3. QED
            BY <5>1, <5>2
      <4>3. QED
          BY <1>3, <4>1, <4>2 DEF SetTx
    <3>3. QED
        BY <3>1, <3>2
  <2>5. MadeIsStoppable'
      BY <1>3, <2>4 DEF SetTx, MadeIsStoppable
  <2>6. QED
      BY <2>2, <2>3, <2>5
<1>4. ASSUME NEW c \in Callers, SpawnThread(c)
      PROVE  Kept
  <2>1. mine[c] \in 1..started
      BY <1>4 DEF SpawnThread, CallersKnow
  <2>2. /\ pc[c] = "spawn" /\ pc' = [pc EXCEPT ![c] = "setHandle"]
        /\ UNCHANGED <<mine, started, shutdownTx, handle, told, dropped>>
      BY <1>4 DEF SpawnThread, Goto, history
  <2>3. /\ phase'[mine[c]] # "none"
        /\ \A r \in Runtimes \ {mine[c]} : phase'[r] = phase[r]
      BY <1>4, <2>1 DEF SpawnThread
  <2>4. pc'[c] = "setHandle" /\ \A d \in Callers \ {c} : pc'[d] = pc[d]
      BY <2>2
  <2>5. CallersKnow'
      BY <2>1, <2>2, <2>4 DEF CallersKnow
  <2>6. SpawnedOnce'
    <3>1. \A d \in Callers : pc'[d] = "spawn" =>
            d # c /\ pc[d] = "spawn" /\ mine[d] # mine[c] /\ mine[d] \in Runtimes
        BY <2>2, <2>4 DEF CallersKnow, SpawnedOnce
    <3>2. QED
        BY <2>2, <2>3, <3>1 DEF SpawnedOnce
  <2>7. MadeInOrder'
      BY <2>1, <2>2, <2>3 DEF MadeInOrder
  <2>8. MadeIsStoppable'
    <3>1. phase[mine[c]] # "ended"
        BY <2>2 DEF SpawnedOnce
    <3>2. QED
        BY <2>1, <2>2, <2>3, <3>1 DEF MadeIsStoppable
  <2>9. QED
      BY <2>5, <2>6, <2>7, <2>8
<1>5. ASSUME NEW c \in Callers, SetHandle(c)
      PROVE  Kept
    BY <1>5 DEF SetHandle, CallersKnow, SpawnedOnce, MadeInOrder, MadeIsStoppable
<1>6. ASSUME NEW c \in Callers, SendStop(c)
      PROVE  Kept
    BY <1>6 DEF SendStop, CallersKnow, SpawnedOnce, MadeInOrder, MadeIsStoppable
<1>7. ASSUME NEW c \in Callers, TakeHandle(c)
      PROVE  Kept
  <2>1. CASE handle = None
    <3>1. StopDone(c) /\ UNCHANGED <<mine, started, shutdownTx, handle, runVars, history>>
        BY <1>7, <2>1 DEF TakeHandle
    <3>2. \A d \in Callers : pc'[d] \in {"spawn", "setHandle", "join"} => pc'[d] = pc[d]
        BY <3>1 DEF StopDone
    <3>3. QED
        BY <1>1, <3>1, <3>2
  <2>2. CASE handle # None
    <3>1. /\ pc' = [pc EXCEPT ![c] = "join"] /\ mine' = [mine EXCEPT ![c] = handle]
          /\ handle' = None
          /\ UNCHANGED <<started, shutdownTx, runVars, history>>
        BY <1>7, <2>2 DEF TakeHandle, Goto
    <3>2. pc'[c] = "join" /\ mine'[c] \in 1..started
        BY <2>2, <3>1 DEF MadeInOrder
    <3>3. \A d \in Callers \ {c} : pc'[d] = pc[d] /\ mine'[d] = mine[d]
        BY <3>1
    <3>4. CallersKnow'
        BY <3>1, <3>2, <3>3 DEF CallersKnow
    <3>5. SpawnedOnce'
        BY <3>1, <3>2, <3>3 DEF SpawnedOnce, runVars
    <3>6. MadeInOrder' /\ MadeIsStoppable'
        BY <3>1 DEF MadeInOrder, MadeIsStoppable, runVars, history
    <3>7. QED
        BY <3>4, <3>5, <3>6
  <2>3. QED
      BY <2>1, <2>2
<1>8. ASSUME NEW c \in Callers, Joined(c)
      PROVE  Kept
    BY <1>8 DEF Joined, StopDone, CallersKnow, SpawnedOnce, MadeInOrder, MadeIsStoppable
<1>9. ASSUME NEW r \in Runtimes, Cleanup(r) \/ ThreadEnds(r)
      PROVE  Kept
  <2>1. phase[r] \in {"running", "closing"} /\ phase' \in {[phase EXCEPT ![r] = "closing"],
                                                         [phase EXCEPT ![r] = "ended"]}
      BY <1>9 DEF Cleanup, ThreadEnds
  <2>2. UNCHANGED <<callVars, told, dropped>>
      BY <1>9 DEF Cleanup, ThreadEnds
  <2>3. \A q \in Runtimes : q # r => phase'[q] = phase[q]
      BY <2>1
  <2>4. phase'[r] # "none"
      BY <2>1
  <2>5. UNCHANGED <<pc, mine, started, shutdownTx, handle>>
      BY <2>2 DEF callVars
  <2>6. CallersKnow'
      BY <2>5 DEF CallersKnow
  <2>7. \A d \in Callers : pc[d] = "spawn" => mine[d] # r /\ mine[d] \in Runtimes
      BY <2>1 DEF CallersKnow, SpawnedOnce
  <2>8. SpawnedOnce'
      BY <2>3, <2>5, <2>7 DEF SpawnedOnce
  <2>9. MadeInOrder'
      BY <2>1, <2>3, <2>5 DEF MadeInOrder
  <2>10. MadeIsStoppable'
      BY <2>1, <2>2, <2>3, <2>5 DEF MadeIsStoppable
  <2>11. QED
      BY <2>6, <2>8, <2>9, <2>10
<1>10. ASSUME UNCHANGED <<callVars, phase, told, dropped>>
       PROVE  Kept
    BY <1>1, <1>10
<1>11. QED
    BY <1>2, <1>3, <1>4, <1>5, <1>6, <1>7, <1>8, <1>9, <1>10
    DEF Next, CallStep, ChangeList, Reload, PromptOpens, PromptTimesOut, Connect,
        Disconnect, Retry, vars

-----------------------------------------------------------------------------
\* The inductive invariant: the types and the order in which runtimes are made,
\* spawned and told to stop.
THEOREM Inductive == Spec => []IInv
<1>1. IInv /\ [Next]_vars => IInv'
    BY TypeStep, OrderStep DEF IInv
<1>2. QED
    BY <1>1, InitIInv, PTL DEF Spec

\* Types, for any number of callers, runtimes and servers (lib.rs).
THEOREM TypeCorrect == Spec => []TypeOK
BY Inductive, PTL DEF IInv

\* A running runtime was told to stop or can be, unless start replaced the
\* sender of one that nobody had stopped.
THEOREM Stoppable == Spec => []RunningIsStoppable
<1>1. IInv => RunningIsStoppable
    BY BoundsAssumption DEF IInv, TypeOK, MadeInOrder, MadeIsStoppable, RunningIsStoppable, Runtimes
<1>2. QED
    BY <1>1, Inductive, PTL
=============================================================================
