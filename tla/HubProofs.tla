----------------------------- MODULE HubProofs -----------------------------
(***************************************************************************)
(* Invariants of the agent's handshake and registry, for any number of     *)
(* devices, names, connections and tokens.                                 *)
(***************************************************************************)
EXTENDS Hub, TLAPS

\* A slot in use has a device and a hello, and only a running agent has any;
\* a free slot carries nothing over to its next connection.
SlotsClean ==
  \A c \in Conns :
    IF stage[c] = "free"
    THEN peer[c] = None /\ link[c] = "none" /\ ~revoked[c] /\ ~overlapped[c]
    ELSE up /\ peer[c] \in Ids /\ helloName[c] \in Names

\* Two connections of one device both know of each other.
OverlapsSeen ==
  \A c, d \in Conns :
    c # d /\ peer[c] = peer[d] /\ peer[c] # None => overlapped[c]

\* A token that can be redeemed, or was never issued, has enrolled nobody.
UnusedTokens ==
  \A t \in Tokens : t \in Redeemable \/ t \notin issued => redeemer[t] = None

\* An agent that is not running has forgotten its registry.
StoppedKnowsNobody == ~up => registry = Nobody

IInv ==
  /\ TypeOK
  /\ SlotsClean
  /\ StoppedKnowsNobody
  /\ OverlapsSeen
  /\ UnusedTokens
  /\ EntryServed
  /\ AdmittedIsEnrolled
  /\ EnrolmentDurable
  /\ SoleConnectionRouted

----------------------------------------------------------------------------
\* Initially no slot is in use and nobody is enrolled.
LEMMA InitIInv == Init => IInv
<1> USE NoneIsNoValue
<1> SUFFICES ASSUME Init PROVE IInv
    OBVIOUS
<1>1. TypeOK
    BY DEF Init, TypeOK, Nobody, Stages, Links
<1>2. SlotsClean /\ OverlapsSeen /\ UnusedTokens /\ EntryServed
    BY DEF Init, SlotsClean, OverlapsSeen, UnusedTokens, EntryServed, Nobody
<1>3. StoppedKnowsNobody
    BY DEF Init, StoppedKnowsNobody
<1>4. AdmittedIsEnrolled /\ EnrolmentDurable /\ SoleConnectionRouted
    BY DEF Init, AdmittedIsEnrolled, EnrolmentDurable,
           SoleConnectionRouted, Past
<1>5. QED
    BY <1>1, <1>2, <1>3, <1>4 DEF IInv

\* Every step of every task, of the network and of the agent keeps the types.
LEMMA TypeStep == TypeOK /\ SlotsClean /\ [Next]_vars => TypeOK'
<1> USE NoneIsNoValue DEF TypeOK, Stages, Links
<1> SUFFICES ASSUME TypeOK, SlotsClean, [Next]_vars PROVE TypeOK'
    OBVIOUS
<1>1. ASSUME NEW c \in Conns, NEW id \in Ids, NEW n \in Names,
             NEW t \in issued \union {None}, Dial(c, id, n, t)
      PROVE  TypeOK'
    BY <1>1 DEF Dial, Others, diskVars, tokenVars
<1>2. ASSUME NEW c \in Conns, RefuseToken(c)
      PROVE  TypeOK'
    BY <1>2 DEF RefuseToken, Step, Redeemable, diskVars
<1>3. ASSUME NEW c \in Conns, Enroll(c)
      PROVE  TypeOK'
  <2>1. peer[c] \in Ids /\ helloName[c] \in Names
      BY <1>3 DEF Enroll, HelloArrives, SlotsClean
  <2>2. CASE Saved(registry') /\ Step(c, "admitted")
      BY <1>3, <2>1, <2>2 DEF Enroll, Saved, Step, Redeemable
  <2>3. CASE NotSaved /\ Return(c)
      BY <1>3, <2>1, <2>3 DEF Enroll, NotSaved, Return, Redeemable
  <2>4. QED
      BY <1>3, <2>2, <2>3 DEF Enroll
<1>4. ASSUME NEW c \in Conns, Recognise(c) \/ RefuseUnknown(c) \/ SendHello(c)
      PROVE  TypeOK'
    BY <1>4 DEF Recognise, RefuseUnknown, SendHello, Step, diskVars, tokenVars
<1>5. ASSUME NEW c \in Conns, SendRefusal(c) \/ HandshakeFails(c)
      PROVE  TypeOK'
    BY <1>5 DEF SendRefusal, HandshakeFails, Return, diskVars, tokenVars
<1>6. ASSUME NEW c \in Conns, Register(c)
      PROVE  TypeOK'
    BY <1>6 DEF Register, Step, Saved, NotSaved, diskVars, tokenVars
<1>7. ASSUME NEW c \in Conns, Leave(c)
      PROVE  TypeOK'
    BY <1>7 DEF Leave, Return, diskVars, tokenVars
<1>8. ASSUME NEW c \in Conns, Lose(c) \/ NoticeLoss(c)
      PROVE  TypeOK'
    BY <1>8 DEF Lose, NoticeLoss, diskVars, tokenVars
<1>9. ASSUME NEW t \in Tokens, GenerateTicket(t) \/ Expire(t)
      PROVE  TypeOK'
    BY <1>9 DEF GenerateTicket, Expire, Redeemable, diskVars, connVars
<1>10. ASSUME NEW x \in Ids \union Names, Revoke(x)
       PROVE  TypeOK'
  <2>1. registry' \in [Ids -> Names \union {None}]
      BY <1>10 DEF Revoke, Without
  <2>2. revoked' \in [Conns -> BOOLEAN]
    <3>1. revoked' = [c \in Conns |->
                        revoked[c] \/ (Past(c) /\ peer[c] \in Matched(x))]
        BY <1>10 DEF Revoke
    <3>2. \A c \in Conns :
            (revoked[c] \/ (Past(c) /\ peer[c] \in Matched(x))) \in BOOLEAN
        BY Zenon
    <3>3. QED
        BY <3>1, <3>2, Zenon
  <2>3. /\ disk' \in [Ids -> Names \union {None}]
        /\ torn' \in BOOLEAN
      BY <1>10, <2>1 DEF Revoke, Saved, NotSaved
  <2>4. /\ clients' \in [Ids -> Conns \union {None}]
        /\ link' \in [Conns -> Links]
      BY <1>10 DEF Revoke, Without
  <2>5. QED
      BY <1>10, <2>1, <2>2, <2>3, <2>4 DEF Revoke, tokenVars
<1>11. CASE Crash \/ CrashInSave
  <2>1. Halt /\ torn' \in BOOLEAN
      BY <1>11 DEF Crash, CrashInSave
  <2>2. QED
      BY <2>1 DEF Halt, Nobody
<1>12. CASE Start
    BY <1>12 DEF Start, diskVars, tokenVars, connVars
<1>13. CASE UNCHANGED vars
    BY <1>13 DEF vars, diskVars, tokenVars, connVars
<1>14. QED
    BY <1>1, <1>2, <1>3, <1>4, <1>5, <1>6, <1>7, <1>8, <1>9, <1>10, <1>11,
       <1>12, <1>13
    DEF Next, ReadHello, Task

----------------------------------------------------------------------------
\* Slots are filled by Dial and cleaned by the end of the task or the agent.
LEMMA SlotsStep ==
  TypeOK /\ SlotsClean /\ EntryServed /\ [Next]_vars => SlotsClean'
<1> USE NoneIsNoValue DEF TypeOK, SlotsClean
<1> SUFFICES ASSUME TypeOK, SlotsClean, EntryServed, [Next]_vars
             PROVE  SlotsClean'
    OBVIOUS
<1>1. ASSUME NEW c \in Conns, NEW id \in Ids, NEW n \in Names,
             NEW t \in issued \union {None}, Dial(c, id, n, t)
      PROVE  SlotsClean'
    BY <1>1 DEF Dial
<1>2. ASSUME NEW c \in Conns, NEW s \in Stages \ {"free"}, stage[c] # "free",
             Step(c, s), UNCHANGED up
      PROVE  SlotsClean'
    BY <1>2 DEF Step
<1>3. ASSUME NEW c \in Conns, Return(c), UNCHANGED up
      PROVE  SlotsClean'
    BY <1>3 DEF Return
<1>4. ASSUME NEW c \in Conns, ReadHello(c) \/ Task(c)
      PROVE  SlotsClean'
    BY <1>2, <1>3, <1>4
    DEF ReadHello, Task, RefuseToken, Enroll, Recognise, RefuseUnknown,
        SendRefusal, SendHello, HandshakeFails, Register, Leave, HelloArrives,
        Stages
<1>5. ASSUME NEW c \in Conns, Lose(c) \/ NoticeLoss(c)
      PROVE  SlotsClean'
    BY <1>5 DEF Lose, NoticeLoss
<1>6. ASSUME NEW t \in Tokens, GenerateTicket(t) \/ Expire(t)
      PROVE  SlotsClean'
    BY <1>6 DEF GenerateTicket, Expire, connVars
<1>7. ASSUME NEW x \in Ids \union Names, Revoke(x)
      PROVE  SlotsClean'
  <2>1. \A c \in Conns : stage[c] = "free" => link'[c] = link[c]
      BY <1>7 DEF Revoke, Connected, EntryServed
  <2>2. \A c \in Conns : stage[c] = "free" => ~revoked'[c]
      BY <1>7 DEF Revoke, Past
  <2>3. QED
      BY <1>7, <2>1, <2>2 DEF Revoke
<1>8. CASE Crash \/ CrashInSave
    BY <1>8 DEF Crash, CrashInSave, Halt
<1>9. CASE Start
    BY <1>9 DEF Start, connVars
<1>10. CASE UNCHANGED vars
    BY <1>10 DEF vars, connVars
<1>11. QED
    BY <1>1, <1>4, <1>5, <1>6, <1>7, <1>8, <1>9, <1>10 DEF Next

\* Every step but Start leaves a stopped agent alone or empties its registry.
LEMMA StoppedStep ==
  SlotsClean /\ StoppedKnowsNobody /\ [Next]_vars => StoppedKnowsNobody'
<1> SUFFICES ASSUME SlotsClean, StoppedKnowsNobody, [Next]_vars
             PROVE  StoppedKnowsNobody'
    OBVIOUS
<1> USE DEF StoppedKnowsNobody
<1>1. ASSUME NEW c \in Conns, ReadHello(c)
      PROVE  StoppedKnowsNobody'
    BY <1>1
    DEF ReadHello, RefuseToken, Enroll, Recognise, RefuseUnknown, HelloArrives,
        SlotsClean
<1>2. CASE Crash \/ CrashInSave
    BY <1>2 DEF Crash, CrashInSave, Halt, Nobody
<1>3. QED
    BY <1>1, <1>2
    DEF Next, Dial, Task, SendRefusal, SendHello, HandshakeFails, Register,
        Leave, Lose, NoticeLoss, GenerateTicket, Expire, Revoke, Start, vars,
        Nobody

\* A connection knows of the others of its device from the Dial of the later.
LEMMA OverlapsStep ==
  TypeOK /\ SlotsClean /\ OverlapsSeen /\ [Next]_vars => OverlapsSeen'
<1> USE NoneIsNoValue DEF TypeOK, OverlapsSeen
<1> SUFFICES ASSUME TypeOK, SlotsClean, OverlapsSeen, [Next]_vars
             PROVE  OverlapsSeen'
    OBVIOUS
<1>1. ASSUME NEW c \in Conns, NEW id \in Ids, NEW n \in Names,
             NEW t \in issued \union {None}, Dial(c, id, n, t)
      PROVE  OverlapsSeen'
  <2>1. \A d \in Conns : d # c /\ peer[d] = id => overlapped'[d] /\ overlapped'[c]
      BY <1>1 DEF Dial, Others
  <2>2. \A d \in Conns : d # c /\ overlapped[d] => overlapped'[d]
      BY <1>1 DEF Dial
  <2>3. QED
      BY <1>1, <2>1, <2>2 DEF Dial
<1>2. ASSUME UNCHANGED <<peer, overlapped>>
      PROVE  OverlapsSeen'
    BY <1>2
<1>3. ASSUME NEW c \in Conns, Return(c)
      PROVE  OverlapsSeen'
    BY <1>3 DEF Return
<1>4. ASSUME NEW c \in Conns, ReadHello(c) \/ Task(c) \/ Lose(c) \/ NoticeLoss(c)
      PROVE  OverlapsSeen'
    BY <1>2, <1>3, <1>4
    DEF ReadHello, Task, RefuseToken, Enroll, Recognise, RefuseUnknown, Step,
        SendRefusal, SendHello, HandshakeFails, Register, Leave, Lose, NoticeLoss
<1>5. ASSUME NEW t \in Tokens, GenerateTicket(t) \/ Expire(t)
      PROVE  OverlapsSeen'
    BY <1>2, <1>5 DEF GenerateTicket, Expire, connVars
<1>6. ASSUME NEW x \in Ids \union Names, Revoke(x)
      PROVE  OverlapsSeen'
    BY <1>2, <1>6 DEF Revoke
<1>7. CASE Crash \/ CrashInSave
    BY <1>7 DEF Crash, CrashInSave, Halt
<1>8. CASE Start \/ UNCHANGED vars
    BY <1>2, <1>8 DEF Start, vars, connVars
<1>9. QED
    BY <1>1, <1>4, <1>5, <1>6, <1>7, <1>8 DEF Next

\* A token leaves the redeemable ones in the step that records its device.
LEMMA TokensStep == TypeOK /\ UnusedTokens /\ [Next]_vars => UnusedTokens'
<1> USE NoneIsNoValue DEF TypeOK, UnusedTokens, Redeemable
<1> SUFFICES ASSUME TypeOK, UnusedTokens, [Next]_vars PROVE UnusedTokens'
    OBVIOUS
<1>1. ASSUME UNCHANGED tokenVars
      PROVE  UnusedTokens'
    BY <1>1 DEF tokenVars
<1>2. ASSUME NEW c \in Conns, RefuseToken(c) \/ Enroll(c)
      PROVE  UnusedTokens'
    BY <1>2 DEF RefuseToken, Enroll
<1>3. ASSUME NEW t \in Tokens, GenerateTicket(t) \/ Expire(t)
      PROVE  UnusedTokens'
    BY <1>3 DEF GenerateTicket, Expire
<1>4. CASE Crash \/ CrashInSave
    BY <1>4 DEF Crash, CrashInSave, Halt
<1>5. QED
    BY <1>1, <1>2, <1>3, <1>4
    DEF Next, Dial, ReadHello, Recognise, RefuseUnknown, Task, SendRefusal,
        SendHello, HandshakeFails, Register, Leave, Lose, NoticeLoss, Revoke,
        Start, vars

\* A table entry appears with the read loop of its task and goes with it.
LEMMA ServedStep ==
  TypeOK /\ SlotsClean /\ EntryServed /\ [Next]_vars => EntryServed'
<1> USE NoneIsNoValue DEF TypeOK, EntryServed
<1> SUFFICES ASSUME TypeOK, SlotsClean, EntryServed, [Next]_vars
             PROVE  EntryServed'
    OBVIOUS
<1>1. ASSUME NEW c \in Conns, stage[c] # "serving",
             stage' = [stage EXCEPT ![c] = stage'[c]],
             peer' = [peer EXCEPT ![c] = peer'[c]],
             UNCHANGED clients
      PROVE  EntryServed'
    BY <1>1
<1>2. ASSUME NEW c \in Conns, ReadHello(c)
      PROVE  EntryServed'
    BY <1>1, <1>2
    DEF ReadHello, RefuseToken, Enroll, Recognise, RefuseUnknown, HelloArrives,
        Step, Return
<1>3. ASSUME NEW c \in Conns, SendRefusal(c) \/ SendHello(c) \/ HandshakeFails(c)
      PROVE  EntryServed'
    BY <1>1, <1>3 DEF SendRefusal, SendHello, HandshakeFails, Step, Return
<1>4. ASSUME NEW c \in Conns, NEW id \in Ids, NEW n \in Names,
             NEW t \in issued \union {None}, Dial(c, id, n, t)
      PROVE  EntryServed'
    BY <1>1, <1>4 DEF Dial
<1>5. ASSUME NEW c \in Conns, Register(c)
      PROVE  EntryServed'
    BY <1>5 DEF Register, Step, SlotsClean
<1>6. ASSUME NEW c \in Conns, Leave(c)
      PROVE  EntryServed'
    BY <1>6 DEF Leave, Return, SlotsClean
<1>7. ASSUME UNCHANGED <<clients, stage, peer>>
      PROVE  EntryServed'
    BY <1>7
<1>8. ASSUME NEW x \in Ids \union Names, Revoke(x)
      PROVE  EntryServed'
    BY <1>8 DEF Revoke, Without
<1>9. CASE Crash \/ CrashInSave
    BY <1>9 DEF Crash, CrashInSave, Halt, Nobody
<1>10. QED
    BY <1>2, <1>3, <1>4, <1>5, <1>6, <1>7, <1>8, <1>9
    DEF Next, Task, Lose, NoticeLoss, GenerateTicket, Expire, Start, vars,
        connVars

\* Between the check and the end of the task only a revocation takes the
\* device out of the registry, and it leaves its mark on the connection.
LEMMA AdmittedStep ==
  TypeOK /\ SlotsClean /\ AdmittedIsEnrolled /\ [Next]_vars =>
    AdmittedIsEnrolled'
<1> USE NoneIsNoValue DEF TypeOK, AdmittedIsEnrolled, Past
<1> SUFFICES ASSUME TypeOK, SlotsClean, AdmittedIsEnrolled, [Next]_vars
             PROVE  AdmittedIsEnrolled'
    OBVIOUS
<1>1. ASSUME NEW c \in Conns, NEW id \in Ids, NEW n \in Names,
             NEW t \in issued \union {None}, Dial(c, id, n, t)
      PROVE  AdmittedIsEnrolled'
    BY <1>1 DEF Dial
<1>2. ASSUME NEW c \in Conns, Return(c), UNCHANGED registry
      PROVE  AdmittedIsEnrolled'
    BY <1>2 DEF Return
<1>3. ASSUME NEW c \in Conns, Step(c, "refusing"), UNCHANGED registry
      PROVE  AdmittedIsEnrolled'
    BY <1>3 DEF Step
<1>4. ASSUME NEW c \in Conns, NEW s \in Stages, Step(c, s), UNCHANGED registry,
             Past(c) \/ registry[peer[c]] # None
      PROVE  AdmittedIsEnrolled'
    BY <1>4 DEF Step
<1>5. ASSUME NEW c \in Conns, Enroll(c)
      PROVE  AdmittedIsEnrolled'
  <2>1. helloName[c] # None /\ peer[c] \in Ids
      BY <1>5 DEF Enroll, HelloArrives, SlotsClean
  <2>2. \A id \in Ids : registry[id] # None \/ id = peer[c] => registry'[id] # None
      BY <1>5, <2>1 DEF Enroll
  <2>3. CASE Step(c, "admitted")
      BY <2>1, <2>2, <2>3 DEF Step, SlotsClean
  <2>4. CASE Return(c)
      BY <2>1, <2>2, <2>4 DEF Return, SlotsClean
  <2>5. QED
      BY <1>5, <2>3, <2>4 DEF Enroll
<1>6. ASSUME NEW c \in Conns, ReadHello(c) \/ Task(c)
      PROVE  AdmittedIsEnrolled'
    BY <1>2, <1>3, <1>4, <1>5, <1>6
    DEF ReadHello, Task, RefuseToken, Recognise, RefuseUnknown, SendRefusal,
        SendHello, HandshakeFails, Register, Leave, Stages
<1>7. ASSUME NEW x \in Ids \union Names, Revoke(x)
      PROVE  AdmittedIsEnrolled'
  <2>1. ASSUME NEW c \in Conns, Past(c), ~revoked'[c]
        PROVE  peer[c] \notin Matched(x) /\ ~revoked[c]
      BY <1>7, <2>1 DEF Revoke
  <2>2. \A id \in Ids \ Matched(x) : registry'[id] = registry[id]
      BY <1>7 DEF Revoke, Without
  <2>3. QED
      BY <1>7, <2>1, <2>2 DEF Revoke, SlotsClean
<1>8. ASSUME UNCHANGED <<registry, stage, peer, revoked>>
      PROVE  AdmittedIsEnrolled'
    BY <1>8
<1>9. CASE Crash \/ CrashInSave
    BY <1>9 DEF Crash, CrashInSave, Halt
<1>10. CASE Start
    BY <1>10 DEF Start, connVars, SlotsClean
<1>11. QED
    BY <1>1, <1>6, <1>7, <1>8, <1>9, <1>10
    DEF Next, Lose, NoticeLoss, GenerateTicket, Expire, vars, connVars

\* The file follows the registry: a write that succeeds copies it, and one
\* that fails, torn or not, leaves the last complete list what it was.
LEMMA DurableStep ==
  /\ TypeOK /\ SlotsClean /\ AdmittedIsEnrolled /\ EnrolmentDurable
  /\ AdmittedIsEnrolled' /\ [Next]_vars
  => EnrolmentDurable'
<1> USE NoneIsNoValue DEF TypeOK, EnrolmentDurable, Past
<1> SUFFICES ASSUME TypeOK, SlotsClean, AdmittedIsEnrolled,
                    EnrolmentDurable,
                    AdmittedIsEnrolled', [Next]_vars
             PROVE  EnrolmentDurable'
    OBVIOUS
<1>1. ASSUME Saved(registry')
      PROVE  EnrolmentDurable'
    BY <1>1 DEF Saved, AdmittedIsEnrolled
<1>2. ASSUME NEW c \in Conns, NEW s \in Stages, Step(c, s), UNCHANGED disk,
             Past(c) \/ s = "refusing" \/ helloToken[c] = None
      PROVE  EnrolmentDurable'
    BY <1>2 DEF Step
<1>3. ASSUME NEW c \in Conns, Return(c), UNCHANGED disk
      PROVE  EnrolmentDurable'
    BY <1>3 DEF Return
<1>4. NotSaved => UNCHANGED disk
    BY DEF NotSaved
<1>5. ASSUME NEW c \in Conns, ReadHello(c)
      PROVE  EnrolmentDurable'
    BY <1>1, <1>2, <1>3, <1>4, <1>5
    DEF ReadHello, RefuseToken, Enroll, Recognise, RefuseUnknown, Stages,
        diskVars
<1>6. ASSUME NEW c \in Conns, Task(c)
      PROVE  EnrolmentDurable'
    BY <1>1, <1>2, <1>3, <1>4, <1>6
    DEF Task, SendRefusal, SendHello, HandshakeFails, Register, Leave, Stages,
        diskVars
<1>7. ASSUME NEW c \in Conns, NEW id \in Ids, NEW n \in Names,
             NEW t \in issued \union {None}, Dial(c, id, n, t)
      PROVE  EnrolmentDurable'
    BY <1>7 DEF Dial, diskVars
<1>8. ASSUME NEW x \in Ids \union Names, Revoke(x)
      PROVE  EnrolmentDurable'
  <2>1. CASE Saved(registry')
      BY <1>1, <2>1
  <2>2. CASE NotSaved
    <3>1. \A c \in Conns : ~revoked'[c] => ~revoked[c]
        BY <1>8 DEF Revoke
    <3>2. QED
        BY <1>4, <1>8, <2>2, <3>1 DEF Revoke
  <2>3. QED
      BY <1>8, <2>1, <2>2 DEF Revoke
<1>9. ASSUME UNCHANGED <<disk, stage, peer, helloToken, revoked>>
      PROVE  EnrolmentDurable'
    BY <1>9
<1>10. CASE Crash \/ CrashInSave
  <2>1. Halt
      BY <1>10 DEF Crash, CrashInSave
  <2>2. \A c \in Conns : stage'[c] = "free"
      BY <2>1 DEF Halt
  <2>3. QED
      BY <2>2
<1>11. QED
    BY <1>5, <1>6, <1>7, <1>8, <1>9, <1>10
    DEF Next, Lose, NoticeLoss, GenerateTicket, Expire, Start, vars, connVars,
        diskVars

\* Only a task of the same device, or a revocation that closes the connection,
\* takes a connection out of the table.
LEMMA SoleStep ==
  /\ TypeOK /\ SlotsClean /\ OverlapsSeen /\ EntryServed /\ SoleConnectionRouted
  /\ [Next]_vars
  => SoleConnectionRouted'
<1> USE NoneIsNoValue DEF TypeOK, SoleConnectionRouted
<1> SUFFICES ASSUME TypeOK, SlotsClean, OverlapsSeen, EntryServed,
                    SoleConnectionRouted, [Next]_vars
             PROVE  SoleConnectionRouted'
    OBVIOUS
<1>1. ASSUME NEW c \in Conns, NEW id \in Ids, NEW n \in Names,
             NEW t \in issued \union {None}, Dial(c, id, n, t)
      PROVE  SoleConnectionRouted'
  <2>1. \A d \in Conns : d # c /\ ~overlapped'[d] => ~overlapped[d]
      BY <1>1 DEF Dial
  <2>2. QED
      BY <1>1, <2>1 DEF Dial
<1>2. ASSUME NEW c \in Conns, NEW s \in Stages \ {"serving"}, Step(c, s),
             UNCHANGED clients
      PROVE  SoleConnectionRouted'
    BY <1>2 DEF Step
<1>3. ASSUME NEW c \in Conns, Return(c), UNCHANGED clients
      PROVE  SoleConnectionRouted'
    BY <1>3 DEF Return
<1>4. ASSUME NEW c \in Conns, NEW d \in Conns, c # d, peer[c] \in Ids,
             ~overlapped[d]
      PROVE  peer[d] # peer[c]
    BY <1>4 DEF OverlapsSeen
<1>5. ASSUME NEW c \in Conns, Register(c)
      PROVE  SoleConnectionRouted'
  <2>1. peer[c] \in Ids
      BY <1>5 DEF Register, SlotsClean
  <2>2. QED
      BY <1>4, <1>5, <2>1 DEF Register, Step
<1>6. ASSUME NEW c \in Conns, Leave(c)
      PROVE  SoleConnectionRouted'
  <2>1. peer[c] \in Ids
      BY <1>6 DEF Leave, SlotsClean
  <2>2. QED
      BY <1>4, <1>6, <2>1 DEF Leave, Return, SlotsClean
<1>7. ASSUME NEW c \in Conns, ReadHello(c) \/ Task(c)
      PROVE  SoleConnectionRouted'
    BY <1>2, <1>3, <1>5, <1>6, <1>7
    DEF ReadHello, Task, RefuseToken, Enroll, Recognise, RefuseUnknown,
        SendRefusal, SendHello, HandshakeFails, Stages
<1>8. ASSUME NEW c \in Conns, Lose(c) \/ NoticeLoss(c)
      PROVE  SoleConnectionRouted'
    BY <1>8 DEF Lose, NoticeLoss
<1>9. ASSUME NEW x \in Ids \union Names, Revoke(x)
      PROVE  SoleConnectionRouted'
  <2>1. CASE UNCHANGED <<clients, link>>
      BY <1>9, <2>1 DEF Revoke
  <2>2. CASE /\ clients' = Without(clients, Connected(x))
             /\ link' = [c \in Conns |->
                           IF \E id \in Connected(x) : clients[id] = c
                           THEN "closed" ELSE link[c]]
    <3>1. ASSUME NEW c \in Conns, link'[c] # "closed"
          PROVE  link[c] # "closed" /\ \A id \in Connected(x) : clients[id] # c
        BY <2>2, <3>1, Zenon
    <3>2. \A id \in Ids \ Connected(x) : clients'[id] = clients[id]
        BY <2>2 DEF Without
    <3>3. QED
        BY <1>9, <3>1, <3>2 DEF Revoke, SlotsClean
  <2>3. QED
      BY <1>9, <2>1, <2>2 DEF Revoke
<1>10. ASSUME UNCHANGED <<clients, stage, link, peer, overlapped>>
       PROVE  SoleConnectionRouted'
    BY <1>10
<1>11. CASE Crash \/ CrashInSave
    BY <1>11 DEF Crash, CrashInSave, Halt
<1>12. QED
    BY <1>1, <1>7, <1>8, <1>9, <1>10, <1>11
    DEF Next, GenerateTicket, Expire, Start, vars, connVars

----------------------------------------------------------------------------
(* The theorems.                                                           *)

\* The strengthening holds in every reachable state.
THEOREM Inductive == Spec => []IInv
<1>1. Init => IInv
    BY InitIInv
<1>2. IInv /\ [Next]_vars => IInv'
    BY TypeStep, SlotsStep, StoppedStep, OverlapsStep, TokensStep, ServedStep, AdmittedStep,
       DurableStep, SoleStep
    DEF IInv
<1>3. QED
    BY <1>1, <1>2, PTL DEF Spec

\* The agent's state has its types in every reachable state.
THEOREM TypeCorrect == Spec => []TypeOK
<1>1. IInv => TypeOK
    BY DEF IInv
<1>2. QED
    BY <1>1, Inductive, PTL

\* Every entry of the client table (hub.rs) has a task that will remove it.
THEOREM EntriesServed == Spec => []EntryServed
<1>1. IInv => EntryServed
    BY DEF IInv
<1>2. QED
    BY <1>1, Inductive, PTL

\* No handshake of agent.rs gets past its check without an enrolment that only
\* a revocation can have ended since.
THEOREM AdmittedEnrolled == Spec => []AdmittedIsEnrolled
<1>1. IInv => AdmittedIsEnrolled
    BY DEF IInv
<1>2. QED
    BY <1>1, Inductive, PTL

\* A device told that its token was accepted was written to clients.json, and is
\* in every complete list that was written since.
THEOREM EnrolmentsDurable == Spec => []EnrolmentDurable
<1>1. IInv => EnrolmentDurable
    BY DEF IInv
<1>2. QED
    BY <1>1, Inductive, PTL

\* A device with one connection at a time is routed to while it is registered.
THEOREM SoleRouted == Spec => []SoleConnectionRouted
<1>1. IInv => SoleConnectionRouted
    BY DEF IInv
<1>2. QED
    BY <1>1, Inductive, PTL

\* consume_token gives a token to one device.
THEOREM RedeemedOnce == Spec => TokenRedeemedOnce
<1>1. IInv /\ [Next]_vars =>
        \A t \in Tokens : redeemer'[t] # redeemer[t] => redeemer[t] = None
  <2> SUFFICES ASSUME IInv, [Next]_vars, NEW t \in Tokens,
                      redeemer'[t] # redeemer[t]
               PROVE  redeemer[t] = None
      OBVIOUS
  <2>1. ASSUME NEW c \in Conns, Enroll(c)
        PROVE  redeemer[t] = None
      BY <2>1 DEF Enroll, IInv, TypeOK, UnusedTokens
  <2>2. QED
      BY <2>1
      DEF Next, Dial, ReadHello, RefuseToken, Recognise, RefuseUnknown, Task,
          SendRefusal, SendHello, HandshakeFails, Register, Leave, Lose,
          NoticeLoss, GenerateTicket, Expire, Revoke, Crash, CrashInSave, Halt,
          Start, vars, tokenVars
<1>2. QED
    BY <1>1, Inductive, PTL DEF Spec, TokenRedeemedOnce

----------------------------------------------------------------------------
(* Hub implements Membership.                                              *)

\* A step that Membership does not see, and a step it allows or does not see.
Unseen == UNCHANGED <<Redeemable, issued, redeemer, registry, disk>>

Refined == Promise!Next \/ Unseen

LEMMA UnseenStutters == Unseen => UNCHANGED Promise!mvars
BY DEF Unseen, Promise!mvars

\* A write of the registry, whether it succeeds or not, changes the stable copy
\* to the new list or not at all.
LEMMA WriteOrNot ==
  Saved(registry') \/ NotSaved => disk' \in {disk, registry'}
BY DEF Saved, NotSaved

\* The enrolment of one device is one abstract redemption.
LEMMA EnrollRedeems ==
  ASSUME TypeOK, SlotsClean, UnusedTokens, NEW c \in Conns, Enroll(c)
  PROVE  Promise!Redeem(helloToken[c], peer[c], helloName[c])
<1>1. /\ helloToken[c] \in Redeemable
      /\ Redeemable' = Redeemable \ {helloToken[c]}
      /\ issued' = issued
      /\ Redeemable \subseteq issued
    BY DEF Enroll, Redeemable, TypeOK
<1>2. redeemer[helloToken[c]] = None
    BY <1>1 DEF UnusedTokens, TypeOK
<1>3. disk' \in {disk, registry'}
    BY WriteOrNot DEF Enroll
<1>4. QED
    BY <1>1, <1>2, <1>3 DEF Enroll, Promise!Redeem, Promise!ChangeTo

\* Every step of Hub is a step of Membership or leaves its variables alone.
LEMMA StepRefines == IInv /\ [Next]_vars => [Promise!Next]_(Promise!mvars)
<1> USE NoneIsNoValue
<1> SUFFICES ASSUME IInv, [Next]_vars PROVE [Promise!Next]_(Promise!mvars)
    OBVIOUS
<1> USE DEF IInv, TypeOK
<1>1. ASSUME NEW c \in Conns, Enroll(c)
      PROVE  Refined
  <2>1. /\ helloToken[c] \in Tokens
        /\ peer[c] \in Ids
        /\ helloName[c] \in Names
      BY <1>1 DEF Enroll, HelloArrives, SlotsClean, Redeemable
  <2>2. QED
      BY <1>1, <2>1, EnrollRedeems DEF Refined, Promise!Next
<1>2. ASSUME NEW c \in Conns, ReadHello(c), ~Enroll(c)
      PROVE  Refined
    BY <1>2
    DEF ReadHello, RefuseToken, Recognise, RefuseUnknown, Unseen, Refined,
        Redeemable, diskVars, tokenVars
<1>3. ASSUME NEW c \in Conns, Register(c)
      PROVE  Refined
    BY <1>3
    DEF Register, Saved, NotSaved, Unseen, Redeemable, Promise!CatchUp,
        Promise!Next, Refined, diskVars, tokenVars
<1>4. ASSUME NEW c \in Conns, Task(c), ~Register(c)
      PROVE  Refined
    BY <1>4
    DEF Task, SendRefusal, SendHello, HandshakeFails, Leave, Unseen, Refined,
        Redeemable, diskVars, tokenVars
<1>5. ASSUME NEW c \in Conns, NEW id, NEW n, NEW t, Dial(c, id, n, t)
      PROVE  Refined
    BY <1>5 DEF Dial, Unseen, Refined, Redeemable, diskVars, tokenVars
<1>6. ASSUME NEW t \in Tokens, GenerateTicket(t)
      PROVE  Refined
  <2>1. /\ Redeemable' = Redeemable \union {t}
        /\ issued' = issued \union {t}
        /\ t \notin issued
        /\ Redeemable \subseteq issued
      BY <1>6 DEF GenerateTicket, Redeemable
  <2>2. issued' \ Redeemable' = issued \ Redeemable
      BY <2>1
  <2>3. QED
      BY <1>6, <2>1, <2>2 DEF GenerateTicket, Promise!Offer, Promise!Next, Refined, diskVars
<1>7. ASSUME NEW t \in Tokens, Expire(t)
      PROVE  Refined
  <2>1. /\ Redeemable' = Redeemable \ {t}
        /\ t \in Redeemable
        /\ issued' = issued
        /\ Redeemable \subseteq issued
      BY <1>7 DEF Expire, Redeemable
  <2>2. issued' \ Redeemable' = (issued \ Redeemable) \union {t}
      BY <2>1
  <2>3. QED
      BY <1>7, <2>1, <2>2 DEF Expire, Promise!Withdraw, Promise!Next, Refined, diskVars
<1>8. ASSUME NEW x \in Ids \union Names, Revoke(x)
      PROVE  Refined
  <2>1. disk' \in {disk, registry'}
      BY <1>8, WriteOrNot DEF Revoke
  <2>2. QED
      BY <1>8, <2>1
      DEF Revoke, Without, Redeemable, Promise!Exclude, Promise!ChangeTo,
          Promise!Next, Refined, Matched, tokenVars
<1>9. ASSUME Halt
      PROVE  Refined
  <2>1. /\ Redeemable' = {}
        /\ issued' \ Redeemable' = (issued \ Redeemable) \union Redeemable
      BY <1>9 DEF Halt, Redeemable
  <2>2. QED
      BY <1>9, <2>1 DEF Halt, Promise!Stop, Promise!Next, Refined, Nobody,
             Promise!Nobody
<1>10. ASSUME Start
       PROVE  Refined
    BY <1>10
    DEF Start, StoppedKnowsNobody, Promise!Restart, Promise!Nobody, Nobody,
        Promise!Next, Refined, Redeemable, Unseen, diskVars, tokenVars
<1>11. ASSUME UNCHANGED <<registry, diskVars, tokenVars>>
       PROVE  Refined
    BY <1>11 DEF Unseen, Refined, Redeemable, diskVars, tokenVars
<1> HIDE DEF IInv, TypeOK
<1>12. Refined
    BY <1>1, <1>2, <1>3, <1>4, <1>5, <1>6, <1>7, <1>8, <1>9, <1>10, <1>11
    DEF Next, Lose, NoticeLoss, Crash, CrashInSave, vars
<1>13. QED
    BY <1>12, UnseenStutters DEF Refined

\* The agent keeps what Membership promises: only a token makes a member, each
\* token makes one, and a restart brings back the stable list and no token.
THEOREM Implements == Spec => ImplementsMembership
<1>1. Init => Promise!Init
    BY DEF Init, Promise!Init, Nobody, Promise!Nobody, Redeemable
<1>2. QED
    BY <1>1, Inductive, StepRefines, PTL DEF Spec, ImplementsMembership, Promise!Spec

\* What follows for the agent from what Membership promises: only tokens make
\* members.
LEMMA MembersStep ==
  ASSUME TypeOK, Promise!MembersRedeemed, [Promise!Next]_(Promise!mvars)
  PROVE  Promise!MembersRedeemed'
<1> DEFINE Was(id) == registry[id] # None \/ disk[id] # None
           Is(id) == registry'[id] # None \/ disk'[id] # None
<1>1. \A id \in Ids : Was(id) => \E t \in Tokens : redeemer[t] = id
    BY DEF Promise!MembersRedeemed
<1>2. \A t \in Tokens, id \in Ids : redeemer[t] = id => redeemer'[t] = id
  <2>1. CASE UNCHANGED redeemer
      BY <2>1
  <2>2. ASSUME NEW t \in Tokens, NEW i \in Ids, NEW n \in Names, Promise!Redeem(t, i, n)
        PROVE  \A x \in Tokens, id \in Ids : redeemer[x] = id => redeemer'[x] = id
    <3>1. redeemer[t] = None /\ redeemer' = [redeemer EXCEPT ![t] = i]
        BY <2>2 DEF Promise!Redeem
    <3>2. \A x \in Tokens \ {t} : redeemer'[x] = redeemer[x]
        BY <3>1 DEF TypeOK
    <3>3. None \notin Ids
        BY NoneIsNoValue
    <3>4. QED
        BY <3>1, <3>2, <3>3
  <2>3. QED
      BY <2>1, <2>2
      DEF Promise!Next, Promise!mvars, Promise!Offer, Promise!Withdraw, Promise!Exclude,
          Promise!CatchUp, Promise!Stop, Promise!Restart
<1>3. ASSUME NEW t \in Tokens, NEW i \in Ids, NEW n \in Names, Promise!Redeem(t, i, n)
      PROVE  \A id \in Ids : Is(id) => \E x \in Tokens : redeemer'[x] = id
  <2>1. /\ redeemer' = [redeemer EXCEPT ![t] = i]
        /\ registry' = [registry EXCEPT ![i] = n]
        /\ disk' \in {disk, registry'}
      BY <1>3 DEF Promise!Redeem, Promise!ChangeTo
  <2>2. redeemer'[t] = i
      BY <2>1 DEF TypeOK
  <2>3. \A id \in Ids \ {i} : Is(id) => Was(id)
      BY <2>1 DEF TypeOK
  <2>4. QED
      BY <1>1, <1>2, <2>2, <2>3
<1>4. ASSUME NEW gone \in SUBSET Ids, Promise!Exclude(gone)
      PROVE  \A id \in Ids : Is(id) => Was(id)
    BY <1>4 DEF Promise!Exclude, Promise!ChangeTo
<1>5. ASSUME Promise!CatchUp \/ Promise!Stop \/ Promise!Restart
      PROVE  \A id \in Ids : Is(id) => Was(id)
    BY <1>5 DEF Promise!CatchUp, Promise!Stop, Promise!Restart, Promise!Nobody
<1>6. ASSUME UNCHANGED <<registry, disk>>
      PROVE  \A id \in Ids : Is(id) => Was(id)
    BY <1>6
<1>7. \A id \in Ids : Is(id) => \E t \in Tokens : redeemer'[t] = id
  <2>1. CASE \E t \in Tokens, i \in Ids, n \in Names : Promise!Redeem(t, i, n)
      BY <1>3, <2>1
  <2>2. CASE \A id \in Ids : Is(id) => Was(id)
    <3> HIDE DEF Was, Is
    <3>1. QED
        BY <1>1, <1>2, <2>2
  <2>3. QED
      BY <1>4, <1>5, <1>6, <2>1, <2>2
      DEF Promise!Next, Promise!mvars, Promise!Offer, Promise!Withdraw
<1>8. QED
    BY <1>7 DEF Promise!MembersRedeemed

\* No device is in the registry or in clients.json that has not redeemed a token,
\* through every restart, torn file, failed save and revocation (agent.rs:135-170,
\* peers.rs:60-108).
THEOREM OnlyByToken == Spec => []Promise!MembersRedeemed
<1>1. Init => Promise!MembersRedeemed
    BY DEF Init, Nobody, Promise!MembersRedeemed
<1>2. IInv => TypeOK
    BY DEF IInv
<1>3. QED
    BY <1>1, <1>2, Inductive, StepRefines, MembersStep, PTL DEF Spec
============================================================================
