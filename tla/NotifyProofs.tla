---------------------------- MODULE NotifyProofs -----------------------------
(***************************************************************************)
(* Dismissals reach the devices that show a notification, for any number   *)
(* of devices, notifications, dismissals, losses and restarts.             *)
(***************************************************************************)
EXTENDS Notify, FiniteSetTheorems, TLAPS

\* Numbers are given in turn, and a notification that has none is known nowhere.
Numbered ==
  /\ counter <= made
  /\ \A n \in Notes :
       /\ n > made => call[n] = "none"
       /\ call[n] # "none" => id[n] \in Notes
       /\ call[n] = "none" =>
            /\ id[n] = None /\ asked[n] = None /\ todo[n] = {} /\ sentTo[n] = {}
            /\ \A d \in Devices : handled[n][d] = "no"

\* Requests are under way while the agent sends, to one device after the other.
InTurn ==
  \A n \in Notes :
    /\ asked[n] # None => call[n] = "sending" /\ asked[n] \notin todo[n]
    /\ \A d \in Devices :
         /\ d \in todo[n] \/ handled[n][d] = "no" => n \notin screen[d]
         /\ d \in todo[n] => handled[n][d] = "no"
         /\ d \in sentTo[n] => handled[n][d] \in {"done", "stuck"}

\* A connection that holds is in the table and has its writer, and only such a
\* one owes a dismissal.
Linked ==
  \A d \in Devices :
    /\ link[d] = "up" => d \in clients /\ d \in writer
    /\ \A n \in owed[d] : link[d] = "up" /\ d \in sentTo[n]

\* What is sent to devices was told to a tool.
ToldOnly ==
  /\ lock # None => lock.id \in Told
  /\ \A d \in Devices : \A k \in DOMAIN channel[d] : channel[d][k] \in Told

\* An entry names a notification that the device was asked to show.
Entered ==
  \A d \in Devices, i \in Ids :
    idMap[d][i] # None => handled[idMap[d][i]][d] \in {"begun", "done", "stuck"}

\* The device has the request, and the agent can hear it, or has.
Reached(n, d) == d \in sentTo[n] \/ (asked[n] = d /\ d \notin gone[n])

\* A phone has the entry before it shows a notification, and every device has it
\* before it answers.
EntryKept ==
  \A n \in Notes, d \in Devices :
    OnlyOne(n) /\ Reached(n, d) =>
      /\ handled[n][d] = "done" /\ n \in screen[d] => idMap[d][id[n]] = n
      /\ handled[n][d] = "begun" /\ d \in Phones => idMap[d][id[n]] = n

IInv ==
  /\ TypeOK
  /\ Numbered
  /\ InTurn
  /\ Linked
  /\ ToldOnly
  /\ Entered
  /\ EntryKept
  /\ DismissalUnderWay
-----------------------------------------------------------------------------
LEMMA Frames ==
  ASSUME IInv
  PROVE  /\ UNCHANGED <<counter, made, call, id, asked, todo, sentTo, handled>> => Numbered'
         /\ UNCHANGED <<asked, call, todo, handled, screen, sentTo>> => InTurn'
         /\ UNCHANGED <<link, clients, writer, owed, sentTo>> => Linked'
         /\ UNCHANGED <<lock, channel, id, call>> => ToldOnly'
         /\ UNCHANGED <<id, sentTo, asked, gone, handled, screen, idMap>> => EntryKept'
         /\ UNCHANGED <<owed, screen, handled, id, channel, lock>> => DismissalUnderWay'
         /\ UNCHANGED <<idMap, handled>> => Entered'
<1> USE DEF IInv
<1>1. UNCHANGED <<counter, made, call, id, asked, todo, sentTo, handled>> => Numbered'
    BY DEF Numbered
<1>2. UNCHANGED <<asked, call, todo, handled, screen, sentTo>> => InTurn'
    BY DEF InTurn
<1>3. UNCHANGED <<link, clients, writer, owed, sentTo>> => Linked'
    BY DEF Linked
<1>4. UNCHANGED <<lock, channel, id, call>> => ToldOnly'
    BY DEF ToldOnly, Told
<1>5. UNCHANGED <<id, sentTo, asked, gone, handled, screen, idMap>> => EntryKept'
    BY DEF EntryKept, Reached, OnlyOne
<1>6. UNCHANGED <<owed, screen, handled, id, channel, lock>> => DismissalUnderWay'
    BY DEF DismissalUnderWay, OnlyOne
<1>7. UNCHANGED <<idMap, handled>> => Entered'
    BY DEF Entered
<1>8. QED
    BY <1>1, <1>2, <1>3, <1>4, <1>5, <1>6, <1>7

\* What is under way for a device stays so if nothing takes it away.
LEMMA StaysUnderWay ==
  ASSUME IInv, lock' = lock,
         \A d \in Devices : \A n \in owed'[d] \intersect screen'[d] :
           /\ n \in owed[d] /\ n \in screen[d] /\ id'[n] = id[n]
           /\ OnlyOne(n)' => OnlyOne(n)
           /\ handled[n][d] = "stuck" => handled'[n][d] = "stuck"
           /\ channel'[d] = channel[d]
  PROVE  DismissalUnderWay'
<1>1. SUFFICES ASSUME NEW d \in Devices, NEW n \in owed'[d] \intersect screen'[d], OnlyOne(n)',
                      handled'[n][d] # "stuck"
               PROVE  \/ \E k \in DOMAIN channel'[d] : channel'[d][k] = id'[n]
                      \/ /\ lock' # None /\ lock'.id = id'[n]
                         /\ \E k \in DOMAIN lock'.left : lock'.left[k] = d
    BY DEF DismissalUnderWay
<1>2. /\ n \in owed[d] \intersect screen[d] /\ id'[n] = id[n]
      /\ OnlyOne(n) /\ channel'[d] = channel[d] /\ handled[n][d] # "stuck"
    BY <1>1
<1>3. \/ \E k \in DOMAIN channel[d] : channel[d][k] = id[n]
      \/ lock # None /\ lock.id = id[n] /\ \E k \in DOMAIN lock.left : lock.left[k] = d
    BY <1>2 DEF IInv, DismissalUnderWay
<1>4. QED
    BY <1>2, <1>3

\* The owed were sent, and their device is connected.
LEMMA OwedAre ==
  ASSUME IInv, NEW d \in Devices, NEW n \in owed[d]
  PROVE  /\ n \in Notes /\ link[d] = "up" /\ d \in clients /\ d \in writer
         /\ d \in sentTo[n] /\ handled[n][d] \in {"done", "stuck"}
         /\ call[n] # "none"
<1>1. n \in Notes
    BY DEF IInv, TypeOK
<1>2. link[d] = "up" /\ d \in clients /\ d \in writer /\ d \in sentTo[n]
    BY <1>1 DEF IInv, Linked
<1>3. QED
    BY <1>1, <1>2 DEF IInv, InTurn, Numbered

\* An id nobody else has is not told before the notification is delivered.
LEMMA NotToldEarly ==
  ASSUME IInv, NEW n \in Notes, OnlyOne(n), call[n] = "sending"
  PROVE  id[n] \notin Told
<1>1. id[n] \in Notes /\ Other \notin Notes
    BY BoundsAssumption DEF IInv, Numbered, Notes, Other
<1>2. QED
    BY <1>1 DEF Told, OnlyOne

LEMMA TailOf ==
  ASSUME NEW S, NEW s \in Seq(S), s # <<>>
  PROVE  /\ Head(s) = s[1] /\ Head(s) \in S /\ Tail(s) \in Seq(S)
         /\ Len(s) \in Nat \ {0} /\ DOMAIN s = 1..Len(s) /\ DOMAIN Tail(s) = 1..Len(s) - 1
         /\ Len(Tail(s)) = Len(s) - 1
         /\ \A i \in 1..Len(s) - 1 : Tail(s)[i] = s[i + 1]
  OBVIOUS

LEMMA AppendOf ==
  ASSUME NEW S, NEW s \in Seq(S), NEW e \in S
  PROVE  /\ Append(s, e) \in Seq(S) /\ Len(Append(s, e)) = Len(s) + 1
         /\ Len(s) \in Nat /\ DOMAIN s = 1..Len(s) /\ DOMAIN Append(s, e) = 1..Len(s) + 1
         /\ \A i \in 1..Len(s) : Append(s, e)[i] = s[i]
         /\ Append(s, e)[Len(s) + 1] = e
  OBVIOUS

\* The order of a broadcast names every client.
LEMMA OrderCovers ==
  ASSUME clients \subseteq Devices, NEW order \in SetToSeqs(clients)
  PROVE  order \in Seq(Devices) /\ \A d \in clients : \E k \in DOMAIN order : order[k] = d
<1>1. IsFiniteSet(clients) /\ Cardinality(clients) \in Nat
    BY DevicesFinite, FS_Subset, FS_CardinalityType
<1> DEFINE D == 1..Cardinality(clients)
<1>2. order \in [D -> clients] /\ \A i, j \in D : i # j => order[i] # order[j]
    BY DEF SetToSeqs
<1>3. order \in Injection(D, clients)
    BY <1>2, Zenon DEF Injection, IsInjective
<1>4. Cardinality(D) = Cardinality(clients)
    BY <1>1, FS_Interval
<1>5. order \in Surjection(D, clients)
    BY <1>1, <1>3, <1>4, FS_Injection
<1>6. QED
    BY <1>1, <1>2, <1>5 DEF Surjection

LEMMA ConnectStep ==
  ASSUME IInv, NEW d \in Devices, Connect(d)
  PROVE  IInv'
<1> USE NoneAssumption, BoundsAssumption DEF IInv
<1>1. Numbered' /\ InTurn' /\ EntryKept' /\ Entered'
    BY Frames DEF Connect, agentVars, callVars, linkVars, deviceVars
<1>2. TypeOK'
    BY DEF Connect, agentVars, callVars, linkVars, deviceVars, TypeOK, Numbered, InTurn, Linked
<1>3. Linked'
    BY DEF Connect, agentVars, callVars, linkVars, deviceVars, TypeOK, Linked
<1>4. ToldOnly'
    BY DEF Connect, agentVars, callVars, linkVars, deviceVars, TypeOK, ToldOnly, Told
<1>5. DismissalUnderWay'
  <2>1. lock' = lock /\ UNCHANGED <<owed, screen, handled, id>>
      BY DEF Connect, callVars, deviceVars
  <2>2. \A e \in Devices \ {d} : channel'[e] = channel[e]
      BY DEF Connect, TypeOK
  <2>3. \A n \in owed[d] : FALSE
      BY OwedAre DEF Connect
  <2>4. QED
      BY <2>1, <2>2, <2>3, StaysUnderWay DEF OnlyOne
<1>6. QED
    BY <1>1, <1>2, <1>3, <1>4, <1>5

LEMMA LoseStep ==
  ASSUME IInv, NEW d \in Devices, Lose(d)
  PROVE  IInv'
<1> USE NoneAssumption, BoundsAssumption DEF IInv
<1>1. Numbered' /\ InTurn' /\ ToldOnly' /\ Entered'
    BY Frames DEF Lose, agentVars, callVars, linkVars, deviceVars
<1>2. TypeOK'
    BY DEF Lose, agentVars, callVars, linkVars, deviceVars, TypeOK, Numbered, InTurn, Linked
<1>3. Linked'
    BY DEF Lose, agentVars, callVars, linkVars, deviceVars, TypeOK, Linked
<1>4. EntryKept'
    BY DEF Lose, agentVars, callVars, linkVars, deviceVars, TypeOK, EntryKept, Reached, OnlyOne
<1>5. DismissalUnderWay'
  <2>1. UNCHANGED <<lock, screen, handled, id, channel>>
      BY DEF Lose, deviceVars
  <2>2. \A e \in Devices : owed'[e] \subseteq owed[e]
      BY DEF Lose, TypeOK
  <2>3. QED
      BY <2>1, <2>2, StaysUnderWay DEF OnlyOne
<1>6. QED
    BY <1>1, <1>2, <1>3, <1>4, <1>5

LEMMA LeaveStep ==
  ASSUME IInv, NEW d \in Devices, Leave(d)
  PROVE  IInv'
<1> USE NoneAssumption, BoundsAssumption DEF IInv
<1>1. Numbered' /\ InTurn' /\ ToldOnly' /\ EntryKept' /\ DismissalUnderWay' /\ Entered'
    BY Frames DEF Leave, agentVars, callVars, linkVars, deviceVars
<1>2. TypeOK'
    BY DEF Leave, agentVars, callVars, linkVars, deviceVars, TypeOK, Numbered, InTurn, Linked
<1>3. Linked'
    BY DEF Leave, agentVars, callVars, linkVars, deviceVars, TypeOK, Linked
<1>4. QED
    BY <1>1, <1>2, <1>3

LEMMA WriteFailsStep ==
  ASSUME IInv, NEW d \in Devices, WriteFails(d)
  PROVE  IInv'
<1> USE NoneAssumption, BoundsAssumption DEF IInv
<1>1. Numbered' /\ InTurn' /\ EntryKept' /\ Entered'
    BY Frames DEF WriteFails, agentVars, callVars, linkVars, deviceVars
<1>2. TypeOK'
    BY DEF WriteFails, agentVars, callVars, linkVars, deviceVars, TypeOK, Numbered, InTurn, Linked
<1>3. Linked'
    BY DEF WriteFails, agentVars, callVars, linkVars, deviceVars, TypeOK, Linked
<1>4. ToldOnly'
    BY DEF WriteFails, agentVars, callVars, linkVars, deviceVars, TypeOK, ToldOnly, Told
<1>5. DismissalUnderWay'
  <2>1. UNCHANGED <<lock, owed, screen, handled, id>>
      BY DEF WriteFails, callVars, deviceVars
  <2>2. \A e \in Devices \ {d} : channel'[e] = channel[e]
      BY DEF WriteFails, TypeOK
  <2>3. \A n \in owed[d] : FALSE
      BY OwedAre DEF WriteFails
  <2>4. QED
      BY <2>1, <2>2, <2>3, StaysUnderWay DEF OnlyOne
<1>6. QED
    BY <1>1, <1>2, <1>3, <1>4, <1>5

LEMMA NotifyStep ==
  ASSUME IInv, NEW n \in Notes, Notify(n)
  PROVE  IInv'
<1> USE NoneAssumption, BoundsAssumption DEF IInv
<1>a. /\ n = made + 1 /\ n \in Notes /\ made' = n /\ counter' = counter + 1
      /\ lock = None
      /\ id' = [id EXCEPT ![n] = counter + 1]
      /\ todo' = [todo EXCEPT ![n] = clients]
      /\ gone' = [gone EXCEPT ![n] = {d \in clients : link[d] # "up"}]
      /\ call' = [call EXCEPT ![n] = "sending"]
      /\ UNCHANGED <<faults, dismissals, asked, sentTo, lock, linkVars, deviceVars, owed>>
    BY DEF Notify
<1>b. /\ call[n] = "none" /\ id[n] = None /\ asked[n] = None /\ sentTo[n] = {}
      /\ \A d \in Devices : handled[n][d] = "no"
  <2>1. n > made
      BY <1>a DEF TypeOK
  <2>2. call[n] = "none"
      BY <1>a, <2>1 DEF Numbered
  <2>3. QED
      BY <1>a, <2>2 DEF Numbered
<1>c. counter + 1 \in Notes /\ counter + 1 <= made + 1 /\ made + 1 \in 0..MaxNotes
    BY <1>a DEF TypeOK, Numbered, Notes
<1>d. \A m \in Notes \ {n} : /\ id'[m] = id[m] /\ todo'[m] = todo[m] /\ gone'[m] = gone[m]
                             /\ call'[m] = call[m]
    BY <1>a DEF TypeOK
<1>e. id'[n] = counter + 1 /\ todo'[n] = clients /\ call'[n] = "sending"
    BY <1>a DEF TypeOK
<1>f. ASSUME NEW m \in Notes, call[m] # "none", OnlyOne(m)' PROVE m # n /\ OnlyOne(m)
  <2>1. m # n /\ id[m] # None
      BY <1>b, <1>f DEF Numbered, Ids
  <2>2. QED
      BY <1>b, <1>d, <1>f, <2>1 DEF OnlyOne
<1>1. Linked' /\ Entered'
  <2>1. UNCHANGED <<clients, link, owed, sentTo, writer, idMap, handled>>
      BY DEF Notify, agentVars, callVars, linkVars, deviceVars
  <2>2. QED
      BY <2>1, Frames
<1>2. TypeOK'
  <2>1. counter' \in 0..MaxNotes /\ made' \in 0..MaxNotes
      BY <1>a, <1>c DEF TypeOK, Notes
  <2>2. /\ call' \in [Notes -> {"none", "sending", "delivered", "lost", "past"}]
        /\ todo' \in [Notes -> SUBSET Devices] /\ gone' \in [Notes -> SUBSET Devices]
      BY <1>a DEF TypeOK
  <2>3. id' \in [Notes -> Ids \union {None}]
      BY <1>a, <1>c DEF TypeOK, Ids
  <2>4. QED
      BY <1>a, <2>1, <2>2, <2>3 DEF TypeOK, linkVars, deviceVars
<1>3. Numbered'
  <2>1. counter' <= made'
      BY <1>a, <1>c
  <2>2. ASSUME NEW m \in Notes
        PROVE  /\ m > made' => call'[m] = "none"
               /\ call'[m] # "none" => id'[m] \in Notes
               /\ call'[m] = "none" =>
                    /\ id'[m] = None /\ asked'[m] = None /\ todo'[m] = {} /\ sentTo'[m] = {}
                    /\ \A d \in Devices : handled'[m][d] = "no"
    <3>1. CASE m = n
        BY <1>a, <1>c, <1>e, <3>1 DEF Notes
    <3>2. CASE m # n
        BY <1>a, <1>c, <1>d, <3>2 DEF Numbered, deviceVars, Notes, TypeOK
    <3>3. QED
        BY <3>1, <3>2
  <2>3. QED
      BY <2>1, <2>2 DEF Numbered
<1>4. InTurn'
  <2>1. UNCHANGED <<asked, handled, screen, sentTo>>
      BY <1>a DEF deviceVars
  <2>2. QED
      BY <1>b, <1>d, <1>e, <2>1 DEF InTurn
<1>5. ToldOnly'
  <2>1. UNCHANGED <<lock, channel>>
      BY <1>a DEF linkVars
  <2>2. Told \subseteq Told'
      BY <1>b, <1>d DEF Told
  <2>3. QED
      BY <2>1, <2>2 DEF ToldOnly
<1>6. EntryKept'
  <2>1. UNCHANGED <<asked, handled, screen, idMap, sentTo>>
      BY <1>a DEF deviceVars
  <2>2. ASSUME NEW m \in Notes, NEW e \in Devices, OnlyOne(m)', Reached(m, e)'
        PROVE  m # n /\ OnlyOne(m) /\ Reached(m, e)
    <3>1. m # n
        BY <1>b, <2>1, <2>2 DEF Reached
    <3>2. Reached(m, e)
        BY <1>d, <2>1, <2>2, <3>1 DEF Reached
    <3>3. call[m] # "none"
        BY <3>2 DEF Reached, Numbered
    <3>4. QED
        BY <1>f, <2>2, <3>1, <3>2, <3>3
  <2>3. QED
      BY <1>d, <2>1, <2>2 DEF EntryKept
<1>7. DismissalUnderWay'
  <2>1. UNCHANGED <<lock, owed, screen, handled, channel>>
      BY <1>a DEF linkVars, deviceVars
  <2>2. ASSUME NEW e \in Devices, NEW m \in owed[e]
        PROVE  id'[m] = id[m] /\ (OnlyOne(m)' => OnlyOne(m))
      BY <1>b, <1>d, <1>f, OwedAre
  <2>3. QED
      BY <2>1, <2>2, StaysUnderWay
<1>8. QED
    BY <1>1, <1>2, <1>3, <1>4, <1>5, <1>6, <1>7

LEMMA AskStep ==
  ASSUME IInv, NEW n \in Notes, NEW d \in Devices, Ask(n, d)
  PROVE  IInv'
<1> USE NoneAssumption, BoundsAssumption DEF IInv
<1>1. Linked' /\ ToldOnly' /\ DismissalUnderWay' /\ Entered'
    BY Frames DEF Ask, agentVars, callVars, linkVars, deviceVars
<1>2. TypeOK'
    BY DEF Ask, agentVars, callVars, linkVars, deviceVars, TypeOK, Numbered, InTurn, Linked
<1>3. Numbered'
    BY DEF Ask, agentVars, callVars, linkVars, deviceVars, TypeOK, Numbered
<1>4. InTurn'
    BY DEF Ask, agentVars, callVars, linkVars, deviceVars, TypeOK, InTurn
<1>5. EntryKept'
  <2>1. handled[n][d] = "no"
      BY DEF Ask, InTurn
  <2>2. UNCHANGED <<id, sentTo, gone, handled, screen, idMap>>
      BY DEF Ask, deviceVars
  <2>3. \A m \in Notes : asked'[m] = IF m = n THEN d ELSE asked[m]
      BY DEF Ask, TypeOK
  <2>4. QED
      BY <2>1, <2>2, <2>3 DEF EntryKept, Reached, OnlyOne
<1>6. QED
    BY <1>1, <1>2, <1>3, <1>4, <1>5

LEMMA HearStep ==
  ASSUME IInv, NEW n \in Notes, NEW d \in Devices, Hear(n, d)
  PROVE  IInv'
<1> USE NoneAssumption, BoundsAssumption DEF IInv
<1>1. ToldOnly' /\ DismissalUnderWay' /\ Entered'
    BY Frames DEF Hear, Heard, agentVars, callVars, linkVars, deviceVars
<1>2. TypeOK'
    BY DEF Hear, Heard, agentVars, callVars, linkVars, deviceVars, TypeOK, Numbered, InTurn, Linked
<1>3. Numbered'
    BY DEF Hear, Heard, agentVars, callVars, linkVars, deviceVars, TypeOK, Numbered
<1>4. InTurn'
    BY DEF Hear, Heard, agentVars, callVars, linkVars, deviceVars, TypeOK, InTurn
<1>5. Linked'
    BY DEF Hear, Heard, agentVars, callVars, linkVars, deviceVars, TypeOK, Linked
<1>6. EntryKept'
    BY DEF Hear, Heard, agentVars, callVars, linkVars, deviceVars, TypeOK, EntryKept, Reached, OnlyOne
<1>7. QED
    BY <1>1, <1>2, <1>3, <1>4, <1>5, <1>6

LEMMA FailStep ==
  ASSUME IInv, NEW n \in Notes, NEW d \in Devices, Fail(n, d)
  PROVE  IInv'
<1> USE NoneAssumption, BoundsAssumption DEF IInv
<1>1. Linked' /\ ToldOnly' /\ DismissalUnderWay' /\ Entered'
    BY Frames DEF Fail, agentVars, callVars, linkVars, deviceVars
<1>2. TypeOK'
    BY DEF Fail, agentVars, callVars, linkVars, deviceVars, TypeOK, Numbered, InTurn, Linked
<1>3. Numbered'
    BY DEF Fail, agentVars, callVars, linkVars, deviceVars, TypeOK, Numbered
<1>4. InTurn'
    BY DEF Fail, agentVars, callVars, linkVars, deviceVars, TypeOK, InTurn
<1>5. EntryKept'
    BY DEF Fail, agentVars, callVars, linkVars, deviceVars, TypeOK, EntryKept, Reached, OnlyOne
<1>6. QED
    BY <1>1, <1>2, <1>3, <1>4, <1>5

LEMMA DeliveredStep ==
  ASSUME IInv, NEW n \in Notes, Delivered(n)
  PROVE  IInv'
<1> USE NoneAssumption, BoundsAssumption DEF IInv
<1>1. Linked' /\ EntryKept' /\ DismissalUnderWay' /\ Entered'
    BY Frames DEF Delivered, agentVars, callVars, linkVars, deviceVars
<1>2. TypeOK'
    BY DEF Delivered, agentVars, callVars, linkVars, deviceVars, TypeOK, Numbered, InTurn, Linked
<1>3. Numbered'
    BY DEF Delivered, agentVars, callVars, linkVars, deviceVars, TypeOK, Numbered
<1>4. InTurn'
    BY DEF Delivered, agentVars, callVars, linkVars, deviceVars, TypeOK, InTurn
<1>5. ToldOnly'
    BY DEF Delivered, agentVars, callVars, linkVars, deviceVars, TypeOK, ToldOnly, Told
<1>6. QED
    BY <1>1, <1>2, <1>3, <1>4, <1>5

LEMMA DismissStep ==
  ASSUME IInv, NEW i \in Ids, Dismiss(i)
  PROVE  IInv'
<1> USE NoneAssumption, BoundsAssumption DEF IInv
<1>1. Numbered' /\ InTurn' /\ EntryKept' /\ Entered'
  <2>1. UNCHANGED <<asked, call, counter, gone, handled, id, idMap, made, screen, sentTo, todo>>
      BY DEF Dismiss, Named, agentVars, callVars, linkVars, deviceVars
  <2>2. QED
      BY <2>1, Frames
<1>2. TypeOK'
  <2>1. PICK order \in SetToSeqs(clients) : lock' = [id |-> i, left |-> order]
      BY DEF Dismiss
  <2>2. lock' \in [id : Ids, left : Seq(Devices)]
      BY <2>1, OrderCovers DEF TypeOK
  <2>3. dismissals' \in 0..MaxDismissals
      BY DEF Dismiss, TypeOK
  <2>4. owed' \in [Devices -> SUBSET Notes]
    <3>1. \A n \in Named(i) : n \in Notes
        BY DEF Named
    <3>2. QED
        BY <3>1 DEF Dismiss, TypeOK
  <2>5. UNCHANGED <<faults, counter, callVars, linkVars, deviceVars>>
      BY DEF Dismiss
  <2>6. QED
      BY <2>2, <2>3, <2>4, <2>5 DEF TypeOK, callVars, linkVars, deviceVars
<1>3. Linked'
    BY DEF Dismiss, Named, agentVars, callVars, linkVars, deviceVars, TypeOK, Linked
<1>4. ToldOnly'
    BY DEF Dismiss, Named, agentVars, callVars, linkVars, deviceVars, TypeOK, ToldOnly, Told
<1>5. DismissalUnderWay'
  <2>1. PICK order \in SetToSeqs(clients) : lock' = [id |-> i, left |-> order]
      BY DEF Dismiss
  <2>2. \A e \in clients : \E k \in DOMAIN order : order[k] = e
      BY <2>1, OrderCovers DEF TypeOK
  <2>3. /\ lock = None /\ UNCHANGED <<id, screen, handled, channel>>
        /\ \A e \in Devices : \A n \in owed'[e] :
             n \in owed[e] \/ (n \in Named(i) /\ e \in clients)
      BY DEF Dismiss, callVars, linkVars, deviceVars, TypeOK
  <2>4. lock' # None
      BY <2>1, OrderCovers DEF TypeOK
  <2>5. SUFFICES ASSUME NEW e \in Devices, NEW n \in owed'[e] \intersect screen'[e], OnlyOne(n)',
                        handled'[n][e] # "stuck"
                 PROVE  \/ \E k \in DOMAIN channel'[e] : channel'[e][k] = id'[n]
                        \/ /\ lock' # None /\ lock'.id = id'[n]
                           /\ \E k \in DOMAIN lock'.left : lock'.left[k] = e
      BY DEF DismissalUnderWay
  <2>6. CASE n \in owed[e]
      BY <2>3, <2>5, <2>6 DEF DismissalUnderWay, OnlyOne
  <2>7. CASE n \in Named(i) /\ e \in clients
    <3>1. id'[n] = i /\ lock'.id = i /\ lock'.left = order
        BY <2>1, <2>3, <2>7 DEF Named
    <3>2. QED
        BY <2>2, <2>4, <2>7, <3>1
  <2>8. QED
      BY <2>3, <2>5, <2>6, <2>7
<1>6. QED
    BY <1>1, <1>2, <1>3, <1>4, <1>5

LEMMA PassStep ==
  ASSUME IInv, Pass
  PROVE  IInv'
<1> USE NoneAssumption, BoundsAssumption DEF IInv
<1> DEFINE d == Head(lock.left)
<1>a. lock # None /\ lock.left # <<>> /\ lock.id \in Ids /\ lock.left \in Seq(Devices)
    BY DEF Pass, TypeOK
<1>b. /\ d = lock.left[1] /\ d \in Devices /\ Tail(lock.left) \in Seq(Devices)
      /\ Len(lock.left) \in Nat \ {0} /\ DOMAIN lock.left = 1..Len(lock.left)
      /\ DOMAIN Tail(lock.left) = 1..Len(lock.left) - 1
      /\ \A k \in 1..Len(lock.left) - 1 : Tail(lock.left)[k] = lock.left[k + 1]
    BY <1>a, TailOf
<1>c. lock' = [id |-> lock.id, left |-> Tail(lock.left)]
    BY <1>a DEF Pass, Others, TypeOK
<1>d. lock' \in [id : Ids, left : Seq(Devices)] /\ lock' # None
  <2>1. lock' \in [id : Ids, left : Seq(Devices)]
      BY <1>a, <1>b, <1>c
  <2>2. QED
      BY <2>1
<1>e. \/ /\ d \in writer /\ Len(channel[d]) < Room
         /\ channel' = [channel EXCEPT ![d] = Append(@, lock.id)]
      \/ d \notin writer /\ channel' = channel
    BY DEF Pass, NextClient
<1>f. UNCHANGED <<agentVars, callVars, link, clients, writer, deviceVars, owed>>
    BY DEF Pass
<1> HIDE DEF d
<1>g. /\ Append(channel[d], lock.id) \in Seq(Ids) /\ Len(channel[d]) \in Nat
      /\ Len(Append(channel[d], lock.id)) = Len(channel[d]) + 1
      /\ DOMAIN channel[d] = 1..Len(channel[d])
      /\ DOMAIN Append(channel[d], lock.id) = 1..Len(channel[d]) + 1
      /\ \A k \in 1..Len(channel[d]) : Append(channel[d], lock.id)[k] = channel[d][k]
      /\ Append(channel[d], lock.id)[Len(channel[d]) + 1] = lock.id
  <2>1. channel[d] \in Seq(Ids)
      BY <1>b DEF TypeOK
  <2>2. QED
      BY <1>a, <2>1, AppendOf
<1>h. \A e \in Devices : channel'[e] = channel[e] \/ (e = d /\ channel'[e] = Append(channel[d], lock.id))
    BY <1>b, <1>e DEF TypeOK
<1>1. Numbered' /\ InTurn' /\ Linked' /\ EntryKept' /\ Entered'
  <2>1. UNCHANGED <<asked, call, clients, counter, gone, handled, id, idMap, link, made, owed, screen, sentTo, todo, writer>>
      BY DEF Pass, NextClient, Others, agentVars, callVars, linkVars, deviceVars
  <2>2. QED
      BY <2>1, Frames
<1>2. TypeOK'
  <2>1. channel' \in [Devices -> Seq(Ids)]
    <3>1. channel \in [Devices -> Seq(Ids)]
        BY DEF TypeOK
    <3>2. QED
        BY <1>b, <1>e, <1>g, <3>1
  <2>2. ASSUME NEW e \in Devices PROVE Len(channel'[e]) <= Room
    <3>1. Len(channel[e]) <= Room
        BY DEF TypeOK
    <3>2. CASE channel'[e] = channel[e]
        BY <3>1, <3>2
    <3>3. CASE e = d /\ channel' = [channel EXCEPT ![d] = Append(@, lock.id)]
               /\ Len(channel[d]) < Room
      <4>1. channel'[e] = Append(channel[d], lock.id)
          BY <1>b, <3>3 DEF TypeOK
      <4>2. QED
          BY <1>g, <3>3, <4>1
    <3>4. CASE e # d
        BY <1>h, <3>1, <3>4
    <3>5. QED
        BY <1>e, <3>2, <3>3, <3>4
  <2>3. QED
      BY <1>d, <1>f, <2>1, <2>2 DEF TypeOK, agentVars, callVars, deviceVars
<1>3. ToldOnly'
  <2>1. Told' = Told
      BY <1>f DEF Told, callVars
  <2>2. lock.id \in Told /\ lock'.id = lock.id
      BY <1>a, <1>c DEF ToldOnly
  <2>3. ASSUME NEW e \in Devices, NEW k \in DOMAIN channel'[e] PROVE channel'[e][k] \in Told
    <3>1. CASE channel'[e] = channel[e]
        BY <2>3, <3>1 DEF ToldOnly
    <3>2. CASE e = d /\ channel'[e] = Append(channel[d], lock.id)
      <4>1. CASE k = Len(channel[d]) + 1
          BY <1>g, <2>2, <3>2, <4>1
      <4>2. CASE k # Len(channel[d]) + 1
        <5>1. k \in DOMAIN channel[d] /\ channel'[e][k] = channel[d][k]
            BY <1>g, <2>3, <3>2, <4>2
        <5>2. QED
            BY <1>b, <5>1 DEF ToldOnly
      <4>3. QED
          BY <4>1, <4>2
    <3>3. QED
        BY <1>h, <3>1, <3>2
  <2>4. QED
      BY <2>1, <2>2, <2>3 DEF ToldOnly
<1>4. DismissalUnderWay'
  <2>1. UNCHANGED <<id, screen, handled, owed>>
      BY <1>f DEF callVars, deviceVars
  <2>a. SUFFICES ASSUME NEW e \in Devices, NEW n \in owed'[e] \intersect screen'[e], OnlyOne(n)',
                        handled'[n][e] # "stuck"
                 PROVE  \/ \E k \in DOMAIN channel'[e] : channel'[e][k] = id'[n]
                        \/ /\ lock' # None /\ lock'.id = id'[n]
                           /\ \E k \in DOMAIN lock'.left : lock'.left[k] = e
      BY DEF DismissalUnderWay
  <2>2. /\ n \in owed[e] \intersect screen[e] /\ OnlyOne(n) /\ id'[n] = id[n]
        /\ handled[n][e] # "stuck"
      BY <2>a, <2>1 DEF OnlyOne
  <2>3. CASE \E k \in DOMAIN channel[e] : channel[e][k] = id[n]
    <3>1. PICK k \in DOMAIN channel[e] : channel[e][k] = id[n]
        BY <2>3
    <3>2. CASE channel'[e] = channel[e]
        BY <2>2, <3>1, <3>2
    <3>3. CASE e = d /\ channel'[e] = Append(channel[d], lock.id)
      <4>1. k \in DOMAIN channel'[e] /\ channel'[e][k] = channel[d][k]
          BY <1>g, <3>1, <3>3
      <4>2. QED
          BY <2>2, <3>1, <3>3, <4>1
    <3>4. QED
        BY <1>h, <3>2, <3>3
  <2>4. CASE lock.id = id[n] /\ \E k \in DOMAIN lock.left : lock.left[k] = e
    <3>1. PICK k \in DOMAIN lock.left : lock.left[k] = e
        BY <2>4
    <3>2. CASE k = 1
      <4>1. e = d /\ d \in writer
          BY <1>b, <2>2, <3>1, <3>2, OwedAre
      <4>2. channel \in [Devices -> Seq(Ids)]
          BY DEF TypeOK
      <4>3. channel' = [channel EXCEPT ![d] = Append(@, lock.id)]
          BY <1>e, <4>1
      <4>4. channel'[d] = Append(channel[d], lock.id)
          BY <1>b, <4>2, <4>3
      <4>5. /\ Len(channel[d]) + 1 \in DOMAIN channel'[e]
            /\ channel'[e][Len(channel[d]) + 1] = lock.id
          BY <1>g, <4>1, <4>4
      <4>6. QED
          BY <2>2, <2>4, <4>5
    <3>3. CASE k # 1
      <4>1. k - 1 \in DOMAIN lock'.left /\ lock'.left[k - 1] = e
          BY <1>b, <1>c, <3>1, <3>3
      <4>2. QED
          BY <1>c, <1>d, <2>2, <2>4, <4>1
    <3>4. QED
        BY <3>2, <3>3
  <2>5. QED
      BY <2>2, <2>3, <2>4 DEF DismissalUnderWay
<1>5. QED
    BY <1>1, <1>2, <1>3, <1>4

LEMMA ReleaseStep ==
  ASSUME IInv, Release
  PROVE  IInv'
<1> USE NoneAssumption, BoundsAssumption DEF IInv
<1>1. Numbered' /\ InTurn' /\ Linked' /\ EntryKept' /\ Entered'
    BY Frames DEF Release, agentVars, callVars, linkVars, deviceVars
<1>2. TypeOK'
    BY DEF Release, agentVars, callVars, linkVars, deviceVars, TypeOK, Numbered, InTurn, Linked
<1>3. ToldOnly'
    BY DEF Release, agentVars, callVars, linkVars, deviceVars, TypeOK, ToldOnly, Told
<1>4. DismissalUnderWay'
  <2>1. UNCHANGED <<id, screen, handled, owed, channel>> /\ lock # None /\ lock.left = <<>>
      BY DEF Release, callVars, linkVars, deviceVars
  <2>2. DOMAIN lock.left = {}
      BY <2>1
  <2>3. QED
      BY <2>1, <2>2 DEF DismissalUnderWay, OnlyOne
<1>5. QED
    BY <1>1, <1>2, <1>3, <1>4

LEMMA BeginStep ==
  ASSUME IInv, NEW n \in Notes, NEW d \in Devices, Begin(n, d)
  PROVE  IInv'
<1> USE NoneAssumption, BoundsAssumption DEF IInv
<1>a. /\ asked[n] = d /\ d \notin gone[n] /\ handled[n][d] = "no"
      /\ UNCHANGED <<agentVars, callVars, lock, linkVars, owed>>
    BY DEF Begin
<1>b. /\ call[n] = "sending" /\ id[n] \in Notes /\ id[n] \in Ids
      /\ d \notin todo[n] /\ d \notin sentTo[n]
    BY <1>a DEF InTurn, Numbered, Ids
<1>c. \/ /\ d \in Phones /\ handled' = [handled EXCEPT ![n][d] = "begun"]
         /\ idMap' = [idMap EXCEPT ![d][id[n]] = n] /\ screen' = screen
      \/ /\ d \notin Phones /\ handled' = [handled EXCEPT ![n][d] = "begun"]
         /\ idMap' = idMap /\ screen' = [screen EXCEPT ![d] = @ \union {n}]
      \/ /\ d \notin Phones /\ handled' = [handled EXCEPT ![n][d] = "refused"]
         /\ idMap' = idMap /\ screen' = screen
    BY DEF Begin, Put, Enter
<1>d. /\ handled' \in [Notes -> [Devices -> {"no", "begun", "done", "stuck", "refused"}]]
      /\ idMap' \in [Devices -> [Ids -> Notes \union {None}]]
      /\ screen' \in [Devices -> SUBSET Notes]
  <2>1. handled' \in [Notes -> [Devices -> {"no", "begun", "done", "stuck", "refused"}]]
    <3>1. PICK h \in {"begun", "done", "refused"} :
            handled' = [handled EXCEPT ![n] = [handled[n] EXCEPT ![d] = h]]
        BY <1>c
    <3>2. [handled[n] EXCEPT ![d] = h] \in [Devices -> {"no", "begun", "done", "stuck", "refused"}]
        BY DEF TypeOK
    <3>3. QED
        BY <3>1, <3>2 DEF TypeOK
  <2>2. idMap' = idMap \/ idMap' = [idMap EXCEPT ![d] = [idMap[d] EXCEPT ![id[n]] = n]]
      BY <1>c
  <2>3. [idMap[d] EXCEPT ![id[n]] = n] \in [Ids -> Notes \union {None}]
      BY DEF TypeOK
  <2>4. idMap' \in [Devices -> [Ids -> Notes \union {None}]]
      BY <2>2, <2>3 DEF TypeOK
  <2>5. screen' \in [Devices -> SUBSET Notes]
    <3>1. screen' = screen \/ screen' = [screen EXCEPT ![d] = screen[d] \union {n}]
        BY <1>c
    <3>2. screen \in [Devices -> SUBSET Notes] /\ screen[d] \union {n} \in SUBSET Notes
        BY DEF TypeOK
    <3>3. QED
        BY <3>1, <3>2
  <2>6. QED
      BY <2>1, <2>4, <2>5
<1>e. \A m \in Notes, e \in Devices : m # n \/ e # d => handled'[m][e] = handled[m][e]
    BY <1>c DEF TypeOK
<1>f. \A e \in Devices, i \in Ids : e # d \/ i # id[n] => idMap'[e][i] = idMap[e][i]
    BY <1>b, <1>c DEF TypeOK
<1>g. \A m \in Notes, e \in Devices : m \in screen'[e] => m \in screen[e] \/ (m = n /\ e = d)
    BY <1>c DEF TypeOK
<1>h. /\ handled'[n][d] \in {"begun", "refused"}
      /\ d \in Phones => idMap'[d][id[n]] = n
    BY <1>b, <1>c DEF TypeOK
<1>1. Linked' /\ ToldOnly'
  <2>1. UNCHANGED <<call, channel, clients, id, link, lock, owed, sentTo, writer>>
      BY DEF Begin, Put, Enter, agentVars, callVars, linkVars, deviceVars
  <2>2. QED
      BY <2>1, Frames
<1>2. TypeOK'
    BY <1>a, <1>d DEF TypeOK, agentVars, callVars, linkVars
<1>3. Numbered'
  <2>1. UNCHANGED <<counter, made, call, id, asked, todo, sentTo>>
      BY <1>a DEF agentVars, callVars
  <2>2. QED
      BY <1>b, <1>e, <2>1 DEF Numbered
<1>4. InTurn'
  <2>1. UNCHANGED <<asked, call, todo, sentTo>>
      BY <1>a DEF callVars
  <2>2. ASSUME NEW m \in Notes, NEW e \in Devices
        PROVE  /\ e \in todo[m] \/ handled'[m][e] = "no" => m \notin screen'[e]
               /\ e \in todo[m] => handled'[m][e] = "no"
               /\ e \in sentTo[m] => handled'[m][e] \in {"done", "stuck"}
    <3>1. CASE m = n /\ e = d
        BY <1>b, <1>h, <3>1
    <3>2. CASE m # n \/ e # d
        BY <1>e, <1>g, <3>2 DEF InTurn
    <3>3. QED
        BY <3>1, <3>2
  <2>3. QED
      BY <2>1, <2>2 DEF InTurn
<1>5. EntryKept'
  <2>1. UNCHANGED <<id, sentTo, asked, gone>>
      BY <1>a DEF callVars
  <2>2. SUFFICES ASSUME NEW m \in Notes, NEW e \in Devices, OnlyOne(m), Reached(m, e)
                 PROVE  /\ handled'[m][e] = "done" /\ m \in screen'[e] => idMap'[e][id[m]] = m
                        /\ handled'[m][e] = "begun" /\ e \in Phones => idMap'[e][id[m]] = m
      BY <2>1 DEF EntryKept, OnlyOne, Reached
  <2>3. id[m] \in Ids
      BY <2>2 DEF Reached, Numbered, InTurn, Ids
  <2>4. /\ handled[m][e] = "done" /\ m \in screen[e] => idMap[e][id[m]] = m
        /\ handled[m][e] = "begun" /\ e \in Phones => idMap[e][id[m]] = m
      BY <2>2 DEF EntryKept
  <2>5. CASE m = n /\ e = d
      BY <1>h, <2>5
  <2>6. CASE m # n \/ e # d
    <3>1. idMap'[e][id[m]] = idMap[e][id[m]]
        BY <1>f, <2>2, <2>3, <2>6 DEF OnlyOne
    <3>2. QED
        BY <1>e, <1>g, <2>4, <2>6, <3>1
  <2>7. QED
      BY <2>5, <2>6
<1>6. DismissalUnderWay'
  <2>1. UNCHANGED <<lock, owed, id, channel>>
      BY <1>a DEF callVars, linkVars
  <2>2. ASSUME NEW e \in Devices, NEW m \in owed[e] \intersect screen'[e]
        PROVE  m \in screen[e] /\ handled'[m][e] = handled[m][e]
    <3>1. m # n \/ e # d
        BY <1>a, <2>2, OwedAre
    <3>2. m \in Notes
        BY <2>2, OwedAre
    <3>3. QED
        BY <1>e, <1>g, <2>2, <3>1, <3>2
  <2>3. QED
      BY <2>1, <2>2, StaysUnderWay DEF OnlyOne
<1>7. Entered'
  <2>1. SUFFICES ASSUME NEW e \in Devices, NEW i \in Ids, idMap'[e][i] # None
                 PROVE  handled'[idMap'[e][i]][e] \in {"begun", "done", "stuck"}
      BY DEF Entered
  <2>2. CASE idMap'[e][i] = idMap[e][i]
    <3>1. idMap[e][i] \in Notes /\ handled[idMap[e][i]][e] \in {"begun", "done", "stuck"}
        BY <2>1, <2>2 DEF Entered, TypeOK
    <3>2. idMap[e][i] # n \/ e # d
        BY <1>a, <3>1
    <3>3. QED
        BY <1>e, <2>2, <3>1, <3>2
  <2>3. CASE d \in Phones /\ e = d /\ i = id[n]
    <3>1. idMap'[e][i] = n /\ handled'[n][e] = "begun"
        BY <1>c, <1>h, <2>3 DEF TypeOK
    <3>2. QED
        BY <3>1
  <2>4. QED
      BY <1>b, <1>c, <1>f, <2>2, <2>3
<1>8. QED
    BY <1>1, <1>2, <1>3, <1>4, <1>5, <1>6, <1>7

LEMMA CompleteStep ==
  ASSUME IInv, NEW n \in Notes, NEW d \in Devices, Complete(n, d)
  PROVE  IInv'
<1> USE NoneAssumption, BoundsAssumption DEF IInv
<1>a. /\ handled[n][d] = "begun"
      /\ UNCHANGED <<agentVars, callVars, lock, linkVars, owed>>
    BY DEF Complete
<1>b. /\ call[n] # "none" /\ id[n] \in Notes /\ id[n] \in Ids
      /\ d \notin todo[n] /\ d \notin sentTo[n]
    BY <1>a DEF InTurn, Numbered, Ids
<1>c. /\ handled' = [handled EXCEPT ![n][d] = "done"]
      /\ \/ /\ d \in Phones /\ idMap' = idMap
            /\ screen' = [screen EXCEPT ![d] = @ \union {n}]
         \/ /\ d \notin Phones /\ screen' = screen
            /\ idMap' = [idMap EXCEPT ![d][id[n]] = n]
    BY DEF Complete, Put, Enter
<1>d. /\ handled' \in [Notes -> [Devices -> {"no", "begun", "done", "stuck", "refused"}]]
      /\ idMap' \in [Devices -> [Ids -> Notes \union {None}]]
      /\ screen' \in [Devices -> SUBSET Notes]
  <2>1. handled' \in [Notes -> [Devices -> {"no", "begun", "done", "stuck", "refused"}]]
    <3>1. PICK h \in {"begun", "done", "refused"} :
            handled' = [handled EXCEPT ![n] = [handled[n] EXCEPT ![d] = h]]
        BY <1>c
    <3>2. [handled[n] EXCEPT ![d] = h] \in [Devices -> {"no", "begun", "done", "stuck", "refused"}]
        BY DEF TypeOK
    <3>3. QED
        BY <3>1, <3>2 DEF TypeOK
  <2>2. idMap' = idMap \/ idMap' = [idMap EXCEPT ![d] = [idMap[d] EXCEPT ![id[n]] = n]]
      BY <1>c
  <2>3. [idMap[d] EXCEPT ![id[n]] = n] \in [Ids -> Notes \union {None}]
      BY DEF TypeOK
  <2>4. idMap' \in [Devices -> [Ids -> Notes \union {None}]]
      BY <2>2, <2>3 DEF TypeOK
  <2>5. screen' \in [Devices -> SUBSET Notes]
    <3>1. screen' = screen \/ screen' = [screen EXCEPT ![d] = screen[d] \union {n}]
        BY <1>c
    <3>2. screen \in [Devices -> SUBSET Notes] /\ screen[d] \union {n} \in SUBSET Notes
        BY DEF TypeOK
    <3>3. QED
        BY <3>1, <3>2
  <2>6. QED
      BY <2>1, <2>4, <2>5
<1>e. \A m \in Notes, e \in Devices : m # n \/ e # d => handled'[m][e] = handled[m][e]
    BY <1>c DEF TypeOK
<1>f. \A e \in Devices, i \in Ids : e # d \/ i # id[n] => idMap'[e][i] = idMap[e][i]
    BY <1>b, <1>c DEF TypeOK
<1>g. \A m \in Notes, e \in Devices : m \in screen'[e] => m \in screen[e] \/ (m = n /\ e = d)
    BY <1>c DEF TypeOK
<1>h. /\ handled'[n][d] = "done"
      /\ d \in Phones => idMap'[d][id[n]] = idMap[d][id[n]]
      /\ d \notin Phones => idMap'[d][id[n]] = n
    BY <1>b, <1>c DEF TypeOK
<1>1. Linked' /\ ToldOnly'
  <2>1. UNCHANGED <<call, channel, clients, id, link, lock, owed, sentTo, writer>>
      BY DEF Complete, Put, Enter, agentVars, callVars, linkVars, deviceVars
  <2>2. QED
      BY <2>1, Frames
<1>2. TypeOK'
    BY <1>a, <1>d DEF TypeOK, agentVars, callVars, linkVars
<1>3. Numbered'
  <2>1. UNCHANGED <<counter, made, call, id, asked, todo, sentTo>>
      BY <1>a DEF agentVars, callVars
  <2>2. QED
      BY <1>b, <1>e, <2>1 DEF Numbered
<1>4. InTurn'
  <2>1. UNCHANGED <<asked, call, todo, sentTo>>
      BY <1>a DEF callVars
  <2>2. ASSUME NEW m \in Notes, NEW e \in Devices
        PROVE  /\ e \in todo[m] \/ handled'[m][e] = "no" => m \notin screen'[e]
               /\ e \in todo[m] => handled'[m][e] = "no"
               /\ e \in sentTo[m] => handled'[m][e] \in {"done", "stuck"}
    <3>1. CASE m = n /\ e = d
        BY <1>b, <1>h, <3>1
    <3>2. CASE m # n \/ e # d
        BY <1>e, <1>g, <3>2 DEF InTurn
    <3>3. QED
        BY <3>1, <3>2
  <2>3. QED
      BY <2>1, <2>2 DEF InTurn
<1>5. EntryKept'
  <2>1. UNCHANGED <<id, sentTo, asked, gone>>
      BY <1>a DEF callVars
  <2>2. SUFFICES ASSUME NEW m \in Notes, NEW e \in Devices, OnlyOne(m), Reached(m, e)
                 PROVE  /\ handled'[m][e] = "done" /\ m \in screen'[e] => idMap'[e][id[m]] = m
                        /\ handled'[m][e] = "begun" /\ e \in Phones => idMap'[e][id[m]] = m
      BY <2>1 DEF EntryKept, OnlyOne, Reached
  <2>3. id[m] \in Ids
      BY <2>2 DEF Reached, Numbered, InTurn, Ids
  <2>4. /\ handled[m][e] = "done" /\ m \in screen[e] => idMap[e][id[m]] = m
        /\ handled[m][e] = "begun" /\ e \in Phones => idMap[e][id[m]] = m
      BY <2>2 DEF EntryKept
  <2>5. CASE m = n /\ e = d
      BY <1>a, <1>h, <2>4, <2>5
  <2>6. CASE m # n \/ e # d
    <3>1. idMap'[e][id[m]] = idMap[e][id[m]]
        BY <1>f, <2>2, <2>3, <2>6 DEF OnlyOne
    <3>2. QED
        BY <1>e, <1>g, <2>4, <2>6, <3>1
  <2>7. QED
      BY <2>5, <2>6
<1>6. DismissalUnderWay'
  <2>1. UNCHANGED <<lock, owed, id, channel>>
      BY <1>a DEF callVars, linkVars
  <2>2. ASSUME NEW e \in Devices, NEW m \in owed[e] \intersect screen'[e]
        PROVE  m \in screen[e] /\ handled'[m][e] = handled[m][e]
    <3>1. m # n \/ e # d
        BY <1>a, <2>2, OwedAre
    <3>2. m \in Notes
        BY <2>2, OwedAre
    <3>3. QED
        BY <1>e, <1>g, <2>2, <3>1, <3>2
  <2>3. QED
      BY <2>1, <2>2, StaysUnderWay DEF OnlyOne
<1>7. Entered'
  <2>1. SUFFICES ASSUME NEW e \in Devices, NEW i \in Ids, idMap'[e][i] # None
                 PROVE  handled'[idMap'[e][i]][e] \in {"begun", "done", "stuck"}
      BY DEF Entered
  <2>2. CASE idMap'[e][i] = idMap[e][i]
    <3>1. idMap[e][i] \in Notes /\ handled[idMap[e][i]][e] \in {"begun", "done", "stuck"}
        BY <2>1, <2>2 DEF Entered, TypeOK
    <3>2. QED
        BY <1>a, <1>e, <1>h, <2>2, <3>1
  <2>3. CASE e = d /\ i = id[n] /\ idMap'[e][i] = n
      BY <1>c, <1>h, <2>1, <2>3 DEF TypeOK
  <2>4. QED
      BY <1>b, <1>c, <1>f, <2>2, <2>3 DEF TypeOK
<1>8. QED
    BY <1>1, <1>2, <1>3, <1>4, <1>5, <1>6, <1>7

LEMMA ReadControlStep ==
  ASSUME IInv, NEW d \in Devices, ReadControl(d)
  PROVE  IInv'
<1> USE NoneAssumption, BoundsAssumption DEF IInv
<1> DEFINE i == Head(channel[d])
<1>a. /\ link[d] = "up" /\ channel[d] # <<>>
      /\ channel' = [channel EXCEPT ![d] = Tail(@)]
      /\ Close(idMap[d][i], d)
      /\ idMap' = [idMap EXCEPT ![d][i] = None]
      /\ UNCHANGED <<agentVars, callVars, lock, link, clients, writer, owed>>
    BY DEF ReadControl
<1>b. channel[d] \in Seq(Ids)
    BY DEF TypeOK
<1>c. /\ i = channel[d][1] /\ i \in Ids
      /\ Len(channel[d]) \in Nat \ {0} /\ DOMAIN channel[d] = 1..Len(channel[d])
      /\ DOMAIN Tail(channel[d]) = 1..Len(channel[d]) - 1
      /\ \A k \in 1..Len(channel[d]) - 1 : Tail(channel[d])[k] = channel[d][k + 1]
    BY <1>a, <1>b, TailOf
<1> HIDE DEF i
<1>d. i \in Told
    BY <1>c DEF ToldOnly
<1>x. idMap[d][i] \in Notes \union {None}
    BY <1>c DEF TypeOK
<1>y. \/ /\ screen' = [screen EXCEPT ![d] = @ \ {idMap[d][i]}] /\ handled' = handled
      \/ /\ d \notin Phones /\ idMap[d][i] \in Notes /\ screen' = screen
         /\ handled' = [handled EXCEPT ![idMap[d][i]][d] = "stuck"]
    BY <1>a, <1>x DEF Close
<1>z. /\ handled' \in [Notes -> [Devices -> {"no", "begun", "done", "stuck", "refused"}]]
      /\ screen' \in [Devices -> SUBSET Notes]
      /\ \A m \in Notes, e \in Devices :
           \/ handled'[m][e] = handled[m][e]
           \/ /\ handled'[m][e] = "stuck" /\ e = d /\ d \notin Phones
              /\ handled[m][e] \in {"begun", "done", "stuck"}
  <2>1. CASE handled' = handled /\ screen' = [screen EXCEPT ![d] = @ \ {idMap[d][i]}]
      BY <2>1 DEF TypeOK
  <2>2. CASE /\ d \notin Phones /\ idMap[d][i] \in Notes /\ screen' = screen
             /\ handled' = [handled EXCEPT ![idMap[d][i]][d] = "stuck"]
    <3> DEFINE s == idMap[d][i]
    <3>1. s \in Notes /\ handled[s][d] \in {"begun", "done", "stuck"}
        BY <1>c, <2>2, NoneAssumption DEF Entered, Ids
    <3>2. handled' = [handled EXCEPT ![s] = [handled[s] EXCEPT ![d] = "stuck"]]
        BY <2>2
    <3> HIDE DEF s
    <3>3. [handled[s] EXCEPT ![d] = "stuck"]
            \in [Devices -> {"no", "begun", "done", "stuck", "refused"}]
        BY <3>1 DEF TypeOK
    <3>4. handled' \in [Notes -> [Devices -> {"no", "begun", "done", "stuck", "refused"}]]
        BY <3>1, <3>2, <3>3 DEF TypeOK
    <3>5. \A m \in Notes, e \in Devices :
            handled'[m][e] = IF m = s /\ e = d THEN "stuck" ELSE handled[m][e]
        BY <3>1, <3>2 DEF TypeOK
    <3>6. QED
        BY <2>2, <3>1, <3>4, <3>5 DEF TypeOK
  <2>3. QED
      BY <1>y, <2>1, <2>2
<1>e. \A e \in Devices \ {d} : idMap'[e] = idMap[e] /\ screen'[e] = screen[e] /\ channel'[e] = channel[e]
    BY <1>a, <1>y DEF TypeOK
<1>f. /\ \A j \in Ids \ {i} : idMap'[d][j] = idMap[d][j]
      /\ idMap'[d][i] = None
      /\ screen'[d] \subseteq screen[d]
      /\ channel'[d] = Tail(channel[d])
    BY <1>a, <1>c, <1>y DEF TypeOK
<1>g. \A m \in screen'[d] : m = idMap[d][i] /\ m \in Notes => handled'[m][d] = "stuck"
    BY <1>y DEF TypeOK
<1>1. Linked' /\ Numbered'
  <2>1. UNCHANGED <<link, clients, writer, owed, sentTo, counter, made, call, id, asked, todo>>
      BY <1>a DEF agentVars, callVars
  <2>2. Linked'
      BY <2>1, Frames
  <2>3. \A m \in Notes : call[m] = "none" => \A e \in Devices : handled'[m][e] = "no"
      BY <1>z DEF Numbered
  <2>4. QED
      BY <2>1, <2>2, <2>3 DEF Numbered
<1>2. TypeOK'
  <2>1. channel' \in [Devices -> Seq(Ids)] /\ \A e \in Devices : Len(channel'[e]) <= Room
      BY <1>a, <1>b, <1>c, <1>e, <1>f, TailOf DEF TypeOK
  <2>2. idMap' = [idMap EXCEPT ![d] = [idMap[d] EXCEPT ![i] = None]]
      BY <1>a
  <2>3. [idMap[d] EXCEPT ![i] = None] \in [Ids -> Notes \union {None}]
      BY DEF TypeOK
  <2>4. idMap' \in [Devices -> [Ids -> Notes \union {None}]]
      BY <2>2, <2>3 DEF TypeOK
  <2>5. QED
      BY <1>a, <1>z, <2>1, <2>4 DEF TypeOK, agentVars, callVars
<1>3. InTurn'
  <2>1. UNCHANGED <<asked, call, todo, sentTo>>
      BY <1>a DEF callVars
  <2>2. ASSUME NEW m \in Notes, NEW e \in Devices
        PROVE  /\ e \in todo[m] \/ handled'[m][e] = "no" => m \notin screen'[e]
               /\ e \in todo[m] => handled'[m][e] = "no"
               /\ e \in sentTo[m] => handled'[m][e] \in {"done", "stuck"}
    <3>1. m \in screen'[e] => m \in screen[e]
        BY <1>e, <1>f
    <3>2. QED
        BY <1>z, <3>1 DEF InTurn
  <2>3. QED
      BY <2>1, <2>2 DEF InTurn
<1>4. ToldOnly'
  <2>1. Told' = Told
      BY <1>a DEF Told, callVars, agentVars
  <2>2. \A k \in DOMAIN Tail(channel[d]) : Tail(channel[d])[k] \in Told
      BY <1>c DEF ToldOnly
  <2>3. \A k \in DOMAIN channel'[d] : channel'[d][k] \in Told'
      BY <1>f, <2>1, <2>2
  <2>4. \A e \in Devices \ {d} : \A k \in DOMAIN channel'[e] : channel'[e][k] \in Told'
      BY <1>e, <2>1 DEF ToldOnly
  <2>5. QED
      BY <2>1, <2>3, <2>4, <1>a DEF ToldOnly, agentVars, callVars
<1>5. EntryKept'
  <2>1. UNCHANGED <<id, sentTo, asked, gone>>
      BY <1>a DEF callVars
  <2>2. SUFFICES ASSUME NEW m \in Notes, NEW e \in Devices, OnlyOne(m), Reached(m, e)
                 PROVE  /\ handled'[m][e] = "done" /\ m \in screen'[e] => idMap'[e][id[m]] = m
                        /\ handled'[m][e] = "begun" /\ e \in Phones => idMap'[e][id[m]] = m
      BY <2>1 DEF EntryKept, OnlyOne, Reached
  <2>3. id[m] \in Ids
      BY <2>2 DEF Reached, Numbered, InTurn, Ids
  <2>4. /\ handled[m][e] = "done" /\ m \in screen[e] => idMap[e][id[m]] = m
        /\ handled[m][e] = "begun" /\ e \in Phones => idMap[e][id[m]] = m
      BY <2>2 DEF EntryKept
  <2>5. CASE e # d
      BY <1>e, <1>z, <2>4, <2>5
  <2>6. CASE e = d /\ id[m] # i
      BY <1>f, <1>z, <2>3, <2>4, <2>6
  <2>7. CASE e = d /\ id[m] = i
    <3>1. call[m] # "sending"
        BY <1>d, <2>2, <2>7, NotToldEarly
    <3>2. handled[m][e] \in {"done", "stuck"}
        BY <2>2, <3>1 DEF Reached, InTurn
    <3>3. handled'[m][e] # "begun"
        BY <1>z, <3>2
    <3>4. ASSUME handled'[m][e] = "done", m \in screen'[e] PROVE FALSE
      <4>1. handled[m][e] = "done" /\ m \in screen[e]
          BY <1>f, <1>z, <2>7, <3>4
      <4>2. QED
          BY <1>g, <2>4, <2>7, <3>4, <4>1
    <3>5. QED
        BY <3>3, <3>4
  <2>8. QED
      BY <2>5, <2>6, <2>7
<1>6. DismissalUnderWay'
  <2>1. UNCHANGED <<id, lock, owed>>
      BY <1>a DEF callVars
  <2>2. SUFFICES ASSUME NEW e \in Devices, NEW m \in owed'[e] \intersect screen'[e], OnlyOne(m)',
                        handled'[m][e] # "stuck"
                 PROVE  \/ \E k \in DOMAIN channel'[e] : channel'[e][k] = id'[m]
                        \/ /\ lock' # None /\ lock'.id = id'[m]
                           /\ \E k \in DOMAIN lock'.left : lock'.left[k] = e
      BY DEF DismissalUnderWay
  <2>3. /\ m \in owed[e] \intersect screen[e] /\ OnlyOne(m) /\ id'[m] = id[m]
        /\ handled[m][e] # "stuck"
    <3>1. m \in owed[e] /\ OnlyOne(m) /\ id'[m] = id[m]
        BY <2>1, <2>2 DEF OnlyOne
    <3>2. m \in Notes
        BY <3>1, OwedAre
    <3>3. QED
        BY <1>e, <1>f, <1>z, <2>2, <3>1, <3>2
  <2>4. \/ \E k \in DOMAIN channel[e] : channel[e][k] = id[m]
        \/ lock # None /\ lock.id = id[m] /\ \E k \in DOMAIN lock.left : lock.left[k] = e
      BY <2>3 DEF DismissalUnderWay
  <2>5. CASE e # d
      BY <1>e, <2>1, <2>3, <2>4, <2>5
  <2>6. CASE e = d
    <3>1. m \in Notes /\ d \in sentTo[m] /\ handled[m][d] = "done"
        BY <2>3, <2>6, OwedAre DEF IInv
    <3>2. idMap[d][id[m]] = m
        BY <2>3, <2>6, <3>1 DEF EntryKept, Reached
    <3>3. id[m] # i
        BY <1>g, <2>2, <2>6, <3>1, <3>2
    <3>4. ASSUME NEW k \in DOMAIN channel[d], channel[d][k] = id[m]
          PROVE  k - 1 \in DOMAIN channel'[d] /\ channel'[d][k - 1] = id[m]
        BY <1>c, <1>f, <3>3, <3>4
    <3>5. QED
        BY <2>1, <2>3, <2>4, <2>6, <3>4
  <2>7. QED
      BY <2>5, <2>6
<1>7. Entered'
  <2>1. SUFFICES ASSUME NEW e \in Devices, NEW j \in Ids, idMap'[e][j] # None
                 PROVE  handled'[idMap'[e][j]][e] \in {"begun", "done", "stuck"}
      BY DEF Entered
  <2>2. idMap'[e][j] = idMap[e][j]
      BY <1>e, <1>f, <2>1
  <2>3. idMap[e][j] \in Notes /\ handled[idMap[e][j]][e] \in {"begun", "done", "stuck"}
      BY <2>1, <2>2 DEF Entered, TypeOK
  <2>4. QED
      BY <1>z, <2>2, <2>3
<1>8. QED
    BY <1>1, <1>2, <1>3, <1>4, <1>5, <1>6, <1>7

LEMMA RestartStep ==
  ASSUME IInv, Restart
  PROVE  IInv'
<1> USE NoneAssumption, BoundsAssumption DEF IInv
<1>1. TypeOK'
    BY DEF Restart, agentVars, callVars, linkVars, deviceVars, TypeOK, Numbered, InTurn, Linked
<1>2. Numbered'
    BY DEF Restart, agentVars, callVars, linkVars, deviceVars, TypeOK, Numbered
<1>3. InTurn'
    BY DEF Restart, agentVars, callVars, linkVars, deviceVars, TypeOK, InTurn
<1>4. Linked'
    BY DEF Restart, agentVars, callVars, linkVars, deviceVars, TypeOK, Linked
<1>5. ToldOnly'
    BY DEF Restart, agentVars, callVars, linkVars, deviceVars, TypeOK, ToldOnly, Told
<1>6. EntryKept'
    BY DEF Restart, agentVars, callVars, linkVars, deviceVars, TypeOK, EntryKept, Reached, OnlyOne
<1>7. DismissalUnderWay'
    BY DEF Restart, agentVars, callVars, linkVars, deviceVars, TypeOK, DismissalUnderWay, OnlyOne
<1>8. Entered'
    BY DEF Restart, deviceVars, Entered
<1>9. QED
    BY <1>1, <1>2, <1>3, <1>4, <1>5, <1>6, <1>7, <1>8

LEMMA InitIInv == Init => IInv
<1> SUFFICES ASSUME Init PROVE IInv
    OBVIOUS
<1> USE NoneAssumption, BoundsAssumption DEF Init
<1>1. TypeOK
  <2>1. 0 \in 0..MaxFaults /\ 0 \in 0..MaxDismissals /\ 0 \in 0..MaxNotes
      OBVIOUS
  <2>2. \A d \in Devices : channel[d] = <<>> /\ Len(channel[d]) <= Room
      OBVIOUS
  <2>3. channel \in [Devices -> Seq(Ids)]
      OBVIOUS
  <2>4. QED
      BY <2>1, <2>2, <2>3 DEF TypeOK
<1>2. Numbered
    BY DEF Numbered
<1>3. InTurn
    BY DEF InTurn
<1>4. Linked
    BY DEF Linked
<1>5. ToldOnly
    BY DEF ToldOnly
<1>6. EntryKept
    BY DEF EntryKept, Reached
<1>7. DismissalUnderWay
    BY DEF DismissalUnderWay
<1>8. Entered
    BY DEF Entered
<1>9. QED
    BY <1>1, <1>2, <1>3, <1>4, <1>5, <1>6, <1>7, <1>8 DEF IInv

LEMMA StutterStep ==
  ASSUME IInv, UNCHANGED vars
  PROVE  IInv'
<1> USE DEF IInv, vars, agentVars, callVars, linkVars, deviceVars
<1>1. TypeOK'
    BY DEF TypeOK
<1>2. Numbered' /\ InTurn' /\ Linked' /\ ToldOnly' /\ Entered' /\ EntryKept' /\ DismissalUnderWay'
    BY Frames
<1>3. QED
    BY <1>1, <1>2

\* IInv holds in every state, whatever the number of devices, notifications and
\* dismissals and the room in the channels (agent.rs:368, hub.rs:158, dismiss.rs).
THEOREM Inductive == Spec => []IInv
<1>1. IInv /\ [Next]_vars => IInv'
  <2> SUFFICES ASSUME IInv, [Next]_vars PROVE IInv'
      OBVIOUS
  <2>1. CASE \E d \in Devices :
               Connect(d) \/ Lose(d) \/ Leave(d) \/ WriteFails(d) \/ ReadControl(d)
      BY <2>1, ConnectStep, LoseStep, LeaveStep, WriteFailsStep, ReadControlStep
  <2>2. CASE \E n \in Notes : Notify(n) \/ Delivered(n)
      BY <2>2, NotifyStep, DeliveredStep
  <2>3. CASE \E n \in Notes, d \in Devices :
               Ask(n, d) \/ Hear(n, d) \/ Fail(n, d) \/ Begin(n, d) \/ Complete(n, d)
      BY <2>3, AskStep, HearStep, FailStep, BeginStep, CompleteStep
  <2>4. CASE \E i \in Ids : Dismiss(i)
      BY <2>4, DismissStep
  <2>5. CASE Pass \/ Release \/ Restart
      BY <2>5, PassStep, ReleaseStep, RestartStep
  <2>6. CASE UNCHANGED vars
      BY <2>6, StutterStep
  <2>7. QED
      BY <2>1, <2>2, <2>3, <2>4, <2>5, <2>6 DEF Next
<1>2. QED
    BY InitIInv, <1>1, PTL DEF Spec

\* The variables keep their types, and with them the limits: no control channel
\* holds more ids than it has room for (hub.rs:158), however many are dismissed.
THEOREM TypeCorrect == Spec => []TypeOK
<1>1. IInv => TypeOK
    BY DEF IInv
<1>2. QED
    BY Inductive, <1>1, PTL

\* What is on the screen of a device that confirmed it has its entry there, so that
\* a dismissal finds it, whatever was lost in between (dismiss.rs, NotificationHelper).
THEOREM ShownDismissable == Spec => []ShownIsDismissable
<1>1. IInv => ShownIsDismissable
  <2> SUFFICES ASSUME IInv, NEW n \in Notes, NEW d \in Devices,
                      d \in sentTo[n], OnlyOne(n), n \in screen[d],
                      handled[n][d] # "stuck"
               PROVE  idMap[d][id[n]] = n
      BY DEF ShownIsDismissable
  <2>1. handled[n][d] = "done"
      BY DEF IInv, InTurn
  <2>2. QED
      BY <2>1 DEF IInv, EntryKept, Reached
<1>2. QED
    BY Inductive, <1>1, PTL

\* A dismissal is never lost on the way to a device that confirmed the
\* notification and stays connected, with any number of devices and any room in
\* their channels (hub.rs:158).
THEOREM DismissalsArrive == Spec => []DismissalUnderWay
<1>1. IInv => DismissalUnderWay
    BY DEF IInv
<1>2. QED
    BY Inductive, <1>1, PTL

\* The ids of this run of the agent are the numbers up to its counter.
Live(n) == call[n] \in {"sending", "delivered"}

Counted ==
  /\ \A n \in Notes : Live(n) => id[n] \in 1..counter
  /\ \A n, m \in Notes : Live(n) /\ Live(m) /\ id[n] = id[m] => n = m

\* A tool that dismisses by id means one notification of this run: "Generate a unique
\* notification ID" (hub.rs:95) is true until the agent starts again.
THEOREM IdsDiffer == Spec => []IdsOfRunDiffer
<1>1. Init => Counted
    BY DEF Init, Counted, Live
<1>2. IInv /\ Counted /\ [Next]_vars => Counted'
  <2> SUFFICES ASSUME IInv, Counted, [Next]_vars PROVE Counted'
      OBVIOUS
  <2>1. /\ counter \in Nat /\ id \in [Notes -> Ids \union {None}]
        /\ call \in [Notes -> {"none", "sending", "delivered", "lost", "past"}]
      BY DEF IInv, TypeOK
  <2>2. ASSUME NEW n \in Notes, Notify(n) PROVE Counted'
    <3>1. /\ counter' = counter + 1 /\ id' = [id EXCEPT ![n] = counter + 1]
          /\ call' = [call EXCEPT ![n] = "sending"]
        BY <2>2 DEF Notify
    <3>2. id'[n] = counter' /\ \A m \in Notes \ {n} : id'[m] = id[m] /\ call'[m] = call[m]
        BY <2>1, <3>1
    <3>3. \A m \in Notes \ {n} : Live(m)' => Live(m) /\ id'[m] \in 1..counter
        BY <3>2 DEF Counted, Live
    <3>4. QED
        BY <2>1, <3>1, <3>2, <3>3 DEF Counted
  <2>3. ASSUME NEW n \in Notes, Delivered(n) PROVE Counted'
    <3>1. /\ call[n] = "sending" /\ call' = [call EXCEPT ![n] = "delivered"]
          /\ UNCHANGED <<counter, id>>
        BY <2>3 DEF Delivered, agentVars
    <3>2. \A m \in Notes : Live(m)' => Live(m)
        BY <2>1, <3>1 DEF Live
    <3>3. QED
        BY <3>1, <3>2 DEF Counted
  <2>4. CASE Restart
    <3>1. \A m \in Notes : ~Live(m)'
        BY <2>1, <2>4 DEF Restart, Live
    <3>2. QED
        BY <3>1 DEF Counted
  <2>5. CASE UNCHANGED <<call, id, counter>>
      BY <2>5 DEF Counted, Live
  <2>6. QED
      BY <2>2, <2>3, <2>4, <2>5
      DEF Next, vars, agentVars, callVars, Connect, Lose, Leave, WriteFails, ReadControl,
          Ask, Hear, Heard, Fail, Begin, Complete, Dismiss, Pass, Release
<1>3. Counted => IdsOfRunDiffer
    BY DEF Counted, Live, IdsOfRunDiffer
<1>4. QED
    BY <1>1, <1>2, <1>3, Inductive, PTL DEF Spec
=============================================================================
