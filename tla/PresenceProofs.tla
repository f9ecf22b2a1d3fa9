--------------------------- MODULE PresenceProofs ---------------------------
(***************************************************************************)
(* Router sorts the clients in one way only, whatever order the hash map   *)
(* yields them in, and Presence keeps the table it sorts: for any number   *)
(* of devices, reports under way and instants.                             *)
(***************************************************************************)
EXTENDS Presence, FiniteSetTheorems, TLAPS

-----------------------------------------------------------------------------
(* The order.                                                               *)

\* Client descriptions; Hub.clients holds at most one per endpoint id.
IsInfo(c) == c.id \in Nat /\ c.focus \in FocusStates /\ c.last \in Nat

IsTable(infos) ==
  /\ IsFiniteSet(infos)
  /\ \A c \in infos : IsInfo(c)
  /\ \A a, b \in infos : a.id = b.id => a = b

\* focus_rank gives each focus state a number of its own.
LEMMA FocusRankSeparates ==
  ASSUME NEW f \in FocusStates, NEW g \in FocusStates
  PROVE  /\ focus_rank(f) \in Nat
         /\ focus_rank(f) = focus_rank(g) <=> f = g
BY DEF focus_rank, FocusStates

\* No client comes before itself.
THEOREM BeforeIrreflexive ==
  ASSUME NEW a, IsInfo(a)
  PROVE  ~Before(a, a)
BY FocusRankSeparates DEF Before, IsInfo

\* The order is consistent across any three clients, as sort_by requires.
THEOREM BeforeTransitive ==
  ASSUME NEW a, NEW b, NEW c, IsInfo(a), IsInfo(b), IsInfo(c),
         Before(a, b), Before(b, c)
  PROVE  Before(a, c)
<1>1. /\ focus_rank(a.focus) \in Nat
      /\ focus_rank(b.focus) \in Nat
      /\ focus_rank(c.focus) \in Nat
    BY FocusRankSeparates DEF IsInfo
<1>2. CASE a.focus = b.focus /\ b.focus = c.focus
    BY <1>1, <1>2 DEF Before, IsInfo
<1>3. CASE a.focus # b.focus \/ b.focus # c.focus
    BY <1>1, <1>3 DEF Before, IsInfo
<1>4. QED
    BY <1>2, <1>3

\* "Total, deterministic order" (router.rs:51): of two clients with different
\* endpoint ids one always comes first.
THEOREM BeforeTotal ==
  ASSUME NEW a, NEW b, IsInfo(a), IsInfo(b), a.id # b.id
  PROVE  Before(a, b) \/ Before(b, a)
<1>1. CASE a.focus = b.focus
    BY <1>1 DEF Before, IsInfo
<1>2. CASE a.focus # b.focus
  <2>1. focus_rank(a.focus) # focus_rank(b.focus)
      BY <1>2, FocusRankSeparates DEF IsInfo
  <2>2. QED
      BY <2>1, FocusRankSeparates DEF Before, IsInfo
<1>3. QED
    BY <1>1, <1>2

\* An injection of an interval into a set of its size meets every element.
LEMMA NumberingCovers ==
  ASSUME NEW S, IsFiniteSet(S), NEW s \in [1..Cardinality(S) -> S],
         \A i, j \in 1..Cardinality(S) : i # j => s[i] # s[j]
  PROVE  \A c \in S : \E i \in 1..Cardinality(S) : s[i] = c
<1> DEFINE D == 1..Cardinality(S)
<1>1. Cardinality(S) \in Nat
    BY FS_CardinalityType
<1>2. s \in Injection(D, S)
    BY Zenon DEF Injection, IsInjective
<1>3. Cardinality(D) = Cardinality(S)
    BY <1>1, FS_Interval
<1>4. s \in Surjection(D, S)
    BY <1>2, <1>3, FS_Injection
<1>5. QED
    BY <1>4 DEF Surjection

\* Every table can be sorted: each client takes the place that the number of
\* those before it leaves.
LEMMA Sortable ==
  ASSUME NEW S, IsTable(S)
  PROVE  \E s \in SetToSeqs(S) : \A i, j \in DOMAIN s : i < j => ~Before(s[j], s[i])
<1> DEFINE n == Cardinality(S)
           Earlier(c) == {e \in S : Before(e, c)}
           place == [c \in S |-> Cardinality(Earlier(c)) + 1]
<1>1. IsFiniteSet(S) /\ n \in Nat /\ \A c \in S : IsInfo(c)
    BY FS_CardinalityType DEF IsTable
<1>2. ASSUME NEW c \in S
      PROVE  IsFiniteSet(Earlier(c)) /\ Cardinality(Earlier(c)) \in Nat
    BY <1>1, FS_Subset, FS_CardinalityType
<1>3. ASSUME NEW a \in S, NEW b \in S, Before(a, b)
      PROVE  Cardinality(Earlier(a)) < Cardinality(Earlier(b))
  <2>1. a \in Earlier(b)
      BY <1>3
  <2>2. a \notin Earlier(a)
      BY <1>1, BeforeIrreflexive
  <2>3. Earlier(a) \subseteq Earlier(b)
      BY <1>1, <1>3, BeforeTransitive
  <2>4. /\ Cardinality(Earlier(a)) <= Cardinality(Earlier(b))
        /\ Cardinality(Earlier(b)) = Cardinality(Earlier(a)) => Earlier(b) = Earlier(a)
    <3> DEFINE A == Earlier(a)
               B == Earlier(b)
    <3>1. IsFiniteSet(B) /\ A \in SUBSET B
        BY <1>2, <2>3
    <3> HIDE DEF A, B
    <3>2. Cardinality(A) <= Cardinality(B) /\ (Cardinality(B) = Cardinality(A) => B = A)
        BY <3>1, FS_Subset
    <3>3. QED
        BY <3>2 DEF A, B
  <2>5. Cardinality(Earlier(a)) # Cardinality(Earlier(b))
      BY <2>1, <2>2, <2>4
  <2>6. QED
      BY <1>2, <2>4, <2>5
<1>4. ASSUME NEW c \in S PROVE place[c] \in 1..n
  <2> DEFINE A == Earlier(c)
             B == S \ {c}
  <2>1. A \in SUBSET B
      BY <1>1, BeforeIrreflexive
  <2>2. IsFiniteSet(B) /\ Cardinality(B) = n - 1
      BY <1>1, FS_RemoveElement
  <2>3. Cardinality(A) \in Nat /\ place[c] = Cardinality(A) + 1
      BY <1>2
  <2> HIDE DEF A, B, place
  <2>4. Cardinality(A) <= n - 1
      BY <2>1, <2>2, FS_Subset
  <2>5. QED
      BY <1>1, <2>3, <2>4
<1>5. ASSUME NEW a \in S, NEW b \in S, Before(a, b) PROVE place[a] < place[b]
  <2>1. /\ place[a] = Cardinality(Earlier(a)) + 1
        /\ place[b] = Cardinality(Earlier(b)) + 1
      OBVIOUS
  <2> HIDE DEF Earlier, place
  <2>2. QED
      BY <1>2, <1>3, <1>5, <2>1
<1>6. place \in [S -> 1..n]
    BY <1>4
<1> HIDE DEF Earlier, place
<1>7. ASSUME NEW a \in S, NEW b \in S, a # b PROVE place[a] # place[b]
  <2>1. Before(a, b) \/ Before(b, a)
      BY <1>1, <1>7, BeforeTotal DEF IsTable
  <2>2. place[a] \in Nat /\ place[b] \in Nat
      BY <1>4
  <2>3. QED
      BY <1>5, <2>1, <2>2
<1>8. \A i \in 1..n : \E c \in S : place[c] = i
  <2>1. IsFiniteSet(1..n) /\ Cardinality(1..n) = n
      BY <1>1, FS_Interval
  <2>2. place \in Injection(S, 1..n)
      BY <1>6, <1>7, Zenon DEF Injection, IsInjective
  <2>3. place \in Surjection(S, 1..n)
      BY <2>1, <2>2, FS_Injection
  <2>4. QED
      BY <2>3 DEF Surjection
<1> DEFINE s == [i \in 1..n |-> CHOOSE c \in S : place[c] = i]
<1>9. \A i \in 1..n : s[i] \in S /\ place[s[i]] = i
    BY <1>8
<1>10. s \in [1..n -> S] /\ DOMAIN s = 1..n
    BY <1>9
<1> HIDE DEF s
<1>11. s \in SetToSeqs(S)
    BY <1>9, <1>10 DEF SetToSeqs
<1>12. ASSUME NEW i \in DOMAIN s, NEW j \in DOMAIN s, i < j PROVE ~Before(s[j], s[i])
  <2>1. s[i] \in S /\ s[j] \in S /\ place[s[i]] = i /\ place[s[j]] = j
      BY <1>9, <1>10, <1>12
  <2>2. QED
      BY <1>5, <1>10, <1>12, <2>1
<1>13. QED
    BY <1>11, <1>12

\* rank lists the clients with the capability, each once, and each before all that
\* come after it in the order (router.rs:49).
THEOREM RankSorts ==
  ASSUME NEW infos, IsTable(infos), NEW cap
  PROVE  LET capable == fan_out(infos, cap)
             n == Cardinality(capable)
             list == rank(infos, cap)
         IN  /\ n \in Nat
             /\ list \in Seq(capable) /\ DOMAIN list = 1..n /\ Len(list) = n
             /\ \A c \in capable : \E i \in 1..n : list[i] = c
             /\ \A i, j \in 1..n : i < j => Before(list[i], list[j])
<1> DEFINE C == fan_out(infos, cap)
           n == Cardinality(C)
           list == rank(infos, cap)
<1>1. C \subseteq infos
    BY DEF fan_out
<1> HIDE DEF C
<1>2. IsTable(C)
    BY <1>1, FS_Subset DEF IsTable
<1>3. list \in SetToSeqs(C) /\ \A i, j \in DOMAIN list : i < j => ~Before(list[j], list[i])
  <2>1. \E s \in SetToSeqs(C) : \A i, j \in DOMAIN s : i < j => ~Before(s[j], s[i])
      BY <1>2, Sortable
  <2>2. list = CHOOSE s \in SetToSeqs(C) : \A i, j \in DOMAIN s : i < j => ~Before(s[j], s[i])
      BY Zenon DEF rank, C
  <2> HIDE DEF list
  <2>3. QED
      BY <2>1, <2>2
<1> HIDE DEF list
<1>4. n \in Nat
    BY <1>2, FS_CardinalityType DEF IsTable
<1>5. list \in [1..n -> C] /\ \A i, j \in 1..n : i # j => list[i] # list[j]
    BY <1>3 DEF SetToSeqs
<1>6. \A c \in C : \E i \in 1..n : list[i] = c
    BY <1>2, <1>5, NumberingCovers DEF IsTable
<1>7. ASSUME NEW i \in 1..n, NEW j \in 1..n, i < j PROVE Before(list[i], list[j])
  <2>1. list[i] \in C /\ list[j] \in C /\ list[i] # list[j] /\ ~Before(list[j], list[i])
      BY <1>3, <1>4, <1>5, <1>7
  <2>2. IsInfo(list[i]) /\ IsInfo(list[j]) /\ list[i].id # list[j].id
      BY <1>2, <2>1 DEF IsTable
  <2>3. QED
      BY <2>1, <2>2, BeforeTotal
<1>8. list \in Seq(C) /\ DOMAIN list = 1..n /\ Len(list) = n
    BY <1>4, <1>5
<1>9. QED
    BY <1>4, <1>6, <1>7, <1>8 DEF C, list
-----------------------------------------------------------------------------
(* The table.                                                               *)

\* What an entry announces is what the device offers, and nothing is under way
\* from a device that is not connected.
InvAux ==
  /\ IsFiniteSet(clients)
  /\ \A c \in clients : c.caps = Caps[c.id]
  /\ \A d \in Devices \ Connected : reports[d] = <<>>

IInv == TypeOK /\ InvAux /\ LastWordCounts

\* A device has one entry, and it is the one that is looked up.
LEMMA EntryOf ==
  ASSUME NEW S, NEW c \in S, \A a, b \in S : a.id = b.id => a = b
  PROVE  (CHOOSE x \in S : x.id = c.id) = c
  OBVIOUS

LEMMA EntryIs ==
  ASSUME TypeOK, NEW d \in Connected
  PROVE  Entry(d) \in clients /\ Entry(d).id = d /\ \A c \in clients : c.id = d => c = Entry(d)
<1>1. PICK c \in clients : c.id = d
    BY DEF Connected
<1>2. Entry(d) = c
    BY <1>1, EntryOf DEF Entry, TypeOK
<1>3. QED
    BY <1>1, <1>2 DEF TypeOK

\* The last of what a device's entry says and what is under way.
LEMMA LastOf ==
  ASSUME NEW f \in FocusStates, NEW s \in Seq(FocusStates)
  PROVE  /\ s = <<>> => Last(<<f>> \o s) = f
         /\ s # <<>> => Last(<<f>> \o s) = s[Len(s)]
         /\ Len(s) \in Nat
         /\ s # <<>> => Len(s) > 0 /\ s[Len(s)] \in FocusStates
<1>1. /\ Len(<<f>> \o s) = 1 + Len(s) /\ Len(s) \in Nat
      /\ \A i \in 1..Len(s) : (<<f>> \o s)[1 + i] = s[i]
      /\ (<<f>> \o s)[1] = f
    OBVIOUS
<1>2. s # <<>> => Len(s) > 0 /\ s[Len(s)] \in FocusStates
    OBVIOUS
<1>3. CASE s = <<>>
    BY <1>1, <1>3 DEF Last
<1>4. CASE s # <<>>
    BY <1>1, <1>2, <1>4 DEF Last
<1>5. QED
    BY <1>1, <1>2, <1>3, <1>4

LEMMA LastAppended ==
  ASSUME NEW f \in FocusStates, NEW s \in Seq(FocusStates), NEW e \in FocusStates
  PROVE  /\ Append(s, e) \in Seq(FocusStates) /\ Len(Append(s, e)) = Len(s) + 1
         /\ Last(<<f>> \o Append(s, e)) = e
<1>1. /\ Append(s, e) \in Seq(FocusStates) /\ Len(Append(s, e)) = Len(s) + 1
      /\ Append(s, e)[Len(s) + 1] = e /\ Append(s, e) # <<>>
    OBVIOUS
<1>2. QED
    BY <1>1, LastOf

LEMMA LastTaken ==
  ASSUME NEW f \in FocusStates, NEW s \in Seq(FocusStates), s # <<>>
  PROVE  /\ Head(s) \in FocusStates /\ Tail(s) \in Seq(FocusStates)
         /\ Len(Tail(s)) = Len(s) - 1 /\ Len(s) \in Nat /\ Tail(s) # s
         /\ Last(<<Head(s)>> \o Tail(s)) = Last(<<f>> \o s)
<1>1. /\ Head(s) \in FocusStates /\ Tail(s) \in Seq(FocusStates) /\ Head(s) = s[1]
      /\ Len(Tail(s)) = Len(s) - 1 /\ Len(s) \in Nat \ {0}
      /\ \A i \in 1..(Len(s) - 1) : Tail(s)[i] = s[i + 1]
    OBVIOUS
<1>2. Tail(s) = <<>> => Len(s) = 1
    BY <1>1
<1>3. Tail(s) # <<>> => Len(s) - 1 \in 1..(Len(s) - 1)
    BY <1>1
<1>4. Last(<<Head(s)>> \o Tail(s)) = s[Len(s)]
  <2>1. CASE Tail(s) = <<>>
      BY <1>1, <1>2, <2>1, LastOf
  <2>2. CASE Tail(s) # <<>>
    <3> DEFINE t == Tail(s)
               h == Head(s)
    <3>0. t \in Seq(FocusStates) /\ h \in FocusStates /\ t # <<>> /\ Len(t) = Len(s) - 1
        BY <1>1, <2>2
    <3> HIDE DEF t, h
    <3>1. Last(<<h>> \o t) = t[Len(s) - 1]
        BY <3>0, LastOf, Zenon
    <3> USE DEF t, h
    <3>2. QED
        BY <1>1, <1>3, <2>2, <3>1
  <2>3. QED
      BY <2>1, <2>2
<1>5. Last(<<f>> \o s) = s[Len(s)]
    BY LastOf, Zenon
<1>6. Len(s) \in Nat /\ Tail(s) # s
  <2> DEFINE t == Tail(s)
  <2>1. Len(t) = Len(s) - 1 /\ Len(s) \in Nat
      BY <1>1
  <2> HIDE DEF t
  <2>2. t # s
      BY <2>1
  <2>3. QED
      BY <2>1, <2>2 DEF t
<1>7. QED
    BY <1>1, <1>4, <1>5, <1>6, Zenon

\* What Connected and Entry are after a change of the table.
LEMMA Joined ==
  ASSUME TypeOK, NEW d \in Devices \ Connected, NEW e, e.id = d,
         clients' = clients \union {e}
  PROVE  /\ Connected' = Connected \union {d} /\ Entry(d)' = e
         /\ \A b \in Connected : Entry(b)' = Entry(b)
         /\ \A a, b \in clients' : a.id = b.id => a = b
<1>1. \A a, b \in clients' : a.id = b.id => a = b
    BY DEF TypeOK, Connected
<1>2. Connected' = Connected \union {d}
    BY DEF Connected
<1>3. Entry(d)' = e
    BY <1>1, EntryOf DEF Entry
<1>4. ASSUME NEW b \in Connected PROVE Entry(b)' = Entry(b)
  <2>1. Entry(b) \in clients /\ Entry(b).id = b
      BY EntryIs
  <2>2. Entry(b) \in clients'
      BY <2>1
  <2>3. (CHOOSE x \in clients' : x.id = Entry(b).id) = Entry(b)
      BY <1>1, <2>2, EntryOf
  <2>4. QED
      BY <2>1, <2>3 DEF Entry
<1>5. QED
    BY <1>1, <1>2, <1>3, <1>4

LEMMA Left ==
  ASSUME TypeOK, NEW d \in Connected, clients' = clients \ {Entry(d)}
  PROVE  /\ Connected' = Connected \ {d}
         /\ \A b \in Connected \ {d} : Entry(b)' = Entry(b)
         /\ \A a, b \in clients' : a.id = b.id => a = b
<1>1. \A a, b \in clients' : a.id = b.id => a = b
    BY DEF TypeOK
<1>2. Entry(d) \in clients /\ Entry(d).id = d /\ \A c \in clients : c.id = d => c = Entry(d)
    BY EntryIs
<1>3. Connected' = Connected \ {d}
    BY <1>2 DEF Connected
<1>4. ASSUME NEW b \in Connected \ {d} PROVE Entry(b)' = Entry(b)
  <2>1. Entry(b) \in clients /\ Entry(b).id = b
      BY EntryIs
  <2>2. Entry(b) \in clients'
      BY <1>2, <2>1
  <2>3. (CHOOSE x \in clients' : x.id = Entry(b).id) = Entry(b)
      BY <1>1, <2>2, EntryOf
  <2>4. QED
      BY <2>1, <2>3 DEF Entry
<1>5. QED
    BY <1>1, <1>3, <1>4

LEMMA Replaced ==
  ASSUME TypeOK, NEW d \in Connected, NEW e, e.id = d, clients' = Replace(d, e)
  PROVE  /\ Connected' = Connected /\ Entry(d)' = e /\ e \in clients'
         /\ \A b \in Connected \ {d} : Entry(b)' = Entry(b)
         /\ \A a, b \in clients' : a.id = b.id => a = b
<1>1. Entry(d) \in clients /\ Entry(d).id = d /\ \A c \in clients : c.id = d => c = Entry(d)
    BY EntryIs
<1>2. clients' = (clients \ {Entry(d)}) \union {e}
    BY DEF Replace
<1>3. \A a, b \in clients' : a.id = b.id => a = b
    BY <1>1, <1>2 DEF TypeOK
<1>4. Connected' = Connected
    BY <1>1, <1>2 DEF Connected
<1>5. Entry(d)' = e
    BY <1>2, <1>3, EntryOf DEF Entry
<1>6. ASSUME NEW b \in Connected \ {d} PROVE Entry(b)' = Entry(b)
  <2>1. Entry(b) \in clients /\ Entry(b).id = b
      BY EntryIs
  <2>2. Entry(b) \in clients'
      BY <1>1, <1>2, <2>1
  <2>3. (CHOOSE x \in clients' : x.id = Entry(b).id) = Entry(b)
      BY <1>3, <2>2, EntryOf
  <2>4. QED
      BY <2>1, <2>3 DEF Entry
<1>7. QED
    BY <1>2, <1>3, <1>4, <1>5, <1>6

-----------------------------------------------------------------------------
(* The steps.                                                               *)

LEMMA InitIInv == Init => IInv
<1> SUFFICES ASSUME Init PROVE IInv
    OBVIOUS
<1> USE DevicesAreNumbers, BoundsAreNumbers DEF Init
<1>1. TypeOK
    BY DEF TypeOK, FocusStates
<1>2. Connected = {}
    BY DEF Connected
<1>3. QED
    BY <1>1, <1>2, FS_EmptySet DEF IInv, InvAux, LastWordCounts

LEMMA ConnectStep ==
  ASSUME IInv, NEW d \in Devices, Connect(d)
  PROVE  IInv'
<1> DEFINE e == [id |-> d, focus |-> "active", caps |-> Caps[d], last |-> now]
           word == IF d \in Phones THEN Shown(watch[d]) ELSE "active"
<1>0. TypeOK /\ IsFiniteSet(clients) /\ LastWordCounts
    BY DEF IInv, InvAux
<1>1. /\ d \in Devices \ Connected /\ clients' = clients \union {e} /\ e.id = d
      /\ told' = [told EXCEPT ![d] = word]
      /\ reports' = [reports EXCEPT ![d] = <<told'[d]>>]
      /\ unseen' = [unseen EXCEPT ![d] = d \in Phones /\ watch[d] # "new"]
      /\ UNCHANGED <<now, screen, watch>>
    BY DEF Connect
<1>2. word \in FocusStates
    BY <1>0 DEF TypeOK, Shown, FocusStates
<1>3. e \in [id : Devices, focus : FocusStates, caps : SUBSET Capabilities, last : 0..now]
    BY <1>0 DEF TypeOK, FocusStates, Capabilities
<1>4. e.caps = Caps[d] /\ e.focus = "active"
    OBVIOUS
<1> HIDE DEF e, word
<1>5. /\ Connected' = Connected \union {d} /\ Entry(d)' = e
      /\ \A b \in Connected : Entry(b)' = Entry(b)
      /\ \A a, b \in clients' : a.id = b.id => a = b
    BY <1>0, <1>1, Joined
<1>6. told'[d] = word /\ reports'[d] = <<word>> /\ told' \in [Devices -> FocusStates]
    BY <1>0, <1>1, <1>2 DEF TypeOK
<1>7. /\ reports' \in [Devices -> Seq(FocusStates)]
      /\ \A b \in Devices : Len(reports'[b]) <= MaxQueue
  <2>1. <<word>> \in Seq(FocusStates) /\ Len(<<word>>) = 1
      BY <1>2
  <2>2. QED
      BY <1>0, <1>1, <1>6, <2>1, BoundsAreNumbers DEF TypeOK
<1>8. \A b \in Devices \ {d} : reports'[b] = reports[b] /\ told'[b] = told[b]
    BY <1>0, <1>1 DEF TypeOK
<1>9. TypeOK'
    BY <1>0, <1>1, <1>3, <1>5, <1>6, <1>7 DEF TypeOK, Capabilities
<1>10. InvAux'
  <2>1. IsFiniteSet(clients')
      BY <1>0, <1>1, FS_AddElement
  <2>2. QED
      BY <1>1, <1>4, <1>5, <1>8, <2>1 DEF IInv, InvAux
<1>11. LastWordCounts'
  <2>1. Last(<<"active">> \o reports'[d]) = told'[d]
    <3>1. /\ <<word>> \in Seq(FocusStates) /\ <<word>> # <<>> /\ Len(<<word>>) = 1
          /\ <<word>>[1] = word /\ "active" \in FocusStates
        BY <1>2 DEF FocusStates
    <3>2. Last(<<"active">> \o <<word>>) = word
      <4> DEFINE s == <<word>>
      <4> HIDE DEF s
      <4>1. Last(<<"active">> \o s) = s[Len(s)]
          BY <3>1, LastOf, Zenon DEF s
      <4> USE DEF s
      <4>2. QED
          BY <3>1, <4>1
    <3>3. QED
        BY <1>6, <3>2
  <2>2. ASSUME NEW b \in Connected PROVE Last(<<Entry(b)'.focus>> \o reports'[b]) = told'[b]
    <3>1. b \in Devices \ {d}
        BY <1>0, <1>1 DEF Connected, TypeOK
    <3>2. Last(<<Entry(b).focus>> \o reports[b]) = told[b]
        BY <1>0 DEF LastWordCounts
    <3>3. QED
        BY <1>5, <1>8, <3>1, <3>2
  <2>3. QED
      BY <1>4, <1>5, <2>1, <2>2 DEF LastWordCounts
<1>12. QED
    BY <1>9, <1>10, <1>11 DEF IInv

LEMMA DisconnectStep ==
  ASSUME IInv, NEW d \in Devices, Disconnect(d)
  PROVE  IInv'
<1>0. TypeOK /\ IsFiniteSet(clients) /\ LastWordCounts
    BY DEF IInv, InvAux
<1>1. /\ d \in Connected /\ clients' = clients \ {Entry(d)}
      /\ reports' = [reports EXCEPT ![d] = <<>>]
      /\ UNCHANGED <<now, screen, phoneVars, told>>
    BY DEF Disconnect
<1>2. /\ Connected' = Connected \ {d}
      /\ \A b \in Connected \ {d} : Entry(b)' = Entry(b)
      /\ \A a, b \in clients' : a.id = b.id => a = b
    BY <1>0, <1>1, Left
<1>3. reports'[d] = <<>> /\ \A b \in Devices \ {d} : reports'[b] = reports[b]
    BY <1>0, <1>1 DEF TypeOK
<1>4. TypeOK'
  <2>1. reports' \in [Devices -> Seq(FocusStates)]
      BY <1>0, <1>1 DEF TypeOK
  <2>2. Len(<<>>) <= MaxQueue
      BY BoundsAreNumbers
  <2>3. QED
      BY <1>0, <1>1, <1>2, <1>3, <2>1, <2>2 DEF TypeOK, Capabilities, phoneVars
<1>5. InvAux'
  <2>1. IsFiniteSet(clients')
      BY <1>0, <1>1, FS_RemoveElement
  <2>2. QED
      BY <1>1, <1>2, <1>3, <2>1 DEF IInv, InvAux
<1>6. LastWordCounts'
  <2>1. ASSUME NEW b \in Connected \ {d} PROVE b \in Devices \ {d}
      BY <1>0 DEF Connected, TypeOK
  <2>2. QED
      BY <1>0, <1>1, <1>2, <1>3, <2>1 DEF LastWordCounts
<1>7. QED
    BY <1>4, <1>5, <1>6 DEF IInv

LEMMA ScreenStep ==
  ASSUME IInv, NEW d \in Devices, ScreenTurns(d) \/ Reconnect(d)
  PROVE  IInv'
<1>1. UNCHANGED <<now, clients, told, reports>>
    BY DEF ScreenTurns, Reconnect
<1>2. TypeOK'
  <2>1. CASE ScreenTurns(d)
    <3>1. PICK s \in FocusStates : screen' = [screen EXCEPT ![d] = s]
        BY <2>1 DEF ScreenTurns, FocusStates
    <3>2. screen' \in [Devices -> FocusStates] /\ screen'[d] \in FocusStates
        BY <3>1 DEF IInv, TypeOK
    <3>3. watch' \in [Devices -> FocusStates \union {"new"}]
        BY <2>1, <3>2 DEF IInv, TypeOK, ScreenTurns
    <3>4. unseen' \in [Devices -> BOOLEAN]
        BY <2>1, Zenon DEF IInv, TypeOK, ScreenTurns
    <3>5. QED
        BY <1>1, <3>2, <3>3, <3>4 DEF IInv, TypeOK, Capabilities
  <2>2. CASE Reconnect(d)
      BY <1>1, <2>2 DEF IInv, TypeOK, Reconnect, Capabilities
  <2>3. QED
      BY <2>1, <2>2
<1>3. QED
    BY <1>1, <1>2 DEF IInv, InvAux, LastWordCounts, Connected, Entry

LEMMA ReportStep ==
  ASSUME IInv, NEW d \in Devices, Report(d)
  PROVE  IInv'
<1>0. TypeOK /\ LastWordCounts
    BY DEF IInv
<1>1. /\ d \in Connected /\ Len(reports[d]) < MaxQueue
      /\ told' = [told EXCEPT ![d] = Looked(d)]
      /\ unseen' = [unseen EXCEPT ![d] = FALSE]
      /\ reports' = [reports EXCEPT ![d] = Append(@, Looked(d))]
      /\ UNCHANGED <<now, clients, screen, watch>>
    BY DEF Report, HasNews
<1>2. Looked(d) \in FocusStates
    BY <1>0 DEF TypeOK, Looked, Shown, FocusStates
<1> DEFINE s == reports[d]
           l == Looked(d)
           t == Append(s, l)
           f == Entry(d).focus
<1>3. s \in Seq(FocusStates) /\ l \in FocusStates /\ f \in FocusStates /\ Len(s) < MaxQueue
    BY <1>0, <1>1, <1>2, EntryIs DEF TypeOK
<1>4. reports' = [reports EXCEPT ![d] = t] /\ told' = [told EXCEPT ![d] = l]
    BY <1>1
<1> HIDE DEF s, l, f
<1>5. /\ t \in Seq(FocusStates) /\ Len(t) = Len(s) + 1 /\ Len(s) \in Nat
      /\ Last(<<f>> \o t) = l
    BY <1>3, LastAppended
<1> HIDE DEF t
<1>6. /\ reports'[d] = t /\ told'[d] = l
      /\ \A b \in Devices \ {d} : reports'[b] = reports[b] /\ told'[b] = told[b]
    BY <1>0, <1>4 DEF TypeOK
<1>7. TypeOK'
  <2>1. reports' \in [Devices -> Seq(FocusStates)] /\ told' \in [Devices -> FocusStates]
      BY <1>0, <1>3, <1>4, <1>5 DEF TypeOK
  <2>2. Len(t) <= MaxQueue
      BY <1>3, <1>5, BoundsAreNumbers
  <2>3. QED
      BY <1>0, <1>1, <1>6, <2>1, <2>2 DEF TypeOK, Capabilities
<1>8. Connected' = Connected /\ \A b \in Connected : Entry(b)' = Entry(b) /\ b \in Devices
    BY <1>0, <1>1 DEF Connected, Entry, TypeOK
<1>9. InvAux'
    BY <1>1, <1>6, <1>8 DEF IInv, InvAux
<1>10. LastWordCounts'
  <2>1. ASSUME NEW b \in Connected PROVE Last(<<Entry(b).focus>> \o reports'[b]) = told'[b]
    <3>1. CASE b = d
        BY <1>5, <1>6, <3>1 DEF f
    <3>2. CASE b # d
        BY <1>0, <1>6, <1>8, <3>2 DEF LastWordCounts
    <3>3. QED
        BY <3>1, <3>2
  <2>2. QED
      BY <1>8, <2>1 DEF LastWordCounts
<1>11. QED
    BY <1>7, <1>9, <1>10 DEF IInv

\* What update_focus does to the table.
LEMMA Updated ==
  ASSUME IInv, NEW d \in Devices, update_focus(d)
  PROVE  LET s == reports[d]
             e == [Entry(d) EXCEPT !.focus = Head(s),
                                   !.last = IF Head(s) = "active" THEN now ELSE @]
         IN  /\ d \in Connected /\ s \in Seq(FocusStates) /\ s # <<>>
             /\ e \in [id : Devices, focus : FocusStates, caps : SUBSET Capabilities,
                       last : 0..now]
             /\ e.id = d /\ e.focus = Head(s) /\ e.caps = Caps[d]
             /\ Head(s) = "active" => e.last = now
             /\ clients' = Replace(d, e)
             /\ reports' = [reports EXCEPT ![d] = Tail(s)]
             /\ UNCHANGED <<now, screen, phoneVars, told>>
<1> DEFINE s == reports[d]
           e == [Entry(d) EXCEPT !.focus = Head(s),
                                 !.last = IF Head(s) = "active" THEN now ELSE @]
<1>1. /\ d \in Connected /\ s # <<>> /\ clients' = Replace(d, e)
      /\ reports' = [reports EXCEPT ![d] = Tail(s)]
      /\ UNCHANGED <<now, screen, phoneVars, told>>
    BY DEF update_focus
<1>2. s \in Seq(FocusStates) /\ Head(s) \in FocusStates
    BY <1>1, LastTaken DEF IInv, TypeOK
<1>3. Entry(d) \in clients /\ Entry(d).id = d /\ Entry(d).caps = Caps[d]
    BY <1>1, EntryIs DEF IInv, InvAux
<1>4. /\ Entry(d) \in [id : Devices, focus : FocusStates, caps : SUBSET Capabilities,
                       last : 0..now]
      /\ now \in 0..now
    BY <1>3 DEF IInv, TypeOK
<1>5. /\ e \in [id : Devices, focus : FocusStates, caps : SUBSET Capabilities, last : 0..now]
      /\ e.id = d /\ e.focus = Head(s) /\ e.caps = Caps[d]
      /\ Head(s) = "active" => e.last = now
  <2> DEFINE h == Head(s)
  <2> HIDE DEF s, h
  <2>1. h \in FocusStates
      BY <1>2 DEF h
  <2>2. QED
      BY <1>3, <1>4, <2>1 DEF h
<1>6. QED
    BY <1>1, <1>2, <1>5

LEMMA UpdateStep ==
  ASSUME IInv, NEW d \in Devices, update_focus(d)
  PROVE  IInv'
<1> DEFINE s == reports[d]
           t == Tail(s)
           h == Head(s)
           e == [Entry(d) EXCEPT !.focus = Head(s),
                                 !.last = IF Head(s) = "active" THEN now ELSE @]
<1>0. TypeOK /\ IsFiniteSet(clients) /\ LastWordCounts
    BY DEF IInv, InvAux
<1>1. /\ d \in Connected /\ s \in Seq(FocusStates) /\ s # <<>>
      /\ e \in [id : Devices, focus : FocusStates, caps : SUBSET Capabilities, last : 0..now]
      /\ e.id = d /\ e.focus = h /\ e.caps = Caps[d]
      /\ clients' = Replace(d, e) /\ reports' = [reports EXCEPT ![d] = t]
      /\ UNCHANGED <<now, screen, phoneVars, told>>
    BY Updated
<1>2. Last(<<Entry(d).focus>> \o s) = told[d] /\ Entry(d).focus \in FocusStates
    BY <1>0, <1>1, EntryIs DEF LastWordCounts, TypeOK
<1> DEFINE f == Entry(d).focus
<1> HIDE DEF e, s, f
<1>3. /\ t \in Seq(FocusStates) /\ Len(t) = Len(s) - 1 /\ Len(s) \in Nat
      /\ Last(<<h>> \o t) = Last(<<f>> \o s)
    BY <1>1, <1>2, LastTaken DEF f
<1> HIDE DEF t, h
<1>4. /\ Connected' = Connected /\ Entry(d)' = e /\ e \in clients'
      /\ \A b \in Connected \ {d} : Entry(b)' = Entry(b)
      /\ \A a, b \in clients' : a.id = b.id => a = b
    BY <1>0, <1>1, Replaced
<1>5. clients' = (clients \ {Entry(d)}) \union {e}
    BY <1>1 DEF Replace
<1>6. reports'[d] = t /\ \A b \in Devices \ {d} : reports'[b] = reports[b]
    BY <1>0, <1>1 DEF TypeOK
<1>7. TypeOK'
  <2>1. reports' \in [Devices -> Seq(FocusStates)]
      BY <1>0, <1>1, <1>3 DEF TypeOK
  <2>2. Len(t) <= MaxQueue
      BY <1>0, <1>3, BoundsAreNumbers DEF TypeOK, s
  <2>3. clients' \subseteq [id : Devices, focus : FocusStates,
                            caps : SUBSET Capabilities, last : 0..now]
      BY <1>0, <1>1, <1>5 DEF TypeOK
  <2>4. QED
      BY <1>0, <1>1, <1>4, <1>6, <2>1, <2>2, <2>3 DEF TypeOK, Capabilities, phoneVars
<1>8. InvAux'
  <2>1. IsFiniteSet(clients')
      BY <1>0, <1>5, FS_RemoveElement, FS_AddElement
  <2>2. QED
      BY <1>1, <1>4, <1>5, <1>6, <2>1 DEF IInv, InvAux
<1>9. LastWordCounts'
  <2>1. ASSUME NEW b \in Connected PROVE Last(<<Entry(b)'.focus>> \o reports'[b]) = told[b]
    <3>1. CASE b = d
      <4>1. Last(<<h>> \o t) = told[d]
          BY <1>2, <1>3 DEF f
      <4>2. QED
          BY <1>1, <1>4, <1>6, <3>1, <4>1
    <3>2. CASE b # d
      <4>1. b \in Devices
          BY <1>0 DEF Connected, TypeOK
      <4>2. QED
          BY <1>0, <1>4, <1>6, <3>2, <4>1 DEF LastWordCounts
    <3>3. QED
        BY <3>1, <3>2
  <2>2. QED
      BY <1>1, <1>4, <2>1 DEF LastWordCounts
<1>10. QED
    BY <1>7, <1>8, <1>9 DEF IInv

LEMMA TickStep ==
  ASSUME IInv, Tick
  PROVE  IInv'
<1>1. now' = now + 1 /\ now < MaxNow /\ UNCHANGED <<clients, screen, phoneVars, told, reports>>
    BY DEF Tick
<1>2. TypeOK'
  <2>1. now' \in 0..MaxNow /\ \A k \in 0..now : k \in 0..now'
      BY <1>1, BoundsAreNumbers DEF IInv, TypeOK
  <2>2. clients' \subseteq [id : Devices, focus : FocusStates,
                            caps : SUBSET Capabilities, last : 0..now']
      BY <1>1, <2>1 DEF IInv, TypeOK
  <2>3. QED
      BY <1>1, <2>1, <2>2 DEF IInv, TypeOK, Capabilities, phoneVars
<1>3. QED
    BY <1>1, <1>2 DEF IInv, InvAux, LastWordCounts, Connected, Entry

LEMMA NextStep == IInv /\ [Next]_vars => IInv'
<1> SUFFICES ASSUME IInv, [Next]_vars PROVE IInv'
    OBVIOUS
<1>1. CASE UNCHANGED vars
    BY <1>1 DEF vars, phoneVars, IInv, TypeOK, InvAux, LastWordCounts, Connected, Entry
<1>2. QED
    BY <1>1, ConnectStep, DisconnectStep, ScreenStep, ReportStep, UpdateStep, TickStep
    DEF Next

\* IInv holds in every state (add_client, update_focus and remove_client, hub.rs).
THEOREM Inductive == Spec => []IInv
BY InitIInv, NextStep, PTL DEF Spec

\* The table has one well-formed entry per device, none from the future.
THEOREM TypeCorrect == Spec => []TypeOK
<1>1. IInv => TypeOK
    BY DEF IInv
<1>2. QED
    BY Inductive, <1>1, PTL

\* When all reports have arrived, the agent believes what each device said last,
\* however often it turned, connected and reported (agent.rs:221, focus.rs).
THEOREM LastWord == Spec => []LastWordCounts
<1>1. IInv => LastWordCounts
    BY DEF IInv
<1>2. QED
    BY Inductive, <1>1, PTL

LEMMA TableOf ==
  ASSUME NEW S, NEW n \in Nat, IsFiniteSet(S), \A a, b \in S : a.id = b.id => a = b,
         S \subseteq [id : Devices, focus : FocusStates, caps : SUBSET Capabilities,
                      last : 0..n]
  PROVE  IsTable(S)
<1>1. ASSUME NEW c \in S PROVE IsInfo(c)
  <2>1. c \in [id : Devices, focus : FocusStates, caps : SUBSET Capabilities, last : 0..n]
      OBVIOUS
  <2>2. c.id \in Nat /\ c.focus \in FocusStates
      BY <2>1, DevicesAreNumbers
  <2>3. c.last \in 0..n
      BY <2>1
  <2>4. c.last \in Nat
      BY <2>3
  <2>5. QED
      BY <2>2, <2>4 DEF IsInfo
<1>2. QED
    BY <1>1 DEF IsTable

\* In every state the sorted list exists and is the only one (router.rs:49).
THEOREM Ordered == Spec => []OneOrder
<1>1. IInv => OneOrder
  <2> SUFFICES ASSUME IInv, NEW cap \in Capabilities
               PROVE  LET capable == fan_out(clients, cap)
                          n == Cardinality(capable)
                      IN  /\ ToSet(rank(clients, cap)) = capable
                          /\ Len(rank(clients, cap)) = n
                          /\ \A i, j \in 1..n : i < j =>
                               Before(rank(clients, cap)[i], rank(clients, cap)[j])
      BY DEF OneOrder
  <2> DEFINE C == fan_out(clients, cap)
             list == rank(clients, cap)
  <2>1. /\ list \in Seq(C) /\ DOMAIN list = 1..Cardinality(C) /\ Len(list) = Cardinality(C)
        /\ \A c \in C : \E i \in 1..Cardinality(C) : list[i] = c
        /\ \A i, j \in 1..Cardinality(C) : i < j => Before(list[i], list[j])
    <3>1. now \in Nat
        BY BoundsAreNumbers DEF IInv, TypeOK
    <3>2. IsTable(clients)
        BY <3>1, TableOf DEF IInv, TypeOK, InvAux
    <3>3. QED
        BY <3>2, RankSorts
  <2> HIDE DEF C, list
  <2>2. ToSet(list) = C
      BY <2>1 DEF ToSet
  <2>3. QED
      BY <2>1, <2>2 DEF C, list
<1>2. QED
    BY Inductive, <1>1, PTL

-----------------------------------------------------------------------------
\* A report that the user is there puts its device at the head of every list it is
\* in, unless another was seen active at that very instant (hub.rs:83, router.rs:49).
THEOREM Freshest == Spec => FreshestFirst
<1> DEFINE Heard(d, cap) ==
             reports[d] # <<>> /\ reports'[d] = Tail(reports[d]) /\ d \in Connected'
               /\ Head(reports[d]) = "active" /\ cap \in Caps[d] =>
                 LET best == Head(rank(clients', cap))
                 IN  best.id = d \/ best.last = now
<1>1. ASSUME IInv, [Next]_vars, NEW d \in Devices, NEW cap \in Capabilities,
             reports[d] # <<>>, reports'[d] = Tail(reports[d]), d \in Connected',
             Head(reports[d]) = "active", cap \in Caps[d]
      PROVE  LET best == Head(rank(clients', cap))
             IN  best.id = d \/ best.last = now
  <2>1. reports[d] \in Seq(FocusStates) /\ Tail(reports[d]) # reports[d]
      BY <1>1, LastTaken DEF IInv, TypeOK
  <2>2. d \in Connected
      BY <1>1 DEF IInv, InvAux
  <2>3. update_focus(d)
    <3>1. reports'[d] # reports[d]
        BY <1>1, <2>1
    <3>2. \A b \in Devices : ~Connect(b)
      <4>1. SUFFICES ASSUME NEW b \in Devices, Connect(b) PROVE FALSE
          OBVIOUS
      <4>2. b # d
          BY <2>2, <4>1 DEF Connect
      <4>3. QED
          BY <3>1, <4>1, <4>2, <1>1 DEF Connect, IInv, TypeOK
    <3>3. \A b \in Devices : ~Disconnect(b)
      <4>1. SUFFICES ASSUME NEW b \in Devices, Disconnect(b) PROVE FALSE
          OBVIOUS
      <4>2. b = d
          BY <3>1, <4>1, <1>1 DEF Disconnect, IInv, TypeOK
      <4>3. Connected' = Connected \ {d}
          BY <1>1, <2>2, <4>1, <4>2, Left DEF Disconnect, IInv
      <4>4. QED
          BY <1>1, <4>3
    <3>4. \A b \in Devices : ~ScreenTurns(b) /\ ~Reconnect(b)
        BY <3>1 DEF ScreenTurns, Reconnect
    <3>5. \A b \in Devices : ~Report(b)
      <4>1. SUFFICES ASSUME NEW b \in Devices, Report(b) PROVE FALSE
          OBVIOUS
      <4>2. b = d
          BY <3>1, <4>1, <1>1 DEF Report, IInv, TypeOK
      <4> DEFINE s == reports[d]
                 l == Looked(d)
      <4>3. reports'[d] = Append(s, l) /\ s \in Seq(FocusStates) /\ l \in FocusStates
          BY <1>1, <2>1, <4>1, <4>2
          DEF Report, IInv, TypeOK, Looked, Shown, FocusStates
      <4>4. Tail(s) \in Seq(FocusStates) /\ Len(Tail(s)) = Len(s) - 1 /\ Len(s) \in Nat
          BY <1>1, <2>1, LastTaken
      <4> HIDE DEF s, l
      <4>5. Len(Append(s, l)) = Len(s) + 1
          BY <4>3, LastAppended
      <4>6. reports'[d] = Tail(s)
          BY <1>1 DEF s
      <4>7. QED
          BY <4>3, <4>4, <4>5, <4>6
    <3>6. ~Tick /\ ~UNCHANGED vars
        BY <3>1 DEF Tick, vars
    <3>7. PICK b \in Devices : update_focus(b)
        BY <1>1, <3>2, <3>3, <3>4, <3>5, <3>6 DEF Next
    <3>8. b = d
        BY <3>1, <3>7, <1>1 DEF update_focus, IInv, TypeOK
    <3>9. QED
        BY <3>7, <3>8
  <2> DEFINE e == [Entry(d) EXCEPT !.focus = Head(reports[d]),
                      !.last = IF Head(reports[d]) = "active" THEN now ELSE @]
  <2>4. /\ e.id = d /\ e.focus = "active" /\ e.caps = Caps[d] /\ e.last = now
        /\ clients' = Replace(d, e) /\ now' = now
      BY <1>1, <2>3, Updated
  <2> HIDE DEF e
  <2>5. e \in clients' /\ Entry(d)' = e
      BY <1>1, <2>2, <2>4, Replaced DEF IInv
  <2>6. IInv' /\ now \in Nat
      BY <1>1, NextStep, BoundsAreNumbers DEF IInv, TypeOK
  <2>7. IsTable(clients')
      BY <2>4, <2>6, TableOf DEF IInv, TypeOK, InvAux
  <2> DEFINE C == fan_out(clients', cap)
             list == rank(clients', cap)
  <2>8. e \in C /\ C \subseteq clients'
      BY <1>1, <2>4, <2>5 DEF fan_out
  <2>9. /\ list \in Seq(C) /\ Len(list) = Cardinality(C) /\ Cardinality(C) \in Nat
        /\ DOMAIN list = 1..Cardinality(C)
        /\ \A c \in C : \E i \in 1..Cardinality(C) : list[i] = c
        /\ \A i, j \in 1..Cardinality(C) : i < j => Before(list[i], list[j])
      BY <2>7, RankSorts
  <2> HIDE DEF C, list
  <2>10. PICK i \in 1..Cardinality(C) : list[i] = e
      BY <2>8, <2>9
  <2>11. Head(list) = list[1] /\ list[1] \in C /\ 1 \in 1..Cardinality(C)
      BY <2>9, <2>10
  <2>12. list[1].last <= now /\ list[1].focus \in FocusStates /\ list[1].last \in Nat
      BY <2>4, <2>6, <2>8, <2>11 DEF IInv, TypeOK
  <2>13. CASE i = 1
      BY <2>4, <2>10, <2>11, <2>13 DEF list
  <2>14. CASE i # 1
    <3>1. Before(list[1], e)
        BY <2>9, <2>10, <2>11, <2>14
    <3>2. list[1].last = now
        BY <2>4, <2>6, <2>12, <3>1 DEF Before, focus_rank, FocusStates
    <3>3. QED
        BY <2>11, <3>2 DEF list
  <2>15. QED
      BY <2>13, <2>14
<1>2. IInv /\ [Next]_vars =>
        [\A d \in Devices, cap \in Capabilities : Heard(d, cap)]_vars
    BY <1>1
<1>3. QED
    BY Inductive, <1>2, PTL DEF Spec, FreshestFirst

=============================================================================
