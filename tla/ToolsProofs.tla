----------------------------- MODULE ToolsProofs -----------------------------
(***************************************************************************)
(* Invariants of the local tools and the agent's socket, for any number of *)
(* tools and runs of the agent.                                            *)
(***************************************************************************)
EXTENDS Tools, TLAPS

\* A tool that is connected, or has written, has a request that was not too
\* large for it; one that has not begun is connected to nothing.
RequestsChecked ==
  \A t \in Tools :
    /\ tool[t] = "new" => server[t] = None /\ ~request[t]
    /\ (tool[t] \in {"queued", "taken", "asked", "dropped"} \/ request[t])
         /\ wish[t].program \in Opens => wish[t].size <= MaxFileSize

\* A result is one its request may have; a response is the one of the result, and is
\* there for none but a tool whose request is handled, or that is done.
ResponsesTrue ==
  \A t \in Tools :
    /\ tool[t] \in {"new", "queued", "taken", "dropped"} => response[t] = None
    /\ result[t] # None => result[t] \in Results(t)
    /\ response[t] # None => result[t] # None /\ response[t] = to_wire(result[t])

\* The exit code is that of the result, or says that none was written.
ExitsFollow ==
  \A t \in Tools :
    \/ exit[t] = None
    \/ tool[t] = "done" /\ response[t] = None /\ exit[t] = ExitCode(t, "Unreachable")
    \/ /\ tool[t] = "done" /\ response[t] = None
       /\ wish[t].program \in Opens /\ exit[t] \in 1..4
    \/ /\ tool[t] = "done" /\ response[t] # None
       /\ exit[t] = ExitCode(t, result[t])

IInv ==
  /\ TypeOK
  /\ RequestsChecked
  /\ ResponsesTrue
  /\ ExitsFollow
  /\ ServerIsFound
-----------------------------------------------------------------------------
(* The conversions.                                                         *)

\* Different errors have different identifiers, and each is read for itself.
LEMMA WireIsFaithful ==
  ASSUME NEW r \in Errors \union {"Ok"}
  PROVE  Understood(to_wire(r)) = r
<1> USE NoneAssumption
<1>1. CASE r = "Ok"
  <2>1. to_wire(r).error = None
      BY <1>1 DEF to_wire, Errors
  <2>2. QED
      BY <1>1, <2>1 DEF Understood
<1>2. CASE r \in Errors
  <2>1. to_wire(r).error = wire_id[r] /\ wire_id[r] # None
      BY <1>2 DEF to_wire
  <2>2. \A e \in Errors : wire_id[e] = wire_id[r] => e = r
      BY <1>2 DEF Errors, wire_id
  <2>3. from_wire(wire_id[r]) = r
      BY <1>2, <2>2 DEF from_wire
  <2>4. r # None
      BY <1>2
  <2>5. QED
      BY <2>1, <2>3, <2>4 DEF Understood
<1>3. QED
    BY <1>1, <1>2

\* A file of at most five megabytes fits in a message when it is encoded.
LEMMA EncodedFits ==
  ASSUME NEW n \in Nat, n <= MaxFileSize
  PROVE  Envelope + 4 * ((n + 2) \div 3) <= MaxMessageSize
<1>1. 3 * ((n + 2) \div 3) <= n + 2 /\ (n + 2) \div 3 \in Int
    BY SMT
<1>2. Envelope \in Int /\ Envelope <= 1024 * 1024
    BY EnvelopeAssumption
<1>3. n <= 5 * 1024 * 1024 /\ MaxMessageSize = 8 * 1024 * 1024
    BY SMT DEF MaxFileSize, MaxMessageSize
<1>4. QED
    BY SMT, <1>1, <1>2, <1>3

\* What the handling of a request may end in, the wire and the tool know.
LEMMA ResultsAreKnown ==
  ASSUME NEW t \in Tools, wish[t].program \in Programs
  PROVE  Results(t) \subseteq Errors \union {"Ok"}
  BY DEF Results, Errors, Opens, Programs
-----------------------------------------------------------------------------
(* The invariant.                                                           *)

LEMMA InitIInv == Init => IInv
<1> SUFFICES ASSUME Init PROVE IInv
    OBVIOUS
<1> USE NoneAssumption
<1>1. wish \in [Tools -> [program : Programs, size : Nat]]
  <2>1. \A t \in Tools : wish[t] \in [program : Programs, size : Nat]
      BY ToolsAssumption DEF Init
  <2>2. wish \in [Tools -> UNION {Wishes[t] : t \in Tools}]
      BY DEF Init
  <2>3. QED
      BY <2>1, <2>2
<1>2. TypeOK
  <2>1. /\ agent \in [Agents -> {"new", "bound", "serving", "ended"}]
        /\ path \in Agents \union {None}
        /\ backlog \in [Agents -> Seq(Tools)] /\ reading \in [Agents -> Tools \union {None}]
      BY DEF Init
  <2>2. \A a \in Agents : backlog[a] = <<>> /\ reading[a] = None
      BY DEF Init
  <2>3. /\ tool \in [Tools -> {"new", "queued", "taken", "asked", "dropped", "done"}]
        /\ server \in [Tools -> Agents \union {None}]
        /\ request \in [Tools -> BOOLEAN]
      BY DEF Init
  <2>4. /\ response \in [Tools -> {to_wire(r) : r \in Errors \union {"Ok"}} \union {None}]
        /\ exit \in [Tools -> 0..4 \union {None}]
        /\ result \in [Tools -> Errors \union {"Ok", None}]
        /\ overlapped \in BOOLEAN
      BY DEF Init
  <2>5. QED
      BY <1>1, <2>1, <2>2, <2>3, <2>4 DEF TypeOK
<1>3. RequestsChecked
    BY DEF Init, RequestsChecked
<1>4. ResponsesTrue
    BY DEF Init, ResponsesTrue
<1>5. ExitsFollow
    BY DEF Init, ExitsFollow
<1>6. ServerIsFound
    BY DEF Init, ServerIsFound, Listening
<1>7. QED
    BY <1>2, <1>3, <1>4, <1>5, <1>6 DEF IInv

LEMMA ExitCodes ==
  ASSUME NEW t \in Tools, NEW r
  PROVE  ExitCode(t, r) \in 0..4
  BY DEF ExitCode

\* A tool that ends keeps its type.
LEMMA EndTypeOK ==
  ASSUME TypeOK, NEW t \in Tools, NEW code \in 0..4 \union {None}, End(t, code),
         UNCHANGED <<agentVars, server, wish, request, response, result, overlapped>>
  PROVE  TypeOK'
<1>1. /\ tool' \in [Tools -> {"new", "queued", "taken", "asked", "dropped", "done"}]
      /\ exit' \in [Tools -> 0..4 \union {None}]
    BY DEF TypeOK, End
<1>2. QED
    BY <1>1 DEF TypeOK, agentVars, Listening

LEMMA NextTypeOK == IInv /\ [Next]_vars => TypeOK'
<1> SUFFICES ASSUME IInv, [Next]_vars PROVE TypeOK'
    OBVIOUS
<1> USE NoneAssumption
<1>0. TypeOK
    BY DEF IInv
<1>1. ASSUME NEW t \in Tools, GiveUp(t) PROVE TypeOK'
  <2>1. PICK code \in 0..4 : End(t, code)
      BY <1>1 DEF GiveUp
  <2>2. UNCHANGED <<agentVars, server, wish, request, response, result, overlapped>>
      BY <1>1 DEF GiveUp
  <2>3. QED
      BY <1>0, <2>1, <2>2, EndTypeOK
<1>2. ASSUME NEW t \in Tools, Dial(t) PROVE TypeOK'
  <2>1. CASE Listening(path)
    <3>1. path \in Agents
        BY <1>0, <2>1 DEF TypeOK, Listening
    <3>2. /\ tool' = [tool EXCEPT ![t] = "queued"] /\ server' = [server EXCEPT ![t] = path]
          /\ backlog' = [backlog EXCEPT ![path] = Append(@, t)]
          /\ UNCHANGED <<agent, path, reading, wish, request, response, exit, result, overlapped>>
        BY <1>2, <2>1 DEF Dial
    <3>3. backlog' \in [Agents -> Seq(Tools)]
        BY <1>0, <3>1, <3>2 DEF TypeOK
    <3>4. \A a \in Agents : ~Listening(a)' => backlog'[a] = <<>> /\ reading'[a] = None
        BY <1>0, <2>1, <3>1, <3>2 DEF TypeOK, Listening
    <3>5. QED
        BY <1>0, <3>1, <3>2, <3>3, <3>4 DEF TypeOK
  <2>2. CASE ~Listening(path)
    <3>1. /\ End(t, ExitCode(t, "Unreachable"))
          /\ UNCHANGED <<agentVars, server, wish, request, response, result, overlapped>>
        BY <1>2, <2>2 DEF Dial, agentVars
    <3>2. QED
        BY <1>0, <3>1, ExitCodes, EndTypeOK
  <2>3. QED
      BY <2>1, <2>2
<1>3. ASSUME NEW t \in Tools, Send(t) PROVE TypeOK'
    BY <1>0, <1>3 DEF TypeOK, Send, agentVars, Listening
<1>4. ASSUME NEW t \in Tools, Interrupt(t) PROVE TypeOK'
    BY <1>0, <1>4, EndTypeOK DEF Interrupt
<1>5. ASSUME NEW t \in Tools, ReadResponse(t) PROVE TypeOK'
    BY <1>0, <1>5, ExitCodes, EndTypeOK DEF ReadResponse
<1>6. ASSUME NEW t \in Tools, Closed(t) PROVE TypeOK'
    BY <1>0, <1>6, ExitCodes, EndTypeOK DEF Closed
<1>7. ASSUME NEW t \in Tools, Handle(t) \/ Respond(t) PROVE TypeOK'
  <2>1. CASE Handle(t)
    <3>1. wish[t].program \in Programs
        BY <1>0 DEF TypeOK
    <3>2. PICK r \in Results(t) : result' = [result EXCEPT ![t] = r]
        BY <2>1 DEF Handle
    <3>3. r \in Errors \union {"Ok"}
        BY <3>1, ResultsAreKnown
    <3>4. result' \in [Tools -> Errors \union {"Ok", None}]
        BY <1>0, <3>2, <3>3 DEF TypeOK
    <3>5. UNCHANGED <<agentVars, toolVars, overlapped>>
        BY <2>1 DEF Handle
    <3>6. QED
        BY <1>0, <3>4, <3>5 DEF TypeOK, agentVars, toolVars, Listening
  <2>2. CASE Respond(t)
    <3>1. result[t] \in Errors \union {"Ok"}
        BY <1>0, <2>2 DEF TypeOK, Respond
    <3>2. response' = [response EXCEPT ![t] = to_wire(result[t])]
        BY <2>2 DEF Respond
    <3>3. response' \in [Tools -> {to_wire(x) : x \in Errors \union {"Ok"}} \union {None}]
        BY <1>0, <3>1, <3>2 DEF TypeOK
    <3>4. UNCHANGED <<agentVars, tool, server, wish, request, exit, result, overlapped>>
        BY <2>2 DEF Respond
    <3>5. QED
        BY <1>0, <3>3, <3>4 DEF TypeOK, agentVars, Listening
  <2>3. QED
      BY <1>7, <2>1, <2>2
<1>8. ASSUME NEW a \in Agents, Start(a) PROVE TypeOK'
  <2>1. overlapped' \in BOOLEAN
      BY <1>0, <1>8 DEF TypeOK, Start
  <2>2. QED
      BY <1>0, <1>8, <2>1 DEF TypeOK, Start, toolVars, Listening
<1>9. ASSUME NEW a \in Agents, Serve(a) PROVE TypeOK'
    BY <1>0, <1>9 DEF TypeOK, Serve, toolVars, Listening
<1>10. ASSUME NEW a \in Agents, NEW crash \in BOOLEAN, Halt(a, crash) PROVE TypeOK'
  <2>1. tool' \in [Tools -> {"new", "queued", "taken", "asked", "dropped", "done"}]
      BY <1>0, <1>10 DEF TypeOK, Halt
  <2>2. path' \in Agents \union {None}
      BY <1>0, <1>10 DEF TypeOK, Halt
  <2>3. /\ backlog' \in [Agents -> Seq(Tools)] /\ reading' \in [Agents -> Tools \union {None}]
        /\ agent' \in [Agents -> {"new", "bound", "serving", "ended"}]
      BY <1>0, <1>10 DEF TypeOK, Halt
  <2>4. \A b \in Agents : ~Listening(b)' => backlog'[b] = <<>> /\ reading'[b] = None
      BY <1>0, <1>10 DEF TypeOK, Halt, Listening
  <2>5. UNCHANGED <<server, wish, request, response, exit, result, overlapped>>
      BY <1>10 DEF Halt
  <2>6. QED
      BY <1>0, <2>1, <2>2, <2>3, <2>4, <2>5 DEF TypeOK
<1>11. ASSUME NEW a \in Agents, Accept(a) PROVE TypeOK'
  <2>1. Head(backlog[a]) \in Tools /\ Tail(backlog[a]) \in Seq(Tools)
      BY <1>0, <1>11 DEF TypeOK, Accept
  <2>2. \A b \in Agents : ~Listening(b)' => backlog'[b] = <<>> /\ reading'[b] = None
      BY <1>0, <1>11 DEF TypeOK, Accept, Listening
  <2>3. tool' \in [Tools -> {"new", "queued", "taken", "asked", "dropped", "done"}]
      BY <1>0, <1>11, <2>1 DEF TypeOK, Accept
  <2>4. backlog' \in [Agents -> Seq(Tools)] /\ reading' \in [Agents -> Tools \union {None}]
      BY <1>0, <1>11, <2>1 DEF TypeOK, Accept
  <2>5. UNCHANGED <<agent, path, server, wish, request, response, exit, result, overlapped>>
      BY <1>11 DEF Accept
  <2>6. QED
      BY <1>0, <2>2, <2>3, <2>4, <2>5 DEF TypeOK
<1>12. ASSUME NEW a \in Agents, Take(a) \/ Refuse(a) PROVE TypeOK'
  <2>1. reading[a] \in Tools /\ reading' = [reading EXCEPT ![a] = None]
      BY <1>0, <1>12 DEF TypeOK, Take, Refuse
  <2>2. tool' \in [Tools -> {"new", "queued", "taken", "asked", "dropped", "done"}]
    <3>1. \/ tool' = [tool EXCEPT ![reading[a]] = "asked"]
          \/ tool' = [tool EXCEPT ![reading[a]] = "dropped"]
          \/ tool' = tool
        BY <1>12 DEF Take, Refuse
    <3>2. QED
        BY <1>0, <2>1, <3>1 DEF TypeOK
  <2>3. UNCHANGED <<agent, path, backlog, server, wish, request, response, exit, result, overlapped>>
      BY <1>12 DEF Take, Refuse
  <2>4. QED
      BY <1>0, <2>1, <2>2, <2>3 DEF TypeOK, Listening
<1>13. CASE UNCHANGED vars
    BY <1>0, <1>13 DEF TypeOK, vars, agentVars, toolVars, Listening
<1>14. QED
    BY <1>1, <1>2, <1>3, <1>4, <1>5, <1>6, <1>7, <1>8, <1>9, <1>10, <1>11, <1>12, <1>13 DEF Next

\* The agent's steps on a connection move on the tool that waits there, if any.
LEMMA AgentMovesOn ==
  ASSUME TypeOK, NEW a \in Agents, Accept(a) \/ Take(a) \/ Refuse(a)
  PROVE  \/ tool' = tool
         \/ \E u \in Tools : /\ tool[u] \in {"queued", "taken"}
                             /\ \E x \in {"taken", "asked", "dropped"} :
                                  tool' = [tool EXCEPT ![u] = x]
<1> USE NoneAssumption
<1>1. CASE Accept(a)
  <2>1. Head(backlog[a]) \in Tools
      BY <1>1 DEF TypeOK, Accept
  <2>2. QED
      BY <1>1, <2>1 DEF Accept
<1>2. CASE Take(a) \/ Refuse(a)
    BY <1>2 DEF TypeOK, Take, Refuse
<1>3. QED
    BY <1>1, <1>2

LEMMA NextRequestsChecked == IInv /\ [Next]_vars => RequestsChecked'
<1> SUFFICES ASSUME IInv, [Next]_vars, NEW t \in Tools
             PROVE  /\ tool'[t] = "new" => server'[t] = None /\ ~request'[t]
                    /\ (tool'[t] \in {"queued", "taken", "asked", "dropped"} \/ request'[t])
                         /\ wish'[t].program \in Opens => wish'[t].size <= MaxFileSize
    BY DEF RequestsChecked
<1> DEFINE Q == /\ tool'[t] = "new" => server'[t] = None /\ ~request'[t]
                /\ (tool'[t] \in {"queued", "taken", "asked", "dropped"} \/ request'[t])
                     /\ wish'[t].program \in Opens => wish'[t].size <= MaxFileSize
<1> USE NoneAssumption
<1>0. TypeOK /\ RequestsChecked
    BY DEF IInv
<1>1. ASSUME NEW u \in Tools, GiveUp(u) PROVE Q
    BY <1>0, <1>1 DEF TypeOK, RequestsChecked, GiveUp, End
<1>2. ASSUME NEW u \in Tools, Dial(u) PROVE Q
  <2>1. CASE Listening(path)
    <3>1. /\ tool' = [tool EXCEPT ![u] = "queued"] /\ server' = [server EXCEPT ![u] = path]
          /\ UNCHANGED <<wish, request>>
          /\ wish[u].program \in Opens => wish[u].size <= MaxFileSize
        BY <1>2, <2>1 DEF Dial
    <3>2. QED
        BY <1>0, <3>1 DEF TypeOK, RequestsChecked
  <2>2. CASE ~Listening(path)
    <3>1. tool' = [tool EXCEPT ![u] = "done"] /\ UNCHANGED <<server, wish, request>>
        BY <1>2, <2>2 DEF Dial, End
    <3>2. QED
        BY <1>0, <3>1 DEF TypeOK, RequestsChecked
  <2>3. QED
      BY <2>1, <2>2
<1>3. ASSUME NEW u \in Tools, Send(u) PROVE Q
    BY <1>0, <1>3 DEF TypeOK, RequestsChecked, Send
<1>4. ASSUME NEW u \in Tools, Interrupt(u) \/ ReadResponse(u) \/ Closed(u) PROVE Q
  <2>1. tool' = [tool EXCEPT ![u] = "done"] /\ UNCHANGED <<server, wish, request>>
      BY <1>4 DEF Interrupt, ReadResponse, Closed, End
  <2>2. QED
      BY <1>0, <2>1 DEF TypeOK, RequestsChecked
<1>5. ASSUME NEW u \in Tools, Handle(u) \/ Respond(u) PROVE Q
  <2>1. UNCHANGED <<tool, server, wish, request>>
      BY <1>5 DEF Handle, Respond, toolVars
  <2>2. QED
      BY <1>0, <2>1 DEF RequestsChecked
<1>6. ASSUME NEW a \in Agents, Start(a) \/ Serve(a) PROVE Q
    BY <1>0, <1>6 DEF RequestsChecked, Start, Serve, toolVars
<1>7. ASSUME NEW a \in Agents, NEW crash \in BOOLEAN, Halt(a, crash) PROVE Q
  <2>1. /\ UNCHANGED <<server, wish, request>>
        /\ tool'[t] = IF server[t] = a /\ tool[t] # "done" /\ response[t] = None
                      THEN "dropped" ELSE tool[t]
      BY <1>7 DEF Halt
  <2>2. CASE server[t] = a /\ tool[t] # "done" /\ response[t] = None
    <3>1. tool'[t] = "dropped"
        BY <2>1, <2>2
    <3>2. tool[t] \in {"queued", "taken", "asked", "dropped"}
        BY <1>0, <2>2 DEF TypeOK, RequestsChecked
    <3>3. QED
        BY <1>0, <2>1, <3>1, <3>2 DEF RequestsChecked
  <2>3. CASE ~(server[t] = a /\ tool[t] # "done" /\ response[t] = None)
    <3>1. tool'[t] = tool[t]
        BY <2>1, <2>3
    <3>2. QED
        BY <1>0, <2>1, <3>1 DEF RequestsChecked
  <2>4. QED
      BY <2>2, <2>3
<1>8. ASSUME NEW a \in Agents, Accept(a) \/ Take(a) \/ Refuse(a) PROVE Q
  <2>1. /\ UNCHANGED <<server, wish, request>>
        /\ \/ tool' = tool
           \/ \E u \in Tools : /\ tool[u] \in {"queued", "taken"}
                               /\ \E x \in {"taken", "asked", "dropped"} :
                                    tool' = [tool EXCEPT ![u] = x]
      BY <1>0, <1>8, AgentMovesOn DEF Accept, Take, Refuse
  <2>2. QED
      BY <1>0, <2>1 DEF TypeOK, RequestsChecked
<1>9. CASE UNCHANGED vars
    BY <1>0, <1>9 DEF RequestsChecked, vars, toolVars
<1>10. QED
    BY <1>1, <1>2, <1>3, <1>4, <1>5, <1>6, <1>7, <1>8, <1>9 DEF Next

LEMMA NextResponsesTrue == IInv /\ [Next]_vars => ResponsesTrue'
<1> SUFFICES ASSUME IInv, [Next]_vars, NEW t \in Tools
             PROVE  /\ tool'[t] \in {"new", "queued", "taken", "dropped"} => response'[t] = None
                    /\ result'[t] # None => result'[t] \in Results(t)'
                    /\ response'[t] # None =>
                         result'[t] # None /\ response'[t] = to_wire(result'[t])
    BY DEF ResponsesTrue
<1> DEFINE Q == /\ tool'[t] \in {"new", "queued", "taken", "dropped"} => response'[t] = None
                /\ result'[t] # None => result'[t] \in Results(t)'
                /\ response'[t] # None =>
                     result'[t] # None /\ response'[t] = to_wire(result'[t])
<1> USE NoneAssumption
<1>0. TypeOK /\ ResponsesTrue
    BY DEF IInv
<1>a. ASSUME UNCHANGED <<wish, response, result>>,
             tool'[t] \in {"new", "queued", "taken", "dropped"} => response[t] = None
      PROVE  Q
    BY <1>0, <1>a DEF ResponsesTrue, Results
<1>1. ASSUME NEW u \in Tools,
             GiveUp(u) \/ Dial(u) \/ Send(u) \/ Interrupt(u) \/ ReadResponse(u) \/ Closed(u)
      PROVE  Q
  <2>1. UNCHANGED <<wish, response, result>>
      BY <1>1 DEF GiveUp, Dial, Send, Interrupt, ReadResponse, Closed
  <2>2. \/ tool' = tool
        \/ tool' = [tool EXCEPT ![u] = "done"]
        \/ tool[u] = "new" /\ tool' = [tool EXCEPT ![u] = "queued"]
      BY <1>1 DEF GiveUp, Dial, Send, Interrupt, ReadResponse, Closed, End
  <2>3. tool'[t] \in {"new", "queued", "taken", "dropped"} => response[t] = None
      BY <1>0, <2>2 DEF TypeOK, ResponsesTrue
  <2>4. QED
      BY <2>1, <2>3, <1>a
<1>2. ASSUME NEW u \in Tools, Handle(u) PROVE Q
  <2>1. PICK r \in Results(u) : result' = [result EXCEPT ![u] = r]
      BY <1>2 DEF Handle
  <2>2. result[u] = None /\ UNCHANGED <<tool, wish, response>>
      BY <1>2 DEF Handle, toolVars
  <2>3. Results(t)' = Results(t)
      BY <2>2 DEF Results
  <2>4. CASE t = u
    <3>1. result'[t] = r
        BY <1>0, <2>1, <2>4 DEF TypeOK
    <3>2. response[t] = None
        BY <1>0, <2>2, <2>4 DEF ResponsesTrue
    <3>3. QED
        BY <2>1, <2>2, <2>3, <2>4, <3>1, <3>2
  <2>5. CASE t # u
    <3>1. result'[t] = result[t]
        BY <1>0, <2>1, <2>5 DEF TypeOK
    <3>2. QED
        BY <1>0, <2>2, <2>3, <3>1 DEF ResponsesTrue
  <2>6. QED
      BY <2>4, <2>5
<1>8. ASSUME NEW u \in Tools, Respond(u) PROVE Q
  <2>1. response' = [response EXCEPT ![u] = to_wire(result[u])]
      BY <1>8 DEF Respond
  <2>2. tool[u] = "asked" /\ result[u] # None /\ UNCHANGED <<tool, wish, result>>
      BY <1>8 DEF Respond
  <2>3. Results(t)' = Results(t)
      BY <2>2 DEF Results
  <2>4. CASE t = u
    <3>1. response'[t] = to_wire(result[t])
        BY <1>0, <2>1, <2>4 DEF TypeOK
    <3>2. QED
        BY <1>0, <2>2, <2>3, <2>4, <3>1 DEF ResponsesTrue
  <2>5. CASE t # u
    <3>1. response'[t] = response[t]
        BY <1>0, <2>1, <2>5 DEF TypeOK
    <3>2. QED
        BY <1>0, <2>2, <2>3, <3>1 DEF ResponsesTrue
  <2>6. QED
      BY <2>4, <2>5
<1>3. ASSUME NEW a \in Agents, Start(a) \/ Serve(a) PROVE Q
  <2>1. UNCHANGED <<tool, wish, response, result>>
      BY <1>3 DEF Start, Serve, toolVars
  <2>2. QED
      BY <1>0, <1>a, <2>1 DEF ResponsesTrue
<1>4. ASSUME NEW a \in Agents, NEW crash \in BOOLEAN, Halt(a, crash) PROVE Q
  <2>1. /\ UNCHANGED <<wish, response, result>>
        /\ tool'[t] = IF server[t] = a /\ tool[t] # "done" /\ response[t] = None
                      THEN "dropped" ELSE tool[t]
      BY <1>4 DEF Halt
  <2>2. tool'[t] \in {"new", "queued", "taken", "dropped"} => response[t] = None
      BY <1>0, <2>1 DEF ResponsesTrue
  <2>3. QED
      BY <1>a, <2>1, <2>2
<1>5. ASSUME NEW a \in Agents, Accept(a) \/ Take(a) \/ Refuse(a) PROVE Q
  <2>1. UNCHANGED <<wish, response, result>>
      BY <1>5 DEF Accept, Take, Refuse
  <2>2. \/ tool' = tool
        \/ \E u \in Tools : /\ tool[u] \in {"queued", "taken"}
                            /\ \E x \in {"taken", "asked", "dropped"} :
                                 tool' = [tool EXCEPT ![u] = x]
      BY <1>0, <1>5, AgentMovesOn DEF Accept, Take, Refuse
  <2>3. tool'[t] \in {"new", "queued", "taken", "dropped"} => response[t] = None
      BY <1>0, <2>2 DEF TypeOK, ResponsesTrue
  <2>4. QED
      BY <1>a, <2>1, <2>3
<1>6. CASE UNCHANGED vars
  <2>1. UNCHANGED <<tool, wish, response, result>>
      BY <1>6 DEF vars, toolVars
  <2>2. QED
      BY <1>0, <1>a, <2>1 DEF ResponsesTrue
<1>7. QED
    BY <1>1, <1>2, <1>3, <1>4, <1>5, <1>6, <1>8 DEF Next

LEMMA NextServerIsFound == IInv /\ [Next]_vars => ServerIsFound'
<1> SUFFICES ASSUME IInv, [Next]_vars PROVE ServerIsFound'
    OBVIOUS
<1> USE NoneAssumption
<1>0. TypeOK /\ ServerIsFound
    BY DEF IInv
<1>1. ASSUME UNCHANGED <<agent, path, overlapped>> PROVE ServerIsFound'
    BY <1>0, <1>1 DEF ServerIsFound, Listening
<1>2. ASSUME NEW t \in Tools,
             \/ GiveUp(t) \/ Dial(t) \/ Send(t) \/ Interrupt(t)
             \/ ReadResponse(t) \/ Closed(t) \/ Handle(t) \/ Respond(t)
      PROVE  ServerIsFound'
  <2>1. UNCHANGED <<agent, path, overlapped>>
      BY <1>2 DEF GiveUp, Dial, Send, Interrupt, ReadResponse, Closed, Handle, Respond,
                  agentVars
  <2>2. QED
      BY <1>1, <2>1
<1>3. ASSUME NEW a \in Agents, Start(a) PROVE ServerIsFound'
  <2>1. SUFFICES ASSUME ~overlapped', NEW b \in Agents, Listening(b)' PROVE path' = b
      BY DEF ServerIsFound
  <2>2. ~\E c \in Agents : agent[c] \in {"bound", "serving"}
      BY <1>3, <2>1 DEF Start
  <2>3. b = a
      BY <1>0, <1>3, <2>1, <2>2 DEF Start, Listening, TypeOK
  <2>4. QED
      BY <1>3, <2>3 DEF Start
<1>4. ASSUME NEW a \in Agents, Serve(a) PROVE ServerIsFound'
    BY <1>0, <1>4 DEF ServerIsFound, Listening, Serve, TypeOK
<1>5. ASSUME NEW a \in Agents, NEW crash \in BOOLEAN, Halt(a, crash) PROVE ServerIsFound'
  <2>1. SUFFICES ASSUME ~overlapped', NEW b \in Agents, Listening(b)' PROVE FALSE
      BY DEF ServerIsFound
  <2>2. b # a /\ Listening(b) /\ Listening(a) /\ ~overlapped
      BY <1>0, <1>5, <2>1 DEF Halt, Listening, TypeOK
  <2>3. QED
      BY <1>0, <2>2 DEF ServerIsFound
<1>6. ASSUME NEW a \in Agents, Accept(a) \/ Take(a) \/ Refuse(a) PROVE ServerIsFound'
  <2>1. UNCHANGED <<agent, path, overlapped>>
      BY <1>6 DEF Accept, Take, Refuse
  <2>2. QED
      BY <1>1, <2>1
<1>7. CASE UNCHANGED vars
    BY <1>1, <1>7 DEF vars, agentVars
<1>8. QED
    BY <1>2, <1>3, <1>4, <1>5, <1>6, <1>7 DEF Next

LEMMA NextExitsFollow == IInv /\ [Next]_vars => ExitsFollow'
<1> DEFINE Q(u) ==
      \/ exit'[u] = None
      \/ tool'[u] = "done" /\ response'[u] = None /\ exit'[u] = ExitCode(u, "Unreachable")'
      \/ /\ tool'[u] = "done" /\ response'[u] = None
         /\ wish'[u].program \in Opens /\ exit'[u] \in 1..4
      \/ /\ tool'[u] = "done" /\ response'[u] # None
         /\ exit'[u] = ExitCode(u, result[u])'
<1> SUFFICES ASSUME IInv, [Next]_vars, NEW t \in Tools PROVE Q(t)
    BY DEF ExitsFollow
<1> USE NoneAssumption
<1>0. TypeOK /\ ResponsesTrue /\ ExitsFollow
    BY DEF IInv
<1>1. wish' = wish
    BY DEF Next, vars, toolVars, GiveUp, Dial, Send, Interrupt, ReadResponse, Closed,
           Handle, Respond, Start, Serve, Halt, Accept, Take, Refuse
<1>2. ExitCode(t, "Unreachable")' = ExitCode(t, "Unreachable")
    BY <1>1 DEF ExitCode
\* What is done stays as it is.
<1>a. ASSUME exit'[t] = exit[t], result'[t] = result[t], response'[t] = response[t],
             tool[t] = "done" => tool'[t] = "done"
      PROVE  Q(t)
  <2>1. ExitCode(t, result[t])' = ExitCode(t, result[t])
      BY <1>1, <1>a DEF ExitCode
  <2>2. QED
      BY <1>0, <1>1, <1>2, <1>a, <2>1 DEF ExitsFollow
\* A tool that was not done ends without an answer, or with that to its request.
<1>b. ASSUME NEW u \in Tools, NEW code, End(u, code), UNCHANGED <<result, response>>,
             \/ code = None
             \/ code = ExitCode(u, "Unreachable") /\ response[u] = None
             \/ response[u] = None /\ wish[u].program \in Opens /\ code \in 1..4
             \/ response[u] # None /\ code = ExitCode(u, result[u])
      PROVE  Q(t)
  <2>1. CASE t = u
    <3>1. tool'[t] = "done" /\ exit'[t] = code
        BY <1>0, <1>b, <2>1 DEF TypeOK, End
    <3>2. ExitCode(t, result[t])' = ExitCode(t, result[t])
        BY <1>1, <1>b DEF ExitCode
    <3>3. QED
        BY <1>1, <1>2, <1>b, <2>1, <3>1, <3>2
  <2>2. CASE t # u
    <3>1. tool'[t] = tool[t] /\ exit'[t] = exit[t]
        BY <1>0, <1>b, <2>2 DEF TypeOK, End
    <3>2. QED
        BY <1>a, <1>b, <3>1
  <2>3. QED
      BY <2>1, <2>2
<1>3. ASSUME NEW u \in Tools, GiveUp(u) PROVE Q(t)
  <2>1. PICK code \in 1..4 : End(u, code)
      BY <1>3 DEF GiveUp
  <2>2. /\ response[u] = None /\ wish[u].program \in Opens
        /\ UNCHANGED <<result, response>>
      BY <1>0, <1>3 DEF GiveUp, ResponsesTrue, toolVars
  <2>3. QED
      BY <1>b, <2>1, <2>2
<1>4. ASSUME NEW u \in Tools, Dial(u) PROVE Q(t)
  <2>1. CASE Listening(path)
    <3>1. /\ tool[u] = "new" /\ tool' = [tool EXCEPT ![u] = "queued"]
          /\ UNCHANGED <<exit, result, response>>
        BY <1>4, <2>1 DEF Dial
    <3>2. tool[t] = "done" => tool'[t] = "done"
        BY <1>0, <3>1 DEF TypeOK
    <3>3. QED
        BY <1>a, <3>1, <3>2
  <2>2. CASE ~Listening(path)
    <3>1. /\ End(u, ExitCode(u, "Unreachable")) /\ tool[u] = "new"
          /\ UNCHANGED <<result, response>>
        BY <1>4, <2>2 DEF Dial
    <3>2. response[u] = None
        BY <1>0, <3>1 DEF ResponsesTrue
    <3>3. QED
        BY <1>b, <3>1, <3>2
  <2>3. QED
      BY <2>1, <2>2
<1>5. ASSUME NEW u \in Tools, Send(u) PROVE Q(t)
    BY <1>5, <1>a DEF Send
<1>6. ASSUME NEW u \in Tools, Interrupt(u) PROVE Q(t)
    BY <1>6, <1>b DEF Interrupt
<1>7. ASSUME NEW u \in Tools, ReadResponse(u) PROVE Q(t)
  <2>1. /\ response[u] # None
        /\ result[u] \in Results(u) /\ response[u] = to_wire(result[u])
      BY <1>0, <1>7 DEF ReadResponse, ResponsesTrue
  <2>2. result[u] \in Errors \union {"Ok"}
      BY <1>0, <2>1, ResultsAreKnown DEF TypeOK
  <2>3. Understood(response[u]) = result[u]
      BY <2>1, <2>2, WireIsFaithful
  <2>4. End(u, ExitCode(u, result[u])) /\ UNCHANGED <<result, response>>
      BY <1>7, <2>3 DEF ReadResponse
  <2>5. QED
      BY <1>b, <2>1, <2>4
<1>8. ASSUME NEW u \in Tools, Closed(u) PROVE Q(t)
  <2>1. /\ End(u, ExitCode(u, "Unreachable")) /\ tool[u] = "dropped"
        /\ UNCHANGED <<result, response>>
      BY <1>8 DEF Closed
  <2>2. response[u] = None
      BY <1>0, <2>1 DEF ResponsesTrue
  <2>3. QED
      BY <1>b, <2>1, <2>2
<1>9. ASSUME NEW u \in Tools, Handle(u) \/ Respond(u) PROVE Q(t)
  <2>1. tool[u] = "asked" /\ UNCHANGED <<tool, exit>>
      BY <1>9 DEF Handle, Respond, toolVars
  <2>2. CASE t = u
    <3>1. exit[t] = None
        BY <1>0, <2>1, <2>2 DEF ExitsFollow
    <3>2. QED
        BY <2>1, <3>1
  <2>3. CASE t # u
    <3>1. \/ UNCHANGED response /\ \E r : result' = [result EXCEPT ![u] = r]
          \/ UNCHANGED result /\ \E w : response' = [response EXCEPT ![u] = w]
        BY <1>9 DEF Handle, Respond, toolVars
    <3>2. result'[t] = result[t] /\ response'[t] = response[t]
        BY <1>0, <2>3, <3>1 DEF TypeOK
    <3>3. QED
        BY <1>a, <2>1, <3>2
  <2>4. QED
      BY <2>2, <2>3
<1>10. ASSUME NEW a \in Agents, Start(a) \/ Serve(a) PROVE Q(t)
    BY <1>10, <1>a DEF Start, Serve, toolVars
<1>11. ASSUME NEW a \in Agents, NEW crash \in BOOLEAN, Halt(a, crash) PROVE Q(t)
  <2>1. /\ UNCHANGED <<exit, result, response>>
        /\ tool'[t] = IF server[t] = a /\ tool[t] # "done" /\ response[t] = None
                      THEN "dropped" ELSE tool[t]
      BY <1>11 DEF Halt
  <2>2. QED
      BY <1>a, <2>1
<1>12. ASSUME NEW a \in Agents, Accept(a) \/ Take(a) \/ Refuse(a) PROVE Q(t)
  <2>1. /\ UNCHANGED <<exit, result, response>>
        /\ \/ tool' = tool
           \/ \E u \in Tools : /\ tool[u] \in {"queued", "taken"}
                               /\ \E x \in {"taken", "asked", "dropped"} :
                                    tool' = [tool EXCEPT ![u] = x]
      BY <1>0, <1>12, AgentMovesOn DEF Accept, Take, Refuse
  <2>2. tool[t] = "done" => tool'[t] = "done"
      BY <1>0, <2>1 DEF TypeOK
  <2>3. QED
      BY <1>a, <2>1, <2>2
<1>13. CASE UNCHANGED vars
    BY <1>13, <1>a DEF vars, toolVars
<1>14. QED
    BY <1>3, <1>4, <1>5, <1>6, <1>7, <1>8, <1>9, <1>10, <1>11, <1>12, <1>13 DEF Next

-----------------------------------------------------------------------------
(* The theorems.                                                            *)

\* The invariant holds throughout, whatever tools are run and however often the
\* agent starts, stops and crashes.
THEOREM Inductive == Spec => []IInv
<1>1. Init => IInv
    BY InitIInv
<1>2. IInv /\ [Next]_vars => IInv'
    BY NextTypeOK, NextRequestsChecked, NextResponsesTrue, NextExitsFollow,
       NextServerIsFound DEF IInv
<1>3. QED
    BY <1>1, <1>2, PTL DEF Spec

\* Every variable keeps its type.
THEOREM TypeCorrect == Spec => []TypeOK
<1>1. IInv => TypeOK
    BY DEF IInv
<1>2. QED
    BY <1>1, Inductive, PTL

\* An exit code says what became of the request: whatever of tool, connection and
\* agent ends first, none claims a decision that was not taken (client.rs, main.rs).
THEOREM ExitTrue == Spec => []ExitIsTrue
<1>1. IInv => ExitIsTrue
  <2>1. SUFFICES ASSUME IInv, NEW t \in Tools
                 PROVE  /\ exit[t] = 0 => result[t] = "Ok"
                        /\ wish[t].program = "confirm" =>
                             /\ exit[t] = 1 => result[t] = "UserDenied"
                             /\ exit[t] = 3 => result[t] = "NoDecision"
                             /\ exit[t] = 2 => response[t] \notin
                                  {to_wire("UserDenied"), to_wire("NoDecision")}
      BY DEF ExitIsTrue
  <2>2. TypeOK /\ ResponsesTrue /\ ExitsFollow
      BY <2>1 DEF IInv
  <2>8. to_wire("UserDenied") # None /\ to_wire("NoDecision") # None
      BY NoneAssumption DEF Errors
  <2>3. CASE exit[t] = None
      BY <2>3, NoneAssumption
  <2>4. CASE response[t] = None /\ exit[t] = ExitCode(t, "Unreachable")
      BY <2>8, <2>4 DEF ExitCode, Opens
  <2>5. CASE response[t] = None /\ wish[t].program \in Opens /\ exit[t] \in 1..4
      BY <2>5 DEF Opens
  <2>6. CASE response[t] # None /\ exit[t] = ExitCode(t, result[t])
    <3>1. result[t] \in Results(t) /\ response[t] = to_wire(result[t])
        BY <2>2, <2>6 DEF ResponsesTrue
    <3>2. result[t] \in Errors \union {"Ok"}
        BY <2>2, <3>1, ResultsAreKnown DEF TypeOK
    <3>3. \A e \in {"UserDenied", "NoDecision"} : response[t] = to_wire(e) => result[t] = e
      <4>1. SUFFICES ASSUME NEW e \in Errors \union {"Ok"}, response[t] = to_wire(e)
                     PROVE  result[t] = e
          BY DEF Errors
      <4>2. QED
          BY <3>1, <3>2, <4>1, WireIsFaithful
    <3>4. QED
        BY <2>6, <3>2, <3>3 DEF ExitCode, Opens, Errors
  <2>7. QED
      BY <2>2, <2>3, <2>4, <2>5, <2>6 DEF ExitsFollow
<1>2. QED
    BY <1>1, Inductive, PTL

\* No file a tool sends is refused by the agent for its length: what base64 adds
\* fits between the two limits (consts.rs:7-10).
THEOREM FilesFitCorrect == Spec => []FilesFit
<1>1. IInv => FilesFit
  <2>1. SUFFICES ASSUME IInv, NEW t \in Tools, request[t], wish[t].program \in Opens
                 PROVE  Length(t) <= MaxMessageSize
      BY DEF FilesFit
  <2>2. wish[t].size \in Nat /\ wish[t].size <= MaxFileSize
      BY <2>1 DEF IInv, TypeOK, RequestsChecked
  <2>3. QED
      BY <2>1, <2>2, EncodedFits DEF Length
<1>2. QED
    BY <1>1, Inductive, PTL

\* While no two runs of the agent overlap, the socket file leads to the run that
\* listens, whichever runs crashed before it (server.rs:37-52).
THEOREM ServerFound == Spec => []ServerIsFound
<1>1. IInv => ServerIsFound
    BY DEF IInv
<1>2. QED
    BY <1>1, Inductive, PTL
=============================================================================
