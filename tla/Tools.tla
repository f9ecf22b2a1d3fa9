-------------------------------- MODULE Tools --------------------------------
(***************************************************************************)
(* The local tools and the agent's Unix socket (client.rs, server.rs).  A  *)
(* tool connects, writes one request, reads one answer and ends with an    *)
(* exit code.  The agent takes its connections in turn and reads the       *)
(* request of each before it takes the next; a task of its own handles the *)
(* request and answers.  Answers travel as wire responses (protocol.rs).   *)
(* What the handling does is in Hub, Dispatch and Notify.                  *)
(***************************************************************************)
EXTENDS Integers, Sequences, FiniteSets

CONSTANTS Tools,     \* one run of a tool each
          Wishes,    \* what each may be: a program and the bytes it has to send
          Envelope,  \* bytes of a message apart from those, at most
          Agents,    \* runs of the agent
          None

\* Faulty MaxFileSize: what base64 adds is forgotten.
MaxFileSizeUnencoded == 8 * 1024 * 1024

MaxFileSize == 5 * 1024 * 1024
MaxMessageSize == 8 * 1024 * 1024

Programs == {"confirm", "open", "xdg-open", "notify"}
Opens == {"open", "xdg-open"}

ASSUME ToolsAssumption == Wishes \in [Tools -> SUBSET [program : Programs, size : Nat]]
ASSUME EnvelopeAssumption == Envelope \in Nat /\ Envelope <= 1024 * 1024

VARIABLES agent,      \* per run of the agent, how far it is
          path,       \* the run whose listener the socket file is
          backlog,    \* per run, the tools that are connected and not taken
          reading,    \* per run, the tool whose request it is reading
          tool,       \* per tool, how far it is
          server,     \* per tool, the run it is connected to
          wish,       \* per tool, its program, and the bytes of its file or text
          request,    \* per tool, its request is written
          response,   \* per tool, the wire response under way to it
          exit,       \* per tool, its exit code
          result,     \* history: how its request ended in the agent
          overlapped  \* history: two runs of the agent have overlapped

agentVars == <<agent, path, backlog, reading>>
toolVars == <<tool, server, wish, request, response, exit>>
vars == <<agentVars, toolVars, result, overlapped>>

Init ==
  /\ agent = [a \in Agents |-> "new"] /\ path = None
  /\ backlog = [a \in Agents |-> <<>>] /\ reading = [a \in Agents |-> None]
  /\ tool = [t \in Tools |-> "new"] /\ server = [t \in Tools |-> None]
  /\ wish \in [Tools -> UNION {Wishes[t] : t \in Tools}]
  /\ \A t \in Tools : wish[t] \in Wishes[t]
  /\ request = [t \in Tools |-> FALSE] /\ response = [t \in Tools |-> None]
  /\ exit = [t \in Tools |-> None] /\ result = [t \in Tools |-> None]
  /\ overlapped = FALSE

-----------------------------------------------------------------------------
(* Answers on the wire.                                                     *)

Errors == {"UserDenied", "NoDecision", "NotSupported", "FileTooLarge", "NoClient", "NotFound"}

wire_id == [UserDenied |-> "io.subportal.UserDenied",
            NoDecision |-> "io.subportal.NoDecision",
            NotSupported |-> "io.subportal.NotSupported",
            FileTooLarge |-> "io.subportal.FileTooLarge",
            NoClient |-> "io.subportal.NoClient",
            NotFound |-> "io.subportal.NotFound"]

\* to_wire, of a result: "Ok" or an error.
to_wire(r) == [error |-> IF r \in Errors THEN wire_id[r] ELSE None]

ASSUME NoneAssumption ==
  /\ None \notin Agents /\ None \notin Tools
  /\ None \notin Errors \union {"Ok"} \union {wire_id[e] : e \in Errors}
  /\ None \notin 0..4
  /\ \A r \in Errors \union {"Ok"} : to_wire(r) # None

from_wire(id) == IF \E e \in Errors : wire_id[e] = id
                 THEN CHOOSE e \in Errors : wire_id[e] = id ELSE None

\* Faulty Understood: an abstention is not known to the tool.
UnderstoodOld(w) ==
  IF w.error = None THEN "Ok"
  ELSE IF from_wire(w.error) \in {None, "NoDecision"} THEN "NotSupported"
  ELSE from_wire(w.error)

\* Client::call: an unknown error is an error.
Understood(w) == IF w.error = None THEN "Ok"
                 ELSE IF from_wire(w.error) = None THEN "NotSupported"
                 ELSE from_wire(w.error)

\* How the handling of a request may end.
Results(t) ==
  CASE wish[t].program = "confirm" -> {"Ok", "UserDenied", "NoDecision", "NotSupported", "NoClient"}
    [] wish[t].program \in Opens -> {"Ok", "UserDenied", "FileTooLarge", "NotSupported", "NoClient"}
    [] wish[t].program = "notify" -> {"Ok", "NoClient"}

\* The exit codes; "Unreachable" stands for DaemonUnreachable.
ExitCode(t, r) ==
  CASE r = "Ok" -> 0
    [] wish[t].program = "confirm" -> IF r = "UserDenied" THEN 1
                                 ELSE IF r = "NoDecision" THEN 3 ELSE 2
    [] wish[t].program = "xdg-open" -> IF r \in {"Unreachable", "NoClient"} THEN 3 ELSE 4
    [] OTHER -> 1

-----------------------------------------------------------------------------
(* A tool.                                                                  *)

End(t, code) ==
  /\ tool' = [tool EXCEPT ![t] = "done"]
  /\ exit' = [exit EXCEPT ![t] = code]

\* The file cannot be read, or is too large to send.
GiveUp(t) ==
  /\ tool[t] = "new"
  /\ wish[t].program \in Opens
  /\ \/ End(t, IF wish[t].program = "open" THEN 1 ELSE 2)
     \/ wish[t].size > MaxFileSize /\ End(t, IF wish[t].program = "open" THEN 1 ELSE 4)
  /\ UNCHANGED <<agentVars, server, wish, request, response, result, overlapped>>

Listening(a) == a # None /\ agent[a] \in {"bound", "serving"}

\* Faulty Dial: what is at the path is taken for a listener.
DialStale(t) ==
  /\ tool[t] = "new"
  /\ wish[t].program \in Opens => wish[t].size <= MaxFileSize
  /\ path # None
  /\ tool' = [tool EXCEPT ![t] = "queued"] /\ server' = [server EXCEPT ![t] = path]
  /\ backlog' = [backlog EXCEPT ![path] = Append(@, t)]
  /\ UNCHANGED <<agent, path, reading, wish, request, response, exit, result, overlapped>>

Dial(t) ==
  /\ tool[t] = "new"
  /\ wish[t].program \in Opens => wish[t].size <= MaxFileSize
  /\ IF Listening(path)
     THEN /\ tool' = [tool EXCEPT ![t] = "queued"] /\ server' = [server EXCEPT ![t] = path]
          /\ backlog' = [backlog EXCEPT ![path] = Append(@, t)]
          /\ UNCHANGED exit
     ELSE End(t, ExitCode(t, "Unreachable")) /\ UNCHANGED <<server, backlog>>
  /\ UNCHANGED <<agent, path, reading, wish, request, response, result, overlapped>>

Send(t) ==
  /\ tool[t] \in {"queued", "taken"}
  /\ ~request[t]
  /\ request' = [request EXCEPT ![t] = TRUE]
  /\ UNCHANGED <<agentVars, tool, server, wish, response, exit, result, overlapped>>

\* The user interrupts the tool, at any time after it has connected.
Interrupt(t) ==
  /\ tool[t] \in {"queued", "taken", "asked", "dropped"}
  /\ End(t, None)
  /\ UNCHANGED <<agentVars, server, wish, request, response, result, overlapped>>

ReadResponse(t) ==
  /\ tool[t] = "asked"
  /\ response[t] # None
  /\ End(t, ExitCode(t, Understood(response[t])))
  /\ UNCHANGED <<agentVars, server, wish, request, response, result, overlapped>>

\* The connection was closed without an answer.
Closed(t) ==
  /\ tool[t] = "dropped"
  /\ End(t, ExitCode(t, "Unreachable"))
  /\ UNCHANGED <<agentVars, server, wish, request, response, result, overlapped>>

-----------------------------------------------------------------------------
(* The agent's listener.                                                    *)

\* Faulty Start: what is at the path is removed after the new socket is there.
StartTidyLate(a) ==
  /\ agent[a] = "new"
  /\ agent' = [agent EXCEPT ![a] = "bound"]
  /\ path' = IF path = None THEN a ELSE None
  /\ overlapped' = (overlapped \/ \E b \in Agents : agent[b] \in {"bound", "serving"})
  /\ UNCHANGED <<backlog, reading, toolVars, result>>

\* bind removes what is at the path, stale or not.
Start(a) ==
  /\ agent[a] = "new"
  /\ agent' = [agent EXCEPT ![a] = "bound"]
  /\ path' = a
  /\ overlapped' = (overlapped \/ \E b \in Agents : agent[b] \in {"bound", "serving"})
  /\ UNCHANGED <<backlog, reading, toolVars, result>>

Serve(a) ==
  /\ agent[a] = "bound"
  /\ agent' = [agent EXCEPT ![a] = "serving"]
  /\ UNCHANGED <<path, backlog, reading, toolVars, result, overlapped>>

\* The run ends: every connection is closed, an answer that was written is still
\* read.  Unless it crashes it removes what is at the path.
Halt(a, crash) ==
  /\ agent[a] \in {"bound", "serving"}
  /\ agent' = [agent EXCEPT ![a] = "ended"]
  /\ path' = IF crash THEN path ELSE None
  /\ tool' = [t \in Tools |->
       IF server[t] = a /\ tool[t] # "done" /\ response[t] = None
       THEN "dropped" ELSE tool[t]]
  /\ backlog' = [backlog EXCEPT ![a] = <<>>]
  /\ reading' = [reading EXCEPT ![a] = None]
  /\ UNCHANGED <<server, wish, request, response, exit, result, overlapped>>

Accept(a) ==
  /\ agent[a] = "serving"
  /\ reading[a] = None
  /\ backlog[a] # <<>>
  /\ LET t == Head(backlog[a])
     IN  /\ reading' = [reading EXCEPT ![a] = t]
         /\ tool' = IF tool[t] = "queued" THEN [tool EXCEPT ![t] = "taken"] ELSE tool
  /\ backlog' = [backlog EXCEPT ![a] = Tail(@)]
  /\ UNCHANGED <<agent, path, server, wish, request, response, exit, result, overlapped>>

\* The length of a request: the file in base64 or the text, and the rest.
Length(t) == Envelope + (IF wish[t].program \in Opens THEN 4 * ((wish[t].size + 2) \div 3)
                         ELSE wish[t].size)

\* The request is complete: its task starts.
Take(a) ==
  /\ reading[a] # None
  /\ request[reading[a]] /\ Length(reading[a]) <= MaxMessageSize
  /\ tool' = IF tool[reading[a]] = "taken" THEN [tool EXCEPT ![reading[a]] = "asked"]
             ELSE tool
  /\ reading' = [reading EXCEPT ![a] = None]
  /\ UNCHANGED <<agent, path, backlog, server, wish, request, response, exit, result, overlapped>>

\* Faulty Refuse: the accept loop stops with the connection.
RefuseForGood(a) ==
  /\ reading[a] # None
  /\ \/ tool[reading[a]] = "done" /\ ~request[reading[a]]
     \/ request[reading[a]] /\ Length(reading[a]) > MaxMessageSize
  /\ tool' = IF tool[reading[a]] = "taken" THEN [tool EXCEPT ![reading[a]] = "dropped"]
             ELSE tool
  /\ UNCHANGED <<agentVars, server, wish, request, response, exit, result, overlapped>>

\* The tool is gone before its request was complete, or it is too long: the
\* connection is dropped.
Refuse(a) ==
  /\ reading[a] # None
  /\ \/ tool[reading[a]] = "done" /\ ~request[reading[a]]
     \/ request[reading[a]] /\ Length(reading[a]) > MaxMessageSize
  /\ tool' = IF tool[reading[a]] = "taken" THEN [tool EXCEPT ![reading[a]] = "dropped"]
             ELSE tool
  /\ reading' = [reading EXCEPT ![a] = None]
  /\ UNCHANGED <<agent, path, backlog, server, wish, request, response, exit, result, overlapped>>

\* handle_unix_request ends.
Handle(t) ==
  /\ tool[t] = "asked"
  /\ result[t] = None
  /\ \E r \in Results(t) : result' = [result EXCEPT ![t] = r]
  /\ UNCHANGED <<agentVars, toolVars, overlapped>>

\* The responder writes how it ended.
Respond(t) ==
  /\ tool[t] = "asked"
  /\ result[t] # None /\ response[t] = None
  /\ response' = [response EXCEPT ![t] = to_wire(result[t])]
  /\ UNCHANGED <<agentVars, tool, server, wish, request, exit, result, overlapped>>

-----------------------------------------------------------------------------
ToolStep(t) == GiveUp(t) \/ Dial(t) \/ Send(t) \/ ReadResponse(t) \/ Closed(t)

Next ==
  \/ \E t \in Tools :
       \/ GiveUp(t)
       \/ Dial(t)
       \/ Send(t)
       \/ Interrupt(t)
       \/ ReadResponse(t)
       \/ Closed(t)
       \/ Handle(t)
       \/ Respond(t)
  \/ \E a \in Agents :
       \/ Start(a)
       \/ Serve(a)
       \/ \E crash \in BOOLEAN : Halt(a, crash)
       \/ Accept(a)
       \/ Take(a)
       \/ Refuse(a)

Spec == Init /\ [][Next]_vars

\* A tool that is connected writes its request (Client::call does so at once).  A
\* confirmation ends by its timers and a notification waits for nobody (Dispatch,
\* Confirm and Notify show that of theirs); an open waits for the user's dialog, and
\* nothing makes the user answer it.
Fairness ==
  /\ \A t \in Tools :
       /\ WF_vars(tool[t] # "new" /\ ToolStep(t))
       /\ WF_vars(wish[t].program \notin Opens /\ Handle(t))
       /\ WF_vars(Respond(t))
  /\ \A a \in Agents :
       /\ WF_vars(Serve(a)) /\ WF_vars(Accept(a))
       /\ WF_vars(Take(a)) /\ WF_vars(Refuse(a))

FairSpec == Spec /\ Fairness

-----------------------------------------------------------------------------
TypeOK ==
  /\ agent \in [Agents -> {"new", "bound", "serving", "ended"}]
  /\ path \in Agents \union {None}
  /\ backlog \in [Agents -> Seq(Tools)] /\ reading \in [Agents -> Tools \union {None}]
  /\ \A a \in Agents : ~Listening(a) => backlog[a] = <<>> /\ reading[a] = None
  /\ tool \in [Tools -> {"new", "queued", "taken", "asked", "dropped", "done"}]
  /\ server \in [Tools -> Agents \union {None}]
  /\ wish \in [Tools -> [program : Programs, size : Nat]]
  /\ request \in [Tools -> BOOLEAN]
  /\ response \in [Tools -> {to_wire(r) : r \in Errors \union {"Ok"}} \union {None}]
  /\ exit \in [Tools -> 0..4 \union {None}]
  /\ result \in [Tools -> Errors \union {"Ok", None}]
  /\ overlapped \in BOOLEAN

\* Whatever ends first, tool, connection or agent, the exit code is true: success
\* only where the request succeeded, a denial only where a user denied, and no
\* answer only where nobody answered; an error where neither of these two was
\* written to the tool (main.rs:55-56, :265-275).
ExitIsTrue ==
  \A t \in Tools :
    /\ exit[t] = 0 => result[t] = "Ok"
    /\ wish[t].program = "confirm" =>
         /\ exit[t] = 1 => result[t] = "UserDenied"
         /\ exit[t] = 3 => result[t] = "NoDecision"
         /\ exit[t] = 2 => response[t] \notin {to_wire("UserDenied"), to_wire("NoDecision")}

\* A file the tool has accepted is not refused on the way for its length: five
\* megabytes fit, encoded, in a message (consts.rs:7-10).
FilesFit ==
  \A t \in Tools : request[t] /\ wish[t].program \in Opens => Length(t) <= MaxMessageSize

\* Unless two runs of the agent have overlapped, the one that serves is the one
\* the tools find, whatever an earlier one left at the path.
ServerIsFound == ~overlapped => \A a \in Agents : Listening(a) => path = a

\* A tool that got its connection is heard, or dropped, whatever those before it do:
\* hang up, send too much or wait for a user who never answers; and it ends, unless
\* it waits for such a user itself (agent.rs:245-271).
ToolsEnd ==
  \A t \in Tools :
    /\ tool[t] = "queued" ~> tool[t] \in {"asked", "dropped", "done"}
    /\ (tool[t] = "queued" /\ wish[t].program \notin Opens) ~> tool[t] = "done"
=============================================================================
