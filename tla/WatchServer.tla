----------------------------- MODULE WatchServer -----------------------------
(***************************************************************************)
(* The watch mode of tools/gen_filelists.py: processes that run the script *)
(* with a command, one of which becomes the server.  A process that runs   *)
(* "start" asks for the status first and becomes the server when nobody    *)
(* answers; the server accepts one connection at a time and answers it     *)
(* until the peer closes it.  "stop" only clears running: the server ends  *)
(* after the connection that said so is closed.                            *)
(***************************************************************************)
EXTENDS Naturals, Sequences, SequencesExt

CONSTANTS Procs,    \* processes that run the script in watch mode
          Command,  \* [Procs -> {"start", "stop", "status"}]
          Nobody    \* not a process: the port is free, no connection

ASSUME CommandAssumption ==
    /\ Command \in [Procs -> {"start", "stop", "status"}]
    /\ Nobody \notin Procs

VARIABLES
    pc,       \* where each process is
    port,     \* the process whose listening socket is bound to WATCH_PORT
    backlog,  \* connections that the server has not accepted yet
    conn,     \* the connection that is being served
    running,  \* the server's local variable
    reply     \* what each process receives: "" from a connection that was closed

serverVars == <<pc, port, backlog, conn, running, reply>>

Replies == {"none", "", "reset", "Server running", "Server stopped"}
Serving == {"accepting", "serving"}
Observing == {"starting", "closing"} \cup Serving

\* The processes whose observer delivers file system events.
Watchers == {c \in Procs : pc[c] \in Observing}

ServerInit ==
    /\ pc = [c \in Procs |-> "main"]
    /\ port = Nobody /\ backlog = <<>> /\ conn = Nobody
    /\ running = TRUE
    /\ reply = [c \in Procs |-> "none"]

(***************************************************************************)
(* The client.                                                             *)
(***************************************************************************)

\* What main sends: "start" asks for the status.
Request(c) == IF Command[c] = "stop" THEN "stop" ELSE "status"

\* main after watch_client returned nothing: start becomes the server, whose
\* observer runs before it binds the port; the others print 'Server not running'.
Unanswered(c) == IF Command[c] = "start" THEN "starting" ELSE "done"

\* watch_client connects and sends; ConnectionRefusedError is no answer.
Connect(c) ==
    /\ pc[c] = "main"
    /\ IF port = Nobody
       THEN pc' = [pc EXCEPT ![c] = Unanswered(c)] /\ UNCHANGED backlog
       ELSE pc' = [pc EXCEPT ![c] = "sent"] /\ backlog' = Append(backlog, c)
    /\ UNCHANGED <<port, conn, running, reply>>

\* watch_client receives, and leaves the with statement: its socket is closed.
Receive(c) ==
    /\ pc[c] = "sent" /\ reply[c] # "none"
    /\ pc' = [pc EXCEPT ![c] = CASE reply[c] = ""      -> Unanswered(c)
                                 [] reply[c] = "reset" -> "failed"
                                 [] OTHER              -> "done"]
    /\ UNCHANGED <<port, backlog, conn, running, reply>>

(***************************************************************************)
(* The server.                                                             *)
(***************************************************************************)

\* The port may have been taken since nobody answered: bind throws OSError.
Bind(c) ==
    /\ pc[c] = "starting"
    /\ IF port = Nobody
       THEN /\ pc' = [pc EXCEPT ![c] = "accepting"]
            /\ port' = c /\ running' = TRUE
       ELSE pc' = [pc EXCEPT ![c] = "failed"] /\ UNCHANGED <<port, running>>
    /\ UNCHANGED <<backlog, conn, reply>>

Accept(c) ==
    /\ pc[c] = "accepting" /\ backlog # <<>>
    /\ pc' = [pc EXCEPT ![c] = "serving"]
    /\ conn' = Head(backlog) /\ backlog' = Tail(backlog)
    /\ UNCHANGED <<port, running, reply>>

\* Mutant: the server stops without an answer.
ServeSilentStop(c) ==
    /\ pc[c] = "serving" /\ pc[conn] = "sent" /\ reply[conn] = "none"
    /\ running' = (running /\ Request(conn) # "stop")
    /\ reply' = IF Request(conn) = "stop" THEN reply
                ELSE [reply EXCEPT ![conn] = "Server running"]
    /\ UNCHANGED <<pc, port, backlog, conn>>

\* conn.recv returns a command and sendall answers it.
Serve(c) ==
    /\ pc[c] = "serving" /\ pc[conn] = "sent" /\ reply[conn] = "none"
    /\ running' = (running /\ Request(conn) # "stop")
    /\ reply' = [reply EXCEPT ![conn] =
                   IF Request(conn) = "stop" THEN "Server stopped" ELSE "Server running"]
    /\ UNCHANGED <<pc, port, backlog, conn>>

\* Leaving the loop closes the listening socket; connections in its backlog
\* are reset, which watch_client does not catch.
Closed(c, p) == [x \in Procs |-> IF x = c THEN "closing"
                                 ELSE IF x \in ToSet(backlog) THEN "failed" ELSE p[x]]

CloseSocket(c) ==
    /\ pc' = Closed(c, pc)
    /\ port' = Nobody /\ backlog' = <<>> /\ conn' = Nobody

\* conn.recv returns nothing: the peer has closed its socket.
EndConnection(c) ==
    /\ pc[c] = "serving" /\ pc[conn] # "sent"
    /\ IF running
       THEN /\ pc' = [pc EXCEPT ![c] = "accepting"]
            /\ conn' = Nobody /\ UNCHANGED <<port, backlog>>
       ELSE CloseSocket(c)
    /\ UNCHANGED <<running, reply>>

\* KeyboardInterrupt in accept or recv: the connection is closed unanswered,
\* which resets it when the server has not read what was sent.
Interrupt(c) ==
    /\ pc[c] \in Serving
    /\ running' = FALSE
    /\ IF pc[c] = "serving" /\ reply[conn] = "none"
       THEN \E r \in {"", "reset"} : reply' = [reply EXCEPT ![conn] = r]
       ELSE UNCHANGED reply
    /\ CloseSocket(c)

\* observer.stop and observer.join
StopObserver(c) ==
    /\ pc[c] = "closing"
    /\ pc' = [pc EXCEPT ![c] = "done"]
    /\ UNCHANGED <<port, backlog, conn, running, reply>>

ServerStep(c) == Bind(c) \/ Accept(c) \/ Serve(c) \/ EndConnection(c) \/ StopObserver(c)

\* The kernel runs the processes; nobody has to run another or press Ctrl-C.
ServerFairness == WF_serverVars(\E c \in Procs : ServerStep(c) \/ Receive(c))

(***************************************************************************)
(* Properties.                                                             *)
(***************************************************************************)

ServerTypeOK ==
    /\ pc \in [Procs -> {"main", "sent", "done", "failed"} \cup Observing]
    /\ port \in Procs \cup {Nobody} /\ conn \in Procs \cup {Nobody}
    /\ backlog \in Seq(Procs)
    /\ running \in BOOLEAN
    /\ reply \in [Procs -> Replies]

(* A command returns: although the server serves one connection at a time  *)
(* (watch_server's inner loop) and may be told to stop, or interrupted,    *)
(* while others wait in its backlog, in the end no process that was run    *)
(* waits for an answer.  And once "stop" has been answered, or Ctrl-C was  *)
(* pressed, the port becomes free again, whoever connects meanwhile:       *)
(* running is only read after a connection is closed.                      *)
CommandsReturn ==
    /\ <>[](\A c \in Procs : pc[c] # "sent")
    /\ ~running ~> port = Nobody
=============================================================================
