------------------------------ MODULE ChatClient ------------------------------
(***************************************************************************)
(* The client process (src/client): the main thread with the handshake and *)
(* the input loop, the receiver thread, the flag "running", the socket and *)
(* print_mutex they share, the user at the keyboard, and, seen from the    *)
(* client's end of the connection, the server.  One action is one blocking *)
(* call (recv_line, send, fgets, lock, join) and the code up to the next.  *)
(*                                                                         *)
(* A definition Name_What is Name with a plausible mistake, and no         *)
(* behaviour uses it.                                                      *)
(***************************************************************************)
EXTENDS Integers, Sequences

CONSTANTS
  User,        \* the name given on the command line
  Typed,       \* what the user may type: sequences of words, <<>> for Enter
  Events,      \* lines the server sends on behalf of other users
  MaxTyped,    \* bound: lines the user types
  MaxEvents    \* bound: such lines

ASSUME TypedAssumption == Typed \subseteq Seq(STRING)
ASSUME EventsAssumption ==
  \A m \in Events : /\ m \in Seq(STRING) /\ m # <<>>
                    /\ m[1] \in {"DELIVER", "BROADCAST_FROM", "STATUS_CHANGED"}
ASSUME BoundsAssumption == MaxTyped \in Nat /\ MaxEvents \in Nat

VARIABLES
  \* the connection
  sent,      \* every line the client has put on the wire
  served,    \* how many of them the server has answered
  inbox,     \* lines of the server that recv_line has not returned yet
  server,    \* "down" before connect(), "up", "closed" (its end is)
  reset,     \* the connection was reset: send() fails, unread lines are lost
  events,    \* how many lines of Events the server has sent
  registered,\* the server has answered REGISTER_OK
  \* ClientState
  sockfd,    \* "none", "open", "closed"
  running,
  mutex,     \* who holds print_mutex: "free", "main", "receiver"
  my_status, \* the status to show
  \* the main thread: its place, the line fgets returned, lines typed so far
  mpc, line, typed,
  \* the receiver thread: its place, the line recv_line returned
  rpc, got

connection == <<sent, served, inbox, server, reset, events, registered>>
state      == <<sockfd, running, mutex, my_status>>
mainv      == <<mpc, line, typed>>
receiver   == <<rpc, got>>
vars       == <<connection, state, mainv, receiver>>

-------------------------------------------------------------------------------
(* Lines.                                                                      *)

Statuses == {"ACTIVO", "OCUPADO", "INACTIVO"}

\* toupper, on the words a user may give as a status.
Upper(w) == CASE w \in {"activo", "Activo"}     -> "ACTIVO"
              [] w \in {"ocupado", "Ocupado"}   -> "OCUPADO"
              [] w \in {"inactivo", "Inactivo"} -> "INACTIVO"
              [] OTHER                          -> w

NoLine == <<>>

Arg(t, i) == IF i <= Len(t) THEN t[i] ELSE ""

\* The rest of a line from its i-th word on; Phrase stands for several words.
Phrase == "several words"

Rest(t, i) == IF i < Len(t) THEN Phrase ELSE Arg(t, i)

\* What a typed line makes the client send: parse_command, the tests of
\* handle_command, and command_to_proto.  NoLine where it only prints.
ToProto_AnyStatus(t) ==
  CASE Arg(t, 1) = "/status" -> <<"STATUS", Upper(Rest(t, 2))>>
    [] Arg(t, 1) = "/list"   -> <<"LIST">>
    [] Arg(t, 1) = "/quit"   -> <<"QUIT">>
    [] OTHER                 -> NoLine

ToProto(t) ==
  CASE Arg(t, 1) = "/list" -> <<"LIST">>
    [] Arg(t, 1) = "/quit" -> <<"QUIT">>
    [] Arg(t, 1) = "/info" /\ Rest(t, 2) # "" -> <<"INFO", Rest(t, 2)>>
    [] Arg(t, 1) = "/status" /\ Upper(Rest(t, 2)) \in Statuses ->
         <<"STATUS", Upper(Rest(t, 2))>>
    [] Arg(t, 1) = "/msg" /\ Arg(t, 2) # "" /\ Rest(t, 3) # "" ->
         <<"MSG", Arg(t, 2), Rest(t, 3)>>
    [] Arg(t, 1) = "/all" /\ Rest(t, 2) # "" -> <<"BROADCAST", Rest(t, 2)>>
    [] OTHER -> NoLine

\* What the server may answer.
AnswersTo(l) ==
  CASE l[1] = "REGISTER" -> {<<"REGISTER_OK", "ACTIVO">>,
                             <<"ERROR", "REGISTER">>}
    [] l[1] = "QUIT"     -> {<<"BYE">>}
    [] l[1] = "LIST"     -> {<<"LIST_OK">>}
    [] l[1] = "STATUS"   -> {IF l[2] \in Statuses THEN <<"STATUS_OK", l[2]>>
                                                  ELSE <<"ERROR", "STATUS">>}
    [] l[1] = "BROADCAST" -> {<<"BROADCAST_OK">>}
    [] l[1] = "MSG"      -> {<<"MSG_OK", l[2]>>, <<"ERROR", "MSG">>}
    [] l[1] = "INFO"     -> {<<"INFO_OK", l[2]>>, <<"ERROR", "INFO">>}

-------------------------------------------------------------------------------
Init ==
  /\ sent = <<>> /\ served = 0 /\ inbox = <<>>
  /\ server = "down" /\ reset = FALSE /\ events = 0
  /\ registered = FALSE
  /\ sockfd = "none" /\ running = TRUE /\ mutex = "free" /\ my_status = "ACTIVO"
  /\ mpc = "connect" /\ line = NoLine /\ typed = 0
  /\ rpc = "none" /\ got = NoLine

-------------------------------------------------------------------------------
(* The server, and the network behind send() and recv().                       *)

\* The answer to the oldest line that has none yet; after QUIT, nothing.
Answer ==
  /\ server = "up" /\ served < Len(sent)
  /\ served > 0 => sent[served] # <<"QUIT">>
  /\ served' = served + 1
  /\ \E m \in AnswersTo(sent[served + 1]) :
       /\ inbox' = Append(inbox, m)
       /\ registered' = (registered \/ m[1] = "REGISTER_OK")
  /\ UNCHANGED <<sent, server, reset, events, state, mainv, receiver>>

Event ==
  /\ server = "up" /\ events < MaxEvents
  /\ events' = events + 1
  /\ \E m \in Events : inbox' = Append(inbox, m)
  /\ UNCHANGED <<sent, served, server, reset, registered, state, mainv, receiver>>

\* close() with lines of the client unread resets the connection.
CloseConnection ==
  /\ server' = "closed"
  /\ reset' = (served < Len(sent))
  /\ UNCHANGED <<sent, served, inbox, events, registered, state, mainv,
                 receiver>>

\* The server closes after BYE ...
CloseAfterBye ==
  /\ server = "up" /\ served > 0 /\ sent[served] = <<"QUIT">>
  /\ CloseConnection

\* ... when the client has closed its end ...
CloseAfterClient ==
  /\ server = "up" /\ sockfd = "closed"
  /\ CloseConnection

\* ... or when it stops, or gives the client up after a failed send.
ServerStops ==
  /\ server = "up"
  /\ CloseConnection

\* The network or the server's host fails: whatever was on its way is lost.
ConnectionLost ==
  /\ server # "down"
  /\ server' = "closed" /\ reset' = TRUE
  /\ UNCHANGED <<sent, served, inbox, events, registered, state, mainv,
                 receiver>>

\* send(): the first line to a closed end is lost and provokes a reset.
SendOK == ~reset

Send(l) ==
  /\ sent' = IF server = "up" THEN Append(sent, l) ELSE sent
  /\ reset' \in IF server = "up" THEN {reset} ELSE {reset, TRUE}

-------------------------------------------------------------------------------
(* The main thread up to the input loop.                                       *)

\* connect(); the server's thread begins with WELCOME, a full server closes.
Connect ==
  /\ mpc = "connect"
  /\ \/ server' = "up" /\ inbox' = <<<<"WELCOME", "CHAT/1.0">>>>
     \/ server' = "closed" /\ UNCHANGED inbox
  /\ sockfd' = "open" /\ mpc' = "welcome"
  /\ UNCHANGED <<sent, served, reset, events, registered, running, mutex,
                 my_status, line, typed, receiver>>

ConnectFails ==
  /\ mpc = "connect"
  /\ sockfd' = "closed" /\ mpc' = "exit"
  /\ UNCHANGED <<connection, running, mutex, my_status, line, typed, receiver>>

Welcome ==
  /\ mpc = "welcome" /\ inbox # <<>>
  /\ inbox' = Tail(inbox)
  /\ mpc' = IF Head(inbox)[1] = "WELCOME" THEN "register" ELSE "fail"
  /\ UNCHANGED <<sent, served, server, reset, events, registered, state, line,
                 typed, receiver>>

\* recv_line returns 0 or less during the handshake.
HandshakeEnd ==
  /\ mpc \in {"welcome", "answer"}
  /\ reset \/ (server = "closed" /\ inbox = <<>>)
  /\ mpc' = "fail"
  /\ UNCHANGED <<connection, state, line, typed, receiver>>

Register ==
  /\ mpc = "register" /\ SendOK
  /\ Send(<<"REGISTER", User>>)
  /\ mpc' = "answer"
  /\ UNCHANGED <<served, inbox, server, events, registered, state, line, typed, receiver>>

\* This send() lacks MSG_NOSIGNAL: it may fail, or end the process by SIGPIPE.
RegisterFails ==
  /\ mpc = "register" /\ ~SendOK
  /\ \/ mpc' = "fail" /\ UNCHANGED sockfd
     \/ mpc' = "exit" /\ sockfd' = "closed"
  /\ UNCHANGED <<connection, running, mutex, my_status, line, typed, receiver>>

\* The next line must be the answer; any other ends the handshake.
AcceptedBy_NoError(m) == m[1] # "ERROR"

AcceptedBy(m) == m[1] = "REGISTER_OK"

RegisterAnswer ==
  /\ mpc = "answer" /\ inbox # <<>>
  /\ inbox' = Tail(inbox)
  /\ IF AcceptedBy(Head(inbox))
     THEN mpc' = "spawn" /\ my_status' = Head(inbox)[2]
     ELSE mpc' = "fail"  /\ UNCHANGED my_status
  /\ UNCHANGED <<sent, served, server, reset, events, registered, sockfd,
                 running, mutex, line, typed, receiver>>

Fail ==
  /\ mpc = "fail"
  /\ sockfd' = "closed" /\ mpc' = "exit"
  /\ UNCHANGED <<connection, running, mutex, my_status, line, typed, receiver>>

\* client_run; ui_print_welcome prints without print_mutex.
Spawn ==
  /\ mpc = "spawn"
  /\ rpc' = "test" /\ mpc' = "prompt"
  /\ UNCHANGED <<connection, state, line, typed, got>>

SpawnFails ==
  /\ mpc = "spawn"
  /\ mpc' = "disconnect"
  /\ UNCHANGED <<connection, state, line, typed, receiver>>

-------------------------------------------------------------------------------
(* The input loop.                                                             *)

\* Print under print_mutex, then test "while (state->running)".
LockMain ==
  /\ mpc = "prompt" /\ mutex = "free"
  /\ mutex' = "main" /\ mpc' = "print"
  /\ UNCHANGED <<connection, sockfd, running, my_status, line, typed, receiver>>

UnlockMain ==
  /\ mpc = "print"
  /\ mutex' = "free"
  /\ mpc' = IF running THEN "fgets" ELSE "join"
  /\ UNCHANGED <<connection, sockfd, running, my_status, line, typed, receiver>>

\* fgets returns a line; nothing obliges the user to type one.
Fgets ==
  /\ mpc = "fgets" /\ typed < MaxTyped
  /\ typed' = typed + 1
  /\ \E t \in Typed : line' = t
  /\ mpc' = "command"
  /\ UNCHANGED <<connection, state, receiver>>

\* EOF on stdin: like /quit, but the flag falls first.
FgetsEof ==
  /\ mpc = "fgets"
  /\ running' = FALSE /\ mpc' = "quit"
  /\ UNCHANGED <<connection, sockfd, mutex, my_status, line, typed, receiver>>

\* The second test of running, and what needs no connection.
Command ==
  /\ mpc = "command"
  /\ mpc' = IF ~running THEN "join"
            ELSE IF ToProto(line) = NoLine THEN "prompt"
            ELSE IF ToProto(line) = <<"QUIT">> THEN "quit" ELSE "send"
  /\ UNCHANGED <<connection, state, line, typed, receiver>>

\* send_proto; an error ends the loop, with running as it is.  The error is
\* printed under print_mutex, which this step waits for.
SendCommand ==
  /\ mpc = "send" /\ SendOK
  /\ Send(ToProto(line))
  /\ mpc' = IF running THEN "fgets" ELSE "join"
  /\ UNCHANGED <<served, inbox, server, events, registered, state, line, typed, receiver>>

SendCommandFails ==
  /\ mpc = "send" /\ ~SendOK /\ mutex = "free"
  /\ mpc' = "join"
  /\ UNCHANGED <<connection, state, line, typed, receiver>>

\* /quit or EOF: the result of send_proto is ignored.
SendQuit_Not ==
  /\ mpc = "quit"
  /\ mpc' = "stop"
  /\ UNCHANGED <<connection, state, line, typed, receiver>>

SendQuit ==
  /\ mpc = "quit"
  /\ IF SendOK THEN Send(<<"QUIT">>) ELSE mutex = "free" /\ UNCHANGED <<sent, reset>>
  /\ mpc' = "stop"
  /\ UNCHANGED <<served, inbox, server, events, registered, state, line, typed,
                 receiver>>

\* After EOF the flag has fallen already.
Stop ==
  /\ mpc = "stop"
  /\ running' = FALSE /\ mpc' = "join"
  /\ UNCHANGED <<connection, sockfd, mutex, my_status, line, typed, receiver>>

\* pthread_join
Join_NoWait ==
  /\ mpc = "join"
  /\ mpc' = "disconnect"
  /\ UNCHANGED <<connection, state, line, typed, receiver>>

Join ==
  /\ mpc = "join" /\ rpc = "done"
  /\ mpc' = "disconnect"
  /\ UNCHANGED <<connection, state, line, typed, receiver>>

\* client_disconnect sends QUIT, once more after /quit, and closes.
Disconnect ==
  /\ mpc = "disconnect"
  /\ IF SendOK THEN Send(<<"QUIT">>) ELSE UNCHANGED <<sent, reset>>
  /\ sockfd' = "closed" /\ mpc' = "exit"
  /\ UNCHANGED <<served, inbox, server, events, registered, running, mutex,
                 my_status, line, typed, receiver>>

Main ==
  \/ Connect \/ ConnectFails \/ Welcome \/ HandshakeEnd
  \/ Register \/ RegisterFails \/ RegisterAnswer \/ Fail \/ Spawn \/ SpawnFails
  \/ LockMain \/ UnlockMain \/ Command \/ SendCommand \/ SendCommandFails
  \/ SendQuit \/ Stop \/ Join \/ Disconnect

-------------------------------------------------------------------------------
(* The receiver thread.                                                        *)

Test ==
  /\ rpc = "test"
  /\ rpc' = IF running THEN "recv" ELSE "end"
  /\ UNCHANGED <<connection, state, mainv, got>>

Recv ==
  /\ rpc = "recv" /\ inbox # <<>>
  /\ got' = Head(inbox) /\ inbox' = Tail(inbox)
  /\ rpc' = "lock"
  /\ UNCHANGED <<sent, served, server, reset, events, registered, state, mainv>>

\* EOF or error: printed only if the client is still running.
RecvEnd ==
  /\ rpc = "recv"
  /\ reset \/ (server = "closed" /\ inbox = <<>>)
  /\ got' = NoLine
  /\ rpc' = IF running THEN "lock" ELSE "end"
  /\ UNCHANGED <<connection, state, mainv>>

\* dispatch_message prints every kind of line under print_mutex, and
\* ui_print_status_ok keeps the status.
LockReceiver ==
  /\ rpc = "lock" /\ mutex = "free"
  /\ mutex' = "receiver" /\ rpc' = "print"
  /\ my_status' = IF Arg(got, 1) = "STATUS_OK" THEN got[2] ELSE my_status
  /\ UNCHANGED <<connection, sockfd, running, mainv, got>>

UnlockReceiver_NotOnError ==
  /\ rpc = "print"
  /\ mutex' = IF got = NoLine THEN mutex ELSE "free"
  /\ rpc' = IF got \in {NoLine, <<"BYE">>} THEN "end" ELSE "test"
  /\ UNCHANGED <<connection, sockfd, running, my_status, mainv, got>>

UnlockReceiver ==
  /\ rpc = "print"
  /\ mutex' = "free"
  /\ rpc' = IF got \in {NoLine, <<"BYE">>} THEN "end" ELSE "test"
  /\ UNCHANGED <<connection, sockfd, running, my_status, mainv, got>>

End ==
  /\ rpc = "end"
  /\ running' = FALSE /\ rpc' = "done"
  /\ UNCHANGED <<connection, sockfd, mutex, my_status, mainv, got>>

Receiver == Test \/ Recv \/ RecvEnd \/ LockReceiver \/ UnlockReceiver \/ End

-------------------------------------------------------------------------------
Next ==
  \/ mpc # "exit" /\ (Main \/ Fgets \/ FgetsEof \/ Receiver)
  \/ Answer \/ Event \/ CloseAfterBye \/ CloseAfterClient \/ ServerStops
  \/ ConnectionLost

Spec == Init /\ [][Next]_vars

(***************************************************************************)
(* Both threads run.  The server answers and closes after BYE: that is     *)
(* what ChatServer shows of it.  Nothing obliges the user to type, the     *)
(* server to stop or other users to talk.                                  *)
(***************************************************************************)
Fairness ==
  /\ WF_vars(Main) /\ WF_vars(mpc # "exit" /\ Receiver)
  /\ WF_vars(Answer) /\ WF_vars(CloseAfterBye) /\ WF_vars(CloseAfterClient)

FairSpec == Spec /\ Fairness

===============================================================================
