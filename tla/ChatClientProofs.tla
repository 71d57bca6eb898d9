--------------------------- MODULE ChatClientProofs ---------------------------
(***************************************************************************)
(* For everything a user may type and every line others may cause, in any  *)
(* number: the socket outlives the receiver thread, nobody chats whom the  *)
(* server has not registered, every variable keeps its type, and the       *)
(* status shown is in the end the one the user asked for.                  *)
(***************************************************************************)
EXTENDS ChatClientProperties, TLAPS

-----------------------------------------------------------------------------
(* Where the main thread can be, and what that says of the other two.      *)

\* Before pthread_create there is no receiver; from there to the join it may
\* run, and its socket stays open; after the join it has ended.
Handshake == {"connect", "welcome", "register", "answer", "fail", "spawn"}

Loop == {"prompt", "print", "fgets", "command", "send", "quit", "stop", "join"}

Places ==
  /\ mpc \in Handshake \cup Loop \cup {"disconnect", "exit"}
  /\ mpc \in Handshake => rpc = "none"
  /\ mpc \in {"disconnect", "exit"} => rpc \in {"none", "done"}
  /\ mpc \in (Handshake \cup Loop) \ {"connect"} => sockfd = "open"
  /\ rpc \in {"none", "test", "recv", "lock", "print", "end", "done"}

\* Initially there is no socket and no receiver.
LEMMA PlacesInit == Init => Places
BY DEF Init, Places, Handshake, Loop

\* No step of the client's threads, its user, the server or the network breaks it.
LEMMA PlacesStep == Places /\ [Next]_vars => Places'
<1> SUFFICES ASSUME Places, [Next]_vars PROVE Places'
  OBVIOUS
<1>1. CASE mpc # "exit" /\ Main
  <2>1. CASE Connect
    BY <2>1 DEF Connect, receiver, Places, Handshake, Loop
  <2>2. CASE ConnectFails
    BY <2>2 DEF ConnectFails, receiver, Places, Handshake, Loop
  <2>3. CASE Welcome
    BY <2>3 DEF Welcome, receiver, state, Places, Handshake, Loop
  <2>4. CASE HandshakeEnd
    BY <2>4 DEF HandshakeEnd, receiver, state, Places, Handshake, Loop
  <2>5. CASE Register
    BY <2>5 DEF Register, receiver, state, Places, Handshake, Loop
  <2>6. CASE RegisterFails
    BY <2>6 DEF RegisterFails, receiver, Places, Handshake, Loop
  <2>7. CASE RegisterAnswer
    BY <2>7 DEF RegisterAnswer, receiver, Places, Handshake, Loop
  <2>8. CASE Fail
    BY <2>8 DEF Fail, receiver, Places, Handshake, Loop
  <2>9. CASE Spawn
    BY <2>9 DEF Spawn, state, Places, Handshake, Loop
  <2>10. CASE SpawnFails
    BY <2>10 DEF SpawnFails, receiver, state, Places, Handshake, Loop
  <2>11. CASE LockMain
    BY <2>11 DEF LockMain, receiver, Places, Handshake, Loop
  <2>12. CASE UnlockMain
    BY <2>12 DEF UnlockMain, receiver, Places, Handshake, Loop
  <2>13. CASE Command
    BY <2>13 DEF Command, receiver, state, Places, Handshake, Loop
  <2>14. CASE SendCommand
    BY <2>14 DEF SendCommand, receiver, state, Places, Handshake, Loop
  <2>15. CASE SendCommandFails
    BY <2>15 DEF SendCommandFails, receiver, state, Places, Handshake, Loop
  <2>16. CASE SendQuit
    BY <2>16 DEF SendQuit, receiver, state, Places, Handshake, Loop
  <2>17. CASE Join
    BY <2>17 DEF Join, receiver, state, Places, Handshake, Loop
  <2>18. CASE Disconnect
    BY <2>18 DEF Disconnect, receiver, Places, Handshake, Loop
  <2>19. CASE Stop
    BY <2>19 DEF Stop, receiver, Places, Handshake, Loop
  <2> QED
    BY <1>1, <2>1, <2>2, <2>3, <2>4, <2>5, <2>6, <2>7, <2>8, <2>9, <2>10,
       <2>11, <2>12, <2>13, <2>14, <2>15, <2>16, <2>17, <2>18, <2>19 DEF Main
<1>2. CASE Fgets
  BY <1>2 DEF Fgets, receiver, state, Places, Handshake, Loop
<1>3. CASE FgetsEof
  BY <1>3 DEF FgetsEof, receiver, Places, Handshake, Loop
<1>4. CASE mpc # "exit" /\ Receiver
  <2>1. mpc \notin Handshake \cup {"disconnect", "exit"}
    BY <1>4 DEF Receiver, Test, Recv, RecvEnd, LockReceiver, UnlockReceiver,
                End, Places
  <2>2. rpc' \in {"test", "recv", "lock", "print", "end", "done"}
    BY <1>4 DEF Receiver, Test, Recv, RecvEnd, LockReceiver, UnlockReceiver, End
  <2>3. UNCHANGED <<mpc, sockfd>>
    BY <1>4 DEF Receiver, Test, Recv, RecvEnd, LockReceiver, UnlockReceiver,
                End, mainv, state
  <2> QED
    BY <2>1, <2>2, <2>3 DEF Places
<1>5. CASE UNCHANGED <<mpc, rpc, sockfd>>
  BY <1>5 DEF Places
<1>6. ASSUME \/ Answer \/ Event \/ CloseAfterBye \/ CloseAfterClient
             \/ ServerStops \/ ConnectionLost \/ UNCHANGED vars
      PROVE  UNCHANGED <<mpc, rpc, sockfd>>
  BY <1>6 DEF Answer, Event, CloseAfterBye, CloseAfterClient, ServerStops,
              ConnectionLost, CloseConnection, vars, state, mainv, receiver
<1> QED
  BY <1>1, <1>2, <1>3, <1>4, <1>5, <1>6 DEF Next

\* For every run of the client, with any user and any traffic: the receiver
\* thread never reads a descriptor that client_disconnect has closed.
THEOREM SocketIsHeld == Spec => []SocketHeld
<1>1. Places => SocketHeld
  BY DEF Places, SocketHeld, ReceiverLives, Handshake, Loop
<1> QED
  BY <1>1, PlacesInit, PlacesStep, PTL DEF Spec

-----------------------------------------------------------------------------
(* The lines under way.                                                    *)

\* All that the client can send and all that it can receive.
Request ==
  {<<"REGISTER", User>>, <<"QUIT">>}
  \cup ({ToProto(t) : t \in Typed \cup {NoLine}} \ {NoLine})

Message ==
  Events \cup {<<"WELCOME", "CHAT/1.0">>} \cup UNION {AnswersTo(l) : l \in Request}

Traffic ==
  /\ sent \in Seq(Request) /\ served \in 0..Len(sent)
  /\ inbox \in Seq(Message)
  /\ line \in Typed \cup {NoLine}

\* Only what makes a line for the server gets as far as send().
Sending == mpc = "send" => ToProto(line) # NoLine

\* It is the test before the step that sends that sees to it.
LEMMA SendingStep == Sending /\ [Next]_vars => Sending'
<1> SUFFICES ASSUME Sending, [Next]_vars PROVE Sending'
  OBVIOUS
<1>1. CASE Command
  BY <1>1 DEF Command, Sending
<1>2. CASE mpc' # "send" \/ UNCHANGED <<mpc, line>>
  BY <1>2 DEF Sending
<1> QED
  BY <1>1, <1>2
  DEF Next, Main, Receiver, Connect, ConnectFails, Welcome, HandshakeEnd,
      Register, RegisterFails, RegisterAnswer, Fail, Spawn, SpawnFails,
      LockMain, UnlockMain, SendCommand, SendCommandFails, SendQuit, Stop, Join,
      Disconnect, Fgets, FgetsEof, Test, Recv, RecvEnd, LockReceiver,
      UnlockReceiver, End, Answer, Event, CloseAfterBye, CloseAfterClient,
      ServerStops, ConnectionLost, CloseConnection, vars, mainv

\* REGISTER_OK reaches the client, and lets it chat, only when it is registered.
Seated ==
  /\ \A i \in 1..Len(inbox) : inbox[i][1] = "REGISTER_OK" => registered
  /\ Chatting => registered

\* What Append and Tail do to the lines that recv_line has not returned yet.
LEMMA AppendedLine ==
  ASSUME NEW S, NEW q \in Seq(S), NEW m \in S
  PROVE  /\ Append(q, m) \in Seq(S) /\ Len(Append(q, m)) = Len(q) + 1
         /\ \A i \in 1..Len(Append(q, m)) :
              Append(q, m)[i] = m \/ (i \in 1..Len(q) /\ Append(q, m)[i] = q[i])
OBVIOUS

\* What is left of a queue without its first line.
LEMMA LinesLeft ==
  ASSUME NEW S, NEW q \in Seq(S), q # <<>>
  PROVE  /\ Head(q) = q[1] /\ 1 \in 1..Len(q) /\ Tail(q) \in Seq(S)
         /\ \A i \in 1..Len(Tail(q)) :
              i + 1 \in 1..Len(q) /\ Tail(q)[i] = q[i + 1]
OBVIOUS

\* send() keeps the lines sent requests and forgets no answer.
LEMMA SendKeepsTraffic ==
  ASSUME Traffic, NEW l \in Request, Send(l)
  PROVE  sent' \in Seq(Request) /\ served \in 0..Len(sent')
<1>1. Append(sent, l) \in Seq(Request) /\ Len(Append(sent, l)) = Len(sent) + 1
  BY AppendedLine DEF Traffic
<1>2. Len(sent) \in Nat
  BY DEF Traffic
<1> QED
  BY <1>1, <1>2 DEF Traffic, Send

\* Initially nothing is under way.
LEMMA SeatedInit == Init => Traffic /\ Seated /\ Sending
<1> SUFFICES ASSUME Init PROVE Traffic /\ Seated /\ Sending
  OBVIOUS
<1>1. sent = <<>> /\ inbox = <<>> /\ served = 0 /\ line = NoLine /\ mpc = "connect"
  BY DEF Init
<1>2. ASSUME NEW S PROVE <<>> \in Seq(S)
  OBVIOUS
<1>3. Traffic
  BY <1>1, <1>2 DEF Traffic
<1> QED
  BY <1>1, <1>3 DEF Seated, Chatting, Sending

\* Recv and the handshake take the oldest line.
LEMMA TakeKeepsLines ==
  ASSUME Traffic, Seated, inbox # <<>>, inbox' = Tail(inbox),
         registered' = registered
  PROVE  /\ inbox' \in Seq(Message)
         /\ \A i \in 1..Len(inbox') : inbox'[i][1] = "REGISTER_OK" => registered'
         /\ Head(inbox)[1] = "REGISTER_OK" => registered
BY LinesLeft DEF Traffic, Seated

\* The step of the server: only the answer that registers confirms a name.
LEMMA ArrivalKeepsLines ==
  ASSUME Traffic, Seated, NEW m \in Message, inbox' = Append(inbox, m),
         registered => registered', m[1] = "REGISTER_OK" => registered'
  PROVE  /\ inbox' \in Seq(Message)
         /\ \A i \in 1..Len(inbox') : inbox'[i][1] = "REGISTER_OK" => registered'
BY AppendedLine DEF Traffic, Seated

\* No step sends what is no request, delivers what is no message, or lets an
\* unregistered user chat.
LEMMA SeatedStep ==
  Traffic /\ Seated /\ Sending /\ [Next]_vars => Traffic' /\ Seated'
<1> SUFFICES ASSUME Traffic, Seated, Sending, [Next]_vars
             PROVE  Traffic' /\ Seated'
  OBVIOUS
<1> DEFINE Shut == UNCHANGED <<sent, served, inbox, registered, line>>
           LinesSeated ==
             \A i \in 1..Len(inbox) : inbox[i][1] = "REGISTER_OK" => registered
<1>1. ASSUME Shut, Chatting' => Chatting PROVE Traffic' /\ Seated'
  BY <1>1 DEF Traffic, Seated
<1>2. ASSUME NEW l \in Request, Send(l), UNCHANGED <<served, inbox, registered, line>>,
             Chatting' => Chatting
      PROVE  Traffic' /\ Seated'
  <2>1. sent' \in Seq(Request) /\ served \in 0..Len(sent')
    BY <1>2, SendKeepsTraffic
  <2> QED
    BY <1>2, <2>1 DEF Traffic, Seated
<1>3. ASSUME inbox # <<>>, inbox' = Tail(inbox),
             UNCHANGED <<sent, served, registered, line>>,
             Chatting' => Chatting \/ Head(inbox)[1] = "REGISTER_OK"
      PROVE  Traffic' /\ Seated'
  <2>1. /\ inbox' \in Seq(Message) /\ LinesSeated'
        /\ Head(inbox)[1] = "REGISTER_OK" => registered
    BY <1>3, TakeKeepsLines
  <2> QED
    BY <1>3, <2>1 DEF Traffic, Seated
<1>4. CASE Connect
  <2>1. CASE inbox' = <<<<"WELCOME", "CHAT/1.0">>>>
    <3> DEFINE w == <<"WELCOME", "CHAT/1.0">>
    <3>1. w \in Message /\ w[1] # "REGISTER_OK"
      BY DEF Message
    <3> HIDE DEF w
    <3>2. inbox' \in Seq(Message) /\ LinesSeated'
      BY <2>1, <3>1 DEF w
    <3> QED
      BY <1>4, <3>2 DEF Connect, Traffic, Seated, Chatting
  <2>2. CASE UNCHANGED inbox
    BY <1>4, <2>2, <1>1 DEF Connect, Chatting
  <2> QED
    BY <1>4, <2>1, <2>2 DEF Connect
<1>5. CASE ConnectFails \/ HandshakeEnd \/ RegisterFails \/ Fail \/ Spawn \/ SpawnFails
  BY <1>5, <1>1 DEF ConnectFails, HandshakeEnd, RegisterFails, Fail, Spawn,
     SpawnFails, connection, Chatting
<1>6. CASE Welcome
  BY <1>6, <1>3 DEF Welcome, Chatting
<1>7. CASE Register
  <2>1. <<"REGISTER", User>> \in Request
    BY DEF Request
  <2> QED
    BY <1>7, <2>1, <1>2 DEF Register, Chatting
<1>8. CASE RegisterAnswer
  BY <1>8, <1>3 DEF RegisterAnswer, AcceptedBy, Chatting
<1>9. CASE \/ LockMain \/ UnlockMain \/ Command \/ SendCommandFails \/ FgetsEof
           \/ Stop \/ Join
  BY <1>9, <1>1 DEF LockMain, UnlockMain, Command, SendCommandFails, FgetsEof,
     Stop, Join, connection, Chatting
<1>10. CASE SendCommand
  <2>1. ToProto(line) \in Request
    BY <1>10 DEF Traffic, Request, Sending, SendCommand
  <2> QED
    BY <1>10, <2>1, <1>2 DEF SendCommand, Chatting
<1>11. <<"QUIT">> \in Request
  BY DEF Request
<1>12. CASE SendQuit
  BY <1>12, <1>11, <1>1, <1>2 DEF SendQuit, Chatting
<1>13. CASE Disconnect
  BY <1>13, <1>11, <1>1, <1>2 DEF Disconnect, Chatting
<1>14. CASE Fgets
  BY <1>14 DEF Fgets, connection, Traffic, Seated, Chatting
<1>15. CASE Recv
  BY <1>15, <1>3 DEF Recv, mainv, Chatting
<1>16. CASE Test \/ RecvEnd \/ LockReceiver \/ UnlockReceiver \/ End
  BY <1>16, <1>1 DEF Test, RecvEnd, LockReceiver, UnlockReceiver, End,
     connection, mainv, Chatting
<1>17. CASE Answer
  <2>1. PICK m \in AnswersTo(sent[served + 1]) :
               /\ inbox' = Append(inbox, m)
               /\ registered' = (registered \/ m[1] = "REGISTER_OK")
    BY <1>17 DEF Answer
  <2>2. served + 1 \in 1..Len(sent) /\ sent[served + 1] \in Request
    BY <1>17 DEF Answer, Traffic
  <2>3. m \in Message
    BY <2>2 DEF Message
  <2>4. inbox' \in Seq(Message) /\ LinesSeated'
    BY <2>1, <2>3, ArrivalKeepsLines
  <2>5. served' \in 0..Len(sent') /\ UNCHANGED <<sent, line, mpc>>
    BY <1>17, <2>2 DEF Answer, Traffic, mainv
  <2>6. registered => registered'
    BY <2>1
  <2> QED
    BY <2>4, <2>5, <2>6 DEF Traffic, Seated, Chatting
<1>18. CASE Event
  <2>1. PICK m \in Events : inbox' = Append(inbox, m)
    BY <1>18 DEF Event
  <2>2. m \in Message /\ m[1] # "REGISTER_OK"
    BY EventsAssumption DEF Message
  <2>3. UNCHANGED <<sent, served, registered, line, mpc>>
    BY <1>18 DEF Event, mainv
  <2>4. inbox' \in Seq(Message) /\ LinesSeated'
    BY <2>1, <2>2, <2>3, ArrivalKeepsLines
  <2> QED
    BY <2>3, <2>4 DEF Traffic, Seated, Chatting
<1>19. CASE CloseAfterBye \/ CloseAfterClient \/ ServerStops \/ ConnectionLost
  BY <1>19, <1>1 DEF CloseAfterBye, CloseAfterClient, ServerStops,
     ConnectionLost, CloseConnection, mainv, Chatting
<1>20. CASE UNCHANGED vars
  BY <1>20, <1>1 DEF vars, connection, mainv, Chatting
<1> QED
  BY <1>4, <1>5, <1>6, <1>7, <1>8, <1>9, <1>10, <1>12, <1>13, <1>14, <1>15,
     <1>16, <1>17, <1>18, <1>19, <1>20 DEF Next, Main, Receiver

\* For every run of the client, with any user and any traffic: the input loop
\* and the receiver thread run only when the server has registered the name.
THEOREM OnlyRegisteredChat == Spec => []ChatsOnlyRegistered
<1>1. Seated => ChatsOnlyRegistered
  BY DEF Seated, ChatsOnlyRegistered
<1> QED
  BY <1>1, SeatedInit, SeatedStep, SendingStep, PTL DEF Spec

-----------------------------------------------------------------------------
(* The types, and what the lines say of the status.                        *)

\* What is typed, and what others cause, are lines of words.
LEMMA TypedWords ==
  /\ \A t \in Typed \cup {NoLine} : t \in Seq(Words)
  /\ \A m \in Events : m \in Seq(Words)
<1>1. ASSUME NEW S, NEW t \in Seq(S), \A i \in DOMAIN t : t[i] \in Words
      PROVE  t \in Seq(Words)
  <2>1. t \in [1 .. Len(t) -> Words] /\ Len(t) \in Nat
    BY <1>1
  <2> QED
    BY <2>1
<1>2. \A t \in Typed \cup Events : \A i \in DOMAIN t : t[i] \in Words
  BY DEF Words
<1>3. PICK S : S = STRING
  OBVIOUS
<1>4. \A t \in Typed \cup Events : t \in Seq(S)
  BY <1>3, TypedAssumption, EventsAssumption
<1>5. NoLine \in Seq(Words)
  BY DEF NoLine
<1> QED
  BY <1>1, <1>2, <1>4, <1>5

\* All lines that the client may send.
Sendable(l) ==
  \/ l = <<"REGISTER", User>> \/ l = <<"QUIT">> \/ l = <<"LIST">>
  \/ \E w \in Statuses : l = <<"STATUS", w>>
  \/ \E w \in Words : l = <<"INFO", w>> \/ l = <<"BROADCAST", w>>
  \/ \E v \in Words, w \in Words : l = <<"MSG", v, w>>

\* What the user types makes one of them, or none.
LEMMA ProtoKinds ==
  ASSUME NEW t \in Seq(Words), ToProto(t) # NoLine
  PROVE  Sendable(ToProto(t))
<1>1. ASSUME NEW i \in {2, 3}, Arg(t, i) # ""
      PROVE  Arg(t, i) \in Words
  <2>1. i <= Len(t) => t[i] \in Words
    OBVIOUS
  <2> QED
    BY <1>1, <2>1, Zenon DEF Arg
<1>2. ASSUME NEW i \in {2, 3}, Rest(t, i) # ""
      PROVE  Rest(t, i) \in Words
  <2>1. Phrase \in Words
    BY DEF Words
  <2>2. Rest(t, i) \in {Phrase, Arg(t, i)}
    BY Zenon DEF Rest
  <2> QED
    BY <1>1, <1>2, <2>1, <2>2, Zenon
<1> HIDE DEF Words
<1>3. CASE Arg(t, 1) \in {"/list", "/quit", "/info"}
  BY <1>2, <1>3 DEF ToProto, Sendable
<1>4. CASE Arg(t, 1) = "/status"
  BY <1>4 DEF ToProto, Sendable
<1>5. CASE Arg(t, 1) = "/msg"
  <2>1. /\ ToProto(t) = <<"MSG", Arg(t, 2), Rest(t, 3)>>
        /\ Arg(t, 2) # "" /\ Rest(t, 3) # ""
    BY <1>5 DEF ToProto
  <2> QED
    BY <1>1, <1>2, <2>1, Zenon DEF Sendable
<1>6. CASE Arg(t, 1) = "/all"
  BY <1>2, <1>6 DEF ToProto, Sendable
<1> QED
  BY <1>3, <1>4, <1>5, <1>6 DEF ToProto

\* Lines of words.
LEMMA LinesOfWords ==
  /\ \A u \in Words : <<u>> \in Lines
  /\ \A u, v \in Words : <<u, v>> \in Lines
  /\ \A u, v, w \in Words : <<u, v, w>> \in Lines
BY DEF Lines

\* The words of the protocol.
LEMMA WordsOfProtocol ==
  /\ {"CHAT/1.0", "WELCOME", "REGISTER", "REGISTER_OK", "QUIT", "BYE", "ERROR",
      "LIST", "LIST_OK", "INFO", "INFO_OK", "STATUS", "STATUS_OK", "MSG", "MSG_OK",
      "BROADCAST", "BROADCAST_OK", "ACTIVO"} \subseteq Words
  /\ Statuses \subseteq Words /\ User \in Words
BY DEF Words, Statuses

\* What the client sends are such lines.
LEMMA RequestKinds ==
  ASSUME NEW l \in Request
  PROVE  /\ Sendable(l) /\ l \in Lines
         /\ l[1] = "STATUS" => l[2] \in Statuses
<1>1. Sendable(l)
  <2>1. ASSUME NEW t \in Typed \cup {NoLine}, l = ToProto(t), l # NoLine
        PROVE  Sendable(l)
    BY <2>1, TypedWords, ProtoKinds
  <2> QED
    BY <2>1 DEF Request, Sendable
<1>2. CASE l = <<"REGISTER", User>> \/ l = <<"QUIT">> \/ l = <<"LIST">>
  <2>1. l \in Lines
    BY <1>2, LinesOfWords, WordsOfProtocol
  <2> QED
    BY <1>1, <1>2, <2>1
<1>3. ASSUME NEW w \in Statuses, l = <<"STATUS", w>>
      PROVE  l \in Lines /\ l[2] \in Statuses
  BY <1>3, LinesOfWords, WordsOfProtocol
<1>4. ASSUME NEW w \in Words, l = <<"INFO", w>> \/ l = <<"BROADCAST", w>>
      PROVE  l \in Lines /\ l[1] # "STATUS"
  BY <1>4, LinesOfWords, WordsOfProtocol
<1>5. ASSUME NEW v \in Words, NEW w \in Words, l = <<"MSG", v, w>>
      PROVE  l \in Lines /\ l[1] # "STATUS"
  BY <1>5, LinesOfWords, WordsOfProtocol
<1> QED
  BY <1>1, <1>2, <1>3, <1>4, <1>5, Zenon DEF Sendable

\* What it may get for them.
LEMMA AnswerKinds ==
  ASSUME NEW l \in Request, NEW m \in AnswersTo(l)
  PROVE  /\ m \in Lines /\ m # NoLine
         /\ m[1] = "STATUS_OK" <=> l[1] = "STATUS"
         /\ m[1] = "STATUS_OK" => m[2] = l[2] /\ m[2] \in Statuses
         /\ m[1] = "REGISTER_OK" => m[2] = "ACTIVO"
<1> USE LinesOfWords, WordsOfProtocol DEF NoLine
<1>1. Sendable(l)
  BY RequestKinds
<1>2. CASE l[1] \in {"REGISTER", "QUIT", "LIST", "BROADCAST"}
  <2>1. \/ m = <<"REGISTER_OK", "ACTIVO">> \/ m = <<"ERROR", "REGISTER">>
        \/ m = <<"BYE">> \/ m = <<"LIST_OK">> \/ m = <<"BROADCAST_OK">>
    BY <1>2 DEF AnswersTo
  <2>2. m \in Lines
    BY <2>1
  <2> QED
    BY <1>2, <2>1, <2>2
<1>3. ASSUME NEW w \in Statuses, l = <<"STATUS", w>> 
      PROVE  m = <<"STATUS_OK", w>> /\ m \in Lines
  BY <1>3 DEF AnswersTo
<1>4. ASSUME NEW w \in Words,
             \/ l = <<"INFO", w>> /\ (m = <<"INFO_OK", w>> \/ m = <<"ERROR", "INFO">>)
             \/ m = <<"MSG_OK", w>> /\ l[1] = "MSG"
             \/ m = <<"ERROR", "MSG">> /\ l[1] = "MSG"
      PROVE  /\ m \in Lines /\ m # NoLine /\ l[1] # "STATUS"
             /\ m[1] \notin {"STATUS_OK", "REGISTER_OK"}
  BY <1>4
<1>5. CASE \E w \in Words : l = <<"INFO", w>>
  <2>1. PICK w \in Words : l = <<"INFO", w>>
    BY <1>5
  <2>2. m = <<"INFO_OK", w>> \/ m = <<"ERROR", "INFO">>
    BY <2>1 DEF AnswersTo
  <2> QED
    BY <1>4, <2>1, <2>2
<1>6. CASE \E v \in Words, w \in Words : l = <<"MSG", v, w>>
  <2>1. PICK v \in Words, w \in Words : l = <<"MSG", v, w>>
    BY <1>6
  <2>2. (m = <<"MSG_OK", v>> \/ m = <<"ERROR", "MSG">>) /\ l[1] = "MSG"
    BY <2>1 DEF AnswersTo
  <2> QED
    BY <1>4, <2>1, <2>2
<1>7. CASE \E w \in Statuses : l = <<"STATUS", w>>
  BY <1>3, <1>7
<1>8. CASE \E w \in Words : l = <<"BROADCAST", w>>
  BY <1>2, <1>8
<1>9. CASE l = <<"REGISTER", User>> \/ l = <<"QUIT">> \/ l = <<"LIST">>
  BY <1>2, <1>9
<1> QED
  BY <1>1, <1>5, <1>6, <1>7, <1>8, <1>9 DEF Sendable

\* What it may get at all.
LEMMA MessageKinds ==
  ASSUME NEW m \in Message
  PROVE  /\ m \in Lines /\ m # NoLine
         /\ m[1] = "STATUS_OK" => m[2] \in Statuses
         /\ m[1] = "REGISTER_OK" => m[2] = "ACTIVO"
<1>1. CASE m \in Events
  BY <1>1, EventsAssumption, TypedWords DEF Lines, NoLine
<1>2. CASE m = <<"WELCOME", "CHAT/1.0">>
  BY <1>2, LinesOfWords, WordsOfProtocol DEF NoLine
<1>3. ASSUME NEW l \in Request, m \in AnswersTo(l)
      PROVE  /\ m \in Lines /\ m # NoLine
             /\ m[1] = "STATUS_OK" => m[2] \in Statuses
             /\ m[1] = "REGISTER_OK" => m[2] = "ACTIVO"
  BY <1>3, AnswerKinds
<1> QED
  BY <1>1, <1>2, <1>3, Zenon DEF Message

-----------------------------------------------------------------------------
(* The types.                                                              *)

\* The receiver holds a line the server may send, or none.
Typing == TypeOK /\ got \in Message \cup {NoLine}

\* Requests and messages are lines.
LEMMA SeqOfLines ==
  /\ \A q \in Seq(Request) : q \in Seq(Lines)
  /\ \A q \in Seq(Message) : q \in Seq(Lines)
<1>1. \A m \in Request : m \in Lines
  BY RequestKinds
<1>2. \A m \in Message : m \in Lines
  BY MessageKinds
<1>3. ASSUME NEW S, NEW T, \A m \in S : m \in T, NEW q \in Seq(S)
      PROVE  q \in Seq(T)
  BY <1>3
<1> QED
  BY <1>1, <1>2, <1>3

\* At first all variables have their types.
LEMMA TypingInit == Init => Typing
<1> SUFFICES ASSUME Init PROVE Typing
  OBVIOUS
<1>1. ASSUME NEW S PROVE <<>> \in Seq(S) /\ Len(<<>>) = 0
  OBVIOUS
<1>2. sent \in Seq(Lines) /\ inbox \in Seq(Lines) /\ line \in Lines /\ got \in Lines
  BY <1>1 DEF Init, NoLine, Lines
<1>3. served \in 0..Len(sent) /\ events \in 0..MaxEvents /\ typed \in 0..MaxTyped
  <2>1. served = 0 /\ events = 0 /\ typed = 0 /\ sent = <<>>
    BY DEF Init
  <2>2. served \in 0..Len(sent)
    BY <2>1
  <2>3. 0 \in 0..MaxEvents /\ 0 \in 0..MaxTyped
    BY BoundsAssumption
  <2> QED
    BY <2>1, <2>2, <2>3
<1> QED
  BY <1>2, <1>3 DEF Init, Typing, TypeOK, Statuses

\* What the client holds of the lines has their type, before and after a step.
LEMMA TrafficTypes ==
  ASSUME Traffic
  PROVE  /\ sent \in Seq(Lines) /\ served \in 0..Len(sent)
         /\ inbox \in Seq(Lines) /\ line \in Lines
BY SeqOfLines, TypedWords DEF Traffic, Lines

\* ... and after a step.
LEMMA TrafficTypesNext ==
  Traffic' => /\ sent' \in Seq(Lines) /\ served' \in 0..Len(sent')
              /\ inbox' \in Seq(Lines) /\ line' \in Lines
BY SeqOfLines, TypedWords DEF Traffic, Lines

\* A step keeps the rest.
LEMMA TypingStep ==
  Typing /\ Places /\ Traffic /\ Traffic' /\ Places' /\ [Next]_vars => Typing'
<1> SUFFICES ASSUME Typing, Places, Traffic, Traffic', Places', [Next]_vars
             PROVE  Typing'
  OBVIOUS
<1> DEFINE Connected == server \in {"down", "up", "closed"} /\ reset \in BOOLEAN
           Counted == events \in 0..MaxEvents /\ registered \in BOOLEAN
           Shared == /\ sockfd \in {"none", "open", "closed"}
                     /\ running \in BOOLEAN
                     /\ mutex \in {"free", "main", "receiver"}
           Shown == my_status \in Statuses
           Keyed == typed \in 0..MaxTyped
           Received == got \in Message \cup {NoLine}
<1>1. Connected /\ Counted /\ Shared /\ Shown /\ Keyed /\ Received
  BY DEF Typing, TypeOK
<1>2. ASSUME Connected', Counted', Shared', Shown', Keyed', Received'
      PROVE  Typing'
  <2>1. \A m \in Message \cup {NoLine} : m \in Lines
    <3>1. NoLine \in Lines
      BY DEF NoLine, Lines
    <3> QED
      BY <3>1, MessageKinds
  <2> QED
    BY <1>2, <2>1, TrafficTypesNext DEF Typing, TypeOK, Places, Handshake, Loop
<1>3. Connected'
  <2>1. CASE Connect \/ CloseAfterBye \/ CloseAfterClient \/ ServerStops \/ ConnectionLost
    <3>1. (served < Len(sent)) \in BOOLEAN
      OBVIOUS
    <3> QED
      BY <1>1, <2>1, <3>1 DEF Connect, CloseAfterBye, CloseAfterClient,
         ServerStops, ConnectionLost, CloseConnection
  <2>3. CASE Register \/ SendCommand \/ SendQuit \/ Disconnect
    <3>1. \A l : Send(l) => reset' \in BOOLEAN
      BY <1>1 DEF Send
    <3> QED
      BY <1>1, <2>3, <3>1 DEF Register, SendCommand, SendQuit, Disconnect
  <2>4. CASE UNCHANGED <<server, reset>>
    BY <1>1, <2>4
  <2> QED
    BY <2>1, <2>3, <2>4
    DEF Next, Main, Receiver, ConnectFails, Welcome, HandshakeEnd,
      RegisterFails, RegisterAnswer, Fail, Spawn, SpawnFails, LockMain,
      UnlockMain, Command, SendCommandFails, Stop, Join, Fgets, FgetsEof, Test,
      Recv, RecvEnd, LockReceiver, UnlockReceiver, End, Answer, Event, vars,
      connection
<1>4. Counted'
  <2>1. CASE Answer
    <3>1. UNCHANGED events /\ registered' \in BOOLEAN
      BY <1>1, <2>1 DEF Answer
    <3> QED
      BY <1>1, <3>1
  <2>2. CASE Event
    <3>1. events < MaxEvents /\ events' = events + 1 /\ UNCHANGED registered
      BY <2>2 DEF Event
    <3>2. events \in 0..MaxEvents /\ registered \in BOOLEAN
      BY <1>1
    <3>3. events + 1 \in 0..MaxEvents
      BY <3>1, <3>2, BoundsAssumption
    <3> QED
      BY <3>1, <3>2, <3>3
  <2>3. CASE UNCHANGED <<events, registered>>
    BY <1>1, <2>3
  <2> QED
    BY <2>1, <2>2, <2>3
    DEF Next, Main, Receiver, Connect, ConnectFails, Welcome, HandshakeEnd,
      Register, RegisterFails, RegisterAnswer, Fail, Spawn, SpawnFails,
      LockMain, UnlockMain, Command, SendCommand, SendCommandFails, SendQuit, Stop,
      Join, Disconnect, Fgets, FgetsEof, Test, Recv, RecvEnd, LockReceiver,
      UnlockReceiver, End, CloseAfterBye, CloseAfterClient,
      ServerStops, ConnectionLost, CloseConnection, vars, connection
<1>5. Shared'
  BY <1>1 DEF Next, Main, Receiver, Connect, ConnectFails, Welcome, HandshakeEnd,
      Register, RegisterFails, RegisterAnswer, Fail, Spawn, SpawnFails,
      LockMain, UnlockMain, Command, SendCommand, SendCommandFails, SendQuit, Stop,
      Join, Disconnect, Fgets, FgetsEof, Test, Recv, RecvEnd, LockReceiver,
      UnlockReceiver, End, Answer, Event, CloseAfterBye, CloseAfterClient,
      ServerStops, ConnectionLost, CloseConnection, vars, state
<1>6. Keyed'
  <2>1. CASE Fgets
    <3>1. typed < MaxTyped /\ typed' = typed + 1
      BY <2>1 DEF Fgets
    <3>2. typed \in 0..MaxTyped
      BY <1>1
    <3>3. typed + 1 \in 0..MaxTyped
      BY <3>1, <3>2, BoundsAssumption
    <3> QED
      BY <3>1, <3>3
  <2>2. CASE UNCHANGED typed
    BY <1>1, <2>2
  <2> QED
    BY <2>1, <2>2
    DEF Next, Main, Receiver, Connect, ConnectFails, Welcome, HandshakeEnd,
      Register, RegisterFails, RegisterAnswer, Fail, Spawn, SpawnFails,
      LockMain, UnlockMain, Command, SendCommand, SendCommandFails, SendQuit, Stop,
      Join, Disconnect, FgetsEof, Test, Recv, RecvEnd, LockReceiver,
      UnlockReceiver, End, Answer, Event, CloseAfterBye, CloseAfterClient,
      ServerStops, ConnectionLost, CloseConnection, vars, mainv
<1>7. inbox # <<>> => Head(inbox) \in Message
  BY LinesLeft DEF Traffic
<1>8. Shown'
  <2>1. CASE RegisterAnswer
    <3>1. Head(inbox)[1] = "REGISTER_OK" => Head(inbox)[2] = "ACTIVO"
      BY <1>7, <2>1, MessageKinds DEF RegisterAnswer
    <3> QED
      BY <1>1, <2>1, <3>1 DEF RegisterAnswer, AcceptedBy, Statuses
  <2>2. CASE LockReceiver
    <3>1. Arg(got, 1) = "STATUS_OK" => got \in Message /\ got[1] = "STATUS_OK"
      <4>1. Arg(NoLine, 1) = ""
        BY DEF Arg, NoLine
      <4>2. Arg(got, 1) \in {got[1], ""}
        BY Zenon DEF Arg
      <4>3. "" # "STATUS_OK"
        OBVIOUS
      <4> QED
        BY <1>1, <4>1, <4>2, <4>3, Zenon
    <3>2. Arg(got, 1) = "STATUS_OK" => got[2] \in Statuses
      BY <3>1, MessageKinds
    <3> QED
      BY <1>1, <2>2, <3>2 DEF LockReceiver
  <2>3. CASE UNCHANGED my_status
    BY <1>1, <2>3
  <2> QED
    BY <2>1, <2>2, <2>3
    DEF Next, Main, Receiver, Connect, ConnectFails, Welcome, HandshakeEnd,
      Register, RegisterFails, Fail, Spawn, SpawnFails,
      LockMain, UnlockMain, Command, SendCommand, SendCommandFails, SendQuit, Stop,
      Join, Disconnect, Fgets, FgetsEof, Test, Recv, RecvEnd,
      UnlockReceiver, End, Answer, Event, CloseAfterBye, CloseAfterClient,
      ServerStops, ConnectionLost, CloseConnection, vars, state
<1>9. Received'
  <2>1. CASE Recv
    BY <1>7, <2>1 DEF Recv
  <2>2. CASE got' = NoLine \/ UNCHANGED got
    BY <1>1, <2>2
  <2> QED
    BY <2>1, <2>2
    DEF Next, Main, Receiver, Connect, ConnectFails, Welcome, HandshakeEnd,
      Register, RegisterFails, RegisterAnswer, Fail, Spawn, SpawnFails,
      LockMain, UnlockMain, Command, SendCommand, SendCommandFails, SendQuit, Stop,
      Join, Disconnect, Fgets, FgetsEof, Test, RecvEnd, LockReceiver,
      UnlockReceiver, End, Answer, Event, CloseAfterBye, CloseAfterClient,
      ServerStops, ConnectionLost, CloseConnection, vars, receiver
<1> QED
  BY <1>2, <1>3, <1>4, <1>5, <1>6, <1>8, <1>9

\* For every run of the client, with any user and any traffic: every variable
\* keeps the values its code gives it, and the status shown is one of the three
\* that exist.
THEOREM ClientTypesCorrect == Spec => []TypeOK
<1>1. Typing => TypeOK
  BY DEF Typing
<1> QED
  BY <1>1, TypingInit, TypingStep, PlacesInit, PlacesStep, SeatedInit, SeatedStep,
     SendingStep, PTL DEF Spec

-----------------------------------------------------------------------------
(* The status on its way: asked, answered, received, shown.                *)

\* No line of this kind among the first n of q; the last one says w.
Never(q, n, kind) == \A i \in 1..n : q[i][1] # kind

Latest(q, n, kind, w) ==
  \E i \in 1..n : /\ q[i][1] = kind /\ q[i][2] = w
                  /\ \A j \in 1..n : j > i => q[j][1] # kind

\* w is the status that the server set last, ...
Answered(w) ==
  \/ Latest(sent, served, "STATUS", w)
  \/ Never(sent, served, "STATUS") /\ w = "ACTIVO"

\* ... and q tells w to one who holds p.
Tells(q, p, w) ==
  \/ Latest(q, Len(q), "STATUS_OK", w)
  \/ Never(q, Len(q), "STATUS_OK") /\ w = p

\* What the receiver shows or is about to show.
Held(place, m, shown) ==
  IF place = "lock" /\ Arg(m, 1) = "STATUS_OK" THEN m[2] ELSE shown

\* No status is asked for before the handshake is over ...
Early ==
  mpc \in Handshake \ {"spawn"} =>
    Never(sent, Len(sent), "STATUS") /\ Never(inbox, Len(inbox), "STATUS_OK")

\* ... and after it the lines under way lead from the status shown to the one
\* the server has set.
Follows ==
  mpc = "spawn" \/ rpc # "none" =>
    \E w \in Statuses : Answered(w) /\ Tells(inbox, Held(rpc, got, my_status), w)

\* One line more.
LEMMA OneMore ==
  ASSUME NEW q, NEW n \in Nat, NEW kind
  PROVE  /\ q[n + 1][1] = kind => Latest(q, n + 1, kind, q[n + 1][2])
         /\ q[n + 1][1] # kind =>
              /\ Never(q, n, kind) => Never(q, n + 1, kind)
              /\ \A w : Latest(q, n, kind, w) => Latest(q, n + 1, kind, w)
<1>1. \A i \in 1..(n + 1) : i \in 1..n \/ i = n + 1
  OBVIOUS
<1>2. n + 1 \in 1..(n + 1) /\ \A i \in 1..n : i \in 1..(n + 1)
  OBVIOUS
<1>3. \A j \in 1..(n + 1) : ~(j > n + 1)
  OBVIOUS
<1>4. q[n + 1][1] = kind => Latest(q, n + 1, kind, q[n + 1][2])
  BY <1>2, <1>3 DEF Latest
<1>5. q[n + 1][1] # kind /\ Never(q, n, kind) => Never(q, n + 1, kind)
  BY <1>1 DEF Never
<1>6. ASSUME q[n + 1][1] # kind, NEW w, Latest(q, n, kind, w)
      PROVE  Latest(q, n + 1, kind, w)
  BY <1>1, <1>2, <1>6 DEF Latest
<1> QED
  BY <1>4, <1>5, <1>6

\* Equal beginnings say the same.
LEMMA SameBeginning ==
  ASSUME NEW q, NEW r, NEW n, \A i \in 1..n : q[i] = r[i], NEW kind
  PROVE  /\ Never(q, n, kind) => Never(r, n, kind)
         /\ \A w : Latest(q, n, kind, w) => Latest(r, n, kind, w)
BY DEF Never, Latest

\* A line that arrives.
LEMMA TellsMore ==
  ASSUME NEW S, NEW q \in Seq(S), NEW m \in S, NEW p
  PROVE  /\ m[1] = "STATUS_OK" => Tells(Append(q, m), p, m[2])
         /\ m[1] # "STATUS_OK" =>
              /\ Never(q, Len(q), "STATUS_OK") =>
                   Never(Append(q, m), Len(Append(q, m)), "STATUS_OK")
              /\ \A w : Tells(q, p, w) => Tells(Append(q, m), p, w)
<1>1. PICK n \in Nat : n = Len(q)
  OBVIOUS
<1>2. PICK r : r = Append(q, m)
  OBVIOUS
<1>3. Len(r) = n + 1 /\ r[n + 1] = m /\ \A i \in 1..n : q[i] = r[i]
  BY <1>1, <1>2
<1>4. /\ m[1] = "STATUS_OK" => Latest(r, n + 1, "STATUS_OK", m[2])
      /\ m[1] # "STATUS_OK" =>
           /\ Never(r, n, "STATUS_OK") => Never(r, n + 1, "STATUS_OK")
           /\ \A w : Latest(r, n, "STATUS_OK", w) => Latest(r, n + 1, "STATUS_OK", w)
  BY <1>3, OneMore
<1>5. /\ Never(q, n, "STATUS_OK") => Never(r, n, "STATUS_OK")
      /\ \A w : Latest(q, n, "STATUS_OK", w) => Latest(r, n, "STATUS_OK", w)
  BY <1>3, SameBeginning
<1> QED
  BY <1>1, <1>2, <1>3, <1>4, <1>5 DEF Tells

\* A line that is taken.
LEMMA TellsLess ==
  ASSUME NEW S, NEW q \in Seq(S), q # <<>>, NEW p, NEW w, Tells(q, p, w)
  PROVE  Tells(Tail(q), IF Head(q)[1] = "STATUS_OK" THEN Head(q)[2] ELSE p, w)
<1>1. PICK n \in Nat : Len(q) = n + 1
  <2>1. Len(q) \in Nat /\ Len(q) # 0
    OBVIOUS
  <2>2. Len(q) - 1 \in Nat /\ Len(q) = (Len(q) - 1) + 1
    BY <2>1
  <2> QED
    BY <2>2
<1>2. PICK r, h : r = Tail(q) /\ h = Head(q)
  OBVIOUS
<1>3. Len(r) = n /\ h = q[1] /\ \A i \in 1..n : r[i] = q[i + 1]
  BY <1>1, <1>2
<1>4. \A i \in 1..(n + 1) : i = 1 \/ \E j \in 1..n : i = j + 1
  <2>1. ASSUME NEW i \in 1..(n + 1), i # 1
        PROVE  i - 1 \in 1..n /\ i = (i - 1) + 1
    BY <2>1
  <2> QED
    BY <2>1
<1>5. 1 \in 1..(n + 1) /\ \A i \in 1..n : i + 1 \in 1..(n + 1) /\ i + 1 > 1
  OBVIOUS
<1>6. \A i, j \in 1..n : j > i => j + 1 > i + 1
  OBVIOUS
<1>7. CASE Never(q, n + 1, "STATUS_OK")
  <2>1. w = p /\ h[1] # "STATUS_OK"
    BY <1>1, <1>3, <1>5, <1>7 DEF Tells, Never, Latest
  <2>2. Never(r, n, "STATUS_OK")
    BY <1>3, <1>5, <1>7 DEF Never
  <2> QED
    BY <1>2, <1>3, <2>1, <2>2 DEF Tells
<1>8. ASSUME NEW i \in 1..(n + 1), q[i][1] = "STATUS_OK", q[i][2] = w,
             \A j \in 1..(n + 1) : j > i => q[j][1] # "STATUS_OK"
      PROVE  Tells(r, IF h[1] = "STATUS_OK" THEN h[2] ELSE p, w)
  <2>1. CASE i = 1
    <3>1. Never(r, n, "STATUS_OK")
      BY <1>3, <1>5, <1>8, <2>1 DEF Never
    <3> QED
      BY <1>3, <1>8, <2>1, <3>1 DEF Tells
  <2>2. ASSUME NEW j \in 1..n, i = j + 1 PROVE Latest(r, n, "STATUS_OK", w)
    BY <1>3, <1>5, <1>6, <1>8, <2>2 DEF Latest
  <2> QED
    BY <1>3, <1>4, <2>1, <2>2 DEF Tells
<1> QED
  BY <1>1, <1>2, <1>7, <1>8 DEF Tells, Latest

\* send() changes nothing that was answered, and asks for a status only by
\* STATUS.
LEMMA SendKeepsAsked ==
  ASSUME Traffic, NEW l \in Request, Send(l)
  PROVE  /\ \A w : \/ Latest(sent', served, "STATUS", w)
                   \/ Never(sent', served, "STATUS") /\ w = "ACTIVO"
                <=> Answered(w)
         /\ l[1] # "STATUS" /\ Never(sent, Len(sent), "STATUS") =>
              Never(sent', Len(sent'), "STATUS")
<1>1. PICK r, n : r = Append(sent, l) /\ n = Len(sent) /\ n \in Nat
  <2>1. Len(sent) \in Nat
    BY DEF Traffic
  <2> QED
    BY <2>1
<1>2. /\ Len(r) = n + 1 /\ r[n + 1] = l
      /\ \A i \in 1..n : sent[i] = r[i] /\ r[i] = sent[i]
  BY <1>1 DEF Traffic
<1>3. \A i \in 1..served : i \in 1..n
  BY <1>1 DEF Traffic
<1>4. /\ Never(r, served, "STATUS") <=> Never(sent, served, "STATUS")
      /\ \A w : Latest(r, served, "STATUS", w) <=> Latest(sent, served, "STATUS", w)
  BY <1>2, <1>3, SameBeginning
<1>5. l[1] # "STATUS" /\ Never(sent, n, "STATUS") => Never(r, n + 1, "STATUS")
  <2>1. Never(sent, n, "STATUS") => Never(r, n, "STATUS")
    BY <1>2, SameBeginning
  <2> QED
    BY <1>1, <1>2, <2>1, OneMore
<1>6. sent' = r \/ sent' = sent
  BY <1>1 DEF Send
<1> QED
  BY <1>1, <1>2, <1>4, <1>5, <1>6 DEF Answered

\* What the server answers to a line that asks for a status, and to any other.
LEMMA AnswerMoves ==
  ASSUME Traffic, Answer
  PROVE  \E m \in Message :
           /\ inbox' = Append(inbox, m)
           /\ m[1] = "STATUS_OK" =>
                Answered(m[2])' /\ m[2] \in Statuses
                /\ ~Never(sent, Len(sent), "STATUS")
           /\ m[1] # "STATUS_OK" => \A w : Answered(w) => Answered(w)'
<1>1. PICK l, n : l = sent[served + 1] /\ n = served /\ n \in Nat
  BY DEF Traffic
<1>2. l \in Request /\ n + 1 \in 1..Len(sent) /\ sent[n + 1] = l
  BY <1>1 DEF Traffic, Answer
<1>3. PICK m \in AnswersTo(l) : inbox' = Append(inbox, m)
  BY <1>1 DEF Answer
<1>4. m \in Message
  BY <1>2, <1>3 DEF Message
<1>5. sent' = sent /\ served' = n + 1
  BY <1>1 DEF Answer
<1>6. /\ l[1] = "STATUS" => Latest(sent, n + 1, "STATUS", l[2])
      /\ l[1] # "STATUS" =>
              /\ Never(sent, n, "STATUS") => Never(sent, n + 1, "STATUS")
              /\ \A w : Latest(sent, n, "STATUS", w) => Latest(sent, n + 1, "STATUS", w)
  BY <1>1, <1>2, OneMore
<1>7. /\ m[1] = "STATUS_OK" <=> l[1] = "STATUS"
      /\ m[1] = "STATUS_OK" => m[2] = l[2] /\ m[2] \in Statuses
  BY <1>2, <1>3, AnswerKinds
<1>8. l[1] = "STATUS" => ~Never(sent, Len(sent), "STATUS")
  BY <1>2 DEF Never
<1>9. m[1] = "STATUS_OK" => Answered(m[2])'
  BY <1>5, <1>6, <1>7 DEF Answered
<1>10. m[1] # "STATUS_OK" => \A w : Answered(w) => Answered(w)'
  BY <1>1, <1>5, <1>6, <1>7 DEF Answered
<1> QED
  BY <1>3, <1>4, <1>7, <1>8, <1>9, <1>10

\* Initially nothing is asked and nothing shown.
LEMMA FollowsInit == Init => Early /\ Follows
<1> SUFFICES ASSUME Init PROVE Early /\ Follows
  OBVIOUS
<1>1. sent = <<>> /\ inbox = <<>> /\ mpc = "connect" /\ rpc = "none"
  BY DEF Init
<1>2. \A kind : Never(<<>>, Len(<<>>), kind)
  BY DEF Never
<1> QED
  BY <1>1, <1>2 DEF Early, Follows

\* Nobody asks for a status during the handshake.
LEMMA EarlyStep == Early /\ Traffic /\ [Next]_vars => Early'
<1> SUFFICES ASSUME Early, Traffic, [Next]_vars, mpc' \in Handshake \ {"spawn"}
             PROVE  /\ Never(sent, Len(sent), "STATUS")'
                    /\ Never(inbox, Len(inbox), "STATUS_OK")'
  BY DEF Early
<1>1. mpc \in Handshake \ {"spawn"}
  BY DEF Next, Main, Receiver, Connect, ConnectFails, Welcome, HandshakeEnd,
      Register, RegisterFails, RegisterAnswer, Fail, Spawn, SpawnFails,
      LockMain, UnlockMain, Command, SendCommand, SendCommandFails, SendQuit, Stop,
      Join, Disconnect, Fgets, FgetsEof, Test, Recv, RecvEnd, LockReceiver,
      UnlockReceiver, End, Answer, Event, CloseAfterBye, CloseAfterClient,
      ServerStops, ConnectionLost, CloseConnection, vars, mainv, Handshake
<1>2. Never(sent, Len(sent), "STATUS") /\ Never(inbox, Len(inbox), "STATUS_OK")
  BY <1>1 DEF Early
<1>3. CASE UNCHANGED <<sent, inbox>>
  BY <1>2, <1>3
<1>4. CASE Connect
  <2>1. UNCHANGED sent
    BY <1>4 DEF Connect
  <2>2. PICK w : w = <<"WELCOME", "CHAT/1.0">>
    OBVIOUS
  <2>3. inbox' = <<w>> \/ UNCHANGED inbox
    BY <1>4, <2>2 DEF Connect
  <2>4. w[1] # "STATUS_OK"
    BY <2>2
  <2>5. Never(<<w>>, Len(<<w>>), "STATUS_OK")
    BY <2>4 DEF Never
  <2> QED
    BY <1>2, <2>1, <2>3, <2>5
<1>5. CASE inbox # <<>> /\ inbox' = Tail(inbox) /\ UNCHANGED sent
  <2>1. \A i \in 1..Len(Tail(inbox)) : i + 1 \in 1..Len(inbox) /\ Tail(inbox)[i] = inbox[i + 1]
    BY <1>5, LinesLeft DEF Traffic
  <2>2. Never(Tail(inbox), Len(Tail(inbox)), "STATUS_OK")
    BY <1>2, <2>1 DEF Never
  <2> QED
    BY <1>2, <1>5, <2>2
<1>6. CASE Register
  <2>1. PICK l : l = <<"REGISTER", User>>
    OBVIOUS
  <2>2. l \in Request /\ l[1] # "STATUS" /\ Send(l)
    BY <1>6, <2>1 DEF Request, Register
  <2>3. Never(sent', Len(sent'), "STATUS")
    BY <1>2, <2>2, SendKeepsAsked
  <2> QED
    BY <1>2, <1>6, <2>3 DEF Register
<1>7. CASE Answer
  <2>1. PICK m \in Message : /\ inbox' = Append(inbox, m)
                             /\ m[1] = "STATUS_OK" => ~Never(sent, Len(sent), "STATUS")
    BY <1>7, AnswerMoves
  <2>2. Never(Append(inbox, m), Len(Append(inbox, m)), "STATUS_OK")
    BY <1>2, <2>1, TellsMore DEF Traffic
  <2> QED
    BY <1>2, <1>7, <2>1, <2>2 DEF Answer
<1>8. CASE Event
  <2>1. PICK m \in Events : inbox' = Append(inbox, m)
    BY <1>8 DEF Event
  <2>2. m \in Message /\ m[1] # "STATUS_OK"
    BY EventsAssumption DEF Message
  <2>3. Never(Append(inbox, m), Len(Append(inbox, m)), "STATUS_OK")
    BY <1>2, <2>2, TellsMore DEF Traffic
  <2> QED
    BY <1>2, <1>8, <2>1, <2>3 DEF Event
<1> QED
  BY <1>1, <1>3, <1>4, <1>5, <1>6, <1>7, <1>8
  DEF Next, Main, Receiver, ConnectFails, Welcome, HandshakeEnd,
      RegisterFails, RegisterAnswer, Fail, Spawn, SpawnFails,
      LockMain, UnlockMain, Command, SendCommand, SendCommandFails, SendQuit, Stop,
      Join, Disconnect, Fgets, FgetsEof, Test, Recv, RecvEnd, LockReceiver,
      UnlockReceiver, End, CloseAfterBye, CloseAfterClient,
      ServerStops, ConnectionLost, CloseConnection, vars, connection, Handshake

\* Every step of the chat hands the status on: the server answers, recv_line
\* returns, dispatch_message shows.
LEMMA FollowsStep ==
  Follows /\ Early /\ Typing /\ Places /\ Traffic /\ Sending /\ [Next]_vars => Follows'
<1> SUFFICES ASSUME Follows, Early, Typing, Places, Traffic, Sending, [Next]_vars,
                    mpc' = "spawn" \/ rpc' # "none"
             PROVE  \E w \in Statuses :
                      /\ Answered(w)'
                      /\ Tells(inbox', Held(rpc', got', my_status'), w)
  BY DEF Follows
<1> DEFINE H == Held(rpc, got, my_status)
           G == Held(rpc', got', my_status')
           Goal == \E w \in Statuses : Answered(w)' /\ Tells(inbox', G, w)
<1>1. ASSUME mpc = "spawn" \/ rpc # "none"
      PROVE  \E w \in Statuses : Answered(w) /\ Tells(inbox, H, w)
  BY <1>1 DEF Follows
<1>2. ASSUME mpc = "spawn" \/ rpc # "none", inbox' = inbox, G = H,
             \A w : Answered(w) => Answered(w)'
      PROVE  Goal
  BY <1>1, <1>2
<1>3. ASSUME mpc = "spawn" \/ rpc # "none", UNCHANGED <<sent, served, inbox>>, G = H
      PROVE  Goal
  <2>1. \A w : Answered(w) => Answered(w)'
    BY <1>3 DEF Answered
  <2> QED
    BY <1>2, <1>3, <2>1
<1>4. CASE Connect \/ ConnectFails \/ Welcome \/ HandshakeEnd \/ Register
           \/ RegisterFails \/ Fail
  <2>1. mpc \in Handshake /\ mpc' # "spawn" /\ rpc' = rpc
    BY <1>4 DEF Connect, ConnectFails, Welcome, HandshakeEnd, Register,
       RegisterFails, Fail, receiver, Handshake
  <2> QED
    BY <2>1 DEF Places
<1>5. CASE RegisterAnswer
  <2>1. mpc = "answer" /\ rpc = "none" /\ rpc' = rpc
    BY <1>5 DEF RegisterAnswer, receiver, Places, Handshake
  <2>2. inbox # <<>> /\ AcceptedBy(Head(inbox)) /\ my_status' = Head(inbox)[2]
    BY <1>5, <2>1 DEF RegisterAnswer
  <2>3. Head(inbox) \in Message /\ inbox' = Tail(inbox) /\ UNCHANGED <<sent, served>>
    BY <1>5, <2>2, LinesLeft DEF RegisterAnswer, Traffic
  <2>4. my_status' = "ACTIVO"
    BY <2>2, <2>3, MessageKinds DEF AcceptedBy
  <2>5. Never(sent, Len(sent), "STATUS") /\ Never(inbox, Len(inbox), "STATUS_OK")
    BY <2>1 DEF Early, Handshake
  <2>6. Never(sent, served, "STATUS")
    <3>1. \A i \in 1..served : i \in 1..Len(sent)
      BY DEF Traffic
    <3> QED
      BY <2>5, <3>1 DEF Never
  <2>7. Answered("ACTIVO")'
    BY <2>3, <2>6 DEF Answered
  <2>8. Tells(inbox, "ACTIVO", "ACTIVO")
    BY <2>5 DEF Tells
  <2>9. Tells(Tail(inbox), "ACTIVO", "ACTIVO")
    <3>1. Head(inbox)[1] # "STATUS_OK"
      BY <2>2 DEF AcceptedBy
    <3>2. inbox \in Seq(Message)
      BY DEF Traffic
    <3> QED
      BY <2>2, <2>8, <3>1, <3>2, TellsLess
  <2>10. G = "ACTIVO"
    BY <2>1, <2>4 DEF Held
  <2> QED
    BY <2>3, <2>7, <2>9, <2>10 DEF Statuses
<1>6. CASE \/ Spawn \/ SpawnFails \/ LockMain \/ UnlockMain \/ Command
           \/ SendCommandFails \/ Stop \/ Join \/ Fgets \/ FgetsEof
  <2>1. /\ mpc = "spawn" \/ (mpc' # "spawn" /\ rpc' = rpc)
        /\ rpc' = rpc \/ (rpc' = "test" /\ rpc = "none")
        /\ UNCHANGED <<sent, served, inbox, got, my_status>>
    BY <1>6 DEF Spawn, SpawnFails, LockMain, UnlockMain, Command, SendCommandFails,
       Stop, Join, Fgets, FgetsEof, connection, state, receiver, Places, Handshake
  <2>2. G = H
    BY <2>1 DEF Held
  <2> QED
    BY <1>3, <2>1, <2>2
<1>7. CASE SendCommand \/ SendQuit \/ Disconnect
  <2>1. UNCHANGED <<served, inbox, my_status, got, rpc>> /\ mpc' # "spawn"
    BY <1>7 DEF SendCommand, SendQuit, Disconnect, state, receiver
  <2>2. UNCHANGED sent \/ \E l \in Request : Send(l)
    <3>1. mpc = "send" => ToProto(line) \in Request
      BY DEF Traffic, Request, Sending
    <3>2. <<"QUIT">> \in Request
      BY DEF Request
    <3> QED
      BY <1>7, <3>1, <3>2 DEF SendCommand, SendQuit, Disconnect
  <2>3. \A w : Answered(w) => Answered(w)'
    <3>1. CASE UNCHANGED sent
      BY <2>1, <3>1 DEF Answered
    <3>2. CASE \E l \in Request : Send(l)
      BY <2>1, <3>2, SendKeepsAsked DEF Answered
    <3> QED
      BY <2>2, <3>1, <3>2
  <2> QED
    BY <1>2, <2>1, <2>3
<1>8. CASE Test \/ RecvEnd \/ UnlockReceiver \/ End
  <2>1. /\ rpc \notin {"none", "lock"} /\ UNCHANGED <<sent, served, inbox, my_status>>
        /\ rpc' # "lock" \/ got' = NoLine
    BY <1>8 DEF Test, RecvEnd, UnlockReceiver, End, connection, state
  <2>2. Arg(NoLine, 1) # "STATUS_OK"
    BY DEF Arg, NoLine
  <2>3. G = my_status /\ H = my_status
    BY <2>1, <2>2 DEF Held
  <2> QED
    BY <1>3, <2>1, <2>3
<1>9. CASE LockReceiver
  <2>1. rpc = "lock" /\ rpc' = "print" /\ UNCHANGED <<sent, served, inbox>>
    BY <1>9 DEF LockReceiver, connection
  <2>2. G = my_status' /\ H = my_status'
    BY <1>9, <2>1 DEF Held, LockReceiver
  <2> QED
    BY <1>3, <2>1, <2>2
<1>10. CASE Recv
  <2>1. PICK h : h = Head(inbox)
    OBVIOUS
  <2>2. /\ rpc = "recv" /\ rpc' = "lock" /\ inbox # <<>> /\ inbox' = Tail(inbox)
        /\ got' = h /\ UNCHANGED <<sent, served, my_status>>
    BY <1>10, <2>1 DEF Recv, state
  <2>3. h \in Message
    BY <2>1, <2>2, LinesLeft DEF Traffic
  <2>4. Arg(h, 1) = h[1]
    <3>1. h \in Lines /\ h # <<>>
      BY <2>3, MessageKinds DEF NoLine
    <3>2. 1 <= Len(h)
      BY <3>1 DEF Lines
    <3> QED
      BY <3>2 DEF Arg
  <2>5. H = my_status /\ G = IF h[1] = "STATUS_OK" THEN h[2] ELSE my_status
    BY <2>2, <2>4 DEF Held
  <2>6. PICK w \in Statuses : Answered(w) /\ Tells(inbox, my_status, w)
    BY <1>1, <2>2, <2>5
  <2>7. Tells(Tail(inbox), G, w)
    <3>1. inbox \in Seq(Message)
      BY DEF Traffic
    <3> QED
      BY <2>1, <2>2, <2>5, <2>6, <3>1, TellsLess
  <2>8. Answered(w)'
    BY <2>2, <2>6 DEF Answered
  <2> QED
    BY <2>2, <2>7, <2>8
<1>11. CASE Answer
  <2>1. UNCHANGED <<mpc, rpc, got, my_status>>
    BY <1>11 DEF Answer, state, mainv, receiver
  <2>2. PICK w \in Statuses : Answered(w) /\ Tells(inbox, H, w)
    BY <1>1, <2>1
  <2>3. PICK m \in Message :
           /\ inbox' = Append(inbox, m)
           /\ m[1] = "STATUS_OK" => Answered(m[2])' /\ m[2] \in Statuses
           /\ m[1] # "STATUS_OK" => \A v : Answered(v) => Answered(v)'
    BY <1>11, AnswerMoves
  <2>4. /\ m[1] = "STATUS_OK" => Tells(Append(inbox, m), H, m[2])
        /\ m[1] # "STATUS_OK" => Tells(Append(inbox, m), H, w)
    <3>1. inbox \in Seq(Message)
      BY DEF Traffic
    <3> QED
      BY <2>2, <3>1, TellsMore
  <2>5. G = H
    BY <2>1
  <2> QED
    BY <2>2, <2>3, <2>4, <2>5
<1>12. CASE Event
  <2>1. UNCHANGED <<mpc, rpc, got, my_status, sent, served>>
    BY <1>12 DEF Event, state, mainv, receiver
  <2>2. PICK w \in Statuses : Answered(w) /\ Tells(inbox, H, w)
    BY <1>1, <2>1
  <2>3. PICK m \in Events : inbox' = Append(inbox, m)
    BY <1>12 DEF Event
  <2>4. m \in Message /\ m[1] # "STATUS_OK"
    BY EventsAssumption DEF Message
  <2>5. Tells(Append(inbox, m), H, w)
    BY <2>2, <2>4, TellsMore DEF Traffic
  <2>6. G = H /\ Answered(w)'
    BY <2>1, <2>2 DEF Answered
  <2> QED
    BY <2>3, <2>5, <2>6
<1>13. CASE \/ CloseAfterBye \/ CloseAfterClient \/ ServerStops \/ ConnectionLost
            \/ UNCHANGED vars
  <2>1. UNCHANGED <<sent, served, inbox, mpc, rpc, got, my_status>>
    BY <1>13 DEF CloseAfterBye, CloseAfterClient, ServerStops, ConnectionLost,
       CloseConnection, vars, connection, state, mainv, receiver
  <2>2. G = H
    BY <2>1
  <2> QED
    BY <1>3, <2>1, <2>2
<1> QED
  BY <1>4, <1>5, <1>6, <1>7, <1>8, <1>9, <1>10, <1>11, <1>12, <1>13
  DEF Next, Main, Receiver

\* When everything is answered and shown, what is shown is what was asked.
LEMMA QuietFollows == Follows /\ Traffic => StatusFollows
<1> SUFFICES ASSUME Follows, Traffic, Quiet PROVE my_status = AskedStatus
  BY DEF StatusFollows
<1>1. PICK w \in Statuses : Answered(w) /\ Tells(inbox, Held(rpc, got, my_status), w)
  BY DEF Follows, Quiet
<1>2. w = my_status
  <2>1. Held(rpc, got, my_status) = my_status
    BY DEF Held, Quiet
  <2>2. 1..Len(inbox) = {}
    BY DEF Quiet
  <2> QED
    BY <1>1, <2>1, <2>2 DEF Tells, Latest
<1> DEFINE asked == {i \in DOMAIN sent : sent[i][1] = "STATUS"}
           last == CHOOSE i \in asked : \A j \in asked : j <= i
<1>3. DOMAIN sent = 1..Len(sent) /\ served = Len(sent) /\ Len(sent) \in Nat
  BY DEF Traffic, Quiet
<1>4. CASE Never(sent, served, "STATUS") /\ w = "ACTIVO"
  <2>1. asked = {}
    BY <1>3, <1>4 DEF Never
  <2> QED
    BY <1>2, <1>4, <2>1 DEF AskedStatus
<1>5. ASSUME NEW i \in 1..Len(sent), sent[i][1] = "STATUS", sent[i][2] = w,
             \A j \in 1..Len(sent) : j > i => sent[j][1] # "STATUS"
      PROVE  w = AskedStatus
  <2>1. i \in asked /\ \A j \in asked : j <= i
    BY <1>3, <1>5
  <2>2. last \in asked /\ \A j \in asked : j <= last
    BY <2>1
  <2>3. last = i
    <3>1. i \in Nat /\ \A j \in asked : j \in Nat
      BY <1>3
    <3>2. last \in Nat /\ i <= last /\ last <= i
      BY <2>1, <2>2, <3>1
    <3> QED
      BY <3>1, <3>2
  <2>4. asked # {}
    BY <2>1
  <2> QED
    <3>1. AskedStatus = sent[last][2]
      BY <2>4, Zenon DEF AskedStatus
    <3> HIDE DEF last
    <3> QED
      BY <1>5, <2>3, <3>1
<1> QED
  BY <1>1, <1>2, <1>3, <1>4, <1>5 DEF Answered, Latest

\* For every run of the client, with any user and any traffic: once all answers
\* are in, the status the client shows is the one its user last asked for.
THEOREM ShowsWhatWasAsked == Spec => []StatusFollows
<1>1. Init => Typing /\ Places /\ Traffic /\ Seated /\ Sending /\ Early /\ Follows
  BY TypingInit, PlacesInit, SeatedInit, FollowsInit
<1> QED
  BY <1>1, TypingStep, PlacesStep, SeatedStep, SendingStep, EarlyStep, FollowsStep,
     QuietFollows, PTL DEF Spec

=============================================================================
