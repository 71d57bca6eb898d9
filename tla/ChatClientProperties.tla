------------------------- MODULE ChatClientProperties -------------------------
(* What the client process must do, stated over ChatClient.                    *)
EXTENDS ChatClient

\* The words of the protocol, and those that users type.
Words ==
  Statuses \cup
  { User, Phrase, "CHAT/1.0", "WELCOME", "REGISTER", "REGISTER_OK", "QUIT", "BYE", "ERROR",
    "LIST", "LIST_OK", "INFO", "INFO_OK", "STATUS", "STATUS_OK", "MSG", "MSG_OK",
    "BROADCAST", "BROADCAST_OK" }
  \cup UNION {{l[i] : i \in DOMAIN l} : l \in Typed \cup Events}

Lines == Seq(Words)

\* Types: every variable of the client has one of the values its code can give
\* it, and only a status of the protocol is shown.
TypeOK ==
  /\ sent \in Seq(Lines) /\ served \in 0..Len(sent) /\ inbox \in Seq(Lines)
  /\ server \in {"down", "up", "closed"} /\ reset \in BOOLEAN
  /\ events \in 0..MaxEvents /\ registered \in BOOLEAN
  /\ sockfd \in {"none", "open", "closed"} /\ running \in BOOLEAN
  /\ mutex \in {"free", "main", "receiver"} /\ my_status \in Statuses
  /\ mpc \in {"connect", "welcome", "register", "answer", "fail", "spawn",
              "prompt", "print", "fgets", "command", "send", "quit", "stop",
              "join", "disconnect", "exit"}
  /\ line \in Lines /\ typed \in 0..MaxTyped
  /\ rpc \in {"none", "test", "recv", "lock", "print", "end", "done"}
  /\ got \in Lines

ReceiverLives == rpc \notin {"none", "done"}

\* While the receiver thread lives, the socket it reads is open: client_run
\* joins the thread before client_disconnect closes, on /quit, EOF, BYE and
\* every error.
SocketHeld == ReceiverLives => sockfd = "open"

Chatting ==
  mpc \in {"spawn", "prompt", "print", "fgets", "command", "send", "quit",
          "stop", "join"}

\* The user gets to chat only once the server has registered the name, whatever
\* lines reach the client during client_register.
ChatsOnlyRegistered == Chatting => registered

\* The status the last STATUS line asked for, or the one of REGISTER_OK.
AskedStatus ==
  LET asked == {i \in DOMAIN sent : sent[i][1] = "STATUS"}
  IN  IF asked = {} THEN "ACTIVO"
      ELSE sent[CHOOSE i \in asked : \A j \in asked : j <= i][2]

\* Everything sent has been answered, and every answer has been shown.
Quiet == /\ rpc \in {"test", "recv"} /\ served = Len(sent) /\ inbox = <<>>
         /\ server = "up"

\* Once all answers are in, the status the client shows is the one its user last
\* asked for: command_to_proto sends only what the server will confirm.
StatusFollows == Quiet => my_status = AskedStatus

\* After /quit or EOF the process ends, whatever the receiver is doing and
\* whether or not the connection still stands: BYE or EOF wakes the receiver.
ExitsOnQuit == (mpc = "quit") ~> (mpc = "exit")

\* When the conversation is over the main thread is never stuck on a lock or a
\* join: it ends, or waits for the user to press Enter.
OneEnterEnough == ~running ~> mpc \in {"fgets", "exit"}

===============================================================================
