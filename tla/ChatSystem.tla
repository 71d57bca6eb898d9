----------------------------- MODULE ChatSystem -----------------------------
(***************************************************************************)
(* The clients of this repository and the server, together: the lines the  *)
(* server reads are the ones the client program has sent, in their order,  *)
(* and the client program goes on when it has the line it waits for.       *)
(*                                                                         *)
(* The server is ChatServer, step by step.  Of the client only the steps   *)
(* that the server can notice are here, those of main_client.c and         *)
(* input_loop.c that connect, send or close; ChatClient has the threads    *)
(* behind them.  Once the user chats, the receiver thread takes all lines  *)
(* as they come, and only the end of the conversation depends on it.       *)
(***************************************************************************)
EXTENDS ChatServerProperties

CONSTANTS
  NameOf,  \* NameOf[c]: the name client c is started with
  Plans    \* what the users may have in mind

(***************************************************************************)
(* A plan bounds a behaviour: client c dials when those of after[c] are in *)
(* or gone - never, if c \in after[c] - its user gives at most count[c]    *)
(* commands out of types[c], and may end with /quit if c \in quits; the    *)
(* clients of crashes may be killed; and so many seconds pass.             *)
(***************************************************************************)
PlanType ==
  [ after : [Conns -> SUBSET Conns], types : [Conns -> SUBSET Inputs],
    count : [Conns -> Nat], quits : SUBSET Conns, crashes : SUBSET Conns,
    seconds : Nat ]

ASSUME NameOfAssumption == NameOf \in [Conns -> ValidNames]
ASSUME PlansAssumption  == Plans \subseteq PlanType
ASSUME LinesAssumption  ==
  /\ \A c \in Conns : <<"REGISTER", NameOf[c]>> \in FirstInputs
  /\ <<"QUIT">> \in Inputs
  /\ \A p \in Plans : \A c \in Conns : MaxLines >= p.count[c] + 3

\* What command_to_proto makes of the commands users type; its QUIT is TypesQuit.
Typed == {"LIST", "INFO", "STATUS", "MSG", "BROADCAST"}

ASSUME TypesAssumption ==
  \A p \in Plans : \A c \in Conns : \A l \in p.types[c] : l[1] \in Typed

VARIABLES
  plan,  \* chosen once and for all
  cpc,   \* cpc[c]: where the client is: "off", "welcome",
         \* "answer", "chat", "quitting" or "ended"
  wire   \* wire[c]: lines it has sent that recv_line has not returned yet

clients == <<plan, cpc, wire>>
sysVars == <<vars, clients>>

SysInit ==
  /\ Init
  /\ plan \in Plans
  /\ cpc  = [c \in Conns |-> "off"]
  /\ wire = [c \in Conns |-> <<>>]

-----------------------------------------------------------------------------
(* The client program.                                                     *)

Goes(c, label) == cpc' = [cpc EXCEPT ![c] = label]
Sends(c, l)    == wire' = [wire EXCEPT ![c] = Append(@, l)]

SentBy(c) == asked[c] \o wire[c]

\* close(), or the end of the process.
Hangs(c) ==
  /\ gone' = [gone EXCEPT ![c] = TRUE]
  /\ Goes(c, "ended")
  /\ UNCHANGED <<conn, fdtab, outq, asked, shared, mainv, threads, monitor>>

\* client_connect
Dial(c) ==
  /\ cpc[c] = "off"
  /\ \A d \in plan.after[c] : cpc[d] \in {"chat", "quitting", "ended"}
  /\ Connect(c) /\ Goes(c, "welcome")
  /\ UNCHANGED <<plan, wire>>

\* client_register: WELCOME must be the first line.
HearsWelcome(c) ==
  /\ cpc[c] = "welcome" /\ outq[c] # <<>>
  /\ outq[c][1][1] = "WELCOME"
  /\ Sends(c, <<"REGISTER", NameOf[c]>>) /\ Goes(c, "answer")
  /\ UNCHANGED <<vars, plan>>

\* ... and REGISTER_OK the second.
HearsAnswer(c) ==
  /\ cpc[c] = "answer" /\ Len(outq[c]) >= 2
  /\ outq[c][2][1] = "REGISTER_OK"
  /\ Goes(c, "chat")
  /\ UNCHANGED <<vars, plan, wire>>

\* Any other line, or the end of the connection, ends the client without QUIT.
GivesUp(c) ==
  LET n == IF cpc[c] = "welcome" THEN 1 ELSE 2
      awaited == <<"WELCOME", "REGISTER_OK">>[n]
  IN  /\ cpc[c] \in {"welcome", "answer"}
      /\ IF Len(outq[c]) >= n THEN outq[c][n][1] # awaited
                              ELSE conn[c] = "closed"
      /\ Hangs(c) /\ UNCHANGED <<plan, wire>>

Types(c, l) ==
  /\ cpc[c] = "chat" /\ Len(SentBy(c)) <= plan.count[c]
  /\ l \in plan.types[c]
  /\ Sends(c, l)
  /\ UNCHANGED <<vars, plan, cpc>>

\* /quit, or the end of the input.
TypesQuit(c) ==
  /\ cpc[c] = "chat" /\ c \in plan.quits
  /\ Sends(c, <<"QUIT">>) /\ Goes(c, "quitting")
  /\ UNCHANGED <<vars, plan>>

\* With running = 0 the receiver ends when it tests the flag, or else with the
\* next line; then client_disconnect sends QUIT once more, and closes.
Leaves(c) ==
  /\ cpc[c] = "quitting"
  /\ Sends(c, <<"QUIT">>)
  /\ Hangs(c) /\ UNCHANGED plan

Released(c) == conn[c] = "closed" \/ \E k \in DOMAIN outq[c] : outq[c][k] = <<"BYE">>

Crashes(c) ==
  /\ c \in plan.crashes /\ cpc[c] \notin {"off", "ended"}
  /\ Hangs(c) /\ UNCHANGED <<plan, wire>>

\* What a client does without waiting for its user, or for the server.
Client(c) == HearsWelcome(c) \/ HearsAnswer(c) \/ GivesUp(c) \/ (Released(c) /\ Leaves(c))

-----------------------------------------------------------------------------
(* The server, fed by the clients.                                         *)

\* When the client has closed, recv may fail although lines are unread.
Reads(c) ==
  /\ wire[c] # <<>> /\ Recv(c, Head(wire[c]))
  /\ wire' = [wire EXCEPT ![c] = Tail(@)]
  /\ UNCHANGED <<plan, cpc>>

Server ==
  /\ Main \/ Monitor \/ (Tick /\ clock < plan.seconds)
  /\ UNCHANGED clients

Serves(c) == Reads(c) \/ (ThreadRuns(c) /\ UNCHANGED clients)

SysNext ==
  \/ Server
  \/ \E c \in Conns :
       \/ Serves(c)
       \/ Dial(c) \/ HearsWelcome(c) \/ HearsAnswer(c) \/ GivesUp(c)
       \/ TypesQuit(c) \/ Leaves(c) \/ Crashes(c)
       \/ \E l \in Inputs : Types(c, l)

SysSpec == SysInit /\ [][SysNext]_sysVars

(***************************************************************************)
(* All threads of the server and the clients run; users need not type.     *)
(***************************************************************************)
SysFairness ==
  /\ WF_sysVars(Main /\ UNCHANGED clients)
  /\ WF_sysVars(Monitor /\ UNCHANGED clients)
  /\ \A c \in Conns : WF_sysVars(Serves(c)) /\ WF_sysVars(Client(c))

FairSysSpec == SysSpec /\ SysFairness

=============================================================================
