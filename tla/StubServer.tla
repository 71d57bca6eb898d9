----------------------------- MODULE StubServer -----------------------------
(***************************************************************************)
(* The stub the client was developed against (tests/stub_server.c): the    *)
(* accept loop in the main thread and one detached thread per client,      *)
(* which share a table of three clients under g_mutex.  One action is one  *)
(* critical section - the stub sends while it holds the lock - or one      *)
(* stub_send, recv or close between two of them.                           *)
(*                                                                         *)
(* Name_What is Name with a plausible mistake, for checking that a         *)
(* property would notice it.                                               *)
(***************************************************************************)
EXTENDS Integers, Sequences, FiniteSets

CONSTANTS
  Conns,        \* connections
  NoConn,
  MaxStub,      \* MAX_STUB_CLIENTS
  Fds,          \* descriptor numbers
  FirstInputs,  \* FirstInputs[c]: the lines c may send first ...
  Inputs,       \* ... and the lines any client may send afterwards
  Closers,      \* bound: the clients that may drop their connection
  MaxLines      \* bound: MaxLines[c] lines are sent by c

ASSUME ConnsAssumption == NoConn \notin Conns
ASSUME StubAssumption  == MaxStub \in Nat \ {0} /\ MaxLines \in [Conns -> Nat]
ASSUME FdsAssumption   == Fds \subseteq Nat /\ Closers \subseteq Conns

NoFd   == -1
NoSlot == -1
Slots  == 0 .. MaxStub - 1

VARIABLES
  \* the kernel and the network, as in ChatServer
  conn, gone, fdtab, outq, asked,
  alive,            \* the process has not been ended by SIGPIPE
  g_clients, g_count,
  \* main
  apc, afd, aslot,
  \* the client threads, named by the connection they were created for
  pc, cli, line, reply

kernel == <<conn, gone, fdtab, asked>>
table  == <<g_clients, g_count>>
mainv  == <<apc, afd, aslot>>
vars   == <<kernel, outq, alive, table, mainv, pc, cli, line, reply>>

\* StubClient; client_ip is left out.
EmptyClient == [sockfd |-> NoFd, slot |-> 0, username |-> ""]

Init ==
  /\ conn = [c \in Conns |-> "idle"] /\ gone = [c \in Conns |-> FALSE]
  /\ fdtab = [f \in Fds |-> NoConn]
  /\ outq = [c \in Conns |-> <<>>] /\ asked = [c \in Conns |-> <<>>]
  /\ alive = TRUE
  /\ g_clients = [s \in Slots |-> EmptyClient] /\ g_count = 0
  /\ apc = "accept" /\ afd = NoFd /\ aslot = NoSlot
  /\ pc = [c \in Conns |-> "none"]
  /\ cli = [c \in Conns |-> EmptyClient]
  /\ line = [c \in Conns |-> <<>>] /\ reply = [c \in Conns |-> <<>>]

Peer(f) == IF f \in Fds THEN fdtab[f] ELSE NoConn

\* stub_send of m on every descriptor of F, in a process that does not ignore
\* SIGPIPE: a send to a peer that has gone may be the end of it.
StubSend(F, m) ==
  LET to == {c \in Conns : \E f \in F : Peer(f) = c}
  IN  /\ outq' = [c \in Conns |-> IF c \in to /\ ~gone[c] THEN Append(outq[c], m)
                                  ELSE outq[c]]
      /\ alive' \in IF \E c \in to : gone[c] THEN {TRUE, FALSE} ELSE {TRUE}

Goto(c, label) == pc' = [pc EXCEPT ![c] = label]

-----------------------------------------------------------------------------
(* Clients.                                                                *)

Connect(c) ==
  /\ conn[c] = "idle"
  /\ conn' = [conn EXCEPT ![c] = "queued"]
  /\ UNCHANGED <<gone, fdtab, asked, outq, alive, table, mainv, pc, cli, line,
                 reply>>

PeerCloses(c) ==
  /\ c \in Closers /\ conn[c] \in {"queued", "open"} /\ ~gone[c]
  /\ gone' = [gone EXCEPT ![c] = TRUE]
  /\ UNCHANGED <<conn, fdtab, asked, outq, alive, table, mainv, pc, cli, line,
                 reply>>

-----------------------------------------------------------------------------
(* main                                                                    *)

FreeFds == {f \in Fds : fdtab[f] = NoConn}

\* accept() returns the lowest descriptor that is free.
Accept(c) ==
  /\ apc = "accept" /\ conn[c] = "queued" /\ FreeFds # {}
  /\ afd' = CHOOSE f \in FreeFds : \A g \in FreeFds : f <= g
  /\ fdtab' = [fdtab EXCEPT ![afd'] = c]
  /\ conn' = [conn EXCEPT ![c] = "open"]
  /\ apc' = "find"
  /\ UNCHANGED <<gone, asked, outq, alive, table, aslot, pc, cli, line, reply>>

FreeSlots == {s \in Slots : g_clients[s].sockfd = NoFd}

FindSlot_NotTested ==
  /\ apc = "find"
  /\ aslot' = IF FreeSlots = {} THEN NoSlot
              ELSE CHOOSE s \in FreeSlots : \A t \in FreeSlots : s <= t
  /\ apc' = "reserve"
  /\ UNCHANGED <<kernel, outq, alive, table, afd, pc, cli, line, reply>>

FindSlot_Waits ==
  /\ apc = "find" /\ FreeSlots # {}
  /\ aslot' = CHOOSE s \in FreeSlots : \A t \in FreeSlots : s <= t
  /\ apc' = "reserve"
  /\ UNCHANGED <<kernel, outq, alive, table, afd, pc, cli, line, reply>>

FindSlot ==
  /\ apc = "find"
  /\ aslot' = IF FreeSlots = {} THEN NoSlot
              ELSE CHOOSE s \in FreeSlots : \A t \in FreeSlots : s <= t
  /\ apc' = IF FreeSlots = {} THEN "full" ELSE "reserve"
  /\ UNCHANGED <<kernel, outq, alive, table, afd, pc, cli, line, reply>>

Full ==
  /\ apc = "full"
  /\ StubSend({afd}, <<"ERROR", "REGISTER", "SERVER_FULL">>)
  /\ apc' = "close"
  /\ UNCHANGED <<kernel, table, afd, aslot, pc, cli, line, reply>>

CloseFd(f) ==
  /\ fdtab' = [fdtab EXCEPT ![f] = NoConn]
  /\ conn' = [conn EXCEPT ![Peer(f)] = "closed"]
  /\ gone' = [gone EXCEPT ![Peer(f)] = TRUE]

CloseFull ==
  /\ apc = "close"
  /\ CloseFd(afd)
  /\ apc' = "accept" /\ afd' = NoFd
  /\ UNCHANGED <<asked, outq, alive, table, aslot, pc, cli, line, reply>>

Reserve ==
  /\ apc = "reserve"
  /\ g_clients' = [g_clients EXCEPT ![aslot].sockfd = afd]
  /\ apc' = "spawn"
  /\ UNCHANGED <<kernel, outq, alive, g_count, afd, aslot, pc, cli, line, reply>>

\* The thread takes a copy of the struct main has prepared for it.
SpawnAs(label) ==
  /\ apc = "spawn"
  /\ Goto(Peer(afd), label)
  /\ cli' = [cli EXCEPT ![Peer(afd)] =
               [sockfd |-> afd, slot |-> aslot, username |-> ""]]
  /\ apc' = "accept" /\ afd' = NoFd /\ aslot' = NoSlot
  /\ UNCHANGED <<kernel, outq, table, line, reply>>

Spawn == SpawnAs("start") /\ UNCHANGED alive

\* What pthread_create returns is not looked at: the slot and the descriptor
\* stay taken, and pthread_detach gets a thread id nobody has set.
SpawnFails == SpawnAs("unborn") /\ alive' \in BOOLEAN

Main ==
  \/ \E c \in Conns : Accept(c)
  \/ FindSlot \/ Full \/ CloseFull \/ Reserve \/ Spawn

-----------------------------------------------------------------------------
(* client_thread                                                           *)

Welcome(c) ==
  /\ pc[c] = "start"
  /\ StubSend({cli[c].sockfd}, <<"WELCOME", "CHAT/1.0">>)
  /\ Goto(c, "recv")
  /\ UNCHANGED <<kernel, table, mainv, cli, line, reply>>

Recv(c) ==
  /\ pc[c] = "recv" /\ Len(asked[c]) < MaxLines[c]
  /\ \E l \in IF asked[c] = <<>> THEN FirstInputs[c] ELSE Inputs :
       /\ asked' = [asked EXCEPT ![c] = Append(@, l)]
       /\ line' = [line EXCEPT ![c] = l]
  /\ Goto(c, "handle")
  /\ UNCHANGED <<conn, gone, fdtab, outq, alive, table, mainv, cli, reply>>

RecvEnd_Continues(c) ==
  /\ pc[c] = "recv" /\ gone[c]
  /\ UNCHANGED vars

RecvEnd(c) ==
  /\ pc[c] = "recv" /\ gone[c]
  /\ Goto(c, "cleanup")
  /\ UNCHANGED <<kernel, outq, alive, table, mainv, cli, line, reply>>

Cleanup_KeepsName(c) ==
  /\ pc[c] = "cleanup"
  /\ IF cli[c].username = "" THEN UNCHANGED table
     ELSE /\ g_clients' = [g_clients EXCEPT ![cli[c].slot].sockfd = NoFd]
          /\ g_count' = IF g_count > 0 THEN g_count - 1 ELSE 0
  /\ Goto(c, "close")
  /\ UNCHANGED <<kernel, outq, alive, mainv, cli, line, reply>>

\* Only a registered client gives its slot back.
Cleanup(c) ==
  /\ pc[c] = "cleanup"
  /\ IF cli[c].username = "" THEN UNCHANGED table
     ELSE /\ g_clients' = [g_clients EXCEPT ![cli[c].slot].username = "",
                                            ![cli[c].slot].sockfd = NoFd]
          /\ g_count' = IF g_count > 0 THEN g_count - 1 ELSE 0
  /\ Goto(c, "close")
  /\ UNCHANGED <<kernel, outq, alive, mainv, cli, line, reply>>

Close(c) ==
  /\ pc[c] = "close"
  /\ CloseFd(cli[c].sockfd)
  /\ Goto(c, "done")
  /\ UNCHANGED <<asked, outq, alive, table, mainv, cli, line, reply>>

-----------------------------------------------------------------------------
(* handle_message                                                          *)

Arg(l, i) == IF i < Len(l) THEN l[i + 1] ELSE ""

Handles(c, command) == pc[c] = "handle" /\ line[c][1] = command

\* What is left to do is to send m, and then to go on or, for -1, to end.
Answer(c, m, next) ==
  /\ reply' = [reply EXCEPT ![c] = m]
  /\ Goto(c, next)

Error(op, code) == <<"ERROR", op, code>>

\* The duplicate check looks at the first g_count slots.  If g_count is more than
\* the table has, what it reads behind it is anybody's guess.
MayBeDuplicate(name) ==
  LET found == \E s \in Slots : s < g_count /\ g_clients[s].username = name
  IN  IF found THEN {TRUE} ELSE IF g_count > MaxStub THEN BOOLEAN ELSE {FALSE}

Register(c) ==
  LET name == Arg(line[c], 1)
  IN  /\ Handles(c, "REGISTER")
      /\ IF name = "" THEN Answer(c, Error("REGISTER", "BAD_FORMAT"), "refuse")
         ELSE \E dup \in MayBeDuplicate(name) :
                IF dup THEN Answer(c, Error("REGISTER", "DUPLICATE_NAME"), "refuse")
                ELSE Goto(c, "reg_set") /\ UNCHANGED reply
      /\ UNCHANGED <<kernel, outq, alive, table, mainv, cli, line>>

RegSet_NoCount(c) ==
  LET me == [cli[c] EXCEPT !.username = Arg(line[c], 1)]
  IN  /\ pc[c] = "reg_set"
      /\ cli' = [cli EXCEPT ![c] = me]
      /\ g_clients' = [g_clients EXCEPT ![me.slot] = me]
      /\ Answer(c, <<"REGISTER_OK", me.username, "ACTIVO">>, "reply")
      /\ UNCHANGED <<kernel, outq, alive, g_count, mainv, line>>

RegSet(c) ==
  LET me == [cli[c] EXCEPT !.username = Arg(line[c], 1)]
  IN  /\ pc[c] = "reg_set"
      /\ cli' = [cli EXCEPT ![c] = me]
      /\ g_clients' = [g_clients EXCEPT ![me.slot] = me]
      /\ g_count' = g_count + 1
      /\ Answer(c, <<"REGISTER_OK", me.username, "ACTIVO">>, "reply")
      /\ UNCHANGED <<kernel, outq, alive, mainv, line>>

Named == {s \in Slots : g_clients[s].username # ""}

List(c) ==
  /\ Handles(c, "LIST")
  /\ Answer(c, <<"LIST_OK">>, "reply")
  /\ UNCHANGED <<kernel, outq, alive, table, mainv, cli, line>>

\* The first slot with the name, a free one for the empty name.
SlotOf(name) ==
  LET S == {s \in Slots : g_clients[s].username = name}
  IN  IF S = {} THEN NoSlot ELSE CHOOSE s \in S : \A t \in S : s <= t

Info(c) ==
  LET name == Arg(line[c], 1)
  IN  /\ Handles(c, "INFO")
      /\ Answer(c, IF SlotOf(name) = NoSlot THEN Error("INFO", "USER_NOT_FOUND")
                   ELSE <<"INFO_OK", name, "ACTIVO">>, "reply")
      /\ UNCHANGED <<kernel, outq, alive, table, mainv, cli, line>>

Status(c) ==
  LET status == Arg(line[c], 1)
      others == {g_clients[s].sockfd : s \in Named} \ {cli[c].sockfd}
  IN  /\ Handles(c, "STATUS")
      /\ IF status \in {"ACTIVO", "OCUPADO", "INACTIVO"}
         THEN /\ StubSend(others, <<"STATUS_CHANGED", cli[c].username, status>>)
              /\ Answer(c, <<"STATUS_OK", status>>, "reply")
         ELSE /\ Answer(c, Error("STATUS", "INVALID_STATUS"), "reply")
              /\ UNCHANGED <<outq, alive>>
      /\ UNCHANGED <<kernel, table, mainv, cli, line>>

Msg(c) ==
  LET dest == IF Len(line[c]) < 3 THEN "" ELSE Arg(line[c], 1)
      s    == SlotOf(dest)
  IN  /\ Handles(c, "MSG")
      /\ IF s = NoSlot
         THEN /\ Answer(c, Error("MSG", "USER_NOT_FOUND"), "reply")
              /\ UNCHANGED <<outq, alive>>
         ELSE /\ StubSend({g_clients[s].sockfd},
                          <<"DELIVER", cli[c].username, Arg(line[c], 2)>>)
              /\ Answer(c, <<"MSG_OK", dest>>, "reply")
      /\ UNCHANGED <<kernel, table, mainv, cli, line>>

Broadcast(c) ==
  /\ Handles(c, "BROADCAST")
  /\ StubSend({g_clients[s].sockfd : s \in Named},
              <<"BROADCAST_FROM", cli[c].username, Arg(line[c], 1)>>)
  /\ Answer(c, <<"BROADCAST_OK">>, "reply")
  /\ UNCHANGED <<kernel, table, mainv, cli, line>>

Quit(c) ==
  /\ Handles(c, "QUIT")
  /\ Answer(c, <<"BYE">>, "refuse")
  /\ UNCHANGED <<kernel, outq, alive, table, mainv, cli, line>>

Commands ==
  {"REGISTER", "LIST", "INFO", "STATUS", "MSG", "BROADCAST", "QUIT"}

Unknown(c) ==
  /\ pc[c] = "handle" /\ line[c][1] \notin Commands
  /\ Answer(c, Error(line[c][1], "UNKNOWN_CMD"), "reply")
  /\ UNCHANGED <<kernel, outq, alive, table, mainv, cli, line>>

\* The stub_send every branch of handle_message ends with.
Reply_StaysOnRefusal(c) ==
  /\ pc[c] \in {"reply", "refuse"}
  /\ StubSend({cli[c].sockfd}, reply[c])
  /\ reply' = [reply EXCEPT ![c] = <<>>] /\ line' = [line EXCEPT ![c] = <<>>]
  /\ Goto(c, IF pc[c] = "reply" THEN "recv" ELSE "close")
  /\ UNCHANGED <<kernel, table, mainv, cli>>

Reply_FallsThrough(c) ==
  /\ pc[c] \in {"reply", "refuse"}
  /\ StubSend({cli[c].sockfd}, reply[c])
  /\ reply' = [reply EXCEPT ![c] = <<>>]
  /\ Goto(c, IF pc[c] = "reply" THEN "recv"
             ELSE IF line[c][1] = "REGISTER" THEN "reg_set" ELSE "cleanup")
  /\ UNCHANGED <<kernel, table, mainv, cli, line>>

Reply(c) ==
  /\ pc[c] \in {"reply", "refuse"}
  /\ StubSend({cli[c].sockfd}, reply[c])
  /\ reply' = [reply EXCEPT ![c] = <<>>] /\ line' = [line EXCEPT ![c] = <<>>]
  /\ Goto(c, IF pc[c] = "reply" THEN "recv" ELSE "cleanup")
  /\ UNCHANGED <<kernel, table, mainv, cli>>

Handle(c) ==
  \/ Register(c) \/ RegSet(c) \/ List(c) \/ Info(c) \/ Status(c) \/ Msg(c)
  \/ Broadcast(c) \/ Quit(c) \/ Unknown(c) \/ Reply(c)

\* Everything a client thread does without waiting for its client.
ThreadRuns(c) ==
  Welcome(c) \/ RecvEnd(c) \/ Handle(c) \/ Cleanup(c) \/ Close(c)

-----------------------------------------------------------------------------
Next ==
  /\ alive
  /\ \/ Main \/ SpawnFails
     \/ \E c \in Conns : Connect(c) \/ PeerCloses(c) \/ Recv(c) \/ ThreadRuns(c)

Spec == Init /\ [][Next]_vars

(***************************************************************************)
(* Threads run unless they wait for a client; clients need do nothing.     *)
(***************************************************************************)
Fairness ==
  /\ WF_vars(alive /\ Main)
  /\ \A c \in Conns : WF_vars(alive /\ ThreadRuns(c))

FairSpec == Spec /\ Fairness

=============================================================================
