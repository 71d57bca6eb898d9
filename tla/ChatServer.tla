----------------------------- MODULE ChatServer -----------------------------
(***************************************************************************)
(* The chat server (src/server): the accept loop in the main thread, one   *)
(* detached thread per client, the inactivity monitor, the termination     *)
(* signal, and the kernel objects they share - descriptors and             *)
(* connections.  One action is one critical section of g_sessions_mutex,   *)
(* one send(), one recv_line(), or the unlocked code between two of these. *)
(*                                                                         *)
(* A definition Name_What is not the code: it is Name with a plausible     *)
(* mistake, and no behaviour uses it.  The project checks that each        *)
(* property fails when such a definition takes the place of Name.          *)
(***************************************************************************)
EXTENDS SessionTable, Sequences, FiniteSets

CONSTANTS
  Fds,            \* descriptor numbers the process has left for connections
  Timeout,        \* g_inactivity_timeout_seconds
  FirstInputs,    \* the lines a client may send first ...
  Inputs,         \* ... and the lines it may send afterwards
  SignalThreads,  \* which threads the kernel may run the signal handler on
  Closers,        \* bound: the clients that may drop their connection
  MaxLines,       \* bound: lines one client sends
  MaxClock        \* bound: seconds that pass

ASSUME FdsAssumption     == Fds \subseteq Nat
ASSUME TimeoutAssumption == Timeout \in Nat \ {0}
ASSUME ClosersAssumption == Closers \subseteq Conns
ASSUME SignalAssumption  == SignalThreads \subseteq {"main", "other"}
ASSUME BoundsAssumption  == MaxLines \in Nat /\ MaxClock \in Nat

(***************************************************************************)
(* Lines are sequences of the fields that '|' separates.  The fields are   *)
(* the words of the protocol, user names, and whatever the clients send.   *)
(***************************************************************************)
Commands == {"REGISTER", "LIST", "INFO", "STATUS", "MSG", "BROADCAST", "QUIT"}

Words ==
  Commands \cup Statuses \cup
  { "", "UNREGISTERED", "WELCOME", "CHAT/1.0", "PONG", "BYE", "ERROR", "PROTO",
    "NOT_IMPLEMENTED", "BAD_FORMAT", "DUPLICATE_NAME", "USER_NOT_FOUND",
    "UNKNOWN_CMD", "INVALID_STATUS", "REGISTER_OK", "LIST_OK", "INFO_OK",
    "STATUS_OK", "MSG_OK", "BROADCAST_OK", "DELIVER", "BROADCAST_FROM",
    "STATUS_CHANGED" }

Fields ==
  Words \cup ValidNames \cup
  UNION {{l[i] : i \in DOMAIN l} : l \in FirstInputs \cup Inputs}

ASSUME InputsAssumption ==
  FirstInputs \cup Inputs \subseteq Seq(Fields) \ {<<>>}

VARIABLES
  \* the kernel and the network
  conn,      \* conn[c]: "idle", "queued" (not accepted yet), "open", "closed"
  gone,      \* gone[c]: the peer closed, or the server called shutdown()
  fdtab,     \* fdtab[f]: the connection descriptor f refers to, or NoConn
  outq,      \* outq[c]: every line the server has put on the wire to c
  asked,     \* asked[c]: every line of c that recv_line has returned
  \* shared by the threads of the process
  sess,      \* g_sessions
  running,   \* g_server_running
  listening, \* g_server_sockfd >= 0
  clock,     \* time(NULL)
  handler,   \* handle_termination_signal on another thread: "none", "closing"
  \* the main thread
  apc, afd, aslot, atid,
  \* the client threads, named by the connection they were created for
  pc, slot, fd, job,
  \* the inactivity monitor
  mpc, mnow, notes

kernel  == <<conn, gone, fdtab, outq, asked>>
shared  == <<sess, running, listening, clock, handler>>
mainv   == <<apc, afd, aslot, atid>>
threads == <<pc, slot, fd, job>>
monitor == <<mpc, mnow, notes>>
vars    == <<kernel, shared, mainv, threads, monitor>>

-----------------------------------------------------------------------------
\* parse_message keeps three fields of a line and drops the rest.
Field(l, i) == IF i <= 3 /\ i <= Len(l) THEN l[i] ELSE ""
Type(l) == Field(l, 1)
Arg1(l) == Field(l, 2)
Arg2(l) == Field(l, 3)

Error(op, code) == <<"ERROR", op, code>>

\* What a thread keeps between two steps: the pointer update_session_activity
\* found, the line it works on, the answer it is about to send, and dst_fd.
\* "addressee" is the client of the session that was looked up; only properties
\* read it.
NoJob == [found |-> NoSlot, line |-> <<>>, reply |-> <<>>, dst |-> NoFd,
          addressee |-> NoConn]

-----------------------------------------------------------------------------
(* send(), close() and the descriptor table.                               *)

Peer(f) == IF f \in Fds THEN fdtab[f] ELSE NoConn

\* send() of line m on every descriptor of F; bytes to a closed peer are lost.
Send(F, m) ==
  outq' = [c \in Conns |-> IF ~gone[c] /\ \E f \in F : Peer(f) = c
                           THEN Append(outq[c], m) ELSE outq[c]]

\* What send_line may return: it fails for sure on a descriptor that is not
\* open, and may or may not notice that the peer is gone.
SendResults(f) ==
  CASE Peer(f) = NoConn -> {FALSE}
    [] Peer(f) # NoConn -> IF gone[Peer(f)] THEN {TRUE, FALSE} ELSE {TRUE}

FreeFds == {f \in Fds : fdtab[f] = NoConn}

CloseFd(f) ==
  /\ fdtab' = [g \in Fds |-> IF g = f THEN NoConn ELSE fdtab[g]]
  /\ conn'  = [c \in Conns |-> IF c = Peer(f) THEN "closed" ELSE conn[c]]
  /\ gone'  = [c \in Conns |-> gone[c] \/ c = Peer(f)]

-----------------------------------------------------------------------------
Init ==
  /\ conn  = [c \in Conns |-> "idle"]
  /\ gone  = [c \in Conns |-> FALSE]
  /\ fdtab = [f \in Fds |-> NoConn]
  /\ outq  = [c \in Conns |-> <<>>]
  /\ asked = [c \in Conns |-> <<>>]
  /\ sess  = [s \in Slots |-> EmptySession]
  /\ running = TRUE /\ listening = TRUE
  /\ clock = 0
  /\ handler = "none"
  /\ apc = "loop" /\ afd = NoFd /\ aslot = NoSlot /\ atid = NoConn
  /\ pc   = [c \in Conns |-> "none"]
  /\ slot = [c \in Conns |-> NoSlot]
  /\ fd   = [c \in Conns |-> NoFd]
  /\ job  = [c \in Conns |-> NoJob]
  /\ mpc = "wake" /\ mnow = 0 /\ notes = {}

-----------------------------------------------------------------------------
(* The environment: clients, time, signals.                                *)

\* While accept() blocks, the kernel keeps the listening socket alive even if
\* the signal handler has closed its descriptor.
Connect(c) ==
  /\ conn[c] = "idle"
  /\ listening \/ apc = "accept"
  /\ conn' = [conn EXCEPT ![c] = "queued"]
  /\ UNCHANGED <<gone, fdtab, outq, asked, shared, mainv, threads, monitor>>

PeerCloses(c) ==
  /\ c \in Closers
  /\ conn[c] \in {"queued", "open"} /\ ~gone[c]
  /\ gone' = [gone EXCEPT ![c] = TRUE]
  /\ UNCHANGED <<conn, fdtab, outq, asked, shared, mainv, threads, monitor>>

Tick ==
  /\ clock < MaxClock
  /\ clock' = clock + 1
  /\ UNCHANGED <<kernel, sess, running, listening, handler, mainv, threads,
                 monitor>>

\* The handler runs on the main thread: accept() returns EINTR, the loop ends.
SignalMain ==
  /\ "main" \in SignalThreads /\ running
  /\ running' = FALSE /\ listening' = FALSE
  /\ apc' = IF apc = "accept" THEN "shutdown" ELSE apc
  /\ UNCHANGED <<kernel, sess, clock, handler, afd, aslot, atid, threads,
                 monitor>>

\* The handler runs on another thread, and the main thread between its steps.
SignalOther ==
  /\ "other" \in SignalThreads /\ running
  /\ running' = FALSE /\ handler' = "closing"
  /\ UNCHANGED <<kernel, sess, listening, clock, mainv, threads, monitor>>

HandlerCloses ==
  /\ handler = "closing"
  /\ handler' = "none" /\ listening' = FALSE
  /\ UNCHANGED <<kernel, sess, running, clock, mainv, threads, monitor>>

Environment ==
  \/ \E c \in Conns : Connect(c) \/ PeerCloses(c)
  \/ Tick \/ SignalMain \/ SignalOther

-----------------------------------------------------------------------------
(* The main thread: server_start_accept_loop and server_shutdown.          *)

Loop_Forever ==
  /\ apc = "loop"
  /\ apc' = "accept"
  /\ UNCHANGED <<kernel, shared, afd, aslot, atid, threads, monitor>>

Loop ==
  /\ apc = "loop"
  /\ apc' = IF running THEN "accept" ELSE "shutdown"
  /\ UNCHANGED <<kernel, shared, afd, aslot, atid, threads, monitor>>

Accept(c) ==
  /\ apc = "accept" /\ conn[c] = "queued"
  /\ \E f \in FreeFds :
       /\ fdtab' = [fdtab EXCEPT ![f] = c]
       /\ afd' = f
  /\ conn' = [conn EXCEPT ![c] = "open"]
  /\ apc' = "add"
  /\ UNCHANGED <<gone, outq, asked, shared, aslot, atid, threads, monitor>>

\* EMFILE: perror and try again.
AcceptFails ==
  /\ apc = "accept" /\ FreeFds = {}
  /\ apc' = IF running THEN "loop" ELSE "shutdown"
  /\ UNCHANGED <<kernel, shared, afd, aslot, atid, threads, monitor>>

\* When the server is full, the accept loop closes the connection.
AfterAdd_NoClose(s) == IF s = NoSlot THEN "loop" ELSE "find"
AfterAdd_Waits(s)   == IF s = NoSlot THEN "add" ELSE "find"

AfterAdd(s) == IF s = NoSlot THEN "close" ELSE "find"

\* sessions_add
Add ==
  /\ apc = "add"
  /\ LET s == FreeSlot(sess)
     IN  /\ apc' = AfterAdd(s)
         /\ sess' = IF s = NoSlot THEN sess
                    ELSE [sess EXCEPT ![s] = NewSession(Peer(afd), afd, clock)]
  /\ UNCHANGED <<kernel, running, listening, clock, handler, afd, aslot, atid,
                 threads, monitor>>

Find ==
  /\ apc = "find"
  /\ aslot' = FindByFd(sess, afd)
  /\ apc' = IF aslot' = NoSlot THEN "drop" ELSE "spawn"
  /\ UNCHANGED <<kernel, shared, afd, atid, threads, monitor>>

\* pthread_create gives the new thread a pointer to the slot.
Spawn ==
  /\ apc = "spawn"
  /\ LET c == Peer(afd)
     IN  /\ pc'   = [pc EXCEPT ![c] = "start"]
         /\ slot' = [slot EXCEPT ![c] = aslot]
         /\ atid' = c
  /\ apc' = "settid"
  /\ UNCHANGED <<kernel, shared, afd, aslot, fd, job, monitor>>

SpawnFails ==
  /\ apc = "spawn"
  /\ apc' = "drop"
  /\ UNCHANGED <<kernel, shared, afd, aslot, atid, threads, monitor>>

\* By now the thread may have ended and the slot may be free again.
SetTid ==
  /\ apc = "settid"
  /\ sess' = [sess EXCEPT ![aslot].thread_id = atid]
  /\ apc' = "loop" /\ afd' = NoFd /\ aslot' = NoSlot /\ atid' = NoConn
  /\ UNCHANGED <<kernel, running, listening, clock, handler, threads, monitor>>

Drop_NoClose ==
  /\ apc = "drop"
  /\ sess' = RemoveByFd(sess, afd)
  /\ apc' = "loop"
  /\ UNCHANGED <<kernel, running, listening, clock, handler, afd, aslot, atid,
                 threads, monitor>>

\* sessions_remove_by_sockfd closes the descriptor only if it found a session.
Drop ==
  /\ apc = "drop"
  /\ sess' = RemoveByFd(sess, afd)
  /\ apc' = IF FindByFd(sess, afd) = NoSlot THEN "loop" ELSE "close"
  /\ UNCHANGED <<kernel, running, listening, clock, handler, afd, aslot, atid,
                 threads, monitor>>

Close ==
  /\ apc = "close"
  /\ CloseFd(afd)
  /\ apc' = "loop" /\ afd' = NoFd /\ aslot' = NoSlot /\ atid' = NoConn
  /\ UNCHANGED <<outq, asked, shared, threads, monitor>>

Shutdown ==
  /\ apc = "shutdown"
  /\ apc' = IF ~running /\ ~listening THEN "join" ELSE "shut_sessions"
  /\ running' = FALSE /\ listening' = FALSE
  /\ UNCHANGED <<kernel, sess, clock, handler, afd, aslot, atid, threads,
                 monitor>>

ShutSessions ==
  /\ apc = "shut_sessions"
  /\ gone' = [c \in Conns |->
                gone[c] \/ \E s \in Slots : sess[s].is_active
                                            /\ Peer(sess[s].sockfd) = c]
  /\ apc' = "join"
  /\ UNCHANGED <<conn, fdtab, outq, asked, shared, afd, aslot, atid, threads,
                 monitor>>

\* After pthread_join main returns, and the process and its threads are gone.
Join ==
  /\ apc = "join" /\ mpc = "done"
  /\ apc' = "exit"
  /\ UNCHANGED <<kernel, shared, afd, aslot, atid, threads, monitor>>

Main ==
  \/ Loop \/ AcceptFails \/ Add \/ Find \/ Spawn \/ SpawnFails \/ SetTid
  \/ Drop \/ Close \/ Shutdown \/ ShutSessions \/ Join
  \/ \E c \in Conns : Accept(c)

-----------------------------------------------------------------------------
(* A client thread: client_thread_main and the handlers it calls.          *)

Goto(c, label) == pc' = [pc EXCEPT ![c] = label]

\* The test of "while (g_server_running)" belongs to the step before it.
NextLoop == IF running THEN "recv" ELSE "remove"

\* send_line(fd, m); an error leaves the loop.
SendLine_NoCleanup(c, f, m) ==
  /\ Send({f}, m)
  /\ \E ok \in SendResults(f) : Goto(c, IF ok THEN NextLoop ELSE "done")

SendLine(c, f, m) ==
  /\ Send({f}, m)
  /\ \E ok \in SendResults(f) : Goto(c, IF ok THEN NextLoop ELSE "remove")

Begin(c) ==
  /\ pc[c] = "start"
  /\ fd' = [fd EXCEPT ![c] = sess[slot[c]].sockfd]
  /\ SendLine(c, sess[slot[c]].sockfd, <<"WELCOME", "CHAT/1.0">>)
  /\ UNCHANGED <<conn, gone, fdtab, asked, shared, mainv, slot, job, monitor>>

\* recv_line returns a line, and update_session_activity looks the session up.
\* What the client sent before it closed is still read.
Recv(c, l) ==
  /\ pc[c] = "recv" /\ Len(asked[c]) < MaxLines
  /\ l \in IF asked[c] = <<>> THEN FirstInputs ELSE Inputs
  /\ asked' = [asked EXCEPT ![c] = Append(@, l)]
  /\ job' = [job EXCEPT ![c].line = l, ![c].found = FindByFd(sess, fd[c])]
  /\ Goto(c, "touch")
  /\ UNCHANGED <<conn, gone, fdtab, outq, shared, mainv, slot, fd, monitor>>

\* recv_line returns 0, or an error.
RecvEnd(c) ==
  /\ pc[c] = "recv" /\ gone[c]
  /\ Goto(c, "remove")
  /\ UNCHANGED <<kernel, shared, mainv, slot, fd, job, monitor>>

\* The second critical section of update_session_activity.
Touched(session, now) ==
  [session EXCEPT !.last_activity = now,
                  !.status = IF @ = "INACTIVO" THEN "ACTIVO" ELSE @]

Touch(c) ==
  /\ pc[c] = "touch"
  /\ LET s == job[c].found
     IN  sess' = IF s # NoSlot /\ sess[s].is_active
                 THEN [sess EXCEPT ![s] = Touched(@, clock)] ELSE sess
  /\ Goto(c, "dispatch")
  /\ job' = [job EXCEPT ![c].found = NoSlot]
  /\ UNCHANGED <<kernel, running, listening, clock, handler, mainv, slot, fd,
                 monitor>>

Ping(c) ==
  /\ pc[c] = "dispatch" /\ job[c].line = <<"PING">>
  /\ SendLine(c, fd[c], <<"PONG">>)
  /\ UNCHANGED <<conn, gone, fdtab, asked, shared, mainv, slot, fd, job,
                 monitor>>

Quit_Closes(c) ==
  /\ pc[c] = "dispatch" /\ job[c].line = <<"QUIT">>
  /\ Send({fd[c]}, <<"BYE">>)
  /\ CloseFd(fd[c])
  /\ Goto(c, "remove")
  /\ UNCHANGED <<asked, shared, mainv, slot, fd, job, monitor>>

Quit_Continues(c) ==
  /\ pc[c] = "dispatch" /\ job[c].line = <<"QUIT">>
  /\ SendLine(c, fd[c], <<"BYE">>)
  /\ UNCHANGED <<conn, gone, fdtab, asked, shared, mainv, slot, fd, job,
                 monitor>>

Quit_Silent(c) ==
  /\ pc[c] = "dispatch" /\ job[c].line = <<"QUIT">>
  /\ Goto(c, NextLoop)
  /\ UNCHANGED <<kernel, shared, mainv, slot, fd, job, monitor>>

Quit(c) ==
  /\ pc[c] = "dispatch" /\ job[c].line = <<"QUIT">>
  /\ Send({fd[c]}, <<"BYE">>)
  /\ Goto(c, "remove")
  /\ UNCHANGED <<conn, gone, fdtab, asked, shared, mainv, slot, fd, job,
                 monitor>>

Unparsed(c) ==
  /\ pc[c] = "dispatch"
  /\ job[c].line # <<"PING">> /\ Type(job[c].line) \notin Commands
  /\ SendLine(c, fd[c], Error("PROTO", "NOT_IMPLEMENTED"))
  /\ UNCHANGED <<conn, gone, fdtab, asked, shared, mainv, slot, fd, job,
                 monitor>>

-----------------------------------------------------------------------------
(* handle_parsed_message: one dispatch step per command, and further steps *)
(* where a handler takes the lock again or sends.                          *)

Handles(c, command) ==
  /\ pc[c] = "dispatch" /\ job[c].line # <<"QUIT">>
  /\ Type(job[c].line) = command

\* Leave m to be sent as the last thing the handler does.
Answer(c, m) == job' = [job EXCEPT ![c].reply = m] /\ Goto(c, "reply")

HandleRegister(c) ==
  LET name == Arg1(job[c].line)
  IN  /\ Handles(c, "REGISTER")
      /\ IF name \notin ValidNames
         THEN Answer(c, Error("REGISTER", "BAD_FORMAT"))
         ELSE IF UsernameExists(sess, name)
         THEN Answer(c, Error("REGISTER", "DUPLICATE_NAME"))
         ELSE Goto(c, "reg_add") /\ UNCHANGED job
      /\ UNCHANGED <<kernel, shared, mainv, slot, fd, monitor>>

AddSession(t, user, f) ==
  LET s == FindByFd(t, f)
  IN  IF s = NoSlot THEN t
      ELSE [t EXCEPT ![s].username = user, ![s].is_registered = TRUE]

RegAdd(c) ==
  LET name == Arg1(job[c].line)
  IN  /\ pc[c] = "reg_add"
      /\ sess' = AddSession(sess, name, fd[c])
      /\ Answer(c, <<"REGISTER_OK", name, "ACTIVO">>)
      /\ UNCHANGED <<kernel, running, listening, clock, handler, mainv, slot,
                     fd, monitor>>

FindUserFd_Slot(t, user) ==
  LET s == FindByUsername(t, user)
  IN  IF s = NoSlot THEN NoFd ELSE s

FindUserFd(t, user) ==
  LET s == FindByUsername(t, user)
  IN  IF s = NoSlot THEN NoFd ELSE t[s].sockfd

HandleMsg(c) ==
  LET dst_fd == FindUserFd(sess, Arg1(job[c].line))
      s      == FindByUsername(sess, Arg1(job[c].line))
  IN  /\ Handles(c, "MSG")
      /\ IF dst_fd = NoFd
         THEN Answer(c, Error("MSG", "USER_NOT_FOUND"))
         ELSE /\ job' = [job EXCEPT ![c].dst = dst_fd,
                                    ![c].addressee = sess[s].addr]
              /\ Goto(c, "deliver")
      /\ UNCHANGED <<kernel, shared, mainv, slot, fd, monitor>>

Deliver_NoAck(c) ==
  /\ pc[c] = "deliver"
  /\ Send({job[c].dst},
          <<"DELIVER", sess[slot[c]].username, Arg2(job[c].line)>>)
  /\ job' = [job EXCEPT ![c].dst = NoFd, ![c].addressee = NoConn]
  /\ Goto(c, NextLoop)
  /\ UNCHANGED <<conn, gone, fdtab, asked, shared, mainv, slot, fd, monitor>>

Deliver(c) ==
  LET l == job[c].line
  IN  /\ pc[c] = "deliver"
      /\ Send({job[c].dst}, <<"DELIVER", sess[slot[c]].username, Arg2(l)>>)
      /\ job' = [job EXCEPT ![c].dst = NoFd, ![c].addressee = NoConn,
                            ![c].reply = <<"MSG_OK", Arg1(l)>>]
      /\ Goto(c, "reply")
      /\ UNCHANGED <<conn, gone, fdtab, asked, shared, mainv, slot, fd,
                     monitor>>

BroadcastFds(t) == {t[s].sockfd : s \in Registered(t)}

HandleBroadcast(c) ==
  /\ Handles(c, "BROADCAST")
  /\ Send(BroadcastFds(sess),
          <<"BROADCAST_FROM", sess[slot[c]].username, Arg2(job[c].line)>>)
  /\ Answer(c, <<"BROADCAST_OK">>)
  /\ UNCHANGED <<conn, gone, fdtab, asked, shared, mainv, slot, fd, monitor>>

HandleList(c) ==
  /\ Handles(c, "LIST")
  /\ Answer(c, <<"LIST_OK">> \o ListedNames(sess))
  /\ UNCHANGED <<kernel, shared, mainv, slot, fd, monitor>>

HandleInfo(c) ==
  /\ Handles(c, "INFO")
  /\ IF UsernameExists(sess, Arg1(job[c].line))
     THEN Goto(c, "info_get") /\ UNCHANGED job
     ELSE Answer(c, Error("INFO", "USER_NOT_FOUND"))
  /\ UNCHANGED <<kernel, shared, mainv, slot, fd, monitor>>

\* The user may have left since username_exists said yes.
InfoGet(c) ==
  LET user == Arg1(job[c].line)
      s    == FindByUsername(sess, user)
  IN  /\ pc[c] = "info_get"
      /\ Answer(c, IF s = NoSlot THEN Error("INFO", "UNKNOWN_CMD")
                   ELSE <<"INFO_OK", user, sess[s].status>>)
      /\ UNCHANGED <<kernel, shared, mainv, slot, fd, monitor>>

SetUserStatus(t, user, status) ==
  LET s == FindByUsername(t, user)
  IN  IF s = NoSlot THEN t ELSE [t EXCEPT ![s].status = status]

ValidStatus_Any(status) == TRUE

ValidStatus(status) == status \in Statuses

HandleStatus(c) ==
  LET status == Arg1(job[c].line)
  IN  /\ Handles(c, "STATUS")
      /\ IF ~ValidStatus(status)
         THEN /\ Answer(c, Error("STATUS", "INVALID_STATUS"))
              /\ UNCHANGED sess
         ELSE /\ sess' = SetUserStatus(sess, sess[slot[c]].username, status)
              /\ Goto(c, "status_ack") /\ UNCHANGED job
      /\ UNCHANGED <<kernel, running, listening, clock, handler, mainv, slot,
                     fd, monitor>>

StatusAck(c) ==
  /\ pc[c] = "status_ack"
  /\ Send({fd[c]}, <<"STATUS_OK", Arg1(job[c].line)>>)
  /\ Goto(c, "status_notify")
  /\ UNCHANGED <<conn, gone, fdtab, asked, shared, mainv, slot, fd, job,
                 monitor>>

StatusNotify_NotActive(c) ==
  /\ pc[c] = "status_notify"
  /\ IF Arg1(job[c].line) = "ACTIVO" THEN UNCHANGED outq
     ELSE Send(BroadcastFds(sess) \ {fd[c]},
               <<"STATUS_CHANGED", sess[slot[c]].username, Arg1(job[c].line)>>)
  /\ Goto(c, NextLoop)
  /\ UNCHANGED <<conn, gone, fdtab, asked, shared, mainv, slot, fd, job,
                 monitor>>

StatusNotify(c) ==
  /\ pc[c] = "status_notify"
  /\ Send(BroadcastFds(sess) \ {fd[c]},
          <<"STATUS_CHANGED", sess[slot[c]].username, Arg1(job[c].line)>>)
  /\ Goto(c, NextLoop)
  /\ UNCHANGED <<conn, gone, fdtab, asked, shared, mainv, slot, fd, job,
                 monitor>>

\* "QUIT|..." is not the line client_thread_main looks for; the handler says
\* BYE and returns 1, which client_thread_main takes for success.
HandleQuit(c) ==
  /\ Handles(c, "QUIT")
  /\ Send({sess[slot[c]].sockfd}, <<"BYE">>)
  /\ Goto(c, NextLoop)
  /\ UNCHANGED <<conn, gone, fdtab, asked, shared, mainv, slot, fd, job,
                 monitor>>

\* The handlers ignore what their last send() returns.
Reply(c) ==
  /\ pc[c] = "reply"
  /\ Send({sess[slot[c]].sockfd}, job[c].reply)
  /\ job' = [job EXCEPT ![c].reply = <<>>]
  /\ Goto(c, NextLoop)
  /\ UNCHANGED <<conn, gone, fdtab, asked, shared, mainv, slot, fd, monitor>>

Handle(c) ==
  \/ HandleRegister(c) \/ RegAdd(c)
  \/ HandleMsg(c) \/ Deliver(c)
  \/ HandleBroadcast(c) \/ HandleList(c)
  \/ HandleInfo(c) \/ InfoGet(c)
  \/ HandleStatus(c) \/ StatusAck(c) \/ StatusNotify(c)
  \/ HandleQuit(c) \/ Reply(c)

-----------------------------------------------------------------------------
(* sessions_remove_by_sockfd: the slot is freed under the lock, and the    *)
(* descriptor is closed after it.                                          *)

Remove(c) ==
  /\ pc[c] = "remove"
  /\ sess' = RemoveByFd(sess, fd[c])
  /\ Goto(c, IF FindByFd(sess, fd[c]) = NoSlot THEN "done" ELSE "close")
  /\ job' = [job EXCEPT ![c] = NoJob]
  /\ UNCHANGED <<kernel, running, listening, clock, handler, mainv, slot, fd,
                 monitor>>

CloseOwn(c) ==
  /\ pc[c] = "close"
  /\ CloseFd(fd[c])
  /\ Goto(c, "done")
  /\ slot' = [slot EXCEPT ![c] = NoSlot]
  /\ fd'   = [fd EXCEPT ![c] = NoFd]
  /\ UNCHANGED <<outq, asked, shared, mainv, job, monitor>>

\* Everything a client thread does without waiting for its client.
ThreadRuns(c) ==
  \/ Begin(c) \/ RecvEnd(c) \/ Touch(c)
  \/ Ping(c) \/ Quit(c) \/ Unparsed(c) \/ Handle(c)
  \/ Remove(c) \/ CloseOwn(c)

-----------------------------------------------------------------------------
(* The inactivity monitor: inactivity_monitor_main.                        *)

MonWake_ReadsOnce ==
  /\ mpc = "wake"
  /\ mpc' = IF running THEN "scan" ELSE "done"
  /\ UNCHANGED <<kernel, shared, mainv, threads, mnow, notes>>

MonWake ==
  /\ mpc = "wake"
  /\ mpc' = IF running THEN "scan" ELSE "done"
  /\ mnow' = IF running THEN clock ELSE mnow
  /\ UNCHANGED <<kernel, shared, mainv, threads, notes>>

NoteName(session) ==
  IF session.username = "" THEN "UNREGISTERED" ELSE session.username

\* The notices to send, kept by slot because they are sent in slot order;
\* "owner" is the client of the session, for properties only.
NotesFor_SlotAsFd(S) ==
  {[slot |-> s, fd |-> s, user |-> NoteName(sess[s]), owner |-> sess[s].addr]
     : s \in S}

NotesFor(S) ==
  {[slot |-> s, fd |-> sess[s].sockfd, user |-> NoteName(sess[s]),
    owner |-> sess[s].addr] : s \in S}

MonScan ==
  /\ mpc = "scan"
  /\ LET overdue == {s \in Slots : Idle(sess[s], mnow, Timeout)}
     IN  /\ sess' = [s \in Slots |->
                       IF s \in overdue
                       THEN [sess[s] EXCEPT !.status = "INACTIVO"]
                       ELSE sess[s]]
         /\ notes' = NotesFor(overdue)
         /\ mpc' = IF overdue = {} THEN "wake" ELSE "send"
  /\ UNCHANGED <<kernel, running, listening, clock, handler, mainv, threads,
                 mnow>>

\* send_line without the lock; then sleep(1).
MonSend ==
  /\ mpc = "send"
  /\ \E n \in notes :
       /\ \A other \in notes : n.slot <= other.slot
       /\ Send({n.fd}, <<"STATUS_CHANGED", n.user, "INACTIVO">>)
       /\ notes' = notes \ {n}
  /\ mpc' = IF notes' = {} THEN "wake" ELSE "send"
  /\ UNCHANGED <<conn, gone, fdtab, asked, shared, mainv, threads, mnow>>

Monitor == MonWake \/ MonScan \/ MonSend

-----------------------------------------------------------------------------
\* When main has returned, the process is gone and nothing runs any more.
Next ==
  /\ apc # "exit"
  /\ \/ Environment \/ HandlerCloses \/ Main \/ Monitor
     \/ \E c \in Conns : ThreadRuns(c)
     \/ \E c \in Conns, l \in FirstInputs \cup Inputs : Recv(c, l)

Spec == Init /\ [][Next]_vars

(***************************************************************************)
(* The scheduler runs every thread that is not blocked.  Nothing obliges a *)
(* client to connect, to send or to close, time to pass, or a signal to    *)
(* come.                                                                   *)
(***************************************************************************)
Running == apc # "exit"

Fairness ==
  /\ WF_vars(Running /\ Main)
  /\ WF_vars(Running /\ Monitor)
  /\ WF_vars(Running /\ HandlerCloses)
  /\ \A c \in Conns : WF_vars(Running /\ ThreadRuns(c))

FairSpec == Spec /\ Fairness

=============================================================================
