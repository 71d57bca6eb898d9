------------------------- MODULE ChatServerProperties -------------------------
(***************************************************************************)
(* What the server of ChatServer must do.  Every property is about more    *)
(* than one thread, or about a state and an earlier one.                   *)
(***************************************************************************)
EXTENDS ChatServer, SeqFunctions

MainLabels ==
  {"loop", "accept", "add", "find", "spawn", "settid", "drop", "close",
   "shutdown", "shut_sessions", "join", "exit"}

ThreadLabels ==
  {"none", "start", "recv", "touch", "dispatch", "reg_add", "deliver",
   "info_get", "status_ack", "status_notify", "reply", "remove", "close",
   "done"}

Line == Seq(Fields)

Job ==
  [ found : Slots \cup {NoSlot}, line : Line, reply : Line,
    dst : Fds \cup {NoFd}, addressee : Conns \cup {NoConn} ]

Note ==
  [ slot : Slots, fd : Fds \cup {NoFd}, user : Fields,
    owner : Conns \cup {NoConn} ]

\* The types of all variables; in particular every pointer into g_sessions
\* that a thread keeps across an unlock is NULL or points into the array.
TypeOK ==
  /\ conn \in [Conns -> {"idle", "queued", "open", "closed"}]
  /\ gone \in [Conns -> BOOLEAN]
  /\ fdtab \in [Fds -> Conns \cup {NoConn}]
  /\ outq \in [Conns -> Seq(Line)]
  /\ asked \in [Conns -> Seq(Line)]
  /\ sess \in [Slots -> Session]
  /\ \A s \in Slots : sess[s].sockfd \in Fds \cup {NoFd}
  /\ running \in BOOLEAN /\ listening \in BOOLEAN
  /\ clock \in Nat
  /\ handler \in {"none", "closing"}
  /\ apc \in MainLabels
  /\ afd \in Fds \cup {NoFd}
  /\ aslot \in Slots \cup {NoSlot}
  /\ atid \in Conns \cup {NoConn}
  /\ pc \in [Conns -> ThreadLabels]
  /\ slot \in [Conns -> Slots \cup {NoSlot}]
  /\ fd \in [Conns -> Fds \cup {NoFd}]
  /\ job \in [Conns -> Job]
  /\ mpc \in {"wake", "scan", "send", "done"}
  /\ mnow \in Nat
  /\ notes \subseteq Note

-------------------------------------------------------------------------------
(* Ownership of slots and descriptors.                                         *)

\* A thread that has not given its session up yet.
Holding(c) == pc[c] \notin {"none", "close", "done"}

\* Between sessions_add and pthread_create only main knows of the session.
MainHolds(s) ==
  apc \in {"find", "spawn", "drop"} /\ sess[s].sockfd = afd

\* The pointer client_thread_main keeps for its whole life stays good: until the
\* thread itself removes the session, the slot is active, is its client's, and
\* the descriptor in it still is its client's connection (client_thread.c:44-120
\* reads session->... without the lock while others add and remove sessions).
SessionPinned ==
  \A c \in Conns : Holding(c) =>
    /\ slot[c] \in Slots
    /\ sess[slot[c]].is_active
    /\ sess[slot[c]].addr = c
    /\ Peer(sess[slot[c]].sockfd) = c

\* No slot is lost: an active slot belongs to a thread that will free it, or to
\* the accept loop while it is starting that thread (accept_loop.c:95-115).
NoSlotLeak ==
  \A s \in Slots : sess[s].is_active =>
    MainHolds(s) \/ \E c \in Conns : Holding(c) /\ slot[c] = s

\* No descriptor is lost: an open connection belongs to a thread that has not
\* ended, or to the accept loop - not after a refusal, not after a failed
\* pthread_create or WELCOME (accept_loop.c:95-115, client_thread.c:64-68).
NoFdLeak ==
  \A c \in Conns : conn[c] = "open" =>
    \/ pc[c] \notin {"none", "done"}
    \/ apc \in {"add", "find", "spawn", "drop", "close"} /\ Peer(afd) = c

\* Nobody closes a descriptor that has meanwhile become somebody else's: the
\* close() after the unlock in sessions_remove_by_sockfd
\* (session_manager.c:89-93) hits the connection the session was for.
CloseOwnFd ==
  [][\A c \in Conns : conn[c] = "open" /\ conn'[c] = "closed" =>
       pc[c] = "close" \/ (apc = "close" /\ pc[c] = "none")]_vars

\* A free slot keeps nothing of its last client but possibly the thread id, and
\* an active slot never has the thread id of another client's thread, although
\* the accept loop writes it through a pointer to a slot that may have been
\* freed by then (accept_loop.c:117-119).
SlotsClean ==
  \A s \in Slots :
    IF sess[s].is_active
    THEN sess[s].thread_id \in {NoConn, sess[s].addr}
    ELSE /\ sess[s].sockfd = NoFd /\ sess[s].addr = NoConn
         /\ sess[s].username = "" /\ ~sess[s].is_registered

\* update_session_activity uses a pointer it got before it let the lock go
\* (client_thread.c:12-24): it is still the session of its own thread.
TouchesOwnSession ==
  \A c \in Conns : pc[c] = "touch" => job[c].found = slot[c]

\* What is sent without the lock to a descriptor looked up under it
\* (handlers.c:75-85, inactivity.c:33-44) goes to the client it was meant for as
\* long as that client's connection has not been closed.
StrayOnlyAfterClose ==
  /\ \A c \in Conns : pc[c] = "deliver" /\ conn[job[c].addressee] # "closed" =>
       Peer(job[c].dst) = job[c].addressee
  /\ \A n \in notes : conn[n.owner] # "closed" => Peer(n.fd) = n.owner

-------------------------------------------------------------------------------
(* Why ownership holds: the inductive invariant of ChatServerProofs.           *)

\* A connection is open exactly while one descriptor refers to it.
TableInv ==
  /\ \A f, g \in Fds : fdtab[f] = fdtab[g] /\ fdtab[f] # NoConn => f = g
  /\ \A c \in Conns : conn[c] = "open" <=> \E f \in Fds : fdtab[f] = c
  /\ \A c \in Conns : pc[c] # "none" => conn[c] \in {"open", "closed"}

\* What main knows at each of its steps.
MainInv ==
  /\ apc \in {"add", "find", "spawn", "drop", "close"} =>
       Peer(afd) \in Conns /\ pc[Peer(afd)] = "none"
  /\ apc \in {"add", "close"} =>
       \A s \in Slots : sess[s].is_active => sess[s].sockfd # afd
  /\ apc \in {"find", "spawn", "drop"} =>
       \E s \in Slots : sess[s].is_active /\ sess[s].sockfd = afd
  /\ apc = "spawn" =>
       aslot \in Slots /\ sess[aslot].is_active /\ sess[aslot].sockfd = afd
  /\ apc = "settid" =>
       /\ aslot \in Slots
       /\ sess[aslot].is_active => sess[aslot].addr = atid

\* An active slot has its client's descriptor, and an owner.
SlotInv ==
  /\ \A s \in Slots : sess[s].is_active =>
       /\ sess[s].addr \in Conns /\ Peer(sess[s].sockfd) = sess[s].addr
       /\ MainHolds(s) \/ (Holding(sess[s].addr) /\ slot[sess[s].addr] = s)
  /\ \A r, s \in Slots :
       sess[r].is_active /\ sess[s].is_active
       /\ sess[r].sockfd = sess[s].sockfd => r = s

\* What a client thread knows at each of its steps.
ThreadInv ==
  \A c \in Conns :
    /\ Holding(c) =>
         /\ slot[c] \in Slots
         /\ sess[slot[c]].is_active /\ sess[slot[c]].addr = c
         /\ pc[c] # "start" => fd[c] = sess[slot[c]].sockfd
    /\ pc[c] = "touch" => job[c].found = slot[c]
    /\ pc[c] = "close" => Peer(fd[c]) = c
    /\ pc[c] = "deliver" => job[c].addressee \in Conns

NotesInv == \A n \in notes : n.owner \in Conns

Ownership ==
  /\ TableInv /\ MainInv /\ SlotInv /\ ThreadInv /\ NotesInv
  /\ SlotsClean /\ NoFdLeak /\ StrayOnlyAfterClose
  /\ mnow <= clock

-------------------------------------------------------------------------------
(* Messages.                                                                   *)

EventKinds == {"DELIVER", "BROADCAST_FROM", "STATUS_CHANGED"}

IsEvent(m) == m[1] \in EventKinds

Replies(c) == Without(outq[c], EventKinds)

-------------------------------------------------------------------------------
(* Inactivity.                                                                 *)

\* The monitor marks only sessions that have been silent for the whole timeout
\* at the moment it marks them, although it read the time before it took the
\* lock and threads may have touched their sessions since (inactivity.c:17-25).
NoPrematureInactive ==
  [][\A s \in Slots :
       /\ mpc = "scan" /\ mpc' # "scan"
       /\ sess[s].status # "INACTIVO" /\ sess'[s].status = "INACTIVO"
       => sess[s].is_active /\ clock - sess[s].last_activity >= Timeout]_vars

Overdue(s) == Idle(sess[s], clock, Timeout)

\* While the server runs, a session that is overdue is marked, touched or gone
\* in the end (inactivity.c:15-51).
OverdueMarked ==
  \A s \in Slots : Overdue(s) ~> (~Overdue(s) \/ ~running)

-------------------------------------------------------------------------------
(* Liveness.                                                                   *)

\* A client that disconnects, with or without QUIT, is cleaned up: its
\* connection is closed and its session freed, unless the process ends first
\* (manual_test_plan.md:287, Caso 9).
CleanedUp ==
  \A c \in Conns :
    (gone[c] /\ conn[c] = "open") ~>
      \/ conn[c] = "closed" /\ \A s \in Slots : sess[s].addr # c
      \/ apc = "exit"

\* A client in the backlog gets a thread, or is refused, while the server runs,
\* if the process has descriptors enough (accept_loop.c:61-119).
Accepted ==
  \A c \in Conns :
    conn[c] = "queued" ~> (pc[c] # "none" \/ conn[c] = "closed" \/ ~running)

\* After the termination signal the process ends, with sessions open and the
\* monitor at any point.  Only if the handler ran on another thread while main
\* sat in accept() does main stay there until a client connects
\* (accept_loop.c:61-82, main_server.c:88-97).
Exits ==
  (~running /\ (apc # "accept" \/ \E c \in Conns : conn[c] = "queued"))
    ~> apc = "exit"

-------------------------------------------------------------------------------
(* What the documents and comments of the repository say, and the code does    *)
(* not do: one run each finds the counterexample.                              *)

\* manual_test_plan.md:99: a name that is registered already is rejected.  Two
\* threads may both pass username_exists before either calls add_session
\* (handlers.c:50-57).
UniqueNames ==
  \A r, s \in Registered(sess) :
    r # s => sess[r].username # sess[s].username

\* manual_test_plan.md:234: a private message appears on no other terminal.  The
\* descriptor handle_msg looked up may be another client's when it sends
\* (handlers.c:75-85).
PrivateDelivery ==
  [][\A c, d \in Conns :
       pc[c] = "deliver" /\ pc'[c] = "reply" /\ outq'[d] # outq[d]
       => d = job[c].addressee]_vars

\* session.h:34: is_registered is 1 after REGISTER_OK.  The session is already
\* visible to the other threads before REGISTER_OK is sent (handlers.c:57-64),
\* so what they send can overtake it.
RegisteredFirst ==
  \A c \in Conns : \A k \in DOMAIN outq[c] :
    outq[c][k][1] \in {"DELIVER", "BROADCAST_FROM"} =>
      \E j \in 1 .. k - 1 : outq[c][j][1] = "REGISTER_OK"

===============================================================================
