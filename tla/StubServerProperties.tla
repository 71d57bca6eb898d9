------------------------ MODULE StubServerProperties ------------------------
(* What the stub server does right, for all that it is a test tool.        *)
EXTENDS StubServer, SeqFunctions

Labels ==
  { "none", "start", "recv", "handle", "reg_set", "reply", "refuse", "cleanup",
    "close", "done", "unborn" }

\* The connections whose thread has not put its slot in order yet.
Working ==
  {c \in Conns : pc[c] \in {"start", "recv", "handle", "reg_set", "reply",
                            "refuse", "cleanup"}}

\* Every variable has its type, and a thread holds a slot and a descriptor of
\* its own from the moment it is created (StubClient, accept loop).
TypeOK ==
  /\ conn \in [Conns -> {"idle", "queued", "open", "closed"}]
  /\ gone \in [Conns -> BOOLEAN]
  /\ fdtab \in [Fds -> Conns \cup {NoConn}]
  /\ g_count \in Nat
  /\ DOMAIN g_clients = Slots
  /\ \A s \in Slots : g_clients[s].sockfd \in Fds \cup {NoFd}
  /\ apc \in {"accept", "find", "full", "close", "reserve", "spawn"}
  /\ apc \in {"reserve", "spawn"} => aslot \in Slots
  /\ apc # "accept" => Peer(afd) \in Conns
  /\ pc \in [Conns -> Labels]
  /\ \A c \in Working : cli[c].slot \in Slots /\ Peer(cli[c].sockfd) = c

\* A name in the table belongs to one thread that is still going to clear it,
\* and the slot has that thread's descriptor: what is sent to the name arrives
\* at the client that registered it.
SlotHeld ==
  \A s \in Named :
    \E c \in Working :
      /\ g_clients[s] = cli[c] /\ cli[c].slot = s
      /\ \A d \in Working : cli[d].slot = s => d = c

\* A slot that has been reserved is in use, or it is lost for good, and only a
\* client that never registered loses one: its thread skips the cleanup, or
\* pthread_create failed.
SlotsAccounted ==
  \A s \in Slots \ FreeSlots :
    \/ apc = "spawn" /\ aslot = s
    \/ \E c \in Conns :
         /\ pc[c] # "none" /\ cli[c].slot = s
         /\ g_clients[s].sockfd = cli[c].sockfd
         /\ c \in Working \/ cli[c].username = ""

\* g_count, which bounds the duplicate check and which the cleanup clamps at
\* zero, is never less than the names in the table.
CountCovers == Cardinality(Named) <= g_count

-----------------------------------------------------------------------------
\* A refused connection hears SERVER_FULL from the main thread.
Stage ==
  [c \in Conns |->
     CASE pc[c] = "start" -> "new"
       [] pc[c] = "recv" -> "idle"
       [] pc[c] \in {"handle", "reg_set", "reply", "refuse"} -> "working"
       [] pc[c] \in {"cleanup", "close", "done", "unborn"} -> "over"
       [] pc[c] = "none" ->
            IF conn[c] = "closed" \/ (apc = "close" /\ Peer(afd) = c)
            THEN "over" ELSE "new"]

Notices == {"DELIVER", "BROADCAST_FROM", "STATUS_CHANGED"}

Service ==
  INSTANCE ChatService WITH
    stage <- Stage, heard <- asked,
    said  <- [c \in Conns |-> Without(outq[c], Notices)]

\* To each client the stub behaves as the server is to behave: WELCOME, or an
\* error when there is no room, and one answer of the right kind to each line
\* before it reads the next (handle_message, client_thread).
ImplementsService == Service!Spec

-----------------------------------------------------------------------------
\* The accept loop never waits for room: a client that connects hears WELCOME
\* or SERVER_FULL, unless it leaves, or its thread could not be created.
Greeted ==
  \A c \in Conns :
    conn[c] = "queued"
      ~> outq[c] # <<>> \/ gone[c] \/ pc[c] = "unborn" \/ ~alive

\* When a client leaves, its thread notices, cleans up and closes.
Ended ==
  \A c \in Conns : gone[c] /\ c \in Working ~> pc[c] = "done" \/ ~alive

=============================================================================
