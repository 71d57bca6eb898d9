--------------------------- MODULE ChatServerRoom ---------------------------
(***************************************************************************)
(* The refinement mapping from the server to the room it implements.       *)
(***************************************************************************)
EXTENDS ChatServerProperties

Seat == [s \in Slots |-> IF sess[s].is_active THEN sess[s].addr ELSE NoConn]

SlotsOf(c) == {s \in Slots : sess[s].is_active /\ sess[s].addr = c}

\* Accepted, but sessions_add has not been called for it yet.
AtTheDoor(c) == apc = "add" /\ Peer(afd) = c

Life ==
  [c \in Conns |->
     IF SlotsOf(c) # {} THEN "in"
     ELSE IF conn[c] \in {"idle", "queued"} \/ AtTheDoor(c) THEN "out"
     ELSE "left"]

Name ==
  [c \in Conns |-> IF SlotsOf(c) = {} THEN ""
                   ELSE sess[CHOOSE s \in SlotsOf(c) : TRUE].username]

Room == INSTANCE ChatRoom WITH seat <- Seat, life <- Life, name <- Name

\* The table of sessions, with its slots taken under the lock by the accept
\* loop, freed under the lock by the threads and refilled while descriptors of
\* earlier clients are still being closed, behaves like the room
\* (session_manager.c:47-98, accept_loop.c:95-115, client_thread.c:120).
ImplementsRoom == Room!Spec

=============================================================================
