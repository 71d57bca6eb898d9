---------------------------- MODULE SessionTable ----------------------------
(***************************************************************************)
(* The server's fixed array of sessions, g_sessions[MAX_CLIENTS]           *)
(* (src/server/session_manager.c, include/session.h), as operators on a    *)
(* table t \in [Slots -> Session].  Every operator is one critical section *)
(* of g_sessions_mutex: the C function takes the lock, walks the array and *)
(* releases the lock, so its whole effect is one step of the modules that  *)
(* use it.  (Names with an underscore and a capital, as in FreeSlot_Xyz,   *)
(* are FreeSlot with a plausible mistake; no behaviour uses them.)         *)
(***************************************************************************)
EXTENDS Integers

CONSTANTS
  MaxClients,  \* MAX_CLIENTS (64 in include/common.h)
  Conns,       \* TCP connections; the address of a session is its connection
  NoConn,      \* no connection: the zeroed address, or a zero thread id
  ValidNames   \* the user names is_valid_username accepts

ASSUME MaxClientsAssumption == MaxClients \in Nat \ {0}
ASSUME NoConnAssumption     == NoConn \notin Conns
ASSUME ValidNamesAssumption == "" \notin ValidNames

Slots  == 1 .. MaxClients
NoSlot == 0            \* the NULL session pointer
NoFd   == -1

Statuses == {"ACTIVO", "OCUPADO", "INACTIVO"}

Session ==
  [ is_active     : BOOLEAN,
    sockfd        : Int,
    addr          : Conns \cup {NoConn},
    thread_id     : Conns \cup {NoConn},
    username      : ValidNames \cup {""},
    status        : Statuses,
    last_activity : Nat,
    is_registered : BOOLEAN ]

(***************************************************************************)
(* What sessions_init leaves in a slot, what sessions_remove_by_sockfd     *)
(* leaves in it, and what the accept loop puts into it.                    *)
(***************************************************************************)
EmptySession ==
  [ is_active |-> FALSE, sockfd |-> NoFd, addr |-> NoConn,
    thread_id |-> NoConn, username |-> "", status |-> "ACTIVO",
    last_activity |-> 0, is_registered |-> FALSE ]

ClearedSession ==
  [ is_active |-> FALSE, sockfd |-> NoFd, addr |-> NoConn,
    thread_id |-> NoConn, username |-> "", status |-> "INACTIVO",
    last_activity |-> 0, is_registered |-> FALSE ]

NewSession(c, f, now) ==
  [ is_active |-> TRUE, sockfd |-> f, addr |-> c, thread_id |-> NoConn,
    username |-> "", status |-> "ACTIVO", last_activity |-> now,
    is_registered |-> FALSE ]

-----------------------------------------------------------------------------
(* Lookups: every one returns the lowest slot that matches, or NoSlot.     *)

Lowest(S) ==
  IF S = {} THEN NoSlot ELSE CHOOSE s \in S : \A r \in S : s <= r

FreeSlot_ByRegistered(t) == Lowest({s \in Slots : ~t[s].is_registered})

FreeSlot(t) == Lowest({s \in Slots : ~t[s].is_active})

FindByFd_FirstActive(t, f) == Lowest({s \in Slots : t[s].is_active})

FindByFd(t, f) == Lowest({s \in Slots : t[s].is_active /\ t[s].sockfd = f})

Registered(t) == {s \in Slots : t[s].is_active /\ t[s].is_registered}

FindByUsername(t, u) ==
  IF u = "" THEN NoSlot ELSE Lowest({s \in Registered(t) : t[s].username = u})

UsernameExists(t, u) == FindByUsername(t, u) # NoSlot

\* sessions_list_usernames, one field per slot: "" where it lists nobody.
ListedNames(t) ==
  [s \in Slots |-> IF s \in Registered(t) THEN t[s].username ELSE ""]

-----------------------------------------------------------------------------
(* Updates.                                                                *)

RemoveByFd_OnlyFlag(t, f) ==
  LET s == FindByFd(t, f)
  IN  IF s = NoSlot THEN t ELSE [t EXCEPT ![s].is_active = FALSE]

RemoveByFd(t, f) ==
  LET s == FindByFd(t, f)
  IN  IF s = NoSlot THEN t ELSE [t EXCEPT ![s] = ClearedSession]

\* session_mark_inactive_if_needed: an idle session, whatever its status.
Idle_OffByOne(session, now, timeout) ==
  /\ session.is_active
  /\ session.status # "INACTIVO"
  /\ now - session.last_activity + 1 >= timeout

Idle(session, now, timeout) ==
  /\ session.is_active
  /\ session.status # "INACTIVO"
  /\ now - session.last_activity >= timeout

=============================================================================
