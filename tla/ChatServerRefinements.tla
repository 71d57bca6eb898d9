------------------------ MODULE ChatServerRefinements ------------------------
(***************************************************************************)
(* What the server implements, for every number of slots, clients,         *)
(* descriptors and lines: the room, and the service to each client.        *)
(***************************************************************************)
EXTENDS ChatServerRoom, ChatServerService, ChatServerProofs

-----------------------------------------------------------------------------
(* The room: each step of a thread joins, refuses, names or dismisses one  *)
(* client, or leaves the room as it is.                                    *)

\* c has not been offered a seat yet.
Outside(c) == conn[c] \in {"idle", "queued"} \/ AtTheDoor(c)

\* Nobody sits on two seats, so that a client has one name.
OneSeatEach ==
  \A s \in Slots : sess[s].is_active => SlotsOf(sess[s].addr) = {s}

\* A session belongs to the accept loop or to its own client's thread, never to
\* both, and each of them has only one.
LEMMA SeatedOnce == Inv => OneSeatEach
<1> SUFFICES ASSUME Inv, NEW s \in Slots, sess[s].is_active,
                    NEW r \in Slots, sess[r].is_active, sess[r].addr = sess[s].addr
             PROVE  r = s
  BY DEF OneSeatEach, SlotsOf
<1> DEFINE c == sess[s].addr
<1>1. SlotInv /\ MainInv
  BY DEF Inv, Ownership
<1>2. c \in Conns /\ Peer(sess[s].sockfd) = c /\ Peer(sess[r].sockfd) = c
  BY <1>1 DEF SlotInv
<1>3. CASE MainHolds(s)
  <2>1. pc[c] = "none" /\ sess[s].sockfd = afd
    BY <1>1, <1>2, <1>3 DEF MainHolds, MainInv
  <2>2. MainHolds(r)
    BY <1>1, <2>1 DEF SlotInv, Holding
  <2> QED
    BY <1>1, <2>1, <2>2 DEF MainHolds, SlotInv
<1>4. CASE Holding(c) /\ slot[c] = s
  <2>1. ~MainHolds(r)
    BY <1>1, <1>2, <1>4 DEF MainHolds, MainInv, Holding
  <2> QED
    BY <1>1, <1>4, <2>1 DEF SlotInv
<1> QED
  BY <1>1, <1>3, <1>4 DEF SlotInv

\* Who has one seat goes by the name in that slot.
LEMMA NameIs ==
  ASSUME NEW c \in Conns, NEW s
  PROVE  /\ SlotsOf(c) = {s} => Name[c] = sess[s].username
         /\ SlotsOf(c)' = {s} => Name'[c] = sess'[s].username
<1>1. ASSUME SlotsOf(c) = {s} PROVE Name[c] = sess[s].username
  <2>1. (CHOOSE r \in SlotsOf(c) : TRUE) = s
    BY <1>1
  <2> QED
    BY <1>1, <2>1 DEF Name
<1>2. ASSUME SlotsOf(c)' = {s} PROVE Name'[c] = sess'[s].username
  <2>1. (CHOOSE r \in SlotsOf(c)' : TRUE) = s
    BY <1>2
  <2> QED
    BY <1>2, <2>1 DEF Name
<1> QED
  BY <1>1, <1>2

\* Slots and seats are the same numbers; the mapping gives functions on them.
LEMMA Mapping ==
  /\ Slots = Room!Seats
  /\ Seat = [s \in Slots |-> Seat[s]] /\ Seat' = [s \in Slots |-> Seat'[s]]
  /\ Life = [c \in Conns |-> Life[c]] /\ Life' = [c \in Conns |-> Life'[c]]
  /\ Name = [c \in Conns |-> Name[c]] /\ Name' = [c \in Conns |-> Name'[c]]
BY DEF Slots, Room!Seats, Seat, Life, Name

\* A slot that keeps what the room sees of it.
Kept(s) ==
  /\ sess'[s].is_active = sess[s].is_active
  /\ sess[s].is_active =>
       sess'[s].addr = sess[s].addr /\ sess'[s].username = sess[s].username

\* If c's slots are kept, and c is not offered a seat, nothing happens to c.
LEMMA KeptClient ==
  ASSUME NEW c \in Conns, OneSeatEach, OneSeatEach',
         SlotsOf(c)' = SlotsOf(c), \A s \in SlotsOf(c) : Kept(s),
         SlotsOf(c) = {} => (Outside(c)' <=> Outside(c))
  PROVE  Life'[c] = Life[c] /\ Name'[c] = Name[c]
<1>1. Life'[c] = Life[c]
  BY DEF Life, Outside
<1>2. CASE SlotsOf(c) = {}
  BY <1>1, <1>2 DEF Name
<1>3. CASE SlotsOf(c) # {}
  <2>1. PICK s \in SlotsOf(c) : TRUE
    BY <1>3
  <2>2. s \in Slots /\ sess[s].is_active /\ sess[s].addr = c
    BY DEF SlotsOf
  <2>3. SlotsOf(c) = {s}
    BY <2>2 DEF OneSeatEach
  <2>4. Name[c] = sess[s].username /\ Name'[c] = sess'[s].username
    BY <2>3, NameIs
  <2> QED
    BY <1>1, <2>2, <2>4 DEF Kept
<1> QED
  BY <1>1, <1>2, <1>3

\* If all slots are kept, and nobody is offered a seat, the room stands still.
LEMMA RoomStands ==
  ASSUME OneSeatEach, OneSeatEach', \A s \in Slots : Kept(s),
         \A c \in Conns : SlotsOf(c) = {} => (Outside(c)' <=> Outside(c))
  PROVE  UNCHANGED Room!room
<1>1. Seat' = Seat
  BY DEF Seat, Kept
<1>2. ASSUME NEW c \in Conns PROVE Life'[c] = Life[c] /\ Name'[c] = Name[c]
  <2>1. SlotsOf(c)' = SlotsOf(c) /\ \A s \in SlotsOf(c) : s \in Slots
    BY DEF SlotsOf, Kept
  <2> QED
    BY <2>1, KeptClient
<1>3. Life' = Life /\ Name' = Name
  BY <1>2 DEF Life, Name
<1> QED
  BY <1>1, <1>3 DEF Room!room

-----------------------------------------------------------------------------
(* The steps that the room sees.                                           *)

\* A connection that is being added is outside.
LEMMA AtAdd ==
  ASSUME Inv, apc = "add"
  PROVE  Peer(afd) \in Conns /\ SlotsOf(Peer(afd)) = {} /\ Life[Peer(afd)] = "out"
<1>1. Peer(afd) \in Conns /\ pc[Peer(afd)] = "none"
  BY DEF Inv, Ownership, MainInv
<1>2. SlotsOf(Peer(afd)) = {}
  BY <1>1 DEF Inv, Ownership, SlotInv, SlotsOf, MainHolds, Holding
<1> QED
  BY <1>1, <1>2 DEF Life, AtTheDoor

\* sessions_add with a free slot: the client joins.
LEMMA AddJoins ==
  ASSUME Inv, OneSeatEach, OneSeatEach', Add,
         NEW c \in Conns, Peer(afd) = c,
         NEW s \in Slots, FreeSlot(sess) = s
  PROVE  Room!Join(c)
<1> DEFINE new == NewSession(c, afd, clock)
<1>1. TypeOK /\ apc = "add" /\ apc' = "find"
  BY SlotNumbers DEF Inv, TypeInv, Add, AfterAdd
<1>2. SlotsOf(c) = {} /\ Life[c] = "out"
  BY <1>1, AtAdd
<1>3. ~sess[s].is_active
  BY FreeSlotFound
<1>4. sess' = [sess EXCEPT ![s] = new] /\ UNCHANGED <<conn, fdtab, afd>>
  BY SlotNumbers DEF Add, kernel
<1>5. new.is_active /\ new.addr = c /\ new.username = ""
  BY DEF NewSession
<1> HIDE DEF new
<1>6. sess'[s] = new /\ \A r \in Slots \ {s} : sess'[r] = sess[r]
  BY <1>1, <1>3, <1>4 DEF TypeOK
<1>7. SlotsOf(c)' = {s}
  <2>1. \A r \in Slots \ {s} : ~(sess'[r].is_active /\ sess'[r].addr = c)
    BY <1>2, <1>6 DEF SlotsOf
  <2> QED
    BY <1>5, <1>6, <2>1 DEF SlotsOf
<1>8. ASSUME NEW d \in Conns \ {c} PROVE Life'[d] = Life[d] /\ Name'[d] = Name[d]
  <2>1. SlotsOf(d)' = SlotsOf(d) /\ s \notin SlotsOf(d)
    BY <1>3, <1>5, <1>6, <1>8 DEF SlotsOf
  <2>2. \A r \in SlotsOf(d) : Kept(r)
    BY <1>6, <2>1 DEF SlotsOf, Kept
  <2>3. Outside(d)' <=> Outside(d)
    BY <1>1, <1>4, <1>8 DEF Outside, AtTheDoor, Peer
  <2> QED
    BY <2>1, <2>2, <2>3, KeptClient
<1>9. Seat[s] = NoConn /\ Seat' = [Seat EXCEPT ![s] = c]
  BY <1>3, <1>5, <1>6 DEF Seat
<1>10. Life'[c] = "in" /\ Life' = [Life EXCEPT ![c] = "in"]
  <2>1. Life'[c] = "in"
    BY <1>2, <1>7 DEF Life
  <2> QED
    BY <1>8, <2>1, Mapping
<1>11. Name' = Name
  <2>1. Name[c] = ""
    BY <1>2 DEF Name
  <2>2. Name'[c] = ""
    BY <1>2, <1>5, <1>6, <1>7, NameIs
  <2> QED
    BY <1>8, <2>1, <2>2, Mapping
<1> QED
  BY <1>2, <1>3, <1>9, <1>10, <1>11, Mapping DEF Room!Join

\* sessions_add without one: the client is turned away, and every seat is taken.
LEMMA AddRefuses ==
  ASSUME Inv, Add, FreeSlot(sess) = NoSlot, NEW c \in Conns, Peer(afd) = c
  PROVE  Room!Refuse(c)
<1>1. /\ TypeOK /\ apc = "add" /\ apc' = "close"
      /\ UNCHANGED <<sess, conn, fdtab, afd>>
  BY DEF Inv, TypeInv, Add, AfterAdd, kernel
<1>2. SlotsOf(c) = {} /\ Life[c] = "out"
  BY <1>1, AtAdd
<1>3. \A s \in Slots : Seat[s] # NoConn
  BY FreeSlotFound, NoConnAssumption DEF Seat, Inv, Ownership, SlotInv
<1>4. conn[c] = "open"
  BY <1>2, NoConnAssumption DEF Inv, Ownership, TableInv, Peer
<1>5. \A d \in Conns : SlotsOf(d)' = SlotsOf(d)
  BY <1>1 DEF SlotsOf
<1>6. Seat' = Seat
  BY <1>1 DEF Seat
<1>7. Name' = Name
  BY <1>1 DEF Name, SlotsOf
<1>8. Life'[c] = "left"
  BY <1>1, <1>2, <1>4, <1>5 DEF Life, AtTheDoor
<1>9. ASSUME NEW d \in Conns \ {c} PROVE Life'[d] = Life[d]
  BY <1>1, <1>5, <1>9 DEF Life, AtTheDoor, Peer
<1>10. Life' = [Life EXCEPT ![c] = "left"]
  BY <1>2, <1>8, <1>9, Mapping
<1> QED
  BY <1>2, <1>3, <1>6, <1>7, <1>10, Mapping DEF Room!Refuse

\* sessions_remove_by_sockfd on c's session: c leaves, and its name is free.
LEMMA RemoveLeaves ==
  ASSUME Inv, OneSeatEach, OneSeatEach',
         NEW c \in Conns, NEW s \in Slots, sess[s].is_active, sess[s].addr = c,
         sess' = [sess EXCEPT ![s] = ClearedSession],
         UNCHANGED <<conn, fdtab, afd>>,
         apc' = apc \/ (apc = "drop" /\ apc' = "close")
  PROVE  Room!Leave(c)
<1>1. TypeOK /\ SlotsOf(c) = {s}
  BY DEF Inv, TypeInv, OneSeatEach
<1>2. sess'[s] = ClearedSession /\ \A r \in Slots \ {s} : sess'[r] = sess[r]
  BY <1>1 DEF TypeOK
<1>3. SlotsOf(c)' = {}
  <2>1. \A r \in Slots \ {s} : ~(sess'[r].is_active /\ sess'[r].addr = c)
    BY <1>1, <1>2 DEF SlotsOf
  <2> QED
    BY <1>2, <2>1, ClearedFields DEF SlotsOf
<1>4. conn[c] = "open" /\ ~AtTheDoor(c)
  <2>1. Peer(sess[s].sockfd) = c
    BY DEF Inv, Ownership, SlotInv
  <2>2. conn[c] = "open"
    BY <2>1, NoConnAssumption DEF Inv, Ownership, TableInv, Peer
  <2>3. ~AtTheDoor(c)
    BY <1>1, AtAdd DEF AtTheDoor
  <2> QED
    BY <2>2, <2>3
<1>5. Life[c] = "in" /\ Life'[c] = "left" /\ Name'[c] = ""
  BY <1>1, <1>3, <1>4 DEF Life, Name, AtTheDoor, Peer
<1>6. ASSUME NEW d \in Conns \ {c} PROVE Life'[d] = Life[d] /\ Name'[d] = Name[d]
  <2>1. SlotsOf(d)' = SlotsOf(d) /\ s \notin SlotsOf(d)
    BY <1>2, <1>6, ClearedFields DEF SlotsOf
  <2>2. \A r \in SlotsOf(d) : Kept(r)
    BY <1>2, <2>1 DEF SlotsOf, Kept
  <2>3. Outside(d)' <=> Outside(d)
    BY DEF Outside, AtTheDoor, Peer
  <2> QED
    BY <2>1, <2>2, <2>3, KeptClient
<1>7. Life' = [Life EXCEPT ![c] = "left"] /\ Name' = [Name EXCEPT ![c] = ""]
  BY <1>5, <1>6, Mapping
<1>8. Seat' = [r \in Slots |-> IF Seat[r] = c THEN NoConn ELSE Seat[r]]
  <2>1. \A r \in Slots : Seat[r] = c <=> r = s
    BY <1>1, NoConnAssumption DEF Seat, SlotsOf
  <2>2. Seat'[s] = NoConn
    BY <1>2, ClearedFields DEF Seat
  <2>3. \A r \in Slots \ {s} : Seat'[r] = Seat[r]
    BY <1>2 DEF Seat
  <2> QED
    BY <2>1, <2>2, <2>3, Mapping
<1> QED
  BY <1>5, <1>7, <1>8, Mapping DEF Room!Leave

\* add_session on c's session: c gets the name that is_valid_username accepted.
LEMMA RegAddNames ==
  ASSUME Inv, OneSeatEach, OneSeatEach', NEW c \in Conns, RegAdd(c)
  PROVE  \E n \in ValidNames : Room!Register(c, n)
<1> DEFINE n == Arg1(job[c].line)
<1>1. TypeOK /\ Holding(c) /\ pc[c] # "start"
  BY DEF Inv, TypeInv, RegAdd, Holding
<1>2. n \in ValidNames
  BY DEF Inv, TypeInv, Pointers, RegAdd
<1>3. PICK s \in Slots : /\ s = slot[c] /\ sess[s].is_active
                         /\ sess[s].addr = c /\ sess[s] \in Session
  BY <1>1 DEF Inv, Ownership, ThreadInv, TypeOK
<1> DEFINE new == [sess[s] EXCEPT !.username = n, !.is_registered = TRUE]
<1>4. sess' = [sess EXCEPT ![s] = new]
  BY <1>1, <1>3, FindsOwnSession, SlotNumbers DEF RegAdd, AddSession
<1>5. new.is_active /\ new.addr = c /\ new.username = n
  BY <1>3 DEF Session
<1> HIDE DEF n, new
<1>6. sess'[s] = new /\ \A r \in Slots \ {s} : sess'[r] = sess[r]
  BY <1>1, <1>3, <1>4 DEF TypeOK
<1>7. \A d \in Conns : SlotsOf(d)' = SlotsOf(d)
  BY <1>3, <1>5, <1>6 DEF SlotsOf
<1>8. SlotsOf(c) = {s} /\ SlotsOf(c)' = {s}
  BY <1>3, <1>7 DEF OneSeatEach
<1>9. UNCHANGED <<conn, fdtab, apc, afd>>
  BY DEF RegAdd, kernel, mainv
<1>10. \A d \in Conns : Life'[d] = Life[d]
  BY <1>7, <1>9 DEF Life, AtTheDoor, Peer
<1>11. \A d \in Conns \ {c} : Name'[d] = Name[d]
  <2> SUFFICES ASSUME NEW d \in Conns \ {c} PROVE Name'[d] = Name[d]
    OBVIOUS
  <2>1. \A r \in SlotsOf(d) : Kept(r)
    BY <1>3, <1>6 DEF SlotsOf, Kept
  <2>2. Outside(d)' <=> Outside(d)
    BY <1>9 DEF Outside, AtTheDoor, Peer
  <2> QED
    BY <1>7, <2>1, <2>2, KeptClient
<1>12. Name' = [Name EXCEPT ![c] = n]
  <2>1. Name'[c] = n
    BY <1>5, <1>6, <1>8, NameIs
  <2> QED
    BY <1>11, <2>1, Mapping
<1>13. Life[c] = "in" /\ Life' = Life
  BY <1>8, <1>10, Mapping DEF Life
<1>14. Seat' = Seat
  BY <1>3, <1>5, <1>6 DEF Seat
<1> QED
  BY <1>2, <1>12, <1>13, <1>14 DEF Room!Register

-----------------------------------------------------------------------------
(* The steps that the room does not see.                                   *)

\* A step of c's handler other than add_session writes a status at most.
LEMMA HandlersKeepSeats ==
  ASSUME TypeOK, NEW c \in Conns, Handle(c), ~RegAdd(c)
  PROVE  (\A s \in Slots : Kept(s)) /\ UNCHANGED <<conn, fdtab, apc, afd>>
<1> USE DEF kernel, shared, mainv
<1>1. CASE HandleStatus(c)
  <2> DEFINE s == FindByUsername(sess, sess[slot[c]].username)
             u == Arg1(job[c].line)
  <2>1. UNCHANGED <<conn, fdtab, apc, afd>>
    BY <1>1 DEF HandleStatus
  <2>2. CASE UNCHANGED sess
    BY <2>1, <2>2 DEF Kept
  <2>3. CASE sess' # sess
    <3>1. s # NoSlot /\ sess' = [sess EXCEPT ![s].status = u]
      BY <1>1, <2>3 DEF HandleStatus, SetUserStatus
    <3>2. s \in Slots
      BY <3>1, FindByUsernameFound
    <3> HIDE DEF s, u
    <3>3. /\ sess[s] \in Session /\ sess'[s] = [sess[s] EXCEPT !.status = u]
          /\ \A r \in Slots \ {s} : sess'[r] = sess[r]
      BY <3>1, <3>2 DEF TypeOK
    <3>4. /\ sess'[s].is_active = sess[s].is_active
          /\ sess'[s].addr = sess[s].addr /\ sess'[s].username = sess[s].username
      BY <3>3 DEF Session
    <3> QED
      BY <2>1, <3>3, <3>4 DEF Kept
  <2> QED
    BY <2>2, <2>3
<1>2. CASE ~HandleStatus(c)
  BY <1>2
  DEF Handle, HandleRegister, HandleMsg, Deliver, HandleBroadcast, HandleList,
      HandleInfo, InfoGet, StatusAck, StatusNotify, HandleQuit, Reply, Kept
<1> QED
  BY <1>1, <1>2

\* Nor does anything else a thread does before it removes its session.
LEMMA ThreadsKeepSeats ==
  ASSUME TypeOK, NEW c \in Conns,
         ThreadRuns(c), ~RegAdd(c), ~Remove(c), ~CloseOwn(c)
  PROVE  (\A s \in Slots : Kept(s)) /\ UNCHANGED <<conn, fdtab, apc, afd>>
<1> USE DEF kernel, shared, mainv
<1>1. CASE Touch(c)
  <2> DEFINE s == job[c].found
  <2>1. UNCHANGED <<conn, fdtab, apc, afd>>
    BY <1>1 DEF Touch
  <2>2. CASE UNCHANGED sess
    BY <2>1, <2>2 DEF Kept
  <2>3. CASE sess' # sess
    <3>1. s # NoSlot /\ sess' = [sess EXCEPT ![s] = Touched(sess[s], clock)]
      BY <1>1, <2>3 DEF Touch
    <3>2. s \in Slots
      BY <3>1 DEF TypeOK, Job
    <3> HIDE DEF s
    <3>3. /\ sess[s] \in Session /\ sess'[s] = Touched(sess[s], clock)
          /\ \A r \in Slots \ {s} : sess'[r] = sess[r]
      BY <3>1, <3>2 DEF TypeOK
    <3>4. /\ sess'[s].is_active = sess[s].is_active
          /\ sess'[s].addr = sess[s].addr /\ sess'[s].username = sess[s].username
      BY <3>3 DEF Session, Touched
    <3> QED
      BY <2>1, <3>3, <3>4 DEF Kept
  <2> QED
    BY <2>2, <2>3
<1>2. CASE Begin(c) \/ RecvEnd(c) \/ Ping(c) \/ Quit(c) \/ Unparsed(c)
  BY <1>2 DEF Begin, RecvEnd, Ping, Quit, Unparsed, Kept
<1> QED
  BY <1>1, <1>2, HandlersKeepSeats DEF ThreadRuns

\* The accept loop's late write of thread_id moves nobody.
LEMMA SetTidKeepsSeats ==
  ASSUME TypeInv, SetTid
  PROVE  (\A s \in Slots : Kept(s)) /\ UNCHANGED <<conn, fdtab>>
<1>1. aslot \in Slots /\ sess[aslot] \in Session
  BY DEF TypeInv, TypeOK, Pointers, SetTid
<1>2. /\ sess'[aslot] = [sess[aslot] EXCEPT !.thread_id = atid]
      /\ \A r \in Slots \ {aslot} : sess'[r] = sess[r]
  BY <1>1 DEF SetTid, TypeInv, TypeOK
<1>3. UNCHANGED <<conn, fdtab>>
  BY DEF SetTid, kernel
<1>4. /\ sess'[aslot].is_active = sess[aslot].is_active
      /\ sess'[aslot].addr = sess[aslot].addr
      /\ sess'[aslot].username = sess[aslot].username
  BY <1>1, <1>2 DEF Session
<1> QED
  BY <1>1, <1>2, <1>3, <1>4 DEF Kept

\* The monitor marks sessions INACTIVO, and moves nobody.
LEMMA MonitorKeepsSeats ==
  ASSUME TypeOK, Monitor
  PROVE  (\A s \in Slots : Kept(s)) /\ UNCHANGED <<conn, fdtab, apc, afd>>
<1> USE DEF kernel, shared, mainv
<1>1. CASE MonScan
  <2>1. \A s \in Slots : sess[s] \in Session
    BY DEF TypeOK
  <2>2. \A s \in Slots : \/ sess'[s] = sess[s]
                         \/ sess'[s] = [sess[s] EXCEPT !.status = "INACTIVO"]
    BY <1>1 DEF MonScan
  <2>3. UNCHANGED <<conn, fdtab, apc, afd>>
    BY <1>1 DEF MonScan
  <2>4. ASSUME NEW s \in Slots PROVE Kept(s)
    BY <2>1, <2>2 DEF Session, Kept
  <2> QED
    BY <2>3, <2>4
<1>2. CASE MonWake \/ MonSend
  BY <1>2 DEF MonWake, MonSend, Kept
<1> QED
  BY <1>1, <1>2 DEF Monitor

\* close() of a connection that has no session any more: who had one is inside
\* or has left, and stays so.
LEMMA ClosedStaysOut ==
  ASSUME TypeOK, TableInv, NEW f, NEW c \in Conns, Peer(f) = c, CloseFd(f),
         apc # "add", apc' # "add", UNCHANGED sess
  PROVE  /\ \A s \in Slots : Kept(s)
         /\ \A d \in Conns : Outside(d)' <=> Outside(d)
<1>1. conn' = [conn EXCEPT ![c] = "closed"] /\ conn[c] = "open"
  BY CloseFdOf, NoConnAssumption DEF Peer, TableInv
<1>2. \A d \in Conns : Outside(d)' <=> Outside(d)
  BY <1>1 DEF Outside, AtTheDoor, TypeOK
<1> QED
  BY <1>2 DEF Kept

-----------------------------------------------------------------------------
(* The refinement.                                                         *)

\* Nobody is in the room when the server starts.
LEMMA RoomInit == Init => Room!Init
<1> SUFFICES ASSUME Init PROVE Room!Init
  OBVIOUS
<1>1. \A s \in Slots : ~sess[s].is_active
  BY DEF Init, EmptySession
<1>2. \A c \in Conns : SlotsOf(c) = {} /\ conn[c] = "idle"
  BY <1>1 DEF SlotsOf, Init
<1>3. Seat = [s \in Slots |-> NoConn]
  BY <1>1 DEF Seat
<1>4. Life = [c \in Conns |-> "out"] /\ Name = [c \in Conns |-> ""]
  BY <1>2 DEF Life, Name
<1> QED
  BY <1>3, <1>4, Mapping DEF Room!Init

\* A step that keeps all slots, and the connections at the door.
LEMMA QuietRoom ==
  ASSUME OneSeatEach, OneSeatEach', \A s \in Slots : Kept(s),
         UNCHANGED <<conn, fdtab, afd>>, apc' = apc \/ "add" \notin {apc, apc'}
  PROVE  UNCHANGED Room!room
<1>1. \A c \in Conns : Outside(c)' <=> Outside(c)
  BY DEF Outside, AtTheDoor, Peer
<1> QED
  BY <1>1, RoomStands

\* Main joins, refuses or dismisses one client, or leaves the room alone.
LEMMA MainRoom ==
  ASSUME Inv, OneSeatEach, OneSeatEach', Main
  PROVE  [Room!Next]_(Room!room)
<1> USE DEF kernel, shared, mainv, threads, monitor
<1>1. TypeOK /\ TypeInv /\ TableInv /\ MainInv /\ SlotInv
  BY DEF Inv, TypeInv, Ownership
<1>2. CASE Add
  <2>1. apc = "add"
    BY <1>2 DEF Add
  <2>2. PICK c \in Conns : Peer(afd) = c
    BY <2>1, AtAdd
  <2>3. CASE FreeSlot(sess) = NoSlot
    <3>1. Room!Refuse(c)
      BY <1>2, <2>2, <2>3, AddRefuses
    <3> QED
      BY <3>1 DEF Room!Next
  <2>4. CASE FreeSlot(sess) # NoSlot
    <3>1. PICK s \in Slots : FreeSlot(sess) = s
      BY <2>4, FreeSlotFound
    <3>2. Room!Join(c)
      BY <1>2, <2>2, <3>1, AddJoins
    <3> QED
      BY <3>2 DEF Room!Next
  <2> QED
    BY <2>3, <2>4
<1>3. CASE Drop
  <2>1. apc = "drop"
    BY <1>3 DEF Drop
  <2>2. PICK s \in Slots : FindByFd(sess, afd) = s
    BY <1>1, <2>1, FindByFdFound DEF MainInv
  <2>3. sess[s].is_active
    BY <2>2, FindByFdFound
  <2>4. PICK c \in Conns : sess[s].addr = c
    BY <1>1, <2>3 DEF SlotInv
  <2>5. /\ sess' = [sess EXCEPT ![s] = ClearedSession] /\ apc' = "close"
        /\ UNCHANGED <<conn, fdtab, afd>>
    BY <1>3, <2>2, SlotNumbers DEF Drop, RemoveByFd
  <2>6. Room!Leave(c)
    BY <2>1, <2>3, <2>4, <2>5, RemoveLeaves
  <2> QED
    BY <2>6 DEF Room!Next
<1>4. CASE Close
  <2>1. apc = "close" /\ apc' = "loop" /\ CloseFd(afd) /\ UNCHANGED sess
    BY <1>4 DEF Close
  <2>2. PICK c \in Conns : Peer(afd) = c
    BY <1>1, <2>1 DEF MainInv
  <2> QED
    BY <1>1, <2>1, <2>2, ClosedStaysOut, RoomStands
<1>5. ASSUME NEW c \in Conns, Accept(c) PROVE UNCHANGED Room!room
  <2>1. PICK f \in Fds : /\ fdtab[f] = NoConn /\ afd' = f
                         /\ fdtab' = [fdtab EXCEPT ![f] = c]
    BY <1>5 DEF Accept, FreeFds
  <2>2. /\ apc = "accept" /\ apc' = "add" /\ conn[c] = "queued"
        /\ conn' = [conn EXCEPT ![c] = "open"] /\ UNCHANGED sess
    BY <1>5 DEF Accept
  <2>3. Peer(afd)' = c
    BY <1>1, <2>1 DEF Peer, TypeOK
  <2>4. \A d \in Conns : Outside(d)' <=> Outside(d)
    BY <1>1, <2>2, <2>3 DEF Outside, AtTheDoor, TypeOK
  <2>5. \A s \in Slots : Kept(s)
    BY <2>2 DEF Kept
  <2> QED
    BY <2>4, <2>5, RoomStands
<1>6. CASE SetTid
  <2>1. apc = "settid" /\ apc' = "loop"
    BY <1>6 DEF SetTid
  <2>2. (\A s \in Slots : Kept(s)) /\ UNCHANGED <<conn, fdtab>>
    BY <1>1, <1>6, SetTidKeepsSeats
  <2>3. \A c \in Conns : Outside(c)' <=> Outside(c)
    BY <2>1, <2>2 DEF Outside, AtTheDoor
  <2> QED
    BY <2>2, <2>3, RoomStands
<1>7. CASE \/ Loop \/ AcceptFails \/ Find \/ Spawn \/ SpawnFails \/ Shutdown
           \/ ShutSessions \/ Join
  <2>1. UNCHANGED <<sess, conn, fdtab, afd>> /\ "add" \notin {apc, apc'}
    BY <1>7 DEF Loop, AcceptFails, Find, Spawn, SpawnFails, Shutdown,
                ShutSessions, Join
  <2>2. \A s \in Slots : Kept(s)
    BY <2>1 DEF Kept
  <2> QED
    BY <2>1, <2>2, QuietRoom
<1> QED
  BY <1>2, <1>3, <1>4, <1>5, <1>6, <1>7 DEF Main

\* A thread names its own client or dismisses it, or leaves the room alone.
LEMMA ThreadRoom ==
  ASSUME Inv, OneSeatEach, OneSeatEach', NEW c \in Conns, ThreadRuns(c)
  PROVE  [Room!Next]_(Room!room)
<1>1. TypeOK /\ TableInv /\ MainInv /\ ThreadInv
  BY DEF Inv, TypeInv, Ownership
<1>2. CASE RegAdd(c)
  <2>1. \E n \in ValidNames : Room!Register(c, n)
    BY <1>2, RegAddNames
  <2> QED
    BY <2>1 DEF Room!Next
<1>3. CASE Remove(c)
  <2>1. Holding(c) /\ pc[c] # "start"
    BY <1>3 DEF Remove, Holding
  <2>2. PICK s \in Slots : /\ FindByFd(sess, fd[c]) = s /\ sess[s].is_active
                           /\ sess[s].addr = c
    BY <1>1, <2>1, FindsOwnSession DEF ThreadInv
  <2>3. /\ sess' = [sess EXCEPT ![s] = ClearedSession]
        /\ UNCHANGED <<conn, fdtab, afd, apc>>
    BY <1>3, <2>2, SlotNumbers DEF Remove, RemoveByFd, kernel, mainv
  <2>4. Room!Leave(c)
    BY <2>2, <2>3, RemoveLeaves
  <2> QED
    BY <2>4 DEF Room!Next
<1>4. CASE CloseOwn(c)
  <2>1. /\ pc[c] = "close" /\ CloseFd(fd[c]) /\ Peer(fd[c]) = c
        /\ UNCHANGED <<sess, apc, afd>>
    BY <1>1, <1>4 DEF CloseOwn, shared, mainv, ThreadInv
  <2>2. \A s \in Slots : Kept(s)
    BY <2>1 DEF Kept
  <2>3. conn' = [conn EXCEPT ![c] = "closed"] /\ conn[c] = "open"
    BY <1>1, <2>1, CloseFdOf, NoConnAssumption DEF Peer, TableInv
  <2>4. apc = "add" => Peer(afd)' = Peer(afd) /\ Peer(afd) # c
    <3>1. apc = "add" => Peer(afd) # c
      BY <1>1, <2>1 DEF MainInv
    <3>2. afd # fd[c] => Peer(afd)' = Peer(afd)
      BY <2>1 DEF Peer, CloseFd
    <3> QED
      BY <2>1, <3>1, <3>2
  <2>5. \A d \in Conns : Outside(d)' <=> Outside(d)
    BY <1>1, <2>1, <2>3, <2>4 DEF Outside, AtTheDoor, TypeOK
  <2> QED
    BY <2>2, <2>5, RoomStands
<1>5. CASE ~RegAdd(c) /\ ~Remove(c) /\ ~CloseOwn(c)
  BY <1>1, <1>5, ThreadsKeepSeats, QuietRoom
<1> QED
  BY <1>2, <1>3, <1>4, <1>5

\* Clients, time and signals change nothing in the room.
LEMMA EnvironmentRoom ==
  ASSUME Inv, OneSeatEach, OneSeatEach', Environment
  PROVE  UNCHANGED Room!room
<1> USE DEF kernel, shared, mainv
<1>1. TypeOK
  BY DEF Inv, TypeInv
<1>2. UNCHANGED <<sess, fdtab, afd>> /\ (apc' = apc \/ "add" \notin {apc, apc'})
  BY DEF Environment, Connect, PeerCloses, Tick, SignalMain, SignalOther
<1>3. \A s \in Slots : Kept(s)
  BY <1>2 DEF Kept
<1>4. CASE UNCHANGED conn
  BY <1>2, <1>3, <1>4, QuietRoom
<1>5. ASSUME NEW c \in Conns, Connect(c) PROVE UNCHANGED Room!room
  <2>1. \A d \in Conns : Outside(d)' <=> Outside(d)
    BY <1>1, <1>2, <1>5 DEF Connect, Outside, AtTheDoor, Peer, TypeOK
  <2> QED
    BY <1>3, <2>1, RoomStands
<1> QED
  BY <1>4, <1>5 DEF Environment, PeerCloses, Tick, SignalMain, SignalOther

\* Every step of the server is a step of the room or none.
LEMMA RoomStep ==
  ASSUME Inv, OneSeatEach, OneSeatEach', [Next]_vars
  PROVE  [Room!Next]_(Room!room)
<1> USE DEF kernel, shared, mainv
<1>1. TypeOK
  BY DEF Inv, TypeInv
<1>2. CASE Environment
  BY <1>2, EnvironmentRoom
<1>3. CASE Main
  BY <1>3, MainRoom
<1>4. CASE Monitor
  BY <1>1, <1>4, MonitorKeepsSeats, QuietRoom
<1>5. CASE \E c \in Conns : ThreadRuns(c)
  BY <1>5, ThreadRoom
<1>6. CASE \/ HandlerCloses \/ UNCHANGED vars
           \/ \E c \in Conns, l \in FirstInputs \cup Inputs : Recv(c, l)
  <2>1. UNCHANGED <<sess, conn, fdtab, afd, apc>>
    BY <1>6 DEF HandlerCloses, Recv, vars
  <2>2. \A s \in Slots : Kept(s)
    BY <2>1 DEF Kept
  <2> QED
    BY <2>1, <2>2, QuietRoom
<1> QED
  BY <1>2, <1>3, <1>4, <1>5, <1>6 DEF Next

\* The server implements the room: whatever its threads, its accept loop and its
\* clients do, seats are taken, kept and given back as ChatRoom says, nobody is
\* refused while a seat is free, and a name goes with its seat.
THEOREM ServerIsARoom == Spec => ImplementsRoom
<1>1. Inv /\ Inv' /\ [Next]_vars => [Room!Next]_(Room!room)
  <2>1. Inv => OneSeatEach
    BY SeatedOnce
  <2>2. Inv' => OneSeatEach'
    BY SeatedOnce, PTL
  <2> QED
    BY <2>1, <2>2, RoomStep
<1> QED
  BY <1>1, RoomInit, Invariant, PTL DEF Spec, ImplementsRoom, Room!Spec

-----------------------------------------------------------------------------
(* The service: each step of a thread greets its client, hears a line of   *)
(* it, answers that line or ends, and whatever the others send to the same *)
(* descriptor meanwhile is no answer.                                      *)

\* From recv_line to the answer, a thread works on the last line it has read,
\* on the right command, and what it is about to send answers that line.
Working ==
  {"touch", "dispatch", "reg_add", "deliver", "info_get", "status_ack", "reply"}

Step(label, command, c) == pc[c] = label => job[c].line[1] = command

OnItsLine(c) ==
  pc[c] \in Working =>
    /\ job[c].line # <<>> /\ Len(asked[c]) > 0
    /\ job[c].line = asked[c][Len(asked[c])]
    /\ Step("reg_add", "REGISTER", c) /\ Step("deliver", "MSG", c)
    /\ Step("info_get", "INFO", c) /\ Step("status_ack", "STATUS", c)
    /\ pc[c] = "reply" => Service!Answers(job[c].line, job[c].reply)

Conversations == \A c \in Conns : OnItsLine(c)

\* A line that is not empty has a type, its first field.
LEMMA TypeIs ==
  ASSUME NEW l \in Line, l # <<>>
  PROVE  Type(l) = l[1] /\ l[1] \in Fields
<1>1. l \in Seq(Fields)
  BY DEF Line
<1>2. Len(l) \in Nat /\ Len(l) >= 1
  BY <1>1
<1>3. l[1] \in Fields
  BY <1>1, <1>2, ElementOfSeq
<1> QED
  BY <1>2, <1>3 DEF Type, Field

\* The answers there are to a line of each kind.
LEMMA RightAnswers ==
  ASSUME NEW l
  PROVE  /\ \A m : l[1] \in DOMAIN Service!OkFor /\ m[1] = Service!OkFor[l[1]]
                     => Service!Answers(l, m)
         /\ \A code : l[1] # "QUIT" => Service!Answers(l, Error(l[1], code))
         /\ \A op, code : l[1] \notin Commands => Service!Answers(l, Error(op, code))
BY DEF Service!Answers, Service!Commands, Service!OkFor, Commands, Error

\* c's service does not move.
Aside(c) ==
  /\ Stage'[c] = Stage[c] /\ asked'[c] = asked[c] /\ Replies(c)' = Replies(c)

\* If nobody's does, somebody has closed at most.
LEMMA ServiceStands ==
  ASSUME TypeOK, TypeOK', \A c \in Conns : Aside(c)
  PROVE  [Service!Next]_(Service!vars)
<1>1. Stage' = Stage
  BY DEF Stage, Aside
<1>2. asked' = asked
  BY DEF TypeOK, Aside
<1>3. [c \in Conns |-> Replies(c)]' = [c \in Conns |-> Replies(c)]
  BY DEF Aside
<1> QED
  BY <1>1, <1>2, <1>3 DEF Service!Next, Service!Close, Service!vars

\* Who sends a line on one descriptor speaks to its client only, unless that
\* one is gone; and an event is no reply to anybody.
LEMMA SaysTo ==
  ASSUME TypeOK, NEW F, NEW m \in Line, Send(F, m), NEW d \in Conns
  PROVE  Replies(d)' =
           IF ~gone[d] /\ ~IsEvent(m) /\ \E f \in F : Peer(f) = d
           THEN Append(Replies(d), m) ELSE Replies(d)
<1>1. outq[d] \in Seq(Line)
  BY DEF TypeOK
<1>2. outq'[d] = IF ~gone[d] /\ \E f \in F : Peer(f) = d
                 THEN Append(outq[d], m) ELSE outq[d]
  BY DEF Send
<1>3. Without(Append(outq[d], m), EventKinds) =
        IF m[1] \in EventKinds THEN Without(outq[d], EventKinds)
        ELSE Append(Without(outq[d], EventKinds), m)
  BY <1>1, WithoutAppend
<1> QED
  BY <1>2, <1>3 DEF Replies, IsEvent

\* What is said are lines.
LEMMA RepliesType == TypeOK => \A c \in Conns : Replies(c) \in Seq(Line)
BY WithoutType DEF TypeOK, Replies

\* What a sequence with one element more has.
LEMMA AppendIsOneMore ==
  ASSUME NEW S, NEW q \in Seq(S), NEW m \in S
  PROVE  /\ Len(Append(q, m)) = Len(q) + 1
         /\ SubSeq(Append(q, m), 1, Len(q)) = q
         /\ Append(q, m)[Len(Append(q, m))] = m
OBVIOUS

\* A step of c's thread that answers.
LEMMA Speaks ==
  ASSUME TypeOK, TypeOK', TableInv, NEW c \in Conns, NEW f, Peer(f) = c,
         NEW m \in Line, ~IsEvent(m), Send({f}, m),
         UNCHANGED <<conn, gone, asked>>,
         \A d \in Conns \ {c} : pc'[d] = pc[d]
  PROVE  /\ \A d \in Conns \ {c} : Aside(d)
         /\ Replies(c)' = Append(Replies(c), m) \/ (gone[c] /\ Replies(c)' = Replies(c))
<1>1. \A d \in Conns \ {c} : Replies(d)' = Replies(d)
  BY SaysTo
<1>2. \A d \in Conns \ {c} : Stage'[d] = Stage[d]
  BY DEF Stage
<1>3. Replies(c)' = IF ~gone[c] THEN Append(Replies(c), m) ELSE Replies(c)
  <2>1. \E g \in {f} : Peer(g) = c
    OBVIOUS
  <2> QED
    BY <2>1, SaysTo
<1>4. \A d \in Conns \ {c} : Aside(d)
  BY <1>1, <1>2 DEF Aside
<1>5. gone[c] \in BOOLEAN
  BY DEF TypeOK
<1> QED
  BY <1>3, <1>4, <1>5

-----------------------------------------------------------------------------
(* The steps of the service.                                               *)

\* A thread that is not at its beginning has a descriptor of its client.
LEMMA OwnDescriptor ==
  ASSUME Inv, NEW c \in Conns, Holding(c)
  PROVE  /\ slot[c] \in Slots /\ sess[slot[c]].is_active
         /\ Peer(sess[slot[c]].sockfd) = c
         /\ pc[c] # "start" => fd[c] = sess[slot[c]].sockfd
BY DEF Inv, Ownership, ThreadInv, SlotInv

\* WELCOME.
LEMMA BeginGreets ==
  ASSUME Inv, TypeOK', NEW c \in Conns, Begin(c)
  PROVE  Service!Greet(c)
<1> DEFINE m == <<"WELCOME", "CHAT/1.0">>
<1>1. TypeOK /\ TableInv /\ Holding(c)
  BY DEF Inv, TypeInv, Ownership, Begin, Holding
<1>2. PICK f : f = sess[slot[c]].sockfd /\ Peer(f) = c
  BY <1>1, OwnDescriptor
<1>3. m \in Line /\ ~IsEvent(m) /\ m[1] = "WELCOME"
  BY LineTypes, WordTypes DEF IsEvent, EventKinds, Words
<1> HIDE DEF m
<1>4. /\ SendLine(c, f, m) /\ Send({f}, m) /\ pc[c] = "start"
      /\ UNCHANGED <<conn, gone, asked>>
  BY <1>2 DEF Begin, SendLine, m
<1>5. pc'[c] \in {"recv", "remove"} /\ \A d \in Conns \ {c} : pc'[d] = pc[d]
  BY <1>1, <1>4, Moves
<1>6. /\ \A d \in Conns \ {c} : Aside(d)
      /\ Replies(c)' = Append(Replies(c), m) \/ (gone[c] /\ Replies(c)' = Replies(c))
  BY <1>1, <1>2, <1>3, <1>4, <1>5, Speaks
<1>7. Stage[c] = "new" /\ Stage'[c] \in {"idle", "over"}
  BY <1>4, <1>5 DEF Stage
<1>8. Replies(c) \in Seq(Line)
  BY <1>1, RepliesType
<1> DEFINE said == [d \in Conns |-> Replies(d)]
<1>9. said[c] = Replies(c) /\ said'[c] = Replies(c)'
  OBVIOUS
<1> QED
  BY <1>3, <1>4, <1>6, <1>7, <1>8, AppendIsOneMore
  DEF Service!Greet, Service!Moves, Service!Says, Service!Others, Service!OneMore, Aside

\* An answer is nobody's event.
LEMMA AnswersAreReplies ==
  ASSUME NEW l, NEW m, Service!Answers(l, m)
  PROVE  ~IsEvent(m)
BY DEF Service!Answers, Service!OkFor, IsEvent, EventKinds

\* The right answer to the line at hand, and on to the next one.
LEMMA AnswersItsLine ==
  ASSUME Inv, NEW c \in Conns, OnItsLine(c), pc[c] \in Working,
         NEW f, Peer(f) = c, NEW m \in Line, Service!Answers(job[c].line, m),
         Send({f}, m), UNCHANGED <<conn, gone, asked>>, TypeOK',
         pc'[c] \in {"recv", "remove", "status_notify"},
         \A d \in Conns \ {c} : pc'[d] = pc[d]
  PROVE  Service!Answer(c)
<1>1. TypeOK /\ TableInv
  BY DEF Inv, TypeInv, Ownership
<1>2. /\ \A d \in Conns \ {c} : Aside(d)
      /\ Replies(c)' = Append(Replies(c), m) \/ (gone[c] /\ Replies(c)' = Replies(c))
  BY <1>1, AnswersAreReplies, Speaks
<1>3. Stage[c] = "working" /\ Stage'[c] \in {"idle", "over"}
  BY DEF Stage, Working
<1>4. Replies(c) \in Seq(Line)
  BY <1>1, RepliesType
<1>5. Service!Answers(asked[c][Len(asked[c])], m)
  BY DEF OnItsLine
<1> DEFINE said == [d \in Conns |-> Replies(d)]
<1>6. said[c] = Replies(c) /\ said'[c] = Replies(c)'
  OBVIOUS
<1> QED
  BY <1>2, <1>3, <1>4, <1>5, AppendIsOneMore
  DEF Service!Answer, Service!Moves, Service!Says, Service!Others, Service!OneMore, Aside

\* A step of c's thread that sends to nobody, or an event, is the client's
\* silence or its end.
LEMMA SaysNothing ==
  ASSUME TypeOK, TypeOK', NEW c \in Conns,
         UNCHANGED asked, UNCHANGED <<conn, gone>>,
         UNCHANGED outq \/ \E F : \E m \in Line : Send(F, m) /\ IsEvent(m),
         \A d \in Conns \ {c} : pc'[d] = pc[d],
         Stage'[c] = Stage[c] \/ (Stage[c] = "idle" /\ Stage'[c] = "over")
  PROVE  [Service!Next]_(Service!vars)
<1>1. \A d \in Conns : Replies(d)' = Replies(d)
  <2>1. CASE UNCHANGED outq
    BY <2>1 DEF Replies
  <2>2. ASSUME NEW F, NEW m \in Line, Send(F, m), IsEvent(m)
        PROVE  \A d \in Conns : Replies(d)' = Replies(d)
    BY <2>2, SaysTo
  <2> QED
    BY <2>1, <2>2
<1>2. \A d \in Conns \ {c} : Stage'[d] = Stage[d]
  BY DEF Stage
<1>3. CASE Stage'[c] = Stage[c]
  BY <1>1, <1>2, <1>3, ServiceStands DEF Aside
<1>4. CASE Stage[c] = "idle" /\ Stage'[c] = "over"
  <2>1. Service!End(c)
    BY <1>1, <1>2, <1>4 DEF Service!End, Service!Moves, Service!Others
  <2> QED
    BY <2>1 DEF Service!Next
<1> QED
  BY <1>3, <1>4

\* recv_line returns the next line.
LEMMA RecvHears ==
  ASSUME Inv, TypeOK', NEW c \in Conns, NEW l \in FirstInputs \cup Inputs, Recv(c, l)
  PROVE  Service!Hear(c)
<1>1. TypeOK /\ l \in Line
  BY InputsAssumption DEF Inv, TypeInv, Line
<1>2. /\ pc[c] = "recv" /\ Goto(c, "touch") /\ UNCHANGED <<conn, gone, outq>>
      /\ asked' = [asked EXCEPT ![c] = Append(@, l)]
  BY DEF Recv
<1>3. pc'[c] = "touch" /\ \A d \in Conns \ {c} : pc'[d] = pc[d]
  BY <1>1, <1>2, Moves
<1>4. /\ asked[c] \in Seq(Line) /\ asked'[c] = Append(asked[c], l)
      /\ \A d \in Conns \ {c} : asked'[d] = asked[d]
  BY <1>1, <1>2 DEF TypeOK
<1>5. /\ Stage[c] = "idle" /\ Stage'[c] = "working"
      /\ \A d \in Conns \ {c} : Stage'[d] = Stage[d]
  BY <1>2, <1>3 DEF Stage
<1>6. UNCHANGED [d \in Conns |-> Replies(d)]
  BY <1>2 DEF Replies
<1> QED
  BY <1>1, <1>2, <1>4, <1>5, <1>6, AppendIsOneMore
  DEF Service!Hear, Service!Moves, Service!Others, Service!OneMore

\* The answers a thread sends itself, and those its handlers have left.
LEMMA ThreadAnswers ==
  ASSUME Inv, TypeOK', NEW c \in Conns, OnItsLine(c),
         \/ Ping(c) \/ Quit(c) \/ Unparsed(c) \/ StatusAck(c) \/ HandleQuit(c)
         \/ Reply(c)
  PROVE  Service!Answer(c)
<1> DEFINE l == job[c].line
           own == sess[slot[c]].sockfd
<1> USE DEF Handles
<1>1. /\ TypeOK /\ Holding(c) /\ pc[c] # "start" /\ pc[c] \in Working
      /\ UNCHANGED <<conn, gone, asked>>
  BY DEF Inv, TypeInv, Ping, Quit, Unparsed, StatusAck, HandleQuit, Reply, Holding, Working
<1>2. Peer(own) = c /\ fd[c] = own
  BY <1>1, OwnDescriptor
<1>3. job[c] \in Job /\ job[c].reply \in Line /\ l \in Line /\ l # <<>>
  BY <1>1 DEF TypeOK, Job, OnItsLine
<1>4. Type(l) = l[1] /\ Arg1(l) \in Fields
  BY <1>3, TypeIs, FieldTypes
<1> HIDE DEF l, own
<1>5. ASSUME NEW m \in Line, Service!Answers(l, m), Send({own}, m),
             NEW to \in {"recv", "remove", "status_notify"}, Goto(c, to)
      PROVE  Service!Answer(c)
  <2>1. pc'[c] = to /\ \A d \in Conns \ {c} : pc'[d] = pc[d]
    BY <1>1, <1>5, Moves
  <2> QED
    BY <1>1, <1>2, <1>5, <2>1, AnswersItsLine DEF l
<1>6. ASSUME NEW m \in Line, Service!Answers(l, m), SendLine(c, own, m)
      PROVE  Service!Answer(c)
  <2>1. PICK to \in {"recv", "remove"} : Goto(c, to)
    BY <1>6, NextLoopType DEF SendLine
  <2>2. Send({own}, m)
    BY <1>6 DEF SendLine
  <2> QED
    BY <1>5, <1>6, <2>1, <2>2
<1>7. NextLoop \in {"recv", "remove"}
  BY NextLoopType
<1>8. CASE Ping(c)
  <2>1. <<"PONG">> \in Line
    BY LineTypes, WordTypes DEF Words
  <2>2. l[1] = "PING" /\ SendLine(c, own, <<"PONG">>)
    BY <1>2, <1>8 DEF Ping, l
  <2>3. Service!Answers(l, <<"PONG">>)
    BY <2>2, RightAnswers DEF Service!OkFor
  <2> QED
    BY <1>6, <2>1, <2>2, <2>3
<1>9. CASE Quit(c)
  <2>1. <<"BYE">> \in Line
    BY LineTypes, WordTypes DEF Words
  <2>2. l[1] = "QUIT" /\ Send({own}, <<"BYE">>) /\ Goto(c, "remove")
    BY <1>2, <1>9 DEF Quit, l
  <2>3. Service!Answers(l, <<"BYE">>)
    BY <2>2, RightAnswers DEF Service!OkFor
  <2> QED
    BY <1>5, <2>1, <2>2, <2>3
<1>10. CASE Unparsed(c)
  <2> DEFINE m == Error("PROTO", "NOT_IMPLEMENTED")
  <2>1. m \in Line
    BY LineTypes, WordTypes DEF Words, Error
  <2>2. l[1] \notin Commands /\ SendLine(c, own, m)
    BY <1>2, <1>4, <1>10 DEF Unparsed, l
  <2>3. Service!Answers(l, m)
    BY <2>2, RightAnswers
  <2> QED
    BY <1>6, <2>1, <2>2, <2>3
<1>11. CASE StatusAck(c)
  <2> DEFINE m == <<"STATUS_OK", Arg1(l)>>
  <2>1. m \in Line
    BY <1>4, LineTypes, WordTypes DEF Words
  <2>2. l[1] = "STATUS" /\ Send({own}, m) /\ Goto(c, "status_notify")
    BY <1>1, <1>2, <1>11 DEF StatusAck, OnItsLine, Step, l
  <2>3. Service!Answers(l, m)
    BY <2>2, RightAnswers DEF Service!OkFor
  <2> QED
    BY <1>5, <2>1, <2>2, <2>3
<1>12. CASE HandleQuit(c)
  <2>1. <<"BYE">> \in Line
    BY LineTypes, WordTypes DEF Words
  <2>2. l[1] = "QUIT" /\ Send({own}, <<"BYE">>) /\ Goto(c, NextLoop)
    BY <1>4, <1>12 DEF HandleQuit, l, own
  <2>3. Service!Answers(l, <<"BYE">>)
    BY <2>2, RightAnswers DEF Service!OkFor
  <2> QED
    BY <1>5, <1>7, <2>1, <2>2, <2>3
<1>13. CASE Reply(c)
  <2>1. /\ Service!Answers(l, job[c].reply) /\ Send({own}, job[c].reply)
        /\ Goto(c, NextLoop)
    BY <1>1, <1>13 DEF Reply, OnItsLine, l, own
  <2> QED
    BY <1>3, <1>5, <1>7, <2>1
<1> QED
  BY <1>8, <1>9, <1>10, <1>11, <1>12, <1>13

\* Every other step of a thread, except the first, is silent.
LEMMA ThreadSilent ==
  ASSUME Inv, TypeOK', NEW c \in Conns,
         \/ RecvEnd(c) \/ Touch(c) \/ HandleRegister(c) \/ RegAdd(c) \/ HandleMsg(c)
         \/ Deliver(c) \/ HandleBroadcast(c) \/ HandleList(c) \/ HandleInfo(c)
         \/ InfoGet(c) \/ HandleStatus(c) \/ StatusNotify(c) \/ Remove(c)
  PROVE  [Service!Next]_(Service!vars)
<1> USE DEF kernel, shared, Handles
<1>1. TypeInv /\ TypeOK /\ Holding(c) /\ UNCHANGED <<conn, gone, asked>>
  BY DEF Inv, TypeInv, RecvEnd, Touch, HandleRegister, RegAdd, HandleMsg, Deliver,
         HandleBroadcast, HandleList, HandleInfo, InfoGet, HandleStatus, StatusNotify,
         Remove, Holding
<1>2. /\ Arg1(job[c].line) \in Fields /\ Arg2(job[c].line) \in Fields
      /\ sess[slot[c]].username \in Fields
  BY <1>1, JobFields, OwnSession
<1>3. UNCHANGED outq \/ \E F : \E m \in Line : Send(F, m) /\ IsEvent(m)
  <2>1. ASSUME NEW kind \in EventKinds, NEW a \in Fields, NEW b \in Fields
        PROVE  <<kind, a, b>> \in Line /\ IsEvent(<<kind, a, b>>)
    BY LineTypes, WordTypes DEF EventKinds, Words, IsEvent
  <2>2. CASE Deliver(c)
    BY <1>2, <2>1, <2>2 DEF Deliver, EventKinds
  <2>3. CASE HandleBroadcast(c)
    BY <1>2, <2>1, <2>3 DEF HandleBroadcast, EventKinds
  <2>4. CASE StatusNotify(c)
    BY <1>2, <2>1, <2>4 DEF StatusNotify, EventKinds
  <2> QED
    BY <2>2, <2>3, <2>4
    DEF RecvEnd, Touch, HandleRegister, RegAdd, HandleMsg, HandleList, HandleInfo,
        InfoGet, HandleStatus, Remove
<1>4. \A l : Goto(c, l) => pc'[c] = l /\ \A d \in Conns \ {c} : pc'[d] = pc[d]
  BY <1>1, Moves
<1>5. /\ \A d \in Conns \ {c} : pc'[d] = pc[d]
      /\ \/ pc[c] \in Working /\ pc'[c] \in Working
         \/ pc[c] = "recv" /\ pc'[c] = "remove"
         \/ pc[c] = "status_notify" /\ pc'[c] \in {"recv", "remove"}
         \/ pc[c] = "remove" /\ pc'[c] \in {"close", "done"}
  <2> USE <1>4 DEF Working, Answer
  <2>1. CASE RecvEnd(c) \/ Touch(c) \/ Remove(c)
    BY <2>1 DEF RecvEnd, Touch, Remove
  <2>2. CASE StatusNotify(c)
    BY <2>2, NextLoopType DEF StatusNotify
  <2>3. CASE HandleRegister(c)
    BY <2>3 DEF HandleRegister
  <2>4. CASE RegAdd(c) \/ HandleMsg(c) \/ Deliver(c)
    BY <2>4 DEF RegAdd, HandleMsg, Deliver
  <2>5. CASE HandleBroadcast(c) \/ HandleList(c) \/ HandleInfo(c)
    BY <2>5 DEF HandleBroadcast, HandleList, HandleInfo
  <2>6. CASE InfoGet(c) \/ HandleStatus(c)
    BY <2>6 DEF InfoGet, HandleStatus
  <2> QED
    BY <2>1, <2>2, <2>3, <2>4, <2>5, <2>6
<1>6. Stage'[c] = Stage[c] \/ (Stage[c] = "idle" /\ Stage'[c] = "over")
  BY <1>5 DEF Stage, Working
<1> QED
  BY <1>1, <1>3, <1>5, <1>6, SaysNothing

\* A thread, then, gives the service.
LEMMA ThreadServes ==
  ASSUME Inv, Inv', NEW c \in Conns, OnItsLine(c), ThreadRuns(c)
  PROVE  [Service!Next]_(Service!vars)
<1>1. TypeOK /\ TypeOK'
  BY DEF Inv, TypeInv
<1>2. CASE Begin(c)
  BY <1>1, <1>2, BeginGreets DEF Service!Next
<1>3. CASE \/ Ping(c) \/ Quit(c) \/ Unparsed(c) \/ StatusAck(c) \/ HandleQuit(c)
           \/ Reply(c)
  BY <1>1, <1>3, ThreadAnswers DEF Service!Next
<1>4. CASE CloseOwn(c)
  <2>1. pc[c] = "close" /\ pc'[c] = "done" /\ \A d \in Conns \ {c} : pc'[d] = pc[d]
    BY <1>1, <1>4, Moves DEF CloseOwn
  <2>2. UNCHANGED <<outq, asked>> /\ conn' \in [Conns -> {"idle", "queued", "open", "closed"}]
    BY <1>1, <1>4 DEF CloseOwn, TypeOK
  <2>3. Peer(fd[c]) = c /\ TableInv /\ CloseFd(fd[c])
    BY <2>1, <1>4 DEF Inv, Ownership, ThreadInv, CloseOwn
  <2>4. \A d \in Conns \ {c} : conn'[d] = conn[d]
    BY <2>3 DEF CloseFd
  <2>5. \A d \in Conns : Stage'[d] = Stage[d]
    BY <2>1, <2>4 DEF Stage
  <2> QED
    BY <1>1, <2>2, <2>5, ServiceStands DEF Aside, Replies
<1>5. CASE \/ RecvEnd(c) \/ Touch(c) \/ HandleRegister(c) \/ RegAdd(c) \/ HandleMsg(c)
           \/ Deliver(c) \/ HandleBroadcast(c) \/ HandleList(c) \/ HandleInfo(c)
           \/ InfoGet(c) \/ HandleStatus(c) \/ StatusNotify(c) \/ Remove(c)
  BY <1>1, <1>5, ThreadSilent
<1> QED
  BY <1>2, <1>3, <1>4, <1>5 DEF ThreadRuns, Handle

\* main accepts, refuses and spawns; only a refusal, or a thread that could not
\* be created, is a step of the service.
LEMMA MainServes ==
  ASSUME Inv, Inv', Main
  PROVE  [Service!Next]_(Service!vars)
<1> USE DEF kernel, threads
<1>1. TypeOK /\ TypeOK' /\ TableInv /\ MainInv /\ UNCHANGED <<outq, asked>>
  BY DEF Inv, TypeInv, Ownership, Main, Loop, AcceptFails, Add, Find, Spawn, SpawnFails,
         SetTid, Drop, Close, Shutdown, ShutSessions, Join, Accept
<1>2. UNCHANGED [d \in Conns |-> Replies(d)]
  BY <1>1 DEF Replies
<1>3. CASE Close
  <2>1. apc = "close" /\ CloseFd(afd) /\ UNCHANGED pc
    BY <1>3 DEF Close
  <2>2. PICK c \in Conns : Peer(afd) = c /\ pc[c] = "none"
    BY <1>1, <2>1 DEF MainInv
  <2>3. conn' = [conn EXCEPT ![c] = "closed"] /\ conn[c] = "open"
    BY <1>1, <2>1, <2>2, CloseFdOf, NoConnAssumption DEF Peer, TableInv
  <2>4. gone' = [gone EXCEPT ![c] = TRUE]
    BY <1>1, <2>1, <2>2 DEF CloseFd, TypeOK
  <2>5. /\ Stage[c] = "new" /\ Stage'[c] = "over"
        /\ \A d \in Conns \ {c} : Stage'[d] = Stage[d]
    BY <1>1, <2>1, <2>2, <2>3 DEF Stage, TypeOK
  <2>6. Service!Refuse(c)
    BY <1>1, <1>2, <2>4, <2>5 DEF Service!Refuse, Service!Moves, Service!Others
  <2> QED
    BY <2>6 DEF Service!Next
<1>4. CASE Spawn
  <2>1. PICK c \in Conns : Peer(afd) = c /\ pc[c] = "none" /\ c \notin {NoConn}
    BY <1>1, <1>4, NoConnAssumption DEF Spawn, MainInv
  <2>2. conn[c] = "open" /\ UNCHANGED conn
    BY <1>1, <1>4, <2>1 DEF TableInv, Peer, Spawn
  <2>3. pc'[c] = "start" /\ \A d \in Conns \ {c} : pc'[d] = pc[d]
    BY <1>1, <1>4, <2>1 DEF Spawn, TypeOK
  <2>4. \A d \in Conns : Stage'[d] = Stage[d]
    BY <2>1, <2>2, <2>3 DEF Stage
  <2> QED
    BY <1>1, <1>2, <2>4, ServiceStands DEF Aside, Replies
<1>5. ASSUME NEW c \in Conns, Accept(c) PROVE [Service!Next]_(Service!vars)
  <2>1. conn[c] = "queued" /\ conn' = [conn EXCEPT ![c] = "open"] /\ UNCHANGED pc
    BY <1>5 DEF Accept
  <2>2. \A d \in Conns : Stage'[d] = Stage[d]
    BY <1>1, <2>1 DEF Stage, TypeOK
  <2> QED
    BY <1>1, <2>2, ServiceStands DEF Aside, Replies
<1>6. CASE \/ Loop \/ AcceptFails \/ Add \/ Find \/ SpawnFails \/ SetTid \/ Drop
           \/ Shutdown \/ ShutSessions \/ Join
  <2>1. UNCHANGED <<pc, conn>>
    BY <1>6 DEF Loop, AcceptFails, Add, Find, SpawnFails, SetTid, Drop, Shutdown,
                ShutSessions, Join
  <2>2. \A d \in Conns : Stage'[d] = Stage[d]
    BY <2>1 DEF Stage
  <2> QED
    BY <1>1, <2>2, ServiceStands DEF Aside, Replies
<1> QED
  BY <1>3, <1>4, <1>5, <1>6 DEF Main

\* The environment and the monitor leave every conversation alone: what the
\* monitor sends are events.
LEMMA OthersServe ==
  ASSUME Inv, Inv', Environment \/ HandlerCloses \/ Monitor
  PROVE  [Service!Next]_(Service!vars)
<1> USE DEF kernel, shared, threads
<1>1. TypeOK /\ TypeOK' /\ UNCHANGED <<asked, pc>>
  BY DEF Inv, TypeInv, Environment, Connect, PeerCloses, Tick, SignalMain, SignalOther,
         HandlerCloses, Monitor, MonWake, MonScan, MonSend
<1>2. UNCHANGED conn \/ \E c \in Conns : conn[c] = "idle" /\ conn' = [conn EXCEPT ![c] = "queued"]
  BY DEF Environment, Connect, PeerCloses, Tick, SignalMain, SignalOther,
         HandlerCloses, Monitor, MonWake, MonScan, MonSend
<1>3. \A d \in Conns : Stage'[d] = Stage[d]
  <2>1. \A d \in Conns : conn'[d] = "closed" <=> conn[d] = "closed"
    BY <1>1, <1>2 DEF TypeOK
  <2> QED
    BY <1>1, <2>1 DEF Stage
<1>4. \A d \in Conns : Replies(d)' = Replies(d)
  <2>1. CASE MonSend
    <3>1. PICK n \in notes : Send({n.fd}, <<"STATUS_CHANGED", n.user, "INACTIVO">>)
      BY <2>1 DEF MonSend
    <3>2. n.user \in Fields
      BY <1>1 DEF TypeOK, Note
    <3> DEFINE m == <<"STATUS_CHANGED", n.user, "INACTIVO">>
    <3>3. m \in Line /\ IsEvent(m)
      BY <3>2, LineTypes, WordTypes DEF Words, Statuses, IsEvent, EventKinds
    <3> HIDE DEF m
    <3> QED
      BY <1>1, <3>1, <3>3, SaysTo DEF m
  <2>2. CASE UNCHANGED outq
    BY <2>2 DEF Replies
  <2> QED
    BY <2>1, <2>2
    DEF Environment, Connect, PeerCloses, Tick, SignalMain, SignalOther,
        HandlerCloses, Monitor, MonWake, MonScan
<1> QED
  BY <1>1, <1>3, <1>4, ServiceStands DEF Aside

-----------------------------------------------------------------------------
(* Threads keep to their lines.                                            *)

\* c's conversation is as it was if its own state is.
LEMMA SameLine ==
  ASSUME NEW c \in Conns, OnItsLine(c),
         pc'[c] = pc[c], job'[c] = job[c], asked'[c] = asked[c]
  PROVE  OnItsLine(c)'
BY DEF OnItsLine, Step

\* A thread goes on working on the line it works on.
LEMMA GoesOn ==
  ASSUME NEW c \in Conns, OnItsLine(c), pc[c] \in Working,
         job'[c].line = job[c].line, asked'[c] = asked[c],
         pc'[c] = "reg_add" => job[c].line[1] = "REGISTER",
         pc'[c] = "deliver" => job[c].line[1] = "MSG",
         pc'[c] = "info_get" => job[c].line[1] = "INFO",
         pc'[c] = "status_ack" => job[c].line[1] = "STATUS",
         pc'[c] = "reply" => Service!Answers(job[c].line, job'[c].reply)
  PROVE  OnItsLine(c)'
BY DEF OnItsLine, Step

\* What the handlers leave to be sent answers the line.
LEMMA HandlersAnswer ==
  ASSUME Inv, NEW c \in Conns, OnItsLine(c),
         \/ HandleRegister(c) \/ RegAdd(c) \/ HandleMsg(c) \/ Deliver(c)
         \/ HandleBroadcast(c) \/ HandleList(c) \/ HandleInfo(c) \/ InfoGet(c)
         \/ HandleStatus(c)
  PROVE  OnItsLine(c)'
<1> DEFINE l == job[c].line
<1> USE DEF Handles, kernel
<1>1. TypeOK /\ pc[c] \in Working /\ asked'[c] = asked[c]
  BY DEF Inv, TypeInv, Working, HandleRegister, RegAdd, HandleMsg, Deliver,
         HandleBroadcast, HandleList, HandleInfo, InfoGet, HandleStatus
<1>2. /\ job \in [Conns -> Job] /\ job[c] \in Job /\ l \in Line /\ l # <<>>
      /\ Step("reg_add", "REGISTER", c) /\ Step("deliver", "MSG", c)
      /\ Step("info_get", "INFO", c) /\ Step("status_ack", "STATUS", c)
  BY <1>1 DEF TypeOK, Job, OnItsLine
<1>3. Type(l) = l[1]
  BY <1>2, TypeIs
<1>4. \A label : Goto(c, label) => pc'[c] = label
  BY <1>1, Moves
<1>5. \A m : Answer(c, m) =>
        pc'[c] = "reply" /\ job'[c].line = l /\ job'[c].reply = m
  BY <1>1, <1>2, Moves DEF Answer, Job
<1> HIDE DEF l
<1>6. ASSUME NEW m, Answer(c, m), Service!Answers(l, m) PROVE OnItsLine(c)'
  <2>1. pc'[c] = "reply" /\ job'[c].line = l /\ job'[c].reply = m
    BY <1>5, <1>6
  <2> QED
    BY <1>1, <1>6, <2>1, GoesOn DEF l
<1>7. ASSUME NEW op, NEW code, l[1] = op, op # "QUIT", Answer(c, Error(op, code))
      PROVE  OnItsLine(c)'
  BY <1>6, <1>7, RightAnswers
<1>8. ASSUME NEW m, Answer(c, m), l[1] \in DOMAIN Service!OkFor,
             m[1] = Service!OkFor[l[1]]
      PROVE  OnItsLine(c)'
  BY <1>6, <1>8, RightAnswers
<1>9. CASE HandleRegister(c)
  <2>1. l[1] = "REGISTER"
    BY <1>3, <1>9 DEF HandleRegister, l
  <2>2. CASE Answer(c, Error("REGISTER", "BAD_FORMAT"))
    BY <1>7, <2>1, <2>2
  <2>3. CASE Answer(c, Error("REGISTER", "DUPLICATE_NAME"))
    BY <1>7, <2>1, <2>3
  <2>4. CASE Goto(c, "reg_add") /\ UNCHANGED job
    BY <1>1, <1>4, <2>1, <2>4, GoesOn DEF l
  <2> QED
    BY <1>9, <2>2, <2>3, <2>4 DEF HandleRegister
<1>10. CASE RegAdd(c)
  BY <1>2, <1>8, <1>10 DEF RegAdd, Step, Service!OkFor, l
<1>11. CASE HandleMsg(c)
  <2>1. l[1] = "MSG"
    BY <1>3, <1>11 DEF HandleMsg, l
  <2>2. CASE Answer(c, Error("MSG", "USER_NOT_FOUND"))
    BY <1>7, <2>1, <2>2
  <2>3. CASE ~Answer(c, Error("MSG", "USER_NOT_FOUND"))
    <3>1. pc'[c] = "deliver" /\ job'[c].line = l
      BY <1>2, <1>4, <1>11, <2>3 DEF HandleMsg, Job, l
    <3> QED
      BY <1>1, <2>1, <3>1, GoesOn DEF l
  <2> QED
    BY <2>2, <2>3
<1>12. CASE Deliver(c)
  <2>1. l[1] = "MSG" /\ pc'[c] = "reply"
    BY <1>2, <1>4, <1>12 DEF Deliver, Step, l
  <2>2. job'[c].line = l /\ job'[c].reply = <<"MSG_OK", Arg1(l)>>
    BY <1>2, <1>12 DEF Deliver, Job, l
  <2>3. Service!Answers(l, job'[c].reply)
    BY <2>1, <2>2, RightAnswers DEF Service!OkFor
  <2> QED
    BY <1>1, <2>1, <2>2, <2>3, GoesOn DEF l
<1>13. CASE HandleBroadcast(c)
  BY <1>3, <1>8, <1>13 DEF HandleBroadcast, Service!OkFor, l
<1>14. CASE HandleList(c)
  <2> DEFINE m == <<"LIST_OK">> \o ListedNames(sess)
  <2>1. m[1] = "LIST_OK"
    BY MaxClientsAssumption DEF ListedNames, Slots
  <2> HIDE DEF m
  <2>2. l[1] = "LIST" /\ Answer(c, m)
    BY <1>3, <1>14 DEF HandleList, l, m
  <2> QED
    BY <1>8, <2>1, <2>2 DEF Service!OkFor
<1>15. CASE HandleInfo(c)
  <2>1. l[1] = "INFO"
    BY <1>3, <1>15 DEF HandleInfo, l
  <2>2. CASE Answer(c, Error("INFO", "USER_NOT_FOUND"))
    BY <1>7, <2>1, <2>2
  <2>3. CASE Goto(c, "info_get") /\ UNCHANGED job
    BY <1>1, <1>4, <2>1, <2>3, GoesOn DEF l
  <2> QED
    BY <1>15, <2>2, <2>3 DEF HandleInfo
<1>16. CASE InfoGet(c)
  <2> DEFINE s == FindByUsername(sess, Arg1(l))
             m == <<"INFO_OK", Arg1(l), sess[s].status>>
  <2>1. l[1] = "INFO"
    BY <1>2, <1>16 DEF InfoGet, Step, l
  <2>2. m[1] = "INFO_OK"
    OBVIOUS
  <2>3. Answer(c, IF s = NoSlot THEN Error("INFO", "UNKNOWN_CMD") ELSE m)
    BY <1>16 DEF InfoGet, l
  <2> HIDE DEF s, m
  <2> QED
    BY <1>7, <1>8, <2>1, <2>2, <2>3 DEF Service!OkFor
<1>17. CASE HandleStatus(c)
  <2>1. l[1] = "STATUS"
    BY <1>3, <1>17 DEF HandleStatus, l
  <2>2. CASE Answer(c, Error("STATUS", "INVALID_STATUS"))
    BY <1>7, <2>1, <2>2
  <2>3. CASE Goto(c, "status_ack") /\ UNCHANGED job
    BY <1>1, <1>4, <2>1, <2>3, GoesOn DEF l
  <2> QED
    BY <1>17, <2>2, <2>3 DEF HandleStatus
<1> QED
  BY <1>9, <1>10, <1>11, <1>12, <1>13, <1>14, <1>15, <1>16, <1>17

\* A step of one thread does not touch the state of another.
LEMMA OnlyItsOwn ==
  ASSUME TypeOK, NEW c \in Conns,
         ThreadRuns(c) \/ \E l \in FirstInputs \cup Inputs : Recv(c, l)
  PROVE  \A d \in Conns \ {c} :
           pc'[d] = pc[d] /\ job'[d] = job[d] /\ asked'[d] = asked[d]
<1> USE DEF kernel
<1>1. pc \in [Conns -> ThreadLabels] /\ job \in [Conns -> Job]
  BY DEF TypeOK
<1>2. \A d \in Conns \ {c} : asked'[d] = asked[d]
  BY DEF TypeOK, ThreadRuns, Begin, RecvEnd, Touch, Ping, Quit, Unparsed, Remove,
         CloseOwn, Handle, HandleRegister, RegAdd, HandleMsg, Deliver, HandleBroadcast,
         HandleList, HandleInfo, InfoGet, HandleStatus, StatusAck, StatusNotify,
         HandleQuit, Reply, Recv
<1>3. \A d \in Conns \ {c} : pc'[d] = pc[d]
  BY <1>1
  DEF ThreadRuns, Begin, RecvEnd, Touch, Ping, Quit, Unparsed, Remove,
      CloseOwn, Handle, HandleRegister, RegAdd, HandleMsg, Deliver, HandleBroadcast,
      HandleList, HandleInfo, InfoGet, HandleStatus, StatusAck, StatusNotify,
      HandleQuit, Reply, Recv, SendLine, Goto, Answer
<1>4. \A d \in Conns \ {c} : job'[d] = job[d]
  BY <1>1
  DEF ThreadRuns, Begin, RecvEnd, Touch, Ping, Quit, Unparsed, Remove,
      CloseOwn, Handle, HandleRegister, RegAdd, HandleMsg, Deliver, HandleBroadcast,
      HandleList, HandleInfo, InfoGet, HandleStatus, StatusAck, StatusNotify,
      HandleQuit, Reply, Recv, Answer
<1> QED
  BY <1>2, <1>3, <1>4

\* Whatever c's thread does, what it works on is still its last line.
LEMMA OwnConversation ==
  ASSUME Inv, NEW c \in Conns, OnItsLine(c),
         ThreadRuns(c) \/ \E l \in FirstInputs \cup Inputs : Recv(c, l)
  PROVE  OnItsLine(c)'
<1> USE DEF kernel
<1>1. TypeOK /\ pc \in [Conns -> ThreadLabels] /\ job[c] \in Job
  BY DEF Inv, TypeInv, TypeOK
<1>2. \A label : Goto(c, label) => pc'[c] = label
  BY <1>1, Moves
<1>3. ASSUME NEW l \in FirstInputs \cup Inputs, Recv(c, l) PROVE OnItsLine(c)'
  <2>1. l \in Line /\ l # <<>> /\ pc'[c] = "touch"
    BY <1>2, <1>3, InputsAssumption DEF Recv, Line
  <2>2. asked[c] \in Seq(Line) /\ asked'[c] = Append(asked[c], l)
    BY <1>1, <1>3 DEF Recv, TypeOK
  <2>3. job'[c].line = l
    BY <1>1, <1>3 DEF Recv, TypeOK, Job
  <2>4. Len(asked'[c]) > 0 /\ asked'[c][Len(asked'[c])] = l
    BY <2>1, <2>2
  <2> QED
    BY <2>1, <2>3, <2>4 DEF OnItsLine, Step
<1>4. CASE Touch(c)
  <2>1. /\ pc[c] = "touch" /\ pc'[c] = "dispatch" /\ asked'[c] = asked[c]
        /\ job'[c].line = job[c].line
    BY <1>1, <1>2, <1>4 DEF Touch, TypeOK, Job
  <2> QED
    BY <2>1, GoesOn DEF Working
<1>5. CASE \/ Begin(c) \/ RecvEnd(c) \/ Ping(c) \/ Quit(c) \/ Unparsed(c) \/ StatusAck(c)
           \/ StatusNotify(c) \/ HandleQuit(c) \/ Reply(c) \/ Remove(c) \/ CloseOwn(c)
  <2>1. \A f, m : SendLine(c, f, m) => pc'[c] \in {"recv", "remove"}
    BY <1>1, Moves
  <2>2. pc'[c] \notin Working
    BY <1>2, <1>5, <2>1, NextLoopType
    DEF Begin, RecvEnd, Ping, Quit, Unparsed, StatusAck, StatusNotify, HandleQuit,
        Reply, Remove, CloseOwn, Working
  <2> QED
    BY <2>2 DEF OnItsLine
<1>6. CASE \/ HandleRegister(c) \/ RegAdd(c) \/ HandleMsg(c) \/ Deliver(c)
           \/ HandleBroadcast(c) \/ HandleList(c) \/ HandleInfo(c) \/ InfoGet(c)
           \/ HandleStatus(c)
  BY <1>6, HandlersAnswer
<1> QED
  BY <1>3, <1>4, <1>5, <1>6 DEF ThreadRuns, Handle

\* Nobody else takes a thread from its line; a new thread has none yet.
LEMMA ConversationsStep ==
  ASSUME Inv, Conversations, [Next]_vars
  PROVE  Conversations'
<1> USE DEF kernel, threads
<1>1. TypeOK
  BY DEF Inv, TypeInv
<1>2. ASSUME NEW c \in Conns,
             ThreadRuns(c) \/ \E l \in FirstInputs \cup Inputs : Recv(c, l)
      PROVE  Conversations'
  <2>1. \A d \in Conns \ {c} : OnItsLine(d)'
    BY <1>1, <1>2, OnlyItsOwn, SameLine DEF Conversations
  <2>2. OnItsLine(c)'
    BY <1>2, OwnConversation DEF Conversations
  <2> QED
    BY <2>1, <2>2 DEF Conversations
<1>3. CASE UNCHANGED <<pc, job, asked>>
  BY <1>3, SameLine DEF Conversations
<1>4. CASE Spawn
  <2>1. PICK c : pc' = [pc EXCEPT ![c] = "start"] /\ UNCHANGED <<job, asked>>
    BY <1>4 DEF Spawn
  <2>2. \A d \in Conns : pc'[d] = pc[d] \/ pc'[d] = "start"
    BY <1>1, <2>1 DEF TypeOK
  <2>3. \A d \in Conns : pc'[d] = "start" => OnItsLine(d)'
    BY DEF OnItsLine, Working
  <2> QED
    BY <2>1, <2>2, <2>3, SameLine DEF Conversations
<1>5. CASE Main /\ ~Spawn
  <2>1. UNCHANGED <<pc, job, asked>>
    BY <1>5 DEF Main, Loop, AcceptFails, Add, Find, SpawnFails, SetTid, Drop, Close,
                Shutdown, ShutSessions, Join, Accept
  <2> QED
    BY <1>3, <2>1
<1>6. CASE Environment \/ HandlerCloses \/ Monitor \/ UNCHANGED vars
  <2>1. UNCHANGED <<pc, job, asked>>
    BY <1>6 DEF Environment, Connect, PeerCloses, Tick, SignalMain, SignalOther,
                HandlerCloses, Monitor, MonWake, MonScan, MonSend, vars
  <2> QED
    BY <1>3, <2>1
<1> QED
  BY <1>2, <1>4, <1>5, <1>6 DEF Next

-----------------------------------------------------------------------------
(* The refinement.                                                         *)

\* Every step of the server is a step of the service or none.
LEMMA ServiceStep ==
  ASSUME Inv, Inv', Conversations, [Next]_vars
  PROVE  [Service!Next]_(Service!vars)
<1>1. TypeOK /\ TypeOK'
  BY DEF Inv, TypeInv
<1>2. CASE Main
  BY <1>2, MainServes
<1>3. CASE Environment \/ HandlerCloses \/ Monitor
  BY <1>3, OthersServe
<1>4. ASSUME NEW c \in Conns, ThreadRuns(c) PROVE [Service!Next]_(Service!vars)
  BY <1>4, ThreadServes DEF Conversations
<1>5. ASSUME NEW c \in Conns, NEW l \in FirstInputs \cup Inputs, Recv(c, l)
      PROVE  [Service!Next]_(Service!vars)
  BY <1>1, <1>5, RecvHears DEF Service!Next
<1>6. CASE UNCHANGED vars
  <2>1. \A d \in Conns : Aside(d)
    BY <1>6 DEF Aside, Stage, Replies, vars, kernel, threads
  <2> QED
    BY <1>1, <2>1, ServiceStands
<1> QED
  BY <1>2, <1>3, <1>4, <1>5, <1>6 DEF Next

\* Nobody has been greeted when the server starts.
LEMMA ServiceInit == Init => Service!Init /\ Conversations
<1> SUFFICES ASSUME Init PROVE Service!Init /\ Conversations
  OBVIOUS
<1>1. Stage = [c \in Conns |-> "new"]
  BY DEF Init, Stage
<1>2. [c \in Conns |-> Replies(c)] = [c \in Conns |-> <<>>]
  BY WithoutEmpty DEF Init, Replies
<1>3. Conversations
  BY DEF Init, Conversations, OnItsLine, Working
<1> QED
  BY <1>1, <1>2, <1>3 DEF Init, Service!Init

\* To each client the server behaves as the service.
THEOREM ServerGivesTheService == Spec => ImplementsService
<1>1. Inv /\ Conversations /\ [Next]_vars => Conversations'
  BY ConversationsStep
<1>2. Inv /\ Inv' /\ Conversations /\ [Next]_vars => [Service!Next]_(Service!vars)
  BY ServiceStep
<1> QED
  BY <1>1, <1>2, ServiceInit, Invariant, PTL DEF Spec, ImplementsService, Service!Spec

==============================================================================
