-------------------------- MODULE ChatSystemProofs --------------------------
(***************************************************************************)
(* What the clients get from the server and, by way of it, hear from each  *)
(* other, for every number of clients, slots and descriptors and all plans. *)
(* The server goes through the steps of ChatServer, so that its invariants *)
(* hold here as well; what is new is that each line it reads is one its    *)
(* client may have sent by then, that acknowledged messages are on their way, *)
(* that the others know the status a user was confirmed and that a client is *)
(* told when the server's status of its user is not the one that it shows. *)
(***************************************************************************)
EXTENDS ChatSystemProperties, ChatServerProofs, FiniteSetTheorems

-----------------------------------------------------------------------------
(* The inductive invariant.                                                *)

ClientLabels == {"off", "welcome", "answer", "chat", "quitting", "ended"}

\* The user of c may still be there.
Staying(c) == cpc[c] \in {"off", "welcome", "answer", "chat"}

ClientTypes ==
  /\ plan \in Plans
  /\ cpc \in [Conns -> ClientLabels]
  /\ wire \in [Conns -> Seq(Line)]

\* No signal comes, so that the server goes on.
GoesOn == running /\ apc \notin {"shutdown", "shut_sessions", "join", "exit"}

\* The server has told c that it is registered, or is about to.
Told(c)    == \E k \in DOMAIN outq[c] : outq[c][k][1] = "REGISTER_OK"
Telling(c) == pc[c] = "reply" /\ job[c].reply[1] = "REGISTER_OK"

Registration(c) == <<"REGISTER", NameOf[c]>>

\* Line l may have been sent by c: its registration, of which it has not heard
\* yet, or what comes after that.
Said(c, l) ==
  \/ l = Registration(c) /\ cpc[c] \in {"answer", "ended"} /\ ~Told(c)
  \/ l[1] \in Typed /\ cpc[c] \in {"chat", "quitting", "ended"} /\ Told(c)
  \/ l = <<"QUIT">> /\ cpc[c] \in {"quitting", "ended"} /\ Told(c)

\* The thread of c works on a line.
Serving(c) ==
  pc[c] \in {"touch", "dispatch", "reg_add", "deliver", "info_get", "status_ack",
             "status_notify", "reply"}

\* What is sent and what is read was said, and the registration only once.
LinesSaid(c) ==
  /\ \A k \in DOMAIN wire[c] :
       /\ Said(c, wire[c][k])
       /\ wire[c][k] = Registration(c) => k = 1 /\ ~Serving(c)
  /\ Serving(c) => Said(c, job[c].line)

\* A thread is at a handler's step only with a line of the handler's command,
\* and about to send only an answer to it.
LineFits(c) ==
  /\ pc[c] = "reg_add" => job[c].line[1] = "REGISTER"
  /\ pc[c] = "deliver" => job[c].line[1] = "MSG"
  /\ pc[c] \in {"status_ack", "status_notify"} => job[c].line[1] = "STATUS"
  /\ pc[c] = "reply" =>
       \/ job[c].reply[1] \in {"ERROR", "LIST_OK", "INFO_OK", "BROADCAST_OK"}
       \/ /\ job[c].reply = <<"REGISTER_OK", NameOf[c], "ACTIVO">>
          /\ job[c].line[1] = "REGISTER"
       \/ job[c].reply = <<"MSG_OK", Arg1(job[c].line)>> /\ job[c].line[1] = "MSG"

\* REGISTER_OK is true.
ToldTrue(c) ==
  /\ Told(c) => pc[c] # "none"
  /\ (Told(c) \/ Telling(c)) /\ Holding(c) => sess[slot[c]].is_registered
  /\ cpc[c] \in {"chat", "quitting"} => Told(c)

\* After BYE the thread says nothing more.
ByeLast(c) ==
  \A k \in DOMAIN outq[c] : outq[c][k] = <<"BYE">> =>
    /\ pc[c] \in {"remove", "close", "done"}
    /\ \A j \in k + 1 .. Len(outq[c]) : IsEvent(outq[c][j])

\* Nobody ends the conversation with a client that stays, unless it is refused.
Served(c) ==
  /\ Staying(c) => /\ pc[c] \notin {"remove", "close", "done"}
                   /\ gone[c] => pc[c] = "none" /\ conn[c] = "closed"
  /\ conn[c] = "closed" => gone[c]

Sound(c) == LinesSaid(c) /\ LineFits(c) /\ ToldTrue(c) /\ ByeLast(c) /\ Served(c)

\* A session is registered under its own client's name, or has none.
OwnNames ==
  \A s \in Slots : sess[s].is_active =>
    IF sess[s].is_registered
    THEN /\ sess[s].username = NameOf[sess[s].addr]
         /\ pc[sess[s].addr] # "none"
         /\ cpc[sess[s].addr] \notin {"off", "welcome"}
    ELSE sess[s].username = ""

SysInv ==
  /\ Inv /\ ClientTypes /\ GoesOn /\ OwnNames
  /\ \A c \in Conns : Sound(c)

-----------------------------------------------------------------------------
(* What is on the wire to a client.                                        *)

\* Append adds one element behind the others.
LEMMA Appended ==
  ASSUME NEW S, NEW q \in Seq(S), NEW m
  PROVE  LET r == Append(q, m)
         IN  /\ DOMAIN q = 1 .. Len(q) /\ Len(q) \in Nat
             /\ DOMAIN r = DOMAIN q \cup {Len(r)}
             /\ Len(r) = Len(q) + 1 /\ Len(r) \notin DOMAIN q
             /\ r[Len(r)] = m /\ \A k \in DOMAIN q : r[k] = q[k]
OBVIOUS

\* At most an event is added to what d was sent.
Hears(d) ==
  \/ outq'[d] = outq[d]
  \/ \E m : IsEvent(m) /\ outq'[d] = Append(outq[d], m)

\* What else is added is an answer: then this is what it changes.
LEMMA ToldBy ==
  ASSUME TypeOK, NEW c \in Conns, NEW m, outq'[c] = Append(outq[c], m)
  PROVE  Told(c)' <=> Told(c) \/ m[1] = "REGISTER_OK"
<1> DEFINE q == outq[c]
           r == Append(q, m)
<1>1. q \in Seq(Line)
  BY DEF TypeOK
<1>2. /\ DOMAIN r = DOMAIN q \cup {Len(r)} /\ r[Len(r)] = m
      /\ \A k \in DOMAIN q : r[k] = q[k]
  BY <1>1, Appended
<1>3. Told(c)' <=> \E k \in DOMAIN r : r[k][1] = "REGISTER_OK"
  BY DEF Told
<1> HIDE DEF q, r
<1>4. (\E k \in DOMAIN r : r[k][1] = "REGISTER_OK")
      <=> (\E k \in DOMAIN q : q[k][1] = "REGISTER_OK") \/ m[1] = "REGISTER_OK"
  BY <1>2
<1> QED
  BY <1>3, <1>4 DEF Told, q

\* Events neither tell a client that it is registered, nor are they BYE.
LEMMA HearsKeeps ==
  ASSUME TypeOK, NEW c \in Conns, Hears(c)
  PROVE  /\ Told(c)' <=> Told(c)
         /\ ByeLast(c) /\ pc'[c] = pc[c] => ByeLast(c)'
<1>1. CASE outq'[c] = outq[c]
  BY <1>1 DEF Told, ByeLast
<1>2. ASSUME NEW m, IsEvent(m), outq'[c] = Append(outq[c], m)
      PROVE  /\ Told(c)' <=> Told(c)
             /\ ByeLast(c) /\ pc'[c] = pc[c] => ByeLast(c)'
  <2> DEFINE q == outq[c]
             r == Append(q, m)
  <2>1. q \in Seq(Line)
    BY DEF TypeOK
  <2>2. /\ DOMAIN q = 1 .. Len(q) /\ Len(q) \in Nat /\ Len(r) = Len(q) + 1
        /\ DOMAIN r = DOMAIN q \cup {Len(r)} /\ r[Len(r)] = m
        /\ \A k \in DOMAIN q : r[k] = q[k]
    BY <2>1, Appended
  <2>3. m[1] # "REGISTER_OK" /\ m # <<"BYE">>
    BY <1>2 DEF IsEvent, EventKinds
  <2>4. Told(c)' <=> Told(c)
    BY <1>2, <2>3, ToldBy
  <2>5. ASSUME ByeLast(c), pc'[c] = pc[c], NEW k \in DOMAIN r, r[k] = <<"BYE">>
        PROVE  /\ pc'[c] \in {"remove", "close", "done"}
               /\ \A j \in k + 1 .. Len(r) : IsEvent(r[j])
    <3> HIDE DEF r
    <3>1. k \in DOMAIN q /\ q[k] = <<"BYE">>
      BY <2>2, <2>3, <2>5
    <3>2. /\ pc[c] \in {"remove", "close", "done"}
          /\ \A j \in k + 1 .. Len(q) : IsEvent(q[j])
      BY <2>5, <3>1 DEF ByeLast
    <3>3. ASSUME NEW j \in k + 1 .. Len(r) PROVE IsEvent(r[j])
      <4>1. CASE j = Len(r)
        BY <1>2, <2>2, <4>1
      <4>2. CASE j # Len(r)
        <5>1. j \in k + 1 .. Len(q) /\ j \in DOMAIN q
          BY <2>2, <3>1, <4>2
        <5> QED
          BY <2>2, <3>2, <5>1
      <4> QED
        BY <4>1, <4>2
    <3> QED
      BY <2>5, <3>2, <3>3
  <2>6. outq'[c] = r
    BY <1>2
  <2> HIDE DEF r
  <2> QED
    BY <2>4, <2>5, <2>6 DEF ByeLast
<1> QED
  BY <1>1, <1>2 DEF Hears

\* A send of an event is heard at most.
LEMMA EventHeard ==
  ASSUME TypeOK, NEW F, NEW m, IsEvent(m), Send(F, m), NEW c \in Conns
  PROVE  Hears(c)
BY DEF Send, Hears, TypeOK

\* A send of anything to c's own descriptor.
LEMMA OwnSend ==
  ASSUME TypeOK, NEW c \in Conns, NEW f, Peer(f) = c, NEW m, Send({f}, m)
  PROVE  /\ outq'[c] = IF gone[c] THEN outq[c] ELSE Append(outq[c], m)
         /\ \A d \in Conns \ {c} : outq'[d] = outq[d]
BY DEF Send, TypeOK

-----------------------------------------------------------------------------
(* Steps in which c has no part.                                           *)

\* The thread of c stands still; others may send to c.
Stands(c) ==
  /\ pc'[c] = pc[c] /\ job'[c] = job[c] /\ slot'[c] = slot[c]
  /\ Hears(c)

\* The sessions that are there afterwards were there before, under their names.
Survive ==
  \A s \in Slots : sess'[s].is_active =>
    /\ sess[s].is_active /\ sess'[s].addr = sess[s].addr
    /\ sess'[s].username = sess[s].username
    /\ sess'[s].is_registered = sess[s].is_registered

\* The client of c stands still.
Waits(c) == cpc'[c] = cpc[c] /\ wire'[c] = wire[c]

\* What the client of c says is not changed by another step.
LEMMA SaidKept ==
  ASSUME NEW c \in Conns, NEW l, Said(c, l), Told(c)' <=> Told(c), cpc'[c] = cpc[c]
  PROVE  Said(c, l)'
BY DEF Said, Registration

\* A step in which c has no part keeps what holds of c.
LEMMA StandsSound ==
  ASSUME TypeOK, NEW c \in Conns, Sound(c), Stands(c), Waits(c), Served(c)',
         Holding(c) => sess'[slot[c]].is_registered = sess[slot[c]].is_registered
  PROVE  Sound(c)'
<1>1. (Told(c)' <=> Told(c)) /\ ByeLast(c)'
  BY HearsKeeps DEF Stands, Sound
<1>2. (Serving(c)' <=> Serving(c)) /\ (Holding(c)' <=> Holding(c))
      /\ (Telling(c)' <=> Telling(c))
  BY DEF Stands, Serving, Holding, Telling
<1>3. LinesSaid(c)'
  BY <1>1, <1>2, SaidKept DEF LinesSaid, Sound, Stands, Waits, Registration
<1>4. LineFits(c)'
  BY DEF LineFits, Sound, Stands
<1>5. ToldTrue(c)'
  BY <1>1, <1>2 DEF ToldTrue, Sound, Stands, Waits
<1> QED
  BY <1>1, <1>3, <1>4, <1>5 DEF Sound

\* Sessions that are kept keep their names.
LEMMA SurviveNames ==
  ASSUME OwnNames, Survive,
         \A c \in Conns : /\ pc[c] # "none" => pc'[c] # "none"
                          /\ cpc[c] \notin {"off", "welcome"} =>
                               cpc'[c] \notin {"off", "welcome"},
         \A s \in Slots : sess[s].is_active => sess[s].addr \in Conns
  PROVE  OwnNames'
BY DEF OwnNames, Survive

\* Such a step of the server: main, the monitor, the clock, or a new connection,
\* while the clients stand still.
Others ==
  /\ \A c \in Conns : Stands(c)
  /\ UNCHANGED <<clients, running>>

\* Such a step keeps what holds of the clients.
LEMMA OthersSound ==
  ASSUME SysInv, Inv', Others, Survive, apc' \notin {"shutdown", "shut_sessions", "join", "exit"},
         \A c \in Conns : Served(c)'
  PROVE  ClientTypes' /\ GoesOn' /\ OwnNames' /\ \A c \in Conns : Sound(c)'
<1>1. TypeOK /\ \A s \in Slots : sess[s].is_active => sess[s].addr \in Conns
  BY DEF SysInv, Inv, TypeInv, Ownership, SlotInv
<1>2. ClientTypes' /\ GoesOn'
  BY DEF SysInv, ClientTypes, GoesOn, Others, clients
<1>3. OwnNames'
  BY <1>1, SurviveNames DEF SysInv, Others, Stands, clients
<1>4. ASSUME NEW c \in Conns PROVE Sound(c)'
  <2>1. Holding(c) => slot[c] \in Slots /\ sess'[slot[c]].is_active
    BY DEF SysInv, Inv, Ownership, ThreadInv, Others, Stands, Holding
  <2> QED
    BY <1>1, <2>1, StandsSound DEF SysInv, Others, Survive, Waits, clients
<1> QED
  BY <1>2, <1>3, <1>4

\* The monitor writes INACTIVO, and sends a notice.
LEMMA MonitorAside ==
  ASSUME SysInv, Monitor, UNCHANGED clients
  PROVE  Others /\ Survive /\ (\A c \in Conns : Served(c)') /\ apc' = apc
<1> USE DEF kernel, shared, mainv, threads
<1>1. TypeOK
  BY DEF SysInv, Inv, TypeInv
<1>2. /\ UNCHANGED <<conn, gone, pc, slot, job, running>>
      /\ apc' = apc
  BY DEF Monitor, MonWake, MonScan, MonSend
<1>3. \A c \in Conns : Served(c)'
  BY <1>2 DEF SysInv, Sound, Served, Staying, clients
<1>4. Survive
  <2>1. CASE MonScan
    <3>1. \A s \in Slots : sess[s] \in Session
      BY <1>1 DEF TypeOK
    <3>2. \A s \in Slots : \/ sess'[s] = sess[s]
                           \/ sess'[s] = [sess[s] EXCEPT !.status = "INACTIVO"]
      BY <2>1 DEF MonScan
    <3> QED
      BY <3>1, <3>2 DEF Session, Survive
  <2>2. CASE MonWake \/ MonSend
    BY <2>2 DEF MonWake, MonSend, Survive
  <2> QED
    BY <2>1, <2>2 DEF Monitor
<1>5. ASSUME NEW c \in Conns PROVE Hears(c)
  <2>1. CASE MonSend
    <3>1. PICK n \in notes : Send({n.fd}, <<"STATUS_CHANGED", n.user, "INACTIVO">>)
      BY <2>1 DEF MonSend
    <3>2. IsEvent(<<"STATUS_CHANGED", n.user, "INACTIVO">>)
      BY DEF IsEvent, EventKinds
    <3> QED
      BY <1>1, <3>1, <3>2, EventHeard
  <2>2. CASE MonWake \/ MonScan
    BY <2>2 DEF MonWake, MonScan, Hears
  <2> QED
    BY <2>1, <2>2 DEF Monitor
<1> QED
  BY <1>2, <1>3, <1>4, <1>5 DEF Others, Stands

\* The accept loop, but for the two steps that make a session and a thread.
LEMMA MainAside ==
  ASSUME SysInv, Main, ~Add, ~Spawn, UNCHANGED clients
  PROVE  /\ Others /\ Survive /\ \A c \in Conns : Served(c)'
         /\ apc' \notin {"shutdown", "shut_sessions", "join", "exit"}
<1> USE DEF kernel, shared, threads, monitor
<1>1. TypeInv /\ TypeOK /\ running
      /\ apc \notin {"shutdown", "shut_sessions", "join", "exit"}
  BY DEF SysInv, Inv, TypeInv, GoesOn
<1>2. /\ UNCHANGED <<outq, pc, slot, job, running>>
      /\ apc' \notin {"shutdown", "shut_sessions", "join", "exit"}
  BY <1>1 DEF Main, Loop, Accept, AcceptFails, Find, SpawnFails, SetTid, Drop,
              Close, Shutdown, ShutSessions, Join
<1>3. Others
  BY <1>2 DEF Others, Stands, Hears
<1>4. Survive
  <2>1. CASE SetTid
    <3>1. aslot \in Slots /\ sess[aslot] \in Session
      BY <2>1, <1>1 DEF TypeInv, TypeOK, Pointers, SetTid
    <3>2. /\ sess'[aslot] = [sess[aslot] EXCEPT !.thread_id = atid]
          /\ \A r \in Slots \ {aslot} : sess'[r] = sess[r]
      BY <1>1, <2>1, <3>1 DEF SetTid, TypeInv, TypeOK
    <3>3. /\ sess'[aslot].is_active = sess[aslot].is_active
          /\ sess'[aslot].addr = sess[aslot].addr
          /\ sess'[aslot].username = sess[aslot].username
          /\ sess'[aslot].is_registered = sess[aslot].is_registered
      BY <3>1, <3>2 DEF Session
    <3> QED
      BY <3>1, <3>2, <3>3 DEF Survive
  <2>2. CASE Drop
    <3> DEFINE s == FindByFd(sess, afd)
    <3>1. \A r \in Slots : sess'[r] = sess[r] \/ sess'[r] = ClearedSession
      BY <1>1, <2>2 DEF Drop, RemoveByFd, TypeOK
    <3>2. ~ClearedSession.is_active
      BY DEF ClearedSession
    <3> QED
      BY <3>1, <3>2 DEF Survive
  <2>3. CASE UNCHANGED sess
    BY <2>3 DEF Survive
  <2> QED
    BY <1>1, <2>1, <2>2, <2>3
    DEF Main, Loop, Accept, AcceptFails, Find, SpawnFails, Close, Shutdown,
        ShutSessions, Join
<1>5. ASSUME NEW c \in Conns PROVE Served(c)'
  <2>1. Served(c)
    BY DEF SysInv, Sound
  <2>2. CASE UNCHANGED <<conn, gone>>
    BY <1>2, <2>1, <2>2 DEF Served, Staying, clients
  <2>3. ASSUME NEW d \in Conns, Accept(d) PROVE Served(c)'
    <3>1. gone' = gone /\ (conn'[c] = conn[c] \/ (conn[c] = "queued" /\ conn'[c] = "open"))
      BY <1>1, <2>3 DEF Accept, TypeOK
    <3> QED
      BY <1>2, <2>1, <3>1 DEF Served, Staying, clients
  <2>4. CASE Close
    <3>1. pc[Peer(afd)] = "none"
      BY <2>4 DEF SysInv, Inv, Ownership, MainInv, Close
    <3>2. CloseFd(afd)
      BY <2>4 DEF Close
    <3>3. IF c = Peer(afd) THEN conn'[c] = "closed" /\ gone'[c]
                           ELSE conn'[c] = conn[c] /\ gone'[c] = gone[c]
      BY <1>1, <3>2 DEF CloseFd, TypeOK
    <3> QED
      BY <1>2, <2>1, <3>1, <3>3 DEF Served, Staying, clients
  <2> QED
    BY <1>1, <2>2, <2>3, <2>4
    DEF Main, Loop, AcceptFails, Find, SpawnFails, SetTid, Drop, Shutdown,
        ShutSessions, Join
<1> QED
  BY <1>2, <1>3, <1>4, <1>5

-----------------------------------------------------------------------------
(* The steps of the accept loop that make a session, and a thread.         *)

\* A new session has no name, and is not registered.
LEMMA AddSound ==
  ASSUME SysInv, Add, UNCHANGED clients
  PROVE  ClientTypes' /\ GoesOn' /\ OwnNames' /\ \A c \in Conns : Sound(c)'
<1> USE DEF kernel, threads
<1> DEFINE s == FreeSlot(sess)
           new == NewSession(Peer(afd), afd, clock)
<1>1. /\ TypeOK /\ OwnNames /\ ThreadInv
      /\ \A r \in Slots : sess[r].is_active => sess[r].addr \in Conns
  BY DEF SysInv, Inv, TypeInv, Ownership, SlotInv
<1>2. ClientTypes' /\ GoesOn'
  BY DEF SysInv, ClientTypes, GoesOn, Add, AfterAdd, clients
<1>3. /\ ~new.is_registered /\ new.username = ""
      /\ s \in Slots \cup {NoSlot} /\ (s \in Slots => ~sess[s].is_active)
  BY FreeSlotFound DEF NewSession
<1>4. \A r \in Slots : sess'[r] = sess[r] \/ (r = s /\ sess'[r] = new)
  BY <1>1 DEF Add, TypeOK
<1>5. UNCHANGED <<conn, gone, outq, pc, slot, job>>
  BY DEF Add
<1> HIDE DEF new, s
<1>6. OwnNames'
  <2> SUFFICES ASSUME NEW r \in Slots, sess'[r].is_active
               PROVE  IF sess'[r].is_registered
                      THEN /\ sess'[r].username = NameOf[sess'[r].addr]
                           /\ pc'[sess'[r].addr] # "none"
                           /\ cpc'[sess'[r].addr] \notin {"off", "welcome"}
                      ELSE sess'[r].username = ""
    BY DEF OwnNames
  <2>1. CASE sess'[r] = sess[r]
    BY <1>1, <1>5, <2>1 DEF OwnNames, clients
  <2>2. CASE sess'[r] = new
    BY <1>3, <2>2
  <2> QED
    BY <1>4, <2>1, <2>2
<1>7. ASSUME NEW c \in Conns PROVE Sound(c)'
  <2>1. Holding(c) => slot[c] \in Slots /\ sess[slot[c]].is_active
    BY <1>1 DEF ThreadInv
  <2>2. Holding(c) => sess'[slot[c]] = sess[slot[c]]
    BY <1>3, <1>4, <2>1
  <2>3. Stands(c) /\ Waits(c)
    BY <1>5 DEF Stands, Hears, Waits, clients
  <2>4. Sound(c) /\ Served(c)'
    BY <1>5 DEF SysInv, Sound, Served, Staying, clients
  <2> QED
    BY <1>1, <2>2, <2>3, <2>4, StandsSound
<1> QED
  BY <1>2, <1>6, <1>7

\* A new thread has said nothing.
LEMMA SpawnSound ==
  ASSUME SysInv, Spawn, UNCHANGED clients
  PROVE  ClientTypes' /\ GoesOn' /\ OwnNames' /\ \A c \in Conns : Sound(c)'
<1> USE DEF kernel, shared
<1>0. PICK c \in Conns : c = Peer(afd)
  BY DEF SysInv, Inv, Ownership, MainInv, Spawn
<1>1. /\ TypeOK /\ OwnNames /\ TableInv /\ pc[c] = "none"
      /\ \A r \in Slots : sess[r].is_active => sess[r].addr \in Conns
  BY <1>0 DEF SysInv, Inv, TypeInv, Ownership, SlotInv, MainInv, Spawn
<1>2. ClientTypes' /\ GoesOn'
  BY DEF SysInv, ClientTypes, GoesOn, Spawn, clients
<1>3. /\ UNCHANGED <<conn, gone, outq, job, sess>> /\ pc'[c] = "start"
      /\ \A d \in Conns \ {c} : pc'[d] = pc[d] /\ slot'[d] = slot[d]
  BY <1>0, <1>1 DEF Spawn, TypeOK
<1>4. OwnNames'
  BY <1>1, <1>3, SurviveNames DEF Survive, clients
<1>5. ASSUME NEW d \in Conns \ {c} PROVE Sound(d)'
  <2>1. Stands(d) /\ Waits(d)
    BY <1>3 DEF Stands, Hears, Waits, clients
  <2>2. Sound(d) /\ Served(d)'
    BY <1>3 DEF SysInv, Sound, Served, Staying, clients
  <2> QED
    BY <1>1, <1>3, <2>1, <2>2, StandsSound
<1>6. Sound(c)'
  <2>1. Sound(c) /\ conn[c] = "open"
    BY <1>0, <1>1, NoConnAssumption DEF SysInv, TableInv, Peer
  <2>2. ~Told(c) /\ (Told(c)' <=> Told(c)) /\ ~Serving(c) /\ ~Serving(c)'
    BY <1>1, <1>3, <2>1 DEF Sound, ToldTrue, Told, Serving
  <2>3. LinesSaid(c)'
    BY <1>1, <2>1, <2>2, SaidKept DEF LinesSaid, Sound, Registration, clients
  <2>4. LineFits(c)' /\ ToldTrue(c)'
    BY <1>3, <2>1, <2>2 DEF LineFits, ToldTrue, Telling, Sound, clients
  <2>5. ByeLast(c)'
    BY <1>1, <1>3, <2>1 DEF ByeLast, Sound
  <2>6. Served(c)'
    BY <1>1, <1>3, <2>1 DEF Served, Sound, Staying, clients
  <2> QED
    BY <2>3, <2>4, <2>5, <2>6 DEF Sound
<1> QED
  BY <1>2, <1>4, <1>5, <1>6

\* Main, the monitor and the clock keep what holds of the clients.
LEMMA ServerSound ==
  ASSUME SysInv, Inv', Server
  PROVE  ClientTypes' /\ GoesOn' /\ OwnNames' /\ \A c \in Conns : Sound(c)'
<1>1. UNCHANGED clients
  BY DEF Server
<1>2. CASE Main
  BY <1>1, <1>2, AddSound, SpawnSound, MainAside, OthersSound
<1>3. CASE Monitor
  <2>1. apc' \notin {"shutdown", "shut_sessions", "join", "exit"}
    BY <1>1, <1>3, MonitorAside DEF SysInv, GoesOn
  <2> QED
    BY <1>1, <1>3, <2>1, MonitorAside, OthersSound
<1>4. CASE Tick
  <2>1. Others /\ Survive /\ apc' = apc
    BY <1>1, <1>4
    DEF Tick, Others, Stands, Hears, Survive, kernel, mainv, threads
  <2>2. \A c \in Conns : Served(c)'
    BY <1>1, <1>4
    DEF Tick, SysInv, Sound, Served, Staying, clients, kernel, threads
  <2> QED
    BY <2>1, <2>2, OthersSound DEF SysInv, GoesOn
<1> QED
  BY <1>2, <1>3, <1>4 DEF Server

-----------------------------------------------------------------------------
(* The threads.                                                            *)

\* The descriptors a thread sends its answers to are its client's.
LEMMA OwnPeer ==
  ASSUME SysInv, NEW c \in Conns, Holding(c)
  PROVE  /\ slot[c] \in Slots /\ sess[slot[c]] \in Session
         /\ sess[slot[c]].is_active /\ sess[slot[c]].addr = c
         /\ Peer(sess[slot[c]].sockfd) = c
         /\ pc[c] # "start" => Peer(fd[c]) = c /\ fd[c] = sess[slot[c]].sockfd
BY DEF SysInv, Inv, TypeInv, TypeOK, Ownership, ThreadInv, SlotInv

\* A step of c's thread is none of another client's.
LEMMA Bystanders ==
  ASSUME SysInv, NEW c \in Conns, ThreadRuns(c), UNCHANGED clients,
         NEW d \in Conns \ {c}
  PROVE  Stands(d) /\ Waits(d)
<1> USE DEF kernel, shared, mainv, monitor
<1>1. TypeOK
  BY DEF SysInv, Inv, TypeInv
<1>2. Waits(d)
  BY DEF Waits, clients
<1>3. pc'[d] = pc[d]
  BY <1>1, Moves
  DEF ThreadRuns, Begin, RecvEnd, Touch, Ping, Quit, Unparsed, Handle,
      HandleRegister, RegAdd, HandleMsg, Deliver, HandleBroadcast, HandleList,
      HandleInfo, InfoGet, HandleStatus, StatusAck, StatusNotify, HandleQuit,
      Reply, Remove, CloseOwn
<1>4. job'[d] = job[d] /\ slot'[d] = slot[d]
  BY <1>1
  DEF TypeOK, Answer, ThreadRuns, Begin, RecvEnd, Touch, Ping, Quit, Unparsed,
      Handle, HandleRegister, RegAdd, HandleMsg, Deliver, HandleBroadcast,
      HandleList, HandleInfo, InfoGet, HandleStatus, StatusAck, StatusNotify,
      HandleQuit, Reply, Remove, CloseOwn
<1>5. Hears(d)
  <2>1. CASE Deliver(c) \/ HandleBroadcast(c) \/ StatusNotify(c)
    <3>1. PICK F, m : IsEvent(m) /\ Send(F, m)
      BY <2>1 DEF Deliver, HandleBroadcast, StatusNotify, IsEvent, EventKinds
    <3> QED
      BY <1>1, <3>1, EventHeard
  <2>2. CASE \/ Begin(c) \/ Ping(c) \/ Quit(c) \/ Unparsed(c) \/ StatusAck(c)
             \/ HandleQuit(c) \/ Reply(c)
    <3>1. Holding(c)
      BY <2>2 DEF Begin, Ping, Quit, Unparsed, StatusAck, HandleQuit, Reply,
                  Handles, Holding
    <3>2. \E f, m : Peer(f) = c /\ Send({f}, m)
      BY <2>2, <3>1, OwnPeer
      DEF Begin, Ping, Quit, Unparsed, StatusAck, HandleQuit, Reply, Handles,
          SendLine
    <3> QED
      BY <1>1, <3>2, OwnSend DEF Hears
  <2>3. CASE outq' = outq
    BY <2>3 DEF Hears
  <2> QED
    BY <2>1, <2>2, <2>3
    DEF ThreadRuns, RecvEnd, Touch, Handle, HandleRegister, RegAdd, HandleMsg,
        HandleList, HandleInfo, InfoGet, HandleStatus, Remove, CloseOwn
<1> QED
  BY <1>2, <1>3, <1>4, <1>5 DEF Stands

\* At most something is added to what c was sent that is neither BYE nor
\* REGISTER_OK.
Adds(c) ==
  \/ outq'[c] = outq[c]
  \/ \E m : /\ m[1] # "REGISTER_OK" /\ m # <<"BYE">>
            /\ outq'[c] = Append(outq[c], m)

\* Most steps of c's thread are such: they keep the line, and add an event or an
\* answer to it.
LEMMA OwnSound ==
  ASSUME SysInv, NEW c \in Conns, pc[c] \notin {"none", "remove", "close", "done"},
         Adds(c), Waits(c), UNCHANGED <<conn, gone>>,
         pc'[c] \notin {"none", "close", "done"}, pc'[c] = "remove" => ~Staying(c),
         Serving(c)' => Serving(c) /\ job'[c].line = job[c].line,
         LineFits(c)',
         Telling(c)' \/ sess[slot[c]].is_registered => sess'[slot'[c]].is_registered
  PROVE  Sound(c)'
<1>1. TypeOK /\ Sound(c) /\ Holding(c)
  BY DEF SysInv, Inv, TypeInv, Holding
<1>2. Told(c)' <=> Told(c)
  BY <1>1, ToldBy DEF Adds, Told
<1>3. \A k \in DOMAIN outq[c] : outq[c][k] # <<"BYE">>
  BY <1>1 DEF Sound, ByeLast
<1>4. \A k \in DOMAIN outq'[c] : outq'[c][k] # <<"BYE">>
  <2>1. CASE outq'[c] = outq[c]
    BY <1>3, <2>1
  <2>2. ASSUME NEW m, m # <<"BYE">>, outq'[c] = Append(outq[c], m)
        PROVE  \A k \in DOMAIN outq'[c] : outq'[c][k] # <<"BYE">>
    <3>1. outq[c] \in Seq(Line)
      BY <1>1 DEF TypeOK
    <3> DEFINE q == outq[c]
               r == Append(outq[c], m)
    <3>2. /\ DOMAIN r = DOMAIN q \cup {Len(r)} /\ r[Len(r)] = m
          /\ \A k \in DOMAIN q : r[k] = q[k]
      BY <3>1, Appended
    <3> HIDE DEF r
    <3>3. \A k \in DOMAIN r : r[k] # <<"BYE">>
      BY <1>3, <2>2, <3>2
    <3> QED
      BY <2>2, <3>3 DEF r
  <2> QED
    BY <2>1, <2>2 DEF Adds
<1>5. LinesSaid(c)'
  BY <1>1, <1>2, SaidKept DEF LinesSaid, Sound, Waits, Registration
<1>6. ToldTrue(c)'
  BY <1>1, <1>2 DEF ToldTrue, Sound, Waits
<1>7. ByeLast(c)'
  BY <1>4 DEF ByeLast
<1>8. Served(c)'
  BY <1>1 DEF Served, Sound, Staying, Waits
<1> QED
  BY <1>5, <1>6, <1>7, <1>8 DEF Sound

\* Every step but add_session keeps the names of the sessions it keeps.
LEMMA ThreadSurvive ==
  ASSUME SysInv, NEW c \in Conns, ThreadRuns(c), ~RegAdd(c)
  PROVE  Survive
<1> USE DEF kernel, shared
<1>1. TypeOK
  BY DEF SysInv, Inv, TypeInv
<1>2. ASSUME NEW s \in Slots, NEW x, sess' = [sess EXCEPT ![s] = x],
             x.is_active = sess[s].is_active, x.addr = sess[s].addr,
             x.username = sess[s].username,
             x.is_registered = sess[s].is_registered
      PROVE  Survive
  BY <1>1, <1>2 DEF Survive, TypeOK
<1>3. CASE Touch(c)
  <2> DEFINE s == job[c].found
  <2>1. CASE sess' = [sess EXCEPT ![s] = Touched(sess[s], clock)] /\ s # NoSlot
    <3>1. s \in Slots /\ sess[s] \in Session
      BY <1>1, <2>1 DEF TypeOK, Job
    <3> DEFINE x == Touched(sess[s], clock)
    <3>2. /\ x.is_active = sess[s].is_active /\ x.addr = sess[s].addr
          /\ x.username = sess[s].username
          /\ x.is_registered = sess[s].is_registered
      BY <3>1 DEF Session, Touched
    <3>3. sess' = [sess EXCEPT ![s] = x]
      BY <2>1
    <3> HIDE DEF x, s
    <3> QED
      BY <1>2, <3>1, <3>2, <3>3
  <2>2. CASE sess' = sess
    BY <2>2 DEF Survive
  <2> QED
    BY <1>3, <2>1, <2>2 DEF Touch
<1>4. CASE HandleStatus(c)
  <2> DEFINE s == FindByUsername(sess, sess[slot[c]].username)
             x == [sess[s] EXCEPT !.status = Arg1(job[c].line)]
  <2>1. CASE sess' = [sess EXCEPT ![s] = x] /\ s # NoSlot
    <3>1. s \in Slots /\ sess[s] \in Session
      BY <1>1, <2>1, FindByUsernameFound DEF TypeOK
    <3>2. /\ x.is_active = sess[s].is_active /\ x.addr = sess[s].addr
          /\ x.username = sess[s].username
          /\ x.is_registered = sess[s].is_registered
      BY <3>1 DEF Session
    <3> HIDE DEF x, s
    <3> QED
      BY <1>2, <2>1, <3>1, <3>2
  <2>2. CASE sess' = sess
    BY <2>2 DEF Survive
  <2> QED
    BY <1>4, <2>1, <2>2 DEF HandleStatus, SetUserStatus
<1>5. CASE Remove(c)
  <2>1. ~ClearedSession.is_active
    BY DEF ClearedSession
  <2>2. \A s \in Slots : sess'[s] = sess[s] \/ sess'[s] = ClearedSession
    BY <1>1, <1>5 DEF Remove, RemoveByFd, TypeOK
  <2> QED
    BY <2>1, <2>2 DEF Survive
<1>6. CASE sess' = sess
  BY <1>6 DEF Survive
<1> QED
  BY <1>3, <1>4, <1>5, <1>6
  DEF ThreadRuns, Begin, RecvEnd, Ping, Quit, Unparsed, Handle, HandleRegister,
      HandleMsg, Deliver, HandleBroadcast, HandleList, HandleInfo, InfoGet,
      StatusAck, StatusNotify, HandleQuit, Reply, CloseOwn

\* Whose line is of a handler's type has sent that word.
LEMMA HandlesWord ==
  ASSUME NEW c, NEW word, Handles(c, word), word # ""
  PROVE  pc[c] = "dispatch" /\ job[c].line[1] = word
BY DEF Handles, Type, Field

\* Sending an answer on the way round the loop.
LEMMA SendLineSound ==
  ASSUME SysInv, NEW c \in Conns, pc[c] \in {"start", "dispatch"},
         NEW f, Peer(f) = c, NEW m, m[1] # "REGISTER_OK", m # <<"BYE">>,
         SendLine(c, f, m), Waits(c),
         UNCHANGED <<conn, gone, sess, slot, job>>
  PROVE  Sound(c)'
<1>1. TypeOK /\ running /\ Sound(c) /\ Holding(c)
  BY DEF SysInv, Inv, TypeInv, GoesOn, Holding
<1>2. Adds(c)
  BY <1>1, OwnSend DEF SendLine, Adds
<1>3. pc'[c] = "recv" \/ (pc'[c] = "remove" /\ gone[c])
  BY <1>1, NoConnAssumption DEF SendLine, SendResults, Goto, NextLoop, TypeOK
<1>4. pc'[c] = "remove" => ~Staying(c)
  BY <1>1, <1>3 DEF Sound, Served
<1>5. LineFits(c)' /\ ~Serving(c)' /\ ~Telling(c)'
  BY <1>3 DEF LineFits, Serving, Telling
<1> QED
  BY <1>2, <1>3, <1>4, <1>5, OwnSound

\* Going on with the same line, when at most events are heard.
LEMMA GoSound ==
  ASSUME SysInv, NEW c \in Conns, Serving(c), Hears(c), Waits(c), LineFits(c)',
         UNCHANGED <<conn, gone>>,
         pc'[c] \notin {"none", "remove", "close", "done"},
         job'[c].line = job[c].line, slot'[c] = slot[c],
         Telling(c)' => sess[slot[c]].is_registered,
         sess'[slot[c]].is_registered = sess[slot[c]].is_registered
  PROVE  Sound(c)'
<1>1. Adds(c)
  BY DEF Hears, Adds, IsEvent, EventKinds
<1> QED
  BY <1>1, OwnSound DEF Serving

\* What Answer leaves of the line, and for the reply.
LEMMA AnswerFields ==
  ASSUME TypeOK, NEW c \in Conns, NEW m, Answer(c, m)
  PROVE  pc'[c] = "reply" /\ job'[c].reply = m /\ job'[c].line = job[c].line
BY Moves DEF Answer, TypeOK, Job

\* The first word of the answer to LIST.
LEMMA ListFirst ==
  ASSUME TypeOK
  PROVE  (<<"LIST_OK">> \o ListedNames(sess))[1] = "LIST_OK"
<1>1. \A s \in Slots : sess[s].username \in Fields /\ "" \in Fields
  BY SessionFields, WordTypes DEF Words
<1>2. ListedNames(sess) \in [1 .. MaxClients -> Fields]
  BY <1>1 DEF ListedNames, Slots
<1> DEFINE names == ListedNames(sess)
<1>3. names \in Seq(Fields)
  BY <1>2, MaxClientsAssumption
<1> HIDE DEF names
<1>4. (<<"LIST_OK">> \o names)[1] = "LIST_OK"
  <2> DEFINE word == <<"LIST_OK">>
  <2>0. "LIST_OK" \in Fields
    BY WordTypes DEF Words
  <2>1. word \in Seq(Fields) /\ Len(word) = 1 /\ word[1] = "LIST_OK"
    BY <2>0
  <2> HIDE DEF word
  <2>2. (word \o names)[1] = word[1]
    BY <1>3, <2>1
  <2> QED
    BY <2>1, <2>2 DEF word
<1> QED
  BY <1>4 DEF names

\* Leaving an answer that tells nothing of a registration or a message.
LEMMA AnswerSound ==
  ASSUME SysInv, NEW c \in Conns, Serving(c), NEW m, Answer(c, m),
         m[1] \in {"ERROR", "LIST_OK", "INFO_OK", "BROADCAST_OK"},
         Hears(c), Waits(c), UNCHANGED <<conn, gone, sess, slot>>
  PROVE  Sound(c)'
<1>1. TypeOK
  BY DEF SysInv, Inv, TypeInv
<1>2. pc'[c] = "reply" /\ job'[c].reply = m /\ job'[c].line = job[c].line
  BY <1>1, AnswerFields
<1>3. LineFits(c)' /\ ~Telling(c)'
  BY <1>2 DEF LineFits, Telling
<1> QED
  BY <1>2, <1>3, GoSound

\* The handlers before they answer.
LEMMA HandlersSound ==
  ASSUME SysInv, Inv', NEW c \in Conns, UNCHANGED clients,
         \/ HandleRegister(c) \/ HandleMsg(c) \/ HandleBroadcast(c)
         \/ HandleList(c) \/ HandleInfo(c) \/ InfoGet(c) \/ HandleStatus(c)
  PROVE  Sound(c)'
<1> USE DEF kernel, shared
<1>1. TypeOK /\ Serving(c) /\ Waits(c)
  BY DEF SysInv, Inv, TypeInv, Serving, Waits, clients, HandleRegister,
         HandleMsg, HandleBroadcast, HandleList, HandleInfo, InfoGet,
         HandleStatus, Handles
<1>2. \A op, code : Error(op, code)[1] = "ERROR"
  BY DEF Error
<1>3. CASE HandleRegister(c)
  <2>1. UNCHANGED <<conn, gone, outq, sess, slot>> /\ Hears(c)
    BY <1>3 DEF HandleRegister, Hears
  <2>2. CASE \E code : Answer(c, Error("REGISTER", code))
    BY <1>1, <1>2, <2>1, <2>2, AnswerSound
  <2>3. CASE Goto(c, "reg_add") /\ UNCHANGED job
    <3>1. pc'[c] = "reg_add" /\ job[c].line[1] = "REGISTER"
      BY <1>1, <1>3, <2>3, Moves, HandlesWord DEF HandleRegister
    <3>2. LineFits(c)' /\ ~Telling(c)'
      BY <2>3, <3>1 DEF LineFits, Telling
    <3> QED
      BY <1>1, <2>1, <2>3, <3>1, <3>2, GoSound
  <2> QED
    BY <1>3, <2>2, <2>3 DEF HandleRegister
<1>4. CASE HandleMsg(c)
  <2>1. UNCHANGED <<conn, gone, outq, sess, slot>> /\ Hears(c)
    BY <1>4 DEF HandleMsg, Hears
  <2>2. CASE Answer(c, Error("MSG", "USER_NOT_FOUND"))
    BY <1>1, <1>2, <2>1, <2>2, AnswerSound
  <2>3. ASSUME NEW x, NEW y, job' = [job EXCEPT ![c].dst = x, ![c].addressee = y],
               Goto(c, "deliver")
        PROVE  Sound(c)'
    <3>1. pc'[c] = "deliver" /\ job[c].line[1] = "MSG"
      BY <1>1, <1>4, <2>3, Moves, HandlesWord DEF HandleMsg
    <3>2. job'[c].line = job[c].line
      BY <1>1, <2>3 DEF TypeOK, Job
    <3>3. LineFits(c)' /\ ~Telling(c)'
      BY <3>1, <3>2 DEF LineFits, Telling
    <3> QED
      BY <1>1, <2>1, <3>1, <3>2, <3>3, GoSound
  <2> QED
    BY <1>4, <2>2, <2>3 DEF HandleMsg
<1>5. CASE HandleBroadcast(c)
  <2>1. UNCHANGED <<conn, gone, sess, slot>> /\ Answer(c, <<"BROADCAST_OK">>)
    BY <1>5 DEF HandleBroadcast
  <2>2. Hears(c)
    <3>1. PICK m, F : m[1] = "BROADCAST_FROM" /\ Send(F, m)
      BY <1>5 DEF HandleBroadcast
    <3> QED
      BY <1>1, <3>1, EventHeard DEF IsEvent, EventKinds
  <2> QED
    BY <1>1, <2>1, <2>2, AnswerSound
<1>6. CASE HandleList(c)
  BY <1>1, <1>6, ListFirst, AnswerSound DEF HandleList, Hears
<1>7. CASE HandleInfo(c)
  <2>1. UNCHANGED <<conn, gone, outq, sess, slot>> /\ Hears(c)
    BY <1>7 DEF HandleInfo, Hears
  <2>2. CASE Answer(c, Error("INFO", "USER_NOT_FOUND"))
    BY <1>1, <1>2, <2>1, <2>2, AnswerSound
  <2>3. CASE Goto(c, "info_get") /\ UNCHANGED job
    <3>1. pc'[c] = "info_get"
      BY <1>1, <2>3, Moves
    <3>2. LineFits(c)' /\ ~Telling(c)'
      BY <3>1 DEF LineFits, Telling
    <3> QED
      BY <1>1, <2>1, <2>3, <3>1, <3>2, GoSound
  <2> QED
    BY <1>7, <2>2, <2>3 DEF HandleInfo
<1>8. CASE InfoGet(c)
  <2>1. PICK m : Answer(c, m) /\ m[1] \in {"ERROR", "INFO_OK"}
    BY <1>2, <1>8 DEF InfoGet
  <2> QED
    BY <1>1, <1>8, <2>1, AnswerSound DEF InfoGet, Hears
<1>9. CASE HandleStatus(c)
  <2>1. UNCHANGED <<conn, gone, outq, slot>> /\ Hears(c)
    BY <1>9 DEF HandleStatus, Hears
  <2>2. CASE Answer(c, Error("STATUS", "INVALID_STATUS")) /\ UNCHANGED sess
    BY <1>1, <1>2, <2>1, <2>2, AnswerSound
  <2>3. CASE Goto(c, "status_ack") /\ UNCHANGED job
    <3>1. pc'[c] = "status_ack" /\ job[c].line[1] = "STATUS"
      BY <1>1, <1>9, <2>3, Moves, HandlesWord DEF HandleStatus
    <3>2. LineFits(c)' /\ ~Telling(c)'
      BY <2>3, <3>1 DEF LineFits, Telling
    <3>3. Holding(c) /\ ThreadRuns(c) /\ ~RegAdd(c)
      BY <1>9 DEF HandleStatus, Handles, Holding, ThreadRuns, Handle, RegAdd
    <3>4. slot'[c] \in Slots /\ sess'[slot'[c]].is_active
      BY <3>1 DEF Inv, Ownership, ThreadInv, Holding
    <3>5. sess'[slot[c]].is_registered = sess[slot[c]].is_registered
      BY <2>1, <3>3, <3>4, ThreadSurvive DEF Survive
    <3> QED
      BY <1>1, <2>1, <2>3, <3>1, <3>2, <3>5, GoSound
  <2> QED
    BY <1>9, <2>2, <2>3 DEF HandleStatus
<1> QED
  BY <1>3, <1>4, <1>5, <1>6, <1>7, <1>8, <1>9

\* A client that registers asks for its own name.
LEMMA OwnName ==
  ASSUME SysInv, NEW c \in Conns, pc[c] = "reg_add"
  PROVE  job[c].line = Registration(c) /\ Arg1(job[c].line) = NameOf[c]
         /\ cpc[c] \in {"answer", "ended"}
<1>1. Said(c, job[c].line) /\ job[c].line[1] = "REGISTER"
  BY DEF SysInv, Sound, LinesSaid, LineFits, Serving
<1>2. job[c].line = Registration(c) /\ cpc[c] \in {"answer", "ended"}
  BY <1>1 DEF Said, Typed
<1>3. Arg1(Registration(c)) = NameOf[c]
  BY DEF Registration, Arg1, Field
<1> QED
  BY <1>2, <1>3

\* add_session gives the session of c the name of c.
LEMMA RegAddSession ==
  ASSUME SysInv, NEW c \in Conns, RegAdd(c)
  PROVE  /\ sess'[slot[c]].is_registered /\ sess'[slot[c]].username = NameOf[c]
         /\ sess'[slot[c]].addr = c
         /\ \A r \in Slots \ {slot[c]} : sess'[r] = sess[r]
<1>1. Inv /\ TypeOK /\ Holding(c) /\ pc[c] = "reg_add"
  BY DEF SysInv, Inv, TypeInv, RegAdd, Holding
<1>2. PICK s \in Slots : s = slot[c] /\ sess[s] \in Session /\ sess[s].addr = c
  BY <1>1, OwnPeer
<1> DEFINE new == [sess[s] EXCEPT !.username = NameOf[c], !.is_registered = TRUE]
<1>3. sess' = [sess EXCEPT ![s] = new]
  BY <1>1, <1>2, FindsOwnSession, OwnName, SlotNumbers DEF RegAdd, AddSession
<1>4. new.is_registered /\ new.username = NameOf[c] /\ new.addr = c
  BY <1>2 DEF Session
<1> HIDE DEF new
<1> QED
  BY <1>1, <1>2, <1>3, <1>4 DEF TypeOK

\* add_session.
LEMMA RegAddSound ==
  ASSUME SysInv, NEW c \in Conns, RegAdd(c), UNCHANGED clients
  PROVE  Sound(c)' /\ OwnNames'
<1> USE DEF kernel, mainv, monitor
<1>1. TypeOK /\ pc[c] = "reg_add" /\ Holding(c) /\ slot[c] \in Slots
      /\ UNCHANGED <<conn, gone, outq, slot>> /\ Waits(c)
  BY OwnPeer DEF SysInv, Inv, TypeInv, RegAdd, Holding, Waits, clients
<1>2. /\ sess'[slot[c]].is_registered /\ sess'[slot[c]].username = NameOf[c]
      /\ sess'[slot[c]].addr = c
      /\ \A r \in Slots \ {slot[c]} : sess'[r] = sess[r]
  BY RegAddSession
<1>3. job[c].line[1] = "REGISTER" /\ Arg1(job[c].line) = NameOf[c]
      /\ cpc[c] \in {"answer", "ended"}
  BY <1>1, OwnName DEF Registration
<1>4. Answer(c, <<"REGISTER_OK", NameOf[c], "ACTIVO">>)
  BY <1>3 DEF RegAdd
<1>5. /\ pc'[c] = "reply" /\ job'[c].line = job[c].line
      /\ job'[c].reply = <<"REGISTER_OK", NameOf[c], "ACTIVO">>
      /\ \A d \in Conns \ {c} : pc'[d] = pc[d]
  BY <1>1, <1>4, AnswerFields, Moves
<1>6. Sound(c)'
  <2>1. LineFits(c)' /\ Adds(c) /\ Serving(c)
    BY <1>1, <1>3, <1>5 DEF LineFits, Adds, Serving
  <2> QED
    BY <1>1, <1>2, <1>5, <2>1, OwnSound
<1>7. OwnNames'
  <2>1. \A s \in Slots : sess[s].is_active => sess[s].addr \in Conns
    BY DEF SysInv, Inv, Ownership, SlotInv
  <2>2. ASSUME NEW r \in Slots, sess'[r].is_active
        PROVE  IF sess'[r].is_registered
               THEN /\ sess'[r].username = NameOf[sess'[r].addr]
                    /\ pc'[sess'[r].addr] # "none"
                    /\ cpc'[sess'[r].addr] \notin {"off", "welcome"}
               ELSE sess'[r].username = ""
    <3>1. CASE r = slot[c]
      BY <1>2, <1>3, <1>5, <3>1 DEF clients
    <3>2. CASE r # slot[c]
      <4>1. sess'[r] = sess[r] /\ sess[r].is_active /\ sess[r].addr \in Conns
        BY <1>2, <2>1, <2>2, <3>2
      <4>2. \A d \in Conns : pc[d] # "none" => pc'[d] # "none"
        BY <1>5
      <4>3. OwnNames /\ cpc' = cpc
        BY DEF SysInv, clients
      <4> QED
        BY <4>1, <4>2, <4>3 DEF OwnNames
    <3> QED
      BY <3>1, <3>2
  <2> QED
    BY <2>2 DEF OwnNames
<1> QED
  BY <1>6, <1>7

\* The sends of the handlers.
LEMMA SendersSound ==
  ASSUME SysInv, NEW c \in Conns, UNCHANGED clients,
         Deliver(c) \/ StatusAck(c) \/ StatusNotify(c) \/ HandleQuit(c)
  PROVE  Sound(c)'
<1> USE DEF shared
<1>1. TypeOK /\ Sound(c) /\ running /\ Serving(c) /\ Waits(c) /\ Holding(c)
  BY DEF SysInv, Inv, TypeInv, GoesOn, Serving, Holding, Waits, clients,
         Deliver, StatusAck, StatusNotify, HandleQuit, Handles
<1>2. UNCHANGED <<conn, gone, sess, slot>>
  BY DEF Deliver, StatusAck, StatusNotify, HandleQuit
<1>3. CASE Deliver(c)
  <2>1. Hears(c)
    <3>1. PICK m, F : m[1] = "DELIVER" /\ Send(F, m)
      BY <1>3 DEF Deliver
    <3> QED
      BY <1>1, <3>1, EventHeard DEF IsEvent, EventKinds
  <2>2. /\ job'[c].line = job[c].line
        /\ job'[c].reply = <<"MSG_OK", Arg1(job[c].line)>> /\ pc'[c] = "reply"
    BY <1>1, <1>3, Moves DEF Deliver, TypeOK, Job
  <2>3. job[c].line[1] = "MSG" /\ job'[c].reply[1] = "MSG_OK"
    <3>1. pc[c] = "deliver" /\ LineFits(c)
      BY <1>1, <1>3 DEF Deliver, Sound
    <3> QED
      BY <2>2, <3>1 DEF LineFits
  <2>4. LineFits(c)' /\ ~Telling(c)'
    BY <2>2, <2>3, Zenon DEF LineFits, Telling
  <2> QED
    BY <1>1, <1>2, <2>1, <2>2, <2>4, GoSound
<1>4. CASE StatusAck(c)
  <2>1. job' = job /\ pc'[c] = "status_notify" /\ pc[c] = "status_ack"
    BY <1>1, <1>4, Moves DEF StatusAck
  <2>2. Adds(c)
    <3>1. PICK m : m[1] = "STATUS_OK" /\ Send({fd[c]}, m)
      BY <1>4 DEF StatusAck
    <3>2. Peer(fd[c]) = c
      BY <1>1, <2>1, OwnPeer
    <3>3. m[1] # "REGISTER_OK" /\ m # <<"BYE">>
      BY <3>1
    <3>4. outq'[c] = outq[c] \/ outq'[c] = Append(outq[c], m)
      BY <1>1, <3>1, <3>2, OwnSend
    <3> QED
      BY <3>3, <3>4, Zenon DEF Adds
  <2>3. LineFits(c)' /\ ~Telling(c)'
    BY <1>1, <2>1 DEF LineFits, Telling, Sound
  <2> QED
    BY <1>1, <1>2, <2>1, <2>2, <2>3, OwnSound
<1>5. CASE StatusNotify(c)
  <2>1. job' = job /\ pc'[c] = "recv"
    BY <1>1, <1>5, Moves DEF StatusNotify, NextLoop
  <2>2. Hears(c)
    <3>1. PICK m, F : m[1] = "STATUS_CHANGED" /\ Send(F, m)
      BY <1>5 DEF StatusNotify
    <3> QED
      BY <1>1, <3>1, EventHeard DEF IsEvent, EventKinds
  <2>3. LineFits(c)' /\ ~Telling(c)'
    BY <2>1 DEF LineFits, Telling
  <2> QED
    BY <1>1, <1>2, <2>1, <2>2, <2>3, GoSound
<1>6. CASE HandleQuit(c)
  <2>1. job[c].line[1] = "QUIT" /\ job[c].line # <<"QUIT">>
    BY <1>6, HandlesWord DEF HandleQuit, Handles
  <2>2. Said(c, job[c].line)
    BY <1>1 DEF Sound, LinesSaid
  <2> QED
    BY <2>1, <2>2 DEF Said, Registration, Typed
<1> QED
  BY <1>3, <1>4, <1>5, <1>6

\* The answer is sent, if the client is still there.
LEMMA ReplySent ==
  ASSUME SysInv, NEW c \in Conns, Reply(c)
  PROVE  /\ outq'[c] = IF gone[c] THEN outq[c] ELSE Append(outq[c], job[c].reply)
         /\ pc'[c] = "recv" /\ UNCHANGED <<conn, gone, sess, slot>>
<1>1. TypeOK /\ Holding(c) /\ running
  BY DEF SysInv, Inv, TypeInv, GoesOn, Reply, Holding
<1> QED
  BY <1>1, OwnPeer, OwnSend, Moves DEF Reply, NextLoop, shared

\* REGISTER_OK and the other answers.
LEMMA ReplySound ==
  ASSUME SysInv, NEW c \in Conns, UNCHANGED clients, Reply(c)
  PROVE  Sound(c)'
<1> DEFINE m == job[c].reply
<1>1. /\ TypeOK /\ Sound(c) /\ Serving(c) /\ Waits(c) /\ pc[c] = "reply"
  BY DEF SysInv, Inv, TypeInv, Serving, Waits, clients, Reply
<1>2. /\ outq'[c] = outq[c] \/ outq'[c] = Append(outq[c], m)
      /\ pc'[c] = "recv" /\ UNCHANGED <<conn, gone, sess, slot>>
  BY ReplySent
<1>3. m # <<"BYE">>
  <2>1. \/ m[1] \in {"ERROR", "LIST_OK", "INFO_OK", "BROADCAST_OK"}
        \/ m = <<"REGISTER_OK", NameOf[c], "ACTIVO">>
        \/ m = <<"MSG_OK", Arg1(job[c].line)>>
    BY <1>1 DEF Sound, LineFits
  <2>2. m[1] # "BYE"
    BY <2>1
  <2> QED
    BY <2>2
<1>4. LineFits(c)' /\ ~Serving(c)' /\ ~Telling(c)'
  BY <1>2 DEF LineFits, Serving, Telling
<1> HIDE DEF m
<1>5. CASE m[1] # "REGISTER_OK"
  <2>1. Adds(c)
    BY <1>2, <1>3, <1>5, Zenon DEF Adds
  <2> QED
    BY <1>1, <1>2, <1>4, <2>1, OwnSound
<1>6. CASE m[1] = "REGISTER_OK"
  <2>1. Telling(c) /\ job[c].line[1] = "REGISTER"
    BY <1>1, <1>6 DEF Telling, Sound, LineFits, m
  <2>2. job[c].line = Registration(c) /\ ~Told(c)
    BY <1>1, <2>1 DEF Sound, LinesSaid, Said, Typed
  <2>3. sess[slot[c]].is_registered
    BY <1>1, <2>1 DEF Sound, ToldTrue, Holding
  <2>4. \A k \in DOMAIN wire[c] : FALSE
    BY <1>1, <2>2 DEF Sound, LinesSaid, Said, Registration
  <2>5. LinesSaid(c)'
    BY <1>1, <1>4, <2>4 DEF LinesSaid, Waits
  <2>6. ToldTrue(c)'
    <3>1. cpc[c] \in {"chat", "quitting"} => Told(c)
      BY <1>1 DEF Sound, ToldTrue
    <3> QED
      BY <1>1, <1>2, <1>4, <2>2, <2>3, <3>1 DEF ToldTrue, Waits
  <2>7. ByeLast(c)'
    <3>1. \A k \in DOMAIN outq[c] : outq[c][k] # <<"BYE">>
      BY <1>1 DEF Sound, ByeLast
    <3>2. outq[c] \in Seq(Line)
      BY <1>1 DEF TypeOK
    <3> DEFINE q == outq[c]
               r == Append(outq[c], m)
    <3>3. /\ DOMAIN r = DOMAIN q \cup {Len(r)} /\ r[Len(r)] = m
          /\ \A k \in DOMAIN q : r[k] = q[k]
      BY <3>2, Appended
    <3> HIDE DEF r
    <3>4. \A k \in DOMAIN r : r[k] # <<"BYE">>
      BY <1>3, <3>1, <3>3
    <3>5. \A k \in DOMAIN outq'[c] : outq'[c][k] # <<"BYE">>
      BY <1>2, <3>1, <3>4 DEF r
    <3> QED
      BY <3>5 DEF ByeLast
  <2>8. Served(c)'
    BY <1>1, <1>2 DEF Served, Sound, Staying, Waits
  <2> QED
    BY <1>4, <2>5, <2>6, <2>7, <2>8 DEF Sound
<1> QED
  BY <1>5, <1>6

\* BYE, after which the thread removes the session.
LEMMA QuitSound ==
  ASSUME SysInv, NEW c \in Conns, UNCHANGED clients, Quit(c)
  PROVE  Sound(c)'
<1> USE DEF shared
<1>1. /\ TypeOK /\ Sound(c) /\ Serving(c) /\ Waits(c) /\ Holding(c)
      /\ pc[c] = "dispatch" /\ job[c].line = <<"QUIT">>
  BY DEF SysInv, Inv, TypeInv, Serving, Holding, Waits, clients, Quit
<1>2. /\ pc'[c] = "remove" /\ UNCHANGED <<conn, gone, sess, slot, job>>
  BY <1>1, Moves DEF Quit
<1>3. outq'[c] = outq[c] \/ outq'[c] = Append(outq[c], <<"BYE">>)
  <2>1. Peer(fd[c]) = c /\ Send({fd[c]}, <<"BYE">>)
    BY <1>1, OwnPeer DEF Quit
  <2> QED
    BY <1>1, <2>1, OwnSend
<1>4. Told(c)' <=> Told(c)
  BY <1>1, <1>3, ToldBy DEF Told
<1>5. ~Staying(c)
  BY <1>1 DEF Sound, LinesSaid, Said, Registration, Typed, Staying
<1>6. LineFits(c)' /\ ~Serving(c)' /\ ~Telling(c)'
  BY <1>2 DEF LineFits, Serving, Telling
<1>7. LinesSaid(c)'
  BY <1>1, <1>4, <1>6, SaidKept DEF LinesSaid, Sound, Waits, Registration
<1>8. ToldTrue(c)'
  BY <1>1, <1>2, <1>4, <1>6 DEF ToldTrue, Sound, Waits, Holding
<1>9. ByeLast(c)'
  <2>1. \A k \in DOMAIN outq[c] : outq[c][k] # <<"BYE">>
    BY <1>1 DEF Sound, ByeLast
  <2>2. outq[c] \in Seq(Line)
    BY <1>1 DEF TypeOK
  <2> DEFINE q == outq[c]
             r == Append(outq[c], <<"BYE">>)
  <2>3. /\ DOMAIN r = DOMAIN q \cup {Len(r)} /\ Len(r) \in Nat
        /\ \A k \in DOMAIN q : r[k] = q[k]
    BY <2>2, Appended
  <2> HIDE DEF r
  <2>4. \A k \in DOMAIN r : r[k] = <<"BYE">> =>
          \A j \in k + 1 .. Len(r) : IsEvent(r[j])
    <3> SUFFICES ASSUME NEW k \in DOMAIN r, r[k] = <<"BYE">>,
                        NEW j \in k + 1 .. Len(r)
                 PROVE  FALSE
      OBVIOUS
    <3>1. k = Len(r)
      BY <2>1, <2>3
    <3> DEFINE n == Len(r)
    <3>2. n \in Nat /\ j \in n + 1 .. n
      BY <2>3, <3>1
    <3> HIDE DEF n
    <3> QED
      BY <3>2
  <2>5. \A k \in DOMAIN outq'[c] : outq'[c][k] = <<"BYE">> =>
          \A j \in k + 1 .. Len(outq'[c]) : IsEvent(outq'[c][j])
    BY <1>3, <2>1, <2>4 DEF r
  <2> QED
    BY <1>2, <2>5 DEF ByeLast
<1>10. Served(c)'
  BY <1>1, <1>2, <1>5 DEF Served, Sound, Staying, Waits
<1> QED
  BY <1>6, <1>7, <1>8, <1>9, <1>10 DEF Sound

\* The thread gives its session up, and closes.
LEMMA LeavingSound ==
  ASSUME SysInv, NEW c \in Conns, UNCHANGED clients, Remove(c) \/ CloseOwn(c)
  PROVE  Sound(c)' /\ \A d \in Conns \ {c} : Served(d)'
<1> USE DEF kernel
<1>1. /\ TypeOK /\ Sound(c) /\ Waits(c) /\ pc[c] \in {"remove", "close"}
      /\ ~Serving(c) /\ outq' = outq
  BY DEF SysInv, Inv, TypeInv, Serving, Waits, clients, Remove, CloseOwn
<1>2. pc'[c] \in {"close", "done"} /\ \A d \in Conns \ {c} : pc'[d] = pc[d]
  BY <1>1, Moves DEF Remove, CloseOwn
<1>3. /\ (conn'[c] = conn[c] /\ gone'[c] = gone[c]) \/ gone'[c]
      /\ \A d \in Conns \ {c} : conn'[d] = conn[d] /\ gone'[d] = gone[d]
  <2>1. CASE Remove(c)
    BY <2>1 DEF Remove
  <2>2. CASE CloseOwn(c)
    <3>1. Peer(fd[c]) = c
      BY <2>2 DEF SysInv, Inv, Ownership, ThreadInv, CloseOwn
    <3> QED
      BY <1>1, <2>2, <3>1 DEF CloseOwn, CloseFd, TypeOK
  <2> QED
    BY <2>1, <2>2
<1>4. Told(c)' <=> Told(c)
  BY <1>1 DEF Told
<1>5. LineFits(c)' /\ ~Serving(c)' /\ ~Telling(c)' /\ ~Holding(c)'
  BY <1>2 DEF LineFits, Serving, Telling, Holding
<1>6. LinesSaid(c)'
  BY <1>1, <1>4, <1>5, SaidKept DEF LinesSaid, Sound, Waits, Registration
<1>7. ToldTrue(c)'
  BY <1>1, <1>2, <1>4, <1>5 DEF ToldTrue, Sound, Waits
<1>8. ByeLast(c)'
  BY <1>1, <1>2 DEF ByeLast, Sound
<1>9. Served(c)'
  BY <1>1, <1>2, <1>3 DEF Served, Sound, Staying, Waits
<1>10. ASSUME NEW d \in Conns \ {c} PROVE Served(d)'
  BY <1>2, <1>3 DEF SysInv, Sound, Served, Staying, clients
<1> QED
  BY <1>5, <1>6, <1>7, <1>8, <1>9, <1>10 DEF Sound

\* The rest of client_thread_main.
LEMMA MainLoopSound ==
  ASSUME SysInv, Inv', NEW c \in Conns, UNCHANGED clients,
         Begin(c) \/ RecvEnd(c) \/ Touch(c) \/ Ping(c) \/ Unparsed(c)
  PROVE  Sound(c)'
<1> USE DEF kernel, shared
<1>1. TypeOK /\ Sound(c) /\ Waits(c) /\ Holding(c)
  BY DEF SysInv, Inv, TypeInv, Holding, Waits, clients, Begin, RecvEnd, Touch,
         Ping, Unparsed
<1>2. CASE Begin(c)
  <2>1. /\ pc[c] = "start"
        /\ SendLine(c, sess[slot[c]].sockfd, <<"WELCOME", "CHAT/1.0">>)
        /\ UNCHANGED <<conn, gone, sess, slot, job>>
    BY <1>2 DEF Begin
  <2>2. Peer(sess[slot[c]].sockfd) = c
    BY <1>1, OwnPeer
  <2> DEFINE m == <<"WELCOME", "CHAT/1.0">>
  <2>3. m[1] # "REGISTER_OK" /\ m # <<"BYE">>
    OBVIOUS
  <2> HIDE DEF m
  <2> QED
    BY <1>1, <2>1, <2>2, <2>3, SendLineSound DEF m
<1>3. CASE RecvEnd(c)
  <2>1. pc[c] = "recv" /\ gone[c] /\ pc'[c] = "remove"
        /\ UNCHANGED <<conn, gone, outq, sess, slot, job>>
    BY <1>1, <1>3, Moves DEF RecvEnd
  <2>2. ~Staying(c) /\ Adds(c)
    BY <1>1, <2>1 DEF Sound, Served, Adds
  <2>3. LineFits(c)' /\ ~Serving(c)' /\ ~Telling(c)'
    BY <2>1 DEF LineFits, Serving, Telling
  <2> QED
    BY <1>1, <2>1, <2>2, <2>3, OwnSound
<1>4. CASE Touch(c)
  <2>1. /\ pc'[c] = "dispatch" /\ Serving(c)
        /\ UNCHANGED <<conn, gone, outq, slot>>
    BY <1>1, <1>4, Moves DEF Touch, Serving
  <2>2. job'[c].line = job[c].line
    BY <1>1, <1>4 DEF Touch, TypeOK, Job
  <2>3. LineFits(c)' /\ ~Telling(c)' /\ Hears(c)
    BY <2>1 DEF LineFits, Telling, Hears
  <2>4. slot'[c] \in Slots /\ sess'[slot'[c]].is_active
    BY <2>1 DEF Inv, Ownership, ThreadInv, Holding
  <2>5. ThreadRuns(c) /\ ~RegAdd(c)
    BY <1>4 DEF Touch, ThreadRuns, RegAdd
  <2>6. sess'[slot[c]].is_registered = sess[slot[c]].is_registered
    BY <2>1, <2>4, <2>5, ThreadSurvive DEF Survive
  <2> QED
    BY <1>1, <2>1, <2>2, <2>3, <2>6, GoSound
<1>5. CASE Ping(c)
  <2>1. pc[c] = "dispatch" /\ job[c].line = <<"PING">>
    BY <1>5 DEF Ping
  <2> QED
    BY <1>1, <2>1 DEF Sound, LinesSaid, Serving, Said, Registration, Typed
<1>6. CASE Unparsed(c)
  <2> DEFINE m == Error("PROTO", "NOT_IMPLEMENTED")
  <2>1. /\ pc[c] = "dispatch" /\ SendLine(c, fd[c], m)
        /\ UNCHANGED <<conn, gone, sess, slot, job>>
    BY <1>6 DEF Unparsed
  <2>2. Peer(fd[c]) = c
    BY <1>1, <2>1, OwnPeer
  <2>3. m[1] # "REGISTER_OK" /\ m # <<"BYE">>
    BY DEF Error
  <2> HIDE DEF m
  <2> QED
    BY <1>1, <2>1, <2>2, <2>3, SendLineSound
<1> QED
  BY <1>2, <1>3, <1>4, <1>5, <1>6

\* Every step of a thread but reading keeps what holds of the clients.
LEMMA ThreadSound ==
  ASSUME SysInv, Inv', NEW c \in Conns, ThreadRuns(c), UNCHANGED clients
  PROVE  ClientTypes' /\ GoesOn' /\ OwnNames' /\ \A d \in Conns : Sound(d)'
<1> USE DEF kernel, shared, mainv
<1>1. TypeOK /\ \A s \in Slots : sess[s].is_active => sess[s].addr \in Conns
  BY DEF SysInv, Inv, TypeInv, Ownership, SlotInv
<1>2. ClientTypes' /\ GoesOn'
  <2>1. apc' = apc /\ running' = running
    BY DEF ThreadRuns, Begin, RecvEnd, Touch, Ping, Quit, Unparsed, Handle,
           HandleRegister, RegAdd, HandleMsg, Deliver, HandleBroadcast,
           HandleList, HandleInfo, InfoGet, HandleStatus, StatusAck,
           StatusNotify, HandleQuit, Reply, Remove, CloseOwn
  <2> QED
    BY <2>1 DEF SysInv, ClientTypes, GoesOn, clients
<1>3. Sound(c)'
  BY HandlersSound, RegAddSound, SendersSound, ReplySound, QuitSound,
     LeavingSound, MainLoopSound
  DEF ThreadRuns, Handle
<1>4. \A d \in Conns : pc[d] # "none" => pc'[d] # "none"
  <2>1. pc[c] # "none" => pc'[c] # "none"
    <3>1. CASE Remove(c) \/ CloseOwn(c)
      BY <1>1, <3>1, Moves DEF Remove, CloseOwn
    <3>2. CASE ~Remove(c) /\ ~CloseOwn(c)
      BY <1>1, <3>2, Moves
      DEF ThreadRuns, Begin, RecvEnd, Touch, Ping, Quit, Unparsed, Handle,
          HandleRegister, RegAdd, HandleMsg, Deliver, HandleBroadcast,
          HandleList, HandleInfo, InfoGet, HandleStatus, StatusAck,
          StatusNotify, HandleQuit, Reply, NextLoop
    <3> QED
      BY <3>1, <3>2
  <2> QED
    BY <2>1, Bystanders DEF Stands
<1>5. OwnNames'
  <2>1. CASE RegAdd(c)
    BY <2>1, RegAddSound
  <2>2. CASE ~RegAdd(c)
    BY <1>1, <1>4, <2>2, ThreadSurvive, SurviveNames DEF SysInv, clients
  <2> QED
    BY <2>1, <2>2
<1>6. ASSUME NEW d \in Conns \ {c} PROVE Sound(d)'
  <2>1. Stands(d) /\ Waits(d) /\ Sound(d)
    BY Bystanders DEF SysInv
  <2>2. Served(d)'
    <3>1. CASE UNCHANGED <<conn, gone>>
      BY <2>1, <3>1 DEF Sound, Served, Staying, Stands, Waits
    <3>2. CASE CloseOwn(c)
      BY <3>2, LeavingSound
    <3> QED
      BY <3>1, <3>2
      DEF ThreadRuns, Begin, RecvEnd, Touch, Ping, Quit, Unparsed, Handle,
          HandleRegister, RegAdd, HandleMsg, Deliver, HandleBroadcast,
          HandleList, HandleInfo, InfoGet, HandleStatus, StatusAck,
          StatusNotify, HandleQuit, Reply, Remove
  <2>3. Holding(d) => sess'[slot[d]].is_registered = sess[slot[d]].is_registered
    <3> SUFFICES ASSUME Holding(d)
                 PROVE  sess'[slot[d]].is_registered = sess[slot[d]].is_registered
      OBVIOUS
    <3>1. slot'[d] = slot[d] /\ Holding(d)'
      BY <2>1 DEF Stands, Holding
    <3>2. slot[d] \in Slots /\ sess'[slot[d]].is_active
          /\ sess'[slot[d]].addr = d
      BY <3>1 DEF Inv, Ownership, ThreadInv
    <3>3. CASE RegAdd(c)
      <4>1. slot[d] # slot[c]
        BY <3>2, <3>3, RegAddSession
      <4> QED
        BY <3>2, <3>3, <4>1, RegAddSession
    <3>4. CASE ~RegAdd(c)
      BY <3>2, <3>4, ThreadSurvive DEF Survive
    <3> QED
      BY <3>3, <3>4
  <2> QED
    BY <1>1, <2>1, <2>2, <2>3, StandsSound
<1> QED
  BY <1>2, <1>3, <1>5, <1>6

-----------------------------------------------------------------------------
(* Reading a line, and the clients.                                        *)

\* What recv_line returns is the first line that the client has sent.
LEMMA ReadsSound ==
  ASSUME SysInv, Inv', NEW c \in Conns, Reads(c)
  PROVE  ClientTypes' /\ GoesOn' /\ OwnNames' /\ \A d \in Conns : Sound(d)'
<1> USE DEF shared, mainv
<1>1. /\ TypeOK /\ Sound(c) /\ wire \in [Conns -> Seq(Line)]
      /\ \A s \in Slots : sess[s].is_active => sess[s].addr \in Conns
  BY DEF SysInv, ClientTypes, Inv, TypeInv, Ownership, SlotInv
<1>2. PICK w \in Seq(Line) : w = wire[c] /\ w # <<>> /\ Recv(c, w[1])
  BY <1>1 DEF Reads
<1>3. /\ Tail(w) \in Seq(Line) /\ 1 \in DOMAIN w
      /\ \A k \in DOMAIN Tail(w) :
           k \in Nat \ {0} /\ k + 1 \in DOMAIN w /\ Tail(w)[k] = w[k + 1]
  BY <1>2
<1>4. /\ pc[c] = "recv" /\ pc'[c] = "touch" /\ cpc' = cpc /\ plan' = plan
      /\ UNCHANGED <<conn, gone, outq, sess, running, apc, slot>>
      /\ wire'[c] = Tail(w) /\ wire' \in [Conns -> Seq(Line)]
      /\ \A d \in Conns \ {c} : /\ pc'[d] = pc[d] /\ job'[d] = job[d]
                                /\ wire'[d] = wire[d]
  BY <1>1, <1>2, <1>3, Moves DEF Reads, Recv, TypeOK
<1>5. job'[c].line = w[1]
  BY <1>1, <1>2 DEF Recv, TypeOK, Job
<1>6. ClientTypes' /\ GoesOn'
  BY <1>4 DEF SysInv, ClientTypes, GoesOn
<1>7. OwnNames'
  BY <1>1, <1>4, SurviveNames DEF SysInv, Survive
<1>8. ASSUME NEW d \in Conns \ {c} PROVE Sound(d)'
  <2>1. Stands(d) /\ Waits(d) /\ Sound(d)
    BY <1>4 DEF SysInv, Stands, Hears, Waits
  <2>2. Served(d)'
    BY <1>4, <2>1 DEF Sound, Served, Staying
  <2> QED
    BY <1>1, <1>4, <2>1, <2>2, StandsSound
<1>9. Sound(c)'
  <2>1. (Told(c)' <=> Told(c)) /\ Holding(c) /\ Holding(c)' /\ ~Telling(c)'
    BY <1>4 DEF Told, Telling, Holding
  <2>2. LinesSaid(c)'
    <3>1. \A l : Said(c, l) => Said(c, l)'
      BY <1>4, <2>1, SaidKept
    <3>2. \A k \in DOMAIN w : Said(c, w[k]) /\ (w[k] = Registration(c) => k = 1)
      BY <1>1, <1>2 DEF Sound, LinesSaid
    <3>3. Said(c, w[1])'
      BY <1>3, <3>1, <3>2
    <3>4. Said(c, job[c].line)'
      BY <1>5, <3>3 DEF Said, Registration
    <3>5. \A k \in DOMAIN Tail(w) : Said(c, Tail(w)[k])' /\ Tail(w)[k] # Registration(c)
      BY <1>3, <3>1, <3>2
    <3> QED
      BY <1>4, <3>4, <3>5 DEF LinesSaid, Registration
  <2>3. LineFits(c)'
    BY <1>4 DEF LineFits
  <2>4. ToldTrue(c)'
    BY <1>1, <1>4, <2>1 DEF Sound, ToldTrue
  <2>5. ByeLast(c)'
    BY <1>1, <1>4 DEF Sound, ByeLast
  <2>6. Served(c)'
    BY <1>1, <1>4 DEF Sound, Served, Staying
  <2> QED
    BY <2>2, <2>3, <2>4, <2>5, <2>6 DEF Sound
<1> QED
  BY <1>6, <1>7, <1>8, <1>9

\* Client c goes from where it is to another place, without the server.
Moved(c, label) ==
  /\ UNCHANGED <<outq, pc, slot, job, sess, running, apc, plan>>
  /\ cpc' = [cpc EXCEPT ![c] = label]
  /\ \A d \in Conns \ {c} : conn'[d] = conn[d] /\ gone'[d] = gone[d]

\* It may do so if what it has said then may have been said.
LEMMA MovedSound ==
  ASSUME SysInv, NEW c \in Conns, NEW label \in ClientLabels, Moved(c, label),
         cpc[c] \notin {"off", "welcome"} => label \notin {"off", "welcome"},
         label \in {"chat", "quitting"} => Told(c), Served(c)', LinesSaid(c)',
         \A d \in Conns \ {c} : wire'[d] = wire[d], wire' \in [Conns -> Seq(Line)]
  PROVE  ClientTypes' /\ GoesOn' /\ OwnNames' /\ \A d \in Conns : Sound(d)'
<1>1. /\ TypeOK /\ Sound(c)
      /\ \A s \in Slots : sess[s].is_active => sess[s].addr \in Conns
  BY DEF SysInv, Inv, TypeInv, Ownership, SlotInv
<1>2. ClientTypes' /\ GoesOn'
  BY DEF SysInv, ClientTypes, GoesOn, Moved
<1>3. \A d \in Conns : cpc'[d] = IF d = c THEN label ELSE cpc[d]
  BY DEF SysInv, ClientTypes, Moved
<1>4. OwnNames'
  BY <1>1, <1>3, SurviveNames DEF SysInv, Survive, Moved
<1>5. ASSUME NEW d \in Conns \ {c} PROVE Sound(d)'
  <2>1. Stands(d) /\ Waits(d) /\ Sound(d)
    BY <1>3 DEF SysInv, Moved, Stands, Hears, Waits
  <2>2. Served(d)'
    BY <1>3, <2>1 DEF Sound, Served, Staying, Moved
  <2> QED
    BY <1>1, <2>1, <2>2, StandsSound DEF Moved
<1>6. Sound(c)'
  <2>1. /\ Told(c)' <=> Told(c)
        /\ Serving(c)' <=> Serving(c)
        /\ Telling(c)' <=> Telling(c)
        /\ Holding(c)' <=> Holding(c)
    BY DEF Told, Serving, Telling, Holding, Moved
  <2>2. LineFits(c)' /\ ByeLast(c)'
    BY <1>1 DEF Sound, LineFits, ByeLast, Moved
  <2>3. ToldTrue(c)'
    BY <1>1, <1>3, <2>1 DEF Sound, ToldTrue, Moved
  <2> QED
    BY <2>2, <2>3 DEF Sound
<1> QED
  BY <1>2, <1>4, <1>5, <1>6

\* It has sent nothing more, or one line.
LEMMA LinesKept ==
  ASSUME SysInv, NEW c \in Conns, wire'[c] = wire[c], UNCHANGED <<pc, job>>,
         \A l : Said(c, l) => Said(c, l)'
  PROVE  LinesSaid(c)'
BY DEF SysInv, Sound, LinesSaid, Serving, Registration

\* A line that its client may say is added to those on the wire.
LEMMA LinesSent ==
  ASSUME SysInv, NEW c \in Conns, NEW l \in Line, Sends(c, l), UNCHANGED <<pc, job>>,
         \A m : Said(c, m) => Said(c, m)', Said(c, l)',
         l = Registration(c) => wire[c] = <<>> /\ ~Serving(c)
  PROVE  /\ LinesSaid(c)' /\ wire' \in [Conns -> Seq(Line)]
         /\ \A d \in Conns \ {c} : wire'[d] = wire[d]
<1>1. /\ wire \in [Conns -> Seq(Line)]
      /\ \A k \in DOMAIN wire[c] :
           /\ Said(c, wire[c][k])
           /\ wire[c][k] = Registration(c) => k = 1 /\ ~Serving(c)
      /\ Serving(c) => Said(c, job[c].line)
  BY DEF SysInv, ClientTypes, Sound, LinesSaid
<1>2. PICK w \in Seq(Line) : w = wire[c]
  BY <1>1
<1> DEFINE r == Append(w, l)
<1>3. /\ DOMAIN w = 1 .. Len(w) /\ Len(w) \in Nat
      /\ Len(r) = Len(w) + 1 /\ DOMAIN r = DOMAIN w \cup {Len(r)} /\ r[Len(r)] = l
      /\ \A k \in DOMAIN w : r[k] = w[k]
  BY Appended
<1>4. r \in Seq(Line)
  OBVIOUS
<1>5. wire' = [wire EXCEPT ![c] = r]
  BY <1>1, <1>2 DEF Sends
<1> HIDE DEF r
<1>6. wire' \in [Conns -> Seq(Line)] /\ wire'[c] = r
      /\ \A d \in Conns \ {c} : wire'[d] = wire[d]
  BY <1>1, <1>4, <1>5
<1>7. ASSUME NEW k \in DOMAIN r
      PROVE  Said(c, r[k])' /\ (r[k] = Registration(c) => k = 1 /\ ~Serving(c))
  <2>1. CASE k \in DOMAIN w
    BY <1>1, <1>2, <1>3, <2>1
  <2>2. CASE k = Len(r)
    <3>1. w = <<>> => k = 1
      BY <1>3, <2>2
    <3> QED
      BY <1>2, <1>3, <2>2, <3>1
  <2> QED
    BY <1>3, <2>1, <2>2
<1>8. Serving(c) => Said(c, job[c].line)'
  <2>1. PICK m : m = job[c].line
    OBVIOUS
  <2>2. job'[c].line = m
    BY <2>1
  <2>3. Serving(c) => Said(c, m)'
    BY <1>1, <2>1
  <2> QED
    BY <2>2, <2>3 DEF Said, Registration
<1>9. LinesSaid(c)'
  BY <1>6, <1>7, <1>8 DEF LinesSaid, Serving, Said, Registration
<1> QED
  BY <1>6, <1>9

\* Before it registers a client has said nothing and was told nothing.
LEMMA NothingYet ==
  ASSUME SysInv, NEW c \in Conns, cpc[c] \in {"off", "welcome"}
  PROVE  /\ ~Told(c) /\ ~Serving(c) /\ wire[c] = <<>>
         /\ \A l : ~Said(c, l)
<1>1. Sound(c) /\ wire[c] \in Seq(Line)
  BY DEF SysInv, ClientTypes
<1>2. \A l : ~Said(c, l)
  BY DEF Said
<1>3. ~Serving(c) /\ \A k \in DOMAIN wire[c] : FALSE
  BY <1>1, <1>2 DEF Sound, LinesSaid
<1>4. wire[c] = <<>>
  <2>1. PICK w \in Seq(Line) : w = wire[c]
    BY <1>1
  <2>2. PICK n \in Nat : n = Len(w) /\ DOMAIN w = 1 .. n
    OBVIOUS
  <2>3. 1 \notin 1 .. n
    BY <1>3, <2>1, <2>2
  <2>4. n = 0
    BY <2>3
  <2>5. w = <<>>
    BY <2>2, <2>4
  <2> QED
    BY <2>1, <2>5
<1>5. ~Told(c)
  <2> SUFFICES ASSUME Told(c) PROVE FALSE
    OBVIOUS
  <2>1. Holding(c)
    BY <1>1 DEF Sound, ToldTrue, Served, Staying, Holding
  <2>2. sess[slot[c]].is_registered
    BY <1>1, <2>1 DEF Sound, ToldTrue
  <2> QED
    BY <2>1, <2>2, OwnPeer DEF SysInv, OwnNames
<1> QED
  BY <1>2, <1>3, <1>4, <1>5

\* client_connect, and client_register.
LEMMA RegistersSound ==
  ASSUME SysInv, NEW c \in Conns, Dial(c) \/ HearsWelcome(c) \/ HearsAnswer(c)
  PROVE  ClientTypes' /\ GoesOn' /\ OwnNames' /\ \A d \in Conns : Sound(d)'
<1> USE DEF vars, kernel, shared, mainv, threads
<1>1. /\ TypeOK /\ Sound(c) /\ wire \in [Conns -> Seq(Line)]
      /\ cpc \in [Conns -> ClientLabels]
  BY DEF SysInv, ClientTypes, Inv, TypeInv
<1>2. UNCHANGED <<outq, pc, slot, job, sess, running, apc, plan, gone>>
  BY DEF Dial, Connect, HearsWelcome, HearsAnswer
<1>3. Told(c)' <=> Told(c)
  BY <1>2 DEF Told
<1>4. CASE Dial(c)
  <2>1. /\ Moved(c, "welcome") /\ cpc[c] = "off" /\ wire' = wire
        /\ conn[c] = "idle" /\ conn'[c] = "queued" /\ cpc'[c] = "welcome"
    BY <1>1, <1>2, <1>4 DEF Dial, Goes, Connect, Moved, TypeOK
  <2>2. LinesSaid(c)'
    BY <1>2, <2>1, NothingYet, LinesKept
  <2>3. Served(c)'
    BY <1>1, <1>2, <2>1 DEF Sound, Served, Staying
  <2> QED
    BY <1>1, <2>1, <2>2, <2>3, MovedSound DEF ClientLabels
<1>5. CASE HearsWelcome(c)
  <2>1. /\ Moved(c, "answer") /\ cpc[c] = "welcome" /\ conn' = conn
        /\ cpc'[c] = "answer" /\ Sends(c, Registration(c))
    BY <1>1, <1>2, <1>5 DEF HearsWelcome, Goes, Moved, Registration
  <2>2. ~Told(c) /\ ~Serving(c) /\ wire[c] = <<>> /\ \A l : ~Said(c, l)
    BY <2>1, NothingYet
  <2>3. Registration(c) \in Line
    BY NameOfAssumption, WordTypes, LineTypes DEF Registration, Words, Commands
  <2>4. \A l : l = Registration(c) => Said(c, l)'
    BY <1>3, <2>1, <2>2 DEF Said, Registration
  <2>5. /\ LinesSaid(c)' /\ wire' \in [Conns -> Seq(Line)]
        /\ \A d \in Conns \ {c} : wire'[d] = wire[d]
    <3> DEFINE l == Registration(c)
    <3>1. Said(c, l)'
      BY <1>3, <2>1, <2>2 DEF Said, Registration
    <3> QED
      BY <1>2, <2>1, <2>2, <2>3, <3>1, LinesSent
  <2>6. Served(c)'
    BY <1>1, <1>2, <2>1 DEF Sound, Served, Staying
  <2> QED
    BY <2>1, <2>5, <2>6, MovedSound DEF ClientLabels
<1>6. CASE HearsAnswer(c)
  <2>1. /\ Moved(c, "chat") /\ cpc[c] = "answer" /\ conn' = conn
        /\ cpc'[c] = "chat" /\ wire' = wire
    BY <1>1, <1>2, <1>6 DEF HearsAnswer, Goes, Moved
  <2>2. Told(c)
    <3>1. PICK q \in Seq(Line) : q = outq[c]
      BY <1>1 DEF TypeOK
    <3>2. 2 \in DOMAIN q /\ q[2][1] = "REGISTER_OK"
      BY <1>6, <3>1 DEF HearsAnswer
    <3> QED
      BY <3>1, <3>2 DEF Told
  <2>3. \A l : ~Said(c, l)
    BY <2>1, <2>2 DEF Said
  <2>4. LinesSaid(c)'
    BY <1>2, <2>1, <2>3, LinesKept
  <2>5. Served(c)'
    BY <1>1, <1>2, <2>1 DEF Sound, Served, Staying
  <2> QED
    BY <1>1, <2>1, <2>2, <2>4, <2>5, MovedSound DEF ClientLabels
<1> QED
  BY <1>4, <1>5, <1>6

\* Commands, and /quit.
LEMMA TypingSound ==
  ASSUME SysInv, NEW c \in Conns, TypesQuit(c) \/ \E l \in Inputs : Types(c, l)
  PROVE  ClientTypes' /\ GoesOn' /\ OwnNames' /\ \A d \in Conns : Sound(d)'
<1> USE DEF vars, kernel, shared, mainv, threads
<1>1. /\ TypeOK /\ Sound(c) /\ wire \in [Conns -> Seq(Line)]
      /\ cpc \in [Conns -> ClientLabels] /\ plan \in Plans
  BY DEF SysInv, ClientTypes, Inv, TypeInv
<1>2. /\ UNCHANGED <<outq, pc, slot, job, sess, running, apc, plan, conn, gone>>
      /\ cpc[c] = "chat" /\ cpc'[c] \in {"chat", "quitting"}
  BY <1>1 DEF TypesQuit, Types, Goes
<1>3. Told(c) /\ Told(c)'
  BY <1>1, <1>2 DEF Sound, ToldTrue, Told
<1>4. \A l : Said(c, l) => Said(c, l)'
  BY <1>2, <1>3 DEF Said
<1>5. Served(c)'
  BY <1>1, <1>2 DEF Sound, Served, Staying
<1>6. ASSUME NEW l \in Line, NEW label \in {"chat", "quitting"}, Sends(c, l),
             l # Registration(c), Said(c, l)', cpc' = [cpc EXCEPT ![c] = label]
      PROVE  ClientTypes' /\ GoesOn' /\ OwnNames' /\ \A d \in Conns : Sound(d)'
  <2>1. /\ LinesSaid(c)' /\ wire' \in [Conns -> Seq(Line)]
        /\ \A d \in Conns \ {c} : wire'[d] = wire[d]
    BY <1>2, <1>4, <1>6, LinesSent
  <2>2. Moved(c, label) /\ label \in ClientLabels
    BY <1>2, <1>6 DEF Moved, ClientLabels
  <2> QED
    BY <1>2, <1>3, <1>5, <2>1, <2>2, MovedSound
<1>7. CASE TypesQuit(c)
  <2>1. PICK l : l = <<"QUIT">>
    OBVIOUS
  <2>2. l \in Line
    BY <2>1, WordTypes, LineTypes DEF Words, Commands
  <2>3. l # Registration(c)
    BY <2>1 DEF Registration
  <2>4. cpc'[c] = "quitting"
    BY <1>1, <1>7 DEF TypesQuit, Goes
  <2>5. Said(c, l)'
    BY <1>3, <2>1, <2>4 DEF Said
  <2> QED
    BY <1>6, <1>7, <2>1, <2>2, <2>3, <2>5 DEF TypesQuit, Goes
<1>8. ASSUME NEW l \in Inputs, Types(c, l)
      PROVE  ClientTypes' /\ GoesOn' /\ OwnNames' /\ \A d \in Conns : Sound(d)'
  <2>1. l \in Line /\ l[1] \in Typed
    BY <1>1, <1>8, TypesAssumption, InputsAssumption DEF Types, Line
  <2>2. l # Registration(c)
    BY <2>1 DEF Registration, Typed
  <2>3. Said(c, l)'
    BY <1>2, <1>3, <2>1 DEF Said
  <2>4. cpc' = [cpc EXCEPT ![c] = "chat"]
    BY <1>1, <1>2, <1>8 DEF Types
  <2> QED
    BY <1>6, <1>8, <2>1, <2>2, <2>3, <2>4 DEF Types
<1> QED
  BY <1>7, <1>8

\* The client closes.
LEMMA EndsSound ==
  ASSUME SysInv, NEW c \in Conns, GivesUp(c) \/ Leaves(c) \/ Crashes(c)
  PROVE  ClientTypes' /\ GoesOn' /\ OwnNames' /\ \A d \in Conns : Sound(d)'
<1> USE DEF shared, mainv, threads
<1>1. /\ TypeOK /\ Sound(c) /\ wire \in [Conns -> Seq(Line)]
      /\ cpc \in [Conns -> ClientLabels]
  BY DEF SysInv, ClientTypes, Inv, TypeInv
<1>2. Hangs(c) /\ plan' = plan /\ cpc[c] \notin {"off", "ended"}
  BY DEF GivesUp, Leaves, Crashes
<1>3. /\ UNCHANGED <<outq, pc, slot, job, sess, running, apc, plan, conn>>
      /\ cpc'[c] = "ended" /\ gone'[c] /\ Moved(c, "ended")
  BY <1>1, <1>2 DEF Hangs, Goes, Moved, TypeOK
<1>4. Served(c)'
  BY <1>3 DEF Served, Staying
<1>5. Told(c)' <=> Told(c)
  BY <1>3 DEF Told
<1>6. \A l : Said(c, l) => Said(c, l)'
  BY <1>3, <1>5 DEF Said, Registration
<1>7. /\ LinesSaid(c)' /\ wire' \in [Conns -> Seq(Line)]
      /\ \A d \in Conns \ {c} : wire'[d] = wire[d]
  <2>1. CASE wire' = wire
    BY <1>1, <1>3, <1>6, <2>1, LinesKept
  <2>2. CASE Leaves(c)
    <3>1. PICK l : l = <<"QUIT">> /\ Sends(c, l)
      BY <2>2 DEF Leaves
    <3>2. l \in Line /\ l # Registration(c)
      BY <3>1, WordTypes, LineTypes DEF Words, Commands, Registration
    <3>3. Told(c)
      BY <1>1, <2>2 DEF Sound, ToldTrue, Leaves
    <3>4. Said(c, l)'
      BY <1>3, <1>5, <3>1, <3>3 DEF Said
    <3> QED
      BY <1>3, <1>6, <3>1, <3>2, <3>4, LinesSent
  <2> QED
    BY <2>1, <2>2 DEF GivesUp, Crashes
<1> QED
  BY <1>2, <1>3, <1>4, <1>7, MovedSound DEF ClientLabels

-----------------------------------------------------------------------------
(* The inductive invariant, and what follows from it.                      *)

\* The server's own invariant holds here too: each step is one of the server's,
\* or a client closes, which concerns neither sessions nor descriptors.
LEMMA ServerInvariant ==
  ASSUME Inv, GoesOn, SysNext
  PROVE  Inv'
<1>1. apc # "exit"
  BY DEF GoesOn
<1>2. CASE Server
  BY <1>1, <1>2, OwnershipStep DEF Server, Next, Environment
<1>3. ASSUME NEW c \in Conns, Reads(c) PROVE Inv'
  <2>1. Head(wire[c]) \in FirstInputs \cup Inputs
    BY <1>3 DEF Reads, Recv
  <2> QED
    BY <1>1, <1>3, <2>1, OwnershipStep DEF Reads, Next
<1>4. ASSUME NEW c \in Conns, ThreadRuns(c) PROVE Inv'
  BY <1>1, <1>4, OwnershipStep DEF Next
<1>5. ASSUME NEW c \in Conns, Dial(c) PROVE Inv'
  BY <1>1, <1>5, OwnershipStep DEF Dial, Next, Environment
<1>6. CASE UNCHANGED vars
  BY <1>6, OwnershipStep
<1>7. ASSUME NEW c \in Conns, Hangs(c) PROVE Inv'
  <2> USE DEF shared, mainv, threads, monitor
  <2>1. TypeInv'
    BY <1>7 DEF Hangs, Inv, TypeInv, TypeOK, Pointers, Holding
  <2>2. Ownership'
    BY <1>7, IdleStep DEF Hangs, Inv, Ownership
  <2> QED
    BY <2>1, <2>2 DEF Inv
<1> QED
  BY <1>2, <1>3, <1>4, <1>5, <1>6, <1>7
  DEF SysNext, Serves, HearsWelcome, HearsAnswer, GivesUp, TypesQuit, Types,
      Leaves, Crashes

\* It holds when the server starts and nobody has dialled.
LEMMA InitSystem == SysInit => SysInv
<1> SUFFICES ASSUME SysInit PROVE SysInv
  OBVIOUS
<1>1. Inv
  BY InitTypes, InitOwnership DEF SysInit, Inv
<1>2. ClientTypes /\ GoesOn
  BY DEF SysInit, Init, ClientTypes, ClientLabels, GoesOn
<1>3. OwnNames
  BY DEF SysInit, Init, OwnNames, EmptySession
<1>4. ASSUME NEW c \in Conns PROVE Sound(c)
  <2>1. /\ wire[c] = <<>> /\ outq[c] = <<>> /\ pc[c] = "none" /\ cpc[c] = "off"
        /\ conn[c] = "idle" /\ ~gone[c]
    BY DEF SysInit, Init
  <2>2. DOMAIN wire[c] = {} /\ DOMAIN outq[c] = {}
    BY <2>1
  <2>3. LinesSaid(c) /\ LineFits(c) /\ ByeLast(c)
    BY <2>1, <2>2 DEF LinesSaid, Serving, LineFits, ByeLast
  <2>4. ToldTrue(c) /\ Served(c)
    BY <2>1, <2>2 DEF ToldTrue, Told, Telling, Served, Holding
  <2> QED
    BY <2>3, <2>4 DEF Sound
<1> QED
  BY <1>1, <1>2, <1>3, <1>4 DEF SysInv

\* Every step of the server and of the clients keeps it.
THEOREM SystemStep == SysInv /\ [SysNext]_sysVars => SysInv'
<1> SUFFICES ASSUME SysInv, [SysNext]_sysVars PROVE SysInv'
  OBVIOUS
<1>1. CASE SysNext
  <2>1. Inv'
    BY <1>1, ServerInvariant DEF SysInv
  <2>2. ClientTypes' /\ GoesOn' /\ OwnNames' /\ \A c \in Conns : Sound(c)'
    <3>1. CASE Server
      BY <2>1, <3>1, ServerSound
    <3>2. ASSUME NEW c \in Conns, Serves(c)
          PROVE  ClientTypes' /\ GoesOn' /\ OwnNames' /\ \A d \in Conns : Sound(d)'
      BY <2>1, <3>2, ReadsSound, ThreadSound DEF Serves
    <3>3. ASSUME NEW c \in Conns, Dial(c) \/ HearsWelcome(c) \/ HearsAnswer(c)
          PROVE  ClientTypes' /\ GoesOn' /\ OwnNames' /\ \A d \in Conns : Sound(d)'
      BY <3>3, RegistersSound
    <3> QED
      BY <1>1, <3>1, <3>2, <3>3, TypingSound, EndsSound DEF SysNext
  <2> QED
    BY <2>1, <2>2 DEF SysInv
<1>2. CASE UNCHANGED sysVars
  <2> USE DEF sysVars, vars, kernel, shared, mainv, threads, monitor, clients
  <2>1. Inv'
    BY <1>2, OwnershipStep DEF SysInv
  <2>2. ClientTypes' /\ GoesOn' /\ OwnNames'
    BY <1>2 DEF SysInv, ClientTypes, GoesOn, OwnNames
  <2>3. ASSUME NEW c \in Conns PROVE Sound(c)'
    BY <1>2
    DEF SysInv, Sound, LinesSaid, Said, Told, Serving, LineFits, ToldTrue,
        Telling, Holding, ByeLast, Served, Staying
  <2> QED
    BY <2>1, <2>2, <2>3 DEF SysInv
<1> QED
  BY <1>1, <1>2

\* It is an invariant.
LEMMA SystemInvariant == SysSpec => []SysInv
BY InitSystem, SystemStep, PTL DEF SysSpec

\* REGISTER_OK is true: whoever chats has its own name in the table of sessions,
\* for as long as its thread keeps the session.
THEOREM WhoChatsIsSeated == SysSpec => []ChattingIsSeated
<1>1. SysInv => ChattingIsSeated
  <2> SUFFICES ASSUME SysInv, NEW c \in Conns, cpc[c] \in {"chat", "quitting"},
                      Holding(c)
               PROVE  sess[slot[c]].is_registered
                      /\ sess[slot[c]].username = NameOf[c]
    BY DEF ChattingIsSeated
  <2>1. sess[slot[c]].is_registered
    BY DEF SysInv, Sound, ToldTrue
  <2> QED
    BY <2>1, OwnPeer DEF SysInv, OwnNames
<1> QED
  BY <1>1, SystemInvariant, PTL

\* BYE is the last answer, and whoever gets it is served no more.
THEOREM ByeEnds == SysSpec => []ByeIsLast
<1>1. SysInv => ByeIsLast
  BY DEF SysInv, Sound, ByeLast, ByeIsLast
<1> QED
  BY <1>1, SystemInvariant, PTL

-----------------------------------------------------------------------------
(* The kinds of steps.                                                     *)

\* Nothing is sent, and a thread that moves is new or has read a line.
Calm ==
  /\ outq' = outq
  /\ \A c \in Conns : \/ pc'[c] = pc[c] /\ job'[c] = job[c]
                      \/ pc[c] \in {"none", "recv"} /\ pc'[c] \in {"start", "touch"}

\* A step sends nothing, or it is the monitor's or a client thread's.
LEMMA StepKinds ==
  ASSUME SysInv, SysNext
  PROVE  \/ Calm
         \/ MonSend /\ UNCHANGED clients
         \/ \E c \in Conns : ThreadRuns(c) /\ UNCHANGED clients
<1> USE DEF kernel, shared, mainv, threads, monitor, vars
<1>1. TypeOK
  BY DEF SysInv, Inv, TypeInv
<1>2. CASE Server
  <2>1. CASE Spawn
    <3>1. pc[Peer(afd)] = "none"
      BY <2>1 DEF SysInv, Inv, Ownership, MainInv, Spawn
    <3>2. \A c \in Conns : pc'[c] = pc[c] \/ (pc[c] = "none" /\ pc'[c] = "start")
      BY <1>1, <2>1, <3>1 DEF Spawn, TypeOK
    <3> QED
      BY <2>1, <3>2 DEF Spawn, Calm
  <2>2. CASE Main /\ ~Spawn
    BY <2>2 DEF Main, Loop, AcceptFails, Add, Find, SpawnFails, SetTid, Drop,
       Close, Shutdown, ShutSessions, Join, Accept, Calm
  <2>3. CASE MonWake \/ MonScan \/ Tick
    BY <2>3 DEF MonWake, MonScan, Tick, Calm
  <2> QED
    BY <1>2, <2>1, <2>2, <2>3 DEF Server, Monitor
<1>3. ASSUME NEW c \in Conns, Reads(c) PROVE Calm
  <2>1. \A d \in Conns : \/ pc'[d] = pc[d] /\ job'[d] = job[d]
                         \/ pc[d] = "recv" /\ pc'[d] = "touch"
    BY <1>1, <1>3 DEF Reads, Recv, Goto, TypeOK
  <2> QED
    BY <1>3, <2>1 DEF Reads, Recv, Calm
<1>4. ASSUME NEW c \in Conns,
             \/ Dial(c) \/ HearsWelcome(c) \/ HearsAnswer(c) \/ GivesUp(c)
             \/ TypesQuit(c) \/ Leaves(c) \/ Crashes(c)
             \/ \E l \in Inputs : Types(c, l)
      PROVE  Calm
  BY <1>4 DEF Dial, Connect, HearsWelcome, HearsAnswer, GivesUp, TypesQuit,
     Leaves, Crashes, Hangs, Types, Calm
<1> QED
  BY <1>2, <1>3, <1>4 DEF SysNext, Serves

\* Who has left does not come back.
LEMMA NobodyReturns ==
  ASSUME SysInv, SysNext, NEW c \in Conns
  PROVE  /\ Staying(c)' => Staying(c)
         /\ pc[c] # "none" => pc'[c] # "none"
<1>1. TypeOK /\ cpc \in [Conns -> ClientLabels]
  BY DEF SysInv, Inv, TypeInv, ClientTypes
<1>2. Staying(c)' => Staying(c)
  <2>1. ASSUME NEW d \in Conns, NEW label, Goes(d, label),
               Staying(d) \/ label \in {"quitting", "ended"}
        PROVE  Staying(c)' => Staying(c)
    BY <1>1, <2>1 DEF Goes, Staying
  <2>2. CASE cpc' = cpc
    BY <2>2 DEF Staying
  <2> QED
    BY <2>1, <2>2
    DEF SysNext, Server, Serves, Reads, clients, Dial, HearsWelcome, HearsAnswer,
        GivesUp, TypesQuit, Leaves, Crashes, Hangs, Types, Staying
<1>3. pc[c] # "none" => pc'[c] # "none"
  <2>1. CASE Calm
    BY <2>1 DEF Calm
  <2>2. CASE MonSend
    BY <2>2 DEF MonSend, threads
  <2>3. ASSUME NEW d \in Conns, ThreadRuns(d), UNCHANGED clients, c # d
        PROVE  pc'[c] = pc[c]
    BY <2>3, Bystanders DEF Stands
  <2>4. CASE ThreadRuns(c)
    BY <1>1, <2>4, Moves
    DEF ThreadRuns, Begin, RecvEnd, Touch, Ping, Quit, Unparsed, Handle,
      HandleRegister, RegAdd, HandleMsg, Deliver, HandleBroadcast, HandleList,
      HandleInfo, InfoGet, HandleStatus, StatusAck, StatusNotify, HandleQuit,
      Reply, Remove, CloseOwn, NextLoop
  <2> QED
    BY <2>1, <2>2, <2>3, <2>4, StepKinds
<1> QED
  BY <1>2, <1>3

-----------------------------------------------------------------------------
(* Counting lines.                                                         *)

\* One line more counts once, if it is of the kind that is counted.
LEMMA CountMore ==
  ASSUME NEW S, NEW q \in Seq(S), NEW m, NEW type, NEW name
  PROVE  /\ Count(q, type, name) \in Nat
         /\ Count(Append(q, m), type, name) =
              IF m[1] = type /\ m[2] = name THEN Count(q, type, name) + 1
                                            ELSE Count(q, type, name)
<1>1. PICK r, n : r = Append(q, m) /\ n = Len(r)
  OBVIOUS
<1>2. /\ DOMAIN q = 1 .. Len(q) /\ Len(q) \in Nat
      /\ DOMAIN r = DOMAIN q \cup {n} /\ n \notin DOMAIN q /\ r[n] = m
      /\ \A k \in DOMAIN q : r[k] = q[k]
  BY <1>1, Appended
<1> DEFINE Counted(p) == {k \in DOMAIN p : p[k][1] = type /\ p[k][2] = name}
<1>3. PICK A : A = Counted(q)
  OBVIOUS
<1>4. IsFiniteSet(A) /\ n \notin A
  <2>1. IsFiniteSet(1 .. Len(q))
    BY <1>2, FS_Interval
  <2> QED
    BY <1>2, <1>3, <2>1, FS_Subset
<1>5. Counted(r) = IF m[1] = type /\ m[2] = name THEN A \cup {n} ELSE A
  BY <1>2, <1>3
<1>6. Cardinality(A) \in Nat /\ Cardinality(A \cup {n}) = Cardinality(A) + 1
  BY <1>4, FS_CardinalityType, FS_AddElement
<1>7. Count(q, type, name) = Cardinality(A)
  BY <1>3 DEF Count
<1>8. Count(r, type, name) = Cardinality(Counted(r))
  BY DEF Count
<1> QED
  BY <1>1, <1>5, <1>6, <1>7, <1>8

-----------------------------------------------------------------------------
(* Messages that were acknowledged.                                        *)

\* MSG goes to a session with the name it asks for.
AddresseeKnown(c) ==
  pc[c] = "deliver" =>
    /\ NameOf[job[c].addressee] = Arg1(job[c].line)
    /\ pc[job[c].addressee] # "none"

\* c is about to be told that its message to d is delivered.
Owing(c, d) == pc[c] = "reply" /\ job[c].reply = <<"MSG_OK", NameOf[d]>>

Owed(c, d) == IF Owing(c, d) THEN 1 ELSE 0

Acked(c, d) == Count(outq[c], "MSG_OK", NameOf[d])
Delivered(c, d) == Count(outq[d], "DELIVER", NameOf[c])

\* What c was told, and is about to be told, is on the wire.
Due(c, d) == Staying(d) => Acked(c, d) + Owed(c, d) <= Delivered(c, d)

TalkInv ==
  /\ \A c \in Conns : AddresseeKnown(c)
  /\ \A c, d \in Conns : Due(c, d)

\* A step that acknowledges nothing to c, and will not, keeps what it is due.
LEMMA DueKept ==
  ASSUME SysInv, SysNext, NEW c \in Conns, NEW d \in Conns, Due(c, d),
         \/ outq'[c] = outq[c]
         \/ \E m : m[1] # "MSG_OK" /\ outq'[c] = Append(outq[c], m),
         outq'[d] = outq[d] \/ \E m : outq'[d] = Append(outq[d], m),
         Owing(c, d)' => Owing(c, d)
  PROVE  Due(c, d)'
<1>1. outq[c] \in Seq(Line) /\ outq[d] \in Seq(Line)
  BY DEF SysInv, Inv, TypeInv, TypeOK
<1>2. Acked(c, d) \in Nat /\ Delivered(c, d) \in Nat
  BY <1>1, CountMore DEF Acked, Delivered
<1>3. Acked(c, d)' = Acked(c, d)
  <2>1. Acked(c, d)' = Count(outq'[c], "MSG_OK", NameOf[d])
    BY DEF Acked
  <2>2. ASSUME NEW m, m[1] # "MSG_OK"
        PROVE  Count(Append(outq[c], m), "MSG_OK", NameOf[d]) = Acked(c, d)
    BY <1>1, <2>2, CountMore DEF Acked
  <2>3. CASE outq'[c] = outq[c]
    BY <2>1, <2>3 DEF Acked
  <2>4. ASSUME NEW m, m[1] # "MSG_OK", outq'[c] = Append(outq[c], m)
        PROVE  Acked(c, d)' = Acked(c, d)
    BY <2>1, <2>2, <2>4
  <2> QED
    BY <2>3, <2>4
<1>4. Delivered(c, d)' = Delivered(c, d) \/ Delivered(c, d)' = Delivered(c, d) + 1
  <2>1. Delivered(c, d)' = Count(outq'[d], "DELIVER", NameOf[c])
    BY DEF Delivered
  <2>2. \A m : Count(Append(outq[d], m), "DELIVER", NameOf[c])
                \in {Delivered(c, d), Delivered(c, d) + 1}
    BY <1>1, CountMore DEF Delivered
  <2> QED
    BY <2>1, <2>2 DEF Delivered
<1>5. Owed(c, d)' \in 0 .. Owed(c, d) /\ Owed(c, d) \in {0, 1}
  BY DEF Owed
<1>6. Staying(d)' => Staying(d)
  BY NobodyReturns
<1> QED
  BY <1>2, <1>3, <1>4, <1>5, <1>6 DEF Due

\* A thread's step sends one line to anybody, and only Reply acknowledges.
LEMMA ThreadSends ==
  ASSUME SysInv, NEW c \in Conns, ThreadRuns(c), NEW d \in Conns
  PROVE  /\ outq'[d] = outq[d] \/ \E m : outq'[d] = Append(outq[d], m)
         /\ ~Reply(c) => \/ outq'[d] = outq[d]
                         \/ \E m : m[1] # "MSG_OK" /\ outq'[d] = Append(outq[d], m)
<1> USE DEF kernel
<1>1. ASSUME NEW F, NEW m, Send(F, m)
      PROVE  outq'[d] = outq[d] \/ outq'[d] = Append(outq[d], m)
  BY <1>1 DEF Send
<1>2. CASE outq' = outq
  BY <1>2
<1>3. CASE Reply(c)
  BY <1>1, <1>3 DEF Reply
<1>4. ASSUME NEW F, NEW m, Send(F, m), m[1] # "MSG_OK"
      PROVE  \/ outq'[d] = outq[d]
             \/ \E k : k[1] # "MSG_OK" /\ outq'[d] = Append(outq[d], k)
  BY <1>1, <1>4
<1>5. CASE \/ Begin(c) \/ Ping(c) \/ Quit(c) \/ Unparsed(c) \/ Deliver(c)
           \/ HandleBroadcast(c) \/ StatusAck(c) \/ StatusNotify(c) \/ HandleQuit(c)
  <2>1. \E F, m : m[1] # "MSG_OK" /\ Send(F, m)
    BY <1>5 DEF Begin, Ping, Quit, Unparsed, Deliver, HandleBroadcast, StatusAck,
       StatusNotify, HandleQuit, SendLine, Error
  <2> QED
    BY <1>4, <2>1
<1> QED
  BY <1>2, <1>3, <1>5
  DEF ThreadRuns, RecvEnd, Touch, Handle, HandleRegister, RegAdd, HandleMsg,
      HandleList, HandleInfo, InfoGet, HandleStatus, Remove, CloseOwn

\* Only Deliver is followed by an acknowledgement.
LEMMA OwingAfter ==
  ASSUME SysInv, NEW c \in Conns, ThreadRuns(c), ~Deliver(c), NEW d \in Conns
  PROVE  ~Owing(c, d)'
<1>1. TypeOK /\ running
  BY DEF SysInv, Inv, TypeInv, GoesOn
<1>2. ASSUME NEW m, m[1] # "MSG_OK", Answer(c, m) PROVE ~Owing(c, d)'
  BY <1>1, <1>2, AnswerFields DEF Owing
<1>3. CASE pc'[c] # "reply"
  BY <1>3 DEF Owing
<1>4. CASE HandleList(c)
  BY <1>1, <1>2, <1>4, ListFirst DEF HandleList
<1>5. CASE \/ HandleRegister(c) \/ RegAdd(c) \/ HandleMsg(c) \/ HandleBroadcast(c)
           \/ HandleInfo(c) \/ InfoGet(c) \/ HandleStatus(c)
  <2>1. ASSUME NEW l, l # "reply", Goto(c, l) PROVE pc'[c] # "reply"
    BY <1>1, <2>1, Moves
  <2>2. \A op, code : Error(op, code)[1] = "ERROR"
    BY DEF Error
  <2>3. CASE HandleRegister(c)
    BY <1>2, <1>3, <2>1, <2>2, <2>3 DEF HandleRegister
  <2>4. CASE RegAdd(c)
    BY <1>2, <2>4 DEF RegAdd
  <2>5. CASE HandleMsg(c)
    BY <1>2, <1>3, <2>1, <2>2, <2>5 DEF HandleMsg
  <2>6. CASE HandleBroadcast(c)
    BY <1>2, <2>6 DEF HandleBroadcast
  <2>7. CASE HandleInfo(c)
    BY <1>2, <1>3, <2>1, <2>2, <2>7 DEF HandleInfo
  <2>8. CASE InfoGet(c)
    BY <1>2, <2>2, <2>8 DEF InfoGet
  <2>9. CASE HandleStatus(c)
    BY <1>2, <1>3, <2>1, <2>2, <2>9 DEF HandleStatus
  <2> QED
    BY <1>5, <2>3, <2>4, <2>5, <2>6, <2>7, <2>8, <2>9
<1>6. CASE \/ Begin(c) \/ RecvEnd(c) \/ Touch(c) \/ Ping(c) \/ Quit(c) \/ Unparsed(c)
           \/ StatusAck(c) \/ StatusNotify(c) \/ HandleQuit(c) \/ Reply(c)
           \/ Remove(c) \/ CloseOwn(c)
  <2>1. \E l : l # "reply" /\ Goto(c, l)
    <3>1. CASE Begin(c) \/ Ping(c) \/ Unparsed(c)
      BY <3>1 DEF Begin, Ping, Unparsed, SendLine, NextLoop
    <3>2. CASE ~(Begin(c) \/ Ping(c) \/ Unparsed(c))
      BY <1>6, <3>2 DEF RecvEnd, Touch, Quit, StatusAck, StatusNotify, HandleQuit,
         Reply, Remove, CloseOwn, NextLoop
    <3> QED
      BY <3>1, <3>2
  <2> QED
    BY <1>1, <1>3, <2>1, Moves
<1> QED
  BY <1>4, <1>5, <1>6 DEF ThreadRuns, Handle

\* The name under which c speaks.
LEMMA SpeaksAs ==
  ASSUME SysInv, NEW c \in Conns, Serving(c), job[c].line[1] \in Typed
  PROVE  /\ Told(c) /\ sess[slot[c]].is_registered /\ sess[slot[c]].username = NameOf[c]
         /\ cpc[c] \in {"chat", "quitting", "ended"}
<1>1. Said(c, job[c].line) /\ Holding(c)
  BY DEF SysInv, Sound, LinesSaid, Serving, Holding
<1>2. job[c].line # Registration(c) /\ job[c].line # <<"QUIT">>
  BY DEF Registration, Typed
<1>3. Told(c) /\ cpc[c] \in {"chat", "quitting", "ended"}
  BY <1>1, <1>2 DEF Said
<1>4. sess[slot[c]].is_registered
  BY <1>1, <1>3 DEF SysInv, Sound, ToldTrue
<1> QED
  BY <1>1, <1>3, <1>4, OwnPeer DEF SysInv, OwnNames

\* MSG finds the client of the name.
LEMMA AddresseeFound ==
  ASSUME SysInv, NEW c \in Conns, HandleMsg(c), pc'[c] = "deliver"
  PROVE  AddresseeKnown(c)'
<1>1. TypeOK
  BY DEF SysInv, Inv, TypeInv
<1> DEFINE name == Arg1(job[c].line)
<1>2. PICK s : s = FindByUsername(sess, name)
  OBVIOUS
<1>3. FindUserFd(sess, name) # NoFd
  BY <1>1, Moves DEF HandleMsg
<1>4. s \in Slots /\ sess[s].is_active /\ sess[s].is_registered /\ sess[s].username = name
  <2> DEFINE found == {r \in Registered(sess) : sess[r].username = name}
  <2>1. s # NoSlot
    BY <1>2, <1>3 DEF FindUserFd
  <2>2. s = Lowest(found) /\ found # {}
    BY <1>2, <2>1 DEF FindByUsername, Lowest
  <2>3. s \in found
    BY <2>1, <2>2, LowestIn DEF Registered
  <2> QED
    BY <2>3 DEF Registered
<1>5. sess[s].addr \in Conns
  BY <1>4 DEF SysInv, Inv, Ownership, SlotInv
<1>6. NameOf[sess[s].addr] = name /\ pc[sess[s].addr] # "none"
  BY <1>4 DEF SysInv, OwnNames
<1>7. job'[c].addressee = sess[s].addr /\ job'[c].line = job[c].line
  BY <1>1, <1>2, <1>3 DEF HandleMsg, TypeOK, Job
<1>8. pc'[sess[s].addr] # "none"
  BY <1>1, <1>5, <1>6, Moves DEF HandleMsg
<1> QED
  BY <1>6, <1>7, <1>8 DEF AddresseeKnown

\* No two users call themselves the same.
DistinctNames == \A c, d \in Conns : NameOf[c] = NameOf[d] => c = d

\* A user who is still there, and whom the server knows, can be reached.
LEMMA StayingOpen ==
  ASSUME SysInv, NEW d \in Conns, Staying(d), pc[d] # "none"
  PROVE  conn[d] # "closed" /\ ~gone[d] /\ Holding(d)
BY DEF SysInv, Sound, Served, Holding

\* DELIVER comes to the addressee before the acknowledgement is made up.
LEMMA DeliverPays ==
  ASSUME SysInv, SysNext, DistinctNames, NEW c \in Conns, Deliver(c),
         UNCHANGED clients, AddresseeKnown(c), NEW d \in Conns, Due(c, d)
  PROVE  Due(c, d)'
<1> USE DEF shared
<1>1. /\ TypeOK /\ Serving(c) /\ pc[c] = "deliver" /\ ThreadRuns(c) /\ ~Reply(c)
      /\ job[c].addressee \in Conns /\ StrayOnlyAfterClose
  BY DEF SysInv, Inv, TypeInv, Serving, Deliver, ThreadRuns, Handle, Reply,
         Ownership, ThreadInv
<1>2. PICK l, a : l = job[c].line /\ a = job[c].addressee
  OBVIOUS
<1>3. l[1] = "MSG" /\ a \in Conns /\ NameOf[a] = Arg1(l) /\ pc[a] # "none"
  BY <1>1, <1>2 DEF SysInv, Sound, LineFits, AddresseeKnown
<1>4. pc'[c] = "reply" /\ job'[c].reply = <<"MSG_OK", Arg1(l)>>
  BY <1>1, <1>2, Moves DEF Deliver, TypeOK, Job
<1>5. Owing(c, d)' => d = a
  BY <1>3, <1>4 DEF Owing, DistinctNames
<1>6. CASE ~Owing(c, d)'
  BY <1>1, <1>6, ThreadSends, DueKept
<1>7. CASE Owing(c, d)' /\ Staying(d)
  <2>1. d = a /\ ~Owing(c, d)
    BY <1>1, <1>5, <1>7 DEF Owing
  <2>0. PICK f : f = job[c].dst
    OBVIOUS
  <2>2. Peer(f) = d /\ ~gone[d]
    BY <1>1, <1>2, <1>3, <1>7, <2>0, <2>1, StayingOpen DEF StrayOnlyAfterClose
  <2>3. sess[slot[c]].username = NameOf[c]
    BY <1>1, <1>2, <1>3, SpeaksAs DEF Typed
  <2>4. PICK m : m[1] = "DELIVER" /\ m[2] = NameOf[c] /\ Send({f}, m)
    BY <2>0, <2>3 DEF Deliver
  <2>5. outq[c] \in Seq(Line) /\ outq[d] \in Seq(Line)
    BY <1>1 DEF TypeOK
  <2>6. outq'[d] = Append(outq[d], m) /\ \A e \in Conns \ {d} : outq'[e] = outq[e]
    <3>1. Send({f}, m)
      BY <2>4
    <3> QED
      BY <1>1, <2>2, <3>1, OwnSend
  <2>7. Delivered(c, d)' = Delivered(c, d) + 1 /\ Delivered(c, d) \in Nat
    BY <2>4, <2>5, <2>6, CountMore DEF Delivered
  <2>8. Acked(c, d)' = Acked(c, d) /\ Acked(c, d) \in Nat
    <3>1. CASE outq'[c] = Append(outq[c], m)
      <4>1. Acked(c, d)' = Count(Append(outq[c], m), "MSG_OK", NameOf[d])
        BY <3>1 DEF Acked
      <4>2. m[1] # "MSG_OK"
        BY <2>4
      <4> QED
        BY <2>5, <4>1, <4>2, CountMore DEF Acked
    <3>2. CASE outq'[c] = outq[c]
      BY <2>5, <3>2, CountMore DEF Acked
    <3> QED
      BY <2>6, <3>1, <3>2
  <2>9. Acked(c, d) <= Delivered(c, d)
    BY <1>7, <2>1, <2>7, <2>8 DEF Due, Owed
  <2>10. Owed(c, d)' = 1
    BY <1>7 DEF Owed
  <2> QED
    BY <2>7, <2>8, <2>9, <2>10 DEF Due
<1>8. CASE ~Staying(d)
  BY <1>8, NobodyReturns DEF Due
<1> QED
  BY <1>6, <1>7, <1>8

\* The acknowledgement is what was owed.
LEMMA ReplyPays ==
  ASSUME SysInv, SysNext, NEW c \in Conns, Reply(c), UNCHANGED clients,
         NEW d \in Conns, Due(c, d)
  PROVE  Due(c, d)'
<1>1. TypeOK /\ pc[c] = "reply" /\ ThreadRuns(c)
  BY DEF SysInv, Inv, TypeInv, Reply, ThreadRuns, Handle
<1>2. ~Owing(c, d)'
  BY ReplySent DEF Owing
<1>3. outq'[d] = outq[d] \/ \E m : outq'[d] = Append(outq[d], m)
  BY <1>1, ThreadSends
<1>4. PICK r : r = job[c].reply
  OBVIOUS
<1>5. outq'[c] = outq[c] \/ outq'[c] = Append(outq[c], r)
  BY <1>4, ReplySent
<1>6. CASE r[1] # "MSG_OK" \/ outq'[c] = outq[c]
  BY <1>2, <1>3, <1>5, <1>6, DueKept
<1>7. CASE r[1] = "MSG_OK" /\ outq'[c] = Append(outq[c], r)
  <2>1. PICK n : r = <<"MSG_OK", n>>
    BY <1>1, <1>4, <1>7 DEF SysInv, Sound, LineFits
  <2>2. outq[c] \in Seq(Line) /\ outq[d] \in Seq(Line)
    BY <1>1 DEF TypeOK
  <2>3. Acked(c, d)' = Acked(c, d) + Owed(c, d)
    <3>1. Acked(c, d)' = IF n = NameOf[d] THEN Acked(c, d) + 1 ELSE Acked(c, d)
      <4>1. Acked(c, d)' = Count(Append(outq[c], r), "MSG_OK", NameOf[d])
        BY <1>7, Zenon DEF Acked
      <4>2. r[1] = "MSG_OK" /\ r[2] = n
        BY <2>1
      <4>3. Count(Append(outq[c], r), "MSG_OK", NameOf[d])
              = IF n = NameOf[d] THEN Count(outq[c], "MSG_OK", NameOf[d]) + 1
                                 ELSE Count(outq[c], "MSG_OK", NameOf[d])
        BY <2>2, <4>2, CountMore
      <4> QED
        BY <4>1, <4>3, Zenon DEF Acked
    <3>2. Owing(c, d) <=> n = NameOf[d]
      BY <1>1, <1>4, <2>1 DEF Owing
    <3>3. Acked(c, d) \in Nat
      BY <2>2, CountMore DEF Acked
    <3> QED
      BY <3>1, <3>2, <3>3 DEF Owed
  <2>4. Delivered(c, d)' \in {Delivered(c, d), Delivered(c, d) + 1}
    <3>1. Delivered(c, d)' = Count(outq'[d], "DELIVER", NameOf[c])
      BY DEF Delivered
    <3>2. \A m : Count(Append(outq[d], m), "DELIVER", NameOf[c])
                  \in {Delivered(c, d), Delivered(c, d) + 1}
      BY <2>2, CountMore DEF Delivered
    <3> QED
      BY <1>3, <3>1, <3>2 DEF Delivered
  <2>5. Acked(c, d) \in Nat /\ Delivered(c, d) \in Nat /\ Owed(c, d) \in {0, 1}
    BY <2>2, CountMore DEF Acked, Delivered, Owed
  <2>6. Owed(c, d)' = 0
    BY <1>2 DEF Owed
  <2>7. Staying(d)' => Acked(c, d) + Owed(c, d) <= Delivered(c, d)
    BY NobodyReturns DEF Due
  <2> QED
    BY <2>3, <2>4, <2>5, <2>6, <2>7 DEF Due
<1> QED
  BY <1>5, <1>6, <1>7

\* Every step keeps what is known of an addressee.
LEMMA AddresseeStep ==
  ASSUME SysInv, SysNext, NEW c \in Conns, AddresseeKnown(c)
  PROVE  AddresseeKnown(c)'
<1> USE DEF threads
<1>1. TypeOK /\ (pc[c] = "deliver" => job[c].addressee \in Conns)
  BY DEF SysInv, Inv, TypeInv, Ownership, ThreadInv
<1>2. CASE pc'[c] = pc[c] /\ job'[c] = job[c]
  BY <1>1, <1>2, NobodyReturns DEF AddresseeKnown
<1>3. CASE pc'[c] # "deliver"
  BY <1>3 DEF AddresseeKnown
<1>4. CASE Calm
  BY <1>2, <1>3, <1>4 DEF Calm
<1>5. CASE MonSend
  BY <1>2, <1>5 DEF MonSend
<1>6. ASSUME NEW e \in Conns, ThreadRuns(e), UNCHANGED clients, e # c
      PROVE  AddresseeKnown(c)'
  BY <1>2, <1>6, Bystanders DEF Stands
<1>7. CASE ThreadRuns(c)
  <2>1. CASE HandleMsg(c)
    BY <1>3, <2>1, AddresseeFound
  <2>2. CASE ~HandleMsg(c)
    <3>1. \E l : l # "deliver" /\ Goto(c, l)
      BY <1>7, <2>2
      DEF ThreadRuns, Begin, RecvEnd, Touch, Ping, Quit, Unparsed, Handle,
          HandleRegister, RegAdd, Deliver, HandleBroadcast, HandleList,
          HandleInfo, InfoGet, HandleStatus, StatusAck, StatusNotify, HandleQuit,
          Reply, Remove, CloseOwn, NextLoop, SendLine, Answer
    <3> QED
      BY <1>1, <1>3, <3>1, Moves
  <2> QED
    BY <2>1, <2>2
<1> QED
  BY <1>4, <1>5, <1>6, <1>7, StepKinds

\* Every step keeps what is due.
LEMMA DueStep ==
  ASSUME SysInv, SysNext, DistinctNames, NEW c \in Conns, NEW d \in Conns,
         AddresseeKnown(c), Due(c, d)
  PROVE  Due(c, d)'
<1> USE DEF threads
<1>1. TypeOK
  BY DEF SysInv, Inv, TypeInv
<1>2. CASE Calm
  BY <1>2, DueKept DEF Calm, Owing
<1>3. CASE MonSend
  <2>1. PICK F, m : m[1] = "STATUS_CHANGED" /\ Send(F, m)
    BY <1>3 DEF MonSend
  <2>2. \A e \in Conns : outq'[e] = outq[e] \/ outq'[e] = Append(outq[e], m)
    BY <2>1 DEF Send
  <2>3. Owing(c, d)' => Owing(c, d)
    BY <1>3 DEF MonSend, Owing
  <2> QED
    BY <2>1, <2>2, <2>3, DueKept
<1>4. ASSUME NEW e \in Conns, ThreadRuns(e), UNCHANGED clients PROVE Due(c, d)'
  <2>1. CASE e = c /\ Deliver(c)
    BY <1>4, <2>1, DeliverPays
  <2>2. CASE e = c /\ Reply(c)
    BY <1>4, <2>2, ReplyPays
  <2>3. CASE e = c /\ ~Deliver(c) /\ ~Reply(c)
    <3>1. ~Owing(c, d)'
      BY <1>4, <2>3, OwingAfter
    <3> QED
      BY <1>4, <2>3, <3>1, ThreadSends, DueKept
  <2>4. CASE e # c
    <3>1. Stands(c)
      BY <1>4, <2>4, Bystanders
    <3>2. Owing(c, d)' => Owing(c, d)
      BY <3>1 DEF Stands, Owing
    <3>3. \/ outq'[c] = outq[c]
          \/ \E m : m[1] # "MSG_OK" /\ outq'[c] = Append(outq[c], m)
      BY <3>1 DEF Stands, Hears, IsEvent, EventKinds
    <3>4. outq'[d] = outq[d] \/ \E m : outq'[d] = Append(outq[d], m)
      BY <1>4, ThreadSends
    <3> QED
      BY <3>2, <3>3, <3>4, DueKept
  <2> QED
    BY <2>1, <2>2, <2>3, <2>4
<1> QED
  BY <1>2, <1>3, <1>4, StepKinds

\* At first nobody was told anything, and every step keeps TalkInv.
LEMMA TalkHolds ==
  /\ SysInit => TalkInv
  /\ DistinctNames /\ SysInv /\ TalkInv /\ [SysNext]_sysVars => TalkInv'
<1>1. ASSUME SysInit PROVE TalkInv
  <2>1. \A c \in Conns : outq[c] = <<>> /\ pc[c] = "none"
    BY <1>1 DEF SysInit, Init
  <2>2. ASSUME NEW c \in Conns, NEW d \in Conns PROVE Due(c, d)
    <3>1. outq[c] = <<>> /\ outq[d] = <<>> /\ Owed(c, d) = 0
      BY <2>1 DEF Owed, Owing
    <3>2. \A type, name : Count(<<>>, type, name) = 0
      <4> SUFFICES ASSUME NEW type, NEW name PROVE Count(<<>>, type, name) = 0
        OBVIOUS
      <4>1. {k \in DOMAIN <<>> : <<>>[k][1] = type /\ <<>>[k][2] = name} = {}
        OBVIOUS
      <4> QED
        BY <4>1, FS_EmptySet DEF Count
    <3>3. Acked(c, d) = 0 /\ Delivered(c, d) = 0
      BY <3>1, <3>2 DEF Acked, Delivered
    <3> QED
      BY <3>1, <3>3 DEF Due
  <2> QED
    BY <2>1, <2>2 DEF TalkInv, AddresseeKnown
<1>2. ASSUME DistinctNames, SysInv, TalkInv, [SysNext]_sysVars PROVE TalkInv'
  <2>1. CASE SysNext
    BY <1>2, <2>1, AddresseeStep, DueStep DEF TalkInv
  <2>2. CASE UNCHANGED sysVars
    BY <1>2, <2>2
    DEF sysVars, vars, clients, kernel, threads, TalkInv, AddresseeKnown, Due,
        Staying, Acked, Delivered, Owed, Owing, Count
  <2> QED
    BY <1>2, <2>1, <2>2
<1> QED
  BY <1>1, <1>2

\* For every message that was acknowledged one is on the wire, as long as its
\* addressee is there, if no two users call themselves the same
\* (handlers.c:71-89).
THEOREM AckedMessagesArrive ==
  ASSUME DistinctNames
  PROVE  SysSpec => []AckedArrives
<1>1. ASSUME SysInv, TalkInv PROVE AckedArrives
  <2> SUFFICES ASSUME NEW c \in Conns, NEW d \in Conns, cpc[d] = "chat"
               PROVE  Acked(c, d) <= Delivered(c, d)
    BY DEF AckedArrives, Acked, Delivered
  <2>1. outq[c] \in Seq(Line) /\ outq[d] \in Seq(Line)
    BY <1>1 DEF SysInv, Inv, TypeInv, TypeOK
  <2>2. Acked(c, d) \in Nat /\ Delivered(c, d) \in Nat /\ Owed(c, d) \in {0, 1}
    BY <2>1, CountMore DEF Acked, Delivered, Owed
  <2>3. Acked(c, d) + Owed(c, d) <= Delivered(c, d)
    BY <1>1 DEF TalkInv, Due, Staying
  <2> QED
    BY <2>2, <2>3
<1>2. DistinctNames
  OBVIOUS
<1> QED
  BY <1>1, <1>2, SystemInvariant, TalkHolds, PTL DEF SysSpec

-----------------------------------------------------------------------------
(* The last line of a kind.                                                *)

\* A set of places in a line has a last one.
LEMMA LastOne ==
  ASSUME NEW n \in Nat, NEW A \in SUBSET (1 .. n), A # {}
  PROVE  Last(A) \in A
<1> DEFINE Less == {p \in Nat \X Nat : p[1] < p[2]}
           Behind == {t \in 0 .. n : \E k \in A : t = n - k}
<1>1. IsWellFoundedOn(Less, Nat)
  BY NatLessThanWellFounded, Zenon DEF OpToRel
<1>2. Behind \subseteq Nat /\ Behind # {}
  <2>1. PICK k \in A : TRUE
    OBVIOUS
  <2>2. k \in 1 .. n /\ n - k \in 0 .. n
    BY <2>1
  <2> QED
    BY <2>1, <2>2
<1> HIDE DEF Behind
<1>3. PICK t \in Behind : \A u \in Behind : ~(<<u, t>> \in Less)
  BY <1>1, <1>2, WFMin
<1>4. PICK k \in A : t = n - k
  BY <1>3 DEF Behind
<1>5. ASSUME NEW j \in A PROVE j <= k
  <2>1. j \in 1 .. n /\ k \in 1 .. n
    OBVIOUS
  <2>2. n - j \in Behind
    BY <2>1 DEF Behind
  <2>3. ~(n - j < n - k)
    <3>1. n - j \in Nat /\ n - k \in Nat
      BY <2>1
    <3> QED
      BY <1>3, <1>4, <2>2, <3>1
  <2> QED
    BY <2>1, <2>3
<1> QED
  BY <1>5, Zenon DEF Last

\* A place behind them comes last.
LEMMA NewOne ==
  ASSUME NEW n \in Nat, NEW A \in SUBSET (1 .. n), NEW B, B = A \cup {n + 1}
  PROVE  Last(B) = n + 1
<1>1. B \in SUBSET (1 .. n + 1) /\ n + 1 \in Nat /\ B # {}
  OBVIOUS
<1>2. PICK k : k = n + 1
  OBVIOUS
<1>3. k \in B /\ \A j \in B : j <= k
  BY <1>2
<1>4. Last(B) \in B /\ \A j \in B : j <= Last(B)
  BY <1>1, <1>3, Zenon DEF Last
<1>5. Last(B) \in 1 .. n + 1 /\ k <= Last(B)
  BY <1>1, <1>3, <1>4
<1> QED
  BY <1>2, <1>5

IsAck(m) == m[1] \in {"STATUS_OK", "REGISTER_OK"}

\* The confirmation that c shows is the last one; nothing else changes it.
LEMMA ShownAfter ==
  ASSUME TypeOK, NEW c \in Conns, NEW m, outq'[c] = Append(outq[c], m)
  PROVE  /\ IsAck(m) => Acks(c)' = Acks(c) \cup {Len(outq'[c])} /\ Shown(c)' = StatusOf(m)
         /\ ~IsAck(m) => /\ Acks(c)' = Acks(c)
                         /\ Acks(c) # {} => Shown(c)' = Shown(c)
<1>1. PICK q \in Seq(Line) : q = outq[c]
  BY DEF TypeOK
<1>2. PICK r, n, A : r = Append(q, m) /\ n = Len(r) /\ A = Acks(c)
  OBVIOUS
<1>3. /\ DOMAIN r = DOMAIN q \cup {n} /\ r[n] = m
      /\ DOMAIN q = 1 .. Len(q) /\ n = Len(q) + 1 /\ Len(q) \in Nat
      /\ \A k \in DOMAIN q : r[k] = q[k]
  BY <1>1, <1>2, Appended
<1>4. A = {k \in DOMAIN q : IsAck(q[k])}
  BY <1>1, <1>2 DEF Acks, IsAck
<1>5. outq'[c] = r
  BY <1>1, <1>2
<1>6. Acks(c)' = {k \in DOMAIN r : IsAck(r[k])}
  BY <1>5 DEF Acks, IsAck
<1>7. A \in SUBSET (DOMAIN q) /\ Acks(c)' = IF IsAck(m) THEN A \cup {n} ELSE A
  BY <1>3, <1>4, <1>6
<1>8. Shown(c) = StatusOf(q[Last(A)]) /\ Shown(c)' = StatusOf(r[Last(Acks(c)')])
  BY <1>1, <1>2, <1>5 DEF Shown
<1>9. /\ A # {} => r[Last(A)] = q[Last(A)]
      /\ Last(A \cup {n}) = n /\ r[n] = m
  <2>1. A \in SUBSET (1 .. Len(q))
    BY <1>3, <1>7
  <2>2. A # {} => Last(A) \in A
    BY <1>3, <2>1, LastOne
  <2>3. Last(A \cup {n}) = n
    BY <1>3, <2>1, NewOne
  <2> QED
    BY <1>3, <2>1, <2>2, <2>3
<1>10. CASE IsAck(m)
  BY <1>2, <1>5, <1>7, <1>8, <1>9, <1>10
<1>11. CASE ~IsAck(m)
  BY <1>2, <1>7, <1>8, <1>9, <1>11
<1> QED
  BY <1>10, <1>11

\* The places at which d has heard of a status of c.
HeardOf(c, d) ==
  {k \in DOMAIN outq[d] : outq[d][k][1] = "STATUS_CHANGED" /\ outq[d][k][2] = NameOf[c]}

LastHeard(c, d) == StatusOf(outq[d][Last(HeardOf(c, d))])

IsAbout(c, m) == m[1] = "STATUS_CHANGED" /\ m[2] = NameOf[c]

\* What d has heard of c last is the last that was about c.
LEMMA HeardAfter ==
  ASSUME TypeOK, NEW c \in Conns, NEW d \in Conns, NEW m, outq'[d] = Append(outq[d], m)
  PROVE  /\ IsAbout(c, m) => HeardOf(c, d)' # {} /\ LastHeard(c, d)' = StatusOf(m)
         /\ ~IsAbout(c, m) =>
              /\ HeardOf(c, d)' = HeardOf(c, d)
              /\ HeardOf(c, d) # {} => LastHeard(c, d)' = LastHeard(c, d)
<1>1. PICK q \in Seq(Line) : q = outq[d]
  BY DEF TypeOK
<1>2. PICK r, n, A : r = Append(q, m) /\ n = Len(r) /\ A = HeardOf(c, d)
  OBVIOUS
<1>3. /\ DOMAIN r = DOMAIN q \cup {n} /\ r[n] = m
      /\ DOMAIN q = 1 .. Len(q) /\ n = Len(q) + 1 /\ Len(q) \in Nat
      /\ \A k \in DOMAIN q : r[k] = q[k]
  BY <1>1, <1>2, Appended
<1>4. A = {k \in DOMAIN q : IsAbout(c, q[k])}
  BY <1>1, <1>2 DEF HeardOf, IsAbout
<1>5. outq'[d] = r
  BY <1>1, <1>2
<1>6. HeardOf(c, d)' = {k \in DOMAIN r : IsAbout(c, r[k])}
  BY <1>5 DEF HeardOf, IsAbout
<1>7. /\ A \in SUBSET (DOMAIN q)
      /\ HeardOf(c, d)' = IF IsAbout(c, m) THEN A \cup {n} ELSE A
  BY <1>3, <1>4, <1>6
<1>8. /\ LastHeard(c, d) = StatusOf(q[Last(A)])
      /\ LastHeard(c, d)' = StatusOf(r[Last(HeardOf(c, d)')])
  BY <1>1, <1>2, <1>5 DEF LastHeard
<1>9. /\ A # {} => r[Last(A)] = q[Last(A)]
      /\ Last(A \cup {n}) = n /\ r[n] = m
  <2>1. A \in SUBSET (1 .. Len(q))
    BY <1>3, <1>7
  <2>2. A # {} => Last(A) \in A
    BY <1>3, <2>1, LastOne
  <2>3. Last(A \cup {n}) = n
    BY <1>3, <2>1, NewOne
  <2> QED
    BY <1>3, <2>1, <2>2, <2>3
<1>10. CASE IsAbout(c, m)
  BY <1>2, <1>5, <1>7, <1>8, <1>9, <1>10
<1>11. CASE ~IsAbout(c, m)
  BY <1>2, <1>7, <1>8, <1>9, <1>11
<1> QED
  BY <1>10, <1>11

-----------------------------------------------------------------------------
(* Who has a registered session.                                           *)

Seated(d) == Holding(d) /\ sess[slot[d]].is_registered

\* A registered session is the one that its client's thread holds.
LEMMA SeatedOne ==
  ASSUME SysInv, NEW s \in Slots, sess[s].is_active, sess[s].is_registered
  PROVE  sess[s].addr \in Conns /\ Seated(sess[s].addr) /\ slot[sess[s].addr] = s
<1>1. PICK d \in Conns : d = sess[s].addr /\ Peer(sess[s].sockfd) = d
  BY DEF SysInv, Inv, Ownership, SlotInv
<1>2. pc[d] # "none"
  BY <1>1 DEF SysInv, OwnNames
<1>3. ~MainHolds(s)
  BY <1>1, <1>2 DEF SysInv, Inv, Ownership, MainInv, MainHolds
<1> QED
  BY <1>1, <1>3 DEF SysInv, Inv, Ownership, SlotInv, Seated

\* A client has one session.
LEMMA OneSession ==
  ASSUME SysInv, NEW r \in Slots, NEW s \in Slots,
         sess[r].is_active, sess[s].is_active, sess[r].addr = sess[s].addr
  PROVE  r = s
<1>1. /\ sess[r].addr \in Conns /\ Peer(sess[r].sockfd) = sess[r].addr
      /\ Peer(sess[s].sockfd) = sess[r].addr
  BY DEF SysInv, Inv, Ownership, SlotInv
<1>2. sess[r].sockfd = sess[s].sockfd
  BY <1>1, NoConnAssumption DEF SysInv, Inv, Ownership, TableInv, Peer
<1> QED
  BY <1>2 DEF SysInv, Inv, Ownership, SlotInv

\* Sessions keep what they say of their clients, unless one is made or named.
LEMMA SessionSteps ==
  ASSUME SysInv, SysNext
  PROVE  Survive \/ Add \/ \E c \in Conns : RegAdd(c)
<1>1. CASE Server
  <2>1. CASE Main /\ ~Add /\ ~Spawn
    BY <1>1, <2>1, MainAside DEF Server
  <2>2. CASE Monitor
    BY <1>1, <2>2, MonitorAside DEF Server
  <2>3. CASE Tick \/ Spawn
    BY <2>3 DEF Tick, Spawn, shared, Survive
  <2> QED
    BY <1>1, <2>1, <2>2, <2>3 DEF Server, Main
<1>2. ASSUME NEW c \in Conns, ThreadRuns(c) PROVE Survive \/ RegAdd(c)
  BY <1>2, ThreadSurvive
<1>3. CASE UNCHANGED sess
  BY <1>3 DEF Survive
<1> QED
  BY <1>1, <1>2, <1>3
  DEF SysNext, Serves, Reads, Recv, Dial, Connect, HearsWelcome, HearsAnswer,
      GivesUp, TypesQuit, Leaves, Crashes, Hangs, Types, vars, shared

\* Who is registered stays so.
LEMMA SeatedKept ==
  ASSUME SysInv, SysInv', SysNext, NEW d \in Conns, Staying(d)', Seated(d)
  PROVE  Seated(d)'
<1>1. pc[d] # "none" /\ slot[d] \in Slots /\ sess[slot[d]].is_active
      /\ sess[slot[d]].addr = d
  BY OwnPeer DEF Seated, Holding
<1>2. pc'[d] # "none"
  BY <1>1, NobodyReturns
<1>3. Holding(d)'
  BY <1>2 DEF SysInv, Sound, Served, Holding
<1>4. PICK s \in Slots : /\ s = slot'[d] /\ sess'[s].is_active
                         /\ sess'[s].addr = d
  BY <1>3 DEF SysInv, Inv, Ownership, ThreadInv
<1>5. CASE Survive
  <2>1. /\ sess[s].is_active /\ sess[s].addr = d
        /\ sess'[s].is_registered = sess[s].is_registered
    BY <1>4, <1>5 DEF Survive
  <2>2. s = slot[d]
    BY <1>1, <2>1, OneSession
  <2> QED
    BY <1>3, <1>4, <2>1, <2>2 DEF Seated
<1>6. CASE Add
  <2>1. /\ slot'[d] = slot[d] /\ TypeOK
        /\ slot[d] \in Slots => slot[d] # FreeSlot(sess)
    BY <1>1, <1>6, FreeSlotFound DEF Add, threads, SysInv, Inv, TypeInv
  <2>2. sess'[slot[d]] = sess[slot[d]]
    BY <1>1, <1>6, <2>1 DEF Add, TypeOK
  <2> QED
    BY <1>3, <2>1, <2>2 DEF Seated
<1>7. ASSUME NEW c \in Conns, RegAdd(c) PROVE Seated(d)'
  <2>1. slot'[d] = slot[d]
    BY <1>7 DEF RegAdd
  <2>2. sess'[slot[d]].is_registered
    BY <1>1, <1>7, RegAddSession DEF Seated
  <2> QED
    BY <1>3, <2>1, <2>2 DEF Seated
<1> QED
  BY <1>5, <1>6, <1>7, SessionSteps

-----------------------------------------------------------------------------
(* What others know of a user's status.                                    *)

\* Nobody is called what the monitor calls those who have not registered.
NobodyUnregistered == \A c \in Conns : NameOf[c] # "UNREGISTERED"

\* A notice has its owner's name, if the owner is registered.
NoteNamed(n) ==
  \/ n.user = "UNREGISTERED"
  \/ n.user = NameOf[n.owner] /\ pc[n.owner] # "none"

\* Once d has heard of c, it hears of every status that c was confirmed.
Agree(c, d) ==
  c # d /\ Staying(c) /\ Staying(d) =>
    /\ HeardOf(c, d) # {} =>
         /\ Told(c) /\ Seated(d)
         /\ pc[c] # "status_notify" => LastHeard(c, d) = Shown(c)
    /\ pc[c] = "status_notify" => Shown(c) = Arg1(job[c].line)

AgreeInv ==
  /\ \A n \in notes : NoteNamed(n)
  /\ \A c, d \in Conns : Agree(c, d)

\* Who was told that it is registered has a confirmation to show.
LEMMA ToldAcks ==
  ASSUME NEW c \in Conns, Told(c)
  PROVE  Acks(c) # {}
BY DEF Told, Acks

\* Only the monitor makes notices, and sends them.
LEMMA NoticeSteps ==
  ASSUME SysNext
  PROVE  \/ notes' = notes /\ (mpc' = mpc \/ MonWake)
         \/ MonScan \/ MonSend
<1> USE DEF monitor
<1>1. CASE Server
  <2>1. CASE Main
    BY <2>1
    DEF Main, Loop, AcceptFails, Add, Find, Spawn, SpawnFails, SetTid, Drop,
        Close, Shutdown, ShutSessions, Join, Accept
  <2>2. CASE MonWake \/ Tick
    BY <2>2 DEF MonWake, Tick
  <2> QED
    BY <1>1, <2>1, <2>2 DEF Server, Monitor
<1>2. ASSUME NEW c \in Conns, ThreadRuns(c) PROVE notes' = notes /\ mpc' = mpc
  BY <1>2
  DEF ThreadRuns, Begin, RecvEnd, Touch, Ping, Quit, Unparsed, Handle,
      HandleRegister, RegAdd, HandleMsg, Deliver, HandleBroadcast, HandleList,
      HandleInfo, InfoGet, HandleStatus, StatusAck, StatusNotify, HandleQuit,
      Reply, Remove, CloseOwn
<1>3. ASSUME NEW c \in Conns,
             \/ Reads(c) \/ Dial(c) \/ HearsWelcome(c) \/ HearsAnswer(c)
             \/ GivesUp(c) \/ TypesQuit(c) \/ Leaves(c) \/ Crashes(c)
             \/ \E l \in Inputs : Types(c, l)
      PROVE  notes' = notes /\ mpc' = mpc
  BY <1>3 DEF Reads, Recv, Dial, Connect, HearsWelcome, HearsAnswer, GivesUp,
     TypesQuit, Leaves, Crashes, Hangs, Types, vars
<1> QED
  BY <1>1, <1>2, <1>3 DEF SysNext, Serves

\* The notices the monitor makes are named.
LEMMA NotesStep ==
  ASSUME SysInv, SysNext, \A n \in notes : NoteNamed(n)
  PROVE  \A n \in notes' : NoteNamed(n)'
<1> SUFFICES ASSUME NEW n \in notes' PROVE NoteNamed(n)'
  OBVIOUS
<1>1. CASE n \in notes
  <2>1. n.owner \in Conns /\ NoteNamed(n)
    BY <1>1 DEF SysInv, Inv, Ownership, NotesInv
  <2> QED
    BY <2>1, NobodyReturns DEF NoteNamed
<1>2. CASE MonScan
  <2> DEFINE S == {s \in Slots : Idle(sess[s], mnow, Timeout)}
  <2>1. notes' = NotesFor(S)
    BY <1>2 DEF MonScan
  <2>2. PICK s \in S : /\ n.owner = sess[s].addr
                       /\ n.user = NoteName(sess[s])
    BY <2>1 DEF NotesFor
  <2>3. sess[s].is_active
    BY <2>1, <2>2 DEF Idle
  <2>4. CASE sess[s].is_registered
    <3>1. pc[sess[s].addr] # "none" /\ sess[s].username = NameOf[sess[s].addr]
      BY <2>3, <2>4 DEF SysInv, OwnNames
    <3>2. pc' = pc
      BY <1>2 DEF MonScan, threads
    <3> QED
      BY <2>2, <3>1, <3>2 DEF NoteNamed, NoteName
  <2>5. CASE ~sess[s].is_registered
    BY <2>2, <2>3, <2>5 DEF SysInv, OwnNames, NoteNamed, NoteName
  <2> QED
    BY <2>4, <2>5
<1> QED
  BY <1>1, <1>2, NoticeSteps DEF MonSend

\* A step after which d has heard nothing new of c, which was confirmed nothing
\* new, keeps their agreement.
LEMMA AgreeKept ==
  ASSUME SysInv, SysInv', SysNext, NEW c \in Conns, NEW d \in Conns, Agree(c, d),
         outq'[d] = outq[d] \/ \E m : ~IsAbout(c, m) /\ outq'[d] = Append(outq[d], m),
         outq'[c] = outq[c] \/ \E m : ~IsAck(m) /\ outq'[c] = Append(outq[c], m),
         pc'[c] = "status_notify" <=> pc[c] = "status_notify",
         pc[c] = "status_notify" => job'[c] = job[c]
  PROVE  Agree(c, d)'
<1> SUFFICES ASSUME c # d, Staying(c)', Staying(d)' PROVE Agree(c, d)'
  BY DEF Agree
<1>1. Staying(c) /\ Staying(d) /\ TypeOK
  BY NobodyReturns DEF SysInv, Inv, TypeInv
<1>2. /\ HeardOf(c, d)' = HeardOf(c, d)
      /\ HeardOf(c, d) # {} => LastHeard(c, d)' = LastHeard(c, d)
  <2>1. CASE outq'[d] = outq[d]
    BY <2>1 DEF HeardOf, LastHeard
  <2>2. ASSUME NEW m, ~IsAbout(c, m), outq'[d] = Append(outq[d], m)
        PROVE  /\ HeardOf(c, d)' = HeardOf(c, d)
               /\ HeardOf(c, d) # {} => LastHeard(c, d)' = LastHeard(c, d)
    BY <1>1, <2>2, HeardAfter
  <2> QED
    BY <2>1, <2>2
<1>3. Told(c) => Told(c)' /\ Shown(c)' = Shown(c)
  <2>1. CASE outq'[c] = outq[c]
    BY <2>1 DEF Told, Shown, Acks
  <2>2. ASSUME NEW m, ~IsAck(m), outq'[c] = Append(outq[c], m)
        PROVE  Told(c) => Told(c)' /\ Shown(c)' = Shown(c)
    BY <1>1, <2>2, ToldBy, ShownAfter, ToldAcks
  <2> QED
    BY <2>1, <2>2
<1>4. pc[c] = "status_notify" => Told(c)
  <2>1. pc[c] = "status_notify" => Serving(c) /\ job[c].line[1] = "STATUS"
    BY DEF SysInv, Sound, LineFits, Serving
  <2> QED
    BY <2>1, SpeaksAs DEF Typed
<1>5. Seated(d) => Seated(d)'
  BY SeatedKept
<1> QED
  BY <1>1, <1>2, <1>3, <1>4, <1>5 DEF Agree

\* Nobody but the thread of c tells others of a status of c.
LEMMA ThreadTells ==
  ASSUME SysInv, DistinctNames, NEW e \in Conns, ThreadRuns(e), UNCHANGED clients,
         NEW c \in Conns, e = c => ~StatusNotify(c), NEW d \in Conns
  PROVE  outq'[d] = outq[d] \/ \E m : ~IsAbout(c, m) /\ outq'[d] = Append(outq[d], m)
<1> USE DEF kernel
<1>1. ASSUME NEW F, NEW m, Send(F, m), ~IsAbout(c, m)
      PROVE  \/ outq'[d] = outq[d]
             \/ \E k : ~IsAbout(c, k) /\ outq'[d] = Append(outq[d], k)
  <2>1. outq'[d] = outq[d] \/ outq'[d] = Append(outq[d], m)
    BY <1>1 DEF Send
  <2> QED
    BY <1>1, <2>1
<1>2. ASSUME NEW m, m[1] # "STATUS_CHANGED" PROVE ~IsAbout(c, m)
  BY <1>2 DEF IsAbout
<1>3. CASE outq' = outq
  BY <1>3
<1>4. CASE Reply(e)
  <2>1. job[e].reply[1] # "STATUS_CHANGED"
    BY <1>4 DEF SysInv, Sound, LineFits, Reply
  <2> QED
    BY <1>1, <1>2, <1>4, <2>1 DEF Reply
<1>5. CASE StatusNotify(e)
  <2>1. Serving(e) /\ job[e].line[1] = "STATUS" /\ e # c
    BY <1>5 DEF StatusNotify, SysInv, Sound, LineFits, Serving
  <2>2. sess[slot[e]].username = NameOf[e] /\ NameOf[e] # NameOf[c]
    BY <2>1, SpeaksAs DEF Typed, DistinctNames
  <2>3. PICK F, m : m = <<"STATUS_CHANGED", NameOf[e], Arg1(job[e].line)>> /\ Send(F, m)
    BY <1>5, <2>2 DEF StatusNotify
  <2>4. ~IsAbout(c, m)
    BY <2>2, <2>3 DEF IsAbout
  <2> QED
    BY <1>1, <2>3, <2>4
<1>6. CASE \/ Begin(e) \/ Ping(e) \/ Quit(e) \/ Unparsed(e) \/ Deliver(e)
           \/ HandleBroadcast(e) \/ StatusAck(e) \/ HandleQuit(e)
  <2>1. \E F, m : m[1] # "STATUS_CHANGED" /\ Send(F, m)
    BY <1>6 DEF Begin, Ping, Quit, Unparsed, Deliver, HandleBroadcast, StatusAck,
       HandleQuit, SendLine, Error
  <2> QED
    BY <1>1, <1>2, <2>1
<1> QED
  BY <1>3, <1>4, <1>5, <1>6
  DEF ThreadRuns, RecvEnd, Touch, Handle, HandleRegister, RegAdd, HandleMsg,
      HandleList, HandleInfo, InfoGet, HandleStatus, Remove, CloseOwn

\* Only STATUS and the registration are confirmed, and by c's own thread.
LEMMA ThreadConfirms ==
  ASSUME SysInv, NEW e \in Conns, ThreadRuns(e), UNCHANGED clients, NEW c \in Conns,
         e = c => ~StatusAck(c) /\ ~(Reply(c) /\ Telling(c))
  PROVE  outq'[c] = outq[c] \/ \E m : ~IsAck(m) /\ outq'[c] = Append(outq[c], m)
<1> USE DEF kernel
<1>1. ASSUME NEW F, NEW m, Send(F, m), ~IsAck(m)
      PROVE  \/ outq'[c] = outq[c]
             \/ \E k : ~IsAck(k) /\ outq'[c] = Append(outq[c], k)
  <2>1. outq'[c] = outq[c] \/ outq'[c] = Append(outq[c], m)
    BY <1>1 DEF Send
  <2> QED
    BY <1>1, <2>1
<1>2. CASE e # c
  <2>1. Hears(c)
    BY <1>2, Bystanders DEF Stands
  <2>2. \A m : IsEvent(m) => ~IsAck(m)
    BY DEF IsEvent, EventKinds, IsAck
  <2> QED
    BY <2>1, <2>2 DEF Hears
<1>3. CASE e = c /\ Reply(c)
  <2>1. ~IsAck(job[c].reply)
    <3>1. job[c].reply[1] \in {"ERROR", "LIST_OK", "INFO_OK", "BROADCAST_OK",
                               "REGISTER_OK", "MSG_OK"} /\ pc[c] = "reply"
      BY <1>3 DEF SysInv, Sound, LineFits, Reply
    <3> QED
      BY <1>3, <3>1 DEF Telling, IsAck
  <2> QED
    BY <1>1, <1>3, <2>1 DEF Reply
<1>4. CASE e = c /\ ~Reply(c) /\ outq' # outq
  <2>1. \E F, m : ~IsAck(m) /\ Send(F, m)
    <3>1. \E F, m : m[1] \in {"WELCOME", "PONG", "BYE", "ERROR", "DELIVER",
                              "BROADCAST_FROM", "STATUS_CHANGED"} /\ Send(F, m)
      BY <1>4 DEF ThreadRuns, Begin, RecvEnd, Touch, Ping, Quit, Unparsed, Handle,
         HandleRegister, RegAdd, HandleMsg, Deliver, HandleBroadcast, HandleList,
         HandleInfo, InfoGet, HandleStatus, StatusNotify, HandleQuit, Remove,
         CloseOwn, SendLine, Error
    <3> QED
      BY <3>1 DEF IsAck
  <2> QED
    BY <1>1, <2>1
<1> QED
  BY <1>2, <1>3, <1>4

\* The monitor tells nobody of a user who is still there but that user.
LEMMA MonitorTells ==
  ASSUME SysInv, NobodyUnregistered, DistinctNames, \A n \in notes : NoteNamed(n), MonSend,
         NEW c \in Conns, Staying(c), NEW d \in Conns \ {c}
  PROVE  outq'[d] = outq[d] \/ \E m : ~IsAbout(c, m) /\ outq'[d] = Append(outq[d], m)
<1>1. PICK n \in notes : Send({n.fd}, <<"STATUS_CHANGED", n.user, "INACTIVO">>)
  BY DEF MonSend
<1>2. PICK f, o, u : f = n.fd /\ o = n.owner /\ u = n.user
  OBVIOUS
<1>3. PICK m : m = <<"STATUS_CHANGED", u, "INACTIVO">> /\ Send({f}, m)
  BY <1>1, <1>2
<1>4. outq'[d] = outq[d] \/ (Peer(f) = d /\ outq'[d] = Append(outq[d], m))
  BY <1>3 DEF Send
<1>5. ASSUME Peer(f) = d PROVE ~IsAbout(c, m)
  <2> SUFFICES ASSUME u = NameOf[c] PROVE FALSE
    BY <1>3 DEF IsAbout
  <2>1. o \in Conns /\ (conn[o] # "closed" => Peer(f) = o)
    BY <1>2 DEF SysInv, Inv, Ownership, NotesInv, StrayOnlyAfterClose
  <2>2. o = c /\ pc[c] # "none"
    BY <1>2, <2>1 DEF NoteNamed, NobodyUnregistered, DistinctNames
  <2> QED
    BY <1>5, <2>1, <2>2, StayingOpen
<1> QED
  BY <1>4, <1>5

\* c's STATUS_CHANGED comes to all that are registered.
LEMMA NotifyHeard ==
  ASSUME SysInv, NEW c \in Conns, StatusNotify(c), NEW d \in Conns \ {c}, Staying(d),
         NEW m, m = <<"STATUS_CHANGED", NameOf[c], Arg1(job[c].line)>>
  PROVE  outq'[d] = IF Seated(d) THEN Append(outq[d], m) ELSE outq[d]
<1> DEFINE F == BroadcastFds(sess) \ {fd[c]}
<1>1. Serving(c) /\ job[c].line[1] = "STATUS" /\ Holding(c) /\ pc[c] = "status_notify"
  BY DEF StatusNotify, SysInv, Sound, LineFits, Serving, Holding
<1>2. sess[slot[c]].username = NameOf[c]
  BY <1>1, SpeaksAs DEF Typed
<1>3. Send(F, m)
  BY <1>2 DEF StatusNotify
<1>4. CASE Seated(d)
  <2>1. /\ slot[d] \in Slots /\ sess[slot[d]].is_active /\ sess[slot[d]].is_registered
        /\ Peer(sess[slot[d]].sockfd) = d
    BY <1>4, OwnPeer DEF Seated
  <2>2. sess[slot[d]].sockfd \in F
    <3>1. sess[slot[d]].sockfd # fd[c]
      BY <1>1, <2>1, OwnPeer
    <3>2. sess[slot[d]].sockfd \in BroadcastFds(sess)
      BY <2>1 DEF BroadcastFds, Registered
    <3> QED
      BY <3>1, <3>2
  <2>3. ~gone[d]
    BY <1>4, StayingOpen DEF Seated, Holding
  <2> QED
    BY <1>3, <1>4, <2>1, <2>2, <2>3 DEF Send
<1>5. CASE ~Seated(d)
  <2>1. ASSUME NEW f \in F, Peer(f) = d PROVE FALSE
    <3>1. PICK s \in Slots : sess[s].is_active /\ sess[s].is_registered /\ f = sess[s].sockfd
      BY DEF BroadcastFds, Registered
    <3>2. sess[s].addr = d
      BY <2>1, <3>1 DEF SysInv, Inv, Ownership, SlotInv
    <3> QED
      BY <1>5, <3>1, <3>2, SeatedOne
  <2> HIDE DEF F
  <2> QED
    BY <1>3, <1>5, <2>1 DEF Send
<1> QED
  BY <1>4, <1>5

\* The three steps that confirm c a status, or tell others of it.
LEMMA ConfirmSteps ==
  ASSUME SysInv, SysInv', SysNext, NEW c \in Conns, NEW d \in Conns, Agree(c, d),
         ThreadRuns(c), UNCHANGED clients,
         StatusNotify(c) \/ StatusAck(c) \/ (Reply(c) /\ Telling(c))
  PROVE  Agree(c, d)'
<1> SUFFICES ASSUME c # d, Staying(c)', Staying(d)' PROVE Agree(c, d)'
  BY DEF Agree
<1>1. Staying(c) /\ Staying(d) /\ TypeOK /\ running
  BY NobodyReturns DEF SysInv, Inv, TypeInv, GoesOn
<1>2. Seated(d) => Seated(d)'
  BY SeatedKept
<1>3. CASE StatusNotify(c)
  <2>1. Serving(c) /\ job[c].line[1] = "STATUS" /\ pc[c] = "status_notify"
    BY <1>3 DEF StatusNotify, SysInv, Sound, LineFits, Serving
  <2>2. Told(c) /\ Shown(c) = Arg1(job[c].line)
    BY <1>1, <2>1, SpeaksAs DEF Typed, Agree
  <2>3. pc'[c] = "recv"
    BY <1>1, <1>3, Moves DEF StatusNotify, NextLoop, shared
  <2>4. outq'[c] = outq[c] \/ \E k : ~IsAck(k) /\ outq'[c] = Append(outq[c], k)
    <3>1. ~StatusAck(c) /\ ~Reply(c)
      BY <2>1 DEF StatusAck, Reply
    <3> QED
      BY <3>1, ThreadConfirms
  <2>5. Told(c)' /\ Shown(c)' = Shown(c)
    <3>1. CASE outq'[c] = outq[c]
      BY <2>2, <3>1 DEF Told, Shown, Acks
    <3>2. ASSUME NEW k, ~IsAck(k), outq'[c] = Append(outq[c], k)
          PROVE  Told(c)' /\ Shown(c)' = Shown(c)
      BY <1>1, <2>2, <3>2, ToldBy, ShownAfter, ToldAcks
    <3> QED
      BY <2>4, <3>1, <3>2
  <2>6. PICK m : m = <<"STATUS_CHANGED", NameOf[c], Arg1(job[c].line)>>
    OBVIOUS
  <2>7. outq'[d] = IF Seated(d) THEN Append(outq[d], m) ELSE outq[d]
    BY <1>1, <1>3, <2>6, NotifyHeard
  <2>8. CASE Seated(d)
    <3>1. LastHeard(c, d)' = StatusOf(m) /\ StatusOf(m) = Arg1(job[c].line)
      BY <1>1, <2>6, <2>7, <2>8, HeardAfter DEF IsAbout, StatusOf
    <3> QED
      BY <1>2, <2>2, <2>3, <2>5, <2>8, <3>1 DEF Agree
  <2>9. CASE ~Seated(d)
    <3>1. HeardOf(c, d)' = {}
      BY <1>1, <2>7, <2>9 DEF Agree, HeardOf
    <3> QED
      BY <2>3, <3>1 DEF Agree
  <2> QED
    BY <2>8, <2>9
<1>4. CASE StatusAck(c)
  <2>1. Serving(c) /\ job[c].line[1] = "STATUS" /\ pc[c] = "status_ack" /\ Holding(c)
    BY <1>4 DEF StatusAck, SysInv, Sound, LineFits, Serving, Holding
  <2>2. Told(c) /\ ~gone[c] /\ Peer(fd[c]) = c
    BY <1>1, <2>1, SpeaksAs, StayingOpen, OwnPeer DEF Typed, Holding
  <2>3. PICK m, f : m = <<"STATUS_OK", Arg1(job[c].line)>> /\ f = fd[c] /\ Send({f}, m)
    BY <1>4 DEF StatusAck
  <2>4. outq'[c] = Append(outq[c], m) /\ outq'[d] = outq[d]
    BY <1>1, <2>2, <2>3, OwnSend
  <2>5. pc'[c] = "status_notify" /\ job' = job
    BY <1>1, <1>4, Moves DEF StatusAck
  <2>6. Told(c)' /\ Shown(c)' = StatusOf(m)
    BY <1>1, <2>2, <2>3, <2>4, ToldBy, ShownAfter DEF IsAck
  <2>7. StatusOf(m) = Arg1(job[c].line)
    BY <2>3 DEF StatusOf
  <2>8. HeardOf(c, d)' = HeardOf(c, d)
    BY <2>4 DEF HeardOf
  <2> QED
    BY <1>1, <1>2, <2>5, <2>6, <2>7, <2>8 DEF Agree
<1>5. CASE Reply(c) /\ Telling(c)
  <2>1. ~Told(c)
    <3>1. Serving(c) /\ job[c].line[1] = "REGISTER"
      BY <1>5 DEF SysInv, Sound, LineFits, Telling, Serving
    <3> QED
      BY <3>1 DEF SysInv, Sound, LinesSaid, Said, Typed
  <2>2. pc'[c] = "recv"
    BY <1>5, ReplySent
  <2>3. outq'[d] = outq[d]
    <3>1. Holding(c)
      BY <1>5 DEF Reply, Holding
    <3>2. PICK m, f : Send({f}, m) /\ Peer(f) = c
      BY <1>5, <3>1, OwnPeer DEF Reply
    <3> QED
      BY <1>1, <3>2, OwnSend
  <2>4. HeardOf(c, d)' = {}
    BY <1>1, <2>1, <2>3 DEF Agree, HeardOf
  <2> QED
    BY <2>2, <2>4 DEF Agree
<1> QED
  BY <1>3, <1>4, <1>5

\* Every step keeps what users know of each other.
LEMMA AgreeStep ==
  ASSUME SysInv, SysInv', SysNext, DistinctNames, NobodyUnregistered, AgreeInv
  PROVE  AgreeInv'
<1> USE DEF threads
<1>1. TypeOK /\ running /\ \A n \in notes : NoteNamed(n)
  BY DEF SysInv, Inv, TypeInv, GoesOn, AgreeInv
<1>2. \A n \in notes' : NoteNamed(n)'
  BY <1>1, NotesStep
<1>3. ASSUME NEW c \in Conns, NEW d \in Conns PROVE Agree(c, d)'
  <2>1. Agree(c, d)
    BY DEF AgreeInv
  <2>2. CASE Calm
    <3>1. /\ pc'[c] = "status_notify" <=> pc[c] = "status_notify"
          /\ pc[c] = "status_notify" => job'[c] = job[c]
      BY <2>2 DEF Calm
    <3> QED
      BY <2>1, <2>2, <3>1, AgreeKept DEF Calm
  <2>3. CASE MonSend
    <3>1. CASE c = d \/ ~Staying(c)
      BY <3>1, NobodyReturns DEF Agree
    <3>2. CASE c # d /\ Staying(c)
      <4>1. \/ outq'[d] = outq[d]
            \/ \E m : ~IsAbout(c, m) /\ outq'[d] = Append(outq[d], m)
        BY <1>1, <2>3, <3>2, MonitorTells
      <4>2. outq'[c] = outq[c] \/ \E m : ~IsAck(m) /\ outq'[c] = Append(outq[c], m)
        <5>1. PICK F, m : m[1] = "STATUS_CHANGED" /\ Send(F, m)
          BY <2>3 DEF MonSend
        <5>2. ~IsAck(m) /\ (outq'[c] = outq[c] \/ outq'[c] = Append(outq[c], m))
          BY <5>1 DEF Send, IsAck
        <5> QED
          BY <5>2
      <4>3. pc' = pc /\ job' = job
        BY <2>3 DEF MonSend
      <4> QED
        BY <2>1, <4>1, <4>2, <4>3, AgreeKept
    <3> QED
      BY <3>1, <3>2
  <2>4. ASSUME NEW e \in Conns, ThreadRuns(e), UNCHANGED clients PROVE Agree(c, d)'
    <3>1. CASE /\ e = c
               /\ StatusNotify(c) \/ StatusAck(c) \/ (Reply(c) /\ Telling(c))
      BY <2>1, <2>4, <3>1, ConfirmSteps
    <3>2. CASE ~(/\ e = c
                 /\ StatusNotify(c) \/ StatusAck(c) \/ (Reply(c) /\ Telling(c)))
      <4>1. \/ outq'[d] = outq[d]
            \/ \E m : ~IsAbout(c, m) /\ outq'[d] = Append(outq[d], m)
        BY <2>4, <3>2, ThreadTells
      <4>2. outq'[c] = outq[c] \/ \E m : ~IsAck(m) /\ outq'[c] = Append(outq[c], m)
        BY <2>4, <3>2, ThreadConfirms
      <4>3. /\ pc'[c] = "status_notify" <=> pc[c] = "status_notify"
            /\ pc[c] = "status_notify" => job'[c] = job[c]
        <5>1. CASE e # c
          BY <2>4, <5>1, Bystanders DEF Stands
        <5>2. CASE e = c
          <6>1. \E l : l # "status_notify" /\ Goto(c, l)
            BY <2>4, <3>2, <5>2
            DEF ThreadRuns, Begin, RecvEnd, Touch, Ping, Quit, Unparsed, Handle,
                HandleRegister, RegAdd, HandleMsg, Deliver, HandleBroadcast,
                HandleList, HandleInfo, InfoGet, HandleStatus, HandleQuit,
                Reply, Remove, CloseOwn, NextLoop, SendLine, Answer
          <6>2. pc[c] # "status_notify"
            BY <2>4, <3>2, <5>2
            DEF ThreadRuns, Begin, RecvEnd, Touch, Ping, Quit, Unparsed, Handle,
                HandleRegister, RegAdd, HandleMsg, Deliver, HandleBroadcast,
                HandleList, HandleInfo, InfoGet, HandleStatus, HandleQuit,
                Reply, Remove, CloseOwn, Handles
          <6> QED
            BY <1>1, <6>1, <6>2, Moves
        <5> QED
          BY <5>1, <5>2
      <4> QED
        BY <2>1, <4>1, <4>2, <4>3, AgreeKept
    <3> QED
      BY <3>1, <3>2
  <2> QED
    BY <2>2, <2>3, <2>4, StepKinds
<1> QED
  BY <1>2, <1>3 DEF AgreeInv

\* At first nobody has heard of anybody, and every step keeps AgreeInv.
LEMMA AgreeHolds ==
  /\ SysInit => AgreeInv
  /\ /\ DistinctNames /\ NobodyUnregistered
     /\ SysInv /\ SysInv' /\ AgreeInv /\ [SysNext]_sysVars
     => AgreeInv'
<1>1. SysInit => AgreeInv
  BY DEF SysInit, Init, AgreeInv, Agree, HeardOf
<1>2. AgreeInv /\ UNCHANGED sysVars => AgreeInv'
  <2> SUFFICES ASSUME AgreeInv, UNCHANGED sysVars PROVE AgreeInv'
    OBVIOUS
  <2> USE DEF sysVars, vars, clients, kernel, shared, threads, monitor
  <2>1. \A n \in notes' : NoteNamed(n)'
    BY DEF AgreeInv, NoteNamed
  <2>2. ASSUME NEW c \in Conns, NEW d \in Conns PROVE Agree(c, d)'
    <3>1. /\ Staying(c)' = Staying(c) /\ Staying(d)' = Staying(d)
          /\ HeardOf(c, d)' = HeardOf(c, d) /\ LastHeard(c, d)' = LastHeard(c, d)
          /\ Told(c)' = Told(c) /\ Seated(d)' = Seated(d) /\ Shown(c)' = Shown(c)
          /\ pc' = pc /\ job' = job
      BY DEF Staying, HeardOf, LastHeard, Told, Seated, Holding, Shown, Acks
    <3> QED
      BY <3>1 DEF AgreeInv, Agree
  <2> QED
    BY <2>1, <2>2 DEF AgreeInv
<1> QED
  BY <1>1, <1>2, AgreeStep

\* What another user has heard last of a status is what the user was confirmed
\* last, if no two users call themselves the same and none UNREGISTERED, which
\* stands for the others in the monitor's notices (handlers.c:175-183).
THEOREM OthersKnow ==
  ASSUME DistinctNames, NobodyUnregistered
  PROVE  SysSpec => []OthersAgree
<1>1. ASSUME AgreeInv PROVE OthersAgree
  <2> SUFFICES ASSUME NEW c \in Conns, NEW d \in Conns, c # d,
                      cpc[c] = "chat", cpc[d] = "chat",
                      pc[c] \notin {"status_ack", "status_notify"},
                      HeardOf(c, d) # {}
               PROVE  LastHeard(c, d) = Shown(c)
    BY DEF OthersAgree, Heard, HeardOf, LastHeard
  <2> QED
    BY <1>1 DEF AgreeInv, Agree, Staying
<1>2. DistinctNames /\ NobodyUnregistered
  OBVIOUS
<1> QED
  BY <1>1, <1>2, SystemInvariant, AgreeHolds, PTL DEF SysSpec

-----------------------------------------------------------------------------
(* The status a client shows, and the server's.                            *)

\* The monitor's notice to c.
IsNotice(c, m) ==
  m[1] = "STATUS_CHANGED" /\ m[2] \in {NameOf[c], "UNREGISTERED"} /\ m[3] = "INACTIVO"

\* c was sent a notice after what came at a place, or one is on its way.
Marked(c, place) ==
  \/ \E k \in DOMAIN outq[c] : k > place /\ IsNotice(c, outq[c][k])
  \/ \E n \in notes : n.owner = c

\* The place of the confirmation before the last one.
Before(c) == Last(Acks(c) \ {Last(Acks(c))})

\* A status that the session of c may have: the first, the one the thread is
\* about to confirm, or the one the client shows - unless the monitor said so.
Fits(c, status) ==
  IF Acks(c) = {} THEN status = "ACTIVO" \/ Marked(c, 0)
  ELSE IF pc[c] = "status_ack"
  THEN status = Arg1(job[c].line) \/ Marked(c, Last(Acks(c)))
  ELSE status = Shown(c) \/ Shown(c) = "INACTIVO" \/ Marked(c, Before(c))

FitsSession(s) ==
  sess[s].is_active /\ Staying(sess[s].addr) => Fits(sess[s].addr, sess[s].status)

DriftInv ==
  /\ \A n \in notes : NoteNamed(n)
  /\ mpc # "send" => notes = {}
  /\ \A c \in Conns : Acks(c) # {} => Told(c)
  /\ \A s \in Slots : FitsSession(s)

\* Confirmations are at places of the conversation.
LEMMA AckPlaces ==
  ASSUME TypeOK, NEW c \in Conns
  PROVE  Last(Acks(c)) \in 0 .. Len(outq[c]) /\ Before(c) \in 0 .. Len(outq[c])
<1>1. PICK n \in Nat : n = Len(outq[c]) /\ DOMAIN outq[c] = 1 .. n
  BY DEF TypeOK
<1>2. ASSUME NEW A \in SUBSET (1 .. n) PROVE Last(A) \in 0 .. n
  <2>1. CASE A = {}
    BY <1>1, <2>1 DEF Last
  <2>2. CASE A # {}
    <3>1. Last(A) \in A
      BY <1>1, <2>2, LastOne
    <3>2. PICK k : k = Last(A)
      OBVIOUS
    <3>3. k \in 1 .. n
      BY <3>1, <3>2
    <3> QED
      BY <3>2, <3>3
  <2> QED
    BY <2>1, <2>2
<1>3. Acks(c) \in SUBSET (1 .. n)
  BY <1>1 DEF Acks
<1>4. Acks(c) \ {Last(Acks(c))} \in SUBSET (1 .. n)
  BY <1>3
<1> QED
  BY <1>1, <1>2, <1>3, <1>4 DEF Before

\* The connection of a session of somebody who is still there is open.
LEMMA SessionOpen ==
  ASSUME SysInv, NEW s \in Slots, sess[s].is_active, Staying(sess[s].addr)
  PROVE  sess[s].addr \in Conns /\ conn[sess[s].addr] = "open" /\ ~gone[sess[s].addr]
<1>1. PICK c \in Conns : c = sess[s].addr /\ Peer(sess[s].sockfd) = c
  BY DEF SysInv, Inv, Ownership, SlotInv
<1>2. conn[c] = "open"
  BY <1>1, NoConnAssumption DEF SysInv, Inv, Ownership, TableInv, Peer
<1> QED
  BY <1>1, <1>2 DEF SysInv, Sound, Served

\* A notice is not lost.
LEMMA MarkedKept ==
  ASSUME SysInv, SysNext, DriftInv, NEW s \in Slots, sess[s].is_active, NEW c,
         c = sess[s].addr, Staying(c), NEW place \in 0 .. Len(outq[c]), Marked(c, place),
         outq'[c] = outq[c] \/ \E m : outq'[c] = Append(outq[c], m)
  PROVE  Marked(c, place)'
<1>1. TypeOK /\ c \in Conns /\ conn[c] # "closed" /\ ~gone[c]
  BY SessionOpen DEF SysInv, Inv, TypeInv
<1>2. PICK q \in Seq(Line) : q = outq[c]
  BY <1>1 DEF TypeOK
<1>3. ASSUME NEW k \in DOMAIN outq[c], k > place, IsNotice(c, outq[c][k])
      PROVE  Marked(c, place)'
  <2>1. k \in DOMAIN q /\ k > place /\ IsNotice(c, q[k])
    BY <1>2, <1>3
  <2>2. CASE outq'[c] = outq[c]
    BY <1>3, <2>2 DEF Marked
  <2>3. ASSUME NEW m, outq'[c] = Append(outq[c], m) PROVE Marked(c, place)'
    <3>1. PICK r : r = Append(q, m)
      OBVIOUS
    <3>2. k \in DOMAIN r /\ r[k] = q[k]
      BY <2>1, <3>1, Appended
    <3>3. outq'[c] = r
      BY <1>2, <2>3, <3>1
    <3> QED
      BY <2>1, <3>2, <3>3 DEF Marked, IsNotice
  <2> QED
    BY <2>2, <2>3
<1>4. ASSUME NEW n \in notes, n.owner = c PROVE Marked(c, place)'
  <2>1. CASE n \in notes'
    BY <1>4, <2>1 DEF Marked
  <2>2. CASE n \notin notes'
    <3>1. MonSend
      BY <2>2, NoticeSteps DEF MonScan, DriftInv
    <3>2. PICK f, u : f = n.fd /\ u = n.user
      OBVIOUS
    <3>3. PICK m : m = <<"STATUS_CHANGED", u, "INACTIVO">> /\ Send({f}, m)
      BY <2>2, <3>1, <3>2 DEF MonSend
    <3>4. Peer(f) = c
      BY <1>1, <1>4, <3>2 DEF SysInv, Inv, Ownership, StrayOnlyAfterClose
    <3>5. outq'[c] = Append(q, m)
      BY <1>1, <1>2, <3>3, <3>4, OwnSend
    <3>6. PICK r, i : r = Append(q, m) /\ i = Len(r)
      OBVIOUS
    <3>7. i \in DOMAIN r /\ r[i] = m /\ i = Len(q) + 1 /\ Len(q) \in Nat
      BY <3>6, Appended
    <3>8. IsNotice(c, m)
      BY <1>4, <3>2, <3>3 DEF DriftInv, NoteNamed, IsNotice
    <3>9. i > place
      BY <1>2, <3>7
    <3> QED
      BY <3>5, <3>6, <3>7, <3>8, <3>9 DEF Marked, IsNotice
  <2> QED
    BY <2>1, <2>2
<1> QED
  BY <1>3, <1>4 DEF Marked

\* A user is found by name where its session is.
LEMMA FindsOwnName ==
  ASSUME SysInv, DistinctNames, NEW c \in Conns, Seated(c)
  PROVE  FindByUsername(sess, sess[slot[c]].username) = slot[c]
<1>1. /\ slot[c] \in Slots /\ sess[slot[c]].is_active /\ sess[slot[c]].addr = c
      /\ sess[slot[c]].is_registered
  BY OwnPeer DEF Seated
<1>2. PICK name : name = NameOf[c]
  OBVIOUS
<1>3. sess[slot[c]].username = name /\ name # ""
  BY <1>1, <1>2, NameOfAssumption, ValidNamesAssumption DEF SysInv, OwnNames
<1> DEFINE named == {r \in Registered(sess) : sess[r].username = name}
<1>4. slot[c] \in named /\ named \in SUBSET Slots
  BY <1>1, <1>3 DEF Registered
<1>5. Lowest(named) \in named
  BY <1>4, LowestIn
<1>6. PICK s \in named : s = Lowest(named)
  BY <1>5
<1>7. /\ s \in Slots /\ sess[s].is_active /\ sess[s].is_registered
      /\ sess[s].username = name
  BY <1>6 DEF Registered
<1>8. sess[s].addr \in Conns /\ NameOf[sess[s].addr] = name
  BY <1>7 DEF SysInv, Inv, Ownership, SlotInv, OwnNames
<1>9. sess[s].addr = c
  BY <1>2, <1>8 DEF DistinctNames
<1>10. s = slot[c]
  BY <1>1, <1>7, <1>9, OneSession
<1> QED
  BY <1>3, <1>6, <1>10 DEF FindByUsername

\* STATUS changes the status of the session of c, and only that.
LEMMA StatusSet ==
  ASSUME SysInv, DistinctNames, NEW c \in Conns, HandleStatus(c), pc'[c] = "status_ack"
  PROVE  /\ sess'[slot[c]].status = Arg1(job[c].line)
         /\ \A s \in Slots \ {slot[c]} : sess'[s] = sess[s]
         /\ job' = job /\ outq' = outq /\ Told(c)
<1>1. TypeOK /\ Serving(c) /\ pc[c] = "dispatch" /\ Holding(c)
  BY DEF SysInv, Inv, TypeInv, HandleStatus, Handles, Serving, Holding
<1>2. job[c].line[1] = "STATUS"
  BY <1>1, HandlesWord DEF HandleStatus, Commands
<1>3. Told(c) /\ Seated(c)
  BY <1>1, <1>2, SpeaksAs DEF Typed, Seated
<1>4. slot[c] \in Slots /\ sess[slot[c]] \in Session
  BY <1>1, OwnPeer
<1>5. ValidStatus(Arg1(job[c].line))
  BY <1>1, Moves DEF HandleStatus, Answer
<1>6. PICK s : s = slot[c]
  OBVIOUS
<1>7. FindByUsername(sess, sess[s].username) = s /\ s # NoSlot
  BY <1>3, <1>4, <1>6, FindsOwnName, SlotNumbers
<1>8. sess' = [sess EXCEPT ![s].status = Arg1(job[c].line)]
  BY <1>5, <1>6, <1>7 DEF HandleStatus, SetUserStatus
<1>9. sess'[s].status = Arg1(job[c].line) /\ \A r \in Slots \ {s} : sess'[r] = sess[r]
  BY <1>1, <1>4, <1>6, <1>8 DEF TypeOK, Session
<1> QED
  BY <1>3, <1>5, <1>6, <1>9 DEF HandleStatus, kernel

\* What a step may do to the status of a session that was there before.
StatusKept(s) ==
  \/ sess'[s].status = sess[s].status
  \/ MonScan /\ Idle(sess[s], mnow, Timeout)
  \/ \E c \in Conns : HandleStatus(c) /\ pc'[c] = "status_ack"
  \/ /\ Touch(sess[s].addr)
     /\ sess[s].status = "INACTIVO" /\ sess'[s].status = "ACTIVO"

\* A thread's step does so.
LEMMA ThreadStatus ==
  ASSUME SysInv, NEW c \in Conns, ThreadRuns(c), NEW s \in Slots, sess'[s].is_active
  PROVE  sess[s].is_active /\ sess'[s].addr = sess[s].addr /\ StatusKept(s)
<1> USE DEF kernel, shared
<1>1. TypeOK /\ sess[s] \in Session
  BY DEF SysInv, Inv, TypeInv, TypeOK
<1>2. CASE sess' = sess
  BY <1>2 DEF StatusKept
<1>3. CASE Touch(c)
  <2>1. slot[c] \in Slots /\ sess[slot[c]].is_active /\ sess[slot[c]].addr = c
        /\ job[c].found = slot[c]
    BY <1>3 DEF Touch, SysInv, Inv, Ownership, ThreadInv, Holding
  <2>2. PICK r : r = slot[c]
    OBVIOUS
  <2>3. r # NoSlot
    BY <2>1, <2>2, SlotNumbers
  <2>4. sess' = [sess EXCEPT ![r] = Touched(sess[r], clock)]
    BY <1>3, <2>1, <2>2, <2>3 DEF Touch
  <2>5. CASE s # r
    BY <1>1, <2>4, <2>5 DEF TypeOK, StatusKept
  <2>6. CASE s = r
    <3>1. sess'[s] = Touched(sess[s], clock)
      BY <1>1, <2>4, <2>6 DEF TypeOK
    <3>2. /\ sess'[s].addr = sess[s].addr
          /\ sess'[s].status = IF sess[s].status = "INACTIVO" THEN "ACTIVO"
                                                              ELSE sess[s].status
      BY <1>1, <3>1 DEF Touched, Session
    <3> QED
      BY <1>3, <2>1, <2>2, <2>6, <3>2 DEF StatusKept
  <2> QED
    BY <2>5, <2>6
<1>4. CASE RegAdd(c)
  <2>1. PICK r \in Slots : r = slot[c] /\ sess[r] \in Session /\ sess[r].is_active
    BY <1>4, OwnPeer DEF RegAdd, Holding
  <2>2. FindByFd(sess, fd[c]) = r /\ r # NoSlot
    BY <1>4, <2>1, FindsOwnSession, SlotNumbers DEF SysInv, RegAdd, Holding
  <2> DEFINE new == [sess[r] EXCEPT !.username = Arg1(job[c].line), !.is_registered = TRUE]
  <2>3. sess' = [sess EXCEPT ![r] = new]
    BY <1>4, <2>1, <2>2 DEF RegAdd, AddSession
  <2>4. new.is_active /\ new.addr = sess[r].addr /\ new.status = sess[r].status
    BY <2>1 DEF Session
  <2> HIDE DEF new
  <2> QED
    BY <1>1, <2>1, <2>3, <2>4 DEF TypeOK, StatusKept
<1>5. CASE Remove(c)
  <2>1. sess'[s] = sess[s] \/ sess'[s] = ClearedSession
    BY <1>1, <1>5 DEF Remove, RemoveByFd, TypeOK
  <2> QED
    BY <2>1, ClearedFields DEF StatusKept
<1>6. CASE HandleStatus(c) /\ pc'[c] = "status_ack"
  <2>1. Survive
    BY <1>6, ThreadSurvive DEF HandleStatus, Handles, RegAdd
  <2> QED
    BY <1>6, <2>1 DEF Survive, StatusKept
<1>7. CASE HandleStatus(c) /\ pc'[c] # "status_ack"
  BY <1>1, <1>2, <1>7, Moves DEF HandleStatus
<1> QED
  BY <1>2, <1>3, <1>4, <1>5, <1>6, <1>7
  DEF ThreadRuns, Begin, RecvEnd, Ping, Quit, Unparsed, Handle, HandleRegister,
      HandleMsg, Deliver, HandleBroadcast, HandleList, HandleInfo, InfoGet,
      StatusAck, StatusNotify, HandleQuit, Reply, CloseOwn

\* Every step makes the session, or does so.
LEMMA StatusSteps ==
  ASSUME SysInv, SysNext, NEW s \in Slots, sess'[s].is_active
  PROVE  \/ Add /\ ~sess[s].is_active /\ sess'[s] = NewSession(Peer(afd), afd, clock)
         \/ sess[s].is_active /\ sess'[s].addr = sess[s].addr /\ StatusKept(s)
<1> USE DEF kernel, shared, vars
<1>1. TypeOK /\ sess[s] \in Session
  BY DEF SysInv, Inv, TypeInv, TypeOK
<1>2. CASE sess' = sess
  BY <1>2 DEF StatusKept
<1>3. CASE Server
  <2>1. CASE Add
    <3>1. \/ sess'[s] = sess[s]
          \/ s = FreeSlot(sess) /\ sess'[s] = NewSession(Peer(afd), afd, clock)
      BY <1>1, <2>1 DEF Add, TypeOK
    <3> QED
      BY <2>1, <3>1, FreeSlotFound DEF StatusKept
  <2>2. CASE SetTid
    <3>1. \/ sess'[s] = sess[s]
          \/ sess'[s] = [sess[s] EXCEPT !.thread_id = atid]
      BY <1>1, <2>2 DEF SetTid, TypeOK
    <3> QED
      BY <1>1, <3>1 DEF StatusKept, Session
  <2>3. CASE Drop
    <3>1. sess'[s] = sess[s] \/ sess'[s] = ClearedSession
      BY <1>1, <2>3 DEF Drop, RemoveByFd, TypeOK
    <3> QED
      BY <3>1, ClearedFields DEF StatusKept
  <2>4. CASE MonScan
    <3>1. Idle(sess[s], mnow, Timeout) \/ sess'[s] = sess[s]
      BY <2>4 DEF MonScan
    <3>2. Survive
      BY <1>3, <2>4, MonitorAside DEF Server, Monitor
    <3> QED
      BY <2>4, <3>1, <3>2 DEF StatusKept, Survive
  <2> QED
    BY <1>2, <1>3, <2>1, <2>2, <2>3, <2>4
    DEF Server, Main, Monitor, Loop, AcceptFails, Find, Spawn, SpawnFails, Close,
        Shutdown, ShutSessions, Join, Accept, Tick, MonWake, MonSend
<1>4. ASSUME NEW c \in Conns, ThreadRuns(c)
      PROVE  sess[s].is_active /\ sess'[s].addr = sess[s].addr /\ StatusKept(s)
  BY <1>4, ThreadStatus
<1> QED
  BY <1>2, <1>3, <1>4
  DEF SysNext, Serves, Reads, Recv, Dial, Connect, HearsWelcome, HearsAnswer,
      GivesUp, TypesQuit, Leaves, Crashes, Hangs, Types

\* A step that confirms c nothing, and does not set its status, keeps what fits.
LEMMA FitsKept ==
  ASSUME SysInv, SysNext, DriftInv, NEW s \in Slots, sess[s].is_active, NEW c,
         c = sess[s].addr, Staying(c), NEW status, Fits(c, status),
         outq'[c] = outq[c] \/ \E m : ~IsAck(m) /\ outq'[c] = Append(outq[c], m),
         pc'[c] = "status_ack" <=> pc[c] = "status_ack",
         pc[c] = "status_ack" => job'[c] = job[c]
  PROVE  Fits(c, status)' /\ Acks(c)' = Acks(c)
<1>1. TypeOK /\ c \in Conns
  BY SessionOpen DEF SysInv, Inv, TypeInv
<1>2. Acks(c)' = Acks(c) /\ (Acks(c) # {} => Shown(c)' = Shown(c))
  <2>1. CASE outq'[c] = outq[c]
    BY <2>1 DEF Shown, Acks
  <2>2. ASSUME NEW m, ~IsAck(m), outq'[c] = Append(outq[c], m)
        PROVE  Acks(c)' = Acks(c) /\ (Acks(c) # {} => Shown(c)' = Shown(c))
    BY <1>1, <2>2, ShownAfter
  <2> QED
    BY <2>1, <2>2
<1>3. PICK last, before : last = Last(Acks(c)) /\ before = Before(c)
  OBVIOUS
<1>4. Last(Acks(c))' = last /\ Before(c)' = before
  BY <1>2, <1>3 DEF Before
<1>5. /\ last \in 0 .. Len(outq[c]) /\ before \in 0 .. Len(outq[c])
      /\ 0 \in 0 .. Len(outq[c])
  BY <1>1, <1>3, AckPlaces DEF TypeOK
<1>6. \A p \in 0 .. Len(outq[c]) : Marked(c, p) => Marked(c, p)'
  <2> SUFFICES ASSUME NEW p \in 0 .. Len(outq[c]), Marked(c, p) PROVE Marked(c, p)'
    OBVIOUS
  <2> QED
    BY MarkedKept
<1>7. /\ Marked(c, 0) => Marked(c, 0)'
      /\ Marked(c, last) => Marked(c, last)'
      /\ Marked(c, before) => Marked(c, before)'
  BY <1>5, <1>6
<1>8. /\ Marked(c, last)' <=> Marked(c, Last(Acks(c)))'
      /\ Marked(c, before)' <=> Marked(c, Before(c))'
  BY <1>4 DEF Marked
<1>9. CASE Acks(c) = {}
  BY <1>2, <1>7, <1>9 DEF Fits
<1>10. CASE Acks(c) # {} /\ pc[c] = "status_ack"
  <2>1. status = Arg1(job[c].line) \/ Marked(c, last)
    BY <1>3, <1>10 DEF Fits
  <2>2. status = Arg1(job'[c].line) \/ Marked(c, Last(Acks(c)))'
    BY <1>7, <1>8, <1>10, <2>1
  <2> QED
    BY <1>2, <1>10, <2>2 DEF Fits
<1>11. CASE Acks(c) # {} /\ pc[c] # "status_ack"
  <2>1. status = Shown(c) \/ Shown(c) = "INACTIVO" \/ Marked(c, before)
    BY <1>3, <1>11 DEF Fits
  <2>2. status = Shown(c)' \/ Shown(c)' = "INACTIVO" \/ Marked(c, Before(c))'
    BY <1>2, <1>7, <1>8, <1>11, <2>1
  <2> QED
    BY <1>2, <1>11, <2>2 DEF Fits
<1> QED
  BY <1>2, <1>9, <1>10, <1>11

\* After a confirmation, the one before is what was the last.
LEMMA BeforeAfter ==
  ASSUME TypeOK, NEW c \in Conns, NEW m, IsAck(m), outq'[c] = Append(outq[c], m)
  PROVE  Acks(c)' # {} /\ Shown(c)' = StatusOf(m) /\ Before(c)' = Last(Acks(c))
<1>1. PICK q \in Seq(Line) : q = outq[c]
  BY DEF TypeOK
<1>2. PICK k, n, A : k = Len(q) /\ n = Len(Append(q, m)) /\ A = Acks(c)
  OBVIOUS
<1>3. k \in Nat /\ n = k + 1 /\ DOMAIN q = 1 .. k
  BY <1>1, <1>2, Appended
<1>4. A \in SUBSET (1 .. k)
  BY <1>1, <1>2, <1>3 DEF Acks
<1>5. n = Len(outq'[c])
  BY <1>1, <1>2
<1>6. Acks(c)' = A \cup {n} /\ Shown(c)' = StatusOf(m)
  BY <1>2, <1>5, ShownAfter
<1>7. Last(A \cup {n}) = n /\ n \notin A
  <2>1. Last(A \cup {n}) = n
    BY <1>3, <1>4, NewOne
  <2>2. n \notin 1 .. k
    BY <1>3
  <2> QED
    BY <1>4, <2>1, <2>2
<1>8. (A \cup {n}) \ {n} = A
  BY <1>7
<1>9. Before(c)' = Last(A)
  BY <1>6, <1>7, <1>8 DEF Before
<1> QED
  BY <1>2, <1>6, <1>9

\* A confirmation fits the status that was set before, unless the monitor has
\* looked since.
LEMMA FitsConfirmed ==
  ASSUME SysInv, SysNext, DriftInv, NEW s \in Slots, sess[s].is_active, NEW c,
         c = sess[s].addr, Staying(c), Fits(c, sess[s].status),
         StatusAck(c) \/ (Reply(c) /\ Telling(c))
  PROVE  Fits(c, sess[s].status)' /\ sess' = sess
<1>1. TypeOK /\ c \in Conns /\ ~gone[c] /\ Holding(c) /\ running
  BY SessionOpen DEF SysInv, Inv, TypeInv, GoesOn, StatusAck, Reply, Holding
<1>2. PICK status, a : status = sess[s].status /\ a = Arg1(job[c].line)
  OBVIOUS
<1>3. PICK last : last = Last(Acks(c))
  OBVIOUS
<1>4. ASSUME NEW m, IsAck(m), outq'[c] = Append(outq[c], m)
      PROVE  /\ Acks(c)' # {} /\ Shown(c)' = StatusOf(m)
             /\ Marked(c, last) => Marked(c, Before(c))'
  <2>1. Acks(c)' # {} /\ Shown(c)' = StatusOf(m) /\ Before(c)' = last
    BY <1>1, <1>3, <1>4, BeforeAfter
  <2>2. last \in 0 .. Len(outq[c])
    BY <1>1, <1>3, AckPlaces
  <2>3. Marked(c, last) => Marked(c, last)'
    BY <1>4, <2>2, MarkedKept
  <2>4. Marked(c, last)' <=> Marked(c, Before(c))'
    BY <2>1 DEF Marked
  <2> QED
    BY <2>1, <2>3, <2>4
<1>5. CASE StatusAck(c)
  <2>1. Serving(c) /\ job[c].line[1] = "STATUS" /\ pc[c] = "status_ack"
    BY <1>1, <1>5 DEF StatusAck, SysInv, Sound, LineFits, Serving
  <2>2. Acks(c) # {}
    BY <1>1, <2>1, SpeaksAs, ToldAcks DEF Typed
  <2>3. status = a \/ Marked(c, last)
    BY <1>2, <1>3, <2>1, <2>2 DEF Fits
  <2>4. PICK f, m : f = fd[c] /\ m = <<"STATUS_OK", a>> /\ Send({f}, m)
    BY <1>2, <1>5 DEF StatusAck
  <2>5. outq'[c] = Append(outq[c], m)
    <3>1. Peer(f) = c
      BY <1>1, <2>1, <2>4, OwnPeer
    <3>2. Send({f}, m)
      BY <2>4
    <3> QED
      BY <1>1, <3>1, <3>2, OwnSend
  <2>6. IsAck(m) /\ StatusOf(m) = a
    BY <2>4 DEF IsAck, StatusOf
  <2>7. /\ Acks(c)' # {} /\ Shown(c)' = a
        /\ Marked(c, last) => Marked(c, Before(c))'
    BY <1>4, <2>5, <2>6
  <2>8. pc'[c] # "status_ack" /\ sess' = sess
    BY <1>1, <1>5, Moves DEF StatusAck, shared
  <2> QED
    BY <1>2, <2>3, <2>7, <2>8 DEF Fits
<1>6. CASE Reply(c) /\ Telling(c)
  <2>1. ~Told(c)
    <3>1. Serving(c) /\ job[c].line[1] = "REGISTER"
      BY <1>1, <1>6 DEF SysInv, Sound, LineFits, Telling, Serving
    <3> QED
      BY <1>1, <3>1 DEF SysInv, Sound, LinesSaid, Said, Typed
  <2>2. Acks(c) = {} /\ last = 0
    BY <1>1, <1>3, <2>1 DEF DriftInv, Last
  <2>3. status = "ACTIVO" \/ Marked(c, last)
    BY <1>2, <2>2 DEF Fits
  <2>4. job[c].reply = <<"REGISTER_OK", NameOf[c], "ACTIVO">>
    BY <1>1, <1>6 DEF SysInv, Sound, LineFits, Telling
  <2>5. PICK m : m = <<"REGISTER_OK", NameOf[c], "ACTIVO">> /\ m = job[c].reply
    BY <2>4
  <2>6. outq'[c] = Append(outq[c], m)
    BY <1>1, <1>6, <2>5, ReplySent
  <2>7. IsAck(m) /\ StatusOf(m) = "ACTIVO"
    BY <2>5 DEF IsAck, StatusOf
  <2>8. /\ Acks(c)' # {} /\ Shown(c)' = "ACTIVO"
        /\ Marked(c, last) => Marked(c, Before(c))'
    BY <1>4, <2>6, <2>7
  <2>9. pc'[c] = "recv" /\ sess' = sess
    BY <1>1, <1>6, ReplySent
  <2> QED
    BY <1>2, <2>3, <2>8, <2>9 DEF Fits
<1> QED
  BY <1>5, <1>6

\* Steps that neither confirm c anything nor are about to.
LEMMA PlainStep ==
  ASSUME SysInv, SysNext, NEW c \in Conns,
         ~StatusAck(c), ~(Reply(c) /\ Telling(c)),
         ~(HandleStatus(c) /\ pc'[c] = "status_ack")
  PROVE  /\ outq'[c] = outq[c] \/ \E m : ~IsAck(m) /\ outq'[c] = Append(outq[c], m)
         /\ pc'[c] = "status_ack" <=> pc[c] = "status_ack"
         /\ pc[c] = "status_ack" => job'[c] = job[c]
<1>1. TypeOK
  BY DEF SysInv, Inv, TypeInv
<1>2. CASE Calm
  BY <1>2 DEF Calm
<1>3. CASE MonSend
  <2>1. PICK F, m : m[1] = "STATUS_CHANGED" /\ Send(F, m)
    BY <1>3 DEF MonSend
  <2>2. ~IsAck(m) /\ (outq'[c] = outq[c] \/ outq'[c] = Append(outq[c], m))
    BY <2>1 DEF Send, IsAck
  <2> QED
    BY <1>3, <2>2 DEF MonSend, threads
<1>4. ASSUME NEW e \in Conns, ThreadRuns(e), UNCHANGED clients
      PROVE  /\ outq'[c] = outq[c] \/ \E m : ~IsAck(m) /\ outq'[c] = Append(outq[c], m)
             /\ pc'[c] = "status_ack" <=> pc[c] = "status_ack"
             /\ pc[c] = "status_ack" => job'[c] = job[c]
  <2>1. outq'[c] = outq[c] \/ \E m : ~IsAck(m) /\ outq'[c] = Append(outq[c], m)
    BY <1>4, ThreadConfirms
  <2>2. CASE e # c
    BY <1>4, <2>1, <2>2, Bystanders DEF Stands
  <2>3. CASE e = c
    <3>1. pc[c] # "status_ack"
      BY <1>4, <2>3
      DEF ThreadRuns, Begin, RecvEnd, Touch, Ping, Quit, Unparsed, Handle,
          HandleRegister, RegAdd, HandleMsg, Deliver, HandleBroadcast,
          HandleList, HandleInfo, InfoGet, HandleStatus, StatusNotify, HandleQuit,
          Reply, Remove, CloseOwn, Handles
    <3>2. CASE HandleStatus(c)
      BY <2>1, <3>1, <3>2
    <3>3. CASE ~HandleStatus(c)
      <4>1. \E l : l # "status_ack" /\ Goto(c, l)
        BY <1>4, <2>3, <3>3
        DEF ThreadRuns, Begin, RecvEnd, Touch, Ping, Quit, Unparsed, Handle,
            HandleRegister, RegAdd, HandleMsg, Deliver, HandleBroadcast,
            HandleList, HandleInfo, InfoGet, StatusNotify, HandleQuit,
            Reply, Remove, CloseOwn, NextLoop, SendLine, Answer
      <4> QED
        BY <1>1, <2>1, <3>1, <4>1, Moves
    <3> QED
      BY <3>2, <3>3
  <2> QED
    BY <2>2, <2>3
<1> QED
  BY <1>2, <1>3, <1>4, StepKinds

\* Who has a confirmation has REGISTER_OK.
LEMMA AcksAreTold ==
  ASSUME SysInv, SysNext, NEW c \in Conns, Acks(c) # {} => Told(c), Acks(c)' # {},
         DistinctNames
  PROVE  Told(c)'
<1>1. TypeOK
  BY DEF SysInv, Inv, TypeInv
<1>2. CASE outq'[c] = outq[c]
  BY <1>2 DEF Acks, Told
<1>3. ASSUME NEW m, outq'[c] = Append(outq[c], m), Told(c) \/ m[1] = "REGISTER_OK"
      PROVE  Told(c)'
  BY <1>1, <1>3, ToldBy
<1>4. ASSUME NEW m, outq'[c] = Append(outq[c], m), ~IsAck(m) PROVE Told(c)'
  BY <1>1, <1>3, <1>4, ShownAfter
<1>5. CASE StatusAck(c)
  <2>1. Serving(c) /\ job[c].line[1] = "STATUS"
    BY <1>5 DEF StatusAck, SysInv, Sound, LineFits, Serving
  <2>2. Told(c)
    BY <2>1, SpeaksAs DEF Typed
  <2>3. \E m : outq'[c] = outq[c] \/ outq'[c] = Append(outq[c], m)
    BY <1>5 DEF StatusAck, Send
  <2> QED
    BY <1>2, <1>3, <2>2, <2>3
<1>6. CASE Reply(c) /\ Telling(c)
  <2>1. PICK m : m = job[c].reply
    OBVIOUS
  <2>2. m[1] = "REGISTER_OK"
    BY <1>6, <2>1 DEF Telling
  <2>3. outq'[c] = outq[c] \/ outq'[c] = Append(outq[c], m)
    BY <1>6, <2>1, ReplySent
  <2> QED
    BY <1>2, <1>3, <2>2, <2>3
<1>7. CASE HandleStatus(c) /\ pc'[c] = "status_ack"
  BY <1>2, <1>7, StatusSet
<1> QED
  BY <1>2, <1>4, <1>5, <1>6, <1>7, PlainStep

\* That the session fits afterwards, in terms of the session as it then is.
LEMMA FitsThen ==
  ASSUME NEW s \in Slots, NEW c, NEW new, c = sess'[s].addr, new = sess'[s].status,
         sess'[s].is_active /\ Staying(c)' => Fits(c, new)'
  PROVE  FitsSession(s)'
BY DEF FitsSession, Staying, Fits, Marked, IsNotice, Acks, Shown, Before, StatusOf

\* Every step keeps what fits.
LEMMA FitsStep ==
  ASSUME SysInv, SysInv', SysNext, DistinctNames, DriftInv, NEW s \in Slots,
         sess'[s].is_active, NEW c, NEW new, c = sess'[s].addr, new = sess'[s].status,
         Staying(c)'
  PROVE  Fits(c, new)'
<1>1. TypeOK
  BY DEF SysInv, Inv, TypeInv
<1>2. CASE Add /\ ~sess[s].is_active /\ sess'[s] = NewSession(Peer(afd), afd, clock)
  <2>1. Peer(afd) \in Conns /\ pc[Peer(afd)] = "none"
    BY <1>2 DEF SysInv, Inv, Ownership, MainInv, Add
  <2>2. c = Peer(afd) /\ new = "ACTIVO"
    <3>1. /\ NewSession(Peer(afd), afd, clock).addr = Peer(afd)
          /\ NewSession(Peer(afd), afd, clock).status = "ACTIVO"
      BY DEF NewSession
    <3> QED
      BY <1>2, <3>1
  <2>3. Acks(c) = {}
    BY <2>1, <2>2 DEF DriftInv, SysInv, Sound, ToldTrue
  <2>4. Acks(c)' = {}
    BY <1>2, <2>3 DEF Add, kernel, Acks
  <2> QED
    BY <2>2, <2>4 DEF Fits
<1>3. CASE sess[s].is_active /\ sess'[s].addr = sess[s].addr /\ StatusKept(s)
  <2>1. PICK old : c = sess[s].addr /\ old = sess[s].status
    BY <1>3
  <2>2. c \in Conns
    BY <1>3, <2>1 DEF SysInv, Inv, Ownership, SlotInv
  <2>4. Staying(c)
    BY <2>2, NobodyReturns
  <2>5. Fits(c, old)
    BY <1>3, <2>1, <2>4 DEF DriftInv, FitsSession
  <2>7. CASE StatusAck(c) \/ (Reply(c) /\ Telling(c))
    <3>1. Fits(c, sess[s].status)' /\ sess' = sess
      BY <1>3, <2>1, <2>4, <2>5, <2>7, FitsConfirmed
    <3>2. new = old
      BY <2>1, <3>1
    <3> QED
      BY <2>1, <3>1, <3>2 DEF Fits
  <2>8. CASE HandleStatus(c) /\ pc'[c] = "status_ack"
    <3>1. /\ sess'[slot[c]].status = Arg1(job[c].line)
          /\ job' = job /\ outq' = outq /\ Told(c)
      BY <2>2, <2>8, StatusSet
    <3>2. Holding(c)
      BY <2>8 DEF HandleStatus, Handles, Holding
    <3>3. slot[c] = s
      BY <1>3, <2>1, <2>2, <3>2, OwnPeer, OneSession
    <3>4. Acks(c)' # {}
      BY <2>2, <3>1, ToldAcks DEF Acks
    <3> QED
      BY <2>8, <3>1, <3>3, <3>4 DEF Fits
  <2>9. CASE /\ ~(StatusAck(c) \/ (Reply(c) /\ Telling(c)))
             /\ ~(HandleStatus(c) /\ pc'[c] = "status_ack")
    <3>1. Fits(c, old)'
      BY <1>3, <2>1, <2>2, <2>4, <2>5, <2>9, PlainStep, FitsKept
    <3>2. CASE new = old
      BY <3>1, <3>2
    <3>3. CASE MonScan /\ Idle(sess[s], mnow, Timeout)
      <4>1. \E n \in notes' : n.owner = c
        <5> DEFINE overdue == {r \in Slots : Idle(sess[r], mnow, Timeout)}
                   n == [slot |-> s, fd |-> sess[s].sockfd, user |-> NoteName(sess[s]),
                         owner |-> sess[s].addr]
        <5>1. s \in overdue /\ notes' = NotesFor(overdue)
          BY <3>3 DEF MonScan
        <5> HIDE DEF overdue
        <5>2. n \in notes' /\ n.owner = c
          BY <2>1, <5>1 DEF NotesFor
        <5> HIDE DEF n
        <5> QED
          BY <5>2
      <4>2. \A place : Marked(c, place)'
        BY <4>1 DEF Marked
      <4> QED
        BY <4>2 DEF Fits
    <3>4. ASSUME NEW d \in Conns, HandleStatus(d), pc'[d] = "status_ack"
          PROVE  new = old
      <4>1. slot[d] # s
        <5>1. Holding(d)
          BY <3>4 DEF HandleStatus, Handles, Holding
        <5>2. d # c
          BY <2>9, <3>4
        <5> QED
          BY <2>1, <5>1, <5>2, OwnPeer
      <4> QED
        BY <2>1, <3>4, <4>1, StatusSet
    <3>5. CASE Touch(c) /\ old = "INACTIVO" /\ new = "ACTIVO"
      <4>1. pc'[c] # "status_ack"
        <5>1. Goto(c, "dispatch")
          BY <3>5 DEF Touch
        <5>2. pc'[c] = "dispatch"
          BY <1>1, <2>2, <5>1, Moves
        <5> QED
          BY <5>2
      <4> QED
        BY <3>1, <3>5, <4>1 DEF Fits
    <3> QED
      BY <1>3, <2>1, <3>2, <3>3, <3>4, <3>5 DEF StatusKept
  <2> QED
    BY <2>7, <2>8, <2>9
<1> QED
  BY <1>2, <1>3, StatusSteps

\* At first everything fits, and every step keeps DriftInv.
LEMMA DriftHolds ==
  /\ SysInit => DriftInv
  /\ /\ DistinctNames /\ SysInv /\ SysInv' /\ DriftInv /\ [SysNext]_sysVars
     => DriftInv'
<1>1. ASSUME SysInit PROVE DriftInv
  <2>1. /\ notes = {} /\ \A c \in Conns : outq[c] = <<>>
        /\ \A s \in Slots : ~sess[s].is_active
    BY <1>1 DEF SysInit, Init, EmptySession
  <2>2. \A c \in Conns : Acks(c) = {}
    BY <2>1 DEF Acks
  <2> QED
    BY <2>1, <2>2 DEF DriftInv, FitsSession
<1>2. ASSUME DistinctNames, SysInv, SysInv', DriftInv, SysNext PROVE DriftInv'
  <2>1. \A n \in notes' : NoteNamed(n)'
    BY <1>2, NotesStep DEF DriftInv
  <2>2. mpc' # "send" => notes' = {}
    <3>1. CASE notes' = notes /\ (mpc' = mpc \/ MonWake)
      BY <1>2, <3>1 DEF DriftInv, MonWake
    <3>2. CASE MonScan
      BY <3>2 DEF MonScan, NotesFor
    <3>3. CASE MonSend
      BY <3>3 DEF MonSend
    <3> QED
      BY <1>2, <3>1, <3>2, <3>3, NoticeSteps
  <2>3. \A c \in Conns : Acks(c)' # {} => Told(c)'
    BY <1>2, AcksAreTold DEF DriftInv
  <2>4. ASSUME NEW s \in Slots PROVE FitsSession(s)'
    <3>1. PICK c, new : c = sess'[s].addr /\ new = sess'[s].status
      OBVIOUS
    <3>2. sess'[s].is_active /\ Staying(c)' => Fits(c, new)'
      BY <1>2, <3>1, FitsStep
    <3> QED
      BY <3>1, <3>2, FitsThen
  <2> QED
    BY <2>1, <2>2, <2>3, <2>4 DEF DriftInv
<1>3. ASSUME DriftInv, UNCHANGED sysVars PROVE DriftInv'
  <2> USE DEF sysVars, vars, clients, kernel, shared, threads, monitor
  <2>1. \A n \in notes' : NoteNamed(n)'
    BY <1>3 DEF DriftInv, NoteNamed
  <2>2. \A c \in Conns : Acks(c)' # {} => Told(c)'
    BY <1>3 DEF DriftInv, Acks, Told
  <2>4. ASSUME NEW s \in Slots PROVE FitsSession(s)'
    <3>1. FitsSession(s)
      BY <1>3 DEF DriftInv
    <3> QED
      BY <1>3, <3>1
      DEF FitsSession, Staying, Fits, Marked, IsNotice, Acks, Shown, Before, StatusOf
  <2> QED
    BY <1>3, <2>1, <2>2, <2>4 DEF DriftInv
<1> QED
  BY <1>1, <1>2, <1>3

\* The server's status of a user is the one its client shows, or the client is
\* told why, if no two users call themselves the same (client_thread.c:20-22,
\* inactivity.c:27-44).
THEOREM DriftIsAnnounced ==
  ASSUME DistinctNames
  PROVE  SysSpec => []DriftAnnounced
<1>1. ASSUME SysInv, DriftInv PROVE DriftAnnounced
  <2> SUFFICES ASSUME NEW c \in Conns, cpc[c] = "chat", Holding(c), pc[c] # "status_ack"
               PROVE  \/ sess[slot[c]].status = Shown(c)
                      \/ Shown(c) = "INACTIVO"
                      \/ Notices(c) # {} \/ \E n \in notes : n.owner = c
    BY DEF DriftAnnounced
  <2>1. PICK s \in Slots : s = slot[c] /\ sess[s].is_active /\ sess[s].addr = c
    BY <1>1, OwnPeer
  <2>2. Fits(c, sess[s].status)
    BY <1>1, <2>1 DEF DriftInv, FitsSession, Staying
  <2>3. Acks(c) # {}
    <3>1. Told(c)
      BY <1>1 DEF SysInv, Sound, ToldTrue
    <3> QED
      BY <3>1, ToldAcks
  <2>4. Marked(c, Before(c)) => Notices(c) # {} \/ \E n \in notes : n.owner = c
    BY DEF Marked, Before, Notices, IsNotice
  <2> QED
    BY <2>1, <2>2, <2>3, <2>4 DEF Fits
<1>2. DistinctNames
  OBVIOUS
<1> QED
  BY <1>1, <1>2, SystemInvariant, DriftHolds, PTL DEF SysSpec

=============================================================================
