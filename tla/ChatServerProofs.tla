-------------------------- MODULE ChatServerProofs --------------------------
(***************************************************************************)
(* What the operators of ChatServer return, that its variables keep their  *)
(* types and that Ownership is an inductive invariant, for every number of *)
(* slots, clients, descriptors and lines, and what follows from it: the    *)
(* safety properties of ChatServerProperties that are about sessions and   *)
(* descriptors.                                                            *)
(***************************************************************************)
EXTENDS ChatServerProperties, SeqInduction

-----------------------------------------------------------------------------
(* Lookups in the table.                                                   *)

\* Lowest finds a member of the set, if there is one.
LEMMA LowestIn ==
  ASSUME NEW S \in SUBSET Slots
  PROVE  /\ S # {} => Lowest(S) \in S
         /\ S = {} => Lowest(S) = NoSlot
<1>1. CASE S = {}
  BY <1>1 DEF Lowest
<1>2. CASE S # {}
  <2>1. S \subseteq Nat
    BY MaxClientsAssumption DEF Slots
  <2>2. PICK s \in S : \A r \in S : s <= r
    BY <1>2, <2>1, LeastNat
  <2> QED
    BY <1>2, <2>2, Zenon DEF Lowest
<1> QED
  BY <1>1, <1>2

\* Slots are numbers, and the null pointer is none of them.
LEMMA SlotNumbers == NoSlot \notin Slots /\ Slots \subseteq Nat
BY MaxClientsAssumption DEF Slots, NoSlot

\* sessions_add takes a free slot if there is one.
LEMMA FreeSlotFound ==
  ASSUME NEW t
  PROVE  /\ FreeSlot(t) \in Slots \cup {NoSlot}
         /\ FreeSlot(t) \in Slots => ~t[FreeSlot(t)].is_active
         /\ FreeSlot(t) = NoSlot => \A s \in Slots : t[s].is_active
BY LowestIn, SlotNumbers DEF FreeSlot

\* sessions_find_by_sockfd finds an active slot with the descriptor, if any.
LEMMA FindByFdFound ==
  ASSUME NEW t, NEW f
  PROVE  /\ FindByFd(t, f) \in Slots \cup {NoSlot}
         /\ FindByFd(t, f) \in Slots =>
              t[FindByFd(t, f)].is_active /\ t[FindByFd(t, f)].sockfd = f
         /\ FindByFd(t, f) = NoSlot =>
              \A s \in Slots : ~(t[s].is_active /\ t[s].sockfd = f)
BY LowestIn, SlotNumbers DEF FindByFd

\* sessions_find_by_username finds an active slot with the name, if any.
LEMMA FindByUsernameFound ==
  ASSUME NEW t, NEW u
  PROVE  /\ FindByUsername(t, u) \in Slots \cup {NoSlot}
         /\ FindByUsername(t, u) \in Slots =>
              t[FindByUsername(t, u)].is_active
BY LowestIn, SlotNumbers DEF FindByUsername, Registered

-----------------------------------------------------------------------------
(* Types of the operators.                                                 *)

\* The three ways the code fills a slot give a session.
LEMMA SessionTypes ==
  /\ EmptySession \in Session
  /\ ClearedSession \in Session
  /\ \A c \in Conns \cup {NoConn}, f \in Fds \cup {NoFd}, now \in Nat :
       NewSession(c, f, now) \in Session
<1>1. EmptySession \in Session
  BY DEF EmptySession, Session, Statuses, NoFd
<1>2. ClearedSession \in Session
  BY DEF ClearedSession, Session, Statuses, NoFd
<1>3. ASSUME NEW c \in Conns \cup {NoConn}, NEW f \in Fds \cup {NoFd},
             NEW now \in Nat
      PROVE  NewSession(c, f, now) \in Session
  BY FdsAssumption DEF NewSession, Session, Statuses, NoFd
<1> QED
  BY <1>1, <1>2, <1>3

\* The ways a session is updated in place.
LEMMA SessionUpdates ==
  ASSUME NEW x \in Session
  PROVE  /\ \A a \in Conns \cup {NoConn} :
              [x EXCEPT !.thread_id = a] \in Session
         /\ \A u \in Statuses : [x EXCEPT !.status = u] \in Session
         /\ \A u \in ValidNames \cup {""} :
              [x EXCEPT !.username = u, !.is_registered = TRUE] \in Session
         /\ \A now \in Nat :
              Touched(x, now) \in Session /\ Touched(x, now).sockfd = x.sockfd
<1>1. ASSUME NEW now \in Nat
      PROVE  Touched(x, now) \in Session /\ Touched(x, now).sockfd = x.sockfd
  <2>1. (IF x.status = "INACTIVO" THEN "ACTIVO" ELSE x.status) \in Statuses
    BY DEF Session, Statuses
  <2> QED
    BY <2>1 DEF Session, Touched
<1> QED
  BY <1>1 DEF Session

\* sessions_remove_by_sockfd leaves a table, and clears or keeps each slot.
LEMMA RemoveByFdType ==
  ASSUME NEW t \in [Slots -> Session], NEW f
  PROVE  /\ RemoveByFd(t, f) \in [Slots -> Session]
         /\ \A s \in Slots :
              RemoveByFd(t, f)[s].sockfd \in {t[s].sockfd, NoFd}
BY SessionTypes DEF RemoveByFd, ClearedSession

\* The elements of a sequence over S are in S.
LEMMA ElementOfSeq ==
  ASSUME NEW S, NEW q \in Seq(S), NEW i \in 1 .. Len(q)
  PROVE  q[i] \in S
OBVIOUS

\* The fields parse_message takes out of a line are fields.
LEMMA FieldTypes ==
  ASSUME NEW l \in Line
  PROVE  Type(l) \in Fields /\ Arg1(l) \in Fields /\ Arg2(l) \in Fields
<1>1. "" \in Fields
  BY DEF Fields, Words
<1>2. ASSUME NEW i \in {1, 2, 3} PROVE Field(l, i) \in Fields
  <2>1. l \in Seq(Fields) /\ Len(l) \in Nat
    BY DEF Line
  <2>2. CASE i <= Len(l)
    <3>1. i \in 1 .. Len(l)
      BY <2>1, <2>2
    <3>2. l[i] \in Fields
      BY <2>1, <3>1, ElementOfSeq
    <3>3. i <= 3
      OBVIOUS
    <3> QED
      BY <2>2, <3>2, <3>3, Zenon DEF Field
  <2>3. CASE ~(i <= Len(l))
    BY <1>1, <2>3 DEF Field
  <2> QED
    BY <2>2, <2>3
<1> QED
  BY <1>2 DEF Type, Arg1, Arg2

\* The answer to LIST is a line.
LEMMA ListedNamesType ==
  ASSUME NEW t \in [Slots -> Session]
  PROVE  <<"LIST_OK">> \o ListedNames(t) \in Line
<1>0. ValidNames \cup {""} \subseteq Fields
  BY DEF Fields, Words
<1>1. \A s \in Slots : t[s].username \in Fields /\ "" \in Fields
  BY <1>0 DEF Session
<1>2. ListedNames(t) \in [1 .. MaxClients -> Fields]
  BY <1>1 DEF ListedNames, Slots
<1>3. ListedNames(t) \in Seq(Fields)
  BY <1>2, MaxClientsAssumption
<1>4. <<"LIST_OK">> \in Seq(Fields)
  BY DEF Fields, Words
<1> QED
  BY <1>3, <1>4 DEF Line

\* A send leaves the histories sequences of lines.
LEMMA SendType ==
  ASSUME TypeOK, NEW F, NEW m \in Line, Send(F, m)
  PROVE  outq' \in [Conns -> Seq(Line)]
BY DEF Send, TypeOK

\* A descriptor refers to a client's connection or to none.
LEMMA PeerType ==
  ASSUME TypeOK, NEW f
  PROVE  Peer(f) \in Conns \cup {NoConn}
BY DEF Peer, TypeOK

\* close() keeps the types of the kernel's tables.
LEMMA CloseFdType ==
  ASSUME TypeOK, NEW f, CloseFd(f)
  PROVE  /\ fdtab' \in [Fds -> Conns \cup {NoConn}]
         /\ conn' \in [Conns -> {"idle", "queued", "open", "closed"}]
         /\ gone' \in [Conns -> BOOLEAN]
BY DEF TypeOK, CloseFd

\* A thread goes to one of the places it can be at.
LEMMA GotoType ==
  ASSUME TypeOK, NEW c \in Conns, NEW l \in ThreadLabels, Goto(c, l)
  PROVE  pc' \in [Conns -> ThreadLabels]
BY DEF Goto, TypeOK

\* After a command a thread reads on, or cleans up.
LEMMA NextLoopType == NextLoop \in {"recv", "remove"}
BY DEF NextLoop

\* send_line keeps the types of the wire and of the thread's place.
LEMMA SendLineType ==
  ASSUME TypeOK, NEW c \in Conns, NEW f, NEW m \in Line, SendLine(c, f, m)
  PROVE  /\ outq' \in [Conns -> Seq(Line)]
         /\ pc' \in [Conns -> ThreadLabels]
<1>1. outq' \in [Conns -> Seq(Line)]
  BY SendType DEF SendLine
<1>2. PICK ok \in SendResults(f) : Goto(c, IF ok THEN NextLoop ELSE "remove")
  BY DEF SendLine
<1>3. (IF ok THEN NextLoop ELSE "remove") \in ThreadLabels
  BY NextLoopType DEF ThreadLabels
<1> QED
  BY <1>1, <1>2, <1>3, GotoType

\* Leaving an answer to be sent keeps the types of the thread.
LEMMA AnswerType ==
  ASSUME TypeOK, NEW c \in Conns, NEW m \in Line, Answer(c, m)
  PROVE  job' \in [Conns -> Job] /\ pc' \in [Conns -> ThreadLabels]
<1>1. pc' \in [Conns -> ThreadLabels]
  BY GotoType DEF Answer, ThreadLabels
<1>2. job' \in [Conns -> Job]
  BY DEF Answer, TypeOK, Job
<1> QED
  BY <1>1, <1>2

\* Lines made of the protocol's words and of fields that are there already.
LEMMA LineTypes ==
  /\ \A a \in Fields : <<a>> \in Line
  /\ \A a, b \in Fields : <<a, b>> \in Line
  /\ \A a, b, d \in Fields : <<a, b, d>> \in Line
BY DEF Line

\* The protocol's words, the statuses and the names may be fields.
LEMMA WordTypes ==
  Words \subseteq Fields /\ Statuses \subseteq Fields /\ ValidNames \subseteq Fields
BY DEF Fields, Words

\* A session's name and status may be sent as fields.
LEMMA SessionFields ==
  ASSUME TypeOK, NEW s \in Slots
  PROVE  sess[s].username \in Fields /\ sess[s].status \in Fields
<1>1. sess[s].username \in ValidNames \cup {""} /\ sess[s].status \in Statuses
  BY DEF TypeOK, Session
<1>2. "" \in Fields
  BY WordTypes DEF Words
<1> QED
  BY <1>1, <1>2, WordTypes

-----------------------------------------------------------------------------
(* The type invariant.                                                     *)

\* TypeOK alone is not inductive: a thread reads its session through slot[c],
\* and main writes one through aslot, so those must be slots by then; and the
\* name that add_session stores is one is_valid_username has accepted.
Pointers ==
  /\ apc \in {"spawn", "settid"} => aslot \in Slots
  /\ \A c \in Conns : Holding(c) => slot[c] \in Slots
  /\ \A c \in Conns :
       pc[c] = "reg_add" => Arg1(job[c].line) \in ValidNames

TypeInv == TypeOK /\ Pointers

\* What the thread of c can read of its session.
LEMMA OwnSession ==
  ASSUME TypeInv, NEW c \in Conns, Holding(c)
  PROVE  /\ slot[c] \in Slots
         /\ sess[slot[c]] \in Session
         /\ sess[slot[c]].sockfd \in Fds \cup {NoFd}
         /\ sess[slot[c]].username \in Fields
         /\ sess[slot[c]].status \in Fields
BY SessionFields DEF TypeInv, Pointers, TypeOK

\* The line a thread works on has fields, whatever the client sent.
LEMMA JobFields ==
  ASSUME TypeOK, NEW c \in Conns
  PROVE  /\ job[c].line \in Line
         /\ Type(job[c].line) \in Fields
         /\ Arg1(job[c].line) \in Fields
         /\ Arg2(job[c].line) \in Fields
<1>1. job[c].line \in Line
  BY DEF TypeOK, Job
<1> QED
  BY <1>1, FieldTypes

\* Clients, time and signals keep the types.
LEMMA EnvironmentTypes ==
  ASSUME TypeInv, Environment
  PROVE  TypeInv'
<1> USE DEF kernel, shared, mainv, threads, monitor
<1>1. ASSUME NEW c \in Conns, Connect(c) PROVE TypeInv'
  BY <1>1 DEF TypeInv, TypeOK, Pointers, Holding, Connect
<1>2. ASSUME NEW c \in Conns, PeerCloses(c) PROVE TypeInv'
  BY <1>2 DEF TypeInv, TypeOK, Pointers, Holding, PeerCloses
<1>3. CASE Tick
  BY <1>3 DEF TypeInv, TypeOK, Pointers, Holding, Tick
<1>4. CASE SignalMain
  BY <1>4 DEF TypeInv, TypeOK, Pointers, Holding, SignalMain, MainLabels
<1>5. CASE SignalOther
  BY <1>5 DEF TypeInv, TypeOK, Pointers, Holding, SignalOther
<1> QED
  BY <1>1, <1>2, <1>3, <1>4, <1>5 DEF Environment

\* Every step of the accept loop and of the shutdown keeps the types.
LEMMA MainTypes ==
  ASSUME TypeInv, Main
  PROVE  TypeInv'
<1> USE DEF kernel, shared, mainv, threads, monitor
<1>1. CASE Loop
  BY <1>1 DEF TypeInv, TypeOK, Pointers, Holding, Loop, MainLabels
<1>2. ASSUME NEW c \in Conns, Accept(c) PROVE TypeInv'
  BY <1>2 DEF TypeInv, TypeOK, Pointers, Holding, Accept, FreeFds, MainLabels
<1>3. CASE AcceptFails
  BY <1>3 DEF TypeInv, TypeOK, Pointers, Holding, AcceptFails, MainLabels
<1>4. CASE Add
  <2> DEFINE s == FreeSlot(sess)
  <2>1. s \in Slots \cup {NoSlot}
    BY FreeSlotFound
  <2>2. apc' \in MainLabels /\ apc' \notin {"spawn", "settid"}
    BY <1>4 DEF Add, AfterAdd, MainLabels
  <2>3. NewSession(Peer(afd), afd, clock) \in Session
    BY PeerType, SessionTypes DEF TypeInv, TypeOK
  <2>4. NewSession(Peer(afd), afd, clock).sockfd \in Fds \cup {NoFd}
    BY DEF NewSession, TypeInv, TypeOK
  <2>5. /\ sess' \in [Slots -> Session]
        /\ \A r \in Slots : sess'[r].sockfd \in Fds \cup {NoFd}
    BY <1>4, <2>1, <2>3, <2>4 DEF Add, TypeInv, TypeOK
  <2> QED
    BY <1>4, <2>2, <2>5 DEF TypeInv, TypeOK, Pointers, Holding, Add
<1>5. CASE Find
  <2>1. aslot' \in Slots \cup {NoSlot}
    BY <1>5, FindByFdFound DEF Find
  <2> QED
    BY <1>5, <2>1 DEF TypeInv, TypeOK, Pointers, Holding, Find, MainLabels
<1>6. CASE Spawn
  <2>1. Peer(afd) \in Conns \cup {NoConn}
    BY PeerType DEF TypeInv
  <2> QED
    BY <1>6, <2>1
    DEF TypeInv, TypeOK, Pointers, Holding, Spawn, MainLabels, ThreadLabels
<1>7. CASE SpawnFails
  BY <1>7 DEF TypeInv, TypeOK, Pointers, Holding, SpawnFails, MainLabels
<1>8. CASE SetTid
  <2>1. /\ sess' \in [Slots -> Session]
        /\ \A r \in Slots : sess'[r].sockfd \in Fds \cup {NoFd}
    <3>1. aslot \in Slots /\ sess[aslot] \in Session
      BY <1>8 DEF SetTid, TypeInv, TypeOK, Pointers
    <3>2. sess' = [sess EXCEPT ![aslot] = [@ EXCEPT !.thread_id = atid]]
      BY <1>8 DEF SetTid
    <3>3. [sess[aslot] EXCEPT !.thread_id = atid] \in Session
      BY <3>1, SessionUpdates DEF TypeInv, TypeOK
    <3>4. [sess[aslot] EXCEPT !.thread_id = atid].sockfd = sess[aslot].sockfd
      BY <3>1 DEF Session
    <3> QED
      BY <3>1, <3>2, <3>3, <3>4 DEF TypeInv, TypeOK
  <2> QED
    BY <1>8, <2>1 DEF TypeInv, TypeOK, Pointers, Holding, SetTid, MainLabels
<1>9. CASE Drop
  <2>1. /\ sess' \in [Slots -> Session]
        /\ \A r \in Slots : sess'[r].sockfd \in Fds \cup {NoFd}
    BY <1>9, RemoveByFdType DEF Drop, TypeInv, TypeOK
  <2> QED
    BY <1>9, <2>1 DEF TypeInv, TypeOK, Pointers, Holding, Drop, MainLabels
<1>10. CASE Close
  BY <1>10, CloseFdType
  DEF TypeInv, TypeOK, Pointers, Holding, Close, MainLabels
<1>11. CASE Shutdown
  BY <1>11 DEF TypeInv, TypeOK, Pointers, Holding, Shutdown, MainLabels
<1>12. CASE ShutSessions
  BY <1>12 DEF TypeInv, TypeOK, Pointers, Holding, ShutSessions, MainLabels
<1>13. CASE Join
  BY <1>13 DEF TypeInv, TypeOK, Pointers, Holding, Join, MainLabels
<1> QED
  BY <1>1, <1>2, <1>3, <1>4, <1>5, <1>6, <1>7, <1>8, <1>9, <1>10, <1>11,
     <1>12, <1>13 DEF Main

\* Every step of the inactivity monitor keeps the types.
LEMMA MonitorTypes ==
  ASSUME TypeInv, Monitor
  PROVE  TypeInv'
<1> USE DEF kernel, shared, mainv, threads, monitor
<1>1. CASE MonWake
  BY <1>1 DEF TypeInv, TypeOK, Pointers, Holding, MonWake
<1>2. CASE MonScan
  <2> DEFINE overdue == {s \in Slots : Idle(sess[s], mnow, Timeout)}
  <2>1. /\ sess' = [s \in Slots |->
                      IF s \in overdue
                      THEN [sess[s] EXCEPT !.status = "INACTIVO"]
                      ELSE sess[s]]
        /\ notes' = NotesFor(overdue)
        /\ mpc' \in {"wake", "scan", "send", "done"}
        /\ UNCHANGED <<kernel, running, listening, clock, handler, mainv,
                       threads, mnow>>
    BY <1>2 DEF MonScan
  <2>2. \A s \in Slots :
          /\ [sess[s] EXCEPT !.status = "INACTIVO"] \in Session
          /\ [sess[s] EXCEPT !.status = "INACTIVO"].sockfd = sess[s].sockfd
    <3>1. \A s \in Slots : sess[s] \in Session
      BY DEF TypeInv, TypeOK
    <3>2. "INACTIVO" \in Statuses
      BY DEF Statuses
    <3> QED
      BY <3>1, <3>2, SessionUpdates DEF Session
  <2>3. /\ sess' \in [Slots -> Session]
        /\ \A r \in Slots : sess'[r].sockfd \in Fds \cup {NoFd}
    <3> HIDE DEF overdue
    <3> QED
      BY <2>1, <2>2 DEF TypeInv, TypeOK
  <2>4. \A s \in Slots : NoteName(sess[s]) \in Fields
    BY SessionFields, WordTypes DEF NoteName, Words, TypeInv
  <2>5. \A s \in Slots :
          [slot |-> s, fd |-> sess[s].sockfd, user |-> NoteName(sess[s]),
           owner |-> sess[s].addr] \in Note
    BY <2>4 DEF TypeInv, TypeOK, Session, Note
  <2>6. notes' \subseteq Note
    <3>1. overdue \subseteq Slots
      OBVIOUS
    <3> HIDE DEF overdue
    <3> QED
      BY <2>1, <2>5, <3>1 DEF NotesFor
  <2> QED
    BY <2>1, <2>3, <2>6 DEF TypeInv, TypeOK, Pointers, Holding
<1>3. CASE MonSend
  <2>1. PICK n \in notes :
          /\ Send({n.fd}, <<"STATUS_CHANGED", n.user, "INACTIVO">>)
          /\ notes' = notes \ {n}
    BY <1>3 DEF MonSend
  <2>2. n.user \in Fields /\ "STATUS_CHANGED" \in Fields /\ "INACTIVO" \in Fields
    BY WordTypes DEF TypeInv, TypeOK, Note, Words, Statuses
  <2>3. outq' \in [Conns -> Seq(Line)]
    BY <2>1, <2>2, LineTypes, SendType DEF TypeInv
  <2> QED
    BY <1>3, <2>1, <2>3 DEF TypeInv, TypeOK, Pointers, Holding, MonSend
<1> QED
  BY <1>1, <1>2, <1>3 DEF Monitor

\* A step of c's thread that leaves the shared state and the pointers alone.
LEMMA OwnStepTypes ==
  ASSUME TypeInv, NEW c \in Conns, Holding(c),
         UNCHANGED <<conn, gone, fdtab, asked, shared, mainv, slot, monitor>>,
         fd' \in [Conns -> Fds \cup {NoFd}],
         outq' \in [Conns -> Seq(Line)],
         job' \in [Conns -> Job],
         pc' \in [Conns -> ThreadLabels],
         \A d \in Conns \ {c} : pc'[d] = pc[d] /\ job'[d] = job[d],
         pc'[c] = "reg_add" => Arg1(job'[c].line) \in ValidNames
  PROVE  TypeInv'
BY DEF TypeInv, TypeOK, Pointers, Holding, shared, mainv, monitor

\* Goto and its relatives move only one thread.
LEMMA Moves ==
  ASSUME TypeOK, NEW c \in Conns
  PROVE  /\ \A l : Goto(c, l) =>
              pc'[c] = l /\ \A d \in Conns \ {c} : pc'[d] = pc[d]
         /\ \A f, m : SendLine(c, f, m) =>
              /\ pc'[c] \in {"recv", "remove"}
              /\ \A d \in Conns \ {c} : pc'[d] = pc[d]
         /\ \A m : Answer(c, m) =>
              /\ pc'[c] = "reply"
              /\ \A d \in Conns \ {c} : pc'[d] = pc[d] /\ job'[d] = job[d]
BY DEF Goto, SendLine, Answer, NextLoop, TypeOK

\* The same for a step that changes sessions in place.
LEMMA OwnUpdateTypes ==
  ASSUME TypeInv, NEW c \in Conns, Holding(c),
         UNCHANGED <<kernel, running, listening, clock, handler, mainv, slot,
                     fd, monitor>>,
         sess' \in [Slots -> Session],
         \A s \in Slots : sess'[s].sockfd \in {sess[s].sockfd, NoFd},
         job' \in [Conns -> Job],
         pc' \in [Conns -> ThreadLabels],
         \A d \in Conns \ {c} : pc'[d] = pc[d] /\ job'[d] = job[d],
         pc'[c] = "reg_add" => Arg1(job'[c].line) \in ValidNames
  PROVE  TypeInv'
BY DEF TypeInv, TypeOK, Pointers, Holding, kernel, mainv, monitor

\* A step of a thread that sends one line of its own keeps the types.
LEMMA SendLineTypes ==
  ASSUME TypeInv, NEW c \in Conns, Holding(c), NEW f, NEW m \in Line,
         SendLine(c, f, m),
         fd' \in [Conns -> Fds \cup {NoFd}],
         UNCHANGED <<conn, gone, fdtab, asked, shared, mainv, slot, job,
                     monitor>>
  PROVE  TypeInv'
<1>1. TypeOK
  BY DEF TypeInv
<1>2. outq' \in [Conns -> Seq(Line)] /\ pc' \in [Conns -> ThreadLabels]
  BY <1>1, SendLineType
<1>3. job' \in [Conns -> Job]
  BY <1>1 DEF TypeOK
<1> QED
  BY <1>1, <1>2, <1>3, Moves, OwnStepTypes

\* So does a step that sends one line to any descriptors.
LEMMA SendTypes ==
  ASSUME TypeInv, NEW c \in Conns, Holding(c), NEW F, NEW m \in Line,
         Send(F, m), NEW l \in ThreadLabels \ {"reg_add"}, Goto(c, l),
         job' \in [Conns -> Job], \A d \in Conns \ {c} : job'[d] = job[d],
         UNCHANGED <<conn, gone, fdtab, asked, shared, mainv, slot, fd,
                     monitor>>
  PROVE  TypeInv'
<1>1. TypeOK
  BY DEF TypeInv
<1>2. outq' \in [Conns -> Seq(Line)] /\ pc' \in [Conns -> ThreadLabels]
  BY <1>1, SendType, GotoType
<1>3. fd' \in [Conns -> Fds \cup {NoFd}]
  BY <1>1 DEF TypeOK
<1> QED
  BY <1>1, <1>2, <1>3, Moves, OwnStepTypes

\* So does a step that leaves an answer to be sent.
LEMMA AnswerTypes ==
  ASSUME TypeInv, NEW c \in Conns, Holding(c), NEW m \in Line, Answer(c, m),
         UNCHANGED <<kernel, shared, mainv, slot, fd, monitor>>
  PROVE  TypeInv'
<1>1. TypeOK
  BY DEF TypeInv
<1>2. job' \in [Conns -> Job] /\ pc' \in [Conns -> ThreadLabels]
  BY <1>1, AnswerType
<1>3. fd' \in [Conns -> Fds \cup {NoFd}] /\ outq' \in [Conns -> Seq(Line)]
  BY <1>1 DEF TypeOK, kernel
<1> QED
  BY <1>1, <1>2, <1>3, Moves, OwnStepTypes DEF kernel

\* So does a step that only goes to another place.
LEMMA GotoTypes ==
  ASSUME TypeInv, NEW c \in Conns, Holding(c), NEW l \in ThreadLabels,
         Goto(c, l), job' \in [Conns -> Job],
         \A d \in Conns \ {c} : job'[d] = job[d],
         l = "reg_add" => Arg1(job'[c].line) \in ValidNames,
         UNCHANGED <<kernel, shared, mainv, slot, fd, monitor>>
  PROVE  TypeInv'
<1>1. TypeOK
  BY DEF TypeInv
<1>2. pc' \in [Conns -> ThreadLabels]
  BY <1>1, GotoType
<1>3. fd' \in [Conns -> Fds \cup {NoFd}] /\ outq' \in [Conns -> Seq(Line)]
  BY <1>1 DEF TypeOK, kernel
<1> QED
  BY <1>1, <1>2, <1>3, Moves, OwnStepTypes DEF kernel

\* The lines the server sends are lines.
LEMMA Messages ==
  ASSUME TypeInv, NEW c \in Conns, Holding(c)
  PROVE  LET l == job[c].line
             user == sess[slot[c]].username
         IN  /\ <<"WELCOME", "CHAT/1.0">> \in Line
             /\ <<"PONG">> \in Line
             /\ <<"BYE">> \in Line
             /\ \A op \in Commands \cup {"PROTO"},
                   code \in {"NOT_IMPLEMENTED", "BAD_FORMAT", "DUPLICATE_NAME",
                             "USER_NOT_FOUND", "UNKNOWN_CMD", "INVALID_STATUS"} :
                  Error(op, code) \in Line
             /\ <<"REGISTER_OK", Arg1(l), "ACTIVO">> \in Line
             /\ <<"LIST_OK">> \o ListedNames(sess) \in Line
             /\ \A s \in Slots : <<"INFO_OK", Arg1(l), sess[s].status>> \in Line
             /\ <<"STATUS_OK", Arg1(l)>> \in Line
             /\ <<"MSG_OK", Arg1(l)>> \in Line
             /\ <<"BROADCAST_OK">> \in Line
             /\ <<"DELIVER", user, Arg2(l)>> \in Line
             /\ <<"BROADCAST_FROM", user, Arg2(l)>> \in Line
             /\ <<"STATUS_CHANGED", user, Arg1(l)>> \in Line
<1>1. TypeOK
  BY DEF TypeInv
<1>2. Arg1(job[c].line) \in Fields /\ Arg2(job[c].line) \in Fields
  BY <1>1, JobFields
<1>3. sess[slot[c]].username \in Fields
  BY OwnSession
<1>4. \A s \in Slots : sess[s].status \in Fields
  BY <1>1, SessionFields
<1>5. {"WELCOME", "CHAT/1.0", "PONG", "BYE", "ERROR", "PROTO",
       "NOT_IMPLEMENTED", "BAD_FORMAT", "DUPLICATE_NAME", "USER_NOT_FOUND",
       "UNKNOWN_CMD", "INVALID_STATUS", "REGISTER_OK", "LIST_OK", "INFO_OK",
       "STATUS_OK", "MSG_OK", "BROADCAST_OK", "DELIVER", "BROADCAST_FROM",
       "STATUS_CHANGED", "ACTIVO"} \subseteq Fields
  BY WordTypes DEF Words, Statuses
<1>6. Commands \subseteq Fields
  BY WordTypes DEF Words
<1>7. <<"LIST_OK">> \o ListedNames(sess) \in Line
  BY <1>1, ListedNamesType DEF TypeOK
<1>8. \A op \in Commands \cup {"PROTO"},
         code \in {"NOT_IMPLEMENTED", "BAD_FORMAT", "DUPLICATE_NAME",
                   "USER_NOT_FOUND", "UNKNOWN_CMD", "INVALID_STATUS"} :
        Error(op, code) \in Line
  BY <1>5, <1>6, LineTypes DEF Error
<1> QED
  BY <1>2, <1>3, <1>4, <1>5, <1>7, <1>8, LineTypes

\* Every handler keeps the types.
LEMMA HandleTypes ==
  ASSUME TypeInv, NEW c \in Conns, Handle(c)
  PROVE  TypeInv'
<1> USE DEF kernel, shared
<1>1. TypeOK
  BY DEF TypeInv
<1>2. Holding(c)
  BY DEF Holding, Handle, Handles, HandleRegister, RegAdd, HandleMsg, Deliver,
         HandleBroadcast, HandleList, HandleInfo, InfoGet, HandleStatus,
         StatusAck, StatusNotify, HandleQuit, Reply
<1> DEFINE l == job[c].line
           user == sess[slot[c]].username
<1>3. job \in [Conns -> Job] /\ job[c] \in Job
  BY <1>1 DEF TypeOK
<1>4. NextLoop \in ThreadLabels \ {"reg_add"}
  BY NextLoopType DEF ThreadLabels
<1>5. CASE HandleRegister(c)
  <2>1. CASE Answer(c, Error("REGISTER", "BAD_FORMAT"))
    BY <1>2, <1>5, <2>1, Messages, AnswerTypes DEF HandleRegister, Commands
  <2>2. CASE Answer(c, Error("REGISTER", "DUPLICATE_NAME"))
    BY <1>2, <1>5, <2>2, Messages, AnswerTypes DEF HandleRegister, Commands
  <2>3. CASE Arg1(l) \in ValidNames /\ Goto(c, "reg_add") /\ UNCHANGED job
    BY <1>2, <1>3, <1>5, <2>3, GotoTypes DEF HandleRegister, ThreadLabels
  <2> QED
    BY <1>5, <2>1, <2>2, <2>3 DEF HandleRegister
<1>6. CASE RegAdd(c)
  <2> DEFINE name == Arg1(l)
             s == FindByFd(sess, fd[c])
  <2>1. name \in ValidNames
    BY <1>6 DEF RegAdd, TypeInv, Pointers
  <2>2. /\ sess' \in [Slots -> Session]
        /\ \A r \in Slots : sess'[r].sockfd \in {sess[r].sockfd, NoFd}
    <3>1. CASE s = NoSlot
      BY <1>1, <1>6, <3>1 DEF RegAdd, AddSession, TypeOK
    <3>2. CASE s # NoSlot
      <4> DEFINE new == [sess[s] EXCEPT !.username = name, !.is_registered = TRUE]
      <4>1. s \in Slots /\ sess[s] \in Session
        BY <1>1, <3>2, FindByFdFound DEF TypeOK
      <4>2. sess' = [sess EXCEPT ![s] = new]
        BY <1>6, <3>2 DEF RegAdd, AddSession
      <4>3. new \in Session /\ new.sockfd = sess[s].sockfd
        BY <2>1, <4>1, SessionUpdates DEF Session
      <4> HIDE DEF new, s
      <4> QED
        BY <1>1, <4>1, <4>2, <4>3 DEF TypeOK
    <3> QED
      BY <3>1, <3>2
  <2>3. <<"REGISTER_OK", name, "ACTIVO">> \in Line
    BY <1>2, Messages
  <2>4. Answer(c, <<"REGISTER_OK", name, "ACTIVO">>)
    BY <1>6 DEF RegAdd
  <2>5. job' \in [Conns -> Job] /\ pc' \in [Conns -> ThreadLabels]
    BY <1>1, <2>3, <2>4, AnswerType
  <2> QED
    BY <1>1, <1>2, <1>6, <2>2, <2>4, <2>5, Moves, OwnUpdateTypes DEF RegAdd
<1>7. CASE HandleMsg(c)
  <2> DEFINE s == FindByUsername(sess, Arg1(l))
  <2>1. CASE Answer(c, Error("MSG", "USER_NOT_FOUND"))
    BY <1>2, <1>7, <2>1, Messages, AnswerTypes DEF HandleMsg, Commands
  <2>2. CASE /\ FindUserFd(sess, Arg1(l)) # NoFd
             /\ job' = [job EXCEPT ![c].dst = FindUserFd(sess, Arg1(l)),
                                   ![c].addressee = sess[s].addr]
             /\ Goto(c, "deliver")
    <3>1. s \in Slots
      BY <2>2, FindByUsernameFound DEF FindUserFd
    <3>2. FindUserFd(sess, Arg1(l)) = sess[s].sockfd
      BY <3>1, SlotNumbers DEF FindUserFd
    <3>3. /\ sess[s].sockfd \in Fds \cup {NoFd}
          /\ sess[s].addr \in Conns \cup {NoConn}
      BY <1>1, <3>1 DEF TypeOK, Session
    <3>4. job' \in [Conns -> Job]
      BY <1>3, <2>2, <3>2, <3>3 DEF Job
    <3> QED
      BY <1>2, <1>7, <2>2, <3>4, GotoTypes DEF HandleMsg, ThreadLabels
  <2> QED
    BY <1>7, <2>1, <2>2 DEF HandleMsg
<1>8. CASE Deliver(c)
  <2>1. <<"MSG_OK", Arg1(l)>> \in Line /\ <<"DELIVER", user, Arg2(l)>> \in Line
    BY <1>2, Messages
  <2>2. job' \in [Conns -> Job]
    BY <1>3, <1>8, <2>1 DEF Deliver, Job
  <2> QED
    BY <1>2, <1>8, <2>1, <2>2, SendTypes DEF Deliver, ThreadLabels
<1>9. CASE HandleBroadcast(c)
  <2>1. /\ <<"BROADCAST_FROM", user, Arg2(l)>> \in Line
        /\ <<"BROADCAST_OK">> \in Line
    BY <1>2, Messages
  <2>2. job' \in [Conns -> Job] /\ Goto(c, "reply")
    BY <1>1, <1>9, <2>1, AnswerType DEF HandleBroadcast, Answer
  <2>3. \A d \in Conns \ {c} : job'[d] = job[d]
    BY <1>1, <1>9, Moves DEF HandleBroadcast
  <2> QED
    BY <1>2, <1>9, <2>1, <2>2, <2>3, SendTypes DEF HandleBroadcast, ThreadLabels
<1>10. CASE HandleList(c)
  BY <1>2, <1>10, Messages, AnswerTypes DEF HandleList
<1>11. CASE HandleInfo(c)
  <2>1. CASE Answer(c, Error("INFO", "USER_NOT_FOUND"))
    BY <1>2, <1>11, <2>1, Messages, AnswerTypes DEF HandleInfo, Commands
  <2>2. CASE Goto(c, "info_get") /\ UNCHANGED job
    BY <1>2, <1>3, <1>11, <2>2, GotoTypes DEF HandleInfo, ThreadLabels
  <2> QED
    BY <1>11, <2>1, <2>2 DEF HandleInfo
<1>12. CASE InfoGet(c)
  <2> DEFINE s == FindByUsername(sess, Arg1(l))
  <2>1. CASE s = NoSlot
    BY <1>2, <1>12, <2>1, Messages, AnswerTypes DEF InfoGet, Commands
  <2>2. CASE s # NoSlot
    <3>1. s \in Slots
      BY <2>2, FindByUsernameFound
    <3> QED
      BY <1>2, <1>12, <2>2, <3>1, Messages, AnswerTypes DEF InfoGet
  <2> QED
    BY <2>1, <2>2
<1>13. CASE HandleStatus(c)
  <2> DEFINE status == Arg1(l)
             s == FindByUsername(sess, user)
  <2>1. CASE ~ValidStatus(status)
    BY <1>2, <1>13, <2>1, Messages, AnswerTypes DEF HandleStatus, Commands
  <2>2. CASE ValidStatus(status)
    <3>1. /\ sess' \in [Slots -> Session]
          /\ \A r \in Slots : sess'[r].sockfd \in {sess[r].sockfd, NoFd}
      <4>1. CASE s = NoSlot
        BY <1>1, <1>13, <2>2, <4>1 DEF HandleStatus, SetUserStatus, TypeOK
      <4>2. CASE s # NoSlot
        <5> DEFINE new == [sess[s] EXCEPT !.status = status]
        <5>1. s \in Slots /\ sess[s] \in Session
          BY <1>1, <4>2, FindByUsernameFound DEF TypeOK
        <5>2. sess' = [sess EXCEPT ![s] = new]
          BY <1>13, <2>2, <4>2 DEF HandleStatus, SetUserStatus
        <5>3. new \in Session /\ new.sockfd = sess[s].sockfd
          BY <2>2, <5>1, SessionUpdates DEF Session, ValidStatus
        <5> HIDE DEF new, s
        <5> QED
          BY <1>1, <5>1, <5>2, <5>3 DEF TypeOK
      <4> QED
        BY <4>1, <4>2
    <3>2. Goto(c, "status_ack") /\ UNCHANGED job
      BY <1>13, <2>2 DEF HandleStatus
    <3>3. pc' \in [Conns -> ThreadLabels]
      BY <1>1, <3>2, GotoType DEF ThreadLabels
    <3> QED
      BY <1>1, <1>2, <1>3, <1>13, <3>1, <3>2, <3>3, Moves, OwnUpdateTypes
      DEF HandleStatus
  <2> QED
    BY <2>1, <2>2
<1>14. CASE StatusAck(c)
  BY <1>2, <1>3, <1>14, Messages, SendTypes DEF StatusAck, ThreadLabels
<1>15. CASE StatusNotify(c)
  BY <1>2, <1>3, <1>4, <1>15, Messages, SendTypes DEF StatusNotify
<1>16. CASE HandleQuit(c)
  BY <1>2, <1>3, <1>4, <1>16, Messages, SendTypes DEF HandleQuit
<1>17. CASE Reply(c)
  <2>1. <<>> \in Line /\ job[c].reply \in Line
    BY <1>3 DEF Line, Job
  <2>2. job' \in [Conns -> Job]
    BY <1>3, <1>17, <2>1 DEF Reply, Job
  <2> QED
    BY <1>2, <1>4, <1>17, <2>1, <2>2, SendTypes DEF Reply
<1> QED
  BY <1>5, <1>6, <1>7, <1>8, <1>9, <1>10, <1>11, <1>12, <1>13, <1>14, <1>15,
     <1>16, <1>17 DEF Handle

\* Every step of a client thread keeps the types.
LEMMA ThreadTypes ==
  ASSUME TypeInv, NEW c \in Conns, ThreadRuns(c)
  PROVE  TypeInv'
<1> USE DEF kernel, shared
<1>1. TypeOK
  BY DEF TypeInv
<1>2. job \in [Conns -> Job] /\ job[c] \in Job /\ fd \in [Conns -> Fds \cup {NoFd}]
  BY <1>1 DEF TypeOK
<1>3. CASE Begin(c)
  <2>1. Holding(c)
    BY <1>3 DEF Begin, Holding
  <2>2. fd' \in [Conns -> Fds \cup {NoFd}]
    BY <1>2, <1>3, <2>1, OwnSession DEF Begin
  <2> QED
    BY <1>3, <2>1, <2>2, Messages, SendLineTypes DEF Begin
<1>4. CASE RecvEnd(c)
  BY <1>2, <1>4, GotoTypes DEF RecvEnd, Holding, ThreadLabels
<1>5. CASE Touch(c)
  <2> DEFINE s == job[c].found
  <2>1. /\ sess' \in [Slots -> Session]
        /\ \A r \in Slots : sess'[r].sockfd \in {sess[r].sockfd, NoFd}
    <3>1. CASE s # NoSlot /\ sess[s].is_active
      <4> DEFINE new == Touched(sess[s], clock)
      <4>1. s \in Slots /\ sess[s] \in Session /\ clock \in Nat
        BY <1>1, <1>2, <3>1 DEF TypeOK, Job
      <4>2. sess' = [sess EXCEPT ![s] = new]
        BY <1>5, <3>1 DEF Touch
      <4>3. new \in Session /\ new.sockfd = sess[s].sockfd
        BY <4>1, SessionUpdates
      <4> HIDE DEF new, s
      <4> QED
        BY <1>1, <4>1, <4>2, <4>3 DEF TypeOK
    <3>2. CASE ~(s # NoSlot /\ sess[s].is_active)
      BY <1>1, <1>5, <3>2 DEF Touch, TypeOK
    <3> QED
      BY <3>1, <3>2
  <2>2. job' \in [Conns -> Job] /\ \A d \in Conns \ {c} : job'[d] = job[d]
    BY <1>2, <1>5 DEF Touch, Job
  <2>3. pc' \in [Conns -> ThreadLabels]
    BY <1>1, <1>5, GotoType DEF Touch, ThreadLabels
  <2> QED
    BY <1>1, <1>5, <2>1, <2>2, <2>3, Moves, OwnUpdateTypes DEF Touch, Holding
<1>6. CASE Ping(c)
  BY <1>2, <1>6, Messages, SendLineTypes DEF Ping, Holding
<1>7. CASE Quit(c)
  BY <1>2, <1>7, Messages, SendTypes DEF Quit, Holding, ThreadLabels
<1>8. CASE Unparsed(c)
  BY <1>2, <1>8, Messages, SendLineTypes DEF Unparsed, Holding
<1>9. CASE Handle(c)
  BY <1>9, HandleTypes
<1>10. CASE Remove(c)
  <2>1. /\ sess' \in [Slots -> Session]
        /\ \A r \in Slots : sess'[r].sockfd \in {sess[r].sockfd, NoFd}
    BY <1>1, <1>10, RemoveByFdType DEF Remove, TypeOK
  <2>2. NoJob \in Job
    BY DEF NoJob, Job, Line
  <2>3. job' \in [Conns -> Job] /\ \A d \in Conns \ {c} : job'[d] = job[d]
    BY <1>2, <1>10, <2>2 DEF Remove
  <2>4. PICK l \in {"done", "close"} : Goto(c, l)
    BY <1>10 DEF Remove
  <2>5. pc' \in [Conns -> ThreadLabels]
    BY <1>1, <2>4, GotoType DEF ThreadLabels
  <2> QED
    BY <1>1, <1>10, <2>1, <2>3, <2>4, <2>5, Moves, OwnUpdateTypes
    DEF Remove, Holding
<1>11. CASE CloseOwn(c)
  BY <1>11, CloseFdType
  DEF TypeInv, TypeOK, Pointers, Holding, CloseOwn, Goto, ThreadLabels, mainv,
      monitor
<1> QED
  BY <1>3, <1>4, <1>5, <1>6, <1>7, <1>8, <1>9, <1>10, <1>11 DEF ThreadRuns

\* recv_line returning any line keeps the types.
LEMMA RecvTypes ==
  ASSUME TypeInv, NEW c \in Conns, NEW l \in FirstInputs \cup Inputs, Recv(c, l)
  PROVE  TypeInv'
<1>1. TypeOK
  BY DEF TypeInv
<1>2. l \in Line
  BY InputsAssumption DEF Line
<1>3. asked' \in [Conns -> Seq(Line)]
  BY <1>1, <1>2 DEF Recv, TypeOK
<1>4. job' \in [Conns -> Job]
  <2> DEFINE new == [job[c] EXCEPT !.line = l, !.found = FindByFd(sess, fd[c])]
  <2>1. job[c] \in Job /\ job \in [Conns -> Job]
    BY <1>1 DEF TypeOK
  <2>2. new \in Job
    BY <1>2, <2>1, FindByFdFound DEF Job
  <2>3. job' = [job EXCEPT ![c] = new]
    BY <2>1 DEF Recv
  <2> HIDE DEF new
  <2> QED
    BY <2>1, <2>2, <2>3
<1>5. pc' \in [Conns -> ThreadLabels]
  BY <1>1, GotoType DEF Recv, ThreadLabels
<1>6. /\ pc'[c] = "touch"
      /\ \A d \in Conns \ {c} : pc'[d] = pc[d] /\ job'[d] = job[d]
  BY <1>1, Moves DEF Recv, TypeOK
<1> QED
  BY <1>1, <1>3, <1>4, <1>5, <1>6
  DEF TypeInv, TypeOK, Pointers, Holding, Recv, shared, mainv, monitor

\* Every step keeps the types, whatever the number of slots and clients.
THEOREM TypeStep == TypeInv /\ [Next]_vars => TypeInv'
<1> SUFFICES ASSUME TypeInv, [Next]_vars
             PROVE  TypeInv'
  OBVIOUS
<1>1. CASE UNCHANGED vars
  BY <1>1 DEF vars, kernel, shared, mainv, threads, monitor, TypeInv, TypeOK,
              Pointers, Holding
<1>2. CASE Environment
  BY <1>2, EnvironmentTypes
<1>3. CASE HandlerCloses
  BY <1>3 DEF HandlerCloses, kernel, mainv, threads, monitor, TypeInv, TypeOK,
              Pointers, Holding
<1>4. CASE Main
  BY <1>4, MainTypes
<1>5. CASE Monitor
  BY <1>5, MonitorTypes
<1>6. CASE \E c \in Conns : ThreadRuns(c)
  BY <1>6, ThreadTypes
<1>7. CASE \E c \in Conns, l \in FirstInputs \cup Inputs : Recv(c, l)
  BY <1>7, RecvTypes
<1> QED
  BY <1>1, <1>2, <1>3, <1>4, <1>5, <1>6, <1>7 DEF Next

\* The types hold when the server starts.
LEMMA InitTypes == Init => TypeInv
<1> SUFFICES ASSUME Init PROVE TypeInv
  OBVIOUS
<1>1. <<>> \in Seq(Line) /\ NoJob \in Job
  BY DEF NoJob, Job, Line
<1>2. EmptySession \in Session /\ EmptySession.sockfd = NoFd
  BY SessionTypes DEF EmptySession
<1> QED
  BY <1>1, <1>2
  DEF Init, TypeInv, TypeOK, Pointers, Holding, MainLabels, ThreadLabels

\* TypeOK is an invariant of the server.
THEOREM TypeCorrect == Spec => []TypeOK
<1>1. TypeInv => TypeOK
  BY DEF TypeInv
<1> QED
  BY InitTypes, TypeStep, <1>1, PTL DEF Spec

-----------------------------------------------------------------------------
(* Ownership.                                                              *)

Inv == TypeInv /\ Ownership

\* What the properties look at in a session, apart from its status.
SameSessions ==
  \A s \in Slots :
    /\ sess'[s].is_active = sess[s].is_active
    /\ sess'[s].sockfd = sess[s].sockfd
    /\ sess'[s].addr = sess[s].addr
    /\ sess'[s].thread_id = sess[s].thread_id
    /\ ~sess[s].is_active => sess'[s] = sess[s]

-----------------------------------------------------------------------------
(* Steps that concern neither descriptors nor the owners of sessions.      *)

\* A step of c's thread, which holds its session before and after it.
LEMMA HoldingStep ==
  ASSUME Inv, TypeOK', NEW c \in Conns,
         Holding(c), Holding(c)', pc'[c] # "start",
         SameSessions, clock' = clock,
         UNCHANGED <<conn, fdtab, mainv, slot, monitor>>,
         fd'[c] = sess[slot[c]].sockfd,
         \A d \in Conns \ {c} :
           pc'[d] = pc[d] /\ job'[d] = job[d] /\ fd'[d] = fd[d],
         pc'[c] = "touch" => job'[c].found = slot[c],
         pc'[c] = "deliver" =>
           /\ job'[c].addressee \in Conns
           /\ conn[job'[c].addressee] # "closed" =>
                Peer(job'[c].dst) = job'[c].addressee
  PROVE  Ownership'
<1> USE DEF Inv, Ownership, mainv, monitor
<1>1. \A f : Peer(f)' = Peer(f)
  BY DEF Peer
<1>2. slot[c] \in Slots /\ sess[slot[c]].is_active /\ sess[slot[c]].addr = c
  BY DEF ThreadInv
<1>3. TableInv'
  BY DEF TableInv, Holding
<1>4. MainInv'
  <2>1. \A d \in Conns : pc[d] = "none" => pc'[d] = "none"
    BY DEF Holding
  <2> QED
    BY <1>1, <2>1 DEF MainInv, SameSessions
<1>5. SlotInv'
  BY <1>1 DEF SlotInv, SameSessions, MainHolds, Holding
<1>6. ThreadInv'
  BY <1>1, <1>2 DEF ThreadInv, SameSessions, Holding
<1>7. NotesInv'
  BY DEF NotesInv
<1>8. SlotsClean'
  BY DEF SlotsClean, SameSessions
<1>9. NoFdLeak'
  BY <1>1 DEF NoFdLeak, Holding
<1>10. StrayOnlyAfterClose'
  BY <1>1 DEF StrayOnlyAfterClose
<1>11. (mnow <= clock)'
  OBVIOUS
<1> QED
  BY <1>3, <1>4, <1>5, <1>6, <1>7, <1>8, <1>9, <1>10, <1>11

\* A step that leaves the sessions, the descriptors and the threads alone, and
\* of main's state at most where it is between two connections.
Busy == {"add", "find", "spawn", "settid", "drop", "close"}

\* A step that concerns no session, no descriptor and none of the places
\* where main holds a connection.
LEMMA IdleStep ==
  ASSUME Ownership, UNCHANGED <<conn, fdtab, sess, threads, afd, aslot, atid>>,
         apc' = apc \/ (apc \notin Busy /\ apc' \notin Busy),
         notes' \subseteq notes, mnow' <= clock'
  PROVE  Ownership'
<1> USE DEF Ownership, threads
<1>1. \A f : Peer(f)' = Peer(f)
  BY DEF Peer
<1>2. TableInv' /\ NotesInv' /\ SlotsClean'
  BY DEF TableInv, NotesInv, SlotsClean
<1>3. MainInv'
  BY <1>1 DEF MainInv, Busy
<1>4. SlotInv' /\ NoFdLeak'
  BY <1>1 DEF SlotInv, NoFdLeak, Holding, MainHolds, Busy
<1>5. ThreadInv'
  BY <1>1 DEF ThreadInv, Holding
<1>6. StrayOnlyAfterClose'
  BY <1>1 DEF StrayOnlyAfterClose
<1> QED
  BY <1>2, <1>3, <1>4, <1>5, <1>6

\* Clients, time and signals keep the ownership.
LEMMA EnvironmentOwnership ==
  ASSUME Inv, TypeOK', Environment
  PROVE  Ownership'
<1> USE DEF Inv, Ownership, kernel, shared, mainv, threads, monitor
<1>1. ASSUME NEW c \in Conns, Connect(c) PROVE Ownership'
  <2>1. \A f : Peer(f)' = Peer(f)
    BY <1>1 DEF Peer, Connect
  <2>2. /\ \A d \in Conns : conn'[d] = "open" <=> conn[d] = "open"
        /\ \A d \in Conns : conn'[d] = "closed" <=> conn[d] = "closed"
    BY <1>1 DEF Connect, TypeInv, TypeOK
  <2>3. TableInv'
    BY <1>1, <2>2 DEF Connect, TableInv
  <2>4. MainInv' /\ SlotInv' /\ ThreadInv' /\ NotesInv' /\ SlotsClean'
    BY <1>1, <2>1
    DEF Connect, MainInv, SlotInv, ThreadInv, NotesInv, SlotsClean, Holding,
        MainHolds
  <2>5. NoFdLeak'
    BY <1>1, <2>1, <2>2 DEF Connect, NoFdLeak
  <2>6. StrayOnlyAfterClose'
    BY <1>1, <2>1, <2>2
    DEF Connect, StrayOnlyAfterClose, ThreadInv, NotesInv
  <2> QED
    BY <1>1, <2>3, <2>4, <2>5, <2>6 DEF Connect
<1>2. ASSUME NEW c \in Conns, PeerCloses(c) PROVE Ownership'
  BY <1>2, IdleStep DEF PeerCloses
<1>3. CASE Tick
  <2>1. mnow' <= clock'
    BY <1>3 DEF Tick, TypeInv, TypeOK
  <2> QED
    BY <1>3, <2>1, IdleStep DEF Tick
<1>4. CASE SignalMain
  BY <1>4, IdleStep DEF SignalMain, Busy
<1>5. CASE SignalOther
  BY <1>5, IdleStep DEF SignalOther
<1> QED
  BY <1>1, <1>2, <1>3, <1>4, <1>5 DEF Environment

\* Every step of the inactivity monitor keeps the ownership.
LEMMA MonitorOwnership ==
  ASSUME Inv, TypeOK', Monitor
  PROVE  Ownership'
<1> USE DEF Inv, Ownership, kernel, shared, mainv, threads, monitor
<1>1. CASE MonWake
  <2>1. mnow' <= clock'
    BY <1>1 DEF MonWake, TypeInv, TypeOK
  <2> QED
    BY <1>1, <2>1, IdleStep DEF MonWake
<1>2. CASE MonScan
  <2> DEFINE overdue == {s \in Slots : Idle(sess[s], mnow, Timeout)}
  <2>1. SameSessions
    <3>1. \A s \in Slots : sess[s] \in Session
      BY DEF TypeInv, TypeOK
    <3>2. \A s \in Slots : sess'[s] = IF s \in overdue
                                     THEN [sess[s] EXCEPT !.status = "INACTIVO"]
                                     ELSE sess[s]
      BY <1>2 DEF MonScan
    <3>3. \A s \in overdue : sess[s].is_active
      BY DEF Idle
    <3> HIDE DEF overdue
    <3> QED
      BY <3>1, <3>2, <3>3 DEF SameSessions, Session
  <2>2. \A f : Peer(f)' = Peer(f)
    BY <1>2 DEF Peer, MonScan
  <2>3. \A n \in notes' : n.owner \in Conns /\ Peer(n.fd) = n.owner
    <3>1. \A s \in overdue :
            sess[s].addr \in Conns /\ Peer(sess[s].sockfd) = sess[s].addr
      BY DEF Idle, SlotInv
    <3>2. notes' = NotesFor(overdue)
      BY <1>2 DEF MonScan
    <3> HIDE DEF overdue
    <3> QED
      BY <3>1, <3>2 DEF NotesFor
  <2>4. UNCHANGED <<conn, fdtab, mainv, threads, clock, mnow>>
    BY <1>2 DEF MonScan
  <2>5. TableInv' /\ NoFdLeak' /\ NotesInv'
    BY <2>2, <2>3, <2>4 DEF TableInv, NoFdLeak, NotesInv
  <2>6. MainInv' /\ SlotsClean'
    BY <2>1, <2>2, <2>4 DEF MainInv, SlotsClean, SameSessions
  <2>7. SlotInv' /\ ThreadInv'
    BY <2>1, <2>2, <2>4
    DEF SlotInv, ThreadInv, SameSessions, MainHolds, Holding
  <2>8. StrayOnlyAfterClose'
    BY <2>2, <2>3, <2>4 DEF StrayOnlyAfterClose
  <2> QED
    BY <2>4, <2>5, <2>6, <2>7, <2>8
<1>3. CASE MonSend
  BY <1>3, IdleStep DEF MonSend
<1> QED
  BY <1>1, <1>2, <1>3 DEF Monitor

-----------------------------------------------------------------------------
(* The client threads.                                                     *)

\* A step that changes nothing but c's place, its job and what was sent.
Quiet == ThreadLabels \ {"none", "start", "touch", "deliver", "close", "done"}

\* Such a step keeps the ownership.
LEMMA QuietStep ==
  ASSUME Inv, TypeOK', NEW c \in Conns, Holding(c), pc[c] # "start",
         SameSessions, clock' = clock,
         UNCHANGED <<conn, fdtab, mainv, slot, fd, monitor>>,
         pc'[c] \in Quiet,
         \A d \in Conns \ {c} : pc'[d] = pc[d] /\ job'[d] = job[d]
  PROVE  Ownership'
<1>1. fd'[c] = sess[slot[c]].sockfd
  BY DEF Inv, Ownership, ThreadInv
<1>2. Holding(c)' /\ pc'[c] \notin {"start", "touch", "deliver"}
  BY DEF Holding, Quiet
<1> QED
  BY <1>1, <1>2, HoldingStep

\* An unchanged table has the same sessions.
LEMMA NoSessionChange == UNCHANGED sess => SameSessions
BY DEF SameSessions

\* The places a handler goes to.
LEMMA QuietLabels ==
  /\ {"recv", "dispatch", "reg_add", "info_get", "status_ack",
      "status_notify", "reply", "remove"} \subseteq Quiet
  /\ NextLoop \in Quiet
BY DEF Quiet, ThreadLabels, NextLoop

\* Every handler keeps the ownership.
LEMMA HandleOwnership ==
  ASSUME Inv, TypeOK', NEW c \in Conns, Handle(c)
  PROVE  Ownership'
<1> USE DEF kernel, shared
<1>1. TypeOK /\ TypeInv /\ Ownership
  BY DEF Inv, TypeInv
<1>2. Holding(c) /\ pc[c] # "start"
  BY DEF Holding, Handle, Handles, HandleRegister, RegAdd, HandleMsg, Deliver,
         HandleBroadcast, HandleList, HandleInfo, InfoGet, HandleStatus,
         StatusAck, StatusNotify, HandleQuit, Reply
<1> DEFINE l == job[c].line
<1>3. CASE HandleRegister(c)
  <2>1. \/ \E m : Answer(c, m)
        \/ Goto(c, "reg_add") /\ UNCHANGED job
    BY <1>3 DEF HandleRegister
  <2>2. pc'[c] \in Quiet
    BY <1>1, <2>1, Moves, QuietLabels
  <2>3. \A d \in Conns \ {c} : pc'[d] = pc[d] /\ job'[d] = job[d]
    BY <1>1, <2>1, Moves
  <2> QED
    BY <1>2, <1>3, <2>2, <2>3, QuietStep, NoSessionChange DEF HandleRegister
<1>4. CASE RegAdd(c)
  <2> DEFINE s == FindByFd(sess, fd[c])
  <2>1. SameSessions
    <3>1. CASE s = NoSlot
      BY <1>4, <3>1 DEF RegAdd, AddSession, SameSessions
    <3>2. CASE s # NoSlot
      <4> DEFINE new == [sess[s] EXCEPT !.username = Arg1(l),
                                        !.is_registered = TRUE]
      <4>1. s \in Slots /\ sess[s] \in Session /\ sess[s].is_active
        BY <1>1, <3>2, FindByFdFound DEF TypeOK
      <4>2. sess' = [sess EXCEPT ![s] = new]
        BY <1>4, <3>2 DEF RegAdd, AddSession
      <4>3. /\ new.is_active = sess[s].is_active /\ new.sockfd = sess[s].sockfd
            /\ new.addr = sess[s].addr /\ new.thread_id = sess[s].thread_id
        BY <4>1 DEF Session
      <4> HIDE DEF new, s
      <4> QED
        BY <1>1, <4>1, <4>2, <4>3 DEF SameSessions, TypeOK
    <3> QED
      BY <3>1, <3>2
  <2>2. Answer(c, <<"REGISTER_OK", Arg1(l), "ACTIVO">>)
    BY <1>4 DEF RegAdd
  <2> QED
    BY <1>1, <1>2, <1>4, <2>1, <2>2, Moves, QuietLabels, QuietStep DEF RegAdd
<1>5. CASE HandleMsg(c)
  <2> DEFINE s == FindByUsername(sess, Arg1(l))
  <2>1. CASE Answer(c, Error("MSG", "USER_NOT_FOUND"))
    BY <1>1, <1>2, <1>5, <2>1, Moves, QuietLabels, QuietStep, NoSessionChange
    DEF HandleMsg
  <2>2. CASE /\ FindUserFd(sess, Arg1(l)) # NoFd
             /\ job' = [job EXCEPT ![c].dst = FindUserFd(sess, Arg1(l)),
                                   ![c].addressee = sess[s].addr]
             /\ Goto(c, "deliver")
    <3>1. s \in Slots /\ sess[s].is_active
      BY <2>2, FindByUsernameFound DEF FindUserFd
    <3>2. FindUserFd(sess, Arg1(l)) = sess[s].sockfd
      BY <3>1, SlotNumbers DEF FindUserFd
    <3>3. sess[s].addr \in Conns /\ Peer(sess[s].sockfd) = sess[s].addr
      BY <1>1, <3>1 DEF Ownership, SlotInv
    <3>4. /\ job'[c].dst = sess[s].sockfd /\ job'[c].addressee = sess[s].addr
          /\ \A d \in Conns \ {c} : job'[d] = job[d]
      BY <1>1, <2>2, <3>2 DEF TypeOK, Job
    <3>5. pc'[c] = "deliver" /\ \A d \in Conns \ {c} : pc'[d] = pc[d]
      BY <1>1, <2>2, Moves
    <3>6. fd'[c] = sess[slot[c]].sockfd
      BY <1>1, <1>2, <1>5 DEF HandleMsg, Ownership, ThreadInv
    <3> QED
      BY <1>2, <1>5, <3>3, <3>4, <3>5, <3>6, HoldingStep, NoSessionChange
      DEF HandleMsg, Holding
  <2> QED
    BY <1>5, <2>1, <2>2 DEF HandleMsg
<1>6. CASE Deliver(c)
  <2>1. \A d \in Conns \ {c} : job'[d] = job[d]
    BY <1>1, <1>6 DEF Deliver, TypeOK
  <2> QED
    BY <1>1, <1>2, <1>6, <2>1, Moves, QuietLabels, QuietStep, NoSessionChange
    DEF Deliver
<1>7. CASE HandleBroadcast(c)
  BY <1>1, <1>2, <1>7, Moves, QuietLabels, QuietStep, NoSessionChange
  DEF HandleBroadcast
<1>8. CASE HandleList(c)
  BY <1>1, <1>2, <1>8, Moves, QuietLabels, QuietStep, NoSessionChange
  DEF HandleList
<1>9. CASE HandleInfo(c)
  <2>1. \/ \E m : Answer(c, m)
        \/ Goto(c, "info_get") /\ UNCHANGED job
    BY <1>9 DEF HandleInfo
  <2>2. pc'[c] \in Quiet
    BY <1>1, <2>1, Moves, QuietLabels
  <2>3. \A d \in Conns \ {c} : pc'[d] = pc[d] /\ job'[d] = job[d]
    BY <1>1, <2>1, Moves
  <2> QED
    BY <1>2, <1>9, <2>2, <2>3, QuietStep, NoSessionChange DEF HandleInfo
<1>10. CASE InfoGet(c)
  BY <1>1, <1>2, <1>10, Moves, QuietLabels, QuietStep, NoSessionChange
  DEF InfoGet
<1>11. CASE HandleStatus(c)
  <2> DEFINE s == FindByUsername(sess, sess[slot[c]].username)
  <2>1. SameSessions
    <3>1. CASE UNCHANGED sess
      BY <3>1, NoSessionChange
    <3>2. CASE sess' # sess
      <4> DEFINE new == [sess[s] EXCEPT !.status = Arg1(l)]
      <4>1. s # NoSlot /\ sess' = [sess EXCEPT ![s] = new]
        BY <1>11, <3>2 DEF HandleStatus, SetUserStatus
      <4>2. s \in Slots /\ sess[s] \in Session /\ sess[s].is_active
        BY <1>1, <4>1, FindByUsernameFound DEF TypeOK
      <4>3. /\ new.is_active = sess[s].is_active /\ new.sockfd = sess[s].sockfd
            /\ new.addr = sess[s].addr /\ new.thread_id = sess[s].thread_id
        BY <4>2 DEF Session
      <4> HIDE DEF new, s
      <4> QED
        BY <1>1, <4>1, <4>2, <4>3 DEF SameSessions, TypeOK
    <3> QED
      BY <3>1, <3>2
  <2>2. \/ \E m : Answer(c, m)
        \/ Goto(c, "status_ack") /\ UNCHANGED job
    BY <1>11 DEF HandleStatus
  <2>3. pc'[c] \in Quiet
    BY <1>1, <2>2, Moves, QuietLabels
  <2>4. \A d \in Conns \ {c} : pc'[d] = pc[d] /\ job'[d] = job[d]
    BY <1>1, <2>2, Moves
  <2> QED
    BY <1>2, <1>11, <2>1, <2>3, <2>4, QuietStep DEF HandleStatus
<1>12. CASE StatusAck(c)
  BY <1>1, <1>2, <1>12, Moves, QuietLabels, QuietStep, NoSessionChange
  DEF StatusAck
<1>13. CASE StatusNotify(c)
  BY <1>1, <1>2, <1>13, Moves, QuietLabels, QuietStep, NoSessionChange
  DEF StatusNotify
<1>14. CASE HandleQuit(c)
  BY <1>1, <1>2, <1>14, Moves, QuietLabels, QuietStep, NoSessionChange
  DEF HandleQuit
<1>15. CASE Reply(c)
  <2>1. \A d \in Conns \ {c} : job'[d] = job[d]
    BY <1>1, <1>15 DEF Reply, TypeOK
  <2> QED
    BY <1>1, <1>2, <1>15, <2>1, Moves, QuietLabels, QuietStep, NoSessionChange
    DEF Reply
<1> QED
  BY <1>3, <1>4, <1>5, <1>6, <1>7, <1>8, <1>9, <1>10, <1>11, <1>12, <1>13,
     <1>14, <1>15 DEF Handle

\* The session a thread finds by its own descriptor is its own.
LEMMA FindsOwnSession ==
  ASSUME Inv, NEW c \in Conns, Holding(c), pc[c] # "start"
  PROVE  FindByFd(sess, fd[c]) = slot[c]
<1>1. /\ slot[c] \in Slots /\ sess[slot[c]].is_active
      /\ sess[slot[c]].sockfd = fd[c]
  BY DEF Inv, Ownership, ThreadInv
<1>2. FindByFd(sess, fd[c]) \in Slots
  BY <1>1, FindByFdFound
<1>3. /\ sess[FindByFd(sess, fd[c])].is_active
      /\ sess[FindByFd(sess, fd[c])].sockfd = fd[c]
  BY <1>2, FindByFdFound
<1> QED
  BY <1>1, <1>2, <1>3 DEF Inv, Ownership, SlotInv

\* A freed slot keeps nothing that matters.
LEMMA ClearedFields ==
  /\ ~ClearedSession.is_active /\ ~ClearedSession.is_registered
  /\ ClearedSession.sockfd = NoFd /\ ClearedSession.addr = NoConn
  /\ ClearedSession.username = ""
BY DEF ClearedSession

\* Freeing the session of c: nobody else has a pointer to it that he uses.
LEMMA RemoveOwnership ==
  ASSUME Inv, TypeOK', NEW c \in Conns, Remove(c)
  PROVE  Ownership'
<1> USE DEF Inv, Ownership, kernel, mainv, monitor
<1> DEFINE s == slot[c]
<1>1. TypeOK /\ Holding(c) /\ pc[c] # "start"
  BY DEF TypeInv, Remove, Holding
<1>2. /\ s \in Slots /\ sess[s].is_active /\ sess[s].addr = c
      /\ sess[s].sockfd = fd[c] /\ Peer(fd[c]) = c
  BY <1>1 DEF ThreadInv, SlotInv
<1>3. FindByFd(sess, fd[c]) = s /\ s # NoSlot
  BY <1>1, <1>2, FindsOwnSession, SlotNumbers
<1>4. sess' = [sess EXCEPT ![s] = ClearedSession]
  BY <1>3 DEF Remove, RemoveByFd
<1>5. /\ ~sess'[s].is_active
      /\ \A r \in Slots \ {s} : sess'[r] = sess[r]
  BY <1>1, <1>2, <1>4 DEF ClearedSession, TypeOK
<1>6. pc'[c] = "close" /\ \A d \in Conns \ {c} : pc'[d] = pc[d]
  BY <1>1, <1>3, Moves DEF Remove
<1>7. \A d \in Conns \ {c} : job'[d] = job[d]
  BY <1>1 DEF Remove, TypeOK
<1>8. UNCHANGED <<conn, fdtab, apc, afd, aslot, atid, slot, fd, notes, mnow, clock>>
  BY DEF Remove
<1>9. \A f : Peer(f)' = Peer(f)
  BY <1>8 DEF Peer
<1>10. pc[c] # "none"
  BY <1>1 DEF Holding
<1>11. apc \in {"add", "find", "spawn", "drop", "close"} => afd # fd[c]
  BY <1>2, <1>10 DEF MainInv
<1>12. TableInv' /\ NotesInv'
  BY <1>6, <1>8, <1>10 DEF TableInv, NotesInv
<1>13. MainInv'
  BY <1>2, <1>5, <1>6, <1>8, <1>9, <1>10, <1>11 DEF MainInv
<1>14. SlotInv'
  <2>1. \A r \in Slots \ {s} : sess[r].is_active => sess[r].addr # c
    BY <1>2, <1>10 DEF SlotInv, MainHolds, MainInv
  <2> QED
    BY <1>5, <1>6, <1>8, <1>9, <2>1 DEF SlotInv, MainHolds, Holding
<1>15. ThreadInv'
  <2>1. \A d \in Conns \ {c} : Holding(d) => slot[d] # s
    BY <1>2 DEF ThreadInv
  <2> QED
    BY <1>2, <1>5, <1>6, <1>7, <1>8, <1>9, <2>1 DEF ThreadInv, Holding
<1>16. SlotsClean'
  BY <1>1, <1>2, <1>4, <1>5 DEF SlotsClean, ClearedSession, TypeOK
<1>17. NoFdLeak' /\ StrayOnlyAfterClose'
  BY <1>6, <1>7, <1>8, <1>9 DEF NoFdLeak, StrayOnlyAfterClose
<1> QED
  BY <1>8, <1>12, <1>13, <1>14, <1>15, <1>16, <1>17

\* What closing descriptor f does, if c's connection is the one it refers to.
LEMMA CloseFdOf ==
  ASSUME TypeOK, TableInv, NEW f, NEW c \in Conns, Peer(f) = c, CloseFd(f)
  PROVE  /\ f \in Fds
         /\ Peer(f)' = NoConn
         /\ \A g : g # f => Peer(g)' = Peer(g) /\ Peer(g) # c
         /\ conn' = [conn EXCEPT ![c] = "closed"]
<1>1. f \in Fds
  BY NoConnAssumption DEF Peer
<1>2. Peer(f)' = NoConn
  BY <1>1 DEF Peer, CloseFd
<1>3. \A g : g # f => Peer(g)' = Peer(g)
  BY DEF Peer, CloseFd
<1>4. \A g : g # f => Peer(g) # c
  BY <1>1, NoConnAssumption DEF Peer, TableInv
<1>5. conn' = [conn EXCEPT ![c] = "closed"]
  BY DEF CloseFd, TypeOK
<1> QED
  BY <1>1, <1>2, <1>3, <1>4, <1>5

\* Closing a connection keeps the descriptor table and the notices right.
LEMMA CloseFdTable ==
  ASSUME TypeOK, TableInv, NEW f, NEW c \in Conns, Peer(f) = c, CloseFd(f)
  PROVE  /\ \A g, h \in Fds : fdtab'[g] = fdtab'[h] /\ fdtab'[g] # NoConn => g = h
         /\ \A d \in Conns : conn'[d] = "open" <=> \E g \in Fds : fdtab'[g] = d
<1>1. /\ f \in Fds
      /\ Peer(f)' = NoConn
      /\ \A g : g # f => Peer(g)' = Peer(g) /\ Peer(g) # c
      /\ conn' = [conn EXCEPT ![c] = "closed"]
  BY CloseFdOf
<1>2. \A g \in Fds : fdtab'[g] = Peer(g)' /\ fdtab[g] = Peer(g)
  BY DEF Peer
<1>3. \A g, h \in Fds : fdtab'[g] = fdtab'[h] /\ fdtab'[g] # NoConn => g = h
  BY <1>1, <1>2 DEF TableInv
<1>4. \A d \in Conns : conn'[d] = "open" <=> \E g \in Fds : fdtab'[g] = d
  <2> SUFFICES ASSUME NEW d \in Conns
               PROVE  conn'[d] = "open" <=> \E g \in Fds : fdtab'[g] = d
    OBVIOUS
  <2>1. CASE d = c
    BY <1>1, <1>2, <2>1, NoConnAssumption DEF TypeOK
  <2>2. CASE d # c
    <3>1. conn'[d] = conn[d]
      BY <1>1, <2>2 DEF TypeOK
    <3>2. \A g \in Fds : fdtab'[g] = d <=> fdtab[g] = d
      BY <1>1, <1>2, <2>2, NoConnAssumption
    <3> QED
      BY <3>1, <3>2 DEF TableInv
  <2> QED
    BY <2>1, <2>2
<1> QED
  BY <1>1, <1>3, <1>4 DEF TypeOK

\* The close() after the unlock hits the thread's own connection.
LEMMA CloseOwnOwnership ==
  ASSUME Inv, TypeOK', NEW c \in Conns, CloseOwn(c)
  PROVE  Ownership'
<1> USE DEF Inv, Ownership, mainv, monitor
<1>1. TypeOK /\ pc[c] = "close" /\ CloseFd(fd[c]) /\ Peer(fd[c]) = c
  BY DEF TypeInv, CloseOwn, ThreadInv
<1>2. /\ fd[c] \in Fds
      /\ \A g : g # fd[c] => Peer(g)' = Peer(g) /\ Peer(g) # c
      /\ conn' = [conn EXCEPT ![c] = "closed"]
  BY <1>1, CloseFdOf
<1>3. /\ pc' = [pc EXCEPT ![c] = "done"]
      /\ fd' = [fd EXCEPT ![c] = NoFd] /\ slot' = [slot EXCEPT ![c] = NoSlot]
      /\ UNCHANGED <<sess, clock, apc, afd, aslot, atid, job, notes, mnow>>
  BY DEF CloseOwn, Goto, shared
<1>4. \A d \in Conns \ {c} : /\ pc'[d] = pc[d] /\ fd'[d] = fd[d]
                             /\ slot'[d] = slot[d] /\ conn'[d] = conn[d]
  BY <1>1, <1>2, <1>3 DEF TypeOK
<1>5. pc'[c] = "done" /\ conn'[c] = "closed"
  BY <1>1, <1>2, <1>3 DEF TypeOK
<1>6. apc \in {"add", "find", "spawn", "drop", "close"} => afd # fd[c]
  BY <1>1 DEF MainInv
<1>7. \A s \in Slots : sess[s].is_active => sess[s].addr # c
  BY <1>1 DEF SlotInv, MainHolds, Holding, MainInv
<1>8. TableInv'
  BY <1>1, <1>4, <1>5, CloseFdTable DEF TableInv
<1>9. MainInv'
  BY <1>1, <1>2, <1>3, <1>4, <1>6 DEF MainInv
<1>10. SlotInv'
  BY <1>1, <1>2, <1>3, <1>4, <1>7 DEF SlotInv, MainHolds, Holding
<1>11. ThreadInv'
  <2>1. \A d \in Conns \ {c} : pc[d] = "close" => fd[d] # fd[c]
    BY <1>1 DEF ThreadInv
  <2> QED
    BY <1>2, <1>3, <1>4, <1>5, <2>1 DEF ThreadInv, Holding
<1>12. NotesInv' /\ SlotsClean'
  BY <1>3 DEF NotesInv, SlotsClean
<1>13. NoFdLeak'
  BY <1>1, <1>2, <1>3, <1>4, <1>5, <1>6 DEF NoFdLeak
<1>14. StrayOnlyAfterClose'
  BY <1>1, <1>2, <1>3, <1>4, <1>5 DEF StrayOnlyAfterClose, NotesInv, ThreadInv
<1> QED
  BY <1>3, <1>8, <1>9, <1>10, <1>11, <1>12, <1>13, <1>14

\* Every step of a client thread keeps the ownership.
LEMMA ThreadOwnership ==
  ASSUME Inv, TypeOK', NEW c \in Conns, ThreadRuns(c)
  PROVE  Ownership'
<1> USE DEF kernel, shared
<1>1. TypeOK /\ TypeInv /\ Ownership
  BY DEF Inv, TypeInv
<1>2. CASE Begin(c)
  <2>1. Holding(c)
    BY <1>2 DEF Begin, Holding
  <2>2. /\ pc'[c] \in {"recv", "remove"}
        /\ \A d \in Conns \ {c} : pc'[d] = pc[d]
    BY <1>1, <1>2, Moves DEF Begin
  <2>3. /\ fd'[c] = sess[slot[c]].sockfd
        /\ \A d \in Conns \ {c} : fd'[d] = fd[d]
    BY <1>1, <1>2 DEF Begin, TypeOK
  <2> QED
    BY <1>2, <2>1, <2>2, <2>3, HoldingStep, NoSessionChange DEF Begin, Holding
<1>3. CASE RecvEnd(c)
  BY <1>1, <1>3, Moves, QuietLabels, QuietStep, NoSessionChange
  DEF RecvEnd, Holding
<1>4. CASE Touch(c)
  <2> DEFINE s == job[c].found
  <2>1. SameSessions
    <3>1. CASE s # NoSlot /\ sess[s].is_active
      <4> DEFINE new == Touched(sess[s], clock)
      <4>1. s \in Slots /\ sess[s] \in Session
        BY <1>1, <3>1 DEF TypeOK, Job
      <4>2. sess' = [sess EXCEPT ![s] = new]
        BY <1>4, <3>1 DEF Touch
      <4>3. /\ new.is_active = sess[s].is_active /\ new.sockfd = sess[s].sockfd
            /\ new.addr = sess[s].addr /\ new.thread_id = sess[s].thread_id
        BY <4>1 DEF Session, Touched
      <4> HIDE DEF new, s
      <4> QED
        BY <1>1, <3>1, <4>1, <4>2, <4>3 DEF SameSessions, TypeOK
    <3>2. CASE ~(s # NoSlot /\ sess[s].is_active)
      BY <1>4, <3>2, NoSessionChange DEF Touch
    <3> QED
      BY <3>1, <3>2
  <2>2. \A d \in Conns \ {c} : job'[d] = job[d]
    BY <1>1, <1>4 DEF Touch, TypeOK
  <2> QED
    BY <1>1, <1>4, <2>1, <2>2, Moves, QuietLabels, QuietStep DEF Touch, Holding
<1>5. CASE Ping(c)
  BY <1>1, <1>5, Moves, QuietLabels, QuietStep, NoSessionChange
  DEF Ping, Holding
<1>6. CASE Quit(c)
  BY <1>1, <1>6, Moves, QuietLabels, QuietStep, NoSessionChange
  DEF Quit, Holding
<1>7. CASE Unparsed(c)
  BY <1>1, <1>7, Moves, QuietLabels, QuietStep, NoSessionChange
  DEF Unparsed, Holding
<1> QED
  BY <1>2, <1>3, <1>4, <1>5, <1>6, <1>7, HandleOwnership, RemoveOwnership,
     CloseOwnOwnership DEF ThreadRuns

\* recv_line returning any line keeps the ownership.
LEMMA RecvOwnership ==
  ASSUME Inv, TypeOK', NEW c \in Conns, NEW l \in FirstInputs \cup Inputs,
         Recv(c, l)
  PROVE  Ownership'
<1>1. TypeOK /\ Holding(c) /\ pc[c] # "start"
  BY DEF Inv, TypeInv, Recv, Holding
<1>2. pc'[c] = "touch" /\ \A d \in Conns \ {c} : pc'[d] = pc[d]
  BY <1>1, Moves DEF Recv
<1>3. /\ job'[c].found = slot[c]
      /\ \A d \in Conns \ {c} : job'[d] = job[d]
  BY <1>1, FindsOwnSession DEF Recv, TypeOK, Job
<1>4. fd'[c] = sess[slot[c]].sockfd
  BY <1>1 DEF Recv, Inv, Ownership, ThreadInv
<1> QED
  BY <1>1, <1>2, <1>3, <1>4, HoldingStep, NoSessionChange
  DEF Recv, Holding, shared

-----------------------------------------------------------------------------
(* The accept loop.                                                        *)

\* A connection that is accepted has no session yet, and its descriptor none.
LEMMA AcceptOwnership ==
  ASSUME Inv, TypeOK', NEW c \in Conns, Accept(c)
  PROVE  Ownership'
<1> USE DEF Inv, Ownership, threads, monitor, shared
<1>1. TypeOK
  BY DEF TypeInv
<1>2. PICK f \in Fds : /\ fdtab[f] = NoConn /\ afd' = f
                       /\ fdtab' = [fdtab EXCEPT ![f] = c]
  BY DEF Accept, FreeFds
<1>3. /\ apc = "accept" /\ apc' = "add" /\ conn[c] = "queued"
      /\ conn' = [conn EXCEPT ![c] = "open"]
      /\ UNCHANGED <<sess, clock, pc, slot, fd, job, notes, mnow>>
  BY DEF Accept
<1>4. /\ Peer(f) = NoConn /\ Peer(f)' = c
      /\ \A g : g # f => Peer(g)' = Peer(g)
  BY <1>1, <1>2 DEF Peer, TypeOK
<1>5. conn'[c] = "open" /\ \A d \in Conns \ {c} : conn'[d] = conn[d]
  BY <1>1, <1>3 DEF TypeOK
<1>6. pc[c] = "none" /\ \A g \in Fds : fdtab[g] # c
  BY <1>3 DEF TableInv
<1>7. \A s \in Slots : sess[s].is_active => sess[s].sockfd # f
  BY <1>4, NoConnAssumption DEF SlotInv
<1>8. TableInv'
  <2>1. \A g \in Fds \ {f} : fdtab'[g] = fdtab[g]
    BY <1>1, <1>2 DEF TypeOK
  <2>2. fdtab'[f] = c
    BY <1>1, <1>2 DEF TypeOK
  <2>3. \A g, h \in Fds : fdtab'[g] = fdtab'[h] /\ fdtab'[g] # NoConn => g = h
    BY <1>6, <2>1, <2>2 DEF TableInv
  <2>4. \A d \in Conns : conn'[d] = "open" <=> \E g \in Fds : fdtab'[g] = d
    <3> SUFFICES ASSUME NEW d \in Conns
                 PROVE  conn'[d] = "open" <=> \E g \in Fds : fdtab'[g] = d
      OBVIOUS
    <3>1. CASE d = c
      BY <1>5, <2>2, <3>1
    <3>2. CASE d # c
      BY <1>2, <1>5, <2>1, <2>2, <3>2, NoConnAssumption DEF TableInv
    <3> QED
      BY <3>1, <3>2
  <2> QED
    BY <1>3, <1>5, <1>6, <2>3, <2>4 DEF TableInv
<1>9. MainInv'
  BY <1>2, <1>3, <1>4, <1>6, <1>7 DEF MainInv
<1>10. SlotInv'
  BY <1>3, <1>4, <1>7 DEF SlotInv, MainHolds, Holding
<1>11. ThreadInv'
  BY <1>3, <1>4, NoConnAssumption DEF ThreadInv, Holding
<1>12. NotesInv' /\ SlotsClean'
  BY <1>3 DEF NotesInv, SlotsClean
<1>13. NoFdLeak'
  BY <1>2, <1>3, <1>4, <1>5 DEF NoFdLeak
<1>14. StrayOnlyAfterClose'
  BY <1>3, <1>4, <1>5, NoConnAssumption
  DEF StrayOnlyAfterClose, NotesInv, ThreadInv
<1> QED
  BY <1>3, <1>8, <1>9, <1>10, <1>11, <1>12, <1>13, <1>14

\* sessions_add: a free slot, or a refusal.
LEMMA AddOwnership ==
  ASSUME Inv, TypeOK', Add
  PROVE  Ownership'
<1> USE DEF Inv, Ownership, threads, monitor, kernel
<1> DEFINE s == FreeSlot(sess)
<1>1. TypeOK /\ apc = "add"
  BY DEF TypeInv, Add
<1>2. UNCHANGED <<conn, fdtab, clock, afd, aslot, atid, pc, slot, fd, job, notes, mnow>>
  BY DEF Add
<1>3. Peer(afd) \in Conns /\ pc[Peer(afd)] = "none"
  BY <1>1 DEF MainInv
<1>4. \A r \in Slots : sess[r].is_active => sess[r].sockfd # afd
  BY <1>1 DEF MainInv
<1>5. \A f : Peer(f)' = Peer(f)
  BY <1>2 DEF Peer
<1>6. TableInv' /\ NotesInv' /\ StrayOnlyAfterClose'
  BY <1>2, <1>5 DEF TableInv, NotesInv, StrayOnlyAfterClose
<1>7. CASE s = NoSlot
  <2>1. apc' = "close" /\ sess' = sess
    BY <1>7 DEF Add, AfterAdd
  <2>2. MainInv' /\ NoFdLeak'
    BY <1>1, <1>2, <1>3, <1>4, <1>5, <2>1 DEF MainInv, NoFdLeak
  <2>3. SlotInv' /\ ThreadInv' /\ SlotsClean'
    BY <1>1, <1>2, <1>5, <2>1
    DEF SlotInv, ThreadInv, SlotsClean, MainHolds, Holding
  <2> QED
    BY <1>2, <1>6, <2>2, <2>3
<1>8. CASE s # NoSlot
  <2> DEFINE new == NewSession(Peer(afd), afd, clock)
  <2>1. s \in Slots /\ ~sess[s].is_active
    BY <1>8, FreeSlotFound
  <2>2. apc' = "find" /\ sess' = [sess EXCEPT ![s] = new]
    BY <1>8 DEF Add, AfterAdd
  <2>3. /\ new.is_active /\ new.sockfd = afd /\ new.addr = Peer(afd)
        /\ new.thread_id = NoConn
    BY DEF NewSession
  <2> HIDE DEF new, s
  <2>4. sess'[s] = new /\ \A r \in Slots \ {s} : sess'[r] = sess[r]
    BY <1>1, <2>1, <2>2 DEF TypeOK
  <2>5. MainInv' /\ NoFdLeak'
    BY <1>1, <1>2, <1>3, <1>5, <2>1, <2>2, <2>3, <2>4 DEF MainInv, NoFdLeak
  <2>6. SlotInv'
    BY <1>1, <1>2, <1>3, <1>4, <1>5, <2>1, <2>2, <2>3, <2>4
    DEF SlotInv, MainHolds, Holding
  <2>7. ThreadInv'
    BY <1>2, <1>5, <2>1, <2>4 DEF ThreadInv, Holding
  <2>8. SlotsClean'
    BY <2>1, <2>3, <2>4 DEF SlotsClean
  <2> QED
    BY <1>2, <1>6, <2>5, <2>6, <2>7, <2>8
<1> QED
  BY <1>7, <1>8

\* sessions_find_by_sockfd: finds the session that was added.
LEMMA FindOwnership ==
  ASSUME Inv, TypeOK', Find
  PROVE  Ownership'
<1> USE DEF Inv, Ownership, threads, monitor, kernel, shared
<1>1. /\ apc = "find" /\ aslot' = FindByFd(sess, afd)
      /\ UNCHANGED <<conn, fdtab, sess, clock, afd, atid, pc, slot, fd, job, notes, mnow>>
  BY DEF Find
<1>2. \E s \in Slots : sess[s].is_active /\ sess[s].sockfd = afd
  BY <1>1 DEF MainInv
<1>3. /\ aslot' \in Slots /\ sess[aslot'].is_active
      /\ sess[aslot'].sockfd = afd
  BY <1>1, <1>2, FindByFdFound
<1>4. apc' = "spawn"
  BY <1>3, SlotNumbers DEF Find
<1>5. \A f : Peer(f)' = Peer(f)
  BY <1>1 DEF Peer
<1>6. TableInv' /\ NotesInv' /\ StrayOnlyAfterClose' /\ SlotsClean'
  BY <1>1, <1>5 DEF TableInv, NotesInv, StrayOnlyAfterClose, SlotsClean
<1>7. MainInv' /\ NoFdLeak'
  BY <1>1, <1>3, <1>4, <1>5 DEF MainInv, NoFdLeak
<1>8. SlotInv' /\ ThreadInv'
  BY <1>1, <1>4, <1>5 DEF SlotInv, ThreadInv, MainHolds, Holding
<1> QED
  BY <1>1, <1>6, <1>7, <1>8

\* pthread_create: the session passes from main to the thread.
LEMMA SpawnOwnership ==
  ASSUME Inv, TypeOK', Spawn
  PROVE  Ownership'
<1> USE DEF Inv, Ownership, monitor, kernel, shared
<1> DEFINE c == Peer(afd)
<1>1. /\ TypeOK /\ apc = "spawn" /\ apc' = "settid" /\ atid' = c
      /\ UNCHANGED <<conn, fdtab, sess, clock, afd, aslot, fd, job, notes, mnow>>
  BY DEF TypeInv, Spawn
<1>2. c \in Conns /\ pc[c] = "none"
  BY <1>1 DEF MainInv
<1>3. aslot \in Slots /\ sess[aslot].is_active /\ sess[aslot].sockfd = afd
  BY <1>1 DEF MainInv
<1>4. sess[aslot].addr = c
  BY <1>3 DEF SlotInv
<1>5. /\ pc'[c] = "start" /\ slot'[c] = aslot
      /\ \A d \in Conns \ {c} : pc'[d] = pc[d] /\ slot'[d] = slot[d]
  BY <1>1, <1>2 DEF Spawn, TypeOK
<1>6. \A f : Peer(f)' = Peer(f)
  BY <1>1 DEF Peer
<1>7. conn[c] = "open"
  BY <1>2, NoConnAssumption DEF TableInv, Peer
<1> HIDE DEF c
<1>8. TableInv' /\ NotesInv' /\ SlotsClean'
  <2>1. \A d \in Conns : pc'[d] # "none" => conn'[d] \in {"open", "closed"}
    BY <1>1, <1>5, <1>7 DEF TableInv
  <2>2. TableInv'
    BY <1>1, <2>1 DEF TableInv
  <2> QED
    BY <1>1, <2>2 DEF NotesInv, SlotsClean
<1>9. MainInv'
  BY <1>1, <1>3, <1>4 DEF MainInv
<1>10. SlotInv'
  <2> SUFFICES ASSUME NEW s \in Slots, sess[s].is_active
               PROVE  Holding(sess[s].addr)' /\ slot'[sess[s].addr] = s
    BY <1>1, <1>6 DEF SlotInv
  <2>1. CASE sess[s].sockfd = afd
    <3>1. s = aslot
      BY <1>3, <2>1 DEF SlotInv
    <3> QED
      BY <1>1, <1>4, <1>5, <3>1 DEF Holding
  <2>2. CASE sess[s].sockfd # afd
    <3>1. sess[s].addr \in Conns /\ Holding(sess[s].addr) /\ slot[sess[s].addr] = s
      BY <2>2 DEF SlotInv, MainHolds
    <3>2. sess[s].addr # c
      BY <1>2, <3>1 DEF Holding
    <3> QED
      BY <1>1, <1>5, <3>1, <3>2 DEF Holding
  <2> QED
    BY <2>1, <2>2
<1>11. ThreadInv'
  BY <1>1, <1>3, <1>4, <1>5, <1>6 DEF ThreadInv, Holding
<1>12. NoFdLeak'
  BY <1>1, <1>5, <1>6 DEF NoFdLeak, c
<1>13. StrayOnlyAfterClose'
  BY <1>1, <1>5, <1>6 DEF StrayOnlyAfterClose
<1> QED
  BY <1>1, <1>8, <1>9, <1>10, <1>11, <1>12, <1>13

\* The accept loop's late write of thread_id.
LEMMA SetTidOwnership ==
  ASSUME Inv, TypeOK', SetTid
  PROVE  Ownership'
<1> USE DEF Inv, Ownership, threads, monitor, kernel, shared
<1>1. /\ TypeOK /\ apc = "settid" /\ apc' = "loop"
      /\ UNCHANGED <<conn, fdtab, clock, pc, slot, fd, job, notes, mnow>>
  BY DEF TypeInv, SetTid
<1>2. /\ aslot \in Slots /\ sess[aslot] \in Session
      /\ sess[aslot].is_active => sess[aslot].addr = atid
  BY <1>1 DEF MainInv, TypeOK
<1> DEFINE new == [sess[aslot] EXCEPT !.thread_id = atid]
<1>3. sess' = [sess EXCEPT ![aslot] = new]
  BY DEF SetTid
<1>4. /\ new.is_active = sess[aslot].is_active
      /\ new.sockfd = sess[aslot].sockfd /\ new.addr = sess[aslot].addr
      /\ new.thread_id = atid /\ new.username = sess[aslot].username
      /\ new.is_registered = sess[aslot].is_registered
  BY <1>2 DEF Session
<1> HIDE DEF new
<1>5. sess'[aslot] = new /\ \A r \in Slots \ {aslot} : sess'[r] = sess[r]
  BY <1>1, <1>2, <1>3 DEF TypeOK
<1>6. \A f : Peer(f)' = Peer(f)
  BY <1>1 DEF Peer
<1>7. TableInv' /\ NotesInv' /\ StrayOnlyAfterClose' /\ NoFdLeak'
  BY <1>1, <1>6 DEF TableInv, NotesInv, StrayOnlyAfterClose, NoFdLeak
<1>8. MainInv'
  BY <1>1 DEF MainInv
<1>9. SlotInv' /\ ThreadInv'
  BY <1>1, <1>2, <1>4, <1>5, <1>6 DEF SlotInv, ThreadInv, MainHolds, Holding
<1>10. SlotsClean'
  BY <1>2, <1>4, <1>5 DEF SlotsClean
<1> QED
  BY <1>1, <1>7, <1>8, <1>9, <1>10

\* pthread_create failed: the session is freed again.
LEMMA DropOwnership ==
  ASSUME Inv, TypeOK', Drop
  PROVE  Ownership'
<1> USE DEF Inv, Ownership, threads, monitor, kernel
<1> DEFINE s == FindByFd(sess, afd)
<1>1. /\ TypeOK /\ apc = "drop"
      /\ UNCHANGED <<conn, fdtab, clock, afd, aslot, atid, pc, slot, fd, job, notes, mnow>>
  BY DEF TypeInv, Drop
<1>2. s \in Slots /\ sess[s].is_active /\ sess[s].sockfd = afd
  BY <1>1, FindByFdFound DEF MainInv
<1>3. apc' = "close" /\ sess' = [sess EXCEPT ![s] = ClearedSession]
  BY <1>2, SlotNumbers DEF Drop, RemoveByFd
<1> HIDE DEF s
<1>4. sess'[s] = ClearedSession /\ \A r \in Slots \ {s} : sess'[r] = sess[r]
  BY <1>1, <1>2, <1>3 DEF TypeOK
<1>5. ~sess'[s].is_active
  BY <1>4, ClearedFields
<1>6. \A f : Peer(f)' = Peer(f)
  BY <1>1 DEF Peer
<1>7. Peer(afd) \in Conns /\ pc[Peer(afd)] = "none" /\ sess[s].addr = Peer(afd)
  BY <1>1, <1>2 DEF MainInv, SlotInv
<1>8. \A r \in Slots \ {s} : sess[r].is_active => sess[r].sockfd # afd
  BY <1>2 DEF SlotInv
<1>9. TableInv' /\ NotesInv' /\ StrayOnlyAfterClose'
  BY <1>1, <1>6 DEF TableInv, NotesInv, StrayOnlyAfterClose
<1>10. MainInv' /\ NoFdLeak'
  BY <1>1, <1>3, <1>4, <1>5, <1>6, <1>7, <1>8 DEF MainInv, NoFdLeak
<1>11. SlotInv'
  BY <1>1, <1>4, <1>5, <1>6, <1>8 DEF SlotInv, MainHolds, Holding
<1>12. ThreadInv'
  <2>1. \A d \in Conns : Holding(d) => slot[d] # s
    BY <1>7 DEF ThreadInv, Holding
  <2> QED
    BY <1>1, <1>4, <1>6, <2>1 DEF ThreadInv, Holding
<1>13. SlotsClean'
  BY <1>4, <1>5, ClearedFields DEF SlotsClean
<1> QED
  BY <1>1, <1>9, <1>10, <1>11, <1>12, <1>13

\* A refused connection is closed, and nobody had its descriptor.
LEMMA CloseOwnership ==
  ASSUME Inv, TypeOK', Close
  PROVE  Ownership'
<1> USE DEF Inv, Ownership, threads, monitor, shared
<1> DEFINE c == Peer(afd)
<1>1. /\ TypeOK /\ TableInv /\ CloseFd(afd) /\ apc = "close" /\ apc' = "loop"
      /\ UNCHANGED <<sess, clock, pc, slot, fd, job, notes, mnow>>
  BY DEF TypeInv, Close
<1>2. c \in Conns /\ pc[c] = "none"
  BY <1>1 DEF MainInv
<1>3. \A s \in Slots : sess[s].is_active => sess[s].sockfd # afd
  BY <1>1 DEF MainInv
<1>4. /\ \A g : g # afd => Peer(g)' = Peer(g) /\ Peer(g) # c
      /\ conn' = [conn EXCEPT ![c] = "closed"]
  BY <1>1, <1>2, CloseFdOf
<1>5. conn'[c] = "closed" /\ \A d \in Conns \ {c} : conn'[d] = conn[d]
  BY <1>1, <1>2, <1>4 DEF TypeOK
<1>6. TableInv'
  BY <1>1, <1>2, <1>5, CloseFdTable DEF TableInv
<1>7. MainInv' /\ NotesInv' /\ SlotsClean'
  BY <1>1 DEF MainInv, NotesInv, SlotsClean
<1>8. SlotInv'
  BY <1>1, <1>3, <1>4 DEF SlotInv, MainHolds, Holding
<1>9. ThreadInv'
  <2>1. \A d \in Conns : pc[d] = "close" => fd[d] # afd
    BY <1>2 DEF ThreadInv
  <2> QED
    BY <1>1, <1>4, <2>1 DEF ThreadInv, Holding
<1>10. NoFdLeak'
  BY <1>1, <1>4, <1>5 DEF NoFdLeak
<1>11. StrayOnlyAfterClose'
  BY <1>1, <1>4, <1>5 DEF StrayOnlyAfterClose, NotesInv, ThreadInv
<1> QED
  BY <1>1, <1>6, <1>7, <1>8, <1>9, <1>10, <1>11

\* Every step of the accept loop and of the shutdown keeps the ownership.
LEMMA MainOwnership ==
  ASSUME Inv, TypeOK', Main
  PROVE  Ownership'
<1> USE DEF Inv, kernel, shared, threads, monitor
<1>0. Ownership /\ (mnow <= clock)
  BY DEF Ownership
<1>1. CASE Loop
  BY <1>0, <1>1, IdleStep DEF Loop, Busy
<1>2. CASE AcceptFails
  BY <1>0, <1>2, IdleStep DEF AcceptFails, Busy
<1>3. CASE SpawnFails
  <2>1. /\ apc = "spawn" /\ apc' = "drop"
        /\ UNCHANGED <<conn, fdtab, sess, clock, afd, aslot, atid, pc, slot,
                       fd, job, notes, mnow>>
    BY <1>3 DEF SpawnFails, mainv
  <2>2. \A f : Peer(f)' = Peer(f)
    BY <2>1 DEF Peer
  <2>3. TableInv' /\ NotesInv' /\ SlotsClean' /\ StrayOnlyAfterClose'
    BY <1>0, <2>1, <2>2
    DEF Ownership, TableInv, NotesInv, SlotsClean, StrayOnlyAfterClose
  <2>4. MainInv' /\ NoFdLeak'
    BY <1>0, <2>1, <2>2 DEF Ownership, MainInv, NoFdLeak
  <2>5. SlotInv' /\ ThreadInv'
    BY <1>0, <2>1, <2>2 DEF Ownership, SlotInv, ThreadInv, MainHolds, Holding
  <2> QED
    BY <1>0, <2>1, <2>3, <2>4, <2>5 DEF Ownership
<1>4. CASE Shutdown
  BY <1>0, <1>4, IdleStep DEF Shutdown, Busy
<1>5. CASE ShutSessions
  BY <1>0, <1>5, IdleStep DEF ShutSessions, Busy
<1>6. CASE Join
  BY <1>0, <1>6, IdleStep DEF Join, Busy
<1> QED
  BY <1>1, <1>2, <1>3, <1>4, <1>5, <1>6, AcceptOwnership, AddOwnership,
     FindOwnership, SpawnOwnership, SetTidOwnership, DropOwnership,
     CloseOwnership DEF Main

-----------------------------------------------------------------------------
(* The invariant.                                                          *)

\* Nothing is owned when the server starts.
LEMMA InitOwnership == Init => Ownership
<1> SUFFICES ASSUME Init PROVE Ownership
  OBVIOUS
<1>1. \A s \in Slots : sess[s] = EmptySession
  BY DEF Init
<1>2. /\ ~EmptySession.is_active /\ ~EmptySession.is_registered
      /\ EmptySession.sockfd = NoFd /\ EmptySession.addr = NoConn
      /\ EmptySession.username = ""
  BY DEF EmptySession
<1>3. TableInv /\ NoFdLeak
  BY NoConnAssumption DEF Init, TableInv, NoFdLeak
<1>4. MainInv /\ ThreadInv /\ NotesInv /\ StrayOnlyAfterClose
  BY DEF Init, MainInv, ThreadInv, NotesInv, StrayOnlyAfterClose, Holding
<1>5. SlotInv /\ SlotsClean
  BY <1>1, <1>2 DEF SlotInv, SlotsClean
<1>6. mnow <= clock
  BY DEF Init
<1> QED
  BY <1>3, <1>4, <1>5, <1>6 DEF Ownership

\* No step of any thread, client, signal or clock breaks Ownership.
THEOREM OwnershipStep == Inv /\ [Next]_vars => Inv'
<1> SUFFICES ASSUME Inv, [Next]_vars
             PROVE  Inv'
  OBVIOUS
<1>1. TypeInv' /\ TypeOK'
  BY TypeStep DEF Inv, TypeInv
<1>2. mnow <= clock
  BY DEF Inv, Ownership
<1>3. CASE UNCHANGED vars
  BY <1>1, <1>2, <1>3, IdleStep
  DEF Inv, vars, kernel, shared, mainv, threads, monitor
<1>4. CASE Environment
  BY <1>1, <1>4, EnvironmentOwnership DEF Inv
<1>5. CASE HandlerCloses
  BY <1>1, <1>2, <1>5, IdleStep
  DEF Inv, HandlerCloses, kernel, mainv, threads, monitor
<1>6. CASE Main
  BY <1>1, <1>6, MainOwnership DEF Inv
<1>7. CASE Monitor
  BY <1>1, <1>7, MonitorOwnership DEF Inv
<1>8. CASE \E c \in Conns : ThreadRuns(c)
  BY <1>1, <1>8, ThreadOwnership DEF Inv
<1>9. CASE \E c \in Conns, l \in FirstInputs \cup Inputs : Recv(c, l)
  BY <1>1, <1>9, RecvOwnership DEF Inv
<1> QED
  BY <1>3, <1>4, <1>5, <1>6, <1>7, <1>8, <1>9 DEF Next

\* Types and ownership hold in every reachable state.
LEMMA Invariant == Spec => []Inv
<1>1. Init => Inv
  BY InitTypes, InitOwnership DEF Inv
<1> QED
  BY <1>1, OwnershipStep, PTL DEF Spec

\* Ownership of slots and descriptors is an invariant of the server.
THEOREM OwnershipCorrect == Spec => []Ownership
<1>1. Inv => Ownership
  BY DEF Inv
<1> QED
  BY <1>1, Invariant, PTL

\* The pointer that client_thread_main keeps is good until the thread removes
\* its session.
THEOREM SessionsArePinned == Spec => []SessionPinned
<1>1. Inv => SessionPinned
  BY DEF Inv, Ownership, ThreadInv, SlotInv, SessionPinned
<1> QED
  BY <1>1, Invariant, PTL

\* No slot of g_sessions is lost.
THEOREM NoSlotIsLost == Spec => []NoSlotLeak
<1>1. Inv => NoSlotLeak
  BY DEF Inv, Ownership, SlotInv, NoSlotLeak
<1> QED
  BY <1>1, Invariant, PTL

\* No descriptor of a connection is lost.
THEOREM NoFdIsLost == Spec => []NoFdLeak
<1>1. Inv => NoFdLeak
  BY DEF Inv, Ownership
<1> QED
  BY <1>1, Invariant, PTL

\* A free slot is clean, and an active one has no other client's thread id.
THEOREM SlotsStayClean == Spec => []SlotsClean
<1>1. Inv => SlotsClean
  BY DEF Inv, Ownership
<1> QED
  BY <1>1, Invariant, PTL

\* update_session_activity marks the session of its own thread.
THEOREM ThreadsTouchTheirOwn == Spec => []TouchesOwnSession
<1>1. Inv => TouchesOwnSession
  BY DEF Inv, Ownership, ThreadInv, TouchesOwnSession
<1> QED
  BY <1>1, Invariant, PTL

\* What is sent without the lock reaches a stranger only after the connection
\* it was meant for has been closed.
THEOREM StraysOnlyAfterClose == Spec => []StrayOnlyAfterClose
<1>1. Inv => StrayOnlyAfterClose
  BY DEF Inv, Ownership
<1> QED
  BY <1>1, Invariant, PTL

-----------------------------------------------------------------------------
(* Action properties.                                                      *)

\* Only its own thread closes an established connection, and only the accept
\* loop one that has no thread.
THEOREM ClosesOwnFd == Spec => CloseOwnFd
<1> DEFINE Closes(c) == /\ conn[c] = "open" /\ conn'[c] = "closed"
                        /\ ~(pc[c] = "close" \/ (apc = "close" /\ pc[c] = "none"))
<1>1. ASSUME Inv, [Next]_vars, NEW c \in Conns, Closes(c)
      PROVE  FALSE
  <2> USE DEF kernel, shared, mainv, threads, monitor
  <2>1. TypeOK /\ TableInv /\ MainInv /\ ThreadInv
    BY <1>1 DEF Inv, TypeInv, Ownership
  <2>2. conn' # conn
    BY <1>1
  <2>3. CASE Close
    <3>1. Peer(afd) \in Conns /\ pc[Peer(afd)] = "none" /\ apc = "close"
      BY <2>1, <2>3 DEF Close, MainInv
    <3>2. conn' = [conn EXCEPT ![Peer(afd)] = "closed"]
      BY <2>1, <2>3, <3>1, CloseFdOf DEF Close
    <3>3. c = Peer(afd)
      BY <1>1, <2>1, <3>1, <3>2 DEF TypeOK
    <3> QED
      BY <1>1, <3>1, <3>3
  <2>4. ASSUME NEW d \in Conns, CloseOwn(d) PROVE FALSE
    <3>1. Peer(fd[d]) = d /\ pc[d] = "close"
      BY <2>1, <2>4 DEF CloseOwn, ThreadInv
    <3>2. conn' = [conn EXCEPT ![d] = "closed"]
      BY <2>1, <2>4, <3>1, CloseFdOf DEF CloseOwn
    <3>3. c = d
      BY <1>1, <2>1, <3>2 DEF TypeOK
    <3> QED
      BY <1>1, <3>1, <3>3
  <2>5. ASSUME NEW d \in Conns, Accept(d) PROVE FALSE
    BY <1>1, <2>1, <2>5 DEF Accept, TypeOK
  <2>6. ASSUME NEW d \in Conns, Connect(d) PROVE FALSE
    BY <1>1, <2>1, <2>6 DEF Connect, TypeOK
  <2>7. CASE Environment
    BY <2>2, <2>6, <2>7 DEF Environment, PeerCloses, Tick, SignalMain, SignalOther
  <2>8. CASE Main
    BY <2>2, <2>3, <2>5, <2>8
    DEF Main, Loop, AcceptFails, Add, Find, Spawn, SpawnFails, SetTid, Drop,
        Shutdown, ShutSessions, Join
  <2>9. CASE Monitor
    BY <2>2, <2>9 DEF Monitor, MonWake, MonScan, MonSend
  <2>10. ASSUME NEW d \in Conns, Handle(d) PROVE FALSE
    BY <2>2, <2>10
    DEF Handle, HandleRegister, RegAdd, HandleMsg, Deliver, HandleBroadcast,
        HandleList, HandleInfo, InfoGet, HandleStatus, StatusAck, StatusNotify,
        HandleQuit, Reply
  <2>11. ASSUME NEW d \in Conns, ThreadRuns(d) PROVE FALSE
    BY <2>2, <2>4, <2>10, <2>11
    DEF ThreadRuns, Begin, RecvEnd, Touch, Ping, Quit, Unparsed, Remove
  <2>12. ASSUME NEW d \in Conns, NEW l \in FirstInputs \cup Inputs, Recv(d, l)
         PROVE  FALSE
    BY <2>2, <2>12 DEF Recv
  <2>13. CASE HandlerCloses
    BY <2>2, <2>13 DEF HandlerCloses
  <2>14. CASE UNCHANGED vars
    BY <2>2, <2>14 DEF vars
  <2> QED
    BY <1>1, <2>7, <2>8, <2>9, <2>11, <2>12, <2>13, <2>14 DEF Next
<1>2. Inv /\ [Next]_vars =>
        [\A c \in Conns : conn[c] = "open" /\ conn'[c] = "closed" =>
           pc[c] = "close" \/ (apc = "close" /\ pc[c] = "none")]_vars
  BY <1>1
<1> QED
  BY <1>2, Invariant, PTL DEF Spec, CloseOwnFd

\* The monitor marks nobody who has been active within the timeout.
THEOREM NobodyIsMarkedEarly == Spec => NoPrematureInactive
<1>1. ASSUME Inv, [Next]_vars, NEW s \in Slots,
             mpc = "scan", mpc' # "scan",
             sess[s].status # "INACTIVO", sess'[s].status = "INACTIVO"
      PROVE  sess[s].is_active /\ clock - sess[s].last_activity >= Timeout
  <2>1. MonScan
    <3>1. mpc' # mpc
      BY <1>1
    <3>2. CASE Environment
      BY <3>1, <3>2
      DEF Environment, Connect, PeerCloses, Tick, SignalMain, SignalOther, monitor
    <3>3. CASE Main
      BY <3>1, <3>3
      DEF Main, Loop, Accept, AcceptFails, Add, Find, Spawn, SpawnFails, SetTid,
          Drop, Close, Shutdown, ShutSessions, Join, monitor
    <3>4. CASE Monitor
      BY <1>1, <3>4 DEF Monitor, MonWake, MonSend
    <3>5. ASSUME NEW d \in Conns, Handle(d) PROVE FALSE
      BY <3>1, <3>5
      DEF Handle, HandleRegister, RegAdd, HandleMsg, Deliver, HandleBroadcast,
          HandleList, HandleInfo, InfoGet, HandleStatus, StatusAck,
          StatusNotify, HandleQuit, Reply, monitor
    <3>6. ASSUME NEW d \in Conns, ThreadRuns(d) PROVE FALSE
      BY <3>1, <3>5, <3>6
      DEF ThreadRuns, Begin, RecvEnd, Touch, Ping, Quit, Unparsed, Remove,
          CloseOwn, monitor
    <3>7. ASSUME NEW d \in Conns, NEW l \in FirstInputs \cup Inputs, Recv(d, l)
          PROVE  FALSE
      BY <3>1, <3>7 DEF Recv, monitor
    <3>8. CASE HandlerCloses
      BY <3>1, <3>8 DEF HandlerCloses, monitor
    <3>9. CASE UNCHANGED vars
      BY <3>1, <3>9 DEF vars, monitor
    <3> QED
      BY <1>1, <3>2, <3>3, <3>4, <3>6, <3>7, <3>8, <3>9 DEF Next
  <2>2. Idle(sess[s], mnow, Timeout)
    BY <1>1, <2>1 DEF MonScan
  <2>3. /\ mnow \in Nat /\ clock \in Nat /\ mnow <= clock
        /\ sess[s].last_activity \in Nat
    BY <1>1 DEF Inv, TypeInv, TypeOK, Session, Ownership
  <2> QED
    BY <2>2, <2>3, TimeoutAssumption DEF Idle
<1>2. Inv /\ [Next]_vars =>
        [\A s \in Slots :
           /\ mpc = "scan" /\ mpc' # "scan"
           /\ sess[s].status # "INACTIVO" /\ sess'[s].status = "INACTIVO"
           => sess[s].is_active /\ clock - sess[s].last_activity >= Timeout]_vars
  BY <1>1
<1> QED
  BY <1>2, Invariant, PTL DEF Spec, NoPrematureInactive

=============================================================================
