--------------------------- MODULE StubServerProofs ---------------------------
(***************************************************************************)
(* The table of the stub is sound for every number of slots, clients and   *)
(* descriptors and every set of lines: no two threads share a slot, what   *)
(* is sent to a name goes to the client that has it, only unregistered     *)
(* clients lose a slot, and g_count is never too small.                    *)
(***************************************************************************)
EXTENDS StubServerProperties, SeqInduction, FiniteSetTheorems

-----------------------------------------------------------------------------
(* The inductive invariant.                                                *)

\* The three fields of a StubClient.
IsClient(x) == x = [sockfd |-> x.sockfd, slot |-> x.slot, username |-> x.username]

Clients ==
  /\ cli = [c \in Conns |-> cli[c]] /\ \A c \in Conns : IsClient(cli[c])
  /\ g_clients = [s \in Slots |-> g_clients[s]]
  /\ \A s \in Slots : IsClient(g_clients[s])
  /\ line = [c \in Conns |-> line[c]]
  /\ afd \in Fds \cup {NoFd}

\* A connection is open exactly while one descriptor refers to it.
TableInv ==
  /\ \A f, g \in Fds : fdtab[f] = fdtab[g] /\ fdtab[f] # NoConn => f = g
  /\ \A c \in Conns : conn[c] = "open" <=> \E f \in Fds : fdtab[f] = c
  /\ \A c \in Conns : pc[c] # "none" => conn[c] \in {"open", "closed"}

\* Main holds a connection that has no thread, and a slot that no thread has.
MainInv ==
  /\ apc # "accept" => pc[Peer(afd)] = "none"
  /\ apc = "reserve" => g_clients[aslot].sockfd = NoFd
  /\ apc = "spawn" =>
       /\ g_clients[aslot].sockfd = afd /\ g_clients[aslot].username = ""
       /\ \A c \in Working : cli[c].slot # aslot

\* A thread and its slot agree, and no two threads have one slot.
ThreadInv ==
  /\ \A c \in Working :
       /\ g_clients[cli[c].slot].sockfd = cli[c].sockfd
       /\ g_clients[cli[c].slot].username = cli[c].username
       /\ cli[c].username # "" => g_clients[cli[c].slot] = cli[c]
  /\ \A c, d \in Working : cli[c].slot = cli[d].slot => c = d
  /\ \A c \in Conns : pc[c] = "close" => Peer(cli[c].sockfd) = c
  /\ \A c \in Conns : pc[c] = "reg_set" => Arg(line[c], 1) # ""

\* A name in the table has a thread.
NamesInv == \A s \in Named : \E c \in Working : cli[c].slot = s

TypeInv == TypeOK /\ Clients

Inv == TypeInv /\ TableInv /\ MainInv /\ ThreadInv /\ NamesInv

-----------------------------------------------------------------------------
(* Helpers.                                                                *)

\* The least element that accept() and the search for a slot choose is there.
LEMMA LeastIn ==
  ASSUME NEW S \in SUBSET Nat, S # {}
  PROVE  (CHOOSE s \in S : \A t \in S : s <= t) \in S
<1>1. PICK s \in S : \A r \in S : s <= r
  BY LeastNat
<1> QED
  BY <1>1, Zenon

\* The record main and the threads fill in.
LEMMA ClientFields ==
  /\ \A f, s, u : /\ IsClient([sockfd |-> f, slot |-> s, username |-> u])
  /\ \A x, u : IsClient(x) =>
       LET y == [x EXCEPT !.username = u]
       IN  IsClient(y) /\ y.sockfd = x.sockfd /\ y.slot = x.slot /\ y.username = u
  /\ \A x, f : IsClient(x) =>
       LET y == [x EXCEPT !.sockfd = f]
       IN  IsClient(y) /\ y.sockfd = f /\ y.slot = x.slot
           /\ y.username = x.username
BY DEF IsClient

\* What the cleanup makes of it: it forgets the name (u is empty there)
LEMMA Anonymous ==
  \A x, u : IsClient(x) =>
    LET y == [x EXCEPT !.username = u] IN IsClient(y) /\ y.username = u
BY DEF IsClient

\* and then the descriptor.
LEMMA Released ==
  \A x, f : IsClient(x) =>
    LET y == [x EXCEPT !.sockfd = f]
    IN  IsClient(y) /\ y.sockfd = f /\ y.username = x.username
BY DEF IsClient

\* The two together.
LEMMA Forgotten ==
  ASSUME NEW x, IsClient(x)
  PROVE  LET anon == [x EXCEPT !.username = ""]
             new == [anon EXCEPT !.sockfd = NoFd]
         IN  IsClient(new) /\ new.sockfd = NoFd /\ new.username = ""
<1> DEFINE anon == [x EXCEPT !.username = ""]
<1>1. IsClient(anon) /\ anon.username = ""
  BY Anonymous, Zenon
<1>2. ASSUME NEW z, IsClient(z), z.username = ""
      PROVE  LET new == [z EXCEPT !.sockfd = NoFd]
             IN  IsClient(new) /\ new.sockfd = NoFd /\ new.username = ""
  BY <1>2, Released, Zenon
<1> QED
  BY <1>1, <1>2, Zenon

\* A thread that has not cleaned up has a descriptor, and its slot is in use.
LEMMA HasFd ==
  ASSUME TypeInv, ThreadInv, NEW c \in Working
  PROVE  /\ cli[c].sockfd \in Fds /\ cli[c].sockfd # NoFd
         /\ Peer(cli[c].sockfd) = c /\ fdtab[cli[c].sockfd] = c
         /\ cli[c].slot \in Slots
         /\ g_clients[cli[c].slot].sockfd = cli[c].sockfd
<1>1. c \in Conns /\ Peer(cli[c].sockfd) = c /\ cli[c].slot \in Slots
  BY DEF TypeInv, TypeOK, Working
<1>2. cli[c].sockfd \in Fds /\ fdtab[cli[c].sockfd] = c
  BY <1>1, ConnsAssumption DEF Peer
<1>3. \A f \in Fds : f # NoFd
  BY FdsAssumption DEF NoFd
<1> QED
  BY <1>1, <1>2, <1>3 DEF ThreadInv

\* Goto moves one thread.
LEMMA Moves ==
  ASSUME TypeOK, NEW c \in Conns, NEW l \in Labels, Goto(c, l)
  PROVE  /\ pc' \in [Conns -> Labels] /\ pc'[c] = l
         /\ \A d \in Conns \ {c} : pc'[d] = pc[d]
BY DEF Goto, TypeOK

\* What closing descriptor f does, if it refers to c's connection.
LEMMA CloseFdOf ==
  ASSUME TypeInv, TableInv, NEW f, NEW c \in Conns, Peer(f) = c, CloseFd(f)
  PROVE  /\ fdtab' \in [Fds -> Conns \cup {NoConn}]
         /\ conn' \in [Conns -> {"idle", "queued", "open", "closed"}]
         /\ gone' \in [Conns -> BOOLEAN]
         /\ \A g : g # f => Peer(g)' = Peer(g) /\ Peer(g) # c
         /\ conn'[c] = "closed" /\ \A d \in Conns \ {c} : conn'[d] = conn[d]
         /\ \A g, h \in Fds : fdtab'[g] = fdtab'[h] /\ fdtab'[g] # NoConn => g = h
         /\ \A d \in Conns : conn'[d] = "open" <=> \E g \in Fds : fdtab'[g] = d
<1>1. TypeOK /\ f \in Fds /\ fdtab[f] = c
  BY ConnsAssumption DEF Peer, TypeInv
<1>2. /\ fdtab' = [fdtab EXCEPT ![f] = NoConn]
      /\ conn' = [conn EXCEPT ![c] = "closed"] /\ gone' = [gone EXCEPT ![c] = TRUE]
  BY DEF CloseFd
<1>3. /\ fdtab' \in [Fds -> Conns \cup {NoConn}]
      /\ conn' \in [Conns -> {"idle", "queued", "open", "closed"}]
      /\ gone' \in [Conns -> BOOLEAN]
  BY <1>1, <1>2 DEF TypeOK
<1>4. fdtab'[f] = NoConn /\ \A g \in Fds \ {f} : fdtab'[g] = fdtab[g] /\ fdtab[g] # c
  BY <1>1, <1>2, ConnsAssumption DEF TypeOK, TableInv
<1>5. conn'[c] = "closed" /\ \A d \in Conns \ {c} : conn'[d] = conn[d]
  BY <1>1, <1>2 DEF TypeOK
<1>6. \A g : g # f => Peer(g)' = Peer(g) /\ Peer(g) # c
  BY <1>4, ConnsAssumption DEF Peer
<1>7. \A g, h \in Fds : fdtab'[g] = fdtab'[h] /\ fdtab'[g] # NoConn => g = h
  BY <1>4 DEF TableInv
<1>8. ASSUME NEW d \in Conns PROVE conn'[d] = "open" <=> \E g \in Fds : fdtab'[g] = d
  <2>1. CASE d = c
    BY <1>4, <1>5, <2>1, ConnsAssumption
  <2>2. CASE d # c
    BY <1>1, <1>4, <1>5, <2>2, ConnsAssumption DEF TableInv
  <2> QED
    BY <2>1, <2>2
<1> QED
  BY <1>3, <1>5, <1>6, <1>7, <1>8

-----------------------------------------------------------------------------
(* The client threads.                                                     *)

WorkingLabels ==
  {"start", "recv", "handle", "reg_set", "reply", "refuse", "cleanup"}

\* A step of c's thread that changes its place, its line and what was sent.
LEMMA ThreadStays ==
  ASSUME Inv, NEW c \in Conns, c \in Working,
         NEW l \in WorkingLabels, Goto(c, l),
         UNCHANGED <<conn, gone, fdtab, table, mainv, cli>>,
         line' = [d \in Conns |-> line'[d]],
         \A d \in Conns \ {c} : line'[d] = line[d],
         l = "reg_set" => Arg(line'[c], 1) # ""
  PROVE  Inv'
<1> USE DEF Inv, table, mainv
<1>1. /\ pc' \in [Conns -> Labels] /\ pc'[c] = l
      /\ \A d \in Conns \ {c} : pc'[d] = pc[d]
  BY Moves DEF TypeInv, Labels, WorkingLabels
<1>2. Working' = Working
  BY <1>1 DEF Working, WorkingLabels
<1>3. \A f : Peer(f)' = Peer(f)
  BY DEF Peer
<1>4. TypeInv'
  BY <1>1, <1>2, <1>3 DEF TypeInv, TypeOK, Clients
<1>5. TableInv'
  <2>1. pc[c] # "none" /\ pc'[c] # "none" /\ \A d \in Conns \ {c} : pc'[d] = pc[d]
    BY <1>1 DEF Working, WorkingLabels
  <2>2. \A d \in Conns : pc'[d] # "none" => pc[d] # "none"
    BY <2>1, Zenon
  <2> QED
    BY <2>2, Zenon DEF TableInv
<1>6. MainInv'
  BY <1>1, <1>2, <1>3 DEF MainInv, Working, TypeInv, TypeOK
<1>7. ThreadInv'
  BY <1>1, <1>2, <1>3 DEF ThreadInv, WorkingLabels
<1>8. NamesInv'
  BY <1>2 DEF NamesInv, Named
<1> QED
  BY <1>4, <1>5, <1>6, <1>7, <1>8

\* What a thread sends, looks up or reads leaves the invariant alone.
LEMMA QuietThreads ==
  ASSUME Inv, NEW c \in Conns,
         \/ Welcome(c) \/ Recv(c) \/ RecvEnd(c) \/ Register(c) \/ List(c)
         \/ Info(c) \/ Status(c) \/ Msg(c) \/ Broadcast(c) \/ Quit(c)
         \/ Unknown(c) \/ Reply(c)
  PROVE  Inv'
<1> USE DEF kernel
<1>1. TypeOK /\ line = [d \in Conns |-> line[d]]
  BY DEF Inv, TypeInv, Clients
<1>2. CASE Welcome(c)
  BY <1>1, <1>2, ThreadStays DEF Welcome, Working, WorkingLabels
<1>3. CASE Recv(c)
  <2>1. PICK l : line' = [line EXCEPT ![c] = l]
    BY <1>3 DEF Recv
  <2>2. line' = [d \in Conns |-> line'[d]] /\ \A d \in Conns \ {c} : line'[d] = line[d]
    BY <1>1, <2>1
  <2> QED
    BY <1>3, <2>2, ThreadStays DEF Recv, Working, WorkingLabels
<1>4. CASE RecvEnd(c)
  BY <1>1, <1>4, ThreadStays DEF RecvEnd, Working, WorkingLabels
<1>5. CASE Register(c)
  <2> DEFINE name == Arg(line[c], 1)
  <2>1. \/ Goto(c, "refuse")
        \/ name # "" /\ Goto(c, "reg_set")
    BY <1>5 DEF Register, Answer
  <2>2. c \in Working /\ UNCHANGED <<conn, gone, fdtab, table, mainv, cli, line>>
    BY <1>5 DEF Register, Handles, Working
  <2>3. CASE Goto(c, "refuse")
    BY <1>1, <2>2, <2>3, ThreadStays DEF WorkingLabels
  <2>4. CASE name # "" /\ Goto(c, "reg_set")
    <3>1. Arg(line'[c], 1) # ""
      BY <2>2, <2>4
    <3> QED
      BY <1>1, <2>2, <2>4, <3>1, ThreadStays DEF WorkingLabels
  <2> QED
    BY <2>1, <2>3, <2>4
<1>6. CASE List(c)
  BY <1>1, <1>6, ThreadStays DEF List, Handles, Answer, Working, WorkingLabels
<1>7. CASE Info(c)
  BY <1>1, <1>7, ThreadStays DEF Info, Handles, Answer, Working, WorkingLabels
<1>8. CASE Status(c)
  BY <1>1, <1>8, ThreadStays DEF Status, Handles, Answer, Working, WorkingLabels
<1>9. CASE Msg(c)
  BY <1>1, <1>9, ThreadStays DEF Msg, Handles, Answer, Working, WorkingLabels
<1>10. CASE Broadcast(c)
  BY <1>1, <1>10, ThreadStays DEF Broadcast, Handles, Answer, Working, WorkingLabels
<1>11. CASE Quit(c)
  BY <1>1, <1>11, ThreadStays DEF Quit, Handles, Answer, Working, WorkingLabels
<1>12. CASE Unknown(c)
  BY <1>1, <1>12, ThreadStays DEF Unknown, Answer, Working, WorkingLabels
<1>13. CASE Reply(c)
  <2>1. line' = [line EXCEPT ![c] = <<>>]
    BY <1>13 DEF Reply
  <2>2. line' = [d \in Conns |-> line'[d]] /\ \A d \in Conns \ {c} : line'[d] = line[d]
    BY <1>1, <2>1
  <2>3. c \in Working /\ UNCHANGED <<conn, gone, fdtab, table, mainv, cli>>
    BY <1>13 DEF Reply, Working
  <2>4. \E l \in {"recv", "cleanup"} : Goto(c, l)
    BY <1>13 DEF Reply
  <2> QED
    BY <2>2, <2>3, <2>4, ThreadStays DEF WorkingLabels
<1> QED
  BY <1>2, <1>3, <1>4, <1>5, <1>6, <1>7, <1>8, <1>9, <1>10, <1>11, <1>12, <1>13

\* REGISTER: the thread writes its name into its own slot.
LEMMA RegSetStep ==
  ASSUME Inv, NEW c \in Conns, RegSet(c)
  PROVE  Inv'
<1> USE DEF Inv, kernel, mainv
<1> DEFINE me == [cli[c] EXCEPT !.username = Arg(line[c], 1)]
<1>1. c \in Working /\ TypeOK /\ Clients
  BY DEF RegSet, Working, TypeInv
<1>2. PICK s \in Slots : cli[c].slot = s
  BY <1>1 DEF TypeOK
<1>3. /\ IsClient(me) /\ me.sockfd = cli[c].sockfd /\ me.slot = s
      /\ me.username # ""
  <2>1. me.username = Arg(line[c], 1) /\ IsClient(me)
        /\ me.sockfd = cli[c].sockfd /\ me.slot = s
    BY <1>1, <1>2 DEF IsClient, Clients
  <2> QED
    BY <2>1 DEF ThreadInv, RegSet
<1>4. /\ cli' = [cli EXCEPT ![c] = me] /\ g_clients' = [g_clients EXCEPT ![s] = me]
      /\ g_count' = g_count + 1 /\ Goto(c, "reply")
      /\ UNCHANGED <<conn, gone, fdtab, apc, afd, aslot, line>>
  BY <1>3 DEF RegSet, Answer
<1> HIDE DEF me
<1>5. cli'[c] = me /\ \A d \in Conns \ {c} : cli'[d] = cli[d]
  BY <1>1, <1>4 DEF Clients
<1>6. g_clients'[s] = me /\ \A r \in Slots \ {s} : g_clients'[r] = g_clients[r]
  BY <1>1, <1>4 DEF Clients
<1>7. /\ pc' \in [Conns -> Labels] /\ pc'[c] = "reply"
      /\ \A d \in Conns \ {c} : pc'[d] = pc[d]
  BY <1>1, <1>4, Moves DEF Labels
<1>8. Working' = Working
  BY <1>1, <1>7 DEF Working
<1>9. \A f : Peer(f)' = Peer(f)
  BY <1>4 DEF Peer
<1>10. cli[c].sockfd \in Fds /\ Peer(cli[c].sockfd) = c
  BY <1>1, ConnsAssumption DEF TypeOK, Peer
<1>11. TypeOK'
  <2>1. \A r \in Slots : g_clients'[r].sockfd \in Fds \cup {NoFd}
    BY <1>1, <1>3, <1>6, <1>10 DEF TypeOK
  <2>2. \A d \in Working : cli'[d].slot \in Slots /\ Peer(cli'[d].sockfd) = d
    BY <1>1, <1>2, <1>3, <1>5, <1>10 DEF TypeOK, Working
  <2>3. DOMAIN g_clients' = Slots /\ g_count' \in Nat
    BY <1>1, <1>4 DEF TypeOK
  <2> QED
    BY <1>1, <1>4, <1>7, <1>8, <1>9, <2>1, <2>2, <2>3 DEF TypeOK
<1>12. Clients'
  BY <1>1, <1>3, <1>4, <1>5, <1>6 DEF Clients
<1>13. TableInv'
  BY <1>1, <1>4, <1>7 DEF TableInv, Working
<1>14. MainInv'
  <2>1. apc \in {"reserve", "spawn"} => aslot # s /\ aslot \in Slots
    <3>1. g_clients[s].sockfd # NoFd
      BY <1>1, <1>2, HasFd
    <3> QED
      BY <1>1, <1>2, <3>1 DEF MainInv, TypeOK
  <2>2. apc \in {"reserve", "spawn"} => g_clients'[aslot] = g_clients[aslot]
    BY <1>6, <2>1
  <2>3. \A d \in Working : cli'[d].slot = cli[d].slot
    BY <1>1, <1>2, <1>3, <1>5 DEF Working
  <2>4. apc # "accept" => pc'[Peer(afd)] = "none"
    <3> SUFFICES ASSUME apc # "accept" PROVE pc'[Peer(afd)] = "none"
      OBVIOUS
    <3>1. Peer(afd) \in Conns /\ pc[Peer(afd)] = "none" /\ pc[c] = "reg_set"
      BY <1>1 DEF MainInv, TypeOK, RegSet
    <3> QED
      BY <1>7, <3>1
  <2> QED
    BY <1>4, <1>8, <1>9, <2>2, <2>3, <2>4 DEF MainInv
<1>15. ThreadInv'
  <2>1. \A d \in Working : d # c => cli[d].slot # s
    BY <1>1, <1>2 DEF ThreadInv
  <2>2. \A d \in Working : cli'[d].slot = cli[d].slot /\ cli[d].slot \in Slots
    BY <1>1, <1>2, <1>3, <1>5 DEF TypeOK, Working
  <2>3. \A d \in Conns : pc'[d] \in {"close", "reg_set"} =>
           d # c /\ pc[d] = pc'[d]
    BY <1>7
  <2>4. \A d \in Working :
           /\ g_clients'[cli'[d].slot].sockfd = cli'[d].sockfd
           /\ g_clients'[cli'[d].slot].username = cli'[d].username
           /\ cli'[d].username # "" => g_clients'[cli'[d].slot] = cli'[d]
    <3> SUFFICES ASSUME NEW d \in Working
                 PROVE  /\ g_clients'[cli'[d].slot].sockfd = cli'[d].sockfd
                        /\ g_clients'[cli'[d].slot].username = cli'[d].username
                        /\ cli'[d].username # "" => g_clients'[cli'[d].slot] = cli'[d]
      OBVIOUS
    <3>1. CASE d = c
      <4>1. cli'[d] = me /\ g_clients'[cli'[d].slot] = me
        BY <1>3, <1>5, <1>6, <3>1
      <4> QED
        BY <4>1
    <3>2. CASE d # c
      <4>1. cli'[d] = cli[d] /\ g_clients'[cli[d].slot] = g_clients[cli[d].slot]
        BY <1>5, <1>6, <2>1, <2>2, <3>2 DEF Working
      <4>2. /\ g_clients[cli[d].slot].sockfd = cli[d].sockfd
            /\ g_clients[cli[d].slot].username = cli[d].username
            /\ cli[d].username # "" => g_clients[cli[d].slot] = cli[d]
        BY DEF ThreadInv
      <4> QED
        BY <4>1, <4>2
    <3> QED
      BY <3>1, <3>2
  <2>5. \A d, e \in Working : cli'[d].slot = cli'[e].slot => d = e
    BY <2>2 DEF ThreadInv
  <2>6. \A d \in Conns : pc'[d] = "close" => Peer(cli[d].sockfd)' = d
    <3> SUFFICES ASSUME NEW d \in Conns, pc'[d] = "close"
                 PROVE  Peer(cli[d].sockfd)' = d
      OBVIOUS
    <3>1. cli'[d] = cli[d] /\ Peer(cli[d].sockfd) = d
      BY <1>5, <2>3 DEF ThreadInv
    <3> QED
      BY <1>9, <3>1
  <2>7. \A d \in Conns : pc'[d] = "reg_set" => Arg(line'[d], 1) # ""
    BY <1>4, <2>3 DEF ThreadInv
  <2> QED
    BY <1>8, <2>4, <2>5, <2>6, <2>7 DEF ThreadInv
<1>16. NamesInv'
  <2>1. \A d \in Working : cli'[d].slot = cli[d].slot
    BY <1>1, <1>2, <1>3, <1>5 DEF Working
  <2>2. \A r \in Named' : r = s \/ r \in Named
    BY <1>6 DEF Named
  <2> QED
    BY <1>1, <1>2, <1>8, <2>1, <2>2 DEF NamesInv
<1> QED
  BY <1>11, <1>12, <1>13, <1>14, <1>15, <1>16 DEF TypeInv

\* The cleanup frees the slot of a registered client, and nobody else's.
LEMMA CleanupStep ==
  ASSUME Inv, NEW c \in Conns, Cleanup(c)
  PROVE  Inv'
<1> USE DEF Inv, kernel, mainv
<1>1. c \in Working /\ TypeOK /\ Clients
  BY DEF Cleanup, Working, TypeInv
<1>2. PICK s \in Slots : cli[c].slot = s
  BY <1>1 DEF TypeOK
<1>3. /\ pc' \in [Conns -> Labels] /\ pc'[c] = "close"
      /\ \A d \in Conns \ {c} : pc'[d] = pc[d]
  BY <1>1, Moves DEF Labels, Cleanup
<1>4. Working' = Working \ {c}
  BY <1>3 DEF Working
<1>5. UNCHANGED <<conn, gone, fdtab, apc, afd, aslot, cli, line>>
  BY DEF Cleanup
<1>6. \A f : Peer(f)' = Peer(f)
  BY <1>5 DEF Peer
<1>7. /\ g_clients' = [r \in Slots |-> g_clients'[r]]
      /\ \A r \in Slots : IsClient(g_clients'[r])
      /\ \A r \in Slots \ {s} : g_clients'[r] = g_clients[r]
      /\ g_clients'[s].sockfd \in Fds \cup {NoFd}
      /\ g_clients'[s].username = ""
      /\ g_count' \in Nat
  <2>1. CASE cli[c].username = ""
    <3>1. UNCHANGED <<g_clients, g_count>>
      BY <2>1 DEF Cleanup, table
    <3>2. g_clients[s].username = ""
      BY <1>1, <1>2, <2>1 DEF ThreadInv
    <3> QED
      BY <1>1, <1>2, <3>1, <3>2 DEF Clients, TypeOK
  <2>2. CASE cli[c].username # ""
    <3> DEFINE anon == [g_clients[s] EXCEPT !.username = ""]
               new == [anon EXCEPT !.sockfd = NoFd]
    <3>1. g_clients' = [g_clients EXCEPT ![s] = new]
      <4>1. g_clients' = [[g_clients EXCEPT ![s].username = ""]
                            EXCEPT ![s].sockfd = NoFd]
        BY <1>2, <2>2 DEF Cleanup
      <4> QED
        BY <1>1, <4>1 DEF Clients
    <3>2. IsClient(new) /\ new.sockfd = NoFd /\ new.username = ""
      <4>1. IsClient(g_clients[s])
        BY <1>1 DEF Clients
      <4> QED
        BY <4>1, Forgotten, Zenon
    <3>3. g_count' \in Nat
      <4>1. g_count \in Nat /\ g_count' = IF g_count > 0 THEN g_count - 1 ELSE 0
        BY <1>1, <2>2 DEF Cleanup, TypeOK
      <4> QED
        BY <4>1
    <3> HIDE DEF new
    <3> QED
      BY <1>1, <1>2, <3>1, <3>2, <3>3 DEF Clients
  <2> QED
    BY <2>1, <2>2
<1>8. TypeOK'
  <2>1. \A r \in Slots : g_clients'[r].sockfd \in Fds \cup {NoFd}
    BY <1>1, <1>7 DEF TypeOK
  <2>2. DOMAIN g_clients' = Slots
    BY <1>7
  <2> QED
    BY <1>1, <1>3, <1>4, <1>5, <1>6, <1>7, <2>1, <2>2 DEF TypeOK
<1>9. Clients'
  BY <1>1, <1>5, <1>7 DEF Clients
<1>10. TableInv'
  BY <1>1, <1>3, <1>5 DEF TableInv, Working
<1>11. apc \in {"reserve", "spawn"} => aslot # s
  <2>1. g_clients[s].sockfd # NoFd
    BY <1>1, <1>2, HasFd
  <2> QED
    BY <1>1, <1>2, <2>1 DEF MainInv
<1>12. MainInv'
  BY <1>1, <1>3, <1>4, <1>5, <1>6, <1>7, <1>11 DEF MainInv, TypeOK, Working
<1>13. ThreadInv'
  <2>1. \A d \in Working : d # c => cli[d].slot \in Slots \ {s}
    BY <1>1, <1>2 DEF ThreadInv, TypeOK
  <2>2. \A d \in Conns : pc'[d] = "close" => Peer(cli[d].sockfd) = d
    BY <1>1, <1>3, HasFd DEF ThreadInv
  <2>3. \A d \in Conns : pc'[d] = "reg_set" => pc[d] = "reg_set"
    BY <1>3
  <2>4. \A d \in Working \ {c} : g_clients'[cli[d].slot] = g_clients[cli[d].slot]
    BY <1>7, <2>1
  <2>5. \A d \in Working \ {c} :
           /\ g_clients'[cli[d].slot].sockfd = cli[d].sockfd
           /\ g_clients'[cli[d].slot].username = cli[d].username
           /\ cli[d].username # "" => g_clients'[cli[d].slot] = cli[d]
    BY <2>4 DEF ThreadInv
  <2>6. \A d, e \in Working \ {c} : cli[d].slot = cli[e].slot => d = e
    BY DEF ThreadInv
  <2>7. \A d \in Conns : pc'[d] = "reg_set" => Arg(line[d], 1) # ""
    BY <2>3 DEF ThreadInv
  <2>8. cli' = cli /\ line' = line
    BY <1>5
  <2>9. \A d \in Conns : pc'[d] = "close" => Peer(cli[d].sockfd)' = d
    BY <1>6, <2>2, <2>8
  <2> QED
    BY <1>4, <2>5, <2>6, <2>7, <2>8, <2>9 DEF ThreadInv
<1>14. NamesInv'
  <2>1. \A r \in Named' : r \in Named /\ r # s
    BY <1>7 DEF Named
  <2> QED
    BY <1>2, <1>4, <1>5, <2>1 DEF NamesInv
<1> QED
  BY <1>8, <1>9, <1>10, <1>12, <1>13, <1>14 DEF TypeInv

\* A thread closes its own connection, whether or not its slot is free.
LEMMA CloseStep ==
  ASSUME Inv, NEW c \in Conns, Close(c)
  PROVE  Inv'
<1> USE DEF Inv, table, mainv
<1> DEFINE f == cli[c].sockfd
<1>1. TypeOK /\ Peer(f) = c /\ CloseFd(f) /\ pc[c] = "close"
  BY DEF Close, ThreadInv, TypeInv
<1>2. /\ fdtab' \in [Fds -> Conns \cup {NoConn}]
      /\ conn' \in [Conns -> {"idle", "queued", "open", "closed"}]
      /\ gone' \in [Conns -> BOOLEAN]
      /\ \A g : g # f => Peer(g)' = Peer(g) /\ Peer(g) # c
      /\ conn'[c] = "closed" /\ \A d \in Conns \ {c} : conn'[d] = conn[d]
      /\ \A g, h \in Fds : fdtab'[g] = fdtab'[h] /\ fdtab'[g] # NoConn => g = h
      /\ \A d \in Conns : conn'[d] = "open" <=> \E g \in Fds : fdtab'[g] = d
  BY <1>1, CloseFdOf
<1>3. /\ pc' \in [Conns -> Labels] /\ pc'[c] = "done"
      /\ \A d \in Conns \ {c} : pc'[d] = pc[d]
  BY <1>1, Moves DEF Labels, Close
<1>4. Working' = Working
  BY <1>1, <1>3 DEF Working
<1>5. UNCHANGED <<apc, afd, aslot, g_clients, g_count, cli, line>>
  BY DEF Close
<1>6. \A d \in Working : Peer(cli[d].sockfd)' = d
  <2>1. \A d \in Working : d # c /\ Peer(cli[d].sockfd) = d
    BY <1>1 DEF Working, TypeOK
  <2> QED
    BY <1>1, <1>2, <1>5, <2>1
<1>7. apc # "accept" => afd # f /\ Peer(afd)' = Peer(afd)
  BY <1>1, <1>2, <1>5 DEF MainInv
<1>8. TypeOK'
  BY <1>1, <1>2, <1>3, <1>4, <1>5, <1>6, <1>7 DEF TypeOK
<1>9. Clients'
  BY <1>5 DEF Clients, TypeInv
<1>10. TableInv'
  BY <1>1, <1>2, <1>3 DEF TableInv
<1>11. MainInv'
  BY <1>1, <1>3, <1>4, <1>5, <1>7 DEF MainInv, TypeOK
<1>12. ThreadInv' /\ NamesInv'
  <2>1. \A d \in Conns : pc'[d] = "close" => Peer(cli[d].sockfd)' = d
    <3> SUFFICES ASSUME NEW d \in Conns, pc'[d] = "close"
                 PROVE  Peer(cli[d].sockfd)' = d
      OBVIOUS
    <3>1. d # c /\ Peer(cli[d].sockfd) = d
      BY <1>3 DEF ThreadInv
    <3>2. cli' = cli /\ cli[d].sockfd # cli[c].sockfd
      BY <1>1, <1>5, <3>1
    <3> QED
      BY <1>2, <3>1, <3>2
  <2>2. \A d \in Conns : pc'[d] = "reg_set" => pc[d] = "reg_set"
    BY <1>3
  <2> QED
    BY <1>4, <1>5, <2>1, <2>2 DEF ThreadInv, NamesInv, Named
<1> QED
  BY <1>8, <1>9, <1>10, <1>11, <1>12 DEF TypeInv

-----------------------------------------------------------------------------
(* main, and the clients on the other side.                                *)

\* accept() takes a descriptor that refers to nothing.
LEMMA AcceptStep ==
  ASSUME Inv, NEW c \in Conns, Accept(c)
  PROVE  Inv'
<1> USE DEF Inv, table
<1> DEFINE f == CHOOSE f \in FreeFds : \A g \in FreeFds : f <= g
<1>1. TypeOK /\ Clients /\ conn[c] = "queued" /\ apc = "accept"
  BY DEF TypeInv, Accept
<1>2. f \in Fds /\ fdtab[f] = NoConn
  <2>1. FreeFds \in SUBSET Nat /\ FreeFds # {}
    BY FdsAssumption DEF FreeFds, Accept
  <2>2. f \in FreeFds
    BY <2>1, LeastIn
  <2> QED
    BY <2>2 DEF FreeFds
<1>3. /\ afd' = f /\ fdtab' = [fdtab EXCEPT ![f] = c]
      /\ conn' = [conn EXCEPT ![c] = "open"] /\ apc' = "find"
      /\ UNCHANGED <<gone, g_clients, g_count, aslot, pc, cli, line>>
  BY DEF Accept
<1> HIDE DEF f
<1>4. /\ fdtab' \in [Fds -> Conns \cup {NoConn}] /\ fdtab'[f] = c
      /\ \A g \in Fds \ {f} : fdtab'[g] = fdtab[g] /\ fdtab[g] # c
  BY <1>1, <1>2, <1>3 DEF TypeOK, TableInv
<1>5. /\ conn' \in [Conns -> {"idle", "queued", "open", "closed"}]
      /\ conn'[c] = "open" /\ \A d \in Conns \ {c} : conn'[d] = conn[d]
  BY <1>1, <1>3 DEF TypeOK
<1>6. pc[c] = "none"
  BY <1>1 DEF TableInv
<1>7. \A d \in Conns : Peer(cli[d].sockfd) = d => Peer(cli[d].sockfd)' = d
  <2> SUFFICES ASSUME NEW d \in Conns, Peer(cli[d].sockfd) = d
               PROVE  Peer(cli[d].sockfd)' = d
    OBVIOUS
  <2>1. PICK g \in Fds : g = cli[d].sockfd /\ fdtab[g] = d
    BY ConnsAssumption DEF Peer
  <2>2. fdtab'[g] = d /\ cli' = cli
    BY <1>2, <1>3, <1>4, <2>1, ConnsAssumption
  <2> QED
    BY <2>1, <2>2 DEF Peer
<1>8. Peer(afd)' = c
  BY <1>2, <1>3, <1>4 DEF Peer
<1>9. Working' = Working /\ Named' = Named
  BY <1>3 DEF Working, Named
<1>10. TypeOK'
  <2>1. \A d \in Working : Peer(cli[d].sockfd)' = d
    BY <1>1, <1>7 DEF TypeOK, Working
  <2> QED
    BY <1>1, <1>3, <1>4, <1>5, <1>8, <1>9, <2>1 DEF TypeOK
<1>11. Clients'
  BY <1>1, <1>2, <1>3 DEF Clients
<1>12. TableInv'
  <2>1. \A g, h \in Fds : fdtab'[g] = fdtab'[h] /\ fdtab'[g] # NoConn => g = h
    BY <1>4 DEF TableInv
  <2>2. ASSUME NEW d \in Conns
        PROVE  conn'[d] = "open" <=> \E g \in Fds : fdtab'[g] = d
    <3>1. CASE d = c
      BY <1>2, <1>4, <1>5, <3>1
    <3>2. CASE d # c
      <4>1. conn'[d] = conn[d]
        BY <1>5, <3>2
      <4>2. \A g \in Fds : fdtab'[g] = d <=> fdtab[g] = d
        BY <1>2, <1>4, <3>2, ConnsAssumption
      <4> QED
        BY <4>1, <4>2 DEF TableInv
    <3> QED
      BY <3>1, <3>2
  <2>3. \A d \in Conns : pc'[d] # "none" => conn'[d] \in {"open", "closed"}
    BY <1>3, <1>5, <1>6 DEF TableInv
  <2> QED
    BY <2>1, <2>2, <2>3 DEF TableInv
<1>13. MainInv'
  BY <1>3, <1>6, <1>8 DEF MainInv
<1>14. ThreadInv'
  <2>1. \A d \in Conns : pc[d] = "close" => Peer(cli[d].sockfd)' = d
    BY <1>7 DEF ThreadInv
  <2> QED
    BY <1>3, <1>9, <2>1 DEF ThreadInv
<1>15. NamesInv'
  BY <1>3, <1>9 DEF NamesInv
<1> QED
  BY <1>10, <1>11, <1>12, <1>13, <1>14, <1>15 DEF TypeInv

\* What main does without a thread, a descriptor or a slot changing.
LEMMA MainMoves ==
  ASSUME Inv, FindSlot \/ Full
  PROVE  Inv'
<1> USE DEF Inv, kernel, table
<1>1. TypeOK /\ Clients
  BY DEF TypeInv
<1>2. UNCHANGED <<conn, gone, fdtab, g_clients, g_count, afd, pc, cli, line>>
  BY DEF FindSlot, Full
<1>3. Working' = Working /\ Named' = Named /\ \A f : Peer(f)' = Peer(f)
  BY <1>2 DEF Working, Named, Peer
<1>4. /\ apc # "accept" /\ apc' \in {"full", "reserve", "close"}
      /\ apc' = "reserve" => aslot' \in FreeSlots
  <2>1. CASE Full
    BY <2>1 DEF Full
  <2>2. CASE FindSlot
    <3>1. FreeSlots \in SUBSET Nat /\ FreeSlots \subseteq Slots
      BY StubAssumption DEF FreeSlots, Slots
    <3> HIDE DEF FreeSlots
    <3>2. FreeSlots # {} => aslot' \in FreeSlots
      BY <2>2, <3>1, LeastIn DEF FindSlot
    <3> QED
      BY <2>2, <3>2 DEF FindSlot
  <2> QED
    BY <2>1, <2>2
<1>5. Clients'
  BY <1>1, <1>2 DEF Clients
<1>6. TypeOK'
  <2>1. apc' \in {"reserve", "spawn"} => aslot' \in Slots
    BY <1>4 DEF FreeSlots
  <2>2. Peer(afd)' \in Conns
    BY <1>1, <1>2, <1>3, <1>4 DEF TypeOK
  <2>3. \A d \in Working' : cli'[d].slot \in Slots /\ Peer(cli[d].sockfd)' = d
    BY <1>1, <1>2, <1>3 DEF TypeOK
  <2> QED
    BY <1>1, <1>2, <1>4, <2>1, <2>2, <2>3 DEF TypeOK
<1>7. TableInv'
  BY <1>2 DEF TableInv
<1>8. MainInv'
  <2>1. pc'[Peer(afd)'] = "none"
    BY <1>2, <1>3, <1>4 DEF MainInv
  <2> QED
    BY <1>2, <1>4, <2>1 DEF MainInv, FreeSlots
<1>9. ThreadInv' /\ NamesInv'
  BY <1>2, <1>3 DEF ThreadInv, NamesInv
<1> QED
  BY <1>5, <1>6, <1>7, <1>8, <1>9 DEF TypeInv

\* Main closes the connection it has no slot for.
LEMMA CloseFullStep ==
  ASSUME Inv, CloseFull
  PROVE  Inv'
<1> USE DEF Inv, table
<1>1. TypeOK /\ Clients /\ TypeInv
  BY DEF TypeInv
<1>2. PICK c \in Conns : Peer(afd) = c
  BY <1>1 DEF CloseFull, TypeOK
<1>3. pc[c] = "none" /\ CloseFd(afd)
  BY <1>2 DEF CloseFull, MainInv
<1>4. /\ fdtab' \in [Fds -> Conns \cup {NoConn}]
      /\ conn' \in [Conns -> {"idle", "queued", "open", "closed"}]
      /\ gone' \in [Conns -> BOOLEAN]
      /\ \A g : g # afd => Peer(g)' = Peer(g) /\ Peer(g) # c
      /\ conn'[c] = "closed" /\ \A d \in Conns \ {c} : conn'[d] = conn[d]
      /\ \A g, h \in Fds : fdtab'[g] = fdtab'[h] /\ fdtab'[g] # NoConn => g = h
      /\ \A d \in Conns : conn'[d] = "open" <=> \E g \in Fds : fdtab'[g] = d
  BY <1>1, <1>2, <1>3, CloseFdOf
<1>5. /\ apc' = "accept" /\ afd' = NoFd
      /\ UNCHANGED <<g_clients, g_count, aslot, pc, cli, line>>
  BY DEF CloseFull
<1>6. Working' = Working /\ Named' = Named
  BY <1>5 DEF Working, Named
<1>7. \A d \in Conns : pc[d] # "none" /\ Peer(cli[d].sockfd) = d
         => Peer(cli[d].sockfd)' = d
  <2> SUFFICES ASSUME NEW d \in Conns, pc[d] # "none", Peer(cli[d].sockfd) = d
               PROVE  Peer(cli[d].sockfd)' = d
    OBVIOUS
  <2>1. cli' = cli /\ cli[d].sockfd # afd
    BY <1>2, <1>3, <1>5
  <2> QED
    BY <1>4, <2>1
<1>8. \A d \in Working : Peer(cli[d].sockfd)' = d
  BY <1>1, <1>7 DEF TypeOK, Working
<1>9. TypeOK'
  BY <1>1, <1>4, <1>5, <1>6, <1>8 DEF TypeOK
<1>10. Clients'
  BY <1>1, <1>5 DEF Clients
<1>11. TableInv'
  BY <1>3, <1>4, <1>5 DEF TableInv
<1>12. MainInv'
  BY <1>5 DEF MainInv
<1>13. ThreadInv' /\ NamesInv'
  <2>1. \A d \in Conns : pc[d] = "close" => Peer(cli[d].sockfd)' = d
    BY <1>7 DEF ThreadInv
  <2> QED
    BY <1>5, <1>6, <2>1 DEF ThreadInv, NamesInv
<1> QED
  BY <1>9, <1>10, <1>11, <1>12, <1>13 DEF TypeInv

\* Main writes the descriptor into a slot that is free, so nobody's.
LEMMA ReserveStep ==
  ASSUME Inv, Reserve
  PROVE  Inv'
<1> USE DEF Inv, kernel
<1> DEFINE old == g_clients[aslot]
           new == [old EXCEPT !.sockfd = afd]
<1>1. TypeOK /\ Clients /\ apc = "reserve"
  BY DEF TypeInv, Reserve
<1>2. aslot \in Slots /\ g_clients[aslot].sockfd = NoFd /\ afd \in Fds
  <2>1. Peer(afd) \in Conns
    BY <1>1 DEF TypeOK
  <2> QED
    BY <1>1, <2>1, ConnsAssumption DEF TypeOK, MainInv, Peer
<1>3. IsClient(new) /\ new.sockfd = afd /\ new.username = old.username
  <2>1. IsClient(old)
    BY <1>1, <1>2 DEF Clients
  <2> HIDE DEF old
  <2> QED
    BY <2>1, ClientFields
<1>4. g_clients' = [g_clients EXCEPT ![aslot] = new]
  BY DEF Reserve
<1>5. \A d \in Working : cli[d].slot \in Slots \ {aslot}
  <2>1. \A d \in Working : cli[d].slot \in Slots
                           /\ g_clients[cli[d].slot].sockfd # NoFd
    BY HasFd
  <2> QED
    BY <1>2, <2>1
<1>6. g_clients[aslot].username = ""
  BY <1>2, <1>5 DEF NamesInv, Named
<1> HIDE DEF new
<1>7. /\ g_clients' = [r \in Slots |-> g_clients'[r]] /\ g_clients'[aslot] = new
      /\ \A r \in Slots \ {aslot} : g_clients'[r] = g_clients[r]
  BY <1>1, <1>2, <1>4 DEF Clients
<1>8. /\ apc' = "spawn"
      /\ UNCHANGED <<conn, gone, fdtab, g_count, afd, aslot, pc, cli, line>>
  BY DEF Reserve
<1>9. Working' = Working /\ \A f : Peer(f)' = Peer(f)
  BY <1>8 DEF Working, Peer
<1>10. TypeOK'
  <2>1. \A r \in Slots : g_clients'[r].sockfd \in Fds \cup {NoFd}
    BY <1>1, <1>2, <1>3, <1>7 DEF TypeOK
  <2>2. DOMAIN g_clients' = Slots
    BY <1>7
  <2> QED
    BY <1>1, <1>2, <1>8, <1>9, <2>1, <2>2 DEF TypeOK
<1>11. Clients'
  <2>1. \A r \in Slots : IsClient(g_clients'[r])
    BY <1>1, <1>3, <1>7 DEF Clients
  <2> QED
    BY <1>1, <1>7, <1>8, <2>1 DEF Clients
<1>12. TableInv'
  BY <1>8 DEF TableInv
<1>13. MainInv'
  <2>1. g_clients'[aslot].sockfd = afd /\ g_clients'[aslot].username = ""
    BY <1>3, <1>6, <1>7
  <2>2. pc[Peer(afd)] = "none"
    BY <1>1 DEF MainInv
  <2> QED
    BY <1>5, <1>8, <1>9, <2>1, <2>2 DEF MainInv
<1>14. ThreadInv'
  <2>1. \A d \in Working : g_clients'[cli[d].slot] = g_clients[cli[d].slot]
    BY <1>5, <1>7
  <2> QED
    BY <1>8, <1>9, <2>1 DEF ThreadInv
<1>15. NamesInv'
  <2>1. \A r \in Named' : r \in Named
    BY <1>3, <1>6, <1>7 DEF Named
  <2> QED
    BY <1>8, <1>9, <2>1 DEF NamesInv
<1> QED
  BY <1>10, <1>11, <1>12, <1>13, <1>14, <1>15 DEF TypeInv

\* The new thread has the slot main reserved; if it was not created, nobody has.
LEMMA SpawnStep ==
  ASSUME Inv, NEW l \in {"start", "unborn"}, SpawnAs(l)
  PROVE  Inv'
<1> USE DEF Inv, kernel, table
<1> DEFINE new == [sockfd |-> afd, slot |-> aslot, username |-> ""]
<1>1. TypeOK /\ Clients /\ apc = "spawn"
  BY DEF TypeInv, SpawnAs
<1>2. PICK c \in Conns : Peer(afd) = c
  BY <1>1 DEF TypeOK
<1>3. /\ pc[c] = "none" /\ aslot \in Slots
      /\ g_clients[aslot].sockfd = afd /\ g_clients[aslot].username = ""
      /\ \A d \in Working : cli[d].slot # aslot
  BY <1>1, <1>2 DEF MainInv, TypeOK
<1>4. afd \in Fds /\ fdtab[afd] = c
  BY <1>2, ConnsAssumption DEF Peer
<1>5. IsClient(new) /\ new.sockfd = afd /\ new.slot = aslot /\ new.username = ""
  BY ClientFields
<1>6. /\ Goto(c, l) /\ cli' = [cli EXCEPT ![c] = new]
      /\ apc' = "accept" /\ afd' = NoFd
      /\ UNCHANGED <<conn, gone, fdtab, g_clients, g_count, line>>
  BY <1>2 DEF SpawnAs
<1> HIDE DEF new
<1>7. /\ pc' \in [Conns -> Labels] /\ pc'[c] = l
      /\ \A d \in Conns \ {c} : pc'[d] = pc[d]
  BY <1>1, <1>6, Moves DEF Labels
<1>8. cli'[c] = new /\ \A d \in Conns \ {c} : cli'[d] = cli[d]
  BY <1>1, <1>6 DEF Clients
<1>9. Working' = IF l = "start" THEN Working \cup {c} ELSE Working
  BY <1>3, <1>7 DEF Working
<1>10. c \notin Working /\ \A d \in Working : d \in Conns /\ cli'[d] = cli[d]
  BY <1>3, <1>8 DEF Working
<1>11. \A f : Peer(f)' = Peer(f)
  BY <1>6 DEF Peer
<1>12. TypeOK'
  <2>1. ASSUME NEW d \in Working'
        PROVE  cli'[d].slot \in Slots /\ Peer(cli[d].sockfd)' = d
    <3>1. CASE d = c
      BY <1>2, <1>3, <1>5, <1>8, <1>11, <3>1
    <3>2. CASE d # c
      BY <1>1, <1>9, <1>10, <1>11, <2>1, <3>2 DEF TypeOK
    <3> QED
      BY <3>1, <3>2
  <2> QED
    BY <1>1, <1>6, <1>7, <2>1 DEF TypeOK
<1>13. Clients'
  BY <1>1, <1>5, <1>6, <1>8 DEF Clients
<1>14. TableInv'
  <2>1. conn[c] = "open"
    BY <1>4 DEF TableInv
  <2> QED
    BY <1>6, <1>7, <2>1 DEF TableInv
<1>15. MainInv'
  BY <1>6 DEF MainInv
<1>16. ThreadInv'
  <2>1. ASSUME NEW d \in Working'
        PROVE  /\ g_clients[cli'[d].slot].sockfd = cli'[d].sockfd
               /\ g_clients[cli'[d].slot].username = cli'[d].username
               /\ cli'[d].username # "" => g_clients[cli'[d].slot] = cli'[d]
    <3>1. CASE d = c
      BY <1>3, <1>5, <1>8, <3>1
    <3>2. CASE d # c
      BY <1>9, <1>10, <2>1, <3>2 DEF ThreadInv
    <3> QED
      BY <3>1, <3>2
  <2>2. ASSUME NEW d \in Working', NEW e \in Working', cli'[d].slot = cli'[e].slot
        PROVE  d = e
    <3>1. CASE d # c /\ e # c
      BY <1>9, <1>10, <2>2, <3>1 DEF ThreadInv
    <3>2. CASE d = c \/ e = c
      BY <1>3, <1>5, <1>8, <1>9, <1>10, <2>2, <3>2
    <3> QED
      BY <3>1, <3>2
  <2>3. \A d \in Conns : pc'[d] = "close" => Peer(cli[d].sockfd)' = d
    <3> SUFFICES ASSUME NEW d \in Conns, pc'[d] = "close"
                 PROVE  Peer(cli[d].sockfd)' = d
      OBVIOUS
    <3>1. cli'[d] = cli[d] /\ Peer(cli[d].sockfd) = d
      BY <1>7, <1>8 DEF ThreadInv
    <3> QED
      BY <1>11, <3>1
  <2>4. \A d \in Conns : pc'[d] = "reg_set" => Arg(line[d], 1) # ""
    BY <1>7 DEF ThreadInv
  <2> QED
    BY <1>6, <2>1, <2>2, <2>3, <2>4 DEF ThreadInv
<1>17. NamesInv'
  <2>1. Named' = Named
    BY <1>6 DEF Named
  <2>2. ASSUME NEW s \in Named PROVE \E d \in Working' : cli'[d].slot = s
    BY <1>9, <1>10 DEF NamesInv
  <2> QED
    BY <2>1, <2>2 DEF NamesInv
<1> QED
  BY <1>12, <1>13, <1>14, <1>15, <1>16, <1>17 DEF TypeInv

\* A client that connects or leaves changes nothing the stub has.
LEMMA ClientSide ==
  ASSUME Inv, NEW c \in Conns, Connect(c) \/ PeerCloses(c)
  PROVE  Inv'
<1> USE DEF Inv, table, mainv
<1>1. TypeOK /\ Clients
  BY DEF TypeInv
<1>2. UNCHANGED <<fdtab, g_clients, g_count, apc, afd, aslot, pc, cli, line>>
  BY DEF Connect, PeerCloses
<1>3. Working' = Working /\ Named' = Named /\ \A f : Peer(f)' = Peer(f)
  BY <1>2 DEF Working, Named, Peer
<1>4. /\ conn' \in [Conns -> {"idle", "queued", "open", "closed"}]
      /\ gone' \in [Conns -> BOOLEAN]
      /\ \A d \in Conns : /\ conn'[d] = "open" <=> conn[d] = "open"
                          /\ conn'[d] = "closed" <=> conn[d] = "closed"
  BY <1>1 DEF Connect, PeerCloses, TypeOK
<1>5. TypeOK'
  BY <1>1, <1>2, <1>3, <1>4 DEF TypeOK
<1>6. Clients'
  BY <1>1, <1>2 DEF Clients
<1>7. TableInv'
  BY <1>2, <1>4 DEF TableInv
<1>8. MainInv' /\ ThreadInv' /\ NamesInv'
  BY <1>2, <1>3 DEF MainInv, ThreadInv, NamesInv
<1> QED
  BY <1>5, <1>6, <1>7, <1>8 DEF TypeInv

-----------------------------------------------------------------------------
(* The theorems.                                                           *)

\* The invariant holds at first,
LEMMA InitInv == Init => Inv
<1> SUFFICES ASSUME Init PROVE Inv
  OBVIOUS
<1>1. Working = {} /\ Named = {}
  BY ClientFields DEF Init, Working, Named, EmptyClient
<1>2. Clients
  BY ClientFields DEF Init, Clients, EmptyClient
<1>3. TypeOK
  BY <1>1 DEF Init, TypeOK, Labels, EmptyClient
<1>4. TableInv /\ MainInv /\ ThreadInv /\ NamesInv
  BY <1>1, ConnsAssumption DEF Init, TableInv, MainInv, ThreadInv, NamesInv
<1> QED
  BY <1>2, <1>3, <1>4 DEF Inv, TypeInv

\* when nothing changes,
LEMMA StutterInv == Inv /\ UNCHANGED vars => Inv'
<1> SUFFICES ASSUME Inv, UNCHANGED vars PROVE Inv'
  OBVIOUS
<1> USE DEF vars, kernel, table, mainv
<1>1. Working' = Working /\ Named' = Named /\ \A f : Peer(f)' = Peer(f)
  BY DEF Working, Named, Peer
<1>2. TypeOK' /\ Clients'
  BY <1>1 DEF Inv, TypeInv, TypeOK, Clients
<1>3. TableInv' /\ MainInv' /\ ThreadInv' /\ NamesInv'
  <2>1. TableInv' /\ MainInv'
    BY <1>1 DEF Inv, TableInv, MainInv
  <2>2. ThreadInv' /\ NamesInv'
    BY <1>1 DEF Inv, ThreadInv, NamesInv
  <2> QED
    BY <2>1, <2>2
<1> QED
  BY <1>2, <1>3 DEF Inv, TypeInv

\* and after every step.
LEMMA NextInv == Inv /\ [Next]_vars => Inv'
<1> SUFFICES ASSUME Inv, Next PROVE Inv'
  BY StutterInv
<1>1. CASE Main
  BY <1>1, AcceptStep, MainMoves, CloseFullStep, ReserveStep, SpawnStep
  DEF Main, Spawn
<1>2. CASE SpawnFails
  BY <1>2, SpawnStep DEF SpawnFails
<1>3. ASSUME NEW c \in Conns, Connect(c) \/ PeerCloses(c) PROVE Inv'
  BY <1>3, ClientSide
<1>4. ASSUME NEW c \in Conns, Recv(c) \/ ThreadRuns(c) PROVE Inv'
  BY <1>4, QuietThreads, RegSetStep, CleanupStep, CloseStep
  DEF ThreadRuns, Handle
<1> QED
  BY <1>1, <1>2, <1>3, <1>4 DEF Next

\* The inductive invariant holds of the accept loop and the client threads.
THEOREM StubInvariant == Spec => []Inv
<1> QED
  BY InitInv, NextInv, PTL DEF Spec

\* Every variable has its type, and every thread that has not put its slot in
\* order has a slot and a descriptor that refers to its own connection.
THEOREM StubTypes == Spec => []TypeOK
<1>1. Inv => TypeOK
  BY DEF Inv, TypeInv
<1> QED
  BY <1>1, StubInvariant, PTL

\* A name in the table belongs to one live thread, and the slot has that
\* thread's descriptor (REGISTER, and the cleanup at the end of client_thread).
THEOREM SlotsAreHeld == Spec => []SlotHeld
<1>1. ASSUME Inv PROVE SlotHeld
  <2> SUFFICES ASSUME NEW s \in Named
               PROVE  \E c \in Working :
                        /\ g_clients[s] = cli[c] /\ cli[c].slot = s
                        /\ \A d \in Working : cli[d].slot = s => d = c
    BY DEF SlotHeld
  <2>1. PICK c \in Working : cli[c].slot = s
    BY <1>1 DEF Inv, NamesInv
  <2>2. cli[c].username # ""
    BY <1>1, <2>1 DEF Inv, ThreadInv, Named
  <2>3. g_clients[s] = cli[c] /\ \A d \in Working : cli[d].slot = s => d = c
    BY <1>1, <2>1, <2>2 DEF Inv, ThreadInv
  <2> QED
    BY <2>1, <2>3
<1> QED
  BY <1>1, StubInvariant, PTL

-----------------------------------------------------------------------------
(* Reserved slots, and g_count.                                            *)

\* Connection c answers for slot s.
Accounts(c, s) ==
  /\ pc[c] # "none" /\ cli[c].slot = s /\ g_clients[s].sockfd = cli[c].sockfd
  /\ c \in Working \/ cli[c].username = ""

\* A slot in use is about to be given to a thread, or somebody answers for it.
Accounted ==
  \A s \in Slots \ FreeSlots :
    (apc = "spawn" /\ aslot = s) \/ \E c \in Conns : Accounts(c, s)

\* A step that leaves a used slot and those who answer for it as they are.
LEMMA AccountedKept ==
  ASSUME Accounted,
         \A s \in Slots : g_clients'[s].sockfd # NoFd =>
           /\ g_clients'[s].sockfd = g_clients[s].sockfd
           /\ apc = "spawn" /\ aslot = s => apc' = "spawn" /\ aslot' = s
           /\ \A c \in Conns : Accounts(c, s) => Accounts(c, s)'
  PROVE  Accounted'
<1> SUFFICES ASSUME NEW s \in Slots, s \notin FreeSlots'
             PROVE  (apc' = "spawn" /\ aslot' = s) \/ \E c \in Conns : Accounts(c, s)'
  BY DEF Accounted
<1>1. g_clients'[s].sockfd # NoFd /\ s \notin FreeSlots
  BY DEF FreeSlots
<1>2. (apc = "spawn" /\ aslot = s) \/ \E c \in Conns : Accounts(c, s)
  BY <1>1 DEF Accounted
<1> QED
  BY <1>1, <1>2

\* The threads: one that registers or cleans up touches its own slot only.
LEMMA AccountedThreads ==
  ASSUME Inv, Accounted, NEW c \in Conns, Recv(c) \/ ThreadRuns(c)
  PROVE  Accounted'
<1> USE DEF mainv
<1>1. TypeOK /\ Clients /\ ThreadInv
  BY DEF Inv, TypeInv
<1>2. UNCHANGED <<apc, aslot>>
  BY DEF Recv, ThreadRuns, Handle, Welcome, RecvEnd, Register, RegSet, List,
         Info, Status, Msg, Broadcast, Quit, Unknown, Reply, Cleanup, Close
<1>3. \A d \in Conns \ {c} : pc'[d] = pc[d]
  BY <1>1 DEF Recv, ThreadRuns, Handle, Welcome, RecvEnd, Register, RegSet, List,
         Info, Status, Msg, Broadcast, Quit, Unknown, Reply, Cleanup, Close,
         Goto, Answer, TypeOK
<1>4. CASE RegSet(c)
  <2> DEFINE me == [cli[c] EXCEPT !.username = Arg(line[c], 1)]
  <2>1. c \in Working /\ cli[c].slot \in Slots
    BY <1>1, <1>4 DEF RegSet, Working, TypeOK
  <2>2. me.slot = cli[c].slot /\ me.sockfd = cli[c].sockfd
    BY <1>1 DEF Clients, IsClient
  <2>3. pc'[c] = "reply"
    BY <1>1, <1>4 DEF RegSet, Answer, Goto, TypeOK
  <2>4. /\ cli' = [cli EXCEPT ![c] = me]
        /\ g_clients' = [g_clients EXCEPT ![cli[c].slot] = me]
    BY <1>4, <2>2 DEF RegSet
  <2> HIDE DEF me
  <2>5. /\ cli'[c] = me /\ \A d \in Conns \ {c} : cli'[d] = cli[d]
        /\ g_clients'[cli[c].slot] = me
        /\ \A s \in Slots \ {cli[c].slot} : g_clients'[s] = g_clients[s]
    BY <1>1, <2>1, <2>4 DEF Clients
  <2>6. g_clients[cli[c].slot].sockfd = cli[c].sockfd
    BY <1>1, <2>1 DEF ThreadInv
  <2>7. \A s \in Slots : g_clients'[s].sockfd = g_clients[s].sockfd
    BY <2>2, <2>5, <2>6
  <2>8. ASSUME NEW s \in Slots, NEW d \in Conns, Accounts(d, s)
        PROVE  Accounts(d, s)'
    <3>1. CASE d = c
      BY <2>2, <2>3, <2>5, <2>7, <2>8, <3>1 DEF Accounts, Working
    <3>2. CASE d # c
      BY <1>3, <2>5, <2>7, <2>8, <3>2 DEF Accounts, Working
    <3> QED
      BY <3>1, <3>2
  <2> QED
    BY <1>2, <2>7, <2>8, AccountedKept
<1>5. CASE Cleanup(c) /\ cli[c].username # ""
  <2>1. c \in Working /\ cli[c].slot \in Slots
    BY <1>1, <1>5 DEF Cleanup, Working, TypeOK
  <2>2. cli' = cli /\ g_clients' = [[g_clients EXCEPT ![cli[c].slot].username = ""]
                                      EXCEPT ![cli[c].slot].sockfd = NoFd]
    BY <1>5 DEF Cleanup
  <2>3. /\ g_clients'[cli[c].slot].sockfd = NoFd
        /\ \A s \in Slots \ {cli[c].slot} : g_clients'[s] = g_clients[s]
    <3> DEFINE anon == [g_clients[cli[c].slot] EXCEPT !.username = ""]
               new == [anon EXCEPT !.sockfd = NoFd]
    <3>1. g_clients' = [g_clients EXCEPT ![cli[c].slot] = new]
      BY <1>1, <2>1, <2>2 DEF Clients
    <3>2. new.sockfd = NoFd
      <4>1. IsClient(g_clients[cli[c].slot])
        BY <1>1, <2>1 DEF Clients
      <4> QED
        BY <4>1, Forgotten, Zenon
    <3> HIDE DEF new
    <3> QED
      BY <1>1, <2>1, <3>1, <3>2 DEF Clients
  <2>4. ASSUME NEW s \in Slots \ {cli[c].slot}, NEW d \in Conns, Accounts(d, s)
        PROVE  Accounts(d, s)'
    BY <1>3, <2>2, <2>3, <2>4 DEF Accounts, Working
  <2> QED
    BY <1>2, <2>3, <2>4, AccountedKept
<1>6. CASE ~RegSet(c) /\ ~(Cleanup(c) /\ cli[c].username # "")
  <2>1. UNCHANGED <<g_clients, cli>>
    BY <1>6 DEF Recv, ThreadRuns, Handle, Welcome, RecvEnd, Register, List,
         Info, Status, Msg, Broadcast, Quit, Unknown, Reply, Cleanup, Close, table
  <2>2. pc[c] # "none" /\ pc'[c] # "none" /\ (c \in Working =>
          c \in Working' \/ cli[c].username = "")
    <3>1. CASE Cleanup(c)
      BY <1>1, <1>6, <3>1 DEF Cleanup, Goto, TypeOK
    <3>2. CASE Close(c)
      BY <1>1, <3>2 DEF Close, Goto, TypeOK, Working
    <3>3. CASE ~Cleanup(c) /\ ~Close(c)
      BY <1>1, <1>6, <3>3 DEF Recv, ThreadRuns, Handle, Welcome, RecvEnd, Register,
         List, Info, Status, Msg, Broadcast, Quit, Unknown, Reply, Handles, Answer,
         Goto, TypeOK, Working
    <3> QED
      BY <3>1, <3>2, <3>3
  <2>3. ASSUME NEW s \in Slots, NEW d \in Conns, Accounts(d, s)
        PROVE  Accounts(d, s)'
    <3>1. CASE d = c
      BY <2>1, <2>2, <2>3, <3>1 DEF Accounts
    <3>2. CASE d # c
      BY <1>3, <2>1, <2>3, <3>2 DEF Accounts, Working
    <3> QED
      BY <3>1, <3>2
  <2> QED
    BY <1>2, <2>1, <2>3, AccountedKept
<1> QED
  BY <1>4, <1>5, <1>6

\* Main: a slot is reserved for the spawn that follows, and then the new
\* connection answers for it, whether it has a thread or not.
LEMMA AccountedMain ==
  ASSUME Inv, Accounted, Main \/ SpawnFails
  PROVE  Accounted'
<1>1. TypeOK /\ Clients /\ MainInv
  BY DEF Inv, TypeInv
<1>2. CASE Reserve
  <2>1. aslot \in Slots /\ apc = "reserve" /\ apc' = "spawn"
        /\ UNCHANGED <<aslot, pc, cli>>
    BY <1>1, <1>2 DEF Reserve, TypeOK
  <2>2. \A s \in Slots \ {aslot} : g_clients'[s] = g_clients[s]
    BY <1>1, <1>2, <2>1 DEF Reserve, Clients
  <2> SUFFICES ASSUME NEW s \in Slots, s \notin FreeSlots', s # aslot
               PROVE  \E c \in Conns : Accounts(c, s)'
    BY <2>1 DEF Accounted
  <2>3. s \notin FreeSlots
    BY <2>2 DEF FreeSlots
  <2>4. PICK c \in Conns : Accounts(c, s)
    BY <2>1, <2>3 DEF Accounted
  <2>5. Accounts(c, s)'
    BY <2>1, <2>2, <2>4 DEF Accounts, Working
  <2> QED
    BY <2>5
<1>3. ASSUME NEW l \in {"start", "unborn"}, SpawnAs(l) PROVE Accounted'
  <2> DEFINE new == [sockfd |-> afd, slot |-> aslot, username |-> ""]
  <2>1. PICK c \in Conns : Peer(afd) = c
    BY <1>1, <1>3 DEF SpawnAs, TypeOK
  <2>2. /\ pc[c] = "none" /\ aslot \in Slots /\ g_clients[aslot].sockfd = afd
    BY <1>1, <1>3, <2>1 DEF SpawnAs, MainInv, TypeOK
  <2>3. /\ g_clients' = g_clients /\ cli' = [cli EXCEPT ![c] = new] /\ Goto(c, l)
    BY <1>3, <2>1 DEF SpawnAs, table
  <2>4. new.sockfd = afd /\ new.slot = aslot /\ new.username = ""
    OBVIOUS
  <2> HIDE DEF new
  <2>5. /\ cli'[c] = new /\ \A d \in Conns \ {c} : cli'[d] = cli[d]
        /\ pc'[c] = l /\ \A d \in Conns \ {c} : pc'[d] = pc[d]
    BY <1>1, <2>3 DEF Clients, TypeOK, Goto
  <2> SUFFICES ASSUME NEW s \in Slots, s \notin FreeSlots'
               PROVE  \E d \in Conns : Accounts(d, s)'
    BY DEF Accounted
  <2>6. ASSUME s = aslot PROVE Accounts(c, s)'
    BY <2>2, <2>3, <2>4, <2>5, <2>6 DEF Accounts
  <2>7. ASSUME s # aslot PROVE \E d \in Conns : Accounts(d, s)'
    <3>1. s \notin FreeSlots
      BY <2>3 DEF FreeSlots
    <3>2. PICK d \in Conns : Accounts(d, s)
      BY <2>7, <3>1 DEF Accounted
    <3>3. Accounts(d, s)'
      BY <2>2, <2>3, <2>5, <3>2 DEF Accounts, Working
    <3> QED
      BY <3>3
  <2> QED
    BY <2>6, <2>7
<1>4. CASE (\E c \in Conns : Accept(c)) \/ FindSlot \/ Full \/ CloseFull
  <2>1. apc # "spawn" /\ UNCHANGED <<g_clients, cli, pc>>
    BY <1>4 DEF Accept, FindSlot, Full, CloseFull, table
  <2>2. ASSUME NEW s \in Slots, NEW d \in Conns, Accounts(d, s)
        PROVE  Accounts(d, s)'
    BY <2>1, <2>2 DEF Accounts, Working
  <2> QED
    BY <2>1, <2>2, AccountedKept
<1> QED
  BY <1>2, <1>3, <1>4 DEF Main, Spawn, SpawnFails

\* SlotsAccounted is kept.
LEMMA AccountedStep == Inv /\ Accounted /\ [Next]_vars => Accounted'
<1> SUFFICES ASSUME Inv, Accounted, [Next]_vars PROVE Accounted'
  OBVIOUS
<1>1. CASE Main \/ SpawnFails
  BY <1>1, AccountedMain
<1>2. ASSUME NEW c \in Conns, Recv(c) \/ ThreadRuns(c) PROVE Accounted'
  BY <1>2, AccountedThreads
<1>3. CASE UNCHANGED vars \/ \E c \in Conns : Connect(c) \/ PeerCloses(c)
  <2>1. UNCHANGED <<apc, aslot, g_clients, cli, pc>>
    BY <1>3 DEF Connect, PeerCloses, vars, mainv, table
  <2>2. ASSUME NEW s \in Slots, NEW d \in Conns, Accounts(d, s)
        PROVE  Accounts(d, s)'
    BY <2>1, <2>2 DEF Accounts, Working
  <2> QED
    BY <2>1, <2>2, AccountedKept
<1> QED
  BY <1>1, <1>2, <1>3 DEF Next

\* A reserved slot is in use, or it was lost by a connection that never
\* registered: no slot of a registered client is lost (the accept loop, and the
\* cleanup at the end of client_thread).
THEOREM SlotsAreAccounted == Spec => []SlotsAccounted
<1>1. Init => Accounted
  <2>1. EmptyClient.sockfd = NoFd
    BY DEF EmptyClient
  <2> QED
    BY <2>1 DEF Init, Accounted, FreeSlots
<1>2. Accounted => SlotsAccounted
  BY DEF Accounted, Accounts, SlotsAccounted
<1> QED
  BY <1>1, <1>2, StubInvariant, AccountedStep, PTL DEF Spec

-----------------------------------------------------------------------------
(* g_count covers the names in the table.                                  *)

\* There are finitely many names in the table.
LEMMA NamedFinite == IsFiniteSet(Named) /\ Cardinality(Named) \in Nat
<1>1. IsFiniteSet(Slots)
  BY StubAssumption, FS_Interval DEF Slots
<1>2. Named \subseteq Slots
  BY DEF Named
<1> QED
  BY <1>1, <1>2, FS_Subset, FS_CardinalityType

\* A registration adds at most one name, and counts it.
LEMMA CountRegSet ==
  ASSUME Inv, CountCovers, NEW c \in Conns, RegSet(c)
  PROVE  CountCovers'
<1>1. Clients /\ g_count \in Nat /\ g_count' = g_count + 1
  BY DEF Inv, TypeInv, TypeOK, RegSet
<1>2. PICK r : r = cli[c].slot
  OBVIOUS
<1>3. PICK me : g_clients' = [g_clients EXCEPT ![r] = me]
  <2>1. [cli[c] EXCEPT !.username = Arg(line[c], 1)].slot = r
    BY <1>1, <1>2 DEF Clients, IsClient
  <2> QED
    BY <2>1 DEF RegSet
<1>4. \A t \in Slots \ {r} : g_clients'[t] = g_clients[t]
  BY <1>1, <1>3 DEF Clients
<1>5. Named' \subseteq Named \cup {r}
  BY <1>4 DEF Named
<1>6. IsFiniteSet(Named \cup {r}) /\ Cardinality(Named \cup {r}) <= Cardinality(Named) + 1
      /\ Cardinality(Named \cup {r}) \in Nat
  BY NamedFinite, FS_AddElement, FS_CardinalityType
<1>7. Cardinality(Named') <= Cardinality(Named \cup {r}) /\ Cardinality(Named') \in Nat
  BY <1>5, <1>6, FS_Subset, FS_CardinalityType
<1> QED
  BY <1>1, <1>6, <1>7, NamedFinite DEF CountCovers

\* A cleanup takes one name away, and one from the count.
LEMMA CountCleanup ==
  ASSUME Inv, CountCovers, NEW c \in Conns, Cleanup(c)
  PROVE  CountCovers'
<1>1. Clients /\ g_count \in Nat /\ c \in Working /\ ThreadInv /\ TypeOK
  BY DEF Inv, TypeInv, TypeOK, Cleanup, Working
<1>2. CASE cli[c].username = ""
  BY <1>2 DEF Cleanup, CountCovers, Named, table
<1>3. CASE cli[c].username # ""
  <2>1. PICK r \in Slots : r = cli[c].slot
    BY <1>1 DEF TypeOK
  <2>2. r \in Named
    BY <1>1, <1>3, <2>1 DEF ThreadInv, Named
  <2>3. /\ g_clients' = [[g_clients EXCEPT ![r].username = ""] EXCEPT ![r].sockfd = NoFd]
        /\ g_count' = IF g_count > 0 THEN g_count - 1 ELSE 0
    BY <1>3, <2>1 DEF Cleanup
  <2>4. \A t \in Slots \ {r} : g_clients'[t] = g_clients[t]
    BY <1>1, <2>1, <2>3 DEF Clients
  <2>5. g_clients'[r].username = ""
    <3> DEFINE anon == [g_clients[r] EXCEPT !.username = ""]
               new == [anon EXCEPT !.sockfd = NoFd]
    <3>1. g_clients' = [g_clients EXCEPT ![r] = new]
      BY <1>1, <2>1, <2>3 DEF Clients
    <3>2. new.username = ""
      <4>1. IsClient(g_clients[r])
        BY <1>1, <2>1 DEF Clients
      <4> QED
        BY <4>1, Forgotten, Zenon
    <3> HIDE DEF new
    <3> QED
      BY <1>1, <2>1, <3>1, <3>2 DEF Clients
  <2>6. Named' = Named \ {r}
    BY <2>4, <2>5 DEF Named
  <2>7. Cardinality(Named') = Cardinality(Named) - 1 /\ Cardinality(Named') \in Nat
    BY <2>2, <2>6, NamedFinite, FS_RemoveElement, FS_CardinalityType
  <2>8. Cardinality(Named) \in Nat /\ Cardinality(Named) <= g_count
    BY NamedFinite DEF CountCovers
  <2>9. Cardinality(Named') <= g_count'
    <3>1. \A m, n, p, q \in Nat :
             m <= p /\ n = m - 1 /\ q = (IF p > 0 THEN p - 1 ELSE 0) => n <= q
      OBVIOUS
    <3>2. g_count' = IF g_count > 0 THEN g_count - 1 ELSE 0
      BY <2>3
    <3>3. g_count \in Nat /\ g_count' \in Nat
      BY <1>1, <3>2
    <3> QED
      BY <2>7, <2>8, <3>1, <3>2, <3>3
  <2> QED
    BY <2>9 DEF CountCovers
<1> QED
  BY <1>2, <1>3

\* Main reserves a slot without giving it a name.
LEMMA CountReserve ==
  ASSUME Inv, CountCovers, Reserve
  PROVE  CountCovers'
<1>1. Clients /\ TypeOK /\ apc = "reserve"
  BY DEF Inv, TypeInv, Reserve
<1>2. aslot \in Slots /\ g_count' = g_count
  BY <1>1 DEF TypeOK, Reserve
<1>3. g_clients' = [g_clients EXCEPT ![aslot].sockfd = afd]
  BY DEF Reserve
<1>4. \A t \in Slots : g_clients'[t].username = g_clients[t].username
  <2> SUFFICES ASSUME NEW t \in Slots
               PROVE  g_clients'[t].username = g_clients[t].username
    OBVIOUS
  <2>1. CASE t # aslot
    BY <1>1, <1>3, <2>1 DEF Clients
  <2>2. CASE t = aslot
    <3> DEFINE new == [g_clients[t] EXCEPT !.sockfd = afd]
    <3>1. IsClient(g_clients[t])
      BY <1>1 DEF Clients
    <3>2. \A x : IsClient(x) => \A f : [x EXCEPT !.sockfd = f].username = x.username
      BY ClientFields
    <3>3. new.username = g_clients[t].username
      BY <3>1, <3>2, Zenon
    <3>4. g_clients' = [g_clients EXCEPT ![t] = new]
      BY <1>3, <2>2
    <3> HIDE DEF new
    <3> QED
      BY <1>1, <3>3, <3>4 DEF Clients
  <2> QED
    BY <2>1, <2>2
<1>5. Named' = Named
  BY <1>4 DEF Named
<1> QED
  BY <1>2, <1>5 DEF CountCovers

\* CountCovers is kept: every other step leaves the names and the count alone.
LEMMA CountStep == Inv /\ CountCovers /\ [Next]_vars => CountCovers'
<1> SUFFICES ASSUME Inv, CountCovers, [Next]_vars PROVE CountCovers'
  OBVIOUS
<1>1. ASSUME NEW c \in Conns, RegSet(c) \/ Cleanup(c) PROVE CountCovers'
  BY <1>1, CountRegSet, CountCleanup
<1>2. CASE Reserve
  BY <1>2, CountReserve
<1>3. CASE ~Reserve /\ \A c \in Conns : ~RegSet(c) /\ ~Cleanup(c)
  <2>1. UNCHANGED table
    <3>1. CASE UNCHANGED vars
      BY <3>1 DEF vars
    <3>2. CASE Main \/ SpawnFails
      BY <1>3, <3>2 DEF Main, SpawnFails, Accept, FindSlot, Full, CloseFull, Spawn,
         SpawnAs
    <3>3. ASSUME NEW c \in Conns,
                 Connect(c) \/ PeerCloses(c) \/ Recv(c) \/ ThreadRuns(c)
          PROVE  UNCHANGED table
      BY <1>3, <3>3 DEF Connect, PeerCloses, Recv, ThreadRuns, Handle, Welcome,
         RecvEnd, Register, List, Info, Status, Msg, Broadcast, Quit, Unknown,
         Reply, Close
    <3> QED
      BY <3>1, <3>2, <3>3 DEF Next
  <2> QED
    BY <2>1 DEF CountCovers, Named, table
<1> QED
  BY <1>1, <1>2, <1>3

\* g_count is never less than the names in the table, so the cleanup of a
\* registered client finds it above zero and its clamp is never needed
\* (REGISTER and the cleanup, each in a critical section of its own).
THEOREM CountIsEnough == Spec => []CountCovers
<1>1. Init => CountCovers
  <2>1. Init => Named = {} /\ g_count = 0
    <3>1. EmptyClient.username = ""
      BY DEF EmptyClient
    <3>2. Init => \A s \in Slots : g_clients[s] = EmptyClient
      BY DEF Init
    <3> QED
      BY <3>1, <3>2 DEF Init, Named
  <2> QED
    BY <2>1, FS_EmptySet DEF CountCovers
<1> QED
  BY <1>1, StubInvariant, CountStep, PTL DEF Spec

-----------------------------------------------------------------------------
(* The stub gives the service.                                             *)

\* Any lines may be asked and said, so their type is whatever they are.
IsSequence(q) == \E S : q \in Seq(S)

Talking == {"handle", "reg_set", "reply", "refuse"}

\* A thread works on the last line it has read, and what it is about to send
\* answers it.
OnItsLine(c) ==
  /\ IsSequence(asked[c]) /\ IsSequence(outq[c])
  /\ pc[c] \in Talking => line[c] = asked[c][Len(asked[c])]
  /\ pc[c] = "reg_set" => line[c][1] = "REGISTER"
  /\ pc[c] \in {"reply", "refuse"} => Service!Answers(line[c], reply[c])

Conversations ==
  /\ \A c \in Conns : OnItsLine(c)
  /\ asked = [c \in Conns |-> asked[c]] /\ outq = [c \in Conns |-> outq[c]]
  /\ reply = [c \in Conns |-> reply[c]]

\* One element more.
LEMMA Longer ==
  ASSUME NEW q, IsSequence(q), NEW m
  PROVE  /\ IsSequence(Append(q, m))
         /\ Len(Append(q, m)) = Len(q) + 1
         /\ SubSeq(Append(q, m), 1, Len(q)) = q
         /\ Append(q, m)[Len(Append(q, m))] = m
         /\ \A kinds : Without(Append(q, m), kinds) =
              IF m[1] \in kinds THEN Without(q, kinds)
                                ELSE Append(Without(q, kinds), m)
         /\ \A kinds : IsSequence(Without(q, kinds))
<1>1. PICK S : q \in Seq(S)
  BY DEF IsSequence
<1> DEFINE R == S \cup {m}
<1>2. q \in Seq(R) /\ m \in R
  BY <1>1
<1> HIDE DEF R
<1>3. Append(q, m) \in Seq(R) /\ \A kinds : Without(q, kinds) \in Seq(R)
  BY <1>2, WithoutType
<1>4. /\ Len(Append(q, m)) = Len(q) + 1
      /\ SubSeq(Append(q, m), 1, Len(q)) = q
      /\ Append(q, m)[Len(Append(q, m))] = m
  BY <1>2
<1>5. \A kinds : Without(Append(q, m), kinds) =
              IF m[1] \in kinds THEN Without(q, kinds)
                                ELSE Append(Without(q, kinds), m)
  BY <1>2, WithoutAppend
<1>6. IsSequence(Append(q, m)) /\ \A kinds : IsSequence(Without(q, kinds))
  BY <1>3 DEF IsSequence
<1> QED
  BY <1>4, <1>5, <1>6

Said(c) == Without(outq[c], Notices)

\* What stub_send puts on the wire.
LEMMA SendsTo ==
  ASSUME Conversations, NEW F, NEW m, StubSend(F, m), NEW d \in Conns
  PROVE  /\ IsSequence(outq'[d])
         /\ Said(d)' = IF ~gone[d] /\ m[1] \notin Notices /\ \E f \in F : Peer(f) = d
                       THEN Append(Said(d), m) ELSE Said(d)
<1>1. IsSequence(outq[d])
  BY DEF Conversations, OnItsLine
<1>2. outq'[d] = IF ~gone[d] /\ \E f \in F : Peer(f) = d
                 THEN Append(outq[d], m) ELSE outq[d]
  BY DEF StubSend
<1>3. /\ IsSequence(Append(outq[d], m))
      /\ Without(Append(outq[d], m), Notices) =
              IF m[1] \in Notices THEN Without(outq[d], Notices)
                                ELSE Append(Without(outq[d], Notices), m)
  BY <1>1, Longer
<1> QED
  BY <1>1, <1>2, <1>3 DEF Said

\* c's service does not move.
Aside(c) == Stage'[c] = Stage[c] /\ asked'[c] = asked[c] /\ Said(c)' = Said(c)

\* If nobody's does, somebody has closed at most.
LEMMA ServiceStands ==
  ASSUME Conversations, Conversations', \A c \in Conns : Aside(c)
  PROVE  [Service!Next]_(Service!vars)
<1>1. Stage' = Stage
  BY DEF Stage, Aside
<1>2. asked' = asked
  BY DEF Conversations, Aside
<1>3. UNCHANGED [c \in Conns |-> Without(outq[c], Notices)]
  BY DEF Aside, Said
<1> QED
  BY <1>1, <1>2, <1>3 DEF Service!Next, Service!Close, Service!vars

\* c is sent line m, unless it is gone, and m is no notice.
LEMMA Spoken ==
  ASSUME Conversations, TypeOK, NEW c \in Conns, NEW f, Peer(f) = c,
         NEW m, m[1] \notin Notices, StubSend({f}, m)
  PROVE  /\ \A d \in Conns \ {c} : Said(d)' = Said(d)
         /\ \/ /\ Len(Said(c)') = Len(Said(c)) + 1
               /\ SubSeq(Said(c)', 1, Len(Said(c))) = Said(c)
               /\ Said(c)'[Len(Said(c)')] = m
            \/ gone[c] /\ Said(c)' = Said(c)
<1>1. \A d \in Conns \ {c} : Said(d)' = Said(d)
  BY SendsTo
<1>2. Said(c)' = IF ~gone[c] THEN Append(Said(c), m) ELSE Said(c)
  <2>1. \E g \in {f} : Peer(g) = c
    OBVIOUS
  <2> QED
    BY <2>1, SendsTo
<1>3. IsSequence(Said(c))
  <2>1. IsSequence(outq[c])
    BY DEF Conversations, OnItsLine
  <2> QED
    BY <2>1, Longer DEF Said
<1>4. gone[c] \in BOOLEAN
  BY DEF TypeOK
<1>5. /\ Len(Append(Said(c), m)) = Len(Said(c)) + 1
      /\ SubSeq(Append(Said(c), m), 1, Len(Said(c))) = Said(c)
      /\ Append(Said(c), m)[Len(Append(Said(c), m))] = m
  BY <1>3, Longer
<1>6. CASE ~gone[c]
  <2>1. Said(c)' = Append(Said(c), m)
    BY <1>2, <1>6
  <2> QED
    BY <1>1, <1>5, <2>1, Zenon
<1>7. CASE gone[c]
  BY <1>1, <1>2, <1>7
<1> QED
  BY <1>4, <1>6, <1>7

\* A thread's descriptor is its client's.
LEMMA OwnPeer ==
  ASSUME Inv, NEW c \in Conns, pc[c] \in {"start"} \cup Talking
  PROVE  Peer(cli[c].sockfd) = c
BY DEF Inv, TypeInv, TypeOK, Working, Talking

\* The stage of a client depends on its thread, and on main if it has none.
LEMMA StageOf ==
  ASSUME TypeOK, NEW c \in Conns
  PROVE  /\ pc'[c] = "recv" => Stage'[c] = "idle"
         /\ pc'[c] \in Talking => Stage'[c] = "working"
         /\ pc'[c] \in {"cleanup", "close", "done", "unborn"} => Stage'[c] = "over"
         /\ pc'[c] = "start" => Stage'[c] = "new"
         /\ pc[c] = "start" => Stage[c] = "new"
         /\ pc[c] = "recv" => Stage[c] = "idle"
         /\ pc[c] \in Talking => Stage[c] = "working"
         /\ pc[c] = "none" /\ conn[c] # "closed" /\ (apc = "close" => Peer(afd) # c)
              => Stage[c] = "new"
         /\ pc'[c] = "none" /\ apc' = "close" /\ Peer(afd)' = c => Stage'[c] = "over"
         /\ /\ pc'[c] = pc[c] /\ (conn'[c] = "closed" <=> conn[c] = "closed")
            /\ (apc' = "close" /\ Peer(afd)' = c) <=> (apc = "close" /\ Peer(afd) = c)
            => Stage'[c] = Stage[c]
<1>1. pc[c] \in Labels
  BY DEF TypeOK
<1> QED
  BY <1>1 DEF Stage, Labels, Talking

\* WELCOME.
LEMMA WelcomeGreets ==
  ASSUME Inv, Conversations, NEW c \in Conns, Welcome(c)
  PROVE  Service!Greet(c)
<1> DEFINE m == <<"WELCOME", "CHAT/1.0">>
<1>1. TypeOK /\ pc[c] = "start" /\ Goto(c, "recv") /\ UNCHANGED <<conn, gone, fdtab, asked, mainv>>
  BY DEF Inv, TypeInv, Welcome, kernel
<1>2. PICK f : f = cli[c].sockfd /\ Peer(f) = c
  BY <1>1, OwnPeer
<1>3. pc'[c] = "recv" /\ \A d \in Conns \ {c} : pc'[d] = pc[d]
  BY <1>1, Moves DEF Labels
<1>4. m[1] = "WELCOME" /\ m[1] \notin Notices
  BY DEF Notices
<1> HIDE DEF m
<1>5. StubSend({f}, m)
  BY <1>2 DEF Welcome, m
<1>6. /\ \A d \in Conns \ {c} : Said(d)' = Said(d)
      /\ \/ /\ Len(Said(c)') = Len(Said(c)) + 1
            /\ SubSeq(Said(c)', 1, Len(Said(c))) = Said(c)
            /\ Said(c)'[Len(Said(c)')] = m
         \/ gone[c] /\ Said(c)' = Said(c)
  BY <1>1, <1>2, <1>4, <1>5, Spoken
<1>7. /\ Stage[c] = "new" /\ Stage'[c] = "idle"
      /\ \A d \in Conns \ {c} : Stage'[d] = Stage[d]
  BY <1>1, <1>3, StageOf DEF Talking, Peer, mainv
<1> QED
  BY <1>1, <1>4, <1>6, <1>7
  DEF Service!Greet, Service!Moves, Service!Says, Service!Others, Service!OneMore, Said

\* The answer every branch of handle_message ends with.
LEMMA ReplyAnswers ==
  ASSUME Inv, Conversations, NEW c \in Conns, Reply(c)
  PROVE  Service!Answer(c)
<1> DEFINE m == reply[c]
<1>1. /\ TypeOK /\ pc[c] \in {"reply", "refuse"} /\ StubSend({cli[c].sockfd}, m)
      /\ \E l \in {"recv", "cleanup"} : Goto(c, l)
      /\ UNCHANGED <<conn, gone, fdtab, asked, mainv>>
  BY DEF Inv, TypeInv, Reply, kernel
<1>2. Peer(cli[c].sockfd) = c
  BY <1>1, OwnPeer DEF Talking
<1>3. pc'[c] \in {"recv", "cleanup"} /\ \A d \in Conns \ {c} : pc'[d] = pc[d]
  BY <1>1, Moves DEF Labels
<1>4. Service!Answers(asked[c][Len(asked[c])], m)
  BY <1>1 DEF Conversations, OnItsLine, Talking
<1>5. m[1] \notin Notices
  BY <1>4 DEF Service!Answers, Service!OkFor, Notices
<1> HIDE DEF m
<1>6. /\ \A d \in Conns \ {c} : Said(d)' = Said(d)
      /\ \/ /\ Len(Said(c)') = Len(Said(c)) + 1
            /\ SubSeq(Said(c)', 1, Len(Said(c))) = Said(c)
            /\ Said(c)'[Len(Said(c)')] = m
         \/ gone[c] /\ Said(c)' = Said(c)
  BY <1>1, <1>2, <1>5, Spoken
<1>7. /\ Stage[c] = "working" /\ Stage'[c] \in {"idle", "over"}
      /\ \A d \in Conns \ {c} : Stage'[d] = Stage[d]
  BY <1>1, <1>3, StageOf DEF Talking, Peer, mainv
<1> QED
  BY <1>1, <1>4, <1>6, <1>7
  DEF Service!Answer, Service!Moves, Service!Says, Service!Others, Service!OneMore, Said

\* recv returns the next line.
LEMMA RecvHears ==
  ASSUME Inv, Conversations, NEW c \in Conns, Recv(c)
  PROVE  Service!Hear(c)
<1>1. PICK l : /\ asked' = [asked EXCEPT ![c] = Append(@, l)]
               /\ line' = [line EXCEPT ![c] = l]
  BY DEF Recv
<1>2. /\ TypeOK /\ pc[c] = "recv" /\ Goto(c, "handle")
      /\ UNCHANGED <<conn, gone, fdtab, outq, mainv>>
  BY DEF Inv, TypeInv, Recv
<1>3. pc'[c] = "handle" /\ \A d \in Conns \ {c} : pc'[d] = pc[d]
  BY <1>2, Moves DEF Labels
<1>4. /\ asked'[c] = Append(asked[c], l) /\ IsSequence(asked[c])
      /\ \A d \in Conns \ {c} : asked'[d] = asked[d]
  BY <1>1 DEF Conversations, OnItsLine
<1>5. /\ Stage[c] = "idle" /\ Stage'[c] = "working"
      /\ \A d \in Conns \ {c} : Stage'[d] = Stage[d]
  BY <1>2, <1>3, StageOf DEF Talking, Peer, mainv
<1>6. Len(asked'[c]) = Len(asked[c]) + 1 /\ SubSeq(asked'[c], 1, Len(asked[c])) = asked[c]
  BY <1>4, Longer
<1> QED
  BY <1>2, <1>4, <1>5, <1>6
  DEF Service!Hear, Service!Moves, Service!Others, Service!OneMore

\* SERVER_FULL.
LEMMA FullRefuses ==
  ASSUME Inv, Conversations, Full
  PROVE  \E c \in Conns : Service!Refuse(c)
<1> DEFINE m == <<"ERROR", "REGISTER", "SERVER_FULL">>
<1>1. /\ TypeOK /\ TableInv /\ MainInv /\ apc = "full" /\ apc' = "close"
      /\ StubSend({afd}, m) /\ UNCHANGED <<conn, gone, fdtab, asked, afd, pc>>
  BY DEF Inv, TypeInv, Full, kernel
<1>2. PICK c \in Conns : Peer(afd) = c /\ pc[c] = "none"
  BY <1>1 DEF TypeOK, MainInv
<1>3. conn[c] = "open"
  BY <1>1, <1>2, ConnsAssumption DEF TableInv, Peer
<1>4. m[1] = "ERROR" /\ m[1] \notin Notices
  BY DEF Notices
<1> HIDE DEF m
<1>5. /\ \A d \in Conns \ {c} : Said(d)' = Said(d)
      /\ \/ /\ Len(Said(c)') = Len(Said(c)) + 1
            /\ SubSeq(Said(c)', 1, Len(Said(c))) = Said(c)
            /\ Said(c)'[Len(Said(c)')] = m
         \/ gone[c] /\ Said(c)' = Said(c)
  BY <1>1, <1>2, <1>4, Spoken
<1>6. /\ Stage[c] = "new" /\ Stage'[c] = "over"
      /\ \A d \in Conns \ {c} : Stage'[d] = Stage[d]
  BY <1>1, <1>2, <1>3, StageOf DEF Peer
<1>7. Service!Refuse(c)
  BY <1>1, <1>4, <1>5, <1>6
  DEF Service!Refuse, Service!Moves, Service!Says, Service!Others, Service!OneMore, Said
<1> QED
  BY <1>7

\* A thread that cannot be created never greets its client.
LEMMA UnbornRefused ==
  ASSUME Inv, Conversations, SpawnFails
  PROVE  \E c \in Conns : Service!Refuse(c)
<1>1. /\ TypeOK /\ TableInv /\ MainInv /\ apc = "spawn" /\ apc' = "accept"
      /\ Goto(Peer(afd), "unborn") /\ UNCHANGED <<conn, gone, fdtab, asked, outq>>
  BY DEF Inv, TypeInv, SpawnFails, SpawnAs, kernel
<1>2. PICK c \in Conns : Peer(afd) = c /\ pc[c] = "none"
  BY <1>1 DEF TypeOK, MainInv
<1>3. conn[c] = "open"
  BY <1>1, <1>2, ConnsAssumption DEF TableInv, Peer
<1>4. pc'[c] = "unborn" /\ \A d \in Conns \ {c} : pc'[d] = pc[d]
  BY <1>1, <1>2, Moves DEF Labels
<1>5. /\ Stage[c] = "new" /\ Stage'[c] = "over"
      /\ \A d \in Conns \ {c} : Stage'[d] = Stage[d]
  BY <1>1, <1>2, <1>3, <1>4, StageOf DEF Peer
<1>6. Service!Refuse(c)
  BY <1>1, <1>5
  DEF Service!Refuse, Service!Moves, Service!Others
<1> QED
  BY <1>6

\* Nothing is said while a line is worked on but notices, and nothing at the end.
LEMMA SaysNothing ==
  ASSUME Conversations,
         UNCHANGED outq \/ \E F, m : StubSend(F, m) /\ m[1] \in Notices
  PROVE  \A d \in Conns : Said(d)' = Said(d)
<1>1. CASE UNCHANGED outq
  BY <1>1 DEF Said
<1>2. ASSUME NEW F, NEW m, StubSend(F, m), m[1] \in Notices
      PROVE  \A d \in Conns : Said(d)' = Said(d)
  BY <1>2, SendsTo
<1> QED
  BY <1>1, <1>2

\* The steps of a thread that answer nothing.
LEMMA ThreadSilent ==
  ASSUME Inv, Conversations, Conversations', NEW c \in Conns,
         \/ RecvEnd(c) \/ Register(c) \/ RegSet(c) \/ List(c) \/ Info(c) \/ Status(c)
         \/ Msg(c) \/ Broadcast(c) \/ Quit(c) \/ Unknown(c) \/ Cleanup(c)
  PROVE  [Service!Next]_(Service!vars)
<1> USE DEF kernel, mainv, table, Handles
<1>1. TypeOK /\ UNCHANGED <<conn, gone, fdtab, asked, apc, afd>>
  BY DEF Inv, TypeInv, RecvEnd, Register, RegSet, List, Info, Status, Msg, Broadcast,
         Quit, Unknown, Cleanup
<1>2. \A d \in Conns : Said(d)' = Said(d)
  <2>1. UNCHANGED outq \/ \E F, m : StubSend(F, m) /\ m[1] \in Notices
    <3>1. CASE Status(c)
      <4> DEFINE m == <<"STATUS_CHANGED", cli[c].username, Arg(line[c], 1)>>
      <4>1. m[1] \in Notices
        BY DEF Notices
      <4>2. UNCHANGED outq \/ \E F : StubSend(F, m)
        BY <3>1 DEF Status
      <4> HIDE DEF m
      <4> QED
        BY <4>1, <4>2
    <3>2. CASE Msg(c)
      <4> DEFINE m == <<"DELIVER", cli[c].username, Arg(line[c], 2)>>
      <4>1. m[1] \in Notices
        BY DEF Notices
      <4>2. UNCHANGED outq \/ \E F : StubSend(F, m)
        BY <3>2 DEF Msg
      <4> HIDE DEF m
      <4> QED
        BY <4>1, <4>2
    <3>3. CASE Broadcast(c)
      <4> DEFINE m == <<"BROADCAST_FROM", cli[c].username, Arg(line[c], 1)>>
      <4>1. m[1] \in Notices
        BY DEF Notices
      <4>2. \E F : StubSend(F, m)
        BY <3>3 DEF Broadcast
      <4> HIDE DEF m
      <4> QED
        BY <4>1, <4>2
    <3> QED
      BY <3>1, <3>2, <3>3 DEF RecvEnd, Register, RegSet, List, Info, Quit, Unknown, Cleanup
  <2> QED
    BY <2>1, SaysNothing
<1>3. \A l \in Labels : Goto(c, l) => pc'[c] = l /\ \A d \in Conns \ {c} : pc'[d] = pc[d]
  BY <1>1, Moves
<1>4. /\ \A d \in Conns \ {c} : pc'[d] = pc[d]
      /\ \/ pc[c] \in Talking /\ pc'[c] \in Talking
         \/ pc[c] = "recv" /\ pc'[c] = "cleanup"
         \/ pc[c] = "cleanup" /\ pc'[c] = "close"
  <2> USE <1>3 DEF Talking, Answer, Labels
  <2>1. CASE RecvEnd(c) \/ Cleanup(c)
    BY <2>1 DEF RecvEnd, Cleanup
  <2>2. CASE Register(c)
    BY <2>2 DEF Register
  <2>3. CASE RegSet(c) \/ List(c) \/ Info(c) \/ Quit(c) \/ Unknown(c)
    BY <2>3 DEF RegSet, List, Info, Quit, Unknown
  <2>4. CASE Status(c) \/ Msg(c) \/ Broadcast(c)
    BY <2>4 DEF Status, Msg, Broadcast
  <2> QED
    BY <2>1, <2>2, <2>3, <2>4
<1>5. \A d \in Conns \ {c} : Stage'[d] = Stage[d]
  BY <1>1, <1>4, StageOf DEF Peer
<1>6. Stage'[c] = Stage[c] \/ (Stage[c] = "idle" /\ Stage'[c] = "over")
  <2>1. pc[c] = "cleanup" => Stage[c] = "over"
    BY DEF Stage
  <2> QED
    BY <1>1, <1>4, <2>1, StageOf
<1>7. CASE Stage'[c] = Stage[c]
  BY <1>1, <1>2, <1>5, <1>7, ServiceStands DEF Aside
<1>8. CASE Stage[c] = "idle" /\ Stage'[c] = "over"
  <2>1. Service!End(c)
    BY <1>1, <1>2, <1>5, <1>8 DEF Service!End, Service!Moves, Service!Others, Said
  <2> QED
    BY <2>1 DEF Service!Next
<1> QED
  BY <1>6, <1>7, <1>8

\* What else there is moves nobody to another stage.
LEMMA OthersSilent ==
  ASSUME Inv, Conversations, Conversations',
         \/ UNCHANGED vars \/ FindSlot \/ CloseFull \/ Reserve \/ Spawn
         \/ \E c \in Conns : Accept(c) \/ Connect(c) \/ PeerCloses(c) \/ Close(c)
  PROVE  [Service!Next]_(Service!vars)
<1> USE DEF kernel, mainv, table
<1>1. /\ TypeOK /\ TypeInv /\ TableInv /\ MainInv /\ ThreadInv
      /\ UNCHANGED <<asked, outq>>
  BY DEF Inv, TypeInv, vars, FindSlot, CloseFull, Reserve, Spawn, SpawnAs, Accept,
         Connect, PeerCloses, Close
<1>2. \A d \in Conns : Said(d)' = Said(d)
  BY <1>1 DEF Said
<1> SUFFICES \A d \in Conns : Stage'[d] = Stage[d]
  BY <1>1, <1>2, ServiceStands DEF Aside
<1>3. CASE UNCHANGED vars \/ FindSlot \/ Reserve \/ \E c \in Conns : PeerCloses(c)
  <2>1. /\ UNCHANGED <<conn, fdtab, afd, pc>>
        /\ apc' = apc \/ "close" \notin {apc, apc'}
    BY <1>3 DEF vars, FindSlot, Reserve, PeerCloses
  <2> QED
    BY <1>1, <2>1, StageOf DEF Peer
<1>4. CASE CloseFull
  <2>1. apc = "close" /\ apc' = "accept" /\ CloseFd(afd) /\ UNCHANGED pc
    BY <1>4 DEF CloseFull
  <2>2. PICK c \in Conns : Peer(afd) = c /\ pc[c] = "none"
    BY <1>1, <2>1 DEF TypeOK, MainInv
  <2>3. conn'[c] = "closed" /\ \A d \in Conns \ {c} : conn'[d] = conn[d]
    BY <1>1, <2>1, <2>2, CloseFdOf
  <2>4. Stage[c] = "over" /\ Stage'[c] = "over"
    BY <2>1, <2>2, <2>3 DEF Stage
  <2>5. \A d \in Conns \ {c} : Stage'[d] = Stage[d]
    BY <1>1, <2>1, <2>2, <2>3, StageOf
  <2> QED
    BY <2>4, <2>5
<1>5. CASE Spawn
  <2>1. /\ apc = "spawn" /\ apc' = "accept" /\ Goto(Peer(afd), "start")
        /\ UNCHANGED <<conn, fdtab>>
    BY <1>5 DEF Spawn, SpawnAs
  <2>2. PICK c \in Conns : Peer(afd) = c /\ pc[c] = "none"
    BY <1>1, <2>1 DEF TypeOK, MainInv
  <2>3. conn[c] = "open"
    BY <1>1, <2>2, ConnsAssumption DEF TableInv, Peer
  <2>4. pc'[c] = "start" /\ \A d \in Conns \ {c} : pc'[d] = pc[d]
    BY <1>1, <2>1, <2>2, Moves DEF Labels
  <2>5. Stage[c] = "new" /\ Stage'[c] = "new"
    BY <1>1, <2>1, <2>2, <2>3, <2>4, StageOf
  <2>6. \A d \in Conns \ {c} : Stage'[d] = Stage[d]
    BY <1>1, <2>1, <2>4, StageOf
  <2> QED
    BY <2>5, <2>6
<1>6. ASSUME NEW c \in Conns, Accept(c) \/ Connect(c)
      PROVE  \A d \in Conns : Stage'[d] = Stage[d]
  <2>1. \A d \in Conns : conn'[d] = "closed" <=> conn[d] = "closed"
    BY <1>1, <1>6 DEF Accept, Connect, TypeOK
  <2>2. CASE Accept(c)
    BY <1>1, <2>1, <2>2, StageOf DEF Accept
  <2>3. CASE Connect(c)
    BY <1>1, <2>1, <2>3, StageOf DEF Connect, Peer
  <2> QED
    BY <1>6, <2>2, <2>3
<1>7. ASSUME NEW c \in Conns, Close(c)
      PROVE  \A d \in Conns : Stage'[d] = Stage[d]
  <2>1. /\ pc[c] = "close" /\ Goto(c, "done") /\ CloseFd(cli[c].sockfd)
        /\ UNCHANGED <<apc, afd>> /\ Peer(cli[c].sockfd) = c
    BY <1>1, <1>7 DEF Close, ThreadInv
  <2>2. pc'[c] = "done" /\ \A d \in Conns \ {c} : pc'[d] = pc[d]
    BY <1>1, <2>1, Moves DEF Labels
  <2>3. /\ \A d \in Conns \ {c} : conn'[d] = conn[d]
        /\ \A g : g # cli[c].sockfd => Peer(g)' = Peer(g)
    BY <1>1, <2>1, CloseFdOf
  <2>4. apc = "close" => afd # cli[c].sockfd
    BY <1>1, <2>1 DEF MainInv
  <2>5. apc = "close" => Peer(afd)' = Peer(afd)
    <3>1. apc = "close" => \A g : g = afd => Peer(g)' = Peer(g)
      BY <2>3, <2>4
    <3> QED
      BY <2>1, <3>1 DEF Peer
  <2>6. Stage[c] = "over" /\ Stage'[c] = "over"
    BY <2>1, <2>2 DEF Stage
  <2>7. \A d \in Conns \ {c} : Stage'[d] = Stage[d]
    BY <1>1, <2>1, <2>2, <2>3, <2>5, StageOf
  <2> QED
    BY <2>6, <2>7
<1> QED
  BY <1>3, <1>4, <1>5, <1>6, <1>7

-----------------------------------------------------------------------------
(* Threads keep to their lines.                                            *)

\* Whatever is sent, what has been sent are sequences of lines.
LEMMA WireStays ==
  ASSUME Conversations, UNCHANGED outq \/ \E F, m : StubSend(F, m)
  PROVE  outq' = [d \in Conns |-> outq'[d]] /\ \A d \in Conns : IsSequence(outq'[d])
<1>1. CASE UNCHANGED outq
  BY <1>1 DEF Conversations, OnItsLine
<1>2. ASSUME NEW F, NEW m, StubSend(F, m)
      PROVE  outq' = [d \in Conns |-> outq'[d]] /\ \A d \in Conns : IsSequence(outq'[d])
  <2>1. \A d \in Conns : IsSequence(outq'[d])
    BY <1>2, SendsTo
  <2>2. outq' = [d \in Conns |-> outq'[d]]
    BY <1>2 DEF StubSend
  <2> QED
    BY <2>1, <2>2
<1> QED
  BY <1>1, <1>2

\* A step that leaves the lines alone and takes nobody to a new one.
LEMMA LinesStay ==
  ASSUME Conversations, UNCHANGED <<asked, line, reply>>,
         UNCHANGED outq \/ \E F, m : StubSend(F, m),
         \A d \in Conns : pc'[d] = pc[d] \/ pc'[d] \notin Talking
  PROVE  Conversations'
<1>1. outq' = [d \in Conns |-> outq'[d]] /\ \A d \in Conns : IsSequence(outq'[d])
  BY WireStays
<1> QED
  BY <1>1 DEF Conversations, OnItsLine, Talking

\* A step of c's thread that works on its line, and leaves an answer perhaps.
LEMMA WorksOn ==
  ASSUME Conversations, NEW c \in Conns, pc[c] \in Talking,
         UNCHANGED <<asked, line>>,
         UNCHANGED outq \/ \E F, m : StubSend(F, m),
         \A d \in Conns \ {c} : pc'[d] = pc[d],
         reply' = [d \in Conns |-> reply'[d]],
         \A d \in Conns \ {c} : reply'[d] = reply[d],
         pc'[c] = "reg_set" => line[c][1] = "REGISTER",
         pc'[c] \in {"reply", "refuse"} => Service!Answers(line[c], reply'[c])
  PROVE  Conversations'
<1>1. outq' = [d \in Conns |-> outq'[d]] /\ \A d \in Conns : IsSequence(outq'[d])
  BY WireStays
<1>2. \A d \in Conns \ {c} : OnItsLine(d)'
  BY <1>1 DEF Conversations, OnItsLine, Talking
<1>3. OnItsLine(c)'
  BY <1>1 DEF Conversations, OnItsLine, Talking
<1> QED
  BY <1>1, <1>2, <1>3 DEF Conversations

\* What handle_message leaves to be sent answers the line.
LEMMA HandlersAnswer ==
  ASSUME Inv, Conversations, NEW c \in Conns,
         \/ Register(c) \/ RegSet(c) \/ List(c) \/ Info(c) \/ Status(c)
         \/ Msg(c) \/ Broadcast(c) \/ Quit(c) \/ Unknown(c)
  PROVE  Conversations'
<1> DEFINE l == line[c]
<1> USE DEF Handles, kernel
<1>1. /\ TypeOK /\ pc[c] \in Talking /\ UNCHANGED <<asked, line>>
      /\ reply = [d \in Conns |-> reply[d]]
      /\ pc[c] = "reg_set" => l[1] = "REGISTER"
  BY DEF Inv, TypeInv, Conversations, OnItsLine, Talking, Register, RegSet, List, Info,
         Status, Msg, Broadcast, Quit, Unknown
<1> HIDE DEF l
<1>2. UNCHANGED outq \/ \E F, m : StubSend(F, m)
  BY DEF Register, RegSet, List, Info, Status, Msg, Broadcast, Quit, Unknown
<1>3. ASSUME NEW m, NEW next \in {"reply", "refuse"}, Answer(c, m, next),
             Service!Answers(l, m)
      PROVE  Conversations'
  <2>1. pc'[c] = next /\ \A d \in Conns \ {c} : pc'[d] = pc[d]
    BY <1>1, <1>3, Moves DEF Answer, Labels
  <2>2. /\ reply' = [d \in Conns |-> reply'[d]] /\ reply'[c] = m
        /\ \A d \in Conns \ {c} : reply'[d] = reply[d]
    BY <1>1, <1>3 DEF Answer
  <2> QED
    BY <1>1, <1>2, <1>3, <2>1, <2>2, WorksOn DEF l
<1>4. ASSUME NEW op, NEW code, NEW next \in {"reply", "refuse"},
             Answer(c, Error(op, code), next), l[1] = op, op # "QUIT"
      PROVE  Conversations'
  <2>1. Service!Answers(l, Error(op, code))
    BY <1>4 DEF Service!Answers, Error
  <2> QED
    BY <1>3, <1>4, <2>1
<1>5. ASSUME NEW m, NEW next \in {"reply", "refuse"}, Answer(c, m, next),
             l[1] \in DOMAIN Service!OkFor, m[1] = Service!OkFor[l[1]]
      PROVE  Conversations'
  <2>1. Service!Answers(l, m)
    BY <1>5 DEF Service!Answers
  <2> QED
    BY <1>3, <1>5, <2>1
<1>6. CASE Register(c)
  <2>1. l[1] = "REGISTER"
    BY <1>6 DEF Register, l
  <2>2. CASE \E code : Answer(c, Error("REGISTER", code), "refuse")
    BY <1>4, <2>1, <2>2
  <2>3. CASE Goto(c, "reg_set") /\ UNCHANGED reply
    <3>1. pc'[c] = "reg_set" /\ \A d \in Conns \ {c} : pc'[d] = pc[d]
      BY <1>1, <2>3, Moves DEF Labels
    <3> QED
      BY <1>1, <1>2, <2>1, <2>3, <3>1, WorksOn DEF l
  <2> QED
    BY <1>6, <2>2, <2>3 DEF Register
<1>7. CASE RegSet(c)
  <2> DEFINE me == [cli[c] EXCEPT !.username = Arg(l, 1)]
             m == <<"REGISTER_OK", me.username, "ACTIVO">>
  <2>1. m[1] = "REGISTER_OK" /\ l[1] = "REGISTER" /\ Answer(c, m, "reply")
    BY <1>1, <1>7 DEF RegSet, l
  <2> HIDE DEF m
  <2> QED
    BY <1>5, <2>1 DEF Service!OkFor
<1>8. CASE List(c)
  BY <1>5, <1>8 DEF List, Service!OkFor, l
<1>9. CASE Info(c)
  <2> DEFINE name == Arg(l, 1)
             m == <<"INFO_OK", name, "ACTIVO">>
  <2>1. l[1] = "INFO" /\ m[1] = "INFO_OK"
    BY <1>9 DEF Info, l
  <2>2. \/ Answer(c, Error("INFO", "USER_NOT_FOUND"), "reply")
        \/ Answer(c, m, "reply")
    BY <1>9 DEF Info, l
  <2> HIDE DEF m
  <2> QED
    BY <1>4, <1>5, <2>1, <2>2 DEF Service!OkFor
<1>10. CASE Status(c)
  <2> DEFINE m == <<"STATUS_OK", Arg(l, 1)>>
  <2>1. l[1] = "STATUS" /\ m[1] = "STATUS_OK"
    BY <1>10 DEF Status, l
  <2>2. \/ Answer(c, Error("STATUS", "INVALID_STATUS"), "reply")
        \/ Answer(c, m, "reply")
    BY <1>10 DEF Status, l
  <2> HIDE DEF m
  <2> QED
    BY <1>4, <1>5, <2>1, <2>2 DEF Service!OkFor
<1>11. CASE Msg(c)
  <2>1. l[1] = "MSG"
    BY <1>11 DEF Msg, l
  <2>2. \/ Answer(c, Error("MSG", "USER_NOT_FOUND"), "reply")
        \/ \E m : m[1] = "MSG_OK" /\ Answer(c, m, "reply")
    <3>1. \A dest : <<"MSG_OK", dest>>[1] = "MSG_OK"
      OBVIOUS
    <3> QED
      BY <1>11, <3>1 DEF Msg
  <2> QED
    BY <1>4, <1>5, <2>1, <2>2 DEF Service!OkFor
<1>12. CASE Broadcast(c)
  BY <1>5, <1>12 DEF Broadcast, Service!OkFor, l
<1>13. CASE Quit(c)
  BY <1>5, <1>13 DEF Quit, Service!OkFor, l
<1>14. CASE Unknown(c)
  <2>1. l[1] \notin Commands /\ Answer(c, Error(l[1], "UNKNOWN_CMD"), "reply")
    BY <1>14 DEF Unknown, l
  <2>2. l[1] # "QUIT"
    BY <2>1 DEF Commands
  <2> QED
    BY <1>4, <2>1, <2>2
<1> QED
  BY <1>6, <1>7, <1>8, <1>9, <1>10, <1>11, <1>12, <1>13, <1>14

\* recv begins a new conversation,
LEMMA RecvConverses ==
  ASSUME Inv, Conversations, NEW c \in Conns, Recv(c)
  PROVE  Conversations'
<1>1. PICK l : /\ asked' = [asked EXCEPT ![c] = Append(@, l)]
               /\ line' = [line EXCEPT ![c] = l]
  BY DEF Recv
<1>2. TypeOK /\ Clients /\ Goto(c, "handle") /\ UNCHANGED <<outq, reply>>
  BY DEF Inv, TypeInv, Recv
<1>3. pc'[c] = "handle" /\ \A d \in Conns \ {c} : pc'[d] = pc[d]
  BY <1>2, Moves DEF Labels
<1>4. /\ asked'[c] = Append(asked[c], l) /\ IsSequence(asked[c])
      /\ \A d \in Conns \ {c} : asked'[d] = asked[d]
      /\ asked' = [d \in Conns |-> asked'[d]]
  BY <1>1 DEF Conversations, OnItsLine
<1>5. line'[c] = l /\ \A d \in Conns \ {c} : line'[d] = line[d]
  BY <1>1, <1>2 DEF Clients
<1>6. IsSequence(asked'[c]) /\ asked'[c][Len(asked'[c])] = l
  <2>1. IsSequence(Append(asked[c], l)) /\ Append(asked[c], l)[Len(Append(asked[c], l))] = l
    BY <1>4, Longer
  <2> QED
    BY <1>4, <2>1
<1>7. OnItsLine(c)'
  BY <1>2, <1>3, <1>5, <1>6 DEF Conversations, OnItsLine
<1>8. \A d \in Conns \ {c} : OnItsLine(d)'
  BY <1>2, <1>3, <1>4, <1>5 DEF Conversations, OnItsLine
<1> QED
  BY <1>2, <1>4, <1>7, <1>8 DEF Conversations

\* and stub_send ends it.
LEMMA ReplyConverses ==
  ASSUME Inv, Conversations, NEW c \in Conns, Reply(c)
  PROVE  Conversations'
<1>1. /\ TypeOK /\ Clients /\ UNCHANGED asked
      /\ \E F, m : StubSend(F, m) /\ \E l \in {"recv", "cleanup"} : Goto(c, l)
      /\ reply' = [reply EXCEPT ![c] = <<>>] /\ line' = [line EXCEPT ![c] = <<>>]
  BY DEF Inv, TypeInv, Reply, kernel
<1>2. pc'[c] \in {"recv", "cleanup"} /\ \A d \in Conns \ {c} : pc'[d] = pc[d]
  BY <1>1, Moves DEF Labels
<1>3. outq' = [d \in Conns |-> outq'[d]] /\ \A d \in Conns : IsSequence(outq'[d])
  BY <1>1, WireStays
<1>4. /\ reply' = [d \in Conns |-> reply'[d]]
      /\ \A d \in Conns \ {c} : reply'[d] = reply[d] /\ line'[d] = line[d]
  BY <1>1 DEF Conversations, Clients
<1>5. \A d \in Conns \ {c} : OnItsLine(d)'
  BY <1>1, <1>2, <1>3, <1>4 DEF Conversations, OnItsLine
<1>6. OnItsLine(c)'
  BY <1>1, <1>2, <1>3 DEF Conversations, OnItsLine, Talking
<1> QED
  BY <1>1, <1>3, <1>4, <1>5, <1>6 DEF Conversations

\* Every step leaves each thread on its line.
LEMMA ConversationsStep == Inv /\ Conversations /\ [Next]_vars => Conversations'
<1> SUFFICES ASSUME Inv, Conversations, [Next]_vars PROVE Conversations'
  OBVIOUS
<1> USE DEF kernel
<1>1. TypeOK /\ MainInv
  BY DEF Inv, TypeInv
<1>2. ASSUME NEW c \in Conns, NEW l \in Labels \ Talking, Goto(c, l),
             UNCHANGED <<asked, line, reply>>,
             UNCHANGED outq \/ \E F, m : StubSend(F, m)
      PROVE  Conversations'
  <2>1. \A d \in Conns : pc'[d] = pc[d] \/ pc'[d] \notin Talking
    BY <1>1, <1>2, Moves
  <2> QED
    BY <1>2, <2>1, LinesStay
<1>3. {"start", "unborn", "recv", "cleanup", "close", "done"} \subseteq Labels \ Talking
  BY DEF Labels, Talking
<1>4. CASE \/ UNCHANGED vars \/ FindSlot \/ Full \/ CloseFull \/ Reserve
           \/ \E c \in Conns : Accept(c) \/ Connect(c) \/ PeerCloses(c)
  <2>1. UNCHANGED <<asked, line, reply, pc>>
    BY <1>4 DEF vars, FindSlot, Full, CloseFull, Reserve, Accept, Connect, PeerCloses
  <2>2. UNCHANGED outq \/ \E F, m : StubSend(F, m)
    BY <1>4 DEF vars, FindSlot, Full, CloseFull, Reserve, Accept, Connect, PeerCloses
  <2> QED
    BY <2>1, <2>2, LinesStay
<1>5. CASE Spawn \/ SpawnFails
  <2>1. Peer(afd) \in Conns
    BY <1>1, <1>5 DEF Spawn, SpawnFails, SpawnAs, TypeOK
  <2>2. \/ Goto(Peer(afd), "start") \/ Goto(Peer(afd), "unborn")
    BY <1>5 DEF Spawn, SpawnFails, SpawnAs
  <2>3. UNCHANGED <<asked, line, reply, outq>>
    BY <1>5 DEF Spawn, SpawnFails, SpawnAs
  <2> QED
    BY <1>2, <1>3, <2>1, <2>2, <2>3
<1>6. ASSUME NEW c \in Conns, Welcome(c) \/ RecvEnd(c) \/ Cleanup(c) \/ Close(c)
      PROVE  Conversations'
  <2>1. /\ UNCHANGED <<asked, line, reply>>
        /\ UNCHANGED outq \/ \E F, m : StubSend(F, m)
    BY <1>6 DEF Welcome, RecvEnd, Cleanup, Close
  <2>2. \E l \in {"recv", "cleanup", "close", "done"} : Goto(c, l)
    BY <1>6 DEF Welcome, RecvEnd, Cleanup, Close
  <2> QED
    BY <1>2, <1>3, <2>1, <2>2
<1>7. ASSUME NEW c \in Conns, Handle(c) PROVE Conversations'
  BY <1>7, HandlersAnswer, ReplyConverses DEF Handle
<1>8. ASSUME NEW c \in Conns, Recv(c) PROVE Conversations'
  BY <1>8, RecvConverses
<1> QED
  BY <1>4, <1>5, <1>6, <1>7, <1>8 DEF Next, Main, ThreadRuns

\* Every step of the stub is a step of the service or none.
LEMMA ServiceStep ==
  Inv /\ Conversations /\ Conversations' /\ [Next]_vars => [Service!Next]_(Service!vars)
<1> SUFFICES ASSUME Inv, Conversations, Conversations', [Next]_vars
             PROVE  [Service!Next]_(Service!vars)
  OBVIOUS
<1>1. CASE Full \/ SpawnFails
  BY <1>1, FullRefuses, UnbornRefused DEF Service!Next
<1>2. CASE \/ UNCHANGED vars \/ FindSlot \/ CloseFull \/ Reserve \/ Spawn
           \/ \E c \in Conns : Accept(c) \/ Connect(c) \/ PeerCloses(c) \/ Close(c)
  BY <1>2, OthersSilent
<1>3. ASSUME NEW c \in Conns, Welcome(c) \/ Recv(c) \/ Reply(c)
      PROVE  [Service!Next]_(Service!vars)
  BY <1>3, WelcomeGreets, RecvHears, ReplyAnswers DEF Service!Next
<1>4. ASSUME NEW c \in Conns, RecvEnd(c) \/ Handle(c) \/ Cleanup(c), ~Reply(c)
      PROVE  [Service!Next]_(Service!vars)
  BY <1>4, ThreadSilent DEF Handle
<1> QED
  BY <1>1, <1>2, <1>3, <1>4 DEF Next, Main, ThreadRuns

\* To each client the stub behaves as the server is to behave: the client was
\* developed against a server that gives the same service as the real one
\* (handle_message, client_thread; ServerGivesTheService is the other half).
THEOREM StubGivesTheService == Spec => ImplementsService
<1>1. Init => Service!Init /\ Conversations
  <2> SUFFICES ASSUME Init PROVE Service!Init /\ Conversations
    OBVIOUS
  <2>1. Stage = [c \in Conns |-> "new"]
    BY DEF Init, Stage
  <2>2. [c \in Conns |-> Without(outq[c], Notices)] = [c \in Conns |-> <<>>]
    BY WithoutEmpty DEF Init
  <2>3. IsSequence(<<>>)
    <3>1. <<>> \in Seq({})
      OBVIOUS
    <3> QED
      BY <3>1 DEF IsSequence
  <2>4. Conversations
    BY <2>3 DEF Init, Conversations, OnItsLine, Talking
  <2> QED
    BY <2>1, <2>2, <2>4 DEF Init, Service!Init
<1> QED
  BY <1>1, StubInvariant, ConversationsStep, ServiceStep, PTL
  DEF Spec, ImplementsService, Service!Spec

===============================================================================
