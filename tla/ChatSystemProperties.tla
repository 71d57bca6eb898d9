------------------------ MODULE ChatSystemProperties ------------------------
(* What the clients of the repository get from the server.                 *)
EXTENDS ChatSystem

\* A client whose user chats has a session of its own that is registered under
\* its own name, until the server has read its QUIT or noticed it has gone:
\* REGISTER_OK is true and stays so (handlers.c:57-64).
ChattingIsSeated ==
  \A c \in Conns : cpc[c] \in {"chat", "quitting"} /\ Holding(c) =>
    sess[slot[c]].is_registered /\ sess[slot[c]].username = NameOf[c]

\* The BYE that lets a client stop is its last answer - only events may follow -
\* and no line of it is read afterwards, although the client sends QUIT twice
\* (handlers.c:189: the dispatcher returns 1 to close the session;
\* client_thread.c:85-90).
ByeIsLast ==
  \A c \in Conns : \A k \in DOMAIN outq[c] : outq[c][k] = <<"BYE">> =>
    /\ pc[c] \in {"remove", "close", "done"}
    /\ \A j \in k + 1 .. Len(outq[c]) : IsEvent(outq[c][j])

Last(S) == IF S = {} THEN 0 ELSE CHOOSE k \in S : \A j \in S : j <= k

Acks(c) == {k \in DOMAIN outq[c] : outq[c][k][1] \in {"STATUS_OK", "REGISTER_OK"}}

StatusOf(m) == m[Len(m)]

\* What client c shows as its status: that of its last STATUS_OK, or of
\* REGISTER_OK.
Shown(c) == StatusOf(outq[c][Last(Acks(c))])

\* The INACTIVO notices c got since the confirmation before the last one: the
\* monitor may have looked while the thread was still confirming the last.
Notices(c) ==
  LET before == Last(Acks(c) \ {Last(Acks(c))})
  IN  {k \in DOMAIN outq[c] :
         /\ k > before /\ outq[c][k][1] = "STATUS_CHANGED"
         /\ outq[c][k][2] \in {NameOf[c], "UNREGISTERED"}
         /\ outq[c][k][3] = "INACTIVO"}

\* The server's status of a user differs from the one its client shows only
\* because the monitor has marked it, and then the client has been told or will
\* be, or because the user asked for INACTIVO and then did something
\* (client_thread.c:20-22, inactivity.c:27-44).
DriftAnnounced ==
  \A c \in Conns :
    cpc[c] = "chat" /\ Holding(c) /\ pc[c] # "status_ack" =>
      \/ sess[slot[c]].status = Shown(c)
      \/ Shown(c) = "INACTIVO"
      \/ Notices(c) # {} \/ \E n \in notes : n.owner = c

JustMarked(c) == \E n \in notes : n.owner = c

Heard(c, d) == {k \in DOMAIN outq[d] :
                  outq[d][k][1] = "STATUS_CHANGED" /\ outq[d][k][2] = NameOf[c]}

\* Once another client has heard a status of c, it hears of every later one that c
\* asks for: the last it has of c is the one c was last confirmed, or one the
\* server has given c since, of which it may tell the others as well
\* (handlers.c:175-183).
OthersAgree ==
  \A c, d \in Conns :
    /\ c # d /\ cpc[c] = "chat" /\ cpc[d] = "chat"
    /\ pc[c] \notin {"status_ack", "status_notify"} /\ Heard(c, d) # {}
    => LET last == StatusOf(outq[d][Last(Heard(c, d))])
       IN  \/ last = Shown(c)
           \/ Holding(c) /\ last = sess[slot[c]].status
           \/ /\ last = "INACTIVO"
              /\ Notices(c) # {} \/ JustMarked(c)

Count(q, type, name) ==
  Cardinality({k \in DOMAIN q : q[k][1] = type /\ q[k][2] = name})

\* For every message that c was told is delivered one is on the wire to its
\* addressee under the name of c, as long as the addressee is there.  There may
\* be more: c may have gone before it was told, and what c sent to another who
\* left may come to d, who took over that one's descriptor (handlers.c:71-89).
AckedArrives ==
  \A c, d \in Conns : cpc[d] = "chat" =>
    Count(outq[c], "MSG_OK", NameOf[d]) <= Count(outq[d], "DELIVER", NameOf[c])

-----------------------------------------------------------------------------
\* client_register comes to an end: the user gets to chat or the client exits,
\* whatever else the server does, and even if the server had to drop it
\* (main_client.c:127-224, accept_loop.c:95-119).
HandshakeEnds ==
  \A c \in Conns : cpc[c] \in {"welcome", "answer"} ~> cpc[c] \in {"chat", "ended"}

\* After /quit the client ends: the real server answers QUIT behind whatever was
\* sent before it, so that the receiver thread returns and can be joined
\* (input_loop.c:309-314, receiver_loop.c:313-348, main_client.c:249).
QuitEnds == \A c \in Conns : cpc[c] = "quitting" ~> cpc[c] = "ended"

=============================================================================
