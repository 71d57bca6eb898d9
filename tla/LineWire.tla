------------------------------ MODULE LineWire ------------------------------
(***************************************************************************)
(* Bytes on the wire: clients whose input thread and receiver run side by  *)
(* side, one server thread per client, and the inactivity monitor, over    *)
(* sockets with room for Cap symbols in each direction.  send() blocks     *)
(* while there is no room, so the lines of two senders may mix.  The       *)
(* one-byte recv() calls of recv_line that find a byte waiting are one     *)
(* step: nobody else reads that socket.  Every client here has registered  *)
(* and stays; coming and going is in ChatServer.                           *)
(***************************************************************************)
EXTENDS LineFormat

CONSTANTS
  Users,    \* the seats whose clients are part of the model
  Cap,      \* what a socket buffer holds
  Scripts   \* what a run may be about: the lines each user types, in order,
            \* and the users the monitor finds idle, in order

Monitor == <<"monitor">>
Senders == Users \cup {Monitor}

\* A newline ends what is typed, unless the input ends first.
TypedLine ==
  {l \in Seq(Alphabet \cup {NL}) : l # <<>> /\ \A i \in 1 .. Len(l) - 1 : l[i] # NL}

AreScripts ==
  \A s \in Scripts : /\ \A u \in Users : s.types[u] \in Seq(TypedLine)
                     /\ s.idle \in Seq(Users)

ASSUME UsersAssumption   == Users \subseteq Online /\ Monitor \notin Users
ASSUME CapAssumption     == Cap \in Nat \ {0}
ASSUME ScriptsAssumption == AreScripts

VARIABLES
  script,   \* the script of this run
  typed,    \* typed[u]: how many lines of it the user has typed
  kbd,      \* kbd[u]: what fgets has not read of them yet
  csend,    \* csend[u]: what the input thread still has to send
  up,       \* up[u]: symbols on their way to the server ...
  down,     \* ... and to the client
  sbuf,     \* sbuf[u]: the line the server's thread is reading
  cbuf,     \* cbuf[u]: the line the client's receiver is reading
  job,      \* job[p]: the lines sender p still has to send, the first in part
  notices,  \* notices sent so far
  \* history, for the properties
  heard,    \* heard[u]: the lines the server has read from u
  sent,     \* sent[u]: the lines begun to be sent to u
  got,      \* got[u]: the lines the receiver of u has read and shown
  mixed     \* mixed[u]: two senders were in the middle of a line to u

client == <<script, typed, kbd, csend>>
vars == <<client, up, down, sbuf, cbuf, job, notices, heard, sent, got, mixed>>

Init ==
  /\ script \in Scripts
  /\ typed = [u \in Users |-> 0] /\ kbd = [u \in Users |-> <<>>]
  /\ csend = [u \in Users |-> <<>>]
  /\ up = [u \in Users |-> <<>>] /\ down = [u \in Users |-> <<>>]
  /\ sbuf = [u \in Users |-> <<>>] /\ cbuf = [u \in Users |-> <<>>]
  /\ job = [p \in Senders |-> <<>>]
  /\ notices = 0
  /\ heard = [u \in Users |-> <<>>] /\ sent = [u \in Users |-> <<>>]
  /\ got = [u \in Users |-> <<>>] /\ mixed = [u \in Users |-> FALSE]

-----------------------------------------------------------------------------
(* The client's input thread.                                              *)

\* fgets gives a first piece of the line if it is too long for the buffer ...
Types(u) ==
  /\ kbd[u] = <<>> /\ csend[u] = <<>> /\ typed[u] < Len(script.types[u])
  /\ LET line  == script.types[u][typed[u] + 1]
         piece == FirstPiece(line)
     IN  /\ kbd' = [kbd EXCEPT ![u] = SubSeq(line, Len(piece) + 1, Len(line))]
         /\ csend' = [csend EXCEPT ![u] = ToProto(piece)]
  /\ typed' = [typed EXCEPT ![u] = @ + 1]
  /\ UNCHANGED <<script, up, down, sbuf, cbuf, job, notices, heard, sent, got,
                 mixed>>

\* ... and the rest as if it were the next line.
FgetsRest(u) ==
  /\ kbd[u] # <<>> /\ csend[u] = <<>>
  /\ LET piece == FirstPiece(kbd[u])
     IN  /\ csend' = [csend EXCEPT ![u] = ToProto(piece)]
         /\ kbd' = [kbd EXCEPT ![u] = SubSeq(@, Len(piece) + 1, Len(@))]
  /\ UNCHANGED <<script, typed, up, down, sbuf, cbuf, job, notices, heard, sent,
                 got, mixed>>

\* What fits of a line into a buffer.
Room(buffer, line) == LET free == Cap - Len(buffer)
                      IN  IF Len(line) < free THEN Len(line) ELSE free

\* The remainder of a partial send() is forgotten.
ClientPut_Once(u) ==
  LET n == Room(up[u], csend[u])
  IN  /\ n > 0
      /\ up' = [up EXCEPT ![u] = @ \o SubSeq(csend[u], 1, n)]
      /\ csend' = [csend EXCEPT ![u] = <<>>]
      /\ UNCHANGED <<script, typed, kbd, down, sbuf, cbuf, job, notices, heard,
                     sent, got, mixed>>

ClientPut(u) ==
  LET n == Room(up[u], csend[u])
  IN  /\ n > 0
      /\ up' = [up EXCEPT ![u] = @ \o SubSeq(csend[u], 1, n)]
      /\ csend' = [csend EXCEPT ![u] = SubSeq(@, n + 1, Len(@))]
      /\ UNCHANGED <<script, typed, kbd, down, sbuf, cbuf, job, notices, heard,
                     sent, got, mixed>>

\* What recv_line takes of what is waiting, after the part it already has.
Taken(part, buffer) ==
  CHOOSE n \in 1 .. Len(buffer) :
    /\ n = Len(buffer) \/ Complete(part \o SubSeq(buffer, 1, n))
    /\ \A i \in 1 .. n - 1 : ~Complete(part \o SubSeq(buffer, 1, i))

\* The client's receiver: recv_line, then dispatch_message.
ClientGet_Alternates(u) ==
  /\ down[u] # <<>> /\ csend[u] = <<>>
  /\ LET n    == Taken(cbuf[u], down[u])
         line == cbuf[u] \o SubSeq(down[u], 1, n)
     IN  /\ down' = [down EXCEPT ![u] = SubSeq(@, n + 1, Len(@))]
         /\ cbuf' = [cbuf EXCEPT ![u] = IF Complete(line) THEN <<>> ELSE line]
         /\ got' = IF Complete(line) THEN [got EXCEPT ![u] = Append(@, line)]
                   ELSE got
  /\ UNCHANGED <<client, up, sbuf, job, notices, heard, sent, mixed>>

ClientGet(u) ==
  /\ down[u] # <<>>
  /\ LET n    == Taken(cbuf[u], down[u])
         line == cbuf[u] \o SubSeq(down[u], 1, n)
     IN  /\ down' = [down EXCEPT ![u] = SubSeq(@, n + 1, Len(@))]
         /\ cbuf' = [cbuf EXCEPT ![u] = IF Complete(line) THEN <<>> ELSE line]
         /\ got' = IF Complete(line) THEN [got EXCEPT ![u] = Append(@, line)]
                   ELSE got
  /\ UNCHANGED <<client, up, sbuf, job, notices, heard, sent, mixed>>

-----------------------------------------------------------------------------
(* The server's thread for user u: recv_line, then the handler.            *)

\* Of the lines a thread sends, those to users; one to a seat outside Users is
\* taken to be read at once.
Modelled ==
  [jobs \in Seq([to : Online, line : Seq(Symbols), begun : BOOLEAN]) |->
     Picked(jobs, {i \in DOMAIN jobs : jobs[i].to \in Users})]

ServerGet(u) ==
  /\ job[u] = <<>> /\ up[u] # <<>>
  /\ LET n    == Taken(sbuf[u], up[u])
         line == sbuf[u] \o SubSeq(up[u], 1, n)
     IN  /\ up' = [up EXCEPT ![u] = SubSeq(@, n + 1, Len(@))]
         /\ IF Complete(line)
            THEN /\ sbuf' = [sbuf EXCEPT ![u] = <<>>]
                 /\ heard' = [heard EXCEPT ![u] = Append(@, line)]
                 /\ job' = [job EXCEPT ![u] = Modelled[Handle(u, line)]]
            ELSE /\ sbuf' = [sbuf EXCEPT ![u] = line]
                 /\ UNCHANGED <<heard, job>>
  /\ UNCHANGED <<client, down, cbuf, notices, sent, got, mixed>>

\* The monitor found user u idle.
Notify(u) ==
  /\ job[Monitor] = <<>>
  /\ notices < Len(script.idle) /\ u = script.idle[notices + 1]
  /\ notices' = notices + 1
  /\ job' = [job EXCEPT ![Monitor] =
               << To(u, Build(<< <<"STATUS_CHANGED">>, u, <<"INACTIVO">> >>)) >>]
  /\ UNCHANGED <<client, up, down, sbuf, cbuf, heard, sent, got, mixed>>

\* send() of server thread p, as far as there is room.  send_line repeats send()
\* until the line is out; the handlers' single send() (handlers.c:64, 85, 88)
\* blocks until then, which comes to the same.
InLineTo(p, u) == job[p] # <<>> /\ Head(job[p]).to = u /\ Head(job[p]).begun

ServerPut_Once(p) ==
  /\ job[p] # <<>>
  /\ LET now == Head(job[p])
         u   == now.to
         n   == Room(down[u], now.line)
         left == [now EXCEPT !.line = <<>>]
     IN  /\ n > 0
         /\ down' = [down EXCEPT ![u] = @ \o SubSeq(now.line, 1, n)]
         /\ job' = [job EXCEPT ![p] = IF left.line = <<>> THEN Tail(@)
                                      ELSE <<left>> \o Tail(@)]
         /\ sent' = IF now.begun THEN sent
                    ELSE [sent EXCEPT ![u] = Append(@, now.line)]
         /\ mixed' = [mixed EXCEPT ![u] =
                        @ \/ \E q \in Senders \ {p} : InLineTo(q, u)]
  /\ UNCHANGED <<client, up, sbuf, cbuf, notices, heard, got>>

ServerPut(p) ==
  /\ job[p] # <<>>
  /\ LET now == Head(job[p])
         u   == now.to
         n   == Room(down[u], now.line)
         left == [now EXCEPT !.begun = TRUE,
                             !.line = SubSeq(@, n + 1, Len(@))]
     IN  /\ n > 0
         /\ down' = [down EXCEPT ![u] = @ \o SubSeq(now.line, 1, n)]
         /\ job' = [job EXCEPT ![p] = IF left.line = <<>> THEN Tail(@)
                                      ELSE <<left>> \o Tail(@)]
         /\ sent' = IF now.begun THEN sent
                    ELSE [sent EXCEPT ![u] = Append(@, now.line)]
         /\ mixed' = [mixed EXCEPT ![u] =
                        @ \/ \E q \in Senders \ {p} : InLineTo(q, u)]
  /\ UNCHANGED <<client, up, sbuf, cbuf, notices, heard, got>>

-----------------------------------------------------------------------------
Threads ==
  \/ \E p \in Senders : ServerPut(p)
  \/ \E u \in Users : ClientPut(u) \/ ClientGet(u) \/ FgetsRest(u) \/ ServerGet(u)

Next == Threads \/ \E u \in Users : Types(u) \/ Notify(u)

Spec == Init /\ [][Next]_vars

(***************************************************************************)
(* Some thread runs as long as one can.  Users need not type and nobody    *)
(* need be idle.                                                           *)
(***************************************************************************)
FairSpec == Spec /\ WF_vars(Threads)

=============================================================================
