---------------------------- MODULE ChatService ----------------------------
(***************************************************************************)
(* What a chat server promises each client about the lines it sends to it, *)
(* notices on behalf of other users (DELIVER, BROADCAST_FROM,              *)
(* STATUS_CHANGED) left aside: WELCOME first, and then one answer to each  *)
(* line, of the right kind, before the next line is read.  Both the server *)
(* and the stub the client was developed against are to implement it.      *)
(***************************************************************************)
EXTENDS Naturals, Sequences

CONSTANT Conns

VARIABLES
  stage,  \* stage[c]: "new", "idle", "working" or "over"
  heard,  \* heard[c]: the lines read from c
  said,   \* said[c]: the lines sent to c that are not notices
  gone    \* gone[c]: c has closed, and what is sent to it is lost

vars == <<stage, heard, said, gone>>

OkFor ==
  [ REGISTER |-> "REGISTER_OK", LIST |-> "LIST_OK", INFO |-> "INFO_OK",
    STATUS |-> "STATUS_OK", MSG |-> "MSG_OK", BROADCAST |-> "BROADCAST_OK",
    QUIT |-> "BYE", PING |-> "PONG" ]

\* PING is a line to the server and none to the stub.
Commands == DOMAIN OkFor \ {"PING"}

\* m is an answer to line l: the command's own, or an error that names it.  QUIT
\* has no error, and to a line that is no command any error is an answer.
Answers(l, m) ==
  \/ l[1] \in DOMAIN OkFor /\ m[1] = OkFor[l[1]]
  \/ l[1] # "QUIT" /\ m[1] = "ERROR" /\ (l[1] \in Commands => m[2] = l[1])

Init ==
  /\ stage = [c \in Conns |-> "new"]
  /\ heard = [c \in Conns |-> <<>>] /\ said = [c \in Conns |-> <<>>]
  /\ gone = [c \in Conns |-> FALSE]

\* Sequence new is old and one more element, which satisfies P.
OneMore(old, new, P(_)) ==
  /\ Len(new) = Len(old) + 1 /\ SubSeq(new, 1, Len(old)) = old
  /\ P(new[Len(new)])

Others(c, f, g) == \A d \in Conns \ {c} : g[d] = f[d]

Moves(c, from, to) ==
  /\ stage[c] \in from /\ stage'[c] \in to /\ Others(c, stage, stage')

\* To a client that has gone, the line may or may not be sent.
Says(c, P(_)) ==
  /\ \/ OneMore(said[c], said'[c], P)
     \/ gone[c] /\ said'[c] = said[c]
  /\ Others(c, said, said')

Greet(c) ==
  LET IsWelcome(m) == m[1] = "WELCOME"
  IN  Moves(c, {"new"}, {"idle", "over"}) /\ Says(c, IsWelcome) /\ UNCHANGED <<heard, gone>>

\* No room: the client may be told so, or is just closed.
Refuse(c) ==
  LET IsError(m) == m[1] = "ERROR"
  IN  /\ Moves(c, {"new"}, {"over"})
      /\ UNCHANGED said \/ Says(c, IsError)
      /\ gone' \in {gone, [gone EXCEPT ![c] = TRUE]}
      /\ UNCHANGED heard

Hear(c) ==
  LET Any(l) == TRUE
  IN  /\ Moves(c, {"idle"}, {"working"})
      /\ OneMore(heard[c], heard'[c], Any) /\ Others(c, heard, heard')
      /\ UNCHANGED <<said, gone>>

Answer(c) ==
  LET Right(m) == Answers(heard[c][Len(heard[c])], m)
  IN  /\ Moves(c, {"working"}, {"idle", "over"}) /\ Says(c, Right)
      /\ UNCHANGED <<heard, gone>>

End(c) == Moves(c, {"idle"}, {"over"}) /\ UNCHANGED <<heard, said, gone>>

\* Clients close, and are closed.
Close == gone' # gone /\ UNCHANGED <<stage, heard, said>>

Next ==
  Close \/ \E c \in Conns : Greet(c) \/ Refuse(c) \/ Hear(c) \/ Answer(c) \/ End(c)

Spec == Init /\ [][Next]_vars

=============================================================================
