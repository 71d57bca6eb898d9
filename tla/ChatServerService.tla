-------------------------- MODULE ChatServerService --------------------------
(***************************************************************************)
(* The refinement mapping from the server to the service it gives to each  *)
(* client.                                                                 *)
(***************************************************************************)
EXTENDS ChatServerProperties

\* When STATUS_OK has been sent, the client has its answer; the others do not
\* have their STATUS_CHANGED yet.
Stage ==
  [c \in Conns |->
     CASE pc[c] = "none" /\ conn[c] # "closed" -> "new"
       [] pc[c] = "none" /\ conn[c] = "closed" -> "over"
       [] pc[c] = "start" -> "new"
       [] pc[c] \in {"recv", "status_notify"} -> "idle"
       [] pc[c] \in {"remove", "close", "done"} -> "over"
       [] OTHER -> "working"]

Service ==
  INSTANCE ChatService WITH
    stage <- Stage, heard <- asked, said <- [c \in Conns |-> Replies(c)]

\* To each client the server behaves as the service: WELCOME, and one answer of
\* the right kind to each line before the next line is read, while other threads
\* and the monitor send to the same descriptor and descriptors are used again
\* (client_thread.c:64-120, handlers.c:191-235).
ImplementsService == Service!Spec

==============================================================================
