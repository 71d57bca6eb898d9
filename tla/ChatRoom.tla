------------------------------ MODULE ChatRoom ------------------------------
(***************************************************************************)
(* What the server promises its clients, without threads, descriptors or   *)
(* pointers: a room with MaxClients seats.  A client sits down once, is    *)
(* turned away only while every seat is taken, gets a name only while it   *)
(* sits, and when it leaves, its seat and its name are free at once.       *)
(***************************************************************************)
EXTENDS Naturals

CONSTANTS MaxClients, Conns, NoConn, ValidNames

VARIABLES
  seat,  \* seat[s]: who sits there, or NoConn
  life,  \* life[c]: "out" before it comes in, "in", "left"
  name   \* name[c]: the name c goes by, "" for none

room == <<seat, life, name>>

Seats == 1 .. MaxClients

Init ==
  /\ seat = [s \in Seats |-> NoConn]
  /\ life = [c \in Conns |-> "out"]
  /\ name = [c \in Conns |-> ""]

Join(c) ==
  /\ life[c] = "out"
  /\ \E s \in Seats : seat[s] = NoConn /\ seat' = [seat EXCEPT ![s] = c]
  /\ life' = [life EXCEPT ![c] = "in"]
  /\ UNCHANGED name

Refuse(c) ==
  /\ life[c] = "out"
  /\ \A s \in Seats : seat[s] # NoConn
  /\ life' = [life EXCEPT ![c] = "left"]
  /\ UNCHANGED <<seat, name>>

Register(c, n) ==
  /\ life[c] = "in"
  /\ name' = [name EXCEPT ![c] = n]
  /\ UNCHANGED <<seat, life>>

Leave(c) ==
  /\ life[c] = "in"
  /\ seat' = [s \in Seats |-> IF seat[s] = c THEN NoConn ELSE seat[s]]
  /\ life' = [life EXCEPT ![c] = "left"]
  /\ name' = [name EXCEPT ![c] = ""]

Next ==
  \E c \in Conns :
    \/ Join(c) \/ Refuse(c) \/ Leave(c)
    \/ \E n \in ValidNames : Register(c, n)

Spec == Init /\ [][Next]_room

=============================================================================
