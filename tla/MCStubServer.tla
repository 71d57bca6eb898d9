---------------------------- MODULE MCStubServer ----------------------------
(* Instances of StubServer for TLC.                                        *)
EXTENDS StubServerProperties

CONSTANTS c1, c2, c3

\* c3 only connects: the two slots may be taken when it does.
Three == {c1, c2, c3}
Lines == [c \in Three |-> CASE c = c1 -> 2 [] c = c2 -> 1 [] c = c3 -> 0]

\* c1 has its own name, c2 may try to take it.
Names ==
  [c \in Three |->
     {<<"REGISTER", "ana">>} \cup IF c = c2 THEN {<<"REGISTER", "beto">>} ELSE {}]

\* stub_server.c:119 refuses the empty name.
Chat ==
  { <<"STATUS", "OCUPADO">>, <<"STATUS", "x">>, <<"INFO", "ana">>, <<"LIST">>,
    <<"PING">>, <<"MSG", "ana", "hi">>, <<"BROADCAST", "hi">>, <<"QUIT">>,
    <<"REGISTER", "beto">>, <<"REGISTER", "">> }
=============================================================================
