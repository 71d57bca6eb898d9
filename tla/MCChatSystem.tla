---------------------------- MODULE MCChatSystem ----------------------------
(* An instance of ChatSystem for TLC: Ana and Beto.                        *)
EXTENDS ChatSystemProperties

CONSTANTS c1, c2

Both == {c1, c2}
Names == [c \in Both |-> IF c = c1 THEN "ana" ELSE "beto"]
Register == {<<"REGISTER", "ana">>, <<"REGISTER", "beto">>}

Busy   == <<"STATUS", "OCUPADO">>
Active == <<"STATUS", "ACTIVO">>
Away   == <<"STATUS", "INACTIVO">>
Msg    == <<"MSG", "beto", "hola">>
List   == <<"LIST">>
AnyLine == {Busy, Active, Away, Msg, List, <<"QUIT">>}

Plan(after, types, count, quits, crashes, seconds) ==
  [ after   |-> [c \in Both |-> IF c = c1 THEN {} ELSE after],
    types   |-> [c \in Both |-> IF c = c1 THEN types ELSE {}],
    count   |-> [c \in Both |-> IF c = c1 THEN count ELSE 0],
    quits   |-> quits, crashes |-> crashes, seconds |-> seconds ]

SomePlans ==
  { \* Both come at once.
    Plan({}, {}, 0, {c2}, {c1}, 0),
    \* Beto comes later, and Ana talks to him, ...
    Plan({c1}, {Msg}, 2, {c2}, {}, 0),
    \* ... says she is busy, away or back, ...
    Plan({c1}, {Busy, Active, Away}, 2, {}, {}, 0),
    \* ... or is busy, and time passes.
    Plan({c1}, {Busy}, 1, {}, {}, 1),
    \* Ana is alone, says she is away and does something, and time passes.
    Plan({c2}, {Away, List}, 2, {c1}, {}, 1) }
=============================================================================
