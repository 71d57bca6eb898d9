---------------------------- MODULE MCChatServer ----------------------------
(* Instances of ChatServer for TLC: the lines the clients may send.        *)
EXTENDS ChatServerRoom, ChatServerService, TLC

Symmetry == Permutations(Conns)

OnlyQuit == {<<"QUIT">>}

RegisterAna == {<<"REGISTER", "ana">>}

AllCommands ==
  { <<"REGISTER", "beto">>, <<"REGISTER", "no valido">>, <<"LIST">>,
    <<"INFO", "ana">>, <<"STATUS", "OCUPADO">>, <<"STATUS", "DORMIDO">>,
    <<"MSG", "ana", "hola">>, <<"BROADCAST", "hola">>, <<"PING">>, <<"QUIT">>,
    <<"QUIT", "ya">>, <<"HOLA">> }

(* The lines of the runs that refute what a document says.                 *)

RegisterOrMsg  == {<<"REGISTER", "ana">>, <<"MSG", "ana", "hola">>}
=============================================================================
