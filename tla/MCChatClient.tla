----------------------------- MODULE MCChatClient -----------------------------
(* Instances of ChatClient for TLC: what the user types, what others cause.    *)
EXTENDS ChatClientProperties

\* Enter, lines that are sent, a status that is refused, and the last line.
TypedLines ==
  { <<>>, <<"/msg", "beto", "hola", "y", "adios">>, <<"/status", "Ocupado">>,
    <<"/status", "activo">>, <<"/status", "activo", "x">>, <<"/quit">> }

Notice == {<<"STATUS_CHANGED", "ana", "INACTIVO">>}
===============================================================================
