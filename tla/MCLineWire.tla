----------------------------- MODULE MCLineWire -----------------------------
(* An instance of LineWire for TLC: two users of four, and what they type. *)
EXTENDS LineWireProperties

Ana  == <<"a", "n">>
Beto == <<"b", "e">>
Keys == {"a", "n", "b", "e", "c", "d", "i", "h", "z", " ", "|", "\\", "/msg", "/all",
         "/list"}
SeatNames == << Ana, Beto, <<"c">>, <<"d", "i">> >>
Both == {Ana, Beto}

Msg(name, text) == <<"/msg", " ">> \o name \o <<" ">> \o text \o <<NL>>
All(text) == <<"/all", " ">> \o text \o <<NL>>
List == <<"/list", NL>>

\* A line of more than MaxMsg - 1 symbols whose second piece is a command.
Long == <<"/all", " ", "h", "h", "h", "h", "h", "h", "h", "h", "h", "/list", NL>>

\* Every text of up to three letters, and some that the limit of MaxChat - 1 cuts.
Letters == {"h", "n", "|", "\\"}
Texts == UNION {[1 .. n -> Letters] : n \in 1 .. 3}
         \cup {<<"h", "h", "h", "n">>, <<"h", "h", "\\", "n">>}

Script(ana, beto, idle) ==
  [types |-> [u \in Both |-> IF u = Ana THEN ana ELSE beto], idle |-> idle]

SomeScripts ==
  {Script(<<Msg(Beto, t)>>, <<List>>, <<>>) : t \in Texts}
  \cup
  { Script(<<Msg(Beto, <<"h">>), List>>, <<Msg(Ana, <<"n">>), Msg(Ana, <<"h">>)>>, <<>>),
    Script(<<Long>>, <<Msg(Ana, <<"h", " ", "n">>)>>, <<>>),
    Script(<<All(<<"h", "|", "n">>)>>, <<Msg(<<"z", "z">>, <<"h">>)>>, <<Ana>>) }

\* A text with '|' and no backslash.
BarScript == {Script(<<Msg(Beto, <<"h", "|", "n">>), List>>, <<List>>, <<>>)}
=============================================================================
