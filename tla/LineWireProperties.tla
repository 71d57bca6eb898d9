------------------------- MODULE LineWireProperties -------------------------
(***************************************************************************)
(* What must survive the way from a typed line to the other screens.       *)
(***************************************************************************)
EXTENDS LineWire, SequencesExt

Line == {l \in Seq(Symbols) : Len(l) < MaxMsg}
Wire == {l \in Seq(Symbols) : Len(l) <= Cap}
Job  == [to : Users, line : Line, begun : BOOLEAN]

\* The types of all variables; no buffer holds more than its size.
TypeOK ==
  /\ script \in Scripts
  /\ typed \in [Users -> Nat] /\ \A u \in Users : typed[u] <= Len(script.types[u])
  /\ kbd \in [Users -> Seq(Symbols)] /\ csend \in [Users -> Line]
  /\ {up, down} \subseteq [Users -> Wire]
  /\ {sbuf, cbuf} \subseteq [Users -> {l \in Line : ~Complete(l)}]
  /\ {heard, sent, got} \subseteq [Users -> Seq(Line)]
  /\ mixed \in [Users -> BOOLEAN]
  /\ job \in [Senders -> Seq(Job)]
  /\ notices \in 0 .. Len(script.idle)

-----------------------------------------------------------------------------
(* Framing.                                                                *)

\* A line in pieces, each as long as it takes to be one of Whole.
Cuts == [pieces : Seq(Seq(Symbols)), open : Seq(Symbols)]

CutAfter(Whole) ==
  [p \in Cuts \X Symbols |->
     LET longer == Append(p[1].open, p[2])
     IN  IF longer \in Whole
         THEN [pieces |-> Append(p[1].pieces, longer), open |-> <<>>]
         ELSE [p[1] EXCEPT !.open = longer]]

Pieces(line, Whole) ==
  LET all == Fold(CutAfter(Whole), [pieces |-> <<>>, open |-> <<>>], line)
  IN  IF all.open = <<>> THEN all.pieces ELSE Append(all.pieces, all.open)

\* A line with newlines inside, as its reader sees it.
Lines(line) == Pieces(line, {l \in Seq(Symbols) : l[Len(l)] = NL})

AllLines(lines) ==
  FlatMap(Seq(Symbols), [l \in Seq(Symbols) |-> Lines(l)], lines)

\* What the receiver reads are the lines sent to it, whole and in order, split
\* only where a message has a newline of its own, unless two threads were in the
\* middle of a line to the same client at once.  A list too long for its buffer
\* loses its newline (protocol.c:79-81), and the reader still ends the line
\* there because the two buffers have the same size (utils.c:59,
\* receiver_loop.c:48).
FramesKept ==
  \A u \in Users : ~mixed[u] =>
    IsPrefix(got[u], AllLines(sent[u]))

Typed(u) == SubSeq(script.types[u], 1, typed[u])

\* fgets gives a long line in pieces of MaxMsg - 1 symbols.
FgetsPieces(line) == Pieces(line, {l \in Seq(Symbols) : Len(l) = MaxMsg - 1})

Commands(line) ==
  FlatMap(Seq(Symbols),
          [l \in Seq(Symbols) |-> IF ToProto(l) = <<>> THEN <<>> ELSE <<ToProto(l)>>],
          FgetsPieces(line))

Meant(u) ==
  FlatMap(Seq(Symbols), [l \in Seq(Symbols) |-> Commands(l)], Typed(u))

\* What the server reads from the repository's client is what the client meant to
\* send for each piece fgets gave it, never a part of it, because the limits on
\* names and texts keep a command within the line buffer (input_loop.c:144-172,
\* utils.c:59).
CommandsWhole == \A u \in Users : IsPrefix(heard[u], Meant(u))

-----------------------------------------------------------------------------
(* Contents.                                                               *)

\* What the rest of a line is as a message: at most MaxChat - 1 symbols of it, in
\* which a backslash makes the next symbol literal (protocol.c:26-29).  A '|' is a
\* symbol like any other.
Quoted(s) == LET quoted[i \in DOMAIN s] ==
                   i > 1 /\ s[i - 1] = Backslash /\ ~quoted[i - 1]
             IN  {i \in DOMAIN s : quoted[i]}

Cooked(text) ==
  LET s == Text(text)
  IN  Picked(s, {i \in DOMAIN s : s[i] # Backslash \/ i \in Quoted(s)})

\* A text the parser cuts, or makes a newline of: at a '|', and for a quoted "n"
\* (protocol.c:28-35).
Breaks(text) ==
  LET s == Text(text)
  IN  \E i \in DOMAIN s : IF i \in Quoted(s) THEN s[i] = "n" ELSE s[i] = Bar

\* The private texts user u has typed to v, in order.
TextsTo(u, v) ==
  LET Private(l) == l[1] = "/msg" /\ Before(SubSeq(l, 3, Len(l)), Space) = v
                    /\ ToProto(l) # <<>>
      lines == SelectSeq(Typed(u), Private)
  IN  [i \in DOMAIN lines |-> After(SubSeq(lines[i], 3, Len(lines[i])), Space)]

ToldBy(u, v) == [i \in DOMAIN TextsTo(u, v) |-> Cooked(TextsTo(u, v)[i])]

ShownFrom(v, u) ==
  LET Private(l) == Type(l) = <<"DELIVER">> /\ From(l) = u
      lines == SelectSeq(got[v], Private)
  IN  [i \in DOMAIN lines |-> Said(lines[i])]

Kept(u, v) == IsPrefix(ShownFrom(v, u), ToldBy(u, v))

\* The private messages on a screen are the ones typed, in order, none lost or
\* twice, each whole: "/msg cami texto con | pipe" arrives with its '|', because
\* the server takes the first '|' only as a separator, and "el resto es mensaje"
\* (MARINES_LOG.md:85,98).
MessagesWhole == \A u, v \in Users : ~mixed[v] => Kept(u, v)

\* They are as long as no text to that user is one that the parser breaks: through
\* five buffers nothing else is lost, added, repeated or overtaken, and a quoted
\* '|' does arrive (input_loop.c:144-163, protocol.c:15-60,
\* receiver_loop.c:112-135).
MessagesKept ==
  \A u, v \in Users :
    ~mixed[v] /\ (\A i \in DOMAIN TextsTo(u, v) : ~Breaks(TextsTo(u, v)[i]))
    => Kept(u, v)

\* The names a list shows are the registered ones in order of their slots, as far
\* as the buffer goes; only the last may be cut (session_manager.c:193-198,
\* ui.c:236-242).
ListsNames ==
  \A u \in Users : ~mixed[u] =>
    \A k \in DOMAIN got[u] : Type(got[u][k]) = <<"LIST_OK">> =>
      LET names == Names(got[u][k])
      IN  /\ 0 < Len(names) /\ Len(names) <= Len(Seats)
          /\ \A i \in 1 .. Len(names) - 1 : names[i] = Seats[i]
          /\ IsPrefix(names[Len(names)], Seats[Len(names)])
          /\ names # Seats =>
               Len(Join(Seats, Semicolon)) + Len(<<"LIST_OK", Bar>>) > MaxMsg - 1

\* A piece that is a private message to nobody who is online.
ToNobody(piece) ==
  LET line == SkipSpaces(piece)
      name == Before(SkipSpaces(Tail(line)), Space)
  IN  /\ ToProto(piece) # <<>> /\ Head(line) = "/msg"
      /\ name \notin Online

Blamed(u) ==
  \E i \in DOMAIN Typed(u) :
    LET pieces == FgetsPieces(Typed(u)[i])
    IN  \E n \in DOMAIN pieces : ToNobody(pieces[n])

\* A client gets an ERROR only if its own user has typed a message to a name that
\* is not online: whoever is online is found by the name it registered with, and
\* no piece of a line, no empty command and nobody else's message brings an ERROR
\* (input_loop.c:144-172, handlers.c:75-82).  It takes names shorter than MaxName:
\* the client cuts a name of that length (ShortNames of LineFormatProofs).
AddresseeFound ==
  \A u \in Users : ~mixed[u] =>
    \A k \in DOMAIN got[u] : Type(got[u][k]) = <<"ERROR">> => Blamed(u)

-----------------------------------------------------------------------------
(* Liveness.                                                               *)

IsAnswer(l) ==
  Type(l) \in {<<"MSG_OK">>, <<"LIST_OK">>, <<"BROADCAST_OK">>, <<"ERROR">>}

\* Every line a client sends is answered in the end although buffers are small
\* and every sender waits for room: the receiver of a client reads whatever its
\* input thread does, so no circle of blocked senders can close, and the monitor
\* always gets rid of its notice.
AllAnswered ==
  <>[](/\ job[Monitor] = <<>>
       /\ \A u \in Users :
            mixed[u] \/ Len(SelectSeq(got[u], IsAnswer)) = Len(Meant(u)))

=============================================================================
