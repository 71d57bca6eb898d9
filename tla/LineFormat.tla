---------------------------- MODULE LineFormat ----------------------------
(***************************************************************************)
(* From a typed command to a printed message: what the client's            *)
(* parse_command and proto_build, the server's parse_message and builders, *)
(* and the client's dispatch_message make of a line, buffer limits         *)
(* included.                                                               *)
(*                                                                         *)
(* A line is a sequence of symbols.  A command word or a keyword of the    *)
(* protocol is one symbol; a name or a text is a sequence of letters, and  *)
(* "|", ";", " ", "\\" and the newline NL are symbols of their own.  The   *)
(* limits are parameters, so that TLC can have small ones.                 *)
(*                                                                         *)
(* Here and in LineWire, Name_What is Name with a plausible mistake, for   *)
(* checking that a property would notice it.                               *)
(***************************************************************************)
EXTENDS SeqFunctions

CONSTANTS
  MaxMsg,    \* MAX_LINE_LEN, the size of every line buffer (1024)
  MaxChat,   \* MAX_CHAT_LEN (900)
  MaxName,   \* MAX_USERNAME_LEN (32)
  Alphabet,  \* what can be typed, but for the newline
  Seats      \* the registered names, in the order of their slots

NL        == "newline"
Bar       == "|"
Semicolon == ";"
Space     == " "
Backslash == "\\"

\* The symbols of all lines.
Symbols ==
  Alphabet \cup {Bar, Semicolon, NL}
  \cup {"LIST", "MSG", "BROADCAST", "LIST_OK", "MSG_OK", "DELIVER",
        "BROADCAST_OK", "BROADCAST_FROM", "STATUS_CHANGED", "INACTIVO",
        "ERROR", "PROTO", "NOT_IMPLEMENTED", "USER_NOT_FOUND"}

\* A message fits in a buffer, with its header, the name of who sends it and
\* whatever the parser makes a text of: 32 + 32 + 900 + 1 characters and the
\* longest header, "BROADCAST_FROM", fit in 1023.
Fits ==
  /\ MaxMsg \in Nat /\ MaxChat \in Nat \ {0, 1} /\ MaxName \in Nat \ {0, 1}
  /\ MaxName + MaxName + MaxChat + 1 <= MaxMsg - 1

\* Names have letters, digits and "_" only (validation.c:19-29, main_client.c:47).
AreNames ==
  /\ Seats \in Seq(Seq(Alphabet \ {Bar, Semicolon, Space, Backslash})) /\ Seats # <<>>
  /\ \A i \in DOMAIN Seats : Len(Seats[i]) \in 1 .. MaxName

ASSUME LimitsAssumption   == Fits
ASSUME AlphabetAssumption == NL \notin Alphabet
ASSUME SeatsAssumption    == AreNames

Online == {Seats[i] : i \in DOMAIN Seats}

-----------------------------------------------------------------------------
(* The C library, on sequences.                                            *)

Cut(s, n) == SubSeq(s, 1, IF Len(s) < n THEN Len(s) ELSE n)

\* The first position of a symbol of the given ones, or 0.
First(s, marks) ==
  IF \E i \in DOMAIN s : s[i] \in marks
  THEN CHOOSE i \in DOMAIN s : s[i] \in marks /\ \A j \in 1 .. i - 1 : s[j] \notin marks
  ELSE 0

Find(s, ch) == First(s, {ch})

Before(s, ch) == IF Find(s, ch) = 0 THEN s ELSE SubSeq(s, 1, Find(s, ch) - 1)

After(s, ch) ==
  IF Find(s, ch) = 0 THEN <<>> ELSE SubSeq(s, Find(s, ch) + 1, Len(s))

SkipSpaces(s) ==
  LET i == First(s, Symbols \ {Space})
  IN  IF i = 0 THEN <<>> ELSE SubSeq(s, i, Len(s))

\* The parts with separator sep between them.
Join(parts, sep) ==
  LET glue == [p \in Seq(Symbols) \X Seq(Symbols) |-> p[1] \o <<sep>> \o p[2]]
  IN  Fold(glue, Head(parts), Tail(parts))

\* snprintf of "f1|f2|...\n" into a line buffer.
Build(fields) == Cut(Append(Join(fields, Bar), NL), MaxMsg - 1)

\* A reader's line: up to the newline, or as much as its buffer holds.
Complete_Long(piece) ==
  piece # <<>> /\ (piece[Len(piece)] = NL \/ Len(piece) = MaxMsg)

Complete(piece) ==
  piece # <<>> /\ (piece[Len(piece)] = NL \/ Len(piece) = MaxMsg - 1)

\* fgets: the first piece of what was typed.
FirstPiece(s) ==
  LET n == CHOOSE i \in 1 .. Len(s) :
             /\ i = Len(s) \/ Complete(SubSeq(s, 1, i))
             /\ \A j \in 1 .. i - 1 : ~Complete(SubSeq(s, 1, j))
  IN  SubSeq(s, 1, n)

-----------------------------------------------------------------------------
(* The client's way out: parse_command, then command_to_proto.  /status,   *)
(* /info, /help and /quit are in ChatClient.                               *)

TrimNewline(s) == IF s # <<>> /\ s[Len(s)] = NL THEN SubSeq(s, 1, Len(s) - 1) ELSE s

Text(s) == TrimNewline(Cut(s, MaxChat - 1))

Dest_Short(s) == Cut(s, MaxName - 2)

Dest(s) == Cut(s, MaxName - 1)

\* The line the client sends for a piece of what was typed, or <<>>.
ToProto(piece) ==
  LET line == SkipSpaces(piece)
      args == SkipSpaces(Tail(line))
      dest == Dest(Before(args, Space))
      said == Text(SkipSpaces(After(args, Space)))
  IN  IF line = <<>> THEN <<>>
      ELSE CASE Head(line) = "/list" -> Build(<< <<"LIST">> >>)
             [] Head(line) = "/msg" /\ dest # <<>> /\ said # <<>> ->
                  Build(<< <<"MSG">>, dest, said >>)
             [] Head(line) = "/all" /\ Text(args) # <<>> ->
                  Build(<< <<"BROADCAST">>, Text(args) >>)
             [] OTHER -> <<>>

-----------------------------------------------------------------------------
(* The server: parse_message, the builders and sessions_list_usernames.    *)

\* One turn of parse_message's loop.  A backslash takes the next symbol as it
\* is, a newline too, but for "n", which becomes a newline.  The third '|' ends
\* the scan.
Start == [fields |-> << <<>>, <<>>, <<>> >>, at |-> 1, escaped |-> FALSE,
          stopped |-> FALSE]

Turns == [fields : [1 .. 3 -> Seq(Symbols)], at : 1 .. 4, escaped : BOOLEAN,
          stopped : BOOLEAN]

Put(st, ch) == [st EXCEPT !.fields[st.at] = Append(@, ch), !.escaped = FALSE]

Scan(st, ch) ==
  CASE st.stopped -> st
    [] ~st.stopped /\ st.escaped -> Put(st, IF ch = "n" THEN NL ELSE ch)
    [] ~st.stopped /\ ~st.escaped ->
         CASE ch = NL -> [st EXCEPT !.stopped = TRUE]
           [] ch = Backslash -> [st EXCEPT !.escaped = TRUE]
           [] ch = Bar -> [st EXCEPT !.at = @ + 1, !.stopped = st.at = 3]
           [] OTHER -> IF Len(st.fields[st.at]) < MaxMsg - 1
                       THEN Put(st, ch) ELSE st

ParseMessage(line) ==
  LET turn == [p \in Turns \X Symbols |-> Scan(p[1], p[2])]
      f == Fold(turn, Start, line).fields
  IN  [type |-> f[1], arg1 |-> f[2], arg2 |-> f[3]]

\* The list is cut where the buffer ends, in the middle of a name if need be.
ListUsernames_Unseparated ==
  Cut(FlatMap(Symbols, [name \in Online |-> name], Seats), MaxMsg - 1)

ListUsernames == Cut(Join(Seats, Semicolon), MaxMsg - 1)

To(user, line) == [to |-> user, line |-> line, begun |-> FALSE]

\* What the thread of user u sends, in order, for a line it has read.
Handle(u, line) ==
  LET msg == ParseMessage(line)
  IN  CASE msg.type = <<"LIST">> ->
             << To(u, Build(<< <<"LIST_OK">>, ListUsernames >>)) >>
        [] msg.type = <<"MSG">> /\ msg.arg1 \in Online ->
             << To(msg.arg1, Build(<< <<"DELIVER">>, u, msg.arg2 >>)),
                To(u, Build(<< <<"MSG_OK">>, msg.arg1 >>)) >>
        [] msg.type = <<"MSG">> /\ msg.arg1 \notin Online ->
             << To(u, Build(<< <<"ERROR">>, <<"MSG">>, <<"USER_NOT_FOUND">> >>)) >>
        [] msg.type = <<"BROADCAST">> ->
             Append([i \in DOMAIN Seats |->
                       To(Seats[i], Build(<< <<"BROADCAST_FROM">>, u, msg.arg2 >>))],
                    To(u, Build(<< <<"BROADCAST_OK">> >>)))
        [] OTHER ->
             << To(u, Build(<< <<"ERROR">>, <<"PROTO">>, <<"NOT_IMPLEMENTED">> >>)) >>

-----------------------------------------------------------------------------
(* The client's way in: proto_parse_type, dispatch_message, the ui.        *)

Type(piece) == Before(TrimNewline(piece), Bar)
Rest(piece) == After(TrimNewline(piece), Bar)

From(piece) == Cut(Before(Rest(piece), Bar), MaxName - 1)

Said_Token(piece) == Before(After(Rest(piece), Bar), Bar)

Said(piece) == Before(Cut(After(Rest(piece), Bar), MaxChat - 1), NL)

\* strtok skips empty tokens.
Names(piece) ==
  LET users == Append(Rest(piece), Semicolon)
      Token(acc, ch) ==
        IF ch # Semicolon THEN [acc EXCEPT !.open = Append(@, ch)]
        ELSE IF acc.open = <<>> THEN acc
        ELSE [names |-> Append(acc.names, acc.open), open |-> <<>>]
      token == [p \in [names : Seq(Seq(Symbols)), open : Seq(Symbols)] \X Symbols
                  |-> Token(p[1], p[2])]
  IN  Fold(token, [names |-> <<>>, open |-> <<>>], users).names
=============================================================================
