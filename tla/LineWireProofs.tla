--------------------------- MODULE LineWireProofs ---------------------------
(***************************************************************************)
(* Lines keep whole between the clients and the server, for every number of *)
(* users, all scripts, all sizes of the buffers and of the connections: the *)
(* server hears the commands the users meant, and the clients get the lines *)
(* that were sent to them.                                                 *)
(***************************************************************************)
EXTENDS LineFormatProofs

-----------------------------------------------------------------------------
(* Readers.                                                                *)

\* What a reader has taken once it has taken n symbols.
Read(part, buffer, n) == Cat(part, SubSeq(buffer, 1, n))

\* The part of a line before a reader is done with it.
Reads(r, part, buffer, n) ==
  /\ Len(r) = Len(part) + n /\ Len(part) \in Nat
  /\ \A i \in 1 .. Len(part) : r[i] = part[i]
  /\ \A i \in 1 .. n : r[Len(part) + i] = buffer[i]

\* Its symbols are those of the part and those taken.
LEMMA ReadIs ==
  ASSUME NEW part \in Seq(Symbols), NEW buffer \in Seq(Symbols), NEW n \in Nat,
         n <= Len(buffer)
  PROVE  /\ Read(part, buffer, n) \in Seq(Symbols)
         /\ Reads(Read(part, buffer, n), part, buffer, n)
<1>1. SubSeq(buffer, 1, n) \in Seq(Symbols) /\ Len(SubSeq(buffer, 1, n)) = n
      /\ \A i \in 1 .. n : SubSeq(buffer, 1, n)[i] = buffer[i]
  BY Split
<1> DEFINE x == SubSeq(buffer, 1, n)
<1>2. x \in Seq(Symbols) /\ Len(x) = n /\ \A i \in 1 .. n : x[i] = buffer[i]
  BY <1>1
<1> HIDE DEF x
<1>9. x \in Seq(Symbols)
  BY <1>2
<1>3. Cat(part, x) \in Seq(Symbols) /\ Joins(Cat(part, x), part, x)
  BY <1>9, CatIs
<1>4. Read(part, buffer, n) = Cat(part, x)
  BY DEF Read, x
<1> QED
  BY <1>2, <1>3, <1>4 DEF Joins, Reads

\* It takes symbols until the line is complete, or all of them.
LEMMA TakenIs ==
  ASSUME NEW part, NEW buffer, Len(buffer) \in Nat, Len(buffer) > 0
  PROVE  /\ Taken(part, buffer) \in 1 .. Len(buffer)
         /\ \/ Taken(part, buffer) = Len(buffer)
            \/ Complete(Read(part, buffer, Taken(part, buffer)))
         /\ \A i \in 1 .. Taken(part, buffer) - 1 : ~Complete(Read(part, buffer, i))
<1> DEFINE T == {n \in 1 .. Len(buffer) :
                   n = Len(buffer) \/ Complete(Read(part, buffer, n))}
<1>1. T \subseteq Nat /\ T # {}
  <2>1. Len(buffer) \in T
    OBVIOUS
  <2> QED
    BY <2>1
<1>2. PICK m \in T : \A k \in T : m <= k
  BY <1>1, LeastNat
<1>3. /\ m \in 1 .. Len(buffer)
      /\ m = Len(buffer) \/ Complete(Read(part, buffer, m))
      /\ \A i \in 1 .. m - 1 : ~Complete(Read(part, buffer, i))
  BY <1>2
<1>4. Taken(part, buffer) =
        CHOOSE n \in 1 .. Len(buffer) :
          /\ n = Len(buffer) \/ Complete(Read(part, buffer, n))
          /\ \A i \in 1 .. n - 1 : ~Complete(Read(part, buffer, i))
  BY Zenon DEF Taken, Read, Cat
<1> QED
  BY <1>3, <1>4, Zenon

\* The part of a line that does not end it.
Open(s) == s \in Seq(Symbols) /\ Len(s) < MaxMsg - 1 /\ NoNL(s)

\* A line without a newline that is not complete can go on.
LEMMA OpenIs ==
  ASSUME NEW s \in Seq(Symbols), Len(s) <= MaxMsg - 1, NoNL(s), ~Complete(s)
  PROVE  Open(s)
<1>1. CASE s = <<>>
  <2>1. Len(s) = 0
    BY <1>1
  <2> QED
    BY <2>1, Sizes DEF Open
<1>2. CASE s # <<>>
  <2>1. Len(s) # MaxMsg - 1
    BY <1>2 DEF Complete
  <2>2. Len(s) \in Nat
    OBVIOUS
  <2> QED
    BY <2>1, <2>2, Sizes DEF Open
<1> QED
  BY <1>1, <1>2

\* One call of a reader.
LEMMA Reading ==
  ASSUME NEW part, Open(part), NEW buffer \in Seq(Symbols), Len(buffer) > 0,
         NEW n, n = Taken(part, buffer), NEW line, line = Read(part, buffer, n)
  PROVE  /\ n \in 1 .. Len(buffer)
         /\ line \in Seq(Symbols) /\ Len(line) <= MaxMsg - 1
         /\ Len(line) = Len(part) + n
         /\ OnlyLast(line)
         /\ ~Complete(line) => n = Len(buffer) /\ Open(line)
<1>0. Len(buffer) \in Nat /\ part \in Seq(Symbols) /\ Len(part) \in Nat
      /\ Len(part) < MaxMsg - 1 /\ NoNL(part)
  BY DEF Open
<1>1. /\ n \in 1 .. Len(buffer)
      /\ n = Len(buffer) \/ Complete(line)
      /\ \A i \in 1 .. n - 1 : ~Complete(Read(part, buffer, i))
  BY <1>0, TakenIs
<1>2. n \in Nat /\ n <= Len(buffer)
  BY <1>0, <1>1
<1>3. /\ line \in Seq(Symbols) /\ Len(line) = Len(part) + n
      /\ \A i \in 1 .. Len(part) : line[i] = part[i]
      /\ \A i \in 1 .. n : line[Len(part) + i] = buffer[i]
  <2>1. line \in Seq(Symbols) /\ Reads(line, part, buffer, n)
    BY <1>0, <1>2, ReadIs
  <2> QED
    BY <2>1 DEF Reads
<1>4. ASSUME NEW i \in 1 .. n - 1
      PROVE  buffer[i] # NL /\ Len(part) + i # MaxMsg - 1
  <2>1. i \in Nat /\ i <= Len(buffer) /\ i \in 1 .. i
    BY <1>2
  <2>2. PICK r : r = Read(part, buffer, i)
    OBVIOUS
  <2>6. r \in Seq(Symbols) /\ Reads(r, part, buffer, i)
    BY <1>0, <2>1, <2>2, ReadIs
  <2>3. r \in Seq(Symbols) /\ Len(r) = Len(part) + i
        /\ \A k \in 1 .. i : r[Len(part) + k] = buffer[k]
    BY <2>6 DEF Reads
  <2>4. r # <<>> /\ r[Len(r)] = buffer[i]
    BY <1>0, <2>1, <2>3
  <2>5. ~Complete(r)
    BY <1>1, <2>2
  <2> QED
    BY <2>3, <2>4, <2>5 DEF Complete
<1>5. Len(line) <= MaxMsg - 1
  <2> SUFFICES ASSUME Len(line) > MaxMsg - 1 PROVE FALSE
    BY <1>0, <1>2, <1>3, Sizes
  <2>1. PICK i : i = (MaxMsg - 1) - Len(part)
    OBVIOUS
  <2>2. i \in 1 .. n - 1 /\ Len(part) + i = MaxMsg - 1
    BY <1>0, <1>2, <1>3, <2>1, Sizes
  <2> QED
    BY <1>4, <2>2
<1>6. OnlyLast(line)
  <2>1. ASSUME NEW i \in 1 .. Len(line) - 1 PROVE line[i] # NL
    <3>1. CASE i <= Len(part)
      BY <1>0, <1>3, <3>1 DEF NoNL
    <3>2. CASE i > Len(part)
      <4>1. PICK k : k = i - Len(part)
        OBVIOUS
      <4>2. k \in 1 .. n - 1 /\ k \in 1 .. n /\ i = Len(part) + k
        BY <1>0, <1>2, <1>3, <3>2, <4>1
      <4> QED
        BY <1>3, <1>4, <4>2
    <3> QED
      BY <1>0, <3>1, <3>2
  <2> QED
    BY <2>1 DEF OnlyLast
<1>7. ASSUME ~Complete(line) PROVE n = Len(buffer) /\ Open(line)
  <2>1. line # <<>> /\ Len(line) \in Nat /\ Len(line) > 0
    BY <1>0, <1>1, <1>3
  <2>2. line[Len(line)] # NL
    BY <1>7, <2>1 DEF Complete
  <2>3. NoNL(line)
    BY <1>6, <2>1, <2>2 DEF NoNL, OnlyLast
  <2> QED
    BY <1>1, <1>3, <1>5, <1>7, <2>3, OpenIs
<1> QED
  BY <1>1, <1>3, <1>5, <1>6, <1>7

\* What follows a frame.
LEMMA FrameRead ==
  ASSUME NEW part, Open(part), NEW buffer \in Seq(Symbols), Len(buffer) > 0,
         NEW n, n = Taken(part, buffer), NEW line, line = Read(part, buffer, n),
         Complete(line),
         NEW later \in Seq(Symbols), NEW f, Frame(f), NEW more \in Seq(Symbols),
         Cat(Cat(part, buffer), later) = Cat(f, more)
  PROVE  line = f /\ Cat(SubSeq(buffer, n + 1, Len(buffer)), later) = more
<1> DEFINE rest == SubSeq(buffer, n + 1, Len(buffer))
<1>1. /\ n \in 1 .. Len(buffer) /\ line \in Seq(Symbols) /\ Len(line) <= MaxMsg - 1
      /\ Len(line) = Len(part) + n /\ OnlyLast(line)
  BY Reading
<1>2. /\ f \in Seq(Symbols) /\ Len(f) > 0 /\ Len(f) <= MaxMsg - 1 /\ OnlyLast(f)
      /\ f[Len(f)] = NL \/ Len(f) = MaxMsg - 1
  BY DEF Frame, Sendable
<1>3. part \in Seq(Symbols) /\ n \in Nat /\ n <= Len(buffer) /\ Len(buffer) \in Nat
      /\ Len(part) \in Nat /\ Len(f) \in Nat /\ Len(line) \in Nat
  BY <1>1, <1>2 DEF Open
<1>4. rest \in Seq(Symbols) /\ SubSeq(buffer, 1, n) \in Seq(Symbols)
      /\ Cat(SubSeq(buffer, 1, n), rest) = buffer
  BY <1>3, Split
<1>5. Cat(line, Cat(rest, later)) = Cat(f, more)
  <2>1. PICK a : a = SubSeq(buffer, 1, n)
    OBVIOUS
  <2>2. line = Cat(part, a) /\ a \in Seq(Symbols) /\ buffer = Cat(a, rest)
    BY <1>4, <2>1 DEF Read
  <2> HIDE DEF rest
  <2>6. /\ part \in Seq(Symbols) /\ a \in Seq(Symbols) /\ rest \in Seq(Symbols)
        /\ line \in Seq(Symbols) /\ later \in Seq(Symbols)
    BY <1>1, <1>3, <1>4, <2>2
  <2>3. Cat(Cat(part, a), rest) = Cat(part, Cat(a, rest))
    BY <2>6, Regroup
  <2>4. Cat(line, rest) = Cat(part, buffer)
    BY <2>2, <2>3
  <2>5. Cat(Cat(line, rest), later) = Cat(line, Cat(rest, later))
    BY <2>6, Regroup
  <2> QED
    BY <2>4, <2>5
<1>6. Cat(rest, later) \in Seq(Symbols)
  BY <1>4, CatIs
<1> HIDE DEF rest
<1>7. \A i \in 1 .. Len(line) : i <= Len(f) => line[i] = f[i]
  BY <1>1, <1>2, <1>5, <1>6, SamePlaces
<1>8. Len(line) > 0 /\ (line[Len(line)] = NL \/ Len(line) = MaxMsg - 1)
  BY <1>1, <1>3 DEF Complete
<1>9. Len(line) = Len(f)
  <2>1. CASE Len(line) < Len(f)
    <3>1. PICK k : k = Len(line)
      OBVIOUS
    <3>3. k \in 1 .. Len(line) /\ k <= Len(f) /\ k \in 1 .. Len(f) - 1
      BY <1>3, <1>8, <2>1, <3>1
    <3>4. line[k] = f[k]
      BY <1>7, <3>3
    <3>5. f[k] # NL
      BY <1>2, <3>3 DEF OnlyLast
    <3>2. line[Len(line)] # NL
      BY <3>1, <3>4, <3>5
    <3> QED
      BY <1>2, <1>3, <1>8, <2>1, <3>2, Sizes
  <2>2. CASE Len(f) < Len(line)
    <3>1. Len(f) \in 1 .. Len(line) - 1 /\ Len(f) \in 1 .. Len(line)
      BY <1>2, <1>3, <2>2
    <3>2. f[Len(f)] # NL
      BY <1>1, <1>3, <1>7, <3>1 DEF OnlyLast
    <3> QED
      BY <1>1, <1>2, <1>3, <2>2, <3>2, Sizes
  <2> QED
    BY <1>3, <2>1, <2>2
<1>10. line = f /\ Cat(rest, later) = more
  BY <1>1, <1>2, <1>5, <1>6, <1>9, SameSplit
<1> QED
  BY <1>10 DEF rest

\* A reader and what is on its way to it.
Stream(part, buffer, later) == Cat(Cat(part, buffer), later)

\* A reader that has frames before it takes the first of them, and no more.
LEMMA ReadsFrame ==
  ASSUME NEW F, F \subseteq Frames, NEW part, Open(part),
         NEW buffer \in Strings, Len(buffer) > 0,
         NEW n, n = Taken(part, buffer), NEW line, line = Read(part, buffer, n),
         NEW later \in Strings, NEW r \in Seq(F), Stream(part, buffer, later) = Flat(r)
  PROVE  /\ Complete(line) =>
              /\ Len(r) > 0 /\ line = Head(r)
              /\ Stream(<<>>, SubSeq(buffer, n + 1, Len(buffer)), later) = Flat(Tail(r))
         /\ Stream(line, SubSeq(buffer, n + 1, Len(buffer)), later) = Flat(r)
<1> DEFINE rest == SubSeq(buffer, n + 1, Len(buffer))
<1>1. n \in Nat /\ n <= Len(buffer) /\ part \in Strings /\ Len(buffer) \in Nat
      /\ line \in Strings
  BY Reading DEF Open, Strings
<1>2. rest \in Strings /\ SubSeq(buffer, 1, n) \in Strings
      /\ Cat(SubSeq(buffer, 1, n), rest) = buffer
  BY <1>1, Split DEF Strings
<1>3. Cat(line, rest) = Cat(part, buffer)
  <2>1. PICK a : a = SubSeq(buffer, 1, n)
    OBVIOUS
  <2>2. a \in Strings /\ line = Cat(part, a) /\ buffer = Cat(a, rest)
    BY <1>2, <2>1 DEF Read
  <2> HIDE DEF rest
  <2>3. Cat(Cat(part, a), rest) = Cat(part, Cat(a, rest))
    BY <1>1, <1>2, <2>2, Regroup DEF Strings
  <2> QED
    BY <2>2, <2>3
<1>4. Stream(line, rest, later) = Flat(r)
  BY <1>3 DEF Stream
<1>5. ASSUME Complete(line)
      PROVE  Len(r) > 0 /\ line = Head(r) /\ Stream(<<>>, rest, later) = Flat(Tail(r))
  <2>1. Len(r) > 0
    <3> SUFFICES ASSUME Len(r) = 0 PROVE FALSE
      OBVIOUS
    <3>1. r = <<>>
      OBVIOUS
    <3>2. Flat(r) = <<>>
      BY <3>1, FlatIs, Singles DEF Texts
    <3>3. PICK x, y : x = Cat(part, buffer) /\ y = Cat(x, later)
      OBVIOUS
    <3>4. x \in Strings /\ Joins(x, part, buffer)
      BY <1>1, <3>3, CatIs DEF Strings
    <3>5. Joins(y, x, later)
      BY <3>3, <3>4, CatIs DEF Strings
    <3>6. Len(y) > 0
      BY <3>4, <3>5 DEF Joins
    <3>7. y = <<>>
      BY <3>2, <3>3 DEF Stream
    <3> QED
      BY <3>6, <3>7
  <2>2. F \subseteq Strings
    BY DEF Frames
  <2>3. PICK f, q : f = Head(r) /\ q = Tail(r)
    OBVIOUS
  <2>4. f \in F /\ q \in Seq(F) /\ Flat(r) = Cat(f, Flat(q))
    BY <2>1, <2>2, <2>3, FirstOut
  <2>5. Frame(f) /\ q \in Texts
    BY <2>2, <2>4, SeqMonotonic DEF Frames, Texts
  <2>6. PICK more : more = Flat(q)
    OBVIOUS
  <2>7. more \in Strings /\ Cat(Cat(part, buffer), later) = Cat(f, more)
    BY <2>4, <2>5, <2>6, FlatIs DEF Stream
  <2>8. line = f /\ Cat(rest, later) = more
    BY <1>5, <2>5, <2>7, FrameRead DEF Strings
  <2> HIDE DEF rest
  <2>9. Cat(<<>>, rest) = rest
    BY <1>2, CatEmpty DEF Strings
  <2> QED
    BY <2>1, <2>3, <2>6, <2>8, <2>9 DEF Stream
<1> QED
  BY <1>4, <1>5

-----------------------------------------------------------------------------
(* The two directions of a connection.                                     *)

\* What a client sends.
Sent == {c \in Strings : Command(c)}

\* What the server has heard, has still to read, and the client has still to
\* read from the keyboard is what the user meant.
UpIs(h, k, M, s, b, c) ==
  \E r \in Seq(Sent) : Cat(Cat(h, r), Commands(k)) = M /\ Stream(s, b, c) = Flat(r)

\* What the client has got and has still to read is what was sent to it.
DownIs(A, g, s, b, left) ==
  \E r \in Seq(Frames) : A = Cat(g, r) /\ Stream(s, b, left) = Flat(r)

\* Commands are frames, and frames are strings.
LEMMA Kinds ==
  /\ Sent \subseteq Frames /\ Frames \subseteq Strings
  /\ \A r \in Seq(Sent) : r \in Texts
  /\ \A r \in Seq(Frames) : r \in Texts
<1>1. Sent \subseteq Frames /\ Frames \subseteq Strings
  BY DEF Sent, Frames, Command
<1>2. Sent \subseteq Strings
  BY <1>1
<1>3. \A r \in Seq(Sent) : r \in Texts
  BY <1>2, SeqMonotonic DEF Texts
<1>4. \A r \in Seq(Frames) : r \in Texts
  BY <1>1, SeqMonotonic DEF Texts
<1> QED
  BY <1>1, <1>3, <1>4

\* A sender puts some of its line on the wire.
LEMMA PutStream ==
  ASSUME NEW s \in Strings, NEW b \in Strings, NEW c \in Strings, NEW n \in Nat, n <= Len(c)
  PROVE  Stream(s, Cat(b, SubSeq(c, 1, n)), SubSeq(c, n + 1, Len(c))) = Stream(s, b, c)
<1>1. PICK x, y : x = SubSeq(c, 1, n) /\ y = SubSeq(c, n + 1, Len(c))
  OBVIOUS
<1>2. x \in Strings /\ y \in Strings /\ Cat(x, y) = c
  BY <1>1, Split DEF Strings
<1>3. \A a, d \in Strings : Cat(a, d) \in Strings
  BY CatIs DEF Strings
<1>4. Cat(Cat(s, Cat(b, x)), y) = Cat(s, Cat(Cat(b, x), y))
  BY <1>2, <1>3, Regroup DEF Strings
<1>5. Cat(Cat(b, x), y) = Cat(b, c)
  BY <1>2, Regroup DEF Strings
<1>6. Cat(s, Cat(b, c)) = Cat(Cat(s, b), c)
  BY Regroup DEF Strings
<1> QED
  BY <1>1, <1>4, <1>5, <1>6 DEF Stream

\* A new line is typed.
LEMMA TypeUp ==
  ASSUME NEW h \in Texts, NEW M, NEW s, NEW b, NEW c, NEW line \in Strings,
         UpIs(h, <<>>, M, s, b, c)
  PROVE  UpIs(h, line, Cat(M, Commands(line)), s, b, c)
<1>1. PICK r \in Seq(Sent) : Cat(Cat(h, r), Commands(<<>>)) = M /\ Stream(s, b, c) = Flat(r)
  BY DEF UpIs
<1>2. Cat(h, r) \in Texts
  BY Kinds, CatIs DEF Texts
<1>3. Cat(Cat(h, r), Commands(<<>>)) = Cat(h, r)
  BY <1>2, CommandsAre, CatEmpty DEF Texts
<1> QED
  BY <1>1, <1>3 DEF UpIs

\* fgets reads a piece of what is typed.
LEMMA FgetsUp ==
  ASSUME NEW h \in Texts, NEW M, NEW s \in Strings, NEW b \in Strings, NEW line \in Strings,
         NEW piece, NEW rest, Fgets(piece, rest, line), UpIs(h, line, M, s, b, <<>>)
  PROVE  UpIs(h, rest, M, s, b, ToProto(piece))
<1>1. PICK r \in Seq(Sent) : Cat(Cat(h, r), Commands(line)) = M /\ Stream(s, b, <<>>) = Flat(r)
  BY DEF UpIs
<1>2. CASE ToProto(piece) = <<>> /\ Commands(line) = Commands(rest)
  BY <1>1, <1>2 DEF UpIs
<1>3. CASE Command(ToProto(piece)) /\ Commands(line) = Cat(<<ToProto(piece)>>, Commands(rest))
  <2>1. PICK c : c = ToProto(piece)
    OBVIOUS
  <2>2. c \in Strings /\ c \in Sent
    BY <1>3, <2>1 DEF Sent, Command, Frame, Sendable, Strings
  <2>3. PICK one, q : one = <<c>> /\ q = Append(r, c)
    OBVIOUS
  <2>4. q \in Seq(Sent) /\ q = Cat(r, one) /\ one \in Texts /\ r \in Texts
    <3>1. q \in Seq(Sent)
      BY <2>2, <2>3
    <3>2. one \in Texts
      BY <2>2, <2>3, Singles DEF Texts
    <3>3. q = Cat(r, one)
      BY <2>2, <2>3 DEF Cat
    <3> QED
      BY <3>1, <3>2, <3>3, Kinds
  <2>5. Cat(Cat(h, q), Commands(rest)) = M
    <3>1. Commands(rest) \in Texts
      BY CommandsAre DEF Fgets
    <3>2. Cat(h, r) \in Texts
      BY <2>4, CatIs DEF Texts
    <3>3. Cat(h, Cat(r, one)) = Cat(Cat(h, r), one)
      BY <2>4, Regroup DEF Texts
    <3>4. Cat(Cat(Cat(h, r), one), Commands(rest)) = Cat(Cat(h, r), Cat(one, Commands(rest)))
      BY <2>4, <3>1, <3>2, Regroup DEF Texts
    <3> QED
      BY <1>1, <1>3, <2>1, <2>3, <2>4, <3>3, <3>4
  <2>6. Stream(s, b, c) = Flat(q)
    <3>1. Cat(s, b) \in Strings
      BY CatIs DEF Strings
    <3>2. Cat(Cat(s, b), <<>>) = Cat(s, b)
      BY <3>1, CatEmpty DEF Strings
    <3>3. Flat(q) = Cat(Flat(r), c)
      BY <2>2, <2>3, <2>4, FlatIs
    <3> QED
      BY <1>1, <3>2, <3>3 DEF Stream
  <2> QED
    BY <2>1, <2>4, <2>5, <2>6 DEF UpIs
<1> QED
  BY <1>2, <1>3 DEF Fgets

\* The client puts some of its command on the wire.
LEMMA PutUp ==
  ASSUME NEW h, NEW k, NEW M, NEW s \in Strings, NEW b \in Strings, NEW c \in Strings,
         NEW n \in Nat, n <= Len(c), UpIs(h, k, M, s, b, c)
  PROVE  UpIs(h, k, M, s, Cat(b, SubSeq(c, 1, n)), SubSeq(c, n + 1, Len(c)))
BY PutStream DEF UpIs

\* The server reads.
LEMMA GetUp ==
  ASSUME NEW h \in Texts, NEW k, NEW M, NEW s, Open(s), NEW b \in Strings, Len(b) > 0,
         NEW c \in Strings, UpIs(h, k, M, s, b, c),
         NEW n, n = Taken(s, b), NEW line, line = Read(s, b, n)
  PROVE  /\ Complete(line) =>
              Command(line) /\ UpIs(Append(h, line), k, M, <<>>, SubSeq(b, n + 1, Len(b)), c)
         /\ UpIs(h, k, M, line, SubSeq(b, n + 1, Len(b)), c)
<1>1. PICK r \in Seq(Sent) : Cat(Cat(h, r), Commands(k)) = M /\ Stream(s, b, c) = Flat(r)
  BY DEF UpIs
<1>2. PICK rest : rest = SubSeq(b, n + 1, Len(b))
  OBVIOUS
<1>3. Sent \subseteq Frames
  BY Kinds
<1>4. /\ Complete(line) =>
           Len(r) > 0 /\ line = Head(r) /\ Stream(<<>>, rest, c) = Flat(Tail(r))
      /\ Stream(line, rest, c) = Flat(r)
  BY <1>1, <1>2, <1>3, ReadsFrame
<1>5. ASSUME Complete(line)
      PROVE  Command(line) /\ UpIs(Append(h, line), k, M, <<>>, rest, c)
  <2>1. Sent \subseteq Strings
    BY Kinds
  <2>2. PICK q : q = Tail(r)
    OBVIOUS
  <2>3. line \in Sent /\ q \in Seq(Sent) /\ r = Cat(<<line>>, q)
    BY <1>4, <1>5, <2>1, <2>2, FirstOut
  <2>4. Cat(Append(h, line), q) = Cat(h, r)
    <3>1. PICK one : one = <<line>>
      OBVIOUS
    <3>2. one \in Texts /\ q \in Texts
      BY <2>1, <2>3, <3>1, Kinds, Singles DEF Texts
    <3>3. Append(h, line) = Cat(h, one)
      BY <3>1 DEF Cat, Texts
    <3>4. Cat(Cat(h, one), q) = Cat(h, Cat(one, q))
      BY <3>2, Regroup DEF Texts
    <3> QED
      BY <2>3, <3>1, <3>3, <3>4
  <2>5. Command(line)
    BY <2>3 DEF Sent
  <2> QED
    BY <1>1, <1>4, <1>5, <2>2, <2>3, <2>4, <2>5 DEF UpIs
<1> QED
  BY <1>1, <1>2, <1>4, <1>5 DEF UpIs

\* A server thread begins a line,
LEMMA BeginDown ==
  ASSUME NEW A \in Texts, NEW g \in Texts, NEW s \in Strings, NEW b \in Strings,
         NEW line, Sendable(line), DownIs(A, g, s, b, <<>>)
  PROVE  DownIs(Cat(A, Lines(line)), g, s, b, line)
<1>1. PICK r \in Seq(Frames) : A = Cat(g, r) /\ Stream(s, b, <<>>) = Flat(r)
  BY DEF DownIs
<1>2. PICK x : x = Lines(line)
  OBVIOUS
<1>3. x \in Seq(Frames) /\ Flat(x) = line /\ x \in Texts /\ r \in Texts
  BY <1>2, SentFrames, Kinds
<1>4. PICK q : q = Cat(r, x)
  OBVIOUS
<1>5. q \in Seq(Frames)
  BY <1>3, <1>4, CatIs
<1>6. Cat(A, x) = Cat(g, q)
  BY <1>1, <1>3, <1>4, Regroup DEF Texts
<1>7. Flat(q) = Cat(Flat(r), line)
  BY <1>3, <1>4, FlatCat
<1>8. Stream(s, b, line) = Flat(q)
  <2>1. Cat(s, b) \in Strings
    BY CatIs DEF Strings
  <2>2. Cat(Cat(s, b), <<>>) = Cat(s, b)
    BY <2>1, CatEmpty DEF Strings
  <2> QED
    BY <1>1, <1>7, <2>2 DEF Stream
<1> QED
  BY <1>2, <1>5, <1>6, <1>8 DEF DownIs

\* puts some of it on the wire,
LEMMA PutDown ==
  ASSUME NEW A, NEW g, NEW s \in Strings, NEW b \in Strings, NEW c \in Strings,
         NEW n \in Nat, n <= Len(c), DownIs(A, g, s, b, c)
  PROVE  DownIs(A, g, s, Cat(b, SubSeq(c, 1, n)), SubSeq(c, n + 1, Len(c)))
BY PutStream DEF DownIs

\* and the client reads.
LEMMA GetDown ==
  ASSUME NEW A, NEW g \in Texts, NEW s, Open(s), NEW b \in Strings, Len(b) > 0,
         NEW c \in Strings, DownIs(A, g, s, b, c),
         NEW n, n = Taken(s, b), NEW line, line = Read(s, b, n)
  PROVE  /\ Complete(line) => DownIs(A, Append(g, line), <<>>, SubSeq(b, n + 1, Len(b)), c)
         /\ DownIs(A, g, line, SubSeq(b, n + 1, Len(b)), c)
<1>1. PICK r \in Seq(Frames) : A = Cat(g, r) /\ Stream(s, b, c) = Flat(r)
  BY DEF DownIs
<1>2. PICK rest : rest = SubSeq(b, n + 1, Len(b))
  OBVIOUS
<1>3. Frames \subseteq Frames /\ Frames \subseteq Strings
  BY Kinds
<1>4. /\ Complete(line) =>
           Len(r) > 0 /\ line = Head(r) /\ Stream(<<>>, rest, c) = Flat(Tail(r))
      /\ Stream(line, rest, c) = Flat(r)
  BY <1>1, <1>2, <1>3, ReadsFrame
<1>5. ASSUME Complete(line)
      PROVE  DownIs(A, Append(g, line), <<>>, rest, c)
  <2>1. PICK q : q = Tail(r)
    OBVIOUS
  <2>2. line \in Frames /\ q \in Seq(Frames) /\ r = Cat(<<line>>, q)
    BY <1>3, <1>4, <1>5, <2>1, FirstOut
  <2>3. Cat(Append(g, line), q) = Cat(g, r)
    <3>1. PICK one : one = <<line>>
      OBVIOUS
    <3>2. one \in Texts /\ q \in Texts
      BY <1>3, <2>2, <3>1, Kinds, Singles DEF Texts
    <3>3. Append(g, line) = Cat(g, one)
      BY <3>1 DEF Cat, Texts
    <3>4. Cat(Cat(g, one), q) = Cat(g, Cat(one, q))
      BY <3>2, Regroup DEF Texts
    <3> QED
      BY <2>2, <3>1, <3>3, <3>4
  <2> QED
    BY <1>1, <1>4, <1>5, <2>1, <2>2, <2>3 DEF DownIs
<1> QED
  BY <1>1, <1>2, <1>4, <1>5 DEF DownIs

\* A part that something else follows is a prefix.
LEMMA PrefixIs ==
  ASSUME NEW a \in Texts, NEW b \in Texts
  PROVE  IsPrefix(a, Cat(a, b))
<1>1. PICK c : c = Cat(a, b)
  OBVIOUS
<1>2. c \in Texts /\ Joins(c, a, b)
  BY <1>1, CatIs DEF Texts
<1>3. PICK n : n = Len(a)
  OBVIOUS
<1>4. n \in Nat /\ n <= Len(c) /\ n <= Len(a)
  BY <1>2, <1>3 DEF Joins
<1>5. PICK x, y : x = SubSeq(a, 1, n) /\ y = SubSeq(c, 1, n)
  OBVIOUS
<1>6. /\ x \in Texts /\ Len(x) = n /\ \A i \in 1 .. n : x[i] = a[i]
      /\ y \in Texts /\ Len(y) = n /\ \A i \in 1 .. n : y[i] = c[i]
  BY <1>2, <1>4, <1>5, Split DEF Texts
<1>7. \A i \in 1 .. n : x[i] = y[i]
  BY <1>2, <1>3, <1>6 DEF Joins
<1>8. x = y
  BY <1>6, <1>7, SeqEqual DEF Texts
<1> QED
  BY <1>1, <1>3, <1>4, <1>5, <1>8 DEF IsPrefix

-----------------------------------------------------------------------------
(* The inductive invariant.                                                *)

\* What is left at the keyboard, in a buffer, and of a line to be sent.
Texting == {k \in Strings : OnlyLast(k)}
Parts   == {s \in Strings : Open(s)}
Unsent  == {j \in [to : Users, line : Strings, begun : BOOLEAN] :
              /\ Len(j.line) > 0 /\ Len(j.line) <= MaxMsg - 1
              /\ ~j.begun => Sendable(j.line)}

\* Only the first line can have been begun.
Jobs == {q \in Seq(Unsent) : Len(q) > 0 => Tail(q) \in Seq(Fresh(Users))}

\* What has been typed is a part of the script.
KeysOk ==
  /\ script \in Scripts /\ notices \in 0 .. Len(script.idle)
  /\ typed \in [Users -> Nat] /\ \A u \in Users : typed[u] <= Len(script.types[u])

\* The types of what a client sends and the server reads,
UpTypes ==
  /\ kbd \in [Users -> Texting] /\ csend \in [Users -> Line] /\ up \in [Users -> Wire]
  /\ sbuf \in [Users -> Parts] /\ heard \in [Users -> Seq(Line)]

\* of what the server sends and a client reads,
DownTypes ==
  /\ down \in [Users -> Wire] /\ cbuf \in [Users -> Parts]
  /\ sent \in [Users -> Seq(Line)] /\ got \in [Users -> Seq(Line)]
  /\ mixed \in [Users -> BOOLEAN]

\* and of what the threads have still to send.
JobTypes == job \in [Senders -> Jobs]

\* No command of u has been lost, cut or mixed on its way to the server.
UpOk(u) == UpIs(heard[u], kbd[u], Meant(u), sbuf[u], up[u], csend[u])

\* At most one sender is in the middle of a line to a client, and left is the
\* rest of that line.
MiddleOf(u, left) ==
  /\ \A p \in Senders : InLineTo(p, u) => Head(job[p]).line = left
  /\ \A p, q \in Senders : InLineTo(p, u) /\ InLineTo(q, u) => p = q
  /\ (\E p \in Senders : InLineTo(p, u)) \/ left = <<>>

\* As long as no two threads have sent to u at once, the same of the lines to u.
DownOk(u) ==
  ~mixed[u] => \E left \in Strings :
    MiddleOf(u, left) /\ DownIs(AllLines(sent[u]), got[u], cbuf[u], down[u], left)

\* The inductive invariant.
Inv ==
  /\ KeysOk /\ UpTypes /\ DownTypes /\ JobTypes
  /\ \A u \in Users : UpOk(u)
  /\ \A u \in Users : DownOk(u)

\* What the sets are.
LEMMA SetsAre ==
  /\ \A l \in Line : l \in Strings /\ Len(l) <= MaxMsg - 1 /\ Len(l) \in Nat
  /\ \A l \in Strings : Len(l) <= MaxMsg - 1 => l \in Line
  /\ \A l \in Wire : l \in Strings /\ Len(l) <= Cap /\ Len(l) \in Nat
  /\ \A l \in Strings : Len(l) <= Cap => l \in Wire
  /\ \A q \in Seq(Line) : q \in Texts
  /\ <<>> \in Line /\ <<>> \in Wire /\ <<>> \in Parts /\ <<>> \in Texting /\ <<>> \in Strings
<1>1. \A l \in Line : l \in Strings /\ Len(l) <= MaxMsg - 1 /\ Len(l) \in Nat
  BY Sizes DEF Line, Strings
<1>2. \A l \in Strings : Len(l) <= MaxMsg - 1 => l \in Line
  BY Sizes DEF Line, Strings
<1>3. \A l \in Wire : l \in Strings /\ Len(l) <= Cap /\ Len(l) \in Nat
  BY DEF Wire, Strings
<1>4. \A l \in Strings : Len(l) <= Cap => l \in Wire
  BY DEF Wire, Strings
<1>5. Line \subseteq Strings
  BY <1>1
<1>6. \A q \in Seq(Line) : q \in Texts
  BY <1>5, SeqMonotonic DEF Texts
<1>7. PICK e : e = <<>>
  OBVIOUS
<1>8. e \in Strings /\ Len(e) = 0 /\ NoNL(e) /\ OnlyLast(e)
  BY <1>7, Singles DEF Strings, NoNL, OnlyLast
<1>9. Open(e)
  BY <1>8, Sizes DEF Open, Strings
<1>10. e \in Line /\ e \in Wire /\ e \in Parts /\ e \in Texting
  BY <1>2, <1>4, <1>8, <1>9, Sizes DEF Parts, Texting
<1> QED
  BY <1>1, <1>2, <1>3, <1>4, <1>6, <1>7, <1>8, <1>10

\* What does not change for a user.
LEMMA SameUp ==
  ASSUME NEW u, UpOk(u), script' = script, typed'[u] = typed[u], kbd'[u] = kbd[u],
         csend'[u] = csend[u], up'[u] = up[u], sbuf'[u] = sbuf[u], heard'[u] = heard[u]
  PROVE  UpOk(u)'
BY DEF UpOk, Meant, Typed

\* The same in the other direction.
LEMMA SameDown ==
  ASSUME NEW u, DownOk(u), mixed'[u] = mixed[u], sent'[u] = sent[u], got'[u] = got[u],
         cbuf'[u] = cbuf[u], down'[u] = down[u], job' = job
  PROVE  DownOk(u)'
BY DEF DownOk, MiddleOf, InLineTo

\* A whole line.
LEMMA TypedIs ==
  ASSUME NEW l \in TypedLine
  PROVE  l \in Strings /\ Len(l) > 0 /\ OnlyLast(l)
<1>1. Alphabet \cup {NL} \subseteq Symbols
  BY SymbolsAre
<1>2. l \in Seq(Alphabet \cup {NL}) /\ l # <<>> /\ \A i \in 1 .. Len(l) - 1 : l[i] # NL
  BY DEF TypedLine
<1>3. l \in Strings
  BY <1>1, <1>2, SeqMonotonic DEF Strings
<1>4. Len(l) > 0
  BY <1>2
<1> QED
  BY <1>2, <1>3, <1>4 DEF OnlyLast

\* A piece of a line is read from the keyboard.
LEMMA Fetched ==
  ASSUME NEW line \in Strings, Len(line) > 0, OnlyLast(line),
         NEW piece, piece = FirstPiece(line),
         NEW rest, rest = SubSeq(line, Len(piece) + 1, Len(line))
  PROVE  Fgets(piece, rest, line) /\ rest \in Texting /\ ToProto(piece) \in Line
<1>1. Fgets(piece, rest, line)
  BY FgetsIs
<1>2. ToProto(piece) \in Line
  BY <1>1, SetsAre DEF Fgets, Command, Frame, Sendable, Strings
<1> QED
  BY <1>1, <1>2 DEF Fgets, Texting

\* The user types a line.
LEMMA TypesStep ==
  ASSUME Inv, NEW u \in Users, Types(u)
  PROVE  Inv'
<1>1. PICK line, piece, rest :
        /\ line = script.types[u][typed[u] + 1] /\ piece = FirstPiece(line)
        /\ rest = SubSeq(line, Len(piece) + 1, Len(line))
  OBVIOUS
<1>2. /\ kbd[u] = <<>> /\ csend[u] = <<>> /\ typed[u] < Len(script.types[u])
      /\ kbd' = [kbd EXCEPT ![u] = rest] /\ csend' = [csend EXCEPT ![u] = ToProto(piece)]
      /\ typed' = [typed EXCEPT ![u] = @ + 1]
      /\ script' = script /\ up' = up /\ down' = down /\ sbuf' = sbuf /\ cbuf' = cbuf
      /\ job' = job /\ notices' = notices /\ heard' = heard /\ sent' = sent /\ got' = got
      /\ mixed' = mixed
  BY <1>1 DEF Types
<1>3. /\ typed \in [Users -> Nat] /\ typed[u] \in Nat
      /\ script.types[u] \in Seq(TypedLine) /\ script \in Scripts
  BY ScriptsAssumption DEF Inv, KeysOk, AreScripts
<1>4. line \in TypedLine
  BY <1>1, <1>2, <1>3
<1>5. line \in Strings /\ Len(line) > 0 /\ OnlyLast(line)
  BY <1>4, TypedIs
<1>6. Fgets(piece, rest, line) /\ rest \in Texting /\ ToProto(piece) \in Line
  BY <1>1, <1>5, Fetched
<1>7. KeysOk'
  BY <1>2, <1>3 DEF Inv, KeysOk
<1>8. UpTypes'
  BY <1>2, <1>6 DEF Inv, UpTypes
<1>9. DownTypes' /\ JobTypes'
  BY <1>2 DEF Inv, DownTypes, JobTypes
<1>10. ASSUME NEW v \in Users PROVE UpOk(v)'
  <2>1. CASE v = u
    <3>1. /\ heard[u] \in Texts /\ sbuf[u] \in Strings /\ up[u] \in Strings
      BY SetsAre DEF Inv, UpTypes, Parts
    <3>2. PICK h, s, b, e, m : h = heard[u] /\ s = sbuf[u] /\ b = up[u] /\ e = <<>> /\ m = Meant(u)
      OBVIOUS
    <3>3. UpIs(h, e, m, s, b, e)
      BY <1>2, <3>2 DEF Inv, UpOk
    <3>4. UpIs(h, line, Cat(m, Commands(line)), s, b, e)
      BY <1>5, <3>1, <3>2, <3>3, TypeUp
    <3>5. UpIs(h, rest, Cat(m, Commands(line)), s, b, ToProto(piece))
      BY <1>5, <1>6, <3>1, <3>2, <3>4, FgetsUp
    <3>6. Meant(u)' = Cat(m, Commands(line))
      <4>1. PICK q : q = Typed(u)
        OBVIOUS
      <4>2. q \in Texts /\ Typed(u)' = Append(q, line)
        <5>1. PICK k, n : k = script.types[u] /\ n = typed[u]
          OBVIOUS
        <5>2. k \in Seq(TypedLine) /\ n \in Nat /\ n < Len(k) /\ line = k[n + 1]
          BY <1>1, <1>2, <1>3, <5>1
        <5>3. Typed(u)' = SubSeq(k, 1, n + 1)
          BY <1>2, <1>3, <5>1 DEF Typed
        <5>4. q = SubSeq(k, 1, n)
          BY <4>1, <5>1 DEF Typed
        <5>5. SubSeq(k, 1, n + 1) = Append(SubSeq(k, 1, n), k[n + 1])
          BY <5>2
        <5>6. q \in Seq(TypedLine)
          BY <5>2, <5>4, Split
        <5>7. TypedLine \subseteq Strings
          BY TypedIs
        <5>8. q \in Texts
          BY <5>6, <5>7, SeqMonotonic DEF Texts
        <5> QED
          BY <5>2, <5>3, <5>4, <5>5, <5>8
      <4>3. AllCommands(Append(q, line)) = Cat(AllCommands(q), Commands(line))
        BY <1>5, <4>2, AllCommandsAre
      <4>4. m = AllCommands(q)
        BY <3>2, <4>1, Zenon DEF Meant, AllCommands, CommandsOf
      <4>5. Meant(u)' = AllCommands(Typed(u)')
        BY Zenon DEF Meant, AllCommands, CommandsOf
      <4> QED
        BY <4>2, <4>3, <4>4, <4>5
    <3>7. kbd'[u] = rest /\ csend'[u] = ToProto(piece)
      BY <1>2 DEF Inv, UpTypes
    <3> QED
      BY <1>2, <2>1, <3>2, <3>5, <3>6, <3>7 DEF UpOk
  <2>2. CASE v # u
    <3>1. typed'[v] = typed[v] /\ kbd'[v] = kbd[v] /\ csend'[v] = csend[v]
      BY <1>2, <2>2 DEF Inv, UpTypes, KeysOk
    <3> QED
      BY <1>2, <3>1, SameUp DEF Inv
  <2> QED
    BY <2>1, <2>2
<1>11. ASSUME NEW v \in Users PROVE DownOk(v)'
  BY <1>2, SameDown DEF Inv
<1> QED
  BY <1>7, <1>8, <1>9, <1>10, <1>11 DEF Inv

\* fgets goes on with the rest of a line.
LEMMA FgetsRestStep ==
  ASSUME Inv, NEW u \in Users, FgetsRest(u)
  PROVE  Inv'
<1>1. PICK line, piece, rest :
        /\ line = kbd[u] /\ piece = FirstPiece(line)
        /\ rest = SubSeq(line, Len(piece) + 1, Len(line))
  OBVIOUS
<1>2. /\ kbd[u] # <<>> /\ csend[u] = <<>>
      /\ kbd' = [kbd EXCEPT ![u] = rest] /\ csend' = [csend EXCEPT ![u] = ToProto(piece)]
      /\ typed' = typed
      /\ script' = script /\ up' = up /\ down' = down /\ sbuf' = sbuf /\ cbuf' = cbuf
      /\ job' = job /\ notices' = notices /\ heard' = heard /\ sent' = sent /\ got' = got
      /\ mixed' = mixed
  BY <1>1 DEF FgetsRest
<1>5. line \in Strings /\ Len(line) > 0 /\ OnlyLast(line)
  <2>1. line \in Texting
    BY <1>1 DEF Inv, UpTypes
  <2>2. line \in Strings /\ OnlyLast(line)
    BY <2>1 DEF Texting
  <2>3. line # <<>>
    BY <1>1, <1>2
  <2>4. Len(line) > 0
    BY <2>2, <2>3 DEF Strings
  <2> QED
    BY <2>2, <2>4
<1>6. Fgets(piece, rest, line) /\ rest \in Texting /\ ToProto(piece) \in Line
  BY <1>1, <1>5, Fetched
<1>7. KeysOk'
  BY <1>2 DEF Inv, KeysOk
<1>8. UpTypes'
  BY <1>2, <1>6 DEF Inv, UpTypes
<1>9. DownTypes' /\ JobTypes'
  BY <1>2 DEF Inv, DownTypes, JobTypes
<1>10. ASSUME NEW v \in Users PROVE UpOk(v)'
  <2>1. CASE v = u
    <3>1. /\ heard[u] \in Texts /\ sbuf[u] \in Strings /\ up[u] \in Strings
      BY SetsAre DEF Inv, UpTypes, Parts
    <3>2. PICK h, s, b, m : h = heard[u] /\ s = sbuf[u] /\ b = up[u] /\ m = Meant(u)
      OBVIOUS
    <3>3. UpIs(h, line, m, s, b, <<>>)
      BY <1>1, <1>2, <3>2 DEF Inv, UpOk
    <3>5. UpIs(h, rest, m, s, b, ToProto(piece))
      BY <1>5, <1>6, <3>1, <3>2, <3>3, FgetsUp
    <3>6. Meant(u)' = m
      BY <1>2, <3>2 DEF Meant, Typed
    <3>7. kbd'[u] = rest /\ csend'[u] = ToProto(piece)
      BY <1>2 DEF Inv, UpTypes
    <3> QED
      BY <1>2, <2>1, <3>2, <3>5, <3>6, <3>7 DEF UpOk
  <2>2. CASE v # u
    <3>1. kbd'[v] = kbd[v] /\ csend'[v] = csend[v]
      BY <1>2, <2>2 DEF Inv, UpTypes
    <3> QED
      BY <1>2, <3>1, SameUp DEF Inv
  <2> QED
    BY <2>1, <2>2
<1>11. ASSUME NEW v \in Users PROVE DownOk(v)'
  BY <1>2, SameDown DEF Inv
<1> QED
  BY <1>7, <1>8, <1>9, <1>10, <1>11 DEF Inv

\* As much as there is room for.
Puts(b, l, n) ==
  /\ n \in Nat /\ n <= Len(l) /\ Len(l) \in Nat
  /\ SubSeq(l, 1, n) \in Strings /\ SubSeq(l, n + 1, Len(l)) \in Strings
  /\ Len(SubSeq(l, n + 1, Len(l))) = Len(l) - n
  /\ Cat(b, SubSeq(l, 1, n)) \in Wire

\* It fits on the wire.
LEMMA RoomIs ==
  ASSUME NEW b \in Wire, NEW l \in Strings, Room(b, l) > 0
  PROVE  Puts(b, l, Room(b, l))
<1>0. PICK n, x, y : /\ n = Room(b, l) /\ x = SubSeq(l, 1, n)
                     /\ y = SubSeq(l, n + 1, Len(l))
  OBVIOUS
<1>1. b \in Strings /\ Len(b) <= Cap /\ Len(b) \in Nat /\ Cap \in Nat /\ Len(l) \in Nat
  BY SetsAre, Sizes DEF Strings
<1>2. n \in Nat /\ n <= Len(l) /\ Len(b) + n <= Cap
  BY <1>0, <1>1 DEF Room
<1>3. x \in Strings /\ y \in Strings /\ Len(x) = n /\ Len(y) = Len(l) - n
  BY <1>0, <1>2, Split DEF Strings
<1>4. Cat(b, x) \in Strings /\ Joins(Cat(b, x), b, x)
  BY <1>1, <1>3, CatIs DEF Strings
<1>5. Cat(b, x) \in Wire
  BY <1>2, <1>3, <1>4, SetsAre DEF Joins
<1> QED
  BY <1>0, <1>1, <1>2, <1>3, <1>5, Zenon DEF Puts

\* send_full puts some of a command on the wire.
LEMMA ClientPutStep ==
  ASSUME Inv, NEW u \in Users, ClientPut(u)
  PROVE  Inv'
<1>1. PICK b, c, n, x, y :
        /\ b = up[u] /\ c = csend[u] /\ n = Room(b, c)
        /\ x = SubSeq(c, 1, n) /\ y = SubSeq(c, n + 1, Len(c))
  OBVIOUS
<1>2. /\ n > 0
      /\ up' = [up EXCEPT ![u] = Cat(b, x)] /\ csend' = [csend EXCEPT ![u] = y]
      /\ typed' = typed /\ kbd' = kbd
      /\ script' = script /\ down' = down /\ sbuf' = sbuf /\ cbuf' = cbuf
      /\ job' = job /\ notices' = notices /\ heard' = heard /\ sent' = sent /\ got' = got
      /\ mixed' = mixed
  BY <1>1, Zenon DEF ClientPut, Cat
<1>3. b \in Wire /\ c \in Line
  BY <1>1 DEF Inv, UpTypes
<1>4. b \in Strings /\ c \in Strings /\ Len(c) <= MaxMsg - 1 /\ Len(c) \in Nat
  BY <1>3, SetsAre
<1>5. /\ n \in Nat /\ n <= Len(c)
      /\ x \in Strings /\ y \in Strings /\ Len(y) = Len(c) - n
      /\ Cat(b, x) \in Wire
  <2>1. Puts(b, c, n)
    BY <1>1, <1>2, <1>3, <1>4, RoomIs
  <2> QED
    BY <1>1, <2>1 DEF Puts
<1>6. y \in Line
  BY <1>4, <1>5, SetsAre, Sizes
<1>7. KeysOk' /\ DownTypes' /\ JobTypes'
  BY <1>2 DEF Inv, KeysOk, DownTypes, JobTypes
<1>8. UpTypes'
  BY <1>2, <1>5, <1>6 DEF Inv, UpTypes
<1>9. ASSUME NEW v \in Users PROVE UpOk(v)'
  <2>1. CASE v = u
    <3>1. PICK h, s, k, m : h = heard[u] /\ s = sbuf[u] /\ k = kbd[u] /\ m = Meant(u)
      OBVIOUS
    <3>2. s \in Strings
      BY <3>1 DEF Inv, UpTypes, Parts
    <3>3. UpIs(h, k, m, s, b, c)
      BY <1>1, <3>1 DEF Inv, UpOk
    <3>4. UpIs(h, k, m, s, Cat(b, x), y)
      BY <1>1, <1>4, <1>5, <3>2, <3>3, PutUp
    <3>5. Meant(u)' = m
      BY <1>2, <3>1 DEF Meant, Typed
    <3>6. up'[u] = Cat(b, x) /\ csend'[u] = y
      BY <1>2 DEF Inv, UpTypes
    <3> QED
      BY <1>2, <2>1, <3>1, <3>4, <3>5, <3>6 DEF UpOk
  <2>2. CASE v # u
    <3>1. up'[v] = up[v] /\ csend'[v] = csend[v]
      BY <1>2, <2>2 DEF Inv, UpTypes
    <3> QED
      BY <1>2, <3>1, SameUp DEF Inv
  <2> QED
    BY <2>1, <2>2
<1>10. ASSUME NEW v \in Users PROVE DownOk(v)'
  BY <1>2, SameDown DEF Inv
<1> QED
  BY <1>7, <1>8, <1>9, <1>10 DEF Inv

\* Lines nothing has been sent of are a job.
LEMMA FreshJobs ==
  ASSUME NEW q \in Seq(Fresh(Users))
  PROVE  q \in Jobs /\ (Len(q) > 0 => ~Head(q).begun)
<1>1. ASSUME NEW j \in Fresh(Users) PROVE j \in Unsent /\ ~j.begun
  <2>1. j.to \in Users /\ j.line \in Strings /\ Sendable(j.line) /\ j.begun = FALSE
        /\ j \in [to : Users, line : Strings, begun : BOOLEAN]
    BY DEF Fresh
  <2> QED
    BY <2>1 DEF Unsent, Sendable
<1>2. Fresh(Users) \subseteq Unsent
  BY <1>1
<1>3. q \in Seq(Unsent)
  BY <1>2, SeqMonotonic
<1>4. PICK S : S = Fresh(Users)
  OBVIOUS
<1>5. Len(q) > 0 => Head(q) \in S /\ Tail(q) \in Seq(S)
  BY <1>4
<1> QED
  BY <1>1, <1>3, <1>4, <1>5 DEF Jobs

\* A sender that had nothing to send gets a job.
LEMMA NewJob ==
  ASSUME JobTypes, NEW p \in Senders, Len(job[p]) = 0, NEW q, q \in Jobs,
         Len(q) > 0 => ~Head(q).begun,
         job' = [job EXCEPT ![p] = q],
         NEW u \in Users, DownOk(u),
         mixed' = mixed, sent' = sent, got' = got, cbuf' = cbuf, down' = down
  PROVE  DownOk(u)'
<1>1. ASSUME NEW z \in Senders
      PROVE  /\ InLineTo(z, u)' <=> InLineTo(z, u)
             /\ InLineTo(z, u) => job'[z] = job[z]
  <2>1. CASE z = p
    <3>1. job'[z] = q
      BY <2>1 DEF JobTypes
    <3>2. job[z] = <<>>
      BY <2>1 DEF JobTypes, Jobs
    <3>3. q # <<>> => Len(q) > 0
      BY DEF Jobs
    <3>4. ~InLineTo(z, u)
      BY <3>2 DEF InLineTo
    <3>5. ~InLineTo(z, u)'
      BY <3>1, <3>3 DEF InLineTo
    <3> QED
      BY <3>4, <3>5
  <2>2. CASE z # p
    <3>1. job'[z] = job[z]
      BY <2>2 DEF JobTypes
    <3> QED
      BY <3>1 DEF InLineTo
  <2> QED
    BY <2>1, <2>2
<1>2. ASSUME NEW left, MiddleOf(u, left) PROVE MiddleOf(u, left)'
  <2>1. \A z \in Senders : InLineTo(z, u)' => Head(job'[z]).line = left
    BY <1>1, <1>2 DEF MiddleOf
  <2>2. \A z, y \in Senders : InLineTo(z, u)' /\ InLineTo(y, u)' => z = y
    BY <1>1, <1>2 DEF MiddleOf
  <2>3. (\E z \in Senders : InLineTo(z, u)') \/ left = <<>>
    BY <1>1, <1>2 DEF MiddleOf
  <2> QED
    BY <2>1, <2>2, <2>3 DEF MiddleOf
<1> QED
  BY <1>2 DEF DownOk

\* What recv_line reads.
Gets(b, n, line) ==
  /\ n \in Nat /\ n <= Len(b) /\ line \in Strings /\ Len(line) <= MaxMsg - 1
  /\ ~Complete(line) => line \in Parts
  /\ SubSeq(b, n + 1, Len(b)) \in Wire

\* It leaves what it has not taken.
LEMMA GetsIs ==
  ASSUME NEW s \in Parts, NEW b \in Wire, Len(b) > 0
  PROVE  Gets(b, Taken(s, b), Read(s, b, Taken(s, b)))
<1>1. b \in Strings /\ Len(b) <= Cap /\ Len(b) \in Nat /\ Open(s) /\ s \in Strings
  BY SetsAre DEF Parts
<1>2. PICK n, line : n = Taken(s, b) /\ line = Read(s, b, n)
  OBVIOUS
<1>3. /\ n \in 1 .. Len(b) /\ line \in Seq(Symbols) /\ Len(line) <= MaxMsg - 1
      /\ ~Complete(line) => Open(line)
  BY <1>1, <1>2, Reading DEF Strings
<1>4. n \in Nat /\ n <= Len(b)
  BY <1>1, <1>3
<1>5. SubSeq(b, n + 1, Len(b)) \in Strings /\ Len(SubSeq(b, n + 1, Len(b))) = Len(b) - n
  BY <1>1, <1>4, Split DEF Strings
<1>6. Len(b) - n <= Cap
  BY <1>1, <1>4, Sizes
<1>7. SubSeq(b, n + 1, Len(b)) \in Wire
  BY <1>5, <1>6, SetsAre
<1> QED
  BY <1>2, <1>3, <1>4, <1>7 DEF Gets, Parts, Strings

\* The thread of u reads, and begins to answer a whole command.
LEMMA ServerGetStep ==
  ASSUME Inv, NEW u \in Users, ServerGet(u)
  PROVE  Inv'
<1>1. PICK b, s, n, line, rest :
        /\ b = up[u] /\ s = sbuf[u] /\ n = Taken(s, b) /\ line = Read(s, b, n)
        /\ rest = SubSeq(b, n + 1, Len(b))
  OBVIOUS
<1>2. /\ job[u] = <<>> /\ b # <<>>
      /\ up' = [up EXCEPT ![u] = rest]
      /\ \/ /\ Complete(line)
            /\ sbuf' = [sbuf EXCEPT ![u] = <<>>]
            /\ heard' = [heard EXCEPT ![u] = Append(@, line)]
            /\ job' = [job EXCEPT ![u] = Modelled[Handle(u, line)]]
         \/ /\ ~Complete(line)
            /\ sbuf' = [sbuf EXCEPT ![u] = line]
            /\ heard' = heard /\ job' = job
      /\ typed' = typed /\ kbd' = kbd /\ csend' = csend
      /\ script' = script /\ down' = down /\ cbuf' = cbuf
      /\ notices' = notices /\ sent' = sent /\ got' = got /\ mixed' = mixed
  <2>1. line = sbuf[u] \o SubSeq(up[u], 1, Taken(sbuf[u], up[u]))
    BY <1>1, Zenon DEF Read, Cat
  <2> QED
    BY <1>1, <2>1 DEF ServerGet, client
<1>3. b \in Wire /\ s \in Parts /\ heard[u] \in Seq(Line) /\ csend[u] \in Strings
  BY <1>1, SetsAre DEF Inv, UpTypes
<1>4. b \in Strings /\ Len(b) > 0 /\ Open(s) /\ s \in Strings
  <2>1. b \in Strings
    BY <1>3, SetsAre
  <2> QED
    BY <1>2, <1>3, <2>1 DEF Strings, Parts
<1>5. Gets(b, n, line)
  BY <1>1, <1>3, <1>4, GetsIs
<1>6. /\ rest \in Wire /\ line \in Line /\ line \in Strings
      /\ ~Complete(line) => line \in Parts
  BY <1>1, <1>5, SetsAre DEF Gets
<1>7. PICK h, k, m, c : h = heard[u] /\ k = kbd[u] /\ m = Meant(u) /\ c = csend[u]
  OBVIOUS
<1>8. h \in Texts /\ c \in Strings /\ UpIs(h, k, m, s, b, c)
  BY <1>1, <1>3, <1>7, SetsAre DEF Inv, UpOk
<1>9. /\ Complete(line) => Command(line) /\ UpIs(Append(h, line), k, m, <<>>, rest, c)
      /\ UpIs(h, k, m, line, rest, c)
  BY <1>1, <1>4, <1>8, GetUp
<1>10. KeysOk' /\ DownTypes'
  BY <1>2 DEF Inv, KeysOk, DownTypes
<1>11. u \in Senders /\ Len(job[u]) = 0
  BY <1>2 DEF Senders
<1>12. CASE Complete(line)
  <2>1. PICK q : q = Modelled[Handle(u, line)]
    OBVIOUS
  <2>2. q \in Jobs /\ (Len(q) > 0 => ~Head(q).begun)
    BY <1>9, <1>12, <2>1, ModelledIs, FreshJobs
  <2>3. JobTypes'
    BY <1>2, <1>11, <1>12, <2>1, <2>2 DEF Inv, JobTypes
  <2>4. Append(h, line) \in Seq(Line)
    BY <1>3, <1>6, <1>7
  <2>5. UpTypes'
    BY <1>2, <1>6, <1>7, <1>12, <2>4, SetsAre DEF Inv, UpTypes
  <2>6. ASSUME NEW v \in Users PROVE UpOk(v)'
    <3>1. CASE v = u
      <4>1. Meant(u)' = m
        BY <1>2, <1>7 DEF Meant, Typed
      <4>2. heard'[u] = Append(h, line) /\ sbuf'[u] = <<>> /\ up'[u] = rest
        BY <1>2, <1>7, <1>12 DEF Inv, UpTypes
      <4> QED
        BY <1>2, <1>7, <1>9, <1>12, <3>1, <4>1, <4>2 DEF UpOk
    <3>2. CASE v # u
      <4>1. heard'[v] = heard[v] /\ sbuf'[v] = sbuf[v] /\ up'[v] = up[v]
        BY <1>2, <1>12, <3>2 DEF Inv, UpTypes
      <4> QED
        BY <1>2, <4>1, SameUp DEF Inv
    <3> QED
      BY <3>1, <3>2
  <2>7. ASSUME NEW v \in Users PROVE DownOk(v)'
    <3>1. job' = [job EXCEPT ![u] = q] /\ DownOk(v) /\ JobTypes
      BY <1>2, <1>12, <2>1 DEF Inv
    <3> QED
      BY <1>2, <1>11, <2>2, <3>1, NewJob
  <2> QED
    BY <1>10, <2>3, <2>5, <2>6, <2>7 DEF Inv
<1>13. CASE ~Complete(line)
  <2>1. JobTypes'
    BY <1>2, <1>13 DEF Inv, JobTypes
  <2>2. UpTypes'
    BY <1>2, <1>6, <1>13 DEF Inv, UpTypes
  <2>3. ASSUME NEW v \in Users PROVE UpOk(v)'
    <3>1. CASE v = u
      <4>1. Meant(u)' = m
        BY <1>2, <1>7 DEF Meant, Typed
      <4>2. heard'[u] = h /\ sbuf'[u] = line /\ up'[u] = rest
        BY <1>2, <1>7, <1>13 DEF Inv, UpTypes
      <4> QED
        BY <1>2, <1>7, <1>9, <3>1, <4>1, <4>2 DEF UpOk
    <3>2. CASE v # u
      <4>1. heard'[v] = heard[v] /\ sbuf'[v] = sbuf[v] /\ up'[v] = up[v]
        BY <1>2, <1>13, <3>2 DEF Inv, UpTypes
      <4> QED
        BY <1>2, <4>1, SameUp DEF Inv
    <3> QED
      BY <3>1, <3>2
  <2>4. ASSUME NEW v \in Users PROVE DownOk(v)'
    BY <1>2, <1>13, SameDown DEF Inv
  <2> QED
    BY <1>10, <2>1, <2>2, <2>3, <2>4 DEF Inv
<1> QED
  BY <1>12, <1>13

\* The monitor begins a notice.
LEMMA NotifyStep ==
  ASSUME Inv, NEW u \in Users, Notify(u)
  PROVE  Inv'
<1>1. PICK q : q = << To(u, Build(<< <<"STATUS_CHANGED">>, u, <<"INACTIVO">> >>)) >>
  OBVIOUS
<1>2. /\ job[Monitor] = <<>> /\ notices < Len(script.idle) /\ notices' = notices + 1
      /\ job' = [job EXCEPT ![Monitor] = q]
      /\ script' = script /\ typed' = typed /\ kbd' = kbd /\ csend' = csend
      /\ up' = up /\ down' = down /\ sbuf' = sbuf /\ cbuf' = cbuf
      /\ heard' = heard /\ sent' = sent /\ got' = got /\ mixed' = mixed
  BY <1>1 DEF Notify, client
<1>3. q \in Jobs /\ (Len(q) > 0 => ~Head(q).begun)
  BY <1>1, NoticeIs, FreshJobs
<1>4. Monitor \in Senders /\ Len(job[Monitor]) = 0
  BY <1>2 DEF Senders
<1>5. UpTypes' /\ DownTypes'
  BY <1>2 DEF Inv, UpTypes, DownTypes
<1>6. JobTypes'
  BY <1>2, <1>3, <1>4 DEF Inv, JobTypes
<1>7. KeysOk'
  <2>1. Len(script.idle) \in Nat
    BY ScriptsAssumption DEF Inv, KeysOk, AreScripts
  <2> QED
    BY <1>2, <2>1 DEF Inv, KeysOk
<1>8. ASSUME NEW v \in Users PROVE UpOk(v)'
  BY <1>2, SameUp DEF Inv
<1>9. ASSUME NEW v \in Users PROVE DownOk(v)'
  <2>1. DownOk(v) /\ JobTypes
    BY DEF Inv
  <2> QED
    BY <1>2, <1>3, <1>4, <2>1, NewJob
<1> QED
  BY <1>5, <1>6, <1>7, <1>8, <1>9 DEF Inv

\* The receiver reads.
LEMMA ClientGetStep ==
  ASSUME Inv, NEW u \in Users, ClientGet(u)
  PROVE  Inv'
<1>1. PICK b, s, n, line, rest :
        /\ b = down[u] /\ s = cbuf[u] /\ n = Taken(s, b) /\ line = Read(s, b, n)
        /\ rest = SubSeq(b, n + 1, Len(b))
  OBVIOUS
<1>2. /\ b # <<>>
      /\ down' = [down EXCEPT ![u] = rest]
      /\ \/ /\ Complete(line)
            /\ cbuf' = [cbuf EXCEPT ![u] = <<>>]
            /\ got' = [got EXCEPT ![u] = Append(@, line)]
         \/ /\ ~Complete(line)
            /\ cbuf' = [cbuf EXCEPT ![u] = line]
            /\ got' = got
      /\ typed' = typed /\ kbd' = kbd /\ csend' = csend /\ job' = job
      /\ script' = script /\ up' = up /\ sbuf' = sbuf /\ heard' = heard
      /\ notices' = notices /\ sent' = sent /\ mixed' = mixed
  <2>1. line = cbuf[u] \o SubSeq(down[u], 1, Taken(cbuf[u], down[u]))
    BY <1>1, Zenon DEF Read, Cat
  <2> QED
    BY <1>1, <2>1 DEF ClientGet, client
<1>3. b \in Wire /\ s \in Parts /\ got[u] \in Seq(Line)
  BY <1>1 DEF Inv, DownTypes
<1>4. b \in Strings /\ Len(b) > 0 /\ Open(s) /\ s \in Strings
  <2>1. b \in Strings
    BY <1>3, SetsAre
  <2> QED
    BY <1>2, <1>3, <2>1 DEF Strings, Parts
<1>5. Gets(b, n, line)
  BY <1>1, <1>3, <1>4, GetsIs
<1>6. /\ rest \in Wire /\ line \in Line /\ line \in Strings
      /\ ~Complete(line) => line \in Parts
  BY <1>1, <1>5, SetsAre DEF Gets
<1>7. PICK A, g : A = AllLines(sent[u]) /\ g = got[u]
  OBVIOUS
<1>8. g \in Texts /\ g \in Seq(Line)
  BY <1>3, <1>7, SetsAre
<1>9. KeysOk' /\ UpTypes' /\ JobTypes'
  BY <1>2 DEF Inv, KeysOk, UpTypes, JobTypes
<1>10. DownTypes'
  <2>1. Append(g, line) \in Seq(Line)
    BY <1>6, <1>8
  <2>2. CASE Complete(line)
    BY <1>2, <1>6, <1>7, <2>1, <2>2, SetsAre DEF Inv, DownTypes
  <2>3. CASE ~Complete(line)
    BY <1>2, <1>6, <2>3 DEF Inv, DownTypes
  <2> QED
    BY <2>2, <2>3
<1>11. ASSUME NEW v \in Users PROVE UpOk(v)'
  BY <1>2, SameUp DEF Inv
<1>12. ASSUME NEW v \in Users PROVE DownOk(v)'
  <2>1. CASE v # u
    <3>1. down'[v] = down[v] /\ cbuf'[v] = cbuf[v] /\ got'[v] = got[v]
      BY <1>2, <2>1 DEF Inv, DownTypes
    <3> QED
      BY <1>2, <3>1, SameDown DEF Inv
  <2>2. CASE v = u
    <3> SUFFICES ASSUME ~mixed'[u]
                 PROVE  \E left \in Strings :
                          /\ MiddleOf(u, left)'
                          /\ DownIs(AllLines(sent'[u]), got'[u], cbuf'[u], down'[u], left)
      BY <2>2 DEF DownOk
    <3>1. PICK left \in Strings :
            MiddleOf(u, left) /\ DownIs(A, g, s, b, left)
      BY <1>1, <1>2, <1>7 DEF Inv, DownOk
    <3>2. /\ Complete(line) => DownIs(A, Append(g, line), <<>>, rest, left)
          /\ DownIs(A, g, line, rest, left)
      BY <1>1, <1>4, <1>8, <3>1, GetDown
    <3>3. MiddleOf(u, left)'
      BY <1>2, <3>1 DEF MiddleOf, InLineTo
    <3>4. AllLines(sent'[u]) = A /\ down'[u] = rest
      BY <1>2, <1>7 DEF Inv, DownTypes
    <3>5. CASE Complete(line)
      <4>1. got'[u] = Append(g, line) /\ cbuf'[u] = <<>>
        BY <1>2, <1>7, <3>5 DEF Inv, DownTypes
      <4> QED
        BY <3>2, <3>3, <3>4, <3>5, <4>1
    <3>6. CASE ~Complete(line)
      <4>1. got'[u] = g /\ cbuf'[u] = line
        BY <1>2, <1>7, <3>6 DEF Inv, DownTypes
      <4> QED
        BY <3>2, <3>3, <3>4, <4>1
    <3> QED
      BY <3>5, <3>6
  <2> QED
    BY <2>1, <2>2
<1> QED
  BY <1>9, <1>10, <1>11, <1>12 DEF Inv

\* One in front of the others.
LEMMA InFront ==
  ASSUME NEW S, NEW a \in S, NEW w \in Seq(S)
  PROVE  /\ <<a>> \o w \in Seq(S) /\ Len(<<a>> \o w) > 0
         /\ Head(<<a>> \o w) = a /\ Tail(<<a>> \o w) = w
OBVIOUS

\* The job r whose first line, to t, has been sent but for y.
Remains(r, t, y) ==
  /\ r \in Jobs
  /\ Len(y) = 0 => (Len(r) > 0 => ~Head(r).begun)
  /\ Len(y) > 0 => Len(r) > 0 /\ Head(r).begun /\ Head(r).to = t /\ Head(r).line = y

\* What is left of a job when its first line has been sent in part.
LeftOf(q, y) ==
  LET left == [Head(q) EXCEPT !.begun = TRUE, !.line = y]
  IN  IF left.line = <<>> THEN Tail(q) ELSE <<left>> \o Tail(q)

\* The lines of a job.
LEMMA JobIs ==
  ASSUME NEW q \in Jobs, Len(q) > 0
  PROVE  Head(q) \in Unsent /\ Tail(q) \in Seq(Fresh(Users))
<1>1. PICK S : S = Unsent
  OBVIOUS
<1>2. q \in Seq(S) /\ Tail(q) \in Seq(Fresh(Users))
  BY <1>1 DEF Jobs
<1>3. Head(q) \in S
  BY <1>2
<1> QED
  BY <1>1, <1>2, <1>3

\* Its first line has been begun, or is gone.
LEMMA LeftJob ==
  ASSUME NEW q \in Jobs, Len(q) > 0, NEW y \in Strings, Len(y) <= MaxMsg - 1
  PROVE  Head(q) \in Unsent /\ Remains(LeftOf(q, y), Head(q).to, y)
<1>0. PICK now, left, w, r :
        /\ now = Head(q) /\ left = [now EXCEPT !.begun = TRUE, !.line = y]
        /\ w = Tail(q) /\ r = LeftOf(q, y)
  OBVIOUS
<1>1. now \in Unsent /\ w \in Seq(Fresh(Users))
  BY <1>0, JobIs
<1>2. now \in [to : Users, line : Strings, begun : BOOLEAN]
  BY <1>1 DEF Unsent
<1>3. /\ left \in [to : Users, line : Strings, begun : BOOLEAN]
      /\ left.to = now.to /\ left.line = y /\ left.begun = TRUE
  BY <1>0, <1>2
<1>4. r = IF left.line = <<>> THEN w ELSE <<left>> \o w
  BY <1>0, Zenon DEF LeftOf
<1>5. w \in Jobs /\ (Len(w) > 0 => ~Head(w).begun)
  BY <1>1, FreshJobs
<1>6. CASE Len(y) = 0
  <2>1. y = <<>>
    BY <1>6 DEF Strings
  <2>2. r = w
    BY <1>3, <1>4, <2>1
  <2>3. Remains(r, now.to, y)
    BY <1>5, <1>6, <2>2 DEF Remains
  <2> QED
    BY <1>0, <1>1, <2>3
<1>7. CASE Len(y) > 0
  <2>1. y # <<>>
    BY <1>7
  <2>2. r = <<left>> \o w
    BY <1>3, <1>4, <2>1
  <2>3. left \in Unsent
    BY <1>3, <1>7 DEF Unsent
  <2>4. w \in Seq(Unsent)
    BY <1>5 DEF Jobs
  <2>5. r \in Seq(Unsent) /\ Len(r) > 0 /\ Head(r) = left /\ Tail(r) = w
    BY <2>2, <2>3, <2>4, InFront
  <2>6. r \in Jobs
    BY <1>1, <2>5 DEF Jobs
  <2>7. Remains(r, now.to, y)
    BY <1>3, <1>7, <2>5, <2>6 DEF Remains
  <2> QED
    BY <1>0, <1>1, <2>7
<1>8. Len(y) \in Nat
  BY DEF Strings
<1> QED
  BY <1>6, <1>7, <1>8

\* A thread of the server puts some of a line on the wire.
LEMMA ServerPutStep ==
  ASSUME Inv, NEW p \in Senders, ServerPut(p)
  PROVE  Inv'
<1>1. PICK q, now, t, l, b, n, x, y, left, r :
        /\ q = job[p] /\ now = Head(q) /\ t = now.to /\ l = now.line /\ b = down[t]
        /\ n = Room(b, l) /\ x = SubSeq(l, 1, n) /\ y = SubSeq(l, n + 1, Len(l))
        /\ left = [now EXCEPT !.begun = TRUE, !.line = y]
        /\ r = IF left.line = <<>> THEN Tail(q) ELSE <<left>> \o Tail(q)
  OBVIOUS
<1>2. q \in Jobs /\ q # <<>> /\ n > 0
  BY <1>1, Zenon DEF Inv, JobTypes, ServerPut
<1>3. Len(q) > 0
  BY <1>2 DEF Jobs
<1>4. now \in Unsent
  BY <1>1, <1>2, <1>3, JobIs
<1>5. /\ t \in Users /\ l \in Strings /\ Len(l) > 0 /\ Len(l) <= MaxMsg - 1
      /\ now.begun \in BOOLEAN /\ (~now.begun => Sendable(l))
  BY <1>1, <1>4 DEF Unsent
<1>6. b \in Wire /\ b \in Strings
  BY <1>1, <1>5, SetsAre DEF Inv, DownTypes
<1>7. Puts(b, l, n)
  BY <1>1, <1>2, <1>5, <1>6, RoomIs
<1>8. /\ n \in Nat /\ n <= Len(l) /\ Len(l) \in Nat /\ x \in Strings /\ y \in Strings
      /\ Len(y) = Len(l) - n /\ Cat(b, x) \in Wire
  BY <1>1, <1>7 DEF Puts
<1>9. Len(y) <= MaxMsg - 1 /\ Len(y) \in Nat
  BY <1>5, <1>8, Sizes
<1>10. /\ r \in Jobs
       /\ Len(y) = 0 => (Len(r) > 0 => ~Head(r).begun)
       /\ Len(y) > 0 => Len(r) > 0 /\ Head(r).begun /\ Head(r).to = t /\ Head(r).line = y
  <2>1. r = LeftOf(q, y)
    BY <1>1, Zenon DEF LeftOf
  <2>2. Remains(r, t, y)
    BY <1>1, <1>2, <1>3, <1>8, <1>9, <2>1, LeftJob
  <2> QED
    BY <2>2 DEF Remains
<1>11. left.line = y
  BY <1>1, <1>4 DEF Unsent
<1>12. /\ down' = [down EXCEPT ![t] = Cat(b, x)]
       /\ job' = [job EXCEPT ![p] = r]
       /\ sent' = IF now.begun THEN sent ELSE [sent EXCEPT ![t] = Append(@, l)]
       /\ mixed' = [mixed EXCEPT ![t] = @ \/ \E z \in Senders \ {p} : InLineTo(z, t)]
       /\ typed' = typed /\ kbd' = kbd /\ csend' = csend
       /\ script' = script /\ up' = up /\ sbuf' = sbuf /\ cbuf' = cbuf
       /\ notices' = notices /\ heard' = heard /\ got' = got
  <2>1. Cat(b, x) = down[t] \o SubSeq(now.line, 1, Room(down[t], now.line))
    BY <1>1, Zenon DEF Cat
  <2> QED
    BY <1>1, <2>1 DEF ServerPut, client
<1>13. KeysOk' /\ UpTypes'
  BY <1>12 DEF Inv, KeysOk, UpTypes
<1>14. JobTypes'
  BY <1>10, <1>12 DEF Inv, JobTypes
<1>15. l \in Line
  BY <1>5, SetsAre
<1>16. DownTypes'
  <2>1. down' \in [Users -> Wire]
    BY <1>8, <1>12 DEF Inv, DownTypes
  <2>2. sent' \in [Users -> Seq(Line)]
    <3>1. CASE now.begun
      BY <1>12, <3>1 DEF Inv, DownTypes
    <3>2. CASE ~now.begun
      <4>1. Append(sent[t], l) \in Seq(Line)
        BY <1>5, <1>15 DEF Inv, DownTypes
      <4> QED
        BY <1>12, <3>2, <4>1 DEF Inv, DownTypes
    <3> QED
      BY <3>1, <3>2
  <2>3. mixed' \in [Users -> BOOLEAN]
    <3>1. PICK m \in BOOLEAN : m = (mixed[t] \/ \E z \in Senders \ {p} : InLineTo(z, t))
      BY Zenon
    <3>2. mixed' = [mixed EXCEPT ![t] = m]
      BY <1>12, <3>1, Zenon
    <3> QED
      BY <3>2 DEF Inv, DownTypes
  <2> QED
    BY <1>12, <2>1, <2>2, <2>3 DEF Inv, DownTypes
<1>17. ASSUME NEW v \in Users PROVE UpOk(v)'
  BY <1>12, SameUp DEF Inv
<1>18. job'[p] = r /\ \A z \in Senders \ {p} : job'[z] = job[z]
  BY <1>12 DEF Inv, JobTypes
<1>19. r # <<>> => Len(r) > 0
  BY <1>10 DEF Jobs
<1>20. ASSUME NEW v \in Users PROVE DownOk(v)'
  <2>1. \A z \in Senders \ {p} : InLineTo(z, v)' <=> InLineTo(z, v)
    BY <1>18 DEF InLineTo
  <2>2. CASE v # t
    <3>1. ~InLineTo(p, v)
      BY <1>1, <2>2 DEF InLineTo
    <3>2. ~InLineTo(p, v)'
      <4>1. CASE Len(y) = 0
        BY <1>10, <1>18, <1>19, <4>1 DEF InLineTo
      <4>2. CASE Len(y) > 0
        BY <1>10, <1>18, <2>2, <4>2 DEF InLineTo
      <4> QED
        BY <1>9, <4>1, <4>2
    <3>3. \A z \in Senders : /\ InLineTo(z, v)' <=> InLineTo(z, v)
                             /\ InLineTo(z, v) => job'[z] = job[z]
      BY <1>18, <2>1, <3>1, <3>2
    <3>4. ASSUME NEW rest, MiddleOf(v, rest) PROVE MiddleOf(v, rest)'
      BY <3>3, <3>4 DEF MiddleOf
    <3>5. down'[v] = down[v] /\ sent'[v] = sent[v] /\ (mixed'[v] <=> mixed[v])
      <4>1. down'[v] = down[v]
        BY <1>12, <2>2 DEF Inv, DownTypes
      <4>2. sent'[v] = sent[v]
        BY <1>12, <2>2 DEF Inv, DownTypes
      <4>3. mixed'[v] = mixed[v]
        BY <1>12, <2>2 DEF Inv, DownTypes
      <4> QED
        BY <4>1, <4>2, <4>3
    <3> SUFFICES ASSUME ~mixed'[v]
                 PROVE  \E rest \in Strings :
                          /\ MiddleOf(v, rest)'
                          /\ DownIs(AllLines(sent'[v]), got'[v], cbuf'[v], down'[v], rest)
      BY DEF DownOk
    <3>6. PICK rest \in Strings :
            MiddleOf(v, rest) /\ DownIs(AllLines(sent[v]), got[v], cbuf[v], down[v], rest)
      BY <3>5 DEF Inv, DownOk
    <3>7. DownIs(AllLines(sent'[v]), got'[v], cbuf'[v], down'[v], rest)
      BY <1>12, <3>5, <3>6
    <3> QED
      BY <3>4, <3>6, <3>7
  <2>3. CASE v = t
    <3> SUFFICES ASSUME ~mixed'[t]
                 PROVE  \E rest \in Strings :
                          /\ MiddleOf(t, rest)'
                          /\ DownIs(AllLines(sent'[t]), got'[t], cbuf'[t], down'[t], rest)
      BY <2>3 DEF DownOk
    <3>1. ~mixed[t] /\ \A z \in Senders \ {p} : ~InLineTo(z, t)
      <4>1. mixed'[t] = (mixed[t] \/ \E z \in Senders \ {p} : InLineTo(z, t))
        BY <1>5, <1>12 DEF Inv, DownTypes
      <4> QED
        BY <4>1
    <3>2. PICK A, g, s : A = AllLines(sent[t]) /\ g = got[t] /\ s = cbuf[t]
      OBVIOUS
    <3>3. PICK rest \in Strings : MiddleOf(t, rest) /\ DownIs(A, g, s, b, rest)
      BY <1>1, <1>5, <3>1, <3>2 DEF Inv, DownOk
    <3>4. s \in Strings /\ g \in Texts /\ sent[t] \in Texts
      BY <1>5, <3>2, SetsAre DEF Inv, DownTypes, Parts
    <3>5. DownIs(AllLines(sent'[t]), g, s, b, l)
      <4>1. CASE now.begun
        <5>1. InLineTo(p, t)
          BY <1>1, <1>2, <4>1 DEF InLineTo
        <5>2. rest = l
          BY <1>1, <3>3, <5>1 DEF MiddleOf
        <5> QED
          BY <1>12, <3>2, <3>3, <4>1, <5>2
      <4>2. CASE ~now.begun
        <5>1. ~InLineTo(p, t)
          BY <1>1, <4>2 DEF InLineTo
        <5>2. rest = <<>>
          BY <3>1, <3>3, <5>1 DEF MiddleOf
        <5>3. A \in Texts /\ AllLines(Append(sent[t], l)) = Cat(A, Lines(l))
          BY <1>5, <3>2, <3>4, AllLinesAre
        <5>4. DownIs(Cat(A, Lines(l)), g, s, b, l)
          BY <1>5, <1>6, <3>3, <3>4, <4>2, <5>2, <5>3, BeginDown
        <5>5. sent'[t] = Append(sent[t], l)
          BY <1>5, <1>12, <4>2 DEF Inv, DownTypes
        <5> QED
          BY <5>3, <5>4, <5>5
      <4> QED
        BY <1>5, <4>1, <4>2
    <3>6. DownIs(AllLines(sent'[t]), g, s, Cat(b, x), y)
      BY <1>1, <1>5, <1>6, <1>8, <3>4, <3>5, PutDown
    <3>7. MiddleOf(t, y)'
      <4>1. \A z \in Senders \ {p} : ~InLineTo(z, t)'
        BY <2>1, <2>3, <3>1
      <4>2. CASE Len(y) = 0
        <5>1. ~InLineTo(p, t)'
          BY <1>10, <1>18, <1>19, <4>2 DEF InLineTo
        <5>2. y = <<>>
          BY <1>8, <4>2 DEF Strings
        <5> QED
          BY <4>1, <5>1, <5>2 DEF MiddleOf
      <4>3. CASE Len(y) > 0
        <5>1. InLineTo(p, t)' /\ Head(job'[p]).line = y
          <6>1. r # <<>>
            BY <1>10, <4>3
          <6> QED
            BY <1>10, <1>18, <4>3, <6>1 DEF InLineTo
        <5> QED
          BY <4>1, <5>1 DEF MiddleOf
      <4> QED
        BY <1>9, <4>2, <4>3
    <3>8. down'[t] = Cat(b, x) /\ got'[t] = g /\ cbuf'[t] = s
      BY <1>5, <1>12, <3>2 DEF Inv, DownTypes
    <3> QED
      BY <1>8, <3>6, <3>7, <3>8
  <2> QED
    BY <2>2, <2>3
<1> QED
  BY <1>13, <1>14, <1>16, <1>17, <1>20 DEF Inv

-----------------------------------------------------------------------------
(* Its proof.                                                              *)

\* Nothing has been typed or sent at first.
LEMMA InitInv == Init => Inv
<1> SUFFICES ASSUME Init PROVE Inv
  OBVIOUS
<1>1. PICK e : e = <<>>
  OBVIOUS
<1>2. /\ e \in Line /\ e \in Wire /\ e \in Parts /\ e \in Texting /\ e \in Strings
      /\ e \in Seq(Line) /\ e \in Texts
  BY <1>1, SetsAre, Singles DEF Texts
<1>3. /\ script \in Scripts
      /\ typed = [u \in Users |-> 0] /\ kbd = [u \in Users |-> e]
      /\ csend = [u \in Users |-> e] /\ up = [u \in Users |-> e]
      /\ down = [u \in Users |-> e] /\ sbuf = [u \in Users |-> e]
      /\ cbuf = [u \in Users |-> e] /\ job = [p \in Senders |-> e]
      /\ notices = 0 /\ heard = [u \in Users |-> e] /\ sent = [u \in Users |-> e]
      /\ got = [u \in Users |-> e] /\ mixed = [u \in Users |-> FALSE]
  BY <1>1 DEF Init
<1>4. KeysOk
  <2>1. \A u \in Users : Len(script.types[u]) \in Nat
    BY <1>3, ScriptsAssumption DEF AreScripts
  <2>2. Len(script.idle) \in Nat
    BY <1>3, ScriptsAssumption DEF AreScripts
  <2> QED
    BY <1>3, <2>1, <2>2 DEF KeysOk
<1>5. UpTypes /\ DownTypes
  BY <1>2, <1>3 DEF UpTypes, DownTypes
<1>6. JobTypes
  <2>1. e \in Jobs
    BY <1>1, FreshJobs, Singles
  <2> QED
    BY <1>3, <2>1 DEF JobTypes
<1>7. Stream(e, e, e) = e /\ Flat(e) = e
  <2>1. Cat(e, e) = e
    BY <1>1, <1>2, CatEmpty DEF Strings
  <2> QED
    BY <1>1, <1>2, <2>1, FlatIs DEF Stream
<1>8. ASSUME NEW u \in Users PROVE UpOk(u)
  <2>1. Typed(u) = e
    <3>1. script.types[u] \in Seq(TypedLine)
      BY <1>3, ScriptsAssumption DEF AreScripts
    <3>2. SubSeq(script.types[u], 1, 0) = e
      BY <1>1, <3>1
    <3> QED
      BY <1>3, <3>2 DEF Typed
  <2>2. Meant(u) = e
    <3>1. Meant(u) = AllCommands(Typed(u))
      BY Zenon DEF Meant, AllCommands, CommandsOf
    <3> QED
      BY <1>1, <1>2, <2>1, <3>1, AllCommandsAre
  <2>3. Commands(e) = e
    BY <1>1, <1>2, CommandsAre
  <2>4. Cat(e, e) = e
    BY <1>1, <1>2, CatEmpty DEF Strings
  <2>5. e \in Seq(Sent)
    BY <1>1, Singles
  <2>6. UpIs(e, e, e, e, e, e)
    BY <1>7, <2>3, <2>4, <2>5 DEF UpIs
  <2> QED
    BY <1>3, <2>2, <2>6 DEF UpOk
<1>9. ASSUME NEW u \in Users PROVE DownOk(u)
  <2>1. AllLines(e) = e
    BY <1>1, <1>2, AllLinesAre
  <2>2. Cat(e, e) = e
    BY <1>1, <1>2, CatEmpty DEF Strings
  <2>3. e \in Seq(Frames)
    BY <1>1, Singles
  <2>4. DownIs(e, e, e, e, e)
    BY <1>7, <2>2, <2>3 DEF DownIs
  <2>5. MiddleOf(u, e)
    <3>1. \A p \in Senders : job[p] = <<>>
      BY <1>1, <1>3
    <3>2. \A p \in Senders : ~InLineTo(p, u)
      BY <3>1 DEF InLineTo
    <3> QED
      BY <1>1, <3>2 DEF MiddleOf
  <2> QED
    BY <1>2, <1>3, <2>1, <2>4, <2>5 DEF DownOk
<1> QED
  BY <1>4, <1>5, <1>6, <1>8, <1>9 DEF Inv

\* Every step keeps the invariant.
LEMMA NextInv == Inv /\ [Next]_vars => Inv'
<1> SUFFICES ASSUME Inv, [Next]_vars PROVE Inv'
  OBVIOUS
<1>1. CASE Threads
  BY <1>1, ServerPutStep, ClientPutStep, ClientGetStep, FgetsRestStep, ServerGetStep
  DEF Threads
<1>2. CASE \E u \in Users : Types(u) \/ Notify(u)
  BY <1>2, TypesStep, NotifyStep
<1>3. CASE UNCHANGED vars
  <2>1. /\ script' = script /\ typed' = typed /\ kbd' = kbd /\ csend' = csend
        /\ up' = up /\ down' = down /\ sbuf' = sbuf /\ cbuf' = cbuf /\ job' = job
        /\ notices' = notices /\ heard' = heard /\ sent' = sent /\ got' = got
        /\ mixed' = mixed
    BY <1>3 DEF vars, client
  <2>2. KeysOk' /\ UpTypes' /\ DownTypes' /\ JobTypes'
    BY <2>1 DEF Inv, KeysOk, UpTypes, DownTypes, JobTypes
  <2>3. \A u \in Users : UpOk(u)'
    BY <2>1, SameUp DEF Inv
  <2>4. \A u \in Users : DownOk(u)'
    BY <2>1, SameDown DEF Inv
  <2> QED
    BY <2>2, <2>3, <2>4 DEF Inv
<1> QED
  BY <1>1, <1>2, <1>3 DEF Next

\* LineWire: the invariant holds in every state.
THEOREM Invariant == Spec => []Inv
<1>1. Init => Inv
  BY InitInv
<1>2. Inv /\ [Next]_vars => Inv'
  BY NextInv
<1> QED
  BY <1>1, <1>2, PTL DEF Spec

\* The invariant gives the types,
LEMMA TypesInv == Inv => TypeOK
<1> SUFFICES ASSUME Inv PROVE TypeOK
  OBVIOUS
<1>1. /\ script \in Scripts /\ typed \in [Users -> Nat]
      /\ \A u \in Users : typed[u] <= Len(script.types[u])
      /\ notices \in 0 .. Len(script.idle)
  BY DEF Inv, KeysOk
<1>2. kbd \in [Users -> Seq(Symbols)] /\ csend \in [Users -> Line]
  <2>1. Texting \subseteq Seq(Symbols)
    BY DEF Texting, Strings
  <2> QED
    BY <2>1 DEF Inv, UpTypes
<1>3. {up, down} \subseteq [Users -> Wire]
  BY DEF Inv, UpTypes, DownTypes
<1>4. {sbuf, cbuf} \subseteq [Users -> {l \in Line : ~Complete(l)}]
  <2>1. ASSUME NEW s \in Parts PROVE s \in Line /\ ~Complete(s)
    <3>1. s \in Seq(Symbols) /\ Len(s) < MaxMsg - 1 /\ NoNL(s) /\ s \in Strings
      BY DEF Parts, Open
    <3>2. s \in Line
      BY <3>1, Sizes, SetsAre DEF Strings
    <3>3. s # <<>> => s[Len(s)] # NL
      BY <3>1 DEF NoNL
    <3>4. ~Complete(s)
      BY <3>1, <3>3 DEF Complete
    <3> QED
      BY <3>2, <3>4
  <2>2. PICK S : S = {l \in Line : ~Complete(l)}
    OBVIOUS
  <2>3. Parts \subseteq S
    BY <2>1, <2>2
  <2>4. sbuf \in [Users -> S] /\ cbuf \in [Users -> S]
    BY <2>3 DEF Inv, UpTypes, DownTypes
  <2> QED
    BY <2>2, <2>4
<1>5. {heard, sent, got} \subseteq [Users -> Seq(Line)] /\ mixed \in [Users -> BOOLEAN]
  BY DEF Inv, UpTypes, DownTypes
<1>6. job \in [Senders -> Seq(Job)]
  <2>1. ASSUME NEW j \in Unsent PROVE j \in Job
    <3>1. j \in [to : Users, line : Strings, begun : BOOLEAN] /\ Len(j.line) <= MaxMsg - 1
      BY DEF Unsent
    <3>2. j.line \in Line
      BY <3>1, SetsAre
    <3> QED
      BY <3>1, <3>2 DEF Job
  <2>2. Unsent \subseteq Job
    BY <2>1
  <2>3. \A q \in Jobs : q \in Seq(Job)
    BY <2>2, SeqMonotonic DEF Jobs
  <2> QED
    BY <2>3 DEF Inv, JobTypes
<1> QED
  BY <1>1, <1>2, <1>3, <1>4, <1>5, <1>6 DEF TypeOK

\* that the server hears what the user meant, one command at a time,
LEMMA CommandsInv == Inv => CommandsWhole
<1> SUFFICES ASSUME Inv, NEW u \in Users PROVE IsPrefix(heard[u], Meant(u))
  BY DEF CommandsWhole
<1>1. PICK h, k : h = heard[u] /\ k = kbd[u]
  OBVIOUS
<1>2. PICK r \in Seq(Sent) : Cat(Cat(h, r), Commands(k)) = Meant(u)
  BY <1>1 DEF Inv, UpOk, UpIs
<1>3. h \in Texts /\ k \in Strings /\ r \in Texts
  BY <1>1, SetsAre, Kinds DEF Inv, UpTypes, Texting
<1>4. Commands(k) \in Texts
  BY <1>3, CommandsAre
<1>5. Cat(Cat(h, r), Commands(k)) = Cat(h, Cat(r, Commands(k)))
  BY <1>3, <1>4, Regroup DEF Texts
<1>6. Cat(r, Commands(k)) \in Texts
  BY <1>3, <1>4, CatIs DEF Texts
<1>7. IsPrefix(h, Cat(h, Cat(r, Commands(k))))
  BY <1>3, <1>6, PrefixIs
<1> QED
  BY <1>1, <1>2, <1>5, <1>7

\* and that the client gets what was sent to it, one line at a time.
LEMMA FramesInv == Inv => FramesKept
<1> SUFFICES ASSUME Inv, NEW u \in Users, ~mixed[u] PROVE IsPrefix(got[u], AllLines(sent[u]))
  BY DEF FramesKept
<1>1. PICK r \in Seq(Frames) : AllLines(sent[u]) = Cat(got[u], r)
  BY DEF Inv, DownOk, DownIs
<1>2. got[u] \in Texts /\ r \in Texts
  BY SetsAre, Kinds DEF Inv, DownTypes
<1> QED
  BY <1>1, <1>2, PrefixIs

\* fgets, send_full and recv_line (input_loop.c, protocol.c): every buffer holds
\* whole symbols and no more of them than it is declared for.
THEOREM WireTypes == Spec => []TypeOK
BY Invariant, TypesInv, PTL

\* input_loop.c and client_handler.c: the server hears each user's commands whole,
\* in the order and as often as they were typed, however the lines are cut on
\* their way.
THEOREM WireCommandsWhole == Spec => []CommandsWhole
BY Invariant, CommandsInv, PTL

\* send_full and recv_line: unless two threads of the server have been sending to a
\* client at once, it gets the lines sent to it, whole and in their order.
THEOREM WireFramesKept == Spec => []FramesKept
BY Invariant, FramesInv, PTL

-----------------------------------------------------------------------------
(* What clients are told: only the server makes lists and errors.          *)

\* What nothing has been sent of can be sent to whom it is for: A[u] to user u.
Told(A) ==
  {j \in [to : Users, line : Strings, begun : BOOLEAN] : ~j.begun => j.line \in A[j.to]}

\* So can what has been sent.
ToldOk(A) ==
  /\ \A u \in Users : sent[u] \in Seq(A[u])
  /\ \A p \in Senders : job[p] \in Seq(Told(A))

\* The answers to what is typed can be sent, and so can the monitor's notices.
MayTell(A) ==
  \A u \in Users :
    /\ \A c \in {Meant(u)[n] : n \in DOMAIN Meant(u)} :
         Command(c) => Modelled[Handle(u, c)] \in Seq(Told(A))
    /\ << To(u, Build(<< <<"STATUS_CHANGED">>, u, <<"INACTIVO">> >>)) >> \in Seq(Told(A))

\* New jobs.
LEMMA TellsTold ==
  ASSUME NEW A, NEW L, \A u \in Users : L \subseteq A[u],
         NEW q \in Seq(Tells(L)), q \in Seq(Fresh(Users))
  PROVE  q \in Seq(Told(A))
<1>1. ASSUME NEW j \in Tells(L), j \in Fresh(Users) PROVE j \in Told(A)
  BY <1>1 DEF Tells, Told, Fresh
<1>2. PICK S, R, T : S = Tells(L) /\ R = Fresh(Users) /\ T = Told(A)
  OBVIOUS
<1>3. \A i \in 1 .. Len(q) : q[i] \in S /\ q[i] \in R
  BY <1>2
<1>4. \A i \in 1 .. Len(q) : q[i] \in T
  BY <1>1, <1>2, <1>3
<1>5. q \in Seq(T)
  BY <1>4
<1> QED
  BY <1>2, <1>5

\* What has been typed is plain, so what was meant is.
LEMMA MeantIs ==
  ASSUME NEW K, Untyped(K), Inv, NEW u \in Users
  PROVE  Meant(u) \in Seq(Seq(Plain(K))) /\ Meant(u) = AllCommands(Typed(u))
         /\ Typed(u) \in Texts
<1>1. script.types[u] \in Seq(TypedLine) /\ typed[u] \in Nat
      /\ typed[u] <= Len(script.types[u])
  BY ScriptsAssumption DEF Inv, KeysOk, AreScripts
<1>2. Typed(u) \in Seq(TypedLine)
  BY <1>1, Split DEF Typed
<1>3. ASSUME NEW l \in TypedLine PROVE l \in Seq(Plain(K))
  <2>1. l \in Seq(Alphabet \cup {NL})
    BY DEF TypedLine
  <2>2. Alphabet \cup {NL} \subseteq Plain(K)
    BY PlainIs
  <2> QED
    BY <2>1, <2>2, SeqMonotonic
<1>4. TypedLine \subseteq Seq(Plain(K))
  BY <1>3
<1>5. Typed(u) \in Seq(Seq(Plain(K)))
  BY <1>2, <1>4, SeqMonotonic
<1>6. Meant(u) = AllCommands(Typed(u))
  BY Zenon DEF Meant, AllCommands, CommandsOf
<1>7. Typed(u) \in Texts
  <2>1. Seq(Plain(K)) \subseteq Strings
    BY PlainIs
  <2> QED
    BY <1>5, <2>1, SeqMonotonic DEF Texts
<1> QED
  BY <1>5, <1>6, <1>7, MeantPlain

\* What the server reads is what was meant.
LEMMA HeardIs ==
  ASSUME Inv, NEW u \in Users, Len(up[u]) > 0,
         NEW line, line = Read(sbuf[u], up[u], Taken(sbuf[u], up[u])), Complete(line)
  PROVE  Command(line) /\ line \in {Meant(u)[n] : n \in DOMAIN Meant(u)}
<1>1. PICK b, s, h, k, m, c, rest :
        /\ b = up[u] /\ s = sbuf[u] /\ h = heard[u] /\ k = kbd[u] /\ m = Meant(u)
        /\ c = csend[u] /\ rest = SubSeq(b, Taken(s, b) + 1, Len(b))
  OBVIOUS
<1>2. b \in Wire /\ s \in Parts /\ h \in Seq(Line) /\ c \in Strings /\ k \in Strings
  BY <1>1, SetsAre DEF Inv, UpTypes, Texting
<1>3. b \in Strings /\ Open(s) /\ h \in Texts
  BY <1>2, SetsAre DEF Parts
<1>4. UpIs(h, k, m, s, b, c)
  BY <1>1 DEF Inv, UpOk
<1>5. Command(line) /\ UpIs(Append(h, line), k, m, <<>>, rest, c)
  BY <1>1, <1>2, <1>3, <1>4, GetUp
<1>6. PICK r \in Seq(Sent) : Cat(Cat(Append(h, line), r), Commands(k)) = m
  BY <1>5 DEF UpIs
<1>7. line \in Strings
  BY <1>5 DEF Command, Frame, Sendable, Strings
<1>8. PICK a, d, n : a = Append(h, line) /\ d = Cat(a, r) /\ n = Len(h) + 1
  OBVIOUS
<1>9. a \in Texts /\ n \in 1 .. Len(a) /\ a[n] = line
  BY <1>3, <1>7, <1>8 DEF Texts
<1>10. d \in Texts /\ Joins(d, a, r)
  BY <1>8, <1>9, Kinds, CatIs DEF Texts
<1>11. Commands(k) \in Texts
  BY <1>2, CommandsAre
<1>12. Joins(m, d, Commands(k))
  BY <1>6, <1>8, <1>10, <1>11, CatIs DEF Texts
<1>13. n \in 1 .. Len(d) /\ d[n] = line
  BY <1>9, <1>10 DEF Joins
<1>14. n \in 1 .. Len(m) /\ m[n] = line
  BY <1>12, <1>13 DEF Joins
<1>15. DOMAIN m = 1 .. Len(m)
  <2>1. m \in Texts
    BY <1>10, <1>11, <1>12, CatIs, <1>6, <1>8 DEF Texts
  <2> QED
    BY <2>1 DEF Texts
<1> QED
  BY <1>1, <1>5, <1>14, <1>15

\* At first nothing has been sent.
LEMMA ToldInit == \A A : Init => ToldOk(A)
<1> SUFFICES ASSUME NEW A, Init PROVE ToldOk(A)
  OBVIOUS
<1>1. \A u \in Users : sent[u] = <<>>
  BY DEF Init
<1>2. \A p \in Senders : job[p] = <<>>
  BY DEF Init
<1> QED
  BY <1>1, <1>2, Singles DEF ToldOk

\* A sender gets a job.
LEMMA ToldJob ==
  ASSUME NEW A, ToldOk(A), JobTypes, NEW p \in Senders, NEW q \in Seq(Told(A)),
         job' = [job EXCEPT ![p] = q], sent' = sent
  PROVE  ToldOk(A)'
<1>1. \A z \in Senders : job'[z] \in Seq(Told(A))
  BY DEF ToldOk, JobTypes
<1> QED
  BY <1>1 DEF ToldOk

\* The server answers a command.
LEMMA ToldServerGet ==
  ASSUME NEW A, Inv, ToldOk(A), MayTell(A), NEW u \in Users, ServerGet(u)
  PROVE  ToldOk(A)'
<1>1. PICK line : line = Read(sbuf[u], up[u], Taken(sbuf[u], up[u]))
  OBVIOUS
<1>2. line = sbuf[u] \o SubSeq(up[u], 1, Taken(sbuf[u], up[u]))
  BY <1>1, Zenon DEF Read, Cat
<1>3. /\ sent' = sent /\ up[u] # <<>>
      /\ \/ Complete(line) /\ job' = [job EXCEPT ![u] = Modelled[Handle(u, line)]]
         \/ job' = job
  BY <1>2 DEF ServerGet
<1>4. CASE Complete(line) /\ job' = [job EXCEPT ![u] = Modelled[Handle(u, line)]]
  <2>1. Len(up[u]) > 0
    <3>1. up[u] \in Wire
      BY DEF Inv, UpTypes
    <3> QED
      BY <1>3, <3>1, SetsAre DEF Strings
  <2>2. Command(line) /\ line \in {Meant(u)[n] : n \in DOMAIN Meant(u)}
    BY <1>1, <1>4, <2>1, HeardIs
  <2>3. PICK q : q = Modelled[Handle(u, line)]
    OBVIOUS
  <2>4. q \in Seq(Told(A))
    BY <2>2, <2>3, Zenon DEF MayTell
  <2>5. u \in Senders
    BY DEF Senders
  <2> QED
    BY <1>3, <1>4, <2>3, <2>4, <2>5, ToldJob DEF Inv
<1>5. CASE job' = job
  BY <1>3, <1>5 DEF ToldOk
<1> QED
  BY <1>3, <1>4, <1>5

\* The monitor has a notice to send.
LEMMA ToldNotify ==
  ASSUME NEW A, Inv, ToldOk(A), MayTell(A), NEW u \in Users, Notify(u)
  PROVE  ToldOk(A)'
<1>1. PICK q : q = << To(u, Build(<< <<"STATUS_CHANGED">>, u, <<"INACTIVO">> >>)) >>
  OBVIOUS
<1>2. job' = [job EXCEPT ![Monitor] = q] /\ sent' = sent
  BY <1>1 DEF Notify
<1>3. q \in Seq(Told(A))
  BY <1>1, Zenon DEF MayTell
<1>4. Monitor \in Senders
  BY DEF Senders
<1> QED
  BY <1>2, <1>3, <1>4, ToldJob DEF Inv

\* A line is begun and put down as sent, or what is left of it is sent.
LEMMA ToldServerPut ==
  ASSUME NEW A, Inv, ToldOk(A), NEW p \in Senders, ServerPut(p)
  PROVE  ToldOk(A)'
<1>1. PICK q, now, t, l, n, y, left, r :
        /\ q = job[p] /\ now = Head(q) /\ t = now.to /\ l = now.line
        /\ n = Room(down[t], l) /\ y = SubSeq(l, n + 1, Len(l))
        /\ left = [now EXCEPT !.begun = TRUE, !.line = y]
        /\ r = IF left.line = <<>> THEN Tail(q) ELSE <<left>> \o Tail(q)
  OBVIOUS
<1>2. /\ q # <<>> /\ n > 0
      /\ job' = [job EXCEPT ![p] = r]
      /\ sent' = IF now.begun THEN sent ELSE [sent EXCEPT ![t] = Append(@, l)]
  BY <1>1, Zenon DEF ServerPut
<1>3. q \in Seq(Told(A)) /\ q \in Jobs
  BY <1>1 DEF ToldOk, Inv, JobTypes
<1>4. now \in Told(A) /\ Tail(q) \in Seq(Told(A))
  <2>1. PICK S : S = Told(A)
    OBVIOUS
  <2>2. Head(q) \in S /\ Tail(q) \in Seq(S)
    BY <1>2, <1>3, <2>1
  <2> QED
    BY <1>1, <2>1, <2>2
<1>5. t \in Users /\ l \in Strings /\ (~now.begun => l \in A[t])
  BY <1>1, <1>4 DEF Told
<1>6. y \in Strings
  <2>1. down[t] \in Strings /\ Len(down[t]) <= Cap /\ Len(down[t]) \in Nat
    BY <1>5, SetsAre DEF Inv, DownTypes
  <2>2. n \in Nat /\ n <= Len(l)
    <3>1. n = IF Len(l) < Cap - Len(down[t]) THEN Len(l) ELSE Cap - Len(down[t])
      BY <1>1 DEF Room
    <3>2. Len(l) \in Nat
      BY <1>5 DEF Strings
    <3> QED
      BY <2>1, <3>1, <3>2, Sizes
  <2> QED
    BY <1>1, <1>5, <2>2, Split DEF Strings
<1>7. left \in Told(A)
  <2>1. /\ left \in [to : Users, line : Strings, begun : BOOLEAN] /\ left.begun = TRUE
    BY <1>1, <1>4, <1>6 DEF Told
  <2> QED
    BY <2>1 DEF Told
<1>8. r \in Seq(Told(A))
  <2>1. <<left>> \o Tail(q) \in Seq(Told(A))
    BY <1>4, <1>7, InFront
  <2> QED
    BY <1>1, <1>4, <2>1
<1>9. \A z \in Senders : job'[z] \in Seq(Told(A))
  BY <1>2, <1>8 DEF ToldOk, Inv, JobTypes
<1>10. ASSUME NEW u \in Users PROVE sent'[u] \in Seq(A[u])
  <2>1. sent[u] \in Seq(A[u])
    BY DEF ToldOk
  <2>2. CASE now.begun
    BY <1>2, <2>1, <2>2
  <2>3. CASE ~now.begun
    <3>1. sent'[u] = IF u = t THEN Append(sent[u], l) ELSE sent[u]
      BY <1>2, <1>5, <2>3 DEF Inv, DownTypes
    <3>2. PICK z, S : z = sent[u] /\ S = A[u]
      OBVIOUS
    <3>3. z \in Seq(S) /\ (u = t => l \in S)
      BY <1>5, <2>1, <2>3, <3>2
    <3>4. u = t => Append(z, l) \in Seq(S)
      BY <3>3
    <3> QED
      BY <3>1, <3>2, <3>3, <3>4
  <2> QED
    BY <2>2, <2>3
<1> QED
  BY <1>9, <1>10 DEF ToldOk

\* The rest changes neither.
LEMMA ToldNext ==
  ASSUME NEW A, Inv, ToldOk(A), MayTell(A), [Next]_vars
  PROVE  ToldOk(A)'
<1>1. job' = job /\ sent' = sent => ToldOk(A)'
  BY DEF ToldOk
<1>2. ASSUME NEW u \in Users, Types(u) \/ FgetsRest(u) \/ ClientPut(u) \/ ClientGet(u)
      PROVE  ToldOk(A)'
  <2>1. job' = job /\ sent' = sent
    BY <1>2 DEF Types, FgetsRest, ClientPut, ClientGet
  <2> QED
    BY <1>1, <2>1
<1>3. CASE UNCHANGED vars
  BY <1>1, <1>3 DEF vars
<1>4. CASE Threads
  BY <1>2, <1>4, ToldServerPut, ToldServerGet DEF Threads
<1>5. CASE \E u \in Users : Types(u) \/ Notify(u)
  BY <1>2, <1>5, ToldNotify
<1> QED
  BY <1>3, <1>4, <1>5 DEF Next

\* What a client reads is what it can be told.
LEMMA GotIs ==
  ASSUME Inv, NEW u \in Users, ~mixed[u], NEW S, AllLines(sent[u]) \in Seq(S),
         NEW k \in DOMAIN got[u]
  PROVE  got[u][k] \in S
<1>1. PICK g, A : g = got[u] /\ A = AllLines(sent[u])
  OBVIOUS
<1>2. PICK r \in Seq(Frames) : A = Cat(g, r)
  BY <1>1 DEF Inv, DownOk, DownIs
<1>3. g \in Texts /\ r \in Texts
  BY <1>1, SetsAre, Kinds DEF Inv, DownTypes
<1>4. Joins(A, g, r) /\ k \in 1 .. Len(g)
  BY <1>1, <1>2, <1>3, CatIs DEF Texts
<1>5. A[k] = g[k] /\ k \in 1 .. Len(A)
  BY <1>4 DEF Joins
<1> QED
  BY <1>1, <1>5

\* Everybody can be sent the list, and what is plain.
Listing == [u \in Users |-> Good]

\* A handler's lines that can be sent.
LEMMA AnswersTold ==
  ASSUME NEW K, Untyped(K), Inv, NEW u \in Users, NEW A,
         NEW L, Seq(Plain(K)) \subseteq L, TheList \in L, \A v \in Users : L \subseteq A[v]
  PROVE  /\ \A c \in {Meant(u)[n] : n \in DOMAIN Meant(u)} :
              Command(c) /\ (K = "ERROR" => Served(c)) =>
                Modelled[Handle(u, c)] \in Seq(Told(A))
         /\ << To(u, Build(<< <<"STATUS_CHANGED">>, u, <<"INACTIVO">> >>)) >> \in Seq(Told(A))
<1>1. ASSUME NEW n \in DOMAIN Meant(u), NEW c, c = Meant(u)[n], Command(c),
             K = "ERROR" => Served(c)
      PROVE  Modelled[Handle(u, c)] \in Seq(Told(A))
  <2>1. c \in Seq(Plain(K)) /\ u \in Online
    BY <1>1, MeantIs, UsersAssumption
  <2>2. PICK q : q = Handle(u, c)
    OBVIOUS
  <2>3. q \in Seq(Tells(L)) /\ q \in Seq(Fresh(Online))
    BY <1>1, <2>1, <2>2, HandleTells, HandleIs
  <2>4. Modelled[q] \in Seq(Tells(L)) /\ Modelled[q] \in Seq(Fresh(Users))
    BY <1>1, <2>2, <2>3, ModelledTells, ModelledIs
  <2> QED
    BY <2>2, <2>4, TellsTold
<1>2. << To(u, Build(<< <<"STATUS_CHANGED">>, u, <<"INACTIVO">> >>)) >> \in Seq(Told(A))
  BY NoticeIs, NoticeTells, TellsTold
<1> QED
  BY <1>1, <1>2

\* Everybody is.
LEMMA ListingTold ==
  ASSUME Untyped("LIST_OK"), Inv
  PROVE  MayTell(Listing)
<1>1. /\ Seq(Plain("LIST_OK")) \subseteq Good /\ TheList \in Good
      /\ \A v \in Users : Good \subseteq Listing[v]
  BY DEF Good, Listing
<1>2. PICK K, L : K = "LIST_OK" /\ L = Good
  OBVIOUS
<1>3. Untyped(K) /\ K # "ERROR" /\ Seq(Plain(K)) \subseteq L /\ TheList \in L
      /\ \A v \in Users : L \subseteq Listing[v]
  BY <1>1, <1>2
<1> QED
  BY <1>3, AnswersTold, Zenon DEF MayTell

\* Every list a client gets is the list.
LEMMA ListsInv == Untyped("LIST_OK") /\ Inv /\ ToldOk(Listing) => ListsNames
<1> SUFFICES ASSUME Untyped("LIST_OK"), Inv, ToldOk(Listing), NEW u \in Users, ~mixed[u],
                    NEW k \in DOMAIN got[u], Type(got[u][k]) = <<"LIST_OK">>
             PROVE  got[u][k] = TheList
  BY ShownAre DEF ListsNames, ShownNames
<1>1. sent[u] \in Seq(Good)
  BY DEF ToldOk, Listing
<1>2. AllLines(sent[u]) \in Seq(Good)
  BY <1>1, ReadGood
<1>3. got[u][k] \in Good
  BY <1>2, GotIs
<1> QED
  BY <1>3, PlainType DEF Good

\* session_manager.c:189-200 and ui.c:236-242: unless two threads have mixed their
\* lines on its connection, and if nobody types the keyword of a list, every list a
\* client shows has the registered names in the order of their slots, all of them or
\* those that fit a buffer, with only the last one cut short.
THEOREM WireListsNames ==
  ASSUME Untyped("LIST_OK")
  PROVE  Spec => []ListsNames
<1>1. Init => Inv /\ ToldOk(Listing)
  BY InitInv, ToldInit
<1>2. Inv /\ ToldOk(Listing) /\ [Next]_vars => Inv' /\ ToldOk(Listing)'
  <2> SUFFICES ASSUME Inv, ToldOk(Listing), [Next]_vars PROVE Inv' /\ ToldOk(Listing)'
    OBVIOUS
  <2>1. MayTell(Listing)
    BY ListingTold
  <2> QED
    BY <2>1, NextInv, ToldNext
<1>3. Inv /\ ToldOk(Listing) => ListsNames
  BY ListsInv
<1> QED
  BY <1>1, <1>2, <1>3, PTL DEF Spec

-----------------------------------------------------------------------------
(* Only those to blame get errors.                                         *)

\* Who has typed a message to nobody can be sent an error, too.
Excused == [u \in Users |-> IF Blamed(u) THEN Strings ELSE Seq(Plain("ERROR"))]

\* What the handlers send is excused.
LEMMA ExcusedTold ==
  ASSUME Untyped("ERROR"), ShortNames, Inv
  PROVE  MayTell(Excused)
<1>1. PICK K, L, A : K = "ERROR" /\ L = Seq(Plain(K)) /\ A = Excused
  OBVIOUS
<1>2. /\ Untyped(K) /\ Seq(Plain(K)) \subseteq L /\ TheList \in L
      /\ \A v \in Users : L \subseteq A[v]
  BY <1>1, ListPlain, PlainIs DEF Excused
<1> SUFFICES ASSUME NEW u \in Users, NEW n \in DOMAIN Meant(u), NEW c, c = Meant(u)[n],
                    Command(c), ~Served(c)
             PROVE  Modelled[Handle(u, c)] \in Seq(Told(A))
  BY <1>1, <1>2, AnswersTold, Zenon DEF MayTell
<1>3. /\ Meant(u) = AllCommands(Typed(u)) /\ Typed(u) \in Texts
  BY <1>2, MeantIs
<1>4. Blamed(u)
  <2> SUFFICES ASSUME ~Blamed(u) PROVE FALSE
    OBVIOUS
  <2>1. \A i \in DOMAIN Typed(u) : Blameless(Typed(u)[i])
    BY Zenon DEF Blamed, Blameless
  <2>2. PICK q : q = Typed(u)
    OBVIOUS
  <2>3. Meant(u) \in Seq({d \in Strings : Served(d)})
    BY <1>3, <2>1, <2>2, MeantServed
  <2> QED
    BY <2>3
<1>5. A[u] = Strings
  BY <1>1, <1>4 DEF Excused
<1>6. PICK l, q : q = Handle(u, c) /\ q = << To(u, l) >>
  BY HandleError
<1>7. q \in Seq({To(u, l)}) /\ q \in Seq(Fresh(Online))
  BY <1>6, HandleIs, UsersAssumption, Singles
<1>8. PICK p : p = Modelled[q]
  OBVIOUS
<1>9. p \in Seq({To(u, l)}) /\ p \in Seq(Fresh(Users))
  BY <1>6, <1>7, <1>8, ModelledTells, ModelledIs
<1>10. ASSUME NEW j \in Fresh(Users), j = To(u, l) PROVE j \in Told(A)
  BY <1>5, <1>10 DEF Fresh, Told, To
<1>11. PICK R, T : R = Fresh(Users) /\ T = Told(A)
  OBVIOUS
<1>12. \A i \in 1 .. Len(p) : p[i] \in R /\ p[i] = To(u, l)
  BY <1>9, <1>11
<1>13. \A i \in 1 .. Len(p) : p[i] \in T
  BY <1>10, <1>11, <1>12
<1>14. p \in Seq(T)
  BY <1>9, <1>13
<1> QED
  BY <1>6, <1>8, <1>11, <1>14

\* Who is to blame stays so.
LEMMA BlamedStays ==
  ASSUME Inv, [Next]_vars, NEW u \in Users, Blamed(u)
  PROVE  Blamed(u)'
<1>1. script' = script /\ (typed'[u] = typed[u] \/ typed'[u] = typed[u] + 1)
      /\ typed'[u] <= Len(script.types[u])
  <2>1. script' = script /\ (typed' = typed \/ \E v \in Users : typed' = [typed EXCEPT ![v] = @ + 1])
    <3>1. CASE UNCHANGED vars
      BY <3>1 DEF vars, client
    <3>2. CASE Threads
      BY <3>2 DEF Threads, FgetsRest, ClientPut, ClientGet, ServerGet, ServerPut, client
    <3>3. CASE \E v \in Users : Types(v) \/ Notify(v)
      BY <3>3 DEF Types, Notify, client
    <3> QED
      BY <3>1, <3>2, <3>3 DEF Next
  <2>2. typed \in [Users -> Nat]
    BY DEF Inv, KeysOk
  <2>3. typed'[u] <= Len(script'.types[u])
    BY NextInv DEF Inv, KeysOk
  <2> QED
    BY <2>1, <2>2, <2>3
<1>2. PICK a, n, m : a = script.types[u] /\ n = typed[u] /\ m = typed'[u]
  OBVIOUS
<1>3. a \in Seq(TypedLine) /\ n \in Nat /\ n <= m /\ m <= Len(a) /\ m \in Nat
  BY <1>1, <1>2, ScriptsAssumption DEF Inv, KeysOk, AreScripts
<1>4. \A i \in DOMAIN SubSeq(a, 1, n) :
        i \in DOMAIN SubSeq(a, 1, m) /\ SubSeq(a, 1, m)[i] = SubSeq(a, 1, n)[i]
  BY <1>3, Split
<1>5. PICK x, y : x = SubSeq(a, 1, n) /\ y = SubSeq(a, 1, m)
  OBVIOUS
<1>6. Typed(u) = x /\ Typed(u)' = y
  BY <1>1, <1>2, <1>5 DEF Typed
<1>7. PICK i \in DOMAIN x : \E k \in DOMAIN FgetsPieces(x[i]) : ToNobody(FgetsPieces(x[i])[k])
  BY <1>6, Zenon DEF Blamed
<1>8. i \in DOMAIN y /\ y[i] = x[i]
  BY <1>4, <1>5, <1>7
<1>9. \E j \in DOMAIN y : \E k \in DOMAIN FgetsPieces(y[j]) : ToNobody(FgetsPieces(y[j])[k])
  BY <1>7, <1>8, Zenon
<1> QED
  BY <1>6, <1>9, Zenon DEF Blamed

\* More can be sent then.
LEMMA ExcusedStays ==
  ASSUME Untyped("ERROR"), ShortNames, Inv, ToldOk(Excused), [Next]_vars
  PROVE  ToldOk(Excused)'
<1>1. PICK A, B : A = Excused /\ B = Excused'
  OBVIOUS
<1>2. \A u \in Users : A[u] \subseteq B[u]
  BY <1>1, BlamedStays, PlainIs DEF Excused
<1>3. ToldOk(A)'
  BY <1>1, ExcusedTold, ToldNext
<1>4. \A u \in Users : sent'[u] \in Seq(B[u])
  BY <1>2, <1>3, SeqMonotonic DEF ToldOk
<1>5. Told(A) \subseteq Told(B)
  BY <1>2 DEF Told
<1>6. \A p \in Senders : job'[p] \in Seq(Told(B))
  BY <1>3, <1>5, SeqMonotonic DEF ToldOk
<1> QED
  BY <1>1, <1>4, <1>6 DEF ToldOk

\* Nobody else reads an error.
LEMMA AddresseeInv == Untyped("ERROR") /\ Inv /\ ToldOk(Excused) => AddresseeFound
<1> SUFFICES ASSUME Untyped("ERROR"), Inv, ToldOk(Excused), NEW u \in Users, ~mixed[u],
                    NEW k \in DOMAIN got[u], ~Blamed(u)
             PROVE  Type(got[u][k]) # <<"ERROR">>
  BY Zenon DEF AddresseeFound
<1>1. PICK S : S = Seq(Plain("ERROR"))
  OBVIOUS
<1>2. sent[u] \in Seq(S)
  BY <1>1 DEF ToldOk, Excused
<1>3. AllLines(sent[u]) \in Seq(S)
  BY <1>1, <1>2, ReadPlain
<1>4. got[u][k] \in S
  BY <1>3, GotIs
<1> QED
  BY <1>1, <1>4, PlainType

\* input_loop.c:144-172 and handlers.c:75-82: unless two threads have mixed their lines
\* on its connection, if nobody types the keyword of an error and no name is as long as
\* a name may be, a client shows an error only if its own user has typed a private
\* message to a name that is not online: what others type to it or to everybody, the
\* list, the notices, the empty commands and the pieces of a long line bring none.
THEOREM WireAddresseeFound ==
  ASSUME Untyped("ERROR"), ShortNames
  PROVE  Spec => []AddresseeFound
<1>1. Init => Inv /\ ToldOk(Excused)
  BY InitInv, ToldInit
<1>2. Inv /\ ToldOk(Excused) /\ [Next]_vars => Inv' /\ ToldOk(Excused)'
  BY NextInv, ExcusedStays
<1>3. Inv /\ ToldOk(Excused) => AddresseeFound
  BY AddresseeInv
<1> QED
  BY <1>1, <1>2, <1>3, PTL DEF Spec

=============================================================================
