----------------------------- MODULE LogFile_proofs -----------------------------
(***************************************************************************)
(* Theorems about LogFile, for every number of items and of frames in      *)
(* which a write fails: its type invariant, what the parser prints, and    *)
(* where it stops.                                                         *)
(*                                                                         *)
(* The argument needs where in the file the frame of each item is: the     *)
(* witness start of Layout, which no variable of the model or of the       *)
(* program holds.                                                          *)
(***************************************************************************)
EXTENDS LogFile, SequenceTheorems, WellFoundedInduction, TLAPS

USE FileAssumption

-----------------------------------------------------------------------------
(* The invariant.                                                          *)
\* The fields of item n that are in the file.
InFile(silent, n) == IF n \in withPayload \ silent THEN Fields ELSE WithoutPayload

\* The tokens of the file from first to before end are those of the frame of item n,
\* or the beginning of it.
Piece(fields, n, first, end) ==
    /\ end <= first + 2 * Len(fields) + 2
    /\ end > first => file[first].is = "<"
    /\ \A j \in 1 .. Len(fields) :
           /\ first + 2 * j - 1 < end =>
                  /\ file[first + 2 * j - 1].is = fields[j]
                  /\ file[first + 2 * j - 1].n = n
           /\ first + 2 * j < end =>
                  /\ file[first + 2 * j - 1] = Text(n, fields[j])
                  /\ file[first + 2 * j].is = "0"
    /\ end = first + 2 * Len(fields) + 2 => file[end - 1].is = ">"

\* Item n is in the file from start[n] to before start[n + 1]; the items of silent
\* are those whose payload is missing, though all else is there.
Layout(start, silent) ==
    /\ start \in [1 .. written + 1 -> Nat]
    /\ start[1] = 1 /\ start[written + 1] = Len(file) + 1
    /\ \A m, n \in 1 .. written + 1 : m <= n => start[m] <= start[n]
    /\ silent \subseteq torn \cap withPayload
    /\ \A n \in 1 .. written : \A fields \in {InFile(silent, n)} :
           /\ Piece(fields, n, start[n], start[n + 1])
           /\ start[n + 1] = start[n] + 2 * Len(fields) + 2 <=> n \notin torn \/ n \in silent

\* The items before n have been dealt with.
Settled(n) ==
    /\ PrintedItems \subseteq 1 .. n - 1
    /\ (1 .. n - 1) \ torn \subseteq PrintedItems

\* The parser looks for the frame of item n, from the '>' of the one before it at
\* most.
Between(start, n) ==
    /\ logItem["payload"] = <<>>
    /\ at = start[n] \/ (at = start[n] - 1 /\ at > 0 /\ file[at].is = ">")

\* The parser is where the text of the j-th field of item m is, or would be.
InStep(start, silent, m, j) ==
    /\ j \in 1 .. Len(FieldsOf(m)) /\ (m \in silent => j <= 6)
    /\ parseState = FieldsOf(m)[j]
    /\ at = start[m] + 2 * j - 1 /\ at <= start[m + 1]
    /\ \A field \in FieldNames :
           IF \E k \in 1 .. j - 1 : FieldsOf(m)[k] = field
           THEN logItem[field] = <<Text(m, field)>>
           ELSE field = "payload" => logItem[field] = <<>>

\* The parser has lost the frame: it is about to find what is not a number, at once,
\* after an empty string at the end of the file, or after it took the source for
\* the payload and the checksum for the source.
Lost(start, silent, m) ==
    /\ m \in torn
    /\ \/ /\ parseState \in FieldNames \ {"filename", "payload"}
          /\ at > Len(file) \/ file[at].is \notin NumericFields
       \/ parseState \in {"filename", "payload"} /\ at > Len(file)
       \/ m \in silent /\ parseState = "source" /\ at = start[m] + 13

\* All but the checksum has been read.
Complete(start, m) ==
    /\ \A field \in FieldNames \ {"checksum"} :
           logItem[field] = IF field = "payload" /\ m \notin withPayload THEN <<>>
                            ELSE <<Text(m, field)>>
    /\ at = start[m + 1] \/ (at = start[m + 1] - 1 /\ file[at].is = ">")

Parsing(start, silent) ==
    /\ parseState = "write" => at = 1 /\ printed = <<>> /\ logItem = NoItem
    /\ parseState = "<" => \E n \in 1 .. written + 1 : Settled(n) /\ Between(start, n)
    /\ parseState \in FieldNames =>
           \E m \in 1 .. written :
               /\ Settled(m)
               /\ (\E j \in 1..8 : InStep(start, silent, m, j)) \/ Lost(start, silent, m)
    /\ parseState = ">" => \E m \in 1 .. written : Settled(m) /\ Complete(start, m)
    /\ parseState = "done" => (1 .. written) \ torn \subseteq PrintedItems
    /\ parseState = "ValueError" => \E n \in torn : Settled(n)

\* What has been printed is in order.
PrintedInv ==
    /\ PrintedWasWritten
    /\ \A i, j \in DOMAIN printed : i < j => ItemOf(printed[i]) < ItemOf(printed[j])
FileInv ==
    /\ FileTypeOK
    /\ PrintedInv
    /\ \E start, silent : Layout(start, silent) /\ Parsing(start, silent)

-----------------------------------------------------------------------------
(* Tokens and frames.                                                      *)

\* Induction on the naturals: a set of them that has an element has a least one.
LEMMA LeastElement ==
    ASSUME NEW T, T \subseteq Nat, T # {}
    PROVE  \E m \in T : \A k \in T : m <= k
<1> DEFINE R == OpToRel(<, Nat)
<1>1. IsWellFoundedOn(R, Nat)
    BY NatLessThanWellFounded
<1>2. \A x, y \in Nat : x < y => <<x, y>> \in R
    BY DEF OpToRel
<1>3. \A RR : IsWellFoundedOn(RR, Nat) => \E x \in T : \A y \in T : ~(<<y, x>> \in RR)
    BY WFMin, Zenon
<1> HIDE DEF R
<1>4. \E x \in T : \A y \in T : ~(y < x)
    BY <1>1, <1>2, <1>3, Zenon
<1> QED BY <1>4

LEMMA FieldsHave ==
    /\ Fields \in Seq(FieldNames) /\ Len(Fields) = 8
    /\ WithoutPayload \in Seq(FieldNames) /\ Len(WithoutPayload) = 7
    /\ FieldNames = {"event", "filename", "line", "time", "length", "payload", "source",
                     "checksum"}
<1>1. FieldNames = {"event", "filename", "line", "time", "length", "payload", "source",
                    "checksum"}
    <2>1. DOMAIN Fields = 1..8
        BY DEF Fields
    <2>2. 1..8 = {1, 2, 3, 4, 5, 6, 7, 8}
        OBVIOUS
    <2>3. FieldNames = {Fields[i] : i \in {1, 2, 3, 4, 5, 6, 7, 8}}
        BY <2>1, <2>2 DEF FieldNames
    <2> QED BY <2>3 DEF Fields
<1>2. Fields \in Seq(FieldNames) /\ Len(Fields) = 8
    BY <1>1 DEF Fields
<1>3. WithoutPayload \in Seq(FieldNames) /\ Len(WithoutPayload) = 7
    BY <1>1 DEF WithoutPayload
<1> QED BY <1>1, <1>2, <1>3

LEMMA TokensHave ==
    /\ \A is \in {"<", ">", "0"} : Mark(is) \in Tokens /\ Mark(is).is = is
    /\ \A n \in 0 .. Items : \A field \in FieldNames :
           /\ Text(n, field) \in Tokens
           /\ Text(n, field).is = field /\ Text(n, field).n = n
BY DEF Mark, Text, Tokens

LEMMA EvenOdd ==
    \A j \in Nat : /\ (2 * j) % 2 = 0 /\ (2 * j) \div 2 = j
                   /\ (2 * j + 1) % 2 = 1
OBVIOUS

LEMMA Halves ==
    \A i \in Nat : \E j \in Nat : i = 2 * j \/ i = 2 * j + 1
<1> SUFFICES ASSUME NEW i \in Nat PROVE \E j \in Nat : i = 2 * j \/ i = 2 * j + 1
    OBVIOUS
<1>1. i \div 2 \in Nat /\ (i = 2 * (i \div 2) \/ i = 2 * (i \div 2) + 1)
    OBVIOUS
<1> QED BY <1>1

\* What is where in a frame.
LEMMA FrameShape ==
    ASSUME NEW fields \in {Fields, WithoutPayload}, NEW n \in 0 .. Items
    PROVE  /\ Frame(fields, n) \in Seq(Tokens)
           /\ Len(Frame(fields, n)) = 2 * Len(fields) + 2
           /\ Frame(fields, n)[1] = Mark("<")
           /\ \A j \in 1 .. Len(fields) :
                  /\ Frame(fields, n)[2 * j] = Text(n, fields[j])
                  /\ Frame(fields, n)[2 * j + 1] = Mark("0")
           /\ Frame(fields, n)[2 * Len(fields) + 2] = Mark(">")
<1> DEFINE L == Len(fields)
<1> DEFINE F == Frame(fields, n)
<1>1. L \in 7..8 /\ fields \in Seq(FieldNames)
    BY FieldsHave
<1>2. \A j \in 1 .. L : fields[j] \in FieldNames
    BY <1>1, ElementOfSeq
<1> DEFINE token(i) == CASE i = 1 -> Mark("<")
                         [] i = 2 * L + 2 -> Mark(">")
                         [] i % 2 = 1 /\ i > 1 -> Mark("0")
                         [] OTHER -> Text(n, fields[i \div 2])
<1>3. F = [i \in 1 .. 2 * L + 2 |-> token(i)]
    BY DEF Frame
<1> HIDE DEF F
<1> HIDE DEF L
<1>4. token(1) = Mark("<") /\ token(2 * L + 2) = Mark(">")
    BY <1>1
<1>5. ASSUME NEW j \in 1 .. L
      PROVE  token(2 * j) = Text(n, fields[j]) /\ token(2 * j + 1) = Mark("0")
    <2>1. /\ (2 * j) % 2 = 0 /\ (2 * j) \div 2 = j /\ (2 * j + 1) % 2 = 1
          /\ 2 * j # 1 /\ 2 * j # 2 * L + 2 /\ 2 * j + 1 # 1 /\ 2 * j + 1 # 2 * L + 2
          /\ 2 * j + 1 > 1
        BY <1>1, EvenOdd
    <2> QED BY <2>1
<1>6. ASSUME NEW i \in 1 .. 2 * L + 2
      PROVE  i = 1 \/ i = 2 * L + 2 \/ \E j \in 1 .. L : i = 2 * j \/ i = 2 * j + 1
    <2>1. PICK j \in Nat : i = 2 * j \/ i = 2 * j + 1
        <3>1. i \in Nat
            BY <1>1
        <3> QED BY <3>1, Halves
    <2>2. i # 1 /\ i # 2 * L + 2 => j \in 1 .. L
        BY <1>1, <2>1
    <2> QED BY <2>1, <2>2
<1> HIDE DEF token
<1>7. ASSUME NEW i \in 1 .. 2 * L + 2 PROVE token(i) \in Tokens
    BY <1>2, <1>4, <1>5, <1>6, TokensHave
<1>8. F \in Seq(Tokens) /\ Len(F) = 2 * L + 2
    <2>1. F \in [1 .. 2 * L + 2 -> Tokens] /\ 2 * L + 2 \in Nat
        BY <1>1, <1>3, <1>7
    <2>2. F \in Seq(Tokens)
        BY <2>1, SeqDef
    <2> QED BY <2>1, <2>2, LenProperties
<1>9. \A i \in 1 .. 2 * L + 2 : F[i] = token(i)
    BY <1>3
<1>10. \A j \in 1 .. L : 2 * j \in 1 .. 2 * L + 2 /\ 2 * j + 1 \in 1 .. 2 * L + 2
    BY <1>1
<1>11. 1 \in 1 .. 2 * L + 2 /\ 2 * L + 2 \in 1 .. 2 * L + 2
    BY <1>1
<1> QED BY <1>4, <1>5, <1>8, <1>9, <1>10, <1>11 DEF F, L
-----------------------------------------------------------------------------
(* log_write_item.                                                         *)

\* One sequence of tokens is the other, or its beginning with a part of the last
\* token.
Begins(piece, frame) ==
    /\ piece \in Seq(Tokens) /\ Len(piece) <= Len(frame)
    /\ \A i \in 1 .. Len(piece) :
           /\ piece[i].is = frame[i].is /\ piece[i].n = frame[i].n
           /\ i < Len(piece) => piece[i] = frame[i]

LEMMA BeginsItself == \A frame \in Seq(Tokens) : Begins(frame, frame)
BY LenProperties DEF Begins

\* What is left of a frame after a failure.
LEMMA TornShape ==
    ASSUME NEW n \in 0 .. Items, NEW piece \in Torn(n)
    PROVE  \/ /\ Begins(piece, Frame(FieldsOf(n), n))
              /\ Len(piece) < Len(Frame(FieldsOf(n), n))
           \/ n \in withPayload /\ piece = Frame(WithoutPayload, n)
<1> DEFINE fields == FieldsOf(n)
<1> DEFINE frame == Frame(fields, n)
<1> DEFINE Before(k) == SubSeq(frame, 1, k)
<1>1. fields \in {Fields, WithoutPayload}
    BY DEF FieldsOf
<1>2. /\ frame \in Seq(Tokens) /\ Len(frame) = 2 * Len(fields) + 2 /\ Len(fields) \in 7..8
      /\ frame[2 * Len(fields) + 2] = Mark(">")
    <2> HIDE DEF fields
    <2>1. Len(fields) \in 7..8
        BY <1>1, FieldsHave
    <2> QED BY <1>1, <2>1, FrameShape
<1> HIDE DEF frame, fields
<1>3. ASSUME NEW k \in 0 .. Len(frame)
      PROVE  /\ Before(k) \in Seq(Tokens) /\ Len(Before(k)) = k
             /\ \A i \in 1 .. k : Before(k)[i] = frame[i]
    <2>1. Len(frame) \in Nat /\ 1 + k - 1 = k
        BY <1>2
    <2>2. k = 0 \/ k \in 1 .. Len(frame)
        BY <2>1
    <2>3. /\ Before(k) \in Seq(Tokens) /\ Len(Before(k)) = k
        BY <1>2, <2>1, SubSeqProperties
    <2>4. \A i \in 1 .. k : Before(k)[i] = frame[1 + i - 1]
        BY <1>2, <2>1, <2>3, SubSeqProperties
    <2> QED BY <2>1, <2>3, <2>4
<1>4. \/ \E k \in 0 .. Len(frame) - 1 : piece = Before(k)
      \/ \E k \in {j \in 1 .. Len(frame) : frame[j].is \in FieldNames} :
             piece = [Before(k) EXCEPT ![k].whole = FALSE]
      \/ n \in withPayload /\ piece = Frame(WithoutPayload, n)
    <2>1. piece \in {Before(k) : k \in 0 .. Len(frame) - 1}
                    \cup {[Before(k) EXCEPT ![k].whole = FALSE] :
                              k \in {j \in 1 .. Len(frame) : frame[j].is \in FieldNames}}
                    \cup (IF n \in withPayload THEN {Frame(WithoutPayload, n)} ELSE {})
        BY DEF Torn, frame, fields
    <2> HIDE DEF Before
    <2> QED BY <2>1
<1> HIDE DEF Before
<1>5. CASE \E k \in 0 .. Len(frame) - 1 : piece = Before(k)
    <2>1. PICK k \in 0 .. Len(frame) - 1 : piece = Before(k)
        BY <1>5
    <2>2. k \in 0 .. Len(frame) /\ k < Len(frame)
        BY <1>2, <2>1
    <2>3. Begins(piece, frame) /\ Len(piece) < Len(frame)
        <3>1. /\ piece \in Seq(Tokens) /\ Len(piece) = k
              /\ \A i \in 1 .. k : piece[i] = frame[i]
            BY <1>3, <2>1, <2>2
        <3> QED BY <1>2, <2>2, <3>1 DEF Begins
    <2> QED BY <2>3 DEF frame, fields
<1>6. CASE \E k \in {j \in 1 .. Len(frame) : frame[j].is \in FieldNames} :
               piece = [Before(k) EXCEPT ![k].whole = FALSE]
    <2>1. PICK k \in {j \in 1 .. Len(frame) : frame[j].is \in FieldNames} :
               piece = [Before(k) EXCEPT ![k].whole = FALSE]
        BY <1>6
    <2>2. k \in 1 .. Len(frame) /\ k \in 0 .. Len(frame) /\ k < Len(frame)
        <3>1. frame[k].is # ">" /\ k \in 1 .. Len(frame)
            BY <2>1, FieldsHave
        <3>2. frame[Len(frame)].is = ">"
            BY <1>2, TokensHave
        <3> QED BY <1>2, <3>1, <3>2
    <2>3. /\ Before(k) \in Seq(Tokens) /\ Len(Before(k)) = k
          /\ \A i \in 1 .. k : Before(k)[i] = frame[i]
        BY <1>3, <2>2
    <2>4. k \in 1 .. k /\ frame[k] \in Tokens
        BY <1>2, <2>2, ElementOfSeq
    <2> DEFINE last == [frame[k] EXCEPT !.whole = FALSE]
    <2>5. last \in Tokens /\ last.is = frame[k].is /\ last.n = frame[k].n
        BY <2>4 DEF Tokens
    <2>6. piece = [Before(k) EXCEPT ![k] = last]
        BY <2>1, <2>3, <2>4
    <2> HIDE DEF last
    <2>7. /\ piece \in Seq(Tokens) /\ Len(piece) = k
          /\ \A i \in 1 .. k : piece[i] = IF i = k THEN last ELSE Before(k)[i]
        BY <2>3, <2>4, <2>5, <2>6, ExceptSeq
    <2>8. Begins(piece, frame) /\ Len(piece) < Len(frame)
        BY <1>2, <2>2, <2>3, <2>5, <2>7 DEF Begins
    <2> QED BY <2>8 DEF frame, fields
<1> QED BY <1>4, <1>5, <1>6

\* What has been written of a frame is a piece of the file.
LEMMA NewPiece ==
    ASSUME file \in Seq(Tokens), NEW fields \in {Fields, WithoutPayload},
           NEW n \in 0 .. Items, NEW piece, Begins(piece, Frame(fields, n)),
           file' = file \o piece,
           NEW first, first = Len(file) + 1, NEW end, end = first + Len(piece)
    PROVE  Piece(fields, n, first, end)'
<1> DEFINE frame == Frame(fields, n)
<1> DEFINE L == Len(fields)
<1>1. /\ Len(file) \in Nat /\ piece \in Seq(Tokens) /\ Len(piece) \in Nat /\ L \in 7..8
      /\ fields \in Seq(FieldNames)
    BY FieldsHave, LenProperties DEF Begins
<1>2. ASSUME NEW i \in 1 .. Len(piece)
      PROVE  file'[Len(file) + i] = piece[i]
    BY <1>1, ConcatProperties
<1>3. /\ Len(frame) = 2 * L + 2
      /\ frame[1] = Mark("<")
      /\ \A j \in 1 .. L : frame[2 * j] = Text(n, fields[j]) /\ frame[2 * j + 1] = Mark("0")
      /\ frame[2 * L + 2] = Mark(">")
    BY FrameShape
<1>4. /\ Len(piece) <= Len(frame)
      /\ \A i \in 1 .. Len(piece) :
             /\ piece[i].is = frame[i].is /\ piece[i].n = frame[i].n
             /\ i < Len(piece) => piece[i] = frame[i]
    BY DEF Begins
<1> HIDE DEF frame, L
<1>5. end <= first + 2 * L + 2
    BY <1>1, <1>3, <1>4
<1>6. end > first => file'[first].is = "<"
    <2> SUFFICES ASSUME end > first PROVE file'[first].is = "<"
        OBVIOUS
    <2>1. 1 \in 1 .. Len(piece)
        BY <1>1
    <2> QED BY <1>2, <1>3, <1>4, <2>1, TokensHave
<1>7. ASSUME NEW j \in 1 .. L, first + 2 * j - 1 < end
      PROVE  file'[first + 2 * j - 1].is = fields[j] /\ file'[first + 2 * j - 1].n = n
    <2>1. 2 * j \in 1 .. Len(piece) /\ first + 2 * j - 1 = Len(file) + 2 * j
        BY <1>1, <1>7
    <2>2. fields[j] \in FieldNames
        BY <1>1, ElementOfSeq DEF L
    <2>3. frame[2 * j].is = fields[j] /\ frame[2 * j].n = n
        BY <1>3, <2>2, TokensHave
    <2>4. file'[Len(file) + 2 * j] = piece[2 * j]
        BY <1>2, <2>1
    <2> QED BY <1>4, <2>1, <2>3, <2>4
<1>8. ASSUME NEW j \in 1 .. L, first + 2 * j < end
      PROVE  /\ file'[first + 2 * j - 1] = Text(n, fields[j])
             /\ file'[first + 2 * j].is = "0"
    <2>1. /\ 2 * j \in 1 .. Len(piece) /\ first + 2 * j - 1 = Len(file) + 2 * j
          /\ 2 * j < Len(piece)
          /\ 2 * j + 1 \in 1 .. Len(piece) /\ first + 2 * j = Len(file) + (2 * j + 1)
        BY <1>1, <1>8
    <2>2. frame[2 * j] = Text(n, fields[j]) /\ frame[2 * j + 1].is = "0"
        BY <1>3, TokensHave
    <2>3. /\ file'[Len(file) + 2 * j] = piece[2 * j]
          /\ file'[Len(file) + (2 * j + 1)] = piece[2 * j + 1]
        BY <1>2, <2>1
    <2>4. piece[2 * j] = frame[2 * j] /\ piece[2 * j + 1].is = frame[2 * j + 1].is
        BY <1>4, <2>1
    <2> QED BY <2>1, <2>2, <2>3, <2>4
<1>9. end = first + 2 * L + 2 => file'[end - 1].is = ">"
    <2> SUFFICES ASSUME end = first + 2 * L + 2 PROVE file'[end - 1].is = ">"
        OBVIOUS
    <2>1. 2 * L + 2 \in 1 .. Len(piece) /\ end - 1 = Len(file) + (2 * L + 2)
        BY <1>1
    <2> QED BY <1>2, <1>3, <1>4, <2>1, TokensHave
<1> QED BY <1>5, <1>6, <1>7, <1>8, <1>9 DEF Piece, L

LEMMA PieceKept ==
    ASSUME NEW fields \in {Fields, WithoutPayload}, NEW n, NEW first \in Nat, NEW end \in Nat,
           first > 0, end <= Len(file) + 1, Len(file) \in Nat,
           \A p \in 1 .. Len(file) : file'[p] = file[p],
           Piece(fields, n, first, end)
    PROVE  Piece(fields, n, first, end)'
<1>1. Len(fields) \in 7..8
    BY FieldsHave
<1>2. end <= first + 2 * Len(fields) + 2
    BY DEF Piece
<1>3. \A p \in Nat : first <= p /\ p < end => file'[p] = file[p]
    OBVIOUS
<1>4. end > first => file'[first].is = "<"
    BY <1>3 DEF Piece
<1>5. ASSUME NEW j \in 1 .. Len(fields), first + 2 * j - 1 < end
      PROVE  file'[first + 2 * j - 1].is = fields[j] /\ file'[first + 2 * j - 1].n = n
    <2>1. first + 2 * j - 1 \in Nat /\ first <= first + 2 * j - 1
        BY <1>1
    <2>2. file'[first + 2 * j - 1] = file[first + 2 * j - 1]
        BY <1>3, <1>5, <2>1
    <2> QED BY <1>5, <2>2 DEF Piece
<1>6. ASSUME NEW j \in 1 .. Len(fields), first + 2 * j < end
      PROVE  file'[first + 2 * j - 1] = Text(n, fields[j]) /\ file'[first + 2 * j].is = "0"
    <2>1. /\ first + 2 * j - 1 \in Nat /\ first <= first + 2 * j - 1
          /\ first + 2 * j - 1 < end /\ first + 2 * j \in Nat /\ first <= first + 2 * j
        BY <1>1, <1>6
    <2>2. /\ file'[first + 2 * j - 1] = file[first + 2 * j - 1]
          /\ file'[first + 2 * j] = file[first + 2 * j]
        BY <1>3, <1>6, <2>1
    <2> QED BY <1>6, <2>2 DEF Piece
<1>7. end = first + 2 * Len(fields) + 2 => file'[end - 1].is = ">"
    <2>1. end = first + 2 * Len(fields) + 2 =>
              end - 1 \in Nat /\ first <= end - 1 /\ end - 1 < end
        BY <1>1
    <2> QED BY <1>3, <2>1 DEF Piece
<1> QED BY <1>2, <1>4, <1>5, <1>6, <1>7 DEF Piece

LEMMA ItemsTyped ==
    ASSUME FileTypeOK
    PROVE  /\ written \in 0 .. Items /\ torn \subseteq 1 .. written
           /\ file \in Seq(Tokens) /\ Len(file) \in Nat
BY LenProperties DEF FileTypeOK

\* One more piece: start is extended by where the next one will be.
LEMMA OneMorePiece ==
    ASSUME FileTypeOK, NEW start, NEW silent, Layout(start, silent), written < Items,
           written' = written + 1, UNCHANGED withPayload,
           NEW fields \in {Fields, WithoutPayload}, NEW piece,
           Begins(piece, Frame(fields, written + 1)), file' = file \o piece,
           NEW silenced, silenced \subseteq torn' \cap withPayload,
           torn' \in {torn, torn \cup {written + 1}},
           \A n \in 1 .. written : n \in silenced <=> n \in silent,
           fields = IF written + 1 \in withPayload \ silenced THEN Fields ELSE WithoutPayload,
           Len(piece) = Len(Frame(fields, written + 1)) <=>
               written + 1 \notin torn' \/ written + 1 \in silenced
    PROVE  \E next : Layout(next, silenced)'
<1> DEFINE last == written + 1
<1>1. /\ written \in Nat /\ last \in 0 .. Items /\ file \in Seq(Tokens) /\ Len(file) \in Nat
      /\ torn \subseteq 1 .. written
    BY ItemsTyped
<1>2. piece \in Seq(Tokens) /\ Len(piece) \in Nat
    BY LenProperties DEF Begins
<1>3. /\ file' \in Seq(Tokens) /\ Len(file') = Len(file) + Len(piece)
      /\ \A p \in 1 .. Len(file) : file'[p] = file[p]
    BY <1>1, <1>2, ConcatProperties
<1>4. /\ start \in [1 .. written + 1 -> Nat] /\ start[1] = 1
      /\ start[written + 1] = Len(file) + 1
      /\ \A m, n \in 1 .. written + 1 : m <= n => start[m] <= start[n]
    BY DEF Layout
<1>5. PICK next : next = [n \in 1 .. written + 2 |->
                              IF n = written + 2 THEN Len(file') + 1 ELSE start[n]]
    OBVIOUS
<1>6. /\ next \in [1 .. written + 2 -> Nat]
      /\ next[written + 2] = Len(file') + 1
      /\ \A n \in 1 .. written + 1 : next[n] = start[n]
    BY <1>1, <1>2, <1>3, <1>4, <1>5
<1>7. \A m, n \in 1 .. written + 2 : m <= n => next[m] <= next[n]
    <2> SUFFICES ASSUME NEW m \in 1 .. written + 2, NEW n \in 1 .. written + 2, m <= n
                 PROVE  next[m] <= next[n]
        OBVIOUS
    <2>1. CASE n # written + 2
        <3>1. m \in 1 .. written + 1 /\ n \in 1 .. written + 1
            BY <1>1, <2>1
        <3> QED BY <1>4, <1>6, <3>1
    <2>2. CASE n = written + 2 /\ m # written + 2
        <3>1. /\ m \in 1 .. written + 1 /\ written + 1 \in 1 .. written + 1
              /\ m <= written + 1
            BY <1>1, <2>2
        <3>2. start[m] <= Len(file) + 1 /\ start[m] \in Nat
            BY <1>4, <3>1
        <3> QED BY <1>1, <1>2, <1>3, <1>6, <2>2, <3>1, <3>2
    <2>3. CASE n = written + 2 /\ m = written + 2
        BY <1>1, <1>2, <1>3, <1>6, <2>3
    <2> QED BY <2>1, <2>2, <2>3
<1>8. \A n : InFile(silenced, n)' = InFile(silenced, n)
    BY DEF InFile
<1>9. ASSUME NEW n \in 1 .. written + 1, NEW gs, gs = InFile(silenced, n)
      PROVE  /\ Piece(gs, n, next[n], next[n + 1])'
             /\ next[n + 1] = next[n] + 2 * Len(gs) + 2 <=> n \notin torn' \/ n \in silenced
    <2>1. CASE n = written + 1
        <3>1. /\ next[n] = Len(file) + 1 /\ next[n + 1] = next[n] + Len(piece)
              /\ n \in 0 .. Items /\ next[n] \in Nat
            BY <1>1, <1>2, <1>3, <1>4, <1>6, <2>1
        <3>2. gs = fields
            BY <1>9, <2>1 DEF InFile
        <3>3. Piece(gs, n, next[n], next[n + 1])'
            BY <1>1, <2>1, <3>1, <3>2, NewPiece
        <3>4. Len(Frame(gs, n)) = 2 * Len(gs) + 2 /\ Len(gs) \in 7..8
            BY <3>1, <3>2, FrameShape, FieldsHave
        <3>5. next[n + 1] \in Nat /\ 2 * Len(gs) + 2 \in Nat
            BY <1>2, <3>1, <3>4
        <3>6. next[n + 1] = next[n] + (2 * Len(gs) + 2) <=> Len(piece) = 2 * Len(gs) + 2
            <4> DEFINE i == next[n]  j == next[n + 1]  k == Len(piece)
                       l == 2 * Len(gs) + 2
            <4>1. i \in Nat /\ j \in Nat /\ k \in Nat /\ l \in Nat /\ j = i + k
                BY <1>2, <3>1, <3>5
            <4> HIDE DEF i, j, k, l
            <4>2. j = i + l <=> k = l
                BY <4>1
            <4> QED BY <4>2 DEF i, j, k, l
        <3>7. next[n] + (2 * Len(gs) + 2) = next[n] + 2 * Len(gs) + 2
            BY <3>1, <3>4
        <3> QED BY <2>1, <3>2, <3>3, <3>4, <3>6, <3>7
    <2>2. CASE n # written + 1
        <3>1. /\ n \in 1 .. written /\ n \in 1 .. written + 1 /\ n + 1 \in 1 .. written + 1
              /\ 1 <= n /\ n + 1 <= written + 1 /\ 1 \in 1 .. written + 1
              /\ written + 1 \in 1 .. written + 1 /\ n \in Nat
            BY <1>1, <2>2
        <3>2. /\ next[n] = start[n] /\ next[n + 1] = start[n + 1]
              /\ start[n] \in Nat /\ start[n + 1] \in Nat
              /\ start[n] > 0 /\ start[n + 1] <= Len(file) + 1
            <4>1. next[n] = start[n] /\ next[n + 1] = start[n + 1]
                BY <1>6, <3>1
            <4>2. start[1] <= start[n] /\ start[n + 1] <= start[written + 1]
                BY <1>4, <3>1
            <4>3. start[n] \in Nat /\ start[n + 1] \in Nat /\ start[1] = 1
                BY <1>4, <3>1
            <4> QED BY <1>4, <4>1, <4>2, <4>3
        <3>3. gs = InFile(silent, n) /\ gs \in {Fields, WithoutPayload}
            BY <1>9, <3>1 DEF InFile
        <3>4. /\ Piece(gs, n, start[n], start[n + 1])
              /\ start[n + 1] = start[n] + 2 * Len(gs) + 2 <=> n \notin torn \/ n \in silent
            BY <3>1, <3>3 DEF Layout
        <3>5. n \in torn' <=> n \in torn
            BY <1>1, <2>2
        <3>6. Piece(gs, n, start[n], start[n + 1])'
            BY <1>1, <1>3, <3>2, <3>3, <3>4, PieceKept
        <3> QED BY <3>1, <3>2, <3>4, <3>5, <3>6
    <2> QED BY <2>1, <2>2
<1>10. /\ next[1] = 1 /\ written + 1 + 1 = written + 2 /\ 1 \in 1 .. written + 1
    BY <1>1, <1>4, <1>6
<1>11. ASSUME NEW n \in 1 .. written', NEW gs \in {InFile(silenced, n)'}
       PROVE  /\ Piece(gs, n, next[n], next[n + 1])'
              /\ next[n + 1] = next[n] + 2 * Len(gs) + 2 <=> n \notin torn' \/ n \in silenced
    BY <1>8, <1>9
<1>12. Layout(next, silenced)'
    BY <1>6, <1>7, <1>10, <1>11 DEF Layout
<1> QED BY <1>12
\* The argument of a step that leaves the file alone.
LEMMA LayoutKept ==
    ASSUME NEW start, NEW silent, Layout(start, silent),
           UNCHANGED <<withPayload, file, written, torn>>
    PROVE  Layout(start, silent)'
BY DEF Layout, Piece, InFile

\* The parts of a file with a layout.
LEMMA Parts ==
    ASSUME FileTypeOK, NEW start, NEW silent, Layout(start, silent)
    PROVE  /\ \A n \in 1 .. written + 1 : start[n] \in 1 .. Len(file) + 1
           /\ start[1] = 1 /\ start[written + 1] = Len(file) + 1
           /\ \A m, n \in 1 .. written + 1 : m <= n => start[m] <= start[n]
           /\ silent \subseteq torn /\ silent \subseteq withPayload
<1>1. /\ start \in [1 .. written + 1 -> Nat] /\ start[1] = 1
      /\ start[written + 1] = Len(file) + 1
      /\ \A m, n \in 1 .. written + 1 : m <= n => start[m] <= start[n]
      /\ silent \subseteq torn \cap withPayload
    BY DEF Layout
<1>2. ASSUME NEW n \in 1 .. written + 1 PROVE start[n] \in 1 .. Len(file) + 1
    <2>1. /\ 1 \in 1 .. written + 1 /\ written + 1 \in 1 .. written + 1
          /\ 1 <= n /\ n <= written + 1
        BY ItemsTyped
    <2>2. start[1] <= start[n] /\ start[n] <= start[written + 1] /\ start[n] \in Nat
        BY <1>1, <2>1
    <2> QED BY <1>1, <2>2, ItemsTyped
<1> QED BY <1>1, <1>2

LEMMA PieceOf ==
    ASSUME FileTypeOK, NEW start, NEW silent, Layout(start, silent), NEW n \in 1 .. written,
           NEW fields, fields = InFile(silent, n)
    PROVE  /\ n \in 1 .. written + 1 /\ n + 1 \in 1 .. written + 1
           /\ start[n] \in 1 .. Len(file) + 1 /\ start[n + 1] \in 1 .. Len(file) + 1
           /\ start[n] <= start[n + 1]
           /\ fields \in {Fields, WithoutPayload} /\ Len(fields) \in 7..8
           /\ Piece(fields, n, start[n], start[n + 1])
<1>1. n \in 1 .. written + 1 /\ n + 1 \in 1 .. written + 1 /\ n <= n + 1
    BY ItemsTyped
<1>2. fields \in {Fields, WithoutPayload} /\ Len(fields) \in 7..8
    BY FieldsHave DEF InFile
<1>3. Piece(fields, n, start[n], start[n + 1])
    BY DEF Layout
<1>4. /\ start[n] \in 1 .. Len(file) + 1 /\ start[n + 1] \in 1 .. Len(file) + 1
      /\ start[n] <= start[n + 1]
    BY <1>1, Parts
<1> QED BY <1>1, <1>2, <1>3, <1>4

\* Every token of the file is of the piece of one item.
LEMMA OwnerOf ==
    ASSUME FileTypeOK, NEW start, NEW silent, Layout(start, silent),
           NEW p \in 1 .. Len(file)
    PROVE  \E m \in 1 .. written : start[m] <= p /\ p < start[m + 1]
<1> DEFINE T == {i \in 1 .. written + 1 : p < start[i]}
<1>1. written \in Nat /\ Len(file) \in Nat
    BY ItemsTyped
<1>2. T \subseteq Nat /\ T # {}
    <2>1. written + 1 \in 1 .. written + 1 /\ p < start[written + 1]
        BY <1>1, Parts
    <2> QED BY <2>1
<1>3. PICK k \in T : \A i \in T : k <= i
    BY <1>2, LeastElement
<1>4. k \in 1 .. written + 1 /\ p < start[k] /\ k # 1
    BY <1>3, Parts
<1>5. k - 1 \in 1 .. written /\ k - 1 \in 1 .. written + 1 /\ ~(k <= k - 1) /\ (k - 1) + 1 = k
    BY <1>1, <1>4
<1>6. ~(p < start[k - 1])
    BY <1>3, <1>5
<1>7. start[k - 1] \in Nat
    BY <1>1, <1>5, Parts
<1>8. start[k - 1] <= p
    BY <1>6, <1>7
<1> QED BY <1>4, <1>5, <1>8

LEMMA OwnerIsLater ==
    ASSUME FileTypeOK, NEW start, NEW silent, Layout(start, silent),
           NEW p \in Nat, NEW n \in 1 .. written + 1, start[n] <= p,
           NEW m \in 1 .. written, p < start[m + 1]
    PROVE  n <= m
<1>1. /\ written \in Nat /\ Len(file) \in Nat /\ m + 1 \in 1 .. written + 1
    BY ItemsTyped
<1>2. start[n] \in Nat /\ start[m + 1] \in Nat
    BY <1>1, Parts
<1>3. ~(start[m + 1] <= start[n])
    BY <1>2
<1>4. ~(m + 1 <= n)
    BY <1>1, <1>3, Parts
<1> QED BY <1>1, <1>4

\* A piece without a token is what is left of a torn frame.
LEMMA EmptyIsTorn ==
    ASSUME FileTypeOK, NEW start, NEW silent, Layout(start, silent),
           NEW n \in 1 .. written + 1, NEW m \in 1 .. written + 1, start[n] = start[m]
    PROVE  n .. m - 1 \subseteq torn
<1> SUFFICES ASSUME NEW i \in n .. m - 1 PROVE i \in torn
    OBVIOUS
<1>1. written \in Nat /\ Len(file) \in Nat
    BY ItemsTyped
<1>2. /\ i \in 1 .. written /\ i \in 1 .. written + 1 /\ i + 1 \in 1 .. written + 1
      /\ n <= i /\ i <= i + 1 /\ i + 1 <= m
    BY <1>1
<1>3. start[n] <= start[i] /\ start[i] <= start[i + 1] /\ start[i + 1] <= start[m]
    BY <1>2, Parts
<1>4. start[n] \in Nat /\ start[i] \in Nat /\ start[i + 1] \in Nat /\ start[m] \in Nat
    BY <1>1, <1>2, Parts
<1>5. start[i + 1] = start[i]
    BY <1>3, <1>4
<1>6. PICK fields : fields = InFile(silent, i)
    OBVIOUS
<1>7. /\ Len(fields) \in 7..8
      /\ start[i + 1] = start[i] + 2 * Len(fields) + 2 <=> i \notin torn \/ i \in silent
    <2>1. i \in 1 .. written
        BY <1>2
    <2>2. Len(fields) \in 7..8
        BY <1>6, FieldsHave DEF InFile
    <2>3. start[i + 1] = start[i] + 2 * Len(fields) + 2 <=> i \notin torn \/ i \in silent
        BY <1>6, <2>1 DEF Layout
    <2> QED BY <2>2, <2>3
<1>8. start[i] # start[i] + 2 * Len(fields) + 2
    BY <1>4, <1>7
<1> QED BY <1>5, <1>7, <1>8

LEMMA SettledOn ==
    ASSUME NEW n \in Nat, NEW m \in Nat, Settled(n), n <= m, n .. m - 1 \subseteq torn
    PROVE  Settled(m)
<1>1. 1 .. n - 1 \subseteq 1 .. m - 1
    OBVIOUS
<1>2. \A i \in 1 .. m - 1 : i \in 1 .. n - 1 \/ i \in n .. m - 1
    OBVIOUS
<1> QED BY <1>1, <1>2, Zenon DEF Settled

\* What is at the place of item n is the beginning of the frame of an item from n on;
\* those between have left nothing.
LEMMA FirstToken ==
    ASSUME FileTypeOK, NEW start, NEW silent, Layout(start, silent),
           NEW n \in 1 .. written + 1, start[n] <= Len(file)
    PROVE  /\ file[start[n]].is = "<"
           /\ \E m \in 1 .. written :
                  /\ start[m] = start[n] /\ start[m] < start[m + 1]
                  /\ Settled(n) => Settled(m)
<1> DEFINE p == start[n]
<1>1. written \in Nat /\ Len(file) \in Nat
    BY ItemsTyped
<1>2. p \in 1 .. Len(file)
    BY <1>1, Parts
<1>3. PICK m \in 1 .. written : start[m] <= p /\ p < start[m + 1]
    BY <1>2, OwnerOf
<1>4. /\ m \in 1 .. written + 1 /\ start[m] \in Nat /\ p \in Nat
    BY <1>1, <1>2, <1>3, Parts
<1>5. n <= m
    <2>1. start[n] <= p
        BY <1>4
    <2> QED BY <1>3, <1>4, <2>1, OwnerIsLater
<1>6. start[n] <= start[m]
    BY <1>4, <1>5, Parts
<1>7. start[m] = p
    BY <1>3, <1>4, <1>6
<1>8. n .. m - 1 \subseteq torn
    BY <1>4, <1>7, EmptyIsTorn
<1>9. Settled(n) => Settled(m)
    <2>1. n \in Nat /\ m \in Nat
        BY <1>1
    <2> QED BY <1>5, <1>8, <2>1, SettledOn
<1>10. file[start[m]].is = "<"
    <2>1. PICK fields : fields = InFile(silent, m)
        OBVIOUS
    <2>2. Piece(fields, m, start[m], start[m + 1])
        BY <2>1, PieceOf
    <2>3. start[m + 1] > start[m]
        BY <1>3, <1>7
    <2> QED BY <2>2, <2>3 DEF Piece
<1> QED BY <1>3, <1>7, <1>9, <1>10
\* read_string.
LEMMA EndOfString ==
    ASSUME FileTypeOK, NEW e, e = StringEnd
    PROVE  /\ e \in at .. Len(file) + 1
           /\ e <= Len(file) => file[e].is = "0"
           /\ \A i \in at .. e - 1 : file[i].is # "0"
<1> DEFINE ends == {i \in at .. Len(file) : file[i].is = "0"}
<1>1. at \in 1 .. Len(file) + 1 /\ Len(file) \in Nat
    BY ItemsTyped DEF FileTypeOK
<1>2. e = IF ends = {} THEN Len(file) + 1 ELSE CHOOSE i \in ends : \A j \in ends : i <= j
    BY DEF StringEnd
<1>3. CASE ends = {}
    BY <1>1, <1>2, <1>3
<1>4. CASE ends # {}
    <2>1. ends \subseteq Nat
        BY <1>1
    <2>2. \E i \in ends : \A j \in ends : i <= j
        BY <1>4, <2>1, LeastElement
    <2> HIDE DEF ends
    <2>3. e \in ends /\ \A j \in ends : e <= j
        BY <1>2, <1>4, <2>2
    <2>4. e \in at .. Len(file) /\ file[e].is = "0"
        BY <2>3 DEF ends
    <2>5. ASSUME NEW i \in at .. e - 1, file[i].is = "0" PROVE FALSE
        <3>1. i \in at .. Len(file) /\ ~(e <= i)
            BY <1>1, <2>4
        <3>2. i \in ends
            BY <2>5, <3>1 DEF ends
        <3> QED BY <2>3, <3>1, <3>2
    <2> QED BY <1>1, <2>4, <2>5
<1> QED BY <1>3, <1>4

LEMMA ReadString ==
    ASSUME FileTypeOK, NEW string, string = StringRead
    PROVE  /\ string \in Seq(Tokens)
           /\ Len(string) = StringEnd - at
           /\ Len(string) # 0 => at <= Len(file) /\ string[1] = file[at]
           /\ StringEnd = at + 1 => string = <<file[at]>>
<1>1. PICK e : e = StringEnd
    OBVIOUS
<1>2. /\ at \in 1 .. Len(file) + 1 /\ Len(file) \in Nat /\ file \in Seq(Tokens)
      /\ e \in at .. Len(file) + 1
    BY <1>1, ItemsTyped, EndOfString DEF FileTypeOK
<1>3. string = SubSeq(file, at, e - 1)
    BY <1>1 DEF StringRead
<1>4. /\ at \in 1 .. Len(file) + 1 /\ e - 1 \in at - 1 .. Len(file)
      /\ (e - 1) - at + 1 = e - at
    BY <1>2
<1>5. /\ string \in Seq(Tokens)
      /\ Len(string) = e - at
      /\ \A i \in 1 .. e - at : string[i] = file[at + i - 1]
    <2>1. string \in Seq(Tokens) /\ Len(string) = (IF at <= e - 1 THEN (e - 1) - at + 1 ELSE 0)
        BY <1>2, <1>3, <1>4, SubSeqProperties
    <2>2. Len(string) = e - at
        BY <1>2, <2>1
    <2>3. \A i \in 1 .. (e - 1) - at + 1 : string[i] = file[at + i - 1]
        BY <1>2, <1>3, <1>4, SubSeqProperties
    <2> QED BY <1>4, <2>1, <2>2, <2>3
<1>6. Len(string) # 0 => at <= Len(file) /\ string[1] = file[at]
    <2> SUFFICES ASSUME Len(string) # 0 PROVE at <= Len(file) /\ string[1] = file[at]
        OBVIOUS
    <2>1. 1 \in 1 .. e - at /\ at + 1 - 1 = at /\ at <= Len(file)
        BY <1>2, <1>5
    <2> QED BY <1>5, <2>1
<1>7. e = at + 1 => string = <<file[at]>>
    <2> SUFFICES ASSUME e = at + 1 PROVE string = <<file[at]>>
        OBVIOUS
    <2>1. Len(string) = 1 /\ string[1] = file[at] /\ at \in 1 .. Len(file)
        BY <1>2, <1>5, <1>6
    <2>2. file[at] \in Tokens
        BY <1>2, <2>1, ElementOfSeq
    <2>3. <<file[at]>> \in Seq(Tokens) /\ Len(<<file[at]>>) = 1 /\ <<file[at]>>[1] = file[at]
        BY <2>2
    <2>4. \A i \in 1 .. Len(string) : string[i] = <<file[at]>>[i]
        BY <2>1, <2>3
    <2> HIDE DEF StringRead
    <2> QED BY <1>5, <2>1, <2>3, <2>4, SeqEqual
<1> QED BY <1>1, <1>5, <1>6, <1>7

\* The first NUL at or after the place of an item ends an event: what follows it is
\* not the text of a number.
LEMMA AfterFirstNul ==
    ASSUME FileTypeOK, NEW start, NEW silent, Layout(start, silent),
           NEW n \in 1 .. written + 1, NEW p \in 1 .. Len(file), start[n] <= p,
           file[p].is = "0", \A i \in start[n] .. p - 1 : file[i].is # "0"
    PROVE  p + 1 > Len(file) \/ file[p + 1].is \notin NumericFields
<1>1. written \in Nat /\ Len(file) \in Nat
    BY ItemsTyped
<1>2. PICK m \in 1 .. written : start[m] <= p /\ p < start[m + 1]
    BY OwnerOf
<1>3. PICK fields : fields = InFile(silent, m)
    OBVIOUS
<1>4. /\ m \in 1 .. written + 1 /\ m + 1 \in 1 .. written + 1
      /\ start[m] \in 1 .. Len(file) + 1 /\ start[m + 1] \in 1 .. Len(file) + 1
      /\ fields \in {Fields, WithoutPayload} /\ Len(fields) \in 7..8
      /\ Piece(fields, m, start[m], start[m + 1])
    BY <1>1, <1>2, <1>3, PieceOf
<1>5. n <= m
    <2>1. p \in Nat
        BY <1>1
    <2> QED BY <1>2, <2>1, OwnerIsLater
<1>6. start[n] <= start[m] /\ start[n] \in Nat
    <2>1. start[n] <= start[m]
        BY <1>4, <1>5, Parts
    <2>2. start[n] \in 1 .. Len(file) + 1
        BY Parts
    <2> QED BY <1>1, <2>1, <2>2
<1> DEFINE s == start[m]  z == start[m + 1]  L == Len(fields)
<1>7. PICK d \in Nat : p = s + d
    <2>1. s \in Nat /\ p \in Nat /\ s <= p
        BY <1>1, <1>2, <1>4
    <2> HIDE DEF s
    <2>2. p - s \in Nat /\ p = s + (p - s)
        BY <2>1
    <2> QED BY <2>2
<1>8. /\ z <= s + 2 * L + 2
      /\ z > s => file[s].is = "<"
      /\ \A j \in 1 .. L :
             /\ s + 2 * j - 1 < z => file[s + 2 * j - 1].is = fields[j]
             /\ s + 2 * j < z => file[s + 2 * j].is = "0"
      /\ z = s + 2 * L + 2 => file[z - 1].is = ">"
    BY <1>4 DEF Piece
<1>9. \A j \in 1 .. L : fields[j] # "0"
    <2>1. \A field \in FieldNames : field # "0"
        BY FieldsHave
    <2> QED BY <1>4, <2>1, FieldsHave, ElementOfSeq
<1>10. /\ s \in Nat /\ z \in Nat /\ L \in 7..8 /\ p \in Nat /\ d \in Nat
       /\ s <= p /\ p < z /\ p = s + d /\ z <= s + 2 * L + 2 /\ z <= Len(file) + 1
       /\ start[n] \in Nat /\ start[n] <= s
    <2>1. s \in Nat /\ z \in Nat /\ z <= Len(file) + 1 /\ L \in 7..8 /\ p \in Nat
        BY <1>1, <1>4
    <2>2. z <= s + 2 * L + 2
        BY <1>8
    <2>3. s <= p /\ p < z /\ start[n] \in Nat /\ start[n] <= s
        BY <1>2, <1>6
    <2> HIDE DEF s, z, L
    <2> QED BY <1>7, <2>1, <2>2, <2>3
<1> HIDE DEF s, z, L
<1>11. d = 2
    <2>1. PICK j \in Nat : d = 2 * j \/ d = 2 * j + 1
        BY <1>7, Halves
    <2>2. d = 2 * j
        <3> SUFFICES ASSUME d = 2 * j + 1 PROVE FALSE
            BY <2>1
        <3>1. CASE j + 1 \in 1 .. L
            <4>1. p = s + 2 * (j + 1) - 1
                BY <1>10
            <4>2. s + 2 * (j + 1) - 1 < z
                BY <1>10
            <4>3. file[p].is = fields[j + 1]
                BY <1>8, <3>1, <4>1, <4>2
            <4> QED BY <1>9, <3>1, <4>3
        <3>2. CASE j + 1 \notin 1 .. L
            <4>1. j >= L
                BY <1>10, <3>2
            <4>2. p = z - 1 /\ z = s + 2 * L + 2
                BY <1>10, <4>1
            <4> QED BY <1>8, <4>2
        <3> QED BY <3>1, <3>2
    <2>3. j # 0
        <3> SUFFICES ASSUME j = 0 PROVE FALSE
            OBVIOUS
        <3>1. p = s /\ z > s
            BY <1>10, <2>2
        <3> QED BY <1>8, <3>1
    <2>4. j = 1
        <3> SUFFICES ASSUME j # 1 PROVE FALSE
            OBVIOUS
        <3>1. j > 1
            BY <2>1, <2>3
        <3>2. s + 2 * 1 < z /\ 1 \in 1 .. L /\ s + 2 * 1 \in start[n] .. p - 1
            BY <1>10, <2>2, <3>1
        <3>3. file[s + 2 * 1].is = "0"
            BY <1>8, <3>2
        <3> QED BY <3>2, <3>3
    <2> QED BY <2>2, <2>4
<1>12. CASE p + 1 = z
    <2>1. p + 1 <= Len(file) => file[p + 1].is = "<"
        BY <1>4, <1>12, FirstToken DEF z
    <2>2. p + 1 \in Nat /\ "<" \notin NumericFields
        BY <1>10, FieldsHave DEF NumericFields
    <2> QED BY <1>1, <2>1, <2>2
<1>13. CASE p + 1 # z
    <2>1. s + 2 * 2 - 1 < z /\ 2 \in 1 .. L /\ s + 2 * 2 - 1 = p + 1
        BY <1>10, <1>11, <1>13
    <2>2. file[p + 1].is = fields[2]
        BY <1>8, <2>1
    <2>3. fields[2] = "filename"
        BY <1>4 DEF Fields, WithoutPayload
    <2> QED BY <2>2, <2>3 DEF NumericFields
<1> QED BY <1>12, <1>13
-----------------------------------------------------------------------------
(* The steps.                                                              *)

LEMMA PrintedKept ==
    ASSUME PrintedInv, UNCHANGED <<withPayload, printed>>
    PROVE  PrintedInv'
BY DEF PrintedInv, PrintedWasWritten, ItemOf

LEMMA SettledKept ==
    ASSUME NEW n, Settled(n), UNCHANGED <<torn, printed>>
    PROVE  Settled(n)'
BY DEF Settled, PrintedItems, ItemOf

LEMMA StartIsInv == FileInit => FileInv
<1> SUFFICES ASSUME FileInit PROVE FileInv
    OBVIOUS
<1>1. FileTypeOK
    <2>1. \A field \in FieldNames : <<>> \in Seq(Tokens)
        OBVIOUS
    <2>2. logItem \in [FieldNames -> Seq(Tokens)]
        BY <2>1 DEF FileInit, NoItem
    <2> QED BY <2>2 DEF FileInit, FileTypeOK
<1>2. PrintedInv
    BY DEF FileInit, PrintedInv, PrintedWasWritten
<1>3. PICK start : start = [n \in 1 .. 1 |-> 1]
    OBVIOUS
<1>4. Layout(start, {})
    <2>1. written = 0 /\ file = <<>> /\ Len(file) = 0 /\ 1 .. written = {}
        BY DEF FileInit
    <2>2. start \in [1 .. written + 1 -> Nat] /\ start[1] = 1 /\ start[written + 1] = 1
        BY <1>3, <2>1
    <2>3. \A m, n \in 1 .. written + 1 : m <= n => start[m] <= start[n]
        BY <1>3, <2>1
    <2> QED BY <2>1, <2>2, <2>3 DEF Layout
<1>5. Parsing(start, {})
    BY FieldsHave DEF FileInit, Parsing
<1> QED BY <1>1, <1>2, <1>4, <1>5 DEF FileInv

LEMMA WriteKeepsInv == FileInv /\ WriteFrame => FileInv'
<1> SUFFICES ASSUME FileInv, WriteFrame PROVE FileInv'
    OBVIOUS
<1> DEFINE n == written + 1
<1> DEFINE frame == Frame(FieldsOf(n), n)
<1>1. FileTypeOK /\ PrintedInv
    BY DEF FileInv
<1>2. PICK start, silent : Layout(start, silent) /\ Parsing(start, silent)
    BY DEF FileInv
<1>3. /\ written \in Nat /\ written < Items /\ written' = n /\ n \in 0 .. Items
      /\ n \in 1 .. n /\ torn \subseteq 1 .. written /\ n \notin torn
      /\ torn \subseteq 1 .. n /\ UNCHANGED withPayload /\ file \in Seq(Tokens)
    <2>1. /\ written < Items /\ written' = n /\ UNCHANGED withPayload
        BY DEF WriteFrame
    <2> QED BY <1>1, <2>1, ItemsTyped
<1>4. silent \subseteq torn \cap withPayload /\ n \notin silent
    BY <1>2, <1>3 DEF Layout
<1>5. FieldsOf(n) \in {Fields, WithoutPayload}
    BY DEF FieldsOf
<1>6. /\ frame \in Seq(Tokens) /\ Len(frame) \in Nat /\ Begins(frame, frame)
    <2>1. frame \in Seq(Tokens)
        BY <1>3, <1>5, FrameShape
    <2> HIDE DEF frame
    <2> QED BY <2>1, LenProperties, BeginsItself
<1>7. \E next, silenced, piece :
          /\ Layout(next, silenced)' /\ piece \in Seq(Tokens) /\ file' = file \o piece
          /\ torn' \in {torn, torn \cup {n}}
    <2>1. CASE file' = file \o frame /\ UNCHANGED torn
        <3>1. FieldsOf(n) = IF n \in withPayload \ silent THEN Fields ELSE WithoutPayload
            BY <1>4 DEF FieldsOf
        <3>2. silent \subseteq torn' \cap withPayload /\ torn' \in {torn, torn \cup {n}}
            BY <1>4, <2>1
        <3>3. Len(frame) = Len(frame) <=> n \notin torn' \/ n \in silent
            BY <1>3, <2>1
        <3>4. \E next : Layout(next, silent)'
            BY <1>1, <1>2, <1>3, <1>5, <1>6, <2>1, <3>1, <3>2, <3>3, OneMorePiece
        <3> QED BY <1>6, <2>1, <3>2, <3>4
    <2>2. ASSUME torn' = torn \cup {n}, NEW piece \in Torn(n), file' = file \o piece,
                 Begins(piece, frame), Len(piece) < Len(frame)
          PROVE  \E next : Layout(next, silent)'
        <3>1. FieldsOf(n) = IF n \in withPayload \ silent THEN Fields ELSE WithoutPayload
            BY <1>4 DEF FieldsOf
        <3>2. silent \subseteq torn' \cap withPayload /\ torn' \in {torn, torn \cup {n}}
            BY <1>4, <2>2
        <3>3. Len(piece) = Len(frame) <=> n \notin torn' \/ n \in silent
            BY <1>4, <1>6, <2>2
        <3> QED BY <1>1, <1>2, <1>3, <1>5, <2>2, <3>1, <3>2, <3>3, OneMorePiece
    <2>3. ASSUME torn' = torn \cup {n}, file' = file \o Frame(WithoutPayload, n),
                 n \in withPayload
          PROVE  \E next, silenced : Layout(next, silenced)'
        <3>1. PICK silenced : silenced = silent \cup {n}
            OBVIOUS
        <3>2. PICK piece : piece = Frame(WithoutPayload, n)
            OBVIOUS
        <3>3. PICK fields : fields = WithoutPayload
            OBVIOUS
        <3>4. fields = IF n \in withPayload \ silenced THEN Fields ELSE WithoutPayload
            BY <3>1, <3>3
        <3>5. silenced \subseteq torn' \cap withPayload /\ torn' \in {torn, torn \cup {n}}
            BY <1>4, <2>3, <3>1
        <3>6. \A i \in 1 .. written : i \in silenced <=> i \in silent
            BY <1>3, <3>1
        <3>7. fields \in {Fields, WithoutPayload} /\ file' = file \o piece
            BY <2>3, <3>2, <3>3
        <3>8. Begins(piece, Frame(fields, n))
            <4>1. piece \in Seq(Tokens)
                BY <1>3, <3>2, FrameShape
            <4> QED BY <3>2, <3>3, <4>1, BeginsItself
        <3>9. Len(piece) = Len(Frame(fields, n)) <=> n \notin torn' \/ n \in silenced
            BY <3>1, <3>2, <3>3
        <3> HIDE DEF frame
        <3> QED BY <1>1, <1>2, <1>3, <3>4, <3>5, <3>6, <3>7, <3>8, <3>9, OneMorePiece
    <2>4. CASE torn' = torn \cup {n} /\ \E piece \in Torn(n) : file' = file \o piece
        <3>1. PICK piece \in Torn(n) : file' = file \o piece
            BY <2>4
        <3>2. \/ Begins(piece, frame) /\ Len(piece) < Len(frame)
              \/ n \in withPayload /\ piece = Frame(WithoutPayload, n)
            BY <1>3, TornShape
        <3>3. piece \in Seq(Tokens)
            <4>1. Frame(WithoutPayload, n) \in Seq(Tokens)
                BY <1>3, FrameShape
            <4> QED BY <3>2, <4>1 DEF Begins
        <3>4. \E next, silenced : Layout(next, silenced)'
            BY <2>2, <2>3, <2>4, <3>1, <3>2
        <3> QED BY <2>4, <3>1, <3>3, <3>4
    <2>5. \/ file' = file \o frame /\ UNCHANGED torn
          \/ torn' = torn \cup {n} /\ \E piece \in Torn(n) : file' = file \o piece
        BY <1>3 DEF WriteFrame
    <2> QED BY <2>1, <2>4, <2>5
<1>8. PICK next, silenced, piece :
          /\ Layout(next, silenced)' /\ piece \in Seq(Tokens) /\ file' = file \o piece
          /\ torn' \in {torn, torn \cup {n}}
    BY <1>7
<1>9. /\ parseState = "write" /\ UNCHANGED <<withPayload, parseState, at, logItem, printed>>
      /\ at = 1 /\ printed = <<>> /\ logItem = NoItem
    BY <1>2 DEF WriteFrame, Parsing
<1>10. FileTypeOK'
    <2>1. file' \in Seq(Tokens) /\ Len(file') \in Nat
        BY <1>3, <1>8, ConcatProperties, LenProperties
    <2>2. written' \in 0 .. Items /\ torn' \subseteq 1 .. written'
        BY <1>3, <1>8
    <2>3. at' \in 1 .. Len(file') + 1
        BY <1>9, <2>1
    <2> QED BY <1>1, <1>9, <2>1, <2>2, <2>3 DEF FileTypeOK
<1>11. PrintedInv'
    BY <1>1, <1>9, PrintedKept
<1>12. Parsing(next, silenced)'
    BY <1>9, FieldsHave DEF Parsing, NoItem
<1> QED BY <1>8, <1>10, <1>11, <1>12 DEF FileInv

LEMMA StartKeepsInv == FileInv /\ StartParser => FileInv'
<1> SUFFICES ASSUME FileInv, StartParser PROVE FileInv'
    OBVIOUS
<1>1. FileTypeOK /\ PrintedInv
    BY DEF FileInv
<1>2. PICK start, silent : Layout(start, silent) /\ Parsing(start, silent)
    BY DEF FileInv
<1>3. /\ parseState' = "<" /\ at = 1 /\ printed = <<>> /\ logItem = NoItem
      /\ UNCHANGED <<withPayload, file, written, torn, at, logItem, printed>>
    BY <1>2 DEF StartParser, Parsing
<1>4. Layout(start, silent)'
    BY <1>2, <1>3, LayoutKept
<1>5. FileTypeOK'
    BY <1>1, <1>3 DEF FileTypeOK
<1>6. PrintedInv'
    BY <1>1, <1>3, PrintedKept
<1>7. 1 \in 1 .. written' + 1 /\ Settled(1)' /\ Between(start, 1)'
    <2>1. 1 \in 1 .. written' + 1
        BY <1>1, <1>3, ItemsTyped
    <2>2. Settled(1)'
        BY <1>3 DEF Settled, PrintedItems
    <2>3. start[1] = 1
        BY <1>1, <1>2, Parts
    <2>4. Between(start, 1)'
        BY <1>3, <2>3, FieldsHave DEF Between, NoItem
    <2> QED BY <2>1, <2>2, <2>4
<1>8. Parsing(start, silent)'
    BY <1>3, <1>7, FieldsHave DEF Parsing
<1> QED BY <1>4, <1>5, <1>6, <1>8 DEF FileInv

LEMMA FindKeepsInv == FileInv /\ FindStart => FileInv'
<1> SUFFICES ASSUME FileInv, FindStart PROVE FileInv'
    OBVIOUS
<1>1. FileTypeOK /\ PrintedInv
    BY DEF FileInv
<1>2. PICK start, silent : Layout(start, silent) /\ Parsing(start, silent)
    BY DEF FileInv
<1>3. /\ parseState = "<"
      /\ UNCHANGED <<withPayload, file, written, torn, logItem, printed>>
      /\ at' = After(at)
      /\ parseState' = CASE at > Len(file) -> "done"
                         [] at <= Len(file) /\ file[at].is = "<" -> "event"
                         [] OTHER -> "<"
    BY DEF FindStart
<1>4. PICK n \in 1 .. written + 1 : Settled(n) /\ Between(start, n)
    BY <1>2, <1>3 DEF Parsing
<1>5. Layout(start, silent)'
    BY <1>2, <1>3, LayoutKept
<1>6. PrintedInv'
    BY <1>1, <1>3, PrintedKept
<1>7. /\ at \in 1 .. Len(file) + 1 /\ Len(file) \in Nat /\ written \in Nat
      /\ start[n] \in 1 .. Len(file) + 1
      /\ logItem["payload"] = <<>>
      /\ at = start[n] \/ (at = start[n] - 1 /\ file[at].is = ">")
    BY <1>1, <1>2, <1>4, ItemsTyped, Parts DEF FileTypeOK, Between
<1>8. FileTypeOK'
    <2>1. at' \in 1 .. Len(file') + 1
        BY <1>3, <1>7 DEF After
    <2>2. parseState' \in {"done", "event", "<"}
        BY <1>3
    <2> QED BY <1>1, <1>3, <2>1, <2>2, FieldsHave DEF FileTypeOK
<1>9. CASE at > Len(file)
    <2>1. parseState' = "done"
        <3>1. ~(at <= Len(file))
            BY <1>7, <1>9
        <3> QED BY <1>3, <1>9, <3>1
    <2>2. start[n] = Len(file) + 1 /\ written + 1 \in 1 .. written + 1
        BY <1>7, <1>9
    <2>3. start[n] = start[written + 1]
        BY <1>1, <1>2, <2>2, Parts
    <2>4. Settled(written + 1)
        <3>1. n .. (written + 1) - 1 \subseteq torn
            BY <1>1, <1>2, <2>2, <2>3, EmptyIsTorn
        <3>2. n \in Nat /\ written + 1 \in Nat /\ n <= written + 1
            BY <1>7
        <3> QED BY <1>4, <3>1, <3>2, SettledOn
    <2>5. Settled(written + 1)'
        BY <1>3, <2>4 DEF Settled, PrintedItems, ItemOf
    <2>6. ((1 .. written) \ torn \subseteq PrintedItems)'
        <3>1. (written + 1) - 1 = written
            BY <1>7
        <3> QED BY <1>3, <2>4, <3>1 DEF Settled, PrintedItems, ItemOf
    <2>7. Parsing(start, silent)'
        BY <2>1, <2>6, FieldsHave DEF Parsing
    <2> QED BY <1>5, <1>6, <1>8, <2>7 DEF FileInv
<1>10. CASE at <= Len(file) /\ at = start[n] - 1 /\ file[at].is = ">"
    <2>1. parseState' = "<" /\ at' = start[n]
        BY <1>3, <1>7, <1>10 DEF After
    <2>2. Settled(n)' /\ Between(start, n)'
        BY <1>3, <1>4, <1>7, <2>1, SettledKept DEF Between
    <2>3. Parsing(start, silent)'
        BY <1>3, <2>1, <2>2, FieldsHave DEF Parsing
    <2> QED BY <1>5, <1>6, <1>8, <2>3 DEF FileInv
<1>11. CASE at <= Len(file) /\ at = start[n]
    <2>1. /\ file[at].is = "<"
          /\ \E m \in 1 .. written :
                 start[m] = at /\ start[m] < start[m + 1] /\ (Settled(n) => Settled(m))
        BY <1>1, <1>2, <1>11, FirstToken
    <2>2. PICK m \in 1 .. written : start[m] = at /\ start[m] < start[m + 1] /\ Settled(m)
        BY <1>4, <2>1
    <2>3. parseState' = "event" /\ at' = start[m] + 1
        BY <1>3, <1>7, <1>11, <2>1, <2>2 DEF After
    <2>4. Settled(m)'
        BY <1>3, <2>2, SettledKept
    <2>5. InStep(start, silent, m, 1)'
        <3>1. start[m + 1] \in Nat
            <4>1. m + 1 \in 1 .. written + 1
                BY <1>7
            <4> QED BY <1>1, <1>2, <1>7, <4>1, Parts
        <3>2. at' = start[m] + 2 * 1 - 1 /\ at' <= start[m + 1]
            BY <1>7, <2>2, <2>3, <3>1
        <3>3. 1 \in 1 .. Len(FieldsOf(m)') /\ FieldsOf(m)'[1] = "event"
            <4>1. FieldsOf(m)' = FieldsOf(m) /\ FieldsOf(m) \in {Fields, WithoutPayload}
                BY <1>3 DEF FieldsOf
            <4>2. Fields[1] = "event" /\ WithoutPayload[1] = "event"
                BY DEF Fields, WithoutPayload
            <4> QED BY <4>1, <4>2, FieldsHave
        <3>4. ~(\E k \in 1 .. 1 - 1 : TRUE)
            OBVIOUS
        <3>5. \A field \in FieldNames :
                  IF \E k \in 1 .. 1 - 1 : FieldsOf(m)'[k] = field
                  THEN logItem'[field] = <<Text(m, field)>>
                  ELSE field = "payload" => logItem'[field] = <<>>
            BY <1>3, <1>7, <3>4
        <3>6. m \in silent => 1 <= 6
            OBVIOUS
        <3> QED BY <2>3, <3>2, <3>3, <3>5, <3>6 DEF InStep
    <2>6. Parsing(start, silent)'
        <3>1. 1 \in 1 .. 8
            OBVIOUS
        <3>2. m \in 1 .. written'
            BY <1>3
        <3> QED BY <2>3, <2>4, <2>5, <3>1, <3>2, FieldsHave DEF Parsing
    <2> QED BY <1>5, <1>6, <1>8, <2>6 DEF FileInv
<1> QED BY <1>7, <1>9, <1>10, <1>11
\* The order in which the parser expects the fields.
LEMMA FieldOrder ==
    /\ FieldAfter("event") = "filename" /\ FieldAfter("filename") = "line"
    /\ FieldAfter("line") = "time" /\ FieldAfter("time") = "length"
    /\ FieldAfter("payload") = "source" /\ FieldAfter("source") = "checksum"
    /\ FieldAfter("checksum") = ">"
    /\ StringRead[1].n \in withPayload => FieldAfter("length") = "payload"
    /\ StringRead[1].n \notin withPayload => FieldAfter("length") = "source"
<1> DEFINE place(field) == CHOOSE i \in DOMAIN Fields : Fields[i] = field
<1>1. DOMAIN Fields = 1..8 /\ 1..8 = {1, 2, 3, 4, 5, 6, 7, 8}
    BY DEF Fields
<1>2. /\ Fields[1] = "event" /\ Fields[2] = "filename" /\ Fields[3] = "line"
      /\ Fields[4] = "time" /\ Fields[5] = "length" /\ Fields[6] = "payload"
      /\ Fields[7] = "source" /\ Fields[8] = "checksum"
    BY DEF Fields
<1>3. \A i, k \in DOMAIN Fields : Fields[i] = Fields[k] => i = k
    BY <1>1, <1>2
<1>4. \A i \in DOMAIN Fields : place(Fields[i]) = i
    BY <1>3, Zenon
<1> HIDE DEF place
<1>5. /\ place("event") = 1 /\ place("filename") = 2 /\ place("line") = 3
      /\ place("time") = 4 /\ place("length") = 5 /\ place("payload") = 6
      /\ place("source") = 7
    BY <1>1, <1>2, <1>4
<1>6. \A field : field \notin {"length", "checksum"} =>
                     FieldAfter(field) = Fields[1 + place(field)]
    BY DEF FieldAfter, place
<1>7. StringRead[1].n \in withPayload => FieldAfter("length") = Fields[1 + place("length")]
    BY DEF FieldAfter, place
<1>8. StringRead[1].n \notin withPayload => FieldAfter("length") = "source"
    BY DEF FieldAfter
<1>9. FieldAfter("checksum") = ">"
    BY DEF FieldAfter
<1> QED BY <1>2, <1>5, <1>6, <1>7, <1>8, <1>9

LEMMA FieldsAt ==
    ASSUME NEW m
    PROVE  \/ /\ m \in withPayload /\ FieldsOf(m) = Fields /\ Len(FieldsOf(m)) = 8
              /\ FieldsOf(m)[1] = "event" /\ FieldsOf(m)[2] = "filename"
              /\ FieldsOf(m)[3] = "line" /\ FieldsOf(m)[4] = "time"
              /\ FieldsOf(m)[5] = "length" /\ FieldsOf(m)[6] = "payload"
              /\ FieldsOf(m)[7] = "source" /\ FieldsOf(m)[8] = "checksum"
           \/ /\ m \notin withPayload /\ FieldsOf(m) = WithoutPayload
              /\ Len(FieldsOf(m)) = 7
              /\ FieldsOf(m)[1] = "event" /\ FieldsOf(m)[2] = "filename"
              /\ FieldsOf(m)[3] = "line" /\ FieldsOf(m)[4] = "time"
              /\ FieldsOf(m)[5] = "length" /\ FieldsOf(m)[6] = "source"
              /\ FieldsOf(m)[7] = "checksum"
<1>1. CASE m \in withPayload
    <2>1. FieldsOf(m) = Fields
        BY <1>1 DEF FieldsOf
    <2> QED BY <1>1, <2>1, FieldsHave DEF Fields
<1>2. CASE m \notin withPayload
    <2>1. FieldsOf(m) = WithoutPayload
        BY <1>2 DEF FieldsOf
    <2> QED BY <1>2, <2>1, FieldsHave DEF WithoutPayload
<1> QED BY <1>1, <1>2

\* The place of a field among the N fields of item m, and what the parser expects
\* after it.
InPlace(fields, N, m) ==
    /\ N \in 7..8
    /\ \A j \in 1 .. N : fields[j] \in FieldNames /\ (fields[j] = "checksum" <=> j = N)
    /\ \A j \in 1 .. N - 1 :
           \/ fields[j + 1] = FieldAfter(fields[j])
           \/ fields[j] = "length" /\ StringRead[1].n # m
    /\ \A field \in FieldNames \ {"checksum"} :
           (\E k \in 1 .. N - 1 : fields[k] = field)
               <=> ~(field = "payload" /\ m \notin withPayload)

LEMMA FieldPlaces ==
    ASSUME NEW m, NEW fields, fields = FieldsOf(m), NEW N, N = Len(fields)
    PROVE  InPlace(fields, N, m)
<1>1. CASE m \in withPayload
    <2>1. /\ N = 8
          /\ fields[1] = "event" /\ fields[2] = "filename" /\ fields[3] = "line"
          /\ fields[4] = "time" /\ fields[5] = "length" /\ fields[6] = "payload"
          /\ fields[7] = "source" /\ fields[8] = "checksum"
        BY <1>1, FieldsAt
    <2>2. /\ 1 .. N = {1, 2, 3, 4, 5, 6, 7, 8}
          /\ 1 .. N - 1 = {1, 2, 3, 4, 5, 6, 7}
        BY <2>1
    <2>3. \A j \in 1 .. N :
              fields[j] \in FieldNames /\ (fields[j] = "checksum" <=> j = N)
        BY <2>1, <2>2, FieldsHave
    <2>4. \A j \in 1 .. N - 1 :
              \/ fields[j + 1] = FieldAfter(fields[j])
              \/ fields[j] = "length" /\ StringRead[1].n # m
        BY <1>1, <2>1, <2>2, FieldOrder
    <2>5. \A field \in FieldNames \ {"checksum"} :
              \E k \in 1 .. N - 1 : fields[k] = field
        BY <2>1, <2>2, FieldsHave
    <2> QED BY <1>1, <2>1, <2>3, <2>4, <2>5 DEF InPlace
<1>2. CASE m \notin withPayload
    <2>1. /\ N = 7
          /\ fields[1] = "event" /\ fields[2] = "filename" /\ fields[3] = "line"
          /\ fields[4] = "time" /\ fields[5] = "length" /\ fields[6] = "source"
          /\ fields[7] = "checksum"
        BY <1>2, FieldsAt
    <2>2. /\ 1 .. N = {1, 2, 3, 4, 5, 6, 7}
          /\ 1 .. N - 1 = {1, 2, 3, 4, 5, 6}
        BY <2>1
    <2>3. \A j \in 1 .. N :
              fields[j] \in FieldNames /\ (fields[j] = "checksum" <=> j = N)
        BY <2>1, <2>2, FieldsHave
    <2>4. \A j \in 1 .. N - 1 :
              \/ fields[j + 1] = FieldAfter(fields[j])
              \/ fields[j] = "length" /\ StringRead[1].n # m
        BY <1>2, <2>1, <2>2, FieldOrder
    <2>5. \A field \in FieldNames \ {"checksum"} :
              (\E k \in 1 .. N - 1 : fields[k] = field) <=> field # "payload"
        BY <2>1, <2>2, FieldsHave
    <2> QED BY <1>2, <2>1, <2>3, <2>4, <2>5 DEF InPlace
<1> QED BY <1>1, <1>2

\* One call of read_string, and what the parser makes of it: it reads string, which
\* ends before e.
Read(e, string) ==
    /\ e <= Len(file) => file[e].is = "0" /\ at' = e + 1
    /\ e > Len(file) => at' = e
    /\ \A i \in at .. e - 1 : file[i].is # "0"
    /\ string = StringRead /\ Len(string) = e - at
    /\ Len(string) # 0 => at <= Len(file) /\ string[1] = file[at]
    /\ e = at + 1 => string = <<file[at]>>
    /\ \/ /\ \/ parseState \in {"filename", "payload"}
             \/ Len(string) = 1 /\ string[1].is \in NumericFields
          /\ logItem' = [logItem EXCEPT ![parseState] = string]
          /\ parseState' = FieldAfter(parseState)
       \/ /\ parseState \notin {"filename", "payload"}
          /\ ~(Len(string) = 1 /\ string[1].is \in NumericFields)
          /\ parseState' = "ValueError"
          /\ UNCHANGED logItem

LEMMA Reads ==
    ASSUME FileTypeOK, ParseField
    PROVE  \E e \in at .. Len(file) + 1, string \in Seq(Tokens) : Read(e, string)
<1>1. PICK e, string : e = StringEnd /\ string = StringRead
    OBVIOUS
<1>2. at \in 1 .. Len(file) + 1 /\ Len(file) \in Nat
    BY ItemsTyped DEF FileTypeOK
<1>3. /\ e \in at .. Len(file) + 1
      /\ e <= Len(file) => file[e].is = "0"
      /\ \A i \in at .. e - 1 : file[i].is # "0"
    BY <1>1, EndOfString
<1>4. /\ string \in Seq(Tokens) /\ Len(string) = e - at
      /\ Len(string) # 0 => at <= Len(file) /\ string[1] = file[at]
      /\ e = at + 1 => string = <<file[at]>>
    BY <1>1, ReadString
<1>5. (e <= Len(file) => at' = e + 1) /\ (e > Len(file) => at' = e)
    <2>1. at' = IF e > Len(file) THEN e ELSE e + 1
        BY <1>1 DEF ParseField, After
    <2> QED BY <1>2, <1>3, <2>1
<1>6. \/ /\ \/ parseState \in {"filename", "payload"}
            \/ Len(string) = 1 /\ string[1].is \in NumericFields
         /\ logItem' = [logItem EXCEPT ![parseState] = string]
         /\ parseState' = FieldAfter(parseState)
      \/ /\ parseState \notin {"filename", "payload"}
         /\ ~(Len(string) = 1 /\ string[1].is \in NumericFields)
         /\ parseState' = "ValueError"
         /\ UNCHANGED logItem
    BY <1>1 DEF ParseField, IsNumber
<1>7. Read(e, string)
    BY <1>1, <1>3, <1>4, <1>5, <1>6 DEF Read
<1> QED BY <1>3, <1>4, <1>7
\* Where the parser of item m may be after a field.
Advance(start, silent, m) ==
    \/ parseState' = "ValueError" /\ m \in torn
    \/ parseState' \in FieldNames /\ Lost(start, silent, m)'
    \/ parseState' \in FieldNames /\ \E j \in 1..8 : InStep(start, silent, m, j)'
    \/ parseState' = ">" /\ Complete(start, m)'

LEMMA Numeric ==
    /\ \A field \in FieldNames : field # "0"
    /\ \A field \in FieldNames \ {"filename", "payload"} : field \in NumericFields
    /\ {"source", "checksum", "line"} \subseteq FieldNames \ {"filename", "payload"}
    /\ {"source", "checksum", "line"} \subseteq NumericFields
    /\ "<" \notin NumericFields /\ ">" \notin NumericFields /\ "0" \notin NumericFields
BY FieldsHave DEF NumericFields

LEMMA LostAdvances ==
    ASSUME FileTypeOK, NEW start, NEW silent, Layout(start, silent), NEW m \in 1 .. written,
           Lost(start, silent, m), ParseField
    PROVE  Advance(start, silent, m)
<1>1. /\ parseState \in FieldNames /\ UNCHANGED <<withPayload, file, written, torn>>
      /\ at \in 1 .. Len(file) + 1 /\ Len(file) \in Nat
    BY ItemsTyped DEF ParseField, FileTypeOK
<1>2. PICK e \in at .. Len(file) + 1, string \in Seq(Tokens) : Read(e, string)
    BY Reads
<1> USE DEF Read
<1>3. m \in torn
    BY DEF Lost
<1>4. CASE /\ parseState \in FieldNames \ {"filename", "payload"}
           /\ at > Len(file) \/ file[at].is \notin NumericFields
    <2>1. ~(Len(string) = 1 /\ string[1].is \in NumericFields)
        <3>1. Len(string) = 1 => at <= Len(file) /\ string[1] = file[at]
            BY <1>2
        <3> QED BY <1>1, <1>4, <3>1
    <2> QED BY <1>2, <1>3, <1>4, <2>1 DEF Advance
<1>5. CASE parseState \in {"filename", "payload"} /\ at > Len(file)
    <2>1. parseState' \in {"line", "source"}
        BY <1>2, <1>5, FieldOrder
    <2>2. at' > Len(file')
        BY <1>1, <1>2, <1>5
    <2>3. Lost(start, silent, m)'
        BY <1>1, <1>3, <2>1, <2>2, Numeric DEF Lost
    <2> QED BY <2>1, <2>3, Numeric DEF Advance
<1>6. CASE m \in silent /\ parseState = "source" /\ at = start[m] + 13
    <2>1. PICK fields : fields = InFile(silent, m)
        OBVIOUS
    <2>2. fields = WithoutPayload /\ Len(fields) = 7 /\ fields[7] = "checksum"
        BY <1>6, <2>1, FieldsHave DEF InFile, WithoutPayload
    <2>3. /\ Piece(fields, m, start[m], start[m + 1])
          /\ start[m] \in 1 .. Len(file) + 1 /\ start[m + 1] \in 1 .. Len(file) + 1
        BY <2>1, PieceOf
    <2>4. start[m + 1] = start[m] + 16 /\ start[m] \in Nat
        <3>1. start[m + 1] = start[m] + 2 * Len(fields) + 2
            BY <1>6, <2>1 DEF Layout
        <3> QED BY <1>1, <2>2, <2>3, <3>1
    <2>5. file[at].is = "checksum" /\ file[at + 1].is = "0" /\ file[at + 2].is = ">"
        <3>1. /\ file[start[m] + 2 * 7 - 1].is = "checksum" /\ file[start[m] + 2 * 7].is = "0"
              /\ file[start[m + 1] - 1].is = ">"
            <4>1. /\ 7 \in 1 .. Len(fields) /\ start[m] + 2 * 7 < start[m + 1]
                  /\ start[m] + 2 * 7 - 1 < start[m + 1]
                  /\ start[m + 1] = start[m] + 2 * Len(fields) + 2
                BY <2>2, <2>4
            <4> QED BY <2>2, <2>3, <4>1 DEF Piece
        <3>2. /\ start[m] + 2 * 7 - 1 = at /\ start[m] + 2 * 7 = at + 1
              /\ start[m + 1] - 1 = at + 2
            BY <1>6, <2>4
        <3> QED BY <3>1, <3>2
    <2>6. at + 2 <= Len(file)
        <3> DEFINE s == start[m]  z == start[m + 1]
        <3>1. s \in Nat /\ z = s + 16 /\ z <= Len(file) + 1 /\ at = s + 13
            BY <1>1, <1>6, <2>3, <2>4
        <3> HIDE DEF s, z
        <3> QED BY <1>1, <3>1
    <2>7. e = at + 1
        <3>1. e # at
            BY <1>1, <1>2, <2>5, <2>6
        <3>2. ~(at + 1 \in at .. e - 1)
            BY <1>2, <2>5
        <3> QED BY <1>1, <1>2, <3>1, <3>2
    <2>8. Len(string) = 1 /\ string[1].is = "checksum"
        <3>1. Len(string) = 1
            BY <1>1, <1>2, <2>7
        <3> QED BY <1>2, <2>5, <3>1
    <2>9. parseState' = "checksum" /\ at' = at + 2
        <3>1. "checksum" \in NumericFields
            BY Numeric
        <3>2. e <= Len(file) /\ e + 1 = at + 2
            BY <1>1, <2>6, <2>7
        <3> QED BY <1>2, <1>6, <2>8, <3>1, <3>2, FieldOrder
    <2>10. file'[at'].is = ">"
        BY <1>1, <2>5, <2>9
    <2>11. Lost(start, silent, m)'
        BY <1>1, <1>3, <2>9, <2>10, Numeric DEF Lost
    <2> QED BY <2>9, <2>11, Numeric DEF Advance
<1> QED BY <1>4, <1>5, <1>6 DEF Lost

\* A field that is there with its terminator.
LEMMA FieldAdvances ==
    ASSUME FileTypeOK, NEW start, NEW silent, Layout(start, silent), NEW m \in 1 .. written,
           NEW j \in 1..8, InStep(start, silent, m, j), at + 1 < start[m + 1], ParseField
    PROVE  Advance(start, silent, m)
<1>1. PICK fields, N : fields = FieldsOf(m) /\ N = Len(fields)
    OBVIOUS
<1>2. /\ N \in 7..8
      /\ \A i \in 1 .. N :
             fields[i] \in FieldNames /\ (fields[i] = "checksum" <=> i = N)
      /\ \A i \in 1 .. N - 1 :
             \/ fields[i + 1] = FieldAfter(fields[i])
             \/ fields[i] = "length" /\ StringRead[1].n # m
      /\ \A field \in FieldNames \ {"checksum"} :
             (\E k \in 1 .. N - 1 : fields[k] = field)
                 <=> ~(field = "payload" /\ m \notin withPayload)
    <2>1. InPlace(fields, N, m)
        BY <1>1, FieldPlaces, Zenon
    <2>2. /\ N \in 7..8
          /\ \A i \in 1 .. N :
                 fields[i] \in FieldNames /\ (fields[i] = "checksum" <=> i = N)
        BY <2>1 DEF InPlace
    <2>3. \A i \in 1 .. N - 1 :
              \/ fields[i + 1] = FieldAfter(fields[i])
              \/ fields[i] = "length" /\ StringRead[1].n # m
        BY <2>1 DEF InPlace
    <2>4. \A field \in FieldNames \ {"checksum"} :
              (\E k \in 1 .. N - 1 : fields[k] = field)
                  <=> ~(field = "payload" /\ m \notin withPayload)
        BY <2>1 DEF InPlace
    <2> QED BY <2>2, <2>3, <2>4
<1>3. /\ parseState \in FieldNames /\ UNCHANGED <<withPayload, file, written, torn>>
      /\ at \in 1 .. Len(file) + 1 /\ Len(file) \in Nat
      /\ logItem \in [FieldNames -> Seq(Tokens)]
    BY ItemsTyped DEF ParseField, FileTypeOK
<1>4. PICK e \in at .. Len(file) + 1, string \in Seq(Tokens) : Read(e, string)
    BY Reads
<1> USE DEF Read
<1>5. /\ j \in 1 .. N /\ (m \in silent => j <= 6) /\ parseState = fields[j]
      /\ at = start[m] + 2 * j - 1
    BY <1>1 DEF InStep
<1>6. \A field \in FieldNames :
          IF \E k \in 1 .. j - 1 : fields[k] = field
          THEN logItem[field] = <<Text(m, field)>>
          ELSE field = "payload" => logItem[field] = <<>>
    BY <1>1 DEF InStep
<1>7. PICK there : there = InFile(silent, m)
    OBVIOUS
<1>8. /\ Piece(there, m, start[m], start[m + 1])
      /\ there \in {Fields, WithoutPayload} /\ Len(there) \in 7..8
      /\ start[m] \in 1 .. Len(file) + 1 /\ start[m + 1] \in 1 .. Len(file) + 1
    BY <1>7, PieceOf
<1>9. /\ start[m] \in Nat /\ start[m + 1] \in Nat /\ start[m + 1] <= Len(file) + 1
      /\ at = start[m] + 2 * j - 1 /\ at + 1 < start[m + 1] /\ j \in 1..8 /\ at \in Nat
    <2>1. start[m] \in Nat /\ start[m + 1] \in Nat /\ start[m + 1] <= Len(file) + 1
        BY <1>3, <1>8
    <2>2. at = start[m] + 2 * j - 1 /\ at + 1 < start[m + 1] /\ at \in Nat
        BY <1>3, <1>5
    <2> QED BY <2>1, <2>2
<1>10. /\ silent \subseteq torn /\ silent \subseteq withPayload
    BY Parts
<1>11. m \notin silent => there = fields
    BY <1>1, <1>7 DEF InFile, FieldsOf
<1>12. m \in silent => there = WithoutPayload /\ fields = Fields
    BY <1>1, <1>7, <1>10 DEF InFile, FieldsOf
<1>13. N \in 7..8
    BY <1>2
<1>14. j \in 1 .. Len(there)
    <2>1. m \notin silent => Len(there) = N
        BY <1>1, <1>11
    <2>2. Len(there) \in 7..8
        BY <1>8
    <2>3. PICK l : l = Len(there)
        OBVIOUS
    <2>4. (m \notin silent => l = N) /\ l \in 7..8
        BY <2>1, <2>2, <2>3
    <2>5. j \in 1 .. N /\ (m \in silent => j <= 6)
        BY <1>5
    <2>6. j \in 1 .. l
        <3>1. CASE m \in silent
            BY <2>4, <2>5, <3>1
        <3>2. CASE m \notin silent
            BY <2>4, <2>5, <3>2
        <3> QED BY <3>1, <3>2
    <2> QED BY <2>3, <2>6
<1>15. there[j] \in FieldNames
    BY <1>8, <1>14, FieldsHave, ElementOfSeq
<1>16. file[at] = Text(m, there[j]) /\ file[at + 1].is = "0"
    <2>1. start[m] + 2 * j = at + 1 /\ start[m] + 2 * j < start[m + 1]
        <3> DEFINE s == start[m]
        <3>1. s \in Nat /\ at = s + 2 * j - 1
            BY <1>9
        <3> HIDE DEF s
        <3>2. s + 2 * j = at + 1
            BY <3>1
        <3> QED BY <1>9, <3>2 DEF s
    <2>2. file[start[m] + 2 * j - 1] = Text(m, there[j]) /\ file[start[m] + 2 * j].is = "0"
        BY <1>8, <1>14, <2>1 DEF Piece
    <2> QED BY <1>5, <2>1, <2>2
<1>17. file[at].is = there[j] /\ file[at].n = m /\ file[at].is # "0"
    <2>1. m \in 0 .. Items
        BY ItemsTyped
    <2> QED BY <1>15, <1>16, <2>1, TokensHave, Numeric
<1>18. at + 1 <= Len(file)
    BY <1>3, <1>9
<1>19. e = at + 1
    <2>1. e # at
        BY <1>3, <1>4, <1>17, <1>18
    <2>2. ~(at + 1 \in at .. e - 1)
        BY <1>4, <1>16
    <2> QED BY <1>3, <1>4, <2>1, <2>2
<1>20. string = <<Text(m, there[j])>> /\ Len(string) = 1 /\ string[1] = file[at]
    BY <1>4, <1>16, <1>19
<1>21. at' = start[m] + 2 * (j + 1) - 1 /\ at' <= start[m + 1]
    <2>1. at' = at + 2
        BY <1>3, <1>4, <1>18, <1>19
    <2> DEFINE s == start[m]  z == start[m + 1]
    <2>2. s \in Nat /\ z \in Nat /\ at = s + 2 * j - 1 /\ at + 1 < z /\ at \in Nat
        BY <1>9
    <2> HIDE DEF s, z
    <2>3. at' = s + 2 * (j + 1) - 1 /\ at' <= z
        BY <2>1, <2>2
    <2> QED BY <2>3 DEF s, z
<1>22. CASE m \in silent /\ j = 6
    <2>1. parseState = "payload"
        BY <1>5, <1>12, <1>22 DEF Fields
    <2>2. parseState' = "source"
        BY <1>4, <2>1, FieldOrder
    <2>3. at' = start[m] + 13
        BY <1>9, <1>21, <1>22
    <2>4. Lost(start, silent, m)'
        BY <1>3, <1>10, <1>22, <2>2, <2>3 DEF Lost
    <2> QED BY <2>2, <2>4, Numeric DEF Advance
<1>23. CASE ~(m \in silent /\ j = 6)
    <2>1. there[j] = fields[j]
        <3>1. m \in silent => j \in 1..5
            BY <1>5, <1>23
        <3>2. \A k \in 1..5 : WithoutPayload[k] = Fields[k]
            <4>1. 1..5 = {1, 2, 3, 4, 5}
                OBVIOUS
            <4> QED BY <4>1 DEF WithoutPayload, Fields
        <3> QED BY <1>11, <1>12, <3>1, <3>2
    <2>2. parseState \in {"filename", "payload"} \/ string[1].is \in NumericFields
        BY <1>3, <1>5, <1>17, <1>20, <2>1, Numeric
    <2>3. /\ parseState' = FieldAfter(fields[j])
          /\ logItem' = [logItem EXCEPT ![fields[j]] = <<Text(m, fields[j])>>]
        BY <1>4, <1>5, <1>20, <2>1, <2>2
    <2>4. StringRead[1].n = m
        BY <1>4, <1>17, <1>20
    <2>5. \A field \in FieldNames :
              IF \E k \in 1 .. j : fields[k] = field
              THEN logItem'[field] = <<Text(m, field)>>
              ELSE field = "payload" => logItem'[field] = <<>>
        <3> SUFFICES ASSUME NEW field \in FieldNames
                     PROVE  IF \E k \in 1 .. j : fields[k] = field
                            THEN logItem'[field] = <<Text(m, field)>>
                            ELSE field = "payload" => logItem'[field] = <<>>
            OBVIOUS
        <3>1. IF field = fields[j] \/ \E k \in 1 .. j - 1 : fields[k] = field
              THEN logItem'[field] = <<Text(m, field)>>
              ELSE field = "payload" => logItem'[field] = <<>>
            BY <1>3, <1>5, <1>6, <2>3
        <3>2. (\E k \in 1 .. j : fields[k] = field) <=>
                  field = fields[j] \/ \E k \in 1 .. j - 1 : fields[k] = field
            <4>1. \A k \in 1 .. j : k = j \/ k \in 1 .. j - 1
                OBVIOUS
            <4>2. j \in 1 .. j /\ \A k \in 1 .. j - 1 : k \in 1 .. j
                OBVIOUS
            <4> QED BY <4>1, <4>2, Zenon
        <3> QED BY <3>1, <3>2
    <2>6. CASE j = N
        <3>1. parseState' = ">"
            BY <1>2, <1>5, <2>3, <2>6, FieldOrder
        <3>2. \A field \in FieldNames \ {"checksum"} :
                  (\E k \in 1 .. j : fields[k] = field)
                      <=> ~(field = "payload" /\ m \notin withPayload)
            <4>1. fields[j] = "checksum"
                BY <1>2, <1>5, <2>6
            <4>2. \A k \in 1 .. j : k = j \/ k \in 1 .. N - 1
                BY <2>6
            <4>3. \A k \in 1 .. N - 1 : k \in 1 .. j
                BY <2>6
            <4>4. \A field \in FieldNames \ {"checksum"} :
                      (\E k \in 1 .. N - 1 : fields[k] = field)
                          <=> ~(field = "payload" /\ m \notin withPayload)
                BY <1>2
            <4> QED BY <4>1, <4>2, <4>3, <4>4
        <3>3. \A field \in FieldNames \ {"checksum"} :
                  logItem'[field] = IF field = "payload" /\ m \notin withPayload THEN <<>>
                                    ELSE <<Text(m, field)>>
            BY <2>5, <3>2
        <3>4. at' = start[m + 1] \/ (at' = start[m + 1] - 1 /\ file[at'].is = ">")
            <4>1. m \notin silent
                BY <1>5, <1>13, <2>6
            <4>2. Len(there) = j
                BY <1>1, <1>11, <2>6, <4>1
            <4>3. /\ start[m + 1] <= start[m] + 2 * j + 2
                  /\ start[m + 1] = start[m] + 2 * j + 2 => file[start[m + 1] - 1].is = ">"
                BY <1>8, <4>2 DEF Piece
            <4>4. at' = start[m + 1] \/ at' = start[m + 1] - 1
                <5> DEFINE s == start[m]  z == start[m + 1]
                <5>1. /\ s \in Nat /\ z \in Nat /\ z <= s + 2 * j + 2
                      /\ at' = s + 2 * (j + 1) - 1 /\ at' <= z
                    BY <1>9, <1>21, <4>3
                <5> HIDE DEF s, z
                <5>2. at' = z \/ at' = z - 1
                    BY <5>1
                <5> QED BY <5>2 DEF z
            <4>5. at' = start[m + 1] - 1 => start[m + 1] = start[m] + 2 * j + 2
                <5> DEFINE s == start[m]  z == start[m + 1]
                <5>1. s \in Nat /\ z \in Nat /\ at' = s + 2 * (j + 1) - 1
                    BY <1>9, <1>21
                <5> HIDE DEF s, z
                <5>2. at' = z - 1 => z = s + 2 * j + 2
                    BY <5>1
                <5> QED BY <5>2 DEF s, z
            <4> QED BY <4>3, <4>4, <4>5
        <3>5. Complete(start, m)'
            BY <1>3, <3>3, <3>4 DEF Complete
        <3> QED BY <3>1, <3>5 DEF Advance
    <2>7. CASE j # N
        <3>1. j \in 1 .. N - 1 /\ j + 1 \in 1 .. N /\ j + 1 \in 1..8
              /\ (j + 1) - 1 = j
            <4>1. j \in 1 .. N
                BY <1>5
            <4> QED BY <1>13, <2>7, <4>1
        <3>2. parseState' = fields[j + 1]
            BY <1>2, <2>3, <2>4, <3>1
        <3>3. FieldsOf(m)' = fields /\ j + 1 \in 1 .. Len(fields)
            BY <1>1, <1>3, <3>1 DEF FieldsOf
        <3>4. m \in silent => j + 1 <= 6
            BY <1>5, <1>23
        <3>5. fields[j + 1] \in FieldNames
            BY <1>2, <3>1
        <3>6. InStep(start, silent, m, j + 1)'
            BY <1>21, <2>5, <3>1, <3>2, <3>3, <3>4 DEF InStep
        <3> QED BY <3>1, <3>2, <3>5, <3>6 DEF Advance
    <2> QED BY <2>6, <2>7
<1> QED BY <1>22, <1>23
\* A field that is missing, or is the last thing there is of a torn frame.
LEMMA CutAdvances ==
    ASSUME FileTypeOK, NEW start, NEW silent, Layout(start, silent), NEW m \in 1 .. written,
           NEW j \in 1..8, InStep(start, silent, m, j), ~(at + 1 < start[m + 1]), ParseField
    PROVE  Advance(start, silent, m)
<1>1. PICK fields, N : fields = FieldsOf(m) /\ N = Len(fields)
    OBVIOUS
<1>2. InPlace(fields, N, m)
    BY <1>1, FieldPlaces, Zenon
<1>3. /\ parseState \in FieldNames /\ UNCHANGED <<withPayload, file, written, torn>>
      /\ at \in 1 .. Len(file) + 1 /\ Len(file) \in Nat
      /\ logItem \in [FieldNames -> Seq(Tokens)]
    BY ItemsTyped DEF ParseField, FileTypeOK
<1>4. PICK e \in at .. Len(file) + 1, string \in Seq(Tokens) : Read(e, string)
    BY Reads
<1> USE DEF Read
<1>5. /\ j \in 1 .. N /\ (m \in silent => j <= 6) /\ parseState = fields[j]
      /\ at = start[m] + 2 * j - 1 /\ at <= start[m + 1]
    BY <1>1 DEF InStep
<1>6. PICK there, L : there = InFile(silent, m) /\ L = Len(there)
    OBVIOUS
<1>7. /\ Piece(there, m, start[m], start[m + 1])
      /\ there \in {Fields, WithoutPayload} /\ Len(there) \in 7..8
      /\ start[m] \in 1 .. Len(file) + 1 /\ start[m + 1] \in 1 .. Len(file) + 1
      /\ m + 1 \in 1 .. written + 1
    BY <1>6, PieceOf
<1>8. start[m + 1] = start[m] + 2 * L + 2 <=> m \notin torn \/ m \in silent
    BY <1>6 DEF Layout
<1> DEFINE end == start[m + 1]
<1>9. end \in 1 .. Len(file) + 1 /\ end \in Nat /\ (end = at \/ end = at + 1)
    <2>1. end \in 1 .. Len(file) + 1 /\ at <= end /\ ~(at + 1 < end)
        BY <1>5, <1>7
    <2> HIDE DEF end
    <2> QED BY <1>3, <2>1
<1>10. L \in 7..8 /\ N \in 7..8
    BY <1>2, <1>6, <1>7 DEF InPlace
<1>11. end # start[m] + 2 * L + 2
    <2>1. m \notin silent => L = N
        BY <1>1, <1>6 DEF InFile, FieldsOf
    <2>2. j <= L
        <3>1. j \in 1 .. N /\ (m \in silent => j <= 6)
            BY <1>5
        <3> QED BY <1>10, <2>1, <3>1
    <2>3. start[m] \in Nat /\ at = start[m] + 2 * j - 1
        BY <1>3, <1>5, <1>7
    <2> DEFINE s == start[m]
    <2>4. s \in Nat /\ at = s + 2 * j - 1
        BY <2>3
    <2> HIDE DEF s, end
    <2>5. end # s + 2 * L + 2
        BY <1>9, <1>10, <2>2, <2>4
    <2> QED BY <2>5 DEF s
<1>12. m \in torn /\ m \notin silent
    BY <1>8, <1>11
<1>13. there = fields
    BY <1>1, <1>6, <1>12 DEF InFile, FieldsOf
<1>14. end <= Len(file) => file[end].is = "<"
    BY <1>7, <1>9, FirstToken
<1>15. end = at + 1 => file[at].is = parseState
    <2> SUFFICES ASSUME end = at + 1 PROVE file[at].is = parseState
        OBVIOUS
    <2>1. j \in 1 .. Len(there) /\ start[m] + 2 * j - 1 < end
        BY <1>1, <1>3, <1>5, <1>13
    <2>2. file[start[m] + 2 * j - 1].is = there[j]
        BY <1>7, <2>1 DEF Piece
    <2> QED BY <1>5, <1>13, <2>2
<1> HIDE DEF end
<1>16. CASE parseState \in {"filename", "payload"}
    <2>1. parseState' \in {"line", "source"}
        BY <1>4, <1>16, FieldOrder
    <2>2. \A i \in at .. end - 1 : file[i].is # "0"
        <3>1. end = at + 1 => file[at].is # "0"
            BY <1>15, <1>16
        <3>2. \A i \in at .. end - 1 : i = at /\ end = at + 1
            BY <1>3, <1>9
        <3> QED BY <3>1, <3>2
    <2>3. at' > Len(file) \/ file[at'].is \notin NumericFields
        <3>1. CASE e > Len(file)
            BY <1>4, <3>1
        <3>2. CASE e <= Len(file)
            <4>1. file[e].is = "0" /\ at' = e + 1
                BY <1>4, <3>2
            <4>2. e \in 1 .. Len(file) /\ end <= e
                <5>1. ~(e \in at .. end - 1)
                    BY <2>2, <4>1
                <5> QED BY <1>3, <1>9, <3>2, <5>1
            <4>3. \A i \in end .. e - 1 : file[i].is # "0"
                <5>1. \A i \in end .. e - 1 : i \in at .. e - 1
                    BY <1>3, <1>9
                <5> QED BY <1>4, <5>1
            <4>4. e + 1 > Len(file) \/ file[e + 1].is \notin NumericFields
                <5>1. PICK n : n = m + 1
                    OBVIOUS
                <5>2. n \in 1 .. written + 1 /\ start[n] = end
                    BY <1>7, <5>1 DEF end
                <5> QED BY <4>1, <4>2, <4>3, <5>2, AfterFirstNul
            <4> QED BY <4>1, <4>4
        <3> QED BY <1>3, <3>1, <3>2
    <2>4. Lost(start, silent, m)'
        BY <1>3, <1>12, <2>1, <2>3, Numeric DEF Lost
    <2> QED BY <2>1, <2>4, Numeric DEF Advance
<1>17. Len(string) = 1 => at <= Len(file) /\ string[1] = file[at]
    <2>1. Len(string) # 0 => at <= Len(file) /\ string[1] = file[at]
        BY <1>4, Zenon
    <2> QED BY <2>1
<1>18. CASE parseState \notin {"filename", "payload"} /\ end = at
    <2>1. ~(Len(string) = 1 /\ string[1].is \in NumericFields)
        BY <1>14, <1>17, <1>18, Numeric
    <2> QED BY <1>4, <1>12, <1>18, <2>1 DEF Advance
<1>19. CASE parseState \notin {"filename", "payload"} /\ end = at + 1 /\ end <= Len(file)
    <2>1. file[at].is # "0" /\ file[at + 1].is # "0"
        BY <1>3, <1>14, <1>15, <1>19, Numeric
    <2>2. e # at /\ e # at + 1
        BY <1>3, <1>4, <1>9, <1>19, <2>1
    <2>3. Len(string) # 1
        BY <1>3, <1>4, <2>2
    <2> QED BY <1>4, <1>12, <1>19, <2>3 DEF Advance
<1>20. CASE parseState \notin {"filename", "payload"} /\ end = at + 1 /\ end > Len(file)
    <2>1. at <= Len(file) /\ Len(file) = at
        BY <1>3, <1>9, <1>20
    <2>2. e = at + 1
        <3>1. file[at].is # "0"
            BY <1>3, <1>15, <1>20, Numeric
        <3>2. e # at
            BY <1>4, <2>1, <3>1
        <3> QED BY <1>3, <2>1, <3>2
    <2>3. /\ at' = end /\ at' > Len(file)
          /\ Len(string) = 1 /\ string[1] = file[at] /\ string[1].is \in NumericFields
        <3>1. Len(string) = 1
            BY <1>3, <1>4, <2>2
        <3>2. string[1] = file[at]
            BY <1>17, <3>1
        <3>3. e > Len(file)
            BY <1>20, <2>2
        <3>4. file[at].is \in NumericFields
            BY <1>3, <1>15, <1>20, Numeric
        <3> QED BY <1>4, <1>20, <2>2, <3>1, <3>2, <3>3, <3>4
    <2>4. /\ parseState' = FieldAfter(parseState)
          /\ logItem' = [logItem EXCEPT ![parseState] = string]
        BY <1>4, <2>3
    <2>5. CASE parseState # "checksum"
        <3>1. parseState' \in FieldNames
            BY <1>3, <2>4, <2>5, FieldOrder, FieldsHave
        <3>2. Lost(start, silent, m)'
            BY <1>3, <1>12, <2>3, <3>1 DEF Lost
        <3> QED BY <3>1, <3>2 DEF Advance
    <2>6. CASE parseState = "checksum"
        <3>1. parseState' = ">"
            BY <2>4, <2>6, FieldOrder
        <3>2. j = N
            BY <1>2, <1>5, <2>6 DEF InPlace
        <3>3. \A field \in FieldNames :
                  IF \E k \in 1 .. N - 1 : fields[k] = field
                  THEN logItem[field] = <<Text(m, field)>>
                  ELSE field = "payload" => logItem[field] = <<>>
            BY <1>1, <3>2 DEF InStep
        <3>4. \A field \in FieldNames \ {"checksum"} :
                  (\E k \in 1 .. N - 1 : fields[k] = field)
                      <=> ~(field = "payload" /\ m \notin withPayload)
            BY <1>2 DEF InPlace
        <3>5. \A field \in FieldNames \ {"checksum"} :
                  logItem[field] = IF field = "payload" /\ m \notin withPayload THEN <<>>
                                   ELSE <<Text(m, field)>>
            BY <3>3, <3>4
        <3>6. \A field \in FieldNames \ {"checksum"} : logItem'[field] = logItem[field]
            BY <1>3, <2>4, <2>6
        <3>7. Complete(start, m)'
            BY <1>3, <2>3, <3>5, <3>6 DEF Complete, end
        <3> QED BY <3>1, <3>7 DEF Advance
    <2> QED BY <2>5, <2>6
<1>21. end <= Len(file) \/ end > Len(file)
    BY <1>3, <1>9
<1> QED BY <1>9, <1>16, <1>18, <1>19, <1>20, <1>21

LEMMA ParseKeepsInv == FileInv /\ ParseField => FileInv'
<1> SUFFICES ASSUME FileInv, ParseField PROVE FileInv'
    OBVIOUS
<1>1. FileTypeOK /\ PrintedInv
    BY DEF FileInv
<1>2. PICK start, silent : Layout(start, silent) /\ Parsing(start, silent)
    BY DEF FileInv
<1>3. /\ parseState \in FieldNames /\ UNCHANGED <<withPayload, file, written, torn, printed>>
      /\ at \in 1 .. Len(file) + 1 /\ Len(file) \in Nat
      /\ logItem \in [FieldNames -> Seq(Tokens)]
    BY <1>1, ItemsTyped DEF ParseField, FileTypeOK
<1>4. FileTypeOK'
    <2>1. PICK e \in at .. Len(file) + 1, string \in Seq(Tokens) : Read(e, string)
        BY <1>1, Reads
    <2> USE DEF Read
    <2>2. at' \in 1 .. Len(file) + 1
        BY <1>3, <2>1
    <2>3. logItem' \in [FieldNames -> Seq(Tokens)]
        BY <1>3, <2>1
    <2>4. parseState' \in {">", "ValueError"} \cup FieldNames
        <3>1. FieldAfter(parseState) \in {">"} \cup FieldNames
            BY <1>3, FieldOrder, FieldsHave
        <3> QED BY <2>1, <3>1
    <2> QED BY <1>1, <1>3, <2>2, <2>3, <2>4 DEF FileTypeOK
<1>5. PrintedInv'
    BY <1>1, <1>3, PrintedKept
<1>6. Layout(start, silent)'
    BY <1>2, <1>3, LayoutKept
<1>7. PICK m \in 1 .. written :
          /\ Settled(m)
          /\ (\E j \in 1..8 : InStep(start, silent, m, j)) \/ Lost(start, silent, m)
    BY <1>2, <1>3 DEF Parsing
<1>8. Advance(start, silent, m)
    <2>1. CASE Lost(start, silent, m)
        BY <1>1, <1>2, <2>1, LostAdvances
    <2>2. ASSUME NEW j \in 1..8, InStep(start, silent, m, j) PROVE Advance(start, silent, m)
        <3>1. CASE at + 1 < start[m + 1]
            BY <1>1, <1>2, <2>2, <3>1, FieldAdvances
        <3>2. CASE ~(at + 1 < start[m + 1])
            BY <1>1, <1>2, <2>2, <3>2, CutAdvances
        <3> QED BY <3>1, <3>2
    <2> QED BY <1>7, <2>1, <2>2
<1>9. Settled(m)' /\ m \in 1 .. written'
    BY <1>3, <1>7, SettledKept
<1>10. Parsing(start, silent)'
    <2>1. CASE parseState' = "ValueError" /\ m \in torn
        BY <1>3, <1>9, <2>1, FieldsHave DEF Parsing
    <2>2. CASE parseState' \in FieldNames /\ Lost(start, silent, m)'
        BY <1>9, <2>2, FieldsHave DEF Parsing
    <2>3. CASE parseState' \in FieldNames /\ \E j \in 1..8 : InStep(start, silent, m, j)'
        BY <1>9, <2>3, FieldsHave DEF Parsing
    <2>4. CASE parseState' = ">" /\ Complete(start, m)'
        BY <1>9, <2>4, FieldsHave DEF Parsing
    <2> QED BY <1>8, <2>1, <2>2, <2>3, <2>4 DEF Advance
<1> QED BY <1>4, <1>5, <1>6, <1>10 DEF FileInv

LEMMA PrintKeepsInv == FileInv /\ PrintItem => FileInv'
<1> SUFFICES ASSUME FileInv, PrintItem PROVE FileInv'
    OBVIOUS
<1>1. FileTypeOK /\ PrintedInv
    BY DEF FileInv
<1>2. PICK start, silent : Layout(start, silent) /\ Parsing(start, silent)
    BY DEF FileInv
<1>3. /\ parseState = ">" /\ parseState' = "<"
      /\ UNCHANGED <<withPayload, file, written, torn, at>>
      /\ printed' = Append(printed, logItem) /\ logItem' = Cleared
    BY DEF PrintItem
<1>4. PICK m \in 1 .. written : Settled(m) /\ Complete(start, m)
    BY <1>2, <1>3 DEF Parsing
<1>5. /\ logItem \in [FieldNames -> Seq(Tokens)] /\ m \in 0 .. Items /\ written \in Nat
      /\ printed \in Seq([FieldNames -> Seq(Tokens)]) /\ m \in Nat
      /\ at \in 1 .. Len(file) + 1 /\ Len(file) \in Nat
    BY <1>1, ItemsTyped DEF FileTypeOK
<1>6. ItemOf(logItem) = m
    <2>1. "event" \in FieldNames \ {"checksum"} /\ "event" # "payload"
        BY FieldsHave
    <2>2. Text(m, "event").n = m
        BY <1>5, <2>1, TokensHave
    <2>3. logItem["event"] = <<Text(m, "event")>>
        BY <1>4, <2>1 DEF Complete
    <2> QED BY <2>2, <2>3 DEF ItemOf
<1>7. PICK N : N = Len(printed)
    OBVIOUS
<1>8. /\ N \in Nat /\ DOMAIN printed = 1 .. N
      /\ DOMAIN printed' = 1 .. N + 1 /\ printed'[N + 1] = logItem
      /\ \A i \in 1 .. N : printed'[i] = printed[i]
      /\ printed' \in Seq([FieldNames -> Seq(Tokens)])
    BY <1>3, <1>5, <1>7, AppendProperties, LenProperties
<1>9. FileTypeOK'
    <2>1. \A field \in FieldNames : <<>> \in Seq(Tokens)
        OBVIOUS
    <2>2. logItem' \in [FieldNames -> Seq(Tokens)]
        BY <1>3, <1>5, <2>1, FieldsHave DEF Cleared, NoItem
    <2> QED BY <1>1, <1>3, <1>8, <2>2 DEF FileTypeOK
<1>10. \A i \in 1 .. N : /\ ItemOf(printed[i]) \in 1 .. m - 1
                       /\ ItemOf(printed'[i]) = ItemOf(printed[i])
    BY <1>4, <1>8 DEF Settled, PrintedItems, ItemOf
<1>11. ItemOf(printed'[N + 1]) = m
    BY <1>6, <1>8
<1>12. PrintedItems' = PrintedItems \cup {m}
    <2>1. PrintedItems' = {ItemOf(printed'[i]) : i \in 1 .. N + 1}
        BY <1>8 DEF PrintedItems, ItemOf
    <2>2. PrintedItems = {ItemOf(printed[i]) : i \in 1 .. N}
        BY <1>8 DEF PrintedItems, ItemOf
    <2>3. \A i \in 1 .. N + 1 : i = N + 1 \/ i \in 1 .. N
        BY <1>8
    <2>4. N + 1 \in 1 .. N + 1 /\ \A i \in 1 .. N : i \in 1 .. N + 1
        BY <1>8
    <2> QED BY <1>10, <1>11, <2>1, <2>2, <2>3, <2>4
<1>13. Settled(m + 1)'
    <2>1. (m + 1) - 1 = m /\ 1 .. m - 1 \subseteq 1 .. m /\ m \in 1 .. m
        BY <1>5
    <2>2. \A i \in 1 .. m : i = m \/ i \in 1 .. m - 1
        BY <1>5
    <2>3. PrintedItems \subseteq 1 .. m - 1 /\ (1 .. m - 1) \ torn \subseteq PrintedItems
        BY <1>4 DEF Settled
    <2>4. PrintedItems' \subseteq 1 .. m /\ (1 .. m) \ torn' \subseteq PrintedItems'
        BY <1>3, <1>12, <2>1, <2>2, <2>3
    <2> QED BY <2>1, <2>4 DEF Settled
<1>14. Between(start, m + 1)'
    <2>1. at' = start[m + 1] \/ (at' = start[m + 1] - 1 /\ at' > 0 /\ file'[at'].is = ">")
        BY <1>3, <1>4, <1>5 DEF Complete
    <2>2. logItem'["payload"] = <<>>
        BY <1>3, FieldsHave DEF Cleared, NoItem
    <2> QED BY <2>1, <2>2 DEF Between
<1>15. Parsing(start, silent)'
    <2>1. m + 1 \in 1 .. written' + 1
        BY <1>3, <1>5
    <2> QED BY <1>3, <1>13, <1>14, <2>1, FieldsHave DEF Parsing
<1>16. Layout(start, silent)'
    BY <1>2, <1>3, LayoutKept
<1>17. PrintedInv'
    <2>1. ASSUME NEW i \in 1 .. N + 1, NEW field \in FieldNames \ {"checksum"}
          PROVE  printed'[i][field] =
                     (IF field = "payload" /\ ItemOf(printed'[i]) \notin withPayload
                      THEN <<>> ELSE <<Text(ItemOf(printed'[i]), field)>>)
        <3>1. CASE i = N + 1
            BY <1>4, <1>8, <1>11, <3>1 DEF Complete
        <3>2. CASE i # N + 1
            <4>1. i \in 1 .. N
                BY <1>8, <3>2
            <4>2. printed[i][field] =
                      (IF field = "payload" /\ ItemOf(printed[i]) \notin withPayload
                       THEN <<>> ELSE <<Text(ItemOf(printed[i]), field)>>)
                BY <1>1, <1>8, <4>1 DEF PrintedInv, PrintedWasWritten
            <4> QED BY <1>8, <4>1, <4>2
        <3> QED BY <3>1, <3>2
    <2>2. ASSUME NEW i \in 1 .. N + 1, NEW k \in 1 .. N + 1, i < k
          PROVE  ItemOf(printed'[i]) < ItemOf(printed'[k])
        <3>1. i \in 1 .. N
            BY <1>8, <2>2
        <3>2. CASE k = N + 1
            BY <1>5, <1>10, <1>11, <3>1, <3>2
        <3>3. CASE k # N + 1
            <4>1. k \in 1 .. N
                BY <1>8, <3>3
            <4>2. ItemOf(printed[i]) < ItemOf(printed[k])
                BY <1>1, <1>8, <2>2, <3>1, <4>1 DEF PrintedInv
            <4> QED BY <1>10, <3>1, <4>1, <4>2
        <3> QED BY <3>2, <3>3
    <2>3. PrintedWasWritten'
        BY <1>3, <1>8, <2>1 DEF PrintedWasWritten, ItemOf
    <2>4. (\A i, j \in DOMAIN printed : i < j => ItemOf(printed[i]) < ItemOf(printed[j]))'
        BY <1>8, <2>2 DEF ItemOf
    <2> QED BY <2>3, <2>4 DEF PrintedInv
<1> QED BY <1>9, <1>15, <1>16, <1>17 DEF FileInv

LEMMA StutterKeepsInv == FileInv /\ UNCHANGED fileVars => FileInv'
<1> SUFFICES ASSUME FileInv, UNCHANGED fileVars PROVE FileInv'
    OBVIOUS
<1>1. FileTypeOK /\ PrintedInv
    BY DEF FileInv
<1>2. PICK start, silent : Layout(start, silent) /\ Parsing(start, silent)
    BY DEF FileInv
<1>3. UNCHANGED <<withPayload, file, written, torn, parseState, at, logItem, printed>>
    BY DEF fileVars
<1>4. FileTypeOK'
    BY <1>1, <1>3 DEF FileTypeOK
<1>5. PrintedInv'
    BY <1>1, <1>3, PrintedKept
<1>6. Layout(start, silent)'
    BY <1>2, <1>3, LayoutKept
<1>7. Parsing(start, silent)'
    BY <1>2, <1>3 DEF Parsing, Settled, PrintedItems, ItemOf, Between, NoItem, InStep, Lost,
                      Complete, FieldsOf
<1> QED BY <1>4, <1>5, <1>6, <1>7 DEF FileInv

LEMMA InvHolds == FileSpec => []FileInv
<1>1. FileInv /\ [FileNext]_fileVars => FileInv'
    BY WriteKeepsInv, StartKeepsInv, FindKeepsInv, ParseKeepsInv, PrintKeepsInv,
       StutterKeepsInv DEF FileNext
<1> QED BY <1>1, StartIsInv, PTL DEF FileSpec

-----------------------------------------------------------------------------
(* The theorems.                                                           *)

\* Every reachable state is typed: log_parser.py never reads past the end of the file,
\* and what it keeps for a field is a string of tokens.
THEOREM TypeCorrect == FileSpec => []FileTypeOK
<1>1. FileInv => FileTypeOK
    BY DEF FileInv
<1> QED BY <1>1, InvHolds, PTL

\* Wherever the writes of log_write_item fail, the parser prints no item that was not
\* written: it never joins the pieces of two frames.
THEOREM NothingIsJoined == FileSpec => []PrintedWasWritten
<1>1. FileInv => PrintedWasWritten
    BY DEF FileInv, PrintedInv
<1> QED BY <1>1, InvHolds, PTL

\* The parser prints in the order of the log, and stops early only at a torn frame,
\* having printed every whole one before it.
THEOREM AllBeforeTheTear == FileSpec => []StopsOnlyAtTorn
<1>1. FileInv => StopsOnlyAtTorn
    <2> SUFFICES ASSUME FileInv PROVE StopsOnlyAtTorn
        OBVIOUS
    <2>1. PICK start, silent : Parsing(start, silent)
        BY DEF FileInv
    <2>2. \A i, j \in DOMAIN printed : i < j => ItemOf(printed[i]) < ItemOf(printed[j])
        BY DEF FileInv, PrintedInv
    <2>3. parseState = "done" => (1 .. written) \ torn \subseteq PrintedItems
        BY <2>1 DEF Parsing
    <2>4. parseState = "ValueError" =>
              \E n \in torn : (1 .. n - 1) \ torn \subseteq PrintedItems
        BY <2>1 DEF Parsing, Settled
    <2> QED BY <2>2, <2>3, <2>4 DEF StopsOnlyAtTorn
<1> QED BY <1>1, InvHolds, PTL
=================================================================================
