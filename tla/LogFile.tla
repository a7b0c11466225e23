-------------------------------- MODULE LogFile --------------------------------
(***************************************************************************)
(* The log file: the frames that log_write_item writes                     *)
(* (bbg/src/logger_queue.c), piece by piece, and what the parser           *)
(* (bbg/scripts/log_parser.py) reads in them.                              *)
(*                                                                         *)
(* A frame is '<', the fields of the item as NUL-terminated strings (an    *)
(* item without payload has no string for it) and '>'.  A write may fail   *)
(* anywhere in it.  The file is a sequence of tokens: a mark, or the text  *)
(* of a field of an item, of which the end may be missing.                 *)
(***************************************************************************)
EXTENDS Naturals, Sequences, FiniteSets

CONSTANTS
    Items,            \* bound: items written
    Failures          \* bound: frames in which a write fails

ASSUME FileAssumption == Items \in Nat /\ Failures \in Nat

Fields == <<"event", "filename", "line", "time", "length", "payload", "source",
            "checksum">>
WithoutPayload == <<"event", "filename", "line", "time", "length", "source", "checksum">>
FieldNames == {Fields[i] : i \in DOMAIN Fields}
NumericFields == FieldNames \ {"filename"}

VARIABLES
    withPayload,      \* the items that have a payload
    file,             \* the tokens in the file
    written,          \* items written, whole or torn
    torn,             \* those of them whose frame is not whole
    parseState,       \* of the parser: "write" before it runs
    at,               \* the parser has read the tokens before this one
    logItem,          \* myLogItem: the string read for each field
    printed           \* the items printed

fileVars == <<withPayload, file, written, torn, parseState, at, logItem, printed>>

Mark(is) == [is |-> is, n |-> 0, whole |-> TRUE]
Text(n, field) == [is |-> field, n |-> n, whole |-> TRUE]
Tokens == [is : {"<", ">", "0"} \cup FieldNames, n : 0 .. Items, whole : BOOLEAN]
NoItem == [field \in FieldNames |-> <<>>]

FileTypeOK ==
    /\ withPayload \subseteq 1 .. Items
    /\ file \in Seq(Tokens)
    /\ written \in 0 .. Items /\ torn \subseteq 1 .. written
    /\ parseState \in {"write", "<", ">", "done", "ValueError"} \cup FieldNames
    /\ at \in 1 .. Len(file) + 1
    /\ logItem \in [FieldNames -> Seq(Tokens)]
    /\ printed \in Seq([FieldNames -> Seq(Tokens)])

FileInit ==
    /\ withPayload \in SUBSET (1 .. Items)
    /\ file = <<>> /\ written = 0 /\ torn = {}
    /\ parseState = "write" /\ at = 1
    /\ logItem = NoItem /\ printed = <<>>

-----------------------------------------------------------------------------
(* log_write_item.                                                         *)

FieldsOf(n) == IF n \in withPayload THEN Fields ELSE WithoutPayload

\* '<', each field and its terminator, '>'
Frame(fields, n) ==
    [i \in 1 .. 2 * Len(fields) + 2 |->
        CASE i = 1 -> Mark("<")
          [] i = 2 * Len(fields) + 2 -> Mark(">")
          [] i % 2 = 1 /\ i > 1 -> Mark("0")
          [] OTHER -> Text(n, fields[i \div 2])]

\* What is left of a frame after a failure: what was written before it, with a
\* part of a text at the end perhaps; or, where the failure is that of the
\* payload and goes unnoticed (-1 is not less than an unsigned length), all
\* but the payload.
Torn(n) ==
    LET frame == Frame(FieldsOf(n), n)
        Before(k) == SubSeq(frame, 1, k)
    IN {Before(k) : k \in 0 .. Len(frame) - 1}
       \cup {[Before(k) EXCEPT ![k].whole = FALSE] :
                 k \in {j \in 1 .. Len(frame) : frame[j].is \in FieldNames}}
       \cup (IF n \in withPayload THEN {Frame(WithoutPayload, n)} ELSE {})

WriteFrame ==
    /\ parseState = "write"
    /\ written < Items
    /\ written' = written + 1
    /\ \/ /\ file' = file \o Frame(FieldsOf(written'), written')
          /\ UNCHANGED torn
       \/ /\ Cardinality(torn) < Failures
          /\ torn' = torn \cup {written'}
          /\ \E frame \in Torn(written') : file' = file \o frame
    /\ UNCHANGED <<withPayload, parseState, at, logItem, printed>>

-----------------------------------------------------------------------------
(* log_parser.py.                                                          *)

StartParser ==
    /\ parseState = "write"
    /\ parseState' = "<"
    /\ UNCHANGED <<withPayload, file, written, torn, at, logItem, printed>>

\* [mutant] the position moves on past the end
AfterAlways(i) == i + 1

\* file.read stays at the end of the file
After(i) == IF i > Len(file) THEN i ELSE i + 1

\* FIND_START_FRAME_BYTE: read byte after byte up to a '<' or the end
FindStart ==
    /\ parseState = "<"
    /\ at' = After(at)
    /\ parseState' = CASE at > Len(file) -> "done"
                       [] at <= Len(file) /\ file[at].is = "<" -> "event"
                       [] OTHER -> "<"
    /\ UNCHANGED <<withPayload, file, written, torn, logItem, printed>>

\* read_string: what it returns ends before this token, a NUL or the end of file
StringEnd ==
    LET ends == {i \in at .. Len(file) : file[i].is = "0"}
    IN IF ends = {} THEN Len(file) + 1 ELSE CHOOSE i \in ends : \A j \in ends : i <= j

StringRead == SubSeq(file, at, StringEnd - 1)

\* int(string, 16) takes it: the whole or the beginning of a number
IsNumber(string) == Len(string) = 1 /\ string[1].is \in NumericFields

\* [mutant] a payload is expected of every item
FieldAfterAlways(field) ==
    IF field = "checksum" THEN ">"
    ELSE Fields[1 + CHOOSE i \in DOMAIN Fields : Fields[i] = field]

\* the payload is there if its length, just read, is not zero
FieldAfter(field) ==
    CASE field = "length" /\ StringRead[1].n \notin withPayload -> "source"
      [] field = "checksum" -> ">"
      [] OTHER -> Fields[1 + CHOOSE i \in DOMAIN Fields : Fields[i] = field]

ParseField ==
    /\ parseState \in FieldNames
    /\ at' = After(StringEnd)
    /\ IF parseState \in {"filename", "payload"} \/ IsNumber(StringRead)
       THEN /\ logItem' = [logItem EXCEPT ![parseState] = StringRead]
            /\ parseState' = FieldAfter(parseState)
       ELSE /\ parseState' = "ValueError"
            /\ UNCHANGED logItem
    /\ UNCHANGED <<withPayload, file, written, torn, printed>>

\* [mutant] clear_log_item is not called
Kept == logItem

\* clear_log_item leaves the source
Cleared == [NoItem EXCEPT !["source"] = logItem["source"]]

\* PARSE_STOP_FRAME_BYTE reads nothing and checks nothing.  print_message converts
\* the payload, which cannot fail: it is whole (PrintedWasWritten), and its enums have
\* every value that those of the C code have.
PrintItem ==
    /\ parseState = ">"
    /\ printed' = Append(printed, logItem)
    /\ logItem' = Cleared
    /\ parseState' = "<"
    /\ UNCHANGED <<withPayload, file, written, torn, at>>

FileNext == WriteFrame \/ StartParser \/ FindStart \/ ParseField \/ PrintItem

FileSpec == FileInit /\ [][FileNext]_fileVars

-----------------------------------------------------------------------------
(* Properties.                                                             *)

\* the item that a printed one was read from
ItemOf(item) == item["event"][1].n

\* Wherever the writes fail, an item that is printed is one that was written, each
\* field as it was, but that the checksum of the last frame may be cut off: the
\* parser never joins the pieces of two frames into an item.
PrintedWasWritten ==
    \A i \in DOMAIN printed :
        \A field \in FieldNames \ {"checksum"} :
            printed[i][field] = (IF field = "payload" /\ ItemOf(printed[i]) \notin withPayload
                                 THEN <<>> ELSE <<Text(ItemOf(printed[i]), field)>>)

PrintedItems == {ItemOf(printed[i]) : i \in DOMAIN printed}

\* Items are printed in the order in which they were written, none twice; the
\* parser reads to the end or stops at a torn frame, and then every item written
\* whole before that place has been printed.
StopsOnlyAtTorn ==
    /\ \A i, j \in DOMAIN printed : i < j => ItemOf(printed[i]) < ItemOf(printed[j])
    /\ parseState = "done" => (1 .. written) \ torn \subseteq PrintedItems
    /\ parseState = "ValueError" =>
           \E n \in torn : (1 .. n - 1) \ torn \subseteq PrintedItems
=============================================================================
