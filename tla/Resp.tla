-------------------------------- MODULE Resp --------------------------------
(***************************************************************************)
(* RESP2 as src/src/resp/encoder.rs writes it and src/src/resp/parser.rs   *)
(* reads it.  A byte is a string of one character, or one of the names     *)
(* below for those that have none; "bad" stands for the bytes that are not *)
(* UTF-8.  Positions count from 1.                                         *)
(***************************************************************************)
EXTENDS SnapshotFrames, SequencesExt

CONSTANTS
    MaxArrayLen,   \* MAX_ARRAY_LEN
    MaxDepth,      \* MAX_NESTING_DEPTH
    MaxLineLen     \* MAX_LINE_LEN

ASSUME RespAssumption ==
    MaxArrayLen \in Nat /\ MaxDepth \in Nat /\ MaxLineLen \in Nat

CR == "CR"
LF == "LF"
CrLf == <<CR, LF>>

Digits == <<"0", "1", "2", "3", "4", "5", "6", "7", "8", "9">>

NatBytes[n \in Nat] == IF n < 10 THEN <<Digits[n + 1]>>
                       ELSE Append(NatBytes[n \div 10], Digits[(n % 10) + 1])

\* i64::to_string.
IntBytes(n) == IF n < 0 THEN <<"-">> \o NatBytes[-n] ELSE NatBytes[n]

\* str::parse::<i64>: an optional sign and at least one digit.
Unsigned(line) == IF line # <<>> /\ line[1] \in {"+", "-"} THEN Tail(line) ELSE line
IsInt(line) == Unsigned(line) # <<>> /\ \A i \in DOMAIN Unsigned(line) :
                                            Unsigned(line)[i] \in ToSet(Digits)
IntOf(line) ==
    LET value(b) == CHOOSE d \in 0 .. 9 : Digits[d + 1] = b
        abs == FoldLeft(LAMBDA n, b : 10 * n + value(b), 0, Unsigned(line))
    IN  IF line[1] = "-" THEN -abs ELSE abs

-----------------------------------------------------------------------------
(* Frames and the encoder.                                                 *)
Frame(type, bytes, n, items) ==
    [type |-> type, bytes |-> bytes, n |-> n, items |-> items]
Simple(s)    == Frame("simple", s, 0, <<>>)
Error(s)     == Frame("error", s, 0, <<>>)
Integer(n)   == Frame("integer", <<>>, n, <<>>)
Bulk(b)      == Frame("bulk", b, 0, <<>>)
Null         == Frame("null", <<>>, 0, <<>>)
NullArray    == Frame("nullarray", <<>>, 0, <<>>)
Array(items) == Frame("array", <<>>, 0, items)

\* The array of bulk strings a command is.
Request(args) == Array([i \in DOMAIN args |-> Bulk(args[i])])

RECURSIVE Encode(_)
Encode(f) ==
    CASE f.type = "simple"    -> <<"+">> \o f.bytes \o CrLf
      [] f.type = "error"     -> <<"-">> \o f.bytes \o CrLf
      [] f.type = "integer"   -> <<":">> \o IntBytes(f.n) \o CrLf
      [] f.type = "bulk"      -> <<"$">> \o NatBytes[Len(f.bytes)] \o CrLf \o f.bytes \o CrLf
      [] f.type = "null"      -> <<"$", "-", "1">> \o CrLf
      [] f.type = "nullarray" -> <<"*", "-", "1">> \o CrLf
      [] f.type = "array"     -> <<"*">> \o NatBytes[Len(f.items)] \o CrLf
                                 \o FlattenSeq([i \in DOMAIN f.items |-> Encode(f.items[i])])

-----------------------------------------------------------------------------
(* The parser.  A result is a value and the position behind it, or one of  *)
(* the two errors.                                                         *)
Ok(v, next) == [st |-> "ok", v |-> v, next |-> next]
Incomplete  == [st |-> "incomplete"]
Protocol    == [st |-> "protocol"]

\* read_line, with find_crlf.
ReadLine(buf, at) ==
    LET ends == {i \in at .. Len(buf) - 1 : buf[i] = CR /\ buf[i + 1] = LF}
        first == CHOOSE i \in ends : \A j \in ends : i <= j
    IN  IF ends # {} THEN Ok(SubSeq(buf, at, first - 1), first + 2)
        ELSE IF Len(buf) - at + 1 > MaxLineLen THEN Protocol
        ELSE Incomplete

\* read_line_string.
ReadLineString(buf, at) ==
    LET r == ReadLine(buf, at)
    IN  IF r.st = "ok" /\ "bad" \in ToSet(r.v) THEN Protocol ELSE r

\* read_line_int.
ReadLineInt(buf, at) ==
    LET r == ReadLine(buf, at)
    IN  IF r.st # "ok" THEN r
        ELSE IF IsInt(r.v) THEN Ok(IntOf(r.v), r.next) ELSE Protocol

\* Mutant of ParseBulk: the payload is awaited, its CRLF is not.
ParseBulkEager(buf, at) ==
    LET r == ReadLineInt(buf, at)
        end == r.next + r.v
    IN  IF r.st # "ok" THEN r
        ELSE IF r.v = -1 THEN Ok(Null, r.next)
        ELSE IF r.v < 0 \/ BulkLen(r.v) > MaxBuffered THEN Protocol
        ELSE IF Len(buf) - r.next + 1 < r.v THEN Incomplete
        ELSE IF Len(buf) <= end \/ SubSeq(buf, end, end + 1) # CrLf THEN Protocol
        ELSE Ok(Bulk(SubSeq(buf, r.next, end - 1)), end + 2)

\* parse_bulk.
ParseBulk(buf, at) ==
    LET r == ReadLineInt(buf, at)
        end == r.next + r.v
    IN  IF r.st # "ok" THEN r
        ELSE IF r.v = -1 THEN Ok(Null, r.next)
        ELSE IF r.v < 0 \/ BulkLen(r.v) > MaxBuffered THEN Protocol
        ELSE IF Len(buf) - r.next + 1 < r.v + 2 THEN Incomplete
        ELSE IF SubSeq(buf, end, end + 1) # CrLf THEN Protocol
        ELSE Ok(Bulk(SubSeq(buf, r.next, end - 1)), end + 2)

\* parse_frame and parse_array; items are read one after the other.
RECURSIVE ParseFrame(_, _, _), ParseItems(_, _, _, _, _)
ParseItems(buf, at, depth, count, items) ==
    IF count = 0 THEN Ok(Array(items), at)
    ELSE LET r == ParseFrame(buf, at, depth)
         IN  IF r.st # "ok" THEN r
             ELSE ParseItems(buf, r.next, depth, count - 1, Append(items, r.v))
ParseFrame(buf, at, depth) ==
    LET tag == buf[at]
        s == ReadLineString(buf, at + 1)
        n == ReadLineInt(buf, at + 1)
    IN  IF depth > MaxDepth THEN Protocol
        ELSE IF at > Len(buf) THEN Incomplete
        ELSE CASE tag = "+" -> IF s.st = "ok" THEN Ok(Simple(s.v), s.next) ELSE s
               [] tag = "-" -> IF s.st = "ok" THEN Ok(Error(s.v), s.next) ELSE s
               [] tag = ":" -> IF n.st = "ok" THEN Ok(Integer(n.v), n.next) ELSE n
               [] tag = "$" -> ParseBulk(buf, at + 1)
               [] tag = "*" -> IF n.st # "ok" THEN n
                               ELSE IF n.v = -1 THEN Ok(NullArray, n.next)
                               ELSE IF n.v < 0 \/ n.v > MaxArrayLen THEN Protocol
                               ELSE ParseItems(buf, n.next, depth + 1, n.v, <<>>)
               [] OTHER -> Protocol

-----------------------------------------------------------------------------
(* Inline requests: one line of words, quoted and escaped.                 *)
InlineSpace == {" ", "TAB"}
Hex == ToSet(Digits) \cup {"a", "b", "c", "d", "e", "f", "A", "B", "C", "D", "E", "F"}

\* The escapes that stand for another byte than the one behind the backslash.
Escapes == [n |-> LF, r |-> CR, t |-> "TAB", b |-> "BS", a |-> "BEL"]

\* read_inline_quoted; a byte written as \xHH is named by its two digits.
RECURSIVE ReadQuoted(_, _, _, _)
ReadQuoted(line, at, arg, quote) ==
    LET byte == line[at]
        esc == line[at + 1]
        isHex == /\ esc = "x" /\ at + 3 <= Len(line)
                 /\ line[at + 2] \in Hex /\ line[at + 3] \in Hex
    IN  IF at > Len(line) THEN Protocol
        ELSE IF byte = quote THEN Ok(arg, at + 1)
        ELSE IF byte # "\\" THEN ReadQuoted(line, at + 1, Append(arg, byte), quote)
        ELSE IF at = Len(line) THEN Protocol
        ELSE IF quote = "\"" /\ isHex
             THEN ReadQuoted(line, at + 4, Append(arg, line[at + 2] \o line[at + 3]), quote)
        ELSE IF quote = "\"" /\ esc \in DOMAIN Escapes
             THEN ReadQuoted(line, at + 2, Append(arg, Escapes[esc]), quote)
        ELSE ReadQuoted(line, at + 2, Append(arg, esc), quote)

\* One word of split_inline_args: quoted and bare parts in any order.
RECURSIVE ReadWord(_, _, _)
ReadWord(line, at, arg) ==
    IF at > Len(line) THEN Ok(arg, at)
    ELSE IF line[at] \in InlineSpace THEN Ok(arg, at)
    ELSE IF line[at] \in {"'", "\""}
         THEN LET r == ReadQuoted(line, at + 1, arg, line[at])
              IN  IF r.st = "ok" THEN ReadWord(line, r.next, r.v) ELSE r
    ELSE IF line[at] # "\\" THEN ReadWord(line, at + 1, Append(arg, line[at]))
    ELSE IF at = Len(line) THEN Protocol
    ELSE ReadWord(line, at + 2, Append(arg, line[at + 1]))

\* split_inline_args.
RECURSIVE SplitInline(_, _, _)
SplitInline(line, at, args) ==
    IF at > Len(line) THEN Ok(args, at)
    ELSE IF line[at] \in InlineSpace THEN SplitInline(line, at + 1, args)
    ELSE LET r == ReadWord(line, at, <<>>)
         IN  IF r.st = "ok" THEN SplitInline(line, r.next, Append(args, r.v)) ELSE r

\* parse_inline, for a buffer with a line feed at position end.
InlineLine(buf, end) ==
    IF end > 1 /\ buf[end - 1] = CR THEN SubSeq(buf, 1, end - 2)
    ELSE SubSeq(buf, 1, end - 1)

\* parse: what the caller gets, and the buffer it leaves.  Blank inline
\* lines are skipped.
Parsed(st, f, rest) == [st |-> st, frame |-> f, rest |-> rest]

RECURSIVE Parse(_)
Parse(buf) ==
    LET inline == buf # <<>> /\ buf[1] \notin {"+", "-", ":", "$", "*"}
        lf == {i \in DOMAIN buf : buf[i] = LF}
        end == CHOOSE i \in lf : \A j \in lf : i <= j
        words == SplitInline(InlineLine(buf, end), 1, <<>>)
        r == ParseFrame(buf, 1, 0)
    IN  IF buf = <<>> THEN Parsed("none", Null, buf)
        ELSE IF inline THEN
            IF lf = {} THEN Parsed(IF Len(buf) > MaxLineLen THEN "protocol" ELSE "none",
                                   Null, buf)
            ELSE IF end - 1 > MaxLineLen \/ words.st # "ok"
                 THEN Parsed("protocol", Null, buf)
            ELSE IF words.v = <<>> THEN Parse(SubSeq(buf, end + 1, Len(buf)))
            ELSE Parsed("frame", Request(words.v), SubSeq(buf, end + 1, Len(buf)))
        ELSE IF r.st = "incomplete" THEN Parsed("none", Null, buf)
        ELSE IF r.st = "protocol" \/ r.next - 1 > MaxBuffered
             THEN Parsed("protocol", Null, buf)
        ELSE Parsed("frame", r.v, SubSeq(buf, r.next, Len(buf)))

=============================================================================
