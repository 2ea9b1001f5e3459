------------------------------ MODULE Framing -------------------------------
(***************************************************************************)
(* A stream of bytes read in pieces of any size: a client's requests by    *)
(* Connection::read_frame of src/src/connection.rs, or an append-only file *)
(* by replay of src/src/aof.rs.  Both append what a read brings to a       *)
(* buffer and call parse on it until it asks for more.                     *)
(*                                                                         *)
(* A source says what its bytes stand for: the frames in it and how it     *)
(* ends.  It is put together by the encoder, by the quoting rules of       *)
(* inline requests, or by the rewrite of SnapshotFrames, which is written  *)
(* first and then read, so it does not depend on the parser.               *)
(***************************************************************************)
EXTENDS Resp

CONSTANTS
    Sources,     \* the streams
    FileReads    \* the room a read of a rewritten file may find in the buffer

VARIABLES
    source,      \* the stream that is being read
    pos,         \* bytes read from it
    buf,         \* Connection.buf, or buf of replay
    frames,      \* history: the frames handed on
    validLen,    \* valid_len of replay: the bytes of the frames handed on
    status       \* "open", "unwritten", or how reading ended

readVars == <<source, pos, buf, frames, validLen, status>>
vars == <<readVars, snapshotVars>>

\* A stream of a client or of a file: its bytes, the frames in it, whether it
\* ends with a whole frame ("closed"), within one ("midframe"), in bytes that
\* are no frame ("protocol") or in a frame over the limit ("oversize"),
\* and the room its reads may find in the buffer.
Stream(kind, bytes, content, end, reads) ==
    [kind |-> kind, bytes |-> bytes, frames |-> content, end |-> end,
     reads |-> reads]

\* The file that the rewrite leaves.
Rewritten ==
    LET content == [i \in DOMAIN FlattenSeq(file) |-> Request(FlattenSeq(file)[i])]
        bytes == FlattenSeq([i \in DOMAIN content |-> Encode(content[i])])
    IN  Stream("file", bytes, content, "closed", FileReads)

\* How reading ends.
Ends == {"closed", "midframe", "protocol", "overrun", "timeout", "refused"}

\* The buffer is what was read and not yet taken from it, every frame handed
\* on was taken from the stream once.
TypeOK ==
    /\ source.kind \in {"client", "file"}
    /\ pos \in 0 .. Len(source.bytes)
    /\ validLen + Len(buf) <= pos
    /\ buf = SubSeq(source.bytes, pos - Len(buf) + 1, pos)
    /\ status \in Ends \cup {"open", "unwritten"}

\* A stream that is there, or a file that is to be written.
Init ==
    /\ pos = 0 /\ buf = <<>> /\ frames = <<>> /\ validLen = 0
    /\ \/ /\ source \in Sources /\ status = "open"
          /\ entries = <<>> /\ Idle
       \/ /\ source = Stream("file", <<>>, <<>>, "closed", FileReads)
          /\ status = "unwritten"
          /\ SnapshotInit

\* rewrite_inner writes the file; a rewrite that fails leaves none.
Rewrite ==
    /\ status = "unwritten" /\ SnapshotNext
    /\ UNCHANGED readVars

\* The next start of the server replays it.
OpenFile ==
    /\ status = "unwritten" /\ Complete
    /\ source' = Rewritten /\ status' = "open"
    /\ UNCHANGED <<pos, buf, frames, validLen, snapshotVars>>

-----------------------------------------------------------------------------
Overrun == Len(buf) > MaxBuffered

\* check_buffered_frame_limit comes before parse in read_frame; replay looks
\* at the limit only when parse has asked for more.
MayParse == status = "open" /\ ~(source.kind = "client" /\ Overrun)

\* The one command of a rewritten file that Command::from_frame refuses: the
\* PEXPIRE, which write_expiry_snapshot writes for a late deadline only.  What
\* the commands of a log do to the key space is the subject of Recovery.
Refused(f) ==
    source.kind = "file" /\ f.items # <<>> /\ f.items[1] = Bulk(PExpireName)

\* Mutant of TakeFrame: the frame's bytes stay in the buffer.
TakeWithoutAdvance ==
    /\ MayParse
    /\ \E r \in {Parse(buf)} :
          /\ r.st = "frame" /\ ~Refused(r.frame)
          /\ frames' = Append(frames, r.frame)
          /\ validLen' = pos - Len(r.rest)
    /\ UNCHANGED <<source, pos, buf, status, snapshotVars>>

\* parse returns a frame, which is handed on.
TakeFrame ==
    /\ MayParse
    /\ \E r \in {Parse(buf)} :
          /\ r.st = "frame" /\ ~Refused(r.frame)
          /\ buf' = r.rest
          /\ frames' = Append(frames, r.frame)
          /\ validLen' = pos - Len(r.rest)
    /\ UNCHANGED <<source, pos, status, snapshotVars>>

\* The command is refused: the file is cut before it.
RefuseCommand ==
    /\ MayParse
    /\ \E r \in {Parse(buf)} :
          /\ r.st = "frame" /\ Refused(r.frame)
          /\ buf' = r.rest
    /\ status' = "refused"
    /\ UNCHANGED <<source, pos, frames, validLen, snapshotVars>>

\* parse returns a protocol error: the connection is closed, the file cut.
ParseError ==
    /\ MayParse
    /\ \E r \in {Parse(buf)} :
          /\ r.st = "protocol"
          /\ buf' = r.rest
    /\ status' = "protocol"
    /\ UNCHANGED <<source, pos, frames, validLen, snapshotVars>>

\* The buffer is over the limit.
RefuseOverrun ==
    /\ status = "open" /\ Overrun
    /\ source.kind = "client" \/ Parse(buf).st = "none"
    /\ status' = "overrun"
    /\ UNCHANGED <<source, pos, buf, frames, validLen, snapshotVars>>

\* parse asks for more and a read brings some bytes.  Blank lines that parse
\* has skipped are gone from the buffer.
Read ==
    /\ status = "open" /\ ~Overrun
    /\ pos < Len(source.bytes)
    /\ \E r \in {Parse(buf)} :
          /\ r.st = "none"
          /\ \E n \in source.reads :
                /\ pos' = IF pos + n < Len(source.bytes) THEN pos + n ELSE Len(source.bytes)
                /\ buf' = r.rest \o SubSeq(source.bytes, pos + 1, pos')
    /\ UNCHANGED <<source, frames, validLen, status, snapshotVars>>

\* The read brings nothing: the end of the stream.
ReadEnd ==
    /\ status = "open" /\ ~Overrun
    /\ pos = Len(source.bytes)
    /\ \E r \in {Parse(buf)} :
          /\ r.st = "none"
          /\ buf' = r.rest
          /\ status' = IF r.rest = <<>> THEN "closed" ELSE "midframe"
    /\ UNCHANGED <<source, pos, frames, validLen, snapshotVars>>

\* A client sends nothing for READ_IDLE_TIMEOUT.
IdleTimeout ==
    /\ status = "open" /\ ~Overrun
    /\ source.kind = "client"
    /\ \E r \in {Parse(buf)} :
          /\ r.st = "none"
          /\ buf' = r.rest
    /\ status' = "timeout"
    /\ UNCHANGED <<source, pos, frames, validLen, snapshotVars>>

Next ==
    \/ Rewrite \/ OpenFile
    \/ TakeFrame \/ RefuseCommand \/ ParseError \/ RefuseOverrun
    \/ Read \/ ReadEnd \/ IdleTimeout

Spec == Init /\ [][Next]_vars

-----------------------------------------------------------------------------
(***************************************************************************)
(* Properties.                                                             *)
(***************************************************************************)

\* Where reads happen to end decides nothing: the frames handed on are
\* always the first frames of the stream, and reading ends as the stream
\* does, with all its frames, unless the client falls silent or has sent
\* more than the buffer may hold.
SplitsDecideNothing ==
    /\ IsPrefix(frames, source.frames)
    /\ status \in {"closed", "midframe"} =>
          frames = source.frames /\ source.end = status
    /\ status = "protocol" =>
          frames = source.frames /\ source.end \in {"protocol", "oversize"}
    /\ status = "overrun" =>
          \/ frames = source.frames /\ source.end = "oversize"
          \/ source.kind = "client" /\ pos - validLen > MaxBuffered

\* A rewritten file is read back to its end, byte for byte within the limits
\* of the parser, and its commands rebuild every entry it was written for;
\* unless one is a split string with a late deadline, at whose PEXPIRE the file
\* is cut, with every command before it applied.
RewriteReplays ==
    LET args(f) == [i \in DOMAIN f.items |-> f.items[i].bytes]
        named(key) == SelectSeq([i \in DOMAIN frames |-> args(frames[i])],
                                LAMBDA c : c[2] = key)
    IN  entries # <<>> /\ status \notin {"open", "unwritten"} =>
            IF \E x \in ToSet(entries) : LateSplit(x)
            THEN /\ status = "refused" /\ IsPrefix(frames, source.frames)
                 /\ source.frames[Len(frames) + 1].items[1] = Bulk(PExpireName)
            ELSE /\ status = "closed" /\ validLen = Len(source.bytes)
                 /\ \A x \in ToSet(entries) : Rebuilt(x.key, named(x.key)) = x

=============================================================================
