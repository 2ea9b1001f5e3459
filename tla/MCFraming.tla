------------------------------ MODULE MCFraming -----------------------------
(***************************************************************************)
(* Framing for TLC: streams of two requests with every kind of frame and   *)
(* of end, read in pieces of every size, and rewritten files of entries    *)
(* whose lengths lie around the limits and around the powers of ten.       *)
(***************************************************************************)
EXTENDS Framing

Ones(n, b) == [i \in 1 .. n |-> b]

-----------------------------------------------------------------------------
\* Requests and replies as the encoder writes them.
Frames ==
    { Request(<<<<"G">>, <<CR, LF>>>>),
      Request(<<<<"G">>, Ones(10, "k")>>),
      Array(<<Array(<<Integer(-12)>>), Null, NullArray, Bulk(<<>>)>>),
      Simple(<<"O", "K">>), Error(<<>>), Array(<<>>) }

\* Inline requests with the words they stand for.
Inline ==
    { <<<<"G", " ", "k", LF>>, <<<<"G">>, <<"k">>>>>>,
      <<<<"TAB", "G", " ", " ", "\\", " ", "k", "\\", "\"", " ", CR, LF>>,
        <<<<"G">>, <<" ", "k", "\"">>>>>>,
      <<<<"G", " ", "\"", "\\", "n", "\\", "x", "0", "0", "\\", "x", "g", "\"", "k", LF>>,
        <<<<"G">>, <<LF, "00", "x", "g", "k">>>>>>,
      <<<<"'", "\\", "n", "\\", "'", "\"", " ", "'", "\"", "'", "\"", CR, LF>>,
        <<<<"n", "'", "\"", " ", "'">>>>>>,
      <<<<"\"", "\"", CR, LF>>, <<<<>>>>>> }

Good ==
    {[bytes |-> Encode(f), frames |-> <<f>>] : f \in Frames}
    \cup {[bytes |-> i[1], frames |-> <<Request(i[2])>>] : i \in Inline}
    \cup {[bytes |-> <<" ", CR, LF>>, frames |-> <<>>]}

\* Bytes that no frame starts with.
Bad ==
    { <<"$", "-", "2", CR, LF>>, <<"*", "-", "2", CR, LF>>, <<":", "x", CR, LF>>,
      <<"$", CR, LF>>, <<"*", "9", "9", CR, LF>>, <<"$", "9", "9", CR, LF>>,
      <<"+", "bad", CR, LF>>, <<"$", "1", CR, LF, "k", "k", LF>>,
      <<"*", "1", CR, LF, "*", "1", CR, LF, "*", "1", CR, LF, "*", "0", CR, LF>>,
      <<"+">> \o Ones(MaxLineLen + 2, "k"), Ones(MaxLineLen + 1, "k"),
      <<"\"", "k", LF>>, <<"k", "\\", LF>>, <<"\"", "\\", LF>> }

Cut == {SubSeq(g.bytes, 1, Len(g.bytes) - n) : g \in Good, n \in 1 .. 2}

AnySize == 1 .. 40

Starts == {[bytes |-> <<>>, frames |-> <<>>]} \cup Good
Two(kind, g, h) == Stream(kind, g.bytes \o h.bytes, g.frames \o h.frames, "closed", AnySize)

ClientStreams ==
    {Two("client", g, h) : g \in Good, h \in Good}
    \cup {Stream("client", g.bytes \o b, g.frames, "protocol", AnySize) :
            g \in Starts, b \in Bad}
    \cup {Stream("client", g.bytes \o b, g.frames, "midframe", AnySize) :
            g \in Starts, b \in {c \in Cut : c # <<>> /\ c[1] \in {"*", "+", "G"}}}

\* More requests at once than the buffer holds, each of them within it.
LongRequest == Request(<<<<"S">>, <<"k">>, Ones(60, "v")>>)
Pipelined ==
    {Stream("client", Encode(LongRequest) \o Encode(LongRequest),
            <<LongRequest, LongRequest>>, "closed", {9, 46, MaxBuffered})}

\* A request of small parts that is longer than the limit.
Oversize ==
    {Stream(kind, Encode(f) \o Encode(Request(Ones(14, <<"k">>))), <<f>>, "oversize",
            {9, 46, 2 * MaxBuffered}) : kind \in {"client", "file"}, f \in Frames}

\* A file with a torn tail.
TornFiles ==
    {Stream("file", Encode(f) \o SubSeq(Encode(LongRequest), 1, n), <<f>>, "midframe",
            {5, 30}) : f \in Frames, n \in {1, 30, 60}}

-----------------------------------------------------------------------------
EntryBytes == {"A", "D", "E", "H", "I", "N", "P", "R", "S", "T", "U", "X"}
                \cup {"k", "f", "v", "w", "z", "7"}
Keys == {Ones(n, "k") : n \in {1, 36}}
Deadlines == {<<>>, <<"at", Ones(13, "7")>>}
LateDeadline == <<"late", Ones(19, "7")>>
Lists ==
    {Ones(n, <<Ones(len, "v")>>) : n \in {1, 2, 3, 5, 7, 8, 9, 12}, len \in {0, 1, 9, 10, 30}}
    \cup {Ones(1, <<Ones(len, "v")>>) : len \in 24 .. 62}
    \cup {<<<<Ones(a, "v")>>, <<Ones(b, "w")>>, <<Ones(a, "v")>>>> :
            a, b \in {0, 8, 20, 32, 54}}
Hashes ==
    {[i \in 1 .. n |-> <<Ones(i, "f"), Ones(len, "v")>>] :
        n \in 1 .. 6, len \in {0, 1, 9, 10, 24}}
Strings == {<<<<Ones(len, "v")>>>> : len \in (0 .. 2) \cup (8 .. 64) \cup (98 .. 118)}

EntriesOf(kind, values) ==
    {Entry(kind, k, v, d) : k \in Keys, v \in values, d \in Deadlines}

\* The entry, with another one behind it in the file.
Behind == Entry("string", <<"z">>, <<<<<<"v">>>>>>, <<>>)
RewrittenEntries ==
    {<<x, Behind>> : x \in EntriesOf("list", Lists) \cup EntriesOf("hash", Hashes)
                              \cup EntriesOf("string", Strings)
                              \cup {Entry("string", k, v, LateDeadline) :
                                       k \in Keys, v \in Strings}}
WholeBuffer == {MaxBuffered}

Streams == ClientStreams \cup Pipelined \cup Oversize \cup TornFiles

=============================================================================
