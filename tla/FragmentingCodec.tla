-------------------------- MODULE FragmentingCodec --------------------------
(***************************************************************************)
(* One direction of a management connection: the encoder of one side, the  *)
(* stream between, and the decoder of the other, as Framed drives them.    *)
(*                                                                         *)
(* A message of up to FragmentSize bytes is one frame, a JSON array of its *)
(* bytes; a longer one is cut into fragments, which the decoder keeps in a *)
(* table until it has all of them or finds that the first came too long    *)
(* ago.  Only the decoder's calls look at the clock.                       *)
(*                                                                         *)
(* Time passes in units of ten seconds, which is the least time between    *)
(* two clean-ups; a partial message is given three of them.                *)
(***************************************************************************)
EXTENDS Naturals, Sequences, FiniteSets

CONSTANTS
    Messages,         \* the messages that may be sent
    Size,             \* Size[m]: the number of bytes of m
    Digits,           \* Digits[m]: the decimal digits of each byte of m, 1 to 3
    FragmentSize,     \* MAX_FRAGMENT_DATA_SIZE (8 MiB)
    FrameLimit,       \* the inner codec's limit (32 MiB)
    CompleteOverhead, \* characters around the array of a complete message (15)
    FragmentOverhead, \* characters around the data of a fragment
    MaxSent,          \* messages sent
    MaxTicks          \* units of time that pass

DivCeil(a, b) == (a + b - 1) \div b
Least(a, b)   == IF a < b THEN a ELSE b

\* MAX_FRAGMENT_DATA_SIZE was chosen such that a fragment fits in a frame.
ASSUME CodecAssumption ==
    /\ Size \in [Messages -> Nat]
    /\ Digits \in [Messages -> 1..3]
    /\ FragmentSize \in Nat \ {0} /\ FrameLimit \in Nat
    /\ CompleteOverhead \in Nat /\ FragmentOverhead \in Nat
    /\ 4 * DivCeil(FragmentSize, 3) + FragmentOverhead <= FrameLimit
    /\ MaxSent \in Nat /\ MaxTicks \in Nat

Timeout == 3   \* FRAGMENT_TIMEOUT, in units of time
Period  == 1   \* between two clean-ups

VARIABLES
    sent,     \* the messages given to encode, in order
    refused,  \* those of them, by position, that it returned an error for
    nextId,   \* next_message_id
    wire,     \* frames that are written and not yet read
    torn,     \* does the stream end within a frame?
    writer,   \* "open", "closed" or "broken"
    buf,      \* whole frames in the reader's buffer
    reader,   \* Framed: "decode", "read", "eof", "end" or "error"
    partial,  \* partial_messages: from ids to what has come of a message
    since,    \* time since the last clean-up, up to Period
    ticks,    \* time that has passed
    got,      \* the messages decode returned
    expired   \* ids of the partial messages that were cleaned up

writerVars == <<sent, refused, nextId, writer>>
tableVars  == <<partial, since, expired>>
vars == <<writerVars, wire, torn, buf, reader, tableVars, ticks, got>>

-----------------------------------------------------------------------------
\* The n-th message as bytes, if it is m: each says whose and which it is.
Data(n, m) == [i \in 1..Size[m] |-> <<n, i>>]
Bytes(n)   == Data(n, sent[n])

\* data.chunks(FragmentSize)
Chunk(data, i) == SubSeq(data, (i - 1) * FragmentSize + 1, Least(i * FragmentSize, Len(data)))

\* Characters of a complete frame, with a comma between two bytes, and of a
\* fragment, in base64.
CompleteLen(m) ==
    (Digits[m] + 1) * Size[m] + CompleteOverhead - (IF Size[m] = 0 THEN 0 ELSE 1)
FragmentLen(data) == 4 * DivCeil(Len(data), 3) + FragmentOverhead

Complete(data) == [kind |-> "complete", data |-> data]
Fragment(id, i, total, data) ==
    [kind |-> "fragment", id |-> id, index |-> i, total |-> total, data |-> data]

\* What fragment_message makes of data.
Fragments(id, data) ==
    LET total == DivCeil(Len(data), FragmentSize)
    IN  [i \in 1..total |-> Fragment(id, i, total, Chunk(data, i))]

\* A message in the table is complete when it has as many fragments as it needs;
\* reassembling puts them together by index.
IsComplete(p) == Cardinality(DOMAIN p.parts) = p.total
Reassemble(p) ==
    LET upTo[i \in 0..p.total] == IF i = 0 THEN <<>> ELSE upTo[i - 1] \o p.parts[i]
    IN  upTo[p.total]

AllBytes == (1..MaxSent) \X Nat

TypeOK ==
    /\ sent \in Seq(Messages) /\ Len(sent) <= MaxSent
    /\ refused \subseteq 1..Len(sent)
    /\ nextId \in 1..(MaxSent + 1)
    /\ \A s \in {wire, buf} : \A i \in DOMAIN s :
         /\ s[i].kind \in {"complete", "fragment"}
         /\ s[i].data \in Seq(AllBytes)
         /\ s[i].kind = "fragment" => s[i].id < nextId /\ s[i].index \in 1..s[i].total
    /\ torn \in BOOLEAN
    /\ writer \in {"open", "closed", "broken"}
    /\ reader \in {"decode", "read", "eof", "end", "error"}
    /\ DOMAIN partial \subseteq 1..(nextId - 1)
    /\ \A id \in DOMAIN partial :
         /\ partial[id].age \in 0..MaxTicks
         /\ DOMAIN partial[id].parts \subseteq 1..partial[id].total
    /\ since \in 0..Period /\ ticks \in 0..MaxTicks
    /\ got \in Seq(Seq(AllBytes))
    /\ expired \subseteq 1..(nextId - 1)

Init ==
    /\ sent = <<>> /\ refused = {} /\ nextId = 1
    /\ wire = <<>> /\ torn = FALSE /\ writer = "open"
    /\ buf = <<>> /\ reader = "decode"
    /\ partial = <<>> /\ since = 0 /\ ticks = 0
    /\ got = <<>> /\ expired = {}

-----------------------------------------------------------------------------
(* encode.                                                                 *)

EncodeComplete(m) ==
    /\ writer = "open" /\ Len(sent) < MaxSent
    /\ Size[m] <= FragmentSize
    /\ sent' = Append(sent, m)
    /\ IF CompleteLen(m) <= FrameLimit
       THEN wire' = Append(wire, Complete(Data(Len(sent) + 1, m))) /\ refused' = refused
       ELSE refused' = refused \cup {Len(sent) + 1} /\ wire' = wire
    /\ UNCHANGED <<nextId, torn, writer, buf, reader, tableVars, ticks, got>>

EncodeSameId(m) ==   \* Mutant of EncodeFragments: message ids are not distinct
    /\ writer = "open" /\ Len(sent) < MaxSent
    /\ Size[m] > FragmentSize
    /\ sent' = Append(sent, m)
    /\ nextId' = nextId + 1
    /\ wire' = wire \o Fragments(1, Data(Len(sent) + 1, m))
    /\ UNCHANGED <<refused, torn, writer, buf, reader, tableVars, ticks, got>>

\* The fragments are put in the buffer one by one; the first that is too long
\* ends it, and leaves those before it.
EncodeFragments(m) ==
    /\ writer = "open" /\ Len(sent) < MaxSent
    /\ Size[m] > FragmentSize
    /\ sent' = Append(sent, m)
    /\ nextId' = nextId + 1
    /\ LET frs  == Fragments(nextId, Data(Len(sent) + 1, m))
           fit  == {i \in DOMAIN frs : \A j \in 1..i : FragmentLen(frs[j].data) <= FrameLimit}
       IN  /\ wire' = wire \o SubSeq(frs, 1, Cardinality(fit))
           /\ refused' = IF fit = DOMAIN frs THEN refused ELSE refused \cup {Len(sent) + 1}
    /\ UNCHANGED <<torn, writer, buf, reader, tableVars, ticks, got>>

\* The writer closes the connection, or breaks: what was on its way is cut
\* anywhere, perhaps within a frame.
WriterCloses ==
    /\ writer = "open"
    /\ writer' = "closed"
    /\ UNCHANGED <<sent, refused, nextId, wire, torn, buf, reader, tableVars, ticks, got>>

WriterBreaks ==
    /\ writer = "open"
    /\ writer' = "broken"
    /\ \E n \in 0..Len(wire) :
         /\ wire' = SubSeq(wire, 1, n)
         /\ torn' = (n < Len(wire))
    /\ UNCHANGED <<sent, refused, nextId, buf, reader, tableVars, ticks, got>>

-----------------------------------------------------------------------------
(* decode.                                                                 *)

CleanedYoung(t) ==   \* Mutant of Cleaned: what is young is dropped
    [id \in {i \in DOMAIN t : since < Period \/ t[i].age > Timeout} |-> t[id]]

\* cleanup_expired: the table without what came too long ago, if it is time.
Cleaned(t) ==
    [id \in {i \in DOMAIN t : since < Period \/ t[i].age <= Timeout} |-> t[id]]

AddedAnew(t, f) ==   \* Mutant of Added: insert
    LET new == [age |-> 0, total |-> f.total, parts |-> [i \in {f.index} |-> f.data]]
    IN  [id \in DOMAIN t \cup {f.id} |-> IF id = f.id THEN new ELSE t[id]]

\* The table with a fragment added: or_insert_with, then add_fragment.
Added(t, f) ==
    LET old == IF f.id \in DOMAIN t THEN t[f.id]
               ELSE [age |-> 0, total |-> f.total, parts |-> <<>>]
        new == [old EXCEPT !.parts = [i \in DOMAIN @ \cup {f.index} |->
                                        IF i = f.index THEN f.data ELSE @[i]]]
    IN  [id \in DOMAIN t \cup {f.id} |-> IF id = f.id THEN new ELSE t[id]]

Without(t, id) == [i \in DOMAIN t \ {id} |-> t[i]]

\* One call: the clean-up, then at most one frame.  some says whether a message
\* is returned.
Decode(some) ==
    IF buf = <<>>
    THEN some = FALSE /\ buf' = buf /\ partial' = Cleaned(partial) /\ got' = got
    ELSE LET f == Head(buf)
             t == IF f.kind = "fragment" THEN Added(Cleaned(partial), f) ELSE Cleaned(partial)
         IN  /\ buf' = Tail(buf)
             /\ some = (f.kind = "complete" \/ IsComplete(t[f.id]))
             /\ partial' = IF some /\ f.kind = "fragment" THEN Without(t, f.id) ELSE t
             /\ got' = IF ~some THEN got
                        ELSE Append(got, IF f.kind = "complete" THEN f.data
                                          ELSE Reassemble(t[f.id]))

CleanupDone ==
    /\ since' = IF since < Period THEN since ELSE 0
    /\ expired' = expired \cup {id \in DOMAIN partial : since >= Period /\ partial[id].age > Timeout}

\* Framed calls decode until it returns nothing, and only then reads; at the end
\* of the stream it is an error if decode returns nothing and leaves something.
FramedDecode ==
    /\ reader = "decode"
    /\ \E some \in BOOLEAN :
         /\ Decode(some)
         /\ reader' = IF some THEN "decode" ELSE "read"
    /\ CleanupDone
    /\ UNCHANGED <<writerVars, wire, torn, ticks>>

FramedDecodeEof ==
    /\ reader = "eof"
    /\ \E some \in BOOLEAN :
         /\ Decode(some)
         /\ reader' = IF some THEN "eof"
                      ELSE IF buf' # <<>> \/ torn THEN "error" ELSE "end"
    /\ CleanupDone
    /\ UNCHANGED <<writerVars, wire, torn, ticks>>

\* A read brings what fits in the buffer, which grows by doubling: it does not stop
\* at the end of a frame.
FramedRead ==
    /\ reader = "read" /\ wire # <<>>
    /\ \E n \in 1..Len(wire) :
         /\ buf' = buf \o SubSeq(wire, 1, n)
         /\ wire' = SubSeq(wire, n + 1, Len(wire))
    /\ reader' = "decode"
    /\ UNCHANGED <<writerVars, torn, tableVars, ticks, got>>

FramedReadEof ==
    /\ reader = "read" /\ wire = <<>> /\ writer # "open"
    /\ reader' = "eof"
    /\ UNCHANGED <<writerVars, wire, torn, buf, tableVars, ticks, got>>

Tick ==
    /\ ticks < MaxTicks
    /\ ticks' = ticks + 1
    /\ since' = Period
    /\ partial' = [id \in DOMAIN partial |-> [partial[id] EXCEPT !.age = @ + 1]]
    /\ UNCHANGED <<writerVars, wire, torn, buf, reader, got, expired>>

Next ==
    \/ \E m \in Messages : EncodeComplete(m) \/ EncodeFragments(m)
    \/ WriterCloses \/ WriterBreaks
    \/ FramedDecode \/ FramedDecodeEof \/ FramedRead \/ FramedReadEof
    \/ Tick

Spec == Init /\ [][Next]_vars

\* The reader's task is run.  Nothing is asked of the writer or of time.
LiveSpec == Spec /\ WF_vars(FramedDecode \/ FramedDecodeEof \/ FramedRead \/ FramedReadEof)

-----------------------------------------------------------------------------
(* Properties.                                                             *)

\* The id of the n-th message, if it was sent in fragments.
IdOf(n) == Cardinality({k \in 1..n : Size[sent[k]] > FragmentSize})
IsLong(n) == Size[sent[n]] > FragmentSize

\* What decode returns are messages that were encoded, whole, in their order and
\* none twice, however the stream is cut into reads, whatever is cleaned up in
\* between and wherever it breaks.
DecodedWasEncoded ==
    \E f \in [1..Len(got) -> 1..Len(sent)] :
        /\ \A i \in 1..Len(got) : got[i] = Bytes(f[i]) /\ f[i] \notin refused
        /\ \A i, j \in 1..Len(got) : i < j => f[i] < f[j]

\* The table does not grow with the traffic: a message leaves it with its last
\* fragment, and at most one of those in it can still be completed; every other
\* one has lost fragments to a clean-up and waits for its own.
TableHoldsOne ==
    /\ \A id \in DOMAIN partial : ~IsComplete(partial[id])
    /\ Cardinality({id \in DOMAIN partial : id \notin expired}) <= 1

\* The n-th message has come to an end: it was returned, it is one that encode
\* refused, which only short ones are, or it took longer than the timeout.
Resolved(n) ==
    \/ \E i \in 1..Len(got) : got[i] = Bytes(n)
    \/ n \in refused /\ ~IsLong(n)
    \/ IsLong(n) /\ IdOf(n) \in expired

\* When everything that was written has been decoded, every message has come to an
\* end, and nothing else is left of it.
LostOnlyByExpiry ==
    /\ TypeOK
    /\ TableHoldsOne
    /\ (writer # "broken" /\ wire = <<>> /\ buf = <<>>) => \A n \in 1..Len(sent) : Resolved(n)

\* The reader waits for bytes although there are frames in its buffer: decode has
\* returned nothing for a fragment that did not complete its message, and so Framed
\* does not ask it again before it has read more.
Stalled == reader = "read" /\ buf # <<>> /\ partial # <<>> /\ wire = <<>> /\ writer = "open"

\* Every message comes to its end, unless the stream fails, as it also does when it
\* is closed and the reader has more frames in its buffer behind such a fragment;
\* and unless, from some moment on, the reader has stalled for good: whatever is
\* written later takes it out of a stall, and all that was held up is decoded.
EverythingDecoded ==
    \A n \in 1..MaxSent :
        [](n <= Len(sent) =>
             <>((n <= Len(sent) /\ Resolved(n)) \/ reader = "error" \/ writer = "broken" \/ []Stalled))

=============================================================================
