---------------------------- MODULE RangeResponse ----------------------------
(***************************************************************************)
(* One AQHTTPResponseOperation: the Range header of its request, and the   *)
(* head and the body it writes to the socket.                              *)
(*                                                                         *)
(* Three subclasses provide what is sent: a resource of the package        *)
(* (random access to an entry of the archive), a file of the bundle (a     *)
(* stream, for which the Range header is not looked at), and a subclass    *)
(* with nothing but a stream, for which -main falls back to picking the    *)
(* ranges out of the stream.                                               *)
(*                                                                         *)
(* A range is a pair <<location, length>>, as DDRange is. A byte is known  *)
(* by its position; head and boundaries are items of their own.            *)
(***************************************************************************)
EXTENDS Integers, Sequences, FiniteSets

CONSTANTS
    Size,       \* bytes of the item
    Chunk,      \* SBUFLEN, what one read of the stream asks for
    Headers,    \* the Range headers requests have, << >> for none
    None        \* no Content-Length

ASSUME SizesAssumption == Size \in Nat /\ Chunk \in Nat \ {0} /\ None \notin Nat

Sources == {"archive", "bundle", "stream"}

-----------------------------------------------------------------------------
(* -parseRangeRequest:withContentLength:. A header is a sequence of         *)
(* components: a byte "n", a span "n-m", a rest "n-", a suffix "-n", or     *)
(* something with no number in it. strtoull sets errno when it finds none.  *)

Components ==
    [kind : {"byte", "rest"}, first : Nat]
        \cup [kind : {"span"}, first : Nat, last : Nat]
        \cup [kind : {"suffix"}, count : Nat] \cup [kind : {"junk"}]

ASSUME HeadersAssumption == Headers \subseteq Seq(Components)

(* Mutant: the last byte of a span is left out. *)
ExclusiveRangeOf(c) ==
    CASE c.kind = "byte"   -> <<c.first, 1>>
      [] c.kind = "span"   -> <<c.first, c.last - c.first>>
      [] c.kind = "rest"   -> <<c.first, Size - c.first>>
      [] c.kind = "suffix" -> <<Size - c.count, c.count>>

RangeOf(c) ==
    CASE c.kind = "byte"   -> <<c.first, 1>>
      [] c.kind = "span"   -> <<c.first, c.last - c.first + 1>>
      [] c.kind = "rest"   -> <<c.first, Size - c.first>>
      [] c.kind = "suffix" -> <<Size - c.count, c.count>>

Acceptable(c) ==
    CASE c.kind = "byte"   -> c.first < Size
      [] c.kind = "span"   -> c.first <= c.last /\ c.last < Size
      [] c.kind = "rest"   -> c.first < Size
      [] c.kind = "suffix" -> c.count <= Size
      [] c.kind = "junk"   -> FALSE

(* nil, here << >>, as soon as one component is not acceptable. *)
Parsed(h) ==
    IF \A i \in DOMAIN h : Acceptable(h[i]) THEN [i \in DOMAIN h |-> RangeOf(h[i])] ELSE << >>

-----------------------------------------------------------------------------
(* DDRange. *)

MaxRange(r) == r[1] + r[2]

Positions(r) == r[1]..(MaxRange(r) - 1)

Later(a, b) == IF a > b THEN a ELSE b
Earlier(a, b) == IF a < b THEN a ELSE b

(* Mutant: the subrange is everything that was received. *)
WholeReceived(r, received) == received

Intersection(r, received) ==
    IF MaxRange(r) < received[1] \/ MaxRange(received) < r[1]
    THEN <<0, 0>>
    ELSE LET start == Later(r[1], received[1])
         IN  <<start, Earlier(MaxRange(r), MaxRange(received)) - start>>

NotAfter(r, s) == r[1] < s[1] \/ (r[1] = s[1] /\ r[2] <= s[2])

-----------------------------------------------------------------------------
VARIABLES
    method,     \* the request's method
    header,     \* its Range header
    closing,    \* it asks for "Connection: close"
    source,     \* which subclass answers
    ranges,     \* _ranges, << >> for nil
    pc,         \* where -main is
    head,       \* status and Content-Length that were sent, << >> before
    body,       \* what was written after the head, Lost for what was not sent
    index,      \* _currentRangeIndex and the loop over the ranges, from 1
    offset,     \* _currentStreamOffset
    forceClose, \* forceCloseConnection
    failed,     \* the socket did not take all it was given
    cut,        \* history: reading the item failed
    connected   \* the operation does not close the connection

requestVars == <<method, header, closing, source>>
streamVars == <<index, offset>>
vars == <<requestVars, ranges, pc, head, body, streamVars, forceClose, failed, cut, connected>>

Part(r) == [kind |-> "part", range |-> r]
Trailer == [kind |-> "trailer"]
Byte(p) == [kind |-> "byte", at |-> p]
Lost == [kind |-> "lost"]
Data(r) == [i \in 1..r[2] |-> Byte(r[1] + i - 1)]

Items ==
    [kind : {"part"}, range : (0..Size) \X (0..Size)]
        \cup [kind : {"trailer", "lost"}] \cup [kind : {"byte"}, at : 0..(Size - 1)]

TypeOK ==
    /\ method \in {"GET", "HEAD"}
    /\ header \in Headers
    /\ closing \in BOOLEAN
    /\ source \in Sources
    /\ ranges \in Seq((0..Size) \X (0..Size))
    /\ pc \in {"head", "stream", "whole", "parts", "trailer", "finally", "ended", "hung"}
    /\ head \in {<< >>} \cup ({200, 206} \X (0..Size \cup {None}))
    /\ body \in Seq(Items)
    /\ index \in 1..(Len(ranges) + 1)
    /\ pc = "stream" /\ ranges # << >> => index <= Len(ranges)
    /\ offset \in 0..Size
    /\ forceClose \in BOOLEAN /\ failed \in BOOLEAN /\ cut \in BOOLEAN /\ connected \in BOOLEAN

(* A file of the bundle is made into an operation with ranges: nil. *)
Init ==
    /\ method \in {"GET", "HEAD"}
    /\ header \in Headers
    /\ closing \in BOOLEAN
    /\ source \in Sources
    /\ ranges = IF source = "bundle" THEN << >> ELSE Parsed(header)
    /\ pc = "head" /\ head = << >> /\ body = << >>
    /\ index = 1 /\ offset = 0
    /\ forceClose = FALSE /\ failed = FALSE /\ cut = FALSE
    /\ connected = TRUE

(* _orderedRanges, and _isSingleRange: its indexes are contiguous. Without  *)
(* an index, first and last are NSNotFound and it is not single.            *)
Ordered == UNION {Positions(ranges[i]) : i \in DOMAIN ranges}

IsSingleRange ==
    /\ Ordered # {}
    /\ \A p, q \in Ordered : p..q \subseteq Ordered

ResponseRange ==
    IF ranges = << >>
    THEN <<0, Size>>
    ELSE <<CHOOSE p \in Ordered : \A q \in Ordered : p <= q, Cardinality(Ordered)>>

(* What -main does after a write that was not sent whole: it stops, for     *)
(* -writeAll: returned NO (the socket is not connected, or the error is     *)
(* EPIPE, ECONNRESET or ECANCELED); it goes on, for any other error is a    *)
(* YES; or it waits for ever, for -writeBytes: gave up without a completion.*)
AfterLoss(then) == {"finally", then, "hung"}

Sent(pieces, lost) == [i \in DOMAIN pieces |-> IF i \in lost THEN Lost ELSE pieces[i]]

(* -writeAll: for each of the pieces; the socket may lose any of them. *)
WriteEach(pieces, then) ==
    \E lost \in SUBSET DOMAIN pieces :
        /\ body' = body \o Sent(pieces, lost)
        /\ failed' = (failed \/ lost # {})
        /\ pc' \in IF lost = {} THEN {then} ELSE AfterLoss(then)

-----------------------------------------------------------------------------
(* -main: the head. *)

Status == IF ranges # << >> THEN 206 ELSE 200

ContentLength ==
    CASE ranges = << >> -> Size
      [] ranges # << >> /\ IsSingleRange -> Cardinality(Ordered)
      [] OTHER -> None

AfterHead ==
    CASE method = "HEAD" -> "finally"
      [] method # "HEAD" /\ source # "archive" -> "stream"
      [] OTHER -> IF ranges = << >> \/ IsSingleRange THEN "whole" ELSE "parts"

(* sortedArrayUsingComparator: gives the same ranges in ascending order. *)
SortRanges ==
    \E p \in [DOMAIN ranges -> DOMAIN ranges] :
        /\ \A i, j \in DOMAIN ranges :
               i < j => p[i] # p[j] /\ NotAfter(ranges[p[i]], ranges[p[j]])
        /\ ranges' = [i \in DOMAIN ranges |-> ranges[p[i]]]

SendHead ==
    /\ pc = "head"
    /\ \/ /\ head' = <<Status, ContentLength>>
          /\ pc' = AfterHead
          /\ UNCHANGED failed
       \/ /\ failed' = TRUE
          /\ pc' \in AfterLoss(AfterHead)
          /\ UNCHANGED head
    /\ IF pc' = "stream" THEN SortRanges ELSE UNCHANGED ranges
    /\ UNCHANGED <<requestVars, body, streamVars, forceClose, cut, connected>>

-----------------------------------------------------------------------------
(* -main: from a random access file. *)

SendWhole ==
    /\ pc = "whole"
    /\ WriteEach(Data(ResponseRange), "finally")
    /\ UNCHANGED <<requestVars, ranges, head, streamVars, forceClose, cut, connected>>

(* Mutant: the connection is not closed. *)
WholeUnreadableKept ==
    /\ pc = "whole"
    /\ ResponseRange[2] > 0
    /\ cut' = TRUE
    /\ pc' = "finally"
    /\ UNCHANGED <<requestVars, ranges, head, body, streamVars, forceClose, failed, connected>>

(* -readDataFromByteRange: returns nil: the seek failed or bytes are missing.*)
WholeUnreadable ==
    /\ pc = "whole"
    /\ ResponseRange[2] > 0
    /\ cut' = TRUE
    /\ forceClose' = TRUE
    /\ pc' = "finally"
    /\ UNCHANGED <<requestVars, ranges, head, body, streamVars, failed, connected>>

SendPart ==
    /\ pc = "parts"
    /\ WriteEach(<<Part(ranges[index])>> \o Data(ranges[index]),
                 IF index = Len(ranges) THEN "trailer" ELSE "parts")
    /\ index' = index + 1
    /\ UNCHANGED <<requestVars, ranges, head, offset, forceClose, cut, connected>>

PartUnreadable ==
    /\ pc = "parts"
    /\ ranges[index][2] > 0
    /\ WriteEach(<<Part(ranges[index])>>, "finally")
    /\ cut' = TRUE
    /\ UNCHANGED <<requestVars, ranges, head, streamVars, forceClose, connected>>

SendTrailer ==
    /\ pc = "trailer"
    /\ WriteEach(<<Trailer>>, "finally")
    /\ UNCHANGED <<requestVars, ranges, head, streamVars, forceClose, cut, connected>>

-----------------------------------------------------------------------------
(* The stream: NSStreamEventHasBytesAvailable and EndEncountered. *)

Received(k) == <<offset, k>>

(* -_inputStream:receivedData:range: without ranges. *)
StreamAll(k) ==
    /\ pc = "stream"
    /\ ranges = << >>
    /\ k <= Size - offset
    /\ WriteEach(Data(Received(k)), "stream")
    /\ offset' = offset + k
    /\ UNCHANGED <<requestVars, ranges, head, index, forceClose, cut, connected>>

StreamSkip(k) ==
    /\ pc = "stream"
    /\ ranges # << >>
    /\ k <= Size - offset
    /\ Intersection(ranges[index], Received(k))[2] = 0
    /\ offset' = offset + k
    /\ UNCHANGED <<requestVars, ranges, pc, head, body, index, forceClose, failed, cut, connected>>

Fulfilled(k) == MaxRange(Received(k)) >= MaxRange(ranges[index])

LastFulfilled(k) == Fulfilled(k) /\ index = Len(ranges)

(* A boundary when the data start in the range, the bytes in the range, the *)
(* next range when they reach its end, and the trailer after the last one:  *)
(* what else was received is dropped. After a NO the index is not read any  *)
(* more, so it may move as after a YES.                                     *)
StreamRange(k) ==
    /\ pc = "stream"
    /\ ranges # << >>
    /\ k <= Size - offset
    /\ LET r == ranges[index]
           within == Intersection(r, Received(k))
           boundary == IF offset >= r[1] /\ ~IsSingleRange THEN <<Part(r)>> ELSE << >>
           trailer == IF LastFulfilled(k) THEN <<Trailer>> ELSE << >>
       IN  /\ within[2] > 0
           /\ WriteEach(boundary \o Data(within) \o trailer,
                        IF LastFulfilled(k) THEN "finally" ELSE "stream")
    /\ index' = IF Fulfilled(k) THEN index + 1 ELSE index
    /\ offset' = offset + k
    /\ UNCHANGED <<requestVars, ranges, head, forceClose, cut, connected>>

(* Mutant: the end of the stream does not complete the response. *)
StreamEndIgnored ==
    /\ pc = "stream"
    /\ offset = Size
    /\ UNCHANGED vars

StreamEnds ==
    /\ pc = "stream"
    /\ offset = Size
    /\ pc' = "finally"
    /\ UNCHANGED <<requestVars, ranges, head, body, streamVars, forceClose, failed, cut, connected>>

(* NSStreamEventErrorOccurred falls through to the end. *)
StreamError ==
    /\ pc = "stream"
    /\ offset < Size
    /\ cut' = TRUE
    /\ pc' = "finally"
    /\ UNCHANGED <<requestVars, ranges, head, body, streamVars, forceClose, failed, connected>>

-----------------------------------------------------------------------------
(* @finally: the response has the request's Connection header. The close    *)
(* waits for ever behind another one that has claimed the socket.           *)
Finally ==
    /\ pc = "finally"
    /\ connected' = ~(forceClose \/ closing)
    /\ pc' \in IF connected' THEN {"ended"} ELSE {"ended", "hung"}
    /\ UNCHANGED <<requestVars, ranges, head, body, streamVars, forceClose, failed, cut>>

StreamStep ==
    \/ \E k \in 1..Chunk : StreamAll(k) \/ StreamSkip(k) \/ StreamRange(k)
    \/ StreamEnds \/ StreamError

FileStep == SendWhole \/ WholeUnreadable \/ SendPart \/ PartUnreadable \/ SendTrailer

Next == SendHead \/ FileStep \/ StreamStep \/ Finally

Spec == Init /\ [][Next]_vars

(* The operation's thread runs, the stream's events arrive on its run loop, *)
(* and a peer that stays takes what it is sent.                             *)
FairSpec == Spec /\ WF_vars(Next)

-----------------------------------------------------------------------------
(* Properties. *)

(* What RFC 2616 means by a component, and when the code honours a header: *)
(* all of it lies in the item.                                             *)
Asked(c) ==
    CASE c.kind = "byte"   -> {c.first}
      [] c.kind = "span"   -> {p \in 0..c.last : p >= c.first}
      [] c.kind = "rest"   -> {p \in 0..(Size - 1) : p >= c.first}
      [] c.kind = "suffix" -> {p \in 0..(Size - 1) : p + c.count >= Size}
      [] c.kind = "junk"   -> {}

WithinItem(c) ==
    /\ Asked(c) \subseteq 0..(Size - 1)
    /\ c.kind = "suffix" => c.count <= Size
    /\ c.kind # "suffix" => Asked(c) # {}

Honoured ==
    source # "bundle" /\ header # << >> /\ \A i \in DOMAIN header : WithinItem(header[i])

AskedBytes == UNION {Asked(header[i]) : i \in DOMAIN header}

IsByte(item) == item.kind = "byte"

(* The bytes of a set of positions, each once and in order. *)
Lists(items, positions) ==
    /\ \A i \in DOMAIN items : IsByte(items[i]) /\ items[i].at \in positions
    /\ \A i, j \in DOMAIN items : i < j => items[i].at < items[j].at
    /\ Len(items) = Cardinality(positions)

(* The i-th part of the body: what is between two boundaries. *)
Boundaries == {i \in DOMAIN body : ~IsByte(body[i])}

IsPart(c, i) ==
    /\ body[i].kind = "part"
    /\ \E j \in Boundaries :
           /\ j > i
           /\ Boundaries \cap ((i + 1)..(j - 1)) = {}
           /\ Lists(SubSeq(body, i + 1, j - 1), Asked(c))
    /\ Positions(body[i].range) = Asked(c)

Complete == pc = "ended" /\ method = "GET" /\ ~failed /\ ~cut

(* The body of a response that was not cut short is what was asked for: the *)
(* item when the Range header is missing or not honoured, the bytes of a    *)
(* contiguous request once and in order, or a part for each component in    *)
(* the order of the request, and a boundary at the end. Streamed ranges are *)
(* left to StreamedOnlyAsked.                                               *)
BodyIsAsked ==
    Complete /\ source # "stream" =>
        CASE ~Honoured -> head[1] = 200 /\ Lists(body, 0..(Size - 1))
          [] Honoured /\ head[2] # None -> head[1] = 206 /\ Lists(body, AskedBytes)
          [] OTHER ->
                /\ head[1] = 206
                /\ Cardinality(Boundaries) = Len(header) + 1
                /\ \A i \in DOMAIN header :
                       \E b \in Boundaries :
                           /\ Cardinality({a \in Boundaries : a < b}) = i - 1
                           /\ IsPart(header[i], b)
                /\ body[Len(body)] = Trailer

(* Of a resource of the package: whenever the connection is kept, it has     *)
(* carried as many bytes as Content-Length said, or the next response is     *)
(* read from the wrong place (AQHTTPResponseOperation.m:170, :273). Left out *)
(* are a write that failed, for -writeAll: calls some errors a success and   *)
(* the connection may be kept without those bytes, and an exception, which   *)
(* -main catches wherever it is and keeps the connection too.                *)
LengthHonest ==
    pc = "ended" /\ method = "GET" /\ source = "archive" /\ connected /\ ~failed
        => head[2] \in {None, Len(body)}

(* Ranges picked out of a stream: no byte is sent that was not asked for,    *)
(* and none twice, whatever pieces the stream delivers and the socket loses. *)
StreamedOnlyAsked ==
    source = "stream" /\ Honoured =>
        /\ \A i \in DOMAIN body : IsByte(body[i]) => body[i].at \in AskedBytes
        /\ \A i, j \in DOMAIN body :
               i < j /\ IsByte(body[i]) /\ IsByte(body[j]) => body[i].at < body[j].at

(* Whatever fails or ends early, the operation leaves its run loop and ends, *)
(* unless it waits for ever in -writeAll: or -close on a socket that was     *)
(* closed under it (AQHTTPResponseOperation.m:523, AQSocket.m:762).          *)
ResponseEnds == <>(pc \in {"ended", "hung"})
=============================================================================
