------------------------- MODULE RangeResponseProofs -------------------------
(***************************************************************************)
(* What a response carries, for every size of the item, every Range header *)
(* of any number of components and every way the stream and the writes     *)
(* split or fail: the body is what was asked for, Content-Length is what   *)
(* the body has when the connection is kept, and nothing is picked out of  *)
(* a stream that was not asked for.                                        *)
(***************************************************************************)
EXTENDS RangeResponse, FiniteSetTheorems, SequenceTheorems, WellFoundedInduction, TLAPS

Pairs == (0..Size) \X (0..Size)

(* A set of natural numbers has a first element, and a last one if bounded. *)
LEMMA LeastOf ==
    ASSUME NEW T \in SUBSET Nat, T # {}
    PROVE  \E n \in T : \A m \in T : n <= m
<1> DEFINE R == OpToRel(<, Nat)
<1>1. \A m, n \in Nat : m < n => <<m, n>> \in R
    BY DEF OpToRel
<1>2. IsWellFoundedOn(R, Nat)
    BY NatLessThanWellFounded
<1> HIDE DEF R
<1>3. \E n \in T : \A m \in T : ~(<<m, n>> \in R)
    BY <1>2, WFMin
<1>4. PICK n \in T : \A m \in T : ~(<<m, n>> \in R)
    BY <1>3
<1>5. ASSUME NEW m \in T PROVE n <= m
    <2>1. m \in Nat /\ n \in Nat
        BY <1>4, <1>5
    <2>2. ~(m < n)
        BY <1>1, <1>4, <2>1
    <2> QED
        BY <2>1, <2>2
<1> QED
    BY <1>4, <1>5

LEMMA GreatestOf ==
    ASSUME NEW T \in SUBSET Nat, T # {}, NEW b \in Nat, \A n \in T : n <= b
    PROVE  \E n \in T : \A m \in T : m <= n
<1> DEFINE U == {u \in Nat : \A n \in T : n <= u}
<1>1. PICK u \in U : \A v \in U : u <= v
    <2>1. U \in SUBSET Nat /\ U # {}
        OBVIOUS
    <2> QED
        BY <2>1, LeastOf
<1>2. u \in T
    <2> SUFFICES ASSUME u \notin T PROVE FALSE
        OBVIOUS
    <2>1. ASSUME NEW n \in T PROVE n < u
        <3>1. n \in Nat /\ u \in Nat /\ n <= u /\ n # u
            BY <1>1
        <3> QED
            BY <3>1
    <2>2. PICK n \in T : TRUE
        OBVIOUS
    <2>3. u - 1 \in Nat
        <3>1. n \in Nat /\ u \in Nat /\ n < u
            BY <1>1, <2>1
        <3> QED
            BY <3>1
    <2>4. ASSUME NEW m \in T PROVE m <= u - 1
        <3>1. m \in Nat /\ u \in Nat /\ m < u
            BY <1>1, <2>1
        <3> QED
            BY <3>1
    <2>5. u - 1 \in U
        BY <2>3, <2>4
    <2>6. u <= u - 1 /\ u \in Nat
        BY <1>1, <2>5
    <2> QED
        BY <2>6
<1> QED
    BY <1>1, <1>2

-----------------------------------------------------------------------------
(* -parseRangeRequest:withContentLength: takes a component if and only if  *)
(* all it means lies in the item, and makes the range of what it means.    *)
LEMMA ComponentParsed ==
    ASSUME NEW c \in Components
    PROVE  /\ Acceptable(c) <=> WithinItem(c)
           /\ Acceptable(c) => /\ RangeOf(c) \in Pairs
                               /\ MaxRange(RangeOf(c)) <= Size
                               /\ Positions(RangeOf(c)) = Asked(c)
<1> USE SizesAssumption
<1>1. CASE c.kind = "byte"
    <2>1. c.first \in Nat
        BY <1>1 DEF Components
    <2>2. RangeOf(c) = <<c.first, 1>> /\ Asked(c) = {c.first} /\ (Acceptable(c) <=> c.first < Size)
        BY <1>1 DEF RangeOf, Asked, Acceptable
    <2>3. WithinItem(c) <=> c.first \in 0..(Size - 1)
        BY <1>1, <2>2 DEF WithinItem
    <2> QED
        BY <2>1, <2>2, <2>3 DEF Pairs, MaxRange, Positions
<1>2. CASE c.kind = "span"
    <2>1. c.first \in Nat /\ c.last \in Nat
        BY <1>2 DEF Components
    <2>2. /\ RangeOf(c) = <<c.first, c.last - c.first + 1>>
          /\ Asked(c) = {p \in 0..c.last : p >= c.first}
          /\ Acceptable(c) <=> c.first <= c.last /\ c.last < Size
        BY <1>2 DEF RangeOf, Asked, Acceptable
    <2>3. WithinItem(c) <=> Asked(c) \subseteq 0..(Size - 1) /\ Asked(c) # {}
        BY <1>2 DEF WithinItem
    <2>4. ASSUME Acceptable(c)
          PROVE  /\ RangeOf(c) \in Pairs /\ MaxRange(RangeOf(c)) <= Size
                 /\ Positions(RangeOf(c)) = Asked(c)
        BY <2>1, <2>2, <2>4 DEF Pairs, MaxRange, Positions
    <2>5. Acceptable(c) => WithinItem(c)
        <3> SUFFICES ASSUME Acceptable(c) PROVE WithinItem(c)
            OBVIOUS
        <3>1. c.last \in Asked(c)
            BY <2>1, <2>2
        <3>2. Asked(c) \subseteq 0..(Size - 1)
            BY <2>1, <2>2
        <3> QED
            BY <2>3, <3>1, <3>2
    <2>6. WithinItem(c) => Acceptable(c)
        <3> SUFFICES ASSUME WithinItem(c) PROVE Acceptable(c)
            OBVIOUS
        <3>1. PICK p \in 0..c.last : p >= c.first
            BY <2>2, <2>3
        <3>2. c.first <= c.last /\ c.last \in Asked(c)
            BY <2>1, <2>2, <3>1
        <3>3. c.last \in 0..(Size - 1)
            BY <2>3, <3>2
        <3> QED
            BY <2>1, <2>2, <3>2, <3>3
    <2> QED
        BY <2>4, <2>5, <2>6
<1>3. CASE c.kind = "rest"
    <2>1. c.first \in Nat
        BY <1>3 DEF Components
    <2>2. /\ RangeOf(c) = <<c.first, Size - c.first>>
          /\ Asked(c) = {p \in 0..(Size - 1) : p >= c.first}
          /\ Acceptable(c) <=> c.first < Size
        BY <1>3 DEF RangeOf, Asked, Acceptable
    <2>3. WithinItem(c) <=> Asked(c) # {}
        BY <1>3, <2>2 DEF WithinItem
    <2>4. Acceptable(c) => c.first \in Asked(c)
        BY <2>1, <2>2
    <2>5. Asked(c) # {} => Acceptable(c)
        BY <2>1, <2>2
    <2> QED
        BY <2>1, <2>2, <2>3, <2>4, <2>5 DEF Pairs, MaxRange, Positions
<1>4. CASE c.kind = "suffix"
    <2>1. c.count \in Nat
        BY <1>4 DEF Components
    <2>2. /\ RangeOf(c) = <<Size - c.count, c.count>>
          /\ Asked(c) = {p \in 0..(Size - 1) : p + c.count >= Size}
          /\ Acceptable(c) <=> c.count <= Size
        BY <1>4 DEF RangeOf, Asked, Acceptable
    <2>3. WithinItem(c) <=> c.count <= Size
        BY <1>4, <2>2 DEF WithinItem
    <2>4. c.count <= Size => (Size - c.count)..(Size - 1) = Asked(c)
        BY <2>1, <2>2
    <2>5. Acceptable(c) => /\ RangeOf(c) \in Pairs /\ MaxRange(RangeOf(c)) = Size
                           /\ Positions(RangeOf(c)) = (Size - c.count)..(Size - 1)
        BY <2>1, <2>2 DEF Pairs, MaxRange, Positions
    <2> QED
        BY <2>1, <2>2, <2>3, <2>4, <2>5
<1>5. CASE c.kind = "junk"
    BY <1>5 DEF Acceptable, WithinItem, Asked
<1> QED
    BY <1>1, <1>2, <1>3, <1>4, <1>5 DEF Components

(* The ranges of a header: all of them, or none. *)
LEMMA HeaderParsed ==
    ASSUME NEW h \in Headers
    PROVE  /\ h \in Seq(Components)
           /\ Parsed(h) \in Seq(Pairs)
           /\ \A i \in DOMAIN Parsed(h) : MaxRange(Parsed(h)[i]) <= Size
           /\ Parsed(h) # << >> <=> h # << >> /\ \A i \in DOMAIN h : WithinItem(h[i])
           /\ Parsed(h) # << >> =>
                  /\ Len(Parsed(h)) = Len(h)
                  /\ \A i \in DOMAIN h : Positions(Parsed(h)[i]) = Asked(h[i])
<1>1. h \in Seq(Components)
    BY HeadersAssumption
<1>2. DOMAIN h = 1..Len(h) /\ Len(h) \in Nat /\ \A i \in DOMAIN h : h[i] \in Components
    BY <1>1
<1>3. \A i \in DOMAIN h : Acceptable(h[i]) <=> WithinItem(h[i])
    BY <1>2, ComponentParsed
<1>4. CASE \A i \in DOMAIN h : Acceptable(h[i])
    <2>1. Parsed(h) = [i \in 1..Len(h) |-> RangeOf(h[i])]
        BY <1>2, <1>4 DEF Parsed
    <2>2. \A i \in 1..Len(h) : RangeOf(h[i]) \in Pairs /\ MaxRange(RangeOf(h[i])) <= Size
                               /\ Positions(RangeOf(h[i])) = Asked(h[i])
        BY <1>2, <1>4, ComponentParsed
    <2>3. Parsed(h) \in Seq(Pairs) /\ Len(Parsed(h)) = Len(h)
        BY <1>2, <2>1, <2>2
    <2>4. DOMAIN Parsed(h) = 1..Len(h) /\ \A i \in 1..Len(h) : Parsed(h)[i] = RangeOf(h[i])
        BY <2>1
    <2>5. Parsed(h) # << >> <=> h # << >>
        BY <1>1, <2>3, EmptySeq
    <2> QED
        BY <1>1, <1>2, <1>3, <1>4, <2>2, <2>3, <2>4, <2>5
<1>5. CASE ~(\A i \in DOMAIN h : Acceptable(h[i]))
    BY <1>1, <1>3, <1>5 DEF Parsed
<1> QED
    BY <1>4, <1>5

-----------------------------------------------------------------------------
(* The bytes of a range, once and in order. *)
LEMMA DataOf ==
    ASSUME NEW a \in Nat, NEW n \in Nat
    PROVE  /\ Len(Data(<<a, n>>)) = n
           /\ DOMAIN Data(<<a, n>>) = 1..n
           /\ \A i \in 1..n : Data(<<a, n>>)[i] = Byte(a + i - 1)
           /\ \A i \in 1..n : Data(<<a, n>>)[i].kind = "byte" /\ Data(<<a, n>>)[i].at = a + i - 1
           /\ a + n <= Size => Data(<<a, n>>) \in Seq(Items)
<1>1. Data(<<a, n>>) = [i \in 1..n |-> Byte(a + i - 1)]
    BY DEF Data
<1>2. \A i \in 1..n : Byte(a + i - 1).kind = "byte" /\ Byte(a + i - 1).at = a + i - 1
    BY DEF Byte
<1>3. a + n <= Size => \A i \in 1..n : Byte(a + i - 1) \in Items
    <2> SUFFICES ASSUME a + n <= Size, NEW i \in 1..n PROVE Byte(a + i - 1) \in Items
        OBVIOUS
    <2>1. a + i - 1 \in 0..(Size - 1)
        BY SizesAssumption
    <2> QED
        BY <2>1 DEF Byte, Items
<1>4. a + n <= Size => Data(<<a, n>>) \in Seq(Items)
    <2> SUFFICES ASSUME a + n <= Size PROVE Data(<<a, n>>) \in Seq(Items)
        OBVIOUS
    <2>1. Data(<<a, n>>) \in [1..n -> Items]
        BY <1>1, <1>3
    <2> QED
        BY <2>1, SeqDef
<1>5. DOMAIN Data(<<a, n>>) = 1..n /\ \A i \in 1..n : Data(<<a, n>>)[i] = Byte(a + i - 1)
    BY <1>1
<1>6. Len(Data(<<a, n>>)) = n
    BY <1>5
<1> QED
    BY <1>2, <1>4, <1>5, <1>6

LEMMA DataLists ==
    ASSUME NEW a \in Nat, NEW n \in Nat
    PROVE  Lists(Data(<<a, n>>), a..(a + n - 1))
<1>1. \A i \in 1..n : a + i - 1 \in a..(a + n - 1)
    OBVIOUS
<1>2. Cardinality(a..(a + n - 1)) = n
    <2>1. a \in Int /\ a + n - 1 \in Int
        OBVIOUS
    <2>2. Cardinality(a..(a + n - 1)) = IF a > a + n - 1 THEN 0 ELSE (a + n - 1) - a + 1
        BY <2>1, FS_Interval
    <2> QED
        BY <2>2
<1>3. \A i, j \in 1..n : i < j => a + i - 1 < a + j - 1
    OBVIOUS
<1> QED
    BY <1>1, <1>2, <1>3, DataOf DEF Lists, IsByte

LEMMA DataJoins ==
    ASSUME NEW a \in Nat, NEW n \in Nat, NEW k \in Nat, a + n + k <= Size
    PROVE  Data(<<a, n>>) \o Data(<<a + n, k>>) = Data(<<a, n + k>>)
<1> DEFINE d == Data(<<a, n>>)
           e == Data(<<a + n, k>>)
           f == Data(<<a, n + k>>)
<1>1. /\ d \in Seq(Items) /\ Len(d) = n
      /\ \A i \in 1..n : d[i] = Byte(a + i - 1)
    <2>1. a + n <= Size
        BY SizesAssumption
    <2> QED
        BY <2>1, DataOf
<1>2. /\ e \in Seq(Items) /\ Len(e) = k
      /\ \A i \in 1..k : e[i] = Byte(a + n + i - 1)
    <2>1. a + n \in Nat
        OBVIOUS
    <2> QED
        BY <2>1, DataOf
<1>3. /\ f \in Seq(Items) /\ Len(f) = n + k
      /\ \A i \in 1..(n + k) : f[i] = Byte(a + i - 1)
    <2>1. n + k \in Nat /\ a + (n + k) <= Size
        OBVIOUS
    <2> QED
        BY <2>1, DataOf
<1> HIDE DEF d, e, f
<1>4. /\ d \o e \in Seq(Items) /\ Len(d \o e) = n + k
      /\ \A i \in 1..(n + k) : (d \o e)[i] = IF i <= n THEN d[i] ELSE e[i - n]
    BY <1>1, <1>2, ConcatProperties
<1>5. ASSUME NEW i \in 1..(n + k) PROVE (d \o e)[i] = f[i]
    <2>1. CASE i <= n
        BY <1>1, <1>3, <1>4, <2>1
    <2>2. CASE i > n
        <3>1. i - n \in 1..k /\ ~(i <= n) /\ a + n + (i - n) - 1 = a + i - 1
            BY <2>2
        <3> QED
            BY <1>2, <1>3, <1>4, <3>1
    <2>3. i <= n \/ i > n
        OBVIOUS
    <2> QED
        BY <2>1, <2>2, <2>3
<1>6. d \o e = f
    BY <1>3, <1>4, <1>5, SeqEqual
<1> QED
    BY <1>6 DEF d, e, f

LEMMA PiecesType ==
    /\ Trailer \in Items /\ Trailer.kind = "trailer"
    /\ \A r \in Pairs : Part(r) \in Items /\ Part(r).kind = "part" /\ Part(r).range = r
BY DEF Trailer, Part, Items, Pairs

(* What is written of a piece that the socket may lose some of. *)
LEMMA SentType ==
    ASSUME NEW b \in Seq(Items), NEW p \in Seq(Items), NEW lost
    PROVE  /\ Sent(p, lost) \in Seq(Items) /\ DOMAIN Sent(p, lost) = DOMAIN p
           /\ \A i \in DOMAIN p : IsByte(Sent(p, lost)[i]) => Sent(p, lost)[i] = p[i]
           /\ lost = {} => Sent(p, lost) = p
           /\ b \o Sent(p, lost) \in Seq(Items)
<1> DEFINE s == Sent(p, lost)
<1>1. Len(p) \in Nat /\ DOMAIN p = 1..Len(p) /\ Lost \in Items /\ ~IsByte(Lost)
    BY DEF Items, Lost, IsByte
<1>2. s = [i \in 1..Len(p) |-> IF i \in lost THEN Lost ELSE p[i]]
    BY <1>1 DEF Sent
<1>3. \A i \in 1..Len(p) : (IF i \in lost THEN Lost ELSE p[i]) \in Items
    BY <1>1
<1>4. s \in Seq(Items) /\ Len(s) = Len(p)
    BY <1>1, <1>2, <1>3
<1>5. DOMAIN s = DOMAIN p /\ \A i \in DOMAIN p : IsByte(s[i]) => s[i] = p[i]
    BY <1>1, <1>2
<1>6. lost = {} => s = p
    <2> SUFFICES ASSUME lost = {} PROVE s = p
        OBVIOUS
    <2>1. Len(s) = Len(p) /\ \A i \in 1..Len(p) : s[i] = p[i]
        BY <1>2, <1>4
    <2> HIDE DEF s
    <2> QED
        BY <1>4, <2>1, SeqEqual
<1> HIDE DEF s
<1>7. b \o s \in Seq(Items)
    BY <1>4, ConcatProperties
<1> QED
    BY <1>4, <1>5, <1>6, <1>7 DEF s

-----------------------------------------------------------------------------
(* _orderedRanges. *)
RangesTyped ==
    /\ ranges \in Seq(Pairs)
    /\ \A i \in DOMAIN ranges : MaxRange(ranges[i]) <= Size

LEMMA OrderedType ==
    ASSUME RangesTyped
    PROVE  /\ Ordered \subseteq 0..(Size - 1)
           /\ IsFiniteSet(Ordered)
           /\ Cardinality(Ordered) \in 0..Size
<1> USE SizesAssumption
<1>1. ASSUME NEW i \in DOMAIN ranges, NEW p \in Positions(ranges[i]) PROVE p \in 0..(Size - 1)
    <2>1. ranges[i] \in Pairs
        BY DEF RangesTyped
    <2>2. PICK a, n \in 0..Size : ranges[i] = <<a, n>>
        BY <2>1 DEF Pairs
    <2>3. a + n <= Size
        BY <2>2 DEF RangesTyped, MaxRange
    <2>4. p \in a..(a + n - 1)
        BY <1>1, <2>2 DEF Positions, MaxRange
    <2> QED
        BY <2>3, <2>4
<1>2. Ordered \subseteq 0..(Size - 1)
    BY <1>1 DEF Ordered
<1>3. IsFiniteSet(0..(Size - 1)) /\ Cardinality(0..(Size - 1)) = Size
    <2>1. 0 \in Int /\ Size - 1 \in Int
        OBVIOUS
    <2>2. /\ IsFiniteSet(0..(Size - 1))
          /\ Cardinality(0..(Size - 1)) = IF 0 > Size - 1 THEN 0 ELSE (Size - 1) - 0 + 1
        BY <2>1, FS_Interval
    <2> QED
        BY <2>2
<1>4. IsFiniteSet(Ordered) /\ Cardinality(Ordered) <= Size
    <2>1. Ordered \in SUBSET (0..(Size - 1))
        BY <1>2
    <2> QED
        BY <1>3, <2>1, FS_Subset
<1>5. Cardinality(Ordered) \in Nat
    BY <1>4, FS_CardinalityType
<1> QED
    BY <1>2, <1>4, <1>5

(* A single range is an interval of the item, and ResponseRange is it. *)
LEMMA SingleIsInterval ==
    ASSUME RangesTyped, IsSingleRange, ranges # << >>
    PROVE  \E lo, n \in 0..Size :
               /\ lo + n <= Size
               /\ Ordered = lo..(lo + n - 1)
               /\ n = Cardinality(Ordered)
               /\ ResponseRange = <<lo, n>>
<1> USE SizesAssumption
<1>1. /\ Ordered \subseteq 0..(Size - 1) /\ Ordered # {}
      /\ Cardinality(Ordered) \in 0..Size
    BY OrderedType DEF IsSingleRange
<1>2. PICK lo \in Ordered : \A q \in Ordered : lo <= q
    <2>1. Ordered \in SUBSET Nat
        BY <1>1
    <2> QED
        BY <1>1, <2>1, LeastOf
<1>3. PICK hi \in Ordered : \A q \in Ordered : q <= hi
    <2>1. Ordered \in SUBSET Nat /\ \A q \in Ordered : q <= Size
        BY <1>1
    <2> QED
        BY <1>1, <2>1, GreatestOf
<1>4. lo \in 0..(Size - 1) /\ hi \in 0..(Size - 1) /\ lo <= hi
    BY <1>1, <1>2, <1>3
<1>5. Ordered = lo..hi
    <2>1. lo..hi \subseteq Ordered
        BY <1>2, <1>3 DEF IsSingleRange
    <2>2. ASSUME NEW q \in Ordered PROVE q \in lo..hi
        <3>1. q \in 0..(Size - 1) /\ lo <= q /\ q <= hi
            BY <1>1, <1>2, <1>3, <2>2
        <3> QED
            BY <1>4, <3>1
    <2> QED
        BY <2>1, <2>2
<1> DEFINE n == hi - lo + 1
<1>6. n \in 0..Size /\ lo + n <= Size /\ lo..hi = lo..(lo + n - 1)
    BY <1>4
<1>7. Cardinality(Ordered) = n
    <2>1. lo \in Int /\ hi \in Int
        BY <1>4
    <2>2. Cardinality(lo..hi) = IF lo > hi THEN 0 ELSE hi - lo + 1
        BY <2>1, FS_Interval
    <2> QED
        BY <1>4, <1>5, <2>2
<1>8. (CHOOSE p \in Ordered : \A q \in Ordered : p <= q) = lo
    <2>1. \A p \in Ordered : (\A q \in Ordered : p <= q) => p = lo
        <3>1. ASSUME NEW p \in Ordered, \A q \in Ordered : p <= q PROVE p = lo
            <4>1. p <= lo /\ lo <= p /\ p \in Int /\ lo \in Int
                BY <1>1, <1>2, <1>4, <3>1
            <4> QED
                BY <4>1
        <3> QED
            BY <3>1
    <2> DEFINE c == CHOOSE p \in Ordered : \A q \in Ordered : p <= q
    <2>2. c \in Ordered /\ \A q \in Ordered : c <= q
        BY <1>2
    <2> QED
        BY <2>1, <2>2
<1>9. ResponseRange = <<lo, n>>
    BY <1>7, <1>8 DEF ResponseRange
<1> HIDE DEF n
<1> QED
    BY <1>4, <1>5, <1>6, <1>7, <1>9

-----------------------------------------------------------------------------
(* The inductive invariant. The ranges are those of the header; in a stream *)
(* they are the same in another order.                                      *)
RangesInv ==
    /\ RangesTyped
    /\ source = "bundle" => ranges = << >>
    /\ source = "archive" => ranges = Parsed(header)
    /\ source = "stream" =>
           /\ ranges = << >> <=> Parsed(header) = << >>
           /\ \A i \in DOMAIN ranges :
                  \E j \in DOMAIN Parsed(header) : ranges[i] = Parsed(header)[j]

Writing == {"stream", "whole", "parts", "trailer"}

InPieces == ranges # << >> /\ ~IsSingleRange

(* What is known at each place of -main. *)
PlaceInv ==
    /\ pc = "head" => head = << >> /\ body = << >> /\ offset = 0 /\ index = 1 /\ ~failed
    /\ pc \in {"head"} \cup Writing => ~cut /\ ~forceClose
    /\ pc \in Writing => method = "GET" /\ (pc = "stream" <=> source # "archive")
    /\ pc = "whole" => body = << >> /\ ~InPieces
    /\ pc \in {"parts", "trailer"} => InPieces
    /\ pc = "parts" => index <= Len(ranges)
    /\ pc = "trailer" => index = Len(ranges) + 1
    /\ source # "stream" /\ pc # "head" /\ ~failed => head = <<Status, ContentLength>>
    /\ pc = "ended" => connected = ~(forceClose \/ closing)

Over == pc \in {"finally", "ended"} /\ method = "GET" /\ ~failed

(* A file of the bundle up to where its stream was read; of a resource the  *)
(* single range, or the connection is closed.                               *)
WholeInv ==
    /\ source = "bundle" /\ ~failed => body = Data(<<0, offset>>)
    /\ source = "bundle" /\ Over /\ ~cut => offset = Size
    /\ source = "archive" /\ ~InPieces /\ Over /\ ~cut => body = Data(ResponseRange)
    /\ source = "archive" /\ ~InPieces /\ cut => forceClose

(* The first n - 1 parts of rs are in b, the i-th from position st[i] on,   *)
(* and nothing else is before st[n].                                        *)
PartsAt(rs, b, st, n) ==
    /\ st \in [1..n -> Nat \ {0}]
    /\ st[1] = 1
    /\ \A i \in 1..(n - 1) :
           /\ st[i + 1] = st[i] + 1 + rs[i][2]
           /\ b[st[i]] = Part(rs[i])
           /\ \A k \in 1..rs[i][2] : b[st[i] + k] = Byte(rs[i][1] + k - 1)
    /\ \A i, j \in 1..n : i < j => st[i] < st[j]
    /\ \A p \in 1..(st[n] - 1) : \E i \in 1..(n - 1) : st[i] <= p /\ p < st[i + 1]

SomeParts(rs, b, n) == \E st : PartsAt(rs, b, st, n) /\ Len(b) = st[n] - 1

AllParts(rs, b) ==
    \E st : /\ PartsAt(rs, b, st, Len(rs) + 1)
            /\ Len(b) = st[Len(rs) + 1]
            /\ b[Len(b)] = Trailer

PartsInv ==
    /\ pc \in {"parts", "trailer"} /\ ~failed => SomeParts(ranges, body, index)
    /\ source = "archive" /\ InPieces /\ Over /\ ~cut => AllParts(ranges, body)

(* What was picked out of a stream lies behind what the stream has shown,   *)
(* in the ranges, once and in order.                                        *)
PickedInv ==
    source = "stream" /\ ranges # << >> =>
        /\ \A i \in DOMAIN body : IsByte(body[i]) => body[i].at < offset /\ body[i].at \in Ordered
        /\ \A i, j \in DOMAIN body :
               i < j /\ IsByte(body[i]) /\ IsByte(body[j]) => body[i].at < body[j].at

ResponseInv == TypeOK /\ RangesInv /\ PlaceInv /\ WholeInv /\ PartsInv /\ PickedInv

-----------------------------------------------------------------------------
(* What is worked out of the ranges changes with them only. *)
LEMMA RangesKept ==
    ASSUME UNCHANGED ranges
    PROVE  /\ Ordered' = Ordered
           /\ IsSingleRange' <=> IsSingleRange
           /\ InPieces' <=> InPieces
           /\ ResponseRange' = ResponseRange
           /\ Status' = Status
           /\ ContentLength' = ContentLength
           /\ RangesTyped' <=> RangesTyped
<1>1. Ordered' = Ordered
    BY DEF Ordered
<1>2. IsSingleRange' <=> IsSingleRange
    BY <1>1 DEF IsSingleRange
<1>3. InPieces' <=> InPieces
    BY <1>2 DEF InPieces
<1>4. ResponseRange' = ResponseRange
    BY <1>1 DEF ResponseRange
<1>5. Status' = Status
    BY DEF Status
<1>6. ContentLength' = ContentLength
    BY <1>1, <1>2 DEF ContentLength
<1>7. RangesTyped' <=> RangesTyped
    BY DEF RangesTyped
<1> QED
    BY <1>1, <1>2, <1>3, <1>4, <1>5, <1>6, <1>7

(* The comparator's order puts the same ranges in other places. *)
LEMMA Sorted ==
    ASSUME RangesTyped, SortRanges
    PROVE  /\ RangesTyped'
           /\ Len(ranges') = Len(ranges)
           /\ ranges' = << >> <=> ranges = << >>
           /\ \A i \in DOMAIN ranges' : \E j \in DOMAIN ranges : ranges'[i] = ranges[j]
<1>1. PICK p \in [DOMAIN ranges -> DOMAIN ranges] : ranges' = [i \in DOMAIN ranges |-> ranges[p[i]]]
    BY DEF SortRanges
<1>2. DOMAIN ranges = 1..Len(ranges) /\ Len(ranges) \in Nat
      /\ \A i \in 1..Len(ranges) : ranges[i] \in Pairs
    BY DEF RangesTyped
<1>3. \A i \in 1..Len(ranges) : p[i] \in 1..Len(ranges) /\ ranges[p[i]] \in Pairs
    BY <1>1, <1>2
<1>4. ranges' \in Seq(Pairs) /\ Len(ranges') = Len(ranges) /\ DOMAIN ranges' = 1..Len(ranges)
    BY <1>1, <1>2, <1>3
<1>5. \A i \in DOMAIN ranges' : p[i] \in DOMAIN ranges /\ ranges'[i] = ranges[p[i]]
    BY <1>1, <1>2, <1>3, <1>4
<1>6. RangesTyped'
    BY <1>4, <1>5 DEF RangesTyped
<1>7. ranges' = << >> <=> ranges = << >>
    BY <1>2, <1>4, EmptySeq DEF RangesTyped
<1> QED
    BY <1>4, <1>5, <1>6, <1>7

-----------------------------------------------------------------------------
(* The part of the stream that is in a range. *)
LEMMA WithinRange ==
    ASSUME NEW r \in Pairs, MaxRange(r) <= Size, NEW o \in 0..Size, NEW k \in Nat \ {0},
           o + k <= Size, Intersection(r, <<o, k>>)[2] > 0
    PROVE  \E s, m \in 0..Size :
               /\ Intersection(r, <<o, k>>) = <<s, m>>
               /\ s >= o /\ s >= r[1] /\ s + m <= o + k /\ s + m <= MaxRange(r)
<1>1. PICK a, n \in 0..Size : r = <<a, n>>
    BY DEF Pairs
<1>2. MaxRange(r) = a + n /\ MaxRange(<<o, k>>) = o + k
    BY <1>1 DEF MaxRange
<1> DEFINE s == Later(a, o)
           m == Earlier(a + n, o + k) - s
<1>3. ~(a + n < o \/ o + k < a)
    BY <1>1, <1>2 DEF Intersection
<1>4. Intersection(r, <<o, k>>) = <<s, m>>
    BY <1>1, <1>2, <1>3 DEF Intersection
<1>5. m > 0
    BY <1>4
<1>6. s \in 0..Size /\ s >= o /\ s >= a
    BY SizesAssumption DEF Later
<1>7. m \in 0..Size /\ s + m <= o + k /\ s + m <= a + n
    <2>1. Earlier(a + n, o + k) \in Nat /\ Earlier(a + n, o + k) <= o + k
          /\ Earlier(a + n, o + k) <= a + n
        BY DEF Earlier
    <2> QED
        BY <1>5, <1>6, <2>1, SizesAssumption
<1> QED
    BY <1>1, <1>2, <1>4, <1>6, <1>7

(* What is sent for it: at most a boundary, its bytes, at most the trailer. *)
LEMMA PickedPieces ==
    ASSUME NEW r \in Pairs, NEW s \in 0..Size, NEW m \in 0..Size, s + m <= Size,
           NEW x \in {<< >>, <<Part(r)>>}, NEW z \in {<< >>, <<Trailer>>}
    PROVE  LET y == x \o Data(<<s, m>>) \o z
           IN  /\ y \in Seq(Items)
               /\ \A i \in DOMAIN y : IsByte(y[i]) => y[i].at \in s..(s + m - 1)
               /\ \A i, j \in DOMAIN y : i < j /\ IsByte(y[i]) /\ IsByte(y[j]) => y[i].at < y[j].at
<1> DEFINE d == Data(<<s, m>>)
           y == x \o d \o z
<1>1. /\ d \in Seq(Items) /\ Len(d) = m
      /\ \A i \in 1..m : d[i].kind = "byte" /\ d[i].at = s + i - 1
    BY DataOf
<1>2. /\ x \in Seq(Items) /\ Len(x) \in {0, 1}
      /\ \A i \in 1..Len(x) : x[i].kind = "part"
    <2>1. Part(r) \in Items /\ Part(r).kind = "part"
        BY PiecesType
    <2>2. CASE x = << >>
        BY <2>2
    <2>3. CASE x = <<Part(r)>>
        <3>1. Len(x) = 1 /\ x[1] = Part(r) /\ x \in Seq(Items)
            BY <2>1, <2>3
        <3> QED
            BY <2>1, <3>1
    <2> QED
        BY <2>2, <2>3
<1>3. /\ z \in Seq(Items) /\ Len(z) \in {0, 1}
      /\ \A i \in 1..Len(z) : z[i].kind = "trailer"
    <2>1. Trailer \in Items /\ Trailer.kind = "trailer"
        BY PiecesType
    <2>2. CASE z = << >>
        BY <2>2
    <2>3. CASE z = <<Trailer>>
        <3>1. Len(z) = 1 /\ z[1] = Trailer /\ z \in Seq(Items)
            BY <2>1, <2>3
        <3> QED
            BY <2>1, <3>1
    <2> QED
        BY <2>2, <2>3
<1> HIDE DEF d
<1>4. /\ x \o d \in Seq(Items) /\ Len(x \o d) = Len(x) + m
      /\ \A i \in 1..(Len(x) + m) : (x \o d)[i] = IF i <= Len(x) THEN x[i] ELSE d[i - Len(x)]
    BY <1>1, <1>2, ConcatProperties
<1>5. /\ y \in Seq(Items) /\ Len(y) = Len(x) + m + Len(z)
      /\ \A i \in 1..(Len(x) + m + Len(z)) :
             y[i] = IF i <= Len(x) + m THEN (x \o d)[i] ELSE z[i - (Len(x) + m)]
    BY <1>3, <1>4, ConcatProperties
<1> HIDE DEF y
<1>6. ASSUME NEW i \in DOMAIN y, IsByte(y[i])
      PROVE  i - Len(x) \in 1..m /\ y[i].at = s + (i - Len(x)) - 1
    <2>1. i \in 1..(Len(x) + m + Len(z)) /\ y[i].kind = "byte"
        BY <1>5, <1>6 DEF IsByte
    <2>2. CASE i <= Len(x)
        <3>1. y[i] = x[i] /\ i \in 1..Len(x)
            BY <1>2, <1>4, <1>5, <2>1, <2>2
        <3> QED
            BY <1>2, <2>1, <3>1
    <2>3. CASE i > Len(x) /\ i <= Len(x) + m
        <3>1. y[i] = d[i - Len(x)] /\ i - Len(x) \in 1..m
            BY <1>2, <1>4, <1>5, <2>1, <2>3
        <3> QED
            BY <1>1, <3>1
    <2>4. CASE i > Len(x) + m
        <3>1. y[i] = z[i - (Len(x) + m)] /\ i - (Len(x) + m) \in 1..Len(z)
            BY <1>2, <1>3, <1>5, <2>1, <2>4
        <3> QED
            BY <1>3, <2>1, <3>1
    <2> QED
        BY <1>2, <2>1, <2>2, <2>3, <2>4
<1>7. \A i \in DOMAIN y : IsByte(y[i]) => y[i].at \in s..(s + m - 1)
    BY <1>2, <1>6
<1>8. \A i, j \in DOMAIN y : i < j /\ IsByte(y[i]) /\ IsByte(y[j]) => y[i].at < y[j].at
    BY <1>2, <1>5, <1>6, SMTT(20)
<1> QED
    BY <1>5, <1>7, <1>8 DEF y, d

-----------------------------------------------------------------------------
LEMMA WholeRange ==
    ASSUME RangesTyped, ~InPieces
    PROVE  \E lo, n \in 0..Size : lo + n <= Size /\ ResponseRange = <<lo, n>>
<1>1. CASE ranges = << >>
    <2>1. ResponseRange = <<0, Size>> /\ 0 \in 0..Size /\ Size \in 0..Size /\ 0 + Size <= Size
        BY <1>1, SizesAssumption DEF ResponseRange
    <2> QED
        BY <2>1
<1>2. CASE ranges # << >>
    BY <1>2, SingleIsInterval DEF InPieces
<1> QED
    BY <1>1, <1>2

LEMMA WholeType ==
    ASSUME RangesTyped, ~InPieces
    PROVE  Data(ResponseRange) \in Seq(Items)
<1>1. PICK lo, n \in 0..Size : lo + n <= Size /\ ResponseRange = <<lo, n>>
    BY WholeRange
<1>2. Data(<<lo, n>>) \in Seq(Items)
    BY <1>1, DataOf
<1> QED
    BY <1>1, <1>2

LEMMA PartType ==
    ASSUME NEW r \in Pairs, MaxRange(r) <= Size
    PROVE  /\ Data(r) \in Seq(Items) /\ Len(Data(r)) = r[2] /\ r[1] \in Nat /\ r[2] \in Nat
           /\ \A i \in 1..r[2] : Data(r)[i] = Byte(r[1] + i - 1)
           /\ <<Part(r)>> \in Seq(Items)
           /\ <<Part(r)>> \o Data(r) \in Seq(Items)
           /\ Len(<<Part(r)>> \o Data(r)) = 1 + r[2]
           /\ (<<Part(r)>> \o Data(r))[1] = Part(r)
           /\ \A i \in 1..r[2] : (<<Part(r)>> \o Data(r))[1 + i] = Byte(r[1] + i - 1)
<1>1. PICK a, n \in 0..Size : r = <<a, n>>
    BY DEF Pairs
<1>2. a + n <= Size /\ r[1] = a /\ r[2] = n /\ a \in Nat /\ n \in Nat
    BY <1>1 DEF MaxRange
<1>3. /\ Data(r) \in Seq(Items) /\ Len(Data(r)) = n
      /\ \A i \in 1..n : Data(r)[i] = Byte(a + i - 1)
    BY <1>1, <1>2, DataOf
<1> DEFINE x == <<Part(r)>>
           d == Data(r)
<1>4. x \in Seq(Items) /\ Len(x) = 1 /\ x[1] = Part(r)
    BY PiecesType
<1>5. /\ x \o d \in Seq(Items) /\ Len(x \o d) = 1 + n
      /\ \A i \in 1..(1 + n) : (x \o d)[i] = IF i <= 1 THEN x[i] ELSE d[i - 1]
    <2> HIDE DEF x, d
    <2>1. d \in Seq(Items) /\ Len(d) = n
        BY <1>3 DEF d
    <2>2. /\ x \o d \in Seq(Items) /\ Len(x \o d) = Len(x) + Len(d)
          /\ \A i \in 1..(Len(x) + Len(d)) : (x \o d)[i] = IF i <= Len(x) THEN x[i] ELSE d[i - Len(x)]
        BY <1>4, <2>1, ConcatProperties
    <2> QED
        BY <1>4, <2>1, <2>2
<1>6. (x \o d)[1] = Part(r)
    <2>1. 1 \in 1..(1 + n)
        BY <1>2
    <2> QED
        BY <1>4, <1>5, <2>1
<1>7. ASSUME NEW i \in 1..n PROVE (x \o d)[1 + i] = Byte(a + i - 1)
    <2>1. 1 + i \in 1..(1 + n) /\ ~(1 + i <= 1) /\ (1 + i) - 1 = i
        BY <1>2
    <2>2. (x \o d)[1 + i] = d[i]
        BY <1>5, <2>1
    <2> QED
        BY <1>3, <2>2
<1> QED
    BY <1>2, <1>3, <1>4, <1>5, <1>6, <1>7

-----------------------------------------------------------------------------
LEMMA HeadType ==
    ASSUME RangesTyped
    PROVE  <<Status, ContentLength>> \in {200, 206} \X (0..Size \cup {None})
<1>1. ContentLength \in 0..Size \cup {None}
    BY OrderedType, SizesAssumption DEF ContentLength
<1>2. Status \in {200, 206}
    BY DEF Status
<1> QED
    BY <1>1, <1>2

(* The range a streamed piece is compared with. *)
LEMMA PickedStep ==
    ASSUME TypeOK, RangesTyped, NEW k \in 1..Chunk, StreamRange(k)
    PROVE  /\ ranges[index] \in Pairs /\ MaxRange(ranges[index]) <= Size /\ index \in DOMAIN ranges
           /\ \E s, m \in 0..Size, y \in Seq(Items) :
                  /\ s >= offset /\ s >= ranges[index][1]
                  /\ s + m <= offset + k /\ s + m <= MaxRange(ranges[index])
                  /\ \A i \in DOMAIN y : IsByte(y[i]) => y[i].at \in s..(s + m - 1)
                  /\ \A i, j \in DOMAIN y :
                         i < j /\ IsByte(y[i]) /\ IsByte(y[j]) => y[i].at < y[j].at
                  /\ body' = body \o y
           /\ body' \in Seq(Items)
           /\ offset' = offset + k /\ offset + k <= Size
           /\ failed' \in BOOLEAN /\ (~failed' => ~failed)
           /\ pc' \in {"finally", "stream", "hung"} /\ (pc' = "stream" => ~LastFulfilled(k))
           /\ index' = IF Fulfilled(k) THEN index + 1 ELSE index
<1> DEFINE r == ranges[index]
           within == Intersection(r, Received(k))
           boundary == IF offset >= r[1] /\ ~IsSingleRange THEN <<Part(r)>> ELSE << >>
           trailer == IF LastFulfilled(k) THEN <<Trailer>> ELSE << >>
           d == boundary \o Data(within) \o trailer
<1>1. k \in Nat \ {0} /\ offset \in 0..Size /\ offset + k <= Size /\ offset' = offset + k
    BY SizesAssumption DEF StreamRange, TypeOK
<1>2. index \in DOMAIN ranges /\ r \in Pairs /\ MaxRange(r) <= Size
    <2>1. index \in 1..(Len(ranges) + 1) /\ index <= Len(ranges) /\ Len(ranges) \in Nat
          /\ DOMAIN ranges = 1..Len(ranges)
        BY DEF StreamRange, TypeOK
    <2>2. index \in DOMAIN ranges
        BY <2>1
    <2> QED
        BY <2>2 DEF RangesTyped
<1>3. within[2] > 0
    BY DEF StreamRange
<1>4. PICK s, m \in 0..Size :
          /\ within = <<s, m>>
          /\ s >= offset /\ s >= r[1] /\ s + m <= offset + k /\ s + m <= MaxRange(r)
    <2> HIDE DEF r
    <2>1. Intersection(r, <<offset, k>>)[2] > 0
        BY <1>3 DEF Received
    <2> QED
        BY <1>1, <1>2, <2>1, WithinRange DEF Received
<1>5. /\ d \in Seq(Items)
      /\ \A i \in DOMAIN d : IsByte(d[i]) => d[i].at \in s..(s + m - 1)
      /\ \A i, j \in DOMAIN d : i < j /\ IsByte(d[i]) /\ IsByte(d[j]) => d[i].at < d[j].at
    <2>1. boundary \in {<< >>, <<Part(r)>>} /\ trailer \in {<< >>, <<Trailer>>}
        OBVIOUS
    <2>2. s + m <= Size
        BY <1>1, <1>4, SizesAssumption
    <2>3. Data(within) = Data(<<s, m>>)
        BY <1>4
    <2> HIDE DEF r, within, boundary, trailer
    <2> QED
        BY <1>2, <2>1, <2>2, <2>3, PickedPieces
<1>6. index' = IF Fulfilled(k) THEN index + 1 ELSE index
    BY DEF StreamRange
<1>7. PICK lost \in SUBSET DOMAIN d :
          /\ body' = body \o Sent(d, lost)
          /\ failed' = (failed \/ lost # {})
          /\ pc' \in IF lost = {} THEN {IF LastFulfilled(k) THEN "finally" ELSE "stream"}
                     ELSE AfterLoss(IF LastFulfilled(k) THEN "finally" ELSE "stream")
    BY DEF StreamRange, WriteEach
<1> DEFINE y == Sent(d, lost)
<1> HIDE DEF d, within, boundary, trailer
<1>8. /\ y \in Seq(Items) /\ DOMAIN y = DOMAIN d /\ body \o y \in Seq(Items)
      /\ \A i \in DOMAIN d : IsByte(y[i]) => y[i] = d[i]
    BY <1>5, SentType DEF TypeOK
<1> HIDE DEF y
<1>9. /\ \A i \in DOMAIN y : IsByte(y[i]) => y[i].at \in s..(s + m - 1)
      /\ \A i, j \in DOMAIN y : i < j /\ IsByte(y[i]) /\ IsByte(y[j]) => y[i].at < y[j].at
    BY <1>5, <1>8
<1>10. body' = body \o y
    BY <1>7 DEF y
<1>11. failed' \in BOOLEAN /\ (~failed' => ~failed)
    BY <1>7 DEF TypeOK
<1>12. pc' \in {"finally", "stream", "hung"} /\ (pc' = "stream" => ~LastFulfilled(k))
    BY <1>7 DEF AfterLoss
<1> HIDE DEF r
<1>13. \E yy \in Seq(Items) :
          /\ \A i \in DOMAIN yy : IsByte(yy[i]) => yy[i].at \in s..(s + m - 1)
          /\ \A i, j \in DOMAIN yy : i < j /\ IsByte(yy[i]) /\ IsByte(yy[j]) => yy[i].at < yy[j].at
          /\ body' = body \o yy
    BY <1>8, <1>9, <1>10
<1>14. body' \in Seq(Items)
    BY <1>8, <1>10
<1> QED
    BY <1>1, <1>2, <1>4, <1>6, <1>11, <1>12, <1>13, <1>14 DEF r

(* The other writes: what they send and where they lead. *)
LEMMA WholeStep ==
    ASSUME TypeOK, RangesTyped, PlaceInv, SendWhole
    PROVE  /\ body' \in Seq(Items) /\ pc' \in {"finally", "hung"} /\ UNCHANGED <<index, ranges>>
           /\ failed' \in BOOLEAN
           /\ failed' = TRUE \/ (failed' = failed /\ body' = Data(ResponseRange))
<1>1. body = << >> /\ ~InPieces
    BY DEF SendWhole, PlaceInv
<1>2. Data(ResponseRange) \in Seq(Items)
    BY <1>1, WholeType
<1> DEFINE d == Data(ResponseRange)
<1>3. PICK lost \in SUBSET DOMAIN d :
          /\ body' = body \o Sent(d, lost)
          /\ failed' = (failed \/ lost # {})
          /\ pc' \in IF lost = {} THEN {"finally"} ELSE AfterLoss("finally")
    BY DEF SendWhole, WriteEach
<1>4. body \in Seq(Items) /\ d \in Seq(Items) /\ failed \in BOOLEAN
    BY <1>2 DEF TypeOK
<1> HIDE DEF d
<1>5. body' \in Seq(Items) /\ (lost = {} => body' = body \o d)
    BY <1>3, <1>4, SentType
<1>6. body \o d = d
    BY <1>1, <1>4, ConcatEmptySeq
<1>7. pc' \in {"finally", "hung"} /\ failed' \in BOOLEAN
    BY <1>3 DEF AfterLoss
<1>8. failed' = TRUE \/ (failed' = failed /\ body' = d)
    BY <1>3, <1>4, <1>5, <1>6
<1> QED
    BY <1>5, <1>7, <1>8 DEF d, SendWhole, streamVars

LEMMA PartStep ==
    ASSUME TypeOK, RangesTyped, PlaceInv, SendPart
    PROVE  /\ index \in DOMAIN ranges /\ ranges[index] \in Pairs
           /\ MaxRange(ranges[index]) <= Size
           /\ body' \in Seq(Items) /\ UNCHANGED ranges /\ index' = index + 1
           /\ failed' \in BOOLEAN
           /\ pc' \in {"finally", "hung", IF index = Len(ranges) THEN "trailer" ELSE "parts"}
           /\ \/ failed' = TRUE
              \/ /\ failed' = failed
                 /\ pc' = IF index = Len(ranges) THEN "trailer" ELSE "parts"
                 /\ body' = body \o (<<Part(ranges[index])>> \o Data(ranges[index]))
<1>1. index \in DOMAIN ranges /\ ranges[index] \in Pairs /\ MaxRange(ranges[index]) <= Size
    <2>1. index \in 1..(Len(ranges) + 1) /\ index <= Len(ranges) /\ Len(ranges) \in Nat
          /\ DOMAIN ranges = 1..Len(ranges)
        BY DEF SendPart, PlaceInv, TypeOK
    <2>2. index \in DOMAIN ranges
        BY <2>1
    <2> QED
        BY <2>2 DEF RangesTyped
<1> DEFINE d == <<Part(ranges[index])>> \o Data(ranges[index])
           then == IF index = Len(ranges) THEN "trailer" ELSE "parts"
<1>2. index' = index + 1 /\ UNCHANGED ranges
    BY DEF SendPart
<1>3. PICK lost \in SUBSET DOMAIN d :
          /\ body' = body \o Sent(d, lost)
          /\ failed' = (failed \/ lost # {})
          /\ pc' \in IF lost = {} THEN {then} ELSE AfterLoss(then)
    BY DEF SendPart, WriteEach
<1>4. body \in Seq(Items) /\ d \in Seq(Items) /\ failed \in BOOLEAN
    BY <1>1, PartType DEF TypeOK
<1> HIDE DEF d, then
<1>5. body' \in Seq(Items) /\ (lost = {} => body' = body \o d)
    BY <1>3, <1>4, SentType
<1>6. pc' \in {"finally", "hung", then} /\ failed' \in BOOLEAN
    BY <1>3 DEF AfterLoss
<1>7. failed' = TRUE \/ (failed' = failed /\ pc' = then /\ body' = body \o d)
    BY <1>3, <1>4, <1>5
<1> QED
    BY <1>1, <1>2, <1>5, <1>6, <1>7 DEF d, then

LEMMA TrailerStep ==
    ASSUME TypeOK, SendTrailer
    PROVE  /\ body' \in Seq(Items) /\ pc' \in {"finally", "hung"} /\ UNCHANGED <<index, ranges>>
           /\ failed' \in BOOLEAN
           /\ failed' = TRUE \/ (failed' = failed /\ body' = body \o <<Trailer>>)
<1> DEFINE d == <<Trailer>>
<1>1. PICK lost \in SUBSET DOMAIN d :
          /\ body' = body \o Sent(d, lost)
          /\ failed' = (failed \/ lost # {})
          /\ pc' \in IF lost = {} THEN {"finally"} ELSE AfterLoss("finally")
    BY DEF SendTrailer, WriteEach
<1>2. body \in Seq(Items) /\ d \in Seq(Items) /\ failed \in BOOLEAN
    BY PiecesType DEF TypeOK
<1> HIDE DEF d
<1>3. body' \in Seq(Items) /\ (lost = {} => body' = body \o d)
    BY <1>1, <1>2, SentType
<1>4. pc' \in {"finally", "hung"} /\ failed' \in BOOLEAN
    BY <1>1 DEF AfterLoss
<1>5. failed' = TRUE \/ (failed' = failed /\ body' = body \o d)
    BY <1>1, <1>2, <1>3
<1> QED
    BY <1>3, <1>4, <1>5 DEF d, SendTrailer, streamVars

LEMMA AllStep ==
    ASSUME TypeOK, NEW k \in 1..Chunk, StreamAll(k)
    PROVE  /\ body' \in Seq(Items) /\ UNCHANGED <<index, ranges>> /\ ranges = << >>
           /\ offset' = offset + k /\ offset' \in 0..Size /\ offset \in Nat /\ k \in Nat
           /\ failed' \in BOOLEAN /\ pc' \in {"finally", "stream", "hung"}
           /\ ~failed' => ~failed /\ pc' = "stream" /\ body' = body \o Data(<<offset, k>>)
<1> DEFINE d == Data(<<offset, k>>)
<1>1. /\ offset' = offset + k /\ k <= Size - offset /\ ranges = << >>
      /\ UNCHANGED <<index, ranges>>
    BY DEF StreamAll
<1>2. PICK lost \in SUBSET DOMAIN d :
          /\ body' = body \o Sent(d, lost)
          /\ failed' = (failed \/ lost # {})
          /\ pc' \in IF lost = {} THEN {"stream"} ELSE AfterLoss("stream")
    BY DEF StreamAll, WriteEach, Received
<1>3. offset \in Nat /\ k \in Nat /\ offset + k \in 0..Size
    BY <1>1, SizesAssumption DEF TypeOK
<1>4. body \in Seq(Items) /\ d \in Seq(Items) /\ failed \in BOOLEAN
    <2>1. offset + k <= Size
        BY <1>3, SizesAssumption
    <2>2. d \in Seq(Items)
        BY <1>3, <2>1, DataOf
    <2> QED
        BY <2>2 DEF TypeOK
<1> HIDE DEF d
<1>5. body' \in Seq(Items) /\ (lost = {} => body' = body \o d)
    BY <1>2, <1>4, SentType
<1>6. pc' \in {"finally", "stream", "hung"} /\ failed' \in BOOLEAN
    BY <1>2 DEF AfterLoss
<1>7. ~failed' => ~failed /\ pc' = "stream" /\ body' = body \o d
    BY <1>2, <1>4, <1>5
<1> QED
    BY <1>1, <1>3, <1>5, <1>6, <1>7 DEF d

LEMMA PartUnreadableStep ==
    ASSUME TypeOK, RangesTyped, PlaceInv, PartUnreadable
    PROVE  /\ body' \in Seq(Items) /\ pc' \in {"finally", "hung"} /\ failed' \in BOOLEAN
           /\ ~failed' => ~failed
<1>1. index \in DOMAIN ranges
    <2>1. index \in 1..(Len(ranges) + 1) /\ index <= Len(ranges) /\ Len(ranges) \in Nat
          /\ DOMAIN ranges = 1..Len(ranges)
        BY DEF PartUnreadable, PlaceInv, TypeOK
    <2> QED
        BY <2>1
<1> DEFINE d == <<Part(ranges[index])>>
<1>2. body \in Seq(Items) /\ d \in Seq(Items) /\ failed \in BOOLEAN
    BY <1>1, PiecesType DEF RangesTyped, TypeOK
<1>3. PICK lost \in SUBSET DOMAIN d :
          /\ body' = body \o Sent(d, lost)
          /\ failed' = (failed \/ lost # {})
          /\ pc' \in IF lost = {} THEN {"finally"} ELSE AfterLoss("finally")
    BY DEF PartUnreadable, WriteEach
<1> HIDE DEF d
<1>4. body' \in Seq(Items)
    BY <1>2, <1>3, SentType
<1> QED
    BY <1>2, <1>3, <1>4 DEF AfterLoss

-----------------------------------------------------------------------------
LEMMA TypeStep ==
    ASSUME TypeOK, RangesInv, PlaceInv, [Next]_vars
    PROVE  TypeOK'
<1> USE DEF TypeOK, requestVars, streamVars
<1> DEFINE Rest == UNCHANGED <<method, header, closing, source>>
<1>0. RangesTyped
    BY DEF RangesInv
<1>1. CASE SendHead
    <2>1. RangesTyped' /\ Len(ranges') = Len(ranges) /\ (ranges' = << >> <=> ranges = << >>)
        BY <1>0, <1>1, Sorted DEF SendHead, RangesTyped
    <2>2. head' \in {<< >>} \cup ({200, 206} \X (0..Size \cup {None}))
        BY <1>0, <1>1, HeadType DEF SendHead
    <2>3. ranges' \in Seq((0..Size) \X (0..Size))
        BY <2>1 DEF RangesTyped, Pairs
    <2>4. pc' \in {"stream", "whole", "parts", "finally", "hung"} /\ failed' \in BOOLEAN
        BY <1>1 DEF SendHead, AfterHead, AfterLoss
    <2>5. index = 1 /\ index' = 1
        BY <1>1 DEF SendHead, PlaceInv
    <2>6. index' \in 1..(Len(ranges') + 1) /\ (ranges' # << >> => index' <= Len(ranges'))
        BY <2>3, <2>5, EmptySeq
    <2> QED
        BY <1>1, <2>2, <2>3, <2>4, <2>6 DEF SendHead
<1>2. CASE SendWhole
    BY <1>0, <1>2, WholeStep DEF SendWhole
<1>3. CASE WholeUnreadable
    BY <1>3 DEF WholeUnreadable
<1>4. CASE SendPart
    <2>1. index' \in 1..(Len(ranges) + 1)
        <3>1. index \in DOMAIN ranges /\ index' = index + 1
            BY <1>0, <1>4, PartStep
        <3>2. Len(ranges) \in Nat /\ DOMAIN ranges = 1..Len(ranges)
            OBVIOUS
        <3> QED
            BY <3>1, <3>2
    <2>2. /\ pc' \in {"finally", "hung", "trailer", "parts"} /\ failed' \in BOOLEAN
          /\ body' \in Seq(Items)
        BY <1>0, <1>4, PartStep
    <2> QED
        BY <1>4, <2>1, <2>2 DEF SendPart
<1>5. CASE PartUnreadable
    BY <1>0, <1>5, PartUnreadableStep DEF PartUnreadable
<1>6. CASE SendTrailer
    BY <1>6, TrailerStep DEF SendTrailer
<1>7. ASSUME NEW k \in 1..Chunk, StreamAll(k) PROVE TypeOK'
    <2>1. /\ body' \in Seq(Items) /\ offset' \in 0..Size /\ failed' \in BOOLEAN
          /\ pc' \in {"finally", "stream", "hung"} /\ ranges = << >>
        BY <1>7, AllStep
    <2> QED
        BY <1>7, <2>1 DEF StreamAll
<1>8. ASSUME NEW k \in 1..Chunk, StreamSkip(k) PROVE TypeOK'
    <2>1. offset' \in 0..Size
        BY <1>8, SizesAssumption DEF StreamSkip
    <2> QED
        BY <1>8, <2>1 DEF StreamSkip
<1>9. ASSUME NEW k \in 1..Chunk, StreamRange(k) PROVE TypeOK'
    <2>1. /\ index \in DOMAIN ranges /\ body' \in Seq(Items)
          /\ offset' = offset + k /\ offset + k <= Size /\ failed' \in BOOLEAN
          /\ pc' \in {"finally", "stream", "hung"} /\ (pc' = "stream" => ~LastFulfilled(k))
          /\ index' = IF Fulfilled(k) THEN index + 1 ELSE index
        BY <1>0, <1>9, PickedStep
    <2>2. offset' \in 0..Size
        BY <2>1, SizesAssumption
    <2>3. Len(ranges) \in Nat /\ DOMAIN ranges = 1..Len(ranges) /\ ranges' = ranges
        BY <1>9 DEF StreamRange
    <2>4. index' \in 1..(Len(ranges) + 1) /\ (pc' = "stream" => index' <= Len(ranges))
        <3>1. index \in 1..Len(ranges) /\ Len(ranges) \in Nat
            BY <2>1, <2>3
        <3>2. CASE index' = index
            BY <3>1, <3>2
        <3>3. CASE index' = index + 1 /\ (pc' = "stream" => index # Len(ranges))
            BY <3>1, <3>3
        <3> QED
            BY <2>1, <3>2, <3>3 DEF LastFulfilled
    <2> QED
        BY <1>9, <2>1, <2>2, <2>3, <2>4 DEF StreamRange
<1>10. CASE StreamEnds
    BY <1>10 DEF StreamEnds
<1>11. CASE StreamError
    BY <1>11 DEF StreamError
<1>12. CASE Finally
    BY <1>12 DEF Finally
<1>13. CASE UNCHANGED vars
    BY <1>13 DEF vars
<1> QED
    BY <1>1, <1>2, <1>3, <1>4, <1>5, <1>6, <1>7, <1>8, <1>9, <1>10, <1>11, <1>12, <1>13
    DEF Next, FileStep, StreamStep

LEMMA RangesStep ==
    ASSUME TypeOK, RangesInv, PlaceInv, [Next]_vars
    PROVE  RangesInv'
<1>0. RangesTyped
    BY DEF RangesInv
<1>1. UNCHANGED <<header, source>>
    BY DEF Next, FileStep, StreamStep, SendHead, SendWhole, WholeUnreadable, SendPart, PartUnreadable,
       SendTrailer, StreamAll, StreamSkip, StreamRange, StreamEnds, StreamError, Finally, requestVars, vars
<1>2. CASE SendHead /\ pc' = "stream"
    <2>1. /\ RangesTyped' /\ (ranges' = << >> <=> ranges = << >>)
          /\ \A i \in DOMAIN ranges' : \E j \in DOMAIN ranges : ranges'[i] = ranges[j]
        BY <1>0, <1>2, Sorted DEF SendHead
    <2>2. source # "archive"
        BY <1>2 DEF SendHead, AfterHead, AfterLoss
    <2>3. Parsed(header)' = Parsed(header)
        BY <1>1 DEF Parsed
    <2>4. source = "stream" => \A i \in DOMAIN ranges' : \E j \in DOMAIN Parsed(header) : ranges'[i] = Parsed(header)[j]
        BY <2>1 DEF RangesInv
    <2> QED
        BY <1>1, <2>1, <2>2, <2>3, <2>4 DEF RangesInv
<1>3. CASE UNCHANGED ranges
    <2>1. Parsed(header)' = Parsed(header)
        BY <1>1 DEF Parsed
    <2>2. RangesTyped'
        BY <1>0, <1>3, RangesKept
    <2> QED
        BY <1>1, <1>3, <2>1, <2>2 DEF RangesInv
<1>4. (SendHead /\ pc' = "stream") \/ UNCHANGED ranges
    BY DEF Next, FileStep, StreamStep, SendHead, SendWhole, WholeUnreadable, SendPart, PartUnreadable,
       SendTrailer, StreamAll, StreamSkip, StreamRange, StreamEnds, StreamError, Finally, vars
<1> QED
    BY <1>2, <1>3, <1>4

(* Nothing but the head's step puts the ranges in another order. *)
LEMMA RequestKept ==
    ASSUME [Next]_vars
    PROVE  /\ UNCHANGED <<method, header, closing, source>>
           /\ pc # "head" => UNCHANGED ranges
BY DEF Next, FileStep, StreamStep, SendHead, SendWhole, WholeUnreadable, SendPart, PartUnreadable,
   SendTrailer, StreamAll, StreamSkip, StreamRange, StreamEnds, StreamError, Finally, requestVars, vars

LEMMA PlaceStep ==
    ASSUME TypeOK, RangesInv, PlaceInv, [Next]_vars
    PROVE  PlaceInv'
<1>0. RangesTyped /\ UNCHANGED <<method, closing, source>>
    BY RequestKept DEF RangesInv
<1>h. ASSUME UNCHANGED <<ranges, head>>, pc # "head", ~failed' => ~failed
      PROVE  source' # "stream" /\ pc' # "head" /\ ~failed' => head' = <<Status, ContentLength>>'
    BY <1>0, <1>h, RangesKept DEF PlaceInv, TypeOK
<1>1. CASE SendHead
    <2>1. method \in {"GET", "HEAD"} /\ source \in Sources /\ ranges \in Seq(Pairs)
        BY <1>0 DEF TypeOK, RangesTyped
    <2>2. /\ head = << >> /\ body = << >> /\ offset = 0 /\ index = 1
          /\ ~failed /\ ~cut /\ ~forceClose
        BY <1>1 DEF SendHead, PlaceInv
    <2>3. /\ pc' \in {"stream", "whole", "parts", "finally", "hung"}
          /\ pc' \notin {"finally", "hung"} => pc' = AfterHead
          /\ UNCHANGED <<body, offset, index, cut, forceClose>>
        BY <1>1 DEF SendHead, AfterHead, AfterLoss, streamVars
    <2>4. /\ pc' \in Writing => method = "GET"
          /\ pc' \in Writing => (pc' = "stream" <=> source # "archive")
          /\ pc' = "whole" => ~InPieces
          /\ pc' = "parts" => InPieces
        BY <2>1, <2>3 DEF AfterHead, InPieces, Writing
    <2>5. CASE source = "archive"
        <3>1. UNCHANGED ranges
            BY <1>1, <2>5 DEF SendHead, AfterHead, AfterLoss
        <3>2. (InPieces' <=> InPieces) /\ Status' = Status /\ ContentLength' = ContentLength
            BY <3>1, RangesKept
        <3>3. ~failed' => head' = <<Status, ContentLength>>
            BY <1>1 DEF SendHead
        <3>4. pc' = "parts" => index' <= Len(ranges')
            BY <2>1, <2>2, <2>3, <2>4, <3>1, EmptySeq DEF InPieces
        <3> QED
            BY <1>0, <2>2, <2>3, <2>4, <3>2, <3>3, <3>4 DEF PlaceInv, Writing
    <2>6. CASE source = "bundle"
        <3>1. ranges = << >> /\ ranges' = << >>
            BY <1>0, <1>1, <2>6, Sorted DEF SendHead, RangesInv
        <3>2. Status' = Status /\ ContentLength' = ContentLength
            BY <3>1 DEF Status, ContentLength
        <3>3. ~failed' => head' = <<Status, ContentLength>>
            BY <1>1 DEF SendHead
        <3>4. pc' \in {"stream", "finally", "hung"}
            BY <2>3, <2>4, <2>6 DEF Writing
        <3> QED
            BY <1>0, <2>2, <2>3, <2>4, <2>6, <3>2, <3>3, <3>4 DEF PlaceInv, Writing
    <2>7. CASE source = "stream"
        <3>1. pc' \in {"stream", "finally", "hung"}
            BY <2>3, <2>4, <2>7 DEF Writing
        <3> QED
            BY <1>0, <2>2, <2>3, <2>4, <2>7, <3>1 DEF PlaceInv, Writing
    <2> QED
        BY <2>1, <2>5, <2>6, <2>7 DEF Sources
<1>2. CASE SendWhole
    <2>1. pc' \in {"finally", "hung"} /\ (~failed' => ~failed) /\ pc # "head"
        BY <1>0, <1>2, WholeStep DEF SendWhole, TypeOK
    <2> QED
        BY <1>2, <1>h, <2>1 DEF SendWhole, PlaceInv, Writing
<1>3. CASE WholeUnreadable
    BY <1>3, <1>h DEF WholeUnreadable, PlaceInv, Writing
<1>4. CASE SendPart
    <2>1. /\ pc = "parts" /\ InPieces /\ index \in DOMAIN ranges
          /\ UNCHANGED <<ranges, head, forceClose, cut>> /\ ~cut /\ ~forceClose
          /\ method = "GET" /\ source = "archive" /\ source' = source /\ method' = method
        BY <1>0, <1>4, PartStep DEF SendPart, PlaceInv, Writing, requestVars
    <2>2. InPieces'
        BY <2>1, RangesKept
    <2>3. /\ index' = index + 1 /\ (~failed' => ~failed)
          /\ pc' \in {"finally", "hung", IF index = Len(ranges) THEN "trailer" ELSE "parts"}
        BY <1>0, <1>4, PartStep DEF TypeOK
    <2>4. Len(ranges) \in Nat /\ DOMAIN ranges = 1..Len(ranges)
        BY DEF TypeOK
    <2>5. /\ pc' = "parts" => index' <= Len(ranges')
          /\ pc' = "trailer" => index' = Len(ranges') + 1
        BY <2>1, <2>3, <2>4
    <2>6. source' # "stream" /\ pc' # "head" /\ ~failed' => head' = <<Status, ContentLength>>'
        BY <1>h, <2>1, <2>3
    <2>7. pc' \in {"finally", "hung", "trailer", "parts"}
        BY <2>3
    <2> QED
        BY <2>1, <2>2, <2>5, <2>6, <2>7 DEF PlaceInv, Writing
<1>5. CASE PartUnreadable
    <2>1. pc' \in {"finally", "hung"} /\ (~failed' => ~failed) /\ pc # "head"
        BY <1>0, <1>5, PartUnreadableStep DEF PartUnreadable
    <2> QED
        BY <1>5, <1>h, <2>1 DEF PartUnreadable, PlaceInv, Writing
<1>6. CASE SendTrailer
    <2>1. pc' \in {"finally", "hung"} /\ (~failed' => ~failed) /\ pc # "head"
        BY <1>6, TrailerStep DEF SendTrailer, TypeOK
    <2> QED
        BY <1>6, <1>h, <2>1 DEF SendTrailer, PlaceInv, Writing
<1>7. ASSUME NEW k \in 1..Chunk, StreamAll(k) PROVE PlaceInv'
    <2>1. /\ pc = "stream" /\ UNCHANGED <<ranges, head, forceClose, cut>>
          /\ ~cut /\ ~forceClose /\ method = "GET" /\ source # "archive"
          /\ source' = source /\ method' = method
        BY <1>0, <1>7 DEF StreamAll, PlaceInv, Writing
    <2>2. (~failed' => ~failed) /\ pc' \in {"finally", "stream", "hung"}
        BY <1>7, AllStep DEF TypeOK
    <2>3. source' # "stream" /\ pc' # "head" /\ ~failed' => head' = <<Status, ContentLength>>'
        BY <1>h, <2>1, <2>2
    <2> QED
        BY <2>1, <2>2, <2>3 DEF PlaceInv, Writing
<1>8. ASSUME NEW k \in 1..Chunk, StreamSkip(k) PROVE PlaceInv'
    <2>1. /\ pc = "stream" /\ UNCHANGED <<ranges, head, forceClose, cut, failed, pc>>
          /\ ~cut /\ ~forceClose /\ method = "GET" /\ source # "archive"
          /\ source' = source /\ method' = method
        BY <1>0, <1>8 DEF StreamSkip, PlaceInv, Writing
    <2>2. source' # "stream" /\ pc' # "head" /\ ~failed' => head' = <<Status, ContentLength>>'
        BY <1>h, <2>1
    <2> QED
        BY <2>1, <2>2 DEF PlaceInv, Writing
<1>9. ASSUME NEW k \in 1..Chunk, StreamRange(k) PROVE PlaceInv'
    <2>1. /\ pc = "stream" /\ UNCHANGED <<ranges, head, forceClose, cut>>
          /\ ~cut /\ ~forceClose /\ method = "GET" /\ source # "archive"
          /\ source' = source /\ method' = method
        BY <1>0, <1>9 DEF StreamRange, PlaceInv, Writing
    <2>2. (~failed' => ~failed) /\ pc' \in {"finally", "stream", "hung"}
        BY <1>0, <1>9, PickedStep
    <2>3. source' # "stream" /\ pc' # "head" /\ ~failed' => head' = <<Status, ContentLength>>'
        BY <1>h, <2>1, <2>2
    <2> QED
        BY <2>1, <2>2, <2>3 DEF PlaceInv, Writing
<1>10. CASE StreamEnds
    BY <1>10, <1>h DEF StreamEnds, PlaceInv, Writing
<1>11. CASE StreamError
    BY <1>11, <1>h DEF StreamError, PlaceInv, Writing
<1>12. CASE Finally
    BY <1>0, <1>12, <1>h DEF Finally, PlaceInv, Writing
<1>13. CASE UNCHANGED vars
    <2>1. UNCHANGED <<method, closing, source, ranges, pc, head, body, index, offset, forceClose,
                      failed, cut, connected>>
        BY <1>13 DEF vars, requestVars, streamVars
    <2>2. (InPieces' <=> InPieces) /\ Status' = Status /\ ContentLength' = ContentLength
        BY <2>1, RangesKept
    <2> QED
        BY <2>1, <2>2 DEF PlaceInv, Writing
<1> QED
    BY <1>1, <1>2, <1>3, <1>4, <1>5, <1>6, <1>7, <1>8, <1>9, <1>10, <1>11, <1>12, <1>13
    DEF Next, FileStep, StreamStep

LEMMA WholeInvStep ==
    ASSUME TypeOK, RangesInv, PlaceInv, WholeInv, [Next]_vars
    PROVE  WholeInv'
<1>0. RangesTyped /\ UNCHANGED <<method, source>> /\ (pc # "head" => UNCHANGED ranges)
    BY RequestKept DEF RangesInv
<1>h. ASSUME UNCHANGED <<ranges, body, offset, cut, forceClose>>, ~failed' => ~failed,
             Over' => Over
      PROVE  WholeInv'
    <2>1. (InPieces' <=> InPieces) /\ ResponseRange' = ResponseRange
        BY <1>h, RangesKept
    <2>2. Data(<<0, offset>>)' = Data(<<0, offset>>) /\ Data(ResponseRange)' = Data(ResponseRange)
        BY <1>h, <2>1 DEF Data
    <2> QED
        BY <1>0, <1>h, <2>1, <2>2 DEF WholeInv
<1>1. CASE SendHead
    <2>1. /\ ~failed /\ ~cut /\ ~forceClose /\ UNCHANGED <<body, offset, cut, forceClose>>
          /\ pc' = "finally" => method # "GET" \/ failed'
          /\ pc' # "ended"
        BY <1>1 DEF SendHead, AfterHead, AfterLoss, PlaceInv, streamVars
    <2>2. ~Over'
        BY <1>0, <2>1 DEF Over
    <2>3. source' = "bundle" /\ ~failed' => body' = Data(<<0, offset>>)'
        <3>1. Data(<<0, offset>>)' = Data(<<0, offset>>)
            BY <2>1 DEF Data
        <3> QED
            BY <1>0, <2>1, <3>1 DEF WholeInv
    <2> QED
        BY <2>1, <2>2, <2>3 DEF WholeInv
<1>2. CASE SendWhole
    <2>1. /\ source = "archive" /\ ~InPieces /\ ~cut /\ UNCHANGED <<cut, ranges>>
        BY <1>2 DEF SendWhole, PlaceInv, Writing
    <2>2. failed' = TRUE \/ body' = Data(ResponseRange)
        BY <1>0, <1>2, WholeStep
    <2>3. Data(ResponseRange)' = Data(ResponseRange)
        <3>1. ResponseRange' = ResponseRange
            BY <2>1, RangesKept
        <3> QED
            BY <3>1 DEF Data
    <2> QED
        BY <1>0, <2>1, <2>2, <2>3 DEF WholeInv, Over
<1>3. CASE WholeUnreadable
    <2>1. source = "archive" /\ cut' /\ forceClose'
        BY <1>3 DEF WholeUnreadable, PlaceInv, Writing
    <2> QED
        BY <1>0, <2>1 DEF WholeInv
<1>4. CASE SendPart \/ PartUnreadable \/ SendTrailer
    <2>1. source = "archive" /\ InPieces /\ UNCHANGED ranges
        BY <1>4 DEF SendPart, PartUnreadable, SendTrailer, PlaceInv, Writing
    <2>2. InPieces'
        BY <2>1, RangesKept
    <2> QED
        BY <1>0, <2>1, <2>2 DEF WholeInv
<1>5. ASSUME NEW k \in 1..Chunk, StreamAll(k) PROVE WholeInv'
    <2>1. source # "archive" /\ pc = "stream"
        BY <1>5 DEF StreamAll, PlaceInv, Writing
    <2>2. /\ offset' = offset + k /\ offset' <= Size /\ offset \in Nat /\ k \in Nat
          /\ ~failed' => ~failed /\ pc' = "stream" /\ body' = body \o Data(<<offset, k>>)
        <3>1. /\ offset' = offset + k /\ offset' \in 0..Size /\ offset \in Nat /\ k \in Nat
              /\ ~failed' => ~failed /\ pc' = "stream" /\ body' = body \o Data(<<offset, k>>)
            BY <1>5, AllStep
        <3>2. offset' <= Size
            BY <3>1, SizesAssumption
        <3> QED
            BY <3>1, <3>2
    <2>3. source = "bundle" /\ ~failed' => body' = Data(<<0, offset'>>)
        <3> SUFFICES ASSUME source = "bundle", ~failed' PROVE body' = Data(<<0, offset'>>)
            OBVIOUS
        <3>0. ~failed /\ body' = body \o Data(<<offset, k>>)
            BY <2>2
        <3>1. body' = Data(<<0, offset>>) \o Data(<<offset, k>>)
            BY <3>0 DEF WholeInv
        <3>2. 0 + offset + k <= Size /\ 0 + offset = offset
            BY <2>2
        <3>3. Data(<<0, offset>>) \o Data(<<0 + offset, k>>) = Data(<<0, offset + k>>)
            BY <2>2, <3>2, DataJoins
        <3> QED
            BY <2>2, <3>1, <3>2, <3>3
    <2>4. ~Over'
        BY <2>2 DEF Over
    <2>5. Data(<<0, offset>>)' = Data(<<0, offset'>>)
        BY DEF Data
    <2> QED
        BY <1>0, <2>1, <2>3, <2>4, <2>5 DEF WholeInv
<1>6. ASSUME NEW k \in 1..Chunk, StreamSkip(k) \/ StreamRange(k) PROVE WholeInv'
    <2>1. source = "stream"
        <3>1. pc = "stream" /\ ranges # << >>
            BY <1>6 DEF StreamSkip, StreamRange
        <3> QED
            BY <3>1 DEF PlaceInv, RangesInv, Writing, TypeOK, Sources
    <2> QED
        BY <1>0, <2>1 DEF WholeInv
<1>7. CASE StreamEnds
    <2>1. source # "archive" /\ offset' = Size /\ UNCHANGED <<body, offset, failed>>
        BY <1>7 DEF StreamEnds, PlaceInv, Writing, streamVars
    <2>2. Data(<<0, offset>>)' = Data(<<0, offset>>)
        BY <2>1 DEF Data
    <2> QED
        BY <1>0, <2>1, <2>2 DEF WholeInv
<1>8. CASE StreamError
    <2>1. source # "archive" /\ cut' /\ UNCHANGED <<body, offset, failed>>
        BY <1>8 DEF StreamError, PlaceInv, Writing, streamVars
    <2>2. Data(<<0, offset>>)' = Data(<<0, offset>>)
        BY <2>1 DEF Data
    <2> QED
        BY <1>0, <2>1, <2>2 DEF WholeInv
<1>9. CASE Finally
    BY <1>0, <1>9, <1>h DEF Finally, Over, streamVars
<1>10. CASE UNCHANGED vars
    BY <1>0, <1>10, <1>h DEF vars, Over, streamVars
<1> QED
    BY <1>1, <1>2, <1>3, <1>4, <1>5, <1>6, <1>7, <1>8, <1>9, <1>10
    DEF Next, FileStep, StreamStep

-----------------------------------------------------------------------------
(* More of an increasing list, from where it had got. *)
Increasing(b) ==
    \A i, j \in DOMAIN b : i < j /\ IsByte(b[i]) /\ IsByte(b[j]) => b[i].at < b[j].at

Below(b, o, positions) ==
    \A i \in DOMAIN b : IsByte(b[i]) => b[i].at < o /\ b[i].at \in positions

LEMMA Grown ==
    ASSUME NEW b \in Seq(Items), NEW y \in Seq(Items),
           NEW o \in Nat, NEW e \in Nat, NEW positions \in SUBSET Nat,
           Increasing(b), Below(b, o, positions), Increasing(y),
           \A i \in DOMAIN y : IsByte(y[i]) => y[i].at \in positions /\ o <= y[i].at /\ y[i].at < e,
           o <= e
    PROVE  LET c == b \o y
           IN  Increasing(c) /\ Below(c, e, positions)
<1> DEFINE c == b \o y
           n == Len(y)
<1>0. /\ c \in Seq(Items) /\ Len(c) = Len(b) + n /\ Len(b) \in Nat /\ n \in Nat
      /\ \A i \in 1..(Len(b) + n) : c[i] = IF i <= Len(b) THEN b[i] ELSE y[i - Len(b)]
    BY ConcatProperties
<1> HIDE DEF c, n
<1>1. /\ c \in Seq(Items) /\ Len(c) = Len(b) + n
      /\ \A i \in 1..Len(b) : c[i] = b[i]
      /\ \A i \in 1..n : c[Len(b) + i] = y[i]
    <2>1. ASSUME NEW i \in 1..n PROVE c[Len(b) + i] = y[i]
        <3>1. Len(b) + i \in 1..(Len(b) + n) /\ ~(Len(b) + i <= Len(b)) /\ (Len(b) + i) - Len(b) = i
            BY <1>0
        <3> QED
            BY <1>0, <3>1
    <2>2. \A i \in 1..Len(b) : i \in 1..(Len(b) + n) /\ i <= Len(b)
        BY <1>0
    <2> QED
        BY <1>0, <2>1, <2>2
<1>2. /\ Len(b) \in Nat /\ DOMAIN b = 1..Len(b) /\ Len(y) \in Nat /\ DOMAIN y = 1..Len(y)
      /\ DOMAIN c = 1..(Len(b) + n) /\ n = Len(y)
    BY <1>1 DEF n
<1>3. ASSUME NEW i \in DOMAIN c, i > Len(b)
      PROVE  i - Len(b) \in 1..n /\ i - Len(b) \in DOMAIN y /\ c[i] = y[i - Len(b)]
    <2>1. i - Len(b) \in 1..n /\ i = Len(b) + (i - Len(b))
        BY <1>2, <1>3
    <2> QED
        BY <1>1, <1>2, <2>1
<1>4. \A i \in DOMAIN c : i <= Len(b) => i \in DOMAIN b /\ c[i] = b[i]
    BY <1>1, <1>2
<1>5. ASSUME NEW i \in DOMAIN c, IsByte(c[i])
      PROVE  /\ c[i].at < e /\ c[i].at \in positions
             /\ i <= Len(b) => c[i].at < o
             /\ i > Len(b) => o <= c[i].at
    <2>1. CASE i <= Len(b)
        <3>1. i \in DOMAIN b /\ c[i] = b[i]
            BY <1>4, <2>1
        <3>2. c[i].at < o /\ c[i].at \in positions
            BY <1>5, <3>1 DEF Below
        <3>3. c[i].at \in Nat
            BY <3>2
        <3> QED
            BY <1>2, <2>1, <3>2, <3>3
    <2>2. CASE i > Len(b)
        <3>1. i - Len(b) \in DOMAIN y /\ c[i] = y[i - Len(b)]
            BY <1>3, <2>2
        <3>2. c[i].at \in positions /\ o <= c[i].at /\ c[i].at < e
            BY <1>5, <3>1
        <3> QED
            BY <1>2, <2>2, <3>2
    <2> QED
        BY <1>2, <2>1, <2>2
<1>6. ASSUME NEW i \in DOMAIN c, NEW j \in DOMAIN c, i < j, IsByte(c[i]), IsByte(c[j])
      PROVE  c[i].at < c[j].at
    <2>1. CASE j <= Len(b)
        <3>1. i <= Len(b) /\ i \in DOMAIN b /\ j \in DOMAIN b /\ c[i] = b[i] /\ c[j] = b[j]
            BY <1>2, <1>4, <1>6, <2>1
        <3> QED
            BY <1>6, <3>1 DEF Increasing
    <2>2. CASE i <= Len(b) /\ j > Len(b)
        <3>1. c[i].at < o /\ o <= c[j].at /\ c[i].at \in Nat /\ c[j].at \in Nat
            BY <1>5, <1>6, <2>2
        <3> QED
            BY <3>1
    <2>3. CASE i > Len(b) /\ j > Len(b)
        <3>1. /\ i - Len(b) \in DOMAIN y /\ c[i] = y[i - Len(b)]
              /\ j - Len(b) \in DOMAIN y /\ c[j] = y[j - Len(b)]
            BY <1>3, <2>3
        <3>2. i - Len(b) < j - Len(b)
            BY <1>2, <1>6
        <3> QED
            BY <1>6, <3>1, <3>2 DEF Increasing
    <2> QED
        BY <1>2, <1>6, <2>1, <2>2, <2>3
<1>7. Increasing(c)
    BY <1>6 DEF Increasing
<1>8. Below(c, e, positions)
    BY <1>5 DEF Below
<1> QED
    BY <1>7, <1>8 DEF c

LEMMA PickedInvStep ==
    ASSUME TypeOK, RangesInv, PlaceInv, PickedInv, [Next]_vars
    PROVE  PickedInv'
<1>0. RangesTyped /\ UNCHANGED source /\ (pc # "head" => UNCHANGED ranges)
    BY RequestKept DEF RangesInv
<1> SUFFICES ASSUME source = "stream", ranges' # << >>
             PROVE  Below(body', offset', Ordered') /\ Increasing(body')
    BY <1>0 DEF PickedInv, Below, Increasing
<1>1. CASE pc = "head"
    <2>1. body' = << >>
        <3>1. body = << >>
            BY <1>1 DEF PlaceInv
        <3>2. SendHead \/ UNCHANGED vars
            BY <1>1 DEF Next, FileStep, StreamStep, SendHead, SendWhole, WholeUnreadable, SendPart,
               PartUnreadable, SendTrailer, StreamAll, StreamSkip, StreamRange, StreamEnds,
               StreamError, Finally
        <3> QED
            BY <3>1, <3>2 DEF SendHead, vars
    <2>2. DOMAIN body' = {}
        BY <2>1
    <2> QED
        BY <2>2 DEF Below, Increasing
<1> SUFFICES ASSUME pc # "head"
             PROVE  Below(body', offset', Ordered') /\ Increasing(body')
    BY <1>1
<1>2. UNCHANGED ranges /\ ranges # << >> /\ Ordered' = Ordered
    <2>1. UNCHANGED ranges
        BY <1>0
    <2> QED
        BY <2>1, RangesKept
<1>3. /\ Below(body, offset, Ordered) /\ Increasing(body) /\ offset \in Nat
      /\ Ordered \in SUBSET Nat /\ body \in Seq(Items)
    BY <1>0, <1>2, OrderedType DEF PickedInv, Below, Increasing, TypeOK
<1>4. ASSUME UNCHANGED body, offset' \in Nat, offset <= offset'
      PROVE  Below(body', offset', Ordered') /\ Increasing(body')
    <2>1. ASSUME NEW i \in DOMAIN body, IsByte(body[i])
          PROVE  body[i].at < offset' /\ body[i].at \in Ordered
        <3>1. body[i].at < offset /\ body[i].at \in Ordered
            BY <1>3, <2>1 DEF Below
        <3>2. body[i].at \in Nat
            BY <1>3, <3>1
        <3> QED
            BY <1>3, <1>4, <3>1, <3>2
    <2> QED
        BY <1>2, <1>3, <1>4, <2>1 DEF Below, Increasing
<1>5. ASSUME NEW k \in 1..Chunk, StreamRange(k)
      PROVE  Below(body', offset', Ordered') /\ Increasing(body')
    <2>1. /\ ranges[index] \in Pairs /\ index \in DOMAIN ranges
          /\ offset' = offset + k /\ offset + k <= Size
        BY <1>0, <1>5, PickedStep
    <2>2. PICK s, m \in 0..Size, y \in Seq(Items) :
              /\ s >= offset /\ s >= ranges[index][1]
              /\ s + m <= offset + k /\ s + m <= MaxRange(ranges[index])
              /\ \A i \in DOMAIN y : IsByte(y[i]) => y[i].at \in s..(s + m - 1)
              /\ \A i, j \in DOMAIN y :
                     i < j /\ IsByte(y[i]) /\ IsByte(y[j]) => y[i].at < y[j].at
              /\ body' = body \o y
        BY <1>0, <1>5, PickedStep
    <2>3. body' = body \o y
        BY <2>2
    <2>4. offset + k \in Nat /\ offset <= offset + k
        BY <1>3
    <2>5. s..(s + m - 1) \subseteq Ordered
        <3>1. PICK a, l \in 0..Size : ranges[index] = <<a, l>>
            BY <2>1 DEF Pairs
        <3>2. s..(s + m - 1) \subseteq Positions(ranges[index])
            BY <2>2, <3>1 DEF Positions, MaxRange
        <3> QED
            BY <2>1, <3>2 DEF Ordered
    <2>6. ASSUME NEW i \in DOMAIN y, IsByte(y[i])
          PROVE  y[i].at \in Ordered /\ offset <= y[i].at /\ y[i].at < offset + k
        <3>1. y[i].at \in s..(s + m - 1)
            BY <2>2, <2>6
        <3> QED
            BY <1>3, <2>2, <2>4, <2>5, <3>1
    <2>7. Increasing(y)
        BY <2>2 DEF Increasing
    <2>8. Increasing(body \o y) /\ Below(body \o y, offset + k, Ordered)
        BY <1>3, <2>4, <2>6, <2>7, Grown
    <2> QED
        BY <1>2, <2>1, <2>3, <2>8
<1>6. ASSUME NEW k \in 1..Chunk, StreamSkip(k)
      PROVE  Below(body', offset', Ordered') /\ Increasing(body')
    <2>1. UNCHANGED body /\ offset' = offset + k
        BY <1>6 DEF StreamSkip
    <2>2. offset' \in Nat /\ offset <= offset'
        BY <1>3, <2>1
    <2> QED
        BY <1>4, <2>1, <2>2
<1>7. CASE StreamEnds \/ StreamError \/ Finally \/ UNCHANGED vars
    <2>1. UNCHANGED <<body, offset>>
        BY <1>7 DEF StreamEnds, StreamError, Finally, vars, streamVars
    <2>2. offset' \in Nat /\ offset <= offset'
        BY <1>3, <2>1
    <2> QED
        BY <1>4, <2>1, <2>2
<1> QED
    BY <1>2, <1>5, <1>6, <1>7 DEF Next, FileStep, StreamStep, SendHead, SendWhole, WholeUnreadable, SendPart,
       PartUnreadable, SendTrailer, StreamAll, PlaceInv, Writing

-----------------------------------------------------------------------------
(* The parts stay where they are when more is sent. *)
LEMMA PartsStay ==
    ASSUME NEW rs \in Seq(Pairs), NEW n \in 1..(Len(rs) + 1), NEW b, NEW c, NEW st,
           PartsAt(rs, b, st, n), \A p \in 1..(st[n] - 1) : c[p] = b[p]
    PROVE  /\ PartsAt(rs, c, st, n)
           /\ \A i \in 1..n : st[i] \in Nat \ {0}
           /\ \A i \in 1..(n - 1) : /\ i \in 1..n /\ i + 1 \in 1..n /\ i \in DOMAIN rs
                                    /\ rs[i][1] \in Nat /\ rs[i][2] \in Nat
                                    /\ st[i] + rs[i][2] <= st[n] - 1
<1>1. /\ st \in [1..n -> Nat \ {0}]
      /\ \A i \in 1..(n - 1) :
             /\ st[i + 1] = st[i] + 1 + rs[i][2]
             /\ b[st[i]] = Part(rs[i])
             /\ \A k \in 1..rs[i][2] : b[st[i] + k] = Byte(rs[i][1] + k - 1)
      /\ \A i, j \in 1..n : i < j => st[i] < st[j]
    BY DEF PartsAt
<1>2. n \in Nat /\ Len(rs) \in Nat /\ n <= Len(rs) + 1 /\ DOMAIN rs = 1..Len(rs)
    OBVIOUS
<1>3. ASSUME NEW i \in 1..(n - 1)
      PROVE  /\ i \in 1..n /\ i + 1 \in 1..n /\ i \in DOMAIN rs
             /\ rs[i][1] \in Nat /\ rs[i][2] \in Nat
             /\ st[i] \in Nat \ {0} /\ st[i] + rs[i][2] <= st[n] - 1
    <2>1. i \in 1..n /\ i + 1 \in 1..n /\ i \in DOMAIN rs
        BY <1>2
    <2>2. rs[i] \in Pairs
        BY <2>1
    <2>3. rs[i][1] \in Nat /\ rs[i][2] \in Nat
        BY <2>2 DEF Pairs
    <2>4. st[i] \in Nat /\ st[i] # 0 /\ st[i + 1] \in Nat /\ st[n] \in Nat
        BY <1>1, <1>2, <2>1
    <2>5. st[i + 1] <= st[n]
        <3>1. CASE i + 1 = n
            BY <2>4, <3>1
        <3>2. CASE i + 1 < n
            <4>1. st[i + 1] < st[n]
                BY <1>1, <1>2, <2>1, <3>2
            <4> QED
                BY <2>4, <4>1
        <3> QED
            BY <1>2, <3>1, <3>2
    <2>6. st[i + 1] = st[i] + 1 + rs[i][2]
        BY <1>1
    <2>7. st[i] + rs[i][2] <= st[n] - 1
        <3>1. \A x, y, z, w \in Nat : y <= z /\ y = x + 1 + w => x + w <= z - 1
            OBVIOUS
        <3> QED
            BY <2>3, <2>4, <2>5, <2>6, <3>1
    <2> QED
        BY <2>1, <2>3, <2>4, <2>7
<1>4. ASSUME NEW i \in 1..(n - 1)
      PROVE  /\ c[st[i]] = Part(rs[i])
             /\ \A k \in 1..rs[i][2] : c[st[i] + k] = Byte(rs[i][1] + k - 1)
    <2>1. st[n] \in Nat /\ st[i] \in Nat \ {0} /\ rs[i][2] \in Nat /\ st[i] + rs[i][2] <= st[n] - 1
        BY <1>1, <1>2, <1>3
    <2>2. st[i] \in 1..(st[n] - 1) /\ \A k \in 1..rs[i][2] : st[i] + k \in 1..(st[n] - 1)
        <3>1. ASSUME NEW x \in Nat \ {0}, NEW w \in Nat, NEW z \in Nat, x + w <= z - 1
              PROVE  x \in 1..(z - 1) /\ \A k \in 1..w : x + k \in 1..(z - 1)
            BY <3>1
        <3> QED
            BY <2>1, <3>1
    <2>3. c[st[i]] = Part(rs[i])
        BY <1>1, <2>2
    <2>4. ASSUME NEW k \in 1..rs[i][2] PROVE c[st[i] + k] = Byte(rs[i][1] + k - 1)
        BY <1>1, <2>2
    <2> QED
        BY <2>3, <2>4
<1>5. PartsAt(rs, c, st, n)
    BY <1>4 DEF PartsAt
<1> QED
    BY <1>1, <1>3, <1>5

(* One more part. *)
LEMMA PartsGrow ==
    ASSUME NEW rs \in Seq(Pairs), NEW n \in 1..Len(rs), MaxRange(rs[n]) <= Size,
           NEW b \in Seq(Items), SomeParts(rs, b, n)
    PROVE  SomeParts(rs, b \o (<<Part(rs[n])>> \o Data(rs[n])), n + 1)
<1> DEFINE d == <<Part(rs[n])>> \o Data(rs[n])
           c == b \o d
<1>1. PICK st : PartsAt(rs, b, st, n) /\ Len(b) = st[n] - 1
    BY DEF SomeParts
<1>2. /\ n \in Nat \ {0} /\ n \in 1..(Len(rs) + 1) /\ n \in 1..n /\ Len(rs) \in Nat
      /\ rs[n] \in Pairs
    OBVIOUS
<1> DEFINE a == rs[n][1]
           l == rs[n][2]
<1>3. /\ a \in Nat /\ l \in Nat
      /\ d \in Seq(Items) /\ Len(d) = 1 + l /\ d[1] = Part(rs[n])
      /\ \A k \in 1..l : d[1 + k] = Byte(a + k - 1)
    BY <1>2, PartType
<1> HIDE DEF d, a, l
<1>4. /\ c \in Seq(Items) /\ Len(c) = Len(b) + (1 + l) /\ Len(b) \in Nat
      /\ \A p \in 1..(Len(b) + (1 + l)) : c[p] = IF p <= Len(b) THEN b[p] ELSE d[p - Len(b)]
    <2>1. /\ c \in Seq(Items) /\ Len(c) = Len(b) + Len(d)
          /\ \A p \in 1..(Len(b) + Len(d)) : c[p] = IF p <= Len(b) THEN b[p] ELSE d[p - Len(b)]
        BY <1>3, ConcatProperties
    <2>2. Len(b) \in Nat
        OBVIOUS
    <2> HIDE DEF c
    <2> QED
        BY <1>3, <2>1, <2>2
<1> HIDE DEF c
<1>5. st \in [1..n -> Nat \ {0}] /\ st[n] \in Nat \ {0} /\ st[1] = 1
    BY <1>1, <1>2 DEF PartsAt
<1>6. \A p \in 1..(st[n] - 1) : c[p] = b[p]
    <2>1. \A p \in 1..Len(b) : p \in 1..(Len(b) + (1 + l)) /\ p <= Len(b)
        BY <1>3, <1>4
    <2>2. \A p \in 1..Len(b) : c[p] = b[p]
        BY <1>4, <2>1
    <2> QED
        BY <1>1, <2>2
<1>7. PartsAt(rs, c, st, n)
    BY <1>1, <1>2, <1>6, PartsStay
<1> DEFINE su == [i \in 1..(n + 1) |-> IF i <= n THEN st[i] ELSE st[n] + 1 + l]
<1>8. /\ su \in [1..(n + 1) -> Nat \ {0}]
      /\ su[n + 1] = st[n] + 1 + l
      /\ \A i \in 1..n : su[i] = st[i]
    <2>1. st[n] + 1 + l \in Nat \ {0}
        BY <1>3, <1>5
    <2>2. \A i \in 1..(n + 1) : i <= n => st[i] \in Nat \ {0}
        BY <1>2, <1>5
    <2>3. n + 1 \in 1..(n + 1) /\ ~(n + 1 <= n) /\ \A i \in 1..n : i \in 1..(n + 1) /\ i <= n
        BY <1>2
    <2> QED
        BY <2>1, <2>2, <2>3
<1> HIDE DEF su
<1>9. su[1] = 1
    <2>1. 1 \in 1..n
        BY <1>2
    <2> QED
        BY <1>5, <1>8, <2>1
<1>10. ASSUME NEW i \in 1..n
       PROVE  /\ su[i + 1] = su[i] + 1 + rs[i][2]
              /\ c[su[i]] = Part(rs[i])
              /\ \A k \in 1..rs[i][2] : c[su[i] + k] = Byte(rs[i][1] + k - 1)
    <2>1. CASE i < n
        <3>1. i \in 1..(n - 1) /\ i + 1 \in 1..n
            BY <1>2, <2>1
        <3>2. su[i] = st[i] /\ su[i + 1] = st[i + 1]
            BY <1>8, <3>1
        <3> QED
            BY <1>7, <3>1, <3>2 DEF PartsAt
    <2>2. CASE i = n
        <3>1. su[i] = st[n] /\ su[i + 1] = st[n] + 1 + l /\ st[n] = Len(b) + 1
            BY <1>1, <1>4, <1>5, <1>8, <2>2
        <3>2. /\ Len(b) + 1 \in 1..(Len(b) + (1 + l)) /\ ~(Len(b) + 1 <= Len(b))
              /\ Len(b) + 1 - Len(b) = 1
            BY <1>3, <1>4
        <3>3. c[Len(b) + 1] = Part(rs[n])
            BY <1>3, <1>4, <3>2
        <3>4. ASSUME NEW k \in 1..l PROVE c[Len(b) + 1 + k] = Byte(a + k - 1)
            <4>1. /\ Len(b) + 1 + k \in 1..(Len(b) + (1 + l)) /\ ~(Len(b) + 1 + k <= Len(b))
                  /\ Len(b) + 1 + k - Len(b) = 1 + k
                BY <1>3, <1>4
            <4> QED
                BY <1>3, <1>4, <4>1
        <3> QED
            BY <2>2, <3>1, <3>3, <3>4 DEF a, l
    <2> QED
        BY <1>2, <2>1, <2>2
<1>11. ASSUME NEW i \in 1..(n + 1), NEW j \in 1..(n + 1), i < j PROVE su[i] < su[j]
    <2>1. i \in 1..n /\ (j \in 1..n \/ j = n + 1)
        BY <1>2, <1>11
    <2>2. CASE j \in 1..n
        BY <1>8, <1>11, <1>7, <2>1, <2>2 DEF PartsAt
    <2>3. CASE j = n + 1
        <3>1. st[i] <= st[n] /\ st[i] \in Nat
            <4>1. i < n \/ i = n
                BY <1>2, <2>1
            <4>2. i < n => st[i] < st[n]
                BY <1>2, <1>7, <2>1 DEF PartsAt
            <4>3. st[i] \in Nat
                BY <1>5, <2>1
            <4> QED
                BY <1>5, <4>1, <4>2, <4>3
        <3>2. su[i] = st[i] /\ su[j] = st[n] + 1 + l
            BY <1>8, <2>1, <2>3
        <3>3. \A x, y, z \in Nat : x <= y => x < y + 1 + z
            OBVIOUS
        <3> QED
            BY <1>3, <1>5, <3>1, <3>2, <3>3
    <2> QED
        BY <2>1, <2>2, <2>3
<1>12. ASSUME NEW p \in 1..(su[n + 1] - 1)
       PROVE  \E i \in 1..n : su[i] <= p /\ p < su[i + 1]
    <2>1. p \in Nat \ {0} /\ p < st[n] + 1 + l
        <3>1. \A x \in Nat : \A q \in 1..(x - 1) : q \in Nat \ {0} /\ q < x
            OBVIOUS
        <3>2. su[n + 1] \in Nat /\ su[n + 1] = st[n] + 1 + l
            BY <1>3, <1>5, <1>8
        <3> QED
            BY <3>1, <3>2
    <2>2. CASE p < st[n]
        <3>1. PICK i \in 1..(n - 1) : st[i] <= p /\ p < st[i + 1]
            <4>1. p \in 1..(st[n] - 1)
                BY <1>5, <2>1, <2>2
            <4> QED
                BY <1>7, <4>1 DEF PartsAt
        <3>2. i \in 1..n /\ i + 1 \in 1..n
            BY <1>2
        <3> QED
            BY <1>8, <3>1, <3>2
    <2>3. CASE p >= st[n]
        <3>1. n \in 1..n /\ su[n] = st[n] /\ su[n + 1] = st[n] + 1 + l
            BY <1>2, <1>8
        <3> HIDE DEF su
        <3> QED
            BY <2>1, <2>3, <3>1
    <2>4. p < st[n] \/ p >= st[n]
        BY <1>5, <2>1
    <2> QED
        BY <2>2, <2>3, <2>4
<1>13. (n + 1) - 1 = n
    BY <1>2
<1>14. PartsAt(rs, c, su, n + 1)
    BY <1>8, <1>9, <1>10, <1>11, <1>12, <1>13 DEF PartsAt
<1>15. Len(c) = su[n + 1] - 1
    <2>1. /\ Len(c) = Len(b) + (1 + l) /\ Len(b) = st[n] - 1
          /\ su[n + 1] = st[n] + 1 + l
        BY <1>1, <1>4, <1>8
    <2>2. \A x, y \in Nat : (x - 1) + (1 + y) = (x + 1 + y) - 1
        OBVIOUS
    <2>3. st[n] \in Nat /\ l \in Nat
        BY <1>3, <1>5
    <2> QED
        BY <2>1, <2>2, <2>3
<1> QED
    BY <1>14, <1>15 DEF SomeParts, c, d

LEMMA PartsEnd ==
    ASSUME NEW rs \in Seq(Pairs), NEW b \in Seq(Items), SomeParts(rs, b, Len(rs) + 1)
    PROVE  AllParts(rs, b \o <<Trailer>>)
<1> DEFINE n == Len(rs) + 1
           z == <<Trailer>>
           c == b \o z
<1>1. PICK st : PartsAt(rs, b, st, n) /\ Len(b) = st[n] - 1
    BY DEF SomeParts
<1>2. n \in Nat /\ n \in 1..n
    OBVIOUS
<1>3. z \in Seq(Items) /\ Len(z) = 1 /\ z[1] = Trailer
    BY PiecesType
<1> HIDE DEF z
<1>4. /\ c \in Seq(Items) /\ Len(c) = Len(b) + 1 /\ Len(b) \in Nat
      /\ \A p \in 1..(Len(b) + 1) : c[p] = IF p <= Len(b) THEN b[p] ELSE z[p - Len(b)]
    <2>1. /\ c \in Seq(Items) /\ Len(c) = Len(b) + Len(z)
          /\ \A p \in 1..(Len(b) + Len(z)) : c[p] = IF p <= Len(b) THEN b[p] ELSE z[p - Len(b)]
        BY <1>3, ConcatProperties
    <2>2. Len(b) \in Nat
        OBVIOUS
    <2> HIDE DEF c
    <2> QED
        BY <1>3, <2>1, <2>2
<1> HIDE DEF c
<1>5. st[n] \in Nat \ {0}
    BY <1>1, <1>2 DEF PartsAt
<1>6. \A p \in 1..(st[n] - 1) : c[p] = b[p]
    BY <1>1, <1>4, <1>5
<1>7. PartsAt(rs, c, st, n)
    BY <1>1, <1>2, <1>6, PartsStay
<1>8. Len(c) = st[n]
    BY <1>1, <1>4, <1>5
<1>9. c[Len(c)] = Trailer
    <2>1. Len(b) + 1 \in 1..(Len(b) + 1) /\ ~(Len(b) + 1 <= Len(b)) /\ Len(b) + 1 - Len(b) = 1
        BY <1>4
    <2> QED
        BY <1>3, <1>4, <2>1
<1> QED
    BY <1>7, <1>8, <1>9 DEF AllParts, c, z

LEMMA PartsStart ==
    ASSUME NEW rs
    PROVE  SomeParts(rs, << >>, 1)
<1> DEFINE st == [i \in 1..1 |-> 1]
<1>1. st[1] = 1 /\ st \in [1..1 -> Nat \ {0}]
    OBVIOUS
<1>2. PartsAt(rs, << >>, st, 1)
    BY <1>1 DEF PartsAt
<1>3. Len(<< >>) = st[1] - 1
    BY <1>1
<1> QED
    BY <1>2, <1>3 DEF SomeParts

LEMMA PartsInvStep ==
    ASSUME TypeOK, RangesInv, PlaceInv, PartsInv, [Next]_vars
    PROVE  PartsInv'
<1>0. RangesTyped /\ UNCHANGED <<method, source>> /\ (pc # "head" => UNCHANGED ranges)
    BY RequestKept DEF RangesInv
<1>h. ASSUME UNCHANGED <<ranges, body, index, cut>>, ~failed' => ~failed,
             pc' \in {"parts", "trailer"} => pc = pc', Over' => Over
      PROVE  PartsInv'
    <2>1. InPieces' <=> InPieces
        BY <1>h, RangesKept
    <2>2. SomeParts(ranges, body, index)' <=> SomeParts(ranges, body, index)
        BY <1>h DEF SomeParts, PartsAt
    <2>3. AllParts(ranges, body)' <=> AllParts(ranges, body)
        BY <1>h DEF AllParts, PartsAt
    <2> QED
        BY <1>0, <1>h, <2>1, <2>2, <2>3 DEF PartsInv
<1>1. CASE SendHead
    <2>1. /\ body' = << >> /\ index' = 1
          /\ pc' = "finally" => method # "GET" \/ failed'
          /\ pc' # "ended"
        BY <1>1 DEF SendHead, AfterHead, AfterLoss, PlaceInv, streamVars
    <2>2. ~Over'
        BY <1>0, <2>1 DEF Over
    <2>3. SomeParts(ranges, body, index)'
        <3>1. SomeParts(ranges', body', index')
            BY <2>1, PartsStart
        <3> QED
            BY <3>1 DEF SomeParts
    <2> QED
        BY <2>2, <2>3 DEF PartsInv
<1>2. CASE SendWhole \/ WholeUnreadable
    <2>1. ~InPieces /\ UNCHANGED ranges /\ pc' \in {"finally", "hung"}
        BY <1>0, <1>2, WholeStep DEF SendWhole, WholeUnreadable, PlaceInv
    <2>2. ~InPieces'
        BY <2>1, RangesKept
    <2> QED
        BY <2>1, <2>2 DEF PartsInv
<1>3. CASE SendPart
    <2>0. failed' = TRUE \/ ~failed
        BY <1>0, <1>3, PartStep DEF TypeOK
    <2>1. /\ ~failed => SomeParts(ranges, body, index)
          /\ index \in DOMAIN ranges
          /\ MaxRange(ranges[index]) <= Size /\ body \in Seq(Items)
          /\ ranges \in Seq(Pairs) /\ DOMAIN ranges = 1..Len(ranges)
        <3>1. index \in DOMAIN ranges /\ MaxRange(ranges[index]) <= Size
            BY <1>0, <1>3, PartStep
        <3>2. ~failed => SomeParts(ranges, body, index)
            BY <1>3 DEF PartsInv, SendPart
        <3>3. ranges \in Seq(Pairs) /\ DOMAIN ranges = 1..Len(ranges) /\ body \in Seq(Items)
            BY <1>0 DEF TypeOK, RangesTyped
        <3> QED
            BY <3>1, <3>2, <3>3
    <2>2. ~failed => SomeParts(ranges, body \o (<<Part(ranges[index])>> \o Data(ranges[index])), index + 1)
        BY <2>1, PartsGrow
    <2>3. \/ failed' = TRUE
          \/ /\ index' = index + 1
             /\ pc' = IF index = Len(ranges) THEN "trailer" ELSE "parts"
             /\ body' = body \o (<<Part(ranges[index])>> \o Data(ranges[index]))
        BY <1>0, <1>3, PartStep
    <2>4. ranges' = ranges
        BY <1>0, <1>3, PartStep
    <2>5. CASE failed' = TRUE
        BY <2>5 DEF PartsInv, Over
    <2>6. CASE /\ ~failed /\ index' = index + 1
               /\ pc' = IF index = Len(ranges) THEN "trailer" ELSE "parts"
               /\ body' = body \o (<<Part(ranges[index])>> \o Data(ranges[index]))
        <3>1. SomeParts(ranges', body', index')
            BY <2>2, <2>4, <2>6
        <3>2. SomeParts(ranges, body, index)'
            BY <3>1 DEF SomeParts
        <3>3. ~Over'
            BY <2>6 DEF Over
        <3> QED
            BY <3>2, <3>3 DEF PartsInv
    <2> QED
        BY <2>0, <2>3, <2>5, <2>6
<1>4. CASE PartUnreadable
    <2>1. cut' /\ pc' \in {"finally", "hung"}
        BY <1>0, <1>4, PartUnreadableStep DEF PartUnreadable
    <2> QED
        BY <2>1 DEF PartsInv
<1>5. CASE SendTrailer
    <2>0. failed' = TRUE \/ ~failed
        BY <1>5, TrailerStep DEF TypeOK
    <2>1. /\ ~failed => SomeParts(ranges, body, index)
          /\ index = Len(ranges) + 1 /\ body \in Seq(Items)
          /\ ranges \in Seq(Pairs)
        BY <1>0, <1>5 DEF PartsInv, SendTrailer, PlaceInv, TypeOK, RangesTyped
    <2>2. ~failed => AllParts(ranges, body \o <<Trailer>>)
        BY <2>1, PartsEnd
    <2>3. /\ pc' \in {"finally", "hung"} /\ ranges' = ranges
          /\ failed' = TRUE \/ body' = body \o <<Trailer>>
        BY <1>5, TrailerStep
    <2>4. CASE failed' = TRUE
        BY <2>3, <2>4 DEF PartsInv, Over
    <2>5. CASE ~failed /\ body' = body \o <<Trailer>>
        <3>1. AllParts(ranges', body')
            BY <2>2, <2>3, <2>5
        <3>2. AllParts(ranges, body)'
            BY <3>1 DEF AllParts
        <3> QED
            BY <2>3, <3>2 DEF PartsInv
    <2> QED
        BY <2>0, <2>3, <2>4, <2>5
<1>6. ASSUME StreamStep PROVE PartsInv'
    <2>1. pc = "stream" /\ pc' \in {"stream", "finally", "hung"}
        <3>1. ASSUME NEW k \in 1..Chunk, StreamAll(k) 
              PROVE  pc = "stream" /\ pc' \in {"stream", "finally", "hung"}
            BY <3>1, AllStep DEF StreamAll
        <3>2. ASSUME NEW k \in 1..Chunk, StreamRange(k) 
              PROVE  pc = "stream" /\ pc' \in {"stream", "finally", "hung"}
            BY <1>0, <3>2, PickedStep DEF StreamRange
        <3> QED
            BY <1>6, <3>1, <3>2 DEF StreamStep, StreamSkip, StreamEnds, StreamError
    <2>2. source # "archive"
        BY <2>1 DEF PlaceInv, Writing
    <2> QED
        BY <1>0, <2>1, <2>2 DEF PartsInv
<1>7. CASE Finally
    BY <1>0, <1>7, <1>h DEF Finally, Over, streamVars
<1>8. CASE UNCHANGED vars
    BY <1>8, <1>h DEF vars, Over, streamVars, requestVars
<1> QED
    BY <1>1, <1>2, <1>3, <1>4, <1>5, <1>6, <1>7, <1>8 DEF Next, FileStep

-----------------------------------------------------------------------------
LEMMA RangeListed ==
    ASSUME NEW r \in Pairs
    PROVE  Lists(Data(r), Positions(r))
<1>1. PICK a, w \in 0..Size : r = <<a, w>>
    BY DEF Pairs
<1>2. Positions(r) = a..(a + w - 1)
    BY <1>1 DEF Positions, MaxRange
<1>3. Lists(Data(<<a, w>>), a..(a + w - 1))
    BY DataLists
<1> QED
    BY <1>1, <1>2, <1>3

(* As many values as an increasing sequence has members. *)
LEMMA IncreasingCount ==
    ASSUME NEW m \in Nat, NEW f \in [1..m -> Nat], \A i, j \in 1..m : i < j => f[i] < f[j]
    PROVE  Cardinality({f[i] : i \in 1..m}) = m
<1> DEFINE T == {f[i] : i \in 1..m}
<1>1. f \in Injection(1..m, T)
    <2>1. f \in [1..m -> T]
        OBVIOUS
    <2>2. ASSUME NEW i \in 1..m, NEW j \in 1..m, f[i] = f[j] PROVE i = j
        <3>1. f[i] \in Nat /\ f[j] \in Nat /\ ~(i < j) /\ ~(j < i)
            BY <2>2
        <3> QED
            BY <3>1
    <2> QED
        BY <2>1, <2>2 DEF Injection, IsInjective
<1>2. f \in Surjection(1..m, T)
    <2>1. f \in [1..m -> T]
        OBVIOUS
    <2>2. \A t \in T : \E i \in 1..m : f[i] = t
        OBVIOUS
    <2> QED
        BY <2>1, <2>2 DEF Surjection
<1>3. ExistsBijection(1..m, T)
    BY <1>1, <1>2 DEF ExistsBijection, Bijection
<1>4. IsFiniteSet(1..m) /\ Cardinality(1..m) = m
    <2>1. IsFiniteSet(1..m) /\ Cardinality(1..m) = IF 1 > m THEN 0 ELSE m - 1 + 1
        BY FS_Interval
    <2> QED
        BY <2>1
<1>5. Cardinality(T) = Cardinality(1..m)
    BY <1>3, <1>4, FS_Bijection
<1> QED
    BY <1>4, <1>5

(* A body of parts reads as the parts: a boundary for each range and one at *)
(* the end, and between two of them the bytes of the range.                 *)
BoundariesOf(b) == {i \in DOMAIN b : ~IsByte(b[i])}

ReadsAs(b, x, r) ==
    /\ b[x].kind = "part" /\ b[x].range = r
    /\ \E j \in BoundariesOf(b) :
           /\ j > x
           /\ BoundariesOf(b) \cap ((x + 1)..(j - 1)) = {}
           /\ Lists(SubSeq(b, x + 1, j - 1), Positions(r))

LEMMA PartsRead ==
    ASSUME NEW rs \in Seq(Pairs), NEW b \in Seq(Items), AllParts(rs, b),
           \A i \in DOMAIN rs : MaxRange(rs[i]) <= Size
    PROVE  /\ Cardinality(BoundariesOf(b)) = Len(rs) + 1
           /\ b[Len(b)] = Trailer
           /\ \A i \in DOMAIN rs :
                  \E x \in BoundariesOf(b) :
                      /\ Cardinality({a \in BoundariesOf(b) : a < x}) = i - 1
                      /\ ReadsAs(b, x, rs[i])
<1> DEFINE n == Len(rs) + 1
           B == BoundariesOf(b)
<1>1. PICK st : PartsAt(rs, b, st, n) /\ Len(b) = st[n] /\ b[Len(b)] = Trailer
    BY DEF AllParts
<1>2. n \in Nat /\ n \in 1..n /\ Len(rs) \in Nat /\ DOMAIN rs = 1..(n - 1)
      /\ DOMAIN b = 1..Len(b) /\ Len(b) \in Nat
    OBVIOUS
<1>3. /\ st \in [1..n -> Nat \ {0}]
      /\ \A i \in 1..(n - 1) :
             /\ st[i + 1] = st[i] + 1 + rs[i][2]
             /\ b[st[i]] = Part(rs[i])
             /\ \A k \in 1..rs[i][2] : b[st[i] + k] = Byte(rs[i][1] + k - 1)
      /\ \A i, j \in 1..n : i < j => st[i] < st[j]
      /\ \A p \in 1..(st[n] - 1) : \E i \in 1..(n - 1) : st[i] <= p /\ p < st[i + 1]
    BY <1>1 DEF PartsAt
<1>4. ASSUME NEW i \in 1..(n - 1)
      PROVE  /\ i \in 1..n /\ i + 1 \in 1..n /\ st[i] \in Nat \ {0}
             /\ rs[i][1] \in Nat /\ rs[i][2] \in Nat /\ st[i] + rs[i][2] <= st[n] - 1
    <2>1. n \in 1..(Len(rs) + 1) /\ \A p \in 1..(st[n] - 1) : b[p] = b[p]
        BY <1>2
    <2>2. /\ \A j \in 1..n : st[j] \in Nat \ {0}
          /\ \A j \in 1..(n - 1) : /\ j \in 1..n /\ j + 1 \in 1..n /\ j \in DOMAIN rs
                                    /\ rs[j][1] \in Nat /\ rs[j][2] \in Nat
                                    /\ st[j] + rs[j][2] <= st[n] - 1
        BY <1>1, <2>1, PartsStay
    <2> QED
        BY <2>2
<1>5. st[n] \in Nat \ {0}
    BY <1>2, <1>3
<1>6. ASSUME NEW i \in 1..n PROVE st[i] \in B /\ st[i] <= Len(b)
    <2>1. CASE i = n
        <3>1. b[st[n]].kind = "trailer" /\ st[n] \in DOMAIN b
            BY <1>1, <1>2, <1>5, PiecesType
        <3> QED
            BY <1>1, <1>5, <2>1, <3>1 DEF BoundariesOf, IsByte
    <2>2. CASE i # n
        <3>1. i \in 1..(n - 1)
            BY <1>2, <2>2
        <3>2. st[i] \in Nat \ {0} /\ rs[i][2] \in Nat /\ st[i] + rs[i][2] <= st[n] - 1
            BY <1>4, <3>1
        <3>3. st[i] <= st[n] /\ st[i] \in 1..Len(b)
            <4>1. \A x \in Nat \ {0}, y \in Nat, z \in Nat : x + y <= z - 1 => x <= z /\ x \in 1..z
                OBVIOUS
            <4> QED
                BY <1>1, <1>5, <3>2, <4>1
        <3>4. b[st[i]] = Part(rs[i])
            BY <1>3, <3>1
        <3>5. b[st[i]].kind = "part"
            BY <3>4 DEF Part
        <3> QED
            BY <1>1, <1>2, <3>3, <3>5 DEF BoundariesOf, IsByte
    <2> QED
        BY <2>1, <2>2
<1>7. ASSUME NEW i \in 1..(n - 1), NEW k \in 1..rs[i][2]
      PROVE  st[i] + k \notin B
    <2>1. b[st[i] + k] = Byte(rs[i][1] + k - 1)
        BY <1>3
    <2> QED
        BY <2>1 DEF BoundariesOf, IsByte, Byte
<1>8. ASSUME NEW p \in B PROVE \E i \in 1..n : p = st[i]
    <2>1. p \in 1..Len(b) /\ p \in Nat
        BY <1>2 DEF BoundariesOf
    <2>2. CASE p = st[n]
        BY <1>2, <2>2
    <2>3. CASE p # st[n]
        <3>1. p \in 1..(st[n] - 1)
            BY <1>1, <1>2, <2>1, <2>3
        <3>2. PICK i \in 1..(n - 1) : st[i] <= p /\ p < st[i + 1]
            BY <1>3, <3>1
        <3>3. /\ i \in 1..n /\ st[i] \in Nat \ {0} /\ rs[i][2] \in Nat
              /\ st[i + 1] = st[i] + 1 + rs[i][2]
            BY <1>3, <1>4
        <3>4. p = st[i] \/ (p - st[i] \in 1..rs[i][2] /\ p = st[i] + (p - st[i]))
            <4>1. \A x, y, w, z \in Nat : x <= y /\ y < z /\ z = x + 1 + w
                      => y = x \/ (y - x \in 1..w /\ y = x + (y - x))
                OBVIOUS
            <4>2. st[i + 1] \in Nat
                BY <3>3
            <4> QED
                BY <2>1, <3>2, <3>3, <4>1, <4>2
        <3> QED
            BY <1>7, <3>3, <3>4
    <2> QED
        BY <2>2, <2>3
<1> HIDE DEF B
<1>9. Cardinality(B) = n
    <2>1. B = {st[i] : i \in 1..n}
        BY <1>6, <1>8
    <2>2. st \in [1..n -> Nat]
        BY <1>3
    <2>3. Cardinality({st[i] : i \in 1..n}) = n
        BY <1>2, <1>3, <2>2, IncreasingCount
    <2> QED
        BY <2>1, <2>3
<1>10. ASSUME NEW i \in 1..(n - 1)
       PROVE  \E x \in B : Cardinality({a \in B : a < x}) = i - 1 /\ ReadsAs(b, x, rs[i])
    <2> DEFINE x == st[i]
               z == st[i + 1]
               l == rs[i][2]
               f == [j \in 1..(i - 1) |-> st[j]]
               s == SubSeq(b, x + 1, z - 1)
    <2>1. /\ i \in 1..n /\ i + 1 \in 1..n /\ x \in Nat \ {0} /\ rs[i][1] \in Nat /\ l \in Nat
          /\ z = x + 1 + l /\ x \in B /\ z \in B /\ z <= Len(b)
        BY <1>3, <1>4, <1>6
    <2>2. Cardinality({a \in B : a < x}) = i - 1
        <3>1. i - 1 \in Nat /\ \A j \in 1..(i - 1) : j \in 1..n /\ j < i
            BY <1>2
        <3>2. f \in [1..(i - 1) -> Nat] /\ \A j \in 1..(i - 1) : f[j] = st[j]
            BY <1>3, <3>1
        <3>3. \A j, k \in 1..(i - 1) : j < k => f[j] < f[k]
            BY <1>3, <3>1, <3>2
        <3>4. {a \in B : a < x} = {f[j] : j \in 1..(i - 1)}
            <4> HIDE DEF f
            <4>1. ASSUME NEW j \in 1..(i - 1) PROVE f[j] \in B /\ f[j] < x
                BY <1>3, <1>6, <2>1, <3>1, <3>2
            <4>2. ASSUME NEW a \in B, a < x PROVE \E j \in 1..(i - 1) : a = f[j]
                <5>1. PICK j \in 1..n : a = st[j]
                    BY <1>8
                <5>2. ~(i < j) /\ j # i
                    <6>1. i < j => st[i] < st[j]
                        BY <1>3, <2>1
                    <6>2. st[j] \in Nat /\ x \in Nat
                        BY <1>3, <2>1
                    <6> QED
                        BY <4>2, <5>1, <6>1, <6>2
                <5>3. j \in 1..(i - 1)
                    BY <1>2, <5>2
                <5> QED
                    BY <3>2, <5>1, <5>3
            <4> QED
                BY <4>1, <4>2
        <3>5. Cardinality({f[j] : j \in 1..(i - 1)}) = i - 1
            <4> HIDE DEF f
            <4> QED
                BY <3>1, <3>2, <3>3, IncreasingCount
        <3> QED
            BY <3>4, <3>5
    <2>3. B \cap ((x + 1)..(z - 1)) = {}
        <3> SUFFICES ASSUME NEW p \in (x + 1)..(z - 1) PROVE p \notin B
            OBVIOUS
        <3>1. ASSUME NEW xx \in Nat, NEW zz, NEW ll \in Nat, zz = xx + 1 + ll,
                     NEW pp \in (xx + 1)..(zz - 1)
              PROVE  pp - xx \in 1..ll /\ pp = xx + (pp - xx)
            BY <3>1
        <3>2. p - x \in 1..l /\ p = x + (p - x)
            <4> HIDE DEF x, z, l
            <4> QED
                BY <2>1, <3>1
        <3> QED
            BY <1>7, <3>2
    <2>4. b[x].kind = "part" /\ b[x].range = rs[i]
        <3>1. b[x] = Part(rs[i])
            BY <1>3
        <3> HIDE DEF x
        <3> QED
            BY <3>1 DEF Part
    <2>5. rs[i] \in Pairs /\ MaxRange(rs[i]) <= Size
        BY <1>2
    <2>6. /\ Data(rs[i]) \in Seq(Items) /\ Len(Data(rs[i])) = l
          /\ \A k \in 1..l : Data(rs[i])[k] = Byte(rs[i][1] + k - 1)
        BY <2>5, PartType
    <2>7. s \in Seq(Items) /\ Len(s) = l /\ \A k \in 1..l : s[k] = b[x + k]
        <3> HIDE DEF x, z, l
        <3>1. x + 1 \in 1..(Len(b) + 1) /\ z - 1 \in x..Len(b) /\ (z - 1) - (x + 1) + 1 = l
            BY <1>2, <2>1
        <3>2. s = [k \in 1..l |-> b[x + k]]
            BY <1>2, <2>1, <3>1
        <3>3. \A k \in 1..l : b[x + k] \in Items
            <4>1. \A k \in 1..l : x + k \in 1..Len(b)
                BY <1>2, <2>1
            <4> QED
                BY <1>2, <4>1
        <3> HIDE DEF s
        <3>4. l \in Nat
            BY <2>1
        <3>5. s \in [1..l -> Items]
            BY <3>2, <3>3
        <3>6. s \in Seq(Items) /\ Len(s) = l
            BY <3>4, <3>5
        <3> QED
            BY <3>2, <3>6
    <2>8. s = Data(rs[i])
        <3>1. \A k \in 1..l : s[k] = Data(rs[i])[k]
            BY <1>3, <2>6, <2>7
        <3> HIDE DEF s, l
        <3> QED
            BY <2>6, <2>7, <3>1, SeqEqual
    <2>9. Lists(s, Positions(rs[i]))
        <3> HIDE DEF s
        <3>1. Lists(Data(rs[i]), Positions(rs[i]))
            BY <2>5, RangeListed
        <3> QED
            BY <2>8, <3>1
    <2>10. z > x
        BY <2>1
    <2>11. ReadsAs(b, x, rs[i])
        BY <2>1, <2>3, <2>4, <2>9, <2>10 DEF ReadsAs, B
    <2> QED
        BY <2>1, <2>2, <2>11
<1> QED
    BY <1>1, <1>2, <1>9, <1>10 DEF B

-----------------------------------------------------------------------------
(* A header is honoured when its ranges were taken, and they are then the   *)
(* bytes it means.                                                          *)
LEMMA HonouredRanges ==
    ASSUME TypeOK, RangesInv
    PROVE  /\ Honoured <=> ranges # << >>
           /\ source = "archive" /\ ranges # << >> =>
                  /\ Len(ranges) = Len(header) /\ DOMAIN header = DOMAIN ranges
                  /\ \A i \in DOMAIN header : Positions(ranges[i]) = Asked(header[i])
                  /\ AskedBytes = Ordered
           /\ ranges # << >> => Ordered \subseteq AskedBytes
<1>1. header \in Headers /\ source \in Sources
    BY DEF TypeOK
<1>2. /\ header \in Seq(Components)
      /\ Parsed(header) \in Seq(Pairs)
      /\ Parsed(header) # << >> <=> header # << >> /\ \A i \in DOMAIN header : WithinItem(header[i])
      /\ Parsed(header) # << >> =>
             /\ Len(Parsed(header)) = Len(header)
             /\ \A i \in DOMAIN header : Positions(Parsed(header)[i]) = Asked(header[i])
    BY <1>1, HeaderParsed
<1>3. ranges # << >> <=> source # "bundle" /\ Parsed(header) # << >>
    BY <1>1 DEF RangesInv, Sources
<1>4. Honoured <=> ranges # << >>
    BY <1>2, <1>3 DEF Honoured
<1>5. DOMAIN header = 1..Len(header) /\ DOMAIN Parsed(header) = 1..Len(Parsed(header))
    BY <1>2
<1>6. ASSUME source = "archive", ranges # << >>
      PROVE  /\ Len(ranges) = Len(header) /\ DOMAIN header = DOMAIN ranges
             /\ \A i \in DOMAIN header : Positions(ranges[i]) = Asked(header[i])
             /\ AskedBytes = Ordered
    <2>1. ranges = Parsed(header)
        BY <1>6 DEF RangesInv
    <2>2. /\ Len(ranges) = Len(header) /\ DOMAIN header = DOMAIN ranges
          /\ \A i \in DOMAIN header : Positions(ranges[i]) = Asked(header[i])
        BY <1>2, <1>5, <1>6, <2>1
    <2>3. \A p : p \in AskedBytes <=> \E i \in DOMAIN header : p \in Asked(header[i])
        BY DEF AskedBytes
    <2>4. \A p : p \in Ordered <=> \E i \in DOMAIN ranges : p \in Positions(ranges[i])
        BY DEF Ordered
    <2>5. AskedBytes = Ordered
        BY <2>2, <2>3, <2>4
    <2> QED
        BY <2>2, <2>5
<1>7. ASSUME ranges # << >>
      PROVE  Ordered \subseteq AskedBytes
    <2>1. \A i \in DOMAIN ranges : \E j \in DOMAIN header : Positions(ranges[i]) = Asked(header[j])
        <3>1. source \in {"archive", "stream"} /\ Parsed(header) # << >>
            BY <1>1, <1>3, <1>7 DEF Sources
        <3>2. \A i \in DOMAIN ranges : \E j \in DOMAIN Parsed(header) : ranges[i] = Parsed(header)[j]
            BY <3>1 DEF RangesInv
        <3> QED
            BY <1>2, <1>5, <3>1, <3>2
    <2> QED
        BY <2>1 DEF Ordered, AskedBytes
<1> QED
    BY <1>4, <1>6, <1>7

LEMMA ResponseInit == Init => ResponseInv
<1> SUFFICES ASSUME Init PROVE ResponseInv
    OBVIOUS
<1> USE DEF Init
<1>1. header \in Headers
    OBVIOUS
<1>2. /\ Parsed(header) \in Seq(Pairs)
      /\ \A i \in DOMAIN Parsed(header) : MaxRange(Parsed(header)[i]) <= Size
    BY <1>1, HeaderParsed
<1>3. RangesTyped
    <2>1. CASE source = "bundle"
        BY <2>1 DEF RangesTyped
    <2>2. CASE source # "bundle"
        BY <1>2, <2>2 DEF RangesTyped
    <2> QED
        BY <2>1, <2>2
<1>4. RangesInv
    BY <1>3 DEF RangesInv
<1>5. TypeOK
    <2>1. ranges \in Seq((0..Size) \X (0..Size)) /\ Len(ranges) \in Nat
        BY <1>3 DEF RangesTyped, Pairs
    <2>2. body \in Seq(Items) /\ offset \in 0..Size /\ index \in 1..(Len(ranges) + 1)
        BY <2>1, SizesAssumption
    <2> QED
        BY <2>1, <2>2 DEF TypeOK
<1>6. PlaceInv
    BY DEF PlaceInv, Writing
<1>7. WholeInv
    <2>1. Data(<<0, 0>>) = << >>
        <3>1. 0 \in Nat /\ 0 + 0 <= Size
            BY SizesAssumption
        <3>2. Data(<<0, 0>>) \in Seq(Items) /\ Len(Data(<<0, 0>>)) = 0
            BY <3>1, DataOf
        <3> QED
            BY <3>2, EmptySeq
    <2> QED
        BY <2>1 DEF WholeInv, Over
<1>8. PartsInv /\ PickedInv
    BY DEF PartsInv, PickedInv, Over
<1> QED
    BY <1>4, <1>5, <1>6, <1>7, <1>8 DEF ResponseInv

LEMMA ResponseInductive == Spec => []ResponseInv
<1>1. ResponseInv /\ [Next]_vars => ResponseInv'
    BY TypeStep, RangesStep, PlaceStep, WholeInvStep, PartsInvStep, PickedInvStep DEF ResponseInv
<1> QED
    BY ResponseInit, <1>1, PTL DEF Spec

-----------------------------------------------------------------------------
(* The state of an operation has its types. *)
THEOREM ResponseTypes == Spec => []TypeOK
BY ResponseInductive, PTL DEF ResponseInv

(* A response that carries one piece: what it is and how long it was said   *)
(* to be.                                                                   *)
LEMMA WholeRead ==
    ASSUME ResponseInv, pc = "ended", method = "GET", ~failed, ~cut, source # "stream", ~InPieces
    PROVE  /\ body \in Seq(Items) /\ Len(body) = ContentLength /\ ContentLength \in Nat
           /\ head = <<Status, ContentLength>>
           /\ ranges = << >> => Lists(body, 0..(Size - 1))
           /\ ranges # << >> => Lists(body, Ordered)
<1>1. RangesTyped /\ source \in {"archive", "bundle"} /\ Over /\ body \in Seq(Items)
    BY DEF ResponseInv, RangesInv, TypeOK, Sources, Over
<1>2. head = <<Status, ContentLength>>
    BY DEF ResponseInv, PlaceInv
<1>3. CASE ranges = << >>
    <2>1. body = Data(<<0, Size>>)
        <3>1. CASE source = "bundle"
            BY <1>1, <3>1 DEF ResponseInv, WholeInv
        <3>2. CASE source = "archive"
            BY <1>1, <1>3, <3>2 DEF ResponseInv, WholeInv, ResponseRange
        <3> QED
            BY <1>1, <3>1, <3>2
    <2>2. Len(body) = Size /\ Lists(body, 0..(0 + Size - 1))
        BY <2>1, SizesAssumption, DataOf, DataLists
    <2>3. 0 + Size - 1 = Size - 1 /\ ContentLength = Size /\ Size \in Nat
        BY <1>3, SizesAssumption DEF ContentLength
    <2> QED
        BY <1>1, <1>2, <1>3, <2>2, <2>3
<1>4. CASE ranges # << >>
    <2>1. IsSingleRange /\ source = "archive"
        BY <1>1, <1>4 DEF InPieces, ResponseInv, RangesInv
    <2>2. PICK lo, n \in 0..Size :
              lo + n <= Size /\ Ordered = lo..(lo + n - 1) /\ n = Cardinality(Ordered)
              /\ ResponseRange = <<lo, n>>
        BY <1>1, <1>4, <2>1, SingleIsInterval
    <2>3. body = Data(<<lo, n>>)
        BY <1>1, <2>1, <2>2 DEF ResponseInv, WholeInv
    <2>4. Len(body) = n /\ Lists(body, lo..(lo + n - 1))
        BY <2>3, DataOf, DataLists
    <2>5. ContentLength = n
        BY <1>4, <2>1, <2>2 DEF ContentLength
    <2> QED
        BY <1>1, <1>2, <1>4, <2>2, <2>4, <2>5
<1> QED
    BY <1>3, <1>4

LEMMA PiecesRead ==
    ASSUME ResponseInv, pc = "ended", method = "GET", ~failed, source = "archive", InPieces
    PROVE  /\ head = <<206, None>>
           /\ ~cut => AllParts(ranges, body)
<1>1. head = <<Status, ContentLength>>
    BY DEF ResponseInv, PlaceInv
<1>2. Status = 206 /\ ContentLength = None
    BY DEF InPieces, Status, ContentLength
<1> QED
    BY <1>1, <1>2 DEF ResponseInv, PartsInv, Over

(* Content-Length is what the body has whenever the connection to the       *)
(* client is kept after a resource of the package.                          *)
THEOREM LengthIsHonest == Spec => []LengthHonest
<1>1. ResponseInv => LengthHonest
    <2> SUFFICES ASSUME ResponseInv, pc = "ended", method = "GET", source = "archive",
                        connected, ~failed
                 PROVE  head[2] \in {None, Len(body)}
        BY DEF LengthHonest
    <2>1. CASE InPieces
        BY <2>1, PiecesRead
    <2>2. CASE ~InPieces
        <3>1. ~cut
            <4>1. connected = ~(forceClose \/ closing) /\ cut \in BOOLEAN /\ forceClose \in BOOLEAN
                BY DEF ResponseInv, PlaceInv, TypeOK
            <4>2. cut => forceClose
                BY <2>2 DEF ResponseInv, WholeInv
            <4> QED
                BY <4>1, <4>2
        <3> QED
            BY <2>2, <3>1, WholeRead
    <2> QED
        BY <2>1, <2>2
<1> QED
    BY ResponseInductive, <1>1, PTL

(* A response that was not cut short carries what was asked for. *)
THEOREM BodyIsWhatWasAsked == Spec => []BodyIsAsked
<1>1. ResponseInv => BodyIsAsked
    <2> SUFFICES ASSUME ResponseInv, Complete, source # "stream"
                 PROVE  CASE ~Honoured -> head[1] = 200 /\ Lists(body, 0..(Size - 1))
                          [] Honoured /\ head[2] # None -> head[1] = 206 /\ Lists(body, AskedBytes)
                          [] OTHER ->
                                /\ head[1] = 206
                                /\ Cardinality(Boundaries) = Len(header) + 1
                                /\ \A i \in DOMAIN header :
                                       \E b \in Boundaries :
                                           /\ Cardinality({a \in Boundaries : a < b}) = i - 1
                                           /\ IsPart(header[i], b)
                                /\ body[Len(body)] = Trailer
        BY DEF BodyIsAsked
    <2>1. pc = "ended" /\ method = "GET" /\ ~failed /\ ~cut
        BY DEF Complete
    <2>2. /\ Honoured <=> ranges # << >>
          /\ source = "archive" /\ ranges # << >> =>
                 /\ Len(ranges) = Len(header) /\ DOMAIN header = DOMAIN ranges
                 /\ \A i \in DOMAIN header : Positions(ranges[i]) = Asked(header[i])
                 /\ AskedBytes = Ordered
        BY HonouredRanges DEF ResponseInv
    <2>3. ranges # << >> => source = "archive"
        BY DEF ResponseInv, TypeOK, Sources, RangesInv
    <2>4. CASE ~Honoured
        <3>1. ranges = << >> /\ ~InPieces
            BY <2>2, <2>4 DEF InPieces
        <3>2. head = <<Status, ContentLength>> /\ Lists(body, 0..(Size - 1))
            BY <2>1, <3>1, WholeRead
        <3>3. head[1] = 200
            BY <3>1, <3>2 DEF Status
        <3> QED
            BY <2>4, <3>2, <3>3
    <2>5. CASE Honoured /\ ~InPieces
        <3>1. ranges # << >> /\ AskedBytes = Ordered
            BY <2>2, <2>3, <2>5
        <3>2. head = <<Status, ContentLength>> /\ ContentLength \in Nat /\ Lists(body, Ordered)
            BY <2>1, <2>5, <3>1, WholeRead
        <3>3. head[1] = 206 /\ head[2] # None
            BY <3>1, <3>2, SizesAssumption DEF Status
        <3>4. Lists(body, AskedBytes)
            BY <3>1, <3>2
        <3> QED
            BY <2>5, <3>3, <3>4
    <2>6. CASE Honoured /\ InPieces
        <3>1. source = "archive" /\ ranges # << >>
            BY <2>2, <2>3, <2>6
        <3>2. head[1] = 206 /\ head[2] = None
            BY <2>1, <2>6, <3>1, PiecesRead
        <3>3. AllParts(ranges, body)
            BY <2>1, <2>6, <3>1, PiecesRead
        <3>4. /\ ranges \in Seq(Pairs) /\ body \in Seq(Items)
              /\ \A i \in DOMAIN ranges : MaxRange(ranges[i]) <= Size
            BY DEF ResponseInv, TypeOK, RangesInv, RangesTyped
        <3>5. /\ Cardinality(BoundariesOf(body)) = Len(ranges) + 1
              /\ body[Len(body)] = Trailer
              /\ \A i \in DOMAIN ranges :
                     \E x \in BoundariesOf(body) :
                         /\ Cardinality({a \in BoundariesOf(body) : a < x}) = i - 1
                         /\ ReadsAs(body, x, ranges[i])
            BY <3>3, <3>4, PartsRead
        <3>6. BoundariesOf(body) = Boundaries
            BY DEF BoundariesOf, Boundaries
        <3>7. ASSUME NEW i \in DOMAIN header
              PROVE  \E b \in Boundaries :
                         /\ Cardinality({a \in Boundaries : a < b}) = i - 1
                         /\ IsPart(header[i], b)
            <4>1. i \in DOMAIN ranges /\ Positions(ranges[i]) = Asked(header[i])
                BY <2>2, <3>1
            <4>2. PICK x \in Boundaries :
                      /\ Cardinality({a \in Boundaries : a < x}) = i - 1
                      /\ ReadsAs(body, x, ranges[i])
                BY <3>5, <3>6, <4>1
            <4>3. IsPart(header[i], x)
                BY <3>6, <4>1, <4>2 DEF ReadsAs, IsPart
            <4> QED
                BY <4>2, <4>3
        <3>8. Len(header) = Len(ranges)
            BY <2>2, <3>1
        <3> QED
            BY <2>6, <3>2, <3>5, <3>6, <3>7, <3>8
    <2> QED
        BY <2>4, <2>5, <2>6
<1> QED
    BY ResponseInductive, <1>1, PTL

(* Whatever pieces a stream delivers and wherever it fails, no byte is sent *)
(* that was not asked for, and none twice.                                  *)
THEOREM OnlyAskedIsPicked == Spec => []StreamedOnlyAsked
<1>1. ResponseInv => StreamedOnlyAsked
    <2> SUFFICES ASSUME ResponseInv, source = "stream", Honoured
                 PROVE  /\ \A i \in DOMAIN body : IsByte(body[i]) => body[i].at \in AskedBytes
                        /\ \A i, j \in DOMAIN body :
                               i < j /\ IsByte(body[i]) /\ IsByte(body[j])
                                   => body[i].at < body[j].at
        BY DEF StreamedOnlyAsked
    <2>1. ranges # << >> /\ Ordered \subseteq AskedBytes
        BY HonouredRanges DEF ResponseInv
    <2> QED
        BY <2>1 DEF ResponseInv, PickedInv
<1> QED
    BY ResponseInductive, <1>1, PTL
=============================================================================
