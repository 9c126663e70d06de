------------------------- MODULE ClosestPointProofs -------------------------
(***************************************************************************)
(* Proofs about WayCompression and ClosestPoint, for lines of any number   *)
(* of points, any rounding with a bounded error, and any projection.       *)
(***************************************************************************)
EXTENDS ClosestPoint, SequenceLemmas

LEMMA LineFacts ==
  ASSUME NEW line \in Lines
  PROVE  /\ Len(line) \in Nat /\ Len(line) >= 2
         /\ \A k \in 1..Len(line) : line[k] \in Location
  <1>1. line \in Seq(Location) /\ Len(line) >= 2
    BY LinesAssumption
  <1> QED
    BY <1>1, ElementOfSeq, LenProperties

(* A point that is off by one rounding leads to one that is.               *)
LEMMA OneRounding ==
  ASSUME NEW from \in Place, NEW a \in Location, NEW b \in Location, Near(from, a)
  PROVE  /\ Delta(from, b) \in Place
         /\ Moved(from, Delta(from, b)) \in Place
         /\ Near(Moved(from, Delta(from, b)), b)
  <1>1. /\ from.lat \in Int /\ from.lon \in Int
        /\ a.lat \in 0..Width /\ a.lon \in 0..Width
        /\ b.lat \in 0..Width /\ b.lon \in 0..Width
        /\ Width \in Nat /\ Err \in Nat
    BY WidthAssumption DEF Place, Location
  <1>2. b.lat - from.lat \in Differences /\ b.lon - from.lon \in Differences
    BY <1>1 DEF Near, Differences
  <1>3. /\ Float(b.lat - from.lat) \in Int
        /\ Float(b.lat - from.lat) - (b.lat - from.lat) \in -Err..Err
        /\ Float(b.lon - from.lon) \in Int
        /\ Float(b.lon - from.lon) - (b.lon - from.lon) \in -Err..Err
    BY <1>2, FloatAssumption
  <1>4. Delta(from, b) = [lat |-> Float(b.lat - from.lat), lon |-> Float(b.lon - from.lon)]
    BY DEF Delta
  <1>5. Moved(from, Delta(from, b)) = [lat |-> from.lat + Float(b.lat - from.lat),
                                       lon |-> from.lon + Float(b.lon - from.lon)]
    BY <1>4 DEF Moved
  <1> QED
    BY <1>1, <1>3, <1>4, <1>5 DEF Place, Near

LEMMA NearReaches ==
  ASSUME NEW p \in Place, NEW a \in Location, Near(p, a) PROVE p \in Reachable
  <1>1. /\ p.lat \in Int /\ p.lon \in Int /\ p = [lat |-> p.lat, lon |-> p.lon]
        /\ a.lat \in 0..Width /\ a.lon \in 0..Width
    BY DEF Place, Location
  <1>2. p.lat \in -Err..(Width + Err) /\ p.lon \in -Err..(Width + Err)
    BY <1>1, WidthAssumption DEF Near
  <1> QED
    BY <1>1, <1>2 DEF Reachable

LEMMA LocationReaches ==
  ASSUME NEW a \in Location PROVE a \in Place /\ a \in Reachable /\ Near(a, a)
  <1>1. a \in Place /\ Near(a, a)
    BY WidthAssumption DEF Location, Place, Near
  <1> QED
    BY <1>1, NearReaches

-----------------------------------------------------------------------------
(* The two loops meet in the places the differences lead to: s[k] is where *)
(* the first k of the differences ds lead, close to the line's next point. *)
Leads(s, n, line, ds) ==
    /\ s \in [0..n -> Place]
    /\ s[0] = line[1]
    /\ \A k \in 1..n : s[k] = Moved(s[k - 1], ds[k]) /\ Near(s[k], line[k + 1])

Inner == IF num_points >= 2 THEN num_points - 2 ELSE 0

WayInv ==
    /\ way \in Lines
    /\ first = way[1]
    /\ num_points \in Nat
    /\ pc # "new" => /\ num_points <= Len(way)
                     /\ Len(way) < ShortSize => num_points = Len(way)
                     /\ num_points < ShortSize

Compressing ==
    /\ i \in 1..(Inner + 1)
    /\ deltas \in Seq(Place)
    /\ Len(deltas) = i - 1
    /\ sum \in Place
    /\ Near(sum, way[i])
    /\ \E s : Leads(s, i - 1, way, deltas) /\ s[i - 1] = sum

Compressed ==
    /\ deltas \in Seq(Place)
    /\ Len(deltas) = Inner
    /\ last \in Reachable
    /\ num_points > 0 => last = way[num_points]
    /\ \E s : Leads(s, Inner, way, deltas)

Uncompressing ==
    /\ i \in 0..Inner
    /\ deltas \in Seq(Place)
    /\ Len(deltas) = Inner
    /\ last \in Reachable
    /\ num_points > 0 => last = way[num_points]
    /\ \E s : Leads(s, Inner, way, deltas) /\ prev = s[i]
    /\ linestring \in Seq(Reachable)
    /\ Len(linestring) = i + 1
    /\ linestring[1] = way[1]
    /\ \A k \in 2..(i + 1) : Near(linestring[k], way[k])

Uncompressed ==
    /\ linestring \in Seq(Reachable)
    /\ Len(linestring) = Inner + 2
    /\ linestring[1] = way[1]
    /\ \A k \in 2..(Inner + 1) : Near(linestring[k], way[k])
    /\ num_points > 0 => linestring[Inner + 2] = way[num_points]

AfterUncompress == {"uncompressed", "nodes", "before", "after", "done"}

CompressionInv ==
    /\ pc \in {"new", "compress", "compressed", "uncompress"} \union AfterUncompress
    /\ WayInv
    /\ pc = "new" => deltas = <<>>
    /\ pc = "compress"   => Compressing
    /\ pc = "compressed" => Compressed
    /\ pc = "uncompress" => Uncompressing
    /\ pc \in AfterUncompress => Uncompressed

-----------------------------------------------------------------------------
LEMMA InitComp == Init => CompressionInv
  BY DEF Init, CompressionInit, CompressionInv, WayInv, AfterUncompress

LEMMA BeginCompress == ASSUME CompressionInv, begin_constructor PROVE CompressionInv'
  <1>1. /\ Len(way) \in Nat /\ Len(way) >= 2 /\ way[1] \in Location
        /\ ShortSize \in Nat \ {0}
    BY LineFacts, WidthAssumption DEF CompressionInv, WayInv
  <1>2. /\ num_points' = Len(way) % ShortSize
        /\ way' = way /\ first' = way[1] /\ sum' = way[1] /\ i' = 1 /\ pc' = "compress"
        /\ deltas' = <<>>
    BY DEF begin_constructor, CompressionInv
  <1>3. WayInv'
    <2>1. /\ num_points' \in Nat
          /\ num_points' <= Len(way)
          /\ Len(way) < ShortSize => num_points' = Len(way)
          /\ num_points' < ShortSize
      BY <1>1, <1>2
    <2> QED
      BY <1>2, <2>1 DEF CompressionInv, WayInv
  <1>4. way[1] \in Place /\ Near(way[1], way[1])
    BY <1>1, LocationReaches
  <1>5. Inner' \in Nat
    <2>1. num_points' \in Nat
      BY <1>3 DEF WayInv
    <2>2. \A n \in Nat : (IF n >= 2 THEN n - 2 ELSE 0) \in Nat
      OBVIOUS
    <2> QED
      BY <2>1, <2>2 DEF Inner
  <1>6. \E s : Leads(s, 0, way, <<>>) /\ s[0] = way[1]
    <2> DEFINE s == [k \in 0..0 |-> way[1]]
    <2>1. s \in [0..0 -> Place] /\ s[0] = way[1]
      BY <1>4
    <2> HIDE DEF s
    <2>2. Leads(s, 0, way, <<>>)
      BY <2>1 DEF Leads
    <2> QED
      BY <2>1, <2>2
  <1>7. Compressing'
    <2>1. <<>> \in Seq(Place) /\ Len(<<>>) = 0
      OBVIOUS
    <2>2. \E s : Leads(s, i' - 1, way', deltas') /\ s[i' - 1] = sum'
      <3>1. i' - 1 = 0
        BY <1>2
      <3> QED
        BY <1>2, <1>6, <3>1
    <2>3. i' \in 1..(Inner' + 1)
      <3>1. i' = 1
        BY <1>2
      <3>2. \A n \in Nat : 1 \in 1..(n + 1)
        OBVIOUS
      <3> QED
        BY <3>1, <3>2, <1>5
    <2>4. Len(deltas') = i' - 1
      BY <1>2, <2>1
    <2> QED
      BY <1>2, <1>4, <2>1, <2>2, <2>3, <2>4 DEF Compressing
  <1> QED
    BY <1>2, <1>3, <1>7 DEF CompressionInv, AfterUncompress

(* One difference more leads one place further.                            *)
LEMMA PathGrows ==
  ASSUME NEW n \in Nat \ {0}, NEW m, m = n - 1,
         NEW line, NEW ds, NEW es, NEW s, NEW to \in Place,
         Leads(s, m, line, ds),
         \A k \in 1..m : es[k] = ds[k],
         to = Moved(s[m], es[n]),
         Near(to, line[n + 1])
  PROVE  \E t : Leads(t, n, line, es) /\ t[n] = to
  <1> DEFINE t == [k \in 0..n |-> IF k < n THEN s[k] ELSE to]
  <1>1. \A k \in 0..(n - 1) : t[k] = s[k] /\ s[k] \in Place
    BY DEF Leads
  <1>2. t[n] = to
    OBVIOUS
  <1>3. t \in [0..n -> Place]
    <2>1. ASSUME NEW k \in 0..n PROVE t[k] \in Place
      <3>1. CASE k \in 0..(n - 1)
        BY <3>1, <1>1
      <3>2. CASE k = n
        BY <3>2, <1>2
      <3> QED
        BY <3>1, <3>2
    <2> QED
      BY <2>1
  <1> HIDE DEF t
  <1>4. ASSUME NEW k \in 1..n
        PROVE  t[k] = Moved(t[k - 1], es[k]) /\ Near(t[k], line[k + 1])
    <2>1. k - 1 \in 0..(n - 1) /\ t[k - 1] = s[k - 1]
      BY <1>1
    <2>2. CASE k = n
      BY <2>1, <2>2, <1>2
    <2>3. CASE k # n
      <3>1. k \in 1..(n - 1) /\ t[k] = s[k]
        BY <2>3, <1>1
      <3> QED
        BY <2>1, <3>1 DEF Leads
    <2> QED
      BY <2>2, <2>3
  <1>5. t[0] = line[1]
    BY <1>1 DEF Leads
  <1> QED
    BY <1>2, <1>3, <1>4, <1>5 DEF Leads

LEMMA CompressMore == ASSUME CompressionInv, compress_point PROVE CompressionInv'
  <1>1. Compressing /\ WayInv /\ pc = "compress" /\ i <= num_points - 2
    BY DEF CompressionInv, compress_point
  <1>2. /\ i \in Nat \ {0} /\ i + 1 <= Inner + 1 /\ i + 1 <= Len(way)
        /\ Inner = num_points - 2 /\ Len(way) \in Nat
    BY <1>1, LineFacts DEF Compressing, WayInv, Inner
  <1>3. way[i] \in Location /\ way[i + 1] \in Location
    BY <1>1, <1>2, LineFacts DEF WayInv
  <1> DEFINE delta == Delta(sum, way[i + 1])
             to    == Moved(sum, delta)
  <1>4. delta \in Place /\ to \in Place /\ Near(to, way[i + 1])
    BY <1>1, <1>3, OneRounding DEF Compressing
  <1> HIDE DEF delta, to
  <1>5. /\ deltas' = Append(deltas, delta)
        /\ deltas' \in Seq(Place)
        /\ Len(deltas') = i
        /\ deltas'[i] = delta
        /\ \A k \in 1..(i - 1) : deltas'[k] = deltas[k]
    <2>1. deltas' = Append(deltas, delta) /\ deltas \in Seq(Place) /\ Len(deltas) = i - 1
      BY <1>1 DEF compress_point, Compressing, delta
    <2> QED
      BY <2>1, <1>2, <1>4, AppendProperties
  <1>6. /\ sum' = to /\ i' = i + 1
        /\ way' = way /\ pc' = pc /\ num_points' = num_points /\ first' = first
    BY <1>5 DEF compress_point, to, delta
  <1>7. \E t : Leads(t, i, way, deltas') /\ t[i] = to
    <2>1. PICK s : Leads(s, i - 1, way, deltas) /\ s[i - 1] = sum
      BY <1>1 DEF Compressing
    <2>2. to = Moved(s[i - 1], deltas'[i])
      BY <2>1, <1>5 DEF to
    <2> QED
      <3>1. i \in Nat \ {0} /\ \A k \in 1..(i - 1) : deltas'[k] = deltas[k]
        BY <1>2, <1>5
      <3> QED
        BY <2>1, <2>2, <3>1, <1>4, PathGrows
  <1>8. Compressing'
    <2>1. i' \in 1..(Inner' + 1) /\ Len(deltas') = i' - 1 /\ i' - 1 = i
      BY <1>2, <1>5, <1>6 DEF Inner
    <2>2. \E s : Leads(s, i' - 1, way', deltas') /\ s[i' - 1] = sum'
      BY <2>1, <1>6, <1>7
    <2>3. sum' \in Place /\ Near(sum', way'[i'])
      BY <1>4, <1>6
    <2> QED
      BY <2>1, <2>2, <2>3, <1>5 DEF Compressing
  <1>9. WayInv'
    BY <1>1, <1>6 DEF WayInv
  <1> QED
    BY <1>1, <1>6, <1>8, <1>9 DEF CompressionInv, AfterUncompress

LEMMA EndCompress == ASSUME CompressionInv, end_constructor PROVE CompressionInv'
  <1>1. Compressing /\ WayInv /\ pc = "compress" /\ i > num_points - 2
    BY DEF CompressionInv, end_constructor
  <1>2. i - 1 = Inner
    BY <1>1 DEF Compressing, WayInv, Inner
  <1>3. /\ UNCHANGED <<way, i, num_points, first, deltas>>
        /\ pc' = "compressed"
        /\ last' \in IF num_points > 0 THEN {way[num_points]} ELSE Garbage
    BY DEF end_constructor
  <1>4. last' \in Reachable /\ (num_points > 0 => last' = way[num_points])
    BY <1>1, <1>3, LineFacts, LocationReaches DEF WayInv, Reachable
  <1>5. Compressed'
    <2>1. \E s : Leads(s, Inner, way, deltas)
      BY <1>1, <1>2 DEF Compressing
    <2>2. Inner' = Inner
      BY <1>3 DEF Inner
    <2> QED
      BY <1>1, <1>2, <1>3, <1>4, <2>1, <2>2 DEF Compressing, Compressed
  <1>6. WayInv'
    BY <1>1, <1>3 DEF WayInv
  <1> QED
    BY <1>3, <1>5, <1>6 DEF CompressionInv, AfterUncompress

LEMMA BeginUncompress == ASSUME CompressionInv, begin_uncompress PROVE CompressionInv'
  <1>1. Compressed /\ WayInv
    BY DEF CompressionInv, begin_uncompress
  <1>2. /\ UNCHANGED <<way, num_points, first, last, deltas>>
        /\ pc' = "uncompress" /\ i' = 0 /\ prev' = first /\ linestring' = <<first>>
        /\ pc = "compressed"
    BY DEF begin_uncompress
  <1>3. first = way[1] /\ first \in Reachable /\ Inner \in Nat /\ Inner' = Inner
    BY <1>1, <1>2, LineFacts, LocationReaches DEF WayInv, Inner
  <1>4. linestring' \in Seq(Reachable) /\ Len(linestring') = 1 /\ linestring'[1] = first
    BY <1>2, <1>3
  <1>5. \E s : Leads(s, Inner, way, deltas) /\ first = s[0]
    <2>1. PICK s : Leads(s, Inner, way, deltas)
      BY <1>1 DEF Compressed
    <2> QED
      BY <2>1, <1>3 DEF Leads
  <1>6. Uncompressing'
    BY <1>1, <1>2, <1>3, <1>4, <1>5 DEF Compressed, Uncompressing
  <1>7. WayInv'
    BY <1>1, <1>2 DEF WayInv
  <1> QED
    BY <1>2, <1>6, <1>7 DEF CompressionInv, AfterUncompress

LEMMA UncompressMore == ASSUME CompressionInv, uncompress_point PROVE CompressionInv'
  <1>1. Uncompressing /\ WayInv /\ pc = "uncompress" /\ i <= num_points - 3
    BY DEF CompressionInv, uncompress_point
  <1>2. /\ i \in Nat /\ i + 1 <= Inner /\ i + 2 <= Len(way) /\ Len(way) \in Nat
        /\ Inner = num_points - 2
    BY <1>1, LineFacts DEF Uncompressing, WayInv, Inner
  <1> DEFINE to == Moved(prev, deltas[i + 1])
  <1>3. /\ UNCHANGED <<way, pc, num_points, first, last, deltas>>
        /\ i' = i + 1 /\ prev' = to /\ linestring' = Append(linestring, to)
    BY DEF uncompress_point
  <1>4. PICK s : Leads(s, Inner, way, deltas) /\ prev = s[i]
    BY <1>1 DEF Uncompressing
  <1>5. to = s[i + 1] /\ to \in Place /\ Near(to, way[i + 2])
    BY <1>2, <1>4 DEF Leads
  <1>6. to \in Reachable
    BY <1>1, <1>2, <1>5, LineFacts, NearReaches DEF WayInv
  <1> HIDE DEF to
  <1>7. /\ linestring' \in Seq(Reachable)
        /\ Len(linestring') = i + 2
        /\ linestring'[i + 2] = to
        /\ \A k \in 1..(i + 1) : linestring'[k] = linestring[k]
    <2>1. linestring \in Seq(Reachable) /\ Len(linestring) = i + 1
      BY <1>1 DEF Uncompressing
    <2> QED
      BY <2>1, <1>2, <1>3, <1>6, AppendProperties
  <1>8. \A k \in 2..(i + 2) : Near(linestring'[k], way[k])
    <2>1. \A k \in 2..(i + 1) : Near(linestring'[k], way[k])
      BY <1>1, <1>2, <1>7 DEF Uncompressing
    <2> QED
      BY <2>1, <1>2, <1>5, <1>7
  <1>9. Inner' = Inner
    BY <1>3 DEF Inner
  <1>10. Uncompressing'
    <2>1. linestring'[1] = way[1]
      BY <1>1, <1>2, <1>7 DEF Uncompressing
    <2>2. i' \in 0..Inner' /\ i' + 1 = i + 2
      BY <1>2, <1>3, <1>9
    <2>3. \E t : Leads(t, Inner', way', deltas') /\ prev' = t[i']
      BY <1>3, <1>4, <1>5, <1>9
    <2> QED
      BY <1>1, <1>3, <1>7, <1>8, <1>9, <2>1, <2>2, <2>3 DEF Uncompressing
  <1>11. WayInv'
    BY <1>1, <1>3 DEF WayInv
  <1> QED
    BY <1>1, <1>3, <1>10, <1>11 DEF CompressionInv, AfterUncompress

LEMMA EndUncompress == ASSUME CompressionInv, end_uncompress PROVE CompressionInv'
  <1>1. Uncompressing /\ WayInv /\ pc = "uncompress" /\ i > num_points - 3
    BY DEF CompressionInv, end_uncompress
  <1>2. i = Inner /\ Inner \in Nat
    BY <1>1 DEF Uncompressing, WayInv, Inner
  <1>3. /\ UNCHANGED <<way, num_points, first>> /\ pc' = "uncompressed"
        /\ linestring' = Append(linestring, last)
    BY DEF end_uncompress
  <1>4. Inner' = Inner
    BY <1>3 DEF Inner
  <1>5. /\ linestring' \in Seq(Reachable)
        /\ Len(linestring') = Inner + 2
        /\ linestring'[Inner + 2] = last
        /\ \A k \in 1..(Inner + 1) : linestring'[k] = linestring[k]
    <2>1. linestring \in Seq(Reachable) /\ Len(linestring) = Inner + 1 /\ last \in Reachable
      BY <1>1, <1>2 DEF Uncompressing
    <2> QED
      BY <2>1, <1>2, <1>3, AppendProperties
  <1>6. Uncompressed'
    BY <1>1, <1>2, <1>3, <1>4, <1>5 DEF Uncompressing, Uncompressed
  <1>7. WayInv'
    BY <1>1, <1>3 DEF WayInv
  <1> QED
    BY <1>3, <1>6, <1>7 DEF CompressionInv, AfterUncompress

(* From then on the line stays as it is.                                   *)
LEMMA LineStays ==
  ASSUME CompressionInv, pc \in AfterUncompress, pc' \in AfterUncompress,
         UNCHANGED <<way, num_points, first, linestring>>
  PROVE  CompressionInv'
  <1>1. WayInv' /\ Uncompressed'
    BY DEF CompressionInv, WayInv, Uncompressed, Inner, AfterUncompress
  <1> QED
    BY <1>1 DEF CompressionInv, AfterUncompress

LEMMA CompressionStep == CompressionInv /\ [Next]_vars => CompressionInv'
  <1> SUFFICES ASSUME CompressionInv, [Next]_vars PROVE CompressionInv'
    OBVIOUS
  <1>1. CASE Compression \/ Uncompression
    BY <1>1, BeginCompress, CompressMore, EndCompress, BeginUncompress, UncompressMore, EndUncompress
    DEF Compression, Uncompression
  <1>2. CASE ClosestNode \/ segment_before \/ segment_after
    BY <1>2, LineStays
    DEF ClosestNode, begin_get_closest_node, compare_node, take_node, segment_before,
        segment_after, compression_vars, AfterUncompress
  <1>3. CASE UNCHANGED vars
    BY <1>3 DEF vars, compression_vars, CompressionInv, WayInv, Compressing, Compressed,
                Uncompressing, Uncompressed, Leads, Inner
  <1> QED
    BY <1>1, <1>2, <1>3 DEF Next

LEMMA CompressionAlways == Spec => []CompressionInv
  BY InitComp, CompressionStep, PTL DEF Spec

(* A line of any length comes back with an error of one rounding at most.  *)
THEOREM LineBack == Spec => []LineComesBack
  <1>1. ASSUME CompressionInv PROVE LineComesBack
    <2>1. CASE pc = "uncompress"
      BY <1>1, <2>1 DEF CompressionInv, Uncompressing, LineComesBack
    <2>2. CASE pc = "uncompressed"
      <3>1. Uncompressed /\ WayInv
        BY <1>1, <2>2 DEF CompressionInv, AfterUncompress
      <3>2. \A k \in 2..Len(linestring) : k < num_points => Near(linestring[k], way[k])
        BY <3>1 DEF Uncompressed, WayInv, Inner
      <3>3. Len(way) < ShortSize => /\ Len(linestring) = Len(way)
                                    /\ linestring[Len(way)] = way[Len(way)]
        BY <2>2, <3>1, LineFacts DEF Uncompressed, WayInv, Inner
      <3> QED
        BY <2>2, <3>1, <3>2, <3>3 DEF LineComesBack, Uncompressed
    <2> QED
      BY <2>1, <2>2 DEF LineComesBack
  <1> QED
    BY <1>1, CompressionAlways, PTL

-----------------------------------------------------------------------------
(* The two searches of ClosestPoint: the node that is found is the closest *)
(* of all, and what is found beside it is on the line and as close.        *)

(* The arithmetic of a point p beside a segment from a to b, in integers:  *)
(* (u, v) leads from a to p, (X, Y) from a to b, m is their product and e  *)
(* the square of the segment's length, m/e what the code calls r.          *)
LEMMA SquareIsNat == ASSUME NEW a \in Int PROVE a * a \in Nat
  OBVIOUS

LEMMA Scaled ==
  ASSUME NEW a \in Int, NEW b \in Int, NEW c \in Nat, a <= b PROVE a * c <= b * c
  OBVIOUS

LEMMA Expand ==
  ASSUME NEW u \in Int, NEW v \in Int, NEW X \in Int, NEW Y \in Int, NEW m \in Int, NEW e \in Int,
         m = u * X + v * Y, e = X * X + Y * Y
  PROVE  (u * e - m * X) * (u * e - m * X) + (v * e - m * Y) * (v * e - m * Y)
            = e * e * (u * u + v * v) - e * m * m
  OBVIOUS

LEMMA Shrinks ==
  ASSUME NEW e \in Nat, NEW m \in Nat, NEW q \in Nat PROVE e * e * q - e * m * m <= q * (e * e)
  OBVIOUS

(* The point at m/e of the segment is as close to p as a is.               *)
LEMMA FootIsClose ==
  ASSUME NEW u \in Int, NEW v \in Int, NEW X \in Int, NEW Y \in Int, NEW m \in Nat, NEW e \in Nat,
         m = u * X + v * Y, e = X * X + Y * Y
  PROVE  (u * e - m * X) * (u * e - m * X) + (v * e - m * Y) * (v * e - m * Y)
            <= (u * u + v * v) * (e * e)
  <1> DEFINE q == u * u + v * v
  <1>1. q \in Nat
    <2>1. u * u \in Nat /\ v * v \in Nat
      BY SquareIsNat
    <2> QED
      BY <2>1
  <1>2. (u * e - m * X) * (u * e - m * X) + (v * e - m * Y) * (v * e - m * Y)
           = e * e * q - e * m * m
    BY Expand
  <1> HIDE DEF q
  <1>3. e * e * q - e * m * m <= q * (e * e)
    BY <1>1, Shrinks
  <1> QED
    BY <1>2, <1>3 DEF q

(* If r is above 1, the segment's other end is closer.                     *)
LEMMA EndIsClose ==
  ASSUME NEW u \in Int, NEW v \in Int, NEW X \in Int, NEW Y \in Int,
         u * X + v * Y > X * X + Y * Y
  PROVE  (u - X) * (u - X) + (v - Y) * (v - Y) <= u * u + v * v
  <1>1. X * X \in Nat /\ Y * Y \in Nat
    BY SquareIsNat
  <1>2. (u - X) * (u - X) + (v - Y) * (v - Y)
           = (u * u + v * v) - 2 * (u * X + v * Y) + (X * X + Y * Y)
    OBVIOUS
  <1> DEFINE m == u * X + v * Y
             e == X * X + Y * Y
             q == u * u + v * v
  <1>3. m \in Int /\ e \in Nat /\ q \in Int /\ m > e
    BY <1>1
  <1> HIDE DEF m, e, q
  <1>4. q - 2 * m + e <= q
    BY <1>3
  <1> QED
    BY <1>2, <1>4 DEF m, e, q

LEMMA FootIsBetween ==
  ASSUME NEW m \in Nat, NEW e \in Nat, m <= e, NEW X \in Int PROVE (m * X) * (m * X - e * X) <= 0
  OBVIOUS

LEMMA CollinearIsSymmetric ==
  ASSUME NEW px \in Int, NEW py \in Int, NEW d \in Int,
         NEW ax \in Int, NEW ay \in Int, NEW bx \in Int, NEW by \in Int,
         (px - ax * d) * (by - ay) = (py - ay * d) * (bx - ax)
  PROVE  (px - bx * d) * (ay - by) = (py - by * d) * (ax - bx)
  OBVIOUS

-----------------------------------------------------------------------------
PlaneNode  == [x : Int, y : Int, d : {1}]
PlanePoint == [x : Int, y : Int, d : Nat \ {0}]

OnSegment(p, a, b) ==
    /\ (p.x - a.x * p.d) * (b.y - a.y) = (p.y - a.y * p.d) * (b.x - a.x)
    /\ (p.x - a.x * p.d) * (p.x - b.x * p.d) <= 0
    /\ (p.y - a.y * p.d) * (p.y - b.y * p.d) <= 0

(* q is as close to p as the node a is.                                    *)
AsClose(p, q, a) == Distance2(p, q).n <= Distance2(p, a).n * (q.d * q.d)

LEMMA NodesDistance ==
  ASSUME NEW p \in PlaneNode, NEW a \in PlaneNode
  PROVE  /\ p.x \in Int /\ p.y \in Int /\ a.x \in Int /\ a.y \in Int /\ a.d = 1
         /\ Distance2(p, a).n = (p.x - a.x) * (p.x - a.x) + (p.y - a.y) * (p.y - a.y)
         /\ Distance2(p, a).n \in Int
         /\ Distance2(p, a).d = 1
  <1>1. p.x \in Int /\ p.y \in Int /\ a.x \in Int /\ a.y \in Int /\ a.d = 1
    BY DEF PlaneNode
  <1>2. p.x * 1 - a.x = p.x - a.x /\ p.y * 1 - a.y = p.y - a.y
    BY <1>1
  <1>3. Distance2(p, a) = [n |-> Square(p.x - a.x) + Square(p.y - a.y), d |-> Square(1)]
    BY <1>1, <1>2 DEF Distance2
  <1>4. (p.x - a.x) * (p.x - a.x) \in Nat /\ (p.y - a.y) * (p.y - a.y) \in Nat
    BY <1>1, SquareIsNat
  <1> QED
    BY <1>1, <1>3, <1>4 DEF Square

LEMMA NodeIsAsClose ==
  ASSUME NEW p \in PlaneNode, NEW a \in PlaneNode PROVE AsClose(p, a, a)
  <1>1. Distance2(p, a).n \in Int /\ a.d * a.d = 1
    BY NodesDistance
  <1>2. \A z \in Int : z <= z * 1
    OBVIOUS
  <1> QED
    BY <1>1, <1>2 DEF AsClose

LEMMA NodeIsOnSegment ==
  ASSUME NEW a \in PlaneNode, NEW b \in PlaneNode
  PROVE  OnSegment(a, a, b) /\ OnSegment(b, a, b)
  <1>1. a.x \in Int /\ a.y \in Int /\ a.d = 1 /\ b.x \in Int /\ b.y \in Int /\ b.d = 1
    BY DEF PlaneNode
  <1>2. a.x - a.x * 1 = 0 /\ a.y - a.y * 1 = 0 /\ b.x - b.x * 1 = 0 /\ b.y - b.y * 1 = 0
    BY <1>1
  <1>3. b.x - a.x * 1 = b.x - a.x /\ b.y - a.y * 1 = b.y - a.y
    BY <1>1
  <1>4. \A r, s \in Int : r * s = s * r /\ 0 * s = 0 /\ s * 0 = 0
    OBVIOUS
  <1>5. OnSegment(a, a, b)
    BY <1>1, <1>2, <1>4 DEF OnSegment
  <1>6. OnSegment(b, a, b)
    BY <1>1, <1>2, <1>3, <1>4 DEF OnSegment
  <1> QED
    BY <1>5, <1>6

LEMMA SegmentTurns ==
  ASSUME NEW p \in PlanePoint, NEW a \in PlaneNode, NEW b \in PlaneNode, OnSegment(p, a, b)
  PROVE  OnSegment(p, b, a)
  <1>1. /\ p.x \in Int /\ p.y \in Int /\ p.d \in Int
        /\ a.x \in Int /\ a.y \in Int /\ b.x \in Int /\ b.y \in Int
    BY DEF PlaneNode, PlanePoint
  <1>2. (p.x - b.x * p.d) * (a.y - b.y) = (p.y - b.y * p.d) * (a.x - b.x)
    BY <1>1, CollinearIsSymmetric DEF OnSegment
  <1>3. \A r, s \in Int : r * s = s * r
    OBVIOUS
  <1>4. /\ p.x - a.x * p.d \in Int /\ p.x - b.x * p.d \in Int
        /\ p.y - a.y * p.d \in Int /\ p.y - b.y * p.d \in Int
    BY <1>1
  <1>5. (p.x - b.x * p.d) * (p.x - a.x * p.d) <= 0 /\ (p.y - b.y * p.d) * (p.y - a.y * p.d) <= 0
    BY <1>3, <1>4 DEF OnSegment
  <1> QED
    BY <1>2, <1>5 DEF OnSegment

(* What get_closest_point_from_segment returns.                            *)
LEMMA SegmentPoint ==
  ASSUME NEW a \in PlaneNode, NEW b \in PlaneNode, NEW p \in PlaneNode, NEW r,
         r = get_closest_point_from_segment(a, b, p)
  PROVE  r \in PlanePoint /\ AsClose(p, r, a) /\ OnSegment(r, a, b)
  <1> DEFINE u == p.x - a.x
             v == p.y - a.y
             X == b.x - a.x
             Y == b.y - a.y
             m == u * X + v * Y
             e == X * X + Y * Y
  <1>1. /\ a.x \in Int /\ a.y \in Int /\ a.d = 1
        /\ b.x \in Int /\ b.y \in Int /\ b.d = 1
        /\ p.x \in Int /\ p.y \in Int /\ p.d = 1
    BY DEF PlaneNode
  <1>2. u \in Int /\ v \in Int /\ X \in Int /\ Y \in Int
    BY <1>1
  <1>3. m \in Int /\ e \in Nat
    <2>1. X * X \in Nat /\ Y * Y \in Nat
      BY <1>2, SquareIsNat
    <2> QED
      BY <1>2, <2>1
  <1>4. r = IF m < 0 \/ e = 0 THEN a ELSE IF m > e THEN b ELSE Value(a, b, m, e)
    BY DEF get_closest_point_from_segment, Square
  <1>5. a \in PlanePoint /\ b \in PlanePoint
    BY DEF PlaneNode, PlanePoint
  <1>6. CASE r = a
    BY <1>5, <1>6, NodeIsAsClose, NodeIsOnSegment
  <1>7. CASE r = b /\ m > e
    <2>1. b.x - a.x = X /\ p.x - b.x = u - X /\ p.y - b.y = v - Y
      BY <1>1
    <2>2. (u - X) * (u - X) + (v - Y) * (v - Y) <= u * u + v * v
      <3> HIDE DEF u, v, X, Y
      <3> QED
        BY <1>2, <1>7, EndIsClose
    <2>3. Distance2(p, b).n <= Distance2(p, a).n
      BY <2>1, <2>2, NodesDistance
    <2>4. Distance2(p, a).n \in Int /\ b.d * b.d = 1
      BY <1>1, NodesDistance
    <2>5. \A z \in Int : z * 1 = z
      OBVIOUS
    <2> QED
      BY <1>5, <1>7, <2>3, <2>4, <2>5, NodeIsOnSegment DEF AsClose
  <1>8. CASE r = Value(a, b, m, e) /\ m >= 0 /\ m <= e /\ e # 0
    <2>1. r.x = a.x * e + m * X /\ r.y = a.y * e + m * Y /\ r.d = e
      BY <1>8 DEF Value
    <2>2. r = [x |-> a.x * e + m * X, y |-> a.y * e + m * Y, d |-> e]
      BY <1>8 DEF Value
    <2> HIDE DEF m, e
    <2>3. a.x * e + m * X \in Int /\ a.y * e + m * Y \in Int /\ e \in Nat \ {0} /\ m \in Nat
      BY <1>1, <1>2, <1>3, <1>8
    <2>4. r \in PlanePoint
      BY <2>2, <2>3 DEF PlanePoint
    <2>5. /\ p.x * e - r.x = u * e - m * X
          /\ p.y * e - r.y = v * e - m * Y
      BY <1>1, <1>3, <2>1
    <2>6. Distance2(p, r).n = (u * e - m * X) * (u * e - m * X) + (v * e - m * Y) * (v * e - m * Y)
      BY <2>1, <2>5 DEF Distance2, Square
    <2>7. Distance2(p, a).n = u * u + v * v
      BY NodesDistance
    <2>8. AsClose(p, r, a)
      <3> HIDE DEF u, v, X, Y
      <3>1. m = u * X + v * Y /\ e = X * X + Y * Y
        BY DEF m, e
      <3>2. (u * e - m * X) * (u * e - m * X) + (v * e - m * Y) * (v * e - m * Y)
               <= (u * u + v * v) * (e * e)
        BY <3>1, <2>3, <1>2, FootIsClose
      <3> QED
        BY <3>2, <2>1, <2>6, <2>7 DEF AsClose
    <2>9. /\ r.x - a.x * r.d = m * X /\ r.x - b.x * r.d = m * X - e * X
          /\ r.y - a.y * r.d = m * Y /\ r.y - b.y * r.d = m * Y - e * Y
      BY <1>1, <1>3, <2>1
    <2>10. OnSegment(r, a, b)
      <3>1. b.x - a.x = X /\ b.y - a.y = Y
        OBVIOUS
      <3> HIDE DEF X, Y
      <3>2. (m * X) * Y = (m * Y) * X
        BY <1>2, <2>3
      <3>3. (m * X) * (m * X - e * X) <= 0 /\ (m * Y) * (m * Y - e * Y) <= 0
        BY <1>2, <1>8, <2>3, FootIsBetween
      <3> QED
        BY <3>1, <3>2, <3>3, <2>9 DEF OnSegment
    <2> QED
      BY <2>4, <2>8, <2>10
  <1> HIDE DEF m, e
  <1> QED
    BY <1>3, <1>4, <1>6, <1>7, <1>8

-----------------------------------------------------------------------------
Nodes == 0..(Len(linestring) - 1)
NodeDistance(k) == Distance2(address, node(k)).n

(* The loop of get_closest_node: the closest of the nodes it has seen.     *)
Searching ==
    /\ i \in 0..Len(linestring)
    /\ ind_closest_node \in Nodes
    /\ i = 0 => ind_closest_node = 0 /\ min_dist = Infinity
    /\ i > 0 => min_dist = NodeDistance(ind_closest_node)
    /\ \A k \in 0..(i - 1) : min_dist <= NodeDistance(k)

Found ==
    /\ ind_closest_node \in Nodes
    /\ \A k \in Nodes : NodeDistance(ind_closest_node) <= NodeDistance(k)

(* The best point so far is as close as the node, and on a segment.        *)
Taken ==
    /\ closest_point \in PlanePoint
    /\ AsClose(address, closest_point, node(ind_closest_node))

OnTheLine == \E k \in Segments : OnSegment(closest_point, node(k), node(k + 1))

NodeInv ==
    /\ ogr_point \in Points
    /\ pc = "nodes"  => Searching
    /\ pc = "before" => Found /\ closest_point = node(ind_closest_node)
    /\ pc = "after"  => /\ Found /\ Taken
                        /\ OnTheLine \/ (closest_point = node(ind_closest_node) /\ ind_closest_node = 0)
    /\ pc = "done"   => Found /\ Taken /\ OnTheLine

LEMMA LineIsOnPlane ==
  ASSUME CompressionInv, NodeInv, pc \in AfterUncompress
  PROVE  /\ Len(linestring) \in Nat /\ Len(linestring) >= 2
         /\ address \in PlaneNode
         /\ \A k \in Nodes : /\ node(k) \in PlaneNode
                            /\ NodeDistance(k) \in Int
                            /\ NodeDistance(k) < Infinity
  <1>1. linestring \in Seq(Reachable) /\ Len(linestring) = Inner + 2 /\ WayInv
    BY DEF CompressionInv, Uncompressed
  <1>2. Inner \in Nat
    <2>1. \A n \in Nat : (IF n >= 2 THEN n - 2 ELSE 0) \in Nat
      OBVIOUS
    <2>2. num_points \in Nat
      BY <1>1 DEF WayInv
    <2> QED
      BY <2>1, <2>2 DEF Inner
  <1>3. Len(linestring) \in Nat /\ Len(linestring) >= 2
    BY <1>1, <1>2
  <1>4. ogr_point \in Points
    BY DEF NodeInv
  <1>5. \A location \in Reachable \union Points : OnPlane(location) \in PlaneNode
    BY PlaneAssumption DEF OnPlane, PlaneNode
  <1>6. address \in PlaneNode
    BY <1>4, <1>5 DEF address
  <1>7. ASSUME NEW k \in Nodes
        PROVE  node(k) \in PlaneNode /\ NodeDistance(k) \in Int /\ NodeDistance(k) < Infinity
    <2>1. linestring[k + 1] \in Reachable
      <3>1. k + 1 \in 1..Len(linestring)
        BY <1>3 DEF Nodes
      <3> QED
        BY <1>1, <3>1, ElementOfSeq
    <2>2. node(k) \in PlaneNode
      BY <2>1, <1>5 DEF node
    <2>3. NodeDistance(k) \in Int
      BY <2>2, <1>6, NodesDistance DEF NodeDistance
    <2>4. NodeDistance(k) < Infinity
      BY <2>1, <1>4, InfinityAssumption DEF NodeDistance, node, address
    <2> QED
      BY <2>2, <2>3, <2>4
  <1> QED
    BY <1>3, <1>6, <1>7

-----------------------------------------------------------------------------
LEMMA InitNode == Init => NodeInv
  BY DEF Init, CompressionInit, NodeInv

LEMMA BeginNodes ==
  ASSUME CompressionInv, NodeInv, begin_get_closest_node PROVE NodeInv'
  <1>1. Len(linestring) \in Nat /\ Len(linestring) >= 2
    BY LineIsOnPlane DEF begin_get_closest_node, AfterUncompress
  <1>2. /\ i' = 0 /\ min_dist' = Infinity /\ ind_closest_node' = 0 /\ pc' = "nodes"
        /\ linestring' = linestring /\ ogr_point' = ogr_point
    BY DEF begin_get_closest_node
  <1>3. 0 \in 0..(Len(linestring) - 1) /\ 0 \in 0..Len(linestring)
    BY <1>1
  <1>4. Searching'
    BY <1>2, <1>3 DEF Searching, Nodes
  <1> QED
    BY <1>2, <1>4 DEF NodeInv

LEMMA CompareNodes ==
  ASSUME CompressionInv, NodeInv, compare_node PROVE NodeInv'
  <1>1. Searching /\ i < Len(linestring) /\ pc = "nodes"
    BY DEF NodeInv, compare_node
  <1>2. /\ Len(linestring) \in Nat /\ Len(linestring) >= 2
        /\ \A k \in Nodes : NodeDistance(k) \in Int /\ NodeDistance(k) < Infinity
    BY <1>1, LineIsOnPlane DEF AfterUncompress
  <1>3. /\ i' = i + 1 /\ pc' = pc /\ linestring' = linestring /\ ogr_point' = ogr_point
        /\ IF NodeDistance(i) < min_dist
             THEN min_dist' = NodeDistance(i) /\ ind_closest_node' = i
             ELSE min_dist' = min_dist /\ ind_closest_node' = ind_closest_node
    BY DEF compare_node, NodeDistance
  <1>4. i \in Nodes /\ i \in Nat /\ i' \in 0..Len(linestring) /\ i' > 0 /\ i' - 1 = i
    BY <1>1, <1>2, <1>3 DEF Searching, Nodes
  <1>5. Nodes' = Nodes /\ \A k : NodeDistance(k)' = NodeDistance(k)
    BY <1>3 DEF Nodes, NodeDistance, node, address
  <1>6. \A k \in 0..i : k \in Nodes /\ (k = i \/ k \in 0..(i - 1))
    BY <1>1, <1>2, <1>4 DEF Nodes
  <1>7. min_dist \in Int /\ Infinity \in Int
    BY <1>1, <1>2, <1>4, InfinityAssumption DEF Searching
  <1>8. /\ ind_closest_node' \in Nodes
        /\ min_dist' = NodeDistance(ind_closest_node')
        /\ \A k \in 0..i : min_dist' <= NodeDistance(k)
    <2>1. CASE NodeDistance(i) < min_dist
      <3>1. min_dist' = NodeDistance(i) /\ ind_closest_node' = i
        BY <2>1, <1>3
      <3>2. ASSUME NEW k \in 0..i PROVE NodeDistance(i) <= NodeDistance(k)
        <4>1. NodeDistance(k) \in Int /\ NodeDistance(i) \in Int
          BY <1>2, <1>4, <1>6
        <4>2. CASE k \in 0..(i - 1)
          <5>1. min_dist <= NodeDistance(k)
            BY <1>1, <4>2 DEF Searching
          <5> QED
            BY <5>1, <4>1, <2>1, <1>7
        <4> QED
          BY <4>1, <4>2, <1>6
      <3> QED
        BY <3>1, <3>2, <1>4
    <2>2. CASE ~(NodeDistance(i) < min_dist)
      <3>1. min_dist' = min_dist /\ ind_closest_node' = ind_closest_node
        BY <2>2, <1>3
      <3>2. NodeDistance(i) \in Int /\ min_dist <= NodeDistance(i)
        BY <2>2, <1>2, <1>4, <1>7
      <3>3. i # 0
        <4>1. i = 0 => min_dist = Infinity /\ NodeDistance(i) < Infinity
          BY <1>1, <1>2, <1>4 DEF Searching
        <4> QED
          BY <4>1, <2>2
      <3>4. ind_closest_node \in Nodes /\ min_dist = NodeDistance(ind_closest_node)
        BY <1>1, <1>4, <3>3 DEF Searching
      <3>5. \A k \in 0..i : min_dist <= NodeDistance(k)
        BY <1>1, <1>6, <3>2 DEF Searching
      <3> QED
        BY <3>1, <3>4, <3>5
    <2> QED
      BY <2>1, <2>2
  <1>9. Searching'
    BY <1>3, <1>4, <1>5, <1>8 DEF Searching
  <1> QED
    BY <1>1, <1>3, <1>9 DEF NodeInv

LEMMA TakeNode == ASSUME CompressionInv, NodeInv, take_node PROVE NodeInv'
  <1>1. Searching /\ i = Len(linestring) /\ pc = "nodes"
    BY DEF NodeInv, take_node
  <1>2. Len(linestring) \in Nat /\ Len(linestring) >= 2
    BY <1>1, LineIsOnPlane DEF AfterUncompress
  <1>3. /\ linestring' = linestring /\ ogr_point' = ogr_point /\ pc' = "before"
        /\ ind_closest_node' = ind_closest_node
        /\ closest_point' = node(ind_closest_node)
    BY DEF take_node, compression_vars
  <1>4. Found
    BY <1>1, <1>2 DEF Searching, Found, Nodes
  <1>5. Found' /\ node(ind_closest_node)' = node(ind_closest_node)
    BY <1>3, <1>4 DEF Found, Nodes, NodeDistance, node, address
  <1> QED
    BY <1>3, <1>5 DEF NodeInv

(* What the searches of the segments leave alone                           *)
Kept == UNCHANGED <<linestring, ogr_point, ind_closest_node>>

LEMMA KeptNodes ==
  ASSUME Kept
  PROVE  /\ Nodes' = Nodes /\ Segments' = Segments /\ address' = address
         /\ \A k : node(k)' = node(k)
         /\ node(ind_closest_node)' = node(ind_closest_node)
         /\ Found => Found'
  BY DEF Kept, Nodes, Segments, address, node, Found, NodeDistance

LEMMA SegmentBefore == ASSUME CompressionInv, NodeInv, segment_before PROVE NodeInv'
  <1>1. Found /\ closest_point = node(ind_closest_node) /\ pc = "before"
    BY DEF NodeInv, segment_before
  <1>2. /\ Len(linestring) \in Nat /\ Len(linestring) >= 2 /\ address \in PlaneNode
        /\ \A k \in Nodes : node(k) \in PlaneNode
    BY <1>1, LineIsOnPlane DEF AfterUncompress
  <1>3. /\ pc' = "after" /\ Kept
        /\ closest_point' =
             IF ind_closest_node > 0
             THEN get_closest_point_from_segment(node(ind_closest_node), node(ind_closest_node - 1), address)
             ELSE closest_point
    BY DEF segment_before, compression_vars, Kept
  <1>4. ind_closest_node \in Nat /\ ind_closest_node \in Nodes /\ node(ind_closest_node) \in PlaneNode
    BY <1>1, <1>2 DEF Found, Nodes
  <1>5. CASE ind_closest_node > 0
    <2>1. ind_closest_node - 1 \in Nodes /\ ind_closest_node - 1 \in Segments
      BY <1>2, <1>4, <1>5 DEF Nodes, Segments
    <2>2. node(ind_closest_node - 1) \in PlaneNode
      BY <1>2, <2>1
    <2>3. closest_point' =
            get_closest_point_from_segment(node(ind_closest_node), node(ind_closest_node - 1), address)
      BY <1>3, <1>5
    <2>4. /\ closest_point' \in PlanePoint
          /\ AsClose(address, closest_point', node(ind_closest_node))
          /\ OnSegment(closest_point', node(ind_closest_node), node(ind_closest_node - 1))
      BY <1>2, <1>4, <2>2, <2>3, SegmentPoint
    <2>5. OnSegment(closest_point', node(ind_closest_node - 1), node((ind_closest_node - 1) + 1))
      <3>1. (ind_closest_node - 1) + 1 = ind_closest_node
        BY <1>4
      <3> QED
        BY <1>4, <2>2, <2>4, <3>1, SegmentTurns
    <2>6. Taken' /\ OnTheLine'
      BY <1>3, <2>1, <2>4, <2>5, KeptNodes DEF Taken, OnTheLine
    <2>7. Found' /\ ogr_point' \in Points /\ pc' = "after"
      BY <1>1, <1>3, KeptNodes DEF NodeInv, Kept
    <2> QED
      BY <2>6, <2>7 DEF NodeInv
  <1>6. CASE ind_closest_node = 0
    <2>1. closest_point' = node(ind_closest_node)
      BY <1>1, <1>3, <1>6
    <2>2. node(ind_closest_node) \in PlanePoint
      BY <1>4 DEF PlaneNode, PlanePoint
    <2>3. AsClose(address, closest_point', node(ind_closest_node))
      BY <1>2, <1>4, <2>1, NodeIsAsClose
    <2>4. Taken'
      BY <1>3, <2>1, <2>2, <2>3, KeptNodes DEF Taken
    <2>5. closest_point' = node(ind_closest_node)' /\ ind_closest_node' = 0
      BY <1>3, <1>6, <2>1, KeptNodes DEF Kept
    <2> QED
      BY <1>1, <1>3, <2>4, <2>5, KeptNodes DEF NodeInv, Kept
  <1> QED
    BY <1>4, <1>5, <1>6

LEMMA SegmentAfter == ASSUME CompressionInv, NodeInv, segment_after PROVE NodeInv'
  <1>1. /\ Found /\ Taken /\ pc = "after"
        /\ OnTheLine \/ (closest_point = node(ind_closest_node) /\ ind_closest_node = 0)
    BY DEF NodeInv, segment_after
  <1>2. /\ Len(linestring) \in Nat /\ Len(linestring) >= 2 /\ address \in PlaneNode
        /\ \A k \in Nodes : node(k) \in PlaneNode
    BY <1>1, LineIsOnPlane DEF AfterUncompress
  <1> DEFINE candidate == get_closest_point_from_segment(
                              node(ind_closest_node), node(ind_closest_node + 1), address)
  <1>3. /\ pc' = "done" /\ Kept
        /\ closest_point' =
             IF ind_closest_node < Len(linestring) - 1
             THEN IF Closer(candidate, closest_point) THEN candidate ELSE closest_point
             ELSE closest_point
    BY DEF segment_after, compression_vars, Kept
  <1>4. ind_closest_node \in Nat /\ ind_closest_node \in Nodes /\ node(ind_closest_node) \in PlaneNode
    BY <1>1, <1>2 DEF Found, Nodes
  <1>5. CASE closest_point' = candidate /\ ind_closest_node < Len(linestring) - 1
    <2>1. ind_closest_node + 1 \in Nodes /\ ind_closest_node \in Segments
      BY <1>2, <1>4, <1>5 DEF Nodes, Segments
    <2>2. node(ind_closest_node + 1) \in PlaneNode
      BY <1>2, <2>1
    <2>3. /\ candidate \in PlanePoint
          /\ AsClose(address, candidate, node(ind_closest_node))
          /\ OnSegment(candidate, node(ind_closest_node), node(ind_closest_node + 1))
      BY <1>2, <1>4, <2>2, SegmentPoint
    <2> HIDE DEF candidate
    <2>4. Taken' /\ OnTheLine'
      BY <1>3, <1>5, <2>1, <2>3, KeptNodes DEF Taken, OnTheLine
    <2> QED
      BY <1>1, <1>3, <2>4, KeptNodes DEF NodeInv, Kept
  <1>6. CASE closest_point' = closest_point
    <2>1. OnTheLine
      <3>1. CASE closest_point = node(ind_closest_node) /\ ind_closest_node = 0
        <4>1. 0 \in Segments /\ 0 \in Nodes /\ 1 \in Nodes
          BY <1>2 DEF Segments, Nodes
        <4>2. node(0) \in PlaneNode /\ node(1) \in PlaneNode
          BY <1>2, <4>1
        <4>3. OnSegment(closest_point, node(0), node(0 + 1))
          BY <3>1, <4>2, NodeIsOnSegment
        <4> QED
          BY <4>1, <4>3 DEF OnTheLine
      <3> QED
        BY <1>1, <3>1
    <2>2. Taken'
      BY <1>1, <1>3, <1>6, KeptNodes DEF Taken
    <2>3. OnTheLine'
      BY <2>1, <1>3, <1>6, KeptNodes DEF OnTheLine
    <2> QED
      BY <1>1, <1>3, <2>2, <2>3, KeptNodes DEF NodeInv, Kept
  <1> QED
    BY <1>3, <1>5, <1>6

LEMMA NodeStep == CompressionInv /\ NodeInv /\ [Next]_vars => NodeInv'
  <1> SUFFICES ASSUME CompressionInv, NodeInv, [Next]_vars PROVE NodeInv'
    OBVIOUS
  <1>1. CASE (Compression \/ Uncompression) /\ UNCHANGED <<ogr_point, min_dist, ind_closest_node, closest_point>>
    <2>1. pc' \in {"compress", "compressed", "uncompress", "uncompressed"}
      BY <1>1 DEF Compression, Uncompression, begin_constructor, compress_point, end_constructor,
                  begin_uncompress, uncompress_point, end_uncompress
    <2> QED
      BY <1>1, <2>1 DEF NodeInv
  <1>2. CASE ClosestNode
    BY <1>2, BeginNodes, CompareNodes, TakeNode DEF ClosestNode
  <1>3. CASE segment_before \/ segment_after
    BY <1>3, SegmentBefore, SegmentAfter
  <1>4. CASE UNCHANGED vars
    <2>1. Kept /\ pc' = pc /\ i' = i /\ min_dist' = min_dist /\ closest_point' = closest_point
      BY <1>4 DEF vars, compression_vars, Kept
    <2>2. /\ Searching => Searching'
          /\ Taken => Taken'
          /\ OnTheLine => OnTheLine'
      BY <2>1, KeptNodes DEF Searching, Taken, OnTheLine, NodeDistance, Kept
    <2>3. Found => Found'
      BY <2>1, KeptNodes
    <2>4. /\ node(ind_closest_node)' = node(ind_closest_node)
          /\ ind_closest_node' = ind_closest_node /\ ogr_point' = ogr_point
      BY <2>1, KeptNodes DEF Kept
    <2> QED
      BY <2>1, <2>2, <2>3, <2>4 DEF NodeInv
  <1> QED
    BY <1>1, <1>2, <1>3, <1>4 DEF Next

LEMMA NodeAlways == Spec => [](CompressionInv /\ NodeInv)
  BY InitComp, CompressionStep, InitNode, NodeStep, PTL DEF Spec

-----------------------------------------------------------------------------
(* Whatever the line, the rounding and the projection, a connection line   *)
(* ends on the street, as close to the address as its closest node.        *)
THEOREM CloseOnTheLine == Spec => []AsCloseAsEveryNode
  <1>1. ASSUME CompressionInv, NodeInv PROVE AsCloseAsEveryNode
    <2> SUFFICES ASSUME pc = "done" PROVE AsCloseAsEveryNode
      BY DEF AsCloseAsEveryNode
    <2>1. Found /\ Taken /\ OnTheLine
      BY <1>1 DEF NodeInv
    <2>2. /\ address \in PlaneNode
          /\ \A k \in Nodes : node(k) \in PlaneNode /\ NodeDistance(k) \in Int
      BY <1>1, LineIsOnPlane DEF AfterUncompress
    <2>3. ASSUME NEW k \in Nodes PROVE ~Closer(node(k), closest_point)
      <3> DEFINE best == NodeDistance(ind_closest_node)
                 mine == NodeDistance(k)
                 dd   == closest_point.d * closest_point.d
                 nn   == Distance2(address, closest_point).n
      <3>1. best \in Int /\ mine \in Int /\ best <= mine
        BY <2>1, <2>2 DEF Found
      <3>2. closest_point.d \in Nat /\ closest_point.x \in Int /\ closest_point.y \in Int
        BY <2>1 DEF Taken, PlanePoint
      <3>3. dd \in Nat
        BY <3>2, SquareIsNat
      <3>4. nn \in Int
        <4>1. address.x \in Int /\ address.y \in Int
          BY <2>2 DEF PlaneNode
        <4>2. /\ address.x * closest_point.d - closest_point.x \in Int
              /\ address.y * closest_point.d - closest_point.y \in Int
          BY <3>2, <4>1
        <4>3. \A a, b \in Int : a * a + b * b \in Int
          OBVIOUS
        <4> QED
          BY <4>2, <4>3 DEF Distance2, Square
      <3>5. nn <= best * dd
        BY <2>1 DEF Taken, AsClose, NodeDistance
      <3>6. Distance2(address, closest_point).d = dd /\ Distance2(address, node(k)).d = 1
        BY <2>2, NodesDistance DEF Distance2, Square
      <3>7. Closer(node(k), closest_point) <=> mine * dd < nn * 1
        BY <3>6 DEF Closer, Less, NodeDistance
      <3> HIDE DEF best, mine, dd, nn
      <3>8. best * dd <= mine * dd /\ best * dd \in Int /\ mine * dd \in Int /\ nn * 1 = nn
        BY <3>1, <3>3, <3>4, Scaled
      <3> QED
        BY <3>4, <3>5, <3>7, <3>8
    <2>4. PICK k \in Segments : OnSegment(closest_point, node(k), node(k + 1))
      BY <2>1 DEF OnTheLine
    <2> QED
      BY <2>3, <2>4 DEF AsCloseAsEveryNode, Nodes, OnSegment
  <1> QED
    BY <1>1, NodeAlways, PTL

-----------------------------------------------------------------------------
(* No point of a segment is closer than the one that is returned. The      *)
(* point at num/den of the segment has, times den * den, the distance of   *)
(* the first line; q is the distance of the segment's beginning.           *)
LEMMA SampleExpand ==
  ASSUME NEW u \in Int, NEW v \in Int, NEW X \in Int, NEW Y \in Int,
         NEW num \in Int, NEW den \in Int, NEW m \in Int, NEW e \in Int, NEW q \in Int,
         m = u * X + v * Y, e = X * X + Y * Y, q = u * u + v * v
  PROVE  (u * den - num * X) * (u * den - num * X) + (v * den - num * Y) * (v * den - num * Y)
            = den * den * q - 2 * (num * den) * m + num * num * e
  OBVIOUS

LEMMA StartIsBest ==
  ASSUME NEW num \in Nat, NEW den \in Nat, NEW m \in Int, NEW e \in Nat, NEW q \in Int, m <= 0
  PROVE  den * den * q - 2 * (num * den) * m + num * num * e >= q * (den * den)
  <1>1. num * num * e \in Nat /\ num * den \in Nat
    OBVIOUS
  <1> DEFINE a == num * den
             b == num * num * e
             c == den * den
  <1>2. a \in Nat /\ b \in Nat /\ c \in Int
    BY <1>1
  <1> HIDE DEF a, b, c
  <1>3. a * m <= 0 /\ a * m \in Int /\ c * q \in Int /\ c * q = q * c
    BY <1>2
  <1>4. 2 * a * m = 2 * (a * m)
    BY <1>2
  <1> DEFINE am == a * m
             cq == c * q
  <1>5. cq - 2 * am + b >= cq
    <2> HIDE DEF am, cq
    <2> QED
      BY <1>2, <1>3 DEF am, cq
  <1> QED
    BY <1>3, <1>4, <1>5 DEF a, b, c

LEMMA EndIsBest ==
  ASSUME NEW num \in Nat, NEW den \in Nat, num <= den,
         NEW m \in Int, NEW e \in Nat, NEW q \in Int, m > e
  PROVE  den * den * q - 2 * (num * den) * m + num * num * e >= (q - 2 * m + e) * (den * den)
  <1> DEFINE rest == den - num
             less == 2 * (m - e) * den + e * rest
  <1>1. rest \in Nat /\ m - e \in Nat
    OBVIOUS
  <1>2. less \in Nat
    <2> HIDE DEF rest
    <2>1. (m - e) * den \in Nat /\ e * rest \in Nat
      BY <1>1
    <2> QED
      BY <2>1
  <1>3. (den * den * q - 2 * (num * den) * m + num * num * e) - (q - 2 * m + e) * (den * den)
           = rest * less
    OBVIOUS
  <1>4. rest * less \in Nat
    <2> HIDE DEF rest, less
    <2> QED
      BY <1>1, <1>2
  <1> DEFINE l == den * den * q - 2 * (num * den) * m + num * num * e
             r == (q - 2 * m + e) * (den * den)
  <1>5. l \in Int /\ r \in Int /\ l - r \in Nat
    BY <1>3, <1>4
  <1> HIDE DEF l, r
  <1>6. l >= r
    BY <1>5
  <1> QED
    BY <1>6 DEF l, r

LEMMA FootIsBest ==
  ASSUME NEW num \in Nat, NEW den \in Nat, NEW m \in Nat, NEW e \in Nat, NEW q \in Int
  PROVE  (den * den * q - 2 * (num * den) * m + num * num * e) * (e * e)
            >= (e * e * q - e * m * m) * (den * den)
  <1> DEFINE off == num * e - den * m
             l == (den * den * q - 2 * (num * den) * m + num * num * e) * (e * e)
             r == (e * e * q - e * m * m) * (den * den)
  <1>1. l - r = e * (off * off)
    OBVIOUS
  <1>2. off \in Int /\ l \in Int /\ r \in Int
    OBVIOUS
  <1>3. off * off \in Nat
    <2> HIDE DEF off
    <2> QED
      BY <1>2, SquareIsNat
  <1>4. e * (off * off) \in Nat
    <2> HIDE DEF off
    <2> QED
      BY <1>3
  <1> HIDE DEF l, r, off
  <1>5. l >= r
    BY <1>1, <1>2, <1>4
  <1> QED
    BY <1>5 DEF l, r

(* Distances to points of the plane are fractions with positive            *)
(* denominators, and can be compared through a third.                      *)
NotCloser(p, q, r) == Distance2(p, q).n * Square(r.d) >= Distance2(p, r).n * Square(q.d)

LEMMA PointsDistance ==
  ASSUME NEW p \in PlaneNode, NEW q \in PlanePoint
  PROVE  Distance2(p, q).n \in Int /\ Distance2(p, q).d = Square(q.d) /\ Square(q.d) \in Nat \ {0}
  <1>1. /\ p.x \in Int /\ p.y \in Int /\ q.x \in Int /\ q.y \in Int /\ q.d \in Nat \ {0}
    BY DEF PlaneNode, PlanePoint
  <1>2. p.x * q.d - q.x \in Int /\ p.y * q.d - q.y \in Int
    BY <1>1
  <1>3. \A a, b \in Int : a * a + b * b \in Int
    OBVIOUS
  <1>4. \A d \in Nat \ {0} : d * d \in Nat \ {0}
    OBVIOUS
  <1> QED
    BY <1>1, <1>2, <1>3, <1>4 DEF Distance2, Square

LEMMA Chain ==
  ASSUME NEW nq \in Int, NEW dq \in Nat \ {0}, NEW nr \in Int, NEW dr \in Nat \ {0},
         NEW ns \in Int, NEW ds \in Nat \ {0}, nq * dr >= nr * dq, ns * dr < nr * ds
  PROVE  ns * dq < nq * ds
  <1> SUFFICES ASSUME nq * ds <= ns * dq PROVE FALSE
    OBVIOUS
  <1> DEFINE a == nq * dr
             b == nr * dq
             c == ns * dr
             d == nr * ds
             e == nq * ds
             f == ns * dq
  <1>1. a \in Int /\ b \in Int /\ c \in Int /\ d \in Int /\ e \in Int /\ f \in Int
    OBVIOUS
  <1>2. a * ds = e * dr /\ f * dr = c * dq /\ d * dq = b * ds
    OBVIOUS
  <1> HIDE DEF a, b, c, d, e, f
  <1>3. a >= b /\ c < d /\ e <= f
    BY DEF a, b, c, d, e, f
  <1>4. a * ds >= b * ds
    BY <1>1, <1>3
  <1>5. c * dq < d * dq
    BY <1>1, <1>3
  <1>6. e * dr <= f * dr
    BY <1>1, <1>3
  <1> DEFINE x == b * ds
             y == c * dq
             z == e * dr
  <1>7. x \in Int /\ y \in Int /\ z \in Int /\ z >= x /\ y < x /\ z <= y
    BY <1>1, <1>2, <1>4, <1>5, <1>6
  <1> HIDE DEF x, y, z
  <1> QED
    BY <1>7

LEMMA NotLess ==
  ASSUME NEW p \in PlaneNode, NEW q \in PlanePoint, NEW r \in PlanePoint
  PROVE  NotCloser(p, q, r) <=> ~Less(Distance2(p, q), Distance2(p, r))
  <1> DEFINE a == Distance2(p, q).n * Square(r.d)
             b == Distance2(p, r).n * Square(q.d)
  <1>1. a \in Int /\ b \in Int
    BY PointsDistance
  <1>2. Less(Distance2(p, q), Distance2(p, r)) <=> a < b
    BY PointsDistance DEF Less
  <1> HIDE DEF a, b
  <1>3. ~(a < b) <=> a >= b
    BY <1>1
  <1> QED
    BY <1>2, <1>3 DEF NotCloser, a, b

LEMMA CloserIsBest ==
  ASSUME NEW p \in PlaneNode, NEW q \in PlanePoint, NEW r \in PlanePoint, NEW s \in PlanePoint,
         NotCloser(p, q, r), Less(Distance2(p, s), Distance2(p, r))
  PROVE  NotCloser(p, q, s) /\ Less(Distance2(p, s), Distance2(p, q))
  <1> DEFINE d(x) == Distance2(p, x)
  <1>1. \A x \in {q, r, s} : d(x).n \in Int /\ d(x).d \in Nat \ {0} /\ d(x).d = Square(x.d)
    BY PointsDistance
  <1>2. d(q).n * d(r).d >= d(r).n * d(q).d /\ d(s).n * d(r).d < d(r).n * d(s).d
    BY <1>1 DEF NotCloser, Less
  <1> HIDE DEF d
  <1>3. d(s).n * d(q).d < d(q).n * d(s).d
    BY <1>1, <1>2, Chain
  <1>4. d(q).n * d(s).d >= d(s).n * d(q).d
    <2> DEFINE x == d(s).n * d(q).d
               y == d(q).n * d(s).d
    <2>1. x \in Int /\ y \in Int /\ x < y
      BY <1>1, <1>3
    <2> HIDE DEF x, y
    <2>2. y >= x
      BY <2>1
    <2> QED
      BY <2>2 DEF x, y
  <1> QED
    BY <1>1, <1>3, <1>4 DEF NotCloser, Less, d

LEMMA NotCloserChain ==
  ASSUME NEW p \in PlaneNode, NEW q \in PlanePoint, NEW r \in PlanePoint, NEW s \in PlanePoint,
         NotCloser(p, q, r), NotCloser(p, r, s)
  PROVE  NotCloser(p, q, s)
  <1> SUFFICES ASSUME Less(Distance2(p, q), Distance2(p, s)) PROVE FALSE
    BY NotLess
  <1>1. Less(Distance2(p, q), Distance2(p, r))
    BY CloserIsBest
  <1> QED
    BY <1>1, NotLess

(* The points of a segment, and that none is closer than the one returned  *)
Between(q, a, b) == \E den \in Nat \ {0} : \E num \in 0..den : q = Value(a, b, num, den)

LEMMA ValueIsPoint ==
  ASSUME NEW a \in PlaneNode, NEW b \in PlaneNode, NEW den \in Nat \ {0}, NEW num \in 0..den
  PROVE  Value(a, b, num, den) \in PlanePoint
  <1>1. /\ a.x \in Int /\ a.y \in Int /\ b.x \in Int /\ b.y \in Int /\ num \in Int /\ den \in Int
    BY DEF PlaneNode
  <1>2. \A s, t \in Int : s * den + num * (t - s) \in Int
    BY <1>1
  <1> QED
    BY <1>1, <1>2 DEF Value, PlanePoint

LEMMA BetweenTurns ==
  ASSUME NEW a \in PlaneNode, NEW b \in PlaneNode, NEW q, Between(q, a, b)
  PROVE  Between(q, b, a)
  <1>1. PICK den \in Nat \ {0} : \E num \in 0..den : q = Value(a, b, num, den)
    BY DEF Between
  <1>2. PICK num \in 0..den : q = Value(a, b, num, den)
    BY <1>1
  <1>3. a.x \in Int /\ a.y \in Int /\ b.x \in Int /\ b.y \in Int /\ num \in Int /\ den \in Int
    BY DEF PlaneNode
  <1>4. \A s, t \in Int : s * den + num * (t - s) = t * den + (den - num) * (s - t)
    BY <1>3
  <1>5. q = Value(b, a, den - num, den)
    BY <1>2, <1>3, <1>4 DEF Value
  <1>6. den - num \in 0..den
    BY <1>3
  <1> QED
    BY <1>5, <1>6 DEF Between

LEMMA SegmentBest ==
  ASSUME NEW a \in PlaneNode, NEW b \in PlaneNode, NEW p \in PlaneNode, NEW r,
         r = get_closest_point_from_segment(a, b, p), NEW q, Between(q, a, b)
  PROVE  NotCloser(p, q, r)
  <1>0. PICK den \in Nat \ {0} : \E num \in 0..den : q = Value(a, b, num, den)
    BY DEF Between
  <1>1. PICK num \in 0..den : q = Value(a, b, num, den)
    BY <1>0
  <1> DEFINE u == p.x - a.x
             v == p.y - a.y
             X == b.x - a.x
             Y == b.y - a.y
             m == u * X + v * Y
             e == X * X + Y * Y
             far == u * u + v * v
             here == den * den * far - 2 * (num * den) * m + num * num * e
  <1>2. /\ a.x \in Int /\ a.y \in Int /\ a.d = 1
        /\ b.x \in Int /\ b.y \in Int /\ b.d = 1
        /\ p.x \in Int /\ p.y \in Int /\ p.d = 1 /\ num \in Nat /\ num <= den
    BY DEF PlaneNode
  <1>3. u \in Int /\ v \in Int /\ X \in Int /\ Y \in Int
    BY <1>2
  <1>4. m \in Int /\ e \in Nat /\ far \in Int
    <2>1. X * X \in Nat /\ Y * Y \in Nat
      BY <1>3, SquareIsNat
    <2> QED
      BY <1>3, <2>1
  <1>5. r = IF m < 0 \/ e = 0 THEN a ELSE IF m > e THEN b ELSE Value(a, b, m, e)
    BY DEF get_closest_point_from_segment, Square
  <1>6. Distance2(p, q).n = here /\ q.d = den
    <2>1. q.x = a.x * den + num * X /\ q.y = a.y * den + num * Y /\ q.d = den
      BY <1>1 DEF Value
    <2>2. p.x * den - q.x = u * den - num * X /\ p.y * den - q.y = v * den - num * Y
      BY <1>2, <2>1
    <2>3. Distance2(p, q).n = (u * den - num * X) * (u * den - num * X)
                              + (v * den - num * Y) * (v * den - num * Y)
      BY <2>1, <2>2 DEF Distance2, Square
    <2>4. (u * den - num * X) * (u * den - num * X) + (v * den - num * Y) * (v * den - num * Y) = here
      <3>1. m = u * X + v * Y /\ e = X * X + Y * Y /\ far = u * u + v * v
        OBVIOUS
      <3> HIDE DEF u, v, X, Y, m, e, far
      <3> QED
        BY <1>2, <1>3, <1>4, <3>1, SampleExpand
    <2> QED
      BY <2>1, <2>3, <2>4
  <1>7. Distance2(p, a).n = far
    BY NodesDistance
  <1>8. here \in Int
    <2> HIDE DEF m, e, far
    <2> QED
      BY <1>2, <1>4
  <1>9. CASE r = a /\ m <= 0
    <2>1. here >= far * (den * den)
      <3> HIDE DEF m, e, far
      <3> QED
        BY <1>2, <1>4, <1>9, StartIsBest
    <2> HIDE DEF here, far
    <2>2. Square(r.d) = 1 /\ here * 1 = here
      BY <1>2, <1>8, <1>9 DEF Square
    <2> QED
      BY <1>6, <1>7, <1>9, <2>1, <2>2 DEF NotCloser, Square
  <1>10. CASE r = b /\ m > e
    <2>1. here >= (far - 2 * m + e) * (den * den)
      <3> HIDE DEF m, e, far
      <3> QED
        BY <1>2, <1>4, <1>10, EndIsBest
    <2>2. Distance2(p, b).n = far - 2 * m + e
      <3>1. p.x - b.x = u - X /\ p.y - b.y = v - Y
        BY <1>2
      <3>2. Distance2(p, b).n = (u - X) * (u - X) + (v - Y) * (v - Y)
        BY <3>1, NodesDistance
      <3>3. (u - X) * (u - X) + (v - Y) * (v - Y) = (u * u + v * v) - 2 * (u * X + v * Y) + (X * X + Y * Y)
        <4> HIDE DEF u, v, X, Y
        <4> QED
          BY <1>3
      <3> QED
        BY <3>2, <3>3
    <2> HIDE DEF here, far, m, e
    <2>3. Square(r.d) = 1 /\ here * 1 = here
      BY <1>2, <1>8, <1>10 DEF Square
    <2> QED
      BY <1>6, <1>10, <2>1, <2>2, <2>3 DEF NotCloser, Square
  <1>11. CASE r = Value(a, b, m, e) /\ m >= 0 /\ m <= e /\ e # 0
    <2>1. here * (e * e) >= (e * e * far - e * m * m) * (den * den)
      <3>1. m \in Nat
        BY <1>4, <1>11
      <3> HIDE DEF m, e, far
      <3> QED
        BY <1>2, <1>4, <3>1, FootIsBest
    <2>2. Distance2(p, r).n = e * e * far - e * m * m /\ r.d = e
      <3>1. r.x = a.x * e + m * X /\ r.y = a.y * e + m * Y /\ r.d = e
        BY <1>11 DEF Value
      <3>2. p.x * e - r.x = u * e - m * X /\ p.y * e - r.y = v * e - m * Y
        <4> HIDE DEF m, e
        <4> QED
          BY <1>2, <1>4, <3>1
      <3>3. Distance2(p, r).n = (u * e - m * X) * (u * e - m * X) + (v * e - m * Y) * (v * e - m * Y)
        BY <3>1, <3>2 DEF Distance2, Square
      <3>4. m = u * X + v * Y /\ e = X * X + Y * Y /\ far = u * u + v * v
        OBVIOUS
      <3> HIDE DEF u, v, X, Y, m, e, far
      <3>5. (u * e - m * X) * (u * e - m * X) + (v * e - m * Y) * (v * e - m * Y)
              = e * e * (u * u + v * v) - e * m * m
        BY <1>3, <1>4, <3>4, Expand
      <3> QED
        BY <3>1, <3>3, <3>4, <3>5
    <2> HIDE DEF here, far, m, e
    <2> QED
      BY <1>6, <2>1, <2>2 DEF NotCloser, Square
  <1>12. e = 0 => m = 0
    <2> HIDE DEF u, v, X, Y
    <2> SUFFICES ASSUME X * X + Y * Y = 0 PROVE u * X + v * Y = 0
      OBVIOUS
    <2>1. X * X \in Nat /\ Y * Y \in Nat
      BY <1>3, SquareIsNat
    <2>2. X * X = 0 /\ Y * Y = 0
      BY <2>1
    <2>3. X = 0 /\ Y = 0
      BY <1>3, <2>2
    <2> QED
      BY <1>3, <2>3
  <1> HIDE DEF m, e
  <1> QED
    BY <1>4, <1>5, <1>9, <1>10, <1>11, <1>12

-----------------------------------------------------------------------------
(* What the two searches beside the node leave closer: nothing             *)
NoneCloser(k) == \A q : Between(q, node(k), node(k + 1)) => NotCloser(address, q, closest_point)

BestInv ==
    /\ pc = "after" => \A k \in {ind_closest_node - 1} \intersect Segments : NoneCloser(k)
    /\ pc = "done"  => \A k \in {ind_closest_node - 1, ind_closest_node} \intersect Segments : NoneCloser(k)

LEMMA BetweenIsPoint ==
  ASSUME NEW a \in PlaneNode, NEW b \in PlaneNode, NEW q, Between(q, a, b) PROVE q \in PlanePoint
  BY ValueIsPoint DEF Between

LEMMA SegmentEnds ==
  ASSUME CompressionInv, NodeInv, pc \in AfterUncompress, NEW k \in Segments
  PROVE  /\ k \in Nodes /\ k + 1 \in Nodes /\ address \in PlaneNode
         /\ node(k) \in PlaneNode /\ node(k + 1) \in PlaneNode
  <1>1. /\ Len(linestring) \in Nat /\ address \in PlaneNode
        /\ \A j \in Nodes : node(j) \in PlaneNode
    BY LineIsOnPlane
  <1>2. k \in Nodes /\ k + 1 \in Nodes
    BY <1>1 DEF Segments, Nodes
  <1> QED
    BY <1>1, <1>2

LEMMA BestBefore == ASSUME CompressionInv, NodeInv, segment_before PROVE BestInv'
  <1>1. pc = "before" /\ pc' = "after" /\ Kept /\ pc \in AfterUncompress
    BY DEF segment_before, compression_vars, Kept, AfterUncompress
  <1> SUFFICES ASSUME NEW k \in Segments, k = ind_closest_node - 1 PROVE NoneCloser(k)'
    BY <1>1, KeptNodes DEF BestInv, Kept
  <1>2. ind_closest_node > 0 /\ k + 1 = ind_closest_node
    <2>1. ind_closest_node \in Nodes /\ Len(linestring) \in Nat
      BY <1>1, LineIsOnPlane DEF NodeInv, Found
    <2> QED
      BY <2>1 DEF Segments, Nodes
  <1>3. closest_point' = get_closest_point_from_segment(node(k + 1), node(k), address)
    BY <1>2 DEF segment_before
  <1>4. /\ address \in PlaneNode /\ node(k) \in PlaneNode /\ node(k + 1) \in PlaneNode
    BY <1>1, SegmentEnds
  <1>5. \A q : Between(q, node(k), node(k + 1)) => NotCloser(address, q, closest_point')
    BY <1>3, <1>4, BetweenTurns, SegmentBest
  <1> QED
    BY <1>1, <1>5, KeptNodes DEF NoneCloser

LEMMA BestAfter == ASSUME CompressionInv, NodeInv, BestInv, segment_after PROVE BestInv'
  <1> DEFINE o == ind_closest_node
             candidate == get_closest_point_from_segment(node(o), node(o + 1), address)
  <1>1. pc = "after" /\ pc' = "done" /\ Kept /\ pc \in AfterUncompress /\ Found /\ Taken
    BY DEF segment_after, compression_vars, Kept, AfterUncompress, NodeInv
  <1>2. /\ closest_point' = IF o < Len(linestring) - 1
                            THEN IF Closer(candidate, closest_point) THEN candidate ELSE closest_point
                            ELSE closest_point
        /\ Len(linestring) \in Nat /\ o \in Nodes /\ address \in PlaneNode
        /\ closest_point \in PlanePoint
    BY <1>1, LineIsOnPlane DEF segment_after, Found, Taken
  <1> DEFINE Best(k, point) == \A q : Between(q, node(k), node(k + 1)) => NotCloser(address, q, point)
  <1>3. ASSUME NEW k \in Segments, k = o - 1 PROVE Best(k, closest_point)
    BY <1>1, <1>3 DEF BestInv, NoneCloser
  <1>4. o \in Segments => o < Len(linestring) - 1 /\ Best(o, candidate) /\ candidate \in PlanePoint
    <2> SUFFICES ASSUME o \in Segments
                 PROVE  o < Len(linestring) - 1 /\ Best(o, candidate) /\ candidate \in PlanePoint
      OBVIOUS
    <2>1. node(o) \in PlaneNode /\ node(o + 1) \in PlaneNode
      BY <1>1, SegmentEnds
    <2>2. o < Len(linestring) - 1
      BY <1>2 DEF Segments
    <2> QED
      BY <1>2, <2>1, <2>2, SegmentBest, SegmentPoint
  <1>5. o < Len(linestring) - 1 => o \in Segments
    BY <1>2 DEF Segments, Nodes
  <1>6. ASSUME NEW k \in Segments, k = o - 1 \/ k = o PROVE Best(k, closest_point')
    <2> SUFFICES ASSUME NEW q, Between(q, node(k), node(k + 1))
                 PROVE  NotCloser(address, q, closest_point')
      OBVIOUS
    <2>1. q \in PlanePoint
      BY <1>1, SegmentEnds, BetweenIsPoint
    <2>2. k = o - 1 => NotCloser(address, q, closest_point)
      BY <1>3
    <2>3. k = o => NotCloser(address, q, candidate) /\ candidate \in PlanePoint /\ o < Len(linestring) - 1
      BY <1>4
    <2> HIDE DEF candidate
    <2>4. CASE o < Len(linestring) - 1 /\ Closer(candidate, closest_point)
      <3>1. closest_point' = candidate /\ candidate \in PlanePoint
        BY <1>2, <1>4, <1>5, <2>4
      <3>2. k = o - 1 => NotCloser(address, q, candidate)
        BY <1>2, <2>1, <2>2, <2>4, <3>1, CloserIsBest DEF Closer
      <3> QED
        BY <1>6, <2>3, <3>1, <3>2
    <2>5. CASE o < Len(linestring) - 1 /\ ~Closer(candidate, closest_point)
      <3>1. closest_point' = closest_point /\ candidate \in PlanePoint
        BY <1>2, <1>4, <1>5, <2>5
      <3>2. NotCloser(address, candidate, closest_point)
        BY <1>2, <2>5, <3>1, NotLess DEF Closer
      <3>3. k = o => NotCloser(address, q, closest_point)
        BY <1>2, <2>1, <2>3, <3>1, <3>2, NotCloserChain
      <3> QED
        BY <1>6, <2>2, <3>1, <3>3
    <2>6. CASE ~(o < Len(linestring) - 1)
      BY <1>2, <1>6, <2>2, <2>3, <2>6
    <2> QED
      BY <2>4, <2>5, <2>6
  <1>7. \A k \in {o - 1, o} \intersect Segments : NoneCloser(k)'
    BY <1>1, <1>6, KeptNodes DEF NoneCloser
  <1> QED
    BY <1>1, <1>7, KeptNodes DEF BestInv, Kept

LEMMA BestStep == CompressionInv /\ NodeInv /\ BestInv /\ [Next]_vars => BestInv'
  <1> SUFFICES ASSUME CompressionInv, NodeInv, BestInv, [Next]_vars PROVE BestInv'
    OBVIOUS
  <1>1. CASE Compression \/ Uncompression \/ ClosestNode
    <2>1. pc' \notin {"after", "done"}
      BY <1>1 DEF Compression, Uncompression, begin_constructor, compress_point, end_constructor,
                  begin_uncompress, uncompress_point, end_uncompress, ClosestNode,
                  begin_get_closest_node, compare_node, take_node
    <2> QED
      BY <2>1 DEF BestInv
  <1>2. CASE segment_before \/ segment_after
    BY <1>2, BestBefore, BestAfter
  <1>3. CASE UNCHANGED vars
    <2>1. Kept /\ pc' = pc /\ closest_point' = closest_point
      BY <1>3 DEF vars, compression_vars, Kept
    <2>2. \A k : NoneCloser(k)' <=> NoneCloser(k)
      BY <2>1, KeptNodes DEF NoneCloser
    <2> QED
      BY <2>1, <2>2, KeptNodes DEF BestInv, Kept
  <1> QED
    BY <1>1, <1>2, <1>3 DEF Next

(* Of the segments beside the closest node no point at all is closer to    *)
(* the address than the one the connection line ends at.                   *)
THEOREM BestBeside == Spec => []BestBesideTheNode
  <1>1. CompressionInv /\ NodeInv /\ BestInv => BestBesideTheNode
    <2> SUFFICES ASSUME CompressionInv, NodeInv, BestInv, pc = "done",
                        NEW k \in {ind_closest_node - 1, ind_closest_node} \intersect Segments,
                        NEW p \in SamplesOf(k)
                 PROVE  ~Closer(p, closest_point)
      BY DEF BestBesideTheNode
    <2>1. pc \in AfterUncompress /\ closest_point \in PlanePoint
      BY DEF AfterUncompress, NodeInv, Taken
    <2>2. /\ address \in PlaneNode /\ node(k) \in PlaneNode /\ node(k + 1) \in PlaneNode
      BY <2>1, SegmentEnds
    <2>3. Between(p, node(k), node(k + 1))
      BY DEF SamplesOf, Sample, Between
    <2>4. NotCloser(address, p, closest_point)
      BY <2>3 DEF BestInv, NoneCloser
    <2>5. p \in PlanePoint
      BY <2>2, <2>3, BetweenIsPoint
    <2> QED
      BY <2>1, <2>2, <2>4, <2>5, NotLess DEF Closer
  <1>2. Init => BestInv
    BY DEF Init, CompressionInit, BestInv
  <1> QED
    BY <1>1, <1>2, BestStep, NodeAlways, PTL DEF Spec

-----------------------------------------------------------------------------
(* The counters of the loops                                               *)
CounterInv ==
    /\ num_points \in 0..(ShortSize - 1)
    /\ i \in 0..(Len(way) + 2)
    /\ Len(deltas) <= Len(way)
    /\ closest_point.d > 0

LEMMA CounterStep == CompressionInv /\ NodeInv /\ CounterInv /\ [Next]_vars => CounterInv'
  <1> SUFFICES ASSUME CompressionInv, NodeInv, CounterInv, [Next]_vars PROVE CounterInv'
    OBVIOUS
  <1>1. /\ Len(way) \in Nat /\ Len(way) >= 2 /\ ShortSize \in Nat \ {0} /\ num_points \in Nat
        /\ pc # "new" => num_points <= Len(way)
        /\ CompressionInv' /\ NodeInv'
    BY LineFacts, WidthAssumption, CompressionStep, NodeStep DEF CompressionInv, WayInv
  <1>2. ASSUME way' = way, num_points' = num_points, i' \in 0..(Len(way) + 2),
               Len(deltas') <= Len(way), closest_point'.d > 0
        PROVE  CounterInv'
    BY <1>2 DEF CounterInv
  <1>3. CASE begin_constructor /\ closest_point' = closest_point
    <2>1. num_points' \in 0..(ShortSize - 1) /\ 1 \in 0..(Len(way) + 2)
      BY <1>1, <1>3 DEF begin_constructor
    <2> QED
      BY <1>3, <2>1 DEF begin_constructor, CounterInv
  <1>4. CASE compress_point /\ closest_point' = closest_point
    <2>1. i' = i + 1 /\ i <= num_points - 2 /\ num_points <= Len(way) /\ i \in 0..(Len(way) + 2)
      BY <1>1, <1>4 DEF compress_point, CounterInv
    <2>2. pc' = "compress" /\ Len(deltas') = i' - 1
      BY <1>1, <1>4 DEF compress_point, CompressionInv, Compressing
    <2>3. i' \in 0..(Len(way) + 2) /\ Len(deltas') <= Len(way)
      BY <1>1, <2>1, <2>2
    <2> QED
      BY <1>2, <1>4, <2>3 DEF compress_point, CounterInv
  <1>5. CASE (end_constructor \/ end_uncompress) /\ closest_point' = closest_point
    BY <1>2, <1>5 DEF end_constructor, end_uncompress, CounterInv
  <1>6. CASE begin_uncompress /\ closest_point' = closest_point
    <2>1. 0 \in 0..(Len(way) + 2)
      BY <1>1
    <2> QED
      BY <1>2, <1>6, <2>1 DEF begin_uncompress, CounterInv
  <1>7. CASE uncompress_point /\ closest_point' = closest_point
    <2>1. i' = i + 1 /\ i <= num_points - 3 /\ num_points <= Len(way) /\ i \in 0..(Len(way) + 2)
      BY <1>1, <1>7 DEF uncompress_point, CounterInv
    <2>2. i' \in 0..(Len(way) + 2)
      BY <1>1, <2>1
    <2> QED
      BY <1>2, <1>7, <2>2 DEF uncompress_point, CounterInv
  <1>8. CASE begin_get_closest_node
    <2>1. 0 \in 0..(Len(way) + 2)
      BY <1>1
    <2> QED
      BY <1>2, <1>8, <2>1 DEF begin_get_closest_node, CounterInv
  <1>9. CASE compare_node
    <2>1. Len(linestring) = Inner + 2 /\ num_points <= Len(way) /\ i < Len(linestring) /\ i' = i + 1
      BY <1>1, <1>9 DEF compare_node, CompressionInv, Uncompressed, AfterUncompress
    <2>2. Inner + 2 <= Len(way) + 2
      BY <1>1, <2>1 DEF Inner
    <2>3. Inner \in Int
      BY <1>1 DEF Inner
    <2>4. i' \in 0..(Len(way) + 2)
      BY <1>1, <2>1, <2>2, <2>3 DEF CounterInv
    <2> QED
      BY <1>2, <1>9, <2>4 DEF compare_node, CounterInv
  <1>10. CASE take_node \/ segment_before \/ segment_after
    <2>1. /\ pc' \in {"before", "after", "done"} /\ UNCHANGED compression_vars
      BY <1>10 DEF take_node, segment_before, segment_after
    <2>2. closest_point' \in PlanePoint
      <3>1. CASE pc' = "before"
        <4>1. closest_point' = node(ind_closest_node)' /\ ind_closest_node' \in Nodes'
          BY <1>1, <3>1 DEF NodeInv, Found
        <4>2. \A k \in Nodes' : node(k)' = node(k) /\ k \in Nodes
          BY <2>1 DEF compression_vars, node, Nodes
        <4>3. node(ind_closest_node)' = node(ind_closest_node')
          BY <2>1 DEF compression_vars, node
        <4>4. pc \in AfterUncompress
          BY <1>10 DEF take_node, segment_before, segment_after, AfterUncompress
        <4>5. closest_point' \in PlaneNode
          BY <4>1, <4>2, <4>3, <4>4, LineIsOnPlane
        <4> QED
          BY <4>5 DEF PlaneNode, PlanePoint
      <3>2. CASE pc' \in {"after", "done"}
        BY <1>1, <3>2 DEF NodeInv, Taken
      <3> QED
        BY <2>1, <3>1, <3>2
    <2>3. closest_point'.d > 0
      BY <2>2 DEF PlanePoint
    <2> QED
      BY <1>2, <2>1, <2>3 DEF compression_vars, CounterInv
  <1>11. CASE UNCHANGED vars
    BY <1>2, <1>11 DEF vars, compression_vars, CounterInv
  <1> QED
    BY <1>3, <1>4, <1>5, <1>6, <1>7, <1>8, <1>9, <1>10, <1>11
    DEF Next, Compression, Uncompression, ClosestNode

(* The loops stay within the line, the counter within its width, and the   *)
(* index of the closest node within the nodes.                             *)
THEOREM ClosestTypes == Spec => []ClosestTypeOK
  <1>1. NodeInv /\ CounterInv => ClosestTypeOK
    BY DEF NodeInv, CounterInv, ClosestTypeOK, Searching, Found, Nodes
  <1>2. Init => CounterInv
    <2> SUFFICES ASSUME Init PROVE CounterInv
      OBVIOUS
    <2>1. /\ num_points = 0 /\ i = 0 /\ deltas = <<>> /\ closest_point.d = 1 /\ way \in Lines
      BY DEF Init, CompressionInit
    <2>2. /\ 0 \in 0..(ShortSize - 1) /\ Len(way) \in Nat /\ 0 \in 0..(Len(way) + 2)
      BY <2>1, LineFacts, WidthAssumption
    <2> QED
      BY <2>1, <2>2 DEF CounterInv
  <1> QED
    BY <1>1, <1>2, CounterStep, NodeAlways, PTL DEF Spec

-----------------------------------------------------------------------------
(* The operators of CompressedWay: compress goes along a path of places,   *)
(* each one rounded difference from the one before, and uncompress goes    *)
(* along the same.                                                         *)
PathOf(f, line) == f = [k \in 0..(Len(line) - 2) |->
    IF k = 0 THEN line[1] ELSE Moved(f[k - 1], Delta(f[k - 1], line[k + 1]))]
DifferencesOn(f, line) == [k \in 1..(Len(line) - 2) |-> Delta(f[k - 1], line[k + 1])]

LEMMA PathExists ==
  ASSUME NEW line \in Lines
  PROVE  \E f : PathOf(f, line)
  <1> DEFINE n == Len(line) - 2
             Further(p, k) == Moved(p, Delta(p, line[k + 1]))
             Step == [k \in 1..n |-> [p \in Place |-> IF Near(p, line[k]) THEN Further(p, k) ELSE p]]
  <1>1. /\ n \in Nat /\ \A k \in 1..(n + 2) : line[k] \in Location
    BY LineFacts
  <1>2. line[1] \in Place /\ Near(line[1], line[1])
    BY <1>1, LocationReaches
  <1> HIDE DEF n
  <1>3. \A k \in 1..n : \A p \in Place : Near(p, line[k]) =>
           Further(p, k) \in Place /\ Near(Further(p, k), line[k + 1])
    <2> SUFFICES ASSUME NEW k \in 1..n, NEW p \in Place, Near(p, line[k])
                 PROVE  Further(p, k) \in Place /\ Near(Further(p, k), line[k + 1])
      OBVIOUS
    <2>1. line[k] \in Location /\ line[k + 1] \in Location
      BY <1>1
    <2> QED
      BY <2>1, OneRounding
  <1> HIDE DEF Further
  <1>4. Step \in [1..n -> [Place -> Place]]
    BY <1>3
  <1>5. PICK g : Steps(g, n, line[1], Step, Place)
    <2> HIDE DEF Step
    <2> QED
      BY <1>1, <1>2, <1>4, Recursion
  <1>6. g \in [0..n -> Place] /\ g[0] = line[1] /\ \A k \in 1..n : g[k] = Step[k][g[k - 1]]
    BY <1>5 DEF Steps
  <1> DEFINE I == {k \in Nat : k <= n => Near(g[k], line[k + 1])}
  <1>7. 0 \in I
    BY <1>1, <1>2, <1>6
  <1>8. ASSUME NEW k \in Nat, k \in I PROVE k + 1 \in I
    <2> SUFFICES ASSUME k + 1 <= n PROVE Near(g[k + 1], line[(k + 1) + 1])
      OBVIOUS
    <2>1. k + 1 \in 1..n /\ (k + 1) - 1 = k /\ k \in 0..n /\ Near(g[k], line[k + 1])
      BY <1>1, <1>8
    <2>2. g[k] \in Place /\ g[k + 1] = Step[k + 1][g[k]]
      BY <1>6, <2>1
    <2>3. g[k + 1] = Further(g[k], k + 1)
      BY <2>1, <2>2
    <2> QED
      BY <1>3, <2>1, <2>2, <2>3
  <1>9. Nat \subseteq I
    <2> HIDE DEF I
    <2> QED
      BY <1>7, <1>8, Induction
  <1>10. \A k \in 1..n : g[k] = Further(g[k - 1], k)
    <2> SUFFICES ASSUME NEW k \in 1..n PROVE g[k] = Further(g[k - 1], k)
      OBVIOUS
    <2>1. k - 1 \in Nat /\ k - 1 <= n /\ k - 1 \in 0..n /\ (k - 1) + 1 = k
      BY <1>1
    <2>2. g[k - 1] \in Place /\ Near(g[k - 1], line[k])
      BY <1>6, <1>9, <2>1
    <2> QED
      BY <1>6, <2>2
  <1>11. \A k \in 0..n : g[k] = IF k = 0 THEN line[1] ELSE Further(g[k - 1], k)
    <2> SUFFICES ASSUME NEW k \in 0..n, k # 0 PROVE g[k] = Further(g[k - 1], k)
      BY <1>6
    <2>1. k \in 1..n
      BY <1>1
    <2> QED
      BY <1>10, <2>1
  <1>12. g = [k \in 0..n |-> IF k = 0 THEN line[1] ELSE Further(g[k - 1], k)]
    BY <1>6, <1>11
  <1>13. PathOf(g, line)
    BY <1>12 DEF PathOf, n, Further
  <1> QED
    BY <1>13

LEMMA CompressIs ==
  ASSUME NEW line \in Lines
  PROVE  \E f : /\ PathOf(f, line)
                /\ compress(line) = [first |-> line[1], last |-> line[Len(line)],
                                     deltas |-> DifferencesOn(f, line)]
  <1>1. \E f : PathOf(f, line)
    BY PathExists
  <1>2. PICK f : /\ PathOf(f, line)
                 /\ compress(line) = [first |-> line[1], last |-> line[Len(line)],
                                      deltas |-> [k \in 1..(Len(line) - 2) |-> Delta(f[k - 1], line[k + 1])]]
    BY <1>1 DEF compress, PathOf
  <1> QED
    BY <1>2 DEF DifferencesOn

LEMMA UncompressIs ==
  ASSUME NEW c, NEW n \in Nat, Len(c.deltas) = n, NEW f,
         f = [k \in 0..n |-> IF k = 0 THEN c.first ELSE Moved(f[k - 1], c.deltas[k])]
  PROVE  uncompress(c) = [k \in 1..(n + 2) |-> IF k = n + 2 THEN c.last ELSE f[k - 1]]
  <1> DEFINE Back(g) == g = [k \in 0..n |-> IF k = 0 THEN c.first ELSE Moved(g[k - 1], c.deltas[k])]
  <1>1. Back(f)
    OBVIOUS
  <1>2. PICK g : /\ Back(g)
                 /\ uncompress(c) = [k \in 1..(n + 2) |-> IF k = n + 2 THEN c.last ELSE g[k - 1]]
    BY <1>1 DEF uncompress
  <1>3. ASSUME NEW h, Back(h)
        PROVE  h[0] = c.first /\ \A k \in 1..n : h[k] = Moved(h[k - 1], c.deltas[k])
    BY <1>3
  <1> HIDE DEF Back
  <1>4. f[0] = c.first /\ \A k \in 1..n : f[k] = Moved(f[k - 1], c.deltas[k])
    BY <1>1, <1>3
  <1>5. g[0] = c.first /\ \A k \in 1..n : g[k] = Moved(g[k - 1], c.deltas[k])
    BY <1>2, <1>3
  <1> DEFINE I == {k \in Nat : k <= n => g[k] = f[k]}
  <1>6. 0 \in I
    BY <1>4, <1>5
  <1>7. ASSUME NEW k \in Nat, k \in I PROVE k + 1 \in I
    <2> SUFFICES ASSUME k + 1 <= n PROVE g[k + 1] = f[k + 1]
      OBVIOUS
    <2>1. k + 1 \in 1..n /\ (k + 1) - 1 = k /\ g[k] = f[k]
      BY <1>7
    <2> QED
      BY <1>4, <1>5, <2>1
  <1>8. Nat \subseteq I
    <2> HIDE DEF I
    <2> QED
      BY <1>6, <1>7, Induction
  <1>9. \A k \in 1..(n + 2) : k # n + 2 => g[k - 1] = f[k - 1]
    <2> SUFFICES ASSUME NEW k \in 1..(n + 2), k # n + 2 PROVE g[k - 1] = f[k - 1]
      OBVIOUS
    <2>1. k - 1 \in Nat /\ k - 1 <= n
      OBVIOUS
    <2> QED
      BY <1>8, <2>1
  <1> QED
    BY <1>2, <1>9

(* So that the line that comes back is the path with the true end.         *)
LEMMA ThereAndBack ==
  ASSUME NEW line \in Lines
  PROVE  \E f : /\ PathOf(f, line)
                /\ uncompress(compress(line)) =
                     [k \in 1..Len(line) |-> IF k = Len(line) THEN line[Len(line)] ELSE f[k - 1]]
  <1> DEFINE n == Len(line) - 2
             c == compress(line)
  <1>1. n \in Nat /\ n + 2 = Len(line)
    BY LineFacts
  <1>2. PICK f : /\ PathOf(f, line)
                 /\ c = [first |-> line[1], last |-> line[n + 2], deltas |-> DifferencesOn(f, line)]
    BY <1>1, CompressIs
  <1>3. /\ c.first = line[1] /\ c.last = line[n + 2]
        /\ c.deltas = [k \in 1..n |-> Delta(f[k - 1], line[k + 1])]
    BY <1>2 DEF DifferencesOn
  <1>4. f = [k \in 0..n |-> IF k = 0 THEN line[1] ELSE Moved(f[k - 1], Delta(f[k - 1], line[k + 1]))]
    BY <1>2 DEF PathOf
  <1> HIDE DEF c, n
  <1>5. Len(c.deltas) = n
    <2> DEFINE ds == [k \in 1..n |-> Delta(f[k - 1], line[k + 1])]
               S == {ds[k] : k \in 1..n}
    <2>1. ds \in [1..n -> S]
      OBVIOUS
    <2> HIDE DEF ds, S
    <2>2. ds \in Seq(S) /\ DOMAIN ds = 1..n
      BY <1>1, <2>1, SeqDef
    <2>3. Len(ds) = n
      BY <1>1, <2>2, LenProperties
    <2> QED
      BY <1>3, <2>3 DEF ds
  <1>6. f = [k \in 0..n |-> IF k = 0 THEN c.first ELSE Moved(f[k - 1], c.deltas[k])]
    <2>1. \A k \in 0..n : k # 0 => c.deltas[k] = Delta(f[k - 1], line[k + 1])
      BY <1>1, <1>3
    <2> QED
      BY <1>3, <1>4, <2>1
  <1>7. uncompress(c) = [k \in 1..(n + 2) |-> IF k = n + 2 THEN c.last ELSE f[k - 1]]
    BY <1>1, <1>5, <1>6, UncompressIs
  <1>8. uncompress(c) = [k \in 1..Len(line) |-> IF k = Len(line) THEN line[Len(line)] ELSE f[k - 1]]
    <2> HIDE DEF PathOf
    <2> QED
      BY <1>1, <1>3, <1>7
  <1> QED
    BY <1>2, <1>8 DEF c

(* The loops go along that path: the sum and the differences so far are    *)
(* its own, and so are prev and the points so far.                         *)
Follows(f) ==
    /\ pc = "compress" =>
          /\ sum = f[i - 1]
          /\ \A k \in 1..(i - 1) : deltas[k] = Delta(f[k - 1], way[k + 1])
    /\ pc \in {"compressed", "uncompress"} =>
          \A k \in 1..(Len(way) - 2) : deltas[k] = Delta(f[k - 1], way[k + 1])
    /\ pc = "uncompress" =>
          /\ prev = f[i]
          /\ \A k \in 1..(i + 1) : linestring[k] = f[k - 1]
    /\ pc = "uncompressed" =>
          \A k \in 1..(Len(way) - 1) : linestring[k] = f[k - 1]

LoopInv == Len(way) < ShortSize => \A f : PathOf(f, way) => Follows(f)

LEMMA PathSteps ==
  ASSUME NEW line \in Lines, NEW f, PathOf(f, line)
  PROVE  /\ f[0] = line[1]
         /\ \A k \in 1..(Len(line) - 2) : f[k] = Moved(f[k - 1], Delta(f[k - 1], line[k + 1]))
  <1>1. Len(line) - 2 \in Nat
    BY LineFacts
  <1> DEFINE n == Len(line) - 2
  <1>2. f = [k \in 0..n |-> IF k = 0 THEN line[1] ELSE Moved(f[k - 1], Delta(f[k - 1], line[k + 1]))]
    BY DEF PathOf
  <1> HIDE DEF n
  <1>3. 0 \in 0..n /\ \A k \in 1..n : k \in 0..n /\ k # 0
    BY <1>1 DEF n
  <1>4. f[0] = line[1] /\ \A k \in 1..n : f[k] = Moved(f[k - 1], Delta(f[k - 1], line[k + 1]))
    BY <1>2, <1>3
  <1> QED
    BY <1>4 DEF n

LEMMA SeqWider == ASSUME NEW S, NEW T, NEW s \in Seq(S) PROVE s \in Seq(S \union T)
  <1>1. s \in [1..Len(s) -> S] /\ Len(s) \in Nat
    BY LenProperties
  <1> DEFINE n == Len(s)
  <1>2. s \in [1..n -> S \union T] /\ n \in Nat
    BY <1>1
  <1> HIDE DEF n
  <1> QED
    BY <1>2, SeqDef

LEMMA FollowsStep ==
  ASSUME CompressionInv, NEW f, PathOf(f, way), Len(way) < ShortSize, Follows(f), [Next]_vars
  PROVE  Follows(f)'
  <1>1. /\ way \in Lines /\ Len(way) \in Nat /\ Len(way) >= 2 /\ num_points \in Nat
        /\ pc # "new" => num_points = Len(way) /\ Inner = Len(way) - 2
    BY LineFacts DEF CompressionInv, WayInv, Inner
  <1>2. /\ f[0] = way[1]
        /\ \A k \in 1..(Len(way) - 2) : f[k] = Moved(f[k - 1], Delta(f[k - 1], way[k + 1]))
    BY <1>1, PathSteps
  <1>3. CompressionInv'
    BY CompressionStep
  <1>4. CASE begin_constructor
    <2>1. /\ pc' = "compress" /\ i' = 1 /\ sum' = way[1] /\ way' = way
      BY <1>4 DEF begin_constructor
    <2>2. i' - 1 = 0 /\ 1..(i' - 1) = {}
      BY <2>1
    <2> QED
      BY <1>2, <2>1, <2>2 DEF Follows
  <1>5. CASE compress_point
    <2>1. /\ pc = "compress" /\ pc' = "compress" /\ i' = i + 1 /\ way' = way /\ i <= num_points - 2
          /\ deltas' = Append(deltas, Delta(sum, way[i + 1])) /\ sum' = Moved(sum, deltas'[i])
      BY <1>5 DEF compress_point
    <2>2. /\ deltas \in Seq(Place) /\ Len(deltas) = i - 1 /\ i \in Nat \ {0} /\ sum \in Place
      BY <2>1 DEF CompressionInv, Compressing
    <2>3. /\ sum = f[i - 1] /\ \A k \in 1..(i - 1) : deltas[k] = Delta(f[k - 1], way[k + 1])
      BY <2>1 DEF Follows
    <2> DEFINE delta == Delta(sum, way[i + 1])
    <2>4. deltas'[i] = delta /\ \A k \in 1..(i - 1) : deltas'[k] = deltas[k]
      <3>1. delta \in Place
        <4>1. i + 1 \in 1..Len(way) /\ i \in 1..Len(way)
          BY <1>1, <2>1, <2>2
        <4>2. Near(sum, way[i]) /\ way[i] \in Location /\ way[i + 1] \in Location
          BY <1>1, <2>1, <4>1, LineFacts DEF CompressionInv, Compressing
        <4> QED
          BY <2>2, <4>2, OneRounding
      <3> HIDE DEF delta
      <3>2. deltas' = Append(deltas, delta)
        BY <2>1 DEF delta
      <3> QED
        BY <2>2, <3>1, <3>2, AppendProperties
    <2>5. i \in 1..(Len(way) - 2) /\ i' - 1 = i
      BY <1>1, <2>1, <2>2
    <2>6. sum' = f[i' - 1]
      BY <1>2, <2>1, <2>3, <2>4, <2>5
    <2>7. \A k \in 1..i : deltas'[k] = Delta(f[k - 1], way[k + 1])
      <3> SUFFICES ASSUME NEW k \in 1..i PROVE deltas'[k] = Delta(f[k - 1], way[k + 1])
        OBVIOUS
      <3>1. CASE k = i
        BY <3>1, <2>3, <2>4
      <3>2. CASE k # i
        <4>1. k \in 1..(i - 1)
          BY <3>2, <2>2
        <4> QED
          BY <2>3, <2>4, <4>1
      <3> QED
        BY <3>1, <3>2
    <2> QED
      BY <2>1, <2>5, <2>6, <2>7 DEF Follows
  <1>6. CASE end_constructor
    <2>1. /\ pc = "compress" /\ pc' = "compressed" /\ way' = way /\ deltas' = deltas /\ i > num_points - 2
      BY <1>6 DEF end_constructor
    <2>2. i - 1 = Len(way) - 2
      BY <1>1, <2>1 DEF CompressionInv, Compressing
    <2> QED
      BY <2>1, <2>2 DEF Follows
  <1>7. CASE begin_uncompress
    <2>1. /\ pc = "compressed" /\ pc' = "uncompress" /\ way' = way /\ deltas' = deltas
          /\ i' = 0 /\ prev' = first /\ linestring' = <<first>> /\ first = way[1]
      BY <1>7 DEF begin_uncompress, CompressionInv, WayInv
    <2>2. linestring'[1] = f[0] /\ \A k \in 1..(i' + 1) : k = 1 /\ k - 1 = 0
      BY <1>2, <2>1
    <2> QED
      BY <1>2, <2>1, <2>2 DEF Follows
  <1>8. CASE uncompress_point
    <2>1. /\ pc = "uncompress" /\ pc' = "uncompress" /\ way' = way /\ deltas' = deltas
          /\ i' = i + 1 /\ prev' = Moved(prev, deltas[i + 1]) /\ i <= num_points - 3
          /\ linestring' = Append(linestring, Moved(prev, deltas[i + 1]))
      BY <1>8 DEF uncompress_point
    <2>2. /\ prev = f[i] /\ \A k \in 1..(i + 1) : linestring[k] = f[k - 1]
          /\ \A k \in 1..(Len(way) - 2) : deltas[k] = Delta(f[k - 1], way[k + 1])
      BY <2>1 DEF Follows
    <2>3. /\ i \in Nat /\ linestring \in Seq(Reachable) /\ Len(linestring) = i + 1
      BY <1>1, <2>1 DEF CompressionInv, Uncompressing
    <2>4. i + 1 \in 1..(Len(way) - 2) /\ (i + 1) - 1 = i
      BY <1>1, <2>1, <2>3
    <2>5. prev' = f[i + 1]
      BY <1>2, <2>1, <2>2, <2>4
    <2>6. \A k \in 1..(i + 2) : linestring'[k] = f[k - 1]
      <3> DEFINE to == Moved(prev, deltas[i + 1])
      <3>1. linestring' = Append(linestring, to) /\ to = f[i + 1]
        BY <2>1, <2>5
      <3> HIDE DEF to
      <3>2. linestring'[i + 2] = to /\ \A k \in 1..(i + 1) : linestring'[k] = linestring[k]
        <4>1. linestring \in Seq(Reachable \union {to}) /\ to \in Reachable \union {to}
          BY <2>3, SeqWider
        <4> QED
          BY <2>3, <3>1, <4>1, AppendProperties
      <3>3. ASSUME NEW k \in 1..(i + 2) PROVE linestring'[k] = f[k - 1]
        <4>1. CASE k = i + 2
          <5>1. k - 1 = i + 1
            BY <2>3, <4>1
          <5> QED
            BY <3>1, <3>2, <4>1, <5>1
        <4>2. CASE k # i + 2
          <5>1. k \in 1..(i + 1)
            BY <2>3, <4>2
          <5> QED
            BY <2>2, <3>2, <5>1
        <4> QED
          BY <4>1, <4>2
      <3> QED
        BY <3>3
    <2>7. i' + 1 = i + 2
      BY <2>1, <2>3
    <2> QED
      BY <2>1, <2>2, <2>5, <2>6, <2>7 DEF Follows
  <1>9. CASE end_uncompress
    <2>1. /\ pc = "uncompress" /\ pc' = "uncompressed" /\ way' = way /\ i > num_points - 3
          /\ linestring' = Append(linestring, last)
      BY <1>9 DEF end_uncompress
    <2>2. /\ \A k \in 1..(i + 1) : linestring[k] = f[k - 1]
      BY <2>1 DEF Follows
    <2>3. /\ i \in Nat /\ linestring \in Seq(Reachable) /\ Len(linestring) = i + 1
          /\ last \in Reachable /\ i \in 0..Inner
      BY <1>1, <2>1 DEF CompressionInv, Uncompressing
    <2>4. i + 1 = Len(way) - 1
      BY <1>1, <2>1, <2>3
    <2>5. \A k \in 1..(i + 1) : linestring'[k] = linestring[k]
      BY <2>1, <2>3, AppendProperties
    <2> QED
      BY <2>1, <2>2, <2>4, <2>5 DEF Follows
  <1>10. CASE ClosestNode \/ segment_before \/ segment_after
    <2>1. pc' \in {"nodes", "before", "after", "done"}
      BY <1>10 DEF ClosestNode, begin_get_closest_node, compare_node, take_node, segment_before, segment_after
    <2> QED
      BY <2>1 DEF Follows
  <1>11. CASE UNCHANGED vars
    BY <1>11 DEF vars, compression_vars, Follows
  <1> QED
    BY <1>4, <1>5, <1>6, <1>7, <1>8, <1>9, <1>10, <1>11 DEF Next, Compression, Uncompression

LEMMA LoopStep == CompressionInv /\ LoopInv /\ [Next]_vars => LoopInv'
  <1> SUFFICES ASSUME CompressionInv, LoopInv, [Next]_vars, (Len(way) < ShortSize)',
                      NEW f, PathOf(f, way')
               PROVE  Follows(f)'
    BY DEF LoopInv
  <1>1. way' = way
    BY DEF Next, vars, compression_vars, Compression, Uncompression, ClosestNode, begin_constructor,
           compress_point, end_constructor, begin_uncompress, uncompress_point, end_uncompress,
           begin_get_closest_node, compare_node, take_node, segment_before, segment_after
  <1>2. Len(way) < ShortSize /\ PathOf(f, way)
    BY <1>1
  <1>3. Follows(f)
    BY <1>2 DEF LoopInv
  <1> QED
    BY <1>2, <1>3, FollowsStep

(* What the second pass is modelled with is what the two loops compute,    *)
(* for every line that an unsigned short can count.                        *)
THEOREM OperatorsMatch == Spec => []LoopsAreOperators
  <1>1. CompressionInv /\ LoopInv => LoopsAreOperators
    <2> SUFFICES ASSUME CompressionInv, LoopInv, pc = "uncompressed", Len(way) < ShortSize
                 PROVE  linestring = uncompress(compress(way))
      BY DEF LoopsAreOperators
    <2> DEFINE n == Len(way)
               Path(f) == [k \in 1..n |-> IF k = n THEN way[n] ELSE f[k - 1]]
    <2>1. way \in Lines /\ n \in Nat /\ n >= 2 /\ num_points = n /\ Inner + 2 = n
      BY LineFacts DEF CompressionInv, WayInv, Inner
    <2>2. PICK f : PathOf(f, way) /\ uncompress(compress(way)) = Path(f)
      BY <2>1, ThereAndBack
    <2>3. \A k \in 1..(n - 1) : linestring[k] = f[k - 1]
      BY <2>2 DEF LoopInv, Follows
    <2>4. linestring \in Seq(Reachable) /\ Len(linestring) = n /\ linestring[n] = way[n]
      BY <2>1 DEF CompressionInv, AfterUncompress, Uncompressed
    <2> HIDE DEF n
    <2>5. linestring = [k \in 1..n |-> linestring[k]]
      BY <2>4, LenProperties
    <2>6. \A k \in 1..n : linestring[k] = IF k = n THEN way[n] ELSE f[k - 1]
      <3> SUFFICES ASSUME NEW k \in 1..n, k # n PROVE linestring[k] = f[k - 1]
        BY <2>4
      <3>1. k \in 1..(n - 1)
        BY <2>1
      <3> QED
        BY <2>3, <3>1
    <2> QED
      BY <2>2, <2>5, <2>6
  <1>2. Init => LoopInv
    BY DEF Init, CompressionInit, LoopInv, Follows
  <1> QED
    BY <1>1, <1>2, LoopStep, CompressionAlways, PTL DEF Spec
=============================================================================
