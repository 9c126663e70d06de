--------------------------- MODULE WayCompression ---------------------------
(***************************************************************************)
(* CompressedWay.hpp, loop by loop: the constructor takes a line apart and *)
(* uncompress() puts it together again. Sums of doubles are exact here;    *)
(* what is rounded is the differences, to float.                           *)
(***************************************************************************)
EXTENDS CompressedWay

CONSTANTS
    Lines,      \* lines to be compressed
    Width,      \* their coordinates are in 0..Width
    Err,        \* the largest error of Float
    ShortSize,  \* 2^16, the number of values of an unsigned short
    Garbage     \* what may be found in front of a line's first point

Location == [lat : 0..Width, lon : 0..Width]
Place == [lat : Int, lon : Int]
Differences == -(Width + Err)..(Width + Err)

(* OGRFactory leaves out repeated points and throws if only one is left.   *)
ASSUME LinesAssumption ==
    \A line \in Lines : /\ line \in Seq(Location)
                        /\ Len(line) >= 2
                        /\ \A k \in 2..Len(line) : line[k] # line[k - 1]
ASSUME WidthAssumption == Width \in Nat /\ Err \in Nat /\ ShortSize \in Nat \ {0}
ASSUME FloatAssumption ==
    \A x \in Differences : Float(x) \in Int /\ Float(x) - x \in -Err..Err
ASSUME GarbageAssumption == Garbage \subseteq Place

VARIABLES
    way,            \* the constructor's argument
    pc,             \* what comes next
    i,              \* the loops' variable
    num_points,     \* as an unsigned short
    first, last, deltas,
    sum,            \* the constructor's, where the differences lead
    prev,           \* uncompress's, the same
    linestring      \* the result

compression_vars == <<way, i, num_points, first, last, deltas, sum, prev, linestring>>

CompressionInit ==
    /\ way \in Lines
    /\ pc = "new"
    /\ i = 0
    /\ num_points = 0
    /\ first = way[1] /\ last = way[1] /\ sum = way[1] /\ prev = way[1]
    /\ deltas = <<>>
    /\ linestring = <<>>

-----------------------------------------------------------------------------
begin_constructor ==
    /\ pc = "new"
    /\ num_points' = Len(way) % ShortSize
    /\ first' = way[1]
    /\ sum' = way[1]
    /\ i' = 1
    /\ pc' = "compress"
    /\ UNCHANGED <<way, last, deltas, prev, linestring>>

(* Faulty: differences between the points of the way, without the sum.     *)
compress_point_unsummed ==
    /\ pc = "compress"
    /\ i <= num_points - 2
    /\ deltas' = Append(deltas, Delta(sum, way[i + 1]))
    /\ sum' = way[i + 1]
    /\ i' = i + 1
    /\ UNCHANGED <<way, pc, num_points, first, last, prev, linestring>>

compress_point ==
    /\ pc = "compress"
    /\ i <= num_points - 2
    /\ deltas' = Append(deltas, Delta(sum, way[i + 1]))
    /\ sum' = Moved(sum, deltas'[i])
    /\ i' = i + 1
    /\ UNCHANGED <<way, pc, num_points, first, last, prev, linestring>>

(* With no points, getX(-1) reads in front of the line's array.            *)
end_constructor ==
    /\ pc = "compress"
    /\ i > num_points - 2
    /\ last' \in IF num_points > 0 THEN {way[num_points]} ELSE Garbage
    /\ pc' = "compressed"
    /\ UNCHANGED <<way, i, num_points, first, deltas, sum, prev, linestring>>

begin_uncompress ==
    /\ pc = "compressed"
    /\ linestring' = <<first>>
    /\ prev' = first
    /\ i' = 0
    /\ pc' = "uncompress"
    /\ UNCHANGED <<way, num_points, first, last, deltas, sum>>

(* Faulty: prev stays at the first point.                                  *)
uncompress_point_from_first ==
    /\ pc = "uncompress"
    /\ i <= num_points - 3
    /\ linestring' = Append(linestring, Moved(prev, deltas[i + 1]))
    /\ i' = i + 1
    /\ UNCHANGED <<way, pc, num_points, first, last, deltas, sum, prev>>

uncompress_point ==
    /\ pc = "uncompress"
    /\ i <= num_points - 3
    /\ linestring' = Append(linestring, Moved(prev, deltas[i + 1]))
    /\ prev' = Moved(prev, deltas[i + 1])
    /\ i' = i + 1
    /\ UNCHANGED <<way, pc, num_points, first, last, deltas, sum>>

end_uncompress ==
    /\ pc = "uncompress"
    /\ i > num_points - 3
    /\ linestring' = Append(linestring, last)
    /\ pc' = "uncompressed"
    /\ UNCHANGED <<way, i, num_points, first, last, deltas, sum, prev>>

Compression == begin_constructor \/ compress_point \/ end_constructor
Uncompression == begin_uncompress \/ uncompress_point \/ end_uncompress

-----------------------------------------------------------------------------
Near(a, b) == a.lat - b.lat \in -Err..Err /\ a.lon - b.lon \in -Err..Err

(* The errors of the differences do not add up: however long the line, its *)
(* points come back with an error of one float difference, and its ends    *)
(* with none (the running sum of CompressedWay.hpp:17). A line with more   *)
(* points than fit an unsigned short comes back in part.                   *)
LineComesBack == pc \in {"uncompress", "uncompressed"} =>
    /\ linestring[1] = way[1]
    /\ \A k \in 2..Len(linestring) : k < num_points => Near(linestring[k], way[k])
    /\ pc = "uncompressed" /\ Len(way) < ShortSize =>
          /\ Len(linestring) = Len(way)
          /\ linestring[Len(way)] = way[Len(way)]

(* The operators of CompressedWay, which the second pass is modelled with, *)
(* are what the two loops compute.                                         *)
LoopsAreOperators ==
    pc = "uncompressed" /\ Len(way) < ShortSize => linestring = uncompress(compress(way))
=============================================================================
