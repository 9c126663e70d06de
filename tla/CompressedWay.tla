---------------------------- MODULE CompressedWay ----------------------------
(***************************************************************************)
(* CompressedWay.hpp: a line kept as its end points and the float          *)
(* differences between the points in between. Every difference is taken    *)
(* from the point the earlier differences lead to, so that rounding errors *)
(* do not add up.                                                          *)
(***************************************************************************)
EXTENDS Integers, Sequences

CONSTANT Float(_)   \* a coordinate difference after its conversion to float

Moved(loc, delta) == [lat |-> loc.lat + delta.lat, lon |-> loc.lon + delta.lon]
Delta(from, to) == [lat |-> Float(to.lat - from.lat), lon |-> Float(to.lon - from.lon)]

(* The constructor; sum[i] is where the first i differences lead.          *)
compress(line) ==
    LET n == Len(line)
        sum[i \in 0..(n - 2)] ==
            IF i = 0 THEN line[1] ELSE Moved(sum[i - 1], Delta(sum[i - 1], line[i + 1]))
    IN [first  |-> line[1],
        last   |-> line[n],
        deltas |-> [i \in 1..(n - 2) |-> Delta(sum[i - 1], line[i + 1])]]

uncompress(c) ==
    LET k == Len(c.deltas)
        prev[i \in 0..k] == IF i = 0 THEN c.first ELSE Moved(prev[i - 1], c.deltas[i])
    IN [i \in 1..(k + 2) |-> IF i = k + 2 THEN c.last ELSE prev[i - 1]]
=============================================================================
