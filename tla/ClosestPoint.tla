---------------------------- MODULE ClosestPoint ----------------------------
(***************************************************************************)
(* Where a connection line ends on a street: from the line that was        *)
(* compressed in the first pass and is uncompressed in the second, in the  *)
(* plane of the Mercator projection, get_closest_node takes a node and     *)
(* get_closest_point_from_node_neighbourhood a point beside it             *)
(* (ConnectionLinePreprocessor.hpp:147-154). A point of the plane is       *)
(* [x, y, d], at x/d and y/d; squared distances are fractions n/d.         *)
(***************************************************************************)
EXTENDS WayCompression

CONSTANTS
    Points,         \* locations of addresses
    Mercator(_),    \* wgs2mercator, from a location to [x, y]
    Infinity        \* numeric_limits<double>::max()

(* Where the points of lines can be after their compression                *)
Reachable == [lat : -Err..(Width + Err), lon : -Err..(Width + Err)] \union Garbage

VARIABLES
    ogr_point,          \* the address
    min_dist,           \* get_closest_node's, squared
    ind_closest_node,   \* from 0
    closest_point       \* a point of the plane

vars == <<pc, compression_vars, ogr_point, min_dist, ind_closest_node, closest_point>>

Init == /\ CompressionInit
        /\ ogr_point \in Points
        /\ min_dist = Infinity
        /\ ind_closest_node = 0
        /\ closest_point = [x |-> 0, y |-> 0, d |-> 1]

-----------------------------------------------------------------------------
OnPlane(location) == [x |-> Mercator(location).x, y |-> Mercator(location).y, d |-> 1]
node(k) == OnPlane(linestring[k + 1])       \* closest_way->getPoint(k, ...)
address == OnPlane(ogr_point)

Square(n) == n * n
(* The squared distance of a node p, which has p.d = 1, to any q           *)
Distance2(p, q) == [n |-> Square(p.x * q.d - q.x) + Square(p.y * q.d - q.y), d |-> Square(q.d)]
Less(a, b) == a.n * b.d < b.n * a.d
Closer(p, q) == Less(Distance2(address, p), Distance2(address, q))

ASSUME PlaneAssumption ==
    \A location \in Reachable \union Points :
        Mercator(location).x \in Int /\ Mercator(location).y \in Int
ASSUME InfinityAssumption ==
    /\ Infinity \in Int
    /\ \A point \in Points, location \in Reachable :
          Distance2(OnPlane(point), OnPlane(location)).n < Infinity

(* The point at num/den of the way from a to b                             *)
Value(a, b, num, den) ==
    [x |-> a.x * den + num * (b.x - a.x), y |-> a.y * den + num * (b.y - a.y), d |-> den]

(* The point of the segment from a to b that is closest to p. If a and b   *)
(* are the same, r is 0/0, neither below 0 nor above 1.                    *)
get_closest_point_from_segment(a, b, p) ==
    LET num == (p.x - a.x) * (b.x - a.x) + (p.y - a.y) * (b.y - a.y)
        den == Square(b.x - a.x) + Square(b.y - a.y)
    IN IF num < 0 \/ den = 0 THEN a
       ELSE IF num > den THEN b
       ELSE Value(a, b, num, den)

-----------------------------------------------------------------------------
begin_get_closest_node ==
    /\ pc = "uncompressed"
    /\ i' = 0
    /\ min_dist' = Infinity
    /\ ind_closest_node' = 0
    /\ pc' = "nodes"
    /\ UNCHANGED <<way, num_points, first, last, deltas, sum, prev, linestring, ogr_point, closest_point>>

(* Faulty: min_dist is never assigned.                                     *)
compare_node_unassigned ==
    /\ pc = "nodes"
    /\ i < Len(linestring)
    /\ LET dist == Distance2(address, node(i)).n
       IN IF dist < min_dist
          THEN ind_closest_node' = i /\ UNCHANGED min_dist
          ELSE UNCHANGED <<min_dist, ind_closest_node>>
    /\ i' = i + 1
    /\ UNCHANGED <<way, pc, num_points, first, last, deltas, sum, prev, linestring, ogr_point, closest_point>>

(* Faulty: the index of the next node.                                     *)
compare_node_off_by_one ==
    /\ pc = "nodes"
    /\ i < Len(linestring)
    /\ LET dist == Distance2(address, node(i)).n
       IN IF dist < min_dist
          THEN min_dist' = dist /\ ind_closest_node' = i + 1
          ELSE UNCHANGED <<min_dist, ind_closest_node>>
    /\ i' = i + 1
    /\ UNCHANGED <<way, pc, num_points, first, last, deltas, sum, prev, linestring, ogr_point, closest_point>>

compare_node ==
    /\ pc = "nodes"
    /\ i < Len(linestring)
    /\ LET dist == Distance2(address, node(i)).n
       IN IF dist < min_dist
          THEN min_dist' = dist /\ ind_closest_node' = i
          ELSE UNCHANGED <<min_dist, ind_closest_node>>
    /\ i' = i + 1
    /\ UNCHANGED <<way, pc, num_points, first, last, deltas, sum, prev, linestring, ogr_point, closest_point>>

(* get_closest_node returns; the closest point is the node to begin with.  *)
take_node ==
    /\ pc = "nodes"
    /\ i = Len(linestring)
    /\ closest_point' = node(ind_closest_node)
    /\ pc' = "before"
    /\ UNCHANGED <<compression_vars, ogr_point, min_dist, ind_closest_node>>

(* The segment before the node: what it gives is as close at least.        *)
segment_before ==
    /\ pc = "before"
    /\ closest_point' =
         IF ind_closest_node > 0
         THEN get_closest_point_from_segment(node(ind_closest_node), node(ind_closest_node - 1), address)
         ELSE closest_point
    /\ pc' = "after"
    /\ UNCHANGED <<compression_vars, ogr_point, min_dist, ind_closest_node>>

(* Faulty: the second segment's point is taken in any case.                *)
segment_after_unconditional ==
    /\ pc = "after"
    /\ closest_point' =
         IF ind_closest_node < Len(linestring) - 1
         THEN get_closest_point_from_segment(node(ind_closest_node), node(ind_closest_node + 1), address)
         ELSE closest_point
    /\ pc' = "done"
    /\ UNCHANGED <<compression_vars, ogr_point, min_dist, ind_closest_node>>

(* The segment after it, if that gives a closer point.                     *)
segment_after ==
    /\ pc = "after"
    /\ closest_point' =
         IF ind_closest_node < Len(linestring) - 1
         THEN LET candidate == get_closest_point_from_segment(
                                   node(ind_closest_node), node(ind_closest_node + 1), address)
              IN IF Closer(candidate, closest_point) THEN candidate ELSE closest_point
         ELSE closest_point
    /\ pc' = "done"
    /\ UNCHANGED <<compression_vars, ogr_point, min_dist, ind_closest_node>>

ClosestNode == begin_get_closest_node \/ compare_node \/ take_node

Next == \/ (Compression \/ Uncompression) /\ UNCHANGED <<ogr_point, min_dist, ind_closest_node, closest_point>>
        \/ ClosestNode
        \/ segment_before \/ segment_after

Spec == Init /\ [][Next]_vars

-----------------------------------------------------------------------------
Segments == 0..(Len(linestring) - 2)
(* Points of the line, a number of them from each segment                  *)
Sample == 12
SamplesOf(k) == {Value(node(k), node(k + 1), num, Sample) : num \in 0..Sample}

ClosestTypeOK ==
    /\ num_points \in 0..(ShortSize - 1)
    /\ i \in 0..(Len(way) + 2)
    /\ Len(deltas) <= Len(way)
    /\ pc \in {"nodes", "before", "after", "done"} => ind_closest_node \in 0..(Len(linestring) - 1)
    /\ closest_point.d > 0

(* The line ends at a point of the street that is as close to the address  *)
(* as every one of its nodes (ConnectionLinePreprocessor.hpp:327): the two *)
(* searches agree, and none of the four early ends loses the best so far.  *)
AsCloseAsEveryNode == pc = "done" =>
    /\ \A k \in 0..(Len(linestring) - 1) : ~Closer(node(k), closest_point)
    /\ \E k \in Segments :
          LET a == node(k)
              b == node(k + 1)
              p == closest_point
          IN /\ (p.x - a.x * p.d) * (b.y - a.y) = (p.y - a.y * p.d) * (b.x - a.x)
             /\ (p.x - a.x * p.d) * (p.x - b.x * p.d) <= 0
             /\ (p.y - a.y * p.d) * (p.y - b.y * p.d) <= 0

(* No sampled point of the segments beside the closest node is closer, on  *)
(* whatever side the better one is. (The sample is for TLC; BestBeside has *)
(* every fraction of them.)                                                *)
BestBesideTheNode == pc = "done" =>
    \A k \in {ind_closest_node - 1, ind_closest_node} \intersect Segments :
        \A p \in SamplesOf(k) : ~Closer(p, closest_point)

(* "given the linestring closest_way, return the point on it that is       *)
(* closest to ogr_point" (ConnectionLinePreprocessor.hpp:308)              *)
ClosestOnTheLine == pc = "done" =>
    \A k \in Segments : \A p \in SamplesOf(k) : ~Closer(p, closest_point)
=============================================================================
