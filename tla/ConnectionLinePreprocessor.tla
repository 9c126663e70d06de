--------------------- MODULE ConnectionLinePreprocessor ---------------------
(***************************************************************************)
(* ConnectionLinePreprocessor.hpp: finds the street or place that an       *)
(* address refers to, and says which features to write for it. A feature   *)
(* to write is a call [layer, row]; a result is a sequence of calls with   *)
(* the id strings that the function hands back, TRUE for "1".              *)
(***************************************************************************)
EXTENDS FirstHandler

CONSTANTS MAXDIST,           \* 0.01 degrees, in location units
          MaxDistance,       \* Distance's measure of MAXDIST
          OverCos(_, _),     \* a tolerance / cos(latitude), in location units
          Narrow(_),         \* what float keeps of a number of location units
          LonSum(_)          \* the same of the sums with OverCos: as Narrow, or exact
                             \* if it is the cos of double that the build finds

(* The names that the file of addresses and the tables have to agree on    *)
ASSUME NamesAssumption ==
    /\ "" \in Names
    /\ \A file \in InputFiles : \A i \in DOMAIN file :
          \A key \in (NameKeys \union {"addr:street", "addr:place"}) \intersect DOMAIN file[i].tags :
              file[i].tags[key] \in Names

Nothing == [found |-> FALSE]

call(layer, row) == [layer |-> layer, row |-> row]

-----------------------------------------------------------------------------
(* GeometryHelper::int162lat and ::int162lon                               *)
int162lat(step) == Narrow(step * LatCell)
int162lon(step) == Narrow(step * LonCell)

tolerance == Narrow(MAXDIST)
tolerance_lon(point) == OverCos(tolerance, Narrow(point.lat))

(* Faulty: nothing is too far in the east.                                 *)
is_point_near_bbox_eastless(box, point) ==
    /\ Narrow(point.lat) < Narrow(int162lat(box.n) + tolerance)
    /\ Narrow(point.lat) > Narrow(int162lat(box.s) - tolerance)
    /\ Narrow(point.lon) > LonSum(int162lon(box.w) - tolerance_lon(point))

(* GeometryHelper::is_point_near_bbox: all of it in float                  *)
is_point_near_bbox(box, point) ==
    /\ Narrow(point.lat) < Narrow(int162lat(box.n) + tolerance)
    /\ Narrow(point.lat) > Narrow(int162lat(box.s) - tolerance)
    /\ Narrow(point.lon) < LonSum(int162lon(box.e) + tolerance_lon(point))
    /\ Narrow(point.lon) > LonSum(int162lon(box.w) - tolerance_lon(point))

(* The entries of a name in the order in which get_closest_way looks at    *)
(* them: areas before the others, each kind in the order of insertion.     *)
lookups(name) ==
    LET Of(multimap, area) == [i \in DOMAIN multimap[name] |->
                                 [entry |-> multimap[name][i], is_area |-> area]]
    IN Of(name2highway_area, TRUE) \o Of(name2highway_nonarea, FALSE)

(* Faulty: the second multimap starts with its own best distance.          *)
get_closest_way_from_argument_restarted(best, lookup, point) ==
    LET cur_dist == Distance(point, uncompress(lookup.entry.compr_way))
    IN IF /\ is_point_near_bbox(lookup.entry.bbox, point)
          /\ best.found /\ best.is_area = lookup.is_area => cur_dist < best.cur_dist
       THEN [found |-> TRUE, way_id |-> lookup.entry.way_id,
             is_area |-> lookup.is_area, cur_dist |-> cur_dist]
       ELSE best

(* A round of get_closest_way_from_argument: only a strictly smaller       *)
(* distance replaces the best.                                             *)
get_closest_way_from_argument(best, lookup, point) ==
    LET cur_dist == Distance(point, uncompress(lookup.entry.compr_way))
    IN IF /\ is_point_near_bbox(lookup.entry.bbox, point)
          /\ best.found => cur_dist < best.cur_dist
       THEN [found |-> TRUE, way_id |-> lookup.entry.way_id,
             is_area |-> lookup.is_area, cur_dist |-> cur_dist]
       ELSE best

get_closest_way(point, name) ==
    LET ways == lookups(name)
        best[i \in 0..Len(ways)] ==
            IF i = 0 THEN Nothing
            ELSE get_closest_way_from_argument(best[i - 1], ways[i], point)
    IN best[Len(ways)]

(* get_closest_place: best_dist is never updated, so that the last place   *)
(* in range wins, and any way in range wins over the nodes.                *)
get_closest_place(point, name) ==
    LET InRange(multimap) == {i \in DOMAIN multimap[name] :
                                Distance(point, <<multimap[name][i].ogrpoint>>) < MaxDistance}
        Latest(multimap) == multimap[name][Largest(InRange(multimap))].ogrpoint
    IN IF InRange(name2place_wayy) # {}
       THEN [found |-> TRUE, is_nody |-> FALSE, closest_point |-> Latest(name2place_wayy)]
       ELSE IF InRange(name2place_nody) # {}
       THEN [found |-> TRUE, is_nody |-> TRUE, closest_point |-> Latest(name2place_nody)]
       ELSE Nothing

has_entry_in_name2highways(name) == name2highway_nonarea[name] # <<>> \/ name2highway_area[name] # <<>>
has_entry_in_name2place(name) == name2place_nody[name] # <<>> \/ name2place_wayy[name] # <<>>

-----------------------------------------------------------------------------
(* ConnectionLineWriter::write_line. An end on a way is named by the way,  *)
(* an end at a place by the place's location.                              *)
write_line(type, id, end) == call("connection_line", [type |-> type, id |-> id, end |-> end])

(* NearestPointsWriter::write_point, NearestAreasWriter::write_area and    *)
(* NearestRoadsWriter::write_road, which see to it later that a way is     *)
(* written only once (write_next of SecondHandler).                        *)
write_point(way) == call("nearest_points", [way_id |-> way.way_id])
write_way(way, name) ==
    call(IF way.is_area THEN "nearest_areas" ELSE "nearest_roads", [way_id |-> way.way_id, name |-> name])

NoStreet == [calls |-> <<>>, road_id |-> FALSE]

(* Faulty: the point is written before its road.                           *)
handle_connection_line_street_reordered(point, id, type, name) ==
    LET way == get_closest_way(point, name) IN
    IF ~way.found THEN NoStreet
    ELSE [calls |-> << write_line(type, id, <<"way", way.way_id>>),
                       write_point(way), write_way(way, name) >>,
          road_id |-> TRUE]

(* Faulty: no point for an interpolated address.                           *)
handle_connection_line_street_pointless(point, id, type, name) ==
    LET way == get_closest_way(point, name)
        calls == << write_line(type, id, <<"way", way.way_id>>),
                    write_way(way, name) >>
    IN IF ~way.found THEN NoStreet
       ELSE [calls |-> IF type = "interpolated" THEN calls
                       ELSE Append(calls, write_point(way)),
             road_id |-> TRUE]

(* handle_connection_line_street; the geometry of the point on the way is  *)
(* left out.                                                               *)
handle_connection_line_street(point, id, type, name) ==
    LET way == get_closest_way(point, name) IN
    IF ~way.found THEN NoStreet
    ELSE [calls |-> << write_line(type, id, <<"way", way.way_id>>),
                       write_way(way, name), write_point(way) >>,
          road_id |-> TRUE]

NoPlace == [calls |-> <<>>, nody_place_id |-> FALSE, wayy_place_id |-> FALSE]

(* handle_connection_line_place: the line is written with id 0.            *)
handle_connection_line_place(point, type, name) ==
    LET place == get_closest_place(point, name) IN
    IF ~place.found THEN NoPlace
    ELSE [calls |-> << write_line(type, 0, <<"place", place.closest_point>>) >>,
          nody_place_id |-> place.is_nody,
          wayy_place_id |-> ~place.is_nody]

-----------------------------------------------------------------------------
StreetOf(o, point, type) ==
    IF Has(o, "addr:street") /\ has_entry_in_name2highways(o.tags["addr:street"])
    THEN handle_connection_line_street(point, o.id, type, o.tags["addr:street"])
    ELSE NoStreet

PlaceOf(o, point, type, key) ==
    IF Has(o, key) /\ has_entry_in_name2place(o.tags[key])
    THEN handle_connection_line_place(point, type, o.tags[key])
    ELSE NoPlace

(* Faulty: the second place overwrites what was found for the first.       *)
process_node_overwrites(node) ==
    LET street == StreetOf(node, node.loc, "node")
        place1 == PlaceOf(node, node.loc, "node", "addr:street")
        place2 == PlaceOf(node, node.loc, "node", "addr:place")
    IN [calls         |-> street.calls \o place1.calls \o place2.calls,
        road_id       |-> street.road_id,
        nody_place_id |-> place2.nody_place_id,
        wayy_place_id |-> place2.wayy_place_id]

(* process_node: a node's addr:street may name a place as well.            *)
process_node(node) ==
    LET street == StreetOf(node, node.loc, "node")
        place1 == PlaceOf(node, node.loc, "node", "addr:street")
        place2 == PlaceOf(node, node.loc, "node", "addr:place")
    IN [calls         |-> street.calls \o place1.calls \o place2.calls,
        road_id       |-> street.road_id,
        nody_place_id |-> place1.nody_place_id \/ place2.nody_place_id,
        wayy_place_id |-> place1.wayy_place_id \/ place2.wayy_place_id]

(* process_way of a closed way, from its centroid                          *)
process_way(way, centroid) ==
    LET street == StreetOf(way, centroid, "way")
        place  == PlaceOf(way, centroid, "way", "addr:place")
    IN [calls         |-> street.calls \o place.calls,
        road_id       |-> street.road_id,
        nody_place_id |-> place.nody_place_id,
        wayy_place_id |-> place.wayy_place_id]

(* Faulty: road_id is passed by value.                                     *)
process_interpolated_node_unflagged(point, street) ==
    IF has_entry_in_name2highways(street)
    THEN [handle_connection_line_street(point, 0, "interpolated", street) EXCEPT !.road_id = FALSE]
    ELSE NoStreet

process_interpolated_node(point, street) ==
    IF has_entry_in_name2highways(street)
    THEN handle_connection_line_street(point, 0, "interpolated", street)
    ELSE NoStreet
=============================================================================
