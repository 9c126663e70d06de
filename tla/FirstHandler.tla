---------------------------- MODULE FirstHandler ----------------------------
(***************************************************************************)
(* The first pass (FirstHandler.hpp): it collects the end nodes of         *)
(* interpolation ways and, by name, the highways and places that the       *)
(* second pass looks up. A multimap is a function from the names to the    *)
(* sequence of the name's entries in the order of insertion.               *)
(***************************************************************************)
EXTENDS OsmData

CONSTANTS LatCell, LonCell,  \* units per step of the int16 latitudes and longitudes
          Float(_)           \* see CompressedWay

INSTANCE CompressedWay

ASSUME CellAssumption == LatCell \in Nat \ {0} /\ LonCell \in Nat \ {0}

VARIABLES
    addr_interpolation_node_set,    \* unsigned ids
    name2highway_area,       \* [Names -> Seq(highway_lookup_type)]
    name2highway_nonarea,
    name2place_nody,         \* [Names -> Seq(place_lookup_type)]
    name2place_wayy

first_vars == <<addr_interpolation_node_set, name2highway_area, name2highway_nonarea,
                name2place_nody, name2place_wayy>>

FirstInit ==
    /\ addr_interpolation_node_set = {}
    /\ name2highway_area    = [n \in Names |-> <<>>]
    /\ name2highway_nonarea = [n \in Names |-> <<>>]
    /\ name2place_nody      = [n \in Names |-> <<>>]
    /\ name2place_wayy      = [n \in Names |-> <<>>]

NameKeys == {"name", "name:left", "name:right", "alt_name", "official_name",
             "short_name", "ref"}
get_streetnames(way) == {way.tags[key] : key \in NameKeys \intersect DOMAIN way.tags}

(* multimap::insert of the same entry under some names                     *)
Insert(multimap, names, entry) ==
    [n \in Names |-> IF n \in names THEN Append(multimap[n], entry) ELSE multimap[n]]

-----------------------------------------------------------------------------
(* get_bbox, rounded away from the way to int16 steps                      *)
Floor(x, cell) == x \div cell
(* Faulty: rounded down, as the southern and western edges are.            *)
Ceil_down(x, cell) == x \div cell
Ceil(x, cell) == -((-x) \div cell)
Largest(S)  == CHOOSE x \in S : \A y \in S : y <= x
Smallest(S) == CHOOSE x \in S : \A y \in S : x <= y

bbox(line) ==
    LET lats == {line[i].lat : i \in DOMAIN line}
        lons == {line[i].lon : i \in DOMAIN line}
    IN [n |-> Ceil(Largest(lats), LatCell),  e |-> Ceil(Largest(lons), LonCell),
        s |-> Floor(Smallest(lats), LatCell), w |-> Floor(Smallest(lons), LonCell)]

highway_entry(way, line) ==
    [way_id |-> way.id, bbox |-> bbox(line),
     compr_way |-> compress(linestring(line))]

is_area(way) == (Is(way, "area", "yes") \/ Is(way, "area", "true")) /\ is_closed(way)

-----------------------------------------------------------------------------
(* FirstHandler::node. create_point throws, uncaught, if the node has no   *)
(* location: see FirstNodeAborts.                                          *)
FirstNodeAborts(node) == Has(node, "place") /\ Has(node, "name") /\ node.loc = Undefined

first_node(node) ==
    /\ name2place_nody' =
         IF Has(node, "place") /\ Has(node, "name")
         THEN Insert(name2place_nody, {node.tags["name"]},
                     [obj_id |-> node.id, ogrpoint |-> node.loc])
         ELSE name2place_nody
    /\ UNCHANGED <<addr_interpolation_node_set, name2highway_area,
                   name2highway_nonarea, name2place_wayy>>

(* Faulty: the last node is forgotten.                                     *)
save_first_interpolation_end(way) ==
    addr_interpolation_node_set' =
        IF Len(way.refs) >= 2 /\ Has(way, "addr:interpolation")
        THEN addr_interpolation_node_set \union {first_node_id(way)}
        ELSE addr_interpolation_node_set

(* The end nodes are noted before anything looks at the way's geometry.    *)
save_interpolation_ends(way) ==
    addr_interpolation_node_set' =
        IF Len(way.refs) >= 2 /\ Has(way, "addr:interpolation")
        THEN addr_interpolation_node_set \union {first_node_id(way), last_node_id(way)}
        ELSE addr_interpolation_node_set

(* A geometry error or a dangling reference ends the handler: nothing of a *)
(* highway is inserted then, and neither is the place.                     *)
save_highway(way, line) ==
    LET names == IF Len(way.refs) >= 2 /\ Has(way, "highway") /\ linestring_ok(line)
                 THEN get_streetnames(way) ELSE {}
        Into(multimap) == Insert(multimap, names, highway_entry(way, line))
    IN /\ name2highway_area' =
            IF names # {} /\ is_area(way) THEN Into(name2highway_area) ELSE name2highway_area
       /\ name2highway_nonarea' =
            IF names # {} /\ ~is_area(way) THEN Into(name2highway_nonarea) ELSE name2highway_nonarea

save_place(way, line) ==
    LET highway_failed == /\ Has(way, "highway") /\ get_streetnames(way) # {}
                          /\ ~linestring_ok(line)
    IN name2place_wayy' =
         IF /\ Len(way.refs) >= 2
            /\ Has(way, "place") /\ Has(way, "name") /\ is_closed(way)
            /\ ~highway_failed /\ centroid_ok(line)
         THEN Insert(name2place_wayy, {way.tags["name"]},
                     [obj_id |-> way.id, ogrpoint |-> Centroid(line)])
         ELSE name2place_wayy

(* FirstHandler::way                                                       *)
first_way(way, index) ==
    LET line == locations(way, index) IN
    /\ save_interpolation_ends(way)
    /\ save_highway(way, line)
    /\ save_place(way, line)
    /\ UNCHANGED name2place_nody
=============================================================================
