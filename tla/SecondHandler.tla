---------------------------- MODULE SecondHandler ----------------------------
(***************************************************************************)
(* The second pass (SecondHandler.hpp) with its writers. A handler's run   *)
(* over one object is the sequence of its features to write; they are then *)
(* written one by one, because the process may end between any two.        *)
(***************************************************************************)
EXTENDS ConnectionLinePreprocessor, Interpolation, SequencesExt

CONSTANTS GrowSize,     \* by how much a SparseMemTable grows past the id that is set
          MaxTable,     \* the largest table that the memory has room for
          Raw(_),       \* what the code observes of a house number, see Interpolation
          Row, CommitLimit, CommitFaults    \* see Writer

(* There is room for each id that is not negative.                         *)
ASSUME SizesAssumption ==
    /\ GrowSize \in Nat \ {0} /\ CommitLimit \in Nat
    /\ MaxTable \in Nat /\ GrowSize <= MaxTable /\ 2 * MaxTable < IdSize
    /\ \A id \in NodeIds : id + GrowSize <= MaxTable

(* atoi's result is read as unsigned, and a character has a code.          *)
HouseNumbers == {""} \union UNION {{file[i].tags["addr:housenumber"] :
                    i \in {i \in DOMAIN file : Has(file[i], "addr:housenumber")}} : file \in InputFiles}
ASSUME RawAssumption == \A houseno \in HouseNumbers :
    Raw(houseno).atoi \in Nat /\ Raw(houseno).char \in Nat

VARIABLES
    calls,                          \* features the current handler has still to write
    addr_interpolation_node_map,    \* [NodeIds -> AltTagList], by the signed ids
    table_size,                     \* size of the table behind it, or Overrun
    written_ways,                   \* of NearestRoadsWriter and NearestAreasWriter
    disk, txn, num_features, constructed, destroyed, exit    \* see Writer

(* The writers in the order of their construction                          *)
LayerOrder == <<"nodes_with_addresses", "nearest_points", "nearest_roads", "nearest_areas",
                "connection_line", "entrances", "interpolation", "buildings",
                "addrx_on_nonclosed_way", "ways_with_addresses", "ways_with_postal_code">>

INSTANCE Writer WITH Layers <- LayerOrder

second_vars == <<calls, addr_interpolation_node_map, table_size, written_ways>>
layer_vars  == <<disk, txn, num_features, constructed, destroyed, exit>>

EmptyTagList == [key \in {} |-> ""]
AltTagList(o) == [key \in AddrKeys \intersect DOMAIN o.tags |-> o.tags[key]]
get_value_by_key(tags, key) == IF key \in DOMAIN tags THEN tags[key] ELSE ""

SecondInit ==
    /\ calls = <<>>
    /\ addr_interpolation_node_map = [id \in NodeIds |-> EmptyTagList]
    /\ table_size = GrowSize
    /\ written_ways = [l \in {"nearest_roads", "nearest_areas"} |-> {}]
    /\ WriterInit

When(condition, sequence) == IF condition THEN sequence ELSE <<>>

(* A row of nodes_with_addresses; nr is the number of an interpolated node *)
(* and 0 in the others. ids are the id strings of the preprocessor.        *)
address(type, id, tags, nr, ids) ==
    call("nodes_with_addresses",
         [type |-> type, id |-> id, tags |-> tags, nr |-> nr, road_id |-> ids.road_id,
          nody_place_id |-> ids.nody_place_id, wayy_place_id |-> ids.wayy_place_id])

(* NodesWithAddressesWriter::process_node, ::process_way (if there is a    *)
(* centroid) and ::process_interpolated_node, which writes the tags that   *)
(* are missing as empty strings                                            *)
address_of_node(node, ids) ==
    When(HasAny(node, AddrKeys), <<address("node", node.id, AltTagList(node), 0, ids)>>)

is_address_building(way) == Has(way, "building") /\ is_closed(way)

address_of_way(way, ids) ==
    When(is_address_building(way) /\ HasAny(way, {"addr:street", "addr:housenumber"}),
         <<address("way", way.id, AltTagList(way), 0, ids)>>)

address_of_interpolation(nr, tags, ids) ==
    address("interpolated", 0,
            [key \in AddrKeys \ {"addr:housenumber"} |-> get_value_by_key(tags, key)],
            nr, [road_id |-> ids.road_id, nody_place_id |-> FALSE, wayy_place_id |-> FALSE])

way_row(way) == [way_id |-> way.id]

-----------------------------------------------------------------------------
is_entrance(node) == Has(node, "entrance") \/ Is(node, "building", "entrance")

(* create_point throws, uncaught, for a node without a location.           *)
SecondNodeAborts(node) ==
    /\ node.loc = Undefined
    /\ is_entrance(node) \/ HasAny(node, AddrKeys)

(* EntrancesWriter::feed_node                                              *)
feed_entrances(node) ==
    When(is_entrance(node), <<call("entrances", [node_id |-> node.id])>>)

NodeCalls(node) ==
    LET ids == process_node(node)
    IN feed_entrances(node) \o ids.calls \o address_of_node(node, ids)

(* Faulty: the tags of interpolation end nodes are not kept.               *)
second_node_unsaved(node) ==
    /\ calls' = NodeCalls(node)
    /\ UNCHANGED <<addr_interpolation_node_map, table_size, written_ways>>

(* m_addr_interpolation_node_map.set(): the table is resized for an id     *)
(* beyond it, to a size that is unsigned and wraps around.                 *)
resized(id) == IF id < table_size THEN table_size
               ELSE IF id + GrowSize < IdSize THEN id + GrowSize
               ELSE id + GrowSize - IdSize

(* A size that there is no memory for, or that does not include the id,    *)
(* so that set() writes outside of the table: the end of the process.      *)
Overrun == 0
set_fails(id) == resized(id) > MaxTable \/ resized(id) <= id

(* SecondHandler::node. The features are given to the layers before set(). *)
second_node(node) ==
    LET id == unsigned(node.id) IN
    /\ calls' = NodeCalls(node)
    /\ IF id \in addr_interpolation_node_set /\ ~set_fails(id)
       THEN /\ addr_interpolation_node_map' =
                 [addr_interpolation_node_map EXCEPT ![node.id] = AltTagList(node)]
            /\ table_size' = resized(id)
       ELSE /\ UNCHANGED addr_interpolation_node_map
            /\ table_size' = IF id \in addr_interpolation_node_set THEN Overrun ELSE table_size
    /\ UNCHANGED written_ways

-----------------------------------------------------------------------------
(* InterpolationWriter::feed_way asks for the tags of both end nodes; an   *)
(* id beyond the table is a not_found that nobody catches.                 *)
SecondWayAborts(way, line) ==
    /\ is_way_with_nonzero_length(line)
    /\ Has(way, "addr:interpolation")
    /\ first_node_id(way) >= table_size \/ last_node_id(way) >= table_size

(* The way for Interpolation, with the tags of its end nodes.              *)
interpolation(way, tags, stray) ==
    LET first_tags == tags[way.refs[1]]
        last_tags  == tags[way.refs[Len(way.refs)]]
    IN [kind      |-> way.tags["addr:interpolation"],
        first_raw |-> Raw(get_value_by_key(first_tags, "addr:housenumber")),
        last_raw  |-> Raw(get_value_by_key(last_tags, "addr:housenumber")),
        same_tags |-> \A key \in AddrKeys \ {"addr:housenumber"} :
                         get_value_by_key(first_tags, key) = get_value_by_key(last_tags, key),
        closed    |-> is_closed(way),
        stray     |-> stray]

interpolations(way) ==
    IF Has(way, "addr:interpolation")
    THEN {interpolation(way, addr_interpolation_node_map, stray) : stray \in BOOLEAN}
    ELSE {Nothing}

(* One round of the loop over the house numbers                            *)
interpolated_node(ip, nr, tags, line) ==
    LET point == PointAlong(linestring(line), abs_diff(nr, first_of(ip)),
                            abs_diff(last_of(ip), first_of(ip)))
        ids == process_interpolated_node(point, get_value_by_key(tags, "addr:street"))
    IN Append(ids.calls, address_of_interpolation(nr, tags, ids))

(* InterpolationWriter::feed_way; the nodes carry the tags of the first    *)
(* end node.                                                               *)
feed_interpolation(way, line, ip) ==
    LET tags == addr_interpolation_node_map[way.refs[1]]
    IN When(Has(way, "addr:interpolation"),
            FlattenSeq([i \in DOMAIN numbers(ip) |-> interpolated_node(ip, numbers(ip)[i], tags, line)])
            \o <<call("interpolation", [way_id |-> way.id, error |-> error(ip)])>>)

(* AddrXOnNonClosedWayWriter::feed_way, with the twenty keys it asks for   *)
AddrXKeys == AddrKeys \union
    {"addr:conscriptionnumber", "addr:housename", "addr:flats", "addr:door", "addr:unit",
     "addr:floor", "addr:hamlet", "addr:suburb", "addr:district", "addr:subdistrict",
     "addr:province", "addr:region", "addr:state"}

feed_addrx(way) ==
    When(~is_closed(way) /\ HasAny(way, AddrXKeys), <<call("addrx_on_nonclosed_way", way_row(way))>>)

(* WaysWithAddressesWriter::feed_way                                       *)
feed_ways_with_addresses(way, line) ==
    When(/\ is_address_building(way) /\ polygon_ok(line)
         /\ HasAny(way, {"addr:street", "addr:housenumber", "addr:place"}),
         <<call("ways_with_addresses", [way_id |-> way.id, tags |-> AltTagList(way)])>>)

(* WaysWithPostalCodeWriter::feed_way                                      *)
feed_postal_code(way) ==
    When(Has(way, "postal_code"), <<call("ways_with_postal_code", way_row(way))>>)

(* process_way of the preprocessor and of NodesWithAddressesWriter, both   *)
(* from the centroid. Without one they write nothing.                      *)
centroid_calls(way, line) ==
    LET ids == process_way(way, Centroid(line))
    IN When(is_closed(way) /\ centroid_ok(line), ids.calls \o address_of_way(way, ids))

WayCalls(way, line, ip) ==
    When(is_way_with_nonzero_length(line),
         feed_interpolation(way, line, ip) \o feed_addrx(way) \o
         feed_ways_with_addresses(way, line) \o feed_postal_code(way) \o
         centroid_calls(way, line))

(* SecondHandler::way                                                      *)
second_way(way, line) ==
    /\ \E ip \in interpolations(way) : calls' = WayCalls(way, line, ip)
    /\ UNCHANGED <<addr_interpolation_node_map, table_size, written_ways>>

-----------------------------------------------------------------------------
(* Faulty: the way is not noted as written.                                *)
write_next_unnoted ==
    /\ exit = "none"
    /\ calls # <<>>
    /\ LET c == Head(calls) IN create_feature(c.layer, c.row)
    /\ calls' = Tail(calls)
    /\ UNCHANGED <<addr_interpolation_node_map, table_size, written_ways>>

(* The next feature. write_road and write_area write a way only once.      *)
write_next ==
    /\ exit = "none"
    /\ calls # <<>>
    /\ LET c == Head(calls)
           once == c.layer \in DOMAIN written_ways
       IN IF once /\ c.row.way_id \in written_ways[c.layer]
          THEN UNCHANGED <<written_ways, layer_vars>>
          ELSE /\ create_feature(c.layer, c.row)
               /\ written_ways' = IF once
                                  THEN [written_ways EXCEPT ![c.layer] = @ \union {c.row.way_id}]
                                  ELSE written_ways
    /\ calls' = Tail(calls)
    /\ UNCHANGED <<addr_interpolation_node_map, table_size>>
=============================================================================
