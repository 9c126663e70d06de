---------------------------- MODULE OsmiAddresses ----------------------------
(***************************************************************************)
(* main.cpp: two passes over the input file, the first with FirstHandler,  *)
(* the second with SecondHandler, both after the handler that keeps the    *)
(* nodes' locations for the ways.                                          *)
(***************************************************************************)
EXTENDS SecondHandler

CONSTANTS CompressionError,  \* Distance's measure of what Float moves two lines by
          NarrowError        \* how far Narrow and LonSum are from what they are given

(* The tolerances that is_point_near_bbox means are MAXDIST, and           *)
LonTolerance(lat) == OverCos(MAXDIST, lat)

(* Coordinates are integers, and the compression moves no line by more.    *)
ASSUME GeometryAssumption ==
    /\ MAXDIST \in Int /\ CompressionError \in Nat
    /\ \A f \in InputFiles : \A point \in PointsIn(f) :
          /\ point.lat \in Int /\ point.lon \in Int /\ LonTolerance(point.lat) \in Int
          /\ \A line \in LinesIn(f) :
                LET true == Distance(point, line)
                    kept == Distance(point, uncompress(compress(linestring(line))))
                IN /\ true \in Int /\ kept \in Int
                   /\ 2 * (kept - true) \in -CompressionError..CompressionError

(* Nothing that is_point_near_bbox computes is further off, for the points *)
(* and the lines of a file. Near the poles, where LonTolerance grows       *)
(* beyond every bound, it would be.                                        *)
Close(kept, exact) == kept \in Int /\ kept - exact \in -NarrowError..NarrowError
ASSUME FloatAssumption ==
    /\ NarrowError \in Nat
    /\ Close(tolerance, MAXDIST)
    /\ \A f \in InputFiles : \A point \in PointsIn(f) :
          /\ Close(Narrow(point.lat), point.lat) /\ Close(Narrow(point.lon), point.lon)
          /\ Close(tolerance_lon(point), LonTolerance(point.lat))
          /\ \A line \in LinesIn(f) :
                LET box   == bbox(line)
                    north == int162lat(box.n) + tolerance
                    south == int162lat(box.s) - tolerance
                    east  == int162lon(box.e) + tolerance_lon(point)
                    west  == int162lon(box.w) - tolerance_lon(point)
                IN /\ Close(int162lat(box.n), box.n * LatCell) /\ Close(Narrow(north), north)
                   /\ Close(int162lat(box.s), box.s * LatCell) /\ Close(Narrow(south), south)
                   /\ Close(int162lon(box.e), box.e * LonCell) /\ Close(LonSum(east), east)
                   /\ Close(int162lon(box.w), box.w * LonCell) /\ Close(LonSum(west), west)

VARIABLES
    file,       \* the input
    pass,       \* "first" or "second"
    pos,        \* position in the file of the next object
    index       \* [NodeIds -> location]: index_pos of the location handler

vars == <<file, pass, pos, index, first_vars, second_vars, layer_vars>>

Init ==
    /\ file \in InputFiles
    /\ pass = "first"
    /\ pos = 1
    /\ index = [id \in NodeIds |-> Undefined]
    /\ FirstInit
    /\ SecondInit

(* NodeLocationsForWays::node; index_neg keeps nothing.                    *)
location_handler(node) ==
    index' = IF node.id >= 0 THEN [index EXCEPT ![node.id] = node.loc] ELSE index

Next_object(type) ==
    /\ exit = "none"
    /\ pos <= Len(file)
    /\ file[pos].type = type

-----------------------------------------------------------------------------
(* osmium::apply(reader, location_handler, first_handler)                  *)
apply_first_node ==
    /\ pass = "first" /\ Next_object("node")
    /\ ~FirstNodeAborts(file[pos])
    /\ location_handler(file[pos])
    /\ first_node(file[pos])
    /\ pos' = pos + 1
    /\ UNCHANGED <<file, pass, second_vars, layer_vars>>

apply_first_way ==
    /\ pass = "first" /\ Next_object("way")
    /\ first_way(file[pos], index)
    /\ pos' = pos + 1
    /\ UNCHANGED <<file, pass, index, second_vars, layer_vars>>

(* The reader is closed and the second one opened; the index stays.        *)
next_pass ==
    /\ exit = "none"
    /\ pass = "first" /\ pos > Len(file)
    /\ pass' = "second"
    /\ pos' = 1
    /\ UNCHANGED <<file, index, first_vars, second_vars, layer_vars>>

-----------------------------------------------------------------------------
(* The constructor of SecondHandler                                        *)
construct ==
    /\ pass = "second"
    /\ open_layer
    /\ UNCHANGED <<file, pass, pos, index, first_vars, second_vars>>

construct_fails ==
    /\ pass = "second"
    /\ open_layer_fails
    /\ UNCHANGED <<file, pass, pos, index, first_vars, second_vars>>

(* osmium::apply(reader2, location_handler, second_handler)                *)
Between_handlers == calls = <<>>
Second_object(type) ==
    /\ pass = "second" /\ Writable
    /\ Between_handlers /\ table_size # Overrun
    /\ Next_object(type)

apply_second_node ==
    /\ Second_object("node")
    /\ ~SecondNodeAborts(file[pos])
    /\ location_handler(file[pos])
    /\ second_node(file[pos])
    /\ pos' = pos + 1
    /\ UNCHANGED <<file, pass, first_vars, layer_vars>>

apply_second_way ==
    /\ Second_object("way")
    /\ LET line == locations(file[pos], index) IN
       /\ ~SecondWayAborts(file[pos], line)
       /\ second_way(file[pos], line)
    /\ pos' = pos + 1
    /\ UNCHANGED <<file, pass, index, first_vars, layer_vars>>

write_feature ==
    /\ write_next
    /\ UNCHANGED <<file, pass, pos, index, first_vars>>

write_fails ==
    /\ calls # <<>>
    /\ create_feature_fails
    /\ UNCHANGED <<file, pass, pos, index, first_vars, second_vars>>

(* The end of main(), and the destructors.                                 *)
return_from_main ==
    /\ pass = "second" /\ pos > Len(file)
    /\ Between_handlers /\ table_size # Overrun
    /\ destroy_writer
    /\ UNCHANGED <<file, pass, pos, index, first_vars, second_vars>>

-----------------------------------------------------------------------------
(* Faulty: the exception is caught and the same object tried again.        *)
handler_retries ==
    /\ Second_object("way")
    /\ SecondWayAborts(file[pos], locations(file[pos], index))
    /\ UNCHANGED vars

(* An exception that leaves a handler ends the process; so does set() of   *)
(* an id that is too large, by an exception or the memory it writes to.    *)
handler_throws ==
    /\ \/ /\ pass = "first" /\ Next_object("node")
          /\ FirstNodeAborts(file[pos])
       \/ /\ Second_object("node")
          /\ SecondNodeAborts(file[pos])
       \/ /\ Second_object("way")
          /\ SecondWayAborts(file[pos], locations(file[pos], index))
       \/ /\ pass = "second" /\ Between_handlers
          /\ table_size = Overrun
    /\ die("aborted")
    /\ UNCHANGED <<file, pass, pos, index, first_vars, second_vars>>

(* A signal, a full memory, an input that cannot be read.                  *)
killed ==
    /\ die("killed")
    /\ UNCHANGED <<file, pass, pos, index, first_vars, second_vars>>

Program == \/ apply_first_node \/ apply_first_way
           \/ next_pass \/ construct
           \/ apply_second_node \/ apply_second_way
           \/ write_feature
           \/ return_from_main
           \/ handler_throws

Failure == construct_fails \/ write_fails \/ killed

Next == Program \/ Failure

(* One thread runs through the file without waiting for anything.          *)
Spec == Init /\ [][Next]_vars /\ WF_vars(Program)

-----------------------------------------------------------------------------
(* The features of a layer, and what the file says, whatever the tables.   *)
fed(layer)  == disk[layer] \o txn[layer]
rows(layer) == {fed(layer)[i] : i \in DOMAIN fed(layer)}
Returned == exit = "exit0"

Objects(type) == ObjectsIn(file, type)
Nodes(id) == NodesIn(file, id)
TrueLoc(id) == LocIn(file, id)
TrueLine(way) == LineIn(file, way)
TrueTags == [id \in NodeIds |-> IF Nodes(id) = {} THEN EmptyTagList
                                ELSE AltTagList(CHOOSE n \in Nodes(id) : TRUE)]

Streets(name) == {w \in Objects("way") :
    /\ Len(w.refs) >= 2 /\ Has(w, "highway") /\ name \in get_streetnames(w)
    /\ linestring_ok(TrueLine(w))}
Places(name) ==
    {n.loc : n \in {n \in Objects("node") : Has(n, "place") /\ Is(n, "name", name)}} \union
    {Centroid(TrueLine(w)) : w \in {w \in Objects("way") :
        /\ Len(w.refs) >= 2 /\ Has(w, "place") /\ Is(w, "name", name)
        /\ is_closed(w) /\ centroid_ok(TrueLine(w))}}

(* Within some distance of the box around the way, without any rounding.   *)
(* The code decides with four float errors on each side, of the point, the *)
(* edge, the tolerance and their sum: MAXDIST less these is in reach, and  *)
(* with them and another int16 step it may be.                             *)
Within(point, way, dlat, dlon) ==
    LET line == TrueLine(way)
    IN /\ \E i \in DOMAIN line : point.lat - line[i].lat < dlat
       /\ \E i \in DOMAIN line : line[i].lat - point.lat < dlat
       /\ \E i \in DOMAIN line : point.lon - line[i].lon < dlon
       /\ \E i \in DOMAIN line : line[i].lon - point.lon < dlon
FloatError == 4 * NarrowError
InReach(point, way) == Within(point, way, MAXDIST - FloatError, LonTolerance(point.lat) - FloatError)
NearlyInReach(point, way) ==
    Within(point, way, MAXDIST + LatCell + FloatError, LonTolerance(point.lat) + LonCell + FloatError)

(* Where the addresses of nodes and ways are.                              *)
Located == {row \in rows("nodes_with_addresses") : row.type # "interpolated"}
Position(row) == IF row.type = "node" THEN (CHOOSE n \in Nodes(row.id) : TRUE).loc
                 ELSE Centroid(TrueLine(CHOOSE w \in Objects("way") : w.id = row.id))

LinesFrom(type, id) == {line \in rows("connection_line") : line.type = type /\ line.id = id}
ToWay(line)   == line.end[1] = "way"

-----------------------------------------------------------------------------
OsmiTypeOK ==
    /\ pass \in {"first", "second"}
    /\ pos \in 1..(Len(file) + 1)
    /\ DOMAIN index = NodeIds
    /\ addr_interpolation_node_set \subseteq UnsignedIds
    /\ DOMAIN addr_interpolation_node_map = NodeIds
    /\ \A i \in DOMAIN calls : calls[i].layer \in Layer
    /\ \A l \in Layer : num_features[l] \in 0..CommitLimit
    /\ exit \in {"none"} \union Endings

(* A highway that addresses refer to is drawn once, as a road or as an     *)
(* area, however many addresses and names lead to it (written_ways of      *)
(* NearestRoadsWriter and NearestAreasWriter).                             *)
WayDrawnOnce ==
    LET drawn == fed("nearest_roads") \o fed("nearest_areas")
    IN \A i, k \in DOMAIN drawn : drawn[i].way_id = drawn[k].way_id => i = k

(* At every step, also within a handler, the way of each nearest point has *)
(* been given to its layer (the order of handle_connection_line_street).   *)
(* Which of the two is in its file after an early end is up to the commits *)
(* of their layers, which do not know of each other.                       *)
EveryPointHasItsRoad ==
    \A point \in rows("nearest_points") :
        \E way \in rows("nearest_roads") \union rows("nearest_areas") :
            way.way_id = point.way_id

(* Every line that ends on a way has its nearest point, and no point is    *)
(* without a line: the tables of two layers that are counted separately.   *)
PointsMatchLines == Between_handlers =>
    \A w \in {p.way_id : p \in rows("nearest_points")} \union
             {l.end[2] : l \in {l \in rows("connection_line") : ToWay(l)}} :
        Cardinality({i \in DOMAIN fed("nearest_points") : fed("nearest_points")[i].way_id = w}) =
        Cardinality({i \in DOMAIN fed("connection_line") :
                        fed("connection_line")[i].end = <<"way", w>>})

(* road_id says whether the address is connected to a street: the flag     *)
(* that process_node, process_way and the interpolation's loop carry from  *)
(* the preprocessor to NodesWithAddressesWriter.                           *)
RoadFlagAgrees == Between_handlers =>
    /\ \A row \in Located :
          row.road_id <=> \E line \in LinesFrom(row.type, row.id) : ToWay(line)
    /\ Cardinality({i \in DOMAIN fed("nodes_with_addresses") :
                       /\ fed("nodes_with_addresses")[i].type = "interpolated"
                       /\ fed("nodes_with_addresses")[i].road_id}) =
       Cardinality({i \in DOMAIN fed("connection_line") :
                       fed("connection_line")[i].type = "interpolated"})

(* An address with a street of its name in reach is connected, to a street *)
(* of that name, and but for the compression's error to the closest one:   *)
(* whatever int16 boxes, float comparisons and differences, the two passes *)
(* and the two tables do.                                                  *)
StreetVerdictIsRight == Returned /\ Sorted(file) =>
    \A row \in {row \in Located : "addr:street" \in DOMAIN row.tags} :
        LET point   == Position(row)
            streets == Streets(row.tags["addr:street"])
            reached == {w \in streets : InReach(point, w)}
        IN /\ reached # {} => row.road_id
           /\ row.road_id => \E way \in streets, line \in LinesFrom(row.type, row.id) :
                 /\ line.end = <<"way", way.id>>
                 /\ \A w \in reached : Distance(point, TrueLine(way)) <=
                                       Distance(point, TrueLine(w)) + CompressionError

(* The two place flags together say whether there is a place of the name   *)
(* in addr:place, or for a node in addr:street, in reach.                  *)
PlaceVerdictIsRight == Returned /\ Sorted(file) =>
    \A row \in Located :
        LET keys == (IF row.type = "node" THEN {"addr:street", "addr:place"} ELSE {"addr:place"})
                    \intersect DOMAIN row.tags
        IN (row.nody_place_id \/ row.wayy_place_id) <=>
           \E key \in keys : \E place \in Places(row.tags[key]) :
              Distance(Position(row), <<place>>) < MaxDistance

(* An interpolation is judged by the tags that its end nodes have in the   *)
(* file, which reach it by the set of the first pass and the map of the    *)
(* second.                                                                 *)
InterpolationVerdictIsRight == Returned /\ Sorted(file) =>
    \A row \in rows("interpolation"), way \in Objects("way") :
        way.id = row.way_id =>
            \E stray \in BOOLEAN : row.error = error(interpolation(way, TrueTags, stray))

(* A sorted file whose nodes all have locations is never too much for the  *)
(* program, even if nodes of its ways are missing, unless it has the end   *)
(* of an interpolation with a negative id: get() of the node map is asked  *)
(* for ids in the table only, and set() for ids it has room for.           *)
SortedFilesDontAbort ==
    /\ Sorted(file)
    /\ \A node \in Objects("node") : node.loc # Undefined
    /\ NegativeEndsIn(file) = {}
    => exit # "aborted"

(* Of every address node there is one row in the file when main returns.   *)
AddressNodesAreStored == Returned =>
    \A node \in {n \in Objects("node") : HasAny(n, AddrKeys)} :
        Cardinality({i \in DOMAIN disk["nodes_with_addresses"] :
            LET row == disk["nodes_with_addresses"][i]
            IN row.type = "node" /\ row.id = node.id /\ row.tags = AltTagList(node)}) = 1

(* The process ends, and by itself unless something else ends it.          *)
Terminates == <>(exit # "none")

-----------------------------------------------------------------------------
(* "contains nodes and centroids of ways that have at least partial (and   *)
(* potentially erroneous) address data" (NodesWithAddressesWriter.hpp:10)  *)
AddressWaysAreStored == Returned =>
    \A way \in {w \in Objects("way") : is_closed(w) /\ HasAny(w, AddrKeys) /\ centroid_ok(TrueLine(w))} :
        \E row \in rows("nodes_with_addresses") : row.type = "way" /\ row.id = way.id

(* "was a closest place found/written" (ConnectionLinePreprocessor.hpp:170)*)
(* A node with addr:place is connected to the closest place of the name.   *)
PlaceLinesAreShortest == Returned /\ Sorted(file) =>
    \A node \in {n \in Objects("node") : Has(n, "addr:place")} :
        LET away(p) == Distance(node.loc, <<p>>)
            near == {p \in Places(node.tags["addr:place"]) : away(p) < MaxDistance}
        IN near # {} => \E line \in {l \in rows("connection_line") : l.type = "node"} :
              /\ ~ToWay(line)
              /\ line.end[2] \in near /\ \A p \in near : away(line.end[2]) <= away(p)
=============================================================================
