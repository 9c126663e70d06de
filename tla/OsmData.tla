------------------------------ MODULE OsmData ------------------------------
(***************************************************************************)
(* The input of osmi-addresses and the geometry it asks libosmium and      *)
(* GEOS for. A file is a sequence of nodes and ways:                       *)
(*   [type |-> "node", id, loc,  tags]                                     *)
(*   [type |-> "way",  id, refs, tags]                                     *)
(* tags is a function whose domain is the set of keys that are present.    *)
(* A location is [lat, lon] in integer units, or Undefined. Distances are  *)
(* compared and never added, so that Distance can be any measure that      *)
(* grows with the distance, the square for instance.                       *)
(***************************************************************************)
EXTENDS Integers, Sequences, FiniteSets

CONSTANTS
    InputFiles,     \* the input files
    NodeIds,        \* node ids that occur in them, as nodes or in ways
    IdSize,         \* number of values of an unsigned id
    Names,          \* values of the name and addr:street/addr:place tags, and ""
    Undefined,      \* the location of a node nobody has seen
    Distance(_, _), \* measure of the distance of a location to a line of locations
    Centroid(_),    \* centroid of a ring of locations; Undefined if GEOS fails
    PointAlong(_, _, _)  \* the location at k/n of the length of a line

ASSUME IdsAssumption ==
    IdSize \in Nat /\ \A id \in NodeIds : id \in Int /\ -IdSize < 2 * id /\ 2 * id < IdSize
IsSequence(s) == s \in Seq({s[i] : i \in DOMAIN s})

ASSUME FilesAssumption ==
    \A file \in InputFiles :
        /\ IsSequence(file)
        /\ \A i \in DOMAIN file :
              \/ file[i].type = "node" /\ file[i].id \in NodeIds
              \/ /\ file[i].type = "way" /\ IsSequence(file[i].refs)
                 /\ \A r \in DOMAIN file[i].refs : file[i].refs[r] \in NodeIds
        /\ \A i, j \in DOMAIN file :
              file[i].type = file[j].type /\ file[i].id = file[j].id => i = j

(* Ids are signed in a file, and unsigned in the tables of end nodes:      *)
(* GeometryHelper::get_first_node_id, ::get_last_node_id                   *)
unsigned(id) == IF id < 0 THEN id + IdSize ELSE id
UnsignedIds == {unsigned(id) : id \in NodeIds}
first_node_id(way) == unsigned(way.refs[1])
last_node_id(way)  == unsigned(way.refs[Len(way.refs)])

Has(o, key) == key \in DOMAIN o.tags
Is(o, key, value) == Has(o, key) /\ o.tags[key] = value
HasAny(o, keys) == DOMAIN o.tags \intersect keys # {}

AddrKeys == {"addr:housenumber", "addr:street", "addr:postcode", "addr:city",
             "addr:country", "addr:full", "addr:place"}

(* way.is_closed(): by node ids, not by location                           *)
is_closed(way) == way.refs[1] = way.refs[Len(way.refs)]

(* The locations NodeLocationsForWays puts into a way's node references.   *)
locations(way, index) == [i \in DOMAIN way.refs |-> index[way.refs[i]]]
Dangling(line) == \E i \in DOMAIN line : line[i] = Undefined

(* OGRFactory leaves out a node at the location of the one before it; a    *)
(* line needs two points, a polygon four.                                  *)
repeats(line, i) == i # 1 /\ line[i] = line[i - 1]
linestring(line) ==
    LET kept == SelectSeq([i \in DOMAIN line |-> i], LAMBDA i : ~repeats(line, i))
    IN [k \in DOMAIN kept |-> line[kept[k]]]
num_points(line) == Cardinality({i \in DOMAIN line : ~repeats(line, i)})
linestring_ok(line) == ~Dangling(line) /\ num_points(line) >= 2
polygon_ok(line) == ~Dangling(line) /\ num_points(line) >= 4
centroid_ok(line) == polygon_ok(line) /\ Centroid(line) # Undefined

(* GeometryHelper::is_way_with_nonzero_length. A dangling reference throws *)
(* invalid_location, here or in the first writer that builds a geometry,   *)
(* so that the way is ignored either way.                                  *)
is_way_with_nonzero_length(line) ==
    /\ Len(line) >= 2
    /\ ~Dangling(line)
    /\ \E i \in DOMAIN line : line[i] # line[1]

(* What a file says about the line of a way, and the points from which     *)
(* addresses look for lines.                                               *)
ObjectsIn(f, type) == {o \in {f[i] : i \in DOMAIN f} : o.type = type}
NodesIn(f, id) == {n \in ObjectsIn(f, "node") : n.id = id}
LocIn(f, id) == IF id >= 0 /\ NodesIn(f, id) # {} THEN (CHOOSE n \in NodesIn(f, id) : TRUE).loc
                ELSE Undefined
LineIn(f, way) == [i \in DOMAIN way.refs |-> LocIn(f, way.refs[i])]
LinesIn(f)  == {line \in {LineIn(f, way) : way \in ObjectsIn(f, "way")} : linestring_ok(line)}
PointsIn(f) == ({node.loc : node \in ObjectsIn(f, "node")} \ {Undefined}) \union
    {Centroid(ring) : ring \in {line \in {LineIn(f, way) : way \in ObjectsIn(f, "way")} : centroid_ok(line)}}

(* The interpolations' ends that are in the file with a negative id        *)
NegativeEndsIn(f) == {n \in ObjectsIn(f, "node") : n.id < 0 /\
    \E way \in ObjectsIn(f, "way") : /\ Len(way.refs) >= 2 /\ Has(way, "addr:interpolation")
                                    /\ n.id \in {way.refs[1], way.refs[Len(way.refs)]}}

(* Nodes before ways, as in every planet file and extract.                 *)
Sorted(file) == \A i, j \in DOMAIN file :
    i < j /\ file[i].type = "way" => file[j].type = "way"
=============================================================================
