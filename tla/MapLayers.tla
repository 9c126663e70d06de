------------------------------ MODULE MapLayers ------------------------------
(***************************************************************************)
(* mapserver/addresses.map: what a mapper gets to see of the mistakes. The *)
(* map server reads the file of nodes_with_addresses and sorts its rows    *)
(* into layers by filters on their columns.                                *)
(***************************************************************************)
EXTENDS OsmiAddresses

(* MapServer gives a column that is not set as an empty string.            *)
table == {disk["nodes_with_addresses"][i] : i \in DOMAIN disk["nodes_with_addresses"]}
column(row, key) == get_value_by_key(row.tags, key)
is_ip(row) == row.type = "interpolated"
place_ids(row) == row.nody_place_id \/ row.wayy_place_id

no_addr_street == {row \in table :
    /\ ~is_ip(row)
    /\ column(row, "addr:street") = ""
    /\ column(row, "addr:full") = ""
    /\ column(row, "addr:place") = ""}

street_not_found == {row \in table :
    ~is_ip(row) /\ column(row, "addr:street") # "" /\ ~row.road_id /\ ~place_ids(row)}

place_not_found == {row \in table :
    ~is_ip(row) /\ column(row, "addr:place") # "" /\ ~place_ids(row)}

-----------------------------------------------------------------------------
(* The objects that get a row, and the places their tags may name          *)
Addressed ==
    {node \in Objects("node") : HasAny(node, AddrKeys)} \union
    {way \in Objects("way") : /\ is_address_building(way)
                              /\ HasAny(way, {"addr:street", "addr:housenumber"})
                              /\ centroid_ok(TrueLine(way))}
PlacesNamed(type, tags) == UNION
    {Places(tags[key]) : key \in (IF type = "node" THEN {"addr:street", "addr:place"}
                                  ELSE {"addr:place"}) \intersect DOMAIN tags}
PlaceNear(point, places) == \E place \in places : Distance(point, <<place>>) < MaxDistance

(* No false alarm: "there is no road with that name inside an about 1km    *)
(* radius" of a street_not_found (addresses.map:834), of which the errors  *)
(* of float take a little away; no place of a place_not_found, and of a    *)
(* node in either no place that one of its two tags could mean.            *)
AlarmsAreReal == Returned /\ Sorted(file) =>
    /\ \A row \in street_not_found :
          \A w \in Streets(row.tags["addr:street"]) : ~InReach(Position(row), w)
    /\ \A row \in street_not_found \union place_not_found :
          ~PlaceNear(Position(row), PlacesNamed(row.type, row.tags))

(* No silent mistake: an address whose street and place are not even at    *)
(* the distance of one int16 step and the errors of float beyond MAXDIST   *)
(* is in the layers of what was not found, through both passes, the boxes  *)
(* and tables, the id strings, the file and the filters; one that names    *)
(* neither, or only with empty tags, is in no_addr_street.                 *)
MistakesAreShown == Returned /\ Sorted(file) =>
    \A o \in Addressed :
        LET point == IF o.type = "node" THEN o.loc ELSE Centroid(TrueLine(o))
            shown(layer) == \E row \in layer : row.type = o.type /\ row.id = o.id
            nowhere == ~PlaceNear(point, PlacesNamed(o.type, o.tags))
        IN /\ /\ column(o, "addr:street") # "" /\ nowhere
              /\ \A w \in Streets(o.tags["addr:street"]) : ~NearlyInReach(point, w)
              => shown(street_not_found)
           /\ column(o, "addr:place") # "" /\ nowhere => shown(place_not_found)
           /\ (\A key \in {"addr:street", "addr:place", "addr:full"} : column(o, key) = "")
              => shown(no_addr_street)
=============================================================================
