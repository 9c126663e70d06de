-------------------------- MODULE MCOsmiAddresses --------------------------
(***************************************************************************)
(* A small town. Lines are parallel to the axes; distances are those of    *)
(* Manhattan. Its map has a grid of 4 units, and floats are off by one of  *)
(* them; an int16 step is 16 units of latitude and 20 of longitude, and    *)
(* MAXDIST is 40.                                                          *)
(***************************************************************************)
EXTENDS MapLayers

at(lat, lon) == [lat |-> lat, lon |-> lon]
on(lat, lon) == at(4 * lat, 4 * lon)
Abs(x) == IF x < 0 THEN -x ELSE x
Clamp(x, a, b) == LET lo == IF a < b THEN a ELSE b
                      hi == IF a < b THEN b ELSE a
                  IN IF x < lo THEN lo ELSE IF x > hi THEN hi ELSE x
MCDistance(point, line) ==
    LET To(a, b) == Abs(point.lat - Clamp(point.lat, a.lat, b.lat)) +
                    Abs(point.lon - Clamp(point.lon, a.lon, b.lon))
        distances == IF Len(line) = 1 THEN {To(line[1], line[1])}
                     ELSE {To(line[i], line[i + 1]) : i \in 1..(Len(line) - 1)}
    IN Smallest(distances)

(* ... or nothing, so that the closest way is the first one                *)
FlatDistance(point, line) == 0

(* The middle of the box around the ring; GEOS fails for a ring without    *)
(* extent in one direction.                                                *)
MCCentroid(line) ==
    LET lats == {line[i].lat : i \in DOMAIN line}
        lons == {line[i].lon : i \in DOMAIN line}
    IN IF Cardinality(lats) = 1 \/ Cardinality(lons) = 1 THEN Undefined
       ELSE at((Smallest(lats) + Largest(lats)) \div 2, (Smallest(lons) + Largest(lons)) \div 2)

MCPointAlong(line, k, n) ==
    LET a == line[1]
        b == line[Len(line)]
    IN at(a.lat + (k * (b.lat - a.lat)) \div n, a.lon + (k * (b.lon - a.lon)) \div n)

(* A float with three binary digits, for the differences of a line         *)
MCFloat(x) == IF Abs(x) < 32 THEN x ELSE IF Abs(x) < 64 THEN 8 * (x \div 8) ELSE 16 * (x \div 16)

(* ... and one that moves every number from 32 on by at most one unit, for *)
(* coordinates and tolerances, or none of them                             *)
MCNarrow(x) == IF Abs(x) < 32 THEN x ELSE 3 * ((x + 1) \div 3)
MCDouble(x) == x
MCOverCos(t, lat) == t + Abs(lat) \div 16

number(n) == [length |-> Digits(n), atoi |-> n, prefix |-> "", char |-> 48 + (n % 10),
              alpha |-> FALSE, second_alpha |-> FALSE]
NoNumber == [length |-> 0, atoi |-> 0, prefix |-> "", char |-> 0,
             alpha |-> FALSE, second_alpha |-> FALSE]
lettered(prefix, n, char) == [length |-> 2, atoi |-> n, prefix |-> prefix, char |-> char,
                              alpha |-> TRUE, second_alpha |-> FALSE]
MCRaw(houseno) == CASE houseno = "2"  -> number(2)
                    [] houseno = "6"  -> number(6)
                    [] houseno = "7"  -> number(7)
                    [] houseno = "1A" -> lettered("1", 1, 65)
                    [] houseno = "1C" -> lettered("1", 1, 67)
                    [] OTHER -> NoNumber

node(id, lat, lon, tags) == [type |-> "node", id |-> id, loc |-> on(lat, lon), tags |-> tags]
way(id, refs, tags) == [type |-> "way", id |-> id, refs |-> refs, tags |-> tags]
NoTags == EmptyTagList
street(s) == "addr:street" :> s
houseno(n) == "addr:housenumber" :> n
place(p) == "addr:place" :> p
highway(names) == names @@ ("highway" :> "residential")

-----------------------------------------------------------------------------
MCNames == {"", "S", "T", "P", "square"}
MCNodeIds == {-5} \union -1..20

corners == {node(1, 0, 0, NoTags), node(2, 0, 37, NoTags),
            node(3, 9, 0, NoTags), node(4, 9, 37, NoTags),
            node(16, 0, 0, NoTags)}
ring == <<1, 2, 4, 3, 1>>

(* Two streets and a square called S, one of the streets also T, and a     *)
(* street without extent. Nodes 1 and 16 are at the same place.            *)
streets == {way(30, <<1, 16, 2>>, highway("name" :> "S" @@ "alt_name" :> "T")),
            way(31, <<3, 2, 4>>, highway("name" :> "S")),
            way(32, ring, highway("name" :> "S" @@ "area" :> "yes" @@ "ref" :> "T")),
            way(41, <<1, 16>>, highway("name" :> "S"))}
building == way(33, ring, street("S") @@ houseno("2") @@ place("P") @@ "building" :> "yes")

(* ... asked for from below, above, the right, and just or well out of     *)
(* reach, off the grid                                                     *)
asker(lat, lon, tags) == [node(10, 0, 0, tags) EXCEPT !.loc = at(lat, lon)]
askers == {asker(p[1], p[2], tags) :
              p \in {<<-35, 20>>, <<-48, 20>>, <<12, 80>>, <<20, 80>>,
                     <<71, 144>>, <<20, 183>>, <<16, 200>>, <<16, 213>>},
              tags \in {street("S"), street("T") @@ place("S")}}
neighbour == node(13, 2, 20, street("S") @@ houseno("6"))
StreetTowns == {corners \union {a} \union others :
                   a \in askers, others \in SUBSET (streets \union {neighbour, building})}

(* Places called P, one of them an area and one a ring without extent that *)
(* is a building, too, and S                                               *)
places == {node(7, 3, 9, "place" :> "locality" @@ "name" :> "P"),
           node(8, 6, 12, "place" :> "locality" @@ "name" :> "P"),
           node(9, 6, 8, "place" :> "locality" @@ "name" :> "S"),
           way(34, ring, "place" :> "square" @@ "name" :> "P"),
           way(39, ring, "building" :> "yes" @@ place("P")),
           way(40, <<1, 15, 2, 1>>, "place" :> "square" @@ "name" :> "P" @@ "building" :> "yes" @@
                                    place("P") @@ houseno("2"))}
visitors == {node(11, 4, 8, place("P") @@ "entrance" :> "yes"),
             node(12, 5, 15, street("S") @@ place("P") @@ "addr:city" :> "C"),
             node(14, 5, 9, houseno("7")), node(15, 0, 20, NoTags),
             node(17, 5, 9, street("") @@ place("")),
            building}
PlaceTowns == {corners \union visitors \union some : some \in SUBSET places}

(* Interpolations, one of them with an end that is not in the file, a node *)
(* from an editor with a negative id, and other ways with addresses        *)
numbered == {{node(5, 3, 6, street("S") @@ houseno(n[1])),
              node(6, 3, 22, s @@ houseno(n[2]))} :
                n \in {<<"2", "6">>, <<"6", "2">>, <<"2", "7">>, <<"1A", "1C">>, <<"", "">>},
                s \in {street("S"), street("T")}}
InterpolationTowns == UNION
    {{corners \union ends \union ways \union
        {node(-1, 1, 1, NoTags), way(30, <<1, 2>>, highway("name" :> "S")),
         way(35, <<5, 6>>, "addr:interpolation" :> kind)} :
        ends \in numbered,
        ways \in SUBSET {way(36, <<6, 5, 20>>, "addr:interpolation" :> kind),
                         way(37, <<1, 5>>, "postal_code" :> "1" @@ "addr:city" :> "C"),
                         way(38, <<3, 4, -1>>, highway("name" :> "S"))}} :
        kind \in {"even", "alphabetic"}}

(* ... and with an end that has a negative id, in the file or not          *)
NegativeTowns == {corners \union some \union
    {node(5, 3, 6, street("S") @@ houseno("2")), way(30, <<1, 2>>, highway("name" :> "S")),
     way(35, <<5, id>>, "addr:interpolation" :> "even")} :
        id \in {-1, -5}, some \in SUBSET {node(-1, 3, 22, street("S") @@ houseno("6")),
                                         node(-5, 3, 22, street("S") @@ houseno("6"))}}

InOrder(objects) == [i \in 1..Cardinality(objects) |->
    CHOOSE o \in objects : Cardinality({p \in objects : p.id < o.id}) = i - 1]
PlaceFiles == {InOrder(town) : town \in PlaceTowns}
SortedFiles == {InOrder(town) : town \in StreetTowns \union PlaceTowns \union
                                     InterpolationTowns \union NegativeTowns}

-----------------------------------------------------------------------------
(* An interpolation, its street and its end nodes in any order, and files  *)
(* with a node without a location                                          *)
Permutations5(S) == {p \in [1..5 -> S] : \A i, k \in 1..5 : p[i] = p[k] => i = k}
shuffled(n) == {node(2, 0, 37, NoTags),
                node(5, 3, 6, street("S") @@ houseno("2")),
                node(6, 3, 22, street("S") @@ houseno(n)),
                way(30, <<1, 2>>, highway("name" :> "S")),
                way(35, <<5, 6>>, "addr:interpolation" :> "even")}
lost(tags) == [node(13, 0, 0, tags) EXCEPT !.loc = Undefined]
ShuffledFiles ==
    {<<node(1, 0, 0, NoTags)>> \o rest : rest \in Permutations5(shuffled("6"))} \union
    {<<node(1, 0, 0, NoTags), node(2, 0, 37, NoTags), lost(tags), way(30, <<1, 2, 13>>, highway("name" :> "S"))>> :
        tags \in {NoTags, street("S"), "entrance" :> "yes", "place" :> "locality" @@ "name" :> "P"}}
=============================================================================
