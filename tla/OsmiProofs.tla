----------------------------- MODULE OsmiProofs -----------------------------
(***************************************************************************)
(* What the two passes and the writers achieve together, for every input   *)
(* file: each property of OsmiAddresses with the inductive invariant it    *)
(* rests on.                                                               *)
(***************************************************************************)
EXTENDS OsmiSteps

-----------------------------------------------------------------------------
(* A way is in one of the two tables of highways only, and so is drawn in  *)
(* one of the two layers; there, written_ways has the ways drawn so far.   *)
AreaIds == {w.id : w \in {w \in Objects("way") : is_area(w)}}
RoadIds == {w.id : w \in {w \in Objects("way") : ~is_area(w)}}
Drawable(l, row) == /\ l = "nearest_areas" => row.way_id \in AreaIds
                    /\ l = "nearest_roads" => row.way_id \in RoadIds

TablesApart == \A n \in Names :
    /\ \A e \in Elements(name2highway_area[n]) : e.way_id \in AreaIds
    /\ \A e \in Elements(name2highway_nonarea[n]) : e.way_id \in RoadIds
CallsApart == \A c \in Elements(calls) : Drawable(c.layer, c.row)
RowsNoted == \A l \in {"nearest_roads", "nearest_areas"} :
    /\ \A row \in Elements(Fed[l]) : Drawable(l, row) /\ row.way_id \in written_ways[l]
    /\ \A i, k \in DOMAIN Fed[l] : Fed[l][i].way_id = Fed[l][k].way_id => i = k
DrawnInv == TablesApart /\ CallsApart /\ RowsNoted

LEMMA ApartIds ==
  ASSUME file \in InputFiles
  PROVE  AreaIds \intersect RoadIds = {}
  <1> SUFFICES ASSUME NEW id \in AreaIds, id \in RoadIds PROVE FALSE
    OBVIOUS
  <1>1. PICK v \in Objects("way") : id = v.id /\ is_area(v)
    BY DEF AreaIds
  <1>2. PICK w \in Objects("way") : id = w.id /\ ~is_area(w)
    BY DEF RoadIds
  <1>3. PICK i \in DOMAIN file, k \in DOMAIN file : v = file[i] /\ w = file[k]
    BY DEF Objects, ObjectsIn
  <1>4. v.type = "way" /\ w.type = "way"
    BY DEF Objects, ObjectsIn
  <1>5. i = k
    BY <1>1, <1>2, <1>3, <1>4, FileFacts
  <1> QED
    BY <1>1, <1>2, <1>3, <1>5

LEMMA StreetCallDrawable ==
  ASSUME TablesTyped, TablesApart, NEW type, NEW id, NEW c, StreetCall(c, type, id)
  PROVE  Drawable(c.layer, c.row)
  <1>0. PICK name \in Names : \E e \in Elements(lookups(name)) : OnWayCall(c, type, id, name, e)
    BY DEF StreetCall
  <1>1. PICK e \in Elements(lookups(name)) : OnWayCall(c, type, id, name, e)
    BY <1>0
  <1>2. IF e.is_area THEN e.entry.way_id \in AreaIds ELSE e.entry.way_id \in RoadIds
    <2>1. \/ \E x \in Elements(name2highway_area[name]) : e = [entry |-> x, is_area |-> TRUE]
          \/ \E x \in Elements(name2highway_nonarea[name]) : e = [entry |-> x, is_area |-> FALSE]
      BY LookupFacts
    <2>2. CASE \E x \in Elements(name2highway_area[name]) : e = [entry |-> x, is_area |-> TRUE]
      BY <2>2 DEF TablesApart
    <2>3. CASE \E x \in Elements(name2highway_nonarea[name]) : e = [entry |-> x, is_area |-> FALSE]
      BY <2>3 DEF TablesApart
    <2> QED
      BY <2>1, <2>2, <2>3
  <1> QED
    BY <1>1, <1>2 DEF OnWayCall, Drawable, call, write_line

LEMMA DrawnStep ==
  ASSUME TypeInv, DrawnInv, [Next]_vars
  PROVE  DrawnInv'
  <1>0. /\ PassTyped /\ TablesTyped /\ NodesTyped /\ CallsTyped /\ LayersTyped /\ LayersTyped'
        /\ TablesApart /\ CallsApart /\ RowsNoted
        /\ (Deliver \/ (Fed' = Fed /\ (Read \/ Quiet)))
        /\ file \in InputFiles /\ DOMAIN file = 1..Len(file)
    BY StepKinds, FileFacts DEF TypeInv, PassTyped, DrawnInv
  <1>1. file' = file /\ AreaIds' = AreaIds /\ RoadIds' = RoadIds
    BY <1>0 DEF Deliver, Read, Quiet, apply_first_node, apply_first_way, next_pass,
                apply_second_node, apply_second_way, AreaIds, RoadIds, Objects, ObjectsIn
  <1>2. ASSUME Fed' = Fed, written_ways' = written_ways PROVE RowsNoted'
    BY <1>0, <1>1, <1>2 DEF RowsNoted, Drawable
  <1>3. ASSUME UNCHANGED <<name2highway_area, name2highway_nonarea>> PROVE TablesApart'
    BY <1>0, <1>1, <1>3 DEF TablesApart
  <1>4. CASE Fed' = Fed /\ (apply_first_node \/ next_pass \/ Quiet)
    <2>1. /\ UNCHANGED <<name2highway_area, name2highway_nonarea>>
          /\ UNCHANGED <<calls, written_ways>>
      BY <1>4 DEF apply_first_node, first_node, next_pass, Quiet, first_vars, second_vars
    <2>2. CallsApart'
      BY <1>0, <1>1, <2>1 DEF CallsApart, Drawable
    <2> QED
      BY <1>2, <1>3, <1>4, <2>1, <2>2 DEF DrawnInv
  <1>5. CASE Fed' = Fed /\ apply_first_way
    <2> DEFINE way == file[pos]
    <2>1. /\ UNCHANGED <<calls, written_ways>> /\ pos \in DOMAIN file /\ way.type = "way"
          /\ save_highway(way, locations(way, index))
      BY <1>0, <1>5 DEF apply_first_way, first_way, Next_object, second_vars, PassTyped
    <2>2. way \in Objects("way")
      BY <2>1 DEF Objects, ObjectsIn
    <2>3. IF is_area(way) THEN way.id \in AreaIds ELSE way.id \in RoadIds
      BY <2>2 DEF AreaIds, RoadIds
    <2> DEFINE entry == highway_entry(way, locations(way, index))
    <2>4. entry.way_id = way.id
      BY DEF highway_entry
    <2>5. PICK names : /\ name2highway_area' = IF names # {} /\ is_area(way)
                             THEN Insert(name2highway_area, names, entry) ELSE name2highway_area
                       /\ name2highway_nonarea' = IF names # {} /\ ~is_area(way)
                             THEN Insert(name2highway_nonarea, names, entry) ELSE name2highway_nonarea
      BY <2>1 DEF save_highway
    <2> HIDE DEF entry
    <2>6. TablesApart'
      <3>1. ASSUME NEW n \in Names, NEW e \in Elements(name2highway_area'[n])
            PROVE  e.way_id \in AreaIds
        <4>1. \/ e \in Elements(name2highway_area[n])
              \/ is_area(way) /\ e = entry
          BY <1>0, <2>5, InsertFacts DEF TablesTyped
        <4> QED
          BY <1>0, <2>3, <2>4, <4>1 DEF TablesApart
      <3>2. ASSUME NEW n \in Names, NEW e \in Elements(name2highway_nonarea'[n])
            PROVE  e.way_id \in RoadIds
        <4>1. \/ e \in Elements(name2highway_nonarea[n])
              \/ ~is_area(way) /\ e = entry
          BY <1>0, <2>5, InsertFacts DEF TablesTyped
        <4> QED
          BY <1>0, <2>3, <2>4, <4>1 DEF TablesApart
      <3> QED
        BY <1>1, <3>1, <3>2 DEF TablesApart
    <2>7. CallsApart'
      BY <1>0, <1>1, <2>1 DEF CallsApart, Drawable
    <2> QED
      BY <1>2, <1>5, <2>1, <2>6, <2>7 DEF DrawnInv
  <1>6. CASE Fed' = Fed /\ apply_second_node
    <2>1. /\ UNCHANGED first_vars /\ written_ways' = written_ways
          /\ pos \in 1..Len(file) /\ calls' = NodeCalls(file[pos])
      BY <1>0, <1>6 DEF apply_second_node, Next_object, Second_object, Between_handlers,
                        PassTyped, second_node
    <2>2. \A c \in Elements(calls') : NodeCall(c, file[pos])
      BY <1>0, <2>1, NodeCallsFacts
    <2>3. ASSUME NEW c, NodeCall(c, file[pos]) PROVE Drawable(c.layer, c.row)
      <3>1. CASE StreetCall(c, "node", file[pos].id)
        BY <1>0, <3>1, StreetCallDrawable
      <3>2. CASE ~StreetCall(c, "node", file[pos].id)
        BY <2>3, <3>2 DEF NodeCall, PlaceCall, call, write_line, address, Drawable
      <3> QED
        BY <3>1, <3>2
    <2>4. CallsApart'
      BY <1>1, <2>2, <2>3 DEF CallsApart, Drawable
    <2> QED
      BY <1>2, <1>3, <1>6, <2>1, <2>4 DEF DrawnInv, first_vars
  <1>7. CASE Fed' = Fed /\ apply_second_way
    <2> DEFINE way == file[pos]
               line == locations(way, index)
    <2>1. /\ UNCHANGED first_vars /\ written_ways' = written_ways
          /\ pos \in 1..Len(file) /\ way.type = "way"
          /\ \E ip \in interpolations(way) : calls' = WayCalls(way, line, ip)
      BY <1>0, <1>7 DEF apply_second_way, Next_object, Second_object, Between_handlers,
                        PassTyped, second_way
    <2>2. PICK ip \in interpolations(way) : calls' = WayCalls(way, line, ip)
      BY <2>1
    <2>3. \A c \in Elements(calls') : WayCall(c, way, line, ip)
      BY <2>1, <2>2, WayCallsFacts
    <2>4. ASSUME NEW c, WayCall(c, way, line, ip) PROVE Drawable(c.layer, c.row)
      <3>1. CASE StreetCall(c, "way", way.id) \/ StreetCall(c, "interpolated", 0)
        BY <1>0, <3>1, StreetCallDrawable
      <3>2. CASE ~StreetCall(c, "way", way.id) /\ ~StreetCall(c, "interpolated", 0)
        BY <2>4, <3>2 DEF WayCall, PlaceCall, IpRow, address_of_interpolation, call, write_line,
                          address, Drawable
      <3> QED
        BY <3>1, <3>2
    <2>5. CallsApart'
      BY <1>1, <2>3, <2>4 DEF CallsApart, Drawable
    <2> QED
      BY <1>2, <1>3, <1>7, <2>1, <2>5 DEF DrawnInv, first_vars
  <1>8. CASE Deliver
    <2> DEFINE c == Head(calls)
    <2>1. TablesApart'
      BY <1>3, <1>8 DEF Deliver, first_vars
    <2>2. /\ c \in Elements(calls) /\ c.layer \in Layer /\ Drawable(c.layer, c.row)
          /\ Elements(calls') \subseteq Elements(calls)
      BY <1>0, <1>8, DeliverFacts DEF CallsApart
    <2>3. CallsApart'
      BY <1>0, <1>1, <2>2 DEF CallsApart, Drawable
    <2>4. RowsNoted'
      <3>1. CASE WrittenBefore(c)
        BY <1>2, <1>8, <3>1 DEF Deliver
      <3>2. CASE ~WrittenBefore(c)
        <4>1. /\ Fed'[c.layer] = Append(Fed[c.layer], c.row)
              /\ Elements(Fed'[c.layer]) = Elements(Fed[c.layer]) \union {c.row}
              /\ \A l \in Layer \ {c.layer} : Fed'[l] = Fed[l]
              /\ written_ways' = Noted(c)
          BY <1>8, <3>2, DeliverFacts DEF Deliver
        <4> HIDE DEF c
        <4> SUFFICES ASSUME NEW l \in {"nearest_roads", "nearest_areas"}
                     PROVE  /\ \A row \in Elements(Fed'[l]) :
                                  Drawable(l, row) /\ row.way_id \in written_ways'[l]
                            /\ \A i, k \in DOMAIN Fed'[l] :
                                  Fed'[l][i].way_id = Fed'[l][k].way_id => i = k
          BY <1>1 DEF RowsNoted, Drawable
        <4>2. l \in Layer /\ DOMAIN written_ways = {"nearest_roads", "nearest_areas"}
          BY <1>0, LayerFacts DEF LayerNames, CallsTyped
        <4>3. CASE l # c.layer
          <5>1. Fed'[l] = Fed[l] /\ written_ways'[l] = written_ways[l]
            BY <4>1, <4>2, <4>3 DEF Noted
          <5> QED
            BY <1>0, <5>1 DEF RowsNoted
        <4>4. CASE l = c.layer
          <5>1. /\ written_ways'[l] = written_ways[l] \union {c.row.way_id}
                /\ c.row.way_id \notin written_ways[l]
            BY <3>2, <4>1, <4>2, <4>4 DEF Noted, WrittenBefore
          <5>2. \A row \in Elements(Fed[l]) : row.way_id # c.row.way_id
            BY <1>0, <5>1 DEF RowsNoted
          <5>3. IsSequence(Fed[l]) /\ DOMAIN Fed[l] = 1..Len(Fed[l]) /\ Len(Fed[l]) \in Nat
            BY <1>0, <4>2, FedFacts
          <5> DEFINE s == Fed[l]
                     t == Fed'[l]
          <5>4. /\ \A i \in 1..Len(s) : t[i] = s[i]
                /\ t[Len(s) + 1] = c.row
                /\ DOMAIN t = 1..(Len(s) + 1)
            <6>1. t = Append(s, c.row) /\ s \in Seq(Elements(s) \union {c.row})
              BY <4>1, <4>4, <5>3, Widened
            <6> QED
              BY <6>1, AppendProperties
          <5>5. \A i \in 1..Len(s) : t[i].way_id # c.row.way_id
            BY <5>2, <5>3, <5>4 DEF Elements
          <5>6. \A i, k \in 1..Len(s) : t[i].way_id = t[k].way_id => i = k
            BY <1>0, <5>3, <5>4 DEF RowsNoted
          <5>7. \A i, k \in DOMAIN t : t[i].way_id = t[k].way_id => i = k
            <6>1. \A i \in DOMAIN t : i \in 1..Len(s) \/ i = Len(s) + 1
              BY <5>3, <5>4
            <6> HIDE DEF s, t
            <6> QED
              BY <5>4, <5>5, <5>6, <6>1
          <5>8. \A row \in Elements(Fed'[l]) : Drawable(l, row) /\ row.way_id \in written_ways'[l]
            BY <1>0, <2>2, <4>1, <4>4, <5>1 DEF RowsNoted, c
          <5> QED
            BY <5>7, <5>8
        <4> QED
          BY <4>3, <4>4
      <3> QED
        BY <3>1, <3>2
    <2> QED
      BY <2>1, <2>3, <2>4 DEF DrawnInv
  <1> QED
    BY <1>0, <1>4, <1>5, <1>6, <1>7, <1>8 DEF Read

LEMMA DrawnInit == Init => DrawnInv
  <1> SUFFICES ASSUME Init PROVE DrawnInv
    OBVIOUS
  <1>1. TablesApart
    BY None DEF Init, FirstInit, TablesApart
  <1>2. CallsApart
    BY None DEF Init, SecondInit, CallsApart
  <1>3. \A l \in Layer : Fed[l] = <<>>
    BY ConcatEmptySeq, EmptySeq DEF Init, SecondInit, WriterInit, Fed, fed
  <1>4. RowsNoted
    <2>1. "nearest_roads" \in Layer /\ "nearest_areas" \in Layer
      BY LayerFacts DEF LayerNames
    <2>2. Elements(<<>>) = {} /\ DOMAIN <<>> = {}
      BY None
    <2> QED
      BY <1>3, <2>1, <2>2 DEF RowsNoted
  <1> QED
    BY <1>1, <1>2, <1>4 DEF DrawnInv

LEMMA DrawnOnce == TypeInv /\ DrawnInv => WayDrawnOnce
  <1> SUFFICES ASSUME TypeInv, DrawnInv PROVE WayDrawnOnce
    OBVIOUS
  <1> DEFINE r == fed("nearest_roads")
             a == fed("nearest_areas")
             drawn == r \o a
  <1>1. "nearest_roads" \in Layer /\ "nearest_areas" \in Layer
    BY LayerFacts DEF LayerNames
  <1>2. /\ Fed["nearest_roads"] = r /\ Fed["nearest_areas"] = a
        /\ IsSequence(r) /\ IsSequence(a)
        /\ DOMAIN r = 1..Len(r) /\ Len(r) \in Nat /\ DOMAIN a = 1..Len(a) /\ Len(a) \in Nat
    BY <1>1, FedFacts DEF TypeInv
  <1>3. /\ IsSequence(drawn) /\ Len(drawn) = Len(r) + Len(a)
        /\ \A i \in 1..Len(r) : drawn[i] = r[i]
        /\ \A i \in 1..Len(a) : drawn[Len(r) + i] = a[i]
    BY <1>2, Joined
  <1>4. DOMAIN drawn = 1..(Len(r) + Len(a))
    BY <1>3, SequenceFacts
  <1>5. /\ \A i \in 1..Len(r) : r[i].way_id \in RoadIds
        /\ \A i \in 1..Len(a) : a[i].way_id \in AreaIds
        /\ \A i, k \in 1..Len(r) : r[i].way_id = r[k].way_id => i = k
        /\ \A i, k \in 1..Len(a) : a[i].way_id = a[k].way_id => i = k
    BY <1>2, SequenceFacts DEF DrawnInv, RowsNoted, Drawable
  <1>6. AreaIds \intersect RoadIds = {}
    BY ApartIds DEF TypeInv, PassTyped
  <1> HIDE DEF r, a, drawn
  <1>7. ASSUME NEW i \in DOMAIN drawn
        PROVE  \/ i \in 1..Len(r) /\ drawn[i] = r[i]
               \/ \E k \in 1..Len(a) : i = Len(r) + k /\ drawn[i] = a[k]
    <2>1. CASE i <= Len(r)
      BY <1>2, <1>3, <1>4, <2>1
    <2>2. CASE i > Len(r)
      <3>1. i - Len(r) \in 1..Len(a) /\ i = Len(r) + (i - Len(r))
        BY <1>2, <1>4, <2>2
      <3> QED
        BY <1>3, <3>1
    <2> QED
      BY <1>2, <1>4, <2>1, <2>2
  <1>8. ASSUME NEW i \in DOMAIN drawn, NEW k \in DOMAIN drawn, drawn[i].way_id = drawn[k].way_id
        PROVE  i = k
    <2> DEFINE road(j) == j \in 1..Len(r) /\ drawn[j] = r[j]
               area(j) == \E n \in 1..Len(a) : j = Len(r) + n /\ drawn[j] = a[n]
    <2>1. (road(i) \/ area(i)) /\ (road(k) \/ area(k))
      BY <1>7
    <2>2. CASE road(i) /\ road(k)
      BY <1>5, <1>8, <2>2
    <2>3. CASE area(i) /\ area(k)
      <3>1. PICK n \in 1..Len(a) : i = Len(r) + n /\ drawn[i] = a[n]
        BY <2>3
      <3>2. PICK m \in 1..Len(a) : k = Len(r) + m /\ drawn[k] = a[m]
        BY <2>3
      <3>3. n = m
        BY <1>5, <1>8, <3>1, <3>2
      <3> QED
        BY <3>1, <3>2, <3>3
    <2>4. CASE (road(i) /\ area(k)) \/ (area(i) /\ road(k))
      <3>1. \E id : id \in RoadIds /\ id \in AreaIds
        BY <1>5, <1>8, <2>4
      <3> QED
        BY <1>6, <3>1
    <2> QED
      BY <2>1, <2>2, <2>3, <2>4
  <1> QED
    BY <1>8 DEF WayDrawnOnce, drawn, r, a

(* A highway is drawn once, as a road or as an area, in whatever order and *)
(* however often the addresses of the file ask for it.                     *)
THEOREM NeverDrawnTwice == Spec => []WayDrawnOnce
  <1>1. TypeInv /\ DrawnInv /\ [Next]_vars => DrawnInv'
    BY DrawnStep
  <1>2. Init => DrawnInv
    BY DrawnInit
  <1> QED
    BY <1>1, <1>2, TypeInvariant, DrawnOnce, PTL DEF Spec

-----------------------------------------------------------------------------
(* The calls of a handler belong together: a point comes after its way,    *)
(* every line to a way has its point, and every interpolated node that     *)
(* says it is connected has its line. E has at least the elements of s.    *)
Draws(c, w) == c.layer \in {"nearest_roads", "nearest_areas"} /\ c.row.way_id = w
Points(E) == {c \in E : c.layer = "nearest_points"}
DrawnFirst(E) == {p \in E \X E : Draws(p[1], p[2].row.way_id)}
PointsTo(E, w) == {c \in E : c.layer = "nearest_points" /\ c.row.way_id = w}
LinesTo(E, w) == {c \in E : c.layer = "connection_line" /\ c.row.end = <<"way", w>>}
IpLines(E) == {c \in E : c.layer = "connection_line" /\ c.row.type = "interpolated"}
Flagged(E) == {c \in E : /\ c.layer = "nodes_with_addresses"
                         /\ c.row.type = "interpolated" /\ c.row.road_id}

Tidy(s, E) ==
    /\ IsSequence(s) /\ Elements(s) \subseteq E
    /\ Announced(s, Points(E), DrawnFirst(E))
    /\ \A w : Count(s, PointsTo(E, w)) = Count(s, LinesTo(E, w))
    /\ Count(s, Flagged(E)) = Count(s, IpLines(E))
IsTidy(s) == Tidy(s, Elements(s))

(* Features that none of this is about                                     *)
Plain(c) == /\ c.layer # "nearest_points"
            /\ c.layer = "connection_line" => c.row.end[1] # "way" /\ c.row.type # "interpolated"
            /\ c.layer = "nodes_with_addresses" => c.row.type # "interpolated"

LEMMA TidyConcat ==
  ASSUME NEW E, NEW s, Tidy(s, E), NEW t, Tidy(t, E)
  PROVE  Tidy(s \o t, E)
  <1>1. /\ IsSequence(s) /\ IsSequence(t) /\ s \in Seq(E) /\ t \in Seq(E)
        /\ IsSequence(s \o t) /\ Elements(s \o t) \subseteq E
    BY Joined, Widened DEF Tidy
  <1>2. Announced(s \o t, Points(E), DrawnFirst(E))
    BY <1>1, AnnouncedConcat DEF Tidy
  <1>3. \A R : Count(s \o t, R) = Count(s, R) + Count(t, R)
    BY <1>1, CountConcat
  <1>4. \A w : Count(s \o t, PointsTo(E, w)) = Count(s \o t, LinesTo(E, w))
    BY <1>3 DEF Tidy
  <1>5. Count(s \o t, Flagged(E)) = Count(s \o t, IpLines(E))
    BY <1>3 DEF Tidy
  <1> QED
    BY <1>1, <1>2, <1>4, <1>5 DEF Tidy

LEMMA TidyFlatten ==
  ASSUME NEW E, NEW seqs, IsSequence(seqs), \A i \in 1..Len(seqs) : Tidy(seqs[i], E)
  PROVE  Tidy(FlattenSeq(seqs), E)
  <1>1. /\ DOMAIN seqs = 1..Len(seqs) /\ Len(seqs) \in Nat
        /\ \A i \in 1..Len(seqs) : IsSequence(seqs[i]) /\ Elements(seqs[i]) \subseteq E
    BY SequenceFacts DEF Tidy
  <1>2. \A i \in 1..Len(seqs) : seqs[i] \in Seq(E)
    BY <1>1, Widened
  <1>3. Elements(seqs) \subseteq Seq(E)
    BY <1>1, <1>2 DEF Elements
  <1>4. seqs \in Seq(Seq(E))
    BY <1>3, Widened
  <1>5. FlattenSeq(seqs) \in Seq(E)
    BY <1>4, FlattenType
  <1>6. IsSequence(FlattenSeq(seqs)) /\ Elements(FlattenSeq(seqs)) \subseteq E
    BY <1>5, Narrowed
  <1>7. Announced(FlattenSeq(seqs), Points(E), DrawnFirst(E))
    BY <1>4, FlattenAnnounced DEF Tidy
  <1>8. ASSUME NEW w PROVE Count(FlattenSeq(seqs), PointsTo(E, w)) = Count(FlattenSeq(seqs), LinesTo(E, w))
    BY <1>4, FlattenCount DEF Tidy
  <1>9. Count(FlattenSeq(seqs), Flagged(E)) = Count(FlattenSeq(seqs), IpLines(E))
    BY <1>4, FlattenCount DEF Tidy
  <1> QED
    BY <1>6, <1>7, <1>8, <1>9 DEF Tidy

LEMMA TidyPlain ==
  ASSUME NEW E, NEW s, IsSequence(s), Elements(s) \subseteq E, \A c \in Elements(s) : Plain(c)
  PROVE  Tidy(s, E)
  <1>1. \A i \in DOMAIN s : Plain(s[i])
    BY DEF Elements
  <1>2. \A i \in DOMAIN s : /\ s[i] \notin Points(E) /\ s[i] \notin Flagged(E) /\ s[i] \notin IpLines(E)
                            /\ \A w : s[i] \notin PointsTo(E, w) /\ s[i] \notin LinesTo(E, w)
    BY <1>1 DEF Plain, Points, Flagged, IpLines, PointsTo, LinesTo
  <1>3. Announced(s, Points(E), DrawnFirst(E))
    BY <1>2 DEF Announced
  <1>4. \A w : Count(s, PointsTo(E, w)) = Count(s, LinesTo(E, w))
    BY <1>2, CountSame
  <1>5. Count(s, Flagged(E)) = Count(s, IpLines(E))
    BY <1>2, CountSame
  <1> QED
    BY <1>3, <1>4, <1>5 DEF Tidy

LEMMA TidyWithin ==
  ASSUME NEW E, NEW s, Tidy(s, E), NEW F, Elements(s) \subseteq F
  PROVE  Tidy(s, F)
  <1>1. IsSequence(s) /\ \A i \in DOMAIN s : s[i] \in E /\ s[i] \in F
    BY DEF Tidy, Elements
  <1>2. Announced(s, Points(F), DrawnFirst(F))
    <2> SUFFICES ASSUME NEW i \in DOMAIN s, s[i] \in Points(F)
                 PROVE  \E k \in DOMAIN s : k < i /\ <<s[k], s[i]>> \in DrawnFirst(F)
      BY DEF Announced
    <2>1. s[i] \in Points(E)
      BY <1>1 DEF Points
    <2>2. PICK k \in DOMAIN s : k < i /\ <<s[k], s[i]>> \in DrawnFirst(E)
      BY <2>1 DEF Tidy, Announced
    <2>3. <<s[k], s[i]>> \in DrawnFirst(F)
      BY <1>1, <2>2 DEF DrawnFirst
    <2> QED
      BY <2>2, <2>3
  <1>3. ASSUME NEW w PROVE Count(s, PointsTo(F, w)) = Count(s, LinesTo(F, w))
    <2>1. Count(s, PointsTo(F, w)) = Count(s, PointsTo(E, w))
      BY <1>1, CountSame DEF PointsTo
    <2>2. Count(s, LinesTo(F, w)) = Count(s, LinesTo(E, w))
      BY <1>1, CountSame DEF LinesTo
    <2> QED
      BY <2>1, <2>2 DEF Tidy
  <1>4. Count(s, Flagged(F)) = Count(s, Flagged(E))
    BY <1>1, CountSame DEF Flagged
  <1>5. Count(s, IpLines(F)) = Count(s, IpLines(E))
    BY <1>1, CountSame DEF IpLines
  <1> QED
    BY <1>1, <1>2, <1>3, <1>4, <1>5 DEF Tidy

OnWayCounted(s, type, E) ==
    /\ IsSequence(s)
    /\ Announced(s, Points(E), DrawnFirst(E))
    /\ \A w : Count(s, PointsTo(E, w)) = Count(s, LinesTo(E, w))
    /\ Count(s, Flagged(E)) = 0
    /\ Count(s, IpLines(E)) = IF type = "interpolated" THEN 1 ELSE 0

LEMMA OnWayCounts ==
  ASSUME NEW type, NEW id, NEW e, NEW name, NEW E,
         Elements(OnWay(type, id, e, name)) \subseteq E
  PROVE  OnWayCounted(OnWay(type, id, e, name), type, E)
  <1> DEFINE w1 == e.entry.way_id
             a == write_line(type, id, <<"way", w1>>)
             b == call(IF e.is_area THEN "nearest_areas" ELSE "nearest_roads",
                       [way_id |-> w1, name |-> name])
             c == call("nearest_points", [way_id |-> w1])
             s == OnWay(type, id, e, name)
  <1>1. s = <<a, b, c>>
    BY DEF OnWay
  <1>2. /\ a.layer = "connection_line" /\ a.row.type = type /\ a.row.end = <<"way", w1>>
        /\ b.layer \in {"nearest_roads", "nearest_areas"} /\ b.row.way_id = w1
        /\ c.layer = "nearest_points" /\ c.row.way_id = w1
    BY DEF write_line, call
  <1>3. IsSequence(s) /\ DOMAIN s = 1..3 /\ s[1] = a /\ s[2] = b /\ s[3] = c
    BY <1>1, OnWayFacts, SequenceFacts
  <1>4. a \in E /\ b \in E /\ c \in E
    BY <1>3 DEF Elements
  <1> HIDE DEF a, b, c, s
  <1>5. Announced(s, Points(E), DrawnFirst(E))
    <2> SUFFICES ASSUME NEW i \in DOMAIN s, s[i] \in Points(E)
                 PROVE  \E k \in DOMAIN s : k < i /\ <<s[k], s[i]>> \in DrawnFirst(E)
      BY DEF Announced
    <2>1. i = 3
      BY <1>2, <1>3 DEF Points
    <2>2. Draws(b, c.row.way_id)
      BY <1>2 DEF Draws
    <2>3. <<b, c>> \in DrawnFirst(E)
      BY <1>4, <2>2 DEF DrawnFirst
    <2> QED
      BY <1>3, <2>1, <2>3
  <1>6. ASSUME NEW w PROVE Count(s, PointsTo(E, w)) = Count(s, LinesTo(E, w))
    <2>1. /\ a \notin PointsTo(E, w) /\ b \notin PointsTo(E, w)
          /\ c \in PointsTo(E, w) <=> w1 = w
      BY <1>2, <1>4 DEF PointsTo
    <2>2. /\ b \notin LinesTo(E, w) /\ c \notin LinesTo(E, w)
          /\ a \in LinesTo(E, w) <=> w1 = w
      BY <1>2, <1>4 DEF LinesTo
    <2> QED
      BY <1>1, <2>1, <2>2, CountThree
  <1>7. Count(s, Flagged(E)) = 0
    <2>1. a \notin Flagged(E) /\ b \notin Flagged(E) /\ c \notin Flagged(E)
      BY <1>2 DEF Flagged
    <2> QED
      BY <1>1, <2>1, CountThree
  <1>8. Count(s, IpLines(E)) = IF type = "interpolated" THEN 1 ELSE 0
    <2>1. /\ b \notin IpLines(E) /\ c \notin IpLines(E)
          /\ a \in IpLines(E) <=> type = "interpolated"
      BY <1>2, <1>4 DEF IpLines
    <2> QED
      BY <1>1, <2>1, CountThree
  <1> QED
    BY <1>3, <1>5, <1>6, <1>7, <1>8 DEF s, OnWayCounted

(* Of a street, for an address of its own or for an interpolated one       *)
LEMMA TidyStreet ==
  ASSUME NEW r, NEW type, type # "interpolated", NEW id, IsStreet(r, type, id),
         NEW E, Elements(r.calls) \subseteq E
  PROVE  Tidy(r.calls, E)
  <1>1. CASE r = NoStreet
    <2>1. r.calls = <<>>
      BY <1>1 DEF NoStreet
    <2>2. IsSequence(r.calls) /\ Elements(r.calls) = {}
      BY <2>1, None
    <2> QED
      BY <2>2, TidyPlain
  <1>2. CASE r # NoStreet
    <2>1. PICK name \in Names : \E e \in Elements(lookups(name)) :
             r = [calls |-> OnWay(type, id, e, name), road_id |-> TRUE]
      BY <1>2 DEF IsStreet
    <2>2. PICK e \in Elements(lookups(name)) :
             r = [calls |-> OnWay(type, id, e, name), road_id |-> TRUE]
      BY <2>1
    <2>3. r.calls = OnWay(type, id, e, name)
      BY <2>2
    <2>4. Tidy(r.calls, E)
      <3>1. OnWayCounted(OnWay(type, id, e, name), type, E)
        BY <2>3, OnWayCounts
      <3> QED
        BY <2>3, <3>1 DEF Tidy, OnWayCounted
    <2> QED
      BY <2>4
  <1> QED
    BY <1>1, <1>2

LEMMA TidyInterpolated ==
  ASSUME NEW r, IsStreet(r, "interpolated", 0), NEW nr, NEW tags,
         NEW E, Elements(r.calls) \subseteq E, address_of_interpolation(nr, tags, r) \in E
  PROVE  Tidy(r.calls \o <<address_of_interpolation(nr, tags, r)>>, E)
  <1> DEFINE row == address_of_interpolation(nr, tags, r)
             s == r.calls
             t == <<row>>
  <1>1. /\ IsSequence(s) /\ Announced(s, Points(E), DrawnFirst(E))
        /\ \A w : Count(s, PointsTo(E, w)) = Count(s, LinesTo(E, w))
        /\ Count(s, Flagged(E)) = 0
        /\ Count(s, IpLines(E)) = IF r.road_id THEN 1 ELSE 0
        /\ r.road_id \in BOOLEAN
        /\ r = [calls |-> s, road_id |-> r.road_id]
    <2>1. CASE r = NoStreet
      <3>1. s = <<>> /\ r.road_id = FALSE /\ r = [calls |-> s, road_id |-> r.road_id]
        BY <2>1 DEF NoStreet
      <3>2. \A R : Count(s, R) = 0
        BY <3>1, CountEmpty
      <3>3. IsSequence(s) /\ DOMAIN s = {}
        BY <3>1, None
      <3>4. Announced(s, Points(E), DrawnFirst(E))
        BY <3>3 DEF Announced
      <3>5. \A w : Count(s, PointsTo(E, w)) = Count(s, LinesTo(E, w))
        BY <3>2
      <3>6. Count(s, Flagged(E)) = 0 /\ Count(s, IpLines(E)) = 0
        BY <3>2
      <3>7. Count(s, IpLines(E)) = IF r.road_id THEN 1 ELSE 0
        BY <3>1, <3>6
      <3> HIDE DEF s
      <3> QED
        BY <3>1, <3>3, <3>4, <3>5, <3>6, <3>7
    <2>2. CASE r # NoStreet
      <3>1. PICK name \in Names : \E e \in Elements(lookups(name)) :
               r = [calls |-> OnWay("interpolated", 0, e, name), road_id |-> TRUE]
        BY <2>2 DEF IsStreet
      <3>2. PICK e \in Elements(lookups(name)) :
               r = [calls |-> OnWay("interpolated", 0, e, name), road_id |-> TRUE]
        BY <3>1
      <3>3. s = OnWay("interpolated", 0, e, name) /\ r.road_id = TRUE
            /\ r = [calls |-> s, road_id |-> r.road_id]
        BY <3>2
      <3> DEFINE u == OnWay("interpolated", 0, e, name)
      <3>4. Elements(u) \subseteq E
        BY <3>3
      <3>5. OnWayCounted(u, "interpolated", E)
        BY <3>4, OnWayCounts
      <3> HIDE DEF u
      <3> QED
        BY <3>3, <3>5 DEF u, OnWayCounted
    <2> QED
      BY <2>1, <2>2
  <1>2. row.layer = "nodes_with_addresses" /\ row.row.type = "interpolated" /\ row.row.road_id = r.road_id
    BY DEF address_of_interpolation, address, call
  <1>3. IsSequence(t) /\ Elements(t) = {row} /\ DOMAIN t = {1} /\ t[1] = row
    BY Single, SequenceFacts
  <1> HIDE DEF row, s, t
  <1>4. s \in Seq(E) /\ t \in Seq(E) /\ IsSequence(s \o t) /\ Elements(s \o t) \subseteq E
    BY <1>1, <1>3, Joined, Widened DEF row, s
  <1>5. Announced(t, Points(E), DrawnFirst(E))
    BY <1>2, <1>3 DEF Announced, Points
  <1>6. Announced(s \o t, Points(E), DrawnFirst(E))
    BY <1>1, <1>4, <1>5, AnnouncedConcat
  <1>7. \A R : Count(s \o t, R) = Count(s, R) + Count(t, R)
    BY <1>4, CountConcat
  <1>8. \A R : Count(t, R) = IF row \in R THEN 1 ELSE 0
    BY CountSingle DEF t
  <1>9. ASSUME NEW w PROVE Count(s \o t, PointsTo(E, w)) = Count(s \o t, LinesTo(E, w))
    <2>1. row \notin PointsTo(E, w) /\ row \notin LinesTo(E, w)
      BY <1>2 DEF PointsTo, LinesTo
    <2>2. Count(t, PointsTo(E, w)) = Count(t, LinesTo(E, w))
      BY <1>8, <2>1
    <2> QED
      BY <1>1, <1>7, <2>2
  <1>10. Count(s \o t, Flagged(E)) = Count(s \o t, IpLines(E))
    <2>1. row \notin IpLines(E) /\ (row \in Flagged(E) <=> r.road_id)
      BY <1>2 DEF IpLines, Flagged, row
    <2> QED
      BY <1>1, <1>7, <1>8, <2>1
  <1> QED
    BY <1>4, <1>6, <1>9, <1>10 DEF Tidy, s, t, row

LEMMA PlainCalls ==
  /\ \A c : PlaceCall(c, "node") \/ PlaceCall(c, "way") => Plain(c)
  /\ \A type \in {"node", "way"} : \A id, tags, nr, ids : Plain(address(type, id, tags, nr, ids))
  /\ \A layer \in LayerNames \ {"nearest_points", "connection_line", "nodes_with_addresses"} :
        \A row : Plain(call(layer, row))
  BY DEF Plain, PlaceCall, write_line, address, call

LEMMA TidyWhen ==
  ASSUME NEW b \in BOOLEAN, NEW c, Plain(c)
  PROVE  IsTidy(When(b, <<c>>))
  <1>1. IsSequence(When(b, <<c>>)) /\ \A d \in Elements(When(b, <<c>>)) : d = c
    BY WhenFacts, Single
  <1>2. \A d \in Elements(When(b, <<c>>)) : Plain(d)
    BY <1>1
  <1> QED
    BY <1>1, <1>2, TidyPlain DEF IsTidy

(* Sequences that are tidy by themselves are one after the other.          *)
LEMMA TidyJoined ==
  ASSUME NEW s, IsTidy(s), NEW t, IsTidy(t)
  PROVE  IsTidy(s \o t)
  <1> DEFINE E == Elements(s \o t)
  <1>1. Elements(s) \subseteq E /\ Elements(t) \subseteq E
    BY Joined DEF Tidy, IsTidy
  <1> HIDE DEF E
  <1>2. Tidy(s, E) /\ Tidy(t, E)
    BY <1>1, TidyWithin DEF IsTidy
  <1>3. Tidy(s \o t, E)
    BY <1>2, TidyConcat
  <1> QED
    BY <1>3 DEF E, IsTidy

LEMMA TidyNode ==
  ASSUME TablesTyped, file \in InputFiles, NEW i \in 1..Len(file)
  PROVE  IsTidy(NodeCalls(file[i]))
  <1> DEFINE node == file[i]
             street == StreetOf(node, node.loc, "node")
             place1 == PlaceOf(node, node.loc, "node", "addr:street")
             place2 == PlaceOf(node, node.loc, "node", "addr:place")
             A == feed_entrances(node)
             B == street.calls \o place1.calls
             C == B \o place2.calls
             D == address_of_node(node, process_node(node))
  <1>1. IsTidy(A)
    <2> DEFINE c == call("entrances", [node_id |-> node.id])
               b == is_entrance(node)
    <2>1. A = When(b, <<c>>) /\ b \in BOOLEAN /\ Plain(c)
      BY PlainCalls DEF feed_entrances, is_entrance, Is, Has, LayerNames
    <2> HIDE DEF c, b, A
    <2> QED
      BY <2>1, TidyWhen
  <1>2. IsTidy(street.calls)
    <2>1. IsStreet(street, "node", node.id)
      BY StreetOfShape
    <2> QED
      BY <2>1, TidyStreet DEF IsTidy
  <1>3. IsTidy(place1.calls) /\ IsTidy(place2.calls)
    <2>1. IsPlace(place1, "node") /\ IsPlace(place2, "node")
      BY PlaceOfShape
    <2> HIDE DEF place1, place2
    <2>2. /\ IsSequence(place1.calls) /\ \A c \in Elements(place1.calls) : Plain(c)
          /\ IsSequence(place2.calls) /\ \A c \in Elements(place2.calls) : Plain(c)
      BY <2>1, PlaceFacts, PlainCalls
    <2> QED
      BY <2>2, TidyPlain DEF IsTidy
  <1>4. IsTidy(D)
    <2> DEFINE c == address("node", node.id, AltTagList(node), 0, process_node(node))
               b == HasAny(node, AddrKeys)
    <2>1. D = When(b, <<c>>) /\ b \in BOOLEAN /\ Plain(c)
      BY PlainCalls DEF address_of_node, HasAny
    <2> HIDE DEF c, b, D
    <2> QED
      BY <2>1, TidyWhen
  <1>5. NodeCalls(node) = A \o C \o D
    BY DEF NodeCalls, process_node
  <1> HIDE DEF A, D, street, place1, place2
  <1>6. IsTidy(B)
    BY <1>2, <1>3, TidyJoined
  <1> HIDE DEF B
  <1>7. IsTidy(C)
    BY <1>3, <1>6, TidyJoined
  <1> HIDE DEF C
  <1>8. IsTidy(A \o C)
    BY <1>1, <1>7, TidyJoined
  <1>9. IsTidy(A \o C \o D)
    BY <1>4, <1>8, TidyJoined
  <1> QED
    BY <1>5, <1>9

LEMMA TidyFeed ==
  ASSUME TypeInv, NEW way, way.refs[1] \in NodeIds, way.refs[Len(way.refs)] \in NodeIds,
         NEW ip \in interpolations(way), NEW line
  PROVE  IsTidy(feed_interpolation(way, line, ip))
  <1>1. CASE ~Has(way, "addr:interpolation")
    <2>1. feed_interpolation(way, line, ip) = <<>>
      BY <1>1 DEF feed_interpolation, When
    <2> QED
      BY <2>1, None, TidyPlain DEF IsTidy
  <1>2. CASE Has(way, "addr:interpolation")
    <2> DEFINE nodes == IpNodes(way, line, ip)
               n == Len(numbers(ip))
               e == call("interpolation", [way_id |-> way.id, error |-> error(ip)])
               F == UNION {Elements(nodes[i]) : i \in 1..n}
    <2>1. feed_interpolation(way, line, ip) = FlattenSeq(nodes) \o <<e>>
      BY <1>2 DEF feed_interpolation, When, IpNodes
    <2>2. /\ IsSequence(nodes) /\ Len(nodes) = n
          /\ \A i \in 1..n :
               /\ IsStreet(IpIds(way, line, ip, i), "interpolated", 0)
               /\ nodes[i] = IpIds(way, line, ip, i).calls \o <<IpRow(way, line, ip, i)>>
      BY <1>2, IpNodesFacts
    <2> HIDE DEF nodes
    <2>3. ASSUME NEW i \in 1..n PROVE Tidy(nodes[i], F)
      <3> DEFINE r == IpIds(way, line, ip, i)
                 row == IpRow(way, line, ip, i)
      <3>1. IsStreet(r, "interpolated", 0) /\ nodes[i] = r.calls \o <<row>>
        BY <2>2
      <3> HIDE DEF r
      <3>2. IsSequence(r.calls)
        BY <3>1, StreetFacts
      <3>3. Elements(nodes[i]) = Elements(r.calls) \union {row}
        BY <3>1, <3>2, Joined, Single
      <3>4. Elements(r.calls) \subseteq F /\ row \in F
        BY <3>3
      <3> HIDE DEF F
      <3>5. row = address_of_interpolation(numbers(ip)[i],
                      addr_interpolation_node_map[way.refs[1]], r)
        BY DEF IpRow, r
      <3> HIDE DEF row
      <3>6. Tidy(r.calls \o <<row>>, F)
        BY <3>1, <3>4, <3>5, TidyInterpolated
      <3> QED
        BY <3>1, <3>6
    <2> HIDE DEF n, F, e
    <2>4. Tidy(FlattenSeq(nodes), F)
      BY <2>2, <2>3, TidyFlatten
    <2>5. IsTidy(FlattenSeq(nodes))
      BY <2>4, TidyWithin DEF IsTidy
    <2>6. IsTidy(<<e>>)
      <3>1. Plain(e)
        BY PlainCalls DEF e, LayerNames
      <3> QED
        BY <3>1, Single, TidyPlain DEF IsTidy
    <2>7. IsTidy(FlattenSeq(nodes) \o <<e>>)
      BY <2>5, <2>6, TidyJoined
    <2> QED
      BY <2>1, <2>7
  <1> QED
    BY <1>1, <1>2

LEMMA TidyWay ==
  ASSUME TypeInv, NEW k \in 1..Len(file), file[k].type = "way", NEW ip \in interpolations(file[k])
  PROVE  IsTidy(WayCalls(file[k], locations(file[k], index), ip))
  <1> DEFINE way == file[k]
             line == locations(way, index)
             A == feed_interpolation(way, line, ip)
             B == feed_addrx(way)
             C == feed_ways_with_addresses(way, line)
             D == feed_postal_code(way)
             street == StreetOf(way, Centroid(line), "way")
             place == PlaceOf(way, Centroid(line), "way", "addr:place")
             F == address_of_way(way, process_way(way, Centroid(line)))
             G == street.calls \o place.calls
             E == centroid_calls(way, line)
  <1>1. CASE ~is_way_with_nonzero_length(line)
    <2>1. WayCalls(way, line, ip) = <<>>
      BY <1>1 DEF WayCalls, When
    <2> QED
      BY <2>1, None, TidyPlain DEF IsTidy
  <1>2. CASE is_way_with_nonzero_length(line)
    <2>1. IsTidy(A)
      <3>1. way.refs[1] \in NodeIds /\ way.refs[Len(way.refs)] \in NodeIds
        BY <1>2, LineFacts DEF TypeInv, PassTyped
      <3> QED
        BY <3>1, TidyFeed
    <2>2. IsTidy(B)
      BY PlainCalls, TidyWhen DEF feed_addrx, is_closed, HasAny, LayerNames
    <2>3. IsTidy(C)
      <3> DEFINE b == /\ is_address_building(way) /\ polygon_ok(line)
                      /\ HasAny(way, {"addr:street", "addr:housenumber", "addr:place"})
                 c == call("ways_with_addresses", [way_id |-> way.id, tags |-> AltTagList(way)])
      <3>1. b \in BOOLEAN /\ Plain(c) /\ C = When(b, <<c>>)
        BY PlainCalls DEF feed_ways_with_addresses, LayerNames
      <3> HIDE DEF b, c, C
      <3> QED
        BY <3>1, TidyWhen
    <2>4. IsTidy(D)
      <3> DEFINE c == call("ways_with_postal_code", way_row(way))
                 b == Has(way, "postal_code")
      <3>1. D = When(b, <<c>>) /\ b \in BOOLEAN /\ Plain(c)
        BY PlainCalls DEF feed_postal_code, Has, LayerNames
      <3> HIDE DEF c, b, D
      <3> QED
        BY <3>1, TidyWhen
    <2>5. IsTidy(street.calls)
      <3>1. IsStreet(street, "way", way.id)
        BY StreetOfShape DEF TypeInv, PassTyped
      <3> QED
        BY <3>1, TidyStreet DEF IsTidy
    <2>6. IsTidy(place.calls)
      <3>1. IsPlace(place, "way")
        BY PlaceOfShape
      <3> HIDE DEF place
      <3>2. IsSequence(place.calls) /\ \A c \in Elements(place.calls) : Plain(c)
        BY <3>1, PlaceFacts, PlainCalls
      <3> QED
        BY <3>2, TidyPlain DEF IsTidy
    <2>7. IsTidy(F)
      <3> DEFINE c == address("way", way.id, AltTagList(way), 0, process_way(way, Centroid(line)))
                 b == is_address_building(way) /\ HasAny(way, {"addr:street", "addr:housenumber"})
      <3>1. F = When(b, <<c>>) /\ b \in BOOLEAN /\ Plain(c)
        BY PlainCalls DEF address_of_way
      <3> HIDE DEF c, b, F
      <3> QED
        BY <3>1, TidyWhen
    <2>8. E = When(is_closed(way) /\ centroid_ok(line), G \o F)
      BY DEF centroid_calls, process_way
    <2>9. WayCalls(way, line, ip) = A \o B \o C \o D \o E
      BY <1>2 DEF WayCalls, When
    <2> HIDE DEF A, B, C, D, F, street, place, E
    <2>10. IsTidy(G)
      BY <2>5, <2>6, TidyJoined
    <2> HIDE DEF G
    <2>11. IsTidy(G \o F)
      BY <2>7, <2>10, TidyJoined
    <2>12. IsTidy(E)
      <3>1. E = G \o F \/ E = <<>>
        BY <2>8 DEF When
      <3> QED
        BY <2>11, <3>1, None, TidyPlain DEF IsTidy
    <2>13. IsTidy(A \o B)
      BY <2>1, <2>2, TidyJoined
    <2>14. IsTidy(A \o B \o C)
      BY <2>3, <2>13, TidyJoined
    <2>15. IsTidy(A \o B \o C \o D)
      BY <2>4, <2>14, TidyJoined
    <2>16. IsTidy(A \o B \o C \o D \o E)
      BY <2>12, <2>15, TidyJoined
    <2> QED
      BY <2>9, <2>16
  <1> QED
    BY <1>1, <1>2

LEMMA TidyRead ==
  ASSUME TypeInv, Read \/ Quiet
  PROVE  /\ written_ways' = written_ways
         /\ calls' = calls \/ (calls = <<>> /\ IsTidy(calls'))
  <1>0. TablesTyped /\ file \in InputFiles /\ pos \in 1..(Len(file) + 1) /\ Len(file) \in Nat
    BY FileFacts DEF TypeInv, PassTyped
  <1>1. CASE apply_first_node \/ apply_first_way \/ next_pass \/ Quiet
    BY <1>1 DEF apply_first_node, apply_first_way, next_pass, Quiet, second_vars
  <1>2. CASE apply_second_node
    <2>1. /\ written_ways' = written_ways /\ calls = <<>>
          /\ pos \in 1..Len(file) /\ calls' = NodeCalls(file[pos])
      BY <1>0, <1>2 DEF apply_second_node, Next_object, Second_object, Between_handlers, second_node
    <2> QED
      BY <1>0, <2>1, TidyNode
  <1>3. CASE apply_second_way
    <2>1. /\ written_ways' = written_ways /\ calls = <<>>
          /\ pos \in 1..Len(file) /\ file[pos].type = "way"
          /\ \E ip \in interpolations(file[pos]) :
                calls' = WayCalls(file[pos], locations(file[pos], index), ip)
      BY <1>0, <1>3 DEF apply_second_way, Next_object, Second_object, Between_handlers, second_way
    <2> QED
      BY <2>1, TidyWay
  <1> QED
    BY <1>1, <1>2, <1>3 DEF Read

-----------------------------------------------------------------------------
(* The way of a point is drawn, or it is among the calls before the point. *)
Drawn(f, w) == \E row \in Elements(f["nearest_roads"]) \union Elements(f["nearest_areas"]) :
                  row.way_id = w
PointsDrawn == \A point \in Elements(Fed["nearest_points"]) : Drawn(Fed, point.way_id)
PointsFollow == \A i \in DOMAIN calls : calls[i].layer = "nearest_points" =>
    \/ Drawn(Fed, calls[i].row.way_id)
    \/ \E k \in DOMAIN calls : k < i /\ Draws(calls[k], calls[i].row.way_id)
NotedDrawn == \A l \in {"nearest_roads", "nearest_areas"} : \A w \in written_ways[l] : Drawn(Fed, w)
RoadInv == PointsDrawn /\ PointsFollow /\ NotedDrawn

LEMMA DeliverDraws ==
  ASSUME TypeInv, NotedDrawn, Deliver
  PROVE  /\ \A w : Drawn(Fed, w) \/ Draws(Head(calls), w) => Drawn(Fed', w)
         /\ NotedDrawn'
  <1> DEFINE c == Head(calls)
  <1>1. \A w : Drawn(Fed, w) => Drawn(Fed', w)
    BY LayerFacts, DeliverFacts DEF Drawn, LayerNames
  <1>2. ASSUME NEW w, Draws(c, w) PROVE Drawn(Fed', w)
    <2>1. CASE WrittenBefore(c)
      <3>1. Drawn(Fed, w)
        BY <1>2, <2>1 DEF WrittenBefore, NotedDrawn, Draws
      <3> QED
        BY <1>1, <3>1
    <2>2. CASE ~WrittenBefore(c)
      <3>1. c.row \in Elements(Fed'[c.layer])
        BY <2>2, DeliverFacts
      <3> QED
        BY <1>2, <3>1 DEF Draws, Drawn
    <2> QED
      BY <2>1, <2>2
  <1>3. NotedDrawn'
    <2>1. CASE WrittenBefore(c)
      BY <1>1, <2>1 DEF Deliver, NotedDrawn
    <2>2. CASE ~WrittenBefore(c)
      <3>1. /\ written_ways' = Noted(c)
            /\ DOMAIN written_ways = {"nearest_roads", "nearest_areas"}
        BY <2>2 DEF Deliver, TypeInv, CallsTyped
      <3> HIDE DEF c
      <3> SUFFICES ASSUME NEW l \in {"nearest_roads", "nearest_areas"}, NEW w \in written_ways'[l]
                   PROVE  Drawn(Fed', w)
        BY DEF NotedDrawn
      <3>2. w \in written_ways[l] \/ (l = c.layer /\ w = c.row.way_id)
        BY <3>1 DEF Noted
      <3>3. CASE w \in written_ways[l]
        BY <1>1, <3>3 DEF NotedDrawn
      <3>4. CASE l = c.layer /\ w = c.row.way_id
        BY <1>2, <3>4 DEF Draws, c
      <3> QED
        BY <3>2, <3>3, <3>4
    <2> QED
      BY <2>1, <2>2
  <1> QED
    BY <1>1, <1>2, <1>3

LEMMA RoadStep ==
  ASSUME TypeInv, RoadInv, [Next]_vars
  PROVE  RoadInv'
  <1>0. Deliver \/ (Fed' = Fed /\ (Read \/ Quiet))
    BY StepKinds
  <1>1. CASE Fed' = Fed /\ (Read \/ Quiet)
    <2>1. /\ written_ways' = written_ways
          /\ calls' = calls \/ (calls = <<>> /\ IsTidy(calls'))
      BY <1>1, TidyRead
    <2>2. \A w : Drawn(Fed', w) <=> Drawn(Fed, w)
      BY <1>1 DEF Drawn
    <2>3. PointsDrawn' /\ NotedDrawn'
      BY <1>1, <2>1, <2>2 DEF RoadInv, PointsDrawn, NotedDrawn
    <2>4. PointsFollow'
      <3>1. CASE calls' = calls
        BY <2>2, <3>1 DEF RoadInv, PointsFollow
      <3>2. CASE IsTidy(calls')
        <4> DEFINE s == calls'
                   E == Elements(s)
        <4>1. Announced(s, Points(E), DrawnFirst(E)) /\ \A i \in DOMAIN s : s[i] \in E
          BY <3>2 DEF IsTidy, Tidy, Elements
        <4> HIDE DEF s, E
        <4> SUFFICES ASSUME NEW i \in DOMAIN s, s[i].layer = "nearest_points"
                     PROVE  \E k \in DOMAIN s : k < i /\ Draws(s[k], s[i].row.way_id)
          BY <2>2 DEF PointsFollow, s, Draws
        <4>2. s[i] \in Points(E)
          BY <4>1 DEF Points
        <4>3. PICK k \in DOMAIN s : k < i /\ <<s[k], s[i]>> \in DrawnFirst(E)
          BY <4>1, <4>2 DEF Announced
        <4>4. Draws(s[k], s[i].row.way_id)
          BY <4>3 DEF DrawnFirst
        <4> QED
          BY <4>3, <4>4
      <3> QED
        BY <2>1, <3>1, <3>2
    <2> QED
      BY <2>3, <2>4 DEF RoadInv
  <1>2. CASE Deliver
    <2> DEFINE c == Head(calls)
               s == calls
               t == calls'
    <2>1. /\ \A w : Drawn(Fed, w) \/ Draws(c, w) => Drawn(Fed', w)
          /\ NotedDrawn'
      BY <1>2, DeliverDraws DEF RoadInv
    <2>2. /\ t = Tail(s) /\ IsSequence(s) /\ s # <<>> /\ IsSequence(t)
          /\ c = s[1] /\ Len(s) = Len(t) + 1 /\ Len(t) \in Nat
          /\ DOMAIN s = 1..(Len(t) + 1) /\ DOMAIN t = 1..Len(t)
          /\ \A i \in 1..Len(t) : t[i] = s[i + 1]
      <3>1. t = Tail(s) /\ IsSequence(s) /\ s # <<>>
        BY <1>2 DEF Deliver, TypeInv, CallsTyped
      <3>2. IsSequence(Tail(s)) /\ Head(s) = s[1] /\ Len(s) = Len(Tail(s)) + 1
            /\ \A i \in 1..Len(Tail(s)) : Tail(s)[i] = s[i + 1]
        BY <3>1, Shifted
      <3>3. DOMAIN s = 1..Len(s) /\ DOMAIN Tail(s) = 1..Len(Tail(s)) /\ Len(Tail(s)) \in Nat
        BY <3>1, <3>2, SequenceFacts
      <3> QED
        BY <3>1, <3>2, <3>3
    <2>3. \A i \in DOMAIN s : s[i].layer = "nearest_points" =>
             \/ Drawn(Fed, s[i].row.way_id)
             \/ \E k \in DOMAIN s : k < i /\ Draws(s[k], s[i].row.way_id)
      BY DEF RoadInv, PointsFollow
    <2> HIDE DEF c, s, t
    <2>4. PointsFollow'
      <3> SUFFICES ASSUME NEW i \in DOMAIN t, t[i].layer = "nearest_points", ~Drawn(Fed', t[i].row.way_id)
                   PROVE  \E k \in DOMAIN t : k < i /\ Draws(t[k], t[i].row.way_id)
        BY DEF PointsFollow, t, Draws
      <3>1. i \in 1..Len(t) /\ t[i] = s[i + 1] /\ i + 1 \in DOMAIN s
        BY <2>2
      <3>2. ~Drawn(Fed, t[i].row.way_id) /\ ~Draws(c, t[i].row.way_id)
        BY <2>1
      <3>3. PICK k \in DOMAIN s : k < i + 1 /\ Draws(s[k], t[i].row.way_id)
        BY <2>3, <3>1, <3>2
      <3>4. k # 1
        BY <2>2, <3>2, <3>3
      <3>5. k - 1 \in 1..Len(t) /\ k - 1 < i /\ (k - 1) + 1 = k
        BY <2>2, <3>1, <3>3, <3>4
      <3>6. t[k - 1] = s[k]
        BY <2>2, <3>5
      <3> QED
        BY <2>2, <3>3, <3>5, <3>6
    <2>5. PointsDrawn'
      <3>1. ASSUME NEW point \in Elements(Fed["nearest_points"]) PROVE Drawn(Fed', point.way_id)
        BY <2>1 DEF RoadInv, PointsDrawn
      <3>2. CASE Fed'["nearest_points"] = Fed["nearest_points"]
        BY <3>1, <3>2 DEF PointsDrawn
      <3>3. CASE Fed'["nearest_points"] # Fed["nearest_points"]
        <4>0. "nearest_points" \in Layer
          BY LayerFacts DEF LayerNames
        <4>1. c.layer = "nearest_points"
          BY <1>2, <3>3, <4>0, DeliverFacts DEF c
        <4>2. Elements(Fed'["nearest_points"]) = Elements(Fed["nearest_points"]) \union {c.row}
          BY <1>2, <3>3, <4>1, DeliverFacts DEF c
        <4>3. Drawn(Fed, c.row.way_id)
          <5>1. 1 \in DOMAIN s /\ ~(\E k \in DOMAIN s : k < 1)
            BY <2>2
          <5> QED
            BY <2>2, <2>3, <4>1, <5>1
        <4>4. Drawn(Fed', c.row.way_id)
          BY <2>1, <4>3
        <4> QED
          BY <3>1, <4>2, <4>4 DEF PointsDrawn
      <3> QED
        BY <3>2, <3>3
    <2> QED
      BY <2>1, <2>4, <2>5 DEF RoadInv
  <1> QED
    BY <1>0, <1>1, <1>2

LEMMA RoadInit == Init => RoadInv
  <1> SUFFICES ASSUME Init PROVE RoadInv
    OBVIOUS
  <1>1. Fed["nearest_points"] = <<>> /\ DOMAIN calls = {}
    BY FedInit, LayerFacts DEF LayerNames
  <1>2. PointsDrawn /\ PointsFollow
    BY <1>1, None DEF PointsDrawn, PointsFollow
  <1>3. NotedDrawn
    BY DEF NotedDrawn, Init, SecondInit
  <1> QED
    BY <1>2, <1>3 DEF RoadInv

(* At every moment, also between two features of one handler, the way of   *)
(* every nearest point has been given to the layer of its own kind.        *)
THEOREM PointsHaveRoads == Spec => []EveryPointHasItsRoad
  <1>1. TypeInv /\ RoadInv /\ [Next]_vars => RoadInv'
    BY RoadStep
  <1>2. TypeInv /\ RoadInv => EveryPointHasItsRoad
    <2> SUFFICES ASSUME TypeInv, RoadInv PROVE EveryPointHasItsRoad
      OBVIOUS
    <2>1. \A l \in {"nearest_points", "nearest_roads", "nearest_areas"} : Elements(Fed[l]) = rows(l)
      BY FedFacts, LayerFacts DEF TypeInv, LayerNames
    <2> QED
      BY <2>1 DEF RoadInv, PointsDrawn, Drawn, EveryPointHasItsRoad
  <1> QED
    BY <1>1, <1>2, RoadInit, TypeInvariant, PTL DEF Spec

-----------------------------------------------------------------------------
(* A point and its line may be separated by the end of the process, but    *)
(* what is delivered and what is still to write are balanced together; and *)
(* so are the connected interpolated nodes and their lines.                *)
FedRows == UNION {Elements(Fed[l]) : l \in Layer}
CallRows == {c.row : c \in Elements(calls)}
AllRows == FedRows \union CallRows
PointRows(R, w) == {r \in R : r.way_id = w}
LineRows(R, w) == {r \in R : r.end = <<"way", w>>}
IpRows(R) == {r \in R : r.type = "interpolated"}
FlaggedRows(R) == {r \in R : r.type = "interpolated" /\ r.road_id}

BalancedIn(f, s, R, E) ==
    /\ \A w : Count(f["nearest_points"], PointRows(R, w)) + Count(s, PointsTo(E, w)) =
             Count(f["connection_line"], LineRows(R, w)) + Count(s, LinesTo(E, w))
    /\ Count(f["nodes_with_addresses"], FlaggedRows(R)) + Count(s, Flagged(E)) =
       Count(f["connection_line"], IpRows(R)) + Count(s, IpLines(E))
BalanceInv == BalancedIn(Fed, calls, AllRows, Elements(calls))

LEMMA BalancedWithin ==
  ASSUME NEW f, NEW s, NEW R, NEW E, BalancedIn(f, s, R, E), Elements(s) \subseteq E,
         \A l \in Layer : Elements(f[l]) \subseteq R,
         NEW Q, NEW F, Elements(s) \subseteq F, \A l \in Layer : Elements(f[l]) \subseteq Q
  PROVE  BalancedIn(f, s, Q, F)
  <1>1. \A i \in DOMAIN s : s[i] \in E /\ s[i] \in F
    BY DEF Elements
  <1>2. ASSUME NEW l \in {"nearest_points", "connection_line", "nodes_with_addresses"}
        PROVE  \A i \in DOMAIN f[l] : f[l][i] \in R /\ f[l][i] \in Q
    BY LayerFacts DEF Elements, LayerNames
  <1>3. ASSUME NEW w PROVE /\ Count(s, PointsTo(E, w)) = Count(s, PointsTo(F, w))
                           /\ Count(s, LinesTo(E, w)) = Count(s, LinesTo(F, w))
    <2>1. Count(s, PointsTo(E, w)) = Count(s, PointsTo(F, w))
      BY <1>1, CountSame DEF PointsTo
    <2>2. Count(s, LinesTo(E, w)) = Count(s, LinesTo(F, w))
      BY <1>1, CountSame DEF LinesTo
    <2> QED
      BY <2>1, <2>2
  <1>4. Count(s, Flagged(E)) = Count(s, Flagged(F))
    BY <1>1, CountSame DEF Flagged
  <1>5. Count(s, IpLines(E)) = Count(s, IpLines(F))
    BY <1>1, CountSame DEF IpLines
  <1>6. ASSUME NEW w PROVE Count(f["nearest_points"], PointRows(R, w)) =
                           Count(f["nearest_points"], PointRows(Q, w))
    BY <1>2, CountSame DEF PointRows
  <1>7. ASSUME NEW w PROVE Count(f["connection_line"], LineRows(R, w)) =
                           Count(f["connection_line"], LineRows(Q, w))
    BY <1>2, CountSame DEF LineRows
  <1>8. Count(f["connection_line"], IpRows(R)) = Count(f["connection_line"], IpRows(Q))
    BY <1>2, CountSame DEF IpRows
  <1>9. Count(f["nodes_with_addresses"], FlaggedRows(R)) =
        Count(f["nodes_with_addresses"], FlaggedRows(Q))
    BY <1>2, CountSame DEF FlaggedRows
  <1>10. \A w : Count(f["nearest_points"], PointRows(Q, w)) + Count(s, PointsTo(F, w)) =
               Count(f["connection_line"], LineRows(Q, w)) + Count(s, LinesTo(F, w))
    BY <1>3, <1>6, <1>7 DEF BalancedIn
  <1> QED
    BY <1>4, <1>5, <1>8, <1>9, <1>10 DEF BalancedIn

LEMMA BalanceDeliver ==
  ASSUME TypeInv, BalanceInv, Deliver
  PROVE  BalanceInv'
  <1> DEFINE R == AllRows
             E == Elements(calls)
  <1>1. /\ \A c \in Elements(calls) : c \in E /\ c.row \in R
        /\ \A l \in Layer : Elements(Fed[l]) \subseteq R
    <2>1. ASSUME NEW c \in Elements(calls) PROVE c.row \in R
      <3>1. c.row \in CallRows
        BY DEF CallRows
      <3> QED
        BY <3>1 DEF AllRows
    <2>2. ASSUME NEW l \in Layer PROVE Elements(Fed[l]) \subseteq R
      BY DEF AllRows, FedRows
    <2> QED
      BY <2>1, <2>2
  <1>2. \A l \in {"nearest_points", "connection_line", "nodes_with_addresses"} :
           l \in Layer \ {"nearest_roads", "nearest_areas"}
    BY LayerFacts DEF LayerNames
  <1>3. BalancedIn(Fed, calls, R, E)
    BY DEF BalanceInv
  <1>4. Elements(calls') \subseteq E /\ \A l \in Layer : Elements(Fed'[l]) \subseteq R
    <2>1. /\ Elements(calls') \subseteq E /\ Head(calls) \in E
          /\ \A l \in Layer : Fed'[l] = Fed[l] \/ Elements(Fed'[l]) = Elements(Fed[l]) \union {Head(calls).row}
      BY DeliverFacts
    <2> QED
      BY <1>1, <2>1
  <1> HIDE DEF R, E
  <1>5. ASSUME NEW w
        PROVE  Count(Fed'["nearest_points"], PointRows(R, w)) + Count(calls', PointsTo(E, w)) =
               Count(Fed'["connection_line"], LineRows(R, w)) + Count(calls', LinesTo(E, w))
    <2>1. \A c \in Elements(calls) :
             c \in PointsTo(E, w) <=> c.layer = "nearest_points" /\ c.row \in PointRows(R, w)
      BY <1>1 DEF PointsTo, PointRows
    <2>2. \A c \in Elements(calls) :
             c \in LinesTo(E, w) <=> c.layer = "connection_line" /\ c.row \in LineRows(R, w)
      BY <1>1 DEF LinesTo, LineRows
    <2>3. Count(Fed'["nearest_points"], PointRows(R, w)) + Count(calls', PointsTo(E, w)) =
          Count(Fed["nearest_points"], PointRows(R, w)) + Count(calls, PointsTo(E, w))
      <3>1. "nearest_points" \in Layer \ {"nearest_roads", "nearest_areas"}
        BY <1>2
      <3> QED
        BY <2>1, <3>1, DeliverCounts
    <2>4. Count(Fed'["connection_line"], LineRows(R, w)) + Count(calls', LinesTo(E, w)) =
          Count(Fed["connection_line"], LineRows(R, w)) + Count(calls, LinesTo(E, w))
      <3>1. "connection_line" \in Layer \ {"nearest_roads", "nearest_areas"}
        BY <1>2
      <3> QED
        BY <2>2, <3>1, DeliverCounts
    <2> QED
      BY <1>3, <2>3, <2>4 DEF BalancedIn
  <1>6. Count(Fed'["nodes_with_addresses"], FlaggedRows(R)) + Count(calls', Flagged(E)) =
        Count(Fed'["connection_line"], IpRows(R)) + Count(calls', IpLines(E))
    <2>1. \A c \in Elements(calls) :
             c \in Flagged(E) <=> c.layer = "nodes_with_addresses" /\ c.row \in FlaggedRows(R)
      BY <1>1 DEF Flagged, FlaggedRows
    <2>2. \A c \in Elements(calls) :
             c \in IpLines(E) <=> c.layer = "connection_line" /\ c.row \in IpRows(R)
      BY <1>1 DEF IpLines, IpRows
    <2>3. Count(Fed'["nodes_with_addresses"], FlaggedRows(R)) + Count(calls', Flagged(E)) =
          Count(Fed["nodes_with_addresses"], FlaggedRows(R)) + Count(calls, Flagged(E))
      <3>1. "nodes_with_addresses" \in Layer \ {"nearest_roads", "nearest_areas"}
        BY <1>2
      <3> QED
        BY <2>1, <3>1, DeliverCounts
    <2>4. Count(Fed'["connection_line"], IpRows(R)) + Count(calls', IpLines(E)) =
          Count(Fed["connection_line"], IpRows(R)) + Count(calls, IpLines(E))
      <3>1. "connection_line" \in Layer \ {"nearest_roads", "nearest_areas"}
        BY <1>2
      <3> QED
        BY <2>2, <3>1, DeliverCounts
    <2> QED
      BY <1>3, <2>3, <2>4 DEF BalancedIn
  <1>7. BalancedIn(Fed', calls', R, E)
    BY <1>5, <1>6 DEF BalancedIn
  <1>8. Elements(calls') \subseteq Elements(calls') /\ \A l \in Layer : Elements(Fed'[l]) \subseteq AllRows'
    BY DEF AllRows, FedRows
  <1>9. BalancedIn(Fed', calls', AllRows', Elements(calls'))
    BY <1>4, <1>7, <1>8, BalancedWithin
  <1> QED
    BY <1>9 DEF BalanceInv

LEMMA BalanceStep ==
  ASSUME TypeInv, BalanceInv, [Next]_vars
  PROVE  BalanceInv'
  <1>0. Deliver \/ (Fed' = Fed /\ (Read \/ Quiet))
    BY StepKinds
  <1>1. CASE Deliver
    BY <1>1, BalanceDeliver
  <1>2. CASE Fed' = Fed /\ (Read \/ Quiet)
    <2>1. calls' = calls \/ (calls = <<>> /\ IsTidy(calls'))
      BY <1>2, TidyRead
    <2>2. CASE calls' = calls
      <3>1. AllRows' = AllRows
        BY <1>2, <2>2 DEF AllRows, FedRows, CallRows
      <3> QED
        BY <1>2, <2>2, <3>1 DEF BalanceInv
    <2>3. CASE calls = <<>> /\ IsTidy(calls')
      <3> DEFINE R == AllRows
                 E == Elements(calls)
                 F == Elements(calls')
      <3>1. /\ BalancedIn(Fed, calls, R, E)
            /\ \A C : Count(calls, C) = 0
        BY <2>3, CountEmpty DEF BalanceInv
      <3>2. /\ \A w : Count(calls', PointsTo(F, w)) = Count(calls', LinesTo(F, w))
            /\ Count(calls', Flagged(F)) = Count(calls', IpLines(F))
            /\ calls' \in Seq(F)
        BY <2>3, SequenceFacts DEF IsTidy, Tidy
      <3>3. \A l \in Layer : /\ Elements(Fed[l]) \subseteq R /\ Elements(Fed'[l]) \subseteq AllRows'
                             /\ Fed[l] \in Seq(Elements(Fed[l]))
        BY FedFacts, SequenceFacts DEF AllRows, FedRows, TypeInv
      <3>4. \A l \in Layer : \A Q : Count(Fed[l], Q) \in Nat
        BY <3>3, CountType
      <3> HIDE DEF R, E, F
      <3>5. "nearest_points" \in Layer /\ "connection_line" \in Layer /\ "nodes_with_addresses" \in Layer
        BY LayerFacts DEF LayerNames
      <3>6. /\ \A w : Count(Fed["nearest_points"], PointRows(R, w)) = Count(Fed["connection_line"], LineRows(R, w))
            /\ Count(Fed["nodes_with_addresses"], FlaggedRows(R)) = Count(Fed["connection_line"], IpRows(R))
        BY <3>1, <3>4, <3>5 DEF BalancedIn
      <3>7. BalancedIn(Fed', calls', R, F)
        <4>1. \A w : Count(Fed'["nearest_points"], PointRows(R, w)) + Count(calls', PointsTo(F, w)) =
                     Count(Fed'["connection_line"], LineRows(R, w)) + Count(calls', LinesTo(F, w))
          BY <1>2, <3>2, <3>6
        <4> QED
          BY <1>2, <3>2, <3>6, <4>1 DEF BalancedIn
      <3>8. BalancedIn(Fed', calls', AllRows', F)
        <4>1. Elements(calls') \subseteq F
          BY DEF F
        <4>2. \A l \in Layer : Elements(Fed'[l]) \subseteq R /\ Elements(Fed'[l]) \subseteq AllRows'
          BY <1>2, <3>3
        <4> QED
          BY <3>7, <4>1, <4>2, BalancedWithin
      <3> QED
        BY <3>8 DEF BalanceInv, F
    <2> QED
      BY <2>1, <2>2, <2>3
  <1> QED
    BY <1>0, <1>1, <1>2

LEMMA BalanceInit == Init => BalanceInv
  <1> SUFFICES ASSUME Init PROVE BalanceInv
    OBVIOUS
  <1>1. /\ Fed["nearest_points"] = <<>> /\ Fed["connection_line"] = <<>>
        /\ Fed["nodes_with_addresses"] = <<>>
    BY FedInit, LayerFacts DEF LayerNames
  <1>2. calls = <<>>
    BY DEF Init, SecondInit
  <1>3. \A R : Count(<<>>, R) = 0
    BY CountEmpty
  <1> QED
    BY <1>1, <1>2, <1>3 DEF BalanceInv, BalancedIn

LEMMA BalanceInvariant == Spec => []BalanceInv
  <1>1. TypeInv /\ BalanceInv /\ [Next]_vars => BalanceInv'
    BY BalanceStep
  <1> QED
    BY <1>1, BalanceInit, TypeInvariant, PTL DEF Spec

(* What BalanceInv says between two handlers, of the layers alone          *)
LEMMA Settled ==
  ASSUME TypeInv, BalanceInv, Between_handlers
  PROVE  /\ \A w : Count(fed("nearest_points"), PointRows(AllRows, w)) =
                   Count(fed("connection_line"), LineRows(AllRows, w))
         /\ Count(fed("nodes_with_addresses"), FlaggedRows(AllRows)) =
            Count(fed("connection_line"), IpRows(AllRows))
         /\ \A l \in {"nearest_points", "connection_line", "nodes_with_addresses"} :
               \A i \in DOMAIN fed(l) : fed(l)[i] \in AllRows
  <1>1. \A C : Count(calls, C) = 0
    BY CountEmpty DEF Between_handlers
  <1>2. ASSUME NEW l \in {"nearest_points", "connection_line", "nodes_with_addresses"}
        PROVE  /\ Fed[l] = fed(l) /\ \A i \in DOMAIN fed(l) : fed(l)[i] \in AllRows
               /\ \A R : Count(fed(l), R) \in Nat
    <2>1. l \in Layer /\ Fed[l] = fed(l) /\ IsSequence(fed(l))
      BY LayerFacts, FedFacts DEF LayerNames, TypeInv
    <2>2. Elements(fed(l)) \subseteq AllRows
      BY <2>1 DEF AllRows, FedRows
    <2> QED
      BY <2>1, <2>2, SequenceFacts, CountType DEF Elements
  <1> QED
    BY <1>1, <1>2 DEF BalanceInv, BalancedIn

(* Between the objects of the file, a way has as many points as there are  *)
(* lines to it, whichever of the two layers was committed last.            *)
THEOREM AsManyPointsAsLines == Spec => []PointsMatchLines
  <1>1. TypeInv /\ BalanceInv => PointsMatchLines
    <2> SUFFICES ASSUME TypeInv, BalanceInv, Between_handlers, NEW w
                 PROVE  Cardinality({i \in DOMAIN fed("nearest_points") :
                                        fed("nearest_points")[i].way_id = w}) =
                        Cardinality({i \in DOMAIN fed("connection_line") :
                                        fed("connection_line")[i].end = <<"way", w>>})
      BY DEF PointsMatchLines
    <2> DEFINE s == fed("nearest_points")
               t == fed("connection_line")
    <2>1. /\ Count(s, PointRows(AllRows, w)) = Count(t, LineRows(AllRows, w))
          /\ \A i \in DOMAIN s : s[i] \in AllRows
          /\ \A i \in DOMAIN t : t[i] \in AllRows
      BY Settled
    <2> HIDE DEF s, t
    <2>2. {i \in DOMAIN s : s[i] \in PointRows(AllRows, w)} = {i \in DOMAIN s : s[i].way_id = w}
      BY <2>1 DEF PointRows
    <2>3. {i \in DOMAIN t : t[i] \in LineRows(AllRows, w)} = {i \in DOMAIN t : t[i].end = <<"way", w>>}
      BY <2>1 DEF LineRows
    <2> QED
      BY <2>1, <2>2, <2>3 DEF Count, s, t
  <1> QED
    BY <1>1, BalanceInvariant, TypeInvariant, PTL

-----------------------------------------------------------------------------
(* The flag of an address row and the lines from its object: of what is    *)
(* delivered and of what is still to write. They come from the same run of *)
(* a handler, and no object of the file has another's type and id.         *)
Handled(type, id) ==
    /\ pass = "second"
    /\ \E k \in 1..Len(file) : k < pos /\ file[k].type = type /\ file[k].id = id
OwnLine(line, type, id) == line.type = type /\ line.id = id /\ ToWay(line)

FlagRight(R, L) == \A row \in R : row.type # "interpolated" =>
    (row.road_id <=> \E line \in L : OwnLine(line, row.type, row.id))
RowsHandled(R) == \A row \in R : row.type # "interpolated" => Handled(row.type, row.id)
LinesHandled(L) == \A line \in L :
    line.type # "interpolated" /\ ToWay(line) => Handled(line.type, line.id)
FlagInv == /\ FlagRight(AllOf("nodes_with_addresses"), AllOf("connection_line"))
           /\ RowsHandled(AllOf("nodes_with_addresses"))
           /\ LinesHandled(AllOf("connection_line"))

LEMMA StreetFlag ==
  ASSUME NEW r, NEW type, NEW id, IsStreet(r, type, id)
  PROVE  /\ r.road_id \in BOOLEAN
         /\ \A c \in Elements(r.calls) : r.road_id
         /\ r.road_id => \E c \in Elements(r.calls) :
                            c.layer = "connection_line" /\ OwnLine(c.row, type, id)
  <1>1. r.road_id \in BOOLEAN /\ \A c \in Elements(r.calls) : r.road_id
    BY StreetFacts
  <1>2. ASSUME r.road_id
        PROVE  \E c \in Elements(r.calls) : c.layer = "connection_line" /\ OwnLine(c.row, type, id)
    <2>1. r # NoStreet
      BY <1>2 DEF NoStreet
    <2>2. PICK name \in Names : \E e \in Elements(lookups(name)) :
             r = [calls |-> OnWay(type, id, e, name), road_id |-> TRUE]
      BY <2>1 DEF IsStreet
    <2>3. PICK e \in Elements(lookups(name)) :
             r = [calls |-> OnWay(type, id, e, name), road_id |-> TRUE]
      BY <2>2
    <2> DEFINE c == write_line(type, id, <<"way", e.entry.way_id>>)
    <2>4. c.layer = "connection_line" /\ OwnLine(c.row, type, id)
      BY DEF write_line, call, OwnLine, ToWay
    <2>5. c \in Elements(r.calls)
      <3> DEFINE s == OnWay(type, id, e, name)
      <3>1. r.calls = s
        BY <2>3
      <3>2. DOMAIN s = 1..3
        BY OnWayFacts, SequenceFacts
      <3>3. s[1] = c
        BY DEF OnWay
      <3> HIDE DEF s
      <3> QED
        BY <3>1, <3>2, <3>3 DEF Elements
    <2> QED
      BY <2>4, <2>5
  <1> QED
    BY <1>1, <1>2

(* The calls of one object join those of the objects before it.            *)
FromOne(N, M, type, id) ==
    /\ \A row \in N : row.type # "interpolated" =>
          /\ row.type = type /\ row.id = id
          /\ row.road_id <=> \E line \in M : OwnLine(line, type, id)
    /\ \A line \in M : line.type # "interpolated" /\ ToWay(line) => line.type = type /\ line.id = id

LEMMA FlagJoined ==
  ASSUME NEW R, NEW L, FlagRight(R, L), RowsHandled(R), LinesHandled(L),
         NEW type, type # "interpolated", NEW id, ~Handled(type, id),
         NEW N, NEW M, FromOne(N, M, type, id)
  PROVE  FlagRight(R \union N, L \union M)
  <1> SUFFICES ASSUME NEW row \in R \union N, row.type # "interpolated"
               PROVE  row.road_id <=> \E line \in L \union M : OwnLine(line, row.type, row.id)
    BY DEF FlagRight
  <1>1. CASE row \in R
    <2>1. ~(\E line \in M : OwnLine(line, row.type, row.id))
      BY <1>1 DEF RowsHandled, FromOne, OwnLine
    <2> QED
      BY <1>1, <2>1 DEF FlagRight
  <1>2. CASE row \in N
    <2>1. row.type = type /\ row.id = id
      BY <1>2 DEF FromOne
    <2>2. ~(\E line \in L : OwnLine(line, type, id))
      BY DEF LinesHandled, OwnLine
    <2> QED
      BY <1>2, <2>1, <2>2 DEF FromOne
  <1> QED
    BY <1>1, <1>2

NewRows(s, l) == {c.row : c \in {c \in Elements(s) : c.layer = l}}

LEMMA NodeFromOne ==
  ASSUME TablesTyped, file \in InputFiles, NEW i \in 1..Len(file)
  PROVE  FromOne(NewRows(NodeCalls(file[i]), "nodes_with_addresses"),
                 NewRows(NodeCalls(file[i]), "connection_line"), "node", file[i].id)
  <1> DEFINE node == file[i]
             s == NodeCalls(node)
             r == StreetOf(node, node.loc, "node")
             N == NewRows(s, "nodes_with_addresses")
             M == NewRows(s, "connection_line")
  <1>1. /\ \A c \in Elements(s) : NodeCall(c, node)
        /\ Elements(r.calls) \subseteq Elements(s)
    BY NodeCallsFacts
  <1>2. /\ r.road_id \in BOOLEAN
        /\ \A c \in Elements(r.calls) : r.road_id
        /\ r.road_id => \E c \in Elements(r.calls) :
                           c.layer = "connection_line" /\ OwnLine(c.row, "node", node.id)
    BY StreetOfShape, StreetFlag
  <1>3. process_node(node).road_id = r.road_id
    BY DEF process_node
  <1> HIDE DEF s, r, node
  <1>4. ASSUME NEW line \in M, ToWay(line)
        PROVE  r.road_id /\ line.type = "node" /\ line.id = node.id
    <2>1. PICK c \in Elements(s) : c.layer = "connection_line" /\ line = c.row
      BY DEF NewRows
    <2>2. CASE StreetCall(c, "node", node.id) /\ c \in Elements(r.calls)
      <3>1. c = call("connection_line", c.row) /\ c.row.type = "node" /\ c.row.id = node.id
        BY <2>1, <2>2 DEF StreetCall, OnWayCall, write_line, call
      <3> QED
        BY <1>2, <2>1, <2>2, <3>1
    <2>3. CASE PlaceCall(c, "node")
      BY <1>4, <2>1, <2>3 DEF PlaceCall, write_line, call, ToWay
    <2>4. CASE c.layer # "connection_line"
      BY <2>1, <2>4
    <2> QED
      <3>1. NodeCall(c, node)
        BY <1>1
      <3> QED
        BY <2>2, <2>3, <2>4, <3>1 DEF NodeCall, call, address, r
  <1>5. r.road_id <=> \E line \in M : OwnLine(line, "node", node.id)
    <2>1. ASSUME r.road_id PROVE \E line \in M : OwnLine(line, "node", node.id)
      BY <1>1, <1>2, <2>1 DEF NewRows
    <2> QED
      BY <1>2, <1>4, <2>1 DEF OwnLine
  <1>6. ASSUME NEW row \in N
        PROVE  row.type = "node" /\ row.id = node.id /\ row.road_id = r.road_id
    <2>1. PICK c \in Elements(s) : c.layer = "nodes_with_addresses" /\ row = c.row
      BY DEF NewRows
    <2>2. NodeCall(c, node)
      BY <1>1
    <2>3. c = address("node", node.id, AltTagList(node), 0, process_node(node))
      BY <2>1, <2>2 DEF NodeCall, StreetCall, OnWayCall, PlaceCall, write_line, call, address
    <2> QED
      BY <1>3, <2>1, <2>3 DEF address, call
  <1> HIDE DEF N, M
  <1>7. FromOne(N, M, "node", node.id)
    BY <1>4, <1>5, <1>6 DEF FromOne
  <1> QED
    BY <1>7 DEF N, M, s, node

LEMMA WayFromOne ==
  ASSUME TypeInv, NEW k \in 1..Len(file), file[k].type = "way", NEW ip \in interpolations(file[k])
  PROVE  FromOne(NewRows(WayCalls(file[k], locations(file[k], index), ip), "nodes_with_addresses"),
                 NewRows(WayCalls(file[k], locations(file[k], index), ip), "connection_line"),
                 "way", file[k].id)
  <1> DEFINE way == file[k]
             line == locations(way, index)
             s == WayCalls(way, line, ip)
             r == StreetOf(way, Centroid(line), "way")
             N == NewRows(s, "nodes_with_addresses")
             M == NewRows(s, "connection_line")
  <1>0. TablesTyped /\ file \in InputFiles
    BY DEF TypeInv, PassTyped
  <1>1. /\ \A c \in Elements(s) : is_way_with_nonzero_length(line) /\ WayCall(c, way, line, ip)
        /\ is_way_with_nonzero_length(line) /\ is_closed(way) /\ centroid_ok(line) =>
              Elements(r.calls) \subseteq Elements(s)
    BY <1>0, WayCallsFacts, CentroidCallsFacts
  <1>2. /\ r.road_id \in BOOLEAN
        /\ \A c \in Elements(r.calls) : r.road_id
        /\ r.road_id => \E c \in Elements(r.calls) :
                           c.layer = "connection_line" /\ OwnLine(c.row, "way", way.id)
    BY <1>0, StreetOfShape, StreetFlag
  <1>3. process_way(way, Centroid(line)).road_id = r.road_id
    BY DEF process_way
  <1> HIDE DEF s, r, way, line
  <1>4. ASSUME NEW l \in M, ToWay(l), l.type # "interpolated"
        PROVE  r.road_id /\ l.type = "way" /\ l.id = way.id
    <2>1. PICK c \in Elements(s) : c.layer = "connection_line" /\ l = c.row
      BY DEF NewRows
    <2>2. CASE StreetCall(c, "way", way.id) /\ c \in Elements(r.calls)
      <3>1. c = call("connection_line", c.row) /\ c.row.type = "way" /\ c.row.id = way.id
        BY <2>1, <2>2 DEF StreetCall, OnWayCall, write_line, call
      <3> QED
        BY <1>2, <2>1, <2>2, <3>1
    <2>3. CASE PlaceCall(c, "way")
      BY <1>4, <2>1, <2>3 DEF PlaceCall, write_line, call, ToWay
    <2>4. CASE StreetCall(c, "interpolated", 0)
      BY <1>4, <2>1, <2>4 DEF StreetCall, OnWayCall, write_line, call
    <2>5. CASE c.layer # "connection_line"
      BY <2>1, <2>5
    <2> QED
      <3>1. WayCall(c, way, line, ip)
        BY <1>1
      <3> QED
        BY <2>2, <2>3, <2>4, <2>5, <3>1
        DEF WayCall, call, address, IpRow, address_of_interpolation, r
  <1>5. ASSUME NEW row \in N, row.type # "interpolated"
        PROVE  /\ row.type = "way" /\ row.id = way.id /\ row.road_id = r.road_id
               /\ is_way_with_nonzero_length(line) /\ is_closed(way) /\ centroid_ok(line)
    <2>1. PICK c \in Elements(s) : c.layer = "nodes_with_addresses" /\ row = c.row
      BY DEF NewRows
    <2>2. is_way_with_nonzero_length(line) /\ WayCall(c, way, line, ip)
      BY <1>1
    <2>3. /\ is_closed(way) /\ centroid_ok(line)
          /\ c = address("way", way.id, AltTagList(way), 0, process_way(way, Centroid(line)))
      BY <1>5, <2>1, <2>2 DEF WayCall, StreetCall, OnWayCall, PlaceCall, write_line, call, address,
                              IpRow, address_of_interpolation
    <2> QED
      BY <1>3, <2>1, <2>2, <2>3 DEF address, call
  <1>6. ASSUME NEW row \in N, row.type # "interpolated"
        PROVE  row.road_id <=> \E l \in M : OwnLine(l, "way", way.id)
    <2>1. ASSUME r.road_id PROVE \E l \in M : OwnLine(l, "way", way.id)
      <3>1. Elements(r.calls) \subseteq Elements(s)
        BY <1>1, <1>5, <1>6
      <3> QED
        BY <1>2, <2>1, <3>1 DEF NewRows
    <2>2. row.road_id = r.road_id
      BY <1>5, <1>6
    <2>3. ASSUME NEW l \in M, OwnLine(l, "way", way.id) PROVE r.road_id
      BY <1>4, <2>3 DEF OwnLine
    <2> QED
      BY <1>2, <2>1, <2>2, <2>3
  <1> HIDE DEF N, M
  <1>7. FromOne(N, M, "way", way.id)
    <2>1. \A row \in N : row.type # "interpolated" =>
             /\ row.type = "way" /\ row.id = way.id
             /\ row.road_id <=> \E l \in M : OwnLine(l, "way", way.id)
      BY <1>5, <1>6
    <2> QED
      BY <1>4, <2>1 DEF FromOne
  <1> QED
    BY <1>7 DEF N, M, s, way, line

LEMMA FlagStep ==
  ASSUME TypeInv, FlagInv, [Next]_vars
  PROVE  FlagInv'
  <1> DEFINE R == AllOf("nodes_with_addresses")
             L == AllOf("connection_line")
  <1>0. /\ Deliver \/ (Fed' = Fed /\ (Read \/ Quiet))
        /\ file \in InputFiles /\ TablesTyped /\ pos \in 1..(Len(file) + 1) /\ Len(file) \in Nat
        /\ FlagRight(R, L) /\ RowsHandled(R) /\ LinesHandled(L)
    BY StepKinds, FileFacts DEF TypeInv, PassTyped, FlagInv
  <1>1. ASSUME R' = R, L' = L, file' = file,
               \/ pass' = pass /\ pos' = pos
               \/ pass = "first"
        PROVE  FlagInv'
    <2>1. \A type, id : Handled(type, id) =>
             pass' = "second" /\ \E k \in 1..Len(file') : k < pos' /\ file'[k].type = type /\ file'[k].id = id
      BY <1>1 DEF Handled
    <2> HIDE DEF R, L
    <2>2. RowsHandled(R)' /\ LinesHandled(L)'
      BY <1>0, <1>1, <2>1 DEF RowsHandled, LinesHandled, Handled
    <2> QED
      BY <1>0, <1>1, <2>2 DEF FlagInv, R, L
  <1>2. CASE Deliver
    <2>1. R' = R /\ L' = L
      BY <1>2, DeliverKeeps, LayerFacts DEF LayerNames
    <2> QED
      BY <1>1, <1>2, <2>1 DEF Deliver
  <1>3. CASE Fed' = Fed /\ (apply_first_node \/ apply_first_way \/ next_pass \/ Quiet)
    <2>1. calls' = calls /\ file' = file /\ (pass = "first" \/ (pass' = pass /\ pos' = pos))
      BY <1>3 DEF apply_first_node, apply_first_way, next_pass, Quiet, second_vars
    <2>2. R' = R /\ L' = L
      BY <1>3, <2>1 DEF AllOf
    <2> QED
      BY <1>1, <2>1, <2>2
  <1>4. CASE Fed' = Fed /\ (apply_second_node \/ apply_second_way)
    <2> DEFINE o == file[pos]
               N == NewRows(calls', "nodes_with_addresses")
               M == NewRows(calls', "connection_line")
    <2>1. /\ calls = <<>> /\ pass = "second" /\ pass' = pass /\ file' = file /\ pos' = pos + 1
          /\ pos \in 1..Len(file) /\ o.type \in {"node", "way"}
          /\ FromOne(N, M, o.type, o.id)
      <3>1. CASE apply_second_node
        <4>1. /\ calls = <<>> /\ pass = "second" /\ pass' = pass /\ file' = file /\ pos' = pos + 1
              /\ pos \in 1..Len(file) /\ o.type = "node" /\ calls' = NodeCalls(o)
          BY <1>0, <3>1 DEF apply_second_node, second_node, Next_object, Second_object,
                            Between_handlers
        <4> QED
          BY <1>0, <4>1, NodeFromOne
      <3>2. CASE apply_second_way
        <4>1. /\ calls = <<>> /\ pass = "second" /\ pass' = pass /\ file' = file /\ pos' = pos + 1
              /\ pos \in 1..Len(file) /\ o.type = "way"
              /\ \E ip \in interpolations(o) : calls' = WayCalls(o, locations(o, index), ip)
          BY <1>0, <3>2 DEF apply_second_way, second_way, Next_object, Second_object,
                            Between_handlers
        <4> QED
          BY <4>1, WayFromOne
      <3> QED
        BY <1>4, <3>1, <3>2
    <2>2. ~Handled(o.type, o.id)
      BY <1>0, <2>1, FileFacts DEF Handled
    <2>3. R' = R \union N /\ L' = L \union M
      <3>1. Elements(calls) = {}
        BY <2>1, None
      <3> QED
        BY <1>4, <3>1 DEF AllOf, NewRows
    <2> DEFINE Next_(type, id) == /\ pass' = "second"
                                  /\ \E k \in 1..Len(file') : k < pos' /\ file'[k].type = type /\ file'[k].id = id
    <2>4. \A type, id : Handled(type, id) \/ (type = o.type /\ id = o.id) => Next_(type, id)
      BY <1>0, <2>1 DEF Handled
    <2> HIDE DEF R, L, o, N, M, Next_
    <2>5. FlagRight(R \union N, L \union M)
      BY <1>0, <2>1, <2>2, FlagJoined
    <2>6. \A row \in R \union N : row.type # "interpolated" => Next_(row.type, row.id)
      BY <1>0, <2>1, <2>4 DEF RowsHandled, FromOne
    <2>7. \A line \in L \union M : line.type # "interpolated" /\ ToWay(line) => Next_(line.type, line.id)
      BY <1>0, <2>1, <2>4 DEF LinesHandled, FromOne
    <2>8. RowsHandled(R)' /\ LinesHandled(L)'
      BY <2>3, <2>6, <2>7 DEF RowsHandled, LinesHandled, Handled, Next_
    <2> QED
      BY <2>3, <2>5, <2>8 DEF FlagInv, R, L
  <1> QED
    BY <1>0, <1>2, <1>3, <1>4 DEF Read

LEMMA FlagInit == Init => FlagInv
  <1> SUFFICES ASSUME Init PROVE FlagInv
    OBVIOUS
  <1>1. AllOf("nodes_with_addresses") = {} /\ AllOf("connection_line") = {}
    BY FedInit, LayerFacts, None DEF LayerNames, AllOf
  <1> QED
    BY <1>1 DEF FlagInv, FlagRight, RowsHandled, LinesHandled

(* An address row says that its object is connected to a street if and     *)
(* only if a line from the object to a way is written; and there are as    *)
(* many connected interpolated addresses as lines of interpolations.       *)
THEOREM FlagsAgree == Spec => []RoadFlagAgrees
  <1>1. TypeInv /\ FlagInv /\ [Next]_vars => FlagInv'
    BY FlagStep
  <1>2. TypeInv /\ BalanceInv /\ FlagInv => RoadFlagAgrees
    <2> SUFFICES ASSUME TypeInv, BalanceInv, FlagInv, Between_handlers PROVE RoadFlagAgrees
      BY DEF RoadFlagAgrees
    <2> DEFINE s == fed("nodes_with_addresses")
               t == fed("connection_line")
    <2>1. /\ Count(s, FlaggedRows(AllRows)) = Count(t, IpRows(AllRows))
          /\ \A i \in DOMAIN s : s[i] \in AllRows
          /\ \A i \in DOMAIN t : t[i] \in AllRows
      BY Settled
    <2>2. Cardinality({i \in DOMAIN s : s[i].type = "interpolated" /\ s[i].road_id}) =
          Cardinality({i \in DOMAIN t : t[i].type = "interpolated"})
      <3> HIDE DEF s, t
      <3>1. {i \in DOMAIN s : s[i] \in FlaggedRows(AllRows)} =
            {i \in DOMAIN s : s[i].type = "interpolated" /\ s[i].road_id}
        BY <2>1 DEF FlaggedRows
      <3>2. {i \in DOMAIN t : t[i] \in IpRows(AllRows)} = {i \in DOMAIN t : t[i].type = "interpolated"}
        BY <2>1 DEF IpRows
      <3> QED
        BY <2>1, <3>1, <3>2 DEF Count
    <2>3. AllOf("nodes_with_addresses") = rows("nodes_with_addresses")
          /\ AllOf("connection_line") = rows("connection_line")
      BY None, FedFacts, LayerFacts DEF TypeInv, LayerNames, AllOf, Between_handlers
    <2>4. \A row \in Located : row.road_id <=> \E line \in LinesFrom(row.type, row.id) : ToWay(line)
      BY <2>3 DEF FlagInv, FlagRight, OwnLine, LinesFrom, Located
    <2> QED
      BY <2>2, <2>4 DEF RoadFlagAgrees
  <1> QED
    BY <1>1, <1>2, FlagInit, BalanceInvariant, TypeInvariant, PTL DEF Spec
=============================================================================
