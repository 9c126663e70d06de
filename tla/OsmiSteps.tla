----------------------------- MODULE OsmiSteps -----------------------------
(***************************************************************************)
(* What the proofs about the program start from: its variables keep their  *)
(* types, and its steps are of few kinds.                                  *)
(***************************************************************************)
EXTENDS OsmiAddresses, SequenceLemmas

(* The layers by name, instead of by their place in LayerOrder             *)
LayerNames == {"nodes_with_addresses", "nearest_points", "nearest_roads", "nearest_areas",
               "connection_line", "entrances", "interpolation", "buildings",
               "addrx_on_nonclosed_way", "ways_with_addresses", "ways_with_postal_code"}

LEMMA LayerFacts ==
  /\ Len(LayerOrder) = 11
  /\ Layer = LayerNames
  /\ \A i \in 1..11 : LayerOrder[i] \in Layer
  <1>1. Len(LayerOrder) = 11
    BY DEF LayerOrder
  <1>2. \A i \in 1..11 : LayerOrder[i] \in LayerNames
    BY DEF LayerOrder, LayerNames
  <1>3. \A l \in LayerNames : \E i \in 1..11 : LayerOrder[i] = l
    BY DEF LayerOrder, LayerNames
  <1> QED
    BY <1>1, <1>2, <1>3 DEF Layer

-----------------------------------------------------------------------------
(* Sequences of anything                                                   *)
Elements(s) == {s[i] : i \in DOMAIN s}

LEMMA Widened ==
  ASSUME NEW s, IsSequence(s), NEW S, Elements(s) \subseteq S
  PROVE  s \in Seq(S)
  BY DEF IsSequence, Elements

LEMMA Narrowed ==
  ASSUME NEW S, NEW s \in Seq(S)
  PROVE  /\ IsSequence(s)
         /\ Elements(s) \subseteq S
         /\ DOMAIN s = 1..Len(s) /\ Len(s) \in Nat
  <1>1. DOMAIN s = 1..Len(s) /\ Len(s) \in Nat /\ s \in [1..Len(s) -> S]
    BY LenProperties
  <1>2. Elements(s) \subseteq S
    BY <1>1 DEF Elements
  <1>3. s \in [1..Len(s) -> Elements(s)]
    BY <1>1 DEF Elements
  <1>4. s \in Seq(Elements(s))
    BY <1>1, <1>3, IsASeq
  <1> QED
    BY <1>1, <1>2, <1>4 DEF IsSequence, Elements

LEMMA SequenceFacts ==
  ASSUME NEW s, IsSequence(s)
  PROVE  /\ s \in Seq(Elements(s))
         /\ DOMAIN s = 1..Len(s) /\ Len(s) \in Nat
         /\ \A i \in 1..Len(s) : s[i] \in Elements(s)
  <1>1. s \in Seq(Elements(s))
    BY Widened
  <1>2. DOMAIN s = 1..Len(s) /\ Len(s) \in Nat
    BY <1>1, Narrowed
  <1> QED
    BY <1>1, <1>2 DEF Elements

LEMMA Listed ==
  ASSUME NEW n \in Nat, NEW f, f = [i \in 1..n |-> f[i]]
  PROVE  IsSequence(f) /\ Len(f) = n
  <1>1. f \in [1..n -> {f[i] : i \in 1..n}]
    OBVIOUS
  <1>2. f \in Seq({f[i] : i \in 1..n})
    BY <1>1, IsASeq
  <1>3. DOMAIN f = 1..n
    OBVIOUS
  <1> QED
    BY <1>2, <1>3, LenProperties, Narrowed

LEMMA Joined ==
  ASSUME NEW s, IsSequence(s), NEW t, IsSequence(t)
  PROVE  /\ IsSequence(s \o t)
         /\ Len(s \o t) = Len(s) + Len(t)
         /\ \A i \in 1..Len(s) : (s \o t)[i] = s[i]
         /\ \A i \in 1..Len(t) : (s \o t)[Len(s) + i] = t[i]
         /\ Elements(s \o t) = Elements(s) \union Elements(t)
  <1> DEFINE S == Elements(s) \union Elements(t)
             u == s \o t
  <1>1. s \in Seq(S) /\ t \in Seq(S)
    BY Widened
  <1> HIDE DEF S
  <1>2. /\ u \in Seq(S) /\ Len(u) = Len(s) + Len(t)
        /\ \A i \in 1..(Len(s) + Len(t)) : u[i] = IF i <= Len(s) THEN s[i] ELSE t[i - Len(s)]
    BY <1>1, ConcatProperties
  <1>3. /\ Len(s) \in Nat /\ Len(t) \in Nat /\ DOMAIN s = 1..Len(s) /\ DOMAIN t = 1..Len(t)
        /\ DOMAIN u = 1..(Len(s) + Len(t)) /\ IsSequence(u) /\ Elements(u) \subseteq S
    BY <1>1, <1>2, Narrowed
  <1> HIDE DEF u
  <1>4. \A i \in 1..Len(s) : i \in 1..(Len(s) + Len(t)) /\ u[i] = s[i]
    BY <1>2, <1>3
  <1>5. \A i \in 1..Len(t) : Len(s) + i \in 1..(Len(s) + Len(t)) /\ u[Len(s) + i] = t[i]
    <2> TAKE i \in 1..Len(t)
    <2>1. /\ Len(s) + i \in 1..(Len(s) + Len(t)) /\ ~(Len(s) + i <= Len(s))
          /\ (Len(s) + i) - Len(s) = i
      BY <1>3
    <2> QED
      BY <2>1, <1>2
  <1>6. Elements(s) \union Elements(t) \subseteq Elements(u)
    BY <1>3, <1>4, <1>5 DEF Elements
  <1> QED
    BY <1>2, <1>3, <1>4, <1>5, <1>6 DEF S, u

LEMMA Single ==
  ASSUME NEW e
  PROVE  IsSequence(<<e>>) /\ Elements(<<e>>) = {e} /\ Len(<<e>>) = 1 /\ <<e>>[1] = e
  BY DEF IsSequence, Elements

LEMMA None == IsSequence(<<>>) /\ Elements(<<>>) = {} /\ Len(<<>>) = 0
  <1> DEFINE none == <<>>
  <1>1. none \in Seq({}) /\ Len(none) = 0
    BY EmptySeq
  <1> HIDE DEF none
  <1>2. IsSequence(none) /\ Elements(none) \subseteq {}
    <2> DEFINE S == {}
    <2>1. none \in Seq(S)
      BY <1>1
    <2> HIDE DEF S
    <2>2. IsSequence(none) /\ Elements(none) \subseteq S
      BY <2>1, Narrowed
    <2> QED
      BY <2>2 DEF S
  <1> QED
    BY <1>1, <1>2 DEF none

LEMMA Appended ==
  ASSUME NEW s, IsSequence(s), NEW e
  PROVE  /\ IsSequence(Append(s, e))
         /\ Append(s, e) = s \o <<e>>
         /\ Elements(Append(s, e)) = Elements(s) \union {e}
         /\ Len(Append(s, e)) = Len(s) + 1
  <1> DEFINE S == Elements(s) \union {e}
  <1>1. s \in Seq(S) /\ e \in S
    BY Widened
  <1> HIDE DEF S
  <1>2. Append(s, e) = s \o <<e>>
    BY <1>1, AppendIsConcat
  <1> QED
    BY <1>2, Joined, Single

LEMMA Shifted ==
  ASSUME NEW s, IsSequence(s), s # <<>>
  PROVE  /\ IsSequence(Tail(s))
         /\ Elements(s) = {Head(s)} \union Elements(Tail(s))
         /\ s = <<Head(s)>> \o Tail(s)
         /\ Len(s) = Len(Tail(s)) + 1
         /\ Head(s) = s[1]
         /\ \A i \in 1..Len(Tail(s)) : Tail(s)[i] = s[i + 1]
  <1>1. s \in Seq(Elements(s))
    BY Widened
  <1>2. Tail(s) \in Seq(Elements(s)) /\ s = <<Head(s)>> \o Tail(s)
    BY <1>1, HeadOnTail
  <1>3. IsSequence(Tail(s))
    BY <1>2, Narrowed
  <1>4. /\ Elements(<<Head(s)>> \o Tail(s)) = {Head(s)} \union Elements(Tail(s))
        /\ Len(<<Head(s)>> \o Tail(s)) = 1 + Len(Tail(s))
    BY <1>3, Joined, Single
  <1>5. Head(s) = s[1] /\ \A i \in 1..Len(Tail(s)) : Tail(s)[i] = s[i + 1]
    BY <1>1, HeadTailProperties
  <1>6. Len(Tail(s)) \in Nat
    BY <1>3, SequenceFacts
  <1> DEFINE u == <<Head(s)>> \o Tail(s)
  <1>7. s = u /\ Elements(u) = {Head(s)} \union Elements(Tail(s)) /\ Len(u) = 1 + Len(Tail(s))
    BY <1>2, <1>4
  <1> HIDE DEF u
  <1>8. Elements(s) = {Head(s)} \union Elements(Tail(s)) /\ Len(s) = Len(Tail(s)) + 1
    BY <1>6, <1>7
  <1> QED
    BY <1>2, <1>3, <1>5, <1>8

LEMMA Flattened ==
  ASSUME NEW seqs, IsSequence(seqs), \A i \in 1..Len(seqs) : IsSequence(seqs[i])
  PROVE  /\ IsSequence(FlattenSeq(seqs))
         /\ Elements(FlattenSeq(seqs)) \subseteq UNION {Elements(seqs[i]) : i \in 1..Len(seqs)}
         /\ seqs \in Seq(Seq(UNION {Elements(seqs[i]) : i \in 1..Len(seqs)}))
  <1> DEFINE S == UNION {Elements(seqs[i]) : i \in 1..Len(seqs)}
  <1>1. DOMAIN seqs = 1..Len(seqs)
    BY SequenceFacts
  <1>2. \A i \in 1..Len(seqs) : Elements(seqs[i]) \subseteq S
    OBVIOUS
  <1> HIDE DEF S
  <1>3. \A i \in 1..Len(seqs) : seqs[i] \in Seq(S)
    BY <1>2, Widened
  <1>4. Elements(seqs) \subseteq Seq(S)
    BY <1>1, <1>3 DEF Elements
  <1>5. seqs \in Seq(Seq(S))
    BY <1>4, Widened
  <1>6. FlattenSeq(seqs) \in Seq(S)
    BY <1>5, FlattenType
  <1> QED
    BY <1>5, <1>6, Narrowed DEF S

-----------------------------------------------------------------------------
(* get_closest_way: what it finds is the entry of the name that a round of *)
(* its loop took.                                                          *)
Found(e, point) == [found |-> TRUE, way_id |-> e.entry.way_id, is_area |-> e.is_area,
                    cur_dist |-> Distance(point, uncompress(e.entry.compr_way))]
Bests(ways, point) == {Nothing} \union {Found(e, point) : e \in Elements(ways)}
Round(ways, point) == [i \in 1..Len(ways) |-> [best \in Bests(ways, point) |->
                          get_closest_way_from_argument(best, ways[i], point)]]
Rounds(f, ways, point) ==
    f = [i \in 0..Len(ways) |-> IF i = 0 THEN Nothing
                               ELSE get_closest_way_from_argument(f[i - 1], ways[i], point)]

LEMMA RoundsAreSteps ==
  ASSUME NEW ways, IsSequence(ways), NEW point, NEW f, Rounds(f, ways, point)
  PROVE  Steps(f, Len(ways), Nothing, Round(ways, point), Bests(ways, point))
  <1> DEFINE n == Len(ways)
             B == Bests(ways, point)
             I == {k \in Nat : k <= n => f[k] \in B}
  <1>1. n \in Nat /\ \A i \in 1..n : ways[i] \in Elements(ways)
    BY SequenceFacts
  <1>2. \A i \in 1..n : f[i] = get_closest_way_from_argument(f[i - 1], ways[i], point)
    BY <1>1 DEF Rounds
  <1>3. f[0] = Nothing
    BY <1>1 DEF Rounds
  <1>4. ASSUME NEW i \in 1..n, NEW b \in B
        PROVE  get_closest_way_from_argument(b, ways[i], point) \in B
    BY <1>1 DEF get_closest_way_from_argument, Bests, Found
  <1>5. ASSUME NEW k \in Nat, k \in I PROVE k + 1 \in I
    <2> SUFFICES ASSUME k + 1 <= n PROVE f[k + 1] \in B
      OBVIOUS
    <2>1. k + 1 \in 1..n /\ (k + 1) - 1 = k /\ f[k] \in B
      BY <1>1, <1>5
    <2> QED
      BY <2>1, <1>2, <1>4
  <1>6. 0 \in I
    BY <1>3 DEF Bests
  <1>7. Nat \subseteq I
    <2> HIDE DEF I
    <2> QED
      BY <1>5, <1>6, Induction
  <1>8. \A k \in 0..n : f[k] \in B
    BY <1>1, <1>7
  <1>9. f \in [0..n -> B]
    <2>1. f = [i \in 0..n |-> f[i]]
      BY DEF Rounds
    <2> QED
      BY <2>1, <1>8
  <1>10. ASSUME NEW i \in 1..n PROVE f[i] = Round(ways, point)[i][f[i - 1]]
    <2>1. i - 1 \in 0..n /\ f[i - 1] \in B
      BY <1>1, <1>8
    <2> QED
      BY <2>1, <1>2 DEF Round
  <1> QED
    BY <1>3, <1>9, <1>10 DEF Steps

LEMMA RoundsExist ==
  ASSUME NEW ways, IsSequence(ways), NEW point
  PROVE  \E f : Rounds(f, ways, point)
  <1> DEFINE n == Len(ways)
             B == Bests(ways, point)
             R == Round(ways, point)
  <1>1. n \in Nat /\ \A i \in 1..n : ways[i] \in Elements(ways)
    BY SequenceFacts
  <1>2. \A i \in 1..n, b \in B : get_closest_way_from_argument(b, ways[i], point) \in B
    BY <1>1 DEF get_closest_way_from_argument, Bests, Found
  <1>3. R \in [1..n -> [B -> B]] /\ Nothing \in B
    BY <1>2 DEF Round, Bests
  <1>4. PICK g : Steps(g, n, Nothing, R, B)
    <2> HIDE DEF B, R, n
    <2> QED
      BY <1>1, <1>3, Recursion
  <1>5. g \in [0..n -> B] /\ g[0] = Nothing /\ \A i \in 1..n : g[i] = R[i][g[i - 1]]
    BY <1>4 DEF Steps
  <1>6. ASSUME NEW i \in 0..n
        PROVE  g[i] = IF i = 0 THEN Nothing
                      ELSE get_closest_way_from_argument(g[i - 1], ways[i], point)
    <2>1. CASE i = 0
      BY <2>1, <1>5
    <2>2. CASE i # 0
      <3>1. i \in 1..n /\ i - 1 \in 0..n
        BY <1>1, <2>2
      <3>2. g[i - 1] \in B /\ g[i] = R[i][g[i - 1]]
        BY <3>1, <1>5
      <3> QED
        BY <2>2, <3>1, <3>2 DEF Round
    <2> QED
      BY <2>1, <2>2
  <1>7. g = [i \in 0..n |-> g[i]]
    BY <1>5
  <1>8. Rounds(g, ways, point)
    <2> HIDE DEF B, R
    <2> QED
      BY <1>6, <1>7 DEF Rounds
  <1> QED
    BY <1>8

LEMMA ClosestWay ==
  ASSUME NEW point, NEW name, IsSequence(lookups(name))
  PROVE  \E f : /\ Steps(f, Len(lookups(name)), Nothing, Round(lookups(name), point),
                         Bests(lookups(name), point))
               /\ get_closest_way(point, name) = f[Len(lookups(name))]
  <1> DEFINE ways == lookups(name)
  <1>1. \E f : Rounds(f, ways, point)
    BY RoundsExist
  <1>2. PICK f : Rounds(f, ways, point) /\ get_closest_way(point, name) = f[Len(ways)]
    BY <1>1 DEF get_closest_way, Rounds
  <1> QED
    BY <1>2, RoundsAreSteps

-----------------------------------------------------------------------------
(* What the lookup functions of ConnectionLinePreprocessor hand back       *)
IsMultimap(m) == DOMAIN m = Names /\ \A n \in Names : IsSequence(m[n])
TablesTyped == /\ IsMultimap(name2highway_area) /\ IsMultimap(name2highway_nonarea)
               /\ IsMultimap(name2place_nody) /\ IsMultimap(name2place_wayy)

LEMMA Mapped ==
  ASSUME NEW s, IsSequence(s), NEW b
  PROVE  LET t == [i \in DOMAIN s |-> [entry |-> s[i], is_area |-> b]]
         IN /\ IsSequence(t)
            /\ Len(t) = Len(s)
            /\ Elements(t) = {[entry |-> x, is_area |-> b] : x \in Elements(s)}
  <1> DEFINE t == [i \in DOMAIN s |-> [entry |-> s[i], is_area |-> b]]
             S == {[entry |-> x, is_area |-> b] : x \in Elements(s)}
  <1>1. DOMAIN s = 1..Len(s) /\ Len(s) \in Nat /\ \A i \in 1..Len(s) : s[i] \in Elements(s)
    BY SequenceFacts
  <1>2. t = [i \in 1..Len(s) |-> t[i]]
    BY <1>1
  <1>3. IsSequence(t) /\ Len(t) = Len(s)
    <2> HIDE DEF t
    <2> QED
      BY <1>1, <1>2, Listed
  <1>4. Elements(t) = S
    BY DEF Elements
  <1> QED
    BY <1>3, <1>4

LEMMA LookupFacts ==
  ASSUME TablesTyped, NEW name \in Names
  PROVE  /\ IsSequence(lookups(name))
         /\ Len(lookups(name)) = Len(name2highway_area[name]) + Len(name2highway_nonarea[name])
         /\ Elements(lookups(name)) =
               {[entry |-> x, is_area |-> TRUE] : x \in Elements(name2highway_area[name])} \union
               {[entry |-> x, is_area |-> FALSE] : x \in Elements(name2highway_nonarea[name])}
  <1>1. IsSequence(name2highway_area[name]) /\ IsSequence(name2highway_nonarea[name])
    BY DEF TablesTyped, IsMultimap
  <1> DEFINE A == [i \in DOMAIN name2highway_area[name] |->
                     [entry |-> name2highway_area[name][i], is_area |-> TRUE]]
             B == [i \in DOMAIN name2highway_nonarea[name] |->
                     [entry |-> name2highway_nonarea[name][i], is_area |-> FALSE]]
  <1>2. lookups(name) = A \o B
    BY DEF lookups
  <1> DEFINE EA == {[entry |-> x, is_area |-> TRUE] : x \in Elements(name2highway_area[name])}
             EB == {[entry |-> x, is_area |-> FALSE] : x \in Elements(name2highway_nonarea[name])}
  <1>3. IsSequence(A) /\ Len(A) = Len(name2highway_area[name]) /\ Elements(A) = EA
    BY <1>1, Mapped
  <1>4. IsSequence(B) /\ Len(B) = Len(name2highway_nonarea[name]) /\ Elements(B) = EB
    BY <1>1, Mapped
  <1> HIDE DEF A, B, EA, EB
  <1>5. /\ IsSequence(A \o B) /\ Len(A \o B) = Len(A) + Len(B)
        /\ Elements(A \o B) = Elements(A) \union Elements(B)
    BY <1>3, <1>4, Joined
  <1>6. /\ IsSequence(lookups(name))
        /\ Len(lookups(name)) = Len(name2highway_area[name]) + Len(name2highway_nonarea[name])
        /\ Elements(lookups(name)) = EA \union EB
    BY <1>2, <1>3, <1>4, <1>5
  <1> QED
    BY <1>6 DEF EA, EB

(* The features of an address that is connected to the way of e            *)
OnWay(type, id, e, name) ==
    << write_line(type, id, <<"way", e.entry.way_id>>),
       call(IF e.is_area THEN "nearest_areas" ELSE "nearest_roads",
            [way_id |-> e.entry.way_id, name |-> name]),
       call("nearest_points", [way_id |-> e.entry.way_id]) >>
IsStreet(r, type, id) ==
    \/ r = NoStreet
    \/ \E name \in Names : \E e \in Elements(lookups(name)) :
          r = [calls |-> OnWay(type, id, e, name), road_id |-> TRUE]
IsPlace(r, type) ==
    \/ r = NoPlace
    \/ \E end : \E nody \in BOOLEAN :
          r = [calls |-> << write_line(type, 0, <<"place", end>>) >>,
               nody_place_id |-> nody, wayy_place_id |-> ~nody]

LEMMA ClosestIsFound ==
  ASSUME TablesTyped, NEW point, NEW name \in Names
  PROVE  \/ get_closest_way(point, name) = Nothing
         \/ \E e \in Elements(lookups(name)) : get_closest_way(point, name) = Found(e, point)
  <1> DEFINE ways == lookups(name)
  <1>1. IsSequence(ways) /\ Len(ways) \in Nat
    BY LookupFacts, SequenceFacts
  <1>2. PICK f : /\ Steps(f, Len(ways), Nothing, Round(ways, point), Bests(ways, point))
                 /\ get_closest_way(point, name) = f[Len(ways)]
    BY <1>1, ClosestWay
  <1>3. f[Len(ways)] \in Bests(ways, point)
    BY <1>1, <1>2 DEF Steps
  <1> QED
    BY <1>2, <1>3 DEF Bests

LEMMA StreetShape ==
  ASSUME TablesTyped, NEW point, NEW id, NEW type, NEW name \in Names
  PROVE  IsStreet(handle_connection_line_street(point, id, type, name), type, id)
  <1>1. CASE get_closest_way(point, name) = Nothing
    BY <1>1 DEF handle_connection_line_street, IsStreet, Nothing
  <1>2. ASSUME NEW e \in Elements(lookups(name)), get_closest_way(point, name) = Found(e, point)
        PROVE  handle_connection_line_street(point, id, type, name) =
                   [calls |-> OnWay(type, id, e, name), road_id |-> TRUE]
    BY <1>2 DEF handle_connection_line_street, Found, OnWay, write_way, write_point
  <1> QED
    BY <1>1, <1>2, ClosestIsFound DEF IsStreet

LEMMA PlaceShape ==
  ASSUME NEW point, NEW type, NEW name
  PROVE  IsPlace(handle_connection_line_place(point, type, name), type)
  <1>1. CASE get_closest_place(point, name) = Nothing
    BY <1>1 DEF handle_connection_line_place, IsPlace, Nothing
  <1>2. ASSUME NEW end, NEW nody \in BOOLEAN,
               get_closest_place(point, name) = [found |-> TRUE, is_nody |-> nody, closest_point |-> end]
        PROVE  handle_connection_line_place(point, type, name) =
                  [calls |-> << write_line(type, 0, <<"place", end>>) >>,
                   nody_place_id |-> nody, wayy_place_id |-> ~nody]
    BY <1>2 DEF handle_connection_line_place
  <1>3. \/ get_closest_place(point, name) = Nothing
        \/ \E end : \E nody \in BOOLEAN :
              get_closest_place(point, name) = [found |-> TRUE, is_nody |-> nody, closest_point |-> end]
    BY DEF get_closest_place
  <1> QED
    BY <1>1, <1>2, <1>3 DEF IsPlace

-----------------------------------------------------------------------------
(* The input                                                               *)
KeptTags == {EmptyTagList} \union {AltTagList(file[i]) : i \in DOMAIN file}

LEMMA FileFacts ==
  ASSUME file \in InputFiles
  PROVE  /\ DOMAIN file = 1..Len(file) /\ Len(file) \in Nat
         /\ \A i \in 1..Len(file) :
              /\ file[i].type \in {"node", "way"}
              /\ file[i].type = "node" => file[i].id \in NodeIds
              /\ file[i].type = "way" =>
                    /\ DOMAIN file[i].refs = 1..Len(file[i].refs) /\ Len(file[i].refs) \in Nat
                    /\ \A k \in 1..Len(file[i].refs) : file[i].refs[k] \in NodeIds
         /\ \A i, k \in 1..Len(file) :
              file[i].type = file[k].type /\ file[i].id = file[k].id => i = k
  <1>1. IsSequence(file)
    BY FilesAssumption
  <1>2. DOMAIN file = 1..Len(file) /\ Len(file) \in Nat
    BY <1>1, SequenceFacts
  <1>3. ASSUME NEW i \in 1..Len(file), file[i].type = "way"
        PROVE  /\ DOMAIN file[i].refs = 1..Len(file[i].refs) /\ Len(file[i].refs) \in Nat
               /\ \A k \in 1..Len(file[i].refs) : file[i].refs[k] \in NodeIds
    <2>1. IsSequence(file[i].refs) /\ \A k \in DOMAIN file[i].refs : file[i].refs[k] \in NodeIds
      BY <1>2, <1>3, FilesAssumption
    <2>2. DOMAIN file[i].refs = 1..Len(file[i].refs) /\ Len(file[i].refs) \in Nat
      BY <2>1, SequenceFacts
    <2> QED
      BY <2>1, <2>2
  <1>4. \A i \in 1..Len(file) : /\ file[i].type \in {"node", "way"}
                                /\ file[i].type = "node" => file[i].id \in NodeIds
    BY <1>2, FilesAssumption
  <1>5. \A i, k \in 1..Len(file) :
           file[i].type = file[k].type /\ file[i].id = file[k].id => i = k
    BY <1>2, FilesAssumption
  <1> QED
    BY <1>2, <1>3, <1>4, <1>5

LEMMA NamedStreet ==
  ASSUME file \in InputFiles, NEW i \in 1..Len(file)
  PROVE  \A key \in NameKeys \union {"addr:street", "addr:place"} :
            Has(file[i], key) => file[i].tags[key] \in Names
  <1>1. i \in DOMAIN file
    BY FileFacts
  <1> QED
    BY <1>1, NamesAssumption DEF Has

LEMMA KeptTagsFacts ==
  ASSUME file \in InputFiles, NEW tags \in KeptTags
  PROVE  /\ get_value_by_key(tags, "addr:street") \in Names
         /\ get_value_by_key(tags, "addr:housenumber") \in HouseNumbers
  <1>1. CASE tags = EmptyTagList
    <2>1. DOMAIN tags = {}
      BY <1>1 DEF EmptyTagList
    <2> QED
      BY <2>1, NamesAssumption DEF get_value_by_key, HouseNumbers
  <1>2. ASSUME NEW i \in DOMAIN file, tags = AltTagList(file[i])
        PROVE  /\ get_value_by_key(tags, "addr:street") \in Names
               /\ get_value_by_key(tags, "addr:housenumber") \in HouseNumbers
    <2>1. DOMAIN tags = AddrKeys \intersect DOMAIN file[i].tags
          /\ \A key \in DOMAIN tags : tags[key] = file[i].tags[key]
      BY <1>2 DEF AltTagList
    <2>2. get_value_by_key(tags, "addr:street") \in Names
      BY <2>1, NamesAssumption DEF get_value_by_key
    <2>3. get_value_by_key(tags, "addr:housenumber") \in HouseNumbers
      <3>1. CASE "addr:housenumber" \in DOMAIN tags
        <4>1. Has(file[i], "addr:housenumber")
          BY <3>1, <2>1 DEF Has
        <4> DEFINE Of(f) == {f[k].tags["addr:housenumber"] :
                               k \in {k \in DOMAIN f : Has(f[k], "addr:housenumber")}}
        <4>2. file[i].tags["addr:housenumber"] \in Of(file) /\ Of(file) \in {Of(f) : f \in InputFiles}
          BY <4>1
        <4>3. get_value_by_key(tags, "addr:housenumber") = file[i].tags["addr:housenumber"]
          BY <3>1, <2>1 DEF get_value_by_key
        <4> QED
          BY <4>2, <4>3 DEF HouseNumbers
      <3>2. CASE "addr:housenumber" \notin DOMAIN tags
        BY <3>2 DEF get_value_by_key, HouseNumbers
      <3> QED
        BY <3>1, <3>2
    <2> QED
      BY <2>2, <2>3
  <1> QED
    BY <1>1, <1>2 DEF KeptTags

LEMMA NumbersFacts ==
  ASSUME NEW ip, ip.first_raw.atoi \in Nat, ip.first_raw.char \in Nat,
         ip.last_raw.atoi \in Nat, ip.last_raw.char \in Nat
  PROVE  IsSequence(numbers(ip))
  <1> DEFINE f == first_of(ip)
             l == last_of(ip)
             s == increment(ip.kind)
             n == IF f = l THEN 0 ELSE (abs_diff(f, l) - 1) \div s
             b == between(f, l, s)
  <1>1. f \in Nat /\ l \in Nat
    BY DEF first_of, last_of, value
  <1>2. s = 1 \/ s = 2
    BY DEF increment
  <1> HIDE DEF f, l, s
  <1>3. f # l => abs_diff(f, l) - 1 \in Nat
    BY <1>1 DEF abs_diff
  <1>4. n \in Nat
    BY <1>2, <1>3
  <1>5. DOMAIN b = 1..n /\ b = [i \in 1..n |-> b[i]]
    BY DEF between
  <1> HIDE DEF n, b
  <1>7. IsSequence(b)
    BY <1>4, <1>5, Listed
  <1>8. numbers(ip) = b \/ numbers(ip) = <<>>
    BY DEF numbers, b, f, l, s
  <1> QED
    BY <1>7, <1>8, None

-----------------------------------------------------------------------------
(* The types of the variables, as far as the proofs need them              *)
LayersTyped ==
    /\ DOMAIN disk = Layer /\ DOMAIN txn = Layer /\ DOMAIN num_features = Layer
    /\ \A l \in Layer : /\ IsSequence(disk[l]) /\ IsSequence(txn[l])
                        /\ num_features[l] \in 0..CommitLimit
    /\ constructed \in 0..11 /\ destroyed \in 0..11
    /\ exit \in {"none"} \union Endings
PassTyped ==
    /\ file \in InputFiles
    /\ pass \in {"first", "second"}
    /\ pos \in 1..(Len(file) + 1)
    /\ DOMAIN index = NodeIds
NodesTyped ==
    /\ addr_interpolation_node_set \subseteq UnsignedIds
    /\ DOMAIN addr_interpolation_node_map = NodeIds
    /\ \A id \in NodeIds : addr_interpolation_node_map[id] \in KeptTags
    /\ table_size \in Int
CallsTyped ==
    /\ IsSequence(calls)
    /\ \A c \in Elements(calls) : c.layer \in Layer
    /\ DOMAIN written_ways = {"nearest_roads", "nearest_areas"}
TypeInv == PassTyped /\ TablesTyped /\ NodesTyped /\ CallsTyped /\ LayersTyped

-----------------------------------------------------------------------------
(* The calls of a handler, one by one                                      *)
OnWayCall(c, type, id, name, e) ==
    \/ c = write_line(type, id, <<"way", e.entry.way_id>>)
    \/ c = call(IF e.is_area THEN "nearest_areas" ELSE "nearest_roads",
                [way_id |-> e.entry.way_id, name |-> name])
    \/ c = call("nearest_points", [way_id |-> e.entry.way_id])
StreetCall(c, type, id) ==
    \E name \in Names : \E e \in Elements(lookups(name)) : OnWayCall(c, type, id, name, e)
PlaceCall(c, type) == \E end : c = write_line(type, 0, <<"place", end>>)

LEMMA OnWayFacts ==
  ASSUME NEW type, NEW id, NEW e, NEW name
  PROVE  /\ IsSequence(OnWay(type, id, e, name))
         /\ Len(OnWay(type, id, e, name)) = 3
         /\ \A c \in Elements(OnWay(type, id, e, name)) : OnWayCall(c, type, id, name, e)
  BY DEF OnWay, OnWayCall, IsSequence, Elements

LEMMA StreetFacts ==
  ASSUME NEW r, NEW type, NEW id, IsStreet(r, type, id)
  PROVE  /\ IsSequence(r.calls) /\ r.road_id \in BOOLEAN
         /\ \A c \in Elements(r.calls) : r.road_id /\ StreetCall(c, type, id)
  <1>1. CASE r = NoStreet
    BY <1>1, None DEF NoStreet
  <1>2. ASSUME NEW name \in Names, NEW e \in Elements(lookups(name)),
               r = [calls |-> OnWay(type, id, e, name), road_id |-> TRUE]
        PROVE  /\ IsSequence(r.calls) /\ r.road_id \in BOOLEAN
               /\ \A c \in Elements(r.calls) : r.road_id /\ StreetCall(c, type, id)
    BY <1>2, OnWayFacts DEF StreetCall
  <1> QED
    BY <1>1, <1>2 DEF IsStreet

LEMMA PlaceFacts ==
  ASSUME NEW r, NEW type, IsPlace(r, type)
  PROVE  /\ IsSequence(r.calls) /\ r.nody_place_id \in BOOLEAN /\ r.wayy_place_id \in BOOLEAN
         /\ \A c \in Elements(r.calls) : PlaceCall(c, type)
  <1>1. CASE r = NoPlace
    BY <1>1, None DEF NoPlace
  <1>2. CASE r # NoPlace
    <2>1. PICK end : \E nody \in BOOLEAN :
                        r = [calls |-> << write_line(type, 0, <<"place", end>>) >>,
                             nody_place_id |-> nody, wayy_place_id |-> ~nody]
      BY <1>2 DEF IsPlace
    <2>2. /\ r.calls = << write_line(type, 0, <<"place", end>>) >>
          /\ r.nody_place_id \in BOOLEAN /\ r.wayy_place_id \in BOOLEAN
      BY <2>1
    <2> QED
      BY <2>2, Single DEF PlaceCall
  <1> QED
    BY <1>1, <1>2

LEMMA StreetOfShape ==
  ASSUME TablesTyped, file \in InputFiles, NEW i \in 1..Len(file), NEW point, NEW type
  PROVE  IsStreet(StreetOf(file[i], point, type), type, file[i].id)
  <1> DEFINE o == file[i]
             name == o.tags["addr:street"]
  <1>1. CASE StreetOf(o, point, type) = NoStreet
    BY <1>1 DEF IsStreet
  <1>2. CASE Has(o, "addr:street") /\ StreetOf(o, point, type) =
                handle_connection_line_street(point, o.id, type, name)
    <2>1. name \in Names
      BY <1>2, NamedStreet
    <2>2. IsStreet(handle_connection_line_street(point, o.id, type, name), type, o.id)
      BY <2>1, StreetShape
    <2> QED
      BY <1>2, <2>2
  <1> QED
    BY <1>1, <1>2 DEF StreetOf

LEMMA PlaceOfShape ==
  ASSUME NEW o, NEW point, NEW type, NEW key
  PROVE  IsPlace(PlaceOf(o, point, type, key), type)
  <1>1. CASE PlaceOf(o, point, type, key) = NoPlace
    BY <1>1 DEF IsPlace
  <1>2. CASE PlaceOf(o, point, type, key) = handle_connection_line_place(point, type, o.tags[key])
    BY <1>2, PlaceShape
  <1> QED
    BY <1>1, <1>2 DEF PlaceOf

LEMMA InterpolatedShape ==
  ASSUME TablesTyped, NEW point, NEW street \in Names
  PROVE  IsStreet(process_interpolated_node(point, street), "interpolated", 0)
  <1>1. CASE process_interpolated_node(point, street) = NoStreet
    BY <1>1 DEF IsStreet
  <1>2. CASE process_interpolated_node(point, street) =
                handle_connection_line_street(point, 0, "interpolated", street)
    BY <1>2, StreetShape
  <1> QED
    BY <1>1, <1>2 DEF process_interpolated_node

LEMMA WhenFacts ==
  ASSUME NEW b \in BOOLEAN, NEW s, b => IsSequence(s)
  PROVE  /\ IsSequence(When(b, s))
         /\ \A c \in Elements(When(b, s)) : b /\ c \in Elements(s)
  BY None DEF When

NodeCall(c, node) ==
    \/ c = call("entrances", [node_id |-> node.id])
    \/ StreetCall(c, "node", node.id) /\ c \in Elements(StreetOf(node, node.loc, "node").calls)
    \/ PlaceCall(c, "node")
    \/ /\ HasAny(node, AddrKeys)
       /\ c = address("node", node.id, AltTagList(node), 0, process_node(node))

LEMMA NodeCallsFacts ==
  ASSUME TablesTyped, file \in InputFiles, NEW i \in 1..Len(file)
  PROVE  /\ IsSequence(NodeCalls(file[i]))
         /\ \A c \in Elements(NodeCalls(file[i])) : NodeCall(c, file[i])
         /\ Elements(StreetOf(file[i], file[i].loc, "node").calls) \subseteq Elements(NodeCalls(file[i]))
  <1> DEFINE node == file[i]
             street == StreetOf(node, node.loc, "node")
             place1 == PlaceOf(node, node.loc, "node", "addr:street")
             place2 == PlaceOf(node, node.loc, "node", "addr:place")
             A == feed_entrances(node)
             B == street.calls \o place1.calls \o place2.calls
             C == address_of_node(node, process_node(node))
  <1>1. IsSequence(A) /\ \A c \in Elements(A) : NodeCall(c, node)
    <2> DEFINE e == call("entrances", [node_id |-> node.id])
    <2>1. A = <<>> \/ A = <<e>>
      BY DEF feed_entrances, When
    <2>2. \A c \in Elements(A) : c = e
      BY <2>1, Single, None
    <2> QED
      BY <2>1, <2>2, Single, None DEF NodeCall
  <1>2. IsSequence(C) /\ \A c \in Elements(C) : NodeCall(c, node)
    <2> DEFINE e == address("node", node.id, AltTagList(node), 0, process_node(node))
    <2>1. C = <<>> \/ (HasAny(node, AddrKeys) /\ C = <<e>>)
      BY DEF address_of_node, When
    <2>2. \A c \in Elements(C) : HasAny(node, AddrKeys) /\ c = e
      BY <2>1, Single, None
    <2> QED
      BY <2>1, <2>2, Single, None DEF NodeCall
  <1>3. IsStreet(street, "node", node.id) /\ IsPlace(place1, "node") /\ IsPlace(place2, "node")
    BY StreetOfShape, PlaceOfShape
  <1>4. NodeCalls(node) = A \o B \o C
    BY DEF NodeCalls, process_node
  <1> HIDE DEF street, place1, place2
  <1>5. /\ IsSequence(street.calls) /\ IsSequence(place1.calls) /\ IsSequence(place2.calls)
        /\ \A c \in Elements(street.calls) : StreetCall(c, "node", node.id)
        /\ \A c \in Elements(place1.calls) : PlaceCall(c, "node")
        /\ \A c \in Elements(place2.calls) : PlaceCall(c, "node")
    BY <1>3, StreetFacts, PlaceFacts
  <1>6. /\ IsSequence(B)
        /\ Elements(B) = Elements(street.calls) \union Elements(place1.calls) \union Elements(place2.calls)
    BY <1>5, Joined
  <1> HIDE DEF A, B, C
  <1>7. IsSequence(A \o B \o C) /\ Elements(A \o B \o C) = Elements(A) \union Elements(B) \union Elements(C)
    BY <1>1, <1>2, <1>6, Joined
  <1>8. \A c \in Elements(B) : NodeCall(c, node)
    BY <1>5, <1>6 DEF NodeCall, street
  <1> QED
    BY <1>1, <1>2, <1>4, <1>6, <1>7, <1>8 DEF street

(* What the rounds over the house numbers of an interpolation ask for      *)
IpIds(way, line, ip, i) ==
    process_interpolated_node(
        PointAlong(linestring(line), abs_diff(numbers(ip)[i], first_of(ip)),
                   abs_diff(last_of(ip), first_of(ip))),
        get_value_by_key(addr_interpolation_node_map[way.refs[1]], "addr:street"))
IpRow(way, line, ip, i) ==
    address_of_interpolation(numbers(ip)[i], addr_interpolation_node_map[way.refs[1]],
                             IpIds(way, line, ip, i))
IpNodes(way, line, ip) ==
    [i \in DOMAIN numbers(ip) |->
        interpolated_node(ip, numbers(ip)[i], addr_interpolation_node_map[way.refs[1]], line)]

WayCall(c, way, line, ip) ==
    \/ /\ Has(way, "addr:interpolation")
       /\ \/ StreetCall(c, "interpolated", 0)
          \/ \E i \in 1..Len(numbers(ip)) : c = IpRow(way, line, ip, i)
          \/ c = call("interpolation", [way_id |-> way.id, error |-> error(ip)])
    \/ c = call("addrx_on_nonclosed_way", way_row(way))
    \/ c = call("ways_with_addresses", [way_id |-> way.id, tags |-> AltTagList(way)])
    \/ c = call("ways_with_postal_code", way_row(way))
    \/ /\ is_closed(way) /\ centroid_ok(line)
       /\ \/ StreetCall(c, "way", way.id) /\ c \in Elements(StreetOf(way, Centroid(line), "way").calls)
          \/ PlaceCall(c, "way")
          \/ /\ HasAny(way, {"addr:street", "addr:housenumber"})
             /\ c = address("way", way.id, AltTagList(way), 0, process_way(way, Centroid(line)))

LEMMA LineFacts ==
  ASSUME file \in InputFiles, NEW i \in 1..Len(file), file[i].type = "way"
  PROVE  LET line == locations(file[i], index) IN
         /\ DOMAIN line = 1..Len(file[i].refs)
         /\ Len(line) = Len(file[i].refs)
         /\ is_way_with_nonzero_length(line) =>
               /\ file[i].refs[1] \in NodeIds /\ file[i].refs[Len(file[i].refs)] \in NodeIds
               /\ Len(file[i].refs) >= 2
  <1> DEFINE way == file[i]
             line == locations(way, index)
             n == Len(way.refs)
  <1>1. DOMAIN way.refs = 1..n /\ n \in Nat /\ \A k \in 1..n : way.refs[k] \in NodeIds
    BY FileFacts
  <1>2. DOMAIN line = 1..n /\ line = [k \in 1..n |-> line[k]]
    BY <1>1 DEF locations
  <1>3. Len(line) = n
    <2> HIDE DEF line, n
    <2> QED
      BY <1>1, <1>2, Listed
  <1>4. ASSUME is_way_with_nonzero_length(line)
        PROVE  way.refs[1] \in NodeIds /\ way.refs[Len(way.refs)] \in NodeIds /\ n >= 2
    <2>1. n >= 2
      BY <1>3, <1>4 DEF is_way_with_nonzero_length
    <2> QED
      BY <1>1, <2>1
  <1> QED
    BY <1>2, <1>3, <1>4

LEMMA IpNodesFacts ==
  ASSUME TypeInv, NEW way, way.refs[1] \in NodeIds, way.refs[Len(way.refs)] \in NodeIds,
         Has(way, "addr:interpolation"), NEW ip \in interpolations(way), NEW line
  PROVE  /\ IsSequence(numbers(ip)) /\ IsSequence(IpNodes(way, line, ip))
         /\ Len(IpNodes(way, line, ip)) = Len(numbers(ip))
         /\ \A i \in 1..Len(numbers(ip)) :
              /\ IsStreet(IpIds(way, line, ip, i), "interpolated", 0)
              /\ IpNodes(way, line, ip)[i] = IpIds(way, line, ip, i).calls \o <<IpRow(way, line, ip, i)>>
              /\ IsSequence(IpNodes(way, line, ip)[i])
              /\ \A c \in Elements(IpNodes(way, line, ip)[i]) :
                    StreetCall(c, "interpolated", 0) \/ c = IpRow(way, line, ip, i)
  <1> DEFINE map == addr_interpolation_node_map
             first_tags == map[way.refs[1]]
             last_tags == map[way.refs[Len(way.refs)]]
             n == Len(numbers(ip))
             nodes == IpNodes(way, line, ip)
  <1>1. /\ file \in InputFiles /\ TablesTyped
        /\ first_tags \in KeptTags /\ last_tags \in KeptTags
    BY DEF TypeInv, PassTyped, NodesTyped
  <1>2. /\ get_value_by_key(first_tags, "addr:street") \in Names
        /\ get_value_by_key(first_tags, "addr:housenumber") \in HouseNumbers
        /\ get_value_by_key(last_tags, "addr:housenumber") \in HouseNumbers
    BY <1>1, KeptTagsFacts
  <1>3. /\ ip.first_raw = Raw(get_value_by_key(first_tags, "addr:housenumber"))
        /\ ip.last_raw = Raw(get_value_by_key(last_tags, "addr:housenumber"))
    <2>1. PICK stray \in BOOLEAN : ip = interpolation(way, map, stray)
      BY DEF interpolations
    <2> QED
      BY <2>1 DEF interpolation
  <1>4. IsSequence(numbers(ip)) /\ DOMAIN numbers(ip) = 1..n /\ n \in Nat
    BY <1>2, <1>3, RawAssumption, NumbersFacts, SequenceFacts
  <1>5. DOMAIN nodes = 1..n /\ nodes = [i \in 1..n |-> nodes[i]]
    BY <1>4 DEF IpNodes
  <1>6. IsSequence(nodes) /\ Len(nodes) = n
    <2> HIDE DEF nodes, n
    <2> QED
      BY <1>4, <1>5, Listed
  <1>7. ASSUME NEW i \in 1..n
        PROVE  /\ IsStreet(IpIds(way, line, ip, i), "interpolated", 0)
               /\ nodes[i] = IpIds(way, line, ip, i).calls \o <<IpRow(way, line, ip, i)>>
               /\ IsSequence(nodes[i])
               /\ \A c \in Elements(nodes[i]) :
                     StreetCall(c, "interpolated", 0) \/ c = IpRow(way, line, ip, i)
    <2> DEFINE ids == IpIds(way, line, ip, i)
               row == IpRow(way, line, ip, i)
    <2>1. IsStreet(ids, "interpolated", 0)
      BY <1>1, <1>2, InterpolatedShape DEF IpIds
    <2>2. nodes[i] = Append(ids.calls, row)
      BY <1>4 DEF IpNodes, interpolated_node, IpIds, IpRow
    <2> HIDE DEF ids, row, nodes
    <2>3. IsSequence(ids.calls) /\ \A c \in Elements(ids.calls) : StreetCall(c, "interpolated", 0)
      BY <2>1, StreetFacts
    <2>4. /\ IsSequence(Append(ids.calls, row)) /\ Append(ids.calls, row) = ids.calls \o <<row>>
          /\ Elements(Append(ids.calls, row)) = Elements(ids.calls) \union {row}
      BY <2>3, Appended
    <2>5. /\ nodes[i] = ids.calls \o <<row>> /\ IsSequence(nodes[i])
          /\ \A c \in Elements(nodes[i]) : StreetCall(c, "interpolated", 0) \/ c = row
      BY <2>2, <2>3, <2>4
    <2> QED
      BY <2>1, <2>5 DEF ids, row
  <1> QED
    BY <1>4, <1>6, <1>7

LEMMA CentroidCallsFacts ==
  ASSUME TablesTyped, file \in InputFiles, NEW k \in 1..Len(file), NEW line, NEW ip
  PROVE  /\ IsSequence(centroid_calls(file[k], line))
         /\ \A c \in Elements(centroid_calls(file[k], line)) : WayCall(c, file[k], line, ip)
         /\ is_closed(file[k]) /\ centroid_ok(line) =>
               Elements(StreetOf(file[k], Centroid(line), "way").calls) \subseteq
               Elements(centroid_calls(file[k], line))
  <1> DEFINE way == file[k]
             street == StreetOf(way, Centroid(line), "way")
             place == PlaceOf(way, Centroid(line), "way", "addr:place")
             e == address("way", way.id, AltTagList(way), 0, process_way(way, Centroid(line)))
             A == address_of_way(way, process_way(way, Centroid(line)))
  <1>1. IsStreet(street, "way", way.id) /\ IsPlace(place, "way")
    BY StreetOfShape, PlaceOfShape
  <1>2. A = <<>> \/ (HasAny(way, {"addr:street", "addr:housenumber"}) /\ A = <<e>>)
    BY DEF address_of_way, When
  <1>3. \/ ~(is_closed(way) /\ centroid_ok(line)) /\ centroid_calls(way, line) = <<>>
        \/ is_closed(way) /\ centroid_ok(line) /\ centroid_calls(way, line) = street.calls \o place.calls \o A
    BY DEF centroid_calls, When, process_way
  <1> HIDE DEF street, place, A
  <1>4. /\ IsSequence(street.calls) /\ IsSequence(place.calls)
        /\ \A c \in Elements(street.calls) : StreetCall(c, "way", way.id)
        /\ \A c \in Elements(place.calls) : PlaceCall(c, "way")
    BY <1>1, StreetFacts, PlaceFacts
  <1>5. /\ IsSequence(A)
        /\ \A c \in Elements(A) : HasAny(way, {"addr:street", "addr:housenumber"}) /\ c = e
    BY <1>2, None, Single
  <1> DEFINE u == street.calls \o place.calls \o A
  <1>6. /\ IsSequence(u)
        /\ Elements(u) = Elements(street.calls) \union Elements(place.calls) \union Elements(A)
    BY <1>4, <1>5, Joined
  <1> HIDE DEF u
  <1>7. CASE is_closed(way) /\ centroid_ok(line) /\ centroid_calls(way, line) = u
    <2>1. \A c \in Elements(u) : WayCall(c, way, line, ip)
      BY <1>4, <1>5, <1>6, <1>7 DEF WayCall, street
    <2> QED
      BY <1>6, <1>7, <2>1 DEF street
  <1>8. CASE ~(is_closed(way) /\ centroid_ok(line)) /\ centroid_calls(way, line) = <<>>
    BY <1>8, None
  <1> QED
    BY <1>3, <1>7, <1>8 DEF u

LEMMA FeedInterpolationFacts ==
  ASSUME TypeInv, NEW way, way.refs[1] \in NodeIds, way.refs[Len(way.refs)] \in NodeIds,
         NEW ip \in interpolations(way), NEW line
  PROVE  /\ IsSequence(feed_interpolation(way, line, ip))
         /\ \A c \in Elements(feed_interpolation(way, line, ip)) : WayCall(c, way, line, ip)
  <1>1. CASE ~Has(way, "addr:interpolation")
    BY <1>1, None DEF feed_interpolation, When
  <1>2. CASE Has(way, "addr:interpolation")
    <2> DEFINE nodes == IpNodes(way, line, ip)
               e == call("interpolation", [way_id |-> way.id, error |-> error(ip)])
               n == Len(numbers(ip))
    <2>1. feed_interpolation(way, line, ip) = FlattenSeq(nodes) \o <<e>>
      BY <1>2 DEF feed_interpolation, When, IpNodes
    <2>2. /\ IsSequence(nodes) /\ Len(nodes) = n
          /\ \A i \in 1..n : /\ IsSequence(nodes[i])
                             /\ \A c \in Elements(nodes[i]) :
                                   StreetCall(c, "interpolated", 0) \/ c = IpRow(way, line, ip, i)
      BY <1>2, IpNodesFacts
    <2> HIDE DEF nodes
    <2>3. /\ IsSequence(FlattenSeq(nodes))
          /\ Elements(FlattenSeq(nodes)) \subseteq UNION {Elements(nodes[i]) : i \in 1..n}
      BY <2>2, Flattened
    <2>4. ASSUME NEW c \in Elements(FlattenSeq(nodes))
          PROVE  \/ StreetCall(c, "interpolated", 0)
                 \/ \E i \in 1..n : c = IpRow(way, line, ip, i)
      <3>1. PICK i \in 1..n : c \in Elements(nodes[i])
        BY <2>3
      <3> QED
        BY <2>2, <3>1
    <2>5. /\ IsSequence(FlattenSeq(nodes) \o <<e>>)
          /\ Elements(FlattenSeq(nodes) \o <<e>>) = Elements(FlattenSeq(nodes)) \union {e}
      BY <2>3, Joined, Single
    <2> QED
      BY <1>2, <2>1, <2>4, <2>5 DEF WayCall
  <1> QED
    BY <1>1, <1>2

LEMMA WayCallsFacts ==
  ASSUME TypeInv, NEW k \in 1..Len(file), file[k].type = "way", NEW ip \in interpolations(file[k])
  PROVE  LET line == locations(file[k], index) IN
         /\ IsSequence(WayCalls(file[k], line, ip))
         /\ \A c \in Elements(WayCalls(file[k], line, ip)) :
               is_way_with_nonzero_length(line) /\ WayCall(c, file[k], line, ip)
         /\ is_way_with_nonzero_length(line) =>
               Elements(centroid_calls(file[k], line)) \subseteq Elements(WayCalls(file[k], line, ip))
  <1> DEFINE way == file[k]
             line == locations(way, index)
             A == feed_interpolation(way, line, ip)
             B == feed_addrx(way)
             C == feed_ways_with_addresses(way, line)
             D == feed_postal_code(way)
             E == centroid_calls(way, line)
  <1>1. CASE ~is_way_with_nonzero_length(line)
    BY <1>1, None DEF WayCalls, When
  <1>2. CASE is_way_with_nonzero_length(line)
    <2>1. file \in InputFiles /\ TablesTyped
      BY DEF TypeInv, PassTyped
    <2>2. way.refs[1] \in NodeIds /\ way.refs[Len(way.refs)] \in NodeIds
      BY <1>2, <2>1, LineFacts
    <2>3. WayCalls(way, line, ip) = A \o B \o C \o D \o E
      BY <1>2 DEF WayCalls, When
    <2> HIDE DEF line
    <2>4. IsSequence(A) /\ \A c \in Elements(A) : WayCall(c, way, line, ip)
      BY <2>2, FeedInterpolationFacts
    <2>5. IsSequence(B) /\ \A c \in Elements(B) : WayCall(c, way, line, ip)
      <3> DEFINE e == call("addrx_on_nonclosed_way", way_row(way))
      <3>1. B = <<>> \/ B = <<e>>
        BY DEF feed_addrx, When
      <3>2. \A c \in Elements(B) : c = e
        BY <3>1, Single, None
      <3> QED
        BY <3>1, <3>2, Single, None DEF WayCall
    <2>6. IsSequence(C) /\ \A c \in Elements(C) : WayCall(c, way, line, ip)
      <3> DEFINE e == call("ways_with_addresses", [way_id |-> way.id, tags |-> AltTagList(way)])
      <3>1. C = <<>> \/ C = <<e>>
        BY DEF feed_ways_with_addresses, When
      <3>2. \A c \in Elements(C) : c = e
        BY <3>1, Single, None
      <3> QED
        BY <3>1, <3>2, Single, None DEF WayCall
    <2>7. IsSequence(D) /\ \A c \in Elements(D) : WayCall(c, way, line, ip)
      <3> DEFINE e == call("ways_with_postal_code", way_row(way))
      <3>1. D = <<>> \/ D = <<e>>
        BY DEF feed_postal_code, When
      <3>2. \A c \in Elements(D) : c = e
        BY <3>1, Single, None
      <3> QED
        BY <3>1, <3>2, Single, None DEF WayCall
    <2>8. IsSequence(E) /\ \A c \in Elements(E) : WayCall(c, way, line, ip)
      BY <2>1, CentroidCallsFacts
    <2> HIDE DEF A, B, C, D, E
    <2>9. /\ IsSequence(A \o B \o C \o D \o E)
          /\ Elements(A \o B \o C \o D \o E) =
                Elements(A) \union Elements(B) \union Elements(C) \union Elements(D) \union Elements(E)
      <3>1. IsSequence(A \o B) /\ Elements(A \o B) = Elements(A) \union Elements(B)
        BY <2>4, <2>5, Joined
      <3>2. /\ IsSequence(A \o B \o C)
            /\ Elements(A \o B \o C) = Elements(A \o B) \union Elements(C)
        BY <3>1, <2>6, Joined
      <3>3. /\ IsSequence(A \o B \o C \o D)
            /\ Elements(A \o B \o C \o D) = Elements(A \o B \o C) \union Elements(D)
        BY <3>2, <2>7, Joined
      <3>4. /\ IsSequence(A \o B \o C \o D \o E)
            /\ Elements(A \o B \o C \o D \o E) = Elements(A \o B \o C \o D) \union Elements(E)
        BY <3>3, <2>8, Joined
      <3> QED
        BY <3>1, <3>2, <3>3, <3>4
    <2>10. \A c \in Elements(A \o B \o C \o D \o E) : WayCall(c, way, line, ip)
      BY <2>4, <2>5, <2>6, <2>7, <2>8, <2>9
    <2>11. Elements(centroid_calls(way, line)) \subseteq Elements(WayCalls(way, line, ip))
      BY <2>3, <2>9 DEF E
    <2> QED
      BY <1>2, <2>3, <2>9, <2>10, <2>11 DEF line
  <1> QED
    BY <1>1, <1>2

-----------------------------------------------------------------------------
(* What a layer has been fed, wherever the commits are                     *)
Fed == [l \in Layer |-> fed(l)]

LEMMA CommitFeeds ==
  ASSUME LayersTyped, NEW l \in Layer, NEW added, IsSequence(added), CommitTransaction(l, added)
  PROVE  /\ DOMAIN disk' = Layer /\ DOMAIN txn' = Layer
         /\ \A k \in Layer : IsSequence(disk'[k]) /\ IsSequence(txn'[k])
         /\ Fed' = [Fed EXCEPT ![l] = disk[l] \o added]
  <1>1. /\ DOMAIN disk = Layer /\ DOMAIN txn = Layer
        /\ \A k \in Layer : IsSequence(disk[k]) /\ IsSequence(txn[k])
    BY DEF LayersTyped
  <1>2. IsSequence(disk[l] \o added) /\ (disk[l] \o added) \o <<>> = disk[l] \o added
    <2>1. IsSequence(disk[l] \o added)
      BY <1>1, Joined
    <2> QED
      BY <2>1, ConcatEmptySeq DEF IsSequence
  <1>3. CASE disk' = [disk EXCEPT ![l] = @ \o added] /\ txn' = [txn EXCEPT ![l] = <<>>]
    <2>1. /\ disk'[l] = disk[l] \o added /\ txn'[l] = <<>>
          /\ \A k \in Layer \ {l} : disk'[k] = disk[k] /\ txn'[k] = txn[k]
          /\ DOMAIN disk' = Layer /\ DOMAIN txn' = Layer
      BY <1>1, <1>3
    <2>2. Fed' = [Fed EXCEPT ![l] = disk[l] \o added]
      BY <1>2, <2>1 DEF Fed, fed
    <2> QED
      BY <1>1, <1>2, <2>1, <2>2, None
  <1>4. CASE disk' = disk /\ txn' = [txn EXCEPT ![l] = added]
    <2>1. /\ txn'[l] = added /\ disk' = disk
          /\ \A k \in Layer \ {l} : txn'[k] = txn[k]
          /\ DOMAIN txn' = Layer
      BY <1>1, <1>4
    <2>2. Fed' = [Fed EXCEPT ![l] = disk[l] \o added]
      BY <2>1 DEF Fed, fed
    <2> QED
      BY <1>1, <2>1, <2>2
  <1> QED
    BY <1>3, <1>4 DEF CommitTransaction

LEMMA CreateFeeds ==
  ASSUME LayersTyped, NEW l \in Layer, NEW r, create_feature(l, r)
  PROVE  LayersTyped' /\ Fed' = [Fed EXCEPT ![l] = Append(@, r)]
  <1>1. /\ DOMAIN disk = Layer /\ DOMAIN txn = Layer /\ DOMAIN num_features = Layer
        /\ \A k \in Layer : /\ IsSequence(disk[k]) /\ IsSequence(txn[k])
                            /\ num_features[k] \in 0..CommitLimit
    BY DEF LayersTyped
  <1>2. /\ IsSequence(Append(txn[l], r)) /\ Append(txn[l], r) = txn[l] \o <<r>>
        /\ IsSequence(<<r>>)
    BY <1>1, Appended, Single
  <1>3. disk[l] \o Append(txn[l], r) = Append(Fed[l], r)
    <2> DEFINE S == Elements(disk[l]) \union Elements(txn[l]) \union {r}
               d == disk[l]
               t == txn[l]
    <2>1. d \in Seq(S) /\ t \in Seq(S) /\ r \in S
      BY <1>1, Widened
    <2>2. Fed[l] = d \o t
      BY DEF Fed, fed
    <2> HIDE DEF S, d, t
    <2>3. d \o t \in Seq(S)
      BY <2>1, ConcatProperties
    <2>4. d \o Append(t, r) = Append(d \o t, r)
      BY <2>1, <2>3, AppendIsConcat, ConcatAssociative
    <2> QED
      BY <2>2, <2>4 DEF d, t
  <1>4. /\ constructed' = constructed /\ destroyed' = destroyed /\ exit' = exit
        /\ constructed \in 0..11 /\ destroyed \in 0..11 /\ exit \in {"none"} \union Endings
    BY DEF create_feature, LayersTyped
  <1>5. CASE num_features[l] + 1 > CommitLimit
    <2>1. /\ CommitTransaction(l, Append(txn[l], r))
          /\ num_features' = [num_features EXCEPT ![l] = 0]
      BY <1>5 DEF create_feature
    <2>2. /\ DOMAIN disk' = Layer /\ DOMAIN txn' = Layer
          /\ \A k \in Layer : IsSequence(disk'[k]) /\ IsSequence(txn'[k])
          /\ Fed' = [Fed EXCEPT ![l] = Append(@, r)]
      <3>1. Fed' = [Fed EXCEPT ![l] = disk[l] \o Append(txn[l], r)]
        BY <1>2, <2>1, CommitFeeds
      <3> QED
        BY <1>2, <1>3, <2>1, <3>1, CommitFeeds
    <2>3. /\ DOMAIN num_features' = Layer
          /\ \A k \in Layer : num_features'[k] \in 0..CommitLimit
      BY <1>1, <2>1, SizesAssumption
    <2> QED
      BY <1>4, <2>2, <2>3 DEF LayersTyped
  <1>6. CASE ~(num_features[l] + 1 > CommitLimit)
    <2>1. /\ txn' = [txn EXCEPT ![l] = Append(@, r)] /\ disk' = disk
          /\ num_features' = [num_features EXCEPT ![l] = @ + 1]
      BY <1>6 DEF create_feature
    <2>2. /\ txn'[l] = Append(txn[l], r) /\ DOMAIN txn' = Layer
          /\ \A k \in Layer \ {l} : txn'[k] = txn[k]
      BY <1>1, <2>1
    <2>3. Fed' = [Fed EXCEPT ![l] = Append(@, r)]
      BY <1>3, <2>1, <2>2 DEF Fed, fed
    <2>4. /\ DOMAIN num_features' = Layer
          /\ \A k \in Layer : num_features'[k] \in 0..CommitLimit
      BY <1>1, <1>6, <2>1, SizesAssumption
    <2> QED
      BY <1>1, <1>2, <1>4, <2>1, <2>2, <2>3, <2>4 DEF LayersTyped
  <1> QED
    BY <1>5, <1>6

LEMMA DestroyFeeds ==
  ASSUME LayersTyped, destroy_writer
  PROVE  LayersTyped' /\ Fed' = Fed
  <1> DEFINE l == LayerOrder[Len(LayerOrder) - destroyed]
  <1>1. /\ destroyed \in 0..11 /\ destroyed < 11 /\ Len(LayerOrder) = 11
        /\ destroyed' = destroyed + 1
        /\ exit' = IF destroyed' = 11 THEN "exit0" ELSE exit
        /\ num_features' = num_features /\ constructed' = constructed
    BY LayerFacts DEF destroy_writer, LayersTyped
  <1>2. l \in Layer /\ CommitTransaction(l, txn[l]) /\ IsSequence(txn[l])
    <2>1. 11 - destroyed \in 1..11
      BY <1>1
    <2> QED
      BY <1>1, <2>1, LayerFacts DEF destroy_writer, LayersTyped
  <1> HIDE DEF l
  <1>3. /\ DOMAIN disk' = Layer /\ DOMAIN txn' = Layer
        /\ \A k \in Layer : IsSequence(disk'[k]) /\ IsSequence(txn'[k])
        /\ Fed' = [Fed EXCEPT ![l] = disk[l] \o txn[l]]
    BY <1>2, CommitFeeds
  <1>4. Fed' = Fed
    BY <1>2, <1>3 DEF Fed, fed
  <1>5. destroyed' \in 0..11 /\ exit' \in {"none"} \union Endings
    BY <1>1 DEF LayersTyped, Endings
  <1> QED
    BY <1>1, <1>3, <1>4, <1>5 DEF LayersTyped

-----------------------------------------------------------------------------
(* The kinds of steps: an object is read, the next feature is delivered or *)
(* left out, or only the layers' bookkeeping changes.                      *)
WrittenBefore(c) == c.layer \in DOMAIN written_ways /\ c.row.way_id \in written_ways[c.layer]
Noted(c) == IF c.layer \in DOMAIN written_ways
            THEN [written_ways EXCEPT ![c.layer] = @ \union {c.row.way_id}]
            ELSE written_ways

Deliver ==
    /\ calls # <<>> /\ calls' = Tail(calls)
    /\ IF WrittenBefore(Head(calls))
       THEN Fed' = Fed /\ written_ways' = written_ways
       ELSE /\ Fed' = [Fed EXCEPT ![Head(calls).layer] = Append(@, Head(calls).row)]
            /\ written_ways' = Noted(Head(calls))
    /\ UNCHANGED <<file, pass, pos, index, first_vars, addr_interpolation_node_map, table_size>>

Quiet == UNCHANGED <<file, pass, pos, index, first_vars, second_vars>>

Read == apply_first_node \/ apply_first_way \/ next_pass \/ apply_second_node \/ apply_second_way

LEMMA StepKinds ==
  ASSUME TypeInv, [Next]_vars
  PROVE  LayersTyped' /\ (Deliver \/ (Fed' = Fed /\ (Read \/ Quiet)))
  <1>0. LayersTyped
    BY DEF TypeInv
  <1>1. ASSUME UNCHANGED <<disk, txn>> PROVE Fed' = Fed
    BY <1>1 DEF Fed, fed
  <1>2. ASSUME UNCHANGED layer_vars PROVE LayersTyped' /\ Fed' = Fed
    BY <1>0, <1>1, <1>2 DEF layer_vars, LayersTyped
  <1>3. ASSUME UNCHANGED <<disk, txn, num_features, destroyed>>,
               constructed' \in 0..11, exit' \in {"none"} \union Endings
        PROVE  LayersTyped' /\ Fed' = Fed
    BY <1>0, <1>1, <1>3 DEF LayersTyped
  <1>4. CASE Read
    <2>1. UNCHANGED layer_vars
      BY <1>4 DEF Read, apply_first_node, apply_first_way, next_pass, apply_second_node, apply_second_way
    <2> QED
      BY <1>2, <1>4, <2>1
  <1>5. CASE construct
    <2>1. /\ UNCHANGED <<disk, txn, num_features, destroyed, exit>>
          /\ constructed < 11 /\ constructed' = constructed + 1
      BY <1>5, LayerFacts DEF construct, open_layer
    <2>2. constructed' \in 0..11 /\ exit' \in {"none"} \union Endings
      BY <1>0, <2>1 DEF LayersTyped
    <2> QED
      BY <1>3, <1>5, <2>1, <2>2 DEF construct, Quiet
  <1>6. CASE construct_fails \/ write_fails \/ handler_throws \/ killed
    <2>1. /\ UNCHANGED <<disk, txn, num_features, constructed, destroyed>>
          /\ exit' \in Endings
      BY <1>6 DEF construct_fails, open_layer_fails, write_fails, create_feature_fails,
                  handler_throws, killed, die, Endings
    <2>2. constructed' \in 0..11
      BY <1>0, <2>1 DEF LayersTyped
    <2> QED
      BY <1>3, <1>6, <2>1, <2>2 DEF construct_fails, write_fails, handler_throws, killed, Quiet
  <1>7. CASE return_from_main
    BY <1>0, <1>7, DestroyFeeds DEF return_from_main, Quiet
  <1>8. CASE write_feature
    <2> DEFINE c == Head(calls)
    <2>1. /\ calls # <<>> /\ calls' = Tail(calls)
          /\ UNCHANGED <<file, pass, pos, index, first_vars, addr_interpolation_node_map, table_size>>
          /\ \/ WrittenBefore(c) /\ UNCHANGED <<written_ways, layer_vars>>
             \/ ~WrittenBefore(c) /\ create_feature(c.layer, c.row) /\ written_ways' = Noted(c)
      BY <1>8 DEF write_feature, write_next, WrittenBefore, Noted
    <2>2. CASE WrittenBefore(c) /\ UNCHANGED <<written_ways, layer_vars>>
      BY <1>2, <2>1, <2>2 DEF Deliver
    <2>3. CASE ~WrittenBefore(c) /\ create_feature(c.layer, c.row) /\ written_ways' = Noted(c)
      <3>1. c.layer \in Layer
        BY <2>1, Shifted DEF TypeInv, CallsTyped
      <3>2. LayersTyped' /\ Fed' = [Fed EXCEPT ![c.layer] = Append(@, c.row)]
        BY <1>0, <2>3, <3>1, CreateFeeds
      <3> QED
        BY <2>1, <2>3, <3>2 DEF Deliver
    <2> QED
      BY <2>1, <2>2, <2>3
  <1>9. CASE UNCHANGED vars
    BY <1>2, <1>9 DEF vars, Quiet
  <1> QED
    BY <1>4, <1>5, <1>6, <1>7, <1>8, <1>9 DEF Next, Program, Failure, Read

-----------------------------------------------------------------------------
(* The two readings of an id                                               *)
LEMMA UnsignedFacts ==
  ASSUME NEW id \in NodeIds
  PROVE  /\ id \in Int /\ unsigned(id) \in Int
         /\ unsigned(id) >= 0 /\ unsigned(id) < IdSize
         /\ id >= 0 => unsigned(id) = id
         /\ \A other \in NodeIds : unsigned(other) = unsigned(id) => other = id
  BY IdsAssumption DEF unsigned

LEMMA InsertFacts ==
  ASSUME NEW m, IsMultimap(m), NEW names, NEW entry
  PROVE  /\ IsMultimap(Insert(m, names, entry))
         /\ \A n \in Names : Elements(Insert(m, names, entry)[n]) =
                             Elements(m[n]) \union (IF n \in names THEN {entry} ELSE {})
  <1>1. ASSUME NEW n \in Names
        PROVE  /\ IsSequence(Insert(m, names, entry)[n])
               /\ Elements(Insert(m, names, entry)[n]) =
                     Elements(m[n]) \union (IF n \in names THEN {entry} ELSE {})
    <2>1. IsSequence(m[n])
      BY DEF IsMultimap
    <2>2. CASE n \in names
      <3>1. Insert(m, names, entry)[n] = Append(m[n], entry)
        BY <2>2 DEF Insert
      <3> QED
        BY <2>1, <2>2, <3>1, Appended
    <2>3. CASE n \notin names
      <3>1. Insert(m, names, entry)[n] = m[n]
        BY <2>3 DEF Insert
      <3> QED
        BY <2>1, <2>3, <3>1
    <2> QED
      BY <2>2, <2>3
  <1> QED
    BY <1>1 DEF IsMultimap, Insert

LEMMA TypeInit == Init => TypeInv
  <1> SUFFICES ASSUME Init PROVE TypeInv
    OBVIOUS
  <1>1. Len(file) \in Nat
    BY FileFacts DEF Init
  <1>2. PassTyped
    BY <1>1 DEF Init, PassTyped
  <1>3. TablesTyped
    BY None DEF Init, FirstInit, TablesTyped, IsMultimap
  <1>4. NodesTyped
    BY SizesAssumption DEF Init, FirstInit, SecondInit, NodesTyped, KeptTags
  <1>5. CallsTyped
    BY None DEF Init, SecondInit, CallsTyped
  <1>6. LayersTyped
    BY None, SizesAssumption DEF Init, SecondInit, WriterInit, LayersTyped
  <1> QED
    BY <1>2, <1>3, <1>4, <1>5, <1>6 DEF TypeInv

LEMMA TypeStep ==
  ASSUME TypeInv, [Next]_vars
  PROVE  TypeInv'
  <1>0. /\ PassTyped /\ TablesTyped /\ NodesTyped /\ CallsTyped /\ LayersTyped'
        /\ file \in InputFiles /\ Len(file) \in Nat
        /\ (Deliver \/ (Fed' = Fed /\ (Read \/ Quiet)))
    BY StepKinds, FileFacts DEF TypeInv, PassTyped
  <1>1. CASE apply_first_node
    <2>1. /\ file' = file /\ pass' = pass /\ pos \in 1..Len(file) /\ pos' = pos + 1
          /\ UNCHANGED second_vars
          /\ first_node(file[pos]) /\ location_handler(file[pos])
      BY <1>0, <1>1 DEF apply_first_node, Next_object, PassTyped
    <2>2. PassTyped'
      BY <1>0, <2>1 DEF PassTyped, location_handler
    <2>3. TablesTyped'
      BY <1>0, <2>1, InsertFacts DEF first_node, TablesTyped
    <2>4. NodesTyped' /\ CallsTyped'
      BY <1>0, <2>1 DEF second_vars, first_node, NodesTyped, CallsTyped, KeptTags
    <2> QED
      BY <1>0, <2>2, <2>3, <2>4 DEF TypeInv
  <1>2. CASE apply_first_way
    <2> DEFINE way == file[pos]
    <2>1. /\ file' = file /\ pass' = pass /\ pos \in 1..Len(file) /\ pos' = pos + 1
          /\ UNCHANGED second_vars /\ index' = index
          /\ file[pos].type = "way" /\ first_way(way, index)
      BY <1>0, <1>2 DEF apply_first_way, Next_object, PassTyped
    <2>2. PassTyped'
      BY <1>0, <2>1 DEF PassTyped
    <2>3. TablesTyped'
      BY <1>0, <2>1, InsertFacts DEF first_way, save_highway, save_place, TablesTyped
    <2>4. addr_interpolation_node_set' \subseteq UnsignedIds
      <3>1. \A k \in 1..Len(way.refs) : way.refs[k] \in NodeIds
        BY <1>0, <2>1, FileFacts
      <3>2. Len(way.refs) \in Nat
        BY <1>0, <2>1, FileFacts
      <3>3. Len(way.refs) >= 2 => way.refs[1] \in NodeIds /\ way.refs[Len(way.refs)] \in NodeIds
        BY <3>1, <3>2
      <3> QED
        BY <1>0, <2>1, <3>3 DEF first_way, save_interpolation_ends, NodesTyped,
                                UnsignedIds, first_node_id, last_node_id
    <2>5. NodesTyped' /\ CallsTyped'
      BY <1>0, <2>1, <2>4 DEF second_vars, NodesTyped, CallsTyped, KeptTags
    <2> QED
      BY <1>0, <2>2, <2>3, <2>5 DEF TypeInv
  <1>3. CASE next_pass
    <2>1. /\ file' = file /\ pass' = "second" /\ pos' = 1 /\ index' = index
          /\ UNCHANGED <<first_vars, second_vars>>
      BY <1>3 DEF next_pass
    <2> QED
      BY <1>0, <2>1 DEF TypeInv, PassTyped, TablesTyped, NodesTyped, CallsTyped, KeptTags,
                       first_vars, second_vars
  <1>4. CASE apply_second_node
    <2> DEFINE node == file[pos]
    <2>1. /\ file' = file /\ pass' = pass /\ pos \in 1..Len(file) /\ pos' = pos + 1
          /\ UNCHANGED first_vars /\ written_ways' = written_ways
          /\ file[pos].type = "node" /\ location_handler(node) /\ second_node(node)
          /\ calls' = NodeCalls(node)
      BY <1>0, <1>4 DEF apply_second_node, Next_object, Second_object, PassTyped, second_node
    <2>2. PassTyped' /\ TablesTyped'
      BY <1>0, <2>1 DEF PassTyped, location_handler, first_vars, TablesTyped
    <2>3. CallsTyped'
      <3>1. IsSequence(calls') /\ \A c \in Elements(calls') : NodeCall(c, node)
        BY <1>0, <2>1, NodeCallsFacts
      <3>2. \A c : NodeCall(c, node) => c.layer \in Layer
        BY LayerFacts DEF NodeCall, StreetCall, OnWayCall, PlaceCall, call, write_line, address, LayerNames
      <3> QED
        BY <1>0, <2>1, <3>1, <3>2 DEF CallsTyped
    <2>4. NodesTyped'
      <3>1. AltTagList(node) \in KeptTags /\ KeptTags' = KeptTags
        BY <1>0, <2>1, FileFacts DEF KeptTags
      <3>2. node.id \in NodeIds
        BY <1>0, <2>1, FileFacts
      <3>3. table_size' \in Int
        <4>1. resized(unsigned(node.id)) \in Int
          BY <1>0, <3>2, UnsignedFacts, IdsAssumption, SizesAssumption DEF NodesTyped, resized
        <4> QED
          BY <1>0, <2>1, <4>1 DEF second_node, NodesTyped, Overrun
      <3>4. /\ DOMAIN addr_interpolation_node_map' = NodeIds
            /\ \A id \in NodeIds : addr_interpolation_node_map'[id] \in KeptTags
        BY <1>0, <2>1, <3>1 DEF second_node, NodesTyped
      <3> QED
        BY <1>0, <2>1, <3>1, <3>3, <3>4 DEF NodesTyped, first_vars
    <2> QED
      BY <1>0, <2>2, <2>3, <2>4 DEF TypeInv
  <1>5. CASE apply_second_way
    <2> DEFINE way == file[pos]
               line == locations(way, index)
    <2>1. /\ file' = file /\ pass' = pass /\ pos \in 1..Len(file) /\ pos' = pos + 1
          /\ index' = index /\ UNCHANGED first_vars /\ written_ways' = written_ways
          /\ UNCHANGED <<addr_interpolation_node_map, table_size>>
          /\ file[pos].type = "way"
          /\ \E ip \in interpolations(way) : calls' = WayCalls(way, line, ip)
      BY <1>0, <1>5 DEF apply_second_way, Next_object, Second_object, PassTyped, second_way
    <2>2. PassTyped' /\ TablesTyped'
      BY <1>0, <2>1 DEF PassTyped, first_vars, TablesTyped
    <2>3. NodesTyped'
      BY <1>0, <2>1 DEF NodesTyped, first_vars, KeptTags
    <2>4. CallsTyped'
      <3>1. PICK ip \in interpolations(way) : calls' = WayCalls(way, line, ip)
        BY <2>1
      <3>2. IsSequence(calls') /\ \A c \in Elements(calls') : WayCall(c, way, line, ip)
        BY <2>1, <3>1, WayCallsFacts
      <3>3. \A c : WayCall(c, way, line, ip) => c.layer \in Layer
        BY LayerFacts DEF WayCall, StreetCall, OnWayCall, PlaceCall, IpRow, address_of_interpolation,
                          call, write_line, address, LayerNames
      <3> QED
        BY <1>0, <2>1, <3>2, <3>3 DEF CallsTyped
    <2> QED
      BY <1>0, <2>2, <2>3, <2>4 DEF TypeInv
  <1>6. CASE Deliver
    <2>1. PassTyped' /\ TablesTyped' /\ NodesTyped'
      BY <1>0, <1>6 DEF Deliver, PassTyped, TablesTyped, NodesTyped, KeptTags, first_vars
    <2>2. CallsTyped'
      <3>1. IsSequence(calls') /\ Elements(calls') \subseteq Elements(calls)
        BY <1>0, <1>6, Shifted DEF Deliver, CallsTyped
      <3>2. DOMAIN written_ways' = DOMAIN written_ways
        BY <1>6 DEF Deliver, Noted
      <3> QED
        BY <1>0, <3>1, <3>2 DEF CallsTyped
    <2> QED
      BY <1>0, <2>1, <2>2 DEF TypeInv
  <1>7. CASE Quiet
    BY <1>0, <1>7 DEF Quiet, TypeInv, PassTyped, TablesTyped, NodesTyped, CallsTyped, KeptTags,
                     first_vars, second_vars
  <1> QED
    BY <1>0, <1>1, <1>2, <1>3, <1>4, <1>5, <1>6, <1>7 DEF Read

(* TypeInv is kept by every step; the types that the runs check are a part *)
(* of it.                                                                  *)
LEMMA TypeInvariant == Spec => []TypeInv
  BY TypeInit, TypeStep, PTL DEF Spec

LEMMA TypesAreOK == TypeInv => OsmiTypeOK
  <1> SUFFICES ASSUME TypeInv PROVE OsmiTypeOK
    OBVIOUS
  <1>1. \A i \in DOMAIN calls : calls[i].layer \in Layer
    BY DEF TypeInv, CallsTyped, Elements
  <1> QED
    BY <1>1 DEF TypeInv, PassTyped, NodesTyped, LayersTyped, OsmiTypeOK

(* Every variable of the program keeps its type, for every input file: the *)
(* handlers stay within the tables, and the counters of the layers within  *)
(* the commit limit.                                                       *)
THEOREM ProgramTypes == Spec => []OsmiTypeOK
  BY TypeInvariant, TypesAreOK, PTL

-----------------------------------------------------------------------------
(* What a delivery does to the calls and to what the layers have been fed  *)
LEMMA FedFacts ==
  ASSUME LayersTyped, NEW l \in Layer
  PROVE  /\ Fed[l] = fed(l) /\ IsSequence(Fed[l])
         /\ DOMAIN Fed[l] = 1..Len(Fed[l]) /\ Len(Fed[l]) \in Nat
         /\ Elements(Fed[l]) = rows(l)
  <1>1. Fed[l] = fed(l) /\ IsSequence(fed(l))
    BY Joined DEF LayersTyped, Fed, fed
  <1> QED
    BY <1>1, SequenceFacts DEF Elements, rows

LEMMA DeliverFacts ==
  ASSUME TypeInv, Deliver
  PROVE  /\ Head(calls) \in Elements(calls) /\ Head(calls).layer \in Layer
         /\ Elements(calls') \subseteq Elements(calls)
         /\ Elements(calls) = {Head(calls)} \union Elements(calls')
         /\ WrittenBefore(Head(calls)) => Fed' = Fed
         /\ ~WrittenBefore(Head(calls)) =>
               /\ Fed'[Head(calls).layer] = Append(Fed[Head(calls).layer], Head(calls).row)
               /\ Elements(Fed'[Head(calls).layer]) =
                     Elements(Fed[Head(calls).layer]) \union {Head(calls).row}
         /\ \A l \in Layer \ {Head(calls).layer} : Fed'[l] = Fed[l]
  <1> DEFINE c == Head(calls)
  <1>1. IsSequence(calls) /\ calls # <<>> /\ calls' = Tail(calls)
    BY DEF TypeInv, CallsTyped, Deliver
  <1>2. Elements(calls) = {c} \union Elements(calls')
    BY <1>1, Shifted
  <1>3. c \in Elements(calls) /\ c.layer \in Layer
    BY <1>2 DEF TypeInv, CallsTyped
  <1> HIDE DEF c
  <1>4. IsSequence(Fed[c.layer])
    BY <1>3, FedFacts DEF TypeInv
  <1>5. DOMAIN Fed = Layer
    BY DEF Fed
  <1>6. CASE WrittenBefore(c)
    <2>1. Fed' = Fed
      BY <1>6 DEF Deliver, c
    <2> QED
      BY <1>2, <1>3, <1>6, <2>1 DEF c
  <1>7. CASE ~WrittenBefore(c)
    <2>1. Fed' = [Fed EXCEPT ![c.layer] = Append(@, c.row)]
      BY <1>7 DEF Deliver, c
    <2>2. Fed'[c.layer] = Append(Fed[c.layer], c.row)
      BY <1>3, <1>5, <2>1
    <2>3. Elements(Fed'[c.layer]) = Elements(Fed[c.layer]) \union {c.row}
      BY <1>4, <2>2, Appended
    <2>4. \A l \in Layer \ {c.layer} : Fed'[l] = Fed[l]
      BY <1>5, <2>1
    <2> QED
      BY <1>2, <1>3, <1>7, <2>2, <2>3, <2>4 DEF c
  <1> QED
    BY <1>6, <1>7

LEMMA FedInit == Init => /\ \A l \in Layer : Fed[l] = <<>> /\ rows(l) = {}
                         /\ Elements(calls) = {} /\ DOMAIN calls = {}
  <1> SUFFICES ASSUME Init PROVE /\ \A l \in Layer : Fed[l] = <<>> /\ rows(l) = {}
                                 /\ Elements(calls) = {} /\ DOMAIN calls = {}
    OBVIOUS
  <1>1. \A l \in Layer : fed(l) = <<>>
    BY ConcatEmptySeq, EmptySeq DEF Init, SecondInit, WriterInit, fed
  <1>2. \A l \in Layer : rows(l) = Elements(fed(l))
    BY DEF rows, Elements
  <1>3. calls = <<>>
    BY DEF Init, SecondInit
  <1> QED
    BY <1>1, <1>2, <1>3, None DEF Fed

(* A delivery moves an element from the calls to its layer.                *)
LEMMA DeliverCounts ==
  ASSUME TypeInv, Deliver, NEW l \in Layer \ {"nearest_roads", "nearest_areas"}, NEW R, NEW C,
         \A c \in Elements(calls) : c \in C <=> c.layer = l /\ c.row \in R
  PROVE  /\ Count(Fed'[l], R) + Count(calls', C) = Count(Fed[l], R) + Count(calls, C)
         /\ Count(Fed'[l], R) \in Nat
  <1> DEFINE c == Head(calls)
             n == IF c \in C THEN 1 ELSE 0
  <1>1. /\ calls \in Seq(Elements(calls)) /\ calls # <<>> /\ calls' = Tail(calls)
        /\ c \in Elements(calls) /\ c.layer \in Layer
        /\ DOMAIN written_ways = {"nearest_roads", "nearest_areas"}
    BY DeliverFacts, SequenceFacts DEF Deliver, TypeInv, CallsTyped
  <1>2. Count(calls, C) = n + Count(calls', C) /\ Count(calls', C) \in Nat
    <2>1. calls' \in Seq(Elements(calls))
      BY <1>1, HeadOnTail
    <2> QED
      BY <1>1, <2>1, CountTail, CountType
  <1>3. IsSequence(Fed[l]) /\ Fed[l] \in Seq(Elements(Fed[l]) \union {c.row})
    BY FedFacts, Widened DEF TypeInv
  <1>4. Count(Fed[l], R) \in Nat
    BY <1>3, CountType
  <1>5. Count(Fed'[l], R) = Count(Fed[l], R) + n
    <2>1. CASE c.layer = l
      <3>1. Fed'[l] = Append(Fed[l], c.row)
        BY <1>1, <2>1, DeliverFacts DEF WrittenBefore
      <3>2. c \in C <=> c.row \in R
        BY <1>1, <2>1
      <3>3. Count(Append(Fed[l], c.row), R) = Count(Fed[l], R) + (IF c.row \in R THEN 1 ELSE 0)
        BY <1>3, CountAppend
      <3> QED
        BY <3>1, <3>2, <3>3
    <2>2. CASE c.layer # l
      <3>1. Fed'[l] = Fed[l] /\ c \notin C
        BY <1>1, <2>2, DeliverFacts
      <3> QED
        BY <1>4, <3>1
    <2> QED
      BY <2>1, <2>2
  <1> HIDE DEF c
  <1>6. n \in Nat
    OBVIOUS
  <1> HIDE DEF n
  <1> QED
    BY <1>2, <1>4, <1>5, <1>6

(* What a layer has been fed and what it has still to be fed               *)
AllOf(l) == Elements(Fed[l]) \union {c.row : c \in {c \in Elements(calls) : c.layer = l}}

LEMMA DeliverKeeps ==
  ASSUME TypeInv, Deliver, NEW l \in Layer \ {"nearest_roads", "nearest_areas"}
  PROVE  AllOf(l)' = AllOf(l)
  <1> DEFINE c == Head(calls)
             A == {d.row : d \in {d \in Elements(calls) : d.layer = l}}
             B == {d.row : d \in {d \in Elements(calls') : d.layer = l}}
  <1>1. /\ Elements(calls) = {c} \union Elements(calls')
        /\ DOMAIN written_ways = {"nearest_roads", "nearest_areas"}
        /\ AllOf(l) = Elements(Fed[l]) \union A
        /\ AllOf(l)' = Elements(Fed'[l]) \union B
    BY DeliverFacts DEF TypeInv, CallsTyped, AllOf
  <1>2. CASE c.layer = l
    <2>1. Elements(Fed'[l]) = Elements(Fed[l]) \union {c.row}
      BY <1>1, <1>2, DeliverFacts DEF WrittenBefore
    <2>2. A = B \union {c.row}
      BY <1>1, <1>2
    <2> HIDE DEF A, B, c
    <2> QED
      BY <1>1, <2>1, <2>2
  <1>3. CASE c.layer # l
    <2>1. Fed'[l] = Fed[l]
      BY <1>3, DeliverFacts
    <2>2. A = B
      BY <1>1, <1>3
    <2> HIDE DEF A, B, c
    <2> QED
      BY <1>1, <2>1, <2>2
  <1> QED
    BY <1>2, <1>3
=============================================================================
