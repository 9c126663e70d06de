--------------------------- MODULE OsmiFileProofs ---------------------------
(***************************************************************************)
(* Proofs about the program that need an order of the file: what the first *)
(* pass and the nodes before a way have left for it.                       *)
(***************************************************************************)
EXTENDS OsmiSteps, MapLayers

-----------------------------------------------------------------------------
(* The steps, as seen from the rows of the layers                          *)
SetLayer == Layer \ {"nearest_roads", "nearest_areas"}
NewRows(s, l) == {c.row : c \in {c \in Elements(s) : c.layer = l}}
Still == UNCHANGED <<file, pass, pos, index, first_vars, addr_interpolation_node_map, table_size>>
FirstRead == apply_first_node \/ apply_first_way \/ next_pass
SecondRead == apply_second_node \/ apply_second_way

LEMMA RowSteps ==
  ASSUME TypeInv, [Next]_vars
  PROVE  \/ (Still \/ FirstRead) /\ \A l \in SetLayer : AllOf(l)' = AllOf(l)
         \/ SecondRead /\ \A l \in SetLayer : AllOf(l)' = AllOf(l) \union NewRows(calls', l)
  <1>0. Deliver \/ (Fed' = Fed /\ (Read \/ Quiet))
    BY StepKinds
  <1>1. CASE Deliver
    <2>1. Still
      BY <1>1 DEF Deliver, Still
    <2>2. \A l \in SetLayer : AllOf(l)' = AllOf(l)
      BY <1>1, DeliverKeeps DEF SetLayer
    <2> QED
      BY <2>1, <2>2
  <1>2. CASE Fed' = Fed /\ (FirstRead \/ Quiet)
    <2>1. calls' = calls
      BY <1>2 DEF FirstRead, apply_first_node, apply_first_way, next_pass, Quiet, second_vars
    <2>2. \A l \in SetLayer : AllOf(l)' = AllOf(l)
      BY <1>2, <2>1 DEF AllOf
    <2> QED
      BY <1>2, <2>2 DEF Quiet, Still, second_vars
  <1>3. CASE Fed' = Fed /\ SecondRead
    <2>1. Elements(calls) = {}
      BY <1>3, None DEF SecondRead, apply_second_node, apply_second_way, Second_object,
                        Between_handlers
    <2>2. \A l \in SetLayer : AllOf(l)' = AllOf(l) \union NewRows(calls', l)
      BY <1>3, <2>1 DEF AllOf, NewRows
    <2> QED
      BY <1>3, <2>2
  <1> QED
    BY <1>0, <1>1, <1>2, <1>3 DEF Read, FirstRead, SecondRead

-----------------------------------------------------------------------------
(* An object of the file is its only one of this type and id.              *)
LEMMA OnlyNode ==
  ASSUME file \in InputFiles, NEW k \in 1..Len(file), file[k].type = "node"
  PROVE  /\ Nodes(file[k].id) = {file[k]}
         /\ (CHOOSE n \in Nodes(file[k].id) : TRUE) = file[k]
         /\ file[k].id >= 0 => TrueLoc(file[k].id) = file[k].loc
         /\ TrueTags[file[k].id] = AltTagList(file[k])
  <1>1. /\ DOMAIN file = 1..Len(file) /\ file[k].id \in NodeIds
        /\ \A i \in 1..Len(file) : file[i].type = "node" /\ file[i].id = file[k].id => i = k
    BY FileFacts
  <1>2. Nodes(file[k].id) = {file[k]}
    BY <1>1 DEF Nodes, NodesIn, Objects, ObjectsIn
  <1>3. (CHOOSE n \in {file[k]} : TRUE) = file[k]
    OBVIOUS
  <1> QED
    BY <1>1, <1>2, <1>3 DEF TrueLoc, LocIn, TrueTags, Nodes

LEMMA OnlyWay ==
  ASSUME file \in InputFiles, NEW k \in 1..Len(file), file[k].type = "way"
  PROVE  (CHOOSE w \in Objects("way") : w.id = file[k].id) = file[k]
  <1>1. /\ DOMAIN file = 1..Len(file)
        /\ \A i \in 1..Len(file) : file[i].type = "way" /\ file[i].id = file[k].id => i = k
    BY FileFacts
  <1>2. file[k] \in Objects("way") /\ \A w \in Objects("way") : w.id = file[k].id => w = file[k]
    BY <1>1 DEF Objects, ObjectsIn
  <1> QED
    BY <1>2

(* What the index holds: the locations of the nodes that have been passed. *)
Passed(k) == pass = "second" \/ k < pos
Seen(id) == \E k \in 1..Len(file) : Passed(k) /\ file[k].type = "node" /\ file[k].id = id
IndexInv == \A id \in NodeIds : index[id] = IF id >= 0 /\ Seen(id) THEN TrueLoc(id) ELSE Undefined

LEMMA IndexNode ==
  ASSUME TypeInv, IndexInv, NEW k \in 1..Len(file), file[k].type = "node", location_handler(file[k])
  PROVE  \A id \in NodeIds :
            index'[id] = IF id >= 0 /\ (Seen(id) \/ id = file[k].id) THEN TrueLoc(id) ELSE Undefined
  <1>1. /\ DOMAIN index = NodeIds /\ file \in InputFiles
        /\ file[k].id >= 0 => TrueLoc(file[k].id) = file[k].loc
    BY OnlyNode DEF TypeInv, PassTyped
  <1> SUFFICES ASSUME NEW id \in NodeIds
               PROVE  index'[id] = IF id >= 0 /\ (Seen(id) \/ id = file[k].id)
                                   THEN TrueLoc(id) ELSE Undefined
    OBVIOUS
  <1>2. index[id] = IF id >= 0 /\ Seen(id) THEN TrueLoc(id) ELSE Undefined
    BY DEF IndexInv
  <1>3. index'[id] = IF id = file[k].id /\ id >= 0 THEN file[k].loc ELSE index[id]
    BY <1>1 DEF location_handler
  <1> QED
    BY <1>1, <1>2, <1>3

LEMMA IndexStep ==
  ASSUME TypeInv, IndexInv, [Next]_vars
  PROVE  IndexInv'
  <1>0. /\ file \in InputFiles /\ DOMAIN file = 1..Len(file) /\ Len(file) \in Nat
        /\ pos \in 1..(Len(file) + 1) /\ pass \in {"first", "second"}
        /\ Still \/ FirstRead \/ SecondRead
    BY FileFacts, RowSteps DEF TypeInv, PassTyped
  <1>1. ASSUME file' = file, index' = index, \A id \in NodeIds : Seen(id)' <=> Seen(id)
        PROVE  IndexInv'
    <2>1. \A id \in NodeIds : TrueLoc(id)' = TrueLoc(id)
      BY <1>1 DEF TrueLoc, LocIn, Nodes, NodesIn, Objects, ObjectsIn
    <2> QED
      BY <1>1, <2>1 DEF IndexInv
  <1>2. ASSUME file' = file, pos \in 1..Len(file), file[pos].type = "node", pos' = pos + 1,
               pass' = pass, location_handler(file[pos])
        PROVE  IndexInv'
    <2>1. \A id \in NodeIds : Seen(id)' <=> Seen(id) \/ id = file[pos].id
      <3>1. \A k \in 1..Len(file) : Passed(k)' <=> Passed(k) \/ k = pos
        BY <1>0, <1>2 DEF Passed
      <3> QED
        BY <1>2, <3>1 DEF Seen
    <2>2. \A id \in NodeIds : TrueLoc(id)' = TrueLoc(id)
      BY <1>2 DEF TrueLoc, LocIn, Nodes, NodesIn, Objects, ObjectsIn
    <2> QED
      BY <1>2, <2>1, <2>2, IndexNode DEF IndexInv
  <1>3. ASSUME file' = file, pos \in 1..Len(file), file[pos].type = "way", pos' = pos + 1,
               pass' = pass, index' = index
        PROVE  IndexInv'
    <2>1. \A k \in 1..Len(file) : file[k].type = "node" => (Passed(k)' <=> Passed(k))
      BY <1>0, <1>3 DEF Passed
    <2>2. \A id \in NodeIds : Seen(id)' <=> Seen(id)
      BY <1>3, <2>1 DEF Seen
    <2> QED
      BY <1>1, <1>3, <2>2
  <1>4. CASE Still
    <2>1. \A id \in NodeIds : Seen(id)' <=> Seen(id)
      BY <1>4 DEF Still, Seen, Passed
    <2> QED
      BY <1>1, <1>4, <2>1 DEF Still
  <1>5. CASE apply_first_node \/ apply_second_node
    BY <1>0, <1>2, <1>5 DEF apply_first_node, apply_second_node, Next_object,
                            Second_object, Between_handlers
  <1>6. CASE apply_first_way \/ apply_second_way
    BY <1>0, <1>3, <1>6 DEF apply_first_way, apply_second_way, Next_object, Second_object,
                            Between_handlers
  <1>7. CASE next_pass
    <2>1. \A k \in 1..Len(file) : Passed(k)' <=> Passed(k)
      BY <1>0, <1>7 DEF Passed, next_pass
    <2>2. \A id \in NodeIds : Seen(id)' <=> Seen(id)
      BY <1>7, <2>1 DEF Seen, next_pass
    <2> QED
      BY <1>1, <1>7, <2>2 DEF next_pass
  <1> QED
    BY <1>0, <1>4, <1>5, <1>6, <1>7 DEF FirstRead, SecondRead

LEMMA IndexInit == Init => IndexInv
  <1> SUFFICES ASSUME Init PROVE IndexInv
    OBVIOUS
  <1>1. /\ Len(file) \in Nat /\ pass = "first" /\ pos = 1
        /\ \A id \in NodeIds : index[id] = Undefined
    BY FileFacts DEF Init
  <1>2. \A id : ~Seen(id)
    BY <1>1 DEF Seen, Passed
  <1> QED
    BY <1>1, <1>2 DEF IndexInv

LEMMA IndexInvariant == Spec => []IndexInv
  <1>1. TypeInv /\ IndexInv /\ [Next]_vars => IndexInv'
    BY IndexStep
  <1> QED
    BY <1>1, IndexInit, TypeInvariant, PTL DEF Spec

(* Once the nodes are read, a way's line is that of the file.              *)
LEMMA LinesAreTrue ==
  ASSUME TypeInv, IndexInv, NEW k \in 1..Len(file), file[k].type = "way",
         \A i \in 1..Len(file) : file[i].type = "node" => Passed(i)
  PROVE  locations(file[k], index) = TrueLine(file[k])
  <1>1. /\ DOMAIN file[k].refs = 1..Len(file[k].refs)
        /\ \A r \in DOMAIN file[k].refs : file[k].refs[r] \in NodeIds
        /\ DOMAIN file = 1..Len(file)
    BY FileFacts DEF TypeInv, PassTyped
  <1>2. ASSUME NEW id \in NodeIds PROVE index[id] = TrueLoc(id)
    <2>1. Nodes(id) # {} => Seen(id)
      BY <1>1 DEF Nodes, NodesIn, Objects, ObjectsIn, Seen
    <2> QED
      BY <2>1 DEF IndexInv, TrueLoc, LocIn, Nodes
  <1> QED
    BY <1>1, <1>2 DEF locations, TrueLine, LineIn, TrueLoc

-----------------------------------------------------------------------------
(* Only a handler aborts the process.                                      *)
LEMMA AbortSteps ==
  ASSUME [Next]_vars
  PROVE  exit' = "aborted" => exit = "aborted" \/ handler_throws
  <1>1. CASE Read
    BY <1>1 DEF Read, apply_first_node, apply_first_way, next_pass, apply_second_node,
                apply_second_way, layer_vars
  <1>2. CASE construct \/ construct_fails
    BY <1>2 DEF construct, construct_fails, open_layer, open_layer_fails
  <1>3. CASE write_feature \/ write_fails
    BY <1>3 DEF write_feature, write_next, create_feature, write_fails, create_feature_fails,
                layer_vars
  <1>4. CASE return_from_main \/ killed
    BY <1>4 DEF return_from_main, destroy_writer, killed, die
  <1>5. CASE UNCHANGED vars
    BY <1>5 DEF vars, layer_vars
  <1> QED
    BY <1>1, <1>2, <1>3, <1>4, <1>5 DEF Next, Program, Failure, Read

(* What has been read of the file                                          *)
AllLocated == \A node \in Objects("node") : node.loc # Undefined
NoNegatives == NegativeEndsIn(file) = {}
Interpolated(k) == /\ file[k].type = "way" /\ Len(file[k].refs) >= 2
                   /\ Has(file[k], "addr:interpolation")
EndOf(id, k) == Interpolated(k) /\ id \in {file[k].refs[1], file[k].refs[Len(file[k].refs)]}

(* The first pass keeps the end nodes of every interpolation, and no other *)
(* ids; the second makes the table large enough for those it sets.         *)
EndsKept == \A k \in 1..Len(file) : Interpolated(k) /\ Passed(k) =>
    /\ first_node_id(file[k]) \in addr_interpolation_node_set
    /\ last_node_id(file[k]) \in addr_interpolation_node_set
EndsOnly == \A u \in addr_interpolation_node_set :
    \E k \in 1..Len(file), id \in NodeIds : EndOf(id, k) /\ u = unsigned(id)
TableFits == NoNegatives => table_size \in 1..MaxTable
TableGrown == NoNegatives => \A k \in 1..Len(file) :
    pass = "second" /\ k < pos /\ file[k].type = "node" =>
        (unsigned(file[k].id) \in addr_interpolation_node_set => unsigned(file[k].id) < table_size)
NothingThrown == Sorted(file) /\ AllLocated /\ NoNegatives => exit # "aborted"
AbortInv == EndsKept /\ EndsOnly /\ TableFits /\ TableGrown /\ NothingThrown

LEMMA NobodyThrows ==
  ASSUME TypeInv, IndexInv, EndsKept, TableFits, TableGrown, Sorted(file), AllLocated, NoNegatives
  PROVE  ~handler_throws
  <1> SUFFICES ASSUME handler_throws PROVE FALSE
    OBVIOUS
  <1>0. table_size # Overrun
    BY DEF TableFits, Overrun
  <1>1. /\ file \in InputFiles /\ DOMAIN file = 1..Len(file) /\ Len(file) \in Nat
        /\ pos \in 1..Len(file)
    BY <1>0, FileFacts DEF TypeInv, PassTyped, handler_throws, Next_object, Second_object
  <1> DEFINE o == file[pos]
             line == locations(o, index)
  <1>2. o.type = "node" => o.loc # Undefined
    BY <1>1 DEF AllLocated, Objects, ObjectsIn
  <1>3. /\ pass = "second" /\ o.type = "way" /\ SecondWayAborts(o, line)
    BY <1>0, <1>2 DEF handler_throws, Next_object, Second_object, FirstNodeAborts, SecondNodeAborts
  <1>4. /\ is_way_with_nonzero_length(line) /\ Has(o, "addr:interpolation")
        /\ DOMAIN line = 1..Len(o.refs) /\ Len(o.refs) >= 2 /\ Len(o.refs) \in Nat
        /\ \A k \in 1..Len(o.refs) : o.refs[k] \in NodeIds /\ line[k] # Undefined
    <2>1. /\ is_way_with_nonzero_length(line) /\ Has(o, "addr:interpolation")
          /\ DOMAIN line = 1..Len(o.refs) /\ Len(o.refs) >= 2
      BY <1>1, <1>3, LineFacts DEF SecondWayAborts
    <2>2. /\ Len(o.refs) \in Nat /\ \A k \in 1..Len(o.refs) : o.refs[k] \in NodeIds
      BY <1>1, <1>3, FileFacts
    <2>3. \A k \in DOMAIN line : line[k] # Undefined
      BY <2>1 DEF is_way_with_nonzero_length, Dangling
    <2> QED
      BY <2>1, <2>2, <2>3
  <1>5. ASSUME NEW r \in 1..Len(o.refs), unsigned(o.refs[r]) \in addr_interpolation_node_set
        PROVE  unsigned(o.refs[r]) < table_size
    <2>1. DOMAIN o.refs = 1..Len(o.refs)
      BY <1>1, <1>3, FileFacts
    <2>2. index[o.refs[r]] = line[r]
      BY <2>1 DEF locations
    <2>3. PICK k \in 1..Len(file) : file[k].type = "node" /\ file[k].id = o.refs[r]
      BY <1>4, <2>2 DEF IndexInv, Seen
    <2>4. k < pos
      <3>1. k # pos
        BY <1>3, <2>3
      <3>2. ~(pos < k)
        BY <1>1, <1>3, <2>3 DEF Sorted
      <3> QED
        BY <1>1, <3>1, <3>2
    <2> QED
      BY <1>3, <1>5, <2>3, <2>4 DEF TableGrown
  <1>6. /\ first_node_id(o) \in addr_interpolation_node_set
        /\ last_node_id(o) \in addr_interpolation_node_set
    BY <1>1, <1>3, <1>4 DEF EndsKept, Interpolated, Passed
  <1>7. 1 \in 1..Len(o.refs) /\ Len(o.refs) \in 1..Len(o.refs)
    BY <1>4
  <1>8. first_node_id(o) < table_size /\ last_node_id(o) < table_size
    BY <1>5, <1>6, <1>7 DEF first_node_id, last_node_id
  <1>9. /\ first_node_id(o) \in Int /\ last_node_id(o) \in Int /\ table_size \in Int
    BY <1>4, <1>7, UnsignedFacts DEF TypeInv, NodesTyped, first_node_id, last_node_id
  <1> QED
    BY <1>3, <1>8, <1>9 DEF SecondWayAborts

(* The id of a node that is kept is no different when it is unsigned.      *)
LEMMA KeptEnds ==
  ASSUME file \in InputFiles, EndsOnly, NoNegatives, NEW k \in 1..Len(file), file[k].type = "node",
         unsigned(file[k].id) \in addr_interpolation_node_set
  PROVE  file[k].id >= 0 /\ unsigned(file[k].id) = file[k].id
  <1>1. file[k].id \in NodeIds /\ DOMAIN file = 1..Len(file)
    BY FileFacts
  <1>2. PICK m \in 1..Len(file), id \in NodeIds : EndOf(id, m) /\ unsigned(file[k].id) = unsigned(id)
    BY DEF EndsOnly
  <1>3. id = file[k].id
    BY <1>1, <1>2, UnsignedFacts
  <1>4. ~(file[k].id < 0)
    BY <1>1, <1>2, <1>3 DEF NoNegatives, NegativeEndsIn, ObjectsIn, EndOf, Interpolated
  <1> QED
    BY <1>1, <1>4, UnsignedFacts

(* There is room for it.                                                   *)
LEMMA SetFits ==
  ASSUME NEW id \in NodeIds, id >= 0, table_size \in 1..MaxTable
  PROVE  /\ ~set_fails(id) /\ resized(id) \in 1..MaxTable
         /\ id < resized(id) /\ table_size <= resized(id)
  <1>1. /\ id \in Int /\ id + GrowSize <= MaxTable /\ MaxTable \in Nat /\ 2 * MaxTable < IdSize
        /\ GrowSize \in Nat \ {0} /\ IdSize \in Nat
    BY IdsAssumption, SizesAssumption
  <1>2. resized(id) = IF id < table_size THEN table_size ELSE id + GrowSize
    BY <1>1 DEF resized
  <1> QED
    BY <1>1, <1>2 DEF set_fails

LEMMA AbortStep ==
  ASSUME TypeInv, IndexInv, AbortInv, [Next]_vars
  PROVE  AbortInv'
  <1>0. /\ file \in InputFiles /\ DOMAIN file = 1..Len(file) /\ Len(file) \in Nat
        /\ EndsKept /\ EndsOnly /\ TableFits /\ TableGrown /\ file' = file
        /\ pos \in 1..(Len(file) + 1) /\ pass \in {"first", "second"}
    <2>1. Deliver \/ Read \/ Quiet
      BY StepKinds
    <2>2. file' = file
      BY <2>1 DEF Deliver, Read, Quiet, apply_first_node, apply_first_way, next_pass,
                  apply_second_node, apply_second_way
    <2> QED
      BY <2>2, FileFacts DEF TypeInv, PassTyped, AbortInv
  <1>1. NothingThrown'
    <2> SUFFICES ASSUME Sorted(file), AllLocated, NoNegatives, exit' = "aborted" PROVE FALSE
      BY <1>0 DEF NothingThrown, AllLocated, NoNegatives, Objects, ObjectsIn
    <2>1. ~handler_throws
      BY <1>0, NobodyThrows
    <2> QED
      BY <2>1, AbortSteps DEF AbortInv, NothingThrown
  <1>3. ASSUME UNCHANGED <<addr_interpolation_node_set, table_size>>
        PROVE  EndsOnly' /\ TableFits'
    BY <1>0, <1>3 DEF EndsOnly, EndOf, Interpolated, TableFits, NoNegatives
  <1>2. CASE Deliver \/ Quiet
    <2>1. UNCHANGED <<file, pass, pos, index, addr_interpolation_node_set, table_size>>
      BY <1>2 DEF Deliver, Quiet, first_vars, second_vars
    <2> QED
      BY <1>0, <1>1, <1>3, <2>1 DEF AbortInv, EndsKept, TableGrown, NoNegatives, Interpolated, Passed
  <1>4. CASE apply_first_node
    <2>1. /\ pass = "first" /\ pass' = pass /\ pos' = pos + 1 /\ pos \in 1..Len(file)
          /\ file[pos].type = "node" /\ location_handler(file[pos])
          /\ UNCHANGED <<addr_interpolation_node_set, table_size>>
      BY <1>0, <1>4 DEF apply_first_node, Next_object, first_node, second_vars
    <2>2. EndsKept'
      BY <1>0, <2>1 DEF EndsKept, Interpolated, Passed
    <2> QED
      BY <1>0, <1>1, <1>3, <2>1, <2>2 DEF AbortInv, TableGrown
  <1>5. CASE apply_first_way
    <2> DEFINE way == file[pos]
    <2>1. /\ pass = "first" /\ pass' = pass /\ pos' = pos + 1 /\ pos \in 1..Len(file)
          /\ index' = index /\ save_interpolation_ends(way) /\ table_size' = table_size
          /\ way.type = "way"
      BY <1>0, <1>5 DEF apply_first_way, Next_object, first_way, second_vars
    <2>2. EndsKept'
      <3> SUFFICES ASSUME NEW k \in 1..Len(file), Interpolated(k), k < pos + 1
                   PROVE  /\ first_node_id(file[k]) \in addr_interpolation_node_set'
                          /\ last_node_id(file[k]) \in addr_interpolation_node_set'
        BY <1>0, <2>1 DEF EndsKept, Interpolated, Passed
      <3>1. CASE k < pos
        BY <1>0, <2>1, <3>1 DEF EndsKept, Passed, save_interpolation_ends
      <3>2. CASE k = pos
        BY <2>1, <3>2 DEF Interpolated, save_interpolation_ends
      <3> QED
        BY <2>1, <3>1, <3>2
    <2>3. EndsOnly'
      <3> SUFFICES ASSUME NEW u \in addr_interpolation_node_set'
                   PROVE  \E k \in 1..Len(file), id \in NodeIds : EndOf(id, k) /\ u = unsigned(id)
        BY <1>0, <2>1 DEF EndsOnly, EndOf, Interpolated
      <3>1. CASE u \in addr_interpolation_node_set
        BY <1>0, <3>1 DEF EndsOnly
      <3>2. CASE u \notin addr_interpolation_node_set
        <4>1. Interpolated(pos) /\ u \in {first_node_id(way), last_node_id(way)}
          BY <2>1, <3>2 DEF save_interpolation_ends, Interpolated
        <4>2. /\ Len(way.refs) \in Nat /\ Len(way.refs) >= 2
              /\ \A k \in 1..Len(way.refs) : way.refs[k] \in NodeIds
          BY <1>0, <2>1, <4>1, FileFacts DEF Interpolated
        <4>3. way.refs[1] \in NodeIds /\ way.refs[Len(way.refs)] \in NodeIds
          BY <4>2
        <4> QED
          BY <2>1, <4>1, <4>3 DEF EndOf, first_node_id, last_node_id
      <3> QED
        BY <3>1, <3>2
    <2>4. TableFits' /\ TableGrown'
      BY <1>0, <2>1 DEF TableFits, TableGrown, NoNegatives
    <2> QED
      BY <1>1, <2>2, <2>3, <2>4 DEF AbortInv
  <1>6. CASE next_pass
    <2>1. /\ pass = "first" /\ pos > Len(file) /\ pass' = "second" /\ pos' = 1 /\ index' = index
          /\ UNCHANGED <<addr_interpolation_node_set, table_size>>
      BY <1>6 DEF next_pass, first_vars, second_vars
    <2>2. EndsKept'
      BY <1>0, <2>1 DEF EndsKept, Interpolated, Passed
    <2>3. TableGrown'
      <3>1. \A k \in 1..Len(file') : ~(k < pos')
        BY <1>0, <2>1
      <3> QED
        BY <3>1 DEF TableGrown
    <2> QED
      BY <1>1, <1>3, <2>1, <2>2, <2>3 DEF AbortInv
  <1>7. CASE apply_second_node
    <2> DEFINE node == file[pos]
    <2>1. /\ pass = "second" /\ pass' = pass /\ pos' = pos + 1 /\ pos \in 1..Len(file)
          /\ node.type = "node" /\ location_handler(node)
          /\ addr_interpolation_node_set' = addr_interpolation_node_set
          /\ LET id == unsigned(node.id) IN
             IF id \in addr_interpolation_node_set
             THEN table_size' = IF set_fails(id) THEN Overrun ELSE resized(id)
             ELSE table_size' = table_size
      BY <1>0, <1>7 DEF apply_second_node, Next_object, Second_object, second_node, first_vars
    <2>2. EndsKept' /\ EndsOnly'
      BY <1>0, <2>1 DEF EndsKept, EndsOnly, EndOf, Interpolated, Passed
    <2>3. ASSUME NoNegatives
          PROVE  /\ table_size \in 1..MaxTable /\ table_size' \in 1..MaxTable
                 /\ table_size <= table_size'
                 /\ unsigned(node.id) \in addr_interpolation_node_set => unsigned(node.id) < table_size'
      <3>1. table_size \in 1..MaxTable /\ node.id \in NodeIds
        BY <1>0, <2>1, <2>3, FileFacts DEF TableFits
      <3>2. CASE unsigned(node.id) \in addr_interpolation_node_set
        <4>1. node.id >= 0 /\ unsigned(node.id) = node.id
          BY <1>0, <2>1, <2>3, <3>2, KeptEnds
        <4>2. table_size' = IF set_fails(node.id) THEN Overrun ELSE resized(node.id)
          BY <2>1, <3>2, <4>1
        <4> QED
          BY <3>1, <4>1, <4>2, SetFits
      <3>3. CASE unsigned(node.id) \notin addr_interpolation_node_set
        <4>1. table_size' = table_size
          BY <2>1, <3>3
        <4> QED
          BY <3>1, <3>3, <4>1
      <3> QED
        BY <3>2, <3>3
    <2>4. TableFits'
      BY <1>0, <2>3 DEF TableFits, NoNegatives
    <2>5. TableGrown'
      <3> SUFFICES ASSUME NoNegatives, NEW k \in 1..Len(file), k < pos + 1, file[k].type = "node",
                          unsigned(file[k].id) \in addr_interpolation_node_set
                   PROVE  unsigned(file[k].id) < table_size'
        BY <1>0, <2>1 DEF TableGrown, NoNegatives
      <3>1. CASE k < pos
        <4>1. unsigned(file[k].id) < table_size
          BY <1>0, <2>1, <3>1 DEF TableGrown
        <4>2. unsigned(file[k].id) \in Int
          BY <1>0, FileFacts, UnsignedFacts
        <4>3. MaxTable \in Nat
          BY SizesAssumption
        <4> HIDE DEF node
        <4> QED
          BY <2>3, <4>1, <4>2, <4>3
      <3>2. CASE k = pos
        BY <2>3, <3>2
      <3> QED
        BY <2>1, <3>1, <3>2
    <2> QED
      BY <1>1, <2>2, <2>4, <2>5 DEF AbortInv
  <1>8. CASE apply_second_way
    <2>1. /\ pass = "second" /\ pass' = pass /\ pos' = pos + 1 /\ pos \in 1..Len(file)
          /\ file[pos].type = "way" /\ index' = index
          /\ UNCHANGED <<addr_interpolation_node_set, table_size>>
      BY <1>0, <1>8 DEF apply_second_way, Next_object, Second_object, Between_handlers,
                        second_way, first_vars
    <2>2. TableGrown'
      <3> SUFFICES ASSUME NoNegatives, NEW k \in 1..Len(file), k < pos + 1, file[k].type = "node",
                          unsigned(file[k].id) \in addr_interpolation_node_set
                   PROVE  unsigned(file[k].id) < table_size
        BY <1>0, <2>1 DEF TableGrown, NoNegatives
      <3>1. k < pos
        BY <2>1
      <3> QED
        BY <1>0, <2>1, <3>1 DEF TableGrown
    <2>3. EndsKept'
      BY <1>0, <2>1 DEF EndsKept, Interpolated, Passed
    <2> QED
      BY <1>1, <1>3, <2>1, <2>2, <2>3 DEF AbortInv
  <1> QED
    BY <1>2, <1>4, <1>5, <1>6, <1>7, <1>8, StepKinds DEF Read

LEMMA AbortInit == Init => AbortInv
  <1> SUFFICES ASSUME Init PROVE AbortInv
    OBVIOUS
  <1>1. /\ Len(file) \in Nat /\ pass = "first" /\ pos = 1 /\ exit = "none"
        /\ addr_interpolation_node_set = {} /\ table_size = GrowSize
    BY FileFacts DEF Init, FirstInit, SecondInit, WriterInit
  <1>2. GrowSize \in 1..MaxTable
    BY SizesAssumption
  <1> QED
    BY <1>1, <1>2 DEF AbortInv, EndsKept, EndsOnly, TableFits, TableGrown, NothingThrown, Passed

LEMMA AbortInvariant == Spec => []AbortInv
  <1>1. TypeInv /\ IndexInv /\ AbortInv /\ [Next]_vars => AbortInv'
    BY AbortStep
  <1> QED
    BY <1>1, AbortInit, IndexInvariant, TypeInvariant, PTL DEF Spec

(* A sorted file with all its nodes' locations and without the negative    *)
(* end of an interpolation never aborts the program, whatever nodes its    *)
(* ways name: no create_point is without a location, set() is given ids    *)
(* that there is room for, and get() of the node map those of the table    *)
(* that set() has grown.                                                   *)
THEOREM NothingAborts == Spec => []SortedFilesDontAbort
  <1>1. AbortInv => SortedFilesDontAbort
    BY DEF AbortInv, NothingThrown, AllLocated, NoNegatives, SortedFilesDontAbort
  <1> QED
    BY <1>1, AbortInvariant, PTL

-----------------------------------------------------------------------------
(* The node map: what the second pass has set are the tags of the file.    *)
MapInv == table_size # Overrun => \A id \in NodeIds : addr_interpolation_node_map[id] =
    IF pass = "second" /\ unsigned(id) \in addr_interpolation_node_set
       /\ \E k \in 1..Len(file) : k < pos /\ file[k].type = "node" /\ file[k].id = id
    THEN TrueTags[id] ELSE EmptyTagList

LEMMA MapStep ==
  ASSUME TypeInv, MapInv, [Next]_vars
  PROVE  MapInv'
  <1> DEFINE M == addr_interpolation_node_map
             S == addr_interpolation_node_set
             At(id, p) == \E k \in 1..Len(file) : k < p /\ file[k].type = "node" /\ file[k].id = id
  <1>0. /\ file \in InputFiles /\ DOMAIN file = 1..Len(file) /\ Len(file) \in Nat
        /\ pos \in 1..(Len(file) + 1) /\ pass \in {"first", "second"}
        /\ DOMAIN M = NodeIds
        /\ Still \/ FirstRead \/ SecondRead
    BY FileFacts, RowSteps DEF TypeInv, PassTyped, NodesTyped
  <1>1. file' = file
    BY <1>0 DEF Still, FirstRead, SecondRead, apply_first_node, apply_first_way, next_pass,
                apply_second_node, apply_second_way
  <1>2. TrueTags' = TrueTags
    BY <1>1 DEF TrueTags, Nodes, NodesIn, Objects, ObjectsIn
  <1>3. table_size # Overrun => \A id \in NodeIds : M[id] =
           IF pass = "second" /\ unsigned(id) \in S /\ At(id, pos) THEN TrueTags[id] ELSE EmptyTagList
    BY DEF MapInv
  <1>4. ASSUME table_size' # Overrun => \A id \in NodeIds : M'[id] =
                  IF pass' = "second" /\ unsigned(id) \in S' /\ At(id, pos')
                  THEN TrueTags[id] ELSE EmptyTagList
        PROVE  MapInv'
    BY <1>1, <1>2, <1>4 DEF MapInv
  <1>5. CASE Still
    BY <1>3, <1>4, <1>5 DEF Still, first_vars
  <1>6. CASE FirstRead
    <2>1. /\ pass = "first" /\ M' = M /\ (pass' = "first" \/ pos' = 1)
          /\ table_size' = table_size
      BY <1>6 DEF FirstRead, apply_first_node, apply_first_way, next_pass, second_vars
    <2>2. \A id : ~At(id, 1)
      BY <1>0
    <2> HIDE DEF At
    <2> QED
      BY <1>3, <1>4, <2>1, <2>2
  <1>7. CASE apply_second_node
    <2> DEFINE node == file[pos]
    <2>1. /\ pass = "second" /\ pass' = pass /\ pos \in 1..Len(file) /\ pos' = pos + 1 /\ S' = S
          /\ node.type = "node" /\ node.id \in NodeIds
          /\ table_size # Overrun
          /\ IF unsigned(node.id) \in S
             THEN table_size' = Overrun \/ M' = [M EXCEPT ![node.id] = AltTagList(node)]
             ELSE M' = M
      BY <1>0, <1>7, FileFacts DEF apply_second_node, Next_object, Second_object, second_node,
                                   first_vars
    <2>2. \A id : At(id, pos') <=> At(id, pos) \/ id = node.id
      BY <1>0, <2>1
    <2>3. TrueTags[node.id] = AltTagList(node)
      BY <1>0, <2>1, OnlyNode
    <2> HIDE DEF At, node
    <2> QED
      BY <1>0, <1>3, <1>4, <2>1, <2>2, <2>3
  <1>8. CASE apply_second_way
    <2>1. /\ pass' = pass /\ pos \in 1..Len(file) /\ pos' = pos + 1 /\ S' = S
          /\ file[pos].type = "way" /\ M' = M /\ table_size' = table_size
      BY <1>0, <1>8 DEF apply_second_way, Next_object, Second_object, second_way, first_vars
    <2>2. \A id : At(id, pos') <=> At(id, pos)
      BY <1>0, <2>1
    <2> HIDE DEF At
    <2> QED
      BY <1>3, <1>4, <2>1, <2>2
  <1> QED
    BY <1>0, <1>5, <1>6, <1>7, <1>8 DEF SecondRead

LEMMA MapInit == Init => MapInv
  BY DEF Init, SecondInit, MapInv

(* In a sorted file all nodes come before a way.                           *)
LEMMA NodesBefore ==
  ASSUME file \in InputFiles, Sorted(file), NEW k \in 1..Len(file), file[k].type = "way"
  PROVE  \A i \in 1..Len(file) : file[i].type = "node" => i < k
  <1>1. DOMAIN file = 1..Len(file) /\ Len(file) \in Nat
    BY FileFacts
  <1> QED
    BY <1>1 DEF Sorted

(* The error of an interpolation is that of the tags in the file.          *)
ErrorRight(row, ways, tags) == \A way \in ways : way.id = row.way_id =>
    \E stray \in BOOLEAN : row.error = error(interpolation(way, tags, stray))
ErrorInv == Sorted(file) =>
    \A row \in AllOf("interpolation") : ErrorRight(row, Objects("way"), TrueTags)

LEMMA EndTags ==
  ASSUME TypeInv, MapInv, EndsKept, pass = "second", Sorted(file), pos \in 1..Len(file),
         Interpolated(pos), table_size # Overrun
  PROVE  LET refs == file[pos].refs IN
         /\ addr_interpolation_node_map[refs[1]] = TrueTags[refs[1]]
         /\ addr_interpolation_node_map[refs[Len(refs)]] = TrueTags[refs[Len(refs)]]
  <1> DEFINE refs == file[pos].refs
  <1>1. /\ file \in InputFiles /\ DOMAIN file = 1..Len(file) /\ file[pos].type = "way"
        /\ Len(refs) \in Nat /\ Len(refs) >= 2 /\ \A k \in 1..Len(refs) : refs[k] \in NodeIds
    BY FileFacts DEF TypeInv, PassTyped, Interpolated
  <1>2. ASSUME NEW id \in NodeIds, unsigned(id) \in addr_interpolation_node_set
        PROVE  addr_interpolation_node_map[id] = TrueTags[id]
    <2>1. CASE Nodes(id) = {}
      <3>1. ~(\E k \in 1..Len(file) : file[k].type = "node" /\ file[k].id = id)
        BY <1>1, <2>1 DEF Nodes, NodesIn, Objects, ObjectsIn
      <3> QED
        BY <2>1, <3>1 DEF MapInv, TrueTags
    <2>2. CASE Nodes(id) # {}
      <3>1. PICK k \in 1..Len(file) : file[k].type = "node" /\ file[k].id = id
        BY <1>1, <2>2 DEF Nodes, NodesIn, Objects, ObjectsIn
      <3>2. k < pos
        BY <1>1, <3>1, NodesBefore
      <3> QED
        BY <1>2, <3>1, <3>2 DEF MapInv
    <2> QED
      BY <2>1, <2>2
  <1>3. /\ unsigned(refs[1]) \in addr_interpolation_node_set
        /\ unsigned(refs[Len(refs)]) \in addr_interpolation_node_set
    BY DEF EndsKept, Passed, first_node_id, last_node_id
  <1>4. refs[1] \in NodeIds /\ refs[Len(refs)] \in NodeIds
    BY <1>1
  <1> QED
    BY <1>2, <1>3, <1>4

LEMMA ErrorStep ==
  ASSUME TypeInv, MapInv, AbortInv, ErrorInv, [Next]_vars
  PROVE  ErrorInv'
  <1>0. /\ file \in InputFiles /\ DOMAIN file = 1..Len(file) /\ Len(file) \in Nat
        /\ "interpolation" \in SetLayer /\ EndsKept
    BY FileFacts, LayerFacts DEF TypeInv, PassTyped, LayerNames, SetLayer, AbortInv
  <1>1. \/ (Still \/ FirstRead) /\ AllOf("interpolation")' = AllOf("interpolation")
        \/ /\ SecondRead
           /\ AllOf("interpolation")' = AllOf("interpolation") \union NewRows(calls', "interpolation")
    BY <1>0, RowSteps
  <1>2. file' = file
    BY <1>1 DEF Still, FirstRead, SecondRead, apply_first_node, apply_first_way, next_pass,
                apply_second_node, apply_second_way
  <1>3. TrueTags' = TrueTags /\ Objects("way")' = Objects("way")
    BY <1>2 DEF TrueTags, Nodes, NodesIn, Objects, ObjectsIn
  <1> SUFFICES ASSUME Sorted(file), NEW row \in AllOf("interpolation")'
               PROVE  ErrorRight(row, Objects("way"), TrueTags)
    BY <1>2, <1>3 DEF ErrorInv
  <1>4. CASE row \in AllOf("interpolation")
    BY <1>4 DEF ErrorInv
  <1>5. CASE SecondRead /\ row \in NewRows(calls', "interpolation")
    <2>1. PICK c \in Elements(calls') : c.layer = "interpolation" /\ row = c.row
      BY <1>5 DEF NewRows
    <2>2. CASE apply_second_node
      <3>1. pos \in 1..Len(file) /\ calls' = NodeCalls(file[pos])
        BY <1>0, <2>2 DEF apply_second_node, Next_object, Second_object, Between_handlers,
                          second_node, TypeInv, PassTyped
      <3>2. NodeCall(c, file[pos])
        BY <1>0, <2>1, <3>1, NodeCallsFacts DEF TypeInv
      <3> QED
        BY <2>1, <3>2 DEF NodeCall, StreetCall, OnWayCall, PlaceCall, write_line, call, address
    <2>3. CASE apply_second_way
      <3> DEFINE way == file[pos]
                 line == locations(way, index)
      <3>1. /\ pass = "second" /\ pos \in 1..Len(file) /\ way.type = "way"
            /\ table_size # Overrun
            /\ \E ip \in interpolations(way) : calls' = WayCalls(way, line, ip)
        BY <1>0, <2>3 DEF apply_second_way, Next_object, Second_object, second_way, TypeInv,
                          PassTyped
      <3>2. PICK ip \in interpolations(way) : calls' = WayCalls(way, line, ip)
        BY <3>1
      <3>3. is_way_with_nonzero_length(line) /\ WayCall(c, way, line, ip)
        BY <2>1, <3>1, <3>2, WayCallsFacts
      <3>4. Has(way, "addr:interpolation") /\ row = [way_id |-> way.id, error |-> error(ip)]
        BY <2>1, <3>3 DEF WayCall, StreetCall, OnWayCall, PlaceCall, write_line, call, address,
                          IpRow, address_of_interpolation
      <3>5. PICK stray \in BOOLEAN : ip = interpolation(way, addr_interpolation_node_map, stray)
        BY <3>2, <3>4 DEF interpolations
      <3>6. Interpolated(pos)
        BY <1>0, <3>1, <3>3, <3>4, LineFacts DEF Interpolated
      <3>7. interpolation(way, addr_interpolation_node_map, stray) = interpolation(way, TrueTags, stray)
        BY <1>0, <3>1, <3>6, EndTags DEF interpolation
      <3>8. \A w \in Objects("way") : w.id = way.id => w = way
        BY <1>0, <3>1, FileFacts DEF Objects, ObjectsIn
      <3> QED
        BY <3>4, <3>5, <3>7, <3>8 DEF ErrorRight
    <2> QED
      BY <1>5, <2>2, <2>3 DEF SecondRead
  <1> QED
    BY <1>1, <1>4, <1>5

LEMMA ErrorInit == Init => ErrorInv
  <1>1. Init => AllOf("interpolation") = {}
    BY FedInit, LayerFacts, None DEF LayerNames, AllOf
  <1> QED
    BY <1>1 DEF ErrorInv

(* In a sorted file the error of an interpolation is judged by the tags    *)
(* that its end nodes have in the file: the set of the first pass names    *)
(* them, and the map of the second has them all when the first way comes.  *)
THEOREM InterpolationsJudged == Spec => []InterpolationVerdictIsRight
  <1>1. TypeInv /\ MapInv /\ [Next]_vars => MapInv'
    BY MapStep
  <1>2. TypeInv /\ MapInv /\ AbortInv /\ ErrorInv /\ [Next]_vars => ErrorInv'
    BY ErrorStep
  <1>3. TypeInv /\ ErrorInv => InterpolationVerdictIsRight
    <2> SUFFICES ASSUME TypeInv, ErrorInv PROVE InterpolationVerdictIsRight
      OBVIOUS
    <2>1. rows("interpolation") \subseteq AllOf("interpolation")
      BY FedFacts, LayerFacts DEF TypeInv, LayerNames, AllOf
    <2> QED
      BY <2>1 DEF ErrorInv, ErrorRight, InterpolationVerdictIsRight
  <1> QED
    BY <1>1, <1>2, <1>3, MapInit, ErrorInit, AbortInvariant, TypeInvariant, PTL DEF Spec

-----------------------------------------------------------------------------
(* The tables of places hold the places of the part of the file that has   *)
(* been passed; the centroids are right if the nodes came first.           *)
NodyAt(o, name, p) == o.type = "node" /\ Has(o, "place") /\ Is(o, "name", name) /\ o.loc = p
WayyAt(o, line, name, p) ==
    /\ o.type = "way" /\ Len(o.refs) >= 2
    /\ Has(o, "place") /\ Is(o, "name", name)
    /\ is_closed(o) /\ centroid_ok(line) /\ Centroid(line) = p
Lists(entries, p) == \E x \in Elements(entries) : x.ogrpoint = p
NodyInv == \A name \in Names : \A p : Lists(name2place_nody[name], p) <=>
    \E k \in 1..Len(file) : Passed(k) /\ NodyAt(file[k], name, p)
WayyInv == Sorted(file) => \A name \in Names : \A p : Lists(name2place_wayy[name], p) <=>
    \E k \in 1..Len(file) : Passed(k) /\ WayyAt(file[k], TrueLine(file[k]), name, p)
PlaceInv == NodyInv /\ WayyInv

LEMMA InsertLists ==
  ASSUME NEW m, IsMultimap(m), NEW names, NEW entry, NEW name \in Names, NEW p
  PROVE  Lists(Insert(m, names, entry)[name], p) <=>
            Lists(m[name], p) \/ (name \in names /\ entry.ogrpoint = p)
  <1>1. Elements(Insert(m, names, entry)[name]) =
           Elements(m[name]) \union (IF name \in names THEN {entry} ELSE {})
    BY InsertFacts
  <1> QED
    BY <1>1 DEF Lists

LEMMA NodyStep ==
  ASSUME TablesTyped, NEW o, first_node(o), o.type = "node",
         Has(o, "name") => o.tags["name"] \in Names, NEW name \in Names, NEW p
  PROVE  Lists(name2place_nody'[name], p) <=> Lists(name2place_nody[name], p) \/ NodyAt(o, name, p)
  <1>1. CASE Has(o, "place") /\ Has(o, "name")
    <2> DEFINE e == [obj_id |-> o.id, ogrpoint |-> o.loc]
    <2>1. name2place_nody' = Insert(name2place_nody, {o.tags["name"]}, e) /\ e.ogrpoint = o.loc
      BY <1>1 DEF first_node
    <2>2. IsMultimap(name2place_nody)
      BY DEF TablesTyped
    <2> HIDE DEF e
    <2> QED
      BY <1>1, <2>1, <2>2, InsertLists DEF NodyAt, Is
  <1>2. CASE ~(Has(o, "place") /\ Has(o, "name"))
    BY <1>2 DEF first_node, NodyAt, Is
  <1> QED
    BY <1>1, <1>2

(* A centroid needs a polygon, whose four points are a line as well, so    *)
(* that the highway of such a place has not failed.                        *)
LEMMA PlaceNotLost ==
  ASSUME NEW line, DOMAIN line \in SUBSET Nat, IsFiniteSet(DOMAIN line), centroid_ok(line)
  PROVE  linestring_ok(line)
  <1>1. num_points(line) \in Nat
    <2>1. IsFiniteSet({i \in DOMAIN line : ~repeats(line, i)})
      BY FS_Subset
    <2> QED
      BY <2>1, FS_CardinalityType DEF num_points
  <1> QED
    BY <1>1 DEF centroid_ok, polygon_ok, linestring_ok

LEMMA WayyStep ==
  ASSUME TypeInv, NEW k \in 1..Len(file), file[k].type = "way",
         save_place(file[k], locations(file[k], index)), NEW name \in Names, NEW p
  PROVE  Lists(name2place_wayy'[name], p) <=>
            Lists(name2place_wayy[name], p) \/ WayyAt(file[k], locations(file[k], index), name, p)
  <1> DEFINE o == file[k]
             line == locations(o, index)
             e == [obj_id |-> o.id, ogrpoint |-> Centroid(line)]
             fails == Has(o, "highway") /\ get_streetnames(o) # {} /\ ~linestring_ok(line)
             due == /\ Len(o.refs) >= 2
                    /\ Has(o, "place") /\ Has(o, "name") /\ is_closed(o)
                    /\ ~fails /\ centroid_ok(line)
  <1>1. DOMAIN line = 1..Len(o.refs) /\ Len(o.refs) \in Nat
    BY FileFacts, LineFacts DEF TypeInv, PassTyped
  <1>2. centroid_ok(line) => ~fails
    <2> DEFINE n == Len(o.refs)
    <2>1. DOMAIN line = 1..n /\ n \in Int
      BY <1>1
    <2> HIDE DEF n, line
    <2>2. IsFiniteSet(1..n) /\ 1..n \in SUBSET Nat
      BY <2>1, FS_Interval
    <2> QED
      BY <2>1, <2>2, PlaceNotLost DEF line
  <1>3. IsMultimap(name2place_wayy)
    BY DEF TypeInv, TablesTyped
  <1>4. name2place_wayy' = IF due THEN Insert(name2place_wayy, {o.tags["name"]}, e) ELSE name2place_wayy
    BY DEF save_place
  <1>5. e.ogrpoint = Centroid(line)
    OBVIOUS
  <1>6. WayyAt(o, line, name, p) <=> due /\ name = o.tags["name"] /\ Centroid(line) = p
    BY <1>2 DEF WayyAt, Is
  <1> HIDE DEF due, e, line
  <1>7. CASE due
    BY <1>3, <1>4, <1>5, <1>6, <1>7, InsertLists DEF line
  <1>8. CASE ~due
    BY <1>4, <1>6, <1>8 DEF line
  <1> QED
    BY <1>7, <1>8

LEMMA PlaceStep ==
  ASSUME TypeInv, IndexInv, PlaceInv, [Next]_vars
  PROVE  PlaceInv'
  <1>0. /\ file \in InputFiles /\ DOMAIN file = 1..Len(file) /\ Len(file) \in Nat
        /\ pos \in 1..(Len(file) + 1) /\ pass \in {"first", "second"} /\ TablesTyped
        /\ Still \/ FirstRead \/ SecondRead
    BY FileFacts, RowSteps DEF TypeInv, PassTyped
  <1>1. file' = file
    BY <1>0 DEF Still, FirstRead, SecondRead, apply_first_node, apply_first_way, next_pass,
                apply_second_node, apply_second_way
  <1>2. \A k \in 1..Len(file) : TrueLine(file[k])' = TrueLine(file[k])
    BY <1>1 DEF TrueLine, LineIn, TrueLoc, LocIn, Nodes, NodesIn, Objects, ObjectsIn
  <1>3. ASSUME UNCHANGED <<name2place_nody, name2place_wayy>>,
               \A k \in 1..Len(file) : Passed(k)' <=> Passed(k)
        PROVE  PlaceInv'
    <2>1. NodyInv'
      BY <1>1, <1>3 DEF PlaceInv, NodyInv
    <2>2. WayyInv'
      BY <1>1, <1>2, <1>3 DEF PlaceInv, WayyInv
    <2> QED
      BY <2>1, <2>2 DEF PlaceInv
  <1>4. CASE Still
    BY <1>3, <1>4 DEF Still, first_vars, Passed
  <1>5. CASE SecondRead
    <2>1. pass = "second" /\ pass' = "second" /\ UNCHANGED first_vars
      BY <1>5 DEF SecondRead, apply_second_node, apply_second_way, Second_object
    <2> QED
      BY <1>3, <2>1 DEF first_vars, Passed
  <1>6. CASE next_pass
    <2>1. pos > Len(file) /\ pass' = "second" /\ UNCHANGED first_vars
      BY <1>6 DEF next_pass
    <2>2. \A k \in 1..Len(file) : Passed(k)' <=> Passed(k)
      BY <1>0, <2>1 DEF Passed
    <2> QED
      BY <1>3, <2>1, <2>2 DEF first_vars
  <1>7. CASE apply_first_node
    <2> DEFINE o == file[pos]
    <2>1. /\ pos \in 1..Len(file) /\ pos' = pos + 1 /\ pass' = pass /\ pass = "first"
          /\ o.type = "node" /\ first_node(o) /\ name2place_wayy' = name2place_wayy
      BY <1>0, <1>7 DEF apply_first_node, Next_object, first_node
    <2>2. \A k \in 1..Len(file) : Passed(k)' <=> Passed(k) \/ k = pos
      BY <1>0, <2>1 DEF Passed
    <2>3. Has(o, "name") => o.tags["name"] \in Names
      BY <1>0, <2>1, NamedStreet DEF NameKeys
    <2>4. NodyInv'
      <3> SUFFICES ASSUME NEW name \in Names, NEW p
                   PROVE  Lists(name2place_nody[name], p)' <=>
                          \E k \in 1..Len(file) : Passed(k)' /\ NodyAt(file[k], name, p)
        BY <1>1 DEF NodyInv
      <3>1. Lists(name2place_nody[name], p) <=>
            \E k \in 1..Len(file) : Passed(k) /\ NodyAt(file[k], name, p)
        BY DEF PlaceInv, NodyInv
      <3>2. Lists(name2place_nody'[name], p) <=> Lists(name2place_nody[name], p) \/ NodyAt(o, name, p)
        BY <1>0, <2>1, <2>3, NodyStep
      <3> HIDE DEF o
      <3> QED
        BY <2>1, <2>2, <3>1, <3>2 DEF o
    <2>5. WayyInv'
      <3>1. \A k \in 1..Len(file) : \A name, p : WayyAt(file[k], TrueLine(file[k]), name, p) => k # pos
        BY <2>1 DEF WayyAt
      <3> QED
        BY <1>1, <1>2, <2>1, <2>2, <3>1 DEF PlaceInv, WayyInv
    <2> QED
      BY <2>4, <2>5 DEF PlaceInv
  <1>8. CASE apply_first_way
    <2> DEFINE o == file[pos]
               line == locations(o, index)
    <2>1. /\ pos \in 1..Len(file) /\ pos' = pos + 1 /\ pass' = pass /\ pass = "first"
          /\ o.type = "way" /\ save_place(o, line) /\ name2place_nody' = name2place_nody
      BY <1>0, <1>8 DEF apply_first_way, Next_object, first_way
    <2>2. \A k \in 1..Len(file) : Passed(k)' <=> Passed(k) \/ k = pos
      BY <1>0, <2>1 DEF Passed
    <2>3. NodyInv'
      <3>1. \A k \in 1..Len(file) : \A name, p : NodyAt(file[k], name, p) => k # pos
        BY <2>1 DEF NodyAt
      <3> QED
        BY <1>1, <2>1, <2>2, <3>1 DEF PlaceInv, NodyInv
    <2>4. WayyInv'
      <3> SUFFICES ASSUME Sorted(file), NEW name \in Names, NEW p
                   PROVE  Lists(name2place_wayy[name], p)' <=>
                          \E k \in 1..Len(file) : Passed(k)' /\ WayyAt(file[k], TrueLine(file[k]), name, p)
        BY <1>1, <1>2 DEF WayyInv
      <3>1. Lists(name2place_wayy[name], p) <=>
            \E k \in 1..Len(file) : Passed(k) /\ WayyAt(file[k], TrueLine(file[k]), name, p)
        BY DEF PlaceInv, WayyInv
      <3>2. line = TrueLine(o)
        <4>1. \A i \in 1..Len(file) : file[i].type = "node" => Passed(i)
          BY <1>0, <2>1, NodesBefore DEF Passed
        <4> QED
          BY <2>1, <4>1, LinesAreTrue
      <3>3. Lists(name2place_wayy'[name], p) <=> Lists(name2place_wayy[name], p) \/ WayyAt(o, line, name, p)
        BY <2>1, WayyStep
      <3> HIDE DEF o, line
      <3> QED
        BY <2>1, <2>2, <3>1, <3>2, <3>3 DEF o
    <2> QED
      BY <2>3, <2>4 DEF PlaceInv
  <1> QED
    BY <1>0, <1>4, <1>5, <1>6, <1>7, <1>8 DEF FirstRead

LEMMA PlaceInit == Init => PlaceInv
  <1> SUFFICES ASSUME Init PROVE PlaceInv
    OBVIOUS
  <1>1. /\ Len(file) \in Nat /\ pass = "first" /\ pos = 1
        /\ \A name \in Names : name2place_nody[name] = <<>> /\ name2place_wayy[name] = <<>>
    BY FileFacts DEF Init, FirstInit
  <1>2. \A p : ~Lists(<<>>, p)
    BY None DEF Lists
  <1>3. \A k \in 1..Len(file) : ~Passed(k)
    BY <1>1 DEF Passed
  <1> QED
    BY <1>1, <1>2, <1>3 DEF PlaceInv, NodyInv, WayyInv

LEMMA PlaceInvariant == Spec => []PlaceInv
  <1>1. TypeInv /\ IndexInv /\ PlaceInv /\ [Next]_vars => PlaceInv'
    BY PlaceStep
  <1> QED
    BY <1>1, PlaceInit, IndexInvariant, TypeInvariant, PTL DEF Spec

(* What get_closest_place finds, and the flags that are handed on          *)
Near(entries, point) == \E x \in Elements(entries) : Distance(point, <<x.ogrpoint>>) < MaxDistance
NearPlace(point, name) == \E place \in Places(name) : Distance(point, <<place>>) < MaxDistance

LEMMA NearIsListed ==
  ASSUME NEW entries, NEW point
  PROVE  Near(entries, point) <=> \E p : Lists(entries, p) /\ Distance(point, <<p>>) < MaxDistance
  BY DEF Near, Lists

LEMMA TablesNear ==
  ASSUME TypeInv, PlaceInv, Sorted(file), pass = "second", NEW name \in Names, NEW point
  PROVE  NearPlace(point, name) <=>
            Near(name2place_nody[name], point) \/ Near(name2place_wayy[name], point)
  <1>1. DOMAIN file = 1..Len(file)
    BY FileFacts DEF TypeInv, PassTyped
  <1>2. \A p : p \in Places(name) <=>
           \/ \E k \in 1..Len(file) : NodyAt(file[k], name, p)
           \/ \E k \in 1..Len(file) : WayyAt(file[k], TrueLine(file[k]), name, p)
    <2> DEFINE N == {n.loc : n \in {n \in Objects("node") : Has(n, "place") /\ Is(n, "name", name)}}
               W == {Centroid(TrueLine(w)) : w \in {w \in Objects("way") :
                       /\ Len(w.refs) >= 2 /\ Has(w, "place") /\ Is(w, "name", name)
                       /\ is_closed(w) /\ centroid_ok(TrueLine(w))}}
    <2>1. Places(name) = N \union W
      BY DEF Places
    <2>2. \A p : p \in N <=> \E k \in 1..Len(file) : NodyAt(file[k], name, p)
      BY <1>1 DEF NodyAt, Objects, ObjectsIn
    <2>3. \A p : p \in W <=> \E k \in 1..Len(file) : WayyAt(file[k], TrueLine(file[k]), name, p)
      BY <1>1 DEF WayyAt, Objects, ObjectsIn
    <2> HIDE DEF N, W
    <2> QED
      BY <2>1, <2>2, <2>3
  <1>3. \A p : Lists(name2place_nody[name], p) <=> \E k \in 1..Len(file) : NodyAt(file[k], name, p)
    BY DEF PlaceInv, NodyInv, Passed
  <1>4. \A p : Lists(name2place_wayy[name], p) <=>
               \E k \in 1..Len(file) : WayyAt(file[k], TrueLine(file[k]), name, p)
    BY DEF PlaceInv, WayyInv, Passed
  <1>5. \A p : p \in Places(name) <=> Lists(name2place_nody[name], p) \/ Lists(name2place_wayy[name], p)
    BY <1>2, <1>3, <1>4
  <1> QED
    BY <1>5, NearIsListed DEF NearPlace

PlaceFlag(r) == r.nody_place_id \/ r.wayy_place_id

LEMMA ClosestPlaceFlag ==
  ASSUME NEW point, NEW type, NEW name
  PROVE  PlaceFlag(handle_connection_line_place(point, type, name)) <=>
            Near(name2place_nody[name], point) \/ Near(name2place_wayy[name], point)
  <1> DEFINE InRange(entries) == {i \in DOMAIN entries :
                                    Distance(point, <<entries[i].ogrpoint>>) < MaxDistance}
             place == get_closest_place(point, name)
  <1>1. \A entries : Near(entries, point) <=> InRange(entries) # {}
    BY DEF Near, Elements
  <1>2. /\ place.found \in BOOLEAN
        /\ place.found <=> InRange(name2place_nody[name]) # {} \/ InRange(name2place_wayy[name]) # {}
        /\ place.found => place.is_nody \in BOOLEAN
    BY DEF get_closest_place, Nothing
  <1> HIDE DEF place, InRange
  <1>3. PlaceFlag(handle_connection_line_place(point, type, name)) <=> place.found
    <2>1. CASE place.found
      BY <1>2, <2>1 DEF handle_connection_line_place, PlaceFlag, place
    <2>2. CASE ~place.found
      BY <2>2 DEF handle_connection_line_place, PlaceFlag, place, NoPlace
    <2> QED
      BY <2>1, <2>2
  <1> QED
    BY <1>1, <1>2, <1>3

LEMMA PlaceOfFlag ==
  ASSUME TypeInv, PlaceInv, Sorted(file), pass = "second", NEW k \in 1..Len(file),
         NEW key \in {"addr:street", "addr:place"}, NEW point, NEW type
  PROVE  PlaceFlag(PlaceOf(file[k], point, type, key)) <=>
            Has(file[k], key) /\ NearPlace(point, file[k].tags[key])
  <1> DEFINE o == file[k]
             name == o.tags[key]
  <1>1. CASE ~Has(o, key)
    BY <1>1 DEF PlaceOf, PlaceFlag, NoPlace
  <1>2. CASE Has(o, key)
    <2>1. name \in Names
      BY <1>2, NamedStreet DEF TypeInv, PassTyped
    <2>2. NearPlace(point, name) <=>
             Near(name2place_nody[name], point) \/ Near(name2place_wayy[name], point)
      BY <2>1, TablesNear
    <2>3. CASE has_entry_in_name2place(name)
      BY <1>2, <2>2, <2>3, ClosestPlaceFlag DEF PlaceOf
    <2>4. CASE ~has_entry_in_name2place(name)
      <3>1. name2place_nody[name] = <<>> /\ name2place_wayy[name] = <<>>
        BY <2>4 DEF has_entry_in_name2place
      <3>2. ~Near(<<>>, point)
        BY None DEF Near
      <3>3. PlaceOf(o, point, type, key) = NoPlace
        BY <2>4 DEF PlaceOf
      <3> QED
        BY <2>2, <3>1, <3>2, <3>3 DEF PlaceFlag, NoPlace
    <2> QED
      BY <2>3, <2>4
  <1> QED
    BY <1>1, <1>2

(* What the two flags of an address say, from the file alone               *)
PlaceKeys(row) == (IF row.type = "node" THEN {"addr:street", "addr:place"} ELSE {"addr:place"})
                  \intersect DOMAIN row.tags
PlaceRight(row) == PlaceFlag(row) <=> \E key \in PlaceKeys(row) : NearPlace(Position(row), row.tags[key])
VerdictInv == Sorted(file) => \A row \in AllOf("nodes_with_addresses") :
    row.type # "interpolated" => PlaceRight(row)

LEMMA NodeVerdict ==
  ASSUME TypeInv, PlaceInv, Sorted(file), pass = "second",
         NEW k \in 1..Len(file), file[k].type = "node"
  PROVE  PlaceRight(address("node", file[k].id, AltTagList(file[k]), 0, process_node(file[k])).row)
  <1> DEFINE o == file[k]
             ids == process_node(o)
             row == address("node", o.id, AltTagList(o), 0, ids).row
             place1 == PlaceOf(o, o.loc, "node", "addr:street")
             place2 == PlaceOf(o, o.loc, "node", "addr:place")
             near(key) == NearPlace(o.loc, o.tags[key])
  <1>1. Position(row) = o.loc
    <2>1. row.type = "node" /\ row.id = o.id
      BY DEF address, call
    <2> QED
      BY <2>1, OnlyNode DEF Position, TypeInv, PassTyped
  <1>2. PlaceFlag(row) <=> PlaceFlag(place1) \/ PlaceFlag(place2)
    BY DEF PlaceFlag, address, call, process_node
  <1>3. /\ PlaceFlag(place1) <=> Has(o, "addr:street") /\ near("addr:street")
        /\ PlaceFlag(place2) <=> Has(o, "addr:place") /\ near("addr:place")
    BY PlaceOfFlag
  <1>4. /\ row.tags = AltTagList(o)
        /\ \A key \in {"addr:street", "addr:place"} :
              /\ key \in PlaceKeys(row) <=> Has(o, key)
              /\ Has(o, key) => row.tags[key] = o.tags[key]
        /\ PlaceKeys(row) \subseteq {"addr:street", "addr:place"}
    BY DEF address, call, PlaceKeys, AltTagList, AddrKeys, Has
  <1> HIDE DEF row, place1, place2, o
  <1>5. (\E key \in PlaceKeys(row) : NearPlace(Position(row), row.tags[key])) <=>
           \/ Has(o, "addr:street") /\ near("addr:street")
           \/ Has(o, "addr:place") /\ near("addr:place")
    BY <1>1, <1>4
  <1>6. PlaceRight(row)
    BY <1>2, <1>3, <1>5 DEF PlaceRight
  <1> QED
    BY <1>6 DEF row, o

LEMMA WayVerdict ==
  ASSUME TypeInv, PlaceInv, Sorted(file), pass = "second",
         NEW k \in 1..Len(file), file[k].type = "way"
  PROVE  PlaceRight(address("way", file[k].id, AltTagList(file[k]), 0,
                            process_way(file[k], Centroid(TrueLine(file[k])))).row)
  <1> DEFINE o == file[k]
             point == Centroid(TrueLine(o))
             row == address("way", o.id, AltTagList(o), 0, process_way(o, point)).row
             place == PlaceOf(o, point, "way", "addr:place")
  <1>1. Position(row) = point
    <2>1. row.type = "way" /\ row.id = o.id
      BY DEF address, call
    <2> QED
      BY <2>1, OnlyWay DEF Position, TypeInv, PassTyped
  <1>2. PlaceFlag(row) <=> PlaceFlag(place)
    BY DEF PlaceFlag, address, call, process_way
  <1>3. PlaceFlag(place) <=> Has(o, "addr:place") /\ NearPlace(point, o.tags["addr:place"])
    BY PlaceOfFlag
  <1>4. /\ "addr:place" \in PlaceKeys(row) <=> Has(o, "addr:place")
        /\ Has(o, "addr:place") => row.tags["addr:place"] = o.tags["addr:place"]
        /\ PlaceKeys(row) \subseteq {"addr:place"}
    BY DEF address, call, PlaceKeys, AltTagList, AddrKeys, Has
  <1> HIDE DEF row, place, o, point
  <1>5. (\E key \in PlaceKeys(row) : NearPlace(Position(row), row.tags[key])) <=>
           Has(o, "addr:place") /\ NearPlace(point, o.tags["addr:place"])
    BY <1>1, <1>4
  <1>6. PlaceRight(row)
    BY <1>2, <1>3, <1>5 DEF PlaceRight
  <1> QED
    BY <1>6 DEF row, o, point

LEMMA NewAddress ==
  ASSUME TypeInv, SecondRead, NEW row \in NewRows(calls', "nodes_with_addresses"),
         row.type # "interpolated"
  PROVE  LET o == file[pos]
             line == locations(o, index) IN
         /\ pass = "second" /\ pos \in 1..Len(file)
         /\ \/ /\ o.type = "node" /\ HasAny(o, AddrKeys)
               /\ row = address("node", o.id, AltTagList(o), 0, process_node(o)).row
            \/ /\ o.type = "way" /\ is_closed(o) /\ centroid_ok(line)
               /\ row = address("way", o.id, AltTagList(o), 0, process_way(o, Centroid(line))).row
  <1> DEFINE o == file[pos]
             line == locations(o, index)
  <1>0. /\ file \in InputFiles /\ TablesTyped /\ pass = "second" /\ pos \in 1..Len(file)
    BY FileFacts DEF TypeInv, PassTyped, SecondRead, apply_second_node, apply_second_way,
                     Next_object, Second_object, Between_handlers
  <1>1. PICK c \in Elements(calls') : c.layer = "nodes_with_addresses" /\ row = c.row
    BY DEF NewRows
  <1>2. CASE apply_second_node
    <2>1. o.type = "node" /\ calls' = NodeCalls(o)
      BY <1>2 DEF apply_second_node, Next_object, Second_object, Between_handlers, second_node
    <2>2. NodeCall(c, o)
      BY <1>0, <1>1, <2>1, NodeCallsFacts
    <2>3. HasAny(o, AddrKeys) /\ c = address("node", o.id, AltTagList(o), 0, process_node(o))
      BY <1>1, <2>2 DEF NodeCall, StreetCall, OnWayCall, PlaceCall, write_line, call
    <2> QED
      BY <1>0, <1>1, <2>1, <2>3
  <1>3. CASE apply_second_way
    <2>1. /\ o.type = "way"
          /\ \E ip \in interpolations(o) : calls' = WayCalls(o, line, ip)
      BY <1>3 DEF apply_second_way, Next_object, Second_object, Between_handlers, second_way
    <2>2. PICK ip \in interpolations(o) : calls' = WayCalls(o, line, ip)
      BY <2>1
    <2>3. WayCall(c, o, line, ip)
      BY <1>0, <1>1, <2>1, <2>2, WayCallsFacts
    <2>4. /\ is_closed(o) /\ centroid_ok(line)
          /\ c = address("way", o.id, AltTagList(o), 0, process_way(o, Centroid(line)))
      BY <1>1, <2>3 DEF WayCall, StreetCall, OnWayCall, PlaceCall, write_line, call, address,
                        IpRow, address_of_interpolation
    <2> QED
      BY <1>0, <1>1, <2>1, <2>4
  <1> QED
    BY <1>2, <1>3 DEF SecondRead

LEMMA VerdictStep ==
  ASSUME TypeInv, IndexInv, PlaceInv, VerdictInv, [Next]_vars
  PROVE  VerdictInv'
  <1> DEFINE R == AllOf("nodes_with_addresses")
  <1>0. "nodes_with_addresses" \in SetLayer /\ file \in InputFiles
    BY LayerFacts DEF LayerNames, SetLayer, TypeInv, PassTyped
  <1>1. \/ (Still \/ FirstRead) /\ R' = R
        \/ SecondRead /\ R' = R \union NewRows(calls', "nodes_with_addresses")
    BY <1>0, RowSteps
  <1>2. file' = file
    BY <1>1 DEF Still, FirstRead, SecondRead, apply_first_node, apply_first_way, next_pass,
                apply_second_node, apply_second_way
  <1>3. ASSUME NEW row PROVE PlaceRight(row)' <=> PlaceRight(row)
    BY <1>2 DEF PlaceRight, PlaceFlag, PlaceKeys, NearPlace, Position, Places, TrueLine, LineIn, TrueLoc, LocIn,
                Nodes, NodesIn, Objects, ObjectsIn
  <1> SUFFICES ASSUME Sorted(file), NEW row \in R', row.type # "interpolated"
               PROVE  PlaceRight(row)
    BY <1>2, <1>3 DEF VerdictInv
  <1>4. CASE row \in R
    BY <1>4 DEF VerdictInv
  <1>5. CASE SecondRead /\ row \in NewRows(calls', "nodes_with_addresses")
    <2> DEFINE o == file[pos]
               line == locations(o, index)
    <2>1. /\ pass = "second" /\ pos \in 1..Len(file)
          /\ \/ o.type = "node" /\ row = address("node", o.id, AltTagList(o), 0, process_node(o)).row
             \/ /\ o.type = "way"
                /\ row = address("way", o.id, AltTagList(o), 0, process_way(o, Centroid(line))).row
      BY <1>5, NewAddress
    <2>2. o.type = "way" => line = TrueLine(o)
      BY <2>1, LinesAreTrue DEF Passed
    <2> QED
      BY <2>1, <2>2, NodeVerdict, WayVerdict
  <1> QED
    BY <1>1, <1>4, <1>5

(* In a sorted file the two place flags of an address together say whether *)
(* there is a place of its name in reach: neither the order of the tables, *)
(* nor which of several places is taken, nor what the first search of a    *)
(* node has found changes that.                                            *)
THEOREM PlacesJudged == Spec => []PlaceVerdictIsRight
  <1>1. TypeInv /\ IndexInv /\ PlaceInv /\ VerdictInv /\ [Next]_vars => VerdictInv'
    BY VerdictStep
  <1>2. Init => VerdictInv
    <2>1. Init => AllOf("nodes_with_addresses") = {}
      BY FedInit, LayerFacts, None DEF LayerNames, AllOf
    <2> QED
      BY <2>1 DEF VerdictInv
  <1>3. TypeInv /\ VerdictInv => PlaceVerdictIsRight
    <2> SUFFICES ASSUME TypeInv, VerdictInv, Sorted(file), NEW row \in Located
                 PROVE  PlaceRight(row)
      BY DEF PlaceVerdictIsRight, PlaceRight, PlaceFlag, PlaceKeys, NearPlace
    <2>1. row \in AllOf("nodes_with_addresses") /\ row.type # "interpolated"
      BY FedFacts, LayerFacts DEF TypeInv, LayerNames, AllOf, Located
    <2> QED
      BY <2>1 DEF VerdictInv
  <1> QED
    BY <1>1, <1>2, <1>3, PlaceInvariant, IndexInvariant, TypeInvariant, PTL DEF Spec

-----------------------------------------------------------------------------
(* The rows a node of the file may get, and how many of them it has got or *)
(* is still to get                                                         *)
AddressRows(k) ==
    {[type |-> "node", id |-> file[k].id, tags |-> AltTagList(file[k]), nr |-> 0,
      road_id |-> road, nody_place_id |-> nody, wayy_place_id |-> wayy] :
        road \in BOOLEAN, nody \in BOOLEAN, wayy \in BOOLEAN}
Waiting(k) == {c \in Elements(calls) : c.layer = "nodes_with_addresses" /\ c.row \in AddressRows(k)}
Given(k) == Count(Fed["nodes_with_addresses"], AddressRows(k)) + Count(calls, Waiting(k))
IsAddress(k) == file[k].type = "node" /\ HasAny(file[k], AddrKeys)
HandledOnce == \A k \in 1..Len(file) : IsAddress(k) =>
    Given(k) = IF pass = "second" /\ k < pos THEN 1 ELSE 0
RowsAreKnown == \A row \in AllOf("nodes_with_addresses") : row.type = "node" =>
    \E k \in 1..Len(file) : file[k].type = "node" /\ row \in AddressRows(k)

LEMMA CountNothing ==
  ASSUME NEW s, NEW R, \A e \in Elements(s) : e \notin R
  PROVE  Count(s, R) = 0
  <1>1. {i \in DOMAIN s : s[i] \in R} = {}
    BY DEF Elements
  <1> QED
    BY <1>1, FS_EmptySet DEF Count

LEMMA NodeAddress ==
  ASSUME TablesTyped, file \in InputFiles, NEW k \in 1..Len(file)
  PROVE  LET node == file[k]
             ids == process_node(node) IN
         /\ address("node", node.id, AltTagList(node), 0, ids).row \in AddressRows(k)
         /\ IsSequence(feed_entrances(node) \o ids.calls)
         /\ \A c \in Elements(feed_entrances(node) \o ids.calls) : c.layer # "nodes_with_addresses"
  <1> DEFINE node == file[k]
             street == StreetOf(node, node.loc, "node")
             place1 == PlaceOf(node, node.loc, "node", "addr:street")
             place2 == PlaceOf(node, node.loc, "node", "addr:place")
             ids == process_node(node)
             A == feed_entrances(node)
  <1>1. /\ IsStreet(street, "node", node.id) /\ IsPlace(place1, "node") /\ IsPlace(place2, "node")
        /\ ids.calls = street.calls \o place1.calls \o place2.calls
        /\ ids.road_id = street.road_id
        /\ ids.nody_place_id = (place1.nody_place_id \/ place2.nody_place_id)
        /\ ids.wayy_place_id = (place1.wayy_place_id \/ place2.wayy_place_id)
    BY StreetOfShape, PlaceOfShape DEF process_node
  <1>2. IsSequence(A) /\ \A c \in Elements(A) : c.layer = "entrances"
    <2> DEFINE e == call("entrances", [node_id |-> node.id])
    <2>1. A = <<>> \/ A = <<e>>
      BY DEF feed_entrances, When
    <2>2. \A c \in Elements(A) : c = e
      BY <2>1, Single, None
    <2> QED
      BY <2>1, <2>2, Single, None DEF call
  <1> HIDE DEF street, place1, place2, A
  <1>3. /\ IsSequence(street.calls) /\ IsSequence(place1.calls) /\ IsSequence(place2.calls)
        /\ \A c \in Elements(street.calls) : StreetCall(c, "node", node.id)
        /\ \A c \in Elements(place1.calls) : PlaceCall(c, "node")
        /\ \A c \in Elements(place2.calls) : PlaceCall(c, "node")
        /\ street.road_id \in BOOLEAN
        /\ place1.nody_place_id \in BOOLEAN /\ place1.wayy_place_id \in BOOLEAN
        /\ place2.nody_place_id \in BOOLEAN /\ place2.wayy_place_id \in BOOLEAN
    BY <1>1, StreetFacts, PlaceFacts
  <1>4. /\ IsSequence(ids.calls)
        /\ Elements(ids.calls) =
              Elements(street.calls) \union Elements(place1.calls) \union Elements(place2.calls)
    BY <1>1, <1>3, Joined
  <1>5. \A c \in Elements(ids.calls) : c.layer # "nodes_with_addresses"
    BY <1>3, <1>4 DEF StreetCall, OnWayCall, PlaceCall, write_line, call
  <1>6. ids.road_id \in BOOLEAN /\ ids.nody_place_id \in BOOLEAN /\ ids.wayy_place_id \in BOOLEAN
    BY <1>1, <1>3
  <1>7. address("node", node.id, AltTagList(node), 0, ids).row \in AddressRows(k)
    <2> HIDE DEF ids
    <2> QED
      BY <1>6 DEF address, call, AddressRows
  <1> HIDE DEF ids
  <1>8. /\ IsSequence(A \o ids.calls)
        /\ Elements(A \o ids.calls) = Elements(A) \union Elements(ids.calls)
    BY <1>2, <1>4, Joined
  <1>9. \A c \in Elements(A \o ids.calls) : c.layer # "nodes_with_addresses"
    BY <1>2, <1>5, <1>8
  <1> QED
    BY <1>7, <1>8, <1>9 DEF A, ids

(* A node with an address gets one row when its turn has come, and nobody  *)
(* else gets one of its rows.                                              *)
LEMMA OneRowEach ==
  ASSUME TypeInv, SecondRead, NEW k \in 1..Len(file), IsAddress(k)
  PROVE  Count(calls', {c \in Elements(calls') : /\ c.layer = "nodes_with_addresses"
                                                 /\ c.row \in AddressRows(k)})
         = IF k = pos THEN 1 ELSE 0
  <1> DEFINE W == {c \in Elements(calls') : /\ c.layer = "nodes_with_addresses"
                                            /\ c.row \in AddressRows(k)}
  <1>0. /\ file \in InputFiles /\ TablesTyped /\ file[k].type = "node"
        /\ \A i \in 1..Len(file) : file[i].type = "node" /\ file[i].id = file[k].id => i = k
    BY FileFacts DEF TypeInv, PassTyped, IsAddress
  <1>1. CASE k # pos
    <2>1. ASSUME NEW c \in Elements(calls'), c \in W PROVE FALSE
      <3>1. /\ c.row \in NewRows(calls', "nodes_with_addresses")
            /\ c.row.type = "node" /\ c.row.id = file[k].id
        BY <2>1 DEF NewRows, AddressRows
      <3>2. /\ pos \in 1..Len(file) /\ file[pos].type = "node"
            /\ c.row = address("node", file[pos].id, AltTagList(file[pos]), 0,
                               process_node(file[pos])).row
        BY <3>1, NewAddress DEF address, call
      <3>3. file[pos].id = file[k].id
        BY <3>1, <3>2 DEF address, call
      <3> QED
        BY <1>0, <1>1, <3>2, <3>3
    <2> QED
      BY <1>1, <2>1, CountNothing
  <1>2. CASE k = pos
    <2> DEFINE node == file[k]
               ids == process_node(node)
               B == feed_entrances(node) \o ids.calls
               e == address("node", node.id, AltTagList(node), 0, ids)
    <2>1. calls' = NodeCalls(node)
      BY <1>0, <1>2 DEF SecondRead, apply_second_node, apply_second_way, Next_object,
                        Second_object, Between_handlers, second_node
    <2>2. calls' = B \o <<e>>
      BY <2>1 DEF NodeCalls, address_of_node, When, IsAddress
    <2>3. /\ e.row \in AddressRows(k) /\ IsSequence(B)
          /\ \A c \in Elements(B) : c.layer # "nodes_with_addresses"
      BY <1>0, NodeAddress
    <2>4. e.layer = "nodes_with_addresses"
      BY DEF address, call
    <2> HIDE DEF B, e
    <2>5. e \in Elements(calls') /\ IsSequence(<<e>>)
      BY <2>2, <2>3, Joined, Single
    <2>6. e \in W /\ \A c \in Elements(B) : c \notin W
      BY <2>3, <2>4, <2>5
    <2> HIDE DEF W
    <2>7. Count(B, W) = 0 /\ Count(<<e>>, W) = 1
      BY <2>6, CountNothing, CountSingle
    <2>8. B \in Seq(Elements(B) \union {e}) /\ <<e>> \in Seq(Elements(B) \union {e})
      BY <2>3, Widened, Single
    <2>9. Count(B \o <<e>>, W) = Count(B, W) + Count(<<e>>, W)
      BY <2>8, CountConcat
    <2> QED
      BY <1>2, <2>2, <2>7, <2>9 DEF W
  <1> QED
    BY <1>1, <1>2

LEMMA HandledStep ==
  ASSUME TypeInv, HandledOnce, [Next]_vars
  PROVE  HandledOnce'
  <1> DEFINE L == "nodes_with_addresses"
  <1>0. /\ L \in Layer \ {"nearest_roads", "nearest_areas"} /\ L \in Layer /\ IsSequence(calls)
        /\ pass \in {"first", "second"} /\ pos \in 1..(Len(file) + 1) /\ Len(file) \in Nat
    BY LayerFacts, FileFacts DEF LayerNames, TypeInv, CallsTyped, PassTyped
  <1>1. file' = file /\ (Deliver \/ (Fed' = Fed /\ (Read \/ Quiet)))
    BY StepKinds DEF Deliver, Quiet, Read, apply_first_node, apply_first_way, next_pass,
                     apply_second_node, apply_second_way
  <1> SUFFICES ASSUME NEW k \in 1..Len(file), IsAddress(k)
               PROVE  Given(k)' = IF pass' = "second" /\ k < pos' THEN 1 ELSE 0
    BY <1>1 DEF HandledOnce, IsAddress
  <1>2. Given(k) = IF pass = "second" /\ k < pos THEN 1 ELSE 0
    BY DEF HandledOnce
  <1>3. AddressRows(k)' = AddressRows(k)
    BY <1>1 DEF AddressRows
  <1>4. CASE Deliver
    <2>1. \A c \in Elements(calls) : c \in Waiting(k) <=> c.layer = L /\ c.row \in AddressRows(k)
      BY DEF Waiting
    <2>2. Count(Fed'[L], AddressRows(k)) + Count(calls', Waiting(k)) = Given(k)
      BY <1>0, <1>4, <2>1, DeliverCounts DEF Given
    <2>3. \A i \in DOMAIN calls' : calls'[i] \in Waiting(k) <=> calls'[i] \in Waiting(k)'
      <3>1. Elements(calls') \subseteq Elements(calls)
        BY <1>4, DeliverFacts
      <3> QED
        BY <1>3, <3>1 DEF Waiting, Elements
    <2>4. Count(calls', Waiting(k)) = Count(calls', Waiting(k)')
      BY <2>3, CountSame
    <2> QED
      BY <1>2, <1>3, <1>4, <2>2, <2>4 DEF Given, Deliver
  <1>5. ASSUME Fed' = Fed, calls' = calls PROVE Given(k)' = Given(k)
    BY <1>3, <1>5 DEF Given, Waiting
  <1>6. CASE Fed' = Fed /\ Quiet
    BY <1>2, <1>5, <1>6 DEF Quiet, second_vars
  <1>7. CASE Fed' = Fed /\ FirstRead
    BY <1>0, <1>2, <1>5, <1>7 DEF FirstRead, apply_first_node, apply_first_way, next_pass, second_vars
  <1>8. CASE Fed' = Fed /\ SecondRead
    <2>1. calls = <<>> /\ pass = "second" /\ pass' = pass /\ pos' = pos + 1
      BY <1>8 DEF SecondRead, apply_second_node, apply_second_way, Second_object,
                  Between_handlers
    <2>2. Count(calls, Waiting(k)) = 0
      BY <2>1, CountEmpty
    <2>3. Count(calls', Waiting(k)') = IF k = pos THEN 1 ELSE 0
      BY <1>3, <1>8, OneRowEach DEF Waiting
    <2> DEFINE n == Count(Fed[L], AddressRows(k))
    <2>4. n \in Nat
      <3>1. IsSequence(Fed[L])
        BY <1>0, FedFacts DEF TypeInv
      <3> QED
        BY <3>1, CountType DEF IsSequence
    <2>5. Given(k) = n + Count(calls, Waiting(k)) /\ Given(k)' = n + Count(calls', Waiting(k)')
      BY <1>3, <1>8 DEF Given
    <2> HIDE DEF n
    <2> QED
      BY <1>0, <1>2, <2>1, <2>2, <2>3, <2>4, <2>5
  <1> QED
    BY <1>1, <1>4, <1>6, <1>7, <1>8 DEF Read, FirstRead, SecondRead

LEMMA KnownStep ==
  ASSUME TypeInv, RowsAreKnown, [Next]_vars
  PROVE  RowsAreKnown'
  <1> DEFINE R == AllOf("nodes_with_addresses")
  <1>0. "nodes_with_addresses" \in SetLayer
    BY LayerFacts DEF LayerNames, SetLayer
  <1>1. \/ (Still \/ FirstRead) /\ R' = R
        \/ SecondRead /\ R' = R \union NewRows(calls', "nodes_with_addresses")
    BY <1>0, RowSteps
  <1>2. file' = file
    BY <1>1 DEF Still, FirstRead, SecondRead, apply_first_node, apply_first_way, next_pass,
                apply_second_node, apply_second_way
  <1>3. \A k : AddressRows(k)' = AddressRows(k)
    BY <1>2 DEF AddressRows
  <1> SUFFICES ASSUME NEW row \in R', row.type = "node"
               PROVE  \E k \in 1..Len(file) : file[k].type = "node" /\ row \in AddressRows(k)
    BY <1>2, <1>3 DEF RowsAreKnown
  <1>4. CASE row \in R
    BY <1>4 DEF RowsAreKnown
  <1>5. CASE SecondRead /\ row \in NewRows(calls', "nodes_with_addresses")
    <2>1. /\ pos \in 1..Len(file) /\ file[pos].type = "node"
          /\ row = address("node", file[pos].id, AltTagList(file[pos]), 0,
                           process_node(file[pos])).row
      BY <1>5, NewAddress DEF address, call
    <2>2. row \in AddressRows(pos)
      BY <2>1, NodeAddress DEF TypeInv, PassTyped
    <2> QED
      BY <2>1, <2>2
  <1> QED
    BY <1>1, <1>4, <1>5

(* The destructors run when the file is read and everything written, from  *)
(* the youngest writer to the oldest, and each empties its transaction.    *)
ClosingAtTheEnd == destroyed > 0 => pass = "second" /\ pos > Len(file) /\ calls = <<>>
YoungestCommitted == \A i \in 1..11 : i > 11 - destroyed => txn[LayerOrder[i]] = <<>>
ExitAfterLast == exit = "exit0" => destroyed = 11
EndInv == ClosingAtTheEnd /\ ExitAfterLast

LEMMA EndStep ==
  ASSUME TypeInv, EndInv, [Next]_vars
  PROVE  EndInv'
  <1>0. /\ destroyed \in 0..11 /\ pass \in {"first", "second"} /\ Len(LayerOrder) = 11
        /\ pos \in 1..(Len(file) + 1) /\ Len(file) \in Nat
    BY LayerFacts, FileFacts DEF TypeInv, PassTyped, LayersTyped
  <1>1. ASSUME destroyed = 0, destroyed' = 0, exit' = exit PROVE EndInv'
    BY <1>0, <1>1 DEF EndInv, ClosingAtTheEnd, ExitAfterLast
  <1>2. ASSUME UNCHANGED <<file, pass, pos, calls, destroyed>>,
               exit' = exit \/ exit' # "exit0"
        PROVE  EndInv'
    BY <1>2 DEF EndInv, ClosingAtTheEnd, ExitAfterLast
  <1>3. CASE FirstRead
    <2>1. pass = "first" /\ UNCHANGED layer_vars
      BY <1>3 DEF FirstRead, apply_first_node, apply_first_way, next_pass
    <2>2. destroyed = 0
      BY <1>0, <2>1 DEF EndInv, ClosingAtTheEnd
    <2> QED
      BY <1>1, <2>1, <2>2 DEF layer_vars
  <1>4. CASE SecondRead
    BY <1>1, <1>4 DEF SecondRead, apply_second_node, apply_second_way, Second_object, Writable,
                      layer_vars
  <1>5. CASE construct
    BY <1>2, <1>5 DEF construct, open_layer, second_vars
  <1>6. CASE write_feature
    <2>1. /\ calls # <<>>
          /\ UNCHANGED layer_vars \/ \E l, r : create_feature(l, r)
      BY <1>6 DEF write_feature, write_next
    <2>2. destroyed = 0
      BY <1>0, <2>1 DEF EndInv, ClosingAtTheEnd
    <2>3. destroyed' = destroyed /\ exit' = exit
      BY <2>1 DEF layer_vars, create_feature
    <2> QED
      BY <1>1, <2>2, <2>3
  <1>7. CASE return_from_main
    <2>1. /\ pass = "second" /\ pos > Len(file) /\ calls = <<>>
          /\ UNCHANGED <<file, pass, pos, calls>>
          /\ exit = "none" /\ exit' = IF destroyed' = 11 THEN "exit0" ELSE exit
      BY <1>0, <1>7 DEF return_from_main, Between_handlers, destroy_writer, second_vars
    <2> QED
      BY <2>1 DEF EndInv, ClosingAtTheEnd, ExitAfterLast
  <1>8. CASE construct_fails \/ write_fails \/ handler_throws \/ killed
    BY <1>2, <1>8 DEF construct_fails, open_layer_fails, write_fails, create_feature_fails,
                      handler_throws, killed, die, second_vars
  <1>9. CASE UNCHANGED vars
    BY <1>2, <1>9 DEF vars, second_vars, layer_vars
  <1> QED
    BY <1>3, <1>4, <1>5, <1>6, <1>7, <1>8, <1>9 DEF Next, Program, Failure, FirstRead, SecondRead

LEMMA EndInvariant == Spec => []EndInv
  <1>1. TypeInv /\ EndInv /\ [Next]_vars => EndInv'
    BY EndStep
  <1>2. Init => EndInv
    BY DEF Init, SecondInit, WriterInit, EndInv, ClosingAtTheEnd, ExitAfterLast
  <1> QED
    BY <1>1, <1>2, TypeInvariant, PTL DEF Spec

(* When main has returned, nothing is left to write.                       *)
LEMMA AllWritten ==
  ASSUME TypeInv, EndInv, Returned
  PROVE  /\ destroyed = 11 /\ pass = "second" /\ pos > Len(file) /\ calls = <<>>
         /\ \A l \in Layer : AllOf(l) = rows(l)
  <1>1. destroyed = 11 /\ pass = "second" /\ pos > Len(file) /\ calls = <<>>
    BY DEF Returned, EndInv, ExitAfterLast, ClosingAtTheEnd
  <1>2. \A l \in Layer : AllOf(l) = rows(l)
    BY <1>1, None, FedFacts DEF AllOf, TypeInv
  <1> QED
    BY <1>1, <1>2

LEMMA CommittedStep ==
  ASSUME CommitFaults = FALSE, TypeInv, EndInv, YoungestCommitted, [Next]_vars
  PROVE  YoungestCommitted'
  <1>0. /\ destroyed \in 0..11 /\ Len(LayerOrder) = 11
        /\ DOMAIN txn = Layer /\ \A i \in 1..11 : LayerOrder[i] \in Layer
    BY LayerFacts DEF TypeInv, LayersTyped
  <1>1. CASE UNCHANGED <<txn, destroyed>>
    BY <1>1 DEF YoungestCommitted
  <1>2. CASE write_feature
    <2>1. /\ calls # <<>>
          /\ UNCHANGED layer_vars \/ \E l, r : create_feature(l, r)
      BY <1>2 DEF write_feature, write_next
    <2>2. destroyed = 0
      BY <1>0, <2>1 DEF EndInv, ClosingAtTheEnd
    <2>3. destroyed' = destroyed
      BY <2>1 DEF layer_vars, create_feature
    <2> QED
      BY <2>2, <2>3 DEF YoungestCommitted
  <1>3. CASE return_from_main
    <2>1. destroyed < 11 /\ destroyed' = destroyed + 1
      BY <1>0, <1>3 DEF return_from_main, destroy_writer
    <2> DEFINE l == LayerOrder[11 - destroyed]
    <2>2. txn' = [txn EXCEPT ![l] = <<>>]
      BY <1>0, <1>3 DEF return_from_main, destroy_writer, CommitTransaction
    <2> SUFFICES ASSUME NEW i \in 1..11, i > 11 - destroyed' PROVE txn'[LayerOrder[i]] = <<>>
      BY DEF YoungestCommitted
    <2>3. i = 11 - destroyed \/ i > 11 - destroyed
      BY <1>0, <2>1
    <2>4. i > 11 - destroyed => txn[LayerOrder[i]] = <<>>
      BY DEF YoungestCommitted
    <2> QED
      BY <1>0, <2>2, <2>3, <2>4
  <1>4. CASE Read \/ construct \/ construct_fails \/ write_fails \/ handler_throws \/ killed \/ UNCHANGED vars
    BY <1>1, <1>4 DEF Read, apply_first_node, apply_first_way, next_pass, apply_second_node,
                      apply_second_way, construct, open_layer, construct_fails, open_layer_fails,
                      write_fails, create_feature_fails, handler_throws, killed, die, vars, layer_vars
  <1> QED
    BY <1>2, <1>3, <1>4 DEF Next, Program, Failure, Read

LEMMA StoredInit == Init => HandledOnce /\ RowsAreKnown /\ YoungestCommitted
  <1> SUFFICES ASSUME Init PROVE HandledOnce /\ RowsAreKnown /\ YoungestCommitted
    OBVIOUS
  <1>1. /\ Fed["nodes_with_addresses"] = <<>> /\ AllOf("nodes_with_addresses") = {}
        /\ calls = <<>> /\ pass = "first" /\ destroyed = 0 /\ exit = "none"
    BY FedInit, LayerFacts, None DEF LayerNames, AllOf, Init, SecondInit, WriterInit
  <1>2. ASSUME NEW k PROVE Given(k) = 0
    <2>1. Count(Fed["nodes_with_addresses"], AddressRows(k)) = 0 /\ Count(calls, Waiting(k)) = 0
      BY <1>1, CountEmpty
    <2> QED
      BY <2>1 DEF Given
  <1> QED
    BY <1>1, <1>2 DEF HandledOnce, RowsAreKnown, YoungestCommitted

LEMMA StoredAtTheEnd ==
  ASSUME TypeInv, HandledOnce, RowsAreKnown, EndInv, YoungestCommitted
  PROVE  AddressNodesAreStored
  <1> DEFINE L == "nodes_with_addresses"
             Of(node) == {i \in DOMAIN disk[L] : LET row == disk[L][i] IN
                             row.type = "node" /\ row.id = node.id /\ row.tags = AltTagList(node)}
  <1> SUFFICES ASSUME Returned, NEW node \in Objects("node"), HasAny(node, AddrKeys)
               PROVE  Cardinality(Of(node)) = 1
    BY DEF AddressNodesAreStored
  <1>0. /\ L \in Layer /\ file \in InputFiles /\ DOMAIN file = 1..Len(file) /\ Len(file) \in Nat
        /\ pos \in 1..(Len(file) + 1)
        /\ \A i, k \in 1..Len(file) : file[i].type = "node" /\ file[k].type = "node" /\ file[i].id = file[k].id => i = k
    BY LayerFacts, FileFacts DEF LayerNames, TypeInv, PassTyped
  <1>1. PICK k \in 1..Len(file) : node = file[k] /\ IsAddress(k)
    BY <1>0 DEF Objects, ObjectsIn, IsAddress
  <1>2. destroyed = 11 /\ pass = "second" /\ k < pos /\ calls = <<>>
    BY <1>0, AllWritten
  <1>3. disk[L] = Fed[L]
    <2>1. PICK i \in 1..11 : L = LayerOrder[i]
      BY LayerFacts, <1>0 DEF Layer
    <2>2. txn[L] = <<>>
      BY <1>2, <2>1 DEF YoungestCommitted
    <2>3. disk[L] \o <<>> = disk[L]
      BY <1>0, ConcatEmptySeq DEF TypeInv, LayersTyped, IsSequence
    <2> QED
      BY <1>0, <2>2, <2>3 DEF Fed, fed
  <1>4. Count(Fed[L], AddressRows(k)) = 1
    <2>1. Count(calls, Waiting(k)) = 0
      BY <1>2, CountEmpty
    <2>2. IsSequence(Fed[L])
      BY <1>0, FedFacts DEF TypeInv
    <2>3. Count(Fed[L], AddressRows(k)) \in Nat
      BY <2>2, CountType DEF IsSequence
    <2>4. Count(Fed[L], AddressRows(k)) + Count(calls, Waiting(k)) = 1
      BY <1>1, <1>2 DEF HandledOnce, Given
    <2> QED
      BY <2>1, <2>3, <2>4
  <1>5. ASSUME NEW i \in DOMAIN disk[L]
        PROVE  disk[L][i] \in AddressRows(k) <=>
                  /\ disk[L][i].type = "node" /\ disk[L][i].id = node.id
                  /\ disk[L][i].tags = AltTagList(node)
    <2> DEFINE row == disk[L][i]
    <2>1. row \in AllOf(L)
      BY <1>3 DEF AllOf, Elements
    <2> HIDE DEF row
    <2>2. row \in AddressRows(k) => row.type = "node" /\ row.id = node.id /\ row.tags = AltTagList(node)
      BY <1>1 DEF AddressRows
    <2>3. row.type = "node" /\ row.id = node.id => row \in AddressRows(k)
      <3> SUFFICES ASSUME row.type = "node", row.id = node.id PROVE row \in AddressRows(k)
        OBVIOUS
      <3>1. PICK j \in 1..Len(file) : file[j].type = "node" /\ row \in AddressRows(j)
        BY <2>1 DEF RowsAreKnown
      <3>2. row.id = file[j].id
        BY <3>1 DEF AddressRows
      <3>3. j = k
        BY <1>0, <1>1, <3>1, <3>2 DEF IsAddress
      <3> QED
        BY <3>1, <3>3
    <2> QED
      BY <2>2, <2>3 DEF row
  <1>6. Of(node) = {i \in DOMAIN Fed[L] : Fed[L][i] \in AddressRows(k)}
    BY <1>3, <1>5
  <1> QED
    BY <1>4, <1>6 DEF Count

(* If commits do not fail, main returns 0 only with exactly one row in the *)
(* file for each node of the input that has an address: second_node makes  *)
(* one, write_next delivers it, and the destructors commit the last.       *)
THEOREM NodesStored ==
  ASSUME CommitFaults = FALSE
  PROVE  Spec => []AddressNodesAreStored
  <1> DEFINE Inv == HandledOnce /\ RowsAreKnown /\ YoungestCommitted
  <1>1. TypeInv /\ EndInv /\ Inv /\ [Next]_vars => Inv'
    BY HandledStep, KnownStep, CommittedStep
  <1>2. TypeInv /\ EndInv /\ Inv => AddressNodesAreStored
    BY StoredAtTheEnd
  <1>3. Init => Inv
    BY StoredInit
  <1> QED
    BY <1>1, <1>2, <1>3, EndInvariant, TypeInvariant, PTL DEF Spec

-----------------------------------------------------------------------------
(* The two tables of highways together hold, by name, the highways of the  *)
(* part of the file that has been passed, with their lines in the file if  *)
(* the nodes came first.                                                   *)
StreetAt(o, line, name) ==
    /\ o.type = "way" /\ Len(o.refs) >= 2 /\ Has(o, "highway")
    /\ name \in get_streetnames(o) /\ linestring_ok(line)
Entries(name) == Elements(name2highway_area[name]) \union Elements(name2highway_nonarea[name])
HighwayInv == Sorted(file) => \A name \in Names : \A x : x \in Entries(name) <=>
    \E k \in 1..Len(file) : /\ Passed(k) /\ StreetAt(file[k], TrueLine(file[k]), name)
                            /\ x = highway_entry(file[k], TrueLine(file[k]))

LEMMA HighwayEntered ==
  ASSUME TablesTyped, NEW o, o.type = "way", NEW line, save_highway(o, line), NEW name \in Names, NEW x
  PROVE  x \in Entries(name)' <=>
            x \in Entries(name) \/ (StreetAt(o, line, name) /\ x = highway_entry(o, line))
  <1> DEFINE names == IF Len(o.refs) >= 2 /\ Has(o, "highway") /\ linestring_ok(line)
                      THEN get_streetnames(o) ELSE {}
             e == highway_entry(o, line)
             A == name2highway_area
             B == name2highway_nonarea
  <1>1. /\ A' = IF names # {} /\ is_area(o) THEN Insert(A, names, e) ELSE A
        /\ B' = IF names # {} /\ ~is_area(o) THEN Insert(B, names, e) ELSE B
    BY DEF save_highway
  <1>2. name \in names <=> StreetAt(o, line, name)
    BY DEF StreetAt
  <1>3. /\ IsMultimap(A) /\ IsMultimap(B)
    BY DEF TablesTyped
  <1> HIDE DEF names, e
  <1>4. /\ Elements(Insert(A, names, e)[name]) = Elements(A[name]) \union (IF name \in names THEN {e} ELSE {})
        /\ Elements(Insert(B, names, e)[name]) = Elements(B[name]) \union (IF name \in names THEN {e} ELSE {})
    BY <1>3, InsertFacts
  <1>5. Entries(name)' = Entries(name) \union (IF name \in names THEN {e} ELSE {})
    <2>1. Entries(name)' = Elements(A'[name]) \union Elements(B'[name])
      BY DEF Entries
    <2>2. CASE names = {}
      BY <1>1, <2>1, <2>2 DEF Entries
    <2>3. CASE names # {}
      BY <1>1, <1>4, <2>1, <2>3 DEF Entries
    <2> QED
      BY <2>2, <2>3
  <1> QED
    BY <1>2, <1>5 DEF e

LEMMA HighwayStep ==
  ASSUME TypeInv, IndexInv, HighwayInv, [Next]_vars
  PROVE  HighwayInv'
  <1>0. /\ file \in InputFiles /\ DOMAIN file = 1..Len(file) /\ Len(file) \in Nat
        /\ pos \in 1..(Len(file) + 1) /\ pass \in {"first", "second"} /\ TablesTyped
        /\ Still \/ FirstRead \/ SecondRead
    BY FileFacts, RowSteps DEF TypeInv, PassTyped
  <1>1. file' = file
    BY <1>0 DEF Still, FirstRead, SecondRead, apply_first_node, apply_first_way, next_pass,
                apply_second_node, apply_second_way
  <1>2. \A k \in 1..Len(file) : TrueLine(file[k])' = TrueLine(file[k])
    BY <1>1 DEF TrueLine, LineIn, TrueLoc, LocIn, Nodes, NodesIn, Objects, ObjectsIn
  <1>3. ASSUME UNCHANGED <<name2highway_area, name2highway_nonarea>>,
               \A k \in 1..Len(file) : file[k].type # "node" => (Passed(k)' <=> Passed(k))
        PROVE  HighwayInv'
    <2>1. \A name : Entries(name)' = Entries(name)
      BY <1>3 DEF Entries
    <2> DEFINE At(k, name) == StreetAt(file[k], TrueLine(file[k]), name)
    <2>2. \A k \in 1..Len(file), name \in Names :
             (Passed(k)' /\ At(k, name)) <=> (Passed(k) /\ At(k, name))
      <3>1. \A k \in 1..Len(file) : \A name : At(k, name) => file[k].type # "node"
        BY DEF StreetAt
      <3> QED
        BY <1>3, <3>1
    <2>3. \A k \in 1..Len(file), name \in Names : At(k, name)' <=> At(k, name)
      BY <1>1, <1>2
    <2> SUFFICES ASSUME Sorted(file), NEW name \in Names, NEW x
                 PROVE  x \in Entries(name)' <=>
                        \E k \in 1..Len(file) : /\ Passed(k)' /\ At(k, name)
                                                /\ x = highway_entry(file[k], TrueLine(file[k]))
      BY <1>1, <1>2, <2>3 DEF HighwayInv
    <2> QED
      BY <2>1, <2>2 DEF HighwayInv
  <1>4. CASE Still
    BY <1>3, <1>4, <1>0 DEF Still, first_vars, Passed
  <1>5. CASE SecondRead
    <2>1. pass = "second" /\ pass' = "second" /\ UNCHANGED first_vars
      BY <1>5 DEF SecondRead, apply_second_node, apply_second_way, Second_object
    <2> QED
      BY <1>3, <2>1 DEF first_vars, Passed
  <1>6. CASE next_pass
    <2>1. pos > Len(file) /\ pass' = "second" /\ UNCHANGED first_vars
      BY <1>6 DEF next_pass
    <2>2. \A k \in 1..Len(file) : Passed(k)' /\ Passed(k)
      BY <1>0, <2>1 DEF Passed
    <2> QED
      BY <1>3, <2>1, <2>2 DEF first_vars
  <1>7. CASE apply_first_node
    <2>1. /\ pos \in 1..Len(file) /\ pos' = pos + 1 /\ pass' = pass /\ pass = "first"
          /\ file[pos].type = "node" /\ UNCHANGED <<name2highway_area, name2highway_nonarea>>
      BY <1>0, <1>7 DEF apply_first_node, Next_object, first_node
    <2>2. \A k \in 1..Len(file) : Passed(k)' <=> Passed(k) \/ k = pos
      BY <1>0, <2>1 DEF Passed
    <2> QED
      BY <1>3, <2>1, <2>2
  <1>8. CASE apply_first_way
    <2> DEFINE o == file[pos]
               line == locations(o, index)
    <2>1. /\ pos \in 1..Len(file) /\ pos' = pos + 1 /\ pass' = pass /\ pass = "first"
          /\ o.type = "way" /\ save_highway(o, line)
      BY <1>0, <1>8 DEF apply_first_way, Next_object, first_way
    <2>2. \A k \in 1..Len(file) : Passed(k)' <=> Passed(k) \/ k = pos
      BY <1>0, <2>1 DEF Passed
    <2> SUFFICES ASSUME Sorted(file), NEW name \in Names, NEW x
                 PROVE  x \in Entries(name)' <=>
                        \E k \in 1..Len(file) :
                            /\ Passed(k)' /\ StreetAt(file[k], TrueLine(file[k]), name)
                            /\ x = highway_entry(file[k], TrueLine(file[k]))
      BY <1>1, <1>2 DEF HighwayInv
    <2>3. x \in Entries(name) <=>
          \E k \in 1..Len(file) : /\ Passed(k) /\ StreetAt(file[k], TrueLine(file[k]), name)
                                  /\ x = highway_entry(file[k], TrueLine(file[k]))
      BY DEF HighwayInv
    <2>4. line = TrueLine(o)
      <3>1. \A i \in 1..Len(file) : file[i].type = "node" => Passed(i)
        BY <1>0, <2>1, NodesBefore DEF Passed
      <3> QED
        BY <2>1, <3>1, LinesAreTrue
    <2>5. x \in Entries(name)' <=>
             x \in Entries(name) \/ (StreetAt(o, line, name) /\ x = highway_entry(o, line))
      BY <1>0, <2>1, HighwayEntered
    <2> HIDE DEF o, line
    <2> QED
      BY <2>1, <2>2, <2>3, <2>4, <2>5 DEF o
  <1> QED
    BY <1>0, <1>4, <1>5, <1>6, <1>7, <1>8 DEF FirstRead

LEMMA HighwayInvariant == Spec => []HighwayInv
  <1>1. TypeInv /\ IndexInv /\ HighwayInv /\ [Next]_vars => HighwayInv'
    BY HighwayStep
  <1>2. Init => HighwayInv
    <2> SUFFICES ASSUME Init PROVE HighwayInv
      OBVIOUS
    <2>1. /\ Len(file) \in Nat /\ pass = "first" /\ pos = 1
          /\ \A name \in Names : name2highway_area[name] = <<>> /\ name2highway_nonarea[name] = <<>>
      BY FileFacts DEF Init, FirstInit
    <2>2. \A name \in Names : Entries(name) = {}
      BY <2>1, None DEF Entries
    <2>3. \A k \in 1..Len(file) : ~Passed(k)
      BY <2>1 DEF Passed
    <2> QED
      BY <2>2, <2>3 DEF HighwayInv
  <1> QED
    BY <1>1, <1>2, IndexInvariant, TypeInvariant, PTL DEF Spec

-----------------------------------------------------------------------------
(* get_closest_way: the round after round of its loop keeps the closest of *)
(* the entries it has seen whose boxes are near.                           *)
Away(point, x) == Distance(point, uncompress(x.compr_way))
BestOf(best, E, point) ==
    \/ best = Nothing /\ \A e \in E : ~is_point_near_bbox(e.entry.bbox, point)
    \/ \E e \in E : /\ best = Found(e, point) /\ is_point_near_bbox(e.entry.bbox, point)
                    /\ \A d \in E : is_point_near_bbox(d.entry.bbox, point) =>
                                       Away(point, e.entry) <= Away(point, d.entry)

LEMMA RoundKeepsBest ==
  ASSUME NEW best, NEW E, NEW point, NEW d, BestOf(best, E, point),
         \A e \in E \union {d} : Away(point, e.entry) \in Int
  PROVE  BestOf(get_closest_way_from_argument(best, d, point), E \union {d}, point)
  <1> DEFINE next == get_closest_way_from_argument(best, d, point)
             near(e) == is_point_near_bbox(e.entry.bbox, point)
             away(e) == Away(point, e.entry)
  <1>1. next = IF near(d) /\ (best.found => away(d) < best.cur_dist) THEN Found(d, point) ELSE best
    BY DEF get_closest_way_from_argument, Found, Away
  <1>2. CASE best = Nothing /\ \A e \in E : ~near(e)
    <2>1. ~best.found
      BY <1>2 DEF Nothing
    <2> HIDE DEF next, near, away
    <2>2. next = IF near(d) THEN Found(d, point) ELSE Nothing
      BY <1>1, <1>2, <2>1
    <2>3. away(d) \in Int
      BY DEF away
    <2> QED
      BY <1>2, <2>2, <2>3 DEF BestOf, near, away, next
  <1>3. ASSUME NEW e \in E, best = Found(e, point), near(e), \A b \in E : near(b) => away(e) <= away(b)
        PROVE  BestOf(next, E \union {d}, point)
    <2>1. best.found /\ best.cur_dist = away(e)
      BY <1>3 DEF Found, Away
    <2>2. \A b \in E \union {d} : away(b) \in Int
      OBVIOUS
    <2> HIDE DEF next, near, away
    <2>3. next = IF near(d) /\ away(d) < away(e) THEN Found(d, point) ELSE Found(e, point)
      BY <1>1, <1>3, <2>1
    <2>4. CASE near(d) /\ away(d) < away(e)
      <3>1. \A b \in E \union {d} : near(b) => away(d) <= away(b)
        BY <1>3, <2>2, <2>4
      <3> QED
        BY <2>3, <2>4, <3>1 DEF BestOf, near, away, next
    <2>5. CASE ~(near(d) /\ away(d) < away(e))
      <3>1. \A b \in E \union {d} : near(b) => away(e) <= away(b)
        BY <1>3, <2>2, <2>5
      <3> QED
        BY <1>3, <2>3, <2>5, <3>1 DEF BestOf, near, away, next
    <2> QED
      BY <2>4, <2>5
  <1> QED
    BY <1>2, <1>3 DEF BestOf

LEMMA ClosestIsBest ==
  ASSUME TablesTyped, NEW name \in Names, NEW point,
         \A e \in Elements(lookups(name)) : Away(point, e.entry) \in Int
  PROVE  BestOf(get_closest_way(point, name), Elements(lookups(name)), point)
  <1> DEFINE ways == lookups(name)
             n == Len(ways)
             SeenBy(k) == {ways[i] : i \in 1..k}
  <1>1. IsSequence(ways) /\ n \in Nat /\ DOMAIN ways = 1..n
    BY LookupFacts, SequenceFacts
  <1>2. PICK f : /\ Steps(f, n, Nothing, Round(ways, point), Bests(ways, point))
                 /\ get_closest_way(point, name) = f[n]
    BY <1>1, ClosestWay
  <1> HIDE DEF ways, n
  <1>3. ASSUME NEW i \in 1..n
        PROVE  f[i] = get_closest_way_from_argument(f[i - 1], ways[i], point)
    <2>1. i - 1 \in 0..n
      BY <1>1
    <2>2. f[i - 1] \in Bests(ways, point) /\ f[i] = Round(ways, point)[i][f[i - 1]]
      BY <1>2, <2>1 DEF Steps
    <2>3. i \in 1..Len(ways)
      BY DEF n
    <2> QED
      BY <2>2, <2>3 DEF Round
  <1> DEFINE I == {k \in Nat : k <= n => BestOf(f[k], SeenBy(k), point)}
  <1>4. 0 \in I
    <2>1. f[0] = Nothing
      BY <1>2 DEF Steps
    <2> QED
      BY <2>1 DEF BestOf
  <1>5. ASSUME NEW k \in Nat, k \in I PROVE k + 1 \in I
    <2> SUFFICES ASSUME k + 1 <= n PROVE BestOf(f[k + 1], SeenBy(k + 1), point)
      OBVIOUS
    <2>1. k + 1 \in 1..n /\ (k + 1) - 1 = k /\ BestOf(f[k], SeenBy(k), point)
      BY <1>1, <1>5
    <2>2. SeenBy(k + 1) = SeenBy(k) \union {ways[k + 1]}
      OBVIOUS
    <2>3. f[k + 1] = get_closest_way_from_argument(f[k], ways[k + 1], point)
      BY <1>3, <2>1
    <2>4. \A e \in SeenBy(k + 1) : Away(point, e.entry) \in Int
      <3>1. \A i \in 1..(k + 1) : ways[i] \in Elements(ways)
        BY <1>1, <2>1 DEF Elements
      <3> QED
        BY <3>1 DEF ways
    <2> HIDE DEF SeenBy
    <2> QED
      BY <2>1, <2>2, <2>3, <2>4, RoundKeepsBest
  <1>6. n \in I
    <2> HIDE DEF I
    <2> QED
      BY <1>1, <1>4, <1>5, Induction
  <1>7. BestOf(f[n], SeenBy(n), point)
    <2> HIDE DEF SeenBy
    <2> QED
      BY <1>1, <1>6
  <1>8. SeenBy(n) = Elements(ways)
    BY <1>1 DEF Elements
  <1> QED
    BY <1>2, <1>7, <1>8 DEF ways

-----------------------------------------------------------------------------
(* In the second pass of a sorted file: the entries of a name are the      *)
(* streets of the name, and an address is connected to the closest of      *)
(* those, in their compressed form, whose boxes are near.                  *)
NearBox(point, way) == is_point_near_bbox(bbox(TrueLine(way)), point)
KeptAway(point, way) == Distance(point, uncompress(compress(linestring(TrueLine(way)))))
Closest(way, streets, point) ==
    /\ way \in streets /\ NearBox(point, way)
    /\ \A v \in streets : NearBox(point, v) => KeptAway(point, way) <= KeptAway(point, v)
Reading == TypeInv /\ HighwayInv /\ Sorted(file) /\ pass = "second"

LEMMA EntriesAreStreets ==
  ASSUME Reading, NEW name \in Names
  PROVE  /\ Entries(name) = {highway_entry(w, TrueLine(w)) : w \in Streets(name)}
         /\ \A w \in Streets(name) : TrueLine(w) \in LinesIn(file)
  <1>1. DOMAIN file = 1..Len(file) /\ \A k \in 1..Len(file) : Passed(k)
    BY FileFacts DEF Reading, TypeInv, PassTyped, Passed
  <1>2. \A k \in 1..Len(file) : StreetAt(file[k], TrueLine(file[k]), name) <=> file[k] \in Streets(name)
    BY <1>1 DEF StreetAt, Streets, Objects, ObjectsIn
  <1>3. \A w \in Streets(name) : \E k \in 1..Len(file) : w = file[k]
    BY <1>1 DEF Streets, Objects, ObjectsIn
  <1>4. \A x : x \in Entries(name) <=> \E k \in 1..Len(file) :
           StreetAt(file[k], TrueLine(file[k]), name) /\ x = highway_entry(file[k], TrueLine(file[k]))
    BY <1>1 DEF Reading, HighwayInv
  <1>5. \A w \in Streets(name) : TrueLine(w) \in LinesIn(file)
    BY DEF Streets, LinesIn, TrueLine, Objects
  <1> QED
    BY <1>2, <1>3, <1>4, <1>5

LEMMA EntriesNear ==
  ASSUME Reading, NEW name \in Names, NEW point \in PointsIn(file)
  PROVE  \/ /\ get_closest_way(point, name) = Nothing
            /\ \A w \in Streets(name) : ~NearBox(point, w)
         \/ \E e \in Elements(lookups(name)) : \E way :
               /\ get_closest_way(point, name) = Found(e, point)
               /\ e.entry.way_id = way.id /\ Closest(way, Streets(name), point)
  <1> DEFINE E == Elements(lookups(name))
             entry(w) == highway_entry(w, TrueLine(w))
  <1>0. TablesTyped /\ file \in InputFiles
    BY DEF Reading, TypeInv, PassTyped
  <1>1. \A x : x \in Entries(name) <=> \E e \in E : e.entry = x
    <2> DEFINE A == Elements(name2highway_area[name])
               B == Elements(name2highway_nonarea[name])
    <2>1. E = {[entry |-> x, is_area |-> TRUE] : x \in A} \union
              {[entry |-> x, is_area |-> FALSE] : x \in B}
      BY <1>0, LookupFacts
    <2>2. Entries(name) = A \union B
      BY DEF Entries
    <2> HIDE DEF A, B, E
    <2>3. ASSUME NEW x, x \in A \union B PROVE \E e \in E : e.entry = x
      <3> DEFINE e(b) == [entry |-> x, is_area |-> b]
      <3>1. e(TRUE) \in E \/ e(FALSE) \in E
        BY <2>1, <2>3
      <3>2. e(TRUE).entry = x /\ e(FALSE).entry = x
        OBVIOUS
      <3> HIDE DEF e
      <3> QED
        BY <3>1, <3>2
    <2>4. ASSUME NEW e \in E PROVE e.entry \in A \union B
      BY <2>1
    <2> QED
      BY <2>2, <2>3, <2>4
  <1>2. Entries(name) = {entry(w) : w \in Streets(name)}
    BY EntriesAreStreets
  <1>3. \A w : /\ entry(w).way_id = w.id /\ Away(point, entry(w)) = KeptAway(point, w)
               /\ is_point_near_bbox(entry(w).bbox, point) <=> NearBox(point, w)
    BY DEF highway_entry, Away, KeptAway, NearBox
  <1> HIDE DEF E, entry
  <1>4. \A w \in Streets(name) : KeptAway(point, w) \in Int
    BY <1>0, EntriesAreStreets, GeometryAssumption DEF KeptAway
  <1>5. \A e \in E : \E w \in Streets(name) : e.entry = entry(w)
    BY <1>1, <1>2
  <1>6. \A w \in Streets(name) : \E e \in E : e.entry = entry(w)
    BY <1>1, <1>2
  <1>7. \A e \in E : Away(point, e.entry) \in Int
    BY <1>3, <1>4, <1>5
  <1>8. BestOf(get_closest_way(point, name), E, point)
    BY <1>0, <1>7, ClosestIsBest DEF E
  <1>9. CASE get_closest_way(point, name) = Nothing /\ \A e \in E : ~is_point_near_bbox(e.entry.bbox, point)
    BY <1>3, <1>6, <1>9
  <1>10. ASSUME NEW e \in E, get_closest_way(point, name) = Found(e, point),
                is_point_near_bbox(e.entry.bbox, point),
                \A d \in E : is_point_near_bbox(d.entry.bbox, point) =>
                                Away(point, e.entry) <= Away(point, d.entry)
         PROVE  \E way : e.entry.way_id = way.id /\ Closest(way, Streets(name), point)
    <2>1. PICK way \in Streets(name) : e.entry = entry(way)
      BY <1>5
    <2>2. Closest(way, Streets(name), point)
      <3>1. NearBox(point, way) /\ Away(point, e.entry) = KeptAway(point, way)
        BY <1>3, <1>10, <2>1
      <3>2. ASSUME NEW v \in Streets(name), NearBox(point, v)
            PROVE  KeptAway(point, way) <= KeptAway(point, v)
        <4>1. PICK d \in E : d.entry = entry(v)
          BY <1>6
        <4>2. is_point_near_bbox(d.entry.bbox, point) /\ Away(point, d.entry) = KeptAway(point, v)
          BY <1>3, <3>2, <4>1
        <4> QED
          BY <1>10, <3>1, <4>2
      <3> QED
        BY <3>1, <3>2 DEF Closest
    <2> QED
      BY <1>3, <2>1, <2>2
  <1> QED
    BY <1>8, <1>9, <1>10 DEF BestOf, E

(* What an address that names a street gets of it                          *)
StreetDone(r, type, id, streets, point) ==
    /\ (\E w \in streets : NearBox(point, w)) => r.road_id
    /\ r.road_id => \E way : /\ Closest(way, streets, point)
                             /\ write_line(type, id, <<"way", way.id>>) \in Elements(r.calls)

LEMMA StreetIsDone ==
  ASSUME Reading, NEW k \in 1..Len(file), Has(file[k], "addr:street"),
         NEW point \in PointsIn(file), NEW type
  PROVE  StreetDone(StreetOf(file[k], point, type), type, file[k].id,
                    Streets(file[k].tags["addr:street"]), point)
  <1> DEFINE o == file[k]
             name == o.tags["addr:street"]
             r == StreetOf(o, point, type)
  <1>0. name \in Names /\ TablesTyped
    BY NamedStreet DEF Reading, TypeInv, PassTyped
  <1>1. CASE ~has_entry_in_name2highways(name)
    <2>1. name2highway_nonarea[name] = <<>> /\ name2highway_area[name] = <<>> /\ r = NoStreet
      BY <1>1 DEF has_entry_in_name2highways, StreetOf
    <2>2. Entries(name) = {}
      BY <2>1, None DEF Entries
    <2>3. Streets(name) = {}
      <3>1. \A w \in Streets(name) : highway_entry(w, TrueLine(w)) \in Entries(name)
        BY <1>0, EntriesAreStreets
      <3> QED
        BY <2>2, <3>1
    <2> QED
      BY <2>1, <2>3 DEF StreetDone, NoStreet
  <1>2. CASE has_entry_in_name2highways(name)
    <2>1. r = handle_connection_line_street(point, o.id, type, name)
      BY <1>2 DEF StreetOf
    <2>2. CASE /\ get_closest_way(point, name) = Nothing
               /\ \A w \in Streets(name) : ~NearBox(point, w)
      <3>1. r = NoStreet
        BY <2>1, <2>2 DEF handle_connection_line_street, Nothing
      <3> QED
        BY <2>2, <3>1 DEF StreetDone, NoStreet
    <2>3. ASSUME NEW e \in Elements(lookups(name)), NEW way,
                 get_closest_way(point, name) = Found(e, point),
                 e.entry.way_id = way.id, Closest(way, Streets(name), point)
          PROVE  StreetDone(r, type, o.id, Streets(name), point)
      <3>1. r = [calls |-> OnWay(type, o.id, e, name), road_id |-> TRUE]
        BY <2>1, <2>3 DEF handle_connection_line_street, Found, OnWay, write_way, write_point
      <3> DEFINE c == write_line(type, o.id, <<"way", way.id>>)
                 s == OnWay(type, o.id, e, name)
      <3>2. DOMAIN s = 1..3 /\ s[1] = c
        BY <2>3, OnWayFacts, SequenceFacts DEF OnWay
      <3>3. r.road_id /\ r.calls = s
        BY <3>1
      <3> HIDE DEF s, c, r, o, name
      <3>4. c \in Elements(r.calls)
        BY <3>2, <3>3 DEF Elements
      <3> QED
        BY <2>3, <3>3, <3>4 DEF StreetDone, c
    <2> QED
      BY <1>0, <2>2, <2>3, EntriesNear
  <1> QED
    BY <1>1, <1>2

(* A row of an address comes with the lines of the street search that it   *)
(* has the flag of, from where the object is.                              *)
AddressPoint(o, line) == IF o.type = "node" THEN o.loc ELSE Centroid(line)

LEMMA AddressSearch ==
  ASSUME TypeInv, SecondRead, NEW row \in NewRows(calls', "nodes_with_addresses"),
         row.type # "interpolated"
  PROVE  LET o == file[pos]
             line == locations(o, index)
             street == StreetOf(o, AddressPoint(o, line), o.type) IN
         /\ pass = "second" /\ pos \in 1..Len(file)
         /\ row.type = o.type /\ row.id = o.id /\ row.tags = AltTagList(o)
         /\ row.road_id = street.road_id
         /\ Elements(street.calls) \subseteq Elements(calls')
         /\ \/ o.type = "node" /\ o.loc # Undefined
            \/ o.type = "way" /\ centroid_ok(line)
  <1> DEFINE o == file[pos]
             line == locations(o, index)
             street == StreetOf(o, AddressPoint(o, line), o.type)
  <1>0. /\ file \in InputFiles /\ TablesTyped /\ pass = "second" /\ pos \in 1..Len(file)
        /\ \/ /\ o.type = "node" /\ HasAny(o, AddrKeys)
              /\ row = address("node", o.id, AltTagList(o), 0, process_node(o)).row
           \/ /\ o.type = "way" /\ is_closed(o) /\ centroid_ok(line)
              /\ row = address("way", o.id, AltTagList(o), 0, process_way(o, Centroid(line))).row
    BY NewAddress DEF TypeInv, PassTyped
  <1>1. /\ row.type = o.type /\ row.id = o.id /\ row.tags = AltTagList(o)
        /\ row.road_id = street.road_id
    BY <1>0 DEF address, call, process_node, process_way, AddressPoint
  <1>2. CASE o.type = "node"
    <2>1. calls' = NodeCalls(o) /\ ~SecondNodeAborts(o)
      BY <1>2 DEF SecondRead, apply_second_node, apply_second_way, Next_object,
                  Second_object, Between_handlers, second_node
    <2>2. o.loc # Undefined
      BY <1>0, <1>2, <2>1 DEF SecondNodeAborts
    <2>3. Elements(street.calls) \subseteq Elements(calls')
      BY <1>0, <1>2, <2>1, NodeCallsFacts DEF AddressPoint
    <2> QED
      BY <1>0, <1>1, <1>2, <2>2, <2>3
  <1>3. CASE o.type = "way"
    <2>1. \E ip \in interpolations(o) : calls' = WayCalls(o, line, ip)
      BY <1>3 DEF SecondRead, apply_second_node, apply_second_way, Next_object,
                  Second_object, Between_handlers, second_way
    <2>2. PICK ip \in interpolations(o) : calls' = WayCalls(o, line, ip)
      BY <2>1
    <2>3. calls' # <<>> /\ Elements(calls') # {}
      BY None DEF NewRows
    <2>4. is_way_with_nonzero_length(line)
      BY <1>0, <1>3, <2>2, <2>3, WayCallsFacts
    <2>5. Elements(centroid_calls(o, line)) \subseteq Elements(calls')
      BY <1>0, <1>3, <2>2, <2>4, WayCallsFacts
    <2>6. Elements(street.calls) \subseteq Elements(centroid_calls(o, line))
      BY <1>0, <1>3, CentroidCallsFacts DEF AddressPoint
    <2> QED
      BY <1>0, <1>1, <1>3, <2>5, <2>6
  <1> QED
    BY <1>0, <1>2, <1>3

OwnLineTo(line, row, way) == line.type = row.type /\ line.id = row.id /\ line.end = <<"way", way.id>>
StreetRight(row, lines) == LET point   == Position(row)
                               streets == Streets(row.tags["addr:street"]) IN
    /\ point \in PointsIn(file)
    /\ (\E w \in streets : NearBox(point, w)) => row.road_id
    /\ row.road_id => \E way : /\ Closest(way, streets, point)
                               /\ \E line \in lines : OwnLineTo(line, row, way)
StreetInv == Sorted(file) => \A row \in AllOf("nodes_with_addresses") :
    row.type # "interpolated" /\ "addr:street" \in DOMAIN row.tags =>
        StreetRight(row, AllOf("connection_line"))

LEMMA NewStreet ==
  ASSUME Reading, IndexInv, SecondRead, NEW row \in NewRows(calls', "nodes_with_addresses"),
         row.type # "interpolated", "addr:street" \in DOMAIN row.tags
  PROVE  StreetRight(row, NewRows(calls', "connection_line"))
  <1> DEFINE o == file[pos]
             line == locations(o, index)
             point == AddressPoint(o, line)
             street == StreetOf(o, point, o.type)
             lines == NewRows(calls', "connection_line")
             name == o.tags["addr:street"]
  <1>1. /\ pass = "second" /\ pos \in 1..Len(file)
        /\ row.type = o.type /\ row.id = o.id /\ row.tags = AltTagList(o)
        /\ row.road_id = street.road_id
        /\ Elements(street.calls) \subseteq Elements(calls')
        /\ \/ o.type = "node" /\ o.loc # Undefined
           \/ o.type = "way" /\ centroid_ok(line)
    BY AddressSearch DEF Reading
  <1>2. Has(o, "addr:street") /\ row.tags["addr:street"] = name
    BY <1>1 DEF AltTagList, Has
  <1>3. Position(row) = point /\ point \in PointsIn(file)
    <2>1. file \in InputFiles /\ DOMAIN file = 1..Len(file)
      BY FileFacts DEF Reading, TypeInv, PassTyped
    <2>2. CASE o.type = "node"
      <3>1. Position(row) = o.loc
        BY <1>1, <2>1, <2>2, OnlyNode DEF Position
      <3>2. o.loc \in PointsIn(file)
        BY <1>1, <2>1, <2>2 DEF PointsIn, ObjectsIn
      <3> QED
        BY <2>2, <3>1, <3>2 DEF AddressPoint
    <2>3. CASE o.type = "way"
      <3>1. line = TrueLine(o)
        BY <1>1, <2>3, LinesAreTrue DEF Reading, Passed
      <3>2. Position(row) = Centroid(TrueLine(o))
        BY <1>1, <2>1, <2>3, OnlyWay DEF Position
      <3>3. centroid_ok(TrueLine(o)) /\ o \in ObjectsIn(file, "way")
        BY <1>1, <2>1, <2>3, <3>1 DEF ObjectsIn
      <3>4. Centroid(TrueLine(o)) \in PointsIn(file)
        BY <3>3 DEF PointsIn, TrueLine
      <3> QED
        BY <2>3, <3>1, <3>2, <3>4 DEF AddressPoint
    <2> QED
      BY <1>1, <2>2, <2>3
  <1>4. StreetDone(street, o.type, o.id, Streets(name), point)
    BY <1>1, <1>2, <1>3, StreetIsDone
  <1>5. ASSUME NEW way, write_line(o.type, o.id, <<"way", way.id>>) \in Elements(street.calls)
        PROVE  \E l \in lines : OwnLineTo(l, row, way)
    <2> DEFINE c == write_line(o.type, o.id, <<"way", way.id>>)
    <2>1. c \in Elements(calls') /\ c.layer = "connection_line"
      BY <1>1, <1>5 DEF write_line, call
    <2>2. c.row.type = row.type /\ c.row.id = row.id /\ c.row.end = <<"way", way.id>>
      BY <1>1 DEF write_line, call
    <2> HIDE DEF c
    <2>3. c.row \in lines
      BY <2>1 DEF NewRows
    <2> QED
      BY <2>2, <2>3 DEF OwnLineTo
  <1> HIDE DEF o, line, point, street, lines, name
  <1> QED
    BY <1>1, <1>2, <1>3, <1>4, <1>5 DEF StreetRight, StreetDone, lines

LEMMA StreetStep ==
  ASSUME TypeInv, IndexInv, HighwayInv, StreetInv, [Next]_vars
  PROVE  StreetInv'
  <1> DEFINE R == AllOf("nodes_with_addresses")
             L == AllOf("connection_line")
  <1>0. "nodes_with_addresses" \in SetLayer /\ "connection_line" \in SetLayer
    BY LayerFacts DEF LayerNames, SetLayer
  <1>1. \/ (Still \/ FirstRead) /\ R' = R /\ L' = L
        \/ /\ SecondRead
           /\ R' = R \union NewRows(calls', "nodes_with_addresses")
           /\ L' = L \union NewRows(calls', "connection_line")
    BY <1>0, RowSteps
  <1>2. file' = file
    BY <1>1 DEF Still, FirstRead, SecondRead, apply_first_node, apply_first_way, next_pass,
                apply_second_node, apply_second_way
  <1>3. ASSUME NEW row, NEW lines, StreetRight(row, lines), lines \subseteq L'
        PROVE  StreetRight(row, L)'
    <2>1. \A name : Streets(name)' = Streets(name)
      BY <1>2 DEF Streets, TrueLine, LineIn, TrueLoc, LocIn, Nodes, NodesIn, Objects, ObjectsIn
    <2>2. \A way : TrueLine(way)' = TrueLine(way)
      BY <1>2 DEF TrueLine, LineIn, TrueLoc, LocIn, Nodes, NodesIn, Objects, ObjectsIn
    <2>3. Position(row)' = Position(row)
      BY <1>2, <2>2 DEF Position, Nodes, NodesIn, Objects, ObjectsIn
    <2>4. \A way, streets, point : Closest(way, streets, point)' <=> Closest(way, streets, point)
      BY <2>2 DEF Closest, NearBox, KeptAway
    <2>5. \A way, point : NearBox(point, way)' <=> NearBox(point, way)
      BY <2>2 DEF NearBox
    <2> HIDE DEF L
    <2> QED
      BY <1>2, <1>3, <2>1, <2>3, <2>4, <2>5 DEF StreetRight
  <1> SUFFICES ASSUME Sorted(file), NEW row \in R', row.type # "interpolated",
                      "addr:street" \in DOMAIN row.tags
               PROVE  StreetRight(row, L)'
    BY <1>2 DEF StreetInv
  <1>4. CASE row \in R
    <2>1. StreetRight(row, L)
      BY <1>4 DEF StreetInv
    <2> QED
      BY <1>1, <1>3, <2>1
  <1>5. CASE SecondRead /\ row \in NewRows(calls', "nodes_with_addresses")
    <2>1. Reading
      BY <1>5 DEF Reading, SecondRead, apply_second_node, apply_second_way, Second_object
    <2>2. StreetRight(row, NewRows(calls', "connection_line"))
      BY <1>5, <2>1, NewStreet
    <2>3. NewRows(calls', "connection_line") \subseteq L'
      BY DEF AllOf, NewRows
    <2> QED
      BY <1>3, <2>2, <2>3
  <1> QED
    BY <1>1, <1>4, <1>5

LEMMA StreetInvariant == Spec => []StreetInv
  <1>1. TypeInv /\ IndexInv /\ HighwayInv /\ StreetInv /\ [Next]_vars => StreetInv'
    BY StreetStep
  <1>2. Init => StreetInv
    <2>1. Init => AllOf("nodes_with_addresses") = {}
      BY FedInit, LayerFacts, None DEF LayerNames, AllOf
    <2> QED
      BY <2>1 DEF StreetInv
  <1> QED
    BY <1>1, <1>2, HighwayInvariant, IndexInvariant, TypeInvariant, PTL DEF Spec

-----------------------------------------------------------------------------
(* get_bbox: the box holds the way and reaches less than a step beyond it. *)
LEMMA LargestFacts ==
  ASSUME NEW n \in Nat \ {0}, NEW f \in [1..n -> Int]
  PROVE  LET S == {f[i] : i \in 1..n} IN Largest(S) \in S /\ \A y \in S : y <= Largest(S)
  <1> DEFINE S == {f[i] : i \in 1..n}
  <1>1. PICK k \in 1..n : \A j \in 1..n : f[j] <= f[k]
    BY MaximumExists
  <1>2. f[k] \in S /\ \A y \in S : y <= f[k]
    BY <1>1
  <1> HIDE DEF S
  <1>3. Largest(S) \in S /\ \A y \in S : y <= Largest(S)
    BY <1>2 DEF Largest
  <1> QED
    BY <1>3 DEF S

LEMMA SmallestFacts ==
  ASSUME NEW n \in Nat \ {0}, NEW f \in [1..n -> Int]
  PROVE  LET S == {f[i] : i \in 1..n} IN Smallest(S) \in S /\ \A y \in S : Smallest(S) <= y
  <1> DEFINE S == {f[i] : i \in 1..n}
             g == [i \in 1..n |-> -f[i]]
  <1>1. PICK k \in 1..n : \A j \in 1..n : g[j] <= g[k]
    <2>1. g \in [1..n -> Int]
      OBVIOUS
    <2> HIDE DEF g
    <2> QED
      BY <2>1, MaximumExists
  <1>2. \A j \in 1..n : f[k] <= f[j]
    BY <1>1
  <1>3. f[k] \in S /\ \A y \in S : f[k] <= y
    BY <1>2
  <1> HIDE DEF S
  <1>4. Smallest(S) \in S /\ \A y \in S : Smallest(S) <= y
    BY <1>3 DEF Smallest
  <1> QED
    BY <1>4 DEF S

(* The edges of the box in one coordinate, in units                        *)
Enclosed(f, n, high, low, cell) ==
    /\ high \in Int /\ low \in Int
    /\ \A i \in 1..n : low <= f[i] /\ f[i] <= high
    /\ \E i \in 1..n : high < f[i] + cell
    /\ \E i \in 1..n : f[i] < low + cell

LEMMA StepsEnclose ==
  ASSUME NEW n \in Nat \ {0}, NEW f \in [1..n -> Int], NEW cell \in Nat \ {0}
  PROVE  LET S == {f[i] : i \in 1..n} IN
         Enclosed(f, n, Ceil(Largest(S), cell) * cell, Floor(Smallest(S), cell) * cell, cell)
  <1> DEFINE S == {f[i] : i \in 1..n}
             big == Largest(S)
             small == Smallest(S)
  <1>1. big \in S /\ (\A y \in S : y <= big) /\ small \in S /\ \A y \in S : small <= y
    BY LargestFacts, SmallestFacts
  <1>2. PICK i \in 1..n : big = f[i]
    BY <1>1
  <1>3. PICK j \in 1..n : small = f[j]
    BY <1>1
  <1>4. \A k \in 1..n : small <= f[k] /\ f[k] <= big
    BY <1>1
  <1>5. big \in Int /\ small \in Int
    BY <1>2, <1>3
  <1> HIDE DEF big, small
  <1> DEFINE p == (-big) \div cell
             q == small \div cell
             high == Ceil(big, cell) * cell
             low == Floor(small, cell) * cell
  <1>6. p \in Int /\ p * cell <= -big /\ -big < p * cell + cell
    BY <1>5
  <1>7. q \in Int /\ q * cell <= small /\ small < q * cell + cell
    BY <1>5
  <1>8. high = -(p * cell) /\ p * cell \in Int
    <2>1. high = (-p) * cell
      BY DEF Ceil
    <2> HIDE DEF p, high
    <2> QED
      BY <1>6, <2>1
  <1>9. low = q * cell /\ q * cell \in Int
    <2>1. low = q * cell
      BY DEF Floor
    <2> HIDE DEF q, low
    <2> QED
      BY <1>7, <2>1
  <1>10. /\ high \in Int /\ big <= high /\ high < big + cell
         /\ low \in Int /\ low <= small /\ small < low + cell
    <2> DEFINE P == p * cell
               Q == q * cell
    <2> HIDE DEF high, low, P, Q
    <2>1. P \in Int /\ P <= -big /\ -big < P + cell /\ high = -P
      BY <1>6, <1>8 DEF P
    <2>2. Q \in Int /\ Q <= small /\ small < Q + cell /\ low = Q
      BY <1>7, <1>9 DEF Q
    <2> QED
      BY <1>5, <2>1, <2>2
  <1> HIDE DEF high, low, p, q
  <1>11. Enclosed(f, n, high, low, cell)
    <2>1. \A k \in 1..n : f[k] \in Int
      OBVIOUS
    <2>2. \A k \in 1..n : low <= f[k] /\ f[k] <= high
      BY <1>4, <1>5, <1>10, <2>1
    <2> QED
      BY <1>2, <1>3, <1>10, <2>2 DEF Enclosed
  <1> QED
    BY <1>11 DEF high, low, big, small

LEMMA BoxEncloses ==
  ASSUME NEW line, NEW n \in Nat \ {0}, DOMAIN line = 1..n,
         \A i \in 1..n : line[i].lat \in Int /\ line[i].lon \in Int
  PROVE  LET b == bbox(line) IN
         /\ Enclosed([i \in 1..n |-> line[i].lat], n, b.n * LatCell, b.s * LatCell, LatCell)
         /\ Enclosed([i \in 1..n |-> line[i].lon], n, b.e * LonCell, b.w * LonCell, LonCell)
  <1> DEFINE f == [i \in 1..n |-> line[i].lat]
             g == [i \in 1..n |-> line[i].lon]
             F == {f[i] : i \in 1..n}
             G == {g[i] : i \in 1..n}
             b == bbox(line)
  <1>1. f \in [1..n -> Int] /\ g \in [1..n -> Int]
    OBVIOUS
  <1>2. F = {line[i].lat : i \in DOMAIN line} /\ G = {line[i].lon : i \in DOMAIN line}
    OBVIOUS
  <1> HIDE DEF F, G
  <1>3. /\ b.n = Ceil(Largest(F), LatCell) /\ b.s = Floor(Smallest(F), LatCell)
        /\ b.e = Ceil(Largest(G), LonCell) /\ b.w = Floor(Smallest(G), LonCell)
    BY <1>2 DEF bbox
  <1> HIDE DEF f, g, b
  <1>4. /\ Enclosed(f, n, Ceil(Largest(F), LatCell) * LatCell, Floor(Smallest(F), LatCell) * LatCell, LatCell)
        /\ Enclosed(g, n, Ceil(Largest(G), LonCell) * LonCell, Floor(Smallest(G), LonCell) * LonCell, LonCell)
    BY <1>1, StepsEnclose, CellAssumption DEF F, G
  <1>5. /\ Enclosed(f, n, b.n * LatCell, b.s * LatCell, LatCell)
        /\ Enclosed(g, n, b.e * LonCell, b.w * LonCell, LonCell)
    BY <1>3, <1>4
  <1> QED
    BY <1>5 DEF f, g, b

EdgesFit(f, n, high, low, cell, y, d) ==
    /\ (\E i \in 1..n : y - f[i] < d) => y < high + d
    /\ (\E i \in 1..n : f[i] - y < d) => y > low - d
    /\ y < high + d => \E i \in 1..n : y - f[i] < d + cell
    /\ y > low - d => \E i \in 1..n : f[i] - y < d + cell

LEMMA EdgesReach ==
  ASSUME NEW n \in Nat, NEW f \in [1..n -> Int], NEW high, NEW low, NEW cell \in Int,
         Enclosed(f, n, high, low, cell), NEW y \in Int, NEW d \in Int
  PROVE  EdgesFit(f, n, high, low, cell, y, d)
  <1>1. /\ high \in Int /\ low \in Int
        /\ \A i \in 1..n : low <= f[i] /\ f[i] <= high /\ f[i] \in Int
    BY DEF Enclosed
  <1>2. PICK i \in 1..n : high < f[i] + cell
    BY DEF Enclosed
  <1>3. PICK j \in 1..n : f[j] < low + cell
    BY DEF Enclosed
  <1>4. ASSUME NEW k \in 1..n PROVE (y - f[k] < d => y < high + d) /\ (f[k] - y < d => y > low - d)
    BY <1>1
  <1>5. y < high + d => y - f[i] < d + cell
    BY <1>1, <1>2
  <1>6. y > low - d => f[j] - y < d + cell
    BY <1>1, <1>3
  <1> QED
    BY <1>4, <1>5, <1>6 DEF EdgesFit

(* What is in reach of a way is near its box, and what is near its box is  *)
(* nearly in reach.                                                        *)
LEMMA BoxReach ==
  ASSUME TypeInv, NEW w \in Objects("way"), linestring_ok(TrueLine(w)), Len(w.refs) >= 2,
         NEW point \in PointsIn(file)
  PROVE  /\ InReach(point, w) => NearBox(point, w)
         /\ NearBox(point, w) => NearlyInReach(point, w)
  <1> DEFINE line == TrueLine(w)
             n == Len(w.refs)
             b == bbox(line)
             f == [i \in 1..n |-> line[i].lat]
             g == [i \in 1..n |-> line[i].lon]
  <1>1. /\ n \in Nat \ {0} /\ DOMAIN line = 1..n /\ file \in InputFiles
    <2>1. file \in InputFiles /\ DOMAIN file = 1..Len(file)
      BY FileFacts DEF TypeInv, PassTyped
    <2>2. PICK k \in 1..Len(file) : w = file[k] /\ file[k].type = "way"
      BY <2>1 DEF Objects, ObjectsIn
    <2>3. DOMAIN w.refs = 1..n /\ n \in Nat
      BY <2>1, <2>2, FileFacts
    <2> QED
      BY <2>1, <2>3 DEF TrueLine, LineIn
  <1>2. ASSUME NEW i \in 1..n PROVE line[i].lat \in Int /\ line[i].lon \in Int
    <2>1. line[i] # Undefined /\ line[i] = LocIn(file, w.refs[i])
      BY <1>1 DEF linestring_ok, Dangling, TrueLine, LineIn
    <2>2. line[i] \in PointsIn(file)
      <3>1. PICK node \in NodesIn(file, w.refs[i]) : line[i] = node.loc
        BY <2>1 DEF LocIn
      <3> QED
        BY <2>1, <3>1 DEF NodesIn, PointsIn
    <2> QED
      BY <1>1, <2>2, GeometryAssumption
  <1> HIDE DEF line, n, b
  <1>3. /\ Enclosed(f, n, b.n * LatCell, b.s * LatCell, LatCell)
        /\ Enclosed(g, n, b.e * LonCell, b.w * LonCell, LonCell)
    BY <1>1, <1>2, BoxEncloses DEF b
  <1>4. f \in [1..n -> Int] /\ g \in [1..n -> Int]
    BY <1>2
  <1>5. /\ point.lat \in Int /\ point.lon \in Int /\ LonTolerance(point.lat) \in Int
        /\ MAXDIST \in Int /\ LatCell \in Int /\ LonCell \in Int
    BY <1>1, GeometryAssumption, CellAssumption
  <1> DEFINE N == b.n * LatCell
             S == b.s * LatCell
             E == b.e * LonCell
             W == b.w * LonCell
             tol == LonTolerance(point.lat)
             far == FloatError
  <1>6. /\ /\ point.lat < N + (MAXDIST - far) /\ point.lat > S - (MAXDIST - far)
           /\ point.lon < E + (tol - far) /\ point.lon > W - (tol - far)
           => NearBox(point, w)
        /\ NearBox(point, w) =>
           /\ point.lat < N + (MAXDIST + far) /\ point.lat > S - (MAXDIST + far)
           /\ point.lon < E + (tol + far) /\ point.lon > W - (tol + far)
    <2>1. line \in LinesIn(file)
      BY DEF line, TrueLine, Objects, LinesIn
    <2>2. /\ Close(tolerance, MAXDIST)
          /\ Close(Narrow(point.lat), point.lat) /\ Close(Narrow(point.lon), point.lon)
          /\ Close(tolerance_lon(point), tol)
      BY <1>1, FloatAssumption
    <2>3. /\ Close(int162lat(b.n), N) /\ Close(Narrow(int162lat(b.n) + tolerance), int162lat(b.n) + tolerance)
          /\ Close(int162lat(b.s), S) /\ Close(Narrow(int162lat(b.s) - tolerance), int162lat(b.s) - tolerance)
      BY <1>1, <2>1, FloatAssumption DEF b
    <2>4. /\ Close(int162lon(b.e), E)
          /\ Close(LonSum(int162lon(b.e) + tolerance_lon(point)), int162lon(b.e) + tolerance_lon(point))
          /\ Close(int162lon(b.w), W)
          /\ Close(LonSum(int162lon(b.w) - tolerance_lon(point)), int162lon(b.w) - tolerance_lon(point))
      BY <1>1, <2>1, FloatAssumption DEF b
    <2>5. N \in Int /\ S \in Int /\ E \in Int /\ W \in Int
      BY <1>3 DEF Enclosed
    <2>6. NearBox(point, w) <=>
             /\ Narrow(point.lat) < Narrow(int162lat(b.n) + tolerance)
             /\ Narrow(point.lat) > Narrow(int162lat(b.s) - tolerance)
             /\ Narrow(point.lon) < LonSum(int162lon(b.e) + tolerance_lon(point))
             /\ Narrow(point.lon) > LonSum(int162lon(b.w) - tolerance_lon(point))
      BY DEF NearBox, is_point_near_bbox, b, line
    <2> HIDE DEF N, S, E, W, tol
    <2>7. tol \in Int
      BY <1>5 DEF tol
    <2>8. NarrowError \in Nat
      BY FloatAssumption
    <2> DEFINE kLat  == Narrow(point.lat)
               kLon  == Narrow(point.lon)
               north == int162lat(b.n)
               south == int162lat(b.s)
               east  == int162lon(b.e)
               west  == int162lon(b.w)
               dLon  == tolerance_lon(point)
               dLat  == tolerance
               sumN  == Narrow(north + dLat)
               sumS  == Narrow(south - dLat)
               sumE  == LonSum(east + dLon)
               sumW  == LonSum(west - dLon)
    <2>9. /\ Close(dLat, MAXDIST) /\ Close(dLon, tol) /\ Close(kLat, point.lat) /\ Close(kLon, point.lon)
          /\ Close(north, N) /\ Close(sumN, north + dLat) /\ Close(south, S) /\ Close(sumS, south - dLat)
          /\ Close(east, E) /\ Close(sumE, east + dLon) /\ Close(west, W) /\ Close(sumW, west - dLon)
      BY <2>2, <2>3, <2>4
    <2>10. NearBox(point, w) <=> kLat < sumN /\ kLat > sumS /\ kLon < sumE /\ kLon > sumW
      BY <2>6
    <2> HIDE DEF kLat, kLon, north, south, east, west, dLon, dLat, sumN, sumS, sumE, sumW
    <2>11. /\ point.lat < N + (MAXDIST - far) => kLat < sumN
           /\ kLat < sumN => point.lat < N + (MAXDIST + far)
      BY <1>5, <2>5, <2>8, <2>9 DEF Close, FloatError
    <2>12. /\ point.lat > S - (MAXDIST - far) => kLat > sumS
           /\ kLat > sumS => point.lat > S - (MAXDIST + far)
      BY <1>5, <2>5, <2>8, <2>9 DEF Close, FloatError
    <2>13. /\ point.lon < E + (tol - far) => kLon < sumE
           /\ kLon < sumE => point.lon < E + (tol + far)
      BY <1>5, <2>5, <2>7, <2>8, <2>9 DEF Close, FloatError
    <2>14. /\ point.lon > W - (tol - far) => kLon > sumW
           /\ kLon > sumW => point.lon > W - (tol + far)
      BY <1>5, <2>5, <2>7, <2>8, <2>9 DEF Close, FloatError
    <2> QED
      BY <2>10, <2>11, <2>12, <2>13, <2>14
  <1>7. ASSUME NEW dlat, NEW dlon
        PROVE  Within(point, w, dlat, dlon) <=>
               /\ \E i \in 1..n : point.lat - f[i] < dlat
               /\ \E i \in 1..n : f[i] - point.lat < dlat
               /\ \E i \in 1..n : point.lon - g[i] < dlon
               /\ \E i \in 1..n : g[i] - point.lon < dlon
    BY <1>1 DEF Within, line
  <1> HIDE DEF f, g
  <1>8. ASSUME NEW dlat \in Int, NEW dlon \in Int
        PROVE  /\ EdgesFit(f, n, N, S, LatCell, point.lat, dlat)
               /\ EdgesFit(g, n, E, W, LonCell, point.lon, dlon)
    BY <1>1, <1>3, <1>4, <1>5, EdgesReach
  <1>9. far \in Int /\ tol \in Int
    BY <1>5, FloatAssumption DEF FloatError
  <1> HIDE DEF N, S, E, W, tol, far
  <1>10. InReach(point, w) => NearBox(point, w)
    <2>1. MAXDIST - far \in Int /\ tol - far \in Int
      BY <1>5, <1>9
    <2> QED
      BY <1>6, <1>7, <1>8, <2>1 DEF InReach, EdgesFit, tol, far
  <1>11. NearBox(point, w) => NearlyInReach(point, w)
    <2>1. /\ MAXDIST + far \in Int /\ tol + far \in Int
          /\ (MAXDIST + far) + LatCell = MAXDIST + LatCell + far
          /\ (tol + far) + LonCell = tol + LonCell + far
      BY <1>5, <1>9
    <2> QED
      BY <1>6, <1>7, <1>8, <2>1 DEF NearlyInReach, EdgesFit, tol, far
  <1> QED
    BY <1>10, <1>11

-----------------------------------------------------------------------------
(* What the compression adds to one distance and takes from the other      *)
LEMMA CloseEnough ==
  ASSUME file \in InputFiles, NEW point \in PointsIn(file),
         NEW v, TrueLine(v) \in LinesIn(file), NEW w, TrueLine(w) \in LinesIn(file),
         KeptAway(point, v) <= KeptAway(point, w)
  PROVE  Distance(point, TrueLine(v)) <= Distance(point, TrueLine(w)) + CompressionError
  <1> DEFINE d(u) == Distance(point, TrueLine(u))
             k(u) == KeptAway(point, u)
  <1>1. ASSUME NEW u, TrueLine(u) \in LinesIn(file)
        PROVE  d(u) \in Int /\ k(u) \in Int /\ 2 * (k(u) - d(u)) \in -CompressionError..CompressionError
    BY <1>1, GeometryAssumption DEF KeptAway
  <1>2. CompressionError \in Int
    BY GeometryAssumption
  <1> HIDE DEF d, k
  <1>3. /\ d(v) \in Int /\ k(v) \in Int /\ 2 * (k(v) - d(v)) >= -CompressionError
        /\ d(w) \in Int /\ k(w) \in Int /\ 2 * (k(w) - d(w)) <= CompressionError
    BY <1>1, <1>2
  <1>4. k(v) <= k(w)
    BY DEF k
  <1>5. d(v) <= d(w) + CompressionError
    BY <1>2, <1>3, <1>4
  <1> QED
    BY <1>5 DEF d

(* In a sorted file an address is connected if a street of its name is in  *)
(* reach by more than the errors of float, and then to the closest, but    *)
(* for the compression's error: the tables of the first pass hold the      *)
(* streets with the lines of the file, the boxes leave out none in reach,  *)
(* and the search through both tables keeps the closest.                   *)
THEOREM StreetsJudged == Spec => []StreetVerdictIsRight
  <1>1. TypeInv /\ StreetInv /\ EndInv => StreetVerdictIsRight
    <2> SUFFICES ASSUME TypeInv, StreetInv, EndInv, Returned, Sorted(file),
                        NEW row \in Located, "addr:street" \in DOMAIN row.tags
                 PROVE  LET point   == Position(row)
                            streets == Streets(row.tags["addr:street"])
                            reached == {w \in streets : InReach(point, w)}
                        IN /\ reached # {} => row.road_id
                           /\ row.road_id => \E way \in streets, line \in LinesFrom(row.type, row.id) :
                                 /\ line.end = <<"way", way.id>>
                                 /\ \A w \in reached : Distance(point, TrueLine(way)) <=
                                                       Distance(point, TrueLine(w)) + CompressionError
      BY DEF StreetVerdictIsRight
    <2> DEFINE name == row.tags["addr:street"]
               point == Position(row)
               streets == Streets(name)
    <2>1. /\ AllOf("nodes_with_addresses") = rows("nodes_with_addresses")
          /\ AllOf("connection_line") = rows("connection_line") /\ file \in InputFiles
      BY AllWritten, LayerFacts DEF LayerNames, TypeInv, PassTyped
    <2>2. StreetRight(row, rows("connection_line"))
      BY <2>1 DEF StreetInv, Located
    <2>3. /\ point \in PointsIn(file)
          /\ (\E w \in streets : NearBox(point, w)) => row.road_id
          /\ row.road_id => \E way : /\ Closest(way, streets, point)
                                     /\ \E line \in rows("connection_line") : OwnLineTo(line, row, way)
      BY <2>2 DEF StreetRight
    <2>4. \A w \in streets : TrueLine(w) \in LinesIn(file)
      BY DEF Streets, LinesIn, TrueLine, Objects
    <2>5. \A w \in streets : InReach(point, w) => NearBox(point, w)
      BY <2>3, BoxReach DEF Streets
    <2> HIDE DEF name, point, streets
    <2>6. ASSUME NEW way, Closest(way, streets, point), NEW w \in streets, InReach(point, w)
          PROVE  Distance(point, TrueLine(way)) <= Distance(point, TrueLine(w)) + CompressionError
      BY <2>1, <2>3, <2>4, <2>5, <2>6, CloseEnough DEF Closest
    <2>7. ASSUME row.road_id
          PROVE  \E way \in streets, line \in LinesFrom(row.type, row.id) :
                    /\ line.end = <<"way", way.id>>
                    /\ \A w \in streets : InReach(point, w) => Distance(point, TrueLine(way)) <=
                                             Distance(point, TrueLine(w)) + CompressionError
      <3>1. PICK way : Closest(way, streets, point)
                       /\ \E line \in rows("connection_line") : OwnLineTo(line, row, way)
        BY <2>3, <2>7
      <3>2. PICK line \in rows("connection_line") : OwnLineTo(line, row, way)
        BY <3>1
      <3>3. way \in streets /\ line \in LinesFrom(row.type, row.id) /\ line.end = <<"way", way.id>>
        BY <3>1, <3>2 DEF Closest, OwnLineTo, LinesFrom
      <3> QED
        BY <2>6, <3>1, <3>3
    <2> QED
      BY <2>3, <2>5, <2>7 DEF name, point, streets
  <1> QED
    BY <1>1, StreetInvariant, EndInvariant, TypeInvariant, PTL

-----------------------------------------------------------------------------
(* The layers of the map                                                   *)
LEMMA TableRows ==
  ASSUME TypeInv, NEW row \in table, row.type # "interpolated"
  PROVE  row \in Located
  <1> DEFINE L == "nodes_with_addresses"
  <1>1. L \in Layer
    BY LayerFacts DEF LayerNames
  <1>2. row \in Elements(disk[L]) /\ IsSequence(disk[L]) /\ IsSequence(txn[L])
    BY <1>1 DEF table, Elements, TypeInv, LayersTyped
  <1>3. row \in Elements(disk[L] \o txn[L])
    BY <1>2, Joined
  <1> QED
    BY <1>3 DEF Located, rows, fed, Elements

LEMMA PlaceKnown ==
  ASSUME TypeInv, PlaceVerdictIsRight, Returned, Sorted(file), NEW row \in table,
         row.type # "interpolated"
  PROVE  place_ids(row) <=> PlaceNear(Position(row), PlacesNamed(row.type, row.tags))
  <1> DEFINE keys == (IF row.type = "node" THEN {"addr:street", "addr:place"} ELSE {"addr:place"})
                     \intersect DOMAIN row.tags
             point == Position(row)
             near(place) == Distance(point, <<place>>) < MaxDistance
  <1>1. row \in Located
    BY TableRows
  <1>2. place_ids(row) <=> \E key \in keys : \E place \in Places(row.tags[key]) : near(place)
    BY <1>1 DEF PlaceVerdictIsRight, place_ids
  <1>3. PlacesNamed(row.type, row.tags) = UNION {Places(row.tags[key]) : key \in keys}
    BY DEF PlacesNamed
  <1>4. PlaceNear(point, PlacesNamed(row.type, row.tags)) <=>
           \E place \in PlacesNamed(row.type, row.tags) : near(place)
    BY DEF PlaceNear
  <1> HIDE DEF keys, point, near
  <1> QED
    BY <1>2, <1>3, <1>4 DEF point

LEMMA Missing ==
  ASSUME NEW o, NEW key, column(o, key) # ""
  PROVE  key \in DOMAIN o.tags /\ column(o, key) = o.tags[key]
  BY DEF column, get_value_by_key

(* Every alarm on the map is real: the street of a street_not_found is not *)
(* in reach by more than the errors of float, and no place is that its     *)
(* tags or those of a place_not_found may mean.                            *)
THEOREM AlarmsJudged == Spec => []AlarmsAreReal
  <1>1. TypeInv /\ StreetVerdictIsRight /\ PlaceVerdictIsRight => AlarmsAreReal
    <2> SUFFICES ASSUME TypeInv, StreetVerdictIsRight, PlaceVerdictIsRight, Returned, Sorted(file)
                 PROVE  /\ \A row \in street_not_found :
                              \A w \in Streets(row.tags["addr:street"]) : ~InReach(Position(row), w)
                        /\ \A row \in street_not_found \union place_not_found :
                              ~PlaceNear(Position(row), PlacesNamed(row.type, row.tags))
      BY DEF AlarmsAreReal
    <2>1. ASSUME NEW row \in street_not_found, NEW w \in Streets(row.tags["addr:street"])
          PROVE  ~InReach(Position(row), w)
      <3>1. /\ row \in table /\ row.type # "interpolated" /\ ~row.road_id
            /\ "addr:street" \in DOMAIN row.tags
        BY Missing DEF street_not_found, is_ip
      <3>2. row \in Located
        BY <3>1, TableRows
      <3>3. {v \in Streets(row.tags["addr:street"]) : InReach(Position(row), v)} # {} => row.road_id
        BY <3>1, <3>2 DEF StreetVerdictIsRight
      <3> QED
        BY <3>1, <3>3
    <2>2. ASSUME NEW row \in street_not_found \union place_not_found
          PROVE  ~PlaceNear(Position(row), PlacesNamed(row.type, row.tags))
      <3>1. row \in table /\ row.type # "interpolated" /\ ~place_ids(row)
        BY DEF street_not_found, place_not_found, is_ip
      <3> QED
        BY <3>1, PlaceKnown
    <2> QED
      BY <2>1, <2>2
  <1> QED
    BY <1>1, StreetsJudged, PlacesJudged, TypeInvariant, PTL

-----------------------------------------------------------------------------
(* A ring with four points is not of zero length.                          *)
LEMMA NonzeroLength ==
  ASSUME NEW line, NEW n \in Nat, DOMAIN line = 1..n, Len(line) = n, polygon_ok(line)
  PROVE  is_way_with_nonzero_length(line)
  <1> DEFINE K == {i \in 1..n : ~repeats(line, i)}
  <1>1. ~Dangling(line) /\ Cardinality(K) >= 4
    BY DEF polygon_ok, num_points
  <1>2. IsFiniteSet(1..n) /\ Cardinality(1..n) = n
    <2>1. 1..n = IF 1 > n THEN {} ELSE 1..n
      OBVIOUS
    <2> QED
      BY <2>1, FS_Interval
  <1>3. K \subseteq 1..n /\ Cardinality(K) <= n /\ Cardinality(K) \in Nat
    BY <1>2, FS_Subset, FS_CardinalityType
  <1>4. \E i \in 1..n : line[i] # line[1]
    <2> SUFFICES ASSUME \A i \in 1..n : line[i] = line[1] PROVE FALSE
      OBVIOUS
    <2>1. K \subseteq {1}
      <3> SUFFICES ASSUME NEW i \in 1..n, i # 1 PROVE repeats(line, i)
        OBVIOUS
      <3>1. i - 1 \in 1..n
        OBVIOUS
      <3> QED
        BY <3>1 DEF repeats
    <2>2. Cardinality(K) <= 1
      <3>1. IsFiniteSet({1}) /\ Cardinality({1}) = 1
        BY FS_Singleton
      <3> HIDE DEF K
      <3> QED
        BY <2>1, <3>1, FS_Subset
    <2> QED
      BY <1>1, <1>3, <2>2
  <1> HIDE DEF K
  <1>5. n >= 2
    BY <1>1, <1>3
  <1> QED
    BY <1>1, <1>4, <1>5 DEF is_way_with_nonzero_length

(* Every object that has an address has its row when its turn has come.    *)
OfObject(row, o) == row.type = o.type /\ row.id = o.id /\ row.tags = AltTagList(o)
Due(o) == \/ o.type = "node" /\ HasAny(o, AddrKeys)
          \/ /\ o.type = "way" /\ is_address_building(o)
             /\ HasAny(o, {"addr:street", "addr:housenumber"}) /\ centroid_ok(TrueLine(o))
DueInv == Sorted(file) => \A k \in 1..Len(file) : pass = "second" /\ k < pos /\ Due(file[k]) =>
    \E row \in AllOf("nodes_with_addresses") : OfObject(row, file[k])

LEMMA RowDue ==
  ASSUME TypeInv, IndexInv, Sorted(file), SecondRead, Due(file[pos])
  PROVE  \E row \in NewRows(calls', "nodes_with_addresses") : OfObject(row, file[pos])
  <1> DEFINE o == file[pos]
             line == locations(o, index)
  <1>0. /\ file \in InputFiles /\ TablesTyped /\ pass = "second" /\ pos \in 1..Len(file)
    BY FileFacts DEF TypeInv, PassTyped, SecondRead, apply_second_node, apply_second_way,
                     Next_object, Second_object, Between_handlers
  <1>1. ASSUME NEW type, NEW ids, address(type, o.id, AltTagList(o), 0, ids) \in Elements(calls'),
               type = o.type
        PROVE  \E row \in NewRows(calls', "nodes_with_addresses") : OfObject(row, o)
    <2> DEFINE e == address(type, o.id, AltTagList(o), 0, ids)
    <2>1. e.layer = "nodes_with_addresses" /\ OfObject(e.row, o)
      BY <1>1 DEF address, call, OfObject
    <2> HIDE DEF e
    <2>2. e \in Elements(calls')
      BY <1>1 DEF e
    <2>3. e.row \in NewRows(calls', "nodes_with_addresses")
      BY <2>1, <2>2 DEF NewRows
    <2> QED
      BY <2>1, <2>3
  <1>2. CASE o.type = "node"
    <2> DEFINE ids == process_node(o)
               B == feed_entrances(o) \o ids.calls
               e == address("node", o.id, AltTagList(o), 0, ids)
    <2>1. calls' = NodeCalls(o) /\ HasAny(o, AddrKeys)
      BY <1>2 DEF SecondRead, apply_second_node, apply_second_way, Next_object,
                  Second_object, Between_handlers, second_node, Due
    <2>2. calls' = B \o <<e>>
      BY <2>1 DEF NodeCalls, address_of_node, When
    <2>3. IsSequence(B)
      BY <1>0, NodeAddress
    <2> HIDE DEF B, e
    <2>4. e \in Elements(calls')
      BY <2>2, <2>3, Joined, Single
    <2> QED
      BY <1>1, <1>2, <2>4 DEF e
  <1>3. CASE o.type = "way"
    <2> DEFINE ids == process_way(o, Centroid(line))
               street == StreetOf(o, Centroid(line), "way")
               place == PlaceOf(o, Centroid(line), "way", "addr:place")
               e == address("way", o.id, AltTagList(o), 0, ids)
    <2>1. \E ip \in interpolations(o) : calls' = WayCalls(o, line, ip)
      BY <1>3 DEF SecondRead, apply_second_node, apply_second_way, Next_object,
                  Second_object, Between_handlers, second_way
    <2>2. PICK ip \in interpolations(o) : calls' = WayCalls(o, line, ip)
      BY <2>1
    <2>3. line = TrueLine(o)
      <3>1. \A i \in 1..Len(file) : file[i].type = "node" => Passed(i)
        BY <1>0 DEF Passed
      <3> QED
        BY <1>0, <1>3, <3>1, LinesAreTrue
    <2>4. /\ is_address_building(o) /\ is_closed(o) /\ centroid_ok(line)
          /\ HasAny(o, {"addr:street", "addr:housenumber"})
      BY <1>3, <2>3 DEF Due, is_address_building
    <2>5. is_way_with_nonzero_length(line)
      <3>1. DOMAIN line = 1..Len(o.refs) /\ Len(line) = Len(o.refs) /\ Len(o.refs) \in Nat
        BY <1>0, <1>3, LineFacts, FileFacts
      <3> QED
        BY <2>4, <3>1, NonzeroLength DEF centroid_ok
    <2>6. Elements(centroid_calls(o, line)) \subseteq Elements(calls')
      BY <1>0, <1>3, <2>2, <2>5, WayCallsFacts
    <2>7. centroid_calls(o, line) = street.calls \o place.calls \o <<e>>
      BY <2>4 DEF centroid_calls, When, address_of_way, process_way
    <2>8. IsSequence(street.calls) /\ IsSequence(place.calls)
      BY <1>0, StreetOfShape, StreetFacts, PlaceOfShape, PlaceFacts
    <2> HIDE DEF street, place, e
    <2>9. e \in Elements(centroid_calls(o, line))
      BY <2>7, <2>8, Joined, Single
    <2> QED
      BY <1>1, <1>3, <2>6, <2>9 DEF e
  <1> QED
    BY <1>2, <1>3 DEF Due

LEMMA DueStep ==
  ASSUME TypeInv, IndexInv, DueInv, [Next]_vars
  PROVE  DueInv'
  <1> DEFINE R == AllOf("nodes_with_addresses")
  <1>0. /\ "nodes_with_addresses" \in SetLayer /\ pos \in 1..(Len(file) + 1) /\ Len(file) \in Nat
        /\ pass \in {"first", "second"}
    BY LayerFacts, FileFacts DEF LayerNames, SetLayer, TypeInv, PassTyped
  <1>1. \/ (Still \/ FirstRead) /\ R' = R
        \/ SecondRead /\ R' = R \union NewRows(calls', "nodes_with_addresses")
    BY <1>0, RowSteps
  <1>2. file' = file
    BY <1>1 DEF Still, FirstRead, SecondRead, apply_first_node, apply_first_way, next_pass,
                apply_second_node, apply_second_way
  <1>3. \A o : Due(o)' <=> Due(o)
    BY <1>2 DEF Due, TrueLine, LineIn, TrueLoc, LocIn, Nodes, NodesIn, Objects, ObjectsIn
  <1>4. R \subseteq R'
    BY <1>1
  <1> SUFFICES ASSUME Sorted(file), NEW k \in 1..Len(file), pass' = "second", k < pos',
                      Due(file[k])
               PROVE  \E row \in R' : OfObject(row, file[k])
    BY <1>2, <1>3 DEF DueInv, OfObject
  <1>5. \/ pass = "second" /\ k < pos
        \/ SecondRead /\ k = pos
    <2>1. CASE Still
      BY <2>1 DEF Still
    <2>2. CASE FirstRead
      BY <1>0, <2>2 DEF FirstRead, apply_first_node, apply_first_way, next_pass
    <2>3. CASE SecondRead
      BY <1>0, <2>3 DEF SecondRead, apply_second_node, apply_second_way
    <2> QED
      BY <1>1, <2>1, <2>2, <2>3
  <1>6. CASE pass = "second" /\ k < pos
    <2>1. \E row \in R : OfObject(row, file[k])
      BY <1>6 DEF DueInv
    <2> HIDE DEF R
    <2> QED
      BY <1>4, <2>1
  <1>7. CASE SecondRead /\ k = pos
    <2>1. NewRows(calls', "nodes_with_addresses") \subseteq R'
      BY DEF AllOf, NewRows
    <2>2. \E row \in NewRows(calls', "nodes_with_addresses") : OfObject(row, file[k])
      BY <1>7, RowDue
    <2> HIDE DEF R
    <2> QED
      BY <2>1, <2>2
  <1> QED
    BY <1>5, <1>6, <1>7

LEMMA DueInvariant == Spec => []DueInv
  <1>1. TypeInv /\ IndexInv /\ DueInv /\ [Next]_vars => DueInv'
    BY DueStep
  <1>2. Init => DueInv
    BY DEF Init, DueInv
  <1> QED
    BY <1>1, <1>2, IndexInvariant, TypeInvariant, PTL DEF Spec

(* When main has returned and commits do not fail, the file holds all.     *)
LEMMA AllOnDisk ==
  ASSUME TypeInv, EndInv, YoungestCommitted, Returned, NEW l \in Layer
  PROVE  disk[l] = Fed[l] /\ AllOf(l) = Elements(disk[l])
  <1>1. destroyed = 11 /\ calls = <<>>
    BY AllWritten
  <1>2. disk[l] = Fed[l]
    <2>1. PICK i \in 1..11 : l = LayerOrder[i]
      BY LayerFacts DEF Layer
    <2>2. txn[l] = <<>>
      BY <1>1, <2>1 DEF YoungestCommitted
    <2>3. disk[l] \o <<>> = disk[l]
      BY ConcatEmptySeq DEF TypeInv, LayersTyped, IsSequence
    <2> QED
      BY <2>2, <2>3 DEF Fed, fed
  <1>3. AllOf(l) = Elements(Fed[l])
    BY <1>1, None DEF AllOf
  <1> QED
    BY <1>2, <1>3

(* The row of an address that is in the table of the map                   *)
LEMMA AddressShown ==
  ASSUME TypeInv, EndInv, YoungestCommitted, DueInv, Returned, Sorted(file), NEW o \in Addressed
  PROVE  \E row \in table :
            /\ OfObject(row, o) /\ row \in AllOf("nodes_with_addresses")
            /\ row.type \in {"node", "way"}
            /\ Position(row) = AddressPoint(o, TrueLine(o))
  <1>1. /\ file \in InputFiles /\ DOMAIN file = 1..Len(file) /\ Len(file) \in Nat
        /\ pos \in 1..(Len(file) + 1)
    BY FileFacts DEF TypeInv, PassTyped
  <1>2. PICK k \in 1..Len(file) : o = file[k] /\ Due(o)
    BY <1>1 DEF Addressed, Objects, ObjectsIn, Due
  <1>3. pass = "second" /\ k < pos
    BY <1>1, AllWritten
  <1>4. PICK row \in AllOf("nodes_with_addresses") : OfObject(row, o)
    BY <1>2, <1>3 DEF DueInv
  <1>5. row \in table
    <2>1. AllOf("nodes_with_addresses") = Elements(disk["nodes_with_addresses"])
      BY AllOnDisk, LayerFacts DEF LayerNames
    <2> QED
      BY <1>4, <2>1 DEF table, Elements
  <1>6. row.type = o.type /\ row.id = o.id /\ o.type \in {"node", "way"}
    BY <1>2, <1>4 DEF OfObject, Due
  <1>7. Position(row) = AddressPoint(o, TrueLine(o))
    <2>1. CASE o.type = "node"
      <3>1. (CHOOSE n \in Nodes(row.id) : TRUE) = o
        <4>1. (CHOOSE n \in Nodes(file[k].id) : TRUE) = file[k]
          BY <1>1, <1>2, <2>1, OnlyNode
        <4> QED
          BY <1>2, <1>6, <4>1
      <3>2. Position(row) = o.loc
        BY <1>6, <2>1, <3>1 DEF Position
      <3> QED
        BY <2>1, <3>2 DEF AddressPoint
    <2>2. CASE o.type = "way"
      <3>1. (CHOOSE w \in Objects("way") : w.id = row.id) = o
        <4>1. (CHOOSE w \in Objects("way") : w.id = file[k].id) = file[k]
          BY <1>1, <1>2, <2>2, OnlyWay
        <4> QED
          BY <1>2, <1>6, <4>1
      <3>2. row.type # "node"
        BY <1>6, <2>2
      <3>3. Position(row) = Centroid(TrueLine(o))
        BY <3>1, <3>2 DEF Position
      <3> QED
        BY <2>2, <3>3 DEF AddressPoint
    <2> QED
      BY <1>6, <2>1, <2>2
  <1> QED
    BY <1>4, <1>5, <1>6, <1>7

(* If commits do not fail, no mistake of a sorted file stays hidden: each  *)
(* address has its row in the file, with the flags of a street or place    *)
(* that was near, up to an int16 step and the errors of float, and the     *)
(* filters of the layers read its tags and flags.                          *)
THEOREM MistakesJudged ==
  ASSUME CommitFaults = FALSE
  PROVE  Spec => []MistakesAreShown
  <1> DEFINE Inv == TypeInv /\ EndInv /\ YoungestCommitted /\ DueInv /\ StreetInv /\ PlaceVerdictIsRight
  <1>1. Inv => MistakesAreShown
    <2> SUFFICES ASSUME Inv, Returned, Sorted(file), NEW o \in Addressed
                 PROVE  LET point == IF o.type = "node" THEN o.loc ELSE Centroid(TrueLine(o))
                            shown(layer) == \E row \in layer : row.type = o.type /\ row.id = o.id
                            nowhere == ~PlaceNear(point, PlacesNamed(o.type, o.tags))
                        IN /\ /\ column(o, "addr:street") # "" /\ nowhere
                              /\ \A w \in Streets(o.tags["addr:street"]) : ~NearlyInReach(point, w)
                              => shown(street_not_found)
                           /\ column(o, "addr:place") # "" /\ nowhere => shown(place_not_found)
                           /\ (\A key \in {"addr:street", "addr:place", "addr:full"} : column(o, key) = "")
                              => shown(no_addr_street)
      BY DEF MistakesAreShown
    <2> DEFINE point == AddressPoint(o, TrueLine(o))
               nowhere == ~PlaceNear(point, PlacesNamed(o.type, o.tags))
    <2>1. PICK row \in table : /\ OfObject(row, o) /\ row \in AllOf("nodes_with_addresses")
                               /\ row.type \in {"node", "way"} /\ Position(row) = point
      BY AddressShown
    <2>2. /\ row.type = o.type /\ row.id = o.id /\ ~is_ip(row)
          /\ \A key \in AddrKeys : column(row, key) = column(o, key)
      BY <2>1 DEF OfObject, AltTagList, column, get_value_by_key, is_ip
    <2>3. PlacesNamed(row.type, row.tags) = PlacesNamed(o.type, o.tags)
      <3> DEFINE keys == IF o.type = "node" THEN {"addr:street", "addr:place"} ELSE {"addr:place"}
      <3>1. keys \intersect DOMAIN row.tags = keys \intersect DOMAIN o.tags
        BY <2>1 DEF OfObject, AltTagList, AddrKeys
      <3>2. \A key \in keys \intersect DOMAIN o.tags : row.tags[key] = o.tags[key]
        BY <2>1 DEF OfObject, AltTagList, AddrKeys
      <3> HIDE DEF keys
      <3>3. {Places(row.tags[key]) : key \in keys \intersect DOMAIN row.tags} =
            {Places(o.tags[key]) : key \in keys \intersect DOMAIN o.tags}
        BY <3>1, <3>2
      <3> QED
        BY <2>2, <3>3 DEF PlacesNamed, keys
    <2>4. nowhere => ~place_ids(row)
      BY <2>1, <2>2, <2>3, PlaceKnown
    <2>5. ASSUME column(o, "addr:street") # "",
                 \A w \in Streets(o.tags["addr:street"]) : ~NearlyInReach(point, w)
          PROVE  ~row.road_id
      <3> SUFFICES ASSUME row.road_id PROVE FALSE
        OBVIOUS
      <3>1. "addr:street" \in DOMAIN row.tags /\ row.tags["addr:street"] = o.tags["addr:street"]
        <4>1. "addr:street" \in DOMAIN o.tags
          BY <2>5, Missing
        <4> QED
          BY <2>1, <4>1 DEF OfObject, AltTagList, AddrKeys
      <3>2. StreetRight(row, AllOf("connection_line"))
        BY <2>1, <3>1 DEF StreetInv
      <3>3. /\ point \in PointsIn(file)
            /\ \E way : Closest(way, Streets(o.tags["addr:street"]), point)
        BY <2>1, <3>1, <3>2 DEF StreetRight
      <3>4. PICK way : Closest(way, Streets(o.tags["addr:street"]), point)
        BY <3>3
      <3>5. way \in Streets(o.tags["addr:street"]) /\ NearBox(point, way)
        BY <3>4 DEF Closest
      <3>6. NearlyInReach(point, way)
        BY <3>3, <3>5, BoxReach DEF Streets
      <3> QED
        BY <2>5, <3>5, <3>6
    <2>6. {"addr:street", "addr:place", "addr:full"} \subseteq AddrKeys
      BY DEF AddrKeys
    <2>7. ASSUME column(o, "addr:street") # "", nowhere,
                 \A w \in Streets(o.tags["addr:street"]) : ~NearlyInReach(point, w)
          PROVE  row \in street_not_found
      BY <2>1, <2>2, <2>4, <2>5, <2>6, <2>7 DEF street_not_found
    <2>8. column(o, "addr:place") # "" /\ nowhere => row \in place_not_found
      BY <2>1, <2>2, <2>4, <2>6 DEF place_not_found
    <2>9. (\A key \in {"addr:street", "addr:place", "addr:full"} : column(o, key) = "")
          => row \in no_addr_street
      BY <2>1, <2>2, <2>6 DEF no_addr_street
    <2>10. point = IF o.type = "node" THEN o.loc ELSE Centroid(TrueLine(o))
      BY DEF AddressPoint
    <2> HIDE DEF point
    <2> QED
      BY <2>2, <2>7, <2>8, <2>9, <2>10
  <1>2. Init => YoungestCommitted
    BY StoredInit
  <1>3. TypeInv /\ EndInv /\ YoungestCommitted /\ [Next]_vars => YoungestCommitted'
    BY CommittedStep
  <1> QED
    BY <1>1, <1>2, <1>3, DueInvariant, StreetInvariant, PlacesJudged, EndInvariant, TypeInvariant,
       PTL DEF Spec
=============================================================================
