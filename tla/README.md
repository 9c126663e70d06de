# A formal model of osmi-addresses

osmi-addresses reads an OpenStreetMap file twice and writes eleven SpatiaLite
files (layers) that show what is wrong with its addresses. This directory holds
TLA+ modules translated from the C++ of `src/osmi`, configurations that check
them with TLC, and proofs that TLAPS checks.

## The system

| part | state it keeps | operations | correct if |
|---|---|---|---|
| `main` (main.cpp) | location index, the four multimaps and the set that join the passes | two passes over the file, each object first to the location handler, then to the pass's handler | the process ends; on a sorted file it does not abort; the files are complete when it returns 0 |
| `FirstHandler` | end nodes of interpolations; streets and places by name | `node`, `way` | everything the second pass may ask for is there, although geometry errors end a handler halfway |
| `CompressedWay` | end points and float differences | constructor, `uncompress` | the line comes back up to a rounding error that does not grow with its length |
| `ConnectionLinePreprocessor` | none of its own | find the closest street or place of a name and the closest point of it, write line, road or area, and point | an address is connected exactly if something of that name is in reach; three layers agree; the point is on the street and none of its nodes is closer |
| `InterpolationWriter` | one way at a time | judge an interpolation, write its house numbers | every number between the ends once, no others; the error is the right one |
| `SecondHandler` and the other writers | tags of the end nodes, sets of written ways, id strings | `node`, `way` | flags agree with the lines; a road is drawn once; no address node is lost |
| `Writer` | the open transaction and its counter, one per layer | constructor, `create_feature`, destructor | files only grow by appending, lag by a bounded number of features, and by none at the end |
| `NearestRoads`/`NearestAreas` | `written_ways` | `write_road`, `write_area` | see above |
| output directory (main.cpp, Writer.hpp) | whether it exists, whose files are in it | `stat` in `main`, `maybe_create_dir`, `get_data_source` of each writer and GDAL's `Create` under it | only runs that overlap can mix their files; one that overlaps with none gets and keeps all of its own; every run ends |
| `mapserver/addresses.map` | none; reads the files | filters of the layers of errors | no false alarm, no silent mistake |

`main` owns the multimaps; both handlers hold references to them. The handlers
run one after the other in one thread. `SecondHandler` calls the writers
directly; `InterpolationWriter` calls `ConnectionLinePreprocessor` and
`NodesWithAddressesWriter` for every interpolated node; every writer ends in
`Writer::create_feature`, which commits or calls `exit(1)`.

Inside a run, what is hard is not concurrency but *sequence and failure*: results of the
first pass are used in the second; an object's features go to several files
with independent transactions; a failure (a lost location, an id outside of a
table, a full disk, a signal) can come between any two of them and runs no
destructor; and a loop in unsigned arithmetic must end. Only runs are concurrent: the
program looks for its output directory when it starts and creates it hours
later, so that several runs can believe that it is theirs, and nothing after
that keeps them apart. `PROJECT.json` lists the
hazards line by line with the properties that watch them.

## The modules

    LayerFiles                         abstract: append-only files with a bounded lag
      ^ implemented by
    Writer                             Writer.hpp, transactions and endings
    OsmData                            input file, libosmium's and GEOS's geometry
      FirstHandler (with CompressedWay)
        ConnectionLinePreprocessor
          SecondHandler (with Interpolation, Writer)
            OsmiAddresses              main.cpp, both passes
              MapLayers                the filters of mapserver/addresses.map
    Interpolation                      errors and numbers of an interpolation
      InterpolationWriter              feed_way step by step
    CompressedWay                      both directions as operators
      WayCompression                   ... loop by loop
        ClosestPoint                   from the line to the point on it
    OutputDirectory                    runs that share a directory

The proofs are beside them:

    SequenceLemmas                     induction, FlattenSeq, counting
      OsmiSteps                        types and kinds of steps of OsmiAddresses
        OsmiProofs                     ... for every file
        OsmiFileProofs                 ... for sorted files, and MapLayers
      ClosestPointProofs               WayCompression and ClosestPoint
    WriterProofs, InterpolationProofs, OutputDirectoryProofs

- **Writer** has the transactions of all layers: `disk` is what is committed,
  `txn` what the open transaction holds, `num_features` the counter of
  `maybe_commit_transaction`. `create_feature` is a feature with the commit
  after it; `destroy_writer` the destructors in reverse order of construction;
  `exit` how the process ended: by `return 0`, `exit(1)`, an uncaught exception,
  or a signal. `CommitFaults` says whether `CommitTransaction` may fail.
- **LayerFiles** is what a reader of the files may rely on. `Writer` implements
  it with `fed` as `disk \o txn`, `stored` as `disk` and `Window` as
  `CommitLimit`: the commit comes with the feature after the limit, so that a
  file that was not closed lacks at most `CommitLimit` features.
- **OsmData** defines input files and what the code asks of libraries. Distance,
  centroid and the point along a line are parameters.
- **FirstHandler**, **ConnectionLinePreprocessor** and **SecondHandler** follow
  the files of the same names. A handler of the second pass computes the
  sequence `calls` of features it is going to write; `write_next` writes them
  one at a time, so that any failure can come in between. This order is the
  code's: the features of a node or way do not depend on each other except by
  `written_ways`, which `write_next` looks at.
- **OsmiAddresses** composes them: one action per handler, the constructors and
  destructors of the writers, and the three ways to fail.
- **Interpolation** has the chain of checks and what an interpolation amounts to;
  **InterpolationWriter** has the steps of `feed_way` with its unsigned loop, and
  its property `SummaryIsExact` is the licence to use the former in the second
  pass.
- **MapLayers** adds what a mapper sees: the layers `no_addr_street`,
  `street_not_found` and `place_not_found` as sets of committed rows. Its two
  properties go from the input file to the map, through everything in between.
- **WayCompression** has the loops of `CompressedWay` with the 16-bit
  `num_points`; its property `LoopsAreOperators` is the licence to use the
  operators `compress` and `uncompress` in the model of the program.
- **ClosestPoint** continues with the uncompressed line: one action per round of
  `get_closest_node`, one for each of the two segments beside the node. A point of
  a segment is a fraction, `[x, y, d]` for (x/d, y/d), so that distances are
  compared exactly.
- **OutputDirectory** has any number of runs, each an instance of `pc`: `start`,
  `first_pass`, `constructors`, `second_pass` and its ends. `file[l]` are the runs
  that opened the file of layer `l`. `get_data_source` is three steps, because
  `GDALDriver::Create` is: it deletes what it takes for a dataset (`deleted`), its SQLite
  driver looks for a file and refuses it (`checked`), and opens it. Runs die anywhere, and the directory may be removed
  unless a run still writes in it. The history variable `rivals` says which runs
  were past `stat()` together, the only ones that can get at each other's files.

Each definition named `..._late`, `..._only`, `..._reordered` and so on under a
comment *Faulty* is a plausible bug of the operator after it. It is used by no
specification; it is there to be substituted, to see that a property would
notice.

## What is abstracted

- A string is the little the code tells about it: a name is a model string, a
  house number the record described in `Interpolation`.
- Coordinates are integers. An int16 step of the bounding boxes is `LatCell` by
  `LonCell` units, `Float` what a rounded difference of a line becomes.
- `is_point_near_bbox` computes in float, which `Narrow` models: the point, the
  edges, the tolerance and the sums of edge and tolerance are each narrowed. The longitude's
  sums (`LonSum`) are narrowed or not, as the build has `cos` of float or only
  that of double. `LonTolerance` is the tolerance over the cosine without rounding.
  None of these values may be off by more than `NarrowError` (`FloatAssumption`), so that
  the comparison may be off by `FloatError`, four of them: less than 4 metres for
  coordinates of at most 180 degrees. The assumption leaves out the poles, where the
  tolerance in longitude grows beyond every bound.
- In the model of
  the program a connection line is named by its way; the point on the way is
  `ClosestPoint`'s, whose coordinates after the Mercator projection are integers
  and whose sums are exact: only differences are rounded, to float.
- Fields that no property is about (`lastchange`, `firstno`, ...) are left out
  of rows. `closest_point` stands for a line's end at a place, the way for a line's end on a way.
- The file system is the sequence of committed rows. A rollback is total.
- `AltTagList::operator==` is always false, so `SparseMemTable::get` throws only
  for an id outside of the table, never for a gap: a gap is a list without tags.
- A string shorter than two characters is indexed before its beginning
  (InterpolationWriter.hpp:95): for an empty one the outcome is a free choice.
- Node ids below zero have no location (`index_neg` is a `Dummy`). As ends of
  interpolations they become huge unsigned ids (`unsigned`): the set of the first pass holds
  them as such, and for a node that the second pass finds in it `set()` resizes
  the table to a size that the memory does not have or, within `GrowSize` of the end of the
  type, to one that wraps around and does not include the id (`set_fails`). The
  first throws, the second writes outside of the table; both are the end of the process here
  (`Overrun`), after the node's features have been given to the layers. On 64 bits no negative
  id fits.
- An input that cannot be read ends the process like a signal.
- GDAL deletes a dataset of the name before it creates one, without a word; it does not
  recognise every file (an empty one, just opened by another run), so that
  the deletion may or may not happen. Its SQLite driver then looks for a file, and opens it
  in a step of its own, not exclusively. In a file shared with another run
  the tables can be made or not. A run that a writer
  turns away ends with `exit(1)`, and nothing removes what it has written.
- A line with 65536 points has `num_points` 0; `getX(-1)` then reads in front of
  the array, where `Garbage` is what may be found.
- For MapServer a column that is not set is an empty string.

## The runs

| run | instance | shows |
|---|---|---|
| `writer` | 3 layers, 2 rows, commit after 2, at most 4 features a layer; 327 713 states | types, `CleanExitIsComplete`, refinement of `LayerFiles` |
| `writer_faults` | the same, commits may fail | *violates* `CleanExitIsComplete` |
| `interpolation` | 8-bit integers, 18 house numbers in all pairs, 5 types, flags; 39 164 states | types, `EveryNumberOnce`, `SummaryIsExact`, `FeedWayReturns` |
| `interpolation_errors` | 16-bit integers and the code's limit of 1000; lettered numbers of 1, 900 and 2000 | *violates* `PreciseErrorsStay` |
| `osmi_sorted` | 1 256 sorted towns; 147 922 states | the safety properties of the whole program, and `AlarmsAreReal` and `MistakesAreShown` of the map |
| `osmi_shuffled` | every order of five objects after a node, and nodes without locations; 10 601 states | the layers agree whatever the order; `Terminates` |
| `osmi_places` | towns with places | *violates* `PlaceLinesAreShortest` |
| `osmi_areas` | the same | *violates* `AddressWaysAreStored` |
| `output_directory` | 3 runs, 3 layers; 240 178 states | types, `StrangersDontMix`, `UndisturbedRunIsWhole`, `EveryRunEnds` |
| `output_overwritten` | the same | *violates* `ExistingIsNotOverwritten` |
| `closest_point` | lines of 2 to 13 points in a grid, 4 addresses; 12 576 states | types, `LineComesBack`, `LoopsAreOperators`, `AsCloseAsEveryNode`, `BestBesideTheNode` |
| `closest_on_the_line` | the same | *violates* `ClosestOnTheLine` |

**Bounds.** Two features below and two above the commit limit (`MaxFeatures` 4,
`CommitLimit` 2) let every layer commit by count and by destruction; features do
not refer to each other, so a larger limit repeats the same states. 8 bits
(`UIntSize` 256) with numbers at 1, 2, 3 and at 250 to 255 make the loop wrap at
both ends; `MaxRange` 6 is crossed on both sides; the proof removes this bound. What the code does
with its own limit, `interpolation_errors` shows.
The towns hold up to a dozen objects: three streets of the same names, one of them an
area, asked for from within, from just in reach, from just and well out of reach and from
the same distance to two of them; places as nodes and as ways, in and out of
reach; interpolations of both directions, with wrong numbers, with a missing
end, and beside ways with dangling or negative nodes; streets with a repeated point and
without extent, a ring without area whose centroid fails, and an address whose
`addr:street` and `addr:place` are there but empty. The towns lie on a
grid of 4 units, except for the askers, which stand between its lines;
`MAXDIST` is 40 units, 2 to 3 int16 steps. `MCNarrow` moves coordinates by one unit, so that `FloatError` is 4
units, less than an int16 step (16 and 20) and more than nothing. `GrowSize` 3 puts end nodes on both sides of the table's
limit. `IdSize` 64 with `MaxTable` 31 and the ends -5 and -1 gives an unsigned id too large
for the memory and one whose table size wraps around. `osmi_sorted` narrows the sums of longitudes,
`osmi_shuffled` does not. The `osmi_shuffled` run uses `FlatDistance`: its files have one street,
so that distances decide nothing. It leaves the type invariant to `osmi_sorted`. Three runs are one more than can race for a file, so that
one can come after a death and a removal; three layers have a first, a middle
and a last; proofs remove both bounds. The lines of `closest_point` are all those
of two or three points of a part of a grid of four by four, and longer ones that
go up and down its columns; `ShortSize` 11 lets 11 points count as none and 12 or 13 as
one or two; `MCFloat` has a single binary digit, so that half of all differences
are rounded. `Sample` takes 13 points of each segment. No run uses symmetry.

**Deadlock** is not checked, since the process ends.

**Fairness.** `Spec` of `OsmiAddresses` has `WF_vars(Program)`: a single thread that
waits for nothing but its input keeps going. Failures are not fair: nothing
makes them happen. `InterpolationWriter` has `WF_vars(Next)`, a loop
without a call that waits. The writers alone have no liveness property and no fairness.
`OutputDirectory` has `WF_vars(Program(p))` for every run `p`: each is a process
of its own that waits for no other. Deaths and removals are not fair. `ClosestPoint` has no
liveness property: its loops count to the length of a line.

## What the violations say

- *Success is reported too early* (`writer_faults`). The results of all commits
  are ignored, and the last ones come after "software finished properly".
- *An error can lose its precision* (`interpolation_errors`). From 1A to 2000B the
  way is given "range too large" in place of "numeric parts of housenumbers not
  identical".
- *The last place wins, not the closest* (`osmi_places`): `best_dist` is never
  assigned in `get_closest_place`. What holds is `PlaceVerdictIsRight`: the flags
  together are right about there being a place in reach, only not about which.
- *The point is not always the closest* (`closest_on_the_line`). Only the segments
  beside the closest node are looked at; a long segment with its nodes far away
  can pass closer. What holds is `AsCloseAsEveryNode` and `BestBesideTheNode`.
- *An existing directory can be overwritten* (`output_overwritten`), by a run that looked
  for it before it existed: `Create` deletes the other run's files, or opens them
  too. What holds is `StrangersDontMix` and `UndisturbedRunIsWhole`: this takes two
  runs that are past `stat()` at the same time.
- *Buildings with `addr:place` only are missing* in `nodes_with_addresses`
  (`osmi_areas`), while `ways_with_addresses` has them.

Three observations need no run. `handle_connection_line_place` writes its lines with id
0 (ConnectionLinePreprocessor.hpp:131), not with the "ID of the object" that
ConnectionLineWriter.hpp:21 asks for. An alphabetic interpolation whose house numbers
end in two letters gets neither an error nor interpolated nodes
(`alphabetic_error`, `numbers`). And the README's call hierarchy lists
`BuildingsWriter.feed_way()`, which is commented out (SecondHandler.hpp:73): the
layer `buildings` is always empty.

## What is proved

`WriterProofs` proves for every number of layers, every kind of rows and every commit limit:

- `WriterTypes`: `WriterSpec => []WriterTypeOK`, whether or not commits fail.
- `CleanExit`: `WriterSpec => []CleanExitIsComplete`, if commits do not fail. The
  property is not inductive; `WriterInv` adds that the transactions of the
  youngest `destroyed` writers are empty (`YoungestCommitted`) and that the
  process returns only after the last destructor (`ExitAfterLast`).
- `Refinement`: `WriterSpec => KeepsLayerFiles`, if commits do not fail. The
  invariant must say in addition that `num_features` is the length of the
  transaction, so that the counter bounds the lag; a feature maps to `Feed`, a
  destructor to `Store` or `Return`, an ending to `Die`, a construction to a
  stutter.

`InterpolationProofs` proves for every width of the integers, every range and
every set of ways:

- `InterpolationTypes`: the loop stays in the unsigned integers.
- `InterpolatedNumbers`: `Spec => []EveryNumberOnce`. The invariant `LoopInvariant`
  gives the loop variable by the number of rounds (`NextNumber`), the numbers
  written by their position (`Counted`), and says that after the loop none is
  left out (`Complete`). The crux is `RoundUp`/`RoundDown`: with equal parities
  (`Parity`, from the chain of checks) a step of 2 meets the last end point and
  never jumps over it, hence never wraps.

- `ExactSummary`: `Spec => []SummaryIsExact`. `SummaryInv` ties the error field
  at each step to the closed form; the numbers follow from the invariant of
  `InterpolatedNumbers`: written numbers that are `step` apart, with no room for
  another one, are as many as the quotient says (`StepsBetween`).

`OutputDirectoryProofs` proves for any number of runs and of layers:

- `OutputTypes`, `NoStrangers`, `WholeAlone`: the three invariants of the run.
  `OutputInv` says that there is a file only where there is a directory (`FilesNeedDir`),
  so that whoever passes `stat()` finds no file; that runs under way know of each
  other (`RunnersAreRivals`) and of those that have left files behind
  (`OwnersAreRivals`); and that a run without rivals has exactly the files of the
  layers it has opened (`FilesSoFar`), so that its next file is never in the way.

`ClosestPointProofs` proves for lines of every length, every width of the counter
and every rounding with a bounded error:

- `LineBack`: `Spec => []LineComesBack`. The invariant says that both loops walk
  one path: `sum` in the constructor and `prev` in `uncompress` are where the
  first differences lead (`Leads`), and each place on the path is one rounding
  away from its point (`OneRounding`), because the next difference starts from
  the place and not from the point.
- `OperatorsMatch`: `Spec => []LoopsAreOperators`. The operators have recursive
  functions, so `PathExists` first shows by induction that the path they name
  exists, and `ThereAndBack` that uncompressing goes along the path of
  compressing; `LoopInv` says that the loops are on it at every step.
- `CloseOnTheLine`: `Spec => []AsCloseAsEveryNode`. The index and the distance of
  `get_closest_node` belong together and are minimal over the nodes seen; each
  point that `get_closest_point_from_segment` returns lies on its segment and is
  no farther than its first node, which is arithmetic on fractions
  (`FootIsClose`, `EndIsClose`).
- `BestBeside`: `Spec => []BestBesideTheNode`, from `BestInv`, which speaks of every
  fraction of a segment and not only of the sample. One lemma for each of the three results
  of `get_closest_point_from_segment` (`StartIsBest`, `EndIsBest`, `FootIsBest`);
  after the second segment the first must still be beaten, which is transitivity of
  comparing fractions (`Chain`).
- `ClosestTypes`: `Spec => []ClosestTypeOK`.

`OsmiSteps`, `OsmiProofs` and `OsmiFileProofs` prove things about the whole program,
for every set of input files, every geometry that `GeometryAssumption` allows,
and with a commit limit and a table size of any value:

- `ProgramTypes`: `Spec => []OsmiTypeOK`. `TypeInv` also types the tables of names, the
  tags that are kept and the features still to be written. `StepKinds` then reduces every
  action to three kinds: deliver one pending feature (`Deliver`), run a handler
  or change the pass without giving a layer anything (`Read`), or leave all but the
  layers' transactions as it is (`Quiet`). An invariant about rows needs these cases only.
- `NeverDrawnTwice`: `Spec => []WayDrawnOnce`. Not inductive alone: `DrawnInv` adds
  that `written_ways` of a layer has the ways of its rows (`RowsNoted`), and that
  the two tables of streets name different ways (`TablesApart`), so that no way comes
  to both layers.
- `PointsHaveRoads`: `Spec => []EveryPointHasItsRoad`. The property speaks of what the layers
  have been given, open transactions included: what an early end leaves of it in the
  files is up to the commits of each layer. `PointsFollow` says of the calls
  still to be written that a point comes after its own road or area; `NotedDrawn`,
  that a way which is skipped because it is in `written_ways` has its row.
- `AsManyPointsAsLines`: `Spec => []PointsMatchLines`. `BalanceInv` counts points
  and lines in the rows and in the pending calls together, and likewise the connected
  interpolated addresses and their lines; a delivery moves one from the second to the first.
- `FlagsAgree`: `Spec => []RoadFlagAgrees`. `FlagInv` says it of rows and pending calls
  together, and that rows and lines are those of objects whose handler has run (`RowsHandled`,
  `LinesHandled`), since a later line of the same object would falsify a flag. The count of
  interpolated addresses is `BalanceInv`'s.
- `NothingAborts`: `Spec => []SortedFilesDontAbort`. `IndexInv` says what the index of
  locations knows at each position; `EndsKept`, that the set of the first pass has the ends of
  all interpolations passed; `TableGrown`, that the table of the second
  is larger than each of their ids that has come as a node; `EndsOnly`, that the set has no
  other ids, so that without a negative end there is room for all (`TableFits`).
- `InterpolationsJudged`: `Spec => []InterpolationVerdictIsRight`, from `EndsKept` and
  `MapInv`, what the map of the second pass has at each position.
- `PlacesJudged`: `Spec => []PlaceVerdictIsRight`. `PlaceInv` says which places the two tables
  list at each position of the first pass, `VerdictInv` carries the judgement
  from the handler to the row.
- `StreetsJudged`: `Spec => []StreetVerdictIsRight`. `HighwayInv` says what the two tables of
  streets have; `BestOf`, that the search through both of them keeps a closest
  one of those whose box is near; `BoxReach`, that the int16 boxes, compared in
  float, leave out no street in reach. Two comparisons of compressed lines and one error each give
  `CompressionError`.
- `AlarmsJudged`: `Spec => []AlarmsAreReal`, from the two before it.
- `NodesStored`: `Spec => []AddressNodesAreStored`, if commits do not fail. Each node with an
  address has exactly one row, given or waiting (`HandledOnce`), there is no other
  (`RowsAreKnown`), nothing waits when the destructors run (`EndInv`) and they leave
  no transaction open (`YoungestCommitted`).
- `MistakesJudged`: `Spec => []MistakesAreShown`, if commits do not fail: `DueInv` (each
  addressed object passed has its row), the converse half of `BoxReach` and the
  invariants above.

The last proof corrected the model: the property said at first that an address
*with* the tag `addr:street` is shown. The proof got stuck at an empty value, which the
filters of the map treat as none; the property now says so, and `osmi_sorted` has
such an address.

Induction is done over sets of numbers: `Induction` says that a set of naturals with 0
and with the successors of its elements has all naturals, and `Recursion` gives the function that
iterates a step. With them `SequenceLemmas` unfolds `FlattenSeq`, and
`ClosestPointProofs` the recursive functions of `CompressedWay`.

Assumptions: `LayersAssumption`, `LimitAssumption`, `FaultsAssumption`,
`UIntAssumption`, `WaysAssumption`; of the lines
`LinesAssumption` (at least two points, no two successive ones equal, as OGRFactory makes
them), `WidthAssumption`, `FloatAssumption` (a rounding has a bounded error),
`GarbageAssumption`, `PlaneAssumption` and `InfinityAssumption` (the projection
gives integers, whose distances are below `Infinity`); of the files `IdsAssumption`,
`FilesAssumption` (sequences of nodes and ways with unique ids), `NamesAssumption`,
`RawAssumption`, `SizesAssumption`, `CellAssumption`, and `GeometryAssumption`
(coordinates are integers, and compression changes no distance by more than
half of `CompressionError`; `LineBack` says why there is such a bound), and `FloatAssumption` of
`OsmiAddresses` (no value of `is_point_near_bbox` is off by more than `NarrowError`). All are evaluated by TLC in the runs.

Only model-checked: liveness (`FeedWayReturns`, `Terminates`, `EveryRunEnds`),
which is out of the prover's reach. Every other property of a passing run is a theorem.

## Not modelled

- `MemHelper`: `start` and `stop` are commented out in `main`; `print_max` prints.
- `BuildingsWriter::feed_way` is never called; its layer is created and stays empty.
- The test, profiling and index scripts and the viewer are not part of the
  program; `create_spatial_indices.sh` runs one statement per finished file.
- Of the MapServer configuration, the layers that show a file as it is.
- `exit(1)` for a wrong command line, which precedes everything.
- The projection and its inverse, which `ClosestPoint` takes as exact. The
  address and the way come back from them with an error of the last digit.
- What `atoi` makes of a number that does not fit, which is undefined.
- Which of two layers has committed more when the process ends early: each file alone is
  what `KeepsLayerFiles` says.
- Lines of 65536 points and more, in the properties; their truncation is certain.

## Plan

1. `OsmiAddresses` implements `Writer`, with the rows of its calls as `Row`, and so
   `LayerFiles`: what `Refinement` says of writers under any caller then holds of the
   program. `LayersTyped` and `StepKinds` have most of it.
2. What can be proved of liveness: a variant that every step of `Program` decreases (objects
   still to be read, features still to be written, layers still open), likewise for
   `feed_way` and for the runs of `OutputDirectory`; the three properties are then what
   fairness adds to it.
3. `GeometryAssumption` from a distance that is given (the square of the distance to the
   closest vertex, say) and the error that `LineBack` proves, so that `CompressionError`
   is no longer assumed.
