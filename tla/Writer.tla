------------------------------- MODULE Writer -------------------------------
(***************************************************************************)
(* The layer writers of osmi-addresses: Writer.hpp, the base class of the  *)
(* eleven classes that each write one .sqlite file. main() constructs them *)
(* in the order of SecondHandler's members, feeds them, and destroys them  *)
(* in reverse; every failure the code notices is exit(1), which runs no    *)
(* destructor.                                                             *)
(***************************************************************************)
EXTENDS Integers, Sequences

CONSTANTS Layers,       \* the layer names in the order of construction
          Row,          \* what a feature can hold
          CommitLimit,  \* 10000 in the code
          CommitFaults  \* whether CommitTransaction, whose result is ignored, may fail

Layer == {Layers[i] : i \in 1..Len(Layers)}

ASSUME LayersAssumption ==
    /\ Layers \in Seq(Layer) \ {<<>>}
    /\ \A i, j \in 1..Len(Layers) : Layers[i] = Layers[j] => i = j
ASSUME LimitAssumption == CommitLimit \in Nat
ASSUME FaultsAssumption == CommitFaults \in BOOLEAN

VARIABLES
    disk,           \* [Layer -> Seq(Row)]: committed features of each layer file
    txn,            \* [Layer -> Seq(Row)]: features of the open transaction
    num_features,   \* [Layer -> Nat]: m_data_source's features since the last commit
    constructed,    \* how many writers have been constructed
    destroyed,      \* how many of them have been destroyed again
    exit            \* "none", or how the process ended (Endings)

(* main returned 0, exit(1) was called, an exception was not caught, or a  *)
(* signal ended the process.                                               *)
Endings == {"exit0", "exit1", "aborted", "killed"}

writer_vars == <<disk, txn, num_features, constructed, destroyed, exit>>

WriterTypeOK ==
    /\ disk \in [Layer -> Seq(Row)]
    /\ txn \in [Layer -> Seq(Row)]
    /\ num_features \in [Layer -> 0..CommitLimit]
    /\ constructed \in 0..Len(Layers)
    /\ destroyed \in 0..Len(Layers)
    /\ exit \in {"none"} \union Endings

WriterInit ==
    /\ disk = [l \in Layer |-> <<>>]
    /\ txn  = [l \in Layer |-> <<>>]
    /\ num_features = [l \in Layer |-> 0]
    /\ constructed = 0
    /\ destroyed = 0
    /\ exit = "none"

(* All writers exist: osmium::apply(reader2, ...) can run.                 *)
Writable == exit = "none" /\ constructed = Len(Layers) /\ destroyed = 0

-----------------------------------------------------------------------------
(* The constructor of the next writer, with create_layer, create_fields    *)
(* and StartTransaction.                                                   *)
open_layer ==
    /\ exit = "none"
    /\ constructed < Len(Layers)
    /\ constructed' = constructed + 1
    /\ UNCHANGED <<disk, txn, num_features, destroyed, exit>>

(* ... and its failures: no driver, data source, layer or field.           *)
open_layer_fails ==
    /\ exit = "none"
    /\ constructed < Len(Layers)
    /\ exit' = "exit1"
    /\ UNCHANGED <<disk, txn, num_features, constructed, destroyed>>

(* CommitTransaction with `rows` in the transaction. A failure leaves the  *)
(* transaction open; nobody looks at the result.                           *)
CommitTransaction(l, rows) ==
    \/ /\ disk' = [disk EXCEPT ![l] = @ \o rows]
       /\ txn'  = [txn EXCEPT ![l] = <<>>]
    \/ /\ CommitFaults
       /\ disk' = disk
       /\ txn'  = [txn EXCEPT ![l] = rows]

(* Faulty: the counter is compared before it is incremented.              *)
create_feature_late(l, r) ==
    /\ Writable
    /\ IF num_features[l] > CommitLimit
       THEN /\ CommitTransaction(l, Append(txn[l], r))
            /\ num_features' = [num_features EXCEPT ![l] = 0]
       ELSE /\ txn' = [txn EXCEPT ![l] = Append(@, r)]
            /\ num_features' = [num_features EXCEPT ![l] = @ + 1]
            /\ UNCHANGED disk
    /\ UNCHANGED <<constructed, destroyed, exit>>

(* create_feature and the maybe_commit_transaction at its end.             *)
create_feature(l, r) ==
    /\ Writable
    /\ IF num_features[l] + 1 > CommitLimit
       THEN /\ CommitTransaction(l, Append(txn[l], r))
            /\ num_features' = [num_features EXCEPT ![l] = 0]
       ELSE /\ txn' = [txn EXCEPT ![l] = Append(@, r)]
            /\ num_features' = [num_features EXCEPT ![l] = @ + 1]
            /\ UNCHANGED disk
    /\ UNCHANGED <<constructed, destroyed, exit>>

(* CreateFeature reports an error: exit(1), and what the transactions of   *)
(* all layers hold is rolled back with the process.                        *)
create_feature_fails ==
    /\ Writable
    /\ exit' = "exit1"
    /\ UNCHANGED <<disk, txn, num_features, constructed, destroyed>>

(* Faulty: a destructor that leaves the open transaction uncommitted.      *)
destroy_writer_only ==
    /\ exit = "none"
    /\ constructed = Len(Layers)
    /\ destroyed < Len(Layers)
    /\ destroyed' = destroyed + 1
    /\ exit' = IF destroyed' = Len(Layers) THEN "exit0" ELSE exit
    /\ UNCHANGED <<disk, txn, num_features, constructed>>

(* The destructor of the youngest writer; with the oldest, main returns 0. *)
destroy_writer ==
    /\ exit = "none"
    /\ constructed = Len(Layers)
    /\ destroyed < Len(Layers)
    /\ LET l == Layers[Len(Layers) - destroyed] IN CommitTransaction(l, txn[l])
    /\ destroyed' = destroyed + 1
    /\ exit' = IF destroyed' = Len(Layers) THEN "exit0" ELSE exit
    /\ UNCHANGED <<num_features, constructed>>

(* An uncaught exception, or a signal: no destructor runs.                 *)
die(how) ==
    /\ exit = "none"
    /\ exit' = how
    /\ UNCHANGED <<disk, txn, num_features, constructed, destroyed>>

-----------------------------------------------------------------------------
(* The writers under a caller that feeds them in any order.                *)
WriterNext ==
    \/ open_layer \/ open_layer_fails
    \/ \E l \in Layer, r \in Row : create_feature(l, r)
    \/ create_feature_fails
    \/ destroy_writer
    \/ \E how \in {"aborted", "killed"} : die(how)

WriterSpec == WriterInit /\ [][WriterNext]_writer_vars

-----------------------------------------------------------------------------
(* The writers keep what LayerFiles promises: each .sqlite file holds a    *)
(* prefix of the features given to create_feature, at most CommitLimit     *)
(* behind, and the files are complete when main returns 0.                 *)
Files == INSTANCE LayerFiles WITH
            fed    <- [l \in Layer |-> disk[l] \o txn[l]],
            stored <- disk,
            Window <- CommitLimit
KeepsLayerFiles == Files!Spec

(* main() returns 0 only after every layer's last transaction was          *)
(* committed (Writer::~Writer), whatever number of features it held.       *)
CleanExitIsComplete == exit = "exit0" => \A l \in Layer : txn[l] = <<>>
=============================================================================
