------------------------------ MODULE MCWriter ------------------------------
(* Three layers fed in any order, with a commit at every third feature.    *)
EXTENDS Writer

CONSTANT MaxFeatures    \* bound on the features fed to one layer

MCLayers == <<"nodes_with_addresses", "nearest_roads", "entrances">>

MCNext ==
    \/ open_layer
    \/ open_layer_fails
    \/ \E l \in Layer, r \in Row :
          Len(disk[l]) + Len(txn[l]) < MaxFeatures /\ create_feature(l, r)
    \/ create_feature_fails
    \/ destroy_writer
    \/ \E how \in {"aborted", "killed"} : die(how)

MCSpec == WriterInit /\ [][MCNext]_writer_vars
=============================================================================
