-------------------------- MODULE MCOutputDirectory --------------------------
(* Three runs and three of the eleven layers                               *)
EXTENDS OutputDirectory

MCProc   == 1..3
MCLayers == <<"nodes_with_addresses", "nearest_points", "nearest_roads">>
=============================================================================
