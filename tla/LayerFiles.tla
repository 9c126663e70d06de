----------------------------- MODULE LayerFiles -----------------------------
(***************************************************************************)
(* What the layer files promise, whatever the transactions of Writer.hpp   *)
(* do: every layer is an append-only list of features, of which a prefix   *)
(* can be found in its .sqlite file; a process that dies has lost at most  *)
(* Window features of a layer; and a process that returns 0 has lost none. *)
(***************************************************************************)
EXTENDS Integers, Sequences

CONSTANTS Layer,    \* the names of the layers
          Row,      \* what a feature can hold
          Window    \* how many features of one layer may be missing in its file

VARIABLES fed,      \* [Layer -> Seq(Row)]: the features handed to the layer
          stored,   \* [Layer -> Seq(Row)]: the features its file holds
          exit      \* "none" while the process lives, then how it ended

vars == <<fed, stored, exit>>

Init == /\ fed    = [l \in Layer |-> <<>>]
        /\ stored = [l \in Layer |-> <<>>]
        /\ exit   = "none"

(* One more feature. At most Window features stay behind; if the file is   *)
(* brought up to date, it holds the new feature as well.                   *)
Feed(l, r) == LET now == Append(fed[l], r) IN
    /\ exit = "none"
    /\ fed' = [fed EXCEPT ![l] = now]
    /\ \/ stored' = stored /\ Len(now) <= Len(stored[l]) + Window
       \/ stored' = [stored EXCEPT ![l] = now]
    /\ UNCHANGED exit

Store(l) == /\ exit = "none"
            /\ stored' = [stored EXCEPT ![l] = fed[l]]
            /\ UNCHANGED <<fed, exit>>

(* The process ends well, which may store the last layer's features.       *)
Return(l) == /\ exit = "none"
             /\ stored' = [stored EXCEPT ![l] = fed[l]]
             /\ stored' = fed
             /\ exit' = "exit0"
             /\ UNCHANGED fed

Die(how) == /\ exit = "none"
            /\ exit' = how
            /\ UNCHANGED <<fed, stored>>

Next == \/ \E l \in Layer, r \in Row : Feed(l, r)
        \/ \E l \in Layer : Store(l) \/ Return(l)
        \/ \E how \in {"exit1", "aborted", "killed"} : Die(how)

Spec == Init /\ [][Next]_vars
=============================================================================
