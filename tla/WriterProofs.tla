---------------------------- MODULE WriterProofs ----------------------------
(***************************************************************************)
(* Proofs about Writer for every list of layers and every commit limit:    *)
(* types, the completeness of the files after exit 0, and that the writers *)
(* implement LayerFiles. The last two need commits that do not fail.       *)
(***************************************************************************)
EXTENDS Writer, TLAPS, SequenceTheorems

LEMMA LayersFacts == /\ Len(Layers) \in Nat \ {0}
                     /\ \A i \in 1..Len(Layers) : Layers[i] \in Layer
  BY LayersAssumption, EmptySeq, LenProperties DEF Layer

(* What every action keeps of the types; CommitTransaction is the only     *)
(* place where features move.                                              *)
LEMMA CommitTypes ==
  ASSUME WriterTypeOK, NEW l \in Layer, NEW rows \in Seq(Row),
         CommitTransaction(l, rows)
  PROVE  disk' \in [Layer -> Seq(Row)] /\ txn' \in [Layer -> Seq(Row)]
  <1>1. disk[l] \o rows \in Seq(Row)
    BY ConcatProperties DEF WriterTypeOK
  <1>2. <<>> \in Seq(Row)
    OBVIOUS
  <1> QED
    BY <1>1, <1>2 DEF CommitTransaction, WriterTypeOK

LEMMA TypeStep == WriterTypeOK /\ [WriterNext]_writer_vars => WriterTypeOK'
  <1> SUFFICES ASSUME WriterTypeOK, [WriterNext]_writer_vars PROVE WriterTypeOK'
    OBVIOUS
  <1>1. CASE open_layer
    BY <1>1, LayersFacts DEF open_layer, WriterTypeOK
  <1>2. CASE open_layer_fails
    BY <1>2 DEF open_layer_fails, WriterTypeOK, Endings
  <1>3. ASSUME NEW l \in Layer, NEW r \in Row, create_feature(l, r)
        PROVE  WriterTypeOK'
    <2>1. /\ Append(txn[l], r) \in Seq(Row)
          /\ txn \in [Layer -> Seq(Row)] /\ disk \in [Layer -> Seq(Row)]
          /\ num_features \in [Layer -> 0..CommitLimit]
      BY AppendProperties DEF WriterTypeOK
    <2>2. /\ constructed' \in 0..Len(Layers) /\ destroyed' \in 0..Len(Layers)
          /\ exit' \in {"none"} \union Endings
      BY <1>3 DEF create_feature, WriterTypeOK
    <2>3. CASE num_features[l] + 1 > CommitLimit
      <3>1. /\ CommitTransaction(l, Append(txn[l], r))
            /\ num_features' = [num_features EXCEPT ![l] = 0]
        BY <1>3, <2>3 DEF create_feature
      <3>2. disk' \in [Layer -> Seq(Row)] /\ txn' \in [Layer -> Seq(Row)]
        BY <3>1, <2>1, CommitTypes
      <3>3. num_features' \in [Layer -> 0..CommitLimit]
        BY <3>1, <2>1, LimitAssumption
      <3> QED
        BY <3>2, <3>3, <2>2 DEF WriterTypeOK
    <2>4. CASE ~(num_features[l] + 1 > CommitLimit)
      <3>1. /\ txn' = [txn EXCEPT ![l] = Append(@, r)]
            /\ num_features' = [num_features EXCEPT ![l] = @ + 1]
            /\ disk' = disk
        BY <1>3, <2>4 DEF create_feature
      <3>2. num_features[l] + 1 \in 0..CommitLimit
        BY <2>1, <2>4, LimitAssumption
      <3>3. num_features' \in [Layer -> 0..CommitLimit]
        BY <3>1, <3>2, <2>1
      <3>4. disk' \in [Layer -> Seq(Row)] /\ txn' \in [Layer -> Seq(Row)]
        BY <3>1, <2>1
      <3> QED
        BY <3>3, <3>4, <2>2 DEF WriterTypeOK
    <2> QED
      BY <2>3, <2>4
  <1>4. CASE create_feature_fails
    BY <1>4 DEF create_feature_fails, WriterTypeOK, Endings
  <1>5. CASE destroy_writer
    <2> DEFINE l == Layers[Len(Layers) - destroyed]
    <2>1. Len(Layers) - destroyed \in 1..Len(Layers) /\ destroyed + 1 \in 0..Len(Layers)
      BY <1>5, LayersFacts DEF destroy_writer, WriterTypeOK
    <2>2. l \in Layer
      BY <2>1, LayersFacts
    <2>3. txn[l] \in Seq(Row)
      BY <2>2 DEF WriterTypeOK
    <2>4. CommitTransaction(l, txn[l])
      BY <1>5 DEF destroy_writer
    <2>5. disk' \in [Layer -> Seq(Row)] /\ txn' \in [Layer -> Seq(Row)]
      BY <2>2, <2>3, <2>4, CommitTypes
    <2> QED
      BY <1>5, <2>1, <2>5, LayersFacts DEF destroy_writer, WriterTypeOK, Endings
  <1>6. ASSUME NEW how \in {"aborted", "killed"}, die(how) PROVE WriterTypeOK'
    BY <1>6 DEF die, WriterTypeOK, Endings
  <1>7. CASE UNCHANGED writer_vars
    BY <1>7 DEF writer_vars, WriterTypeOK
  <1> QED
    BY <1>1, <1>2, <1>3, <1>4, <1>5, <1>6, <1>7 DEF WriterNext

(* Every reachable state of the writers has the declared types: the        *)
(* counters stay within the commit limit and the number of layers.         *)
THEOREM WriterTypes == WriterSpec => []WriterTypeOK
  <1>1. WriterInit => WriterTypeOK
    BY LayersFacts, LimitAssumption DEF WriterInit, WriterTypeOK
  <1> QED
    BY <1>1, TypeStep, PTL DEF WriterSpec

-----------------------------------------------------------------------------
(* Without commit faults the counter is the length of the transaction, and *)
(* the writers destroyed so far are the youngest ones, all committed.      *)
Counted == destroyed = 0 => \A l \in Layer : num_features[l] = Len(txn[l])
LossBounded == \A l \in Layer : Len(txn[l]) <= CommitLimit
YoungestCommitted ==
    \A i \in 1..Len(Layers) : i > Len(Layers) - destroyed => txn[Layers[i]] = <<>>
ExitAfterLast == /\ exit = "none" => destroyed < Len(Layers)
                 /\ exit = "exit0" => destroyed = Len(Layers)
WriterInv == /\ WriterTypeOK
             /\ Counted /\ LossBounded /\ YoungestCommitted /\ ExitAfterLast

LEMMA CommitClears ==
  ASSUME CommitFaults = FALSE, NEW l, NEW rows, CommitTransaction(l, rows)
  PROVE  disk' = [disk EXCEPT ![l] = @ \o rows] /\ txn' = [txn EXCEPT ![l] = <<>>]
  BY DEF CommitTransaction

LEMMA InvStep ==
  ASSUME CommitFaults = FALSE, WriterInv, [WriterNext]_writer_vars
  PROVE  WriterInv'
  <1>1. WriterTypeOK'
    BY TypeStep DEF WriterInv
  <1>2. CASE /\ UNCHANGED <<txn, num_features, destroyed>>
             /\ exit' = exit \/ exit' \in {"exit1", "aborted", "killed"}
    BY <1>1, <1>2 DEF WriterInv, Counted, LossBounded, YoungestCommitted, ExitAfterLast
  <1>3. ASSUME NEW l \in Layer, NEW r \in Row, create_feature(l, r)
        PROVE  WriterInv'
    <2>1. /\ destroyed = 0 /\ destroyed' = 0 /\ exit' = exit
          /\ txn \in [Layer -> Seq(Row)] /\ txn[l] \in Seq(Row)
          /\ num_features \in [Layer -> 0..CommitLimit]
          /\ num_features[l] = Len(txn[l])
      BY <1>3 DEF create_feature, Writable, WriterInv, WriterTypeOK, Counted
    <2>2. CASE num_features[l] + 1 > CommitLimit
      <3>1. /\ txn' = [txn EXCEPT ![l] = <<>>]
            /\ num_features' = [num_features EXCEPT ![l] = 0]
        BY <1>3, <2>2, CommitClears DEF create_feature
      <3>2. \A k \in Layer : num_features'[k] = Len(txn'[k]) /\ Len(txn'[k]) <= CommitLimit
        BY <3>1, <2>1, LimitAssumption, EmptySeq DEF WriterInv, Counted, LossBounded
      <3> QED
        BY <1>1, <2>1, <3>2 DEF WriterInv, Counted, LossBounded, YoungestCommitted, ExitAfterLast
    <2>3. CASE ~(num_features[l] + 1 > CommitLimit)
      <3>1. /\ txn' = [txn EXCEPT ![l] = Append(@, r)]
            /\ num_features' = [num_features EXCEPT ![l] = @ + 1]
        BY <1>3, <2>3 DEF create_feature
      <3>2. Len(Append(txn[l], r)) = Len(txn[l]) + 1
        BY <2>1, AppendProperties
      <3>3. Len(txn[l]) + 1 <= CommitLimit
        BY <2>1, <2>3, LimitAssumption
      <3>4. \A k \in Layer : num_features'[k] = Len(txn'[k]) /\ Len(txn'[k]) <= CommitLimit
        BY <3>1, <3>2, <3>3, <2>1 DEF WriterInv, Counted, LossBounded
      <3> QED
        BY <1>1, <2>1, <3>4 DEF WriterInv, Counted, LossBounded, YoungestCommitted, ExitAfterLast
    <2> QED
      BY <2>2, <2>3
  <1>4. CASE destroy_writer
    <2> DEFINE n == Len(Layers)
               l == Layers[n - destroyed]
    <2>1. /\ n \in Nat /\ destroyed \in 0..n /\ destroyed < n
          /\ n - destroyed \in 1..n /\ destroyed' = destroyed + 1
          /\ exit = "none" /\ exit' = IF destroyed' = n THEN "exit0" ELSE exit
      BY <1>4, LayersFacts DEF destroy_writer, WriterInv, WriterTypeOK
    <2>2. l \in Layer
      BY <2>1, LayersFacts
    <2>3. txn' = [txn EXCEPT ![l] = <<>>]
      BY <1>4, CommitClears DEF destroy_writer
    <2>4. txn \in [Layer -> Seq(Row)]
      BY DEF WriterInv, WriterTypeOK
    <2>5. LossBounded'
      BY <2>2, <2>3, <2>4, LimitAssumption, EmptySeq DEF WriterInv, LossBounded
    <2>6. YoungestCommitted'
      <3> SUFFICES ASSUME NEW i \in 1..n, i > n - destroyed' PROVE txn'[Layers[i]] = <<>>
        BY DEF YoungestCommitted
      <3>1. Layers[i] \in Layer
        BY LayersFacts
      <3>2. CASE i = n - destroyed
        BY <3>1, <3>2, <2>3, <2>4
      <3>3. CASE i > n - destroyed
        <4>1. txn[Layers[i]] = <<>>
          BY <3>3 DEF WriterInv, YoungestCommitted
        <4> QED
          BY <4>1, <3>1, <2>3, <2>4
      <3> HIDE DEF n
      <3>4. i = n - destroyed \/ i > n - destroyed
        BY <2>1
      <3> QED
        BY <3>2, <3>3, <3>4
    <2>7. Counted' /\ ExitAfterLast'
      <3>1. destroyed' # 0 /\ (exit' = "none" => destroyed' < n)
            /\ (exit' = "exit0" => destroyed' = n)
        <4> HIDE DEF n
        <4> QED BY <2>1
      <3> QED
        BY <3>1 DEF Counted, ExitAfterLast
    <2> QED
      BY <1>1, <2>5, <2>6, <2>7 DEF WriterInv
  <1> QED
    <2>1. CASE open_layer
      BY <1>2, <2>1 DEF open_layer
    <2>2. CASE open_layer_fails
      BY <1>2, <2>2 DEF open_layer_fails
    <2>3. CASE create_feature_fails
      BY <1>2, <2>3 DEF create_feature_fails
    <2>4. CASE \E how \in {"aborted", "killed"} : die(how)
      BY <1>2, <2>4 DEF die
    <2>5. CASE UNCHANGED writer_vars
      <3>1. WriterInv /\ UNCHANGED writer_vars => WriterInv'
        BY DEF writer_vars, WriterInv, WriterTypeOK, Counted, LossBounded,
               YoungestCommitted, ExitAfterLast
      <3> QED
        BY <3>1, <2>5
    <2> QED
      BY <1>3, <1>4, <2>1, <2>2, <2>3, <2>4, <2>5 DEF WriterNext

LEMMA InvInit == WriterInit => WriterInv
  <1> SUFFICES ASSUME WriterInit PROVE WriterInv
    OBVIOUS
  <1>1. WriterTypeOK
    BY LayersFacts, LimitAssumption DEF WriterInit, WriterTypeOK
  <1>2. Counted /\ LossBounded
    BY LimitAssumption, EmptySeq DEF WriterInit, Counted, LossBounded
  <1>3. YoungestCommitted /\ ExitAfterLast
    BY LayersFacts DEF WriterInit, YoungestCommitted, ExitAfterLast
  <1> QED
    BY <1>1, <1>2, <1>3 DEF WriterInv

(* When main returns 0, no layer has a feature that is not in its file.    *)
LEMMA InvClean == WriterInv => CleanExitIsComplete
  <1> SUFFICES ASSUME WriterInv, exit = "exit0", NEW l \in Layer PROVE txn[l] = <<>>
    BY DEF CleanExitIsComplete
  <1>1. PICK i \in 1..Len(Layers) : l = Layers[i]
    BY DEF Layer
  <1>2. destroyed = Len(Layers)
    BY DEF WriterInv, ExitAfterLast
  <1>3. i > Len(Layers) - destroyed
    <2>1. Len(Layers) \in Nat
      BY LayersFacts
    <2> QED
      BY <1>2, <2>1
  <1> QED
    BY <1>1, <1>3 DEF WriterInv, YoungestCommitted

(* If commits do not fail, main returns 0 with nothing left in a           *)
(* transaction: the destructors of all writers have run, youngest first.   *)
THEOREM CleanExit ==
  ASSUME CommitFaults = FALSE
  PROVE  WriterSpec => []CleanExitIsComplete
  BY InvInit, InvStep, InvClean, PTL DEF WriterSpec

-----------------------------------------------------------------------------
(* The writers implement LayerFiles: an open transaction holds back at     *)
(* most CommitLimit features, which the destructor delivers.               *)
fedBar == [l \in Layer |-> disk[l] \o txn[l]]

(* Committing a layer's open transaction changes its file, and nothing of  *)
(* what has been fed.                                                      *)
LEMMA CommitStores ==
  ASSUME WriterTypeOK, NEW l \in Layer, NEW rows \in Seq(Row),
         disk' = [disk EXCEPT ![l] = @ \o rows], txn' = [txn EXCEPT ![l] = <<>>]
  PROVE  /\ fedBar' = [fedBar EXCEPT ![l] = disk[l] \o rows]
         /\ disk' = [disk EXCEPT ![l] = fedBar'[l]]
  <1>1. disk \in [Layer -> Seq(Row)] /\ txn \in [Layer -> Seq(Row)]
    BY DEF WriterTypeOK
  <1>2. disk[l] \o rows \in Seq(Row) /\ (disk[l] \o rows) \o <<>> = disk[l] \o rows
    BY <1>1, ConcatProperties, ConcatEmptySeq
  <1>3. fedBar'[l] = disk[l] \o rows
    BY <1>1, <1>2 DEF fedBar
  <1>4. fedBar' = [fedBar EXCEPT ![l] = disk[l] \o rows]
    BY <1>1, <1>3 DEF fedBar
  <1> QED
    BY <1>1, <1>3, <1>4

LEMMA LagArithmetic ==
  ASSUME NEW a \in Nat, NEW b \in Nat, NEW c \in Nat, b + 1 <= c
  PROVE  a + b + 1 <= a + c
  OBVIOUS

LEMMA RefinesInit == WriterInit => Files!Init
  <1> SUFFICES ASSUME WriterInit PROVE Files!Init
    OBVIOUS
  <1>1. <<>> \o <<>> = <<>>
    BY ConcatEmptySeq, EmptySeq
  <1> QED
    BY <1>1 DEF WriterInit, Files!Init

LEMMA RefinesStep ==
  ASSUME CommitFaults = FALSE, WriterInv, WriterInv', [WriterNext]_writer_vars
  PROVE  [Files!Next]_(Files!vars)
  <1>0. WriterTypeOK /\ disk \in [Layer -> Seq(Row)] /\ txn \in [Layer -> Seq(Row)]
    BY DEF WriterInv, WriterTypeOK
  <1>1. CASE UNCHANGED <<disk, txn, exit>>
    BY <1>1 DEF Files!vars
  <1>2. CASE exit = "none" /\ exit' \in {"exit1", "aborted", "killed"} /\ UNCHANGED <<disk, txn>>
    BY <1>2 DEF Files!Next, Files!Die
  <1>3. ASSUME NEW l \in Layer, NEW r \in Row, create_feature(l, r)
        PROVE  Files!Feed(l, r)
    <2>1. /\ exit = "none" /\ exit' = exit /\ destroyed = 0
          /\ Append(txn[l], r) \in Seq(Row)
          /\ num_features[l] = Len(txn[l])
      BY <1>0, <1>3, AppendProperties DEF create_feature, Writable, WriterInv, Counted
    <2>2. disk[l] \o Append(txn[l], r) = Append(fedBar[l], r)
      BY <1>0, AppendIsConcat, ConcatProperties DEF fedBar
    <2>3. CASE num_features[l] + 1 > CommitLimit
      <3>1. /\ disk' = [disk EXCEPT ![l] = @ \o Append(txn[l], r)]
            /\ txn' = [txn EXCEPT ![l] = <<>>]
        BY <1>3, <2>3, CommitClears DEF create_feature
      <3>2. /\ fedBar' = [fedBar EXCEPT ![l] = Append(fedBar[l], r)]
            /\ disk' = [disk EXCEPT ![l] = fedBar'[l]]
        BY <1>0, <2>1, <2>2, <3>1, CommitStores
      <3>3. fedBar'[l] = Append(fedBar[l], r)
        BY <3>2 DEF fedBar
      <3> QED
        BY <2>1, <3>2, <3>3 DEF Files!Feed, fedBar
    <2>4. CASE ~(num_features[l] + 1 > CommitLimit)
      <3>1. txn' = [txn EXCEPT ![l] = Append(@, r)] /\ disk' = disk
        BY <1>3, <2>4 DEF create_feature
      <3>2. fedBar' = [fedBar EXCEPT ![l] = Append(fedBar[l], r)]
        BY <1>0, <2>2, <3>1 DEF fedBar
      <3>3. Len(Append(fedBar[l], r)) <= Len(disk[l]) + CommitLimit
        <4> DEFINE now == Append(fedBar[l], r)
        <4>0. fedBar[l] \in Seq(Row)
          BY <1>0, ConcatProperties DEF fedBar
        <4>1. Len(fedBar[l]) = Len(disk[l]) + Len(txn[l])
          BY <1>0, ConcatProperties DEF fedBar
        <4>2. Len(now) = Len(fedBar[l]) + 1
          BY <4>0, AppendProperties
        <4>3. Len(disk[l]) \in Nat /\ Len(txn[l]) \in Nat
          BY <1>0, LenProperties
        <4>4. Len(txn[l]) + 1 <= CommitLimit
          BY <4>3, <2>1, <2>4, LimitAssumption
        <4> HIDE DEF now
        <4>5. Len(now) = Len(disk[l]) + Len(txn[l]) + 1
          BY <4>1, <4>2
        <4>6. Len(disk[l]) + Len(txn[l]) + 1 <= Len(disk[l]) + CommitLimit
          BY <4>3, <4>4, LagArithmetic, LimitAssumption
        <4>7. Len(now) <= Len(disk[l]) + CommitLimit
          BY <4>5, <4>6
        <4> QED
          BY <4>7 DEF now
      <3> QED
        BY <2>1, <3>1, <3>2, <3>3 DEF Files!Feed, fedBar
    <2> QED
      BY <2>3, <2>4
  <1>4. ASSUME destroy_writer
        PROVE  \E l \in Layer : Files!Store(l) \/ Files!Return(l)
    <2> DEFINE n == Len(Layers)
               l == Layers[n - destroyed]
    <2>1. n \in Nat /\ destroyed \in 0..n /\ destroyed < n /\ exit = "none"
      BY <1>4, LayersFacts DEF destroy_writer, WriterInv, WriterTypeOK
    <2>2. l \in Layer
      BY <2>1, LayersFacts
    <2>3. disk' = [disk EXCEPT ![l] = @ \o txn[l]] /\ txn' = [txn EXCEPT ![l] = <<>>]
      BY <1>4, CommitClears DEF destroy_writer
    <2>4. fedBar[l] = disk[l] \o txn[l] /\ txn[l] \in Seq(Row)
      BY <1>0, <2>2 DEF fedBar
    <2>5. fedBar' = fedBar /\ disk' = [disk EXCEPT ![l] = fedBar[l]]
      <3>1. /\ fedBar' = [fedBar EXCEPT ![l] = disk[l] \o txn[l]]
            /\ disk' = [disk EXCEPT ![l] = fedBar'[l]]
        BY <1>0, <2>2, <2>3, <2>4, CommitStores
      <3>2. fedBar' = fedBar
        BY <3>1, <2>4 DEF fedBar
      <3> QED
        BY <3>1, <3>2
    <2>6. CASE exit' = exit
      BY <2>1, <2>2, <2>5, <2>6 DEF Files!Store, fedBar
    <2>7. CASE exit' = "exit0"
      <3>1. \A k \in Layer : txn'[k] = <<>>
        <4>1. CleanExitIsComplete'
          BY InvClean, PTL
        <4> QED
          BY <4>1, <2>7 DEF CleanExitIsComplete
      <3>2. disk' = fedBar'
        <4>1. \A k \in Layer : disk'[k] \o <<>> = disk'[k]
          BY ConcatEmptySeq DEF WriterInv, WriterTypeOK
        <4>2. disk' \in [Layer -> Seq(Row)]
          BY DEF WriterInv, WriterTypeOK
        <4> QED
          BY <3>1, <4>1, <4>2 DEF fedBar
      <3> QED
        BY <2>1, <2>2, <2>5, <2>7, <3>2 DEF Files!Return, fedBar
    <2> QED
      BY <1>4, <2>6, <2>7 DEF destroy_writer
  <1> QED
    <2>1. CASE open_layer
      BY <1>1, <2>1 DEF open_layer
    <2>2. CASE open_layer_fails
      BY <1>2, <2>2 DEF open_layer_fails
    <2>3. CASE create_feature_fails
      BY <1>2, <2>3 DEF create_feature_fails, Writable
    <2>4. CASE \E how \in {"aborted", "killed"} : die(how)
      BY <1>2, <2>4 DEF die
    <2>5. CASE UNCHANGED writer_vars
      BY <1>1, <2>5 DEF writer_vars
    <2>6. CASE \E l \in Layer, r \in Row : create_feature(l, r)
      BY <1>3, <2>6 DEF Files!Next
    <2>7. CASE destroy_writer
      BY <1>4, <2>7 DEF Files!Next
    <2> QED
      BY <2>1, <2>2, <2>3, <2>4, <2>5, <2>6, <2>7 DEF WriterNext

(* If commits do not fail, every behaviour of the writers is one of        *)
(* LayerFiles: the files grow only by appending, lag by at most            *)
(* CommitLimit features of a layer, and by nothing when main returns 0.    *)
THEOREM Refinement ==
  ASSUME CommitFaults = FALSE
  PROVE  WriterSpec => KeepsLayerFiles
  BY InvInit, InvStep, RefinesInit, RefinesStep, PTL
     DEF WriterSpec, KeepsLayerFiles, Files!Spec
=============================================================================
