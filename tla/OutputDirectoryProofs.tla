------------------------ MODULE OutputDirectoryProofs ------------------------
(***************************************************************************)
(* Proofs about OutputDirectory for any number of runs and any list of     *)
(* layers. What orders the runs is stat(): a run that passes it finds no   *)
(* directory, hence no file, so that whoever has a file while it is under  *)
(* way was past stat(), too (OwnersAreRivals).                             *)
(***************************************************************************)
EXTENDS OutputDirectory, TLAPS, SequenceTheorems

N == Len(Layers)

FilesNeedDir ==
    /\ ~dir => \A l \in Layer : file[l] = {}
    /\ \A p \in Proc : pc[p] \in Writing => dir

(* Where a run is, and how far it has come                                 *)
Progress ==
    \A p \in Proc :
        /\ pc[p] \in {"start", "first_pass", "exists"} => opened[p] = 0
        /\ pc[p] \in {"constructors", "deleted", "checked"} => opened[p] < N
        /\ pc[p] = "start" => rivals[p] = {}

(* Runs that are under way know of each other, and of those that have a    *)
(* file, as these do of them.                                              *)
RunnersAreRivals ==
    \A p, q \in Proc : p # q /\ pc[p] \in Started /\ pc[q] \in Started => q \in rivals[p]
OwnersAreRivals ==
    \A l \in Layer : \A p \in file[l] :
        \A q \in Proc : p # q /\ pc[q] \in Started => q \in rivals[p] /\ p \in rivals[q]

(* The files of a run without rivals, from stat() to its end               *)
FilesSoFar(p) == \A i \in 1..N : file[Layers[i]] = IF i <= opened[p] THEN {p} ELSE {}
Undisturbed(p) ==
    /\ pc[p] \in Started => FilesSoFar(p)
    /\ pc[p] # "no_data_source"
    /\ pc[p] = "exit0" => \/ \A l \in Layer : file[l] = {p}
                          \/ \A l \in Layer : p \notin file[l]
UndisturbedInv == \A p \in Proc : rivals[p] = {} => Undisturbed(p)

OutputInv == /\ OutputTypeOK /\ FilesNeedDir /\ Progress /\ RunnersAreRivals /\ OwnersAreRivals
             /\ StrangersDontMix /\ UndisturbedInv

-----------------------------------------------------------------------------
LEMMA LayersFacts ==
    /\ N \in Nat \ {0}
    /\ \A i \in 1..N : Layers[i] \in Layer
    /\ \A l \in Layer : \E i \in 1..N : l = Layers[i]
    /\ \A i, j \in 1..N : Layers[i] = Layers[j] => i = j
    /\ 1 \in 1..N
  <1>1. Len(Layers) \in Nat \ {0}
    BY LayersAssumption, EmptySeq, LenProperties
  <1> QED
    BY <1>1, LayersAssumption DEF Layer, N

LEMMA InitInv == Init => OutputInv
  <1> SUFFICES ASSUME Init PROVE OutputInv
    OBVIOUS
  <1>1. OutputTypeOK
    <2>1. 0 \in 0..Len(Layers) /\ "start" \in Running \union Ended
      BY LayersFacts DEF N, Running
    <2> QED
      BY <2>1, LayersFacts DEF Init, OutputTypeOK
  <1>2. FilesNeedDir /\ RunnersAreRivals /\ OwnersAreRivals /\ StrangersDontMix
    BY DEF Init, FilesNeedDir, RunnersAreRivals, OwnersAreRivals, StrangersDontMix, Writing, Started
  <1>3. Progress
    BY LayersFacts DEF Init, Progress
  <1>4. UndisturbedInv
    BY DEF Init, UndisturbedInv, Undisturbed, Started, Writing
  <1> QED
    BY <1>1, <1>2, <1>3, <1>4 DEF OutputInv

-----------------------------------------------------------------------------
(* A run passes stat(). There is no file then, and all runs that are under *)
(* way become its rivals.                                                  *)
LEMMA JoinKeeps ==
  ASSUME OutputInv, NEW p \in Proc, stat_directory(p), ~dir PROVE OutputInv'
  <1>1. /\ pc[p] = "start"
        /\ pc' = [pc EXCEPT ![p] = "first_pass"]
        /\ Join(p)
        /\ UNCHANGED <<dir, file, opened>>
    BY DEF stat_directory
  <1>2. /\ pc \in [Proc -> Running \union Ended] /\ rivals \in [Proc -> SUBSET Proc]
        /\ opened \in [Proc -> 0..Len(Layers)] /\ file \in [Layer -> SUBSET Proc]
        /\ dir \in BOOLEAN
        /\ \A q \in Proc : pc[q] \in {"second_pass", "exit0"} => opened[q] = Len(Layers)
    BY DEF OutputInv, OutputTypeOK
  <1>3. /\ pc'[p] = "first_pass"
        /\ \A q \in Proc : q # p => pc'[q] = pc[q]
        /\ rivals'[p] = Others(p)
        /\ \A q \in Proc : q # p => rivals'[q] = IF q \in Others(p) THEN rivals[q] \union {p}
                                                 ELSE rivals[q]
        /\ \A q \in Proc : q \in Others(p) <=> q # p /\ pc[q] \in Started
        /\ rivals' \in [Proc -> SUBSET Proc]
    BY <1>1, <1>2 DEF Join, Others
  <1>4. \A l \in Layer : file'[l] = {} /\ file[l] = {}
    BY <1>1 DEF OutputInv, FilesNeedDir
  <1>5. OutputTypeOK'
    BY <1>1, <1>2, <1>3 DEF OutputTypeOK, Running, Started
  <1>6. FilesNeedDir'
    BY <1>1, <1>3, <1>4 DEF OutputInv, FilesNeedDir, Writing
  <1>7. Progress'
    BY <1>1, <1>3 DEF OutputInv, Progress, Others, Started, Writing
  <1>8. RunnersAreRivals'
    BY <1>1, <1>3 DEF OutputInv, RunnersAreRivals
  <1>9. OwnersAreRivals' /\ StrangersDontMix'
    BY <1>4 DEF OwnersAreRivals, StrangersDontMix
  <1>10. ASSUME NEW q \in Proc, rivals'[q] = {} PROVE Undisturbed(q)'
    <2>1. CASE q = p
      <3>1. opened'[p] = 0
        BY <1>1 DEF OutputInv, Progress
      <3>2. \A i \in 1..N : file'[Layers[i]] = {} /\ ~(i <= opened'[p])
        BY <3>1, <1>4, LayersFacts
      <3> QED
        BY <2>1, <3>2, <1>3 DEF Undisturbed, FilesSoFar, N
    <2>2. CASE q # p
      <3>1. pc'[q] = pc[q] /\ rivals[q] = {} /\ pc[q] \notin Started
        BY <1>3, <1>10, <2>2
      <3> QED
        BY <3>1, <1>1 DEF OutputInv, UndisturbedInv, Undisturbed
    <2> QED
      BY <2>1, <2>2
  <1> QED
    BY <1>5, <1>6, <1>7, <1>8, <1>9, <1>10 DEF OutputInv, UndisturbedInv

(* A run ends or goes on without a file being touched.                     *)
LEMMA MoveKeeps ==
  ASSUME OutputInv, NEW p \in Proc, NEW where \in Running \union Ended,
         pc[p] \in Running, pc' = [pc EXCEPT ![p] = where],
         UNCHANGED <<file, opened, rivals>>,
         dir' \in BOOLEAN, dir => dir', where \in Writing => dir',
         where \in Started => pc[p] \in Started,
         where \in {"start", "first_pass", "exists"} => pc[p] = "start",
         where \in {"constructors", "deleted", "checked"} => opened[p] < N,
         where \in {"second_pass", "exit0"} => pc[p] = "second_pass",
         where = "no_data_source" => rivals[p] # {},
         where # "start"
  PROVE  OutputInv'
  <1>1. /\ pc \in [Proc -> Running \union Ended]
        /\ pc'[p] = where
        /\ \A q \in Proc : q # p => pc'[q] = pc[q]
    BY DEF OutputInv, OutputTypeOK
  <1>2. \A q \in Proc : pc'[q] \in Started => pc[q] \in Started
    BY <1>1
  <1>3. OutputTypeOK'
    BY <1>1 DEF OutputInv, OutputTypeOK
  <1>4. FilesNeedDir'
    BY <1>1 DEF OutputInv, OutputTypeOK, FilesNeedDir
  <1>5. Progress'
    BY <1>1 DEF OutputInv, Progress
  <1>6. RunnersAreRivals' /\ OwnersAreRivals'
    BY <1>2 DEF OutputInv, RunnersAreRivals, OwnersAreRivals
  <1>7. StrangersDontMix'
    BY DEF OutputInv, StrangersDontMix
  <1>8. ASSUME NEW q \in Proc, rivals'[q] = {} PROVE Undisturbed(q)'
    <2>1. Undisturbed(q)
      BY <1>8 DEF OutputInv, UndisturbedInv
    <2>2. CASE q # p
      BY <1>1, <2>1, <2>2 DEF Undisturbed, FilesSoFar
    <2>3. CASE q = p
      <3>1. pc'[p] \in Started => FilesSoFar(p)'
        BY <1>1, <2>1, <2>3 DEF Undisturbed, FilesSoFar
      <3>2. pc'[p] # "no_data_source"
        BY <1>1, <1>8, <2>3
      <3>3. pc'[p] = "exit0" => \A l \in Layer : file'[l] = {p}
        <4>1. SUFFICES ASSUME pc'[p] = "exit0" PROVE \A l \in Layer : file[l] = {p}
          OBVIOUS
        <4>2. pc[p] = "second_pass"
          BY <4>1, <1>1
        <4>3. opened[p] = N /\ FilesSoFar(p)
          BY <4>2, <2>1, <2>3 DEF OutputInv, OutputTypeOK, Undisturbed, Started, Writing, N
        <4> QED
          BY <4>3, LayersFacts DEF FilesSoFar
      <3> QED
        BY <2>3, <3>1, <3>2, <3>3 DEF Undisturbed
    <2> QED
      BY <2>2, <2>3
  <1> QED
    BY <1>3, <1>4, <1>5, <1>6, <1>7, <1>8 DEF OutputInv, UndisturbedInv

-----------------------------------------------------------------------------
LEMMA NextFile ==
  ASSUME OutputInv, NEW p \in Proc, pc[p] \in {"constructors", "deleted", "checked"}
  PROVE  /\ opened[p] \in 0..(N - 1)
         /\ opened[p] + 1 \in 1..N
         /\ next_layer(p) = Layers[opened[p] + 1]
         /\ next_layer(p) \in Layer
         /\ rivals[p] = {} => file[next_layer(p)] = {}
         /\ dir
  <1>1. opened[p] \in 0..N /\ opened[p] < N
    BY DEF OutputInv, OutputTypeOK, Progress, N
  <1>2. opened[p] + 1 \in 1..N
    BY <1>1, LayersFacts
  <1>3. rivals[p] = {} => FilesSoFar(p)
    BY DEF OutputInv, UndisturbedInv, Undisturbed, Started, Writing
  <1>4. ~(opened[p] + 1 <= opened[p])
    BY <1>1, LayersFacts
  <1>5. rivals[p] = {} => file[Layers[opened[p] + 1]] = {}
    BY <1>2, <1>3, <1>4 DEF FilesSoFar
  <1> QED
    BY <1>1, <1>2, <1>5, LayersFacts DEF next_layer, OutputInv, FilesNeedDir, Writing

(* Who meets another run's files is its rival, and it its.                 *)
LEMMA NoStranger ==
  ASSUME OutputInv, NEW p \in Proc, pc[p] \in Started, NEW q \in Proc, q # p, rivals[q] = {}
  PROVE  pc[q] \notin Started /\ \A l \in Layer : q \notin file[l]
  BY DEF OutputInv, RunnersAreRivals, OwnersAreRivals

(* Create deletes a file: one of the run's rivals, or none.                *)
LEMMA DeleteKeeps ==
  ASSUME OutputInv, NEW p \in Proc, get_data_source(p) PROVE OutputInv'
  <1> DEFINE l == next_layer(p)
  <1>1. /\ pc[p] = "constructors" /\ pc' = [pc EXCEPT ![p] = "deleted"]
        /\ file' \in {file, [file EXCEPT ![l] = {}]}
        /\ UNCHANGED <<dir, opened, rivals>>
        /\ opened[p] < N
        /\ l \in Layer
        /\ rivals[p] = {} => file[l] = {}
        /\ dir
    BY NextFile, LayersFacts DEF get_data_source
  <1>2. /\ pc \in [Proc -> Running \union Ended] /\ pc'[p] = "deleted"
        /\ \A q \in Proc : q # p => pc'[q] = pc[q]
        /\ file \in [Layer -> SUBSET Proc] /\ file' \in [Layer -> SUBSET Proc]
        /\ \A m \in Layer : m # l => file'[m] = file[m]
        /\ file'[l] = file[l] \/ file'[l] = {}
        /\ \A m \in Layer : file'[m] \subseteq file[m]
    BY <1>1 DEF OutputInv, OutputTypeOK
  <1> HIDE DEF l
  <1>3. \A q \in Proc : pc'[q] \in Started <=> pc[q] \in Started
    BY <1>1, <1>2 DEF Started, Writing
  <1>4. OutputTypeOK'
    BY <1>1, <1>2 DEF OutputInv, OutputTypeOK, Running, Started, Writing
  <1>5. FilesNeedDir' /\ Progress'
    BY <1>1, <1>2 DEF OutputInv, FilesNeedDir, Progress
  <1>6. RunnersAreRivals' /\ OwnersAreRivals' /\ StrangersDontMix'
    <2>1. RunnersAreRivals'
      BY <1>1, <1>3 DEF OutputInv, RunnersAreRivals
    <2>2. OwnersAreRivals'
      BY <1>1, <1>2, <1>3 DEF OutputInv, OwnersAreRivals
    <2>3. StrangersDontMix'
      BY <1>1, <1>2 DEF OutputInv, StrangersDontMix
    <2> QED
      BY <2>1, <2>2, <2>3
  <1>7. ASSUME NEW q \in Proc, rivals'[q] = {} PROVE Undisturbed(q)'
    <2>1. Undisturbed(q) /\ rivals[q] = {}
      BY <1>1, <1>7 DEF OutputInv, UndisturbedInv
    <2>2. CASE q = p
      <3>1. \A m \in Layer : file'[m] = file[m]
        BY <1>1, <1>2, <2>1, <2>2
      <3>2. FilesSoFar(p)
        BY <1>1, <2>1, <2>2 DEF Undisturbed, Started, Writing
      <3>3. FilesSoFar(p)'
        BY <3>1, <3>2, <1>1, LayersFacts DEF FilesSoFar, N
      <3> QED
        BY <1>2, <2>2, <3>3 DEF Undisturbed
    <2>3. CASE q # p
      <3>1. pc[q] \notin Started /\ \A m \in Layer : q \notin file[m]
        BY <2>1, <2>3, <1>1, NoStranger DEF Started, Writing
      <3> QED
        BY <1>2, <2>1, <2>3, <3>1 DEF Undisturbed
    <2> QED
      BY <2>2, <2>3
  <1> QED
    BY <1>4, <1>5, <1>6, <1>7 DEF OutputInv, UndisturbedInv

(* The file is opened; there may be others in it, and the run may end.     *)
LEMMA OpenKeeps ==
  ASSUME OutputInv, NEW p \in Proc, Create_opens(p) PROVE OutputInv'
  <1> DEFINE l == next_layer(p)
             k == opened[p] + 1
  <1>1. /\ pc[p] = "checked" /\ file' = [file EXCEPT ![l] = @ \union {p}]
        /\ UNCHANGED <<dir, rivals>>
        /\ l \in Layer /\ l = Layers[k] /\ k \in 1..N /\ opened[p] \in 0..(N - 1)
        /\ rivals[p] = {} => file[l] = {}
        /\ dir
    BY NextFile DEF Create_opens
  <1>2. PICK where \in {"constructors", "second_pass", "no_data_source"} :
        /\ pc' = [pc EXCEPT ![p] = where]
        /\ where = "no_data_source" => file[l] # {} /\ opened' = opened
        /\ where # "no_data_source" => /\ opened' = [opened EXCEPT ![p] = k]
                                       /\ where = IF k = N THEN "second_pass" ELSE "constructors"
    <2>1. opened \in [Proc -> 0..N]
      BY DEF OutputInv, OutputTypeOK, N
    <2> QED
      BY <2>1 DEF Create_opens, N
  <1>3. /\ pc \in [Proc -> Running \union Ended] /\ pc'[p] = where
        /\ \A q \in Proc : q # p => pc'[q] = pc[q] /\ opened'[q] = opened[q]
        /\ where # "no_data_source" => opened'[p] = k
        /\ where = "no_data_source" => opened'[p] = opened[p]
        /\ file \in [Layer -> SUBSET Proc]
        /\ file'[l] = file[l] \union {p}
        /\ \A m \in Layer : m # l => file'[m] = file[m]
        /\ opened \in [Proc -> 0..N] /\ opened' \in [Proc -> 0..N]
        /\ rivals \in [Proc -> SUBSET Proc]
        /\ \A q \in Proc : pc[q] \in {"second_pass", "exit0"} => opened[q] = N
    <2>1. /\ pc \in [Proc -> Running \union Ended] /\ opened \in [Proc -> 0..N]
          /\ file \in [Layer -> SUBSET Proc] /\ rivals \in [Proc -> SUBSET Proc]
          /\ \A q \in Proc : pc[q] \in {"second_pass", "exit0"} => opened[q] = N
      BY DEF OutputInv, OutputTypeOK, N
    <2>2. k \in 0..N
      BY <1>1
    <2> HIDE DEF k, l
    <2> QED
      BY <2>1, <2>2, <1>1, <1>2
  <1> HIDE DEF l, k
  <1>4. pc[p] \in Started /\ \A q \in Proc : pc'[q] \in Started => pc[q] \in Started
    BY <1>1, <1>3 DEF Started, Writing
  <1>5. OutputTypeOK'
    <2>1. file' \in [Layer -> SUBSET Proc]
      BY <1>1, <1>3
    <2>2. pc' \in [Proc -> Running \union Ended]
      BY <1>2, <1>3 DEF Running, Started, Writing, Ended
    <2>3. \A q \in Proc : pc'[q] \in {"second_pass", "exit0"} => opened'[q] = N
      BY <1>2, <1>3
    <2>4. dir' \in BOOLEAN /\ rivals' \in [Proc -> SUBSET Proc]
      BY <1>1, <1>3 DEF OutputInv, OutputTypeOK
    <2> QED
      BY <2>1, <2>2, <2>3, <2>4, <1>3 DEF OutputTypeOK, N
  <1>6. FilesNeedDir'
    BY <1>1, <1>3, <1>2 DEF OutputInv, FilesNeedDir
  <1>7. Progress'
    <2>1. where = "constructors" => k < N
      BY <1>1, <1>2, LayersFacts
    <2> QED
      BY <2>1, <1>1, <1>2, <1>3 DEF OutputInv, Progress
  <1>8. RunnersAreRivals'
    BY <1>1, <1>4 DEF OutputInv, RunnersAreRivals
  <1>9. OwnersAreRivals'
    <2>1. SUFFICES ASSUME NEW m \in Layer, NEW q \in file'[m], NEW r \in Proc,
                          q # r, pc'[r] \in Started
                   PROVE  r \in rivals[q] /\ q \in rivals[r]
      BY <1>1 DEF OwnersAreRivals
    <2>2. CASE q \in file[m]
      BY <2>1, <2>2, <1>4 DEF OutputInv, OwnersAreRivals
    <2>3. CASE q = p
      BY <2>1, <2>3, <1>4 DEF OutputInv, RunnersAreRivals
    <2> QED
      BY <2>1, <2>2, <2>3, <1>3
  <1>10. StrangersDontMix'
    <2>1. SUFFICES ASSUME NEW m \in Layer, NEW n \in Layer, NEW q \in file'[m], NEW r \in file'[n],
                          q # r
                   PROVE  r \in rivals[q]
      BY <1>1 DEF StrangersDontMix
    <2>2. (q \in file[m] \/ q = p) /\ (r \in file[n] \/ r = p)
      BY <1>3
    <2> QED
      BY <2>1, <2>2, <1>4 DEF OutputInv, StrangersDontMix, OwnersAreRivals
  <1>11. ASSUME NEW q \in Proc, rivals'[q] = {} PROVE Undisturbed(q)'
    <2>1. Undisturbed(q) /\ rivals[q] = {}
      BY <1>1, <1>11 DEF OutputInv, UndisturbedInv
    <2>2. CASE q = p
      <3>1. where # "no_data_source" /\ file'[l] = {p}
        BY <1>1, <1>2, <1>3, <2>1, <2>2
      <3>2. \A i \in 1..N : file[Layers[i]] = IF i <= opened[p] THEN {p} ELSE {}
        BY <2>1, <2>2, <1>4 DEF Undisturbed, FilesSoFar
      <3>3. \A i \in 1..N : i # k => file'[Layers[i]] = file[Layers[i]]
        BY <1>1, <1>3, LayersFacts
      <3>4. \A i \in 1..N : i # k => (i <= k <=> i <= opened[p])
        BY <1>1, LayersFacts DEF k
      <3>5. ASSUME NEW i \in 1..N PROVE file'[Layers[i]] = IF i <= k THEN {p} ELSE {}
        <4>1. CASE i = k
          BY <4>1, <3>1, <1>1
        <4>2. CASE i # k
          BY <4>2, <3>2, <3>3, <3>4
        <4> QED
          BY <4>1, <4>2
      <3>6. FilesSoFar(p)'
        BY <3>1, <3>5, <1>3 DEF FilesSoFar, N
      <3> QED
        BY <3>1, <3>6, <1>2, <1>3, <2>2 DEF Undisturbed
    <2>3. CASE q # p
      <3>1. pc[q] \notin Started /\ \A m \in Layer : q \notin file[m]
        BY <2>1, <2>3, <1>4, NoStranger
      <3>2. \A m \in Layer : q \notin file'[m]
        BY <3>1, <1>3, <2>3
      <3> QED
        BY <1>3, <2>1, <2>3, <3>1, <3>2 DEF Undisturbed
    <2> QED
      BY <2>2, <2>3
  <1> QED
    BY <1>5, <1>6, <1>7, <1>8, <1>9, <1>10, <1>11 DEF OutputInv, UndisturbedInv

LEMMA RemovalKeeps == ASSUME OutputInv, remove_directory PROVE OutputInv'
  <1>1. /\ \A p \in Proc : pc[p] \notin Writing
        /\ dir' = FALSE /\ UNCHANGED <<pc, opened, rivals>>
        /\ \A l \in Layer : file'[l] = {}
        /\ file' \in [Layer -> SUBSET Proc]
    BY DEF remove_directory
  <1>2. OutputTypeOK' /\ FilesNeedDir' /\ Progress'
    BY <1>1 DEF OutputInv, OutputTypeOK, FilesNeedDir, Progress
  <1>3. RunnersAreRivals' /\ OwnersAreRivals' /\ StrangersDontMix'
    BY <1>1 DEF OutputInv, RunnersAreRivals, OwnersAreRivals, StrangersDontMix
  <1>4. ASSUME NEW p \in Proc, rivals'[p] = {} PROVE Undisturbed(p)'
    <2>1. pc'[p] \in Started => opened'[p] = 0
      BY <1>1 DEF OutputInv, Progress, Started
    <2>2. pc'[p] # "no_data_source"
      BY <1>1, <1>4 DEF OutputInv, UndisturbedInv, Undisturbed
    <2>3. ASSUME pc'[p] \in Started PROVE FilesSoFar(p)'
      <3>1. \A i \in 1..N : file'[Layers[i]] = {} /\ ~(i <= opened'[p])
        BY <2>1, <2>3, <1>1, LayersFacts
      <3> QED
        BY <3>1 DEF FilesSoFar, N
    <2> QED
      BY <1>1, <2>2, <2>3 DEF Undisturbed
  <1> QED
    BY <1>2, <1>3, <1>4 DEF OutputInv, UndisturbedInv

-----------------------------------------------------------------------------
LEMMA OutputInvStep == OutputInv /\ [Next]_vars => OutputInv'
  <1> SUFFICES ASSUME OutputInv, [Next]_vars PROVE OutputInv'
    OBVIOUS
  <1>1. ASSUME NEW p \in Proc, stat_directory(p) PROVE OutputInv'
    <2>1. CASE dir
      <3>1. pc[p] = "start" /\ pc' = [pc EXCEPT ![p] = "exists"] /\ UNCHANGED <<dir, file, opened, rivals>>
        BY <1>1, <2>1 DEF stat_directory
      <3>2. dir' \in BOOLEAN /\ "exists" \in Running \union Ended /\ pc[p] \in Running
        BY <3>1 DEF OutputInv, OutputTypeOK, Running, Ended
      <3> QED
        BY <3>1, <3>2, MoveKeeps DEF Started, Writing
    <2> QED
      BY <1>1, <2>1, JoinKeeps
  <1>2. ASSUME NEW p \in Proc, maybe_create_dir(p) PROVE OutputInv'
    <2>1. opened[p] < N
      BY <1>2, LayersFacts DEF maybe_create_dir, OutputInv, Progress
    <2> QED
      BY <1>2, <2>1, MoveKeeps DEF maybe_create_dir, Running, Started, Writing
  <1>3. ASSUME NEW p \in Proc, Create_checks(p) PROVE OutputInv'
    <2>1. PICK where \in {"checked", "no_data_source"} :
             /\ pc[p] = "deleted" /\ pc' = [pc EXCEPT ![p] = where]
             /\ where = "no_data_source" => file[next_layer(p)] # {}
             /\ UNCHANGED <<dir, file, opened, rivals>>
      BY <1>3 DEF Create_checks
    <2>2. opened[p] < N /\ dir /\ (where = "no_data_source" => rivals[p] # {})
      BY <2>1, NextFile, LayersFacts
    <2>3. /\ dir' \in BOOLEAN /\ where \in Running \union Ended
          /\ pc[p] \in Running /\ pc[p] \in Started
      BY <2>1 DEF OutputInv, OutputTypeOK, Running, Started, Writing, Ended
    <2> QED
      BY <2>1, <2>2, <2>3, MoveKeeps
  <1>4. ASSUME NEW p \in Proc, return_from_main(p) \/ dies(p) PROVE OutputInv'
    <2>1. PICK where \in {"exit0", "died"} :
             /\ pc[p] \in Running /\ pc' = [pc EXCEPT ![p] = where]
             /\ where = "exit0" => pc[p] = "second_pass"
             /\ UNCHANGED <<dir, file, opened, rivals>>
      BY <1>4 DEF return_from_main, dies, Running, Started, Writing
    <2>2. dir' \in BOOLEAN /\ where \in Running \union Ended /\ where \notin Started
      BY <2>1 DEF OutputInv, OutputTypeOK, Started, Writing, Ended
    <2> QED
      BY <2>1, <2>2, MoveKeeps DEF Started
  <1>5. ASSUME NEW p \in Proc, Program(p) \/ dies(p) PROVE OutputInv'
    BY <1>1, <1>2, <1>3, <1>4, <1>5, DeleteKeeps, OpenKeeps DEF Program
  <1>6. CASE remove_directory
    BY <1>6, RemovalKeeps
  <1>7. CASE UNCHANGED vars
    BY <1>7 DEF vars, OutputInv, OutputTypeOK, FilesNeedDir, Progress, RunnersAreRivals,
                OwnersAreRivals, StrangersDontMix, UndisturbedInv, Undisturbed, FilesSoFar
  <1> QED
    BY <1>5, <1>6, <1>7 DEF Next

LEMMA OutputInvAlways == Spec => []OutputInv
  BY InitInv, OutputInvStep, PTL DEF Spec

-----------------------------------------------------------------------------
(* Types, for any runs and layers; a run writes only with all its files.   *)
THEOREM OutputTypes == Spec => []OutputTypeOK
  <1>1. OutputInv => OutputTypeOK
    BY DEF OutputInv
  <1> QED
    BY <1>1, OutputInvAlways, PTL

(* However many runs there are, files of two of them are in one directory  *)
(* only if these were past stat() at the same time.                        *)
THEOREM NoStrangers == Spec => []StrangersDontMix
  <1>1. OutputInv => StrangersDontMix
    BY DEF OutputInv
  <1> QED
    BY <1>1, OutputInvAlways, PTL

(* A run without rivals gets and keeps the whole directory.                *)
THEOREM WholeAlone == Spec => []UndisturbedRunIsWhole
  <1>1. ASSUME OutputInv, NEW p \in Proc, rivals[p] = {}, pc[p] = "second_pass", NEW l \in Layer
        PROVE  file[l] = {p}
    <2>1. FilesSoFar(p) /\ opened[p] = N
      BY <1>1 DEF OutputInv, OutputTypeOK, UndisturbedInv, Undisturbed, Started, Writing, N
    <2> QED
      BY <2>1, LayersFacts DEF FilesSoFar
  <1>2. OutputInv => UndisturbedRunIsWhole
    BY <1>1 DEF OutputInv, UndisturbedInv, Undisturbed, UndisturbedRunIsWhole
  <1> QED
    BY <1>2, OutputInvAlways, PTL
=============================================================================
