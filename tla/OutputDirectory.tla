--------------------------- MODULE OutputDirectory ---------------------------
(***************************************************************************)
(* Runs of osmi-addresses that are given the same output directory: two    *)
(* started at once, or one after another that died. main() looks for the   *)
(* directory when it starts; the first writer's constructor creates it     *)
(* after the first pass over the input, hours later; and every writer's    *)
(* constructor has GDAL create its file in it (main.cpp, Writer.hpp).      *)
(*                                                                         *)
(* GDALDriver::Create is not atomic. It first deletes, quietly, a dataset  *)
(* of that name, if it can; then the SQLite driver looks whether there is  *)
(* a file, and refuses it if so; and then it opens the file, creating it   *)
(* if need be, but not exclusively. Any other run may act in between.      *)
(***************************************************************************)
EXTENDS Integers, Sequences

CONSTANTS Proc,     \* runs
          Layers    \* the layer names in the order of construction

Layer == {Layers[i] : i \in 1..Len(Layers)}

ASSUME LayersAssumption ==
    /\ Layers \in Seq(Layer) \ {<<>>}
    /\ \A i, j \in 1..Len(Layers) : Layers[i] = Layers[j] => i = j

VARIABLES
    dir,        \* whether the output directory exists
    file,       \* [Layer -> SUBSET Proc]: the runs that opened the file that
                \* the layer's path names now; {} if there is none
    pc,         \* [Proc -> what the process is doing, or how it ended]
    opened,     \* [Proc -> Nat]: how many of its data sources it has
    rivals      \* history: [Proc -> the runs that were past stat() while it was]

vars == <<dir, file, pc, opened, rivals>>

(* "exists" is main's exit(1) at the start, "no_data_source" that of a     *)
(* Writer, "died" any other end but return 0. "deleted" and "checked" are  *)
(* within Create.                                                          *)
Writing == {"constructors", "deleted", "checked", "second_pass"}
Started == {"first_pass"} \union Writing
Running == {"start"} \union Started
Ended   == {"exists", "no_data_source", "exit0", "died"}

OutputTypeOK ==
    /\ dir \in BOOLEAN
    /\ file \in [Layer -> SUBSET Proc]
    /\ pc \in [Proc -> Running \union Ended]
    /\ opened \in [Proc -> 0..Len(Layers)]
    /\ rivals \in [Proc -> SUBSET Proc]
    /\ \A p \in Proc : pc[p] \in {"second_pass", "exit0"} => opened[p] = Len(Layers)

Init == /\ dir    = FALSE
        /\ file   = [l \in Layer |-> {}]
        /\ pc     = [p \in Proc |-> "start"]
        /\ opened = [p \in Proc |-> 0]
        /\ rivals = [p \in Proc |-> {}]

-----------------------------------------------------------------------------
(* The runs past stat() that another one joins                             *)
Others(p) == {q \in Proc \ {p} : pc[q] \in Started}
Join(p) == rivals' = [q \in Proc |-> IF q = p THEN Others(p)
                                     ELSE IF q \in Others(p) THEN rivals[q] \union {p}
                                     ELSE rivals[q]]

(* Faulty: the result of stat() is not looked at.                          *)
stat_directory_unchecked(p) ==
    /\ pc[p] = "start"
    /\ pc' = [pc EXCEPT ![p] = "first_pass"]
    /\ Join(p)
    /\ UNCHANGED <<dir, file, opened>>

(* main's stat()                                                           *)
stat_directory(p) ==
    /\ pc[p] = "start"
    /\ \/ /\ dir
          /\ pc' = [pc EXCEPT ![p] = "exists"]
          /\ UNCHANGED rivals
       \/ /\ ~dir
          /\ pc' = [pc EXCEPT ![p] = "first_pass"]
          /\ Join(p)
    /\ UNCHANGED <<dir, file, opened>>

(* The first pass is over. create_directories is content with a directory  *)
(* that has come into being; is_output_dir_written makes sure that it is   *)
(* called once.                                                            *)
maybe_create_dir(p) ==
    /\ pc[p] = "first_pass"
    /\ pc' = [pc EXCEPT ![p] = "constructors"]
    /\ dir' = TRUE
    /\ UNCHANGED <<file, opened, rivals>>

(* Faulty: two writers have the same layer name.                           *)
next_layer_repeated(p) == Layers[IF opened[p] = 0 THEN 1 ELSE opened[p]]

next_layer(p) == Layers[opened[p] + 1]

-----------------------------------------------------------------------------
(* get_data_source of the next writer calls Create, which deletes a file   *)
(* it takes for a dataset. A file that another run has only just opened is *)
(* none yet.                                                               *)
get_data_source(p) ==
    /\ pc[p] = "constructors"
    /\ pc' = [pc EXCEPT ![p] = "deleted"]
    /\ file' \in {file, [file EXCEPT ![next_layer(p)] = {}]}
    /\ UNCHANGED <<dir, opened, rivals>>

(* Faulty: the writer waits until the file is gone.                        *)
Create_checks_waiting(p) ==
    /\ pc[p] = "deleted"
    /\ file[next_layer(p)] = {}
    /\ pc' = [pc EXCEPT ![p] = "checked"]
    /\ UNCHANGED <<dir, file, opened, rivals>>

(* The driver refuses a file that exists, and the writer exits.            *)
Create_checks(p) ==
    /\ pc[p] = "deleted"
    /\ pc' = [pc EXCEPT ![p] = IF file[next_layer(p)] = {} THEN "checked" ELSE "no_data_source"]
    /\ UNCHANGED <<dir, file, opened, rivals>>

(* Faulty: one writer is forgotten.                                        *)
Create_opens_short(p) ==
    /\ pc[p] = "checked"
    /\ file' = [file EXCEPT ![next_layer(p)] = @ \union {p}]
    /\ opened' = [opened EXCEPT ![p] = @ + 1]
    /\ pc' = [pc EXCEPT ![p] = IF opened'[p] + 1 = Len(Layers) THEN "second_pass" ELSE "constructors"]
    /\ UNCHANGED <<dir, rivals>>

(* It opens the file and makes the layer. In a file that another run has   *)
(* opened in the meantime this can fail, which is an exit(1) as well.      *)
Create_opens(p) ==
    /\ pc[p] = "checked"
    /\ file' = [file EXCEPT ![next_layer(p)] = @ \union {p}]
    /\ \/ /\ opened' = [opened EXCEPT ![p] = @ + 1]
          /\ pc' = [pc EXCEPT ![p] = IF opened'[p] = Len(Layers) THEN "second_pass" ELSE "constructors"]
       \/ /\ file[next_layer(p)] # {}
          /\ pc' = [pc EXCEPT ![p] = "no_data_source"]
          /\ UNCHANGED opened
    /\ UNCHANGED <<dir, rivals>>

return_from_main(p) ==
    /\ pc[p] = "second_pass"
    /\ pc' = [pc EXCEPT ![p] = "exit0"]
    /\ UNCHANGED <<dir, file, opened, rivals>>

(* Any failure of create_directories, of GDAL, of a handler; a signal.     *)
(* Nothing is cleaned up.                                                  *)
dies(p) ==
    /\ pc[p] \in Running
    /\ pc' = [pc EXCEPT ![p] = "died"]
    /\ UNCHANGED <<dir, file, opened, rivals>>

(* Somebody makes room for another run (README.md:84), but not under one   *)
(* that still writes there.                                                *)
remove_directory ==
    /\ dir
    /\ \A p \in Proc : pc[p] \notin Writing
    /\ dir' = FALSE
    /\ file' = [l \in Layer |-> {}]
    /\ UNCHANGED <<pc, opened, rivals>>

Program(p) == \/ stat_directory(p) \/ maybe_create_dir(p)
              \/ get_data_source(p) \/ Create_checks(p) \/ Create_opens(p)
              \/ return_from_main(p)

Next == \/ \E p \in Proc : Program(p) \/ dies(p)
        \/ remove_directory

(* Each run goes on by itself; nobody has to die or to remove anything.    *)
Spec == Init /\ [][Next]_vars /\ \A p \in Proc : WF_vars(Program(p))

-----------------------------------------------------------------------------
(* What becomes of the promise of README.md:25 when runs do not overlap:   *)
(* files of two runs come to be in one directory only if both were past    *)
(* stat() at the same time. A run that starts after another has died adds  *)
(* nothing to what that one left (main.cpp:53).                            *)
StrangersDontMix ==
    \A k, l \in Layer : \A p \in file[k], q \in file[l] : p # q => q \in rivals[p]

(* A run without rivals is not turned away by a writer; the files it       *)
(* writes to are all there and its own; and once it has returned from      *)
(* main, they stay so until the whole directory is removed (Writer.hpp:149)*)
UndisturbedRunIsWhole ==
    \A p \in Proc : rivals[p] = {} =>
        /\ pc[p] # "no_data_source"
        /\ pc[p] = "second_pass" => \A l \in Layer : file[l] = {p}
        /\ pc[p] = "exit0" => \/ \A l \in Layer : file[l] = {p}
                              \/ \A l \in Layer : p \notin file[l]

(* Every run comes to an end, whatever it finds.                           *)
EveryRunEnds == \A p \in Proc : <>(pc[p] \in Ended)

-----------------------------------------------------------------------------
(* "An existing directory will not be overwritten, the software will abort *)
(* instead." (README.md:25): nobody touches a file that exists, unless by  *)
(* removing the directory.                                                 *)
ExistingIsNotOverwritten ==
    [][\A l \in Layer : file[l] # {} /\ dir' => file'[l] = file[l]]_vars
=============================================================================
