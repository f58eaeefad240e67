---------------------------- MODULE MCContainers ----------------------------
(***************************************************************************)
(* The parts of libglox that share nothing, the sizes of its heap, and the *)
(* log: in a behavior one of them runs, and the others stay as they are.   *)
(***************************************************************************)
EXTENDS Vector, Values, HashMap, Strings, Lists, FwdLists, HeapSizes, LogStream, TLC

VARIABLE part    \* the part that runs

vars == <<part, vectorVars, valuesVars, hashMapVars, stringsVars, listsVars, fwdListsVars, heapSizesVars, logVars>>

Part == {"vector", "values", "hash map", "strings", "lists", "forward lists", "sizes", "log"}

\* Of a part that does not run, one of the first states.
Init ==
    /\ part \in Part
    /\ VectorInit /\ (part # "vector" => vs.elem = "trivial")
    /\ ValuesInit /\ (part # "values" => kind = <<"box", "class">>)
    /\ HashMapInit /\ (part # "hash map" => hashOf = CHOOSE h \in [fn : Hashes, checks : {TRUE}] : TRUE)
    /\ StringsInit /\ (part # "strings" => capFactor = 1)
    /\ ListsInit /\ (part # "lists" => listChecks)
    /\ FwdListsInit /\ (part # "forward lists" => chainChecks)
    /\ HeapSizesInit
    /\ LogInit

Next ==
    /\ UNCHANGED part
    /\ \/ /\ part = "vector" /\ VectorNext
          /\ UNCHANGED <<valuesVars, hashMapVars, stringsVars, listsVars, fwdListsVars, heapSizesVars, logVars>>
       \/ /\ part = "values" /\ ValuesNext
          /\ UNCHANGED <<vectorVars, hashMapVars, stringsVars, listsVars, fwdListsVars, heapSizesVars, logVars>>
       \/ /\ part = "hash map" /\ HashMapNext
          /\ UNCHANGED <<vectorVars, valuesVars, stringsVars, listsVars, fwdListsVars, heapSizesVars, logVars>>
       \/ /\ part = "strings" /\ StringsNext
          /\ UNCHANGED <<vectorVars, valuesVars, hashMapVars, listsVars, fwdListsVars, heapSizesVars, logVars>>
       \/ /\ part = "lists" /\ ListsNext
          /\ UNCHANGED <<vectorVars, valuesVars, hashMapVars, stringsVars, fwdListsVars, heapSizesVars, logVars>>
       \/ /\ part = "forward lists" /\ FwdListsNext
          /\ UNCHANGED <<vectorVars, valuesVars, hashMapVars, stringsVars, listsVars, heapSizesVars, logVars>>
       \/ /\ part = "sizes" /\ HeapSizesNext
          /\ UNCHANGED <<vectorVars, valuesVars, hashMapVars, stringsVars, listsVars, fwdListsVars, logVars>>
       \/ /\ part = "log" /\ LogNext
          /\ UNCHANGED <<vectorVars, valuesVars, hashMapVars, stringsVars, listsVars, fwdListsVars,
                         heapSizesVars>>

Spec == Init /\ [][Next]_vars

\* The variables of each part have their types.
ContainersTypeOK ==
    CASE part = "vector" -> VectorTypeOK
      [] part = "values" -> ValuesTypeOK
      [] part = "hash map" -> HashMapTypeOK
      [] part = "strings" -> StringsTypeOK
      [] part = "lists" -> ListsTypeOK
      [] part = "forward lists" -> FwdListsTypeOK
      [] part = "sizes" -> HeapSizesTypeOK
      [] part = "log" -> LogTypeOK

\* The pointers of intrusive_list and of intrusive_fwd_list go through the nodes that were put
\* in, in order (see Lists and FwdLists for what goes wrong).
AllListsAreLinked == ListsAreLinked /\ ChainsAreLinked

-----------------------------------------------------------------------------
\* Instance.

Bit == {0, 1}
Key == 0..2
Flips == {[d \in Bit |-> 1 - d]}
\* The first spreads over the buckets, the second leaves a chain of three.
HashFns == {[k \in Key |-> k], [k \in Key |-> 4 * k]}

SomeTemplates == {<<"char">>, <<"def">>, <<"escape", "dec", "escape">>, <<"hex", "bin">>,
                  <<"def", "char", "dec", "escape">>}
SomeArgs == {[type |-> "unsigned", value |-> 0], [type |-> "signed", value |-> -4],
             [type |-> "pointer", value |-> 6], [type |-> "text", value |-> 0]}

\* The parts have the names of their objects in common.
Sym == Permutations(Vecs)
=============================================================================
