------------------------------ MODULE FwdLists ------------------------------
(***************************************************************************)
(* glox::intrusive_fwd_list (glox/intrusive_fwd_list.hpp): the buckets of  *)
(* HashMap, and the operations hash_map does not use.                      *)
(*                                                                         *)
(* A node is put in a list only when it is in none; what is taken out      *)
(* keeps its pointer.  An operation that does not do what it should is     *)
(* noted in chainLog, and ends the history.                                *)
(***************************************************************************)
EXTENDS Integers, Sequences, SequencesExt, FiniteSets, FiniteSetsExt

CONSTANTS
    Chains,    \* the lists
    Knots,     \* nodes
    NoKnot     \* nullptr

ASSUME FwdListsAssumption == NoKnot \notin Knots /\ IsFiniteSet(Knots)

VARIABLES
    chainChecks,   \* whether assertions are compiled in
    first,         \* first_node of every list
    after,         \* fwd_list_node.next of every node
    chain,         \* history: the sequence every list stands for
    chainLog       \* history: <<operation, what went wrong>>

fwdListsVars == <<chainChecks, first, after, chain, chainLog>>

\* A node that is in no list: its pointer is not read before it is written, so one of them
\* stands for all.
LooseKnot ==
    LET out == {x \in Knots : \A f \in Chains : x \notin ToSet(chain[f])}
    IN  IF out = {} THEN {} ELSE {CHOOSE x \in out : TRUE}

\* The nodes from first_node to nullptr.
Run(start, to) ==
    LET at[i \in 1..Cardinality(Knots) + 1] ==
            IF i = 1 THEN start ELSE IF at[i - 1] = NoKnot THEN NoKnot ELSE to[at[i - 1]]
        end == {i \in 1..Cardinality(Knots) + 1 : at[i] = NoKnot}
    IN  IF end = {} THEN <<NoKnot>> ELSE [i \in 1..Min(end) - 1 |-> at[i]]

\* The only thing that is said of a history that ended.
ChainStops(op, what) ==
    /\ chainLog' = {<<op, what>>}
    /\ first' = [f \in Chains |-> NoKnot] /\ after' = [x \in Knots |-> NoKnot]
    /\ chain' = [f \in Chains |-> <<>>]
    /\ UNCHANGED chainChecks

PushChain(f, x) ==
    /\ after' = [after EXCEPT ![x] = first[f]]
    /\ first' = [first EXCEPT ![f] = x]
    /\ chain' = [chain EXCEPT ![f] = <<x>> \o @]
    /\ UNCHANGED <<chainChecks, chainLog>>

PopChain(f) ==
    /\ chain[f] # <<>>
    /\ first' = [first EXCEPT ![f] = after[@]]
    /\ chain' = [chain EXCEPT ![f] = Tail(@)]
    /\ UNCHANGED <<chainChecks, after, chainLog>>

PastNext(x) == after[after[x]]

EraseAfter(f, i) ==
    LET x == chain[f][i]
    IN  /\ i <= Len(chain[f])
        /\ IF i = Len(chain[f]) THEN ChainStops("erase after", "null")
           ELSE /\ after' = [after EXCEPT ![x] = PastNext(x)]
                /\ chain' = [chain EXCEPT ![f] = RemoveAt(@, i + 1)]
                /\ UNCHANGED <<chainChecks, first, chainLog>>

\* The node that followed is passed over: the new one takes its next.
InsertAfter(f, i, x) ==
    LET at == chain[f][i]
        new == [after EXCEPT ![x] = PastNext(at), ![at] = x]
    IN  /\ i <= Len(chain[f])
        /\ ChainStops("insert after",
                 IF i = Len(chain[f]) THEN "null"
                 ELSE IF Run(first[f], new) = RemoveAt(InsertAt(chain[f], i + 1, x), i + 2) THEN "lost"
                 ELSE IF Run(first[f], new) = InsertAt(chain[f], i + 1, x) THEN "right"
                 ELSE "garbage")

\* The move assignment asserts that the list it replaces is not empty.
MoveChain(f, g, assigns) ==
    /\ f # g /\ (assigns \/ chain[f] = <<>>)
    /\ IF assigns /\ chainChecks /\ first[f] = NoKnot THEN ChainStops("assign", "panic")
       ELSE /\ first' = [first EXCEPT ![f] = first[g], ![g] = NoKnot]
            /\ chain' = [chain EXCEPT ![f] = chain[g], ![g] = <<>>]
            /\ UNCHANGED <<chainChecks, after, chainLog>>

\* clear hands every node to its argument.
ClearChain(f) ==
    /\ first' = [first EXCEPT ![f] = NoKnot]
    /\ chain' = [chain EXCEPT ![f] = <<>>]
    /\ UNCHANGED <<chainChecks, after, chainLog>>

FwdListsInit ==
    /\ chainChecks \in BOOLEAN
    /\ first = [f \in Chains |-> NoKnot] /\ after = [x \in Knots |-> NoKnot]
    /\ chain = [f \in Chains |-> <<>>]
    /\ chainLog = {}

FwdListsNext ==
    /\ chainLog = {}
    /\ \E f \in Chains :
          \/ PopChain(f) \/ ClearChain(f)
          \/ \E x \in LooseKnot : PushChain(f, x)
          \/ \E i \in 1..Cardinality(Knots) : \/ EraseAfter(f, i)
                                             \/ \E x \in LooseKnot : InsertAfter(f, i, x)
          \/ \E g \in Chains, assigns \in BOOLEAN : MoveChain(f, g, assigns)

FwdListsSpec == FwdListsInit /\ [][FwdListsNext]_fwdListsVars

-----------------------------------------------------------------------------
(* Properties.                                                             *)

FwdListsTypeOK ==
    /\ first \in [Chains -> Knots \cup {NoKnot}]
    /\ after \in [Knots -> Knots \cup {NoKnot}]

\* What goes wrong: insert_after loses the next node; both *_after go through nullptr at the
\* last node; the assertion of the move assignment stops the program.
KnownChainFault(e) ==
    e \in {<<"erase after", "null">>, <<"insert after", "null">>, <<"insert after", "lost">>,
           <<"assign", "panic">>}

\* Every list runs through its nodes in order, until one of the above happens.
ChainsAreLinked ==
    /\ \A e \in chainLog : KnownChainFault(e)
    /\ \A f \in Chains : Run(first[f], after) = chain[f]
=============================================================================
