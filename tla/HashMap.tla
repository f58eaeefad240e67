------------------------------ MODULE HashMap ------------------------------
(***************************************************************************)
(* glox::hash_map (glox/hash_map.hpp) over glox::intrusive_fwd_list: maps  *)
(* of one key and value type, with an iterator that walks one of them.     *)
(*                                                                         *)
(* A bucket is the sequence of its nodes, first_node first; its vector is  *)
(* a sequence of buckets (Vector says what becomes of the old one when it  *)
(* is replaced).  The model does not name nodes: a node is the only one of *)
(* its map with its key.  ok says whether memalloc finds memory.           *)
(***************************************************************************)
EXTENDS Integers, Sequences, SequencesExt, FiniteSets, FiniteSetsExt, Functions

CONSTANTS
    Maps,           \* the maps
    Keys, Vals,     \* keys and values
    ValDefault,     \* Value{ }
    Hashes,         \* hash functions
    FirstBuckets,   \* INITIAL_BUCKETS, 16 in the code: a power of two
    MaxNodes,       \* bound: entries of all maps
    NoKey           \* the key of no node

ASSUME HashMapAssumption ==
    /\ ValDefault \in Vals /\ NoKey \notin Keys
    /\ Hashes \subseteq [Keys -> Nat]
    /\ FirstBuckets \in Nat \ {0} /\ MaxNodes \in Nat

VARIABLES
    hashOf,    \* the hash function, and whether assertions are compiled in
    hm,        \* buckets and size_ of every map
    walk,      \* an iterator: its map, idx_ and the key of node_; the keys still to come
    dict,      \* history: the dictionary every map stands for
    broke      \* history: what stopped the last operation

hashMapVars == <<hashOf, hm, walk, dict, broke>>

Node == [key : Keys, val : Vals]
NewMap == [buckets |-> <<>>, size |-> 0]
NoWalk == [map |-> NoKey, idx |-> 0, key |-> NoKey, due |-> {}]

\* The bucket of k among count: the first is number 1.
IndexOf(k, count) == (hashOf.fn[k] % count) + 1

PushFront(bucket, n) == <<n>> \o bucket

Position(bucket, k) ==
    LET at == {i \in DOMAIN bucket : bucket[i].key = k} IN IF at = {} THEN 0 ELSE Min(at)

\* Nodes of one entry, or none.
FindNode(b, k) ==
    IF b = <<>> THEN <<>>
    ELSE LET bucket == b[IndexOf(k, Len(b))]
             i == Position(bucket, k)
         IN  IF i = 0 THEN <<>> ELSE <<bucket[i]>>

SumOfSizes == MapThenSumSet(LAMBDA x : hm[x].size, Maps)

-----------------------------------------------------------------------------
(* rehash.                                                                 *)

\* The nodes, bucket by bucket, each to the front of its new bucket.
Rehashed(b, count) ==
    LET nodes == FlattenSeq(b)
        moved[j \in 0..Len(nodes)] ==
            IF j = 0 THEN [i \in 1..count |-> <<>>]
            ELSE [moved[j - 1] EXCEPT ![IndexOf(nodes[j].key, count)] = PushFront(@, nodes[j])]
    IN  moved[Len(nodes)]

\* What stops rehash: the first bucket vector is left empty when there is no memory for it,
\* later growth writes through null; bucket{ } is assigned to each old bucket, which
\* intrusive_fwd_list asserts not to be empty.
RehashStop(b, ok) ==
    IF b # <<>> /\ ~ok THEN "null"
    ELSE IF hashOf.checks /\ \E i \in DOMAIN b : b[i] = <<>> THEN "panic"
    ELSE "no"

IsFull(m) == m.size + 1 > Len(m.buckets)

\* <<buckets, what stopped it>>.
GrowIfNeeded(m, ok) ==
    IF m.buckets = <<>>
    THEN <<IF ok THEN [i \in 1..FirstBuckets |-> <<>>] ELSE <<>>, "no">>
    ELSE IF IsFull(m)
         THEN <<Rehashed(m.buckets, 2 * Len(m.buckets)), RehashStop(m.buckets, ok)>>
         ELSE <<m.buckets, "no">>

-----------------------------------------------------------------------------

Keep(x) == UNCHANGED hashOf /\ walk' = IF walk.map = x THEN NoWalk ELSE walk

\* A new node for the key k of x, after the buckets were grown; nodeOk: memory for the node.
\* Of the maps after the program was stopped nothing more is said.
AddNode(x, k, v, ok, nodeOk) ==
    LET grown == GrowIfNeeded(hm[x], ok)
        b == grown[1]
        stop == IF grown[2] # "no" THEN grown[2]
                ELSE IF ~nodeOk THEN "null"
                ELSE IF b # <<>> THEN "no"
                ELSE IF hashOf.checks THEN "panic" ELSE "null"
        i == IndexOf(k, Len(b))
    IN  /\ SumOfSizes < MaxNodes
        /\ broke' = stop
        /\ IF stop = "no"
           THEN /\ hm' = [hm EXCEPT ![x] =
                             [buckets |-> [b EXCEPT ![i] = PushFront(@, [key |-> k, val |-> v])],
                              size    |-> @.size + 1]]
                /\ dict' = [dict EXCEPT ![x] = [key \in DOMAIN @ \cup {k} |->
                                                   IF key = k THEN v ELSE @[key]]]
           ELSE hm' = [y \in Maps |-> NewMap] /\ dict' = [y \in Maps |-> << >>]
        /\ IF stop = "no" THEN Keep(x) ELSE walk' = NoWalk /\ UNCHANGED hashOf

SetNode(x, k, v) ==
    LET i == IndexOf(k, Len(hm[x].buckets))
    IN  /\ hm' = [hm EXCEPT ![x].buckets[i] =
                     [j \in DOMAIN @ |-> IF @[j].key = k THEN [@[j] EXCEPT !.val = v] ELSE @[j]]]
        /\ dict' = [dict EXCEPT ![x][k] = v]
        /\ UNCHANGED <<hashOf, walk, broke>>

InsertOrAssign(x, k, v, ok, nodeOk) ==
    IF FindNode(hm[x].buckets, k) # <<>> THEN SetNode(x, k, v) ELSE AddNode(x, k, v, ok, nodeOk)

InsertNew(x, k, v, ok, nodeOk) ==
    /\ FindNode(hm[x].buckets, k) = <<>>
    /\ AddNode(x, k, v, ok, nodeOk)

\* operator[]; the caller's assignment to what it returns is SetNode.
Subscript(x, k, ok, nodeOk) ==
    IF FindNode(hm[x].buckets, k) # <<>> THEN UNCHANGED hashMapVars
    ELSE AddNode(x, k, ValDefault, ok, nodeOk)

\* Bug: erasing after a predecessor takes the rest of the chain along.
MutUnlink(bucket, i) == IF i = 1 THEN Tail(bucket) ELSE SubSeq(bucket, 1, i - 1)

Unlink(bucket, i) == RemoveAt(bucket, i)

Without(m, i, k) ==
    [buckets |-> [m.buckets EXCEPT ![i] = Unlink(@, Position(@, k))], size |-> m.size - 1]

Forgets(x, k) == dict' = [dict EXCEPT ![x] = Restrict(@, DOMAIN @ \ {k})]

EraseKey(x, k) ==
    /\ FindNode(hm[x].buckets, k) # <<>>
    /\ hm' = [hm EXCEPT ![x] = Without(@, IndexOf(k, Len(@.buckets)), k)]
    /\ Forgets(x, k)
    /\ Keep(x) /\ UNCHANGED broke

\* free_all: also clear and the destructor.
Emptied(m) == [buckets |-> [i \in DOMAIN m.buckets |-> <<>>], size |-> 0]

ClearMap(x) ==
    /\ hm' = [hm EXCEPT ![x] = Emptied(@)]
    /\ dict' = [dict EXCEPT ![x] = << >>]
    /\ Keep(x) /\ UNCHANGED broke

\* The move assignment; into a map without nodes, it does what the constructor does.
MoveMap(x, y) ==
    /\ x # y
    /\ hm' = [hm EXCEPT ![x] = hm[y], ![y] = NewMap]
    /\ dict' = [dict EXCEPT ![x] = dict[y], ![y] = << >>]
    /\ walk' = IF walk.map \in {x, y} THEN NoWalk ELSE walk
    /\ UNCHANGED <<hashOf, broke>>

-----------------------------------------------------------------------------
(* Iterators.                                                              *)

FirstKey(bucket) == IF bucket = <<>> THEN NoKey ELSE bucket[1].key

\* settle: <<idx_, node_>>; idx counts from 0 as in the code.
Settle(b, idx, key) ==
    LET later == {i \in idx + 2..Len(b) : b[i] # <<>>}
    IN  IF key # NoKey THEN <<idx, key>>
        ELSE IF later = {} THEN <<Len(b) - 1, NoKey>>
        ELSE <<Min(later) - 1, FirstKey(b[Min(later)])>>

\* operator++.
Following(b, idx, key) ==
    LET bucket == b[idx + 1]
        i == Position(bucket, key)
    IN  Settle(b, idx, IF i = Len(bucket) THEN NoKey ELSE bucket[i + 1].key)

At(x, place, due) == [map |-> x, idx |-> place[1], key |-> place[2], due |-> due \ {place[2]}]

Begin(x) ==
    /\ hm[x].buckets # <<>>
    /\ walk' = At(x, Settle(hm[x].buckets, 0, FirstKey(hm[x].buckets[1])), DOMAIN dict[x])
    /\ UNCHANGED <<hashOf, hm, dict, broke>>

\* The walk from a key that is looked up: nothing is said of what is to come.
FindIt(x, k) ==
    /\ FindNode(hm[x].buckets, k) # <<>>
    /\ walk' = At(x, <<IndexOf(k, Len(hm[x].buckets)) - 1, k>>, {})
    /\ UNCHANGED <<hashOf, hm, dict, broke>>

Advance ==
    /\ walk.map # NoKey /\ walk.key # NoKey
    /\ walk' = At(walk.map, Following(hm[walk.map].buckets, walk.idx, walk.key), walk.due)
    /\ UNCHANGED <<hashOf, hm, dict, broke>>

EraseIt ==
    LET x == walk.map
        b == hm[x].buckets
    IN  /\ x # NoKey /\ walk.key # NoKey
        /\ walk' = At(x, Following(b, walk.idx, walk.key), walk.due)
        /\ hm' = IF Position(b[walk.idx + 1], walk.key) = 0 THEN hm
                 ELSE [hm EXCEPT ![x] = Without(@, walk.idx + 1, walk.key)]
        /\ Forgets(x, walk.key)
        /\ UNCHANGED <<hashOf, broke>>

\* What memalloc may answer when it is asked for buckets, and for a node.
NodeMemory(x, k) == IF FindNode(hm[x].buckets, k) # <<>> THEN {TRUE} ELSE BOOLEAN
BucketMemory(x, k) == IF IsFull(hm[x]) THEN NodeMemory(x, k) ELSE {TRUE}

HashMapInit ==
    /\ hashOf \in [fn : Hashes, checks : BOOLEAN]
    /\ hm = [x \in Maps |-> NewMap]
    /\ dict = [x \in Maps |-> << >>]
    /\ walk = NoWalk
    /\ broke = "no"

HashMapNext ==
    /\ broke = "no"
    /\ \/ \E x \in Maps :
             \/ ClearMap(x)
             \/ Begin(x)
             \/ \E y \in Maps : MoveMap(x, y)
             \/ \E k \in Keys :
                   \/ EraseKey(x, k)
                   \/ FindIt(x, k)
                   \/ \E ok \in BucketMemory(x, k), nodeOk \in NodeMemory(x, k) :
                         \/ Subscript(x, k, ok, nodeOk)
                         \/ \E v \in Vals : \/ InsertOrAssign(x, k, v, ok, nodeOk)
                                          \/ InsertNew(x, k, v, ok, nodeOk)
       \/ Advance
       \/ EraseIt

HashMapSpec == HashMapInit /\ [][HashMapNext]_hashMapVars

-----------------------------------------------------------------------------
(* Properties.                                                             *)

HashMapTypeOK ==
    /\ hashOf \in [fn : Hashes, checks : BOOLEAN]
    /\ \A x \in Maps : /\ hm[x].buckets \in Seq(Seq(Node))
                       /\ DOMAIN dict[x] \subseteq Keys
    /\ broke \in {"no", "null", "panic"}

\* Every map is the dictionary its operations mean: each entry is found where its hash says,
\* once, and nothing else is; size_ counts them; and the iterator is on an entry of its map,
\* and, when it reaches the end, was at each of them.
MapIsDictionary ==
    /\ \A x \in Maps :
          LET b == hm[x].buckets
          IN  /\ hm[x].size = Cardinality(DOMAIN dict[x])
              /\ \A k \in Keys : FindNode(b, k) =
                    IF k \in DOMAIN dict[x] THEN <<[key |-> k, val |-> dict[x][k]]>> ELSE <<>>
              /\ Len(FlattenSeq(b)) = hm[x].size
    /\ walk.key # NoKey => walk.key \in DOMAIN dict[walk.map]
    /\ walk.key = NoKey => walk.due = {}
=============================================================================
