---------------------------- MODULE MCKernelHeap ----------------------------
(* Small instances of KernelHeap for TLC.                                  *)
EXTENDS KernelHeap

\* Pages of six words: two chunks per Metadata page, three and two blocks per chunk.
Smaller == <<2, 3>>

\* The properties of KernelHeapPass are about behaviours in which no page went back;
\* MaxLost bounds the deallocations that found no chunk, MaxBig the runs out at a time.
MaxLost == 1
MaxBig == 1
NothingGivenBack == ~gaveBack /\ Cardinality(lost) <= MaxLost /\ Cardinality(big) <= MaxBig
=============================================================================
