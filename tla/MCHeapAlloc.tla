---------------------------- MODULE MCHeapAlloc ----------------------------
(* Small instances of HeapAlloc for TLC.                                   *)
EXTENDS HeapAlloc, TLC

\* Threads and pages are interchangeable; buckets are not (grow moves up).
Symmetry == Permutations(Threads) \cup Permutations(Pages)

\* The properties of HeapAllocPass are about behaviours without a released page.
NoReleaseYet == Intact
=============================================================================
