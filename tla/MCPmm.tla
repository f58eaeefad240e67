------------------------------- MODULE MCPmm -------------------------------
(* Small instances of Pmm for TLC.                                         *)
EXTENDS Pmm, TLC

\* Two regions that touch, a hole, and a last region.
ThreeRegions == <<<<1, 3>>, <<4, 2>>, <<7, 3>>>>
OneRegion == <<<<1, 4>>>>

\* The properties of PmmPass are about behaviours before the list breaks.
StillSound == Sound
=============================================================================
