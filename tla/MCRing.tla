------------------------------- MODULE MCRing -------------------------------
(* The ring on small instances: a few guest CPUs and the daemon's.          *)
EXTENDS McdRing

CONSTANTS v1, v2, v3, v4, dmn

MCTwoCpus == {v1, v2}
MCFourCpus == {v1, v2, v3, v4}

\* A type that continues and the one that is not answered.
MCWithPages == {"PUT", "ADD_SHARED_PAGE"}
MCOnlyDel == {"DEL"}
=============================================================================
