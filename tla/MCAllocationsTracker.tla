------------------------ MODULE MCAllocationsTracker ------------------------
(* Two backends that are adjacent in memory and a third one apart from them. *)
EXTENDS AllocationsTracker

MCBackends == {<<2, 6>>, <<8, 4>>, <<14, 4>>}
MCSizes == {1, 2, 3, 6}
=============================================================================
