----------------------------- MODULE MCCatalog -----------------------------
(* Small instances of Catalog for TLC.  Candidate subnets may be asked for  *)
(* by a client as parts of a larger one; v2 is the name of an image's       *)
(* volume.                                                                  *)
EXTENDS Catalog, TLC

CONSTANTS t1, t2, n1, n2, c1, c2, v1, v2

OneThread == {t1}
TwoThreads == {t1, t2}
OneNet == {n1}
TwoNets == {n1, n2}
OneCont == {c1}
TwoConts == {c1, c2}
NoVols == {}
OneVol == {v1}
TwoVols == {v1, v2}
SecondVol == {v2}

OneCandidate == <<{1}>>
TwoCandidates == <<{1}, {2}>>
Larger == {{1, 2}}
NoSubnets == {}

NoMounts == {<<>>}
OneMount == {<<[key |-> v1, source |-> v1]>>}
PerhapsMounts == NoMounts \cup OneMount

NoTermination == CatalogFaults \ {"term"}
Termination == {"term"}
CloneFails == {"clone"}

(* Networks are alike and so are containers.                                *)
MCSymmetry == Permutations(TwoNets) \cup Permutations(TwoConts)
=============================================================================
