--------------------------- MODULE MCImageCatalog ---------------------------
(* One image on one host, wanted by several jobs.                          *)
EXTENDS ImageCatalog

CONSTANTS img, j1, j2, j3

MCJobs == {j1, j2, j3}
MCWants == [j \in MCJobs |-> img]
MCFaults == [f \in Fault |-> 1]
=============================================================================
