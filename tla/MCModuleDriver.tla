---------------------------- MODULE MCModuleDriver ----------------------------
EXTENDS ModuleDriver

\* Without the properties that only copy a string or a version.
ShortHandshake == SelectSeq(FullHandshake, LAMBDA p : p \in Decisive)

\* Of the keys of the cluster one is pressed now and then, of the trackball none.
ModuleKeys == [m \in Modules |-> IF m = "cluster" THEN 1 ELSE 0]
=============================================================================
