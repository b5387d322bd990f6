------------------------- MODULE MCSufficiencyCheck -------------------------
(* Tasks of up to three requirements, one of them open to being optional.  *)
EXTENDS SufficiencyCheck

CONSTANTS o1, o2, o3

ThreeOutputs == {o1, o2, o3}
SomeTasks ==
  [ required : {{}, {o1}, {o1, o2}, ThreeOutputs},
    subjects : {{}, {"commit"}, {"commit", "repository"}, {"lineage"}, Subjects} ]
=============================================================================
