---------------------------- MODULE MCDriftDetection ----------------------------
(* An instance of DriftDetection for TLC: three trainings on two tokens, one of *)
(* them too short, and all windows of one or two tokens, a third one novel.   *)
EXTENDS DriftDetection

CONSTANTS a, b, new, unk, rest

Window(tokens) == [tokens |-> tokens, lost |-> FALSE]
ThreeTrainings == {<<<<a, b, a>>, <<a, b>>>>, <<<<a, a, b, b>>>>, <<<<a>>>>}
Doubled == <<2, 1>>
AllWindows == [tokens : UNION {[1 .. n -> {a, b, new}] : n \in 1 .. 2}, lost : BOOLEAN]
FiveCalibrations ==
  {<<>>, <<Window(<<a, b>>), Window(<<b>>)>>, <<Window(<<a, b>>), Window(<<b, b>>)>>,
   <<Window(<<a, a>>), Window(<<b>>), [Window(<<b, b>>) EXCEPT !.lost = TRUE], Window(<<a, b>>)>>,
   <<Window(<<a, b>>), Window(<<a, new>>), Window(<<a, b>>)>>}
=============================================================================
