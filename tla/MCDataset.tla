------------------------------ MODULE MCDataset ------------------------------
(* Two campaigns of a held-out attack, one of whose runs failed, with a control and  *)
(* an attack of a family that is not known; the second campaign ends while the       *)
(* dataset is packaged.                                                              *)
EXTENDS Dataset

CONSTANTS control, backdoor, egressed

Run(id, family, repetition, label, failed, detected, events) ==
  [id |-> id, family |-> family, repetition |-> repetition, label |-> label,
   failed |-> failed, detected |-> detected, events |-> events]

TwoHistories ==
  {<<Run("r1", backdoor, 1, 1, TRUE, FALSE, <<>>), Run("r2", backdoor, 2, 1, FALSE, TRUE, <<"e1", "e1">>),
     Run("r3", control, 1, 0, FALSE, FALSE, <<"e2">>), Run("r4", backdoor, 3, 1, FALSE, FALSE, <<"e3">>)>>,
   <<Run("r1", backdoor, 1, 1, FALSE, TRUE, <<"e1">>), Run("r2", backdoor, 2, 1, TRUE, FALSE, <<>>),
     Run("r3", egressed, 1, 1, FALSE, TRUE, <<"e2">>), Run("r4", backdoor, 1, 1, FALSE, TRUE, <<"e3">>),
     Run("r5", backdoor, 2, 1, FALSE, FALSE, <<"e4">>)>>}
=============================================================================
