----------------------------- MODULE MCUiTransport -----------------------------
(* One worker and one issue that may be revised, so two jobs; or two issues   *)
(* of the same scope, and a list in which the first is passed over.           *)
EXTENDS UiTransport

OneIssue   == {1}
TwoIssues  == {1, 2}
OneWorker  == <<"NV04">>
AllNV04    == [i \in Issues |-> "NV04"]
OneScope   == [i \in Issues |-> "UI"]
FirstKept  == {<<1, 1>>}
TwoOfEach  == [k \in EventKinds |-> 2]
NetOnly    == [k \in EventKinds |-> IF k = "net" THEN 2 ELSE 0]
=============================================================================
