------------------------------ MODULE MCArtifacts ------------------------------
(* Two stages side by side, one with an input that changes and one with a   *)
(* model behind it, and a third that depends on both.                       *)
EXTENDS Artifacts, TLC

CONSTANTS code, test, release, p, q, t, report, good, better, bad

To(path, content) == [path |-> path, content |-> content]

MCDeps == code :> <<>> @@ test :> <<>> @@ release :> <<code, test>>
MCAgentOf == code :> "author" @@ test :> "free" @@ release :> "release"
MCKindOf == code :> "code" @@ test :> "test" @@ release :> "release_report"
(* p is forbidden at first, then improved, then gone. *)
MCInputs == code :> {<<To(p, bad), To(q, good)>>, <<To(p, good)>>, <<To(q, better)>>}
            @@ test :> {<<>>} @@ release :> {<<>>}
(* No file at all, one, and the same one twice. *)
MCReplies == test :> {<<>>, <<To(t, bad)>>, <<To(t, good)>>, <<To(t, good), To(t, better)>>}
             @@ code :> {} @@ release :> {}
MCReport == To(report, good)
=============================================================================
