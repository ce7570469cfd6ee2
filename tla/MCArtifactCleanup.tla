-------------------------- MODULE MCArtifactCleanup --------------------------
(***************************************************************************)
(* A root with a finished run, a run in progress, and the pointer to the   *)
(* latest run.  The finished run holds a cache that other rules would      *)
(* preserve a file of.                                                     *)
(***************************************************************************)
EXTENDS ArtifactCleanup

MCDirs    == {"old", "cache", "new"}
MCEntries == MCDirs \cup {"report", "notes", "kept", "manifest", "draft", "latest"}
MCAbove   == [e \in MCEntries |->
    CASE e \in {"report", "notes", "cache"} -> {"old"}
      [] e = "kept"                         -> {"old", "cache"}
      [] e \in {"manifest", "draft"}        -> {"new"}
      [] OTHER                              -> {}]

MCArtifacts == {"report", "kept", "manifest"}
MCReports   == {"report"}
MCRecords   == {"kept"}
MCTemporary == {"cache", "draft"}
MCEvidence  == {"notes"}
MCPreserved == {"kept", "latest"}
MCTransient == {"cache", "draft"}
MCKeep      == [s \in {"success", "failed"} |-> 1]

Tree(report) == [e \in MCEntries |->
    IF e \in MCDirs THEN "dir" ELSE IF e = "report" THEN report ELSE "v1"]
MCTrees   == {Tree(report) : report \in {"success", "failed"}}
MCIndexes == {[shape |-> "nothing", runs |-> <<>>, named |-> {}],
              [shape |-> "list", runs |-> <<[run |-> "old", status |-> "success"]>>, named |-> {}],
              [shape |-> "mapping", runs |-> <<>>, named |-> {"latest"}]}
===============================================================================
