------------------------------ MODULE MCPipeline ------------------------------
(* Packages, and a small target, for checking Pipeline. *)
EXTENDS Pipeline, PipelineLaws

CONSTANTS main, lib, deep

ThreeFiles == {main, lib, deep}

Complete ==
    [fields |-> PlanFields, evidence |-> "refs", mismatch |-> FALSE,
     required |-> {main, lib}, corrections |-> [f \in {} |-> "keep"],
     patches |-> <<>>, entry |-> NoFile, max_files |-> 1]

(***************************************************************************)
(* Packages that take every branch of gap evaluation: none given, one that *)
(* can be completed with a default, one without a boundary, without        *)
(* evidence, with evidence that a later phase rejects, with foreign        *)
(* statement ids; and of the simulation: nothing to correct and default    *)
(* files, an entrypoint that is not required, a correction of a file it    *)
(* does not require, two corrections beyond the limit or partly applicable,*)
(* and patches.                                                            *)
(***************************************************************************)
GapPackages ==
    {NoPackage,
     [Complete EXCEPT !.fields = @ \ {"version"}],
     [Complete EXCEPT !.fields = @ \ {"boundary_root"}],
     [Complete EXCEPT !.evidence = "none"],
     [Complete EXCEPT !.evidence = "empty"],
     [Complete EXCEPT !.evidence = "blank"],
     [Complete EXCEPT !.mismatch = TRUE]}

OneFile == [Complete EXCEPT !.required = {main}]

SimulationPackages ==
    {[Complete EXCEPT !.required = {}],
     [Complete EXCEPT !.entry = deep],
     [OneFile EXCEPT !.corrections = [f \in {lib} |-> "replace"]],
     [Complete EXCEPT !.corrections = [f \in {main, lib} |-> "keep"]],
     [OneFile EXCEPT !.corrections = [f \in {main, deep} |-> "content"], !.max_files = 2],
     [OneFile EXCEPT !.patches = <<[file |-> deep, type |-> "replace"]>>],
     [OneFile EXCEPT !.patches = <<[file |-> main, type |-> "delete"]>>]}

SomePackages == GapPackages \cup SimulationPackages
=============================================================================
