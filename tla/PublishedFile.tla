----------------------------- MODULE PublishedFile ----------------------------
(***************************************************************************)
(* What a reader of an atomically written file may rely on: the file is    *)
(* absent or holds a complete version, and it changes only to a complete   *)
(* version.  A writer learns that its version was published only if it     *)
(* was.                                                                    *)
(***************************************************************************)
CONSTANTS
    Versions,   \* the versions written
    Nothing     \* the file does not exist

VARIABLES
    file,       \* the version in the file, or Nothing
    reported    \* the versions whose writers were told of success

vars == <<file, reported>>

Init == file = Nothing /\ reported = {}

\* A version appears as a whole; its writer may never hear of it.
Publish ==
    /\ file' \in Versions
    /\ reported' \in {reported, reported \cup {file'}}

Spec == Init /\ [][Publish]_vars
=============================================================================
