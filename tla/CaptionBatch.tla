----------------------------- MODULE CaptionBatch -----------------------------
(***************************************************************************)
(* A run of Track 2 (src/amd_track2/entrypoint.py): for each task the video*)
(* is fetched, probed and cut into frames, one call of the vision model    *)
(* gives a context, a second one the captions, and these are checked;      *)
(* whatever goes wrong on the way leaves canned captions.  At the end the  *)
(* results are validated, repaired if need be, and published.              *)
(***************************************************************************)
EXTENDS CaptionRules

CONSTANTS
    Names,         \* of ids, as they are printed
    Inputs,        \* lists of tasks to start from
    Contexts,      \* what a context may say
    WeakContext,   \* the context of a call that failed
    FetchAttempts, \* max_attempts of VideoFetcher.retry
    MaxRetries     \* max_retries of VisionClient

TaskShapes == [id : [type : {"string", "number", "none"}, name : Names],
               styles : SUBSET Styles, url : BOOLEAN, shape : {"object", "other"}]

NoContext == [none |-> TRUE]

ASSUME InputsAssumption == \A input \in Inputs : input \in Seq(TaskShapes)
ASSUME ContextsAssumption ==
    /\ WeakContext \in Contexts /\ NoContext \notin Contexts
    /\ \A context \in Contexts : IsContext(context)
ASSUME AttemptsAssumption == FetchAttempts \in Nat \ {0} /\ MaxRetries \in Nat \ {0}

VARIABLES
    pc,
    tasks,     \* the input
    at,        \* the task under way
    ffprobe,   \* ffprobe was found
    attempt,   \* of the download or the call under way
    video,     \* the temporary file of the download under way
    videos,    \* temporary files left behind
    captions,  \* captions of the task under way
    seen,      \* history: the context of each task that had one
    results,   \* of the tasks done
    out,       \* the temporary file of the results
    file,      \* the published results
    exit       \* of the process

vars == <<pc, tasks, at, ffprobe, attempt, video, videos, captions, seen, results, out, file, exit>>

Nothing   == {}     \* of the results, or {results}

Init ==
    /\ tasks \in Inputs
    /\ pc = "start" /\ at = 1 /\ ffprobe = FALSE /\ attempt = 0
    /\ video = "none" /\ videos = {} /\ captions = <<>>
    /\ seen = [i \in DOMAIN tasks |-> NoContext]
    /\ results = <<>> /\ out = Nothing /\ file = Nothing /\ exit = "none"

Task == tasks[at]

Exits(code) == pc' = "done" /\ exit' = code

\* main: the environment and the input may be missing or unreadable.
Start ==
    /\ pc = "start"
    /\ ffprobe' \in BOOLEAN
    /\ \/ pc' = "task" /\ UNCHANGED exit
       \/ Exits("refused")
    /\ UNCHANGED <<tasks, at, attempt, video, videos, captions, seen, results, out, file>>

\* The head of the loop is not in the try: an entry that is no object, or has
\* null for its styles, ends the process.
BeginTask ==
    /\ pc = "task" /\ at <= Len(tasks)
    /\ IF Task.shape = "other"
       THEN Exits("raised") /\ UNCHANGED <<captions, attempt>>
       ELSE /\ captions' = AllCanned(Asks(Task)) /\ attempt' = 1
            /\ pc' = IF Task.url THEN "fetch" ELSE "append"
            /\ UNCHANGED exit
    /\ UNCHANGED <<tasks, at, ffprobe, video, videos, seen, results, out, file>>

\* except Exception: the task keeps the captions it has.
Degrade == pc' = "append"
-------------------------------------------------------------------------------
(* VideoFetcher.fetch *)

OpenVideo ==
    /\ pc = "fetch" /\ video = "none"
    /\ \/ video' = "partial" /\ UNCHANGED <<pc, attempt>>
       \/ UNCHANGED video /\ IF attempt < FetchAttempts THEN attempt' = attempt + 1 /\ UNCHANGED pc
                             ELSE Degrade /\ UNCHANGED attempt
    /\ UNCHANGED <<tasks, at, ffprobe, videos, captions, seen, results, out, file, exit>>

\* A download is never removed; one of no bytes is an error.
Downloaded ==
    /\ pc = "fetch" /\ video = "partial"
    /\ video' = "none" /\ videos' = videos \cup {[task |-> at, whole |-> TRUE]}
    /\ pc' \in {"frames", "append"}
    /\ UNCHANGED <<tasks, at, ffprobe, attempt, captions, seen, results, out, file, exit>>

\* unlink, whose errors are swallowed: what there is of the file may stay.
Discard ==
    \/ UNCHANGED videos
    \/ videos' = videos \cup {[task |-> at, whole |-> FALSE]}

\* (mutant: attempts are not counted)
SameAttempt == UNCHANGED attempt

NextAttempt == attempt' = attempt + 1

\* The network fails, or there are too many bytes: a ValueError, which is not
\* retried.  From the second attempt on the deadline may have passed.
DownloadFails ==
    /\ pc = "fetch" /\ video = "partial"
    /\ video' = "none" /\ Discard
    /\ \/ attempt < FetchAttempts /\ NextAttempt /\ UNCHANGED pc
       \/ Degrade /\ UNCHANGED attempt
    /\ UNCHANGED <<tasks, at, ffprobe, captions, seen, results, out, file, exit>>
-------------------------------------------------------------------------------
(* VideoProbe.probe, FrameExtractor.extract, EvidencePacketBuilder.build *)

\* Without ffprobe, a video stream or a frame, or with a frame that takes more
\* than 30 seconds, the task degrades.
ExtractFrames ==
    /\ pc = "frames"
    /\ \/ ffprobe /\ pc' = "context" /\ attempt' = 1
       \/ Degrade /\ UNCHANGED attempt
    /\ UNCHANGED <<tasks, at, ffprobe, video, videos, captions, seen, results, out, file, exit>>

(* VisionClient.complete: a server error, 429 or a failed request is retried at
   once, max_retries times in all; any other failure is final. *)

RetryVision ==
    /\ pc \in {"context", "write"} /\ attempt < MaxRetries
    /\ NextAttempt
    /\ UNCHANGED <<pc, tasks, at, ffprobe, video, videos, captions, seen, results, out, file, exit>>

\* ContextExtractor.extract: a call that fails gives the weak context; a reply
\* that is JSON but no object raises, as does a frame that cannot be read.
ExtractContext ==
    /\ pc = "context"
    /\ \/ /\ \E context \in Contexts : seen' = [seen EXCEPT ![at] = context]
          /\ pc' = "write" /\ attempt' = 1
       \/ Degrade /\ UNCHANGED <<seen, attempt>>
    /\ UNCHANGED <<tasks, at, ffprobe, video, videos, captions, results, out, file, exit>>

\* CaptionWriter.write: the same, with the same plain caption for every style.
WriteCaptions ==
    /\ pc = "write"
    /\ \/ /\ \/ captions' = AllPlain(Asks(Task))
             \/ \E given \in SUBSET Asks(Task) : \E reply \in [given -> Values] :
                    captions' = Written(reply, Asks(Task))
          /\ pc' = "check"
       \/ Degrade /\ UNCHANGED captions
    /\ UNCHANGED <<tasks, at, ffprobe, attempt, video, videos, seen, results, out, file, exit>>

\* self_gap_check, which comes after the assignment.
CheckCaptions ==
    /\ pc = "check"
    /\ captions' = IF CheckRaises(captions) \/ Passes(captions, seen[at], Asks(Task))
                   THEN captions ELSE AllCanned(Asks(Task))
    /\ pc' = "append"
    /\ UNCHANGED <<tasks, at, ffprobe, attempt, video, videos, seen, results, out, file, exit>>

AppendResult ==
    /\ pc = "append"
    /\ results' = Append(results, [id |-> Printed(Task.id), captions |-> captions])
    /\ at' = at + 1 /\ pc' = "task"
    /\ UNCHANGED <<tasks, ffprobe, attempt, video, videos, captions, seen, out, file, exit>>
-------------------------------------------------------------------------------
(* OutputValidator.validate_and_write *)

\* Mutant: the repaired results are not validated again.
AcceptRepaired(repaired) == TRUE

Acceptable(repaired) == Valid(repaired, tasks)

\* Validation; then the directory and the temporary file, whose errors nobody
\* catches.
Validate ==
    /\ pc = "task" /\ at > Len(tasks)
    /\ \/ /\ Acceptable(ToWrite(results, tasks))
          /\ results' = ToWrite(results, tasks) /\ pc' = "publish"
          /\ UNCHANGED exit
       \/ Exits("raised") /\ UNCHANGED results
    /\ UNCHANGED <<tasks, at, ffprobe, attempt, video, videos, captions, seen, out, file>>

WriteOut ==
    /\ pc = "publish" /\ out = Nothing
    /\ out' = {results}
    /\ UNCHANGED <<pc, tasks, at, ffprobe, attempt, video, videos, captions, seen, results, file, exit>>

\* The temporary file replaces the results, which are read again.
Replace ==
    /\ pc = "publish" /\ out # Nothing
    /\ file' = out /\ out' = Nothing
    /\ \E code \in {"zero", "raised"} : Exits(code)
    /\ UNCHANGED <<tasks, at, ffprobe, attempt, video, videos, captions, seen, results>>

\* The write or the replacement fails: False, which main does not look at.
WriteFails ==
    /\ pc = "publish"
    /\ out' = Nothing /\ Exits("zero")
    /\ UNCHANGED <<tasks, at, ffprobe, attempt, video, videos, captions, seen, results, file>>

\* The container is killed; files stay as they are.
Kill ==
    /\ pc \notin {"done", "start"}
    /\ Exits("killed")
    /\ UNCHANGED <<tasks, at, ffprobe, attempt, video, videos, captions, seen, results, out, file>>

Fetch   == OpenVideo \/ Downloaded \/ DownloadFails
Caption == ExtractFrames \/ RetryVision \/ ExtractContext \/ WriteCaptions \/ CheckCaptions
Publish == Validate \/ WriteOut \/ Replace \/ WriteFails
Step    == Start \/ BeginTask \/ Fetch \/ Caption \/ AppendResult \/ Publish
Next    == Step \/ Kill

Spec     == Init /\ [][Next]_vars
FairSpec == Spec /\ WF_vars(Step)
-------------------------------------------------------------------------------
TypeOK ==
    /\ pc \in {"start", "task", "fetch", "frames", "context", "write", "check", "append",
               "publish", "done"}
    /\ tasks \in Inputs
    /\ at \in 1 .. Len(tasks) + 1 /\ (pc \notin {"start", "task", "publish", "done"} => at <= Len(tasks))
    /\ ffprobe \in BOOLEAN /\ attempt \in Nat /\ video \in {"none", "partial"}
    /\ videos \subseteq [task : DOMAIN tasks, whole : BOOLEAN]
    /\ seen \in [DOMAIN tasks -> Contexts \cup {NoContext}]
    /\ exit \in {"none", "refused", "raised", "zero", "killed"}

\* Whatever happens, the results file has one entry for each task, in order, with
\* its id and a caption for every style it asked for, or there is no file.
OutputContract ==
    \A published \in file :
        /\ DOMAIN published = DOMAIN tasks
        /\ \A i \in DOMAIN tasks :
            /\ \A j \in DOMAIN tasks : j # i => tasks[j].id # tasks[i].id
            /\ published[i].id = tasks[i].id /\ Usable(published[i].id)
            /\ Complete(published[i].captions, Requires(tasks[i]))

\* Captions that passed the checks against the context of task j, with plain ones
\* for the styles that task was not asked for.
CheckedFor(given, j) ==
    /\ seen[j] # NoContext /\ Asks(tasks[j]) \subseteq DOMAIN given
    /\ Passes([s \in Asks(tasks[j]) |-> given[s]], seen[j], Asks(tasks[j]))
    /\ \A s \in DOMAIN given \ Asks(tasks[j]) : given[s] = Plain

\* Every published caption is a fallback, or has passed the checks together with
\* the others of one task, against the context of that task's video: the task it
\* is published for, or one whose id is printed like its id.
CheckedOrFallback ==
    \A published \in file : \A i \in DOMAIN published :
        LET given == published[i].captions IN
        \/ \A s \in DOMAIN given : given[s] \in Fallbacks
        \/ \E j \in DOMAIN tasks :
            Printed(tasks[j].id) = Printed(tasks[i].id) /\ CheckedFor(given, j)

\* "Fill missing results with safe fallback captions." (_repair): what is to be
\* published for a task is what the task was given, or the plain caption.
RepairKeepsOwn ==
    [][pc = "task" /\ pc' = "publish" =>
        \A i \in DOMAIN tasks : \A s \in DOMAIN results'[i].captions :
            \/ results'[i].captions[s] = Plain
            \/ /\ s \in DOMAIN results[i].captions
               /\ results'[i].captions[s] = results[i].captions[s]]_vars

\* A batch ends: no call and no download is repeated for ever.
BatchEnds == <>(pc = "done")
===============================================================================
