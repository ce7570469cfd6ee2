------------------------- MODULE CaptionBatch_proofs -------------------------
(***************************************************************************)
(* The results of Track 2 are complete, in order and checked, for every    *)
(* list of tasks, every reply of the vision model and every failure.       *)
(***************************************************************************)
EXTENDS CaptionBatch, TLAPS, WellFoundedInduction

CaptionSets == UNION {[S -> Captions] : S \in SUBSET Styles}
Ids         == [type : {"string", "number", "none"}, name : Names]

\* The captions of a task: fallbacks, or checked against its own context.
Judged(given, i) ==
    \/ \A s \in DOMAIN given : given[s] \in Fallbacks
    \/ seen[i] # NoContext /\ Passes(given, seen[i], Asks(tasks[i]))

\* The same for captions to be published, which _repair may have taken from a
\* task with an id that is printed alike.
Attributed(given, i) ==
    \/ \A s \in DOMAIN given : given[s] \in Fallbacks
    \/ \E j \in DOMAIN tasks :
        Printed(tasks[j].id) = Printed(tasks[i].id) /\ CheckedFor(given, j)

\* The result of one task.
Sound(result, i) ==
    /\ result.id = Printed(tasks[i].id)
    /\ result.captions \in [Asks(tasks[i]) -> Captions]
    /\ Judged(result.captions, i)

ResultsInv ==
    pc \notin {"publish", "done"} =>
        /\ results \in Seq([id : Ids, captions : CaptionSets])
        /\ Len(results) = at - 1
        /\ \A i \in 1 .. at - 1 : Sound(results[i], i)
        /\ out = {} /\ file = {} /\ exit = "none"

TaskInv ==
    /\ pc = "start" => at = 1
    /\ pc \in {"fetch", "frames", "context", "write"} => captions = AllCanned(Asks(tasks[at]))
    /\ pc = "write" => seen[at] # NoContext
    /\ pc = "check" => /\ captions \in [Asks(tasks[at]) -> Captions]
                       /\ seen[at] # NoContext
    /\ pc = "append" => /\ captions \in [Asks(tasks[at]) -> Captions]
                        /\ Judged(captions, at)

\* What the contract and the checks say of a list of results.
Deliverable(published) ==
    /\ DOMAIN published = DOMAIN tasks
    /\ \A i \in DOMAIN tasks :
        /\ \A j \in DOMAIN tasks : j # i => tasks[j].id # tasks[i].id
        /\ published[i].id = tasks[i].id /\ Usable(published[i].id)
        /\ Complete(published[i].captions, Requires(tasks[i]))
        /\ Attributed(published[i].captions, i)

PublishInv ==
    /\ pc = "publish" => Deliverable(results) /\ exit = "none"
    /\ \A published \in out \cup file : Deliverable(published)

IInv == TypeOK /\ ResultsInv /\ TaskInv /\ PublishInv
-------------------------------------------------------------------------------
(* The rules *)

LEMMA CaptionIsNoHole ==
    ASSUME NEW c \in Captions
    PROVE  c \notin {Blank, Object}
  BY DEF Captions, Canned, Safe, Plain, Model, From, Blank, Object

LEMMA WrittenType ==
    ASSUME NEW S \in SUBSET Styles, NEW G \in SUBSET S, NEW reply \in [G -> Values]
    PROVE  Written(reply, S) \in [S -> Captions]
  <1> SUFFICES ASSUME NEW s \in S
               PROVE  (IF s \in DOMAIN reply /\ reply[s] \notin {Blank, Object}
                       THEN reply[s] ELSE Safe(s)) \in Captions
    BY DEF Written
  <1>1. CASE s \in DOMAIN reply /\ reply[s] \notin {Blank, Object}
    BY <1>1 DEF Values, Captions
  <1>2. CASE ~(s \in DOMAIN reply /\ reply[s] \notin {Blank, Object})
    BY <1>2 DEF Captions
  <1> QED BY <1>1, <1>2

LEMMA FallbackType ==
    ASSUME NEW S \in SUBSET Styles
    PROVE  /\ AllPlain(S) \in [S -> Captions] /\ AllCanned(S) \in [S -> Captions]
           /\ \A s \in S : AllPlain(S)[s] \in Fallbacks /\ AllCanned(S)[s] \in Fallbacks
  BY DEF AllPlain, AllCanned, Captions, Fallbacks

LEMMA AsksType ==
    ASSUME NEW task \in TaskShapes
    PROVE  /\ Asks(task) \in SUBSET Styles /\ Requires(task) \subseteq Asks(task)
           /\ Printed(task.id) \in Ids /\ task.id \in Ids
  BY DEF Asks, Requires, TaskShapes, Printed, Ids

\* A context is complete, whatever the model left out (_validate_and_normalize,
\* against the rules of CONTEXT_USER_PROMPT_TEMPLATE).
THEOREM ContextIsWellFormed ==
    ASSUME NEW raw, IsRaw(raw)
    PROVE  WellFormed(Normalised(raw))
  BY DEF IsRaw, WellFormed, Normalised, Clamped, OrOne

\* Frames are taken at some moments, none of them after the end of a video whose
\* length is known (_compute_timestamps).
THEOREM FramesInVideo ==
    ASSUME NEW duration \in Nat
    PROVE  /\ Timestamps(duration) # {}
           /\ duration > 0 => \A t \in Timestamps(duration) : t \in 0 .. duration
  <1>1. CASE duration = 0
    BY <1>1 DEF Timestamps
  <1>2. CASE duration > 0
    <2>1. \A p \in {20, 40, 60, 80, 95} : (duration * p) \div 100 \in 0 .. duration
      OBVIOUS
    <2> QED BY <1>2, <2>1 DEF Timestamps
  <1> QED BY <1>1, <1>2
-------------------------------------------------------------------------------
(***************************************************************************)
(* What validation lets through.  A result has a printed id, so the task   *)
(* it matches has a string for its id; and printed ids are not repeated,   *)
(* so that task is the one the result was made for.                        *)
(***************************************************************************)
LEMMA Tasks == ASSUME TypeOK
               PROVE  /\ DOMAIN tasks = 1 .. Len(tasks) /\ Len(tasks) \in Nat
                      /\ \A i \in DOMAIN tasks : tasks[i] \in TaskShapes
  <1>1. tasks \in Seq(TaskShapes)
    BY InputsAssumption DEF TypeOK
  <1> QED BY <1>1

\* What was checked for a task may be published for it.
LEMMA OwnIsAttributed ==
    ASSUME TypeOK, NEW i \in DOMAIN tasks, NEW given \in [Asks(tasks[i]) -> Captions], Judged(given, i)
    PROVE  Attributed(given, i)
  <1>1. CASE \A s \in DOMAIN given : given[s] \in Fallbacks
    BY <1>1 DEF Attributed
  <1>2. CASE seen[i] # NoContext /\ Passes(given, seen[i], Asks(tasks[i]))
    <2>1. DOMAIN given = Asks(tasks[i]) /\ [s \in Asks(tasks[i]) |-> given[s]] = given
      OBVIOUS
    <2>2. CheckedFor(given, i)
      BY <1>2, <2>1 DEF CheckedFor
    <2> QED BY <2>2 DEF Attributed
  <1> QED BY <1>1, <1>2 DEF Judged

LEMMA ValidIsDeliverable ==
    ASSUME TypeOK, NEW rs \in Seq([id : Ids, captions : CaptionSets]),
           \A i \in DOMAIN rs : Sound(rs[i], i), Valid(rs, tasks)
    PROVE  Deliverable(rs)
  <1>1. Len(rs) = Len(tasks) /\ DOMAIN rs = DOMAIN tasks
    BY Tasks DEF Valid
  <1> SUFFICES ASSUME NEW i \in DOMAIN tasks
               PROVE  /\ \A j \in DOMAIN tasks : j # i => tasks[j].id # tasks[i].id
                      /\ rs[i].id = tasks[i].id /\ Usable(rs[i].id)
                      /\ Complete(rs[i].captions, Requires(tasks[i]))
                      /\ Attributed(rs[i].captions, i)
    BY <1>1 DEF Deliverable
  <1>2. \A k \in DOMAIN tasks : rs[k].id = Printed(tasks[k].id) /\ rs[k].id = tasks[k].id
    <2> SUFFICES ASSUME NEW k \in DOMAIN tasks
                 PROVE  rs[k].id = Printed(tasks[k].id) /\ rs[k].id = tasks[k].id
      OBVIOUS
    <2>1. rs[k].id = Printed(tasks[k].id)
      BY <1>1 DEF Sound
    <2>2. PICK j \in DOMAIN tasks : tasks[j].id = rs[k].id
      BY <1>1 DEF Valid, Matching
    <2>3. rs[j].id = rs[k].id
      <3>1. rs[j].id = Printed(tasks[j].id)
        BY <1>1 DEF Sound
      <3>2. Printed(tasks[j].id) = tasks[j].id
        BY <2>1, <2>2 DEF Printed
      <3> QED BY <2>2, <3>1, <3>2
    <2>4. j = k
      BY <1>1, <2>3 DEF Valid
    <2> QED BY <2>1, <2>2, <2>4
  <1>3. Usable(rs[i].id) /\ \A j \in DOMAIN tasks : j # i => rs[j].id # rs[i].id
    BY <1>1 DEF Valid
  <1>4. Complete(rs[i].captions, Requires(tasks[i]))
    <2>1. rs[i].captions \in [Asks(tasks[i]) -> Captions] /\ Requires(tasks[i]) \subseteq Asks(tasks[i])
      BY <1>1, Tasks, AsksType DEF Sound
    <2> QED BY <2>1, CaptionIsNoHole DEF Complete
  <1>5. Attributed(rs[i].captions, i)
    BY <1>1, OwnIsAttributed DEF Sound
  <1> QED BY <1>1, <1>2, <1>3, <1>4, <1>5

(***************************************************************************)
(* A repaired entry has all the captions of the result its id finds, of    *)
(* task j, and is filled up with plain ones.                               *)
(***************************************************************************)
LEMMA FilledIn ==
    ASSUME TypeOK, NEW i \in DOMAIN tasks, NEW found, NEW filled,
           \/ found = <<>>
           \/ \E j \in DOMAIN tasks : /\ Printed(tasks[j].id) = Printed(tasks[i].id)
                                     /\ found \in [Asks(tasks[j]) -> Captions]
                                     /\ Judged(found, j),
           filled = [s \in DOMAIN found \cup Requires(tasks[i]) |->
               IF s \in DOMAIN found /\ (s \notin Requires(tasks[i]) \/ found[s] \notin {Blank, Object})
               THEN found[s] ELSE Plain]
    PROVE  Complete(filled, Requires(tasks[i])) /\ Attributed(filled, i)
  <1> DEFINE S == Requires(tasks[i])
  <1>1. Plain \in Fallbacks /\ Plain \notin {Blank, Object}
    BY DEF Fallbacks, Plain, From, Blank, Object
  <1>2. CASE found = <<>>
    <2>1. DOMAIN filled = S /\ \A s \in S : filled[s] = Plain
      BY <1>2
    <2> QED BY <1>1, <2>1 DEF Complete, Attributed
  <1>3. ASSUME NEW j \in DOMAIN tasks, Printed(tasks[j].id) = Printed(tasks[i].id),
               found \in [Asks(tasks[j]) -> Captions], Judged(found, j)
        PROVE  Complete(filled, S) /\ Attributed(filled, i)
    <2> DEFINE A == Asks(tasks[j])
    <2>1. \A s \in A : found[s] \notin {Blank, Object}
      BY <1>3, CaptionIsNoHole
    <2>2. /\ DOMAIN filled = A \cup S
          /\ \A s \in A : filled[s] = found[s]
          /\ \A s \in DOMAIN filled \ A : filled[s] = Plain
      BY <1>3, <2>1
    <2>3. Complete(filled, S)
      BY <1>1, <2>1, <2>2 DEF Complete
    <2>4. CASE \A s \in DOMAIN found : found[s] \in Fallbacks
      <3>1. \A s \in DOMAIN filled : filled[s] \in Fallbacks
        BY <1>1, <1>3, <2>2, <2>4
      <3> QED BY <2>3, <3>1 DEF Attributed
    <2>5. CASE seen[j] # NoContext /\ Passes(found, seen[j], A)
      <3>1. [s \in A |-> filled[s]] = found
        BY <1>3, <2>2
      <3>2. CheckedFor(filled, j)
        BY <2>2, <2>5, <3>1 DEF CheckedFor
      <3> QED BY <1>3, <2>3, <3>2 DEF Attributed
    <2> QED BY <1>3, <2>4, <2>5 DEF Judged
  <1> QED BY <1>2, <1>3

\* Of some numbers up to n there is a last one.
LEMMA LastOf ==
    ASSUME NEW n \in Nat, NEW S \in SUBSET (1 .. n), S # {}
    PROVE  \E j \in S : \A k \in S : k <= j
  <1> DEFINE Beyond == {d \in 0 .. n : n - d \in S}
  <1>1. Beyond \subseteq Nat /\ Beyond # {}
    <2>1. PICK k \in S : k \in 1 .. n
      OBVIOUS
    <2>2. n - k \in 0 .. n /\ n - (n - k) = k
      BY <2>1
    <2>3. n - k \in Beyond
      BY <2>1, <2>2
    <2>4. Beyond \subseteq Nat
      OBVIOUS
    <2> QED BY <2>3, <2>4, Zenon
  <1>2. PICK d \in Beyond : \A e \in Beyond : <<e, d>> \notin OpToRel(<, Nat)
    <2> HIDE DEF Beyond
    <2> QED BY <1>1, WFMin, NatLessThanWellFounded, Zenon
  <1>3. \A e \in Beyond : ~(e < d)
    BY <1>1, <1>2, Zenon DEF OpToRel
  <1>4. ASSUME NEW k \in S
        PROVE  k <= n - d
    <2>1. k \in 1 .. n /\ n - k \in 0 .. n /\ n - (n - k) = k
      OBVIOUS
    <2>2. n - k \in Beyond
      BY <2>1
    <2>3. ~(n - k < d)
      BY <1>3, <2>2
    <2>4. d \in 0 .. n
      OBVIOUS
    <2> QED BY <2>1, <2>3, <2>4
  <1> QED BY <1>2, <1>4

LEMMA RepairedIsDeliverable ==
    ASSUME TypeOK, NEW rs \in Seq([id : Ids, captions : CaptionSets]), Len(rs) = Len(tasks),
           \A i \in DOMAIN rs : Sound(rs[i], i), Valid(Repaired(rs, tasks), tasks)
    PROVE  Deliverable(Repaired(rs, tasks))
  <1> DEFINE fixed == Repaired(rs, tasks)
  <1>1. DOMAIN fixed = DOMAIN tasks /\ DOMAIN rs = DOMAIN tasks
    BY Tasks DEF Repaired
  <1>2. \A i \in DOMAIN tasks : fixed[i].id = tasks[i].id
    BY DEF Repaired
  <1>3. \A i \in DOMAIN tasks : /\ Usable(fixed[i].id)
                                /\ \A j \in DOMAIN tasks : j # i => tasks[j].id # tasks[i].id
    <2>1. \A i \in DOMAIN fixed : /\ Usable(fixed[i].id)
                                  /\ \A j \in DOMAIN fixed : j # i => fixed[j].id # fixed[i].id
      BY DEF Valid
    <2> QED BY <1>1, <1>2, <2>1
  <1>4. ASSUME NEW i \in DOMAIN tasks
        PROVE  /\ Complete(fixed[i].captions, Requires(tasks[i]))
               /\ Attributed(fixed[i].captions, i)
    <2> DEFINE found == Existing(rs, tasks[i].id)
    <2> DEFINE same == {j \in DOMAIN rs : rs[j].id = tasks[i].id}
    <2>1. \/ found = <<>>
          \/ \E j \in DOMAIN tasks : /\ Printed(tasks[j].id) = Printed(tasks[i].id)
                                    /\ found \in [Asks(tasks[j]) -> Captions]
                                    /\ Judged(found, j)
      <3>1. CASE same = {}
        BY <3>1 DEF Existing
      <3>2. CASE same # {}
        <4>1. \E j \in same : \A k \in same : k <= j
          BY <3>2, <1>1, Tasks, LastOf
        <4>2. PICK j \in same : found = rs[j].captions
          BY <3>2, <4>1, Zenon DEF Existing
        <4>3. Printed(tasks[j].id) = Printed(tasks[i].id)
          BY <1>1, <4>2 DEF Sound, Printed
        <4> QED BY <1>1, <4>2, <4>3 DEF Sound
      <3> QED BY <3>1, <3>2
    <2>2. fixed[i].captions =
            [s \in DOMAIN found \cup Requires(tasks[i]) |->
                IF s \in DOMAIN found /\ (s \notin Requires(tasks[i]) \/ found[s] \notin {Blank, Object})
                THEN found[s] ELSE Plain]
      BY DEF Repaired
    <2> HIDE DEF found, fixed
    <2> QED BY <2>1, <2>2, FilledIn
  <1> QED BY <1>1, <1>2, <1>3, <1>4 DEF Deliverable
-------------------------------------------------------------------------------
LEMMA InitIInv == Init => IInv
  <1> SUFFICES ASSUME Init
               PROVE  IInv
    OBVIOUS
  <1>1. tasks \in Seq(TaskShapes) /\ Len(tasks) \in Nat
    BY InputsAssumption DEF Init
  <1>2. results \in Seq([id : Ids, captions : CaptionSets]) /\ Len(results) = 0
    BY DEF Init
  <1>3. TypeOK
    <2>1. ffprobe \in BOOLEAN
      BY DEF Init
    <2>2. seen \in [DOMAIN tasks -> Contexts \cup {NoContext}]
      BY DEF Init
    <2> QED BY <1>1, <2>1, <2>2 DEF Init, TypeOK
  <1>4. ResultsInv
    BY <1>2 DEF Init, ResultsInv, Nothing
  <1>5. TaskInv
    BY DEF Init, TaskInv
  <1>6. PublishInv
    BY DEF Init, PublishInv, Nothing
  <1> QED BY <1>3, <1>4, <1>5, <1>6 DEF IInv

\* The task under way.
LEMMA CurrentTask ==
    ASSUME TypeOK, pc \notin {"start", "task", "publish", "done"}
    PROVE  at \in DOMAIN tasks /\ Task = tasks[at] /\ Asks(Task) \in SUBSET Styles
  BY Tasks, AsksType DEF TypeOK, Task

(***************************************************************************)
(* What a task does before its result is appended touches no result.       *)
(***************************************************************************)
LEMMA SameResults ==
    ASSUME IInv, pc \notin {"publish", "done"}, UNCHANGED <<tasks, at, results, out, file>>,
           pc' # "publish", pc' # "done" => exit' = "none",
           \A i \in 1 .. at - 1 : seen'[i] = seen[i]
    PROVE  ResultsInv' /\ PublishInv'
  <1>1. \A i \in 1 .. at - 1 : Sound(results[i], i) => Sound(results[i], i)'
    BY DEF Sound, Judged
  <1> QED BY <1>1 DEF IInv, ResultsInv, PublishInv

LEMMA StartIInv == IInv /\ Start => IInv'
  <1> SUFFICES ASSUME IInv, Start
               PROVE  IInv'
    OBVIOUS
  <1> USE DEF Start, Exits
  <1>1. TypeOK'
    <2>1. ffprobe' \in BOOLEAN
      OBVIOUS
    <2> QED BY <2>1 DEF IInv, TypeOK
  <1>3. TaskInv'
    BY DEF IInv, ResultsInv, TaskInv
  <1>2. ResultsInv' /\ PublishInv'
    BY SameResults DEF IInv, ResultsInv
  <1> QED BY <1>1, <1>2, <1>3 DEF IInv

LEMMA BeginTaskIInv == IInv /\ BeginTask => IInv'
  <1> SUFFICES ASSUME IInv, BeginTask
               PROVE  IInv'
    OBVIOUS
  <1> USE DEF BeginTask, Exits
  <1>1. at \in DOMAIN tasks /\ Task = tasks[at] /\ Asks(Task) \in SUBSET Styles
    BY Tasks, AsksType DEF IInv, TypeOK, Task
  <1>2. TypeOK'
    <2>1. TypeOK'
      BY DEF IInv, TypeOK
    <2> QED BY <2>1
  <1>3. ResultsInv' /\ PublishInv'
    BY SameResults DEF IInv, ResultsInv
  <1>4. TaskInv'
    BY <1>1, FallbackType DEF TaskInv, Judged
  <1> QED BY <1>2, <1>3, <1>4 DEF IInv

LEMMA FetchIInv == IInv /\ Fetch => IInv'
  <1> SUFFICES ASSUME IInv, Fetch
               PROVE  IInv'
    OBVIOUS
  <1> USE DEF Fetch, OpenVideo, Downloaded, DownloadFails, Discard, NextAttempt, Degrade
  <1>1. /\ pc = "fetch" /\ UNCHANGED <<tasks, at, ffprobe, captions, seen, results, out, file, exit>>
        /\ pc' \in {"fetch", "frames", "append"}
    OBVIOUS
  <1>2. at \in DOMAIN tasks /\ Task = tasks[at] /\ Asks(Task) \in SUBSET Styles
    BY <1>1, CurrentTask DEF IInv
  <1>3. TypeOK'
    <2>1. attempt' \in Nat /\ video' \in {"none", "partial"}
      BY DEF IInv, TypeOK
    <2>2. videos' \subseteq [task : DOMAIN tasks, whole : BOOLEAN]
      <3>1. \A w \in BOOLEAN : [task |-> at, whole |-> w] \in [task : DOMAIN tasks, whole : BOOLEAN]
        BY <1>2
      <3>2. \/ videos' = videos
            \/ \E w \in BOOLEAN : videos' = videos \cup {[task |-> at, whole |-> w]}
        OBVIOUS
      <3> HIDE DEF OpenVideo, Downloaded, DownloadFails
      <3> QED BY <3>1, <3>2 DEF IInv, TypeOK
    <2> QED BY <1>1, <2>1, <2>2 DEF IInv, TypeOK
  <1>4. ResultsInv' /\ PublishInv'
    BY <1>1, SameResults DEF IInv, ResultsInv
  <1>5. TaskInv'
    BY <1>1, <1>2, FallbackType DEF IInv, TaskInv, Judged
  <1> QED BY <1>3, <1>4, <1>5 DEF IInv

LEMMA CaptionIInv == IInv /\ Caption => IInv'
  <1> SUFFICES ASSUME IInv, Caption
               PROVE  IInv'
    OBVIOUS
  <1>1. /\ pc \in {"frames", "context", "write", "check"}
        /\ pc' \in {"context", "write", "check", "append"}
        /\ UNCHANGED <<tasks, at, ffprobe, video, videos, results, out, file, exit>>
        /\ attempt' \in Nat
    BY DEF Caption, ExtractFrames, RetryVision, ExtractContext, WriteCaptions, CheckCaptions,
           NextAttempt, Degrade, IInv, TypeOK
  <1>2. at \in DOMAIN tasks /\ Task = tasks[at] /\ Asks(Task) \in SUBSET Styles
    BY <1>1, CurrentTask DEF IInv
  <1>3. /\ seen' \in [DOMAIN tasks -> Contexts \cup {NoContext}]
        /\ \A i \in DOMAIN tasks : i # at => seen'[i] = seen[i]
    BY <1>2 DEF Caption, ExtractFrames, RetryVision, ExtractContext, WriteCaptions,
                CheckCaptions, IInv, TypeOK
  <1>4. TypeOK'
    BY <1>1, <1>3 DEF IInv, TypeOK
  <1>5. ResultsInv' /\ PublishInv'
    <2>1. \A i \in 1 .. at - 1 : seen'[i] = seen[i]
      BY <1>2, <1>3, Tasks DEF IInv, TypeOK
    <2> QED BY <1>1, <2>1, SameResults DEF IInv, ResultsInv
  <1>6. TaskInv'
    <2>1. CASE ExtractFrames
      BY <1>2, <2>1, FallbackType DEF ExtractFrames, Degrade, IInv, TaskInv, Judged
    <2>2. CASE RetryVision
      BY <1>2, <2>2 DEF RetryVision, IInv, TaskInv
    <2>3. CASE ExtractContext
      <3>1. CASE Degrade /\ UNCHANGED <<seen, attempt>>
        BY <1>2, <2>3, <3>1, FallbackType DEF ExtractContext, Degrade, IInv, TaskInv, Judged
      <3>2. CASE pc' = "write" /\ \E context \in Contexts : seen' = [seen EXCEPT ![at] = context]
        <4>1. seen'[at] \in Contexts
          BY <1>2, <3>2 DEF IInv, TypeOK
        <4>2. NoContext \notin Contexts
          BY ContextsAssumption
        <4> QED BY <1>2, <2>3, <3>2, <4>1, <4>2 DEF ExtractContext, IInv, TaskInv
      <3> QED BY <2>3, <3>1, <3>2 DEF ExtractContext
    <2>4. CASE WriteCaptions
      <3>1. CASE Degrade /\ UNCHANGED captions
        BY <1>2, <2>4, <3>1, FallbackType DEF WriteCaptions, Degrade, IInv, TaskInv, Judged
      <3>2. CASE pc' = "check"
        <4>1. captions' \in [Asks(Task) -> Captions]
          <5>1. CASE captions' = AllPlain(Asks(Task))
            BY <1>2, <5>1, FallbackType
          <5>2. CASE \E given \in SUBSET Asks(Task) : \E reply \in [given -> Values] :
                        captions' = Written(reply, Asks(Task))
            BY <1>2, <5>2, WrittenType
          <5> QED BY <2>4, <3>2, <5>1, <5>2 DEF WriteCaptions, Degrade
        <4> QED BY <1>2, <2>4, <3>2, <4>1 DEF WriteCaptions, IInv, TaskInv
      <3> QED BY <2>4, <3>1, <3>2 DEF WriteCaptions
    <2>5. CASE CheckCaptions
      <3>1. captions \in [Asks(Task) -> Captions] /\ seen[at] # NoContext
        BY <1>2, <2>5 DEF CheckCaptions, IInv, TaskInv
      <3>2. ~CheckRaises(captions)
        BY <3>1, CaptionIsNoHole DEF CheckRaises
      <3>3. CASE Passes(captions, seen[at], Asks(Task))
        BY <1>2, <2>5, <3>1, <3>3 DEF CheckCaptions, TaskInv, Judged
      <3>4. CASE ~Passes(captions, seen[at], Asks(Task))
        BY <1>2, <2>5, <3>1, <3>2, <3>4, FallbackType DEF CheckCaptions, TaskInv, Judged
      <3> QED BY <3>3, <3>4
    <2> QED BY <2>1, <2>2, <2>3, <2>4, <2>5 DEF Caption
  <1> QED BY <1>4, <1>5, <1>6 DEF IInv

LEMMA AppendIInv == IInv /\ AppendResult => IInv'
  <1> SUFFICES ASSUME IInv, AppendResult
               PROVE  IInv'
    OBVIOUS
  <1> USE DEF AppendResult
  <1> DEFINE new == [id |-> Printed(Task.id), captions |-> captions]
  <1>1. at \in DOMAIN tasks /\ Task = tasks[at] /\ Asks(Task) \in SUBSET Styles
    BY CurrentTask DEF IInv
  <1>2. /\ results \in Seq([id : Ids, captions : CaptionSets]) /\ Len(results) = at - 1
        /\ \A i \in 1 .. at - 1 : Sound(results[i], i)
        /\ out = {} /\ file = {} /\ exit = "none"
    BY DEF IInv, ResultsInv
  <1>3. captions \in [Asks(Task) -> Captions] /\ Judged(captions, at)
    BY <1>1 DEF IInv, TaskInv
  <1>4. new \in [id : Ids, captions : CaptionSets] /\ Sound(new, at)
    <2>1. Printed(Task.id) \in Ids
      BY <1>1, Tasks, AsksType DEF IInv
    <2>2. captions \in CaptionSets
      BY <1>1, <1>3 DEF CaptionSets
    <2> QED BY <1>1, <1>3, <2>1, <2>2 DEF Sound
  <1>5. at \in 1 .. Len(tasks) /\ Len(tasks) \in Nat
    BY <1>1, Tasks DEF IInv
  <1>6. ResultsInv'
    <2> HIDE DEF new
    <2>1. results' = Append(results, new)
      BY DEF new
    <2>2. /\ results' \in Seq([id : Ids, captions : CaptionSets]) /\ Len(results') = at
          /\ results'[at] = new /\ \A i \in 1 .. at - 1 : results'[i] = results[i]
      BY <1>2, <1>4, <1>5, <2>1
    <2>3. \A i \in 1 .. at : Sound(results'[i], i)
      BY <1>2, <1>4, <1>5, <2>2
    <2>4. \A i \in 1 .. at : Sound(results[i], i)'
      BY <2>3 DEF Sound, Judged
    <2>5. at' = at + 1 /\ UNCHANGED <<out, file, exit>>
      OBVIOUS
    <2> QED BY <1>2, <1>5, <2>2, <2>4, <2>5 DEF ResultsInv
  <1>7. TypeOK' /\ TaskInv' /\ PublishInv'
    BY <1>2, <1>5 DEF IInv, TypeOK, TaskInv, PublishInv
  <1> QED BY <1>6, <1>7 DEF IInv

\* Results once found good stay so.
LEMMA StillDeliverable ==
    ASSUME UNCHANGED <<tasks, seen>>, NEW published, Deliverable(published)
    PROVE  Deliverable(published)'
  BY DEF Deliverable, Attributed, CheckedFor

LEMMA ValidateIInv == IInv /\ Validate => IInv'
  <1> SUFFICES ASSUME IInv, Validate
               PROVE  IInv'
    OBVIOUS
  <1>1. /\ pc = "task" /\ pc' \in {"publish", "done"} /\ exit' \in {exit, "raised"}
        /\ UNCHANGED <<tasks, at, ffprobe, attempt, video, videos, captions, seen, out, file>>
    BY DEF Validate, Exits
  <1>2. /\ results \in Seq([id : Ids, captions : CaptionSets]) /\ Len(results) = at - 1
        /\ \A i \in 1 .. at - 1 : Sound(results[i], i)
        /\ out = {} /\ file = {} /\ exit = "none"
    BY <1>1 DEF IInv, ResultsInv
  <1>3. Len(results) = Len(tasks) /\ \A i \in DOMAIN results : Sound(results[i], i)
    BY <1>2, Tasks DEF Validate, IInv, TypeOK
  <1>4. TypeOK' /\ ResultsInv' /\ TaskInv'
    BY <1>1, <1>2 DEF IInv, TypeOK, ResultsInv, TaskInv
  <1>5. PublishInv'
    <2>1. CASE pc' = "publish"
      <3>1. /\ Valid(ToWrite(results, tasks), tasks)
            /\ results' = ToWrite(results, tasks) /\ UNCHANGED exit
        BY <2>1 DEF Validate, Acceptable, Exits
      <3>2. CASE Valid(results, tasks)
        <4>1. results' = results
          BY <3>1, <3>2 DEF ToWrite
        <4>2. Deliverable(results)
          BY <1>2, <1>3, <3>2, ValidIsDeliverable DEF IInv
        <4> QED BY <1>1, <1>2, <2>1, <3>1, <4>1, <4>2, StillDeliverable DEF PublishInv
      <3>3. CASE ~Valid(results, tasks)
        <4>1. results' = Repaired(results, tasks) /\ Valid(Repaired(results, tasks), tasks)
          BY <3>1, <3>3 DEF ToWrite
        <4>2. Deliverable(results')
          BY <1>2, <1>3, <4>1, RepairedIsDeliverable DEF IInv
        <4>4. \A published : Deliverable(published) => Deliverable(published)'
          BY <1>1, StillDeliverable
        <4>5. Deliverable(results)'
          BY <4>2, <1>1, <4>1 DEF Deliverable, Attributed, CheckedFor
        <4> QED BY <1>1, <1>2, <2>1, <3>1, <4>5 DEF PublishInv
      <3> QED BY <3>2, <3>3
    <2>2. CASE pc' = "done"
      BY <1>1, <1>2, <2>2 DEF PublishInv
    <2> QED BY <1>1, <2>1, <2>2
  <1> QED BY <1>4, <1>5 DEF IInv

\* Files hold what was found good, whenever the process ends.
LEMMA FilesIInv == IInv /\ (WriteOut \/ Replace \/ WriteFails \/ Kill) => IInv'
  <1> SUFFICES ASSUME IInv, WriteOut \/ Replace \/ WriteFails \/ Kill
               PROVE  IInv'
    OBVIOUS
  <1> USE DEF WriteOut, Replace, WriteFails, Kill, Exits, Nothing
  <1>1. /\ pc' \in {"publish", "done"} /\ exit' \in {exit, "raised", "zero", "killed"}
        /\ UNCHANGED <<tasks, at, ffprobe, attempt, video, videos, captions, seen, results>>
    OBVIOUS
  <1>2. TypeOK' /\ ResultsInv' /\ TaskInv'
    BY <1>1 DEF IInv, TypeOK, ResultsInv, TaskInv
  <1>4. PublishInv'
    <2>1. \A published : Deliverable(published) => Deliverable(published)'
      BY <1>1, StillDeliverable
    <2>2. /\ pc' = "publish" => pc = "publish" /\ UNCHANGED exit
          /\ out' \cup file' \subseteq out \cup file \cup (IF pc = "publish" THEN {results} ELSE {})
      OBVIOUS
    <2> QED BY <1>1, <2>1, <2>2 DEF IInv, PublishInv
  <1> QED BY <1>2, <1>4 DEF IInv

LEMMA StutterIInv == IInv /\ UNCHANGED vars => IInv'
  <1> SUFFICES ASSUME IInv, UNCHANGED vars
               PROVE  IInv'
    OBVIOUS
  <1>1. TypeOK' /\ TaskInv' /\ ResultsInv'
    BY DEF vars, IInv, TypeOK, TaskInv, ResultsInv, Sound, Judged
  <1>2. PublishInv'
    <2>1. \A published : Deliverable(published) => Deliverable(published)'
      BY StillDeliverable DEF vars
    <2>2. UNCHANGED <<pc, results, exit, out, file>> /\ PublishInv
      BY DEF vars, IInv
    <2>3. Deliverable(results) => Deliverable(results)'
      BY <2>2 DEF vars, Deliverable, Attributed, CheckedFor
    <2> QED BY <2>1, <2>2, <2>3 DEF PublishInv
  <1> QED BY <1>1, <1>2 DEF IInv

LEMMA Inductive == Spec => []IInv
  <1>1. IInv /\ [Next]_vars => IInv'
    BY StartIInv, BeginTaskIInv, FetchIInv, CaptionIInv, AppendIInv, ValidateIInv, FilesIInv,
       StutterIInv DEF Next, Step, Publish
  <1> QED BY InitIInv, <1>1, PTL DEF Spec
-------------------------------------------------------------------------------
(* What a run of Track 2 promises *)

\* The program counter, the task under way and the attempts stay in their ranges.
THEOREM TypeCorrect == Spec => []TypeOK
  <1>1. IInv => TypeOK
    BY DEF IInv
  <1> QED BY Inductive, <1>1, PTL

\* The results file has one entry for each task, in order, with its id and a
\* caption for every style it asked for, or there is no file (validate_and_write).
THEOREM ContractKept == Spec => []OutputContract
  <1>1. IInv => OutputContract
    BY DEF IInv, PublishInv, Deliverable, OutputContract
  <1> QED BY Inductive, <1>1, PTL

\* What is published is a fallback or has passed the checks together with the
\* others of one task, against the context of that one's video: the task itself,
\* or one with an id that is printed alike (self_gap_check, _repair).
THEOREM NothingUnchecked == Spec => []CheckedOrFallback
  <1>1. IInv => CheckedOrFallback
    BY DEF IInv, PublishInv, Deliverable, Attributed, CheckedOrFallback
  <1> QED BY Inductive, <1>1, PTL

\* Unless the id of a task is printed like that of another one, what is published for
\* it is a fallback or has passed the checks against the context of its own video.
OnlyAlikeIdsMix ==
    \A published \in file : \A i \in DOMAIN published :
        LET given == published[i].captions IN
        \/ \E j \in DOMAIN tasks \ {i} : Printed(tasks[j].id) = Printed(tasks[i].id)
        \/ \A s \in DOMAIN given : given[s] \in Fallbacks
        \/ CheckedFor(given, i)

\* Captions of another video are published for a task only when its id is printed
\* like that of another task (_repair, main's str of the id).
THEOREM PrintedIdsTheorem == Spec => []OnlyAlikeIdsMix
  <1>1. IInv => OnlyAlikeIdsMix
    BY DEF IInv, PublishInv, Deliverable, Attributed, OnlyAlikeIdsMix
  <1> QED BY Inductive, <1>1, PTL
-------------------------------------------------------------------------------
(***************************************************************************)
(* Termination by a variant.  Downloads and calls of the model are retried,*)
(* a task after the other goes through the same stages: what is left is    *)
(* counted in stages of the task under way and whole tasks after it.       *)
(***************************************************************************)

\* Attempts are counted from 1 to the limit of the loop they are in.
AttemptInv ==
    /\ pc = "fetch" => attempt \in 1 .. FetchAttempts
    /\ pc \in {"context", "write"} => attempt \in 1 .. MaxRetries

PerTask == 2 * FetchAttempts + 2 * MaxRetries + 4

\* Steps to the end of the task under way, at most.
StageSteps ==
    CASE pc = "fetch"   -> 2 * (FetchAttempts - attempt) + 2 * MaxRetries
                             + (IF video = "none" THEN 5 ELSE 4)
      [] pc = "frames"  -> 2 * MaxRetries + 3
      [] pc = "context" -> 2 * MaxRetries + 3 - attempt
      [] pc = "write"   -> MaxRetries + 3 - attempt
      [] pc = "check"   -> 2
      [] pc = "append"  -> 1

\* Tasks not done, the one under way included.
TasksAhead == Len(tasks) + 1 - at

StepsLeft ==
    CASE pc = "start"   -> TasksAhead * PerTask + 4
      [] pc = "task"    -> TasksAhead * PerTask + 3
      [] pc = "publish" -> IF out = Nothing THEN 2 ELSE 1
      [] pc = "done"    -> 0
      [] OTHER          -> (TasksAhead - 1) * PerTask + StageSteps + 3

Stages == {"fetch", "frames", "context", "write", "check", "append"}

LEMMA InitAttempt == Init => AttemptInv
  BY DEF Init, AttemptInv

LEMMA NextAttemptInv == IInv /\ AttemptInv /\ [Next]_vars => AttemptInv'
  <1> SUFFICES ASSUME IInv, AttemptInv, [Next]_vars
               PROVE  AttemptInv'
    OBVIOUS
  <1>t. FetchAttempts \in Nat \ {0} /\ MaxRetries \in Nat \ {0} /\ attempt \in Nat
    BY AttemptsAssumption DEF IInv, TypeOK
  <1> USE <1>t DEF AttemptInv
  <1>1. CASE Start \/ BeginTask \/ AppendResult \/ Publish
    BY <1>1 DEF Start, BeginTask, AppendResult, Publish, Validate, WriteOut, Replace, WriteFails,
                Exits
  <1>2. CASE Fetch
    BY <1>2 DEF Fetch, OpenVideo, Downloaded, DownloadFails, Discard, NextAttempt, Degrade
  <1>3. CASE Caption
    BY <1>3 DEF Caption, ExtractFrames, RetryVision, ExtractContext, WriteCaptions, CheckCaptions,
                NextAttempt, Degrade
  <1>4. CASE Kill
    BY <1>4 DEF Kill, Exits
  <1>5. CASE UNCHANGED vars
    BY <1>5 DEF vars
  <1> QED BY <1>1, <1>2, <1>3, <1>4, <1>5 DEF Next, Step

LEMMA StageStepsBounded ==
    ASSUME IInv, AttemptInv, pc \in Stages
    PROVE  StageSteps \in 1 .. PerTask - 1
  <1>t. FetchAttempts \in Nat \ {0} /\ MaxRetries \in Nat \ {0}
    BY AttemptsAssumption
  <1> QED BY <1>t DEF AttemptInv, Stages, StageSteps, PerTask

\* Whole tasks are counted in the same measure.
LEMMA TaskCounts ==
    ASSUME NEW n \in Nat, NEW k \in 1 .. n, NEW w \in Nat
    PROVE  /\ (k - 1) * w \in Nat
           /\ k * w = (k - 1) * w + w
           /\ k * w <= n * w
  <1>1. k * w = (k - 1) * w + w /\ n * w = k * w + (n - k) * w
    OBVIOUS
  <1>2. (k - 1) * w >= 0 /\ (k - 1) * w \in Int /\ (n - k) * w >= 0 /\ (n - k) * w \in Int
    OBVIOUS
  <1> QED BY <1>1, <1>2

LEMMA StepsLeftBounded ==
    ASSUME IInv, AttemptInv
    PROVE  StepsLeft \in 0 .. Len(tasks) * PerTask + 4
  <1>1. Len(tasks) \in Nat /\ at \in 1 .. Len(tasks) + 1 /\ PerTask \in Nat
    BY Tasks, AttemptsAssumption DEF IInv, TypeOK, PerTask
  <1>2. TasksAhead \in 0 .. Len(tasks)
    BY <1>1 DEF TasksAhead
  <1>3. TasksAhead * PerTask \in 0 .. Len(tasks) * PerTask
    <2>1. CASE TasksAhead = 0
      <3>1. 0 * PerTask = 0 /\ Len(tasks) * PerTask \in Nat
        BY <1>1
      <3> QED BY <2>1, <3>1
    <2>2. CASE TasksAhead # 0
      <3>1. TasksAhead \in 1 .. Len(tasks)
        BY <1>2, <2>2
      <3>2. /\ (TasksAhead - 1) * PerTask \in Nat
            /\ TasksAhead * PerTask = (TasksAhead - 1) * PerTask + PerTask
            /\ TasksAhead * PerTask <= Len(tasks) * PerTask
        BY <1>1, <3>1, TaskCounts
      <3> QED BY <1>1, <3>2
    <2> QED BY <2>1, <2>2
  <1>4. CASE pc \in Stages
    <2>1. StageSteps \in 1 .. PerTask - 1
      BY <1>4, StageStepsBounded
    <2>2. TasksAhead \in 1 .. Len(tasks)
      BY <1>1, <1>4 DEF IInv, TypeOK, Stages, TasksAhead
    <2>3. (TasksAhead - 1) * PerTask \in Nat
          /\ TasksAhead * PerTask = (TasksAhead - 1) * PerTask + PerTask
      BY <1>1, <2>2, TaskCounts
    <2>4. StepsLeft = (TasksAhead - 1) * PerTask + StageSteps + 3
      BY <1>4 DEF StepsLeft, Stages
    <2> HIDE DEF StepsLeft, StageSteps, TasksAhead, PerTask, Stages
    <2> QED BY <1>1, <1>3, <2>1, <2>3, <2>4
  <1>5. CASE pc \notin Stages
    BY <1>1, <1>3, <1>5 DEF IInv, TypeOK, StepsLeft, Stages
  <1> QED BY <1>4, <1>5

\* What is left of a task, whole tasks apart.
LEMMA StageAdvances ==
    ASSUME IInv, AttemptInv, IInv', AttemptInv', UNCHANGED <<tasks, at>>,
           pc \in Stages, pc' \in Stages, StageSteps' < StageSteps
    PROVE  StepsLeft' < StepsLeft
  <1>1. StageSteps \in Int
    BY StageStepsBounded
  <1>2. StageSteps' \in Int
    <2>1. FetchAttempts \in Nat \ {0} /\ MaxRetries \in Nat \ {0}
      BY AttemptsAssumption
    <2> QED BY <2>1 DEF AttemptInv, Stages, StageSteps
  <1>3. (TasksAhead - 1) * PerTask \in Int /\ TasksAhead' = TasksAhead
    BY Tasks, AttemptsAssumption DEF IInv, TypeOK, TasksAhead, PerTask
  <1>4. /\ StepsLeft = (TasksAhead - 1) * PerTask + StageSteps + 3
        /\ StepsLeft' = (TasksAhead' - 1) * PerTask + StageSteps' + 3
    BY DEF StepsLeft, Stages, PerTask
  <1> HIDE DEF TasksAhead, PerTask, StageSteps
  <1>5. ASSUME NEW w \in Int, NEW i \in Int, NEW j \in Int, j < i
        PROVE  w + j + 3 < w + i + 3
    BY <1>5
  <1>6. (TasksAhead - 1) * PerTask + StageSteps' + 3 < (TasksAhead - 1) * PerTask + StageSteps + 3
    BY <1>1, <1>2, <1>3, <1>5
  <1> QED BY <1>3, <1>4, <1>6

LEMMA FetchCounts == IInv /\ AttemptInv /\ IInv' /\ AttemptInv' /\ Fetch => StepsLeft' < StepsLeft
  <1> SUFFICES ASSUME IInv, AttemptInv, IInv', AttemptInv', Fetch
               PROVE  StepsLeft' < StepsLeft
    OBVIOUS
  <1>t. /\ FetchAttempts \in Nat \ {0} /\ MaxRetries \in Nat \ {0}
        /\ attempt \in 1 .. FetchAttempts /\ pc = "fetch" /\ UNCHANGED <<tasks, at>>
    BY AttemptsAssumption DEF AttemptInv, Fetch, OpenVideo, Downloaded, DownloadFails
  <1>1. pc' \in {"fetch", "frames", "append"}
    BY <1>t DEF Fetch, OpenVideo, Downloaded, DownloadFails, Degrade
  <1>2. StageSteps' < StageSteps
    <2>1. CASE OpenVideo
      BY <1>t, <2>1 DEF OpenVideo, Degrade, StageSteps
    <2>2. CASE Downloaded
      BY <1>t, <2>2 DEF Downloaded, StageSteps
    <2>3. CASE DownloadFails
      BY <1>t, <2>3 DEF DownloadFails, NextAttempt, Degrade, StageSteps
    <2> QED BY <2>1, <2>2, <2>3 DEF Fetch
  <1> QED BY <1>t, <1>1, <1>2, StageAdvances DEF Stages

LEMMA CaptionCounts ==
    IInv /\ AttemptInv /\ IInv' /\ AttemptInv' /\ Caption => StepsLeft' < StepsLeft
  <1> SUFFICES ASSUME IInv, AttemptInv, IInv', AttemptInv', Caption
               PROVE  StepsLeft' < StepsLeft
    OBVIOUS
  <1>t. /\ MaxRetries \in Nat \ {0} /\ UNCHANGED <<tasks, at>>
        /\ pc \in {"context", "write"} => attempt \in 1 .. MaxRetries
    BY AttemptsAssumption DEF AttemptInv, Caption, ExtractFrames, RetryVision, ExtractContext,
                              WriteCaptions, CheckCaptions
  <1>1. pc \in Stages /\ pc' \in Stages
    BY DEF Stages, Caption, ExtractFrames, RetryVision, ExtractContext, WriteCaptions,
           CheckCaptions, Degrade
  <1>2. StageSteps' < StageSteps
    <2>1. CASE ExtractFrames
      BY <1>t, <2>1 DEF ExtractFrames, Degrade, StageSteps
    <2>2. CASE RetryVision
      BY <1>t, <2>2 DEF RetryVision, NextAttempt, StageSteps
    <2>3. CASE ExtractContext
      BY <1>t, <2>3 DEF ExtractContext, Degrade, StageSteps
    <2>4. CASE WriteCaptions
      BY <1>t, <2>4 DEF WriteCaptions, Degrade, StageSteps
    <2>5. CASE CheckCaptions
      BY <2>5 DEF CheckCaptions, StageSteps
    <2> QED BY <2>1, <2>2, <2>3, <2>4, <2>5 DEF Caption
  <1> QED BY <1>t, <1>1, <1>2, StageAdvances

\* A task begins with as many steps as a task may take, and is over when its
\* result is appended.
LEMMA TaskCountsDown ==
    IInv /\ AttemptInv /\ IInv' /\ AttemptInv' /\ (BeginTask \/ AppendResult)
        => StepsLeft' < StepsLeft
  <1> SUFFICES ASSUME IInv, AttemptInv, IInv', AttemptInv', BeginTask \/ AppendResult
               PROVE  StepsLeft' < StepsLeft
    OBVIOUS
  <1>1. /\ Len(tasks) \in Nat /\ at \in 1 .. Len(tasks) /\ PerTask \in Nat
        /\ FetchAttempts \in Nat \ {0} /\ MaxRetries \in Nat \ {0}
    BY Tasks, AttemptsAssumption DEF IInv, TypeOK, PerTask, BeginTask, AppendResult
  <1>2. TasksAhead \in 1 .. Len(tasks)
    BY <1>1 DEF TasksAhead
  <1>3. /\ (TasksAhead - 1) * PerTask \in Nat
        /\ TasksAhead * PerTask = (TasksAhead - 1) * PerTask + PerTask
    BY <1>1, <1>2, TaskCounts
  <1>4. CASE BeginTask
    <2>1. StepsLeft = (TasksAhead - 1) * PerTask + PerTask + 3
      BY <1>3, <1>4 DEF BeginTask, StepsLeft
    <2>2. CASE pc' = "done"
      <3>1. StepsLeft' = 0
        BY <2>2 DEF StepsLeft
      <3> HIDE DEF StepsLeft, TasksAhead, PerTask
      <3> QED BY <1>1, <1>3, <2>1, <3>1
    <2>3. CASE pc' # "done"
      <3>1. /\ pc' \in {"fetch", "append"} /\ attempt' = 1
            /\ TasksAhead' = TasksAhead /\ PerTask' = PerTask
        BY <1>4, <2>3 DEF BeginTask, Exits, TasksAhead, PerTask
      <3>2. StageSteps' \in Int /\ StageSteps' < PerTask
        BY <1>1, <3>1 DEF StageSteps, PerTask
      <3>3. StepsLeft' = (TasksAhead - 1) * PerTask + StageSteps' + 3
        BY <3>1 DEF StepsLeft
      <3>4. ASSUME NEW w \in Nat, NEW i \in Int, NEW j \in Int, j < i
            PROVE  w + j + 3 < w + i + 3
        BY <3>4
      <3> HIDE DEF StepsLeft, TasksAhead, PerTask, StageSteps
      <3> QED BY <1>1, <1>3, <2>1, <3>2, <3>3, <3>4
    <2> QED BY <2>2, <2>3
  <1>5. CASE AppendResult
    <2>1. StepsLeft = (TasksAhead - 1) * PerTask + 4
      BY <1>3, <1>5 DEF AppendResult, StepsLeft, StageSteps
    <2>2. TasksAhead' = TasksAhead - 1
      BY <1>1, <1>5 DEF AppendResult, TasksAhead
    <2>3. StepsLeft' = (TasksAhead - 1) * PerTask + 3
      BY <1>5, <2>2 DEF AppendResult, StepsLeft, PerTask
    <2> HIDE DEF StepsLeft, TasksAhead, PerTask
    <2> QED BY <1>3, <2>1, <2>3
  <1> QED BY <1>4, <1>5

LEMMA EndCounts ==
    IInv /\ AttemptInv /\ IInv' /\ AttemptInv' /\ (Start \/ Publish \/ Kill)
        => StepsLeft' < StepsLeft
  <1> SUFFICES ASSUME IInv, AttemptInv, IInv', AttemptInv', Start \/ Publish \/ Kill
               PROVE  StepsLeft' < StepsLeft
    OBVIOUS
  <1>1. Len(tasks) \in Nat /\ at \in 1 .. Len(tasks) + 1 /\ PerTask \in Nat
    BY Tasks, AttemptsAssumption DEF IInv, TypeOK, PerTask
  <1>2. TasksAhead \in Nat /\ TasksAhead * PerTask \in Nat
    <2>1. TasksAhead \in Nat
      BY <1>1 DEF TasksAhead
    <2> HIDE DEF TasksAhead, PerTask
    <2>2. TasksAhead * PerTask >= 0 /\ TasksAhead * PerTask \in Int
      BY <1>1, <2>1
    <2> QED BY <2>1, <2>2
  <1>3. CASE Start
    BY <1>2, <1>3 DEF Start, Exits, StepsLeft, TasksAhead, PerTask
  <1>4. CASE Publish
    <2>1. CASE Validate
      <3>1. StepsLeft = TasksAhead * PerTask + 3 /\ StepsLeft' \in {0, 1, 2}
        BY <2>1 DEF Validate, Exits, StepsLeft
      <3> HIDE DEF StepsLeft, TasksAhead, PerTask
      <3> QED BY <1>2, <3>1
    <2>2. CASE WriteOut
      <3>1. out' # Nothing
        BY <2>2 DEF WriteOut, Nothing
      <3> QED BY <2>2, <3>1 DEF WriteOut, StepsLeft
    <2>3. CASE Replace \/ WriteFails
      BY <2>3 DEF Replace, WriteFails, Exits, StepsLeft
    <2> QED BY <1>4, <2>1, <2>2, <2>3 DEF Publish
  <1>5. CASE Kill
    <2>1. pc' = "done" /\ StepsLeft' = 0
      BY <1>5 DEF Kill, Exits, StepsLeft
    <2>2. StepsLeft > 0
      <3>1. CASE pc \in Stages
        <4>1. StageSteps \in 1 .. PerTask - 1
          BY <3>1, StageStepsBounded
        <4>2. TasksAhead \in 1 .. Len(tasks)
          BY <1>1, <3>1 DEF IInv, TypeOK, Stages, TasksAhead
        <4>3. (TasksAhead - 1) * PerTask \in Nat
          BY <1>1, <4>2, TaskCounts
        <4>4. StepsLeft = (TasksAhead - 1) * PerTask + StageSteps + 3
          BY <3>1 DEF StepsLeft, Stages
        <4> HIDE DEF StepsLeft, StageSteps, TasksAhead, PerTask
        <4> QED BY <4>1, <4>3, <4>4
      <3>2. CASE pc \notin Stages
        BY <1>2, <1>5, <3>2 DEF Kill, IInv, TypeOK, StepsLeft, Stages
      <3> QED BY <3>1, <3>2
    <2> QED BY <2>1, <2>2
  <1> QED BY <1>3, <1>4, <1>5

(***************************************************************************)
(* A run of Track 2 is finite: at most PerTask steps for each task, what   *)
(* the network and the model do included, and four around them.  Every     *)
(* step uses up a part of that number, so no retry of fetch or complete    *)
(* and no repair of the results can go on for ever.                        *)
(***************************************************************************)
THEOREM RunIsFinite ==
    Spec => /\ [](StepsLeft \in 0 .. Len(tasks) * PerTask + 4)
            /\ [][StepsLeft' < StepsLeft]_vars
  <1>1. Spec => [](IInv /\ AttemptInv)
    BY Inductive, InitAttempt, NextAttemptInv, PTL DEF Spec
  <1>2. IInv /\ AttemptInv => StepsLeft \in 0 .. Len(tasks) * PerTask + 4
    BY StepsLeftBounded
  <1>3. (IInv /\ AttemptInv) /\ (IInv /\ AttemptInv)' /\ [Next]_vars
            => [StepsLeft' < StepsLeft]_vars
    BY FetchCounts, CaptionCounts, TaskCountsDown, EndCounts DEF Next, Step
  <1> QED BY <1>1, <1>2, <1>3, PTL DEF Spec
===============================================================================
