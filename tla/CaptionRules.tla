----------------------------- MODULE CaptionRules -----------------------------
(***************************************************************************)
(* The rules by which Track 2 judges, completes and repairs captions       *)
(* (src/amd_track2: caption_writer, caption_gap_checker, context_extractor,*)
(* output_validator, frame_extractor).  A caption is where it comes from   *)
(* and a word for what it says; a context is the captions that mention     *)
(* something of it, and those that say what must not be claimed.           *)
(***************************************************************************)
EXTENDS Integers, Sequences, FiniteSets

CONSTANTS
    Styles,    \* styles a task may ask for
    NonTech,   \* humorous_non_tech
    Words,     \* what the captions of the model may say
    Jargon     \* those with a technical term in them

ASSUME StylesAssumption == NonTech \in Styles /\ IsFiniteSet(Styles)
ASSUME WordsAssumption  == Jargon \subseteq Words

From(source, word) == [from |-> source, word |-> word]
Canned(style) == From("canned", style)       \* entrypoint._fallback
Safe(style)   == From("safe", style)         \* _safe_fallback_for_style
Plain         == From("plain", "video")      \* "A video showing visible content."
Model(word)   == From("model", word)

Captions  == {Canned(s) : s \in Styles} \cup {Safe(s) : s \in Styles} \cup {Plain}
             \cup {Model(w) : w \in Words}
Fallbacks == {Canned(s) : s \in Styles} \cup {Plain}

\* What a reply may hold for a style besides a caption.
Blank  == From("blank", "blank")
Object == From("object", "object")
Values == {Model(w) : w \in Words} \cup {Blank, Object}

\* "video" and "visible content" have a term of the list in them, "ide", and
\* "certainly" has "ai".
SoundsTechnical(caption) ==
    caption \in {Canned(NonTech), Plain} \cup {Safe(s) : s \in Styles}
                \cup {Model(w) : w \in Jargon}
-------------------------------------------------------------------------------
(* context_extractor: a context is complete whatever the model left out. *)

\* What a context says of captions: those that mention a word of it (all, when it
\* has no word of four letters), those with a claim in them it denies.
IsContext(context) ==
    /\ context.wordless \in BOOLEAN
    /\ context.mentioning \subseteq Captions /\ context.denied \subseteq Captions

\* What the reply holds: whether there is a summary, the lengths of the lists.
IsRaw(raw) ==
    /\ raw.summary \in {"missing", "given"}
    /\ raw.subjects \in Nat /\ raw.actions \in Nat /\ raw.mention \in Nat
    /\ raw.uncertainties \in Nat
    /\ raw.rated \in BOOLEAN /\ raw.confidence \in Int     \* in percent

\* _clamp_float
Clamped(raw) ==
    IF ~raw.rated THEN 50
    ELSE IF raw.confidence > 100 THEN 100
    ELSE IF raw.confidence < 0 THEN 0 ELSE raw.confidence

OrOne(n) == IF n = 0 THEN 1 ELSE n

\* _validate_and_normalize, on the lengths of the lists.
Normalised(raw) ==
    [summary       |-> IF raw.summary = "missing" THEN "default" ELSE "given",
     subjects      |-> IF raw.subjects = 0 /\ raw.actions = 0 THEN 1 ELSE raw.subjects,
     actions       |-> raw.actions,
     mention       |-> OrOne(raw.mention),
     uncertainties |-> IF Clamped(raw) < 70 THEN OrOne(raw.uncertainties)
                       ELSE raw.uncertainties,
     confidence    |-> Clamped(raw)]

\* The rules the prompt gives for a context.
WellFormed(context) ==
    /\ context.summary # "missing"
    /\ context.subjects > 0 \/ context.actions > 0
    /\ context.mention > 0
    /\ context.confidence \in 0 .. 100
    /\ context.confidence < 70 => context.uncertainties > 0

\* _compute_timestamps, in milliseconds: half a second, then fifths, then the
\* end, without what coincides.
Timestamps(duration) ==
    IF duration = 0 THEN {1000 * i : i \in 0 .. 5}     \* _fallback_timestamps
    ELSE {IF duration < 500 THEN duration ELSE 500}
         \cup {(duration * p) \div 100 : p \in {20, 40, 60, 80, 95}}
-------------------------------------------------------------------------------
(* caption_gap_checker *)

Complete(captions, styles) ==
    \A s \in styles : s \in DOMAIN captions /\ captions[s] \notin {Blank, Object}

Identical(captions) ==
    /\ Cardinality(DOMAIN captions) > 1
    /\ \A s, t \in DOMAIN captions : captions[s] = captions[t]

Grounded(captions, context) ==
    context.wordless \/ \A s \in DOMAIN captions : captions[s] \in context.mentioning \cup {Object}

Contradicts(captions, context) ==
    \E s \in DOMAIN captions : captions[s] \in context.denied

\* CaptionGapChecker.check; a caption for NonTech that is no string makes it raise.
CheckRaises(captions) == NonTech \in DOMAIN captions /\ captions[NonTech] = Object

Passes(captions, context, styles) ==
    /\ Complete(captions, styles)
    /\ NonTech \in DOMAIN captions => ~SoundsTechnical(captions[NonTech])
    /\ ~Identical(captions)
    /\ Grounded(captions, context)
    /\ ~Contradicts(captions, context)
-------------------------------------------------------------------------------
(* caption_writer: what becomes of a reply. *)

\* Mutant: the captions of the model are taken as they are.
AsReplied(reply, styles) == [s \in styles \cap DOMAIN reply |-> reply[s]]

\* One caption for each style, a safe one where the model gave none.
Written(reply, styles) ==
    [s \in styles |->
        IF s \in DOMAIN reply /\ reply[s] \notin {Blank, Object} THEN reply[s] ELSE Safe(s)]

AllPlain(styles)  == [s \in styles |-> Plain]
AllCanned(styles) == [s \in styles |-> Canned(s)]
-------------------------------------------------------------------------------
(* output_validator: tasks and results are matched by their ids.  A task's  *)
(* id is [type, name]; a result always has the printed id.                  *)

NoId         == [type |-> "none", name |-> "none"]
Usable(id)   == id.type # "none"
Printed(id)  == [type |-> "string", name |-> id.name]    \* str(task_id); "" and None too

\* Styles a task gives, or none: without them the default ones are captioned,
\* and none is required.
Requires(task) == task.styles
Asks(task)     == IF task.styles = {} THEN Styles ELSE task.styles

Matching(id, tasks) == {i \in DOMAIN tasks : tasks[i].id = id}

\* _validate
Valid(results, tasks) ==
    /\ Len(results) = Len(tasks)
    /\ \A i \in DOMAIN results :
        /\ Usable(results[i].id)
        /\ Matching(results[i].id, tasks) # {}
        /\ \A j \in DOMAIN results : j # i => results[j].id # results[i].id
        /\ \A k \in Matching(results[i].id, tasks) :
            (\A j \in Matching(results[i].id, tasks) : k <= j)
                => Complete(results[i].captions, Requires(tasks[k]))

\* The last result with the id of a task, if any.
Existing(results, id) ==
    LET same == {j \in DOMAIN results : results[j].id = id}
    IN  IF same = {} THEN <<>>
        ELSE results[CHOOSE j \in same : \A k \in same : k <= j].captions

\* _repair: one result for each task, with its id.
Repaired(results, tasks) ==
    [i \in DOMAIN tasks |->
        LET found == Existing(results, tasks[i].id) IN
        [id       |-> tasks[i].id,
         captions |-> [s \in DOMAIN found \cup Requires(tasks[i]) |->
             IF s \in DOMAIN found /\ (s \notin Requires(tasks[i]) \/ found[s] \notin {Blank, Object})
             THEN found[s] ELSE Plain]]]

ToWrite(results, tasks) == IF Valid(results, tasks) THEN results ELSE Repaired(results, tasks)
===============================================================================
