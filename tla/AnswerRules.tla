----------------------------- MODULE AnswerRules -----------------------------
(***************************************************************************)
(* When Track 1 accepts an answer: category_validator and the tools it     *)
(* asks.  A prompt and an answer are reduced, category by category, to the *)
(* features their validator reads; a validator yields the set of its       *)
(* errors, and an answer is valid when there are none.  ValidatorRaises    *)
(* stands for an exception, which nothing between the validator and the    *)
(* thread of the task catches.                                             *)
(***************************************************************************)
EXTENDS Integers, Sequences, FiniteSets

ValidatorRaises == {"raised"}

\* An error that is reported when a condition holds.
Report(error, condition) == IF condition THEN {error} ELSE {}

\* _validate_default, and the first check of most of the others.
DefaultErrors(a) == Report("empty", a.blank)

-----------------------------------------------------------------------------
(* Factual knowledge and mathematical reasoning *)

\* asks_list: "list" or "enumerate" occurs in the prompt.  listed: one of the
\* separators occurs in the answer, a comma or a hyphen among them.
FactualErrors(p, a) ==
    IF a.blank THEN {"empty"}
    ELSE Report("refusal", a.refuses)
           \cup Report("not_a_list", p.asks_list /\ ~a.listed)

Operate(op, x, y) == CASE op = "+" -> x + y [] op = "-" -> x - y [] op = "*" -> x * y

\* p.numbers and p.ops: the calculation in the prompt, in order.
\* The validator recomputes the first match of "number operator number".
RecomputedValue(p) == Operate(p.ops[1], p.numbers[1], p.numbers[2])

\* a.numbers: the numbers in the answer, in order; the first one counts.
MathErrors(p, a) ==
    IF a.blank THEN {"empty"}
    ELSE Report("no_number", a.numbers = << >>)
           \cup Report("wrong_value",
                       /\ p.ops # << >> /\ a.numbers # << >>
                       /\ a.numbers[1] # RecomputedValue(p))
           \cup Report("no_units", p.units /\ ~a.units)

-----------------------------------------------------------------------------
(* Sentiment *)

Labels == {"positive", "negative", "neutral"}

\* LABEL_MAPPINGS, in part.
Mapped == [positive |-> "positive", negative |-> "negative", neutral |-> "neutral",
           pos |-> "positive", sad |-> "negative"]

\* An answer: a bare word, a sentence that begins with one, or a JSON object
\* with a "sentiment" or "label" field, written with spaces or without.  a.word
\* is the word or the field ("number" when the field is not a string), and
\* a.mentions the labels that occur anywhere in the text.
Forms == {"bare", "sentence", "json", "compact_json"}

\* validate_sentiment_output: the whole text, or the field, must be a word
\* that LABEL_MAPPINGS knows.
LabelAccepted(a) ==
    /\ a.form # "sentence"
    /\ a.word \in DOMAIN Mapped
    /\ Mapped[a.word] \in Labels

SentimentErrors(a) ==
    LET words == IF a.form \in {"sentence", "json"} THEN 2 ELSE 1
    IN  IF a.form \in {"json", "compact_json"} /\ a.word = "number" THEN ValidatorRaises
        ELSE IF ~LabelAccepted(a) THEN {"invalid_label"}
        ELSE IF words = 1 /\ ~(a.form = "bare" /\ a.word \in Labels)
             THEN {"label_not_allowed"}
        ELSE Report("no_label_in_text", words > 1 /\ a.mentions = {})

-----------------------------------------------------------------------------
(* Summaries *)

StopWords == {"the", "of"}

\* is_copy_of_source: 95 % of the distinct words of the prompt, which is the
\* instruction and the text to summarise, occur in the summary.
IsCopy(p, a) ==
    /\ p.words # {} /\ a.words # {}
    /\ 100 * Cardinality(a.words \cap p.words) >= 95 * Cardinality(p.words)

\* check_boundedness: at most 30 % of the distinct words are new.
Unbounded(p, a) ==
    10 * Cardinality((a.words \ p.words) \ StopWords) > 3 * Cardinality(a.words)

\* p.limit_words and p.limit_sentences: the first "N words" and "N sentences"
\* in the prompt, 0 when there is none.
SummaryErrors(p, a) ==
    IF a.words = {} THEN {"empty"}
    ELSE Report("copy", IsCopy(p, a))
           \cup Report("too_many_words", p.limit_words > 0 /\ a.count > p.limit_words)
           \cup Report("too_many_sentences",
                       p.limit_sentences > 0 /\ a.sentences > p.limit_sentences)
           \cup Report("unbounded", IsCopy(p, a) \/ Unbounded(p, a))

-----------------------------------------------------------------------------
(* Named entities *)

SupportedTypes == {"person", "organization", "location", "date"}

\* An item of a JSON array: not an object, or its type, value and span, "none"
\* when missing.  A type that is not a string has no lower().
ItemErrors(item) ==
    IF ~item.object THEN {"not_an_object"}
    ELSE IF item.type = "none" THEN {"no_type"}
    ELSE IF item.value = "none" THEN {"no_value"}
    ELSE IF item.type = "number" THEN ValidatorRaises
    ELSE IF item.type \notin SupportedTypes THEN {"unsupported_type"}
    ELSE IF item.value \in {"empty", "number"} THEN {"invalid_value"}
    ELSE Report("invalid_span", item.span = "wrong")

Duplicates(items) ==
    \E i, j \in DOMAIN items :
        i # j /\ items[i].type = items[j].type /\ items[i].value = items[j].value

\* validate_json_output returns at the first item that has an error.
JsonErrors(items) ==
    LET wrong == {i \in DOMAIN items : ItemErrors(items[i]) # {}}
    IN  IF wrong # {}
        THEN ItemErrors(items[CHOOSE i \in wrong : \A j \in wrong : i <= j])
        ELSE Report("duplicate", Duplicates(items))

\* validate_text_output: every line is "type: value".
LineErrors(items) ==
    LET wrong == {i \in DOMAIN items : items[i].type \notin SupportedTypes
                                        \/ items[i].value = "none"}
    IN  IF wrong # {} THEN {"bad_line"} ELSE Report("duplicate", Duplicates(items))

\* validate_ner_output: what starts with a bracket is JSON.  An array in a
\* markdown fence does not, and its fence is a line without a colon.
NerToolErrors(a) ==
    CASE a.form = "blank"  -> {"empty"}
      [] a.form = "array"  -> JsonErrors(a.items)
      [] a.form = "broken" -> {"invalid_json"}
      [] a.form = "object" -> {"not_an_array"}
      [] a.form = "fenced" -> {"bad_line"}
      [] a.form = "lines"  -> LineErrors(a.items)

\* The checks category_validator repeats on the entities the tool returned:
\* their type, value and type field, and duplicates.
RepeatedErrors(items) ==
    Report("unsupported_type", \E i \in DOMAIN items : items[i].type \notin SupportedTypes)
      \cup Report("no_value", \E i \in DOMAIN items : items[i].value = "none")
      \cup Report("duplicate", Duplicates(items))

NerErrors(a) ==
    IF NerToolErrors(a) # {} THEN NerToolErrors(a) ELSE RepeatedErrors(a.items)

-----------------------------------------------------------------------------
(* Code *)

\* extract_code_from_text: the fenced blocks that are not empty, or else the
\* whole text.
ExtractCode(a) ==
    LET full == SelectSeq(a.blocks, LAMBDA b : b.length > 0)
    IN  IF full = << >> THEN <<a.whole>> ELSE full

\* detect_language looks for "def name(" or "class name" anywhere in the code,
\* then for brackets around it, then for "function name(".
DetectLanguage(code) ==
    IF code.defines THEN "python"
    ELSE IF code.bracketed THEN "json"
    ELSE IF code.functions THEN "javascript" ELSE "python"

SyntaxErrors(code) ==
    Report("syntax", \/ code.length = 0
                     \/ DetectLanguage(code) = "python" /\ ~code.is_python
                     \/ DetectLanguage(code) = "json" /\ ~code.is_json)

CodeErrors(a) ==
    LET codes == ExtractCode(a)
    IN  IF codes = << >> THEN {"no_code"}
        ELSE UNION {SyntaxErrors(codes[i]) : i \in DOMAIN codes}

Total(codes) ==
    LET sum[i \in 0 .. Len(codes)] ==
            IF i = 0 THEN 0 ELSE sum[i - 1] + codes[i].length
    IN  sum[Len(codes)]

DebuggingErrors(p, a) ==
    IF a.blank THEN {"empty"}
    ELSE CodeErrors(a)
           \cup Report("no_explanation", p.asks_why /\ ~a.multiline /\ a.length < 100)

\* p.function: the name the prompt asks for, or "none".
GenerationErrors(p, a) ==
    IF a.blank THEN {"empty"}
    ELSE CodeErrors(a)
           \cup Report("too_much_text",
                       p.only_code /\ 10 * Total(ExtractCode(a)) < 7 * a.length)
           \cup Report("no_function", p.function # "none" /\ p.function \notin a.names)

-----------------------------------------------------------------------------
(* Logic *)

\* A line of a prompt: an option with a marker, or one without; a line of five
\* words or less is an option as well, unless it is a heading.
IsCandidate(line) == line.marked \/ (line.short /\ ~line.heading)

Candidates(p) == SelectSeq(p.lines, IsCandidate)

\* validate_multiple_choice: a letter, the text of an option or its number.
ChoiceErrors(p, a) ==
    LET n == Len(Candidates(p))
        texts == {Candidates(p)[i].text : i \in 1 .. n}
    IN  Report("not_a_choice",
               /\ n > 0
               /\ \/ a.letter > n
                  \/ /\ a.letter = 0 /\ a.text \notin texts
                     /\ ~(1 <= a.number /\ a.number <= n))

\* A constraint "X and Y cannot both be true": it is cut at the "and", and
\* "cannot both" is removed from the part before it, where it does not occur.
Forbidden(c) == {c.first, c.second_with_verb}

\* detect_contradictions: the answer has both parts in it.
Contradictions(p, a) ==
    Report("contradiction",
           \E c \in p.exclusions : Forbidden(c) \subseteq a.parts)

LogicErrors(p, a) ==
    IF a.blank THEN {"empty"} ELSE ChoiceErrors(p, a) \cup Contradictions(p, a)
==============================================================================
