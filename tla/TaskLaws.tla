------------------------------- MODULE TaskLaws -------------------------------
(***************************************************************************)
(* What the pure rules of Track 1 come to, evaluated over bounded inputs   *)
(* before the behaviours of MCTrack1Executor are explored.                 *)
(***************************************************************************)
LOCAL INSTANCE Integers
LOCAL INSTANCE Sequences
LOCAL INSTANCE FiniteSets

Arithmetic == INSTANCE ArithmeticRules
Answering  == INSTANCE AnswerRules
Tasking    == INSTANCE TaskRules

-----------------------------------------------------------------------------
(* The reference for the evaluator: sentences with their meaning *)

\* A sentence: its text, its postfix form, the precedence of its outermost
\* operator, and whether a power has a power as its unparenthesised exponent.
Numeral == [text |-> <<"7">>, meaning |-> << <<"7">> >>, level |-> 4,
            tower |-> FALSE]

Enclosed(text) == <<"(">> \o text \o <<")">>

\* Powers associate to the right, everything else to the left.
Combine(op, l, r) ==
    LET level == Arithmetic!Precedence(op)
        left  == l.level < level \/ (op = "**" /\ l.level = level)
        right == r.level < level \/ (op # "**" /\ r.level = level)
    IN  [text |-> (IF left THEN Enclosed(l.text) ELSE l.text)
                    \o <<op>> \o (IF right THEN Enclosed(r.text) ELSE r.text),
         meaning |-> l.meaning \o r.meaning \o << <<op>> >>,
         level |-> level,
         tower |-> \/ l.tower \/ r.tower
                   \/ op = "**" /\ r.level = level]

SentenceOps == {"+", "-", "*", "/", "**"}
Larger(S) == S \cup {Combine(op, l, r) : op \in SentenceOps, l \in S, r \in S}
Sentences == Larger(Larger({Numeral}))

-----------------------------------------------------------------------------
(* The evaluator *)

\* The texts over an alphabet, up to a length.
TextsOver(alphabet, length) == UNION {[1 .. n -> alphabet] : n \in 1 .. length}

\* Every sentence of up to four operands is read with the precedence and the
\* grouping it was written with, but for a power in the exponent of a power:
\* "2 ** 3 ** 2" is (2 ** 3) ** 2 = 64 (arithmetic_evaluator._shunting_yard).
PrecedenceLaw ==
    \A s \in Sentences :
        LET v == Arithmetic!Evaluate(s.text)
        IN  v.ok /\ (v.meaning = s.meaning <=> ~s.tower)

\* A "%" is the remainder only when a space precedes it: "7%3" is read as
\* 7 * 0.013, "7 % 3" as a remainder (_normalize_expression).
PercentLaw ==
    /\ \A t \in TextsOver({"7", "%", " "}, 5) :
        LET v == Arithmetic!Evaluate(t)
        IN  v.ok =>
              (<<"%">> \in {v.meaning[i] : i \in DOMAIN v.meaning} <=>
               \E i \in 2 .. Len(t) : t[i] = "%" /\ t[i - 1] # "7")
    /\ Arithmetic!Evaluate(<<"7", "%", "3">>).meaning
            = << <<"7">>, <<"0.01", "3">>, <<"*">> >>

\* A leading sign belongs to the number: "-7 ** 3" is the power of -7.  A "+"
\* sign is read by the tokenizer and refused by the shunting yard.
SignLaw ==
    /\ Arithmetic!Evaluate(<<"-", "7", "**", "3">>).meaning
            = << <<"-", "7">>, <<"3">>, <<"**">> >>
    /\ Arithmetic!Tokenize(<<"+", "7">>).ok
    /\ ~Arithmetic!Evaluate(<<"+", "7">>).ok

\* min and max take two arguments and round needs its digits, whatever the
\* comment above FUNCTIONS and the branch for round(x) say; an argument after
\* the first cannot be negative.
ArityLaw ==
    /\ Arithmetic!Evaluate(<<"min", "(", "7", ",", "3", ")">>).ok
    /\ \A t \in {<<"min", "(", "7", ",", "3", ",", "7", ")">>,
                 <<"round", "(", "7", ")">>,
                 <<"min", "(", "7", ",", "-", "3", ")">>} :
            ~Arithmetic!Evaluate(t).ok

\* Every operand is written once and every operator finds its operands, yet
\* "(7)(3)+" is accepted: the yard does not look at the order of tokens.
PostfixAccepted ==
    Arithmetic!Evaluate(<<"(", "7", ")", "(", "3", ")", "+">>).ok

\* What calculate() answers, evaluate() answers too; "7--3" is answered by
\* evaluate() only.
CalculateLaw ==
    /\ \A t \in TextsOver({"7", "-", "(", ")", "+"}, 4) :
        Arithmetic!Calculate(t) = "success" =>
            Arithmetic!Evaluate(t).ok /\ ~Arithmetic!Unsafe(t)
    /\ Arithmetic!Evaluate(<<"7", "-", "-", "3">>).ok
    /\ Arithmetic!Calculate(<<"7", "-", "-", "3">>) = "unsupported_token"
    /\ Arithmetic!Calculate(<<"7", "/", "0">>) = "division_by_zero"

\* A question without words is answered as it stands.  With a word in it, it
\* is the longest fragment that is answered: "3 apples + 7 pears" as "+ 7" or
\* nothing, "7 and 7 - 3" as "7 - 3" (arithmetic_detection).
FragmentLaw ==
    /\ \A body \in TextsOver({"7", "-", " ", "word"}, 5) :
        LET e == Arithmetic!ExtractExpression(body)
        IN  e # Arithmetic!NoExpression =>
              /\ Arithmetic!Calculable(e)
              /\ (e = Arithmetic!Trim(body)
                    <=> \A i \in DOMAIN body : body[i] # "word")
    /\ Arithmetic!DeterministicAnswer(<<"7", "word", "7", "-", "3">>).meaning
            = << <<"7">>, <<"3">>, <<"-">> >>

\* "20% of 50 + 7" is answered as 20% of 50, and "3 + 7% * 3", which the router
\* has evaluated as 3 + 0.07 * 3, is answered as (3 + 7 / 100) * 3.
PercentOfLaw ==
    /\ LET body == <<"3", "+", "7", "%", " ", "*", " ", "3">>
       IN  /\ Arithmetic!Evaluate(body).meaning
                = << <<"3">>, <<"7">>, <<"0.01">>, <<"*">>, <<"3">>, <<"*">>, <<"+">> >>
           /\ Arithmetic!DeterministicAnswer(body).meaning
                = << <<"3">>, <<"7">>, <<"100">>, <<"/">>, <<"+">>, <<"3">>, <<"*">> >>
    /\ Arithmetic!ExtractExpression(<<"7", "%", "of", "3", "+", "7">>)
            = <<"7", "%", " ", "*", " ", "3">>

ASSUME ArithmeticLaws ==
    /\ PrecedenceLaw /\ PercentLaw /\ SignLaw /\ ArityLaw
    /\ PostfixAccepted /\ CalculateLaw /\ FragmentLaw /\ PercentOfLaw

-----------------------------------------------------------------------------
(* Answers *)

Calculations ==
    {[numbers |-> n, ops |-> o, units |-> FALSE] :
        n \in [1 .. 3 -> 1 .. 4], o \in UNION {[1 .. k -> {"+", "-", "*"}] : k \in 1 .. 2}}

\* The value of a calculation of one or two operators.
WholeValue(p) ==
    LET Do(op, x, y) == Answering!Operate(op, x, y)
        n == p.numbers
    IN  IF Len(p.ops) = 1 THEN Do(p.ops[1], n[1], n[2])
        ELSE IF p.ops[2] = "*" THEN Do(p.ops[1], n[1], n[2] * n[3])
        ELSE Do(p.ops[2], Do(p.ops[1], n[1], n[2]), n[3])

\* The right answer to "2 + 3 * 4" is refused and 5 is accepted: only the first
\* operation is recomputed (_validate_mathematical_reasoning).
RecomputationLaw ==
    \A p \in Calculations :
        LET says(v) == [blank |-> FALSE, numbers |-> <<v>>, units |-> FALSE]
        IN  /\ Answering!MathErrors(p, says(Answering!RecomputedValue(p))) = {}
            /\ Answering!MathErrors(p, says(WholeValue(p))) = {}
                    <=> WholeValue(p) = Answering!RecomputedValue(p)

SentimentAnswers ==
    [form : Answering!Forms, word : DOMAIN Answering!Mapped \cup {"fine", "number"},
     mentions : SUBSET Answering!Labels]

\* A label with its justification is refused, although the comment says it is
\* expected; so are the abbreviations the tool knows.  In JSON the label that
\* the text mentions need not be the one the field has.
SentimentLaw ==
    /\ \A a \in SentimentAnswers :
        Answering!SentimentErrors(a) = {} =>
            \/ a.form = "bare" /\ a.word \in Answering!Labels
            \/ a.form = "json" /\ a.mentions # {}
    /\ \E a \in SentimentAnswers :
        /\ Answering!SentimentErrors(a) = {}
        /\ Answering!Mapped[a.word] \notin a.mentions

\* A text of 30 words copied as it stands is no copy: the prompt has the two
\* words of the instruction as well (summary_checker.is_copy_of_source).
CopyLaw ==
    LET p == [words |-> 1 .. 32, limit_words |-> 0, limit_sentences |-> 1]
        a == [words |-> 3 .. 32, count |-> 40, sentences |-> 1]
    IN  /\ Answering!SummaryErrors(p, a) = {}
        /\ Answering!SummaryErrors([p EXCEPT !.words = 3 .. 32], a)
                = {"copy", "unbounded"}

Items == [object : BOOLEAN, type : {"none", "number", "person", "date", "weapon"},
          value : {"none", "number", "empty", "Ada"}, span : {"none", "wrong"}]
EntityAnswers ==
    [form : {"array", "lines"}, items : UNION {[1 .. n -> Items] : n \in 0 .. 1}]
      \cup [form : {"array", "lines"},
            items : [1 .. 2 -> {i \in Items : i.object /\ i.span = "none"
                                                /\ i.value \in {"none", "Ada"}}]]

\* The checks category_validator makes after the tool's never fail, and an
\* array in a markdown fence is refused.
EntityLaw ==
    /\ \A a \in EntityAnswers : Answering!NerErrors(a) = Answering!NerToolErrors(a)
    /\ Answering!NerErrors([form |-> "fenced", items |-> << >>]) # {}

Codes == [defines : BOOLEAN, bracketed : BOOLEAN, functions : BOOLEAN,
          is_python : BOOLEAN, is_json : BOOLEAN, length : {0, 8}]

\* Some code is always found.  A class in a language other than Python is a
\* syntax error, and prose around a fenced block is not looked at.
CodeLaw ==
    LET said(blocks, whole) == [blocks |-> blocks, whole |-> whole]
    IN  /\ \A b \in Codes, w \in Codes :
            "no_code" \notin Answering!CodeErrors(said(<<b>>, w))
        /\ \A b \in Codes, w \in Codes :
            b.length > 0 /\ b.defines /\ ~b.is_python =>
                Answering!CodeErrors(said(<<b>>, w)) # {}
        /\ \A b \in Codes, v \in Codes, w \in Codes :
            b.length > 0 =>
                Answering!CodeErrors(said(<<b>>, v)) = Answering!CodeErrors(said(<<b>>, w))

\* A question of five words is its own only option: "yes" is refused.  Claiming
\* both of two things that exclude each other is no contradiction, quoting the
\* rule is one (logic_checker).
LogicLaw ==
    LET line == [marked |-> FALSE, short |-> TRUE, heading |-> FALSE, text |-> "question"]
        c == [first |-> "X", second |-> "Y", second_with_verb |-> "Y cannot both"]
        short == [lines |-> <<line>>, exclusions |-> {}]
        long  == [lines |-> <<[line EXCEPT !.short = FALSE]>>, exclusions |-> {c}]
        says(parts) == [blank |-> FALSE, letter |-> 0, number |-> 0, text |-> "yes",
                        parts |-> parts]
    IN  /\ Answering!LogicErrors(short, says({})) = {"not_a_choice"}
        /\ \A parts \in SUBSET {"X", "Y", "Y cannot both"} :
            Answering!LogicErrors(long, says(parts)) # {}
                <=> {"X", "Y cannot both"} \subseteq parts

ASSUME AnswerLaws ==
    /\ RecomputationLaw /\ SentimentLaw /\ CopyLaw /\ EntityLaw /\ CodeLaw
    /\ LogicLaw

-----------------------------------------------------------------------------
(* Tasks *)

InputItems ==
    [object : {TRUE}, id : {"missing", "blank", "a", "b"}, text : {"blank", "text"}]
      \cup {[object |-> FALSE, id |-> "missing", text |-> "missing"]}

\* The tasks have distinct ids and every id of a well-formed item; an item is
\* dropped without a trace exactly when an earlier one has its id.
InputLaw ==
    \A items \in UNION {[1 .. n -> InputItems] : n \in 0 .. 3} :
        LET good == Tasking!Accepted(items)
            ids(S) == {items[i].id : i \in S}
        IN  /\ \A i, j \in good : items[i].id = items[j].id => i = j
            /\ ids(good) = ids(Tasking!WellFormed(items))
            /\ Tasking!InputValid(items) <=> good = DOMAIN items

Shapes ==
    [summary_word : BOOLEAN, code_signal : BOOLEAN, repair_word : {TRUE},
     starts_yes_no : BOOLEAN, says_yes_or_no : {FALSE}, logic_word : BOOLEAN,
     question : BOOLEAN, ifs : 0 .. 2, ends_in_question : BOOLEAN,
     starts_what : BOOLEAN, arithmetic : BOOLEAN, syllogism : BOOLEAN,
     question_starter : BOOLEAN]

\* The rule for a chain of premises is never reached: one "if" and a question
\* mark are enough for the rule before it.  Whether a calculation reaches the
\* evaluator's category depends on words like "before" beside it.
StructureLaw ==
    /\ \A p \in Shapes :
        Tasking!PossiblePrompt(p) => Tasking!Structural(p).method # "builtin_logic_chain"
    /\ \E p, q \in Shapes :
        /\ Tasking!PossiblePrompt(p) /\ Tasking!PossiblePrompt(q)
        /\ p = [q EXCEPT !.logic_word = TRUE] /\ q.arithmetic
        /\ Tasking!Structural(q).category = "mathematical_reasoning"
        /\ Tasking!Structural(p).category = "logical_reasoning"

Three == {"code_generation", "mathematical_reasoning", "factual_knowledge"}
Plain == [summary_word |-> FALSE, code_signal |-> FALSE, repair_word |-> FALSE,
          starts_yes_no |-> FALSE, says_yes_or_no |-> FALSE, logic_word |-> FALSE,
          question |-> FALSE, ifs |-> 0, ends_in_question |-> FALSE,
          starts_what |-> FALSE, arithmetic |-> FALSE, syllogism |-> FALSE,
          question_starter |-> FALSE]
WithTriggers(t, x, b, code, math) ==
    [f \in DOMAIN Plain \cup {"triggers", "anti", "builtin", "code_mark",
                               "math_mark", "quoted"} |->
        CASE f = "triggers" -> t [] f = "anti" -> x [] f = "builtin" -> b
          [] f = "code_mark" -> code [] f = "math_mark" -> math
          [] f = "quoted" -> FALSE [] OTHER -> Plain[f]]
TriggerPrompts ==
    {WithTriggers(t, x, b, code, math) :
        t \in [Three -> 0 .. 3], x \in [Three -> 0 .. 1],
        b \in {{}, {"code_generation", "factual_knowledge"}}, code \in BOOLEAN,
        math \in {FALSE}}
Orders == {o \in [1 .. 3 -> Three] : \A i, j \in 1 .. 3 : o[i] = o[j] => i = j}

\* A confidence is a fraction of 1, and 0 exactly when nothing matched.  The
\* order in which the directory lists the skill files decides between
\* categories of the same weight, and only between those.
SkillLaw ==
    /\ \A p \in TriggerPrompts, o \in Orders :
        LET v == Tasking!Classify(p, o)
        IN  /\ v.num <= v.den
            /\ v.num = 0 <=> v.category = "unknown"
    /\ \A p \in TriggerPrompts :
        LET chosen == {Tasking!Classify(p, o).category : o \in Orders}
        IN  \/ Cardinality(chosen) = 1
            \/ \A c, d \in chosen : Tasking!Weight(p, c) = Tasking!Weight(p, d)
    /\ \E p \in TriggerPrompts, o1, o2 \in Orders :
        Tasking!Classify(p, o1).category # Tasking!Classify(p, o2).category

\* With the shipped skills no template raises, and none states the limit or
\* the signature the prompt asks for: the parameters are extracted in vain.
TemplateLaw ==
    LET prompts == [signature : BOOLEAN, words : BOOLEAN, sentences : BOOLEAN]
        quiet(c, s) ==
            /\ Tasking!ChosenTemplate(c, s) = {}
            /\ \A p \in prompts : ~Tasking!BuildRaises(c, s, p)
        loud == [Tasking!SummarySkill EXCEPT !.default = "word_limit"]
    IN  /\ quiet("text_summarisation", Tasking!SummarySkill)
        /\ quiet("code_generation", Tasking!GenerationSkill)
        /\ \A c \in {"text_summarisation", "code_generation"} : quiet(c, Tasking!NoSkill)
        /\ \A p \in prompts :
            Tasking!BuildRaises("text_summarisation", loud, p)
                <=> ~(p.words \/ p.sentences)

ASSUME TaskRuleLaws ==
    InputLaw /\ StructureLaw /\ SkillLaw /\ TemplateLaw
==============================================================================
