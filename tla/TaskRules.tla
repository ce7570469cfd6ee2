------------------------------- MODULE TaskRules -------------------------------
(***************************************************************************)
(* What Track 1 decides about a task before a model sees it: which items   *)
(* of tasks.json are tasks (input_validation), which category a prompt has *)
(* (classifier) and which template it is put into (prompt_builder).        *)
(*                                                                         *)
(* A prompt is the record of the features the classifier looks for; a      *)
(* confidence is a fraction.                                               *)
(***************************************************************************)
EXTENDS Naturals, Sequences, FiniteSets

-----------------------------------------------------------------------------
(* input_validation *)

\* What can be wrong with an item, in the order validate() looks for it.
ItemFault(item) ==
    CASE ~item.object           -> "not_an_object"
      [] item.id = "missing"    -> "missing_id"
      [] item.id = "number"     -> "id_not_a_string"
      [] item.id = "blank"      -> "empty_id"
      [] item.text = "missing"  -> "missing_prompt"
      [] item.text = "number"   -> "prompt_not_a_string"
      [] item.text = "blank"    -> "empty_prompt"
      [] OTHER                  -> "none"

WellFormed(items) == {i \in DOMAIN items : ItemFault(items[i]) = "none"}
Malformed(items)  == DOMAIN items \ WellFormed(items)

\* The first task with an id is kept; the others appear neither among the
\* tasks nor among the malformed ones.
Accepted(items) ==
    {i \in WellFormed(items) :
        \A j \in WellFormed(items) : items[j].id = items[i].id => i <= j}

InputValid(items) == Malformed(items) = {} /\ Accepted(items) = WellFormed(items)

-----------------------------------------------------------------------------
(* classifier *)

CodeCategories == {"code_generation", "code_debugging"}
Learned ==      \* categories with a skill file; the other two differ only in name
    CodeCategories \cup {"mathematical_reasoning", "text_summarisation",
                         "logical_reasoning", "factual_knowledge"}

\* A prompt the features of which can occur together: a question that ends in
\* a question mark has one, "if" is one of the words of logic, and an
\* arithmetic expression is only extracted after "what is", "calculate" and
\* the like.
PossiblePrompt(p) ==
    /\ p.ends_in_question => p.question
    /\ p.starts_yes_no => p.question
    /\ p.ifs > 0 => p.logic_word
    /\ p.starts_yes_no => ~p.starts_what /\ ~p.arithmetic

\* Python's `count - 2 * anti`, at least 0, when an anti-trigger matched.
Weight(p, c) ==
    IF p.anti[c] = 0 THEN p.triggers[c]
    ELSE IF p.triggers[c] > 2 * p.anti[c] THEN p.triggers[c] - 2 * p.anti[c] ELSE 0

\* The best category of the skills, in the order their files were read: a
\* later one must be strictly better.
BestSkill(p, order) ==
    CHOOSE c \in {order[i] : i \in DOMAIN order} :
        \A i, j \in DOMAIN order :
            order[i] = c /\ i # j =>
                \/ Weight(p, order[j]) < Weight(p, c)
                \/ Weight(p, order[j]) = Weight(p, c) /\ i < j

TotalTriggers(p, order) ==
    LET sum[i \in 0 .. Len(order)] ==
            IF i = 0 THEN 0 ELSE sum[i - 1] + p.triggers[order[i]]
    IN  sum[Len(order)]

Verdict(category, method, num, den) ==
    [category |-> category, method |-> method, num |-> num, den |-> den]

\* The structural rules, in the order they are tried.
Structural(p) ==
    IF p.summary_word
    THEN Verdict("text_summarisation", "structural_summary_precedence", 95, 100)
    ELSE IF p.code_signal /\ p.repair_word
    THEN Verdict("code_debugging", "structural_code_precedence", 95, 100)
    ELSE IF p.starts_yes_no \/ p.says_yes_or_no
    THEN Verdict("logical_reasoning", "builtin_yes_no", 80, 100)
    ELSE IF p.logic_word /\ p.question
    THEN Verdict("logical_reasoning", "structural_logic_precedence", 85, 100)
    ELSE IF p.ifs >= 2 /\ p.ends_in_question
    THEN Verdict("logical_reasoning", "builtin_logic_chain", 90, 100)
    ELSE IF p.starts_what /\ ~p.arithmetic
    THEN Verdict("factual_knowledge", "structural_factual_precedence", 85, 100)
    ELSE IF p.syllogism
    THEN Verdict("logical_reasoning", "structural_logic_precedence", 90, 100)
    ELSE IF p.arithmetic /\ p.question_starter
    THEN Verdict("mathematical_reasoning", "structural_override", 100, 100)
    ELSE Verdict("unknown", "none", 0, 1)

\* p.builtin: the categories whose built-in rule matches.
BuiltinOrder ==
    <<"mathematical_reasoning", "sentiment_classification",
      "named_entity_recognition", "code_generation", "code_debugging",
      "logical_reasoning", "text_summarisation", "factual_knowledge">>

Fallback(p) ==
    LET hits == {i \in DOMAIN BuiltinOrder : BuiltinOrder[i] \in p.builtin}
        first == CHOOSE i \in hits : \A j \in hits : i <= j
    IN  IF hits = {} THEN Verdict("unknown", "no_match_fallback", 0, 1)
        ELSE Verdict(BuiltinOrder[first], "builtin_fallback", 80, 100)

ClassifyDeterministic(p, order) ==
    LET rule == Structural(p)
        best == BestSkill(p, order)
    IN  IF rule.method # "none" THEN rule
        ELSE IF order # << >> /\ Weight(p, best) > 0
        THEN Verdict(best, "deterministic", Weight(p, best), TotalTriggers(p, order))
        ELSE Fallback(p)

\* _apply_structural_analysis, in tenths.
Adjustment(p, category) ==
    IF p.code_mark /\ category # "unknown"
    THEN IF category \in CodeCategories THEN 12 ELSE 8
    ELSE IF p.math_mark /\ category # "unknown"
    THEN IF category = "mathematical_reasoning" THEN 12 ELSE 8
    ELSE IF p.quoted /\ category = "text_summarisation" THEN 12 ELSE 10

\* classify: the category stands, the confidence is adjusted and capped at 1.
Classify(p, order) ==
    LET v   == ClassifyDeterministic(p, order)
        num == v.num * Adjustment(p, v.category)
        den == v.den * 10
    IN  IF num > den THEN [v EXCEPT !.num = 1, !.den = 1]
        ELSE [v EXCEPT !.num = num, !.den = den]

-----------------------------------------------------------------------------
(* prompt_builder *)

\* A template is the set of the fields it has besides the prompt.
\* text_summarisation.json and code_generation.json; NoTemplate for a key
\* without a template.
NoTemplate == {"no template"}

SummarySkill ==
    [default |-> "base_template", base |-> {},
     variants |-> [word_limit |-> {"limit"}, sentence_limit |-> {"limit"},
                   bullet_points |-> {}]]

GenerationSkill ==
    [default |-> "base_template", base |-> {},
     variants |-> [with_signature |-> {"signature"}, with_example |-> {},
                   complete_code |-> {}]]

\* A skill file that is missing, or has no prompt_procedure.
NoSkill == [default |-> "none", base |-> NoTemplate, variants |-> << >>]

\* The static templates of both categories.
StaticTemplates(category) ==
    IF category = "text_summarisation"
    THEN [base |-> {}, word_limit |-> {"limit"}, sentence_limit |-> {"limit"},
          bullet_points |-> {}]
    ELSE [base |-> {}, with_signature |-> {"signature"}, with_example |-> {},
          complete_code |-> {}]

TemplateKey(skill) == IF skill.default = "none" THEN "base" ELSE skill.default

SkillTemplate(skill, key) ==
    IF key # "base_template" /\ key \in DOMAIN skill.variants
    THEN skill.variants[key] ELSE skill.base

ChosenTemplate(category, skill) ==
    LET key    == TemplateKey(skill)
        static == StaticTemplates(category)
    IN  IF SkillTemplate(skill, key) # NoTemplate THEN SkillTemplate(skill, key)
        ELSE IF key \in DOMAIN static THEN static[key] ELSE static.base

\* _extract_parameters: the fields it can fill in for this prompt.
Parameters(category, p) ==
    IF category = "code_generation" /\ p.signature THEN {"signature"}
    ELSE IF category = "text_summarisation" /\ (p.words \/ p.sentences) THEN {"limit"}
    ELSE {}

\* template.format raises KeyError for a field without a parameter.
BuildRaises(category, skill, p) ==
    ~(ChosenTemplate(category, skill) \subseteq Parameters(category, p))
==============================================================================
