--------------------------- MODULE ArithmeticRules ---------------------------
(***************************************************************************)
(* The deterministic arithmetic of Track 1: which expression a prompt is   *)
(* taken to ask for (arithmetic_detection) and what the evaluator makes of *)
(* it (tools/arithmetic_evaluator).  Its answer is never validated and no  *)
(* model sees it.                                                          *)
(*                                                                         *)
(* A text is a sequence of lexemes.  A token is a sequence of lexemes too, *)
(* so that the digits the normalisation glues together and the sign the    *)
(* tokenizer takes into a number can be told apart.  An expression means   *)
(* its postfix form: values are left out, a zero divisor only counts when  *)
(* it is written as one.                                                   *)
(***************************************************************************)
EXTENDS Naturals, Sequences, FiniteSets

Numerals  == {"7", "3", "0", "100", "0.01"}
Operators == {"+", "-", "*", "/", "//", "%", "**"}
Signs     == {"+", "-"}
Functions2 == {"min", "round"}      \* the FUNCTIONS of arity two
Functions1 == {"abs", "sqrt"}
Callables == Functions1 \cup Functions2

Precedence(op) == CASE op \in Signs -> 1 [] op = "**" -> 3 [] op \in Operators -> 2
                    [] OTHER -> 0

IsNumber(token)   == token[Len(token)] \in Numerals
IsOperator(token) == Len(token) = 1 /\ token[1] \in Operators
IsCallable(token) == Len(token) = 1 /\ token[1] \in Callables

-----------------------------------------------------------------------------
(* _normalize_expression and tokenize *)

\* A number written directly before a "%" is taken for a percentage, and what
\* follows the "%" is glued to the 0.01 that replaces it.
PercentToFactor(text) ==
    LET out[i \in 0 .. Len(text)] ==
            IF i = 0 THEN << >>
            ELSE out[i - 1] \o
                 (IF text[i] = "%" /\ i > 1 /\ text[i - 1] \in Numerals
                  THEN <<" ", "*", " ", "0.01">> ELSE <<text[i]>>)
    IN  out[Len(text)]

Normalize(text) ==
    LET caret(x) == IF x = "^" THEN "**" ELSE x
        spaced   == SelectSeq(PercentToFactor(text), LAMBDA x : x # " ")
    IN  [i \in DOMAIN spaced |-> caret(spaced[i])]

Bad == [ok |-> FALSE, tokens |-> << >>]

\* One lexeme: digits extend the number before them, a sign that follows
\* nothing, an opening parenthesis or an operator belongs to the number after
\* it, and a function must be called.
TakeLexeme(s, expr, i) ==
    LET x       == expr[i]
        unary(j) == /\ expr[j] \in Signs
                    /\ j > 1 => expr[j - 1] \in Operators \cup {"("}
        next(y) == [s EXCEPT !.tokens = Append(@, <<y>>)]
        glue    == [s EXCEPT !.tokens[Len(s.tokens)] = Append(@, x)]
        follows(S) == i < Len(expr) /\ expr[i + 1] \in S
    IN  IF ~s.ok THEN s
        ELSE IF x \in Numerals
             THEN IF i > 1 /\ (expr[i - 1] \in Numerals \/ unary(i - 1))
                  THEN glue ELSE next(x)
        ELSE IF x \in Signs /\ unary(i)
             THEN IF follows(Numerals) THEN next(x) ELSE Bad
        ELSE IF x \in Callables
             THEN IF follows({"("}) THEN next(x) ELSE Bad
        ELSE IF x \in Operators \cup {"(", ")", ","} THEN next(x) ELSE Bad

Tokenize(expr) ==
    LET scan[i \in 0 .. Len(expr)] ==
            IF i = 0 THEN [ok |-> TRUE, tokens |-> << >>]
            ELSE TakeLexeme(scan[i - 1], expr, i)
    IN  scan[Len(expr)]

-----------------------------------------------------------------------------
(* _shunting_yard *)

Yard == [ok |-> TRUE, out |-> << >>, stack |-> << >>]

\* Move the top of the stack to the output as long as Moves holds of it.
PopWhile(s, Moves(_)) ==
    LET stays == {j \in DOMAIN s.stack : ~Moves(s.stack[j])}
        base  == IF stays = {} THEN 0 ELSE CHOOSE j \in stays : \A k \in stays : k <= j
        n     == Len(s.stack)
    IN  [s EXCEPT !.out = @ \o [k \in 1 .. n - base |-> s.stack[n + 1 - k]],
                  !.stack = SubSeq(@, 1, base)]

Push(s, token) == [s EXCEPT !.stack = Append(@, token)]
Drop(s)        == [s EXCEPT !.stack = SubSeq(@, 1, Len(@) - 1)]
ToOutput(s, token) == [s EXCEPT !.out = Append(@, token)]
Refuse(s)      == [s EXCEPT !.ok = FALSE]

Inside(token) == token # <<"(">>

CloseParenthesis(s) ==
    LET popped == PopWhile(s, Inside)
        rest   == Drop(popped)
        top    == rest.stack[Len(rest.stack)]
    IN  IF popped.stack = << >> THEN Refuse(s)
        ELSE IF rest.stack # << >> /\ IsCallable(top) THEN Drop(ToOutput(rest, top))
        ELSE rest

Comma(s) ==
    LET popped == PopWhile(s, Inside)
    IN  IF popped.stack = << >> THEN Refuse(s) ELSE popped

\* An operator first moves those of the same or a higher precedence to the
\* output, "**" included: every operator associates to the left.
Infix(s, token) ==
    LET binds(t) == t # <<"(">> /\ Precedence(t[1]) >= Precedence(token[1])
    IN  Push(PopWhile(s, binds), token)

\* A number with a "+" sign does not match NUMBER_PATTERN: it is no token the
\* yard knows.
TakeToken(s, token) ==
    IF ~s.ok THEN s
    ELSE IF IsNumber(token) /\ token[1] # "+" THEN ToOutput(s, token)
    ELSE IF IsCallable(token) \/ token = <<"(">> THEN Push(s, token)
    ELSE IF token = <<")">> THEN CloseParenthesis(s)
    ELSE IF token = <<",">> THEN Comma(s)
    ELSE IF IsOperator(token) THEN Infix(s, token)
    ELSE Refuse(s)

ShuntingYard(tokens) ==
    LET run[i \in 0 .. Len(tokens)] ==
            IF i = 0 THEN Yard ELSE TakeToken(run[i - 1], tokens[i])
        end == run[Len(tokens)]
        all(t) == TRUE
    IN  IF \E j \in DOMAIN end.stack : end.stack[j] = <<"(">>
        THEN Refuse(end) ELSE PopWhile(end, all)

-----------------------------------------------------------------------------
(* _evaluate_postfix, evaluate and calculate *)

Arity(token) == IF IsCallable(token) /\ token[1] \in Functions1 THEN 1 ELSE 2

\* The stack of operands: a numeral as written, "value" for a result.
Apply(s, token) ==
    LET n == Len(s.stack)
    IN  IF ~s.ok THEN s
        ELSE IF IsNumber(token) THEN [s EXCEPT !.stack = Append(@, token)]
        ELSE IF n < Arity(token) THEN [s EXCEPT !.ok = FALSE]
        ELSE IF token[1] \in {"/", "//", "%"} /\ s.stack[n] = <<"0">>
             THEN [s EXCEPT !.ok = FALSE, !.zero = TRUE]
        ELSE [s EXCEPT !.stack = Append(SubSeq(@, 1, n - Arity(token)), <<"value">>)]

EvaluatePostfix(postfix) ==
    LET run[i \in 0 .. Len(postfix)] ==
            IF i = 0 THEN [ok |-> TRUE, zero |-> FALSE, stack |-> << >>]
            ELSE Apply(run[i - 1], postfix[i])
        end == run[Len(postfix)]
    IN  [end EXCEPT !.ok = @ /\ Len(end.stack) = 1]

Evaluate(text) ==
    LET lexed == Tokenize(Normalize(text))
        yard  == ShuntingYard(lexed.tokens)
        value == EvaluatePostfix(yard.out)
    IN  [ok      |-> lexed.ok /\ yard.ok /\ value.ok,
         zero    |-> lexed.ok /\ yard.ok /\ value.zero,
         meaning |-> yard.out]

\* The constructs calculate() refuses that a text of these lexemes can hold:
\* "++" and "--".  evaluate() does not look for them.
Unsafe(text) ==
    \E i \in 1 .. Len(text) - 1 : text[i] \in Signs /\ text[i + 1] = text[i]

MaxTokens == 200    \* MAX_TOKENS

Calculate(text) ==
    LET value == Evaluate(text)
    IN  IF \A i \in DOMAIN text : text[i] = " " THEN "invalid_expression"
        ELSE IF Unsafe(text) THEN "unsupported_token"
        ELSE IF /\ Tokenize(Normalize(text)).ok
                /\ Len(Tokenize(Normalize(text)).tokens) > MaxTokens
             THEN "complexity_exceeded"
        ELSE IF value.ok THEN "success"
        ELSE IF value.zero THEN "division_by_zero" ELSE "invalid_expression"

-----------------------------------------------------------------------------
(* extract_arithmetic_expression: the body is what follows "calculate",    *)
(* "what is" and the like; a word is any run of letters.                   *)

\* The characters a candidate is cut from; letters end it.
Allowed == Numerals \cup Operators \cup {"^", "(", ")", " "}

Trim(text) ==
    LET solid == {i \in DOMAIN text : text[i] # " "}
    IN  IF solid = {} THEN << >>
        ELSE SubSeq(text, CHOOSE i \in solid : \A j \in solid : i <= j,
                          CHOOSE i \in solid : \A j \in solid : j <= i)

\* The maximal runs of allowed characters, as intervals of positions.
Runs(body) ==
    {r \in (DOMAIN body) \X (DOMAIN body) :
        /\ r[1] <= r[2]
        /\ \A i \in r[1] .. r[2] : body[i] \in Allowed
        /\ r[1] > 1 => body[r[1] - 1] \notin Allowed
        /\ r[2] < Len(body) => body[r[2] + 1] \notin Allowed}

Candidate(body, r) == Trim(SubSeq(body, r[1], r[2]))

Calculable(text) ==
    /\ \E i \in DOMAIN text : text[i] \in Numerals
    /\ \E i \in DOMAIN text : text[i] \in Operators \cup {"^"}

\* "7% of 3", the first one: the rest of the sentence is dropped.
PercentOf(body) ==
    {i \in 1 .. Len(body) - 3 :
        /\ body[i] \in Numerals /\ body[i + 1] = "%"
        /\ body[i + 2] = "of" /\ body[i + 3] \in Numerals}

NoExpression == << >>

ExtractExpression(body) ==
    LET fit == {r \in Runs(body) : Calculable(Candidate(body, r))}
        length(r) == Len(Candidate(body, r))
        best == CHOOSE r \in fit : \A q \in fit :
                    length(q) < length(r) \/ (length(q) = length(r) /\ r[1] <= q[1])
        p    == CHOOSE i \in PercentOf(body) : \A j \in PercentOf(body) : i <= j
    IN  IF \E i \in DOMAIN body : body[i] = "rounded" THEN NoExpression
        ELSE IF PercentOf(body) # {}
             THEN <<body[p], "%", " ", "*", " ", body[p + 3]>>
        ELSE IF fit = {} THEN NoExpression ELSE Candidate(body, best)

\* execute_task encloses what precedes the first "% *", divided by 100.
PercentRewritten(text) ==
    LET cuts == {i \in 1 .. Len(text) - 2 :
                    text[i] = "%" /\ text[i + 1] = " " /\ text[i + 2] = "*"}
        cut  == CHOOSE i \in cuts : \A j \in cuts : i <= j
    IN  IF cuts = {} THEN text
        ELSE <<"(">> \o SubSeq(text, 1, cut - 1) \o <<" ", "/", " ", "100", ")", " ", "*">>
                \o SubSeq(text, cut + 3, Len(text))

\* The evaluator's answer, which is given when there is one.
DeterministicAnswer(body) == Evaluate(PercentRewritten(ExtractExpression(body)))
==============================================================================
