---------------------------- MODULE MCCaptionBatch ----------------------------
(***************************************************************************)
(* Two styles, one of them humorous_non_tech; captions of the model that   *)
(* pass, that sound technical or that the context denies.                  *)
(***************************************************************************)
EXTENDS CaptionBatch

MCStyles == {"formal", "humorous_non_tech"}
MCWords  == {"kitten walks", "kitten compiles", "kitten owned"}
MCJargon == {"kitten compiles"}

Input(type, name, styles, url, shape) ==
    [id |-> [type |-> type, name |-> name], styles |-> styles, url |-> url, shape |-> shape]

Plainly == Input("string", "a", MCStyles, TRUE, "object")

\* A good task alone, and with a task that has a number for an id, no usable id,
\* the same id, no styles, one style and no url, or that is no object; and two
\* tasks whose ids are printed alike.
MCInputs == {<<>>, <<Plainly>>} \cup {<<Plainly, other>> : other \in {
    Input("number", "7", MCStyles, TRUE, "object"),
    Input("none", "none", MCStyles, TRUE, "object"),
    Plainly,
    Input("number", "7", {}, FALSE, "object"),
    Input("string", "b", {"formal"}, TRUE, "object"),
    Input("string", "b", {}, FALSE, "other")}}
    \cup {<<Plainly, Input("number", "7", {}, FALSE, "object"),
            Input("string", "b", {"formal"}, FALSE, "object")>>,
          <<Input("string", "7", MCStyles, TRUE, "object"),
            Input("number", "7", {"formal"}, TRUE, "object")>>}

MCWeak == [wordless |-> FALSE, mentioning |-> {Plain}, denied |-> {}]
MCContexts ==
    {MCWeak,
     [wordless |-> FALSE, mentioning |-> {Model(w) : w \in MCWords}, denied |-> {Model("kitten owned")}],
     [wordless |-> TRUE, mentioning |-> {}, denied |-> {}]}
===============================================================================
