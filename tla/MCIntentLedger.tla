--------------------------- MODULE MCIntentLedger ---------------------------
(* An instance of IntentLedger: a lettered choice without a recommendation, *)
(* a numbered one among lettered lines with one, and a numbered list that   *)
(* is prose.                                                                *)
EXTENDS IntentLedger

Line(label) == [label |-> label, recommended |-> FALSE]

MCOffers == {
    [lines |-> <<Line("a"), Line("b")>>, framed |-> FALSE, favours |-> "1"],
    [lines |-> <<Line("1"), Line("a"), Line("2"), Line("1")>>, framed |-> TRUE, favours |-> "2"],
    [lines |-> <<Line("1"), Line("2")>>, framed |-> FALSE, favours |-> NoLabel]}

MCReplies == {
    [kind |-> "label", label |-> "b"],
    [kind |-> "position", n |-> 1],
    [kind |-> "defer"],
    [kind |-> "other"]}
=============================================================================
