------------------------------ MODULE MCHoldBack ------------------------------
(* Small instances of HoldBack for TLC. *)
EXTENDS HoldBack

MCChar       == {"4", "9", " ", "x"}
MCDigits     == {"4", "9"}
MCSeparators == {" "}
MCAlnum      == {"4", "9", "x"}
MCLengths    == <<2>>

\* A card is two digits, grouped or not, and may take in what follows it in groups of
\* two; an address is of letters, and may end in a digit.
Card == [words |-> {<<a, b>> : a, b \in MCDigits} \cup {<<a, " ", b>> : a, b \in MCDigits}
                   \cup {<<a, b, " ", c>> : a, b, c \in MCDigits}
                   \cup {<<a, " ", b, c>> : a, b, c \in MCDigits},
         valid |-> {<<"4", "4">>, <<"4", " ", "4">>, <<"9", " ", "4">>},
         glued |-> {}, notBefore |-> MCDigits, notAfter |-> MCDigits, numeric |-> FALSE]
Address == [words |-> {<<"x", "x">>, <<"x", "x", "4">>}, valid |-> {<<"x", "x">>, <<"x", "x", "4">>},
            glued |-> {}, notBefore |-> {"x"}, notAfter |-> {"x"}, numeric |-> FALSE]
Forward == {Card, Address}

FewChar   == {"4", " ", "@", ")"}
FewDigits == {"4"}

\* A bare card, re-anchored by the rescue pass, and addresses that begin with digits.
Bare     == [words |-> {<<"4", "4">>}, valid |-> {<<"4", "4">>}, glued |-> {<<"4", "4">>},
             notBefore |-> {"4"}, notAfter |-> {"4"}, numeric |-> TRUE]
Numbered == LET w == {Append([i \in 1..n |-> "4"], "@") : n \in 1..6}
            IN [words |-> w, valid |-> w, glued |-> {}, notBefore |-> {}, notAfter |-> {},
                numeric |-> FALSE]
Rescued  == {Bare, Numbered}
=============================================================================
