------------------------------- MODULE MCMoney -------------------------------
(***************************************************************************)
(* Every text of at most two parts made of a few characters, the short     *)
(* ones with white space anywhere, the empty text, and some with two       *)
(* points.                                                                 *)
(***************************************************************************)
EXTENDS MoneyText

CONSTANTS USD, JPY, Typed

Exponents == USD :> 2 @@ JPY :> 0

Printed == Typed \cup {Other}

Upto(n, characters) == UNION {[1 .. k -> characters] : k \in 0 .. n}

Spaced == Upto(2, Printed \cup {Space})

MCTexts ==
    {<<whole>> : whole \in Spaced}
    \cup {<<whole, fraction>> : whole \in Upto(2, Printed), fraction \in Upto(MaxFraction, Printed)}
    \cup {<<whole, fraction>> : whole \in Spaced,
            fraction \in {<<>>, <<5>>, <<Space>>, <<5, Space>>, <<Space, 5>>}}
    \cup {<<<<5>>, <<5>>, <<5>>>>, <<<<Space>>, <<>>, <<Space>>>>}
=============================================================================
