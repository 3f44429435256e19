------------------------------ MODULE MoneyText ------------------------------
(***************************************************************************)
(* Amounts as a client writes and reads them: ParseMoney and FormatMinor   *)
(* of internal/domain/money.go, on either side of a wallet whose client    *)
(* deposits amounts it has typed and withdraws the balance it is shown.    *)
(*                                                                         *)
(* A text is the sequence of the parts its points divide it into, as       *)
(* strings.Split(amount, ".") would; white space can be in every part.  A  *)
(* currency is what NormalizeCurrency makes of the one a client gives.     *)
(***************************************************************************)
EXTENDS Integers, Sequences, SequencesExt

CONSTANTS
    Base,               \* ten
    MaxMinor,           \* math.MaxInt64
    currencyExponents,  \* the digits behind the point of each currency
    MaxFraction,        \* bound on the digits behind the point of a typed text
    Texts               \* the texts clients type

Digits == 0 .. Base - 1
Other  == Base
Space  == Base + 1

\* A digit, any other character, or white space.
Characters == Digits \cup {Other, Space}

ASSUME MoneyAssumption ==
    /\ Base \in Nat \ {0, 1} /\ MaxMinor \in Nat \ {0} /\ MaxFraction \in Nat
    /\ \A currency \in DOMAIN currencyExponents :
         currencyExponents[currency] \in 0 .. MaxFraction
    /\ "unsupported" \notin DOMAIN currencyExponents
    /\ Texts \subseteq Seq(Seq(Characters)) \ {<<>>}

\* Two digits behind the point, or none (money.go:10).
ASSUME ExponentsAssumption ==
    \A currency \in DOMAIN currencyExponents : currencyExponents[currency] \in {0, 2}

VARIABLES
    at,        \* what the client does next: "type", "credited", "shown", "withdrawn"
    currency,  \* the currency of its wallet
    balance,   \* the balance in minor units
    text,      \* the last text that went through ParseMoney
    error,     \* what came of it
    said       \* what the accepted texts amount to, in units of Base ^ -MaxFraction

vars == <<at, currency, balance, text, error, said>>

-----------------------------------------------------------------------------
(* The conversions                                                         *)

Zeros(n) == [i \in 1 .. n |-> 0]

Fraction(parts) == IF Len(parts) = 2 THEN parts[2] ELSE <<>>

digitsOnly(part) == \A i \in DOMAIN part : part[i] \in Digits

TrimLeft(part) ==
    LET from == CHOOSE i \in 1 .. Len(part) + 1 :
                  /\ \A j \in 1 .. i - 1 : part[j] = Space
                  /\ i <= Len(part) => part[i] # Space
    IN  SubSeq(part, from, Len(part))

TrimRight(part) ==
    LET to == CHOOSE i \in 0 .. Len(part) :
                /\ \A j \in i + 1 .. Len(part) : part[j] = Space
                /\ i > 0 => part[i] # Space
    IN  SubSeq(part, 1, to)

\* strings.TrimSpace: white space in front of the first part and behind the
\* last is dropped.
TrimSpace(parts) ==
    LET trimmed == [parts EXCEPT ![1] = TrimLeft(@)]
    IN  [trimmed EXCEPT ![Len(parts)] = TrimRight(@)]

\* strconv.ParseInt, without its bound
Number(digits) == FoldLeft(LAMBDA n, d : Base * n + d, 0, digits)

\* strconv.FormatInt
Numeral(n) ==
    LET numeral[m \in 0 .. n] ==
          IF m < Base THEN <<m>> ELSE Append(numeral[m \div Base], m % Base)
    IN  numeral[n]

\* Mutant: the fraction is not filled up.
MinorUnfilled(parts, exponent) == Number(parts[1] \o Fraction(parts))

Minor(parts, exponent) ==
    Number(parts[1] \o Fraction(parts) \o Zeros(exponent - Len(Fraction(parts))))

\* Mutant: a point may have nothing behind it.
AmountErrorBarePoint(parts, exponent) ==
    IF \/ Len(parts) > 2 \/ parts[1] = <<>>
       \/ Len(parts) = 2 /\ exponent = 0
       \/ Len(Fraction(parts)) > exponent
       \/ ~ digitsOnly(parts[1] \o Fraction(parts))
       \/ Minor(parts, exponent) = 0
      THEN "ErrInvalidAmount"
    ELSE IF Minor(parts, exponent) > MaxMinor THEN "ErrAmountOverflow"
    ELSE "none"

\* The error of ParseMoney, once the text is trimmed; a sign is a character
\* like any other.
AmountError(parts, exponent) ==
    IF \/ Len(parts) > 2 \/ parts[1] = <<>>
       \/ Len(parts) = 2 /\ (Fraction(parts) = <<>> \/ exponent = 0)
       \/ Len(Fraction(parts)) > exponent
       \/ ~ digitsOnly(parts[1] \o Fraction(parts))
       \/ Minor(parts, exponent) = 0
      THEN "ErrInvalidAmount"
    ELSE IF Minor(parts, exponent) > MaxMinor THEN "ErrAmountOverflow"
    ELSE "none"

ParseError(parts, c) ==
    IF c \notin DOMAIN currencyExponents THEN "ErrInvalidCurrency"
    ELSE AmountError(TrimSpace(parts), currencyExponents[c])

Parsed(parts, c) == Minor(TrimSpace(parts), currencyExponents[c])

\* Mutant: no zero in front of the point.
FormatMinorBare(minor, c) ==
    LET exponent == currencyExponents[c]
        padded   == Zeros(exponent - Len(Numeral(minor))) \o Numeral(minor)
        point    == Len(padded) - exponent
    IN  IF exponent = 0 THEN <<Numeral(minor)>>
        ELSE <<SubSeq(padded, 1, point), SubSeq(padded, point + 1, Len(padded))>>

\* Balances are never negative (WalletProperties!BalanceInRange).
FormatMinor(minor, c) ==
    LET exponent == currencyExponents[c]
        padded   == Zeros(exponent - Len(Numeral(minor)) + 1) \o Numeral(minor)
        point    == Len(padded) - exponent
    IN  IF exponent = 0 THEN <<Numeral(minor)>>
        ELSE <<SubSeq(padded, 1, point), SubSeq(padded, point + 1, Len(padded))>>

-----------------------------------------------------------------------------
(* The client and its wallet                                               *)

\* The number a text of digits stands for, in units of Base ^ -MaxFraction.
Denoted(parts) ==
    Number(parts[1] \o Fraction(parts) \o Zeros(MaxFraction - Len(Fraction(parts))))

Init ==
    /\ at = "type" /\ currency \in DOMAIN currencyExponents
    /\ balance = 0 /\ text = <<>> /\ error = "none" /\ said = 0

\* AddMinor
Credited(minor) ==
    IF minor <= 0 THEN "ErrInvalidAmount"
    ELSE IF balance > MaxMinor - minor THEN "ErrAmountOverflow"
    ELSE "none"

Deposit(typed, c) ==
    LET minor  == Parsed(typed, c)
        parsed == ParseError(typed, c)
        e      == IF parsed # "none" THEN parsed ELSE Credited(minor)
    IN  /\ at = "type"
        /\ at' = "credited"
        /\ text' = typed /\ error' = e
        /\ balance' = IF e = "none" THEN balance + minor ELSE balance
        /\ said' = IF e = "none" THEN said + Denoted(TrimSpace(typed)) ELSE said
        /\ UNCHANGED currency

\* presentWallet
Show ==
    /\ at = "credited"
    /\ at' = "shown"
    /\ text' = FormatMinor(balance, currency) /\ error' = "none"
    /\ UNCHANGED <<currency, balance, said>>

TypeAgain ==
    /\ at \in {"shown", "withdrawn"}
    /\ at' = "type" /\ text' = <<>> /\ error' = "none"
    /\ UNCHANGED <<currency, balance, said>>

\* The client copies what it is shown into a withdrawal.
WithdrawShown ==
    LET e == ParseError(text, currency) IN
    /\ at = "shown" /\ balance > 0
    /\ at' = "withdrawn" /\ error' = e
    /\ balance' = IF e = "none" /\ Parsed(text, currency) <= balance
                    THEN balance - Parsed(text, currency) ELSE balance
    /\ said' = IF balance' = balance THEN said ELSE said - Denoted(TrimSpace(text))
    /\ UNCHANGED <<currency, text>>

Next ==
    \/ \E typed \in Texts, c \in {currency, "unsupported"} : Deposit(typed, c)
    \/ Show \/ TypeAgain \/ WithdrawShown

Spec == Init /\ [][Next]_vars

-----------------------------------------------------------------------------
(* Properties                                                              *)

Nonzero(part) == \E i \in DOMAIN part : part[i] # 0

\* openapi.yaml:995: ^0*[1-9][0-9]*$
PositiveIntegerAmount(parts) ==
    Len(parts) = 1 /\ digitsOnly(parts[1]) /\ Nonzero(parts[1])

\* openapi.yaml:988: ^(?:0*[1-9][0-9]*(?:\.[0-9]{1,2})?|0+\.(?:[0-9]?[1-9]|[1-9]0))$
PositiveDecimalAmount(parts) ==
    \/ PositiveIntegerAmount(parts)
    \/ /\ Len(parts) = 2 /\ digitsOnly(parts[1]) /\ digitsOnly(parts[2])
       /\ Len(parts[2]) \in 1 .. 2
       /\ \/ Nonzero(parts[1])
          \/ parts[1] # <<>> /\ Nonzero(parts[2])

Documented(parts) ==
    IF currencyExponents[currency] = 0 THEN PositiveIntegerAmount(parts)
                                       ELSE PositiveDecimalAmount(parts)

\* ParseMoney takes what the patterns openapi.yaml gives to clients allow, if
\* it is not too large, and beside it only such a text with white space around
\* it, which no pattern allows.
AcceptedAsDocumented ==
    at = "credited" /\ error # "ErrInvalidCurrency" =>
      /\ Documented(text) => error # "ErrInvalidAmount"
      /\ (error # "ErrInvalidAmount") = Documented(TrimSpace(text))

\* README.md:500: conversions are exact.  The balance a client is shown is, as
\* a number, the sum of the amounts it has typed, whatever their notation, less
\* what it has withdrawn.
ShownIsTheSum == at = "shown" => Denoted(text) = said

\* A client that asks for the very balance it is shown gets it, and leaves
\* nothing.
ShownCanBeWithdrawn == at = "withdrawn" => error = "none" /\ balance = 0
=============================================================================
