SPECIFICATION Spec
CONSTANTS
    USD = USD
    JPY = JPY
    Base = 10
    MaxMinor = 127
    currencyExponents <- Exponents
    MaxFraction = 3
    Typed = {0, 5}
    Texts <- MCTexts
INVARIANTS
    AcceptedAsDocumented
    ShownIsTheSum
    ShownCanBeWithdrawn
