-------------------------- MODULE MCWalletFunding --------------------------
(* The TLC instance of WalletFunding: how the provider announces one deposit, of a    *)
(* token that needs a quote (k1) or of a stablecoin (k2).                             *)
EXTENDS WalletFunding

CONSTANTS u1, k1, k2, e1, e2, s1

ByOneUser == [k \in IntentKeys |-> u1]
OwnAsset  == [k \in IntentKeys |-> k]
OneEach   == [k \in IntentKeys |-> 1]

Token(event, sig, amount, usd) ==
    [key |-> k1, event |-> event, sig |-> sig, amount |-> amount, usd |-> usd]
Dollars(event, amount) ==
    [key |-> k2, event |-> event, sig |-> s1, amount |-> amount, usd |-> 0]

\* Two notices of one transfer, one of them without an event id
Signed == {Token(e1, s1, 1, 2), Token(NoEvent, s1, 1, 2)}

\* The same event without, and then with, the quote the asset needs
QuotedLate == {Token(e1, s1, 1, 0), Token(e1, s1, 1, 2)}

\* Nothing to recognise the deposit by
Anonymous == {Token(NoEvent, NoSig, 1, 2)}

\* One event about two transfers
OneEvent == {Token(e1, s1, 1, 2), Token(e1, NoSig, 1, 2)}

\* One transfer, announced with two amounts
Amended == {Token(e1, s1, 1, 2), Token(e2, s1, 2, 3)}

\* A stablecoin, announced with its amount and without
Stable == {Dollars(e1, 1), Dollars(e2, 0)}

AnyAnnouncement == {Signed, QuotedLate, Anonymous, OneEvent, Amended, Stable}
============================================================================
