------------------------------- MODULE Salary -------------------------------
(***************************************************************************)
(* parse_salary: which amounts it reads in the text of a posting.  A text  *)
(* is a sequence of tokens <<kind, length, value>>: runs of digits, and    *)
(* signs, of which a currency's symbol, its name, a space, a k and "x",    *)
(* any other word, are one each.  Amounts are in tenths: they may have one *)
(* decimal.                                                                *)
(***************************************************************************)
EXTENDS Naturals, FiniteSets, Sequences

CONSTANTS Amounts,  \* whole amounts that postings quote
          Absent    \* Python's None

ASSUME SalaryAssumption == Amounts \subseteq Nat /\ Absent \notin Nat

VARIABLES quote,  \* the posting: the amounts it quotes, their currency, the text
          salary  \* what parse_salary returns

salaryvars == <<quote, salary>>

SalaryInit == quote = Absent /\ salary = Absent

Digits(length, n) == <<"digits", length, n>>
Sign(c) == <<c, 0, 0>>

Is(s, p, kinds) == p \in DOMAIN s /\ s[p][1] \in kinds
IsDigits(s, p, lengths) == Is(s, p, {"digits"}) /\ s[p][2] \in lengths
-----------------------------------------------------------------------------
(* In the order they are looked for                                        *)
Currencies == <<"USD", "EUR", "GBP", "JPY">>
Symbols == <<"dollar", "euro", "pound", "yen">>  \* $ and its like

(* What a posting's nth currency is known by                               *)
Forms(n) == {Symbols[n], Currencies[n]}

CurrencyIn(s) ==
    LET found == {n \in DOMAIN Currencies : \E p \in DOMAIN s : s[p][1] \in Forms(n)}
    IN  IF found = {} THEN Absent
        ELSE Currencies[CHOOSE n \in found : \A m \in found : n <= m]
-----------------------------------------------------------------------------
(* (?<!\w)(\d{2,3}(?:,\d{3})+|\d+(?:\.\d+)?)(\s*[kK])?                     *)

(* A currency's name is a word, its symbol is none.                        *)
Words == {"k", "x"} \cup {Currencies[n] : n \in DOMAIN Currencies}

StartsNumber(s, p) == Is(s, p, {"digits"}) /\ ~Is(s, p - 1, Words)

(* How many groups of thousands follow the digits at p.                    *)
Groups(s, p) ==
    Cardinality({n \in 1 .. Len(s) : \A m \in 1 .. n :
                    Is(s, p + 2 * m - 1, {","}) /\ IsDigits(s, p + 2 * m, {3})})

(* How many of them the number that begins there takes.                    *)
GroupsRead(s, p) == IF IsDigits(s, p, {2, 3}) THEN Groups(s, p) ELSE 0

HasDecimal(s, p) == Is(s, p + 1, {"."}) /\ Is(s, p + 2, {"digits"})

(* Variant, wrong: the alternative without groups is tried first.          *)
EndOfPlain(s, p) == IF HasDecimal(s, p) THEN p + 3 ELSE p + 1

EndOfNumber(s, p) ==
    IF GroupsRead(s, p) > 0 THEN p + 1 + 2 * GroupsRead(s, p)
    ELSE IF HasDecimal(s, p) THEN p + 3
    ELSE p + 1

EndOfSuffix(s, q) ==
    IF Is(s, q, {"k"}) THEN q + 1
    ELSE IF Is(s, q, {" "}) /\ Is(s, q + 1, {"k"}) THEN q + 2
    ELSE q

Amount(s, p) ==
    LET value[n \in 0 .. GroupsRead(s, p)] ==  \* of n groups, commas left out
            IF n = 0 THEN s[p][3] ELSE 1000 * value[n - 1] + s[p + 2 * n][3]
        tenths == 10 * value[GroupsRead(s, p)] + IF HasDecimal(s, p) THEN s[p + 2][3] ELSE 0
        q == EndOfNumber(s, p)
    IN  tenths * (IF EndOfSuffix(s, q) > q THEN 1000 ELSE 1)

(* finditer: the search goes on after each match.                          *)
Numbers(s) ==
    LET from[p \in 1 .. Len(s) + 1] ==
            IF p > Len(s) THEN <<>>
            ELSE IF StartsNumber(s, p)
                 THEN <<Amount(s, p)>> \o from[EndOfSuffix(s, EndOfNumber(s, p))]
                 ELSE from[p + 1]
    IN  from[1]

Parsed(s) ==
    LET numbers == Numbers(s)
        two == {numbers[1], numbers[2]}
        least == CHOOSE n \in two : \A m \in two : n <= m
        most == CHOOSE n \in two : \A m \in two : m <= n
    IN  CASE Len(numbers) = 0 -> <<Absent, Absent, CurrencyIn(s)>>
          [] Len(numbers) = 1 -> <<numbers[1], Absent, CurrencyIn(s)>>
          [] Len(numbers) > 1 -> <<least, most, CurrencyIn(s)>>
-----------------------------------------------------------------------------
(* How postings write amounts                                              *)

(* The pattern tells runs of two and of three digits from others.          *)
Length(n) == IF n < 10 THEN 1 ELSE IF n < 100 THEN 2 ELSE IF n < 1000 THEN 3 ELSE 4
Whole(n) == <<Digits(Length(n), n)>>

Grouped[n \in Nat] ==
    IF n < 1000 THEN Whole(n)
    ELSE Grouped[n \div 1000] \o <<Sign(","), Digits(3, n % 1000)>>

(* In full, in thousands, or grouped.  Left out is what the pattern does   *)
(* not read: a single digit before the first comma, since 1,500 comes out  *)
(* as 1 and 500, and a word that begins with a k after the amount.         *)
Written(n) ==
    {Whole(n), Whole(n) \o <<Sign("."), Digits(1, 0)>>}
    \cup {Whole(n \div 1000) \o k : k \in
             IF n % 1000 = 0 THEN {<<Sign("k")>>, <<Sign(" "), Sign("k")>>} ELSE {}}
    \cup {Whole(n \div 1000) \o <<Sign("."), Digits(1, 5), Sign("k")>> : k \in
             IF n % 1000 = 500 THEN {1} ELSE {}}
    \cup {Grouped[m] : m \in IF Grouped[n][1][2] > 1 THEN {n} ELSE {}}

(* Before an amount a currency's name is a word of its own.  Left out is   *)
(* USD130000: the pattern does not read an amount right after a word.      *)
Leads(n) == {<<Sign(Symbols[n])>>, <<Sign(Currencies[n]), Sign(" ")>>}

(* What stands before, between and after the amounts of a range: the       *)
(* currency before each amount, before the first or after both.            *)
Frames(n, dash, rest) ==
    {<<lead, dash \o lead, rest>> : lead \in Leads(n)}
    \cup {<<lead, dash, rest>> : lead \in Leads(n)}
    \cup {<<<<>>, dash, <<Sign(" "), Sign(c)>> \o rest>> : c \in Forms(n)}

Dashes == {<<Sign("-")>>, <<Sign(" "), Sign("-"), Sign(" ")>>, <<Sign(" "), Sign("x"), Sign(" ")>>}
Rests == {<<>>, <<Sign(" "), Sign("x")>>}

(* A range, or one amount after the currency.                              *)
Quote ==
    /\ quote = Absent
    /\ \E a, b \in Amounts, n \in DOMAIN Currencies, dash \in Dashes, rest \in Rests :
       \E first \in Written(a), last \in Written(b) :
          LET Quoted(amounts, text) ==
                  [amounts |-> amounts, currency |-> Currencies[n], text |-> text]
          IN  \/ \E frame \in Frames(n, dash, rest) :
                    quote' = Quoted({a, b}, frame[1] \o first \o frame[2] \o last \o frame[3])
              \/ \E lead \in Leads(n) : quote' = Quoted({a}, lead \o first \o rest)
    /\ UNCHANGED salary

Parse ==
    /\ quote # Absent
    /\ salary = Absent
    /\ salary' = Parsed(quote.text)
    /\ UNCHANGED quote

SalaryNext == Quote \/ Parse

SalarySpec == SalaryInit /\ [][SalaryNext]_salaryvars
-----------------------------------------------------------------------------
(* A posting that quotes a range or an amount, in any of these forms and   *)
(* either order, is stored with its lowest and highest amount, or only the *)
(* lowest when it quotes one, in its currency.                             *)
SalaryIsAsQuoted ==
    salary # Absent =>
        /\ {salary[1], salary[2]} \ {Absent} = {10 * n : n \in quote.amounts}
        /\ salary[2] # Absent => salary[1] <= salary[2]
        /\ salary[3] = quote.currency
=============================================================================
