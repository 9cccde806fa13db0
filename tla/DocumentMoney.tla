--------------------------- MODULE DocumentMoney ---------------------------
(***************************************************************************)
(* The money of a document: how a line's net, VAT and gross are computed   *)
(* or, when the caller asserts them, validated, and how the lines add up.  *)
(* A line asked for without amounts is computed by the Agent crate         *)
(* (LineItem::try_calculated); one with amounts goes through the worker's  *)
(* own exact integer arithmetic (explicit_item).  The two must agree, on   *)
(* credits as well as on charges.                                          *)
(*                                                                         *)
(* A Decimal is a coefficient and a scale; its equality ignores trailing   *)
(* zeroes, so the module keeps every Decimal normalized.  The widths are   *)
(* constants: MaxCoefficient and MaxScale stand for Decimal's 96 bits and  *)
(* 28 places, MaxInteger for i128.                                         *)
(***************************************************************************)
EXTENDS Integers, Sequences, SequencesExt, FiniteSetsExt

CONSTANTS MaxCoefficient, MaxScale, MaxInteger

WidthsAssumption ==
    /\ MaxCoefficient \in Nat \ {0} /\ MaxScale \in Nat /\ MaxInteger \in Nat
    /\ MaxCoefficient <= MaxInteger

None == {}
Some(x) == {x}
Get(option) == CHOOSE x \in option : TRUE

Magnitude(n) == IF n < 0 THEN -n ELSE n
Signum(n) == IF n < 0 THEN -1 ELSE IF n > 0 THEN 1 ELSE 0

----------------------------------------------------------------------------
(* Decimals *)

\* Decimal::normalize on a coefficient and a scale: trailing zeroes go.
Normalize(m, s) ==
    LET k == Max({j \in 0..s : Magnitude(m) % 10^j = 0})
    IN  [m |-> Signum(m) * (Magnitude(m) \div 10^k), s |-> s - k]

Zero == [m |-> 0, s |-> 0]
Minus(d) == [d EXCEPT !.m = -d.m]
IsDecimal(d) == /\ d.s \in 0..MaxScale
                /\ Magnitude(d.m) <= MaxCoefficient
                /\ d = Normalize(d.m, d.s)

\* An exact result, or none: nothing is ever rounded to make it fit.
ExactCoefficient(m, s) ==
    LET d == Normalize(m, s)
    IN  IF d.s <= MaxScale /\ Magnitude(d.m) <= MaxCoefficient THEN Some(d) ELSE None

\* Cancelling the tens before multiplying leaves the coefficient the
\* normalized product has, and one that fits Decimal fits i128.
ExactMul(l, r) == ExactCoefficient(l.m * r.m, l.s + r.s)

ExactDiv100(d) == ExactCoefficient(d.m, d.s + 2)

\* Both operands are brought to the larger scale, each within i128.
ExactAdd(l, r) ==
    LET scale == IF l.s > r.s THEN l.s ELSE r.s
        a == l.m * 10^(scale - l.s)
        b == r.m * 10^(scale - r.s)
    IN  IF Magnitude(a) > MaxInteger \/ Magnitude(b) > MaxInteger \/ Magnitude(a + b) > MaxInteger
        THEN None
        ELSE ExactCoefficient(a + b, scale)

\* One rounding of an exact rational, half away from zero.
RoundedRatio(n, d) ==
    IF Magnitude(n) % d >= (d + 1) \div 2
    THEN Signum(n) * (Magnitude(n) \div d) + Signum(n)
    ELSE Signum(n) * (Magnitude(n) \div d)

\* Rounding::Scale(places).apply: half away from zero (rust_decimal's strategy).
Apply(places, d) ==
    IF d.s <= places THEN d
    ELSE LET unit == 10^(d.s - places)
         IN  Normalize(Signum(d.m) * ((2 * Magnitude(d.m) + unit) \div (2 * unit)), places)

----------------------------------------------------------------------------
(* Currencies and VAT tokens *)

\* Currencies of no, two and three minor digits.  Left out: the two of four (CLF,
\* UYW), whose products exceed TLC's integers, and letter case, which is ignored.
Currencies == {"HUF", "Ft", "EUR", "USD", "JPY", "KWD"}
IsHuf(currency) == currency \in {"HUF", "Ft"}
MinorUnitDigits(currency) ==
    CASE IsHuf(currency) \/ currency = "JPY" -> 0 [] currency = "KWD" -> 3 [] OTHER -> 2

\* A VAT token as VatRate::from reads it: a percentage, one of the fifteen
\* codes with no VAT, another code (margin scheme, receipt codes, unknown
\* ones), or a number too long for a Decimal, which stays Other.
VatRates(rates) == [is: {"percent"}, rate: rates]
            \cup [is: {"zero_code", "other_code", "unrepresentable"}, rate: {Zero}]

InPercentRange(rate) == rate.m >= 0 /\ rate.m <= 100 * 10^rate.s

----------------------------------------------------------------------------
(* A line *)

Ok(line) == [ok |-> TRUE, line |-> line]
Err(error) == [ok |-> FALSE, error |-> error]
Line(item, net, vat, gross) ==
    [quantity |-> item.quantity, unit_price |-> item.unit_price, vat_rate |-> item.vat_rate,
     net |-> net, vat |-> vat, gross |-> gross]

\* Variant: the VAT is rounded half up, not half away from zero.
VatValueHalfUp(net, rate, places) ==
    {IF d.s <= places THEN d
     ELSE Normalize((2 * d.m + 10^(d.s - places)) \div (2 * 10^(d.s - places)), places)
        : d \in UNION {ExactDiv100(scaled) : scaled \in ExactMul(net, rate)}}

\* The VAT of a net at a percentage, each step exact before it is rounded.
VatValue(net, rate, places) ==
    {Apply(places, d) : d \in UNION {ExactDiv100(scaled) : scaled \in ExactMul(net, rate)}}

\* LineItem::try_calculated: the net is rounded before the VAT is taken of it.
TryCalculated(item, places) ==
    LET product == ExactMul(item.unit_price, item.quantity)
        net == Apply(places, Get(product))
        taxed == item.vat_rate.is = "percent"
        vat == IF taxed THEN VatValue(net, item.vat_rate.rate, places) ELSE Some(Zero)
        gross == ExactAdd(net, Get(vat))
    IN  IF product = None THEN Err("NetOverflow")
        ELSE IF item.vat_rate.is = "unrepresentable" THEN Err("UnrepresentableVatRate")
        ELSE IF vat = None THEN Err("VatOverflow")
        ELSE IF gross = None THEN Err("GrossOverflow")
        ELSE Ok(Line(item, net, Get(vat), Get(gross)))

Fits(n) == Magnitude(n) <= MaxInteger

\* The amount in minor units, when it has no fraction of one.
HasFraction(amount, scale) == amount.s > scale
Units(amount, scale) == amount.m * 10^(scale - amount.s)

\* The asserted gross is net plus VAT, in minor units.
GrossAgrees(net, vat, gross) == net + vat = gross

\* The VAT follows the net-first or the gross-first convention.
VatAgrees(net, vat, gross, percent, hundred) ==
    vat \in {RoundedRatio(net * percent, hundred),
             RoundedRatio(gross * percent, hundred + percent)}

\* explicit_item, with pow10 and rescale_round: the caller's amounts are sent as they are, or refused.  Of two
\* amounts refused for different reasons the caller reads the first one's.
ExplicitItem(item, amounts, currency) ==
    LET scale == MinorUnitDigits(currency)
        net == Units(amounts.net, scale)
        vat == Units(amounts.vat, scale)
        gross == Units(amounts.gross, scale)
        product == item.unit_price.m * item.quantity.m
        from == item.unit_price.s + item.quantity.s
        shift == 10^Magnitude(from - scale)
        netUnits == IF from > scale THEN RoundedRatio(product, shift) ELSE product * shift
        percent == item.vat_rate.rate.m
        hundred == 100 * 10^item.vat_rate.rate.s
    IN  IF ~IsHuf(currency) /\ currency # "EUR" THEN Err("UnsupportedCurrency")
        ELSE IF \E a \in {amounts.net, amounts.vat, amounts.gross} : HasFraction(a, scale) THEN
                Err("AmountPrecision")
        ELSE IF \E a \in {net, vat, gross, net + vat} : ~Fits(a) THEN Err("Unrepresentable")
        ELSE IF ~GrossAgrees(net, vat, gross) THEN Err("GrossMismatch")
        ELSE IF item.quantity = Zero THEN Err("ZeroQuantity")
        ELSE IF ~Fits(product) \/ ~Fits(shift) \/ ~Fits(netUnits) THEN Err("Unrepresentable")
        ELSE IF netUnits # net THEN Err("NetMismatch")
        ELSE IF item.vat_rate.is \notin {"percent", "zero_code"} THEN Err("UnsupportedVatRate")
        ELSE IF ~InPercentRange(item.vat_rate.rate) THEN Err("UnsupportedVatRate")
        ELSE IF \E a \in {hundred + percent, net * percent, gross * percent} : ~Fits(a) THEN
                Err("Unrepresentable")
        ELSE IF ~VatAgrees(net, vat, gross, percent, hundred) THEN Err("VatMismatch")
        ELSE Ok(Line(item, amounts.net, amounts.vat, amounts.gross))

\* LineItemInput::to_line_item.
ToLineItem(item, currency) ==
    IF item.amounts = None THEN TryCalculated(item, MinorUnitDigits(currency))
    ELSE ExplicitItem(item, Get(item.amounts), currency)

----------------------------------------------------------------------------
(* The document *)

Amounts(line) == [net |-> line.net, vat |-> line.vat, gross |-> line.gross]

\* The running exact sums; one that does not fit stops the document.
AddLine(totals, line) ==
    IF totals = None THEN None
    ELSE LET t == Get(totals)
             n == ExactAdd(t.net, line.net)
             v == ExactAdd(t.vat, line.vat)
             g == ExactAdd(t.gross, line.gross)
         IN  IF None \in {n, v, g} THEN None
             ELSE Some([net |-> Get(n), vat |-> Get(v), gross |-> Get(g)])

Totals(lines) == FoldLeft(AddLine, Some([net |-> Zero, vat |-> Zero, gross |-> Zero]), lines)

\* expected_totals, when given, are the totals to the last unit.
TotalsAgree(expected, totals) == \A e \in expected : e = totals

\* The lines and their totals, or why the document is refused: the first
\* refused line refuses it.
Priced(answers, expected) ==
    LET refused == {i \in DOMAIN answers : ~answers[i].ok}
        lines == [i \in DOMAIN answers |-> answers[i].line]
        totals == Totals(lines)
    IN  IF answers = <<>> THEN Err("NoItems")
        ELSE IF refused # {} THEN Err(answers[Min(refused)].error)
        ELSE IF totals = None THEN Err("Unrepresentable")
        ELSE IF ~TotalsAgree(expected, Get(totals)) THEN Err("TotalsMismatch")
        ELSE [ok |-> TRUE, items |-> lines, totals |-> Get(totals)]

\* DocumentInput::monetary_preflight.
MonetaryPreflight(items, expected, currency) ==
    Priced([i \in DOMAIN items |-> ToLineItem(items[i], currency)], expected)

=============================================================================
