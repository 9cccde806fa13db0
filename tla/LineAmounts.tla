---------------------------- MODULE LineAmounts ----------------------------
(***************************************************************************)
(* One document line under a currency, with the arithmetic of              *)
(* DocumentMoney: asked for, answered, asked for again with the figures    *)
(* asserted, and taken back with the sign changed.                         *)
(***************************************************************************)
EXTENDS DocumentMoney

CONSTANTS Quantities, Prices,   \* the Decimals a caller may write
          Rates,                \* the percentages among the VAT tokens
          Drift                 \* how far, in units of the last place, a caller's own figures may be off

DriftAssumption == Drift \in Nat

VARIABLES currency,   \* the currency the document is prepared in
          asked,      \* the line input
          answer,     \* {} or the answer to asked
          earlier     \* {} or the line answered before, which asked asserts or deducts

vars == <<currency, asked, answer, earlier>>

Items == [quantity: Quantities, unit_price: Prices, vat_rate: VatRates(Rates), amounts: {None}]

Init == /\ currency \in Currencies
        /\ asked \in Items
        /\ answer = None
        /\ earlier = None

\* The line is prepared as the document's preflight prepares it.
Prepare ==
    /\ answer = None
    /\ answer' = Some(ToLineItem(asked, currency))
    /\ UNCHANGED <<currency, asked, earlier>>

\* A caller's own figure, off by a few units of the currency's last place.
Nudged(amount, by) ==
    LET places == MinorUnitDigits(currency)
    IN  Normalize(amount.m * 10^(places - amount.s) + by, places)

\* The caller keeps the figures, or computes its own close to them, and sends
\* the line again with the amounts asserted.
Reassert(vatBy, grossBy) ==
    /\ answer # None /\ Get(answer).ok /\ asked.amounts = None
    /\ LET line == Get(answer).line
       IN  /\ asked' = [asked EXCEPT !.amounts =
                            Some([net |-> line.net, vat |-> Nudged(line.vat, vatBy),
                                  gross |-> Nudged(line.gross, grossBy)])]
           /\ earlier' = Some([line |-> line, again |-> "asserted"])
    /\ answer' = None
    /\ UNCHANGED currency

\* A final invoice or a corrective takes the line back: the quantity and any
\* asserted amounts change sign.
Deduct ==
    /\ answer # None /\ Get(answer).ok /\ asked.quantity.m > 0
    /\ asked' = [asked EXCEPT !.quantity = Minus(@),
                              !.amounts = {[net |-> Minus(a.net), vat |-> Minus(a.vat),
                                            gross |-> Minus(a.gross)] : a \in @}]
    /\ earlier' = Some([line |-> Get(answer).line, again |-> "deducted"])
    /\ answer' = None
    /\ UNCHANGED currency

Next == \/ Prepare
        \/ \E vatBy, grossBy \in (-Drift)..Drift : Reassert(vatBy, grossBy)
        \/ Deduct

Spec == Init /\ [][Next]_vars

----------------------------------------------------------------------------
(* Properties *)

TypeOK ==
    /\ currency \in Currencies
    /\ asked.quantity \in Quantities \cup {Minus(q) : q \in Quantities}
    /\ \A o \in asked.amounts : IsDecimal(o.net)
    /\ \A o \in answer : o.ok =>
           IsDecimal(o.line.net) /\ IsDecimal(o.line.vat) /\ IsDecimal(o.line.gross)

\* Reference: n is num / den rounded once, half away from zero.
Nearest(n, num, den) ==
    LET off == Magnitude(n * den - num)
    IN  2 * off < den \/ (2 * off = den /\ Magnitude(n) * den > Magnitude(num))

Scale == MinorUnitDigits(currency)
NetOf(line) == Units(line.net, Scale)
VatOf(line) == Units(line.vat, Scale)
GrossOf(line) == Units(line.gross, Scale)
Answered == answer # None /\ Get(answer).ok

\* The net of every line that is sent is unit price times quantity rounded
\* once, and its gross is net plus VAT to the last unit: what the provider
\* verifies with codes 259 to 264 (item.rs, LineItem; money.rs, explicit_item).
SentLineAddsUp ==
    Answered =>
        LET line == Get(answer).line
            places == asked.unit_price.s + asked.quantity.s
        IN  /\ Nearest(NetOf(line), asked.unit_price.m * asked.quantity.m * 10^Scale, 10^places)
            /\ GrossOf(line) = NetOf(line) + VatOf(line)

\* Accepting two rounding conventions never lets the VAT drift: the VAT of a
\* line that is sent, asserted or computed, is off net * rate / 100 by at most
\* half a unit times (1 + rate / 100), and a code without VAT has none.
VatStaysWithinRounding ==
    Answered =>
        LET line == Get(answer).line
            rate == line.vat_rate.rate
            hundred == 100 * 10^rate.s
        IN  IF line.vat_rate.is = "percent"
            THEN 2 * Magnitude(VatOf(line) * hundred - NetOf(line) * rate.m)
                     <= hundred + Magnitude(rate.m)
            ELSE VatOf(line) = 0

\* The two arithmetics agree: a line the Agent crate computed, sent again with
\* those very amounts asserted, is accepted unchanged or refused for a reason
\* of scope or width, never as inconsistent.
CalculatedAmountsAreAcceptable ==
    \A e \in earlier, a \in answer :
        (e.again = "asserted" /\ Get(asked.amounts) = Amounts(e.line))
        => \/ a = Ok(e.line)
           \/ ~a.ok /\ a.error \in {"UnsupportedCurrency", "UnsupportedVatRate",
                                   "ZeroQuantity", "Unrepresentable"}

\* A deduction cancels the line it takes back: a line that was accepted is
\* accepted with the sign changed too, and its amounts are the exact opposites
\* (a final invoice takes the prepayment back as a negative line).
DeductionCancels ==
    \A e \in earlier, a \in answer :
        e.again = "deducted" =>
            /\ a.ok
            /\ Amounts(a.line) = [net |-> Minus(e.line.net), vat |-> Minus(e.line.vat),
                                  gross |-> Minus(e.line.gross)]

=============================================================================
