----------------------------- MODULE MCRequests -----------------------------
(***************************************************************************)
(* Requests, of the texts closest to a confusion, decimals around every    *)
(* rounding tie, and documents around one base.                            *)
(***************************************************************************)
EXTENDS Requests, TLC

-----------------------------------------------------------------------------
(* The texts that are closest to a confusion: the tokens, a token in         *)
(* capitals, words at and past the bounds, one with each refused trait.      *)

Word(len, trait) == [len |-> len, trait |-> trait]

\* Each word with its bytes.
WordTable ==
  [w \in {"proforma"} |-> Word(8, "lower")] @@ [w \in {"invoice"} |-> Word(7, "lower")]
  @@ [w \in {"prepayment", "corrective"} |-> Word(10, "lower")]
  @@ [w \in {"final"} |-> Word(5, "lower")] @@ [w \in {"storno"} |-> Word(6, "lower")]
  @@ [w \in {"by-number"} |-> Word(9, "lower")]
  @@ [w \in {"check-account"} |-> Word(13, "lower")]
  @@ [w \in {"STORNO"} |-> Word(6, "plain")] @@ [w \in {""} |-> Word(0, "lower")]
  @@ [w \in {"a", "n"} |-> Word(1, "lower")] @@ [w \in {"n16"} |-> Word(16, "lower")]
  @@ [w \in {"A40", "C40"} |-> Word(40, "plain")] @@ [w \in {"A41", "C50"} |-> Word(50, "plain")]
  @@ [w \in {"-a"} |-> Word(2, "leading")] @@ [w \in {"composed"} |-> Word(2, "nonascii")]
  @@ [w \in {"decomposed"} |-> Word(3, "decomposed")] @@ [w \in {"a b"} |-> Word(3, "space")]
  @@ [w \in {"control"} |-> Word(1, "control")] @@ [w \in {"nonxml"} |-> Word(3, "nonxml")]

MCWords ==
  [w \in DOMAIN WordTable |->
     [len |-> WordTable[w].len, trait |-> WordTable[w].trait,
      fold |-> IF w = "STORNO" THEN "storno" ELSE w,
      stored |-> IF w = "decomposed" THEN "composed" ELSE IF w = "a b" THEN "a" ELSE w]]

Text(segs, padded) == [segs |-> segs, padded |-> padded]
Plain(words) == {Text(<<w>>, FALSE) : w \in words}

MCNamespaces == Plain({"n", "n16", "A40", ""}) \cup {Text(<<"n", "a">>, FALSE)}
MCKeys ==
  Plain({"a", "by-number", "check-account", "A40", "A41", "composed", "decomposed", "a b", ""})
  \cup {Text(<<"a">>, TRUE), Text(<<"a", "storno">>, FALSE)}
MCNumbers ==
  Plain({"storno", "corrective", "a", "A40", "composed", "nonxml"})
  \cup {Text(<<"a">>, TRUE), Text(<<"a", "storno">>, FALSE)}
MCCorrections == Plain({"a", "C40", "C50", "STORNO", "storno", "-a", "composed", "control"})

-----------------------------------------------------------------------------
(* Decimals of at most five digits and four places, so that the products     *)
(* overflow, round up, round down and tie, in whole units, cents and         *)
(* thousandths.                                                              *)

D(m, s) == [m |-> m, s |-> s]

MCQuantities == {D(0, 0), D(1, 0), D(10, 0), D(3, 0), D(-3, 0), D(25, 1), D(999, 0)}
MCPrices == {D(1, 0), D(-1, 0), D(1, 2), D(33335, 3), D(78733, 4), D(5, 1), D(15, 1),
             D(12345, 2), D(99999, 0), D(2, 3)}
MCRates == {D(0, 0), D(5, 0), D(27, 0), D(55, 1), D(100, 0), D(101, 0), D(-5, 0)}

-----------------------------------------------------------------------------
(* Documents around one base: every item list with every currency and        *)
(* exchange-rate override, and the other inputs one at a time.               *)

None == {}
Some(x) == {x}

Percent(rate) == [is |-> "percent", rate |-> D(rate, 0)]
Item(quantity, price, rate, amounts) ==
  [quantity |-> quantity, unit_price |-> price, vat_rate |-> rate, amounts |-> amounts]

Whole == Item(D(1, 0), D(100, 0), Percent(27), None)
Cents == Item(D(3, 0), D(7873, 3), Percent(27), None)
Deduction == Item(D(-1, 0), D(4, 1), Percent(27), None)
Stated == Item(D(3, 0), D(78733, 4), Percent(27),
               Some([net |-> D(2362, 2), vat |-> D(638, 2), gross |-> D(30, 0)]))
Huge == Item(D(999, 0), D(99999, 0), Percent(27), None)

NoOverrides == [currency |-> None, language |-> None, exchange_rate |-> None,
                template |-> None, send_email |-> None, e_invoice |-> None,
                number_prefix |-> None]
BuyerNamed(name) == [name |-> name, details |-> "details"]
Base == [buyer |-> BuyerNamed(" Kovacs"), items |-> <<Whole, Deduction>>, overrides |-> NoOverrides,
         payment_method |-> "transfer", paid |-> None, expected_totals |-> None]

Rate(bank, rate) == Some([bank |-> bank, rate |-> rate])
MCExchangeRates == {None, Rate("MNB", None), Rate("OTP", None), Rate("OTP", Some("395.5")),
                    Rate(" OTP ", Some("395.5"))}

MCDocuments ==
  {[Base EXCEPT !.items = items, !.overrides.currency = written, !.overrides.exchange_rate = rate] :
      items \in {<< >>, <<Whole>>, <<Whole, Deduction>>, <<Cents, Whole>>, <<Stated>>, <<Whole, Huge>>},
      written \in {None, Some("EUR"), Some("HUF")}, rate \in MCExchangeRates}
  \cup {[Base EXCEPT !.buyer = BuyerNamed(name), !.payment_method = method] :
           name \in {"Kovacs", " ", "not_xml"},
           method \in {"transfer", "cash", "other"}}
  \cup {[Base EXCEPT !.payment_method = method] :
           method \in {"card", "check", "cash_on_delivery", "pay_pal", "szep_card"}}
  \cup {[Base EXCEPT !.overrides.currency = Some("EUR"),
                     !.overrides.exchange_rate = Rate("", Some("395.5"))]}
  \cup {[Base EXCEPT !.items = items, !.overrides.currency = Some("Ft")] :
           items \in {<<Whole>>, <<Cents, Whole>>}}
  \cup {[Base EXCEPT !.overrides.language = Some(language)] : language \in {"en", "tlh"}}
  \cup {[Base EXCEPT !.overrides.template = Some("most"), !.overrides.send_email = Some(yes),
                     !.overrides.e_invoice = Some(yes), !.overrides.number_prefix = Some("WEB"),
                     !.paid = Some(yes)] : yes \in BOOLEAN}

\* Of the two currencies one comes with the other settings turned on.
MCDefaultSettings ==
  {[currency |-> code, exchange_rate_bank |-> bank, seller |-> "seller",
    language |-> IF code = "EUR" THEN "en" ELSE "hu",
    template |-> Some(IF code = "EUR" THEN "own" ELSE "SzlaAlap"),
    send_email |-> IF code = "EUR" THEN Some(TRUE) ELSE None,
    e_invoice |-> code = "EUR",
    number_prefix |-> IF code = "EUR" THEN Some("EXP") ELSE None] :
     code \in {"HUF", "EUR"}, bank \in {"MNB", "OTP"}}
=============================================================================
